SPECIFICATION Spec
CONSTANTS
  Disks <- Disks3
  Places <- Kept
  Chunks <- Batch
  SIZE = 2
  Troubles = TRUE
  LINE = 11
  RECALL = 2
  EDITS = 5
  Keys = {"a", "b"}
  Space = " "
  Quote = "q"
  DrivePrefix = "d"
  Return = "cr"
  Feed = "lf"
  Begun <- Lines
  Scripts <- BatchFiles
  ROWS = 3
  COLS = 2
  BATCH = 5
  Letters = {"a", " "}
  CR = "cr"
  LF = "lf"
  Dot = "a"
  Blank = " "
  Texts <- TextFiles
  Tapes <- SomeTapes
  Models <- Drives
  SIDE = 2
  PerTrack <- Tracks
  DENSE = 3
  PERDENSE = 5
  HEADER = 2
  DENSEHEADER = 2
  Labels = {"new"}
  Ids = {"ab"}
  Catalog <- Directories
  Patterns <- Wanted
  Routines <- AllRoutines
  Gates <- AllGates
  Home <- HomeBank
  Calls <- CallGraph
  Callers <- DriverCallers
  Chips <- SomeChips
  Names <- NamesOfVariables
  Values <- SomeValues
  Equals = "="
  Nul = "0"
  ENVSIZE = 9
  PROMPT <- PromptName
  COLOR <- ColorName
  CHARSET <- CharsetName
  Unaccepted <- NoneOf
  ColorOf <- Triples
  Slots <- TwoSlots
  FontOf <- FontFiles
  Bitmaps = {"a", "b"}
  Machines <- Boots
  TURNS = 3
  Documents <- SomeDocuments
  Wishes <- SomeWishes
  CARRIAGE = "cr"
  LINEFEED = "lf"
  BUFFER = 2
  COLUMNS = 2
  Numerals <- Numbers
  TypedLines <- SomeLines
  SPACE = " "
  QUOTE = "q"
  SLASH = "/"
  GREATER = ">"
  COLON = ":"
  ATSIGN = "@"
  ASK = "?"
  STAR = "*"
  Barred <- NotInNames
  Unparsed <- OwnWords
  Redirectable <- FileWords
  Printers <- PrinterWords
  DigitOf <- Decimals
  DriveOf <- Lettered
  NativeOf <- Native
  CURRENT = 8
  MAXARGS = 3
  LONGEST = 2
INVARIANTS FlagsMarkNames BatchLinesAreWhole
INVARIANTS SavedTextReturns SavedIsWhole OldFilesKept NothingLeft
INVARIANTS CodeIsMapped InterruptsAreServed DriverIsWhole
INVARIANTS DiskVerdictIsReal OnlyWhatWasAsked FailsForCause
INVARIANTS FontIsWhole SettingsInForce ShowsWhatWasAsked WordsAreArguments RedirectsWhatWasTyped
PROPERTY NoRowLost EnvironmentIsMap
CHECK_DEADLOCK FALSE
