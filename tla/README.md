# MCS-DOS in TLA+

MCS-DOS is a DOS-like command shell for the Commodore 64 that lives on an
EasyFlash cartridge. It keeps files in a journal in the cartridge's flash, talks
to disk drives over the serial bus, and can leave for BASIC or for another
program and come back where it was. This directory holds TLA+ models of the
parts of it whose correctness depends on order, failure and interruption, the
TLC runs that check them, and proofs about them. Paths below are relative to
the repository (`src/` is its C source).

## 1. The system

One 6510 processor runs everything; there are no threads. What makes the
system hard is that it can be reset or lose power between any two device
operations, that flash only clears bits and is erased in whole chips, that
drives fail late (a lost write shows when the drive is next asked), and that
the shell's own state is spread over banks, RAM and flash.

| Component | Source | State | Operations | Makes it correct |
|---|---|---|---|---|
| Flash journal | `src/easyflash/journal.h`, `fs.c` | two 64K flash sectors; directory index, totals and tail in RAM; one unfinished write; open channels | mailbox requests OPEN, READ, WRITE, CLOSE, ABORT, COMMAND, ATTRIBUTE, COMPACT, INIT; mount, scan, compact | a file is replaced as a whole or not at all; open readers keep what they opened; the index is what a reset would rebuild; flash is programmed once; space never runs out half way |
| Session journal | `src/easyflash/session-store.h` | 16 slots on each of two chips | BEGIN, WRITE, COMMIT, RESTORE, READ | the newest session survives every failure; only the exact session asked for is restored |
| Leaving and returning | `src/session.c`, `mcsdos.c` (main), `boot.c`, `easyflash/wedge.c`, `tape-bridge.c`, `tape.c` | the shell's variables, the RESUME descriptor, TAPE_PENDING | EXIT, RUN, TAPECOPY, SHELL, start | the shell that comes back is the one that left |
| Devices and channels | `src/core.c`, `cart.c`, `c64-support.c` | logical files 2, 3, 5; command channels 14, 15; directory cache; end-of-file flags | open, read, write, close, status, directory | no request closes a file in use; errors told late are still told; the cache is never stale |
| File commands | `src/filemgmt.c`, `fileutil.c` | the command in progress | COPY, MOVE, REN, DEL, ATTRIB, DIR, wildcards, concatenation | no contents are lost; success means done |
| Redirection, TYPE, FIND | `src/core.c` execute(), `src/fileutil.c` | output channel, its buffer; line counts, two read cursors | TYPE, FIND, DIR, MEM, CHKDSK, ECHO `> file` | a short output file is reported; the lines shown are those asked for, wherever reads fall |
| Tape copier | `src/easyflash/tape.c`, `src/tape.c` | file loop, retries, destination | read tape files, write them to a device | a bad file is removed again |
| Editor | `src/edit.c` | a screen of text, cursor | load, keys, save | a saved text comes back as it was; no row is lost unseen |
| Command line | `src/edit.c`, `mcsdos.c` | the line, its flags, history ring, completion | keys, recall, complete, enter | names reach the device byte for byte |
| Disk utilities | `src/disk.c` | the shared sector buffer, raw block channels | FORMAT, DISKCOPY, CHKDSK, VOL, DISKINIT, LABEL, DISKID, ATTRIB on a disk, the copy of REL files | a copy is whole; no write strikes another sector |
| Parser, batch files | `src/core.c`, `mcsdos.c` | line buffers, arguments and their flags | execute, executecommand, tokenize, path, filename | arguments are the words of the line; output goes where the line says; no line is lost or read past |
| Startup, environment | `src/boot.c`, `mcsdos.c` (main) | packed environment; prompt, colours; staged and active font | start, AUTOEXEC.BAT, SET, REBOOT, font file | SET changes what it names; a bad font file leaves no trace; settings come into force after the batch |
| Bank switching | `src/bank-gates.c`, `banking.c` | BANK_CURRENT, bank and mode registers | 49 gates, nested calls | the caller's bank comes back |
| Driver gate, launch, fonts | `src/cart.c`, `launch.c`, `charset.s`, `easyflash/bridge.c`, `run.c`, `loader.c`, `boot.c` | mailbox, CPU port, flash routines in screen RAM | one driver call; font copies; start of a program | memory map restored; interrupts find a handler; nobody overwrites the driver |

How they interact: the shell calls the filesystem and the session store by a
mailbox (a command byte and a payload); the driver runs with interrupts off, so
a request is never interleaved with another and its reply is complete before
the shell goes on. Commands share the directory cache and the command channels.
The wedge in BASIC, foreign programs and the tape bridge talk to the shell only
through the RESUME descriptor at $C1E0, which survives a reset.

`PROJECT.json` lists every component with its state of modelling, and the
hazards the properties are for.

## 2. Modules

| Module | What it is | Code |
|---|---|---|
| `Journal` | the flash journal and its mailbox handlers | `journal.h`, `fs.c` |
| `FileStore` | what the cartridge filesystem promises, with no flash in sight | (abstract) |
| `JournalStore` | `Journal` implements `FileStore` | |
| `JournalInvariant` | an inductive invariant of `Journal` | |
| `JournalProofs` | theorems about `Journal`: its control and indexes, the space in a log, and with it the whole invariant | |
| `JournalDurability` | an inductive invariant of `JournalStore`: what a reset would find, and what the journal knows of it | |
| `JournalStoreProofs` | theorems: that invariant, flash that is programmed once, the choice of a side, and `Journal` implements `FileStore` | |
| `SessionStore` | the session journal | `session-store.h` |
| `Session` | leaving and coming back; EXTENDS `SessionStore` | `session.c`, `mcsdos.c`, `wedge.c`, ... |
| `SessionProofs` | theorems about `Session` | |
| `Channels` | channels, command channels, directory cache; drives from outside | `core.c`, `c64-support.c`, `cart.c` |
| `FileCommands` | COPY, MOVE, REN, DEL, wildcards; EXTENDS `Channels` | `filemgmt.c` |
| `Shell` | commands with redirected output, reset, the whole; EXTENDS `FileCommands` | `core.c` |
| `ShellProofs` | types, channels and cache of `Shell`: lemmas, theorems | |
| `ShellContents` | what happens to the contents of files: theorems about `Shell` | |
| `TapeCopier` | TAPECOPY's own program, after the shell has left; EXTENDS `Channels` | `easyflash/tape.c` |
| `Editor` | EDIT; EXTENDS `Channels` | `edit.c` |
| `CommandLine` | one line of input: editing, history, completion; batch lines | `edit.c`, `mcsdos.c` |
| `DiskTools` | the disk utilities, ATTRIB on a disk and the copy of REL files; EXTENDS `Channels` | `disk.c`, `filemgmt.c` |
| `Banks` | calls between banks, to the driver and beneath the KERNAL | `banking.c`, `bank-gates.c`, `bridge.c`, `charset.s` |
| `Gates` | the gates of this program and who calls them: values for `Banks` | `bank-gates.c`, callers |
| `Startup` | power-on to prompt, the environment, settings, fonts | `boot.c`, `mcsdos.c` |
| `Variables` | what SET promises: a map with a limit | (abstract) |
| `ToolsProofs` | theorems about `Banks`, for any gates, `Startup`, `TapeCopier`, `CommandLine` and `Editor` | |
| `DiskProofs` | theorems about `DiskTools` | |
| `Parser` | from a line to command, arguments and destination | `core.c` |
| `ParserProofs` | theorems about `Parser` | |
| `Filters` | TYPE and FIND, byte by byte | `fileutil.c` |
| `Tools` | `TapeCopier`, `Editor`, `CommandLine`, `DiskTools`, `Banks`, `Startup`, `Parser`, `Filters` side by side, one at a time | |
| `MC*` | values for the constants, symmetry and views for TLC | |

### 2.1 Journal

**State.** `sector` and `cell` are the flash: per side a header and an array of
units. A unit is blank, a payload byte, a record (kept in its header's first
unit), or unusable. The other variables carry the names the code gives them
(`heads`, `livebytes`, `tail`, `dirty`, `writer`, `rotating`, `writebase`,
`cursor`, `newname`, `wslot`, ...), `data` is the payload written so far, which
stands for the length and running CRC the code keeps.

**Steps.** A request runs with interrupts off, so requests are atomic with
respect to each other, but not with respect to a reset. `pc` names the block of
code that runs next. An action is the code from one group of flash operations
to the next. Operations that a scan cannot tell apart are one group: the bytes
of a payload, the fields of a header before its commit byte. The order of groups
is the code's: tag byte, payload, fields, commit byte; erase, copies, header
fields, seal marker. `PowerLoss` is enabled in every state, also in the middle of
a chip erase (`HalfErased`).

**Faults.** With `Faults`, every flash operation may report an error; a record
that failed part way is left as its programmed part, and a failed program
operation may spoil the unit it was meant for. A reported error is taken to
mean that the byte was not programmed. With `Decays`, a programmed unit may go
bad while the power is off.

**Abstracted.** CRCs are perfect: a CRC is the bytes it covers. Names, and the
patterns that match them, are model values and sets of them.
`CART_LOADER`, `CART_STATS`, `CART_CONFIG` and `CART_LOOKUP` only read.
`CART_DIRECTORY` does not: it makes a listing of whatever channel is named
(`ListFiles`), one that is reading or writing included, without a look at its mode
(fs.c:530). `Listers` are the channels it is asked for on; in the shell that is
logical file 2 (filemgmt.c:289 and 536), and files are written on 3 and 5, so no
listing meets a file that is being written. In the model it may: the writer then has no
channel that commits it, until an ABORT or a reset.

### 2.2 FileStore and the refinement

`FileStore` is a dictionary with atomic replacement, renaming and deletion, open
readers with the contents they opened, and one draft. `JournalStore` maps the
journal to it. The files of the store are not what the index in RAM says but
the files *a reset at this very moment would bring back*, computed from the
flash by a definition that is independent of the scan. So `ImplementsStore` says
at once that each request has its effect at a single flash operation (the commit
byte, or the seal marker), that compaction and mount have none, that a failure
or a reset at any other point loses only the draft, and that readers keep
their contents through compaction and replacement.

### 2.3 Session

The shell's saved state is `SIZE` chunks. `Save*` actions are the driver's flash
steps; `Leave`, `GoAway`, `StayHere`, `StartCopier`, `CopierEnds`, `TypeShell`,
`Main`, `Restore*`, `Cold` and `Report` are the paths out of the shell and back.
`Reset` keeps RAM and can happen anywhere; `PowerLoss` leaves anything plausible
in the descriptor. `Scribble` is a foreign program that overwrites it: the worst
descriptor considered names an existing slot and its generation but cannot
contain the checksum of a session the program never saw, nor the tape bridge's
request byte (`manual.txt:342,363` and `tests/scenarios/run-return.js:36` state
what programs may use). An erase that is interrupted has two phases, as flash
chips do it: bits are cleared unit by unit, then all are raised.

`departed`, `newest`, `flawed` and `copied` are history variables; no step of
the code reads them.

### 2.4 Channels, FileCommands, Shell

A file is a sequence of chunks that is closed or not, locked or not. A place is
a device and a name; device 0 is the cartridge. Every action is the code around
one request to a device; `pc` names the request that comes next. The cartridge
behaves as `FileStore` promises. Drives are outside the code and are modelled
from how the code uses them: a drive keeps its last error until asked, lets
writes go when it is full or out of order, closes all its files when its command
channel is closed, skips locked files in a scratch, refuses to create a name
that exists, and with `Troubles` may fail at any request. A failed close leaves
the file unclosed, and an open for writing that fails may leave the file it began
(`OpenWriteFails`), after which the code neither removes the file nor forgets the
directory it has read. `Restart` (reset, power loss, REBOOT) can happen at any step.
Questions to the user and RUN/STOP are free choices.

Left out: REL files (`DiskTools` copies them) and file types (all files are SEQ), swapping disks, more than
two sources of a concatenation, texts, options that only change the format of
the output. `TYPE` stands for TYPE and FIND, `DIR` for DIR and CHKDSK, `ECHO` for
ECHO, MEM and HELP.

### 2.5 Tape copier

`copier` names the next request of `copy_main()`'s loop. A tape is a sequence of
files of the kinds the copier tells apart, `head` the file and block under the
head. A bad block and RUN/STOP are free choices wherever the program looks.
`Discard` is `cleanup()`, which the error path of `finishoutput()` and the end of
the program both call. `unheard` is a history variable for the one case
in which the copier cannot know that it left a file behind: the drive created
it and the answer was lost, so `openoutput()` reports a write error and has
nothing to clean up. `NothingLeft` excludes that case and no other.

### 2.6 Editor

`text` is `editbuf`, row by row; `Scanned` is what the loader does with one
character (CR, LF, CR LF, wrapped full rows, overflow), `Batches` what the saver
writes. A chunk is a batch of characters, so the boundaries of batches, at
which the code splits its writes, are visible. The requests around it are those of
`Channels`. When a save fails after the old file on a *disk* was scratched,
both texts are gone; on the cartridge the old one is still there:
`SavedTextReturns` says which.

### 2.7 Command line

`buf`, `raw`, `pos` and `comp`, `ci` are the line, the flags of the
characters that must reach the device as they are, the caret and the running
completion; `history`, `histnext`, `histcount`, `h`, `draft` the ring. One
action per key. `executed` is a history, and `cut`
marks the one way a flagged name can lose its end: the opening quote of
a completed name that contains a space is deleted and the rest of it is completed
again after the space. What stays flagged is then the head of a name, not a
whole one, although `edit.c:496` says that editing a name relinquishes its flags.
`FlagsMarkNames` says exactly that much. `ReadBatch` is the reader of batch files.

### 2.8 Disk tools

A disk maps sectors to what they hold: header, repeated ID, payload. The
subroutine that transfers one sector (`bank_blockchannel`) is `Point`, `Fill`,
`Seek` and `Fetch`, and `block` says where it goes on. A drive keeps a buffer that
dies with its channel; a channel dies when its command channel is replaced
(`Channels`), which is what the order of `Settle` before `OpenBoth` is for. `io` is
the one sector buffer that LABEL, DISKID and DISKCOPY share, `eof` the end-of-file
flag that `U1` resets. VOL and CHKDSK read the
directory and then the header, which may fail on a drive or disk that is not supported. ATTRIB reads a chain of directory sectors, each with a set of
entries, and writes back those in which a lock bit changed (`NextList`, `Mark`). The
copy of a REL file looks for its entry in the same chain (`SeekRelative`), then reads
its blocks, cuts them into records (`Spread`) and puts each in its place in the new
file (`Position`, `PutRecord`), `relative`, which the drive keeps apart from the sectors.
Links may be damaged. What `v0` and `i0` do in a drive, a first entry of length 255 and
a last block of no byte, and a copy of a REL file to the cartridge, are left out. `excuse` is a history variable: a device failed or the user
stopped the command.

### 2.9 Banks

`stack` is the chain of calls, each with the bank its gate noted; `current` is
BANK_CURRENT, `bank`, `mode` and `port` are the registers. A routine is either
behind a gate, with the bank `Home` gives it, or resident. `CallRoutine` and
`ReturnRoutine` are a gate's two halves; `CallDriver`, `UseChip`, `ChipDone` and
`DriverDone` are `bridge.c`, which saves nothing and restores the map from
BANK_CURRENT. `TouchFont` and `PrepareFont` unmap the KERNAL; `low` says whether the RAM
of the default screen holds the driver's flash routines or a picture.

`Gates` gives the constants their values: all gates with their banks, and the
calls between routines of different banks or to resident ones. A routine may make
its calls in any order and any number of times, or none, except where the order
matters (`MayCall`: the start of `bootstart()`, SPLASH).

### 2.10 Startup and Variables

`shell` says where `main()` is. The environment is the code's packed bytes, and
`EntryOf`, `RestOf` and `Fitting` are `envget()`, the `memmove()` and the test
before it; `Variables` is the map the user thinks of, and `EnvironmentIsMap` is
the refinement, saving and restoring of sessions included. Font files have entries,
drives they are on, and a sum that is right or not; `staged` and `active` are the
two copies of the font. Colour triples and font names are values that mean something or not.

`Resume` gives back what `statebyte()` saves. Two things that a reader may not
expect are in the model because they are in the code: REBOOT from within
AUTOEXEC.BAT starts it again, and a program that AUTOEXEC.BAT runs comes back to
a prompt at which no settings were ever applied (`envready` is saved as 0);
`SettingsInForce` says both. What shows is then the defaults, never a mixture.

### 2.11 Parser

`ScanByte` is the loop of `execute()` over the line, `NextWord`, `WordByte` and
`WordEnds` are `tokenize()`, which runs up to three times over parts of one line
(`why` says for what). Characters are the ones the code tells apart. The
properties read the line all at once (`Words`, `Arrows`), with no state. What the
code does, and the properties allow: a redirected line may begin with any
number of `@`, others with one; `path()` computes a drive number in 16 bits, so
`65544:` is drive 8.

### 2.12 Filters

The two loops of `fileutil.c`, a byte at a time: `here` and `there` are FIND's
cursors, `lastcr`, `skip`, `pending`, `wrapped` the code's flags. Buffers
matter where a read may fail (`AtRefill`). `Expected` is computed from the file's
lines and has none of those flags.

## 3. Runs

| Run | Configuration | Checks | Shows |
|---|---|---|---|
| `journal_replace` | `MCJournal_replace.cfg` | `RebuiltSideIsFree`, `SpaceSuffices`, `ImplementsStore`, `ProgrammedOnce` | Replacing, appending to and reading one file through two channels, with compaction before and during a write and power loss anywhere: the store's promises hold, open readers keep their contents, and no write runs out of a sector. |
| `journal_directory` | `MCJournal_directory.cfg` | `Durability` | Write, wildcard delete and replacing rename over two directory slots: the inductive invariant from which the refinement is proved. A reset finds a whole log at any moment, and the index, the scan, the copy under construction and the record being written agree with it. |
| `journal_faults` | `MCJournal_faults.cfg` | `Invariant`, `WriterOwnsChannel`, `IndexIsDurable`, `ImplementsStore` | Every request that writes, with read-only files and concatenations that move to the other chip half way, while any flash operation may report an error: failed requests leave the old file, a consistent index and no writer without its channel, unless a directory was listed over it. The inductive invariant behind the proofs holds. |
| `journal_mount` | `MCJournal_mount.cfg` | `ActiveIsNewest`, `MountsWhatItCan`, `RequestsEnd` | Flash units go bad while the power is off, flash operations report errors, and generations wrap: mount truncates a damaged tail, rejects a damaged sealed prefix, falls back to the other chip whenever that one is whole, picks the chip the running system used otherwise, and always ends. |
| `journal_pinned` | `MCJournal_pinned.cfg` | `RoomIsFound` | **violated:** A write that fits the capacity is refused because an open reader pins the chip it must be moved to. |
| `session` | `MCSession.cfg` | `NewestKept`, `ResumesDeparture`, `ReportsAreReal`, `FailuresExplained` | Two chips of two slots, a wrapping generation, flash errors, interrupted erases, reset and power loss at every step, programs that scribble on the descriptor: the newest session survives and the shell that comes back is the one that left. |
| `shell_drives` | `MCShell_drives.cfg` | `CopiesStayOpen` | COPY, MOVE and redirected TYPE, DIR and ECHO among three drives that share two command channels, may fail at every request and hold locked files, with resets anywhere: no copy loses a file it has open to the exchange of command channels. |
| `shell_directories` | `MCShell_directories.cfg` | `MoveKeepsContents`, `CartridgeKeepsOld`, `SuccessIsReal`, `CacheIsFresh` | Every file command, wildcards and redirection between a directory on the cartridge and one on a drive, with the same failures: old cartridge files stay until they are replaced, every match is handled although the directory changes under the loop, and between commands the cached directory is the directory, but for an empty file that a failed open may have left. |
| `shell_live` | `MCShell_live.cfg` | `LiveFilesStayOpen` | **violated:** DIR of one drive redirected to another closes the output file when a third drive was used before. |
| `shell_move` | `MCShell_move.cfg` | `MoveDeletesSource` | **violated:** MOVE of a locked disk file reports success and leaves the source. |
| `shell_combine` | `MCShell_combine.cfg` | `ConcatCombines` | **violated:** COPY a+b a on a disk scratches a before it is read. |
| `tools` | `MCTools.cfg` | `FlagsMarkNames`, `BatchLinesAreWhole`, `SavedTextReturns`, `NoRowLost`, `SavedIsWhole`, `OldFilesKept`, `NothingLeft`, `DiskVerdictIsReal`, `OnlyWhatWasAsked`, `FailsForCause`, `CodeIsMapped`, `InterruptsAreServed`, `DriverIsWhole`, `FontIsWhole`, `SettingsInForce`, `EnvironmentIsMap`, `ShowsWhatWasAsked`, `WordsAreArguments`, `RedirectsWhatWasTyped` | The parts of the shell that take turns, each from all its starting states: startup, settings and sessions; calls between banks and to the driver; the command line with history, completion and batch files; the parser; TYPE and FIND; the editor from load to save; the tape copier; and the disk utilities, ATTRIB and the copy of REL files on each kind of drive and on damaged disks, all with devices that may fail at every request. |

A slip is a definition `X_Slip` next to `X`: what `X` would be after a plausible
mistake. Each property of each passing run is violated when one of them takes
the place of the definition it belongs to:

| Slip | Caught by |
|---|---|
| `Referenced_Never` | `RebuiltSideIsFree` in `journal_replace` |
| `Room_Draft` | `SpaceSuffices` in `journal_replace` |
| `Copied_Offset` | `ImplementsStore` in `journal_replace` |
| `TailUnusable_Dirty` | `ProgrammedOnce` in `journal_replace` |
| `Publish_Header` | `Durability` in `journal_directory` |
| `ToCopy_Stale` | `Invariant` in `journal_faults` |
| `Release_Lost` | `WriterOwnsChannel` in `journal_faults` |
| `SpoilsTail_Never` | `IndexIsDurable` in `journal_faults` |
| `Incoming_Target` | `ImplementsStore` in `journal_faults` |
| `Newer_Linear` | `ActiveIsNewest` in `journal_mount` |
| `PrefixLost_Never` | `ActiveIsNewest` in `journal_mount` |
| `FallBack_Never` | `MountsWhatItCan` in `journal_mount` |
| `FallBack_Again` | `RequestsEnd` in `journal_mount` |
| `Victim_Same` | `NewestKept` in `session` |
| `Later_Linear` | `NewestKept` in `session` |
| `DropToken_Kept` | `ResumesDeparture` in `session` |
| `TapeResume_Pending` | `ReportsAreReal` in `session` |
| `BeginStatus_Latched` | `FailuresExplained` in `session` |
| `NextSlot_Stuck` | `CopiesStayOpen` in `shell_drives` |
| `Told_Never` | `MoveKeepsContents` in `shell_directories` |
| `ReadFailed_Ignored` | `MoveKeepsContents` in `shell_directories` |
| `Aborted_Committed` | `CartridgeKeepsOld` in `shell_directories` |
| `NextListing_Reused` | `SuccessIsReal` in `shell_directories` |
| `Following_Shifted` | `SuccessIsReal` in `shell_directories` |
| `AfterCommand_Cached` | `CacheIsFresh` in `shell_directories` |
| `Forget_Cached` | `CacheIsFresh` in `shell_directories` |
| `Touched_After` | `FlagsMarkNames` in `tools` |
| `Following_Single` | `BatchLinesAreWhole` in `tools` |
| `RowEnds_Always` | `SavedTextReturns` in `tools` |
| `MayInsert_Here` | `NoRowLost` in `tools` |
| `Failed_Unasked` | `SavedIsWhole` in `tools` |
| `Taken_Unasked` | `OldFilesKept` in `tools` |
| `FullLeaves_Nothing` | `NothingLeft` in `tools` |
| `Copies_None` | `DiskVerdictIsReal` in `tools` |
| `LastTrack_Short` | `DiskVerdictIsReal` in `tools` |
| `ReadFirst_Forgotten` | `OnlyWhatWasAsked` in `tools` |
| `SeekEof_Kept` | `FailsForCause` in `tools` |
| `Applied_Kept` | `Durability` in `journal_directory` |
| `Valid_Uncommitted` | `ImplementsStore` in `journal_faults` |
| `BlankSlots_Uncommitted` | `FailuresExplained` in `session` |
| `Resident_First` | `CopiesStayOpen` in `shell_drives` |
| `Shown_Never` | `SuccessIsReal` in `shell_directories` |
| `Lost_Unmarked` | `SavedTextReturns` in `tools` |
| `bank_enter_Late` | `CodeIsMapped` in `tools` |
| `vectorAfter_Kept` | `InterruptsAreServed` in `tools` |
| `EndSplash_Bare` | `DriverIsWhole` in `tools` |
| `EntryOf_Prefix` | `EnvironmentIsMap` in `tools` |
| `Fitting_Anew` | `EnvironmentIsMap` in `tools` |
| `charset_prepare_Half` | `FontIsWhole` in `tools` |
| `Whole_Unchecked` | `FontIsWhole` in `tools` |
| `readyAtStart_Kept` | `SettingsInForce` in `tools` |
| `LinesCounted_Ended` | `ShowsWhatWasAsked` in `tools` |
| `SwallowEnd_Never` | `ShowsWhatWasAsked` in `tools` |
| `Hits_Stay` | `ShowsWhatWasAsked` in `tools` |
| `Skipped_Not` | `ShowsWhatWasAsked` in `tools` |
| `Flag_Shifted` | `WordsAreArguments` in `tools` |
| `Separates_Spaces` | `WordsAreArguments` in `tools` |
| `Behind_One` | `RedirectsWhatWasTyped` in `tools` |
| `Doubled_Never` | `RedirectsWhatWasTyped` in `tools` |
| `NextRecord_Kept` | `DiskVerdictIsReal` in `tools` |
| `Hit_Scratched` | `OnlyWhatWasAsked` in `tools` |

### Bounds

- **Journal.** Sectors are as small as `JournalAssumption` allows, so every few
  requests fill one and compact: `LIMIT` is 4 or 5 units with headers of one
  unit, 1 or 2 slots, a capacity of 1 or 2 units. Moves, double moves, replaced
  names, full directories, damaged tails and wrapping generations
  (`GENERATIONS = 4`) all happen; `journal_replace` has two channels, so that a
  reader and a writer cross a compaction, and `journal_faults` has a second one for
  writing and listing (`Listers`); a listing over a channel that is being read is only in the
  proofs. No bound on the number of requests:
  the state space is finite without.
- **Views.** `MCJournal!View` identifies states that differ only in a log that no
  step reads before it is erased (not the newest sealed side, not being
  written, not open) or in where the generations are on their circle: steps only
  increment and compare them. `journal_mount` and `journal_pinned` run without
  it: they check liveness. `MCSession!View` drops the driver's variables where they
  are set again before they are read and rotates the generations likewise;
  `MCShell!View` drops, between commands, what the last command leaves in the
  variables of the next, but keeps the verdict of every property on it.
- **Symmetry.** Names, and channels that are not in `Listers`, are interchangeable in the
  journal: no step compares them but for equality. It is used in `journal_replace`, `_directory` and
  `_faults` only, never where liveness is checked.
- **Session.** Two slots on each of two chips, `GENERATIONS > 4 * PER` as the
  circular comparison needs (2^16 > 64 in the code): 10 is the first even value
  above it, so the comparison is at its limit. `UsedSpec` starts from a new
  cartridge or from one whose next generation wraps.
- **Shell.** `SIZE = 1` in the passing runs (a partial file is an empty one),
  `SIZE = 2` in `shell_combine`. Three drives are the smallest number for which one
  of the two command channels must be replaced; one disk and the cartridge,
  with two names each, are enough for same-name, same-directory and
  across-directory commands. Some files are locked to begin with. No bound on how
  many commands are given.
- **Tools.** One command or session of one tool on any initial state: none of them
  keeps state for the next but the channels, which `DiskInit` leaves free. A
  screen of 3 rows of 2, a batch buffer of 5; a line of 10 characters with
  a ring of 2 lines; `EDITS = 5` keys from any caret position, which
  is the only bound on length. Tapes of three files with files of up to two
  blocks. Disks of 5, 10 or 15 sectors, one pair of drives of each family and one odd
  drive. One disk has a directory of two sectors and a REL file whose records
  straddle its two blocks, one has links that run in circles, one has links that lead nowhere
  and a file with half a record. Files are at most `SIZE = 2` batches.
- **Banks.** The call graph is the program's and has no cycle, so its depth is the
  only bound on the stack. The driver programs in bank 0 and reads in its own
  (`SomeChips`): any other behaves as one of them.
- **Startup.** Names that begin alike (`c`, `ch`), values with `=` and a blank,
  `ENVSIZE = 9` bytes: two short entries, so a replacement may fit only in place
  of the old one. One sound font file, and one that is not and is on one drive only.
  Two machines: two drives with different AUTOEXEC.BAT, one that starts a
  program; and one whose AUTOEXEC.BAT reboots. `TURNS = 3` commands at the prompt.
- **Parser.** All lines of up to 4 characters that the parser tells apart, of 5
  without `>` and capitals, and longer ones for drives, `>>`, `@` and `/?`; flags
  on no letter or on all capitals; `MAXARGS = 3`, names of two bytes.
- **Filters.** All files of up to 4 characters out of a letter, CR and LF, and longer
  ones; a buffer of two bytes and a screen of two columns, so CR LF straddles
  reads and rows fill; texts of up to two characters, which is
  where a window slides.

Deadlock checking is off in the journal runs, where the journal may stop for good
after `NoFilesystem` (error 74), and in `tools`, where each tool comes to its end.

### Fairness

`RequestsEnd` assumes `WF_vars(Continue)`: the processor executes a request it has
begun; nothing in the driver waits for anything else, interrupts are off. And
`WF_vars(Mount)`: the shell issues `CART_INIT` when it starts. No request is fair.

### What the violated runs show

- `RoomIsFound` (`journal_pinned`, src/src/easyflash/journal.h:423): reserve() says of itself "Check capacity before appending, moving an unfinished write if its sector fills. [...] return nonzero if space is available." (src/src/easyflash/journal.h:496-498). When a reader was opened before the write's first compaction it pins the old chip; the write that then fills the new chip passes the capacity test and is still refused, with error 60 from the reader check in compact() (journal.h:422-427). In the run: open the file for reading, open it for replacement with a damaged tail (the chips swap), write twice; the second WRITE fails although the capacity allows it, and retrying cannot help while the reader is open. COPY of a cartridge file over a large cartridge file is such a sequence.
- `LiveFilesStayOpen` (`shell_live`, src/src/core.c:584): core.c:570-571 says "Closing a 1541 command channel also closes its data channels. Keep two command channels resident so two-drive copying never closes a live file.", and disk.c:88-89 "Never reset a drive: DIR may be running with a redirected output file already open." statuschannel() replaces its two channels in turn, not the one used longest ago. After commands on drives 9 and 10, `DIR 8: >9:LIST` finds 9 resident and opens LIST there; DIR then needs a command channel for 8 and closes 9's, and the drive closes LIST before a byte of the listing is written. The shell shows an error, and LIST is left empty.
- `MoveDeletesSource` (`shell_move`, src/src/filemgmt.c:201): The manual says of MOVE "Copies the source file to the specified destination, then deletes the source." (src/manual.txt:500-503). bank_copyfile() scratches the source without the check DEL makes, although filemgmt.c:280 notes that "DOS silently skips locked files": MOVE of a locked disk file answers "1 file moved" and the source is still there.
- `ConcatCombines` (`shell_combine`, src/src/filemgmt.c:492): The manual says COPY source1+source2[+...] destination "combines files on the same disk" (src/manual.txt:447-450). bank_concatcmd() calls bank_preparewrite() first, which on a disk scratches an existing destination; in `COPY A+B A` the destination is a source, so after the user agrees to overwrite it, A is deleted, the drive refuses the command (62, FILE NOT FOUND) and A is lost. On the cartridge the same command works.

## 4. Proofs

Every theorem holds for all values of the constants that the modules'
assumptions admit, and TLC evaluates each of these on the runs' instances. Most
only say what kind of thing a constant is. Those that say more:

- `ChannelsAssumption`: there are finitely many places, a place is on one of the devices.
- `StartAssumption` (`Shell`): the files there may be at the start are files, and
  there is at least one chunk to print. `Init` puts no unclosed file on the cartridge.
- `CommandsAssumption` (`FileCommands`): an instance with wildcard COPY has every
  name on every device, because the command keeps the names.
- `BootAssumption` (`Banks`): what `bootstart()` runs is none of the routines that
  `main()` starts with, and what `bootsplash()` calls calls nothing more, touches
  no font and does not call the driver. True of the call graph in `Gates`, which is that of
  the program.
- `JournalAssumption`: the arithmetic of the code's constants, above all that the capacity and the
  headers of all slots fit in a sector; generations wrap at an even number.
- `SessionAssumption`: the number of generations is even and more than twice that of the
  slots (65536 and 32 in the code), so that signed comparison tells which of two is newer.
- `DiskAssumption` (`DiskTools`): the directory track is on the disk, no floppy has as many tracks as a
  1581 disk, and what the directory sectors hold are entries and links.
- `CommandLineAssumption`: RETURN and line feed are two characters, and no more lines were
  entered than the history holds.
- `EditorAssumption`: a row fits the buffer, dots and blanks can be typed, CR and LF cannot and are two
  characters, and the files there may be at the start are sequences of batches of characters.
- `StartupAssumption`: "=" and the terminator are two characters, no name has either in it and no value
  has a terminator; that is what SET takes. AUTOEXEC.BAT consists of commands.
- `ParserAssumption`: a space, a slash and a quote are three characters, a quote is neither ">" nor "@",
  there is room for an argument, and drives are numbered as the code numbers them.
- `BegunAssumption` (`CommandLine`): a line to begin with, and what was entered before
  it, is flagged as the code flags it. The program itself begins with no line, no flags and an
  empty history, which is among what the assumption admits for every directory; the
  other lines spare TLC the keys it takes to get there.

| Module | Theorem | Property |
|---|---|---|
| `JournalProofs` | `RebuiltSideStaysFree` | `RebuiltSideIsFree`. From its erase to its seal, through any number of requests, failures and resets, the chip under reconstruction is neither the one the index describes nor one an open reader reads. |
| `JournalProofs` | `WriterKeepsChannel` | `WriterOwnsChannel`. Through any requests, failures and resets: a channel in writing mode is the writer, and the writer's channel stays in that mode until its file is committed or discarded; only a channel that directories are listed on too may lose it, between requests. |
| `JournalProofs` | `InvariantHolds` | `Invariant`. The full inductive invariant, for any sizes, requests, flash errors, resets and decay: the index in RAM and the one under construction point at committed records before the end of their logs, a request's sources exist while it runs, compaction loses no slot, what is live never exceeds the capacity, whichever part of whichever log a reset finds, and every record fits the sector it goes to. |
| `JournalProofs` | `SpaceAlwaysSuffices` | `SpaceSuffices`. The subtractions of reserve() never wrap, no cursor leaves its sector, and a write that has moved to a fresh chip never has to move again; the only premise is the arithmetic of the code's constants (32-byte headers, 40 slots, 64000 of 65504 bytes). |
| `JournalProofs` | `TypeCorrect` | Type correctness: no index entry, slot or offset the driver uses unchecked is ever out of range. |
| `JournalStoreProofs` | `DurabilityLasts` | `Durability`. On flash that does not decay, through any failures and resets: a reset finds a whole log on the newest side, and the index in RAM, the index a compaction is building, the scan in progress and the record being written say what that log says. |
| `JournalStoreProofs` | `UnitsAreProgrammedOnce` | `ProgrammedOnce`. Nothing is ever programmed over a unit that is programmed already, between two erasures, for any requests, failures and resets. |
| `JournalStoreProofs` | `NewestIsActive` | `ActiveIsNewest`. For any flash errors, resets and decay: while the cartridge is in use, the side in use is the one a mount would choose, unless that one cannot be mounted. |
| `JournalStoreProofs` | `MountFindsASide` | `MountsWhatItCan`. For any flash errors, resets and decay: once the flash driver is up, mount() gives up with 'no filesystem' only when neither side could have been mounted, so a side that is damaged never hides one that is whole. |
| `JournalStoreProofs` | `IndexStaysDurable` | `IndexIsDurable`. Between requests the index, the tail and the totals in RAM are those a reset would rebuild, and unless the tail is known to be dirty everything behind it is erased. |
| `JournalStoreProofs` | `JournalImplementsStore` | `ImplementsStore`. The journal implements FileStore, for any sizes, names, channels and requests, with flash errors and resets anywhere: a file is replaced, renamed, protected or deleted at one flash operation or not at all, and open readers keep what they opened. |
| `ToolsProofs` | `OldFilesStay` | `OldFilesKept`. For any tapes, any files on the device and any failures of it, no file that was there before the tape copier came is changed, by its cleaning up included. |
| `ToolsProofs` | `FailureLeavesNothing` | `NothingLeft`. A transfer that ends without success, and without a complaint about cleaning up, has left the device exactly as it was, unless a drive created the file and its answer was lost. |
| `ToolsProofs` | `BatchesRunWhole` | `BatchLinesAreWhole`. For any batch files, with any line ends and lines too long for the buffer: the lines that are run are the first lines of the file, whole and in their order, none twice and none left out. |
| `ToolsProofs` | `FlagsStayOnNames` | `FlagsMarkNames`. For any directory, any history and any keys: the flags of the line, and of every line recalled, mark whole unedited names of the directory (the beginning of one, where a later completion cut it), and the line fits its buffer. |
| `ToolsProofs` | `SavedTextsReturn` | `SavedTextReturns`. For any size of the screen, any buffer that holds a row, any text and any keys: a text that is saved without a complaint is the whole file, and loading it gives the text back, full rows and the last row included; one that is not saved leaves the files of the cartridge as they were. |
| `ToolsProofs` | `RowsAreKept` | `NoRowLost`. For any size of the screen and any text: a key changes the row of the cursor and no other, or moves the rows that are not blank down in their order without one being lost. |
| `DiskProofs` | `EditsStayInPlace` | `OnlyWhatWasAsked`. For any disks, drives and directories, damaged chains included: no disk command writes on another drive, and LABEL, DISKID and ATTRIB change nothing but the field they were asked to, in the sectors that keep it. |
| `DiskProofs` | `VerdictsHold` | `DiskVerdictIsReal`. For any disks and drives, every verdict but that of a copied REL file (which TLC checks): after "complete" the copy has every sector of its source, after "done" every label, ID and lock bit is as asked, everywhere on the disk, and after "missing" there is no such file. |
| `DiskProofs` | `FailuresHaveACause` | `FailsForCause`. For any disks and drives, whichever drives had command channels before: no disk command but the copy of a REL file (which TLC checks) fails on disks that fit it unless a device did or the user stopped it. |
| `ToolsProofs` | `CodeAlwaysMapped` | `CodeIsMapped`. For every assignment of routines to banks and every call graph, however deep and recursive the calls: the routine that runs is in the bank the processor sees, the driver has its bank and port, and the character ROM is read with the cartridge hidden. |
| `ToolsProofs` | `FontAlwaysWhole` | `FontIsWhole`. For any font files, drives, batches and sessions, the font that is shown is that of the ROM or all of one sound file, never a mixture. |
| `ToolsProofs` | `SettingsAlwaysInForce` | `SettingsInForce`. For any startup files, values and programs: settings stay out of force while AUTOEXEC.BAT runs, and the prompt after it has exactly those of the environment. |
| `ToolsProofs` | `SettingsAreAMap` | `EnvironmentIsMap`. For any names, values and size of the environment: startup, SET, REBOOT and programs implement `Variables`. SET replaces, adds and removes the one name it is given and refuses only what would not fit, and the session keeps the map. |
| `SessionProofs` | `SessionTyped` | Type correctness of the session journal and of leaving and returning: the slot, generation and position the driver works with are always in range. |
| `SessionProofs` | `NewestSessionStays` | `NewestKept`. For every number of slots, session size and number of generations, and through any interruption of an erase or a save: the session committed last stays committed with exactly what was saved. |
| `SessionProofs` | `ShellComesBack` | `ResumesDeparture`. A shell that is restored is, chunk for chunk, the one that left last, whatever a foreign program wrote over the descriptor in RAM. |
| `SessionProofs` | `SavesFailForCause` | `FailuresExplained`. A save fails only because one of its own flash operations reported an error, or because its slot had a blank header over a payload that an interrupted erase had left; that save uses the slot up. For any number of slots. |
| `SessionProofs` | `TransfersAreReported` | `ReportsAreReal`. The shell reports a tape transfer only after the tape copier has run and has come back. |
| `ToolsProofs` | `NoInterruptIsLost` | `InterruptsAreServed`. For every call graph that meets the assumptions: while the KERNAL is mapped away an NMI vector is in the RAM beneath it, and no font is touched before it is there. |
| `ToolsProofs` | `DriverAlwaysWhole` | `DriverIsWhole`. For every call graph that meets the assumptions: the cartridge driver is called only while its routines and its state lie where the default screen was. |
| `ToolsProofs` | `SavedFilesAreWhole` | `SavedIsWhole`. A file that is reported as saved is on the device, closed, and holds all blocks of the tape file the user chose, in order, whatever the device failed at on the way. |
| `ShellProofs` | `CacheStaysFresh` | `CacheIsFresh`. For any drives, files and commands: between commands a valid directory cache is what the device would list, whichever requests failed since it was read, but for one empty file at most that a disk drive created before it failed an open. |
| `ShellProofs` | `CopiesKeepTheirFiles` | `CopiesStayOpen`. With any number of drives and two command channels: no request of COPY, wildcard COPY or MOVE makes a drive close a file that the command has open. |
| `ShellContents` | `MovesLoseNothing` | `MoveKeepsContents`. At every moment, whichever requests fail and wherever the machine is reset, the contents a MOVE or REN found are whole and closed under the old name or the new one. |
| `ShellContents` | `CartridgeFilesLast` | `CartridgeKeepsOld`. A file on the cartridge that a command writes to keeps its old contents until the new ones are complete, in any interleaving of failures and resets. |
| `ShellContents` | `SuccessMeansDone` | `SuccessIsReal`. A command that ends without an error has done all of its work: the copy is whole, every match of a wildcard is copied, or asked about and deleted just if the answer was yes, and the file after > holds all of the output. |
| `ParserProofs` | `ArgumentsAreWords` | `WordsAreArguments`. For any line, flags and number of arguments: a command that runs has the words of its line as arguments, quotes taken off and flags in place, and a line is malformed only if its quotes do not match or its words are too many or none. |
| `ParserProofs` | `OutputGoesWhereTyped` | `RedirectsWhatWasTyped`. For any line: output leaves the screen just if there is one `>` or `>>` outside quotes, for a command that may, and goes to the drive and file of the one word behind it. |

### The flash journal

`JournalProofs`. Neither `RebuiltSideIsFree` nor `WriterOwnsChannel` is inductive.
`ControlInv` adds which blocks run with a record under construction
(`DraftFitsBlock`), that a rotating write is never in a compacting block
(`RotationFitsBlock`), and that only writes move. The argument: `compact` checks for readers on the target side before it
becomes the target, new readers open on the active side, which the target is
not until `Activate` swaps them and rebuilding ends in the same step. It says
nothing about flash contents, so nothing on flash can invalidate it.

`IndInv` has `HeadsAreRecords` at its heart: every entry of the index points at a
record before the end of its log, so `Entry(i)`, which the code reads with no check,
is always a record. It is inductive together with `SpaceFits`: a log that overflowed its
sector would have no place for what is appended. `Invariant` is both, and the run `journal_faults` checks it.

`JournalProofs` proves `SpaceFits`, and so `Invariant`, `TypeOK` and `SpaceSuffices`, with no premise
but `JournalAssumption`: a header, a record header for each slot and one more, and
the capacity fit in a sector (32 + 41 * 32 + 64000 of 65504 bytes). While the
cartridge is mounted the parts of `SpaceFits` are about RAM: `livebytes` is the sum of
the lengths in the index, a draft keeps within what is left of the capacity, a
compaction copies no more than it was promised. But a reset throws
RAM away, and what `ScanEnds` finds may be either log, cut off where a unit has decayed or was never finished; it must
fit the capacity too. So `SpaceInv` says that each log has an *account*: a
function that gives for every place where a scan may stop the live lengths at
that place, whose sum never exceeds the capacity. The account of a log is not computed from it,
which would be an induction over data: it exists at the start (`FreshLog`), is
kept by every step that commits nothing (`AccountKept`; this is where flash errors, failed
erasures and decay are dealt with), extended by the step that commits
(`AccountExtended`), and a scan follows it (`AccountFollowed`). What is needed of sums over the slots, a
recursive function, follows from the equation of that function by taking the least
counterexample (`SumBound`, `SumChange`).

### The journal implements the store

These theorems have the premise `~Decays`. They need it: when a programmed unit goes
bad while the power is off, a file may be lost, and no store promises that. Flash
errors and resets, at any step, are included.

`JournalStoreProofs` proves `Durability`, which the run `journal_directory` checks. It is
inductive given `IndInv` and `SpaceInv`. `ResetFindsAll`: the newest sealed side
holds a whole log with its whole sealed prefix, no two of whose files have the
same name. `IndexIsReal`: the index in RAM is that of this log, the tail its
end, and while `mount` scans, the index of the part before `at`. `CopyIsReal`: the log
under construction on the other side has, record for record, the files of the active
one. `ErasedAhead` says where everything is known to be erased, which is what
`ProgrammedOnce` follows from.

The recursive definition of a log's records (`Records`) is reasoned about by its
equation alone: `IsChain` says of any set of places what makes it a chain from the
header to an end, two chains of a log are equal (`ChainIsRecords`, by the least record on which they
differ), and a chain grows by a record when one is committed, and is the same as long as
nothing below its end changes (`LoggedGrows`, `LoggedSame`).

The last part of `JournalStoreProofs` first reads the files of the store from any log and index
(`FilesOf`). By `Durability` they are those of the active side, whichever of the
index in RAM or the one from the flash is used (`FilesAreIndexed`). Then one lemma for each action of
`Journal`: only `Commit` and `Activate` change the files, and each is exactly
one action of `FileStore` (a draft that is committed, a deletion, a renaming, a
protection; `Abandon` is an ABORT on the writer's channel after a listing took it and it was
opened to read); every other action begins, extends or discards the draft, opens or
releases a reader, loses the power, or is a stutter. `OpenIsPending` says that a
write that waits for a compaction before it begins has no channel yet.

### Which side is mounted

`ActiveIsNewest` and `MountsWhatItCan` have no premise: flash errors, resets and decay at
any step. (`MountsWhatItCan` is about the steps that give up after a side was
looked at; a flash driver that does not start ends the mount before that, with the
same error.) A log may then be cut off at any of its records, so `Durability` does not
hold; what does is `MountInv` (in `JournalDurability`), inductive given `IndInv` and `SpaceInv`.
`PrefixIsWhole`: on the side in use, records still lead from the header to where the
log was sealed (`LeadsTo`), which is all that `mount` asks of a side. Decay
comes with the loss of power, and then nothing is in use: the mount that follows reads the
prefix again before it relies on it, and until it has it knows only what it has read. `CopyIsWhole`: the
side under construction has such a chain up to the end of what is copied, and so
will have when it is sealed. `GenerationsAdjoin`: of two sealed sides one follows
the other, so that a seal makes the copy the newest. `PassesOver`: a newer side than the one
in use is not mountable, and neither is a side that the scan has given up; while no
power is lost, it stays so. An erase that fails halfway leaves the header or takes it, and
`HalfErasedSpares` says that it never makes a side mountable.

### The session journal, leaving and returning

`SessionInvariant` has four parts. `Storage` says what the flash holds: the newest
session is committed and holds what was saved (`NewestIsCommitted`); every
other committed slot is older by no more saves than lie between their places in
the order in which slots are filled (`AgesFitPlaces`), which is what makes the code's
signed comparison of wrapped 16-bit generations pick the newest; and the chips are filled in turn
(`ChipsInTurn`), which is why the chip that is erased never holds the newest session (`ErasesOtherChip`).
`Payload` follows the shell's chunks into the slot, into the token in RAM and back. `Reports`
follows the copier's request. `FailedForCause` is the part of `Storage` that
`FailuresExplained` needs: COMMIT's verification can only fail on a slot whose payload was not
blank. Such a slot has a blank header, which is all that `BEGIN` looks at
(`session-store.h:81-87`), so an interrupted erase does cost a later save, and only one: the
header it writes takes the slot out of use.

### File commands and redirected output

`ShellProofs` proves `ShellInv == Base /\ CacheInv` inductive. `Base` says what each step
of a command may rely on: which commands have which steps (`Staged`), what a job
holds, and who uses which channel (`Usage`). `CacheInv` is about the directory cache in the middle
of commands: while a file is being written, the cached listing may be older than
the directory, and the close that follows throws it away; before `PickFile`
reads an entry the listing is that of the source. `Residency` says why two
command channels are enough for a copy: once the destination has been asked,
the source has its channel, or has lost it to the destination, and then
the slot that is replaced next is not the destination's.

`ShellContents` proves two more. `ContentsInv`: only the destination
changes, and on the cartridge not before the copy is complete (`Untouched`); what was
read and what is still to be read is together the source, unless a failed write
has been noted (`Streamed`); a wildcard COPY leaves whole files behind (`AllKept`). `WorkInv` says how far a command has come. For wildcard
COPY: the entries before the current one, in the order of the listing, are copied (`AllSoFar`), which is
an argument about the n-th smallest element of a finite set (`EntryIs`, `EntryExists`), because the
directory is listed again after each file. For DEL: entries that have been passed were asked about and
are as the answer was, and none of the matches is locked (`AskedSoFar`). For
`>`: what was written through channel 5 is what the file had before, if that is
kept, followed by what has been printed (`OutputSoFar`), also while other requests take
command channels away.

### The tape copier

`CopierInv` says who is responsible for the file under
way: a channel the device still knows implies `opened`, `opened` implies that
the target was free when it was chosen (`TargetWasFree`) and that what is there
now is not locked (a drive would skip it when it is scratched), and on the
cartridge `opened` implies that nothing has changed at all, because there only a
close without an error has an effect. `Quiet` marks the steps before anything was
done, which is what lets the program choose another target for another file.
`TransferInv` adds what has been transferred: as long as no error has been seen or is
waiting to be seen, channel 2 holds the part of the tape file that has been read, and
what is left of the tape is the rest of it (`Progress`).

`Tools` runs `TapeSpec`, `BankSpec`, `StartSpec`, `LineSpec`, `EditorSpec`, `DiskSpec` and `ParserSpec` beside the
filters, so the theorems about these seven are about properties of the run `tools`.

### Banks

What is true of the running
code must be true again after a return, so `BankInv` says it of every caller on
the stack: `Restored`, each note is the bank its caller needs; `Known`,
BANK_CURRENT is the bank the running routine needs; and `Switched`, the registers
follow BANK_CURRENT but for the driver and the font, which restore them from it.
It needs no assumption on the call graph, which may be recursive.
`BootInv` is about the order of things at the start: until `main()`'s loop runs, the stack
is one of a few shapes (`Booting`), as long as there is no NMI vector nothing that
touches the font can be on it (`Guarded`), and where the driver's code is, `WholeDriver`.

### Startup

Staging a font begins at the ROM's: `StagedFont` says that between `charset_prepare()` and
the first entry what is staged *is* the ROM's font and from then on the ROM's with the
entries read so far applied, so at the end of the file it is the whole file's, or is
dropped. `Defaults` says that prompt, colours and font are the defaults for as long
as settings have not been applied, in a saved session too.

`SettingsAreAMap` is a refinement. `Packed` says what the bytes in use are: each belongs to an entry
(`HoldsAt`), and no name has two. From that follows what the code relies on without a check: the first "="
of an entry ends its name and the first terminator its value (`EntryText`), a name that others begin with
is found at its own entry only (`WhereFound`), entries do not overlap, so one can be moved out
(`EntryCut`) and one put behind (`EntryAppended`), and the bytes in use are as many as the
map needs (`RoomOfPacked`, by a bijection), so that the code's test for space is that of `Variables`.
`EnvironmentInv` has it of the environment and of what a session saved.

### The command line

`BatchInv` ties the position in a batch file to the number of lines run: `LineBegins` says
that the next line starts behind the break whose rank among the breaks is that number,
`ReadSoFar` that each line run is what is between its two breaks. A CR LF counts as
one break, which `AfterBreak` needs. The arithmetic is that of ranks in a finite set.

`LineInv` says of the line, the draft and every line of the history that their flags
are `Flagged`: each maximal run of flags covers a name of the directory. An edit takes the flags
from the run it touches, so what is left are whole runs, with a flag neither at the
caret nor just before it (`RestIsRuns`), and they stay or move by one with their
characters (`DeletedRuns`, `InsertedRuns`). A completion keeps the runs before its
word (`EarlierRuns`); if it began inside one, the rest is the beginning of a name, and `cut`
says so from then on. The name it offers is separated from them by its quote (`OfferedName`).

### The editor

That what was saved loads again is an induction over data: over the letters of a row, the rows of a
text, the batches of a file. The prover has no induction to offer for that, but the numbers
are well founded, and every one of these recursions is a function on numbers: where a
claim about its n-th value fails there is a least n at which it fails (`LeastNumber`). `ScannedAll` and
`Reloaded` are such functions, so scanning two pieces in turn is scanning them joined (`ScannedOn`), and it does
not matter where a batch ends (`BatchedLoaded`). `Loaded` says what the loader's state is after the
first r rows: their letters and blanks from there on, at the start of row r; a row that is full
has got there before its CR and is not moved on again by it (`RowScanned`). The rows behind the last one
that is written are blank (`RowCountIs`), as they are on a fresh screen, so `SavingReturns`.

`EditorInv` is the rest: until a file is opened for writing the files are as they were
(`EditorFiles`); then what went through the channel and what is still to be written are together the
batches of the text unless a write was lost, and on a drive that is what the file holds
(`Storing`). The channel stays: what its own drive is asked never closes it (`OwnRequest`).

`RowsAreKept` maps the rows above the cursor to themselves and the others to the next; that
none falls off is `MayInsert`, which only says that the bottom row is blank.

### The disk utilities

`DiskInv` follows a command stage by stage (`Staged`): a transfer that writes is one to the
command's own disk, and never the copy of a REL file, which leaves raw writes to the drive.
For LABEL, DISKID and ATTRIB `Edited` says what is under way. `Carried`: a sector
that is being written is one that was aimed at, and the shell's buffer, then the drive's,
has it as asked. `Brought`: what was read is that sector, as it was or as asked.
`HeldWalk`: ATTRIB is so many links along the chain of the directory as it has read
sectors, no sector twice, so each is one that the chain as it was leads to; a lock
bit that changes in a sector never changes its link. To change what is changed already
changes nothing more (`ChangedIs`), so a sector may be read again after it was written.
Sectors, labels, IDs and directories are arbitrary, damaged chains included.

`VerdictsHold` adds what has been done so far. `CopyInv`: DISKCOPY has copied the sectors
that come before the one it is at (`CopiedTo`), in the order of tracks and sectors, and a
sector on its way, in the shell's buffer or the drive's, is that of the source; the
next one is its successor, on the same track or the next, so none is left out, and at the
end the two disks have the same sectors. `EditInv`: LABEL and DISKID have written the
sectors before theirs (`DoneTo`); ATTRIB has written the sectors that it has passed
along the chain, or found no name of its in any of them (`Passed`), and it stops without
an error only at the end of that chain.

`FailuresHaveACause` is about what does not fail. `CauseInv` says that a command on disks that fit it
is `Smooth` until a device fails or the user stops it: its verdict is no failure and it is on no way to one (`Lawful`);
its buffers are open (`Served`) and not at their end when one is read (`Heard`); the header it reads
is that of its own drive, where nothing has been written yet (`Arriving`). `Paired` says why no
channel of another drive closes a buffer: DISKCOPY asks the source, then the destination, then
the source again if that lost its channel, and `cmdslot` never points at the one still needed, so both have theirs before
a buffer is opened. `Trailed` and the count of links say why ATTRIB does not take a directory that
ends for a loop: it has seen only the sectors before its place in the chain, and a chain that ends passes none twice.

### The parser

`Words` reads a part of the line with no state: a word begins wherever a set of places says so,
and its bytes are those at another set of places. That one more byte of the line makes
the last word one byte longer, begins a word or changes nothing (`WordsGrow`, `WordsBegin`, `TailGaps`)
is an argument about the k-th element of a finite set (`NthIs`: counting
the elements up to one is an injection). `ParserInv` then says in each state how much of that has been
read: `ScanInv`, which of the arrows outside quotes have been seen; `SplitInv`, that the
arguments are the words of the part up to the cursor, or those and one that has
begun (`Fresh`); and that the part being split has the same words as the whole command
(`Whole`), whether the blanks and `@` around it were cut by `execute()`, by
`executecommand()` or by both (`HereIsWhole`, `AllIsWhole`, `HeadGaps`).
Between the three splits of a redirected line, `Ordered` and `Sent` keep what the earlier ones found:
the command may be redirected, and the output goes to the one word behind the arrow.

### Only model-checked

- `RequestsEnd` is liveness under fairness.
- `ShowsWhatWasAsked` (`Filters`) compares what is shown with `Expected`, a recursive definition over
  lines and screen rows: that is induction over data.
- `DiskVerdictIsReal` (`DiskTools`) for the verdict "copied": it compares the records of a
  copied REL file with those of a recursive definition. `VerdictsHold` proves the others.
- `FailsForCause` (`DiskTools`) for the copy of a REL file: its blocks and records are those of
  recursive definitions too. `FailuresHaveACause` proves it for every other command.

## 5. Not modelled, and the plan

In order of importance:

1. `DiskTools`: the copy of a REL file and ATTRIB beside redirected output, which has
   a drive of its own and no command channel left (`CopiesStayOpen` has it for ordinary files).
2. `FileCommands`: ATTRIB on the cartridge, DIR's loop over several directories and its order, more than two
   sources of a concatenation.
3. Proofs: the copy of a REL file in `DiskTools`, as far as its blocks and records can be
   stated without recursion.
4. `Filters`: PRINT, TYPE /HEX. Wildcard matching and the number formatter
   (`core.c`) as functions against reference definitions.
5. `Journal`: a fault that reports an error although the byte was programmed; today
   a reported error means that it was not.

Outside any plan: the flash chip driver (vendored EAPI code; what the modules
assume of it is in 2.1), screen output, paging and HELP texts, SYSINFO, the figures
that CHKDSK and VOL print, the REU probe, the copying loops of the loaders,
build scripts and tests (host-side tools).
