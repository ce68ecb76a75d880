--------------------------------- MODULE Tools ---------------------------------
(***************************************************************************)
(* The parts of the shell that keep no state between commands, side by     *)
(* side: the shell runs one of them at a time.  The others are off.        *)
(***************************************************************************)
EXTENDS CommandLine, Editor, TapeCopier, DiskTools, Banks, Startup, Filters, Parser

tapeState == <<copier, device, tape, head, search, save, target, left, opened, outcome, old, unheard>>
diskState == <<tool, diskVars, verdict, excuse>>
editorState == <<editor, saved, editVars>>
vars == <<channelVars, promptVars, tapeState, diskState, editorState, bankVars, startVars, filterVars, parserVars>>

NoTape ==
    /\ copier = "off" /\ device = Cart /\ tape = <<>> /\ head = <<1, 1>> /\ search = {}
    /\ save = FALSE /\ target = <<>> /\ left = <<>> /\ opened = FALSE /\ outcome = "none"
    /\ old = [p \in Places |-> {}] /\ unheard = FALSE

NoDisk ==
    /\ tool = "off" /\ model = <<>> /\ task = [op |-> "none"] /\ disk = <<>> /\ buffer = <<>>
    /\ io = {} /\ eof = <<>> /\ block = {} /\ verdict = "none" /\ original = <<>> /\ excuse = FALSE
    /\ progress = NoProgress /\ relative = Unwritten

NoText ==
    /\ editor = "off" /\ paper = <<>> /\ text = Unread.text /\ scan = Unread /\ cursor = <<0, 0>>
    /\ batches = <<>> /\ sound = TRUE /\ saved = FALSE /\ first = [p \in Places |-> {}]

NoPrompt ==
    /\ prompt = "off" /\ buf = <<>> /\ raw = {} /\ pos = 0 /\ listing = <<>> /\ comp = {}
    /\ ci = 0 /\ history = <<>> /\ histnext = 0 /\ histcount = 0 /\ h = 0 /\ draft = NoLine
    /\ batch = <<>> /\ batchpos = 1 /\ edits = 0 /\ executed = <<>>
    /\ cut = FALSE

NoBanks ==
    /\ stack = <<>> /\ current = 0 /\ bank = 0 /\ mode = 0 /\ port = KERNAL /\ doing = "off" /\ request = "none"
    /\ vector = FALSE /\ low = "screen" /\ base = "low" /\ running = FALSE

NoStart ==
    /\ shell = "none" /\ machine = <<>> /\ bootdev = 1 /\ startdrive = 0 /\ lines = <<>>
    /\ environment = <<>> /\ envready = FALSE /\ said = <<>> /\ prompttext = "default" /\ colours = Grey
    /\ staged = Rom /\ active = Rom /\ cpi = 0 /\ session = NoSession /\ fresh = FALSE /\ turns = 0

NoFilter ==
    /\ filter = "off" /\ document = <<>> /\ wish = [command |-> "none", redirected |-> FALSE] /\ here = 1 /\ there = 1
    /\ lastcr = FALSE /\ skip = FALSE /\ selected = FALSE /\ pending = FALSE /\ wrapped = FALSE
    /\ number = 0 /\ before = 0 /\ recent = <<>> /\ hit = FALSE /\ total = 0 /\ ox = 0 /\ shown = <<>>
    /\ ended = "none"

NoParser ==
    /\ parser = "off" /\ typed = [text |-> <<>>, flags |-> {}] /\ r = 1 /\ quote = FALSE /\ op = 0 /\ append = FALSE
    /\ from = 1 /\ upto = 0 /\ args = <<>> /\ why = "run" /\ output = Screen /\ answered = "none"

NoFiles == Powered /\ files = [p \in Places |-> {}]

Init ==
    \/ LineInit /\ NoFiles /\ NoTape /\ NoDisk /\ NoText /\ NoBanks /\ NoStart /\ NoFilter /\ NoParser
    \/ TapeInit /\ NoPrompt /\ NoDisk /\ NoText /\ NoBanks /\ NoStart /\ NoFilter /\ NoParser
    \/ DiskInit /\ NoPrompt /\ NoTape /\ NoText /\ NoBanks /\ NoStart /\ NoFilter /\ NoParser
    \/ EditorInit /\ NoPrompt /\ NoTape /\ NoDisk /\ NoBanks /\ NoStart /\ NoFilter /\ NoParser
    \/ BankInit /\ NoFiles /\ NoPrompt /\ NoTape /\ NoDisk /\ NoText /\ NoStart /\ NoFilter /\ NoParser
    \/ StartInit /\ NoFiles /\ NoPrompt /\ NoTape /\ NoDisk /\ NoText /\ NoBanks /\ NoFilter /\ NoParser
    \/ FilterInit /\ NoFiles /\ NoPrompt /\ NoTape /\ NoDisk /\ NoText /\ NoBanks /\ NoStart /\ NoParser
    \/ ParserInit /\ NoFiles /\ NoPrompt /\ NoTape /\ NoDisk /\ NoText /\ NoBanks /\ NoStart /\ NoFilter

Next ==
    \/ LineNext /\ UNCHANGED <<channelVars, tapeState, diskState, editorState, bankVars, startVars, filterVars, parserVars>>
    \/ TapeNext /\ UNCHANGED <<promptVars, diskState, editorState, bankVars, startVars, filterVars, parserVars>>
    \/ DiskNext /\ UNCHANGED <<promptVars, tapeState, editorState, bankVars, startVars, filterVars, parserVars>>
    \/ EditorNext /\ UNCHANGED <<promptVars, tapeState, diskState, bankVars, startVars, filterVars, parserVars>>
    \/ BankNext /\ UNCHANGED <<channelVars, promptVars, tapeState, diskState, editorState, startVars, filterVars, parserVars>>
    \/ StartNext /\ UNCHANGED <<channelVars, promptVars, tapeState, diskState, editorState, bankVars, filterVars, parserVars>>
    \/ FilterNext /\ UNCHANGED <<channelVars, promptVars, tapeState, diskState, editorState, bankVars, startVars, parserVars>>
    \/ ParserNext /\ UNCHANGED <<channelVars, promptVars, tapeState, diskState, editorState, bankVars, startVars, filterVars>>

Spec == Init /\ [][Next]_vars
================================================================================
