-------------------------------- MODULE Shell --------------------------------
(***************************************************************************)
(* The shell: file commands, and the commands whose output goes to a file  *)
(* (execute() in src/core.c, with TYPE, DIR and ECHO for all the commands  *)
(* that may be redirected), one after the other.  The machine can be reset *)
(* or lose power between any two requests to a device.                     *)
(***************************************************************************)
EXTENDS FileCommands

CONSTANTS Start   \* the files there may be at the start

ASSUME StartAssumption == Start \subseteq File /\ Chunks # {}

shellVars == <<channelVars, commandsVars>>

-----------------------------------------------------------------------------
(* execute()                                                               *)

(* kind: "type" reads src, "dir" lists the device of src, "echo" neither.  *)
Redirect(kind, src, dst, append) ==
    /\ kind = "type" => src # dst
    /\ Begin([op |-> "redirect", kind |-> kind, src |-> src, dst |-> dst, append |-> append],
             IF kind = "type" THEN "resolve" ELSE "target")
    /\ UNCHANGED channelVars

Line == CHOOSE c \in Chunks : TRUE

(* Both input and output are looked up before anything is truncated.       *)
Resolve ==
    /\ pc = "resolve"
    /\ \/ /\ Cached(Dev(job.src)) /\ UNCHANGED channelVars
          /\ IF job.src[2] \in entries THEN Goto("target") ELSE End("error")
       \/ /\ ~Cached(Dev(job.src)) /\ Directory(Dev(job.src))
          /\ IF Exists(job.src) THEN Goto("target") ELSE End("error")
       \/ ~Cached(Dev(job.src)) /\ DirectoryFails(Dev(job.src)) /\ End("error")
    /\ Keep

Target ==
    /\ pc = "target"
    /\ \/ /\ Directory(Dev(job.dst))
          /\ Goto(IF Exists(job.dst) /\ Dev(job.dst) # Cart /\ ~job.append THEN "truncate"
                                                                           ELSE "output")
       \/ DirectoryFails(Dev(job.dst)) /\ End("error")
    /\ Keep

Truncate ==
    /\ pc = "truncate"
    /\ \/ CommandDone(Dev(job.dst), Without(files, {job.dst})) /\ Goto("output")
       \/ CommandFails(Dev(job.dst), TRUE) /\ End("error")
    /\ Keep

Appending == job.append /\ Exists(job.dst)

OpenOutput ==
    /\ pc = "output"
    /\ \/ /\ OpenWrite(5, job.dst, Appending)
          /\ Goto(CASE job.kind = "type" -> "lookup" [] job.kind = "dir" -> "listing" [] OTHER -> "print")
       \/ OpenWriteFails(job.dst, Appending, chan) /\ End("error")
    /\ Keep

(* The command itself: an error it shows, or RUN/STOP, leads to the end.   *)
Fumble == ok' = FALSE /\ Goto("close")

Lookup ==
    /\ pc = "lookup"
    /\ \/ Cached(Dev(job.src)) /\ UNCHANGED channelVars /\ Goto("input") /\ UNCHANGED ok
       \/ ~Cached(Dev(job.src)) /\ Directory(Dev(job.src)) /\ Goto("input") /\ UNCHANGED ok
       \/ ~Cached(Dev(job.src)) /\ DirectoryFails(Dev(job.src)) /\ Fumble
    /\ UNCHANGED <<jobVars, historyVars>>

OpenInput ==
    /\ pc = "input"
    /\ \/ OpenRead(2, job.src) /\ Goto("copy") /\ UNCHANGED ok
       \/ OpenFails(Dev(job.src), MayRead(job.src), chan) /\ Fumble
    /\ UNCHANGED <<jobVars, historyVars>>

ListDirectory ==
    /\ pc = "listing"
    /\ \/ Directory(Dev(job.src)) /\ Goto("print") /\ UNCHANGED ok
       \/ DirectoryFails(Dev(job.src)) /\ Fumble
    /\ UNCHANGED <<jobVars, historyVars>>

(* outputflush(): the channels with chunk c written through channel 5, and *)
(* what the command does next.                                             *)
Flush(c, cs, more) ==
    \/ /\ CanWrite(5)
       /\ files' = Stored(5, c) /\ chan' = [cs EXCEPT ![5] = Grown(5, c)]
       /\ more
    \/ /\ CanLose(5)
       /\ chan' = [cs EXCEPT ![5] = Lost(5)] /\ UNCHANGED files
       /\ more
    \/ /\ WriteMayFail(5)
       /\ chan' = [cs EXCEPT ![5] = Lost(5)] /\ UNCHANGED files
       /\ Fumble

TypeChunk ==
    /\ pc = "copy"
    /\ \/ /\ CanRead(2)
          /\ Flush(Head(chan[2].data), [chan EXCEPT ![2] = Rest(2)],
                   Fumble \/ UNCHANGED <<pc, result, ok>>)
       \/ AtEnd(2) /\ Goto("close") /\ UNCHANGED <<files, chan, ok>>
       \/ ReadMayFail(2) /\ Fumble /\ UNCHANGED <<files, chan>>
    /\ UNCHANGED <<commandVars, cacheVars, jobVars, historyVars>>

PrintLine ==
    /\ pc = "print"
    /\ Flush(Line, chan, Goto("close") /\ UNCHANGED ok)
    /\ UNCHANGED <<commandVars, cacheVars, jobVars, historyVars>>

(* The commands close their input; execute() closes the output and asks.   *)
Shown_Never(works) == FALSE
Shown(works) == ~works \/ chan[5].bad

CloseOutput ==
    /\ pc = "close"
    /\ \E works \in {TRUE, ~Troubles} :
         LET left == Closed(5, works)
             idle == [f \in Files |-> Idle]
         IN  \/ /\ Status(Dev(job.dst), left, idle)
                /\ End(IF ok /\ ~Shown(works) THEN "done" ELSE "error")
             \/ /\ Troubles /\ Dev(job.dst) # Cart
                /\ UseStatus(Dev(job.dst), FALSE) /\ files' = left /\ chan' = idle
                /\ End("error")
    /\ Forget
    /\ Keep

Output ==
    \/ Resolve \/ Target \/ Truncate \/ OpenOutput \/ Lookup \/ OpenInput \/ ListDirectory
    \/ TypeChunk \/ PrintLine \/ CloseOutput

-----------------------------------------------------------------------------
(* The whole                                                               *)

NoCommand == [op |-> "none"]

(* Only a disk may hold a file that was never closed.                      *)
Init ==
    /\ Powered
    /\ files \in [Places -> {{}} \cup {{x} : x \in Start}]
    /\ \A p \in Places : Dev(p) = Cart => \A x \in files[p] : x.closed
    /\ pc = "shell" /\ job = NoCommand /\ at = 0 /\ limit = 0 /\ ok = TRUE /\ result = "none"
    /\ before = files /\ asked = {}

(* REBOOT closes the command channels; a reset or a loss of power only     *)
(* forgets the channels, and what was being written on a disk stays        *)
(* unclosed.                                                               *)
Restart ==
    /\ chan' = [f \in Files |-> Idle]
    /\ cmddev' = [i \in {0, 1} |-> 0] /\ cmdslot' = 0
    /\ entries' = {} /\ cachedev' = Cart /\ cachevalid' = FALSE
    /\ pc' = "shell" /\ result' = IF pc = "shell" THEN result ELSE "lost"
    /\ UNCHANGED <<files, jobVars, ok, historyVars>>

Next ==
    \/ Command
    \/ \E kind \in {"type", "dir", "echo"}, src \in Places, dst \in Places, append \in BOOLEAN :
         Redirect(kind, src, dst, append)
    \/ ServeFile \/ ServeFiles \/ Output
    \/ Restart

Spec == Init /\ [][Next]_shellVars
-----------------------------------------------------------------------------
(***************************************************************************)
(* Properties                                                              *)
(***************************************************************************)

(***************************************************************************)
(* filemgmt.c:207: MOVE, and REN too, never lose the file: at every        *)
(* moment, and whatever fails, its contents are whole and closed under the *)
(* old name or under the new one.                                          *)
(***************************************************************************)
MoveKeepsContents ==
    job.op \in {"move", "rename"} =>
      Contents(before, job.src) \subseteq Contents(files, job.src) \cup Contents(files, job.dst)

(***************************************************************************)
(* journal.h and filemgmt.c:187: a destination on the cartridge keeps its  *)
(* old contents until the new ones are complete.                           *)
(***************************************************************************)
Sources ==
    CASE job.op = "concat" -> {Joined(before, job.sources)}
      [] job.op = "all"    -> UNION {Contents(before, p) : p \in Places}
      [] OTHER             -> Contents(before, job.src)

CartridgeKeepsOld ==
    job.op \in {"copy", "move", "rename", "all", "concat"} =>
      \A p \in Places :
        Dev(p) = Cart /\ files[p] # before[p] =>
          \/ Contents(files, p) # {} /\ Contents(files, p) \subseteq Sources
          \/ job.op # "copy" /\ p = job.src

(***************************************************************************)
(* A command that ends without an error has done all of its work: the      *)
(* copy is whole, every match has been copied, every match has been asked  *)
(* about and is gone just if the answer was yes, and the file named after  *)
(* ">" holds all of the output.                                            *)
(***************************************************************************)
Printed ==
    CASE job.kind = "type" -> Contents(before, job.src)
      [] OTHER             -> {<<Line>>}

Before(p) == IF job.append /\ before[p] # {} THEN Contents(before, p) ELSE {<<>>}

WorkDone ==
    CASE job.op \in {"copy", "move"} ->
           Contents(before, job.src) # {} /\ Contents(files, job.dst) = Contents(before, job.src)
      [] job.op = "rename" -> files[job.dst] = before[job.src] /\ ~Exists(job.src)
      [] job.op = "concat" -> Contents(files, job.dst) = {Joined(before, job.sources)}
      [] job.op = "all" ->
           \A p \in Places : Dev(p) = Dev(job.src) /\ before[p] # {} =>
             Contents(files, <<Dev(job.dst), p[2]>>) = Contents(before, p)
      [] job.op = "delete" ->
           \A p \in Matching : before[p] # {} =>
             \E yes \in BOOLEAN : <<p[2], yes>> \in asked /\ (yes <=> ~Exists(p))
      [] job.op = "redirect" ->
           Contents(files, job.dst) = {o \o n : o \in Before(job.dst), n \in Printed}

SuccessIsReal == result = "done" => WorkDone

(***************************************************************************)
(* A directory in the cache that counts as valid is the directory.  It     *)
(* misses one file at most, an empty one on a disk: the drive began it     *)
(* before it failed the open for writing, after which filemgmt.c:171-174   *)
(* and core.c:1206-1213 return with the cache as it was.                   *)
(***************************************************************************)
Behind ==
    \/ entries = Listing(files, cachedev)
    \/ \E p \in Places :
         /\ Dev(p) = cachedev /\ cachedev # Cart
         /\ entries = Listing(files, cachedev) \ {p[2]}
         /\ \A x \in files[p] : x.data = <<>>

CacheIsFresh == pc = "shell" /\ cachevalid => Behind

(* core.c:570 ("so two-drive copying never closes a live file") and        *)
(* disk.c:88: no request closes a file that is open.                       *)
LiveFilesStayOpen == \A f \in Files : Open(f) => chan[f].live

(* The same of copies, for which the two command channels are enough.      *)
CopiesStayOpen == job.op \in {"copy", "move", "all"} => LiveFilesStayOpen

(* manual.txt:500: MOVE copies the source file, then deletes the source.   *)
MoveDeletesSource == result = "done" /\ job.op = "move" => ~Exists(job.src)

(* manual.txt:447: COPY a+b c combines files on the same disk, when they   *)
(* are there, fit and may be written.                                      *)
ConcatCombines ==
    pc = "shell" /\ job.op = "concat" /\ result = "error" =>
      \/ \E i \in 1..2 : Contents(before, job.sources[i]) = {}
      \/ Len(Joined(before, job.sources)) > SIZE
      \/ \E x \in before[job.dst] : x.locked
================================================================================
