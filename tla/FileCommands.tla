----------------------------- MODULE FileCommands -----------------------------
(***************************************************************************)
(* COPY, MOVE, REN and DEL (src/filemgmt.c), one action per request to a   *)
(* device: pc names the request that comes next.  A question to the user   *)
(* and a look at the keyboard are choices.  Every file is a SEQ file; REL  *)
(* files, which are copied record by record, are left out.                 *)
(***************************************************************************)
EXTENDS Channels

CONSTANTS Commands   \* the commands this instance gives

(* A wildcard COPY keeps the names, so every device has a place for each.  *)
ASSUME CommandsAssumption == "all" \in Commands => Places = Devices \X {p[2] : p \in Places}

VARIABLES
    pc,
    job,     \* the command being served
    at,      \* loops over a directory: the next entry
    limit,   \* wildcard COPY: entries when it began
    ok,      \* no failure so far
    result,  \* of the last command: "done", "error" or "stopped"
    before,  \* history: the files when the command began
    asked    \* history: <<name, yes>>, what DEL was told about its matches

jobVars == <<job, at, limit>>
historyVars == <<before, asked>>
commandsVars == <<pc, jobVars, ok, result, historyVars>>

Goto(label) == pc' = label /\ UNCHANGED result
End(r) == pc' = "shell" /\ result' = r

Keep == UNCHANGED <<jobVars, ok, historyVars>>

Begin(j, label) ==
    /\ pc = "shell" /\ j.op \in Commands
    /\ pc' = label /\ job' = j /\ at' = 0 /\ limit' = 0 /\ ok' = TRUE /\ result' = "none"
    /\ before' = files /\ asked' = {}

-----------------------------------------------------------------------------
(* The commands                                                            *)

Distinct(src, dst) == src # dst

Copy(op, src, dst) ==
    /\ op \in {"copy", "move"} /\ Distinct(src, dst)
    /\ Begin([op |-> op, src |-> src, dst |-> dst], "find")
    /\ Forget
    /\ UNCHANGED <<files, chan, commandVars>>

CopyAll(from, to) ==
    /\ from # to
    /\ Begin([op |-> "all", src |-> <<from, 0>>, dst |-> <<to, 0>>], "list")
    /\ UNCHANGED channelVars

(* COPY a+b dst: the sources are on the device of the destination, and     *)
(* nothing looks for them before the device does.                          *)
Concat(sources, dst) ==
    /\ Begin([op |-> "concat", sources |-> sources, dst |-> dst], "prepare")
    /\ UNCHANGED channelVars

Rename(src, dst) ==
    /\ Distinct(src, dst) /\ Dev(src) = Dev(dst)
    /\ Begin([op |-> "rename", src |-> src, dst |-> dst], "find")
    /\ Forget
    /\ UNCHANGED <<files, chan, commandVars>>

(* DEL of a "single" name, of all that match (/P), or after a question     *)
(* about "each".                                                           *)
Delete(dev, matches, how) ==
    /\ how = "single" => Cardinality(matches) = 1
    /\ Begin([op |-> "delete", dev |-> dev, matches |-> matches, how |-> how,
              src |-> <<dev, 0>>], "check")
    /\ UNCHANGED channelVars

-----------------------------------------------------------------------------
(* One file: bank_copyfile(), bank_renamecmd(), bank_concatcmd()           *)

SameDisk == Dev(job.src) # Cart /\ Dev(job.src) = Dev(job.dst)

Prepared ==
    CASE job.op = "rename" -> "rename"
      [] job.op = "concat" -> "combine"
      [] OTHER -> IF SameDisk THEN "duplicate" ELSE "open"

FindSource ==
    /\ pc = "find"
    /\ \/ /\ Directory(Dev(job.src))
          /\ IF Exists(job.src) THEN Goto("prepare") ELSE End("error")
       \/ DirectoryFails(Dev(job.src)) /\ End("error")
    /\ Keep

(* bank_preparewrite(): the user may refuse; a disk file is scratched.     *)
Prepare ==
    /\ pc = "prepare"
    /\ \/ /\ Directory(Dev(job.dst))
          /\ \/ Goto(IF Exists(job.dst) /\ Dev(job.dst) # Cart THEN "scratch" ELSE Prepared)
             \/ Exists(job.dst) /\ End("stopped")
       \/ DirectoryFails(Dev(job.dst)) /\ End("error")
    /\ Keep

ScratchOld ==
    /\ pc = "scratch"
    /\ \/ CommandDone(Dev(job.dst), Without(files, {job.dst})) /\ Goto(Prepared)
       \/ CommandFails(Dev(job.dst), TRUE) /\ End("error")
    /\ Keep

(* What is left to do when a file has been copied. *)
Copied ==
    CASE job.op = "move" -> Goto("remove")
      [] job.op = "copy" -> End("done")
      [] job.op = "all" -> Goto("next")

(* "c0:dst=0:src" within a disk; when it fails it may leave a part.        *)
Duplicate ==
    LET possible == MayRead(job.src) /\ ~Exists(job.dst)
        part == [New(<<>>) EXCEPT !.closed = FALSE]
    IN  /\ pc = "duplicate"
        /\ \/ /\ possible
              /\ CommandDone(Dev(job.dst), [files EXCEPT ![job.dst] = {New(Old(files, job.src))}])
              /\ Copied
           \/ CommandFails(Dev(job.dst), possible) /\ End("error")
           \/ /\ possible /\ Troubles
              /\ CommandDone(Dev(job.dst), [files EXCEPT ![job.dst] = {part}])
              /\ End("error")
        /\ Keep

OpenSource ==
    /\ pc = "open"
    /\ \/ OpenRead(2, job.src) /\ Goto("create")
       \/ OpenFails(Dev(job.src), MayRead(job.src), chan) /\ End("error")
    /\ Keep

CreateCopy ==
    /\ pc = "create"
    /\ \/ OpenWrite(3, job.dst, FALSE) /\ Goto("stream")
       \/ OpenWriteFails(job.dst, FALSE, [chan EXCEPT ![2] = Idle]) /\ End("error")
    /\ Keep

(* readio() and channel_write(); RUN/STOP is seen after a write.           *)
ReadFailed_Ignored == UNCHANGED ok
ReadFailed == ok' = FALSE

Stream ==
    /\ pc = "stream"
    /\ \/ AtEnd(2) /\ Goto("finish") /\ UNCHANGED <<files, chan, ok>>
       \/ ReadMayFail(2) /\ Goto("finish") /\ ReadFailed /\ UNCHANGED <<files, chan>>
       \/ /\ CanRead(2)
          /\ \/ /\ CanWrite(3)
                /\ files' = Stored(3, Head(chan[2].data))
                /\ chan' = [chan EXCEPT ![2] = Rest(2), ![3] = Grown(3, Head(chan[2].data))]
                /\ \/ UNCHANGED <<pc, ok, result>>
                   \/ Goto("finish") /\ ok' = FALSE
             \/ /\ CanLose(3)
                /\ chan' = [chan EXCEPT ![2] = Rest(2), ![3] = Lost(3)]
                /\ UNCHANGED <<files, pc, ok, result>>
             \/ /\ WriteMayFail(3)
                /\ chan' = [chan EXCEPT ![2] = Rest(2), ![3] = Lost(3)]
                /\ Goto("finish") /\ ok' = FALSE
                /\ UNCHANGED files
    /\ UNCHANGED <<commandVars, cacheVars, jobVars, historyVars>>

(* Abort or close both files, and ask the destination how it went.         *)
Told_Never(works) == FALSE
Told(works) == ~works \/ chan[3].bad

Aborted_Committed == FALSE
Aborted == ~ok /\ Dev(job.dst) = Cart

Finish ==
    /\ pc = "finish"
    /\ \E works \in {TRUE, ~Troubles} :
         LET left == IF Aborted THEN files ELSE Closed(3, works)
             idle == [f \in Files |-> Idle]
         IN  \/ /\ Status(Dev(job.dst), left, idle)
                /\ IF ok /\ ~Told(works) THEN Copied ELSE End("error")
             \/ /\ Troubles /\ Dev(job.dst) # Cart
                /\ UseStatus(Dev(job.dst), FALSE) /\ files' = left /\ chan' = idle
                /\ End("error")
    /\ Forget
    /\ Keep

RemoveSource ==
    /\ pc = "remove"
    /\ \/ /\ MayScratch({job.src})
          /\ CommandDone(Dev(job.src), Without(files, {job.src}))
          /\ End("done")
       \/ CommandFails(Dev(job.src), MayScratch({job.src})) /\ End("error")
    /\ Keep

(* "r0:dst=src"; the cartridge replaces dst, a drive does not.             *)
RenameFile ==
    LET possible == /\ Exists(job.src)
                    /\ IF Dev(job.dst) = Cart THEN ~Locked(job.src) /\ ~Locked(job.dst)
                                              ELSE ~Exists(job.dst)
    IN  /\ pc = "rename"
        /\ \/ /\ possible
              /\ CommandDone(Dev(job.dst),
                             [files EXCEPT ![job.dst] = files[job.src], ![job.src] = {}])
              /\ End("done")
           \/ CommandFails(Dev(job.dst), possible) /\ End("error")
        /\ Keep

(* "c0:dst=a,b" *)
Joined(fs, sources) == Old(fs, sources[1]) \o Old(fs, sources[2])

Combine ==
    LET possible ==
          /\ MayRead(job.sources[1]) /\ MayRead(job.sources[2])
          /\ Len(Joined(files, job.sources)) <= SIZE
          /\ IF Dev(job.dst) = Cart THEN ~Locked(job.dst) ELSE ~Exists(job.dst)
    IN  /\ pc = "combine"
        /\ \/ /\ possible
              /\ CommandDone(Dev(job.dst),
                             [files EXCEPT ![job.dst] = {New(Joined(files, job.sources))}])
              /\ End("done")
           \/ CommandFails(Dev(job.dst), possible) /\ End("error")
        /\ Keep

-----------------------------------------------------------------------------
(* Many files: bank_copycmd() and bank_delcmd()                            *)

ListAll ==
    /\ pc = "list"
    /\ \/ /\ Directory(Dev(job.src))
          /\ limit' = Cardinality(entries')
          /\ Goto("next")
       \/ DirectoryFails(Dev(job.src)) /\ End("error") /\ UNCHANGED limit
    /\ UNCHANGED <<job, at, ok, historyVars>>

(* The copy of a file replaces the cache: the source is listed again.      *)
NextListing_Reused == at < limit
NextListing == Cached(Dev(job.src))

NextFile ==
    /\ pc = "next"
    /\ \/ at = limit /\ End("done") /\ UNCHANGED channelVars
       \/ at > 0 /\ End("stopped") /\ UNCHANGED channelVars      \* RUN/STOP
       \/ at < limit /\ NextListing /\ Goto("pick") /\ UNCHANGED channelVars
       \/ at < limit /\ ~NextListing /\ Directory(Dev(job.src)) /\ Goto("pick")
       \/ at < limit /\ ~NextListing /\ DirectoryFails(Dev(job.src)) /\ End("error")
    /\ Keep

PickFile ==
    /\ pc = "pick"
    /\ IF at < Cardinality(entries)
         THEN /\ job' = [job EXCEPT !.src[2] = EntryAt(entries, at), !.dst[2] = EntryAt(entries, at)]
              /\ at' = at + 1
              /\ Forget
              /\ Goto("find")
         ELSE End("done") /\ UNCHANGED <<job, at, cacheVars>>
    /\ UNCHANGED <<files, chan, commandVars, limit, ok, historyVars>>

Matching == {p \in Places : Dev(p) = job.dev /\ p[2] \in job.matches}

(* bank_deletable() *)
Check ==
    /\ pc = "check"
    /\ \/ /\ \A p \in Matching : ~Locked(p)
          /\ Goto(IF job.how = "each" THEN "snapshot" ELSE "erase")
       \/ (Troubles \/ \E p \in Matching : Locked(p)) /\ End("error")
    /\ Keep
    /\ UNCHANGED channelVars

Snapshot ==
    /\ pc = "snapshot"
    /\ \/ Directory(job.dev) /\ Goto("ask")
       \/ DirectoryFails(job.dev) /\ End("error")
    /\ Keep

Ask ==
    /\ pc = "ask"
    /\ IF at >= Cardinality(entries)
         THEN End("done") /\ UNCHANGED <<job, at, asked>>
         ELSE LET name == EntryAt(entries, at) IN
              \/ /\ name \in job.matches
                 /\ job' = [job EXCEPT !.src[2] = name]
                 /\ asked' = asked \cup {<<name, TRUE>>}
                 /\ Goto("delete")
                 /\ UNCHANGED at
              \/ /\ at' = at + 1
                 /\ asked' = IF name \in job.matches THEN asked \cup {<<name, FALSE>>} ELSE asked
                 /\ Goto("ask")
                 /\ UNCHANGED job
    /\ UNCHANGED <<channelVars, limit, ok, before>>

(* The listing is kept while its files go. *)
Following_Shifted == IF cachevalid' THEN at + 1 ELSE at + 2
Following == at + 1

DeleteFile ==
    /\ pc = "delete"
    /\ \/ /\ MayScratch({job.src})
          /\ CommandDone(job.dev, Without(files, {job.src}))
          /\ at' = Following
          /\ Goto("ask")
       \/ CommandFails(job.dev, MayScratch({job.src})) /\ End("error") /\ UNCHANGED at
    /\ UNCHANGED <<job, limit, ok, historyVars>>

(* One command for all that match. *)
EraseAll ==
    LET possible == job.dev # Cart \/ \E p \in Matching : Exists(p) IN
    /\ pc = "erase"
    /\ asked' = {<<n, TRUE>> : n \in job.matches}
    /\ \/ possible /\ CommandDone(job.dev, Without(files, Matching)) /\ End("done")
       \/ CommandFails(job.dev, possible) /\ End("error")
       \/ job.how = "single" /\ End("stopped") /\ UNCHANGED channelVars
    /\ UNCHANGED <<jobVars, ok, before>>

ServeFile ==
    \/ FindSource \/ Prepare \/ ScratchOld \/ Duplicate \/ OpenSource \/ CreateCopy \/ Stream
    \/ Finish \/ RemoveSource \/ RenameFile \/ Combine

ServeFiles == ListAll \/ NextFile \/ PickFile \/ Check \/ Snapshot \/ Ask \/ DeleteFile \/ EraseAll

Names == {p[2] : p \in Places}

Command ==
    \/ \E op \in {"copy", "move"}, src \in Places, dst \in Places : Copy(op, src, dst)
    \/ \E from \in Devices, to \in Devices : CopyAll(from, to)
    \/ \E dev \in Devices : \E a, b, dst \in {p \in Places : Dev(p) = dev} : Concat(<<a, b>>, dst)
    \/ \E src \in Places, dst \in Places : Rename(src, dst)
    \/ \E dev \in Devices, matches \in SUBSET Names, how \in {"single", "all", "each"} :
         Delete(dev, matches, how)
================================================================================
