-------------------------- MODULE JournalInvariant --------------------------
(***************************************************************************)
(* An inductive invariant of the journal: what is true before every block  *)
(* of code, and enough to show that the next block keeps it true.          *)
(***************************************************************************)
EXTENDS Journal

IsRecord(s, o) == o \in Offsets /\ cell[s][o] \in Record

(* Blocks that compact, in the order they run. *)
Compacting == pc \in {"compact", "erase", "copy", "move"}
Building == rotating \/ pc \in {"copy", "move", "seal", "activate"}

(* The index points at records before the end of the log it describes (or  *)
(* of the part scanned so far).                                            *)
IndexEnd == IF pc = "scan" THEN at ELSE tail
HeadsAreRecords ==
    pc \notin {"off", "condemned"} =>
      \A i \in Live : IsRecord(active, heads[i]) /\ heads[i] < IndexEnd

(* So does the index under construction on the other side.                 *)
NextEnd == IF rotating /\ pc \notin {"seal", "activate"} THEN writebase ELSE cursor
NextHeadsAreRecords ==
    Building =>
      \A i \in Slots : nextheads[i] # 0 => IsRecord(target, nextheads[i]) /\ nextheads[i] < NextEnd

(* Compaction on behalf of a request that has no record yet loses no slot. *)
NothingLost ==
    writer = Idle =>
      /\ pc = "copy" => cursor >= HEADER /\ \A i \in Live : i < at => nextheads[i] # 0
      /\ pc \in {"seal", "activate"} => \A i \in Live : nextheads[i] # 0

(* The record under construction is the next one of its log. *)
DraftIsNext ==
    writer # Idle =>
      /\ pc \notin {"off", "scan", "condemned", "scratch", "tag"}
      /\ newname \in Names
      /\ target = active => writebase = tail
      /\ ~failed /\ pc \notin {"copy", "move"} => cursor >= writebase + HEADER
      /\ ~failed /\ ~rotating /\ pc \notin {"erase", "copy", "move"} => target = active

(* Outside a write there is nothing to rotate. *)
RotationIsAWrite == rotating => writer # Idle /\ pc \notin {"erase", "copy", "move"}

(* Which requests a block serves, and what it may assume of them. *)
RequestFitsBlock ==
    /\ pc \in {"off", "scan", "condemned"} => job = NoJob
    /\ pc = "scratch" => job.op = "scratch"
    /\ pc = "tag" => ~failed /\ job.op \in {"open", "concat", "scratch", "metadata"}
    /\ pc \in {"reserve", "payload", "move"} =>
         writer # Idle /\ job.op \in {"write", "open", "concat"}
    /\ Compacting =>
         IF writer # Idle THEN job.op \in {"write", "open", "concat"} /\ ~failed
                          ELSE job.op \in {"compact", "open", "concat", "scratch", "metadata"}
    /\ pc \in {"reserve", "payload"} => ~failed
    /\ pc \in {"seal", "activate"} =>
         IF writer # Idle THEN job.op \in {"close", "concat"}
                          ELSE job.op \in {"compact", "open", "concat", "scratch", "metadata"}
    /\ job.op = "concat" => job.srcs # <<>>
    /\ pc \in {"fields", "commit"} =>
         /\ ~failed
         /\ job.op \in {"close", "concat", "scratch", "metadata"}
         /\ job.op \in {"close", "concat"} => writer # Idle
         /\ job.op \in {"scratch", "metadata"} =>
              writer = Idle /\ target = active /\ writebase = tail /\ cursor = tail + HEADER
                /\ data = <<>>
    /\ pc = "commit" => IsRecord(target, writebase)

(* The files a request works on are there while it runs. *)
SourcesExist ==
    /\ job.op \in {"scratch", "metadata"} /\ pc # "scratch" => heads[job.slot] # 0
    /\ writer # Idle /\ job.op = "open" => heads[wslot] # 0
    /\ writer # Idle /\ job.op = "concat" /\ (Compacting \/ pc = "payload") =>
         Named(Head(job.srcs)) # {}

IndInv ==
    /\ TypeOK
    /\ HeadsAreRecords /\ NextHeadsAreRecords /\ NothingLost
    /\ DraftIsNext /\ RotationIsAWrite
    /\ RequestFitsBlock /\ SourcesExist
    /\ RebuiltSideIsFree /\ WriterOwnsChannel

-----------------------------------------------------------------------------
(***************************************************************************)
(* Space.  The bytes of a log are accounted for: what the index holds      *)
(* never exceeds the capacity, a draft keeps within what is left of it,    *)
(* and a compaction puts on the other side no more than the live files.    *)
(***************************************************************************)

LenOf(i) == IF heads[i] = 0 THEN 0 ELSE Entry(i).len
Lens == [i \in Slots |-> LenOf(i)]
NextLen(i) == IF nextheads[i] = 0 THEN 0 ELSE cell[target][nextheads[i]].len

(* What a compaction copies of slot i, and of the slots below n, with the  *)
(* header of the sector.  The file that is being replaced is not copied.   *)
Size(i) == IF i \in Live /\ ~(writer # Idle /\ i = wslot) THEN HEADER + Entry(i).len ELSE 0
Sizes == [i \in Slots |-> Size(i)]
SizesBelow(n) == [i \in Slots |-> IF i < n THEN Size(i) ELSE 0]
Packed == HEADER + Sum(Sizes)
PackedBelow(n) == HEADER + Sum(SizesBelow(n))

(* A record of an index is committed, and in the slot it says. *)
SlotsMatch ==
    /\ pc \notin {"off", "condemned"} => \A i \in Live : Entry(i).commit /\ Entry(i).slot = i
    /\ Building => \A i \in Slots : nextheads[i] # 0 =>
         cell[target][nextheads[i]].commit /\ cell[target][nextheads[i]].slot = i

TotalsKept == pc \notin {"off", "scan", "condemned"} => livebytes = Sum(Lens) /\ livebytes <= CAPACITY

(* The draft replaces what the index has for its slot, and fits with it.   *)
DraftFits ==
    writer # Idle =>
      /\ oldlen = LenOf(wslot)
      /\ ~failed => livebytes - oldlen + Len(data) <= CAPACITY
      /\ ~failed /\ pc \notin {"copy", "move"} => cursor = writebase + HEADER + Len(data)

(* So does what a write is about to add; it never moves twice.             *)
WriteFits ==
    /\ pc = "payload" => Len(Incoming) <= LIMIT - cursor
    /\ pc = "payload" \/ (Compacting /\ writer # Idle) =>
         livebytes - oldlen + Len(data) + Len(Incoming) <= CAPACITY
    /\ pc = "compact" => ~rotating

CopyFits ==
    /\ pc = "copy" => cursor <= PackedBelow(at)
    /\ pc = "move" \/ (pc \in {"seal", "activate"} /\ writer = Idle) => cursor <= Packed
    /\ rotating => writebase <= Packed
    /\ Building => \A i \in Slots :
         NextLen(i) <= IF writer # Idle /\ i = wslot
                         THEN IF pc \in {"seal", "activate"} THEN Len(data) ELSE 0
                         ELSE LenOf(i)

(* A record about to be committed is the draft, or has the length of the   *)
(* record it follows.                                                      *)
CommitIsDraft ==
    pc = "commit" =>
      LET r == cell[target][writebase] IN
      /\ r.span = cursor - writebase
      /\ IF writer # Idle
           THEN r.kind = 1 /\ r.slot = wslot /\ r.drop = NoSlot /\ r.len = Len(data)
           ELSE r.slot = job.slot /\ r.len = LenOf(job.slot)

(* A record is written after all that are committed, where there is room.  *)
Recorded(log, o) == log[o].k = "rec" /\ log[o].commit
Clean(log, n) == \A o \in Offsets : o >= n => ~Recorded(log, o)

TailIsClean ==
    /\ pc \notin {"off", "scan", "condemned"} /\ ~dirty /\ tail <= LIMIT - HEADER => Clean(cell[active], tail)
    /\ writer # Idle \/ pc \in {"tag", "fields", "commit"} => ~dirty /\ tail <= LIMIT - HEADER
    /\ Building => Clean(cell[target], NextEnd)

SpaceFits ==
    /\ CursorInSector
    /\ SlotsMatch /\ TotalsKept /\ TailIsClean
    /\ DraftFits /\ WriteFits /\ CopyFits /\ CommitIsDraft

Invariant == IndInv /\ SpaceFits
=============================================================================
