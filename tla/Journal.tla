------------------------------- MODULE Journal -------------------------------
(***************************************************************************)
(* The MFJ3 flash journal of the EasyFlash cartridge                       *)
(* (src/easyflash/journal.h and the mailbox handlers of                    *)
(* src/easyflash/fs.c).                                                    *)
(*                                                                         *)
(* Two flash chips ("sides") hold one 64K sector each.  Files are records  *)
(* appended to the active side's log; the newest record of a directory     *)
(* slot is that slot's file.  A full or damaged log is compacted to the    *)
(* other side, which takes over when its sector header is sealed.          *)
(*                                                                         *)
(* A mailbox request runs with interrupts off, so requests do not          *)
(* interleave, but the machine can lose power or be reset between any two  *)
(* flash operations.  Each action below is therefore one request up to its *)
(* first flash operation, or the code from one flash operation to the next *)
(* (pc names the block about to run), and PowerLoss is enabled everywhere. *)
(* Runs of flash operations that the recovery scan cannot tell apart (the  *)
(* bytes of one payload, the fields of one header) are one step.           *)
(*                                                                         *)
(* A cell is one unit of flash: blank, a payload byte, a record header, or *)
(* something unusable.  A header takes HEADER units and is kept in its     *)
(* first one.  A CRC is modelled as a perfect one: the bytes it covers.    *)
(*                                                                         *)
(* A definition X_Slip is what X would be after a plausible slip in the    *)
(* code; the README says which property catches it.                        *)
(***************************************************************************)
EXTENDS Integers, Sequences, FiniteSets

CONSTANTS
    HEADER,       \* size of a sector header and of a record header
    LIMIT,        \* usable size of a sector
    CAPACITY,     \* payload bytes that may be live at once
    MAXFILES,     \* directory slots
    GENERATIONS,  \* 2^16: sector generations wrap
    Channels,     \* the CART_CHANNEL_COUNT channels
    Listers,      \* those on which directories are listed; the shell lists on 2
    Idle,         \* writer: no write in progress (0 in the code)
    Internal,     \* writer: a concatenation, bound to no channel (7)
    Names,        \* file names the shell can send
    Bytes,        \* payload byte values
    Garbage,      \* what reading a unit that holds no payload byte returns
    Chunks,       \* payloads of one CART_WRITE
    Faults,       \* may a flash operation report an error?
    Decays,       \* may flash lose a unit while the power is off?
    Requests      \* the mailbox requests this instance issues

Sides == {0, 1}
Slots == 0..(MAXFILES - 1)
NoSlot == MAXFILES
Offsets == 0..(LIMIT - 1)

(***************************************************************************)
(* The arithmetic of 32-byte headers, 40 slots, 64000 payload bytes and    *)
(* 65504 usable bytes: a sector always has room for its header, the        *)
(* largest legal set of live files and the record that replaces one of     *)
(* them.                                                                   *)
(***************************************************************************)
ASSUME JournalAssumption ==
    /\ HEADER \in Nat \ {0}
    /\ LIMIT \in Nat
    /\ CAPACITY \in Nat
    /\ MAXFILES \in Nat \ {0}
    /\ Listers \subseteq Channels
    /\ Idle \notin Channels /\ Internal \notin Channels /\ Idle # Internal
    /\ GENERATIONS \in Nat /\ GENERATIONS >= 4 /\ GENERATIONS % 2 = 0
    /\ HEADER + (MAXFILES + 1) * HEADER + CAPACITY <= LIMIT
    /\ Chunks \subseteq Seq(Bytes)
    /\ Garbage \notin Bytes
    /\ Faults \in BOOLEAN /\ Decays \in BOOLEAN

VARIABLES
    sector,      \* per side: the sector header's state, generation and base
    cell,        \* per side: the units of the log
    mounted, active, generation, heads, count, livebytes, tail, dirty,
    writer, failed, rotating, wslot, newname, oldlen,
    target, writebase, cursor, data, nextheads,
    channels,
    pc,          \* the block of code that runs next
    job,         \* the request being served
    error,       \* the result code of the last request
    at,          \* scan position while mounting; slot index while compacting
    partoff,     \* where an unfinished payload starts, while compacting
    retried      \* mount is scanning its second choice

flashVars == <<sector, cell>>
indexVars == <<mounted, active, generation, heads, count, livebytes, tail, dirty>>
draftVars == <<writer, failed, rotating, wslot, newname, oldlen>>
cursorVars == <<target, writebase, cursor, data, nextheads>>
localVars == <<at, partoff, retried>>
vars == <<flashVars, indexVars, draftVars, cursorVars, channels, pc, job, error, localVars>>

-----------------------------------------------------------------------------
(* Flash *)

Values == Bytes \cup {Garbage}

Blank == [k |-> "blank"]
Tag   == [k |-> "tag"]     \* tag byte programmed, no complete record
Junk  == [k |-> "junk"]    \* overwritten, half erased or decayed
Byte(v) == [k |-> "byte", v |-> v]

(* kind: 1=payload, 2=metadata, 3=deletion.  crc stands for bytes 26-27.   *)
Record ==
    [k: {"rec"}, commit: BOOLEAN, kind: {1, 2, 3}, slot: Slots, drop: Slots \cup {NoSlot},
     name: Names, ro: BOOLEAN, off: Nat, len: Nat, span: Nat, crc: Seq(Values)]

Cell == [k: {"blank", "tag", "junk"}] \cup [k: {"byte"}, v: Values] \cup Record

NoSector == [state |-> "unsealed", gen |-> 0, base |-> 0]
BlankLog == [o \in Offsets |-> Blank]

Get(s, o) == IF o \in Offsets /\ cell[s][o].k = "byte" THEN cell[s][o].v ELSE Garbage
Stored(s, off, len) == [j \in 1..len |-> Get(s, off + j - 1)]

(* Programming only clears bits: a unit that is not blank turns into junk. *)
Over(old, new) == IF old = Blank THEN new ELSE Junk

Programmed(log, off, bytes) ==
    [o \in Offsets |-> IF o \in off..(off + Len(bytes) - 1)
                         THEN Over(log[o], Byte(bytes[o - off + 1]))
                         ELSE log[o]]

(***************************************************************************)
(* The directory index: heads[i] is the offset of slot i's newest record   *)
(* on the active side, or 0.                                               *)
(***************************************************************************)
Live == {i \in Slots : heads[i] # 0}
Entry(i) == cell[active][heads[i]]
Named(n) == {i \in Live : Entry(i).name = n}
Contents(i) == Stored(active, Entry(i).off, Entry(i).len)
First(i, S) == i \in S /\ \A j \in S : i <= j

(* totals(): the sum over the slots of an index h into the log of side s.  *)
Sum(len) ==
    LET upto[i \in 0..MAXFILES] == IF i = 0 THEN 0 ELSE upto[i - 1] + len[i - 1]
    IN  upto[MAXFILES]

Totals(s, h) ==
    /\ count' = Cardinality({i \in Slots : h[i] # 0})
    /\ livebytes' = Sum([i \in Slots |-> IF h[i] = 0 THEN 0 ELSE cell[s][h[i]].len])
-----------------------------------------------------------------------------
(* Replies.  A variable that the code always sets again before it reads it *)
(* is returned to its initial value when the code is done with it.         *)

NoJob == [op |-> "none"]
NoName == ""
NoHeads == [i \in Slots |-> 0]
Closed == [kind |-> 0, side |-> 0, off |-> 0, len |-> 0, pos |-> 0]

ForgetLocals == at' = 0 /\ partoff' = 0 /\ retried' = FALSE

Forget ==
    /\ writer' = Idle /\ failed' = FALSE /\ rotating' = FALSE
    /\ wslot' = 0 /\ newname' = NoName /\ oldlen' = 0
    /\ target' = 0 /\ writebase' = 0 /\ cursor' = 0 /\ data' = <<>>
    /\ nextheads' = NoHeads

Reply(e) == pc' = "idle" /\ job' = NoJob /\ error' = e

Refuse(e) ==
    /\ Reply(e)
    /\ UNCHANGED <<flashVars, indexVars, draftVars, cursorVars, channels, localVars>>

Release_Lost == UNCHANGED channels
Release == channels' = [f \in Channels |-> IF writer = f THEN Closed ELSE channels[f]]

(***************************************************************************)
(* A request that fails after it began.  A failed WRITE leaves its writer  *)
(* open and failed, for CLOSE or ABORT to end; every other request that    *)
(* owns an unfinished record abandons it, which makes the tail dirty, as   *)
(* does a metadata request whose record is damaged.                        *)
(***************************************************************************)
SpoilsTail_Never == FALSE
SpoilsTail == writer # Idle \/ pc \in {"tag", "fields", "commit"}

GiveUp(e) ==
    /\ Reply(e)
    /\ ForgetLocals
    /\ UNCHANGED <<mounted, active, generation, heads, count, livebytes, tail>>
    /\ IF job.op = "write"
         THEN /\ failed' = TRUE
              /\ UNCHANGED <<dirty, writer, rotating, wslot, newname, oldlen, cursorVars, channels>>
         ELSE /\ dirty' = (dirty \/ SpoilsTail)
              /\ Forget
              /\ Release

-----------------------------------------------------------------------------
(* prepare(), startwrite() and the requests that write                     *)

Serving == pc = "idle"

TailUnusable_Dirty == tail > LIMIT - HEADER
TailUnusable == dirty \/ tail > LIMIT - HEADER

Prepare(j) ==
    IF writer # Idle
      THEN Refuse(60)
      ELSE /\ failed' = FALSE /\ rotating' = FALSE
           /\ pc' = IF TailUnusable THEN "compact" ELSE "tag"
           /\ job' = j
           /\ error' = 0
           /\ UNCHANGED <<flashVars, indexVars, writer, wslot, newname, oldlen, cursorVars,
                          channels, localVars>>

StartWrite(n, j) ==
    IF Named(n) = {} /\ Live = Slots
      THEN Refuse(72)
      ELSE \E i \in Slots :
             /\ First(i, IF Named(n) = {} THEN Slots \ Live ELSE Named(n))
             /\ Prepare([j EXCEPT !.slot = i])

ReadOnly(n) == \E i \in Named(n) : Entry(i).ro

(* CART_OPEN for writing or appending. *)
OpenWrite(f, n, append) ==
    /\ Serving /\ (IF append THEN "append" ELSE "write") \in Requests
    /\ IF channels[f].kind # 0 THEN Refuse(60)
       ELSE IF ReadOnly(n)     THEN Refuse(26)
       ELSE StartWrite(n, [op |-> "open", slot |-> 0, name |-> n, f |-> f, append |-> append])

(* CART_COMMAND "c0:dest=source,..." *)
Concat(n, sources) ==
    /\ Serving /\ "concat" \in Requests
    /\ IF ReadOnly(n) THEN Refuse(26)
       ELSE StartWrite(n, [op |-> "concat", slot |-> 0, name |-> n, srcs |-> sources])

(* CART_COMMAND "s0:pattern", with the set of names the pattern matches.   *)
Matching(names) == {i \in Live : Entry(i).name \in names}

Scratch(names) ==
    /\ Serving /\ "scratch" \in Requests
    /\ IF \E i \in Matching(names) : Entry(i).ro THEN Refuse(26)
       ELSE IF Matching(names) = {}              THEN Refuse(62)
       ELSE \E i \in Slots :
              /\ First(i, Matching(names))
              /\ Prepare([op |-> "scratch", slot |-> i, names |-> names])

(* The next match, each with a record of its own. *)
ScratchNext ==
    /\ pc = "scratch"
    /\ IF Matching(job.names) = {} THEN Refuse(0)
       ELSE \E i \in Slots :
              /\ First(i, Matching(job.names))
              /\ Prepare([job EXCEPT !.slot = i])

(* CART_COMMAND "r0:new=old"; a file that has the new name is replaced.    *)
Rename(new, old) ==
    /\ Serving /\ "rename" \in Requests
    /\ IF ReadOnly(new)             THEN Refuse(26)
       ELSE IF Named(old) = {}      THEN Refuse(62)
       ELSE IF ReadOnly(old)        THEN Refuse(26)
       ELSE IF new = old            THEN Refuse(0)
       ELSE \E i \in Named(old), d \in Slots \cup {NoSlot} :
              /\ First(i, Named(old))
              /\ IF Named(new) = {} THEN d = NoSlot ELSE First(d, Named(new))
              /\ Prepare([op |-> "metadata", slot |-> i, drop |-> d, name |-> new,
                          ro |-> Entry(i).ro])

(* CART_ATTRIBUTE, setting (TRUE) or clearing the read-only flag. *)
Attribute(n, flag) ==
    /\ Serving /\ "attribute" \in Requests
    /\ IF Named(n) = {} THEN Refuse(62)
       ELSE \E i \in Slots :
              /\ First(i, Named(n))
              /\ IF Entry(i).ro = flag THEN Refuse(0)
                 ELSE Prepare([op |-> "metadata", slot |-> i, drop |-> NoSlot, name |-> n,
                               ro |-> flag])

(* CART_COMPACT: nothing to do when the live records are already packed. *)
Compact ==
    /\ Serving /\ "compact" \in Requests
    /\ IF writer # Idle THEN Refuse(60)
       ELSE IF ~dirty /\ tail <= HEADER + livebytes + count * HEADER THEN Refuse(0)
       ELSE /\ pc' = "compact" /\ job' = [op |-> "compact"] /\ error' = 0
            /\ failed' = FALSE /\ rotating' = FALSE
            /\ UNCHANGED <<flashVars, indexVars, writer, wslot, newname, oldlen, cursorVars,
                           channels, localVars>>

(* CART_WRITE *)
Write(f, bytes) ==
    /\ Serving /\ channels[f].kind = 2
    /\ IF writer # f THEN Refuse(61)
       ELSE IF failed THEN Refuse(25)
       ELSE /\ pc' = "reserve" /\ job' = [op |-> "write", bytes |-> bytes] /\ error' = 0
            /\ UNCHANGED <<flashVars, indexVars, draftVars, cursorVars, channels, localVars>>

(* CART_CLOSE: completewrite() for the channel that is writing. *)
Close(f) ==
    /\ Serving /\ (channels[f].kind # 0 \/ writer = f)
    /\ IF channels[f].kind = 2 /\ writer = f /\ ~failed
         THEN /\ pc' = "fields" /\ job' = [op |-> "close"] /\ error' = 0
              /\ UNCHANGED <<flashVars, indexVars, draftVars, cursorVars, channels, localVars>>
         ELSE /\ Reply(IF channels[f].kind = 2 /\ writer = f THEN 25 ELSE 0)
              /\ channels' = [channels EXCEPT ![f] = Closed]
              /\ IF channels[f].kind = 2 /\ writer = f
                   THEN dirty' = TRUE /\ Forget
                   ELSE UNCHANGED <<dirty, draftVars, cursorVars>>
              /\ UNCHANGED <<flashVars, mounted, active, generation, heads, count, livebytes, tail,
                             localVars>>

(* CART_ABORT *)
Abort(f) ==
    /\ Serving /\ writer = f
    /\ Reply(0)
    /\ channels' = [channels EXCEPT ![f] = Closed]
    /\ dirty' = TRUE
    /\ Forget
    /\ UNCHANGED <<flashVars, mounted, active, generation, heads, count, livebytes, tail, localVars>>

(* CART_OPEN for reading: the channel keeps the payload's coordinates. *)
OpenRead(f, n) ==
    /\ Serving /\ "read" \in Requests
    /\ IF channels[f].kind # 0    THEN Refuse(60)
       ELSE IF Named(n) = {}      THEN Refuse(62)
       ELSE \E i \in Slots :
              /\ First(i, Named(n))
              /\ channels' = [channels EXCEPT ![f] =
                   [kind |-> 1, side |-> active, off |-> Entry(i).off, len |-> Entry(i).len,
                    pos |-> 0]]
              /\ Reply(0)
              /\ UNCHANGED <<flashVars, indexVars, draftVars, cursorVars, localVars>>

(* CART_READ of up to n bytes. *)
Read(f, n) ==
    /\ Serving /\ channels[f].kind = 1
    /\ channels' = [channels EXCEPT ![f].pos =
                      IF n > channels[f].len - @ THEN channels[f].len ELSE @ + n]
    /\ Reply(0)
    /\ UNCHANGED <<flashVars, indexVars, draftVars, cursorVars, localVars>>

(***************************************************************************)
(* CART_DIRECTORY, from the start: whatever the channel was open for, it   *)
(* is a listing now.  Its other fields are not read before it is opened.   *)
(***************************************************************************)
ListFiles(f) ==
    /\ Serving
    /\ channels' = [channels EXCEPT ![f] = [Closed EXCEPT !.kind = 3]]
    /\ Reply(0)
    /\ UNCHANGED <<flashVars, indexVars, draftVars, cursorVars, localVars>>

(* The next line: the volume, then a file, then the free space.  The shell *)
(* asks for one only on a channel where it has begun a listing.            *)
NextEntry(f) ==
    /\ Serving /\ channels[f].kind = 3
    /\ channels' = [channels EXCEPT ![f].pos = IF @ <= count THEN @ + 1 ELSE @]
    /\ Reply(0)
    /\ UNCHANGED <<flashVars, indexVars, draftVars, cursorVars, localVars>>
-----------------------------------------------------------------------------
(* The flash program of a request                                          *)

(***************************************************************************)
(* The end of prepare(): the tag byte of the next record is programmed     *)
(* before anything else, so that no scan can take its place for erased     *)
(* flash; then the request goes on with a record of its own.               *)
(***************************************************************************)
ReplacedLength == IF heads[job.slot] = 0 THEN 0 ELSE Entry(job.slot).len

BeginDraft ==
    /\ wslot' = job.slot /\ newname' = job.name /\ oldlen' = ReplacedLength
    /\ IF job.op = "open"
         THEN /\ writer' = job.f
              /\ channels' = [channels EXCEPT ![job.f] = [Closed EXCEPT !.kind = 2]]
              /\ IF job.append /\ heads[job.slot] # 0
                   THEN pc' = "reserve" /\ UNCHANGED <<job, error>>
                   ELSE Reply(0)
         ELSE writer' = Internal /\ pc' = "reserve" /\ UNCHANGED <<channels, job, error>>

TagRecord ==
    /\ pc = "tag"
    /\ target' = active /\ writebase' = tail /\ cursor' = tail + HEADER /\ data' = <<>>
    /\ cell' = [cell EXCEPT ![active][tail] = Over(@, Tag)]
    /\ IF job.op \in {"open", "concat"}
         THEN BeginDraft
         ELSE /\ pc' = "fields"
              /\ UNCHANGED <<writer, wslot, newname, oldlen, channels, job, error>>
    /\ UNCHANGED <<sector, indexVars, failed, rotating, nextheads, localVars>>

TagFails ==
    /\ Faults /\ pc = "tag"
    /\ GiveUp(25)
    /\ \/ cell' = [cell EXCEPT ![active][tail] = Junk]
       \/ cell' = cell
    /\ sector' = sector

(***************************************************************************)
(* reserve() and payload(): the bytes a WRITE brings, the old payload of   *)
(* an append, or the next source of a concatenation.  Sources are read     *)
(* from the active side, which a compaction for this record leaves alone.  *)
(***************************************************************************)
Incoming_Target ==
    CASE job.op = "write"  -> job.bytes
      [] job.op = "open"   -> Contents(wslot)
      [] job.op = "concat" -> LET i == CHOOSE i \in Named(Head(job.srcs)) : TRUE
                              IN  Stored(target, Entry(i).off, Entry(i).len)
Incoming ==
    CASE job.op = "write"  -> job.bytes
      [] job.op = "open"   -> Contents(wslot)
      [] job.op = "concat" -> Contents(CHOOSE i \in Named(Head(job.srcs)) : TRUE)

Length == cursor - writebase - HEADER
Room_Draft == CAPACITY - (livebytes - oldlen)
Room == CAPACITY - (livebytes - oldlen) - Length

Reserve ==
    /\ pc = "reserve"
    /\ IF job.op = "concat" /\ Named(Head(job.srcs)) = {}
         THEN GiveUp(62) /\ UNCHANGED flashVars
       ELSE IF Len(Incoming) > Room
         THEN GiveUp(72) /\ UNCHANGED flashVars
       ELSE /\ pc' = IF Len(Incoming) > LIMIT - cursor THEN "compact" ELSE "payload"
            /\ UNCHANGED <<flashVars, indexVars, draftVars, cursorVars, channels, job, error, localVars>>

Payload ==
    /\ pc = "payload"
    /\ cell' = [cell EXCEPT ![target] = Programmed(@, cursor, Incoming)]
    /\ cursor' = cursor + Len(Incoming)
    /\ data' = data \o Incoming
    /\ IF job.op # "concat" THEN Reply(0)
       ELSE IF Len(job.srcs) = 1 THEN pc' = "fields" /\ UNCHANGED <<job, error>>
       ELSE /\ pc' = "reserve" /\ job' = [job EXCEPT !.srcs = Tail(@)]
            /\ UNCHANGED error
    /\ UNCHANGED <<sector, indexVars, draftVars, target, writebase, nextheads, channels, localVars>>

(* A program error after the first n bytes. *)
PayloadFails ==
    /\ Faults /\ pc = "payload"
    /\ \E n \in 0..(Len(Incoming) - 1) :
         cell' = [cell EXCEPT ![target] = Programmed(@, cursor, SubSeq(Incoming, 1, n))]
    /\ sector' = sector
    /\ GiveUp(25)

(***************************************************************************)
(* finishrecord(): every field and the CRC are programmed and verified     *)
(* before the commit byte.                                                 *)
(***************************************************************************)
NewRecord ==
    LET old  == Entry(job.slot)
        file == [k |-> "rec", commit |-> FALSE, kind |-> 1, slot |-> wslot, drop |-> NoSlot,
                 name |-> newname, ro |-> FALSE, off |-> writebase + HEADER, len |-> Length,
                 span |-> cursor - writebase, crc |-> data]
    IN  CASE job.op \in {"close", "concat"} -> file
          [] job.op = "scratch"  -> [old EXCEPT !.commit = FALSE, !.kind = 3, !.drop = NoSlot,
                                                !.span = HEADER, !.crc = <<>>]
          [] job.op = "metadata" -> [old EXCEPT !.commit = FALSE, !.kind = 2, !.drop = job.drop,
                                                !.name = job.name, !.ro = job.ro,
                                                !.span = HEADER, !.crc = <<>>]

Fields ==
    /\ pc = "fields"
    /\ sector' = sector
    /\ IF cell[target][writebase] = Tag /\ Stored(target, writebase + HEADER, Length) = data
         THEN /\ cell' = [cell EXCEPT ![target][writebase] = NewRecord]
              /\ pc' = "commit"
              /\ UNCHANGED <<indexVars, draftVars, cursorVars, channels, job, error, localVars>>
         ELSE /\ cell' = [cell EXCEPT ![target][writebase] = Junk]
              /\ GiveUp(25)

RecordFails ==
    /\ Faults /\ pc \in {"fields", "commit"}
    /\ cell' = [cell EXCEPT ![target][writebase] = Junk]
    /\ sector' = sector
    /\ GiveUp(25)

(* apply() of the record just committed, and totals(). *)
Publish_Header(h, log) == heads' = h /\ tail' = writebase + HEADER /\ Totals(log, h)
Publish(h, log) ==
    /\ heads' = h
    /\ tail' = cursor
    /\ Totals(log, h)

Applied_Kept(h, o) ==
    LET r == cell[target][o]
    IN  [i \in Slots |-> IF i = r.slot THEN (IF r.kind = 3 THEN 0 ELSE o) ELSE h[i]]
Applied(h, o) ==
    LET r == cell[target][o]
    IN  [i \in Slots |-> IF i = r.slot THEN (IF r.kind = 3 THEN 0 ELSE o)
                         ELSE IF i = r.drop THEN 0 ELSE h[i]]

Commit ==
    /\ pc = "commit"
    /\ cell' = [cell EXCEPT ![target][writebase].commit = TRUE]
    /\ sector' = sector
    /\ IF rotating
         THEN /\ nextheads' = [nextheads EXCEPT ![wslot] = writebase]
              /\ pc' = "seal"
              /\ UNCHANGED <<indexVars, draftVars, target, writebase, cursor, data, channels, job,
                             error, localVars>>
         ELSE /\ Publish(Applied(heads, writebase), target)
              /\ IF job.op = "scratch" THEN pc' = "scratch" /\ UNCHANGED <<job, error>>
                                       ELSE Reply(0)
              /\ Forget
              /\ Release
              /\ UNCHANGED <<mounted, active, generation, dirty, localVars>>

(***************************************************************************)
(* compact(): copy what is live to the other side.  For a request in the   *)
(* middle of a record (writer # Idle) the unfinished payload moves too,    *)
(* and the new side is sealed only when that record closes.                *)
(***************************************************************************)
Referenced_Never(s) == FALSE
Referenced(s) == \E f \in Channels : channels[f].kind = 1 /\ channels[f].side = s

CompactBegin ==
    /\ pc = "compact"
    /\ IF rotating THEN GiveUp(72) /\ UNCHANGED flashVars
       ELSE IF Referenced(1 - active)
         THEN GiveUp(60) /\ UNCHANGED flashVars
       ELSE /\ target' = 1 - active
            /\ pc' = "erase"
            /\ UNCHANGED <<flashVars, indexVars, draftVars, writebase, cursor, data, nextheads,
                           channels, job, error, localVars>>

Erase ==
    /\ pc = "erase"
    /\ sector' = [sector EXCEPT ![target] = NoSector]
    /\ cell' = [cell EXCEPT ![target] = BlankLog]
    /\ nextheads' = NoHeads
    /\ cursor' = HEADER
    /\ partoff' = writebase + HEADER
    /\ at' = 0
    /\ pc' = "copy"
    /\ UNCHANGED <<indexVars, draftVars, target, writebase, data, channels, job, error, retried>>

(* What an erase that did not finish leaves of side s. *)
HalfErased(s) ==
    \/ UNCHANGED flashVars
    \/ /\ cell' = [cell EXCEPT ![s] = [o \in Offsets |-> Junk]]
       /\ \/ sector' = sector
          \/ sector' = [sector EXCEPT ![s] = NoSector]
    \/ /\ cell' = [cell EXCEPT ![s] = BlankLog]
       /\ sector' = [sector EXCEPT ![s] = NoSector]

EraseFails ==
    /\ Faults /\ pc = "erase"
    /\ HalfErased(target)
    /\ GiveUp(25)

(* Put a complete record for slot i, holding bytes, at offset o of a log. *)
Copied_Offset(log, o, i, bytes) ==
    [Programmed(log, o + HEADER, bytes) EXCEPT
       ![o] = [Entry(i) EXCEPT !.kind = 1, !.drop = NoSlot, !.slot = i, !.len = Len(bytes),
                               !.span = HEADER + Len(bytes), !.crc = bytes]]
Copied(log, o, i, bytes) ==
    [Programmed(log, o + HEADER, bytes) EXCEPT
       ![o] = [Entry(i) EXCEPT !.kind = 1, !.drop = NoSlot, !.slot = i, !.off = o + HEADER,
                               !.len = Len(bytes), !.span = HEADER + Len(bytes), !.crc = bytes]]

ToCopy_Stale == {i \in Live : i >= at /\ i # wslot}
ToCopy == {i \in Live : i >= at /\ ~(writer # Idle /\ i = wslot)}

CopyNext ==
    /\ pc = "copy"
    /\ IF ToCopy = {}
         THEN /\ pc' = IF writer # Idle THEN "move" ELSE "seal"
              /\ UNCHANGED <<cell, cursor, nextheads, at>>
         ELSE \E i \in Slots :
              /\ First(i, ToCopy)
              /\ cell' = [cell EXCEPT ![target] = Copied(@, cursor, i, Contents(i))]
              /\ nextheads' = [nextheads EXCEPT ![i] = cursor]
              /\ cursor' = cursor + HEADER + Entry(i).len
              /\ at' = i + 1
              /\ UNCHANGED pc
    /\ UNCHANGED <<sector, indexVars, draftVars, target, writebase, data, channels, job, error,
                   partoff, retried>>

(* The unfinished payload, as read back from the old side. *)
Moved == Stored(active, partoff, Len(data))

MovedTo(log) ==
    [Programmed(log, cursor + HEADER, Moved) EXCEPT ![cursor] = Over(@, Tag)]

Move ==
    /\ pc = "move"
    /\ cell' = [cell EXCEPT ![target] = MovedTo(@)]
    /\ sector' = sector
    /\ IF Moved # data
         THEN GiveUp(25)
         ELSE /\ rotating' = TRUE
              /\ writebase' = cursor
              /\ cursor' = cursor + HEADER + Len(data)
              /\ pc' = "payload"
              /\ ForgetLocals
              /\ UNCHANGED <<indexVars, writer, failed, wslot, newname, oldlen, target, data,
                             nextheads, channels, job, error>>

NextGeneration == (generation + 1) % GENERATIONS

(* seal(): header fields and CRC first, the marker in byte 15 last. *)
Seal ==
    /\ pc = "seal"
    /\ sector' = [sector EXCEPT ![target] = [state |-> "unsealed", base |-> cursor,
                                             gen |-> NextGeneration]]
    /\ pc' = "activate"
    /\ UNCHANGED <<cell, indexVars, draftVars, cursorVars, channels, job, error, localVars>>

(* The marker makes the sector the newest; activate() follows in RAM. *)
Activate ==
    /\ pc = "activate"
    /\ sector' = [sector EXCEPT ![target].state = "sealed"]
    /\ cell' = cell
    /\ active' = target
    /\ generation' = NextGeneration
    /\ Publish(nextheads, target)
    /\ dirty' = FALSE
    /\ mounted' = mounted
    /\ Forget
    /\ Release
    /\ ForgetLocals
    /\ IF writer # Idle \/ job.op = "compact" THEN Reply(0)
                                             ELSE pc' = "tag" /\ UNCHANGED <<job, error>>

(* A program error while the new side is written: it stays unsealed, so    *)
(* what was programmed of the failed record is never looked at again.      *)
CompactFails ==
    /\ Faults /\ pc \in {"copy", "move", "seal", "activate"}
    /\ GiveUp(25)
    /\ UNCHANGED flashVars
-----------------------------------------------------------------------------
(* Loss of power, and mount()                                              *)

NoIndex ==
    /\ mounted' = FALSE /\ active' = 0 /\ generation' = 0 /\ heads' = NoHeads
    /\ count' = 0 /\ livebytes' = 0 /\ tail' = 0 /\ dirty' = FALSE

NoFilesystem ==
    /\ pc' = "off" /\ job' = NoJob /\ error' = 74
    /\ NoIndex /\ ForgetLocals
    /\ UNCHANGED <<draftVars, cursorVars, channels>>

(* Reset or power failure, at any point: all of the above is in RAM. *)
PowerLoss ==
    /\ pc # "off"
    /\ IF pc = "erase" THEN HalfErased(target) ELSE UNCHANGED flashVars
    /\ pc' = "off" /\ job' = NoJob /\ error' = 0
    /\ NoIndex /\ Forget /\ ForgetLocals
    /\ channels' = [f \in Channels |-> Closed]

(* headerend() # 0 *)
Sealed(s) == sector[s].state = "sealed"

(* Generations wrap: the newer one is less than half the range ahead. *)
Newer_Linear(s, r) == sector[s].gen > sector[r].gen
Newer(s, r) == (sector[s].gen - sector[r].gen) % GENERATIONS < GENERATIONS \div 2

Chosen == IF Sealed(1) /\ (~Sealed(0) \/ Newer(1, 0)) THEN 1 ELSE 0

ScanFrom(s) ==
    /\ active' = s /\ at' = HEADER /\ heads' = NoHeads /\ dirty' = FALSE
    /\ pc' = "scan"

(* A unit of flash goes bad; not something the code does. *)
Decay ==
    /\ Decays /\ pc = "off" /\ error = 0
    /\ \E s \in Sides, o \in Offsets :
         /\ cell[s][o].k \in {"rec", "byte"}
         /\ cell' = [cell EXCEPT ![s][o] = Junk]
    /\ UNCHANGED <<sector, indexVars, draftVars, cursorVars, channels, pc, job, error, localVars>>

(* CART_INIT; the flash driver may fail to start. *)
Mount ==
    /\ pc = "off"
    /\ \/ /\ Sealed(0) \/ Sealed(1)
          /\ ScanFrom(Chosen)
          /\ error' = 0
          /\ retried' = FALSE
          /\ UNCHANGED <<flashVars, mounted, generation, count, livebytes, tail, draftVars,
                         cursorVars, channels, job, partoff>>
       \/ /\ Faults \/ ~(Sealed(0) \/ Sealed(1))
          /\ error # 74
          /\ NoFilesystem
          /\ UNCHANGED flashVars

(* The tests of scan() on the record at offset o of side s. *)
Valid_Uncommitted(s, o) ==
    LET r == cell[s][o]
    IN  r.k = "rec" /\ Stored(s, o + HEADER, r.span - HEADER) = r.crc
Valid(s, o) ==
    LET r == cell[s][o]
    IN  /\ r.k = "rec" /\ r.commit
        /\ r.span >= HEADER /\ r.span <= LIMIT - o
        /\ r.drop # r.slot
        /\ IF r.kind = 1 THEN r.off = o + HEADER /\ r.len = r.span - HEADER
                         ELSE r.span = HEADER
        /\ r.len <= CAPACITY
        /\ r.kind = 2 => r.off >= HEADER /\ r.off <= o /\ r.len <= o - r.off
        /\ Stored(s, o + HEADER, r.span - HEADER) = r.crc

MoreToScan == at <= LIMIT - HEADER /\ cell[active][at] # Blank

(* One turn of scan()'s loop.  A record that straddles the sealed base     *)
(* condemns the sector, as does a log that ends before it.                 *)
ScanRecord ==
    /\ pc = "scan" /\ MoreToScan /\ Valid(active, at)
    /\ LET r == cell[active][at]
           straddles == at < sector[active].base /\ at + r.span > sector[active].base
       IN  /\ heads' = [i \in Slots |-> IF i = r.slot THEN (IF r.kind = 3 THEN 0 ELSE at)
                                        ELSE IF i = r.drop THEN 0 ELSE heads[i]]
           /\ at' = at + r.span
           /\ pc' = IF straddles THEN "condemned" ELSE "scan"
    /\ UNCHANGED <<flashVars, mounted, active, generation, count, livebytes, tail, dirty,
                   draftVars, cursorVars, channels, job, error, partoff, retried>>

PrefixLost_Never == FALSE
PrefixLost == at < sector[active].base

ScanEnds ==
    /\ pc = "scan" /\ ~(MoreToScan /\ Valid(active, at))
    /\ dirty' = MoreToScan
    /\ tail' = at
    /\ IF PrefixLost
         THEN pc' = "condemned" /\ UNCHANGED <<mounted, generation, count, livebytes, at, retried>>
         ELSE /\ pc' = "idle"
              /\ mounted' = TRUE
              /\ generation' = sector[active].gen
              /\ Totals(active, heads)
              /\ at' = 0 /\ retried' = FALSE
    /\ UNCHANGED <<flashVars, active, heads, draftVars, cursorVars, channels, job, error, partoff>>

(* The chosen sector is damaged inside its sealed prefix: try the other. *)
FallBack_Never ==
    /\ pc = "condemned"
    /\ NoFilesystem
    /\ UNCHANGED flashVars
FallBack_Again ==
    /\ pc = "condemned"
    /\ IF Sealed(1 - active)
         THEN /\ ScanFrom(1 - active)
              /\ UNCHANGED <<mounted, generation, count, livebytes, tail, draftVars, cursorVars,
                             channels, job, error, partoff, retried>>
         ELSE NoFilesystem
    /\ UNCHANGED flashVars
FallBack ==
    /\ pc = "condemned"
    /\ IF ~retried /\ Sealed(1 - active)
         THEN /\ ScanFrom(1 - active)
              /\ retried' = TRUE
              /\ UNCHANGED <<mounted, generation, count, livebytes, tail, draftVars, cursorVars,
                             channels, job, error, partoff>>
         ELSE NoFilesystem
    /\ UNCHANGED flashVars

-----------------------------------------------------------------------------

(* A cartridge as the image builder makes it: one sealed, empty sector. *)
Init ==
    /\ sector = [s \in Sides |-> IF s = 0 THEN [state |-> "sealed", gen |-> 0, base |-> HEADER]
                                          ELSE NoSector]
    /\ cell = [s \in Sides |-> BlankLog]
    /\ mounted = FALSE /\ active = 0 /\ generation = 0 /\ heads = NoHeads
    /\ count = 0 /\ livebytes = 0 /\ tail = 0 /\ dirty = FALSE
    /\ writer = Idle /\ failed = FALSE /\ rotating = FALSE
    /\ wslot = 0 /\ newname = NoName /\ oldlen = 0
    /\ target = 0 /\ writebase = 0 /\ cursor = 0 /\ data = <<>> /\ nextheads = NoHeads
    /\ channels = [f \in Channels |-> Closed]
    /\ pc = "off" /\ job = NoJob /\ error = 0
    /\ at = 0 /\ partoff = 0 /\ retried = FALSE

Request ==
    \/ \E f \in Channels, n \in Names, append \in BOOLEAN : OpenWrite(f, n, append)
    \/ \E n \in Names, m \in Names : Concat(n, <<m>>)
    \/ \E n \in Names, m \in Names, l \in Names : Concat(n, <<m, l>>)
    \/ \E names \in SUBSET Names : Scratch(names)
    \/ \E new \in Names, old \in Names : Rename(new, old)
    \/ \E n \in Names, flag \in BOOLEAN : Attribute(n, flag)
    \/ Compact
    \/ \E f \in Channels, bytes \in Chunks : Write(f, bytes)
    \/ \E f \in Channels : Close(f)
    \/ \E f \in Channels : Abort(f)
    \/ \E f \in Channels, n \in Names : OpenRead(f, n)
    \/ \E f \in Channels : Read(f, 1)
    \/ \E f \in Listers : ListFiles(f) \/ NextEntry(f)

(* The code that runs once a request has begun; it never waits. *)
Continue ==
    \/ ScratchNext \/ TagRecord \/ Reserve \/ Payload \/ Fields \/ Commit
    \/ CompactBegin \/ Erase \/ CopyNext \/ Move \/ Seal \/ Activate
    \/ ScanRecord \/ ScanEnds \/ FallBack

Failure == TagFails \/ PayloadFails \/ RecordFails \/ EraseFails \/ CompactFails

Next == Request \/ Continue \/ Failure \/ Mount \/ PowerLoss \/ Decay

Spec == Init /\ [][Next]_vars

(* The processor executes a begun request to its end, and the shell mounts *)
(* the filesystem when it starts.                                          *)
FairSpec == Spec /\ WF_vars(Continue) /\ WF_vars(Mount)

-----------------------------------------------------------------------------
(* Properties *)

Jobs ==
    [op: {"none", "compact", "close"}]
      \cup [op: {"open"}, slot: Slots, name: Names, f: Channels, append: BOOLEAN]
      \cup [op: {"concat"}, slot: Slots, name: Names, srcs: Seq(Names)]
      \cup [op: {"scratch"}, slot: Slots, names: SUBSET Names]
      \cup [op: {"metadata"}, slot: Slots, drop: Slots \cup {NoSlot}, name: Names, ro: BOOLEAN]
      \cup [op: {"write"}, bytes: Seq(Bytes)]

Blocks ==
    {"off", "scan", "condemned", "idle", "scratch", "tag", "reserve", "payload", "fields", "commit",
     "compact", "erase", "copy", "move", "seal", "activate"}

Errors == {0, 25, 26, 60, 61, 62, 72, 74}

(* The type of every variable. *)
TypeOK ==
    /\ sector \in [Sides -> [state: {"unsealed", "sealed"}, gen: 0..(GENERATIONS - 1), base: Nat]]
    /\ cell \in [Sides -> [Offsets -> Cell]]
    /\ mounted \in BOOLEAN
    /\ active \in Sides
    /\ generation \in 0..(GENERATIONS - 1)
    /\ heads \in [Slots -> Nat]
    /\ count \in Nat /\ livebytes \in Nat /\ tail \in Nat
    /\ dirty \in BOOLEAN
    /\ writer \in Channels \cup {Idle, Internal}
    /\ failed \in BOOLEAN /\ rotating \in BOOLEAN
    /\ wslot \in Slots
    /\ newname \in Names \cup {NoName}
    /\ oldlen \in Nat
    /\ target \in Sides
    /\ writebase \in Nat /\ cursor \in Nat
    /\ data \in Seq(Values)
    /\ nextheads \in [Slots -> Nat]
    /\ channels \in [Channels -> [kind: 0..3, side: Sides, off: Nat, len: Nat, pos: Nat]]
    /\ pc \in Blocks
    /\ job \in Jobs
    /\ error \in Errors
    /\ at \in Nat /\ partoff \in Nat
    /\ retried \in BOOLEAN

(***************************************************************************)
(* While a side is being rebuilt, from the first moment of its erasure     *)
(* until it is sealed or given up -- for a rotating write that is until    *)
(* its channel closes, many requests later -- it is not the side the       *)
(* directory index describes, and no open reader has its file on it.       *)
(***************************************************************************)
Rebuilding == rotating \/ pc \in {"erase", "copy", "move", "seal", "activate"}

RebuiltSideIsFree ==
    Rebuilding =>
      /\ target = 1 - active
      /\ \A f \in Channels : channels[f].kind = 1 => channels[f].side # target

(***************************************************************************)
(* Flash units are programmed once.  What a step changes on a side that is *)
(* not being erased was blank before, or is the header of the record under *)
(* construction: after every reset the scan finds the true end of the log. *)
(* (A failed program operation may spoil the unit it was meant for.)       *)
(***************************************************************************)
ProgrammedOnce ==
    [][\A s \in Sides, o \in Offsets :
         cell'[s][o] # cell[s][o] =>
           \/ cell[s][o] = Blank
           \/ pc = "erase" /\ s = target
           \/ pc \in {"fields", "commit"} /\ s = target /\ o = writebase]_vars

(***************************************************************************)
(* reserve() and the capacity bound fit together: when a write needs room, *)
(* none of reserve()'s unsigned differences has wrapped, and a write that  *)
(* has already moved to a fresh side never has to move again, so "disk     *)
(* full" is only ever reported by the capacity test.                       *)
(***************************************************************************)
CursorInSector == cursor <= LIMIT

SpaceSuffices ==
    /\ CursorInSector
    /\ pc = "compact" => ~rotating
    /\ pc = "reserve" => Length >= 0 /\ oldlen <= livebytes /\ livebytes - oldlen + Length <= CAPACITY

(***************************************************************************)
(* A writer and its channel go together: no channel is left in writing     *)
(* mode without being the writer, and the writer's channel stays in that   *)
(* mode, so that its CLOSE commits the file and frees the writer.  Between *)
(* requests this is not so of a channel that is used for directories too:  *)
(* fs.c:530 makes it a listing without a look at its mode, and CLOSE then  *)
(* leaves the writer, which only ABORT or a reset ends.  The shell lists   *)
(* on logical file 2 (filemgmt.c:289 and 536) and writes on 3 and 5.       *)
(***************************************************************************)
WriterOwnsChannel ==
    \A f \in Channels :
      /\ channels[f].kind = 2 => writer = f
      /\ writer = f /\ (f \notin Listers \/ pc # "idle") => channels[f].kind = 2

(* Every request ends: the flash program it starts does not loop or stick. *)
RequestsEnd == pc \notin {"idle", "off"} ~> pc \in {"idle", "off"}

(***************************************************************************)
(* A WRITE that passed the capacity test gets its room: the compaction it  *)
(* needs is never refused.  ("Check capacity before appending, moving an   *)
(* unfinished write if its sector fills [...] return nonzero if space is   *)
(* available", reserve() in journal.h.)                                    *)
(***************************************************************************)
RoomIsFound == [][pc = "compact" /\ job.op = "write" /\ pc' = "idle" => error' = 0]_vars
=============================================================================
