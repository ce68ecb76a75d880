-------------------------- MODULE JournalDurability --------------------------
(***************************************************************************)
(* What a reset would find, and what the journal knows of it: with the     *)
(* invariant of JournalInvariant, an inductive invariant from which it     *)
(* follows that the journal implements FileStore.  It holds for flash that *)
(* does not decay; a unit that is lost can take a file with it.            *)
(***************************************************************************)
EXTENDS JournalStore, JournalInvariant

Erased(log, n) == \A o \in Offsets : o >= n => log[o] = Blank

(* recs are the places of the records of a log up to n; each leads to the  *)
(* next.                                                                   *)
IsChain(log, recs, n) ==
    /\ recs \subseteq Offsets /\ n \in Nat
    /\ \A o \in recs :
         /\ HEADER <= o /\ Reads(log, o)
         /\ o + log[o].span \in recs \cup {n} /\ o + log[o].span <= n
         /\ \A p \in recs : o < p => o + log[o].span <= p
    /\ HEADER \in recs \cup {n} /\ n \in Stops(log, recs)

(* The newest of recs about each slot. *)
IsIndex(log, recs, h) ==
    \A i \in Slots :
      IF h[i] = 0 THEN \A o \in recs : log[o].slot = i => ~IsHead(log, recs, o)
      ELSE h[i] \in recs /\ log[h[i]].slot = i /\ IsHead(log, recs, h[i])

(* A log ends at n, with the index h. *)
Logged(log, n, h) ==
    IsChain(log, Records(log), n) /\ ~Reads(log, n) /\ IsIndex(log, Records(log), h)

OneName(log, h) ==
    \A i, j \in Slots : h[i] # 0 /\ h[j] # 0 /\ log[h[i]].name = log[h[j]].name => i = j

SeemsErased(log, n) == n > LIMIT - HEADER \/ log[n] = Blank

(* The log of a side that was sealed when it ended at base: no two files   *)
(* have the same name, and what seems to be erased behind it is.           *)
Sound(log, base, n, h) ==
    /\ Logged(log, n, h)
    /\ base \in Stops(log, Records(log))
    /\ OneName(log, h)
    /\ SeemsErased(log, n) => Erased(log, n)

-----------------------------------------------------------------------------

Serviceable == pc \notin {"off", "scan", "condemned"}

(* A reset finds a whole log on the side that is newest. *)
ResetFindsAll ==
    /\ pc # "condemned"
    /\ Sealed(Chosen)
    /\ Sound(cell[Chosen], sector[Chosen].base, End(cell[Chosen]), Index(cell[Chosen]))

(* While the cartridge is in use, the index says what a reset would find.  *)
IndexIsReal ==
    /\ pc # "off" => active = Chosen
    /\ pc = "scan" =>
         /\ at \in Records(cell[active]) \cup {End(cell[active])}
         /\ IsIndex(cell[active], {o \in Records(cell[active]) : o < at}, heads)
    /\ Serviceable =>
         /\ tail = End(cell[active]) /\ heads = Index(cell[active])
         /\ generation = sector[active].gen
         /\ count = Cardinality(Live)

(* Where the next unit is programmed, all is erased from there on. *)
ErasedAhead ==
    /\ Serviceable /\ ~dirty /\ writer = Idle /\ pc \notin {"fields", "commit"} => Erased(cell[active], tail)
    /\ pc \in {"copy", "move", "seal", "activate", "fields", "commit"} => Erased(cell[target], cursor)
    /\ writer # Idle /\ ~failed /\ pc # "erase" => Erased(cell[target], cursor)

(* The draft's tag, or its header, stands where the record begins. *)
DraftIsTagged ==
    /\ rotating /\ pc \notin {"seal", "activate", "commit"} => cell[target][writebase] = Tag
    /\ writer # Idle /\ ~rotating /\ pc # "commit" => cell[active][tail] = Tag
    /\ pc \in {"fields", "commit"} => ~cell[target][writebase].k = "rec" \/ ~cell[target][writebase].commit

(* The other side gets what the index has, and at the end the draft. *)
SameFile(i, o) ==
    LET r == cell[target][o] IN
    /\ i \in Live /\ r.name = Entry(i).name /\ r.ro = Entry(i).ro
    /\ Extract(cell[target], r.off, r.len) = Extract(cell[active], Entry(i).off, Entry(i).len)
IsDraft(o) ==
    LET r == cell[target][o] IN
    r.name = newname /\ ~r.ro /\ Extract(cell[target], r.off, r.len) = data

CopyIsReal ==
    /\ Building => Logged(cell[target], NextEnd, nextheads)
    /\ Building => \A i \in Slots : nextheads[i] # 0 =>
         IF writer # Idle /\ i = wslot THEN pc \in {"seal", "activate"} /\ IsDraft(nextheads[i])
                                       ELSE SameFile(i, nextheads[i])
    /\ pc \in {"seal", "activate"} /\ writer # Idle => nextheads[wslot] # 0
    /\ pc = "activate" => sector[target] = [state |-> "unsealed", base |-> cursor, gen |-> NextGeneration]
    /\ writer # Idle /\ (rotating \/ pc \in {"move", "seal", "activate"}) =>
         \A i \in Live : i # wslot => nextheads[i] # 0
    /\ writer # Idle /\ pc = "copy" => \A i \in Live : i < at /\ i # wslot => nextheads[i] # 0

(* A draft or a request for slot i and name n: it replaces the file that   *)
(* has the name, which may be replaced.                                    *)
Replaces(i, n) ==
    /\ \A j \in Live : Entry(j).name = n <=> j = i
    /\ i \in Live => ~Entry(i).ro

DraftReplaces == writer # Idle => Replaces(wslot, newname)

JobIsAllowed ==
    /\ job.op \in {"open", "concat"} /\ writer = Idle => Replaces(job.slot, job.name)
    /\ job.op = "write" => job.bytes \in Chunks
    /\ job.op = "scratch" =>
         /\ \A i \in Matching(job.names) : ~Entry(i).ro
         /\ pc # "scratch" => job.slot \in Matching(job.names)
    /\ job.op = "metadata" =>
         /\ job.slot \in Live /\ job.drop # job.slot
         /\ \A i \in Live \ {job.slot} : Entry(i).name = job.name <=> i = job.drop
         /\ job.drop # NoSlot => job.drop \in Live /\ ~Entry(job.drop).ro
         /\ IF Entry(job.slot).name = job.name THEN job.drop = NoSlot
            ELSE ~Entry(job.slot).ro /\ ~job.ro

(* The record that is about to be committed. *)
CommitIsRequested ==
    pc = "commit" =>
      LET r == cell[target][writebase] IN
      /\ r = NewRecord
      /\ Extract(cell[target], writebase + HEADER, r.span - HEADER) = r.crc

(* The contents of open readers stay where they are. *)
ReadersBehind ==
    \A f \in Channels : channels[f].kind = 1 =>
      /\ pc \notin {"off", "scan"}
      /\ channels[f].side = active => channels[f].off >= HEADER /\ channels[f].off + channels[f].len <= tail

Durability ==
    /\ ResetFindsAll /\ IndexIsReal
    /\ ErasedAhead /\ DraftIsTagged
    /\ CopyIsReal /\ DraftReplaces /\ JobIsAllowed /\ CommitIsRequested
    /\ ReadersBehind

-----------------------------------------------------------------------------
(***************************************************************************)
(* On flash that decays a log may end anywhere, so less is known; it is    *)
(* enough for mount() to find a side whenever one is whole.                *)
(***************************************************************************)

(* Records lead from the header of a log to n. *)
LeadsTo(log, n) == \E recs \in SUBSET Offsets : IsChain(log, recs, n)

(* The sealed prefix of the side in use is whole.  While it is scanned,    *)
(* what has been read so far is.                                           *)
PrefixIsWhole ==
    /\ \A s \in Sides : Sealed(s) => sector[s].base >= HEADER
    /\ Serviceable =>
         Sealed(active) /\ sector[active].base <= tail /\ LeadsTo(cell[active], sector[active].base)
    /\ pc = "scan" =>
         /\ Sealed(active)
         /\ \E recs \in SUBSET Offsets :
              /\ IsChain(cell[active], recs, at)
              /\ sector[active].base <= at => sector[active].base \in Stops(cell[active], recs)

(* So will that of the side under construction be, when it is sealed.      *)
CopyIsWhole ==
    /\ Building => ~Sealed(target) /\ LeadsTo(cell[target], NextEnd)
    /\ pc = "copy" => Erased(cell[target], cursor)
    /\ pc = "activate" => sector[target] = [state |-> "unsealed", base |-> cursor, gen |-> NextGeneration]
    /\ CommitIsRequested

(* One side follows the other, and the one in use is known by its number.  *)
GenerationsAdjoin ==
    /\ mounted <=> Serviceable
    /\ mounted => generation = sector[active].gen
    /\ Sealed(0) /\ Sealed(1) =>
         \E s \in Sides : sector[s].gen = (sector[1 - s].gen + 1) % GENERATIONS

(* A side that is passed over cannot be mounted. *)
PassesOver ==
    /\ Serviceable /\ active # Chosen => ~Mountable(Chosen)
    /\ pc \in {"scan", "condemned"} =>
         /\ Sealed(active)
         /\ IF retried THEN active # Chosen /\ ~Mountable(Chosen) ELSE active = Chosen
    /\ pc = "condemned" => ~Mountable(active)

MountInv == PrefixIsWhole /\ CopyIsWhole /\ GenerationsAdjoin /\ PassesOver
=============================================================================
