----------------------------- MODULE JournalStore -----------------------------
(***************************************************************************)
(* The journal implements FileStore.                                       *)
(*                                                                         *)
(* The files of the store are the files that a reset at this very moment   *)
(* would bring back.  They are read off the flash alone, by a definition   *)
(* of what a log says that is not the scan of module Journal: a record     *)
(* counts if it is valid and so is every record before it, and the last    *)
(* record about a slot decides.                                            *)
(***************************************************************************)
EXTENDS Journal

(***************************************************************************)
(* A log, the cells of a side, has a record at o: it is committed, its     *)
(* size and what it refers to are in the log, and its payload is the one   *)
(* it was committed with.                                                  *)
(***************************************************************************)
Extract(log, off, len) ==
    [j \in 1..len |-> LET o == off + j - 1 IN
                      IF o \in Offsets /\ log[o].k = "byte" THEN log[o].v ELSE Garbage]

Reads(log, o) ==
    /\ o <= LIMIT - HEADER /\ log[o].k = "rec" /\ log[o].commit
    /\ LET r == log[o] IN
       /\ r.span >= HEADER /\ o + r.span <= LIMIT
       /\ r.slot # r.drop /\ r.len <= CAPACITY
       /\ r.kind = 1 => r.off = o + HEADER /\ r.len = r.span - HEADER
       /\ r.kind # 1 => r.span = HEADER
       /\ r.kind = 2 => HEADER <= r.off /\ r.off + r.len <= o
       /\ Extract(log, o + HEADER, r.span - HEADER) = r.crc

(* The places of the records of a log. *)
Records(log) ==
    LET from[o \in 0..LIMIT] == IF Reads(log, o) THEN {o} \cup from[o + log[o].span] ELSE {}
    IN  from[HEADER]

Stops(log, recs) == {HEADER} \cup {o + log[o].span : o \in recs}
End(log) == CHOOSE e \in Stops(log, Records(log)) : \A o \in Records(log) : e > o

(* The sealed prefix of side s is whole. *)
Mountable(s) == Sealed(s) /\ sector[s].base \in Stops(cell[s], Records(cell[s]))

(* The side a reset would mount, if any. *)
Durable == {s \in Sides : Mountable(s) /\ (s = Chosen \/ ~Mountable(Chosen))}

(* Record o is the last one about its slot, and has a file. *)
About(r, i) == r.slot = i \/ r.drop = i
IsHead(log, recs, o) ==
    /\ log[o].kind # 3
    /\ \A p \in recs : p > o => ~About(log[p], log[o].slot)

Heads(log) == LET recs == Records(log) IN {o \in recs : IsHead(log, recs, o)}

(* The offset of the newest record of each slot, or 0. *)
Index(log) ==
    [i \in Slots |-> LET mine == {o \in Heads(log) : log[o].slot = i}
                     IN  IF mine = {} THEN 0 ELSE CHOOSE o \in mine : TRUE]

Directory == UNION {{<<s, cell[s][o]>> : o \in Heads(cell[s])} : s \in Durable}

FilesIn(dir) ==
    [n \in Names |-> {[data |-> Extract(cell[e[1]], e[2].off, e[2].len), ro |-> e[2].ro] :
                        e \in {e \in dir : e[2].name = n}}]

DurableFiles == CHOOSE fs \in {FilesIn(dir) : dir \in {Directory}} : TRUE

(* What an open reader will get, from the flash it points at. *)
ReaderContents ==
    [f \in Channels |-> IF channels[f].kind # 1 THEN {}
                        ELSE {Extract(cell[channels[f].side], channels[f].off, channels[f].len)}]

Draft == IF writer = Idle THEN {} ELSE {[name |-> newname, data |-> data]}

(***************************************************************************)
(* files only spells DurableFiles out, once per state.                     *)
(***************************************************************************)
VARIABLE files

StoreInit == Init /\ files = DurableFiles
StoreNext == Next /\ files' = DurableFiles'
StoreSpec == StoreInit /\ [][StoreNext]_<<vars, files>>

Store == INSTANCE FileStore WITH readers <- ReaderContents, draft <- Draft

(* Every behaviour of the journal, losses of power included, is one of the *)
(* store: see FileStore.tla for what that rules out.                       *)
ImplementsStore == Store!Spec

(***************************************************************************)
(* Between requests, the index in RAM is the one a reset would rebuild,    *)
(* and unless the tail is dirty everything behind it is erased: appending  *)
(* there is safe however the log got this way.  The totals agree with the  *)
(* files a reset would show, and no two slots have the same name.          *)
(***************************************************************************)
IndexIsDurable ==
    pc = "idle" =>
      /\ Durable = {active}
      /\ tail = End(cell[active])
      /\ heads = Index(cell[active])
      /\ ~dirty /\ writer = Idle => \A o \in tail..(LIMIT - 1) : cell[active][o] = Blank
      /\ count = Cardinality({n \in Names : files[n] # {}})
      /\ livebytes = Store!Size(files)
      /\ \A i \in Live, j \in Live : i # j => Entry(i).name # Entry(j).name

(***************************************************************************)
(* The two sealed generations are always consecutive, so that the wrapping *)
(* comparison in mount() picks the side the running system was using; and  *)
(* the running system uses the side that a reset would pick.               *)
(***************************************************************************)
ActiveIsNewest ==
    /\ Sealed(0) /\ Sealed(1) =>
         (sector[Chosen].gen - sector[1 - Chosen].gen) % GENERATIONS = 1
    /\ mounted => active \in Durable /\ generation = sector[active].gen

(* Once the flash driver has started, the cartridge is given up (error 74) *)
(* only when no side's sealed prefix is whole, whatever went wrong before. *)
MountsWhatItCan ==
    [][(pc \in {"scan", "condemned"} /\ pc' = "off" /\ error' = 74) => (Durable = {})]_vars
=============================================================================
