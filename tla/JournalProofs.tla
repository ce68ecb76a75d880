---------------------------- MODULE JournalProofs ----------------------------
(***************************************************************************)
(* Theorems about the journal, for every value of its constants.           *)
(***************************************************************************)
EXTENDS JournalInvariant, TLAPS, FiniteSetTheorems, SequenceTheorems, WellFoundedInduction

(* A set of naturals has a least member.                                   *)
LEMMA LeastNatural ==
    ASSUME NEW S \in SUBSET Nat, S # {}
    PROVE  \E m \in S : \A k \in S : m <= k
<1>. DEFINE R == OpToRel(<, Nat)
<1>1. \A k, m \in Nat : k < m => <<k, m>> \in R
  BY DEF OpToRel
<1>2. IsWellFoundedOn(R, Nat)
  BY NatLessThanWellFounded
<1>. HIDE DEF R
<1>3. PICK m \in S : \A k \in S : <<k, m>> \notin R
  BY <1>2, WFMin
<1>4. ASSUME NEW k \in S PROVE m <= k
  <2>1. k \in Nat /\ m \in Nat /\ <<k, m>> \notin R
    BY <1>3
  <2>2. ~(k < m)
    BY <1>1, <2>1
  <2>. QED  BY <2>1, <2>2
<1>. QED  BY <1>4

(* The function totals() adds up with: its recursion has a solution.       *)
IsPartialSum(u, len, n) ==
    u = [i \in 0..n |-> IF i = 0 THEN 0 ELSE u[i - 1] + len[i - 1]]

LEMMA PartialSumExists ==
    ASSUME NEW len \in [Slots -> Nat], NEW n \in 0..MAXFILES
    PROVE  \E u \in [0..n -> Nat] : IsPartialSum(u, len, n)
<1>. DEFINE Bad == {m \in 0..MAXFILES : ~\E u \in [0..m -> Nat] : IsPartialSum(u, len, m)}
<1>. SUFFICES ASSUME Bad # {} PROVE FALSE
  OBVIOUS
<1>1. PICK m \in Bad : \A k \in Bad : m <= k
  <2>1. Bad \in SUBSET Nat
    OBVIOUS
  <2>. QED  BY <2>1, LeastNatural
<1>2. m \in Nat /\ m <= MAXFILES /\ MAXFILES \in Nat
  BY JournalAssumption
<1>3. m # 0
  <2>1. [i \in 0..0 |-> 0] \in [0..0 -> Nat]
    OBVIOUS
  <2>2. IsPartialSum([i \in 0..0 |-> 0], len, 0)
    BY DEF IsPartialSum
  <2>. QED  BY <2>1, <2>2
<1>4. m - 1 \in 0..MAXFILES /\ m - 1 \notin Bad
  BY <1>1, <1>2, <1>3
<1>5. PICK u \in [0..(m - 1) -> Nat] : IsPartialSum(u, len, m - 1)
  BY <1>4
<1>. DEFINE v == [i \in 0..m |-> IF i = m THEN u[m - 1] + len[m - 1] ELSE u[i]]
<1>6. len[m - 1] \in Nat
  BY <1>2, <1>3 DEF Slots
<1>7. v \in [0..m -> Nat]
  BY <1>2, <1>3, <1>6
<1>8. IsPartialSum(v, len, m)
  <2>1. \A i \in 0..(m - 1) : u[i] = IF i = 0 THEN 0 ELSE u[i - 1] + len[i - 1]
    BY <1>5 DEF IsPartialSum
  <2>2. ASSUME NEW i \in 0..m PROVE v[i] = IF i = 0 THEN 0 ELSE v[i - 1] + len[i - 1]
    <3>1. CASE i = m
      <4>1. i - 1 \in 0..m /\ i - 1 # m
        BY <1>2, <1>3, <3>1
      <4>. QED  BY <1>2, <1>3, <3>1, <4>1
    <3>2. CASE i # m
      <4>1. i \in 0..(m - 1) /\ v[i] = u[i]
        BY <1>2, <3>2
      <4>2. CASE i # 0
        <5>1. i - 1 \in 0..m /\ i - 1 # m
          BY <1>2, <4>1, <4>2
        <5>. QED  BY <2>1, <4>1, <5>1
      <4>. QED  BY <2>1, <4>1, <4>2
    <3>. QED  BY <3>1, <3>2
  <2>. QED  BY <2>2 DEF IsPartialSum
<1>. QED  BY <1>7, <1>8

LEMMA PartialSumType ==
    ASSUME NEW len \in [Slots -> Nat], NEW u, IsPartialSum(u, len, MAXFILES)
    PROVE  u[MAXFILES] \in Nat
<1>. DEFINE Bad == {m \in 0..MAXFILES : u[m] \notin Nat}
<1>1. MAXFILES \in Nat
  BY JournalAssumption
<1>2. \A m \in 0..MAXFILES : u[m] = IF m = 0 THEN 0 ELSE u[m - 1] + len[m - 1]
  BY DEF IsPartialSum
<1>3. ASSUME Bad # {} PROVE FALSE
  <2>0. Bad \in SUBSET Nat
    BY <1>1
  <2>1. PICK m \in Bad : \A k \in Bad : m <= k
    BY <1>3, <2>0, LeastNatural
  <2>2. m \in 0..MAXFILES /\ m # 0
    BY <1>2, <2>1
  <2>3. m - 1 \in 0..MAXFILES /\ m - 1 \in Slots /\ ~(m <= m - 1)
    BY <1>1, <2>2 DEF Slots
  <2>4. u[m - 1] \in Nat
    BY <2>1, <2>3
  <2>. QED  BY <1>2, <2>1, <2>2, <2>3, <2>4
<1>. QED  BY <1>1, <1>3

LEMMA SumType ==
    ASSUME NEW len \in [Slots -> Nat]
    PROVE  Sum(len) \in Nat
<1>. DEFINE F(u) == [i \in 0..MAXFILES |-> IF i = 0 THEN 0 ELSE u[i - 1] + len[i - 1]]
            upto == CHOOSE u : u = F(u)
<1>1. MAXFILES \in 0..MAXFILES
  BY JournalAssumption
<1>2. \E u : u = F(u)
  BY PartialSumExists, <1>1 DEF IsPartialSum
<1>3. IsPartialSum(upto, len, MAXFILES)
  BY <1>2 DEF IsPartialSum
<1>4. upto[MAXFILES] \in Nat
  BY <1>3, PartialSumType
<1>. QED  BY <1>4 DEF Sum

-----------------------------------------------------------------------------

DraftType ==
    /\ writer \in Channels \cup {Idle, Internal}
    /\ failed \in BOOLEAN /\ rotating \in BOOLEAN
    /\ wslot \in Slots /\ newname \in Names \cup {NoName} /\ oldlen \in Nat
    /\ target \in Sides /\ writebase \in Nat /\ cursor \in Nat
    /\ data \in Seq(Values) /\ nextheads \in [Slots -> Nat]

LEMMA ForgetType ==
    ASSUME Forget
    PROVE  DraftType'
<1>1. data' \in Seq(Values)
  BY EmptySeq DEF Forget
<1>2. wslot' \in Slots /\ target' \in Sides /\ nextheads' \in [Slots -> Nat]
  BY JournalAssumption DEF Forget, Slots, Sides, NoHeads
<1>. QED  BY <1>1, <1>2 DEF Forget, DraftType

ChannelType == [kind: 0..3, side: Sides, off: Nat, len: Nat, pos: Nat]

LEMMA ClosedType == Closed \in ChannelType
BY DEF Closed, ChannelType, Sides

LEMMA ReleaseType ==
    ASSUME channels \in [Channels -> ChannelType], Release
    PROVE  channels' \in [Channels -> ChannelType]
BY ClosedType DEF Release

LEMMA RefuseStep ==
    ASSUME IndInv, NEW e \in Errors, pc \in {"idle", "scratch"}, Refuse(e)
    PROVE  IndInv'
<1>. USE DEF Refuse, Reply, NoJob, flashVars, indexVars, draftVars, cursorVars, localVars
<1>1. TypeOK'
  BY DEF IndInv, TypeOK, Blocks, Jobs
<1>2. HeadsAreRecords' /\ NextHeadsAreRecords' /\ NothingLost'
  BY DEF IndInv, HeadsAreRecords, NextHeadsAreRecords, NothingLost, Live, IsRecord, IndexEnd, NextEnd, Building
<1>3. DraftIsNext' /\ RotationIsAWrite'
  BY DEF IndInv, DraftIsNext, RotationIsAWrite
<1>4. RequestFitsBlock' /\ SourcesExist'
  BY DEF IndInv, RequestFitsBlock, SourcesExist, Compacting
<1>5. RebuiltSideIsFree' /\ WriterOwnsChannel'
  BY DEF IndInv, RebuiltSideIsFree, WriterOwnsChannel, Rebuilding
<1>. QED  BY <1>1, <1>2, <1>3, <1>4, <1>5 DEF IndInv

Begins(j) ==
    /\ j \in Jobs
    /\ j.op \in {"open", "concat", "scratch", "metadata"}
    /\ j.op = "concat" => j.srcs # <<>>
    /\ j.op \in {"scratch", "metadata"} => heads[j.slot] # 0

LEMMA PrepareStep ==
    ASSUME IndInv, NEW j, Begins(j), pc \in {"idle", "scratch"}, Prepare(j)
    PROVE  IndInv'
<1>1. CASE writer # Idle
  BY <1>1, RefuseStep DEF Prepare, Errors
<1>2. CASE writer = Idle
  <2>. USE <1>2 DEF Prepare, Begins, flashVars, indexVars, cursorVars, localVars
  <2>1. TypeOK'
    <3>1. pc' \in Blocks /\ job' \in Jobs /\ error' \in Errors
      BY DEF Blocks, Errors
    <3>. QED  BY <3>1 DEF IndInv, TypeOK
  <2>2. HeadsAreRecords' /\ NextHeadsAreRecords' /\ NothingLost'
    BY DEF IndInv, HeadsAreRecords, NextHeadsAreRecords, NothingLost, Live, IsRecord, IndexEnd,
           Building
  <2>3. DraftIsNext' /\ RotationIsAWrite'
    BY DEF IndInv, DraftIsNext, RotationIsAWrite
  <2>4. RequestFitsBlock' /\ SourcesExist'
    BY DEF IndInv, RequestFitsBlock, SourcesExist, Compacting
  <2>5. RebuiltSideIsFree' /\ WriterOwnsChannel'
    BY JournalAssumption DEF IndInv, RebuiltSideIsFree, WriterOwnsChannel, Rebuilding
  <2>. QED  BY <2>1, <2>2, <2>3, <2>4, <2>5 DEF IndInv
<1>. QED  BY <1>1, <1>2

SectorType == [state: {"unsealed", "sealed"}, gen: 0..(GENERATIONS - 1), base: Nat]

(* A failed request spoils nothing that the index refers to. *)
Spares ==
    /\ cell' \in [Sides -> [Offsets -> Cell]]
    /\ sector' \in [Sides -> SectorType]
    /\ \A i \in Live : cell'[active][heads[i]] = cell[active][heads[i]]
    /\ rotating => \A i \in Slots : nextheads[i] # 0 => cell'[target][nextheads[i]] = cell[target][nextheads[i]]

LEMMA GiveUpStep ==
    ASSUME IndInv, NEW e \in Errors, GiveUp(e), Spares,
           pc \in {"tag", "reserve", "payload", "fields", "commit", "compact", "erase", "copy",
                   "move", "seal", "activate"}
    PROVE  IndInv'
<1>. USE DEF GiveUp, Reply, NoJob, ForgetLocals
<1>1. CASE job.op = "write"
  <2>. USE <1>1 DEF cursorVars
  <2>1. TypeOK'
    BY DEF IndInv, TypeOK, Blocks, Jobs, Spares, SectorType
  <2>2. HeadsAreRecords' /\ NextHeadsAreRecords' /\ NothingLost'
    <3>1. HeadsAreRecords'
      BY DEF IndInv, HeadsAreRecords, Live, IsRecord, IndexEnd, Spares
    <3>2. writer # Idle /\ pc \notin {"seal", "activate"}
      BY DEF IndInv, RequestFitsBlock, Compacting
    <3>3. NextHeadsAreRecords' /\ NothingLost'
      BY <3>2 DEF IndInv, TypeOK, NextHeadsAreRecords, NothingLost, IsRecord, NextEnd, Building, Spares
    <3>. QED  BY <3>1, <3>3
  <2>3. DraftIsNext' /\ RotationIsAWrite'
    BY DEF IndInv, DraftIsNext, RotationIsAWrite
  <2>4. RequestFitsBlock' /\ SourcesExist'
    BY DEF IndInv, RequestFitsBlock, SourcesExist, Compacting
  <2>5. RebuiltSideIsFree' /\ WriterOwnsChannel'
    BY DEF IndInv, RebuiltSideIsFree, WriterOwnsChannel, Rebuilding
  <2>. QED  BY <2>1, <2>2, <2>3, <2>4, <2>5 DEF IndInv
<1>2. CASE job.op # "write"
  <2>. USE <1>2 DEF Forget
  <2>1. TypeOK'
    <3>1. pc' \in Blocks /\ job' \in Jobs
      BY DEF Blocks, Jobs
    <3>2. channels' \in [Channels -> ChannelType]
      BY ReleaseType DEF IndInv, TypeOK, ChannelType
    <3>3. DraftType'
      BY ForgetType
    <3>4. dirty' \in BOOLEAN
      BY DEF IndInv, TypeOK
    <3>. QED  BY <3>1, <3>2, <3>3, <3>4 DEF IndInv, TypeOK, Spares, SectorType, DraftType, ChannelType
  <2>2. HeadsAreRecords' /\ NextHeadsAreRecords' /\ NothingLost'
    <3>1. HeadsAreRecords'
      BY DEF IndInv, HeadsAreRecords, Live, IsRecord, IndexEnd, Spares
    <3>2. NextHeadsAreRecords' /\ NothingLost'
      BY DEF NextHeadsAreRecords, NothingLost, Building
    <3>. QED  BY <3>1, <3>2
  <2>3. DraftIsNext' /\ RotationIsAWrite'
    BY DEF DraftIsNext, RotationIsAWrite
  <2>4. RequestFitsBlock' /\ SourcesExist'
    BY DEF RequestFitsBlock, SourcesExist, Compacting
  <2>5. RebuiltSideIsFree' /\ WriterOwnsChannel'
    BY JournalAssumption DEF IndInv, RebuiltSideIsFree, WriterOwnsChannel, Rebuilding, Release, Closed
  <2>. QED  BY <2>1, <2>2, <2>3, <2>4, <2>5 DEF IndInv
<1>. QED  BY <1>1, <1>2

-----------------------------------------------------------------------------
(* The operators on flash *)

Log == [Offsets -> Cell]

LEMMA CellType ==
    /\ Blank \in Cell /\ Tag \in Cell /\ Junk \in Cell
    /\ \A v \in Values : Byte(v) \in Cell
    /\ \A r \in Record : r \in Cell /\ r.k = "rec"
    /\ \A c \in Cell : c.k = "byte" => c.v \in Values
    /\ \A c \in Cell : c.k = "rec" => c \in Record
BY DEF Cell, Blank, Tag, Junk, Byte, Record

LEMMA OverType ==
    ASSUME NEW old, NEW new \in Cell
    PROVE  Over(old, new) \in Cell
BY CellType DEF Over

LEMMA ProgrammedType ==
    ASSUME NEW log \in Log, NEW off \in Nat, NEW bytes \in Seq(Values)
    PROVE  /\ Programmed(log, off, bytes) \in Log
           /\ \A o \in Offsets : o < off => Programmed(log, off, bytes)[o] = log[o]
<1>1. Len(bytes) \in Nat /\ Offsets \subseteq Int
  BY LenProperties DEF Offsets
<1>2. ASSUME NEW o \in Offsets, o \in off..(off + Len(bytes) - 1)
      PROVE  Over(log[o], Byte(bytes[o - off + 1])) \in Cell
  <2>1. o - off + 1 \in 1..Len(bytes)
    BY <1>1, <1>2
  <2>2. bytes[o - off + 1] \in Values
    BY <2>1, ElementOfSeq
  <2>. QED  BY <2>2, CellType, OverType
<1>3. Programmed(log, off, bytes) \in Log
  BY <1>2 DEF Programmed, Log
<1>4. ASSUME NEW o \in Offsets, o < off PROVE Programmed(log, off, bytes)[o] = log[o]
  <2>1. o \notin off..(off + Len(bytes) - 1)
    BY <1>1, <1>4
  <2>. QED  BY <2>1 DEF Programmed
<1>. QED  BY <1>3, <1>4

LEMMA StoredType ==
    ASSUME cell \in [Sides -> Log], NEW s \in Sides, NEW off \in Nat, NEW len \in Nat
    PROVE  Stored(s, off, len) \in Seq(Values) /\ Len(Stored(s, off, len)) = len
<1>1. \A o : Get(s, o) \in Values
  BY CellType DEF Get, Values, Log
<1>2. Stored(s, off, len) \in [1..len -> Values]
  BY <1>1 DEF Stored
<1>. QED  BY <1>2

(* Programming one unit leaves the others alone. *)
WithUnit(c, s, o, new) == [c EXCEPT ![s][o] = new]

LEMMA UnitType ==
    ASSUME NEW c \in [Sides -> Log], NEW s \in Sides, NEW o, NEW new \in Cell
    PROVE  /\ WithUnit(c, s, o, new) \in [Sides -> Log]
           /\ \A r \in Sides, p \in Offsets :
                WithUnit(c, s, o, new)[r][p] = IF r = s /\ p = o THEN new ELSE c[r][p]
<1>. DEFINE log == [c[s] EXCEPT ![o] = new]
<1>1. c[s] \in [Offsets -> Cell]
  BY DEF Log
<1>2. \A p \in Offsets : log[p] = IF p = o THEN new ELSE c[s][p]
  BY <1>1
<1>3. log \in Log
  BY <1>1, <1>2 DEF Log
<1>4. WithUnit(c, s, o, new) = [c EXCEPT ![s] = log]
  BY DEF WithUnit
<1>. HIDE DEF log
<1>5. WithUnit(c, s, o, new) \in [Sides -> Log]
  BY <1>3, <1>4
<1>6. \A r \in Sides : WithUnit(c, s, o, new)[r] = IF r = s THEN log ELSE c[r]
  BY <1>4
<1>. QED  BY <1>2, <1>5, <1>6

LEMMA TotalsType ==
    ASSUME NEW s, NEW h \in [Slots -> Nat], Totals(s, h),
           \A i \in Slots : h[i] # 0 => IsRecord(s, h[i])
    PROVE  count' \in Nat /\ livebytes' \in Nat
<1>1. [i \in Slots |-> IF h[i] = 0 THEN 0 ELSE cell[s][h[i]].len] \in [Slots -> Nat]
  BY DEF IsRecord, Record
<1>2. IsFiniteSet({i \in Slots : h[i] # 0})
  <2>1. IsFiniteSet(Slots)
    BY JournalAssumption, FS_Interval DEF Slots
  <2>. QED  BY <2>1, FS_Subset
<1>. QED  BY <1>1, <1>2, SumType, FS_CardinalityType DEF Totals

LEMMA RecordType ==
    ASSUME NEW r \in Record
    PROVE  /\ r.kind \in {1, 2, 3} /\ r.slot \in Slots /\ r.drop \in Slots \cup {NoSlot}
           /\ r.name \in Names /\ r.ro \in BOOLEAN
           /\ r.off \in Nat /\ r.len \in Nat /\ r.span \in Nat /\ r.crc \in Seq(Values)
BY DEF Record

LEMMA EntryType ==
    ASSUME IndInv, pc \notin {"off", "condemned"}, NEW i \in Live
    PROVE  /\ i \in Slots /\ heads[i] \in Offsets /\ Entry(i) \in Record
           /\ Contents(i) \in Seq(Values) /\ Len(Contents(i)) = Entry(i).len
<1>1. i \in Slots /\ heads[i] \in Offsets /\ Entry(i) \in Record
  BY DEF IndInv, HeadsAreRecords, IsRecord, Live, Entry
<1>2. cell \in [Sides -> Log] /\ active \in Sides
  BY DEF IndInv, TypeOK, Log
<1>. QED  BY <1>1, <1>2, RecordType, StoredType DEF Contents

LEMMA JobType ==
    ASSUME NEW j \in Jobs
    PROVE  /\ j.op \in {"none", "compact", "close", "open", "concat", "scratch", "metadata", "write"}
           /\ j.op \in {"open", "concat", "scratch", "metadata"} => j.slot \in Slots
           /\ j.op \in {"open", "concat", "metadata"} => j.name \in Names
           /\ j.op = "open" => j.f \in Channels /\ j.append \in BOOLEAN
           /\ j.op = "concat" => j.srcs \in Seq(Names)
           /\ j.op = "metadata" => j.drop \in Slots \cup {NoSlot} /\ j.ro \in BOOLEAN
           /\ j.op = "write" => j.bytes \in Seq(Bytes)
BY DEF Jobs

-----------------------------------------------------------------------------
(* The requests *)

LEMMA StartWriteStep ==
    ASSUME IndInv, pc = "idle", NEW n \in Names, NEW j, StartWrite(n, j),
           \A i \in Slots : Begins([j EXCEPT !.slot = i])
    PROVE  IndInv'
<1>1. CASE Named(n) = {} /\ Live = Slots
  BY <1>1, RefuseStep DEF StartWrite, Errors
<1>2. CASE ~(Named(n) = {} /\ Live = Slots)
  BY <1>2, PrepareStep DEF StartWrite
<1>. QED  BY <1>1, <1>2

LEMMA OpenWriteStep ==
    ASSUME IndInv, NEW f \in Channels, NEW n \in Names, NEW append \in BOOLEAN,
           OpenWrite(f, n, append)
    PROVE  IndInv'
<1>. DEFINE j == [op |-> "open", slot |-> 0, name |-> n, f |-> f, append |-> append]
<1>1. ASSUME NEW i \in Slots PROVE Begins([j EXCEPT !.slot = i])
  BY DEF Begins, Jobs
<1>. QED  BY <1>1, RefuseStep, StartWriteStep DEF OpenWrite, Serving, Errors

LEMMA ConcatStep ==
    ASSUME IndInv, NEW n \in Names, NEW sources \in Seq(Names), sources # <<>>, Concat(n, sources)
    PROVE  IndInv'
<1>. DEFINE j == [op |-> "concat", slot |-> 0, name |-> n, srcs |-> sources]
<1>1. ASSUME NEW i \in Slots PROVE Begins([j EXCEPT !.slot = i])
  BY DEF Begins, Jobs
<1>. QED  BY <1>1, RefuseStep, StartWriteStep DEF Concat, Serving, Errors

LEMMA ScratchStep ==
    ASSUME IndInv, NEW names \in SUBSET Names, Scratch(names)
    PROVE  IndInv'
<1>1. ASSUME NEW i \in Slots, First(i, Matching(names))
      PROVE  Begins([op |-> "scratch", slot |-> i, names |-> names])
  BY <1>1 DEF Begins, Jobs, First, Matching, Live
<1>. QED  BY <1>1, RefuseStep, PrepareStep DEF Scratch, Serving, Errors

LEMMA ScratchNextStep ==
    ASSUME IndInv, ScratchNext
    PROVE  IndInv'
<1>. USE DEF ScratchNext
<1>1. job.op = "scratch" /\ job \in Jobs
  BY DEF IndInv, TypeOK, RequestFitsBlock
<1>2. ASSUME NEW i \in Slots, First(i, Matching(job.names))
      PROVE  Begins([job EXCEPT !.slot = i])
  BY <1>1, <1>2 DEF Begins, Jobs, First, Matching, Live
<1>. QED  BY <1>2, RefuseStep, PrepareStep DEF Errors

LEMMA RenameStep ==
    ASSUME IndInv, NEW new \in Names, NEW old \in Names, Rename(new, old)
    PROVE  IndInv'
<1>1. ASSUME NEW i \in Named(old), NEW d \in Slots \cup {NoSlot}
      PROVE  Begins([op |-> "metadata", slot |-> i, drop |-> d, name |-> new, ro |-> Entry(i).ro])
  <2>1. i \in Live /\ Entry(i).ro \in BOOLEAN
    BY EntryType, RecordType DEF Named, Rename, Serving
  <2>. QED  BY <2>1 DEF Begins, Jobs, Live
<1>. QED  BY <1>1, RefuseStep, PrepareStep DEF Rename, Serving, Errors

LEMMA AttributeStep ==
    ASSUME IndInv, NEW n \in Names, NEW flag \in BOOLEAN, Attribute(n, flag)
    PROVE  IndInv'
<1>1. ASSUME NEW i \in Slots, First(i, Named(n))
      PROVE  Begins([op |-> "metadata", slot |-> i, drop |-> NoSlot, name |-> n, ro |-> flag])
  BY <1>1 DEF Begins, Jobs, First, Named, Live
<1>. QED  BY <1>1, RefuseStep, PrepareStep DEF Attribute, Serving, Errors

LEMMA CompactStep ==
    ASSUME IndInv, Compact
    PROVE  IndInv'
<1>1. CASE Refuse(60) \/ Refuse(0)
  BY <1>1, RefuseStep DEF Compact, Serving, Errors
<1>2. CASE ~(Refuse(60) \/ Refuse(0))
  <2>. USE <1>2 DEF Compact, Serving, flashVars, indexVars, cursorVars, localVars
  <2>1. TypeOK'
    <3>1. pc' \in Blocks /\ job' \in Jobs /\ error' \in Errors
      BY DEF Blocks, Jobs, Errors
    <3>. QED  BY <3>1 DEF IndInv, TypeOK
  <2>2. HeadsAreRecords' /\ NextHeadsAreRecords' /\ NothingLost'
    BY DEF IndInv, HeadsAreRecords, NextHeadsAreRecords, NothingLost, Live, IsRecord, IndexEnd,
           Building
  <2>3. DraftIsNext' /\ RotationIsAWrite'
    BY DEF IndInv, DraftIsNext, RotationIsAWrite
  <2>4. RequestFitsBlock' /\ SourcesExist'
    BY DEF IndInv, RequestFitsBlock, SourcesExist, Compacting
  <2>5. RebuiltSideIsFree' /\ WriterOwnsChannel'
    BY JournalAssumption DEF IndInv, RebuiltSideIsFree, WriterOwnsChannel, Rebuilding
  <2>. QED  BY <2>1, <2>2, <2>3, <2>4, <2>5 DEF IndInv
<1>. QED  BY <1>1, <1>2

LEMMA WriteStep ==
    ASSUME IndInv, NEW f \in Channels, NEW bytes \in Chunks, Write(f, bytes)
    PROVE  IndInv'
<1>1. CASE Refuse(61) \/ Refuse(25)
  BY <1>1, RefuseStep DEF Write, Serving, Errors
<1>2. CASE ~(Refuse(61) \/ Refuse(25))
  <2>. USE <1>2 DEF Write, Serving, flashVars, indexVars, draftVars, cursorVars, localVars
  <2>1. writer # Idle /\ ~failed
    BY JournalAssumption
  <2>2. TypeOK'
    <3>1. pc' \in Blocks /\ job' \in Jobs /\ error' \in Errors
      BY JournalAssumption DEF Blocks, Jobs, Errors
    <3>. QED  BY <3>1 DEF IndInv, TypeOK
  <2>3. HeadsAreRecords' /\ NextHeadsAreRecords' /\ NothingLost'
    BY DEF IndInv, HeadsAreRecords, NextHeadsAreRecords, NothingLost, Live, IsRecord, IndexEnd,
           NextEnd, Building
  <2>4. DraftIsNext' /\ RotationIsAWrite'
    BY <2>1 DEF IndInv, DraftIsNext, RotationIsAWrite
  <2>5. RequestFitsBlock' /\ SourcesExist'
    BY <2>1 DEF IndInv, RequestFitsBlock, SourcesExist, Compacting
  <2>6. RebuiltSideIsFree' /\ WriterOwnsChannel'
    BY DEF IndInv, RebuiltSideIsFree, WriterOwnsChannel, Rebuilding
  <2>. QED  BY <2>2, <2>3, <2>4, <2>5, <2>6 DEF IndInv
<1>. QED  BY <1>1, <1>2

(* A request that only ends the write of channel f, if it has one, and     *)
(* closes the channel.                                                     *)
Ends(f, e) ==
    /\ Reply(e)
    /\ channels' = [channels EXCEPT ![f] = Closed]
    /\ IF writer = f THEN dirty' = TRUE /\ Forget
                     ELSE UNCHANGED <<dirty, draftVars, cursorVars>>
    /\ UNCHANGED <<flashVars, mounted, active, generation, heads, count, livebytes, tail, localVars>>

LEMMA EndsStep ==
    ASSUME IndInv, pc = "idle", NEW f \in Channels, NEW e \in Errors, Ends(f, e)
    PROVE  IndInv'
<1>. USE DEF Ends, Reply, flashVars, draftVars, cursorVars, localVars
<1>1. TypeOK'
  <2>1. pc' \in Blocks /\ job' \in Jobs
    BY DEF Blocks, Jobs, NoJob
  <2>2. channels' \in [Channels -> ChannelType]
    BY ClosedType DEF IndInv, TypeOK, ChannelType
  <2>3. DraftType'
    BY ForgetType DEF IndInv, TypeOK, DraftType
  <2>4. dirty' \in BOOLEAN
    BY DEF IndInv, TypeOK
  <2>. QED  BY <2>1, <2>2, <2>3, <2>4 DEF IndInv, TypeOK, DraftType, ChannelType
<1>2. HeadsAreRecords'
  BY DEF IndInv, HeadsAreRecords, Live, IsRecord, IndexEnd
<1>3. NextHeadsAreRecords' /\ NothingLost' /\ DraftIsNext' /\ RotationIsAWrite' /\ RebuiltSideIsFree'
  <2>1. CASE writer = f
    BY <2>1 DEF Forget, NextHeadsAreRecords, NothingLost, Building, DraftIsNext, RotationIsAWrite,
                RebuiltSideIsFree, Rebuilding
  <2>2. CASE writer # f
    <3>1. \A g \in Channels : channels'[g].kind = 1 => channels[g].kind = 1 /\ channels[g].side = channels'[g].side
      BY DEF Closed, IndInv, TypeOK
    <3>2. RebuiltSideIsFree'
      BY <2>2, <3>1 DEF IndInv, RebuiltSideIsFree, Rebuilding
    <3>. QED
      BY <2>2, <3>2 DEF IndInv, NextHeadsAreRecords, NothingLost, NextEnd, Building, IsRecord, DraftIsNext,
                RotationIsAWrite
  <2>. QED  BY <2>1, <2>2
<1>4. RequestFitsBlock' /\ SourcesExist'
  BY DEF RequestFitsBlock, SourcesExist, Compacting, NoJob
<1>5. WriterOwnsChannel'
  <2>1. \A g \in Channels : channels'[g] = IF g = f THEN Closed ELSE channels[g]
    BY DEF IndInv, TypeOK
  <2>2. \A g \in Channels : /\ channels[g].kind = 2 => writer = g
                            /\ writer = g /\ (g \notin Listers \/ pc # "idle") => channels[g].kind = 2
    BY DEF IndInv, WriterOwnsChannel
  <2>3. writer' = IF writer = f THEN Idle ELSE writer
    BY DEF Forget
  <2>. QED  BY <2>1, <2>2, <2>3, JournalAssumption DEF WriterOwnsChannel, Closed
<1>. QED  BY <1>1, <1>2, <1>3, <1>4, <1>5 DEF IndInv

(* A request that only moves a channel from one state to another: a reader *)
(* goes on, a listing begins or goes on, or a channel that is not the      *)
(* writer's in writing mode is closed.                                     *)
Moves(f, c) ==
    /\ pc = "idle" /\ Reply(0)
    /\ writer = f => f \in Listers
    /\ c.kind # 2
    /\ c.kind = 1 => channels[f].kind = 1 /\ c.side = channels[f].side
    /\ channels' = [channels EXCEPT ![f] = c]
    /\ UNCHANGED <<flashVars, indexVars, draftVars, cursorVars, localVars>>

LEMMA ChannelStep ==
    ASSUME IndInv, NEW f \in Channels, NEW c \in ChannelType, Moves(f, c)
    PROVE  IndInv'
<1>. USE DEF Moves, Reply, flashVars, indexVars, draftVars, cursorVars, localVars
<1>1. \A g \in Channels : channels'[g] = IF g = f THEN c ELSE channels[g]
  BY DEF IndInv, TypeOK
<1>2. TypeOK'
  <2>1. pc' \in Blocks /\ job' \in Jobs /\ error' \in Errors
    BY DEF Blocks, Jobs, Errors, NoJob
  <2>2. channels' \in [Channels -> ChannelType]
    BY DEF IndInv, TypeOK, ChannelType
  <2>. QED  BY <2>1, <2>2 DEF IndInv, TypeOK, ChannelType
<1>3. HeadsAreRecords' /\ NextHeadsAreRecords' /\ NothingLost'
  BY DEF IndInv, HeadsAreRecords, NextHeadsAreRecords, NothingLost, Live, IsRecord, IndexEnd,
         NextEnd, Building
<1>4. DraftIsNext' /\ RotationIsAWrite'
  BY DEF IndInv, DraftIsNext, RotationIsAWrite
<1>5. RequestFitsBlock' /\ SourcesExist'
  BY DEF RequestFitsBlock, SourcesExist, Compacting, NoJob
<1>6. RebuiltSideIsFree' /\ WriterOwnsChannel'
  BY <1>1 DEF IndInv, RebuiltSideIsFree, WriterOwnsChannel, Rebuilding
<1>. QED  BY <1>2, <1>3, <1>4, <1>5, <1>6 DEF IndInv

LEMMA CloseStep ==
    ASSUME IndInv, NEW f \in Channels, Close(f)
    PROVE  IndInv'
<1>. USE DEF Close, Serving
<1>1. CASE channels[f].kind = 2 /\ writer = f /\ ~failed
  <2>. USE <1>1 DEF flashVars, indexVars, draftVars, cursorVars, localVars
  <2>1. writer # Idle
    BY JournalAssumption
  <2>2. TypeOK'
    <3>1. pc' \in Blocks /\ job' \in Jobs /\ error' \in Errors
      BY DEF Blocks, Jobs, Errors
    <3>. QED  BY <3>1 DEF IndInv, TypeOK
  <2>3. HeadsAreRecords' /\ NextHeadsAreRecords' /\ NothingLost'
    BY DEF IndInv, HeadsAreRecords, NextHeadsAreRecords, NothingLost, Live, IsRecord, IndexEnd,
           NextEnd, Building
  <2>4. DraftIsNext' /\ RotationIsAWrite'
    BY <2>1 DEF IndInv, DraftIsNext, RotationIsAWrite
  <2>5. RequestFitsBlock' /\ SourcesExist'
    BY <2>1 DEF IndInv, RequestFitsBlock, SourcesExist, Compacting
  <2>6. RebuiltSideIsFree' /\ WriterOwnsChannel'
    BY DEF IndInv, RebuiltSideIsFree, WriterOwnsChannel, Rebuilding
  <2>. QED  BY <2>2, <2>3, <2>4, <2>5, <2>6 DEF IndInv
<1>2. CASE channels[f].kind = 2 /\ writer = f /\ failed
  BY <1>2, EndsStep DEF Ends, Errors
<1>3. CASE ~(channels[f].kind = 2 /\ writer = f)
  <2>1. Moves(f, Closed)
    BY <1>3 DEF Moves, IndInv, WriterOwnsChannel, Closed, indexVars, draftVars, cursorVars
  <2>. QED  BY <2>1, ClosedType, ChannelStep
<1>. QED  BY <1>1, <1>2, <1>3

LEMMA AbortStep ==
    ASSUME IndInv, NEW f \in Channels, Abort(f)
    PROVE  IndInv'
BY EndsStep DEF Abort, Serving, Ends, Errors

LEMMA OpenReadStep ==
    ASSUME IndInv, NEW f \in Channels, NEW n \in Names, OpenRead(f, n)
    PROVE  IndInv'
<1>. USE DEF OpenRead, Serving
<1>1. CASE Refuse(60) \/ Refuse(62)
  BY <1>1, RefuseStep DEF Errors
<1>2. CASE ~(Refuse(60) \/ Refuse(62))
  <2>. USE DEF Reply, flashVars, indexVars, draftVars, cursorVars, localVars
  <2>1. PICK i \in Live : channels' = [channels EXCEPT ![f] =
          [kind |-> 1, side |-> active, off |-> Entry(i).off, len |-> Entry(i).len, pos |-> 0]]
    BY <1>2 DEF First, Named
  <2>2. channels[f].kind = 0
    BY <1>2
  <2>3. TypeOK'
    <3>1. pc' \in Blocks /\ job' \in Jobs /\ error' \in Errors
      BY <1>2 DEF Blocks, Jobs, Errors, NoJob
    <3>2. active \in Sides /\ Entry(i).off \in Nat /\ Entry(i).len \in Nat
      BY EntryType, RecordType DEF IndInv, TypeOK
    <3>3. channels' \in [Channels -> ChannelType]
      BY <2>1, <3>2 DEF IndInv, TypeOK, ChannelType
    <3>. QED  BY <1>2, <3>1, <3>3 DEF IndInv, TypeOK, ChannelType
  <2>4. HeadsAreRecords' /\ NextHeadsAreRecords' /\ NothingLost'
    BY <1>2 DEF IndInv, HeadsAreRecords, NextHeadsAreRecords, NothingLost, Live, IsRecord, IndexEnd,
                NextEnd, Building
  <2>5. DraftIsNext' /\ RotationIsAWrite'
    BY <1>2 DEF IndInv, DraftIsNext, RotationIsAWrite
  <2>6. RequestFitsBlock' /\ SourcesExist'
    BY <1>2 DEF RequestFitsBlock, SourcesExist, Compacting, NoJob
  <2>7. \A g \in Channels : channels'[g] =
          IF g = f THEN [kind |-> 1, side |-> active, off |-> Entry(i).off, len |-> Entry(i).len, pos |-> 0]
                   ELSE channels[g]
    BY <2>1 DEF IndInv, TypeOK
  <2>8. RebuiltSideIsFree'
    <3>1. Rebuilding' => Rebuilding /\ UNCHANGED <<target, active>>
      BY <1>2 DEF Rebuilding
    <3>2. active # 1 - active
      BY DEF IndInv, TypeOK, Sides
    <3>. QED  BY <3>1, <3>2, <2>7 DEF IndInv, RebuiltSideIsFree
  <2>9. WriterOwnsChannel'
    BY <1>2, <2>2, <2>7 DEF IndInv, WriterOwnsChannel
  <2>. QED  BY <2>3, <2>4, <2>5, <2>6, <2>8, <2>9 DEF IndInv
<1>. QED  BY <1>1, <1>2

LEMMA ReadStep ==
    ASSUME IndInv, NEW f \in Channels, NEW n \in Nat, Read(f, n)
    PROVE  IndInv'
<1>1. channels[f] \in ChannelType
  BY DEF IndInv, TypeOK, ChannelType
<1>. DEFINE c == [channels[f] EXCEPT !.pos = IF n > channels[f].len - @ THEN channels[f].len ELSE @ + n]
<1>2. c \in ChannelType /\ c.kind = 1 /\ c.side = channels[f].side
  BY <1>1 DEF Read, ChannelType
<1>3. /\ channels' = [channels EXCEPT ![f] = c] /\ channels[f].kind = 1 /\ pc = "idle" /\ Reply(0)
      /\ UNCHANGED <<flashVars, indexVars, draftVars, cursorVars, localVars>>
  BY DEF Read, Serving
<1>. HIDE DEF c
<1>4. Moves(f, c)
  BY <1>2, <1>3 DEF Moves, IndInv, WriterOwnsChannel
<1>. QED  BY <1>2, <1>4, ChannelStep

LEMMA ListStep ==
    ASSUME IndInv, NEW f \in Listers, ListFiles(f) \/ NextEntry(f)
    PROVE  IndInv'
<1>1. f \in Channels /\ channels[f] \in ChannelType /\ count \in Nat
  BY JournalAssumption DEF IndInv, TypeOK, ChannelType
<1>2. ASSUME NEW c \in ChannelType, c.kind = 3, channels' = [channels EXCEPT ![f] = c]
      PROVE  IndInv'
  <2>1. Moves(f, c)
    BY <1>2 DEF Moves, ListFiles, NextEntry, Serving
  <2>. QED  BY <1>1, <1>2, <2>1, ChannelStep
<1>3. CASE ListFiles(f)
  <2>1. [Closed EXCEPT !.kind = 3] \in ChannelType /\ [Closed EXCEPT !.kind = 3].kind = 3
    BY DEF Closed, ChannelType, Sides
  <2>. QED  BY <1>2, <1>3, <2>1 DEF ListFiles
<1>4. CASE NextEntry(f)
  <2>. DEFINE p == IF channels[f].pos <= count THEN channels[f].pos + 1 ELSE channels[f].pos
  <2>1. p \in Nat /\ channels' = [channels EXCEPT ![f].pos = p]
    BY <1>1, <1>4 DEF NextEntry, ChannelType
  <2>. HIDE DEF p
  <2>2. [channels[f] EXCEPT !.pos = p] \in ChannelType /\ [channels[f] EXCEPT !.pos = p].kind = 3
    BY <1>1, <1>4, <2>1 DEF NextEntry, ChannelType
  <2>. QED  BY <1>2, <2>1, <2>2
<1>. QED  BY <1>3, <1>4

-----------------------------------------------------------------------------
(* Building a record *)

LEMMA TagRecordStep ==
    ASSUME IndInv, TagRecord
    PROVE  IndInv'
<1>. USE DEF TagRecord, indexVars, localVars
<1>1. /\ writer = Idle /\ ~rotating /\ ~failed
      /\ job.op \in {"open", "concat", "scratch", "metadata"}
      /\ job.slot \in Slots /\ (job.op \in {"open", "concat"} => job.name \in Names)
      /\ job.op = "open" => job.f \in Channels
  BY JobType DEF IndInv, TypeOK, DraftIsNext, RotationIsAWrite, RequestFitsBlock
<1>2. tail \in Nat /\ HEADER \in Nat /\ active \in Sides /\ cell \in [Sides -> Log]
  BY JournalAssumption DEF IndInv, TypeOK, Log
<1>3. /\ cell' \in [Sides -> Log]
      /\ \A o \in Offsets : o < tail => cell'[active][o] = cell[active][o]
  <2>1. \A o \in Offsets : o < tail => o # tail
    BY <1>2 DEF Offsets
  <2>2. Over(cell[active][tail], Tag) \in Cell
    BY CellType, OverType
  <2>3. cell' = WithUnit(cell, active, tail, Over(cell[active][tail], Tag))
    BY DEF WithUnit
  <2>. HIDE DEF TagRecord
  <2>. QED  BY <1>2, <2>1, <2>2, <2>3, UnitType
<1>4. job.op \in {"open", "concat"} => BeginDraft
  OBVIOUS
<1>5. /\ writer' \in Channels \cup {Idle, Internal}
      /\ writer' = Idle <=> job.op \in {"scratch", "metadata"}
  BY <1>1, <1>4, JournalAssumption DEF BeginDraft
<1>6. TypeOK'
  <2>1. pc' \in Blocks /\ job' \in Jobs /\ error' \in Errors
    BY DEF IndInv, TypeOK, Blocks, Jobs, Errors, BeginDraft, Reply, NoJob
  <2>2. ReplacedLength \in Nat
    BY <1>1, EntryType, RecordType DEF ReplacedLength, Live
  <2>3. wslot' \in Slots /\ newname' \in Names \cup {NoName} /\ oldlen' \in Nat
    BY <1>1, <2>2 DEF IndInv, TypeOK, BeginDraft
  <2>4. channels' \in [Channels -> ChannelType]
    <3>1. [Closed EXCEPT !.kind = 2] \in ChannelType
      BY DEF Closed, ChannelType, Sides
    <3>. QED  BY <1>1, <3>1 DEF IndInv, TypeOK, ChannelType, BeginDraft
  <2>5. data' \in Seq(Values)
    BY EmptySeq
  <2>6. DraftType'
    BY <1>2, <1>5, <2>3, <2>5 DEF IndInv, TypeOK, DraftType
  <2>. QED  BY <1>3, <2>1, <2>4, <2>6 DEF IndInv, TypeOK, DraftType, ChannelType, Log
<1>7. pc' \in {"idle", "reserve", "fields"} /\ (pc' = "fields" <=> job.op \in {"scratch", "metadata"})
  BY <1>1 DEF BeginDraft, Reply
<1>8. HeadsAreRecords'
  BY <1>3, <1>7 DEF IndInv, HeadsAreRecords, Live, IsRecord, IndexEnd
<1>9. NextHeadsAreRecords' /\ NothingLost' /\ RotationIsAWrite' /\ RebuiltSideIsFree'
  BY <1>1, <1>7 DEF NextHeadsAreRecords, NothingLost, RotationIsAWrite, RebuiltSideIsFree, Rebuilding, Building
<1>10. DraftIsNext'
  BY <1>1, <1>2, <1>5, <1>7 DEF DraftIsNext, BeginDraft
<1>11. RequestFitsBlock'
  BY <1>1, <1>5, <1>7 DEF IndInv, RequestFitsBlock, Compacting, BeginDraft, Reply, NoJob
<1>12. SourcesExist'
  BY <1>1, <1>7 DEF IndInv, SourcesExist, Compacting, BeginDraft, Reply, NoJob
<1>13. WriterOwnsChannel'
  <2>1. \A g \in Channels : channels[g].kind # 2
    BY <1>1, JournalAssumption DEF IndInv, WriterOwnsChannel
  <2>2. CASE job.op = "open"
    <3>1. writer' = job.f /\ \A g \in Channels : channels'[g] = IF g = job.f THEN [Closed EXCEPT !.kind = 2] ELSE channels[g]
      BY <2>2 DEF BeginDraft, IndInv, TypeOK
    <3>. QED  BY <2>1, <3>1 DEF WriterOwnsChannel, Closed
  <2>3. CASE job.op # "open"
    <3>1. channels' = channels /\ writer' \in {Idle, Internal}
      BY <1>1, <2>3 DEF BeginDraft
    <3>. QED  BY <2>1, <3>1, JournalAssumption DEF WriterOwnsChannel
  <2>. QED  BY <2>2, <2>3
<1>. QED  BY <1>6, <1>8, <1>9, <1>10, <1>11, <1>12, <1>13 DEF IndInv

LEMMA TagFailsStep ==
    ASSUME IndInv, TagFails
    PROVE  IndInv'
<1>. USE DEF TagFails
<1>1. tail \in Nat /\ active \in Sides /\ cell \in [Sides -> Log]
  BY DEF IndInv, TypeOK, Log
<1>2. /\ cell' \in [Sides -> Log]
      /\ \A o \in Offsets : o < tail => cell'[active][o] = cell[active][o]
  BY <1>1, CellType DEF Log
<1>3. \A i \in Live : heads[i] \in Offsets /\ heads[i] < tail
  BY DEF IndInv, HeadsAreRecords, IsRecord, IndexEnd
<1>4. ~rotating
  BY DEF IndInv, DraftIsNext, RotationIsAWrite
<1>5. Spares
  BY <1>2, <1>3, <1>4 DEF IndInv, TypeOK, SectorType, GiveUp, Spares, Log
<1>. QED  BY <1>5, GiveUpStep DEF Errors

(* What a request adds to its record is a sequence of bytes. *)
LEMMA IncomingType ==
    ASSUME IndInv, \/ pc \in {"payload", "move"}
                   \/ pc = "reserve" /\ (job.op = "concat" => Named(Head(job.srcs)) # {})
    PROVE  Incoming \in Seq(Values)
<1>1. writer # Idle /\ job.op \in {"write", "open", "concat"} /\ job \in Jobs
  BY DEF IndInv, TypeOK, RequestFitsBlock
<1>2. CASE job.op = "write"
  <2>1. Bytes \subseteq Values
    BY DEF Values
  <2>. QED  BY <1>1, <1>2, <2>1, JobType, SeqMonotonic DEF Incoming
<1>3. CASE job.op = "open"
  <2>1. wslot \in Live
    BY <1>1, <1>3 DEF IndInv, TypeOK, SourcesExist, Live
  <2>. QED  BY <1>3, <2>1, EntryType DEF Incoming
<1>4. CASE job.op = "concat"
  <2>. DEFINE i == CHOOSE i \in Named(Head(job.srcs)) : TRUE
  <2>1. Named(Head(job.srcs)) # {}
    BY <1>1, <1>4 DEF IndInv, SourcesExist, Compacting
  <2>2. i \in Live
    BY <2>1 DEF Named
  <2>. QED  BY <1>4, <2>2, EntryType DEF Incoming
<1>. QED  BY <1>1, <1>2, <1>3, <1>4

LEMMA ReserveStep ==
    ASSUME IndInv, Reserve
    PROVE  IndInv'
<1>. USE DEF Reserve
<1>1. CASE \E e \in Errors : GiveUp(e) /\ UNCHANGED flashVars
  <2>1. Spares
    BY <1>1 DEF IndInv, TypeOK, SectorType, Spares, flashVars
  <2>. QED  BY <1>1, <2>1, GiveUpStep
<1>2. CASE ~\E e \in Errors : GiveUp(e) /\ UNCHANGED flashVars
  <2>1. /\ pc' \in {"compact", "payload"}
        /\ UNCHANGED <<flashVars, indexVars, draftVars, cursorVars, channels, job, error, localVars>>
        /\ job.op = "concat" => Named(Head(job.srcs)) # {}
    BY <1>2 DEF Errors
  <2>. USE <2>1 DEF flashVars, indexVars, draftVars, cursorVars, localVars
  <2>2. TypeOK'
    <3>1. pc' \in Blocks
      BY DEF Blocks
    <3>. QED  BY <3>1 DEF IndInv, TypeOK
  <2>3. HeadsAreRecords' /\ NextHeadsAreRecords' /\ NothingLost'
    BY DEF IndInv, HeadsAreRecords, NextHeadsAreRecords, NothingLost, Live, IsRecord, IndexEnd,
           NextEnd, Building
  <2>4. DraftIsNext' /\ RotationIsAWrite'
    BY DEF IndInv, DraftIsNext, RotationIsAWrite
  <2>5. RequestFitsBlock'
    BY DEF IndInv, RequestFitsBlock, Compacting
  <2>6. SourcesExist'
    BY DEF IndInv, SourcesExist, Named, Live, Entry
  <2>7. RebuiltSideIsFree' /\ WriterOwnsChannel'
    BY DEF IndInv, RebuiltSideIsFree, WriterOwnsChannel, Rebuilding
  <2>. QED  BY <2>2, <2>3, <2>4, <2>5, <2>6, <2>7 DEF IndInv
<1>. QED  BY <1>1, <1>2

(* Payload bytes at the cursor touch no record of either index. *)
LEMMA PayloadSpares ==
    ASSUME IndInv, pc = "payload", NEW bytes \in Seq(Values),
           cell' = [cell EXCEPT ![target] = Programmed(@, cursor, bytes)], sector' = sector
    PROVE  /\ cell' \in [Sides -> Log]
           /\ \A s \in Sides, o \in Offsets : s # target \/ o < cursor => cell'[s][o] = cell[s][o]
           /\ Spares
<1>1. /\ cell \in [Sides -> Log] /\ target \in Sides /\ cursor \in Nat /\ tail \in Nat
      /\ active \in Sides /\ writebase \in Nat
  BY DEF IndInv, TypeOK, Log
<1>2. HEADER \in Nat /\ cursor >= writebase + HEADER /\ (target = active => writebase = tail)
  BY JournalAssumption DEF IndInv, DraftIsNext, RequestFitsBlock
<1>3. /\ Programmed(cell[target], cursor, bytes) \in Log
      /\ \A o \in Offsets : o < cursor => Programmed(cell[target], cursor, bytes)[o] = cell[target][o]
  BY <1>1, ProgrammedType
<1>4. /\ cell' \in [Sides -> Log]
      /\ \A s \in Sides, o \in Offsets : s # target \/ o < cursor => cell'[s][o] = cell[s][o]
  BY <1>1, <1>3
<1>5. ASSUME NEW i \in Live PROVE cell'[active][heads[i]] = cell[active][heads[i]]
  <2>1. heads[i] \in Offsets /\ heads[i] < tail
    BY DEF IndInv, HeadsAreRecords, IsRecord, IndexEnd
  <2>. QED  BY <1>1, <1>2, <1>4, <2>1 DEF Offsets
<1>6. ASSUME rotating, NEW i \in Slots, nextheads[i] # 0
      PROVE  cell'[target][nextheads[i]] = cell[target][nextheads[i]]
  <2>1. nextheads[i] \in Offsets /\ nextheads[i] < writebase
    BY <1>6 DEF IndInv, NextHeadsAreRecords, IsRecord, Building, NextEnd
  <2>. QED  BY <1>1, <1>2, <1>4, <2>1 DEF Offsets
<1>. QED  BY <1>4, <1>5, <1>6 DEF IndInv, TypeOK, SectorType, Spares, Log

LEMMA PayloadStep ==
    ASSUME IndInv, Payload
    PROVE  IndInv'
<1>. USE DEF Payload, Reply, NoJob, indexVars, draftVars, localVars
<1>1. Incoming \in Seq(Values) /\ Len(Incoming) \in Nat
  BY IncomingType
<1>11. cursor' \in Nat /\ cursor \in Nat /\ cursor' >= cursor
  <2>1. cursor \in Nat
    BY DEF IndInv, TypeOK
  <2>2. cursor' = cursor + Len(Incoming)
    OBVIOUS
  <2>. QED  BY <1>1, <2>1, <2>2
<1>2. cell' \in [Sides -> Log] /\ Spares
  BY <1>1, PayloadSpares
<1>3. /\ writer # Idle /\ ~failed /\ job.op \in {"write", "open", "concat"} /\ job \in Jobs
      /\ job.op = "concat" => job.srcs \in Seq(Names) /\ job.srcs # <<>>
  BY JobType DEF IndInv, TypeOK, RequestFitsBlock
<1>4. /\ pc' \in {"idle", "fields", "reserve"}
      /\ pc' # "idle" => job.op = "concat" /\ job'.op = "concat" /\ job'.srcs # <<>>
      /\ pc' = "idle" => job' = NoJob
      /\ job' \in Jobs
  <2>1. CASE job.op # "concat" \/ Len(job.srcs) = 1
    BY <1>3, <2>1 DEF Jobs
  <2>2. CASE job.op = "concat" /\ Len(job.srcs) # 1
    <3>1. Tail(job.srcs) \in Seq(Names) /\ Tail(job.srcs) # <<>>
      <4>. DEFINE s == job.srcs
      <4>1. s \in Seq(Names) /\ s # <<>> /\ Len(s) # 1
        BY <1>3, <2>2
      <4>. HIDE DEF s
      <4>2. Tail(s) \in Seq(Names) /\ Len(Tail(s)) = Len(s) - 1 /\ Len(s) \in Nat
        BY <4>1, HeadTailProperties, LenProperties
      <4>3. Len(Tail(s)) # 0
        BY <4>1, <4>2
      <4>4. Tail(s) # <<>>
        BY <4>3, EmptySeq
      <4>. QED  BY <4>2, <4>4 DEF s
    <3>2. job' = [job EXCEPT !.srcs = Tail(job.srcs)] /\ pc' = "reserve"
      BY <2>2
    <3>. QED  BY <1>3, <2>2, <3>1, <3>2 DEF Jobs
  <2>. QED  BY <2>1, <2>2
<1>5. TypeOK'
  <2>1. pc' \in Blocks /\ error' \in Errors
    BY <1>4 DEF IndInv, TypeOK, Blocks, Errors
  <2>2. data' \in Seq(Values)
    BY <1>1, ConcatProperties DEF IndInv, TypeOK
  <2>3. cursor' \in Nat
    BY <1>11
  <2>. QED  BY <1>2, <1>4, <2>1, <2>2, <2>3 DEF IndInv, TypeOK, Log
<1>6. HeadsAreRecords'
  BY <1>2, <1>4 DEF IndInv, HeadsAreRecords, Live, IsRecord, IndexEnd, Spares
<1>7. NextHeadsAreRecords' /\ NothingLost'
  BY <1>2, <1>4 DEF IndInv, NextHeadsAreRecords, NothingLost, IsRecord, NextEnd, Building, Spares
<1>8. DraftIsNext'
  <2>1. /\ newname \in Names /\ (target = active => writebase = tail)
        /\ cursor >= writebase + HEADER /\ writebase + HEADER \in Nat
        /\ ~rotating => target = active
    <3>1. writebase \in Nat /\ HEADER \in Nat
      BY JournalAssumption DEF IndInv, TypeOK
    <3>. QED  BY <1>3, <3>1 DEF IndInv, DraftIsNext
  <2>2. cursor' >= writebase + HEADER
    BY <1>11, <2>1
  <2>. QED  BY <1>3, <1>4, <2>1, <2>2 DEF DraftIsNext
<1>9. RotationIsAWrite' /\ RequestFitsBlock' /\ SourcesExist'
  BY <1>3, <1>4 DEF IndInv, RotationIsAWrite, RequestFitsBlock, SourcesExist, Compacting
<1>10. RebuiltSideIsFree' /\ WriterOwnsChannel'
  BY <1>4 DEF IndInv, RebuiltSideIsFree, WriterOwnsChannel, Rebuilding
<1>. QED  BY <1>5, <1>6, <1>7, <1>8, <1>9, <1>10 DEF IndInv

LEMMA PayloadFailsStep ==
    ASSUME IndInv, PayloadFails
    PROVE  IndInv'
<1>. USE DEF PayloadFails
<1>1. PICK n \in 0..(Len(Incoming) - 1) :
        cell' = [cell EXCEPT ![target] = Programmed(@, cursor, SubSeq(Incoming, 1, n))]
  OBVIOUS
<1>2. Incoming \in Seq(Values)
  BY IncomingType
<1>3. SubSeq(Incoming, 1, n) \in Seq(Values)
  <2>1. n \in Int /\ \A k \in 1..n : Incoming[k] \in Values
    BY <1>2, LenProperties
  <2>. QED  BY <2>1, SubSeqProperties
<1>4. Spares
  BY <1>1, <1>3, PayloadSpares
<1>. QED  BY <1>4, GiveUpStep DEF Errors

(* The header under construction lies behind every record of the index it  *)
(* will join.                                                              *)
LEMMA HeaderSpares ==
    ASSUME IndInv, pc \in {"fields", "commit"}, NEW new \in Cell,
           cell' = WithUnit(cell, target, writebase, new), sector' = sector
    PROVE  /\ cell' \in [Sides -> Log]
           /\ writebase \in Offsets => cell'[target][writebase] = new
           /\ Spares
<1>1. /\ cell \in [Sides -> Log] /\ target \in Sides /\ active \in Sides
      /\ tail \in Nat /\ writebase \in Nat
  BY DEF IndInv, TypeOK, Log
<1>2. target = active => writebase = tail
  BY DEF IndInv, DraftIsNext, RequestFitsBlock
<1>3. /\ cell' \in [Sides -> Log]
      /\ \A s \in Sides, o \in Offsets :
           cell'[s][o] = IF s = target /\ o = writebase THEN new ELSE cell[s][o]
  BY <1>1, UnitType
<1>4. ASSUME NEW i \in Live PROVE cell'[active][heads[i]] = cell[active][heads[i]]
  <2>1. heads[i] \in Offsets /\ heads[i] < tail
    BY DEF IndInv, HeadsAreRecords, IsRecord, IndexEnd
  <2>. QED  BY <1>1, <1>2, <1>3, <2>1 DEF Offsets
<1>5. ASSUME rotating, NEW i \in Slots, nextheads[i] # 0
      PROVE  cell'[target][nextheads[i]] = cell[target][nextheads[i]]
  <2>1. nextheads[i] \in Offsets /\ nextheads[i] < writebase
    BY <1>5 DEF IndInv, NextHeadsAreRecords, IsRecord, Building, NextEnd
  <2>. QED  BY <1>1, <1>3, <2>1 DEF Offsets
<1>. QED  BY <1>1, <1>3, <1>4, <1>5 DEF IndInv, TypeOK, SectorType, Spares, Log

LEMMA RecordFailsStep ==
    ASSUME IndInv, RecordFails
    PROVE  IndInv'
<1>1. cell' = WithUnit(cell, target, writebase, Junk)
  BY DEF RecordFails, WithUnit
<1>2. Spares
  BY <1>1, CellType, HeaderSpares DEF RecordFails
<1>. QED  BY <1>2, GiveUpStep DEF RecordFails, Errors

LEMMA NewRecordType ==
    ASSUME IndInv, pc = "fields"
    PROVE  NewRecord \in Record
<1>1. /\ job.op \in {"close", "concat", "scratch", "metadata"} /\ job \in Jobs
      /\ job.op \in {"close", "concat"} => writer # Idle /\ ~failed
  BY DEF IndInv, TypeOK, RequestFitsBlock
<1>2. CASE job.op \in {"close", "concat"}
  <2>1. newname \in Names /\ cursor >= writebase + HEADER
    BY <1>1, <1>2 DEF IndInv, DraftIsNext
  <2>2. writebase \in Nat /\ cursor \in Nat /\ HEADER \in Nat /\ data \in Seq(Values) /\ wslot \in Slots
    BY JournalAssumption DEF IndInv, TypeOK
  <2>3. Length \in Nat /\ cursor - writebase \in Nat /\ writebase + HEADER \in Nat
    BY <2>1, <2>2 DEF Length
  <2>. QED  BY <1>2, <2>1, <2>2, <2>3 DEF NewRecord, Record
<1>3. CASE job.op \in {"scratch", "metadata"}
  <2>1. job.slot \in Live
    BY <1>1, <1>3, JobType DEF IndInv, SourcesExist, Live
  <2>2. Entry(job.slot) \in Record
    BY <2>1, EntryType
  <2>3. HEADER \in Nat /\ <<>> \in Seq(Values)
    BY JournalAssumption, EmptySeq
  <2>4. CASE job.op = "scratch"
    BY <2>2, <2>3, <2>4 DEF NewRecord, Record
  <2>5. CASE job.op = "metadata"
    <3>1. job.drop \in Slots \cup {NoSlot} /\ job.ro \in BOOLEAN /\ job.name \in Names
      BY <1>1, <2>5, JobType
    <3>. QED  BY <2>2, <2>3, <2>5, <3>1 DEF NewRecord, Record
  <2>. QED  BY <1>3, <2>4, <2>5
<1>. QED  BY <1>1, <1>2, <1>3

LEMMA FieldsStep ==
    ASSUME IndInv, CursorInSector, Fields
    PROVE  IndInv'
<1>. USE DEF Fields
<1>1. CASE cell' = [cell EXCEPT ![target][writebase] = Junk] /\ GiveUp(25)
  <2>1. cell' = WithUnit(cell, target, writebase, Junk)
    BY <1>1 DEF WithUnit
  <2>2. Spares
    BY <2>1, CellType, HeaderSpares
  <2>. QED  BY <1>1, <2>2, GiveUpStep DEF Errors
<1>2. CASE /\ cell[target][writebase] = Tag
           /\ cell' = [cell EXCEPT ![target][writebase] = NewRecord]
           /\ pc' = "commit"
           /\ UNCHANGED <<indexVars, draftVars, cursorVars, channels, job, error, localVars>>
  <2>. USE DEF indexVars, draftVars, cursorVars, localVars
  <2>1. NewRecord \in Record /\ NewRecord \in Cell
    BY NewRecordType, CellType
  <2>2. cell' = WithUnit(cell, target, writebase, NewRecord)
    BY <1>2 DEF WithUnit
  <2>3. cell' \in [Sides -> Log] /\ (writebase \in Offsets => cell'[target][writebase] = NewRecord) /\ Spares
    BY <2>1, <2>2, HeaderSpares
  <2>4. TypeOK'
    <3>1. pc' \in Blocks
      BY <1>2 DEF Blocks
    <3>. QED  BY <1>2, <2>3, <3>1 DEF IndInv, TypeOK, Log
  <2>5. HeadsAreRecords'
    BY <1>2, <2>3 DEF IndInv, HeadsAreRecords, Live, IsRecord, IndexEnd, Spares
  <2>6. NextHeadsAreRecords' /\ NothingLost'
    BY <1>2, <2>3 DEF IndInv, NextHeadsAreRecords, NothingLost, IsRecord, NextEnd, Building, Spares
  <2>7. DraftIsNext' /\ RotationIsAWrite'
    BY <1>2 DEF IndInv, DraftIsNext, RotationIsAWrite
  <2>8. RequestFitsBlock' /\ SourcesExist'
    <3>1. cursor >= writebase + HEADER
      <4>1. cursor \in Nat /\ writebase \in Nat /\ HEADER \in Nat /\ tail \in Nat
        BY JournalAssumption DEF IndInv, TypeOK
      <4>2. CASE writer # Idle
        BY <4>2 DEF IndInv, DraftIsNext, RequestFitsBlock
      <4>3. CASE writer = Idle
        <5>1. writebase = tail /\ cursor = tail + HEADER
          BY <4>3 DEF IndInv, RequestFitsBlock
        <5>. QED  BY <4>1, <5>1
      <4>. QED  BY <4>2, <4>3
    <3>2. writebase \in Offsets
      BY <3>1, JournalAssumption DEF IndInv, TypeOK, CursorInSector, Offsets
    <3>3. IsRecord(target, writebase)'
      BY <1>2, <2>1, <2>3, <3>2 DEF IsRecord
    <3>. QED  BY <1>2, <3>3 DEF IndInv, RequestFitsBlock, SourcesExist, Compacting
  <2>9. RebuiltSideIsFree' /\ WriterOwnsChannel'
    BY <1>2 DEF IndInv, RebuiltSideIsFree, WriterOwnsChannel, Rebuilding
  <2>. QED  BY <2>4, <2>5, <2>6, <2>7, <2>8, <2>9 DEF IndInv
<1>. QED  BY <1>1, <1>2

LEMMA CommitStep ==
    ASSUME IndInv, Commit
    PROVE  IndInv'
<1>. USE DEF Commit, indexVars, localVars
<1>. DEFINE r == cell[target][writebase]
            new == [r EXCEPT !.commit = TRUE]
<1>1. /\ cell \in [Sides -> Log] /\ target \in Sides /\ active \in Sides /\ wslot \in Slots
      /\ tail \in Nat /\ writebase \in Nat /\ cursor \in Nat /\ HEADER \in Nat \ {0} /\ job \in Jobs
      /\ heads \in [Slots -> Nat] /\ nextheads \in [Slots -> Nat]
  BY JournalAssumption DEF IndInv, TypeOK, Log
<1>2. /\ writebase \in Offsets /\ r \in Record /\ ~failed
      /\ job.op \in {"close", "concat", "scratch", "metadata"}
      /\ job.op \in {"close", "concat"} <=> writer # Idle
      /\ cursor >= writebase + HEADER
      /\ target = active => writebase = tail
      /\ ~rotating => target = active
      /\ rotating => writer # Idle
  BY <1>1 DEF IndInv, RequestFitsBlock, DraftIsNext, RotationIsAWrite, IsRecord
<1>3. new \in Record /\ new \in Cell
  BY <1>2, CellType DEF Record
<1>4. cell' = WithUnit(cell, target, writebase, new)
  BY DEF WithUnit
<1>5. cell' \in [Sides -> Log] /\ cell'[target][writebase] = new /\ Spares
  BY <1>2, <1>3, <1>4, HeaderSpares
<1>6. IsRecord(target, writebase) /\ writebase \in Offsets /\ cell'[target][writebase] \in Record
  BY <1>2, <1>3, <1>5 DEF IsRecord
<1>9. /\ \A i \in Live : heads[i] \in Offsets /\ heads[i] < tail /\ cell[active][heads[i]] \in Record
                         /\ cell'[active][heads[i]] = cell[active][heads[i]]
      /\ Offsets \subseteq Nat
  <2>1. Offsets \subseteq Nat
    BY JournalAssumption DEF Offsets
  <2>2. pc = "commit"
    OBVIOUS
  <2>. HIDE DEF Commit, r, new
  <2>. QED  BY <1>5, <2>1, <2>2 DEF IndInv, HeadsAreRecords, IsRecord, IndexEnd, Spares
<1>7. CASE rotating
  <2>1. /\ pc' = "seal" /\ nextheads' = [nextheads EXCEPT ![wslot] = writebase]
        /\ UNCHANGED <<sector, indexVars, draftVars, target, writebase, cursor, data, channels, job,
                       error, localVars>>
    BY <1>7
  <2>. HIDE DEF Commit, r, new
  <2>. USE <1>7, <2>1 DEF indexVars, draftVars, localVars
  <2>2. TypeOK'
    <3>1. pc' \in Blocks /\ nextheads' \in [Slots -> Nat]
      BY <1>1 DEF Blocks
    <3>. QED  BY <1>5, <3>1 DEF IndInv, TypeOK, Log
  <2>3. HeadsAreRecords'
    BY <1>9 DEF HeadsAreRecords, Live, IsRecord, IndexEnd
  <2>4. NextHeadsAreRecords'
    <3>1. ASSUME NEW i \in Slots, nextheads'[i] # 0
          PROVE  /\ nextheads'[i] \in Offsets /\ cell'[target][nextheads'[i]] \in Record
                 /\ nextheads'[i] < cursor
      <4>1. CASE i = wslot
        BY <1>1, <1>2, <1>6, <4>1
      <4>2. CASE i # wslot
        <5>1. nextheads'[i] = nextheads[i] /\ nextheads[i] # 0
          BY <1>1, <3>1, <4>2
        <5>2. IsRecord(target, nextheads[i]) /\ nextheads[i] < writebase
          BY <5>1 DEF IndInv, NextHeadsAreRecords, Building, NextEnd, Commit
        <5>3. cell'[target][nextheads[i]] = cell[target][nextheads[i]]
          BY <1>5, <5>1 DEF Spares
        <5>. QED  BY <1>1, <1>2, <5>1, <5>2, <5>3 DEF IsRecord
      <4>. QED  BY <4>1, <4>2
    <3>. QED  BY <3>1 DEF NextHeadsAreRecords, NextEnd, IsRecord
  <2>5. NothingLost' /\ DraftIsNext' /\ RotationIsAWrite'
    BY <1>2 DEF IndInv, NothingLost, DraftIsNext, RotationIsAWrite, Commit
  <2>6. RequestFitsBlock' /\ SourcesExist'
    BY <1>2 DEF IndInv, RequestFitsBlock, SourcesExist, Compacting, Commit
  <2>7. RebuiltSideIsFree' /\ WriterOwnsChannel'
    BY <1>2 DEF IndInv, RebuiltSideIsFree, WriterOwnsChannel, Rebuilding, Commit
  <2>. QED  BY <2>2, <2>3, <2>4, <2>5, <2>6, <2>7 DEF IndInv
<1>8. CASE ~rotating
  <2>. DEFINE h == Applied(heads, writebase)
  <2>1. Publish(h, target) /\ Forget /\ Release /\ UNCHANGED <<mounted, active, generation, dirty, at, partoff, retried, sector>>
    BY <1>8
  <2>2. target = active /\ writebase = tail
    BY <1>2, <1>8
  <2>3. h \in [Slots -> Nat] /\ \A i \in Slots : h[i] \in {0, writebase, heads[i]}
    BY <1>1 DEF Applied
  <2>4. ASSUME NEW i \in Slots, h[i] # 0
        PROVE  /\ IsRecord(active, h[i]) /\ h[i] < cursor
               /\ h[i] \in Offsets /\ cell'[active][h[i]] \in Record
    <3>. HIDE DEF h, r, new, Commit
    <3>1. CASE h[i] = writebase
      BY <1>1, <1>2, <1>6, <2>2, <3>1
    <3>2. CASE h[i] = heads[i]
      <4>1. i \in Live
        BY <2>4, <3>2 DEF Live
      <4>. QED  BY <1>1, <1>2, <1>9, <2>2, <3>2, <4>1 DEF IsRecord
    <3>. QED  BY <2>3, <2>4, <3>1, <3>2
  <2>5. heads' = h /\ tail' = cursor /\ count' \in Nat /\ livebytes' \in Nat
    BY <2>1, <2>2, <2>3, <2>4, TotalsType DEF Publish
  <2>6. pc' \in {"idle", "scratch"} /\ (pc' = "scratch" => job' = job /\ job.op = "scratch")
        /\ (pc' = "idle" => job' = NoJob) /\ error' \in Errors
    BY <1>8 DEF Reply, Errors, IndInv, TypeOK
  <2>. HIDE DEF h, Commit
  <2>7. TypeOK'
    <3>1. pc' \in Blocks /\ job' \in Jobs
      BY <1>1, <2>6 DEF Blocks, Jobs, NoJob
    <3>2. channels' \in [Channels -> ChannelType]
      BY <2>1, ReleaseType DEF IndInv, TypeOK, ChannelType
    <3>3. DraftType'
      BY <2>1, ForgetType
    <3>. QED
      BY <1>1, <1>5, <2>1, <2>3, <2>5, <2>6, <3>1, <3>2, <3>3
      DEF IndInv, TypeOK, DraftType, ChannelType, Log
  <2>8. HeadsAreRecords'
    <3>1. active' = active /\ pc' # "scan"
      BY <2>1, <2>6
    <3>. QED  BY <2>4, <2>5, <3>1 DEF HeadsAreRecords, Live, IndexEnd, IsRecord
  <2>9. NextHeadsAreRecords' /\ NothingLost' /\ DraftIsNext' /\ RotationIsAWrite' /\ RebuiltSideIsFree'
    BY <2>1, <2>6 DEF Forget, NextHeadsAreRecords, NothingLost, Building, DraftIsNext,
                      RotationIsAWrite, RebuiltSideIsFree, Rebuilding
  <2>10. RequestFitsBlock' /\ SourcesExist'
    BY <2>1, <2>6 DEF Forget, RequestFitsBlock, SourcesExist, Compacting, NoJob
  <2>11. WriterOwnsChannel'
    BY <2>1, JournalAssumption DEF IndInv, WriterOwnsChannel, Forget, Release, Closed
  <2>. QED  BY <2>7, <2>8, <2>9, <2>10, <2>11 DEF IndInv
<1>. QED  BY <1>7, <1>8

-----------------------------------------------------------------------------
(* Compaction *)

LEMMA CompactBeginStep ==
    ASSUME IndInv, CompactBegin
    PROVE  IndInv'
<1>. USE DEF CompactBegin
<1>1. CASE \E e \in Errors : GiveUp(e) /\ UNCHANGED flashVars
  <2>1. Spares
    BY <1>1 DEF IndInv, TypeOK, SectorType, Spares, flashVars
  <2>. QED  BY <1>1, <2>1, GiveUpStep
<1>2. CASE ~\E e \in Errors : GiveUp(e) /\ UNCHANGED flashVars
  <2>1. /\ ~rotating /\ ~Referenced(1 - active) /\ target' = 1 - active /\ pc' = "erase" /\ pc = "compact"
        /\ UNCHANGED <<flashVars, indexVars, draftVars, writebase, cursor, data, nextheads,
                       channels, job, error, localVars>>
    BY <1>2 DEF Errors
  <2>. HIDE DEF CompactBegin
  <2>. USE <2>1 DEF flashVars, indexVars, draftVars, localVars
  <2>2. TypeOK'
    <3>1. pc' \in Blocks /\ target' \in Sides
      BY DEF IndInv, TypeOK, Blocks, Sides
    <3>. QED  BY <3>1 DEF IndInv, TypeOK
  <2>3. HeadsAreRecords' /\ NextHeadsAreRecords' /\ NothingLost'
    BY DEF IndInv, HeadsAreRecords, NextHeadsAreRecords, NothingLost, Live, IsRecord, IndexEnd,
           Building
  <2>4. DraftIsNext' /\ RotationIsAWrite'
    <3>1. 1 - active # active
      BY DEF IndInv, TypeOK, Sides
    <3>. QED  BY <3>1 DEF IndInv, DraftIsNext, RotationIsAWrite
  <2>5. RequestFitsBlock'
    BY DEF IndInv, RequestFitsBlock, Compacting
  <2>6. SourcesExist'
    BY DEF IndInv, SourcesExist, Named, Live, Entry, Compacting
  <2>7. RebuiltSideIsFree' /\ WriterOwnsChannel'
    BY DEF IndInv, RebuiltSideIsFree, WriterOwnsChannel, Rebuilding, Referenced
  <2>. QED  BY <2>2, <2>3, <2>4, <2>5, <2>6, <2>7 DEF IndInv
<1>. QED  BY <1>1, <1>2

(* Steps on the side being rebuilt leave the index alone. *)
LEMMA OtherSide ==
    ASSUME IndInv, Rebuilding
    PROVE  target # active /\ target \in Sides /\ active \in Sides /\ target = 1 - active
BY DEF IndInv, TypeOK, RebuiltSideIsFree, Sides

LEMMA BlankLogType == BlankLog \in Log
BY CellType DEF BlankLog, Log

LEMMA EraseStep ==
    ASSUME IndInv, Erase
    PROVE  IndInv'
<1>. USE DEF Erase, indexVars, draftVars
<1>1. target # active /\ target \in Sides
  BY OtherSide DEF Rebuilding
<1>2. cell' \in [Sides -> Log] /\ cell'[active] = cell[active]
  BY <1>1, BlankLogType DEF IndInv, TypeOK, Log
<1>3. ~rotating
  BY DEF IndInv, RotationIsAWrite
<1>4. TypeOK'
  <2>1. sector' \in [Sides -> [state: {"unsealed", "sealed"}, gen: 0..(GENERATIONS - 1), base: Nat]]
    BY JournalAssumption DEF IndInv, TypeOK, NoSector
  <2>2. nextheads' \in [Slots -> Nat]
    BY DEF NoHeads
  <2>3. cursor' \in Nat /\ partoff' \in Nat /\ at' \in Nat
    BY JournalAssumption DEF IndInv, TypeOK
  <2>4. pc' \in Blocks
    BY DEF Blocks
  <2>. QED  BY <1>2, <2>1, <2>2, <2>3, <2>4 DEF IndInv, TypeOK, Log
<1>5. HeadsAreRecords'
  BY <1>2 DEF IndInv, HeadsAreRecords, Live, IsRecord, IndexEnd
<1>6. NextHeadsAreRecords'
  BY DEF NextHeadsAreRecords, NoHeads
<1>7. NothingLost'
  BY JournalAssumption DEF IndInv, TypeOK, NothingLost, Live, Slots
<1>8. DraftIsNext' /\ RotationIsAWrite'
  BY <1>3 DEF IndInv, DraftIsNext, RotationIsAWrite
<1>9. RequestFitsBlock'
  BY DEF IndInv, RequestFitsBlock, Compacting
<1>10. SourcesExist'
  BY <1>2 DEF IndInv, SourcesExist, Named, Live, Entry, Compacting
<1>11. RebuiltSideIsFree' /\ WriterOwnsChannel'
  BY DEF IndInv, RebuiltSideIsFree, WriterOwnsChannel, Rebuilding
<1>. QED  BY <1>4, <1>5, <1>6, <1>7, <1>8, <1>9, <1>10, <1>11 DEF IndInv

LEMMA HalfErasedType ==
    ASSUME TypeOK, HalfErased(target)
    PROVE  /\ cell' \in [Sides -> Log] /\ sector' \in [Sides -> SectorType]
           /\ target # active => cell'[active] = cell[active]
<1>1. /\ active \in Sides /\ target \in Sides
      /\ cell \in [Sides -> Log] /\ sector \in [Sides -> SectorType]
  BY DEF TypeOK, Log, SectorType
<1>2. NoSector \in SectorType
  BY JournalAssumption DEF NoSector, SectorType
<1>3. [o \in Offsets |-> Junk] \in Log /\ BlankLog \in Log
  BY CellType, BlankLogType DEF Log
<1>4. \/ UNCHANGED flashVars
      \/ /\ \E log \in Log : cell' = [cell EXCEPT ![target] = log]
         /\ \/ sector' = sector
            \/ sector' = [sector EXCEPT ![target] = NoSector]
  BY <1>3 DEF HalfErased
<1>5. CASE UNCHANGED flashVars
  BY <1>1, <1>5 DEF flashVars
<1>6. ASSUME NEW log \in Log, cell' = [cell EXCEPT ![target] = log]
      PROVE  cell' \in [Sides -> Log] /\ (target # active => cell'[active] = cell[active])
  BY <1>1, <1>6
<1>7. (sector' = sector \/ sector' = [sector EXCEPT ![target] = NoSector])
        => sector' \in [Sides -> SectorType]
  BY <1>1, <1>2
<1>. QED  BY <1>4, <1>5, <1>6, <1>7

LEMMA EraseFailsStep ==
    ASSUME IndInv, EraseFails
    PROVE  IndInv'
<1>. USE DEF EraseFails
<1>1. target # active
  BY OtherSide DEF Rebuilding
<1>2. ~rotating
  BY DEF IndInv, RotationIsAWrite
<1>3. Spares
  BY <1>1, <1>2, HalfErasedType DEF IndInv, Spares, Log
<1>. QED  BY <1>3, GiveUpStep DEF Errors

LEMMA CopiedType ==
    ASSUME IndInv, pc = "copy", NEW log \in Log, NEW o \in Nat, NEW i \in Live, NEW bytes \in Seq(Values)
    PROVE  /\ Copied(log, o, i, bytes) \in Log
           /\ o \in Offsets => Copied(log, o, i, bytes)[o] \in Record
           /\ \A p \in Offsets : p < o => Copied(log, o, i, bytes)[p] = log[p]
<1>. DEFINE base == Programmed(log, o + HEADER, bytes)
            new == [Entry(i) EXCEPT !.kind = 1, !.drop = NoSlot, !.slot = i, !.off = o + HEADER,
                                    !.len = Len(bytes), !.span = HEADER + Len(bytes), !.crc = bytes]
<1>1. o + HEADER \in Nat /\ HEADER \in Nat /\ Len(bytes) \in Nat /\ HEADER + Len(bytes) \in Nat
  BY JournalAssumption, LenProperties
<1>2. i \in Slots /\ Entry(i) \in Record
  BY EntryType
<1>3. new \in Record /\ new \in Cell
  BY <1>1, <1>2, CellType DEF Record
<1>4. base \in Log /\ \A p \in Offsets : p < o => base[p] = log[p]
  <2>1. \A p \in Offsets : p < o => p < o + HEADER
    BY JournalAssumption DEF Offsets
  <2>. QED  BY <1>1, <2>1, ProgrammedType
<1>5. Copied(log, o, i, bytes) = [base EXCEPT ![o] = new]
  BY DEF Copied
<1>6. \A p \in Offsets : p < o => p # o
  BY DEF Offsets
<1>. HIDE DEF base, new
<1>. QED  BY <1>3, <1>4, <1>5, <1>6 DEF Log

LEMMA CopyNextStep ==
    ASSUME IndInv, CopyNext, CursorInSector'
    PROVE  IndInv'
<1>. USE DEF CopyNext, indexVars, draftVars
<1>1. /\ target # active /\ target \in Sides /\ active \in Sides /\ cell \in [Sides -> Log]
      /\ cursor \in Nat /\ at \in Nat /\ nextheads \in [Slots -> Nat] /\ HEADER \in Nat \ {0}
  BY OtherSide, JournalAssumption DEF Rebuilding, IndInv, TypeOK, Log
<1>2. ~rotating
  BY DEF IndInv, RotationIsAWrite
<1>3. CASE ToCopy = {}
  <2>. USE <1>3
  <2>1. pc' \in {"move", "seal"} /\ (pc' = "move" <=> writer # Idle)
    OBVIOUS
  <2>2. TypeOK'
    BY <2>1 DEF IndInv, TypeOK, Blocks
  <2>3. HeadsAreRecords' /\ NextHeadsAreRecords'
    BY <1>2, <2>1 DEF IndInv, HeadsAreRecords, NextHeadsAreRecords, Live, IsRecord, IndexEnd,
           NextEnd, Building
  <2>4. NothingLost'
    <3>1. writer = Idle => \A i \in Live : i < at
      BY <1>1 DEF ToCopy, Live, Slots
    <3>. QED  BY <2>1, <3>1 DEF IndInv, NothingLost, Live
  <2>5. DraftIsNext' /\ RotationIsAWrite'
    BY <1>1, <1>2, <2>1 DEF IndInv, DraftIsNext, RotationIsAWrite
  <2>6. RequestFitsBlock' /\ SourcesExist'
    BY <2>1 DEF IndInv, RequestFitsBlock, SourcesExist, Compacting, Named, Live, Entry
  <2>7. RebuiltSideIsFree' /\ WriterOwnsChannel'
    BY <2>1 DEF IndInv, RebuiltSideIsFree, WriterOwnsChannel, Rebuilding
  <2>. QED  BY <2>2, <2>3, <2>4, <2>5, <2>6, <2>7 DEF IndInv
<1>4. CASE ToCopy # {}
  <2>1. PICK i \in Slots :
          /\ First(i, ToCopy)
          /\ cell' = [cell EXCEPT ![target] = Copied(@, cursor, i, Contents(i))]
          /\ nextheads' = [nextheads EXCEPT ![i] = cursor]
          /\ cursor' = cursor + HEADER + Entry(i).len
          /\ at' = i + 1
          /\ UNCHANGED pc
    BY <1>4
  <2>2. /\ pc = "copy" /\ pc' = "copy"
        /\ UNCHANGED <<sector, indexVars, draftVars, target, writebase, data, channels, job, error,
                       partoff, retried>>
    BY <2>1
  <2>. HIDE DEF CopyNext
  <2>3. i \in Live /\ \A j \in ToCopy : i <= j
    BY <2>1 DEF First, ToCopy
  <2>4. Contents(i) \in Seq(Values) /\ Entry(i).len \in Nat
    BY <2>2, <2>3, EntryType, RecordType
  <2>5. cursor' \in Nat /\ cursor < cursor' /\ cursor \in Offsets
    BY <1>1, <2>1, <2>4, JournalAssumption DEF CursorInSector, Offsets
  <2>6. /\ Copied(cell[target], cursor, i, Contents(i)) \in Log
        /\ Copied(cell[target], cursor, i, Contents(i))[cursor] \in Record
        /\ \A p \in Offsets : p < cursor => Copied(cell[target], cursor, i, Contents(i))[p] = cell[target][p]
    BY <1>1, <2>2, <2>3, <2>4, <2>5, CopiedType
  <2>7. /\ cell' \in [Sides -> Log] /\ cell'[active] = cell[active]
        /\ cell'[target][cursor] \in Record
        /\ \A p \in Offsets : p < cursor => cell'[target][p] = cell[target][p]
    BY <1>1, <2>1, <2>6
  <2>8. nextheads' \in [Slots -> Nat] /\ \A j \in Slots : nextheads'[j] = IF j = i THEN cursor ELSE nextheads[j]
    BY <1>1, <2>1
  <2>9. TypeOK'
    <3>1. at' \in Nat
      BY <2>1 DEF Slots
    <3>. QED  BY <2>2, <2>5, <2>7, <2>8, <3>1 DEF IndInv, TypeOK, Log
  <2>10. HeadsAreRecords'
    BY <2>2, <2>7 DEF IndInv, HeadsAreRecords, Live, IsRecord, IndexEnd
  <2>11. NextHeadsAreRecords'
    <3>1. ASSUME NEW j \in Slots, nextheads'[j] # 0
          PROVE  nextheads'[j] \in Offsets /\ cell'[target][nextheads'[j]] \in Record /\ nextheads'[j] < cursor'
      <4>1. CASE j = i
        BY <2>5, <2>7, <2>8, <4>1
      <4>2. CASE j # i
        <5>1. nextheads[j] \in Offsets /\ cell[target][nextheads[j]] \in Record /\ nextheads[j] < cursor
          BY <1>2, <2>2, <2>8, <3>1, <4>2 DEF IndInv, NextHeadsAreRecords, Building, NextEnd, IsRecord
        <5>. QED  BY <1>1, <2>5, <2>7, <2>8, <4>2, <5>1
      <4>. QED  BY <4>1, <4>2
    <3>. QED  BY <1>2, <2>2, <3>1 DEF NextHeadsAreRecords, NextEnd, IsRecord
  <2>12. NothingLost'
    <3>1. ASSUME writer = Idle, NEW j \in Live, j < i + 1 PROVE nextheads'[j] # 0
      <4>1. j \in Slots /\ heads[j] # 0
        BY DEF Live
      <4>2. CASE j = i
        <5>1. cursor >= HEADER
          BY <2>2, <3>1 DEF IndInv, NothingLost
        <5>. QED  BY <1>1, <2>8, <4>1, <4>2, <5>1
      <4>3. CASE j # i
        <5>1. j \notin ToCopy
          BY <2>3, <3>1, <4>1, <4>3 DEF Slots
        <5>2. j < at
          BY <1>1, <3>1, <4>1, <5>1 DEF ToCopy, Slots
        <5>. QED  BY <2>2, <2>8, <3>1, <4>1, <4>3, <5>2 DEF IndInv, NothingLost
      <4>. QED  BY <4>2, <4>3
    <3>2. writer = Idle => cursor >= HEADER
      BY <2>2 DEF IndInv, NothingLost
    <3>. QED  BY <1>1, <2>1, <2>2, <2>5, <3>1, <3>2 DEF NothingLost, Live
  <2>13. DraftIsNext' /\ RotationIsAWrite'
    BY <1>1, <1>2, <2>2 DEF IndInv, DraftIsNext, RotationIsAWrite
  <2>14. RequestFitsBlock' /\ SourcesExist'
    BY <2>2, <2>7 DEF IndInv, RequestFitsBlock, SourcesExist, Compacting, Named, Live, Entry
  <2>15. RebuiltSideIsFree' /\ WriterOwnsChannel'
    BY <2>2 DEF IndInv, RebuiltSideIsFree, WriterOwnsChannel, Rebuilding
  <2>. QED  BY <2>9, <2>10, <2>11, <2>12, <2>13, <2>14, <2>15 DEF IndInv
<1>. QED  BY <1>3, <1>4

LEMMA MoveStep ==
    ASSUME IndInv, Move
    PROVE  IndInv'
<1>. DEFINE base == Programmed(cell[target], cursor + HEADER, Moved)
            log  == MovedTo(cell[target])
<1>0. pc = "move" /\ TypeOK /\ RebuiltSideIsFree
  BY DEF Move, IndInv
<1>1. /\ target # active /\ target \in Sides /\ active \in Sides /\ cell \in [Sides -> Log]
      /\ cursor \in Nat /\ partoff \in Nat /\ nextheads \in [Slots -> Nat] /\ HEADER \in Nat
      /\ data \in Seq(Values) /\ Len(data) \in Nat /\ cursor + HEADER \in Nat
  <2>. HIDE DEF base, log
  <2>1. target # active
    BY <1>0, OtherSide DEF Rebuilding
  <2>2. /\ target \in Sides /\ active \in Sides /\ cell \in [Sides -> Log]
        /\ cursor \in Nat /\ partoff \in Nat /\ nextheads \in [Slots -> Nat]
        /\ data \in Seq(Values)
    BY <1>0 DEF TypeOK, Log
  <2>3. HEADER \in Nat
    BY JournalAssumption
  <2>4. Len(data) \in Nat
    BY <2>2, LenProperties
  <2>. QED  BY <2>1, <2>2, <2>3, <2>4
<1>2. /\ writer # Idle /\ ~failed /\ ~rotating /\ job.op \in {"write", "open", "concat"} /\ pc = "move"
      /\ newname \in Names
  BY DEF Move, IndInv, RotationIsAWrite, RequestFitsBlock, Compacting, DraftIsNext
<1>3. log \in Log /\ \A p \in Offsets : p < cursor => log[p] = cell[target][p]
  <2>1. Moved \in Seq(Values)
    BY <1>1, StoredType DEF Moved
  <2>2. base \in Log /\ \A p \in Offsets : p < cursor + HEADER => base[p] = cell[target][p]
    BY <1>1, <2>1, ProgrammedType
  <2>3. Over(base[cursor], Tag) \in Cell
    BY CellType, OverType
  <2>4. \A p \in Offsets : p < cursor => p < cursor + HEADER /\ p # cursor
    BY <1>1 DEF Offsets
  <2>5. log = [base EXCEPT ![cursor] = Over(base[cursor], Tag)]
    BY DEF MovedTo
  <2>. HIDE DEF base, log
  <2>. QED  BY <2>2, <2>3, <2>4, <2>5 DEF Log
<1>4. /\ cell' = [cell EXCEPT ![target] = log] /\ sector' = sector
      /\ \/ GiveUp(25)
         \/ /\ rotating' = TRUE
            /\ writebase' = cursor
            /\ cursor' = cursor + HEADER + Len(data)
            /\ pc' = "payload"
            /\ ForgetLocals
            /\ UNCHANGED <<indexVars, writer, failed, wslot, newname, oldlen, target, data,
                           nextheads, channels, job, error>>
  BY <1>1 DEF Move
<1>. HIDE DEF log
<1>5. /\ cell' \in [Sides -> Log] /\ cell'[active] = cell[active]
      /\ \A p \in Offsets : p < cursor => cell'[target][p] = cell[target][p]
  BY <1>1, <1>3, <1>4
<1>6. CASE GiveUp(25)
  <2>1. Spares
    BY <1>2, <1>4, <1>5 DEF IndInv, TypeOK, SectorType, Spares, Log
  <2>. QED  BY <1>2, <1>6, <2>1, GiveUpStep DEF Errors
<1>7. CASE ~GiveUp(25)
  <2>1. /\ rotating' = TRUE /\ writebase' = cursor /\ cursor' = cursor + HEADER + Len(data)
        /\ pc' = "payload" /\ ForgetLocals
        /\ UNCHANGED <<indexVars, writer, failed, wslot, newname, oldlen, target, data, nextheads,
                       channels, job, error>>
    BY <1>4, <1>7
  <2>. USE <1>1, <1>2, <2>1 DEF indexVars, ForgetLocals
  <2>2. TypeOK'
    <3>1. cursor' \in Nat /\ writebase' \in Nat
      BY DEF TypeOK
    <3>2. at' \in Nat /\ partoff' \in Nat /\ retried' \in BOOLEAN /\ pc' \in Blocks /\ rotating' \in BOOLEAN
      BY DEF Blocks
    <3>. QED  BY <1>0, <1>4, <1>5, <3>1, <3>2 DEF TypeOK, Log
  <2>3. HeadsAreRecords'
    BY <1>5 DEF IndInv, HeadsAreRecords, Live, IsRecord, IndexEnd
  <2>4. NextHeadsAreRecords' /\ NothingLost'
    BY <1>5 DEF IndInv, NextHeadsAreRecords, NothingLost, IsRecord, NextEnd, Building
  <2>5. DraftIsNext' /\ RotationIsAWrite'
    BY DEF IndInv, DraftIsNext, RotationIsAWrite
  <2>6. RequestFitsBlock' /\ SourcesExist'
    BY <1>5 DEF IndInv, RequestFitsBlock, SourcesExist, Compacting, Named, Live, Entry
  <2>7. RebuiltSideIsFree' /\ WriterOwnsChannel'
    BY DEF IndInv, RebuiltSideIsFree, WriterOwnsChannel, Rebuilding
  <2>. QED  BY <2>2, <2>3, <2>4, <2>5, <2>6, <2>7 DEF IndInv
<1>. QED  BY <1>6, <1>7

LEMMA NextGenerationType ==
    ASSUME generation \in 0..(GENERATIONS - 1)
    PROVE  NextGeneration \in 0..(GENERATIONS - 1)
<1>1. GENERATIONS \in Nat /\ GENERATIONS > 0 /\ generation + 1 \in Int
  BY JournalAssumption
<1>. QED  BY <1>1 DEF NextGeneration

LEMMA SealStep ==
    ASSUME IndInv, Seal
    PROVE  IndInv'
<1>. USE DEF Seal, indexVars, draftVars, cursorVars, localVars
<1>1. TypeOK'
  <2>1. [state |-> "unsealed", base |-> cursor, gen |-> NextGeneration] \in SectorType
    BY NextGenerationType DEF SectorType, IndInv, TypeOK
  <2>2. sector' \in [Sides -> SectorType]
    BY <2>1 DEF IndInv, TypeOK, SectorType
  <2>. QED  BY <2>2 DEF IndInv, TypeOK, SectorType, Blocks
<1>2. HeadsAreRecords' /\ NextHeadsAreRecords' /\ NothingLost'
  BY DEF IndInv, HeadsAreRecords, NextHeadsAreRecords, NothingLost, Live, IsRecord, IndexEnd,
         NextEnd, Building
<1>3. DraftIsNext' /\ RotationIsAWrite'
  BY DEF IndInv, DraftIsNext, RotationIsAWrite
<1>4. RequestFitsBlock' /\ SourcesExist'
  BY DEF IndInv, RequestFitsBlock, SourcesExist, Compacting
<1>5. RebuiltSideIsFree' /\ WriterOwnsChannel'
  BY DEF IndInv, RebuiltSideIsFree, WriterOwnsChannel, Rebuilding
<1>. QED  BY <1>1, <1>2, <1>3, <1>4, <1>5 DEF IndInv

LEMMA ActivateStep ==
    ASSUME IndInv, Activate
    PROVE  IndInv'
<1>1. /\ pc = "activate"
      /\ sector' = [sector EXCEPT ![target].state = "sealed"] /\ cell' = cell
      /\ active' = target /\ generation' = NextGeneration /\ dirty' = FALSE /\ mounted' = mounted
      /\ heads' = nextheads /\ tail' = cursor /\ Totals(target, nextheads)
      /\ Forget /\ Release /\ ForgetLocals
      /\ \/ pc' = "idle" /\ job' = NoJob /\ error' = 0
         \/ /\ pc' = "tag" /\ writer = Idle /\ job.op # "compact"
            /\ UNCHANGED <<job, error>>
  BY DEF Activate, Publish, Reply
<1>2. /\ \A i \in Slots : nextheads[i] # 0 => IsRecord(target, nextheads[i]) /\ nextheads[i] < cursor
      /\ nextheads \in [Slots -> Nat] /\ cursor \in Nat
  BY <1>1 DEF IndInv, TypeOK, NextHeadsAreRecords, Building, NextEnd
<1>3. TypeOK'
  <2>1. count' \in Nat /\ livebytes' \in Nat
    BY <1>1, <1>2, TotalsType
  <2>2. sector' \in [Sides -> SectorType]
    <3>1. sector \in [Sides -> SectorType] /\ sector[target] \in SectorType
      BY DEF IndInv, TypeOK, SectorType
    <3>2. [sector[target] EXCEPT !.state = "sealed"] \in SectorType
      BY <3>1 DEF SectorType
    <3>. QED  BY <1>1, <3>1, <3>2
  <2>3. generation' \in 0..(GENERATIONS - 1)
    BY <1>1, NextGenerationType DEF IndInv, TypeOK
  <2>4. channels' \in [Channels -> ChannelType]
    BY <1>1, ReleaseType DEF IndInv, TypeOK, ChannelType
  <2>5. DraftType'
    BY <1>1, ForgetType
  <2>6. pc' \in Blocks /\ job' \in Jobs /\ error' \in Errors
    BY <1>1 DEF IndInv, TypeOK, Blocks, Jobs, NoJob, Errors
  <2>. QED
    BY <1>1, <1>2, <2>1, <2>2, <2>3, <2>4, <2>5, <2>6
    DEF IndInv, TypeOK, DraftType, ChannelType, SectorType, ForgetLocals
<1>4. HeadsAreRecords'
  BY <1>1, <1>2 DEF HeadsAreRecords, Live, IsRecord, IndexEnd
<1>5. NextHeadsAreRecords' /\ NothingLost' /\ DraftIsNext' /\ RotationIsAWrite' /\ RebuiltSideIsFree'
  BY <1>1 DEF Forget, NextHeadsAreRecords, NothingLost, Building, DraftIsNext, RotationIsAWrite,
              RebuiltSideIsFree, Rebuilding
<1>6. RequestFitsBlock' /\ SourcesExist'
  <2>1. pc' = "tag" => job.op \in {"open", "concat", "scratch", "metadata"} /\ job' = job
    BY <1>1 DEF IndInv, RequestFitsBlock
  <2>2. pc' = "tag" /\ job.op \in {"scratch", "metadata"} => heads'[job.slot] # 0
    <3>1. job.op \in {"scratch", "metadata"} => job.slot \in Slots /\ heads[job.slot] # 0
      BY <1>1, JobType DEF IndInv, TypeOK, SourcesExist
    <3>. QED  BY <1>1, <3>1 DEF IndInv, NothingLost, Live
  <2>. QED
    BY <1>1, <2>1, <2>2 DEF IndInv, RequestFitsBlock, SourcesExist, Compacting, Forget, NoJob
<1>7. WriterOwnsChannel'
  BY <1>1, JournalAssumption DEF IndInv, WriterOwnsChannel, Forget, Release, Closed
<1>. QED  BY <1>3, <1>4, <1>5, <1>6, <1>7 DEF IndInv

LEMMA CompactFailsStep ==
    ASSUME IndInv, CompactFails
    PROVE  IndInv'
<1>1. Spares
  BY DEF CompactFails, flashVars, IndInv, TypeOK, SectorType, Spares
<1>. QED  BY <1>1, GiveUpStep DEF CompactFails, Errors

(* Without power there is nothing but the flash. *)
LEMMA PowerLossStep ==
    ASSUME IndInv, PowerLoss
    PROVE  IndInv'
<1>1. cell' \in [Sides -> Log] /\ sector' \in [Sides -> SectorType]
  <2>1. cell \in [Sides -> Log] /\ sector \in [Sides -> SectorType]
    BY DEF IndInv, TypeOK, Log, SectorType
  <2>2. CASE pc = "erase"
    BY <2>2, HalfErasedType DEF PowerLoss, IndInv
  <2>3. CASE pc # "erase"
    BY <2>1, <2>3 DEF PowerLoss, flashVars
  <2>. QED  BY <2>2, <2>3
<1>2. /\ pc' = "off" /\ job' = NoJob /\ error' = 0 /\ NoIndex /\ Forget /\ ForgetLocals
      /\ channels' = [f \in Channels |-> Closed]
  BY DEF PowerLoss
<1>3. TypeOK'
  <2>1. DraftType'
    BY <1>2, ForgetType
  <2>2. channels' \in [Channels -> ChannelType]
    BY <1>2, ClosedType
  <2>3. 0 \in 0..(GENERATIONS - 1) /\ NoHeads \in [Slots -> Nat]
    BY JournalAssumption DEF NoHeads
  <2>. QED
    BY <1>1, <1>2, <2>1, <2>2, <2>3
    DEF TypeOK, DraftType, ChannelType, SectorType, Log, NoIndex, ForgetLocals, NoJob, Jobs, Blocks,
        Errors, Sides
<1>4. HeadsAreRecords' /\ NextHeadsAreRecords' /\ NothingLost' /\ DraftIsNext' /\ RotationIsAWrite'
        /\ RebuiltSideIsFree'
  BY <1>2 DEF Forget, HeadsAreRecords, NextHeadsAreRecords, NothingLost, Building, DraftIsNext,
              RotationIsAWrite, RebuiltSideIsFree, Rebuilding
<1>5. RequestFitsBlock' /\ SourcesExist'
  BY <1>2 DEF Forget, NoJob, RequestFitsBlock, SourcesExist, Compacting
<1>6. WriterOwnsChannel'
  BY <1>2, JournalAssumption DEF Forget, WriterOwnsChannel, Closed
<1>. QED  BY <1>3, <1>4, <1>5, <1>6 DEF IndInv

LEMMA DecayStep ==
    ASSUME IndInv, Decay
    PROVE  IndInv'
<1>. USE DEF indexVars, draftVars, cursorVars, localVars
<1>1. /\ pc = "off" /\ \E s \in Sides, o \in Offsets : cell' = [cell EXCEPT ![s][o] = Junk]
      /\ UNCHANGED <<sector, indexVars, draftVars, cursorVars, channels, pc, job, error, localVars>>
  BY DEF Decay
<1>2. cell' \in [Sides -> Log]
  <2>1. PICK s \in Sides, o \in Offsets : cell' = [cell EXCEPT ![s][o] = Junk]
    BY <1>1
  <2>2. cell \in [Sides -> Log] /\ Junk \in Cell
    BY CellType DEF IndInv, TypeOK, Log
  <2>. QED  BY <2>1, <2>2 DEF Log
<1>3. TypeOK'
  BY <1>1, <1>2 DEF IndInv, TypeOK, Log
<1>4. HeadsAreRecords' /\ NextHeadsAreRecords' /\ NothingLost' /\ DraftIsNext' /\ RotationIsAWrite'
        /\ RebuiltSideIsFree' /\ WriterOwnsChannel'
  BY <1>1 DEF IndInv, HeadsAreRecords, NextHeadsAreRecords, NothingLost, Building, DraftIsNext,
              RotationIsAWrite, RebuiltSideIsFree, Rebuilding, WriterOwnsChannel
<1>5. RequestFitsBlock' /\ SourcesExist'
  BY <1>1 DEF IndInv, RequestFitsBlock, SourcesExist, Compacting, DraftIsNext
<1>. QED  BY <1>3, <1>4, <1>5 DEF IndInv

(* The blocks of mount() run with no draft and no side being rebuilt. *)
Mounting == pc \in {"off", "scan", "condemned"}

LEMMA MountingType ==
    ASSUME IndInv, Mounting
    PROVE  writer = Idle /\ ~rotating
BY DEF Mounting, IndInv, DraftIsNext, RotationIsAWrite

LEMMA NoFilesystemStep ==
    ASSUME IndInv, Mounting, NoFilesystem, UNCHANGED flashVars
    PROVE  IndInv'
<1>. USE MountingType DEF NoFilesystem, NoIndex, ForgetLocals, draftVars, cursorVars, flashVars, NoJob
<1>1. TypeOK'
  <2>1. 0 \in 0..(GENERATIONS - 1) /\ NoHeads \in [Slots -> Nat]
    BY JournalAssumption DEF NoHeads
  <2>. QED  BY <2>1 DEF IndInv, TypeOK, Jobs, Blocks, Errors, Sides
<1>2. HeadsAreRecords' /\ NextHeadsAreRecords' /\ NothingLost' /\ DraftIsNext' /\ RotationIsAWrite'
        /\ RebuiltSideIsFree' /\ WriterOwnsChannel'
  BY JournalAssumption
  DEF IndInv, HeadsAreRecords, NextHeadsAreRecords, NothingLost, Building, DraftIsNext,
      RotationIsAWrite, RebuiltSideIsFree, Rebuilding, WriterOwnsChannel
<1>3. RequestFitsBlock' /\ SourcesExist'
  BY DEF RequestFitsBlock, SourcesExist, Compacting
<1>. QED  BY <1>1, <1>2, <1>3 DEF IndInv

LEMMA ScanFromStep ==
    ASSUME IndInv, Mounting, NEW s \in Sides, ScanFrom(s), retried' \in BOOLEAN, error' \in Errors,
           UNCHANGED <<flashVars, mounted, generation, count, livebytes, tail, draftVars, cursorVars,
                       channels, job, partoff>>
    PROVE  IndInv'
<1>. USE MountingType DEF ScanFrom, draftVars, cursorVars, flashVars
<1>1. TypeOK'
  <2>1. HEADER \in Nat /\ NoHeads \in [Slots -> Nat]
    BY JournalAssumption DEF NoHeads
  <2>. QED  BY <2>1 DEF IndInv, TypeOK, Blocks
<1>2. HeadsAreRecords' /\ NextHeadsAreRecords' /\ NothingLost' /\ DraftIsNext' /\ RotationIsAWrite'
        /\ RebuiltSideIsFree' /\ WriterOwnsChannel'
  BY JournalAssumption
  DEF IndInv, HeadsAreRecords, NextHeadsAreRecords, NothingLost, Building, DraftIsNext,
      RotationIsAWrite, RebuiltSideIsFree, Rebuilding, WriterOwnsChannel, Live, NoHeads
<1>3. RequestFitsBlock' /\ SourcesExist'
  BY DEF IndInv, Mounting, NoJob, RequestFitsBlock, SourcesExist, Compacting
<1>. QED  BY <1>1, <1>2, <1>3 DEF IndInv

LEMMA MountStep ==
    ASSUME IndInv, Mount
    PROVE  IndInv'
<1>1. Mounting
  BY DEF Mount, Mounting
<1>2. CASE /\ ScanFrom(Chosen) /\ error' = 0 /\ retried' = FALSE
           /\ UNCHANGED <<flashVars, mounted, generation, count, livebytes, tail, draftVars,
                          cursorVars, channels, job, partoff>>
  <2>1. Chosen \in Sides
    BY DEF Chosen, Sides
  <2>. QED  BY <1>1, <1>2, <2>1, ScanFromStep DEF Errors
<1>3. CASE NoFilesystem /\ UNCHANGED flashVars
  BY <1>1, <1>3, NoFilesystemStep
<1>. QED  BY <1>2, <1>3 DEF Mount

LEMMA ScanRecordStep ==
    ASSUME IndInv, ScanRecord
    PROVE  IndInv'
<1>. DEFINE r == cell[active][at]
<1>1. /\ pc = "scan" /\ at' = at + r.span /\ pc' \in {"condemned", "scan"}
      /\ heads' = [i \in Slots |-> IF i = r.slot THEN (IF r.kind = 3 THEN 0 ELSE at)
                                   ELSE IF i = r.drop THEN 0 ELSE heads[i]]
      /\ UNCHANGED <<flashVars, mounted, active, generation, count, livebytes, tail, dirty,
                     draftVars, cursorVars, channels, job, error, partoff, retried>>
  BY DEF ScanRecord
<1>2. r.k = "rec" /\ r.span >= HEADER /\ at <= LIMIT - HEADER
  BY DEF ScanRecord, MoreToScan, Valid
<1>3. HEADER \in Nat \ {0} /\ LIMIT \in Nat /\ at \in Nat
  BY JournalAssumption DEF IndInv, TypeOK
<1>4. at \in Offsets
  BY <1>2, <1>3 DEF Offsets
<1>5. r \in Record
  <2>1. r \in Cell
    BY <1>4 DEF IndInv, TypeOK
  <2>. QED  BY <1>2, <2>1 DEF Cell
<1>6. r.span \in Nat
  BY <1>5, RecordType
<1>7. at' \in Nat /\ at < at'
  BY <1>1, <1>2, <1>3, <1>6
<1>. HIDE DEF r
<1>8. Mounting
  BY <1>1 DEF Mounting
<1>. USE MountingType, <1>8 DEF draftVars, cursorVars, flashVars
<1>9. TypeOK'
  <2>1. heads' \in [Slots -> Nat]
    BY <1>1, <1>3 DEF IndInv, TypeOK
  <2>. QED  BY <1>1, <1>7, <2>1 DEF IndInv, TypeOK, Blocks
<1>10. HeadsAreRecords'
  <2>1. ASSUME NEW i \in Slots, heads'[i] # 0, pc' = "scan"
        PROVE  IsRecord(active, heads'[i]) /\ heads'[i] < at'
    <3>1. CASE heads'[i] = at
      BY <1>4, <1>5, <1>7, <3>1 DEF IsRecord, r
    <3>2. CASE heads'[i] = heads[i]
      <4>1. IsRecord(active, heads[i]) /\ heads[i] < at
        BY <1>1, <2>1, <3>2 DEF IndInv, HeadsAreRecords, Live, IndexEnd
      <4>2. heads[i] \in Nat
        BY DEF IndInv, TypeOK
      <4>. QED  BY <1>3, <1>7, <3>2, <4>1, <4>2
    <3>. QED  BY <1>1, <2>1, <3>1, <3>2
  <2>. QED  BY <1>1, <2>1 DEF HeadsAreRecords, IsRecord, Live, IndexEnd
<1>11. NextHeadsAreRecords' /\ NothingLost' /\ DraftIsNext' /\ RotationIsAWrite'
         /\ RebuiltSideIsFree' /\ WriterOwnsChannel'
  BY <1>1 DEF IndInv, NextHeadsAreRecords, NothingLost, Building, DraftIsNext,
              RotationIsAWrite, RebuiltSideIsFree, Rebuilding, WriterOwnsChannel
<1>12. RequestFitsBlock' /\ SourcesExist'
  BY <1>1 DEF IndInv, NoJob, RequestFitsBlock, SourcesExist, Compacting
<1>. QED  BY <1>9, <1>10, <1>11, <1>12 DEF IndInv

LEMMA ScanEndsStep ==
    ASSUME IndInv, ScanEnds
    PROVE  IndInv'
<1>. USE DEF draftVars, cursorVars, flashVars
<1>1. /\ pc = "scan" /\ dirty' = MoreToScan /\ tail' = at
      /\ \/ pc' = "condemned" /\ UNCHANGED <<mounted, generation, count, livebytes, at, retried>>
         \/ /\ pc' = "idle" /\ mounted' = TRUE /\ generation' = sector[active].gen
            /\ Totals(active, heads) /\ at' = 0 /\ retried' = FALSE
      /\ UNCHANGED <<flashVars, active, heads, draftVars, cursorVars, channels, job, error, partoff>>
  BY DEF ScanEnds
<1>2. Mounting
  BY <1>1 DEF Mounting
<1>. USE MountingType, <1>2
<1>3. TypeOK'
  <2>1. Totals(active, heads) => count' \in Nat /\ livebytes' \in Nat
    <3>1. heads \in [Slots -> Nat]
      BY DEF IndInv, TypeOK
    <3>2. \A i \in Slots : heads[i] # 0 => IsRecord(active, heads[i])
      BY <1>1 DEF IndInv, HeadsAreRecords, Live
    <3>. QED  BY <3>1, <3>2, TotalsType
  <2>2. sector[active].gen \in 0..(GENERATIONS - 1)
    <3>1. sector \in [Sides -> SectorType] /\ active \in Sides
      BY DEF IndInv, TypeOK, SectorType
    <3>. QED  BY <3>1 DEF SectorType
  <2>3. dirty' \in BOOLEAN
    BY <1>1 DEF MoreToScan
  <2>4. /\ mounted' \in BOOLEAN /\ generation' \in 0..(GENERATIONS - 1) /\ count' \in Nat
        /\ livebytes' \in Nat /\ at' \in Nat /\ retried' \in BOOLEAN /\ pc' \in Blocks
    <3>1. CASE pc' = "condemned"
      <4>1. UNCHANGED <<mounted, generation, count, livebytes, at, retried>>
        BY <1>1, <3>1
      <4>. QED  BY <3>1, <4>1 DEF IndInv, TypeOK, Blocks
    <3>2. CASE pc' = "idle"
      <4>1. /\ mounted' = TRUE /\ generation' = sector[active].gen
            /\ Totals(active, heads) /\ at' = 0 /\ retried' = FALSE
        BY <1>1, <3>2
      <4>. QED  BY <2>1, <2>2, <3>2, <4>1 DEF Blocks
    <3>. QED  BY <1>1, <3>1, <3>2
  <2>. QED  BY <1>1, <2>3, <2>4 DEF IndInv, TypeOK
<1>4. HeadsAreRecords'
  BY <1>1 DEF IndInv, HeadsAreRecords, IsRecord, Live, IndexEnd
<1>5. NextHeadsAreRecords' /\ NothingLost' /\ DraftIsNext' /\ RotationIsAWrite'
        /\ RebuiltSideIsFree' /\ WriterOwnsChannel'
  BY <1>1 DEF IndInv, NextHeadsAreRecords, NothingLost, Building, DraftIsNext,
              RotationIsAWrite, RebuiltSideIsFree, Rebuilding, WriterOwnsChannel
<1>6. RequestFitsBlock' /\ SourcesExist'
  BY <1>1 DEF IndInv, NoJob, RequestFitsBlock, SourcesExist, Compacting
<1>. QED  BY <1>3, <1>4, <1>5, <1>6 DEF IndInv

LEMMA FallBackStep ==
    ASSUME IndInv, FallBack
    PROVE  IndInv'
<1>1. Mounting
  BY DEF FallBack, Mounting
<1>2. CASE /\ ScanFrom(1 - active) /\ retried' = TRUE
           /\ UNCHANGED <<flashVars, mounted, generation, count, livebytes, tail, draftVars,
                          cursorVars, channels, job, error, partoff>>
  <2>1. 1 - active \in Sides /\ error \in Errors
    BY DEF IndInv, TypeOK, Sides
  <2>. QED  BY <1>1, <1>2, <2>1, ScanFromStep
<1>3. CASE NoFilesystem /\ UNCHANGED flashVars
  BY <1>1, <1>3, NoFilesystemStep
<1>. QED  BY <1>2, <1>3 DEF FallBack

LEMMA InitInv == Init => IndInv
<1>. SUFFICES ASSUME Init PROVE IndInv
  OBVIOUS
<1>1. TypeOK
  <2>1. /\ sector \in [Sides -> SectorType] /\ cell \in [Sides -> Log]
        /\ channels \in [Channels -> ChannelType]
    <3>1. NoSector \in SectorType /\ [state |-> "sealed", gen |-> 0, base |-> HEADER] \in SectorType
      BY JournalAssumption DEF NoSector, SectorType
    <3>. QED  BY <3>1, BlankLogType, ClosedType DEF Init
  <2>2. 0 \in 0..(GENERATIONS - 1) /\ NoHeads \in [Slots -> Nat] /\ <<>> \in Seq(Values)
          /\ 0 \in Slots
    BY JournalAssumption, EmptySeq DEF NoHeads, Slots
  <2>. QED
    BY <2>1, <2>2
    DEF Init, TypeOK, SectorType, Log, ChannelType, NoJob, Jobs, Blocks, Errors, Sides
<1>2. HeadsAreRecords /\ NextHeadsAreRecords /\ NothingLost /\ DraftIsNext /\ RotationIsAWrite
        /\ RebuiltSideIsFree
  BY DEF Init, HeadsAreRecords, NextHeadsAreRecords, NothingLost, Building, DraftIsNext,
         RotationIsAWrite, RebuiltSideIsFree, Rebuilding
<1>3. RequestFitsBlock /\ SourcesExist
  BY DEF Init, NoJob, RequestFitsBlock, SourcesExist, Compacting
<1>4. WriterOwnsChannel
  BY JournalAssumption DEF Init, WriterOwnsChannel, Closed
<1>. QED  BY <1>1, <1>2, <1>3, <1>4 DEF IndInv

LEMMA StutterStep ==
    ASSUME IndInv, UNCHANGED vars
    PROVE  IndInv'
<1>. USE DEF vars, flashVars, indexVars, draftVars, cursorVars, localVars
<1>1. TypeOK'
  BY DEF IndInv, TypeOK
<1>2. HeadsAreRecords' /\ NextHeadsAreRecords' /\ NothingLost' /\ DraftIsNext' /\ RotationIsAWrite'
        /\ RebuiltSideIsFree' /\ WriterOwnsChannel'
  BY DEF IndInv, HeadsAreRecords, NextHeadsAreRecords, NothingLost, Building, DraftIsNext, IsRecord,
         Live, IndexEnd, NextEnd, RotationIsAWrite, RebuiltSideIsFree, Rebuilding, WriterOwnsChannel
<1>3. RequestFitsBlock' /\ SourcesExist'
  BY DEF IndInv, NoJob, RequestFitsBlock, SourcesExist, Compacting, IsRecord, Named, Live, Entry
<1>. QED  BY <1>1, <1>2, <1>3 DEF IndInv

LEMMA RequestStep ==
    ASSUME IndInv, Request
    PROVE  IndInv'
<1>1. CASE \E f \in Channels, n \in Names, append \in BOOLEAN : OpenWrite(f, n, append)
  BY <1>1, OpenWriteStep
<1>2. CASE \E n \in Names, m \in Names : Concat(n, <<m>>)
  <2>1. PICK n \in Names, m \in Names : Concat(n, <<m>>)
    BY <1>2
  <2>2. <<m>> \in Seq(Names) /\ <<m>> # <<>>
    OBVIOUS
  <2>. QED  BY <2>1, <2>2, ConcatStep
<1>3. CASE \E n \in Names, m \in Names, l \in Names : Concat(n, <<m, l>>)
  <2>1. PICK n \in Names, m \in Names, l \in Names : Concat(n, <<m, l>>)
    BY <1>3
  <2>2. <<m, l>> \in Seq(Names) /\ <<m, l>> # <<>>
    OBVIOUS
  <2>. QED  BY <2>1, <2>2, ConcatStep
<1>4. CASE \E names \in SUBSET Names : Scratch(names)
  BY <1>4, ScratchStep
<1>5. CASE \E new \in Names, old \in Names : Rename(new, old)
  BY <1>5, RenameStep
<1>6. CASE \E n \in Names, flag \in BOOLEAN : Attribute(n, flag)
  BY <1>6, AttributeStep
<1>7. CASE Compact
  BY <1>7, CompactStep
<1>8. CASE \E f \in Channels, bytes \in Chunks : Write(f, bytes)
  BY <1>8, WriteStep
<1>9. CASE \E f \in Channels : Close(f)
  BY <1>9, CloseStep
<1>10. CASE \E f \in Channels : Abort(f)
  BY <1>10, AbortStep
<1>11. CASE \E f \in Channels, n \in Names : OpenRead(f, n)
  BY <1>11, OpenReadStep
<1>12. CASE \E f \in Channels : Read(f, 1)
  BY <1>12, ReadStep
<1>13. CASE \E f \in Listers : ListFiles(f) \/ NextEntry(f)
  BY <1>13, ListStep
<1>. QED
  BY <1>1, <1>2, <1>3, <1>4, <1>5, <1>6, <1>7, <1>8, <1>9, <1>10, <1>11, <1>12, <1>13 DEF Request

(* IndInv is inductive in a log that has not overflowed.                   *)
LEMMA NextInv ==
    ASSUME IndInv, CursorInSector, CursorInSector', [Next]_vars
    PROVE  IndInv'
<1>1. CASE Request
  BY <1>1, RequestStep
<1>2. CASE Continue
  BY <1>2, ScratchNextStep, TagRecordStep, ReserveStep, PayloadStep, FieldsStep, CommitStep,
     CompactBeginStep, EraseStep, CopyNextStep, MoveStep, SealStep, ActivateStep, ScanRecordStep,
     ScanEndsStep, FallBackStep
  DEF Continue
<1>3. CASE Failure
  BY <1>3, TagFailsStep, PayloadFailsStep, RecordFailsStep, EraseFailsStep, CompactFailsStep
  DEF Failure
<1>4. CASE Mount \/ PowerLoss \/ Decay
  BY <1>4, MountStep, PowerLossStep, DecayStep
<1>5. CASE UNCHANGED vars
  BY <1>5, StutterStep
<1>. QED  BY <1>1, <1>2, <1>3, <1>4, <1>5 DEF Next

-----------------------------------------------------------------------------
(***************************************************************************)
(* The journal's control.  What follows holds whatever is on flash: it     *)
(* assumes nothing about the space in a sector, and covers failed and      *)
(* interrupted flash operations, losses of power and decay.                *)
(***************************************************************************)

(* A channel is a record and a request has a name; their fields may hold   *)
(* anything.                                                               *)
ControlType ==
    /\ active \in Sides
    /\ rotating \in BOOLEAN
    /\ DOMAIN channels = Channels /\ channels = [f \in Channels |-> channels[f]]
    /\ \A f \in Channels : DOMAIN channels[f] = {"kind", "side", "off", "len", "pos"}
    /\ job = [i \in DOMAIN job |-> job[i]] /\ "op" \in DOMAIN job
    /\ job.op = "open" => job.f \in Channels

(* Which blocks run with a record under construction, and which while that *)
(* record waits on a side of its own.                                      *)
DraftFitsBlock == writer # Idle => pc \notin {"off", "scan", "condemned", "scratch", "tag"}
RotationFitsBlock == rotating => writer # Idle /\ pc \notin {"erase", "copy", "move"}
MoveNeedsDraft == pc = "move" => writer # Idle

ControlInv ==
    /\ ControlType
    /\ DraftFitsBlock /\ RotationFitsBlock /\ MoveNeedsDraft
    /\ RebuiltSideIsFree
    /\ WriterOwnsChannel

LEMMA ControlInit == Init => ControlInv
<1>. SUFFICES ASSUME Init PROVE ControlInv
  OBVIOUS
<1>. USE DEF Init
<1>1. ControlType
  <2>1. DOMAIN Closed = {"kind", "side", "off", "len", "pos"}
    BY DEF Closed
  <2>2. job = [i \in DOMAIN job |-> job[i]] /\ "op" \in DOMAIN job /\ job.op # "open"
    BY DEF NoJob
  <2>. QED  BY <2>1, <2>2 DEF ControlType, Sides
<1>2. DraftFitsBlock /\ RotationFitsBlock /\ MoveNeedsDraft /\ RebuiltSideIsFree
  BY DEF DraftFitsBlock, RotationFitsBlock, MoveNeedsDraft, RebuiltSideIsFree, Rebuilding
<1>3. WriterOwnsChannel
  BY JournalAssumption DEF WriterOwnsChannel, Closed
<1>. QED  BY <1>1, <1>2, <1>3 DEF ControlInv

(* A step that only moves from one block to the next. *)
JobIsSound ==
    /\ job = [i \in DOMAIN job |-> job[i]] /\ "op" \in DOMAIN job
    /\ job.op = "open" => job.f \in Channels

LEMMA Onward ==
    ASSUME ControlInv, UNCHANGED <<active, target, writer, rotating, channels>>, JobIsSound',
           pc = "idle" => pc' = "idle" \/ \A f \in Channels : writer = f => channels[f].kind = 2,
           writer # Idle => pc' \notin {"off", "scan", "condemned", "scratch", "tag"},
           rotating => pc' \notin {"erase", "copy", "move"},
           pc' = "move" => writer # Idle,
           pc' \in {"erase", "copy", "move", "seal", "activate"} => Rebuilding
    PROVE  ControlInv'
<1>1. ControlType'
  BY DEF ControlInv, ControlType, JobIsSound
<1>2. DraftFitsBlock' /\ RotationFitsBlock' /\ MoveNeedsDraft'
  BY DEF ControlInv, DraftFitsBlock, RotationFitsBlock, MoveNeedsDraft
<1>3. RebuiltSideIsFree' /\ WriterOwnsChannel'
  BY DEF ControlInv, RebuiltSideIsFree, Rebuilding, WriterOwnsChannel
<1>. QED  BY <1>1, <1>2, <1>3 DEF ControlInv

LEMMA NoJobIsSound == job' = NoJob => JobIsSound'
BY DEF NoJob, JobIsSound

LEMMA SameJob == ControlInv /\ UNCHANGED job => JobIsSound'
BY DEF ControlInv, ControlType, JobIsSound

LEMMA RefuseKeeps ==
    ASSUME ControlInv, NEW e, Refuse(e)
    PROVE  ControlInv'
BY Onward, NoJobIsSound DEF Refuse, Reply, indexVars, draftVars, cursorVars

LEMMA PrepareKeeps ==
    ASSUME ControlInv, NEW j, Prepare(j), j = [i \in DOMAIN j |-> j[i]], "op" \in DOMAIN j,
           j.op = "open" => j.f \in Channels
    PROVE  ControlInv'
<1>1. CASE writer # Idle
  BY <1>1, RefuseKeeps DEF Prepare
<1>2. CASE writer = Idle
  <2>1. /\ rotating' = FALSE /\ pc' \in {"compact", "tag"} /\ job' = j
        /\ UNCHANGED <<active, target, writer, channels>>
    BY <1>2 DEF Prepare, indexVars, cursorVars
  <2>2. rotating = FALSE
    BY <1>2 DEF ControlInv, ControlType, RotationFitsBlock
  <2>. QED  BY <1>2, <2>1, <2>2, Onward, JournalAssumption DEF JobIsSound
<1>. QED  BY <1>1, <1>2

(***************************************************************************)
(* Requests.                                                               *)
(***************************************************************************)

LEMMA StartWriteKeeps ==
    ASSUME ControlInv, NEW n, NEW j, StartWrite(n, j), j = [i \in DOMAIN j |-> j[i]],
           "op" \in DOMAIN j, j.op = "open" => "f" \in DOMAIN j /\ j.f \in Channels
    PROVE  ControlInv'
<1>1. CASE Refuse(72)
  BY <1>1, RefuseKeeps
<1>2. ASSUME NEW i \in Slots, Prepare([j EXCEPT !.slot = i])
      PROVE  ControlInv'
  <2>. DEFINE k == [j EXCEPT !.slot = i]
  <2>1. k = [x \in DOMAIN k |-> k[x]] /\ "op" \in DOMAIN k /\ (k.op = "open" => k.f \in Channels)
    OBVIOUS
  <2>. HIDE DEF k
  <2>. QED  BY <1>2, <2>1, PrepareKeeps DEF k
<1>. QED  BY <1>1, <1>2 DEF StartWrite

LEMMA OpenWriteKeeps ==
    ASSUME ControlInv, NEW n, NEW f \in Channels, NEW append, OpenWrite(f, n, append)
    PROVE  ControlInv'
<1>1. CASE \E e \in Nat : Refuse(e)
  BY <1>1, RefuseKeeps
<1>2. CASE StartWrite(n, [op |-> "open", slot |-> 0, name |-> n, f |-> f, append |-> append])
  BY <1>2, StartWriteKeeps
<1>. QED  BY <1>1, <1>2 DEF OpenWrite

LEMMA ConcatKeeps ==
    ASSUME ControlInv, NEW n, NEW sources, Concat(n, sources)
    PROVE  ControlInv'
<1>1. CASE Refuse(26)
  BY <1>1, RefuseKeeps
<1>2. CASE StartWrite(n, [op |-> "concat", slot |-> 0, name |-> n, srcs |-> sources])
  BY <1>2, StartWriteKeeps
<1>. QED  BY <1>1, <1>2 DEF Concat

LEMMA MetadataRequestsKeep ==
    ASSUME ControlInv, NEW names, NEW new, NEW old, NEW flag,
           Scratch(names) \/ ScratchNext \/ Rename(new, old) \/ Attribute(old, flag)
    PROVE  ControlInv'
<1>1. CASE \E e \in Nat : Refuse(e)
  BY <1>1, RefuseKeeps
<1>2. ASSUME NEW i, Prepare([op |-> "scratch", slot |-> i, names |-> names])
      PROVE  ControlInv'
  BY <1>2, PrepareKeeps
<1>3. ASSUME NEW i, Prepare([job EXCEPT !.slot = i])
      PROVE  ControlInv'
  <2>. DEFINE k == [job EXCEPT !.slot = i]
  <2>1. k = [x \in DOMAIN k |-> k[x]] /\ "op" \in DOMAIN k /\ (k.op = "open" => k.f \in Channels)
    BY DEF ControlInv, ControlType
  <2>. HIDE DEF k
  <2>. QED  BY <1>3, <2>1, PrepareKeeps DEF k
<1>4. ASSUME NEW i, NEW d, NEW n, NEW ro,
             Prepare([op |-> "metadata", slot |-> i, drop |-> d, name |-> n, ro |-> ro])
      PROVE  ControlInv'
  BY <1>4, PrepareKeeps
<1>5. CASE Scratch(names)
  BY <1>1, <1>2, <1>5 DEF Scratch
<1>6. CASE ScratchNext
  BY <1>1, <1>3, <1>6 DEF ScratchNext
<1>7. CASE Rename(new, old)
  BY <1>1, <1>4, <1>7 DEF Rename
<1>8. CASE Attribute(old, flag)
  BY <1>1, <1>4, <1>8 DEF Attribute
<1>. QED  BY <1>5, <1>6, <1>7, <1>8

LEMMA CompactWriteKeep ==
    ASSUME ControlInv, Compact \/ \E f, bytes : Write(f, bytes)
    PROVE  ControlInv'
<1>1. CASE \E e \in Nat : Refuse(e)
  BY <1>1, RefuseKeeps
<1>2. CASE /\ writer = Idle /\ pc' = "compact" /\ job' = [op |-> "compact"] /\ rotating' = FALSE
           /\ UNCHANGED <<active, target, writer, channels>>
  <2>1. rotating = FALSE
    BY <1>2 DEF ControlInv, ControlType, RotationFitsBlock
  <2>2. JobIsSound'
    BY <1>2 DEF JobIsSound
  <2>. QED  BY <1>2, <2>1, <2>2, Onward, JournalAssumption
<1>3. CASE /\ pc' = "reserve" /\ \E bytes : job' = [op |-> "write", bytes |-> bytes]
           /\ UNCHANGED <<active, target, writer, rotating, channels>>
           /\ \E f : channels[f].kind = 2 /\ writer = f
  <2>1. JobIsSound'
    BY <1>3 DEF JobIsSound
  <2>. QED  BY <1>3, <2>1, Onward
<1>. QED
  BY <1>1, <1>2, <1>3 DEF Compact, Write, indexVars, draftVars, cursorVars

(* A step that leaves no record under construction. *)
LEMMA Settled ==
    ASSUME ControlInv, Forget, JobIsSound', active' \in Sides,
           DOMAIN channels' = Channels /\ channels' = [f \in Channels |-> channels'[f]],
           \A f \in Channels : channels'[f] \in {channels[f], Closed},
           \A f \in Channels : writer = f => channels'[f] = Closed,
           pc' \notin {"erase", "copy", "move", "seal", "activate"}
    PROVE  ControlInv'
<1>. USE DEF Forget
<1>1. ControlType'
  <2>1. DOMAIN Closed = {"kind", "side", "off", "len", "pos"}
    BY DEF Closed
  <2>. QED  BY <2>1 DEF ControlInv, ControlType, JobIsSound
<1>2. DraftFitsBlock' /\ RotationFitsBlock' /\ MoveNeedsDraft' /\ RebuiltSideIsFree'
  BY DEF DraftFitsBlock, RotationFitsBlock, MoveNeedsDraft, RebuiltSideIsFree, Rebuilding
<1>3. \A f \in Channels : channels'[f].kind = 2 => writer = f /\ channels'[f] # Closed
  BY DEF ControlInv, WriterOwnsChannel, Closed
<1>4. WriterOwnsChannel'
  BY <1>3, JournalAssumption DEF WriterOwnsChannel
<1>. QED  BY <1>1, <1>2, <1>4 DEF ControlInv

(* A step that closes one channel, with its record if it has one. *)
LEMMA CloseAbortKeep ==
    ASSUME ControlInv, NEW f \in Channels, Close(f) \/ Abort(f)
    PROVE  ControlInv'
<1>1. CASE /\ pc' = "fields" /\ job' = [op |-> "close"] /\ channels[f].kind = 2 /\ writer = f
           /\ UNCHANGED <<active, target, writer, rotating, channels>>
  <2>1. JobIsSound'
    BY <1>1 DEF JobIsSound
  <2>. QED  BY <1>1, <2>1, Onward
<1>2. CASE /\ pc' = "idle" /\ job' = NoJob /\ channels' = [channels EXCEPT ![f] = Closed]
           /\ writer = f /\ Forget /\ active' = active
  BY <1>2, Settled, NoJobIsSound DEF ControlInv, ControlType
<1>3. CASE /\ pc' = "idle" /\ job' = NoJob /\ channels' = [channels EXCEPT ![f] = Closed]
           /\ ~(channels[f].kind = 2 /\ writer = f)
           /\ UNCHANGED <<active, target, writer, rotating>>
  <2>1. writer = f => f \in Listers
    BY <1>3 DEF ControlInv, WriterOwnsChannel
  <2>2. ControlType'
    BY <1>3, NoJobIsSound DEF ControlInv, ControlType, JobIsSound, Closed
  <2>3. DraftFitsBlock' /\ RotationFitsBlock' /\ MoveNeedsDraft'
    BY <1>3 DEF ControlInv, DraftFitsBlock, RotationFitsBlock, MoveNeedsDraft
  <2>4. RebuiltSideIsFree' /\ WriterOwnsChannel'
    BY <1>3, <2>1
    DEF ControlInv, ControlType, RebuiltSideIsFree, Rebuilding, WriterOwnsChannel, Closed
  <2>. QED  BY <2>2, <2>3, <2>4 DEF ControlInv
<1>4. CASE Close(f)
  <2>. USE <1>4 DEF Close, Reply, indexVars, draftVars, cursorVars
  <2>1. CASE channels[f].kind = 2 /\ writer = f /\ ~failed
    BY <1>1, <2>1
  <2>2. CASE channels[f].kind = 2 /\ writer = f /\ failed
    BY <1>2, <2>2
  <2>3. CASE ~(channels[f].kind = 2 /\ writer = f)
    BY <1>3, <2>3
  <2>. QED  BY <2>1, <2>2, <2>3
<1>5. CASE Abort(f)
  BY <1>2, <1>5 DEF Abort, Reply
<1>. QED  BY <1>4, <1>5

LEMMA ReadersKeep ==
    ASSUME ControlInv, NEW f \in Channels, NEW n,
           \/ OpenRead(f, n) \/ Read(f, n)
           \/ f \in Listers /\ (ListFiles(f) \/ NextEntry(f))
    PROVE  ControlInv'
<1>1. CASE \E e \in Nat : Refuse(e)
  BY <1>1, RefuseKeeps
<1>2. CASE /\ pc = "idle" /\ pc' = "idle" /\ job' = NoJob
           /\ UNCHANGED <<active, target, writer, rotating>>
           /\ \/ channels[f].kind = 0
                 /\ \E off, len : channels' = [channels EXCEPT ![f] =
                      [kind |-> 1, side |-> active, off |-> off, len |-> len, pos |-> 0]]
              \/ channels[f].kind = 1
                 /\ \E pos : channels' = [channels EXCEPT ![f].pos = pos]
              \/ /\ f \in Listers
                 /\ \/ channels' = [channels EXCEPT ![f] = [Closed EXCEPT !.kind = 3]]
                    \/ /\ channels[f].kind = 3
                       /\ \E pos : channels' = [channels EXCEPT ![f].pos = pos]
  <2>1. /\ DOMAIN channels' = Channels /\ channels' = [g \in Channels |-> channels'[g]]
        /\ \A g \in Channels : g # f => channels'[g] = channels[g]
    BY <1>2 DEF ControlInv, ControlType
  <2>2. /\ DOMAIN channels'[f] = {"kind", "side", "off", "len", "pos"}
        /\ channels[f].kind = 2 => f \in Listers
        /\ channels'[f].kind \in {1, 3}
        /\ channels'[f].kind = 1 =>
             \/ channels'[f].side = active
             \/ channels[f].kind = 1 /\ channels'[f].side = channels[f].side
    <3>1. DOMAIN Closed = {"kind", "side", "off", "len", "pos"}
      BY DEF Closed
    <3>. QED  BY <1>2, <3>1 DEF ControlInv, ControlType
  <2>3. ControlType'
    BY <1>2, <2>1, <2>2, NoJobIsSound DEF ControlInv, ControlType, JobIsSound
  <2>4. DraftFitsBlock' /\ RotationFitsBlock' /\ MoveNeedsDraft'
    BY <1>2 DEF ControlInv, DraftFitsBlock, RotationFitsBlock, MoveNeedsDraft
  <2>5. WriterOwnsChannel'
    <3>1. writer = f => channels[f].kind = 2 \/ f \in Listers
      BY DEF ControlInv, WriterOwnsChannel
    <3>. QED  BY <1>2, <2>1, <2>2, <3>1 DEF ControlInv, WriterOwnsChannel
  <2>6. RebuiltSideIsFree'
    <3>1. active # 1 - active
      BY DEF ControlInv, ControlType, Sides
    <3>. QED  BY <1>2, <2>1, <2>2, <3>1 DEF ControlInv, RebuiltSideIsFree, Rebuilding
  <2>. QED  BY <2>3, <2>4, <2>5, <2>6 DEF ControlInv
<1>3. CASE OpenRead(f, n)
  BY <1>1, <1>2, <1>3 DEF OpenRead, Serving, Reply, indexVars, draftVars, cursorVars
<1>4. CASE Read(f, n)
  <2>1. \E pos : channels' = [channels EXCEPT ![f].pos = pos]
    BY <1>4 DEF Read
  <2>. QED  BY <1>2, <1>4, <2>1 DEF Read, Serving, Reply, indexVars, draftVars, cursorVars
<1>5. CASE f \in Listers /\ (ListFiles(f) \/ NextEntry(f))
  <2>1. NextEntry(f) => \E pos : channels' = [channels EXCEPT ![f].pos = pos]
    BY DEF NextEntry
  <2>. QED
    BY <1>2, <1>5, <2>1 DEF ListFiles, NextEntry, Serving, Reply, indexVars, draftVars, cursorVars
<1>. QED  BY <1>3, <1>4, <1>5

(***************************************************************************)
(* The blocks of a request.                                                *)
(***************************************************************************)

LEMMA GiveUpKeeps ==
    ASSUME ControlInv, NEW e, GiveUp(e), pc \notin {"off", "scan", "condemned", "scratch"}
    PROVE  ControlInv'
<1>1. pc' = "idle" /\ job' = NoJob /\ active' = active
  BY DEF GiveUp, Reply
<1>2. CASE job.op = "write"
  <2>1. UNCHANGED <<target, writer, rotating, channels>>
    BY <1>2 DEF GiveUp, cursorVars
  <2>. QED  BY <1>1, <2>1, NoJobIsSound, Onward
<1>3. CASE job.op # "write"
  <2>1. Forget /\ Release
    BY <1>3 DEF GiveUp
  <2>. QED  BY <1>1, <2>1, NoJobIsSound, Settled DEF Release, ControlInv, ControlType
<1>. QED  BY <1>2, <1>3

LEMMA TagKeeps ==
    ASSUME ControlInv, TagRecord
    PROVE  ControlInv'
<1>1. /\ pc = "tag" /\ active' = active /\ target' = active /\ rotating' = rotating
  BY DEF TagRecord, indexVars
<1>2. writer = Idle /\ rotating = FALSE
  BY <1>1 DEF ControlInv, DraftFitsBlock, RotationFitsBlock, ControlType
<1>3. active \in Sides /\ JobIsSound
  BY DEF ControlInv, ControlType, JobIsSound
<1>4. CASE /\ job.op = "open" /\ writer' = job.f
           /\ channels' = [channels EXCEPT ![job.f] = [Closed EXCEPT !.kind = 2]]
           /\ pc' \in {"reserve", "idle"} /\ (job' = job \/ job' = NoJob)
  <2>1. job.f \in Channels /\ job.f # Idle
    BY <1>3, <1>4, JournalAssumption DEF JobIsSound
  <2>2. DOMAIN [Closed EXCEPT !.kind = 2] = {"kind", "side", "off", "len", "pos"}
          /\ [Closed EXCEPT !.kind = 2].kind = 2
    BY DEF Closed
  <2>3. JobIsSound'
    BY <1>3, <1>4 DEF NoJob, JobIsSound
  <2>4. ControlType'
    BY <1>1, <1>2, <1>3, <1>4, <2>1, <2>2, <2>3 DEF ControlInv, ControlType, JobIsSound
  <2>5. DraftFitsBlock' /\ RotationFitsBlock' /\ MoveNeedsDraft' /\ RebuiltSideIsFree'
    BY <1>1, <1>2, <1>4
    DEF DraftFitsBlock, RotationFitsBlock, MoveNeedsDraft, RebuiltSideIsFree, Rebuilding
  <2>6. WriterOwnsChannel'
    BY <1>2, <1>4, <2>1, <2>2, JournalAssumption DEF ControlInv, ControlType, WriterOwnsChannel
  <2>. QED  BY <2>4, <2>5, <2>6 DEF ControlInv
<1>5. CASE /\ writer' \in {writer, Internal} /\ channels' = channels /\ job' = job
           /\ pc' \in {"reserve", "fields"}
  <2>1. ControlType'
    BY <1>1, <1>2, <1>3, <1>5 DEF ControlInv, ControlType, JobIsSound
  <2>2. DraftFitsBlock' /\ RotationFitsBlock' /\ MoveNeedsDraft' /\ RebuiltSideIsFree'
    BY <1>1, <1>2, <1>5
    DEF DraftFitsBlock, RotationFitsBlock, MoveNeedsDraft, RebuiltSideIsFree, Rebuilding
  <2>3. WriterOwnsChannel'
    BY <1>2, <1>5, JournalAssumption DEF ControlInv, WriterOwnsChannel
  <2>. QED  BY <2>1, <2>2, <2>3 DEF ControlInv
<1>6. CASE job.op = "open"
  BY <1>4, <1>6 DEF TagRecord, BeginDraft, Reply
<1>7. CASE job.op # "open"
  BY <1>5, <1>7 DEF TagRecord, BeginDraft
<1>. QED  BY <1>6, <1>7

LEMMA WritingKeeps ==
    ASSUME ControlInv, Reserve \/ Payload \/ Fields \/ CompactBegin
    PROVE  ControlInv'
<1>1. pc \in {"reserve", "payload", "fields", "compact"}
  BY DEF Reserve, Payload, Fields, CompactBegin
<1>2. CASE \E e \in Nat : GiveUp(e)
  BY <1>1, <1>2, GiveUpKeeps
<1>3. CASE Reserve
  <2>1. CASE /\ pc' \in {"compact", "payload"} /\ job' = job
             /\ UNCHANGED <<active, target, writer, rotating, channels>>
    BY <1>1, <2>1, SameJob, Onward
  <2>. QED  BY <1>2, <1>3, <2>1 DEF Reserve, indexVars, draftVars, cursorVars
<1>4. CASE Payload
  <2>1. /\ UNCHANGED <<active, target, writer, rotating, channels>>
        /\ \/ pc' = "idle" /\ job' = NoJob
           \/ pc' = "fields" /\ job' = job
           \/ pc' = "reserve" /\ job' = [job EXCEPT !.srcs = Tail(@)]
    BY <1>4 DEF Payload, Reply, indexVars, draftVars
  <2>2. ASSUME job' = [job EXCEPT !.srcs = Tail(@)] PROVE JobIsSound'
    <3>1. DOMAIN job' = DOMAIN job /\ job' = [i \in DOMAIN job' |-> job'[i]]
      BY <2>2
    <3>2. job'.op = job.op /\ (job.op = "open" => job'.f = job.f \/ job'.f \in Channels)
      BY <2>2 DEF ControlInv, ControlType
    <3>. QED  BY <3>1, <3>2 DEF ControlInv, ControlType, JobIsSound
  <2>. QED  BY <1>1, <2>1, <2>2, SameJob, NoJobIsSound, Onward
<1>5. CASE Fields
  <2>1. CASE /\ pc' = "commit" /\ job' = job
             /\ UNCHANGED <<active, target, writer, rotating, channels>>
    BY <1>1, <2>1, SameJob, Onward
  <2>. QED  BY <1>2, <1>5, <2>1 DEF Fields, indexVars, draftVars, cursorVars
<1>6. CASE CompactBegin
  <2>1. CASE /\ ~rotating /\ ~Referenced(1 - active) /\ target' = 1 - active /\ pc' = "erase"
             /\ UNCHANGED <<active, writer, rotating, channels, job>>
    <3>1. ControlType'
      BY <2>1, SameJob DEF ControlInv, ControlType, JobIsSound
    <3>2. DraftFitsBlock' /\ RotationFitsBlock' /\ MoveNeedsDraft'
      BY <1>6, <2>1
      DEF CompactBegin, ControlInv, DraftFitsBlock, RotationFitsBlock, MoveNeedsDraft
    <3>3. RebuiltSideIsFree' /\ WriterOwnsChannel'
      BY <1>1, <1>6, <2>1
      DEF CompactBegin, ControlInv, ControlType, RebuiltSideIsFree, WriterOwnsChannel, Referenced, Sides
    <3>. QED  BY <3>1, <3>2, <3>3 DEF ControlInv
  <2>. QED  BY <1>2, <1>6, <2>1 DEF CompactBegin, indexVars, draftVars
<1>. QED  BY <1>3, <1>4, <1>5, <1>6

LEMMA CommitKeeps ==
    ASSUME ControlInv, Commit
    PROVE  ControlInv'
<1>1. CASE /\ rotating /\ pc' = "seal" /\ UNCHANGED <<active, target, writer, rotating, channels, job>>
  BY <1>1, SameJob, Onward DEF Rebuilding, Commit
<1>2. CASE /\ Forget /\ Release /\ active' = active
           /\ pc' \in {"scratch", "idle"} /\ (job' = job \/ job' = NoJob)
  <2>1. JobIsSound'
    BY <1>2, SameJob, NoJobIsSound
  <2>. QED  BY <1>2, <2>1, Settled DEF Release, ControlInv, ControlType
<1>3. CASE rotating
  BY <1>1, <1>3 DEF Commit, indexVars, draftVars
<1>4. CASE ~rotating
  BY <1>2, <1>4 DEF Commit, Reply
<1>. QED  BY <1>3, <1>4

LEMMA CompactingKeeps ==
    ASSUME ControlInv, Erase \/ CopyNext \/ Seal
    PROVE  ControlInv'
<1>1. /\ pc \in {"erase", "copy", "seal"} /\ job' = job
      /\ UNCHANGED <<active, target, writer, rotating, channels>>
      /\ pc' \in {"copy", "move", "seal", "activate"}
      /\ pc' = "move" => writer # Idle
      /\ pc' \in {"copy", "move"} => pc \in {"erase", "copy"}
  BY DEF Erase, CopyNext, Seal, indexVars, draftVars, cursorVars
<1>2. rotating => pc' \notin {"erase", "copy", "move"}
  BY <1>1 DEF ControlInv, RotationFitsBlock
<1>. QED  BY <1>1, <1>2, SameJob, Onward DEF Rebuilding

LEMMA MoveKeeps ==
    ASSUME ControlInv, Move
    PROVE  ControlInv'
<1>1. pc = "move" /\ writer # Idle
  BY DEF Move, ControlInv, MoveNeedsDraft
<1>2. CASE GiveUp(25)
  BY <1>1, <1>2, GiveUpKeeps
<1>3. CASE /\ rotating' = TRUE /\ pc' = "payload"
           /\ UNCHANGED <<active, target, writer, channels, job>>
  <2>1. ControlType'
    BY <1>3, SameJob DEF ControlInv, ControlType, JobIsSound
  <2>2. DraftFitsBlock' /\ RotationFitsBlock' /\ MoveNeedsDraft'
    BY <1>1, <1>3 DEF DraftFitsBlock, RotationFitsBlock, MoveNeedsDraft
  <2>3. RebuiltSideIsFree' /\ WriterOwnsChannel'
    BY <1>1, <1>3 DEF ControlInv, RebuiltSideIsFree, Rebuilding, WriterOwnsChannel
  <2>. QED  BY <2>1, <2>2, <2>3 DEF ControlInv
<1>. QED  BY <1>2, <1>3 DEF Move, indexVars

LEMMA ActivateKeeps ==
    ASSUME ControlInv, Activate
    PROVE  ControlInv'
<1>1. /\ pc = "activate" /\ active' = target /\ Forget /\ Release
      /\ pc' \in {"idle", "tag"} /\ (job' = job \/ job' = NoJob)
  BY DEF Activate, Reply
<1>2. active' \in Sides
  BY <1>1 DEF ControlInv, ControlType, RebuiltSideIsFree, Rebuilding, Sides
<1>3. JobIsSound'
  BY <1>1, SameJob, NoJobIsSound
<1>. QED  BY <1>1, <1>2, <1>3, Settled DEF Release, ControlInv, ControlType

LEMMA FailureKeeps ==
    ASSUME ControlInv, Failure
    PROVE  ControlInv'
<1>1. GiveUp(25) /\ pc \notin {"off", "scan", "condemned", "scratch"}
  BY DEF Failure, TagFails, PayloadFails, RecordFails, EraseFails, CompactFails
<1>. QED  BY <1>1, GiveUpKeeps

(***************************************************************************)
(* Power loss and mount.                                                   *)
(***************************************************************************)

LEMMA PowerLossKeeps ==
    ASSUME ControlInv, PowerLoss
    PROVE  ControlInv'
BY Settled, NoJobIsSound DEF PowerLoss, NoIndex, Sides

LEMMA MountKeeps ==
    ASSUME ControlInv, Mount \/ ScanRecord \/ ScanEnds \/ FallBack \/ Decay
    PROVE  ControlInv'
<1>1. pc \in {"off", "scan", "condemned"}
  BY DEF Mount, ScanRecord, ScanEnds, FallBack, Decay
<1>2. writer = Idle /\ rotating = FALSE
  BY <1>1 DEF ControlInv, ControlType, DraftFitsBlock, RotationFitsBlock
<1>3. /\ pc' \in {"off", "scan", "condemned", "idle"}
      /\ active' \in {active, 0, Chosen, 1 - active}
      /\ UNCHANGED <<target, writer, rotating, channels>>
      /\ job' = job \/ job' = NoJob
  <2>. USE DEF draftVars, cursorVars, indexVars, NoFilesystem, NoIndex, ScanFrom
  <2>1. CASE Mount
    BY <2>1 DEF Mount
  <2>2. CASE ScanRecord
    BY <2>2 DEF ScanRecord
  <2>3. CASE ScanEnds
    BY <2>3 DEF ScanEnds
  <2>4. CASE FallBack
    BY <2>4 DEF FallBack
  <2>5. CASE Decay
    BY <1>1, <2>5 DEF Decay
  <2>. QED  BY <2>1, <2>2, <2>3, <2>4, <2>5
<1>4. active' \in Sides
  BY <1>3 DEF ControlInv, ControlType, Chosen, Sides
<1>5. ControlType'
  BY <1>3, <1>4, SameJob, NoJobIsSound DEF ControlInv, ControlType, JobIsSound
<1>6. DraftFitsBlock' /\ RotationFitsBlock' /\ MoveNeedsDraft' /\ RebuiltSideIsFree'
  BY <1>2, <1>3 DEF DraftFitsBlock, RotationFitsBlock, MoveNeedsDraft, RebuiltSideIsFree, Rebuilding
<1>7. WriterOwnsChannel'
  BY <1>1, <1>3 DEF ControlInv, WriterOwnsChannel
<1>. QED  BY <1>5, <1>6, <1>7 DEF ControlInv

-----------------------------------------------------------------------------

LEMMA ControlNext ==
    ASSUME ControlInv, [Next]_vars
    PROVE  ControlInv'
<1>1. CASE Request
  <2>1. CASE \/ \E f \in Channels, n \in Names, append \in BOOLEAN : OpenWrite(f, n, append)
             \/ \E f \in Channels, bytes \in Chunks : Write(f, bytes)
    BY <2>1, OpenWriteKeeps, CompactWriteKeep
  <2>2. CASE \/ \E n \in Names, m \in Names : Concat(n, <<m>>)
             \/ \E n \in Names, m \in Names, l \in Names : Concat(n, <<m, l>>)
    BY <2>2, ConcatKeeps
  <2>3. CASE \/ \E names \in SUBSET Names : Scratch(names)
             \/ \E new \in Names, old \in Names : Rename(new, old)
             \/ \E n \in Names, flag \in BOOLEAN : Attribute(n, flag)
    BY <2>3, MetadataRequestsKeep
  <2>4. CASE Compact
    BY <2>4, CompactWriteKeep
  <2>5. CASE \E f \in Channels : Close(f) \/ Abort(f)
    BY <2>5, CloseAbortKeep
  <2>6. CASE \/ \E f \in Channels, n \in Names : OpenRead(f, n)
             \/ \E f \in Channels : Read(f, 1)
             \/ \E f \in Listers : ListFiles(f) \/ NextEntry(f)
    BY <2>6, ReadersKeep, JournalAssumption
  <2>. QED  BY <1>1, <2>1, <2>2, <2>3, <2>4, <2>5, <2>6 DEF Request
<1>2. CASE Continue
  BY <1>2, MetadataRequestsKeep, TagKeeps, WritingKeeps, CommitKeeps, CompactingKeeps, MoveKeeps,
     ActivateKeeps, MountKeeps
  DEF Continue
<1>3. CASE Failure \/ Mount \/ PowerLoss \/ Decay
  BY <1>3, FailureKeeps, MountKeeps, PowerLossKeeps
<1>4. CASE UNCHANGED vars
  BY <1>4, SameJob, Onward
  DEF vars, indexVars, draftVars, cursorVars, ControlInv, DraftFitsBlock, RotationFitsBlock,
      MoveNeedsDraft, Rebuilding
<1>. QED  BY <1>1, <1>2, <1>3, <1>4 DEF Next

LEMMA ControlHolds == Spec => []ControlInv
BY ControlInit, ControlNext, PTL DEF Spec

(* compact() never erases or writes the side that the directory index      *)
(* describes or that an open reader reads, from its erase to its seal,     *)
(* however many requests that takes.                                       *)
THEOREM RebuiltSideStaysFree == Spec => []RebuiltSideIsFree
<1>1. ControlInv => RebuiltSideIsFree
  BY DEF ControlInv
<1>. QED  BY ControlHolds, <1>1, PTL

(* One write at a time, and every channel in writing mode is the writer:   *)
(* no path through close, abort, error or compaction leaves one behind.    *)
THEOREM WriterKeepsChannel == Spec => []WriterOwnsChannel
<1>1. ControlInv => WriterOwnsChannel
  BY DEF ControlInv
<1>. QED  BY ControlHolds, <1>1, PTL

-----------------------------------------------------------------------------
(***************************************************************************)
(* No log overflows its sector: the journal's space, and with it the whole *)
(* inductive invariant, for every value of the constants.                  *)
(*                                                                         *)
(* What is live never exceeds CAPACITY, also after a reset, whichever part *)
(* of whichever log is found: every log comes with an account, which gives *)
(* the lengths that are live at every place where a scan of it may stop.   *)
(* An account need not know how the log was written: it is kept by every   *)
(* step that commits nothing, and extended by one that does.               *)
(***************************************************************************)
(* Sums over the slots                                                     *)

LEMMA SumIsPartial ==
    ASSUME NEW len \in [Slots -> Nat]
    PROVE  \E u : Sum(len) = u[MAXFILES] /\ IsPartialSum(u, len, MAXFILES)
<1>. DEFINE F(u) == [i \in 0..MAXFILES |-> IF i = 0 THEN 0 ELSE u[i - 1] + len[i - 1]]
            upto == CHOOSE u : u = F(u)
<1>1. MAXFILES \in 0..MAXFILES
  BY JournalAssumption
<1>2. \E u : u = F(u)
  BY PartialSumExists, <1>1 DEF IsPartialSum
<1>3. IsPartialSum(upto, len, MAXFILES)
  BY <1>2 DEF IsPartialSum
<1>4. Sum(len) = upto[MAXFILES]
  BY DEF Sum
<1>. QED  BY <1>3, <1>4

(* Two sums in step: what holds of their beginnings and is kept by one     *)
(* more slot holds of the sums.  Below, len exceeds small by no more than  *)
(* step in each slot, and by extra besides.                                *)
LEMMA SumBound ==
    ASSUME NEW len \in [Slots -> Nat], NEW small \in [Slots -> Nat], NEW step \in Nat,
           \A i \in Slots : len[i] <= small[i] + step
    PROVE  Sum(len) <= Sum(small) + MAXFILES * step
<1>1. MAXFILES \in Nat
  BY JournalAssumption
<1>2. PICK u : Sum(len) = u[MAXFILES] /\ IsPartialSum(u, len, MAXFILES)
  BY SumIsPartial
<1>3. PICK v : Sum(small) = v[MAXFILES] /\ IsPartialSum(v, small, MAXFILES)
  BY SumIsPartial
<1>. DEFINE Right(m) == u[m] \in Nat /\ v[m] \in Nat /\ u[m] <= v[m] + m * step
            Bad == {m \in 0..MAXFILES : ~Right(m)}
<1>4. \A m \in 0..MAXFILES : /\ u[m] = IF m = 0 THEN 0 ELSE u[m - 1] + len[m - 1]
                             /\ v[m] = IF m = 0 THEN 0 ELSE v[m - 1] + small[m - 1]
  BY <1>2, <1>3 DEF IsPartialSum
<1>5. ASSUME Bad # {} PROVE FALSE
  <2>0. Bad \in SUBSET Nat
    BY <1>1
  <2>1. PICK m \in Bad : \A k \in Bad : m <= k
    BY <1>5, <2>0, LeastNatural
  <2>2. Right(0)
    BY <1>1, <1>4
  <2>3. m \in 0..MAXFILES /\ m # 0
    BY <2>1, <2>2
  <2>4. m - 1 \in 0..MAXFILES /\ m - 1 \in Slots /\ ~(m <= m - 1)
    BY <1>1, <2>3 DEF Slots
  <2>5. Right(m - 1)
    BY <2>1, <2>4
  <2>6. u[m] = u[m - 1] + len[m - 1] /\ v[m] = v[m - 1] + small[m - 1]
    BY <1>4, <2>3
  <2>7. len[m - 1] \in Nat /\ small[m - 1] \in Nat /\ len[m - 1] <= small[m - 1] + step
    BY <2>4
  <2>8. m * step = (m - 1) * step + step /\ (m - 1) * step \in Nat
    <3>1. \A k \in Nat : (k + 1) * step = k * step + step /\ k * step \in Nat
      OBVIOUS
    <3>2. m - 1 \in Nat /\ (m - 1) + 1 = m
      BY <2>3
    <3>. QED  BY <3>1, <3>2
  <2>9. u[m] \in Nat /\ v[m] \in Nat
    BY <2>5, <2>6, <2>7
  <2>10. u[m] <= v[m] + m * step
    <3>. DEFINE before == (m - 1) * step
    <3>1. before \in Nat /\ m * step = before + step /\ u[m - 1] <= v[m - 1] + before
      BY <2>5, <2>8
    <3>. HIDE DEF before
    <3>2. u[m - 1] \in Nat /\ v[m - 1] \in Nat
      BY <2>5
    <3>. QED  BY <3>1, <3>2, <2>6, <2>7
  <2>. QED  BY <2>1, <2>9, <2>10
<1>6. Right(MAXFILES)
  BY <1>1, <1>5
<1>. QED  BY <1>2, <1>3, <1>6

LEMMA SumMonotone ==
    ASSUME NEW len \in [Slots -> Nat], NEW small \in [Slots -> Nat],
           \A i \in Slots : small[i] <= len[i]
    PROVE  Sum(small) <= Sum(len)
<1>1. Sum(small) <= Sum(len) + MAXFILES * 0
  BY SumBound
<1>2. MAXFILES \in Nat /\ MAXFILES * 0 = 0
  BY JournalAssumption
<1>. QED  BY <1>1, <1>2, SumType

LEMMA SumOfNone == Sum([i \in Slots |-> 0]) = 0
<1>. DEFINE none == [i \in Slots |-> 0]
<1>0. none \in [Slots -> Nat] /\ MAXFILES \in Nat
  BY JournalAssumption
<1>1. PICK u : Sum(none) = u[MAXFILES] /\ IsPartialSum(u, none, MAXFILES)
  BY <1>0, SumIsPartial
<1>. DEFINE Bad == {m \in 0..MAXFILES : u[m] # 0}
<1>2. \A m \in 0..MAXFILES : u[m] = IF m = 0 THEN 0 ELSE u[m - 1] + none[m - 1]
  BY <1>1 DEF IsPartialSum
<1>3. ASSUME Bad # {} PROVE FALSE
  <2>0. Bad \in SUBSET Nat
    BY <1>0
  <2>1. PICK m \in Bad : \A k \in Bad : m <= k
    BY <1>3, <2>0, LeastNatural
  <2>2. m \in 0..MAXFILES /\ m # 0
    BY <1>2, <2>1
  <2>3. m - 1 \in 0..MAXFILES /\ m - 1 \in Slots /\ ~(m <= m - 1)
    BY <1>0, <2>2 DEF Slots
  <2>. QED  BY <1>2, <2>1, <2>2, <2>3
<1>. QED  BY <1>0, <1>1, <1>3

(* One slot changes. *)
LEMMA SumChange ==
    ASSUME NEW len \in [Slots -> Nat], NEW other \in [Slots -> Nat], NEW k \in Slots,
           \A i \in Slots : i # k => other[i] = len[i]
    PROVE  Sum(other) + len[k] = Sum(len) + other[k]
<1>1. MAXFILES \in Nat
  BY JournalAssumption
<1>2. PICK u : Sum(len) = u[MAXFILES] /\ IsPartialSum(u, len, MAXFILES)
  BY SumIsPartial
<1>3. PICK v : Sum(other) = v[MAXFILES] /\ IsPartialSum(v, other, MAXFILES)
  BY SumIsPartial
<1>. DEFINE Right(m) == /\ u[m] \in Nat /\ v[m] \in Nat
                        /\ IF m <= k THEN v[m] = u[m] ELSE v[m] + len[k] = u[m] + other[k]
            Bad == {m \in 0..MAXFILES : ~Right(m)}
<1>4. \A m \in 0..MAXFILES : /\ u[m] = IF m = 0 THEN 0 ELSE u[m - 1] + len[m - 1]
                             /\ v[m] = IF m = 0 THEN 0 ELSE v[m - 1] + other[m - 1]
  BY <1>2, <1>3 DEF IsPartialSum
<1>0. k \in Nat /\ k < MAXFILES /\ len[k] \in Nat /\ other[k] \in Nat
  BY <1>1 DEF Slots
<1>5. ASSUME Bad # {} PROVE FALSE
  <2>0. Bad \in SUBSET Nat
    BY <1>1
  <2>1. PICK m \in Bad : \A j \in Bad : m <= j
    BY <1>5, <2>0, LeastNatural
  <2>2. Right(0)
    BY <1>0, <1>1, <1>4
  <2>3. m \in 0..MAXFILES /\ m # 0
    BY <2>1, <2>2
  <2>4. m - 1 \in 0..MAXFILES /\ m - 1 \in Slots /\ ~(m <= m - 1)
    BY <1>1, <2>3 DEF Slots
  <2>5. Right(m - 1)
    BY <2>1, <2>4
  <2>6. u[m] = u[m - 1] + len[m - 1] /\ v[m] = v[m - 1] + other[m - 1]
    BY <1>4, <2>3
  <2>7. len[m - 1] \in Nat /\ other[m - 1] \in Nat /\ (m - 1 # k => other[m - 1] = len[m - 1])
    BY <2>4
  <2>8. Right(m)
    BY <1>0, <2>3, <2>5, <2>6, <2>7
  <2>. QED  BY <2>1, <2>8
<1>6. Right(MAXFILES)
  BY <1>1, <1>5
<1>7. ~(MAXFILES <= k)
  BY <1>0, <1>1
<1>8. v[MAXFILES] + len[k] = u[MAXFILES] + other[k]
  BY <1>6, <1>7
<1>. QED  BY <1>2, <1>3, <1>8

LEMMA SumMember ==
    ASSUME NEW len \in [Slots -> Nat], NEW k \in Slots
    PROVE  len[k] <= Sum(len)
<1>. DEFINE other == [len EXCEPT ![k] = 0]
<1>1. other \in [Slots -> Nat] /\ other[k] = 0
  OBVIOUS
<1>2. Sum(other) + len[k] = Sum(len) + other[k]
  BY <1>1, SumChange
<1>3. Sum(other) \in Nat /\ Sum(len) \in Nat /\ len[k] \in Nat
  BY <1>1, SumType
<1>. QED  BY <1>1, <1>2, <1>3
-----------------------------------------------------------------------------
(* Accounts                                                                *)

NoneLive == [i \in Slots |-> 0]

(* The live lengths after record r. *)
After(r, len) ==
    [i \in Slots |-> IF i = r.slot THEN (IF r.kind = 3 THEN 0 ELSE r.len)
                     ELSE IF i = r.drop THEN 0 ELSE len[i]]

(* The places where a scan of the log may stop, and what is live there.  A *)
(* record leads from one to another and passes none; nothing is committed  *)
(* after a blank one.                                                      *)
Accounts(log, places, live) ==
    /\ places \subseteq Nat /\ HEADER \in places /\ \A o \in places : o >= HEADER
    /\ live[HEADER] = NoneLive
    /\ \A o \in places : live[o] \in [Slots -> Nat] /\ Sum(live[o]) <= CAPACITY
    /\ \A o \in places : o \in Offsets /\ Recorded(log, o) =>
         /\ o + log[o].span \in places /\ live[o + log[o].span] = After(log[o], live[o])
         /\ \A p \in places : o < p => o + log[o].span <= p
    /\ \A o \in places : o \in Offsets /\ log[o] = Blank =>
         \A p \in Offsets : p > o => ~Recorded(log, p)

(* A scan that stops at n finds lengths len live, and nothing blank before.*)
Accounted(log, n, len) ==
    \E places, live :
      /\ Accounts(log, places, live) /\ n \in places /\ live[n] = len
      /\ \A o \in places : o < n => o \in Offsets /\ log[o] # Blank

LEMMA FromTheStart ==
    ASSUME NEW log, NEW n, NEW len, Accounted(log, n, len)
    PROVE  Accounted(log, HEADER, NoneLive)
<1>1. PICK places, live : Accounts(log, places, live)
  BY DEF Accounted
<1>2. \A o \in places : o \in Nat /\ ~(o < HEADER)
  BY <1>1, JournalAssumption DEF Accounts
<1>. QED  BY <1>1, <1>2 DEF Accounts, Accounted

LEMMA FreshLog == Accounted(BlankLog, HEADER, NoneLive)
<1>. DEFINE places == {HEADER}
            live == [o \in {HEADER} |-> NoneLive]
<1>1. \A o \in Offsets : ~Recorded(BlankLog, o)
  BY DEF Recorded, BlankLog, Blank
<1>2. NoneLive \in [Slots -> Nat] /\ Sum(NoneLive) <= CAPACITY
  BY SumOfNone, JournalAssumption DEF NoneLive
<1>3. HEADER \in Nat /\ live[HEADER] = NoneLive
  BY JournalAssumption
<1>4. Accounts(BlankLog, places, live)
  BY <1>1, <1>2, <1>3 DEF Accounts
<1>5. \A o \in places : ~(o < HEADER)
  BY <1>3
<1>. QED  BY <1>3, <1>4, <1>5 DEF Accounted

(* A step that commits nothing. *)
Keeps(log, new) ==
    \A o \in Offsets : /\ Recorded(new, o) => new[o] = log[o]
                       /\ new[o] = Blank => log[o] = Blank

LEMMA AccountKept ==
    ASSUME NEW log, NEW new, Keeps(log, new), NEW n, NEW len, Accounted(log, n, len)
    PROVE  Accounted(new, n, len)
<1>1. PICK places, live :
        /\ Accounts(log, places, live) /\ n \in places /\ live[n] = len
        /\ \A o \in places : o < n => o \in Offsets /\ log[o] # Blank
  BY DEF Accounted
<1>2. \A o \in Offsets : Recorded(new, o) => Recorded(log, o) /\ new[o] = log[o]
  BY DEF Keeps, Recorded
<1>3. \A o \in Offsets : new[o] = Blank => log[o] = Blank
  BY DEF Keeps
<1>4. Accounts(new, places, live)
  <2>1. \A o \in places : o \in Offsets /\ Recorded(new, o) =>
          /\ o + new[o].span \in places /\ live[o + new[o].span] = After(new[o], live[o])
          /\ \A p \in places : o < p => o + new[o].span <= p
    BY <1>1, <1>2 DEF Accounts
  <2>2. \A o \in places : o \in Offsets /\ new[o] = Blank =>
          \A p \in Offsets : p > o => ~Recorded(new, p)
    BY <1>1, <1>2, <1>3 DEF Accounts
  <2>. QED  BY <1>1, <2>1, <2>2 DEF Accounts
<1>5. \A o \in places : o < n => o \in Offsets /\ new[o] # Blank
  BY <1>1, <1>3
<1>. QED  BY <1>1, <1>4, <1>5 DEF Accounted

(* A scan goes past a record. *)
LEMMA AccountFollowed ==
    ASSUME NEW log, NEW n, NEW len, Accounted(log, n, len),
           n \in Offsets, Recorded(log, n), log[n].span \in Nat
    PROVE  Accounted(log, n + log[n].span, After(log[n], len))
<1>1. PICK places, live :
        /\ Accounts(log, places, live) /\ n \in places /\ live[n] = len
        /\ \A o \in places : o < n => o \in Offsets /\ log[o] # Blank
  BY DEF Accounted
<1>. DEFINE m == n + log[n].span
<1>2. m \in places /\ live[m] = After(log[n], len) /\ \A p \in places : n < p => m <= p
  BY <1>1 DEF Accounts
<1>3. log[n] # Blank
  BY DEF Recorded, Blank
<1>4. ASSUME NEW o \in places, o < m PROVE o \in Offsets /\ log[o] # Blank
  <2>1. o \in Nat /\ n \in Nat /\ m \in Nat /\ ~(n < o)
    BY <1>1, <1>2, <1>4 DEF Accounts
  <2>2. o < n \/ o = n
    BY <2>1
  <2>. QED  BY <1>1, <1>3, <2>2
<1>. QED  BY <1>1, <1>2, <1>4 DEF Accounted

(* A record is committed at the end of the log. *)
LEMMA AccountExtended ==
    ASSUME NEW log, NEW new, NEW n, NEW len, Accounted(log, n, len),
           n \in Offsets, \A o \in Offsets : o < n => new[o] = log[o],
           Recorded(new, n), \A o \in Offsets : o > n => ~Recorded(new, o),
           new[n].span \in Nat \ {0},
           After(new[n], len) \in [Slots -> Nat], Sum(After(new[n], len)) <= CAPACITY
    PROVE  Accounted(new, n + new[n].span, After(new[n], len))
<1>1. PICK places, live :
        /\ Accounts(log, places, live) /\ n \in places /\ live[n] = len
        /\ \A o \in places : o < n => o \in Offsets /\ log[o] # Blank
  BY DEF Accounted
<1>. DEFINE m == n + new[n].span
            more == {o \in places : o <= n} \cup {m}
            longer == [o \in more |-> IF o = m THEN After(new[n], len) ELSE live[o]]
<1>2. n \in Nat /\ m \in Nat /\ n < m /\ HEADER \in Nat /\ HEADER <= n /\ \A o \in places : o \in Nat
  BY <1>1, JournalAssumption DEF Accounts
<1>3. /\ longer[m] = After(new[n], len)
      /\ \A o \in places : o <= n => longer[o] = live[o]
      /\ HEADER \in more /\ more \subseteq Nat /\ \A o \in more : o >= HEADER
  <2>1. \A o \in places : o <= n => o \in more /\ o # m
    BY <1>2
  <2>2. HEADER \in places /\ \A o \in places : o \in Nat /\ o >= HEADER
    BY <1>1, <1>2 DEF Accounts
  <2>3. m \in more /\ HEADER \in more
    BY <1>2, <2>2
  <2>4. m >= HEADER
    BY <1>2
  <2>5. \A o \in more : o \in Nat /\ o >= HEADER
    <3>. HIDE DEF m
    <3>. QED  BY <1>2, <2>2, <2>4
  <2>. QED  BY <2>1, <2>2, <2>3, <2>5
<1>4. \A o \in more : o = m \/ (o \in places /\ o = n) \/ (o \in places /\ o < n)
  BY <1>2
<1>. HIDE DEF longer
<1>5. longer[HEADER] = NoneLive
  BY <1>1, <1>2, <1>3 DEF Accounts
<1>6. \A o \in more : longer[o] \in [Slots -> Nat] /\ Sum(longer[o]) <= CAPACITY
  <2>1. \A o \in places : live[o] \in [Slots -> Nat] /\ Sum(live[o]) <= CAPACITY
    BY <1>1 DEF Accounts
  <2>. QED  BY <1>2, <1>3, <1>4, <2>1
<1>7. ASSUME NEW o \in more, o \in Offsets, Recorded(new, o)
      PROVE  /\ o + new[o].span \in more /\ longer[o + new[o].span] = After(new[o], longer[o])
             /\ \A p \in more : o < p => o + new[o].span <= p
  <2>1. CASE o = n
    <3>1. longer[n] = len
      BY <1>1, <1>2, <1>3
    <3>2. \A p \in more : n < p => p = m
      BY <1>2, <1>4
    <3>. QED  BY <1>2, <1>3, <2>1, <3>1, <3>2
  <2>2. CASE o \in places /\ o < n
    <3>1. new[o] = log[o] /\ Recorded(log, o)
      BY <1>7, <2>2 DEF Recorded
    <3>2. o + log[o].span \in places /\ live[o + log[o].span] = After(log[o], live[o])
      BY <1>1, <1>7, <2>2, <3>1 DEF Accounts
    <3>3. \A p \in places : o < p => o + log[o].span <= p
      BY <1>1, <1>7, <2>2, <3>1 DEF Accounts
    <3>4. o + log[o].span <= n
      BY <1>1, <2>2, <3>3
    <3>5. \A p \in more : o < p => o + log[o].span <= p
      <4>1. o + log[o].span \in Nat
        BY <1>2, <3>2
      <4>. QED  BY <1>2, <1>4, <3>3, <3>4, <4>1
    <3>6. longer[o] = live[o] /\ longer[o + log[o].span] = live[o + log[o].span]
      BY <1>2, <1>3, <2>2, <3>2, <3>4
    <3>. QED  BY <3>1, <3>2, <3>4, <3>5, <3>6
  <2>3. o # m
    BY <1>2, <1>7
  <2>. QED  BY <1>4, <2>1, <2>2, <2>3
<1>8. ASSUME NEW o \in more, o \in Offsets, new[o] = Blank, NEW p \in Offsets, p > o
      PROVE  ~Recorded(new, p)
  <2>1. o # n
    BY <1>8 DEF Recorded, Blank
  <2>2. ~(o \in places /\ o < n)
    BY <1>1, <1>8
  <2>3. o = m
    BY <1>4, <2>1, <2>2
  <2>4. p > n
    BY <1>2, <1>8, <2>3 DEF Offsets
  <2>. QED  BY <2>4
<1>9. Accounts(new, more, longer)
  BY <1>3, <1>5, <1>6, <1>7, <1>8 DEF Accounts
<1>10. ASSUME NEW o \in more, o < m PROVE o \in Offsets /\ new[o] # Blank
  <2>1. o = n \/ (o \in places /\ o < n)
    BY <1>2, <1>4, <1>10
  <2>2. new[n] # Blank
    BY DEF Recorded, Blank
  <2>. QED  BY <1>1, <2>1, <2>2
<1>. QED  BY <1>3, <1>9, <1>10 DEF Accounted

-----------------------------------------------------------------------------
(* The logs of both sides, the index and the index under construction.     *)

NextLens == [i \in Slots |-> NextLen(i)]

LogsFit ==
    /\ \A s \in Sides : Sealed(s) => Accounted(cell[s], HEADER, NoneLive)
    /\ pc \notin {"off", "condemned"} => Accounted(cell[active], IndexEnd, Lens)
    /\ Building => Accounted(cell[target], NextEnd, NextLens)

SpaceInv == SpaceFits /\ LogsFit

LEMMA KeepsItself ==
    ASSUME NEW log
    PROVE  Keeps(log, log)
BY DEF Keeps

(* A step that commits nothing and moves neither index. *)
LEMMA LogsKept ==
    ASSUME LogsFit,
           \A s \in Sides : Sealed(s)' => Sealed(s) /\ Keeps(cell[s], cell'[s]),
           pc' \notin {"off", "condemned"} =>
             /\ pc \notin {"off", "condemned"}
             /\ active' = active /\ IndexEnd' = IndexEnd /\ Lens' = Lens
             /\ Keeps(cell[active], cell'[active]),
           Building' => /\ Building
                        /\ target' = target /\ NextEnd' = NextEnd /\ NextLens' = NextLens
                        /\ Keeps(cell[target], cell'[target])
    PROVE  LogsFit'
<1>1. ASSUME NEW s \in Sides, Sealed(s)' PROVE Accounted(cell'[s], HEADER, NoneLive)
  BY <1>1, AccountKept DEF LogsFit
<1>2. ASSUME pc' \notin {"off", "condemned"} PROVE Accounted(cell[active], IndexEnd, Lens)'
  BY <1>2, AccountKept DEF LogsFit
<1>3. ASSUME Building' PROVE Accounted(cell[target], NextEnd, NextLens)'
  BY <1>3, AccountKept DEF LogsFit
<1>. QED  BY <1>1, <1>2, <1>3 DEF LogsFit

LEMMA CleanKept ==
    ASSUME NEW log, NEW new, Keeps(log, new), NEW n, Clean(log, n)
    PROVE  Clean(new, n)
BY DEF Keeps, Clean, Recorded

(* The lengths in the index are natural numbers. *)
LEMMA LensType ==
    ASSUME IndInv, pc \notin {"off", "condemned"}
    PROVE  /\ Lens \in [Slots -> Nat]
           /\ \A i \in Slots : LenOf(i) \in Nat /\ Size(i) \in Nat
           /\ Sizes \in [Slots -> Nat] /\ \A n : SizesBelow(n) \in [Slots -> Nat]
<1>1. \A i \in Live : Entry(i).len \in Nat
  BY EntryType, RecordType
<1>2. \A i \in Slots : LenOf(i) \in Nat /\ Size(i) \in Nat
  BY <1>1, JournalAssumption DEF LenOf, Size, Live
<1>. QED  BY <1>2 DEF Lens, Sizes, SizesBelow

LEMMA NextLensType ==
    ASSUME IndInv, Building
    PROVE  NextLens \in [Slots -> Nat] /\ \A i \in Slots : NextLen(i) \in Nat
<1>1. \A i \in Slots : nextheads[i] # 0 => cell[target][nextheads[i]].len \in Nat
  BY RecordType DEF IndInv, NextHeadsAreRecords, IsRecord
<1>. QED  BY <1>1 DEF NextLens, NextLen

(* The files of the index are where they were. *)
LEMMA SameFiles ==
    ASSUME heads' = heads, active' = active,
           \A i \in Live : cell'[active][heads[i]] = cell[active][heads[i]]
    PROVE  /\ Live' = Live /\ \A i \in Live : Entry(i)' = Entry(i)
           /\ Lens' = Lens /\ \A i \in Slots : LenOf(i)' = LenOf(i)
           /\ writer' = writer /\ wslot' = wslot =>
                /\ Packed' = Packed /\ \A n : PackedBelow(n)' = PackedBelow(n)
<1>1. Live' = Live /\ \A i \in Live : Entry(i)' = Entry(i)
  BY DEF Live, Entry
<1>2. \A i \in Slots : LenOf(i)' = LenOf(i)
  BY <1>1 DEF LenOf, Live
<1>3. Lens' = Lens
  BY <1>2 DEF Lens
<1>4. ASSUME writer' = writer, wslot' = wslot
      PROVE  Packed' = Packed /\ \A n : PackedBelow(n)' = PackedBelow(n)
  <2>1. \A i \in Slots : Size(i)' = Size(i)
    BY <1>1, <1>4 DEF Size
  <2>2. Sizes' = Sizes /\ \A n : SizesBelow(n)' = SizesBelow(n)
    BY <2>1 DEF Sizes, SizesBelow
  <2>. QED  BY <2>2 DEF Packed, PackedBelow
<1>. QED  BY <1>1, <1>2, <1>3, <1>4

(* So are those of the index under construction. *)
LEMMA SameNextFiles ==
    ASSUME nextheads' = nextheads, target' = target,
           \A i \in Slots : nextheads[i] # 0 => cell'[target][nextheads[i]] = cell[target][nextheads[i]]
    PROVE  NextLens' = NextLens /\ \A i \in Slots : NextLen(i)' = NextLen(i)
<1>1. \A i \in Slots : NextLen(i)' = NextLen(i)
  BY DEF NextLen
<1>. QED  BY <1>1 DEF NextLens

-----------------------------------------------------------------------------
(* Steps that change neither flash nor index.  They choose the next block, *)
(* and a block has its price.                                              *)

LEMMA QuietFits ==
    ASSUME IndInv, SpaceInv,
           UNCHANGED <<flashVars, indexVars, writer, wslot, oldlen, rotating, writebase, cursor, data,
                       nextheads>>,
           pc \in {"idle", "scratch", "reserve", "compact"},
           pc' \in {"idle", "scratch", "tag", "compact", "reserve", "fields", "payload", "erase"},
           target' = target \/ ~rotating,
           writer # Idle => failed' = failed,
           pc' = "tag" => ~TailUnusable,
           pc' = "fields" => writer # Idle,
           pc' \in {"compact", "erase"} => ~rotating,
           pc' = "payload" => Len(Incoming)' <= LIMIT - cursor,
           pc' = "payload" \/ (pc' \in {"compact", "erase"} /\ writer # Idle) =>
             livebytes - oldlen + Len(data) + Len(Incoming)' <= CAPACITY
    PROVE  SpaceInv'
<1>. USE DEF flashVars, indexVars
<1>1. /\ Live' = Live /\ \A i \in Live : Entry(i)' = Entry(i)
      /\ Lens' = Lens /\ \A i \in Slots : LenOf(i)' = LenOf(i)
      /\ Packed' = Packed
  BY SameFiles
<1>2. rotating => /\ target' = target /\ NextLens' = NextLens
                  /\ \A i \in Slots : NextLen(i)' = NextLen(i)
  BY SameNextFiles
<1>3. /\ Building' <=> rotating
      /\ Building <=> rotating
      /\ IndexEnd' = IndexEnd /\ (rotating => NextEnd' = NextEnd)
  BY DEF Building, IndexEnd, NextEnd
<1>4. LogsFit'
  BY <1>1, <1>2, <1>3, KeepsItself, LogsKept DEF SpaceInv, Sealed
<1>5. CursorInSector' /\ SlotsMatch' /\ TotalsKept' /\ TailIsClean'
  <2>1. CursorInSector' /\ TotalsKept'
    BY <1>1 DEF SpaceInv, SpaceFits, CursorInSector, TotalsKept
  <2>2. SlotsMatch'
    BY <1>1, <1>2, <1>3 DEF SpaceInv, SpaceFits, SlotsMatch
  <2>3. TailIsClean'
    <3>1. pc' \notin {"off", "scan", "condemned"} /\ ~dirty' /\ tail' <= LIMIT - HEADER
            => Clean(cell[active], tail)'
      BY DEF SpaceInv, SpaceFits, TailIsClean, Clean, Recorded
    <3>2. writer' # Idle \/ pc' \in {"tag", "fields", "commit"} => ~dirty' /\ tail' <= LIMIT - HEADER
      <4>1. tail \in Nat /\ LIMIT - HEADER \in Int /\ dirty \in BOOLEAN
        BY JournalAssumption DEF IndInv, TypeOK
      <4>2. ~TailUnusable => ~dirty /\ tail <= LIMIT - HEADER
        BY <4>1 DEF TailUnusable
      <4>. QED  BY <4>2 DEF SpaceInv, SpaceFits, TailIsClean
    <3>3. Building' => Clean(cell[target], NextEnd)'
      BY <1>2, <1>3 DEF SpaceInv, SpaceFits, TailIsClean, Clean, Recorded
    <3>. QED  BY <3>1, <3>2, <3>3 DEF TailIsClean
  <2>. QED  BY <2>1, <2>2, <2>3
<1>6. DraftFits' /\ WriteFits' /\ CopyFits' /\ CommitIsDraft'
  <2>1. DraftFits'
    <3>1. writer # Idle => wslot \in Slots
      BY DEF IndInv, TypeOK
    <3>. QED  BY <1>1, <3>1 DEF SpaceInv, SpaceFits, DraftFits
  <2>2. WriteFits'
    BY DEF WriteFits, Compacting
  <2>3. CopyFits'
    BY <1>1, <1>2, <1>3 DEF SpaceInv, SpaceFits, CopyFits
  <2>4. CommitIsDraft'
    BY DEF CommitIsDraft
  <2>. QED  BY <2>1, <2>2, <2>3, <2>4
<1>. QED  BY <1>4, <1>5, <1>6 DEF SpaceInv, SpaceFits

LEMMA RefuseFits ==
    ASSUME IndInv, SpaceInv, NEW e, Refuse(e), pc \in {"idle", "scratch"}
    PROVE  SpaceInv'
BY QuietFits DEF Refuse, Reply, flashVars, indexVars, draftVars, cursorVars

LEMMA PrepareFits ==
    ASSUME IndInv, SpaceInv, NEW j, Prepare(j), pc \in {"idle", "scratch"}
    PROVE  SpaceInv'
<1>1. CASE writer # Idle
  BY <1>1, RefuseFits DEF Prepare
<1>2. CASE writer = Idle
  <2>1. ~rotating
    BY <1>2 DEF IndInv, RotationIsAWrite
  <2>2. /\ rotating' = FALSE /\ pc' = IF TailUnusable THEN "compact" ELSE "tag"
        /\ UNCHANGED <<flashVars, indexVars, writer, wslot, oldlen, cursorVars>>
    BY <1>2 DEF Prepare
  <2>. QED  BY <1>2, <2>1, <2>2, QuietFits DEF cursorVars, IndInv, TypeOK
<1>. QED  BY <1>1, <1>2

LEMMA RequestFits ==
    ASSUME IndInv, SpaceInv, Request,
           ~\E f \in Channels : Close(f) \/ Abort(f)
    PROVE  SpaceInv'
<1>. USE DEF Serving
<1>1. ASSUME NEW n \in Names, NEW j, pc = "idle", StartWrite(n, j) PROVE SpaceInv'
  BY <1>1, RefuseFits, PrepareFits DEF StartWrite
<1>2. ASSUME NEW f \in Channels, NEW n \in Names, NEW append \in BOOLEAN, OpenWrite(f, n, append)
      PROVE  SpaceInv'
  BY <1>1, <1>2, RefuseFits DEF OpenWrite
<1>3. ASSUME NEW n \in Names, NEW srcs, Concat(n, srcs) PROVE SpaceInv'
  BY <1>1, <1>3, RefuseFits DEF Concat
<1>4. ASSUME NEW names, Scratch(names) PROVE SpaceInv'
  BY <1>4, RefuseFits, PrepareFits DEF Scratch
<1>5. ASSUME NEW new \in Names, NEW old \in Names, Rename(new, old) PROVE SpaceInv'
  BY <1>5, RefuseFits, PrepareFits DEF Rename
<1>6. ASSUME NEW n \in Names, NEW flag \in BOOLEAN, Attribute(n, flag) PROVE SpaceInv'
  BY <1>6, RefuseFits, PrepareFits DEF Attribute
<1>7. ASSUME Compact PROVE SpaceInv'
  <2>1. CASE \E e \in {0, 60} : Refuse(e)
    BY <1>7, <2>1, RefuseFits DEF Compact
  <2>2. CASE ~\E e \in {0, 60} : Refuse(e)
    <3>1. /\ pc = "idle" /\ writer = Idle /\ pc' = "compact" /\ rotating' = FALSE
          /\ UNCHANGED <<flashVars, indexVars, writer, wslot, oldlen, cursorVars>>
      BY <1>7, <2>2 DEF Compact
    <3>2. ~rotating
      BY <3>1 DEF IndInv, RotationIsAWrite
    <3>. QED  BY <3>1, <3>2, QuietFits DEF cursorVars, IndInv, TypeOK
  <2>. QED  BY <2>1, <2>2
<1>8. ASSUME NEW f \in Channels, NEW bytes, Write(f, bytes) PROVE SpaceInv'
  <2>1. CASE \E e \in {25, 61} : Refuse(e)
    BY <1>8, <2>1, RefuseFits DEF Write
  <2>2. CASE ~\E e \in {25, 61} : Refuse(e)
    <3>1. /\ pc = "idle" /\ pc' = "reserve"
          /\ UNCHANGED <<flashVars, indexVars, draftVars, cursorVars>>
      BY <1>8, <2>2 DEF Write
    <3>. QED  BY <3>1, QuietFits DEF draftVars, cursorVars
  <2>. QED  BY <2>1, <2>2
<1>9. ASSUME NEW f \in Channels, NEW n \in Names, OpenRead(f, n) PROVE SpaceInv'
  <2>1. CASE \E e \in {60, 62} : Refuse(e)
    BY <1>9, <2>1, RefuseFits DEF OpenRead
  <2>2. CASE ~\E e \in {60, 62} : Refuse(e)
    <3>1. pc = "idle" /\ pc' = "idle" /\ UNCHANGED <<flashVars, indexVars, draftVars, cursorVars>>
      BY <1>9, <2>2 DEF OpenRead, Reply
    <3>. QED  BY <3>1, QuietFits DEF draftVars, cursorVars
  <2>. QED  BY <2>1, <2>2
<1>10. ASSUME NEW f, NEW n, Read(f, n) \/ ListFiles(f) \/ NextEntry(f) PROVE SpaceInv'
  <2>1. pc = "idle" /\ pc' = "idle" /\ UNCHANGED <<flashVars, indexVars, draftVars, cursorVars>>
    BY <1>10 DEF Read, ListFiles, NextEntry, Reply
  <2>. QED  BY <2>1, QuietFits DEF draftVars, cursorVars
<1>. QED
  BY <1>2, <1>3, <1>4, <1>5, <1>6, <1>7, <1>8, <1>9, <1>10 DEF Request

-----------------------------------------------------------------------------
(* Requests that end without a record *)

KeepsFlash ==
    /\ \A s \in Sides : Sealed(s)' => Sealed(s) /\ Keeps(cell[s], cell'[s])
    /\ Keeps(cell[active], cell'[active])
    /\ rotating => Keeps(cell[target], cell'[target])

LEMMA SettledFits ==
    ASSUME IndInv, SpaceInv, KeepsFlash, Spares,
           pc \notin {"off", "scan", "condemned"}, pc' = "idle", Forget,
           UNCHANGED <<active, heads, livebytes, tail>>, dirty => dirty'
    PROVE  SpaceInv'
<1>. USE DEF Forget
<1>1. /\ Live' = Live /\ \A i \in Live : Entry(i)' = Entry(i)
      /\ Lens' = Lens
  BY SameFiles DEF Spares
<1>2. ~Building' /\ IndexEnd' = IndexEnd
  BY DEF Building, IndexEnd
<1>3. LogsFit'
  BY <1>1, <1>2, LogsKept DEF SpaceInv, KeepsFlash
<1>4. CursorInSector' /\ SlotsMatch' /\ TotalsKept'
  BY <1>1, <1>2, JournalAssumption DEF SpaceInv, SpaceFits, CursorInSector, SlotsMatch, TotalsKept
<1>5. TailIsClean'
  <2>1. ~dirty' /\ tail <= LIMIT - HEADER => Clean(cell'[active], tail)
    BY CleanKept DEF SpaceInv, SpaceFits, TailIsClean, KeepsFlash
  <2>. QED  BY <1>2, <2>1 DEF TailIsClean
<1>6. DraftFits' /\ WriteFits' /\ CopyFits' /\ CommitIsDraft'
  BY <1>2 DEF DraftFits, WriteFits, CopyFits, CommitIsDraft, Compacting
<1>. QED  BY <1>3, <1>4, <1>5, <1>6 DEF SpaceInv, SpaceFits

LEMMA GiveUpFits ==
    ASSUME IndInv, SpaceInv, NEW e, GiveUp(e), KeepsFlash, Spares,
           pc \in {"tag", "reserve", "payload", "fields", "commit", "compact", "erase", "copy",
                   "move", "seal", "activate"}
    PROVE  SpaceInv'
<1>. USE DEF GiveUp, Reply
<1>1. CASE job.op # "write"
  <2>1. /\ pc' = "idle" /\ Forget /\ UNCHANGED <<active, heads, livebytes, tail>>
        /\ dirty' = (dirty \/ SpoilsTail)
    BY <1>1
  <2>. QED  BY <2>1, SettledFits
<1>2. CASE job.op = "write"
  <2>1. /\ pc' = "idle" /\ failed' = TRUE
        /\ UNCHANGED <<active, heads, livebytes, tail, dirty, writer, rotating, wslot, oldlen, target,
                       writebase, cursor, data, nextheads>>
    BY <1>2 DEF cursorVars
  <2>2. writer # Idle /\ pc \in {"reserve", "payload", "compact", "erase", "copy", "move"}
    BY <1>2 DEF IndInv, RequestFitsBlock, Compacting, DraftIsNext
  <2>. HIDE DEF GiveUp
  <2>3. /\ Live' = Live /\ \A i \in Live : Entry(i)' = Entry(i)
        /\ Lens' = Lens /\ \A i \in Slots : LenOf(i)' = LenOf(i)
        /\ Packed' = Packed
    BY <2>1, SameFiles DEF Spares
  <2>4. rotating => NextLens' = NextLens /\ \A i \in Slots : NextLen(i)' = NextLen(i)
    BY <2>1, SameNextFiles DEF Spares
  <2>5. /\ Building' <=> rotating
        /\ rotating => Building /\ NextEnd' = NextEnd
        /\ IndexEnd' = IndexEnd
    BY <2>1, <2>2 DEF Building, NextEnd, IndexEnd
  <2>6. LogsFit'
    BY <2>1, <2>2, <2>3, <2>4, <2>5, LogsKept DEF SpaceInv, KeepsFlash
  <2>7. CursorInSector' /\ TotalsKept'
    BY <2>1, <2>2, <2>3 DEF SpaceInv, SpaceFits, CursorInSector, TotalsKept
  <2>8. SlotsMatch'
    BY <2>1, <2>2, <2>3, <2>5 DEF SpaceInv, SpaceFits, SlotsMatch, Spares
  <2>9. TailIsClean'
    <3>1. ~dirty /\ tail <= LIMIT - HEADER /\ Clean(cell'[active], tail)
      BY <2>2, CleanKept DEF SpaceInv, SpaceFits, TailIsClean, KeepsFlash
    <3>2. rotating => Clean(cell'[target], NextEnd)
      BY <2>5, CleanKept DEF SpaceInv, SpaceFits, TailIsClean, KeepsFlash
    <3>. QED  BY <2>1, <2>5, <3>1, <3>2 DEF TailIsClean
  <2>10. DraftFits' /\ WriteFits' /\ CommitIsDraft'
    <3>1. wslot \in Slots
      BY DEF IndInv, TypeOK
    <3>. QED
      BY <2>1, <2>2, <2>3, <3>1
      DEF SpaceInv, SpaceFits, DraftFits, WriteFits, CommitIsDraft, Compacting
  <2>11. CopyFits'
    BY <2>1, <2>2, <2>3, <2>4, <2>5 DEF SpaceInv, SpaceFits, CopyFits
  <2>. QED  BY <2>6, <2>7, <2>8, <2>9, <2>10, <2>11 DEF SpaceInv, SpaceFits
<1>. QED  BY <1>1, <1>2

LEMMA SameFlash ==
    ASSUME IndInv, UNCHANGED flashVars
    PROVE  KeepsFlash /\ Spares
BY KeepsItself DEF IndInv, TypeOK, flashVars, KeepsFlash, Spares, Sealed, SectorType

LEMMA CloseAbortFit ==
    ASSUME IndInv, SpaceInv, NEW f \in Channels, Close(f) \/ Abort(f)
    PROVE  SpaceInv'
<1>1. pc = "idle" /\ UNCHANGED flashVars
  BY DEF Close, Abort, Serving
<1>2. CASE /\ pc' = "fields" /\ writer = f
           /\ UNCHANGED <<indexVars, draftVars, cursorVars>>
  <2>1. writer # Idle
    BY <1>2, JournalAssumption
  <2>. QED  BY <1>1, <1>2, <2>1, QuietFits DEF draftVars, cursorVars
<1>3. CASE /\ pc' = "idle"
           /\ UNCHANGED <<indexVars, draftVars, cursorVars>>
  BY <1>1, <1>3, QuietFits DEF draftVars, cursorVars
<1>4. CASE /\ pc' = "idle" /\ Forget /\ dirty' = TRUE
           /\ UNCHANGED <<active, heads, livebytes, tail>>
  BY <1>1, <1>4, SameFlash, SettledFits
<1>5. CASE Close(f)
  BY <1>2, <1>3, <1>4, <1>5 DEF Close, Reply, indexVars
<1>6. CASE Abort(f)
  BY <1>4, <1>6 DEF Abort, Reply
<1>. QED  BY <1>5, <1>6

-----------------------------------------------------------------------------
(* Programming a payload, or a header without its commit byte, commits     *)
(* nothing.                                                                *)

LEMMA ProgrammedKeeps ==
    ASSUME NEW log, NEW off, NEW bytes
    PROVE  Keeps(log, Programmed(log, off, bytes))
BY DEF Keeps, Programmed, Over, Recorded, Byte, Junk, Blank

LEMMA UnitKeeps ==
    ASSUME cell \in [Sides -> Log], NEW s \in Sides, NEW o, NEW new \in Cell,
           ~(new.k = "rec" /\ new.commit), new # Blank,
           cell' = WithUnit(cell, s, o, new), sector' = sector
    PROVE  /\ \A r \in Sides : Keeps(cell[r], cell'[r])
           /\ active \in Sides /\ target \in Sides => KeepsFlash
<1>1. \A r \in Sides, p \in Offsets : cell'[r][p] = IF r = s /\ p = o THEN new ELSE cell[r][p]
  BY UnitType
<1>2. \A r \in Sides : Keeps(cell[r], cell'[r])
  BY <1>1 DEF Keeps, Recorded
<1>. QED  BY <1>2 DEF KeepsFlash, Sealed

LEMMA TagRecordFits ==
    ASSUME IndInv, SpaceInv, TagRecord
    PROVE  SpaceInv'
<1>1. /\ pc = "tag" /\ writer = Idle /\ ~rotating /\ ~dirty /\ tail <= LIMIT - HEADER
      /\ job.op \in {"open", "concat", "scratch", "metadata"} /\ job.slot \in Slots
  BY JobType
  DEF TagRecord, SpaceInv, SpaceFits, TailIsClean, IndInv, TypeOK, DraftIsNext, RotationIsAWrite,
      RequestFitsBlock
<1>2. /\ tail \in Nat /\ HEADER \in Nat /\ LIMIT \in Nat /\ active \in Sides /\ target \in Sides
      /\ cell \in [Sides -> Log] /\ livebytes \in Nat
  BY JournalAssumption DEF IndInv, TypeOK, Log
<1>3. /\ target' = active /\ writebase' = tail /\ cursor' = tail + HEADER /\ data' = <<>>
      /\ cell' = WithUnit(cell, active, tail, Over(cell[active][tail], Tag))
      /\ sector' = sector /\ rotating' = FALSE
      /\ UNCHANGED <<active, heads, livebytes, tail, dirty>>
      /\ pc' \in {"idle", "reserve", "fields"}
      /\ job.op \in {"open", "concat"} => wslot' = job.slot /\ oldlen' = ReplacedLength
      /\ job.op \in {"scratch", "metadata"} => writer' = Idle
  BY <1>1 DEF TagRecord, BeginDraft, Reply, WithUnit, indexVars
<1>4. \A s \in Sides : Keeps(cell[s], cell'[s])
  <2>1. /\ Over(cell[active][tail], Tag) \in Cell /\ Over(cell[active][tail], Tag) # Blank
        /\ Over(cell[active][tail], Tag).k # "rec"
    BY CellType, OverType DEF Over, Tag, Junk, Blank
  <2>. QED  BY <1>2, <1>3, <2>1, UnitKeeps
<1>5. \A i \in Live : cell'[active][heads[i]] = cell[active][heads[i]]
  <2>1. \A i \in Live : heads[i] \in Offsets /\ heads[i] < tail /\ heads[i] # tail
    BY <1>1, <1>2 DEF IndInv, HeadsAreRecords, IsRecord, IndexEnd, Offsets
  <2>2. Over(cell[active][tail], Tag) \in Cell
    BY CellType, OverType
  <2>. QED  BY <1>2, <1>3, <2>1, <2>2, UnitType
<1>6. /\ Live' = Live /\ \A i \in Live : Entry(i)' = Entry(i)
      /\ Lens' = Lens /\ \A i \in Slots : LenOf(i)' = LenOf(i)
  BY <1>3, <1>5, SameFiles
<1>7. ~Building' /\ IndexEnd' = IndexEnd
  BY <1>1, <1>3 DEF Building, IndexEnd
<1>8. LogsFit'
  BY <1>1, <1>2, <1>3, <1>4, <1>6, <1>7, LogsKept DEF SpaceInv, Sealed
<1>9. CursorInSector' /\ SlotsMatch' /\ TotalsKept'
  <2>1. cursor' <= LIMIT
    BY <1>1, <1>2, <1>3
  <2>. QED
    BY <1>1, <1>3, <1>6, <1>7, <2>1 DEF SpaceInv, SpaceFits, CursorInSector, SlotsMatch, TotalsKept
<1>10. TailIsClean'
  <2>1. Clean(cell'[active], tail)
    BY <1>1, <1>2, <1>4, CleanKept DEF SpaceInv, SpaceFits, TailIsClean
  <2>. QED  BY <1>1, <1>3, <1>7, <2>1 DEF TailIsClean
<1>11. DraftFits'
  <2>1. CASE job.op \in {"open", "concat"}
    <3>1. oldlen' = LenOf(job.slot) /\ LenOf(job.slot) \in Nat
      BY <1>1, <1>3, <2>1, LensType DEF ReplacedLength, LenOf
    <3>2. livebytes <= CAPACITY
      BY <1>1 DEF SpaceInv, SpaceFits, TotalsKept
    <3>3. livebytes - oldlen' + Len(data') <= CAPACITY /\ cursor' = writebase' + HEADER + Len(data')
      BY <1>2, <1>3, <3>1, <3>2, JournalAssumption
    <3>. QED  BY <1>1, <1>3, <1>6, <2>1, <3>1, <3>3 DEF DraftFits
  <2>2. CASE job.op \in {"scratch", "metadata"}
    BY <1>3, <2>2 DEF DraftFits
  <2>. QED  BY <1>1, <2>1, <2>2
<1>12. WriteFits' /\ CopyFits' /\ CommitIsDraft'
  BY <1>3, <1>7 DEF WriteFits, CopyFits, CommitIsDraft, Compacting
<1>. QED  BY <1>8, <1>9, <1>10, <1>11, <1>12 DEF SpaceInv, SpaceFits

LEMMA TagFailsFits ==
    ASSUME IndInv, SpaceInv, TagFails
    PROVE  SpaceInv'
<1>. USE DEF TagFails
<1>1. tail \in Nat /\ active \in Sides /\ target \in Sides /\ cell \in [Sides -> Log] /\ ~rotating
  BY DEF IndInv, TypeOK, Log, DraftIsNext, RotationIsAWrite
<1>2. cell' \in [Sides -> Log] /\ \A o \in Offsets : o < tail => cell'[active][o] = cell[active][o]
  BY <1>1, CellType DEF Log
<1>3. Spares
  <2>1. \A i \in Live : heads[i] \in Offsets /\ heads[i] < tail
    BY DEF IndInv, HeadsAreRecords, IsRecord, IndexEnd
  <2>. QED  BY <1>1, <1>2, <2>1 DEF IndInv, TypeOK, SectorType, Spares, Log
<1>4. KeepsFlash
  <2>1. CASE cell' = cell
    BY <2>1, KeepsItself DEF KeepsFlash, Sealed
  <2>2. CASE cell' = [cell EXCEPT ![active][tail] = Junk]
    <3>1. cell' = WithUnit(cell, active, tail, Junk)
      BY <2>2 DEF WithUnit
    <3>2. Junk \in Cell /\ Junk # Blank /\ Junk.k # "rec"
      BY CellType DEF Junk, Blank
    <3>. QED  BY <1>1, <3>1, <3>2, UnitKeeps
  <2>. QED  BY <2>1, <2>2
<1>. QED  BY <1>3, <1>4, GiveUpFits

-----------------------------------------------------------------------------
(* What a compaction packs, and a record besides, always fits.             *)

LEMMA HeadersFit ==
    ASSUME NEW n \in Nat, n <= CAPACITY
    PROVE  MAXFILES * HEADER \in Nat /\ HEADER + MAXFILES * HEADER + n + HEADER <= LIMIT
<1>1. MAXFILES \in Nat /\ HEADER \in Nat /\ CAPACITY \in Nat /\ LIMIT \in Nat
  BY JournalAssumption
<1>2. (MAXFILES + 1) * HEADER = MAXFILES * HEADER + HEADER /\ MAXFILES * HEADER \in Nat
  BY <1>1
<1>. DEFINE all == MAXFILES * HEADER
<1>3. all \in Nat /\ HEADER + (all + HEADER) + CAPACITY <= LIMIT
  BY <1>1, <1>2, JournalAssumption
<1>. HIDE DEF all
<1>4. HEADER + all + n + HEADER <= LIMIT
  BY <1>1, <1>3
<1>. QED  BY <1>3, <1>4 DEF all

LEMMA PackedFits ==
    ASSUME IndInv, SpaceInv, pc \notin {"off", "scan", "condemned"}
    PROVE  /\ Packed \in Nat /\ Packed + HEADER <= LIMIT
           /\ writer # Idle => \A n \in Nat : livebytes - oldlen + n <= CAPACITY => Packed + HEADER + n <= LIMIT
           /\ \A n : PackedBelow(n) \in Nat /\ PackedBelow(n) <= Packed
<1>. DEFINE spared == IF writer = Idle THEN 0 ELSE LenOf(wslot)
            rest == [i \in Slots |-> IF writer # Idle /\ i = wslot THEN 0 ELSE LenOf(i)]
<1>1. /\ wslot \in Slots /\ livebytes \in Nat /\ oldlen \in Nat /\ HEADER \in Nat /\ CAPACITY \in Nat
      /\ LIMIT \in Nat /\ MAXFILES \in Nat
  BY JournalAssumption DEF IndInv, TypeOK
<1>2. livebytes = Sum(Lens) /\ livebytes <= CAPACITY /\ (writer # Idle => oldlen = spared)
  BY DEF SpaceInv, SpaceFits, TotalsKept, DraftFits
<1>3. /\ Lens \in [Slots -> Nat] /\ Sizes \in [Slots -> Nat]
      /\ \A n : SizesBelow(n) \in [Slots -> Nat]
      /\ \A i \in Slots : LenOf(i) \in Nat /\ Size(i) \in Nat
  BY LensType
<1>4. rest \in [Slots -> Nat] /\ spared \in Nat
  BY <1>1, <1>3
<1>5. Sum(rest) = livebytes - spared /\ Sum(rest) \in Nat
  <2>1. CASE writer = Idle
    <3>1. rest = Lens
      BY <2>1 DEF Lens
    <3>. QED  BY <1>1, <1>2, <2>1, <3>1
  <2>2. CASE writer # Idle
    <3>1. \A i \in Slots : i # wslot => rest[i] = Lens[i]
      BY DEF Lens
    <3>2. rest[wslot] = 0 /\ Lens[wslot] = spared
      BY <1>1, <2>2 DEF Lens
    <3>. HIDE DEF rest, spared
    <3>3. Sum(rest) + Lens[wslot] = Sum(Lens) + rest[wslot]
      BY <1>1, <1>3, <1>4, <3>1, SumChange
    <3>4. Sum(rest) \in Nat
      BY <1>4, SumType
    <3>. QED  BY <1>1, <1>2, <1>4, <3>2, <3>3, <3>4
  <2>. QED  BY <2>1, <2>2
<1>6. \A i \in Slots : Sizes[i] <= rest[i] + HEADER
  <2>1. ASSUME NEW i \in Slots PROVE Size(i) <= rest[i] + HEADER
    <3>1. rest[i] \in Nat
      BY <1>4
    <3>2. CASE i \in Live /\ ~(writer # Idle /\ i = wslot)
      <4>1. Size(i) = HEADER + Entry(i).len /\ rest[i] = Entry(i).len
        BY <3>2 DEF Size, LenOf, Live
      <4>. QED  BY <1>1, <3>1, <4>1
    <3>3. CASE ~(i \in Live /\ ~(writer # Idle /\ i = wslot))
      BY <1>1, <3>1, <3>3 DEF Size
    <3>. QED  BY <3>2, <3>3
  <2>. QED  BY <2>1 DEF Sizes
<1>. HIDE DEF rest
<1>7. Sum(Sizes) <= livebytes - spared + MAXFILES * HEADER /\ Sum(Sizes) \in Nat
  BY <1>1, <1>3, <1>4, <1>5, <1>6, SumBound, SumType
<1>. DEFINE left == livebytes - spared
            all == MAXFILES * HEADER
<1>8. left \in Nat /\ left <= CAPACITY /\ all \in Nat
  BY <1>1, <1>2, <1>4, <1>5, HeadersFit
<1>9. Packed = HEADER + Sum(Sizes)
  BY DEF Packed
<1>10. ASSUME NEW n \in Nat, left + n <= CAPACITY PROVE Packed + HEADER + n <= LIMIT
  <2>1. HEADER + all + (left + n) + HEADER <= LIMIT
    BY <1>8, <1>10, HeadersFit
  <2>. HIDE DEF left, all
  <2>2. Sum(Sizes) <= left + all /\ Sum(Sizes) \in Nat
    BY <1>7 DEF left, all
  <2>. QED  BY <1>1, <1>8, <1>9, <2>1, <2>2
<1>11. Packed \in Nat /\ Packed + HEADER <= LIMIT
  <2>1. left + 0 <= CAPACITY
    BY <1>8
  <2>2. Packed + HEADER + 0 <= LIMIT
    BY <1>10, <2>1
  <2>. QED  BY <1>1, <1>7, <1>9, <2>2
<1>12. ASSUME writer # Idle, NEW n \in Nat, livebytes - oldlen + n <= CAPACITY
       PROVE  Packed + HEADER + n <= LIMIT
  BY <1>2, <1>10, <1>12
<1>13. ASSUME NEW n PROVE PackedBelow(n) \in Nat /\ PackedBelow(n) <= Packed
  <2>1. \A i \in Slots : SizesBelow(n)[i] <= Sizes[i]
    BY <1>3 DEF SizesBelow, Sizes
  <2>2. Sum(SizesBelow(n)) <= Sum(Sizes) /\ Sum(SizesBelow(n)) \in Nat
    BY <1>3, <2>1, SumMonotone, SumType
  <2>. QED  BY <1>1, <1>7, <1>9, <2>2 DEF PackedBelow
<1>. QED  BY <1>11, <1>12, <1>13

-----------------------------------------------------------------------------
(* Writing *)

(* What a request brings is on the side that is not rebuilt. *)
LEMMA SameIncoming ==
    ASSUME IndInv, UNCHANGED <<job, active, heads, wslot>>, cell'[active] = cell[active]
    PROVE  Incoming' = Incoming
<1>1. \A n : Named(n)' = Named(n)
  BY DEF Named, Live, Entry
<1>2. \A i : Contents(i)' = Contents(i)
  BY DEF Contents, Stored, Get, Entry
<1>. QED  BY <1>1, <1>2 DEF Incoming

LEMMA ReserveFits ==
    ASSUME IndInv, SpaceInv, Reserve
    PROVE  SpaceInv'
<1>1. CASE \E e \in {62, 72} : GiveUp(e) /\ UNCHANGED flashVars
  BY <1>1, SameFlash, GiveUpFits DEF Reserve
<1>2. CASE ~\E e \in {62, 72} : GiveUp(e) /\ UNCHANGED flashVars
  <2>1. /\ pc = "reserve" /\ pc' = IF Len(Incoming) > LIMIT - cursor THEN "compact" ELSE "payload"
        /\ ~(Len(Incoming) > Room)
        /\ job.op = "concat" => Named(Head(job.srcs)) # {}
        /\ UNCHANGED <<flashVars, indexVars, draftVars, cursorVars, job>>
    BY <1>2 DEF Reserve
  <2>2. Incoming' = Incoming /\ Len(Incoming) \in Nat
    BY <2>1, SameIncoming, IncomingType, LenProperties DEF flashVars, indexVars, draftVars
  <2>3. /\ writer # Idle /\ oldlen = LenOf(wslot) /\ cursor = writebase + HEADER + Len(data)
        /\ rotating => writebase <= Packed
    BY <2>1 DEF IndInv, RequestFitsBlock, SpaceInv, SpaceFits, DraftFits, CopyFits
  <2>4. /\ livebytes \in Nat /\ oldlen \in Nat /\ writebase \in Nat /\ cursor \in Nat /\ HEADER \in Nat
        /\ Len(data) \in Nat /\ CAPACITY \in Nat /\ LIMIT \in Nat
    BY JournalAssumption, LenProperties DEF IndInv, TypeOK
  <2>5. livebytes - oldlen + Len(data) + Len(Incoming) <= CAPACITY
    BY <2>1, <2>2, <2>3, <2>4 DEF Room, Length
  <2>6. ASSUME rotating PROVE Len(Incoming) <= LIMIT - cursor
    <3>1. /\ Packed \in Nat
          /\ \A n \in Nat : livebytes - oldlen + n <= CAPACITY => Packed + HEADER + n <= LIMIT
      BY <2>1, <2>3, PackedFits
    <3>. DEFINE all == Len(data) + Len(Incoming)
    <3>2. all \in Nat /\ livebytes - oldlen + all <= CAPACITY
      BY <2>2, <2>4, <2>5
    <3>. HIDE DEF all
    <3>3. Packed + HEADER + all <= LIMIT
      BY <3>1, <3>2
    <3>4. Packed + HEADER + (Len(data) + Len(Incoming)) <= LIMIT
      BY <3>3 DEF all
    <3>. QED  BY <2>2, <2>3, <2>4, <2>6, <3>1, <3>4
  <2>7. /\ pc' = "payload" => Len(Incoming)' <= LIMIT - cursor
        /\ pc' \in {"compact", "erase"} => ~rotating
    BY <2>1, <2>2, <2>4, <2>6
  <2>. QED  BY <2>1, <2>2, <2>5, <2>7, QuietFits DEF draftVars, cursorVars
<1>. QED  BY <1>1, <1>2

LEMMA PayloadFits ==
    ASSUME IndInv, SpaceInv, Payload
    PROVE  SpaceInv'
<1>1. /\ pc = "payload" /\ pc' \in {"idle", "reserve", "fields"}
      /\ cell' = [cell EXCEPT ![target] = Programmed(@, cursor, Incoming)] /\ sector' = sector
      /\ cursor' = cursor + Len(Incoming) /\ data' = data \o Incoming
      /\ UNCHANGED <<active, heads, livebytes, tail, dirty, writer, failed, rotating, wslot, oldlen,
                     target, writebase, nextheads>>
  BY DEF Payload, Reply, indexVars, draftVars
<1>2. /\ writer # Idle /\ ~failed /\ wslot \in Slots
      /\ Incoming \in Seq(Values) /\ Len(Incoming) \in Nat
      /\ data \in Seq(Values) /\ Len(data) \in Nat
      /\ cursor \in Nat /\ writebase \in Nat /\ HEADER \in Nat /\ LIMIT \in Nat
      /\ livebytes \in Nat /\ oldlen \in Nat
      /\ cell \in [Sides -> Log] /\ target \in Sides /\ active \in Sides
  BY <1>1, IncomingType, LenProperties, JournalAssumption DEF IndInv, TypeOK, RequestFitsBlock, Log
<1>3. Spares
  BY <1>1, <1>2, PayloadSpares
<1>4. \A s \in Sides : Keeps(cell[s], cell'[s])
  <2>1. \A s \in Sides : cell'[s] = IF s = target THEN Programmed(cell[target], cursor, Incoming) ELSE cell[s]
    BY <1>1, <1>2
  <2>. QED  BY <2>1, ProgrammedKeeps, KeepsItself
<1>5. /\ Live' = Live /\ \A i \in Live : Entry(i)' = Entry(i)
      /\ Lens' = Lens /\ \A i \in Slots : LenOf(i)' = LenOf(i)
      /\ Packed' = Packed
  BY <1>1, <1>3, SameFiles DEF Spares
<1>6. rotating => NextLens' = NextLens /\ \A i \in Slots : NextLen(i)' = NextLen(i)
  BY <1>1, <1>3, SameNextFiles DEF Spares
<1>7. /\ Building' <=> rotating
      /\ Building <=> rotating
      /\ IndexEnd' = IndexEnd /\ (rotating => NextEnd' = NextEnd)
  BY <1>1 DEF Building, IndexEnd, NextEnd
<1>8. LogsFit'
  BY <1>1, <1>2, <1>4, <1>5, <1>6, <1>7, LogsKept DEF SpaceInv, Sealed
<1>9. CursorInSector' /\ SlotsMatch' /\ TotalsKept'
  <2>1. CursorInSector'
    BY <1>1, <1>2 DEF SpaceInv, SpaceFits, WriteFits, CursorInSector
  <2>2. SlotsMatch'
    BY <1>1, <1>3, <1>5, <1>7 DEF SpaceInv, SpaceFits, SlotsMatch, Spares
  <2>3. TotalsKept'
    BY <1>1, <1>5 DEF SpaceInv, SpaceFits, TotalsKept
  <2>. QED  BY <2>1, <2>2, <2>3
<1>10. TailIsClean'
  <2>1. ~dirty /\ tail <= LIMIT - HEADER /\ Clean(cell'[active], tail)
    BY <1>1, <1>2, <1>4, CleanKept DEF SpaceInv, SpaceFits, TailIsClean
  <2>2. rotating => Clean(cell'[target], NextEnd)
    BY <1>2, <1>4, <1>7, CleanKept DEF SpaceInv, SpaceFits, TailIsClean
  <2>. QED  BY <1>1, <1>7, <2>1, <2>2 DEF TailIsClean
<1>11. DraftFits'
  <2>1. Len(data') = Len(data) + Len(Incoming)
    BY <1>1, <1>2, ConcatProperties
  <2>2. /\ oldlen = LenOf(wslot) /\ cursor = writebase + HEADER + Len(data)
        /\ livebytes - oldlen + Len(data) + Len(Incoming) <= CAPACITY
    BY <1>1, <1>2 DEF SpaceInv, SpaceFits, DraftFits, WriteFits
  <2>3. cursor' = writebase + HEADER + Len(data') /\ livebytes - oldlen + Len(data') <= CAPACITY
    BY <1>1, <1>2, <2>1, <2>2, JournalAssumption
  <2>. QED  BY <1>1, <1>2, <1>5, <2>2, <2>3 DEF DraftFits
<1>12. WriteFits' /\ CopyFits' /\ CommitIsDraft'
  <2>1. CopyFits'
    BY <1>1, <1>5, <1>6, <1>7 DEF SpaceInv, SpaceFits, CopyFits
  <2>. QED  BY <1>1, <2>1 DEF WriteFits, CommitIsDraft, Compacting
<1>. QED  BY <1>8, <1>9, <1>10, <1>11, <1>12 DEF SpaceInv, SpaceFits

LEMMA PayloadFailsFits ==
    ASSUME IndInv, SpaceInv, PayloadFails
    PROVE  SpaceInv'
<1>1. PICK n \in 0..(Len(Incoming) - 1) :
        cell' = [cell EXCEPT ![target] = Programmed(@, cursor, SubSeq(Incoming, 1, n))]
  BY DEF PayloadFails
<1>2. pc = "payload" /\ sector' = sector /\ GiveUp(25)
  BY DEF PayloadFails
<1>3. /\ Incoming \in Seq(Values)
      /\ cell \in [Sides -> Log] /\ target \in Sides /\ active \in Sides
  BY <1>2, IncomingType DEF IndInv, TypeOK, Log
<1>4. SubSeq(Incoming, 1, n) \in Seq(Values)
  <2>1. n \in Int /\ \A k \in 1..n : Incoming[k] \in Values
    BY <1>3, LenProperties
  <2>. QED  BY <2>1, SubSeqProperties
<1>5. Spares
  BY <1>1, <1>2, <1>4, PayloadSpares
<1>6. \A s \in Sides : cell'[s] = IF s = target THEN Programmed(cell[target], cursor, SubSeq(Incoming, 1, n))
                                                ELSE cell[s]
  BY <1>1, <1>3
<1>7. KeepsFlash
  BY <1>2, <1>3, <1>6, ProgrammedKeeps, KeepsItself DEF KeepsFlash, Sealed
<1>. QED  BY <1>2, <1>5, <1>7, GiveUpFits

LEMMA HeaderJunkKeeps ==
    ASSUME IndInv, pc \in {"fields", "commit"},
           cell' = [cell EXCEPT ![target][writebase] = Junk], sector' = sector
    PROVE  KeepsFlash /\ Spares
<1>1. cell' = WithUnit(cell, target, writebase, Junk)
  BY DEF WithUnit
<1>2. Junk \in Cell /\ Junk # Blank /\ Junk.k # "rec"
  BY CellType DEF Junk, Blank
<1>3. cell \in [Sides -> Log] /\ target \in Sides /\ active \in Sides
  BY DEF IndInv, TypeOK, Log
<1>. QED  BY <1>1, <1>2, <1>3, HeaderSpares, UnitKeeps

LEMMA RecordFailsFits ==
    ASSUME IndInv, SpaceInv, RecordFails
    PROVE  SpaceInv'
BY HeaderJunkKeeps, GiveUpFits DEF RecordFails

(* What the new record says. *)
LEMMA NewRecordFits ==
    ASSUME IndInv, SpaceInv, pc = "fields"
    PROVE  /\ NewRecord \in Record /\ ~NewRecord.commit /\ NewRecord.span = cursor - writebase
           /\ writer # Idle => /\ NewRecord.kind = 1 /\ NewRecord.slot = wslot
                               /\ NewRecord.drop = NoSlot /\ NewRecord.len = Len(data)
           /\ writer = Idle => NewRecord.slot = job.slot /\ NewRecord.len = LenOf(job.slot)
<1>1. NewRecord \in Record
  BY NewRecordType
<1>2. /\ job.op \in {"close", "concat", "scratch", "metadata"} /\ job \in Jobs /\ ~failed
      /\ job.op \in {"close", "concat"} <=> writer # Idle
      /\ job.op \in {"scratch", "metadata"} => writebase = tail /\ cursor = tail + HEADER
      /\ tail \in Nat /\ HEADER \in Nat /\ cursor \in Nat /\ writebase \in Nat
      /\ data \in Seq(Values) /\ Len(data) \in Nat
  BY JournalAssumption, LenProperties DEF IndInv, TypeOK, RequestFitsBlock
<1>3. CASE job.op \in {"close", "concat"}
  <2>1. cursor = writebase + HEADER + Len(data)
    BY <1>2, <1>3 DEF SpaceInv, SpaceFits, DraftFits
  <2>2. Length = Len(data)
    BY <1>2, <2>1 DEF Length
  <2>. QED  BY <1>1, <1>2, <1>3, <2>2 DEF NewRecord
<1>4. CASE job.op \in {"scratch", "metadata"}
  <2>1. job.slot \in Live /\ Entry(job.slot) \in Record /\ Entry(job.slot).slot = job.slot
    <3>1. job.slot \in Live
      BY <1>2, <1>4, JobType DEF IndInv, SourcesExist, Live
    <3>. QED  BY <3>1, EntryType DEF SpaceInv, SpaceFits, SlotsMatch
  <2>2. LenOf(job.slot) = Entry(job.slot).len
    BY <2>1 DEF LenOf, Live
  <2>3. cursor - writebase = HEADER
    BY <1>2, <1>4
  <2>4. CASE job.op = "scratch"
    BY <1>1, <1>2, <2>1, <2>2, <2>3, <2>4 DEF NewRecord, Record
  <2>5. CASE job.op = "metadata"
    BY <1>1, <1>2, <2>1, <2>2, <2>3, <2>5 DEF NewRecord, Record
  <2>. QED  BY <1>4, <2>4, <2>5
<1>. QED  BY <1>2, <1>3, <1>4

LEMMA DraftPlace ==
    ASSUME IndInv, SpaceInv, pc \in {"fields", "commit"}
    PROVE  /\ writebase \in Offsets /\ cursor >= writebase + HEADER /\ cursor <= LIMIT
           /\ cursor \in Nat /\ writebase \in Nat /\ cursor - writebase \in Nat \ {0}
<1>1. /\ cursor \in Nat /\ writebase \in Nat /\ HEADER \in Nat \ {0} /\ tail \in Nat /\ LIMIT \in Nat
  BY JournalAssumption DEF IndInv, TypeOK
<1>2. cursor <= LIMIT
  BY DEF SpaceInv, SpaceFits, CursorInSector
<1>3. cursor >= writebase + HEADER
  <2>1. CASE writer # Idle
    BY <2>1 DEF IndInv, DraftIsNext, RequestFitsBlock
  <2>2. CASE writer = Idle
    <3>1. writebase = tail /\ cursor = tail + HEADER
      BY <2>2 DEF IndInv, RequestFitsBlock
    <3>. QED  BY <1>1, <3>1
  <2>. QED  BY <2>1, <2>2
<1>. QED  BY <1>1, <1>2, <1>3 DEF Offsets

LEMMA FieldsFits ==
    ASSUME IndInv, SpaceInv, Fields
    PROVE  SpaceInv'
<1>1. CASE cell' = [cell EXCEPT ![target][writebase] = Junk] /\ GiveUp(25)
  BY <1>1, HeaderJunkKeeps, GiveUpFits DEF Fields
<1>2. CASE /\ cell' = [cell EXCEPT ![target][writebase] = NewRecord]
           /\ pc' = "commit"
           /\ UNCHANGED <<indexVars, draftVars, cursorVars, job>>
  <2>1. /\ pc = "fields" /\ sector' = sector
        /\ UNCHANGED <<active, heads, livebytes, tail, dirty, writer, failed, rotating, wslot, oldlen,
                       target, writebase, cursor, data, nextheads, job>>
    BY <1>2 DEF Fields, indexVars, draftVars, cursorVars
  <2>2. /\ NewRecord \in Record /\ ~NewRecord.commit /\ NewRecord.span = cursor - writebase
        /\ writer # Idle => /\ NewRecord.kind = 1 /\ NewRecord.slot = wslot
                            /\ NewRecord.drop = NoSlot /\ NewRecord.len = Len(data)
        /\ writer = Idle => NewRecord.slot = job.slot /\ NewRecord.len = LenOf(job.slot)
    BY <2>1, NewRecordFits
  <2>3. NewRecord \in Cell /\ NewRecord # Blank
    BY <2>2, CellType DEF Record, Blank
  <2>4. cell' = WithUnit(cell, target, writebase, NewRecord)
    BY <1>2 DEF WithUnit
  <2>5. cell \in [Sides -> Log] /\ target \in Sides /\ active \in Sides
    BY DEF IndInv, TypeOK, Log
  <2>6. (\A s \in Sides : Keeps(cell[s], cell'[s])) /\ Spares
    BY <2>1, <2>2, <2>3, <2>4, <2>5, UnitKeeps, HeaderSpares
  <2>7. cell'[target][writebase] = NewRecord
    BY <2>1, <2>3, <2>4, DraftPlace, HeaderSpares
  <2>8. /\ Live' = Live /\ \A i \in Live : Entry(i)' = Entry(i)
        /\ Lens' = Lens /\ \A i \in Slots : LenOf(i)' = LenOf(i)
        /\ Packed' = Packed
    BY <2>1, <2>6, SameFiles DEF Spares
  <2>9. rotating => NextLens' = NextLens /\ \A i \in Slots : NextLen(i)' = NextLen(i)
    BY <2>1, <2>6, SameNextFiles DEF Spares
  <2>10. /\ Building' <=> rotating
         /\ Building <=> rotating
         /\ IndexEnd' = IndexEnd /\ (rotating => NextEnd' = NextEnd)
    BY <1>2, <2>1 DEF Building, IndexEnd, NextEnd
  <2>11. LogsFit'
    BY <1>2, <2>1, <2>5, <2>6, <2>8, <2>9, <2>10, LogsKept DEF SpaceInv, Sealed
  <2>12. CursorInSector' /\ SlotsMatch' /\ TotalsKept'
    <3>1. CursorInSector' /\ TotalsKept'
      BY <1>2, <2>1, <2>8 DEF SpaceInv, SpaceFits, CursorInSector, TotalsKept
    <3>2. SlotsMatch'
      BY <1>2, <2>1, <2>6, <2>8, <2>10 DEF SpaceInv, SpaceFits, SlotsMatch, Spares
    <3>. QED  BY <3>1, <3>2
  <2>13. TailIsClean'
    <3>1. ~dirty /\ tail <= LIMIT - HEADER /\ Clean(cell'[active], tail)
      BY <2>1, <2>5, <2>6, CleanKept DEF SpaceInv, SpaceFits, TailIsClean
    <3>2. rotating => Clean(cell'[target], NextEnd)
      BY <2>5, <2>6, <2>10, CleanKept DEF SpaceInv, SpaceFits, TailIsClean
    <3>. QED  BY <2>1, <2>10, <3>1, <3>2 DEF TailIsClean
  <2>14. DraftFits'
    <3>1. wslot \in Slots /\ (writer # Idle => ~failed)
      BY <2>1 DEF IndInv, TypeOK, RequestFitsBlock
    <3>. QED  BY <1>2, <2>1, <2>8, <3>1 DEF SpaceInv, SpaceFits, DraftFits
  <2>15. WriteFits' /\ CopyFits'
    BY <1>2, <2>1, <2>8, <2>9, <2>10 DEF SpaceInv, SpaceFits, WriteFits, CopyFits, Compacting
  <2>16. CommitIsDraft'
    <3>1. writer = Idle => job.slot \in Slots
      BY <2>1, JobType DEF IndInv, TypeOK, RequestFitsBlock
    <3>. QED  BY <1>2, <2>1, <2>2, <2>7, <2>8, <3>1 DEF CommitIsDraft
  <2>. QED  BY <2>11, <2>12, <2>13, <2>14, <2>15, <2>16 DEF SpaceInv, SpaceFits
<1>. QED  BY <1>1, <1>2 DEF Fields

(* The new record of a commit, where it lies and what it changes. *)
LEMMA CommitRecord ==
    ASSUME IndInv, SpaceInv, Commit
    PROVE  LET r == cell'[target][writebase] IN
           /\ r \in Record /\ r.commit
           /\ r = [cell[target][writebase] EXCEPT !.commit = TRUE]
           /\ r.span = cursor - writebase
           /\ writer # Idle => r.kind = 1 /\ r.slot = wslot /\ r.drop = NoSlot /\ r.len = Len(data)
           /\ writer = Idle => r.slot = job.slot /\ r.len = LenOf(job.slot)
           /\ \A s \in Sides, o \in Offsets : s # target \/ o # writebase => cell'[s][o] = cell[s][o]
           /\ Spares
<1>. DEFINE old == cell[target][writebase]
            new == [old EXCEPT !.commit = TRUE]
<1>1. pc = "commit" /\ cell' = WithUnit(cell, target, writebase, new) /\ sector' = sector
  BY DEF Commit, WithUnit
<1>2. old \in Record /\ writebase \in Offsets
  BY <1>1 DEF IndInv, RequestFitsBlock, IsRecord
<1>3. new \in Record /\ new \in Cell /\ new.commit
  BY <1>2, CellType DEF Record
<1>4. /\ new.kind = old.kind /\ new.slot = old.slot /\ new.drop = old.drop /\ new.len = old.len
      /\ new.span = old.span
  BY <1>2 DEF Record
<1>5. /\ old.span = cursor - writebase
      /\ writer # Idle => old.kind = 1 /\ old.slot = wslot /\ old.drop = NoSlot /\ old.len = Len(data)
      /\ writer = Idle => old.slot = job.slot /\ old.len = LenOf(job.slot)
  BY <1>1 DEF SpaceInv, SpaceFits, CommitIsDraft
<1>. HIDE DEF new
<1>6. cell \in [Sides -> Log] /\ target \in Sides
  BY DEF IndInv, TypeOK, Log
<1>7. cell'[target][writebase] = new /\ Spares
  BY <1>1, <1>2, <1>3, HeaderSpares
<1>8. \A s \in Sides, o \in Offsets : s # target \/ o # writebase => cell'[s][o] = cell[s][o]
  BY <1>1, <1>3, <1>6, UnitType
<1>9. new = [cell[target][writebase] EXCEPT !.commit = TRUE]
  BY DEF new
<1>. QED  BY <1>3, <1>4, <1>5, <1>7, <1>8, <1>9

LEMMA AccountType ==
    ASSUME NEW log, NEW n, NEW len, Accounted(log, n, len)
    PROVE  n \in Nat /\ n >= HEADER /\ n # 0 /\ len \in [Slots -> Nat] /\ Sum(len) <= CAPACITY
BY JournalAssumption DEF Accounted, Accounts

(* With its draft the index holds no more than the capacity. *)
LEMMA DraftSum ==
    ASSUME IndInv, SpaceInv, pc \notin {"off", "scan", "condemned"}, writer # Idle, ~failed,
           NEW len \in [Slots -> Nat], len[wslot] <= Len(data),
           \A i \in Slots : i # wslot => len[i] <= LenOf(i)
    PROVE  Sum(len) <= CAPACITY
<1>1. /\ wslot \in Slots /\ livebytes \in Nat /\ oldlen \in Nat /\ CAPACITY \in Nat /\ Len(data) \in Nat
      /\ Lens \in [Slots -> Nat] /\ \A i \in Slots : Lens[i] = LenOf(i)
  BY LensType, LenProperties, JournalAssumption DEF IndInv, TypeOK, Lens
<1>. DEFINE with == [Lens EXCEPT ![wslot] = Len(data)]
<1>2. with \in [Slots -> Nat] /\ with[wslot] = Len(data) /\ \A i \in Slots : i # wslot => with[i] = Lens[i]
  BY <1>1
<1>. HIDE DEF with
<1>3. Sum(with) + Lens[wslot] = Sum(Lens) + with[wslot]
  BY <1>1, <1>2, SumChange
<1>4. Sum(len) <= Sum(with)
  <2>1. \A i \in Slots : len[i] <= with[i]
    BY <1>1, <1>2
  <2>. QED  BY <1>2, <2>1, SumMonotone
<1>5. livebytes = Sum(Lens) /\ oldlen = Lens[wslot] /\ livebytes - oldlen + Len(data) <= CAPACITY
  BY <1>1 DEF SpaceInv, SpaceFits, TotalsKept, DraftFits
<1>6. Sum(len) \in Nat /\ Sum(with) \in Nat
  BY <1>2, SumType
<1>. QED  BY <1>1, <1>2, <1>3, <1>4, <1>5, <1>6

(* The record joins the log of its side. *)
LEMMA CommitExtends ==
    ASSUME IndInv, SpaceInv, Commit, NEW len, Accounted(cell[target], writebase, len),
           Clean(cell[target], writebase),
           Sum(After(cell'[target][writebase], len)) <= CAPACITY
    PROVE  /\ Accounted(cell'[target], cursor, After(cell'[target][writebase], len))
           /\ Accounted(cell'[target], HEADER, NoneLive)
           /\ Clean(cell'[target], cursor)
<1>. DEFINE r == cell'[target][writebase]
<1>1. /\ r \in Record /\ r.commit /\ r.span = cursor - writebase
      /\ \A o \in Offsets : o # writebase => cell'[target][o] = cell[target][o]
  BY CommitRecord DEF IndInv, TypeOK
<1>2. /\ writebase \in Offsets /\ writebase \in Nat /\ cursor \in Nat /\ cursor - writebase \in Nat \ {0}
      /\ Offsets \subseteq Nat
  BY DraftPlace, JournalAssumption DEF Commit, Offsets
<1>3. len \in [Slots -> Nat]
  BY AccountType
<1>4. After(r, len) \in [Slots -> Nat]
  BY <1>1, <1>3, RecordType DEF After
<1>5. Recorded(cell'[target], writebase)
  BY <1>1 DEF Recorded, Record
<1>6. \A o \in Offsets : /\ o < writebase => cell'[target][o] = cell[target][o]
                         /\ o > writebase => ~Recorded(cell'[target], o)
  BY <1>1, <1>2 DEF Clean, Recorded
<1>. HIDE DEF r
<1>7. Accounted(cell'[target], writebase + r.span, After(r, len))
  BY <1>1, <1>2, <1>4, <1>5, <1>6, AccountExtended DEF r
<1>8. writebase + r.span = cursor
  BY <1>1, <1>2
<1>9. Clean(cell'[target], cursor)
  <2>1. \A o \in Offsets : o >= cursor => o > writebase
    BY <1>2
  <2>. QED  BY <1>6, <2>1 DEF Clean
<1>. QED  BY <1>7, <1>8, <1>9, FromTheStart DEF r

LEMMA RotatingCommitFits ==
    ASSUME IndInv, SpaceInv, Commit, rotating
    PROVE  SpaceInv'
<1>. DEFINE r == cell'[target][writebase]
<1>1. /\ pc = "commit" /\ pc' = "seal" /\ sector' = sector
      /\ nextheads' = [nextheads EXCEPT ![wslot] = writebase]
      /\ UNCHANGED <<active, heads, livebytes, tail, dirty, writer, failed, rotating, wslot, oldlen,
                     target, writebase, cursor, data>>
  BY DEF Commit, indexVars, draftVars
<1>2. /\ writer # Idle /\ ~failed /\ wslot \in Slots /\ target # active /\ active \in Sides
      /\ target \in Sides /\ nextheads \in [Slots -> Nat] /\ Len(data) \in Nat
      /\ livebytes \in Nat /\ oldlen \in Nat
  BY <1>1, OtherSide, LenProperties
  DEF IndInv, TypeOK, RotationIsAWrite, RequestFitsBlock, Rebuilding
<1>3. /\ r \in Record /\ r.commit /\ r.span = cursor - writebase
      /\ r.kind = 1 /\ r.slot = wslot /\ r.drop = NoSlot /\ r.len = Len(data)
      /\ \A s \in Sides, o \in Offsets : s # target \/ o # writebase => cell'[s][o] = cell[s][o]
      /\ Spares
  BY <1>2, CommitRecord
<1>. HIDE DEF r
<1>4. Building /\ Building' /\ NextEnd = writebase /\ NextEnd' = cursor /\ IndexEnd' = IndexEnd
  BY <1>1 DEF Building, NextEnd, IndexEnd
<1>5. /\ Accounted(cell[target], writebase, NextLens) /\ Clean(cell[target], writebase)
      /\ \A i \in Slots : NextLen(i) <= IF i = wslot THEN 0 ELSE LenOf(i)
      /\ \A i \in Slots : nextheads[i] # 0 =>
             cell[target][nextheads[i]].commit /\ cell[target][nextheads[i]].slot = i
  BY <1>1, <1>2, <1>4 DEF SpaceInv, LogsFit, SpaceFits, TailIsClean, CopyFits, SlotsMatch
<1>6. writebase # 0
  BY <1>5, AccountType
<1>7. \A i \in Slots : /\ nextheads'[i] = IF i = wslot THEN writebase ELSE nextheads[i]
                       /\ NextLen(i)' = IF i = wslot THEN Len(data) ELSE NextLen(i)
  <2>1. \A i \in Slots : nextheads'[i] = IF i = wslot THEN writebase ELSE nextheads[i]
    BY <1>1, <1>2
  <2>2. \A i \in Slots : nextheads[i] # 0 => cell'[target][nextheads[i]] = cell[target][nextheads[i]]
    BY <1>3 DEF Spares
  <2>. QED  BY <1>1, <1>2, <1>3, <1>6, <2>1, <2>2 DEF NextLen, r
<1>8. NextLens' = After(r, NextLens)
  <2>1. NoSlot \notin Slots
    BY JournalAssumption DEF NoSlot, Slots
  <2>. QED  BY <1>3, <1>7, <2>1 DEF NextLens, After
<1>9. Sum(NextLens') <= CAPACITY
  <2>1. \A i \in Slots : NextLen(i) \in Nat
    BY <1>4, NextLensType
  <2>2. NextLens' \in [Slots -> Nat] /\ \A i \in Slots : NextLens'[i] = NextLen(i)'
    BY <1>2, <1>7, <2>1 DEF NextLens
  <2>3. NextLens'[wslot] <= Len(data) /\ \A i \in Slots : i # wslot => NextLens'[i] <= LenOf(i)
    BY <1>2, <1>5, <1>7, <2>2
  <2>. QED  BY <1>1, <1>2, <2>2, <2>3, DraftSum
<1>10. /\ Accounted(cell'[target], cursor, NextLens')
       /\ Accounted(cell'[target], HEADER, NoneLive)
       /\ Clean(cell'[target], cursor)
  BY <1>5, <1>8, <1>9, CommitExtends DEF r
<1>11. \A s \in Sides : s # target => Keeps(cell[s], cell'[s])
  BY <1>3 DEF Keeps
<1>12. /\ Live' = Live /\ \A i \in Live : Entry(i)' = Entry(i)
       /\ Lens' = Lens /\ \A i \in Slots : LenOf(i)' = LenOf(i)
       /\ Packed' = Packed
  BY <1>1, <1>3, SameFiles DEF Spares
<1>13. LogsFit'
  <2>1. ASSUME NEW s \in Sides, Sealed(s)' PROVE Accounted(cell'[s], HEADER, NoneLive)
    BY <1>1, <1>10, <1>11, <2>1, AccountKept DEF SpaceInv, LogsFit, Sealed
  <2>2. Accounted(cell[active], IndexEnd, Lens)'
    BY <1>1, <1>2, <1>4, <1>11, <1>12, AccountKept DEF SpaceInv, LogsFit
  <2>. QED  BY <1>1, <1>4, <1>10, <2>1, <2>2 DEF LogsFit
<1>14. CursorInSector' /\ SlotsMatch' /\ TotalsKept'
  <2>1. CursorInSector' /\ TotalsKept'
    BY <1>1, <1>12 DEF SpaceInv, SpaceFits, CursorInSector, TotalsKept
  <2>2. \A i \in Slots : nextheads'[i] # 0 =>
            cell'[target][nextheads'[i]].commit /\ cell'[target][nextheads'[i]].slot = i
    BY <1>3, <1>5, <1>7 DEF r, Spares
  <2>3. SlotsMatch'
    BY <1>1, <1>12, <2>2 DEF SpaceInv, SpaceFits, SlotsMatch
  <2>. QED  BY <2>1, <2>3
<1>15. TailIsClean'
  <2>1. ~dirty /\ tail <= LIMIT - HEADER /\ Clean(cell'[active], tail)
    BY <1>1, <1>2, <1>11, CleanKept DEF SpaceInv, SpaceFits, TailIsClean
  <2>. QED  BY <1>1, <1>4, <1>10, <2>1 DEF TailIsClean
<1>16. DraftFits'
  BY <1>1, <1>2, <1>12 DEF SpaceInv, SpaceFits, DraftFits
<1>17. WriteFits' /\ CommitIsDraft' /\ CopyFits'
  <2>1. CopyFits'
    BY <1>1, <1>2, <1>4, <1>5, <1>7, <1>12 DEF SpaceInv, SpaceFits, CopyFits
  <2>. QED  BY <1>1, <2>1 DEF WriteFits, CommitIsDraft, Compacting
<1>. QED  BY <1>13, <1>14, <1>15, <1>16, <1>17 DEF SpaceInv, SpaceFits

LEMMA PlainCommitFits ==
    ASSUME IndInv, SpaceInv, Commit, ~rotating
    PROVE  SpaceInv'
<1>. DEFINE r == cell'[target][writebase]
            h == Applied(heads, writebase)
<1>1. /\ pc = "commit" /\ pc' \in {"idle", "scratch"} /\ sector' = sector /\ Forget
      /\ heads' = h /\ tail' = cursor /\ Totals(target, h)
      /\ UNCHANGED <<active, dirty>>
  BY DEF Commit, Publish, Reply
<1>2. /\ target = active /\ writebase = tail /\ active \in Sides /\ ~failed
      /\ heads \in [Slots -> Nat] /\ livebytes \in Nat /\ HEADER \in Nat
      /\ writer # Idle => wslot \in Slots
      /\ writer = Idle => job.slot \in Slots
  BY <1>1, JobType, JournalAssumption DEF IndInv, TypeOK, DraftIsNext, RequestFitsBlock
<1>3. /\ r \in Record /\ r.commit /\ r = [cell[target][writebase] EXCEPT !.commit = TRUE]
      /\ cell[target][writebase] \in Record
      /\ r.span = cursor - writebase
      /\ writer # Idle => r.kind = 1 /\ r.slot = wslot /\ r.drop = NoSlot /\ r.len = Len(data)
      /\ writer = Idle => r.slot = job.slot /\ r.len = LenOf(job.slot)
      /\ \A s \in Sides, o \in Offsets : s # target \/ o # writebase => cell'[s][o] = cell[s][o]
      /\ \A i \in Live : cell'[active][heads[i]] = cell[active][heads[i]]
  BY <1>1, CommitRecord DEF Spares, IndInv, RequestFitsBlock, IsRecord
<1>4. LET old == cell[target][writebase]
      IN  r.kind = old.kind /\ r.slot = old.slot /\ r.drop = old.drop /\ r.len = old.len
  BY <1>3 DEF Record
<1>. HIDE DEF r
<1>5. /\ Accounted(cell[target], writebase, Lens) /\ Clean(cell[target], writebase)
      /\ livebytes = Sum(Lens) /\ livebytes <= CAPACITY
      /\ \A i \in Live : Entry(i).commit /\ Entry(i).slot = i
  BY <1>1, <1>2 DEF SpaceInv, LogsFit, IndexEnd, SpaceFits, TailIsClean, TotalsKept, SlotsMatch
<1>6. /\ writebase # 0 /\ Lens \in [Slots -> Nat]
      /\ \A i \in Slots : Lens[i] = LenOf(i) /\ LenOf(i) \in Nat
  BY <1>1, <1>5, AccountType, LensType DEF Lens
<1>7. \A i \in Slots : h[i] = IF i = r.slot THEN (IF r.kind = 3 THEN 0 ELSE writebase)
                              ELSE IF i = r.drop THEN 0 ELSE heads[i]
  BY <1>4 DEF Applied
<1>. HIDE DEF h
<1>8. \A i \in Slots : /\ LenOf(i)' = After(r, Lens)[i]
                       /\ LenOf(i)' = IF h[i] = 0 THEN 0 ELSE cell[target][h[i]].len
  <2>1. ASSUME NEW i \in Slots
        PROVE  /\ LenOf(i)' = IF h[i] = 0 THEN 0 ELSE cell'[target][h[i]].len
               /\ After(r, Lens)[i] = IF i = r.slot THEN (IF r.kind = 3 THEN 0 ELSE r.len)
                                      ELSE IF i = r.drop THEN 0 ELSE LenOf(i)
    BY <1>1, <1>2, <1>6 DEF LenOf, Entry, After
  <2>2. ASSUME NEW i \in Slots, h[i] = writebase
        PROVE  cell'[target][h[i]].len = r.len /\ cell[target][h[i]].len = r.len
    BY <1>4, <2>2 DEF r
  <2>3. ASSUME NEW i \in Slots, h[i] = heads[i], heads[i] # 0
        PROVE  cell'[target][h[i]].len = LenOf(i) /\ cell[target][h[i]].len = LenOf(i)
    BY <1>2, <1>3, <2>3 DEF LenOf, Entry, Live
  <2>4. ASSUME NEW i \in Slots, heads[i] = 0 PROVE LenOf(i) = 0
    BY <2>4 DEF LenOf
  <2>. QED  BY <1>6, <1>7, <2>1, <2>2, <2>3, <2>4
<1>9. Lens' = After(r, Lens) /\ livebytes' = Sum(Lens')
  <2>1. Lens' = After(r, Lens)
    <3>1. After(r, Lens) = [i \in Slots |-> After(r, Lens)[i]]
      BY DEF After
    <3>. QED  BY <1>8, <3>1 DEF Lens
  <2>2. Lens' = [i \in Slots |-> IF h[i] = 0 THEN 0 ELSE cell[target][h[i]].len]
    BY <1>8 DEF Lens
  <2>. QED  BY <1>1, <2>1, <2>2 DEF Totals
<1>10. Sum(Lens') <= CAPACITY
  <2>1. Lens' \in [Slots -> Nat]
    BY <1>3, <1>6, <1>9, RecordType DEF After
  <2>2. \A i \in Slots : Lens'[i] = IF i = r.slot THEN (IF r.kind = 3 THEN 0 ELSE r.len)
                                    ELSE IF i = r.drop THEN 0 ELSE LenOf(i)
    BY <1>6, <1>9 DEF After
  <2>3. CASE writer # Idle
    <3>1. Lens'[wslot] <= Len(data) /\ \A i \in Slots : i # wslot => Lens'[i] <= LenOf(i)
      <4>1. NoSlot \notin Slots
        BY JournalAssumption DEF NoSlot, Slots
      <4>2. Len(data) \in Nat
        BY LenProperties DEF IndInv, TypeOK
      <4>3. \A i \in Slots : Lens'[i] = IF i = wslot THEN Len(data) ELSE LenOf(i)
        BY <1>3, <2>2, <2>3, <4>1
      <4>. QED  BY <1>2, <1>6, <2>3, <4>2, <4>3
    <3>. QED  BY <1>1, <1>2, <2>1, <2>3, <3>1, DraftSum
  <2>4. CASE writer = Idle
    <3>1. \A i \in Slots : Lens'[i] <= Lens[i]
      BY <1>2, <1>3, <1>6, <2>2, <2>4
    <3>2. Sum(Lens') <= Sum(Lens) /\ Sum(Lens') \in Nat /\ Sum(Lens) \in Nat
      BY <1>6, <2>1, <3>1, SumMonotone, SumType
    <3>. QED  BY <1>5, <3>2, JournalAssumption
  <2>. QED  BY <2>3, <2>4
<1>11. /\ Accounted(cell'[target], cursor, Lens')
       /\ Accounted(cell'[target], HEADER, NoneLive)
       /\ Clean(cell'[target], cursor)
  BY <1>5, <1>9, <1>10, CommitExtends DEF r
<1>12. ~Building' /\ IndexEnd' = cursor
  BY <1>1 DEF Building, IndexEnd, Forget
<1>13. LogsFit'
  <2>1. \A s \in Sides : s # target => Keeps(cell[s], cell'[s])
    BY <1>3 DEF Keeps
  <2>2. ASSUME NEW s \in Sides, Sealed(s)' PROVE Accounted(cell'[s], HEADER, NoneLive)
    BY <1>1, <1>11, <2>1, <2>2, AccountKept DEF SpaceInv, LogsFit, Sealed
  <2>. QED  BY <1>1, <1>2, <1>11, <1>12, <2>2 DEF LogsFit
<1>14. SlotsMatch'
  <2>1. ASSUME NEW i \in Slots, heads'[i] # 0
        PROVE  cell'[active][heads'[i]].commit /\ cell'[active][heads'[i]].slot = i
    <3>1. CASE heads'[i] = writebase /\ i = r.slot
      BY <1>2, <1>3, <3>1 DEF r
    <3>2. CASE heads'[i] = heads[i]
      <4>1. i \in Live
        BY <2>1, <3>2 DEF Live
      <4>. QED  BY <1>3, <1>5, <3>2, <4>1 DEF Entry
    <3>. QED  BY <1>1, <1>7, <2>1, <3>1, <3>2
  <2>. QED  BY <1>1, <1>12, <2>1 DEF SlotsMatch, Live, Entry
<1>15. CursorInSector' /\ TotalsKept' /\ TailIsClean'
  BY <1>1, <1>2, <1>9, <1>10, <1>11, <1>12, JournalAssumption
  DEF CursorInSector, TotalsKept, TailIsClean, Forget
<1>16. DraftFits' /\ WriteFits' /\ CopyFits' /\ CommitIsDraft'
  BY <1>1, <1>12 DEF Forget, DraftFits, WriteFits, CopyFits, CommitIsDraft, Compacting
<1>. QED  BY <1>13, <1>14, <1>15, <1>16 DEF SpaceInv, SpaceFits

LEMMA CommitFits ==
    ASSUME IndInv, SpaceInv, Commit
    PROVE  SpaceInv'
BY RotatingCommitFits, PlainCommitFits

-----------------------------------------------------------------------------
(* Compaction *)

LEMMA CompactBeginFits ==
    ASSUME IndInv, SpaceInv, CompactBegin
    PROVE  SpaceInv'
<1>1. CASE \E e \in {60, 72} : GiveUp(e) /\ UNCHANGED flashVars
  BY <1>1, SameFlash, GiveUpFits DEF CompactBegin
<1>2. CASE ~\E e \in {60, 72} : GiveUp(e) /\ UNCHANGED flashVars
  <2>1. /\ ~rotating /\ pc = "compact" /\ pc' = "erase"
        /\ UNCHANGED <<flashVars, indexVars, draftVars, writebase, cursor, data, nextheads, job>>
    BY <1>2 DEF CompactBegin
  <2>2. Incoming' = Incoming
    BY <2>1, SameIncoming DEF flashVars, indexVars, draftVars
  <2>3. writer # Idle => livebytes - oldlen + Len(data) + Len(Incoming) <= CAPACITY
    BY <2>1 DEF SpaceInv, SpaceFits, WriteFits, Compacting
  <2>. QED  BY <2>1, <2>2, <2>3, QuietFits DEF draftVars
<1>. QED  BY <1>1, <1>2

(* Steps that compact, once it began, leave the index and the draft alone. *)
LEMMA CompactingFits ==
    ASSUME IndInv, SpaceInv, pc \in {"erase", "copy", "seal"}, cell'[active] = cell[active],
           UNCHANGED <<active, heads, livebytes, tail, dirty, writer, failed, rotating, wslot, oldlen,
                       target, writebase, data, job>>,
           pc' \in {"copy", "move", "seal", "activate"},
           pc' \in {"copy", "move"} => pc # "seal",
           pc' \in {"seal", "activate"} /\ pc # "seal" => writer = Idle,
           pc = "seal" => cursor' = cursor,
           cursor' <= LIMIT,
           \A s \in Sides : Sealed(s)' => (Sealed(s) /\ s # target) \/ Accounted(cell'[s], HEADER, NoneLive),
           Accounted(cell'[target], NextEnd', NextLens'),
           Clean(cell'[target], NextEnd'),
           \A i \in Slots : nextheads'[i] # 0 =>
               cell'[target][nextheads'[i]].commit /\ cell'[target][nextheads'[i]].slot = i,
           CopyFits'
    PROVE  SpaceInv'
<1>1. /\ target # active /\ target \in Sides /\ active \in Sides /\ wslot \in Slots
      /\ \A s \in Sides : s # target => s = active
  BY OtherSide DEF Rebuilding, IndInv, TypeOK, Sides
<1>2. /\ Live' = Live /\ \A i \in Live : Entry(i)' = Entry(i)
      /\ Lens' = Lens /\ \A i \in Slots : LenOf(i)' = LenOf(i)
  BY SameFiles
<1>3. Building' /\ IndexEnd' = IndexEnd
  BY DEF Building, IndexEnd
<1>4. LogsFit'
  <2>1. ASSUME NEW s \in Sides, Sealed(s)' PROVE Accounted(cell'[s], HEADER, NoneLive)
    <3>1. CASE Sealed(s) /\ s # target
      BY <1>1, <3>1 DEF SpaceInv, LogsFit
    <3>. QED  BY <2>1, <3>1
  <2>2. Accounted(cell[active], IndexEnd, Lens)'
    BY <1>2, <1>3 DEF SpaceInv, LogsFit
  <2>. QED  BY <1>3, <2>1, <2>2 DEF LogsFit
<1>5. CursorInSector' /\ SlotsMatch' /\ TotalsKept'
  BY <1>2, <1>3 DEF SpaceInv, SpaceFits, CursorInSector, SlotsMatch, TotalsKept
<1>6. TailIsClean'
  <2>1. ~dirty /\ tail <= LIMIT - HEADER => Clean(cell'[active], tail)
    BY DEF SpaceInv, SpaceFits, TailIsClean
  <2>. QED  BY <1>3, <2>1 DEF SpaceInv, SpaceFits, TailIsClean
<1>7. DraftFits'
  <2>1. CASE pc \in {"erase", "copy"}
    BY <1>1, <1>2, <2>1 DEF SpaceInv, SpaceFits, DraftFits
  <2>2. CASE pc = "seal"
    BY <1>1, <1>2, <2>2 DEF SpaceInv, SpaceFits, DraftFits
  <2>. QED  BY <2>1, <2>2
<1>8. WriteFits'
  <2>1. Incoming' = Incoming
    BY SameIncoming
  <2>. QED  BY <2>1 DEF SpaceInv, SpaceFits, WriteFits, Compacting
<1>9. CommitIsDraft'
  BY DEF CommitIsDraft
<1>. QED  BY <1>4, <1>5, <1>6, <1>7, <1>8, <1>9 DEF SpaceInv, SpaceFits

LEMMA EraseFits ==
    ASSUME IndInv, SpaceInv, Erase
    PROVE  SpaceInv'
<1>1. /\ pc = "erase" /\ pc' = "copy" /\ cursor' = HEADER /\ at' = 0 /\ nextheads' = NoHeads
      /\ sector' = [sector EXCEPT ![target] = NoSector] /\ cell' = [cell EXCEPT ![target] = BlankLog]
      /\ UNCHANGED <<active, heads, livebytes, tail, dirty, writer, failed, rotating, wslot, oldlen,
                     target, writebase, data, job>>
  BY DEF Erase, indexVars, draftVars
<1>2. /\ target # active /\ target \in Sides /\ active \in Sides
      /\ cell \in [Sides -> Log] /\ sector \in [Sides -> SectorType]
  BY <1>1, OtherSide DEF Rebuilding, IndInv, TypeOK, Log, SectorType
<1>3. cell'[active] = cell[active] /\ cell'[target] = BlankLog /\ sector'[target] = NoSector
      /\ \A s \in Sides : s # target => sector'[s] = sector[s]
  BY <1>1, <1>2
<1>4. \A s \in Sides : Sealed(s)' => Sealed(s) /\ s # target
  BY <1>3 DEF Sealed, NoSector
<1>5. ~rotating /\ NextEnd' = HEADER
  BY <1>1 DEF IndInv, RotationIsAWrite, NextEnd
<1>6. NextLens' = NoneLive /\ \A i \in Slots : NextLen(i)' = 0
  <2>1. \A i \in Slots : NextLen(i)' = 0
    BY <1>1 DEF NextLen, NoHeads
  <2>. QED  BY <2>1 DEF NextLens, NoneLive
<1>7. /\ Lens' = Lens /\ \A i \in Slots : LenOf(i)' = LenOf(i) /\ LenOf(i) \in Nat
      /\ PackedBelow(0)' = PackedBelow(0)
  BY <1>1, <1>3, SameFiles, LensType
<1>8. CopyFits'
  <2>1. HEADER <= PackedBelow(0)
    <3>1. SizesBelow(0) \in [Slots -> Nat]
      BY <1>1, LensType
    <3>2. Sum(SizesBelow(0)) \in Nat
      BY <3>1, SumType
    <3>. QED  BY <3>2, JournalAssumption DEF PackedBelow
  <2>2. PackedBelow(at)' = PackedBelow(0)
    BY <1>1, <1>7 DEF PackedBelow, SizesBelow
  <2>. QED  BY <1>1, <1>5, <1>6, <1>7, <2>1, <2>2 DEF CopyFits
<1>9. Accounted(cell'[target], NextEnd', NextLens') /\ Clean(cell'[target], NextEnd')
  <2>1. Clean(BlankLog, HEADER)
    BY DEF Clean, Recorded, BlankLog, Blank
  <2>. QED  BY <1>3, <1>5, <1>6, <2>1, FreshLog
<1>10. \A i \in Slots : nextheads'[i] # 0 =>
           cell'[target][nextheads'[i]].commit /\ cell'[target][nextheads'[i]].slot = i
  BY <1>1 DEF NoHeads
<1>11. cursor' <= LIMIT
  BY <1>1, HeadersFit, JournalAssumption
<1>. QED  BY <1>1, <1>3, <1>4, <1>8, <1>9, <1>10, <1>11, CompactingFits

LEMMA SealFits ==
    ASSUME IndInv, SpaceInv, Seal
    PROVE  SpaceInv'
<1>1. /\ pc = "seal" /\ pc' = "activate" /\ cell' = cell
      /\ sector' = [sector EXCEPT ![target] = [state |-> "unsealed", base |-> cursor,
                                               gen |-> NextGeneration]]
      /\ UNCHANGED <<active, heads, livebytes, tail, dirty, writer, failed, rotating, wslot, oldlen,
                     target, writebase, cursor, data, nextheads, job>>
  BY DEF Seal, indexVars, draftVars, cursorVars
<1>2. /\ target \in Sides /\ sector \in [Sides -> SectorType]
  BY DEF IndInv, TypeOK, SectorType
<1>3. \A s \in Sides : Sealed(s)' => Sealed(s) /\ s # target
  BY <1>1, <1>2 DEF Sealed
<1>4. Building /\ NextEnd' = NextEnd /\ NextLens' = NextLens /\ \A i \in Slots : NextLen(i)' = NextLen(i)
  BY <1>1, SameNextFiles DEF Building, NextEnd
<1>5. /\ Lens' = Lens /\ \A i \in Slots : LenOf(i)' = LenOf(i)
      /\ Packed' = Packed
  BY <1>1, SameFiles
<1>6. CopyFits'
  <2>1. Building'
    BY <1>1 DEF Building
  <2>. QED  BY <1>1, <1>4, <1>5 DEF SpaceInv, SpaceFits, CopyFits
<1>7. /\ Accounted(cell'[target], NextEnd', NextLens') /\ Clean(cell'[target], NextEnd')
      /\ \A i \in Slots : nextheads'[i] # 0 =>
             cell'[target][nextheads'[i]].commit /\ cell'[target][nextheads'[i]].slot = i
      /\ cursor' <= LIMIT
  BY <1>1, <1>4 DEF SpaceInv, LogsFit, SpaceFits, TailIsClean, SlotsMatch, CursorInSector
<1>. QED  BY <1>1, <1>3, <1>6, <1>7, CompactingFits

LEMMA HalfErasedKeeps ==
    ASSUME IndInv, pc = "erase", HalfErased(target)
    PROVE  /\ KeepsFlash /\ Spares
           /\ \A s \in Sides : Sealed(s)' => Sealed(s) /\ Keeps(cell[s], cell'[s])
<1>1. /\ target # active /\ target \in Sides /\ active \in Sides /\ ~rotating
      /\ cell \in [Sides -> Log] /\ sector \in [Sides -> SectorType] /\ TypeOK
  BY OtherSide DEF Rebuilding, IndInv, TypeOK, Log, SectorType, RotationIsAWrite
<1>2. cell' \in [Sides -> Log] /\ sector' \in [Sides -> SectorType] /\ cell'[active] = cell[active]
  BY <1>1, HalfErasedType
<1>3. \A s \in Sides : Sealed(s)' => Sealed(s) /\ Keeps(cell[s], cell'[s])
  <2>1. CASE UNCHANGED flashVars
    BY <2>1, KeepsItself DEF flashVars, Sealed
  <2>2. CASE /\ cell' = [cell EXCEPT ![target] = [o \in Offsets |-> Junk]]
             /\ sector' = sector \/ sector' = [sector EXCEPT ![target] = NoSector]
    <3>1. \A log : Keeps(log, [o \in Offsets |-> Junk])
      BY DEF Keeps, Recorded, Junk, Blank
    <3>2. \A s \in Sides : Keeps(cell[s], cell'[s])
      BY <1>1, <2>2, <3>1, KeepsItself
    <3>3. \A s \in Sides : Sealed(s)' => Sealed(s)
      BY <1>1, <2>2 DEF Sealed, NoSector
    <3>. QED  BY <3>2, <3>3
  <2>3. CASE /\ cell' = [cell EXCEPT ![target] = BlankLog]
             /\ sector' = [sector EXCEPT ![target] = NoSector]
    <3>1. ASSUME NEW s \in Sides, Sealed(s)' PROVE s # target /\ Sealed(s) /\ cell'[s] = cell[s]
      BY <1>1, <2>3, <3>1 DEF Sealed, NoSector
    <3>. QED  BY <3>1, KeepsItself
  <2>. QED  BY <2>1, <2>2, <2>3 DEF HalfErased
<1>4. KeepsFlash
  BY <1>1, <1>2, <1>3, KeepsItself DEF KeepsFlash
<1>5. Spares
  BY <1>1, <1>2 DEF Spares, Log
<1>. QED  BY <1>3, <1>4, <1>5

LEMMA FailuresFit ==
    ASSUME IndInv, SpaceInv, Failure
    PROVE  SpaceInv'
<1>1. CASE EraseFails
  BY <1>1, HalfErasedKeeps, GiveUpFits DEF EraseFails
<1>2. CASE CompactFails
  BY <1>2, SameFlash, GiveUpFits DEF CompactFails
<1>. QED  BY <1>1, <1>2, TagFailsFits, PayloadFailsFits, RecordFailsFits DEF Failure

(* One more file is copied: no further than the price of the slots so far. *)
LEMMA PackedGrows ==
    ASSUME IndInv, pc \notin {"off", "scan", "condemned"}, NEW n \in Nat, NEW i \in Slots, n <= i
    PROVE  PackedBelow(n) + Size(i) <= PackedBelow(i + 1)
<1>1. /\ SizesBelow(n) \in [Slots -> Nat] /\ SizesBelow(i + 1) \in [Slots -> Nat]
      /\ \A k \in Slots : Size(k) \in Nat
  BY LensType
<1>2. i \in Nat /\ \A k \in Slots : k \in Nat
  BY JournalAssumption DEF Slots
<1>. DEFINE more == [SizesBelow(n) EXCEPT ![i] = Size(i)]
<1>3. more \in [Slots -> Nat] /\ more[i] = Size(i) /\ \A k \in Slots : k # i => more[k] = SizesBelow(n)[k]
  BY <1>1
<1>4. SizesBelow(n)[i] = 0
  BY <1>2 DEF SizesBelow
<1>5. \A k \in Slots : more[k] <= SizesBelow(i + 1)[k]
  <2>1. ASSUME NEW k \in Slots PROVE more[k] <= SizesBelow(i + 1)[k]
    <3>1. CASE k = i
      BY <1>1, <1>2, <1>3, <3>1 DEF SizesBelow
    <3>2. CASE k # i /\ k < n
      <4>1. k < i + 1
        BY <1>2, <3>2
      <4>. QED  BY <1>1, <1>3, <3>2, <4>1 DEF SizesBelow
    <3>3. CASE k # i /\ ~(k < n)
      <4>1. more[k] = 0
        BY <1>3, <3>3 DEF SizesBelow
      <4>. QED  BY <1>1, <4>1
    <3>. QED  BY <3>1, <3>2, <3>3
  <2>. QED  BY <2>1
<1>. HIDE DEF more
<1>6. Sum(more) + SizesBelow(n)[i] = Sum(SizesBelow(n)) + more[i]
  BY <1>1, <1>3, SumChange
<1>7. Sum(more) <= Sum(SizesBelow(i + 1))
  BY <1>1, <1>3, <1>5, SumMonotone
<1>8. Sum(more) \in Nat /\ Sum(SizesBelow(n)) \in Nat /\ Sum(SizesBelow(i + 1)) \in Nat
  BY <1>1, <1>3, SumType
<1>. QED  BY <1>1, <1>3, <1>4, <1>6, <1>7, <1>8, JournalAssumption DEF PackedBelow

LEMMA CopyEndsFits ==
    ASSUME IndInv, SpaceInv, CopyNext, ToCopy = {}
    PROVE  SpaceInv'
<1>1. /\ pc = "copy" /\ pc' = IF writer # Idle THEN "move" ELSE "seal"
      /\ UNCHANGED <<sector, cell, active, heads, livebytes, tail, dirty, writer, failed, rotating,
                     wslot, oldlen, target, writebase, cursor, data, nextheads, job>>
  BY DEF CopyNext, indexVars, draftVars
<1>2. /\ target # active /\ target \in Sides /\ active \in Sides /\ ~rotating
  BY <1>1, OtherSide DEF Rebuilding, IndInv, RotationIsAWrite
<1>3. Building /\ NextEnd' = NextEnd /\ NextLens' = NextLens /\ \A i \in Slots : NextLen(i)' = NextLen(i)
  BY <1>1, <1>2, SameNextFiles DEF Building, NextEnd
<1>4. /\ Lens' = Lens /\ \A i \in Slots : LenOf(i)' = LenOf(i)
      /\ Packed' = Packed
  BY <1>1, SameFiles
<1>5. cursor <= Packed
  <2>1. PackedBelow(at) \in Nat /\ PackedBelow(at) <= Packed /\ Packed \in Nat
    BY <1>1, PackedFits
  <2>2. cursor <= PackedBelow(at) /\ cursor \in Nat
    BY <1>1 DEF SpaceInv, SpaceFits, CopyFits, IndInv, TypeOK
  <2>. QED  BY <2>1, <2>2
<1>6. CopyFits'
  BY <1>1, <1>2, <1>3, <1>4, <1>5 DEF SpaceInv, SpaceFits, CopyFits, Building
<1>7. /\ Accounted(cell'[target], NextEnd', NextLens') /\ Clean(cell'[target], NextEnd')
      /\ \A i \in Slots : nextheads'[i] # 0 =>
             cell'[target][nextheads'[i]].commit /\ cell'[target][nextheads'[i]].slot = i
      /\ cursor' <= LIMIT
  BY <1>1, <1>3 DEF SpaceInv, LogsFit, SpaceFits, TailIsClean, SlotsMatch, CursorInSector
<1>8. \A s \in Sides : Sealed(s)' => (Sealed(s) /\ s # target) \/ Accounted(cell'[s], HEADER, NoneLive)
  BY <1>1 DEF Sealed, SpaceInv, LogsFit
<1>. QED  BY <1>1, <1>6, <1>7, <1>8, CompactingFits

LEMMA CopyOneFits ==
    ASSUME IndInv, SpaceInv, CopyNext, ToCopy # {}
    PROVE  SpaceInv'
<1>1. PICK i \in Slots :
        /\ First(i, ToCopy)
        /\ cell' = [cell EXCEPT ![target] = Copied(@, cursor, i, Contents(i))]
        /\ nextheads' = [nextheads EXCEPT ![i] = cursor]
        /\ cursor' = cursor + HEADER + Entry(i).len
        /\ at' = i + 1
        /\ UNCHANGED pc
  BY DEF CopyNext
<1>2. /\ pc = "copy" /\ pc' = "copy"
      /\ UNCHANGED <<sector, active, heads, livebytes, tail, dirty, writer, failed, rotating, wslot,
                     oldlen, target, writebase, data, job>>
  BY <1>1 DEF CopyNext, indexVars, draftVars
<1>3. /\ target # active /\ target \in Sides /\ active \in Sides /\ cell \in [Sides -> Log]
      /\ cursor \in Nat /\ at \in Nat /\ nextheads \in [Slots -> Nat] /\ ~rotating
      /\ HEADER \in Nat \ {0} /\ LIMIT \in Nat
  BY <1>2, OtherSide, JournalAssumption DEF Rebuilding, IndInv, TypeOK, Log, RotationIsAWrite
<1>4. /\ i \in Live /\ i >= at /\ ~(writer # Idle /\ i = wslot) /\ i \in Nat
      /\ Entry(i) \in Record /\ Entry(i).len \in Nat /\ Entry(i).commit
      /\ Contents(i) \in Seq(Values) /\ Len(Contents(i)) = Entry(i).len
  BY <1>1, <1>2, JournalAssumption, EntryType, RecordType
  DEF First, ToCopy, SpaceInv, SpaceFits, SlotsMatch, Slots
<1>5. Building /\ Building' /\ NextEnd = cursor /\ NextEnd' = cursor'
  BY <1>2, <1>3 DEF Building, NextEnd
<1>6. /\ Accounted(cell[target], cursor, NextLens) /\ Clean(cell[target], cursor)
      /\ cursor <= PackedBelow(at)
      /\ \A j \in Slots : /\ NextLen(j) <= IF writer # Idle /\ j = wslot THEN 0 ELSE LenOf(j)
                          /\ nextheads[j] # 0 => /\ cell[target][nextheads[j]].commit /\ cell[target][nextheads[j]].slot = j
                                                 /\ nextheads[j] \in Offsets /\ nextheads[j] < cursor
  BY <1>2, <1>5
  DEF SpaceInv, LogsFit, SpaceFits, TailIsClean, CopyFits, SlotsMatch, IndInv, NextHeadsAreRecords, IsRecord
<1>7. cursor # 0 /\ NextLens \in [Slots -> Nat]
  BY <1>6, AccountType
<1>8. /\ cursor' \in Nat /\ cursor < cursor' /\ cursor' <= PackedBelow(i + 1) /\ cursor' <= LIMIT
      /\ cursor \in Offsets /\ Offsets \subseteq Nat
  <2>1. Size(i) = HEADER + Entry(i).len
    BY <1>4 DEF Size
  <2>2. PackedBelow(at) + Size(i) <= PackedBelow(i + 1)
    BY <1>2, <1>3, <1>4, PackedGrows
  <2>3. /\ PackedBelow(at) \in Nat /\ PackedBelow(i + 1) \in Nat /\ PackedBelow(i + 1) <= Packed
        /\ Packed \in Nat /\ Packed + HEADER <= LIMIT
    BY <1>2, PackedFits
  <2>4. cursor' \in Nat /\ cursor < cursor'
    BY <1>1, <1>3, <1>4
  <2>5. cursor' <= PackedBelow(i + 1)
    <3>1. cursor' = cursor + Size(i) /\ Size(i) \in Nat
      BY <1>1, <1>3, <1>4, <2>1
    <3>. QED  BY <1>3, <1>6, <2>2, <2>3, <3>1
  <2>6. cursor' <= LIMIT
    BY <1>3, <2>3, <2>4, <2>5
  <2>. QED  BY <1>3, <2>4, <2>5, <2>6 DEF Offsets
<1>. DEFINE log == Programmed(cell[target], cursor + HEADER, Contents(i))
            r == [Entry(i) EXCEPT !.kind = 1, !.drop = NoSlot, !.slot = i, !.off = cursor + HEADER,
                                  !.len = Len(Contents(i)), !.span = HEADER + Len(Contents(i)),
                                  !.crc = Contents(i)]
<1>9. /\ r.k = "rec" /\ r.commit /\ r.kind = 1 /\ r.drop = NoSlot /\ r.slot = i
      /\ r.len = Entry(i).len /\ r.span = HEADER + Entry(i).len
  BY <1>4 DEF Record
<1>10. /\ log \in Log /\ Keeps(cell[target], log)
       /\ \A p \in Offsets : p < cursor => log[p] = cell[target][p]
  <2>1. cell[target] \in Log /\ cursor + HEADER \in Nat
    BY <1>3
  <2>2. log \in Log /\ \A p \in Offsets : p < cursor + HEADER => log[p] = cell[target][p]
    BY <1>4, <2>1, ProgrammedType
  <2>3. \A p \in Offsets : p < cursor => p < cursor + HEADER
    BY <1>3, <1>8
  <2>. QED  BY <2>2, <2>3, ProgrammedKeeps
<1>11. cell' = [cell EXCEPT ![target] = [log EXCEPT ![cursor] = r]]
  BY <1>1 DEF Copied
<1>. HIDE DEF log, r
<1>12. /\ cell'[active] = cell[active] /\ cell'[target][cursor] = r
       /\ \A p \in Offsets : p # cursor => cell'[target][p] = log[p]
  BY <1>3, <1>8, <1>10, <1>11 DEF Log
<1>13. /\ \A p \in Offsets : p < cursor => cell'[target][p] = cell[target][p]
       /\ \A p \in Offsets : p > cursor => ~Recorded(cell'[target], p)
       /\ Recorded(cell'[target], cursor)
  <2>1. \A p \in Offsets : p # cursor /\ p >= cursor => ~Recorded(cell'[target], p)
    BY <1>6, <1>10, <1>12 DEF Clean, Keeps, Recorded
  <2>. QED  BY <1>3, <1>8, <1>9, <1>10, <1>12, <2>1 DEF Recorded
<1>14. /\ Lens' = Lens /\ \A j \in Slots : LenOf(j)' = LenOf(j) /\ LenOf(j) \in Nat
       /\ Lens \in [Slots -> Nat]
       /\ PackedBelow(i + 1)' = PackedBelow(i + 1)
  BY <1>2, <1>12, SameFiles, LensType
<1>15. \A j \in Slots : /\ nextheads'[j] = IF j = i THEN cursor ELSE nextheads[j]
                        /\ NextLen(j)' = IF j = i THEN Entry(i).len ELSE NextLen(j)
  <2>1. \A j \in Slots : nextheads'[j] = IF j = i THEN cursor ELSE nextheads[j]
    BY <1>1, <1>3
  <2>2. \A j \in Slots : nextheads[j] # 0 => cell'[target][nextheads[j]] = cell[target][nextheads[j]]
    BY <1>6, <1>13
  <2>. QED  BY <1>2, <1>7, <1>9, <1>12, <2>1, <2>2 DEF NextLen
<1>16. NextLens' = After(r, NextLens)
  <2>1. NoSlot \notin Slots
    BY JournalAssumption DEF NoSlot, Slots
  <2>. QED  BY <1>9, <1>15, <2>1 DEF NextLens, After
<1>17. \A j \in Slots : NextLen(j)' <= IF writer # Idle /\ j = wslot THEN 0 ELSE LenOf(j)
  <2>1. LenOf(i) = Entry(i).len
    BY <1>4 DEF LenOf, Live
  <2>. QED  BY <1>1, <1>4, <1>6, <1>15, <2>1
<1>18. NextLens' \in [Slots -> Nat] /\ Sum(NextLens') <= CAPACITY
  <2>1. NextLens' \in [Slots -> Nat]
    BY <1>4, <1>7, <1>15 DEF NextLens
  <2>2. \A j \in Slots : NextLens'[j] <= Lens[j]
    <3>1. \A j \in Slots : NextLens'[j] = NextLen(j)' /\ Lens[j] = LenOf(j)
      BY DEF NextLens, Lens
    <3>. QED  BY <1>14, <1>17, <2>1, <3>1
  <2>3. Sum(NextLens') <= Sum(Lens) /\ Sum(NextLens') \in Nat /\ Sum(Lens) \in Nat
    BY <1>14, <2>1, <2>2, SumMonotone, SumType
  <2>4. Sum(Lens) <= CAPACITY
    BY <1>2 DEF SpaceInv, SpaceFits, TotalsKept
  <2>. QED  BY <2>1, <2>3, <2>4, JournalAssumption
<1>19. Accounted(cell'[target], cursor', NextLens')
  <2>1. r.span \in Nat \ {0} /\ cursor + r.span = cursor'
    BY <1>1, <1>3, <1>4, <1>9
  <2>2. Accounted(cell'[target], cursor + r.span, After(r, NextLens))
    BY <1>6, <1>8, <1>12, <1>13, <1>16, <1>18, <2>1, AccountExtended
  <2>. QED  BY <1>16, <2>1, <2>2
<1>20. Clean(cell'[target], cursor')
  <2>1. \A p \in Offsets : p >= cursor' => p > cursor
    BY <1>3, <1>8
  <2>. QED  BY <1>13, <2>1 DEF Clean
<1>21. \A j \in Slots : nextheads'[j] # 0 =>
           cell'[target][nextheads'[j]].commit /\ cell'[target][nextheads'[j]].slot = j
  BY <1>6, <1>9, <1>12, <1>13, <1>15
<1>22. CopyFits'
  <2>1. PackedBelow(at)' = PackedBelow(i + 1)
    BY <1>1, <1>14 DEF PackedBelow, SizesBelow
  <2>. QED  BY <1>2, <1>3, <1>8, <1>14, <1>17, <2>1 DEF CopyFits
<1>23. \A s \in Sides : Sealed(s)' => (Sealed(s) /\ s # target) \/ Accounted(cell'[s], HEADER, NoneLive)
  BY <1>2, <1>19, FromTheStart DEF Sealed
<1>. QED
  BY <1>2, <1>5, <1>8, <1>12, <1>19, <1>20, <1>21, <1>22, <1>23, CompactingFits

LEMMA MoveFits ==
    ASSUME IndInv, SpaceInv, Move
    PROVE  SpaceInv'
<1>1. /\ pc = "move" /\ sector' = sector /\ cell' = [cell EXCEPT ![target] = MovedTo(@)]
  BY DEF Move
<1>2. /\ target # active /\ target \in Sides /\ active \in Sides /\ ~rotating /\ writer # Idle /\ ~failed
      /\ cell \in [Sides -> Log] /\ sector \in [Sides -> SectorType] /\ wslot \in Slots
      /\ cursor \in Nat /\ HEADER \in Nat /\ LIMIT \in Nat /\ Len(data) \in Nat
      /\ livebytes \in Nat /\ oldlen \in Nat
  BY <1>1, OtherSide, JournalAssumption, LenProperties
  DEF Rebuilding, IndInv, TypeOK, Log, SectorType, RotationIsAWrite, RequestFitsBlock, Compacting
<1>3. \A s \in Sides : cell'[s] = IF s = target THEN MovedTo(cell[target]) ELSE cell[s]
  BY <1>1, <1>2
<1>4. \A s \in Sides : Keeps(cell[s], cell'[s])
  <2>. DEFINE base == Programmed(cell[target], cursor + HEADER, Moved)
  <2>1. Keeps(cell[target], base)
    BY ProgrammedKeeps
  <2>2. DOMAIN base = Offsets
    BY DEF Programmed
  <2>3. MovedTo(cell[target]) = [base EXCEPT ![cursor] = Over(base[cursor], Tag)]
    BY DEF MovedTo
  <2>. HIDE DEF base
  <2>4. Keeps(base, MovedTo(cell[target]))
    BY <2>2, <2>3 DEF Keeps, Recorded, Over, Tag, Junk, Blank
  <2>5. Keeps(cell[target], MovedTo(cell[target]))
    BY <2>1, <2>4 DEF Keeps, Recorded
  <2>. QED  BY <1>3, <2>5, KeepsItself
<1>5. MovedTo(cell[target]) \in Log /\ \A p \in Offsets : p < cursor => MovedTo(cell[target])[p] = cell[target][p]
  <2>. DEFINE base == Programmed(cell[target], cursor + HEADER, Moved)
  <2>1. Moved \in Seq(Values)
    BY <1>2, StoredType DEF Moved, IndInv, TypeOK
  <2>2. base \in Log /\ \A p \in Offsets : p < cursor + HEADER => base[p] = cell[target][p]
    BY <1>2, <2>1, ProgrammedType
  <2>3. Over(base[cursor], Tag) \in Cell
    BY CellType, OverType
  <2>4. \A p \in Offsets : p < cursor => p < cursor + HEADER /\ p # cursor
    BY <1>2 DEF Offsets
  <2>5. MovedTo(cell[target]) = [base EXCEPT ![cursor] = Over(base[cursor], Tag)]
    BY DEF MovedTo
  <2>. HIDE DEF base
  <2>. QED  BY <2>2, <2>3, <2>4, <2>5 DEF Log
<1>6. CASE GiveUp(25)
  <2>1. cell' \in [Sides -> Log] /\ cell'[active] = cell[active]
    BY <1>1, <1>2, <1>3, <1>5
  <2>2. Spares /\ KeepsFlash
    BY <1>1, <1>2, <1>4, <2>1 DEF Spares, KeepsFlash, Log, SectorType, Sealed
  <2>. QED  BY <1>1, <1>6, <2>2, GiveUpFits
<1>7. CASE ~GiveUp(25)
  <2>1. /\ rotating' = TRUE /\ writebase' = cursor /\ cursor' = cursor + HEADER + Len(data)
        /\ pc' = "payload"
        /\ UNCHANGED <<active, heads, livebytes, tail, dirty, writer, failed, wslot, oldlen, target,
                       data, nextheads, job>>
    BY <1>7 DEF Move, indexVars
  <2>2. Building /\ Building' /\ NextEnd = cursor /\ NextEnd' = cursor /\ IndexEnd' = IndexEnd
    BY <1>1, <1>2, <2>1 DEF Building, NextEnd, IndexEnd
  <2>3. cell'[active] = cell[active]
    BY <1>2, <1>3
  <2>4. /\ Live' = Live /\ \A i \in Live : Entry(i)' = Entry(i)
        /\ Lens' = Lens /\ \A i \in Slots : LenOf(i)' = LenOf(i)
        /\ Packed' = Packed
    BY <2>1, <2>3, SameFiles
  <2>5. \A i \in Slots : nextheads[i] # 0 =>
          nextheads[i] \in Offsets /\ nextheads[i] < cursor /\ cell'[target][nextheads[i]] = cell[target][nextheads[i]]
    BY <1>2, <1>3, <1>5, <2>2 DEF IndInv, NextHeadsAreRecords, IsRecord
  <2>6. NextLens' = NextLens /\ \A i \in Slots : NextLen(i)' = NextLen(i)
    BY <2>1, <2>5, SameNextFiles
  <2>7. LogsFit'
    BY <1>1, <1>2, <1>4, <2>1, <2>2, <2>4, <2>6, LogsKept DEF SpaceInv, Sealed
  <2>8. Incoming' = Incoming
    BY <2>1, <2>3, SameIncoming
  <2>9. /\ oldlen = LenOf(wslot) /\ livebytes - oldlen + Len(data) <= CAPACITY
        /\ livebytes - oldlen + Len(data) + Len(Incoming) <= CAPACITY
        /\ cursor <= Packed
        /\ \A i \in Slots : NextLen(i) <= IF i = wslot THEN 0 ELSE LenOf(i)
    BY <1>1, <1>2, <2>2 DEF SpaceInv, SpaceFits, DraftFits, WriteFits, CopyFits, Compacting
  <2>10. Len(Incoming) \in Nat
    BY <1>1, IncomingType, LenProperties
  <2>11. cursor' <= LIMIT /\ Len(Incoming) <= LIMIT - cursor'
    <3>. DEFINE all == Len(data) + Len(Incoming)
    <3>1. all \in Nat /\ livebytes - oldlen + all <= CAPACITY
      BY <1>2, <2>9, <2>10
    <3>2. Packed \in Nat /\ \A n \in Nat : livebytes - oldlen + n <= CAPACITY => Packed + HEADER + n <= LIMIT
      BY <1>1, <1>2, PackedFits
    <3>. HIDE DEF all
    <3>3. Packed + HEADER + all <= LIMIT
      BY <3>1, <3>2
    <3>4. Packed + HEADER + (Len(data) + Len(Incoming)) <= LIMIT
      BY <3>3 DEF all
    <3>. QED  BY <1>2, <2>1, <2>9, <2>10, <3>2, <3>4
  <2>12. CursorInSector' /\ SlotsMatch' /\ TotalsKept'
    <3>1. SlotsMatch'
      BY <1>1, <2>1, <2>2, <2>4, <2>5 DEF SpaceInv, SpaceFits, SlotsMatch
    <3>. QED
      BY <1>1, <2>1, <2>4, <2>11, <3>1 DEF SpaceInv, SpaceFits, CursorInSector, TotalsKept
  <2>13. TailIsClean'
    <3>1. ~dirty /\ tail <= LIMIT - HEADER /\ Clean(cell'[active], tail)
      BY <1>1, <1>2, <2>3 DEF SpaceInv, SpaceFits, TailIsClean
    <3>2. Clean(cell'[target], cursor)
      BY <1>2, <1>4, <2>2, CleanKept DEF SpaceInv, SpaceFits, TailIsClean
    <3>. QED  BY <2>1, <2>2, <3>1, <3>2 DEF TailIsClean
  <2>14. DraftFits'
    BY <1>2, <2>1, <2>4, <2>9 DEF DraftFits
  <2>15. WriteFits' /\ CommitIsDraft'
    BY <1>2, <2>1, <2>8, <2>9, <2>11 DEF WriteFits, CommitIsDraft, Compacting
  <2>16. CopyFits'
    BY <1>2, <2>1, <2>4, <2>6, <2>9 DEF CopyFits
  <2>. QED  BY <2>7, <2>12, <2>13, <2>14, <2>15, <2>16 DEF SpaceInv, SpaceFits
<1>. QED  BY <1>6, <1>7

LEMMA ActivateFits ==
    ASSUME IndInv, SpaceInv, Activate
    PROVE  SpaceInv'
<1>1. /\ pc = "activate" /\ cell' = cell /\ sector' = [sector EXCEPT ![target].state = "sealed"]
      /\ active' = target /\ heads' = nextheads /\ tail' = cursor /\ Totals(target, nextheads)
      /\ dirty' = FALSE /\ Forget
      /\ \/ pc' = "idle"
         \/ pc' = "tag" /\ writer = Idle
  BY DEF Activate, Publish, Reply
<1>2. target \in Sides /\ sector \in [Sides -> SectorType] /\ Building /\ NextEnd = cursor /\ cursor \in Nat
  BY <1>1 DEF IndInv, TypeOK, SectorType, Building, NextEnd
<1>3. /\ Accounted(cell[target], cursor, NextLens) /\ Clean(cell[target], cursor)
      /\ \A i \in Slots : nextheads[i] # 0 =>
           cell[target][nextheads[i]].commit /\ cell[target][nextheads[i]].slot = i
  BY <1>2 DEF SpaceInv, LogsFit, SpaceFits, TailIsClean, SlotsMatch
<1>4. ~Building' /\ IndexEnd' = cursor
  BY <1>1 DEF Building, IndexEnd, Forget
<1>5. \A i \in Slots : LenOf(i)' = NextLen(i)
  BY <1>1 DEF LenOf, Entry, NextLen
<1>6. Lens' = NextLens /\ livebytes' = Sum(NextLens) /\ Sum(NextLens) <= CAPACITY
  <2>1. NextLens = [i \in Slots |-> IF nextheads[i] = 0 THEN 0 ELSE cell[target][nextheads[i]].len]
    BY DEF NextLens, NextLen
  <2>. QED  BY <1>1, <1>3, <1>5, <2>1, AccountType DEF Lens, NextLens, Totals
<1>7. LogsFit'
  <2>1. ASSUME NEW s \in Sides, Sealed(s)' PROVE Accounted(cell[s], HEADER, NoneLive)
    <3>1. CASE s = target
      BY <1>3, <3>1, FromTheStart
    <3>2. CASE s # target
      BY <1>1, <1>2, <2>1, <3>2 DEF SpaceInv, LogsFit, Sealed
    <3>. QED  BY <3>1, <3>2
  <2>. QED  BY <1>1, <1>3, <1>4, <1>6, <2>1 DEF LogsFit
<1>8. tail' <= LIMIT - HEADER \/ pc' = "idle"
  <2>1. CASE writer = Idle
    <3>1. cursor <= Packed /\ Packed \in Nat /\ Packed + HEADER <= LIMIT
      BY <1>1, <2>1, PackedFits DEF SpaceInv, SpaceFits, CopyFits
    <3>. QED  BY <1>1, <1>2, <3>1, JournalAssumption
  <2>. QED  BY <1>1, <2>1
<1>9. SlotsMatch'
  BY <1>1, <1>3, <1>4 DEF SlotsMatch, Live, Entry
<1>10. CursorInSector' /\ TotalsKept' /\ TailIsClean'
  BY <1>1, <1>3, <1>4, <1>6, <1>8, JournalAssumption DEF CursorInSector, TotalsKept, TailIsClean, Forget
<1>11. DraftFits' /\ WriteFits' /\ CopyFits' /\ CommitIsDraft'
  BY <1>1, <1>4 DEF Forget, DraftFits, WriteFits, CopyFits, CommitIsDraft, Compacting
<1>. QED  BY <1>7, <1>9, <1>10, <1>11 DEF SpaceInv, SpaceFits

LEMMA ScratchNextFits ==
    ASSUME IndInv, SpaceInv, ScratchNext
    PROVE  SpaceInv'
BY RefuseFits, PrepareFits DEF ScratchNext

-----------------------------------------------------------------------------
(* Loss of power, and mount() *)

(* While nothing is mounted, the logs have to be in order, and the part of *)
(* one that was scanned so far.                                            *)
LEMMA UnmountedFits ==
    ASSUME pc' \in {"off", "scan", "condemned"}, writer' = Idle, ~rotating', cursor' <= LIMIT,
           \A s \in Sides : Sealed(s)' => Accounted(cell'[s], HEADER, NoneLive),
           pc' = "scan" => /\ Accounted(cell[active], at, Lens)'
                           /\ (\A i \in Live : Entry(i).commit /\ Entry(i).slot = i)'
    PROVE  SpaceInv'
<1>1. ~Building' /\ (pc' = "scan" => IndexEnd' = at')
  BY DEF Building, IndexEnd
<1>2. LogsFit'
  BY <1>1 DEF LogsFit
<1>3. CursorInSector' /\ SlotsMatch' /\ TotalsKept' /\ TailIsClean'
  BY <1>1 DEF CursorInSector, SlotsMatch, TotalsKept, TailIsClean
<1>4. DraftFits' /\ WriteFits' /\ CopyFits' /\ CommitIsDraft'
  BY <1>1 DEF DraftFits, WriteFits, CopyFits, CommitIsDraft, Compacting
<1>. QED  BY <1>2, <1>3, <1>4 DEF SpaceInv, SpaceFits

LEMMA PowerLossFits ==
    ASSUME IndInv, SpaceInv, PowerLoss
    PROVE  SpaceInv'
<1>1. pc' = "off" /\ writer' = Idle /\ rotating' = FALSE /\ cursor' = 0
  BY DEF PowerLoss, Forget
<1>2. \A s \in Sides : Sealed(s)' => Sealed(s) /\ Keeps(cell[s], cell'[s])
  <2>1. CASE pc = "erase"
    BY <2>1, HalfErasedKeeps DEF PowerLoss
  <2>2. CASE pc # "erase"
    BY <2>2, KeepsItself DEF PowerLoss, flashVars, Sealed
  <2>. QED  BY <2>1, <2>2
<1>3. \A s \in Sides : Sealed(s)' => Accounted(cell'[s], HEADER, NoneLive)
  BY <1>2, AccountKept DEF SpaceInv, LogsFit
<1>. QED  BY <1>1, <1>3, JournalAssumption, UnmountedFits

LEMMA DecayFits ==
    ASSUME IndInv, SpaceInv, Decay
    PROVE  SpaceInv'
<1>1. PICK s \in Sides, o \in Offsets : cell' = [cell EXCEPT ![s][o] = Junk]
  BY DEF Decay
<1>2. pc = "off" /\ UNCHANGED <<sector, pc, writer, rotating, cursor>>
  BY DEF Decay, draftVars, cursorVars
<1>3. \A r \in Sides : Keeps(cell[r], cell'[r])
  <2>1. cell' = WithUnit(cell, s, o, Junk) /\ cell \in [Sides -> Log]
    BY <1>1 DEF WithUnit, IndInv, TypeOK, Log
  <2>2. Junk \in Cell /\ Junk # Blank /\ Junk.k # "rec"
    BY CellType DEF Junk, Blank
  <2>. QED  BY <1>2, <2>1, <2>2, UnitKeeps
<1>4. \A r \in Sides : Sealed(r)' => Accounted(cell'[r], HEADER, NoneLive)
  BY <1>2, <1>3, AccountKept DEF SpaceInv, LogsFit, Sealed
<1>5. writer = Idle /\ ~rotating
  BY <1>2, MountingType DEF Mounting
<1>. QED  BY <1>2, <1>4, <1>5, UnmountedFits DEF SpaceInv, SpaceFits, CursorInSector

LEMMA NoFilesystemFits ==
    ASSUME IndInv, SpaceInv, Mounting, NoFilesystem, UNCHANGED flashVars
    PROVE  SpaceInv'
BY MountingType, UnmountedFits
DEF NoFilesystem, flashVars, draftVars, cursorVars, SpaceInv, SpaceFits, CursorInSector, LogsFit, Sealed

(* A scan starts where the log of a sealed sector does. *)
LEMMA ScanFromFits ==
    ASSUME IndInv, SpaceInv, Mounting, NEW s \in Sides, Sealed(s), ScanFrom(s),
           UNCHANGED <<flashVars, draftVars, cursorVars>>
    PROVE  SpaceInv'
<1>1. /\ pc' = "scan" /\ at' = HEADER /\ active' = s /\ heads' = NoHeads
      /\ UNCHANGED <<sector, cell, writer, rotating, cursor>>
  BY DEF ScanFrom, flashVars, draftVars, cursorVars
<1>2. Live' = {} /\ Lens' = NoneLive
  BY <1>1 DEF Live, Lens, LenOf, NoneLive, NoHeads
<1>3. \A r \in Sides : Sealed(r) => Accounted(cell[r], HEADER, NoneLive)
  BY DEF SpaceInv, LogsFit
<1>4. writer = Idle /\ ~rotating /\ cursor <= LIMIT
  BY MountingType DEF SpaceInv, SpaceFits, CursorInSector
<1>. QED  BY <1>1, <1>2, <1>3, <1>4, UnmountedFits DEF Sealed

LEMMA MountFits ==
    ASSUME IndInv, SpaceInv, Mount
    PROVE  SpaceInv'
<1>1. Mounting
  BY DEF Mount, Mounting
<1>2. CASE /\ Sealed(0) \/ Sealed(1)
           /\ ScanFrom(Chosen) /\ UNCHANGED <<flashVars, draftVars, cursorVars>>
  <2>1. Chosen \in Sides /\ Sealed(Chosen)
    BY <1>2 DEF Chosen, Sides
  <2>. QED  BY <1>1, <1>2, <2>1, ScanFromFits
<1>3. CASE NoFilesystem /\ UNCHANGED flashVars
  BY <1>1, <1>3, NoFilesystemFits
<1>. QED  BY <1>2, <1>3 DEF Mount

LEMMA FallBackFits ==
    ASSUME IndInv, SpaceInv, FallBack
    PROVE  SpaceInv'
<1>1. Mounting
  BY DEF FallBack, Mounting
<1>2. CASE /\ Sealed(1 - active) /\ ScanFrom(1 - active)
           /\ UNCHANGED <<flashVars, draftVars, cursorVars>>
  <2>1. 1 - active \in Sides
    BY DEF IndInv, TypeOK, Sides
  <2>. QED  BY <1>1, <1>2, <2>1, ScanFromFits
<1>3. CASE NoFilesystem /\ UNCHANGED flashVars
  BY <1>1, <1>3, NoFilesystemFits
<1>. QED  BY <1>2, <1>3 DEF FallBack

(* Each record that passes the tests of scan() is one the account knows. *)
LEMMA ScanRecordFits ==
    ASSUME IndInv, SpaceInv, ScanRecord
    PROVE  SpaceInv'
<1>. DEFINE r == cell[active][at]
<1>1. /\ pc = "scan" /\ at' = at + r.span /\ pc' \in {"condemned", "scan"}
      /\ heads' = [i \in Slots |-> IF i = r.slot THEN (IF r.kind = 3 THEN 0 ELSE at)
                                   ELSE IF i = r.drop THEN 0 ELSE heads[i]]
      /\ UNCHANGED <<sector, cell, active, writer, rotating, cursor>>
  BY DEF ScanRecord, flashVars, draftVars, cursorVars
<1>2. r.k = "rec" /\ r.commit /\ at <= LIMIT - HEADER
  BY DEF ScanRecord, MoreToScan, Valid
<1>3. HEADER \in Nat \ {0} /\ LIMIT \in Nat /\ at \in Nat
  BY JournalAssumption DEF IndInv, TypeOK
<1>4. at \in Offsets
  BY <1>2, <1>3 DEF Offsets
<1>5. r \in Record /\ r.span \in Nat
  <2>1. r \in Cell
    BY <1>4 DEF IndInv, TypeOK
  <2>. QED  BY <1>2, <2>1, RecordType DEF Cell
<1>6. /\ Accounted(cell[active], at, Lens)
      /\ \A i \in Live : Entry(i).commit /\ Entry(i).slot = i
      /\ \A s \in Sides : Sealed(s) => Accounted(cell[s], HEADER, NoneLive)
      /\ cursor <= LIMIT
  BY <1>1 DEF SpaceInv, LogsFit, IndexEnd, SpaceFits, SlotsMatch, CursorInSector
<1>7. at # 0
  BY <1>6, AccountType
<1>8. Accounted(cell[active], at + r.span, After(r, Lens))
  BY <1>2, <1>4, <1>5, <1>6, AccountFollowed DEF Recorded
<1>9. Lens' = After(r, Lens)
  BY <1>1, <1>7 DEF Lens, LenOf, Entry, After
<1>10. \A i \in Slots : heads'[i] # 0 => cell[active][heads'[i]].commit /\ cell[active][heads'[i]].slot = i
  BY <1>1, <1>2, <1>6 DEF Live, Entry
<1>11. writer = Idle /\ ~rotating
  BY <1>1, MountingType DEF Mounting
<1>. HIDE DEF r
<1>. QED  BY <1>1, <1>6, <1>8, <1>9, <1>10, <1>11, UnmountedFits DEF Live, Entry, Sealed

LEMMA CleanAtBlank ==
    ASSUME NEW log, NEW n, NEW len, Accounted(log, n, len), n \in Offsets, log[n] = Blank
    PROVE  Clean(log, n)
<1>1. \A p \in Offsets : p > n => ~Recorded(log, p)
  BY DEF Accounted, Accounts
<1>2. ~Recorded(log, n)
  BY DEF Recorded, Blank
<1>3. \A p \in Offsets : p >= n => p > n \/ p = n
  BY JournalAssumption DEF Offsets
<1>. QED  BY <1>1, <1>2, <1>3 DEF Clean

(* Where the scan stops, the index holds what the account says. *)
LEMMA ScanEndsFits ==
    ASSUME IndInv, SpaceInv, ScanEnds
    PROVE  SpaceInv'
<1>1. /\ pc = "scan" /\ dirty' = MoreToScan /\ tail' = at
      /\ \/ pc' = "condemned"
         \/ pc' = "idle" /\ Totals(active, heads)
      /\ UNCHANGED <<sector, cell, active, heads, writer, rotating, cursor>>
  BY DEF ScanEnds, flashVars, draftVars, cursorVars
<1>2. writer = Idle /\ ~rotating
  BY <1>1, MountingType DEF Mounting
<1>3. /\ Accounted(cell[active], at, Lens)
      /\ \A i \in Live : Entry(i).commit /\ Entry(i).slot = i
      /\ \A s \in Sides : Sealed(s) => Accounted(cell[s], HEADER, NoneLive)
      /\ cursor <= LIMIT
  BY <1>1 DEF SpaceInv, LogsFit, IndexEnd, SpaceFits, SlotsMatch, CursorInSector
<1>4. CASE pc' = "condemned"
  BY <1>1, <1>2, <1>3, <1>4, UnmountedFits DEF Sealed
<1>5. CASE pc' = "idle" /\ Totals(active, heads)
  <2>1. ~Building' /\ IndexEnd' = at
    BY <1>1, <1>2, <1>5 DEF Building, IndexEnd
  <2>2. /\ Live' = Live /\ \A i \in Live : Entry(i)' = Entry(i)
        /\ Lens' = Lens
    BY <1>1, SameFiles
  <2>3. livebytes' = Sum(Lens) /\ Sum(Lens) <= CAPACITY
    <3>1. Lens = [i \in Slots |-> IF heads[i] = 0 THEN 0 ELSE cell[active][heads[i]].len]
      BY DEF Lens, LenOf, Entry
    <3>. QED  BY <1>3, <1>5, <3>1, AccountType DEF Totals
  <2>4. ASSUME ~dirty', tail' <= LIMIT - HEADER PROVE Clean(cell[active], at)
    <3>1. cell[active][at] = Blank
      BY <1>1, <2>4 DEF MoreToScan
    <3>2. at \in Offsets
      BY <1>1, <2>4, JournalAssumption DEF Offsets, IndInv, TypeOK
    <3>. QED  BY <1>3, <3>1, <3>2, CleanAtBlank
  <2>5. LogsFit'
    BY <1>1, <1>3, <2>1, <2>2 DEF LogsFit, Sealed
  <2>6. CursorInSector' /\ SlotsMatch' /\ TotalsKept' /\ TailIsClean'
    BY <1>1, <1>2, <1>3, <1>5, <2>1, <2>2, <2>3, <2>4
    DEF CursorInSector, SlotsMatch, TotalsKept, TailIsClean
  <2>7. DraftFits' /\ WriteFits' /\ CopyFits' /\ CommitIsDraft'
    BY <1>1, <1>2, <1>5, <2>1 DEF DraftFits, WriteFits, CopyFits, CommitIsDraft, Compacting
  <2>. QED  BY <2>5, <2>6, <2>7 DEF SpaceInv, SpaceFits
<1>. QED  BY <1>1, <1>4, <1>5

-----------------------------------------------------------------------------
(* The invariant *)

LEMMA InitSpace == Init => SpaceInv
<1>. SUFFICES ASSUME Init PROVE SpaceInv
  OBVIOUS
<1>1. pc = "off" /\ writer = Idle /\ rotating = FALSE /\ cursor = 0 /\ LIMIT \in Nat
  BY JournalAssumption DEF Init
<1>2. \A s \in Sides : cell[s] = BlankLog
  BY DEF Init
<1>3. ~Building
  BY <1>1 DEF Building
<1>4. LogsFit
  BY <1>1, <1>2, <1>3, FreshLog DEF LogsFit
<1>5. CursorInSector /\ SlotsMatch /\ TotalsKept /\ TailIsClean
  BY <1>1, <1>3 DEF CursorInSector, SlotsMatch, TotalsKept, TailIsClean
<1>6. DraftFits /\ WriteFits /\ CopyFits /\ CommitIsDraft
  BY <1>1, <1>3 DEF DraftFits, WriteFits, CopyFits, CommitIsDraft, Compacting
<1>. QED  BY <1>4, <1>5, <1>6 DEF SpaceInv, SpaceFits

LEMMA StutterFits ==
    ASSUME IndInv, SpaceInv, UNCHANGED vars
    PROVE  SpaceInv'
<1>. USE DEF vars, flashVars, indexVars, draftVars, cursorVars, localVars
<1>1. /\ Live' = Live /\ \A i \in Live : Entry(i)' = Entry(i)
      /\ Lens' = Lens /\ (\A i \in Slots : LenOf(i)' = LenOf(i))
      /\ Packed' = Packed /\ \A n : PackedBelow(n)' = PackedBelow(n)
  BY SameFiles
<1>2. NextLens' = NextLens /\ \A i \in Slots : NextLen(i)' = NextLen(i)
  BY SameNextFiles
<1>3. /\ Building' <=> Building
      /\ IndexEnd' = IndexEnd /\ NextEnd' = NextEnd
  BY DEF Building, IndexEnd, NextEnd
<1>4. LogsFit'
  BY <1>1, <1>2, <1>3, KeepsItself, LogsKept DEF SpaceInv, Sealed
<1>5. CursorInSector' /\ SlotsMatch' /\ TotalsKept'
  BY <1>1, <1>3 DEF SpaceInv, SpaceFits, CursorInSector, SlotsMatch, TotalsKept
<1>6. TailIsClean'
  BY <1>3 DEF SpaceInv, SpaceFits, TailIsClean
<1>7. DraftFits' /\ CommitIsDraft'
  BY DEF SpaceInv, SpaceFits, DraftFits, CommitIsDraft, LenOf, Entry
<1>8. WriteFits'
  BY SameIncoming DEF SpaceInv, SpaceFits, WriteFits, Compacting
<1>9. CopyFits'
  <2>1. wslot \in Slots
    BY DEF IndInv, TypeOK
  <2>. QED  BY <1>1, <1>2, <1>3 DEF SpaceInv, SpaceFits, CopyFits, PackedBelow, SizesBelow, Size, Live, Entry
<1>. QED  BY <1>4, <1>5, <1>6, <1>7, <1>8, <1>9 DEF SpaceInv, SpaceFits

LEMMA NextFits ==
    ASSUME IndInv, SpaceInv, [Next]_vars
    PROVE  SpaceInv'
<1>1. CASE Request
  BY <1>1, RequestFits, CloseAbortFit
<1>2. CASE Continue
  <2>1. CASE ScratchNext \/ TagRecord \/ Reserve \/ Payload \/ Fields \/ Commit
    BY <2>1, ScratchNextFits, TagRecordFits, ReserveFits, PayloadFits, FieldsFits, CommitFits
  <2>2. CASE CompactBegin \/ Erase \/ CopyNext \/ Move \/ Seal \/ Activate
    BY <2>2, CompactBeginFits, EraseFits, CopyEndsFits, CopyOneFits, MoveFits, SealFits, ActivateFits
  <2>3. CASE ScanRecord \/ ScanEnds \/ FallBack
    BY <2>3, ScanRecordFits, ScanEndsFits, FallBackFits
  <2>. QED  BY <1>2, <2>1, <2>2, <2>3 DEF Continue
<1>3. CASE Failure \/ Mount \/ PowerLoss \/ Decay
  BY <1>3, FailuresFit, MountFits, PowerLossFits, DecayFits
<1>4. CASE UNCHANGED vars
  BY <1>4, StutterFits
<1>. QED  BY <1>1, <1>2, <1>3, <1>4 DEF Next

LEMMA JournalHolds == Spec => [](IndInv /\ SpaceInv)
<1>1. Init => IndInv /\ SpaceInv
  BY InitInv, InitSpace
<1>2. IndInv /\ SpaceInv /\ [Next]_vars => (IndInv /\ SpaceInv)'
  <2>. SUFFICES ASSUME IndInv, SpaceInv, [Next]_vars PROVE IndInv' /\ SpaceInv'
    OBVIOUS
  <2>1. SpaceInv'
    BY NextFits
  <2>2. CursorInSector /\ CursorInSector'
    BY <2>1 DEF SpaceInv, SpaceFits
  <2>. QED  BY <2>1, <2>2, NextInv
<1>. QED  BY <1>1, <1>2, PTL DEF Spec

(* Between any two blocks of the journal's code, also after a loss of      *)
(* power, a failed flash operation or a decayed unit, the index, the draft,*)
(* the half built side and the request in progress fit together, and there *)
(* is room for what is left to do (journal.h, fs.c).                       *)
THEOREM InvariantHolds == Spec => []Invariant
<1>1. IndInv /\ SpaceInv => Invariant
  BY DEF SpaceInv, Invariant
<1>. QED  BY JournalHolds, <1>1, PTL

(* Every variable keeps its type, whatever sequence of requests, failures  *)
(* and resets the cartridge goes through; above all, every record that is  *)
(* ever read as one is one.                                                *)
THEOREM TypeCorrect == Spec => []TypeOK
<1>1. IndInv /\ SpaceInv => TypeOK
  BY DEF IndInv
<1>. QED  BY JournalHolds, <1>1, PTL

(* The subtractions of reserve() never wrap, no cursor leaves its sector,  *)
(* and a write that has moved to a fresh side never has to move again: the *)
(* one assumption is the arithmetic of the code's constants.               *)
THEOREM SpaceAlwaysSuffices == Spec => []SpaceSuffices
<1>1. ASSUME IndInv, SpaceInv PROVE SpaceSuffices
  <2>1. CursorInSector /\ (pc = "compact" => ~rotating)
    BY <1>1 DEF SpaceInv, SpaceFits, WriteFits
  <2>2. ASSUME pc = "reserve"
        PROVE  Length >= 0 /\ oldlen <= livebytes /\ livebytes - oldlen + Length <= CAPACITY
    <3>1. writer # Idle /\ ~failed /\ wslot \in Slots
      BY <1>1, <2>2 DEF IndInv, TypeOK, RequestFitsBlock
    <3>2. /\ cursor \in Nat /\ writebase \in Nat /\ HEADER \in Nat /\ Len(data) \in Nat
          /\ livebytes \in Nat /\ oldlen \in Nat
      BY <1>1, LenProperties, JournalAssumption DEF IndInv, TypeOK
    <3>3. /\ oldlen = LenOf(wslot) /\ livebytes = Sum(Lens)
          /\ livebytes - oldlen + Len(data) <= CAPACITY
          /\ cursor = writebase + HEADER + Len(data)
      BY <1>1, <2>2, <3>1 DEF SpaceInv, SpaceFits, DraftFits, TotalsKept
    <3>4. Length = Len(data)
      BY <3>2, <3>3 DEF Length
    <3>5. Lens[wslot] <= Sum(Lens) /\ Lens[wslot] = LenOf(wslot)
      BY <1>1, <2>2, <3>1, LensType, SumMember DEF Lens
    <3>. QED  BY <3>2, <3>3, <3>4, <3>5
  <2>. QED  BY <2>1, <2>2 DEF SpaceSuffices
<1>. QED  BY JournalHolds, <1>1, PTL

=============================================================================
