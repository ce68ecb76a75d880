----------------------------- MODULE SessionProofs -----------------------------
(***************************************************************************)
(* Theorems about leaving the shell and coming back, for every value of    *)
(* the constants: the four properties of Session, from the inductive       *)
(* invariant SessionInvariant below.                                       *)
(***************************************************************************)
EXTENDS Session, TLAPS, SequenceTheorems, WellFoundedInduction

-----------------------------------------------------------------------------
(* Types                                                                   *)

SlotType == [head : Header, gen : Generations, data : Seq(Values), crc : Seq(Values),
             commit : BOOLEAN, ruined : BOOLEAN]

StoreTyped ==
    /\ slots \in [Slots -> SlotType]
    /\ ss_slot \in Slots \cup {None}
    /\ ss_failed \in BOOLEAN
    /\ ss_gen \in Generations
    /\ ss_pos \in 0..SIZE
    /\ ss_crc \in Seq(Values)

TokenType == [slot : Slots \cup {None}, gen : Generations, crc : Seq(Values)]

Labels == {"shell", "report", "begin", "erase", "header", "write", "commit", "mark", "publish",
           "saved", "failed", "outside", "tape", "boot", "restore", "read", "resumed", "cold"}

MachineTyped ==
    /\ shell \in Shell
    /\ request \in {"none", "shell", "tape"}
    /\ valid \in BOOLEAN
    /\ token \in TokenType
    /\ pending \in BOOLEAN
    /\ pc \in Labels
    /\ leaving \in Commands
    /\ taped \in BOOLEAN

HistoryTyped ==
    /\ departed \in Shell
    /\ newest \in [slot : Slots \cup {None}, data : Seq(Values)]
    /\ flawed \in BOOLEAN
    /\ copied \in BOOLEAN

Typed == StoreTyped /\ MachineTyped /\ HistoryTyped

(* Slots are numbered from 0, 0 is a generation, and None is no slot.      *)
LEMMA SlotFacts ==
    /\ Slots \in SUBSET Nat
    /\ 0 \in Slots /\ PER \in Slots /\ None \notin Slots
    /\ 0 \in Generations
  BY SessionAssumption DEF Slots, None, Generations

(* Two slots are on one chip if both are below PER or neither is.          *)
LEMMA BesideIsHalf ==
    ASSUME NEW i \in Slots, NEW j \in Slots
    PROVE  j \in Beside(i) <=> (i < PER <=> j < PER)
<1>1. \A k \in Slots : k \div PER = IF k < PER THEN 0 ELSE 1
  BY SessionAssumption DEF Slots
<1>. QED  BY <1>1 DEF Beside

(* A blank slot, and what an erase that stops half way leaves of a slot.   *)
LEMMA LeftTyped ==
    /\ Empty \in SlotType
    /\ \A slot \in SlotType : \A phase \in Phases : \A how \in phase : Left(slot, how) \in SlotType
<1>1. Empty \in SlotType
  BY SlotFacts, EmptySeq DEF Empty, SlotType, Header
<1>2. ASSUME NEW slot \in SlotType, NEW phase \in Phases, NEW how \in phase
      PROVE  Left(slot, how) \in SlotType
  <2>1. how \in {"kept", "blank", "bad", "ruined"}
    BY <1>2 DEF Phases
  <2>2. CASE how = "kept"
    BY <2>2 DEF Left
  <2>3. CASE how = "blank"
    BY <1>1, <2>3 DEF Left
  <2>4. CASE how = "bad"
    BY <1>1, <2>4 DEF Left, SlotType, Header
  <2>5. CASE how = "ruined"
    BY <1>1, <2>5 DEF Left, SlotType
  <2>. QED  BY <2>1, <2>2, <2>3, <2>4, <2>5
<1>. QED  BY <1>1, <1>2

(* The generation a save takes is a generation.                            *)
LEMMA NextGenerationTyped ==
    ASSUME StoreTyped, NEW last \in Slots \cup {None}
    PROVE  NextGeneration(last) \in Generations
<1>1. \A i \in Slots : slots[i].gen \in Generations
  BY DEF StoreTyped, SlotType
<1>2. (IF last = None THEN 0 ELSE slots[last].gen) + 1 \in Int
  BY <1>1 DEF Generations
<1>3. \A a \in Int : a % GENERATIONS \in 0..(GENERATIONS - 1)
  BY SessionAssumption
<1>. QED  BY <1>2, <1>3 DEF NextGeneration, Generations

-----------------------------------------------------------------------------
(* The search of BEGIN                                                     *)

(* A set of naturals has a least member.                                   *)
LEMMA LeastNatural ==
    ASSUME NEW S \in SUBSET Nat, S # {}
    PROVE  \E m \in S : \A k \in S : m <= k
<1>. DEFINE R == OpToRel(<, Nat)
<1>1. \A k, m \in Nat : k < m => <<k, m>> \in R
  BY DEF OpToRel
<1>2. IsWellFoundedOn(R, Nat)
  BY NatLessThanWellFounded
<1>. HIDE DEF R
<1>3. PICK m \in S : \A k \in S : <<k, m>> \notin R
  BY <1>2, WFMin
<1>4. ASSUME NEW k \in S PROVE m <= k
  <2>1. k \in Nat /\ m \in Nat /\ <<k, m>> \notin R
    BY <1>3
  <2>. QED  BY <1>1, <2>1
<1>. QED  BY <1>4

(* best is the slot found among the first n - 1, when slot n - 1 is read.  *)
Better(best, n) ==
    IF Committed(n - 1) /\ (best = None \/ Later(slots[n - 1].gen, slots[best].gen))
      THEN n - 1 ELSE best

IsSearch(found, m) == found = [n \in 0..m |-> IF n = 0 THEN None ELSE Better(found[n - 1], n)]

(* The recursion of Last has a solution.                                   *)
LEMMA SearchExists ==
    ASSUME NEW n \in 0..(2 * PER)
    PROVE  \E found : IsSearch(found, n)
<1>. DEFINE Bad == {m \in 0..(2 * PER) : ~\E found : IsSearch(found, m)}
<1>. SUFFICES ASSUME Bad # {} PROVE FALSE
  OBVIOUS
<1>1. PICK m \in Bad : \A k \in Bad : m <= k
  <2>1. Bad \in SUBSET Nat
    OBVIOUS
  <2>. QED  BY <2>1, LeastNatural
<1>2. m \in Nat /\ m <= 2 * PER /\ 2 * PER \in Nat
  BY SessionAssumption
<1>3. m # 0
  <2>1. IsSearch([k \in 0..0 |-> None], 0)
    BY DEF IsSearch
  <2>. QED  BY <1>1, <2>1
<1>4. m - 1 \in 0..(2 * PER) /\ m - 1 \notin Bad
  BY <1>1, <1>2, <1>3
<1>5. PICK found : IsSearch(found, m - 1)
  BY <1>4
<1>. DEFINE longer == [k \in 0..m |-> IF k = m THEN Better(found[m - 1], m) ELSE found[k]]
<1>6. ASSUME NEW k \in 0..m
      PROVE  longer[k] = IF k = 0 THEN None ELSE Better(longer[k - 1], k)
  <2>1. \A i \in 0..(m - 1) : found[i] = IF i = 0 THEN None ELSE Better(found[i - 1], i)
    BY <1>5 DEF IsSearch
  <2>2. k # 0 => longer[k - 1] = found[k - 1]
    BY <1>2
  <2>3. k = m => longer[k] = Better(found[k - 1], k)
    OBVIOUS
  <2>4. k # m => longer[k] = found[k] /\ k \in 0..(m - 1)
    BY <1>2
  <2>. HIDE DEF longer
  <2>. QED  BY <1>3, <2>1, <2>2, <2>3, <2>4
<1>7. IsSearch(longer, m)
  BY <1>6 DEF IsSearch
<1>. QED  BY <1>1, <1>7

LEMMA LastIsSearch ==
    \E found : Last = found[2 * PER] /\ IsSearch(found, 2 * PER)
<1>. DEFINE F(u) == [n \in 0..(2 * PER) |->
                       IF n = 0 THEN None
                       ELSE LET best == u[n - 1] IN
                            IF Committed(n - 1) /\ (best = None \/ Later(slots[n - 1].gen, slots[best].gen))
                              THEN n - 1 ELSE best]
            solution == CHOOSE u : u = F(u)
<1>1. 2 * PER \in 0..(2 * PER)
  BY SessionAssumption
<1>2. \A u : IsSearch(u, 2 * PER) <=> u = F(u)
  BY DEF IsSearch, Better
<1>3. IsSearch(solution, 2 * PER)
  BY <1>1, <1>2, SearchExists
<1>4. Last = solution[2 * PER]
  BY DEF Last
<1>. QED  BY <1>3, <1>4

(* The search yields a slot, or none.                                      *)
LEMMA LastTyped ==
    Last \in Slots \cup {None}
<1>1. PICK found : Last = found[2 * PER] /\ IsSearch(found, 2 * PER)
  BY LastIsSearch
<1>. DEFINE Bad == {m \in 0..(2 * PER) : found[m] \notin Slots \cup {None}}
<1>2. \A m \in 0..(2 * PER) : found[m] = IF m = 0 THEN None ELSE Better(found[m - 1], m)
  BY <1>1 DEF IsSearch
<1>3. ASSUME Bad # {} PROVE FALSE
  <2>0. Bad \in SUBSET Nat
    BY SessionAssumption
  <2>1. PICK m \in Bad : \A k \in Bad : m <= k
    BY <1>3, <2>0, LeastNatural
  <2>2. m \in 0..(2 * PER) /\ m # 0
    BY <1>2, <2>1
  <2>3. m - 1 \in 0..(2 * PER) /\ m - 1 \in Slots /\ ~(m <= m - 1)
    BY <2>2, SessionAssumption DEF Slots
  <2>4. found[m - 1] \in Slots \cup {None}
    BY <2>1, <2>3
  <2>5. found[m] \in {m - 1, found[m - 1]}
    BY <1>2, <2>2 DEF Better
  <2>. QED  BY <2>1, <2>3, <2>4, <2>5
<1>4. 2 * PER \in 0..(2 * PER)
  BY SessionAssumption
<1>. QED  BY <1>1, <1>3, <1>4

-----------------------------------------------------------------------------
(* Every operation of the driver keeps the types.                          *)

LEMMA BeginTyped ==
    ASSUME StoreTyped, Begin
    PROVE  StoreTyped'
<1>1. ss_gen' \in Generations
  BY NextGenerationTyped, LastTyped DEF Begin
<1>2. ss_crc' \in Seq(Values)
  BY EmptySeq DEF Begin
<1>3. slots' = slots /\ ss_slot' \in Slots /\ ss_failed' = FALSE /\ ss_pos' = 0
  BY DEF Begin, BeginStatus
<1>4. 0 \in 0..SIZE
  BY SessionAssumption
<1>. QED  BY <1>1, <1>2, <1>3, <1>4 DEF StoreTyped

LEMMA EraseTyped ==
    ASSUME StoreTyped, Erase
    PROVE  StoreTyped'
<1>1. slots' \in [Slots -> SlotType]
  BY LeftTyped DEF Erase, StoreTyped
<1>. QED  BY <1>1 DEF Erase, StoreTyped

LEMMA EraseStopsTyped ==
    ASSUME StoreTyped, NEW error \in BOOLEAN, EraseStops(error)
    PROVE  StoreTyped'
<1>0. PICK phase \in Phases : \E how \in [Beside(ss_slot) -> phase] :
        slots' = [i \in Slots |-> IF i \in Beside(ss_slot) THEN Left(slots[i], how[i]) ELSE slots[i]]
  BY DEF EraseStops
<1>1. PICK how \in [Beside(ss_slot) -> phase] :
        slots' = [i \in Slots |-> IF i \in Beside(ss_slot) THEN Left(slots[i], how[i]) ELSE slots[i]]
  BY <1>0
<1>2. slots' \in [Slots -> SlotType]
  BY <1>1, LeftTyped DEF StoreTyped
<1>. QED  BY <1>2 DEF EraseStops, StoreTyped

(* A slot put in the place of the one being written *)
LEMMA WithSlotTyped ==
    ASSUME StoreTyped, NEW slot, ss_slot \in Slots => slot \in SlotType, WithSlot(slot)
    PROVE  slots' \in [Slots -> SlotType]
  BY DEF WithSlot, StoreTyped

LEMMA PutTyped ==
    ASSUME StoreTyped,
           \/ PutHeader \/ PutChecksum \/ PutCommit \/ PutFails
           \/ \E error \in BOOLEAN : HeaderStops(error)
           \/ \E chunk \in Values : Write(chunk)
    PROVE  StoreTyped'
<1>0. ss_slot \in Slots => Slot \in SlotType
  BY DEF Slot, StoreTyped
<1>1. CASE PutHeader
  <2>1. ss_slot \in Slots =>
          [Slot EXCEPT !.head = IF @ = "blank" THEN "full" ELSE "bad", !.gen = ss_gen] \in SlotType
    BY <1>0 DEF SlotType, Header, StoreTyped
  <2>. QED  BY <1>1, <2>1, WithSlotTyped DEF PutHeader, StoreTyped
<1>2. CASE PutChecksum
  <2>1. ss_slot \in Slots => [Slot EXCEPT !.crc = ss_crc] \in SlotType
    BY <1>0 DEF SlotType, StoreTyped
  <2>. QED  BY <1>2, <2>1, WithSlotTyped DEF PutChecksum, StoreTyped, Verified, Holds
<1>3. CASE PutCommit
  <2>1. ss_slot \in Slots => [Slot EXCEPT !.commit = TRUE] \in SlotType
    BY <1>0 DEF SlotType
  <2>. QED  BY <1>3, <2>1, WithSlotTyped DEF PutCommit, StoreTyped
<1>4. CASE PutFails
  BY <1>4 DEF PutFails, StoreTyped
<1>5. ASSUME NEW error \in BOOLEAN, HeaderStops(error) PROVE StoreTyped'
  <2>1. ss_slot \in Slots => [Slot EXCEPT !.head = "bad"] \in SlotType
    BY <1>0 DEF SlotType, Header
  <2>. QED  BY <1>5, <2>1, WithSlotTyped DEF HeaderStops, StoreTyped
<1>6. ASSUME NEW chunk \in Values, Write(chunk) PROVE StoreTyped'
  <2>1. ss_slot \in Slots => [Slot EXCEPT !.data = Append(@, chunk)] \in SlotType
    BY <1>0, AppendProperties DEF SlotType
  <2>2. ss_crc' \in Seq(Values)
    BY <1>6, AppendProperties DEF Write, StoreTyped
  <2>3. ss_pos' \in 0..SIZE
    BY <1>6, SessionAssumption DEF Write, StoreTyped
  <2>4. slots' \in [Slots -> SlotType]
    BY <1>6, <2>1, WithSlotTyped DEF Write
  <2>. QED  BY <1>6, <2>2, <2>3, <2>4 DEF Write, StoreTyped
<1>. QED  BY <1>1, <1>2, <1>3, <1>4, <1>5, <1>6

LEMMA RestoreTyped ==
    ASSUME StoreTyped, NEW t \in TokenType, Restore(t)
    PROVE  StoreTyped'
  BY SessionAssumption DEF Restore, Accepts, Holds, StoreTyped, TokenType

LEMMA ReadTyped ==
    ASSUME StoreTyped, NEW chunk, Read(chunk)
    PROVE  StoreTyped'
  BY SessionAssumption DEF Read, StoreTyped

LEMMA StoreKept ==
    ASSUME StoreTyped, UNCHANGED storeVars
    PROVE  StoreTyped'
  BY DEF StoreTyped, storeVars

(* The slots as a chip erase or a header that stops leaves them            *)
LEMMA FlashStopsTyped ==
    ASSUME StoreTyped, FlashStops
    PROVE  StoreTyped'
  BY EraseStopsTyped, PutTyped, StoreKept DEF FlashStops

-----------------------------------------------------------------------------
(* Every step keeps the types.                                             *)

LEMMA InitTyped == Init => Typed
<1>. SUFFICES ASSUME Init PROVE Typed
  OBVIOUS
<1>1. StoreTyped
  <2>1. 0 \in 0..SIZE /\ <<>> \in Seq(Values)
    BY SessionAssumption, EmptySeq
  <2>2. [i \in Slots |-> Empty] \in [Slots -> SlotType]
    BY LeftTyped
  <2>. QED  BY <2>1, <2>2, SlotFacts DEF Init, StoreTyped
<1>2. Defaults \in Shell
  BY FreshAssumption DEF Defaults, Shell
<1>3. NoToken \in TokenType
  BY SlotFacts, EmptySeq DEF NoToken, TokenType
<1>4. MachineTyped
  BY <1>2, <1>3 DEF Init, MachineTyped, Labels, Commands
<1>5. HistoryTyped
  BY <1>2, EmptySeq DEF Init, HistoryTyped
<1>. QED  BY <1>1, <1>4, <1>5 DEF Typed

LEMMA ScribbledTyped ==
    ASSUME StoreTyped, Scribbled
    PROVE  request' \in {"none", "shell"} /\ valid' \in BOOLEAN /\ token' \in TokenType /\ pending' \in BOOLEAN
<1>1. NoToken \in TokenType
  BY SlotFacts, EmptySeq DEF NoToken, TokenType
<1>2. ASSUME NEW i \in Slots PROVE [slot |-> i, gen |-> slots[i].gen, crc |-> <<>>] \in TokenType
  <2>1. slots[i].gen \in Generations
    BY DEF StoreTyped, SlotType
  <2>. QED  BY <2>1, EmptySeq DEF TokenType
<1>3. Forged \subseteq TokenType
  BY <1>1, <1>2 DEF Forged
<1>. QED  BY <1>1, <1>3 DEF Scribbled

LEMMA SaveTyped ==
    ASSUME Typed, Save
    PROVE  Typed'
<1>0. StoreTyped /\ MachineTyped /\ HistoryTyped
  BY DEF Typed
<1>1. StoreTyped'
  <2>1. CASE SaveWrite
    <3>1. CASE ss_pos = SIZE
      BY <1>0, <2>1, <3>1, StoreKept DEF SaveWrite
    <3>2. CASE ss_pos # SIZE
      <4>1. shell[ss_pos + 1] \in Values
        BY <1>0, <3>2, SessionAssumption DEF StoreTyped, MachineTyped, Shell
      <4>. QED  BY <1>0, <2>1, <3>2, <4>1, PutTyped DEF SaveWrite
    <3>. QED  BY <3>1, <3>2
  <2>2. CASE SaveBegin
    BY <1>0, <2>2, BeginTyped DEF SaveBegin
  <2>3. CASE SaveErase
    BY <1>0, <2>3, EraseTyped DEF SaveErase
  <2>4. CASE SaveHeader \/ SaveVerify \/ SaveMark
    BY <1>0, <2>4, PutTyped DEF SaveHeader, SaveVerify, SaveMark
  <2>5. CASE Publish
    BY <1>0, <2>5, StoreKept DEF Publish
  <2>6. CASE SaveFails
    BY <1>0, <2>6, PutTyped, EraseStopsTyped DEF SaveFails
  <2>. QED  BY <2>1, <2>2, <2>3, <2>4, <2>5, <2>6 DEF Save
<1>2. MachineTyped'
  <2>1. CASE Publish
    BY <1>0, <2>1 DEF Publish, MachineTyped, TokenType, StoreTyped, Goto, Labels
  <2>2. CASE ~Publish
    BY <1>0, <2>2
    DEF Save, SaveBegin, SaveErase, SaveHeader, SaveWrite, SaveVerify, SaveMark, SaveFails,
        Quietly, Answer, Goto, MachineTyped, Labels
  <2>. QED  BY <2>1, <2>2
<1>3. HistoryTyped'
  <2>1. CASE SaveMark
    BY <1>0, <2>1 DEF SaveMark, HistoryTyped, StoreTyped
  <2>2. CASE SaveBegin \/ SaveFails
    BY <1>0, <2>2 DEF SaveBegin, Quietly, SaveFails, HistoryTyped, StoreTyped, SlotType, Begin
  <2>3. CASE SaveErase \/ SaveHeader \/ SaveWrite \/ SaveVerify \/ Publish
    BY <1>0, <2>3
    DEF SaveErase, SaveHeader, SaveWrite, SaveVerify, Publish, Quietly, historyVars, HistoryTyped
  <2>. QED  BY <2>1, <2>2, <2>3 DEF Save
<1>. QED  BY <1>1, <1>2, <1>3 DEF Typed

LEMMA AwayTyped ==
    ASSUME Typed, Away
    PROVE  Typed'
<1>0. StoreTyped /\ MachineTyped /\ HistoryTyped
  BY DEF Typed
<1>1. UNCHANGED storeVars
  BY DEF Away, GoAway, LaunchFails, StayHere, StartCopier, CopierEnds, TypeShell, Scribble, Undisturbed
<1>2. StoreTyped'
  BY <1>0, <1>1, StoreKept
<1>3. MachineTyped'
  <2>1. CASE Scribble
    BY <1>0, <2>1, ScribbledTyped DEF Scribble, MachineTyped
  <2>2. CASE ~Scribble
    BY <1>0, <2>2
    DEF Away, GoAway, LaunchFails, StayHere, StartCopier, CopierEnds, TypeShell, Undisturbed, Goto,
        MachineTyped, Labels
  <2>. QED  BY <2>1, <2>2
<1>4. HistoryTyped'
  BY <1>0
  DEF Away, GoAway, LaunchFails, StayHere, StartCopier, CopierEnds, TypeShell, Scribble, Undisturbed,
      historyVars, HistoryTyped
<1>. QED  BY <1>2, <1>3, <1>4 DEF Typed

LEMMA ReturnTyped ==
    ASSUME Typed, Return
    PROVE  Typed'
<1>0. StoreTyped /\ MachineTyped /\ HistoryTyped
  BY DEF Typed
<1>1. Defaults \in Shell
  BY FreshAssumption DEF Defaults, Shell
<1>2. StoreTyped'
  <2>1. token \in TokenType
    BY <1>0 DEF MachineTyped
  <2>. QED  BY <1>0, <2>1, RestoreTyped, ReadTyped, StoreKept
            DEF Return, Main, RestoreBegin, RestoreRead, Resume, Cold, Report
<1>3. MachineTyped'
  <2>1. CASE Main \/ Cold
    BY <1>0, <1>1, <2>1 DEF Main, Cold, TapeResume, Back, Goto, MachineTyped, Labels
  <2>2. CASE RestoreBegin \/ Resume \/ Report
    BY <1>0, <2>2 DEF RestoreBegin, Resume, Report, Back, Goto, MachineTyped, Labels
  <2>3. CASE RestoreRead
    <3>1. shell' \in Shell
      BY <1>0, <2>3 DEF RestoreRead, MachineTyped, Shell
    <3>. QED  BY <1>0, <2>3, <3>1 DEF RestoreRead, Goto, MachineTyped, Labels
  <2>. QED  BY <2>1, <2>2, <2>3 DEF Return
<1>4. HistoryTyped'
  BY <1>0 DEF Return, Main, RestoreBegin, RestoreRead, Resume, Cold, Report, historyVars, HistoryTyped
<1>. QED  BY <1>2, <1>3, <1>4 DEF Typed

(* Resets and power cuts keep the types.                                   *)
LEMMA StopTyped ==
    ASSUME Typed, Reset \/ PowerLoss
    PROVE  Typed'
<1>0. StoreTyped /\ MachineTyped /\ HistoryTyped
  BY DEF Typed
<1>1. StoreTyped'
  BY <1>0, FlashStopsTyped DEF Reset, PowerLoss
<1>2. MachineTyped'
  BY <1>0, ScribbledTyped DEF Reset, PowerLoss, Goto, MachineTyped, Labels
<1>3. HistoryTyped'
  BY <1>0 DEF Reset, PowerLoss, HistoryTyped
<1>. QED  BY <1>1, <1>2, <1>3 DEF Typed

LEMMA NextTyped ==
    ASSUME Typed, [Next]_vars
    PROVE  Typed'
<1>0. StoreTyped /\ MachineTyped /\ HistoryTyped
  BY DEF Typed
<1>1. CASE Work
  BY <1>0, <1>1, StoreKept DEF Work, MachineTyped, HistoryTyped, historyVars, Shell, Typed
<1>2. ASSUME NEW command \in Commands, Leave(command) PROVE Typed'
  BY <1>0, <1>2, StoreKept DEF Leave, DropToken, Goto, MachineTyped, HistoryTyped, Labels, Typed
<1>3. CASE UNCHANGED vars
  BY <1>0, <1>3, StoreKept DEF vars, machineVars, historyVars, MachineTyped, HistoryTyped, Typed
<1>. QED  BY <1>1, <1>2, <1>3, SaveTyped, AwayTyped, ReturnTyped, StopTyped DEF Next

(* Every reachable state has the types above.                              *)
THEOREM SessionTyped == Spec => []Typed
<1>1. Init => Typed
  BY InitTyped
<1>2. Typed /\ [Next]_vars => Typed'
  BY NextTyped
<1>. QED  BY <1>1, <1>2, PTL DEF Spec

-----------------------------------------------------------------------------
(* The flash: what is committed, in which order, and which slots are blank *)

(* A blank slot is blank throughout, and a committed one holds something.  *)
SlotsSound ==
    \A i \in Slots :
        /\ slots[i].head = "blank" => ~slots[i].commit /\ slots[i].data = <<>>
        /\ Committed(i) => slots[i].data # <<>>

NewestIsCommitted ==
    IF newest.slot = None THEN \A i \in Slots : ~Committed(i)
                          ELSE Committed(newest.slot) /\ Holds(newest.slot, newest.data)

(* The chip of the newest session was filled after the other one, and each *)
(* chip from its first slot on: a committed slot is older than the newest  *)
(* by no more saves than lie between their places in that order.           *)
Offset(i) == IF i < PER THEN i ELSE i - PER
Place(i) == (IF i \in Beside(newest.slot) THEN PER ELSE 0) + Offset(i)
Age(i) == (slots[newest.slot].gen - slots[i].gen) % GENERATIONS

AgesFitPlaces ==
    newest.slot # None =>
        \A i \in Slots :
            Committed(i) /\ i # newest.slot => Age(i) \in 1..(Place(newest.slot) - Place(i))

(* Blank slots follow the newest session on its chip.  The other chip has  *)
(* blank slots only while it has no session, and chip 0 only while chip 1  *)
(* is full if chip 1 holds the newest.                                     *)
ChipsInTurn ==
    newest.slot # None =>
        /\ \A i \in BlankSlots : i \in Beside(newest.slot) => newest.slot < i
        /\ \A i \in BlankSlots : i \notin Beside(newest.slot) =>
             \A j \in Slots : Committed(j) => j \in Beside(newest.slot)
        /\ \A i, j \in BlankSlots : ~(newest.slot >= PER /\ i < PER /\ j >= PER)

FlashSound == SlotsSound /\ NewestIsCommitted /\ AgesFitPlaces /\ ChipsInTurn

(* Distances on the circle of generations                                  *)
LEMMA Distances ==
    ASSUME NEW a \in Generations, NEW b \in Generations
    PROVE  /\ (a - b) % GENERATIONS = IF a >= b THEN a - b ELSE a - b + GENERATIONS
           /\ (a + 1) % GENERATIONS = IF a = GENERATIONS - 1 THEN 0 ELSE a + 1
  BY SessionAssumption DEF Generations

(* One more save puts every session one step further back.                 *)
LEMMA NextDistance ==
    ASSUME NEW a \in Generations, NEW b \in Generations
    PROVE  /\ (((a + 1) % GENERATIONS) - a) % GENERATIONS = 1
           /\ (a - b) % GENERATIONS < GENERATIONS - 1 =>
                (((a + 1) % GENERATIONS) - b) % GENERATIONS = ((a - b) % GENERATIONS) + 1
<1>. DEFINE c == (a + 1) % GENERATIONS
<1>1. c \in Generations /\ c = IF a = GENERATIONS - 1 THEN 0 ELSE a + 1
  BY Distances, SessionAssumption DEF Generations
<1>2. (c - a) % GENERATIONS = IF c >= a THEN c - a ELSE c - a + GENERATIONS
  BY <1>1, Distances
<1>3. (c - b) % GENERATIONS = IF c >= b THEN c - b ELSE c - b + GENERATIONS
  BY <1>1, Distances
<1>4. (a - b) % GENERATIONS = IF a >= b THEN a - b ELSE a - b + GENERATIONS
  BY Distances
<1>. HIDE DEF c
<1>5. (c - a) % GENERATIONS = 1
  BY <1>1, <1>2, SessionAssumption DEF Generations
<1>6. (a - b) % GENERATIONS < GENERATIONS - 1 => (c - b) % GENERATIONS = ((a - b) % GENERATIONS) + 1
  BY <1>1, <1>3, <1>4, SessionAssumption DEF Generations
<1>. QED  BY <1>5, <1>6 DEF c

(* A session less than half the circle back is earlier, and not later.     *)
LEMMA EarlierIsNotLater ==
    ASSUME NEW a \in Generations, NEW b \in Generations,
           (a - b) % GENERATIONS \in 1..(2 * PER - 1)
    PROVE  Later(a, b) /\ ~Later(b, a)
<1>1. (a - b) % GENERATIONS = IF a >= b THEN a - b ELSE a - b + GENERATIONS
  BY Distances
<1>2. (b - a) % GENERATIONS = IF b >= a THEN b - a ELSE b - a + GENERATIONS
  BY Distances
<1>3. GENERATIONS = 2 * (GENERATIONS \div 2) /\ GENERATIONS \div 2 \in Nat
  BY SessionAssumption
<1>. QED  BY <1>1, <1>2, <1>3, SessionAssumption DEF Later, Generations

(* Places are at most a whole cartridge apart.                             *)
LEMMA PlaceBounds ==
    ASSUME newest.slot \in Slots, NEW i \in Slots
    PROVE  Place(i) \in Nat /\ Place(newest.slot) \in Nat /\ Place(newest.slot) - Place(i) <= 2 * PER - 1
  BY BesideIsHalf, SessionAssumption DEF Place, Offset, Slots

(* BEGIN finds the session committed last, if there is one.                *)
LEMMA LastIsNewest ==
    ASSUME Typed, NewestIsCommitted, AgesFitPlaces
    PROVE  Last = newest.slot
<1>1. PICK found : Last = found[2 * PER] /\ IsSearch(found, 2 * PER)
  BY LastIsSearch
<1>2. \A m \in 0..(2 * PER) : found[m] = IF m = 0 THEN None ELSE Better(found[m - 1], m)
  BY <1>1 DEF IsSearch
<1>3. newest.slot \in Slots \cup {None} /\ \A i \in Slots : slots[i].gen \in Generations
  BY DEF Typed, StoreTyped, HistoryTyped, SlotType
<1>4. 2 * PER \in Nat /\ Slots = 0..(2 * PER - 1) /\ None = 2 * PER
  BY SessionAssumption DEF Slots, None
<1>. DEFINE Right(m) == IF newest.slot < m THEN found[m] = newest.slot
                        ELSE found[m] = None \/ (found[m] \in Slots /\ Committed(found[m]) /\ found[m] < m)
            Bad == {m \in 0..(2 * PER) : ~Right(m)}
<1>5. ASSUME Bad # {} PROVE FALSE
  <2>1. PICK m \in Bad : \A k \in Bad : m <= k
    <3>1. Bad \in SUBSET Nat
      BY <1>4
    <3>. QED  BY <1>5, <3>1, LeastNatural
  <2>2. m # 0
    BY <1>2, <1>3, <1>4, <2>1
  <2>3. m - 1 \in Slots /\ m - 1 \in 0..(2 * PER) /\ m - 1 \notin Bad
    BY <1>4, <2>1, <2>2
  <2>4. Right(m - 1) /\ ~Right(m) /\ m \in 1..(2 * PER)
    BY <2>1, <2>2, <2>3
  <2>5. found[m] = Better(found[m - 1], m)
    BY <1>2, <2>2, <2>4
  <2>6. CASE newest.slot = None
    <3>1. ~Committed(m - 1)
      BY <2>3, <2>6 DEF NewestIsCommitted
    <3>2. found[m] = found[m - 1]
      BY <2>5, <3>1 DEF Better
    <3>. QED  BY <1>4, <2>3, <2>4, <2>6, <3>2
  <2>7. CASE newest.slot \in Slots
    <3>0. Committed(newest.slot) /\ newest.slot # None
      BY <1>4, <2>7 DEF NewestIsCommitted
    <3>1. ASSUME NEW i \in Slots, Committed(i), i # newest.slot
          PROVE  Later(slots[newest.slot].gen, slots[i].gen) /\ ~Later(slots[i].gen, slots[newest.slot].gen)
      <4>1. Age(i) \in 1..(2 * PER - 1)
        BY <1>4, <2>7, <3>0, <3>1, PlaceBounds DEF AgesFitPlaces
      <4>. QED  BY <1>3, <2>7, <3>1, <4>1, EarlierIsNotLater DEF Age
    <3>2. CASE m - 1 < newest.slot
      <4>1. ~(newest.slot < m)
        BY <1>4, <2>7, <2>3, <3>2
      <4>2. found[m] = m - 1 => Committed(m - 1) \/ found[m] = found[m - 1]
        BY <2>5 DEF Better
      <4>3. found[m] \in {m - 1, found[m - 1]}
        BY <2>5 DEF Better
      <4>4. ~(newest.slot < m - 1)
        BY <1>4, <2>7, <2>3, <3>2
      <4>. QED  BY <1>4, <2>3, <2>4, <4>1, <4>2, <4>3, <4>4
    <3>3. CASE m - 1 = newest.slot
      <4>1. found[m - 1] = None \/ Later(slots[newest.slot].gen, slots[found[m - 1]].gen)
        BY <2>4, <3>1, <3>3, <1>4, <2>7
      <4>2. found[m] = newest.slot
        BY <2>5, <3>0, <3>3, <4>1 DEF Better
      <4>. QED  BY <1>4, <2>4, <3>3, <4>2, <2>7
    <3>4. CASE newest.slot < m - 1
      <4>1. found[m - 1] = newest.slot
        BY <2>4, <3>4
      <4>2. Committed(m - 1) => ~Later(slots[m - 1].gen, slots[newest.slot].gen)
        BY <2>3, <3>1, <3>4, <1>4, <2>7
      <4>3. found[m] = newest.slot
        BY <2>5, <3>0, <4>1, <4>2 DEF Better
      <4>. QED  BY <1>4, <2>4, <3>4, <4>3, <2>7
    <3>. QED  BY <1>4, <2>3, <2>7, <3>2, <3>3, <3>4
  <2>. QED  BY <1>3, <2>6, <2>7
<1>6. Right(2 * PER)
  BY <1>4, <1>5
<1>7. CASE newest.slot = None
  <2>1. \A i \in Slots : ~Committed(i)
    BY <1>7 DEF NewestIsCommitted
  <2>2. ~(newest.slot < 2 * PER)
    BY <1>4, <1>7
  <2>. QED  BY <1>1, <1>6, <1>7, <2>1, <2>2
<1>8. CASE newest.slot \in Slots
  BY <1>1, <1>4, <1>6, <1>8
<1>. QED  BY <1>3, <1>7, <1>8

-----------------------------------------------------------------------------
(* The slot a save has taken                                               *)

Written == {"write", "commit", "mark"}
Saving == {"header"} \cup Written

(* It is the first blank slot, or was until its header was written; it     *)
(* comes after the newest session, on the same chip or on the other one    *)
(* when that holds no session and this one is full.                        *)
SlotTaken ==
    pc \in Saving =>
        /\ ~ss_failed
        /\ ss_slot \in Slots
        /\ ss_gen = NextGeneration(newest.slot)
        /\ ~slots[ss_slot].commit
        /\ \A i \in BlankSlots : ss_slot <= i
        /\ newest.slot # None =>
             IF ss_slot \in Beside(newest.slot) THEN newest.slot < ss_slot
             ELSE /\ \A i \in BlankSlots : i \notin Beside(newest.slot)
                  /\ \A j \in Slots : Committed(j) => j \in Beside(newest.slot)

(* A chip is erased when no slot is blank, and never the newest session's. *)
ErasesOtherChip ==
    pc = "erase" =>
        /\ BlankSlots = {} /\ ss_slot = Victim(newest.slot)
        /\ ss_gen = NextGeneration(newest.slot)
        /\ ~ss_failed

SlotWritten ==
    /\ pc = "header" => slots[ss_slot].head = "blank" /\ ss_pos = 0 /\ ss_crc = <<>>
    /\ pc = "erase" => ss_pos = 0 /\ ss_crc = <<>>
    /\ pc \in Written =>
         /\ slots[ss_slot].head = "full" /\ slots[ss_slot].gen = ss_gen
         /\ slots[ss_slot].data = ss_crc /\ Len(ss_crc) = ss_pos
    /\ pc = "commit" => ss_pos = SIZE
    /\ pc = "mark" => Verified

FailedForCause ==
    pc = "failed" => flawed \/ (slots[ss_slot].ruined /\ slots[ss_slot].head = "full")

Storage == FlashSound /\ SlotTaken /\ ErasesOtherChip /\ SlotWritten /\ FailedForCause

(* A step that leaves the flash alone leaves it sound.                     *)
LEMMA FlashKept ==
    ASSUME FlashSound, UNCHANGED <<slots, newest>>
    PROVE  FlashSound'
  BY DEF FlashSound, SlotsSound, NewestIsCommitted, AgesFitPlaces, ChipsInTurn, BlankSlots, Committed,
         Holds, Age, Place, Offset, Beside, Slots, None

(* So does one that writes to a slot that is not committed and stays so.   *)
LEMMA OneSlotWritten ==
    ASSUME Typed, FlashSound, UNCHANGED newest,
           NEW s \in Slots, NEW slot \in SlotType, ~slots[s].commit,
           slot.head # "blank", ~slot.commit,
           slots' = [slots EXCEPT ![s] = slot]
    PROVE  FlashSound'
<1>1. \A i \in Slots : i # s => slots'[i] = slots[i]
  BY DEF Typed, StoreTyped
<1>2. slots'[s] = slot
  BY DEF Typed, StoreTyped
<1>3. \A i \in Slots : Committed(i)' => Committed(i) /\ slots'[i] = slots[i]
  BY <1>1, <1>2 DEF Committed
<1>4. BlankSlots' \subseteq BlankSlots
  BY <1>1, <1>2 DEF BlankSlots, Slots
<1>5. newest' = newest /\ newest.slot \in Slots \cup {None} /\ (newest.slot \in Slots => newest.slot # None)
  BY SlotFacts DEF Typed, HistoryTyped
<1>6. SlotsSound'
  BY <1>1, <1>2, <1>3 DEF FlashSound, SlotsSound, Committed, Slots
<1>7. Committed(newest.slot) /\ newest.slot \in Slots =>
        slots'[newest.slot] = slots[newest.slot] /\ Committed(newest.slot)'
  BY <1>1, <1>5 DEF Committed
<1>8. NewestIsCommitted'
  BY <1>3, <1>5, <1>7 DEF FlashSound, NewestIsCommitted, Holds, Slots, None
<1>9. AgesFitPlaces'
  BY <1>3, <1>5, <1>7 DEF FlashSound, NewestIsCommitted, AgesFitPlaces, Age, Place, Offset, Beside, Slots, None
<1>10. ChipsInTurn'
  BY <1>3, <1>4, <1>5 DEF FlashSound, ChipsInTurn, Beside, Slots, None
<1>. QED  BY <1>6, <1>8, <1>9, <1>10 DEF FlashSound

(* The chip to erase is not the newest session's, and starts at ss_slot.   *)
LEMMA VictimFacts ==
    ASSUME newest.slot \in Slots \cup {None}
    PROVE  /\ Victim(newest.slot) \in Slots
           /\ \A i \in Beside(Victim(newest.slot)) : Victim(newest.slot) <= i
           /\ newest.slot # None =>
                \A i \in Slots : i \in Beside(newest.slot) <=> i \notin Beside(Victim(newest.slot))
<1>1. Victim(newest.slot) \in {0, PER} /\ 0 \in Slots /\ PER \in Slots
  BY SlotFacts DEF Victim
<1>2. Victim(newest.slot) = 0 <=> newest.slot >= PER
  BY SessionAssumption DEF Victim, Slots, None
<1>3. \A i \in Beside(Victim(newest.slot)) : Victim(newest.slot) <= i
  <2>1. Beside(Victim(newest.slot)) \subseteq Slots
    BY DEF Beside
  <2>. QED  BY <1>1, <2>1, BesideIsHalf, SessionAssumption DEF Slots
<1>4. ASSUME newest.slot # None, NEW i \in Slots
      PROVE  i \in Beside(newest.slot) <=> i \notin Beside(Victim(newest.slot))
  BY <1>1, <1>2, <1>4, BesideIsHalf, SessionAssumption DEF Slots
<1>. QED  BY <1>1, <1>3, <1>4

(* An erase, finished or not, of a chip without the newest session leaves  *)
(* the flash sound if it blanks no slot while one of that chip is whole.   *)
LEMMA ChipErased ==
    ASSUME Typed, FlashSound, UNCHANGED newest, BlankSlots = {},
           NEW chip, chip = Beside(Victim(newest.slot)),
           \A i \in Slots : i \notin chip => slots'[i] = slots[i],
           \A i \in chip : /\ slots'[i].head = "blank" => ~slots'[i].commit /\ slots'[i].data = <<>>
                           /\ Committed(i)' => slots'[i] = slots[i],
           (\A i \in chip : slots'[i].head # "blank") \/ (\A i \in chip : ~Committed(i)')
    PROVE  FlashSound'
<1>1. newest' = newest /\ newest.slot \in Slots \cup {None} /\ (newest.slot \in Slots => newest.slot # None)
  BY SlotFacts DEF Typed, HistoryTyped
<1>2. chip \subseteq Slots
  BY DEF Beside
<1>3. \A i \in Slots : Committed(i)' => Committed(i) /\ slots'[i] = slots[i]
  BY DEF Committed
<1>4. \A i \in BlankSlots' : i \in chip
  BY DEF BlankSlots, Slots
<1>5. newest.slot # None => \A i \in Slots : i \in Beside(newest.slot) <=> i \notin chip
  BY <1>1, VictimFacts
<1>6. newest.slot # None => newest.slot \in Beside(newest.slot)
  BY <1>1 DEF Beside
<1>7. newest.slot # None => slots'[newest.slot] = slots[newest.slot]
  BY <1>1, <1>5, <1>6
<1>8. SlotsSound'
  BY <1>2, <1>3, <1>4 DEF FlashSound, SlotsSound, Committed, BlankSlots, Slots
<1>9. NewestIsCommitted'
  BY <1>1, <1>3, <1>7 DEF FlashSound, NewestIsCommitted, Committed, Holds, Slots, None
<1>10. AgesFitPlaces'
  BY <1>1, <1>3, <1>7 DEF FlashSound, AgesFitPlaces, Age, Place, Offset, Beside, Slots, None
<1>11. ChipsInTurn'
  <2>1. SUFFICES ASSUME newest.slot # None PROVE ChipsInTurn'
    BY <1>1 DEF ChipsInTurn, None
  <2>2. \A i \in BlankSlots' : i \in Slots /\ i \notin Beside(newest.slot)
    BY <1>2, <1>4, <1>5, <2>1
  <2>3. \A i \in BlankSlots' : \A j \in Slots : Committed(j)' => j \in Beside(newest.slot)
    BY <1>4, <1>5, <2>1 DEF BlankSlots, Slots
  <2>4. \A i, j \in BlankSlots' : i < PER <=> j < PER
    <3>1. Victim(newest.slot) \in Slots
      BY <1>1, VictimFacts
    <3>. QED  BY <1>2, <1>4, <3>1, BesideIsHalf
  <2>5. Slots' = Slots /\ None' = None /\ Beside(newest.slot)' = Beside(newest.slot)
    BY <1>1 DEF Slots, None, Beside
  <2>6. \A i, j \in BlankSlots' : ~(i < PER /\ j >= PER)
    <3>1. \A i \in BlankSlots' : i \in Nat
      BY <2>2, SlotFacts
    <3>. QED  BY <2>4, <3>1, SessionAssumption
  <2>. QED  BY <1>1, <2>2, <2>3, <2>5, <2>6 DEF ChipsInTurn
<1>. QED  BY <1>8, <1>9, <1>10, <1>11 DEF FlashSound

-----------------------------------------------------------------------------
(* The steps of a save keep the flash sound.                               *)

LEMMA EraseStopsSound ==
    ASSUME Typed, Storage, pc = "erase", UNCHANGED newest,
           NEW error \in BOOLEAN, EraseStops(error)
    PROVE  FlashSound'
<1>1. BlankSlots = {} /\ ss_slot = Victim(newest.slot)
  BY DEF Storage, ErasesOtherChip
<1>. DEFINE chip == Beside(ss_slot)
<1>2. PICK phase \in Phases : \E how \in [chip -> phase] :
        slots' = [i \in Slots |-> IF i \in chip THEN Left(slots[i], how[i]) ELSE slots[i]]
  BY DEF EraseStops
<1>3. PICK how \in [chip -> phase] :
        slots' = [i \in Slots |-> IF i \in chip THEN Left(slots[i], how[i]) ELSE slots[i]]
  BY <1>2
<1>4. chip \subseteq Slots
  BY DEF Beside
<1>5. \A i \in Slots : i \notin chip => slots'[i] = slots[i]
  BY <1>3
<1>6. ASSUME NEW i \in chip
      PROVE  slots'[i] = Left(slots[i], how[i]) /\ how[i] \in phase /\ slots[i].head # "blank"
  BY <1>1, <1>3, <1>4 DEF BlankSlots
<1>7. \A slot : /\ ~Left(slot, "blank").commit /\ Left(slot, "blank").data = <<>>
                /\ ~Left(slot, "bad").commit /\ Left(slot, "bad").head = "bad"
                /\ ~Left(slot, "ruined").commit /\ Left(slot, "ruined").data = <<>>
                /\ Left(slot, "kept") = slot
  BY DEF Left, Empty
<1>8. \A i \in chip : how[i] \in {"kept", "bad", "blank", "ruined"}
  BY <1>6 DEF Phases
<1>9. \A i \in chip : /\ slots'[i].head = "blank" => ~slots'[i].commit /\ slots'[i].data = <<>>
                      /\ Committed(i)' => slots'[i] = slots[i]
  BY <1>6, <1>7, <1>8 DEF Committed
<1>10. CASE phase = {"kept", "bad"}
  <2>1. \A i \in chip : slots'[i].head # "blank"
    BY <1>6, <1>7, <1>10
  <2>. QED  BY <1>1, <1>5, <1>9, <2>1, ChipErased DEF Storage
<1>11. CASE phase = {"blank", "bad", "ruined"}
  <2>1. \A i \in chip : ~Committed(i)'
    BY <1>6, <1>7, <1>11 DEF Committed
  <2>. QED  BY <1>1, <1>5, <1>9, <2>1, ChipErased DEF Storage
<1>. QED  BY <1>10, <1>11 DEF Phases

LEMMA EraseSound ==
    ASSUME Typed, Storage, pc = "erase", UNCHANGED newest, Erase
    PROVE  FlashSound'
<1>1. BlankSlots = {} /\ ss_slot = Victim(newest.slot)
  BY DEF Storage, ErasesOtherChip
<1>. DEFINE chip == Beside(ss_slot)
<1>2. \A i \in Slots : i \notin chip => slots'[i] = slots[i]
  BY DEF Erase
<1>3. \A i \in chip : slots'[i] = Empty
  BY DEF Erase, Beside
<1>4. \A i \in chip : /\ slots'[i].head = "blank" => ~slots'[i].commit /\ slots'[i].data = <<>>
                      /\ Committed(i)' => slots'[i] = slots[i]
                      /\ ~Committed(i)'
  BY <1>3 DEF Committed, Empty
<1>. QED  BY <1>1, <1>2, <1>4, ChipErased DEF Storage

(* A step that programs bytes of the taken slot, other than its commit.    *)
LEMMA TakenSlotWritten ==
    ASSUME Typed, Storage, pc \in Saving, UNCHANGED newest,
           NEW slot \in SlotType, slot.head # "blank", ~slot.commit, WithSlot(slot)
    PROVE  /\ FlashSound'
           /\ slots' = [slots EXCEPT ![ss_slot] = slot]
           /\ BlankSlots' \subseteq BlankSlots
           /\ \A i \in Slots : Committed(i)' => Committed(i)
           /\ NextGeneration(newest.slot)' = NextGeneration(newest.slot)
<1>1. ss_slot \in Slots /\ ~slots[ss_slot].commit /\ ~ss_failed
  BY DEF Storage, SlotTaken
<1>2. slots' = [slots EXCEPT ![ss_slot] = slot]
  BY <1>1 DEF WithSlot
<1>3. FlashSound'
  BY <1>1, <1>2, OneSlotWritten DEF Storage
<1>4. \A i \in Slots : i # ss_slot => slots'[i] = slots[i]
  BY <1>2 DEF Typed, StoreTyped
<1>5. slots'[ss_slot] = slot
  BY <1>1, <1>2 DEF Typed, StoreTyped
<1>6. BlankSlots' \subseteq BlankSlots /\ \A i \in Slots : Committed(i)' => Committed(i)
  BY <1>4, <1>5 DEF BlankSlots, Committed, Slots
<1>7. newest.slot = None \/ (newest.slot \in Slots /\ Committed(newest.slot))
  BY DEF Storage, FlashSound, NewestIsCommitted, Typed, HistoryTyped
<1>8. NextGeneration(newest.slot)' = NextGeneration(newest.slot)
  BY <1>1, <1>4, <1>7 DEF NextGeneration, Committed, None
<1>. QED  BY <1>2, <1>3, <1>6, <1>8

(* The header, while it is programmed and when it is complete              *)
LEMMA HeaderStopsSound ==
    ASSUME Typed, Storage, pc = "header", UNCHANGED newest,
           NEW error \in BOOLEAN, HeaderStops(error)
    PROVE  FlashSound'
<1>1. ss_slot \in Slots /\ ~slots[ss_slot].commit
  BY DEF Storage, SlotTaken, Saving
<1>2. slots[ss_slot] \in SlotType
  BY <1>1 DEF Typed, StoreTyped
<1>. DEFINE slot == [Slot EXCEPT !.head = "bad"]
<1>3. slot \in SlotType /\ slot.head = "bad" /\ ~slot.commit
  BY <1>1, <1>2 DEF Slot, SlotType, Header
<1>4. WithSlot(slot)
  BY DEF HeaderStops
<1>. HIDE DEF slot
<1>. QED  BY <1>3, <1>4, TakenSlotWritten DEF Saving

LEMMA FlashStopsSound ==
    ASSUME Typed, Storage, UNCHANGED newest, FlashStops
    PROVE  FlashSound'
  BY EraseStopsSound, HeaderStopsSound, FlashKept DEF FlashStops, storeVars, Storage

-----------------------------------------------------------------------------
(* Every step keeps the flash sound and the save on its slot.              *)

LEMMA StorageElsewhere ==
    ASSUME Storage, UNCHANGED <<slots, newest>>, pc' \notin Saving \cup {"erase", "failed"}
    PROVE  Storage'
<1>1. FlashSound'
  BY FlashKept DEF Storage
<1>. QED  BY <1>1 DEF Storage, SlotTaken, ErasesOtherChip, SlotWritten, FailedForCause, Saving, Written

(* The save goes on with the slot it has taken.                            *)
LEMMA StillTaken ==
    ASSUME Typed, Storage, pc \in Saving, pc' \in Saving,
           UNCHANGED <<newest, flawed, ss_slot, ss_gen>>, ~ss_failed',
           NEW slot \in SlotType, slot.head # "blank", ~slot.commit,
           slot.ruined = slots[ss_slot].ruined, WithSlot(slot)
    PROVE  /\ FlashSound' /\ SlotTaken'
           /\ slots'[ss_slot] = slot
<1>1. /\ FlashSound' /\ slots' = [slots EXCEPT ![ss_slot] = slot]
      /\ BlankSlots' \subseteq BlankSlots
      /\ \A i \in Slots : Committed(i)' => Committed(i)
      /\ NextGeneration(newest.slot)' = NextGeneration(newest.slot)
  BY TakenSlotWritten
<1>2. ss_slot \in Slots
  BY DEF Storage, SlotTaken
<1>3. slots'[ss_slot] = slot
  BY <1>1, <1>2 DEF Typed, StoreTyped
<1>4. Slots' = Slots /\ None' = None /\ Beside(newest.slot)' = Beside(newest.slot)
  BY DEF Slots, None, Beside
<1>5. SlotTaken'
  <2>1. ss_gen' = NextGeneration(newest.slot)'
    BY <1>1 DEF Storage, SlotTaken
  <2>2. ~slots'[ss_slot].commit
    BY <1>3 DEF Storage, SlotTaken
  <2>3. \A i \in BlankSlots' : ss_slot <= i
    BY <1>1 DEF Storage, SlotTaken
  <2>4. newest.slot # None =>
             IF ss_slot \in Beside(newest.slot) THEN newest.slot < ss_slot
             ELSE /\ \A i \in BlankSlots' : i \notin Beside(newest.slot)
                  /\ \A j \in Slots : Committed(j)' => j \in Beside(newest.slot)
    BY <1>1 DEF Storage, SlotTaken
  <2>. QED  BY <1>2, <1>4, <2>1, <2>2, <2>3, <2>4 DEF SlotTaken
<1>. QED  BY <1>1, <1>3, <1>5

LEMMA BeginStorage ==
    ASSUME Typed, Storage, SaveBegin
    PROVE  Storage'
<1>0. FlashSound'
  BY FlashKept DEF SaveBegin, Quietly, Begin, Storage
<1>1. /\ slots' = slots /\ newest' = newest /\ ~ss_failed'
      /\ ss_gen' = NextGeneration(newest.slot) /\ ss_slot' \in Slots
      /\ ss_pos' = 0 /\ ss_crc' = <<>>
      /\ Last = newest.slot
  BY LastIsNewest DEF SaveBegin, Quietly, Begin, BeginStatus, Storage, FlashSound
<1>2. /\ BlankSlots' = BlankSlots /\ NextGeneration(newest.slot)' = NextGeneration(newest.slot)
      /\ Slots' = Slots /\ None' = None /\ Beside(newest.slot)' = Beside(newest.slot)
      /\ Victim(newest.slot)' = Victim(newest.slot)
      /\ \A j \in Slots : Committed(j)' <=> Committed(j)
  BY <1>1 DEF BlankSlots, NextGeneration, Slots, None, Beside, Victim, Committed
<1>3. CASE BlankSlots = {}
  <2>1. pc' = "erase" /\ ss_slot' = Victim(newest.slot)
    BY <1>1, <1>3 DEF SaveBegin, Begin, Goto
  <2>. QED  BY <1>0, <1>1, <1>2, <1>3, <2>1
            DEF Storage, SlotTaken, ErasesOtherChip, SlotWritten, FailedForCause, Saving, Written
<1>4. CASE BlankSlots # {}
  <2>1. pc' = "header" /\ First(ss_slot', BlankSlots)
    BY <1>4, <1>1 DEF SaveBegin, Begin, Goto, Typed, StoreTyped, SlotType
  <2>2. ss_slot' \in BlankSlots /\ \A i \in BlankSlots : ss_slot' <= i
    BY <2>1 DEF First
  <2>3. slots[ss_slot'].head = "blank" /\ ~slots[ss_slot'].commit
    BY <2>2 DEF BlankSlots, Storage, FlashSound, SlotsSound
  <2>4. newest.slot # None =>
             IF ss_slot' \in Beside(newest.slot) THEN newest.slot < ss_slot'
             ELSE /\ \A i \in BlankSlots : i \notin Beside(newest.slot)
                  /\ \A j \in Slots : Committed(j) => j \in Beside(newest.slot)
    <3>1. SUFFICES ASSUME newest.slot # None, ss_slot' \notin Beside(newest.slot),
                          NEW i \in BlankSlots, i \in Beside(newest.slot)
                   PROVE  FALSE
      BY <2>2 DEF Storage, FlashSound, ChipsInTurn
    <3>2. newest.slot \in Slots /\ i \in Slots /\ ss_slot' \in Slots
      BY <2>2, <3>1 DEF Typed, HistoryTyped, BlankSlots
    <3>3. (newest.slot < PER <=> i < PER) /\ ~(newest.slot < PER <=> ss_slot' < PER)
      BY <3>1, <3>2, BesideIsHalf
    <3>4. ss_slot' <= i
      BY <2>2
    <3>5. ~(newest.slot >= PER /\ ss_slot' < PER /\ i >= PER)
      BY <2>2, <3>1 DEF Storage, FlashSound, ChipsInTurn
    <3>. QED  BY <3>2, <3>3, <3>4, <3>5, SessionAssumption DEF Slots
  <2>5. SlotTaken'
    BY <1>1, <1>2, <2>1, <2>2, <2>3, <2>4 DEF SlotTaken
  <2>. QED  BY <1>0, <1>1, <2>1, <2>3, <2>5
            DEF Storage, ErasesOtherChip, SlotWritten, FailedForCause, Written
<1>. QED  BY <1>3, <1>4

LEMMA EraseStorage ==
    ASSUME Typed, Storage, SaveErase
    PROVE  Storage'
<1>1. /\ pc = "erase" /\ pc' = "header" /\ Erase
      /\ UNCHANGED <<newest, flawed, ss_slot, ss_failed, ss_gen, ss_pos, ss_crc>>
  BY DEF SaveErase, Erase, Goto, Quietly
<1>2. FlashSound'
  BY <1>1, EraseSound
<1>3. /\ BlankSlots = {} /\ ss_slot = Victim(newest.slot) /\ ss_gen = NextGeneration(newest.slot)
      /\ ~ss_failed /\ ss_pos = 0 /\ ss_crc = <<>>
  BY <1>1 DEF Storage, ErasesOtherChip, SlotWritten
<1>4. newest.slot \in Slots \cup {None} /\ (newest.slot # None => newest.slot \in Beside(newest.slot))
  BY DEF Typed, HistoryTyped, Beside
<1>5. /\ ss_slot \in Slots /\ \A i \in Beside(ss_slot) : ss_slot <= i
      /\ newest.slot # None => \A i \in Slots : i \in Beside(newest.slot) <=> i \notin Beside(ss_slot)
  BY <1>3, <1>4, VictimFacts
<1>6. \A i \in Slots : slots'[i] = IF i \in Beside(ss_slot) THEN Empty ELSE slots[i]
  BY <1>1 DEF Erase
<1>7. ss_slot \in Beside(ss_slot) /\ slots'[ss_slot] = Empty
  BY <1>5, <1>6 DEF Beside
<1>8. \A i \in BlankSlots' : i \in Slots /\ i \in Beside(ss_slot)
  BY <1>3, <1>6 DEF BlankSlots, Slots
<1>9. \A j \in Slots : Committed(j)' => j \notin Beside(ss_slot)
  BY <1>6 DEF Committed, Empty
<1>10. NextGeneration(newest.slot)' = NextGeneration(newest.slot)
  BY <1>1, <1>4, <1>5, <1>6 DEF NextGeneration, None
<1>11. Slots' = Slots /\ None' = None /\ Beside(newest.slot)' = Beside(newest.slot)
  BY <1>1 DEF Slots, None, Beside
<1>12. SlotTaken'
  <2>1. newest.slot # None =>
          /\ ss_slot \notin Beside(newest.slot)
          /\ \A i \in BlankSlots' : i \notin Beside(newest.slot)
          /\ \A j \in Slots : Committed(j)' => j \in Beside(newest.slot)
    BY <1>5, <1>7, <1>8, <1>9
  <2>2. \A i \in BlankSlots' : ss_slot <= i
    BY <1>5, <1>8
  <2>. QED  BY <1>1, <1>3, <1>5, <1>7, <1>10, <1>11, <2>1, <2>2 DEF SlotTaken, Empty
<1>. QED  BY <1>1, <1>2, <1>3, <1>7, <1>12
          DEF Storage, ErasesOtherChip, SlotWritten, FailedForCause, Written, Empty

LEMMA HeaderStorage ==
    ASSUME Typed, Storage, SaveHeader
    PROVE  Storage'
<1>1. /\ pc = "header" /\ pc \in Saving /\ "write" \in Saving /\ ~ss_failed /\ ss_slot \in Slots
      /\ UNCHANGED <<newest, flawed, ss_slot, ss_failed, ss_gen, ss_pos, ss_crc>>
  BY DEF SaveHeader, PutHeader, Quietly, Storage, SlotTaken, Saving, Written
<1>2. pc' = "write"
  BY <1>1 DEF SaveHeader, Answer, Goto
<1>3. slots[ss_slot] \in SlotType /\ ss_gen \in Generations
  BY <1>1 DEF Typed, StoreTyped
<1>4. /\ slots[ss_slot].head = "blank" /\ ~slots[ss_slot].commit /\ slots[ss_slot].data = <<>>
      /\ ss_crc = <<>>
  BY <1>1 DEF Storage, FlashSound, SlotsSound, SlotWritten
<1>. DEFINE slot == [Slot EXCEPT !.head = IF @ = "blank" THEN "full" ELSE "bad", !.gen = ss_gen]
<1>5. /\ slot \in SlotType /\ slot.head = "full" /\ slot.gen = ss_gen /\ ~slot.commit
      /\ slot.data = <<>> /\ slot.ruined = slots[ss_slot].ruined
  BY <1>3, <1>4 DEF Slot, SlotType, Header
<1>6. WithSlot(slot)
  BY DEF SaveHeader, PutHeader
<1>. HIDE DEF slot
<1>7. FlashSound' /\ SlotTaken' /\ slots'[ss_slot] = slot
  BY <1>1, <1>2, <1>5, <1>6, StillTaken
<1>8. ss_pos = 0 /\ Len(<<>>) = 0
  BY <1>1, EmptySeq DEF Storage, SlotWritten
<1>. QED  BY <1>1, <1>2, <1>4, <1>5, <1>7, <1>8
          DEF Storage, ErasesOtherChip, SlotWritten, FailedForCause

LEMMA WriteStorage ==
    ASSUME Typed, Storage, SaveWrite
    PROVE  Storage'
<1>1. /\ pc = "write" /\ pc \in Saving /\ "commit" \in Saving /\ ~ss_failed /\ ss_slot \in Slots
      /\ UNCHANGED <<newest, flawed>>
  BY DEF SaveWrite, Quietly, Storage, SlotTaken, Saving, Written
<1>2. CASE ss_pos = SIZE
  <2>1. UNCHANGED <<slots, ss_slot, ss_failed, ss_gen, ss_pos, ss_crc>> /\ pc' = "commit"
    BY <1>2 DEF SaveWrite, Goto, storeVars
  <2>2. FlashSound'
    BY <1>1, <2>1, FlashKept DEF Storage
  <2>3. SlotTaken'
    BY <1>1, <2>1 DEF Storage, SlotTaken, NextGeneration, BlankSlots, Committed, Beside, Slots, None
  <2>. QED  BY <1>1, <1>2, <2>1, <2>2, <2>3
            DEF Storage, ErasesOtherChip, SlotWritten, FailedForCause, Written
<1>3. CASE ss_pos # SIZE
  <2>. DEFINE chunk == shell[ss_pos + 1]
              slot == [Slot EXCEPT !.data = Append(@, chunk)]
  <2>1. chunk \in Values
    BY <1>3, SessionAssumption DEF Typed, StoreTyped, MachineTyped, Shell
  <2>2. /\ pc' = pc /\ WithSlot(slot) /\ ss_crc' = Append(ss_crc, chunk)
        /\ UNCHANGED <<ss_slot, ss_failed, ss_gen>>
    BY <1>3 DEF SaveWrite, Write
  <2>3. slots[ss_slot] \in SlotType
    BY <1>1 DEF Typed, StoreTyped
  <2>4. /\ slots[ss_slot].head = "full" /\ slots[ss_slot].gen = ss_gen /\ ~slots[ss_slot].commit
        /\ slots[ss_slot].data = ss_crc
    BY <1>1 DEF Storage, SlotTaken, SlotWritten, Written
  <2>. HIDE DEF chunk
  <2>5. /\ slot \in SlotType /\ slot.head = "full" /\ slot.gen = ss_gen /\ ~slot.commit
        /\ slot.data = ss_crc' /\ slot.ruined = slots[ss_slot].ruined
    <3>1. Append(slots[ss_slot].data, chunk) \in Seq(Values)
      BY <2>1, <2>3, AppendProperties DEF SlotType
    <3>. QED  BY <2>2, <2>3, <2>4, <3>1 DEF Slot, SlotType
  <2>. HIDE DEF slot
  <2>6. FlashSound' /\ SlotTaken' /\ slots'[ss_slot] = slot
    BY <1>1, <2>2, <2>5, StillTaken
  <2>7. Len(ss_crc') = ss_pos'
    <3>1. Len(ss_crc) = ss_pos /\ ss_crc \in Seq(Values) /\ ss_pos' = ss_pos + 1
      BY <1>1, <1>3 DEF Storage, SlotWritten, Written, Typed, StoreTyped, SaveWrite, Write
    <3>. QED  BY <2>1, <2>2, <3>1, AppendProperties
  <2>. QED  BY <1>1, <2>2, <2>5, <2>6, <2>7
            DEF Storage, ErasesOtherChip, SlotWritten, FailedForCause, Written
<1>. QED  BY <1>2, <1>3

LEMMA VerifyStorage ==
    ASSUME Typed, Storage, SaveVerify
    PROVE  Storage'
<1>1. /\ pc = "commit" /\ pc \in Saving /\ "mark" \in Saving /\ ~ss_failed /\ ss_slot \in Slots
      /\ UNCHANGED <<newest, flawed, ss_slot, ss_gen, ss_pos, ss_crc>>
  BY DEF SaveVerify, PutChecksum, Quietly, Storage, SlotTaken, Saving, Written
<1>2. slots[ss_slot] \in SlotType /\ ss_crc \in Seq(Values)
  BY <1>1 DEF Typed, StoreTyped
<1>3. /\ slots[ss_slot].head = "full" /\ slots[ss_slot].gen = ss_gen /\ ~slots[ss_slot].commit
      /\ slots[ss_slot].data = ss_crc /\ Len(ss_crc) = ss_pos /\ ss_pos = SIZE
  BY <1>1 DEF Storage, SlotTaken, SlotWritten, Written
<1>. DEFINE slot == [Slot EXCEPT !.crc = ss_crc]
<1>4. /\ slot \in SlotType /\ slot.head = "full" /\ slot.gen = ss_gen /\ ~slot.commit
      /\ slot.data = ss_crc /\ slot.ruined = slots[ss_slot].ruined
  BY <1>2, <1>3 DEF Slot, SlotType
<1>5. WithSlot(slot) /\ ss_failed' = ~Verified
  BY DEF SaveVerify, PutChecksum
<1>. HIDE DEF slot
<1>6. CASE Verified
  <2>1. ~ss_failed' /\ pc' = "mark"
    BY <1>5, <1>6 DEF SaveVerify, Answer, Goto
  <2>2. FlashSound' /\ SlotTaken' /\ slots'[ss_slot] = slot
    BY <1>1, <1>4, <1>5, <2>1, StillTaken
  <2>3. Verified'
    BY <1>1, <1>4, <1>6, <2>2 DEF Verified, Holds, Slot
  <2>. QED  BY <1>1, <1>3, <1>4, <2>1, <2>2, <2>3
            DEF Storage, ErasesOtherChip, SlotWritten, FailedForCause
<1>7. CASE ~Verified
  <2>1. pc' = "failed"
    BY <1>5, <1>7 DEF SaveVerify, Answer, Goto
  <2>2. FlashSound' /\ slots' = [slots EXCEPT ![ss_slot] = slot]
    BY <1>1, <1>4, <1>5, TakenSlotWritten
  <2>3. slots[ss_slot].ruined
    BY <1>3, <1>7 DEF Verified, Holds, Slot
  <2>4. slots'[ss_slot].ruined /\ slots'[ss_slot].head = "full"
    BY <1>1, <1>4, <2>2, <2>3 DEF Typed, StoreTyped
  <2>. QED  BY <1>1, <2>1, <2>2, <2>4
            DEF Storage, SlotTaken, ErasesOtherChip, SlotWritten, FailedForCause, Saving, Written
<1>. QED  BY <1>6, <1>7

(* The commit byte makes the slot the newest session.                      *)
LEMMA CommitSound ==
    ASSUME Typed, Storage, pc = "mark", PutCommit, newest' = [slot |-> ss_slot, data |-> ss_crc]
    PROVE  FlashSound'
<1>. DEFINE old == newest.slot
<1>1. /\ ~ss_failed /\ ss_slot \in Slots /\ ss_gen = NextGeneration(old) /\ Verified
      /\ ~slots[ss_slot].commit
      /\ \A i \in BlankSlots : ss_slot <= i
      /\ old # None =>
             IF ss_slot \in Beside(old) THEN old < ss_slot
             ELSE /\ \A i \in BlankSlots : i \notin Beside(old)
                  /\ \A j \in Slots : Committed(j) => j \in Beside(old)
  BY DEF Storage, SlotTaken, SlotWritten, Saving, Written
<1>2. /\ slots[ss_slot].head = "full" /\ slots[ss_slot].gen = ss_gen
      /\ slots[ss_slot].data = ss_crc /\ ~slots[ss_slot].ruined /\ ss_crc # <<>>
  <2>1. Len(ss_crc) = SIZE /\ Len(<<>>) = 0
    BY <1>1, EmptySeq DEF Storage, SlotWritten, Written, Verified
  <2>. QED  BY <1>1, <2>1, SessionAssumption DEF Verified, Holds, Slot
<1>3. slots[ss_slot] \in SlotType
  BY <1>1 DEF Typed, StoreTyped
<1>4. /\ \A i \in Slots : i # ss_slot => slots'[i] = slots[i]
      /\ slots'[ss_slot] = [slots[ss_slot] EXCEPT !.commit = TRUE]
  BY <1>1 DEF PutCommit, WithSlot, Slot, Typed, StoreTyped
<1>5. /\ slots'[ss_slot].head = "full" /\ slots'[ss_slot].commit /\ slots'[ss_slot].gen = ss_gen
      /\ slots'[ss_slot].data = ss_crc /\ ~slots'[ss_slot].ruined
  BY <1>2, <1>3, <1>4 DEF SlotType
<1>6. newest'.slot = ss_slot /\ newest'.data = ss_crc /\ ss_slot # None /\ ss_slot' = ss_slot
  BY <1>1, SlotFacts DEF PutCommit
<1>7. \A i \in Slots : i # ss_slot => (Committed(i)' <=> Committed(i))
  BY <1>4 DEF Committed
<1>8. SlotsSound'
  BY <1>2, <1>4, <1>5, <1>7 DEF Storage, FlashSound, SlotsSound, Slots
<1>9. NewestIsCommitted'
  BY <1>5, <1>6 DEF NewestIsCommitted, Committed, Holds, None
<1>10. BlankSlots' = BlankSlots
  BY <1>2, <1>4, <1>5 DEF BlankSlots, Slots
<1>11. \A i \in Slots : slots[i].gen \in Generations
  BY DEF Typed, StoreTyped, SlotType
<1>12. old \in Slots \cup {None} /\ (old \in Slots => old # None)
  BY SlotFacts DEF Typed, HistoryTyped
<1>13. ASSUME NEW i \in Slots, Committed(i)', i # ss_slot
       PROVE  Age(i)' \in 1..(Place(ss_slot)' - Place(i)')
  <2>1. Committed(i) /\ slots'[i] = slots[i]
    BY <1>4, <1>7, <1>13
  <2>2. old \in Slots /\ Committed(old) /\ old # None /\ old # ss_slot
    BY <1>1, <1>12, <2>1 DEF Storage, FlashSound, NewestIsCommitted, Committed
  <2>3. ss_gen = (slots[old].gen + 1) % GENERATIONS
    BY <1>1, <2>2 DEF NextGeneration
  <2>4. Age(i)' = (((slots[old].gen + 1) % GENERATIONS) - slots[i].gen) % GENERATIONS
    BY <1>5, <1>6, <2>1, <2>3 DEF Age
  <2>5. i # old => Age(i) \in 1..(Place(old) - Place(i))
    BY <2>1, <2>2 DEF Storage, FlashSound, AgesFitPlaces
  <2>6. Place(old) - Place(i) <= 2 * PER - 1 /\ Place(old) \in Nat /\ Place(i) \in Nat
    BY <2>2, PlaceBounds
  <2>7. Age(i)' = IF i = old THEN 1 ELSE Age(i) + 1
    <3>1. CASE i = old
      BY <2>2, <2>4, <3>1, <1>11, NextDistance
    <3>2. CASE i # old
      <4>1. Age(i) < GENERATIONS - 1
        BY <2>5, <2>6, <3>2, SessionAssumption
      <4>. QED  BY <2>2, <2>4, <3>2, <4>1, <1>11, NextDistance DEF Age
    <3>. QED  BY <3>1, <3>2
  <2>8. Place(i)' = (IF i \in Beside(ss_slot) THEN PER ELSE 0) + Offset(i)
    BY <1>6 DEF Place, Beside, Slots, Offset
  <2>9. Place(ss_slot)' = PER + Offset(ss_slot)
    BY <1>1, <1>6 DEF Place, Beside, Slots, Offset
  <2>10. Place(i) = (IF i \in Beside(old) THEN PER ELSE 0) + Offset(i) /\ Place(old) = PER + Offset(old)
    BY <2>2 DEF Place, Beside
  <2>11. /\ i \in Beside(ss_slot) <=> (i < PER <=> ss_slot < PER)
         /\ i \in Beside(old) <=> (i < PER <=> old < PER)
         /\ ss_slot \in Beside(old) <=> (ss_slot < PER <=> old < PER)
    BY <1>1, <2>2, BesideIsHalf
  <2>12. CASE ss_slot \in Beside(old)
    <3>1. old < ss_slot
      BY <1>1, <2>2, <2>12
    <3>2. Offset(ss_slot) >= Offset(old) + 1
      BY <1>1, <2>2, <2>11, <2>12, <3>1, SessionAssumption DEF Offset, Slots
    <3>3. Place(i)' = Place(i) /\ Place(ss_slot)' >= Place(old) + 1
      BY <1>1, <2>2, <2>8, <2>9, <2>10, <2>11, <2>12, <3>2, SessionAssumption DEF Offset, Slots
    <3>4. Offset(ss_slot) \in Nat
      BY <1>1, SessionAssumption DEF Offset, Slots
    <3>. QED  BY <2>5, <2>6, <2>7, <2>9, <3>3, <3>4, SessionAssumption
  <2>13. CASE ss_slot \notin Beside(old)
    <3>1. i \in Beside(old)
      BY <1>1, <2>1, <2>2, <2>13
    <3>2. i \notin Beside(ss_slot)
      BY <2>11, <2>13, <3>1
    <3>3. Offset(i) \in 0..(PER - 1) /\ Offset(old) \in 0..(PER - 1) /\ Offset(ss_slot) \in Nat
      BY <1>1, <2>2, SessionAssumption DEF Offset, Slots
    <3>4. Place(i)' = Offset(i) /\ Place(i) = PER + Offset(i)
      BY <2>8, <2>10, <3>1, <3>2, <3>3
    <3>. QED  BY <2>5, <2>7, <2>9, <2>10, <3>3, <3>4, SessionAssumption
  <2>. QED  BY <2>12, <2>13
<1>14. AgesFitPlaces'
  <2>1. Slots' = Slots
    BY DEF Slots
  <2>. QED  BY <1>6, <1>13, <2>1 DEF AgesFitPlaces
<1>15. ChipsInTurn'
  <2>1. Slots' = Slots /\ Beside(newest.slot)' = Beside(ss_slot)
    BY <1>6 DEF Slots, Beside
  <2>2. \A i \in BlankSlots : i \in Slots /\ i # ss_slot /\ ss_slot < i
    BY <1>1, <1>2 DEF BlankSlots, Slots
  <2>3. ASSUME NEW i \in BlankSlots, i \notin Beside(ss_slot), NEW j \in Slots, Committed(j)'
        PROVE  j \in Beside(ss_slot)
    <3>1. CASE j = ss_slot
      BY <3>1 DEF Beside
    <3>2. CASE j # ss_slot
      <4>1. Committed(j)
        BY <1>7, <2>3, <3>2
      <4>2. old \in Slots /\ old # None
        BY <1>12, <4>1 DEF Storage, FlashSound, NewestIsCommitted
      <4>3. CASE ss_slot \in Beside(old)
        <5>1. i \notin Beside(old)
          BY <1>1, <2>2, <2>3, <4>2, <4>3, BesideIsHalf
        <5>2. j \in Beside(old)
          BY <4>1, <4>2, <5>1 DEF Storage, FlashSound, ChipsInTurn
        <5>. QED  BY <1>1, <4>2, <4>3, <5>2, BesideIsHalf
      <4>4. CASE ss_slot \notin Beside(old)
        <5>1. i \notin Beside(old)
          BY <1>1, <4>2, <4>4
        <5>. QED  BY <1>1, <2>2, <2>3, <4>2, <4>4, <5>1, BesideIsHalf
      <4>. QED  BY <4>3, <4>4
    <3>. QED  BY <3>1, <3>2
  <2>4. \A i, j \in BlankSlots : ~(ss_slot >= PER /\ i < PER /\ j >= PER)
    <3>1. \A i \in BlankSlots : i \in Nat /\ ss_slot \in Nat
      BY <1>1, <2>2, SlotFacts
    <3>. QED  BY <2>2, <3>1, SessionAssumption
  <2>. QED  BY <1>6, <1>10, <2>1, <2>2, <2>3, <2>4 DEF ChipsInTurn
<1>. QED  BY <1>8, <1>9, <1>14, <1>15 DEF FlashSound

LEMMA MarkStorage ==
    ASSUME Typed, Storage, SaveMark
    PROVE  Storage'
<1>1. pc = "mark" /\ pc' = "publish" /\ PutCommit /\ newest' = [slot |-> ss_slot, data |-> ss_crc]
  BY DEF SaveMark, Goto
<1>2. FlashSound'
  BY <1>1, CommitSound
<1>. QED  BY <1>1, <1>2
          DEF Storage, SlotTaken, ErasesOtherChip, SlotWritten, FailedForCause, Saving, Written

LEMMA FailsStorage ==
    ASSUME Typed, Storage, SaveFails
    PROVE  Storage'
<1>1. pc' = "failed" /\ flawed' = TRUE /\ newest' = newest
  BY DEF SaveFails, Goto
<1>2. FlashSound'
  BY <1>1, EraseStopsSound, HeaderStopsSound, FlashKept DEF SaveFails, PutFails, Storage
<1>. QED  BY <1>1, <1>2
          DEF Storage, SlotTaken, ErasesOtherChip, SlotWritten, FailedForCause, Saving, Written

LEMMA StopStorage ==
    ASSUME Typed, Storage, Reset \/ PowerLoss
    PROVE  Storage'
<1>1. pc' = "boot" /\ newest' = newest /\ FlashStops
  BY DEF Reset, PowerLoss, Goto
<1>2. FlashSound'
  BY <1>1, FlashStopsSound
<1>. QED  BY <1>1, <1>2
          DEF Storage, SlotTaken, ErasesOtherChip, SlotWritten, FailedForCause, Saving, Written

LEMMA InitStorage == Init => Storage
<1>. SUFFICES ASSUME Init PROVE Storage
  OBVIOUS
<1>1. \A i \in Slots : slots[i].head = "blank" /\ ~slots[i].commit /\ slots[i].data = <<>>
  BY DEF Init, Empty
<1>2. newest.slot = None /\ pc = "shell"
  BY DEF Init
<1>. QED  BY <1>1, <1>2
          DEF Storage, FlashSound, SlotsSound, NewestIsCommitted, AgesFitPlaces, ChipsInTurn, Committed,
              SlotTaken, ErasesOtherChip, SlotWritten, FailedForCause, Saving, Written

LEMMA NextStorage ==
    ASSUME Typed, Storage, [Next]_vars
    PROVE  Storage'
<1>1. CASE UNCHANGED vars
  <2>1. /\ UNCHANGED <<slots, ss_slot, ss_failed, ss_gen, ss_pos, ss_crc>>
        /\ UNCHANGED <<pc, newest, flawed>>
    BY <1>1 DEF vars, storeVars, machineVars, historyVars
  <2>2. FlashSound'
    BY <2>1, FlashKept DEF Storage
  <2>3. SlotTaken' /\ ErasesOtherChip'
    BY <2>1
    DEF Storage, SlotTaken, ErasesOtherChip, NextGeneration, BlankSlots, Committed, Beside, Victim, Slots, None
  <2>4. SlotWritten' /\ FailedForCause'
    BY <2>1 DEF Storage, SlotWritten, FailedForCause, Verified, Holds, Slot
  <2>. QED  BY <2>2, <2>3, <2>4 DEF Storage
<1>2. CASE Work \/ Publish \/ \E command \in Commands : Leave(command)
  <2>1. UNCHANGED <<slots, newest>> /\ pc' \in {"shell", "begin", "saved"}
    BY <1>2 DEF Work, Publish, Leave, Goto, storeVars, historyVars
  <2>. QED  BY <2>1, StorageElsewhere DEF Saving, Written
<1>3. CASE Away
  <2>1. UNCHANGED <<slots, newest>> /\ pc' \in {"shell", "outside", "tape", "boot"}
    BY <1>3
    DEF Away, GoAway, LaunchFails, StayHere, StartCopier, CopierEnds, TypeShell, Scribble, Undisturbed, Goto,
        storeVars, historyVars
  <2>. QED  BY <2>1, StorageElsewhere DEF Saving, Written
<1>4. CASE Return
  <2>1. UNCHANGED <<slots, newest>>
    BY <1>4
    DEF Return, Main, RestoreBegin, RestoreRead, Resume, Cold, Report, Restore, Read, storeVars, historyVars
  <2>2. pc' \in {"shell", "restore", "read", "cold", "resumed", "report"}
    BY <1>4 DEF Return, Main, RestoreBegin, RestoreRead, Resume, Cold, Report, Goto, Back
  <2>. QED  BY <2>1, <2>2, StorageElsewhere DEF Saving, Written
<1>. QED
  BY <1>1, <1>2, <1>3, <1>4, BeginStorage, EraseStorage, HeaderStorage, WriteStorage, VerifyStorage,
     MarkStorage, FailsStorage, StopStorage
  DEF Next, Save

-----------------------------------------------------------------------------
(* What is saved, named by the token and read back                         *)

Payload ==
    /\ pc \in Saving \cup {"begin", "erase", "publish"} => shell = departed
    /\ pc \in Saving \cup {"publish"} =>
         Len(ss_crc) = ss_pos /\ \A k \in 1..ss_pos : ss_crc[k] = shell[k]
    /\ pc = "publish" => ss_pos = SIZE
    /\ valid => token.crc \in {<<>>, departed}
    /\ pc = "read" => /\ ss_slot \in Slots /\ slots[ss_slot].data = departed
                      /\ \A k \in 1..ss_pos : shell[k] = departed[k]
    /\ pc = "resumed" => shell = departed

(* Two shells that agree on every chunk are one.                           *)
LEMMA SameShell ==
    ASSUME NEW a \in Shell, NEW b \in Shell, \A k \in 1..SIZE : a[k] = b[k]
    PROVE  a = b
<1>1. a = [k \in 1..SIZE |-> a[k]] /\ b = [k \in 1..SIZE |-> b[k]]
  BY DEF Shell
<1>. QED  BY <1>1

LEMMA SeqIsShell ==
    ASSUME NEW s \in Seq(Values), Len(s) = SIZE
    PROVE  s \in Shell
  BY LenProperties DEF Shell

(* A chunk more of the payload                                             *)
LEMMA WritePayload ==
    ASSUME Typed, Storage, Payload, SaveWrite, ss_pos # SIZE
    PROVE  /\ Len(ss_crc') = ss_pos'
           /\ \A k \in 1..(ss_pos') : ss_crc'[k] = shell[k]
<1>1. /\ Len(ss_crc) = ss_pos /\ ss_crc \in Seq(Values) /\ ss_pos \in 0..SIZE /\ SIZE \in Nat
      /\ \A k \in 1..ss_pos : ss_crc[k] = shell[k]
      /\ ss_pos' = ss_pos + 1 /\ ss_crc' = Append(ss_crc, shell[ss_pos + 1])
      /\ shell \in [1..SIZE -> Values]
  BY SessionAssumption
  DEF Typed, StoreTyped, MachineTyped, Shell, Payload, SaveWrite, Write, Saving, Written
<1>2. ss_pos + 1 \in 1..SIZE /\ shell[ss_pos + 1] \in Values
  BY <1>1
<1>3. /\ Len(ss_crc') = ss_pos + 1
      /\ \A k \in 1..ss_pos : ss_crc'[k] = ss_crc[k]
      /\ ss_crc'[ss_pos + 1] = shell[ss_pos + 1]
  BY <1>1, <1>2, AppendProperties
<1>4. \A k \in 1..(ss_pos + 1) : k = ss_pos + 1 \/ k \in 1..ss_pos
  BY <1>1
<1>. QED  BY <1>1, <1>3, <1>4

LEMMA SavePayload ==
    ASSUME Typed, Storage, Payload, Save
    PROVE  Payload'
<1>1. CASE SaveBegin
  BY <1>1, EmptySeq
  DEF SaveBegin, Quietly, Begin, Goto, Payload, Saving, Written
<1>2. CASE SaveErase \/ SaveHeader
  <2>1. /\ ss_pos = 0 /\ ss_crc = <<>> /\ pc \in {"erase", "header"} /\ ~(pc = "header" /\ ss_failed)
        /\ Len(<<>>) = 0 /\ 1..0 = {}
    BY <1>2, EmptySeq DEF SaveErase, SaveHeader, Storage, SlotTaken, SlotWritten, Saving, Written
  <2>2. /\ pc' \in {"header", "write"}
        /\ UNCHANGED <<ss_pos, ss_crc, shell, departed, valid, token>>
    BY <1>2, <2>1
    DEF SaveErase, SaveHeader, Erase, PutHeader, Answer, Goto, Quietly
  <2>. QED  BY <2>1, <2>2 DEF Payload, Saving, Written
<1>3. CASE SaveWrite
  <2>1. pc = "write" /\ pc' \in {"write", "commit"} /\ UNCHANGED <<shell, departed, valid, token>>
    BY <1>3 DEF SaveWrite, Goto, Quietly
  <2>2. Len(ss_crc') = ss_pos' /\ \A k \in 1..(ss_pos') : ss_crc'[k] = shell[k]
    <3>1. CASE ss_pos = SIZE
      BY <1>3, <2>1, <3>1 DEF SaveWrite, storeVars, Payload, Saving, Written
    <3>2. CASE ss_pos # SIZE
      BY <1>3, <3>2, WritePayload
    <3>. QED  BY <3>1, <3>2
  <2>. QED  BY <2>1, <2>2 DEF Payload, Saving, Written
<1>4. CASE SaveVerify \/ SaveMark
  <2>1. /\ pc \in {"commit", "mark"} /\ pc' \in {"failed", "mark", "publish"}
        /\ pc = "mark" => ss_pos = SIZE
        /\ pc = "commit" => pc' # "publish"
        /\ UNCHANGED <<ss_pos, ss_crc, shell, departed, valid, token>>
    BY <1>4
    DEF SaveVerify, SaveMark, PutChecksum, PutCommit, Answer, Goto, Quietly, Storage, SlotWritten, Verified
  <2>. QED  BY <2>1 DEF Payload, Saving, Written
<1>5. CASE Publish
  <2>1. /\ shell = departed /\ Len(ss_crc) = SIZE /\ ss_crc \in Seq(Values) /\ departed \in Shell
        /\ \A k \in 1..SIZE : ss_crc[k] = departed[k]
    BY <1>5 DEF Publish, Payload, Typed, StoreTyped, HistoryTyped
  <2>2. ss_crc = departed
    BY <2>1, SeqIsShell, SameShell
  <2>3. token'.crc = departed /\ pc' = "saved" /\ departed' = departed
    BY <1>5, <2>2 DEF Publish, Goto, historyVars
  <2>. QED  BY <2>3 DEF Payload, Saving, Written
<1>6. CASE SaveFails
  <2>1. pc' = "failed" /\ UNCHANGED <<departed, valid, token>>
    BY <1>6 DEF SaveFails, Goto
  <2>. QED  BY <2>1 DEF Payload, Saving, Written
<1>. QED  BY <1>1, <1>2, <1>3, <1>4, <1>5, <1>6 DEF Save

(* What a program or a power cut leaves in the descriptor has no checksum. *)
LEMMA ScribbledPayload ==
    ASSUME Scribbled
    PROVE  valid' => token'.crc = <<>>
  BY DEF Scribbled, Forged, NoToken

LEMMA AwayPayload ==
    ASSUME Typed, Payload, Away
    PROVE  Payload'
<1>1. /\ pc' \in {"shell", "outside", "tape", "boot"}
      /\ departed' = departed /\ (valid' => token'.crc \in {<<>>, departed})
  <2>1. CASE Scribble
    BY <2>1, ScribbledPayload DEF Scribble, historyVars
  <2>2. CASE ~Scribble
    BY <2>2
    DEF Away, GoAway, LaunchFails, StayHere, StartCopier, CopierEnds, TypeShell, Undisturbed, Goto, Payload
  <2>. QED  BY <2>1, <2>2
<1>. QED  BY <1>1 DEF Payload, Saving, Written

(* A token that is accepted is the one published when the shell left.      *)
LEMMA RestorePayload ==
    ASSUME Typed, Storage, Payload, RestoreBegin
    PROVE  Payload'
<1>1. UNCHANGED <<slots, shell, departed, valid, token>>
  BY DEF RestoreBegin, Restore, storeVars, historyVars
<1>2. CASE valid /\ Accepts(token)
  <2>1. token.slot \in Slots /\ Committed(token.slot) /\ slots[token.slot].data = token.crc
    BY <1>2 DEF Accepts, Holds
  <2>2. slots[token.slot].data = departed
    BY <1>2, <2>1 DEF Payload, Storage, FlashSound, SlotsSound
  <2>3. pc' = "read" /\ ss_slot' = token.slot /\ ss_pos' = 0 /\ 1..0 = {}
    BY <1>2 DEF RestoreBegin, Restore, Goto
  <2>4. ss_slot' \in Slots' /\ slots'[ss_slot'].data = departed'
    BY <1>1, <2>1, <2>2, <2>3 DEF Slots
  <2>. QED  BY <1>1, <2>3, <2>4 DEF Payload, Saving, Written
<1>3. CASE ~(valid /\ Accepts(token))
  <2>1. pc' = "cold"
    BY <1>3 DEF RestoreBegin, Goto
  <2>. QED  BY <1>1, <2>1 DEF Payload, Saving, Written
<1>. QED  BY <1>2, <1>3

LEMMA ReadPayload ==
    ASSUME Typed, Payload, RestoreRead
    PROVE  Payload'
<1>1. /\ UNCHANGED <<slots, ss_slot, departed, valid, token>> /\ pc = "read"
      /\ ss_slot \in Slots /\ slots[ss_slot].data = departed
      /\ \A k \in 1..ss_pos : shell[k] = departed[k]
  BY DEF RestoreRead, Read, storeVars, historyVars, Payload
<1>2. shell \in Shell /\ departed \in Shell /\ ss_pos \in 0..SIZE /\ SIZE \in Nat
  BY SessionAssumption DEF Typed, StoreTyped, MachineTyped, HistoryTyped
<1>3. CASE ss_pos = SIZE
  <2>1. pc' = "resumed" /\ shell' = shell /\ shell = departed
    BY <1>1, <1>2, <1>3, SameShell DEF RestoreRead, Goto
  <2>. QED  BY <1>1, <2>1 DEF Payload, Saving, Written
<1>4. CASE ss_pos # SIZE
  <2>1. /\ pc' = pc /\ ss_pos' = ss_pos + 1
        /\ shell' = [shell EXCEPT ![ss_pos + 1] = departed[ss_pos + 1]]
    BY <1>1, <1>4 DEF RestoreRead, Read, Slot
  <2>2. \A k \in 1..(ss_pos + 1) : shell'[k] = departed[k]
    BY <1>1, <1>2, <1>4, <2>1 DEF Shell
  <2>3. ss_slot' \in Slots'
    BY <1>1 DEF Slots
  <2>. QED  BY <1>1, <2>1, <2>2, <2>3 DEF Payload, Saving, Written
<1>. QED  BY <1>3, <1>4

LEMMA NextPayload ==
    ASSUME Typed, Storage, Payload, [Next]_vars
    PROVE  Payload'
<1>1. CASE UNCHANGED vars
  BY <1>1 DEF vars, storeVars, machineVars, historyVars, Payload, Slots
<1>2. CASE Work
  BY <1>2 DEF Work, storeVars, historyVars, Payload, Saving, Written
<1>3. ASSUME NEW command \in Commands, Leave(command) PROVE Payload'
  BY <1>3 DEF Leave, DropToken, Goto, storeVars, Payload, Saving, Written
<1>4. CASE Main \/ Resume \/ Cold \/ Report
  <2>1. pc' \in {"restore", "shell", "report"} /\ UNCHANGED <<departed, valid, token>>
    BY <1>4 DEF Main, Resume, Cold, Report, Goto, Back, historyVars
  <2>. QED  BY <2>1 DEF Payload, Saving, Written
<1>5. CASE Reset
  BY <1>5 DEF Reset, Goto, Payload, Saving, Written
<1>6. CASE PowerLoss
  BY <1>6, ScribbledPayload DEF PowerLoss, Goto, Payload, Saving, Written
<1>. QED  BY <1>1, <1>2, <1>3, <1>4, <1>5, <1>6, SavePayload, AwayPayload, RestorePayload, ReadPayload
          DEF Next, Return

-----------------------------------------------------------------------------
(* The result of a tape transfer                                           *)

Reports ==
    /\ request = "tape" => pc = "boot" /\ copied
    /\ taped /\ pc \in {"restore", "read", "resumed", "cold"} => copied
    /\ pc = "report" => copied

LEMMA NextReports ==
    ASSUME Typed, Reports, [Next]_vars
    PROVE  Reports'
<1>1. CASE UNCHANGED vars
  BY <1>1 DEF vars, machineVars, historyVars, Reports
<1>2. CASE Work \/ Save \/ \E command \in Commands : Leave(command)
  <2>1. /\ request' = request /\ request # "tape"
        /\ pc' \notin {"restore", "read", "resumed", "cold", "report"}
    BY <1>2
    DEF Work, Leave, Save, SaveBegin, SaveErase, SaveHeader, SaveWrite, SaveVerify, SaveMark, Publish, SaveFails,
        Quietly, Answer, Goto, Reports
  <2>. QED  BY <2>1 DEF Reports
<1>3. CASE Away
  <2>1. pc' \notin {"restore", "read", "resumed", "cold", "report"}
    BY <1>3
    DEF Away, GoAway, LaunchFails, StayHere, StartCopier, CopierEnds, TypeShell, Scribble, Goto
  <2>2. request' = "tape" => pc' = "boot" /\ copied'
    BY <1>3
    DEF Away, GoAway, LaunchFails, StayHere, StartCopier, CopierEnds, TypeShell, Scribble, Scribbled, Goto, Reports
  <2>. QED  BY <2>1, <2>2 DEF Reports
<1>4. CASE Main
  BY <1>4 DEF Main, TapeResume, Goto, historyVars, Reports, Typed, HistoryTyped
<1>5. CASE RestoreBegin \/ RestoreRead \/ Resume \/ Cold \/ Report
  <2>1. /\ UNCHANGED <<request, taped, copied>> /\ request # "tape"
        /\ pc' = "report" => taped /\ pc \in {"resumed", "cold"}
        /\ pc' \in {"read", "resumed", "cold"} => pc \in {"restore", "read"}
        /\ pc' # "restore"
    BY <1>5
    DEF RestoreBegin, RestoreRead, Resume, Cold, Report, Back, Goto, historyVars, Reports
  <2>. QED  BY <2>1 DEF Reports
<1>6. CASE Reset
  BY <1>6 DEF Reset, Goto, Reports
<1>7. CASE PowerLoss
  BY <1>7 DEF PowerLoss, Scribbled, Goto, Reports
<1>. QED  BY <1>1, <1>2, <1>3, <1>4, <1>5, <1>6, <1>7 DEF Next, Return

-----------------------------------------------------------------------------
(* The invariant and what follows from it                                  *)

SessionInvariant == Typed /\ Storage /\ Payload /\ Reports

LEMMA InvariantHolds == Spec => []SessionInvariant
<1>1. Init => Payload /\ Reports
  BY DEF Init, Payload, Reports, Saving, Written
<1>2. Init => SessionInvariant
  BY <1>1, InitTyped, InitStorage DEF SessionInvariant
<1>3. SessionInvariant /\ [Next]_vars => SessionInvariant'
  BY NextTyped, NextStorage, NextPayload, NextReports DEF SessionInvariant
<1>. QED  BY <1>2, <1>3, PTL DEF Spec

(* session-store.h:98: for every number of slots, size of a session and    *)
(* number of generations, whatever is erased, interrupted or reported      *)
(* failed, the session committed last stays committed with what it saved.  *)
THEOREM NewestSessionStays == Spec => []NewestKept
<1>1. SessionInvariant => NewestKept
  BY DEF SessionInvariant, Storage, FlashSound, NewestIsCommitted, NewestKept
<1>. QED  BY <1>1, InvariantHolds, PTL

(* session.c:163 and session-store.h:147: a shell that is restored is the  *)
(* one that left last, whatever a program left in the descriptor.          *)
THEOREM ShellComesBack == Spec => []ResumesDeparture
<1>1. SessionInvariant => ResumesDeparture
  BY DEF SessionInvariant, Payload, ResumesDeparture
<1>. QED  BY <1>1, InvariantHolds, PTL

(* session-store.h:81-87 and 142-146: a save fails for an error of its own *)
(* or on a slot an erase left half blank, which it uses up.                *)
THEOREM SavesFailForCause == Spec => []FailuresExplained
<1>1. SessionInvariant => FailuresExplained
  BY DEF SessionInvariant, Storage, FailedForCause, FailuresExplained, Slot
<1>. QED  BY <1>1, InvariantHolds, PTL

(* mcsdos.c:32-33: only the copier's return is reported as a transfer.     *)
THEOREM TransfersAreReported == Spec => []ReportsAreReal
<1>1. SessionInvariant => ReportsAreReal
  BY DEF SessionInvariant, Reports, ReportsAreReal
<1>. QED  BY <1>1, InvariantHolds, PTL

================================================================================
