------------------------------ MODULE ToolsProofs ------------------------------
(***************************************************************************)
(* What is proved of five parts that take turns: the calls between banks,  *)
(* startup and settings, the tape copier, the command line and the editor. *)
(* The disk utilities have a module of their own, DiskProofs.              *)
(***************************************************************************)
EXTENDS Banks, Startup, TapeCopier, CommandLine, Editor, SequenceTheorems, FiniteSetTheorems, FunctionTheorems,
        WellFoundedInduction, TLAPS

-----------------------------------------------------------------------------
(***************************************************************************)
(* Whatever the gates, the call graph and the depth of the calls, the code *)
(* that runs is the code the processor sees.                               *)
(*                                                                         *)
(* What a gate noted is needed because a call returns to it: Restored says *)
(* that every note on the stack is the mapping its caller needs, Known     *)
(* that BANK_CURRENT is the one the running routine needs, and Switched    *)
(* that the registers follow BANK_CURRENT except while the driver runs.    *)
(***************************************************************************)

BankType ==
    /\ stack \in Seq(Frame) /\ stack # <<>>
    /\ current \in Mappings
    /\ doing \in {"code", "font", "driver", "chip", "gone"}

Restored ==
    \A k \in 2..Len(stack) : stack[k].routine \in Gates => Needs(stack, k - 1, stack[k].previous)

Known == doing # "gone" => Needs(stack, Len(stack), current)

Selected == IF current = BANK_NONE THEN mode = HIDDEN ELSE InWindow(current)
Switched ==
    /\ doing \in {"code", "font"} => Selected
    /\ doing = "code" => port = KERNAL
    /\ doing \in {"driver", "chip"} => mode = WINDOWS /\ port = BOTH
    /\ doing = "driver" => bank = DRIVER
    /\ doing = "font" /\ port = CHARACTERS => mode = HIDDEN

BankInv == BankType /\ Restored /\ Known /\ Switched

-----------------------------------------------------------------------------
(* What a depth of calls needs is one mapping.                             *)
LEMMA NeedsOne ==
    ASSUME NEW s, NEW k \in Nat, NEW b, NEW c, Needs(s, k, b), Needs(s, k, c)
    PROVE  b = c
BY DEF Needs

(* It depends on the routines called, not on how far they are.             *)
LEMMA NeedsSame ==
    ASSUME NEW s, NEW t, NEW k \in Nat, NEW b, Needs(s, k, b),
           \A j \in 1..k : t[j].routine = s[j].routine
    PROVE  Needs(t, k, b)
BY DEF Needs

(* A gate needs its own bank.                                              *)
LEMMA NeedsHome ==
    ASSUME NEW s, NEW k \in Nat \ {0}, s[k].routine \in Gates
    PROVE  Needs(s, k, Home[s[k].routine])
BY DEF Needs

(* A resident routine needs what its caller needs.                         *)
LEMMA NeedsDeeper ==
    ASSUME NEW s, NEW k \in Nat, NEW b, s[k + 1].routine \notin Gates, Needs(s, k, b)
    PROVE  Needs(s, k + 1, b)
BY DEF Needs

LEMMA NeedsBack ==
    ASSUME NEW s, NEW k \in Nat, NEW b, s[k + 1].routine \notin Gates, Needs(s, k + 1, b)
    PROVE  Needs(s, k, b)
BY DEF Needs

(* Noting how far a routine is changes nothing a mapping depends on.       *)
LEMMA NotedFrames ==
    ASSUME NEW s \in Seq(Frame), s # <<>>, NEW step \in Steps,
           NEW t, t = [s EXCEPT ![Len(s)].at = step]
    PROVE  /\ t \in Seq(Frame) /\ t # <<>> /\ Len(t) = Len(s)
           /\ \A j \in 1..Len(s) : t[j].routine = s[j].routine /\ t[j].previous = s[j].previous
<1>1. Len(s) \in 1..Len(s)
  OBVIOUS
<1>2. s[Len(s)] \in Frame
  BY <1>1
<1>3. t = [s EXCEPT ![Len(s)] = [s[Len(s)] EXCEPT !.at = step]]
  OBVIOUS
<1>4. [s[Len(s)] EXCEPT !.at = step] \in Frame
  BY <1>2 DEF Frame
<1>5. t \in Seq(Frame) /\ Len(t) = Len(s)
  BY <1>1, <1>3, <1>4
<1>6. ASSUME NEW j \in 1..Len(s)
      PROVE  t[j].routine = s[j].routine /\ t[j].previous = s[j].previous
  <2>1. CASE j = Len(s)
    BY <1>2, <1>3, <2>1 DEF Frame
  <2>2. CASE j # Len(s)
    BY <1>3, <2>2
  <2> QED
    BY <2>1, <2>2
<1> QED
  BY <1>5, <1>6

-----------------------------------------------------------------------------
(* A step that calls nothing and returns from nothing keeps what is known  *)
(* of the stack.                                                           *)
SameCalls ==
    /\ Len(stack') = Len(stack)
    /\ \A j \in 1..Len(stack) :
         stack'[j].routine = stack[j].routine /\ stack'[j].previous = stack[j].previous

LEMMA CallsStay ==
    ASSUME BankType, Restored, Known, SameCalls, doing # "gone", current' = current
    PROVE  Restored' /\ Known'
<1>1. Len(stack) \in Nat /\ Len(stack) > 0
  BY DEF BankType
<1>2. Known'
  <2>1. Needs(stack, Len(stack), current)
    BY DEF Known
  <2>2. Needs(stack', Len(stack), current)
    BY <1>1, <2>1, NeedsSame DEF SameCalls
  <2> QED
    BY <2>2 DEF Known, SameCalls
<1>3. ASSUME NEW k \in 2..Len(stack), stack'[k].routine \in Gates
      PROVE  Needs(stack', k - 1, stack'[k].previous)
  <2>1. stack[k].routine \in Gates /\ stack'[k].previous = stack[k].previous
    BY <1>1, <1>3 DEF SameCalls
  <2>2. Needs(stack, k - 1, stack[k].previous)
    BY <2>1 DEF Restored
  <2>3. \A j \in 1..(k - 1) : stack'[j].routine = stack[j].routine
    BY <1>1 DEF SameCalls
  <2> QED
    BY <1>1, <2>1, <2>2, <2>3, NeedsSame
<1>4. Restored'
  BY <1>3 DEF Restored, SameCalls
<1> QED
  BY <1>2, <1>4

LEMMA AtStays ==
    ASSUME BankType, NEW step \in Steps, At(step)
    PROVE  stack' \in Seq(Frame) /\ stack' # <<>> /\ SameCalls
BY NotedFrames DEF BankType, At, SameCalls

-----------------------------------------------------------------------------
(* A call: a gate notes what its caller needs, and gets what it needs.     *)
LEMMA CallKeeps ==
    ASSUME BankType, Restored, Known, doing # "gone",
           NEW t \in Seq(Frame), Len(t) = Len(stack),
           \A j \in 1..Len(stack) : t[j].routine = stack[j].routine /\ t[j].previous = stack[j].previous,
           NEW f \in Frame, stack' = Append(t, f),
           f.routine \in Gates => f.previous = current /\ current' = Home[f.routine],
           f.routine \notin Gates => current' = current
    PROVE  stack' \in Seq(Frame) /\ stack' # <<>> /\ Restored' /\ Needs(stack', Len(stack'), current')
<1> DEFINE n == Len(stack)
<1>1. n \in Nat /\ n > 0
  BY DEF BankType
<1>2. /\ stack' \in Seq(Frame) /\ stack' # <<>> /\ Len(stack') = n + 1 /\ stack'[n + 1] = f
      /\ \A j \in 1..n : stack'[j] = t[j]
  OBVIOUS
<1>3. \A j \in 1..n : stack'[j].routine = stack[j].routine /\ stack'[j].previous = stack[j].previous
  BY <1>2
<1>4. Needs(stack', n, current)
  <2>1. Needs(stack, n, current)
    BY DEF Known
  <2> QED
    BY <1>1, <1>3, <2>1, NeedsSame
<1>5. Needs(stack', n + 1, current')
  <2>1. CASE f.routine \in Gates
    <3>1. n + 1 \in Nat \ {0} /\ stack'[n + 1].routine \in Gates /\ current' = Home[stack'[n + 1].routine]
      BY <1>1, <1>2, <2>1
    <3> QED
      BY <3>1, NeedsHome
  <2>2. CASE f.routine \notin Gates
    BY <1>1, <1>2, <1>4, <2>2, NeedsDeeper
  <2> QED
    BY <2>1, <2>2
<1>6. ASSUME NEW k \in 2..(n + 1), stack'[k].routine \in Gates
      PROVE  Needs(stack', k - 1, stack'[k].previous)
  <2>1. CASE k = n + 1
    <3>1. k - 1 = n /\ stack'[k].previous = current
      BY <1>1, <1>2, <1>6, <2>1
    <3> QED
      BY <1>4, <3>1
  <2>2. CASE k # n + 1
    <3>1. k \in 2..n
      BY <1>1, <2>2
    <3>2. stack[k].routine \in Gates /\ stack'[k].previous = stack[k].previous
      BY <1>1, <1>3, <1>6, <3>1
    <3>3. Needs(stack, k - 1, stack[k].previous)
      BY <3>1, <3>2 DEF Restored
    <3>4. k - 1 \in Nat /\ \A j \in 1..(k - 1) : stack'[j].routine = stack[j].routine
      BY <1>1, <1>3, <3>1
    <3> QED
      BY <3>2, <3>3, <3>4, NeedsSame
  <2> QED
    BY <2>1, <2>2
<1>7. Restored'
  BY <1>2, <1>6 DEF Restored
<1> QED
  BY <1>2, <1>5, <1>7

(* A return: the caller gets back what the gate noted, or what its callee  *)
(* had from it.                                                            *)
LEMMA ReturnKeeps ==
    ASSUME BankType, Restored, Known, doing # "gone", Len(stack) > 1,
           stack' = SubSeq(stack, 1, Len(stack) - 1),
           Top.routine \in Gates => current' = Top.previous,
           Top.routine \notin Gates => current' = current
    PROVE  stack' \in Seq(Frame) /\ stack' # <<>> /\ Restored' /\ Needs(stack', Len(stack'), current')
<1> DEFINE n == Len(stack) - 1
<1>1. n \in Nat /\ n > 0 /\ Len(stack) = n + 1
  BY DEF BankType
<1>2. /\ stack' \in Seq(Frame) /\ stack' # <<>> /\ Len(stack') = n
      /\ \A j \in 1..n : stack'[j] = stack[j]
  <2>1. stack \in Seq(Frame)
    BY DEF BankType
  <2>2. n \in 0..Len(stack)
    BY <1>1
  <2>3. SubSeq(stack, 1, n) \in Seq(Frame) /\ Len(SubSeq(stack, 1, n)) = n
    BY <1>1, <2>1, <2>2, SubSeqProperties
  <2>4. \A j \in 1..n : SubSeq(stack, 1, n)[j] = stack[j]
    BY <1>1, <2>1, <2>2, SubSeqProperties
  <2>5. stack' = SubSeq(stack, 1, n)
    OBVIOUS
  <2> HIDE DEF n
  <2>6. stack' \in Seq(Frame) /\ Len(stack') = n /\ \A j \in 1..n : stack'[j] = stack[j]
    BY <2>3, <2>4, <2>5
  <2> QED
    BY <1>1, <2>6
<1>3. Needs(stack, n, current')
  <2>1. CASE Top.routine \in Gates
    <3>1. n + 1 \in 2..Len(stack) /\ stack[n + 1].routine \in Gates /\ stack[n + 1].previous = current'
      BY <1>1, <2>1 DEF Top
    <3>2. Needs(stack, (n + 1) - 1, stack[n + 1].previous)
      BY <3>1 DEF Restored
    <3> QED
      BY <1>1, <3>1, <3>2
  <2>2. CASE Top.routine \notin Gates
    <3>1. Needs(stack, n + 1, current) /\ current' = current /\ stack[n + 1].routine \notin Gates
      BY <1>1, <2>2 DEF Known, Top
    <3> QED
      BY <1>1, <3>1, NeedsBack
  <2> QED
    BY <2>1, <2>2
<1>4. Needs(stack', n, current')
  <2>1. \A j \in 1..n : stack'[j].routine = stack[j].routine
    BY <1>2
  <2> HIDE DEF n
  <2> QED
    BY <1>1, <1>3, <2>1, NeedsSame
<1>5. ASSUME NEW k \in 2..n, stack'[k].routine \in Gates
      PROVE  Needs(stack', k - 1, stack'[k].previous)
  <2>1. k \in 2..Len(stack) /\ k - 1 \in Nat /\ stack[k].routine \in Gates /\ stack'[k] = stack[k]
    BY <1>1, <1>2, <1>5
  <2>2. Needs(stack, k - 1, stack[k].previous)
    BY <2>1 DEF Restored
  <2>3. \A j \in 1..(k - 1) : stack'[j].routine = stack[j].routine
    BY <1>1, <1>2
  <2> QED
    BY <2>1, <2>2, <2>3, NeedsSame
<1>6. Restored'
  BY <1>2, <1>5 DEF Restored
<1> QED
  BY <1>2, <1>4, <1>6

(* A switch by a gate selects what BANK_CURRENT says.                      *)
LEMMA LeaveSelects ==
    ASSUME NEW b, bank_leave(b)
    PROVE  Selected' /\ port' = KERNAL /\ current' = b
BY DEF bank_leave, Selected, InWindow

-----------------------------------------------------------------------------
LEMMA BankInitInv == BankInit => BankInv
<1> SUFFICES ASSUME BankInit PROVE BankInv
  OBVIOUS
<1>1. stack = <<Started("main", BANK_NONE)>> /\ Started("main", BANK_NONE) \in Frame
  BY BanksAssumption DEF BankInit, Started, Frame, Steps, Mappings
<1>2. BankType /\ Restored
  BY <1>1 DEF BankInit, BankType, Restored, Mappings
<1>3. Known
  <2>1. stack[1].routine = "main" /\ Len(stack) = 1
    BY <1>1 DEF Started
  <2> QED
    BY <2>1, BanksAssumption DEF BankInit, Known, Needs
<1>4. Switched
  BY DEF BankInit, Switched, Selected, HIDDEN, KERNAL, CHARACTERS
<1> QED
  BY <1>2, <1>3, <1>4 DEF BankInv

(* The running routine is one of the shell's.                              *)
LEMMA TopFrame ==
    ASSUME BankType
    PROVE  Top \in Frame /\ Top.routine \in Routines /\ Top.previous \in Mappings
<1>1. Len(stack) \in 1..Len(stack)
  BY DEF BankType
<1>2. Top \in Frame
  BY <1>1 DEF BankType, Top
<1> QED
  BY <1>2 DEF Frame

LEMMA NotingStays ==
    ASSUME BankType, NEW r
    PROVE  /\ Noting(r) \in Seq(Frame) /\ Len(Noting(r)) = Len(stack)
           /\ \A j \in 1..Len(stack) :
                Noting(r)[j].routine = stack[j].routine /\ Noting(r)[j].previous = stack[j].previous
<1>1. CASE r = "charset_prepare"
  <2>1. PICK t : t = [stack EXCEPT ![Len(stack)].at = "prepared"]
    OBVIOUS
  <2>2. Noting(r) = t
    BY <1>1, <2>1 DEF Noting
  <2>3. stack \in Seq(Frame) /\ stack # <<>> /\ "prepared" \in Steps
    BY DEF BankType, Steps
  <2>4. /\ t \in Seq(Frame) /\ Len(t) = Len(stack)
        /\ \A j \in 1..Len(stack) : t[j].routine = stack[j].routine /\ t[j].previous = stack[j].previous
    BY <2>1, <2>3, NotedFrames
  <2> QED
    BY <2>2, <2>4
<1>2. CASE r # "charset_prepare"
  BY <1>2 DEF Noting, BankType
<1> QED
  BY <1>1, <1>2

LEMMA CallRoutineInv == BankInv /\ CallRoutine => BankInv'
<1> SUFFICES ASSUME BankInv, CallRoutine PROVE BankInv'
  OBVIOUS
<1> USE DEF BankInv
<1>1. PICK r \in Calls[Top.routine] :
        IF r \in Gates
          THEN stack' = Append(Noting(r), Started(r, bank_enter(Home[r]))) /\ bank_leave(Home[r])
          ELSE stack' = Append(Noting(r), Started(r, BANK_NONE)) /\ UNCHANGED mapVars
  BY DEF CallRoutine
<1>2. doing = "code" /\ doing' = "code"
  BY DEF CallRoutine
<1>3. r \in Routines
  BY <1>1, TopFrame, BanksAssumption
<1> DEFINE t == Noting(r)
<1>4. /\ t \in Seq(Frame) /\ Len(t) = Len(stack)
      /\ \A j \in 1..Len(stack) : t[j].routine = stack[j].routine /\ t[j].previous = stack[j].previous
  BY NotingStays
<1>5. CASE r \in Gates
  <2> DEFINE f == Started(r, current)
  <2>1. f \in Frame /\ f.routine = r /\ f.previous = current
    BY <1>3 DEF Started, Frame, Steps, BankType
  <2>2. stack' = Append(t, f) /\ Selected' /\ port' = KERNAL /\ current' = Home[r]
    BY <1>1, <1>5, LeaveSelects DEF bank_enter
  <2>3. current' \in Mappings
    BY <1>5, <2>2, BanksAssumption
  <2> HIDE DEF t, f
  <2>4. stack' \in Seq(Frame) /\ stack' # <<>> /\ Restored' /\ Needs(stack', Len(stack'), current')
    BY <1>2, <1>4, <1>5, <2>1, <2>2, CallKeeps
  <2>5. BankType' /\ Known'
    BY <1>2, <2>3, <2>4 DEF BankType, Known
  <2>6. Switched'
    BY <1>2, <2>2 DEF Switched
  <2> QED
    BY <2>4, <2>5, <2>6
<1>6. CASE r \notin Gates
  <2> DEFINE f == Started(r, BANK_NONE)
  <2>1. f \in Frame /\ f.routine = r
    BY <1>3 DEF Started, Frame, Steps, Mappings
  <2>2. stack' = Append(t, f) /\ UNCHANGED mapVars
    BY <1>1, <1>6
  <2>3. current' = current
    BY <2>2 DEF mapVars
  <2> HIDE DEF t, f
  <2>4. stack' \in Seq(Frame) /\ stack' # <<>> /\ Restored' /\ Needs(stack', Len(stack'), current')
    BY <1>2, <1>4, <1>6, <2>1, <2>2, <2>3, CallKeeps
  <2>5. BankType' /\ Known'
    BY <1>2, <2>3, <2>4 DEF BankType, Known
  <2>6. Switched'
    BY <1>2, <2>2 DEF Switched, Selected, InWindow, mapVars
  <2> QED
    BY <2>4, <2>5, <2>6
<1> QED
  BY <1>5, <1>6

LEMMA ReturnRoutineInv == BankInv /\ ReturnRoutine => BankInv'
<1> SUFFICES ASSUME BankInv, ReturnRoutine PROVE BankInv'
  OBVIOUS
<1> USE DEF BankInv
<1>1. doing = "code" /\ doing' = "code" /\ Len(stack) > 1 /\ stack' = SubSeq(stack, 1, Len(stack) - 1)
  BY DEF ReturnRoutine
<1>2. /\ Top.routine \in Gates => current' = Top.previous
      /\ Top.routine \notin Gates => current' = current
  BY LeaveSelects DEF ReturnRoutine, mapVars
<1>3. stack' \in Seq(Frame) /\ stack' # <<>> /\ Restored' /\ Needs(stack', Len(stack'), current')
  BY <1>1, <1>2, ReturnKeeps
<1>4. BankType'
  BY <1>1, <1>2, <1>3, TopFrame DEF BankType
<1>5. Known'
  BY <1>3 DEF Known
<1>6. Switched'
  <2>1. CASE Top.routine \in Gates
    BY <1>1, <2>1, LeaveSelects DEF ReturnRoutine, Switched
  <2>2. CASE Top.routine \notin Gates
    BY <1>1, <2>2 DEF ReturnRoutine, Switched, Selected, InWindow, mapVars
  <2> QED
    BY <2>1, <2>2
<1> QED
  BY <1>3, <1>4, <1>5, <1>6

(* A step that leaves the calls and BANK_CURRENT alone has only the        *)
(* registers to account for.                                               *)
LEMMA StackStays ==
    ASSUME BankInv, doing # "gone", doing' \in {"code", "font", "driver", "chip", "gone"},
           current' = current, stack' = stack, Switched'
    PROVE  BankInv'
<1>1. SameCalls
  BY DEF SameCalls
<1>2. BankType'
  BY DEF BankInv, BankType
<1> QED
  BY <1>1, <1>2, CallsStay DEF BankInv

LEMMA StepNoted ==
    ASSUME BankInv, doing # "gone", doing' \in {"code", "font", "driver", "chip", "gone"},
           current' = current, NEW step \in Steps, At(step), Switched'
    PROVE  BankInv'
<1>1. stack' \in Seq(Frame) /\ stack' # <<>> /\ SameCalls
  BY AtStays DEF BankInv
<1>2. BankType'
  BY <1>1 DEF BankInv, BankType
<1> QED
  BY <1>1, <1>2, CallsStay DEF BankInv

(* The character ROM is read with the cartridge hidden: the routine that   *)
(* reads it is behind a gate of its own.                                   *)
LEMMA FontMapped == BankInv /\ (PrepareFont \/ TouchFont \/ FontDone) => BankInv'
<1> SUFFICES ASSUME BankInv, PrepareFont \/ TouchFont \/ FontDone PROVE BankInv'
  OBVIOUS
<1>1. CASE PrepareFont
  <2>1. doing = "code" /\ doing' = "font" /\ UNCHANGED <<current, bank, mode>> /\ At("copied") /\ port' = CHARACTERS
    BY <1>1 DEF PrepareFont, FontPort, Runs
  <2>2. current = BANK_NONE
    <3>1. Len(stack) \in Nat \ {0} /\ stack[Len(stack)].routine \in Gates
          /\ Home[stack[Len(stack)].routine] = BANK_NONE
      BY <1>1, BanksAssumption DEF PrepareFont, Runs, Top, BankInv, BankType
    <3>2. Needs(stack, Len(stack), BANK_NONE)
      BY <3>1, NeedsHome
    <3>3. Needs(stack, Len(stack), current)
      BY <2>1 DEF BankInv, Known
    <3> QED
      BY <3>1, <3>2, <3>3, NeedsOne
  <2>3. Switched'
    BY <2>1, <2>2 DEF BankInv, Switched, Selected, InWindow
  <2> QED
    BY <2>1, <2>3, StepNoted DEF Steps
<1>2. CASE TouchFont
  <2>1. /\ doing = "code" /\ doing' = "font" /\ stack' = stack
        /\ UNCHANGED <<current, bank, mode>> /\ port' = RAM
    BY <1>2 DEF TouchFont, FontPort
  <2>2. Switched'
    BY <2>1 DEF BankInv, Switched, Selected, InWindow, RAM, CHARACTERS
  <2> QED
    BY <2>1, <2>2, StackStays
<1>3. CASE FontDone
  <2>1. Switched'
    BY <1>3 DEF FontDone, BankInv, Switched, Selected, InWindow
  <2> QED
    BY <1>3, <2>1, StackStays DEF FontDone
<1> QED
  BY <1>1, <1>2, <1>3

(* The driver does not touch BANK_CURRENT, and returns to what it says.    *)
LEMMA DriverMapped == BankInv /\ (CallDriver \/ UseChip \/ ChipDone \/ DriverDone) => BankInv'
<1> SUFFICES ASSUME BankInv, CallDriver \/ UseChip \/ ChipDone \/ DriverDone PROVE BankInv'
  OBVIOUS
<1>1. CASE CallDriver
  <2>1. Switched'
    BY <1>1 DEF CallDriver, Switched
  <2>2. doing = "code" /\ doing' = "driver" /\ current' = current /\ (At("mounted") \/ stack' = stack)
    BY <1>1 DEF CallDriver
  <2> QED
    BY <2>1, <2>2, StackStays, StepNoted DEF Steps
<1>2. CASE UseChip
  <2>1. Switched'
    BY <1>2 DEF UseChip, BankInv, Switched
  <2> QED
    BY <1>2, <2>1, StackStays DEF UseChip
<1>3. CASE ChipDone
  <2>1. Switched'
    BY <1>3 DEF ChipDone, BankInv, Switched
  <2> QED
    BY <1>3, <2>1, StackStays DEF ChipDone
<1>4. CASE DriverDone
  <2>1. Switched'
    BY <1>4 DEF DriverDone, BankInv, Switched, Selected, InWindow
  <2> QED
    BY <1>4, <2>1, StackStays DEF DriverDone
<1> QED
  BY <1>1, <1>2, <1>3, <1>4

LEMMA ScreenMapped == BankInv /\ (ClearScreen \/ EnableScreen \/ ShowSplash \/ HideSplash) => BankInv'
<1> SUFFICES ASSUME BankInv, ClearScreen \/ EnableScreen \/ ShowSplash \/ HideSplash PROVE BankInv'
  OBVIOUS
<1>1. doing = "code" /\ doing' = doing /\ UNCHANGED mapVars
  BY DEF ClearScreen, EnableScreen, ShowSplash, HideSplash, Runs
<1>2. At("cleared") \/ At("drawn") \/ At("shown") \/ At("ended")
  BY DEF ClearScreen, EnableScreen, ShowSplash, HideSplash, EndSplash
<1>3. Switched'
  BY <1>1 DEF BankInv, Switched, Selected, InWindow, mapVars
<1> QED
  BY <1>1, <1>2, <1>3, StepNoted DEF Steps, mapVars

(* A hand-over leaves nothing of the shell running.                        *)
LEMMA LeaveMapped == BankInv /\ (Leave \/ handoff) => BankInv'
<1> SUFFICES ASSUME BankInv, Leave \/ handoff PROVE BankInv'
  OBVIOUS
<1>1. doing' = "gone" /\ stack' = stack
  BY DEF Leave, handoff
<1>2. current' \in Mappings
  <2>1. current' = current \/ current' = BANK_NONE \/ current' = COPIER
    BY LeaveSelects DEF Leave, handoff, mapVars
  <2>2. COPIER \in Mappings /\ BANK_NONE \in Mappings /\ current \in Mappings
    BY DEF Mappings, Banks, COPIER, BankInv, BankType
  <2> QED
    BY <2>1, <2>2
<1>3. Restored'
  BY <1>1 DEF BankInv, Restored
<1>4. Known' /\ Switched'
  BY <1>1 DEF Known, Switched
<1> QED
  BY <1>1, <1>2, <1>3, <1>4 DEF BankInv, BankType

LEMMA BankStepInv == BankInv /\ [BankNext]_bankVars => BankInv'
<1> SUFFICES ASSUME BankInv, [BankNext]_bankVars PROVE BankInv'
  OBVIOUS
<1>1. CASE UNCHANGED bankVars
  BY <1>1 DEF bankVars, mapVars, BankInv, BankType, Restored, Known, Switched, Selected, InWindow
<1> QED
  BY <1>1, CallRoutineInv, ReturnRoutineInv, FontMapped, DriverMapped, ScreenMapped, LeaveMapped DEF BankNext

-----------------------------------------------------------------------------
(* banking.c:9-33, bridge.c:35-46: the code that runs is the code the      *)
(* processor sees, for any gates, any call graph and any depth of calls.   *)
LEMMA InvMapsCode == BankInv => CodeIsMapped
<1> SUFFICES ASSUME BankInv PROVE CodeIsMapped
  OBVIOUS
<1>1. ASSUME doing = "code", NEW b \in Mappings, Needs(stack, Len(stack), b)
      PROVE  Visible(b)
  <2>1. b = current
    <3>1. Len(stack) \in Nat
      BY DEF BankInv, BankType
    <3>2. Needs(stack, Len(stack), current)
      BY <1>1 DEF BankInv, Known
    <3> QED
      BY <1>1, <3>1, <3>2, NeedsOne
  <2> QED
    BY <1>1, <2>1 DEF BankInv, Switched, Selected, Visible
<1> QED
  BY <1>1 DEF BankInv, Switched, CodeIsMapped, InWindow

THEOREM CodeAlwaysMapped == BankSpec => []CodeIsMapped
<1>1. BankInit => BankInv
  BY BankInitInv
<1>2. BankInv /\ [BankNext]_bankVars => BankInv'
  BY BankStepInv
<1>3. BankInv => CodeIsMapped
  BY InvMapsCode
<1> QED
  BY <1>1, <1>2, <1>3, PTL DEF BankSpec

-----------------------------------------------------------------------------
(* How far the shell has started                                           *)

Depth == Len(stack)

FrameKinds ==
    /\ vector \in BOOLEAN /\ running \in BOOLEAN
    /\ low \in {"driver", "screen"} /\ base \in {"low", "high"}

(* Until it runs, main() has called bootsplash(), or bootstart().          *)
Booting ==
    ~running =>
        /\ stack[1].routine = "main"
        /\ Depth >= 2 => stack[2].routine \in {"bootsplash", "bootstart"}
        /\ Depth >= 2 /\ stack[2].routine = "bootsplash" =>
             Depth <= 3 /\ (Depth = 3 => stack[3].routine \in Calls["bootsplash"])
        /\ Depth >= 3 /\ stack[2].routine = "bootstart" =>
             /\ \A k \in 3..Depth : stack[k].routine \in BootRoutines
             /\ stack[2].at = "mounted" \/
                  (Depth = 3 /\ stack[2].at = "prepared" /\ stack[3].routine = "charset_prepare")

(* There is no NMI vector before bootstart() has prepared the font.        *)
Unguarded ==
    /\ ~running /\ base = "low"
    /\ Depth >= 2 /\ stack[2].routine = "bootstart" =>
         \/ Depth = 2 /\ stack[2].at \in {"begin", "cleared"}
         \/ Depth = 3 /\ stack[3].routine = "charset_prepare" /\ stack[3].at = "begin"

(* The driver's RAM is the screen's before the shell has started, while    *)
(* bootstart() prepares, and while SPLASH shows.                           *)
ScreenShown ==
    \/ ~running /\ (Depth = 1 \/ stack[2].routine = "bootsplash" \/ stack[2].at # "mounted")
    \/ Top.routine = "bootstart" /\ Top.at # "mounted"
    \/ /\ Depth >= 2 /\ Top.routine = "charset_prepare"
       /\ stack[Depth - 1].routine = "bootstart" /\ stack[Depth - 1].at = "prepared"
    \/ running /\ Top.routine = "bootsplash" /\ Top.at = "shown"

Guarded ==
    /\ ~vector /\ doing # "gone" => Unguarded
    /\ doing = "font" => vector
    /\ doing = "gone" => port = KERNAL

WholeDriver ==
    low # "driver" =>
        /\ doing \in {"code", "font"} => ScreenShown
        /\ doing \in {"driver", "chip"} => request = "init"

BootInv == FrameKinds /\ (doing # "gone" => Booting) /\ Guarded /\ WholeDriver

(* The running routine while the shell starts                              *)
LEMMA TopWhileBooting ==
    ASSUME BankType, Booting, ~running
    PROVE  /\ Depth = 1 <=> Top.routine = "main"
           /\ Depth = 2 <=> Top.routine \in {"bootsplash", "bootstart"}
           /\ Depth >= 3 /\ stack[2].routine = "bootsplash" =>
                Depth = 3 /\ Top.routine \in Calls["bootsplash"]
           /\ Depth >= 3 /\ stack[2].routine = "bootstart" => Top.routine \in BootRoutines
<1>1. Depth \in Nat /\ Depth >= 1 /\ Top = stack[Depth]
  BY DEF BankType, Depth, Top
<1>2. \A r \in BootRoutines \cup Calls["bootsplash"] : r \notin {"main", "bootstart", "bootsplash"}
  BY BootAssumption
<1>3. CASE Depth = 1
  BY <1>1, <1>3 DEF Booting
<1>4. CASE Depth = 2
  BY <1>1, <1>4 DEF Booting
<1>5. CASE Depth >= 3
  <2>1. stack[2].routine \in {"bootsplash", "bootstart"}
    BY <1>1, <1>5 DEF Booting
  <2>2. CASE stack[2].routine = "bootsplash"
    BY <1>1, <1>2, <1>5, <2>2 DEF Booting
  <2>3. CASE stack[2].routine = "bootstart"
    <3>1. Top.routine \in BootRoutines
      BY <1>1, <1>5, <2>3 DEF Booting
    <3>. QED  BY <1>1, <1>2, <1>5, <2>3, <3>1
  <2>. QED  BY <2>1, <2>2, <2>3
<1>. QED  BY <1>1, <1>3, <1>4, <1>5

(* Without a vector no routine that runs has a font to use.                *)
LEMMA NoFontUnguarded ==
    ASSUME BankType, Booting, Unguarded
    PROVE  Top.routine \notin FontUsers
<1>1. Depth \in Nat /\ Depth >= 1 /\ Top = stack[Depth] /\ ~running
  BY DEF BankType, Depth, Top, Unguarded
<1>2. CASE Depth <= 2
  BY <1>1, <1>2, TopWhileBooting DEF FontUsers
<1>3. CASE Depth >= 3
  <2>1. stack[2].routine \in {"bootsplash", "bootstart"}
    BY <1>1, <1>3 DEF Booting
  <2>2. CASE stack[2].routine = "bootsplash"
    BY <1>1, <1>3, <2>2, TopWhileBooting, BootAssumption
  <2>3. CASE stack[2].routine = "bootstart"
    BY <1>1, <1>3, <2>3 DEF Unguarded, FontUsers
  <2>. QED  BY <2>1, <2>2, <2>3
<1>. QED  BY <1>1, <1>2, <1>3

(* Nor does any that runs over the screen's RAM call the driver.           *)
LEMMA NoDriverWhileShown ==
    ASSUME BankType, Booting, ScreenShown, running \in BOOLEAN
    PROVE  Top.routine \notin Callers \/ (Top.routine = "bootstart" /\ Top.at # "mounted")
<1>1. Depth \in Nat /\ Depth >= 1 /\ Top = stack[Depth]
  BY DEF BankType, Depth, Top
<1>2. CASE running
  BY <1>2, BootAssumption DEF ScreenShown
<1>3. CASE ~running
  <2>1. CASE Depth = 1
    BY <1>3, <2>1, TopWhileBooting, BootAssumption
  <2>2. CASE Depth = 2
    <3>1. CASE Top.routine = "bootsplash"
      BY <3>1, BootAssumption
    <3>2. CASE Top.routine = "bootstart"
      BY <1>1, <1>3, <2>2, <3>2 DEF ScreenShown
    <3>. QED  BY <1>3, <2>2, <3>1, <3>2, TopWhileBooting
  <2>3. CASE Depth >= 3
    <3>1. stack[2].routine \in {"bootsplash", "bootstart"} /\ Top.routine \notin {"main", "bootsplash", "bootstart"}
      BY <1>1, <1>3, <2>3, TopWhileBooting DEF Booting
    <3>2. CASE stack[2].routine = "bootsplash"
      BY <1>3, <2>3, <3>2, TopWhileBooting, BootAssumption
    <3>3. CASE stack[2].routine = "bootstart"
      <4>1. stack[2].at # "mounted" => Top.routine = "charset_prepare"
        BY <1>1, <1>3, <2>3, <3>3 DEF Booting
      <4>2. stack[2].at # "mounted" \/ Top.routine = "charset_prepare"
        BY <1>1, <1>3, <2>3, <3>1, <3>3 DEF ScreenShown
      <4>. QED  BY <4>1, <4>2, BootAssumption
    <3>. QED  BY <3>1, <3>2, <3>3
  <2>. QED  BY <1>1, <2>1, <2>2, <2>3
<1>. QED  BY <1>2, <1>3

-----------------------------------------------------------------------------
(* Every step keeps BootInv.                                               *)

LEMMA InitBoots == BankInit => BootInv
<1>. SUFFICES ASSUME BankInit PROVE BootInv
  OBVIOUS
<1>1. stack = <<Started("main", BANK_NONE)>> /\ Depth = 1 /\ stack[1].routine = "main"
  BY DEF BankInit, Started, Depth
<1>2. ~running /\ doing = "code" /\ base = "low" /\ FrameKinds
  BY DEF BankInit, FrameKinds
<1>3. Booting /\ Unguarded /\ ScreenShown
  BY <1>1, <1>2 DEF Booting, Unguarded, ScreenShown
<1>. QED  BY <1>2, <1>3 DEF BootInv, Guarded, WholeDriver

(* The stack after a call                                                  *)
LEMMA CallFrames ==
    ASSUME BankType, NEW r, NEW f \in Frame, stack' = Append(Noting(r), f)
    PROVE  /\ Depth' = Depth + 1 /\ stack'[Depth + 1] = f
           /\ \A j \in 1..Depth : stack'[j].routine = stack[j].routine
           /\ r = "charset_prepare" => stack'[Depth].at = "prepared"
           /\ \A j \in 1..Depth : r # "charset_prepare" \/ j # Depth => stack'[j].at = stack[j].at
<1>1. /\ Noting(r) \in Seq(Frame) /\ Len(Noting(r)) = Depth
      /\ \A j \in 1..Depth : Noting(r)[j].routine = stack[j].routine
  BY NotingStays DEF Depth
<1>2. Depth \in Nat /\ Depth >= 1
  BY DEF BankType, Depth
<1>3. /\ Depth' = Depth + 1 /\ stack'[Depth + 1] = f
      /\ \A j \in 1..Depth : stack'[j] = Noting(r)[j]
  BY <1>1, <1>2 DEF Depth
<1>4. ASSUME NEW j \in 1..Depth
      PROVE  Noting(r)[j].at = IF r = "charset_prepare" /\ j = Depth THEN "prepared" ELSE stack[j].at
  <2>1. stack[j] \in Frame
    BY DEF BankType, Depth
  <2>. QED  BY <2>1 DEF Noting, BankType, Depth, Frame
<1>5. r = "charset_prepare" => stack'[Depth].at = "prepared"
  <2>1. Depth \in 1..Depth
    BY <1>2
  <2>2. stack'[Depth].at = Noting(r)[Depth].at
    BY <1>3, <2>1
  <2>. QED  BY <1>4, <2>1, <2>2
<1>6. \A j \in 1..Depth : r # "charset_prepare" \/ j # Depth => stack'[j].at = stack[j].at
  BY <1>3, <1>4
<1>7. \A j \in 1..Depth : stack'[j].routine = stack[j].routine
  BY <1>1, <1>3
<1>. QED  BY <1>3, <1>5, <1>6, <1>7

LEMMA CallBoots ==
    ASSUME BankInv, BootInv, CallRoutine
    PROVE  BootInv'
<1>. USE DEF BankInv
<1>1. PICK r \in Calls[Top.routine] :
        /\ MayCall(r)
        /\ IF r \in Gates
             THEN stack' = Append(Noting(r), Started(r, bank_enter(Home[r]))) /\ bank_leave(Home[r])
             ELSE stack' = Append(Noting(r), Started(r, BANK_NONE)) /\ UNCHANGED mapVars
  BY DEF CallRoutine
<1>2. doing = "code" /\ UNCHANGED <<doing, request, vector, low, base, running>>
  BY DEF CallRoutine
<1>3. Depth \in Nat /\ Depth >= 1 /\ Top = stack[Depth] /\ Top \in Frame /\ r \in Routines
  BY <1>1, TopFrame, BanksAssumption DEF BankType, Depth, Top
<1>4. PICK f \in Frame : stack' = Append(Noting(r), f) /\ f.routine = r /\ f.at = "begin"
  <2>1. \A b \in Mappings : /\ Started(r, b) \in Frame
                            /\ Started(r, b).routine = r /\ Started(r, b).at = "begin"
    BY <1>3 DEF Started, Frame, Steps
  <2>2. BANK_NONE \in Mappings /\ current \in Mappings
    BY DEF Mappings, BankType
  <2>. QED  BY <1>1, <2>1, <2>2 DEF bank_enter
<1>5. /\ Depth' = Depth + 1 /\ stack'[Depth + 1].routine = r /\ stack'[Depth + 1].at = "begin"
      /\ \A j \in 1..Depth : stack'[j].routine = stack[j].routine
      /\ r = "charset_prepare" => stack'[Depth].at = "prepared"
      /\ \A j \in 1..Depth : r # "charset_prepare" \/ j # Depth => stack'[j].at = stack[j].at
  <2>1. BankType
    OBVIOUS
  <2>2. stack' = Append(Noting(r), f) /\ f \in Frame
    BY <1>4
  <2>3. /\ Depth' = Depth + 1 /\ stack'[Depth + 1] = f
        /\ \A j \in 1..Depth : stack'[j].routine = stack[j].routine
    BY <2>1, <2>2, CallFrames
  <2>4. r = "charset_prepare" => stack'[Depth].at = "prepared"
    BY <2>1, <2>2, CallFrames
  <2>5. \A j \in 1..Depth : r # "charset_prepare" \/ j # Depth => stack'[j].at = stack[j].at
    BY <2>1, <2>2, CallFrames
  <2>. QED  BY <1>4, <2>3, <2>4, <2>5
<1>6. /\ Top'.routine = r /\ Top'.at = "begin"
  BY <1>3, <1>5 DEF Top, Depth
<1>7. \A s \in BootRoutines \cup Calls["bootsplash"] : s \notin {"main", "bootstart", "bootsplash"}
  BY BootAssumption
<1>8. Top.routine # "charset_prepare"
  BY <1>1, BootAssumption
<1>9. Top.routine = "main" /\ ~running => r \in {"bootsplash", "bootstart"}
  BY <1>1 DEF MayCall
<1>10. Top.routine = "bootstart" => Top.at = (IF r = "charset_prepare" THEN "cleared" ELSE "mounted")
  BY <1>1 DEF MayCall
<1>11. Top.routine = "bootsplash" => Top.at = "begin" \/ ~running
  BY <1>1 DEF MayCall
<1>12. Top.routine \in BootRoutines => r \in BootRoutines
  BY <1>1, BootAssumption
<1>13. Top.routine = "bootstart" => r \in BootRoutines
  BY <1>1 DEF BootRoutines
<1>14. Booting /\ FrameKinds
  BY <1>2 DEF BootInv
<1>15. ASSUME ~running
       PROVE  \/ Depth = 1 /\ Top.routine = "main" /\ r \in {"bootsplash", "bootstart"}
              \/ Depth = 2 /\ Top.routine = "bootsplash" /\ r \in Calls["bootsplash"]
              \/ Depth = 2 /\ Top.routine = "bootstart" /\ r \in BootRoutines
                   /\ (Top.at = "mounted" \/ (r = "charset_prepare" /\ Top.at = "cleared"))
              \/ Depth >= 3 /\ stack[2].routine = "bootstart" /\ stack[2].at = "mounted"
                   /\ r \in BootRoutines
  <2>1. CASE Depth = 1
    BY <1>9, <1>14, <1>15, <2>1, TopWhileBooting
  <2>2. CASE Depth = 2
    BY <1>1, <1>10, <1>13, <1>14, <1>15, <2>2, TopWhileBooting
  <2>3. CASE Depth >= 3
    <3>1. stack[2].routine = "bootsplash" => FALSE
      BY <1>1, <1>14, <1>15, <2>3, TopWhileBooting, BootAssumption
    <3>2. stack[2].routine = "bootstart"
      BY <1>3, <1>14, <1>15, <2>3, <3>1 DEF Booting
    <3>3. Top.routine \in BootRoutines
      BY <1>14, <1>15, <2>3, <3>2, TopWhileBooting
    <3>4. stack[2].at = "mounted"
      BY <1>3, <1>8, <1>14, <1>15, <2>3, <3>2 DEF Booting
    <3>. QED  BY <1>12, <2>3, <3>2, <3>3, <3>4
  <2>. QED  BY <1>3, <2>1, <2>2, <2>3
<1>16. Booting'
  <2>. SUFFICES ASSUME ~running PROVE Booting'
    BY <1>2 DEF Booting
  <2>1. stack'[1].routine = "main"
    BY <1>3, <1>5, <1>14 DEF Booting
  <2>2. CASE Depth = 1
    BY <1>2, <1>5, <1>7, <1>15, <2>1, <2>2 DEF Booting
  <2>3. CASE Depth = 2
    BY <1>2, <1>3, <1>5, <1>7, <1>15, <2>1, <2>3 DEF Booting
  <2>4. CASE Depth >= 3
    <3>1. stack[2].routine = "bootstart" /\ stack[2].at = "mounted" /\ r \in BootRoutines
      BY <1>15, <2>4
    <3>2. stack'[2].routine = "bootstart" /\ stack'[2].at = "mounted"
      BY <1>3, <1>5, <2>4, <3>1
    <3>3. \A k \in 3..(Depth + 1) : stack'[k].routine \in BootRoutines
      BY <1>3, <1>5, <1>14, <2>4, <3>1 DEF Booting
    <3>. QED  BY <1>2, <1>3, <1>5, <2>1, <2>4, <3>2, <3>3 DEF Booting
  <2>. QED  BY <1>3, <2>2, <2>3, <2>4
<1>17. Guarded'
  <2>. SUFFICES ASSUME ~vector PROVE Unguarded'
    BY <1>2 DEF Guarded, BootInv
  <2>1. Unguarded
    BY <1>2 DEF BootInv, Guarded
  <2>2. ~running /\ base = "low"
    BY <2>1 DEF Unguarded
  <2>3. CASE Depth = 1
    BY <1>2, <1>5, <1>15, <2>2, <2>3 DEF Unguarded
  <2>4. CASE Depth = 2
    BY <1>2, <1>3, <1>5, <1>15, <2>1, <2>2, <2>4 DEF Unguarded
  <2>5. CASE Depth >= 3
    BY <1>3, <1>8, <1>15, <2>1, <2>2, <2>5 DEF Unguarded
  <2>. QED  BY <1>3, <2>3, <2>4, <2>5
<1>18. WholeDriver'
  <2>. SUFFICES ASSUME low # "driver" PROVE ScreenShown'
    BY <1>2 DEF WholeDriver
  <2>1. ScreenShown
    BY <1>2 DEF BootInv, WholeDriver
  <2>2. CASE running
    <3>1. Top.routine = "bootstart" /\ Top.at # "mounted"
      BY <1>8, <1>11, <2>1, <2>2 DEF ScreenShown
    <3>2. r = "charset_prepare" /\ stack'[Depth].routine = "bootstart" /\ stack'[Depth].at = "prepared"
      BY <1>3, <1>5, <1>10, <3>1
    <3>. QED  BY <1>3, <1>5, <1>6, <3>2 DEF ScreenShown
  <2>3. CASE ~running
    <3>1. CASE Depth = 1
      BY <1>2, <1>5, <1>15, <2>3, <3>1 DEF ScreenShown
    <3>2. CASE Depth = 2 /\ Top.routine = "bootsplash"
      BY <1>2, <1>3, <1>5, <2>3, <3>2 DEF ScreenShown
    <3>3. CASE Depth = 2 /\ Top.routine = "bootstart"
      <4>1. Top.at # "mounted"
        BY <1>3, <2>1, <2>3, <3>3 DEF ScreenShown
      <4>2. r = "charset_prepare" /\ stack'[2].at = "prepared"
        BY <1>3, <1>5, <1>10, <3>3, <4>1
      <4>. QED  BY <1>2, <2>3, <4>2 DEF ScreenShown
    <3>4. CASE Depth >= 3
      <4>1. /\ stack[2].routine = "bootstart" /\ stack[2].at = "mounted"
            /\ Top.routine \notin {"main", "bootsplash", "bootstart"}
        BY <1>3, <1>14, <1>15, <2>3, <3>4, TopWhileBooting
      <4>. QED  BY <1>3, <1>8, <2>1, <2>3, <3>4, <4>1 DEF ScreenShown
    <3>. QED  BY <1>3, <1>14, <2>3, <3>1, <3>2, <3>3, <3>4, TopWhileBooting
  <2>. QED  BY <2>2, <2>3
<1>19. FrameKinds'
  BY <1>2, <1>14 DEF FrameKinds
<1>. QED  BY <1>16, <1>17, <1>18, <1>19 DEF BootInv

LEMMA ReturnBoots ==
    ASSUME BankInv, BootInv, ReturnRoutine
    PROVE  BootInv'
<1>. USE DEF BankInv
<1>1. /\ doing = "code" /\ UNCHANGED <<doing, request, vector, low, base>>
      /\ stack' = SubSeq(stack, 1, Depth - 1) /\ Depth > 1 /\ Finished
      /\ running' = (running \/ Top.routine = "bootstart")
  BY DEF ReturnRoutine, Depth
<1>2. Depth \in Nat /\ Top = stack[Depth] /\ stack \in Seq(Frame)
  BY DEF BankType, Depth, Top
<1>. DEFINE n == Depth - 1
<1>3. n \in Nat /\ n >= 1 /\ Depth = n + 1
  BY <1>1, <1>2
<1>4. Depth' = n /\ \A j \in 1..n : stack'[j] = stack[j]
  <2>1. n \in 0..Len(stack) /\ stack' = SubSeq(stack, 1, n)
    BY <1>1, <1>2, <1>3 DEF Depth
  <2>. HIDE DEF n
  <2>2. Len(SubSeq(stack, 1, n)) = n /\ \A j \in 1..n : SubSeq(stack, 1, n)[j] = stack[j]
    BY <1>2, <1>3, <2>1, SubSeqProperties
  <2>. QED  BY <2>1, <2>2 DEF Depth
<1>5. Top' = stack[n]
  BY <1>3, <1>4 DEF Top, Depth
<1>6. /\ Top.routine = "bootstart" => Top.at = "mounted"
      /\ Top.routine = "charset_prepare" => Top.at = "copied"
      /\ Top.routine = "bootsplash" => Top.at # "shown" \/ ~running
  BY <1>1 DEF Finished
<1>7. Booting /\ FrameKinds
  BY <1>1 DEF BootInv
<1>. HIDE DEF n
<1>8. Booting'
  <2>. SUFFICES ASSUME ~running' PROVE Booting'
    BY DEF Booting
  <2>0. ~running /\ Top.routine # "bootstart"
    BY <1>1
  <2>1. stack'[1].routine = "main"
    BY <1>3, <1>4, <1>7, <2>0 DEF Booting
  <2>2. CASE n = 1
    BY <1>4, <2>1, <2>2 DEF Booting
  <2>3. CASE n >= 2
    <3>1. stack'[2] = stack[2] /\ Depth >= 3
      BY <1>3, <1>4, <2>3
    <3>2. \A k \in 3..n : stack'[k] = stack[k]
      BY <1>3, <1>4
    <3>3. stack[2].routine = "bootsplash" => n = 2
      BY <1>3, <1>7, <2>0, <2>3 DEF Booting
    <3>. QED  BY <1>3, <1>4, <1>7, <2>0, <2>1, <2>3, <3>1, <3>2, <3>3 DEF Booting
  <2>. QED  BY <1>3, <2>2, <2>3
<1>9. Guarded'
  <2>. SUFFICES ASSUME ~vector PROVE Unguarded'
    BY <1>1 DEF Guarded
  <2>1. Unguarded /\ ~running
    BY <1>1 DEF BootInv, Guarded, Unguarded
  <2>2. CASE n = 1
    <3>1. Top.routine # "bootstart"
      BY <1>2, <1>3, <1>6, <2>1, <2>2 DEF Unguarded
    <3>2. Depth' = 1 /\ ~running' /\ base' = base
      BY <1>1, <1>4, <2>1, <2>2, <3>1
    <3>3. base = "low"
      BY <2>1 DEF Unguarded
    <3>4. ~(Depth' >= 2)
      BY <3>2
    <3>. QED  BY <3>2, <3>3, <3>4, Zenon DEF Unguarded
  <2>3. CASE n >= 2
    <3>1. stack[2].routine = "bootsplash"
      BY <1>2, <1>3, <1>6, <1>7, <2>1, <2>3 DEF Unguarded, Booting
    <3>2. Top.routine # "bootstart" /\ stack'[2] = stack[2]
      BY <1>3, <1>4, <1>7, <2>1, <2>3, TopWhileBooting
    <3>. QED  BY <1>1, <2>1, <3>1, <3>2 DEF Unguarded
  <2>. QED  BY <1>3, <2>2, <2>3
<1>10. WholeDriver'
  <2>. SUFFICES ASSUME low # "driver" PROVE ScreenShown'
    BY <1>1 DEF WholeDriver
  <2>1. ScreenShown
    BY <1>1 DEF BootInv, WholeDriver
  <2>2. CASE running
    <3>1. /\ Top.routine = "charset_prepare"
          /\ stack[n].routine = "bootstart" /\ stack[n].at = "prepared"
      BY <1>3, <1>6, <2>1, <2>2 DEF ScreenShown
    <3>. QED  BY <1>5, <3>1 DEF ScreenShown
  <2>3. CASE ~running
    <3>1. CASE n = 1
      <4>1. Top.routine # "bootstart"
        BY <1>2, <1>3, <1>6, <2>1, <2>3, <3>1 DEF ScreenShown
      <4>. QED  BY <1>1, <1>4, <2>3, <3>1, <4>1 DEF ScreenShown
    <3>2. CASE n >= 2
      <4>1. Top.routine \notin {"main", "bootsplash", "bootstart"} /\ stack'[2] = stack[2]
        BY <1>3, <1>4, <1>7, <2>3, <3>2, TopWhileBooting
      <4>2. CASE stack[2].routine = "bootsplash"
        BY <1>1, <2>3, <4>1, <4>2 DEF ScreenShown
      <4>3. CASE stack[2].at # "mounted"
        BY <1>1, <2>3, <4>1, <4>3 DEF ScreenShown
      <4>4. CASE Top.routine = "charset_prepare" /\ stack[n].routine = "bootstart" /\ stack[n].at = "prepared"
        BY <1>5, <4>4 DEF ScreenShown
      <4>. QED  BY <1>3, <2>1, <2>3, <3>2, <4>1, <4>2, <4>3, <4>4 DEF ScreenShown
    <3>. QED  BY <1>3, <3>1, <3>2
  <2>. QED  BY <2>2, <2>3
<1>11. FrameKinds'
  BY <1>1, <1>7 DEF FrameKinds
<1>. QED  BY <1>8, <1>9, <1>10, <1>11 DEF BootInv

(* The stack when the running routine has gone a step further              *)
LEMMA AtFrames ==
    ASSUME BankType, NEW step \in Steps, At(step)
    PROVE  /\ Depth' = Depth /\ Depth \in Nat /\ Depth >= 1
           /\ Top'.routine = Top.routine /\ Top'.at = step /\ stack'[Depth].at = step
           /\ \A j \in 1..Depth : stack'[j].routine = stack[j].routine
           /\ \A j \in 1..Depth : j # Depth => stack'[j] = stack[j]
<1>1. Depth \in Nat /\ Depth >= 1 /\ Depth \in 1..Depth /\ stack \in Seq(Frame) /\ stack[Depth] \in Frame
  BY DEF BankType, Depth
<1>2. stack' = [stack EXCEPT ![Depth] = [stack[Depth] EXCEPT !.at = step]]
  BY DEF At, Depth
<1>3. /\ stack'[Depth] = [stack[Depth] EXCEPT !.at = step] /\ Depth' = Depth
      /\ \A j \in 1..Depth : j # Depth => stack'[j] = stack[j]
  BY <1>1, <1>2 DEF Depth
<1>4. stack'[Depth].at = step /\ stack'[Depth].routine = stack[Depth].routine
  BY <1>1, <1>3 DEF Frame
<1>5. Top' = stack'[Depth] /\ Top = stack[Depth]
  BY <1>3 DEF Top, Depth
<1>. QED  BY <1>1, <1>3, <1>4, <1>5

(* Which routines are called does not depend on how far the last one is.   *)
LEMMA BootingNoted ==
    ASSUME BankType, Booting, NEW step \in Steps, At(step), running' = running
    PROVE  Booting'
<1>1. /\ Depth' = Depth /\ Depth \in Nat /\ Depth >= 1
      /\ \A j \in 1..Depth : stack'[j].routine = stack[j].routine
      /\ \A j \in 1..Depth : j # Depth => stack'[j] = stack[j]
  BY AtFrames
<1>. QED  BY <1>1 DEF Booting

(* A step that leaves the stack alone                                      *)
LEMMA BootingKept ==
    ASSUME Booting, UNCHANGED <<stack, running>>
    PROVE  Booting'
  BY DEF Booting, Depth

LEMMA ScreenKept ==
    ASSUME ScreenShown, UNCHANGED <<stack, running>>
    PROVE  ScreenShown'
  BY DEF ScreenShown, Depth, Top

LEMMA UnguardedKept ==
    ASSUME Unguarded, UNCHANGED <<stack, running, base>>
    PROVE  Unguarded'
<1>1. ~running' /\ base' = "low"
  BY DEF Unguarded
<1>2. Depth' = Depth /\ stack' = stack
  BY DEF Depth
<1>3. Depth >= 2 /\ stack[2].routine = "bootstart" =>
        \/ Depth = 2 /\ stack[2].at \in {"begin", "cleared"}
        \/ Depth = 3 /\ stack[3].routine = "charset_prepare" /\ stack[3].at = "begin"
  BY DEF Unguarded
<1>4. Depth' >= 2 /\ stack'[2].routine = "bootstart" =>
        \/ Depth' = 2 /\ stack'[2].at \in {"begin", "cleared"}
        \/ Depth' = 3 /\ stack'[3].routine = "charset_prepare" /\ stack'[3].at = "begin"
  BY <1>2, <1>3, Zenon
<1>. QED  BY <1>1, <1>4 DEF Unguarded

(* The routine that runs, alone on the stack or not, goes a step further.  *)
LEMMA NotedBoots ==
    ASSUME BankInv, BootInv, ClearScreen \/ EnableScreen \/ ShowSplash \/ HideSplash
    PROVE  BootInv'
<1>. USE DEF BankInv
<1>1. doing = "code" /\ UNCHANGED <<doing, request, vector, running>> /\ Booting /\ FrameKinds
  BY DEF ClearScreen, EnableScreen, ShowSplash, HideSplash, Runs, BootInv
<1>2. Top = stack[Depth]
  BY DEF Top, Depth
<1>3. CASE ClearScreen
  <2>1. Top.routine = "bootstart" /\ Top.at = "begin" /\ At("cleared") /\ low' = "screen" /\ base' = "low"
    BY <1>3 DEF ClearScreen, Runs
  <2>2. Booting'
    BY <1>1, <2>1, BootingNoted DEF Steps
  <2>3. /\ Top'.routine = "bootstart" /\ Top'.at = "cleared" /\ stack'[Depth].at = "cleared"
        /\ Depth' = Depth /\ Depth \in Nat /\ Depth >= 1
    BY <2>1, AtFrames DEF Steps
  <2>4. ScreenShown'
    BY <2>3 DEF ScreenShown
  <2>5. ~vector => Unguarded'
    <3>1. SUFFICES ASSUME ~vector PROVE Unguarded'
      OBVIOUS
    <3>2. ~running /\ Depth = 2
      BY <1>1, <2>1, <3>1, TopWhileBooting DEF BootInv, Guarded, Unguarded
    <3>. QED  BY <1>1, <2>1, <2>3, <3>2 DEF Unguarded
  <2>6. FrameKinds'
    BY <1>1, <2>1 DEF FrameKinds
  <2>. QED  BY <1>1, <2>2, <2>4, <2>5, <2>6 DEF BootInv, Guarded, WholeDriver
<1>4. CASE EnableScreen
  <2>1. Top.routine = "bootstart" /\ Top.at = "prepared" /\ At("drawn") /\ low' = low /\ base' = "high"
    BY <1>4 DEF EnableScreen, Runs
  <2>2. Booting'
    BY <1>1, <2>1, BootingNoted DEF Steps
  <2>3. Top'.routine = "bootstart" /\ Top'.at = "drawn"
    BY <2>1, AtFrames DEF Steps
  <2>4. ScreenShown'
    BY <2>3 DEF ScreenShown
  <2>5. vector
    <3>1. SUFFICES ASSUME ~vector PROVE FALSE
      OBVIOUS
    <3>2. Unguarded
      BY <1>1, <3>1 DEF BootInv, Guarded
    <3>3. ~running /\ Depth = 2
      BY <1>1, <2>1, <3>2, TopWhileBooting DEF Unguarded
    <3>. QED  BY <1>2, <2>1, <3>2, <3>3 DEF Unguarded
  <2>6. FrameKinds'
    BY <1>1, <2>1 DEF FrameKinds
  <2>. QED  BY <1>1, <2>2, <2>4, <2>5, <2>6 DEF BootInv, Guarded, WholeDriver
<1>5. CASE ShowSplash
  <2>1. Top.routine = "bootsplash" /\ At("shown") /\ low' = "screen" /\ base' = base
    BY <1>5 DEF ShowSplash, Runs
  <2>2. Booting'
    BY <1>1, <2>1, BootingNoted DEF Steps
  <2>3. /\ Top'.routine = "bootsplash" /\ Top'.at = "shown"
        /\ Depth' = Depth /\ Depth \in Nat /\ Depth >= 1 /\ stack'[Depth].routine = "bootsplash"
    BY <1>2, <2>1, AtFrames DEF Steps
  <2>4. ~running => Depth = 2
    BY <1>1, <2>1, TopWhileBooting
  <2>5. ScreenShown'
    BY <1>1, <2>3, <2>4 DEF ScreenShown
  <2>6. ~vector => Unguarded'
    BY <1>1, <2>1, <2>3, <2>4 DEF BootInv, Guarded, Unguarded
  <2>7. FrameKinds'
    BY <1>1, <2>1 DEF FrameKinds
  <2>. QED  BY <1>1, <2>2, <2>5, <2>6, <2>7 DEF BootInv, Guarded, WholeDriver
<1>6. CASE HideSplash
  <2>1. Top.routine = "bootsplash" /\ At("ended") /\ low' = "driver" /\ base' = base /\ running
    BY <1>6 DEF HideSplash, EndSplash, Runs
  <2>2. Booting'
    BY <1>1, <2>1 DEF Booting
  <2>3. vector
    BY <1>1, <2>1 DEF BootInv, Guarded, Unguarded
  <2>4. FrameKinds'
    BY <1>1, <2>1 DEF FrameKinds
  <2>. QED  BY <1>1, <2>1, <2>2, <2>3, <2>4 DEF BootInv, Guarded, WholeDriver
<1>. QED  BY <1>3, <1>4, <1>5, <1>6

LEMMA FontBoots ==
    ASSUME BankInv, BootInv, PrepareFont \/ TouchFont \/ FontDone
    PROVE  BootInv'
<1>. USE DEF BankInv
<1>1. /\ doing \in {"code", "font"} /\ doing' \in {"code", "font"}
      /\ UNCHANGED <<request, low, base, running>> /\ Booting /\ FrameKinds
  BY DEF PrepareFont, TouchFont, FontDone, FontPort, Runs, BootInv
<1>2. CASE PrepareFont
  <2>1. Top.routine = "charset_prepare" /\ At("copied") /\ vector' = TRUE
    BY <1>2 DEF PrepareFont, vectorAfter, Runs
  <2>2. Booting'
    BY <1>1, <2>1, BootingNoted DEF Steps
  <2>3. /\ Depth' = Depth /\ Depth \in Nat /\ Depth >= 1 /\ Top'.routine = "charset_prepare"
        /\ \A j \in 1..Depth : stack'[j].routine = stack[j].routine
        /\ \A j \in 1..Depth : j # Depth => stack'[j] = stack[j]
    BY <2>1, AtFrames DEF Steps
  <2>4. ScreenShown => ScreenShown'
    <3>1. SUFFICES ASSUME ScreenShown PROVE ScreenShown'
      OBVIOUS
    <3>2. CASE running
      <4>1. Depth >= 2 /\ stack[Depth - 1].routine = "bootstart" /\ stack[Depth - 1].at = "prepared"
        BY <2>1, <3>1, <3>2 DEF ScreenShown
      <4>2. stack'[Depth - 1] = stack[Depth - 1]
        BY <2>3, <4>1
      <4>. QED  BY <2>3, <4>1, <4>2 DEF ScreenShown
    <3>3. CASE ~running
      <4>1. Depth >= 3
        BY <1>1, <2>1, <2>3, <3>3, TopWhileBooting
      <4>2. stack'[2] = stack[2] /\ stack'[Depth - 1] = stack[Depth - 1]
        BY <2>3, <4>1
      <4>. QED  BY <1>1, <2>1, <2>3, <3>1, <3>3, <4>1, <4>2 DEF ScreenShown
    <3>. QED  BY <3>2, <3>3
  <2>5. FrameKinds'
    BY <1>1, <2>1 DEF FrameKinds
  <2>. QED  BY <1>1, <2>1, <2>2, <2>4, <2>5 DEF BootInv, Guarded, WholeDriver
<1>3. CASE TouchFont
  <2>1. /\ (doing = "code" /\ Top.routine \in FontUsers) \/ base = "high"
        /\ UNCHANGED <<stack, vector>>
    BY <1>3 DEF TouchFont, FontPort
  <2>2. vector
    <3>1. SUFFICES ASSUME ~vector PROVE FALSE
      OBVIOUS
    <3>2. doing # "gone"
      BY <1>1
    <3>3. Unguarded
      BY <3>1, <3>2 DEF BootInv, Guarded
    <3>. QED  BY <1>1, <2>1, <3>3, NoFontUnguarded DEF Unguarded
  <2>3. Booting' /\ (ScreenShown => ScreenShown')
    BY <1>1, <2>1, BootingKept, ScreenKept
  <2>4. FrameKinds'
    BY <1>1, <2>1 DEF FrameKinds
  <2>. QED  BY <1>1, <2>1, <2>2, <2>3, <2>4 DEF BootInv, Guarded, WholeDriver
<1>4. CASE FontDone
  <2>1. doing' = "code" /\ doing = "font" /\ vector /\ UNCHANGED <<stack, vector>>
    BY <1>4 DEF FontDone, BootInv, Guarded
  <2>2. Booting' /\ (ScreenShown => ScreenShown')
    BY <1>1, <2>1, BootingKept, ScreenKept
  <2>3. FrameKinds'
    BY <1>1, <2>1 DEF FrameKinds
  <2>. QED  BY <1>1, <2>1, <2>2, <2>3 DEF BootInv, Guarded, WholeDriver
<1>. QED  BY <1>2, <1>3, <1>4

LEMMA DriverBoots ==
    ASSUME BankInv, BootInv, CallDriver \/ UseChip \/ ChipDone \/ DriverDone
    PROVE  BootInv'
<1>. USE DEF BankInv
<1>1. /\ doing # "gone" /\ doing' \in {"code", "driver", "chip"}
      /\ UNCHANGED <<vector, base, running>> /\ Booting /\ FrameKinds
  BY DEF CallDriver, UseChip, ChipDone, DriverDone, BootInv
<1>2. CASE CallDriver
  <2>1. doing = "code" /\ doing' = "driver" /\ low' = low
    BY <1>2 DEF CallDriver
  <2>2. CASE Top.routine = "bootstart" /\ Top.at = "drawn" /\ request' = "init" /\ At("mounted")
    <3>1. Booting'
      BY <1>1, <2>2, BootingNoted DEF Steps
    <3>2. vector
      <4>1. SUFFICES ASSUME ~vector PROVE FALSE
        OBVIOUS
      <4>2. Unguarded
        BY <1>1, <4>1 DEF BootInv, Guarded
      <4>3. ~running /\ Depth = 2 /\ Top = stack[Depth]
        BY <1>1, <2>2, <4>2, TopWhileBooting DEF Unguarded, Top, Depth
      <4>. QED  BY <2>2, <4>2, <4>3 DEF Unguarded
    <3>3. FrameKinds'
      BY <1>1, <2>1 DEF FrameKinds
    <3>. QED  BY <1>1, <2>1, <2>2, <3>1, <3>2, <3>3 DEF BootInv, Guarded, WholeDriver
  <2>3. CASE /\ Top.routine \in Callers /\ (Top.routine = "bootstart" => Top.at = "mounted")
             /\ stack' = stack
    <3>1. low = "driver"
      <4>1. SUFFICES ASSUME low # "driver" PROVE FALSE
        OBVIOUS
      <4>2. ScreenShown
        BY <2>1, <4>1 DEF BootInv, WholeDriver
      <4>. QED  BY <1>1, <2>3, <4>2, NoDriverWhileShown DEF FrameKinds
    <3>2. Booting' /\ (Unguarded => Unguarded')
      BY <1>1, <2>3, BootingKept, UnguardedKept
    <3>3. FrameKinds'
      BY <1>1, <2>1 DEF FrameKinds
    <3>. QED  BY <1>1, <2>1, <3>1, <3>2, <3>3 DEF BootInv, Guarded, WholeDriver
  <2>. QED  BY <1>2, <2>2, <2>3 DEF CallDriver
<1>3. CASE UseChip \/ ChipDone \/ DriverDone
  <2>1. stack' = stack
    BY <1>3 DEF UseChip, ChipDone, DriverDone
  <2>2. Booting' /\ (Unguarded => Unguarded')
    BY <1>1, <2>1, BootingKept, UnguardedKept
  <2>3. low' # "driver" => doing' # "code" /\ request' = "init" /\ low' \in {"driver", "screen"}
    BY <1>1, <1>3 DEF UseChip, ChipDone, DriverDone, BootInv, WholeDriver, FrameKinds
  <2>4. low' \in {"driver", "screen"}
    BY <1>1, <1>3 DEF UseChip, ChipDone, DriverDone, FrameKinds
  <2>5. FrameKinds'
    BY <1>1, <2>4 DEF FrameKinds
  <2>. QED  BY <1>1, <2>2, <2>3, <2>5 DEF BootInv, Guarded, WholeDriver
<1>. QED  BY <1>2, <1>3

LEMMA GoneBoots ==
    ASSUME BankInv, BootInv, Leave \/ handoff
    PROVE  BootInv'
<1>1. doing = "code" /\ doing' = "gone" /\ UNCHANGED <<vector, base, running>> /\ port = KERNAL
  BY DEF Leave, handoff, Runs, BankInv, Switched
<1>2. port' = KERNAL
  BY <1>1, LeaveSelects DEF Leave, handoff, mapVars
<1>3. low' \in {low, "screen"}
  BY DEF Leave, handoff
<1>. QED  BY <1>1, <1>2, <1>3 DEF BootInv, FrameKinds, Guarded, WholeDriver

LEMMA NextBoots ==
    ASSUME BankInv, BootInv, [BankNext]_bankVars
    PROVE  BootInv'
<1>1. CASE UNCHANGED bankVars
  <2>1. UNCHANGED <<stack, doing, request, vector, low, base, running, port>>
    BY <1>1 DEF bankVars, mapVars
  <2>2. /\ Booting => Booting'
        /\ ScreenShown => ScreenShown'
        /\ Unguarded => Unguarded'
    BY <2>1, BootingKept, ScreenKept, UnguardedKept
  <2>. QED  BY <2>1, <2>2 DEF BootInv, FrameKinds, Guarded, WholeDriver
<1>. QED  BY <1>1, CallBoots, ReturnBoots, NotedBoots, FontBoots, DriverBoots, GoneBoots DEF BankNext

LEMMA BootInvHolds == BankSpec => [](BankInv /\ BootInv)
<1>1. BankInit => BankInv /\ BootInv
  BY BankInitInv, InitBoots
<1>2. BankInv /\ BootInv /\ [BankNext]_bankVars => (BankInv /\ BootInv)'
  BY BankStepInv, NextBoots
<1>. QED  BY <1>1, <1>2, PTL DEF BankSpec

(* charset.s:8: whatever is called, no NMI comes while the KERNAL is away  *)
(* and no vector is in the RAM beneath it.                                 *)
THEOREM NoInterruptIsLost == BankSpec => []InterruptsAreServed
<1>1. BankInv /\ BootInv => InterruptsAreServed
  BY DEF BankInv, BankType, Switched, BootInv, Guarded, InterruptsAreServed
<1>. QED  BY <1>1, BootInvHolds, PTL

(* boot.c:311, cart.c:256: the driver is called only while its routines    *)
(* and its state are where the default screen was.                         *)
THEOREM DriverAlwaysWhole == BankSpec => []DriverIsWhole
<1>1. BankInv /\ BootInv => DriverIsWhole
  BY DEF BootInv, WholeDriver, DriverIsWhole
<1>. QED  BY <1>1, BootInvHolds, PTL

-----------------------------------------------------------------------------
(***************************************************************************)
(* Whatever the drives, AUTOEXEC.BAT, the font files and the commands, the *)
(* font that is shown is whole, and the settings are in force when they    *)
(* should be.                                                              *)
(*                                                                         *)
(* Staging is sound because it begins from the font of the ROM: StagedFont *)
(* keeps that from bootstart() to the first entry, and what has been read  *)
(* from then on.  Settings are defaults until they are applied, also those *)
(* that a program started from AUTOEXEC.BAT takes with it: Defaults.       *)
(***************************************************************************)

(* A font that may be shown.                                               *)
SoundFont(font) ==
    font = Rom \/ \E v \in DOMAIN FontOf :
                    FontOf[v].sound /\ Ordered(FontOf[v]) /\ font = Patched(FontOf[v])

FontShown ==
    /\ shell # "off" => SoundFont(active)
    /\ session.valid => SoundFont(session.active)

(* The first n entries of a file, in order and applied to the ROM's font.  *)
Applied(font, file, n) ==
    /\ n \in 0..Len(file.entries)
    /\ \A k \in 1..n : file.entries[k].slot \in Slots /\ \A l \in 1..(k - 1) : file.entries[l].slot < file.entries[k].slot
    /\ font = [s \in Slots |-> font[s]]
    /\ \A s \in Slots : (\A k \in 1..n : file.entries[k].slot # s) => font[s] = "rom"
    /\ \A k \in 1..n : font[file.entries[k].slot] = file.entries[k].glyph

StagedFont ==
    /\ shell \in {"search", "batch"} => staged = Rom
    /\ shell = "charset" => envget(CHARSET) \in DOMAIN FontOf /\ Applied(staged, Font, cpi)

FontInv == FontShown /\ StagedFont

-----------------------------------------------------------------------------
LEMMA Indexed ==
    ASSUME NEW S, NEW e \in Seq(S)
    PROVE  e \in [1..Len(e) -> S] /\ Len(e) \in Nat
OBVIOUS

LEMMA RomApplied ==
    ASSUME NEW file, file.entries \in Seq([slot : Nat, glyph : Bitmaps])
    PROVE  Applied(Rom, file, 0)
BY DEF Applied, Rom

(* An entry that comes after the ones applied.                             *)
LEMMA OneGlyphMore ==
    ASSUME NEW file, file.entries \in Seq([slot : Nat, glyph : Bitmaps]),
           NEW font, NEW n, Applied(font, file, n), n < Len(file.entries),
           NEW e, e = file.entries[n + 1], e.slot \in Slots,
           \A k \in 1..n : file.entries[k].slot < e.slot
    PROVE  Applied([font EXCEPT ![e.slot] = e.glyph], file, n + 1)
<1> DEFINE next == [font EXCEPT ![e.slot] = e.glyph]
<1>1. n \in Nat /\ n + 1 \in 0..Len(file.entries) /\ 1..(n + 1) = 1..n \cup {n + 1}
  BY DEF Applied
<1>2. \A k \in 1..(n + 1) : file.entries[k].slot \in Nat
  <2>1. \A k \in 1..(n + 1) : file.entries[k] \in [slot : Nat, glyph : Bitmaps]
    <3>1. file.entries \in [1..Len(file.entries) -> [slot : Nat, glyph : Bitmaps]] /\ Len(file.entries) \in Nat
      BY Indexed
    <3>2. \A k \in 1..(n + 1) : k \in 1..Len(file.entries)
      BY <1>1, <3>1
    <3> QED  BY <3>1, <3>2
  <2> QED  BY <2>1
<1>3. \A k \in 1..n : file.entries[k].slot # e.slot
  BY <1>1, <1>2
<1>4. \A k \in 1..(n + 1) :
        file.entries[k].slot \in Slots /\ \A l \in 1..(k - 1) : file.entries[l].slot < file.entries[k].slot
  BY <1>1 DEF Applied
<1>5. next = [s \in Slots |-> next[s]] /\ DOMAIN font = Slots
  BY DEF Applied
<1>6. \A s \in Slots : next[s] = IF s = e.slot THEN e.glyph ELSE font[s]
  BY <1>5
<1>7. \A s \in Slots : (\A k \in 1..(n + 1) : file.entries[k].slot # s) => next[s] = "rom"
  BY <1>1, <1>6 DEF Applied
<1>8. \A k \in 1..(n + 1) : next[file.entries[k].slot] = file.entries[k].glyph
  BY <1>1, <1>3, <1>4, <1>6 DEF Applied
<1> QED  BY <1>1, <1>4, <1>5, <1>7, <1>8 DEF Applied

(* All of them: the font the file stands for.                              *)
LEMMA AllApplied ==
    ASSUME NEW file, file.entries \in Seq([slot : Nat, glyph : Bitmaps]),
           NEW font, Applied(font, file, Len(file.entries))
    PROVE  Ordered(file) /\ font = Patched(file)
<1>1. DOMAIN file.entries = 1..Len(file.entries)
  OBVIOUS
<1>2. Ordered(file)
  BY <1>1 DEF Applied, Ordered
<1>3. ASSUME NEW s \in Slots
      PROVE  font[s] = Patched(file)[s]
  <2> DEFINE at == {k \in DOMAIN file.entries : file.entries[k].slot = s}
  <2>1. CASE at = {}
    <3>1. Patched(file)[s] = "rom"
      BY <2>1 DEF Patched
    <3> QED  BY <1>1, <2>1, <3>1 DEF Applied
  <2>2. CASE at # {}
    <3>1. (CHOOSE k \in at : TRUE) \in at
      BY <2>2
    <3>2. Patched(file)[s] = file.entries[CHOOSE k \in at : TRUE].glyph
      BY <2>2 DEF Patched
    <3> HIDE DEF at
    <3>3. PICK k \in at : Patched(file)[s] = file.entries[k].glyph
      BY <3>1, <3>2
    <3>4. k \in 1..Len(file.entries) /\ file.entries[k].slot = s
      BY <1>1 DEF at
    <3> QED  BY <3>3, <3>4 DEF Applied
  <2> QED  BY <2>1, <2>2
<1>4. font = [s \in Slots |-> font[s]] /\ Patched(file) = [s \in Slots |-> Patched(file)[s]]
  BY DEF Applied, Patched
<1> QED  BY <1>2, <1>3, <1>4

-----------------------------------------------------------------------------
LEMMA FontStarts == StartInit => FontInv
BY DEF StartInit, FontInv, FontShown, StagedFont, NoSession

(* bootstart() shows the font of the ROM.                                  *)
LEMMA ResetFont ==
    ASSUME FontInv, NEW dev, bootstart(dev), UNCHANGED session \/ session' = NoSession
    PROVE  FontInv'
<1>1. active' = Rom /\ staged' = Rom /\ shell' \in {"search", "batch"}
  BY DEF bootstart, Reset, charset_prepare
<1>2. FontShown'
  BY <1>1 DEF FontInv, FontShown, SoundFont, NoSession, Rom
<1> QED  BY <1>1, <1>2 DEF FontInv, StagedFont, Rom

LEMMA PerformFont ==
    ASSUME FontInv, NEW command, Perform(command), shell \in {"batch", "prompt"}
    PROVE  FontInv'
<1>1. CASE command.op = "set" /\ UNCHANGED <<shell, staged, active, session>>
  BY <1>1 DEF FontInv, FontShown, StagedFont, SoundFont, Rom
<1>2. CASE bootstart(startdrive) /\ UNCHANGED session
  BY <1>2, ResetFont
<1>3. CASE RunProgram
  <2>1. SoundFont(active)
    BY DEF FontInv, FontShown
  <2>2. UNCHANGED <<staged, active>> /\ shell' \in {shell, "gone"} /\ session' \in {Saved, NoSession}
    BY <1>3 DEF RunProgram
  <2>3. FontShown'
    BY <2>1, <2>2 DEF FontShown, Saved, NoSession, SoundFont, Rom
  <2> QED  BY <2>2, <2>3 DEF FontInv, StagedFont, Rom
<1> QED  BY <1>1, <1>2, <1>3 DEF Perform

LEMMA FontStep == FontInv /\ [StartNext]_startVars => FontInv'
<1> SUFFICES ASSUME FontInv, [StartNext]_startVars PROVE FontInv'
  OBVIOUS
<1> USE DEF FontInv
<1>1. CASE PowerOn
  BY <1>1, ResetFont DEF PowerOn
<1>2. CASE BatchLine
  <2>1. Perform(lines[1]) /\ shell = "batch"
    BY <1>2 DEF BatchLine
  <2> QED  BY <2>1, PerformFont
<1>3. CASE PromptCommand
  <2>1. shell = "prompt" /\ \E command : Perform(command)
    BY <1>3 DEF PromptCommand
  <2> QED  BY <2>1, PerformFont
<1>4. CASE Search \/ StopBatch
  <2>1. shell \in {"search", "batch"} /\ shell' \in {"search", "batch"} /\ UNCHANGED <<staged, active, session>>
    BY <1>4 DEF Search, StopBatch
  <2> QED  BY <2>1 DEF FontShown, StagedFont, SoundFont, Rom
<1>5. CASE AfterBatch
  <2>1. shell = "batch" /\ cpi' = 0 /\ UNCHANGED <<staged, active, session, environment>>
    BY <1>5 DEF AfterBatch
  <2>2. shell' = "settings" \/ (shell' = "charset" /\ envget(CHARSET) \in DOMAIN FontOf)
    BY <1>5 DEF AfterBatch
  <2>3. FontShown'
    BY <2>1 DEF FontShown, SoundFont, Rom
  <2>4. StagedFont'
    <3>1. envget(CHARSET)' = envget(CHARSET) /\ Font' = Font
      BY <2>1 DEF envget, EntryOf, Entries, Terminator, Font
    <3>2. CASE shell' = "charset"
      <4>1. Font.entries \in Seq([slot : Nat, glyph : Bitmaps])
        BY <2>2, <3>2, StartupAssumption DEF Font
      <4>2. Applied(Rom, Font, 0)
        BY <4>1, RomApplied
      <4>3. staged' = Rom
        BY <2>1 DEF StagedFont
      <4> QED  BY <2>1, <2>2, <3>1, <3>2, <4>2, <4>3 DEF StagedFont
    <3>3. CASE shell' = "settings"
      BY <3>3 DEF StagedFont
    <3> QED  BY <2>2, <3>2, <3>3
  <2> QED  BY <2>3, <2>4
<1>6. CASE StageGlyph
  <2>1. shell = "charset" /\ UNCHANGED <<active, session, environment>>
    BY <1>6 DEF StageGlyph
  <2>2. FontShown'
    <3>1. FontShown /\ shell # "off"
      BY <2>1
    <3> QED  BY <2>1, <3>1 DEF FontShown, SoundFont, Rom
  <2>3. envget(CHARSET)' = envget(CHARSET) /\ Font' = Font
    BY <2>1 DEF envget, EntryOf, Entries, Terminator, Font
  <2>4. envget(CHARSET) \in DOMAIN FontOf /\ Applied(staged, Font, cpi)
    BY <2>1 DEF StagedFont
  <2>5. CASE shell' = "settings"
    BY <2>2, <2>5 DEF StagedFont
  <2>6. CASE shell' = shell
    <3> DEFINE entry == Font.entries[cpi + 1]
    <3>1. Font.entries \in Seq([slot : Nat, glyph : Bitmaps])
      BY <2>4, StartupAssumption DEF Font
    <3>2. /\ cpi < Len(Font.entries) /\ cpi' = cpi + 1
          /\ staged' = [staged EXCEPT ![entry.slot] = entry.glyph]
          /\ entry.slot \in Slots /\ \A k \in 1..cpi : Font.entries[k].slot < entry.slot
      BY <1>6, <2>1, <2>6 DEF StageGlyph
    <3>3. Applied([staged EXCEPT ![entry.slot] = entry.glyph], Font, cpi + 1)
      BY <2>4, <3>1, <3>2, OneGlyphMore
    <3>4. Applied(staged', Font', cpi')
      BY <2>3, <3>2, <3>3
    <3> QED  BY <2>1, <2>2, <2>3, <2>4, <2>6, <3>4 DEF StagedFont
  <2> QED  BY <1>6, <2>1, <2>5, <2>6 DEF StageGlyph
<1>7. CASE CommitCharset
  <2>1. shell = "charset" /\ shell' = "settings" /\ cpi = Len(Font.entries) /\ UNCHANGED session
    BY <1>7 DEF CommitCharset
  <2>2. envget(CHARSET) \in DOMAIN FontOf /\ Applied(staged, Font, Len(Font.entries))
    BY <2>1 DEF StagedFont
  <2>3. Font.entries \in Seq([slot : Nat, glyph : Bitmaps])
    BY <2>2, StartupAssumption DEF Font
  <2>4. Ordered(Font) /\ staged = Patched(Font)
    BY <2>2, <2>3, AllApplied
  <2>5. active' = IF Font.sound THEN staged ELSE active
    BY <1>7 DEF CommitCharset, Whole
  <2>6. Font = FontOf[envget(CHARSET)]
    BY DEF Font
  <2>7. SoundFont(active')
    <3>1. CASE Font.sound
      BY <2>2, <2>4, <2>5, <2>6, <3>1 DEF SoundFont
    <3>2. CASE ~Font.sound
      BY <2>1, <2>5, <3>2 DEF FontShown
    <3> QED  BY <3>1, <3>2
  <2>8. SoundFont(active)' /\ (session.valid => SoundFont(session.active))'
    BY <2>1, <2>7 DEF SoundFont, FontShown, Rom
  <2> QED  BY <2>1, <2>8 DEF FontShown, StagedFont
<1>8. CASE CharsetFails \/ ApplySettings
  <2>1. shell \in {"charset", "settings"} /\ shell' \in {"settings", "prompt"} /\ UNCHANGED <<active, session>>
    BY <1>8 DEF CharsetFails, ApplySettings
  <2>2. FontShown /\ shell # "off"
    BY <2>1
  <2> QED  BY <2>1, <2>2 DEF FontShown, StagedFont, SoundFont, Rom
<1>9. CASE Resume
  <2>1. shell' = "prompt" /\ UNCHANGED session
    BY <1>9 DEF Resume
  <2>2. (session.valid /\ active' = session.active) \/ active' = Rom
    BY <1>9 DEF Resume, charset_prepare
  <2>3. SoundFont(active')
    BY <2>2 DEF SoundFont, FontShown
  <2>4. (session.valid => SoundFont(session.active))'
    BY <2>1 DEF SoundFont, FontShown, Rom
  <2>5. SoundFont(active)'
    BY <2>3 DEF SoundFont, Rom
  <2> QED  BY <2>1, <2>4, <2>5 DEF FontShown, StagedFont
<1>10. CASE UNCHANGED startVars
  <2>1. UNCHANGED <<shell, staged, active, session, environment, cpi>>
    BY <1>10 DEF startVars
  <2>2. envget(CHARSET)' = envget(CHARSET) /\ Font' = Font
    BY <2>1 DEF envget, EntryOf, Entries, Terminator, Font
  <2>3. FontShown'
    BY <2>1 DEF FontShown, SoundFont, Rom
  <2>4. StagedFont'
    BY <2>1, <2>2 DEF StagedFont, Rom
  <2> QED  BY <2>3, <2>4
<1> HIDE DEF FontInv
<1>11. StartNext => FontInv'
  BY <1>1, <1>2, <1>3, <1>4, <1>5, <1>6, <1>7, <1>8, <1>9 DEF StartNext
<1> QED  BY <1>10, <1>11

(* What is shown is the font of the ROM or that of one file that was read  *)
(* to its end and found sound (startupcharset, boot.c): a file that was    *)
(* not, or a restart in the middle of one, leaves nothing behind.          *)
THEOREM FontAlwaysWhole == StartSpec => []FontIsWhole
<1>1. FontInv => FontIsWhole
  BY DEF FontInv, FontShown, SoundFont, FontIsWhole
<1> QED  BY <1>1, FontStarts, FontStep, PTL DEF StartSpec

-----------------------------------------------------------------------------
Default == prompttext = "default" /\ colours = Grey
Applies == /\ prompttext = IF Defined(PROMPT) THEN envget(PROMPT) ELSE "default"
           /\ colours = IF Defined(COLOR) /\ envget(COLOR) \in DOMAIN ColorOf THEN ColorOf[envget(COLOR)] ELSE Grey

(* Nothing of the settings is there before they are applied, in the shell  *)
(* and in what a program took with it.                                     *)
Defaults ==
    /\ shell \in {"search", "batch"} => ~envready
    /\ shell \in {"search", "batch", "charset", "settings"} => Default
    /\ shell \in {"charset", "settings"} => envready
    /\ ~envready => Default
    /\ ~envready /\ shell # "off" => active = Rom
    /\ session.valid /\ ~session.envready =>
         session.prompttext = "default" /\ session.colours = Grey /\ session.active = Rom

SettingsInv == Defaults /\ (fresh => shell = "prompt" /\ envready /\ Applies)

LEMMA SettingsStart == StartInit => SettingsInv
BY DEF StartInit, SettingsInv, Defaults, Default, NoSession

LEMMA ResetSettings ==
    ASSUME SettingsInv, NEW dev, bootstart(dev), UNCHANGED session \/ session' = NoSession, ~fresh'
    PROVE  SettingsInv'
BY DEF bootstart, Reset, charset_prepare, readyAtStart, SettingsInv, Defaults, Default, NoSession, Rom, Grey

LEMMA PerformSettings ==
    ASSUME SettingsInv, NEW command, Perform(command), shell \in {"batch", "prompt"}, ~fresh'
    PROVE  SettingsInv'
<1>1. CASE command.op = "set" /\ UNCHANGED <<shell, envready, prompttext, colours, active, session>>
  BY <1>1 DEF SettingsInv, Defaults, Default, Rom, Grey
<1>2. CASE bootstart(startdrive) /\ UNCHANGED session
  BY <1>2, ResetSettings
<1>3. CASE RunProgram
  BY <1>3 DEF RunProgram, Saved, NoSession, SettingsInv, Defaults, Default, Rom, Grey
<1> QED  BY <1>1, <1>2, <1>3 DEF Perform

LEMMA SettingsStep == SettingsInv /\ [StartNext]_startVars => SettingsInv'
<1> SUFFICES ASSUME SettingsInv, [StartNext]_startVars PROVE SettingsInv'
  OBVIOUS
<1>1. CASE PowerOn
  BY <1>1, ResetSettings DEF PowerOn
<1>2. CASE BatchLine
  <2>1. Perform(lines[1]) /\ shell = "batch" /\ ~fresh'
    BY <1>2 DEF BatchLine, SettingsInv
  <2> QED  BY <2>1, PerformSettings
<1>3. CASE PromptCommand
  <2>1. shell = "prompt" /\ ~fresh' /\ \E command : Perform(command)
    BY <1>3 DEF PromptCommand
  <2> QED  BY <2>1, PerformSettings
<1>4. CASE Search \/ StopBatch
  BY <1>4 DEF Search, StopBatch, SettingsInv, Defaults, Default, Rom, Grey
<1>5. CASE AfterBatch
  BY <1>5 DEF AfterBatch, SettingsInv, Defaults, Default, Rom, Grey
<1>6. CASE StageGlyph \/ CharsetFails
  BY <1>6 DEF StageGlyph, CharsetFails, SettingsInv, Defaults, Default, Rom, Grey
<1>7. CASE CommitCharset
  BY <1>7 DEF CommitCharset, SettingsInv, Defaults, Default, Rom, Grey
<1>8. CASE ApplySettings
  <2>1. Default /\ envready /\ envready' /\ shell' = "prompt"
    BY <1>8 DEF ApplySettings, SettingsInv, Defaults
  <2>2. UNCHANGED <<environment, session, active>>
    BY <1>8 DEF ApplySettings
  <2>3. Defaults'
    BY <2>1, <2>2 DEF SettingsInv, Defaults, Default, Rom, Grey
  <2>4. \A name : Defined(name)' = Defined(name) /\ envget(name)' = envget(name)
    BY <2>2 DEF Defined, envget, EntryOf, Entries, Terminator
  <2>5. Applies'
    BY <1>8, <2>1, <2>4 DEF ApplySettings, Applies, Default, Grey
  <2> QED  BY <2>1, <2>3, <2>5 DEF SettingsInv
<1>9. CASE Resume
  BY <1>9 DEF Resume, charset_prepare, SettingsInv, Defaults, Default, Rom, Grey
<1>10. CASE UNCHANGED startVars
  <2>1. UNCHANGED <<shell, envready, prompttext, colours, active, session, fresh, environment>>
    BY <1>10 DEF startVars
  <2>2. \A name : Defined(name)' = Defined(name) /\ envget(name)' = envget(name)
    BY <2>1 DEF Defined, envget, EntryOf, Entries, Terminator
  <2>3. Applies' = Applies
    BY <2>1, <2>2 DEF Applies, Grey
  <2> QED  BY <2>1, <2>3 DEF SettingsInv, Defaults, Default, Rom, Grey
<1>11. StartNext => SettingsInv'
  BY <1>1, <1>2, <1>3, <1>4, <1>5, <1>6, <1>7, <1>8, <1>9 DEF StartNext
<1> QED  BY <1>10, <1>11

(* The settings (main(), session_restore) are out of force while           *)
(* AUTOEXEC.BAT runs, and are in force, as the environment has them, at    *)
(* the prompt that follows.                                                *)
THEOREM SettingsAlwaysInForce == StartSpec => []SettingsInForce
<1>1. SettingsInv => SettingsInForce
  BY DEF SettingsInv, Defaults, Default, Applies, SettingsInForce
<1> QED  BY <1>1, SettingsStart, SettingsStep, PTL DEF StartSpec

-----------------------------------------------------------------------------
(***************************************************************************)
(* What the tape copier does to a device, for any tapes, any files that    *)
(* were there before, and any device that may fail at every request.       *)
(*                                                                         *)
(* The invariant says who knows about the file that is being written: a    *)
(* channel that the device still knows belongs to a file that the copier   *)
(* will clean up (opened), that file is the target, and the target was     *)
(* free when it was chosen.                                                *)
(***************************************************************************)

FileFields == {"data", "closed", "locked"}
ChannelFields == {"mode", "place", "data", "live", "bad"}

Shape ==
    /\ files = [p \in Places |-> files[p]]
    /\ old = [p \in Places |-> old[p]]
    /\ chan = [f \in Files |-> chan[f]]
    /\ DOMAIN chan[2] = ChannelFields

TargetWasFree == target \in Places /\ Dev(target) = device /\ old[target] = {}

(* Steps at which nothing has happened to the device yet. *)
Quiet == ~chan[2].live /\ ~opened /\ files = old

Flow ==
    /\ copier \in {"start", "header", "ask", "name"} => Quiet
    /\ copier = "load" /\ ~save => Quiet
    /\ copier \in {"name", "open", "write", "finish"} => save
    /\ copier \in {"open", "write"} => TargetWasFree
    /\ copier = "load" /\ save => TargetWasFree
    /\ copier \notin {"undo", "cleanup", "over"} => outcome = "none"
    /\ copier = "over" /\ opened => outcome = "cleanup error"

Ours(x) == DOMAIN x = FileFields /\ x.locked = FALSE

Ownership ==
    /\ chan[2].live => opened /\ chan[2].place = target
    /\ opened => TargetWasFree /\ \A x \in files[target] : Ours(x)
    /\ opened /\ device = Cart => files = old
    /\ unheard => device # Cart

Footprint ==
    /\ \A p \in Places : files[p] = old[p] \/ (p = target /\ TargetWasFree)
    /\ ~opened /\ ~unheard /\ outcome \notin {"saved", "cleanup error"} => files = old

CopierInv == Shape /\ Flow /\ Ownership /\ Footprint

(* The invariant is what the two properties need. *)
LEMMA CopierInvSuffices == CopierInv => OldFilesKept /\ NothingLeft
BY DEF CopierInv, Flow, Footprint, TargetWasFree, OldFilesKept, NothingLeft

(* The copier starts with a device nobody is writing to. *)
LEMMA CopierInvInit == TapeInit => CopierInv
<1> SUFFICES ASSUME TapeInit PROVE CopierInv
  OBVIOUS
<1>1. /\ chan = [f \in Files |-> Idle]
      /\ files \in [Places -> {{}, {New(<<>>)}}] /\ old = files
      /\ copier = "start" /\ opened = FALSE /\ outcome = "none" /\ unheard = FALSE
  BY DEF TapeInit, Powered
<1>2. chan[2] = Idle
  BY <1>1 DEF Files
<1>3. Shape
  BY <1>1, <1>2 DEF Shape, Idle, ChannelFields
<1>4. ~chan[2].live
  BY <1>2 DEF Idle
<1>5. Flow /\ Ownership /\ Footprint
  BY <1>1, <1>4 DEF Flow, Ownership, Footprint, Quiet
<1> QED
  BY <1>3, <1>5 DEF CopierInv

-----------------------------------------------------------------------------
(* Nothing the invariant speaks of changes when only the program's own     *)
(* bookkeeping does.                                                       *)
LEMMA BookkeepingKeeps ==
    ASSUME CopierInv, UNCHANGED <<files, chan, device, old, target, opened, unheard>>
    PROVE  /\ Shape' /\ Ownership'
           /\ TargetWasFree' = TargetWasFree /\ Quiet' = Quiet
           /\ \A p \in Places : files'[p] = old'[p] \/ (p = target' /\ TargetWasFree')
<1>1. Shape'
  BY DEF CopierInv, Shape
<1>2. TargetWasFree' = TargetWasFree /\ Quiet' = Quiet
  BY DEF TargetWasFree, Quiet
<1>3. Ownership'
  <2>1. (\A x \in files[target] : Ours(x))' <=> (\A x \in files[target] : Ours(x))
    BY DEF Ours
  <2> QED
    BY <2>1, <1>2 DEF CopierInv, Ownership
<1>4. \A p \in Places : files'[p] = old'[p] \/ (p = target' /\ TargetWasFree')
  BY <1>2 DEF CopierInv, Footprint
<1> QED
  BY <1>1, <1>2, <1>3, <1>4

(* Requests to the tape: they choose what follows, and touch no file.      *)
LEMMA TapeStepKeeps ==
    ASSUME CopierInv, StartDrive \/ Header \/ Ask \/ Load
    PROVE  CopierInv'
<1>1. UNCHANGED <<files, chan, device, old, target, opened, unheard>>
  BY DEF StartDrive, Header, Ask, Load, unused, commandVars, cacheVars
<1>2. copier \in {"start", "header", "ask", "load"} /\ outcome = "none"
  BY DEF CopierInv, Flow, StartDrive, Header, Ask, Load
<1>3. /\ TargetWasFree' = TargetWasFree /\ Quiet' = Quiet /\ Shape' /\ Ownership'
      /\ \A p \in Places : files'[p] = old'[p] \/ (p = target' /\ TargetWasFree')
  BY <1>1, BookkeepingKeeps
<1>4. outcome' \in {"none", "disk error", "read error", "cancelled", "end of tape", "unsupported",
                    "too large"}
  BY <1>2 DEF StartDrive, Header, Ask, Load, NoBlock, Then, Because
<1>5. Footprint'
  BY <1>1, <1>2, <1>3, <1>4 DEF CopierInv, Footprint
<1>6. \/ copier' = "cleanup"
      \/ /\ outcome' = "none"
         /\ \/ copier' \in {"header", "ask", "name"} /\ Quiet /\ (copier' = "name" => save')
            \/ copier' = "load" /\ ~save' /\ Quiet
            \/ copier' \in {"load", "open", "write"} /\ save' /\ TargetWasFree
  <2>1. CASE StartDrive
    BY <2>1, <1>2 DEF StartDrive, CopierInv, Flow, Then, Because
  <2>2. CASE Header
    <3>1. Quiet
      BY <2>2 DEF Header, CopierInv, Flow
    <3>2. \/ copier' = "cleanup"
          \/ save' = FALSE /\ copier' \in {"ask", "load"} /\ outcome' = "none"
      BY <2>2, <1>2 DEF Header, NoBlock, Then, Because
    <3> QED
      BY <3>1, <3>2
  <2>3. CASE Ask
    BY <2>3, <1>2 DEF Ask, CopierInv, Flow, Then, Because
  <2>4. CASE Load
    <3>1. IF save THEN TargetWasFree ELSE Quiet
      BY <2>4 DEF Load, CopierInv, Flow
    <3>2. \/ copier' = "cleanup"
          \/ /\ save' = save /\ outcome' = "none"
             /\ copier' \in IF save THEN {"open", "write"} ELSE {"load", "header"}
      BY <2>4, <1>2 DEF Load, NoBlock, Then, Because
    <3> QED
      BY <3>1, <3>2
  <2> QED
    BY <2>1, <2>2, <2>3, <2>4
<1>7. Flow'
  BY <1>3, <1>6 DEF Flow
<1> QED
  BY <1>3, <1>5, <1>7 DEF CopierInv

(* A name is taken only when the device has no such file.                  *)
LEMMA ChooseNameKeeps == CopierInv /\ ChooseName => CopierInv'
<1> SUFFICES ASSUME CopierInv, ChooseName PROVE CopierInv'
  OBVIOUS
<1>1. UNCHANGED <<files, chan, device, old, save, opened, unheard>>
  BY DEF ChooseName, unused, commandVars, cacheVars
<1>2. copier = "name" /\ Quiet /\ save /\ outcome = "none"
  BY DEF ChooseName, CopierInv, Flow
<1>3. Shape' /\ Quiet'
  BY <1>1, <1>2 DEF CopierInv, Shape, Quiet
<1>4. \/ copier' = "cleanup"
      \/ copier' = "name" /\ outcome' = "none"
      \/ copier' \in {"open", "load"} /\ outcome' = "none" /\ TargetWasFree'
  BY <1>1, <1>2 DEF ChooseName, Taken, Exists, Ready, Quiet, TargetWasFree, Then, Because
<1>5. Flow'
  BY <1>1, <1>2, <1>3, <1>4 DEF Flow
<1>6. Ownership'
  BY <1>1, <1>2, <1>3 DEF CopierInv, Ownership, Quiet
<1>7. Footprint'
  BY <1>3 DEF Footprint, Quiet
<1> QED
  BY <1>3, <1>5, <1>6, <1>7 DEF CopierInv

-----------------------------------------------------------------------------
(* The channel is a channel, whatever is put in its place.                 *)
LEMMA ChannelShape ==
    ASSUME CopierInv
    PROVE  /\ \A p, d : DOMAIN Writing(p, d) = ChannelFields
           /\ \A p, d : Writing(p, d).live /\ Writing(p, d).place = p
           /\ DOMAIN Idle = ChannelFields /\ Idle.live = FALSE
           /\ DOMAIN Lost(2) = ChannelFields
           /\ Lost(2).live = chan[2].live /\ Lost(2).place = chan[2].place
           /\ \A c : /\ DOMAIN Grown(2, c) = ChannelFields
                     /\ Grown(2, c).live = chan[2].live /\ Grown(2, c).place = chan[2].place
           /\ \A c : chan' = [chan EXCEPT ![2] = c] /\ DOMAIN c = ChannelFields =>
                chan'[2] = c /\ chan' = [f \in Files |-> chan'[f]]
<1>1. DOMAIN chan[2] = ChannelFields
  BY DEF CopierInv, Shape
<1>2. \A p, d : DOMAIN Writing(p, d) = ChannelFields /\ Writing(p, d).live /\ Writing(p, d).place = p
  BY DEF Writing, Reading, Idle, ChannelFields
<1>3. DOMAIN Idle = ChannelFields /\ Idle.live = FALSE
  BY DEF Idle, ChannelFields
<1>4. /\ DOMAIN Lost(2) = ChannelFields
      /\ Lost(2).live = chan[2].live /\ Lost(2).place = chan[2].place
  BY <1>1 DEF Lost, ChannelFields
<1>5. ASSUME NEW c
      PROVE  /\ DOMAIN Grown(2, c) = ChannelFields
             /\ Grown(2, c).live = chan[2].live /\ Grown(2, c).place = chan[2].place
  BY <1>1 DEF Grown, ChannelFields
<1>6. ASSUME NEW c, chan' = [chan EXCEPT ![2] = c], DOMAIN c = ChannelFields
      PROVE  chan'[2] = c /\ chan' = [f \in Files |-> chan'[f]]
  BY <1>6 DEF CopierInv, Shape, Files
<1> QED
  BY <1>2, <1>3, <1>4, <1>5, <1>6

(* What the device does to one file: the target's, which stays the         *)
(* copier's own, or is replaced by a new one.                              *)
LEMMA FileShape ==
    ASSUME CopierInv
    PROVE  /\ Ours(New(<<>>)) /\ Ours([New(<<>>) EXCEPT !.closed = FALSE])
           /\ \A x, c : Ours(x) => Ours([x EXCEPT !.data = Append(@, c)])
           /\ \A x : Ours(x) => Ours([x EXCEPT !.closed = TRUE])
           /\ \A s : files' = [files EXCEPT ![target] = s] =>
                /\ files' = [p \in Places |-> files'[p]]
                /\ target \in Places => files'[target] = s
                /\ \A p \in Places : p # target => files'[p] = files[p]
<1>1. Ours(New(<<>>)) /\ Ours([New(<<>>) EXCEPT !.closed = FALSE])
  BY DEF Ours, New, FileFields
<1>2. ASSUME NEW x, NEW c, Ours(x) PROVE Ours([x EXCEPT !.data = Append(@, c)])
  BY <1>2 DEF Ours, FileFields
<1>3. ASSUME NEW x, Ours(x) PROVE Ours([x EXCEPT !.closed = TRUE])
  BY <1>3 DEF Ours, FileFields
<1>4. ASSUME NEW s, files' = [files EXCEPT ![target] = s]
      PROVE  /\ files' = [p \in Places |-> files'[p]]
             /\ target \in Places => files'[target] = s
             /\ \A p \in Places : p # target => files'[p] = files[p]
  BY <1>4 DEF CopierInv, Shape
<1> QED
  BY <1>1, <1>2, <1>3, <1>4

LEMMA OpenOutputKeeps ==
    ASSUME CopierInv, OpenOutput
    PROVE  CopierInv'
<1>1. /\ copier = "open" /\ save /\ outcome = "none" /\ TargetWasFree
      /\ UNCHANGED <<device, old, save, target>>
  BY DEF OpenOutput, unused, CopierInv, Flow
<1>2. TargetWasFree'
  BY <1>1 DEF TargetWasFree
<1>3. CASE /\ MayWrite(target, FALSE)
           /\ files' = Created(target) /\ chan' = [chan EXCEPT ![2] = Writing(target, <<>>)]
           /\ opened' = TRUE /\ UNCHANGED unheard
           /\ Then(IF Current.kind = "data" THEN "load" ELSE "write")
  <2>1. /\ chan'[2].live /\ chan'[2].place = target
        /\ DOMAIN chan'[2] = ChannelFields /\ chan' = [f \in Files |-> chan'[f]]
    <3>1. chan'[2] = Writing(target, <<>>) /\ chan' = [f \in Files |-> chan'[f]]
      BY <1>3, ChannelShape
    <3> QED
      BY <3>1, ChannelShape
  <2>2. Flow'
    BY <1>1, <1>2, <1>3 DEF Flow, Then
  <2>3. CASE device = Cart
    <3>1. files' = files
      BY <1>1, <1>3, <2>3 DEF Created, TargetWasFree
    <3>2. files = old
      BY <1>1, <2>3 DEF CopierInv, Ownership, Footprint
    <3>3. files'[target'] = {}
      BY <1>1, <3>1, <3>2 DEF TargetWasFree
    <3>4. Shape' /\ Ownership'
      BY <1>1, <1>2, <1>3, <2>1, <2>3, <3>1, <3>2, <3>3 DEF CopierInv, Shape, Ownership
    <3>5. Footprint'
      BY <1>1, <1>3, <3>1, <3>2 DEF Footprint
    <3> QED
      BY <2>2, <3>4, <3>5 DEF CopierInv
  <2>4. CASE device # Cart
    <3>1. files' = [files EXCEPT ![target] = {[New(<<>>) EXCEPT !.closed = FALSE]}]
      BY <1>1, <1>3, <2>4 DEF Created, TargetWasFree
    <3>2. Shape'
      BY <1>1, <2>1, <3>1, FileShape DEF CopierInv, Shape
    <3>3. (\A x \in files[target] : Ours(x))'
      BY <1>1, <3>1, FileShape DEF TargetWasFree
    <3>4. Ownership'
      BY <1>1, <1>2, <1>3, <2>1, <2>4, <3>3 DEF CopierInv, Ownership
    <3>5. Footprint'
      BY <1>1, <1>2, <1>3, <3>1, FileShape DEF CopierInv, Footprint
    <3> QED
      BY <2>2, <3>2, <3>4, <3>5 DEF CopierInv
  <2> QED
    BY <2>3, <2>4
<1>4. CASE Because("write error") /\ UNCHANGED <<files, chan, opened, unheard>>
  <2>1. Shape' /\ Ownership'
    BY <1>1, <1>4, BookkeepingKeeps
  <2>2. Flow' /\ Footprint'
    BY <1>1, <1>2, <1>4 DEF CopierInv, Flow, Footprint, Because
  <2> QED
    BY <2>1, <2>2 DEF CopierInv
<1>5. CASE /\ device # Cart
           /\ files' = [files EXCEPT ![target] = {New(<<>>)}] /\ UNCHANGED chan
           /\ Because("write error")
           /\ \/ opened' = FullLeaves /\ UNCHANGED unheard
              \/ unheard' = TRUE /\ UNCHANGED opened
  <2>1. Flow'
    BY <1>5 DEF Flow, Because
  <2>2. Shape'
    BY <1>1, <1>5, FileShape DEF CopierInv, Shape
  <2>3. (\A x \in files[target] : Ours(x))'
    BY <1>1, <1>5, FileShape DEF TargetWasFree
  <2>4. opened' \/ unheard'
    BY <1>5 DEF FullLeaves
  <2>5. Ownership'
    <3>1. chan'[2].live => opened' /\ chan'[2].place = target'
      <4>1. opened => opened'
        BY <1>5 DEF FullLeaves
      <4>2. chan[2].live => opened /\ chan[2].place = target
        BY DEF CopierInv, Ownership
      <4> QED
        BY <1>1, <1>5, <4>1, <4>2
    <3>2. device' # Cart
      BY <1>1, <1>5
    <3> QED
      BY <1>2, <2>3, <3>1, <3>2 DEF Ownership
  <2>6. Footprint'
    BY <1>1, <1>2, <1>5, <2>4, FileShape DEF CopierInv, Footprint
  <2> QED
    BY <2>1, <2>2, <2>5, <2>6 DEF CopierInv
<1> QED
  BY <1>3, <1>4, <1>5 DEF OpenOutput

(* What goes through the channel reaches the target and no other file, and *)
(* on the cartridge none before the file is closed.                        *)
LEMMA ThroughTheChannel ==
    ASSUME CopierInv, UNCHANGED <<device, old, target>>,
           \/ chan[2].live /\ \E c : files' = Stored(2, c)
           \/ \E works \in BOOLEAN : files' = Closed(2, works)
    PROVE  /\ files' = [p \in Places |-> files'[p]]
           /\ device # Cart /\ opened => (\A x \in files[target] : Ours(x))'
           /\ \A p \in Places : files'[p] = files[p] \/ (p = target /\ TargetWasFree)
           /\ chan[2].live \/ files' = files
           /\ device = Cart => \/ files' = files
                               \/ ~chan[2].bad /\ \E works \in BOOLEAN : works /\ files' = Closed(2, works)
<1>1. files = [p \in Places |-> files[p]] /\ (opened => \A x \in files[target] : Ours(x))
  BY DEF CopierInv, Shape, Ownership
<1>2. CASE files' = files
  BY <1>1, <1>2
<1>3. CASE files' # files
  <2>1. chan[2].live
    BY <1>3 DEF Closed
  <2>2. opened /\ chan[2].place = target /\ TargetWasFree
    BY <2>1 DEF CopierInv, Ownership
  <2>3. target \in Places /\ Dev(target) = device
    BY <2>2 DEF TargetWasFree
  <2>4. CASE device = Cart
    <3>1. \E works \in BOOLEAN : files' = Closed(2, works)
      BY <1>3, <2>2, <2>3, <2>4 DEF Stored
    <3>2. PICK works \in BOOLEAN : files' = Closed(2, works)
      BY <3>1
    <3>3. works /\ ~chan[2].bad /\ files' = [files EXCEPT ![target] = {New(chan[2].data)}]
      BY <1>3, <2>1, <2>2, <2>3, <2>4, <3>2 DEF Closed
    <3>4. files' = [p \in Places |-> files'[p]] /\ \A p \in Places : p # target => files'[p] = files[p]
      BY <3>3, FileShape
    <3> QED
      BY <2>1, <2>2, <2>4, <3>2, <3>3, <3>4
  <2>5. CASE device # Cart
    <3>1. \E s : files' = [files EXCEPT ![target] = s] /\ \A x \in s : Ours(x)
      <4>1. CASE \E c : files' = Stored(2, c)
        <5>1. PICK c : files' = Stored(2, c)
          BY <4>1
        <5>2. files' = [files EXCEPT ![target] = {[x EXCEPT !.data = Append(@, c)] : x \in files[target]}]
          BY <2>2, <2>3, <2>5, <5>1 DEF Stored
        <5>3. \A x \in {[x EXCEPT !.data = Append(@, c)] : x \in files[target]} : Ours(x)
          <6>1. \A y \in files[target] : Ours([y EXCEPT !.data = Append(@, c)])
            BY <1>1, <2>2, FileShape
          <6> QED
            BY <6>1, Zenon
        <5> QED
          BY <5>2, <5>3
      <4>2. CASE \E works \in BOOLEAN : files' = Closed(2, works)
        <5>1. PICK works \in BOOLEAN : files' = Closed(2, works)
          BY <4>2
        <5>2. files' = [files EXCEPT ![target] = {[x EXCEPT !.closed = TRUE] : x \in files[target]}]
          BY <1>3, <2>1, <2>2, <2>3, <2>5, <5>1 DEF Closed
        <5>3. \A x \in {[x EXCEPT !.closed = TRUE] : x \in files[target]} : Ours(x)
          BY <1>1, <2>2, FileShape
        <5> QED
          BY <5>2, <5>3
      <4> QED
        BY <4>1, <4>2
    <3>2. PICK s : files' = [files EXCEPT ![target] = s] /\ \A x \in s : Ours(x)
      BY <3>1
    <3>3. /\ files' = [p \in Places |-> files'[p]] /\ files'[target] = s
          /\ \A p \in Places : p # target => files'[p] = files[p]
      BY <2>3, <3>2, FileShape
    <3> QED
      BY <2>1, <2>2, <2>5, <3>2, <3>3
  <2> QED
    BY <2>4, <2>5
<1> QED
  BY <1>2, <1>3

LEMMA WriteKeeps ==
    ASSUME CopierInv, Write
    PROVE  CopierInv'
<1>1. /\ copier = "write" /\ save /\ outcome = "none" /\ TargetWasFree
      /\ UNCHANGED <<device, old, save, target, opened, unheard>>
  BY DEF Write, unused, CopierInv, Flow
<1>2. TargetWasFree'
  BY <1>1 DEF TargetWasFree
<1>3. files' = files \/ (chan[2].live /\ files' = Stored(2, Head(left)))
  BY DEF Write, CanWrite
<1>4. /\ files' = [p \in Places |-> files'[p]]
      /\ device = Cart => files' = files
      /\ opened => (\A x \in files[target] : Ours(x))'
      /\ \A p \in Places : files'[p] = files[p] \/ p = target
      /\ chan[2].live \/ files' = files
  <2>1. CASE files' = files
    BY <1>1, <2>1 DEF CopierInv, Shape, Ownership
  <2>2. CASE chan[2].live /\ files' = Stored(2, Head(left))
    <3>1. chan[2].place = target
      BY <2>2 DEF CopierInv, Ownership
    <3>2. device = Cart => files' = files
      BY <1>1, <2>2, <3>1 DEF Stored, TargetWasFree
    <3>3. opened => (\A x \in files[target] : Ours(x))'
      BY <1>1, <2>2, <3>2, ThroughTheChannel DEF CopierInv, Ownership
    <3> QED
      BY <1>1, <2>2, <3>2, <3>3, ThroughTheChannel
  <2> QED
    BY <1>3, <2>1, <2>2
<1>5. /\ chan' = [f \in Files |-> chan'[f]] /\ DOMAIN chan'[2] = ChannelFields
      /\ chan'[2].live = chan[2].live /\ chan'[2].place = chan[2].place
  <2>1. CASE chan' = [chan EXCEPT ![2] = Grown(2, Head(left))]
    <3>1. chan'[2] = Grown(2, Head(left)) /\ chan' = [f \in Files |-> chan'[f]]
      BY <2>1, ChannelShape
    <3> QED
      BY <3>1, ChannelShape
  <2>2. CASE chan' = [chan EXCEPT ![2] = Lost(2)]
    <3>1. chan'[2] = Lost(2) /\ chan' = [f \in Files |-> chan'[f]]
      BY <2>2, ChannelShape
    <3> QED
      BY <3>1, ChannelShape
  <2> QED
    BY <2>1, <2>2 DEF Write
<1>6. \/ copier' = "cleanup" /\ outcome' \in {"cancelled", "write error"}
      \/ copier' \in {"write", "load", "finish"} /\ outcome' = "none"
  BY <1>1 DEF Write, Written, Then, Because
<1>7. Shape'
  BY <1>1, <1>4, <1>5 DEF CopierInv, Shape
<1>8. Flow'
  BY <1>1, <1>2, <1>6 DEF Flow
<1>9. Ownership'
  BY <1>1, <1>2, <1>4, <1>5 DEF CopierInv, Ownership
<1>10. Footprint'
  <2>1. ~opened => files' = files
    BY <1>4 DEF CopierInv, Ownership
  <2> QED
    BY <1>1, <1>2, <1>4, <2>1 DEF CopierInv, Footprint
<1> QED
  BY <1>7, <1>8, <1>9, <1>10 DEF CopierInv

(* A file is finished when the device said so; otherwise it is still the   *)
(* copier's to clean up.                                                   *)
LEMMA FinishOutputKeeps ==
    ASSUME CopierInv, FinishOutput
    PROVE  CopierInv'
<1>1. /\ copier = "finish" /\ save /\ outcome = "none"
      /\ UNCHANGED <<device, old, save, target, unheard>>
  BY DEF FinishOutput, unused, CopierInv, Flow
<1>2. TargetWasFree' = TargetWasFree
  BY <1>1 DEF TargetWasFree
<1>3. PICK works \in BOOLEAN :
        /\ files' = Closed(2, works)
        /\ \/ ~Failed(works) /\ opened' = FALSE /\ Because("saved")
           \/ /\ Failed(works) \/ (Troubles /\ device # Cart)
              /\ copier' = "undo" /\ outcome' = "write error" /\ UNCHANGED opened
  BY ChannelsAssumption DEF FinishOutput
<1>4. chan'[2].live = FALSE /\ DOMAIN chan'[2] = ChannelFields /\ chan' = [f \in Files |-> chan'[f]]
  <2>1. chan'[2] = Idle /\ chan' = [f \in Files |-> chan'[f]]
    BY ChannelShape DEF FinishOutput
  <2> QED
    BY <2>1, ChannelShape
<1>5. /\ files' = [p \in Places |-> files'[p]]
      /\ device # Cart /\ opened => (\A x \in files[target] : Ours(x))'
      /\ \A p \in Places : files'[p] = files[p] \/ (p = target /\ TargetWasFree)
      /\ chan[2].live \/ files' = files
  BY <1>1, <1>3, ThroughTheChannel
<1>6. Shape'
  BY <1>1, <1>4, <1>5 DEF CopierInv, Shape
<1>7. Flow'
  BY <1>3 DEF Flow, Because
<1>8. \A p \in Places : files'[p] = old'[p] \/ (p = target' /\ TargetWasFree')
  BY <1>1, <1>2, <1>5 DEF CopierInv, Footprint
<1>9. CASE ~Failed(works) /\ opened' = FALSE /\ Because("saved")
  <2>1. Ownership' /\ Footprint'
    BY <1>1, <1>4, <1>8, <1>9 DEF CopierInv, Ownership, Footprint, Because
  <2> QED
    BY <1>6, <1>7, <2>1 DEF CopierInv
<1>10. CASE /\ Failed(works) \/ (Troubles /\ device # Cart)
            /\ copier' = "undo" /\ outcome' = "write error" /\ UNCHANGED opened
  <2>1. opened /\ device = Cart => files' = files
    <3>1. ASSUME opened, device = Cart PROVE files' = files
      <4>1. Failed(works)
        BY <1>10, <3>1
      <4>2. CASE chan[2].live
        <5>1. Dev(chan[2].place) = Cart
          BY <3>1, <4>2 DEF CopierInv, Ownership, TargetWasFree
        <5> QED
          BY <1>3, <4>1, <5>1 DEF Failed, Closed
      <4> QED
        BY <1>5, <4>2
    <3> QED
      BY <3>1
  <2>2. ~opened => files' = files
    BY <1>5 DEF CopierInv, Ownership
  <2>3. opened' => (\A x \in files[target] : Ours(x))'
    BY <1>1, <1>5, <1>10, <2>1 DEF CopierInv, Ownership
  <2>4. Ownership'
    BY <1>1, <1>2, <1>4, <1>10, <2>1, <2>3 DEF CopierInv, Ownership
  <2>5. Footprint'
    BY <1>1, <1>8, <1>10, <2>2 DEF CopierInv, Footprint
  <2> QED
    BY <1>6, <1>7, <2>4, <2>5 DEF CopierInv
<1> QED
  BY <1>3, <1>9, <1>10

(* What is removed is the copier's own file: it is not locked, and no      *)
(* other was in its place.                                                 *)
LEMMA RemovedIsOld ==
    ASSUME CopierInv, opened, files' = Without(files, {target}), UNCHANGED old
    PROVE  files' = old'
<1>1. /\ files = [p \in Places |-> files[p]] /\ old = [p \in Places |-> old[p]]
      /\ TargetWasFree /\ \A x \in files[target] : Ours(x)
      /\ \A p \in Places : p # target => files[p] = old[p]
  BY DEF CopierInv, Shape, Ownership, Footprint
<1>2. files' = [p \in Places |-> {x \in files[p] : p \in {target} => x.locked}]
  BY DEF Without
<1>3. files'[target] = old[target]
  BY <1>1, <1>2 DEF Ours, TargetWasFree
<1>4. ASSUME NEW p \in Places, p # target PROVE files'[p] = old[p]
  BY <1>1, <1>2, <1>4
<1> QED
  BY <1>1, <1>2, <1>3, <1>4

LEMMA CleanupKeeps ==
    ASSUME CopierInv, Cleanup
    PROVE  CopierInv'
<1>1. /\ UNCHANGED <<device, old, save, target, unheard>>
      /\ \/ copier = "undo" /\ Discard("cleanup") /\ copier' = "cleanup"
         \/ copier = "cleanup" /\ Discard("over") /\ copier' = "over"
  BY DEF Cleanup, Discard, unused
<1>2. TargetWasFree' = TargetWasFree
  BY <1>1 DEF TargetWasFree
<1>3. \/ ~opened /\ UNCHANGED <<files, chan, opened, outcome>>
      \/ /\ opened /\ chan' = [chan EXCEPT ![2] = Idle]
         /\ \/ /\ device = Cart /\ UNCHANGED files /\ opened' = FALSE
               /\ UNCHANGED outcome \/ outcome' = "cleanup error"
            \/ /\ device # Cart /\ files' = Without(files, {target}) /\ opened' = FALSE
               /\ UNCHANGED outcome \/ outcome' = "cleanup error"
            \/ /\ device # Cart /\ files' = Closed(2, TRUE)
               /\ outcome' = "cleanup error"
  BY <1>1 DEF Discard
<1>4. CASE ~opened /\ UNCHANGED <<files, chan, opened, outcome>>
  <2>1. Shape' /\ Ownership' /\ \A p \in Places : files'[p] = old'[p] \/ (p = target' /\ TargetWasFree')
    BY <1>1, <1>4, BookkeepingKeeps
  <2>2. Flow' /\ Footprint'
    BY <1>1, <1>4, <2>1 DEF CopierInv, Flow, Footprint
  <2> QED
    BY <2>1, <2>2 DEF CopierInv
<1>5. CASE opened /\ chan' = [chan EXCEPT ![2] = Idle]
  <2>1. chan'[2].live = FALSE /\ DOMAIN chan'[2] = ChannelFields /\ chan' = [f \in Files |-> chan'[f]]
    <3>1. chan'[2] = Idle /\ chan' = [f \in Files |-> chan'[f]]
      BY <1>5, ChannelShape
    <3> QED
      BY <3>1, ChannelShape
  <2>2. Flow'
    BY <1>1, <1>3, <1>5 DEF Flow
  <2>3. CASE files' = old' /\ opened' = FALSE
    <3>1. Shape' /\ Ownership' /\ Footprint'
      BY <1>1, <2>1, <2>3 DEF CopierInv, Shape, Ownership, Footprint
    <3> QED
      BY <2>2, <3>1 DEF CopierInv
  <2>4. CASE /\ device # Cart /\ files' = Closed(2, TRUE)
             /\ outcome' = "cleanup error"
    <3>1. /\ files' = [p \in Places |-> files'[p]]
          /\ (\A x \in files[target] : Ours(x))'
          /\ \A p \in Places : files'[p] = files[p] \/ (p = target /\ TargetWasFree)
      BY <1>1, <1>5, <2>4, ThroughTheChannel
    <3>2. Shape' /\ Ownership'
      BY <1>1, <1>2, <1>5, <2>1, <2>4, <3>1 DEF CopierInv, Shape, Ownership
    <3>3. Footprint'
      BY <1>1, <1>2, <2>4, <3>1 DEF CopierInv, Footprint
    <3> QED
      BY <2>2, <3>2, <3>3 DEF CopierInv
  <2>5. device = Cart => files = old
    BY <1>5 DEF CopierInv, Ownership
  <2>6. files' = Without(files, {target}) => files' = old'
    BY <1>1, <1>5, RemovedIsOld
  <2> QED
    BY <1>1, <1>3, <1>5, <2>3, <2>4, <2>5, <2>6
<1> QED
  BY <1>3, <1>4, <1>5

-----------------------------------------------------------------------------
(* CopierInv is inductive.                                                 *)
THEOREM CopierInvHolds == TapeSpec => []CopierInv
<1>1. ASSUME CopierInv, TapeNext PROVE CopierInv'
  <2>1. CASE StartDrive \/ Header \/ Ask \/ Load
    BY <1>1, <2>1, TapeStepKeeps
  <2>2. CASE ChooseName
    BY <1>1, <2>2, ChooseNameKeeps
  <2>3. CASE OpenOutput
    BY <1>1, <2>3, OpenOutputKeeps
  <2>4. CASE Write
    BY <1>1, <2>4, WriteKeeps
  <2>5. CASE FinishOutput
    BY <1>1, <2>5, FinishOutputKeeps
  <2>6. CASE Cleanup
    BY <1>1, <2>6, CleanupKeeps
  <2> QED
    BY <1>1, <2>1, <2>2, <2>3, <2>4, <2>5, <2>6 DEF TapeNext
<1>2. ASSUME CopierInv, UNCHANGED tapeVars PROVE CopierInv'
  <2>1. UNCHANGED <<files, chan, device, old, target, opened, unheard, copier, save, outcome>>
    BY <1>2 DEF tapeVars, channelVars
  <2>2. /\ Shape' /\ Ownership' /\ TargetWasFree' = TargetWasFree /\ Quiet' = Quiet
        /\ \A p \in Places : files'[p] = old'[p] \/ (p = target' /\ TargetWasFree')
    BY <1>2, <2>1, BookkeepingKeeps
  <2>3. Flow' /\ Footprint'
    BY <1>2, <2>1, <2>2 DEF CopierInv, Flow, Footprint
  <2> QED
    BY <2>2, <2>3 DEF CopierInv
<1> QED
  BY CopierInvInit, <1>1, <1>2, PTL DEF TapeSpec

(* tape.c:201, 279: whatever goes wrong, and in whatever the device does   *)
(* about it, a file that was there before the copier came is as it was.    *)
THEOREM OldFilesStay == TapeSpec => []OldFilesKept
<1>1. CopierInv => OldFilesKept
  BY CopierInvSuffices
<1> QED
  BY <1>1, CopierInvHolds, PTL

(* tape.c:339: a transfer that did not end well has left the device as it  *)
(* was, or says that it could not clean up.  The one exception is a drive  *)
(* that creates the file and whose answer never arrives (unheard).         *)
THEOREM FailureLeavesNothing == TapeSpec => []NothingLeft
<1>1. CopierInv => NothingLeft
  BY CopierInvSuffices
<1> QED
  BY <1>1, CopierInvHolds, PTL
-----------------------------------------------------------------------------
(***************************************************************************)
(* A file that is called saved is whole.  The second invariant follows the *)
(* blocks from the tape to the device: where the head is, what has gone    *)
(* through the channel, and, as long as no write was lost, that this is    *)
(* what stands in the file on a drive, or waits for its commit on the      *)
(* cartridge.                                                              *)
(***************************************************************************)
Wanted == Current.data

OnTape ==
    /\ tape \in Tapes
    /\ copier \in {"start", "header", "ask", "name"} => head[2] = 1
    /\ copier = "open" /\ Current.kind = "data" => head[2] = 1
    /\ copier \in {"ask", "name", "load", "open", "write", "finish"} =>
         /\ head[1] \in DOMAIN tape /\ Current.kind \in {"program", "data"}
         /\ head[2] \in 1..Len(Wanted)

Sending ==
    \/ copier \in {"write", "finish"}
    \/ copier = "load" /\ save /\ Current.kind = "data"

SendingWell == Sending /\ ~chan[2].bad

Holds(data) == \E x : files[target] = {x} /\ Ours(x) /\ x.data = data

Progress ==
    /\ copier = "open" /\ Current.kind = "program" => left = Wanted
    /\ Sending => chan[2].live
    /\ SendingWell /\ device # Cart => Holds(chan[2].data)
    /\ SendingWell /\ copier = "load" => chan[2].data = SubSeq(Wanted, 1, head[2] - 1)
    /\ SendingWell /\ copier = "write" /\ Current.kind = "data" =>
         chan[2].data = SubSeq(Wanted, 1, head[2] - 1) /\ left = <<Wanted[head[2]]>>
    /\ SendingWell /\ copier = "write" /\ Current.kind = "program" =>
         /\ chan[2].data \in Seq(Chunks) /\ left \in Seq(Chunks) /\ left # <<>>
         /\ chan[2].data \o left = Wanted
    /\ SendingWell /\ copier = "finish" => chan[2].data = Wanted

SavedSoFar ==
    outcome = "saved" =>
      copier \in {"cleanup", "over"} /\ ~opened /\ Contents(files, target) = {Wanted}

TransferInv == CopierInv /\ OnTape /\ Progress /\ SavedSoFar

(* The parts of a program, and the blocks of a file, one after the other.  *)
LEMMA OneByteMore ==
    ASSUME NEW S, NEW s \in Seq(S), NEW l \in Seq(S), l # <<>>
    PROVE  /\ Append(s, Head(l)) \in Seq(S) /\ Tail(l) \in Seq(S)
           /\ Append(s, Head(l)) \o Tail(l) = s \o l
           /\ Len(l) = 1 => Append(s, Head(l)) = s \o l
           /\ Len(l) > 1 => Tail(l) # <<>>
<1>1. Head(l) \in S /\ Tail(l) \in Seq(S) /\ Len(Tail(l)) = Len(l) - 1 /\ Len(l) \in Nat /\ Len(l) >= 1
  OBVIOUS
<1>2. Append(s, Head(l)) \in Seq(S)
  BY <1>1
<1>3. Append(s, Head(l)) \o Tail(l) = s \o l
  <2>1. /\ Append(s, Head(l)) \o Tail(l) \in Seq(S) /\ s \o l \in Seq(S)
        /\ Len(Append(s, Head(l)) \o Tail(l)) = Len(s) + Len(l) /\ Len(s \o l) = Len(s) + Len(l)
    BY <1>1, <1>2
  <2>2. ASSUME NEW i \in 1..Len(s) + Len(l)
        PROVE  (Append(s, Head(l)) \o Tail(l))[i] = (s \o l)[i]
    <3>1. CASE i <= Len(s)
      BY <1>1, <1>2, <3>1
    <3>2. CASE i = Len(s) + 1
      BY <1>1, <1>2, <3>2
    <3>3. CASE i > Len(s) + 1
      BY <1>1, <1>2, <3>3
    <3> QED
      BY <3>1, <3>2, <3>3
  <2> QED
    BY <2>1, <2>2
<1>4. Len(l) = 1 => Append(s, Head(l)) = s \o l
  <2>1. SUFFICES ASSUME Len(l) = 1 PROVE Append(s, Head(l)) = s \o l
    OBVIOUS
  <2>2. s \o l \in Seq(S) /\ Len(s \o l) = Len(s) + 1
    <3>1. s \o l \in Seq(S) /\ Len(s \o l) = Len(s) + Len(l)
      OBVIOUS
    <3> QED
      BY <2>1, <3>1
  <2>4. Len(Append(s, Head(l))) = Len(s) + 1
    BY <1>1
  <2>3. \A i \in 1..Len(s) + 1 : Append(s, Head(l))[i] = (s \o l)[i]
    BY <1>1, <2>1
  <2> QED
    BY <1>2, <2>2, <2>3, <2>4
<1>5. Len(l) > 1 => Tail(l) # <<>>
  <2>1. Len(<<>>) # Len(Tail(l)) => Tail(l) # <<>>
    OBVIOUS
  <2>2. Len(<<>>) = 0
    BY EmptySeq
  <2>3. Len(l) > 1 => Len(Tail(l)) # 0
    BY <1>1
  <2> QED
    BY <2>1, <2>2, <2>3
<1> QED
  BY <1>1, <1>2, <1>3, <1>4, <1>5

LEMMA NextTapeBlock ==
    ASSUME NEW S, NEW d \in Seq(S), NEW k \in 1..Len(d)
    PROVE  Append(SubSeq(d, 1, k - 1), d[k]) = SubSeq(d, 1, k)
<1>1. /\ SubSeq(d, 1, k - 1) \in Seq(S) /\ Len(SubSeq(d, 1, k - 1)) = k - 1
      /\ \A i \in 1..k - 1 : SubSeq(d, 1, k - 1)[i] = d[i]
      /\ SubSeq(d, 1, k) \in Seq(S) /\ Len(SubSeq(d, 1, k)) = k
      /\ \A i \in 1..k : SubSeq(d, 1, k)[i] = d[i]
  OBVIOUS
<1>2. d[k] \in S /\ Append(SubSeq(d, 1, k - 1), d[k]) \in Seq(S)
  BY <1>1
<1>3. Len(Append(SubSeq(d, 1, k - 1), d[k])) = k
  BY <1>1, <1>2
<1>4. \A i \in 1..k : Append(SubSeq(d, 1, k - 1), d[k])[i] = d[i]
  BY <1>1, <1>2
<1> QED
  BY <1>1, <1>2, <1>3, <1>4

LEMMA WholeFile ==
    ASSUME NEW S, NEW d \in Seq(S)
    PROVE  SubSeq(d, 1, Len(d)) = d /\ SubSeq(d, 1, 0) = <<>> /\ <<>> \o d = d
<1>1. /\ SubSeq(d, 1, Len(d)) \in Seq(S) /\ Len(SubSeq(d, 1, Len(d))) = Len(d)
      /\ \A i \in 1..Len(d) : SubSeq(d, 1, Len(d))[i] = d[i]
  OBVIOUS
<1>2. SubSeq(d, 1, Len(d)) = d
  BY <1>1
<1>3. SubSeq(d, 1, 0) = <<>>
  OBVIOUS
<1>4. /\ <<>> \o d \in Seq(S) /\ Len(<<>> \o d) = Len(d)
      /\ \A i \in 1..Len(d) : (<<>> \o d)[i] = d[i]
  OBVIOUS
<1> QED
  BY <1>2, <1>3, <1>4

(* Every tape has files, and every file at least one block. *)
LEMMA WantedIsData ==
    ASSUME OnTape, head[1] \in DOMAIN tape
    PROVE  Wanted \in Seq(Chunks) /\ Len(Wanted) \in Nat /\ Len(Wanted) >= 1
<1>1. Wanted \in Seq(Chunks) \ {<<>>}
  BY TapeAssumption DEF OnTape, Current, Wanted
<1> QED
  BY <1>1

(* Steps that do not touch the channel, and no more than move the head.    *)
LEMMA TapeStepTransfers ==
    ASSUME TransferInv, CopierInv', StartDrive \/ Header \/ Ask \/ ChooseName
    PROVE  TransferInv'
<1>1. UNCHANGED <<files, chan, device, tape, head, left, opened>>
  BY DEF StartDrive, Header, Ask, ChooseName, unused, commandVars, cacheVars
<1>2. copier \in {"start", "header", "ask", "name"} /\ outcome = "none" /\ head[2] = 1
  BY DEF TransferInv, CopierInv, Flow, StartDrive, Header, Ask, ChooseName, OnTape
<1>3. Current' = Current /\ Wanted' = Wanted
  BY <1>1 DEF Current, Wanted
<1>4. outcome' # "saved"
  BY <1>2 DEF StartDrive, Header, Ask, ChooseName, NoBlock, Then, Because
<1>5. CASE StartDrive
  <2>1. copier' \in {"header", "cleanup"}
    BY <1>5 DEF StartDrive, Then, Because
  <2> QED
    BY <1>1, <1>2, <1>3, <1>4, <2>1 DEF TransferInv, OnTape, Progress, SavedSoFar, Sending, SendingWell
<1>6. CASE Header
  <2>1. \/ copier' = "cleanup"
        \/ /\ copier' \in {"ask", "load"} /\ save' = FALSE
           /\ head[1] \in DOMAIN tape /\ Current.kind \in {"program", "data"}
    <3>1. head[1] \in DOMAIN tape => Current.kind \in Kinds
      BY TapeAssumption DEF TransferInv, OnTape, Current
    <3> QED
      BY <1>6, <3>1 DEF Header, NoBlock, Then, Because, Kinds
  <2>2. copier' # "cleanup" => head[2] \in 1..Len(Wanted)
    BY <1>2, <2>1, WantedIsData DEF TransferInv
  <2> QED
    BY <1>1, <1>2, <1>3, <1>4, <2>1, <2>2 DEF TransferInv, OnTape, Progress, SavedSoFar, Sending, SendingWell
<1>7. CASE Ask
  <2>1. copier = "ask" /\ (copier' = "load" => save' = FALSE) /\ copier' \in {"load", "name", "cleanup"}
    BY <1>7 DEF Ask, Then, Because
  <2> QED
    BY <1>1, <1>2, <1>3, <1>4, <2>1 DEF TransferInv, OnTape, Progress, SavedSoFar, Sending, SendingWell
<1>8. CASE ChooseName
  <2>1. /\ copier = "name"
        /\ \/ copier' \in {"name", "cleanup"}
           \/ copier' = "open" /\ Current.kind = "data"
           \/ copier' = "load" /\ Current.kind # "data"
    BY <1>8 DEF ChooseName, Then, Because, Ready
  <2> QED
    BY <1>1, <1>2, <1>3, <1>4, <2>1 DEF TransferInv, OnTape, Progress, SavedSoFar, Sending, SendingWell
<1> QED
  BY <1>5, <1>6, <1>7, <1>8

(* A block is read, to be written or to be skipped. *)
LEMMA LoadTransfers ==
    ASSUME TransferInv, CopierInv', Load
    PROVE  TransferInv'
<1>1. UNCHANGED <<files, chan, device, tape, save, target, opened>>
  BY DEF Load, unused, commandVars, cacheVars
<1>2. /\ copier = "load" /\ outcome = "none" /\ head[1] \in DOMAIN tape
      /\ Current.kind \in {"program", "data"} /\ head[2] \in 1..Len(Wanted)
      /\ Wanted \in Seq(Chunks)
  BY WantedIsData DEF TransferInv, CopierInv, Flow, Load, OnTape
<1>3. outcome' # "saved" /\ SavedSoFar' /\ tape' \in Tapes
  BY <1>1, <1>2 DEF Load, NoBlock, Then, Because, SavedSoFar, TransferInv, OnTape
<1>4. CASE copier' = "cleanup"
  BY <1>1, <1>3, <1>4 DEF TransferInv, OnTape, Progress, Sending, SendingWell
<1>5. CASE save /\ Current.kind = "program" /\ Then("open") /\ left' = Current.data /\ UNCHANGED head
  BY <1>1, <1>2, <1>3, <1>5 DEF TransferInv, OnTape, Progress, Sending, SendingWell, Current, Wanted, Then
<1>6. CASE /\ save /\ Current.kind = "data" /\ Then("write")
           /\ left' = <<Current.data[head[2]]>> /\ UNCHANGED head
  <2>1. Current' = Current /\ Wanted' = Wanted /\ Holds(chan[2].data)' = Holds(chan[2].data)
    BY <1>1, <1>6 DEF Current, Wanted, Holds, Ours
  <2>2. SendingWell' <=> SendingWell
    BY <1>1, <1>2, <1>6 DEF SendingWell, Sending, Then
  <2>3. OnTape'
    BY <1>1, <1>2, <1>3, <1>6, <2>1 DEF OnTape, Then
  <2>4. Progress'
    BY <1>1, <1>2, <1>6, <2>1, <2>2 DEF TransferInv, Progress, Sending, Wanted, Then
  <2> QED
    BY <1>3, <2>3, <2>4 DEF TransferInv
<1>7. CASE /\ ~save
           /\ \/ Then("header") /\ Rewound(head[1] + 1)
              \/ /\ head[2] < Len(Current.data)
                 /\ Then("load") /\ head' = <<head[1], head[2] + 1>>
  <2>1. CASE Then("header") /\ Rewound(head[1] + 1)
    <3>1. head'[2] = 1
      BY <2>1 DEF Rewound
    <3> QED
      BY <1>1, <1>2, <1>3, <2>1, <3>1 DEF TransferInv, OnTape, Progress, Sending, SendingWell, Then
  <2>2. CASE /\ head[2] < Len(Current.data)
             /\ Then("load") /\ head' = <<head[1], head[2] + 1>>
    <3>1. head'[1] = head[1] /\ head'[2] = head[2] + 1 /\ Current' = Current /\ Wanted' = Wanted
      BY <1>1, <2>2 DEF Current, Wanted
    <3>2. head'[2] \in 1..Len(Wanted)
      BY <1>2, <2>2, <3>1 DEF Wanted
    <3> QED
      BY <1>1, <1>2, <1>3, <1>7, <2>2, <3>1, <3>2 DEF TransferInv, OnTape, Progress, Sending, SendingWell, Then
  <2> QED
    BY <1>7, <2>1, <2>2
<1> QED
  BY <1>2, <1>4, <1>5, <1>6, <1>7 DEF Load, NoBlock, Because

(* The file is created, empty: nothing has gone through its channel yet.   *)
LEMMA OpenTransfers ==
    ASSUME TransferInv, CopierInv', OpenOutput
    PROVE  TransferInv'
<1>1. UNCHANGED <<device, tape, head, save, target, left>> /\ Current' = Current /\ Wanted' = Wanted
  BY DEF OpenOutput, unused, commandVars, cacheVars, Current, Wanted
<1>2. /\ copier = "open" /\ outcome = "none" /\ head[1] \in DOMAIN tape /\ TargetWasFree
      /\ Current.kind \in {"program", "data"} /\ head[2] \in 1..Len(Wanted)
      /\ Wanted \in Seq(Chunks) /\ Len(Wanted) >= 1 /\ tape \in Tapes
  BY WantedIsData DEF TransferInv, CopierInv, Flow, OpenOutput, OnTape
<1>3. CASE copier' = "cleanup" /\ outcome' = "write error"
  BY <1>1, <1>2, <1>3 DEF TransferInv, OnTape, Progress, Sending, SendingWell, SavedSoFar
<1>4. CASE /\ files' = Created(target) /\ chan' = [chan EXCEPT ![2] = Writing(target, <<>>)]
           /\ Then(IF Current.kind = "data" THEN "load" ELSE "write")
  <2>1. chan'[2] = Writing(target, <<>>)
    BY <1>4, ChannelShape DEF TransferInv
  <2>2. chan'[2].live /\ chan'[2].data = <<>> /\ chan'[2].place = target
    BY <2>1 DEF Writing, Reading, Idle
  <2>3. device # Cart => Holds(<<>>)'
    <3>1. PICK x : x = [New(<<>>) EXCEPT !.closed = FALSE]
      OBVIOUS
    <3>2. x.data = <<>> /\ Ours(x)
      BY <3>1 DEF New, Ours, FileFields
    <3>3. device # Cart => files' = [files EXCEPT ![target] = {x}]
      BY <1>2, <1>4, <3>1 DEF Created, TargetWasFree
    <3>4. device # Cart => files'[target'] = {x}
      BY <1>1, <1>2, <3>3, FileShape DEF TransferInv, TargetWasFree
    <3> QED
      BY <3>2, <3>4 DEF Holds, Ours
  <2>4. OnTape'
    BY <1>1, <1>2, <1>4 DEF OnTape, Then
  <2>5. SubSeq(Wanted, 1, 0) = <<>> /\ <<>> \o Wanted = Wanted /\ Wanted # <<>> /\ <<>> \in Seq(Chunks)
    BY <1>2, WholeFile
  <2>6. Current.kind = "data" => head[2] = 1 /\ copier' = "load"
    BY <1>2, <1>4 DEF TransferInv, OnTape, Then
  <2>7. Current.kind = "program" => left = Wanted /\ copier' = "write"
    BY <1>2, <1>4 DEF TransferInv, Progress, Then
  <2>8. Progress'
    BY <1>1, <1>2, <2>2, <2>3, <2>5, <2>6, <2>7 DEF Progress, Sending, SendingWell
  <2>9. SavedSoFar'
    BY <1>2, <1>4 DEF SavedSoFar, Then
  <2> QED
    BY <2>4, <2>8, <2>9 DEF TransferInv
<1> QED
  BY <1>3, <1>4 DEF OpenOutput, Because

(* What is written through the channel is added to the file, or lost and   *)
(* remembered as lost.                                                     *)
LEMMA OneWrite ==
    ASSUME TransferInv, CopierInv', Write, copier' # "cleanup"
    PROVE  /\ left' = Tail(left) /\ chan'[2].live
           /\ \/ chan'[2].bad
              \/ /\ SendingWell /\ ~chan'[2].bad /\ chan'[2].data = Append(chan[2].data, Head(left))
                 /\ device # Cart => Holds(chan[2].data)'
<1>1. /\ copier = "write" /\ TargetWasFree /\ DOMAIN chan[2] = ChannelFields
      /\ chan[2].live /\ chan[2].place = target /\ UNCHANGED <<target, device>>
      /\ device # Cart /\ SendingWell => Holds(chan[2].data)
  BY DEF TransferInv, CopierInv, Shape, Flow, Ownership, Progress, Write, Sending, unused
<1>2. /\ left' = Tail(left)
      /\ \/ /\ CanWrite(2) /\ files' = Stored(2, Head(left))
            /\ chan' = [chan EXCEPT ![2] = Grown(2, Head(left))]
         \/ chan' = [chan EXCEPT ![2] = Lost(2)]
  BY DEF Write, Because
<1>3. CASE chan' = [chan EXCEPT ![2] = Lost(2)]
  <2>1. chan'[2] = Lost(2)
    BY <1>3, ChannelShape DEF TransferInv
  <2> QED
    BY <1>1, <1>2, <2>1 DEF Lost, ChannelFields
<1>4. CASE /\ CanWrite(2) /\ files' = Stored(2, Head(left))
           /\ chan' = [chan EXCEPT ![2] = Grown(2, Head(left))]
  <2>1. chan'[2] = Grown(2, Head(left))
    BY <1>4, ChannelShape DEF TransferInv
  <2>2. /\ chan'[2].live /\ chan'[2].bad = chan[2].bad
        /\ chan'[2].data = Append(chan[2].data, Head(left))
    BY <1>1, <2>1 DEF Grown, ChannelFields
  <2>3. SendingWell
    BY <1>1, <1>4 DEF SendingWell, Sending, CanWrite
  <2>4. ASSUME device # Cart PROVE Holds(chan[2].data)'
    <3>1. PICK x : files[target] = {x} /\ Ours(x) /\ x.data = chan[2].data
      BY <1>1, <2>3, <2>4 DEF Holds
    <3>2. PICK y : y = [x EXCEPT !.data = Append(@, Head(left))]
      OBVIOUS
    <3>3. Ours(y) /\ y.data = Append(chan[2].data, Head(left))
      BY <3>1, <3>2 DEF Ours, FileFields
    <3>4. files' = [files EXCEPT ![target] = {[z EXCEPT !.data = Append(@, Head(left))] : z \in files[target]}]
      BY <1>1, <1>4, <2>4 DEF Stored, TargetWasFree
    <3>5. {[z EXCEPT !.data = Append(@, Head(left))] : z \in files[target]} = {y}
      BY <3>1, <3>2
    <3>6. files'[target'] = {y}
      BY <1>1, <3>4, <3>5, FileShape DEF TransferInv, TargetWasFree
    <3> QED
      BY <2>2, <3>3, <3>6 DEF Holds, Ours
  <2> QED
    BY <1>2, <2>2, <2>3, <2>4 DEF SendingWell
<1> QED
  BY <1>2, <1>3, <1>4

LEMMA WriteTransfers ==
    ASSUME TransferInv, CopierInv', Write
    PROVE  TransferInv'
<1>1. UNCHANGED <<device, tape, save, target>>
  BY DEF Write, unused, commandVars, cacheVars
<1>2. /\ copier = "write" /\ save /\ outcome = "none" /\ head[1] \in DOMAIN tape
      /\ Current.kind \in {"program", "data"} /\ head[2] \in 1..Len(Wanted)
      /\ Wanted \in Seq(Chunks) /\ tape \in Tapes
  BY WantedIsData DEF TransferInv, CopierInv, Flow, Write, OnTape
<1>3. CASE copier' = "cleanup" /\ outcome' \in {"cancelled", "write error"}
  BY <1>1, <1>2, <1>3 DEF OnTape, Progress, Sending, SendingWell, SavedSoFar, TransferInv
<1>4. CASE Written
  <2>1. copier' # "cleanup"
    BY <1>4 DEF Written, Then
  <2>2. /\ left' = Tail(left) /\ chan'[2].live
        /\ \/ chan'[2].bad
           \/ /\ SendingWell /\ ~chan'[2].bad /\ chan'[2].data = Append(chan[2].data, Head(left))
              /\ device # Cart => Holds(chan[2].data)'
    BY <2>1, OneWrite
  <2>3. \/ Len(left) > 1 /\ copier' = "write" /\ head' = head
        \/ /\ ~(Len(left) > 1) /\ Current.kind = "data" /\ Len(left) = 1 /\ head[2] < Len(Wanted)
           /\ copier' = "load" /\ head' = <<head[1], head[2] + 1>>
        \/ /\ ~(Len(left) > 1) /\ copier' = "finish" /\ head' = head
           /\ Len(left) # 1 \/ Current.kind # "data" \/ ~(head[2] < Len(Wanted))
    <3>1. CASE Len(left) > 1
      <4>1. Len(left) # 1
        <5>1. ~(1 > 1)
          OBVIOUS
        <5> QED
          BY <3>1, <5>1, Zenon
      <4>2. Then("write") /\ UNCHANGED head
        BY <1>4, <3>1, <4>1, Zenon DEF Written
      <4> QED
        BY <3>1, <4>2, Zenon DEF Then
    <3>2. CASE ~(Len(left) > 1) /\ Len(left) = 1 /\ Current.kind = "data" /\ head[2] < Len(Wanted)
      <4>1. Then("load") /\ head' = <<head[1], head[2] + 1>>
        BY <1>4, <3>2, Zenon DEF Written, Wanted
      <4> QED
        BY <3>2, <4>1, Zenon DEF Then
    <3>3. CASE ~(Len(left) > 1) /\ ~(Len(left) = 1 /\ Current.kind = "data" /\ head[2] < Len(Wanted))
      <4>1. Then("finish") /\ UNCHANGED head
        BY <1>4, <3>3, Zenon DEF Written, Wanted
      <4> QED
        BY <3>3, <4>1, Zenon DEF Then
    <3> QED
      BY <3>1, <3>2, <3>3, Zenon
  <2>4. head'[1] = head[1] /\ Current' = Current /\ Wanted' = Wanted /\ head'[2] \in 1..Len(Wanted)
    BY <1>1, <1>2, <2>3 DEF Current, Wanted
  <2>5. OnTape'
    BY <1>1, <1>2, <2>3, <2>4 DEF OnTape
  <2>6. SavedSoFar'
    BY <1>2, <1>4 DEF SavedSoFar, Written, Then
  <2>7. CASE chan'[2].bad
    <3>1. Progress'
      BY <2>2, <2>3, <2>7 DEF Progress, SendingWell
    <3> QED
      BY <2>5, <2>6, <3>1 DEF TransferInv
  <2>8. CASE /\ SendingWell /\ ~chan'[2].bad /\ chan'[2].data = Append(chan[2].data, Head(left))
             /\ device # Cart => Holds(chan[2].data)'
    <3>1. CASE Current.kind = "data"
      <4>1. /\ chan[2].data = SubSeq(Wanted, 1, head[2] - 1) /\ left = <<Wanted[head[2]]>>
            /\ Len(left) = 1 /\ Head(left) = Wanted[head[2]]
        BY <1>2, <2>8, <3>1 DEF TransferInv, Progress
      <4>2. chan'[2].data = SubSeq(Wanted, 1, head[2])
        BY <1>2, <2>8, <4>1, NextTapeBlock
      <4>3. copier' = "finish" => chan'[2].data = Wanted
        <5>1. copier' = "finish" => head[2] = Len(Wanted)
          BY <1>2, <2>3, <3>1, <4>1
        <5> QED
          BY <1>2, <4>2, <5>1, WholeFile
      <4>4. copier' = "load" => chan'[2].data = SubSeq(Wanted, 1, head'[2] - 1)
        <5>1. copier' = "load" => head'[2] - 1 = head[2]
          BY <1>2, <2>3
        <5> QED
          BY <4>2, <5>1
      <4>5. copier' \in {"load", "finish"}
        BY <2>3, <4>1
      <4>6. Progress'
        BY <1>1, <1>2, <2>2, <2>4, <2>8, <3>1, <4>3, <4>4, <4>5 DEF Progress, SendingWell, Sending
      <4> QED
        BY <2>5, <2>6, <4>6 DEF TransferInv
    <3>2. CASE Current.kind = "program"
      <4>1. /\ chan[2].data \in Seq(Chunks) /\ left \in Seq(Chunks) /\ left # <<>>
            /\ chan[2].data \o left = Wanted
        BY <1>2, <2>8, <3>2 DEF TransferInv, Progress
      <4>2. /\ chan'[2].data \in Seq(Chunks) /\ left' \in Seq(Chunks)
            /\ chan'[2].data \o left' = Wanted
            /\ Len(left) = 1 => chan'[2].data = Wanted
            /\ Len(left) > 1 => left' # <<>>
        <5>1. PICK s, l : s = chan[2].data /\ l = left
          OBVIOUS
        <5>2. /\ Append(s, Head(l)) \in Seq(Chunks) /\ Tail(l) \in Seq(Chunks)
              /\ Append(s, Head(l)) \o Tail(l) = s \o l
              /\ Len(l) = 1 => Append(s, Head(l)) = s \o l
              /\ Len(l) > 1 => Tail(l) # <<>>
          <6>1. s \in Seq(Chunks) /\ l \in Seq(Chunks) /\ l # <<>>
            BY <4>1, <5>1
          <6> QED
            BY <6>1, OneByteMore, Zenon
        <5>3. Append(s, Head(l)) = chan'[2].data /\ Tail(l) = left' /\ s \o l = Wanted /\ l = left
          BY <2>2, <2>8, <4>1, <5>1
        <5> QED
          BY <5>2, <5>3
      <4>3. Len(left) \in Nat /\ Len(left) >= 1
        BY <4>1
      <4>4. \/ copier' = "write" /\ left' # <<>>
            \/ copier' = "finish" /\ chan'[2].data = Wanted
        <5>1. Len(left) > 1 \/ Len(left) = 1
          <6>1. PICK n : n = Len(left)
            OBVIOUS
          <6>2. n > 1 \/ n = 1
            BY <4>3, <6>1
          <6> QED
            BY <6>1, <6>2, Zenon
        <5>2. Current.kind # "data"
          BY <3>2
        <5> QED
          BY <2>3, <4>2, <5>1, <5>2, Zenon
      <4>5. Progress'
        BY <1>1, <1>2, <2>2, <2>4, <2>8, <3>2, <4>2, <4>4 DEF Progress, SendingWell, Sending
      <4> QED
        BY <2>5, <2>6, <4>5 DEF TransferInv
    <3> QED
      BY <1>2, <3>1, <3>2
  <2> QED
    BY <2>2, <2>7, <2>8
<1> QED
  BY <1>3, <1>4 DEF Write, Because

(* A channel that lost nothing is closed: the file is there, and complete. *)
LEMMA FinishTransfers ==
    ASSUME TransferInv, CopierInv', FinishOutput
    PROVE  TransferInv'
<1>1. UNCHANGED <<device, tape, head, save, target>> /\ Current' = Current /\ Wanted' = Wanted
  BY DEF FinishOutput, unused, commandVars, cacheVars, Current, Wanted
<1>2. /\ copier = "finish" /\ outcome = "none" /\ DOMAIN chan[2] = ChannelFields /\ chan[2].live
      /\ chan[2].place = target /\ TargetWasFree /\ tape \in Tapes
      /\ SendingWell => chan[2].data = Wanted /\ (device # Cart => Holds(chan[2].data))
  BY DEF TransferInv, CopierInv, Shape, Flow, Ownership, FinishOutput, OnTape, Progress, Sending
<1>3. PICK works \in BOOLEAN :
        /\ files' = Closed(2, works)
        /\ \/ ~Failed(works) /\ opened' = FALSE /\ Because("saved")
           \/ copier' = "undo" /\ outcome' = "write error"
  BY ChannelsAssumption DEF FinishOutput
<1>4. OnTape' /\ Progress'
  BY <1>1, <1>2, <1>3 DEF OnTape, Progress, Sending, SendingWell, Because
<1>5. CASE copier' = "undo" /\ outcome' = "write error"
  BY <1>4, <1>5 DEF TransferInv, SavedSoFar
<1>6. CASE ~Failed(works) /\ opened' = FALSE /\ Because("saved")
  <2>1. works /\ ~chan[2].bad
    BY <1>6 DEF Failed
  <2>2. SendingWell /\ chan[2].data = Wanted
    BY <1>2, <2>1 DEF SendingWell, Sending
  <2>3. \E x : files'[target] = {x} /\ x.data = Wanted /\ x.closed
    <3>1. CASE device = Cart
      <4>1. files' = [files EXCEPT ![target] = {New(Wanted)}]
        BY <1>2, <1>3, <2>1, <2>2, <3>1 DEF Closed, TargetWasFree
      <4>2. files'[target] = {New(Wanted)}
        BY <1>2, <4>1, FileShape DEF TransferInv, TargetWasFree
      <4>3. New(Wanted).data = Wanted /\ New(Wanted).closed
        BY DEF New
      <4> QED
        BY <4>2, <4>3
    <3>2. CASE device # Cart
      <4>1. PICK x : files[target] = {x} /\ Ours(x) /\ x.data = Wanted
        BY <1>2, <2>2, <3>2 DEF Holds
      <4>2. PICK y : y = [x EXCEPT !.closed = TRUE]
        OBVIOUS
      <4>3. y.data = Wanted /\ y.closed
        BY <4>1, <4>2 DEF Ours, FileFields
      <4>4. files' = [files EXCEPT ![target] = {[z EXCEPT !.closed = TRUE] : z \in files[target]}]
        BY <1>2, <1>3, <2>1, <3>2 DEF Closed, TargetWasFree
      <4>5. {[z EXCEPT !.closed = TRUE] : z \in files[target]} = {y}
        BY <4>1, <4>2
      <4>6. files'[target] = {y}
        BY <1>2, <4>4, <4>5, FileShape DEF TransferInv, TargetWasFree
      <4> QED
        BY <4>3, <4>6
    <3> QED
      BY <3>1, <3>2
  <2>4. Contents(files, target)' = {Wanted'}
    BY <1>1, <2>3 DEF Contents
  <2> QED
    BY <1>4, <1>6, <2>4 DEF TransferInv, SavedSoFar, Because
<1> QED
  BY <1>3, <1>5, <1>6

(* There is nothing to clean up after a file that is saved.                *)
LEMMA CleanupTransfers ==
    ASSUME TransferInv, CopierInv', Cleanup
    PROVE  TransferInv'
<1>1. UNCHANGED <<tape, head, target>> /\ Current' = Current /\ Wanted' = Wanted
  BY DEF Cleanup, unused, Current, Wanted
<1>2. copier' \in {"cleanup", "over"}
  BY DEF Cleanup, Discard
<1>3. OnTape' /\ Progress'
  BY <1>1, <1>2 DEF TransferInv, OnTape, Progress, Sending, SendingWell
<1>4. ASSUME outcome' = "saved" PROVE ~opened' /\ Contents(files, target)' = {Wanted'}
  <2>1. outcome = "saved"
    BY <1>4 DEF Cleanup, Discard
  <2>2. ~opened /\ Contents(files, target) = {Wanted}
    BY <2>1 DEF TransferInv, SavedSoFar
  <2>3. UNCHANGED <<files, opened>>
    BY <2>2 DEF Cleanup, Discard
  <2> QED
    BY <1>1, <2>2, <2>3 DEF Contents
<1> QED
  BY <1>2, <1>3, <1>4 DEF TransferInv, SavedSoFar

LEMMA TransferInvHolds == TapeSpec => []TransferInv
<1>1. TapeInit => TransferInv
  <2>1. TapeInit => OnTape
    BY DEF TapeInit, OnTape
  <2> QED
    BY <2>1, CopierInvInit DEF TapeInit, TransferInv, Progress, SavedSoFar, Sending, SendingWell
<1>2. ASSUME TransferInv, CopierInv', TapeNext PROVE TransferInv'
  BY <1>2, TapeStepTransfers, LoadTransfers, OpenTransfers, WriteTransfers, FinishTransfers,
     CleanupTransfers DEF TapeNext
<1>3. ASSUME TransferInv, CopierInv', UNCHANGED tapeVars PROVE TransferInv'
  <2>1. UNCHANGED <<files, chan, device, copier, save, tape, head, target, left, opened, outcome>>
    BY <1>3 DEF tapeVars, channelVars
  <2>2. /\ Current' = Current /\ Wanted' = Wanted /\ Holds(chan[2].data)' = Holds(chan[2].data)
        /\ Contents(files, target)' = Contents(files, target)
    BY <2>1 DEF Current, Wanted, Holds, Ours, Contents
  <2>3. Sending' = Sending /\ SendingWell' = SendingWell
    BY <2>1, <2>2 DEF SendingWell, Sending
  <2>4. OnTape' /\ SavedSoFar'
    BY <1>3, <2>1, <2>2 DEF TransferInv, OnTape, SavedSoFar
  <2>5. Progress'
    BY <1>3, <2>1, <2>2, <2>3 DEF TransferInv, Progress
  <2> QED
    BY <1>3, <2>4, <2>5 DEF TransferInv
<1> QED
  BY <1>1, <1>2, <1>3, CopierInvHolds, PTL DEF TapeSpec

(* TAPE_SAVED (tape.c:381): a file that is reported as saved is on the     *)
(* device, closed, and is the file of the tape that the user chose, all    *)
(* its blocks in order, whatever the device failed at on the way.          *)
THEOREM SavedFilesAreWhole == TapeSpec => []SavedIsWhole
<1>1. TransferInv => SavedIsWhole
  BY DEF TransferInv, SavedSoFar, SavedIsWhole, Wanted
<1> QED
  BY <1>1, TransferInvHolds, PTL
-----------------------------------------------------------------------------
(***************************************************************************)
(* Batch files.  The line that is read next begins after a break: after    *)
(* the n-th when n lines have been read, or at the beginning.  So it ends  *)
(* at the break after that, or with the file.                              *)
(***************************************************************************)
LineBegins(p, n) ==
    \/ p = 1 /\ n = 0
    \/ \E m \in Breaks(batch) : Rank(Breaks(batch), m) = n /\ p = Following(m)

HasLine(line, k) ==
    /\ Len(line) = Cardinality(Between(k))
    /\ \A i \in Between(k) : line[Rank(Between(k), i)] = batch[i]

ReadSoFar ==
    /\ executed \in Seq(Seq(Keys \cup {Return, Feed}))
    /\ Len(executed) <= Cardinality(Breaks(batch)) + 1
    /\ \A k \in 1..Len(executed) : HasLine(executed[k], k)

BatchInv ==
    /\ batch \in Seq(Keys \cup {Return, Feed})
    /\ batchpos \in 1..Len(batch) + 1
    /\ ReadSoFar
    /\ prompt = "batch" /\ batchpos <= Len(batch) => LineBegins(batchpos, Len(executed))

LEMMA LeastNumber ==
    ASSUME NEW S \in SUBSET Nat, S # {}
    PROVE  \E m \in S : \A k \in S : m <= k
<1>. DEFINE R == OpToRel(<, Nat)
<1>1. \A k, m \in Nat : k < m => <<k, m>> \in R
  BY DEF OpToRel
<1>2. IsWellFoundedOn(R, Nat)
  BY NatLessThanWellFounded
<1>. HIDE DEF R
<1>3. PICK m \in S : \A k \in S : <<k, m>> \notin R
  BY <1>2, WFMin
<1>4. ASSUME NEW k \in S PROVE m <= k
  <2>1. k \in Nat /\ m \in Nat /\ <<k, m>> \notin R
    BY <1>3
  <2>2. ~(k < m)
    BY <1>1, <2>1
  <2>. QED  BY <2>1, <2>2
<1>. QED  BY <1>4
-----------------------------------------------------------------------------
(* Ranks in a finite set of numbers                                        *)

LEMMA UpToFinite ==
    ASSUME NEW B \in SUBSET Nat, IsFiniteSet(B), NEW i
    PROVE  /\ IsFiniteSet({j \in B : j <= i})
           /\ Rank(B, i) \in Nat /\ Rank(B, i) <= Cardinality(B)
<1>1. {j \in B : j <= i} \in SUBSET B
  OBVIOUS
<1> QED
  BY <1>1, FS_Subset, FS_CardinalityType DEF Rank

LEMMA RankGrows ==
    ASSUME NEW B \in SUBSET Nat, IsFiniteSet(B), NEW i \in Nat, NEW j \in B, i < j
    PROVE  Rank(B, i) < Rank(B, j)
<1>. DEFINE lower == {k \in B : k <= i}
            upper == {k \in B : k <= j}
<1>1. IsFiniteSet(upper) /\ IsFiniteSet(lower)
  BY UpToFinite
<1>2. lower \in SUBSET upper /\ j \in upper /\ j \notin lower
  <2>1. j \in Nat /\ \A k \in B : k \in Nat
    OBVIOUS
  <2>2. \A k \in B : k <= i => k <= j
    BY <2>1
  <2>3. ~(j <= i) /\ j <= j
    BY <2>1
  <2>4. \A k \in lower : k \in upper
    BY <2>2
  <2> QED
    BY <2>3, <2>4
<1>3. Cardinality(lower) <= Cardinality(upper) /\ Cardinality(lower) # Cardinality(upper)
  BY <1>1, <1>2, FS_Subset
<1>4. Cardinality(lower) \in Nat /\ Cardinality(upper) \in Nat
  BY <1>1, FS_CardinalityType
<1> QED
  BY <1>3, <1>4 DEF Rank

LEMMA RankNames ==
    ASSUME NEW B \in SUBSET Nat, IsFiniteSet(B), NEW i \in B, NEW j \in B, Rank(B, i) = Rank(B, j)
    PROVE  i = j
<1>1. i < j => Rank(B, i) < Rank(B, j)
  BY RankGrows
<1>2. j < i => Rank(B, j) < Rank(B, i)
  BY RankGrows
<1>3. Rank(B, i) \in Nat /\ i \in Nat /\ j \in Nat
  BY UpToFinite
<1> QED
  BY <1>1, <1>2, <1>3

LEMMA RankFollows ==
    ASSUME NEW B \in SUBSET Nat, IsFiniteSet(B), NEW m \in Nat, NEW e \in B, m < e,
           \A j \in B : j <= m \/ j >= e
    PROVE  Rank(B, e) = Rank(B, m) + 1
<1>. DEFINE lower == {j \in B : j <= m}
            upper == {j \in B : j <= e}
<1>1. IsFiniteSet(lower) /\ e \notin lower /\ upper = lower \cup {e}
  <2>1. e \in Nat /\ \A j \in B : j \in Nat
    OBVIOUS
  <2>2. \A j \in B : j <= e <=> j <= m \/ j = e
    BY <2>1
  <2>3. ~(e <= m)
    BY <2>1
  <2> QED
    BY <2>2, <2>3, UpToFinite
<1>2. Cardinality(upper) = Cardinality(lower) + 1
  BY <1>1, FS_AddElement
<1> QED
  BY <1>2 DEF Rank

LEMMA RankLast ==
    ASSUME NEW B \in SUBSET Nat, NEW m, \A j \in B : j <= m
    PROVE  Rank(B, m) = Cardinality(B)
<1>1. {j \in B : j <= m} = B
  OBVIOUS
<1> QED
  BY <1>1 DEF Rank

LEMMA RankFirst ==
    ASSUME NEW B \in SUBSET Nat, NEW m \in Nat, \A j \in B : j > m
    PROVE  Rank(B, m) = 0
<1>1. {j \in B : j <= m} = {}
  <2>1. \A j \in B : j \in Nat /\ ~(j <= m)
    OBVIOUS
  <2> QED
    BY <2>1
<1> QED
  BY <1>1, FS_EmptySet DEF Rank

LEMMA RankInterval ==
    ASSUME NEW a \in Nat, NEW b \in Nat, NEW i \in a..b
    PROVE  Rank(a..b, i) = i - a + 1
<1>1. {j \in a..b : j <= i} = a..i
  OBVIOUS
<1>2. Cardinality(a..i) = i - a + 1
  BY FS_Interval
<1> QED
  BY <1>1, <1>2 DEF Rank
-----------------------------------------------------------------------------

(* Where a line ends                                                       *)

LEMMA BreaksFinite ==
    ASSUME batch \in Seq(Keys \cup {Return, Feed})
    PROVE  /\ Len(batch) \in Nat
           /\ Breaks(batch) \in SUBSET (1..Len(batch)) /\ Breaks(batch) \in SUBSET Nat
           /\ IsFiniteSet(Breaks(batch)) /\ Cardinality(Breaks(batch)) \in Nat
<1>1. Len(batch) \in Nat
  OBVIOUS
<1>2. Breaks(batch) \in SUBSET (1..Len(batch))
  BY DEF Breaks
<1>3. 1..Len(batch) \in SUBSET Nat /\ IsFiniteSet(1..Len(batch))
  BY <1>1, FS_Interval
<1>4. IsFiniteSet(Breaks(batch)) /\ Cardinality(Breaks(batch)) \in Nat
  BY <1>2, <1>3, FS_Subset, FS_CardinalityType
<1> QED
  BY <1>1, <1>2, <1>3, <1>4

LEMMA LineEnds ==
    ASSUME batch \in Seq(Keys \cup {Return, Feed}), batchpos \in 1..Len(batch) + 1
    PROVE  /\ LineEnd \in batchpos..Len(batch) + 1 /\ Broken(LineEnd)
           /\ \A j \in batchpos..LineEnd - 1 : ~Broken(j)
<1>. DEFINE ends == {i \in batchpos..Len(batch) + 1 : Broken(i)}
<1>1. Len(batch) \in Nat /\ Len(batch) + 1 \in ends /\ ends \in SUBSET Nat
  BY DEF Broken
<1>2. PICK m \in ends : \A k \in ends : m <= k
  BY <1>1, LeastNumber
<1>3. \A j \in batchpos..m - 1 : ~Broken(j)
  <2>1. SUFFICES ASSUME NEW j \in batchpos..m - 1, Broken(j) PROVE FALSE
    OBVIOUS
  <2>2. j \in ends /\ m \in Nat /\ j \in Nat
    BY <1>1, <2>1
  <2>3. m <= j
    BY <1>2, <2>2
  <2> QED
    BY <2>2, <2>3
<1> QED
  BY <1>3 DEF LineEnd

LEMMA AfterBreak ==
    ASSUME batch \in Seq(Keys \cup {Return, Feed}), NEW m \in Breaks(batch)
    PROVE  /\ m \in 1..Len(batch) /\ Following(m) \in m + 1..Len(batch) + 1
           /\ \A j \in m..Following(m) - 1 : batch[j] \in {Return, Feed}
           /\ \A j \in Breaks(batch) : j <= m \/ j >= Following(m)
           /\ Following(m) <= Len(batch) /\ batch[Following(m)] = Feed => batch[Following(m) - 1] # Return
<1>1. m \in 1..Len(batch) /\ Len(batch) \in Nat /\ batch[m] \in {Return, Feed} /\ Return # Feed
  BY CommandLineAssumption DEF Breaks
<1>2. \A j \in Breaks(batch) : j \in 1..Len(batch) /\ ~(j > 1 /\ batch[j] = Feed /\ batch[j - 1] = Return)
  BY <1>1 DEF Breaks
<1>3. CASE batch[m] = Return /\ m < Len(batch) /\ batch[m + 1] = Feed
  <2>1. Following(m) = m + 2 /\ m + 2 - 1 = m + 1
    BY <1>1, <1>3 DEF Following
  <2>2. \A j \in m..m + 1 : j = m \/ j = m + 1
    BY <1>1
  <2>3. m + 1 \notin Breaks(batch)
    BY <1>1, <1>2, <1>3
  <2>4. \A j \in Breaks(batch) : j <= m \/ j >= m + 2
    BY <1>1, <1>2, <2>3
  <2> QED
    BY <1>1, <1>3, <2>1, <2>2, <2>4
<1>4. CASE ~(batch[m] = Return /\ m < Len(batch) /\ batch[m + 1] = Feed)
  <2>1. Following(m) = m + 1 /\ m + 1 - 1 = m
    BY <1>1, <1>4 DEF Following
  <2>2. \A j \in m..m : j = m
    BY <1>1
  <2>3. \A j \in Breaks(batch) : j <= m \/ j >= m + 1
    BY <1>1, <1>2
  <2>4. m + 1 <= Len(batch) => m < Len(batch)
    BY <1>1
  <2> QED
    BY <1>1, <1>4, <2>1, <2>2, <2>3, <2>4
<1> QED
  BY <1>3, <1>4

LEMMA LineEndsAtBreak ==
    ASSUME batch \in Seq(Keys \cup {Return, Feed}), batchpos \in 1..Len(batch) + 1,
           NEW n, LineBegins(batchpos, n), LineEnd <= Len(batch)
    PROVE  LineEnd \in Breaks(batch)
<1>1. LineEnd \in batchpos..Len(batch) + 1 /\ Broken(LineEnd) /\ \A j \in batchpos..LineEnd - 1 : ~Broken(j)
  BY LineEnds
<1>2. Len(batch) \in Nat /\ LineEnd \in 1..Len(batch) /\ batch[LineEnd] \in {Return, Feed}
  BY <1>1 DEF Broken
<1>3. SUFFICES ASSUME batch[LineEnd] = Feed, LineEnd > 1, batch[LineEnd - 1] = Return PROVE FALSE
  BY <1>2 DEF Breaks
<1>4. LineEnd = batchpos
  <2>1. SUFFICES ASSUME LineEnd # batchpos PROVE FALSE
    OBVIOUS
  <2>2. LineEnd - 1 \in batchpos..LineEnd - 1
    BY <1>1, <2>1
  <2> QED
    BY <1>1, <1>3, <2>2 DEF Broken
<1>5. batchpos # 1
  BY <1>2, <1>3, <1>4
<1>6. PICK m \in Breaks(batch) : batchpos = Following(m)
  BY <1>5 DEF LineBegins
<1> QED
  BY <1>2, <1>3, <1>4, <1>6, AfterBreak
-----------------------------------------------------------------------------

LEMMA NthIs ==
    ASSUME batch \in Seq(Keys \cup {Return, Feed}), NEW m \in Breaks(batch)
    PROVE  NthBreak(Rank(Breaks(batch), m)) = m
<1>1. Breaks(batch) \in SUBSET Nat /\ IsFiniteSet(Breaks(batch))
  BY BreaksFinite
<1>2. \A i \in Breaks(batch) : Rank(Breaks(batch), i) = Rank(Breaks(batch), m) => i = m
  BY <1>1, RankNames
<1> QED
  BY <1>2 DEF NthBreak

(* What is read between two breaks is all there is between them.           *)
LEMMA LineIsBetween ==
    ASSUME batch \in Seq(Keys \cup {Return, Feed}), batchpos \in 1..Len(batch),
           NEW n \in Nat, LineBegins(batchpos, n)
    PROVE  /\ IF LineEnd <= Len(batch) THEN Rank(Breaks(batch), LineEnd) = n + 1
                                       ELSE Cardinality(Breaks(batch)) = n
           /\ Between(n + 1) = batchpos..LineEnd - 1
<1>. DEFINE B == Breaks(batch)
            e == LineEnd
<1>1. /\ Len(batch) \in Nat /\ B \in SUBSET (1..Len(batch)) /\ B \in SUBSET Nat
      /\ IsFiniteSet(B) /\ Cardinality(B) \in Nat
  BY BreaksFinite
<1>2. batchpos \in 1..Len(batch) + 1 /\ batchpos \in Nat /\ batchpos >= 1
  BY <1>1
<1>3. e \in batchpos..Len(batch) + 1 /\ Broken(e) /\ \A j \in batchpos..e - 1 : ~Broken(j)
  BY <1>2, LineEnds
<1>4. e <= Len(batch) => e \in B
  BY <1>2, LineEndsAtBreak
<1>5. \A j \in B : j < batchpos \/ j >= e
  <2>1. SUFFICES ASSUME NEW j \in B, j >= batchpos, j < e PROVE FALSE
    BY <1>1, <1>2, <1>3
  <2>2. j \in batchpos..e - 1
    BY <1>1, <1>2, <1>3, <2>1
  <2>3. batch[j] \in {Return, Feed}
    BY <2>1 DEF Breaks
  <2> QED
    BY <1>3, <2>2, <2>3 DEF Broken
<1>6. PICK m \in Nat : /\ m < batchpos /\ Rank(B, m) = n
                       /\ \A j \in B : j <= m \/ j >= batchpos
                       /\ \A j \in m..batchpos - 1 : j >= 1 => batch[j] \in {Return, Feed}
                       /\ n > 0 => m \in B
                       /\ m \in B \/ m = 0
  <2>1. CASE batchpos = 1 /\ n = 0
    <3>1. Rank(B, 0) = 0
      BY <1>1, RankFirst
    <3>2. \A j \in B : j <= 0 \/ j >= 1
      BY <1>1
    <3> QED
      BY <2>1, <3>1, <3>2
  <2>2. CASE \E m \in B : Rank(B, m) = n /\ batchpos = Following(m)
    <3>1. PICK m \in B : Rank(B, m) = n /\ batchpos = Following(m)
      BY <2>2
    <3>2. /\ m \in 1..Len(batch) /\ Following(m) \in m + 1..Len(batch) + 1
          /\ \A j \in m..Following(m) - 1 : batch[j] \in {Return, Feed}
          /\ \A j \in B : j <= m \/ j >= Following(m)
      BY <3>1, AfterBreak
    <3>3. m \in Nat /\ m < batchpos
      BY <1>1, <3>1, <3>2
    <3> QED
      BY <3>1, <3>2, <3>3
  <2> QED
    BY <2>1, <2>2 DEF LineBegins
<1>. HIDE DEF B, e
<1>7. \A j \in B : j <= m \/ j >= e
  <2>1. \A j \in B : j \in Nat
    BY <1>1
  <2> QED
    BY <1>2, <1>3, <1>5, <1>6, <2>1
<1>8. IF e <= Len(batch) THEN Rank(B, e) = n + 1 ELSE Cardinality(B) = n
  <2>1. ASSUME e <= Len(batch) PROVE Rank(B, e) = n + 1
    <3>1. e \in B /\ m < e
      BY <1>2, <1>3, <1>4, <1>6, <2>1
    <3>2. Rank(B, e) = Rank(B, m) + 1
      BY <1>1, <1>6, <1>7, <3>1, RankFollows
    <3> QED
      BY <1>6, <3>2
  <2>2. ASSUME ~(e <= Len(batch)) PROVE Cardinality(B) = n
    <3>1. \A j \in B : j <= m
      BY <1>1, <1>2, <1>3, <1>7, <2>2
    <3> QED
      BY <1>1, <1>6, <3>1, RankLast
  <2> QED
    BY <2>1, <2>2
<1>9. n > 0 => NthBreak(n) = m
  BY <1>6, NthIs DEF B
<1>10. e <= Len(batch) => NthBreak(n + 1) = e
  BY <1>4, <1>8, NthIs DEF B
<1>11. n + 1 <= Cardinality(B) <=> e <= Len(batch)
  <2>1. e <= Len(batch) => Rank(B, e) <= Cardinality(B)
    BY <1>1, UpToFinite
  <2> QED
    BY <1>1, <1>8, <2>1
<1>12. ASSUME NEW i \in Between(n + 1) PROVE i \in batchpos..e - 1
  <2>1. /\ i \in 1..Len(batch) /\ batch[i] \notin {Return, Feed}
        /\ n + 1 > 1 => i > NthBreak(n)
        /\ n + 1 <= Cardinality(B) => i < NthBreak(n + 1)
    <3>1. (n + 1) - 1 = n
      OBVIOUS
    <3> QED
      BY <1>12, <3>1 DEF Between, B
  <2>2. i < e
    BY <1>1, <1>3, <1>10, <1>11, <2>1
  <2>3. i >= batchpos
    <3>1. SUFFICES ASSUME i < batchpos PROVE FALSE
      BY <1>2, <2>1
    <3>2. i < m
      <4>1. i \notin m..batchpos - 1
        BY <1>6, <2>1
      <4> QED
        BY <1>2, <1>6, <2>1, <3>1, <4>1
    <3>3. n = 0
      <4>1. n > 0 => i > m
        BY <1>9, <2>1
      <4> QED
        BY <1>6, <2>1, <3>2, <4>1
    <3>4. m \in B
      BY <1>6, <2>1, <3>2
    <3>5. Rank(B, 0) < Rank(B, m) /\ Rank(B, 0) \in Nat
      <4>1. 0 < m
        BY <1>6, <2>1, <3>2
      <4> QED
        BY <1>1, <3>4, <4>1, RankGrows, UpToFinite
    <3> QED
      BY <1>6, <3>3, <3>5
  <2> QED
    BY <1>2, <1>3, <2>1, <2>2, <2>3
<1>13. ASSUME NEW i \in batchpos..e - 1 PROVE i \in Between(n + 1)
  <2>1. i \in 1..Len(batch) /\ batch[i] \notin {Return, Feed} /\ i < e
    BY <1>1, <1>2, <1>3 DEF Broken
  <2>2. n + 1 > 1 => i > NthBreak(n + 1 - 1)
    <3>1. n + 1 - 1 = n /\ (n + 1 > 1 => n > 0)
      OBVIOUS
    <3>2. i > m
      BY <1>2, <1>3, <1>6
    <3> QED
      BY <1>9, <3>1, <3>2
  <2>3. n + 1 <= Cardinality(B) => i < NthBreak(n + 1)
    BY <1>10, <1>11, <2>1
  <2> QED
    BY <2>1, <2>2, <2>3 DEF Between, B
<1> QED
  BY <1>8, <1>12, <1>13 DEF B, e
-----------------------------------------------------------------------------

LEMMA WholeLine ==
    ASSUME batch \in Seq(Keys \cup {Return, Feed}), batchpos \in 1..Len(batch),
           NEW n \in Nat, LineBegins(batchpos, n)
    PROVE  /\ SubSeq(batch, batchpos, LineEnd - 1) \in Seq(Keys \cup {Return, Feed})
           /\ HasLine(SubSeq(batch, batchpos, LineEnd - 1), n + 1)
<1>. DEFINE line == SubSeq(batch, batchpos, LineEnd - 1)
<1>1. Len(batch) \in Nat /\ batchpos \in 1..Len(batch) + 1 /\ batchpos \in Nat /\ batchpos >= 1
  OBVIOUS
<1>2. LineEnd \in batchpos..Len(batch) + 1
  BY <1>1, LineEnds
<1>3. line \in Seq(Keys \cup {Return, Feed}) /\ Len(line) = LineEnd - batchpos
  BY <1>1, <1>2
<1>4. Between(n + 1) = batchpos..LineEnd - 1
  BY LineIsBetween
<1>5. Cardinality(batchpos..LineEnd - 1) = LineEnd - batchpos
  BY <1>1, <1>2, FS_Interval
<1>6. ASSUME NEW i \in batchpos..LineEnd - 1
      PROVE  line[Rank(batchpos..LineEnd - 1, i)] = batch[i]
  <2>1. Rank(batchpos..LineEnd - 1, i) = i - batchpos + 1
    <3>1. batchpos \in Nat /\ LineEnd - 1 \in Nat
      BY <1>1, <1>2
    <3> QED
      BY <3>1, RankInterval
  <2>2. i - batchpos + 1 \in 1..LineEnd - batchpos /\ batchpos + (i - batchpos + 1) - 1 = i
    BY <1>1, <1>2
  <2>3. line[i - batchpos + 1] = batch[batchpos + (i - batchpos + 1) - 1]
    BY <1>1, <1>2, <2>2
  <2> QED
    BY <2>1, <2>2, <2>3
<1> QED
  BY <1>3, <1>4, <1>5, <1>6 DEF HasLine

LEMMA BatchUnchanged ==
    ASSUME BatchInv, UNCHANGED <<batch, batchpos, executed>>, prompt' = "batch" => prompt = "batch"
    PROVE  BatchInv'
<1>1. \A line, k : HasLine(line, k)' <=> HasLine(line, k)
  BY DEF HasLine, Between, NthBreak, Breaks, Rank
<1>2. Breaks(batch)' = Breaks(batch)
  BY DEF Breaks
<1>3. ReadSoFar'
  BY <1>1, <1>2 DEF BatchInv, ReadSoFar
<1>4. \A p, n : LineBegins(p, n)' <=> LineBegins(p, n)
  BY <1>2 DEF LineBegins, Rank, Following
<1>5. LineBegins(batchpos, Len(executed))' <=> LineBegins(batchpos, Len(executed))
  BY <1>4
<1> QED
  BY <1>3, <1>5 DEF BatchInv

LEMMA AppendIs ==
    ASSUME NEW S, NEW s \in Seq(S), NEW x \in S
    PROVE  /\ Append(s, x) \in Seq(S) /\ Len(Append(s, x)) = Len(s) + 1
           /\ Append(s, x)[Len(s) + 1] = x
           /\ \A k \in 1..Len(s) : Append(s, x)[k] = s[k]
OBVIOUS

LEMMA ReadBatchKeeps ==
    ASSUME BatchInv, ReadBatch
    PROVE  BatchInv'
<1>1. CASE prompt' = "edit" /\ UNCHANGED <<batchpos, executed>>
  BY <1>1, BatchUnchanged DEF ReadBatch
<1>2. CASE ~(prompt' = "edit" /\ UNCHANGED <<batchpos, executed>>)
  <2>1. /\ prompt = "batch" /\ batchpos <= Len(batch) /\ batch' = batch
        /\ batchpos' = IF LineEnd > Len(batch) THEN LineEnd ELSE Following(LineEnd)
        /\ IF LineEnd - batchpos < LINE
             THEN executed' = Append(executed, SubSeq(batch, batchpos, LineEnd - 1))
             ELSE prompt' = "edit" /\ executed' = executed
    BY <1>2 DEF ReadBatch
  <2>2. /\ batch \in Seq(Keys \cup {Return, Feed}) /\ Len(batch) \in Nat
        /\ batchpos \in 1..Len(batch) /\ batchpos \in 1..Len(batch) + 1
        /\ ReadSoFar /\ LineBegins(batchpos, Len(executed)) /\ Len(executed) \in Nat
    BY <2>1 DEF BatchInv, ReadSoFar
  <2>3. /\ IF LineEnd <= Len(batch) THEN Rank(Breaks(batch), LineEnd) = Len(executed) + 1
                                    ELSE Cardinality(Breaks(batch)) = Len(executed)
        /\ Between(Len(executed) + 1) = batchpos..LineEnd - 1
    BY <2>2, LineIsBetween
  <2>4. LineEnd \in batchpos..Len(batch) + 1
    BY <2>2, LineEnds
  <2>5. LineEnd <= Len(batch) => /\ LineEnd \in Breaks(batch)
                                 /\ Following(LineEnd) \in LineEnd + 1..Len(batch) + 1
    BY <2>2, LineEndsAtBreak, AfterBreak
  <2>6. batchpos' \in 1..Len(batch) + 1
    BY <2>1, <2>2, <2>4, <2>5
  <2>7. \A line, k : HasLine(line, k)' <=> HasLine(line, k)
    BY <2>1 DEF HasLine, Between, NthBreak, Breaks, Rank
  <2>8. Breaks(batch)' = Breaks(batch)
    BY <2>1 DEF Breaks
  <2>9. CASE LineEnd - batchpos < LINE
    <3>. DEFINE line == SubSeq(batch, batchpos, LineEnd - 1)
    <3>1. line \in Seq(Keys \cup {Return, Feed}) /\ HasLine(line, Len(executed) + 1)
      BY <2>2, WholeLine
    <3>. HIDE DEF line
    <3>2. /\ executed' = Append(executed, line) /\ executed' \in Seq(Seq(Keys \cup {Return, Feed}))
          /\ Len(executed') = Len(executed) + 1 /\ executed'[Len(executed) + 1] = line
          /\ \A k \in 1..Len(executed) : executed'[k] = executed[k]
      <4>1. executed' = Append(executed, line)
        BY <2>1, <2>9 DEF line
      <4>2. executed \in Seq(Seq(Keys \cup {Return, Feed}))
        BY <2>2 DEF ReadSoFar
      <4> QED
        BY <3>1, <4>1, <4>2, AppendIs
    <3>3. \A k \in 1..Len(executed') : HasLine(executed'[k], k)
      <4>1. ASSUME NEW k \in 1..Len(executed') PROVE HasLine(executed'[k], k)
        <5>1. CASE k = Len(executed) + 1
          BY <3>1, <3>2, <5>1
        <5>2. CASE k # Len(executed) + 1
          <6>1. k \in 1..Len(executed)
            BY <2>2, <3>2, <5>2
          <6> QED
            BY <2>2, <3>2, <6>1 DEF ReadSoFar
        <5> QED
          BY <5>1, <5>2
      <4> QED
        BY <4>1
    <3>4. Len(executed) + 1 <= Cardinality(Breaks(batch)) + 1
      <4>1. LineEnd <= Len(batch) => Rank(Breaks(batch), LineEnd) <= Cardinality(Breaks(batch))
        BY <2>2, BreaksFinite, UpToFinite
      <4>2. Cardinality(Breaks(batch)) \in Nat
        BY <2>2, BreaksFinite
      <4> QED
        BY <2>2, <2>3, <4>1, <4>2
    <3>5. ReadSoFar'
      BY <2>7, <2>8, <3>2, <3>3, <3>4 DEF ReadSoFar
    <3>6. batchpos' <= Len(batch) => LineBegins(batchpos', Len(executed'))
      <4>1. SUFFICES ASSUME batchpos' <= Len(batch) PROVE LineBegins(batchpos', Len(executed'))
        OBVIOUS
      <4>2. LineEnd <= Len(batch)
        BY <2>1, <2>2, <2>4, <4>1
      <4>3. batchpos' = Following(LineEnd)
        BY <2>1, <2>2, <2>4, <4>2
      <4> QED
        BY <2>3, <2>5, <3>2, <4>2, <4>3 DEF LineBegins
    <3>7. LineBegins(batchpos', Len(executed')) => LineBegins(batchpos, Len(executed))'
      BY <2>1, <2>8 DEF LineBegins, Rank, Following
    <3> QED
      BY <2>1, <2>2, <2>6, <3>5, <3>6, <3>7 DEF BatchInv
  <2>10. CASE ~(LineEnd - batchpos < LINE)
    <3>1. prompt' = "edit" /\ executed' = executed
      BY <2>1, <2>10
    <3>2. ReadSoFar'
      BY <2>2, <2>7, <2>8, <3>1 DEF ReadSoFar
    <3> QED
      BY <2>1, <2>2, <2>6, <3>1, <3>2 DEF BatchInv
  <2> QED
    BY <2>9, <2>10
<1> QED
  BY <1>1, <1>2

LEMMA BatchInvHolds == LineSpec => []BatchInv
<1>1. LineInit => BatchInv
  <2>1. SUFFICES ASSUME LineInit PROVE BatchInv
    OBVIOUS
  <2>2. batch \in Seq(Keys \cup {Return, Feed}) /\ batchpos = 1 /\ executed = <<>>
    <3>1. <<>> \in Seq(Keys \cup {Return, Feed})
      OBVIOUS
    <3> QED
      BY <2>1, <3>1, CommandLineAssumption DEF LineInit
  <2>3. Len(batch) \in Nat /\ Cardinality(Breaks(batch)) \in Nat
    BY <2>2, BreaksFinite
  <2>4. Len(executed) = 0 /\ executed \in Seq(Seq(Keys \cup {Return, Feed}))
    BY <2>2
  <2> QED
    BY <2>2, <2>3, <2>4 DEF BatchInv, ReadSoFar, LineBegins
<1>2. BatchInv /\ [LineNext]_promptVars => BatchInv'
  <2>1. SUFFICES ASSUME BatchInv, [LineNext]_promptVars PROVE BatchInv'
    OBVIOUS
  <2>2. CASE ReadBatch
    BY <2>1, <2>2, ReadBatchKeeps
  <2>3. CASE MoveCaret \/ DeleteKey \/ TypeKey \/ Recall \/ EnterKey \/ StopKey \/ CompleteKey
    <3>1. UNCHANGED <<batch, batchpos, executed>> /\ prompt' = prompt
      BY <2>3 DEF batchVars, MoveCaret, DeleteKey, TypeKey, Recall, EnterKey, StopKey, CompleteKey
    <3> QED
      BY <2>1, <3>1, BatchUnchanged
  <2>4. CASE UNCHANGED promptVars
    <3>1. UNCHANGED <<batch, batchpos, executed>> /\ prompt' = prompt
      BY <2>4 DEF promptVars, batchVars
    <3> QED
      BY <2>1, <3>1, BatchUnchanged
  <2> QED
    BY <2>1, <2>2, <2>3, <2>4 DEF LineNext
<1> QED
  BY <1>1, <1>2, PTL DEF LineSpec

(* For any batch files, long lines and mixed line ends included, what is   *)
(* run from one are its lines, whole and in their order (mcsdos.c: the     *)
(* reading of a batch file).                                               *)
THEOREM BatchesRunWhole == LineSpec => []BatchLinesAreWhole
<1>1. BatchInv => BatchLinesAreWhole
  BY DEF BatchInv, ReadSoFar, BatchLinesAreWhole, HasLine
<1> QED
  BY <1>1, BatchInvHolds, PTL
-----------------------------------------------------------------------------

(***************************************************************************)
(* The flags of completed names.  An edit leaves the runs of flags that it *)
(* does not touch whole: they stay, or move with their characters; so does *)
(* a completion, but for a run that it begins in the middle of.  What the  *)
(* history and the draft hold is as good as the line.                      *)
(***************************************************************************)
Flagged(line) == line \in LineType /\ Marks(line.text, line.raw, listing, cut)

LineInv ==
    /\ listing \in Seq(Seq(Characters)) /\ cut \in BOOLEAN
    /\ buf \in Seq(Characters) /\ pos \in 0..Length
    /\ Marks(buf, raw, listing, cut)
    /\ histnext \in 0..RECALL - 1 /\ histcount \in Nat /\ h \in Nat
    /\ history \in [0..RECALL - 1 -> LineType]
    /\ \A k \in 0..RECALL - 1 : Flagged(history[k])
    /\ Flagged(draft)
    /\ ci \in Nat
    /\ \A c \in comp : c.start \in 0..Length /\ c.lead \in Seq(Characters)

(* Sequences                                                               *)

LEMMA SameStretch ==
    ASSUME NEW S, NEW s \in Seq(S), NEW t \in Seq(S), NEW a \in Nat, NEW b \in Nat, NEW d \in Int,
           1 <= a, a <= b, b <= Len(t), 1 <= a + d, b + d <= Len(s),
           \A k \in a..b : t[k] = s[k + d]
    PROVE  SubSeq(t, a, b) = SubSeq(s, a + d, b + d)
<1>1. a + d \in Nat /\ b + d \in Nat /\ Len(t) \in Nat /\ Len(s) \in Nat
  OBVIOUS
<1>2. SubSeq(t, a, b) \in Seq(S) /\ Len(SubSeq(t, a, b)) = b - a + 1
  BY <1>1
<1>3. SubSeq(s, a + d, b + d) \in Seq(S) /\ Len(SubSeq(s, a + d, b + d)) = b - a + 1
  BY <1>1
<1>4. ASSUME NEW k \in 1..b - a + 1 PROVE SubSeq(t, a, b)[k] = SubSeq(s, a + d, b + d)[k]
  <2>1. SubSeq(t, a, b)[k] = t[a + k - 1]
    BY <1>1
  <2>2. SubSeq(s, a + d, b + d)[k] = s[a + d + k - 1]
    BY <1>1
  <2>3. a + k - 1 \in a..b /\ (a + k - 1) + d = a + d + k - 1
    OBVIOUS
  <2> QED
    BY <2>1, <2>2, <2>3
<1> QED
  BY <1>2, <1>3, <1>4, SeqEqual

LEMMA Joined ==
    ASSUME NEW S, NEW u \in Seq(S), NEW v \in Seq(S)
    PROVE  /\ u \o v \in Seq(S) /\ Len(u \o v) = Len(u) + Len(v)
           /\ \A k \in 1..Len(u) : (u \o v)[k] = u[k]
           /\ \A k \in Len(u) + 1..Len(u) + Len(v) : (u \o v)[k] = v[k - Len(u)]
OBVIOUS

LEMMA CutOut ==
    ASSUME NEW S, NEW s \in Seq(S), NEW p \in 0..Len(s) - 1
    PROVE  LET t == SubSeq(s, 1, p) \o SubSeq(s, p + 2, Len(s)) IN
           /\ t \in Seq(S) /\ Len(t) = Len(s) - 1
           /\ \A k \in 1..p : t[k] = s[k]
           /\ \A k \in p + 1..Len(s) - 1 : t[k] = s[k + 1]
<1>1. Len(s) \in Nat /\ p \in Nat /\ p <= Len(s) - 1
  OBVIOUS
<1>. DEFINE u == SubSeq(s, 1, p)
            v == SubSeq(s, p + 2, Len(s))
            t == u \o v
<1>2. u \in Seq(S) /\ Len(u) = p /\ \A k \in 1..p : u[k] = s[k]
  BY <1>1
<1>3. v \in Seq(S) /\ Len(v) = Len(s) - p - 1 /\ \A k \in 1..Len(s) - p - 1 : v[k] = s[p + 2 + k - 1]
  BY <1>1
<1>. HIDE DEF u, v
<1>4. /\ t \in Seq(S) /\ Len(t) = Len(u) + Len(v)
      /\ \A k \in 1..Len(u) : t[k] = u[k]
      /\ \A k \in Len(u) + 1..Len(u) + Len(v) : t[k] = v[k - Len(u)]
  BY <1>2, <1>3, Joined
<1>. HIDE DEF t
<1>5. Len(t) = Len(s) - 1 /\ \A k \in 1..p : t[k] = s[k]
  BY <1>1, <1>2, <1>3, <1>4
<1>6. ASSUME NEW k \in p + 1..Len(s) - 1 PROVE t[k] = s[k + 1]
  <2>1. t[k] = v[k - p]
    BY <1>1, <1>2, <1>3, <1>4
  <2>2. k - p \in 1..Len(s) - p - 1 /\ p + 2 + (k - p) - 1 = k + 1
    BY <1>1
  <2> QED
    BY <1>3, <2>1, <2>2
<1> QED
  BY <1>4, <1>5, <1>6 DEF t, u, v

LEMMA PutIn ==
    ASSUME NEW S, NEW s \in Seq(S), NEW p \in 0..Len(s), NEW c \in S
    PROVE  LET t == Append(SubSeq(s, 1, p), c) \o SubSeq(s, p + 1, Len(s)) IN
           /\ t \in Seq(S) /\ Len(t) = Len(s) + 1
           /\ \A k \in 1..p : t[k] = s[k]
           /\ \A k \in p + 2..Len(s) + 1 : t[k] = s[k - 1]
<1>1. Len(s) \in Nat /\ p \in Nat /\ p <= Len(s)
  OBVIOUS
<1>. DEFINE u == Append(SubSeq(s, 1, p), c)
            v == SubSeq(s, p + 1, Len(s))
            t == u \o v
<1>2. u \in Seq(S) /\ Len(u) = p + 1 /\ \A k \in 1..p : u[k] = s[k]
  <2>1. /\ SubSeq(s, 1, p) \in Seq(S) /\ Len(SubSeq(s, 1, p)) = p
        /\ \A k \in 1..p : SubSeq(s, 1, p)[k] = s[k]
    BY <1>1
  <2> QED
    BY <2>1, AppendIs
<1>3. v \in Seq(S) /\ Len(v) = Len(s) - p /\ \A k \in 1..Len(s) - p : v[k] = s[p + 1 + k - 1]
  BY <1>1
<1>. HIDE DEF u, v
<1>4. /\ t \in Seq(S) /\ Len(t) = Len(u) + Len(v)
      /\ \A k \in 1..Len(u) : t[k] = u[k]
      /\ \A k \in Len(u) + 1..Len(u) + Len(v) : t[k] = v[k - Len(u)]
  BY <1>2, <1>3, Joined
<1>. HIDE DEF t
<1>5. Len(t) = Len(s) + 1 /\ \A k \in 1..p : t[k] = s[k]
  <2>1. Len(t) = Len(s) + 1
    BY <1>1, <1>2, <1>3, <1>4
  <2>2. \A k \in 1..p : k \in 1..Len(u)
    BY <1>1, <1>2
  <2> QED
    BY <1>2, <1>4, <2>1, <2>2
<1>6. ASSUME NEW k \in p + 2..Len(s) + 1 PROVE t[k] = s[k - 1]
  <2>1. t[k] = v[k - (p + 1)]
    BY <1>1, <1>2, <1>3, <1>4
  <2>2. k - (p + 1) \in 1..Len(s) - p /\ p + 1 + (k - (p + 1)) - 1 = k - 1
    BY <1>1
  <2> QED
    BY <1>3, <2>1, <2>2
<1> QED
  BY <1>4, <1>5, <1>6 DEF t, u, v
-----------------------------------------------------------------------------

(* Runs of flags                                                           *)

(* If every new run has the text of an old one, the line is marked still.  *)
LEMMA MarksMove ==
    ASSUME Marks(buf, raw, listing, cut), Len(buf') < LINE, raw' \subseteq 0..Len(buf') - 1,
           \A i, j \in raw' : i <= j /\ IsRun(raw', i, j) =>
             \E a, b \in raw : a <= b /\ IsRun(raw, a, b) /\ SubSeq(buf', i + 1, j + 1) = SubSeq(buf, a + 1, b + 1)
    PROVE  Marks(buf', raw', listing, cut)
<1>1. ASSUME NEW i \in raw', NEW j \in raw', i <= j, IsRun(raw', i, j)
      PROVE  IsName(SubSeq(buf', i + 1, j + 1), listing, cut)
  <2>1. PICK a \in raw, b \in raw :
          a <= b /\ IsRun(raw, a, b) /\ SubSeq(buf', i + 1, j + 1) = SubSeq(buf, a + 1, b + 1)
    BY <1>1
  <2>2. IsName(SubSeq(buf, a + 1, b + 1), listing, cut)
    BY <2>1 DEF Marks
  <2> QED
    BY <2>1, <2>2
<1> QED
  BY <1>1 DEF Marks

(* A whole name is how it begins.                                          *)
LEMMA MarksLess ==
    ASSUME NEW s \in Seq(Characters), NEW f, NEW list \in Seq(Seq(Characters)), NEW part, NEW less,
           Marks(s, f, list, part), part => less
    PROVE  Marks(s, f, list, less)
<1>1. ASSUME NEW i \in f, NEW j \in f, i <= j, IsRun(f, i, j)
      PROVE  IsName(SubSeq(s, i + 1, j + 1), list, less)
  <2>. DEFINE word == SubSeq(s, i + 1, j + 1)
  <2>1. PICK n \in 1..Len(list) : IF part THEN Begins(list[n], word) ELSE word = list[n]
    BY <1>1 DEF Marks, IsName
  <2>2. list[n] \in Seq(Characters)
    OBVIOUS
  <2>3. Begins(list[n], list[n])
    BY <2>2 DEF Begins
  <2> QED
    BY <2>1, <2>3 DEF IsName
<1> QED
  BY <1>1 DEF Marks

(* An edit at p takes whole runs, and all those next to it.                *)
LEMMA RestIsRuns ==
    ASSUME raw \subseteq 0..Length - 1, Length \in Nat, NEW p \in Nat
    PROVE  LET rest == raw \ Touched(p) IN
           /\ p \notin rest /\ p - 1 \notin rest
           /\ \A x \in rest : x + 1 \in raw => x + 1 \in rest
           /\ \A x \in rest : x - 1 \in raw => x - 1 \in rest
<1>. DEFINE Left(i) == i < p /\ i..p - 1 \subseteq raw
            Right(i) == i >= p /\ i < Length /\ p..i \subseteq raw
<1>1. \A i \in raw : i \in Nat /\ i < Length
  OBVIOUS
<1>2. Touched(p) = {i \in raw : Left(i) \/ Right(i)}
  BY DEF Touched
<1>3. p \in raw => Right(p)
  BY <1>1
<1>4. p - 1 \in raw => Left(p - 1)
  BY <1>1
<1>5. ASSUME NEW x \in raw, x + 1 \in raw PROVE (Left(x) \/ Right(x)) <=> (Left(x + 1) \/ Right(x + 1))
  <2>0. x \in Nat
    BY <1>1
  <2>1. CASE x + 1 < p
    BY <1>1, <1>5, <2>0, <2>1
  <2>2. CASE x + 1 = p
    BY <1>1, <1>5, <2>0, <2>2
  <2>3. CASE x + 1 > p
    BY <1>1, <1>5, <2>0, <2>3
  <2> QED
    BY <2>0, <2>1, <2>2, <2>3
<1>. HIDE DEF Left, Right
<1>6. ASSUME NEW x \in raw, x - 1 \in raw PROVE (Left(x) \/ Right(x)) <=> (Left(x - 1) \/ Right(x - 1))
  <2>1. x \in Nat /\ (x - 1) + 1 = x
    BY <1>1
  <2> QED
    BY <1>5, <1>6, <2>1
<1> QED
  BY <1>2, <1>3, <1>4, <1>5, <1>6
-----------------------------------------------------------------------------

LEMMA DeletedRuns ==
    ASSUME raw \subseteq 0..Length - 1, Length \in Nat, Length < LINE, NEW p \in 0..Length - 1
    PROVE  /\ RawDeleted(p) \subseteq 0..Length - 2
           /\ \A i, j \in RawDeleted(p) : i <= j /\ IsRun(RawDeleted(p), i, j) =>
                \/ j < p /\ i \in raw /\ j \in raw /\ IsRun(raw, i, j)
                \/ i >= p /\ i + 1 \in raw /\ j + 1 \in raw /\ IsRun(raw, i + 1, j + 1)
<1>. DEFINE rest == raw \ Touched(p)
            after == RawDeleted(p)
<1>0. LINE \in Nat /\ p \in Nat /\ p <= Length - 1
  BY CommandLineAssumption
<1>1. /\ p \notin rest /\ p - 1 \notin rest
      /\ \A x \in rest : x + 1 \in raw => x + 1 \in rest
      /\ \A x \in rest : x - 1 \in raw => x - 1 \in rest
  BY <1>0, RestIsRuns
<1>2. \A i \in rest : i \in raw /\ i \in Nat /\ i < Length
  OBVIOUS
<1>3. \A i : i \in after <=> i \in 0..LINE - 1 /\ IF i \in p..Length - 1 THEN i + 1 \in rest ELSE i \in rest
  BY DEF RawDeleted
<1>. HIDE DEF rest, after
<1>4. \A i \in after : i \in Nat /\ i # p - 1
  BY <1>0, <1>1, <1>3
<1>5. \A i \in after : i <= Length - 2
  BY <1>0, <1>2, <1>3
<1>6. \A i \in Nat : i < p => (i \in after <=> i \in rest)
  BY <1>0, <1>3
<1>7. \A i \in Nat : i >= p => (i \in after <=> i + 1 \in rest)
  <2>1. SUFFICES ASSUME NEW i \in Nat, i >= p PROVE i \in after <=> i + 1 \in rest
    OBVIOUS
  <2>2. CASE i <= Length - 1
    BY <1>0, <1>3, <2>1, <2>2
  <2>3. CASE ~(i <= Length - 1)
    BY <1>0, <1>2, <1>3, <2>1, <2>3
  <2> QED
    BY <2>2, <2>3
<1>8. ASSUME NEW i \in after, NEW j \in after, i <= j, IsRun(after, i, j)
      PROVE  \/ j < p /\ i \in raw /\ j \in raw /\ IsRun(raw, i, j)
             \/ i >= p /\ i + 1 \in raw /\ j + 1 \in raw /\ IsRun(raw, i + 1, j + 1)
  <2>1. i \in Nat /\ j \in Nat /\ i # p - 1 /\ j # p - 1
    BY <1>4
  <2>2. i..j \subseteq after /\ i - 1 \notin after /\ j + 1 \notin after
    BY <1>8 DEF IsRun
  <2>3. ~(i < p /\ j >= p)
    <3>1. SUFFICES ASSUME i < p, j >= p PROVE FALSE
      OBVIOUS
    <3>2. p - 1 \in i..j
      BY <1>0, <2>1, <3>1
    <3> QED
      BY <1>4, <2>2, <3>2
  <2>4. CASE j < p
    <3>1. \A k \in i..j : k \in rest
      BY <1>6, <2>1, <2>2, <2>4
    <3>2. i - 1 \notin raw
      <4>1. SUFFICES ASSUME i - 1 \in raw PROVE FALSE
        OBVIOUS
      <4>2. i \in rest
        BY <2>1, <1>8, <3>1
      <4>3. i - 1 \in rest /\ i - 1 \in Nat /\ i - 1 < p
        BY <1>0, <1>1, <1>2, <1>8, <2>1, <2>4, <4>1, <4>2
      <4> QED
        BY <1>6, <2>2, <4>3
    <3>3. j + 1 \notin raw
      <4>1. SUFFICES ASSUME j + 1 \in raw PROVE FALSE
        OBVIOUS
      <4>2. j \in rest
        BY <2>1, <1>8, <3>1
      <4>3. j + 1 \in rest /\ j + 1 \in Nat /\ j + 1 < p
        BY <1>0, <1>1, <2>1, <2>4, <4>1, <4>2
      <4> QED
        BY <1>6, <2>2, <4>3
    <3>4. i..j \subseteq raw
      BY <1>2, <3>1
    <3>5. i \in i..j /\ j \in i..j
      BY <1>8, <2>1
    <3> QED
      BY <2>4, <3>2, <3>3, <3>4, <3>5 DEF IsRun
  <2>5. CASE i >= p
    <3>1. \A k \in i..j : k + 1 \in rest
      BY <1>0, <1>7, <2>1, <2>2, <2>5
    <3>2. i \notin raw
      <4>1. SUFFICES ASSUME i \in raw PROVE FALSE
        OBVIOUS
      <4>2. i + 1 \in rest /\ (i + 1) - 1 = i
        BY <2>1, <1>8, <3>1
      <4>3. i \in rest
        BY <1>1, <4>1, <4>2
      <4>4. i # p
        BY <1>1, <4>3
      <4>5. i - 1 \in Nat /\ i - 1 >= p /\ (i - 1) + 1 = i
        BY <1>0, <2>1, <2>5, <4>4
      <4> QED
        BY <1>7, <2>2, <4>3, <4>5
    <3>3. j + 2 \notin raw
      <4>1. SUFFICES ASSUME j + 2 \in raw PROVE FALSE
        OBVIOUS
      <4>2. j + 1 \in rest /\ (j + 1) + 1 = j + 2
        BY <2>1, <1>8, <3>1
      <4>3. j + 2 \in rest
        BY <1>1, <4>1, <4>2
      <4>4. j + 1 \in Nat /\ j + 1 >= p
        BY <1>0, <1>8, <2>1, <2>5
      <4> QED
        BY <1>7, <2>2, <4>2, <4>3, <4>4
    <3>4. i + 1..j + 1 \subseteq raw
      <4>1. SUFFICES ASSUME NEW k \in i + 1..j + 1 PROVE k \in raw
        OBVIOUS
      <4>2. k - 1 \in i..j /\ (k - 1) + 1 = k
        BY <2>1
      <4>3. k \in rest
        BY <3>1, <4>2
      <4> QED
        BY <1>2, <4>3
    <3>5. i + 1 \in i + 1..j + 1 /\ j + 1 \in i + 1..j + 1 /\ (i + 1) - 1 = i /\ (j + 1) + 1 = j + 2
      BY <1>8, <2>1
    <3>6. i + 1 \in raw /\ j + 1 \in raw
      BY <3>4, <3>5
    <3> QED
      BY <2>5, <3>2, <3>3, <3>4, <3>5, <3>6 DEF IsRun
  <2> QED
    BY <1>0, <2>1, <2>3, <2>4, <2>5
<1>9. after \subseteq 0..Length - 2
  BY <1>4, <1>5
<1> QED
  BY <1>8, <1>9 DEF after

LEMMA InsertedRuns ==
    ASSUME raw \subseteq 0..Length - 1, Length \in Nat, Length < LINE - 1, NEW p \in 0..Length
    PROVE  /\ RawInserted(p) \subseteq 0..Length
           /\ \A i, j \in RawInserted(p) : i <= j /\ IsRun(RawInserted(p), i, j) =>
                \/ j < p /\ i \in raw /\ j \in raw /\ IsRun(raw, i, j)
                \/ i > p /\ i - 1 \in raw /\ j - 1 \in raw /\ IsRun(raw, i - 1, j - 1)
<1>. DEFINE rest == raw \ Touched(p)
            after == RawInserted(p)
<1>0. LINE \in Nat /\ p \in Nat /\ p <= Length
  BY CommandLineAssumption
<1>1. /\ p \notin rest /\ p - 1 \notin rest
      /\ \A x \in rest : x + 1 \in raw => x + 1 \in rest
      /\ \A x \in rest : x - 1 \in raw => x - 1 \in rest
  BY <1>0, RestIsRuns
<1>2. \A i \in rest : i \in raw /\ i \in Nat /\ i < Length
  OBVIOUS
<1>3. \A i : i \in after <=>
               i \in 0..LINE - 1 /\ i # p /\ IF i \in p + 1..Length THEN i - 1 \in rest ELSE i \in rest
  BY DEF RawInserted
<1>. HIDE DEF rest, after
<1>4. \A i \in after : i \in Nat /\ i # p
  BY <1>0, <1>3
<1>5. \A i \in after : i <= Length
  BY <1>0, <1>2, <1>3
<1>6. \A i \in Nat : i < p => (i \in after <=> i \in rest)
  BY <1>0, <1>3
<1>7. \A i \in Nat : i > p => (i \in after <=> i - 1 \in rest)
  <2>1. SUFFICES ASSUME NEW i \in Nat, i > p PROVE i \in after <=> i - 1 \in rest
    OBVIOUS
  <2>2. CASE i <= Length
    BY <1>0, <1>3, <2>1, <2>2
  <2>3. CASE ~(i <= Length)
    BY <1>0, <1>2, <1>3, <2>1, <2>3
  <2> QED
    BY <2>2, <2>3
<1>8. ASSUME NEW i \in after, NEW j \in after, i <= j, IsRun(after, i, j)
      PROVE  \/ j < p /\ i \in raw /\ j \in raw /\ IsRun(raw, i, j)
             \/ i > p /\ i - 1 \in raw /\ j - 1 \in raw /\ IsRun(raw, i - 1, j - 1)
  <2>1. i \in Nat /\ j \in Nat /\ i # p /\ j # p
    BY <1>4
  <2>2. i..j \subseteq after /\ i - 1 \notin after /\ j + 1 \notin after
    BY <1>8 DEF IsRun
  <2>3. ~(i < p /\ j > p)
    <3>1. SUFFICES ASSUME i < p, j > p PROVE FALSE
      OBVIOUS
    <3>2. p \in i..j
      BY <1>0, <2>1, <3>1
    <3> QED
      BY <1>4, <2>2, <3>2
  <2>4. CASE j < p
    <3>1. \A k \in i..j : k \in rest
      BY <1>6, <2>1, <2>2, <2>4
    <3>2. i - 1 \notin raw
      <4>1. SUFFICES ASSUME i - 1 \in raw PROVE FALSE
        OBVIOUS
      <4>2. i \in rest
        BY <2>1, <1>8, <3>1
      <4>3. i - 1 \in rest /\ i - 1 \in Nat /\ i - 1 < p
        BY <1>0, <1>1, <1>2, <1>8, <2>1, <2>4, <4>1, <4>2
      <4> QED
        BY <1>6, <2>2, <4>3
    <3>3. j + 1 \notin raw
      <4>1. SUFFICES ASSUME j + 1 \in raw PROVE FALSE
        OBVIOUS
      <4>2. j \in rest
        BY <2>1, <1>8, <3>1
      <4>3. j + 1 \in rest /\ j + 1 # p
        BY <1>1, <4>1, <4>2
      <4>4. j + 1 \in Nat /\ j + 1 < p
        BY <1>0, <2>1, <2>4, <4>3
      <4> QED
        BY <1>6, <2>2, <4>3, <4>4
    <3>4. i..j \subseteq raw
      BY <1>2, <3>1
    <3>5. i \in i..j /\ j \in i..j
      BY <1>8, <2>1
    <3> QED
      BY <2>4, <3>2, <3>3, <3>4, <3>5 DEF IsRun
  <2>5. CASE i > p
    <3>1. \A k \in i..j : k - 1 \in rest
      BY <1>0, <1>7, <2>1, <2>2, <2>5
    <3>2. i - 2 \notin raw
      <4>1. SUFFICES ASSUME i - 2 \in raw PROVE FALSE
        OBVIOUS
      <4>2. i - 1 \in rest /\ (i - 1) - 1 = i - 2
        BY <2>1, <1>8, <3>1
      <4>3. i - 2 \in rest /\ i - 2 # p - 1
        BY <1>1, <4>1, <4>2
      <4>4. i - 1 \in Nat /\ i - 1 > p
        BY <1>0, <2>1, <2>5, <4>3
      <4> QED
        BY <1>7, <2>2, <4>2, <4>3, <4>4
    <3>3. j \notin raw
      <4>1. SUFFICES ASSUME j \in raw PROVE FALSE
        OBVIOUS
      <4>2. j - 1 \in rest /\ (j - 1) + 1 = j
        BY <2>1, <1>8, <3>1
      <4>3. j \in rest
        BY <1>1, <4>1, <4>2
      <4>4. j + 1 \in Nat /\ j + 1 > p /\ (j + 1) - 1 = j
        BY <1>0, <1>8, <2>1, <2>5
      <4> QED
        BY <1>7, <2>2, <4>3, <4>4
    <3>4. i - 1..j - 1 \subseteq raw
      <4>1. SUFFICES ASSUME NEW k \in i - 1..j - 1 PROVE k \in raw
        OBVIOUS
      <4>2. k + 1 \in i..j /\ (k + 1) - 1 = k
        BY <2>1
      <4>3. k \in rest
        BY <3>1, <4>2
      <4> QED
        BY <1>2, <4>3
    <3>5. i - 1 \in i - 1..j - 1 /\ j - 1 \in i - 1..j - 1 /\ (i - 1) - 1 = i - 2 /\ (j - 1) + 1 = j
      BY <1>8, <2>1
    <3>6. i - 1 \in raw /\ j - 1 \in raw
      BY <3>4, <3>5
    <3> QED
      BY <2>5, <3>2, <3>3, <3>4, <3>5, <3>6 DEF IsRun
  <2> QED
    BY <1>0, <2>1, <2>3, <2>4, <2>5
<1>9. after \subseteq 0..Length
  BY <1>4, <1>5
<1> QED
  BY <1>8, <1>9 DEF after
-----------------------------------------------------------------------------

(* Keys                                                                    *)

LEMMA LineFacts ==
    ASSUME LineInv
    PROVE  /\ Length \in Nat /\ Length < LINE /\ LINE \in Nat /\ raw \subseteq 0..Length - 1
           /\ pos \in Nat /\ pos <= Length /\ RECALL \in Nat /\ RECALL > 0
           /\ [text |-> buf, raw |-> raw] \in LineType /\ Flagged([text |-> buf, raw |-> raw])
<1>. USE DEF Length
<1>1. /\ Length \in Nat /\ Length < LINE /\ LINE \in Nat /\ raw \subseteq 0..Length - 1
      /\ pos \in Nat /\ pos <= Length /\ RECALL \in Nat /\ RECALL > 0
  BY CommandLineAssumption DEF LineInv, Marks
<1>2. raw \in SUBSET (0..LINE - 1)
  BY <1>1
<1>3. [text |-> buf, raw |-> raw] \in LineType
  BY <1>2 DEF LineType, LineInv
<1> QED
  BY <1>1, <1>3 DEF Flagged, LineInv

LEMMA MarkedSame ==
    ASSUME UNCHANGED <<listing, cut>>
    PROVE  \A line : Flagged(line)' <=> Flagged(line)
BY DEF Flagged

LEMMA EditKeeps ==
    ASSUME LineInv, buf' \in Seq(Characters), pos' \in 0..Len(buf'), Marks(buf', raw', listing, cut),
           NoCompletion, UNCHANGED <<h, draft, listing, history, histnext, histcount>>
    PROVE  LineInv'
<1>1. UNCHANGED <<listing, cut>> /\ comp' = {} /\ ci' = ci
  BY DEF NoCompletion
<1>2. Flagged(draft)' /\ \A k \in 0..RECALL - 1 : Flagged(history[k])'
  BY <1>1, MarkedSame DEF LineInv
<1>3. Marks(buf', raw', listing', cut') /\ pos' \in 0..Length'
  BY <1>1 DEF Length
<1>4. /\ listing' \in Seq(Seq(Characters)) /\ cut' \in BOOLEAN /\ ci' \in Nat
      /\ histnext' \in 0..RECALL - 1 /\ histcount' \in Nat /\ h' \in Nat
      /\ history' \in [0..RECALL - 1 -> LineType]
  BY <1>1 DEF LineInv
<1> QED
  BY <1>1, <1>2, <1>3, <1>4 DEF LineInv

LEMMA DeleteKeeps ==
    ASSUME LineInv, DeleteKey
    PROVE  LineInv'
<1>. USE DEF Length
<1>. DEFINE p == pos - 1
<1>1. /\ pos > 0 /\ raw' = RawDeleted(p) /\ buf' = SubSeq(buf, 1, p) \o SubSeq(buf, p + 2, Len(buf))
      /\ pos' = p /\ NoCompletion /\ UNCHANGED <<h, draft, listing, history, histnext, histcount>>
  <2>1. pos + 1 = p + 2
    BY LineFacts
  <2> QED
    BY <2>1 DEF DeleteKey, Before, From, historyVars
<1>2. p \in 0..Len(buf) - 1 /\ p \in Nat /\ Len(buf) \in Nat /\ LINE \in Nat
  BY <1>1, LineFacts
<1>3. buf \in Seq(Characters) /\ Marks(buf, raw, listing, cut)
  BY DEF LineInv
<1>4. /\ buf' \in Seq(Characters) /\ Len(buf') = Len(buf) - 1
      /\ \A k \in 1..p : buf'[k] = buf[k]
      /\ \A k \in p + 1..Len(buf) - 1 : buf'[k] = buf[k + 1]
  BY <1>1, <1>2, <1>3, CutOut
<1>5. /\ raw' \subseteq 0..Len(buf) - 2
      /\ \A i, j \in raw' : i <= j /\ IsRun(raw', i, j) =>
                \/ j < p /\ i \in raw /\ j \in raw /\ IsRun(raw, i, j)
                \/ i >= p /\ i + 1 \in raw /\ j + 1 \in raw /\ IsRun(raw, i + 1, j + 1)
  BY <1>1, <1>2, LineFacts, DeletedRuns
<1>. HIDE DEF p
<1>6. ASSUME NEW i \in raw', NEW j \in raw', i <= j, IsRun(raw', i, j)
      PROVE  \E a, b \in raw : a <= b /\ IsRun(raw, a, b) /\ SubSeq(buf', i + 1, j + 1) = SubSeq(buf, a + 1, b + 1)
  <2>1. i \in Nat /\ j \in Nat /\ j <= Len(buf) - 2
    BY <1>2, <1>5
  <2>2. CASE j < p /\ i \in raw /\ j \in raw /\ IsRun(raw, i, j)
    <3>1. \A k \in i + 1..j + 1 : buf'[k] = buf[k + 0]
      BY <1>2, <1>4, <2>1, <2>2
    <3>2. /\ i + 1 \in Nat /\ j + 1 \in Nat /\ 1 <= i + 1 /\ i + 1 <= j + 1
          /\ j + 1 <= Len(buf') /\ 1 <= i + 1 + 0 /\ j + 1 + 0 <= Len(buf)
      BY <1>2, <1>4, <1>6, <2>1
    <3>3. SubSeq(buf', i + 1, j + 1) = SubSeq(buf, i + 1 + 0, j + 1 + 0)
      BY <1>3, <1>4, <3>1, <3>2, SameStretch
    <3>4. i + 1 + 0 = i + 1 /\ j + 1 + 0 = j + 1
      BY <2>1
    <3> QED
      BY <1>6, <2>2, <3>3, <3>4
  <2>3. CASE i >= p /\ i + 1 \in raw /\ j + 1 \in raw /\ IsRun(raw, i + 1, j + 1)
    <3>1. \A k \in i + 1..j + 1 : buf'[k] = buf[k + 1]
      BY <1>2, <1>4, <2>1, <2>3
    <3>2. /\ i + 1 \in Nat /\ j + 1 \in Nat /\ 1 <= i + 1 /\ i + 1 <= j + 1
          /\ j + 1 <= Len(buf') /\ 1 <= i + 1 + 1 /\ j + 1 + 1 <= Len(buf)
      BY <1>2, <1>4, <1>6, <2>1
    <3>3. SubSeq(buf', i + 1, j + 1) = SubSeq(buf, i + 1 + 1, j + 1 + 1)
      <4>. DEFINE a == i + 1
                  b == j + 1
      <4>1. a \in Nat /\ b \in Nat /\ 1 <= a /\ a <= b /\ b <= Len(buf') /\ 1 <= a + 1 /\ b + 1 <= Len(buf)
        BY <3>2
      <4>2. \A k \in a..b : buf'[k] = buf[k + 1]
        BY <3>1
      <4>. HIDE DEF a, b
      <4>3. SubSeq(buf', a, b) = SubSeq(buf, a + 1, b + 1)
        BY <1>3, <1>4, <4>1, <4>2, SameStretch
      <4> QED
        BY <4>3 DEF a, b
    <3> QED
      BY <2>3, <3>2, <3>3
  <2> QED
    BY <1>5, <1>6, <2>2, <2>3
<1>7. Len(buf') < LINE /\ raw' \subseteq 0..Len(buf') - 1
  <2>1. Len(buf') - 1 = Len(buf) - 2 /\ Len(buf) < LINE
    BY <1>2, <1>4, LineFacts
  <2> QED
    BY <1>2, <1>4, <1>5, <2>1
<1>8. Marks(buf', raw', listing, cut)
  <2>1. \A i, j \in raw' : i <= j /\ IsRun(raw', i, j) =>
          \E a, b \in raw : a <= b /\ IsRun(raw, a, b) /\ SubSeq(buf', i + 1, j + 1) = SubSeq(buf, a + 1, b + 1)
    BY <1>6
  <2> QED
    BY <1>3, <1>7, <2>1, MarksMove
<1>9. pos' \in 0..Len(buf')
  BY <1>1, <1>2, <1>4 DEF p
<1> QED
  BY <1>1, <1>4, <1>8, <1>9, EditKeeps

LEMMA TypeKeeps ==
    ASSUME LineInv, TypeKey
    PROVE  LineInv'
<1>. USE DEF Length
<1>1. PICK c \in Characters : buf' = Append(SubSeq(buf, 1, pos), c) \o SubSeq(buf, pos + 1, Len(buf))
  BY DEF TypeKey, Before, From, Characters
<1>2. /\ Len(buf) < LINE - 1 /\ raw' = RawInserted(pos) /\ pos' = pos + 1
      /\ NoCompletion /\ UNCHANGED <<h, draft, listing, history, histnext, histcount>>
  BY DEF TypeKey, historyVars
<1>3. pos \in 0..Len(buf) /\ pos \in Nat /\ pos <= Len(buf) /\ Len(buf) \in Nat /\ LINE \in Nat
  BY LineFacts
<1>4. buf \in Seq(Characters) /\ Marks(buf, raw, listing, cut)
  BY DEF LineInv
<1>5. /\ buf' \in Seq(Characters) /\ Len(buf') = Len(buf) + 1
      /\ \A k \in 1..pos : buf'[k] = buf[k]
      /\ \A k \in pos + 2..Len(buf) + 1 : buf'[k] = buf[k - 1]
  BY <1>1, <1>3, <1>4, PutIn
<1>6. /\ raw' \subseteq 0..Len(buf)
      /\ \A i, j \in raw' : i <= j /\ IsRun(raw', i, j) =>
                \/ j < pos /\ i \in raw /\ j \in raw /\ IsRun(raw, i, j)
                \/ i > pos /\ i - 1 \in raw /\ j - 1 \in raw /\ IsRun(raw, i - 1, j - 1)
  BY <1>2, <1>3, LineFacts, InsertedRuns
<1>7. ASSUME NEW i \in raw', NEW j \in raw', i <= j, IsRun(raw', i, j)
      PROVE  \E a, b \in raw : a <= b /\ IsRun(raw, a, b) /\ SubSeq(buf', i + 1, j + 1) = SubSeq(buf, a + 1, b + 1)
  <2>1. i \in Nat /\ j \in Nat /\ j <= Len(buf)
    BY <1>3, <1>6
  <2>2. CASE j < pos /\ i \in raw /\ j \in raw /\ IsRun(raw, i, j)
    <3>1. \A k \in i + 1..j + 1 : buf'[k] = buf[k + 0]
      BY <1>3, <1>5, <2>1, <2>2
    <3>2. /\ i + 1 \in Nat /\ j + 1 \in Nat /\ 1 <= i + 1 /\ i + 1 <= j + 1
          /\ j + 1 <= Len(buf') /\ 1 <= i + 1 + 0 /\ j + 1 + 0 <= Len(buf)
      BY <1>3, <1>5, <1>7, <2>1, <2>2
    <3>3. SubSeq(buf', i + 1, j + 1) = SubSeq(buf, i + 1 + 0, j + 1 + 0)
      BY <1>4, <1>5, <3>1, <3>2, SameStretch
    <3>4. i + 1 + 0 = i + 1 /\ j + 1 + 0 = j + 1
      BY <2>1
    <3> QED
      BY <1>7, <2>2, <3>3, <3>4
  <2>3. CASE i > pos /\ i - 1 \in raw /\ j - 1 \in raw /\ IsRun(raw, i - 1, j - 1)
    <3>1. \A k \in i + 1..j + 1 : buf'[k] = buf[k + (-1)]
      <4>1. SUFFICES ASSUME NEW k \in i + 1..j + 1 PROVE buf'[k] = buf[k + (-1)]
        OBVIOUS
      <4>2. k \in pos + 2..Len(buf) + 1 /\ k + (-1) = k - 1
        BY <1>3, <2>1, <2>3
      <4> QED
        BY <1>5, <4>2
    <3>2. /\ i + 1 \in Nat /\ j + 1 \in Nat /\ 1 <= i + 1 /\ i + 1 <= j + 1 /\ -1 \in Int
          /\ j + 1 <= Len(buf') /\ 1 <= i + 1 + (-1) /\ j + 1 + (-1) <= Len(buf)
      BY <1>3, <1>5, <1>7, <2>1, <2>3
    <3>3. SubSeq(buf', i + 1, j + 1) = SubSeq(buf, i + 1 + (-1), j + 1 + (-1))
      <4>. DEFINE a == i + 1
                  b == j + 1
                  d == -1
      <4>1. /\ a \in Nat /\ b \in Nat /\ d \in Int /\ 1 <= a /\ a <= b
            /\ b <= Len(buf') /\ 1 <= a + d /\ b + d <= Len(buf)
        BY <3>2
      <4>2. \A k \in a..b : buf'[k] = buf[k + d]
        BY <3>1
      <4>. HIDE DEF a, b, d
      <4>3. SubSeq(buf', a, b) = SubSeq(buf, a + d, b + d)
        BY <1>4, <1>5, <4>1, <4>2, SameStretch
      <4> QED
        BY <4>3 DEF a, b, d
    <3>4. i + 1 + (-1) = (i - 1) + 1 /\ j + 1 + (-1) = (j - 1) + 1 /\ i - 1 <= j - 1
      BY <1>7, <2>1
    <3> QED
      BY <2>3, <3>3, <3>4
  <2> QED
    BY <1>6, <1>7, <2>2, <2>3
<1>8. Len(buf') < LINE /\ raw' \subseteq 0..Len(buf') - 1
  BY <1>2, <1>3, <1>5, <1>6
<1>9. Marks(buf', raw', listing, cut)
  <2>1. \A i, j \in raw' : i <= j /\ IsRun(raw', i, j) =>
          \E a, b \in raw : a <= b /\ IsRun(raw, a, b) /\ SubSeq(buf', i + 1, j + 1) = SubSeq(buf, a + 1, b + 1)
    BY <1>7
  <2> QED
    BY <1>4, <1>8, <2>1, MarksMove
<1>10. pos' \in 0..Len(buf')
  BY <1>2, <1>3, <1>5
<1> QED
  BY <1>2, <1>5, <1>9, <1>10, EditKeeps
-----------------------------------------------------------------------------

LEMMA CaretKeeps ==
    ASSUME LineInv, MoveCaret
    PROVE  LineInv'
<1>1. UNCHANGED <<buf, raw>> /\ NoCompletion /\ UNCHANGED <<h, draft, listing, history, histnext, histcount>>
  BY DEF MoveCaret, historyVars
<1>2. pos' \in 0..Length
  BY LineFacts DEF MoveCaret
<1>3. buf' \in Seq(Characters) /\ pos' \in 0..Len(buf') /\ Marks(buf', raw', listing, cut)
  BY <1>1, <1>2 DEF LineInv, Length
<1> QED
  BY <1>1, <1>3, EditKeeps

LEMMA RecallKeeps ==
    ASSUME LineInv, Recall
    PROVE  LineInv'
<1>. DEFINE kept == IF h = histcount THEN [text |-> buf, raw |-> raw] ELSE draft
            to == {IF h > 0 THEN h - 1 ELSE h, IF h < histcount THEN h + 1 ELSE h}
            Of(n) == IF n = histcount THEN kept ELSE history[Slot(n)]
<1>1. PICK n \in to : /\ h' = n /\ draft' = kept
                      /\ buf' = Of(n).text /\ raw' = Of(n).raw /\ pos' = Len(Of(n).text)
  BY DEF Recall
<1>2. NoCompletion /\ UNCHANGED <<listing, history, histnext, histcount>>
  BY DEF Recall, historyVars
<1>3. Flagged(kept) /\ kept \in LineType
  BY LineFacts DEF LineInv, Flagged
<1>4. n \in Nat
  BY DEF LineInv
<1>5. Slot(n) \in 0..RECALL - 1
  <2>1. histnext \in Nat /\ histcount \in Nat /\ RECALL \in Nat /\ RECALL > 0
    BY LineFacts DEF LineInv
  <2>2. histnext + RECALL - histcount + n \in Int
    BY <1>4, <2>1
  <2>3. \A x \in Int : x % RECALL \in 0..RECALL - 1
    BY <2>1
  <2> QED
    BY <2>2, <2>3 DEF Slot
<1>6. Flagged(Of(n)) /\ Of(n) \in LineType
  <2>1. Flagged(history[Slot(n)])
    BY <1>5 DEF LineInv
  <2> QED
    BY <1>3, <2>1 DEF Flagged
<1>. DEFINE line == Of(n)
<1>7. line.text \in Seq(Characters) /\ Marks(line.text, line.raw, listing, cut) /\ line \in LineType
  BY <1>6 DEF Flagged, LineType
<1>8. buf' = line.text /\ raw' = line.raw /\ pos' = Len(line.text) /\ h' = n /\ draft' = kept
  BY <1>1
<1>. HIDE DEF kept, to, Of, line
<1>9. /\ UNCHANGED <<listing, cut, history, histnext, histcount, ci>> /\ comp' = {}
  BY <1>2 DEF NoCompletion
<1>10. Marks(buf', raw', listing', cut') /\ buf' \in Seq(Characters) /\ pos' \in 0..Length'
  BY <1>7, <1>8, <1>9 DEF Length
<1>11. Flagged(draft)' /\ \A k \in 0..RECALL - 1 : Flagged(history[k])'
  <2>1. Flagged(kept) => Flagged(draft)'
    BY <1>8, <1>9 DEF Flagged
  <2> QED
    BY <1>3, <1>9, <2>1, MarkedSame DEF LineInv
<1>12. /\ listing' \in Seq(Seq(Characters)) /\ cut' \in BOOLEAN /\ ci' \in Nat
       /\ histnext' \in 0..RECALL - 1 /\ histcount' \in Nat /\ h' \in Nat
       /\ history' \in [0..RECALL - 1 -> LineType]
  BY <1>4, <1>8, <1>9 DEF LineInv
<1> QED
  BY <1>9, <1>10, <1>11, <1>12 DEF LineInv

(* An empty line again, with the history as it is now.                     *)
LEMMA FreshKeeps ==
    ASSUME LineInv, Fresh, UNCHANGED listing, histnext' \in 0..RECALL - 1, histcount' \in Nat,
           history' \in [0..RECALL - 1 -> LineType], \A k \in 0..RECALL - 1 : Flagged(history'[k])
    PROVE  LineInv'
<1>1. buf' = <<>> /\ raw' = {} /\ pos' = 0 /\ comp' = {} /\ ci' = 0 /\ h' = histcount' /\ UNCHANGED <<draft, cut>>
  BY DEF Fresh
<1>2. Len(<<>>) = 0 /\ <<>> \in Seq(Characters) /\ 0 < LINE
  BY LineFacts
<1>3. Marks(buf', raw', listing', cut') /\ buf' \in Seq(Characters) /\ pos' \in 0..Length'
  BY <1>1, <1>2 DEF Marks, Length
<1>4. Flagged(draft)' /\ \A k \in 0..RECALL - 1 : Flagged(history[k])'
  <2>1. Flagged(draft)
    BY DEF LineInv
  <2>2. Flagged(draft)'
    BY <1>1, <2>1 DEF Flagged
  <2>3. \A k \in 0..RECALL - 1 : Flagged(history'[k]) <=> Flagged(history[k])'
    BY <1>1 DEF Flagged
  <2> QED
    BY <2>2, <2>3
<1>5. /\ listing' \in Seq(Seq(Characters)) /\ cut' \in BOOLEAN /\ ci' \in Nat /\ h' \in Nat
  BY <1>1 DEF LineInv
<1> QED
  BY <1>1, <1>3, <1>4, <1>5 DEF LineInv

LEMMA EnterKeeps ==
    ASSUME LineInv, EnterKey \/ StopKey
    PROVE  LineInv'
<1>1. Fresh /\ UNCHANGED listing
  BY DEF EnterKey, StopKey
<1>2. CASE UNCHANGED historyVars
  BY <1>1, <1>2, FreshKeeps DEF historyVars, LineInv
<1>3. CASE ~UNCHANGED historyVars
  <2>. DEFINE line == [text |-> buf, raw |-> raw]
  <2>1. /\ history' = [history EXCEPT ![histnext] = line]
        /\ histnext' = (histnext + 1) % RECALL
        /\ histcount' = IF histcount < RECALL THEN histcount + 1 ELSE histcount
    BY <1>3 DEF EnterKey, StopKey
  <2>2. line \in LineType /\ Flagged(line)
    BY LineFacts
  <2>. HIDE DEF line
  <2>3. /\ RECALL \in Nat /\ RECALL > 0 /\ histnext \in 0..RECALL - 1 /\ histcount \in Nat
        /\ history \in [0..RECALL - 1 -> LineType] /\ \A k \in 0..RECALL - 1 : Flagged(history[k])
    BY LineFacts DEF LineInv
  <2>4. histnext' \in 0..RECALL - 1 /\ histcount' \in Nat
    <3>1. \A x \in Nat : x % RECALL \in 0..RECALL - 1
      BY <2>3
    <3> QED
      BY <2>1, <2>3, <3>1
  <2>5. history' \in [0..RECALL - 1 -> LineType]
    BY <2>1, <2>2, <2>3
  <2>6. \A k \in 0..RECALL - 1 : history'[k] = line \/ history'[k] = history[k]
    BY <2>1, <2>3
  <2>7. \A k \in 0..RECALL - 1 : Flagged(history'[k])
    BY <2>2, <2>3, <2>6
  <2> QED
    BY <1>1, <2>4, <2>5, <2>7, FreshKeeps
<1> QED
  BY <1>2, <1>3

LEMMA BatchKeepsLine ==
    ASSUME LineInv, ReadBatch
    PROVE  LineInv'
<1>1. raw' = {} /\ UNCHANGED <<buf, pos, comp, ci, h, draft, cut, listing, history, histnext, histcount>>
  BY DEF ReadBatch, historyVars
<1>2. Marks(buf', raw', listing', cut')
  BY <1>1, LineFacts DEF Marks, Length
<1>3. Flagged(draft)' /\ \A k \in 0..RECALL - 1 : Flagged(history[k])'
  BY <1>1, MarkedSame DEF LineInv
<1>4. Length' = Length
  BY <1>1 DEF Length
<1> QED
  BY <1>1, <1>2, <1>3, <1>4 DEF LineInv
-----------------------------------------------------------------------------

(* Completion                                                              *)

(* What is before the end of how a name begins is how it begins.           *)
LEMMA PartBegins ==
    ASSUME NEW name \in Seq(Characters), NEW line \in Seq(Characters),
           NEW a \in Nat, NEW b \in Nat, NEW d \in Nat, 1 <= a, a <= d, d <= b, b <= Len(line),
           Begins(name, SubSeq(line, a, b))
    PROVE  Begins(name, SubSeq(line, a, d))
<1>. DEFINE l == d - a + 1
            m == b - a + 1
            e == a - 1
<1>0. Len(name) \in Nat /\ Len(line) \in Nat
  OBVIOUS
<1>1. Len(SubSeq(line, a, b)) = m /\ \A k \in 1..m : SubSeq(line, a, b)[k] = line[a + k - 1]
  BY <1>0
<1>2. Len(SubSeq(line, a, d)) = l
  BY <1>0
<1>3. /\ l \in Nat /\ m \in Nat /\ e \in Int /\ 1 <= l /\ l <= m /\ m <= Len(name)
      /\ 1 + e = a /\ l + e = d /\ 1 <= a /\ d <= Len(line)
  BY <1>0, <1>1 DEF Begins
<1>4. SubSeq(name, 1, m) = SubSeq(line, a, b)
  BY <1>1 DEF Begins
<1>5. \A k \in 1..l : name[k] = line[k + e]
  <2>1. SUFFICES ASSUME NEW k \in 1..l PROVE name[k] = line[k + e]
    OBVIOUS
  <2>2. k \in 1..m /\ a + k - 1 = k + e /\ 1 + k - 1 = k
    BY <1>3
  <2>3. SubSeq(name, 1, m)[k] = name[k]
    BY <1>0, <1>3, <2>2
  <2> QED
    BY <1>1, <1>4, <2>2, <2>3
<1>. HIDE DEF l, m, e
<1>6. SubSeq(name, 1, l) = SubSeq(line, 1 + e, l + e)
  <2>1. 1 \in Nat /\ l <= Len(name) /\ 1 <= 1 /\ 1 <= 1 + e /\ l + e <= Len(line)
    BY <1>0, <1>3
  <2> QED
    BY <1>3, <1>5, <2>1, SameStretch
<1> QED
  BY <1>2, <1>3, <1>6 DEF Begins

(* A flag is in a run, which ends.                                         *)
LEMMA RunEnds ==
    ASSUME NEW n \in Nat, raw \subseteq 0..n, NEW i \in raw
    PROVE  \E b \in raw : i <= b /\ i..b \subseteq raw /\ b + 1 \notin raw
<1>. DEFINE Off == {x \in Nat : x >= i /\ x \notin raw}
<1>1. n + 1 \in Off
  <2>1. n + 1 \notin raw /\ n + 1 \in Nat /\ n + 1 >= i
    OBVIOUS
  <2> QED
    BY <2>1
<1>2. Off \in SUBSET Nat /\ Off # {}
  BY <1>1
<1>3. \A x \in Off : x \in Nat /\ x >= i /\ x \notin raw
  OBVIOUS
<1>4. \A x \in Nat : x >= i /\ x \notin raw => x \in Off
  OBVIOUS
<1>. HIDE DEF Off
<1>5. PICK m \in Off : \A x \in Off : m <= x
  BY <1>2, LeastNumber
<1>6. m \in Nat /\ m > i /\ i \in Nat
  BY <1>3
<1>7. \A x \in i..m - 1 : x \in raw
  BY <1>4, <1>5, <1>6
<1>8. m - 1 \in raw /\ i <= m - 1 /\ (m - 1) + 1 = m
  BY <1>6, <1>7
<1> QED
  BY <1>3, <1>7, <1>8

(* A run before a word is one of the line's, whole or cut off by the word. *)
LEMMA EarlierRuns ==
    ASSUME NEW line \in Seq(Characters), Marks(line, raw, listing, cut), cut \in BOOLEAN,
           listing \in Seq(Seq(Characters)),
           NEW i \in raw, NEW j \in raw, i <= j, i..j \subseteq raw, i - 1 \notin raw,
           NEW less, cut => less, j + 1 \in raw => less
    PROVE  IsName(SubSeq(line, i + 1, j + 1), listing, less)
<1>1. Len(line) \in Nat /\ raw \subseteq 0..Len(line) - 1 /\ i \in Nat /\ j \in Nat
  BY DEF Marks
<1>2. CASE j + 1 \notin raw
  <2>1. Marks(line, raw, listing, less)
    BY MarksLess
  <2> QED
    BY <1>2, <2>1 DEF Marks, IsRun
<1>3. CASE j + 1 \in raw
  <2>1. Len(line) - 1 \in Nat
    BY <1>1
  <2>2. PICK b \in raw : i <= b /\ i..b \subseteq raw /\ b + 1 \notin raw
    BY <1>1, <2>1, RunEnds
  <2>3. b \in Nat /\ b < Len(line)
    BY <1>1
  <2>4. j <= b
    BY <1>1, <1>3, <2>2, <2>3
  <2>5. IsName(SubSeq(line, i + 1, b + 1), listing, cut)
    BY <2>2 DEF Marks, IsRun
  <2>6. PICK n \in 1..Len(listing) : IF cut THEN Begins(listing[n], SubSeq(line, i + 1, b + 1))
                                            ELSE SubSeq(line, i + 1, b + 1) = listing[n]
    BY <2>5 DEF IsName
  <2>7. listing[n] \in Seq(Characters)
    OBVIOUS
  <2>8. Begins(listing[n], SubSeq(line, i + 1, b + 1))
    <3>1. Begins(listing[n], listing[n])
      BY <2>7 DEF Begins
    <3> QED
      BY <2>6, <3>1
  <2>. DEFINE a == i + 1
              e == b + 1
              d == j + 1
  <2>9. a \in Nat /\ e \in Nat /\ d \in Nat /\ 1 <= a /\ a <= d /\ d <= e /\ e <= Len(line)
    BY <1>1, <2>3, <2>4
  <2>10. Begins(listing[n], SubSeq(line, a, e))
    BY <2>8
  <2>. HIDE DEF a, e, d
  <2>11. Begins(listing[n], SubSeq(line, a, d))
    BY <2>7, <2>9, <2>10, PartBegins
  <2>12. less
    BY <1>3
  <2> QED
    BY <2>11, <2>12 DEF IsName, a, d
<1> QED
  BY <1>2, <1>3

(* The name between its quotes.                                            *)
Quoted(lead, name) == <<Quote>> \o lead \o name \o <<Quote>>
WithName(line, start, lead, name) == SubSeq(line, 1, start) \o Quoted(lead, name)

LEMMA QuotedName ==
    ASSUME NEW line \in Seq(Characters), NEW start \in 0..Len(line),
           NEW lead \in Seq(Characters), NEW name \in Seq(Characters)
    PROVE  LET word == Quoted(lead, name)
               changed == WithName(line, start, lead, name)
           IN  /\ changed \in Seq(Characters) /\ Len(word) = Len(lead) + Len(name) + 2
               /\ Len(changed) = start + Len(lead) + Len(name) + 2
               /\ \A k \in 1..start : changed[k] = line[k]
               /\ \A k \in 1..Len(name) : changed[k + (start + 1 + Len(lead))] = name[k]
<1>. DEFINE quote == <<Quote>>
            front == quote \o lead
            named == front \o name
            word == named \o quote
            stem == SubSeq(line, 1, start)
            changed == stem \o word
<1>0. Len(line) \in Nat /\ start \in Nat /\ start <= Len(line) /\ Len(lead) \in Nat /\ Len(name) \in Nat
  OBVIOUS
<1>1. quote \in Seq(Characters) /\ Len(quote) = 1
  <2>1. Quote \in Characters
    BY DEF Characters
  <2> QED
    BY <2>1
<1>2. stem \in Seq(Characters) /\ Len(stem) = start /\ \A k \in 1..start : stem[k] = line[k]
  BY <1>0
<1>. HIDE DEF quote, stem
<1>3. front \in Seq(Characters) /\ Len(front) = 1 + Len(lead)
  <2>1. front \in Seq(Characters) /\ Len(front) = Len(quote) + Len(lead)
    BY <1>1, Joined
  <2> QED
    BY <1>1, <2>1
<1>. HIDE DEF front
<1>4. /\ named \in Seq(Characters) /\ Len(named) = 1 + Len(lead) + Len(name)
      /\ \A k \in Len(front) + 1..Len(front) + Len(name) : named[k] = name[k - Len(front)]
  <2>1. named \in Seq(Characters) /\ Len(named) = Len(front) + Len(name)
    BY <1>3, Joined
  <2>2. \A k \in Len(front) + 1..Len(front) + Len(name) : named[k] = name[k - Len(front)]
    BY <1>3, Joined
  <2>3. Len(named) = 1 + Len(lead) + Len(name)
    BY <1>0, <1>3, <2>1
  <2> QED
    BY <2>1, <2>2, <2>3
<1>. HIDE DEF named
<1>5. /\ word \in Seq(Characters) /\ Len(word) = Len(lead) + Len(name) + 2
      /\ \A k \in 1..Len(named) : word[k] = named[k]
  <2>1. word \in Seq(Characters) /\ Len(word) = Len(named) + Len(quote)
    BY <1>1, <1>4, Joined
  <2>2. \A k \in 1..Len(named) : word[k] = named[k]
    BY <1>1, <1>4, Joined
  <2>3. Len(word) = Len(lead) + Len(name) + 2
    BY <1>0, <1>1, <1>4, <2>1
  <2> QED
    BY <2>1, <2>2, <2>3
<1>. HIDE DEF word
<1>6. /\ changed \in Seq(Characters) /\ Len(changed) = Len(stem) + Len(word)
      /\ \A k \in 1..Len(stem) : changed[k] = stem[k]
      /\ \A k \in Len(stem) + 1..Len(stem) + Len(word) : changed[k] = word[k - Len(stem)]
  BY <1>2, <1>5, Joined
<1>. HIDE DEF changed
<1>7. Len(changed) = start + Len(lead) + Len(name) + 2
  BY <1>0, <1>2, <1>5, <1>6
<1>8. \A k \in 1..start : changed[k] = line[k]
  BY <1>2, <1>6
<1>9. ASSUME NEW k \in 1..Len(name) PROVE changed[k + (start + 1 + Len(lead))] = name[k]
  <2>. DEFINE x == k + (start + 1 + Len(lead))
              y == k + Len(front)
  <2>1. /\ x \in start + 1..start + Len(word) /\ x - start = y /\ y \in 1..Len(named)
        /\ y \in Len(front) + 1..Len(front) + Len(name) /\ y - Len(front) = k
    BY <1>0, <1>3, <1>4, <1>5
  <2>. HIDE DEF x, y
  <2>2. changed[x] = word[x - start]
    BY <1>2, <1>6, <2>1
  <2>3. word[y] = named[y]
    BY <1>5, <2>1
  <2>4. named[y] = name[k]
    BY <1>4, <2>1
  <2>5. changed[x] = name[k]
    BY <2>1, <2>2, <2>3, <2>4
  <2> QED
    BY <2>5 DEF x
<1>10. changed \in Seq(Characters)
  BY <1>6
<1> QED
  BY <1>5, <1>7, <1>8, <1>9, <1>10 DEF changed, word, named, front, stem, quote, Quoted, WithName

(* The flags before a word, and those of a name in it.                     *)
LEMMA OfferedName ==
    ASSUME NEW line \in Seq(Characters), Marks(line, raw, listing, cut), cut \in BOOLEAN,
           listing \in Seq(Seq(Characters)), LINE \in Nat,
           NEW start \in Nat, start <= Len(line), NEW n \in 1..Len(listing),
           NEW changed \in Seq(Characters), Len(changed) < LINE,
           NEW begin \in Nat, start < begin, begin + Len(listing[n]) < Len(changed),
           \A k \in 1..start : changed[k] = line[k],
           \A k \in 1..Len(listing[n]) : changed[k + begin] = listing[n][k],
           NEW flags,
           \A x : x \in flags <=> (x \in raw /\ x < start) \/ x \in begin..begin + Len(listing[n]) - 1,
           NEW less, cut => less, start - 1 \in raw => less
    PROVE  Marks(changed, flags, listing, less)
<1>. DEFINE name == listing[n]
            last == begin + Len(name) - 1
<1>0. /\ name \in Seq(Characters) /\ Len(name) \in Nat /\ Len(line) \in Nat /\ Len(changed) \in Nat
      /\ start \in Nat /\ start <= Len(line) /\ begin \in Nat /\ start < begin /\ begin + Len(name) < Len(changed)
  OBVIOUS
<1>1. \A x : x \in flags <=> (x \in raw /\ x < start) \/ x \in begin..last
  OBVIOUS
<1>2. last = begin + Len(name) - 1 /\ last \in Int
  BY <1>0
<1>3. raw \subseteq 0..Len(line) - 1
  BY DEF Marks
<1>6. /\ \A k \in 1..start : changed[k] = line[k]
      /\ \A k \in 1..Len(name) : changed[k + begin] = name[k]
  OBVIOUS
<1>7. name \in {listing[m] : m \in 1..Len(listing)}
  OBVIOUS
<1>. HIDE DEF name, last
<1>4. flags \subseteq 0..Len(changed) - 1
  <2>1. \A x \in raw : x \in Nat
    BY <1>0, <1>3
  <2>2. \A x \in begin..last : x \in Nat /\ x <= Len(changed) - 1
    BY <1>0, <1>2
  <2>3. ASSUME NEW x \in flags PROVE x \in Nat /\ x <= Len(changed) - 1
    <3>1. CASE x \in raw /\ x < start
      BY <1>0, <2>1, <3>1
    <3>2. CASE x \in begin..last
      BY <2>2, <3>2
    <3> QED
      BY <1>1, <3>1, <3>2
  <2> QED
    BY <1>0, <2>3
<1>8. \A x \in flags : x \in Nat /\ (x < start \/ x \in begin..last)
  BY <1>1, <1>4
<1>9. last \in Int
  BY <1>0, <1>2
<1>5. ASSUME NEW i \in flags, NEW j \in flags, i <= j, IsRun(flags, i, j)
      PROVE  IsName(SubSeq(changed, i + 1, j + 1), listing, less)
  <2>0. i \in Nat /\ j \in Nat /\ begin \in Nat /\ last \in Int /\ start < begin
    BY <1>0, <1>8, <1>9
  <2>1. start \notin flags
    <3>1. start \notin begin..last /\ ~(start < start)
      BY <2>0, <1>0
    <3> QED
      BY <1>1, <3>1
  <2>2. CASE j < start
    <3>1. \A x \in Nat : x < start => (x \in flags <=> x \in raw)
      BY <1>1, <2>0
    <3>2. i \in raw /\ j \in raw /\ i..j \subseteq raw
      <4>1. \A x \in i..j : x \in flags
        BY <1>5 DEF IsRun
      <4>2. \A x \in i..j : x \in Nat /\ x < start
        BY <1>0, <2>0, <2>2
      <4>3. \A x \in i..j : x \in raw
        BY <3>1, <4>1, <4>2
      <4> QED
        BY <1>5, <2>0, <4>3
    <3>3. i - 1 \notin raw
      <4>1. CASE i = 0
        BY <1>3, <4>1
      <4>2. CASE i > 0
        <5>1. i - 1 \in Nat /\ i - 1 < start
          BY <1>0, <1>5, <2>0, <2>2, <4>2
        <5>2. i - 1 \notin flags
          BY <1>5 DEF IsRun
        <5> QED
          BY <3>1, <5>1, <5>2
      <4> QED
        BY <2>0, <4>1, <4>2
    <3>4. j + 1 \in raw => less
      <4>1. CASE j + 1 < start
        <5>1. j + 1 \in Nat /\ j + 1 \notin flags
          BY <1>5, <2>0 DEF IsRun
        <5> QED
          BY <3>1, <4>1, <5>1
      <4>2. CASE j + 1 = start
        <5>1. start - 1 = j
          BY <2>0, <4>2
        <5> QED
          BY <3>2, <5>1
      <4> QED
        BY <1>0, <2>0, <2>2, <4>1, <4>2
    <3>5. cut => less
      OBVIOUS
    <3>6. IsName(SubSeq(line, i + 1, j + 1), listing, less)
      BY <1>5, <3>2, <3>3, <3>4, <3>5, EarlierRuns
    <3>7. SubSeq(changed, i + 1, j + 1) = SubSeq(line, i + 1, j + 1)
      <4>. DEFINE a == i + 1
                  b == j + 1
      <4>1. a \in Nat /\ b \in Nat /\ 0 \in Int /\ 1 <= a /\ a <= b /\ b <= Len(changed) /\ 1 <= a + 0 /\ b + 0 <= Len(line)
        BY <1>0, <1>5, <2>0, <2>2
      <4>2. \A k \in a..b : changed[k] = line[k + 0]
        BY <1>0, <2>0, <2>2
      <4>. HIDE DEF a, b
      <4>3. SubSeq(changed, a, b) = SubSeq(line, a + 0, b + 0)
        BY <1>0, <4>1, <4>2, SameStretch
      <4>4. a + 0 = a /\ b + 0 = b
        BY <4>1
      <4> QED
        BY <4>3, <4>4 DEF a, b
    <3> QED
      BY <3>6, <3>7
  <2>3. CASE j >= start
    <3>1. j \in begin..last
      BY <1>0, <1>8, <2>0, <2>3
    <3>2. i > start
      <4>1. CASE i <= start
        <5>1. start \in i..j
          BY <1>0, <2>0, <2>3, <4>1
        <5> QED
          BY <1>5, <2>1, <5>1 DEF IsRun
      <4> QED
        BY <1>0, <2>0, <4>1
    <3>3. i \in begin..last
      BY <1>0, <1>8, <2>0, <3>2
    <3>4. i = begin
      <4>1. CASE i > begin
        <5>1. i - 1 \in begin..last
          BY <2>0, <3>3, <4>1
        <5>2. i - 1 \in flags
          BY <1>1, <5>1
        <5> QED
          BY <1>5, <5>2 DEF IsRun
      <4> QED
        BY <2>0, <3>3, <4>1
    <3>5. j = last
      <4>1. CASE j < last
        <5>1. j + 1 \in begin..last
          BY <2>0, <3>1, <4>1
        <5>2. j + 1 \in flags
          BY <1>1, <5>1
        <5> QED
          BY <1>5, <5>2 DEF IsRun
      <4> QED
        BY <2>0, <3>1, <4>1
    <3>6. SubSeq(changed, i + 1, j + 1) = name
      <4>. DEFINE b == Len(name)
                  d == begin
      <4>1. b \in Nat /\ d \in Int /\ 1 <= b /\ 1 <= 1 /\ b <= Len(name) /\ 1 <= 1 + d /\ b + d <= Len(changed)
        BY <1>0, <1>2, <3>3, <2>0
      <4>2. \A k \in 1..b : name[k] = changed[k + d]
        BY <1>6
      <4>3. i + 1 = 1 + d /\ j + 1 = b + d
        BY <1>0, <1>2, <3>4, <3>5
      <4>4. SubSeq(name, 1, b) = name
        BY <1>0
      <4>. HIDE DEF b, d
      <4>5. SubSeq(name, 1, b) = SubSeq(changed, 1 + d, b + d)
        <5>1. 1 \in Nat
          OBVIOUS
        <5> QED
          BY <1>0, <4>1, <4>2, <5>1, SameStretch
      <4> QED
        BY <4>3, <4>4, <4>5
    <3>7. Begins(name, name)
      BY <1>0 DEF Begins
    <3> QED
      BY <3>6, <3>7 DEF IsName, name
  <2> QED
    BY <1>0, <2>0, <2>2, <2>3
<1> QED
  BY <1>4, <1>5 DEF Marks

LEMMA OfferKeeps ==
    ASSUME NEW line \in Seq(Characters), Marks(line, raw, listing, cut), cut \in BOOLEAN,
           listing \in Seq(Seq(Characters)), LINE \in Nat,
           NEW c, c.start \in 0..Len(line), c.lead \in Seq(Characters),
           NEW n \in 1..Len(listing), pos \in 0..Len(buf), buf \in Seq(Characters),
           Offer(c, line, listing[n]), NEW less, cut => less, c.start - 1 \in raw => less
    PROVE  /\ buf' \in Seq(Characters) /\ pos' \in 0..Len(buf') /\ c.start <= Len(buf')
           /\ Marks(buf', raw', listing, less)
<1>. DEFINE start == c.start
            lead == c.lead
            name == listing[n]
            word == Quoted(lead, name)
            changed == WithName(line, start, lead, name)
            begin == start + 1 + Len(lead)
            last == start + Len(word) - 2
<1>1. name \in Seq(Characters) /\ Len(name) \in Nat
  OBVIOUS
<1>2. Len(line) \in Nat /\ start \in Nat /\ start <= Len(line) /\ Len(lead) \in Nat /\ start \in 0..Len(line)
  OBVIOUS
<1>3. lead \in Seq(Characters)
  OBVIOUS
<1>4. \/ /\ start + Len(word) < LINE /\ buf' = changed /\ pos' = start + Len(word)
         /\ raw' = {i \in raw : i < start} \cup (begin..last)
      \/ buf' = line /\ pos' = (IF line = buf THEN pos ELSE Len(line)) /\ raw' = raw
  BY DEF Offer, Quoted, WithName
<1>5. start - 1 \in raw => less
  OBVIOUS
<1>6. start <= Len(line)
  BY <1>2
<1>. HIDE DEF start, lead, name
<1>7. /\ changed \in Seq(Characters) /\ Len(word) = Len(lead) + Len(name) + 2
      /\ Len(changed) = start + Len(lead) + Len(name) + 2
      /\ \A k \in 1..start : changed[k] = line[k]
      /\ \A k \in 1..Len(name) : changed[k + (start + 1 + Len(lead))] = name[k]
  <2>1. name \in Seq(Characters) /\ lead \in Seq(Characters) /\ start \in 0..Len(line)
    BY <1>1, <1>2, <1>3
  <2>. HIDE DEF word, changed
  <2>2. changed \in Seq(Characters)
    BY <2>1, QuotedName DEF changed
  <2>3. Len(word) = Len(lead) + Len(name) + 2
    BY <2>1, QuotedName DEF word
  <2>4. Len(changed) = start + Len(lead) + Len(name) + 2
    BY <2>1, QuotedName DEF changed
  <2>5. \A k \in 1..start : changed[k] = line[k]
    BY <2>1, QuotedName DEF changed
  <2>6. \A k \in 1..Len(name) : changed[k + (start + 1 + Len(lead))] = name[k]
    BY <2>1, QuotedName DEF changed
  <2> QED
    BY <2>2, <2>3, <2>4, <2>5, <2>6
<1>. HIDE DEF word, changed
<1>8. begin \in Nat /\ start < begin /\ begin + Len(name) < Len(changed) /\ last = begin + Len(name) - 1
  BY <1>1, <1>2, <1>7
<1>9. \A k \in 1..Len(name) : changed[k + begin] = name[k]
  BY <1>7
<1>. HIDE DEF begin, last
<1>10. CASE /\ start + Len(word) < LINE /\ buf' = changed /\ pos' = start + Len(word)
            /\ raw' = {i \in raw : i < start} \cup (begin..last)
  <2>1. Len(changed) = start + Len(word) /\ Len(changed) < LINE
    BY <1>1, <1>2, <1>7, <1>10
  <2>2. pos' \in 0..Len(buf') /\ start <= Len(buf')
    BY <1>1, <1>2, <1>7, <1>10, <2>1
  <2>3. \A x : x \in raw' <=> (x \in raw /\ x < start) \/ x \in begin..last
    BY <1>10
  <2>4. Marks(changed, raw', listing, less)
    <3>. DEFINE flags == raw'
    <3>1. \A x : x \in flags <=> (x \in raw /\ x < start) \/ x \in begin..begin + Len(listing[n]) - 1
      BY <1>8, <2>3 DEF name
    <3>2. begin + Len(listing[n]) < Len(changed) /\ \A k \in 1..Len(listing[n]) : changed[k + begin] = listing[n][k]
      BY <1>8, <1>9 DEF name
    <3>. HIDE DEF flags
    <3>3. Marks(changed, flags, listing, less)
      BY <1>2, <1>5, <1>7, <1>8, <2>1, <3>1, <3>2, OfferedName
    <3> QED
      BY <3>3 DEF flags
  <2> QED
    BY <1>7, <1>10, <2>2, <2>4 DEF start
<1>11. CASE buf' = line /\ pos' = (IF line = buf THEN pos ELSE Len(line)) /\ raw' = raw
  <2>1. pos' \in 0..Len(buf') /\ start <= Len(buf')
    BY <1>2, <1>11
  <2>2. Marks(line, raw, listing, less)
    BY MarksLess
  <2> QED
    BY <1>11, <2>1, <2>2 DEF start
<1> QED
  BY <1>4, <1>10, <1>11

(* The flags stay as they are, but a cut name may be counted.              *)
LEMMA MarkedLess ==
    ASSUME NEW line, Flagged(line), listing \in Seq(Seq(Characters)), cut => cut', listing' = listing
    PROVE  Flagged(line)'
<1>1. line \in LineType /\ Marks(line.text, line.raw, listing, cut)
  BY DEF Flagged
<1>2. line.text \in Seq(Characters)
  BY <1>1 DEF LineType
<1>. DEFINE t == line.text
            f == line.raw
            less == cut'
<1>3. t \in Seq(Characters) /\ Marks(t, f, listing, cut) /\ (cut => less)
  BY <1>1, <1>2
<1>. HIDE DEF t, f, less
<1>4. Marks(t, f, listing, less)
  BY <1>3, MarksLess
<1> QED
  BY <1>1, <1>4 DEF Flagged, t, f, less

LEMMA OfferNextKeeps ==
    ASSUME LineInv, NEW line \in Seq(Characters), Marks(line, raw, listing, cut),
           NEW c, c.start \in 0..Len(line), c.lead \in Seq(Characters), NEW n \in Nat,
           OfferNext(c, line, n), UNCHANGED <<h, draft, listing, history, histnext, histcount>>
    PROVE  LineInv'
<1>1. comp' = {c} /\ cut' = (cut \/ c.start - 1 \in raw)
  BY DEF OfferNext
<1>2. /\ listing \in Seq(Seq(Characters)) /\ cut \in BOOLEAN /\ LINE \in Nat /\ Len(line) \in Nat
      /\ buf \in Seq(Characters) /\ pos \in 0..Len(buf)
  BY LineFacts DEF LineInv, Length
<1>. DEFINE less == cut'
<1>3. (cut => less) /\ (c.start - 1 \in raw => less) /\ less \in BOOLEAN
  BY <1>1
<1>. HIDE DEF less
<1>4. /\ buf' \in Seq(Characters) /\ pos' \in 0..Len(buf') /\ c.start \in 0..Len(buf')
      /\ Marks(buf', raw', listing, less) /\ ci' \in Nat
  <2>1. CASE Tries(c, n) = {}
    <3>1. buf' = line /\ pos' = (IF line = buf THEN pos ELSE Len(line)) /\ ci' = n /\ raw' = raw
      BY <2>1 DEF OfferNext
    <3>2. Marks(line, raw, listing, less)
      BY <1>2, <1>3, MarksLess
    <3>3. pos' \in 0..Len(buf')
      BY <1>2, <3>1
    <3> QED
      BY <3>1, <3>2, <3>3
  <2>2. CASE Tries(c, n) # {}
    <3>. DEFINE i == CHOOSE i \in Tries(c, n) : \A j \in Tries(c, n) : i <= j
    <3>1. Offer(c, line, Entry(i)) /\ ci' = (i + 1) % Len(listing)
      BY <2>2 DEF OfferNext
    <3>2. Len(listing) \in Nat
      BY <1>2
    <3>3. Tries(c, n) \in SUBSET Nat
      BY <3>2 DEF Tries
    <3>4. i \in Tries(c, n)
      BY <2>2, <3>3, LeastNumber
    <3>. HIDE DEF i
    <3>5. i \in Nat /\ n <= i /\ i <= n + Len(listing) - 1
      BY <3>2, <3>4 DEF Tries
    <3>6. Len(listing) > 0
      BY <3>2, <3>5
    <3>7. i % Len(listing) \in 0..Len(listing) - 1 /\ (i + 1) % Len(listing) \in 0..Len(listing) - 1
      BY <3>2, <3>5, <3>6
    <3>. DEFINE m == (i % Len(listing)) + 1
    <3>8. m \in 1..Len(listing)
      BY <3>2, <3>7
    <3>9. Offer(c, line, listing[m])
      BY <3>1 DEF Entry
    <3>. HIDE DEF m
    <3>10. buf' \in Seq(Characters) /\ pos' \in 0..Len(buf') /\ Marks(buf', raw', listing, less)
      BY <1>2, <1>3, <3>8, <3>9, OfferKeeps
    <3>11. c.start <= Len(buf')
      BY <1>2, <1>3, <3>8, <3>9, OfferKeeps
    <3>12. c.start \in 0..Len(buf')
      <4>1. Len(buf') \in Nat
        BY <3>10
      <4> QED
        BY <1>2, <3>11, <4>1
    <3>13. ci' \in Nat
      BY <3>1, <3>7
    <3> QED
      BY <3>10, <3>12, <3>13
  <2> QED
    BY <2>1, <2>2
<1>5. UNCHANGED <<h, draft, listing, history, histnext, histcount>>
  OBVIOUS
<1>6. cut => cut'
  BY <1>1
<1>7. Flagged(draft)' /\ \A k \in 0..RECALL - 1 : Flagged(history[k])'
  <2>1. Flagged(draft)
    BY DEF LineInv
  <2>2. \A k \in 0..RECALL - 1 : Flagged(history[k])
    BY DEF LineInv
  <2>3. Flagged(draft)'
    BY <1>2, <1>5, <1>6, <2>1, MarkedLess DEF Flagged
  <2>4. ASSUME NEW k \in 0..RECALL - 1 PROVE Flagged(history[k])'
    <3>. DEFINE l == history[k]
    <3>1. Flagged(l)
      BY <2>2
    <3>2. Flagged(history[k])' <=> (l \in LineType /\ Marks(l.text, l.raw, listing', cut'))
      BY <1>5 DEF Flagged
    <3>. HIDE DEF l
    <3>3. l \in LineType /\ Marks(l.text, l.raw, listing', cut')
      BY <1>2, <1>5, <1>6, <3>1, MarkedLess DEF Flagged
    <3> QED
      BY <3>2, <3>3
  <2> QED
    BY <2>3, <2>4
<1>8. Marks(buf', raw', listing', cut') /\ pos' \in 0..Length' /\ buf' \in Seq(Characters)
  BY <1>4, <1>5 DEF Length, less
<1>9. /\ listing' \in Seq(Seq(Characters)) /\ cut' \in BOOLEAN /\ ci' \in Nat
      /\ histnext' \in 0..RECALL - 1 /\ histcount' \in Nat /\ h' \in Nat
      /\ history' \in [0..RECALL - 1 -> LineType]
  BY <1>2, <1>3, <1>4, <1>5 DEF LineInv, less
<1>10. \A d \in comp' : d.start \in 0..Length' /\ d.lead \in Seq(Characters)
  BY <1>1, <1>4 DEF Length
<1> QED
  BY <1>7, <1>8, <1>9, <1>10 DEF LineInv

(* A word starts before the caret.                                         *)
LEMMA WordStartsBefore ==
    ASSUME pos \in Nat
    PROVE  WordStart \in 0..pos
<1>1. CASE WordStarts = {}
  BY <1>1 DEF WordStart
<1>2. CASE WordStarts # {}
  <2>. DEFINE Left == {pos - i : i \in WordStarts}
  <2>1. \A i \in WordStarts : i \in Nat /\ i \in 1..pos
    BY DEF WordStarts
  <2>2. Left \in SUBSET Nat /\ Left # {}
    BY <1>2, <2>1
  <2>3. \A i \in WordStarts : pos - i \in Left
    OBVIOUS
  <2>4. \A l \in Left : \E i \in WordStarts : l = pos - i
    OBVIOUS
  <2>. HIDE DEF Left
  <2>5. PICK l \in Left : \A k \in Left : l <= k
    BY <2>2, LeastNumber
  <2>6. PICK m \in WordStarts : l = pos - m
    BY <2>4
  <2>7. \A j \in WordStarts : j <= m
    BY <2>1, <2>3, <2>5, <2>6
  <2>8. WordStart \in WordStarts
    BY <1>2, <2>7 DEF WordStart
  <2> QED
    BY <2>1, <2>8
<1> QED
  BY <1>1, <1>2

(* A space at the end touches no flag.                                     *)
LEMMA SpaceAdded ==
    ASSUME LineInv, Len(buf) + 1 < LINE
    PROVE  LET line == Append(buf, Space) IN
           line \in Seq(Characters) /\ Len(line) = Len(buf) + 1 /\ Marks(line, raw, listing, cut)
<1>. DEFINE line == Append(buf, Space)
<1>1. buf \in Seq(Characters) /\ Len(buf) \in Nat /\ raw \subseteq 0..Len(buf) - 1 /\ Marks(buf, raw, listing, cut)
  BY DEF LineInv, Marks
<1>2. line \in Seq(Characters) /\ Len(line) = Len(buf) + 1 /\ \A k \in 1..Len(buf) : line[k] = buf[k]
  <2>1. Space \in Characters
    BY DEF Characters
  <2> QED
    BY <1>1, <2>1
<1>. HIDE DEF line
<1>3. ASSUME NEW i \in raw, NEW j \in raw, i <= j, IsRun(raw, i, j)
      PROVE  IsName(SubSeq(line, i + 1, j + 1), listing, cut)
  <2>. DEFINE a == i + 1
              b == j + 1
  <2>1. /\ a \in Nat /\ b \in Nat /\ 0 \in Int /\ 1 <= a /\ a <= b
        /\ b <= Len(line) /\ 1 <= a + 0 /\ b + 0 <= Len(buf) /\ a + 0 = a /\ b + 0 = b
    BY <1>1, <1>2, <1>3
  <2>2. \A k \in a..b : line[k] = buf[k + 0]
    BY <1>1, <1>2
  <2>. HIDE DEF a, b
  <2>3. SubSeq(line, a, b) = SubSeq(buf, a + 0, b + 0)
    BY <1>1, <1>2, <2>1, <2>2, SameStretch
  <2>4. SubSeq(line, i + 1, j + 1) = SubSeq(buf, i + 1, j + 1)
    BY <2>1, <2>3 DEF a, b
  <2>5. IsName(SubSeq(buf, i + 1, j + 1), listing, cut)
    BY <1>1, <1>3 DEF Marks
  <2> QED
    BY <2>4, <2>5
<1>4. Len(line) < LINE /\ raw \subseteq 0..Len(line) - 1
  BY <1>1, <1>2
<1>5. Marks(line, raw, listing, cut)
  BY <1>3, <1>4 DEF Marks
<1> QED
  BY <1>2, <1>5 DEF line

LEMMA CompleteKeeps ==
    ASSUME LineInv, CompleteKey
    PROVE  LineInv'
<1>1. UNCHANGED <<h, draft, listing, history, histnext, histcount>>
  BY DEF CompleteKey, historyVars
<1>2. /\ buf \in Seq(Characters) /\ Len(buf) \in Nat /\ pos \in 0..Len(buf) /\ pos \in Nat /\ ci \in Nat
      /\ Marks(buf, raw, listing, cut)
  BY LineFacts DEF LineInv, Length
<1>3. ASSUME NEW c \in comp, OfferNext(c, buf, ci) PROVE LineInv'
  <2>1. c.start \in 0..Len(buf) /\ c.lead \in Seq(Characters)
    BY DEF LineInv, Length
  <2> QED
    BY <1>1, <1>2, <1>3, <2>1, OfferNextKeeps
<1>4. ASSUME NEW line \in Seq(Characters), Marks(line, raw, listing, cut), NEW start \in 0..Len(line),
             NEW caret \in 0..Len(line), NEW token,
             \/ OfferNext(Completion(start, token), line, First)
             \/ buf' = line /\ pos' = caret /\ UNCHANGED raw /\ NoCompletion
      PROVE  LineInv'
  <2>1. CASE OfferNext(Completion(start, token), line, First)
    <3>. DEFINE c == Completion(start, token)
    <3>1. c.start = start /\ (c.lead = <<DrivePrefix>> \/ c.lead = <<>>)
      BY DEF Completion
    <3>2. <<DrivePrefix>> \in Seq(Characters) /\ <<>> \in Seq(Characters)
      <4>1. DrivePrefix \in Characters
        BY DEF Characters
      <4> QED
        BY <4>1
    <3>3. c.start \in 0..Len(line) /\ c.lead \in Seq(Characters) /\ OfferNext(c, line, First) /\ First \in Nat
      BY <2>1, <3>1, <3>2 DEF First
    <3>. HIDE DEF c
    <3> QED
      BY <1>1, <1>4, <3>3, OfferNextKeeps
  <2>2. CASE buf' = line /\ pos' = caret /\ UNCHANGED raw /\ NoCompletion
    <3>1. buf' \in Seq(Characters) /\ pos' \in 0..Len(buf') /\ Marks(buf', raw', listing, cut)
      BY <1>4, <2>2
    <3> QED
      BY <1>1, <2>2, <3>1, EditKeeps
  <2> QED
    BY <1>4, <2>1, <2>2
<1>5. WordStart \in 0..pos
  BY <1>2, WordStartsBefore
<1>6. CASE ~\E c \in comp : OfferNext(c, buf, ci)
  <2>1. CASE WordStart > 0
    <3>1. PICK token : \/ OfferNext(Completion(WordStart, token), buf, First)
                       \/ buf' = buf /\ pos' = pos /\ UNCHANGED raw /\ NoCompletion
      BY <1>6, <2>1 DEF CompleteKey
    <3>2. WordStart \in 0..Len(buf)
      BY <1>2, <1>5
    <3> QED
      BY <1>2, <1>4, <3>1, <3>2
  <2>2. CASE ~(WordStart > 0)
    <3>. DEFINE line == Append(buf, Space)
                end == Len(buf) + 1
    <3>1. Len(buf) + 1 < LINE
      BY <1>6, <2>2 DEF CompleteKey, Length
    <3>2. PICK token : \/ OfferNext(Completion(end, token), line, First)
                       \/ buf' = line /\ pos' = end /\ UNCHANGED raw /\ NoCompletion
      BY <1>6, <2>2 DEF CompleteKey, Length
    <3>3. line \in Seq(Characters) /\ Len(line) = end /\ Marks(line, raw, listing, cut)
      BY <3>1, SpaceAdded
    <3>. HIDE DEF line
    <3>4. end \in 0..Len(line)
      BY <1>2, <3>3
    <3>. HIDE DEF end
    <3> QED
      BY <1>4, <3>2, <3>3, <3>4
  <2> QED
    BY <2>1, <2>2
<1> QED
  BY <1>3, <1>6

LEMMA SeqMore ==
    ASSUME NEW S, NEW T, S \subseteq T
    PROVE  Seq(S) \subseteq Seq(T)
<1>1. ASSUME NEW s \in Seq(S) PROVE s \in Seq(T)
  <2>1. Len(s) \in Nat /\ s \in [1..Len(s) -> S]
    OBVIOUS
  <2>2. s \in [1..Len(s) -> T]
    BY <2>1
  <2> QED
    BY <2>1, <2>2, SeqDef
<1> QED
  BY <1>1

LEMMA NoLineMarked ==
    ASSUME LINE \in Nat, LINE > 0
    PROVE  Flagged(NoLine)
<1>1. NoLine.text = <<>> /\ NoLine.raw = {} /\ NoLine \in LineType
  BY DEF NoLine, LineType
<1>2. Len(<<>>) = 0
  OBVIOUS
<1>3. Marks(<<>>, {}, listing, cut)
  BY <1>2 DEF Marks
<1> QED
  BY <1>1, <1>3 DEF Flagged

LEMMA LineBeginsMarked ==
    ASSUME LineInit
    PROVE  LineInv
<1>1. PICK b \in Begun :
        /\ listing = b.listing /\ buf = b.text /\ raw = b.raw
        /\ histcount = Len(b.entered) /\ histnext = Len(b.entered) % RECALL /\ h = Len(b.entered)
        /\ history = [i \in 0..RECALL - 1 |-> IF i < Len(b.entered) THEN b.entered[i + 1] ELSE NoLine]
        /\ pos \in 0..Len(b.text)
  BY DEF LineInit
<1>2. comp = {} /\ ci = 0 /\ draft = NoLine /\ cut = FALSE
  BY DEF LineInit
<1>3. LINE \in Nat /\ LINE > 0 /\ RECALL \in Nat /\ RECALL > 0
  BY CommandLineAssumption
<1>4. b.listing \in Seq(Seq(Keys \cup {Space})) /\ b.entered \in Seq(LineType)
  BY CommandLineAssumption
<1>5. listing \in Seq(Seq(Characters))
  <2>1. Keys \cup {Space} \subseteq Characters
    BY DEF Characters
  <2>2. Seq(Keys \cup {Space}) \subseteq Seq(Characters)
    BY <2>1, SeqMore
  <2>3. Seq(Seq(Keys \cup {Space})) \subseteq Seq(Seq(Characters))
    BY <2>2, SeqMore
  <2> QED
    BY <1>1, <1>4, <2>3
<1>6. /\ buf \in Seq(Characters) /\ Marks(buf, raw, listing, cut)
  BY <1>1, <1>2, BegunAssumption
<1>7. \A k \in 1..Len(b.entered) : Flagged(b.entered[k])
  <2>1. SUFFICES ASSUME NEW k \in 1..Len(b.entered) PROVE Flagged(b.entered[k])
    OBVIOUS
  <2>2. b.entered[k] \in LineType
    BY <1>4
  <2>3. Marks(b.entered[k].text, b.entered[k].raw, b.listing, FALSE)
    BY BegunAssumption
  <2> QED
    BY <1>1, <1>2, <2>2, <2>3 DEF Flagged
<1>8. Flagged(NoLine) /\ NoLine \in LineType
  BY <1>3, NoLineMarked DEF Flagged
<1>9. Len(b.entered) \in Nat
  BY <1>4
<1>10. \A k \in 0..RECALL - 1 : Flagged(history[k]) /\ history[k] \in LineType
  <2>1. SUFFICES ASSUME NEW k \in 0..RECALL - 1 PROVE Flagged(history[k])
    BY DEF Flagged
  <2>2. history[k] = IF k < Len(b.entered) THEN b.entered[k + 1] ELSE NoLine
    BY <1>1
  <2>3. k < Len(b.entered) => k + 1 \in 1..Len(b.entered)
    BY <1>9
  <2>4. CASE k < Len(b.entered)
    BY <1>7, <2>2, <2>3, <2>4
  <2>5. CASE ~(k < Len(b.entered))
    BY <1>8, <2>2, <2>5
  <2> QED
    BY <2>4, <2>5
<1>11. history \in [0..RECALL - 1 -> LineType]
  <2>1. \A k \in 0..RECALL - 1 : (IF k < Len(b.entered) THEN b.entered[k + 1] ELSE NoLine) \in LineType
    BY <1>1, <1>10
  <2> QED
    BY <1>1, <2>1
<1>12. histnext \in 0..RECALL - 1 /\ histcount \in Nat /\ h \in Nat
  BY <1>1, <1>3, <1>9
<1>13. pos \in 0..Length /\ cut \in BOOLEAN /\ ci \in Nat
  BY <1>1, <1>2 DEF Length
<1>14. \A c \in comp : c.start \in 0..Length /\ c.lead \in Seq(Characters)
  BY <1>2
<1> QED
  BY <1>2, <1>5, <1>6, <1>8, <1>10, <1>11, <1>12, <1>13, <1>14 DEF LineInv

LEMMA LineInvHolds == LineSpec => []LineInv
<1>1. LineInit => LineInv
  BY LineBeginsMarked
<1>2. LineInv /\ [LineNext]_promptVars => LineInv'
  <2>1. SUFFICES ASSUME LineInv, [LineNext]_promptVars PROVE LineInv'
    OBVIOUS
  <2>2. CASE ReadBatch
    BY <2>1, <2>2, BatchKeepsLine
  <2>3. CASE MoveCaret
    BY <2>1, <2>3, CaretKeeps
  <2>4. CASE DeleteKey
    BY <2>1, <2>4, DeleteKeeps
  <2>5. CASE TypeKey
    BY <2>1, <2>5, TypeKeeps
  <2>6. CASE Recall
    BY <2>1, <2>6, RecallKeeps
  <2>7. CASE EnterKey \/ StopKey
    BY <2>1, <2>7, EnterKeeps
  <2>8. CASE CompleteKey
    BY <2>1, <2>8, CompleteKeeps
  <2>9. CASE UNCHANGED promptVars
    <3>1. UNCHANGED <<buf, raw, pos, comp, ci, h, draft, cut, listing, history, histnext, histcount>>
      BY <2>9 DEF promptVars, lineVars, historyVars
    <3>2. Flagged(draft)' /\ \A k \in 0..RECALL - 1 : Flagged(history[k])'
      BY <2>1, <3>1, MarkedSame DEF LineInv
    <3>3. Length' = Length
      BY <3>1 DEF Length
    <3> QED
      BY <2>1, <3>1, <3>2, <3>3 DEF LineInv
  <2> QED
    BY <2>1, <2>2, <2>3, <2>4, <2>5, <2>6, <2>7, <2>8, <2>9 DEF LineNext
<1> QED
  BY <1>1, <1>2, PTL DEF LineSpec

(* For any directory and history, whatever is typed, recalled, completed   *)
(* and deleted, the flags mark names that completion put there, whole but  *)
(* for one that a completion began in, and are in the line, which fits its *)
(* buffer with the caret in it (edit.c: bank_rawedit, bank_input).         *)
THEOREM FlagsStayOnNames == LineSpec => []FlagsMarkNames
<1>1. LineInv => FlagsMarkNames
  BY DEF LineInv, FlagsMarkNames
<1> QED
  BY <1>1, LineInvHolds, PTL

-----------------------------------------------------------------------------
(* Loading what was saved                                                  *)

(* A run of n steps, each a function of the one before: scanning the bytes *)
(* of a batch, the batches of a file, and filling batches with rows.       *)
Scanning(s, b, n, f) == f = [i \in 0..n |-> IF i = 0 THEN s ELSE Scanned(f[i - 1], b[i])]

LEMMA ScanningExists ==
    ASSUME NEW s, NEW b, NEW n \in Nat
    PROVE  \E f : Scanning(s, b, n, f)
<1>. DEFINE Missing == {k \in Nat : ~\E f : Scanning(s, b, k, f)}
<1>1. SUFFICES ASSUME n \in Missing PROVE FALSE
  OBVIOUS
<1>2. PICK m \in Missing : \A k \in Missing : m <= k
  BY <1>1, LeastNumber
<1>3. m # 0
  <2>1. Scanning(s, b, 0, [i \in 0..0 |-> s])
    BY DEF Scanning
  <2> QED
    BY <1>2, <2>1
<1>4. m - 1 \in Nat /\ m - 1 \notin Missing
  BY <1>2, <1>3
<1>5. PICK f : Scanning(s, b, m - 1, f)
  BY <1>4
<1>. DEFINE g == [i \in 0..m |-> IF i = m THEN Scanned(f[m - 1], b[m]) ELSE f[i]]
<1>6. ASSUME NEW i \in 0..m PROVE g[i] = IF i = 0 THEN s ELSE Scanned(g[i - 1], b[i])
  <2>1. CASE i = m
    BY <1>3, <1>4, <2>1
  <2>2. CASE i # m
    <3>1. i \in 0..m - 1 /\ (i # 0 => i - 1 \in 0..m - 1 /\ i - 1 # m)
      BY <1>4, <2>2
    <3>2. f[i] = IF i = 0 THEN s ELSE Scanned(f[i - 1], b[i])
      BY <1>5, <3>1 DEF Scanning
    <3> QED
      BY <1>4, <2>2, <3>1, <3>2
  <2> QED
    BY <2>1, <2>2
<1>7. Scanning(s, b, m, g)
  <2>. HIDE DEF g
  <2>1. g = [i \in 0..m |-> g[i]]
    BY DEF g
  <2> QED
    BY <1>6, <2>1 DEF Scanning
<1> QED
  BY <1>2, <1>7

LEMMA ScannedAllRuns ==
    ASSUME NEW s, NEW b, Len(b) \in Nat
    PROVE  \E f : Scanning(s, b, Len(b), f) /\ ScannedAll(s, b) = f[Len(b)]
<1>. DEFINE n == Len(b)
<1>. DEFINE f == CHOOSE f : f = [i \in 0..n |-> IF i = 0 THEN s ELSE Scanned(f[i - 1], b[i])]
<1>1. \E g : g = [i \in 0..n |-> IF i = 0 THEN s ELSE Scanned(g[i - 1], b[i])]
  <2>. HIDE DEF n, f
  <2>1. n \in Nat
    BY DEF n
  <2>2. PICK g : Scanning(s, b, n, g)
    BY <2>1, ScanningExists
  <2> QED
    BY <2>2 DEF Scanning
<1>2. f = [i \in 0..n |-> IF i = 0 THEN s ELSE Scanned(f[i - 1], b[i])]
  BY <1>1
<1>3. ScannedAll(s, b) = f[n]
  BY DEF ScannedAll
<1> QED
  BY <1>2, <1>3 DEF Scanning

(* There is one such run. *)
LEMMA ScanningAgrees ==
    ASSUME NEW s, NEW b, NEW c, NEW m \in Nat, NEW n \in Nat, NEW f, NEW g,
           Scanning(s, b, m, f), Scanning(s, c, n, g), \A i \in 1..m : b[i] = c[i], m <= n
    PROVE  \A i \in 0..m : f[i] = g[i]
<1>. DEFINE Wrong == {i \in 0..m : f[i] # g[i]}
<1>1. SUFFICES ASSUME Wrong # {} PROVE FALSE
  OBVIOUS
<1>2. PICK i \in Wrong : \A j \in Wrong : i <= j
  <2>1. Wrong \in SUBSET Nat
    OBVIOUS
  <2>. HIDE DEF Wrong
  <2> QED
    BY <1>1, <2>1, LeastNumber
<1>3. i \in 0..m /\ i \in 0..n
  BY <1>2
<1>4. f[i] = IF i = 0 THEN s ELSE Scanned(f[i - 1], b[i])
  BY <1>3 DEF Scanning
<1>5. g[i] = IF i = 0 THEN s ELSE Scanned(g[i - 1], c[i])
  BY <1>3 DEF Scanning
<1>6. CASE i = 0
  BY <1>2, <1>4, <1>5, <1>6
<1>7. CASE i # 0
  <2>1. i - 1 \in 0..m /\ i \in 1..m /\ ~(i <= i - 1)
    BY <1>3, <1>7
  <2>2. f[i - 1] = g[i - 1]
    BY <1>2, <2>1
  <2> QED
    BY <1>2, <1>4, <1>5, <1>7, <2>1, <2>2
<1> QED
  BY <1>6, <1>7

LEMMA ScannedNone ==
    ASSUME NEW s
    PROVE  ScannedAll(s, <<>>) = s
<1>1. Len(<<>>) = 0
  OBVIOUS
<1>2. PICK f : Scanning(s, <<>>, Len(<<>>), f) /\ ScannedAll(s, <<>>) = f[Len(<<>>)]
  BY <1>1, ScannedAllRuns
<1> QED
  BY <1>1, <1>2 DEF Scanning

LEMMA ScannedMore ==
    ASSUME NEW s, NEW S, NEW a \in Seq(S), NEW c \in S
    PROVE  ScannedAll(s, Append(a, c)) = Scanned(ScannedAll(s, a), c)
<1>. DEFINE n == Len(a)  b == Append(a, c)
<1>1. n \in Nat /\ Len(b) = n + 1 /\ b[n + 1] = c /\ \A i \in 1..n : a[i] = b[i]
  OBVIOUS
<1>. HIDE DEF n, b
<1>2. PICK f : Scanning(s, a, n, f) /\ ScannedAll(s, a) = f[n]
  BY <1>1, ScannedAllRuns DEF n
<1>3. PICK g : Scanning(s, b, n + 1, g) /\ ScannedAll(s, b) = g[n + 1]
  BY <1>1, ScannedAllRuns
<1>4. f[n] = g[n]
  <2>1. n + 1 \in Nat /\ n <= n + 1 /\ n \in 0..n
    BY <1>1
  <2>2. \A i \in 0..n : f[i] = g[i]
    <3>. DEFINE k == n + 1
    <3>1. k \in Nat /\ n <= k /\ Scanning(s, b, k, g) /\ Scanning(s, a, n, f)
      BY <1>2, <1>3, <2>1
    <3>. HIDE DEF k
    <3> QED
      BY <1>1, <3>1, ScanningAgrees
  <2> QED
    BY <2>1, <2>2
<1>5. g[n + 1] = Scanned(g[n], b[n + 1])
  BY <1>1, <1>3 DEF Scanning
<1> QED
  BY <1>1, <1>2, <1>3, <1>4, <1>5 DEF b

(* Scanning in two goes. *)
LEMMA ScannedOn ==
    ASSUME NEW s, NEW S, NEW a \in Seq(S), NEW b \in Seq(S)
    PROVE  ScannedAll(s, a \o b) = ScannedAll(ScannedAll(s, a), b)
<1>. DEFINE u == ScannedAll(s, a)
            Differ == {k \in Nat : \E c \in Seq(S) : Len(c) = k /\ ScannedAll(s, a \o c) # ScannedAll(u, c)}
<1>1. SUFFICES ASSUME Differ # {} PROVE FALSE
  <2>1. Len(b) \in Nat
    OBVIOUS
  <2> QED
    BY <2>1
<1>. HIDE DEF u
<1>2. PICK k \in Differ : \A j \in Differ : k <= j
  BY <1>1, LeastNumber
<1>3. PICK c \in Seq(S) : Len(c) = k /\ ScannedAll(s, a \o c) # ScannedAll(u, c)
  BY <1>2
<1>4. CASE c = <<>>
  <2>1. a \o c = a
    BY <1>4
  <2> QED
    BY <1>3, <1>4, <2>1, ScannedNone DEF u
<1>5. CASE c # <<>>
  <2>1. PICK d \in Seq(S), x \in S : c = Append(d, x)
    <3>1. Len(c) \in Nat \ {0}
      BY <1>5
    <3>. DEFINE d == [i \in 1..Len(c) - 1 |-> c[i]]
    <3>2. d \in Seq(S) /\ Len(d) = Len(c) - 1 /\ c[Len(c)] \in S
      BY <3>1
    <3>3. c = Append(d, c[Len(c)])
      BY <3>1, <3>2
    <3> QED
      BY <3>2, <3>3
  <2>2. Len(d) \in Nat /\ Len(d) < k /\ a \o d \in Seq(S)
    BY <1>3, <2>1
  <2>3. ScannedAll(s, a \o d) = ScannedAll(u, d)
    BY <1>2, <2>2
  <2>4. a \o c = Append(a \o d, x)
    BY <2>1
  <2>5. ScannedAll(u, c) = Scanned(ScannedAll(u, d), x)
    BY <2>1, ScannedMore
  <2>6. ScannedAll(s, a \o c) = Scanned(ScannedAll(s, a \o d), x)
    <3>. DEFINE e == a \o d
    <3>1. e \in Seq(S) /\ x \in S /\ a \o c = Append(e, x)
      BY <2>1, <2>2, <2>4
    <3>. HIDE DEF e
    <3>2. ScannedAll(s, Append(e, x)) = Scanned(ScannedAll(s, e), x)
      BY <3>1, ScannedMore
    <3> QED
      BY <3>1, <3>2 DEF e
  <2> QED
    BY <1>3, <2>3, <2>5, <2>6
<1> QED
  BY <1>4, <1>5

(* The same of the batches of a file.                                      *)
Loading(d, n, f) == f = [i \in 0..n |-> IF i = 0 THEN Unread ELSE ScannedAll(f[i - 1], d[i])]

LEMMA LoadingExists ==
    ASSUME NEW d, NEW n \in Nat
    PROVE  \E f : Loading(d, n, f)
<1>. DEFINE Missing == {k \in Nat : ~\E f : Loading(d, k, f)}
<1>1. SUFFICES ASSUME n \in Missing PROVE FALSE
  OBVIOUS
<1>2. PICK m \in Missing : \A k \in Missing : m <= k
  BY <1>1, LeastNumber
<1>3. m # 0
  <2>1. Loading(d, 0, [i \in 0..0 |-> Unread])
    BY DEF Loading
  <2> QED
    BY <1>2, <2>1
<1>4. m - 1 \in Nat /\ m - 1 \notin Missing
  BY <1>2, <1>3
<1>5. PICK f : Loading(d, m - 1, f)
  BY <1>4
<1>. DEFINE g == [i \in 0..m |-> IF i = m THEN ScannedAll(f[m - 1], d[m]) ELSE f[i]]
<1>6. ASSUME NEW i \in 0..m PROVE g[i] = IF i = 0 THEN Unread ELSE ScannedAll(g[i - 1], d[i])
  <2>1. CASE i = m
    BY <1>3, <1>4, <2>1
  <2>2. CASE i # m
    <3>1. i \in 0..m - 1 /\ (i # 0 => i - 1 \in 0..m - 1 /\ i - 1 # m)
      BY <1>4, <2>2
    <3>2. f[i] = IF i = 0 THEN Unread ELSE ScannedAll(f[i - 1], d[i])
      BY <1>5, <3>1 DEF Loading
    <3> QED
      BY <1>4, <2>2, <3>1, <3>2
  <2> QED
    BY <2>1, <2>2
<1>7. Loading(d, m, g)
  <2>. HIDE DEF g
  <2>1. g = [i \in 0..m |-> g[i]]
    BY DEF g
  <2> QED
    BY <1>6, <2>1 DEF Loading
<1> QED
  BY <1>2, <1>7

LEMMA ReloadedRuns ==
    ASSUME NEW d, Len(d) \in Nat
    PROVE  \E f : Loading(d, Len(d), f) /\ Reloaded(d) = f[Len(d)]
<1>. DEFINE n == Len(d)
<1>. DEFINE f == CHOOSE f : f = [i \in 0..n |-> IF i = 0 THEN Unread ELSE ScannedAll(f[i - 1], d[i])]
<1>1. \E g : g = [i \in 0..n |-> IF i = 0 THEN Unread ELSE ScannedAll(g[i - 1], d[i])]
  <2>. HIDE DEF n, f
  <2>1. n \in Nat
    BY DEF n
  <2>2. PICK g : Loading(d, n, g)
    BY <2>1, LoadingExists
  <2> QED
    BY <2>2 DEF Loading
<1>2. f = [i \in 0..n |-> IF i = 0 THEN Unread ELSE ScannedAll(f[i - 1], d[i])]
  BY <1>1
<1>3. Reloaded(d) = f[n]
  BY DEF Reloaded
<1> QED
  BY <1>2, <1>3 DEF Loading

LEMMA LoadingAgrees ==
    ASSUME NEW b, NEW c, NEW m \in Nat, NEW n \in Nat, NEW f, NEW g,
           Loading(b, m, f), Loading(c, n, g), \A i \in 1..m : b[i] = c[i], m <= n
    PROVE  \A i \in 0..m : f[i] = g[i]
<1>. DEFINE Wrong == {i \in 0..m : f[i] # g[i]}
<1>1. SUFFICES ASSUME Wrong # {} PROVE FALSE
  OBVIOUS
<1>2. PICK i \in Wrong : \A j \in Wrong : i <= j
  <2>1. Wrong \in SUBSET Nat
    OBVIOUS
  <2>. HIDE DEF Wrong
  <2> QED
    BY <1>1, <2>1, LeastNumber
<1>3. i \in 0..m /\ i \in 0..n
  BY <1>2
<1>4. f[i] = IF i = 0 THEN Unread ELSE ScannedAll(f[i - 1], b[i])
  BY <1>3 DEF Loading
<1>5. g[i] = IF i = 0 THEN Unread ELSE ScannedAll(g[i - 1], c[i])
  BY <1>3 DEF Loading
<1>6. CASE i = 0
  BY <1>2, <1>4, <1>5, <1>6
<1>7. CASE i # 0
  <2>1. i - 1 \in 0..m /\ i \in 1..m /\ ~(i <= i - 1)
    BY <1>3, <1>7
  <2>2. f[i - 1] = g[i - 1]
    BY <1>2, <2>1
  <2> QED
    BY <1>2, <1>4, <1>5, <1>7, <2>1, <2>2
<1> QED
  BY <1>6, <1>7

LEMMA ReloadedNone == Reloaded(<<>>) = Unread
<1>1. Len(<<>>) = 0
  OBVIOUS
<1>2. PICK f : Loading(<<>>, Len(<<>>), f) /\ Reloaded(<<>>) = f[Len(<<>>)]
  BY <1>1, ReloadedRuns
<1> QED
  BY <1>1, <1>2 DEF Loading

LEMMA ReloadedMore ==
    ASSUME NEW S, NEW a \in Seq(S), NEW c \in S
    PROVE  Reloaded(Append(a, c)) = ScannedAll(Reloaded(a), c)
<1>. DEFINE n == Len(a)  b == Append(a, c)
<1>1. n \in Nat /\ Len(b) = n + 1 /\ b[n + 1] = c /\ \A i \in 1..n : a[i] = b[i]
  OBVIOUS
<1>. HIDE DEF n, b
<1>2. PICK f : Loading(a, n, f) /\ Reloaded(a) = f[n]
  BY <1>1, ReloadedRuns DEF n
<1>3. PICK g : Loading(b, n + 1, g) /\ Reloaded(b) = g[n + 1]
  BY <1>1, ReloadedRuns
<1>4. f[n] = g[n]
  <2>1. n + 1 \in Nat /\ n <= n + 1 /\ n \in 0..n
    BY <1>1
  <2>2. \A i \in 0..n : f[i] = g[i]
    <3>. DEFINE k == n + 1
    <3>1. k \in Nat /\ n <= k /\ Loading(b, k, g) /\ Loading(a, n, f)
      BY <1>2, <1>3, <2>1
    <3>. HIDE DEF k
    <3> QED
      BY <1>1, <3>1, LoadingAgrees
  <2> QED
    BY <2>1, <2>2
<1>5. g[n + 1] = ScannedAll(g[n], b[n + 1])
  BY <1>1, <1>3 DEF Loading
<1> QED
  BY <1>1, <1>2, <1>3, <1>4, <1>5 DEF b

-----------------------------------------------------------------------------
(* Rows and columns                                                        *)

LEMMA RowsOrdered ==
    ASSUME NEW r \in Nat, NEW q \in Nat, r < q
    PROVE  r * COLS + COLS <= q * COLS /\ r * COLS \in Nat /\ q * COLS \in Nat
<1>. DEFINE d == q - r - 1
<1>1. d \in Nat /\ q = r + 1 + d /\ COLS \in Nat
  BY EditorAssumption
<1>. HIDE DEF d
<1>2. q * COLS = r * COLS + COLS + d * COLS
  BY <1>1
<1>3. d * COLS \in Nat /\ r * COLS \in Nat
  BY <1>1
<1> QED
  BY <1>1, <1>2, <1>3

LEMMA PlaceIs ==
    ASSUME NEW r \in Nat, NEW k \in 0..COLS - 1
    PROVE  /\ r * COLS + k \in Nat /\ (r * COLS + k) \div COLS = r /\ (r * COLS + k) % COLS = k
           /\ LastOf(r) = r * COLS + COLS - 1 /\ RowOf(r * COLS + k) = r
<1>. DEFINE i == r * COLS + k  q == i \div COLS
<1>1. COLS \in Nat /\ COLS > 1 /\ r * COLS \in Nat /\ k \in Nat /\ k < COLS
  BY EditorAssumption
<1>2. i \in Nat
  BY <1>1
<1>3. q \in Int /\ i % COLS \in 0..COLS - 1 /\ i = q * COLS + (i % COLS)
  <2>. HIDE DEF i
  <2> QED
    BY <1>1, <1>2
<1>4. q \in Nat
  <2>1. CASE q < 0
    <3>1. (0 - q) \in Nat /\ 0 < 0 - q
      BY <1>3, <2>1
    <3>. HIDE DEF q, i
    <3>2. 0 * COLS + COLS <= (0 - q) * COLS
      BY <3>1, RowsOrdered
    <3>3. (0 - q) * COLS = 0 - q * COLS /\ q * COLS \in Int /\ 0 * COLS = 0
      BY <1>1, <1>3
    <3> QED
      BY <1>1, <1>2, <1>3, <3>2, <3>3
  <2> QED
    BY <1>3, <2>1
<1>5. ~(q < r)
  <2>. HIDE DEF q
  <2>1. SUFFICES ASSUME q < r PROVE FALSE
    OBVIOUS
  <2>2. q * COLS + COLS <= r * COLS /\ q * COLS \in Nat
    BY <1>4, <2>1, RowsOrdered
  <2> QED
    BY <1>1, <1>2, <1>3, <2>2
<1>6. ~(r < q)
  <2>. HIDE DEF q
  <2>1. SUFFICES ASSUME r < q PROVE FALSE
    OBVIOUS
  <2>2. r * COLS + COLS <= q * COLS /\ q * COLS \in Nat
    BY <1>4, <2>1, RowsOrdered
  <2> QED
    BY <1>1, <1>2, <1>3, <2>2
<1>7. q = r
  <2>. HIDE DEF q
  <2> QED
    BY <1>4, <1>5, <1>6
<1>8. i % COLS = k
  <2>. HIDE DEF q
  <2>1. i = r * COLS + (i % COLS) /\ i % COLS \in Int
    BY <1>3, <1>7
  <2> QED
    BY <1>1, <2>1
<1> QED
  BY <1>2, <1>7, <1>8 DEF RowOf, LastOf

LEMMA AreaIs ==
    /\ AREA \in Nat /\ AREA = ROWS * COLS /\ 0 < ROWS /\ ROWS \in Nat /\ COLS \in Nat /\ 1 < COLS
    /\ \A r \in 0..ROWS - 1 : r * COLS + COLS <= AREA /\ r * COLS \in Nat /\ (r + 1) * COLS = r * COLS + COLS
<1>1. ROWS \in Nat /\ COLS \in Nat /\ 0 < ROWS /\ 1 < COLS
  BY EditorAssumption
<1>2. AREA \in Nat /\ AREA = ROWS * COLS
  BY <1>1 DEF AREA
<1>3. ASSUME NEW r \in 0..ROWS - 1 PROVE r * COLS + COLS <= AREA /\ r * COLS \in Nat
  BY <1>1, <1>2, <1>3, RowsOrdered
<1>4. ASSUME NEW r \in 0..ROWS - 1 PROVE (r + 1) * COLS = r * COLS + COLS
  BY <1>1
<1> QED
  BY <1>1, <1>2, <1>3, <1>4

(* Every place of the text is in a row.                                    *)
LEMMA PlaceHas ==
    ASSUME NEW i \in 0..AREA - 1
    PROVE  \E r \in 0..ROWS - 1, k \in 0..COLS - 1 : i = r * COLS + k /\ RowOf(i) = r
<1>. DEFINE r == i \div COLS  k == i % COLS
<1>1. i \in Nat /\ i < ROWS * COLS /\ COLS \in Nat /\ 1 < COLS /\ ROWS \in Nat
  BY AreaIs
<1>2. r \in Int /\ k \in 0..COLS - 1 /\ i = r * COLS + k /\ r * COLS \in Int
  BY <1>1
<1>. HIDE DEF r, k
<1>3. r >= 0
  <2>1. SUFFICES ASSUME r < 0 PROVE FALSE
    BY <1>2
  <2>2. (0 - r) \in Nat /\ 0 < 0 - r
    BY <1>2, <2>1
  <2>3. 0 * COLS + COLS <= (0 - r) * COLS
    BY <2>2, RowsOrdered
  <2>4. (0 - r) * COLS = 0 - r * COLS /\ 0 * COLS = 0
    BY <1>1, <1>2
  <2> QED
    BY <1>1, <1>2, <2>3, <2>4
<1>4. r < ROWS
  <2>1. SUFFICES ASSUME ROWS <= r PROVE FALSE
    BY <1>1, <1>2
  <2>2. ROWS * COLS <= r * COLS
    <3>1. ROWS = r \/ ROWS < r
      BY <1>1, <1>2, <2>1
    <3>2. CASE ROWS < r
      BY <1>1, <1>2, <1>3, <3>2, RowsOrdered
    <3> QED
      BY <1>1, <3>1, <3>2
  <2> QED
    BY <1>1, <1>2, <2>2
<1>5. RowOf(i) = r
  BY DEF RowOf, r
<1>6. r \in 0..ROWS - 1 /\ i = r * COLS + k
  BY <1>1, <1>2, <1>3, <1>4
<1> QED
  BY <1>2, <1>5, <1>6

-----------------------------------------------------------------------------
(* A row that is scanned is the row that was saved                         *)

TextOf == [0..AREA - 1 -> Letters]
Filled(t, n) == [i \in 0..AREA - 1 |-> IF i < n THEN t[i] ELSE Blank]
ScanAt(t, n, cr, full) == [text |-> Filled(t, n), pos |-> n, prevcr |-> cr, wrapped |-> full, overflow |-> FALSE]

(* So many rows are loaded, and k letters of the next.                     *)
Loaded(t, r, k) ==
    IF k = 0 THEN ScanAt(t, r * COLS, r > 0, FALSE) ELSE ScanAt(t, r * COLS + k, FALSE, k = COLS)

LEMMA LoadedIs ==
    ASSUME NEW t, NEW r \in Nat, NEW k \in 0..COLS
    PROVE  Loaded(t, r, k) = ScanAt(t, r * COLS + k, k = 0 /\ r > 0, k = COLS)
<1>1. COLS \in Nat /\ 1 < COLS /\ r * COLS \in Nat
  BY AreaIs
<1>2. CASE k = 0
  <2>1. r * COLS + k = r * COLS /\ (k = COLS) = FALSE /\ (k = 0 /\ r > 0) = (r > 0)
    BY <1>1, <1>2
  <2> QED
    BY <1>2, <2>1 DEF Loaded
<1>3. CASE k # 0
  <2>1. (k = 0 /\ r > 0) = FALSE
    BY <1>3
  <2> QED
    BY <1>3, <2>1 DEF Loaded
<1> QED
  BY <1>2, <1>3

LEMMA LetterScanned ==
    ASSUME NEW t \in TextOf, NEW r \in 0..ROWS - 1, NEW k \in 0..COLS - 1
    PROVE  Scanned(Loaded(t, r, k), t[r * COLS + k]) = Loaded(t, r, k + 1)
<1>. DEFINE s == Loaded(t, r, k)  i == r * COLS + k  c == t[i]
<1>1. r \in Nat /\ i \in 0..AREA - 1 /\ COLS \in Nat /\ 1 < COLS /\ AREA \in Nat /\ r * COLS \in Nat
  BY AreaIs
<1>2. c \in Letters /\ c \notin {CR, LF} /\ Shown(c) = c
  BY <1>1, EditorAssumption DEF TextOf, Shown
<1>3. /\ s.pos = i /\ s.overflow = FALSE /\ s.text = Filled(t, i)
      /\ s = [text |-> s.text, pos |-> s.pos, prevcr |-> s.prevcr, wrapped |-> s.wrapped, overflow |-> s.overflow]
  <2>1. s = ScanAt(t, i, k = 0 /\ r > 0, k = COLS)
    BY <1>1, LoadedIs
  <2>. DEFINE cr == (k = 0 /\ r > 0)  full == (k = COLS)
  <2>2. s = ScanAt(t, i, cr, full)
    BY <2>1
  <2>. HIDE DEF s, i, cr, full
  <2>3. s.pos = i /\ s.overflow = FALSE /\ s.text = Filled(t, i) /\ s.wrapped = full
    BY <2>2 DEF ScanAt
  <2>4. s = [text |-> s.text, pos |-> s.pos, prevcr |-> s.prevcr, wrapped |-> s.wrapped, overflow |-> s.overflow]
    BY <2>2 DEF ScanAt
  <2> QED
    BY <2>3, <2>4 DEF full
<1>4. Scanned(s, c) = [s EXCEPT !.text[i] = c, !.pos = i + 1, !.prevcr = FALSE, !.wrapped = ((i + 1) % COLS = 0)]
  <2>. HIDE DEF s, i, c
  <2> QED
    BY <1>1, <1>2, <1>3 DEF Scanned
<1>5. [Filled(t, i) EXCEPT ![i] = c] = Filled(t, i + 1)
  <2>. HIDE DEF s, i
  <2>1. \A j \in 0..AREA - 1 : j < i + 1 <=> j < i \/ j = i
    BY <1>1
  <2> QED
    BY <1>1, <2>1 DEF Filled
<1>6. ((i + 1) % COLS = 0) <=> k + 1 = COLS
  <2>1. CASE k + 1 = COLS
    <3>1. i + 1 = (r + 1) * COLS + 0 /\ r + 1 \in Nat /\ 0 \in 0..COLS - 1
      BY <1>1, <2>1
    <3>2. ((r + 1) * COLS + 0) % COLS = 0
      BY <3>1, PlaceIs
    <3> QED
      BY <2>1, <3>1, <3>2
  <2>2. CASE k + 1 # COLS
    <3>1. k + 1 \in 0..COLS - 1 /\ i + 1 = r * COLS + (k + 1)
      BY <1>1, <2>2
    <3>2. (r * COLS + (k + 1)) % COLS = k + 1
      BY <1>1, <3>1, PlaceIs
    <3> QED
      BY <1>1, <2>2, <3>1, <3>2
  <2> QED
    BY <2>1, <2>2
<1>7. Scanned(s, c) = ScanAt(t, i + 1, FALSE, k + 1 = COLS)
  <2>. DEFINE w == ((i + 1) % COLS = 0)
  <2>1. w = (k + 1 = COLS)
    BY <1>6
  <2>. HIDE DEF s, i, c, w
  <2>2. Scanned(s, c) = [text |-> Filled(t, i + 1), pos |-> i + 1, prevcr |-> FALSE, wrapped |-> w,
                         overflow |-> FALSE]
    BY <1>3, <1>4, <1>5 DEF w
  <2> QED
    BY <2>1, <2>2 DEF ScanAt
<1>8. Loaded(t, r, k + 1) = ScanAt(t, r * COLS + (k + 1), FALSE, k + 1 = COLS)
  <2>1. k + 1 # 0
    BY <1>1
  <2> QED
    BY <2>1 DEF Loaded
<1>9. r * COLS + (k + 1) = i + 1
  BY <1>1
<1> QED
  BY <1>7, <1>8, <1>9

LEMMA RowScanned ==
    ASSUME NEW t \in TextOf, NEW r \in 0..ROWS - 1, NEW k \in 0..COLS,
           \A i \in r * COLS + k..LastOf(r) : t[i] = Blank
    PROVE  Scanned(Loaded(t, r, k), CR) = Loaded(t, r + 1, 0)
<1>. DEFINE s == Loaded(t, r, k)  n == (r + 1) * COLS  i == r * COLS + k
<1>1. /\ r \in Nat /\ COLS \in Nat /\ 1 < COLS /\ AREA \in Nat /\ r * COLS \in Nat /\ n = r * COLS + COLS
      /\ n <= AREA /\ i \in Nat /\ n \in Nat /\ LastOf(r) = n - 1
  BY AreaIs DEF LastOf
<1>2. /\ s.pos = i /\ s.overflow = FALSE /\ s.text = Filled(t, i) /\ s.wrapped = (k = COLS)
      /\ s = [text |-> s.text, pos |-> s.pos, prevcr |-> s.prevcr, wrapped |-> s.wrapped, overflow |-> s.overflow]
  <2>1. s = ScanAt(t, i, k = 0 /\ r > 0, k = COLS)
    BY <1>1, LoadedIs
  <2>. DEFINE cr == (k = 0 /\ r > 0)  full == (k = COLS)
  <2>2. s = ScanAt(t, i, cr, full)
    BY <2>1
  <2>. HIDE DEF s, i, cr, full
  <2>3. s.pos = i /\ s.overflow = FALSE /\ s.text = Filled(t, i) /\ s.wrapped = full
    BY <2>2 DEF ScanAt
  <2>4. s = [text |-> s.text, pos |-> s.pos, prevcr |-> s.prevcr, wrapped |-> s.wrapped, overflow |-> s.overflow]
    BY <2>2 DEF ScanAt
  <2> QED
    BY <2>3, <2>4 DEF full
<1>3. RowEnds(s) = n
  <2>1. CASE k = COLS
    BY <1>1, <1>2, <2>1 DEF RowEnds
  <2>2. CASE k # COLS
    <3>1. k \in 0..COLS - 1
      BY <1>1, <2>2
    <3>2. i \div COLS = r
      BY <1>1, <3>1, PlaceIs
    <3> QED
      BY <1>1, <1>2, <2>2, <3>2 DEF RowEnds
  <2> QED
    BY <2>1, <2>2
<1>4. CR # LF
  BY EditorAssumption
<1>5. Scanned(s, CR) = [s EXCEPT !.pos = n, !.prevcr = TRUE, !.wrapped = FALSE, !.overflow = FALSE]
  <2>1. (RowEnds(s) > AREA) = FALSE
    BY <1>1, <1>3
  <2>. HIDE DEF s, n, i
  <2>2. Scanned(s, CR) = [s EXCEPT !.pos = RowEnds(s), !.prevcr = CR = CR, !.wrapped = FALSE,
                                   !.overflow = RowEnds(s) > AREA]
    BY <1>2, <1>4 DEF Scanned
  <2>3. (CR = CR) = TRUE
    OBVIOUS
  <2> QED
    BY <1>3, <2>1, <2>2, <2>3
<1>6. Filled(t, i) = Filled(t, n)
  <2>1. ASSUME NEW j \in 0..AREA - 1 PROVE (IF j < i THEN t[j] ELSE Blank) = (IF j < n THEN t[j] ELSE Blank)
    <3>1. i <= n
      BY <1>1
    <3>2. CASE j < i
      BY <1>1, <3>1, <3>2
    <3>3. CASE ~(j < i) /\ j < n
      BY <1>1, <3>3
    <3>4. CASE ~(j < i) /\ ~(j < n)
      BY <3>4
    <3> QED
      BY <3>2, <3>3, <3>4
  <2> QED
    BY <2>1 DEF Filled
<1>7. Loaded(t, r + 1, 0) = ScanAt(t, n, TRUE, FALSE)
  <2>1. (r + 1 > 0) = TRUE
    BY <1>1
  <2> QED
    BY <2>1 DEF Loaded
<1> QED
  <2>. HIDE DEF s, n, i
  <2> QED
    BY <1>2, <1>5, <1>6, <1>7 DEF ScanAt, s

LEMMA HighestIs ==
    ASSUME NEW S, NEW lo \in Nat, NEW hi \in Int, S \subseteq lo..hi, S # {}
    PROVE  Highest(S) \in S /\ \A j \in S : j <= Highest(S)
<1>. DEFINE T == {hi - i : i \in S}
<1>1. T \in SUBSET Nat /\ T # {}
  OBVIOUS
<1>. HIDE DEF T
<1>2. PICK m \in T : \A k \in T : m <= k
  BY <1>1, LeastNumber
<1>. USE DEF T
<1>3. PICK i \in S : m = hi - i
  BY <1>2
<1>4. \A j \in S : j <= i
  <2>1. SUFFICES ASSUME NEW j \in S PROVE j <= i
    OBVIOUS
  <2>2. m <= hi - j /\ i \in Int /\ j \in Int
    BY <1>2
  <2> QED
    BY <1>3, <2>2
<1> QED
  BY <1>4 DEF Highest

RowBegun(t, r, k) == [i \in 1..k |-> t[r * COLS + i - 1]]
Bytes == Letters \cup {CR}

LEMMA RowIs ==
    ASSUME NEW t \in TextOf, NEW r \in 0..ROWS - 1
    PROVE  \E k \in 0..COLS : /\ Row(t, r) = Append(RowBegun(t, r, k), CR)
                              /\ \A i \in r * COLS + k..LastOf(r) : t[i] = Blank
<1>. DEFINE inked == Ends(t, r * COLS, LastOf(r))
            end == IF inked = {} THEN 0 ELSE Highest(inked) - r * COLS + 1
<1>1. /\ r * COLS \in Nat /\ COLS \in Nat /\ 1 < COLS /\ LastOf(r) = r * COLS + COLS - 1
      /\ \A i \in inked : i \in r * COLS..LastOf(r) /\ t[i] # Blank
      /\ \A i \in r * COLS..LastOf(r) : i \notin inked => t[i] = Blank
  BY AreaIs, PlaceIs DEF Ends, LastOf
<1>2. Row(t, r) = Append(RowBegun(t, r, end), CR)
  BY DEF Row, RowBegun
<1>. HIDE DEF inked
<1>3. CASE inked = {}
  BY <1>1, <1>2, <1>3
<1>4. CASE inked # {}
  <2>. DEFINE top == Highest(inked)
  <2>1. top \in inked /\ \A j \in inked : j <= top
    <3>1. inked \subseteq r * COLS..LastOf(r) /\ LastOf(r) \in Int
      BY <1>1
    <3> QED
      BY <1>1, <1>4, <3>1, HighestIs
  <2>2. top \in r * COLS..LastOf(r) /\ end = top - r * COLS + 1
    BY <1>1, <1>4, <2>1
  <2>. HIDE DEF top, end
  <2>3. end \in 0..COLS /\ r * COLS + end = top + 1
    BY <1>1, <2>2
  <2>4. \A i \in r * COLS + end..LastOf(r) : t[i] = Blank
    <3>1. SUFFICES ASSUME NEW i \in r * COLS + end..LastOf(r) PROVE i \notin inked /\ i \in r * COLS..LastOf(r)
      BY <1>1
    <3>2. i \in Int /\ top \in Int /\ top + 1 <= i
      BY <1>1, <2>2, <2>3
    <3> QED
      BY <1>1, <2>1, <2>2, <3>2
  <2> QED
    BY <1>2, <2>3, <2>4
<1> QED
  BY <1>3, <1>4

LEMMA LettersScanned ==
    ASSUME NEW t \in TextOf, NEW r \in 0..ROWS - 1, NEW k \in 0..COLS
    PROVE  /\ RowBegun(t, r, k) \in Seq(Bytes)
           /\ ScannedAll(Loaded(t, r, 0), RowBegun(t, r, k)) = Loaded(t, r, k)
<1>. DEFINE Good(n) == /\ RowBegun(t, r, n) \in Seq(Bytes)
                       /\ ScannedAll(Loaded(t, r, 0), RowBegun(t, r, n)) = Loaded(t, r, n)
            Bad == {n \in 0..COLS : ~Good(n)}
<1>1. SUFFICES ASSUME Bad # {} PROVE FALSE
  OBVIOUS
<1>2. /\ COLS \in Nat /\ 1 < COLS /\ AREA \in Nat /\ r * COLS \in Nat /\ r * COLS + COLS <= AREA
  BY AreaIs
<1>3. PICK m \in Bad : \A n \in Bad : m <= n
  <2>1. Bad \in SUBSET Nat
    BY <1>2
  <2>. HIDE DEF Bad
  <2> QED
    BY <1>1, <2>1, LeastNumber
<1>4. m \in 0..COLS /\ ~Good(m)
  BY <1>3
<1>5. CASE m = 0
  <2>1. RowBegun(t, r, 0) = <<>>
    BY <1>2 DEF RowBegun
  <2>2. <<>> \in Seq(Bytes)
    OBVIOUS
  <2>3. ScannedAll(Loaded(t, r, 0), <<>>) = Loaded(t, r, 0)
    BY ScannedNone
  <2> QED
    BY <1>4, <1>5, <2>1, <2>2, <2>3
<1>6. CASE m # 0
  <2>. DEFINE n == m - 1  i == r * COLS + n
  <2>1. n \in 0..COLS - 1 /\ n \in 0..COLS /\ m = n + 1 /\ i \in 0..AREA - 1 /\ ~(m <= n)
    BY <1>2, <1>4, <1>6
  <2>2. Good(n)
    BY <1>3, <2>1
  <2>3. t[i] \in Bytes
    BY <2>1 DEF TextOf, Bytes
  <2>4. RowBegun(t, r, m) = Append(RowBegun(t, r, n), t[i])
    <3>1. Len(RowBegun(t, r, n)) = n
      BY <2>1 DEF RowBegun
    <3>2. \A j \in 1..m : r * COLS + j - 1 \in Int /\ (j \in 1..n \/ j = m)
      BY <1>2, <2>1
    <3>3. RowBegun(t, r, m) = [j \in 1..m |-> t[r * COLS + j - 1]] /\ r * COLS + m - 1 = i
      BY <1>2, <2>1 DEF RowBegun
    <3> QED
      BY <2>1, <2>2, <3>1, <3>2, <3>3 DEF RowBegun
  <2>5. ScannedAll(Loaded(t, r, 0), RowBegun(t, r, m)) = Scanned(Loaded(t, r, n), t[i])
    BY <2>2, <2>3, <2>4, ScannedMore
  <2>6. Scanned(Loaded(t, r, n), t[i]) = Loaded(t, r, m)
    BY <2>1, LetterScanned
  <2>7. RowBegun(t, r, m) \in Seq(Bytes)
    BY <2>2, <2>3, <2>4
  <2> QED
    BY <1>4, <2>5, <2>6, <2>7
<1> QED
  BY <1>5, <1>6

LEMMA RowLoaded ==
    ASSUME NEW t \in TextOf, NEW r \in 0..ROWS - 1
    PROVE  /\ Row(t, r) \in Seq(Bytes)
           /\ ScannedAll(Loaded(t, r, 0), Row(t, r)) = Loaded(t, r + 1, 0)
<1>1. PICK k \in 0..COLS : /\ Row(t, r) = Append(RowBegun(t, r, k), CR)
                           /\ \A i \in r * COLS + k..LastOf(r) : t[i] = Blank
  BY RowIs
<1>2. CR \in Bytes
  BY DEF Bytes
<1>3. RowBegun(t, r, k) \in Seq(Bytes) /\ ScannedAll(Loaded(t, r, 0), RowBegun(t, r, k)) = Loaded(t, r, k)
  BY LettersScanned
<1>4. Scanned(Loaded(t, r, k), CR) = Loaded(t, r + 1, 0)
  BY <1>1, RowScanned
<1>5. ScannedAll(Loaded(t, r, 0), Row(t, r)) = Scanned(Loaded(t, r, k), CR)
  BY <1>1, <1>2, <1>3, ScannedMore
<1> QED
  BY <1>1, <1>2, <1>3, <1>4, <1>5

-----------------------------------------------------------------------------
(* The batches                                                             *)

(* A row added to the last batch, or to a new one, is scanned after what   *)
(* is there already.                                                       *)
LEMMA BatchedLoaded ==
    ASSUME NEW d \in Seq(Seq(Bytes)), NEW row \in Seq(Bytes)
    PROVE  /\ Batched(d, row) \in Seq(Seq(Bytes))
           /\ Reloaded(Batched(d, row)) = ScannedAll(Reloaded(d), row)
<1>. DEFINE n == Len(d)
<1>1. CASE d # <<>> /\ Len(d[n]) + Len(row) <= BATCH
  <2>1. n \in Nat \ {0} /\ d[n] \in Seq(Bytes)
    BY <1>1
  <2>. DEFINE e == [i \in 1..n - 1 |-> d[i]]  l == d[n]
  <2>2. e \in Seq(Seq(Bytes)) /\ Len(e) = n - 1 /\ l \o row \in Seq(Bytes)
    BY <2>1
  <2>3. d = Append(e, l)
    BY <2>1, <2>2
  <2>4. Batched(d, row) = [d EXCEPT ![n] = l \o row]
    BY <1>1 DEF Batched
  <2>5. [d EXCEPT ![n] = l \o row] = Append(e, l \o row)
    BY <2>1, <2>2
  <2>. HIDE DEF e, l, n
  <2>6. Reloaded(Append(e, l \o row)) = ScannedAll(Reloaded(e), l \o row)
    BY <2>2, ReloadedMore
  <2>7. Reloaded(d) = ScannedAll(Reloaded(e), l)
    BY <2>1, <2>2, <2>3, ReloadedMore DEF l
  <2>8. ScannedAll(Reloaded(e), l \o row) = ScannedAll(ScannedAll(Reloaded(e), l), row)
    BY <2>1, ScannedOn DEF l
  <2>9. Append(e, l \o row) \in Seq(Seq(Bytes))
    BY <2>2
  <2> QED
    BY <2>4, <2>5, <2>6, <2>7, <2>8, <2>9
<1>2. CASE ~(d # <<>> /\ Len(d[n]) + Len(row) <= BATCH)
  <2>1. Batched(d, row) = Append(d, row)
    BY <1>2 DEF Batched
  <2>2. Append(d, row) \in Seq(Seq(Bytes))
    OBVIOUS
  <2>3. Reloaded(Append(d, row)) = ScannedAll(Reloaded(d), row)
    BY ReloadedMore
  <2> QED
    BY <2>1, <2>2, <2>3
<1> QED
  BY <1>1, <1>2

Filling(t, n, f) == f = [r \in 0..n |-> IF r = 0 THEN <<>> ELSE Batched(f[r - 1], Row(t, r - 1))]

LEMMA FillingExists ==
    ASSUME NEW t, NEW n \in Nat
    PROVE  \E f : Filling(t, n, f)
<1>. DEFINE Missing == {k \in Nat : ~\E f : Filling(t, k, f)}
<1>1. SUFFICES ASSUME n \in Missing PROVE FALSE
  OBVIOUS
<1>2. PICK m \in Missing : \A k \in Missing : m <= k
  BY <1>1, LeastNumber
<1>3. m # 0
  <2>1. Filling(t, 0, [i \in 0..0 |-> <<>>])
    BY DEF Filling
  <2> QED
    BY <1>2, <2>1
<1>4. m - 1 \in Nat /\ m - 1 \notin Missing
  BY <1>2, <1>3
<1>5. PICK f : Filling(t, m - 1, f)
  BY <1>4
<1>. DEFINE g == [i \in 0..m |-> IF i = m THEN Batched(f[m - 1], Row(t, m - 1)) ELSE f[i]]
<1>6. ASSUME NEW i \in 0..m PROVE g[i] = IF i = 0 THEN <<>> ELSE Batched(g[i - 1], Row(t, i - 1))
  <2>1. CASE i = m
    BY <1>3, <1>4, <2>1
  <2>2. CASE i # m
    <3>1. i \in 0..m - 1 /\ (i # 0 => i - 1 \in 0..m - 1 /\ i - 1 # m)
      BY <1>4, <2>2
    <3>2. f[i] = IF i = 0 THEN <<>> ELSE Batched(f[i - 1], Row(t, i - 1))
      BY <1>5, <3>1 DEF Filling
    <3> QED
      BY <1>4, <2>2, <3>1, <3>2
  <2> QED
    BY <2>1, <2>2
<1>7. Filling(t, m, g)
  <2>. HIDE DEF g
  <2>1. g = [i \in 0..m |-> g[i]]
    BY DEF g
  <2> QED
    BY <1>6, <2>1 DEF Filling
<1> QED
  BY <1>2, <1>7

LEMMA RowCountIs ==
    ASSUME NEW t \in TextOf
    PROVE  /\ RowCount(t) \in 0..ROWS
           /\ \A i \in 0..AREA - 1 : RowCount(t) * COLS <= i => t[i] = Blank
<1>. DEFINE inked == Ends(t, 0, AREA - 1)
<1>1. AREA \in Nat /\ ROWS \in Nat /\ COLS \in Nat /\ 0 < ROWS /\ inked \subseteq 0..AREA - 1
  BY AreaIs DEF Ends
<1>2. \A i \in 0..AREA - 1 : i \notin inked => t[i] = Blank
  BY DEF Ends
<1>3. RowCount(t) = IF inked = {} THEN 0 ELSE RowOf(Highest(inked)) + 1
  BY DEF RowCount
<1>. HIDE DEF inked
<1>4. CASE inked = {}
  BY <1>1, <1>2, <1>3, <1>4
<1>5. CASE inked # {}
  <2>. DEFINE top == Highest(inked)
  <2>1. top \in inked /\ \A j \in inked : j <= top
    <3>. DEFINE hi == AREA - 1
    <3>1. 0 \in Nat /\ hi \in Int /\ inked \subseteq 0..hi
      BY <1>1
    <3>. HIDE DEF hi
    <3> QED
      BY <1>5, <3>1, HighestIs
  <2>. HIDE DEF top
  <2>2. PICK r \in 0..ROWS - 1, k \in 0..COLS - 1 : top = r * COLS + k /\ RowOf(top) = r
    BY <1>1, <2>1, PlaceHas
  <2>3. RowCount(t) = r + 1
    BY <1>3, <1>5, <2>2 DEF top
  <2>4. (r + 1) * COLS = r * COLS + COLS /\ r * COLS \in Nat
    BY AreaIs
  <2>5. ASSUME NEW i \in 0..AREA - 1, (r + 1) * COLS <= i PROVE i \notin inked
    <3>1. top < i /\ top \in Int /\ i \in Int
      BY <1>1, <2>2, <2>4, <2>5
    <3> QED
      BY <2>1, <3>1
  <2> QED
    BY <1>1, <1>2, <2>3, <2>5
<1> QED
  BY <1>4, <1>5

LEMMA BatchesLoaded ==
    ASSUME NEW t \in TextOf
    PROVE  /\ Batches(t) \in Seq(Seq(Bytes))
           /\ Reloaded(Batches(t)) = Loaded(t, RowCount(t), 0)
<1>. DEFINE n == RowCount(t)
            f == CHOOSE f : f = [r \in 0..n |-> IF r = 0 THEN <<>> ELSE Batched(f[r - 1], Row(t, r - 1))]
<1>1. \E g : g = [r \in 0..n |-> IF r = 0 THEN <<>> ELSE Batched(g[r - 1], Row(t, r - 1))]
  <2>. HIDE DEF n, f
  <2>1. n \in Nat
    BY RowCountIs, AreaIs DEF n
  <2>2. PICK g : Filling(t, n, g)
    BY <2>1, FillingExists
  <2> QED
    BY <2>2 DEF Filling
<1>2. f = [r \in 0..n |-> IF r = 0 THEN <<>> ELSE Batched(f[r - 1], Row(t, r - 1))]
  BY <1>1
<1>3. Batches(t) = f[n]
  BY DEF Batches
<1>4. n \in 0..ROWS /\ ROWS \in Nat
  BY RowCountIs, AreaIs
<1>. HIDE DEF f, n
<1>. DEFINE Good(r) == f[r] \in Seq(Seq(Bytes)) /\ Reloaded(f[r]) = Loaded(t, r, 0)
            Bad == {r \in 0..n : ~Good(r)}
<1>5. SUFFICES ASSUME Bad # {} PROVE FALSE
  BY <1>3, <1>4 DEF n
<1>6. PICK m \in Bad : \A r \in Bad : m <= r
  <2>1. Bad \in SUBSET Nat
    BY <1>4
  <2>. HIDE DEF Bad
  <2> QED
    BY <1>5, <2>1, LeastNumber
<1>7. m \in 0..n /\ ~Good(m)
  BY <1>6
<1>8. f[m] = IF m = 0 THEN <<>> ELSE Batched(f[m - 1], Row(t, m - 1))
  BY <1>2, <1>7
<1>9. CASE m = 0
  <2>1. <<>> \in Seq(Seq(Bytes))
    OBVIOUS
  <2>2. Loaded(t, 0, 0) = Unread
    <3>1. 0 * COLS = 0 /\ (0 > 0) = FALSE
      BY AreaIs
    <3>2. Filled(t, 0) = [i \in 0..AREA - 1 |-> Blank]
      BY AreaIs DEF Filled
    <3> QED
      BY <3>1, <3>2 DEF Loaded, ScanAt, Unread
  <2> QED
    BY <1>7, <1>8, <1>9, <2>1, <2>2, ReloadedNone
<1>10. CASE m # 0
  <2>. DEFINE r == m - 1
  <2>1. r \in 0..ROWS - 1 /\ r \in 0..n /\ ~(m <= r) /\ m = r + 1
    BY <1>4, <1>7, <1>10
  <2>2. Good(r)
    BY <1>6, <2>1
  <2>3. Row(t, r) \in Seq(Bytes) /\ ScannedAll(Loaded(t, r, 0), Row(t, r)) = Loaded(t, m, 0)
    BY <2>1, RowLoaded
  <2>4. f[m] = Batched(f[r], Row(t, r))
    BY <1>8, <1>10
  <2>. HIDE DEF r
  <2> QED
    BY <1>7, <2>2, <2>3, <2>4, BatchedLoaded
<1> QED
  BY <1>9, <1>10

(* Loading what was saved of a text gives the text, whatever it is, and    *)
(* for every size of the screen and of the buffer.                         *)
LEMMA SavingReturns ==
    ASSUME NEW t \in TextOf
    PROVE  Batches(t) \in Seq(Seq(Bytes)) /\ Reloaded(Batches(t)).text = t /\ ~Reloaded(Batches(t)).overflow
<1>. DEFINE n == RowCount(t) * COLS
<1>1. Filled(t, n) = t
  <2>1. \A i \in 0..AREA - 1 : RowCount(t) * COLS <= i => t[i] = Blank
    BY RowCountIs
  <2>2. RowCount(t) \in Nat /\ COLS \in Nat /\ AREA \in Nat
    BY RowCountIs, AreaIs
  <2>3. n \in Nat
    BY <2>2
  <2>4. ASSUME NEW i \in 0..AREA - 1 PROVE (IF i < n THEN t[i] ELSE Blank) = t[i]
    <3>. HIDE DEF n
    <3>1. i < n \/ n <= i
      BY <2>2, <2>3
    <3> QED
      BY <2>1, <3>1 DEF n
  <2>5. t = [i \in 0..AREA - 1 |-> t[i]]
    BY DEF TextOf
  <2> QED
    BY <2>4, <2>5 DEF Filled
<1>2. Loaded(t, RowCount(t), 0) = ScanAt(t, n, RowCount(t) > 0, FALSE)
  BY DEF Loaded
<1>. DEFINE cr == RowCount(t) > 0  s == Reloaded(Batches(t))
<1>3. s = ScanAt(t, n, cr, FALSE)
  BY <1>2, BatchesLoaded
<1>. HIDE DEF n, cr, s
<1>4. s.text = Filled(t, n) /\ s.overflow = FALSE
  BY <1>3 DEF ScanAt
<1> QED
  BY <1>1, <1>4, BatchesLoaded DEF s

-----------------------------------------------------------------------------
(***************************************************************************)
(* The editor: before it writes, the files are as they were; what has gone *)
(* through the channel and what is still to be written are together the    *)
(* batches of the text, as long as no write was lost; and on a drive that  *)
(* is what the file holds, on the cartridge nothing has changed yet.       *)
(***************************************************************************)
ScanState(s) ==
    /\ s.text \in TextOf
    /\ s = [text |-> s.text, pos |-> s.pos, prevcr |-> s.prevcr, wrapped |-> s.wrapped, overflow |-> s.overflow]
IsText(d) == \E C : d \in Seq(Seq(C))
Channel(c) == c = [mode |-> c.mode, place |-> c.place, data |-> c.data, live |-> c.live, bad |-> c.bad]

Editing ==
    /\ text \in TextOf /\ ScanState(scan) /\ cursor \in (0..COLS - 1) \X (0..ROWS - 1)
    /\ editor \in {"find", "open", "load", "keys", "prepare", "scratch", "create", "write", "close", "over"}
    /\ paper \in {<<>>} \cup Places
    /\ editor \in {"open", "load", "prepare", "scratch", "create", "write", "close"} => paper \in Places

Wired ==
    /\ cmdslot \in {0, 1} /\ DOMAIN chan = Files /\ \A f \in Files : Channel(chan[f])
    /\ DOMAIN files = Places /\ files = [p \in Places |-> files[p]] /\ DOMAIN first = Places
    /\ \A p \in Places : \A x \in first[p] : IsText(x.data)

CartAsBefore == \A p \in Places : Dev(p) = Cart => files[p] = first[p]
NoWriters(cs) == \A f \in Files : cs[f].mode # "write"

EditorFiles ==
    /\ editor \in {"find", "open", "load", "keys", "prepare", "scratch"} => files = first
    /\ editor = "load" => IsText(chan[2].data)
    /\ editor = "scratch" => Dev(paper) # Cart
    /\ editor \in {"find", "open", "load", "keys", "prepare", "scratch", "create"} =>
         sound = TRUE /\ NoWriters(chan)
    /\ saved = FALSE => CartAsBefore
    /\ saved \in BOOLEAN /\ (saved = TRUE => editor = "over" /\ Contents(files, paper) = {Batches(text)})

OnDisk(d) == \E x : /\ files[paper] = {x} /\ x.data = d
                    /\ x = [data |-> x.data, closed |-> x.closed, locked |-> x.locked]
Storing ==
    editor \in {"write", "close"} =>
      /\ chan[3].place = paper /\ chan[3].live = TRUE /\ NoWriters([chan EXCEPT ![3] = Idle])
      /\ (sound = TRUE \/ chan[3].bad = TRUE) /\ sound \in BOOLEAN /\ chan[3].bad \in BOOLEAN
      /\ batches \in Seq(Seq(Bytes)) /\ (editor = "close" => batches = <<>>)
      /\ chan[3].bad = FALSE =>
           /\ chan[3].data \in Seq(Seq(Bytes)) /\ chan[3].data \o batches = Batches(text)
           /\ Dev(paper) # Cart => OnDisk(chan[3].data)

EditorInv == Editing /\ Wired /\ EditorFiles /\ Storing

-----------------------------------------------------------------------------
LEMMA CutIs ==
    ASSUME NEW cs, \A f \in Files : Channel(cs[f]), NEW dev
    PROVE  /\ DOMAIN Cut(cs, dev) = Files /\ \A f \in Files : Channel(Cut(cs, dev)[f])
           /\ \A f \in Files : /\ Cut(cs, dev)[f].mode = cs[f].mode /\ Cut(cs, dev)[f].place = cs[f].place
                               /\ Cut(cs, dev)[f].data = cs[f].data /\ Cut(cs, dev)[f].bad = cs[f].bad
                               /\ ~On(cs[f], dev) /\ cs[f].live = TRUE => Cut(cs, dev)[f].live = TRUE
<1>1. ASSUME NEW f \in Files
      PROVE  Cut(cs, dev)[f] = [mode |-> cs[f].mode, place |-> cs[f].place, data |-> cs[f].data,
                                live |-> cs[f].live /\ ~On(cs[f], dev), bad |-> cs[f].bad]
  <2>1. Cut(cs, dev)[f] = [cs[f] EXCEPT !.live = @ /\ ~On(cs[f], dev)]
    BY DEF Cut
  <2> QED
    BY <2>1 DEF Channel
<1>2. DOMAIN Cut(cs, dev) = Files
  BY DEF Cut
<1>3. ASSUME NEW f \in Files
      PROVE  /\ Channel(Cut(cs, dev)[f])
             /\ Cut(cs, dev)[f].mode = cs[f].mode /\ Cut(cs, dev)[f].place = cs[f].place
             /\ Cut(cs, dev)[f].data = cs[f].data /\ Cut(cs, dev)[f].bad = cs[f].bad
             /\ ~On(cs[f], dev) /\ cs[f].live = TRUE => Cut(cs, dev)[f].live = TRUE
  <2>. DEFINE c == Cut(cs, dev)[f]  live == cs[f].live /\ ~On(cs[f], dev)
  <2>1. c = [mode |-> cs[f].mode, place |-> cs[f].place, data |-> cs[f].data, live |-> live, bad |-> cs[f].bad]
    BY <1>1
  <2>2. ~On(cs[f], dev) /\ cs[f].live = TRUE => live = TRUE
    OBVIOUS
  <2>. HIDE DEF c, live
  <2>3. Channel(c) /\ c.mode = cs[f].mode /\ c.place = cs[f].place /\ c.data = cs[f].data /\ c.bad = cs[f].bad
        /\ c.live = live
    BY <2>1 DEF Channel
  <2> QED
    BY <2>2, <2>3 DEF c
<1> QED
  BY <1>2, <1>3

(* A request while no file is being written.                               *)
LEMMA QuietRequest ==
    ASSUME cmdslot \in {0, 1}, NEW dev, NEW fs, fs = [p \in Places |-> fs[p]],
           NEW cs, \A f \in Files : Channel(cs[f]), NoWriters(cs),
           \/ Status(dev, fs, cs) \/ (fs = files /\ NotReady(dev, cs))
           \/ /\ \E found \in BOOLEAN : UseStatus(dev, found)
              /\ files' = Beheaded(fs, cs, Evicted(dev)) /\ chan' = Cut(cs, Evicted(dev))
    PROVE  /\ files' = fs /\ cmdslot' \in {0, 1} /\ DOMAIN chan' = Files /\ \A f \in Files : Channel(chan'[f])
           /\ NoWriters(chan') /\ \A f \in Files : chan'[f].data = cs[f].data
<1>1. cmdslot' \in {0, 1}
  BY DEF Status, NotReady, UseStatus, NextSlot
<1>2. files' = Beheaded(fs, cs, Evicted(dev)) /\ chan' = Cut(cs, Evicted(dev))
  BY DEF Status, NotReady
<1>3. Beheaded(fs, cs, Evicted(dev)) = fs
  BY DEF Beheaded, NoWriters
<1>. DEFINE kept == Cut(cs, Evicted(dev))
<1>4. DOMAIN kept = Files /\ \A f \in Files : Channel(kept[f]) /\ kept[f].mode = cs[f].mode /\ kept[f].data = cs[f].data
  BY CutIs
<1>. HIDE DEF kept
<1>5. NoWriters(kept)
  BY <1>4 DEF NoWriters
<1> QED
  BY <1>1, <1>2, <1>3, <1>4, <1>5 DEF kept

LEMMA ScanStays ==
    ASSUME NEW s, ScanState(s), NEW c
    PROVE  ScanState(Scanned(s, c))
<1>1. Shown(c) \in Letters
  BY EditorAssumption DEF Shown
<1>2. [s.text EXCEPT ![s.pos] = Shown(c)] \in TextOf
  BY <1>1 DEF ScanState, TextOf
<1>. DEFINE cr == c = CR  w == ((s.pos + 1) % COLS = 0)  o == RowEnds(s) > AREA  e == RowEnds(s)  n == s.pos + 1
            t == [s.text EXCEPT ![s.pos] = Shown(c)]
<1>3. \/ Scanned(s, c) = s
      \/ Scanned(s, c) = [s EXCEPT !.prevcr = FALSE]
      \/ Scanned(s, c) = [s EXCEPT !.pos = e, !.prevcr = cr, !.wrapped = FALSE, !.overflow = o]
      \/ Scanned(s, c) = [s EXCEPT !.overflow = TRUE, !.prevcr = FALSE]
      \/ Scanned(s, c) = [s EXCEPT !.text = t, !.pos = n, !.prevcr = FALSE, !.wrapped = w]
  BY DEF Scanned, ScanState
<1>. HIDE DEF cr, w, o, e, n, t
<1> QED
  BY <1>2, <1>3 DEF ScanState, t

LEMMA ScanAllStays ==
    ASSUME NEW s, ScanState(s), NEW b, Len(b) \in Nat
    PROVE  ScanState(ScannedAll(s, b))
<1>1. PICK f : Scanning(s, b, Len(b), f) /\ ScannedAll(s, b) = f[Len(b)]
  BY ScannedAllRuns
<1>. DEFINE n == Len(b)  Bad == {i \in 0..n : ~ScanState(f[i])}
<1>. HIDE DEF n
<1>2. n \in Nat /\ Scanning(s, b, n, f) /\ ScannedAll(s, b) = f[n]
  BY <1>1 DEF n
<1>3. SUFFICES ASSUME Bad # {} PROVE FALSE
  BY <1>2
<1>4. PICK m \in Bad : \A i \in Bad : m <= i
  <2>1. Bad \in SUBSET Nat
    OBVIOUS
  <2>. HIDE DEF Bad
  <2> QED
    BY <1>3, <2>1, LeastNumber
<1>5. m \in 0..n /\ ~ScanState(f[m])
  BY <1>4
<1>6. f[m] = IF m = 0 THEN s ELSE Scanned(f[m - 1], b[m])
  BY <1>2, <1>5 DEF Scanning
<1>7. CASE m = 0
  BY <1>5, <1>6, <1>7
<1>8. CASE m # 0
  <2>1. m - 1 \in 0..n /\ ~(m <= m - 1)
    BY <1>2, <1>5, <1>8
  <2>2. ScanState(f[m - 1])
    BY <1>4, <2>1
  <2> QED
    BY <1>5, <1>6, <1>8, <2>2, ScanStays
<1> QED
  BY <1>7, <1>8

LEMMA EditorStarts == EditorInit => EditorInv
<1>. SUFFICES ASSUME EditorInit PROVE EditorInv
  OBVIOUS
<1>1. COLS \in Nat /\ 1 < COLS /\ ROWS \in Nat /\ 0 < ROWS /\ AREA \in Nat
  BY AreaIs
<1>2. Blank \in Letters
  BY EditorAssumption
<1>3. text \in TextOf /\ ScanState(scan)
  <2>1. Unread.text \in TextOf
    BY <1>2 DEF Unread, TextOf
  <2>2. ScanState(Unread)
    <3>1. Unread = [text |-> Unread.text, pos |-> Unread.pos, prevcr |-> Unread.prevcr, wrapped |-> Unread.wrapped,
                    overflow |-> Unread.overflow]
      BY DEF Unread
    <3> QED
      BY <2>1, <3>1 DEF ScanState
  <2> QED
    BY <2>1, <2>2 DEF EditorInit
<1>4. cursor \in (0..COLS - 1) \X (0..ROWS - 1)
  BY <1>1 DEF EditorInit
<1>5. Editing
  BY <1>3, <1>4 DEF Editing, EditorInit
<1>6. PICK p \in Places, held \in {{}} \cup {{New(d)} : d \in Texts} :
         files = [q \in Places |-> IF q = p THEN held ELSE {}]
  BY DEF EditorInit
<1>7. ASSUME NEW d \in Texts PROVE IsText(d)
  <2>1. Spelled(d)
    BY EditorAssumption
  <2>2. d \in Seq({d[i] : i \in DOMAIN d}) /\ \A i \in DOMAIN d : d[i] \in Seq({d[i][j] : j \in DOMAIN d[i]})
    BY <2>1 DEF Spelled
  <2>. DEFINE C == UNION {{d[i][j] : j \in DOMAIN d[i]} : i \in DOMAIN d}
  <2>3. ASSUME NEW i \in DOMAIN d PROVE d[i] \in Seq(C)
    <3>1. {d[i][j] : j \in DOMAIN d[i]} \subseteq C
      OBVIOUS
    <3>2. d[i] \in Seq({d[i][j] : j \in DOMAIN d[i]})
      BY <2>2
    <3>. DEFINE e == d[i]  B == {e[j] : j \in DOMAIN e}
    <3>3. e \in Seq(B) /\ B \subseteq C
      BY <3>1, <3>2
    <3>. HIDE DEF C, e, B
    <3>4. e \in Seq(C)
      BY <3>3
    <3> QED
      BY <3>4 DEF e
  <2>. HIDE DEF C
  <2>4. DOMAIN d = 1..Len(d) /\ Len(d) \in Nat /\ d = [i \in 1..Len(d) |-> d[i]]
    BY <2>2
  <2>5. d \in Seq(Seq(C))
    BY <2>3, <2>4
  <2> QED
    BY <2>5 DEF IsText
<1>8. DOMAIN files = Places /\ files = [q \in Places |-> files[q]]
  BY <1>6
<1>9. ASSUME NEW q \in Places, NEW x \in files[q] PROVE IsText(x.data)
  <2>1. x \in held
    BY <1>6
  <2>2. PICK d \in Texts : x = New(d)
    BY <1>6, <2>1
  <2> QED
    BY <1>7, <2>2 DEF New
<1>10. DOMAIN chan = Files /\ \A f \in Files : chan[f] = Idle
  BY DEF EditorInit, Powered
<1>11. Channel(Idle) /\ Idle.mode # "write"
  BY DEF Channel, Idle
<1>12. Wired
  BY <1>8, <1>9, <1>10, <1>11 DEF Wired, EditorInit, Powered
<1>13. EditorFiles
  BY <1>10, <1>11 DEF EditorFiles, EditorInit, NoWriters, CartAsBefore
<1>14. Storing
  BY DEF Storing, EditorInit
<1> QED
  BY <1>5, <1>12, <1>13, <1>14 DEF EditorInv

LEMMA ChannelsMade ==
    ASSUME NEW p, NEW d
    PROVE  /\ Reading(p, d) = [mode |-> "read", place |-> p, data |-> d, live |-> TRUE, bad |-> FALSE]
           /\ Writing(p, d) = [mode |-> "write", place |-> p, data |-> d, live |-> TRUE, bad |-> FALSE]
<1>1. PICK a : a = [Idle EXCEPT !.mode = "read"]
  OBVIOUS
<1>2. PICK b : b = [a EXCEPT !.place = p]
  OBVIOUS
<1>3. PICK c : c = [b EXCEPT !.data = d]
  OBVIOUS
<1>4. PICK e : e = [c EXCEPT !.live = TRUE]
  OBVIOUS
<1>5. Reading(p, d) = e
  BY <1>1, <1>2, <1>3, <1>4 DEF Reading
<1>6. a = [mode |-> "read", place |-> <<>>, data |-> <<>>, live |-> FALSE, bad |-> FALSE]
  BY <1>1 DEF Idle
<1>7. b = [mode |-> "read", place |-> p, data |-> <<>>, live |-> FALSE, bad |-> FALSE]
  BY <1>2, <1>6
<1>8. c = [mode |-> "read", place |-> p, data |-> d, live |-> FALSE, bad |-> FALSE]
  BY <1>3, <1>7
<1>9. e = [mode |-> "read", place |-> p, data |-> d, live |-> TRUE, bad |-> FALSE]
  BY <1>4, <1>8
<1>10. Writing(p, d) = [e EXCEPT !.mode = "write"]
  BY <1>5 DEF Writing
<1>11. Writing(p, d) = [mode |-> "write", place |-> p, data |-> d, live |-> TRUE, bad |-> FALSE]
  BY <1>9, <1>10
<1> QED
  BY <1>5, <1>9, <1>11

LEMMA EarlyAsks ==
    ASSUME Wired, NoWriters(chan), files = first, UNCHANGED first, NEW dev,
           Status(dev, files, chan) \/ NotReady(dev, chan)
    PROVE  Wired' /\ NoWriters(chan') /\ files' = first' /\ \A f \in Files : chan'[f].data = chan[f].data
<1>1. /\ files' = files /\ cmdslot' \in {0, 1} /\ DOMAIN chan' = Files /\ \A f \in Files : Channel(chan'[f])
      /\ NoWriters(chan') /\ \A f \in Files : chan'[f].data = chan[f].data
  BY QuietRequest DEF Wired
<1> QED
  BY <1>1 DEF Wired

LEMMA FindKeeps ==
    ASSUME EditorInv, Find
    PROVE  EditorInv'
<1>1. editor = "find" /\ Wired /\ NoWriters(chan) /\ files = first /\ sound = TRUE /\ saved = FALSE /\ Editing
  BY DEF Find, EditorInv, EditorFiles
<1>2. UNCHANGED <<paper, text, cursor, scan, batches, sound, first, saved>>
  BY DEF Find, editVars, textVars, Proceed, Quit
<1>3. Wired' /\ NoWriters(chan') /\ files' = first'
  <2>1. CASE UNCHANGED channelVars
    BY <1>1, <1>2, <2>1 DEF channelVars, commandVars, Wired
  <2>2. CASE Status(Dev(paper), files, chan) \/ NotReady(Dev(paper), chan)
    BY <1>1, <1>2, <2>2, EarlyAsks
  <2> QED
    BY <2>1, <2>2 DEF Find, Directory, DirectoryFails
<1>4. Editing' /\ editor' \in {"keys", "open", "over"}
  BY <1>1, <1>2 DEF Find, Editing, Proceed, Quit
<1> QED
  BY <1>1, <1>2, <1>3, <1>4 DEF EditorInv, EditorFiles, Storing, CartAsBefore

LEMMA OpenTextKeeps ==
    ASSUME EditorInv, OpenText
    PROVE  EditorInv'
<1>1. /\ editor = "open" /\ Wired /\ NoWriters(chan) /\ files = first /\ sound = TRUE /\ saved = FALSE /\ Editing
      /\ paper \in Places
  BY DEF OpenText, EditorInv, EditorFiles, Editing
<1>2. UNCHANGED <<paper, text, cursor, scan, batches, sound, first, saved>>
  BY DEF OpenText, editVars, textVars, Proceed, Quit
<1>3. CASE OpenRead(2, paper) /\ Proceed("load")
  <2>1. PICK d \in Contents(files, paper) : Status(Dev(paper), files, [chan EXCEPT ![2] = Reading(paper, d)])
    BY <1>3 DEF OpenRead
  <2>. DEFINE cs == [chan EXCEPT ![2] = Reading(paper, d)]
  <2>2. IsText(d)
    BY <1>1, <2>1 DEF Contents, Wired
  <2>3. cs[2].data = d /\ NoWriters(cs) /\ \A f \in Files : Channel(cs[f])
    <3>1. Channel(Reading(paper, d)) /\ Reading(paper, d).mode = "read" /\ Reading(paper, d).data = d
      BY ChannelsMade DEF Channel
    <3> QED
      BY <1>1, <3>1 DEF Wired, NoWriters, Files
  <2>. HIDE DEF cs
  <2>4. /\ files' = files /\ cmdslot' \in {0, 1} /\ DOMAIN chan' = Files /\ \A f \in Files : Channel(chan'[f])
        /\ NoWriters(chan') /\ \A f \in Files : chan'[f].data = cs[f].data
    <3>1. cmdslot \in {0, 1} /\ files = [p \in Places |-> files[p]] /\ Status(Dev(paper), files, cs)
      BY <1>1, <2>1 DEF Wired, cs
    <3> QED
      BY <2>3, <3>1, QuietRequest
  <2>5. Wired' /\ IsText(chan'[2].data)
    BY <1>1, <1>2, <2>2, <2>3, <2>4 DEF Wired, Files
  <2>6. Editing' /\ editor' = "load"
    BY <1>1, <1>2, <1>3 DEF Editing, Proceed
  <2> QED
    BY <1>1, <1>2, <2>4, <2>5, <2>6 DEF EditorInv, EditorFiles, Storing, CartAsBefore
<1>4. CASE OpenFails(Dev(paper), MayRead(paper), chan) /\ Quit
  <2>1. Wired' /\ NoWriters(chan') /\ files' = first'
    BY <1>1, <1>2, <1>4, EarlyAsks DEF OpenFails
  <2>2. Editing' /\ editor' = "over"
    BY <1>1, <1>2, <1>4 DEF Editing, Proceed, Quit
  <2> QED
    BY <1>1, <1>2, <2>1, <2>2 DEF EditorInv, EditorFiles, Storing, CartAsBefore
<1> QED
  BY <1>3, <1>4 DEF OpenText

LEMMA LoadTextKeeps ==
    ASSUME EditorInv, LoadText
    PROVE  EditorInv'
<1>1. /\ editor = "load" /\ Wired /\ NoWriters(chan) /\ files = first /\ sound = TRUE /\ saved = FALSE /\ Editing
      /\ paper \in Places /\ IsText(chan[2].data) /\ ScanState(scan) /\ text \in TextOf
  BY DEF LoadText, EditorInv, EditorFiles, Editing
<1>2. UNCHANGED <<files, cmdslot, paper, cursor, batches, sound, first, saved>>
  BY DEF LoadText, Proceed, Quit, commandVars
<1>3. ScanState(Unread)
  <2>1. Unread.text \in TextOf
    BY EditorAssumption DEF Unread, TextOf
  <2>2. Unread = [text |-> Unread.text, pos |-> Unread.pos, prevcr |-> Unread.prevcr, wrapped |-> Unread.wrapped,
                  overflow |-> Unread.overflow]
    BY DEF Unread
  <2> QED
    BY <2>1, <2>2 DEF ScanState
<1>4. Channel(Idle) /\ Idle.mode # "write"
  BY DEF Channel, Idle
<1>5. CASE chan' = [chan EXCEPT ![2] = Rest(2)] /\ CanRead(2) /\ scan' = ScannedAll(scan, Head(chan[2].data))
           /\ UNCHANGED <<editor, text>>
  <2>1. PICK C : chan[2].data \in Seq(Seq(C))
    BY <1>1 DEF IsText
  <2>2. chan[2].data # <<>> /\ Head(chan[2].data) \in Seq(C) /\ Tail(chan[2].data) \in Seq(Seq(C))
    BY <1>5, <2>1 DEF CanRead
  <2>3. ScanState(scan')
    BY <1>1, <1>5, <2>2, ScanAllStays
  <2>4. 2 \in Files /\ Channel(chan[2]) /\ chan[2].mode # "write"
    BY <1>1 DEF Wired, Files, NoWriters
  <2>5. Channel(Rest(2)) /\ Rest(2).mode # "write" /\ Rest(2).data = Tail(chan[2].data)
    <3>1. ASSUME NEW c, c = [mode |-> c.mode, place |-> c.place, data |-> c.data, live |-> c.live, bad |-> c.bad],
                 NEW d
          PROVE  [c EXCEPT !.data = d]
                   = [mode |-> c.mode, place |-> c.place, data |-> d, live |-> c.live, bad |-> c.bad]
      BY <3>1
    <3>2. Rest(2) = [mode |-> chan[2].mode, place |-> chan[2].place, data |-> Tail(chan[2].data),
                     live |-> chan[2].live, bad |-> chan[2].bad]
      BY <2>4, <3>1 DEF Channel, Rest
    <3>. DEFINE r == Rest(2)
    <3>3. r = [mode |-> chan[2].mode, place |-> chan[2].place, data |-> Tail(chan[2].data),
               live |-> chan[2].live, bad |-> chan[2].bad]
      BY <3>2
    <3>. HIDE DEF r
    <3>4. r.mode = chan[2].mode /\ r.place = chan[2].place /\ r.data = Tail(chan[2].data)
          /\ r.live = chan[2].live /\ r.bad = chan[2].bad
      BY <3>3
    <3>5. Channel(r)
      BY <3>3, <3>4 DEF Channel
    <3> QED
      BY <2>4, <3>4, <3>5 DEF r
  <2>6. Wired' /\ NoWriters(chan') /\ IsText(chan'[2].data)
    BY <1>1, <1>2, <1>5, <2>2, <2>4, <2>5 DEF Wired, NoWriters, IsText
  <2>7. Editing' /\ editor' = "load"
    BY <1>1, <1>2, <1>5, <2>3 DEF Editing
  <2> QED
    BY <1>1, <1>2, <2>6, <2>7 DEF EditorInv, EditorFiles, Storing, CartAsBefore
<1>6. CASE /\ chan' = [chan EXCEPT ![2] = Idle] /\ scan' = Unread /\ text' \in {text, scan.text}
           /\ editor' \in {"keys", "over"}
  <2>1. Wired' /\ NoWriters(chan')
    BY <1>1, <1>2, <1>4, <1>6 DEF Wired, NoWriters
  <2>2. Editing'
    BY <1>1, <1>2, <1>3, <1>6 DEF Editing, ScanState
  <2> QED
    BY <1>1, <1>2, <1>6, <2>1, <2>2 DEF EditorInv, EditorFiles, Storing, CartAsBefore
<1> QED
  BY <1>5, <1>6 DEF LoadText, Proceed, Quit

-----------------------------------------------------------------------------
LEMMA CursorIs ==
    ASSUME Editing
    PROVE  /\ Column \in 0..COLS - 1 /\ Line \in 0..ROWS - 1 /\ Column \in Nat /\ Line \in Nat
           /\ Here = Line * COLS + Column /\ Here \in 0..AREA - 1 /\ Line * COLS \in Nat /\ Here \in Nat
           /\ LastOf(Line) = Line * COLS + COLS - 1 /\ LastOf(Line) \in 0..AREA - 1 /\ Here <= LastOf(Line)
           /\ cursor = <<Column, Line>> /\ COLS \in Nat /\ 1 < COLS /\ ROWS \in Nat /\ AREA \in Nat
<1>1. COLS \in Nat /\ 1 < COLS /\ ROWS \in Nat /\ AREA \in Nat
  BY AreaIs
<1>2. Column \in 0..COLS - 1 /\ Line \in 0..ROWS - 1 /\ cursor = <<Column, Line>>
  BY <1>1 DEF Editing, Column, Line
<1>3. Line * COLS + COLS <= AREA /\ Line * COLS \in Nat
  BY <1>2, AreaIs
<1> QED
  BY <1>1, <1>2, <1>3 DEF Here, LastOf

LEMMA KeysKeepType ==
    ASSUME Editing, MoveCursor \/ InsertRow \/ DeleteLetter \/ InsertLetter \/ TypeLetter
    PROVE  text' \in TextOf /\ cursor' \in (0..COLS - 1) \X (0..ROWS - 1)
<1>1. /\ Column \in 0..COLS - 1 /\ Line \in 0..ROWS - 1 /\ Column \in Nat /\ Line \in Nat
      /\ Here = Line * COLS + Column /\ Here \in 0..AREA - 1 /\ Line * COLS \in Nat /\ Here \in Nat
      /\ LastOf(Line) = Line * COLS + COLS - 1 /\ LastOf(Line) \in 0..AREA - 1 /\ Here <= LastOf(Line)
      /\ cursor = <<Column, Line>> /\ COLS \in Nat /\ 1 < COLS /\ ROWS \in Nat /\ AREA \in Nat
  BY CursorIs
<1>2. text \in TextOf /\ \A i \in 0..AREA - 1 : text[i] \in Letters
  BY DEF Editing, TextOf
<1>3. Blank \in Letters
  BY EditorAssumption
<1>. DEFINE Places2 == (0..COLS - 1) \X (0..ROWS - 1)
<1>4. Onward \in Places2
  BY <1>1 DEF Onward, Below
<1>5. CASE MoveCursor
  BY <1>1, <1>2, <1>4, <1>5 DEF MoveCursor, Back, Below
<1>6. CASE InsertRow
  <2>1. ASSUME NEW i \in 0..AREA - 1
        PROVE  (IF RowOf(i) < Line THEN text[i] ELSE IF RowOf(i) = Line THEN Blank ELSE text[i - COLS]) \in Letters
    <3>1. PICK r \in 0..ROWS - 1, k \in 0..COLS - 1 : i = r * COLS + k /\ RowOf(i) = r
      BY PlaceHas
    <3>2. CASE r <= Line
      BY <1>1, <1>2, <1>3, <3>1, <3>2
    <3>3. CASE Line < r
      <4>1. Line * COLS + COLS <= r * COLS /\ r * COLS \in Nat
        BY <1>1, <3>3, RowsOrdered
      <4>2. i - COLS \in 0..AREA - 1
        BY <1>1, <3>1, <4>1
      <4> QED
        BY <1>1, <1>2, <3>1, <3>3, <4>2
    <3> QED
      BY <1>1, <3>2, <3>3
  <2>2. text' \in TextOf
    BY <1>6, <2>1 DEF InsertRow, TextOf
  <2>3. cursor' = <<0, Line>>
    BY <1>6 DEF InsertRow
  <2> QED
    BY <1>1, <2>2, <2>3
<1>7. CASE DeleteLetter
  <2>1. ASSUME NEW i \in 0..AREA - 1
        PROVE  (IF i \notin Here - 1..LastOf(Line) THEN text[i]
                ELSE IF i = LastOf(Line) THEN Blank ELSE text[i + 1]) \in Letters
    <3>1. CASE i \notin Here - 1..LastOf(Line) \/ i = LastOf(Line)
      BY <1>2, <1>3, <3>1
    <3>2. CASE i \in Here - 1..LastOf(Line) /\ i # LastOf(Line)
      <4>1. i + 1 \in 0..AREA - 1
        BY <1>1, <3>2
      <4> QED
        BY <1>2, <3>2, <4>1
    <3> QED
      BY <3>1, <3>2
  <2>2. text' \in TextOf
    BY <1>7, <2>1 DEF DeleteLetter, TextOf
  <2>3. cursor' = <<Column - 1, Line>> /\ Column > 0
    BY <1>7 DEF DeleteLetter
  <2> QED
    BY <1>1, <2>2, <2>3
<1>8. CASE InsertLetter
  <2>1. ASSUME NEW i \in 0..AREA - 1
        PROVE  (IF i \notin Here..LastOf(Line) THEN text[i] ELSE IF i = Here THEN Blank ELSE text[i - 1]) \in Letters
    <3>1. CASE i \notin Here..LastOf(Line) \/ i = Here
      BY <1>2, <1>3, <3>1
    <3>2. CASE i \in Here..LastOf(Line) /\ i # Here
      <4>1. i - 1 \in 0..AREA - 1
        BY <1>1, <3>2
      <4> QED
        BY <1>2, <3>2, <4>1
    <3> QED
      BY <3>1, <3>2
  <2>2. text' \in TextOf
    BY <1>8, <2>1 DEF InsertLetter, TextOf
  <2> QED
    BY <1>8, <2>2 DEF InsertLetter, Editing
<1>9. CASE TypeLetter
  BY <1>2, <1>4, <1>9 DEF TypeLetter, TextOf
<1> QED
  BY <1>5, <1>6, <1>7, <1>8, <1>9

LEMMA PressKeyKeeps ==
    ASSUME EditorInv, PressKey
    PROVE  EditorInv'
<1>1. /\ editor = "keys" /\ Wired /\ NoWriters(chan) /\ files = first /\ sound = TRUE /\ saved = FALSE /\ Editing
  BY DEF PressKey, EditorInv, EditorFiles
<1>2. UNCHANGED <<files, chan, cmdslot, editor, saved, paper, scan, batches, sound, first>>
  BY DEF PressKey, channelVars, commandVars
<1>3. text' \in TextOf /\ cursor' \in (0..COLS - 1) \X (0..ROWS - 1)
  BY <1>1, KeysKeepType DEF PressKey
<1>4. Editing'
  BY <1>1, <1>2, <1>3 DEF Editing
<1>5. Wired'
  BY <1>1, <1>2 DEF Wired
<1> QED
  BY <1>1, <1>2, <1>4, <1>5 DEF EditorInv, EditorFiles, Storing, CartAsBefore

LEMMA LeaveTextKeeps ==
    ASSUME EditorInv, LeaveText
    PROVE  EditorInv'
<1>1. /\ editor = "keys" /\ Wired /\ NoWriters(chan) /\ files = first /\ sound = TRUE /\ saved = FALSE /\ Editing
  BY DEF LeaveText, EditorInv, EditorFiles
<1>2. UNCHANGED <<files, chan, cmdslot, saved, text, cursor, scan, batches, sound, first>>
  BY DEF LeaveText, channelVars, commandVars, textVars, Proceed, Quit
<1>3. \/ editor' = "over" /\ paper' = paper
      \/ editor' = "prepare" /\ paper' \in IF paper = <<>> THEN Places ELSE {paper}
  BY DEF LeaveText, Proceed, Quit
<1>4. Editing'
  BY <1>1, <1>2, <1>3 DEF Editing
<1>5. Wired'
  BY <1>1, <1>2 DEF Wired
<1> QED
  BY <1>1, <1>2, <1>3, <1>4, <1>5 DEF EditorInv, EditorFiles, Storing, CartAsBefore

LEMMA PrepareTextKeeps ==
    ASSUME EditorInv, PrepareText
    PROVE  EditorInv'
<1>1. /\ editor = "prepare" /\ Wired /\ NoWriters(chan) /\ files = first /\ sound = TRUE /\ saved = FALSE /\ Editing
  BY DEF PrepareText, EditorInv, EditorFiles
<1>2. UNCHANGED <<paper, text, cursor, scan, batches, sound, first, saved>>
  BY DEF PrepareText, editVars, textVars, Proceed, Quit
<1>3. Wired' /\ NoWriters(chan') /\ files' = first'
  BY <1>1, <1>2, EarlyAsks DEF PrepareText, Directory, DirectoryFails
<1>4. Editing' /\ editor' \in {"scratch", "create", "over"} /\ (editor' = "scratch" => Dev(paper) # Cart)
  BY <1>1, <1>2 DEF PrepareText, Editing, Proceed, Quit
<1> QED
  BY <1>1, <1>2, <1>3, <1>4 DEF EditorInv, EditorFiles, Storing, CartAsBefore

LEMMA ScratchTextKeeps ==
    ASSUME EditorInv, ScratchText
    PROVE  EditorInv'
<1>1. /\ editor = "scratch" /\ Wired /\ NoWriters(chan) /\ files = first /\ sound = TRUE /\ saved = FALSE /\ Editing
      /\ Dev(paper) # Cart
  BY DEF ScratchText, EditorInv, EditorFiles
<1>2. UNCHANGED <<paper, text, cursor, scan, batches, sound, first, saved>>
  BY DEF ScratchText, editVars, textVars, Proceed, Quit
<1>3. CASE CommandDone(Dev(paper), Without(files, {paper})) /\ Proceed("create")
  <2>. DEFINE fs == Without(files, {paper})
  <2>1. fs = [p \in Places |-> fs[p]] /\ DOMAIN fs = Places
    BY DEF Without
  <2>2. \A p \in Places : Dev(p) = Cart => fs[p] = files[p]
    <3>1. ASSUME NEW p \in Places, Dev(p) = Cart PROVE fs[p] = files[p]
      <4>1. p # paper
        BY <1>1, <3>1
      <4>2. fs[p] = {x \in files[p] : p \in {paper} => x.locked}
        BY DEF Without
      <4> QED
        BY <4>1, <4>2
    <3> QED
      BY <3>1
  <2>. HIDE DEF fs
  <2>3. /\ files' = fs /\ cmdslot' \in {0, 1} /\ DOMAIN chan' = Files /\ (\A f \in Files : Channel(chan'[f]))
        /\ NoWriters(chan')
    <3>1. Status(Dev(paper), fs, chan)
      BY <1>3 DEF CommandDone, fs
    <3>2. cmdslot \in {0, 1} /\ \A f \in Files : Channel(chan[f])
      BY <1>1 DEF Wired
    <3> QED
      BY <1>1, <2>1, <3>1, <3>2, QuietRequest
  <2>4. Wired'
    BY <1>1, <1>2, <2>1, <2>3 DEF Wired
  <2>5. CartAsBefore'
    BY <1>1, <1>2, <2>2, <2>3 DEF CartAsBefore
  <2>6. Editing' /\ editor' = "create"
    BY <1>1, <1>2, <1>3 DEF Editing, Proceed
  <2> QED
    BY <1>1, <1>2, <2>3, <2>4, <2>5, <2>6 DEF EditorInv, EditorFiles, Storing
<1>4. CASE CommandFails(Dev(paper), TRUE) /\ Quit
  <2>1. Wired' /\ NoWriters(chan') /\ files' = first'
    BY <1>1, <1>2, <1>4, EarlyAsks DEF CommandFails, CommandDone
  <2>2. Editing' /\ editor' = "over"
    BY <1>1, <1>2, <1>4 DEF Editing, Proceed, Quit
  <2> QED
    BY <1>1, <1>2, <2>1, <2>2 DEF EditorInv, EditorFiles, Storing, CartAsBefore
<1> QED
  BY <1>3, <1>4 DEF ScratchText

(* A request to the device of the file that is being written: its channel  *)
(* stays, and so does the file.                                            *)
LEMMA OwnRequest ==
    ASSUME cmdslot \in {0, 1}, NEW p \in Places, NEW fs, fs = [q \in Places |-> fs[q]],
           NEW cs, \A f \in Files : Channel(cs[f]),
           \A f \in Files : cs[f].mode = "write" => cs[f].place = p,
           Status(Dev(p), fs, cs)
    PROVE  /\ files' = fs /\ cmdslot' \in {0, 1} /\ DOMAIN chan' = Files /\ \A f \in Files : Channel(chan'[f])
           /\ \A f \in Files : /\ chan'[f].mode = cs[f].mode /\ chan'[f].place = cs[f].place
                               /\ chan'[f].data = cs[f].data /\ chan'[f].bad = cs[f].bad
                               /\ cs[f].place = p /\ cs[f].live = TRUE => chan'[f].live = TRUE
<1>1. cmdslot' \in {0, 1}
  BY DEF Status, UseStatus, NextSlot
<1>2. files' = Beheaded(fs, cs, Evicted(Dev(p))) /\ chan' = Cut(cs, Evicted(Dev(p)))
  BY DEF Status
<1>3. Evicted(Dev(p)) = 0 \/ Evicted(Dev(p)) # Dev(p)
  BY DEF Evicted, Resident
<1>4. ASSUME NEW f \in Files, cs[f].place = p PROVE ~On(cs[f], Evicted(Dev(p)))
  BY <1>3, <1>4 DEF On
<1>5. Beheaded(fs, cs, Evicted(Dev(p))) = fs
  BY <1>4 DEF Beheaded
<1>6. /\ DOMAIN Cut(cs, Evicted(Dev(p))) = Files /\ \A f \in Files : Channel(Cut(cs, Evicted(Dev(p)))[f])
      /\ \A f \in Files :
           LET c == Cut(cs, Evicted(Dev(p)))[f] IN
           /\ c.mode = cs[f].mode /\ c.place = cs[f].place
           /\ c.data = cs[f].data /\ c.bad = cs[f].bad
           /\ ~On(cs[f], Evicted(Dev(p))) /\ cs[f].live = TRUE => c.live = TRUE
  BY CutIs
<1>7. ASSUME NEW f \in Files
      PROVE  /\ chan'[f].mode = cs[f].mode /\ chan'[f].place = cs[f].place
             /\ chan'[f].data = cs[f].data /\ chan'[f].bad = cs[f].bad
             /\ cs[f].place = p /\ cs[f].live = TRUE => chan'[f].live = TRUE
  BY <1>2, <1>4, <1>6
<1>8. DOMAIN chan' = Files /\ \A f \in Files : Channel(chan'[f])
  BY <1>2, <1>6
<1> QED
  BY <1>1, <1>2, <1>5, <1>7, <1>8

LEMMA CreateTextKeeps ==
    ASSUME EditorInv, CreateText
    PROVE  EditorInv'
<1>1. /\ editor = "create" /\ Wired /\ NoWriters(chan) /\ sound = TRUE /\ saved = FALSE /\ Editing
      /\ paper \in Places /\ CartAsBefore
  BY DEF CreateText, EditorInv, EditorFiles, Editing
<1>2. UNCHANGED <<paper, text, cursor, scan, sound, first, saved>>
  BY DEF CreateText, textVars, Proceed, Quit
<1>3. CASE OpenWrite(3, paper, FALSE) /\ batches' = Batches(text) /\ Proceed("write")
  <2>. DEFINE file == [New(<<>>) EXCEPT !.closed = FALSE, !.locked = Locked(paper)]
              fs == IF Dev(paper) = Cart THEN files ELSE [files EXCEPT ![paper] = {file}]
              cs == [chan EXCEPT ![3] = Writing(paper, <<>>)]
  <2>1. Status(Dev(paper), fs, cs)
    BY <1>3 DEF OpenWrite
  <2>2. /\ fs = [q \in Places |-> fs[q]] /\ DOMAIN fs = Places
        /\ \A q \in Places : q # paper \/ Dev(paper) = Cart => fs[q] = files[q]
        /\ Dev(paper) # Cart => fs[paper] = {file}
    <3>1. files = [q \in Places |-> files[q]] /\ DOMAIN files = Places
      BY <1>1 DEF Wired
    <3>. HIDE DEF file
    <3> QED
      BY <1>1, <3>1
  <2>3. PICK locked : locked = Locked(paper)
    OBVIOUS
  <2>4. file = [data |-> <<>>, closed |-> FALSE, locked |-> locked]
    <3>1. PICK a : a = New(<<>>)
      OBVIOUS
    <3>2. a = [data |-> <<>>, closed |-> TRUE, locked |-> FALSE]
      BY <3>1 DEF New
    <3>3. PICK b : b = [a EXCEPT !.closed = FALSE]
      OBVIOUS
    <3>4. b = [data |-> <<>>, closed |-> FALSE, locked |-> FALSE]
      BY <3>2, <3>3
    <3>5. file = [b EXCEPT !.locked = locked]
      BY <2>3, <3>1, <3>3
    <3>. HIDE DEF file
    <3> QED
      BY <3>4, <3>5
  <2>5. /\ 3 \in Files /\ \A f \in Files : Channel(cs[f])
        /\ \A f \in Files : cs[f].mode = "write" => cs[f].place = paper
        /\ cs[3].place = paper /\ cs[3].data = <<>> /\ cs[3].live = TRUE /\ cs[3].bad = FALSE
        /\ \A f \in Files : f # 3 => cs[f].mode # "write"
    <3>. DEFINE w == Writing(paper, <<>>)
    <3>1. w = [mode |-> "write", place |-> paper, data |-> <<>>, live |-> TRUE, bad |-> FALSE]
      BY ChannelsMade
    <3>2. DOMAIN chan = Files /\ 3 \in Files /\ \A f \in Files : Channel(chan[f]) /\ chan[f].mode # "write"
      BY <1>1 DEF Wired, NoWriters, Files
    <3>. HIDE DEF w
    <3>3. Channel(w) /\ w.mode = "write" /\ w.place = paper /\ w.data = <<>> /\ w.live = TRUE /\ w.bad = FALSE
      BY <3>1 DEF Channel
    <3>4. cs[3] = w /\ \A f \in Files : f # 3 => cs[f] = chan[f]
      BY <3>2 DEF w
    <3>. HIDE DEF cs
    <3> QED
      BY <3>2, <3>3, <3>4
  <2>. HIDE DEF fs, cs, file
  <2>6. /\ files' = fs /\ cmdslot' \in {0, 1} /\ DOMAIN chan' = Files /\ \A f \in Files : Channel(chan'[f])
        /\ \A f \in Files : /\ chan'[f].mode = cs[f].mode /\ chan'[f].place = cs[f].place
                            /\ chan'[f].data = cs[f].data /\ chan'[f].bad = cs[f].bad
                            /\ cs[f].place = paper /\ cs[f].live = TRUE => chan'[f].live = TRUE
    <3>1. cmdslot \in {0, 1}
      BY <1>1 DEF Wired
    <3> QED
      BY <1>1, <2>1, <2>2, <2>5, <3>1, OwnRequest
  <2>7. Wired' /\ CartAsBefore'
    BY <1>1, <1>2, <2>2, <2>6 DEF Wired, CartAsBefore
  <2>8. Editing' /\ editor' = "write"
    BY <1>1, <1>2, <1>3 DEF Editing, Proceed
  <2>9. NoWriters([chan EXCEPT ![3] = Idle])'
    <3>1. Idle.mode # "write"
      BY DEF Idle
    <3> QED
      BY <2>5, <2>6, <3>1 DEF NoWriters
  <2>10. Batches(text) \in Seq(Seq(Bytes)) /\ <<>> \in Seq(Seq(Bytes))
    BY <1>1, SavingReturns DEF Editing
  <2>11. <<>> \o Batches(text) = Batches(text)
    BY <2>10
  <2>12. Dev(paper) # Cart => OnDisk(<<>>)'
    <3>1. files'[paper'] = {file} \/ Dev(paper) = Cart
      BY <1>2, <2>2, <2>6
    <3>2. /\ file.data = <<>> /\ file = [data |-> file.data, closed |-> file.closed, locked |-> file.locked]
      BY <2>4
    <3> QED
      BY <3>1, <3>2 DEF OnDisk
  <2>13. Storing'
    <3>1. /\ chan'[3].place = paper' /\ chan'[3].live = TRUE /\ chan'[3].bad = FALSE /\ chan'[3].data = <<>>
      BY <1>2, <2>5, <2>6
    <3>2. batches' \in Seq(Seq(Bytes)) /\ chan'[3].data \o batches' = Batches(text')
      BY <1>2, <1>3, <2>10, <2>11, <3>1
    <3>3. Dev(paper') # Cart => OnDisk(chan[3].data)'
      BY <1>2, <2>12, <3>1 DEF OnDisk
    <3> QED
      BY <1>1, <1>2, <2>8, <2>9, <2>10, <3>1, <3>2, <3>3 DEF Storing
  <2> QED
    BY <1>1, <1>2, <2>7, <2>8, <2>13 DEF EditorInv, EditorFiles
<1>4. CASE OpenWriteFails(paper, FALSE, chan) /\ Quit
  <2>1. /\ files' = [p \in Places |-> files'[p]] /\ DOMAIN files' = Places /\ CartAsBefore'
        /\ cmdslot' \in {0, 1} /\ DOMAIN chan' = Files /\ \A f \in Files : Channel(chan'[f])
    <3>1. /\ cmdslot \in {0, 1} /\ files = [p \in Places |-> files[p]] /\ \A f \in Files : Channel(chan[f])
          /\ DOMAIN files = Places
      BY <1>1 DEF Wired
    <3>2. CASE OpenFails(Dev(paper), MayWrite(paper, FALSE), chan)
      <4>1. files' = files /\ cmdslot' \in {0, 1} /\ DOMAIN chan' = Files /\ \A f \in Files : Channel(chan'[f])
        BY <1>1, <3>1, <3>2, QuietRequest DEF OpenFails
      <4> QED
        BY <1>1, <1>2, <3>1, <4>1 DEF CartAsBefore
    <3>3. CASE /\ Dev(paper) # Cart
               /\ \E x :
                    /\ \E found \in BOOLEAN : UseStatus(Dev(paper), found)
                    /\ files' = Beheaded([files EXCEPT ![paper] = {x}], chan, Evicted(Dev(paper)))
                    /\ chan' = Cut(chan, Evicted(Dev(paper)))
      <4>1. PICK x : /\ \E found \in BOOLEAN : UseStatus(Dev(paper), found)
                     /\ files' = Beheaded([files EXCEPT ![paper] = {x}], chan, Evicted(Dev(paper)))
                     /\ chan' = Cut(chan, Evicted(Dev(paper)))
        BY <3>3
      <4>. DEFINE fs == [files EXCEPT ![paper] = {x}]
      <4>2. /\ fs = [p \in Places |-> fs[p]] /\ DOMAIN fs = Places
            /\ \A p \in Places : Dev(p) = Cart => fs[p] = files[p]
        BY <1>1, <3>1, <3>3
      <4>3. files' = Beheaded(fs, chan, Evicted(Dev(paper)))
        BY <4>1
      <4>. HIDE DEF fs
      <4>4. files' = fs /\ cmdslot' \in {0, 1} /\ DOMAIN chan' = Files /\ \A f \in Files : Channel(chan'[f])
        BY <1>1, <3>1, <4>1, <4>2, <4>3, QuietRequest
      <4> QED
        BY <1>1, <1>2, <4>2, <4>4 DEF CartAsBefore
    <3> QED
      BY <1>4, <3>2, <3>3 DEF OpenWriteFails
  <2>2. Wired'
    BY <1>1, <1>2, <2>1 DEF Wired
  <2>3. Editing' /\ editor' = "over"
    BY <1>1, <1>2, <1>4 DEF Editing, Proceed, Quit
  <2> QED
    BY <1>1, <1>2, <2>1, <2>2, <2>3 DEF EditorInv, EditorFiles, Storing
<1> QED
  BY <1>3, <1>4 DEF CreateText

LEMMA HeadMoves ==
    ASSUME NEW S, NEW a \in Seq(S), NEW b \in Seq(S), b # <<>>
    PROVE  /\ Append(a, Head(b)) \in Seq(S) /\ Tail(b) \in Seq(S)
           /\ Append(a, Head(b)) \o Tail(b) = a \o b
<1>1. Append(a, Head(b)) \in Seq(S) /\ Tail(b) \in Seq(S) /\ a \o b \in Seq(S)
  OBVIOUS
<1>. DEFINE m == Len(a)  n == Len(b)
            u == Append(a, Head(b)) \o Tail(b)  v == a \o b
<1>2. m \in Nat /\ n \in Nat /\ 0 < n
  OBVIOUS
<1>3. u \in Seq(S) /\ v \in Seq(S)
  BY <1>1
<1>4. Len(u) = m + n /\ Len(v) = m + n
  BY <1>1, <1>2
<1>5. ASSUME NEW i \in 1..m + n PROVE u[i] = v[i]
  <2>1. CASE i <= m
    BY <1>1, <1>2, <2>1
  <2>2. CASE i = m + 1
    BY <1>1, <1>2, <2>2
  <2>3. CASE m + 1 < i
    BY <1>1, <1>2, <2>3
  <2> QED
    BY <1>2, <2>1, <2>2, <2>3
<1>. HIDE DEF u, v, m, n
<1>6. u = v
  BY <1>3, <1>4, <1>5
<1> QED
  BY <1>1, <1>6 DEF u, v

LEMMA DataChanged ==
    ASSUME NEW c, Channel(c), NEW d, NEW x, x = [c EXCEPT !.data = d]
    PROVE  Channel(x) /\ x.data = d /\ x.mode = c.mode /\ x.place = c.place /\ x.live = c.live /\ x.bad = c.bad
<1>1. x = [mode |-> c.mode, place |-> c.place, data |-> d, live |-> c.live, bad |-> c.bad]
  BY DEF Channel
<1> QED
  BY <1>1 DEF Channel

LEMMA TurnedBad ==
    ASSUME NEW c, Channel(c), NEW x, x = [c EXCEPT !.bad = TRUE]
    PROVE  Channel(x) /\ x.bad = TRUE /\ x.mode = c.mode /\ x.place = c.place /\ x.live = c.live /\ x.data = c.data
<1>1. x = [mode |-> c.mode, place |-> c.place, data |-> c.data, live |-> c.live, bad |-> TRUE]
  BY DEF Channel
<1> QED
  BY <1>1 DEF Channel

LEMMA FileShut ==
    ASSUME NEW x, x = [data |-> x.data, closed |-> x.closed, locked |-> x.locked],
           NEW z, z = [x EXCEPT !.closed = TRUE]
    PROVE  z.data = x.data /\ z.closed = TRUE
<1>1. z = [data |-> x.data, closed |-> TRUE, locked |-> x.locked]
  OBVIOUS
<1> QED
  BY <1>1

LEMMA WriteTextKeeps ==
    ASSUME EditorInv, WriteText
    PROVE  EditorInv'
<1>1. /\ editor = "write" /\ Wired /\ saved = FALSE /\ Editing /\ paper \in Places /\ CartAsBefore /\ Storing
  BY DEF WriteText, EditorInv, EditorFiles, Editing
<1>2. UNCHANGED <<cmdslot, paper, text, cursor, scan, first, saved>>
  BY DEF WriteText, textVars, Proceed, commandVars
<1>3. /\ chan[3].place = paper /\ chan[3].live = TRUE /\ NoWriters([chan EXCEPT ![3] = Idle])
      /\ (sound = TRUE \/ chan[3].bad = TRUE) /\ sound \in BOOLEAN /\ chan[3].bad \in BOOLEAN
      /\ batches \in Seq(Seq(Bytes))
      /\ chan[3].bad = FALSE =>
           /\ chan[3].data \in Seq(Seq(Bytes)) /\ chan[3].data \o batches = Batches(text)
           /\ Dev(paper) # Cart => OnDisk(chan[3].data)
  BY <1>1 DEF Storing
<1>4. 3 \in Files /\ DOMAIN chan = Files /\ Channel(chan[3])
  BY <1>1 DEF Wired, Files
<1>5. CASE batches = <<>> /\ Proceed("close") /\ UNCHANGED <<files, chan, batches, sound>>
  <2>1. Editing' /\ Wired' /\ CartAsBefore' /\ editor' = "close"
    BY <1>1, <1>2, <1>5 DEF Editing, Wired, CartAsBefore, Proceed
  <2>2. Storing'
    BY <1>2, <1>3, <1>5, <2>1 DEF Storing, NoWriters, OnDisk
  <2> QED
    BY <1>1, <1>2, <2>1, <2>2 DEF EditorInv, EditorFiles
<1>6. CASE /\ batches # <<>> /\ batches' = Tail(batches) /\ UNCHANGED <<editor, sound>> /\ CanWrite(3)
           /\ files' = Stored(3, Head(batches)) /\ chan' = [chan EXCEPT ![3] = Grown(3, Head(batches))]
  <2>. DEFINE next == Head(batches)  d == Append(chan[3].data, next)  c == Grown(3, next)
  <2>1. chan[3].bad = FALSE
    BY <1>3, <1>6 DEF CanWrite
  <2>2. d \in Seq(Seq(Bytes)) /\ Tail(batches) \in Seq(Seq(Bytes)) /\ d \o Tail(batches) = Batches(text)
    <3>. DEFINE S == Seq(Bytes)  a == chan[3].data
    <3>1. a \in Seq(S) /\ batches \in Seq(S) /\ batches # <<>> /\ a \o batches = Batches(text)
      BY <1>3, <1>6, <2>1
    <3>. HIDE DEF S, a
    <3>2. /\ Append(a, Head(batches)) \in Seq(S) /\ Tail(batches) \in Seq(S)
          /\ Append(a, Head(batches)) \o Tail(batches) = a \o batches
      BY <3>1, HeadMoves
    <3> QED
      BY <3>1, <3>2 DEF S, a
  <2>3. Channel(c) /\ c.data = d /\ c.mode = chan[3].mode /\ c.place = paper /\ c.live = TRUE /\ c.bad = FALSE
    <3>1. c = [chan[3] EXCEPT !.data = d]
      BY DEF Grown
    <3>. HIDE DEF c, d
    <3>2. Channel(c) /\ c.data = d /\ c.mode = chan[3].mode /\ c.place = chan[3].place /\ c.live = chan[3].live
          /\ c.bad = chan[3].bad
      BY <1>4, <3>1, DataChanged
    <3> QED
      BY <1>3, <2>1, <3>2
  <2>4. chan'[3] = c /\ (\A f \in Files : f # 3 => chan'[f] = chan[f]) /\ DOMAIN chan' = Files
    BY <1>4, <1>6
  <2>5. Stored(3, next) = IF Dev(paper) = Cart THEN files
                       ELSE [files EXCEPT ![paper] = {[x EXCEPT !.data = Append(@, next)] : x \in @}]
    BY <1>3 DEF Stored
  <2>. HIDE DEF next, c
  <2>6. /\ files' = [q \in Places |-> files'[q]] /\ DOMAIN files' = Places
        /\ \A q \in Places : Dev(q) = Cart => files'[q] = files[q]
        /\ Dev(paper) # Cart => files'[paper] = {[x EXCEPT !.data = Append(@, next)] : x \in files[paper]}
    <3>1. files = [q \in Places |-> files[q]] /\ DOMAIN files = Places
      BY <1>1 DEF Wired
    <3>2. files' = Stored(3, next)
      BY <1>6 DEF next
    <3>. DEFINE more == {[x EXCEPT !.data = Append(@, next)] : x \in files[paper]}
    <3>3. files' = IF Dev(paper) = Cart THEN files ELSE [files EXCEPT ![paper] = more]
      BY <2>5, <3>2
    <3>. HIDE DEF more
    <3>4. /\ files' = [q \in Places |-> files'[q]] /\ DOMAIN files' = Places
          /\ \A q \in Places : Dev(q) = Cart => files'[q] = files[q]
          /\ Dev(paper) # Cart => files'[paper] = more
      BY <1>1, <3>1, <3>3
    <3> QED
      BY <3>4 DEF more
  <2>7. Dev(paper') # Cart => OnDisk(chan[3].data)'
    <3>. SUFFICES ASSUME Dev(paper) # Cart PROVE OnDisk(chan[3].data)'
      BY <1>2
    <3>1. PICK x : /\ files[paper] = {x} /\ x.data = chan[3].data
                   /\ x = [data |-> x.data, closed |-> x.closed, locked |-> x.locked]
      BY <1>3, <2>1 DEF OnDisk
    <3>. DEFINE y == [x EXCEPT !.data = Append(@, next)]
    <3>2. files'[paper] = {y}
      BY <2>6, <3>1
    <3>3. y = [data |-> Append(x.data, next), closed |-> x.closed, locked |-> x.locked]
      BY <3>1
    <3>. HIDE DEF y
    <3>4. y.data = d /\ y = [data |-> y.data, closed |-> y.closed, locked |-> y.locked]
      BY <3>1, <3>3
    <3> QED
      BY <1>2, <2>3, <2>4, <3>2, <3>4 DEF OnDisk
  <2>8. Editing' /\ Wired' /\ CartAsBefore' /\ editor' = "write"
    BY <1>1, <1>2, <1>6, <2>3, <2>4, <2>6 DEF Editing, Wired, CartAsBefore
  <2>9. NoWriters([chan EXCEPT ![3] = Idle])'
    BY <1>3, <1>4, <2>4 DEF NoWriters
  <2>10. Storing'
    <3>1. chan'[3].data = d /\ chan'[3].place = paper' /\ chan'[3].live = TRUE /\ chan'[3].bad = FALSE
      BY <1>2, <2>3, <2>4
    <3>. HIDE DEF d
    <3>2. chan'[3].data \in Seq(Seq(Bytes)) /\ chan'[3].data \o batches' = Batches(text')
      BY <1>2, <1>6, <2>2, <3>1
    <3>3. batches' \in Seq(Seq(Bytes))
      BY <1>6, <2>2
    <3>4. (sound = TRUE)' \/ chan'[3].bad = TRUE
      BY <1>3, <1>6, <2>1
    <3>5. sound' \in BOOLEAN
      BY <1>3, <1>6
    <3> QED
      BY <2>7, <2>8, <2>9, <3>1, <3>2, <3>3, <3>4, <3>5 DEF Storing
  <2> QED
    BY <1>1, <1>2, <2>8, <2>10 DEF EditorInv, EditorFiles
<1>7. CASE /\ chan' = [chan EXCEPT ![3] = Lost(3)] /\ UNCHANGED files
           /\ sound' \in {sound, FALSE} /\ editor' \in {"write", "close"} /\ batches' \in Seq(Seq(Bytes))
           /\ editor' = "close" => batches' = <<>>
  <2>. DEFINE c == Lost(3)
  <2>1. Channel(c) /\ c.bad = TRUE /\ c.place = paper /\ c.live = TRUE
    <3>1. c = [chan[3] EXCEPT !.bad = TRUE]
      BY DEF Lost
    <3>. HIDE DEF c
    <3>2. Channel(c) /\ c.bad = TRUE /\ c.place = chan[3].place /\ c.live = chan[3].live
      BY <1>4, <3>1, TurnedBad
    <3> QED
      BY <1>3, <3>2
  <2>2. chan'[3] = c /\ (\A f \in Files : f # 3 => chan'[f] = chan[f]) /\ DOMAIN chan' = Files
    BY <1>4, <1>7
  <2>. HIDE DEF c
  <2>3. Editing' /\ Wired' /\ CartAsBefore'
    BY <1>1, <1>2, <1>7, <2>1, <2>2 DEF Editing, Wired, CartAsBefore
  <2>4. NoWriters([chan EXCEPT ![3] = Idle])'
    BY <1>3, <1>4, <2>2 DEF NoWriters
  <2>5. Storing'
    BY <1>2, <1>3, <1>7, <2>1, <2>2, <2>4 DEF Storing
  <2> QED
    BY <1>1, <1>2, <1>7, <2>3, <2>5 DEF EditorInv, EditorFiles
<1>8. <<>> \in Seq(Seq(Bytes)) /\ (batches # <<>> => Tail(batches) \in Seq(Seq(Bytes)))
  BY <1>3
<1> QED
  BY <1>1, <1>5, <1>6, <1>7, <1>8 DEF WriteText, Proceed

LEMMA CloseTextKeeps ==
    ASSUME EditorInv, CloseText
    PROVE  EditorInv'
<1>1. /\ editor = "close" /\ Wired /\ saved = FALSE /\ Editing /\ paper \in Places /\ CartAsBefore /\ Storing
  BY DEF CloseText, EditorInv, EditorFiles, Editing
<1>2. UNCHANGED <<paper, text, cursor, scan, batches, sound, first>> /\ editor' = "over"
  BY DEF CloseText, editVars, textVars
<1>3. /\ chan[3].place = paper /\ chan[3].live = TRUE /\ NoWriters([chan EXCEPT ![3] = Idle])
      /\ (sound = TRUE \/ chan[3].bad = TRUE) /\ sound \in BOOLEAN /\ chan[3].bad \in BOOLEAN
      /\ batches = <<>>
      /\ chan[3].bad = FALSE =>
           /\ chan[3].data \in Seq(Seq(Bytes)) /\ chan[3].data \o batches = Batches(text)
           /\ Dev(paper) # Cart => OnDisk(chan[3].data)
  BY <1>1 DEF Storing
<1>4. 3 \in Files /\ DOMAIN chan = Files /\ \A f \in Files : Channel(chan[f])
  BY <1>1 DEF Wired, Files
<1>5. PICK works \in {TRUE, ~Troubles} :
         \/ /\ Status(Dev(paper), Closed(3, works), [chan EXCEPT ![3] = Idle])
            /\ saved' = (sound /\ works /\ ~chan[3].bad)
         \/ /\ Troubles /\ Dev(paper) # Cart
            /\ UseStatus(Dev(paper), FALSE) /\ files' = Closed(3, works) /\ chan' = [chan EXCEPT ![3] = Idle]
            /\ UNCHANGED saved
  BY DEF CloseText
<1>. DEFINE result == Closed(3, works)  idle == [chan EXCEPT ![3] = Idle]
            shut == {[x EXCEPT !.closed = TRUE] : x \in files[paper]}
<1>6. result = IF ~works THEN files
             ELSE IF Dev(paper) = Cart
               THEN IF chan[3].bad THEN files ELSE [files EXCEPT ![paper] = {New(chan[3].data)}]
               ELSE [files EXCEPT ![paper] = shut]
  BY <1>3 DEF Closed
<1>. HIDE DEF result, shut
<1>7. files = [q \in Places |-> files[q]] /\ DOMAIN files = Places /\ cmdslot \in {0, 1}
  BY <1>1 DEF Wired
<1>8. /\ result = [q \in Places |-> result[q]] /\ DOMAIN result = Places
      /\ \A q \in Places : q # paper => result[q] = files[q]
      /\ Dev(paper) = Cart /\ (chan[3].bad \/ ~works) => result[paper] = files[paper]
      /\ works /\ ~chan[3].bad /\ Dev(paper) = Cart => result[paper] = {New(chan[3].data)}
      /\ works /\ ~chan[3].bad /\ Dev(paper) # Cart => result[paper] = shut
  BY <1>1, <1>6, <1>7
<1>9. (\A f \in Files : Channel(idle[f])) /\ DOMAIN idle = Files /\ NoWriters(idle)
  <2>1. Channel(Idle)
    BY DEF Channel, Idle
  <2> QED
    BY <1>3, <1>4, <2>1
<1>. HIDE DEF idle
<1>10. /\ files' = result /\ cmdslot' \in {0, 1} /\ DOMAIN chan' = Files /\ \A f \in Files : Channel(chan'[f])
       /\ saved' \in BOOLEAN /\ (saved' = TRUE => sound /\ works /\ ~chan[3].bad)
       /\ (saved' = FALSE => Dev(paper) # Cart \/ ~works \/ chan[3].bad)
  <2>1. CASE Status(Dev(paper), result, idle) /\ saved' = (sound /\ works /\ ~chan[3].bad)
    <3>1. /\ files' = result /\ cmdslot' \in {0, 1} /\ DOMAIN chan' = Files /\ \A f \in Files : Channel(chan'[f])
      BY <1>7, <1>8, <1>9, <2>1, QuietRequest
    <3> QED
      BY <1>3, <2>1, <3>1
  <2>2. CASE /\ Dev(paper) # Cart /\ UseStatus(Dev(paper), FALSE) /\ files' = result /\ chan' = idle
             /\ UNCHANGED saved
    <3>1. cmdslot' \in {0, 1}
      BY <1>7, <2>2 DEF UseStatus, NextSlot
    <3> QED
      BY <1>1, <1>9, <2>2, <3>1
  <2> QED
    BY <1>5, <2>1, <2>2 DEF result, idle
<1>11. Editing' /\ Wired'
  BY <1>1, <1>2, <1>8, <1>10 DEF Editing, Wired
<1>12. (saved = FALSE => CartAsBefore)'
  BY <1>1, <1>2, <1>8, <1>10 DEF CartAsBefore
<1>13. saved' = TRUE => Contents(files', paper') = {Batches(text')}
  <2>. SUFFICES ASSUME saved' = TRUE PROVE Contents(result, paper) = {Batches(text)}
    BY <1>2, <1>10
  <2>1. works /\ chan[3].bad = FALSE
    BY <1>3, <1>10
  <2>2. chan[3].data = Batches(text)
    BY <1>3, <2>1
  <2>3. PICK y : result[paper] = {y} /\ y.data = chan[3].data /\ y.closed = TRUE
    <3>1. CASE Dev(paper) = Cart
      <4>. DEFINE z == New(chan[3].data)
      <4>1. z.data = chan[3].data /\ z.closed = TRUE
        BY DEF New
      <4>2. result[paper] = {z}
        BY <1>8, <2>1, <3>1
      <4>. HIDE DEF z
      <4> QED
        BY <4>1, <4>2
    <3>2. CASE Dev(paper) # Cart
      <4>1. PICK x : /\ files[paper] = {x} /\ x.data = chan[3].data
                     /\ x = [data |-> x.data, closed |-> x.closed, locked |-> x.locked]
        BY <1>3, <2>1, <3>2 DEF OnDisk
      <4>. DEFINE z == [x EXCEPT !.closed = TRUE]
      <4>2. result[paper] = {z}
        BY <1>8, <2>1, <3>2, <4>1 DEF shut
      <4>3. PICK v : v = z
        OBVIOUS
      <4>4. v.data = x.data /\ v.closed = TRUE
        BY <4>1, <4>3, FileShut
      <4> QED
        BY <4>1, <4>2, <4>3, <4>4
    <3> QED
      BY <3>1, <3>2
  <2> QED
    BY <2>2, <2>3 DEF Contents
<1>14. EditorFiles' /\ Storing'
  BY <1>2, <1>10, <1>12, <1>13 DEF EditorFiles, Storing
<1> QED
  BY <1>11, <1>14 DEF EditorInv

LEMMA EditorStep ==
    ASSUME EditorInv, [EditorNext]_editorVars
    PROVE  EditorInv'
<1>1. CASE UNCHANGED editorVars
  BY <1>1 DEF EditorInv, Editing, Wired, EditorFiles, Storing, CartAsBefore, NoWriters, OnDisk, editorVars, editVars,
              textVars, channelVars, commandVars
<1>2. CASE EditorNext
  BY <1>2, FindKeeps, OpenTextKeeps, LoadTextKeeps, PressKeyKeeps, LeaveTextKeeps, PrepareTextKeeps, ScratchTextKeeps,
     CreateTextKeeps, WriteTextKeeps, CloseTextKeeps DEF EditorNext
<1> QED
  BY <1>1, <1>2

LEMMA EditorInvMeans == EditorInv => SavedTextReturns
<1>. SUFFICES ASSUME EditorInv PROVE SavedTextReturns
  OBVIOUS
<1>1. /\ text \in TextOf /\ saved \in BOOLEAN /\ (saved = TRUE => Contents(files, paper) = {Batches(text)})
      /\ (saved = FALSE => CartAsBefore)
  BY DEF EditorInv, Editing, EditorFiles
<1>2. Reloaded(Batches(text)).text = text /\ ~Reloaded(Batches(text)).overflow
  BY <1>1, SavingReturns
<1> QED
  BY <1>1, <1>2 DEF SavedTextReturns, CartAsBefore

(* What EDIT saved without a complaint it loads again as it was, for any   *)
(* screen, any buffer that holds a row, and any text; and a text that was  *)
(* not saved leaves the files of the cartridge as they were.               *)
THEOREM SavedTextsReturn == EditorSpec => []SavedTextReturns
<1>1. EditorInit => EditorInv
  BY EditorStarts
<1>2. EditorInv /\ [EditorNext]_editorVars => EditorInv'
  BY EditorStep
<1>3. EditorInv => SavedTextReturns
  BY EditorInvMeans
<1> QED
  BY <1>1, <1>2, <1>3, PTL DEF EditorSpec

-----------------------------------------------------------------------------
(* The keys: what is outside the row of the cursor stays, and to insert a  *)
(* row moves the written rows below it down by one, the last of which was  *)
(* blank.                                                                  *)
LEMMA InkedRowIs ==
    ASSUME NEW t, NEW r \in 0..ROWS - 1
    PROVE  r \in InkedRows(t) <=> \E k \in 0..COLS - 1 : t[r * COLS + k] # Blank
<1>1. COLS \in Nat /\ 1 < COLS /\ ROWS \in Nat /\ r * COLS \in Nat
  BY AreaIs
<1>2. LastOf(r) = r * COLS + COLS - 1
  BY DEF LastOf
<1>3. r \in InkedRows(t) <=> \E i \in r * COLS..LastOf(r) : t[i] # Blank
  BY DEF InkedRows, Ends
<1>. DEFINE b == r * COLS
<1>4. ASSUME NEW i \in b..b + COLS - 1 PROVE i - b \in 0..COLS - 1 /\ b + (i - b) = i
  BY <1>1
<1>5. ASSUME NEW k \in 0..COLS - 1 PROVE b + k \in b..b + COLS - 1
  BY <1>1
<1>. HIDE DEF b
<1>6. LastOf(r) = b + COLS - 1
  BY <1>2 DEF b
<1>7. r \in InkedRows(t) <=> \E i \in b..b + COLS - 1 : t[i] # Blank
  BY <1>3, <1>6 DEF b
<1>8. (\E i \in b..b + COLS - 1 : t[i] # Blank) <=> \E k \in 0..COLS - 1 : t[b + k] # Blank
  <2>1. ASSUME NEW i \in b..b + COLS - 1, t[i] # Blank PROVE \E k \in 0..COLS - 1 : t[b + k] # Blank
    BY <1>4, <2>1
  <2>2. ASSUME NEW k \in 0..COLS - 1, t[b + k] # Blank PROVE \E i \in b..b + COLS - 1 : t[i] # Blank
    BY <1>5, <2>2
  <2> QED
    BY <2>1, <2>2
<1> QED
  BY <1>7, <1>8 DEF b

LEMMA RowsInserted ==
    ASSUME Editing, InsertRow, NEW r \in 0..ROWS - 1, NEW k \in 0..COLS - 1
    PROVE  /\ r < Line => text'[r * COLS + k] = text[r * COLS + k]
           /\ r = Line => text'[r * COLS + k] = Blank
           /\ Line < r => text'[r * COLS + k] = text[(r - 1) * COLS + k]
<1>. DEFINE i == r * COLS + k
<1>1. ROWS \in Nat /\ COLS \in Nat /\ AREA \in Nat /\ r * COLS \in Nat /\ r * COLS + COLS <= AREA /\ r \in Nat
  BY AreaIs
<1>2. i \in 0..AREA - 1
  BY <1>1
<1>3. RowOf(i) = r
  BY <1>1, PlaceIs
<1>4. text'[i] = IF r < Line THEN text[i] ELSE IF r = Line THEN Blank ELSE text[i - COLS]
  <2>. HIDE DEF i
  <2> QED
    BY <1>2, <1>3 DEF InsertRow
<1>5. Line \in Nat
  BY CursorIs
<1>6. i - COLS = (r - 1) * COLS + k
  BY <1>1
<1>. HIDE DEF i
<1>7. /\ r < Line => text'[i] = text[i]
      /\ r = Line => text'[i] = Blank
      /\ Line < r => text'[i] = text[(r - 1) * COLS + k]
  BY <1>1, <1>4, <1>5, <1>6
<1> QED
  BY <1>7 DEF i

LEMMA InsertKeepsRows ==
    ASSUME Editing, InsertRow
    PROVE  RowsKept(text, text')
<1>1. Line \in 0..ROWS - 1 /\ Line \in Nat /\ ROWS \in Nat /\ COLS \in Nat /\ AREA \in Nat
  BY CursorIs
<1>. DEFINE t == text  u == text'  to == [r \in InkedRows(t) |-> IF r < Line THEN r ELSE r + 1]
<1>2. InkedRows(t) \subseteq 0..ROWS - 1 /\ InkedRows(u) \subseteq 0..ROWS - 1
  BY DEF InkedRows
<1>3. ROWS - 1 \notin InkedRows(t)
  <2>1. ROWS - 1 \in 0..ROWS - 1 /\ ROWS - 1 \in Nat
    BY <1>1
  <2>2. ASSUME NEW k \in 0..COLS - 1 PROVE text[(ROWS - 1) * COLS + k] = Blank
    <3>1. (ROWS - 1) * COLS + COLS <= AREA /\ (ROWS - 1) * COLS \in Nat
      BY <2>1, AreaIs
    <3>2. (ROWS - 1) * COLS + k \in 0..AREA - 1
      BY <1>1, <3>1
    <3>3. RowOf((ROWS - 1) * COLS + k) = ROWS - 1
      BY <2>1, PlaceIs
    <3> QED
      BY <3>2, <3>3 DEF InsertRow, MayInsert
  <2> QED
    BY <2>1, <2>2, InkedRowIs
<1>4. ASSUME NEW r \in InkedRows(t)
      PROVE  to[r] \in 0..ROWS - 1 /\ SameRow(t, r, u, to[r])
  <2>1. r \in 0..ROWS - 1 /\ r # ROWS - 1
    BY <1>2, <1>3
  <2>2. CASE r < Line
    BY <1>1, <2>1, <2>2, RowsInserted DEF SameRow
  <2>3. CASE ~(r < Line)
    <3>1. r + 1 \in 0..ROWS - 1 /\ Line < r + 1 /\ (r + 1) - 1 = r
      BY <1>1, <2>1, <2>3
    <3>2. ASSUME NEW k \in 0..COLS - 1 PROVE u[(r + 1) * COLS + k] = t[r * COLS + k]
      BY <3>1, RowsInserted
    <3> QED
      BY <2>3, <3>1, <3>2 DEF SameRow
  <2> QED
    BY <2>2, <2>3
<1>5. ASSUME NEW r \in InkedRows(t) PROVE to[r] \in InkedRows(u)
  <2>1. PICK k \in 0..COLS - 1 : t[r * COLS + k] # Blank
    BY <1>2, InkedRowIs
  <2>2. to[r] \in 0..ROWS - 1 /\ SameRow(t, r, u, to[r])
    BY <1>4
  <2>. HIDE DEF to, t, u
  <2>3. u[to[r] * COLS + k] # Blank
    BY <2>1, <2>2 DEF SameRow
  <2> QED
    BY <2>2, <2>3, InkedRowIs
<1>6. ASSUME NEW q \in InkedRows(u) PROVE \E r \in InkedRows(t) : to[r] = q
  <2>1. PICK k \in 0..COLS - 1 : u[q * COLS + k] # Blank
    BY <1>2, InkedRowIs
  <2>2. q \in 0..ROWS - 1 /\ q # Line
    BY <1>2, <2>1, RowsInserted
  <2>3. CASE q < Line
    <3>1. t[q * COLS + k] # Blank
      BY <2>1, <2>2, <2>3, RowsInserted
    <3>2. q \in InkedRows(t)
      BY <2>2, <3>1, InkedRowIs
    <3> QED
      BY <2>3, <3>2
  <2>4. CASE Line < q
    <3>1. t[(q - 1) * COLS + k] # Blank
      BY <2>1, <2>2, <2>4, RowsInserted
    <3>2. q - 1 \in 0..ROWS - 1 /\ ~(q - 1 < Line) /\ (q - 1) + 1 = q
      BY <1>1, <2>2, <2>4
    <3>3. q - 1 \in InkedRows(t)
      BY <3>1, <3>2, InkedRowIs
    <3> QED
      BY <3>2, <3>3
  <2> QED
    BY <1>1, <2>2, <2>3, <2>4
<1>7. ASSUME NEW r \in InkedRows(t), NEW q \in InkedRows(t), r < q PROVE to[r] < to[q]
  <2>1. r \in Nat /\ q \in Nat
    BY <1>1, <1>2
  <2> QED
    BY <1>1, <1>7, <2>1
<1>8. to \in [InkedRows(t) -> InkedRows(u)]
  BY <1>5
<1>. HIDE DEF to
<1> QED
  BY <1>4, <1>6, <1>7, <1>8 DEF RowsKept

LEMMA RowStays ==
    ASSUME Editing, MoveCursor \/ DeleteLetter \/ InsertLetter \/ TypeLetter,
           NEW i \in 0..AREA - 1, RowOf(i) # Line
    PROVE  text'[i] = text[i]
<1>1. /\ Column \in 0..COLS - 1 /\ Line \in 0..ROWS - 1 /\ Column \in Nat /\ Line \in Nat
      /\ Here = Line * COLS + Column /\ Here \in 0..AREA - 1 /\ Line * COLS \in Nat /\ Here \in Nat
      /\ LastOf(Line) = Line * COLS + COLS - 1 /\ LastOf(Line) \in 0..AREA - 1 /\ Here <= LastOf(Line)
      /\ cursor = <<Column, Line>> /\ COLS \in Nat /\ 1 < COLS /\ ROWS \in Nat /\ AREA \in Nat
  BY CursorIs
<1>2. i \notin Line * COLS..LastOf(Line)
  <2>1. SUFFICES ASSUME i \in Line * COLS..LastOf(Line) PROVE RowOf(i) = Line
    OBVIOUS
  <2>. DEFINE k == i - Line * COLS
  <2>2. k \in 0..COLS - 1 /\ i = Line * COLS + k
    BY <1>1, <2>1
  <2>. HIDE DEF k
  <2> QED
    BY <1>1, <2>2, PlaceIs
<1>3. i # Here /\ i \notin Here..LastOf(Line) /\ (Column > 0 => i \notin Here - 1..LastOf(Line))
  BY <1>1, <1>2
<1> QED
  BY <1>1, <1>3 DEF MoveCursor, DeleteLetter, InsertLetter, TypeLetter, Editing, TextOf

(* A key changes the row of the cursor and no other, or inserts a row      *)
(* without one being lost, for any size of the screen.                     *)
THEOREM RowsAreKept == EditorSpec => NoRowLost
<1>. DEFINE Kind == editor = "keys" =>
                      \/ \A i \in 0..AREA - 1 : RowOf(i) # Line => text'[i] = text[i]
                      \/ RowsKept(text, text')
<1>1. EditorInit => EditorInv
  BY EditorStarts
<1>2. EditorInv /\ [EditorNext]_editorVars => EditorInv'
  BY EditorStep
<1>3. ASSUME EditorInv, [EditorNext]_editorVars PROVE [Kind]_editorVars
  <2>1. CASE UNCHANGED editorVars
    BY <2>1
  <2>2. CASE EditorNext /\ editor = "keys"
    <3>1. LeaveText \/ PressKey
      BY <2>2 DEF EditorNext, Find, OpenText, LoadText, PrepareText, ScratchText, CreateText, WriteText, CloseText
    <3>2. CASE LeaveText
      BY <3>2 DEF LeaveText, textVars
    <3>3. CASE PressKey
      BY <1>3, <3>3, RowStays, InsertKeepsRows DEF PressKey, EditorInv
    <3> QED
      BY <3>1, <3>2, <3>3
  <2>3. CASE EditorNext /\ editor # "keys"
    BY <2>3
  <2> QED
    BY <1>3, <2>1, <2>2, <2>3
<1> QED
  BY <1>1, <1>2, <1>3, PTL DEF EditorSpec, NoRowLost

-----------------------------------------------------------------------------
(***************************************************************************)
(* Whatever the names, the values, the size of the environment and what    *)
(* AUTOEXEC.BAT holds, the packed bytes are the map that SET promises, and *)
(* startup implements Variables.                                           *)
(*                                                                         *)
(* Packed says what the bytes are: every one belongs to an entry, a name   *)
(* has at most one.  It makes the first "=" the one that splits an entry,  *)
(* the first terminator the one that ends it, and the bytes in use as many *)
(* as the map needs.                                                       *)
(***************************************************************************)

(* n=v and its terminator, at p. *)
HoldsAt(b, n, v, p) ==
    /\ p \in Nat \ {0} /\ p + Len(n) + Len(v) + 1 <= Len(b)
    /\ p = 1 \/ b[p - 1] = Nul
    /\ \A k \in p..(p + Len(n) - 1) : b[k] = n[k - p + 1]
    /\ b[p + Len(n)] = Equals
    /\ \A k \in (p + Len(n) + 1)..(p + Len(n) + Len(v)) : b[k] = v[k - p - Len(n)]
    /\ b[p + Len(n) + Len(v) + 1] = Nul

(* An empty value is none. *)
SetValues == Values \ {<<>>}
(* What an entry takes up. *)
Takes(n, v) == Len(n) + Len(v) + 2

(* Every byte belongs to an entry, and no name has two. *)
Packed(b) ==
    /\ b \in Seq(EnvironmentBytes)
    /\ \A k \in 1..Len(b) : \E n \in Names, v \in SetValues, p \in 1..k :
          HoldsAt(b, n, v, p) /\ k < p + Takes(n, v)
    /\ \A n \in Names, v, w \in SetValues, p, q \in 1..Len(b) :
          HoldsAt(b, n, v, p) /\ HoldsAt(b, n, w, q) => p = q

(* A name has neither "=" nor a terminator in it. *)
LEMMA NameTyped ==
    ASSUME NEW n \in Names
    PROVE  /\ n \in Seq(EnvironmentBytes) /\ Len(n) \in Nat /\ DOMAIN n = 1..Len(n)
           /\ \A i \in 1..Len(n) : n[i] # Equals /\ n[i] # Nul
  <1>1. n \in Seq(EnvironmentBytes)
    BY StartupAssumption DEF StartupAssumption
  <1>2. Len(n) \in Nat /\ DOMAIN n = 1..Len(n)
    BY <1>1
  <1> QED
    BY <1>1, <1>2, StartupAssumption DEF StartupAssumption

(* A value has no terminator in it. *)
LEMMA ValueTyped ==
    ASSUME NEW v \in Values
    PROVE  /\ v \in Seq(EnvironmentBytes) /\ Len(v) \in Nat /\ DOMAIN v = 1..Len(v)
           /\ \A i \in 1..Len(v) : v[i] # Nul
           /\ v # <<>> <=> Len(v) > 0
  <1>1. v \in Seq(EnvironmentBytes)
    BY StartupAssumption DEF StartupAssumption
  <1>2. Len(v) \in Nat /\ DOMAIN v = 1..Len(v)
    BY <1>1
  <1>3. v # <<>> <=> Len(v) > 0
    BY <1>1
  <1> QED
    BY <1>1, <1>2, <1>3, StartupAssumption DEF StartupAssumption

(* No byte of an entry but its last ends it. *)
LEMMA EntryInside ==
    ASSUME NEW b, NEW n \in Names, NEW v \in Values, NEW p, HoldsAt(b, n, v, p)
    PROVE  /\ p \in Nat /\ p >= 1 /\ Takes(n, v) \in Nat /\ Takes(n, v) >= 2
           /\ \A k \in p..(p + Takes(n, v) - 2) : b[k] # Nul
           /\ b[p + Takes(n, v) - 1] = Nul
           /\ p + Takes(n, v) - 1 <= Len(b)
  <1>n. Len(n) \in Nat /\ \A i \in 1..Len(n) : n[i] # Equals /\ n[i] # Nul
    BY NameTyped
  <1>v. Len(v) \in Nat /\ \A i \in 1..Len(v) : v[i] # Nul
    BY ValueTyped
  <1>e. Equals # Nul
    BY StartupAssumption DEF StartupAssumption
  <1>p. p \in Nat /\ p >= 1
    BY DEF HoldsAt
  <1>1. ASSUME NEW k \in p..(p + Takes(n, v) - 2) PROVE b[k] # Nul
    <2>1. CASE k < p + Len(n)
      <3>1. b[k] = n[k - p + 1]
        BY <2>1, <1>n, <1>p DEF HoldsAt
      <3> QED
        BY <3>1, <2>1, <1>n, <1>p
    <2>2. CASE k = p + Len(n)
      BY <2>2, <1>e DEF HoldsAt
    <2>3. CASE k > p + Len(n)
      <3>1. k \in (p + Len(n) + 1)..(p + Len(n) + Len(v))
        BY <2>3, <1>n, <1>v, <1>p DEF Takes
      <3>2. b[k] = v[k - p - Len(n)]
        BY <3>1 DEF HoldsAt
      <3>3. k - p - Len(n) \in 1..Len(v)
        BY <3>1, <1>n, <1>v, <1>p
      <3> QED
        BY <3>2, <3>3, <1>v
    <2> QED
      BY <2>1, <2>2, <2>3, <1>n, <1>p
  <1>2. p + Takes(n, v) - 1 = p + Len(n) + Len(v) + 1
    BY <1>n, <1>v, <1>p DEF Takes
  <1>3. b[p + Takes(n, v) - 1] = Nul /\ p + Takes(n, v) - 1 <= Len(b)
    BY <1>2 DEF HoldsAt
  <1> QED
    BY <1>1, <1>3, <1>n, <1>v, <1>p DEF Takes

(* A name and the "=" after it. *)
Spells(b, n, p) ==
    /\ \A k \in p..(p + Len(n) - 1) : b[k] = n[k - p + 1]
    /\ b[p + Len(n)] = Equals

(* No name has "=" in it: one is spelled at a place. *)
LEMMA OneNameAtAPlace ==
    ASSUME NEW b, NEW n \in Names, NEW m \in Names, NEW p \in Nat, Spells(b, n, p), Spells(b, m, p)
    PROVE  n = m
  <1>n. n \in Seq(EnvironmentBytes) /\ Len(n) \in Nat /\ \A i \in 1..Len(n) : n[i] # Equals
    BY NameTyped
  <1>m. m \in Seq(EnvironmentBytes) /\ Len(m) \in Nat /\ \A i \in 1..Len(m) : m[i] # Equals
    BY NameTyped
  <1>1. ~(Len(n) < Len(m))
    <2>1. SUFFICES ASSUME Len(n) < Len(m) PROVE FALSE
      OBVIOUS
    <2>2. p + Len(n) \in p..(p + Len(m) - 1) /\ p + Len(n) - p + 1 \in 1..Len(m)
      BY <2>1, <1>n, <1>m
    <2>3. b[p + Len(n)] = m[p + Len(n) - p + 1]
      BY <2>2 DEF Spells
    <2> QED
      BY <2>2, <2>3, <1>m DEF Spells
  <1>2. ~(Len(m) < Len(n))
    <2>1. SUFFICES ASSUME Len(m) < Len(n) PROVE FALSE
      OBVIOUS
    <2>2. p + Len(m) \in p..(p + Len(n) - 1) /\ p + Len(m) - p + 1 \in 1..Len(n)
      BY <2>1, <1>n, <1>m
    <2>3. b[p + Len(m)] = n[p + Len(m) - p + 1]
      BY <2>2 DEF Spells
    <2> QED
      BY <2>2, <2>3, <1>n DEF Spells
  <1>3. Len(n) = Len(m)
    BY <1>1, <1>2, <1>n, <1>m
  <1>4. \A i \in 1..Len(n) : n[i] = m[i]
    <2> TAKE i \in 1..Len(n)
    <2>1. p + i - 1 \in p..(p + Len(n) - 1) /\ p + i - 1 \in p..(p + Len(m) - 1) /\ (p + i - 1) - p + 1 = i
      BY <1>3, <1>n
    <2> QED
      BY <2>1 DEF Spells
  <1> QED
    BY <1>3, <1>4, <1>n, <1>m

(* What starts at one place is one entry. *)
LEMMA OneEntryAtAPlace ==
    ASSUME NEW b, NEW n \in Names, NEW v \in Values, NEW m \in Names, NEW w \in Values, NEW p,
           HoldsAt(b, n, v, p), HoldsAt(b, m, w, p)
    PROVE  n = m /\ v = w
  <1>n. n \in Seq(EnvironmentBytes) /\ Len(n) \in Nat /\ \A i \in 1..Len(n) : n[i] # Equals
    BY NameTyped
  <1>m. m \in Seq(EnvironmentBytes) /\ Len(m) \in Nat /\ \A i \in 1..Len(m) : m[i] # Equals
    BY NameTyped
  <1>v. v \in Seq(EnvironmentBytes) /\ Len(v) \in Nat
    BY ValueTyped
  <1>w. w \in Seq(EnvironmentBytes) /\ Len(w) \in Nat
    BY ValueTyped
  <1>p. p \in Nat /\ p >= 1
    BY DEF HoldsAt
  <1>5. n = m
    BY <1>p, OneNameAtAPlace DEF HoldsAt, Spells
  <1>6. Takes(n, v) = Takes(m, w)
    <2>1. /\ \A k \in p..(p + Takes(n, v) - 2) : b[k] # Nul
          /\ b[p + Takes(n, v) - 1] = Nul /\ Takes(n, v) \in Nat /\ Takes(n, v) >= 2
      BY EntryInside
    <2>2. /\ \A k \in p..(p + Takes(m, w) - 2) : b[k] # Nul
          /\ b[p + Takes(m, w) - 1] = Nul /\ Takes(m, w) \in Nat /\ Takes(m, w) >= 2
      BY EntryInside
    <2>3. ~(Takes(n, v) < Takes(m, w))
      <3>1. Takes(n, v) < Takes(m, w) => p + Takes(n, v) - 1 \in p..(p + Takes(m, w) - 2)
        BY <2>1, <2>2, <1>p
      <3> QED
        BY <3>1, <2>1, <2>2
    <2>4. ~(Takes(m, w) < Takes(n, v))
      <3>1. Takes(m, w) < Takes(n, v) => p + Takes(m, w) - 1 \in p..(p + Takes(n, v) - 2)
        BY <2>1, <2>2, <1>p
      <3> QED
        BY <3>1, <2>1, <2>2
    <2> QED
      BY <2>1, <2>2, <2>3, <2>4
  <1>7. Len(v) = Len(w)
    BY <1>6, <1>5, <1>n, <1>v, <1>w DEF Takes
  <1>8. \A i \in 1..Len(v) : v[i] = w[i]
    <2> TAKE i \in 1..Len(v)
    <2> DEFINE k == p + Len(n) + i
    <2>1. k \in (p + Len(n) + 1)..(p + Len(n) + Len(v)) /\ k - p - Len(n) = i
      BY <1>n, <1>v, <1>p
    <2> HIDE DEF k
    <2>2. b[k] = v[i]
      BY <2>1 DEF HoldsAt
    <2>3. b[k] = w[i]
      BY <2>1, <1>5, <1>7 DEF HoldsAt
    <2> QED
      BY <2>2, <2>3
  <1>9. v = w
    BY <1>7, <1>8, <1>v, <1>w
  <1> QED
    BY <1>5, <1>9

(* Entries do not overlap. *)
LEMMA EntriesApart ==
    ASSUME NEW b, NEW n \in Names, NEW v \in Values, NEW m \in Names, NEW w \in Values, NEW p, NEW q,
           HoldsAt(b, n, v, p), HoldsAt(b, m, w, q), p < q
    PROVE  p + Takes(n, v) <= q
  <1>1. /\ p \in Nat /\ p >= 1 /\ Takes(n, v) \in Nat
        /\ \A k \in p..(p + Takes(n, v) - 2) : b[k] # Nul
    BY EntryInside
  <1>2. q \in Nat /\ b[q - 1] = Nul
    BY <1>1 DEF HoldsAt
  <1>3. q < p + Takes(n, v) => q - 1 \in p..(p + Takes(n, v) - 2)
    BY <1>1, <1>2
  <1> QED
    BY <1>1, <1>2, <1>3

(* Where an entry may start, one does. *)
LEMMA StartHoldsEntry ==
    ASSUME NEW b, Packed(b), NEW p \in 1..Len(b), p = 1 \/ b[p - 1] = Nul
    PROVE  \E n \in Names, v \in SetValues : HoldsAt(b, n, v, p)
  <1>0. Len(b) \in Nat
    BY DEF Packed
  <1>1. PICK n \in Names, v \in SetValues, q \in 1..p : HoldsAt(b, n, v, q) /\ p < q + Takes(n, v)
    BY DEF Packed
  <1>2. v \in Values
    BY DEF SetValues
  <1>3. \A k \in q..(q + Takes(n, v) - 2) : b[k] # Nul
    BY <1>1, <1>2, EntryInside
  <1>4. Takes(n, v) \in Nat
    BY <1>1, <1>2, EntryInside
  <1>5. q = p
    <2>1. SUFFICES ASSUME q < p PROVE FALSE
      BY <1>0
    <2>2. p - 1 \in q..(q + Takes(n, v) - 2) /\ p # 1
      BY <2>1, <1>0, <1>1, <1>4
    <2> QED
      BY <2>2, <1>3
  <1> QED
    BY <1>1, <1>5

(* How the text of an entry is taken apart. *)
EndOf(b, p) == CHOOSE q \in p..Len(b) : b[q] = Nul /\ \A r \in p..(q - 1) : b[r] # Nul
EntryTextOf(b, p) == SubSeq(b, p, EndOf(b, p) - 1)
SplitOf(t) == CHOOSE q \in 1..Len(t) : t[q] = Equals /\ \A r \in 1..(q - 1) : t[r] # Equals
NameOf(b, p) == SubSeq(EntryTextOf(b, p), 1, SplitOf(EntryTextOf(b, p)) - 1)
ValueOf(b, p) == SubSeq(EntryTextOf(b, p), SplitOf(EntryTextOf(b, p)) + 1, Len(EntryTextOf(b, p)))

(* The first terminator from an entry on is its own. *)
LEMMA EntryEnd ==
    ASSUME NEW b, b \in Seq(EnvironmentBytes), NEW n \in Names, NEW v \in Values, NEW p, HoldsAt(b, n, v, p)
    PROVE  EndOf(b, p) = p + Takes(n, v) - 1
  <1> DEFINE P(q) == b[q] = Nul /\ \A r \in p..(q - 1) : b[r] # Nul
  <1> DEFINE e == p + Takes(n, v) - 1
  <1>1. /\ p \in Nat /\ p >= 1 /\ Takes(n, v) \in Nat /\ Takes(n, v) >= 2
        /\ \A k \in p..(p + Takes(n, v) - 2) : b[k] # Nul
        /\ b[p + Takes(n, v) - 1] = Nul
        /\ p + Takes(n, v) - 1 <= Len(b)
    BY EntryInside
  <1>2. e \in p..Len(b) /\ e - 1 = p + Takes(n, v) - 2
    BY <1>1
  <1>3. P(e)
    BY <1>1, <1>2
  <1>4. \A q \in p..Len(b) : P(q) => q = e
    <2> TAKE q \in p..Len(b)
    <2> HAVE P(q)
    <2>1. q < e => q \in p..(p + Takes(n, v) - 2)
      BY <1>1
    <2>2. q > e => e \in p..(q - 1)
      BY <1>1
    <2>3. b[e] = Nul /\ e \in Int /\ q \in Int
      BY <1>1
    <2> HIDE DEF e
    <2> QED
      BY <2>1, <2>2, <2>3, <1>1
  <1> HIDE DEF e
  <1>5. EndOf(b, p) \in p..Len(b) /\ P(EndOf(b, p))
    <2>1. \E q \in p..Len(b) : P(q)
      BY <1>2, <1>3
    <2> QED
      BY <2>1 DEF EndOf
  <1>6. EndOf(b, p) = e
    BY <1>4, <1>5
  <1> QED
    BY <1>6 DEF e

(* Taken apart, an entry is its name and its value. *)
LEMMA EntryText ==
    ASSUME NEW b, b \in Seq(EnvironmentBytes), NEW n \in Names, NEW v \in Values, NEW p, HoldsAt(b, n, v, p)
    PROVE  NameOf(b, p) = n /\ ValueOf(b, p) = v
  <1>n. n \in Seq(EnvironmentBytes) /\ Len(n) \in Nat /\ \A i \in 1..Len(n) : n[i] # Equals
    BY NameTyped
  <1>v. v \in Seq(EnvironmentBytes) /\ Len(v) \in Nat
    BY ValueTyped
  <1>p. p \in Nat /\ p >= 1 /\ p + Len(n) + Len(v) + 1 <= Len(b) /\ Len(b) \in Nat
    BY DEF HoldsAt
  <1> DEFINE t == EntryTextOf(b, p)
             s == Len(n) + 1
  <1>1. EndOf(b, p) - 1 = p + Len(n) + Len(v)
    <2>1. EndOf(b, p) = p + Takes(n, v) - 1
      BY EntryEnd
    <2> QED
      BY <2>1, <1>n, <1>v, <1>p DEF Takes
  <1>2. t = SubSeq(b, p, p + Len(n) + Len(v))
    BY <1>1 DEF EntryTextOf
  <1>3. /\ t \in Seq(EnvironmentBytes) /\ Len(t) = Len(n) + Len(v) + 1
        /\ \A i \in 1..(Len(n) + Len(v) + 1) : t[i] = b[p + i - 1]
    BY <1>2, <1>n, <1>v, <1>p
  <1> HIDE DEF t
  <1>4. \A i \in 1..Len(n) : t[i] = n[i]
    <2> TAKE i \in 1..Len(n)
    <2>1. i \in 1..(Len(n) + Len(v) + 1) /\ p + i - 1 \in p..(p + Len(n) - 1) /\ (p + i - 1) - p + 1 = i
      BY <1>n, <1>v, <1>p
    <2> QED
      BY <2>1, <1>3 DEF HoldsAt
  <1>5. t[s] = Equals
    <2>1. s \in 1..(Len(n) + Len(v) + 1) /\ p + s - 1 = p + Len(n)
      BY <1>n, <1>v, <1>p
    <2> QED
      BY <2>1, <1>3 DEF HoldsAt
  <1>6. \A i \in 1..Len(v) : t[s + i] = v[i]
    <2> TAKE i \in 1..Len(v)
    <2>1. s + i \in 1..(Len(n) + Len(v) + 1) /\ p + (s + i) - 1 \in (p + Len(n) + 1)..(p + Len(n) + Len(v))
          /\ (p + (s + i) - 1) - p - Len(n) = i
      BY <1>n, <1>v, <1>p
    <2> QED
      BY <2>1, <1>3 DEF HoldsAt
  <1>7. SplitOf(t) = s
    <2> DEFINE P(q) == t[q] = Equals /\ \A r \in 1..(q - 1) : t[r] # Equals
    <2>1. s \in 1..Len(t) /\ s - 1 = Len(n)
      BY <1>3, <1>n, <1>v
    <2>2. P(s)
      BY <2>1, <1>4, <1>5, <1>n
    <2>3. \A q \in 1..Len(t) : P(q) => q = s
      <3> TAKE q \in 1..Len(t)
      <3> HAVE P(q)
      <3>1. q < s => q \in 1..Len(n)
        BY <2>1, <1>n
      <3>2. q > s => s \in 1..(q - 1)
        BY <2>1, <1>n
      <3>3. s \in Int /\ q \in Int
        BY <2>1
      <3> HIDE DEF s
      <3> QED
        BY <3>1, <3>2, <3>3, <1>4, <1>5, <1>n
    <2>4. SplitOf(t) \in 1..Len(t) /\ P(SplitOf(t))
      <3>1. \E q \in 1..Len(t) : P(q)
        BY <2>1, <2>2
      <3> QED
        BY <3>1 DEF SplitOf
    <2> QED
      BY <2>3, <2>4
  <1>8. SubSeq(t, 1, s - 1) = n
    <2>1. SubSeq(t, 1, s - 1) \in Seq(EnvironmentBytes) /\ Len(SubSeq(t, 1, s - 1)) = Len(n)
          /\ \A i \in 1..Len(n) : SubSeq(t, 1, s - 1)[i] = t[i]
      BY <1>3, <1>n, <1>v
    <2> QED
      BY <2>1, <1>4, <1>n
  <1>9. SubSeq(t, s + 1, Len(t)) = v
    <2>1. SubSeq(t, s + 1, Len(t)) \in Seq(EnvironmentBytes) /\ Len(SubSeq(t, s + 1, Len(t))) = Len(v)
          /\ \A i \in 1..Len(v) : SubSeq(t, s + 1, Len(t))[i] = t[s + i]
      BY <1>3, <1>n, <1>v
    <2> QED
      BY <2>1, <1>6, <1>v
  <1> QED
    BY <1>7, <1>8, <1>9 DEF NameOf, ValueOf, t

(* The map has the names and the values of the entries. *)
LEMMA MapOfPacked ==
    ASSUME NEW b, Packed(b)
    PROVE  /\ MapOf(b) = [n \in DOMAIN MapOf(b) |-> MapOf(b)[n]]
           /\ DOMAIN MapOf(b) = {n \in Names : \E v \in SetValues, p \in 1..Len(b) : HoldsAt(b, n, v, p)}
           /\ \A n \in Names, v \in SetValues, p \in 1..Len(b) : HoldsAt(b, n, v, p) => MapOf(b)[n] = v
  <1> DEFINE starts == {p \in 1..Len(b) : p = 1 \/ b[p - 1] = Nul}
  <1>0. b \in Seq(EnvironmentBytes) /\ Len(b) \in Nat
    BY DEF Packed
  <1>1. MapOf(b) = [n \in {NameOf(b, p) : p \in starts} |-> ValueOf(b, CHOOSE p \in starts : NameOf(b, p) = n)]
    BY DEF MapOf, NameOf, ValueOf, SplitOf, EntryTextOf, EndOf
  <1>2. \A p \in starts : \E n \in Names, v \in SetValues : HoldsAt(b, n, v, p) /\ NameOf(b, p) = n /\ ValueOf(b, p) = v
    <2> TAKE p \in starts
    <2>1. PICK n \in Names, v \in SetValues : HoldsAt(b, n, v, p)
      BY StartHoldsEntry
    <2>2. v \in Values
      BY DEF SetValues
    <2>3. NameOf(b, p) = n /\ ValueOf(b, p) = v
      BY <2>1, <2>2, <1>0, EntryText
    <2> QED
      BY <2>1, <2>3
  <1>3. \A n \in Names, v \in SetValues, p \in 1..Len(b) :
           HoldsAt(b, n, v, p) => p \in starts /\ NameOf(b, p) = n /\ ValueOf(b, p) = v
    <2> TAKE n \in Names, v \in SetValues, p \in 1..Len(b)
    <2> HAVE HoldsAt(b, n, v, p)
    <2>1. v \in Values
      BY DEF SetValues
    <2>2. NameOf(b, p) = n /\ ValueOf(b, p) = v
      BY <2>1, <1>0, EntryText
    <2>3. p \in starts
      BY DEF HoldsAt
    <2> QED
      BY <2>2, <2>3
  <1>4. \A n \in Names, v \in SetValues, p \in 1..Len(b) :
           HoldsAt(b, n, v, p) => n \in DOMAIN MapOf(b) /\ MapOf(b)[n] = v
    <2> TAKE n \in Names, v \in SetValues, p \in 1..Len(b)
    <2> HAVE HoldsAt(b, n, v, p)
    <2> DEFINE r == CHOOSE r \in starts : NameOf(b, r) = n
    <2>1. p \in starts /\ NameOf(b, p) = n
      BY <1>3
    <2>2. r \in starts /\ NameOf(b, r) = n
      BY <2>1
    <2> HIDE DEF r
    <2>3. PICK m \in Names, w \in SetValues : HoldsAt(b, m, w, r) /\ NameOf(b, r) = m /\ ValueOf(b, r) = w
      BY <2>2, <1>2
    <2>4. r = p
      BY <2>2, <2>3 DEF Packed
    <2>5. ValueOf(b, r) = v
      BY <2>4, <1>3
    <2>6. n \in DOMAIN MapOf(b) /\ MapOf(b)[n] = ValueOf(b, r)
      BY <2>1, <1>1 DEF r
    <2> QED
      BY <2>5, <2>6
  <1>5. DOMAIN MapOf(b) = {NameOf(b, p) : p \in starts}
    BY <1>1
  <1>6. DOMAIN MapOf(b) = {n \in Names : \E v \in SetValues, p \in 1..Len(b) : HoldsAt(b, n, v, p)}
    <2>1. \A n \in DOMAIN MapOf(b) : n \in Names /\ \E v \in SetValues, p \in 1..Len(b) : HoldsAt(b, n, v, p)
      <3> TAKE n \in DOMAIN MapOf(b)
      <3>1. PICK p \in starts : n = NameOf(b, p)
        BY <1>5
      <3>2. PICK m \in Names, w \in SetValues : HoldsAt(b, m, w, p) /\ NameOf(b, p) = m
        BY <1>2
      <3> QED
        BY <3>1, <3>2
    <2> QED
      BY <2>1, <1>4
  <1>7. MapOf(b) = [n \in DOMAIN MapOf(b) |-> MapOf(b)[n]]
    BY <1>1, <1>5
  <1> QED
    BY <1>4, <1>6, <1>7

(* The bytes in use are what the map needs. *)
LEMMA RoomOfPacked ==
    ASSUME NEW b, Packed(b)
    PROVE  Cardinality(Environment!Room(MapOf(b))) = Len(b)
  <1> DEFINE map == MapOf(b)
             room == Environment!Room(map)
             Held(n, p) == HoldsAt(b, n, map[n], p)
             place(n) == CHOOSE p \in 1..Len(b) : Held(n, p)
             f == [x \in room |-> place(x[1]) + x[2] - 1]
  <1>0. b \in Seq(EnvironmentBytes) /\ Len(b) \in Nat
    BY DEF Packed
  <1>1. /\ DOMAIN map = {n \in Names : \E v \in SetValues, p \in 1..Len(b) : HoldsAt(b, n, v, p)}
        /\ \A n \in Names, v \in SetValues, p \in 1..Len(b) : HoldsAt(b, n, v, p) => map[n] = v
    BY MapOfPacked
  <1> HIDE DEF map
  <1>2. \A n \in DOMAIN map : /\ n \in Names /\ map[n] \in SetValues /\ map[n] \in Values
                             /\ Len(n) \in Nat /\ Len(map[n]) \in Nat
                             /\ place(n) \in 1..Len(b) /\ Held(n, place(n))
    <2> TAKE n \in DOMAIN map
    <2>1. PICK v \in SetValues, p \in 1..Len(b) : HoldsAt(b, n, v, p)
      BY <1>1
    <2>2. n \in Names /\ map[n] = v
      BY <2>1, <1>1
    <2>3. place(n) \in 1..Len(b) /\ Held(n, place(n))
      BY <2>1, <2>2
    <2>4. v \in Values
      BY DEF SetValues
    <2> QED
      BY <2>2, <2>3, <2>4, NameTyped, ValueTyped
  <1>3. room = UNION {{n} \X (1..Takes(n, map[n])) : n \in DOMAIN map}
    <2>1. \A n \in DOMAIN map : Len(n) + Len(map[n]) + 2 = Takes(n, map[n])
      BY DEF Takes
    <2> QED
      BY <2>1 DEF Environment!Room
  <1> HIDE DEF room
  <1>4. \A x \in room : x[1] \in DOMAIN map /\ x[2] \in 1..Takes(x[1], map[x[1]]) /\ x = <<x[1], x[2]>>
    BY <1>3
  <1>5. \A n \in DOMAIN map : \A i \in 1..Takes(n, map[n]) : <<n, i>> \in room
    BY <1>3
  <1>6. \A n \in DOMAIN map : /\ Takes(n, map[n]) \in Nat
                             /\ place(n) + Takes(n, map[n]) - 1 <= Len(b)
                             /\ \A m \in DOMAIN map : place(n) < place(m) => place(n) + Takes(n, map[n]) <= place(m)
    <2> TAKE n \in DOMAIN map
    <2>1. Takes(n, map[n]) \in Nat /\ place(n) + Takes(n, map[n]) - 1 <= Len(b)
      BY <1>2, EntryInside
    <2>2. \A m \in DOMAIN map : place(n) < place(m) => place(n) + Takes(n, map[n]) <= place(m)
      BY <1>2, EntriesApart
    <2> QED
      BY <2>1, <2>2
  <1>p. ASSUME NEW n \in DOMAIN map, NEW m \in DOMAIN map, place(n) = place(m)
        PROVE  n = m
    <2>1. HoldsAt(b, n, map[n], place(n)) /\ HoldsAt(b, m, map[m], place(n))
      BY <1>2, <1>p
    <2> HIDE DEF place
    <2> QED
      BY <2>1, <1>2, OneEntryAtAPlace
  <1> HIDE DEF place
  <1>7. f \in [room -> 1..Len(b)]
    <2>1. \A x \in room : place(x[1]) + x[2] - 1 \in 1..Len(b)
      <3> TAKE x \in room
      <3>1. x[1] \in DOMAIN map /\ x[2] \in 1..Takes(x[1], map[x[1]])
        BY <1>4
      <3>2. place(x[1]) \in 1..Len(b) /\ Takes(x[1], map[x[1]]) \in Nat
            /\ place(x[1]) + Takes(x[1], map[x[1]]) - 1 <= Len(b)
        BY <3>1, <1>2, <1>6
      <3> QED
        BY <3>1, <3>2, <1>0
    <2> QED
      BY <2>1
  <1>8. \A x, y \in room : f[x] = f[y] => x = y
    <2> TAKE x, y \in room
    <2> HAVE f[x] = f[y]
    <2>1. /\ x[1] \in DOMAIN map /\ x[2] \in 1..Takes(x[1], map[x[1]]) /\ x = <<x[1], x[2]>>
          /\ y[1] \in DOMAIN map /\ y[2] \in 1..Takes(y[1], map[y[1]]) /\ y = <<y[1], y[2]>>
      BY <1>4
    <2>2. place(x[1]) + x[2] - 1 = place(y[1]) + y[2] - 1
      OBVIOUS
    <2>3. /\ place(x[1]) \in Nat /\ place(y[1]) \in Nat
          /\ Takes(x[1], map[x[1]]) \in Nat /\ Takes(y[1], map[y[1]]) \in Nat
      BY <2>1, <1>0, <1>2, <1>6
    <2>4. place(x[1]) = place(y[1])
      <3>1. ~(place(x[1]) < place(y[1]))
        BY <2>1, <2>2, <2>3, <1>6
      <3>2. ~(place(y[1]) < place(x[1]))
        BY <2>1, <2>2, <2>3, <1>6
      <3> QED
        BY <3>1, <3>2, <2>3
    <2>5. x[1] = y[1]
      BY <2>1, <2>4, <1>p
    <2>6. x[2] = y[2]
      BY <2>1, <2>2, <2>3, <2>4
    <2> QED
      BY <2>1, <2>5, <2>6
  <1>9. \A k \in 1..Len(b) : \E x \in room : f[x] = k
    <2> TAKE k \in 1..Len(b)
    <2>1. PICK n \in Names, v \in SetValues, p \in 1..k : HoldsAt(b, n, v, p) /\ k < p + Takes(n, v)
      BY DEF Packed
    <2>2. p \in 1..Len(b) /\ p \in Nat /\ k \in Nat
      BY <1>0
    <2>3. n \in DOMAIN map /\ map[n] = v
      BY <2>1, <2>2, <1>1
    <2>4. place(n) = p
      BY <2>1, <2>2, <2>3, <1>2 DEF Packed
    <2>5. k - p + 1 \in 1..Takes(n, v)
      BY <2>1, <2>2, <2>3, <1>6
    <2>6. <<n, k - p + 1>> \in room
      BY <2>3, <2>5, <1>5
    <2>7. f[<<n, k - p + 1>>] = k
      <3>1. f[<<n, k - p + 1>>] = place(n) + (k - p + 1) - 1
        BY <2>6
      <3> QED
        BY <3>1, <2>2, <2>4
    <2> QED
      BY <2>6, <2>7
  <1>10. ExistsBijection(room, 1..Len(b))
    <2> HIDE DEF f
    <2>1. f \in Bijection(room, 1..Len(b))
      BY <1>7, <1>8, <1>9, Fun_IsBij
    <2> QED
      BY <2>1 DEF ExistsBijection
  <1>11. Cardinality(room) = Len(b)
    BY <1>10, <1>0, Fun_ExistsBijSymmetric, FS_CountingElements
  <1> QED
    BY <1>11 DEF room, map

(* Where the shell finds an entry, one is. *)
LEMMA WhereFound ==
    ASSUME Packed(environment), NEW n \in Names, NEW p
    PROVE  (/\ p \in Entries /\ p + Len(n) <= Len(environment)
            /\ SubSeq(environment, p, p + Len(n) - 1) = n /\ environment[p + Len(n)] = Equals)
           <=> \E v \in SetValues : p \in 1..Len(environment) /\ HoldsAt(environment, n, v, p)
  <1> DEFINE b == environment
  <1>b. b \in Seq(EnvironmentBytes) /\ Len(b) \in Nat
    BY DEF Packed
  <1>n. n \in Seq(EnvironmentBytes) /\ Len(n) \in Nat
    BY NameTyped
  <1>1. ASSUME p \in Entries, p + Len(n) <= Len(b), SubSeq(b, p, p + Len(n) - 1) = n, b[p + Len(n)] = Equals
        PROVE  \E v \in SetValues : p \in 1..Len(b) /\ HoldsAt(b, n, v, p)
    <2>1. p \in 1..Len(b) /\ (p = 1 \/ b[p - 1] = Nul)
      BY <1>1, <1>b, <1>n DEF Entries
    <2>2. PICK m \in Names, w \in SetValues : HoldsAt(b, m, w, p)
      BY <2>1, StartHoldsEntry
    <2>3. \A k \in p..(p + Len(n) - 1) : b[k] = n[k - p + 1]
      <3> TAKE k \in p..(p + Len(n) - 1)
      <3>1. k - p + 1 \in 1..Len(n) /\ p + (k - p + 1) - 1 = k /\ p + Len(n) - 1 <= Len(b)
        BY <2>1, <1>1, <1>b, <1>n
      <3>2. \A i \in 1..Len(n) : SubSeq(b, p, p + Len(n) - 1)[i] = b[p + i - 1]
        BY <2>1, <1>1, <1>b, <1>n
      <3> QED
        BY <3>1, <3>2, <1>1
    <2>4. Spells(b, n, p) /\ Spells(b, m, p) /\ p \in Nat
      BY <1>1, <1>b, <2>1, <2>2, <2>3 DEF Spells, HoldsAt
    <2>5. n = m
      BY <2>4, OneNameAtAPlace
    <2> QED
      BY <2>1, <2>2, <2>5
  <1>2. ASSUME NEW v \in SetValues, p \in 1..Len(b), HoldsAt(b, n, v, p)
        PROVE  p \in Entries /\ p + Len(n) <= Len(b) /\ SubSeq(b, p, p + Len(n) - 1) = n /\ b[p + Len(n)] = Equals
    <2>v. v \in Values /\ Len(v) \in Nat
      BY ValueTyped DEF SetValues
    <2>1. p \in Entries
      <3>1. p = 1 \/ (p - 1 \in 1..Len(b) /\ b[p - 1] = Nul /\ (p - 1) + 1 = p)
        BY <1>2, <1>b DEF HoldsAt
      <3> QED
        BY <3>1 DEF Entries
    <2>2. p + Len(n) <= Len(b) /\ p + Len(n) - 1 <= Len(b)
      BY <1>2, <1>b, <1>n, <2>v DEF HoldsAt
    <2>3. SubSeq(b, p, p + Len(n) - 1) = n
      <3> DEFINE t == SubSeq(b, p, p + Len(n) - 1)
      <3>1. t \in Seq(EnvironmentBytes) /\ Len(t) = Len(n) /\ \A i \in 1..Len(n) : t[i] = b[p + i - 1]
        BY <1>2, <1>b, <1>n, <2>2
      <3>2. \A i \in 1..Len(n) : b[p + i - 1] = n[i]
        <4> TAKE i \in 1..Len(n)
        <4>1. p + i - 1 \in p..(p + Len(n) - 1) /\ (p + i - 1) - p + 1 = i
          BY <1>2, <1>b, <1>n
        <4> QED
          BY <4>1, <1>2 DEF HoldsAt
      <3> HIDE DEF t, b
      <3>3. t = n
        BY <3>1, <3>2, <1>n
      <3> QED
        BY <3>3 DEF t
    <2> QED
      BY <2>1, <2>2, <2>3, <1>2 DEF HoldsAt
  <1> QED
    BY <1>1, <1>2

(* The shell finds the entry of a name, and what it takes up. *)
LEMMA SettingFound ==
    ASSUME Packed(environment), NEW n \in Names, NEW v \in SetValues, NEW p \in 1..Len(environment),
           HoldsAt(environment, n, v, p)
    PROVE  EntryOf(n) = p /\ Defined(n) /\ SizeOf(n) = Takes(n, v)
  <1> DEFINE b == environment
             found == {q \in Entries : /\ q + Len(n) <= Len(b)
                                       /\ SubSeq(b, q, q + Len(n) - 1) = n
                                       /\ b[q + Len(n)] = Equals}
  <1>b. b \in Seq(EnvironmentBytes) /\ Len(b) \in Nat
    BY DEF Packed
  <1>n. Len(n) \in Nat
    BY NameTyped
  <1>v. v \in Values /\ v \in Seq(EnvironmentBytes) /\ Len(v) \in Nat
    BY ValueTyped DEF SetValues
  <1>1. found = {p}
    <2>1. p \in found
      BY WhereFound
    <2>2. \A q \in found : q = p
      <3> TAKE q \in found
      <3>1. \E w \in SetValues : q \in 1..Len(b) /\ HoldsAt(b, n, w, q)
        BY WhereFound
      <3> QED
        BY <3>1 DEF Packed
    <2> QED
      BY <2>1, <2>2
  <1>2. EntryOf(n) = IF found = {} THEN 0 ELSE CHOOSE q \in found : \A r \in found : q <= r
    BY DEF EntryOf
  <1> HIDE DEF found
  <1>3. EntryOf(n) = p
    <2>1. \E q \in found : \A r \in found : q <= r
      BY <1>1, <1>b
    <2> QED
      BY <2>1, <1>1, <1>2
  <1>4. Defined(n)
    BY <1>3 DEF Defined
  <1>5. Terminator(EntryOf(n)) = p + Takes(n, v) - 1
    <2>1. Terminator(EntryOf(n)) = EndOf(b, p)
      BY <1>3 DEF Terminator, EndOf
    <2> QED
      BY <2>1, <1>b, <1>v, EntryEnd
  <1>6. p + Takes(n, v) - 1 <= Len(b)
    BY <1>v, EntryInside
  <1>7. Len(envget(n)) = Len(v)
    <2>1. envget(n) = SubSeq(b, p + Len(n) + 1, (p + Takes(n, v) - 1) - 1)
      <3>1. envget(n) = SubSeq(environment, EntryOf(n) + Len(n) + 1, Terminator(EntryOf(n)) - 1)
        BY DEF envget
      <3> HIDE DEF b
      <3> QED
        BY <3>1, <1>3, <1>5, Zenon DEF b
    <2> QED
      BY <2>1, <1>6, <1>b, <1>n, <1>v DEF Takes
  <1>8. SizeOf(n) = Takes(n, v)
    BY <1>4, <1>7, <1>n, <1>v DEF SizeOf, Takes
  <1> QED
    BY <1>3, <1>4, <1>8

(* It finds none when there is none. *)
LEMMA SettingMissing ==
    ASSUME Packed(environment), NEW n \in Names,
           ~\E v \in SetValues, p \in 1..Len(environment) : HoldsAt(environment, n, v, p)
    PROVE  ~Defined(n)
  <1> DEFINE b == environment
             found == {q \in Entries : /\ q + Len(n) <= Len(b)
                                       /\ SubSeq(b, q, q + Len(n) - 1) = n
                                       /\ b[q + Len(n)] = Equals}
  <1>1. found = {}
    BY WhereFound
  <1>2. EntryOf(n) = IF found = {} THEN 0 ELSE CHOOSE q \in found : \A r \in found : q <= r
    BY DEF EntryOf
  <1> QED
    BY <1>1, <1>2 DEF Defined

(* An entry is one wherever its bytes are. *)
LEMMA EntryMoved ==
    ASSUME NEW b, NEW c, c \in Seq(EnvironmentBytes), NEW n \in Names, NEW v \in Values, NEW p, NEW d \in Int,
           HoldsAt(b, n, v, p), p + d >= 1, p + d + Takes(n, v) - 1 <= Len(c),
           p + d = 1 \/ c[p + d - 1] = Nul,
           \A k \in p..(p + Takes(n, v) - 1) : c[k + d] = b[k]
    PROVE  HoldsAt(c, n, v, p + d)
  <1>n. Len(n) \in Nat
    BY NameTyped
  <1>v. Len(v) \in Nat
    BY ValueTyped
  <1>p. p \in Nat /\ p >= 1 /\ Len(c) \in Nat
    BY DEF HoldsAt
  <1>t. Takes(n, v) = Len(n) + Len(v) + 2
    BY DEF Takes
  <1>1. p + d \in Nat \ {0} /\ p + d + Len(n) + Len(v) + 1 <= Len(c)
    BY <1>n, <1>v, <1>p, <1>t
  <1>2. \A k \in (p + d)..(p + d + Len(n) - 1) : c[k] = n[k - (p + d) + 1]
    <2> TAKE k \in (p + d)..(p + d + Len(n) - 1)
    <2>1. /\ k - d \in p..(p + Takes(n, v) - 1) /\ (k - d) + d = k
          /\ k - d \in p..(p + Len(n) - 1) /\ (k - d) - p + 1 = k - (p + d) + 1
      BY <1>n, <1>v, <1>p, <1>t
    <2>2. c[k] = b[k - d]
      BY <2>1
    <2> QED
      BY <2>1, <2>2 DEF HoldsAt
  <1>3. c[p + d + Len(n)] = Equals
    <2>1. p + Len(n) \in p..(p + Takes(n, v) - 1) /\ (p + Len(n)) + d = p + d + Len(n)
      BY <1>n, <1>v, <1>p, <1>t
    <2> QED
      BY <2>1 DEF HoldsAt
  <1>4. \A k \in (p + d + Len(n) + 1)..(p + d + Len(n) + Len(v)) : c[k] = v[k - (p + d) - Len(n)]
    <2> TAKE k \in (p + d + Len(n) + 1)..(p + d + Len(n) + Len(v))
    <2>0. k \in Int /\ k >= p + d + Len(n) + 1 /\ k <= p + d + Len(n) + Len(v)
      BY <1>n, <1>v, <1>p
    <2>1. /\ k - d \in p..(p + Takes(n, v) - 1) /\ (k - d) + d = k
          /\ k - d \in (p + Len(n) + 1)..(p + Len(n) + Len(v)) /\ (k - d) - p - Len(n) = k - (p + d) - Len(n)
      <3>1. k - d >= p + Len(n) + 1 /\ k - d <= p + Len(n) + Len(v) /\ (k - d) + d = k /\ k - d \in Int
        BY <2>0, <1>n, <1>v, <1>p
      <3>2. (k - d) - p - Len(n) = k - (p + d) - Len(n)
        BY <2>0, <1>n, <1>v, <1>p
      <3>3. k - d >= p /\ k - d <= p + Takes(n, v) - 1
        BY <3>1, <1>n, <1>v, <1>p, <1>t
      <3>4. k - d \in (p + Len(n) + 1)..(p + Len(n) + Len(v))
        BY <3>1, <1>n, <1>v, <1>p
      <3>5. k - d \in p..(p + Takes(n, v) - 1)
        BY <3>1, <3>3, <1>n, <1>v, <1>p, <1>t
      <3> QED
        BY <3>1, <3>2, <3>4, <3>5
    <2>2. c[k] = b[k - d]
      BY <2>1
    <2> QED
      BY <2>1, <2>2 DEF HoldsAt
  <1>5. c[p + d + Len(n) + Len(v) + 1] = Nul
    <2>1. /\ p + Len(n) + Len(v) + 1 \in p..(p + Takes(n, v) - 1)
          /\ (p + Len(n) + Len(v) + 1) + d = p + d + Len(n) + Len(v) + 1
      BY <1>n, <1>v, <1>p, <1>t
    <2> QED
      BY <2>1 DEF HoldsAt
  <1>6. PICK q : q = p + d
    OBVIOUS
  <1>7. /\ q \in Nat \ {0} /\ q + Len(n) + Len(v) + 1 <= Len(c)
        /\ c[q + Len(n)] = Equals /\ c[q + Len(n) + Len(v) + 1] = Nul
    BY <1>1, <1>3, <1>5, <1>6
  <1>8. /\ \A k \in q..(q + Len(n) - 1) : c[k] = n[k - q + 1]
        /\ \A k \in (q + Len(n) + 1)..(q + Len(n) + Len(v)) : c[k] = v[k - q - Len(n)]
    BY <1>2, <1>4, <1>6
  <1>9. q = 1 \/ c[q - 1] = Nul
    BY <1>p, <1>1, <1>6
  <1> QED
    BY <1>6, <1>7, <1>8, <1>9 DEF HoldsAt

(* What is left of the bytes when s of them go at p. *)
BytesLess(b, p, s) == SubSeq(b, 1, p - 1) \o SubSeq(b, p + s, Len(b))

(* The bytes before p stay in place and those after it move up. *)
LEMMA CutBytes ==
    ASSUME NEW b, b \in Seq(EnvironmentBytes), NEW p \in Nat, NEW s \in Nat, p >= 1, p + s - 1 <= Len(b)
    PROVE  /\ BytesLess(b, p, s) \in Seq(EnvironmentBytes) /\ Len(BytesLess(b, p, s)) = Len(b) - s
           /\ \A k \in 1..(p - 1) : BytesLess(b, p, s)[k] = b[k]
           /\ \A k \in p..(Len(b) - s) : BytesLess(b, p, s)[k] = b[k + s]
  <1> DEFINE l == SubSeq(b, 1, p - 1)
             r == SubSeq(b, p + s, Len(b))
             c == l \o r
  <1>0. Len(b) \in Nat
    OBVIOUS
  <1>1. l \in Seq(EnvironmentBytes) /\ Len(l) = p - 1 /\ \A k \in 1..(p - 1) : l[k] = b[k]
    BY <1>0
  <1>2. /\ r \in Seq(EnvironmentBytes) /\ Len(r) = Len(b) - s - p + 1
        /\ \A k \in 1..(Len(b) - s - p + 1) : r[k] = b[p + s + k - 1]
    BY <1>0
  <1> HIDE DEF l, r
  <1>3. c \in Seq(EnvironmentBytes) /\ Len(c) = Len(b) - s
    BY <1>0, <1>1, <1>2
  <1>4. \A k \in 1..(p - 1) : c[k] = b[k]
    BY <1>0, <1>1, <1>2
  <1>5. \A k \in p..(Len(b) - s) : c[k] = b[k + s]
    <2> TAKE k \in p..(Len(b) - s)
    <2>1. c[k] = r[k - (p - 1)]
      BY <1>0, <1>1, <1>2
    <2>2. k - (p - 1) \in 1..(Len(b) - s - p + 1) /\ p + s + (k - (p - 1)) - 1 = k + s
      BY <1>0
    <2> QED
      BY <2>1, <2>2, <1>2
  <1> QED
    BY <1>3, <1>4, <1>5 DEF BytesLess, c, l, r

(* The other entries stay when one goes. *)
LEMMA OthersStay ==
    ASSUME NEW b, Packed(b), NEW n \in Names, NEW v \in Values, NEW p, HoldsAt(b, n, v, p),
           NEW m \in Names, NEW w \in Values, NEW q, HoldsAt(b, m, w, q), q # p
    PROVE  /\ q < p => HoldsAt(BytesLess(b, p, Takes(n, v)), m, w, q)
           /\ q > p => q >= p + Takes(n, v) /\ HoldsAt(BytesLess(b, p, Takes(n, v)), m, w, q - Takes(n, v))
           /\ q \in Nat /\ q >= 1
  <1> DEFINE s == Takes(n, v)
             c == BytesLess(b, p, s)
  <1>b. b \in Seq(EnvironmentBytes) /\ Len(b) \in Nat
    BY DEF Packed
  <1>p. p \in Nat /\ p >= 1 /\ s \in Nat /\ s >= 2 /\ p + s - 1 <= Len(b) /\ b[p + s - 1] = Nul
    BY EntryInside
  <1>q. /\ q \in Nat /\ q >= 1 /\ Takes(m, w) \in Nat /\ Takes(m, w) >= 2 /\ q + Takes(m, w) - 1 <= Len(b)
        /\ q = 1 \/ b[q - 1] = Nul
    BY EntryInside DEF HoldsAt
  <1> HIDE DEF s
  <1>c. /\ c \in Seq(EnvironmentBytes) /\ Len(c) = Len(b) - s
        /\ \A k \in 1..(p - 1) : c[k] = b[k]
        /\ \A k \in p..(Len(b) - s) : c[k] = b[k + s]
    BY <1>b, <1>p, CutBytes
  <1> HIDE DEF c
  <1>1. ASSUME q < p PROVE HoldsAt(c, m, w, q)
    <2>1. q + Takes(m, w) <= p
      BY <1>1, EntriesApart
    <2>2. \A k \in q..(q + Takes(m, w) - 1) : c[k + 0] = b[k]
      <3> TAKE k \in q..(q + Takes(m, w) - 1)
      <3>1. k \in 1..(p - 1) /\ k + 0 = k
        BY <2>1, <1>q, <1>p
      <3> QED
        BY <3>1, <1>c
    <2>3. q + 0 = 1 \/ c[q + 0 - 1] = Nul
      <3>1. q # 1 => q - 1 \in 1..(p - 1) /\ q + 0 - 1 = q - 1
        BY <1>1, <1>q, <1>p
      <3> QED
        BY <3>1, <1>c, <1>q
    <2>4. q + 0 = q /\ q + 0 >= 1 /\ q + 0 + Takes(m, w) - 1 <= Len(c)
      BY <2>1, <1>q, <1>p, <1>c, <1>b
    <2>5. HoldsAt(c, m, w, q + 0)
      BY <2>2, <2>3, <2>4, <1>c, EntryMoved
    <2> QED
      BY <2>4, <2>5
  <1>2. ASSUME q > p PROVE q >= p + s /\ HoldsAt(c, m, w, q - s)
    <2>1. p + s <= q
      BY <1>2, EntriesApart, <1>p, <1>q DEF s
    <2> DEFINE d == 0 - s
    <2>d. d \in Int /\ q + d = q - s
      BY <1>p, <1>q
    <2>2. \A k \in q..(q + Takes(m, w) - 1) : c[k + d] = b[k]
      <3> TAKE k \in q..(q + Takes(m, w) - 1)
      <3>1. k - s \in p..(Len(b) - s) /\ (k - s) + s = k /\ k + d = k - s
        BY <2>1, <1>q, <1>p, <1>b
      <3> QED
        BY <3>1, <1>c
    <2>3. q + d = 1 \/ c[q + d - 1] = Nul
      <3>1. CASE q = p + s
        <4>1. p = 1 \/ (p - 1 \in 1..(p - 1) /\ b[p - 1] = Nul)
          BY <1>p DEF HoldsAt
        <4> QED
          BY <4>1, <3>1, <1>p, <1>c
      <3>2. CASE q > p + s
        <4>1. q - 1 - s \in p..(Len(b) - s) /\ (q - 1 - s) + s = q - 1 /\ q + d - 1 = q - 1 - s /\ q # 1
          BY <3>2, <1>q, <1>p, <1>b
        <4> QED
          BY <4>1, <1>c, <1>q
      <3> QED
        BY <3>1, <3>2, <2>1, <1>p, <1>q
    <2>4. q + d >= 1 /\ q + d + Takes(m, w) - 1 <= Len(c)
      BY <2>1, <2>d, <1>q, <1>p, <1>c, <1>b
    <2> HIDE DEF d
    <2>5. HoldsAt(c, m, w, q + d)
      BY <2>2, <2>3, <2>4, <2>d, <1>c, EntryMoved
    <2> QED
      BY <2>1, <2>d, <2>5
  <1> QED
    BY <1>1, <1>2, <1>q DEF c, s

(* What is an entry afterwards was one before. *)
LEMMA NoOthersCome ==
    ASSUME NEW b, Packed(b), NEW n \in Names, NEW v \in Values, NEW p, HoldsAt(b, n, v, p),
           NEW m \in Names, NEW w \in Values, NEW q, HoldsAt(BytesLess(b, p, Takes(n, v)), m, w, q)
    PROVE  /\ q < p => HoldsAt(b, m, w, q)
           /\ q >= p => HoldsAt(b, m, w, q + Takes(n, v))
           /\ q \in Nat /\ q >= 1 /\ q + Takes(m, w) - 1 <= Len(b) - Takes(n, v)
  <1> DEFINE s == Takes(n, v)
             c == BytesLess(b, p, s)
  <1>b. b \in Seq(EnvironmentBytes) /\ Len(b) \in Nat
    BY DEF Packed
  <1>p. p \in Nat /\ p >= 1 /\ s \in Nat /\ s >= 2 /\ p + s - 1 <= Len(b) /\ b[p + s - 1] = Nul
    BY EntryInside
  <1> HIDE DEF s
  <1>c. /\ c \in Seq(EnvironmentBytes) /\ Len(c) = Len(b) - s
        /\ \A k \in 1..(p - 1) : c[k] = b[k]
        /\ \A k \in p..(Len(b) - s) : c[k] = b[k + s]
    BY <1>b, <1>p, CutBytes
  <1>e. HoldsAt(c, m, w, q)
    BY DEF c, s
  <1> HIDE DEF c
  <1>q. /\ q \in Nat /\ q >= 1 /\ Takes(m, w) \in Nat /\ Takes(m, w) >= 2 /\ q + Takes(m, w) - 1 <= Len(c)
        /\ q = 1 \/ c[q - 1] = Nul
    BY <1>e, EntryInside DEF HoldsAt
  <1>1. ASSUME q < p PROVE HoldsAt(b, m, w, q)
    <2>1. q \in 1..Len(b) /\ (q = 1 \/ b[q - 1] = Nul)
      <3>1. q # 1 => q - 1 \in 1..(p - 1)
        BY <1>1, <1>q, <1>p
      <3> QED
        BY <3>1, <1>c, <1>q, <1>p, <1>b
    <2>2. PICK i \in Names, j \in SetValues : HoldsAt(b, i, j, q)
      BY <2>1, StartHoldsEntry
    <2>3. j \in Values
      BY DEF SetValues
    <2>4. HoldsAt(c, i, j, q)
      BY <1>1, <2>2, <2>3, <1>p, OthersStay DEF c, s
    <2>5. i = m /\ j = w
      BY <2>3, <2>4, <1>e, OneEntryAtAPlace
    <2> QED
      BY <2>2, <2>5
  <1>2. ASSUME q >= p PROVE HoldsAt(b, m, w, q + s)
    <2>r. PICK r \in Nat : r = q + s
      BY <1>q, <1>p
    <2>1. r \in 1..Len(b) /\ (r = 1 \/ b[r - 1] = Nul)
      <3>1. r \in 1..Len(b)
        BY <2>r, <1>q, <1>p, <1>c, <1>b
      <3>2. CASE q = p
        <4>1. r - 1 = p + s - 1
          BY <2>r, <3>2, <1>p, <1>q
        <4> QED
          BY <4>1, <3>1, <1>p
      <3>3. CASE q > p
        <4>1. q - 1 \in p..(Len(b) - s) /\ (q - 1) + s = r - 1 /\ q # 1
          BY <2>r, <3>3, <1>q, <1>p, <1>c, <1>b
        <4> QED
          BY <4>1, <3>1, <1>c, <1>q
      <3> QED
        BY <3>2, <3>3, <1>2, <1>q, <1>p
    <2>2. PICK i \in Names, j \in SetValues : HoldsAt(b, i, j, r)
      BY <2>1, StartHoldsEntry
    <2>3. j \in Values
      BY DEF SetValues
    <2>4. r > p /\ r # p /\ r - s = q
      BY <2>r, <1>2, <1>q, <1>p
    <2>5. HoldsAt(c, i, j, r - s)
      BY <2>2, <2>3, <2>4, OthersStay DEF c, s
    <2>6. i = m /\ j = w
      BY <2>3, <2>4, <2>5, <1>e, OneEntryAtAPlace
    <2> QED
      BY <2>r, <2>2, <2>6
  <1> QED
    BY <1>1, <1>2, <1>q, <1>c DEF s

(* An entry goes: the rest is packed, and is the other entries. *)
LEMMA EntryCut ==
    ASSUME NEW b, Packed(b), NEW n \in Names, NEW v \in SetValues, NEW p \in 1..Len(b), HoldsAt(b, n, v, p)
    PROVE  /\ Packed(BytesLess(b, p, Takes(n, v)))
           /\ Len(BytesLess(b, p, Takes(n, v))) = Len(b) - Takes(n, v)
           /\ \A m \in Names, w \in SetValues :
                (\E q \in 1..Len(BytesLess(b, p, Takes(n, v))) : HoldsAt(BytesLess(b, p, Takes(n, v)), m, w, q))
                <=> m # n /\ \E q \in 1..Len(b) : HoldsAt(b, m, w, q)
  <1> DEFINE s == Takes(n, v)
             c == BytesLess(b, p, s)
  <1>b. b \in Seq(EnvironmentBytes) /\ Len(b) \in Nat
    BY DEF Packed
  <1>v. v \in Values /\ \A w \in SetValues : w \in Values
    BY DEF SetValues
  <1>p. p \in Nat /\ p >= 1 /\ s \in Nat /\ s >= 2 /\ p + s - 1 <= Len(b)
    BY <1>v, EntryInside
  <1>t. \A m \in Names, w \in Values : Takes(m, w) \in Nat /\ Takes(m, w) >= 2
    BY NameTyped, ValueTyped DEF Takes
  <1> HIDE DEF s
  <1>c. c \in Seq(EnvironmentBytes) /\ Len(c) = Len(b) - s /\ Len(c) \in Nat
    BY <1>b, <1>p, CutBytes
  <1> HIDE DEF c
  <1>1. ASSUME NEW m \in Names, NEW w \in SetValues, NEW q, HoldsAt(b, m, w, q), q # p
        PROVE  /\ q < p => q \in 1..Len(c) /\ HoldsAt(c, m, w, q)
               /\ q > p => q - s \in 1..Len(c) /\ q - s >= p /\ HoldsAt(c, m, w, q - s)
               /\ q \in Nat /\ q >= 1 /\ q <= Len(b)
    <2>1. /\ q < p => HoldsAt(c, m, w, q)
          /\ q > p => q >= p + s /\ HoldsAt(c, m, w, q - s)
          /\ q \in Nat /\ q >= 1
      BY <1>1, <1>v, OthersStay DEF c, s
    <2>2. q + Takes(m, w) - 1 <= Len(b) /\ Takes(m, w) \in Nat /\ Takes(m, w) >= 2
      BY <1>1, <1>v, EntryInside
    <2>3. q < p => q \in 1..Len(c)
      BY <2>1, <1>p, <1>c, <1>b
    <2>4. q > p => q - s \in 1..Len(c) /\ q - s >= p
      BY <2>1, <2>2, <1>p, <1>c, <1>b
    <2> QED
      BY <2>1, <2>2, <2>3, <2>4, <1>b
  <1>2. ASSUME NEW m \in Names, NEW w \in SetValues, NEW q, HoldsAt(c, m, w, q)
        PROVE  /\ q < p => q \in 1..Len(b) /\ HoldsAt(b, m, w, q)
               /\ q >= p => q + s \in 1..Len(b) /\ HoldsAt(b, m, w, q + s)
               /\ q \in Nat
    <2>1. /\ q < p => HoldsAt(b, m, w, q)
          /\ q >= p => HoldsAt(b, m, w, q + s)
          /\ q \in Nat /\ q >= 1 /\ q + Takes(m, w) - 1 <= Len(b) - s
      BY <1>2, <1>v, NoOthersCome DEF c, s
    <2> QED
      BY <2>1, <1>p, <1>b, <1>v, <1>t
  <1>3. \A m \in Names, w \in SetValues : (\E q \in 1..Len(c) : HoldsAt(c, m, w, q))
                                          <=> m # n /\ \E q \in 1..Len(b) : HoldsAt(b, m, w, q)
    <2> TAKE m \in Names, w \in SetValues
    <2>1. ASSUME NEW q \in 1..Len(c), HoldsAt(c, m, w, q)
          PROVE  m # n /\ \E r \in 1..Len(b) : HoldsAt(b, m, w, r)
      <3>1. PICK r \in 1..Len(b) : HoldsAt(b, m, w, r) /\ r # p
        <4>1. CASE q < p
          BY <4>1, <2>1, <1>2, <1>p
        <4>2. CASE q >= p
          <5>1. q + s # p
            BY <4>2, <1>p, <1>c
          <5> QED
            BY <5>1, <4>2, <2>1, <1>2
        <4> QED
          BY <4>1, <4>2, <1>p, <1>c
      <3> QED
        BY <3>1 DEF Packed
    <2>2. ASSUME m # n, NEW q \in 1..Len(b), HoldsAt(b, m, w, q)
          PROVE  \E r \in 1..Len(c) : HoldsAt(c, m, w, r)
      <3>1. q # p
        BY <2>2, <1>v, OneEntryAtAPlace
      <3>2. q < p \/ q > p
        BY <3>1, <1>b, <1>p
      <3> QED
        BY <3>1, <3>2, <2>2, <1>1
    <2> QED
      BY <2>1, <2>2
  <1>4. Packed(c)
    <2>1. ASSUME NEW k \in 1..Len(c)
          PROVE  \E m \in Names, w \in SetValues, q \in 1..k : HoldsAt(c, m, w, q) /\ k < q + Takes(m, w)
      <3>1. CASE k < p
        <4>1. k \in 1..Len(b)
          BY <3>1, <1>b, <1>c, <1>p
        <4>2. PICK m \in Names, w \in SetValues, q \in 1..k : HoldsAt(b, m, w, q) /\ k < q + Takes(m, w)
          BY <4>1 DEF Packed
        <4>3. q < p /\ q # p
          BY <3>1, <4>1, <4>2, <1>p, <1>b
        <4> QED
          BY <4>2, <4>3, <1>1
      <3>2. CASE k >= p
        <4>1. k + s \in 1..Len(b) /\ k \in Nat
          BY <3>2, <1>b, <1>c, <1>p
        <4>2. PICK m \in Names, w \in SetValues, q \in 1..(k + s) : HoldsAt(b, m, w, q) /\ k + s < q + Takes(m, w)
          BY <4>1 DEF Packed
        <4>t. Takes(m, w) \in Nat /\ w \in Values /\ q \in Nat
          BY <1>v, <1>t, <4>1
        <4>3. q > p
          <5>1. ~(q < p)
            <6>1. q < p => q + Takes(m, w) <= p
              BY <4>2, <4>t, <1>v, EntriesApart
            <6> QED
              BY <6>1, <3>2, <4>1, <4>2, <4>t, <1>p
          <5>2. q # p
            <6>1. q = p => m = n /\ w = v
              BY <4>2, <4>t, <1>v, OneEntryAtAPlace
            <6>2. q = p => Takes(m, w) = s
              BY <6>1 DEF s
            <6> QED
              BY <6>2, <3>2, <4>1, <4>2, <4>t, <1>p
          <5> QED
            BY <5>1, <5>2, <4>t, <1>p
        <4>4. q # p /\ q - s \in 1..Len(c) /\ HoldsAt(c, m, w, q - s)
          BY <4>2, <4>3, <4>t, <1>p, <1>1
        <4>5. q - s \in 1..k /\ k < (q - s) + Takes(m, w)
          BY <4>1, <4>2, <4>4, <4>t, <1>p, <1>c
        <4> QED
          BY <4>4, <4>5
      <3> QED
        BY <3>1, <3>2, <1>p, <1>c
    <2>2. ASSUME NEW m \in Names, NEW w \in SetValues, NEW x \in SetValues, NEW q \in 1..Len(c), NEW r \in 1..Len(c),
                 HoldsAt(c, m, w, q), HoldsAt(c, m, x, r)
          PROVE  q = r
      <3> DEFINE back(j) == IF j < p THEN j ELSE j + s
      <3>1. back(q) \in 1..Len(b) /\ HoldsAt(b, m, w, back(q))
        <4>1. q < p \/ q >= p
          BY <1>p, <1>c
        <4> QED
          BY <4>1, <2>2, <1>2
      <3>2. back(r) \in 1..Len(b) /\ HoldsAt(b, m, x, back(r))
        <4>1. r < p \/ r >= p
          BY <1>p, <1>c
        <4> QED
          BY <4>1, <2>2, <1>2
      <3>3. back(q) = back(r)
        <4> HIDE DEF back
        <4> QED
          BY <3>1, <3>2 DEF Packed
      <3> QED
        BY <3>3, <1>p, <1>c
    <2> QED
      BY <2>1, <2>2, <1>c DEF Packed
  <1> QED
    BY <1>3, <1>4, <1>c DEF c, s

(* SET's bytes for a name and a value. *)
EntryBytes(n, v) == n \o <<Equals>> \o v \o <<Nul>>

(* The bytes appended are an entry. *)
LEMMA BytesAppended ==
    ASSUME NEW b, b \in Seq(EnvironmentBytes), NEW n \in Names, NEW v \in Values
    PROVE  /\ b \o EntryBytes(n, v) \in Seq(EnvironmentBytes)
           /\ Len(EntryBytes(n, v)) = Takes(n, v) /\ EntryBytes(n, v) \in Seq(EnvironmentBytes)
           /\ Len(b \o EntryBytes(n, v)) = Len(b) + Takes(n, v)
           /\ \A k \in 1..Len(b) : (b \o EntryBytes(n, v))[k] = b[k]
           /\ b = <<>> \/ b[Len(b)] = Nul => HoldsAt(b \o EntryBytes(n, v), n, v, Len(b) + 1)
  <1> DEFINE e == EntryBytes(n, v)
             c == b \o e
             nl == Len(n)
             vl == Len(v)
             l == Len(b)
  <1>n. n \in Seq(EnvironmentBytes) /\ nl \in Nat
    BY NameTyped
  <1>v. v \in Seq(EnvironmentBytes) /\ vl \in Nat
    BY ValueTyped
  <1>s. Equals \in EnvironmentBytes /\ Nul \in EnvironmentBytes
    BY DEF EnvironmentBytes
  <1>l. l \in Nat
    OBVIOUS
  <1>t. Takes(n, v) = nl + vl + 2
    BY DEF Takes
  <1>e. /\ e \in Seq(EnvironmentBytes) /\ Len(e) = nl + vl + 2
        /\ \A k \in 1..nl : e[k] = n[k]
        /\ e[nl + 1] = Equals
        /\ \A k \in (nl + 2)..(nl + vl + 1) : e[k] = v[k - nl - 1]
        /\ e[nl + vl + 2] = Nul
    <2> DEFINE x == n \o <<Equals>>
               y == x \o v
    <2>1. /\ x \in Seq(EnvironmentBytes) /\ Len(x) = nl + 1
          /\ \A k \in 1..nl : x[k] = n[k]
          /\ x[nl + 1] = Equals
      BY <1>n, <1>s
    <2> HIDE DEF x
    <2>2. /\ y \in Seq(EnvironmentBytes) /\ Len(y) = nl + vl + 1
          /\ \A k \in 1..(nl + 1) : y[k] = x[k]
          /\ \A k \in (nl + 2)..(nl + vl + 1) : y[k] = v[k - (nl + 1)]
      BY <2>1, <1>n, <1>v
    <2> HIDE DEF y
    <2>3. e = y \o <<Nul>>
      BY DEF EntryBytes, y, x
    <2>4. /\ e \in Seq(EnvironmentBytes) /\ Len(e) = nl + vl + 2
          /\ \A k \in 1..(nl + vl + 1) : e[k] = y[k]
          /\ e[nl + vl + 2] = Nul
      <3> DEFINE yl == nl + vl + 1
      <3>1. yl \in Nat /\ Len(y) = yl /\ y \in Seq(EnvironmentBytes) /\ yl + 1 = nl + vl + 2
        BY <2>2, <1>n, <1>v
      <3> HIDE DEF yl, e
      <3>2. e \in Seq(EnvironmentBytes) /\ Len(e) = yl + 1 /\ (\A k \in 1..yl : e[k] = y[k]) /\ e[yl + 1] = Nul
        BY <3>1, <2>3, <1>s
      <3> QED
        BY <3>1, <3>2 DEF yl
    <2>5. \A k \in 1..nl : e[k] = n[k]
      BY <2>1, <2>2, <2>4, <1>n, <1>v
    <2>6. e[nl + 1] = Equals
      BY <2>1, <2>2, <2>4, <1>n, <1>v
    <2>7. \A k \in (nl + 2)..(nl + vl + 1) : e[k] = v[k - nl - 1]
      <3> TAKE k \in (nl + 2)..(nl + vl + 1)
      <3>1. k \in 1..(nl + vl + 1) /\ k - (nl + 1) = k - nl - 1
        BY <1>n, <1>v
      <3> QED
        BY <3>1, <2>2, <2>4
    <2> QED
      BY <2>4, <2>5, <2>6, <2>7
  <1> HIDE DEF e, l
  <1>c. /\ c \in Seq(EnvironmentBytes) /\ Len(c) = l + nl + vl + 2
        /\ \A k \in 1..l : c[k] = b[k]
        /\ \A k \in (l + 1)..(l + nl + vl + 2) : c[k] = e[k - l]
    <2> DEFINE el == nl + vl + 2
    <2>1. el \in Nat /\ e \in Seq(EnvironmentBytes) /\ Len(e) = el /\ l + el = l + nl + vl + 2
      BY <1>e, <1>l, <1>n, <1>v
    <2> HIDE DEF el
    <2>2. /\ c \in Seq(EnvironmentBytes) /\ Len(c) = l + el
          /\ \A k \in 1..l : c[k] = b[k]
          /\ \A k \in (l + 1)..(l + el) : c[k] = e[k - l]
      BY <2>1, <1>l DEF l
    <2> HIDE DEF c
    <2> QED
      BY <2>1, <2>2
  <1> HIDE DEF c
  <1>1. ASSUME b = <<>> \/ b[Len(b)] = Nul PROVE HoldsAt(c, n, v, l + 1)
    <2>1. l + 1 \in Nat \ {0} /\ (l + 1) + Len(n) + Len(v) + 1 <= Len(c)
      BY <1>c, <1>l, <1>n, <1>v
    <2>2. l = 0 \/ c[l] = Nul
      <3>1. b = <<>> => l = 0
        BY DEF l
      <3>2. b # <<>> => l \in 1..l
        BY <1>l DEF l
      <3> QED
        BY <3>1, <3>2, <1>1, <1>c DEF l
    <2>3. \A k \in (l + 1)..(l + 1 + Len(n) - 1) : c[k] = n[k - (l + 1) + 1]
      <3> TAKE k \in (l + 1)..(l + 1 + Len(n) - 1)
      <3>1. k \in (l + 1)..(l + nl + vl + 2) /\ k - l \in 1..nl /\ k - (l + 1) + 1 = k - l
        BY <1>l, <1>n, <1>v
      <3> QED
        BY <3>1, <1>c, <1>e
    <2>4. c[(l + 1) + Len(n)] = Equals
      <3>1. (l + 1) + Len(n) \in (l + 1)..(l + nl + vl + 2) /\ ((l + 1) + Len(n)) - l = nl + 1
        BY <1>l, <1>n, <1>v
      <3> QED
        BY <3>1, <1>c, <1>e
    <2>5. \A k \in ((l + 1) + Len(n) + 1)..((l + 1) + Len(n) + Len(v)) : c[k] = v[k - (l + 1) - Len(n)]
      <3> TAKE k \in ((l + 1) + Len(n) + 1)..((l + 1) + Len(n) + Len(v))
      <3>0. k \in Int /\ k >= l + nl + 2 /\ k <= l + nl + vl + 1
        BY <1>l, <1>n, <1>v
      <3>1. /\ k \in (l + 1)..(l + nl + vl + 2) /\ k - l \in (nl + 2)..(nl + vl + 1)
            /\ (k - l) - nl - 1 = k - (l + 1) - Len(n)
        BY <3>0, <1>l, <1>n, <1>v
      <3> QED
        BY <3>1, <1>c, <1>e
    <2>6. c[(l + 1) + Len(n) + Len(v) + 1] = Nul
      <3>1. /\ (l + 1) + Len(n) + Len(v) + 1 \in (l + 1)..(l + nl + vl + 2)
            /\ ((l + 1) + Len(n) + Len(v) + 1) - l = nl + vl + 2
        BY <1>l, <1>n, <1>v
      <3> QED
        BY <3>1, <1>c, <1>e
    <2>p. PICK p \in Nat : p = l + 1
      BY <1>l
    <2>7. HoldsAt(c, n, v, p)
      <3>1. p \in Nat \ {0} /\ p + Len(n) + Len(v) + 1 <= Len(c)
        BY <2>p, <2>1
      <3>2. p = 1 \/ c[p - 1] = Nul
        <4>1. p - 1 = l
          BY <2>p, <1>l
        <4> QED
          BY <2>p, <2>2, <4>1, <1>l
      <3>3. \A k \in p..(p + Len(n) - 1) : c[k] = n[k - p + 1]
        BY <2>p, <2>3
      <3>4. c[p + Len(n)] = Equals
        BY <2>p, <2>4
      <3>5. \A k \in (p + Len(n) + 1)..(p + Len(n) + Len(v)) : c[k] = v[k - p - Len(n)]
        BY <2>p, <2>5
      <3>6. c[p + Len(n) + Len(v) + 1] = Nul
        BY <2>p, <2>6
      <3> QED
        BY <3>1, <3>2, <3>3, <3>4, <3>5, <3>6 DEF HoldsAt
    <2> QED
      BY <2>p, <2>7
  <1>2. Len(c) = l + Takes(n, v) /\ Len(e) = Takes(n, v)
    BY <1>c, <1>e, <1>t, <1>l, <1>n, <1>v
  <1> QED
    BY <1>1, <1>2, <1>c, <1>e DEF c, e, l

(* The last byte in use ends an entry. *)
LEMMA LastEnds ==
    ASSUME NEW b, Packed(b)
    PROVE  b = <<>> \/ b[Len(b)] = Nul
  <1> SUFFICES ASSUME b # <<>> PROVE b[Len(b)] = Nul
    OBVIOUS
  <1>b. b \in Seq(EnvironmentBytes) /\ Len(b) \in Nat /\ Len(b) > 0
    BY DEF Packed
  <1> DEFINE k == Len(b)
  <1>1. k \in 1..Len(b)
    BY <1>b
  <1>2. PICK n \in Names, v \in SetValues, p \in 1..k : HoldsAt(b, n, v, p) /\ k < p + Takes(n, v)
    BY <1>1 DEF Packed
  <1>3. /\ b[p + Takes(n, v) - 1] = Nul /\ p + Takes(n, v) - 1 <= Len(b) /\ Takes(n, v) \in Nat
        /\ p \in Nat
    BY <1>2, EntryInside DEF SetValues
  <1>4. p + Takes(n, v) - 1 = k
    BY <1>b, <1>2, <1>3
  <1> QED
    BY <1>3, <1>4

(* An entry comes: the bytes are packed, and are the old entries and it. *)
LEMMA EntryAppended ==
    ASSUME NEW b, Packed(b), NEW n \in Names, NEW v \in SetValues,
           ~\E w \in SetValues, q \in 1..Len(b) : HoldsAt(b, n, w, q)
    PROVE  /\ Packed(b \o EntryBytes(n, v))
           /\ \A m \in Names, w \in SetValues :
                (\E q \in 1..Len(b \o EntryBytes(n, v)) : HoldsAt(b \o EntryBytes(n, v), m, w, q))
                <=> (m = n /\ w = v) \/ \E q \in 1..Len(b) : HoldsAt(b, m, w, q)
  <1> DEFINE c == b \o EntryBytes(n, v)
             l == Len(b)
             s == Takes(n, v)
  <1>b. b \in Seq(EnvironmentBytes) /\ l \in Nat
    BY DEF Packed
  <1>v. v \in Values /\ \A w \in SetValues : w \in Values
    BY DEF SetValues
  <1>t. \A m \in Names, w \in Values : Takes(m, w) \in Nat /\ Takes(m, w) >= 2
    BY NameTyped, ValueTyped DEF Takes
  <1>s. s \in Nat /\ s >= 2
    BY <1>t, <1>v
  <1>c. /\ c \in Seq(EnvironmentBytes) /\ Len(c) = l + s /\ \A k \in 1..l : c[k] = b[k]
        /\ HoldsAt(c, n, v, l + 1)
    BY <1>b, <1>v, LastEnds, BytesAppended
  <1> HIDE DEF c, s
  <1>1. ASSUME NEW m \in Names, NEW w \in SetValues, NEW q, HoldsAt(b, m, w, q)
        PROVE  q \in 1..l /\ HoldsAt(c, m, w, q)
    <2>1. /\ q \in Nat /\ q >= 1 /\ Takes(m, w) \in Nat /\ Takes(m, w) >= 2 /\ q + Takes(m, w) - 1 <= l
          /\ q = 1 \/ b[q - 1] = Nul
      BY <1>1, <1>v, EntryInside DEF HoldsAt
    <2>2. \A k \in q..(q + Takes(m, w) - 1) : c[k + 0] = b[k]
      <3> TAKE k \in q..(q + Takes(m, w) - 1)
      <3>1. k \in 1..l /\ k + 0 = k
        BY <2>1, <1>b
      <3> QED
        BY <3>1, <1>c
    <2>3. q + 0 = 1 \/ c[q + 0 - 1] = Nul
      <3>1. q # 1 => q - 1 \in 1..l /\ q + 0 - 1 = q - 1
        BY <2>1, <1>b
      <3> QED
        BY <3>1, <2>1, <1>c
    <2>4. q + 0 = q /\ q + 0 >= 1 /\ q + 0 + Takes(m, w) - 1 <= Len(c)
      BY <2>1, <1>b, <1>c, <1>s
    <2>5. HoldsAt(c, m, w, q + 0)
      BY <1>1, <1>v, <2>2, <2>3, <2>4, <1>c, EntryMoved
    <2> QED
      BY <2>1, <2>4, <2>5, <1>b
  <1>2. ASSUME NEW m \in Names, NEW w \in SetValues, NEW q, HoldsAt(c, m, w, q)
        PROVE  \/ m = n /\ w = v /\ q = l + 1
               \/ q \in 1..l /\ HoldsAt(b, m, w, q)
    <2>1. /\ q \in Nat /\ q >= 1 /\ Takes(m, w) \in Nat /\ Takes(m, w) >= 2 /\ q + Takes(m, w) - 1 <= l + s
          /\ q = 1 \/ c[q - 1] = Nul
      BY <1>2, <1>v, <1>c, EntryInside DEF HoldsAt
    <2>2. CASE q <= l
      <3>1. q \in 1..l /\ (q = 1 \/ b[q - 1] = Nul)
        <4>1. q # 1 => q - 1 \in 1..l
          BY <2>1, <2>2, <1>b
        <4> QED
          BY <4>1, <2>1, <2>2, <1>b, <1>c
      <3>2. PICK i \in Names, j \in SetValues : HoldsAt(b, i, j, q)
        BY <3>1, StartHoldsEntry
      <3>3. HoldsAt(c, i, j, q)
        BY <3>2, <1>1
      <3>4. i = m /\ j = w
        BY <3>3, <1>2, <1>v, OneEntryAtAPlace
      <3> QED
        BY <3>1, <3>2, <3>4
    <2>3. CASE q = l + 1
      BY <2>3, <1>2, <1>c, <1>v, OneEntryAtAPlace
    <2>4. CASE q > l + 1
      <3> DEFINE p == l + 1
      <3>1. HoldsAt(c, n, v, p) /\ p < q
        BY <2>4, <1>c
      <3> HIDE DEF p
      <3>2. p + Takes(n, v) <= q
        BY <3>1, <1>2, <1>v, EntriesApart
      <3> QED
        BY <3>2, <2>1, <1>b, <1>s DEF p, s
    <2> QED
      BY <2>1, <2>2, <2>3, <2>4, <1>b
  <1>3. l + 1 \in 1..Len(c) /\ \A q \in 1..l : q \in 1..Len(c)
    BY <1>b, <1>c, <1>s
  <1>4. \A m \in Names, w \in SetValues : (\E q \in 1..Len(c) : HoldsAt(c, m, w, q))
                                          <=> (m = n /\ w = v) \/ \E q \in 1..Len(b) : HoldsAt(b, m, w, q)
    BY <1>1, <1>2, <1>3, <1>c
  <1>5. Packed(c)
    <2>1. ASSUME NEW k \in 1..Len(c)
          PROVE  \E m \in Names, w \in SetValues, q \in 1..k : HoldsAt(c, m, w, q) /\ k < q + Takes(m, w)
      <3>1. CASE k <= l
        <4>1. k \in 1..Len(b)
          BY <3>1, <1>b, <1>c, <1>s
        <4>2. PICK m \in Names, w \in SetValues, q \in 1..k : HoldsAt(b, m, w, q) /\ k < q + Takes(m, w)
          BY <4>1 DEF Packed
        <4> QED
          BY <4>2, <1>1
      <3>2. CASE k > l
        <4>1. l + 1 \in 1..k /\ k < l + 1 + Takes(n, v)
          BY <3>2, <1>b, <1>c, <1>s DEF s
        <4> QED
          BY <4>1, <1>c
      <3> QED
        BY <3>1, <3>2, <1>b, <1>c, <1>s
    <2>2. ASSUME NEW m \in Names, NEW w \in SetValues, NEW x \in SetValues, NEW q \in 1..Len(c), NEW r \in 1..Len(c),
                 HoldsAt(c, m, w, q), HoldsAt(c, m, x, r)
          PROVE  q = r
      <3>1. \/ m = n /\ q = l + 1
            \/ q \in 1..l /\ HoldsAt(b, m, w, q)
        BY <2>2, <1>2
      <3>2. \/ m = n /\ r = l + 1
            \/ r \in 1..l /\ HoldsAt(b, m, x, r)
        BY <2>2, <1>2
      <3> QED
        BY <3>1, <3>2 DEF Packed
    <2> QED
      BY <2>1, <2>2, <1>c DEF Packed
  <1> QED
    BY <1>4, <1>5 DEF c

(* SET's answer to a name is the map with the name set anew, as long as it needs. *)
LEMMA SettingMade ==
    ASSUME Packed(environment), NEW n \in Names, NEW v \in Values, NEW e,
           e = IF v = <<>> THEN <<>> ELSE EntryBytes(n, v)
    PROVE  /\ Packed(RestOf(n) \o e)
           /\ MapOf(RestOf(n) \o e) = Environment!With(n, v)
           /\ Len(RestOf(n) \o e) = Len(environment) - SizeOf(n) + Len(e)
  <1> DEFINE b == environment
             r == RestOf(n)
             c == r \o e
             In(a, m, w) == \E q \in 1..Len(a) : HoldsAt(a, m, w, q)
  <1>b. b \in Seq(EnvironmentBytes) /\ Len(b) \in Nat
    BY DEF Packed
  <1>1. /\ Packed(r) /\ Len(r) = Len(b) - SizeOf(n) /\ SizeOf(n) \in Nat
        /\ \A m \in Names, w \in SetValues : In(r, m, w) <=> m # n /\ In(b, m, w)
    <2>1. CASE \E w \in SetValues, p \in 1..Len(b) : HoldsAt(b, n, w, p)
      <3>1. PICK w \in SetValues, p \in 1..Len(b) : HoldsAt(b, n, w, p)
        BY <2>1
      <3>2. EntryOf(n) = p /\ Defined(n) /\ SizeOf(n) = Takes(n, w)
        BY <3>1, SettingFound
      <3>3. r = BytesLess(b, p, Takes(n, w))
        BY <3>2 DEF RestOf, BytesLess
      <3>4. Takes(n, w) \in Nat
        BY NameTyped, ValueTyped DEF Takes, SetValues
      <3> HIDE DEF r
      <3> QED
        BY <3>1, <3>2, <3>3, <3>4, EntryCut
    <2>2. CASE ~\E w \in SetValues, p \in 1..Len(b) : HoldsAt(b, n, w, p)
      <3>1. ~Defined(n)
        BY <2>2, SettingMissing
      <3>2. r = b /\ SizeOf(n) = 0
        BY <3>1 DEF RestOf, SizeOf
      <3> QED
        BY <3>2, <2>2, <1>b
    <2> QED
      BY <2>1, <2>2
  <1> HIDE DEF r
  <1>r. r \in Seq(EnvironmentBytes) /\ Len(r) \in Nat
    BY <1>1 DEF Packed
  <1>2. /\ Packed(c) /\ Len(c) = Len(b) - SizeOf(n) + Len(e)
        /\ \A m \in Names, w \in SetValues : In(c, m, w) <=> (m = n /\ w = v) \/ (m # n /\ In(b, m, w))
    <2>1. CASE v = <<>>
      <3>1. c = r /\ Len(e) = 0
        BY <2>1, <1>r
      <3> HIDE DEF c
      <3> QED
        BY <3>1, <2>1, <1>1, <1>b DEF SetValues
    <2>2. CASE v # <<>>
      <3>1. v \in SetValues /\ e = EntryBytes(n, v)
        BY <2>2 DEF SetValues
      <3>2. ~\E w \in SetValues, q \in 1..Len(r) : HoldsAt(r, n, w, q)
        BY <1>1
      <3>3. /\ Packed(c)
            /\ \A m \in Names, w \in SetValues : In(c, m, w) <=> (m = n /\ w = v) \/ In(r, m, w)
        <4>1. c = r \o EntryBytes(n, v)
          BY <3>1
        <4>2. /\ Packed(r \o EntryBytes(n, v))
              /\ \A m \in Names, w \in SetValues :
                   (\E q \in 1..Len(r \o EntryBytes(n, v)) : HoldsAt(r \o EntryBytes(n, v), m, w, q))
                   <=> (m = n /\ w = v) \/ \E q \in 1..Len(r) : HoldsAt(r, m, w, q)
          BY <3>1, <3>2, <1>1, EntryAppended
        <4> HIDE DEF c
        <4> QED
          BY <4>1, <4>2
      <3>4. Len(c) = Len(r) + Len(e)
        BY <3>1, <1>r, BytesAppended
      <3> HIDE DEF c
      <3> QED
        BY <3>3, <3>4, <1>1
    <2> QED
      BY <2>1, <2>2
  <1> HIDE DEF c
  <1>3. /\ MapOf(b) = [m \in DOMAIN MapOf(b) |-> MapOf(b)[m]]
        /\ DOMAIN MapOf(b) = {m \in Names : \E w \in SetValues : In(b, m, w)}
        /\ \A m \in Names, w \in SetValues : In(b, m, w) => MapOf(b)[m] = w
    BY MapOfPacked
  <1>4. /\ MapOf(c) = [m \in DOMAIN MapOf(c) |-> MapOf(c)[m]]
        /\ DOMAIN MapOf(c) = {m \in Names : \E w \in SetValues : In(c, m, w)}
        /\ \A m \in Names, w \in SetValues : In(c, m, w) => MapOf(c)[m] = w
    BY <1>2, MapOfPacked
  <1> HIDE DEF b, In
  <1> DEFINE names == IF v = <<>> THEN DOMAIN MapOf(b) \ {n} ELSE DOMAIN MapOf(b) \cup {n}
  <1>5. DOMAIN MapOf(c) = names
    <2>1. \A m \in Names : m \in DOMAIN MapOf(c) <=> (m = n /\ v # <<>>) \/ (m # n /\ m \in DOMAIN MapOf(b))
      BY <1>2, <1>3, <1>4 DEF SetValues
    <2>2. DOMAIN MapOf(c) \subseteq Names /\ names \subseteq Names
      BY <1>3, <1>4
    <2>3. \A m \in Names : m \in names <=> (m = n /\ v # <<>>) \/ (m # n /\ m \in DOMAIN MapOf(b))
      OBVIOUS
    <2> QED
      BY <2>1, <2>2, <2>3
  <1>6. \A m \in DOMAIN MapOf(c) : MapOf(c)[m] = IF m = n THEN v ELSE MapOf(b)[m]
    <2> TAKE m \in DOMAIN MapOf(c)
    <2>1. PICK w \in SetValues : m \in Names /\ In(c, m, w)
      BY <1>4
    <2>2. MapOf(c)[m] = w
      BY <2>1, <1>4
    <2>3. (m = n /\ w = v) \/ (m # n /\ MapOf(b)[m] = w)
      BY <2>1, <1>2, <1>3
    <2> QED
      BY <2>2, <2>3
  <1>7. MapOf(c) = [m \in names |-> IF m = n THEN v ELSE MapOf(b)[m]]
    BY <1>4, <1>5, <1>6
  <1>8. MapOf(c) = Environment!With(n, v)
    BY <1>7 DEF Environment!With, b
  <1> QED
    BY <1>2, <1>8 DEF b, c, r

(* An empty environment is the map of nothing. *)
LEMMA NothingPacked ==
    Packed(<<>>) /\ MapOf(<<>>) = Environment!Nothing
  <1>1. Packed(<<>>)
    BY DEF Packed
  <1>2. /\ MapOf(<<>>) = [n \in DOMAIN MapOf(<<>>) |-> MapOf(<<>>)[n]]
        /\ DOMAIN MapOf(<<>>) = {}
    <2> DEFINE b == <<>>
    <2>1. Packed(b) /\ Len(b) = 0 /\ 1..0 = {}
      BY <1>1
    <2> HIDE DEF b
    <2>2. /\ MapOf(b) = [n \in DOMAIN MapOf(b) |-> MapOf(b)[n]]
          /\ DOMAIN MapOf(b) = {n \in Names : \E v \in SetValues, p \in 1..Len(b) : HoldsAt(b, n, v, p)}
      BY <2>1, MapOfPacked
    <2>3. DOMAIN MapOf(b) = {}
      BY <2>1, <2>2
    <2> QED
      BY <2>2, <2>3 DEF b
  <1> QED
    BY <1>1, <1>2 DEF Environment!Nothing

(* Inductive: what is in use is packed, and so is what a session saved; lines are commands. *)
EnvironmentInv ==
    /\ machine \in Machines /\ lines \in Seq(Commands)
    /\ Packed(environment)
    /\ session = NoSession \/ (session.valid = TRUE /\ Packed(session.environment))

(* What the session keeps. *)
KeptMap == IF session.valid THEN MapOf(session.environment) ELSE MapOf(<<>>)

(* SET is Set, or Refuse. *)
LEMMA SetSteps ==
    ASSUME EnvironmentInv, NEW n \in Names, NEW v \in Values, setcmd(n, v)
    PROVE  /\ Packed(environment')
           /\ \/ said' = <<"invalid">> /\ UNCHANGED environment
              \/ /\ Environment!Fits(Environment!With(n, v))
                 /\ said' = <<"set">> /\ MapOf(environment') = Environment!With(n, v)
              \/ /\ ~Environment!Fits(Environment!With(n, v))
                 /\ said' = <<"full", n, v>> /\ UNCHANGED environment
  <1> DEFINE e == IF v = <<>> THEN <<>> ELSE EntryBytes(n, v)
             c == RestOf(n) \o e
  <1>1. Packed(environment)
    BY DEF EnvironmentInv
  <1>2. /\ Packed(c) /\ MapOf(c) = Environment!With(n, v)
        /\ Len(c) = Len(environment) - SizeOf(n) + Len(e)
    BY <1>1, SettingMade
  <1>3. \/ said' = <<"invalid">> /\ UNCHANGED environment
        \/ ~Fitting(n, Len(e)) /\ said' = <<"full", n, v>> /\ UNCHANGED environment
        \/ Fitting(n, Len(e)) /\ said' = <<"set">> /\ environment' = c
    BY DEF setcmd, EntryBytes
  <1> HIDE DEF c, e
  <1>4. Environment!Fits(Environment!With(n, v)) <=> Fitting(n, Len(e))
    <2>1. Cardinality(Environment!Room(MapOf(c))) = Len(c)
      BY <1>2, RoomOfPacked
    <2>2. Environment!Cardinality(Environment!Room(MapOf(c))) = Cardinality(Environment!Room(MapOf(c)))
      BY DEF Environment!Cardinality, Cardinality
    <2> QED
      BY <2>1, <2>2, <1>2 DEF Environment!Fits, Fitting
  <1> QED
    BY <1>1, <1>2, <1>3, <1>4

(* What a command does to the environment and to the session. *)
LEMMA PerformSteps ==
    ASSUME EnvironmentInv, NEW command \in Commands, Perform(command)
    PROVE  /\ Packed(environment')
           /\ session' = session \/ session' = NoSession
              \/ (session'.valid = TRUE /\ session'.environment = environment /\ UNCHANGED environment)
           /\ command.op = "reboot" => lines' = <<>>
           /\ command.op # "run" \/ UNCHANGED said
           /\ command.op = "run" => UNCHANGED environment
           /\ command.op = "set" =>
                /\ UNCHANGED session /\ command.name \in Names /\ command.value \in Values
                /\ setcmd(command.name, command.value)
           /\ command.op = "reboot" => environment' = <<>> /\ said' = <<>> /\ UNCHANGED session
  <1>0. command.op \in {"set", "reboot", "run"}
        /\ (command.op = "set" => command.name \in Names /\ command.value \in Values)
    BY DEF Commands
  <1>1. CASE command.op = "set"
    <2>1. setcmd(command.name, command.value) /\ UNCHANGED session
      BY <1>1 DEF Perform
    <2>2. Packed(environment')
      BY <1>0, <1>1, <2>1, SetSteps
    <2> QED
      BY <1>0, <1>1, <2>1, <2>2
  <1>2. CASE command.op = "reboot"
    <2>1. environment' = <<>> /\ said' = <<>> /\ lines' = <<>> /\ UNCHANGED session
      BY <1>2 DEF Perform, bootstart, Reset
    <2> QED
      BY <1>2, <2>1, NothingPacked
  <1>3. CASE command.op = "run"
    <2>1. RunProgram
      BY <1>3 DEF Perform
    <2>2. UNCHANGED <<environment, said>> /\ session' \in {Saved, NoSession}
      BY <2>1 DEF RunProgram
    <2>3. Saved.valid = TRUE /\ Saved.environment = environment
      BY DEF Saved
    <2> QED
      BY <1>3, <2>2, <2>3 DEF EnvironmentInv
  <1> QED
    BY <1>0, <1>1, <1>2, <1>3

(* The invariant holds at power-on. *)
LEMMA EnvironmentInvStart ==
    StartInit => EnvironmentInv
  BY NothingPacked DEF StartInit, EnvironmentInv

(* What a step of startup, of the prompt or of a program means for the map. *)
LEMMA EnvironmentStep ==
    ASSUME EnvironmentInv, [StartNext]_startVars
    PROVE  EnvironmentInv' /\ [Environment!Next]_<<MapOf(environment), KeptMap, said>>
  <1> DEFINE Stay == UNCHANGED <<machine, lines, environment, session, said>>
             Kind == /\ Packed(environment')
                     /\ session' = NoSession \/ (session'.valid = TRUE /\ Packed(session'.environment))
  <1>s. session = NoSession \/ (session.valid = TRUE /\ Packed(session.environment))
    BY DEF EnvironmentInv
  <1>n. NoSession.valid = FALSE
    BY DEF NoSession
  <1>e. MapOf(<<>>) = Environment!Nothing /\ Packed(<<>>)
    BY NothingPacked
  <1>i. machine \in Machines /\ lines \in Seq(Commands) /\ Packed(environment)
    BY DEF EnvironmentInv
  <1>q. <<>> \in Seq(Commands)
    OBVIOUS
  <1>0. ASSUME Stay PROVE EnvironmentInv' /\ UNCHANGED <<MapOf(environment), KeptMap, said>>
    BY <1>0 DEF EnvironmentInv, KeptMap
  <1>p. ASSUME NEW command \in Commands, Perform(command)
        PROVE  Kind /\ [Environment!Next]_<<MapOf(environment), KeptMap, said>>
    <2>0. command.op \in {"set", "reboot", "run"}
      BY DEF Commands
    <2>1. CASE command.op = "set"
      <3> DEFINE n == command.name
                 v == command.value
      <3>1. n \in Names /\ v \in Values /\ setcmd(n, v) /\ UNCHANGED session
        BY <1>p, <2>1, PerformSteps
      <3> HIDE DEF n, v
      <3>2. /\ Packed(environment')
            /\ \/ said' = <<"invalid">> /\ UNCHANGED environment
               \/ /\ Environment!Fits(Environment!With(n, v))
                  /\ said' = <<"set">> /\ MapOf(environment') = Environment!With(n, v)
               \/ /\ ~Environment!Fits(Environment!With(n, v))
                  /\ said' = <<"full", n, v>> /\ UNCHANGED environment
        BY <3>1, SetSteps
      <3>3. KeptMap' = KeptMap
        BY <3>1 DEF KeptMap
      <3>4. Kind
        BY <3>1, <3>2, <1>s
      <3>5. Environment!Refuse \/ Environment!Set(n, v)
        BY <3>2, <3>3 DEF Environment!Refuse, Environment!Set, KeptMap
      <3> QED
        BY <3>1, <3>4, <3>5 DEF Environment!Next
    <2>2. CASE command.op = "reboot"
      <3>1. environment' = <<>> /\ said' = <<>> /\ UNCHANGED session
        BY <1>p, <2>2, PerformSteps
      <3>2. Environment!Forget
        BY <3>1, <1>e DEF Environment!Forget, KeptMap
      <3> QED
        BY <3>1, <3>2, <1>e, <1>s DEF Environment!Next
    <2>3. CASE command.op = "run"
      <3>1. /\ UNCHANGED <<environment, said>>
            /\ \/ session' = NoSession
               \/ session' = session
               \/ session'.valid = TRUE /\ session'.environment = environment
        BY <1>p, <2>3, PerformSteps
      <3>2. Kind
        BY <3>1, <1>s, <1>i
      <3>3. CASE session' = NoSession
        <4>1. Environment!Lose
          BY <3>1, <3>3, <1>n, <1>e DEF Environment!Lose, KeptMap
        <4> QED
          BY <3>2, <4>1 DEF Environment!Next
      <3>4. CASE session' = session
        BY <3>1, <3>2, <3>4 DEF KeptMap
      <3>5. CASE session'.valid = TRUE /\ session'.environment = environment
        <4>1. Environment!Keep
          BY <3>1, <3>5 DEF Environment!Keep, KeptMap
        <4> QED
          BY <3>2, <4>1 DEF Environment!Next
      <3> QED
        BY <3>1, <3>3, <3>4, <3>5
    <2> QED
      BY <2>0, <2>1, <2>2, <2>3
  <1>1. CASE PowerOn
    <2>1. session' = NoSession /\ environment' = <<>> /\ said' = <<>> /\ lines' = <<>> /\ UNCHANGED machine
      BY <1>1 DEF PowerOn, bootstart, Reset
    <2>2. Environment!Restart
      BY <2>1, <1>n, <1>e DEF Environment!Restart, KeptMap
    <2>3. EnvironmentInv'
      BY <2>1, <1>e, <1>i DEF EnvironmentInv
    <2> QED
      BY <2>2, <2>3 DEF Environment!Next
  <1>2. CASE Search
    <2>1. UNCHANGED <<machine, environment, said, session>>
      BY <1>2 DEF Search
    <2>2. lines' \in Seq(Commands)
      <3>1. \/ UNCHANGED lines
            \/ /\ startdrive' \in DOMAIN machine.autoexec
               /\ lines' \in {machine.autoexec[startdrive'], <<>>}
        BY <1>2 DEF Search
      <3>2. \A d \in DOMAIN machine.autoexec : machine.autoexec[d] \in Seq(Commands)
        BY <1>i, StartupAssumption DEF StartupAssumption
      <3>3. CASE UNCHANGED lines
        BY <3>3, <1>i
      <3>4. CASE startdrive' \in DOMAIN machine.autoexec /\ lines' \in {machine.autoexec[startdrive'], <<>>}
        <4>1. machine.autoexec[startdrive'] \in Seq(Commands)
          BY <3>2, <3>4
        <4> HIDE DEF Commands
        <4> QED
          BY <3>4, <4>1, <1>q
      <3> QED
        BY <3>1, <3>3, <3>4
    <2> QED
      BY <2>1, <2>2 DEF EnvironmentInv, KeptMap
  <1>3. CASE BatchLine
    <2>1. lines # <<>> /\ Perform(lines[1]) /\ (lines[1].op # "reboot" => lines' = Tail(lines)) /\ UNCHANGED machine
      BY <1>3 DEF BatchLine
    <2>2. lines[1] \in Commands /\ Tail(lines) \in Seq(Commands)
      BY <2>1, <1>i
    <2>3. lines' \in Seq(Commands)
      <3>1. lines[1].op = "reboot" => lines' = <<>>
        BY <2>1, <2>2, PerformSteps
      <3> QED
        BY <2>1, <2>2, <3>1, <1>q
    <2>4. Kind /\ [Environment!Next]_<<MapOf(environment), KeptMap, said>>
      BY <2>1, <2>2, <1>p
    <2> QED
      BY <2>1, <2>3, <2>4, <1>i DEF EnvironmentInv
  <1>4. CASE StopBatch
    <2>1. lines' = <<>> /\ UNCHANGED <<machine, environment, session, said>>
      BY <1>4 DEF StopBatch
    <2> QED
      BY <2>1 DEF EnvironmentInv, KeptMap
  <1>5. CASE PromptCommand
    <2>1. PICK command \in Commands : Perform(command) /\ (command.op # "reboot" => UNCHANGED lines)
      BY <1>5 DEF PromptCommand
    <2>2. UNCHANGED machine
      BY <1>5 DEF PromptCommand
    <2>3. lines' \in Seq(Commands)
      <3>1. command.op = "reboot" => lines' = <<>>
        BY <2>1, PerformSteps
      <3> QED
        BY <2>1, <3>1, <1>i, <1>q
    <2>4. Kind /\ [Environment!Next]_<<MapOf(environment), KeptMap, said>>
      BY <2>1, <1>p
    <2> QED
      BY <2>2, <2>3, <2>4, <1>i DEF EnvironmentInv
  <1>6. CASE AfterBatch \/ StageGlyph \/ CommitCharset \/ CharsetFails \/ ApplySettings
    <2>1. Stay
      BY <1>6 DEF AfterBatch, StageGlyph, CommitCharset, CharsetFails, ApplySettings
    <2> QED
      BY <2>1, <1>0
  <1>7. CASE Resume
    <2>1. lines' = <<>> /\ UNCHANGED <<machine, session>>
      BY <1>7 DEF Resume
    <2>2. CASE session.valid /\ environment' = session.environment /\ UNCHANGED said
      <3>1. Packed(environment')
        BY <2>2, <1>s, <1>n
      <3>2. Environment!Recall
        BY <2>1, <2>2 DEF Environment!Recall, KeptMap
      <3> QED
        BY <2>1, <3>1, <3>2, <1>s, <1>i DEF Environment!Next, EnvironmentInv
    <2>3. CASE environment' = <<>> /\ said' = <<>>
      <3>1. Environment!Forget
        BY <2>1, <2>3, <1>e DEF Environment!Forget, KeptMap
      <3> QED
        BY <2>1, <2>3, <3>1, <1>e, <1>s, <1>i DEF Environment!Next, EnvironmentInv
    <2> QED
      BY <1>7, <2>2, <2>3 DEF Resume
  <1>8. CASE UNCHANGED startVars
    <2>1. Stay
      BY <1>8 DEF startVars
    <2> QED
      BY <2>1, <1>0
  <1> QED
    BY <1>1, <1>2, <1>3, <1>4, <1>5, <1>6, <1>7, <1>8 DEF StartNext

(* Power-on has no settings. *)
LEMMA EnvironmentStarts ==
    StartInit => Environment!Init
  BY NothingPacked DEF StartInit, Environment!Init, NoSession

(* SET, the batch, REBOOT and programs treat the packed bytes as a map from  *)
(* names to values: startup implements Variables.                          *)
THEOREM SettingsAreAMap == StartSpec => EnvironmentIsMap
  <1>1. EnvironmentInv /\ [StartNext]_startVars => EnvironmentInv'
    BY EnvironmentStep
  <1>2. EnvironmentInv /\ [StartNext]_startVars
        => [Environment!Next]_<<MapOf(environment), IF session.valid THEN MapOf(session.environment) ELSE MapOf(<<>>), said>>
    BY EnvironmentStep DEF KeptMap
  <1>3. StartInit => Environment!Init
    BY EnvironmentStarts
  <1> QED
    BY <1>1, <1>2, <1>3, EnvironmentInvStart, PTL DEF StartSpec, EnvironmentIsMap, Environment!Spec
================================================================================
