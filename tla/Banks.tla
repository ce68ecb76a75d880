--------------------------------- MODULE Banks ---------------------------------
(***************************************************************************)
(* What the processor sees while the shell runs (src/banking.c,            *)
(* src/bank-gates.c, src/charset.s, src/easyflash/bridge.c; the hand-over  *)
(* in src/tape.c, src/cart.c and src/session.c).                           *)
(*                                                                         *)
(* Commands live in cartridge banks that share the window at $a000; the    *)
(* rest of the shell, its data included, lives in RAM up to $a000.  A gate *)
(* is the resident entry of a banked routine: it notes the bank in use,    *)
(* switches, calls and switches back.  The filesystem driver has a bank at *)
(* $8000, over the shell's own RAM, and keeps its flash routines and its   *)
(* state in the RAM of the default screen.                                 *)
(*                                                                         *)
(* A switch is one step: it is masked, and the KERNAL stays where an NMI   *)
(* finds it.  Bank registers cannot be read back; BANK_CURRENT is in RAM.  *)
(***************************************************************************)
EXTENDS Integers, Sequences

CONSTANTS
    Routines,  \* of the shell that call gates, or are behind one
    Gates,     \* those behind a gate
    Home,      \* gate -> the bank it enters, BANK_NONE to hide the cartridge
    Calls,     \* routine -> those it calls, directly or through RAM
    Callers,   \* routines that call the driver
    Chips      \* bound: banks the driver reads and programs

BANK_NONE == 255
DRIVER == 4
COPIER == 11

(* CPU port: RAM everywhere, character ROM, KERNAL, and KERNAL with ROM at *)
(* $8000.  Cartridge mode: hidden, and 16K.                                *)
RAM == 52
CHARACTERS == 49
KERNAL == 54
BOTH == 55
HIDDEN == 4
WINDOWS == 7

Banks == 0..63
Mappings == Banks \cup {BANK_NONE}

ASSUME BanksAssumption ==
    /\ Gates \subseteq Routines
    /\ Home \in [Gates -> Mappings]
    /\ Calls \in [Routines -> SUBSET Routines]
    /\ Callers \subseteq Routines
    /\ Chips \subseteq Banks
    /\ "main" \in Routines \ Gates
    /\ "charset_prepare" \in Gates /\ Home["charset_prepare"] = BANK_NONE

(***************************************************************************)
(* What bootstart() runs, directly or not, is none of the routines that    *)
(* main() starts with.  What bootsplash() calls calls nothing itself, uses *)
(* no font and no driver.                                                  *)
(***************************************************************************)
BootRoutines == Calls["bootstart"] \cup UNION {Calls[r] : r \in Calls["bootstart"]}
FontUsers == {"startupcharset", "session_save", "session_run"}

ASSUME BootAssumption ==
    /\ {"bootstart", "bootsplash"} \subseteq Routines
    /\ \A r \in BootRoutines : Calls[r] \subseteq BootRoutines
    /\ {"main", "bootstart", "bootsplash"} \cap (BootRoutines \cup Calls["bootsplash"]) = {}
    /\ \A r \in Calls["bootsplash"] \cup {"charset_prepare"} : Calls[r] = {} /\ r \notin Callers
    /\ Calls["bootsplash"] \cap FontUsers = {}
    /\ "main" \notin Callers /\ "bootsplash" \notin Callers

VARIABLES
    stack,     \* who called whom; previous: what the gate noted
    current,   \* BANK_CURRENT, $07f5
    bank,      \* $de00
    mode,      \* $de02
    port,      \* $01
    doing,     \* whose code: "code" (the routine on top of stack), "font", "driver", "chip", "gone"
    request,   \* what the driver is asked for
    vector,    \* is there an NMI vector beneath the KERNAL?
    low,       \* the RAM of the default screen has "driver" or "screen"
    base,      \* screenbase: "low" or "high"
    running    \* has the shell started?

mapVars == <<current, bank, mode, port>>
bankVars == <<stack, mapVars, doing, request, vector, low, base, running>>

(* previous is meaningful behind a gate; at: how far bootstart(),           *)
(* charset_prepare() and bootsplash() are.                                 *)
Steps == {"begin", "cleared", "prepared", "drawn", "mounted", "copied", "shown", "ended"}
Frame == [routine: Routines, previous: Mappings, at: Steps]
Top == stack[Len(stack)]
Runs(r) == doing = "code" /\ stack # <<>> /\ Top.routine = r

Started(r, previous) == [routine |-> r, previous |-> previous, at |-> "begin"]

-----------------------------------------------------------------------------
(* Switching                                                               *)

bank_leave(b) ==
    /\ current' = b /\ port' = KERNAL
    /\ IF b = BANK_NONE THEN mode' = HIDDEN /\ UNCHANGED bank
                        ELSE mode' = WINDOWS /\ bank' = b

(* What bank_enter() returns: BANK_CURRENT before the switch.              *)
bank_enter_Late(b) == b
bank_enter(b) == current

At(step) == stack' = [stack EXCEPT ![Len(stack)].at = step]

(* What a routine calls where it stands.  Before it has a display of its   *)
(* own, bootstart() only prepares one.                                     *)
MayCall(r) ==
    CASE Top.routine = "main" -> IF running THEN r # "bootsplash" ELSE r \in {"bootsplash", "bootstart"}
      [] Top.routine = "bootstart" -> Top.at = (IF r = "charset_prepare" THEN "cleared" ELSE "mounted")
      [] Top.routine = "bootsplash" -> Top.at = "begin" \/ ~running
      [] OTHER -> TRUE

Noting(r) ==
    IF r = "charset_prepare" THEN [stack EXCEPT ![Len(stack)].at = "prepared"] ELSE stack

CallRoutine ==
    /\ doing = "code" /\ stack # <<>>
    /\ \E r \in Calls[Top.routine] :
         /\ MayCall(r)
         /\ IF r \in Gates
              THEN /\ stack' = Append(Noting(r), Started(r, bank_enter(Home[r])))
                   /\ bank_leave(Home[r])
              ELSE /\ stack' = Append(Noting(r), Started(r, BANK_NONE))
                   /\ UNCHANGED mapVars
    /\ UNCHANGED <<doing, request, vector, low, base, running>>

Finished ==
    CASE Top.routine = "bootstart" -> Top.at = "mounted"
      [] Top.routine = "charset_prepare" -> Top.at = "copied"
      [] Top.routine = "bootsplash" -> Top.at # "shown" \/ ~running
      [] OTHER -> Top.routine \notin {"main", "session_basic"}

ReturnRoutine ==
    /\ doing = "code" /\ Len(stack) > 1 /\ Finished
    /\ stack' = SubSeq(stack, 1, Len(stack) - 1)
    /\ IF Top.routine \in Gates THEN bank_leave(Top.previous) ELSE UNCHANGED mapVars
    /\ running' = (running \/ Top.routine = "bootstart")
    /\ UNCHANGED <<doing, request, vector, low, base>>

-----------------------------------------------------------------------------
(* The font and the screen, beneath the KERNAL                             *)

(* charset_prepare(): no NMI may come to a KERNAL that is not there.       *)
vectorAfter_Kept == vector
vectorAfter == TRUE

FontPort(p) == doing' = "font" /\ port' = p /\ UNCHANGED <<current, bank, mode>>

PrepareFont ==
    /\ Runs("charset_prepare") /\ Top.at = "begin"
    /\ vector' = vectorAfter
    /\ FontPort(CHARACTERS)
    /\ At("copied")
    /\ UNCHANGED <<request, low, base, running>>

(* charset_commit(), session_fontread(), and charset_scroll() when a       *)
(* routine writes a line below the last one.                               *)
TouchFont ==
    /\ doing = "code" /\ stack # <<>>
    /\ Top.routine \in FontUsers \/ base = "high"
    /\ FontPort(RAM)
    /\ UNCHANGED <<stack, request, vector, low, base, running>>

FontDone ==
    /\ doing = "font"
    /\ doing' = "code" /\ port' = KERNAL
    /\ UNCHANGED <<stack, current, bank, mode, request, vector, low, base, running>>

-----------------------------------------------------------------------------
(* The driver                                                              *)

(* jsr $0880: the driver has its bank at $8000.                            *)
CallDriver ==
    /\ doing = "code" /\ stack # <<>>
    /\ \/ /\ Top.routine = "bootstart" /\ Top.at = "drawn" /\ request' = "init" /\ At("mounted")
       \/ /\ Top.routine \in Callers
          /\ Top.routine = "bootstart" => Top.at = "mounted"
          /\ request' = "work" /\ UNCHANGED stack
    /\ doing' = "driver"
    /\ port' = BOTH /\ mode' = WINDOWS /\ bank' = DRIVER
    /\ UNCHANGED <<current, vector, low, base, running>>

(* One byte is read or programmed, or a sector erased, by code in RAM.     *)
(* The first request copies the flash routines there.                      *)
UseChip ==
    /\ doing = "driver"
    /\ doing' = "chip"
    /\ IF request = "init" THEN bank' = 0 /\ low' = "driver"
                           ELSE bank' \in Chips /\ UNCHANGED low
    /\ UNCHANGED <<stack, current, mode, port, request, vector, base, running>>

ChipDone ==
    /\ doing = "chip"
    /\ doing' = "driver" /\ bank' = DRIVER
    /\ UNCHANGED <<stack, current, mode, port, request, vector, low, base, running>>

DriverDone ==
    /\ doing = "driver"
    /\ request = "init" => low = "driver"
    /\ doing' = "code" /\ port' = KERNAL
    /\ IF current = BANK_NONE THEN mode' = HIDDEN /\ UNCHANGED bank
                              ELSE bank' = current /\ UNCHANGED mode
    /\ request' = "none"
    /\ UNCHANGED <<stack, current, vector, low, base, running>>

-----------------------------------------------------------------------------
(* The default screen                                                      *)

(* bootstart(): the default screen is cleared while the font is prepared.  *)
ClearScreen ==
    /\ Runs("bootstart") /\ Top.at = "begin"
    /\ At("cleared") /\ low' = "screen" /\ base' = "low"
    /\ UNCHANGED <<mapVars, doing, request, vector, running>>

EnableScreen ==
    /\ Runs("bootstart") /\ Top.at = "prepared"
    /\ At("drawn") /\ base' = "high"
    /\ UNCHANGED <<mapVars, doing, request, vector, low, running>>

(* bootsplash(): SPLASH saves what is there, and puts it back.             *)
ShowSplash ==
    /\ Runs("bootsplash") /\ Top.at = "begin"
    /\ At("shown") /\ low' = "screen"
    /\ UNCHANGED <<mapVars, doing, request, vector, base, running>>

EndSplash_Bare == At("ended") /\ UNCHANGED low
EndSplash == At("ended") /\ low' = "driver"

HideSplash ==
    /\ Runs("bootsplash") /\ Top.at = "shown" /\ running
    /\ EndSplash
    /\ UNCHANGED <<mapVars, doing, request, vector, base, running>>

-----------------------------------------------------------------------------
(* Hand-over.  launch() hides the cartridge, session_basic() and           *)
(* cart_launch() leave that to what they jump to, which is in low RAM.     *)
Leave ==
    /\ doing' = "gone"
    /\ \/ Runs("session_basic") /\ UNCHANGED <<stack, mapVars, low>>
       \/ Runs("runcmd") /\ UNCHANGED <<stack, mapVars>> /\ low' = "screen"
       \/ Runs("runcmd") /\ bank_leave(BANK_NONE) /\ UNCHANGED stack /\ low' = "screen"
    /\ UNCHANGED <<request, vector, base, running>>

(* TAPECOPY: start() is banked code that goes to another bank.             *)
handoff ==
    /\ Runs("tapecopycmd") \/ Runs("tapecopy_report")
    /\ doing' = "gone"
    /\ current' = COPIER /\ bank' = COPIER /\ mode' = WINDOWS /\ port' = KERNAL
    /\ UNCHANGED <<stack, request, vector, low, base, running>>

-----------------------------------------------------------------------------
(* As the loader leaves it (src/easyflash/loader.c), the boot screen where *)
(* the driver will be.                                                     *)
BankInit ==
    /\ stack = <<Started("main", BANK_NONE)>>
    /\ current = BANK_NONE /\ bank = 0 /\ mode = HIDDEN /\ port = KERNAL
    /\ doing = "code" /\ request = "none" /\ vector = FALSE
    /\ low = "screen" /\ base = "low" /\ running = FALSE

BankNext ==
    \/ CallRoutine \/ ReturnRoutine \/ PrepareFont \/ TouchFont \/ FontDone
    \/ CallDriver \/ UseChip \/ ChipDone \/ DriverDone
    \/ ClearScreen \/ EnableScreen \/ ShowSplash \/ HideSplash \/ Leave \/ handoff

BankSpec == BankInit /\ [][BankNext]_bankVars
-----------------------------------------------------------------------------
(***************************************************************************)
(* Properties                                                              *)
(***************************************************************************)

InWindow(b) == mode = WINDOWS /\ bank = b
Visible(b) == port = KERNAL /\ IF b = BANK_NONE THEN mode = HIDDEN ELSE InWindow(b)

(* The mapping of the innermost banked routine among the first k; what it  *)
(* calls in RAM is given strings of its bank.                              *)
Needs(calls, k, b) ==
    \/ b = BANK_NONE /\ \A j \in 1..k : calls[j].routine \notin Gates
    \/ \E i \in 1..k :
         /\ calls[i].routine \in Gates /\ b = Home[calls[i].routine]
         /\ \A j \in (i + 1)..k : calls[j].routine \notin Gates

(* banking.c:9-33, bridge.c:35-46: whatever was called, and however deep,  *)
(* the code that runs is the code the processor sees: a banked routine has *)
(* its bank back when a call returns, the driver its own bank; and the     *)
(* cartridge is hidden when the character ROM is read.                     *)
CodeIsMapped ==
    /\ doing = "code" => \A b \in Mappings : Needs(stack, Len(stack), b) => Visible(b)
    /\ doing = "driver" => InWindow(DRIVER) /\ port = BOTH
    /\ doing = "font" /\ port = CHARACTERS => mode = HIDDEN

(* charset.s:8: an NMI cannot be masked.  It finds the KERNAL, or a vector *)
(* in the RAM beneath it; an interrupt of the shell's own code finds the   *)
(* KERNAL.                                                                 *)
InterruptsAreServed ==
    /\ port \notin {KERNAL, BOTH} => vector
    /\ doing # "font" => port \in {KERNAL, BOTH}

(* boot.c:311, cart.c:256: the driver's routines and state are where the   *)
(* default screen is.  Whoever shows that screen puts them back, or starts *)
(* the driver anew, before it is called again.                             *)
DriverIsWhole == doing \in {"driver", "chip"} /\ request # "init" => low = "driver"
================================================================================
