-------------------------------- MODULE Session --------------------------------
(***************************************************************************)
(* Leaving the shell and coming back to it (src/session.c, the RUN and     *)
(* TAPECOPY commands, src/easyflash/wedge.c, the finish gate of            *)
(* src/easyflash/tape-bridge.c, and the start of main() in src/mcsdos.c),  *)
(* over the session journal of SessionStore.                               *)
(*                                                                         *)
(* The shell saves itself to flash, publishes a token in RAM at $C1E0 (the *)
(* RESUME descriptor) and gives the machine away.  It comes back through a *)
(* request byte in the same descriptor and restores the session the token  *)
(* names, or starts afresh.                                                *)
(*                                                                         *)
(* Reset keeps RAM and can happen between any two steps.  Programs outside *)
(* the shell, and a power cut, can leave anything in the descriptor except *)
(* the checksum of a session they never saw.                               *)
(***************************************************************************)
EXTENDS SessionStore

CONSTANTS Fresh   \* a chunk of the shell's state after bootstart()

ASSUME FreshAssumption == Fresh \in Values

VARIABLES
    shell,    \* the state a session saves, chunk by chunk
    request,  \* RESUME[0]: 0xa5 "shell", 0x54 "tape", anything else "none"
    valid,    \* RESUME[1] = 1
    token,    \* RESUME[2..6]
    pending,  \* TAPE_PENDING = 0x54
    pc,       \* what runs next
    leaving,  \* the command that is saving: "exit", "run" or "tape"
    taped,    \* main(): tape_resume
    departed, \* history: the state when the shell last began to leave
    newest,   \* history: the slot committed last, and what it held
    flawed,   \* history: a flash operation of this save reported an error
    copied    \* history: the tape copier finished since the shell left

machineVars == <<shell, request, valid, token, pending, pc, leaving, taped>>
historyVars == <<departed, newest, flawed, copied>>
vars == <<storeVars, machineVars, historyVars>>

Shell == [1..SIZE -> Values]
Defaults == [k \in 1..SIZE |-> Fresh]
NoToken == [slot |-> None, gen |-> 0, crc |-> <<>>]

Commands == {"exit", "run", "tape"}

Init ==
    /\ slots = [i \in Slots |-> Empty]
    /\ ss_slot = 0 /\ ss_failed = FALSE /\ ss_gen = 0 /\ ss_pos = 0 /\ ss_crc = <<>>
    /\ shell = Defaults
    /\ request = "none" /\ valid = FALSE /\ token = NoToken /\ pending = FALSE
    /\ pc = "shell" /\ leaving = "exit" /\ taped = FALSE
    /\ departed = Defaults
    /\ newest = [slot |-> None, data |-> <<>>]
    /\ flawed = FALSE
    /\ copied = FALSE

Goto(label) == pc' = label
Answer(label) == Goto(IF ss_failed' THEN "failed" ELSE label)

-----------------------------------------------------------------------------
(* Saving                                                                  *)

(* Commands change the shell. *)
Work ==
    /\ pc = "shell"
    /\ \E v \in Values : shell' = [k \in 1..SIZE |-> v]
    /\ UNCHANGED <<storeVars, request, valid, token, pending, pc, leaving, taped, historyVars>>

(***************************************************************************)
(* EXIT, RUN and TAPECOPY begin with bank_session_save(), and a yes to     *)
(* "another file?" after a tape transfer too.  The old token goes first.   *)
(***************************************************************************)
DropToken_Kept == UNCHANGED valid
DropToken == valid' = FALSE

Leave(command) ==
    /\ pc \in {"shell", "report"}
    /\ pc = "report" => command = "tape"
    /\ DropToken
    /\ leaving' = command
    /\ pending' = IF pc = "report" THEN FALSE ELSE pending
    /\ departed' = shell
    /\ flawed' = FALSE
    /\ copied' = FALSE
    /\ Goto("begin")
    /\ UNCHANGED <<storeVars, shell, request, token, taped, newest>>

Quietly ==
    UNCHANGED <<shell, request, valid, token, pending, leaving, taped, departed, newest, flawed,
                copied>>

SaveBegin ==
    /\ pc = "begin"
    /\ Begin
    /\ Goto(IF BlankSlots = {} THEN "erase" ELSE "header")
    /\ Quietly

SaveErase == pc = "erase" /\ Erase /\ Goto("header") /\ Quietly
SaveHeader == pc = "header" /\ PutHeader /\ Answer("write") /\ Quietly

(* statebyte() and session_fontread(), chunk by chunk *)
SaveWrite ==
    /\ pc = "write"
    /\ IF ss_pos = SIZE THEN Goto("commit") /\ UNCHANGED storeVars
                        ELSE Write(shell[ss_pos + 1]) /\ UNCHANGED pc
    /\ Quietly

SaveVerify ==
    /\ pc = "commit"
    /\ PutChecksum
    /\ Answer("mark")
    /\ Quietly

SaveMark ==
    /\ pc = "mark"
    /\ PutCommit
    /\ newest' = [slot |-> ss_slot, data |-> ss_crc]
    /\ Goto("publish")
    /\ UNCHANGED <<shell, request, valid, token, pending, leaving, taped, departed, flawed, copied>>

(* The token is copied, then declared valid. *)
Publish ==
    /\ pc = "publish"
    /\ token' = [slot |-> ss_slot, gen |-> ss_gen, crc |-> ss_crc]
    /\ valid' = TRUE
    /\ Goto("saved")
    /\ UNCHANGED <<storeVars, shell, request, pending, leaving, taped, historyVars>>

(* A flash operation of the save reports an error. *)
SaveFails ==
    /\ Faults
    /\ \/ pc = "erase"  /\ EraseStops(TRUE)
       \/ pc = "header" /\ HeaderStops(TRUE)
       \/ pc \in {"write", "commit", "mark"} /\ PutFails
    /\ Goto("failed")
    /\ flawed' = TRUE
    /\ UNCHANGED <<shell, request, valid, token, pending, leaving, taped, departed, newest, copied>>
-----------------------------------------------------------------------------
(* Away from the shell                                                     *)

Undisturbed == UNCHANGED <<storeVars, shell, valid, token, taped, departed, newest, flawed>>

(* installwedge() and the jump to BASIC or to the loader of a program. *)
GoAway ==
    /\ \/ pc = "saved"  /\ leaving \in {"exit", "run"}
       \/ pc = "failed" /\ leaving \in {"exit", "run"}    \* the user accepts the loss
    /\ request' = "none"
    /\ Goto("outside")
    /\ UNCHANGED <<pending, leaving, copied>>
    /\ Undisturbed

(* RUN of a cartridge program whose header cart_launch() refuses. *)
LaunchFails ==
    /\ pc \in {"saved", "failed"} /\ leaving = "run"
    /\ request' = "none"
    /\ Goto("shell")
    /\ UNCHANGED <<pending, leaving, copied>>
    /\ Undisturbed

(* The user does not accept the loss; TAPECOPY never goes on without one.  *)
StayHere ==
    /\ pc = "failed"
    /\ Goto("shell")
    /\ UNCHANGED <<request, pending, leaving, copied>>
    /\ Undisturbed

StartCopier ==
    /\ pc = "saved" /\ leaving = "tape"
    /\ pending' = TRUE
    /\ Goto("tape")
    /\ UNCHANGED <<request, leaving, copied>>
    /\ Undisturbed

(* The finish gate of the tape bridge *)
CopierEnds ==
    /\ pc = "tape"
    /\ request' = "tape"
    /\ copied' = TRUE
    /\ Goto("boot")
    /\ UNCHANGED <<pending, leaving>>
    /\ Undisturbed

(* SHELL in BASIC, or the end of a program: the wedge. *)
TypeShell ==
    /\ pc = "outside"
    /\ request' = "shell"
    /\ Goto("boot")
    /\ UNCHANGED <<pending, leaving, copied>>
    /\ Undisturbed

(* The worst descriptor a program can leave names a slot there is and the  *)
(* generation it has.  The tape bridge's request byte is not among them.   *)
Forged == {[slot |-> i, gen |-> slots[i].gen, crc |-> <<>>] : i \in Slots} \cup {NoToken}

Scribbled ==
    /\ request' \in {"none", "shell"}
    /\ valid' \in BOOLEAN
    /\ token' \in IF valid' THEN Forged ELSE {NoToken}
    /\ pending' \in BOOLEAN

(* A native program overwrites the descriptor. *)
Scribble ==
    /\ pc = "outside"
    /\ Scribbled
    /\ UNCHANGED <<storeVars, shell, pc, leaving, taped, historyVars>>
-----------------------------------------------------------------------------
(* Coming back                                                             *)

(* main() up to bootstart() *)
TapeResume_Pending == pending
TapeResume == request = "tape" /\ pending

Main ==
    /\ pc = "boot"
    /\ taped' = TapeResume
    /\ request' = "none"
    /\ pending' = (pending /\ TapeResume)
    /\ shell' = Defaults
    /\ Goto(IF request = "shell" \/ TapeResume THEN "restore" ELSE "shell")
    /\ UNCHANGED <<storeVars, valid, token, leaving, historyVars>>

Back == IF taped THEN "report" ELSE "shell"

RestoreBegin ==
    /\ pc = "restore"
    /\ IF valid THEN Restore(token) ELSE UNCHANGED storeVars
    /\ Goto(IF valid /\ Accepts(token) THEN "read" ELSE "cold")
    /\ UNCHANGED <<shell, request, valid, token, pending, leaving, taped, historyVars>>

(* stateput(), chunk by chunk *)
RestoreRead ==
    /\ pc = "read"
    /\ IF ss_pos = SIZE
         THEN Goto("resumed") /\ UNCHANGED <<storeVars, shell>>
         ELSE /\ \E v \in Values : Read(v) /\ shell' = [shell EXCEPT ![ss_pos + 1] = v]
              /\ UNCHANGED pc
    /\ UNCHANGED <<request, valid, token, pending, leaving, taped, historyVars>>

Resume ==
    /\ pc = "resumed"
    /\ Goto(Back)
    /\ UNCHANGED <<storeVars, shell, request, valid, token, pending, leaving, taped, historyVars>>

(* The session could not be restored: bootstart(0) again. *)
Cold ==
    /\ pc = "cold"
    /\ shell' = Defaults
    /\ Goto(Back)
    /\ UNCHANGED <<storeVars, request, valid, token, pending, leaving, taped, historyVars>>

(* bank_tapecopy_report(), without another transfer. *)
Report ==
    /\ pc = "report"
    /\ pending' = FALSE
    /\ Goto("shell")
    /\ UNCHANGED <<storeVars, shell, request, valid, token, leaving, taped, historyVars>>
-----------------------------------------------------------------------------
(* Reset and power                                                         *)

(* A chip erase or a header may stop half way. *)
FlashStops ==
    \/ pc = "erase" /\ EraseStops(FALSE)
    \/ pc = "header" /\ HeaderStops(FALSE)
    \/ UNCHANGED storeVars

Reset ==
    /\ pc # "boot"
    /\ FlashStops
    /\ Goto("boot")
    /\ copied' = FALSE
    /\ UNCHANGED <<shell, request, valid, token, pending, leaving, taped, departed, newest, flawed>>

PowerLoss ==
    /\ FlashStops
    /\ Scribbled
    /\ Goto("boot")
    /\ copied' = FALSE
    /\ UNCHANGED <<shell, leaving, taped, departed, newest, flawed>>

Save == SaveBegin \/ SaveErase \/ SaveHeader \/ SaveWrite \/ SaveVerify \/ SaveMark \/ Publish \/ SaveFails
Away == GoAway \/ LaunchFails \/ StayHere \/ StartCopier \/ CopierEnds \/ TypeShell \/ Scribble
Return == Main \/ RestoreBegin \/ RestoreRead \/ Resume \/ Cold \/ Report

Next ==
    \/ Work
    \/ \E command \in Commands : Leave(command)
    \/ Save
    \/ Away
    \/ Return
    \/ Reset
    \/ PowerLoss

Spec == Init /\ [][Next]_vars
-----------------------------------------------------------------------------
(***************************************************************************)
(* Properties                                                              *)
(***************************************************************************)

(* session.c:163 and session-store.h:147: a shell that comes back is the   *)
(* one that left last, whole: never an older session after a save that     *)
(* failed, never a mixture, whatever a program left in the descriptor.     *)
ResumesDeparture == pc = "resumed" => shell = departed

(* session-store.h:98: whatever is erased, interrupted or reported failed, *)
(* the session committed last stays committed with the state it saved.     *)
NewestKept ==
    newest.slot # None => Committed(newest.slot) /\ Holds(newest.slot, newest.data)

(* session-store.h:81-87 and 142-146: a save fails only when one of its    *)
(* own flash operations reported an error, or because an erase that was    *)
(* cut off had left a blank header over a payload that is not, which BEGIN *)
(* does not look at.  The save that meets such a slot uses it up, so that  *)
(* each costs one save and no more.                                        *)
FailuresExplained ==
    pc = "failed" => flawed \/ (Slot.ruined /\ Slot.head = "full")

(* mcsdos.c:32-33: the result of a tape transfer is reported only when the *)
(* copier has just handed the machine back.                                *)
ReportsAreReal == pc = "report" => copied
================================================================================
