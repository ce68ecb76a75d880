----------------------------- MODULE SessionStore -----------------------------
(***************************************************************************)
(* The private session journal of the cartridge                            *)
(* (src/easyflash/session-store.h): PER slots on each of two flash chips,  *)
(* each holding one saved shell.  A save takes a blank slot; when there is *)
(* none, one chip is erased.  The commit byte is programmed last.  A       *)
(* restore accepts exactly the slot, generation and checksum it is given.  *)
(*                                                                         *)
(* An action is the code between two runs of flash operations; the bytes   *)
(* of one header, of one chunk and of one chip are programmed or erased in *)
(* one step.  A checksum is a perfect one: the payload it covers.          *)
(*                                                                         *)
(* A definition X_Slip is what X would be after a plausible slip in the    *)
(* code; the README says which property catches it.                        *)
(***************************************************************************)
EXTENDS Integers, Sequences, FiniteSets

CONSTANTS
    PER,          \* slots per chip (16)
    SIZE,         \* mailbox chunks of one session (SESSION_SIZE bytes)
    GENERATIONS,  \* 2^16
    Values,       \* what a chunk can hold
    Faults        \* may a flash operation report an error?

ASSUME SessionAssumption ==
    /\ PER \in Nat \ {0} /\ SIZE \in Nat \ {0}
    /\ GENERATIONS \in Nat /\ GENERATIONS % 2 = 0 /\ GENERATIONS > 4 * PER
    /\ Faults \in BOOLEAN

VARIABLES
    slots,     \* the flash
    ss_slot, ss_failed, ss_gen, ss_pos,
    ss_crc     \* the chunks received since BEGIN

storeVars == <<slots, ss_slot, ss_failed, ss_gen, ss_pos, ss_crc>>

Slots == 0..(2 * PER - 1)
Beside(i) == {j \in Slots : j \div PER = i \div PER}   \* the slots of i's chip
Generations == 0..(GENERATIONS - 1)

(***************************************************************************)
(* head: the 16 header bytes are blank, complete, or neither.  ruined: the *)
(* payload bytes were not blank before they were programmed.               *)
(***************************************************************************)
Header == {"blank", "full", "bad"}

Empty == [head |-> "blank", gen |-> 0, data |-> <<>>, crc |-> <<>>, commit |-> FALSE,
          ruined |-> FALSE]

(***************************************************************************)
(* What an erase that is interrupted leaves of each slot of its chip.  A   *)
(* chip first clears all of its bytes, one after the other, and then       *)
(* raises them together: while slots are still whole, none is blank yet.   *)
(***************************************************************************)
Phases == {{"kept", "bad"}, {"blank", "bad", "ruined"}}

Left(slot, how) ==
    CASE how = "kept"   -> slot
      [] how = "blank"  -> Empty
      [] how = "bad"    -> [Empty EXCEPT !.head = "bad"]
      [] how = "ruined" -> [Empty EXCEPT !.ruined = TRUE]

(* ss_header() *)
Committed(i) == slots[i].head = "full" /\ slots[i].commit

(* ss_check() against a checksum *)
Holds(i, crc) == ~slots[i].ruined /\ slots[i].data = crc

BlankSlots_Uncommitted == {i \in Slots : ~Committed(i)}
BlankSlots == {i \in Slots : slots[i].head = "blank"}

(***************************************************************************)
(* BEGIN looks for the newest committed slot by comparing 16-bit           *)
(* generations in circular order, in the order of the slots.  255 stands   *)
(* for none.                                                               *)
(***************************************************************************)
None == 2 * PER

Later_Linear(a, b) == a > b
Later(a, b) == a # b /\ (a - b) % GENERATIONS < GENERATIONS \div 2

Last ==
    LET newest[n \in 0..(2 * PER)] ==
          IF n = 0 THEN None
          ELSE LET best == newest[n - 1] IN
               IF Committed(n - 1) /\ (best = None \/ Later(slots[n - 1].gen, slots[best].gen))
                 THEN n - 1 ELSE best
    IN newest[2 * PER]

(* The chip to erase when no slot is blank. *)
Victim_Same(last) == IF last < PER THEN 0 ELSE PER
Victim(last) == IF last < PER THEN PER ELSE 0

NextGeneration(last) == ((IF last = None THEN 0 ELSE slots[last].gen) + 1) % GENERATIONS

First(i, S) == i \in S /\ \A j \in S : i <= j

BeginStatus_Latched == UNCHANGED ss_failed
BeginStatus == ss_failed' = FALSE

Begin ==
    /\ BeginStatus
    /\ ss_gen' = NextGeneration(Last)
    /\ ss_slot' \in Slots
    /\ IF BlankSlots # {} THEN First(ss_slot', BlankSlots) ELSE ss_slot' = Victim(Last)
    /\ ss_pos' = 0
    /\ ss_crc' = <<>>
    /\ UNCHANGED slots

Erase ==
    /\ slots' = [i \in Slots |-> IF i \in Beside(ss_slot) THEN Empty ELSE slots[i]]
    /\ UNCHANGED <<ss_slot, ss_failed, ss_gen, ss_pos, ss_crc>>

(* The erase stopped half way, by an error (failed) or by a reset. *)
EraseStops(error) ==
    /\ \E phase \in Phases : \E how \in [Beside(ss_slot) -> phase] :
         slots' = [i \in Slots |-> IF i \in Beside(ss_slot) THEN Left(slots[i], how[i])
                                                            ELSE slots[i]]
    /\ ss_failed' = error
    /\ UNCHANGED <<ss_slot, ss_gen, ss_pos, ss_crc>>

(* ss_put() does nothing once an operation has failed. *)
WithSlot(slot) == slots' = IF ss_failed THEN slots ELSE [slots EXCEPT ![ss_slot] = slot]
Slot == slots[ss_slot]

(* Signature, generation and size.  Bytes 0-7 over a header that was not   *)
(* blank leave it unreadable; so does a header that was not finished.      *)
PutHeader ==
    /\ WithSlot([Slot EXCEPT !.head = IF @ = "blank" THEN "full" ELSE "bad", !.gen = ss_gen])
    /\ UNCHANGED <<ss_slot, ss_failed, ss_gen, ss_pos, ss_crc>>

HeaderStops(error) ==
    /\ WithSlot([Slot EXCEPT !.head = "bad"])
    /\ ss_failed' = error
    /\ UNCHANGED <<ss_slot, ss_gen, ss_pos, ss_crc>>

Write(chunk) ==
    /\ ss_pos < SIZE
    /\ WithSlot([Slot EXCEPT !.data = Append(@, chunk)])
    /\ ss_pos' = ss_pos + 1
    /\ ss_crc' = Append(ss_crc, chunk)
    /\ UNCHANGED <<ss_slot, ss_failed, ss_gen>>

(* COMMIT up to its verification: every field and the payload are read     *)
(* back.                                                                   *)
Verified ==
    /\ ss_pos = SIZE
    /\ Slot.head = "full" /\ Slot.gen = ss_gen
    /\ Holds(ss_slot, ss_crc)

PutChecksum ==
    /\ WithSlot([Slot EXCEPT !.crc = ss_crc])
    /\ ss_failed' = ~Verified
    /\ UNCHANGED <<ss_slot, ss_gen, ss_pos, ss_crc>>

PutCommit ==
    /\ WithSlot([Slot EXCEPT !.commit = TRUE])
    /\ UNCHANGED <<ss_slot, ss_failed, ss_gen, ss_pos, ss_crc>>

(* A program operation reports an error; the slot stays without the bytes. *)
PutFails ==
    /\ Faults
    /\ ss_failed' = TRUE
    /\ UNCHANGED <<slots, ss_slot, ss_gen, ss_pos, ss_crc>>

(***************************************************************************)
(* RESTORE accepts only the exact token; it never looks for another slot.  *)
(***************************************************************************)
Accepts(token) ==
    /\ token.slot \in Slots
    /\ Committed(token.slot)
    /\ slots[token.slot].gen = token.gen
    /\ slots[token.slot].crc = token.crc
    /\ Holds(token.slot, token.crc)

Restore(token) ==
    /\ ss_slot' = token.slot
    /\ ss_gen' = token.gen
    /\ ss_failed' = ~Accepts(token)
    /\ ss_pos' = 0
    /\ UNCHANGED <<slots, ss_crc>>

Read(chunk) ==
    /\ ss_pos < SIZE /\ ~ss_failed
    /\ chunk = Slot.data[ss_pos + 1]
    /\ ss_pos' = ss_pos + 1
    /\ UNCHANGED <<slots, ss_slot, ss_failed, ss_gen, ss_crc>>
================================================================================
