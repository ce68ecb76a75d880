------------------------------- MODULE MCSession -------------------------------
EXTENDS Session

CONSTANT Changed

MCValues == {Fresh, Changed}

(***************************************************************************)
(* The cartridge is new, or all generations but 0 have been used by saves  *)
(* that nothing disturbed, so that the next one wraps.                     *)
(***************************************************************************)
SavedAs(gen) ==
    [Empty EXCEPT !.head = "full", !.gen = gen, !.data = Defaults, !.crc = Defaults,
                  !.commit = TRUE]

Used == [i \in Slots |-> CASE i = 0 -> SavedAs(GENERATIONS - 1) [] i = 1 -> Empty
                           [] i = 2 -> SavedAs(GENERATIONS - 3) [] i = 3 -> SavedAs(GENERATIONS - 2)]

NewOrUsed ==
    \/ Init
    \/ /\ slots = Used
       /\ ss_slot = 0 /\ ss_failed = FALSE /\ ss_gen = GENERATIONS - 1 /\ ss_pos = SIZE /\ ss_crc = Defaults
       /\ shell = Defaults
       /\ request = "none" /\ valid = FALSE /\ token = NoToken /\ pending = FALSE
       /\ pc = "shell" /\ leaving = "exit" /\ taped = FALSE
       /\ departed = Defaults
       /\ newest = [slot |-> 0, data |-> Defaults]
       /\ flawed = FALSE /\ copied = FALSE

UsedSpec == NewOrUsed /\ [][Next]_vars
(***************************************************************************)
(* Variables that are set again before they are read: the driver's between *)
(* two operations, the token while it is not valid, and what an            *)
(* uncommitted slot holds beyond its header, unless it is the one being    *)
(* written.                                                                *)
(***************************************************************************)
InDriver == pc \in {"begin", "erase", "header", "write", "commit", "mark", "publish", "read"}

InUse(i) == InDriver /\ i = ss_slot
Legible(i) == Committed(i) \/ InUse(i)
Readable(i) == InUse(i) \/ i = newest.slot \/ (valid /\ i = token.slot)

Seen(i) ==
    LET kept == slots[i] IN
    IF Readable(i) THEN kept
    ELSE [kept EXCEPT !.data = <<>>, !.crc = <<>>, !.gen = IF Legible(i) THEN @ ELSE 0]

Rest ==
    <<newest, request, valid, pending, pc, copied,
      IF pc \in {"outside", "tape", "boot"} THEN <<>> ELSE shell,
      IF valid \/ InDriver \/ pc = "resumed" THEN departed ELSE <<>>,
      (InDriver \/ pc = "failed") /\ flawed,
      CASE InDriver -> <<ss_slot, ss_failed, ss_pos, ss_crc>>
        [] pc = "failed" -> <<ss_slot>>
        [] OTHER -> <<>>,
      IF InDriver \/ pc \in {"saved", "failed"} THEN leaving ELSE "",
      pc # "shell" /\ taped>>

(***************************************************************************)
(* Generations are only ever compared, by their distance on the circle, so *)
(* states that differ by a rotation of them behave alike.                  *)
(***************************************************************************)
View ==
    LET base == IF Last = None THEN 0 ELSE slots[Last].gen
        From(gen) == (gen - base) % GENERATIONS
    IN  <<[i \in Slots |-> [Seen(i) EXCEPT !.gen = IF Legible(i) THEN From(@) ELSE 0]],
          IF InDriver THEN From(ss_gen) ELSE 0,
          IF valid THEN [token EXCEPT !.gen = From(@)] ELSE NoToken, Rest>>
================================================================================
