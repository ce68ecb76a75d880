------------------------------- MODULE Variables -------------------------------
(***************************************************************************)
(* What SET promises (manual.txt, chapter 7): names have values, within a  *)
(* limit on what they take up together; a session keeps them.              *)
(***************************************************************************)
EXTENDS Integers, Sequences, FiniteSets

CONSTANTS
    Names, Values,  \* sequences of characters, a value possibly empty
    ENVSIZE

VARIABLES
    values,  \* name -> value
    kept,    \* what the session keeps
    answer   \* to the last SET

Nothing == [n \in {} |-> <<>>]
With(n, v) ==
    [m \in IF v = <<>> THEN DOMAIN values \ {n} ELSE DOMAIN values \cup {n} |->
       IF m = n THEN v ELSE values[m]]

(* The places a map fills: a name, its value and two more characters each. *)
Room(map) == UNION {{n} \X (1..Len(n) + Len(map[n]) + 2) : n \in DOMAIN map}
Fits(map) == Cardinality(Room(map)) <= ENVSIZE

Set(n, v) ==
    /\ IF Fits(With(n, v)) THEN answer' = <<"set">> /\ values' = With(n, v)
                           ELSE answer' = <<"full", n, v>> /\ UNCHANGED values
    /\ UNCHANGED kept
Refuse == answer' = <<"invalid">> /\ UNCHANGED <<values, kept>>
Forget == values' = Nothing /\ answer' = <<>> /\ UNCHANGED kept
Keep == kept' = values /\ UNCHANGED <<values, answer>>
Lose == kept' = Nothing /\ UNCHANGED <<values, answer>>
Restart == values' = Nothing /\ kept' = Nothing /\ answer' = <<>>
Recall == values' = kept /\ UNCHANGED <<kept, answer>>

Init == values = Nothing /\ kept = Nothing /\ answer = <<>>
Next ==
    \/ Keep \/ Lose \/ Recall \/ Forget \/ Restart \/ Refuse
    \/ \E n \in Names, v \in Values : Set(n, v)
Spec == Init /\ [][Next]_<<values, kept, answer>>
================================================================================
