------------------------------ MODULE MCJournal ------------------------------
EXTENDS JournalDurability, TLC

CONSTANTS ch1, ch2, x, y, a, b

OneByte == {<<x>>}
TwoBytes == {<<x>>, <<y>>}
Symmetry == Permutations(Names) \cup Permutations(Channels \ Listers)

(* The journal by itself: the files of the store are left alone where no   *)
(* property is about them.                                                 *)
AloneInit == Init /\ files = [n \in Names |-> {}]
AloneNext == Next /\ UNCHANGED files
AloneSpec ==
    AloneInit /\ [][AloneNext]_<<vars, files>> /\ WF_vars(Continue) /\ WF_vars(Mount)

(***************************************************************************)
(* States that differ only in                                              *)
(*   - a log that no step reads before it is erased (its side is neither   *)
(*     the newest sealed one, nor being written, nor open for reading), or *)
(*   - where the generations are on their circle (steps only compare and   *)
(*     increment them)                                                     *)
(* have the same future, and are explored once.                            *)
(***************************************************************************)
Written(s) == s = target /\ (writer # Idle \/ pc \in {"erase", "copy", "move", "seal", "activate"})
OpenOn(s) == \E ch \in Channels : channels[ch].kind = 1 /\ channels[ch].side = s

LogView ==
    [s \in Sides |-> IF s = Chosen \/ Written(s) \/ OpenOn(s) THEN cell[s] ELSE BlankLog]
AgeView ==
    [s \in Sides |-> IF Sealed(s) \/ Written(s)
                       THEN [sector[s] EXCEPT !.gen = (sector[Chosen].gen - @) % GENERATIONS]
                       ELSE NoSector]
View ==
    <<LogView, AgeView, mounted, active, heads, count, livebytes, tail, dirty, draftVars, cursorVars,
      channels, pc, job, error, localVars>>
=============================================================================
