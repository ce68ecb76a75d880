------------------------------- MODULE MCShell -------------------------------
EXTENDS Shell

CONSTANTS x, y

(* One name on each of three drives. *)
ThreeDrives == {<<8, 1>>, <<9, 1>>, <<10, 1>>}

(* Two names in one directory, and two directories with the same names. *)
OneDisk == {<<8, 1>>, <<8, 2>>}
TwoDirectories == {0, 8} \X {1, 2}

Lock(file) == [file EXCEPT !.locked = TRUE]

Unlocked == {New(<<x>>), New(<<y>>)}
OrLocked == {New(<<x>>), Lock(New(<<x>>))}

(***************************************************************************)
(* Between commands, the next one depends on the channels alone, and of    *)
(* the last one only the verdict on it counts.                             *)
(***************************************************************************)
Verdict ==
    <<MoveKeepsContents, CartridgeKeepsOld, SuccessIsReal, MoveDeletesSource, ConcatCombines>>

View ==
    IF pc = "shell"
      THEN <<files, chan, commandVars, Verdict, IF cachevalid THEN cacheVars ELSE <<>> >>
      ELSE <<channelVars, commandsVars>>
================================================================================
