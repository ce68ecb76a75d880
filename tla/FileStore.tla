------------------------------ MODULE FileStore ------------------------------
(***************************************************************************)
(* What the cartridge filesystem promises its callers, with no flash, log  *)
(* or index in sight.                                                      *)
(*                                                                         *)
(*   - A file is replaced as a whole, when its new contents are complete;  *)
(*     until then, and after any failure, the old file is the file.        *)
(*   - A rename moves a file and replaces the destination in one step.     *)
(*   - A read-only file is not replaced, renamed or deleted.               *)
(*   - An open reader keeps the contents it opened.                        *)
(*   - A loss of power loses open readers and the unfinished file, nothing *)
(*     else.                                                               *)
(*   - The files together never exceed the advertised capacity.            *)
(*                                                                         *)
(* An optional value is a set with at most one element.                    *)
(***************************************************************************)
EXTENDS Naturals, Sequences, FiniteSets

CONSTANTS Names, Channels, Chunks, MAXFILES, CAPACITY

VARIABLES
    files,    \* name -> its file, if any
    readers,  \* channel -> the contents it reads, if any
    draft     \* the file being written, if any

storeVars == <<files, readers, draft>>

Init ==
    /\ files = [n \in Names |-> {}]
    /\ readers = [f \in Channels |-> {}]
    /\ draft = {}

Exists(n) == files[n] # {}
Contents(n) == UNION {{x.data} : x \in files[n]}
Writable(n) == \A x \in files[n] : ~x.ro

Present(fs) == {n \in Names : fs[n] # {}}
(* The bytes of all files. *)
Size(fs) == Cardinality(UNION {{n} \X UNION {DOMAIN x.data : x \in fs[n]} : n \in Present(fs)})
Fits(fs) == Size(fs) <= CAPACITY /\ Cardinality(Present(fs)) <= MAXFILES

-----------------------------------------------------------------------------

Begin(n) ==
    /\ draft = {}
    /\ Writable(n)
    /\ draft' = {[name |-> n, data |-> <<>>]}
    /\ UNCHANGED <<files, readers>>

(* More contents: from the caller, or those of a file. *)
Extend ==
    \E d \in draft, bytes \in Chunks \cup UNION {Contents(n) : n \in Names} :
      /\ draft' = {[d EXCEPT !.data = @ \o bytes]}
      /\ UNCHANGED <<files, readers>>

Commit ==
    \E d \in draft :
      /\ Writable(d.name)
      /\ files' = [files EXCEPT ![d.name] = {[data |-> d.data, ro |-> FALSE]}]
      /\ Fits(files')
      /\ draft' = {}
      /\ UNCHANGED readers

Discard == draft # {} /\ draft' = {} /\ UNCHANGED <<files, readers>>

Delete(n) ==
    /\ draft = {} /\ Exists(n) /\ Writable(n)
    /\ files' = [files EXCEPT ![n] = {}]
    /\ UNCHANGED <<readers, draft>>

Move(new, old) ==
    /\ draft = {} /\ new # old /\ Exists(old) /\ Writable(old) /\ Writable(new)
    /\ files' = [files EXCEPT ![new] = files[old], ![old] = {}]
    /\ UNCHANGED <<readers, draft>>

Protect(n, flag) ==
    /\ draft = {} /\ Exists(n)
    /\ files' = [files EXCEPT ![n] = {[x EXCEPT !.ro = flag] : x \in @}]
    /\ UNCHANGED <<readers, draft>>

Open(f, n) ==
    /\ readers[f] = {} /\ Exists(n)
    /\ readers' = [readers EXCEPT ![f] = Contents(n)]
    /\ UNCHANGED <<files, draft>>

Release(f) ==
    /\ readers' = [readers EXCEPT ![f] = {}]
    /\ UNCHANGED <<files, draft>>

(* The unfinished file is given up from a channel that reads another one.  *)
Abandon(f) ==
    /\ draft # {} /\ draft' = {}
    /\ readers' = [readers EXCEPT ![f] = {}]
    /\ UNCHANGED files

PowerLoss ==
    /\ readers' = [f \in Channels |-> {}]
    /\ draft' = {}
    /\ UNCHANGED files

Next ==
    \/ \E n \in Names : Begin(n) \/ Delete(n)
    \/ Extend \/ Commit \/ Discard \/ PowerLoss
    \/ \E new \in Names, old \in Names : Move(new, old)
    \/ \E n \in Names, flag \in BOOLEAN : Protect(n, flag)
    \/ \E f \in Channels : Release(f) \/ Abandon(f) \/ \E n \in Names : Open(f, n)

Spec == Init /\ [][Next]_storeVars
=============================================================================
