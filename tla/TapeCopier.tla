------------------------------ MODULE TapeCopier ------------------------------
(***************************************************************************)
(* TAPECOPY's own program (src/easyflash/tape.c): it reads the files of a  *)
(* tape one after the other and writes the one the user wants to a device. *)
(* The shell is not there meanwhile (module Session).  copier names the    *)
(* request that comes next.  RUN/STOP may be pressed whenever the program  *)
(* looks, and a block on the tape may be bad.                              *)
(***************************************************************************)
EXTENDS Channels

CONSTANTS Tapes   \* what tapes there may be

(* A file has a name, a kind, and data: the blocks of a SEQ file, or the   *)
(* parts in which a program is written.                                    *)
Kinds == {"program", "data", "end", "unknown", "large"}

ASSUME TapeAssumption ==
    \A tape \in Tapes : \A i \in DOMAIN tape :
      tape[i].kind \in Kinds /\ tape[i].data \in Seq(Chunks) \ {<<>>}

VARIABLES
    copier,   \* the next request
    device,   \* where the file goes
    tape,     \* the files
    head,     \* <<file, block>> under the head
    search,   \* TAPE_SEARCH: the files that are asked about
    save,     \* is this file wanted?
    target,   \* its place
    left,     \* of a program that is in memory: what is still to be written
    opened,   \* is there something to clean up?
    outcome,  \* TAPE_RESULT
    old,      \* history: the files before
    unheard   \* history: the drive may have created a file and its answer was lost

tapeVars ==
    <<channelVars, copier, device, tape, head, search, save, target, left, opened, outcome, old,
      unheard>>

unused == <<commandVars, cacheVars, device, tape, old>>

-----------------------------------------------------------------------------
(* Steps                                                                   *)

Then(label) == copier' = label /\ UNCHANGED outcome
Because(reason) == copier' = "cleanup" /\ outcome' = reason

(* tape -> what readblock() finds at the head. *)
Current == tape[head[1]]
Rewound(i) == head' = <<i, 1>>

(* readblock(): a bad block, or RUN/STOP. *)
NoBlock == Because("read error") \/ Because("cancelled")

StartDrive ==
    /\ copier = "start"
    /\ \/ Then("header")
       \/ Troubles /\ device # Cart /\ Because("disk error")
    /\ UNCHANGED <<files, chan, unused, head, search, save, target, left, opened, unheard>>

(* At the end of the tape it goes on until RUN/STOP. *)
Header ==
    /\ copier = "header"
    /\ \/ NoBlock /\ UNCHANGED save
       \/ /\ head[1] \in DOMAIN tape
          /\ save' = FALSE
          /\ CASE Current.kind = "end"     -> Because("end of tape")
               [] Current.kind = "unknown" -> Because("unsupported")
               [] Current.kind = "large"   -> Because("too large")
               [] OTHER -> Then(IF Current.name \in search THEN "ask" ELSE "load")
    /\ UNCHANGED <<files, chan, unused, head, search, target, left, opened, unheard>>

(* Only the first file is searched for. *)
Ask ==
    /\ copier = "ask"
    /\ search' = {file.name : file \in {tape[i] : i \in DOMAIN tape}}
    /\ \/ save' = TRUE /\ Then("name")
       \/ save' = FALSE /\ Then("load")
       \/ Because("cancelled") /\ UNCHANGED save
    /\ UNCHANGED <<files, chan, unused, head, target, left, opened, unheard>>

(* filename(): a name that is taken is asked again; the drive also answers *)
(* that a file was never closed.                                           *)
Taken_Unasked(p) == FALSE
Taken(p) == Exists(p)

Ready == IF Current.kind = "data" THEN "open" ELSE "load"

ChooseName ==
    /\ copier = "name"
    /\ \/ Because("cancelled") /\ UNCHANGED target
       \/ \E p \in {p \in Places : Dev(p) = device} :
            \/ ~Taken(p) /\ target' = p /\ Then(Ready)
            \/ /\ Troubles \/ (\E x \in files[p] : ~x.closed)
               /\ Because("disk error") /\ UNCHANGED target
            \/ Taken(p) /\ UNCHANGED <<copier, outcome, target>>
    /\ UNCHANGED <<files, chan, unused, head, search, save, left, opened, unheard>>

(* A program is one block, and written in parts; a SEQ file is written     *)
(* block by block.                                                         *)
Load ==
    /\ copier = "load"
    /\ \/ /\ NoBlock \/ (Current.kind = "data" /\ Because("unsupported"))
          /\ UNCHANGED <<head, left>>
       \/ IF Current.kind = "program"
            THEN IF save THEN Then("open") /\ left' = Current.data /\ UNCHANGED head
                         ELSE Then("header") /\ Rewound(head[1] + 1) /\ UNCHANGED left
            ELSE /\ left' = <<Current.data[head[2]]>>
                 /\ IF save THEN Then("write") /\ UNCHANGED head
                    ELSE IF head[2] < Len(Current.data)
                      THEN Then("load") /\ head' = <<head[1], head[2] + 1>>
                      ELSE Then("header") /\ Rewound(head[1] + 1)
    /\ UNCHANGED <<files, chan, unused, search, save, target, opened, unheard>>

Created(p) ==
    IF Dev(p) = Cart THEN files ELSE [files EXCEPT ![p] = {[New(<<>>) EXCEPT !.closed = FALSE]}]

(* openoutput(): a drive that is full may leave a file behind. *)
FullLeaves_Nothing == FALSE
FullLeaves == TRUE

OpenOutput ==
    /\ copier = "open"
    /\ \/ /\ MayWrite(target, FALSE)
          /\ files' = Created(target) /\ chan' = [chan EXCEPT ![2] = Writing(target, <<>>)]
          /\ opened' = TRUE /\ UNCHANGED unheard
          /\ Then(IF Current.kind = "data" THEN "load" ELSE "write")
       \/ /\ Troubles \/ ~MayWrite(target, FALSE)
          /\ Because("write error")
          /\ UNCHANGED <<files, chan, opened, unheard>>
       \/ /\ Troubles /\ device # Cart /\ MayWrite(target, FALSE)
          /\ files' = [files EXCEPT ![target] = {New(<<>>)}] /\ UNCHANGED chan
          /\ Because("write error")
          /\ \/ opened' = FullLeaves /\ UNCHANGED unheard   \* 72, DISK FULL
             \/ unheard' = TRUE /\ UNCHANGED opened         \* no answer
    /\ UNCHANGED <<unused, head, search, save, target, left>>

(* writebytes() *)
Written ==
    CASE Len(left) > 1 -> Then("write") /\ UNCHANGED head
      [] Len(left) = 1 /\ Current.kind = "data" /\ head[2] < Len(Current.data) ->
           Then("load") /\ head' = <<head[1], head[2] + 1>>
      [] OTHER -> Then("finish") /\ UNCHANGED head

Write ==
    /\ copier = "write"
    /\ \/ /\ \/ /\ CanWrite(2)
                /\ files' = Stored(2, Head(left)) /\ chan' = [chan EXCEPT ![2] = Grown(2, Head(left))]
             \/ CanLose(2) /\ chan' = [chan EXCEPT ![2] = Lost(2)] /\ UNCHANGED files
          /\ left' = Tail(left)
          /\ Written \/ (Because("cancelled") /\ UNCHANGED head)
       \/ /\ WriteMayFail(2)
          /\ chan' = [chan EXCEPT ![2] = Lost(2)] /\ Because("write error")
          /\ UNCHANGED <<files, left, head>>
    /\ UNCHANGED <<unused, search, save, target, opened, unheard>>

(* finishoutput(): closed, and the device asked how it went. *)
Failed_Unasked(works) == FALSE
Failed(works) == ~works \/ chan[2].bad

FinishOutput ==
    /\ copier = "finish"
    /\ \E works \in {TRUE, ~Troubles} :
         /\ files' = Closed(2, works)
         /\ \/ ~Failed(works) /\ opened' = FALSE /\ Because("saved")
            \/ /\ Failed(works) \/ (Troubles /\ device # Cart)
               /\ copier' = "undo" /\ outcome' = "write error" /\ UNCHANGED opened
    /\ chan' = [chan EXCEPT ![2] = Idle]
    /\ UNCHANGED <<unused, head, search, save, target, left, unheard>>

(* cleanup(): the first to fail is told, and what could not be sent to the *)
(* drive is tried once more.                                               *)
Discard(after) ==
    \/ ~opened /\ copier' = after /\ UNCHANGED <<files, chan, opened, outcome>>
    \/ /\ opened /\ copier' = after
       /\ chan' = [chan EXCEPT ![2] = Idle]
       /\ \/ /\ device = Cart /\ UNCHANGED files
             /\ opened' = FALSE
             /\ UNCHANGED outcome \/ (Troubles /\ outcome' = "cleanup error")
          \/ /\ device # Cart
             /\ files' = Without(files, {target}) /\ opened' = FALSE
             /\ UNCHANGED outcome \/ (Troubles /\ outcome' = "cleanup error")
          \/ /\ device # Cart /\ Troubles
             /\ files' = Closed(2, TRUE) /\ opened' \in {FALSE, TRUE}
             /\ outcome' = "cleanup error"

Cleanup ==
    /\ \/ copier = "undo" /\ Discard("cleanup")
       \/ copier = "cleanup" /\ Discard("over")
    /\ UNCHANGED <<unused, head, search, save, target, left, unheard>>

-----------------------------------------------------------------------------
TapeInit ==
    /\ Powered
    /\ files \in [Places -> {{}, {New(<<>>)}}] /\ old = files
    /\ copier = "start" /\ device \in Devices /\ tape \in Tapes /\ head = <<1, 1>>
    /\ search \in SUBSET {file.name : file \in {tape[i] : i \in DOMAIN tape}}
    /\ save = FALSE /\ target = <<>> /\ left = <<>>
    /\ opened = FALSE /\ outcome = "none" /\ unheard = FALSE

TapeNext ==
    \/ StartDrive \/ Header \/ Ask \/ ChooseName \/ Load \/ OpenOutput \/ Write \/ FinishOutput
    \/ Cleanup

TapeSpec == TapeInit /\ [][TapeNext]_tapeVars
-----------------------------------------------------------------------------
(***************************************************************************)
(* Properties                                                              *)
(***************************************************************************)

(* TAPE_SAVED (tape.c:381): the file on the device is whole, and is the    *)
(* file that was under the head when the user said yes, all its blocks in  *)
(* order.                                                                  *)
SavedIsWhole == outcome = "saved" => Contents(files, target) = {Current.data}

(* tape.c:201 and 279: whatever happens, cleaning up included, a file that *)
(* was on the device before stays as it was.                               *)
OldFilesKept == \A p \in Places : old[p] # {} => files[p] = old[p]

(* tape.c:339: a transfer that did not end well leaves nothing behind but  *)
(* says so; where a drive created the file and its answer was lost, it     *)
(* does not.                                                               *)
NothingLeft ==
    copier = "over" /\ outcome \notin {"saved", "cleanup error"} /\ ~unheard => files = old
================================================================================
