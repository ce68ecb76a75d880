-------------------------------- MODULE Filters --------------------------------
(***************************************************************************)
(* TYPE and FIND (src/fileutil.c): a file passes through a small buffer to *)
(* the screen or, redirected, to another file.  TYPE /T reads the file     *)
(* twice; FIND reads it through two cursors, the first to find out about a *)
(* line, the second to show it, so that a line may have any length.        *)
(*                                                                         *)
(* A CR, an LF and a CR LF each end a line.  On the screen a full row ends *)
(* by itself ("nl"); pages, FIND's heading and TYPE /HEX are left out.     *)
(* RUN/STOP, a full destination and a page that is declined all stop the   *)
(* output where it is: "stopped".                                          *)
(***************************************************************************)
EXTENDS Integers, Sequences, FiniteSets
LOCAL INSTANCE SequencesExt

CONSTANTS
    Documents,  \* files: sequences of characters
    Wishes,     \* commands, with what they are given
    CARRIAGE, LINEFEED,
    BUFFER,     \* sizeof(io)
    COLUMNS,    \* of the screen
    Numerals    \* the numbers of lines, as they are printed: one column each

VARIABLES
    filter,    \* "off", "count", "show", "scan", "copy", "done"
    document, wish,
    here,      \* next byte of the first cursor
    there,     \* next byte of FIND's second cursor
    lastcr, skip,   \* was the byte before a CR? of each cursor
    selected, pending, wrapped,
    number,    \* lines seen
    before,     \* lines TYPE /T leaves out
    recent,    \* the end of the line, as long as FIND's text
    hit, total,
    ox,        \* column of the screen
    shown,     \* what has come out
    ended    \* "none", "whole", "stopped", "fault"

filterVars == <<filter, document, wish, here, there, lastcr, skip, selected, pending, wrapped, number, before,
                recent, hit, total, ox, shown, ended>>

Enders == {CARRIAGE, LINEFEED}
Redirected == wish.redirected

-----------------------------------------------------------------------------
(* outc(), newline(): what one character adds to the output.               *)
Out(c) ==
    IF Redirected
      THEN shown' = Append(shown, c) /\ UNCHANGED ox
      ELSE /\ shown' = (IF ox + 1 = COLUMNS THEN shown \o <<c, "nl">> ELSE Append(shown, c))
           /\ ox' = (ox + 1) % COLUMNS
Newline ==
    IF Redirected THEN shown' = Append(shown, CARRIAGE) /\ UNCHANGED ox
                  ELSE shown' = Append(shown, "nl") /\ ox' = 0

AtRefill(p) == (p - 1) % BUFFER = 0

-----------------------------------------------------------------------------
(* TYPE                                                                    *)

(* TYPE ends on a row of its own.                                          *)
EndType(how) ==
    /\ filter' = "done" /\ ended' = how
    /\ IF ~Redirected /\ ox # 0 THEN Newline ELSE UNCHANGED <<shown, ox>>
    /\ UNCHANGED <<document, wish, here, there, lastcr, skip, selected, pending, wrapped, number, before,
                   recent, hit, total>>

(* /T: the first pass.                                                     *)
CountByte ==
    /\ filter = "count" /\ here <= Len(document)
    /\ here' = here + 1
    /\ LET c == document[here]
       IN  /\ number' = IF c = CARRIAGE \/ (c = LINEFEED /\ ~lastcr) THEN number + 1 ELSE number
           /\ pending' = (c \notin Enders)
           /\ lastcr' = (c = CARRIAGE)
    /\ UNCHANGED <<filter, document, wish, there, skip, selected, wrapped, before, recent, hit, total, ox,
                   shown, ended>>

(* A line without an end is a line.                                        *)
LinesCounted_Ended == number
LinesCounted == IF pending THEN number + 1 ELSE number

Reopen ==
    /\ filter = "count" /\ here > Len(document)
    /\ filter' = "show" /\ here' = 1
    /\ before' = IF LinesCounted > wish.limit THEN LinesCounted - wish.limit ELSE 0
    /\ number' = 0 /\ lastcr' = FALSE
    /\ UNCHANGED <<document, wish, there, skip, selected, pending, wrapped, recent, hit, total, ox, shown, ended>>

(* One byte of the output.  The LF of a CR LF belongs to the line before.  *)
FeedOfReturn == document[here] = LINEFEED /\ lastcr
AfterLast == wish.command = "head" /\ number >= wish.limit

ShowFeed ==
    /\ filter = "show" /\ here <= Len(document) /\ FeedOfReturn
    /\ here' = here + 1 /\ lastcr' = FALSE
    /\ shown' = IF selected /\ Redirected THEN Append(shown, LINEFEED) ELSE shown
    /\ UNCHANGED <<filter, document, wish, there, skip, selected, pending, wrapped, number, before, recent, hit,
                   total, ox, ended>>

(* A full row has already moved on past the end of its line.               *)
SwallowEnd_Never(c) == FALSE
SwallowEnd(c) == c \in Enders /\ wrapped

ShowByte ==
    /\ filter = "show" /\ here <= Len(document) /\ ~FeedOfReturn /\ ~AfterLast
    /\ LET c == document[here]
       IN  /\ here' = here + 1 /\ lastcr' = (c = CARRIAGE)
           /\ selected' = (number >= before)
           /\ number' = IF c \in Enders THEN number + 1 ELSE number
           /\ IF ~selected' THEN UNCHANGED <<shown, ox, wrapped>>
              ELSE IF Redirected THEN Out(c) /\ UNCHANGED wrapped
              ELSE IF SwallowEnd(c) THEN wrapped' = FALSE /\ UNCHANGED <<shown, ox>>
              ELSE /\ IF c \in Enders THEN Newline ELSE Out(c)
                   /\ wrapped' = (c \notin Enders /\ ox' = 0)
    /\ UNCHANGED <<filter, document, wish, there, skip, pending, before, recent, hit, total, ended>>

TypeEnds ==
    \/ filter = "show" /\ (here <= Len(document) => ~FeedOfReturn /\ AfterLast) /\ EndType("whole")
    \/ filter \in {"count", "show"} /\ AtRefill(here) /\ \E how \in {"stopped", "fault"} : EndType(how)
    \/ filter = "show" /\ ~Redirected /\ shown # <<>> /\ ox = 0 /\ EndType("stopped")
    \/ filter = "show" /\ Redirected /\ EndType("stopped")

-----------------------------------------------------------------------------
(* FIND                                                                    *)

EndFind(how) == filter' = "done" /\ ended' = how

AllRead == here > Len(document)

(* A byte of the line goes through the window.                             *)
SearchByte ==
    /\ filter = "scan" /\ ~AllRead /\ document[here] \notin Enders
    /\ here' = here + 1 /\ lastcr' = FALSE /\ pending' = TRUE
    /\ LET n == Len(wish.text)
           window == Append(IF Len(recent) = n THEN Tail(recent) ELSE recent, document[here])
       IN  IF hit THEN UNCHANGED <<recent, hit>>
                  ELSE recent' = window /\ hit' = (window = wish.text)
    /\ UNCHANGED <<filter, document, wish, there, skip, selected, wrapped, number, before, total, ox, shown, ended>>

PassFeed ==
    /\ filter = "scan" /\ ~AllRead /\ FeedOfReturn
    /\ here' = here + 1 /\ lastcr' = FALSE
    /\ UNCHANGED <<filter, document, wish, there, skip, selected, pending, wrapped, number, before, recent, hit,
                   total, ox, shown, ended>>

(* The line ends, and is shown if it is one that is asked for.             *)
Hits_Stay == hit
Hits == wish.text = <<>>

LineEnds ==
    /\ filter = "scan"
    /\ IF AllRead THEN pending ELSE document[here] \in Enders /\ ~FeedOfReturn
    /\ lastcr' = (~AllRead /\ document[here] = CARRIAGE)
    /\ here' = here + 1
    /\ number' = number + 1
    /\ selected' = (hit # wish.invert)
    /\ total' = IF selected' THEN total + 1 ELSE total
    /\ pending' = FALSE /\ recent' = <<>> /\ hit' = Hits
    /\ filter' = IF wish.count THEN "scan" ELSE "copy"
    /\ IF ~wish.count /\ selected' /\ wish.numbered
         THEN shown' = Append(shown, Numerals[number']) /\ ox' = (IF Redirected THEN ox ELSE 1)
         ELSE UNCHANGED <<shown, ox>>
    /\ wrapped' = FALSE
    /\ UNCHANGED <<document, wish, there, skip, before, ended>>

(* The second cursor follows; a numbered line keeps to one row.  wrapped:  *)
(* has the row taken anything?                                             *)
Skipped_Not(d) == FALSE
Skipped(d) == d = LINEFEED /\ skip

RowFull == ~Redirected /\ wish.numbered /\ wrapped /\ ox = 0

CopyByte ==
    /\ filter = "copy" /\ there <= Len(document)
    /\ LET d == document[there]
       IN  /\ Skipped(d) \/ d \notin Enders
           /\ there' = there + 1 /\ skip' = FALSE
           /\ IF ~Skipped(d) /\ selected /\ ~RowFull THEN Out(d) /\ wrapped' = TRUE
                                                 ELSE UNCHANGED <<shown, ox, wrapped>>
    /\ UNCHANGED <<filter, document, wish, here, lastcr, selected, pending, number, before, recent, hit, total,
                   ended>>

LineCopied ==
    /\ filter = "copy"
    /\ there <= Len(document) => document[there] \in Enders /\ ~Skipped(document[there])
    /\ there' = there + 1
    /\ skip' = (there <= Len(document) /\ document[there] = CARRIAGE)
    /\ IF selected /\ (Redirected \/ ~(wrapped \/ wish.numbered) \/ ox # 0) THEN Newline ELSE UNCHANGED <<shown, ox>>
    /\ filter' = "scan"
    /\ UNCHANGED <<document, wish, here, lastcr, selected, pending, wrapped, number, before, recent, hit, total,
                   ended>>

FindEnds ==
    /\ \/ filter = "scan" /\ AllRead /\ ~pending /\ EndFind("whole")
       \/ filter = "scan" /\ here \in 2..Len(document) + 1 /\ EndFind("stopped")
       \/ filter = "scan" /\ here <= Len(document) + 1 /\ AtRefill(here) /\ EndFind("fault")
       \/ filter = "copy" /\ AtRefill(there) /\ EndFind("fault")
       \/ filter = "copy" /\ ~Redirected /\ wrapped /\ ox = 0 /\ EndFind("stopped")
       \/ filter = "copy" /\ Redirected /\ EndFind("stopped")
    /\ UNCHANGED <<document, wish, here, there, lastcr, skip, selected, pending, wrapped, number, before, recent,
                   hit, total, ox, shown>>

-----------------------------------------------------------------------------
FilterInit ==
    /\ document \in Documents /\ wish \in Wishes
    /\ filter = (CASE wish.command = "find" -> "scan" [] wish.command = "tail" -> "count" [] OTHER -> "show")
    /\ here = 1 /\ there = 1 /\ lastcr = FALSE /\ skip = FALSE
    /\ selected = TRUE /\ pending = FALSE /\ wrapped = FALSE
    /\ number = 0 /\ before = 0 /\ recent = <<>> /\ hit = (wish.command = "find" /\ wish.text = <<>>) /\ total = 0
    /\ ox = 0 /\ shown = <<>> /\ ended = "none"

FilterNext ==
    \/ CountByte \/ Reopen \/ ShowFeed \/ ShowByte \/ TypeEnds
    \/ SearchByte \/ PassFeed \/ LineEnds \/ CopyByte \/ LineCopied \/ FindEnds

FilterSpec == FilterInit /\ [][FilterNext]_filterVars
-----------------------------------------------------------------------------
(***************************************************************************)
(* Properties                                                              *)
(***************************************************************************)

(* The lines of a file, by where they begin.                               *)
LineBegins ==
    {p \in 1..Len(document) :
       p = 1 \/ document[p - 1] = LINEFEED \/ (document[p - 1] = CARRIAGE /\ document[p] # LINEFEED)}
Count == Cardinality(LineBegins)
Begin(k) ==
    IF k > Count THEN Len(document) + 1
    ELSE CHOOSE p \in LineBegins : Cardinality({q \in LineBegins : q <= p}) = k
Raw(k) == SubSeq(document, Begin(k), Begin(k + 1) - 1)
Content(k) == SelectSeq(Raw(k), LAMBDA c : c \notin Enders)

HasText(line) ==
    \E i \in 0..(Len(line) - Len(wish.text)) : SubSeq(line, i + 1, i + Len(wish.text)) = wish.text
Asked(k) ==
    CASE wish.command = "type" -> TRUE
      [] wish.command = "head" -> k <= wish.limit
      [] wish.command = "tail" -> k > Count - wish.limit
      [] wish.command = "find" -> HasText(Content(k)) # wish.invert

(* A line on the screen: rows, each with its end, at least one.            *)
Least(m, n) == IF m < n THEN m ELSE n
Rows(line) ==
    FlattenSeq([r \in 1..(IF line = <<>> THEN 1 ELSE (Len(line) + COLUMNS - 1) \div COLUMNS) |->
                  Append(SubSeq(line, (r - 1) * COLUMNS + 1, Least(r * COLUMNS, Len(line))), "nl")])
OneRow(line) == Append(SubSeq(line, 1, Least(COLUMNS, Len(line))), "nl")

Shows(k) ==
    IF wish.command = "find"
      THEN LET line == IF wish.numbered THEN <<Numerals[k]>> \o Content(k) ELSE Content(k)
           IN  IF wish.count THEN <<>>
               ELSE IF Redirected THEN Append(line, CARRIAGE)
               ELSE IF wish.numbered THEN OneRow(line) ELSE Rows(line)
      ELSE IF Redirected THEN Raw(k) ELSE Rows(Content(k))
Expected == FlattenSeq([k \in 1..Count |-> IF Asked(k) THEN Shows(k) ELSE <<>>])

(* fileutil.c:83-390: TYPE shows the lines it was asked for and all of     *)
(* them, once, in the file's own bytes when redirected and without blank   *)
(* rows of its own on the screen, wherever reads fall.  FIND shows or      *)
(* counts the lines that contain the text, or those that do not, each with *)
(* its own bytes and number: the two cursors are never on different lines. *)
(* What was stopped shows a beginning of that.                             *)
ShowsWhatWasAsked ==
    filter = "done" =>
      IF ended = "whole"
        THEN /\ shown = Expected
             /\ wish.command = "find" => total = Cardinality({k \in 1..Count : Asked(k)})
        ELSE \E n \in 0..Len(Expected) : shown \in {SubSeq(Expected, 1, n), SubSeq(Expected, 1, n) \o <<"nl">>}
================================================================================
