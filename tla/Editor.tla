-------------------------------- MODULE Editor --------------------------------
(***************************************************************************)
(* EDIT (src/edit.c: bank_editcmd): a screen of text, loaded from a file,  *)
(* changed key by key, and saved when RUN/STOP was pressed and the user    *)
(* wants it.  editor names what comes next.                                *)
(*                                                                         *)
(* A file is the sequence of the batches in which it was written; a batch  *)
(* is a sequence of characters.                                            *)
(***************************************************************************)
EXTENDS Channels

CONSTANTS
    ROWS, COLS,  \* the text: 24 rows of 40
    BATCH,       \* the buffer, io: 256
    Letters,     \* that can be typed
    CR, LF, Dot, Blank,
    Texts        \* what files there may be

AREA == ROWS * COLS

Spelled(d) == d \in Seq({d[i] : i \in DOMAIN d}) /\ \A i \in DOMAIN d : d[i] \in Seq({d[i][j] : j \in DOMAIN d[i]})

ASSUME EditorAssumption ==
    /\ ROWS \in Nat \ {0} /\ COLS \in Nat \ {0, 1} /\ BATCH \in Nat /\ BATCH > COLS
    /\ {Dot, Blank} \subseteq Letters /\ {CR, LF} \cap Letters = {} /\ CR # LF
    /\ \A d \in Texts : Spelled(d)

VARIABLES
    editor,  \* what comes next
    paper,   \* what the file is called, or <<>>
    text,    \* editbuf
    scan,    \* of the file being loaded
    cursor,  \* <<x, y>>
    batches, \* what is still to be written
    sound,   \* n >= 0: no write has failed
    saved,   \* the file was written, and the device knows of no error
    first    \* history: the files before

textVars == <<text, cursor>>
editVars == <<paper, textVars, scan, batches, sound, first>>
editorVars == <<channelVars, editor, saved, editVars>>

-----------------------------------------------------------------------------
(* Loading                                                                 *)

(* pos is the place of the next character; wrapped: it is the start of a   *)
(* row because the row before is full.                                     *)
Unread == [text |-> [i \in 0..AREA - 1 |-> Blank], pos |-> 0, prevcr |-> FALSE, wrapped |-> FALSE,
           overflow |-> FALSE]

RowEnds_Always(s) == (s.pos \div COLS + 1) * COLS
RowEnds(s) == IF s.wrapped THEN s.pos ELSE (s.pos \div COLS + 1) * COLS

Shown(c) == IF c \in Letters THEN c ELSE Dot

Scanned(s, c) ==
    CASE s.overflow -> s
      [] c = LF /\ s.prevcr -> [s EXCEPT !.prevcr = FALSE]
      [] c \in {CR, LF} /\ ~(c = LF /\ s.prevcr) ->
           [s EXCEPT !.pos = RowEnds(s), !.prevcr = c = CR, !.wrapped = FALSE,
                     !.overflow = RowEnds(s) > AREA]
      [] c \notin {CR, LF} /\ s.pos >= AREA -> [s EXCEPT !.overflow = TRUE, !.prevcr = FALSE]
      [] OTHER -> [s EXCEPT !.text[s.pos] = Shown(c), !.pos = @ + 1, !.prevcr = FALSE,
                            !.wrapped = (s.pos + 1) % COLS = 0]

ScannedAll(s, bytes) ==
    LET after[i \in 0..Len(bytes)] == IF i = 0 THEN s ELSE Scanned(after[i - 1], bytes[i])
    IN  after[Len(bytes)]

Proceed(label) == editor' = label /\ UNCHANGED saved
Quit == Proceed("over")

Find ==
    /\ editor = "find"
    /\ \/ /\ paper = <<>> /\ Proceed("keys") /\ UNCHANGED channelVars
       \/ /\ paper # <<>>
          /\ \/ Directory(Dev(paper)) /\ Proceed(IF Exists(paper) THEN "open" ELSE "keys")
             \/ DirectoryFails(Dev(paper)) /\ Quit
    /\ UNCHANGED editVars

OpenText ==
    /\ editor = "open"
    /\ \/ OpenRead(2, paper) /\ Proceed("load")
       \/ OpenFails(Dev(paper), MayRead(paper), chan) /\ Quit
    /\ UNCHANGED editVars

LoadText ==
    /\ editor = "load"
    /\ \/ /\ CanRead(2) /\ ~scan.overflow
          /\ scan' = ScannedAll(scan, Head(chan[2].data))
          /\ chan' = [chan EXCEPT ![2] = Rest(2)]
          /\ UNCHANGED <<editor, saved, text>>
       \/ /\ AtEnd(2) /\ ~scan.overflow
          /\ text' = scan.text /\ scan' = Unread
          /\ chan' = [chan EXCEPT ![2] = Idle]
          /\ Proceed("keys")
       \/ /\ scan.overflow \/ ReadMayFail(2)
          /\ scan' = Unread
          /\ chan' = [chan EXCEPT ![2] = Idle]
          /\ Quit /\ UNCHANGED text
    /\ UNCHANGED <<files, commandVars, cacheVars, paper, cursor, batches, sound, first>>

-----------------------------------------------------------------------------
(* Keys                                                                    *)

Column == cursor[1]
Line == cursor[2]
Here == Line * COLS + Column
RowOf(i) == i \div COLS
LastOf(row) == row * COLS + COLS - 1

Below(column) == <<column, IF Line < ROWS - 1 THEN Line + 1 ELSE Line>>
Back == IF Column > 0 THEN <<Column - 1, Line>> ELSE IF Line > 0 THEN <<COLS - 1, Line - 1>> ELSE cursor
Onward == IF Column < COLS - 1 THEN <<Column + 1, Line>> ELSE IF Line < ROWS - 1 THEN Below(0) ELSE cursor

(* Left, right, up, down, HOME and RETURN. *)
MoveCursor ==
    /\ UNCHANGED text
    /\ cursor' \in {Back, Onward, <<Column, IF Line > 0 THEN Line - 1 ELSE 0>>, Below(Column),
                    <<0, 0>>, Below(0)}

(* CTRL and INST/DEL: only when the bottom row has nothing to lose.        *)
MayInsert_Here == \A i \in 0..AREA - 1 : RowOf(i) = Line => text[i] = Blank
MayInsert == \A i \in 0..AREA - 1 : RowOf(i) = ROWS - 1 => text[i] = Blank

InsertRow ==
    /\ MayInsert
    /\ text' = [i \in 0..AREA - 1 |->
                  IF RowOf(i) < Line THEN text[i]
                  ELSE IF RowOf(i) = Line THEN Blank ELSE text[i - COLS]]
    /\ cursor' = <<0, Line>>

DeleteLetter ==
    /\ Column > 0
    /\ text' = [i \in 0..AREA - 1 |->
                  IF i \notin Here - 1..LastOf(Line) THEN text[i]
                  ELSE IF i = LastOf(Line) THEN Blank ELSE text[i + 1]]
    /\ cursor' = <<Column - 1, Line>>

InsertLetter ==
    /\ text' = [i \in 0..AREA - 1 |->
                  IF i \notin Here..LastOf(Line) THEN text[i]
                  ELSE IF i = Here THEN Blank ELSE text[i - 1]]
    /\ UNCHANGED cursor

TypeLetter ==
    /\ \E c \in Letters : text' = [text EXCEPT ![Here] = c]
    /\ cursor' = Onward

PressKey ==
    /\ editor = "keys"
    /\ MoveCursor \/ InsertRow \/ DeleteLetter \/ InsertLetter \/ TypeLetter
    /\ UNCHANGED <<channelVars, editor, saved, paper, scan, batches, sound, first>>

-----------------------------------------------------------------------------
(* Saving                                                                  *)

(* The rows without what is blank at their ends, up to the last that is    *)
(* not blank; a batch is written when the next row does not fit.           *)
Ends(t, lo, hi) == {i \in lo..hi : t[i] # Blank}
Highest(set) == CHOOSE i \in set : \A j \in set : j <= i
Row(t, r) ==
    LET inked == Ends(t, r * COLS, LastOf(r))
        end == IF inked = {} THEN 0 ELSE Highest(inked) - r * COLS + 1
    IN  Append([i \in 1..end |-> t[r * COLS + i - 1]], CR)
RowCount(t) == LET inked == Ends(t, 0, AREA - 1) IN IF inked = {} THEN 0 ELSE RowOf(Highest(inked)) + 1

Batched(done, row) ==
    IF done # <<>> /\ Len(done[Len(done)]) + Len(row) <= BATCH
      THEN [done EXCEPT ![Len(done)] = @ \o row] ELSE Append(done, row)
Batches(t) ==
    LET upto[r \in 0..RowCount(t)] == IF r = 0 THEN <<>> ELSE Batched(upto[r - 1], Row(t, r - 1))
    IN  upto[RowCount(t)]

LeaveText ==
    /\ editor = "keys"
    /\ \/ Quit /\ UNCHANGED paper
       \/ /\ paper' \in IF paper = <<>> THEN Places ELSE {paper}
          /\ Proceed("prepare")
    /\ UNCHANGED <<channelVars, textVars, scan, batches, sound, first>>

(* preparewrite() *)
PrepareText ==
    /\ editor = "prepare"
    /\ \/ /\ Directory(Dev(paper))
          /\ \/ Proceed(IF Exists(paper) /\ Dev(paper) # Cart THEN "scratch" ELSE "create")
             \/ Exists(paper) /\ Quit
       \/ DirectoryFails(Dev(paper)) /\ Quit
    /\ UNCHANGED editVars

ScratchText ==
    /\ editor = "scratch"
    /\ \/ CommandDone(Dev(paper), Without(files, {paper})) /\ Proceed("create")
       \/ CommandFails(Dev(paper), TRUE) /\ Quit
    /\ UNCHANGED editVars

CreateText ==
    /\ editor = "create"
    /\ \/ /\ OpenWrite(3, paper, FALSE)
          /\ batches' = Batches(text)
          /\ Proceed("write")
       \/ OpenWriteFails(paper, FALSE, chan) /\ Quit /\ UNCHANGED batches
    /\ UNCHANGED <<paper, textVars, scan, sound, first>>

WriteText ==
    /\ editor = "write"
    /\ \/ batches = <<>> /\ Proceed("close") /\ UNCHANGED <<files, chan, batches, sound>>
       \/ /\ batches # <<>>
          /\ batches' = Tail(batches)
          /\ UNCHANGED <<editor, saved, sound>>
          /\ \/ /\ CanWrite(3)
                /\ files' = Stored(3, Head(batches)) /\ chan' = [chan EXCEPT ![3] = Grown(3, Head(batches))]
             \/ CanLose(3) /\ chan' = [chan EXCEPT ![3] = Lost(3)] /\ UNCHANGED files
       \/ /\ batches # <<>> /\ WriteMayFail(3)
          /\ batches' = <<>> /\ sound' = FALSE
          /\ chan' = [chan EXCEPT ![3] = Lost(3)]
          /\ Proceed("close") /\ UNCHANGED files
    /\ UNCHANGED <<commandVars, cacheVars, paper, textVars, scan, first>>

CloseText ==
    /\ editor = "close"
    /\ editor' = "over"
    /\ \E works \in {TRUE, ~Troubles} :
         LET left == Closed(3, works)
             idle == [chan EXCEPT ![3] = Idle]
         IN  \/ /\ Status(Dev(paper), left, idle)
                /\ saved' = (sound /\ works /\ ~chan[3].bad)
             \/ /\ Troubles /\ Dev(paper) # Cart
                /\ UseStatus(Dev(paper), FALSE) /\ files' = left /\ chan' = idle
                /\ UNCHANGED saved
    /\ Forget
    /\ UNCHANGED editVars

-----------------------------------------------------------------------------
EditorInit ==
    /\ Powered
    /\ \E p \in Places, held \in {{}} \cup {{New(d)} : d \in Texts} :
         files = [q \in Places |-> IF q = p THEN held ELSE {}]
    /\ first = files
    /\ editor = "find" /\ paper \in {<<>>} \cup Places
    /\ scan = Unread /\ text = Unread.text /\ cursor = <<0, 0>>
    /\ batches = <<>> /\ sound = TRUE /\ saved = FALSE

EditorNext ==
    \/ Find \/ OpenText \/ LoadText \/ PressKey \/ LeaveText \/ PrepareText \/ ScratchText \/ CreateText
    \/ WriteText \/ CloseText

EditorSpec == EditorInit /\ [][EditorNext]_editorVars
-----------------------------------------------------------------------------
(***************************************************************************)
(* Properties                                                              *)
(***************************************************************************)

Reloaded(data) ==
    LET after[i \in 0..Len(data)] == IF i = 0 THEN Unread ELSE ScannedAll(after[i - 1], data[i])
    IN  after[Len(data)]

(* A text that was saved without a complaint comes back when it is edited  *)
(* again (edit.c:88-115 undoes edit.c:257-276): full rows, empty rows and  *)
(* the last row included, whatever batches it was written in.  One that    *)
(* was not leaves the cartridge as it was: there an edited file is the old *)
(* one until the new one is whole.                                         *)
SavedTextReturns ==
    /\ saved => /\ Contents(files, paper) # {}
                /\ \A d \in Contents(files, paper) :
                     ~Reloaded(d).overflow /\ Reloaded(d).text = text
    /\ editor = "over" /\ ~saved => \A p \in Places : Dev(p) = Cart => files[p] = first[p]

(* The keys change the row of the cursor and no other; a row is inserted   *)
(* without one being lost (edit.c:200), for nothing shows what left the    *)
(* screen: the rows that are not blank keep their order.                   *)
InkedRows(t) == {r \in 0..ROWS - 1 : Ends(t, r * COLS, LastOf(r)) # {}}
SameRow(t, r, u, q) == \A i \in 0..COLS - 1 : t[r * COLS + i] = u[q * COLS + i]
RowsKept(t, u) ==
    \E to \in [InkedRows(t) -> InkedRows(u)] :
       /\ \A q \in InkedRows(u) : \E r \in InkedRows(t) : to[r] = q
       /\ \A r, q \in InkedRows(t) : r < q => to[r] < to[q]
       /\ \A r \in InkedRows(t) : SameRow(t, r, u, to[r])
NoRowLost ==
    [][editor = "keys" =>
         \/ \A i \in 0..AREA - 1 : RowOf(i) # Line => text'[i] = text[i]
         \/ RowsKept(text, text')]_editorVars
================================================================================
