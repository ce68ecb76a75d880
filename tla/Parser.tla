--------------------------------- MODULE Parser --------------------------------
(***************************************************************************)
(* From a line to a command, its arguments and the file its output goes to *)
(* (src/core.c: execute, executecommand, tokenize, path, filename).        *)
(*                                                                         *)
(* A byte of an argument carries its flag: completion took it from a       *)
(* directory, and it stays as it is in a file name.  What commands do with *)
(* their arguments is left out, and so is the search for files: Shell has  *)
(* it.  Verbs are told apart by what the parser knows of them.             *)
(***************************************************************************)
EXTENDS Integers, Sequences, FiniteSets

CONSTANTS
    TypedLines,      \* [text, flags]: characters, and the positions that are flagged
    SPACE, QUOTE, SLASH, GREATER, COLON, ATSIGN, ASK, STAR,
    Barred,          \* characters no file name may have
    Unparsed,        \* verbs that take their line as it is: ECHO, REM, SET
    Redirectable,    \* verbs whose output may go to a file
    Printers,        \* LPT1, LPT2
    DigitOf,         \* character -> its value
    DriveOf,         \* letter -> drive
    NativeOf,        \* typed letter -> the byte of a file name
    CURRENT,         \* the current drive
    MAXARGS, LONGEST \* 33, 16

ASSUME ParserAssumption ==
    /\ \A l \in TypedLines : l.text \in Seq({l.text[i] : i \in DOMAIN l.text})
    /\ SPACE # SLASH /\ QUOTE \notin {SPACE, SLASH, GREATER, ATSIGN}
    /\ \A c \in DOMAIN DriveOf : DriveOf[c] \in {0} \cup 8..30
    /\ MAXARGS \in Nat \ {0} /\ LONGEST \in Nat /\ CURRENT \in {0} \cup 8..30

VARIABLES
    parser,   \* "off", "scan", "command", "words", "word", "done"
    typed,    \* the line
    r, quote, \* the cursor; is it inside quotes?
    op, append,   \* where ">" is (0: nowhere); is it ">>"?
    from, upto,   \* the part of the line that is split
    args,     \* [quoted, bytes]: the arguments so far, each byte with its flag
    why,      \* what the words are for: "run", "check", "target"
    output,   \* where the output goes: a device and a name, or none
    answered  \* "none", "run", "unparsed", "nothing", or the error

parserVars == <<parser, typed, r, quote, op, append, from, upto, args, why, output, answered>>

Screen == [dev |-> CURRENT, name |-> <<>>]
Text == typed.text
FirstOf(places) == CHOOSE p \in places : \A q \in places : p <= q
Answer(what) == parser' = "done" /\ answered' = what

-----------------------------------------------------------------------------
(* execute(): the output's destination                                     *)

Redirects(p) == Text[p] = GREATER
Doubled_Never(p) == FALSE
Doubled(p) == p < Len(Text) /\ Text[p + 1] = GREATER

ScanByte ==
    /\ parser = "scan" /\ r <= Len(Text)
    /\ IF Redirects(r) /\ ~quote
         THEN IF op # 0 THEN Answer("multiple") /\ UNCHANGED <<r, quote, op, append>>
              ELSE /\ op' = r /\ append' = Doubled(r)
                   /\ r' = (IF Doubled(r) THEN r + 2 ELSE r + 1)
                   /\ UNCHANGED <<parser, answered, quote>>
         ELSE /\ quote' = (quote # (Text[r] = QUOTE)) /\ r' = r + 1
              /\ UNCHANGED <<parser, answered, op, append>>
    /\ UNCHANGED <<typed, from, upto, args, why, output>>

(* The first position from p on that is not among these characters.        *)
Past(p, last, chars) == FirstOf({i \in p..last + 1 : i > last \/ Text[i] \notin chars})
Trimmed(last) ==
    CHOOSE i \in 0..last : (i = 0 \/ Text[i] # SPACE) /\ \A j \in i + 1..last : Text[j] = SPACE

(* tokenize() begins.                                                      *)
Split(first, last, purpose) ==
    /\ parser' = "words" /\ from' = first /\ upto' = last /\ why' = purpose
    /\ r' = first /\ quote' = FALSE /\ args' = <<>>

ScanEnds ==
    /\ parser = "scan" /\ r > Len(Text)
    /\ CASE op = 0 -> /\ parser' = "command" /\ from' = 1 /\ upto' = Len(Text)
                      /\ UNCHANGED <<why, r, quote, args, answered>>
         [] op # 0 /\ quote -> Answer("syntax") /\ UNCHANGED <<from, upto, why, r, quote, args>>
         [] OTHER -> /\ Split(Past(1, Trimmed(op - 1), {SPACE, ATSIGN}), Trimmed(op - 1), "check")
                     /\ UNCHANGED answered
    /\ UNCHANGED <<typed, op, append, output>>

-----------------------------------------------------------------------------
(* executecommand()                                                        *)

Prefixed(first, last) ==
    LET p == Past(first, last, {SPACE}) IN IF p <= last /\ Text[p] = ATSIGN THEN p + 1 ELSE p
VerbOf(first) ==
    LET spaces == {i \in first..upto : Text[i] = SPACE}
    IN  IF spaces = {} THEN <<>> ELSE SubSeq(Text, first, FirstOf(spaces) - 1)

EnterCommand ==
    /\ parser = "command"
    /\ LET first == Prefixed(from, upto)
       IN  IF first > upto THEN Answer("nothing") /\ UNCHANGED <<from, upto, why, r, quote, args>>
           ELSE IF VerbOf(first) \in Unparsed THEN Answer("unparsed") /\ UNCHANGED <<from, upto, why, r, quote, args>>
           ELSE Split(first, upto, "run") /\ UNCHANGED answered
    /\ UNCHANGED <<typed, op, append, output>>

-----------------------------------------------------------------------------
(* tokenize()                                                              *)

(* The flag of a byte is at its place in the line.                         *)
Flag_Shifted(p) == (p - from + 1) \in typed.flags
Flag(p) == p \in typed.flags

Malformed == CASE why = "target" -> Answer("destination") [] OTHER -> Answer("syntax")

NextWord ==
    /\ parser = "words"
    /\ LET p == Past(r, upto, {SPACE})
       IN  /\ p <= upto
           /\ IF Len(args) = MAXARGS THEN Malformed /\ UNCHANGED <<args, r>>
              ELSE /\ args' = Append(args, [quoted |-> Text[p] = QUOTE,
                                            bytes |-> IF Text[p] = SLASH THEN << <<SLASH, FALSE>> >> ELSE <<>>])
                   /\ r' = (IF Text[p] = SLASH THEN p + 1 ELSE p)
                   /\ parser' = "word" /\ UNCHANGED answered
    /\ quote' = FALSE
    /\ UNCHANGED <<typed, op, append, from, upto, why, output>>

(* Quotes protect spaces and slashes; a slash begins an argument.          *)
Separates_Spaces(c) == c = SPACE
Separates(c) == c \in {SPACE, SLASH}
WordGoesOn == r <= upto /\ (Separates(Text[r]) => quote)

WordByte ==
    /\ parser = "word" /\ WordGoesOn
    /\ IF Text[r] = QUOTE THEN quote' = ~quote /\ UNCHANGED args
       ELSE args' = [args EXCEPT ![Len(args)].bytes = Append(@, <<Text[r], Flag(r)>>)] /\ UNCHANGED quote
    /\ r' = r + 1
    /\ UNCHANGED <<parser, typed, op, append, from, upto, why, output, answered>>

WordEnds ==
    /\ parser = "word" /\ ~WordGoesOn
    /\ IF quote THEN Malformed ELSE parser' = "words" /\ UNCHANGED answered
    /\ UNCHANGED <<typed, r, quote, op, append, from, upto, args, why, output>>

-----------------------------------------------------------------------------
(* path(), filename()                                                      *)

Chars(bytes) == [i \in DOMAIN bytes |-> bytes[i][1]]

filename(bytes) ==
    [i \in DOMAIN bytes |->
       IF bytes[i][2] \/ bytes[i][1] \notin DOMAIN NativeOf THEN bytes[i][1] ELSE NativeOf[bytes[i][1]]]

(* d is an unsigned int of the cc65 compiler.                              *)
Number(digits) ==
    LET d[i \in 0..Len(digits)] == IF i = 0 THEN 0 ELSE (d[i - 1] * 10 + DigitOf[digits[i]]) % 65536
    IN  d[Len(digits)]

path(bytes) ==
    LET s == Chars(bytes)
        digits == FirstOf({n \in 0..Len(s) : n = Len(s) \/ s[n + 1] \notin DOMAIN DigitOf})
        lettered == Len(s) > 1 /\ s[1] \in DOMAIN DriveOf /\ s[2] = COLON
        numbered == ~lettered /\ digits > 0 /\ digits < Len(s) /\ s[digits + 1] = COLON
        number == Number(SubSeq(s, 1, digits))
        name == SubSeq(bytes, CASE lettered -> 3 [] numbered -> digits + 2 [] OTHER -> 1, Len(bytes))
    IN  [ok |-> /\ numbered => number \in {0} \cup 8..30
                /\ Len(name) <= LONGEST /\ \A i \in DOMAIN name : name[i][1] \notin Barred,
         dev |-> CASE lettered -> DriveOf[s[1]] [] numbered -> number [] OTHER -> CURRENT,
         name |-> filename(name)]

-----------------------------------------------------------------------------
(* The words are known                                                     *)

WordsKnown == parser = "words" /\ Past(r, upto, {SPACE}) > upto
Helping == \E i \in 2..Len(args) : ~args[i].quoted /\ Chars(args[i].bytes) = <<SLASH, ASK>>

Behind_One == op + 1
Behind == IF append THEN op + 2 ELSE op + 1

(* The command is looked at, its input found, before the destination is.   *)
CheckCommand ==
    /\ WordsKnown /\ why = "check"
    /\ IF args = <<>> THEN Answer("syntax") /\ UNCHANGED <<from, upto, why, r, quote, args>>
       ELSE IF Chars(args[1].bytes) \notin Redirectable \/ Helping
         THEN Answer("refused") /\ UNCHANGED <<from, upto, why, r, quote, args>>
       ELSE \/ Answer("input") /\ UNCHANGED <<from, upto, why, r, quote, args>>
            \/ Split(Behind, Len(Text), "target") /\ UNCHANGED answered
    /\ UNCHANGED <<typed, op, append, output>>

Wild(name) == \E i \in DOMAIN name : name[i] \in {STAR, ASK}

(* The destination, and then the command, as executecommand() sees it:     *)
(* the line ends where ">" was.                                            *)
CheckTarget ==
    /\ WordsKnown /\ why = "target"
    /\ LET target == path(args[1].bytes)
           here == Past(1, Trimmed(op - 1), {SPACE, ATSIGN})
       IN  IF Len(args) # 1 THEN Answer("destination") /\ UNCHANGED <<from, upto, output>>
           ELSE IF Chars(args[1].bytes) \in Printers THEN Answer("printer") /\ UNCHANGED <<from, upto, output>>
           ELSE IF ~target.ok THEN Answer("path") /\ UNCHANGED <<from, upto, output>>
           ELSE IF target.name = <<>> \/ Wild(target.name)
             THEN Answer("destination") /\ UNCHANGED <<from, upto, output>>
           ELSE \/ Answer("device") /\ UNCHANGED <<from, upto, output>>
                \/ /\ output' = [dev |-> target.dev, name |-> target.name]
                   /\ parser' = "command" /\ from' = here /\ upto' = Trimmed(op - 1) /\ UNCHANGED answered
    /\ UNCHANGED <<typed, r, quote, op, append, args, why>>

RunCommand ==
    /\ WordsKnown /\ why = "run"
    /\ Answer("run")
    /\ UNCHANGED <<typed, r, quote, op, append, from, upto, args, why, output>>

ParserInit ==
    /\ typed \in TypedLines
    /\ parser = "scan" /\ r = 1 /\ quote = FALSE /\ op = 0 /\ append = FALSE /\ from = 1 /\ upto = 0
    /\ args = <<>> /\ why = "run" /\ output = Screen /\ answered = "none"

ParserNext ==
    \/ ScanByte \/ ScanEnds \/ EnterCommand \/ NextWord \/ WordByte \/ WordEnds
    \/ CheckCommand \/ CheckTarget \/ RunCommand

ParserSpec == ParserInit /\ [][ParserNext]_parserVars
-----------------------------------------------------------------------------
(***************************************************************************)
(* Properties                                                              *)
(***************************************************************************)

(* A line, read all at once.                                               *)
Inside(p) == Cardinality({i \in 1..(p - 1) : Text[i] = QUOTE}) % 2 = 1
Gap(p) == Text[p] = SPACE /\ ~Inside(p)
FirstBytes(a, b) ==
    {p \in a..b : ~Gap(p) /\ ~Inside(p) /\ (p = a \/ Gap(p - 1) \/ Text[p] = SLASH)}
(* The slash that begins an argument has no flag.                          *)
Byte(p) == <<Text[p], p \in typed.flags /\ (Text[p] = SLASH => Inside(p))>>
Nth(S, k) == CHOOSE p \in S : Cardinality({q \in S : q <= p}) = k
Bytes(a, b) ==
    LET places == {p \in a..b : ~Gap(p) /\ Text[p] # QUOTE}
    IN  [k \in 1..Cardinality(places) |-> Byte(Nth(places, k))]
Words(a, b) ==
    LET starts == FirstBytes(a, b)
        End(k) == IF k = Cardinality(starts) THEN b ELSE Nth(starts, k + 1) - 1
    IN  [k \in 1..Cardinality(starts) |->
           [quoted |-> Text[Nth(starts, k)] = QUOTE, bytes |-> Bytes(Nth(starts, k), End(k))]]
Arrows == {p \in 1..Len(Text) : Text[p] = GREATER /\ ~Inside(p)}

Arrow == FirstOf(Arrows)
Body == IF Arrows = {} THEN Len(Text) ELSE Arrow - 1
BodyFrom == IF Arrows = {} THEN Past(Prefixed(1, Body), Body, {SPACE}) ELSE Past(1, Body, {SPACE, ATSIGN})
Balanced == ~Inside(Len(Text) + 1)

(* core.c:818-866: the arguments of a command are the words of its line,   *)
(* apart at spaces and before slashes that are not quoted, without their   *)
(* quotes, each byte with the flag it had in the line; a line that is      *)
(* turned down as malformed is one whose quotes do not match, or that has  *)
(* more words than there is room for, or none.                             *)
WordsAreArguments ==
    parser = "done" =>
      /\ answered = "run" => args = Words(BodyFrom, Body)
      /\ answered = "syntax" =>
           ~Balanced \/ Cardinality(FirstBytes(BodyFrom, Body)) > MAXARGS \/ BodyFrom > Body

(* core.c:1088-1224: output leaves the screen only for a line with one     *)
(* ">" or ">>" outside quotes and one file name behind it, for a command   *)
(* that may, and goes to that file on that drive; the rest of the line is  *)
(* what runs.  A line is turned down for a second ">" only if it has one.  *)
RedirectsWhatWasTyped ==
    LET double == Arrow + 1 \in Arrows
        target == Words(IF double THEN Arrow + 2 ELSE Arrow + 1, Len(Text))
        command == Words(BodyFrom, Body)
    IN  parser = "done" =>
          /\ answered = "multiple" => \E p, q \in Arrows : p < q /\ (q > p + 1 \/ \E o \in Arrows : o > q)
          /\ answered \in {"run", "unparsed", "nothing"} =>
               /\ Arrows = {} => output = Screen
               /\ Arrows # {} =>
                    /\ Balanced /\ Arrows \subseteq {Arrow, Arrow + 1} /\ append = double
                    /\ Len(target) = 1 /\ path(target[1].bytes).ok /\ output.dev \in {0} \cup 8..30
                    /\ output = [dev |-> path(target[1].bytes).dev, name |-> path(target[1].bytes).name]
                    /\ Chars(command[1].bytes) \in Redirectable
================================================================================
