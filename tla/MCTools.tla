-------------------------------- MODULE MCTools --------------------------------
EXTENDS Tools, Gates, TLC

(* Channels *)
Disks3 == {8, 9, 10}
Kept == {0, 8} \X {1, 2}
Batch == UNION {[1..n -> {"a", "b", "cr"}] : n \in 1..2}

(* The command line *)
Listed == << <<"a">>, <<"a", " ", "b">>, <<"b">>, <<"a", "b">> >>
Plain == [text |-> <<"b">>, raw |-> {}]
Named == [text |-> <<"a", " ", "q", "a", " ", "b", "q">>, raw |-> 3..5]
Both == [text |-> <<"b", " ", "q", "a", "q", " ", "q", "b", "q">>, raw |-> {3, 7}]
Lines ==
    {[listing |-> Listed, entered |-> past, text |-> line.text, raw |-> line.raw] :
       past \in {<<>>, <<Plain, Named>>}, line \in {NoLine, Named, Both}}
BatchFiles ==
    {<<"a", "cr", "lf", "cr", "b">>, <<"lf", "cr", "a", "lf">>,
     [i \in 1..12 |-> "a"] \o <<"cr", "a">>}

(* The editor *)
TextFiles ==
    {<< <<"a", "a", "cr", "lf">>, <<"odd">> >>,
     << <<"lf", "a", "cr">>, <<"cr", "a">> >>,
     << <<"a", "a">>, <<"a", "a", "a">> >>}

(* The tape copier *)
OnTape(name, kind, data) == [name |-> name, kind |-> kind, data |-> data]
SomeTapes ==
    {<<OnTape("a", "program", << <<"a">>, <<"b">> >>), OnTape("b", "data", << <<"b">>, <<"a">> >>),
       OnTape("e", "end", << <<"a">> >>)>>,
     <<OnTape("b", "data", << <<"a">>, <<"b">> >>), OnTape("a", "program", << <<"b">> >>),
       OnTape("a", "large", << <<"b">> >>)>>,
     <<OnTape("c", "unknown", << <<"a">> >>)>>}

(* The disk tools: a pair of each kind of drive, and one that differs. *)
Drives ==
    {8 :> 1 @@ 9 :> 1 @@ 10 :> 2, 8 :> 2 @@ 9 :> 2 @@ 10 :> 0, 8 :> 3 @@ 9 :> 3 @@ 10 :> 1}
Tracks == <<2, 3>>
OnDisk(n, mark) == [name |-> n, used |-> TRUE, mark |-> mark, rel |-> {}]
Rel(n, mark, len, block1) == [OnDisk(n, mark) EXCEPT !.rel = {[len |-> len, first |-> block1]}]
Gone(e) == [e EXCEPT !.used = FALSE]
Sheet(next, some) == [next |-> next, entries |-> some]
Portion(next, bytes) == [next |-> next, bytes |-> bytes]
Directories ==
    8 :> [list |-> <<Sheet(2, {OnDisk("f", "unlocked"), Gone(Rel("r", "unlocked", 1, 2))}),
                     Sheet(0, {OnDisk("g", "locked"), Rel("r", "unlocked", 2, 1)})>>,
          blocks |-> <<Portion(2, <<1, 2, 3>>), Portion(0, <<4, 5, 6>>)>>]
    @@ 9 :> [list |-> <<Sheet(2, {Rel("r", "locked", 2, 1)}), Sheet(1, {OnDisk("f", "unlocked")})>>,
             blocks |-> <<Portion(2, <<1, 2>>), Portion(1, <<3, 4>>)>>]
    @@ 10 :> [list |-> <<Sheet(9, {Rel("r", "unlocked", 2, 2), Rel("s", "locked", 1, 1)})>>,
              blocks |-> <<Portion(9, <<1, 2>>), Portion(0, <<1, 2, 3>>)>>]
Wanted == {{"f", "r"}, {"h"}}

(* The banks *)
AllRoutines == AllGates \cup ResidentRoutines
SomeChips == {0, 4}

(* The parser *)
OfLetters(chars, n) == [1..n -> chars]
SomeTyped ==
    UNION {OfLetters({"t", "T", " ", "q", "/", ">"}, n) : n \in 0..4}
    \cup OfLetters({"t", " ", "q", "/"}, 5)
    \cup {<<"t", " ", "x", "q", ">", "q", ">", "8", ":", "T">>, <<"t", ">", "6", "5", "5", "4", "4", ":", "T">>,
          <<"t", ">", "7", ":", "T">>, <<"@", " ", "t", "/", "?", ">", "t">>, <<" ", "@", "e", " ", "q", ">", "T">>,
          <<"@", "t", " ", "x", ">", ">", "d", ":", "T", "t">>, <<"t", ">", "p">>, <<"t", ">", "t", "*">>,
          <<"@", "@", "t">>, <<"@", "@", "t", ">", "t">>, <<"t", ">", "t", ",">>, <<"t", " ", "/", "T", "/", ">", ">", "T">>}
SomeLines ==
    UNION {{[text |-> t, flags |-> {}], [text |-> t, flags |-> {i \in DOMAIN t : t[i] = "T"}]} : t \in SomeTyped}
OwnWords == {<<"e">>}
FileWords == {<<"t">>, <<"e">>}
PrinterWords == {<<"p">>}
Decimals == "4" :> 4 @@ "5" :> 5 @@ "6" :> 6 @@ "7" :> 7 @@ "8" :> 8
Lettered == "d" :> 11
Native == "T" :> "t"
NotInNames == {":", ","}

(* TYPE and FIND *)
SomeDocuments ==
    UNION {OfLetters({"a", "cr", "lf"}, n) : n \in 0..4}
    \cup {<<"a", "b", "a", "b", "a">>, <<"a", "b", "cr", "b", "a">>, <<"a", "a", "cr", "lf", "b", "b", "b">>,
          <<"b", "lf", "b", "b", "b", "a", "cr">>}
SomeWishes ==
    [command : {"type"}, redirected : BOOLEAN]
    \cup [command : {"head", "tail"}, limit : {1, 2}, redirected : BOOLEAN]
    \cup [command : {"find"}, text : {<<>>, <<"a">>, <<"b", "a">>}, invert : BOOLEAN, count : {FALSE},
          numbered : BOOLEAN, redirected : BOOLEAN]
    \cup [command : {"find"}, text : {<<"a">>}, invert : BOOLEAN, count : {TRUE}, numbered : {FALSE},
          redirected : {FALSE}]
Numbers == <<"1", "2", "3", "4", "5", "6", "7", "8">>

(* Startup *)
NamesOfVariables == {<<"c">>, <<"c", "h">>, <<"p">>}
SomeValues == {<<>>, <<"a">>, <<"=", "a">>, <<" ", "b">>}
NoneOf == {<< <<"c", "h">>, <<"=", "a">> >>}
PromptName == <<"p">>
ColorName == <<"c">>
CharsetName == <<"c", "h">>
Triples == <<"a">> :> <<1, 2, 3>>
TwoSlots == {1, 2}
Glyph(s, g) == [slot |-> s, glyph |-> g]
FontFiles ==
    (<<"a">> :> [drives |-> {0, 8}, sound |-> TRUE, entries |-> <<Glyph(2, "a")>>])
    @@ (<<" ", "b">> :> [drives |-> {8}, sound |-> FALSE, entries |-> <<Glyph(1, "b"), Glyph(2, "b")>>])
Put(n, v) == [op |-> "set", name |-> n, value |-> v]
Boots ==
    {[order |-> <<8, 0>>,
      autoexec |-> (8 :> <<Put(CharsetName, <<" ", "b">>), Put(ColorName, <<"a">>)>>)
                @@ (0 :> <<Put(CharsetName, <<"a">>), Put(PromptName, <<"a">>), [op |-> "run"]>>)],
     [order |-> <<0>>, autoexec |-> 0 :> <<Put(CharsetName, <<"a">>), [op |-> "reboot"]>>]}
================================================================================
