----------------------------- MODULE CommandLine -----------------------------
(***************************************************************************)
(* The shell's command line (src/edit.c: bank_input, bank_rawedit) with    *)
(* its history, and the reading of batch files (src/mcsdos.c).             *)
(*                                                                         *)
(* The characters of the line that completion took from a directory are    *)
(* flagged: they are a file's own bytes, which the parser must not         *)
(* convert.  Positions count from 0, as in the code.                       *)
(***************************************************************************)
EXTENDS Integers, Sequences, FiniteSets

CONSTANTS
    LINE,       \* 65: a line has one character less
    RECALL,     \* lines of history: 10
    EDITS,      \* bound: keys pressed
    Keys,       \* letters
    Space, Quote,
    DrivePrefix, \* "8:" and the like, one character here
    Begun,       \* how a line may stand: [listing, entered, text, raw], the directory's names
                 \* in their order, the lines entered before, and what was typed and completed
    Return, Feed, \* of batch files
    Scripts      \* what batch files there may be

Characters == Keys \cup {Space, Quote, DrivePrefix}
LineType == [text: Seq(Characters), raw: SUBSET (0..LINE - 1)]

ASSUME CommandLineAssumption ==
    /\ LINE \in Nat /\ LINE > 3 /\ RECALL \in Nat \ {0} /\ EDITS \in Nat
    /\ \A b \in Begun : /\ b.listing \in Seq(Seq(Keys \cup {Space}))
                        /\ b.entered \in Seq(LineType) /\ Len(b.entered) <= RECALL
    /\ Return # Feed
    /\ \A script \in Scripts : script \in Seq(Keys \cup {Return, Feed})

VARIABLES
    prompt,    \* "batch", "edit", or "over"
    buf,       \* the line
    raw,       \* rawline: the flagged positions
    pos,       \* the caret
    listing,   \* directory_entries
    comp,      \* the completion under way: where it starts, prefix, drive prefix; {} for none
    ci,        \* the entry it tries next
    history,   \* slot -> line and flags
    histnext, histcount,
    h,         \* the line of history shown; histcount: the draft
    draft,
    batch, batchpos,
    edits,     \* keys pressed
    executed,  \* history: the lines read from the batch file
    cut        \* history: a completion began in the middle of a flagged name

lineVars == <<buf, raw, pos, comp, ci, h, draft, cut>>
historyVars == <<history, histnext, histcount>>
batchVars == <<batch, batchpos, executed>>
promptVars == <<prompt, listing, lineVars, historyVars, batchVars, edits>>

NoLine == [text |-> <<>>, raw |-> {}]

-----------------------------------------------------------------------------
(* Batch files                                                             *)

Broken(i) == i > Len(batch) \/ batch[i] \in {Return, Feed}
LineEnd == CHOOSE i \in batchpos..Len(batch) + 1 :
             Broken(i) /\ \A j \in batchpos..i - 1 : ~Broken(j)

(* CR LF is one end. *)
Following_Single(end) == end + 1
Following(end) ==
    IF batch[end] = Return /\ end < Len(batch) /\ batch[end + 1] = Feed THEN end + 2 ELSE end + 1

(* A line that is too long, and RUN/STOP, end the batch. *)
ReadBatch ==
    /\ prompt = "batch"
    /\ raw' = {}
    /\ \/ prompt' = "edit" /\ UNCHANGED <<batchpos, executed>>
       \/ /\ batchpos <= Len(batch)
          /\ batchpos' = IF LineEnd > Len(batch) THEN LineEnd ELSE Following(LineEnd)
          /\ IF LineEnd - batchpos < LINE
               THEN /\ executed' = Append(executed, SubSeq(batch, batchpos, LineEnd - 1))
                    /\ UNCHANGED prompt
               ELSE prompt' = "edit" /\ UNCHANGED executed
    /\ UNCHANGED <<batch, buf, pos, comp, ci, h, draft, cut, historyVars, listing, edits>>

-----------------------------------------------------------------------------
(* Keys                                                                    *)

Length == Len(buf)
Before(p) == SubSeq(buf, 1, p)
From(p) == SubSeq(buf, p + 1, Length)

Press == prompt = "edit" /\ edits < EDITS /\ edits' = edits + 1

NoCompletion == comp' = {} /\ UNCHANGED <<ci, cut>>

MoveCaret ==
    /\ Press
    /\ pos' \in {IF pos > 0 THEN pos - 1 ELSE 0, IF pos < Length THEN pos + 1 ELSE pos, 0}
    /\ NoCompletion
    /\ UNCHANGED <<prompt, buf, raw, h, draft, listing, historyVars, batchVars>>

(* bank_rawedit(): an edit in or at the end of a flagged name takes the    *)
(* flags from all of it; the others move with their characters.            *)
Touched_After(p) == {i \in raw : i >= p /\ i < Length /\ p..i \subseteq raw}
Touched(p) == {i \in raw : (i < p /\ i..p - 1 \subseteq raw) \/ (i >= p /\ i < Length /\ p..i \subseteq raw)}

RawDeleted(p) ==
    LET rest == raw \ Touched(p)
    IN  {i \in 0..LINE - 1 : IF i \in p..Length - 1 THEN i + 1 \in rest ELSE i \in rest}
RawInserted(p) ==
    LET rest == raw \ Touched(p)
    IN  {i \in 0..LINE - 1 : i # p /\ IF i \in p + 1..Length THEN i - 1 \in rest ELSE i \in rest}

DeleteKey ==
    /\ Press
    /\ pos > 0
    /\ raw' = RawDeleted(pos - 1)
    /\ buf' = Before(pos - 1) \o From(pos) /\ pos' = pos - 1
    /\ NoCompletion
    /\ UNCHANGED <<prompt, h, draft, listing, historyVars, batchVars>>

TypeKey ==
    /\ Press
    /\ Length < LINE - 1
    /\ raw' = RawInserted(pos)
    /\ \E c \in Keys \cup {Space, Quote, DrivePrefix} : buf' = Append(Before(pos), c) \o From(pos)
    /\ pos' = pos + 1
    /\ NoCompletion
    /\ UNCHANGED <<prompt, h, draft, listing, historyVars, batchVars>>

-----------------------------------------------------------------------------
(* History                                                                 *)

Slot(i) == (histnext + RECALL - histcount + i) % RECALL

Recall ==
    /\ Press
    /\ LET kept == IF h = histcount THEN [text |-> buf, raw |-> raw] ELSE draft
           to == {IF h > 0 THEN h - 1 ELSE h, IF h < histcount THEN h + 1 ELSE h}
       IN  \E n \in to :
             LET line == IF n = histcount THEN kept ELSE history[Slot(n)] IN
             /\ h' = n /\ draft' = kept
             /\ buf' = line.text /\ raw' = line.raw /\ pos' = Len(line.text)
    /\ NoCompletion
    /\ UNCHANGED <<prompt, listing, historyVars, batchVars>>

(* bank_input() begins with an empty line. *)
Fresh ==
    /\ buf' = <<>> /\ raw' = {} /\ pos' = 0 /\ comp' = {} /\ ci' = 0
    /\ h' = histcount' /\ UNCHANGED <<draft, cut>>

EnterKey ==
    /\ Press
    /\ IF buf = <<>> THEN UNCHANGED historyVars
       ELSE /\ history' = [history EXCEPT ![histnext] = [text |-> buf, raw |-> raw]]
            /\ histnext' = (histnext + 1) % RECALL
            /\ histcount' = IF histcount < RECALL THEN histcount + 1 ELSE histcount
    /\ Fresh
    /\ UNCHANGED <<prompt, listing, batchVars>>

StopKey ==
    /\ Press
    /\ UNCHANGED historyVars
    /\ Fresh
    /\ UNCHANGED <<prompt, listing, batchVars>>

-----------------------------------------------------------------------------
(* Completion                                                              *)

Quotes(i) == Cardinality({j \in 1..i : buf[j] = Quote})
WordStarts == {i \in 1..pos : buf[i] = Space /\ Quotes(i) % 2 = 0}
WordStart == IF WordStarts = {} THEN 0 ELSE CHOOSE i \in WordStarts : \A j \in WordStarts : j <= i

Bare(s) == SelectSeq(s, LAMBDA c : c # Quote)
HasDrive(token) == token # <<>> /\ token[1] = DrivePrefix
NameIn(token) == IF HasDrive(token) THEN Tail(token) ELSE token
IsPath(token) == \A i \in 1..Len(NameIn(token)) : NameIn(token)[i] # DrivePrefix

Completion(start, token) ==
    [start |-> start, prefix |-> NameIn(token), lead |-> IF HasDrive(token) THEN <<DrivePrefix>> ELSE <<>>]

Begins(name, prefix) == Len(prefix) <= Len(name) /\ SubSeq(name, 1, Len(prefix)) = prefix

(* The entries from the n-th on, in the order in which they are tried. *)
Entry(n) == listing[(n % Len(listing)) + 1]
Tries(c, n) == {i \in n..n + Len(listing) - 1 : Begins(Entry(i), c.prefix)}

(* A completion begins with the first entry. *)
First == 0

(* The name goes between quotes, with its drive prefix, and is flagged; a  *)
(* name for which there is no room is passed over.                         *)
Offer(c, line, name) ==
    LET word == <<Quote>> \o c.lead \o name \o <<Quote>> IN
    IF c.start + Len(word) < LINE
      THEN /\ buf' = SubSeq(line, 1, c.start) \o word
           /\ raw' = {i \in raw : i < c.start}
                       \cup (c.start + 1 + Len(c.lead)..c.start + Len(word) - 2)
           /\ pos' = c.start + Len(word)
      ELSE buf' = line /\ pos' = (IF line = buf THEN pos ELSE Len(line)) /\ UNCHANGED raw

OfferNext(c, line, n) ==
    /\ comp' = {c} /\ cut' = (cut \/ c.start - 1 \in raw)
    /\ IF Tries(c, n) = {}
         THEN /\ buf' = line /\ pos' = (IF line = buf THEN pos ELSE Len(line))
              /\ ci' = n /\ UNCHANGED raw
         ELSE LET i == CHOOSE i \in Tries(c, n) : \A j \in Tries(c, n) : i <= j IN
              /\ Offer(c, line, Entry(i))
              /\ ci' = (i + 1) % Len(listing)

(* The Commodore key completes what is before the caret to a name that     *)
(* begins so, and to the next one when it is pressed again.  After a       *)
(* command it first adds a space.  The directory may not be readable.      *)
CompleteKey ==
    /\ Press
    /\ \/ \E c \in comp : OfferNext(c, buf, ci)
       \/ /\ comp = {}
          /\ WordStart > 0 \/ (pos > 0 /\ pos = Length /\ Length + 1 < LINE)
          /\ LET start == IF WordStart > 0 THEN WordStart ELSE Length + 1
                 line == IF WordStart > 0 THEN buf ELSE Append(buf, Space)
                 token == Bare(SubSeq(line, start + 1, IF WordStart > 0 THEN pos ELSE Length + 1))
             IN  \/ IsPath(token) /\ OfferNext(Completion(start, token), line, First)
                 \/ /\ buf' = line /\ pos' = (IF WordStart > 0 THEN pos ELSE Length + 1)
                    /\ UNCHANGED raw /\ NoCompletion
    /\ UNCHANGED <<prompt, h, draft, listing, historyVars, batchVars>>

-----------------------------------------------------------------------------
(* The flags of a line mark names of list or, in part, how one begins.     *)
IsRun(flags, i, j) == i..j \subseteq flags /\ i - 1 \notin flags /\ j + 1 \notin flags
IsName(word, list, part) ==
    \E n \in 1..Len(list) : IF part THEN Begins(list[n], word) ELSE word = list[n]
Marks(line, flags, list, part) ==
    /\ Len(line) < LINE /\ flags \subseteq 0..Len(line) - 1
    /\ \A i, j \in flags : i <= j /\ IsRun(flags, i, j) => IsName(SubSeq(line, i + 1, j + 1), list, part)

(* So do the lines to begin with.                                          *)
ASSUME BegunAssumption ==
    \A b \in Begun :
      /\ b.text \in Seq(Characters) /\ Marks(b.text, b.raw, b.listing, FALSE)
      /\ \A k \in 1..Len(b.entered) : Marks(b.entered[k].text, b.entered[k].raw, b.listing, FALSE)

(* After a batch, or in the middle of a line with the caret anywhere.      *)
LineInit ==
    /\ \/ prompt = "batch" /\ batch \in Scripts /\ edits = EDITS
       \/ prompt = "edit" /\ batch = <<>> /\ edits = 0
    /\ batchpos = 1 /\ executed = <<>>
    /\ \E b \in Begun :
         /\ batch # <<>> => b.text = <<>>
         /\ listing = b.listing /\ buf = b.text /\ raw = b.raw
         /\ histcount = Len(b.entered) /\ histnext = Len(b.entered) % RECALL /\ h = Len(b.entered)
         /\ history = [i \in 0..RECALL - 1 |-> IF i < Len(b.entered) THEN b.entered[i + 1] ELSE NoLine]
         /\ pos \in 0..Len(b.text)
    /\ comp = {} /\ ci = 0 /\ draft = NoLine /\ cut = FALSE

LineNext ==
    \/ ReadBatch \/ MoveCaret \/ DeleteKey \/ TypeKey \/ Recall \/ EnterKey \/ StopKey \/ CompleteKey

LineSpec == LineInit /\ [][LineNext]_promptVars
-----------------------------------------------------------------------------
(***************************************************************************)
(* Properties                                                              *)
(***************************************************************************)

(* bank_rawedit (edit.c:496): the flags mark whole names, unedited, as the *)
(* directory has them; there are none past the end of the line, which fits *)
(* its buffer whatever was typed, recalled or completed.  (Where a name    *)
(* with a space lost its quote, a completion that begins after the space   *)
(* leaves the flags of what is before.)                                    *)
FlagsMarkNames == pos \in 0..Length /\ Marks(buf, raw, listing, cut)

(* The lines of a batch file are those between its line ends, whichever    *)
(* they are (mcsdos.c:69).                                                 *)
Breaks(s) == {i \in 1..Len(s) : s[i] = Return \/ (s[i] = Feed /\ ~(i > 1 /\ s[i - 1] = Return))}
Rank(set, i) == Cardinality({j \in set : j <= i})
NthBreak(k) == CHOOSE i \in Breaks(batch) : Rank(Breaks(batch), i) = k
Between(k) ==
    {i \in 1..Len(batch) :
       /\ batch[i] \notin {Return, Feed}
       /\ k > 1 => i > NthBreak(k - 1)
       /\ k <= Cardinality(Breaks(batch)) => i < NthBreak(k)}
BatchLinesAreWhole ==
    /\ Len(executed) <= Cardinality(Breaks(batch)) + 1
    /\ \A k \in 1..Len(executed) :
         /\ Len(executed[k]) = Cardinality(Between(k))
         /\ \A i \in Between(k) : executed[k][Rank(Between(k), i)] = batch[i]
===============================================================================
