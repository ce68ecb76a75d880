------------------------------ MODULE ParserProofs ------------------------------
(***************************************************************************)
(* What Parser promises, for every line, and every size of its tables.     *)
(***************************************************************************)
EXTENDS Parser, TLAPS, FiniteSetTheorems, FunctionTheorems, SequenceTheorems, WellFoundedInduction

(***************************************************************************)
(* Sets of positions                                                       *)
(***************************************************************************)

(* A set of numbers that is not empty has a least one.                     *)
LEMMA LeastPlace ==
    ASSUME NEW S \in SUBSET Nat, S # {}
    PROVE  \E m \in S : \A k \in S : m <= k
<1>. DEFINE R == OpToRel(<, Nat)
<1>1. \A k, m \in Nat : k < m => <<k, m>> \in R
  BY DEF OpToRel
<1>2. IsWellFoundedOn(R, Nat)
  BY NatLessThanWellFounded
<1>. HIDE DEF R
<1>3. PICK m \in S : \A k \in S : <<k, m>> \notin R
  BY <1>2, WFMin
<1>4. ASSUME NEW k \in S PROVE m <= k
  <2>1. k \in Nat /\ m \in Nat /\ <<k, m>> \notin R
    BY <1>3
  <2>2. ~(k < m)
    BY <1>1, <2>1
  <2>. QED  BY <2>1, <2>2
<1>. QED  BY <1>4

Rank(S, p) == Cardinality({q \in S : q <= p})

(* What part of a finite set of places lies up to one of them.             *)
LEMMA UpTo ==
    ASSUME NEW S \in SUBSET Nat, IsFiniteSet(S), NEW p
    PROVE  /\ IsFiniteSet({q \in S : q <= p})
           /\ Rank(S, p) \in Nat /\ Rank(S, p) <= Cardinality(S)
           /\ Cardinality(S) \in Nat
<1>1. {q \in S : q <= p} \in SUBSET S
  OBVIOUS
<1> QED
  BY <1>1, FS_Subset, FS_CardinalityType DEF Rank

(* A place further on has more places up to it.                            *)
LEMMA PlacesGrow ==
    ASSUME NEW S \in SUBSET Nat, IsFiniteSet(S), NEW i \in S, NEW j \in S, i < j
    PROVE  Rank(S, i) < Rank(S, j)
<1>. DEFINE lower == {k \in S : k <= i}
            upper == {k \in S : k <= j}
<1>1. IsFiniteSet(upper) /\ IsFiniteSet(lower) /\ Cardinality(lower) \in Nat /\ Cardinality(upper) \in Nat
  BY UpTo DEF Rank
<1>2. lower \in SUBSET upper /\ j \in upper /\ j \notin lower
  <2>1. i \in Nat /\ j \in Nat /\ \A k \in S : k \in Nat
    OBVIOUS
  <2>2. \A k \in S : k <= i => k <= j
    BY <2>1
  <2>3. ~(j <= i) /\ j <= j
    BY <2>1
  <2>4. \A k \in lower : k \in upper
    BY <2>2
  <2> QED
    BY <2>3, <2>4
<1>3. Cardinality(lower) <= Cardinality(upper) /\ Cardinality(lower) # Cardinality(upper)
  BY <1>1, <1>2, FS_Subset
<1> QED
  BY <1>1, <1>3 DEF Rank

(* The k-th place of a set is in it, with k places up to it, and no other  *)
(* place has as many.                                                      *)
LEMMA NthIs ==
    ASSUME NEW S \in SUBSET Nat, IsFiniteSet(S), NEW k \in 1..Cardinality(S)
    PROVE  /\ Nth(S, k) \in S /\ Rank(S, Nth(S, k)) = k
           /\ \A p \in S : Rank(S, p) = k => p = Nth(S, k)
<1>. DEFINE n == Cardinality(S)
            rank == [p \in S |-> Rank(S, p)]
<1>1. n \in Nat
  BY UpTo
<1>2. \A i, j \in S : i # j => rank[i] # rank[j]
  <2>1. SUFFICES ASSUME NEW i \in S, NEW j \in S, i < j PROVE rank[i] < rank[j]
    <3>1. \A i \in S : i \in Nat /\ rank[i] \in Nat
      BY UpTo
    <3> QED
      BY <2>1, <3>1
  <2> QED
    BY <2>1, PlacesGrow
<1>3. rank \in [S -> 1..n]
  <2>1. SUFFICES ASSUME NEW p \in S PROVE rank[p] \in 1..n
    OBVIOUS
  <2>2. rank[p] \in Nat /\ rank[p] <= n
    BY UpTo
  <2>3. p \in {q \in S : q <= p} /\ IsFiniteSet({q \in S : q <= p})
    BY UpTo
  <2>4. rank[p] # 0
    BY <2>3, FS_EmptySet DEF Rank
  <2> QED
    BY <1>1, <2>2, <2>4
<1>4. rank \in Injection(S, 1..n)
  BY <1>2, <1>3 DEF Injection, IsInjective
<1>5. IsFiniteSet(1..n) /\ Cardinality(1..n) = n
  BY <1>1, FS_Interval
<1>6. rank \in Surjection(S, 1..n)
  BY <1>4, <1>5, FS_Injection
<1>7. PICK p \in S : rank[p] = k
  BY <1>6 DEF Surjection
<1>8. Nth(S, k) \in S /\ Rank(S, Nth(S, k)) = k
  BY <1>7 DEF Rank, Nth
<1> QED
  BY <1>2, <1>8

(* A place behind all others is the last, and changes no other's number.   *)
LEMMA OneFurther ==
    ASSUME NEW S \in SUBSET Nat, IsFiniteSet(S), NEW m \in Nat, \A q \in S : q < m
    PROVE  /\ IsFiniteSet(S \cup {m}) /\ Cardinality(S \cup {m}) = Cardinality(S) + 1
           /\ Nth(S \cup {m}, Cardinality(S) + 1) = m
           /\ \A k \in 1..Cardinality(S) : Nth(S \cup {m}, k) = Nth(S, k)
<1>. SUFFICES ASSUME NEW T, T = S \cup {m}, NEW n, n = Cardinality(S)
              PROVE  /\ IsFiniteSet(T) /\ Cardinality(T) = n + 1 /\ Nth(T, n + 1) = m
                     /\ \A k \in 1..n : Nth(T, k) = Nth(S, k)
  OBVIOUS
<1>1. m \notin S /\ T \in SUBSET Nat /\ \A q \in S : q \in Nat /\ q < m
  OBVIOUS
<1>2. IsFiniteSet(T) /\ Cardinality(T) = n + 1 /\ n \in Nat
  BY <1>1, FS_AddElement, FS_CardinalityType
<1>3. ASSUME NEW k \in 1..n + 1 
      PROVE  Nth(T, k) \in T /\ \A p \in T : Rank(T, p) = k => p = Nth(T, k)
  BY <1>2, <1>3, <1>1, NthIs
<1>4. Nth(T, n + 1) = m
  <2>0. m <= m /\ m \in T /\ \A q \in T : q <= m
    BY <1>1
  <2>1. {q \in T : q <= m} = T
    BY <2>0
  <2>2. n + 1 \in 1..n + 1
    BY <1>2
  <2>3. \A p \in T : Rank(T, p) = n + 1 => p = Nth(T, n + 1)
    BY <1>3, <2>2
  <2> QED
    BY <1>2, <2>0, <2>1, <2>3 DEF Rank
<1>5. ASSUME NEW k \in 1..n PROVE Nth(T, k) = Nth(S, k)
  <2>1. Nth(S, k) \in S /\ Rank(S, Nth(S, k)) = k
    BY NthIs
  <2>2. {q \in T : q <= Nth(S, k)} = {q \in S : q <= Nth(S, k)}
    <3>1. Nth(S, k) \in Nat /\ Nth(S, k) < m
      BY <1>1, <2>1
    <3>2. ~(m <= Nth(S, k))
      BY <3>1
    <3> QED
      BY <3>2
  <2>3. k \in 1..n + 1
    BY <1>2
  <2>4. Nth(S, k) \in T /\ Rank(T, Nth(S, k)) = k
    BY <2>1, <2>2 DEF Rank
  <2> QED
    BY <1>3, <2>3, <2>4
<1> QED
  BY <1>2, <1>4, <1>5
-----------------------------------------------------------------------------
(***************************************************************************)
(* The line and its quotes                                                 *)
(***************************************************************************)

(* A line has a length, and places from its first to its last.             *)
LEMMA LineHasLength ==
    ASSUME typed \in TypedLines
    PROVE  Len(Text) \in Nat /\ DOMAIN Text = 1..Len(Text)
BY ParserAssumption DEF Text

LEMMA FirstOfIs ==
    ASSUME NEW S \in SUBSET Nat, S # {}
    PROVE  FirstOf(S) \in S /\ \A q \in S : FirstOf(S) <= q
<1>1. \E p \in S : \A q \in S : p <= q
  BY LeastPlace
<1> QED
  BY <1>1 DEF FirstOf

(* What the skipping of some characters steps over.                        *)
LEMMA PastIs ==
    ASSUME NEW p \in Nat, NEW last \in Nat, p <= last + 1, NEW chars
    PROVE  LET q == Past(p, last, chars)
           IN  /\ q \in Nat /\ p <= q /\ q <= last + 1
               /\ q <= last => Text[q] \notin chars
               /\ \A i \in p..q - 1 : Text[i] \in chars
<1>. DEFINE S == {i \in p..last + 1 : i > last \/ Text[i] \notin chars}
<1>1. S \in SUBSET Nat /\ last + 1 \in S
  OBVIOUS
<1>2. FirstOf(S) \in S /\ \A i \in S : FirstOf(S) <= i
  BY <1>1, FirstOfIs
<1>3. PICK q : q = FirstOf(S)
  OBVIOUS
<1>4. ASSUME NEW i \in p..q - 1 PROVE Text[i] \in chars
  BY <1>2, <1>3
<1> QED
  BY <1>2, <1>3, <1>4 DEF Past

(* What is left of a part of the line without the spaces at its end.       *)
LEMMA TrimmedIs ==
    ASSUME NEW last \in Nat
    PROVE  LET t == Trimmed(last)
           IN  /\ t \in Nat /\ t <= last
               /\ t # 0 => Text[t] # SPACE
               /\ \A j \in t + 1..last : Text[j] = SPACE
<1>. DEFINE S == {d \in 0..last : last - d = 0 \/ Text[last - d] # SPACE}
<1>1. S \in SUBSET Nat /\ last \in S
  OBVIOUS
<1>2. PICK d \in S : \A e \in S : d <= e
  BY <1>1, LeastPlace
<1>3. PICK i \in 0..last : i = last - d /\ d = last - i
  BY <1>1, <1>2
<1>4. ASSUME NEW j \in i + 1..last PROVE Text[j] = SPACE
  <2>1. PICK e \in 0..last : e = last - j /\ j = last - e
    BY <1>3
  <2>2. ~(d <= e) /\ j # 0
    BY <1>3, <2>1
  <2>3. e \notin S
    BY <1>2, <2>2
  <2> QED
    BY <2>1, <2>2, <2>3
<1>5. \E k \in 0..last : (k = 0 \/ Text[k] # SPACE) /\ \A j \in k + 1..last : Text[j] = SPACE
  BY <1>2, <1>3, <1>4
<1>6. PICK t : t = Trimmed(last)
  OBVIOUS
<1>7. t \in 0..last /\ (t = 0 \/ Text[t] # SPACE) /\ \A j \in t + 1..last : Text[j] = SPACE
  BY <1>5, <1>6 DEF Trimmed
<1> QED
  BY <1>6, <1>7

(* A quote takes what follows it in or out.                                *)
LEMMA InsideNext ==
    ASSUME NEW p \in Nat
    PROVE  Inside(p + 1) = (Inside(p) # (p # 0 /\ Text[p] = QUOTE))
<1>. DEFINE S(q) == {i \in 1..(q - 1) : Text[i] = QUOTE}
<1>1. IsFiniteSet(S(p)) /\ Cardinality(S(p)) \in Nat
  <2>1. S(p) \in SUBSET (1..p) /\ IsFiniteSet(1..p)
    BY FS_Interval
  <2> QED
    BY <2>1, FS_Subset, FS_CardinalityType
<1>2. S(p + 1) = IF p # 0 /\ Text[p] = QUOTE THEN S(p) \cup {p} ELSE S(p)
  OBVIOUS
<1>3. p \notin S(p)
  OBVIOUS
<1>4. Cardinality(S(p + 1)) = Cardinality(S(p)) + (IF p # 0 /\ Text[p] = QUOTE THEN 1 ELSE 0)
  <2>1. Cardinality(S(p) \cup {p}) = Cardinality(S(p)) + 1
    BY <1>1, <1>3, FS_AddElement
  <2>. HIDE DEF S
  <2> QED
    BY <1>1, <1>2, <2>1
<1>5. PICK n \in Nat : n = Cardinality(S(p))
  BY <1>1
<1>6. (n + 1) % 2 = 1 <=> ~(n % 2 = 1)
  OBVIOUS
<1> QED
  BY <1>4, <1>5, <1>6 DEF Inside

(* Where there are no quotes, nothing goes in or out.                      *)
LEMMA InsideStays ==
    ASSUME NEW p \in Nat, NEW q \in Nat, 1 <= p, p <= q, \A i \in p..q - 1 : Text[i] # QUOTE
    PROVE  Inside(q) = Inside(p)
<1>1. {i \in 1..(q - 1) : Text[i] = QUOTE} = {i \in 1..(p - 1) : Text[i] = QUOTE}
  OBVIOUS
<1> QED
  BY <1>1 DEF Inside
-----------------------------------------------------------------------------
(***************************************************************************)
(* The words of a part of the line, read one byte further                  *)
(***************************************************************************)

Places(a, b) == {p \in a..b : ~Gap(p) /\ Text[p] # QUOTE}
BytesAt(S) == [k \in 1..Cardinality(S) |-> Byte(Nth(S, k))]
AnyByte == {Byte(p) : p \in Nat}
AnyFlag == BOOLEAN
AnyWord == [quoted : AnyFlag, bytes : Seq(AnyByte)]

(* A part of the line has finitely many places.                            *)
LEMMA PartsAreFinite ==
    ASSUME NEW a \in Nat, NEW b \in Nat, NEW S \in SUBSET (a..b)
    PROVE  S \in SUBSET Nat /\ IsFiniteSet(S) /\ Cardinality(S) \in Nat
<1>1. IsFiniteSet(a..b) /\ a..b \in SUBSET Nat
  BY FS_Interval
<1> QED
  BY <1>1, FS_Subset, FS_CardinalityType

(* The bytes at the places of a set are a sequence, and a place behind     *)
(* them adds its byte at the end.                                          *)
LEMMA BytesAtIs ==
    ASSUME NEW S \in SUBSET Nat, IsFiniteSet(S)
    PROVE  BytesAt(S) \in Seq(AnyByte) /\ Len(BytesAt(S)) = Cardinality(S)
<1>1. PICK n \in Nat : n = Cardinality(S)
  BY UpTo
<1>2. \A k \in 1..n : Byte(Nth(S, k)) \in AnyByte
  BY <1>1, NthIs DEF AnyByte
<1>3. BytesAt(S) \in [1..n -> AnyByte]
  BY <1>1, <1>2 DEF BytesAt
<1> QED
  BY <1>1, <1>3

LEMMA OneMore ==
    ASSUME NEW T, NEW s \in Seq(T), NEW e \in T, NEW n \in Nat, n = Len(s),
           NEW t \in Seq(T), Len(t) = n + 1, \A k \in 1..n : t[k] = s[k], t[n + 1] = e
    PROVE  t = Append(s, e)
<1>1. PICK u \in Seq(T) : u = Append(s, e)
  BY AppendProperties
<1>2. Len(u) = n + 1 /\ (\A k \in 1..n : u[k] = s[k]) /\ u[n + 1] = e
  BY <1>1, AppendProperties
<1>3. \A k \in 1..n + 1 : t[k] = u[k]
  BY <1>2
<1>4. t = u
  BY <1>2, <1>3, SeqEqual
<1> QED
  BY <1>1, <1>4

LEMMA BytesAtGrows ==
    ASSUME NEW S \in SUBSET Nat, IsFiniteSet(S), NEW m \in Nat, \A q \in S : q < m
    PROVE  BytesAt(S \cup {m}) = Append(BytesAt(S), Byte(m))
<1>1. PICK n \in Nat : n = Cardinality(S)
  BY UpTo
<1>2. /\ Cardinality(S \cup {m}) = n + 1 /\ Nth(S \cup {m}, n + 1) = m
      /\ \A k \in 1..n : Nth(S \cup {m}, k) = Nth(S, k)
  BY <1>1, OneFurther
<1>3. BytesAt(S) \in Seq(AnyByte) /\ Len(BytesAt(S)) = n
  BY <1>1, BytesAtIs
<1>4. PICK s : s = BytesAt(S)
  OBVIOUS
<1>5. /\ s \in Seq(AnyByte) /\ Len(s) = n /\ \A k \in 1..n : s[k] = Byte(Nth(S, k))
  BY <1>1, <1>3, <1>4 DEF BytesAt
<1>6. PICK t : t = BytesAt(S \cup {m})
  OBVIOUS
<1>7. t \in Seq(AnyByte) /\ Len(t) = n + 1
  BY <1>2, <1>6, OneFurther, BytesAtIs
<1>8. \A k \in 1..n + 1 : t[k] = Byte(Nth(S \cup {m}, k))
  BY <1>2, <1>6 DEF BytesAt
<1>9. (\A k \in 1..n : t[k] = s[k]) /\ t[n + 1] = Byte(m)
  <2>1. n + 1 \in 1..n + 1 /\ \A k \in 1..n : k \in 1..n + 1
    OBVIOUS
  <2> QED
    BY <1>2, <1>5, <1>8, <2>1
<1>10. Byte(m) \in AnyByte
  BY DEF AnyByte
<1>11. t = Append(s, Byte(m))
  BY <1>5, <1>7, <1>9, <1>10, OneMore
<1> QED
  BY <1>4, <1>6, <1>11

LEMMA BytesIs ==
    ASSUME NEW a \in Nat, NEW b \in Nat
    PROVE  /\ Bytes(a, b) = BytesAt(Places(a, b)) /\ Bytes(a, b) \in Seq(AnyByte)
           /\ a > b => Bytes(a, b) = << >>
<1>1. Bytes(a, b) = BytesAt(Places(a, b))
  BY DEF Bytes, BytesAt, Places
<1>2. Places(a, b) \in SUBSET (a..b)
  BY DEF Places
<1>3. Bytes(a, b) \in Seq(AnyByte) /\ Len(Bytes(a, b)) = Cardinality(Places(a, b))
  BY <1>1, <1>2, PartsAreFinite, BytesAtIs
<1>4. ASSUME a > b PROVE Bytes(a, b) = << >>
  <2>1. Places(a, b) = {}
    BY <1>2, <1>4
  <2>2. Len(Bytes(a, b)) = 0
    BY <1>3, <2>1, FS_EmptySet
  <2> QED
    BY <1>3, <2>2
<1> QED
  BY <1>1, <1>3, <1>4

LEMMA BytesGrow ==
    ASSUME NEW a \in Nat, NEW m \in Nat, 1 <= a, a <= m
    PROVE  Bytes(a, m) = IF Gap(m) \/ Text[m] = QUOTE THEN Bytes(a, m - 1)
                         ELSE Append(Bytes(a, m - 1), Byte(m))
<1>0. PICK l \in Nat : l = m - 1
  OBVIOUS
<1>1. Bytes(a, m) = BytesAt(Places(a, m)) /\ Bytes(a, l) = BytesAt(Places(a, l))
  BY BytesIs
<1>2. Places(a, m) = IF Gap(m) \/ Text[m] = QUOTE THEN Places(a, l) ELSE Places(a, l) \cup {m}
  BY <1>0 DEF Places
<1>3. Places(a, l) \in SUBSET (a..l) /\ \A q \in Places(a, l) : q < m
  BY <1>0 DEF Places
<1>4. Places(a, l) \in SUBSET Nat /\ IsFiniteSet(Places(a, l))
  <2>1. PICK S : S = Places(a, l)
    OBVIOUS
  <2>2. S \in SUBSET (a..l)
    BY <1>3, <2>1
  <2>3. S \in SUBSET Nat /\ IsFiniteSet(S)
    BY <2>2, PartsAreFinite
  <2> QED
    BY <2>1, <2>3
<1>5. BytesAt(Places(a, l) \cup {m}) = Append(BytesAt(Places(a, l)), Byte(m))
  BY <1>3, <1>4, BytesAtGrows
<1> QED
  BY <1>0, <1>1, <1>2, <1>5

(* The words that begin at the places of a set, the last one up to b.      *)
End(S, k, b) == IF k = Cardinality(S) THEN b ELSE Nth(S, k + 1) - 1
Word(S, k, b) == [quoted |-> Text[Nth(S, k)] = QUOTE, bytes |-> Bytes(Nth(S, k), End(S, k, b))]
Quoted(p) == Text[p] = QUOTE
WordsAt(S, b) == [k \in 1..Cardinality(S) |-> Word(S, k, b)]

LEMMA WordsAre ==
    ASSUME NEW a, NEW b
    PROVE  Words(a, b) = WordsAt(FirstBytes(a, b), b)
BY DEF Words, WordsAt, Word, End

(* A word begins at a place of the set and ends where the next one begins. *)
LEMMA EndsAre ==
    ASSUME NEW S \in SUBSET Nat, IsFiniteSet(S), NEW b \in Nat, \A q \in S : 1 <= q,
           NEW k \in 1..Cardinality(S)
    PROVE  Nth(S, k) \in S /\ End(S, k, b) \in Nat
<1>1. PICK n \in Nat : n = Cardinality(S)
  BY UpTo
<1>2. Nth(S, k) \in S
  BY NthIs
<1>3. ASSUME k # n PROVE Nth(S, k + 1) - 1 \in Nat
  <2>1. k + 1 \in 1..Cardinality(S)
    BY <1>1, <1>3
  <2>2. Nth(S, k + 1) \in S
    BY <2>1, NthIs
  <2>3. Nth(S, k + 1) \in Nat /\ 1 <= Nth(S, k + 1)
    BY <2>2
  <2> QED
    BY <2>3
<1> QED
  BY <1>1, <1>2, <1>3 DEF End

LEMMA WordsAtIs ==
    ASSUME NEW S \in SUBSET Nat, IsFiniteSet(S), NEW b \in Nat, \A q \in S : 1 <= q
    PROVE  WordsAt(S, b) \in Seq(AnyWord) /\ Len(WordsAt(S, b)) = Cardinality(S)
<1>1. PICK n \in Nat : n = Cardinality(S)
  BY UpTo
<1>2. ASSUME NEW k \in 1..n PROVE Word(S, k, b) \in AnyWord
  BY <1>1, EndsAre, BytesIs DEF Word, AnyWord, AnyFlag
<1>3. WordsAt(S, b) \in [1..n -> AnyWord]
  BY <1>1, <1>2 DEF WordsAt
<1> QED
  BY <1>1, <1>3

(* There is a word for each place of the part where one begins.            *)
LEMMA FirstBytesAre ==
    ASSUME NEW a \in Nat, NEW b \in Nat, 1 <= a
    PROVE  /\ FirstBytes(a, b) \in SUBSET Nat /\ IsFiniteSet(FirstBytes(a, b))
           /\ \A q \in FirstBytes(a, b) : 1 <= q /\ a <= q /\ q <= b
           /\ Words(a, b) \in Seq(AnyWord) /\ Len(Words(a, b)) = Cardinality(FirstBytes(a, b))
<1>1. FirstBytes(a, b) \in SUBSET (a..b)
  BY DEF FirstBytes
<1>2. FirstBytes(a, b) \in SUBSET Nat /\ IsFiniteSet(FirstBytes(a, b))
  <2>1. PICK S : S = FirstBytes(a, b)
    OBVIOUS
  <2>2. S \in SUBSET (a..b)
    BY <1>1, <2>1
  <2>3. S \in SUBSET Nat /\ IsFiniteSet(S)
    BY <2>2, PartsAreFinite
  <2> QED
    BY <2>1, <2>3
<1>3. \A q \in FirstBytes(a, b) : 1 <= q /\ a <= q /\ q <= b
  BY <1>1
<1> QED
  BY <1>2, <1>3, WordsAtIs, WordsAre

(* A word begins: the words so far, and that word.                         *)
LEMMA WordsBegin ==
    ASSUME NEW a \in Nat, NEW m \in Nat, 1 <= a, a <= m, m \in FirstBytes(a, m)
    PROVE  /\ FirstBytes(a, m) = FirstBytes(a, m - 1) \cup {m}
           /\ Words(a, m) = Append(Words(a, m - 1), [quoted |-> Text[m] = QUOTE, bytes |-> Bytes(m, m)])
<1>1. PICK l \in Nat : l = m - 1
  OBVIOUS
<1>2. PICK S : S = FirstBytes(a, l)
  OBVIOUS
<1>3. /\ S \in SUBSET Nat /\ IsFiniteSet(S) /\ \A q \in S : 1 <= q /\ q < m
      /\ Words(a, l) \in Seq(AnyWord) /\ Len(Words(a, l)) = Cardinality(S)
  <2>1. /\ S \in SUBSET Nat /\ IsFiniteSet(S) /\ \A q \in S : 1 <= q /\ q <= l
        /\ Words(a, l) \in Seq(AnyWord) /\ Len(Words(a, l)) = Cardinality(S)
    BY <1>2, FirstBytesAre
  <2>2. \A q \in S : q \in Nat /\ q < m
    BY <1>1, <2>1
  <2> QED
    BY <2>1, <2>2
<1>4. FirstBytes(a, m) = S \cup {m}
  BY <1>1, <1>2 DEF FirstBytes
<1>5. PICK n \in Nat : n = Cardinality(S)
  BY <1>3, UpTo
<1>6. PICK T : T = S \cup {m}
  OBVIOUS
<1>7. /\ Cardinality(T) = n + 1 /\ Nth(T, n + 1) = m
      /\ \A k \in 1..n : Nth(T, k) = Nth(S, k)
  BY <1>3, <1>5, <1>6, OneFurther
<1>8. PICK t : t = Words(a, m)
  OBVIOUS
<1>9. t = WordsAt(T, m) /\ t \in Seq(AnyWord) /\ Len(t) = n + 1
  BY <1>4, <1>6, <1>7, <1>8, FirstBytesAre, WordsAre
<1>10. PICK s : s = Words(a, l)
  OBVIOUS
<1>11. s = WordsAt(S, l) /\ s \in Seq(AnyWord) /\ Len(s) = n
  BY <1>2, <1>3, <1>5, <1>10, WordsAre
<1>12. ASSUME NEW k \in 1..n PROVE t[k] = s[k]
  <2>1. t[k] = Word(T, k, m) /\ s[k] = Word(S, k, l)
    <3>1. k \in 1..n + 1
      OBVIOUS
    <3> QED
      BY <1>5, <1>7, <1>9, <1>11, <3>1 DEF WordsAt
  <2>2. End(T, k, m) = End(S, k, l)
    <3>1. CASE k = n
      BY <1>1, <1>5, <1>7, <3>1 DEF End
    <3>2. CASE k # n
      BY <3>2, <1>5, <1>7 DEF End
    <3> QED
      BY <3>1, <3>2
  <2> QED
    BY <1>7, <2>1, <2>2 DEF Word
<1>13. t[n + 1] = [quoted |-> Text[m] = QUOTE, bytes |-> Bytes(m, m)]
  BY <1>7, <1>9 DEF WordsAt, Word, End
<1>14. [quoted |-> Text[m] = QUOTE, bytes |-> Bytes(m, m)] \in AnyWord
  BY BytesIs DEF AnyWord, AnyFlag
<1>15. t = Append(s, [quoted |-> Text[m] = QUOTE, bytes |-> Bytes(m, m)])
  BY <1>9, <1>11, <1>12, <1>13, <1>14, OneMore
<1> QED
  BY <1>1, <1>2, <1>4, <1>8, <1>10, <1>15

(* A byte that begins no word is the last word's, unless it is a gap or a  *)
(* quote.                                                                  *)
LEMMA WordsGrow ==
    ASSUME NEW a \in Nat, NEW m \in Nat, 1 <= a, a <= m, m \notin FirstBytes(a, m),
           NEW x \in FirstBytes(a, m - 1), \A q \in FirstBytes(a, m - 1) : q <= x
    PROVE  LET s == Words(a, m - 1)
           IN  /\ FirstBytes(a, m) = FirstBytes(a, m - 1) /\ Len(s) \in Nat \ {0}
               /\ Words(a, m) = IF Gap(m) \/ Text[m] = QUOTE THEN s
                                ELSE [s EXCEPT ![Len(s)].bytes = Append(@, Byte(m))]
<1>1. PICK l \in Nat : l = m - 1
  OBVIOUS
<1>2. PICK S : S = FirstBytes(a, l)
  OBVIOUS
<1>3. /\ S \in SUBSET Nat /\ IsFiniteSet(S) /\ \A q \in S : 1 <= q /\ q < m
      /\ Words(a, l) \in Seq(AnyWord) /\ Len(Words(a, l)) = Cardinality(S)
  <2>1. /\ S \in SUBSET Nat /\ IsFiniteSet(S) /\ \A q \in S : 1 <= q /\ q <= l
        /\ Words(a, l) \in Seq(AnyWord) /\ Len(Words(a, l)) = Cardinality(S)
    BY <1>2, FirstBytesAre
  <2>2. \A q \in S : q \in Nat /\ q < m
    BY <1>1, <2>1
  <2> QED
    BY <2>1, <2>2
<1>4. FirstBytes(a, m) = S
  BY <1>1, <1>2 DEF FirstBytes
<1>5. PICK n \in Nat : n = Cardinality(S)
  BY <1>3, UpTo
<1>6. x \in S /\ x \in Nat /\ \A q \in S : q <= x
  BY <1>1, <1>2, <1>3
<1>7. n # 0 /\ n \in 1..n /\ Nth(S, n) = x
  <2>1. n # 0
    BY <1>3, <1>5, <1>6, FS_EmptySet
  <2>2. {q \in S : q <= x} = S
    BY <1>6
  <2>3. Rank(S, x) = n
    BY <1>5, <2>2 DEF Rank
  <2>4. n \in 1..n
    BY <2>1
  <2>5. \A p \in S : Rank(S, p) = n => p = Nth(S, n)
    BY <1>3, <1>5, <2>4, NthIs
  <2> QED
    BY <1>6, <2>1, <2>3, <2>4, <2>5
<1>8. PICK t : t = Words(a, m)
  OBVIOUS
<1>9. t = WordsAt(S, m) /\ t \in Seq(AnyWord) /\ Len(t) = n
  BY <1>4, <1>5, <1>8, FirstBytesAre, WordsAre
<1>10. PICK s : s = Words(a, l)
  OBVIOUS
<1>11. s = WordsAt(S, l) /\ s \in Seq(AnyWord) /\ Len(s) = n
  BY <1>2, <1>3, <1>5, <1>10, WordsAre
<1>12. ASSUME NEW k \in 1..n, k # n PROVE t[k] = s[k]
  BY <1>5, <1>9, <1>11, <1>12 DEF WordsAt, End, Word
<1>13. /\ t[n] = [quoted |-> Quoted(x), bytes |-> Bytes(x, m)]
       /\ s[n] = [quoted |-> Quoted(x), bytes |-> Bytes(x, l)]
  BY <1>5, <1>7, <1>9, <1>11 DEF WordsAt, End, Word, Quoted
<1>14. Bytes(x, m) = IF Gap(m) \/ Text[m] = QUOTE THEN Bytes(x, l) ELSE Append(Bytes(x, l), Byte(m))
  BY <1>1, <1>3, <1>6, BytesGrow
<1>15. CASE Gap(m) \/ Text[m] = QUOTE
  <2>1. t[n] = s[n]
    BY <1>13, <1>14, <1>15
  <2>2. \A k \in 1..n : t[k] = s[k]
    BY <1>12, <2>1
  <2>3. t = s
    BY <1>9, <1>11, <2>2, SeqEqual
  <2> QED
    BY <1>1, <1>2, <1>4, <1>7, <1>8, <1>10, <1>11, <1>15, <2>3
<1>16. CASE ~(Gap(m) \/ Text[m] = QUOTE)
  <2>1. PICK u : u = [s EXCEPT ![n].bytes = Append(@, Byte(m))]
    OBVIOUS
  <2>2. /\ DOMAIN u = 1..n /\ DOMAIN s = 1..n /\ \A k \in 1..n : k # n => u[k] = s[k]
        /\ u[n] = [s[n] EXCEPT !.bytes = Append(@, Byte(m))]
    BY <1>7, <1>11, <2>1
  <2>3. u[n] = t[n]
    <3>1. Bytes(x, m) = Append(Bytes(x, l), Byte(m))
      BY <1>14, <1>16
    <3>2. PICK v : v = s[n]
      OBVIOUS
    <3>3. v = [quoted |-> Quoted(x), bytes |-> Bytes(x, l)]
      BY <1>13, <3>2
    <3>4. [v EXCEPT !.bytes = Append(@, Byte(m))]
          = [quoted |-> Quoted(x), bytes |-> Append(Bytes(x, l), Byte(m))]
      <4>1. ASSUME NEW q, NEW b, NEW w
            PROVE  [[quoted |-> q, bytes |-> b] EXCEPT !.bytes = Append(@, w)]
                   = [quoted |-> q, bytes |-> Append(b, w)]
        OBVIOUS
      <4> QED
        BY <3>3, <4>1
    <3> QED
      BY <1>13, <2>2, <3>1, <3>2, <3>4
  <2>4. \A k \in 1..n : t[k] = u[k]
    BY <1>12, <2>2, <2>3
  <2>5. t = u
    <3>1. u \in [1..n -> AnyWord]
      <4>1. \A k \in 1..n : u[k] \in AnyWord
        BY <1>9, <2>4
      <4>2. u = [k \in 1..n |-> u[k]]
        BY <1>11, <2>1, <2>2
      <4> QED
        BY <4>1, <4>2
    <3>2. u \in Seq(AnyWord) /\ Len(u) = n
      BY <3>1
    <3> QED
      BY <1>9, <2>4, <3>2, SeqEqual
  <2> QED
    BY <1>1, <1>2, <1>4, <1>7, <1>8, <1>10, <1>11, <1>16, <2>1, <2>5
<1> QED
  BY <1>15, <1>16

(* Gaps at the end of a part, and at its beginning, are in no word.        *)
LEMMA TailGaps ==
    ASSUME NEW a \in Nat, NEW b \in Nat, NEW c \in Nat, 1 <= a, b <= c,
           \A p \in b + 1..c : Gap(p)
    PROVE  FirstBytes(a, c) = FirstBytes(a, b) /\ Words(a, c) = Words(a, b)
<1>1. PICK S : S = FirstBytes(a, b)
  OBVIOUS
<1>2. FirstBytes(a, c) = S
  BY <1>1 DEF FirstBytes
<1>3. S \in SUBSET Nat /\ IsFiniteSet(S) /\ \A q \in S : 1 <= q
  BY <1>1, FirstBytesAre
<1>4. PICK n \in Nat : n = Cardinality(S)
  BY <1>3, UpTo
<1>5. ASSUME NEW k \in 1..n PROVE Word(S, k, c) = Word(S, k, b)
  <2>1. Nth(S, k) \in Nat
    BY <1>3, <1>4, NthIs
  <2>2. CASE k # n
    BY <1>4, <2>2 DEF Word, End
  <2>3. CASE k = n
    <3>1. PICK x \in Nat : x = Nth(S, n)
      BY <2>1, <2>3
    <3>2. Places(x, c) = Places(x, b)
      BY DEF Places
    <3>3. Bytes(x, c) = Bytes(x, b)
      BY <3>2, BytesIs
    <3> QED
      BY <1>4, <2>3, <3>1, <3>3 DEF Word, End
  <2> QED
    BY <2>2, <2>3
<1>6. WordsAt(S, c) = WordsAt(S, b)
  BY <1>4, <1>5 DEF WordsAt
<1> QED
  BY <1>1, <1>2, <1>6, WordsAre

LEMMA HeadGaps ==
    ASSUME NEW a \in Nat, NEW b \in Nat, NEW c \in Nat, 1 <= a, a <= b, \A p \in a..b - 1 : Gap(p)
    PROVE  FirstBytes(a, c) = FirstBytes(b, c) /\ Words(a, c) = Words(b, c)
<1>1. FirstBytes(a, c) \in SUBSET FirstBytes(b, c)
  <2>1. SUFFICES ASSUME NEW p \in FirstBytes(a, c) PROVE p \in FirstBytes(b, c)
    OBVIOUS
  <2>2. p \in a..c /\ ~Gap(p) /\ ~Inside(p) /\ (p = a \/ Gap(p - 1) \/ Text[p] = SLASH)
    BY <2>1 DEF FirstBytes
  <2>3. p \in b..c
    BY <2>2
  <2>4. p = a => p = b
    BY <2>3
  <2> QED
    BY <2>2, <2>3, <2>4 DEF FirstBytes
<1>2. FirstBytes(b, c) \in SUBSET FirstBytes(a, c)
  <2>1. SUFFICES ASSUME NEW p \in FirstBytes(b, c) PROVE p \in FirstBytes(a, c)
    OBVIOUS
  <2>2. p \in b..c /\ ~Gap(p) /\ ~Inside(p) /\ (p = b \/ Gap(p - 1) \/ Text[p] = SLASH)
    BY <2>1 DEF FirstBytes
  <2>3. p \in a..c
    BY <2>2
  <2>4. p = b => p = a \/ Gap(p - 1)
    OBVIOUS
  <2> QED
    BY <2>2, <2>3, <2>4 DEF FirstBytes
<1> QED
  BY <1>1, <1>2, WordsAre
-----------------------------------------------------------------------------
(***************************************************************************)
(* The invariant                                                           *)
(***************************************************************************)

Cut == Trimmed(op - 1)
Here == Past(1, Cut, {SPACE, ATSIGN})
Target == Words(Behind, Len(Text))

(* Where the line ends is known, and the arrow.                            *)
Known ==
    /\ typed \in TypedLines
    /\ op = 0 => Arrows = {}
    /\ op # 0 => /\ op \in Arrows /\ Arrows \subseteq {op, op + 1} /\ append = (op + 1 \in Arrows)
                 /\ Balanced

(* The command in front of the arrow may have its output sent to a file.   *)
Ordered == Here <= Cut /\ Chars(Words(BodyFrom, Body)[1].bytes) \in Redirectable

(* The output goes to the one file behind the arrow.                       *)
Sent ==
    /\ Len(Target) = 1 /\ path(Target[1].bytes).ok
    /\ output = [dev |-> path(Target[1].bytes).dev, name |-> path(Target[1].bytes).name]

Settled == IF op = 0 THEN output = Screen ELSE Ordered /\ Sent

(* What is split is what the command is.                                   *)
Whole ==
    /\ Words(from, upto) = Words(BodyFrom, Body) /\ FirstBytes(from, upto) = FirstBytes(BodyFrom, Body)
    /\ Inside(upto + 1) => ~Balanced
    /\ from > upto => BodyFrom > Body

ScanInv ==
    parser = "scan" =>
      /\ typed \in TypedLines /\ r \in 1..Len(Text) + 1 /\ quote \in BOOLEAN /\ quote = Inside(r)
      /\ output = Screen
      /\ op = 0 => \A p \in Arrows : r <= p
      /\ op # 0 => /\ op \in Arrows /\ op < r /\ append = (op + 1 \in Arrows) /\ (append => op + 1 < r)
                   /\ \A p \in Arrows : r <= p \/ p \in {op, op + 1}

CommandInv ==
    parser = "command" =>
      /\ Known /\ Settled
      /\ IF op = 0 THEN from = 1 /\ upto = Len(Text) ELSE from = Here /\ upto = Cut

PurposeInv ==
    parser \in {"words", "word"} =>
      /\ Known /\ why \in {"run", "check", "target"}
      /\ why = "run" => Whole /\ Settled
      /\ why = "check" => Whole /\ op # 0 /\ from = Here
      /\ why = "target" => op # 0 /\ from = Behind /\ upto = Len(Text) /\ Ordered

(* A word that begins at r has no byte yet.                                *)
Fresh ==
    /\ r <= upto /\ r \in FirstBytes(from, r) /\ ~Separates(Text[r])
    /\ args = Append(Words(from, r - 1), [quoted |-> Text[r] = QUOTE, bytes |-> <<>>])

(* A word that began before has its bytes so far.                          *)
Going ==
    /\ from < r /\ ~Gap(r - 1) /\ args = Words(from, r - 1)
    /\ \E x \in FirstBytes(from, r - 1) : \A q \in FirstBytes(from, r - 1) : q <= x

SplitInv ==
    parser \in {"words", "word"} =>
      /\ from \in Nat /\ upto \in Nat /\ r \in Nat /\ 1 <= from /\ from <= r /\ r <= upto + 1
      /\ quote \in BOOLEAN /\ quote = Inside(r)
      /\ parser = "words" => /\ ~quote /\ args = Words(from, r - 1)
                             /\ r = from \/ r > upto \/ Separates(Text[r])
      /\ parser = "word" => Fresh \/ Going

ParserInv ==
    /\ ScanInv /\ CommandInv /\ PurposeInv /\ SplitInv
    /\ WordsAreArguments /\ RedirectsWhatWasTyped

(* A step that leaves the line alone leaves its words alone.               *)
LEMMA LineStays ==
    ASSUME typed' = typed
    PROVE  /\ Text' = Text /\ Arrows' = Arrows /\ Arrow' = Arrow
           /\ Body' = Body /\ BodyFrom' = BodyFrom /\ Balanced' = Balanced
           /\ \A p, q : Words(p, q)' = Words(p, q) /\ FirstBytes(p, q)' = FirstBytes(p, q)
           /\ \A p : Inside(p)' = Inside(p) /\ Gap(p)' = Gap(p) /\ Trimmed(p)' = Trimmed(p)
           /\ \A p, q, c : Past(p, q, c)' = Past(p, q, c)
<1>1. Text' = Text /\ Arrows' = Arrows /\ Arrow' = Arrow
  BY DEF Arrow, Arrows, Text, FirstOf, Inside
<1>2. Body' = Body
  BY <1>1 DEF Body
<1>3. BodyFrom' = BodyFrom /\ Balanced' = Balanced
  BY DEF Arrow, Arrows, Text, FirstOf, Inside, Body, BodyFrom, Balanced, Past, Prefixed
<1>4. \A p, q : Words(p, q)' = Words(p, q) /\ FirstBytes(p, q)' = FirstBytes(p, q)
  BY DEF Words, FirstBytes, Inside, Gap, Text, Byte, Bytes
<1>5. \A p : Inside(p)' = Inside(p) /\ Gap(p)' = Gap(p) /\ Trimmed(p)' = Trimmed(p)
  BY DEF Inside, Gap, Text, Trimmed
<1>6. \A p, q, c : Past(p, q, c)' = Past(p, q, c)
  BY DEF Past, Text, FirstOf
<1> QED
  BY <1>1, <1>2, <1>3, <1>4, <1>5, <1>6

LEMMA KnownStays ==
    ASSUME UNCHANGED <<typed, op, append>>
    PROVE  Known' = Known /\ Ordered' = Ordered /\ Cut' = Cut /\ Here' = Here /\ Target' = Target /\ Behind' = Behind
<1>1. Cut' = Cut
  BY LineStays DEF Cut
<1>2. Here' = Here
  BY <1>1, LineStays DEF Here
<1>3. Behind' = Behind
  BY DEF Behind
<1>4. Target' = Target
  BY <1>3, LineStays DEF Target
<1>5. Known' = Known
  BY LineStays DEF Known
<1>6. Ordered' = Ordered
  BY <1>1, <1>2, LineStays DEF Ordered, Chars
<1> QED
  BY <1>1, <1>2, <1>3, <1>4, <1>5, <1>6

LEMMA SettledStays ==
    ASSUME UNCHANGED <<typed, op, append, output>>
    PROVE  Settled' = Settled
<1>1. Sent' = Sent
  BY KnownStays DEF Sent
<1> QED
  BY <1>1, KnownStays DEF Settled, Screen

-----------------------------------------------------------------------------
(* The arrow, and what is in front of it                                   *)

LEMMA NotInside ==
    ASSUME NEW q \in Nat, 1 <= q, \A i \in 1..q - 1 : Text[i] # QUOTE
    PROVE  ~Inside(q)
<1>1. {i \in 1..(1 - 1) : Text[i] = QUOTE} = {}
  OBVIOUS
<1>2. ~Inside(1)
  BY <1>1, FS_EmptySet DEF Inside
<1> QED
  BY <1>2, InsideStays

LEMMA ArrowIs ==
    ASSUME Known, op # 0
    PROVE  /\ Arrow = op /\ Body = op - 1 /\ op \in Nat /\ op - 1 \in Nat /\ op <= Len(Text)
           /\ ~Inside(op) /\ Text[op] = GREATER
<1>1. op \in Nat /\ 1 <= op /\ op <= Len(Text) /\ ~Inside(op) /\ Text[op] = GREATER /\ op \in Arrows
  BY DEF Known, Arrows
<1>2. Arrows \in SUBSET Nat
  BY DEF Arrows
<1>3. Arrow \in Arrows /\ Arrow <= op
  BY <1>1, <1>2, FirstOfIs DEF Arrow
<1>4. Arrow \in {op, op + 1}
  BY <1>3 DEF Known
<1>5. Arrow = op
  BY <1>1, <1>3, <1>4
<1> QED
  BY <1>1, <1>5 DEF Body

(* The spaces in front of the arrow are gaps, and so is what the command   *)
(* is found behind.                                                        *)
LEMMA HereIs ==
    ASSUME Known, op # 0
    PROVE  /\ Cut \in Nat /\ Here \in Nat /\ Cut <= op - 1 /\ 1 <= Here /\ Here <= Cut + 1
           /\ \A i \in 1..Here : ~Inside(i)
           /\ Here <= Cut => Text[Here] \notin {SPACE, ATSIGN}
           /\ \A j \in Cut + 1..op - 1 : Gap(j)
           /\ ~Inside(Cut + 1)
           /\ Here <= Cut => BodyFrom = Here
           /\ Here > Cut => BodyFrom = op
<1>1. op \in Nat /\ op - 1 \in Nat /\ ~Inside(op) /\ Body = op - 1 /\ Arrows # {}
  BY ArrowIs DEF Known
<1>2. PICK l \in Nat : l = op - 1 /\ op = l + 1
  BY <1>1
<1>3. /\ Cut \in Nat /\ Cut <= l /\ \A j \in Cut + 1..l : Text[j] = SPACE
  BY <1>2, TrimmedIs DEF Cut
<1>4. /\ Here \in Nat /\ 1 <= Here /\ Here <= Cut + 1 /\ \A i \in 1..Here - 1 : Text[i] \in {SPACE, ATSIGN}
      /\ Here <= Cut => Text[Here] \notin {SPACE, ATSIGN}
  BY <1>3, PastIs DEF Here
<1>5. QUOTE \notin {SPACE, ATSIGN}
  BY ParserAssumption
<1>6. \A i \in 1..Here : ~Inside(i)
  <2>1. SUFFICES ASSUME NEW i \in 1..Here PROVE ~Inside(i)
    OBVIOUS
  <2>2. \A k \in 1..i - 1 : Text[k] # QUOTE
    BY <1>4, <1>5
  <2>3. i \in Nat /\ 1 <= i
    BY <1>4
  <2> QED
    BY <2>2, <2>3, NotInside
<1>7. \A j \in Cut + 1..op : ~Inside(j)
  <2>1. SUFFICES ASSUME NEW j \in Cut + 1..op PROVE ~Inside(j)
    OBVIOUS
  <2>2. j \in Nat /\ 1 <= j /\ j <= op /\ \A i \in j..op - 1 : Text[i] # QUOTE
    BY <1>2, <1>3, <1>5
  <2> QED
    BY <1>1, <2>2, InsideStays
<1>8. \A j \in Cut + 1..op - 1 : Gap(j)
  BY <1>2, <1>3, <1>7 DEF Gap
<1>9. ~Inside(Cut + 1)
  BY <1>2, <1>3, <1>7
<1>10. PICK b : b = Past(1, l, {SPACE, ATSIGN})
  OBVIOUS
<1>11. /\ b \in Nat /\ 1 <= b /\ b <= l + 1 /\ \A i \in 1..b - 1 : Text[i] \in {SPACE, ATSIGN}
       /\ b <= l => Text[b] \notin {SPACE, ATSIGN}
  BY <1>2, <1>10, PastIs
<1>12. BodyFrom = b
  BY <1>1, <1>2, <1>10 DEF BodyFrom
<1>13. ASSUME Here <= Cut PROVE b = Here
  BY <1>4, <1>11, <1>13, <1>3
<1>14. ASSUME Here > Cut PROVE b = op
  <2>1. \A i \in 1..l : Text[i] \in {SPACE, ATSIGN}
    BY <1>3, <1>4, <1>14
  <2>2. ~(b <= l)
    BY <1>11, <2>1
  <2> QED
    BY <1>2, <1>11, <2>2
<1> QED
  BY <1>1, <1>2, <1>3, <1>4, <1>6, <1>8, <1>9, <1>12, <1>13, <1>14

(* What is in front of the arrow, without what is skipped, is the command. *)
LEMMA HereIsWhole ==
    ASSUME Known, op # 0
    PROVE  /\ Words(Here, Cut) = Words(BodyFrom, Body) /\ FirstBytes(Here, Cut) = FirstBytes(BodyFrom, Body)
           /\ Here > Cut => BodyFrom > Body
<1>1. op \in Nat /\ op - 1 \in Nat /\ Body = op - 1
  BY ArrowIs
<1>2. PICK l \in Nat : l = op - 1 /\ op = l + 1
  BY <1>1
<1>3. PICK h \in Nat, t \in Nat : h = Here /\ t = Cut
  BY HereIs
<1>4. /\ t <= l /\ 1 <= h /\ h <= t + 1 /\ \A j \in t + 1..l : Gap(j)
      /\ h <= t => BodyFrom = h
      /\ h > t => BodyFrom = op
  BY <1>2, <1>3, HereIs
<1>5. Words(h, l) = Words(h, t) /\ FirstBytes(h, l) = FirstBytes(h, t)
  BY <1>4, TailGaps
<1>6. CASE h <= t
  BY <1>1, <1>2, <1>3, <1>4, <1>5, <1>6
<1>7. CASE h > t
  BY <1>2, <1>4, <1>7, <1>1, <1>3, <1>5, HeadGaps
<1> QED
  BY <1>3, <1>6, <1>7

(* A line without an arrow is all command.                                 *)
LEMMA AllIsWhole ==
    ASSUME Known, op = 0, NEW first, first = Prefixed(1, Len(Text)), first <= Len(Text)
    PROVE  /\ first \in Nat /\ 1 <= first /\ ~Inside(first)
           /\ Words(first, Len(Text)) = Words(BodyFrom, Body)
           /\ FirstBytes(first, Len(Text)) = FirstBytes(BodyFrom, Body)
           /\ Body = Len(Text)
<1>1. PICK n \in Nat : n = Len(Text)
  BY LineHasLength DEF Known
<1>2. PICK p : p = Past(1, n, {SPACE})
  OBVIOUS
<1>3. p \in Nat /\ 1 <= p /\ p <= n + 1 /\ \A i \in 1..p - 1 : Text[i] = SPACE
  BY <1>1, <1>2, PastIs
<1>4. first = IF p <= n /\ Text[p] = ATSIGN THEN p + 1 ELSE p
  BY <1>1, <1>2 DEF Prefixed
<1>5. /\ first \in Nat /\ 1 <= first /\ first <= n
      /\ \A i \in 1..first - 1 : Text[i] \in {SPACE, ATSIGN}
  BY <1>1, <1>3, <1>4
<1>6. QUOTE \notin {SPACE, ATSIGN}
  BY ParserAssumption
<1>7. PICK b : b = Past(first, n, {SPACE})
  OBVIOUS
<1>8. b \in Nat /\ first <= b /\ b <= n + 1 /\ \A i \in first..b - 1 : Text[i] = SPACE
  BY <1>1, <1>5, <1>7, PastIs
<1>9. ASSUME NEW i \in 1..b PROVE ~Inside(i)
  BY <1>5, <1>6, <1>8, NotInside
<1>10. \A j \in first..b - 1 : Gap(j)
  BY <1>5, <1>8, <1>9 DEF Gap
<1>11. Body = n /\ BodyFrom = b
  BY <1>1, <1>4, <1>7 DEF Known, Body, BodyFrom
<1>12. Words(first, n) = Words(b, n) /\ FirstBytes(first, n) = FirstBytes(b, n)
  BY <1>1, <1>5, <1>8, <1>10, HeadGaps
<1>13. ~Inside(first)
  BY <1>5, <1>8, <1>9
<1> QED
  BY <1>1, <1>5, <1>11, <1>12, <1>13

(* Behind the arrow, the line is not inside quotes.                        *)
LEMMA BehindIs ==
    ASSUME Known, op # 0
    PROVE  /\ Behind \in Nat /\ 1 <= Behind /\ Behind <= Len(Text) + 1 /\ ~Inside(Behind)
           /\ Behind = IF Arrow + 1 \in Arrows THEN Arrow + 2 ELSE Arrow + 1
<1>1. /\ Arrow = op /\ op \in Nat /\ op <= Len(Text) /\ ~Inside(op) /\ Text[op] = GREATER
      /\ append = (op + 1 \in Arrows)
  BY ArrowIs DEF Known
<1>2. Len(Text) \in Nat /\ GREATER # QUOTE
  BY LineHasLength, ParserAssumption DEF Known
<1>3. Inside(op + 1) = Inside(op)
  BY <1>1, <1>2, InsideStays DEF Known, Arrows
<1>4. CASE op + 1 \in Arrows
  <2>1. op + 1 \in Nat /\ op + 1 <= Len(Text) /\ Text[op + 1] = GREATER
    BY <1>1, <1>4 DEF Arrows
  <2>2. Inside(op + 2) = Inside(op + 1)
    BY <1>1, <1>2, <2>1, InsideStays
  <2>4. Behind = op + 2
    BY <1>1, <1>4 DEF Behind
  <2> QED
    BY <1>1, <1>2, <1>3, <1>4, <2>1, <2>2, <2>4
<1>5. CASE op + 1 \notin Arrows
  <2>1. Behind = op + 1
    BY <1>1, <1>5 DEF Behind
  <2> QED
    BY <1>1, <1>2, <1>3, <1>5, <2>1
<1> QED
  BY <1>4, <1>5

(* With the output settled, it goes where the line says.                   *)
LEMMA GoesThere ==
    ASSUME Known, Settled
    PROVE  /\ Arrows = {} => output = Screen
           /\ Arrows # {} =>
                /\ Balanced /\ Arrows \subseteq {Arrow, Arrow + 1} /\ append = (Arrow + 1 \in Arrows)
                /\ Sent /\ Chars(Words(BodyFrom, Body)[1].bytes) \in Redirectable
                /\ Target = Words(IF Arrow + 1 \in Arrows THEN Arrow + 2 ELSE Arrow + 1, Len(Text))
<1>1. CASE op = 0
  BY <1>1 DEF Known, Settled
<1>2. CASE op # 0
  BY <1>2, ArrowIs, BehindIs DEF Known, Settled, Ordered, Target
<1> QED
  BY <1>1, <1>2

(* A name that is in order names a drive.                                  *)
LEMMA DrivesAreReal ==
    ASSUME NEW bytes, path(bytes).ok
    PROVE  path(bytes).dev \in {0} \cup 8..30
BY ParserAssumption DEF path

(* The answers of a step that leaves the line and the output alone.        *)
LEMMA AnswersAreReal ==
    ASSUME Known, Settled, UNCHANGED <<typed, op, append, output>>, answered' \in {"run", "unparsed", "nothing"}
    PROVE  RedirectsWhatWasTyped'
<1>1. /\ Arrows' = {} => output' = Screen'
      /\ Arrows' # {} =>
            /\ Balanced' /\ Arrows' \subseteq {Arrow', Arrow' + 1} /\ append' = (Arrow' + 1 \in Arrows')
            /\ Sent /\ Chars(Words(BodyFrom, Body)[1].bytes) \in Redirectable
            /\ Target = Words(IF Arrow + 1 \in Arrows THEN Arrow + 2 ELSE Arrow + 1, Len(Text))
  BY GoesThere, LineStays DEF Screen
<1>2. PICK t : t = Words(IF Arrow + 1 \in Arrows THEN Arrow + 2 ELSE Arrow + 1, Len(Text))
  OBVIOUS
<1>3. t = Words(IF Arrow + 1 \in Arrows THEN Arrow + 2 ELSE Arrow + 1, Len(Text))'
  BY <1>2, LineStays
<1>4. Words(BodyFrom, Body)' = Words(BodyFrom, Body)
  BY LineStays
<1>5. ASSUME Arrows' # {} 
      PROVE  /\ Len(t) = 1 /\ path(t[1].bytes).ok /\ output'.dev \in {0} \cup 8..30
             /\ output' = [dev |-> path(t[1].bytes).dev, name |-> path(t[1].bytes).name]
  <2>1. Len(t) = 1 /\ path(t[1].bytes).ok
    BY <1>1, <1>2, <1>5 DEF Sent
  <2>2. output' = [dev |-> path(t[1].bytes).dev, name |-> path(t[1].bytes).name]
    BY <1>1, <1>2, <1>5 DEF Sent
  <2>3. path(t[1].bytes).dev \in {0} \cup 8..30
    BY <2>1, DrivesAreReal
  <2> QED
    BY <2>1, <2>2, <2>3
<1> QED
  BY <1>1, <1>3, <1>4, <1>5 DEF RedirectsWhatWasTyped, Chars
-----------------------------------------------------------------------------
(***************************************************************************)
(* The steps                                                               *)
(***************************************************************************)

LEMMA WordsNone ==
    ASSUME NEW a \in Nat, 1 <= a
    PROVE  FirstBytes(a, a - 1) = {} /\ Words(a, a - 1) = << >>
<1>1. PICK l \in Nat : l = a - 1
  OBVIOUS
<1>2. FirstBytes(a, l) = {}
  BY <1>1 DEF FirstBytes
<1>3. Words(a, l) \in Seq(AnyWord) /\ Len(Words(a, l)) = 0
  BY <1>2, FirstBytesAre, FS_EmptySet
<1> QED
  BY <1>1, <1>2, <1>3

(* Splitting begins outside quotes, without words.                         *)
LEMMA SplitBegins ==
    ASSUME typed' = typed, NEW first \in Nat, NEW last \in Nat, 1 <= first, first <= last + 1,
           ~Inside(first), NEW purpose, Split(first, last, purpose)
    PROVE  SplitInv'
<1>1. /\ parser' = "words" /\ from' = first /\ upto' = last /\ r' = first /\ quote' = FALSE /\ args' = <<>>
  BY DEF Split
<1>2. Words(first, first - 1)' = << >> /\ Inside(first)' = FALSE
  BY WordsNone, LineStays
<1>3. Words(from, r - 1)' = << >> /\ Inside(r)' = FALSE
  BY <1>1, <1>2
<1>4. /\ from' \in Nat /\ upto' \in Nat /\ r' \in Nat /\ 1 <= from' /\ from' <= r' /\ r' <= upto' + 1
      /\ r' = from'
  BY <1>1
<1>5. args' = Words(from, r - 1)'
  BY <1>1, <1>3
<1>6. quote' \in BOOLEAN /\ quote' = Inside(r)' /\ ~quote' /\ parser' # "word"
  BY <1>1, <1>3
<1> QED
  BY <1>4, <1>5, <1>6 DEF SplitInv

(* With only spaces left, the arguments are the words.                     *)
LEMMA AllWordsRead ==
    ASSUME SplitInv, WordsKnown
    PROVE  args = Words(from, upto)
<1>1. /\ from \in Nat /\ upto \in Nat /\ r \in Nat /\ 1 <= from /\ from <= r /\ r <= upto + 1
      /\ ~Inside(r) /\ args = Words(from, r - 1)
  BY DEF SplitInv, WordsKnown
<1>2. \A i \in r..upto : Text[i] = SPACE
  <2>1. PICK q : q = Past(r, upto, {SPACE})
    OBVIOUS
  <2>2. q \in Nat /\ q > upto /\ \A i \in r..q - 1 : Text[i] = SPACE
    BY <1>1, <2>1, PastIs DEF WordsKnown
  <2> QED
    BY <1>1, <2>2
<1>3. QUOTE # SPACE
  BY ParserAssumption
<1>4. ASSUME NEW i \in r..upto PROVE Gap(i)
  BY <1>1, <1>2, <1>3, InsideStays DEF Gap
<1>5. PICK l \in Nat : l = r - 1 /\ l + 1 = r
  BY <1>1
<1>6. Words(from, upto) = Words(from, l)
  BY <1>1, <1>4, <1>5, TailGaps
<1> QED
  BY <1>1, <1>5, <1>6

LEMMA NotYetDone ==
    ASSUME parser' # "done"
    PROVE  WordsAreArguments' /\ RedirectsWhatWasTyped'
BY DEF WordsAreArguments, RedirectsWhatWasTyped

LEMMA NowDone ==
    ASSUME parser' = "done", WordsAreArguments', RedirectsWhatWasTyped'
    PROVE  ParserInv'
BY DEF ParserInv, ScanInv, CommandInv, PurposeInv, SplitInv

(* An answer that no property is about.                                    *)
LEMMA OtherAnswers ==
    ASSUME parser' = "done", answered' \notin {"run", "unparsed", "nothing", "syntax", "multiple"}
    PROVE  ParserInv'
<1>1. WordsAreArguments' /\ RedirectsWhatWasTyped'
  BY DEF WordsAreArguments, RedirectsWhatWasTyped
<1> QED
  BY <1>1, NowDone

(* A line that is malformed.                                               *)
LEMMA SyntaxAnswers ==
    ASSUME typed' = typed, parser' = "done", answered' = "syntax",
           ~Balanced \/ Cardinality(FirstBytes(BodyFrom, Body)) > MAXARGS \/ BodyFrom > Body
    PROVE  ParserInv'
<1>1. FirstBytes(BodyFrom, Body)' = FirstBytes(BodyFrom, Body)
  BY LineStays
<1>2. WordsAreArguments'
  BY <1>1, LineStays DEF WordsAreArguments
<1>3. RedirectsWhatWasTyped'
  BY DEF RedirectsWhatWasTyped
<1> QED
  BY <1>2, <1>3, NowDone

(* The body that is split stays the body.                                  *)
LEMMA WholeBegins ==
    ASSUME typed' = typed, NEW a, NEW b, from' = a, upto' = b,
           Words(a, b) = Words(BodyFrom, Body), FirstBytes(a, b) = FirstBytes(BodyFrom, Body),
           Inside(b + 1) => ~Balanced, a > b => BodyFrom > Body
    PROVE  Whole'
<1>1. /\ Words(a, b)' = Words(a, b) /\ FirstBytes(a, b)' = FirstBytes(a, b)
      /\ Words(BodyFrom, Body)' = Words(BodyFrom, Body) /\ FirstBytes(BodyFrom, Body)' = FirstBytes(BodyFrom, Body)
      /\ Inside(b + 1)' = Inside(b + 1)
  BY LineStays
<1>2. /\ Words(from, upto)' = Words(a, b) /\ FirstBytes(from, upto)' = FirstBytes(a, b)
      /\ Inside(upto + 1)' = Inside(b + 1)
  BY <1>1
<1>3. Inside(upto + 1)' => ~Balanced'
  BY <1>2, LineStays
<1>4. from' > upto' => BodyFrom' > Body'
  BY LineStays
<1> QED
  BY <1>1, <1>2, <1>3, <1>4 DEF Whole

LEMMA ScanByteStep ==
    ASSUME ParserInv, ScanByte
    PROVE  ParserInv'
<1>1. /\ parser = "scan" /\ typed \in TypedLines /\ r \in 1..Len(Text) + 1 /\ quote \in BOOLEAN /\ quote = Inside(r)
      /\ output = Screen
      /\ op = 0 => \A p \in Arrows : r <= p
      /\ op # 0 => /\ op \in Arrows /\ op < r /\ append = (op + 1 \in Arrows) /\ (append => op + 1 < r)
                   /\ \A p \in Arrows : r <= p \/ p \in {op, op + 1}
  BY DEF ParserInv, ScanInv, ScanByte
<1>2. PICK n \in Nat : n = Len(Text)
  BY <1>1, LineHasLength
<1>3. r \in Nat /\ 1 <= r /\ r <= n /\ typed' = typed /\ output' = output
  BY <1>1, <1>2 DEF ScanByte
<1>4. Text' = Text /\ Arrows' = Arrows /\ Screen' = Screen /\ \A p : Inside(p)' = Inside(p)
  BY <1>3, LineStays DEF Screen
<1>5. Arrows \in SUBSET Nat /\ \A p \in Arrows : 1 <= p
  BY DEF Arrows
<1>6. ASSUME Redirects(r), ~quote, op # 0 PROVE ParserInv'
  <2>1. parser' = "done" /\ answered' = "multiple"
    BY <1>6 DEF ScanByte, Answer
  <2>2. r \in Arrows
    BY <1>1, <1>2, <1>3, <1>6 DEF Arrows, Redirects
  <2>3. op \in Nat /\ r \in Nat /\ op < r /\ op \in Arrows
    BY <1>1, <1>3, <1>5, <1>6
  <2>4. CASE append
    <3>0. op + 1 \in Arrows /\ op + 1 < r
      BY <1>1, <1>6, <2>4
    <3>1. op + 1 \in Arrows /\ op < op + 1 /\ r > op + 1
      BY <2>3, <3>0
    <3>2. \E p, q \in Arrows : p < q /\ (q > p + 1 \/ \E o \in Arrows : o > q)
      BY <2>2, <2>3, <3>1
    <3>3. RedirectsWhatWasTyped'
      BY <1>4, <2>1, <3>2 DEF RedirectsWhatWasTyped
    <3>4. WordsAreArguments'
      BY <2>1 DEF WordsAreArguments
    <3> QED
      BY <2>1, <3>3, <3>4, NowDone
  <2>5. CASE ~append
    <3>1. r # op + 1
      BY <1>1, <1>6, <2>2, <2>5
    <3>2. r > op + 1
      BY <2>3, <3>1
    <3>3. \E p, q \in Arrows : p < q /\ (q > p + 1 \/ \E o \in Arrows : o > q)
      BY <2>2, <2>3, <3>2
    <3>4. RedirectsWhatWasTyped'
      BY <1>4, <2>1, <3>3 DEF RedirectsWhatWasTyped
    <3>5. WordsAreArguments'
      BY <2>1 DEF WordsAreArguments
    <3> QED
      BY <2>1, <3>4, <3>5, NowDone
  <2> QED
    BY <2>4, <2>5
<1>7. ASSUME Redirects(r), ~quote, op = 0 PROVE ParserInv'
  <2>1. op' = r /\ append' = Doubled(r) /\ r' = (IF Doubled(r) THEN r + 2 ELSE r + 1) /\ parser' = parser /\ quote' = quote
    BY <1>7 DEF ScanByte
  <2>2. r \in Arrows /\ Text[r] = GREATER /\ ~Inside(r)
    BY <1>1, <1>2, <1>3, <1>7 DEF Arrows, Redirects
  <2>3. GREATER # QUOTE
    BY ParserAssumption
  <2>4. Inside(r + 1) = Inside(r)
    BY <1>3, <2>2, <2>3, InsideStays
  <2>5. Doubled(r) <=> r + 1 \in Arrows
    BY <1>2, <1>3, <2>2, <2>4 DEF Arrows, Doubled
  <2>6. /\ r' \in Nat /\ r < r' /\ r' <= n + 1 /\ (Doubled(r) => r + 1 < r')
        /\ \A p \in Arrows : r' <= p \/ p \in {r, r + 1}
    <3>1. CASE Doubled(r)
      BY <1>2, <2>1, <3>1, <1>1, <1>5, <1>7, <1>3 DEF Doubled
    <3>2. CASE ~Doubled(r)
      BY <2>1, <3>2, <1>1, <1>5, <1>7, <1>2, <1>3
    <3> QED
      BY <3>1, <3>2
  <2>7. ~Inside(r')
    <3>1. CASE Doubled(r)
      <4>1. \A i \in r..(r + 2) - 1 : Text[i] # QUOTE
        BY <3>1, <1>3, <2>2, <2>3 DEF Doubled
      <4>2. r + 2 \in Nat /\ r <= r + 2
        BY <1>3
      <4>3. Inside(r + 2) = Inside(r)
        BY <1>3, <4>1, <4>2, InsideStays
      <4> QED
        BY <2>1, <2>2, <3>1, <4>3
    <3>2. CASE ~Doubled(r)
      BY <2>1, <2>2, <2>4, <3>2
    <3> QED
      BY <3>1, <3>2
  <2>8. quote' \in BOOLEAN /\ quote' = Inside(r)'
    <3>1. Inside(r)' = Inside(r')
      BY <1>4
    <3>2. ~quote' /\ quote' \in BOOLEAN
      BY <1>1, <1>7, <2>1
    <3>3. Inside(r)' = FALSE
      BY <2>7, <3>1 DEF Inside
    <3> QED
      BY <3>2, <3>3
  <2>9. append' = (op' + 1 \in Arrows')
    BY <1>4, <2>1, <2>5 DEF Doubled
  <2>10. ScanInv'
    <3>1. typed' \in TypedLines /\ r' \in 1..Len(Text') + 1 /\ output' = Screen'
      BY <1>1, <1>2, <1>3, <1>4, <2>6
    <3>2. op' # 0 /\ op' \in Arrows' /\ op' < r' /\ \A p \in Arrows' : r' <= p \/ p \in {op', op' + 1}
      BY <1>3, <1>4, <2>1, <2>2, <2>6
    <3>3. append' => op' + 1 < r'
      BY <2>1, <2>6
    <3> QED
      BY <2>8, <2>9, <3>1, <3>2, <3>3 DEF ScanInv
  <2>11. parser' = "scan"
    BY <1>1, <2>1
  <2> QED
    BY <2>10, <2>11, NotYetDone DEF ParserInv, CommandInv, PurposeInv, SplitInv
<1>8. ASSUME ~(Redirects(r) /\ ~quote) PROVE ParserInv'
  <2>1. /\ quote' = (quote # (Text[r] = QUOTE)) /\ r' = r + 1
        /\ parser' = parser /\ op' = op /\ append' = append
    BY <1>8 DEF ScanByte
  <2>2. r \notin Arrows
    BY <1>1, <1>8 DEF Arrows, Redirects
  <2>3. \A p \in Arrows : r <= p => r + 1 <= p
    BY <1>3, <1>5, <2>2
  <2>4. quote' \in BOOLEAN /\ quote' = Inside(r)'
    <3>1. Inside(r)' = Inside(r + 1)
      BY <1>4, <2>1
    <3>2. Inside(r + 1) = (Inside(r) # (Text[r] = QUOTE))
      <4>1. r # 0
        BY <1>3
      <4> QED
        BY <1>3, <4>1, InsideNext
    <3> QED
      BY <1>1, <2>1, <3>1, <3>2
  <2>5. r' \in 1..Len(Text') + 1
    BY <1>2, <1>3, <1>4, <2>1
  <2>6. op' = 0 => \A p \in Arrows' : r' <= p
    BY <1>1, <1>4, <2>1, <2>3
  <2>7. ASSUME op' # 0
        PROVE  /\ op' \in Arrows' /\ op' < r' /\ append' = (op' + 1 \in Arrows')
               /\ \A p \in Arrows' : r' <= p \/ p \in {op', op' + 1}
               /\ append' => op' + 1 < r'
    <3>1. op # 0
      BY <2>1, <2>7
    <3>2. op \in Arrows /\ op < r /\ op \in Nat /\ \A p \in Arrows : r <= p \/ p \in {op, op + 1}
      BY <1>1, <1>5, <3>1
    <3>3. append = (op + 1 \in Arrows)
      BY <1>1, <3>1
    <3>4. append => op + 1 < r
      BY <1>1, <3>1
    <3>5. op < r + 1 /\ \A p \in Arrows : r + 1 <= p \/ p \in {op, op + 1}
      BY <1>3, <2>3, <3>2
    <3>6. op + 1 < r => op + 1 < r + 1
      BY <1>3, <3>2
    <3>7. append' = (op' + 1 \in Arrows')
      BY <1>4, <2>1, <3>3
    <3>8. append' => op' + 1 < r'
      BY <2>1, <3>4, <3>6
    <3> QED
      BY <1>4, <2>1, <3>2, <3>5, <3>7, <3>8
  <2>9. typed' \in TypedLines /\ output' = Screen'
    BY <1>1, <1>3, <1>4
  <2>10. ScanInv'
    BY <2>4, <2>5, <2>6, <2>7, <2>9 DEF ScanInv
  <2>11. parser' = "scan"
    BY <1>1, <2>1
  <2> QED
    BY <2>10, <2>11, NotYetDone DEF ParserInv, CommandInv, PurposeInv, SplitInv
<1> QED
  BY <1>6, <1>7, <1>8

LEMMA ScanEndsStep ==
    ASSUME ParserInv, ScanEnds
    PROVE  ParserInv'
<1>1. /\ parser = "scan" /\ typed \in TypedLines /\ r \in 1..Len(Text) + 1 /\ quote \in BOOLEAN /\ quote = Inside(r)
      /\ output = Screen
      /\ op = 0 => \A p \in Arrows : r <= p
      /\ op # 0 => /\ op \in Arrows /\ op < r /\ append = (op + 1 \in Arrows) /\ (append => op + 1 < r)
                   /\ \A p \in Arrows : r <= p \/ p \in {op, op + 1}
  BY DEF ParserInv, ScanInv, ScanEnds
<1>2. PICK n \in Nat : n = Len(Text)
  BY <1>1, LineHasLength
<1>3. r = n + 1 /\ UNCHANGED <<typed, op, append, output>>
  BY <1>1, <1>2 DEF ScanEnds
<1>4. \A p \in Arrows : ~(r <= p)
  BY <1>2, <1>3 DEF Arrows
<1>5. quote <=> ~Balanced
  BY <1>1, <1>2, <1>3 DEF Balanced
<1>6. op = 0 \/ ~quote => Known
  BY <1>1, <1>4, <1>5 DEF Known
<1>7. CASE op = 0
  <2>1. parser' = "command" /\ from' = 1 /\ upto' = Len(Text)
    BY <1>7 DEF ScanEnds
  <2>2. Known' /\ Settled'
    <3>1. Settled
      BY <1>1, <1>7 DEF Settled
    <3> QED
      BY <1>3, <1>6, <1>7, <3>1, KnownStays, SettledStays
  <2>3. op' = 0 /\ from' = 1 /\ upto' = Len(Text')
    BY <1>3, <1>7, <2>1, LineStays
  <2>4. CommandInv'
    BY <2>2, <2>3 DEF CommandInv
  <2> QED
    BY <2>1, <2>4, NotYetDone DEF ParserInv, ScanInv, PurposeInv, SplitInv
<1>8. CASE op # 0 /\ quote
  BY <1>8, <1>3, <1>5, SyntaxAnswers DEF ScanEnds, Answer
<1>9. CASE op # 0 /\ ~quote
  <2>1. Split(Here, Cut, "check")
    BY <1>9 DEF ScanEnds, Here, Cut
  <2>2. parser' = "words" /\ from' = Here /\ upto' = Cut /\ why' = "check"
    BY <2>1 DEF Split
  <2>3. Known
    BY <1>6, <1>9
  <2>4. Here \in Nat /\ Cut \in Nat /\ 1 <= Here /\ Here <= Cut + 1 /\ ~Inside(Here) /\ ~Inside(Cut + 1)
    BY <1>9, <2>3, HereIs
  <2>5. SplitInv'
    BY <1>3, <2>1, <2>4, SplitBegins
  <2>6. Whole'
    BY <1>3, <1>9, <2>2, <2>3, <2>4, HereIsWhole, WholeBegins
  <2>7. PurposeInv'
    BY <1>3, <1>9, <2>2, <2>3, <2>6, KnownStays DEF PurposeInv
  <2> QED
    BY <2>2, <2>5, <2>7, NotYetDone DEF ParserInv, ScanInv, CommandInv
<1> QED
  BY <1>7, <1>8, <1>9

LEMMA EnterCommandStep ==
    ASSUME ParserInv, EnterCommand
    PROVE  ParserInv'
<1>1. Known /\ Settled /\ IF op = 0 THEN from = 1 /\ upto = Len(Text) ELSE from = Here /\ upto = Cut
  BY DEF ParserInv, CommandInv, EnterCommand
<1>2. PICK first : first = Prefixed(from, upto)
  OBVIOUS
<1>3. UNCHANGED <<typed, op, append, output>>
  BY DEF EnterCommand
<1>4. CASE ~(first > upto) /\ VerbOf(first) \notin Unparsed
  <2>1. Split(first, upto, "run")
    BY <1>2, <1>4 DEF EnterCommand
  <2>2. parser' = "words" /\ from' = first /\ upto' = upto /\ why' = "run"
    BY <2>1 DEF Split
  <2>3. /\ first \in Nat /\ upto \in Nat /\ 1 <= first /\ first <= upto /\ ~Inside(first)
        /\ Words(first, upto) = Words(BodyFrom, Body) /\ FirstBytes(first, upto) = FirstBytes(BodyFrom, Body)
        /\ Inside(upto + 1) => ~Balanced
    <3>1. CASE op = 0
      <4>1. PICK n \in Nat : n = Len(Text)
        BY <1>1, LineHasLength DEF Known
      <4>2. upto = n /\ from = 1 /\ first = Prefixed(1, n)
        BY <1>1, <1>2, <3>1, <4>1
      <4>3. first <= n
        <5>1. PICK p : p = Past(1, n, {SPACE})
          OBVIOUS
        <5>2. p \in Nat
          BY <4>1, <5>1, PastIs
        <5>3. first \in Nat
          BY <4>2, <5>1, <5>2 DEF Prefixed
        <5> QED
          BY <1>4, <4>2, <5>3
      <4>4. /\ first \in Nat /\ 1 <= first /\ ~Inside(first)
            /\ Words(first, n) = Words(BodyFrom, Body) /\ FirstBytes(first, n) = FirstBytes(BodyFrom, Body)
        BY <1>1, <3>1, <4>1, <4>2, <4>3, AllIsWhole
      <4>5. Inside(n + 1) => ~Balanced
        BY <4>1 DEF Balanced
      <4> QED
        BY <4>2, <4>3, <4>4, <4>5
    <3>2. CASE op # 0
      <4>1. from = Here /\ upto = Cut /\ Here <= Cut
        BY <1>1, <3>2 DEF Settled, Ordered
      <4>2. /\ Here \in Nat /\ Cut \in Nat /\ 1 <= Here /\ Text[Here] \notin {SPACE, ATSIGN}
            /\ ~Inside(Here) /\ ~Inside(Cut + 1)
        BY <1>1, <3>2, <4>1, HereIs
      <4>3. first = Here
        <5>1. PICK p : p = Past(Here, Cut, {SPACE})
          OBVIOUS
        <5>2. p \in Nat /\ Here <= p /\ \A i \in Here..p - 1 : Text[i] = SPACE
          BY <4>1, <4>2, <5>1, PastIs
        <5>3. p = Here
          BY <4>2, <5>2
        <5> QED
          BY <1>2, <4>1, <4>2, <5>1, <5>3 DEF Prefixed
      <4> QED
        BY <1>1, <3>2, <4>1, <4>2, <4>3, HereIsWhole
    <3> QED
      BY <3>1, <3>2
  <2>4. SplitInv'
    BY <2>3, <1>3, <2>1, SplitBegins
  <2>5. Whole'
    <3>1. ~(first > upto)
      BY <1>4
    <3> QED
      BY <1>3, <2>2, <2>3, <3>1, WholeBegins
  <2>6. PurposeInv'
    BY <1>1, <1>3, <2>2, <2>5, KnownStays, SettledStays DEF PurposeInv
  <2> QED
    BY <2>2, <2>4, <2>6, NotYetDone DEF ParserInv, ScanInv, CommandInv
<1>5. CASE first > upto \/ VerbOf(first) \in Unparsed
  <2>1. parser' = "done" /\ answered' \in {"nothing", "unparsed"}
    BY <1>2, <1>5 DEF EnterCommand, Answer
  <2>2. RedirectsWhatWasTyped'
    BY <1>1, <1>3, <2>1, AnswersAreReal
  <2>3. WordsAreArguments'
    BY <2>1 DEF WordsAreArguments
  <2> QED
    BY <2>1, <2>2, <2>3, NowDone
<1> QED
  BY <1>4, <1>5

(* What splitting is for, while it goes on.                                *)
LEMMA PurposeStays ==
    ASSUME PurposeInv, parser \in {"words", "word"}, UNCHANGED <<typed, op, append, from, upto, why, output>>
    PROVE  PurposeInv'
<1>1. Known' = Known /\ Ordered' = Ordered /\ Here' = Here /\ Behind' = Behind /\ Settled' = Settled
  BY KnownStays, SettledStays
<1>2. Whole' = Whole
  BY LineStays DEF Whole
<1>3. Text' = Text
  BY LineStays
<1> QED
  BY <1>1, <1>2, <1>3 DEF PurposeInv

(* A line that is malformed as it is split.                                *)
LEMMA MalformedAnswers ==
    ASSUME PurposeInv, parser \in {"words", "word"}, UNCHANGED <<typed, why>>, Malformed,
           Inside(upto + 1) \/ Cardinality(FirstBytes(from, upto)) > MAXARGS
    PROVE  ParserInv'
<1>1. CASE why = "target"
  BY <1>1, OtherAnswers DEF Malformed, Answer
<1>2. CASE why # "target"
  BY <1>2, SyntaxAnswers DEF Malformed, Answer, PurposeInv, Whole
<1> QED
  BY <1>1, <1>2

(* What is known of the splitting when it goes on.                         *)
LEMMA Splitting ==
    ASSUME ParserInv, parser \in {"words", "word"}
    PROVE  /\ PurposeInv /\ SplitInv /\ typed \in TypedLines
           /\ from \in Nat /\ upto \in Nat /\ r \in Nat /\ 1 <= from /\ 1 <= r /\ from <= r /\ r <= upto + 1
           /\ quote \in BOOLEAN /\ quote = Inside(r)
<1>1. from \in Nat /\ upto \in Nat /\ r \in Nat /\ 1 <= from /\ from <= r /\ r <= upto + 1
      /\ quote \in BOOLEAN /\ quote = Inside(r)
  BY DEF ParserInv, SplitInv
<1> QED
  BY <1>1 DEF ParserInv, PurposeInv, Known

LEMMA NextWordStep ==
    ASSUME ParserInv, NextWord
    PROVE  ParserInv'
<1>0. parser = "words"
  BY DEF NextWord
<1>1. /\ PurposeInv /\ SplitInv /\ typed \in TypedLines
      /\ from \in Nat /\ upto \in Nat /\ r \in Nat /\ 1 <= from /\ 1 <= r /\ from <= r /\ r <= upto + 1
  BY <1>0, Splitting
<1>2. ~Inside(r) /\ args = Words(from, r - 1) /\ (r = from \/ r > upto \/ Separates(Text[r]))
  BY <1>0, <1>1 DEF SplitInv
<1>3. UNCHANGED <<typed, op, append, from, upto, why, output>> /\ quote' = FALSE
  BY DEF NextWord
<1>4. PICK p : p = Past(r, upto, {SPACE})
  OBVIOUS
<1>5. /\ p \in Nat /\ r <= p /\ p <= upto /\ Text[p] # SPACE /\ \A i \in r..p - 1 : Text[i] = SPACE
  BY <1>1, <1>4, PastIs DEF NextWord
<1>6. QUOTE # SPACE /\ QUOTE # SLASH /\ SPACE # SLASH
  BY ParserAssumption
<1>7. ASSUME NEW i \in r..p PROVE ~Inside(i)
  BY <1>1, <1>5, <1>6, <1>2, InsideStays
<1>8. \A i \in r..p - 1 : Gap(i)
  BY <1>1, <1>5, <1>7 DEF Gap
<1>9. ~Inside(p) /\ ~Gap(p)
  <2>1. p \in r..p
    BY <1>1, <1>5
  <2> QED
    BY <1>5, <1>7, <2>1 DEF Gap
<1>10. p \in FirstBytes(from, p)
  <2>1. p \in from..p
    BY <1>1, <1>5
  <2>2. p = from \/ Gap(p - 1) \/ Text[p] = SLASH
    <3>1. CASE p = r
      BY <1>1, <1>5, <3>1, <1>2 DEF Separates
    <3>2. CASE p # r
      BY <1>1, <1>5, <3>2, <1>8
    <3> QED
      BY <3>1, <3>2
  <2> QED
    BY <1>9, <2>1, <2>2 DEF FirstBytes
<1>11. PICK l \in Nat : l = p - 1
  BY <1>1, <1>5
<1>12. args = Words(from, l)
  <2>1. PICK k \in Nat : k = r - 1 /\ k + 1 = r
    BY <1>1
  <2>2. k <= l
    BY <1>5, <1>11, <2>1
  <2>3. Words(from, l) = Words(from, k)
    BY <1>1, <1>8, <1>11, <2>1, <2>2, TailGaps
  <2> QED
    BY <1>2, <2>1, <2>3
<1>13. /\ FirstBytes(from, p) = FirstBytes(from, l) \cup {p}
       /\ Words(from, p) = Append(args, [quoted |-> Text[p] = QUOTE, bytes |-> Bytes(p, p)])
  <2>1. from <= p
    BY <1>1, <1>5
  <2> QED
    BY <1>1, <1>5, <1>10, <1>11, <1>12, <2>1, WordsBegin
<1>14. CASE Len(args) = MAXARGS
  <2>1. Malformed
    BY <1>4, <1>5, <1>14 DEF NextWord
  <2>2. PICK m \in Nat : m = MAXARGS
    BY ParserAssumption
  <2>3. Cardinality(FirstBytes(from, l)) = m
    BY <1>1, <1>12, <1>14, <2>2, FirstBytesAre
  <2>4. PICK S : S = FirstBytes(from, p)
    OBVIOUS
  <2>5. Cardinality(S) = m + 1
    <3>1. p \notin FirstBytes(from, l) /\ IsFiniteSet(FirstBytes(from, l))
      <4>1. IsFiniteSet(FirstBytes(from, l)) /\ \A q \in FirstBytes(from, l) : q <= l
        BY <1>1, <1>11, FirstBytesAre
      <4>2. ~(p <= l)
        BY <1>5, <1>11
      <4> QED
        BY <4>1, <4>2
    <3> QED
      BY <1>13, <2>3, <2>4, <3>1, FS_AddElement
  <2>6. S \in SUBSET FirstBytes(from, upto)
    BY <1>1, <1>5, <2>4 DEF FirstBytes
  <2>7. IsFiniteSet(FirstBytes(from, upto))
    BY <1>1, FirstBytesAre
  <2>8. Cardinality(S) <= Cardinality(FirstBytes(from, upto)) /\ Cardinality(FirstBytes(from, upto)) \in Nat
    BY <2>6, <2>7, FS_Subset, FS_CardinalityType
  <2>9. Cardinality(FirstBytes(from, upto)) > MAXARGS
    BY <2>2, <2>5, <2>8
  <2> QED
    BY <1>0, <1>1, <1>3, <2>1, <2>9, MalformedAnswers
<1>15. CASE Len(args) # MAXARGS
  <2>1. /\ args' = Append(args, [quoted |-> Text[p] = QUOTE,
                                 bytes |-> IF Text[p] = SLASH THEN << <<SLASH, FALSE>> >> ELSE <<>>])
        /\ r' = (IF Text[p] = SLASH THEN p + 1 ELSE p) /\ parser' = "word"
    BY <1>4, <1>15 DEF NextWord
  <2>2. PurposeInv'
    BY <1>0, <1>1, <1>3, PurposeStays
  <2>3. CASE Text[p] = SLASH
    <3>1. ~Inside(p + 1)
      BY <1>1, <1>5, <1>6, <2>3, <1>9, InsideStays
    <3>2. Bytes(p, p) = << <<SLASH, FALSE>> >>
      <4>1. Bytes(p, l) = << >>
        BY <1>5, <1>11, BytesIs
      <4>2. Bytes(p, p) = Append(Bytes(p, l), Byte(p))
        BY <1>1, <1>5, <1>6, <1>9, <1>11, <2>3, BytesGrow
      <4>3. Byte(p) = <<SLASH, FALSE>>
        BY <1>9, <2>3 DEF Byte
      <4> QED
        BY <4>1, <4>2, <4>3
    <3>3. args' = Words(from, p)
      BY <1>13, <2>1, <2>3, <3>2
    <3>4. r' = p + 1 /\ r' - 1 = p
      BY <1>5, <2>1, <2>3
    <3>5. args' = Words(from, r - 1)'
      BY <1>3, <3>4, <3>3, LineStays
    <3>6. ~Gap(p)' /\ ~Inside(p + 1)'
      BY <1>3, <1>9, <3>1, LineStays
    <3>7. ~Gap(r - 1)' /\ ~Inside(r)'
      BY <3>4, <3>6
    <3>8. FirstBytes(from, r - 1)' = FirstBytes(from, p)
      BY <1>3, <3>4, LineStays
    <3>9. \A q \in FirstBytes(from, p) : q <= p
      BY <1>1, <1>5, FirstBytesAre
    <3>10. from' < r' /\ from' \in Nat /\ upto' \in Nat /\ r' \in Nat /\ 1 <= from' /\ from' <= r' /\ r' <= upto' + 1
      BY <1>1, <1>3, <1>5, <3>4
    <3>11. Going'
      BY <1>10, <3>5, <3>7, <3>8, <3>9, <3>10 DEF Going
    <3>12. quote' \in BOOLEAN /\ quote' = Inside(r)'
      BY <3>7, <1>3 DEF Inside
    <3>13. SplitInv'
      BY <2>1, <3>10, <3>11, <3>12 DEF SplitInv
    <3> QED
      BY <2>1, <2>2, <3>13, NotYetDone DEF ParserInv, ScanInv, CommandInv
  <2>4. CASE Text[p] # SLASH
    <3>1. r' = p /\ args' = Append(args, [quoted |-> Text[p] = QUOTE, bytes |-> <<>>])
      BY <2>1, <2>4
    <3>2. Words(from, r - 1)' = Words(from, l) /\ FirstBytes(from, r)' = FirstBytes(from, p) /\ Inside(r)' = Inside(p)
      BY <1>3, <1>11, <3>1, LineStays
    <3>3. Text' = Text
      BY <1>3, LineStays
    <3>4. Fresh'
      <4>1. r' <= upto' /\ r' \in FirstBytes(from, r)' /\ ~Separates(Text'[r'])
        BY <1>3, <1>5, <1>10, <2>4, <3>1, <3>2, <3>3 DEF Separates
      <4>2. args' = Append(Words(from, r - 1)', [quoted |-> Text'[r'] = QUOTE, bytes |-> <<>>])
        BY <1>12, <3>1, <3>2, <3>3
      <4> QED
        BY <4>1, <4>2 DEF Fresh, Separates
    <3>5. from' \in Nat /\ upto' \in Nat /\ r' \in Nat /\ 1 <= from' /\ from' <= r' /\ r' <= upto' + 1
      BY <1>1, <1>3, <1>5, <3>1
    <3>6. quote' \in BOOLEAN /\ quote' = Inside(r)'
      <4>1. Inside(r)' = FALSE
        BY <1>9, <3>2 DEF Inside
      <4> QED
        BY <1>3, <4>1
    <3>7. SplitInv'
      BY <2>1, <3>4, <3>5, <3>6 DEF SplitInv
    <3> QED
      BY <2>1, <2>2, <3>7, NotYetDone DEF ParserInv, ScanInv, CommandInv
  <2> QED
    BY <2>3, <2>4
<1> QED
  BY <1>14, <1>15

LEMMA FlagIs ==
    ASSUME NEW p, Text[p] = SLASH => Inside(p)
    PROVE  Byte(p) = <<Text[p], Flag(p)>>
<1>1. (p \in typed.flags /\ (Text[p] = SLASH => Inside(p))) <=> p \in typed.flags
  OBVIOUS
<1> QED
  BY <1>1 DEF Byte, Flag

(* A word gets a byte.                                                     *)
LEMMA WordGrows ==
    ASSUME NEW v \in AnyWord, NEW e
    PROVE  [v EXCEPT !.bytes = Append(@, e)] = [quoted |-> v.quoted, bytes |-> Append(v.bytes, e)]
BY DEF AnyWord

LEMMA WordByteStep ==
    ASSUME ParserInv, WordByte
    PROVE  ParserInv'
<1>0. parser = "word"
  BY DEF WordByte
<1>1. /\ PurposeInv /\ SplitInv /\ typed \in TypedLines
      /\ from \in Nat /\ upto \in Nat /\ r \in Nat /\ 1 <= from /\ 1 <= r /\ from <= r /\ r <= upto + 1
      /\ quote \in BOOLEAN /\ quote = Inside(r)
  BY <1>0, Splitting
<1>2. /\ r <= upto /\ (Separates(Text[r]) => Inside(r)) /\ r' = r + 1 /\ parser' = parser
      /\ UNCHANGED <<typed, op, append, from, upto, why, output>>
  <2>1. WordGoesOn
    BY DEF WordByte
  <2> QED
    BY <1>1, <2>1 DEF WordByte, WordGoesOn
<1>3. IF Text[r] = QUOTE THEN args' = args
      ELSE args' = [args EXCEPT ![Len(args)].bytes = Append(@, Byte(r))]
  BY <1>2, FlagIs DEF Separates, WordByte
<1>4. ~Gap(r)
  BY <1>2 DEF Gap, Separates
<1>5. PICK l \in Nat : l = r - 1
  BY <1>1
<1>6. args' = Words(from, r) /\ \E x \in FirstBytes(from, r) : \A q \in FirstBytes(from, r) : q <= x
  <2>1. CASE Fresh
    <3>1. PICK c \in AnyFlag : c = (Text[r] = QUOTE)
      BY DEF AnyFlag
    <3>2. PICK s \in Seq(AnyWord) : s = Words(from, l)
      BY <1>1, FirstBytesAre
    <3>3. args = Append(s, [quoted |-> c, bytes |-> <<>>]) /\ r \in FirstBytes(from, r)
      BY <1>5, <2>1, <3>1, <3>2 DEF Fresh
    <3>4. Words(from, r) = Append(s, [quoted |-> c, bytes |-> Bytes(r, r)])
      BY <1>1, <1>5, <3>1, <3>2, <3>3, WordsBegin
    <3>5. Bytes(r, r) = IF Text[r] = QUOTE THEN <<>> ELSE Append(<<>>, Byte(r))
      <4>1. Bytes(r, l) = << >>
        BY <1>1, <1>5, BytesIs
      <4>2. r <= r
        BY <1>1
      <4>3. Bytes(r, r) = IF Gap(r) \/ Text[r] = QUOTE THEN Bytes(r, r - 1) ELSE Append(Bytes(r, r - 1), Byte(r))
        BY <1>1, <4>2, BytesGrow
      <4> QED
        BY <1>4, <1>5, <4>1, <4>3
    <3>6. args' = Words(from, r)
      <4>1. CASE Text[r] = QUOTE
        BY <1>3, <3>3, <3>4, <3>5, <4>1
      <4>2. CASE Text[r] # QUOTE
        <5>1. PICK e \in AnyByte : e = Byte(r)
          BY <1>1 DEF AnyByte
        <5>2. Append(<<>>, e) = <<e>> /\ <<e>> \in Seq(AnyByte) /\ <<>> \in Seq(AnyByte)
          BY <5>1
        <5>3. PICK v \in AnyWord : v = [quoted |-> c, bytes |-> <<>>]
          BY <5>2 DEF AnyWord
        <5>4. PICK w \in AnyWord : w = [quoted |-> c, bytes |-> <<e>>]
          BY <5>2 DEF AnyWord
        <5>5. PICK n \in Nat : n = Len(s)
          OBVIOUS
        <5>6. args = Append(s, v)
          BY <3>3, <5>3, Zenon
        <5>7. /\ args \in Seq(AnyWord) /\ Len(args) = n + 1 /\ (\A i \in 1..n : args[i] = s[i])
              /\ args[n + 1] = v
          BY <5>5, <5>6, AppendProperties
        <5>8. [v EXCEPT !.bytes = Append(@, e)] = w
          <6>1. v.quoted = c /\ v.bytes = <<>>
            BY <5>3
          <6>2. [v EXCEPT !.bytes = Append(@, e)] = [quoted |-> v.quoted, bytes |-> Append(v.bytes, e)]
            BY WordGrows
          <6> QED
            BY <5>2, <5>4, <6>1, <6>2, Zenon
        <5>9. PICK u : u = args'
          OBVIOUS
        <5>10. u = [args EXCEPT ![n + 1] = w]
          BY <1>3, <4>2, <5>1, <5>7, <5>8, <5>9
        <5>11. u \in Seq(AnyWord) /\ Len(u) = n + 1
          BY <5>7, <5>10, ExceptSeq
        <5>12. (\A i \in 1..n : u[i] = s[i]) /\ u[n + 1] = w
          BY <5>7, <5>10
        <5>13. u = Append(s, w)
          BY <5>5, <5>11, <5>12, OneMore
        <5>14. w = [quoted |-> c, bytes |-> Bytes(r, r)]
          BY <3>5, <4>2, <5>1, <5>2, <5>4
        <5> QED
          BY <3>4, <5>9, <5>13, <5>14
      <4> QED
        BY <4>1, <4>2
    <3>7. \A q \in FirstBytes(from, r) : q <= r
      BY <1>1, FirstBytesAre
    <3> QED
      BY <3>3, <3>6, <3>7
  <2>2. CASE Going
    <3>1. /\ from < r /\ ~Gap(l) /\ args = Words(from, l)
          /\ \E x \in FirstBytes(from, l) : \A q \in FirstBytes(from, l) : q <= x
      BY <1>5, <2>2 DEF Going
    <3>2. r \notin FirstBytes(from, r)
      BY <1>1, <3>1, <1>2, <1>5 DEF Separates, FirstBytes
    <3>3. PICK x \in FirstBytes(from, l) : \A q \in FirstBytes(from, l) : q <= x
      BY <3>1
    <3>4. /\ FirstBytes(from, r) = FirstBytes(from, l)
          /\ Words(from, r) = IF Gap(r) \/ Text[r] = QUOTE THEN args
                              ELSE [args EXCEPT ![Len(args)].bytes = Append(@, Byte(r))]
      BY <1>1, <1>5, <3>1, <3>2, <3>3, WordsGrow
    <3>5. args' = Words(from, r)
      BY <1>3, <1>4, <3>4
    <3> QED
      BY <3>3, <3>4, <3>5
  <2> QED
    BY <1>0, <1>1, <2>1, <2>2 DEF SplitInv
<1>7. Going'
  BY <1>1, <1>2, <1>4, <1>6, LineStays DEF Going
<1>8. quote' \in BOOLEAN /\ quote' = Inside(r)'
  <2>1. Inside(r)' = Inside(r + 1)
    BY <1>2, LineStays
  <2>2. Inside(r + 1) = (Inside(r) # (Text[r] = QUOTE))
    <3>1. r # 0
      BY <1>1
    <3> QED
      BY <1>1, <3>1, InsideNext
  <2>3. quote' = IF Text[r] = QUOTE THEN ~quote ELSE quote
    BY DEF WordByte
  <2> QED
    BY <1>1, <2>1, <2>2, <2>3
<1>9. from' \in Nat /\ upto' \in Nat /\ r' \in Nat /\ 1 <= from' /\ from' <= r' /\ r' <= upto' + 1
  BY <1>1, <1>2
<1>10. SplitInv'
  BY <1>0, <1>2, <1>7, <1>8, <1>9 DEF SplitInv
<1>11. PurposeInv'
  BY <1>0, <1>1, <1>2, PurposeStays
<1> QED
  BY <1>0, <1>2, <1>10, <1>11, NotYetDone DEF ParserInv, ScanInv, CommandInv

LEMMA WordEndsStep ==
    ASSUME ParserInv, WordEnds
    PROVE  ParserInv'
<1>0. parser = "word" /\ ~WordGoesOn
  BY DEF WordEnds
<1>1. /\ PurposeInv /\ SplitInv /\ typed \in TypedLines
      /\ from \in Nat /\ upto \in Nat /\ r \in Nat /\ 1 <= from /\ 1 <= r /\ from <= r /\ r <= upto + 1
      /\ quote \in BOOLEAN /\ quote = Inside(r)
  BY <1>0, Splitting
<1>2. UNCHANGED <<typed, r, quote, op, append, from, upto, args, why, output>>
  BY DEF WordEnds
<1>3. CASE quote
  BY <1>3, <1>0, <1>1, <1>2, MalformedAnswers DEF WordEnds, WordGoesOn
<1>4. CASE ~quote
  <2>1. parser' = "words"
    BY <1>4 DEF WordEnds
  <2>2. r > upto \/ Separates(Text[r])
    BY <1>0, <1>4, <1>1 DEF WordGoesOn
  <2>3. ~Fresh
    BY <1>0, <1>4 DEF WordGoesOn, Fresh
  <2>4. args = Words(from, r - 1)
    BY <1>0, <1>1, <2>3 DEF SplitInv, Going
  <2>5. args' = Words(from, r - 1)'
    <3>1. PICK l : l = r - 1
      OBVIOUS
    <3>2. Words(from, r - 1)' = Words(from, l)
      BY <1>2, <3>1, LineStays
    <3> QED
      BY <1>2, <2>4, <3>1, <3>2
  <2>6. quote' \in BOOLEAN /\ quote' = Inside(r)' /\ ~quote'
    BY <1>2, <1>1, <1>4, LineStays
  <2>7. r' = from' \/ r' > upto' \/ Separates(Text'[r'])
    <3>1. Text' = Text
      BY <1>2, LineStays
    <3> QED
      BY <1>2, <2>2, <3>1
  <2>8. SplitInv'
    BY <1>1, <1>2, <2>1, <2>5, <2>6, <2>7 DEF SplitInv, Separates
  <2>9. PurposeInv'
    BY <1>0, <1>1, <1>2, PurposeStays
  <2> QED
    BY <2>1, <2>8, <2>9, NotYetDone DEF ParserInv, ScanInv, CommandInv
<1> QED
  BY <1>1, <1>3, <1>4

LEMMA CheckCommandStep ==
    ASSUME ParserInv, CheckCommand
    PROVE  ParserInv'
<1>0. parser = "words" /\ WordsKnown /\ why = "check"
  BY DEF CheckCommand, WordsKnown
<1>1. /\ PurposeInv /\ SplitInv /\ typed \in TypedLines
      /\ from \in Nat /\ upto \in Nat /\ 1 <= from
  BY <1>0, Splitting
<1>2. Known /\ Whole /\ op # 0 /\ from = Here
  BY <1>0, <1>1 DEF PurposeInv
<1>3. args = Words(from, upto) /\ Words(from, upto) = Words(BodyFrom, Body)
  BY <1>0, <1>1, <1>2, AllWordsRead DEF Whole
<1>4. UNCHANGED <<typed, op, append, output>>
  BY DEF CheckCommand
<1>5. CASE args = <<>>
  <2>1. parser' = "done" /\ answered' = "syntax"
    BY <1>5 DEF CheckCommand, Answer
  <2>2. BodyFrom > Body
    <3>1. SUFFICES ASSUME Here <= Cut PROVE FALSE
      BY <1>2, <3>1, HereIs, HereIsWhole
    <3>2. PICK S : S = FirstBytes(Here, Cut)
      OBVIOUS
    <3>3. Here \in Nat /\ Cut \in Nat /\ 1 <= Here /\ Here \in 1..Here
      BY <1>2, HereIs
    <3>4. ~Gap(Here) /\ ~Inside(Here)
      BY <1>2, <3>1, <3>3, HereIs DEF Gap
    <3>5. Here \in S
      BY <3>1, <3>2, <3>3, <3>4 DEF FirstBytes
    <3>6. Words(Here, Cut) = Words(BodyFrom, Body)
      BY <1>2, HereIsWhole
    <3>7. Len(Words(Here, Cut)) = Cardinality(S) /\ IsFiniteSet(S)
      BY <3>2, <3>3, FirstBytesAre
    <3>8. Len(Words(Here, Cut)) = 0
      BY <1>3, <1>5, <3>6
    <3> QED
      BY <3>5, <3>7, <3>8, FS_EmptySet
  <2> QED
    BY <1>4, <2>1, <2>2, SyntaxAnswers
<1>6. CASE parser' = "done" /\ args # <<>>
  BY <1>6, OtherAnswers DEF CheckCommand, Answer, Split
<1>7. CASE parser' # "done" /\ args # <<>>
  <2>1. Chars(args[1].bytes) \in Redirectable /\ Split(Behind, Len(Text), "target")
    BY <1>7 DEF CheckCommand, Answer
  <2>2. Ordered
    <3>1. Chars(Words(BodyFrom, Body)[1].bytes) \in Redirectable
      BY <1>3, <2>1
    <3>2. Here \in Nat /\ Cut \in Nat /\ 1 <= Here /\ Here <= Cut + 1
      BY <1>2, HereIs
    <3>3. ASSUME ~(Here <= Cut) PROVE FALSE
      BY <3>2, <3>3, <1>2, <1>3, <1>7, WordsNone, HereIsWhole
    <3> QED
      BY <3>1, <3>3 DEF Ordered
  <2>3. parser' = "words" /\ from' = Behind /\ upto' = Len(Text) /\ why' = "target"
    BY <2>1 DEF Split
  <2>4. SplitInv'
    BY <1>1, <1>2, <1>4, <2>1, BehindIs, LineHasLength, SplitBegins
  <2>5. Text' = Text
    BY <1>4, LineStays
  <2>6. PurposeInv'
    BY <1>2, <1>4, <2>2, <2>3, <2>5, KnownStays DEF PurposeInv
  <2> QED
    BY <2>3, <2>4, <2>6, NotYetDone DEF ParserInv, ScanInv, CommandInv
<1> QED
  BY <1>5, <1>6, <1>7

LEMMA CheckTargetStep ==
    ASSUME ParserInv, CheckTarget
    PROVE  ParserInv'
<1>0. parser = "words" /\ WordsKnown /\ why = "target"
  BY DEF CheckTarget, WordsKnown
<1>1. PurposeInv /\ SplitInv
  BY <1>0, Splitting
<1>2. Known /\ op # 0 /\ from = Behind /\ upto = Len(Text) /\ Ordered
  BY <1>0, <1>1 DEF PurposeInv
<1>3. args = Target
  BY <1>0, <1>1, <1>2, AllWordsRead DEF Target
<1>4. UNCHANGED <<typed, op, append>>
  BY DEF CheckTarget
<1>5. CASE parser' = "done"
  BY <1>0, <1>5, OtherAnswers DEF CheckTarget, Answer
<1>6. CASE parser' # "done"
  <2>1. /\ Len(args) = 1 /\ path(args[1].bytes).ok
        /\ output' = [dev |-> path(args[1].bytes).dev, name |-> path(args[1].bytes).name]
        /\ parser' = "command" /\ from' = Here /\ upto' = Cut
    BY <1>6 DEF CheckTarget, Answer, Here, Cut
  <2>2. Target' = Target /\ Known' /\ Ordered' /\ Here' = Here /\ Cut' = Cut
    BY <1>2, <1>4, KnownStays
  <2>3. Sent'
    BY <1>3, <2>1, <2>2 DEF Sent
  <2>4. CommandInv'
    BY <1>2, <1>4, <2>1, <2>2, <2>3 DEF CommandInv, Settled
  <2> QED
    BY <2>1, <2>4, NotYetDone DEF ParserInv, ScanInv, PurposeInv, SplitInv
<1> QED
  BY <1>5, <1>6

LEMMA RunCommandStep ==
    ASSUME ParserInv, RunCommand
    PROVE  ParserInv'
<1>0. parser = "words" /\ WordsKnown /\ why = "run"
  BY DEF RunCommand, WordsKnown
<1>1. PurposeInv /\ SplitInv
  BY <1>0, Splitting
<1>2. Known /\ Whole /\ Settled
  BY <1>0, <1>1 DEF PurposeInv
<1>3. args = Words(BodyFrom, Body)
  BY <1>0, <1>1, <1>2, AllWordsRead DEF Whole
<1>4. UNCHANGED <<typed, op, append, output, args>> /\ parser' = "done" /\ answered' = "run"
  BY DEF RunCommand, Answer
<1>5. RedirectsWhatWasTyped'
  BY <1>2, <1>4, AnswersAreReal
<1>6. WordsAreArguments'
  BY <1>4, <1>3, LineStays DEF WordsAreArguments
<1> QED
  BY <1>4, <1>5, <1>6, NowDone

LEMMA ParserBegins == ParserInit => ParserInv
<1>1. SUFFICES ASSUME ParserInit PROVE ParserInv
  OBVIOUS
<1>2. /\ typed \in TypedLines /\ parser = "scan" /\ r = 1 /\ quote = FALSE /\ op = 0
      /\ output = Screen
  BY <1>1 DEF ParserInit
<1>3. Len(Text) \in Nat
  BY <1>2, LineHasLength
<1>4. ~Inside(1)
  BY NotInside
<1>5. quote \in BOOLEAN /\ quote = Inside(r)
  <2>1. Inside(1) = FALSE
    BY <1>4 DEF Inside
  <2> QED
    BY <1>2, <2>1
<1>6. \A p \in Arrows : r <= p
  BY <1>2 DEF Arrows
<1>7. ScanInv
  BY <1>2, <1>3, <1>5, <1>6 DEF ScanInv
<1> QED
  BY <1>2, <1>7 DEF ParserInv, CommandInv, PurposeInv, SplitInv, WordsAreArguments, RedirectsWhatWasTyped

LEMMA ParserStep == ParserInv /\ [ParserNext]_parserVars => ParserInv'
<1>1. SUFFICES ASSUME ParserInv, [ParserNext]_parserVars PROVE ParserInv'
  OBVIOUS
<1>2. CASE ScanByte
  BY <1>1, <1>2, ScanByteStep
<1>3. CASE ScanEnds
  BY <1>1, <1>3, ScanEndsStep
<1>4. CASE EnterCommand
  BY <1>1, <1>4, EnterCommandStep
<1>5. CASE NextWord
  BY <1>1, <1>5, NextWordStep
<1>6. CASE WordByte
  BY <1>1, <1>6, WordByteStep
<1>7. CASE WordEnds
  BY <1>1, <1>7, WordEndsStep
<1>8. CASE CheckCommand
  BY <1>1, <1>8, CheckCommandStep
<1>9. CASE CheckTarget
  BY <1>1, <1>9, CheckTargetStep
<1>10. CASE RunCommand
  BY <1>1, <1>10, RunCommandStep
<1>11. CASE UNCHANGED parserVars
  <2>1. UNCHANGED <<parser, typed, r, quote, op, append, from, upto, args, why, output, answered>>
    BY <1>11 DEF parserVars
  <2>2. ScanInv'
    BY <1>1, <2>1, LineStays DEF ParserInv, ScanInv, Screen
  <2>3. CommandInv'
    BY <1>1, <2>1, KnownStays, SettledStays, LineStays DEF ParserInv, CommandInv
  <2>4. PurposeInv'
    <3>1. CASE parser \in {"words", "word"}
      BY <1>1, <2>1, <3>1, PurposeStays DEF ParserInv
    <3>2. CASE parser \notin {"words", "word"}
      BY <2>1, <3>2 DEF PurposeInv
    <3> QED
      BY <3>1, <3>2
  <2>5. SplitInv'
    BY <2>1, <1>1, LineStays DEF Fresh, Separates, Going, ParserInv, SplitInv
  <2>6. WordsAreArguments'
    BY <2>1, <1>1, LineStays DEF ParserInv, WordsAreArguments
  <2>7. RedirectsWhatWasTyped'
    BY <1>1, <2>1, LineStays DEF ParserInv, RedirectsWhatWasTyped, Screen
  <2> QED
    BY <2>2, <2>3, <2>4, <2>5, <2>6, <2>7 DEF ParserInv
<1> QED
  BY <1>1, <1>2, <1>3, <1>4, <1>5, <1>6, <1>7, <1>8, <1>9, <1>10, <1>11 DEF ParserNext

(* core.c:818-866: for a line of any length, with any flags and any number *)
(* of words: the arguments a command gets are the words of its line, and a *)
(* line is malformed only for its quotes, or for having too many or none.  *)
THEOREM ArgumentsAreWords == ParserSpec => []WordsAreArguments
<1>1. ParserInv => WordsAreArguments
  BY DEF ParserInv
<1> QED
  BY <1>1, ParserBegins, ParserStep, PTL DEF ParserSpec

(* core.c:1088-1224: for a line of any length: output leaves the screen    *)
(* only for the one file behind one ">" or ">>" outside quotes, for a      *)
(* command that may, and a second ">" is found only if there is one.       *)
THEOREM OutputGoesWhereTyped == ParserSpec => []RedirectsWhatWasTyped
<1>1. ParserInv => RedirectsWhatWasTyped
  BY DEF ParserInv
<1> QED
  BY <1>1, ParserBegins, ParserStep, PTL DEF ParserSpec
================================================================================
