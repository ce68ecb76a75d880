-------------------------- MODULE JournalStoreProofs --------------------------
(***************************************************************************)
(* The journal keeps its files: on flash that does not decay, a reset at   *)
(* any moment finds exactly the files whose records were committed, and    *)
(* the journal implements FileStore.                                       *)
(***************************************************************************)
EXTENDS JournalProofs, JournalDurability

-----------------------------------------------------------------------------
(* Logs                                                                    *)

LEMMA ReadsType ==
    ASSUME NEW log \in Log, NEW o \in Nat, Reads(log, o)
    PROVE  /\ o \in Offsets /\ log[o] \in Record /\ o <= LIMIT - HEADER
           /\ o + log[o].span \in Nat /\ o + HEADER <= o + log[o].span /\ o + log[o].span <= LIMIT
           /\ o < o + log[o].span
<1>1. HEADER \in Nat \ {0} /\ LIMIT \in Nat
  BY JournalAssumption
<1>2. o \in Offsets /\ o <= LIMIT - HEADER
  BY <1>1 DEF Reads, Offsets
<1>3. log[o] \in Record
  BY <1>2, CellType DEF Reads, Log
<1>4. log[o].span \in Nat
  BY <1>3, RecordType
<1>. QED  BY <1>1, <1>2, <1>3, <1>4 DEF Reads

(* The recursion of Records has a solution. *)
IsWalk(log, from, k) ==
    from = [o \in k..LIMIT |-> IF Reads(log, o) THEN {o} \cup from[o + log[o].span] ELSE {}]

LEMMA WalkExists ==
    ASSUME NEW log \in Log
    PROVE  \E from : IsWalk(log, from, 0)
<1>. DEFINE Bad == {m \in 0..LIMIT : ~\E from : IsWalk(log, from, LIMIT - m)}
<1>0. LIMIT \in Nat /\ HEADER \in Nat \ {0}
  BY JournalAssumption
<1>1. ASSUME Bad # {} PROVE FALSE
  <2>0. Bad \in SUBSET Nat
    BY <1>0
  <2>1. PICK m \in Bad : \A k \in Bad : m <= k
    BY <1>1, <2>0, LeastNatural
  <2>. DEFINE k == LIMIT - m
  <2>2. k \in Nat /\ k <= LIMIT /\ m \in Nat
    BY <1>0, <2>1
  <2>3. CASE m = 0
    <3>. DEFINE from == [o \in k..LIMIT |-> {}]
    <3>1. \A o \in k..LIMIT : o = LIMIT
      BY <1>0, <2>2, <2>3
    <3>2. \A o \in k..LIMIT : ~Reads(log, o)
      BY <1>0, <3>1 DEF Reads
    <3>3. from = [o \in k..LIMIT |-> IF Reads(log, o) THEN {o} \cup from[o + log[o].span] ELSE {}]
      BY <3>2
    <3>. HIDE DEF from
    <3>. QED  BY <2>1, <3>3 DEF IsWalk
  <2>4. CASE m # 0
    <3>1. m - 1 \in 0..LIMIT /\ ~(m <= m - 1) /\ LIMIT - (m - 1) = k + 1
      BY <1>0, <2>1, <2>4
    <3>2. PICK g : IsWalk(log, g, k + 1)
      BY <2>1, <3>1
    <3>. DEFINE from == [o \in k..LIMIT |-> IF o = k
                           THEN IF Reads(log, k) THEN {k} \cup g[k + log[k].span] ELSE {} ELSE g[o]]
    <3>3. \A o \in k..LIMIT : Reads(log, o) => o + log[o].span \in (k + 1)..LIMIT
      BY <1>0, <2>2, ReadsType
    <3>4. \A o \in (k + 1)..LIMIT : o \in k..LIMIT /\ o # k /\ from[o] = g[o]
      BY <1>0, <2>2
    <3>5. \A o \in (k + 1)..LIMIT : g[o] = IF Reads(log, o) THEN {o} \cup g[o + log[o].span] ELSE {}
      BY <3>2 DEF IsWalk
    <3>6. k \in k..LIMIT /\ \A o \in k..LIMIT : o = k \/ o \in (k + 1)..LIMIT
      BY <1>0, <2>2
    <3>7. from[k] = IF Reads(log, k) THEN {k} \cup g[k + log[k].span] ELSE {}
      BY <3>6
    <3>8. from = [o \in k..LIMIT |-> from[o]]
      OBVIOUS
    <3>. HIDE DEF from, k
    <3>9. \A o \in k..LIMIT : from[o] = IF Reads(log, o) THEN {o} \cup from[o + log[o].span] ELSE {}
      BY <3>3, <3>4, <3>5, <3>6, <3>7
    <3>10. IsWalk(log, from, k)
      BY <3>8, <3>9 DEF IsWalk
    <3>. QED  BY <2>1, <3>10 DEF k
  <2>. QED  BY <2>3, <2>4
<1>2. LIMIT \in 0..LIMIT /\ LIMIT - LIMIT = 0
  BY <1>0
<1>. QED  BY <1>1, <1>2

LEMMA RecordsWalk ==
    ASSUME NEW log \in Log
    PROVE  \E from : /\ Records(log) = from[HEADER]
                     /\ \A o \in 0..LIMIT :
                          from[o] = IF Reads(log, o) THEN {o} \cup from[o + log[o].span] ELSE {}
<1>. DEFINE F(from) == [o \in 0..LIMIT |-> IF Reads(log, o) THEN {o} \cup from[o + log[o].span] ELSE {}]
            from == CHOOSE from : from = F(from)
<1>1. \E w : w = F(w)
  BY WalkExists DEF IsWalk
<1>2. from = F(from)
  BY <1>1
<1>3. Records(log) = from[HEADER]
  BY DEF Records
<1>. HIDE DEF from
<1>4. \A o \in 0..LIMIT : from[o] = IF Reads(log, o) THEN {o} \cup from[o + log[o].span] ELSE {}
  BY <1>2
<1>. QED  BY <1>3, <1>4

(* What a walk meets lies ahead. *)
LEMMA WalkAhead ==
    ASSUME NEW log \in Log, NEW from,
           \A o \in 0..LIMIT : from[o] = IF Reads(log, o) THEN {o} \cup from[o + log[o].span] ELSE {}
    PROVE  \A o \in 0..LIMIT : \A p \in from[o] : p \in Offsets /\ p >= o /\ Reads(log, p)
<1>0. LIMIT \in Nat
  BY JournalAssumption
<1>. DEFINE Ahead(o) == \A p \in from[o] : p \in Offsets /\ p >= o /\ Reads(log, p)
            Bad == {m \in 0..LIMIT : ~Ahead(LIMIT - m)}
<1>1. ASSUME Bad # {} PROVE FALSE
  <2>0. Bad \in SUBSET Nat
    BY <1>0
  <2>1. PICK m \in Bad : \A k \in Bad : m <= k
    BY <1>1, <2>0, LeastNatural
  <2>. DEFINE o == LIMIT - m
  <2>2. o \in 0..LIMIT /\ o \in Nat /\ ~Ahead(o) /\ m \in 0..LIMIT
    BY <1>0, <2>1
  <2>3. Reads(log, o)
    BY <2>2
  <2>. DEFINE q == o + log[o].span
  <2>4. o \in Offsets /\ q \in Nat /\ o < q /\ q <= LIMIT
    BY <2>2, <2>3, ReadsType
  <2>5. LIMIT - q \in 0..LIMIT /\ LIMIT - (LIMIT - q) = q /\ ~(m <= LIMIT - q)
    BY <1>0, <2>2, <2>4
  <2>6. Ahead(q)
    BY <2>1, <2>5
  <2>7. from[o] = {o} \cup from[q]
    BY <2>2, <2>3
  <2>. HIDE DEF o, q
  <2>8. \A p \in from[q] : p >= o
    BY <2>2, <2>4, <2>6 DEF Offsets
  <2>. QED  BY <2>2, <2>3, <2>4, <2>6, <2>7, <2>8
<1>2. ASSUME NEW o \in 0..LIMIT PROVE Ahead(o)
  <2>1. LIMIT - o \in 0..LIMIT /\ LIMIT - (LIMIT - o) = o
    BY <1>0
  <2>. QED  BY <1>1, <2>1
<1>. QED  BY <1>2

(* A chain of records is the beginning of what the log says. *)
LEMMA ChainSplits ==
    ASSUME NEW log \in Log, NEW recs, NEW n, IsChain(log, recs, n)
    PROVE  /\ n \in Nat /\ HEADER <= n /\ n <= LIMIT
           /\ \A o \in recs : o \in Nat /\ o + log[o].span \in Nat /\ o < o + log[o].span /\ o < n
           /\ \E rest : /\ Records(log) = recs \cup rest
                        /\ \A o \in rest : o \in Offsets /\ o >= n /\ Reads(log, o)
                        /\ ~Reads(log, n) => rest = {}
<1>0. LIMIT \in Nat /\ HEADER \in Nat \ {0} /\ HEADER <= LIMIT
  BY JournalAssumption
<1>1. /\ recs \subseteq Offsets /\ n \in Nat /\ HEADER \in recs \cup {n} /\ n \in Stops(log, recs)
      /\ \A o \in recs : /\ HEADER <= o /\ Reads(log, o) /\ o + log[o].span \in recs \cup {n}
                         /\ o + log[o].span <= n /\ \A p \in recs : o < p => o + log[o].span <= p
  BY DEF IsChain
<1>2. \A o \in recs : o \in Nat /\ o + log[o].span \in Nat /\ o < o + log[o].span /\ o + log[o].span <= LIMIT
  <2>1. \A o \in recs : o \in Nat
    BY <1>0, <1>1 DEF Offsets
  <2>. QED  BY <1>1, <2>1, ReadsType
<1>3. n >= HEADER /\ n <= LIMIT
  BY <1>0, <1>1, <1>2 DEF Stops
<1>4. \A o \in recs : o < n
  BY <1>1, <1>2
<1>5. PICK from : /\ Records(log) = from[HEADER]
                  /\ \A o \in 0..LIMIT :
                       from[o] = IF Reads(log, o) THEN {o} \cup from[o + log[o].span] ELSE {}
  BY RecordsWalk
<1>. DEFINE Rest(o) == {p \in recs : p >= o}
            Bad == {m \in 0..LIMIT : LIMIT - m \in recs \cup {n} /\ from[LIMIT - m] # Rest(LIMIT - m) \cup from[n]}
<1>6. ASSUME Bad # {} PROVE FALSE
  <2>0. Bad \in SUBSET Nat
    BY <1>0
  <2>1. PICK m \in Bad : \A k \in Bad : m <= k
    BY <1>6, <2>0, LeastNatural
  <2>. DEFINE o == LIMIT - m
  <2>2. o \in 0..LIMIT /\ o \in recs \cup {n} /\ from[o] # Rest(o) \cup from[n] /\ m \in 0..LIMIT
    BY <1>0, <2>1
  <2>3. CASE o = n
    <3>1. Rest(o) = {}
      BY <1>1, <1>2, <1>4, <2>3
    <3>. QED  BY <2>2, <2>3, <3>1
  <2>4. CASE o \in recs
    <3>. DEFINE q == o + log[o].span
    <3>1. q \in Nat /\ o < q /\ q <= LIMIT /\ q \in recs \cup {n}
      BY <1>1, <1>2, <2>4
    <3>2. LIMIT - q \in 0..LIMIT /\ LIMIT - (LIMIT - q) = q /\ ~(m <= LIMIT - q)
      BY <1>0, <2>2, <3>1
    <3>3. from[q] = Rest(q) \cup from[n]
      BY <2>1, <3>1, <3>2
    <3>4. Rest(o) = {o} \cup Rest(q)
      <4>. HIDE DEF o
      <4>1. ASSUME NEW p \in recs, p >= o PROVE p = o \/ p >= q
        BY <1>1, <1>2, <2>4, <4>1
      <4>2. ASSUME NEW p \in recs, p >= q PROVE p >= o
        BY <1>2, <2>4, <3>1, <4>2
      <4>3. o >= o
        BY <1>2, <2>4
      <4>. QED  BY <2>4, <4>1, <4>2, <4>3
    <3>5. from[o] = {o} \cup from[q]
      BY <1>1, <1>5, <2>2, <2>4
    <3>. QED  BY <2>2, <3>3, <3>4, <3>5
  <2>. QED  BY <2>2, <2>3, <2>4
<1>7. from[HEADER] = Rest(HEADER) \cup from[n]
  <2>1. LIMIT - HEADER \in 0..LIMIT /\ LIMIT - (LIMIT - HEADER) = HEADER
    BY <1>0
  <2>. QED  BY <1>1, <1>6, <2>1
<1>8. Rest(HEADER) = recs
  BY <1>1, <1>2, <1>0
<1>9. Records(log) = recs \cup from[n]
  BY <1>5, <1>7, <1>8
<1>10. n \in 0..LIMIT
  BY <1>0, <1>1, <1>3
<1>11. \A o \in from[n] : o \in Offsets /\ o >= n /\ Reads(log, o)
  BY <1>5, <1>10, WalkAhead
<1>12. ~Reads(log, n) => from[n] = {}
  BY <1>5, <1>10
<1>. QED  BY <1>1, <1>2, <1>3, <1>4, <1>9, <1>11, <1>12

(* A chain of records that cannot be continued is what the log says. *)
LEMMA ChainIsRecords ==
    ASSUME NEW log \in Log, NEW recs, NEW n, IsChain(log, recs, n), ~Reads(log, n)
    PROVE  Records(log) = recs /\ End(log) = n /\ n >= HEADER /\ n <= LIMIT
<1>0. HEADER \in Nat \ {0}
  BY JournalAssumption
<1>1. /\ n \in Nat /\ n >= HEADER /\ n <= LIMIT /\ Records(log) = recs
      /\ \A o \in recs : o \in Nat /\ o + log[o].span \in Nat /\ o < o + log[o].span /\ o < n
  <2>1. n \in Nat /\ HEADER <= n /\ n <= LIMIT
    BY ChainSplits
  <2>2. \A o \in recs : o \in Nat /\ o + log[o].span \in Nat /\ o < o + log[o].span /\ o < n
    BY ChainSplits
  <2>3. PICK rest : Records(log) = recs \cup rest /\ (~Reads(log, n) => rest = {})
    BY ChainSplits
  <2>. QED  BY <1>0, <2>1, <2>2, <2>3
<1>2. /\ HEADER \in recs \cup {n} /\ n \in Stops(log, recs)
      /\ \A o \in recs : o + log[o].span \in recs \cup {n}
  BY DEF IsChain
<1>3. \A o \in recs : n > o
  BY <1>1
<1>4. ASSUME NEW e \in Stops(log, recs), \A o \in recs : e > o PROVE e = n
  <2>1. CASE e = HEADER
    <3>1. recs = {}
      <4>1. ASSUME NEW o \in recs PROVE FALSE
        BY <1>0, <1>1, <1>4, <2>1, <4>1 DEF IsChain
      <4>. QED  BY <4>1
    <3>. QED  BY <1>2, <2>1, <3>1
  <2>2. CASE \E o \in recs : e = o + log[o].span
    <3>1. e \in recs \cup {n}
      BY <1>2, <2>2
    <3>2. e \notin recs
      BY <1>1, <1>4
    <3>. QED  BY <3>1, <3>2
  <2>. QED  BY <2>1, <2>2 DEF Stops
<1>5. End(log) = n
  BY <1>1, <1>2, <1>3, <1>4 DEF End
<1>. QED  BY <1>1, <1>5

(* Two newest records of a slot are the same. *)
LEMMA IndexIs ==
    ASSUME NEW log, Records(log) \subseteq Offsets, NEW h \in [Slots -> Nat],
           IsIndex(log, Records(log), h)
    PROVE  Index(log) = h
<1>1. ASSUME NEW i \in Slots
      PROVE  (LET mine == {o \in Heads(log) : log[o].slot = i}
              IN  IF mine = {} THEN 0 ELSE CHOOSE o \in mine : TRUE) = h[i]
  <2>. DEFINE mine == {o \in Heads(log) : log[o].slot = i}
  <2>1. \A o \in mine : o \in Records(log) /\ IsHead(log, Records(log), o) /\ log[o].slot = i
    BY DEF Heads
  <2>2. CASE h[i] = 0
    <3>1. mine = {}
      BY <2>1, <2>2 DEF IsIndex
    <3>. QED  BY <2>2, <3>1
  <2>3. CASE h[i] # 0
    <3>1. h[i] \in Records(log) /\ log[h[i]].slot = i /\ IsHead(log, Records(log), h[i])
      BY <2>3 DEF IsIndex
    <3>2. h[i] \in mine
      BY <3>1 DEF Heads
    <3>3. \A o \in mine : ~(o > h[i]) /\ ~(h[i] > o)
      BY <2>1, <3>1 DEF IsHead, About
    <3>4. \A o \in mine : o = h[i]
      BY <2>1, <3>1, <3>3 DEF Offsets
    <3>5. (CHOOSE o \in mine : TRUE) \in mine
      BY <3>2
    <3>. QED  BY <3>2, <3>4, <3>5
  <2>. QED  BY <2>2, <2>3
<1>2. Index(log) = [i \in Slots |-> h[i]]
  BY <1>1 DEF Index
<1>. QED  BY <1>2

LEMMA LoggedIs ==
    ASSUME NEW log \in Log, NEW n, NEW h \in [Slots -> Nat], Logged(log, n, h)
    PROVE  End(log) = n /\ Index(log) = h /\ n \in Nat /\ HEADER <= n /\ n <= LIMIT
<1>1. IsChain(log, Records(log), n) /\ ~Reads(log, n) /\ IsIndex(log, Records(log), h)
  BY DEF Logged
<1>2. Records(log) \subseteq Offsets /\ n \in Nat
  BY <1>1 DEF IsChain
<1>. QED  BY <1>1, <1>2, ChainIsRecords, IndexIs, JournalAssumption

(* Where records are, and the files that the index describes. *)
LEMMA LoggedPlaces ==
    ASSUME NEW log \in Log, NEW n, NEW h \in [Slots -> Nat], Logged(log, n, h)
    PROVE  /\ \A o \in Records(log) :
                /\ o \in Offsets /\ log[o] \in Record /\ HEADER <= o /\ Reads(log, o)
                /\ o < n /\ o + log[o].span \in Nat /\ o < o + log[o].span /\ o + log[o].span <= n
           /\ \A i \in Slots : h[i] # 0 =>
                /\ h[i] \in Records(log) /\ log[h[i]].slot = i
                /\ log[h[i]].len <= CAPACITY /\ log[h[i]].kind \in {1, 2}
                /\ HEADER <= log[h[i]].off /\ log[h[i]].off + log[h[i]].len <= n
<1>0. HEADER \in Nat \ {0} /\ n \in Nat
  BY LoggedIs, JournalAssumption
<1>1. ASSUME NEW o \in Records(log)
      PROVE  /\ o \in Offsets /\ log[o] \in Record /\ HEADER <= o /\ Reads(log, o)
             /\ o < n /\ o + log[o].span \in Nat /\ o < o + log[o].span /\ o + log[o].span <= n
  <2>1. o \in Offsets /\ HEADER <= o /\ Reads(log, o) /\ o + log[o].span <= n
    BY <1>1 DEF Logged, IsChain
  <2>2. o \in Nat
    BY <2>1, <1>0 DEF Offsets
  <2>3. log[o] \in Record /\ o + log[o].span \in Nat /\ o < o + log[o].span
    BY <2>1, <2>2, ReadsType
  <2>. QED  BY <1>0, <2>1, <2>2, <2>3
<1>2. ASSUME NEW i \in Slots, h[i] # 0
      PROVE  /\ h[i] \in Records(log) /\ log[h[i]].slot = i
             /\ log[h[i]].len <= CAPACITY /\ log[h[i]].kind \in {1, 2}
             /\ HEADER <= log[h[i]].off /\ log[h[i]].off + log[h[i]].len <= n
  <2>. DEFINE o == h[i]
              r == log[o]
  <2>1. o \in Records(log) /\ r.slot = i /\ r.kind # 3
    BY <1>2 DEF Logged, IsIndex, IsHead
  <2>2. o \in Nat /\ o < n /\ HEADER <= o /\ o + r.span <= n /\ r \in Record /\ Reads(log, o)
    BY <1>1, <2>1
  <2>3. r.kind \in {1, 2} /\ r.off \in Nat /\ r.len \in Nat /\ r.span \in Nat
    BY <2>1, <2>2, RecordType
  <2>4. /\ r.len <= CAPACITY
        /\ r.kind = 1 => r.off = o + HEADER /\ r.len = r.span - HEADER
        /\ r.kind = 2 => HEADER <= r.off /\ r.off + r.len <= o
    BY <2>2 DEF Reads
  <2>. HIDE DEF o, r
  <2>5. HEADER <= r.off /\ r.off + r.len <= n
    BY <1>0, <2>2, <2>3, <2>4
  <2>. QED  BY <2>1, <2>3, <2>4, <2>5 DEF o, r
<1>. QED  BY <1>1, <1>2

-----------------------------------------------------------------------------
(* What is programmed behind a log does not change it, and a record that   *)
(* is committed there continues it.                                        *)

Same(log, new, from, upto) == \A o \in Offsets : from <= o /\ o < upto => new[o] = log[o]

LEMMA ExtractSame ==
    ASSUME NEW log, NEW new, NEW off \in Nat, NEW len \in Nat, Same(log, new, off, off + len)
    PROVE  Extract(new, off, len) = Extract(log, off, len)
<1>1. \A j \in 1..len : off + j - 1 \in Int /\ off <= off + j - 1 /\ off + j - 1 < off + len
  OBVIOUS
<1>2. \A j \in 1..len : off + j - 1 \in Offsets => new[off + j - 1] = log[off + j - 1]
  BY <1>1 DEF Same
<1>. QED  BY <1>2 DEF Extract

LEMMA ReadsSame ==
    ASSUME NEW log \in Log, NEW new, NEW o \in Nat, Reads(log, o), Same(log, new, o, o + log[o].span)
    PROVE  Reads(new, o) /\ new[o] = log[o]
<1>1. log[o] \in Record /\ o \in Offsets /\ o < o + log[o].span /\ HEADER \in Nat
  BY ReadsType, JournalAssumption
<1>2. new[o] = log[o]
  BY <1>1 DEF Same
<1>3. log[o].span \in Nat /\ HEADER <= log[o].span
  BY <1>1, RecordType DEF Reads
<1>4. o + HEADER \in Nat /\ log[o].span - HEADER \in Nat
  BY <1>1, <1>3
<1>5. (o + HEADER) + (log[o].span - HEADER) = o + log[o].span /\ o <= o + HEADER
  BY <1>1, <1>3
<1>6. Same(log, new, o + HEADER, (o + HEADER) + (log[o].span - HEADER))
  BY <1>1, <1>5 DEF Same, Offsets
<1>7. Extract(new, o + HEADER, log[o].span - HEADER) = Extract(log, o + HEADER, log[o].span - HEADER)
  BY <1>4, <1>6, ExtractSame
<1>. QED  BY <1>2, <1>7 DEF Reads

LEMMA ChainSame ==
    ASSUME NEW log \in Log, NEW new, NEW recs, NEW n, IsChain(log, recs, n), Same(log, new, 0, n)
    PROVE  IsChain(new, recs, n) /\ \A o \in recs : o < n /\ new[o] = log[o]
<1>0. \A o \in Offsets : o \in Nat
  BY DEF Offsets
<1>1. ASSUME NEW o \in recs PROVE Reads(new, o) /\ new[o] = log[o] /\ o < n
  <2>1. o \in Nat /\ Reads(log, o) /\ o + log[o].span <= n /\ n \in Nat
    BY <1>0 DEF IsChain
  <2>2. o + log[o].span \in Nat /\ o < o + log[o].span
    BY <2>1, ReadsType
  <2>3. Same(log, new, o, o + log[o].span)
    BY <1>0, <2>1, <2>2 DEF Same
  <2>. QED  BY <2>1, <2>2, <2>3, ReadsSame
<1>2. Stops(new, recs) = Stops(log, recs)
  BY <1>1 DEF Stops
<1>3. \A o \in recs : log[o] = new[o]
  BY <1>1
<1>4. ASSUME NEW o \in recs
      PROVE  /\ HEADER <= o /\ Reads(new, o)
             /\ o + new[o].span \in recs \cup {n} /\ o + new[o].span <= n
             /\ \A p \in recs : o < p => o + new[o].span <= p
  BY <1>1, <1>3, Zenon DEF IsChain
<1>5. recs \subseteq Offsets /\ n \in Nat /\ HEADER \in recs \cup {n} /\ n \in Stops(log, recs)
  BY DEF IsChain
<1>6. IsChain(new, recs, n)
  BY <1>2, <1>4, <1>5, Zenon DEF IsChain
<1>. QED  BY <1>1, <1>6, Zenon

LEMMA IndexSame ==
    ASSUME NEW log, NEW new, NEW recs, \A o \in recs : new[o] = log[o],
           NEW h, IsIndex(log, recs, h)
    PROVE  IsIndex(new, recs, h)
BY DEF IsIndex, IsHead

LEMMA LoggedSame ==
    ASSUME NEW log \in Log, NEW new \in Log, NEW n, NEW h, Logged(log, n, h),
           Same(log, new, 0, n), ~Reads(new, n)
    PROVE  Logged(new, n, h) /\ Records(new) = Records(log)
           /\ \A o \in Records(log) : new[o] = log[o]
<1>1. IsChain(log, Records(log), n) /\ IsIndex(log, Records(log), h)
  BY DEF Logged
<1>2. IsChain(new, Records(log), n) /\ \A o \in Records(log) : new[o] = log[o]
  BY <1>1, ChainSame
<1>3. Records(new) = Records(log)
  BY <1>2, ChainIsRecords
<1>4. IsIndex(new, Records(log), h)
  BY <1>1, <1>2, IndexSame
<1>. QED  BY <1>2, <1>3, <1>4 DEF Logged

(* apply() *)
AfterRecord(h, r, o) ==
    [i \in Slots |-> IF i = r.slot THEN (IF r.kind = 3 THEN 0 ELSE o) ELSE IF i = r.drop THEN 0 ELSE h[i]]

LEMMA IndexGrows ==
    ASSUME NEW log, NEW recs, NEW n \in Nat, n # 0, \A o \in recs : o \in Nat /\ o < n,
           log[n].slot # log[n].drop, NEW h, IsIndex(log, recs, h)
    PROVE  IsIndex(log, recs \cup {n}, AfterRecord(h, log[n], n))
<1>1. ASSUME NEW o \in recs
      PROVE  IsHead(log, recs \cup {n}, o) <=> IsHead(log, recs, o) /\ ~About(log[n], log[o].slot)
  BY <1>1 DEF IsHead
<1>2. IsHead(log, recs \cup {n}, n) <=> log[n].kind # 3
  <2>1. \A p \in recs \cup {n} : ~(p > n)
    OBVIOUS
  <2>. QED  BY <2>1 DEF IsHead
<1>3. ASSUME NEW i \in Slots, NEW g, g = AfterRecord(h, log[n], n)[i]
      PROVE  IF g = 0 THEN \A o \in recs \cup {n} : log[o].slot = i => ~IsHead(log, recs \cup {n}, o)
             ELSE g \in recs \cup {n} /\ log[g].slot = i /\ IsHead(log, recs \cup {n}, g)
  <2>1. g = IF i = log[n].slot THEN (IF log[n].kind = 3 THEN 0 ELSE n) ELSE IF i = log[n].drop THEN 0 ELSE h[i]
    BY <1>3 DEF AfterRecord
  <2>2. CASE i = log[n].slot /\ log[n].kind = 3
    BY <1>1, <1>2, <2>1, <2>2 DEF About
  <2>3. CASE i = log[n].slot /\ log[n].kind # 3
    BY <1>2, <2>1, <2>3
  <2>4. CASE i # log[n].slot /\ i = log[n].drop
    BY <1>1, <2>1, <2>4 DEF About
  <2>5. CASE i # log[n].slot /\ i # log[n].drop
    <3>1. g = h[i]
      BY <2>1, <2>5
    <3>2. CASE h[i] = 0
      BY <1>1, <2>5, <3>1, <3>2 DEF IsIndex
    <3>3. CASE h[i] # 0
      <4>1. h[i] \in recs /\ log[h[i]].slot = i /\ IsHead(log, recs, h[i])
        BY <3>3 DEF IsIndex
      <4>. QED  BY <1>1, <2>5, <3>1, <3>3, <4>1 DEF About
    <3>. QED  BY <3>2, <3>3
  <2>. QED  BY <2>2, <2>3, <2>4, <2>5
<1>. QED  BY <1>3, Zenon DEF IsIndex

LEMMA ErasedEnds ==
    ASSUME NEW log, NEW n \in Nat, Erased(log, n)
    PROVE  ~Reads(log, n)
<1>1. n <= LIMIT - HEADER => n \in Offsets /\ n >= n
  BY JournalAssumption DEF Offsets
<1>. QED  BY <1>1 DEF Erased, Reads, Blank

LEMMA ChainGrows ==
    ASSUME NEW log \in Log, NEW new \in Log, NEW places, NEW n, IsChain(log, places, n),
           Same(log, new, 0, n), Reads(new, n)
    PROVE  /\ IsChain(new, places \cup {n}, n + new[n].span)
           /\ \A o \in places : o \in Nat /\ o < n
           /\ n \in Nat /\ n # 0
<1>1. IsChain(new, places, n) /\ \A o \in places : o < n /\ new[o] = log[o]
  <2>1. IsChain(new, places, n)
    BY ChainSame
  <2>2. \A o \in places : o < n
    BY ChainSame
  <2>3. \A o \in places : o \in Offsets /\ 0 <= o
    BY DEF IsChain, Offsets
  <2>4. \A o \in places : new[o] = log[o]
    BY <2>2, <2>3 DEF Same
  <2>. QED  BY <2>1, <2>2, <2>4
<1>2. n \in Nat /\ HEADER <= n /\ HEADER \in Nat \ {0}
  BY ChainSplits, JournalAssumption
<1>. DEFINE m == n + new[n].span
            more == places \cup {n}
<1>3. n \in Offsets /\ m \in Nat /\ n < m /\ new[n] \in Record
  BY <1>2, ReadsType
<1>4. places \subseteq Nat /\ places \subseteq Offsets
  BY DEF IsChain, Offsets
<1>5. more \subseteq Offsets /\ m \in Nat
  BY <1>3, <1>4
<1>6. HEADER \in more \cup {m} /\ m \in Stops(new, more)
  BY <1>1 DEF IsChain, Stops
<1>7. ASSUME NEW o \in places
      PROVE  /\ HEADER <= o /\ Reads(new, o)
             /\ o + new[o].span \in more \cup {m} /\ o + new[o].span <= m
             /\ \A p \in more : o < p => o + new[o].span <= p
  <2>1. /\ HEADER <= o /\ Reads(new, o)
        /\ o + new[o].span \in places \cup {n} /\ o + new[o].span <= n
        /\ \A p \in places : o < p => o + new[o].span <= p
    BY <1>1, <1>7 DEF IsChain
  <2>2. o + new[o].span \in Nat
    BY <1>2, <1>4, <2>1
  <2>3. o + new[o].span <= m
    <3>. HIDE DEF m
    <3>. QED  BY <1>2, <1>3, <2>1, <2>2
  <2>. QED  BY <2>1, <2>3
<1>8. /\ HEADER <= n /\ Reads(new, n)
      /\ m \in more \cup {m} /\ m <= m
      /\ \A p \in more : n < p => m <= p
  <2>1. \A p \in more : ~(n < p)
    BY <1>1, <1>2, <1>4
  <2>. QED  BY <1>2, <1>3, <2>1
<1>9. IsChain(new, more, m)
  BY <1>5, <1>6, <1>7, <1>8 DEF IsChain
<1>10. \A o \in places : o \in Nat
  BY <1>4
<1>. QED  BY <1>1, <1>2, <1>9, <1>10

LEMMA LoggedGrows ==
    ASSUME NEW log \in Log, NEW new \in Log, NEW n, NEW h, Logged(log, n, h),
           Same(log, new, 0, n), Reads(new, n), ~Reads(new, n + new[n].span)
    PROVE  /\ Logged(new, n + new[n].span, AfterRecord(h, new[n], n))
           /\ Records(new) = Records(log) \cup {n}
           /\ \A o \in Records(log) : new[o] = log[o]
<1>1. IsChain(log, Records(log), n) /\ IsIndex(log, Records(log), h)
  BY DEF Logged
<1>. DEFINE more == Records(log) \cup {n}
<1>2. IsChain(new, more, n + new[n].span)
  BY <1>1, ChainGrows
<1>3. \A o \in Records(log) : o \in Nat /\ o < n /\ new[o] = log[o]
  <2>. DEFINE places == Records(log)
  <2>1. IsChain(log, places, n)
    BY <1>1
  <2>. HIDE DEF places
  <2>2. \A o \in places : o \in Nat /\ o < n
    BY <2>1, ChainGrows
  <2>3. \A o \in places : o \in Offsets /\ 0 <= o
    BY <2>1 DEF IsChain, Offsets
  <2>4. \A o \in places : new[o] = log[o]
    BY <2>2, <2>3 DEF Same
  <2>. QED  BY <2>2, <2>4 DEF places
<1>4. n \in Nat /\ n # 0
  BY <1>1, ChainGrows
<1>5. Records(new) = more
  BY <1>2, ChainIsRecords
<1>6. IsIndex(new, Records(log), h)
  BY <1>1, <1>3, IndexSame
<1>7. new[n].slot # new[n].drop
  BY DEF Reads
<1>8. IsIndex(new, more, AfterRecord(h, new[n], n))
  <2>1. \A o \in Records(log) : o \in Nat /\ o < n
    BY <1>3, Zenon
  <2>. QED  BY <2>1, <1>4, <1>6, <1>7, IndexGrows, Zenon
<1>. QED  BY <1>2, <1>3, <1>5, <1>8 DEF Logged

LEMMA SoundSame ==
    ASSUME NEW log \in Log, NEW new \in Log, NEW base, NEW n, NEW h, Sound(log, base, n, h),
           h \in [Slots -> Nat], Same(log, new, 0, n), ~Reads(new, n), SeemsErased(new, n) => Erased(new, n)
    PROVE  Sound(new, base, n, h)
<1>1. Logged(log, n, h) /\ base \in Stops(log, Records(log)) /\ OneName(log, h)
  BY DEF Sound
<1>2. Logged(new, n, h) /\ Records(new) = Records(log) /\ \A o \in Records(log) : new[o] = log[o]
  BY <1>1, LoggedSame
<1>3. \A i \in Slots : h[i] # 0 => new[h[i]] = log[h[i]]
  BY <1>1, <1>2, LoggedPlaces
<1>4. OneName(new, h)
  BY <1>1, <1>3 DEF OneName
<1>5. base \in Stops(new, Records(new))
  BY <1>1, <1>2 DEF Stops
<1>. QED  BY <1>2, <1>4, <1>5 DEF Sound

LEMMA SoundGrows ==
    ASSUME NEW log \in Log, NEW new \in Log, NEW base, NEW n, NEW h \in [Slots -> Nat], Sound(log, base, n, h),
           Same(log, new, 0, n), Reads(new, n), Erased(new, n + new[n].span),
           OneName(new, AfterRecord(h, new[n], n))
    PROVE  Sound(new, base, n + new[n].span, AfterRecord(h, new[n], n))
<1>1. Logged(log, n, h) /\ base \in Stops(log, Records(log))
  BY DEF Sound
<1>2. n + new[n].span \in Nat
  BY <1>1, LoggedIs, ReadsType
<1>3. /\ Logged(new, n + new[n].span, AfterRecord(h, new[n], n)) /\ Records(new) = Records(log) \cup {n}
      /\ \A o \in Records(log) : new[o] = log[o]
  BY <1>1, <1>2, ErasedEnds, LoggedGrows
<1>4. base \in Stops(new, Records(new))
  BY <1>1, <1>3 DEF Stops
<1>. QED  BY <1>3, <1>4 DEF Sound

LEMMA SoundIs ==
    ASSUME NEW log \in Log, NEW base, NEW n, NEW h, h \in [Slots -> Nat], Sound(log, base, n, h)
    PROVE  End(log) = n /\ Index(log) = h /\ n \in Nat /\ HEADER <= n /\ n <= LIMIT
BY LoggedIs DEF Sound

-----------------------------------------------------------------------------
(* The log of the side in use *)

LEMMA ActiveLog ==
    ASSUME IndInv, Durability, Serviceable
    PROVE  /\ Sound(cell[active], sector[active].base, tail, heads)
           /\ Logged(cell[active], tail, heads)
           /\ tail \in Nat /\ HEADER <= tail /\ tail <= LIMIT
           /\ active = Chosen /\ Sealed(active) /\ active \in Sides
           /\ cell[active] \in Log /\ heads \in [Slots -> Nat]
<1>1. cell[active] \in Log /\ heads \in [Slots -> Nat] /\ active \in Sides
  BY DEF IndInv, TypeOK, Log
<1>2. active = Chosen /\ Sealed(active) /\ tail = End(cell[active]) /\ heads = Index(cell[active])
  BY DEF Durability, ResetFindsAll, IndexIsReal, Serviceable
<1>3. Sound(cell[active], sector[active].base, tail, heads)
  BY <1>2 DEF Durability, ResetFindsAll
<1>4. tail \in Nat /\ HEADER <= tail /\ tail <= LIMIT
  BY <1>1, <1>3, SoundIs
<1>. QED  BY <1>1, <1>2, <1>3, <1>4 DEF Sound

LEMMA LiveFiles ==
    ASSUME IndInv, Durability, Serviceable, NEW i \in Live
    PROVE  /\ i \in Slots /\ heads[i] \in Records(cell[active]) /\ heads[i] \in Offsets
           /\ Entry(i) \in Record /\ Entry(i).slot = i /\ Entry(i).len <= CAPACITY /\ heads[i] < tail
           /\ HEADER <= Entry(i).off /\ Entry(i).off + Entry(i).len <= tail
           /\ Entry(i).off \in Nat /\ Entry(i).len \in Nat
<1>1. i \in Slots /\ heads[i] # 0
  BY DEF Live
<1>2. cell[active] \in Log /\ heads \in [Slots -> Nat] /\ Logged(cell[active], tail, heads)
  BY ActiveLog
<1>3. heads[i] \in Records(cell[active]) /\ heads[i] \in Offsets /\ Entry(i) \in Record /\ heads[i] < tail
  BY <1>1, <1>2, LoggedPlaces DEF Entry
<1>4. /\ Entry(i).slot = i /\ Entry(i).len <= CAPACITY
      /\ HEADER <= Entry(i).off /\ Entry(i).off + Entry(i).len <= tail
  BY <1>1, <1>2, LoggedPlaces DEF Entry
<1>. QED  BY <1>1, <1>3, <1>4, RecordType

LEMMA NamesDiffer ==
    ASSUME IndInv, Durability, Serviceable, NEW i \in Live, NEW j \in Live, Entry(i).name = Entry(j).name
    PROVE  i = j
BY ActiveLog DEF Sound, OneName, Live, Entry

LEMMA StillChosen ==
    ASSUME NEW s \in Sides, s = Chosen, Sealed(s), sector'[s] = sector[s],
           \/ sector'[1 - s] = sector[1 - s]
           \/ sector'[1 - s].state = "unsealed"
    PROVE  s = Chosen' /\ Sealed(s)'
<1>1. s = 0 \/ s = 1
  BY DEF Sides
<1>2. Sealed(s)'
  BY DEF Sealed
<1>3. CASE s = 0
  <2>1. ~(Sealed(1) /\ (~Sealed(0) \/ Newer(1, 0)))
    BY <1>3 DEF Chosen
  <2>2. ~(Sealed(1) /\ (~Sealed(0) \/ Newer(1, 0)))'
    BY <1>3, <2>1 DEF Sealed, Newer
  <2>. QED  BY <1>2, <1>3, <2>2 DEF Chosen
<1>4. CASE s = 1
  <2>1. Sealed(1) /\ (~Sealed(0) \/ Newer(1, 0))
    BY <1>4 DEF Chosen
  <2>2. (Sealed(1) /\ (~Sealed(0) \/ Newer(1, 0)))'
    BY <1>4, <2>1 DEF Sealed, Newer
  <2>. QED  BY <1>2, <1>4, <2>2 DEF Chosen
<1>. QED  BY <1>1, <1>3, <1>4

(* A step that leaves the log as it is, whatever it does behind it or on   *)
(* the other side.                                                         *)
LogStays ==
    /\ UNCHANGED <<active, heads, tail, generation, count>>
    /\ Same(cell[active], cell'[active], 0, tail) /\ ~Reads(cell'[active], tail)
    /\ SeemsErased(cell'[active], tail) => Erased(cell'[active], tail)
    /\ sector'[active] = sector[active]
    /\ sector'[1 - active] = sector[1 - active] \/ sector'[1 - active].state = "unsealed"

LEMMA SameLog ==
    ASSUME IndInv, Durability, Serviceable, cell'[active] = cell[active]
    PROVE  /\ Same(cell[active], cell'[active], 0, tail) /\ ~Reads(cell'[active], tail)
           /\ SeemsErased(cell'[active], tail) => Erased(cell'[active], tail)
BY ActiveLog DEF Sound, Logged, Same

LEMMA StaysDurable ==
    ASSUME IndInv, IndInv', Durability, Serviceable, Serviceable', LogStays
    PROVE  /\ ResetFindsAll' /\ IndexIsReal'
           /\ Live' = Live /\ Lens' = Lens
           /\ \A i \in Live :
                /\ Entry(i)' = Entry(i)
                /\ Extract(cell'[active], Entry(i).off, Entry(i).len)
                     = Extract(cell[active], Entry(i).off, Entry(i).len)
<1>1. /\ Sound(cell[active], sector[active].base, tail, heads)
      /\ active = Chosen /\ Sealed(active) /\ active \in Sides /\ tail \in Nat
      /\ cell[active] \in Log /\ cell'[active] \in Log /\ heads \in [Slots -> Nat]
  <2>1. cell'[active] \in Log
    BY DEF IndInv, TypeOK, LogStays, Log
  <2>. QED  BY <2>1, ActiveLog
<1>2. Sound(cell'[active], sector[active].base, tail, heads)
  BY <1>1, SoundSame DEF LogStays
<1>3. End(cell'[active]) = tail /\ Index(cell'[active]) = heads
  BY <1>1, <1>2, SoundIs
<1>4. active = Chosen' /\ Sealed(active)'
  BY <1>1, StillChosen DEF LogStays
<1>5. ResetFindsAll'
  <2>1. Sealed(Chosen)'
    BY <1>4 DEF LogStays, Sealed
  <2>2. Sound(cell'[active], sector'[active].base, End(cell'[active]), Index(cell'[active]))
    BY <1>2, <1>3 DEF LogStays
  <2>3. pc' # "condemned"
    BY DEF Serviceable
  <2>. QED  BY <1>4, <2>1, <2>2, <2>3 DEF ResetFindsAll
<1>6. \A i \in Live : cell'[active][heads[i]] = cell[active][heads[i]]
  BY <1>1, LiveFiles DEF LogStays, Same, Offsets
<1>7. Live' = Live /\ Lens' = Lens /\ \A i \in Live : Entry(i)' = Entry(i)
  BY <1>6, SameFiles DEF LogStays
<1>8. IndexIsReal'
  <2>1. generation' = sector'[active'].gen /\ count' = Cardinality(Live')
    BY <1>7 DEF Durability, IndexIsReal, LogStays, Serviceable
  <2>2. tail' = End(cell'[active']) /\ heads' = Index(cell'[active']) /\ active' = Chosen'
    BY <1>3, <1>4 DEF LogStays
  <2>3. pc' # "scan"
    BY DEF Serviceable
  <2>. QED  BY <2>1, <2>2, <2>3 DEF IndexIsReal
<1>9. ASSUME NEW i \in Live
      PROVE  Extract(cell'[active], Entry(i).off, Entry(i).len) = Extract(cell[active], Entry(i).off, Entry(i).len)
  <2>1. /\ Entry(i).off \in Nat /\ Entry(i).len \in Nat /\ Entry(i).off + Entry(i).len <= tail
    BY LiveFiles
  <2>2. Same(cell[active], cell'[active], Entry(i).off, Entry(i).off + Entry(i).len)
    BY <1>1, <2>1 DEF LogStays, Same, Offsets
  <2>. QED  BY <2>1, <2>2, ExtractSame
<1>. QED  BY <1>5, <1>7, <1>8, <1>9

(* What that means for the requests, drafts, readers and copies. *)
FilesStay ==
    /\ Live' = Live
    /\ \A i \in Live : Entry(i)' = Entry(i)

LEMMA DraftStays ==
    ASSUME Durability, FilesStay,
           writer' # Idle => writer # Idle /\ UNCHANGED <<wslot, newname>>
    PROVE  DraftReplaces'
<1>. SUFFICES ASSUME writer' # Idle PROVE Replaces(wslot, newname)'
  BY DEF DraftReplaces
<1>1. Replaces(wslot, newname) /\ UNCHANGED <<wslot, newname>>
  BY DEF Durability, DraftReplaces
<1>. QED  BY <1>1 DEF FilesStay, Replaces

(* All that a request knows of the files. *)
NamesStay ==
    /\ Live' = Live
    /\ \A i \in Live : Entry(i)'.name = Entry(i).name /\ Entry(i)'.ro = Entry(i).ro

LEMMA JobFilesStay ==
    ASSUME IndInv, Durability, NamesStay,
           \/ job'.op \in {"none", "compact", "close"}
           \/ job'.op \in {"open", "concat"} /\ writer' # Idle
           \/ job' = job /\ pc # "scratch" /\ (writer' = Idle => writer = Idle)
    PROVE  JobIsAllowed'
<1>1. CASE job'.op \in {"none", "compact", "close"} \/ (job'.op \in {"open", "concat"} /\ writer' # Idle)
  BY <1>1 DEF JobIsAllowed
<1>2. CASE job' = job /\ pc # "scratch" /\ (writer' = Idle => writer = Idle)
  <2>1. job.op \in {"open", "concat"} /\ writer' = Idle => Replaces(job.slot, job.name)'
    BY <1>2 DEF Durability, JobIsAllowed, NamesStay, Replaces
  <2>2. job'.op = "write" => job'.bytes \in Chunks
    BY <1>2 DEF Durability, JobIsAllowed
  <2>3. \A names : Matching(names)' = Matching(names) /\ Matching(names) \subseteq Live
    BY DEF Matching, NamesStay
  <2>4. job'.op = "scratch" => /\ \A i \in Matching(job.names)' : ~Entry(i)'.ro
                               /\ job.slot \in Matching(job.names)'
    BY <1>2, <2>3 DEF Durability, JobIsAllowed, NamesStay
  <2>5. job'.op = "metadata" =>
          /\ job.slot \in Live' /\ job.drop # job.slot
          /\ \A i \in Live' \ {job.slot} : Entry(i)'.name = job.name <=> i = job.drop
          /\ job.drop # NoSlot => job.drop \in Live' /\ ~Entry(job.drop)'.ro
          /\ IF Entry(job.slot)'.name = job.name THEN job.drop = NoSlot
             ELSE ~Entry(job.slot)'.ro /\ ~job.ro
    BY <1>2 DEF Durability, JobIsAllowed, NamesStay
  <2>. QED  BY <1>2, <2>1, <2>2, <2>4, <2>5 DEF JobIsAllowed
<1>. QED  BY <1>1, <1>2

LEMMA JobStays ==
    ASSUME IndInv, Durability, FilesStay,
           \/ job'.op \in {"none", "compact", "close"}
           \/ job'.op \in {"open", "concat"} /\ writer' # Idle
           \/ job' = job /\ pc # "scratch" /\ (writer' = Idle => writer = Idle)
    PROVE  JobIsAllowed'
BY JobFilesStay DEF FilesStay, NamesStay

LEMMA ReadersStay ==
    ASSUME IndInv, Durability, active' = active, tail' = tail, pc' \notin {"off", "scan"},
           \A f \in Channels : channels'[f].kind = 1 => channels'[f] = channels[f]
    PROVE  ReadersBehind'
BY DEF Durability, ReadersBehind

LEMMA NoCopy ==
    ASSUME ~Building'
    PROVE  CopyIsReal'
BY DEF CopyIsReal, Building

LEMMA NoCommit ==
    ASSUME pc' # "commit"
    PROVE  CommitIsRequested'
BY DEF CommitIsRequested

(* The files that a compaction has copied stay copied. *)
LEMMA CopiesStay ==
    ASSUME IndInv, IndInv', Durability, Serviceable, Building, LogStays, FilesStay,
           target' = target, Same(cell[target], cell'[target], 0, NextEnd)
    PROVE  \A i \in Slots : nextheads[i] # 0 =>
             /\ cell'[target][nextheads[i]] = cell[target][nextheads[i]]
             /\ \A o : o = nextheads[i] => (SameFile(i, o) => SameFile(i, o)')
             /\ \A o : o = nextheads[i] => (IsDraft(o) /\ newname' = newname /\ data' = data => IsDraft(o)')
<1>1. /\ Logged(cell[target], NextEnd, nextheads) /\ nextheads \in [Slots -> Nat]
      /\ cell[target] \in Log /\ cell'[target] \in Log
  BY DEF Durability, CopyIsReal, IndInv, TypeOK, Log
<1>3. NextEnd \in Nat
  BY <1>1, LoggedIs
<1>4. ASSUME NEW i \in Slots, NEW o, o = nextheads[i], o # 0
      PROVE  /\ cell'[target][o] = cell[target][o]
             /\ SameFile(i, o) => SameFile(i, o)'
             /\ IsDraft(o) /\ newname' = newname /\ data' = data => IsDraft(o)'
  <2>. DEFINE r == cell[target][o]
  <2>1. /\ o \in Offsets /\ o < NextEnd /\ r \in Record
        /\ r.off + r.len <= NextEnd
    BY <1>1, <1>4, LoggedPlaces
  <2>2. cell'[target][o] = r
    BY <2>1 DEF Same, Offsets
  <2>3. r.off \in Nat /\ r.len \in Nat
    BY <2>1, RecordType
  <2>4. Same(cell[target], cell'[target], r.off, r.off + r.len)
    BY <1>3, <2>1, <2>3 DEF Same, Offsets
  <2>5. Extract(cell'[target], r.off, r.len) = Extract(cell[target], r.off, r.len)
    BY <2>3, <2>4, ExtractSame
  <2>6. ASSUME SameFile(i, o) PROVE SameFile(i, o)'
    <3>1. /\ i \in Live /\ r.name = Entry(i).name /\ r.ro = Entry(i).ro
          /\ Extract(cell[target], r.off, r.len) = Extract(cell[active], Entry(i).off, Entry(i).len)
      BY <2>6 DEF SameFile
    <3>2. i \in Live' /\ Entry(i)' = Entry(i)
      BY <3>1 DEF FilesStay
    <3>3. Extract(cell'[active], Entry(i).off, Entry(i).len) = Extract(cell[active], Entry(i).off, Entry(i).len)
      <4>1. /\ Entry(i).off \in Nat /\ Entry(i).len \in Nat /\ Entry(i).off + Entry(i).len <= tail /\ tail \in Nat
        BY <3>1, LiveFiles, ActiveLog
      <4>2. Same(cell[active], cell'[active], Entry(i).off, Entry(i).off + Entry(i).len)
        BY <4>1 DEF LogStays, Same, Offsets
      <4>. QED  BY <4>1, <4>2, ExtractSame
    <3>. HIDE DEF r
    <3>4. target' = target /\ active' = active
      BY DEF LogStays
    <3>. QED  BY <2>2, <2>5, <3>1, <3>2, <3>3, <3>4 DEF SameFile
  <2>7. ASSUME IsDraft(o), newname' = newname, data' = data PROVE IsDraft(o)'
    <3>. HIDE DEF r
    <3>1. r.name = newname /\ ~r.ro /\ Extract(cell[target], r.off, r.len) = data
      BY <2>7 DEF IsDraft, r
    <3>. QED  BY <2>2, <2>5, <2>7, <3>1 DEF IsDraft
  <2>. QED  BY <2>2, <2>6, <2>7
<1>. QED  BY <1>4

LEMMA RotationStays ==
    ASSUME IndInv, IndInv', Durability, Serviceable, LogStays, FilesStay, rotating, rotating',
           UNCHANGED <<target, nextheads, writebase, writer, wslot>>,
           pc \notin {"seal", "activate"}, pc' \notin {"seal", "activate", "copy"},
           Same(cell[target], cell'[target], 0, writebase), ~Reads(cell'[target], writebase)
    PROVE  CopyIsReal'
<1>1. Building /\ NextEnd = writebase /\ Building' /\ NextEnd' = writebase /\ writer # Idle
  BY DEF Building, NextEnd, IndInv, RotationIsAWrite
<1>2. \A i \in Slots : nextheads[i] # 0 => \A o : o = nextheads[i] => (SameFile(i, o) => SameFile(i, o)')
  BY <1>1, CopiesStay
<1>3. \A i \in Slots : nextheads[i] # 0 => i # wslot /\ SameFile(i, nextheads[i])
  BY <1>1 DEF Durability, CopyIsReal
<1>4. \A i \in Live : i # wslot => nextheads[i] # 0
  BY <1>1 DEF Durability, CopyIsReal
<1>5. \A i \in Slots : nextheads[i] # 0 => i # wslot /\ SameFile(i, nextheads[i])'
  <2>1. ASSUME NEW i \in Slots, NEW o, o = nextheads[i], o # 0 PROVE i # wslot /\ SameFile(i, o)'
    BY <1>2, <1>3, <2>1
  <2>. QED  BY <2>1 DEF SameFile
<1>6. /\ Logged(cell[target], writebase, nextheads) /\ cell[target] \in Log /\ cell'[target] \in Log
  BY <1>1 DEF Durability, CopyIsReal, IndInv, TypeOK, Log
<1>7. Logged(cell'[target], writebase, nextheads)
  BY <1>6, LoggedSame
<1>. QED  BY <1>1, <1>4, <1>5, <1>7 DEF CopyIsReal, FilesStay

-----------------------------------------------------------------------------
(* Steps that write no flash, and requests that fail *)

LEMMA SameFlashStays ==
    ASSUME IndInv, Durability, Serviceable, UNCHANGED flashVars, UNCHANGED <<active, heads, tail, generation, count>>
    PROVE  LogStays
BY SameLog DEF LogStays, flashVars

LEMMA QuietLasts ==
    ASSUME IndInv, IndInv', Durability, UNCHANGED flashVars,
           UNCHANGED <<active, heads, tail, generation, count, dirty, writer, rotating, wslot, newname,
                       target, writebase, cursor, data, nextheads>>,
           writer # Idle => failed' = failed,
           pc \in {"idle", "scratch", "reserve"},
           pc' \in {"idle", "compact", "tag", "reserve", "payload", "fields"},
           pc' = "fields" => writer # Idle /\ ~failed,
           JobIsAllowed', ReadersBehind'
    PROVE  Durability'
<1>1. Serviceable /\ Serviceable'
  BY DEF Serviceable
<1>2. LogStays
  BY <1>1, SameFlashStays
<1>3. ResetFindsAll' /\ IndexIsReal' /\ FilesStay
  BY <1>1, <1>2, StaysDurable DEF FilesStay
<1>4. cell' = cell
  BY DEF flashVars
<1>5. ErasedAhead'
  <2>1. Serviceable' /\ ~dirty' /\ writer' = Idle => Erased(cell[active], tail)
    BY <1>1 DEF Durability, ErasedAhead
  <2>2. writer # Idle /\ ~failed' => Erased(cell[target], cursor)
    BY DEF Durability, ErasedAhead
  <2>3. pc' \in {"copy", "move", "seal", "activate", "fields", "commit"} => Erased(cell[target], cursor)
    BY DEF Durability, ErasedAhead
  <2>. QED  BY <1>4, <2>1, <2>2, <2>3 DEF ErasedAhead
<1>6. DraftIsTagged'
  <2>1. rotating' => cell[target][writebase] = Tag
    BY DEF Durability, DraftIsTagged
  <2>2. writer' # Idle /\ ~rotating' => cell[active][tail] = Tag
    BY DEF Durability, DraftIsTagged
  <2>3. pc' = "fields" => cell[target][writebase].k # "rec"
    <3>1. SUFFICES ASSUME pc' = "fields" PROVE cell[target][writebase] = Tag
      BY DEF Tag
    <3>2. CASE rotating
      BY <2>1, <3>2
    <3>3. CASE ~rotating
      BY <2>2, <3>1, <3>3 DEF IndInv, DraftIsNext
    <3>. QED  BY <3>2, <3>3
  <2>. QED  BY <1>4, <2>1, <2>2, <2>3 DEF DraftIsTagged
<1>7. CopyIsReal'
  <2>1. CASE rotating
    <3>1. ~Reads(cell'[target], writebase) /\ Same(cell[target], cell'[target], 0, writebase)
      BY <1>4, <2>1 DEF Durability, DraftIsTagged, Reads, Tag, Same
    <3>. QED  BY <1>1, <1>2, <1>3, <2>1, <3>1, RotationStays
  <2>2. CASE ~rotating
    BY <2>2, NoCopy DEF Building
  <2>. QED  BY <2>1, <2>2
<1>8. DraftReplaces' /\ CommitIsRequested'
  BY <1>3, DraftStays, NoCommit
<1>. QED  BY <1>3, <1>5, <1>6, <1>7, <1>8 DEF Durability

(* A request that ends its draft. *)
LEMMA SettledLasts ==
    ASSUME IndInv, IndInv', Durability, Serviceable, LogStays, pc' = "idle", job' = NoJob, Forget,
           dirty => dirty', ~dirty' => Erased(cell'[active], tail),
           \A f \in Channels : channels'[f].kind = 1 => channels'[f] = channels[f]
    PROVE  Durability'
<1>1. Serviceable' /\ ~Building' /\ writer' = Idle /\ ~rotating'
  BY DEF Serviceable, Building, Forget
<1>2. ResetFindsAll' /\ IndexIsReal' /\ FilesStay
  BY <1>1, StaysDurable DEF FilesStay
<1>3. ErasedAhead'
  BY <1>1 DEF ErasedAhead, LogStays
<1>4. DraftIsTagged'
  BY <1>1 DEF DraftIsTagged
<1>5. CopyIsReal' /\ CommitIsRequested'
  BY <1>1, NoCopy, NoCommit
<1>6. DraftReplaces'
  BY <1>1 DEF DraftReplaces
<1>7. JobIsAllowed'
  BY <1>2, JobStays DEF NoJob
<1>8. ReadersBehind'
  BY ReadersStay DEF LogStays
<1>. QED  BY <1>2, <1>3, <1>4, <1>5, <1>6, <1>7, <1>8 DEF Durability

LEMMA GiveUpLasts ==
    ASSUME IndInv, IndInv', Durability, NEW e, GiveUp(e), LogStays,
           pc \in {"tag", "reserve", "payload", "fields", "commit", "compact", "erase", "copy",
                   "move", "seal", "activate"},
           ~SpoilsTail => cell'[active] = cell[active],
           job.op = "write" =>
             /\ cell'[active][tail] = cell[active][tail]
             /\ rotating => /\ Same(cell[target], cell'[target], 0, writebase)
                            /\ cell'[target][writebase] = cell[target][writebase]
    PROVE  Durability'
<1>0. Serviceable
  BY DEF Serviceable
<1>1. CASE job.op # "write"
  <2>1. /\ pc' = "idle" /\ job' = NoJob /\ Forget /\ dirty' = (dirty \/ SpoilsTail) /\ Release
    BY <1>1 DEF GiveUp, Reply
  <2>2. ASSUME ~dirty' PROVE Erased(cell'[active], tail)
    <3>1. ~dirty /\ ~SpoilsTail
      BY <2>1, <2>2
    <3>2. writer = Idle /\ pc \notin {"fields", "commit"} /\ cell'[active] = cell[active]
      BY <3>1 DEF SpoilsTail
    <3>. QED  BY <1>0, <3>1, <3>2 DEF Durability, ErasedAhead
  <2>3. \A f \in Channels : channels'[f].kind = 1 => channels'[f] = channels[f]
    BY <2>1 DEF Release, Closed
  <2>. QED  BY <1>0, <2>1, <2>2, <2>3, SettledLasts
<1>2. CASE job.op = "write"
  <2>1. /\ pc' = "idle" /\ job' = NoJob /\ failed' = TRUE
        /\ UNCHANGED <<dirty, writer, rotating, wslot, newname, target, writebase, cursor, data, nextheads,
                       channels>>
        /\ UNCHANGED <<active, heads, tail>>
    BY <1>2 DEF GiveUp, Reply, cursorVars
  <2>2. writer # Idle /\ pc \notin {"seal", "activate", "fields", "commit", "tag"}
    BY <1>2 DEF IndInv, RequestFitsBlock, Compacting
  <2>3. Serviceable'
    BY <2>1 DEF Serviceable
  <2>4. ResetFindsAll' /\ IndexIsReal' /\ FilesStay
    BY <1>0, <2>3, StaysDurable DEF FilesStay
  <2>5. ErasedAhead'
    BY <2>1, <2>2 DEF ErasedAhead
  <2>6. DraftIsTagged'
    BY <1>2, <2>1, <2>2 DEF Durability, DraftIsTagged
  <2>7. CopyIsReal'
    <3>1. CASE rotating
      <4>1. ~Reads(cell'[target], writebase)
        BY <1>2, <2>2, <3>1 DEF Durability, DraftIsTagged, Reads, Tag
      <4>. QED  BY <1>0, <1>2, <2>1, <2>2, <2>4, <3>1, <4>1, RotationStays
    <3>2. CASE ~rotating
      BY <2>1, <3>2, NoCopy DEF Building
    <3>. QED  BY <3>1, <3>2
  <2>8. DraftReplaces' /\ CommitIsRequested'
    BY <2>1, <2>2, <2>4, DraftStays, NoCommit
  <2>9. JobIsAllowed'
    BY <2>1, <2>4, JobStays DEF NoJob
  <2>10. ReadersBehind'
    BY <2>1, ReadersStay
  <2>. QED  BY <2>4, <2>5, <2>6, <2>7, <2>8, <2>9, <2>10 DEF Durability
<1>. QED  BY <1>1, <1>2

LEMMA RefuseLasts ==
    ASSUME IndInv, IndInv', Durability, NEW e, Refuse(e), pc \in {"idle", "scratch"}
    PROVE  Durability'
<1>. USE DEF Refuse, Reply, indexVars, draftVars, cursorVars
<1>1. Serviceable /\ FilesStay
  BY DEF Serviceable, FilesStay, Live, Entry, flashVars
<1>2. JobIsAllowed' /\ ReadersBehind'
  BY <1>1, JobStays, ReadersStay DEF NoJob
<1>. QED  BY <1>2, QuietLasts

LEMMA PrepareLasts ==
    ASSUME IndInv, IndInv', Durability, NEW j, Prepare(j), pc \in {"idle", "scratch"},
           writer = Idle => JobIsAllowed'
    PROVE  Durability'
<1>1. CASE writer # Idle
  BY <1>1, RefuseLasts DEF Prepare
<1>2. CASE writer = Idle
  <2>1. /\ pc' \in {"compact", "tag"} /\ rotating' = FALSE
        /\ UNCHANGED <<flashVars, indexVars, writer, wslot, newname, oldlen, cursorVars, channels>>
    BY <1>2 DEF Prepare
  <2>2. rotating' = rotating
    BY <1>2, <2>1 DEF IndInv, TypeOK, RotationIsAWrite
  <2>3. ReadersBehind'
    BY <2>1, ReadersStay DEF indexVars
  <2>. QED  BY <1>2, <2>1, <2>2, <2>3, QuietLasts DEF indexVars, cursorVars
<1>. QED  BY <1>1, <1>2

(* The slot that startwrite() finds. *)
LEMMA SlotReplaces ==
    ASSUME IndInv, Durability, Serviceable, NEW n, ~ReadOnly(n), NEW i \in Slots,
           First(i, IF Named(n) = {} THEN Slots \ Live ELSE Named(n))
    PROVE  Replaces(i, n)
<1>1. CASE Named(n) = {}
  BY <1>1 DEF First, Named, Replaces
<1>2. CASE Named(n) # {}
  <2>1. i \in Live /\ Entry(i).name = n
    BY <1>2 DEF First, Named
  <2>2. ~Entry(i).ro
    BY <2>1 DEF ReadOnly, Named
  <2>3. \A j \in Live : Entry(j).name = n => j = i
    BY <2>1, NamesDiffer
  <2>. QED  BY <2>1, <2>2, <2>3 DEF Replaces
<1>. QED  BY <1>1, <1>2

LEMMA StartWriteLasts ==
    ASSUME IndInv, IndInv', Durability, pc = "idle", NEW n, NEW j, ~ReadOnly(n), StartWrite(n, j),
           \A i \in Slots : LET k == [j EXCEPT !.slot = i] IN
             k.op \in {"open", "concat"} /\ k.slot = i /\ k.name = n
    PROVE  Durability'
<1>0. Serviceable
  BY DEF Serviceable
<1>1. CASE Refuse(72)
  BY <1>1, RefuseLasts
<1>2. ASSUME NEW i \in Slots, First(i, IF Named(n) = {} THEN Slots \ Live ELSE Named(n)),
             Prepare([j EXCEPT !.slot = i])
      PROVE  Durability'
  <2>. DEFINE k == [j EXCEPT !.slot = i]
  <2>1. Replaces(i, n)
    BY <1>0, <1>2, SlotReplaces
  <2>2. k.op \in {"open", "concat"} /\ k.slot = i /\ k.name = n
    OBVIOUS
  <2>. HIDE DEF k
  <2>3. ASSUME writer = Idle PROVE JobIsAllowed'
    <3>1. job' = k /\ FilesStay
      BY <1>2, <2>3 DEF k, Prepare, FilesStay, Live, Entry, flashVars, indexVars
    <3>2. Replaces(job.slot, job.name)'
      BY <2>1, <2>2, <3>1 DEF FilesStay, Replaces
    <3>. QED  BY <2>2, <3>1, <3>2 DEF JobIsAllowed
  <2>4. Prepare(k)
    BY <1>2 DEF k
  <2>. QED  BY <2>3, <2>4, PrepareLasts
<1>. QED  BY <1>1, <1>2 DEF StartWrite

LEMMA OpenWriteLasts ==
    ASSUME IndInv, IndInv', Durability, NEW f \in Channels, NEW n \in Names, NEW append \in BOOLEAN,
           OpenWrite(f, n, append)
    PROVE  Durability'
<1>. DEFINE j == [op |-> "open", slot |-> 0, name |-> n, f |-> f, append |-> append]
<1>1. pc = "idle"
  BY DEF OpenWrite, Serving
<1>2. CASE Refuse(60) \/ Refuse(26)
  BY <1>1, <1>2, RefuseLasts
<1>3. CASE ~ReadOnly(n) /\ StartWrite(n, j)
  <2>1. \A i \in Slots : LET k == [j EXCEPT !.slot = i] IN
             k.op \in {"open", "concat"} /\ k.slot = i /\ k.name = n
    OBVIOUS
  <2>. HIDE DEF j
  <2>. QED  BY <1>1, <1>3, <2>1, StartWriteLasts
<1>. QED  BY <1>2, <1>3 DEF OpenWrite

LEMMA ConcatLasts ==
    ASSUME IndInv, IndInv', Durability, NEW n \in Names, NEW sources, Concat(n, sources)
    PROVE  Durability'
<1>. DEFINE j == [op |-> "concat", slot |-> 0, name |-> n, srcs |-> sources]
<1>1. pc = "idle"
  BY DEF Concat, Serving
<1>2. CASE Refuse(26)
  BY <1>1, <1>2, RefuseLasts
<1>3. CASE ~ReadOnly(n) /\ StartWrite(n, j)
  <2>1. \A i \in Slots : LET k == [j EXCEPT !.slot = i] IN
             k.op \in {"open", "concat"} /\ k.slot = i /\ k.name = n
    OBVIOUS
  <2>. HIDE DEF j
  <2>. QED  BY <1>1, <1>3, <2>1, StartWriteLasts
<1>. QED  BY <1>2, <1>3 DEF Concat

(* The other requests of prepare() *)
LEMMA PreparedFiles ==
    ASSUME NEW j, writer = Idle, Prepare(j)
    PROVE  job' = j /\ FilesStay /\ pc' # "scratch" /\ \A names : Matching(names)' = Matching(names)
BY DEF Prepare, FilesStay, Live, Entry, Matching, flashVars, indexVars

LEMMA ScratchesLast ==
    ASSUME IndInv, IndInv', Durability, NEW names, Scratch(names) \/ ScratchNext
    PROVE  Durability'
<1>1. ASSUME pc \in {"idle", "scratch"}, NEW i \in Slots, NEW j, j.op = "scratch", j.slot = i,
             i \in Matching(j.names), \A k \in Matching(j.names) : ~Entry(k).ro,
             Prepare(j)
      PROVE  Durability'
  <2>1. ASSUME writer = Idle PROVE JobIsAllowed'
    <3>1. job' = j /\ FilesStay /\ pc' # "scratch" /\ Matching(j.names)' = Matching(j.names)
      BY <1>1, <2>1, PreparedFiles
    <3>2. Matching(j.names) \subseteq Live
      BY DEF Matching
    <3>3. Matching(job.names)' = Matching(j.names)
      BY <3>1 DEF Matching
    <3>. QED  BY <1>1, <3>1, <3>2, <3>3 DEF JobIsAllowed, FilesStay
  <2>. QED  BY <1>1, <2>1, PrepareLasts
<1>2. CASE Scratch(names)
  <2>1. pc = "idle"
    BY <1>2 DEF Scratch, Serving
  <2>2. CASE Refuse(26) \/ Refuse(62)
    BY <2>1, <2>2, RefuseLasts
  <2>3. ASSUME ~\E i \in Matching(names) : Entry(i).ro,
               NEW i \in Slots, First(i, Matching(names)),
               Prepare([op |-> "scratch", slot |-> i, names |-> names])
        PROVE  Durability'
    <3>. DEFINE j == [op |-> "scratch", slot |-> i, names |-> names]
    <3>1. j.op = "scratch" /\ j.slot = i /\ j.names = names
      OBVIOUS
    <3>. HIDE DEF j
    <3>2. Prepare(j)
      BY <2>3 DEF j
    <3>3. i \in Matching(names) /\ \A k \in Matching(names) : ~Entry(k).ro
      BY <2>3 DEF First
    <3>. QED  BY <1>1, <2>1, <2>3, <3>1, <3>2, <3>3
  <2>. QED  BY <1>2, <2>2, <2>3 DEF Scratch
<1>3. CASE ScratchNext
  <2>1. pc = "scratch" /\ job.op = "scratch" /\ job \in Jobs
    BY <1>3 DEF ScratchNext, IndInv, TypeOK, RequestFitsBlock
  <2>2. CASE Refuse(0)
    BY <2>1, <2>2, RefuseLasts
  <2>3. ASSUME NEW i \in Slots, First(i, Matching(job.names)), Prepare([job EXCEPT !.slot = i])
        PROVE  Durability'
    <3>. DEFINE j == [job EXCEPT !.slot = i]
    <3>1. j.op = "scratch" /\ j.slot = i /\ j.names = job.names
      BY <2>1 DEF Jobs
    <3>. HIDE DEF j
    <3>2. Prepare(j)
      BY <2>3 DEF j
    <3>3. i \in Matching(job.names)
      BY <2>3 DEF First
    <3>4. \A k \in Matching(job.names) : ~Entry(k).ro
      BY <2>1 DEF Durability, JobIsAllowed
    <3>. QED  BY <1>1, <2>1, <2>3, <3>1, <3>2, <3>3, <3>4
  <2>. QED  BY <1>3, <2>2, <2>3 DEF ScratchNext
<1>. QED  BY <1>2, <1>3

LEMMA MetadataLasts ==
    ASSUME IndInv, IndInv', Durability, pc = "idle", NEW i \in Live, NEW d, NEW n, NEW flag,
           Prepare([op |-> "metadata", slot |-> i, drop |-> d, name |-> n, ro |-> flag]),
           d # i, \A k \in Live \ {i} : Entry(k).name = n <=> k = d,
           d # NoSlot => d \in Live /\ ~Entry(d).ro,
           IF Entry(i).name = n THEN d = NoSlot ELSE ~Entry(i).ro /\ ~flag
    PROVE  Durability'
<1>. DEFINE j == [op |-> "metadata", slot |-> i, drop |-> d, name |-> n, ro |-> flag]
<1>1. j.op = "metadata" /\ j.slot = i /\ j.drop = d /\ j.name = n /\ j.ro = flag
  OBVIOUS
<1>2. Prepare(j)
  OBVIOUS
<1>. HIDE DEF j
<1>3. ASSUME writer = Idle PROVE JobIsAllowed'
  <2>1. job' = j /\ FilesStay
    BY <1>2, <1>3, PreparedFiles
  <2>. QED  BY <1>1, <2>1 DEF JobIsAllowed, FilesStay
<1>. QED  BY <1>2, <1>3, PrepareLasts

LEMMA RenameLasts ==
    ASSUME IndInv, IndInv', Durability, NEW new \in Names, NEW old \in Names, Rename(new, old)
    PROVE  Durability'
<1>1. pc = "idle" /\ Serviceable
  BY DEF Rename, Serving, Serviceable
<1>2. CASE Refuse(26) \/ Refuse(62) \/ Refuse(0)
  BY <1>1, <1>2, RefuseLasts
<1>3. ASSUME ~ReadOnly(new), ~ReadOnly(old), new # old,
             NEW i \in Named(old), NEW d \in Slots \cup {NoSlot},
             First(i, Named(old)),
             IF Named(new) = {} THEN d = NoSlot ELSE First(d, Named(new)),
             Prepare([op |-> "metadata", slot |-> i, drop |-> d, name |-> new, ro |-> Entry(i).ro])
      PROVE  Durability'
  <2>1. i \in Live /\ Entry(i).name = old /\ ~Entry(i).ro
    BY <1>3 DEF Named, ReadOnly
  <2>2. NoSlot \notin Live
    BY JournalAssumption DEF NoSlot, Live, Slots
  <2>3. CASE Named(new) = {}
    <3>1. d = NoSlot /\ \A k \in Live : Entry(k).name # new
      BY <1>3, <2>3 DEF Named
    <3>. QED  BY <1>1, <1>3, <2>1, <2>2, <3>1, MetadataLasts
  <2>4. CASE Named(new) # {}
    <3>1. d \in Live /\ Entry(d).name = new /\ ~Entry(d).ro
      BY <1>3, <2>4 DEF First, Named, ReadOnly
    <3>2. d # i /\ \A k \in Live : Entry(k).name = new <=> k = d
      BY <1>1, <1>3, <2>1, <3>1, NamesDiffer
    <3>. QED  BY <1>1, <1>3, <2>1, <3>1, <3>2, MetadataLasts
  <2>. QED  BY <2>3, <2>4
<1>. QED  BY <1>2, <1>3 DEF Rename

LEMMA AttributeLasts ==
    ASSUME IndInv, IndInv', Durability, NEW n \in Names, NEW flag \in BOOLEAN, Attribute(n, flag)
    PROVE  Durability'
<1>1. pc = "idle" /\ Serviceable
  BY DEF Attribute, Serving, Serviceable
<1>2. CASE Refuse(0) \/ Refuse(62)
  BY <1>1, <1>2, RefuseLasts
<1>3. ASSUME NEW i \in Slots, First(i, Named(n)),
             Prepare([op |-> "metadata", slot |-> i, drop |-> NoSlot, name |-> n, ro |-> flag])
      PROVE  Durability'
  <2>1. i \in Live /\ Entry(i).name = n
    BY <1>3 DEF First, Named
  <2>2. NoSlot \notin Live
    BY JournalAssumption DEF NoSlot, Live, Slots
  <2>3. \A k \in Live \ {i} : Entry(k).name # n
    BY <1>1, <2>1, NamesDiffer
  <2>. QED  BY <1>1, <1>3, <2>1, <2>2, <2>3, MetadataLasts
<1>. QED  BY <1>2, <1>3 DEF Attribute

LEMMA CompactWriteLast ==
    ASSUME IndInv, IndInv', Durability, Compact \/ \E f \in Channels, bytes \in Chunks : Write(f, bytes)
    PROVE  Durability'
<1>1. pc = "idle" /\ Serviceable
  BY DEF Compact, Write, Serving, Serviceable
<1>2. ASSUME NEW e, Refuse(e) PROVE Durability'
  BY <1>1, <1>2, RefuseLasts
<1>3. CASE Compact /\ ~\E e : Refuse(e)
  <2>1. /\ writer = Idle /\ pc' = "compact" /\ job' = [op |-> "compact"] /\ rotating' = FALSE
        /\ UNCHANGED <<flashVars, indexVars, writer, wslot, newname, oldlen, cursorVars, channels>>
    BY <1>3 DEF Compact
  <2>2. rotating' = rotating
    BY <2>1 DEF IndInv, TypeOK, RotationIsAWrite
  <2>3. ReadersBehind'
    BY <2>1, ReadersStay DEF indexVars
  <2>4. JobIsAllowed'
    BY <2>1 DEF JobIsAllowed
  <2>. QED  BY <1>1, <2>1, <2>2, <2>3, <2>4, QuietLasts DEF indexVars, cursorVars
<1>4. ASSUME NEW f \in Channels, NEW bytes \in Chunks, Write(f, bytes), ~\E e : Refuse(e)
      PROVE  Durability'
  <2>1. /\ writer = f /\ pc' = "reserve" /\ job' = [op |-> "write", bytes |-> bytes]
        /\ UNCHANGED <<flashVars, indexVars, draftVars, cursorVars, channels>>
    BY <1>4 DEF Write
  <2>2. ReadersBehind'
    BY <2>1, ReadersStay DEF indexVars
  <2>3. JobIsAllowed'
    BY <1>4, <2>1 DEF JobIsAllowed
  <2>. QED  BY <1>1, <2>1, <2>2, <2>3, QuietLasts DEF indexVars, cursorVars, draftVars
<1>. QED  BY <1>2, <1>3, <1>4

LEMMA ClosesLast ==
    ASSUME IndInv, IndInv', Durability, NEW f \in Channels, Close(f) \/ Abort(f)
    PROVE  Durability'
<1>1. pc = "idle" /\ Serviceable
  BY DEF Close, Abort, Serving, Serviceable
<1>2. ASSUME pc' = "idle", job' = NoJob, Forget, dirty' = TRUE, channels' = [channels EXCEPT ![f] = Closed],
             UNCHANGED <<flashVars, mounted, active, generation, heads, count, livebytes, tail>>
      PROVE  Durability'
  <2>1. LogStays
    BY <1>1, <1>2, SameFlashStays
  <2>2. \A g \in Channels : channels'[g].kind = 1 => channels'[g] = channels[g]
    BY <1>2 DEF Closed, IndInv, TypeOK
  <2>. QED  BY <1>1, <1>2, <2>1, <2>2, SettledLasts
<1>3. CASE Abort(f)
  BY <1>2, <1>3 DEF Abort, Reply
<1>4. CASE Close(f) /\ channels[f].kind = 2 /\ writer = f /\ ~failed
  <2>1. /\ pc' = "fields" /\ job' = [op |-> "close"] /\ writer # Idle
        /\ UNCHANGED <<flashVars, indexVars, draftVars, cursorVars, channels>>
    BY <1>4, JournalAssumption DEF Close
  <2>2. ReadersBehind' /\ JobIsAllowed'
    BY <2>1, ReadersStay DEF indexVars, JobIsAllowed
  <2>. QED  BY <1>1, <1>4, <2>1, <2>2, QuietLasts DEF indexVars, cursorVars, draftVars
<1>5. CASE Close(f) /\ channels[f].kind = 2 /\ writer = f /\ failed
  BY <1>2, <1>5 DEF Close, Reply
<1>6. CASE Close(f) /\ ~(channels[f].kind = 2 /\ writer = f)
  <2>1. /\ pc' = "idle" /\ job' = NoJob /\ channels' = [channels EXCEPT ![f] = Closed]
        /\ UNCHANGED <<dirty, draftVars, cursorVars>>
        /\ UNCHANGED <<flashVars, mounted, active, generation, heads, count, livebytes, tail>>
    BY <1>6 DEF Close, Reply
  <2>2. \A g \in Channels : channels'[g].kind = 1 => channels'[g] = channels[g]
    BY <2>1 DEF Closed, IndInv, TypeOK
  <2>3. ReadersBehind' /\ JobIsAllowed'
    BY <2>1, <2>2, ReadersStay DEF NoJob, JobIsAllowed
  <2>. QED  BY <1>1, <2>1, <2>3, QuietLasts DEF cursorVars, draftVars
<1>. QED  BY <1>3, <1>4, <1>5, <1>6

LEMMA ReadsLast ==
    ASSUME IndInv, IndInv', Durability, NEW f \in Channels,
           Read(f, 1) \/ ListFiles(f) \/ NextEntry(f) \/ \E n \in Names : OpenRead(f, n)
    PROVE  Durability'
<1>1. pc = "idle" /\ Serviceable
  BY DEF OpenRead, Read, ListFiles, NextEntry, Serving, Serviceable
<1>2. ASSUME NEW e, Refuse(e) PROVE Durability'
  BY <1>1, <1>2, RefuseLasts
<1>3. ASSUME pc' = "idle", job' = NoJob, UNCHANGED <<flashVars, indexVars, draftVars, cursorVars>>, ReadersBehind'
      PROVE  Durability'
  <2>1. JobIsAllowed'
    BY <1>3 DEF NoJob, JobIsAllowed
  <2>. QED  BY <1>1, <1>3, <2>1, QuietLasts DEF indexVars, cursorVars, draftVars
<1>4. CASE Read(f, 1) \/ ListFiles(f) \/ NextEntry(f)
  <2>1. /\ pc' = "idle" /\ job' = NoJob /\ UNCHANGED <<flashVars, indexVars, draftVars, cursorVars>>
        /\ \A g \in Channels : channels'[g].kind = 1 =>
             /\ channels'[g].kind = channels[g].kind /\ channels'[g].side = channels[g].side
             /\ channels'[g].off = channels[g].off /\ channels'[g].len = channels[g].len
    <3>1. channels \in [Channels -> ChannelType]
      BY DEF IndInv, TypeOK, ChannelType
    <3>. QED  BY <1>4, <3>1 DEF Read, ListFiles, NextEntry, Reply, Closed, ChannelType
  <2>2. ReadersBehind'
    BY <1>1, <2>1 DEF Durability, ReadersBehind, indexVars
  <2>. QED  BY <1>3, <2>1, <2>2
<1>5. ASSUME NEW n \in Names, OpenRead(f, n), ~\E e : Refuse(e) PROVE Durability'
  <2>1. PICK i \in Slots :
          /\ First(i, Named(n))
          /\ channels' = [channels EXCEPT ![f] =
               [kind |-> 1, side |-> active, off |-> Entry(i).off, len |-> Entry(i).len, pos |-> 0]]
          /\ Reply(0)
          /\ UNCHANGED <<flashVars, indexVars, draftVars, cursorVars, localVars>>
    BY <1>5 DEF OpenRead
  <2>2. i \in Live
    BY <2>1 DEF First, Named
  <2>3. HEADER <= Entry(i).off /\ Entry(i).off + Entry(i).len <= tail
        /\ Entry(i).off \in Nat /\ HEADER \in Nat
    BY <1>1, <2>2, LiveFiles, JournalAssumption
  <2>4. \A g \in Channels : channels'[g] = IF g = f
          THEN [kind |-> 1, side |-> active, off |-> Entry(i).off, len |-> Entry(i).len, pos |-> 0]
          ELSE channels[g]
    BY <2>1 DEF IndInv, TypeOK
  <2>5. ReadersBehind'
    <3>1. pc' \notin {"off", "scan"} /\ active' = active /\ tail' = tail
      BY <2>1 DEF Reply, indexVars
    <3>2. channels'[f].off >= HEADER /\ channels'[f].off + channels'[f].len <= tail
      BY <2>3, <2>4
    <3>3. ASSUME NEW g \in Channels, g # f, channels'[g].kind = 1, channels'[g].side = active
          PROVE  channels'[g].off >= HEADER /\ channels'[g].off + channels'[g].len <= tail
      BY <2>4, <3>3 DEF Durability, ReadersBehind
    <3>. QED  BY <3>1, <3>2, <3>3 DEF ReadersBehind
  <2>. QED  BY <1>3, <2>1, <2>5 DEF Reply
<1>. QED  BY <1>2, <1>4, <1>5

LEMMA RequestLasts ==
    ASSUME IndInv, IndInv', Durability, Request
    PROVE  Durability'
<1>1. ASSUME NEW f \in Channels, NEW n \in Names, NEW append \in BOOLEAN, OpenWrite(f, n, append) PROVE Durability'
  BY <1>1, OpenWriteLasts
<1>2. ASSUME NEW n \in Names, NEW sources, Concat(n, sources) PROVE Durability'
  BY <1>2, ConcatLasts
<1>3. ASSUME NEW names, Scratch(names) PROVE Durability'
  BY <1>3, ScratchesLast
<1>4. ASSUME NEW new \in Names, NEW old \in Names, Rename(new, old) PROVE Durability'
  BY <1>4, RenameLasts
<1>5. ASSUME NEW n \in Names, NEW flag \in BOOLEAN, Attribute(n, flag) PROVE Durability'
  BY <1>5, AttributeLasts
<1>6. CASE Compact \/ \E f \in Channels, bytes \in Chunks : Write(f, bytes)
  BY <1>6, CompactWriteLast
<1>7. CASE \E f \in Channels : Close(f) \/ Abort(f)
  BY <1>7, ClosesLast
<1>8. CASE \E f \in Channels : Read(f, 1) \/ ListFiles(f) \/ NextEntry(f) \/ \E n \in Names : OpenRead(f, n)
  BY <1>8, ReadsLast
<1>. QED  BY <1>1, <1>2, <1>3, <1>4, <1>5, <1>6, <1>7, <1>8, JournalAssumption DEF Request

-----------------------------------------------------------------------------
(* Records under construction *)

(* What is put at the end of the log is not a record until it is committed. *)
LEMMA BehindLog ==
    ASSUME IndInv, Durability, Serviceable, tail <= LIMIT - HEADER,
           \A o \in Offsets : o < tail => cell'[active][o] = cell[active][o],
           cell'[active][tail] # Blank, cell'[active][tail].k # "rec" \/ ~cell'[active][tail].commit
    PROVE  /\ Same(cell[active], cell'[active], 0, tail) /\ ~Reads(cell'[active], tail)
           /\ SeemsErased(cell'[active], tail) => Erased(cell'[active], tail)
<1>1. tail \in Nat /\ HEADER \in Nat /\ LIMIT \in Nat
  BY ActiveLog, JournalAssumption
<1>. QED  BY <1>1 DEF Same, Reads, SeemsErased

LEMMA TagRecordLasts ==
    ASSUME IndInv, SpaceInv, IndInv', Durability, TagRecord
    PROVE  Durability'
<1>1. /\ pc = "tag" /\ writer = Idle /\ ~rotating /\ ~failed /\ ~dirty /\ tail <= LIMIT - HEADER
      /\ job.op \in {"open", "concat", "scratch", "metadata"} /\ job.slot \in Slots
  BY JobType
  DEF TagRecord, SpaceInv, SpaceFits, TailIsClean, IndInv, TypeOK, DraftIsNext, RotationIsAWrite,
      RequestFitsBlock
<1>2. Serviceable /\ tail \in Nat /\ HEADER \in Nat \ {0} /\ LIMIT \in Nat /\ cell \in [Sides -> Log] /\ active \in Sides
  <2>1. Serviceable
    BY <1>1 DEF Serviceable
  <2>. QED  BY <2>1, ActiveLog, JournalAssumption DEF IndInv, TypeOK, Log
<1>3. tail \in Offsets
  BY <1>1, <1>2 DEF Offsets
<1>4. Erased(cell[active], tail)
  BY <1>1, <1>2 DEF Durability, ErasedAhead
<1>5. cell[active][tail] = Blank
  BY <1>2, <1>3, <1>4 DEF Erased
<1>6. /\ target' = active /\ writebase' = tail /\ cursor' = tail + HEADER /\ data' = <<>>
      /\ cell' = WithUnit(cell, active, tail, Tag)
      /\ sector' = sector /\ rotating' = FALSE /\ failed' = FALSE
      /\ UNCHANGED <<active, heads, tail, dirty, generation, count>>
      /\ pc' \in {"idle", "reserve", "fields"}
      /\ job.op \in {"open", "concat"} => writer' # Idle /\ wslot' = job.slot /\ newname' = job.name /\ pc' # "fields"
      /\ job.op \in {"scratch", "metadata"} => writer' = Idle /\ pc' = "fields" /\ job' = job
  <2>1. Over(cell[active][tail], Tag) = Tag
    BY <1>5 DEF Over
  <2>2. job.op = "open" => job.f # Idle
    BY <1>1, JournalAssumption, JobType DEF IndInv, TypeOK
  <2>3. Internal # Idle
    BY JournalAssumption
  <2>. QED  BY <1>1, <2>1, <2>2, <2>3 DEF TagRecord, BeginDraft, Reply, WithUnit, indexVars
<1>7. \A s \in Sides, o \in Offsets : cell'[s][o] = IF s = active /\ o = tail THEN Tag ELSE cell[s][o]
  BY <1>2, <1>6, UnitType, CellType
<1>8. LogStays
  <2>1. \A o \in Offsets : o < tail => cell'[active][o] = cell[active][o]
    BY <1>2, <1>7 DEF Offsets
  <2>2. cell'[active][tail] = Tag
    BY <1>2, <1>3, <1>7
  <2>3. cell'[active][tail] # Blank /\ cell'[active][tail].k # "rec"
    BY <2>2 DEF Tag, Blank
  <2>. QED  BY <1>1, <1>2, <1>6, <2>1, <2>3, BehindLog DEF LogStays
<1>9. Serviceable' /\ ~Building'
  BY <1>6 DEF Serviceable, Building
<1>10. ResetFindsAll' /\ IndexIsReal' /\ FilesStay
  BY <1>2, <1>8, <1>9, StaysDurable DEF FilesStay
<1>11. Erased(cell'[active], tail + HEADER) /\ cell'[active][tail] = Tag
  <2>1. \A o \in Offsets : o >= tail + HEADER => o >= tail /\ o # tail
    BY <1>2 DEF Offsets
  <2>. QED  BY <1>2, <1>3, <1>4, <1>7, <2>1 DEF Erased
<1>12. ErasedAhead'
  BY <1>1, <1>6, <1>11 DEF ErasedAhead
<1>13. DraftIsTagged'
  BY <1>1, <1>6, <1>11 DEF DraftIsTagged, Tag
<1>14. CopyIsReal' /\ CommitIsRequested'
  BY <1>6, <1>9, NoCopy, NoCommit
<1>15. DraftReplaces'
  <2>1. CASE job.op \in {"open", "concat"}
    <3>1. Replaces(job.slot, job.name) /\ wslot' = job.slot /\ newname' = job.name
      BY <1>1, <1>6, <2>1 DEF Durability, JobIsAllowed
    <3>2. Replaces(wslot, newname)'
      BY <1>10, <3>1 DEF FilesStay, Replaces
    <3>. QED  BY <3>2 DEF DraftReplaces
  <2>2. CASE job.op \in {"scratch", "metadata"}
    BY <1>6, <2>2 DEF DraftReplaces
  <2>. QED  BY <1>1, <2>1, <2>2
<1>16. JobIsAllowed'
  <2>1. CASE job.op \in {"open", "concat"}
    <3>1. job'.op \in {"none", "open", "concat"}
      BY <2>1 DEF TagRecord, BeginDraft, Reply, NoJob
    <3>. QED  BY <1>6, <2>1, <3>1 DEF JobIsAllowed
  <2>2. CASE job.op \in {"scratch", "metadata"}
    BY <1>1, <1>6, <1>10, <2>2, JobStays
  <2>. QED  BY <1>1, <2>1, <2>2
<1>17. ReadersBehind'
  <2>. DEFINE w == [Closed EXCEPT !.kind = 2]
  <2>1. channels' = channels \/ channels' = [channels EXCEPT ![job.f] = w]
    BY <1>1 DEF TagRecord, BeginDraft
  <2>2. channels \in [Channels -> ChannelType] /\ w.kind # 1
    BY DEF Closed, IndInv, TypeOK, ChannelType
  <2>. HIDE DEF w
  <2>3. \A f \in Channels : channels'[f] = channels[f] \/ channels'[f] = w
    BY <2>1, <2>2
  <2>4. \A f \in Channels : channels'[f].kind = 1 => channels'[f] = channels[f]
    BY <2>2, <2>3
  <2>. QED  BY <1>6, <2>4, ReadersStay
<1>. QED  BY <1>10, <1>12, <1>13, <1>14, <1>15, <1>16, <1>17 DEF Durability

LEMMA TagFailsLasts ==
    ASSUME IndInv, SpaceInv, IndInv', Durability, TagFails
    PROVE  Durability'
<1>1. pc = "tag" /\ tail <= LIMIT - HEADER /\ GiveUp(25) /\ sector' = sector
  BY DEF TagFails, SpaceInv, SpaceFits, TailIsClean
<1>2. Serviceable /\ tail \in Nat /\ HEADER \in Nat \ {0} /\ LIMIT \in Nat /\ cell \in [Sides -> Log] /\ active \in Sides
  <2>1. Serviceable
    BY <1>1 DEF Serviceable
  <2>. QED  BY <2>1, ActiveLog, JournalAssumption DEF IndInv, TypeOK, Log
<1>3. tail \in Offsets
  BY <1>1, <1>2 DEF Offsets
<1>4. UNCHANGED <<active, heads, tail, generation, count>>
  BY <1>1 DEF GiveUp
<1>5. LogStays
  <2>1. CASE cell' = cell
    BY <1>1, <1>2, <1>4, <2>1, SameLog DEF LogStays
  <2>2. CASE cell' = WithUnit(cell, active, tail, Junk)
    <3>1. \A s \in Sides, o \in Offsets : cell'[s][o] = IF s = active /\ o = tail THEN Junk ELSE cell[s][o]
      BY <1>2, <2>2, UnitType, CellType
    <3>2. cell'[active][tail] = Junk /\ \A o \in Offsets : o < tail => cell'[active][o] = cell[active][o]
      BY <1>2, <1>3, <3>1 DEF Offsets
    <3>3. cell'[active][tail] # Blank /\ cell'[active][tail].k # "rec"
      BY <3>2 DEF Junk, Blank
    <3>. QED  BY <1>1, <1>2, <1>4, <3>2, <3>3, BehindLog DEF LogStays
  <2>. QED  BY <2>1, <2>2 DEF TagFails, WithUnit
<1>6. job.op # "write" /\ SpoilsTail
  BY <1>1 DEF IndInv, RequestFitsBlock, SpoilsTail
<1>. QED  BY <1>1, <1>5, <1>6, GiveUpLasts

LEMMA ReserveLasts ==
    ASSUME IndInv, IndInv', Durability, Reserve
    PROVE  Durability'
<1>1. pc = "reserve" /\ Serviceable /\ writer # Idle
  BY DEF Reserve, Serviceable, IndInv, RequestFitsBlock
<1>2. ASSUME NEW e, GiveUp(e), UNCHANGED flashVars PROVE Durability'
  <2>1. LogStays
    BY <1>1, <1>2, SameFlashStays DEF GiveUp
  <2>. QED  BY <1>1, <1>2, <2>1, GiveUpLasts DEF flashVars, Same
<1>3. CASE /\ pc' \in {"compact", "payload"}
           /\ UNCHANGED <<flashVars, indexVars, draftVars, cursorVars, channels, job, error, localVars>>
  <2>1. FilesStay
    BY <1>3 DEF FilesStay, Live, Entry, flashVars, indexVars
  <2>2. JobIsAllowed' /\ ReadersBehind'
    BY <1>1, <1>3, <2>1, JobStays, ReadersStay DEF indexVars, draftVars
  <2>. QED  BY <1>1, <1>3, <2>2, QuietLasts DEF indexVars, draftVars, cursorVars
<1>. QED  BY <1>2, <1>3 DEF Reserve

LEMMA ProgrammedIs ==
    ASSUME NEW log \in Log, NEW off \in Nat, NEW bytes \in Seq(Values), Erased(log, off)
    PROVE  /\ Programmed(log, off, bytes) \in Log
           /\ \A o \in Offsets : o < off => Programmed(log, off, bytes)[o] = log[o]
           /\ Erased(Programmed(log, off, bytes), off + Len(bytes))
           /\ off + Len(bytes) <= LIMIT => Extract(Programmed(log, off, bytes), off, Len(bytes)) = bytes
<1>. DEFINE new == Programmed(log, off, bytes)
<1>1. Len(bytes) \in Nat /\ LIMIT \in Nat
  BY LenProperties, JournalAssumption
<1>2. ASSUME NEW o \in Offsets, o >= off + Len(bytes) PROVE new[o] = Blank
  <2>1. o \notin off..(off + Len(bytes) - 1) /\ o >= off
    BY <1>1, <1>2 DEF Offsets
  <2>. QED  BY <2>1 DEF Programmed, Erased
<1>3. ASSUME off + Len(bytes) <= LIMIT PROVE Extract(new, off, Len(bytes)) = bytes
  <2>1. ASSUME NEW j \in 1..Len(bytes), NEW o, o = off + j - 1
        PROVE  (IF o \in Offsets /\ new[o].k = "byte" THEN new[o].v ELSE Garbage) = bytes[j]
    <3>1. o \in Offsets /\ o \in off..(off + Len(bytes) - 1) /\ o - off + 1 = j /\ o >= off
      BY <1>1, <1>3, <2>1 DEF Offsets
    <3>2. log[o] = Blank
      BY <3>1 DEF Erased
    <3>3. new[o] = Byte(bytes[j])
      BY <3>1, <3>2 DEF Programmed, Over
    <3>. QED  BY <3>1, <3>3 DEF Byte
  <2>2. Extract(new, off, Len(bytes)) = [j \in 1..Len(bytes) |-> bytes[j]]
    BY <2>1 DEF Extract
  <2>3. bytes = [j \in 1..Len(bytes) |-> bytes[j]]
    BY LenProperties
  <2>. QED  BY <2>2, <2>3
<1>4. new \in Log /\ \A o \in Offsets : o < off => new[o] = log[o]
  BY ProgrammedType
<1>. QED  BY <1>2, <1>3, <1>4 DEF Erased

(* The bytes of a payload, all of them or the first. *)
LEMMA PayloadStays ==
    ASSUME IndInv, SpaceInv, Durability, pc = "payload", NEW bytes \in Seq(Values),
           cell' = [cell EXCEPT ![target] = Programmed(@, cursor, bytes)], sector' = sector,
           UNCHANGED <<active, heads, tail, generation, count>>
    PROVE  /\ LogStays /\ Erased(cell'[target], cursor + Len(bytes))
           /\ Same(cell[target], cell'[target], 0, writebase)
           /\ rotating => cell[target][writebase] = Tag /\ cell'[target][writebase] = Tag
           /\ cell'[active][tail] = cell[active][tail]
           /\ ~rotating => cell[active][tail] = Tag /\ target = active /\ writebase = tail
<1>1. Serviceable /\ writer # Idle /\ ~failed /\ tail <= LIMIT - HEADER
  BY DEF Serviceable, IndInv, RequestFitsBlock, SpaceInv, SpaceFits, TailIsClean
<1>2. /\ tail \in Nat /\ HEADER \in Nat \ {0} /\ LIMIT \in Nat /\ cell \in [Sides -> Log]
      /\ active \in Sides /\ target \in Sides /\ cursor \in Nat /\ writebase \in Nat
      /\ cursor >= writebase + HEADER /\ cursor <= LIMIT
      /\ ~rotating => target = active /\ writebase = tail
      /\ rotating => target # active
  BY <1>1, ActiveLog, JournalAssumption, OtherSide
  DEF IndInv, TypeOK, Log, DraftIsNext, SpaceInv, SpaceFits, CursorInSector, Rebuilding
<1>3. writebase \in Offsets /\ tail \in Offsets /\ writebase < cursor
  BY <1>1, <1>2 DEF Offsets
<1>4. Erased(cell[target], cursor)
  BY <1>1 DEF Durability, ErasedAhead
<1>5. \A s \in Sides : cell'[s] = IF s = target THEN Programmed(cell[target], cursor, bytes) ELSE cell[s]
  BY <1>2
<1>6. /\ \A o \in Offsets : o < cursor => cell'[target][o] = cell[target][o]
      /\ Erased(cell'[target], cursor + Len(bytes))
  BY <1>2, <1>4, <1>5, ProgrammedIs
<1>7. /\ rotating => cell[target][writebase] = Tag
      /\ ~rotating => cell[active][tail] = Tag
  BY <1>1 DEF Durability, DraftIsTagged
<1>8. Same(cell[target], cell'[target], 0, writebase) /\ cell'[target][writebase] = cell[target][writebase]
  <2>1. \A o \in Offsets : o < writebase => o < cursor
    BY <1>2, <1>3 DEF Offsets
  <2>. QED  BY <1>3, <1>6, <2>1 DEF Same
<1>9. cell'[active][tail] = cell[active][tail]
  BY <1>2, <1>5, <1>8
<1>10. LogStays
  <2>1. CASE rotating
    <3>1. cell'[active] = cell[active]
      BY <1>2, <1>5, <2>1
    <3>. QED  BY <1>1, <3>1, SameLog DEF LogStays
  <2>2. CASE ~rotating
    <3>1. cell'[active][tail] = Tag /\ \A o \in Offsets : o < tail => cell'[active][o] = cell[active][o]
      BY <1>2, <1>7, <1>8, <2>2 DEF Same, Offsets
    <3>2. cell'[active][tail] # Blank /\ cell'[active][tail].k # "rec"
      BY <3>1 DEF Tag, Blank
    <3>. QED  BY <1>1, <3>1, <3>2, BehindLog DEF LogStays
  <2>. QED  BY <2>1, <2>2
<1>. QED  BY <1>2, <1>6, <1>7, <1>8, <1>9, <1>10

LEMMA PayloadLasts ==
    ASSUME IndInv, SpaceInv, IndInv', Durability, Payload
    PROVE  Durability'
<1>1. pc = "payload" /\ writer # Idle /\ ~failed /\ Serviceable /\ cursor \in Nat
  BY DEF Payload, Serviceable, IndInv, TypeOK, RequestFitsBlock
<1>2. Incoming \in Seq(Values) /\ Len(Incoming) \in Nat
  BY <1>1, IncomingType, LenProperties
<1>3. /\ cell' = [cell EXCEPT ![target] = Programmed(@, cursor, Incoming)] /\ sector' = sector
      /\ cursor' = cursor + Len(Incoming)
      /\ UNCHANGED <<active, heads, tail, generation, count, dirty, writer, failed, rotating, wslot, newname,
                     target, writebase, nextheads, channels>>
      /\ pc' \in {"idle", "fields", "reserve"}
      /\ job' = NoJob \/ (job'.op = "concat" /\ job.op = "concat") \/ job' = job
  <2>1. job' = NoJob \/ (job'.op = "concat" /\ job.op = "concat") \/ job' = job
    BY DEF Payload, Reply, IndInv, TypeOK, Jobs
  <2>. QED  BY <2>1 DEF Payload, Reply, indexVars, draftVars
<1>4. /\ LogStays /\ Erased(cell'[target], cursor + Len(Incoming))
      /\ Same(cell[target], cell'[target], 0, writebase)
      /\ rotating => cell'[target][writebase] = Tag
      /\ ~rotating => cell'[active][tail] = Tag /\ target = active /\ writebase = tail
  BY <1>1, <1>2, <1>3, PayloadStays
<1>5. Serviceable'
  BY <1>3 DEF Serviceable
<1>6. ResetFindsAll' /\ IndexIsReal' /\ FilesStay
  BY <1>1, <1>4, <1>5, StaysDurable DEF FilesStay
<1>7. ErasedAhead'
  BY <1>1, <1>3, <1>4 DEF ErasedAhead
<1>8. DraftIsTagged'
  BY <1>1, <1>3, <1>4 DEF DraftIsTagged, Tag
<1>9. CopyIsReal'
  <2>1. CASE rotating
    <3>1. ~Reads(cell'[target], writebase)
      BY <1>4, <2>1 DEF Reads, Tag
    <3>. QED  BY <1>1, <1>3, <1>4, <1>6, <2>1, <3>1, RotationStays
  <2>2. CASE ~rotating
    BY <1>3, <2>2, NoCopy DEF Building
  <2>. QED  BY <2>1, <2>2
<1>10. DraftReplaces' /\ CommitIsRequested'
  BY <1>1, <1>3, <1>6, DraftStays, NoCommit
<1>11. JobIsAllowed'
  BY <1>1, <1>3, <1>6, JobStays DEF NoJob
<1>12. ReadersBehind'
  BY <1>3, ReadersStay
<1>. QED  BY <1>6, <1>7, <1>8, <1>9, <1>10, <1>11, <1>12 DEF Durability

LEMMA PayloadFailsLasts ==
    ASSUME IndInv, SpaceInv, IndInv', Durability, PayloadFails
    PROVE  Durability'
<1>1. pc = "payload" /\ writer # Idle /\ GiveUp(25) /\ sector' = sector
  BY DEF PayloadFails, IndInv, RequestFitsBlock
<1>2. PICK n \in 0..(Len(Incoming) - 1) :
         cell' = [cell EXCEPT ![target] = Programmed(@, cursor, SubSeq(Incoming, 1, n))]
  BY DEF PayloadFails
<1>3. SubSeq(Incoming, 1, n) \in Seq(Values)
  BY <1>1, IncomingType, SubSeqProperties, LenProperties
<1>4. /\ LogStays /\ Same(cell[target], cell'[target], 0, writebase)
      /\ rotating => cell'[target][writebase] = cell[target][writebase]
      /\ cell'[active][tail] = cell[active][tail]
  BY <1>1, <1>2, <1>3, PayloadStays DEF GiveUp
<1>. QED  BY <1>1, <1>4, GiveUpLasts DEF SpoilsTail

LEMMA StoredIs ==
    ASSUME NEW s, NEW off, NEW len
    PROVE  Stored(s, off, len) = Extract(cell[s], off, len)
BY DEF Stored, Get, Extract

LEMMA HeaderStays ==
    ASSUME IndInv, SpaceInv, Durability, pc \in {"fields", "commit"},
           NEW new \in Cell, new # Blank, new.k # "rec" \/ ~new.commit,
           cell' = WithUnit(cell, target, writebase, new), sector' = sector,
           UNCHANGED <<active, heads, tail, generation, count>>
    PROVE  /\ LogStays /\ cell'[target][writebase] = new
           /\ \A o \in Offsets : o # writebase => cell'[target][o] = cell[target][o]
<1>1. Serviceable /\ ~dirty /\ tail <= LIMIT - HEADER
  BY DEF Serviceable, SpaceInv, SpaceFits, TailIsClean
<1>2. /\ tail \in Nat /\ cell \in [Sides -> Log] /\ active \in Sides /\ target \in Sides
      /\ writebase \in Offsets /\ (target = active => writebase = tail)
  BY <1>1, ActiveLog, DraftPlace DEF IndInv, TypeOK, Log, DraftIsNext, RequestFitsBlock
<1>3. \A s \in Sides, o \in Offsets : cell'[s][o] = IF s = target /\ o = writebase THEN new ELSE cell[s][o]
  BY <1>2, UnitType
<1>4. cell'[target][writebase] = new /\ \A o \in Offsets : o # writebase => cell'[target][o] = cell[target][o]
  <2>1. cell'[target][writebase] = new
    BY <1>2, <1>3, Zenon
  <2>2. \A o \in Offsets : o # writebase => cell'[target][o] = cell[target][o]
    BY <1>2, <1>3, Zenon
  <2>. QED  BY <2>1, <2>2
<1>5. LogStays
  <2>1. CASE target = active
    <3>1. \A o \in Offsets : o < tail => o # writebase
      BY <1>2, <2>1 DEF Offsets
    <3>2. cell'[active][tail] = new
      BY <1>2, <1>4, <2>1, Zenon
    <3>3. \A o \in Offsets : o < tail => cell'[active][o] = cell[active][o]
      BY <1>4, <2>1, <3>1, Zenon
    <3>. QED  BY <1>1, <3>2, <3>3, BehindLog DEF LogStays
  <2>2. CASE target # active
    <3>1. cell'[active] = cell[active]
      BY <1>2, <2>2 DEF WithUnit
    <3>. QED  BY <1>1, <3>1, SameLog DEF LogStays
  <2>. QED  BY <2>1, <2>2
<1>. QED  BY <1>4, <1>5

LEMMA RecordFailsLasts ==
    ASSUME IndInv, SpaceInv, IndInv', Durability, pc \in {"fields", "commit"},
           cell' = [cell EXCEPT ![target][writebase] = Junk], sector' = sector, GiveUp(25)
    PROVE  Durability'
<1>1. cell' = WithUnit(cell, target, writebase, Junk)
  BY DEF WithUnit
<1>2. Junk \in Cell /\ Junk # Blank /\ Junk.k # "rec"
  BY CellType DEF Junk, Blank
<1>3. LogStays
  BY <1>1, <1>2, HeaderStays DEF GiveUp
<1>4. job.op # "write" /\ SpoilsTail
  BY DEF IndInv, RequestFitsBlock, SpoilsTail
<1>. QED  BY <1>3, <1>4, GiveUpLasts

LEMMA FieldsLasts ==
    ASSUME IndInv, SpaceInv, IndInv', Durability, Fields
    PROVE  Durability'
<1>0. pc = "fields" /\ sector' = sector
  BY DEF Fields
<1>1. CASE cell' = [cell EXCEPT ![target][writebase] = Junk] /\ GiveUp(25)
  BY <1>0, <1>1, RecordFailsLasts
<1>2. CASE /\ Stored(target, writebase + HEADER, Length) = data
           /\ cell' = [cell EXCEPT ![target][writebase] = NewRecord]
           /\ pc' = "commit"
           /\ UNCHANGED <<indexVars, draftVars, cursorVars, channels, job, error, localVars>>
  <2>1. UNCHANGED <<active, heads, tail, dirty, generation, count, writer, failed, rotating, wslot, newname,
                    target, writebase, cursor, data, nextheads, channels, job>>
    BY <1>2 DEF indexVars, draftVars, cursorVars
  <2>2. NewRecord \in Record /\ ~NewRecord.commit /\ NewRecord.span = cursor - writebase
    BY <1>0, NewRecordFits
  <2>3. NewRecord \in Cell /\ NewRecord # Blank
    BY <2>2, CellType DEF Record, Blank
  <2>4. cell' = WithUnit(cell, target, writebase, NewRecord)
    BY <1>2 DEF WithUnit
  <2>5. /\ LogStays /\ cell'[target][writebase] = NewRecord
        /\ \A o \in Offsets : o # writebase => cell'[target][o] = cell[target][o]
    BY <1>0, <2>1, <2>2, <2>3, <2>4, HeaderStays
  <2>6. Serviceable /\ Serviceable'
    BY <1>0, <1>2 DEF Serviceable
  <2>7. ResetFindsAll' /\ IndexIsReal' /\ FilesStay
    BY <2>5, <2>6, StaysDurable DEF FilesStay
  <2>8. /\ writebase \in Nat /\ cursor \in Nat /\ HEADER \in Nat \ {0} /\ cursor >= writebase + HEADER
        /\ ~failed /\ job.op \in {"close", "concat", "scratch", "metadata"}
    BY <1>0, DraftPlace, JournalAssumption DEF IndInv, RequestFitsBlock
  <2>9. ErasedAhead'
    <3>1. Erased(cell[target], cursor)
      BY <1>0 DEF Durability, ErasedAhead
    <3>2. Erased(cell'[target], cursor)
      BY <2>5, <2>8, <3>1 DEF Erased, Offsets
    <3>. QED  BY <1>2, <2>1, <3>2 DEF ErasedAhead
  <2>10. DraftIsTagged'
    BY <1>2, <2>1, <2>2, <2>5 DEF DraftIsTagged
  <2>11. CopyIsReal'
    <3>1. CASE rotating
      <4>1. Same(cell[target], cell'[target], 0, writebase) /\ ~Reads(cell'[target], writebase)
        BY <2>2, <2>5, <2>8 DEF Same, Reads, Offsets
      <4>. QED  BY <1>0, <1>2, <2>1, <2>5, <2>6, <2>7, <3>1, <4>1, RotationStays
    <3>2. CASE ~rotating
      BY <1>2, <2>1, <3>2, NoCopy DEF Building
    <3>. QED  BY <3>1, <3>2
  <2>12. DraftReplaces' /\ JobIsAllowed'
    BY <1>0, <2>1, <2>7, DraftStays, JobStays
  <2>13. CommitIsRequested'
    <3>1. job.op \in {"scratch", "metadata"} => job.slot \in Live
      BY <1>0, <2>8, JobType DEF IndInv, TypeOK, SourcesExist, Live
    <3>2. NewRecord' = NewRecord
      <4>1. CASE job.op \in {"close", "concat"}
        BY <2>1, <4>1 DEF NewRecord, Length
      <4>2. CASE job.op \in {"scratch", "metadata"}
        <5>1. Entry(job.slot)' = Entry(job.slot)
          BY <2>1, <2>7, <3>1, <4>2 DEF FilesStay, Entry
        <5>. QED  BY <2>1, <4>2, <5>1 DEF NewRecord
      <4>. QED  BY <2>8, <4>1, <4>2
    <3>3. Extract(cell'[target], writebase + HEADER, NewRecord.span - HEADER) = NewRecord.crc
      <4>1. CASE job.op \in {"close", "concat"}
        <5>1. NewRecord.crc = data /\ NewRecord.span - HEADER = Length
          BY <2>2, <2>8, <4>1 DEF NewRecord, Length
        <5>2. Extract(cell[target], writebase + HEADER, Length) = data
          BY <1>2, StoredIs
        <5>3. Same(cell[target], cell'[target], writebase + HEADER, writebase + HEADER + Length)
          BY <2>5, <2>8 DEF Same, Offsets
        <5>4. writebase + HEADER \in Nat /\ Length \in Nat
          BY <2>8 DEF Length
        <5>. QED  BY <5>1, <5>2, <5>3, <5>4, ExtractSame
      <4>2. CASE job.op \in {"scratch", "metadata"}
        <5>1. NewRecord.crc = <<>>
          <6>1. Entry(job.slot) \in Record
            BY <1>0, <3>1, <4>2, EntryType
          <6>. QED  BY <4>2, <6>1 DEF NewRecord, Record
        <5>2. NewRecord.span - HEADER = 0
          BY <1>0, <2>1, <2>2, <2>8, <4>2 DEF IndInv, TypeOK, RequestFitsBlock
        <5>3. Extract(cell'[target], writebase + HEADER, 0) = <<>>
          BY DEF Extract
        <5>. QED  BY <5>1, <5>2, <5>3
      <4>. QED  BY <2>8, <4>1, <4>2
    <3>. QED  BY <2>1, <2>5, <3>2, <3>3 DEF CommitIsRequested
  <2>14. ReadersBehind'
    BY <1>2, <2>1, ReadersStay
  <2>. QED  BY <2>7, <2>9, <2>10, <2>11, <2>12, <2>13, <2>14 DEF Durability
<1>. QED  BY <1>1, <1>2 DEF Fields

-----------------------------------------------------------------------------
(* Commits *)

(* What the commit byte completes. *)
Completes(r) ==
    /\ r = cell'[target][writebase] /\ r \in Record /\ r = [NewRecord EXCEPT !.commit = TRUE]
    /\ Reads(cell'[target], writebase) /\ writebase + r.span = cursor
    /\ Erased(cell'[target], cursor)
    /\ Same(cell[target], cell'[target], 0, writebase)
    /\ \A s \in Sides : s # target => cell'[s] = cell[s]
    /\ r.kind # 3 => \A j \in Live : j # r.slot /\ j # r.drop => Entry(j).name # r.name

LEMMA ReadsIs ==
    ASSUME NEW log, NEW o, NEW r, r = log[o],
           o <= LIMIT - HEADER, r.k = "rec", r.commit, r.span >= HEADER, o + r.span <= LIMIT,
           r.slot # r.drop, r.len <= CAPACITY,
           r.kind = 1 => r.off = o + HEADER /\ r.len = r.span - HEADER,
           r.kind # 1 => r.span = HEADER,
           r.kind = 2 => HEADER <= r.off /\ r.off + r.len <= o,
           Extract(log, o + HEADER, r.span - HEADER) = r.crc
    PROVE  Reads(log, o)
BY DEF Reads

(* What the commit byte makes of the header, whatever is behind it. *)
Commits(r) ==
    /\ r = cell'[target][writebase] /\ r \in Record /\ NewRecord \in Record
    /\ r = [NewRecord EXCEPT !.commit = TRUE]
    /\ r.k = "rec" /\ r.commit /\ r.span >= HEADER /\ writebase + r.span = cursor /\ r.span = cursor - writebase
    /\ cursor <= LIMIT /\ writebase <= LIMIT - HEADER
    /\ Extract(cell'[target], writebase + HEADER, r.span - HEADER) = r.crc
    /\ \A o \in Offsets : o # writebase => cell'[target][o] = cell[target][o]
    /\ \A s \in Sides : s # target => cell'[s] = cell[s]

LEMMA CommitPrograms ==
    ASSUME IndInv, SpaceInv, IndInv', CommitIsRequested, Commit
    PROVE  /\ \E r : Commits(r)
           /\ Same(cell[target], cell'[target], 0, writebase)
<1>. DEFINE r == cell'[target][writebase]
            old == cell[target][writebase]
<1>1. pc = "commit"
  BY DEF Commit
<1>2. /\ r \in Record /\ r.commit /\ r = [old EXCEPT !.commit = TRUE] /\ r.span = cursor - writebase
      /\ \A s \in Sides, o \in Offsets : s # target \/ o # writebase => cell'[s][o] = cell[s][o]
  BY CommitRecord
<1>3. /\ old = NewRecord /\ old \in Record
      /\ Extract(cell[target], writebase + HEADER, old.span - HEADER) = old.crc
  BY <1>1 DEF CommitIsRequested, IndInv, RequestFitsBlock, IsRecord
<1>4. /\ cursor >= writebase + HEADER /\ cursor <= LIMIT
      /\ cursor \in Nat /\ writebase \in Nat /\ cursor - writebase \in Nat
      /\ HEADER \in Nat \ {0} /\ LIMIT \in Nat
  BY <1>1, DraftPlace, JournalAssumption
<1>5. old.span = r.span /\ old.crc = r.crc
  BY <1>2, <1>3 DEF Record
<1>6. target \in Sides /\ cell \in [Sides -> Log] /\ cell' \in [Sides -> Log]
  BY DEF IndInv, TypeOK, Log
<1>7. /\ \A o \in Offsets : o # writebase => cell'[target][o] = cell[target][o]
      /\ Same(cell[target], cell'[target], 0, writebase)
  <2>1. \A o \in Offsets : o # writebase => cell'[target][o] = cell[target][o]
    BY <1>2, <1>6, Zenon
  <2>2. \A o \in Offsets : o < writebase => o # writebase
    BY <1>4 DEF Offsets
  <2>. QED  BY <2>1, <2>2 DEF Same
<1>8. \A s \in Sides : s # target => cell'[s] = cell[s]
  <2>1. ASSUME NEW s \in Sides, s # target PROVE cell'[s] = cell[s]
    <3>1. cell'[s] \in [Offsets -> Cell] /\ cell[s] \in [Offsets -> Cell] /\ \A o \in Offsets : cell'[s][o] = cell[s][o]
      BY <1>2, <1>6, <2>1 DEF Log
    <3>. QED  BY <3>1
  <2>. QED  BY <2>1
<1>9. Extract(cell'[target], writebase + HEADER, r.span - HEADER) = r.crc
  <2>1. writebase + HEADER \in Nat /\ r.span - HEADER \in Nat
    BY <1>2, <1>4
  <2>2. \A o \in Offsets : writebase + HEADER <= o => o # writebase
    BY <1>4 DEF Offsets
  <2>3. Same(cell[target], cell'[target], writebase + HEADER, writebase + HEADER + (r.span - HEADER))
    BY <1>7, <2>2 DEF Same
  <2>. QED  BY <1>3, <1>5, <2>1, <2>3, ExtractSame
<1>. HIDE DEF r, old
<1>10. r.k = "rec"
  <2>1. r \in Record
    BY <1>2
  <2>. QED  BY <2>1 DEF Record
<1>11. r.span >= HEADER /\ writebase + r.span = cursor /\ writebase <= LIMIT - HEADER
  <2>1. r.span = cursor - writebase
    BY <1>2
  <2>. QED  BY <1>4, <2>1
<1>12. Commits(r)
  <2>1. r = cell'[target][writebase]
    BY DEF r
  <2>2. r \in Record /\ r.commit /\ r = [NewRecord EXCEPT !.commit = TRUE] /\ NewRecord \in Record
        /\ r.span = cursor - writebase
    BY <1>2, <1>3
  <2>. QED  BY <1>4, <1>7, <1>8, <1>9, <1>10, <1>11, <2>1, <2>2 DEF Commits
<1>. QED  BY <1>7, <1>12

(* A draft that is committed is a record. *)
LEMMA DraftReads ==
    ASSUME IndInv, SpaceInv, Commit, writer # Idle, NEW r, Commits(r)
    PROVE  /\ Reads(cell'[target], writebase)
           /\ r.kind = 1 /\ r.slot = wslot /\ r.drop = NoSlot /\ r.name = newname
<1>1. pc = "commit" /\ ~failed /\ job.op \in {"close", "concat"}
  BY DEF Commit, IndInv, RequestFitsBlock
<1>2. /\ wslot \in Slots /\ NoSlot \notin Slots /\ data \in Seq(Values) /\ CAPACITY \in Nat
      /\ cursor \in Nat /\ writebase \in Nat /\ HEADER \in Nat
  <2>1. NoSlot \notin Slots
    BY JournalAssumption DEF NoSlot, Slots
  <2>. QED  BY <2>1, JournalAssumption DEF IndInv, TypeOK
<1>3. /\ r = cell'[target][writebase] /\ r = [NewRecord EXCEPT !.commit = TRUE] /\ NewRecord \in Record
      /\ r.k = "rec" /\ r.commit /\ r.span >= HEADER /\ writebase + r.span = cursor
      /\ cursor <= LIMIT /\ writebase <= LIMIT - HEADER /\ r.span = cursor - writebase
      /\ Extract(cell'[target], writebase + HEADER, r.span - HEADER) = r.crc
  BY DEF Commits
<1>4. /\ r.kind = 1 /\ r.slot = wslot /\ r.drop = NoSlot /\ r.name = newname
      /\ r.off = writebase + HEADER /\ r.len = cursor - writebase - HEADER
  BY <1>1, <1>3 DEF NewRecord, Length
<1>5. r.len <= CAPACITY
  <2>1. /\ livebytes - oldlen + Len(data) <= CAPACITY /\ oldlen = LenOf(wslot) /\ livebytes = Sum(Lens)
        /\ cursor = writebase + HEADER + Len(data)
    BY <1>1 DEF SpaceInv, SpaceFits, DraftFits, TotalsKept
  <2>2. Lens[wslot] <= Sum(Lens) /\ Lens[wslot] = LenOf(wslot) /\ LenOf(wslot) \in Nat /\ Sum(Lens) \in Nat
    BY <1>1, <1>2, LensType, SumMember, SumType DEF Lens
  <2>3. Len(data) \in Nat
    BY <1>2, LenProperties
  <2>. QED  BY <1>2, <1>4, <2>1, <2>2, <2>3
<1>6. r.slot # r.drop /\ r.len = r.span - HEADER /\ writebase + r.span <= LIMIT
  BY <1>2, <1>3, <1>4
<1>7. Reads(cell'[target], writebase)
  <2>1. r.k = "rec" /\ r.commit /\ r.span >= HEADER /\ writebase <= LIMIT - HEADER /\ r = cell'[target][writebase]
    BY <1>3
  <2>2. r.kind = 1 /\ r.off = writebase + HEADER
    BY <1>4
  <2>3. Extract(cell'[target], writebase + HEADER, r.span - HEADER) = r.crc
    BY <1>3
  <2>. QED  BY <1>5, <1>6, <2>1, <2>2, <2>3, ReadsIs
<1>. QED  BY <1>4, <1>7

LEMMA CommitCompletes ==
    ASSUME IndInv, SpaceInv, IndInv', Durability, Commit
    PROVE  \E r : Completes(r)
<1>1. pc = "commit" /\ Serviceable /\ job.op \in {"close", "concat", "scratch", "metadata"}
  BY DEF Commit, Serviceable, IndInv, RequestFitsBlock
<1>2. PICK r : Commits(r)
  BY CommitPrograms DEF Durability
<1>3. /\ r = cell'[target][writebase] /\ r \in Record /\ NewRecord \in Record
      /\ r = [NewRecord EXCEPT !.commit = TRUE] /\ r.span = cursor - writebase
      /\ r.k = "rec" /\ r.commit /\ r.span >= HEADER /\ writebase + r.span = cursor
      /\ cursor <= LIMIT /\ writebase <= LIMIT - HEADER
      /\ Extract(cell'[target], writebase + HEADER, r.span - HEADER) = r.crc
      /\ \A o \in Offsets : o # writebase => cell'[target][o] = cell[target][o]
      /\ \A s \in Sides : s # target => cell'[s] = cell[s]
  BY <1>2 DEF Commits
<1>4. /\ cursor \in Nat /\ writebase \in Nat /\ cursor >= writebase + HEADER /\ HEADER \in Nat \ {0}
      /\ NoSlot \notin Slots
  <2>1. NoSlot \notin Slots
    BY JournalAssumption DEF NoSlot, Slots
  <2>. QED  BY <1>1, <2>1, DraftPlace, JournalAssumption
<1>5. Same(cell[target], cell'[target], 0, writebase) /\ Erased(cell'[target], cursor)
  <2>1. Same(cell[target], cell'[target], 0, writebase)
    BY CommitPrograms DEF Durability
  <2>2. Erased(cell[target], cursor)
    BY <1>1 DEF Durability, ErasedAhead
  <2>3. \A o \in Offsets : o >= cursor => o # writebase
    BY <1>4 DEF Offsets
  <2>. QED  BY <1>3, <2>1, <2>2, <2>3 DEF Erased
<1>6. CASE writer # Idle
  <2>1. Reads(cell'[target], writebase) /\ r.slot = wslot /\ r.name = newname
    BY <1>2, <1>6, DraftReads
  <2>2. \A j \in Live : j # r.slot => Entry(j).name # r.name
    BY <1>6, <2>1 DEF Durability, DraftReplaces, Replaces
  <2>. QED  BY <1>3, <1>5, <2>1, <2>2 DEF Completes
<1>7. CASE writer = Idle
  <2>1. /\ job.op \in {"scratch", "metadata"} /\ target = active /\ writebase = tail /\ cursor = tail + HEADER
        /\ job.slot \in Live
    BY <1>1, <1>7, JobType DEF IndInv, RequestFitsBlock, SourcesExist, Live, TypeOK
  <2>2. r.slot = job.slot /\ r.len = Entry(job.slot).len /\ r.span = HEADER
    <3>1. r.slot = job.slot /\ r.len = LenOf(job.slot)
      BY <1>3, <1>7, CommitRecord
    <3>. QED  BY <1>3, <1>4, <2>1, <3>1 DEF LenOf, Live
  <2>3. /\ Entry(job.slot) \in Record /\ Entry(job.slot).len <= CAPACITY
        /\ HEADER <= Entry(job.slot).off /\ Entry(job.slot).off + Entry(job.slot).len <= tail
    BY <1>1, <2>1, LiveFiles
  <2>4. \/ r.kind = 3 /\ r.drop = NoSlot
        \/ /\ r.kind = 2 /\ r.drop = job.drop /\ r.name = job.name /\ r.off = Entry(job.slot).off
           /\ job.op = "metadata"
    <3>1. CASE job.op = "scratch"
      BY <1>3, <2>3, <3>1 DEF NewRecord, Record
    <3>2. CASE job.op = "metadata"
      BY <1>3, <2>3, <3>2 DEF NewRecord, Record
    <3>. QED  BY <2>1, <3>1, <3>2
  <2>5. job.op = "metadata" =>
          job.drop # job.slot /\ \A i \in Live \ {job.slot} : Entry(i).name = job.name <=> i = job.drop
    BY DEF Durability, JobIsAllowed
  <2>6. r.slot # r.drop
    BY <1>4, <2>1, <2>2, <2>4, <2>5 DEF Live
  <2>7. Reads(cell'[target], writebase)
    <3>1. /\ r.kind # 1 /\ r.len <= CAPACITY /\ writebase + r.span <= LIMIT
          /\ r.kind = 2 => HEADER <= r.off /\ r.off + r.len <= writebase
      BY <1>3, <2>1, <2>2, <2>3, <2>4
    <3>. QED  BY <1>3, <2>2, <2>6, <3>1, ReadsIs
  <2>8. r.kind # 3 => \A j \in Live : j # r.slot /\ j # r.drop => Entry(j).name # r.name
    BY <2>2, <2>4, <2>5
  <2>. QED  BY <1>3, <1>5, <2>7, <2>8 DEF Completes
<1>. QED  BY <1>6, <1>7

LEMMA PlainCommitLasts ==
    ASSUME IndInv, SpaceInv, IndInv', Durability, Commit, ~rotating
    PROVE  Durability'
<1>1. PICK r : Completes(r)
  BY CommitCompletes
<1>2. /\ pc = "commit" /\ Serviceable /\ ~dirty /\ target = active /\ writebase = tail
      /\ pc' \in {"idle", "scratch"} /\ Forget /\ Release /\ tail' = cursor /\ sector' = sector
      /\ heads' = Applied(heads, writebase)
      /\ count' = Cardinality({i \in Slots : Applied(heads, writebase)[i] # 0})
      /\ UNCHANGED <<active, generation, dirty>>
      /\ \/ pc' = "idle" /\ job' = NoJob
         \/ pc' = "scratch" /\ job' = job /\ job.op = "scratch"
  BY DEF Commit, Publish, Totals, Reply, Serviceable, IndInv, DraftIsNext, RequestFitsBlock, SpaceInv,
         SpaceFits, TailIsClean
<1>3. /\ Sound(cell[active], sector[active].base, tail, heads)
      /\ tail \in Nat /\ active \in Sides /\ active = Chosen /\ Sealed(active)
      /\ cell[active] \in Log /\ cell'[active] \in Log /\ heads \in [Slots -> Nat] /\ heads' \in [Slots -> Nat]
      /\ cursor \in Nat /\ HEADER \in Nat /\ cursor >= tail + HEADER /\ tail # 0
  <2>1. cell'[active] \in Log /\ heads' \in [Slots -> Nat]
    BY <1>2 DEF IndInv, TypeOK, Log
  <2>2. HEADER \in Nat \ {0}
    BY JournalAssumption
  <2>. QED  BY <1>2, <2>1, <2>2, ActiveLog, DraftPlace
<1>4. /\ r = cell'[active][tail] /\ r \in Record /\ Reads(cell'[active], tail) /\ tail + r.span = cursor
      /\ Erased(cell'[active], cursor) /\ Same(cell[active], cell'[active], 0, tail)
      /\ r.kind # 3 => \A j \in Live : j # r.slot /\ j # r.drop => Entry(j).name # r.name
  BY <1>1, <1>2 DEF Completes
<1>5. heads' = AfterRecord(heads, r, tail)
  <2>1. cell[target][writebase] \in Record /\ r = [cell[target][writebase] EXCEPT !.commit = TRUE]
    BY <1>1, <1>2, CommitRecord DEF Completes, IndInv, RequestFitsBlock, IsRecord
  <2>2. /\ cell[target][writebase].kind = r.kind /\ cell[target][writebase].slot = r.slot
        /\ cell[target][writebase].drop = r.drop
    BY <2>1 DEF Record
  <2>. QED  BY <1>2, <2>2 DEF Applied, AfterRecord
<1>6. /\ \A i \in Slots : heads'[i] # 0 =>
           \/ i = r.slot /\ r.kind # 3 /\ heads'[i] = tail
           \/ i # r.slot /\ i # r.drop /\ heads'[i] = heads[i] /\ heads[i] # 0
      /\ r.kind = 3 => \A i \in Slots : heads'[i] # 0 => heads'[i] = heads[i]
  BY <1>5 DEF AfterRecord
<1>7. \A i \in Live : cell'[active][heads[i]] = cell[active][heads[i]]
  <2>1. ASSUME NEW i \in Live PROVE heads[i] \in Offsets /\ 0 <= heads[i] /\ heads[i] < tail
    BY <1>2, LiveFiles DEF Offsets
  <2>. QED  BY <1>4, <2>1 DEF Same
<1>8. OneName(cell'[active], heads')
  <2>. SUFFICES ASSUME NEW i \in Slots, NEW j \in Slots, heads'[i] # 0, heads'[j] # 0,
                       cell'[active][heads'[i]].name = cell'[active][heads'[j]].name
                PROVE  i = j
    BY DEF OneName
  <2>1. \A k \in Slots : heads'[k] # 0 /\ k # r.slot =>
          k \in Live /\ k # r.drop /\ cell'[active][heads'[k]] = Entry(k)
    BY <1>6, <1>7 DEF Live, Entry
  <2>2. \A k \in Slots : heads'[k] # 0 /\ k = r.slot => cell'[active][heads'[k]] = r /\ r.kind # 3
    BY <1>4, <1>6
  <2>3. CASE i # r.slot /\ j # r.slot
    BY <1>2, <2>1, <2>3, NamesDiffer
  <2>4. CASE i = r.slot /\ j # r.slot
    BY <1>4, <2>1, <2>2, <2>4
  <2>5. CASE j = r.slot /\ i # r.slot
    BY <1>4, <2>1, <2>2, <2>5
  <2>. QED  BY <2>3, <2>4, <2>5
<1>9. Sound(cell'[active], sector[active].base, cursor, heads')
  <2>1. Erased(cell'[active], tail + cell'[active][tail].span)
        /\ OneName(cell'[active], AfterRecord(heads, cell'[active][tail], tail))
    BY <1>4, <1>5, <1>8
  <2>2. Sound(cell'[active], sector[active].base, tail + cell'[active][tail].span,
              AfterRecord(heads, cell'[active][tail], tail))
    BY <1>3, <1>4, <2>1, SoundGrows
  <2>. QED  BY <1>4, <1>5, <2>2
<1>10. End(cell'[active]) = cursor /\ Index(cell'[active]) = heads'
  BY <1>3, <1>9, SoundIs
<1>11. active = Chosen' /\ Sealed(active)'
  BY <1>2, <1>3, StillChosen
<1>12. ResetFindsAll'
  <2>1. Sealed(Chosen)'
    BY <1>2, <1>11 DEF Sealed
  <2>2. Sound(cell'[active], sector'[active].base, End(cell'[active]), Index(cell'[active]))
    BY <1>2, <1>9, <1>10
  <2>. QED  BY <1>2, <1>11, <2>1, <2>2 DEF ResetFindsAll
<1>13. IndexIsReal'
  <2>1. tail' = End(cell'[active']) /\ heads' = Index(cell'[active']) /\ active' = Chosen'
    BY <1>2, <1>10, <1>11
  <2>2. generation' = sector'[active'].gen
    BY <1>2 DEF Durability, IndexIsReal
  <2>3. count' = Cardinality(Live')
    BY <1>2 DEF Live
  <2>. QED  BY <1>2, <2>1, <2>2, <2>3 DEF IndexIsReal
<1>14. ErasedAhead' /\ DraftIsTagged' /\ DraftReplaces' /\ CopyIsReal' /\ CommitIsRequested'
  <2>1. writer' = Idle /\ rotating' = FALSE /\ ~Building'
    BY <1>2 DEF Forget, Building
  <2>. QED  BY <1>2, <1>4, <2>1, NoCopy, NoCommit DEF ErasedAhead, DraftIsTagged, DraftReplaces
<1>15. JobIsAllowed'
  <2>1. CASE job' = NoJob
    BY <2>1 DEF NoJob, JobIsAllowed
  <2>2. CASE pc' = "scratch" /\ job' = job /\ job.op = "scratch"
    <3>1. r.kind = 3
      <4>1. writer = Idle
        BY <1>2, <2>2 DEF IndInv, RequestFitsBlock
      <4>2. NewRecord.kind = 3 /\ r = [NewRecord EXCEPT !.commit = TRUE] /\ NewRecord \in Record
        <5>1. NewRecord \in Record
          BY <1>2 DEF Durability, CommitIsRequested, IndInv, RequestFitsBlock, IsRecord
        <5>2. Entry(job.slot) \in Record
          <6>1. job.slot \in Live
            BY <1>2, <2>2, JobType DEF IndInv, TypeOK, SourcesExist, Live
          <6>. QED  BY <1>2, <6>1, LiveFiles
        <5>. QED  BY <1>1, <2>2, <5>1, <5>2 DEF Completes, NewRecord, Record
      <4>. QED  BY <4>2 DEF Record
    <3>2. \A i \in Live' : i \in Live /\ Entry(i)' = Entry(i)
      BY <1>2, <1>6, <1>7, <3>1 DEF Live, Entry
    <3>3. \A i \in Matching(job.names)' : i \in Matching(job.names) /\ Entry(i)' = Entry(i)
      BY <2>2, <3>2 DEF Matching
    <3>4. \A i \in Matching(job.names) : ~Entry(i).ro
      BY <2>2 DEF Durability, JobIsAllowed
    <3>5. \A i \in Matching(job.names)' : ~Entry(i)'.ro
      BY <3>3, <3>4
    <3>. QED  BY <2>2, <3>5 DEF JobIsAllowed
  <2>. QED  BY <1>2, <2>1, <2>2
<1>16. ReadersBehind'
  <2>1. \A f \in Channels : channels'[f].kind = 1 => channels'[f] = channels[f]
    BY <1>2 DEF Release, Closed
  <2>2. ASSUME NEW f \in Channels, channels'[f].kind = 1, channels'[f].side = active
        PROVE  channels'[f].off >= HEADER /\ channels'[f].off + channels'[f].len <= cursor
    <3>1. channels[f].off >= HEADER /\ channels[f].off + channels[f].len <= tail
      BY <2>1, <2>2 DEF Durability, ReadersBehind
    <3>2. channels[f].off \in Nat /\ channels[f].len \in Nat
      BY DEF IndInv, TypeOK
    <3>. QED  BY <1>3, <2>1, <2>2, <3>1, <3>2
  <2>. QED  BY <1>2, <2>1, <2>2 DEF ReadersBehind
<1>. QED  BY <1>12, <1>13, <1>14, <1>15, <1>16 DEF Durability

LEMMA RotatingCommitLasts ==
    ASSUME IndInv, SpaceInv, IndInv', Durability, Commit, rotating
    PROVE  Durability'
<1>1. PICK r : Completes(r)
  BY CommitCompletes
<1>2. /\ pc = "commit" /\ pc' = "seal" /\ sector' = sector /\ writer # Idle /\ ~failed
      /\ nextheads' = [nextheads EXCEPT ![wslot] = writebase]
      /\ UNCHANGED <<active, heads, tail, generation, count, dirty, writer, failed, rotating, wslot, newname,
                     target, writebase, cursor, data, channels, job>>
      /\ job.op \in {"close", "concat"}
  BY DEF Commit, indexVars, draftVars, IndInv, RotationIsAWrite, RequestFitsBlock
<1>3. /\ target # active /\ active \in Sides /\ target \in Sides /\ wslot \in Slots
      /\ nextheads \in [Slots -> Nat] /\ cell[target] \in Log /\ cell'[target] \in Log
      /\ writebase \in Nat /\ cursor \in Nat /\ HEADER \in Nat \ {0} /\ NoSlot \notin Slots
  <2>1. NoSlot \notin Slots
    BY JournalAssumption DEF NoSlot, Slots
  <2>. QED  BY <1>2, <2>1, OtherSide, JournalAssumption DEF IndInv, TypeOK, Rebuilding, Log
<1>4. /\ r = cell'[target][writebase] /\ r \in Record /\ Reads(cell'[target], writebase)
      /\ writebase + r.span = cursor /\ cell'[active] = cell[active]
      /\ Erased(cell'[target], cursor) /\ Same(cell[target], cell'[target], 0, writebase)
  BY <1>1, <1>3 DEF Completes
<1>5. Serviceable /\ Serviceable' /\ Building /\ Building' /\ NextEnd = writebase /\ NextEnd' = cursor
  BY <1>2 DEF Serviceable, Building, NextEnd
<1>6. LogStays
  BY <1>2, <1>4, <1>5, SameLog DEF LogStays
<1>7. ResetFindsAll' /\ IndexIsReal' /\ FilesStay
  BY <1>5, <1>6, StaysDurable DEF FilesStay
<1>8. /\ r.kind = 1 /\ r.slot = wslot /\ r.drop = NoSlot /\ r.name = newname /\ ~r.ro
      /\ r.off = writebase + HEADER /\ r.len = r.span - HEADER /\ r.crc = data
  <2>1. /\ NewRecord \in Record /\ r = [NewRecord EXCEPT !.commit = TRUE]
    BY <1>1, <1>2 DEF Completes, Durability, CommitIsRequested, IndInv, RequestFitsBlock, IsRecord
  <2>2. /\ NewRecord.kind = 1 /\ NewRecord.slot = wslot /\ NewRecord.drop = NoSlot /\ NewRecord.name = newname
        /\ NewRecord.ro = FALSE /\ NewRecord.off = writebase + HEADER
        /\ NewRecord.len = cursor - writebase - HEADER /\ NewRecord.crc = data
    BY <1>2 DEF NewRecord, Length
  <2>3. /\ r.kind = NewRecord.kind /\ r.slot = NewRecord.slot /\ r.drop = NewRecord.drop
        /\ r.name = NewRecord.name /\ r.ro = NewRecord.ro /\ r.off = NewRecord.off
        /\ r.len = NewRecord.len /\ r.crc = NewRecord.crc
    BY <2>1 DEF Record
  <2>4. r.span \in Nat
    BY <1>4, RecordType
  <2>. QED  BY <1>3, <1>4, <2>2, <2>3, <2>4
<1>9. Logged(cell[target], writebase, nextheads) /\ HEADER <= writebase
  BY <1>3, <1>5, LoggedIs DEF Durability, CopyIsReal
<1>10. Logged(cell'[target], cursor, nextheads')
  <2>1. nextheads' = AfterRecord(nextheads, r, writebase)
    <3>1. \A i \in Slots : nextheads'[i] = IF i = wslot THEN writebase ELSE nextheads[i]
      BY <1>2, <1>3
    <3>2. \A i \in Slots : nextheads'[i] = AfterRecord(nextheads, r, writebase)[i]
      BY <1>3, <1>8, <3>1 DEF AfterRecord
    <3>3. nextheads' = [i \in Slots |-> nextheads'[i]]
      BY <1>2, <1>3
    <3>4. AfterRecord(nextheads, r, writebase) = [i \in Slots |-> AfterRecord(nextheads, r, writebase)[i]]
      BY DEF AfterRecord
    <3>. QED  BY <3>2, <3>3, <3>4, Zenon
  <2>2. ~Reads(cell'[target], cursor)
    BY <1>3, <1>4, ErasedEnds
  <2>3. Logged(cell'[target], writebase + cell'[target][writebase].span,
               AfterRecord(nextheads, cell'[target][writebase], writebase))
    BY <1>3, <1>4, <1>9, <2>2, LoggedGrows
  <2>. QED  BY <1>4, <2>1, <2>3
<1>11. \A i \in Slots : nextheads'[i] = IF i = wslot THEN writebase ELSE nextheads[i]
  BY <1>2, <1>3
<1>12. \A o : o = writebase => IsDraft(o)'
  <2>1. Extract(cell'[target], r.off, r.len) = data
    BY <1>4, <1>8 DEF Reads
  <2>. QED  BY <1>2, <1>4, <1>8, <2>1 DEF IsDraft
<1>13. \A i \in Slots : nextheads[i] # 0 => i # wslot /\ SameFile(i, nextheads[i])
  BY <1>2, <1>5 DEF Durability, CopyIsReal
<1>14. \A i \in Slots : nextheads[i] # 0 => \A o : o = nextheads[i] => (SameFile(i, o) => SameFile(i, o)')
  BY <1>2, <1>4, <1>5, <1>6, <1>7, CopiesStay
<1>15. ASSUME NEW i \in Slots, NEW o, o = nextheads'[i], o # 0
       PROVE  IF i = wslot THEN IsDraft(o)' ELSE SameFile(i, o)'
  <2>1. CASE i = wslot
    BY <1>11, <1>12, <1>15, <2>1
  <2>2. CASE i # wslot
    <3>1. o = nextheads[i] /\ SameFile(i, o)
      BY <1>11, <1>13, <1>15, <2>2
    <3>. QED  BY <1>14, <1>15, <2>2, <3>1
  <2>. QED  BY <2>1, <2>2
<1>16. CopyIsReal'
  <2>1. \A i \in Live' : i # wslot => nextheads'[i] # 0
    BY <1>2, <1>7, <1>11 DEF Durability, CopyIsReal, FilesStay, Live
  <2>2. nextheads'[wslot] # 0
    BY <1>3, <1>9, <1>11
  <2>3. ASSUME NEW i \in Slots, nextheads'[i] # 0
        PROVE  IF i = wslot THEN IsDraft(nextheads[i])' ELSE SameFile(i, nextheads[i])'
    BY <1>15, <2>3 DEF IsDraft, SameFile
  <2>. QED  BY <1>2, <1>5, <1>10, <2>1, <2>2, <2>3 DEF CopyIsReal
<1>17. ErasedAhead'
  BY <1>2, <1>4 DEF ErasedAhead
<1>18. DraftIsTagged' /\ CommitIsRequested'
  BY <1>2 DEF DraftIsTagged, CommitIsRequested
<1>19. DraftReplaces' /\ JobIsAllowed' /\ ReadersBehind'
  BY <1>2, <1>7, DraftStays, JobStays, ReadersStay
<1>. QED  BY <1>7, <1>16, <1>17, <1>18, <1>19 DEF Durability

LEMMA CommitLasts ==
    ASSUME IndInv, SpaceInv, IndInv', Durability, Commit
    PROVE  Durability'
BY PlainCommitLasts, RotatingCommitLasts

-----------------------------------------------------------------------------
(* Compaction *)

LEMMA RebuildLasts ==
    ASSUME IndInv, IndInv', Durability,
           pc \in {"compact", "erase", "copy", "move", "seal"},
           pc' \in {"erase", "copy", "move", "seal", "activate", "payload"},
           cell'[active] = cell[active], sector'[active] = sector[active],
           sector'[1 - active] = sector[1 - active] \/ sector'[1 - active].state = "unsealed",
           UNCHANGED <<active, heads, tail, generation, count, dirty, writer, failed, wslot, newname, channels, job>>,
           rotating => rotating',
           rotating' /\ pc' \notin {"seal", "activate"} => cell'[target'][writebase'] = Tag,
           pc' # "erase" => Erased(cell'[target'], cursor'),
           CopyIsReal'
    PROVE  Durability'
<1>1. Serviceable /\ Serviceable'
  BY DEF Serviceable
<1>2. LogStays
  BY <1>1, SameLog DEF LogStays
<1>3. ResetFindsAll' /\ IndexIsReal' /\ FilesStay
  BY <1>1, <1>2, StaysDurable DEF FilesStay
<1>4. ErasedAhead'
  <2>1. ~dirty /\ writer = Idle => Erased(cell'[active], tail)
    BY <1>1 DEF Durability, ErasedAhead
  <2>. QED  BY <2>1 DEF ErasedAhead
<1>5. DraftIsTagged'
  <2>1. writer # Idle /\ ~rotating' => cell'[active][tail] = Tag
    BY DEF Durability, DraftIsTagged
  <2>. QED  BY <2>1 DEF DraftIsTagged
<1>6. DraftReplaces' /\ JobIsAllowed' /\ CommitIsRequested' /\ ReadersBehind'
  BY <1>3, DraftStays, JobStays, NoCommit, ReadersStay
<1>. QED  BY <1>3, <1>4, <1>5, <1>6 DEF Durability

LEMMA CompactBeginLasts ==
    ASSUME IndInv, SpaceInv, IndInv', Durability, CompactBegin
    PROVE  Durability'
<1>1. pc = "compact" /\ Serviceable /\ ~rotating
  BY DEF CompactBegin, Serviceable, SpaceInv, SpaceFits, WriteFits
<1>2. ASSUME NEW e, GiveUp(e), UNCHANGED flashVars PROVE Durability'
  <2>1. LogStays
    BY <1>1, <1>2, SameFlashStays DEF GiveUp
  <2>. QED  BY <1>1, <1>2, <2>1, GiveUpLasts DEF flashVars, Same
<1>3. CASE /\ pc' = "erase"
           /\ UNCHANGED <<flashVars, indexVars, draftVars, writebase, cursor, data, nextheads,
                          channels, job, error, localVars>>
  <2>1. CopyIsReal'
    BY <1>1, <1>3, NoCopy DEF Building, draftVars
  <2>. QED  BY <1>1, <1>3, <2>1, RebuildLasts DEF flashVars, indexVars, draftVars
<1>. QED  BY <1>2, <1>3 DEF CompactBegin

LEMMA BlankIsLogged == Logged(BlankLog, HEADER, NoHeads) /\ Erased(BlankLog, HEADER)
<1>1. HEADER \in Nat
  BY JournalAssumption
<1>2. Erased(BlankLog, HEADER)
  BY DEF Erased, BlankLog
<1>3. ~Reads(BlankLog, HEADER)
  BY <1>1, <1>2, ErasedEnds
<1>4. IsChain(BlankLog, {}, HEADER)
  BY <1>1 DEF IsChain, Stops
<1>5. Records(BlankLog) = {}
  BY <1>3, <1>4, BlankLogType, ChainIsRecords
<1>6. IsIndex(BlankLog, {}, NoHeads)
  BY DEF IsIndex, NoHeads
<1>. QED  BY <1>2, <1>3, <1>4, <1>5, <1>6 DEF Logged

LEMMA EraseLasts ==
    ASSUME IndInv, IndInv', Durability, Erase
    PROVE  Durability'
<1>1. /\ pc = "erase" /\ pc' = "copy" /\ ~rotating /\ ~rotating'
      /\ UNCHANGED <<active, heads, tail, generation, count, dirty, writer, failed, wslot, newname, channels, job,
                     target, writebase, data>>
      /\ cursor' = HEADER /\ nextheads' = NoHeads /\ at' = 0
  BY DEF Erase, indexVars, draftVars, IndInv, RotationIsAWrite
<1>2. target # active /\ target \in Sides /\ active \in Sides /\ target = 1 - active
  BY <1>1, OtherSide DEF Rebuilding
<1>3. /\ cell'[active] = cell[active] /\ sector'[active] = sector[active]
      /\ cell'[target] = BlankLog /\ sector'[target].state = "unsealed"
  BY <1>2 DEF Erase, NoSector, IndInv, TypeOK
<1>4. CopyIsReal'
  <2>1. NextEnd' = cursor'
    BY <1>1 DEF NextEnd
  <2>2. Logged(cell'[target], HEADER, nextheads')
    BY <1>1, <1>3, BlankIsLogged
  <2>3. \A i \in Slots : nextheads'[i] = 0
    BY <1>1 DEF NoHeads
  <2>4. \A i \in Slots : ~(i < 0)
    BY JournalAssumption DEF Slots
  <2>5. \A i \in Live' : ~(i < at')
    BY <1>1, <2>4 DEF Live
  <2>. QED  BY <1>1, <2>1, <2>2, <2>3, <2>5 DEF CopyIsReal
<1>. QED  BY <1>1, <1>2, <1>3, <1>4, BlankIsLogged, RebuildLasts

LEMMA HalfErasedStays ==
    ASSUME IndInv, pc = "erase", HalfErased(target)
    PROVE  /\ cell'[active] = cell[active] /\ sector'[active] = sector[active]
           /\ sector'[1 - active] = sector[1 - active] \/ sector'[1 - active].state = "unsealed"
<1>1. target # active /\ target \in Sides /\ active \in Sides /\ target = 1 - active
  BY OtherSide DEF Rebuilding
<1>2. cell'[active] = cell[active]
  BY <1>1, HalfErasedType DEF IndInv
<1>3. sector' = sector \/ sector' = [sector EXCEPT ![target] = NoSector]
  BY DEF HalfErased, flashVars
<1>. QED  BY <1>1, <1>2, <1>3 DEF IndInv, TypeOK, NoSector

LEMMA EraseFailsLasts ==
    ASSUME IndInv, IndInv', Durability, EraseFails
    PROVE  Durability'
<1>1. pc = "erase" /\ Serviceable /\ ~rotating /\ GiveUp(25)
  BY DEF EraseFails, Serviceable, IndInv, RotationIsAWrite
<1>2. /\ cell'[active] = cell[active] /\ sector'[active] = sector[active]
      /\ sector'[1 - active] = sector[1 - active] \/ sector'[1 - active].state = "unsealed"
  BY <1>1, HalfErasedStays DEF EraseFails
<1>3. LogStays
  BY <1>1, <1>2, SameLog DEF LogStays, GiveUp
<1>. QED  BY <1>1, <1>2, <1>3, GiveUpLasts

LEMMA CompactFailsLasts ==
    ASSUME IndInv, IndInv', Durability, CompactFails
    PROVE  Durability'
<1>1. pc \in {"copy", "move", "seal", "activate"} /\ Serviceable /\ GiveUp(25) /\ UNCHANGED flashVars
  BY DEF CompactFails, Serviceable
<1>2. LogStays
  BY <1>1, SameFlashStays DEF GiveUp
<1>. QED  BY <1>1, <1>2, GiveUpLasts DEF flashVars, Same

LEMMA MoveLasts ==
    ASSUME IndInv, IndInv', SpaceInv', Durability, Move
    PROVE  Durability'
<1>1. /\ pc = "move" /\ Serviceable /\ writer # Idle /\ ~rotating /\ sector' = sector
      /\ cell' = [cell EXCEPT ![target] = MovedTo(@)]
  BY DEF Move, Serviceable, IndInv, RotationIsAWrite, RequestFitsBlock
<1>2. /\ target # active /\ target \in Sides /\ active \in Sides /\ cell \in [Sides -> Log]
      /\ cursor \in Nat /\ HEADER \in Nat \ {0} /\ LIMIT \in Nat /\ Len(data) \in Nat /\ partoff \in Nat
  BY <1>1, OtherSide, JournalAssumption, LenProperties DEF Rebuilding, IndInv, TypeOK, Log
<1>3. cell'[target] = MovedTo(cell[target]) /\ cell'[active] = cell[active]
  BY <1>1, <1>2
<1>4. CASE GiveUp(25)
  <2>1. LogStays
    BY <1>1, <1>3, <1>4, SameLog DEF LogStays, GiveUp
  <2>. QED  BY <1>1, <1>3, <1>4, <2>1, GiveUpLasts
<1>5. CASE /\ rotating' = TRUE /\ writebase' = cursor /\ cursor' = cursor + HEADER + Len(data)
           /\ pc' = "payload"
           /\ UNCHANGED <<indexVars, writer, failed, wslot, newname, oldlen, target, data,
                          nextheads, channels, job, error>>
  <2>1. cursor \in Offsets /\ \A o \in Offsets : o \in Nat
    <3>1. cursor' <= LIMIT
      BY DEF SpaceInv, SpaceFits, CursorInSector
    <3>. QED  BY <1>2, <1>5, <3>1 DEF Offsets
  <2>. DEFINE log == Programmed(cell[target], cursor + HEADER, Moved)
  <2>2. Moved \in Seq(Values) /\ Len(Moved) = Len(data)
    BY <1>2, StoredType DEF Moved
  <2>3. Erased(cell[target], cursor) /\ Erased(cell[target], cursor + HEADER)
    BY <1>1, <1>2, <2>1 DEF Durability, ErasedAhead, Erased
  <2>4. /\ log \in Log /\ \A o \in Offsets : o < cursor + HEADER => log[o] = cell[target][o]
        /\ Erased(log, cursor + HEADER + Len(data))
    <3>1. cursor + HEADER \in Nat /\ cell[target] \in Log
      BY <1>2
    <3>2. Erased(log, cursor + HEADER + Len(Moved))
      BY <2>2, <2>3, <3>1, ProgrammedIs
    <3>. QED  BY <2>2, <2>3, <3>1, <3>2, ProgrammedIs
  <2>5. cell'[target] = [log EXCEPT ![cursor] = Over(@, Tag)]
    BY <1>3 DEF MovedTo
  <2>. HIDE DEF log
  <2>6. /\ \A o \in Offsets : cell'[target][o] = IF o = cursor THEN Over(log[cursor], Tag) ELSE log[o]
        /\ cell'[target] \in Log
    BY <2>4, <2>5 DEF Log, IndInv, TypeOK
  <2>7. cell'[target][cursor] = Tag
    <3>1. log[cursor] = Blank
      BY <1>2, <2>1, <2>3, <2>4 DEF Erased
    <3>. QED  BY <2>1, <2>6, <3>1 DEF Over
  <2>8. Erased(cell'[target], cursor')
    BY <1>2, <1>5, <2>1, <2>4, <2>6 DEF Erased
  <2>9. Same(cell[target], cell'[target], 0, cursor)
    BY <1>2, <2>1, <2>4, <2>6 DEF Same
  <2>10. Building /\ NextEnd = cursor /\ Building' /\ NextEnd' = cursor
    BY <1>1, <1>5 DEF Building, NextEnd
  <2>11. LogStays /\ FilesStay
    <3>1. LogStays
      BY <1>1, <1>3, <1>5, SameLog DEF LogStays, indexVars
    <3>2. Serviceable'
      BY <1>5 DEF Serviceable
    <3>. QED  BY <1>1, <3>1, <3>2, StaysDurable DEF FilesStay
  <2>12. Logged(cell'[target], cursor, nextheads)
    <3>1. Logged(cell[target], cursor, nextheads) /\ cell[target] \in Log
      BY <1>2, <2>10 DEF Durability, CopyIsReal
    <3>2. ~Reads(cell'[target], cursor)
      BY <2>7 DEF Reads, Tag
    <3>. QED  BY <2>6, <2>9, <3>1, <3>2, LoggedSame
  <2>13. CopyIsReal'
    <3>1. \A i \in Slots : nextheads[i] # 0 => i # wslot /\ SameFile(i, nextheads[i])
      BY <1>1, <2>10 DEF Durability, CopyIsReal
    <3>2. \A i \in Slots : nextheads[i] # 0 => \A o : o = nextheads[i] => (SameFile(i, o) => SameFile(i, o)')
      BY <1>1, <1>5, <2>9, <2>10, <2>11, CopiesStay
    <3>3. ASSUME NEW i \in Slots, NEW o, o = nextheads[i], o # 0 PROVE i # wslot /\ SameFile(i, o)'
      BY <3>1, <3>2, <3>3
    <3>4. \A i \in Slots : nextheads[i] # 0 => i # wslot /\ SameFile(i, nextheads[i])'
      BY <1>5, <3>3 DEF SameFile
    <3>5. \A i \in Live : i # wslot => nextheads[i] # 0
      BY <1>1 DEF Durability, CopyIsReal
    <3>. QED  BY <1>5, <2>10, <2>11, <2>12, <3>4, <3>5 DEF CopyIsReal, FilesStay
  <2>. QED  BY <1>1, <1>3, <1>5, <2>7, <2>8, <2>13, RebuildLasts DEF indexVars
<1>. QED  BY <1>4, <1>5 DEF Move

LEMMA SealLasts ==
    ASSUME IndInv, IndInv', Durability, Seal
    PROVE  Durability'
<1>1. /\ pc = "seal" /\ pc' = "activate" /\ Serviceable /\ Serviceable' /\ cell' = cell
      /\ sector' = [sector EXCEPT ![target] = [state |-> "unsealed", base |-> cursor, gen |-> NextGeneration]]
      /\ UNCHANGED <<indexVars, draftVars, cursorVars, channels, job, error, localVars>>
  BY DEF Seal, Serviceable
<1>2. target # active /\ target \in Sides /\ active \in Sides /\ target = 1 - active
  BY <1>1, OtherSide DEF Rebuilding
<1>3. /\ sector'[active] = sector[active]
      /\ sector'[target] = [state |-> "unsealed", base |-> cursor, gen |-> NextGeneration]
  BY <1>1, <1>2 DEF IndInv, TypeOK
<1>4. Erased(cell[target], cursor)
  BY <1>1 DEF Durability, ErasedAhead
<1>5. CopyIsReal'
  <2>1. Building /\ Building' /\ NextEnd' = NextEnd
    BY <1>1 DEF Building, NextEnd, cursorVars, draftVars
  <2>2. LogStays /\ FilesStay
    <3>1. LogStays
      BY <1>1, <1>2, <1>3, SameLog DEF LogStays, indexVars
    <3>. QED  BY <1>1, <3>1, StaysDurable DEF FilesStay
  <2>3. \A i \in Slots : nextheads[i] # 0 => \A o : o = nextheads[i] =>
          (SameFile(i, o) => SameFile(i, o)') /\ (IsDraft(o) => IsDraft(o)')
    BY <1>1, <2>1, <2>2, CopiesStay DEF Same, cursorVars, draftVars
  <2>4. \A i \in Slots : nextheads[i] # 0 =>
          IF writer # Idle /\ i = wslot THEN IsDraft(nextheads[i]) ELSE SameFile(i, nextheads[i])
    BY <2>1 DEF Durability, CopyIsReal
  <2>5. ASSUME NEW i \in Slots, NEW o, o = nextheads[i], o # 0
        PROVE  IF writer # Idle /\ i = wslot THEN IsDraft(o)' ELSE SameFile(i, o)'
    BY <2>3, <2>4, <2>5
  <2>6. \A i \in Slots : nextheads[i] # 0 =>
          IF writer # Idle /\ i = wslot THEN IsDraft(nextheads[i])' ELSE SameFile(i, nextheads[i])'
    BY <1>1, <2>5 DEF SameFile, IsDraft, cursorVars
  <2>7. NextGeneration' = NextGeneration
    BY <1>1 DEF NextGeneration, indexVars
  <2>8. writer # Idle => nextheads[wslot] # 0 /\ \A i \in Live : i # wslot => nextheads[i] # 0
    BY <1>1 DEF Durability, CopyIsReal
  <2>9. Logged(cell[target], NextEnd, nextheads)
    BY <2>1 DEF Durability, CopyIsReal
  <2>. QED  BY <1>1, <1>3, <2>1, <2>2, <2>6, <2>7, <2>8, <2>9 DEF CopyIsReal, FilesStay, cursorVars, draftVars
<1>. QED  BY <1>1, <1>2, <1>3, <1>4, <1>5, RebuildLasts DEF indexVars, draftVars, cursorVars

LEMMA CopyEndsLasts ==
    ASSUME IndInv, IndInv', Durability, CopyNext, ToCopy = {}
    PROVE  Durability'
<1>1. /\ pc = "copy" /\ pc' = (IF writer # Idle THEN "move" ELSE "seal") /\ Serviceable /\ Serviceable'
      /\ UNCHANGED <<cell, cursor, nextheads, sector, indexVars, draftVars, target, writebase, data, channels, job>>
      /\ ~rotating
  BY DEF CopyNext, Serviceable, IndInv, RotationIsAWrite
<1>2. target # active /\ target \in Sides /\ active \in Sides /\ target = 1 - active
  BY <1>1, OtherSide DEF Rebuilding
<1>3. Erased(cell[target], cursor)
  BY <1>1 DEF Durability, ErasedAhead
<1>4. Building /\ Building' /\ NextEnd' = NextEnd
  BY <1>1 DEF Building, NextEnd, draftVars
<1>5. LogStays /\ FilesStay
  <2>1. LogStays
    BY <1>1, <1>2, SameLog DEF LogStays, indexVars
  <2>. QED  BY <1>1, <2>1, StaysDurable DEF FilesStay
<1>6. \A i \in Slots : nextheads[i] # 0 => \A o : o = nextheads[i] => (SameFile(i, o) => SameFile(i, o)')
  BY <1>1, <1>4, <1>5, CopiesStay DEF Same
<1>7. \A i \in Slots : nextheads[i] # 0 => ~(writer # Idle /\ i = wslot) /\ SameFile(i, nextheads[i])
  BY <1>1, <1>4 DEF Durability, CopyIsReal
<1>8. ASSUME NEW i \in Slots, NEW o, o = nextheads[i], o # 0
      PROVE  ~(writer # Idle /\ i = wslot) /\ SameFile(i, o)'
  BY <1>6, <1>7, <1>8
<1>9. \A i \in Slots : nextheads[i] # 0 => ~(writer # Idle /\ i = wslot) /\ SameFile(i, nextheads[i])'
  BY <1>1, <1>8 DEF SameFile
<1>10. writer # Idle => \A i \in Live : i # wslot => nextheads[i] # 0
  <2>1. at \in Nat /\ Slots \subseteq Nat
    BY JournalAssumption DEF IndInv, TypeOK, Slots
  <2>2. writer # Idle => \A i \in Live : i < at /\ i # wslot => nextheads[i] # 0
    BY <1>1 DEF Durability, CopyIsReal
  <2>3. \A i \in Live : writer # Idle /\ i # wslot => i < at
    BY <2>1 DEF ToCopy, Live
  <2>. QED  BY <2>2, <2>3
<1>11. Logged(cell[target], NextEnd, nextheads)
  BY <1>4 DEF Durability, CopyIsReal
<1>12. CopyIsReal'
  BY <1>1, <1>4, <1>5, <1>9, <1>10, <1>11 DEF CopyIsReal, FilesStay, draftVars
<1>. QED  BY <1>1, <1>2, <1>3, <1>12, RebuildLasts DEF indexVars, draftVars

(* A file is copied: a record r of its own, with its contents. *)
Copies(i, r) ==
    /\ i \in Slots /\ i \in Live /\ i >= at /\ ~(writer # Idle /\ i = wslot) /\ \A j \in ToCopy : i <= j
    /\ at' = i + 1 /\ nextheads' = [nextheads EXCEPT ![i] = cursor]
    /\ cell'[active] = cell[active]
    /\ r = cell'[target][cursor] /\ cursor + r.span = cursor' /\ Reads(cell'[target], cursor)
    /\ r.kind = 1 /\ r.slot = i /\ r.drop = NoSlot /\ r.name = Entry(i).name /\ r.ro = Entry(i).ro
    /\ Extract(cell'[target], r.off, r.len) = Extract(cell[active], Entry(i).off, Entry(i).len)
    /\ Same(cell[target], cell'[target], 0, cursor) /\ Erased(cell'[target], cursor')

LEMMA CopyPlace ==
    ASSUME IndInv, SpaceInv, IndInv', SpaceInv', pc = "copy", NEW i \in Live,
           cursor' = cursor + HEADER + Entry(i).len
    PROVE  /\ Entry(i) \in Record /\ Entry(i).len \in Nat /\ Entry(i).commit /\ Entry(i).len <= CAPACITY
           /\ Contents(i) \in Seq(Values) /\ Len(Contents(i)) = Entry(i).len
           /\ Contents(i) = Extract(cell[active], Entry(i).off, Entry(i).len)
           /\ cursor' <= LIMIT /\ cursor \in Nat /\ cursor \in Offsets /\ cursor <= LIMIT - HEADER
           /\ cursor + HEADER \in Nat /\ cursor' \in Nat
<1>1. /\ Entry(i) \in Record /\ Entry(i).len \in Nat
      /\ Contents(i) \in Seq(Values) /\ Len(Contents(i)) = Entry(i).len
      /\ Contents(i) = Extract(cell[active], Entry(i).off, Entry(i).len)
  BY EntryType, RecordType, StoredIs, StoredType DEF Contents, IndInv
<1>2. Entry(i).commit
  BY DEF SpaceInv, SpaceFits, SlotsMatch
<1>3. Entry(i).len <= CAPACITY
  <2>1. i \in Slots /\ heads[i] # 0
    BY DEF Live
  <2>2. Lens \in [Slots -> Nat] /\ Lens[i] = Entry(i).len
    BY <2>1, LensType DEF Lens, LenOf
  <2>3. Sum(Lens) <= CAPACITY
    BY DEF SpaceInv, SpaceFits, TotalsKept
  <2>4. Lens[i] <= Sum(Lens) /\ Sum(Lens) \in Nat
    BY <2>1, <2>2, SumMember, SumType
  <2>. QED  BY <1>1, <2>2, <2>3, <2>4, JournalAssumption
<1>4. cursor' <= LIMIT /\ cursor \in Nat
  BY DEF SpaceInv, SpaceFits, CursorInSector, IndInv, TypeOK
<1>. QED  BY <1>1, <1>2, <1>3, <1>4, JournalAssumption DEF Offsets

LEMMA CopyOneReads ==
    ASSUME IndInv, SpaceInv, IndInv', SpaceInv', CopyNext, ToCopy # {}, Erased(cell[target], cursor), HEADER <= cursor
    PROVE  \E i, r : Copies(i, r)
<1>1. PICK i \in Slots :
        /\ First(i, ToCopy)
        /\ cell' = [cell EXCEPT ![target] = Copied(@, cursor, i, Contents(i))]
        /\ nextheads' = [nextheads EXCEPT ![i] = cursor]
        /\ cursor' = cursor + HEADER + Entry(i).len
        /\ at' = i + 1
  BY DEF CopyNext
<1>2. pc = "copy"
  BY DEF CopyNext
<1>3. /\ target # active /\ target \in Sides /\ active \in Sides /\ cell \in [Sides -> Log]
      /\ HEADER \in Nat \ {0} /\ LIMIT \in Nat /\ NoSlot \notin Slots
  <2>1. NoSlot \notin Slots
    BY JournalAssumption DEF NoSlot, Slots
  <2>. QED  BY <1>2, <2>1, OtherSide, JournalAssumption DEF Rebuilding, IndInv, TypeOK, Log
<1>4. i \in Live /\ i >= at /\ ~(writer # Idle /\ i = wslot) /\ \A j \in ToCopy : i <= j
  BY <1>1 DEF First, ToCopy
<1>5. /\ Entry(i) \in Record /\ Entry(i).len \in Nat /\ Entry(i).commit /\ Entry(i).len <= CAPACITY
      /\ Contents(i) \in Seq(Values) /\ Len(Contents(i)) = Entry(i).len
      /\ Contents(i) = Extract(cell[active], Entry(i).off, Entry(i).len)
      /\ cursor' <= LIMIT /\ cursor \in Nat /\ cursor \in Offsets /\ cursor <= LIMIT - HEADER
      /\ cursor + HEADER \in Nat /\ cursor' \in Nat
  BY <1>1, <1>2, <1>4, CopyPlace
<1>6. Erased(cell[target], cursor + HEADER)
  <2>1. \A o \in Offsets : o >= cursor + HEADER => o >= cursor
    BY <1>3, <1>5 DEF Offsets
  <2>. QED  BY <2>1 DEF Erased
<1>. DEFINE log == Programmed(cell[target], cursor + HEADER, Contents(i))
            r == [Entry(i) EXCEPT !.kind = 1, !.drop = NoSlot, !.slot = i, !.off = cursor + HEADER,
                                  !.len = Len(Contents(i)), !.span = HEADER + Len(Contents(i)),
                                  !.crc = Contents(i)]
<1>7. /\ r.k = "rec" /\ r.commit /\ r.kind = 1 /\ r.drop = NoSlot /\ r.slot = i
      /\ r.len = Entry(i).len /\ r.span = HEADER + Entry(i).len /\ r.off = cursor + HEADER
      /\ r.name = Entry(i).name /\ r.ro = Entry(i).ro /\ r.crc = Contents(i)
  BY <1>5 DEF Record
<1>8. /\ log \in Log /\ \A o \in Offsets : o < cursor + HEADER => log[o] = cell[target][o]
      /\ Erased(log, cursor + HEADER + Entry(i).len)
      /\ Extract(log, cursor + HEADER, Entry(i).len) = Contents(i)
  <2>1. cell[target] \in Log /\ cursor + HEADER + Entry(i).len <= LIMIT
    BY <1>1, <1>3, <1>5
  <2>2. /\ log \in Log /\ \A o \in Offsets : o < cursor + HEADER => log[o] = cell[target][o]
        /\ Erased(log, cursor + HEADER + Len(Contents(i)))
    BY <1>5, <1>6, <2>1, ProgrammedIs
  <2>3. Extract(log, cursor + HEADER, Len(Contents(i))) = Contents(i)
    BY <1>5, <1>6, <2>1, ProgrammedIs
  <2>. HIDE DEF log
  <2>. QED  BY <1>5, <2>2, <2>3
<1>9. cell' = [cell EXCEPT ![target] = [log EXCEPT ![cursor] = r]]
  BY <1>1 DEF Copied
<1>. HIDE DEF log, r
<1>10. /\ cell'[active] = cell[active] /\ cell'[target][cursor] = r
       /\ \A o \in Offsets : o # cursor => cell'[target][o] = log[o]
  BY <1>3, <1>5, <1>8, <1>9 DEF Log
<1>11. Same(cell[target], cell'[target], 0, cursor) /\ Erased(cell'[target], cursor')
  <2>1. \A o \in Offsets : (o < cursor => o < cursor + HEADER /\ o # cursor) /\ (o >= cursor' => o # cursor)
    BY <1>1, <1>3, <1>5 DEF Offsets
  <2>2. Erased(log, cursor')
    BY <1>1, <1>8
  <2>. QED  BY <1>8, <1>10, <2>1, <2>2 DEF Same, Erased
<1>12. Extract(cell'[target], r.off, r.len) = Contents(i)
  <2>1. \A o \in Offsets : cursor + HEADER <= o => o # cursor
    BY <1>3, <1>5 DEF Offsets
  <2>2. Same(log, cell'[target], cursor + HEADER, cursor + HEADER + Entry(i).len)
    BY <1>10, <2>1 DEF Same
  <2>3. Extract(cell'[target], cursor + HEADER, Entry(i).len) = Extract(log, cursor + HEADER, Entry(i).len)
    <3>1. cursor + HEADER \in Nat /\ Entry(i).len \in Nat
      BY <1>5
    <3>. QED  BY <2>2, <3>1, ExtractSame
  <2>. QED  BY <1>7, <1>8, <2>3
<1>13. Reads(cell'[target], cursor) /\ cursor + r.span = cursor'
  <2>1. /\ r.slot # r.drop /\ r.len <= CAPACITY /\ r.len = r.span - HEADER /\ r.span >= HEADER
        /\ cursor + r.span = cursor' /\ r = cell'[target][cursor]
    BY <1>1, <1>3, <1>4, <1>5, <1>7, <1>10
  <2>2. Extract(cell'[target], cursor + HEADER, r.span - HEADER) = r.crc
    BY <1>7, <1>12, <2>1
  <2>. QED  BY <1>5, <1>7, <2>1, <2>2, ReadsIs
<1>14. r = cell'[target][cursor] /\ Extract(cell'[target], r.off, r.len) = Extract(cell[active], Entry(i).off, Entry(i).len)
  BY <1>5, <1>10, <1>12
<1>15. Copies(i, r)
  BY <1>1, <1>4, <1>7, <1>10, <1>11, <1>13, <1>14 DEF Copies
<1>. QED  BY <1>15

LEMMA CopyOneLasts ==
    ASSUME IndInv, SpaceInv, IndInv', SpaceInv', Durability, CopyNext, ToCopy # {}
    PROVE  Durability'
<1>1. /\ pc = "copy" /\ pc' = "copy" /\ Serviceable /\ Serviceable' /\ ~rotating
      /\ UNCHANGED <<sector, indexVars, draftVars, target, writebase, data, channels, job>>
  BY DEF CopyNext, Serviceable, IndInv, RotationIsAWrite
<1>2. /\ target # active /\ target \in Sides /\ active \in Sides /\ target = 1 - active /\ cell \in [Sides -> Log]
      /\ cell' \in [Sides -> Log] /\ cursor \in Nat /\ cursor' \in Nat /\ at \in Nat
      /\ nextheads \in [Slots -> Nat] /\ nextheads' \in [Slots -> Nat]
      /\ HEADER \in Nat \ {0} /\ Slots \subseteq Nat /\ NoSlot \notin Slots
  <2>1. NoSlot \notin Slots /\ Slots \subseteq Nat
    BY JournalAssumption DEF NoSlot, Slots
  <2>. QED  BY <1>1, <2>1, OtherSide, JournalAssumption DEF Rebuilding, IndInv, TypeOK, Log
<1>3. Building /\ Building' /\ NextEnd = cursor /\ NextEnd' = cursor'
  BY <1>1 DEF Building, NextEnd, draftVars
<1>4. Erased(cell[target], cursor) /\ Logged(cell[target], cursor, nextheads) /\ HEADER <= cursor
  <2>1. Erased(cell[target], cursor)
    BY <1>1 DEF Durability, ErasedAhead
  <2>2. Logged(cell[target], cursor, nextheads)
    BY <1>3 DEF Durability, CopyIsReal
  <2>. QED  BY <1>2, <2>1, <2>2, LoggedIs
<1>5. PICK i, r : Copies(i, r)
  BY <1>4, CopyOneReads
<1>6. /\ i \in Slots /\ i \in Live /\ i >= at /\ ~(writer # Idle /\ i = wslot) /\ \A j \in ToCopy : i <= j
      /\ at' = i + 1 /\ cell'[active] = cell[active]
      /\ \A j \in Slots : nextheads'[j] = IF j = i THEN cursor ELSE nextheads[j]
  BY <1>2, <1>5 DEF Copies
<1>7. /\ r = cell'[target][cursor] /\ cursor + r.span = cursor' /\ Reads(cell'[target], cursor)
      /\ r.kind = 1 /\ r.slot = i /\ r.drop = NoSlot /\ r.name = Entry(i).name /\ r.ro = Entry(i).ro
      /\ Extract(cell'[target], r.off, r.len) = Extract(cell[active], Entry(i).off, Entry(i).len)
      /\ Same(cell[target], cell'[target], 0, cursor) /\ Erased(cell'[target], cursor')
  BY <1>5 DEF Copies
<1>8. Logged(cell'[target], cursor', nextheads')
  <2>1. nextheads' = AfterRecord(nextheads, r, cursor)
    <3>1. \A j \in Slots : nextheads'[j] = AfterRecord(nextheads, r, cursor)[j]
      BY <1>2, <1>6, <1>7 DEF AfterRecord
    <3>2. nextheads' = [j \in Slots |-> nextheads'[j]]
      BY <1>2
    <3>3. AfterRecord(nextheads, r, cursor) = [j \in Slots |-> AfterRecord(nextheads, r, cursor)[j]]
      BY DEF AfterRecord
    <3>. QED  BY <3>1, <3>2, <3>3, Zenon
  <2>2. ~Reads(cell'[target], cursor')
    BY <1>2, <1>7, ErasedEnds
  <2>3. Logged(cell'[target], cursor + cell'[target][cursor].span,
               AfterRecord(nextheads, cell'[target][cursor], cursor))
    <3>1. cell[target] \in Log /\ cell'[target] \in Log
      BY <1>2
    <3>. QED  BY <1>4, <1>7, <2>2, <3>1, LoggedGrows
  <2>. QED  BY <1>7, <2>1, <2>3
<1>9. LogStays /\ FilesStay
  <2>1. LogStays
    BY <1>1, <1>6, SameLog DEF LogStays, indexVars
  <2>. QED  BY <1>1, <2>1, StaysDurable DEF FilesStay
<1>10. \A o : o = cursor => SameFile(i, o)'
  <2>1. /\ i \in Live' /\ Entry(i)' = Entry(i) /\ target' = target /\ active' = active
    BY <1>1, <1>6, <1>9 DEF FilesStay, indexVars
  <2>. QED  BY <1>6, <1>7, <2>1 DEF SameFile
<1>11. \A j \in Slots : nextheads[j] # 0 => ~(writer # Idle /\ j = wslot) /\ SameFile(j, nextheads[j])
  BY <1>1, <1>3 DEF Durability, CopyIsReal
<1>12. \A j \in Slots : nextheads[j] # 0 => \A o : o = nextheads[j] => (SameFile(j, o) => SameFile(j, o)')
  BY <1>1, <1>3, <1>7, <1>9, CopiesStay
<1>13. ASSUME NEW j \in Slots, NEW o, o = nextheads'[j], o # 0
       PROVE  ~(writer # Idle /\ j = wslot) /\ SameFile(j, o)'
  <2>1. CASE j = i
    BY <1>6, <1>10, <1>13, <2>1
  <2>2. CASE j # i
    <3>1. o = nextheads[j] /\ SameFile(j, o) /\ ~(writer # Idle /\ j = wslot)
      BY <1>6, <1>11, <1>13, <2>2
    <3>. QED  BY <1>12, <1>13, <2>2, <3>1
  <2>. QED  BY <2>1, <2>2
<1>14. CopyIsReal'
  <2>1. \A j \in Slots : nextheads'[j] # 0 => ~(writer # Idle /\ j = wslot) /\ SameFile(j, nextheads[j])'
    BY <1>13 DEF SameFile
  <2>2. writer # Idle => \A j \in Live : j < at' /\ j # wslot => nextheads'[j] # 0
    <3>1. writer # Idle => \A j \in Live : j < at /\ j # wslot => nextheads[j] # 0
      BY <1>1 DEF Durability, CopyIsReal
    <3>2. ASSUME NEW j \in Live, j < at', writer # Idle, j # wslot PROVE nextheads'[j] # 0
      <4>1. j \in Slots /\ j \in Nat /\ i \in Nat /\ j <= i
        BY <1>2, <1>6, <3>2 DEF Live
      <4>2. CASE j = i
        BY <1>2, <1>4, <1>6, <4>1, <4>2
      <4>3. CASE j # i
        <5>1. j \notin ToCopy
          BY <1>6, <4>1, <4>3
        <5>2. j < at
          BY <1>2, <3>2, <4>1, <5>1 DEF ToCopy
        <5>. QED  BY <1>6, <3>1, <3>2, <4>1, <4>3, <5>2
      <4>. QED  BY <4>2, <4>3
    <3>. QED  BY <3>2
  <2>. QED  BY <1>1, <1>3, <1>8, <1>9, <2>1, <2>2 DEF CopyIsReal, FilesStay, draftVars
<1>. QED  BY <1>1, <1>2, <1>6, <1>7, <1>14, RebuildLasts DEF indexVars, draftVars

LEMMA CopyNextLasts ==
    ASSUME IndInv, SpaceInv, IndInv', SpaceInv', Durability, CopyNext
    PROVE  Durability'
BY CopyEndsLasts, CopyOneLasts

(* The generation after g is the newer one, wherever the count wraps. *)
LEMMA Remainders ==
    ASSUME NEW n \in Nat, n >= 4, NEW g \in 0..(n - 1)
    PROVE  /\ (((g + 1) % n) - g) % n = 1
           /\ (g - ((g + 1) % n)) % n = n - 1
           /\ 1 < n \div 2 /\ ~(n - 1 < n \div 2)
OBVIOUS

LEMMA NewSideIsChosen ==
    ASSUME IndInv, Durability, Activate, NEW s \in Sides, s = target
    PROVE  s = Chosen' /\ Sealed(s)' /\ sector'[s].base = cursor /\ sector'[s].gen = NextGeneration
<1>1. pc = "activate" /\ Serviceable /\ sector' = [sector EXCEPT ![target].state = "sealed"]
  BY DEF Activate, Serviceable
<1>. DEFINE r == 1 - s
<1>2. /\ r = active /\ r # s /\ r \in Sides /\ s = 1 - r
      /\ Sealed(r) /\ generation = sector[r].gen /\ generation \in 0..(GENERATIONS - 1)
      /\ sector[s].gen = NextGeneration /\ sector[s].base = cursor
      /\ GENERATIONS \in Nat /\ GENERATIONS >= 4
  <2>1. generation = sector[active].gen /\ sector[s].gen = NextGeneration /\ sector[s].base = cursor
    BY <1>1 DEF Durability, IndexIsReal, CopyIsReal, Serviceable
  <2>2. r = active /\ r # s /\ r \in Sides /\ s = 1 - r
    BY <1>1, OtherSide DEF Rebuilding, Sides
  <2>. QED  BY <1>1, <2>1, <2>2, ActiveLog, JournalAssumption DEF IndInv, TypeOK
<1>. HIDE DEF r
<1>3. /\ sector'[r] = sector[r] /\ sector'[s].base = cursor
      /\ sector'[s].gen = NextGeneration /\ sector'[s].state = "sealed"
  BY <1>1, <1>2 DEF IndInv, TypeOK
<1>4. Sealed(s)' /\ Sealed(r)'
  BY <1>2, <1>3 DEF Sealed
<1>5. Newer(s, r)' /\ ~Newer(r, s)'
  BY <1>2, <1>3, Remainders DEF Newer, NextGeneration
<1>6. CASE s = 1
  <2>1. r = 0
    BY <1>2, <1>6
  <2>. QED  BY <1>3, <1>4, <1>5, <1>6, <2>1 DEF Chosen
<1>7. CASE s = 0
  <2>1. r = 1
    BY <1>2, <1>7
  <2>. QED  BY <1>3, <1>4, <1>5, <1>7, <2>1 DEF Chosen
<1>. QED  BY <1>6, <1>7 DEF Sides

LEMMA CopyIsSound ==
    ASSUME IndInv, Durability, pc = "activate"
    PROVE  /\ Sound(cell[target], cursor, cursor, nextheads) /\ Erased(cell[target], cursor)
           /\ writer = Idle => /\ \A i \in Slots : nextheads[i] # 0 <=> i \in Live
                               /\ \A i \in Live : /\ cell[target][nextheads[i]].name = Entry(i).name
                                                  /\ cell[target][nextheads[i]].ro = Entry(i).ro
<1>1. Serviceable /\ Building /\ NextEnd = cursor
  BY DEF Serviceable, Building, NextEnd
<1>2. Logged(cell[target], cursor, nextheads)
  BY <1>1 DEF Durability, CopyIsReal
<1>3. Erased(cell[target], cursor)
  BY DEF Durability, ErasedAhead
<1>4. \A i \in Slots : nextheads[i] # 0 =>
        IF writer # Idle /\ i = wslot THEN IsDraft(nextheads[i]) ELSE SameFile(i, nextheads[i])
  BY <1>1 DEF Durability, CopyIsReal
<1>5. cursor \in Stops(cell[target], Records(cell[target]))
  BY <1>2 DEF Logged, IsChain
<1>6. OneName(cell[target], nextheads)
  <2>. SUFFICES ASSUME NEW i \in Slots, NEW j \in Slots, nextheads[i] # 0, nextheads[j] # 0,
                       cell[target][nextheads[i]].name = cell[target][nextheads[j]].name
                PROVE  i = j
    BY DEF OneName
  <2>1. ASSUME NEW k \in Slots, nextheads[k] # 0, ~(writer # Idle /\ k = wslot)
        PROVE  k \in Live /\ cell[target][nextheads[k]].name = Entry(k).name
    BY <1>4, <2>1 DEF SameFile
  <2>2. ASSUME NEW k \in Slots, nextheads[k] # 0, writer # Idle, k = wslot
        PROVE  cell[target][nextheads[k]].name = newname
    BY <1>4, <2>2 DEF IsDraft
  <2>3. writer # Idle => \A k \in Live : Entry(k).name = newname <=> k = wslot
    BY DEF Durability, DraftReplaces, Replaces
  <2>4. CASE ~(writer # Idle /\ i = wslot) /\ ~(writer # Idle /\ j = wslot)
    BY <1>1, <2>1, <2>4, NamesDiffer
  <2>5. CASE writer # Idle /\ i = wslot /\ j # wslot
    BY <2>1, <2>2, <2>3, <2>5
  <2>6. CASE writer # Idle /\ j = wslot /\ i # wslot
    BY <2>1, <2>2, <2>3, <2>6
  <2>. QED  BY <2>4, <2>5, <2>6
<1>7. ASSUME writer = Idle
      PROVE  /\ \A i \in Slots : nextheads[i] # 0 <=> i \in Live
             /\ \A i \in Live : /\ cell[target][nextheads[i]].name = Entry(i).name
                                /\ cell[target][nextheads[i]].ro = Entry(i).ro
  <2>1. \A i \in Live : i \in Slots /\ nextheads[i] # 0
    BY <1>7 DEF IndInv, NothingLost, Live
  <2>. QED  BY <1>4, <1>7, <2>1 DEF SameFile
<1>. QED  BY <1>2, <1>3, <1>5, <1>6, <1>7 DEF Sound

LEMMA ActivateLasts ==
    ASSUME IndInv, IndInv', Durability, Activate
    PROVE  Durability'
<1>1. /\ pc = "activate" /\ pc' \in {"idle", "tag"} /\ Serviceable /\ Serviceable' /\ cell' = cell
      /\ active' = target /\ generation' = NextGeneration /\ heads' = nextheads /\ tail' = cursor
      /\ count' = Cardinality({i \in Slots : nextheads[i] # 0}) /\ dirty' = FALSE
      /\ Forget /\ Release
      /\ \/ job' = NoJob
         \/ job' = job /\ writer = Idle /\ job.op # "compact"
  BY DEF Activate, Publish, Totals, Reply, Serviceable
<1>2. /\ target \in Sides /\ active \in Sides /\ target # active /\ cell[target] \in Log
      /\ nextheads \in [Slots -> Nat]
  BY <1>1, OtherSide DEF Rebuilding, IndInv, TypeOK, Log
<1>3. /\ Sound(cell[target], cursor, cursor, nextheads) /\ Erased(cell[target], cursor)
      /\ writer = Idle => /\ \A i \in Slots : nextheads[i] # 0 <=> i \in Live
                          /\ \A i \in Live : /\ cell[target][nextheads[i]].name = Entry(i).name
                                             /\ cell[target][nextheads[i]].ro = Entry(i).ro
  BY <1>1, CopyIsSound
<1>4. End(cell[target]) = cursor /\ Index(cell[target]) = nextheads
  BY <1>2, <1>3, SoundIs
<1>5. ASSUME NEW t \in Sides, t = target PROVE ResetFindsAll' /\ IndexIsReal'
  <2>1. t = Chosen' /\ Sealed(t)' /\ sector'[t].base = cursor /\ sector'[t].gen = NextGeneration
    BY <1>5, NewSideIsChosen
  <2>2. Sealed(Chosen)'
    BY <2>1 DEF Sealed
  <2>3. Sound(cell'[t], sector'[t].base, End(cell'[t]), Index(cell'[t]))
    BY <1>1, <1>3, <1>4, <1>5, <2>1
  <2>4. ResetFindsAll'
    BY <1>1, <2>1, <2>2, <2>3 DEF ResetFindsAll
  <2>5. IndexIsReal'
    BY <1>1, <1>4, <1>5, <2>1 DEF IndexIsReal, Live
  <2>. QED  BY <2>4, <2>5
<1>6. ErasedAhead' /\ DraftIsTagged' /\ DraftReplaces' /\ CopyIsReal' /\ CommitIsRequested'
  <2>1. writer' = Idle /\ rotating' = FALSE /\ ~Building'
    BY <1>1 DEF Forget, Building
  <2>. QED  BY <1>1, <1>3, <2>1, NoCopy, NoCommit DEF ErasedAhead, DraftIsTagged, DraftReplaces
<1>7. JobIsAllowed'
  <2>1. CASE job' = NoJob
    BY <2>1 DEF NoJob, JobIsAllowed
  <2>2. CASE job' = job /\ writer = Idle
    <3>1. NamesStay
      <4>1. Live' = Live
        BY <1>1, <1>3, <2>2 DEF Live
      <4>2. \A i \in Live : Entry(i)' = cell[target][nextheads[i]]
        BY <1>1 DEF Entry
      <4>. QED  BY <1>3, <2>2, <4>1, <4>2 DEF NamesStay
    <3>. QED  BY <1>1, <2>2, <3>1, JobFilesStay
  <2>. QED  BY <1>1, <2>1, <2>2
<1>8. ReadersBehind'
  <2>1. \A f \in Channels : channels[f].kind = 1 => channels[f].side # target
    BY <1>1 DEF IndInv, RebuiltSideIsFree, Rebuilding
  <2>2. \A f \in Channels : channels'[f].kind = 1 => channels'[f] = channels[f]
    BY <1>1 DEF Release, Closed
  <2>3. \A f \in Channels : channels'[f].kind = 1 => channels'[f].side # active'
    BY <1>1, <2>1, <2>2
  <2>. QED  BY <1>1, <2>3 DEF ReadersBehind
<1>. QED  BY <1>2, <1>5, <1>6, <1>7, <1>8 DEF Durability

-----------------------------------------------------------------------------
(* Loss of power, and mount() *)

LEMMA UnmountedLasts ==
    ASSUME ResetFindsAll', IndexIsReal', pc' \in {"off", "scan"}, writer' = Idle, ~rotating', job' = NoJob,
           \A f \in Channels : channels'[f].kind # 1
    PROVE  Durability'
<1>1. ~Serviceable' /\ ~Building'
  BY DEF Serviceable, Building
<1>2. ErasedAhead' /\ DraftIsTagged' /\ CopyIsReal' /\ DraftReplaces'
  BY <1>1, NoCopy DEF ErasedAhead, DraftIsTagged, DraftReplaces
<1>3. JobIsAllowed' /\ CommitIsRequested' /\ ReadersBehind'
  BY NoCommit DEF JobIsAllowed, NoJob, ReadersBehind
<1>. QED  BY <1>2, <1>3 DEF Durability

LEMMA SameChoice ==
    ASSUME ResetFindsAll, UNCHANGED flashVars, pc' # "condemned"
    PROVE  ResetFindsAll' /\ Chosen' = Chosen
BY DEF ResetFindsAll, Chosen, Sealed, Newer, flashVars

LEMMA PowerLossLasts ==
    ASSUME IndInv, IndInv', Durability, PowerLoss
    PROVE  Durability'
<1>1. /\ pc' = "off" /\ writer' = Idle /\ ~rotating' /\ job' = NoJob
      /\ \A f \in Channels : channels'[f].kind # 1
  BY DEF PowerLoss, Forget, Closed
<1>2. IndexIsReal'
  BY <1>1 DEF IndexIsReal, Serviceable
<1>3. CASE pc # "erase"
  <2>1. ResetFindsAll'
    BY <1>1, <1>3, SameChoice DEF PowerLoss, Durability
  <2>. QED  BY <1>1, <1>2, <2>1, UnmountedLasts
<1>4. CASE pc = "erase"
  <2>1. /\ cell'[active] = cell[active] /\ sector'[active] = sector[active]
        /\ sector'[1 - active] = sector[1 - active] \/ sector'[1 - active].state = "unsealed"
    BY <1>4, HalfErasedStays DEF PowerLoss
  <2>2. active = Chosen /\ Sealed(active) /\ active \in Sides
    BY <1>4, ActiveLog DEF Serviceable
  <2>3. ASSUME NEW s \in Sides, s = active PROVE ResetFindsAll'
    <3>1. s = Chosen' /\ Sealed(s)'
      BY <2>1, <2>2, <2>3, StillChosen
    <3>2. Sealed(Chosen)'
      BY <3>1 DEF Sealed
    <3>3. Sound(cell'[s], sector'[s].base, End(cell'[s]), Index(cell'[s]))
      BY <2>1, <2>2, <2>3 DEF Durability, ResetFindsAll
    <3>. QED  BY <1>1, <3>1, <3>2, <3>3 DEF ResetFindsAll
  <2>. QED  BY <1>1, <1>2, <2>2, <2>3, UnmountedLasts
<1>. QED  BY <1>3, <1>4

LEMMA Unmounted ==
    ASSUME IndInv, Durability, pc \in {"off", "scan"}
    PROVE  writer = Idle /\ ~rotating /\ job = NoJob /\ \A f \in Channels : channels[f].kind # 1
BY MountingType DEF Mounting, IndInv, RequestFitsBlock, Durability, ReadersBehind

(* The log that mount() scans. *)
LEMMA ChosenLog ==
    ASSUME IndInv, Durability, NEW log, log = cell[Chosen]
    PROVE  /\ log \in Log /\ Chosen \in Sides
           /\ Sound(log, sector[Chosen].base, End(log), Index(log))
           /\ Logged(log, End(log), Index(log)) /\ End(log) \in Nat /\ HEADER <= End(log) /\ End(log) <= LIMIT
           /\ IsChain(log, Records(log), End(log)) /\ ~Reads(log, End(log))
           /\ sector[Chosen].base \in Stops(log, Records(log))
           /\ \A o \in Records(log) :
                /\ o \in Nat /\ o \in Offsets /\ HEADER <= o /\ o < End(log) /\ Reads(log, o)
                /\ log[o].span \in Nat /\ o < o + log[o].span /\ o + log[o].span <= End(log)
                /\ o + log[o].span \in Records(log) \cup {End(log)}
                /\ \A p \in Records(log) : o < p => o + log[o].span <= p
<1>1. Chosen \in Sides /\ log \in Log
  BY DEF Chosen, Sides, IndInv, TypeOK, Log
<1>2. Sound(log, sector[Chosen].base, End(log), Index(log))
  BY DEF Durability, ResetFindsAll
<1>3. /\ IsChain(log, Records(log), End(log)) /\ ~Reads(log, End(log))
      /\ Logged(log, End(log), Index(log)) /\ sector[Chosen].base \in Stops(log, Records(log))
  BY <1>2 DEF Sound, Logged
<1>4. End(log) \in Nat /\ HEADER <= End(log) /\ End(log) <= LIMIT
  BY <1>1, <1>3, ChainIsRecords DEF IsChain
<1>5. ASSUME NEW o \in Records(log)
      PROVE  /\ o \in Nat /\ o \in Offsets /\ HEADER <= o /\ o < End(log) /\ Reads(log, o)
             /\ log[o].span \in Nat /\ o < o + log[o].span /\ o + log[o].span <= End(log)
             /\ o + log[o].span \in Records(log) \cup {End(log)}
             /\ \A p \in Records(log) : o < p => o + log[o].span <= p
  <2>1. /\ o \in Offsets /\ HEADER <= o /\ Reads(log, o) /\ o + log[o].span <= End(log)
        /\ o + log[o].span \in Records(log) \cup {End(log)}
        /\ \A p \in Records(log) : o < p => o + log[o].span <= p
    BY <1>3, <1>5 DEF IsChain
  <2>2. o \in Nat
    BY <2>1, JournalAssumption DEF Offsets
  <2>3. log[o] \in Record /\ o + log[o].span \in Nat /\ o < o + log[o].span
    BY <1>1, <2>1, <2>2, ReadsType
  <2>4. log[o].span \in Nat
    BY <2>3, RecordType
  <2>5. o < End(log)
    BY <1>4, <2>1, <2>2, <2>3
  <2>. QED  BY <2>1, <2>2, <2>3, <2>4, <2>5
<1>. QED  BY <1>1, <1>2, <1>3, <1>4, <1>5

LEMMA MountLasts ==
    ASSUME IndInv, IndInv', Durability, Mount
    PROVE  Durability'
<1>1. pc = "off" /\ UNCHANGED flashVars /\ ResetFindsAll
  BY DEF Mount, Durability
<1>2. writer = Idle /\ ~rotating /\ job = NoJob /\ \A f \in Channels : channels[f].kind # 1
  BY <1>1, Unmounted
<1>3. CASE NoFilesystem
  <2>1. pc' = "off" /\ job' = NoJob /\ UNCHANGED <<draftVars, channels>>
    BY <1>3 DEF NoFilesystem
  <2>2. ResetFindsAll'
    BY <1>1, <2>1, SameChoice
  <2>3. IndexIsReal'
    BY <2>1 DEF IndexIsReal, Serviceable
  <2>. QED  BY <1>2, <2>1, <2>2, <2>3, UnmountedLasts DEF draftVars
<1>4. CASE ScanFrom(Chosen) /\ UNCHANGED <<draftVars, channels, job>>
  <2>1. pc' = "scan" /\ active' = Chosen /\ at' = HEADER /\ heads' = NoHeads
    BY <1>4 DEF ScanFrom
  <2>2. ResetFindsAll' /\ Chosen' = Chosen
    BY <1>1, <2>1, SameChoice
  <2>. DEFINE log == cell[Chosen]
  <2>3. /\ HEADER \in Records(log) \cup {End(log)} /\ HEADER \in Nat
        /\ \A o \in Records(log) : o \in Nat /\ HEADER <= o
    BY ChosenLog, JournalAssumption DEF IsChain
  <2>4. IsIndex(log, {o \in Records(log) : o < HEADER}, NoHeads)
    <3>1. {o \in Records(log) : o < HEADER} = {}
      <4>1. \A o \in Records(log) : ~(o < HEADER)
        BY <2>3
      <4>. QED  BY <4>1
    <3>. QED  BY <3>1 DEF IsIndex, NoHeads
  <2>5. IndexIsReal'
    BY <1>1, <2>1, <2>2, <2>3, <2>4 DEF IndexIsReal, Serviceable, flashVars
  <2>. QED  BY <1>2, <1>4, <2>1, <2>2, <2>5, UnmountedLasts DEF draftVars
<1>. QED  BY <1>3, <1>4 DEF Mount

(* scan() finds the records of the log, and no others. *)
LEMMA ValidReads ==
    ASSUME IndInv, NEW s \in Sides, NEW o \in Offsets
    PROVE  Valid(s, o) <=> Reads(cell[s], o)
<1>. DEFINE r == cell[s][o]
<1>1. o \in Nat /\ HEADER \in Nat /\ LIMIT \in Nat
  BY JournalAssumption DEF Offsets
<1>2. r.k = "rec" => r \in Record
  BY CellType DEF IndInv, TypeOK
<1>3. r.k = "rec" => r.kind \in {1, 2, 3} /\ r.off \in Nat /\ r.len \in Nat /\ r.span \in Nat
  BY <1>2, RecordType
<1>4. Stored(s, o + HEADER, r.span - HEADER) = Extract(cell[s], o + HEADER, r.span - HEADER)
  BY StoredIs
<1>. QED  BY <1>1, <1>3, <1>4 DEF Valid, Reads

LEMMA ScanRecordLasts ==
    ASSUME IndInv, IndInv', Durability, ScanRecord
    PROVE  Durability'
<1>. DEFINE log == cell[active]
            r == log[at]
            base == sector[active].base
<1>1. /\ pc = "scan" /\ MoreToScan /\ Valid(active, at) /\ ResetFindsAll
      /\ active = Chosen /\ active \in Sides /\ at \in Nat /\ heads \in [Slots -> Nat]
      /\ at \in Records(log) \cup {End(log)}
      /\ IsIndex(log, {o \in Records(log) : o < at}, heads)
  BY DEF ScanRecord, Durability, IndexIsReal, IndInv, TypeOK
<1>2. writer = Idle /\ ~rotating /\ job = NoJob /\ \A f \in Channels : channels[f].kind # 1
  BY <1>1, Unmounted
<1>3. /\ IsChain(log, Records(log), End(log)) /\ ~Reads(log, End(log)) /\ base \in Stops(log, Records(log))
      /\ \A o \in Records(log) :
           /\ o \in Nat /\ o \in Offsets /\ HEADER <= o /\ o < End(log) /\ Reads(log, o)
           /\ log[o].span \in Nat /\ o < o + log[o].span /\ o + log[o].span <= End(log)
           /\ o + log[o].span \in Records(log) \cup {End(log)}
           /\ \A p \in Records(log) : o < p => o + log[o].span <= p
  BY <1>1, ChosenLog
<1>4. at \in Records(log) /\ HEADER \in Nat \ {0}
  <2>1. at \in Offsets
    BY <1>1, JournalAssumption DEF MoreToScan, Offsets
  <2>2. Reads(log, at)
    BY <1>1, <2>1, ValidReads
  <2>. QED  BY <1>1, <1>3, <2>2, JournalAssumption
<1>5. ~(at < base /\ at + r.span > base)
  <2>1. base = HEADER \/ \E o \in Records(log) : base = o + log[o].span
    BY <1>3 DEF Stops
  <2>2. ASSUME NEW o \in Records(log), base = o + log[o].span, at < base PROVE at + r.span <= base
    <3>1. CASE o < at
      BY <1>3, <1>4, <2>2, <3>1
    <3>2. CASE o = at
      BY <1>3, <1>4, <2>2, <3>2
    <3>3. CASE at < o
      BY <1>3, <1>4, <2>2, <3>3
    <3>. QED  BY <1>3, <1>4, <3>1, <3>2, <3>3
  <2>. QED  BY <1>3, <1>4, <2>1, <2>2
<1>6. /\ pc' = "scan" /\ at' = at + r.span
      /\ heads' = AfterRecord(heads, r, at)
      /\ UNCHANGED <<flashVars, active, draftVars, channels, job>>
  <2>1. /\ at' = at + r.span /\ heads' = AfterRecord(heads, r, at)
        /\ UNCHANGED <<flashVars, active, draftVars, channels, job>>
    BY DEF ScanRecord, AfterRecord
  <2>2. pc' = IF at < base /\ at + r.span > base THEN "condemned" ELSE "scan"
    BY DEF ScanRecord
  <2>. QED  BY <1>5, <2>1, <2>2
<1>7. ResetFindsAll' /\ Chosen' = Chosen
  BY <1>1, <1>6, SameChoice
<1>8. IsIndex(log, {o \in Records(log) : o < at'}, heads')
  <2>. DEFINE recs == {o \in Records(log) : o < at}
  <2>1. at # 0 /\ \A o \in recs : o \in Nat /\ o < at
    BY <1>3, <1>4
  <2>2. log[at].slot # log[at].drop
    BY <1>3, <1>4 DEF Reads
  <2>3. IsIndex(log, recs \cup {at}, AfterRecord(heads, log[at], at))
    BY <1>1, <2>1, <2>2, IndexGrows
  <2>4. {o \in Records(log) : o < at'} = recs \cup {at}
    <3>1. ASSUME NEW o \in Records(log) PROVE o < at + r.span <=> o < at \/ o = at
      BY <1>3, <1>4
    <3>. QED  BY <1>4, <1>6, <3>1
  <2>. QED  BY <1>6, <2>3, <2>4
<1>9. at' \in Records(log) \cup {End(log)}
  BY <1>3, <1>4, <1>6
<1>10. cell'[active'] = log /\ active' = Chosen'
  BY <1>1, <1>6, <1>7 DEF flashVars
<1>11. IndexIsReal'
  <2>. HIDE DEF log
  <2>. QED  BY <1>6, <1>8, <1>9, <1>10 DEF IndexIsReal, Serviceable
<1>. QED  BY <1>2, <1>6, <1>7, <1>11, UnmountedLasts DEF draftVars

LEMMA ScanEndsLasts ==
    ASSUME IndInv, IndInv', Durability, ScanEnds
    PROVE  Durability'
<1>. DEFINE log == cell[active]
            base == sector[active].base
<1>1. /\ pc = "scan" /\ ~(MoreToScan /\ Valid(active, at)) /\ ResetFindsAll
      /\ active = Chosen /\ active \in Sides /\ at \in Nat /\ heads \in [Slots -> Nat]
      /\ at \in Records(log) \cup {End(log)}
      /\ IsIndex(log, {o \in Records(log) : o < at}, heads)
  BY DEF ScanEnds, Durability, IndexIsReal, IndInv, TypeOK
<1>2. writer = Idle /\ ~rotating /\ job = NoJob /\ \A f \in Channels : channels[f].kind # 1
  BY <1>1, Unmounted
<1>3. /\ log \in Log /\ Sound(log, base, End(log), Index(log)) /\ base \in Stops(log, Records(log))
      /\ End(log) \in Nat /\ HEADER <= End(log)
      /\ \A o \in Records(log) :
           /\ o \in Offsets /\ o < End(log) /\ Reads(log, o) /\ o + log[o].span <= End(log)
  BY <1>1, ChosenLog
<1>4. at = End(log)
  <2>. SUFFICES ASSUME at \in Records(log) PROVE FALSE
    BY <1>1
  <2>1. at \in Offsets /\ Reads(log, at)
    BY <1>3
  <2>2. Valid(active, at)
    BY <1>1, <2>1, ValidReads
  <2>3. MoreToScan
    BY <2>1 DEF Reads, MoreToScan, Blank
  <2>. QED  BY <1>1, <2>2, <2>3
<1>5. ~PrefixLost
  <2>1. base <= End(log)
    BY <1>3 DEF Stops
  <2>2. base \in Nat
    BY <1>1 DEF IndInv, TypeOK
  <2>. QED  BY <1>3, <1>4, <2>1, <2>2 DEF PrefixLost
<1>6. /\ pc' = "idle" /\ dirty' = MoreToScan /\ tail' = at /\ generation' = sector[active].gen
      /\ count' = Cardinality({i \in Slots : heads[i] # 0})
      /\ UNCHANGED <<flashVars, active, heads, draftVars, channels, job>>
  BY <1>5 DEF ScanEnds, Totals
<1>7. ResetFindsAll' /\ Chosen' = Chosen
  BY <1>1, <1>6, SameChoice
<1>8. heads = Index(log)
  <2>1. {o \in Records(log) : o < at} = Records(log)
    BY <1>3, <1>4
  <2>2. IsIndex(log, Records(log), heads) /\ Records(log) \subseteq Offsets
    BY <1>1, <1>3, <2>1
  <2>. QED  BY <1>1, <2>2, IndexIs
<1>9. cell'[active'] = log /\ active' = Chosen' /\ active' = active /\ sector' = sector
  BY <1>1, <1>6, <1>7 DEF flashVars
<1>10. IndexIsReal'
  <2>. HIDE DEF log
  <2>. QED  BY <1>4, <1>6, <1>8, <1>9 DEF IndexIsReal, Live
<1>11. ~dirty' => Erased(log, at)
  <2>1. ~MoreToScan => SeemsErased(log, at)
    BY <1>1, JournalAssumption DEF MoreToScan, SeemsErased
  <2>. QED  BY <1>3, <1>4, <1>6, <2>1 DEF Sound
<1>12. ~Building' /\ pc' # "commit" /\ writer' = Idle /\ ~rotating'
  BY <1>2, <1>6 DEF Building, draftVars
<1>13. ErasedAhead'
  <2>. HIDE DEF log
  <2>. QED  BY <1>6, <1>9, <1>11, <1>12 DEF ErasedAhead
<1>14. DraftIsTagged' /\ DraftReplaces' /\ CopyIsReal' /\ CommitIsRequested'
  BY <1>6, <1>12, NoCopy, NoCommit DEF DraftIsTagged, DraftReplaces
<1>15. JobIsAllowed' /\ ReadersBehind'
  BY <1>2, <1>6 DEF JobIsAllowed, NoJob, ReadersBehind
<1>. QED  BY <1>7, <1>10, <1>13, <1>14, <1>15 DEF Durability

LEMMA InitDurability == Init => Durability
<1>. SUFFICES ASSUME Init PROVE Durability
  OBVIOUS
<1>0. Slots \subseteq Nat /\ HEADER \in Nat \ {0}
  BY JournalAssumption DEF Slots
<1>1. /\ sector[0] = [state |-> "sealed", gen |-> 0, base |-> HEADER] /\ sector[1] = NoSector
      /\ cell[0] = BlankLog /\ pc = "off" /\ writer = Idle /\ ~rotating /\ job = NoJob
      /\ \A f \in Channels : channels[f].kind # 1
  BY DEF Init, Sides, Closed
<1>2. Chosen = 0 /\ Sealed(0)
  BY <1>1 DEF Chosen, Sealed, NoSector
<1>3. Logged(BlankLog, HEADER, NoHeads) /\ Erased(BlankLog, HEADER)
  BY BlankIsLogged
<1>4. Sound(BlankLog, HEADER, HEADER, NoHeads)
  BY <1>3 DEF Sound, Stops, OneName, NoHeads
<1>5. End(BlankLog) = HEADER /\ Index(BlankLog) = NoHeads
  <2>1. NoHeads \in [Slots -> Nat]
    BY DEF NoHeads
  <2>. QED  BY <1>4, <2>1, BlankLogType, SoundIs
<1>6. ResetFindsAll
  BY <1>1, <1>2, <1>4, <1>5 DEF ResetFindsAll
<1>7. ~Serviceable /\ ~Building
  BY <1>1 DEF Serviceable, Building
<1>8. IndexIsReal /\ ErasedAhead /\ DraftIsTagged /\ CopyIsReal /\ DraftReplaces
  BY <1>1, <1>7 DEF IndexIsReal, ErasedAhead, DraftIsTagged, CopyIsReal, DraftReplaces, Building
<1>9. JobIsAllowed /\ CommitIsRequested /\ ReadersBehind
  BY <1>1 DEF JobIsAllowed, NoJob, CommitIsRequested, ReadersBehind
<1>. QED  BY <1>6, <1>8, <1>9 DEF Durability

(* The invariant is the same formula of the same variables. *)
LEMMA StutterLasts ==
    ASSUME Durability, UNCHANGED vars
    PROVE  Durability'
<1>. USE DEF vars, flashVars, indexVars, draftVars, cursorVars, localVars
<1>1. ResetFindsAll' /\ IndexIsReal'
  BY DEF Durability, ResetFindsAll, IndexIsReal, Chosen, Sealed, Newer, Serviceable, Live
<1>2. ErasedAhead' /\ DraftIsTagged' /\ CommitIsRequested'
  BY DEF Durability, ErasedAhead, DraftIsTagged, CommitIsRequested, NewRecord, Length, Entry, Serviceable
<1>3. CopyIsReal'
  BY DEF Durability, CopyIsReal, Building, NextEnd, SameFile, IsDraft, Live, Entry, NextGeneration
<1>4. DraftReplaces' /\ JobIsAllowed' /\ ReadersBehind'
  BY DEF Durability, DraftReplaces, JobIsAllowed, ReadersBehind, Replaces, Matching, Live, Entry
<1>. QED  BY <1>1, <1>2, <1>3, <1>4 DEF Durability

LEMMA NextLasts ==
    ASSUME IndInv, SpaceInv, IndInv', SpaceInv', Durability, ~Decays, [Next]_vars
    PROVE  Durability'
<1>1. CASE Request
  BY <1>1, RequestLasts
<1>2. CASE ScratchNext \/ TagRecord \/ Reserve \/ Payload \/ Fields \/ Commit
  <2>1. CASE ScratchNext
    BY <2>1, ScratchesLast
  <2>. QED  BY <1>2, <2>1, TagRecordLasts, ReserveLasts, PayloadLasts, FieldsLasts, CommitLasts
<1>3. CASE CompactBegin \/ Erase \/ CopyNext \/ Move \/ Seal \/ Activate
  BY <1>3, CompactBeginLasts, EraseLasts, CopyNextLasts, MoveLasts, SealLasts, ActivateLasts
<1>4. CASE ScanRecord \/ ScanEnds
  BY <1>4, ScanRecordLasts, ScanEndsLasts
<1>5. ~FallBack /\ ~Decay
  BY DEF FallBack, Decay, Durability, ResetFindsAll
<1>6. CASE Failure
  <2>1. CASE RecordFails
    BY <2>1, RecordFailsLasts DEF RecordFails
  <2>. QED
    BY <1>6, <2>1, TagFailsLasts, PayloadFailsLasts, EraseFailsLasts, CompactFailsLasts DEF Failure
<1>7. CASE Mount \/ PowerLoss
  BY <1>7, MountLasts, PowerLossLasts
<1>8. CASE UNCHANGED vars
  BY <1>8, StutterLasts
<1>. QED  BY <1>1, <1>2, <1>3, <1>4, <1>5, <1>6, <1>7, <1>8 DEF Next, Continue

(***************************************************************************)
(* What was committed is on flash, and the journal knows where: at any     *)
(* moment the log of the side that a reset would mount is whole, the index *)
(* says what is in it, what is programmed next is erased, and the other    *)
(* side has every file before it takes over.                               *)
(***************************************************************************)
THEOREM DurabilityLasts == ~Decays => (Spec => []Durability)
<1>. SUFFICES ASSUME ~Decays PROVE Spec => []Durability
  OBVIOUS
<1>1. Init => Durability
  BY InitDurability
<1>2. (IndInv /\ SpaceInv) /\ (IndInv /\ SpaceInv)' /\ Durability /\ [Next]_vars => Durability'
  BY NextLasts
<1>3. Spec => [](IndInv /\ SpaceInv)
  BY JournalHolds
<1>. QED  BY <1>1, <1>2, <1>3, PTL DEF Spec

-----------------------------------------------------------------------------
(* Flash is programmed once *)

LEMMA BlankBehind ==
    ASSUME IndInv, SpaceInv, Durability
    PROVE  /\ pc = "tag" => Erased(cell[active], tail) /\ tail \in Nat
           /\ pc \in {"payload", "copy", "move"} => Erased(cell[target], cursor) /\ cursor \in Nat
<1>1. tail \in Nat /\ cursor \in Nat
  BY DEF IndInv, TypeOK
<1>2. ASSUME pc = "tag" PROVE Erased(cell[active], tail)
  <2>1. writer = Idle
    BY <1>2 DEF IndInv, DraftIsNext
  <2>2. ~dirty
    BY <1>2 DEF SpaceInv, SpaceFits, TailIsClean
  <2>. QED  BY <1>2, <2>1, <2>2 DEF Durability, ErasedAhead, Serviceable
<1>3. ASSUME pc = "payload" PROVE Erased(cell[target], cursor)
  BY <1>3 DEF IndInv, RequestFitsBlock, Durability, ErasedAhead
<1>4. ASSUME pc \in {"copy", "move"} PROVE Erased(cell[target], cursor)
  BY <1>4 DEF Durability, ErasedAhead
<1>. QED  BY <1>1, <1>2, <1>3, <1>4

(* What a step may change, by the block of code it runs. *)
LEMMA ProgramsWhere ==
    ASSUME IndInv, SpaceInv, Durability, ~Decays, Next,
           NEW s \in Sides, NEW o \in Offsets, cell'[s][o] # cell[s][o]
    PROVE  \/ pc = "tag" /\ s = active /\ o = tail
           \/ pc \in {"payload", "copy", "move"} /\ s = target /\ o >= cursor
           \/ pc \in {"fields", "commit"} /\ s = target /\ o = writebase
           \/ pc = "erase" /\ s = target
<1>0. /\ cell \in [Sides -> Log] /\ active \in Sides /\ target \in Sides
      /\ HEADER \in Nat /\ o \in Nat
  BY JournalAssumption DEF IndInv, TypeOK, Log, Offsets
<1>1. CASE Request \/ ScratchNext \/ Reserve \/ CompactBegin \/ Seal \/ Activate \/ ScanRecord \/ ScanEnds
           \/ FallBack \/ CompactFails \/ Mount
  <2>1. cell' = cell
    BY <1>1 DEF Request, OpenWrite, Concat, Scratch, Rename, Attribute, Compact, Write, Close, Abort, OpenRead,
       Read, ListFiles, NextEntry, ScratchNext, Reserve, CompactBegin, Seal, Activate, ScanRecord, ScanEnds, FallBack, CompactFails,
       Mount, Refuse, StartWrite, Prepare, flashVars
  <2>. QED  BY <2>1
<1>2. CASE TagRecord \/ TagFails
  <2>1. pc = "tag"
    BY <1>2 DEF TagRecord, TagFails
  <2>2. \E u : cell' = cell \/ cell' = [cell EXCEPT ![active][tail] = u]
    BY <1>2 DEF TagRecord, TagFails
  <2>3. s = active /\ o = tail
    BY <1>0, <2>2 DEF Log
  <2>. QED  BY <2>1, <2>3
<1>3. CASE Payload \/ PayloadFails
  <2>1. pc = "payload"
    BY <1>3 DEF Payload, PayloadFails
  <2>2. PICK bytes : cell' = [cell EXCEPT ![target] = Programmed(@, cursor, bytes)]
    BY <1>3 DEF Payload, PayloadFails
  <2>3. s = target /\ o >= cursor
    BY <1>0, <2>2 DEF Log, Programmed
  <2>. QED  BY <2>1, <2>3
<1>4. CASE Fields \/ Commit \/ RecordFails
  <2>1. pc \in {"fields", "commit"}
    BY <1>4 DEF Fields, Commit, RecordFails
  <2>2. \E log : /\ cell' = [cell EXCEPT ![target] = log]
                 /\ \A q \in Offsets : q # writebase => log[q] = cell[target][q]
    <3>1. CASE \E u : cell' = [cell EXCEPT ![target][writebase] = u]
      <4>1. PICK u : cell' = [cell EXCEPT ![target][writebase] = u]
        BY <3>1
      <4>. WITNESS [cell[target] EXCEPT ![writebase] = u]
      <4>. QED  BY <1>0, <4>1 DEF Log
    <3>2. CASE cell' = [cell EXCEPT ![target][writebase].commit = TRUE]
      <4>. WITNESS [cell[target] EXCEPT ![writebase].commit = TRUE]
      <4>. QED  BY <1>0, <3>2 DEF Log
    <3>. QED  BY <1>4, <3>1, <3>2 DEF Fields, Commit, RecordFails
  <2>. QED  BY <1>0, <2>1, <2>2
<1>5. CASE Erase \/ EraseFails \/ PowerLoss
  <2>1. pc = "erase" /\ \E log : cell' = [cell EXCEPT ![target] = log]
    BY <1>5 DEF Erase, EraseFails, PowerLoss, HalfErased, flashVars
  <2>. QED  BY <1>0, <2>1
<1>6. CASE CopyNext
  <2>1. pc = "copy"
    BY <1>6 DEF CopyNext
  <2>2. \E i : cell' = [cell EXCEPT ![target] = Copied(@, cursor, i, Contents(i))]
    BY <1>6 DEF CopyNext
  <2>3. s = target /\ o >= cursor
    BY <1>0, <2>1, <2>2, BlankBehind DEF Log, Copied, Programmed
  <2>. QED  BY <2>1, <2>3
<1>7. CASE Move
  <2>1. pc = "move" /\ cell' = [cell EXCEPT ![target] = MovedTo(@)]
    BY <1>7 DEF Move
  <2>2. s = target /\ o >= cursor
    BY <1>0, <2>1, BlankBehind DEF Log, MovedTo, Programmed
  <2>. QED  BY <2>1, <2>2
<1>8. ~Decay
  BY DEF Decay
<1>. QED  BY <1>1, <1>2, <1>3, <1>4, <1>5, <1>6, <1>7, <1>8 DEF Next, Continue, Failure

LEMMA ProgramsOnce ==
    ASSUME IndInv, SpaceInv, Durability, ~Decays, Next,
           NEW s \in Sides, NEW o \in Offsets, cell'[s][o] # cell[s][o]
    PROVE  \/ cell[s][o] = Blank
           \/ pc = "erase" /\ s = target
           \/ pc \in {"fields", "commit"} /\ s = target /\ o = writebase
BY ProgramsWhere, BlankBehind DEF Erased, Offsets

(***************************************************************************)
(* On flash that does not decay, and whatever operations fail and whenever *)
(* power is lost, no step programs a unit that is not blank, except for    *)
(* the header of the record under construction: prepare() tags the true    *)
(* end of the log, reserve() and compact() leave room ahead of the cursor. *)
(***************************************************************************)
THEOREM UnitsAreProgrammedOnce == ~Decays => (Spec => ProgrammedOnce)
<1>. SUFFICES ASSUME ~Decays PROVE Spec => ProgrammedOnce
  OBVIOUS
<1>. DEFINE Once == \A s \in Sides, o \in Offsets :
                      cell'[s][o] # cell[s][o] =>
                        \/ cell[s][o] = Blank
                        \/ pc = "erase" /\ s = target
                        \/ pc \in {"fields", "commit"} /\ s = target /\ o = writebase
<1>1. (IndInv /\ SpaceInv) /\ Durability /\ [Next]_vars => [Once]_vars
  BY ProgramsOnce
<1>2. Spec => [](IndInv /\ SpaceInv)
  BY JournalHolds
<1>3. Spec => []Durability
  BY DurabilityLasts
<1>4. Spec => [][Once]_vars
  BY <1>1, <1>2, <1>3, PTL DEF Spec
<1>. QED  BY <1>4 DEF ProgrammedOnce

-----------------------------------------------------------------------------
(* On flash that decays: mount() finds a side whenever one is whole. *)

(* A chain reaches each of its stops. *)
LEMMA SubChain ==
    ASSUME NEW log \in Log, NEW recs, NEW n, IsChain(log, recs, n), NEW b \in Stops(log, recs)
    PROVE  LeadsTo(log, b)
<1>1. /\ recs \subseteq Offsets /\ HEADER \in recs \cup {n} /\ HEADER \in Nat
      /\ \A o \in recs : /\ HEADER <= o /\ Reads(log, o) /\ o + log[o].span \in recs \cup {n}
                         /\ \A p \in recs : o < p => o + log[o].span <= p
  BY JournalAssumption DEF IsChain
<1>2. \A o \in recs : o \in Nat /\ o + log[o].span \in Nat /\ o < o + log[o].span /\ o < n
  BY ChainSplits
<1>. DEFINE sub == {o \in recs : o < b}
<1>3. CASE b = HEADER
  <2>1. IsChain(log, {}, b)
    BY <1>1, <1>3 DEF IsChain, Stops
  <2>. QED  BY <2>1 DEF LeadsTo
<1>4. CASE b # HEADER
  <2>1. PICK q \in recs : b = q + log[q].span
    BY <1>4 DEF Stops
  <2>2. b \in Nat /\ q \in Nat /\ q < b /\ n \in Nat
    BY <1>2, <2>1, ChainSplits
  <2>3. \A o \in sub : o <= q
    BY <1>1, <1>2, <2>1
  <2>4. ASSUME NEW o \in sub PROVE o + log[o].span \in sub \cup {b} /\ o + log[o].span <= b
    <3>1. CASE o = q
      BY <2>1, <2>2, <3>1
    <3>2. CASE o < q
      <4>. DEFINE m == o + log[o].span
      <4>1. m <= q /\ m \in Nat /\ m \in recs \cup {n} /\ q < n
        BY <1>1, <1>2, <2>1, <3>2
      <4>. HIDE DEF m
      <4>2. m \in recs /\ m < b
        BY <2>2, <4>1
      <4>. QED  BY <2>2, <4>1, <4>2 DEF m
    <3>3. o = q \/ o < q
      <4>1. o <= q /\ o \in Nat
        BY <1>2, <2>3
      <4>. QED  BY <2>2, <4>1
    <3>. QED  BY <3>1, <3>2, <3>3
  <2>5. HEADER \in sub
    <3>1. HEADER <= q /\ q < n
      BY <1>1, <1>2
    <3>. QED  BY <1>1, <2>2, <3>1
  <2>6. b \in Stops(log, sub)
    BY <2>1, <2>2 DEF Stops
  <2>7. ASSUME NEW o \in sub PROVE HEADER <= o /\ Reads(log, o) /\ \A p \in sub : o < p => o + log[o].span <= p
    BY <1>1
  <2>8. IsChain(log, sub, b)
    <3>1. sub \subseteq Offsets
      BY <1>1
    <3>. HIDE DEF sub
    <3>. QED  BY <2>2, <2>4, <2>5, <2>6, <2>7, <3>1 DEF IsChain
  <2>9. sub \in SUBSET Offsets
    BY <1>1
  <2>. QED  BY <2>8, <2>9 DEF LeadsTo
<1>. QED  BY <1>3, <1>4

LEMMA LeadsToSame ==
    ASSUME NEW log \in Log, NEW new, NEW n, LeadsTo(log, n), Same(log, new, 0, n)
    PROVE  LeadsTo(new, n)
BY ChainSame DEF LeadsTo

LEMMA LeadsToType ==
    ASSUME NEW log \in Log, NEW n, LeadsTo(log, n)
    PROVE  n \in Nat /\ HEADER <= n /\ n <= LIMIT /\ n \in Stops(log, Records(log))
<1>1. PICK recs : IsChain(log, recs, n)
  BY DEF LeadsTo
<1>2. n \in Nat /\ HEADER <= n /\ n <= LIMIT
  BY <1>1, ChainSplits
<1>3. recs \subseteq Records(log)
  BY <1>1, ChainSplits
<1>4. n \in Stops(log, recs)
  BY <1>1 DEF IsChain
<1>. QED  BY <1>2, <1>3, <1>4 DEF Stops

LEMMA LeadsOn ==
    ASSUME NEW log \in Log, NEW new \in Log, NEW n, LeadsTo(log, n), Same(log, new, 0, n), Reads(new, n)
    PROVE  LeadsTo(new, n + new[n].span)
<1>1. PICK recs : IsChain(log, recs, n)
  BY DEF LeadsTo
<1>2. IsChain(new, recs \cup {n}, n + new[n].span)
  BY <1>1, ChainGrows
<1>3. recs \cup {n} \in SUBSET Offsets
  BY <1>2 DEF IsChain
<1>. QED  BY <1>2, <1>3 DEF LeadsTo

LEMMA NothingLeads == LeadsTo(BlankLog, HEADER)
<1>1. IsChain(BlankLog, {}, HEADER)
  BY JournalAssumption DEF IsChain, Stops
<1>. QED  BY <1>1 DEF LeadsTo

(* Where a side is whole, and where it is not. *)
LEMMA JunkIsLost ==
    ASSUME NEW log \in Log, \A o \in Offsets : log[o] = Junk, NEW b \in Stops(log, Records(log))
    PROVE  b = HEADER
<1>1. HEADER \in Nat
  BY JournalAssumption
<1>2. ~Reads(log, HEADER)
  <2>1. HEADER <= LIMIT - HEADER => HEADER \in Offsets
    BY JournalAssumption DEF Offsets
  <2>. QED  BY <2>1 DEF Reads, Junk
<1>3. IsChain(log, {}, HEADER)
  BY <1>1 DEF IsChain, Stops
<1>4. Records(log) = {}
  BY <1>2, <1>3, ChainIsRecords
<1>. QED  BY <1>4 DEF Stops

LEMMA OnlySealed ==
    ASSUME NEW s \in Sides, Sealed(s), ~Sealed(1 - s)
    PROVE  Chosen = s
BY DEF Chosen, Sides

LEMMA PrefixSide ==
    ASSUME IndInv, MountInv, Serviceable
    PROVE  /\ active \in Sides /\ cell \in [Sides -> Log] /\ tail \in Nat /\ Sealed(active)
           /\ sector[active].base \in Nat /\ sector[active].base <= tail
           /\ LeadsTo(cell[active], sector[active].base)
BY DEF IndInv, TypeOK, Log, MountInv, PrefixIsWhole

LEMMA BuiltSide ==
    ASSUME IndInv, MountInv, Serviceable, Building
    PROVE  /\ Chosen = active /\ target # active /\ target = 1 - active /\ target \in Sides
           /\ ~Sealed(target) /\ LeadsTo(cell[target], NextEnd) /\ NextEnd \in Nat
<1>1. target # active /\ target = 1 - active /\ target \in Sides
  BY OtherSide DEF Building, Rebuilding
<1>2. ~Sealed(target) /\ LeadsTo(cell[target], NextEnd)
  BY DEF MountInv, CopyIsWhole
<1>3. Sealed(active) /\ active \in Sides /\ cell[target] \in Log
  BY <1>1, PrefixSide
<1>. QED  BY <1>1, <1>2, <1>3, OnlySealed, LeadsToType

(* A step that leaves the sealed prefix as it is. *)
LEMMA PrefixStays ==
    ASSUME IndInv, IndInv', MountInv, Serviceable, Serviceable', sector' = sector,
           UNCHANGED <<mounted, active, generation>>, tail \in Nat, tail' \in Nat, tail <= tail',
           Same(cell[active], cell'[active], 0, tail),
           \A s \in Sides : s = Chosen /\ s # active => ~Mountable(s)',
           CopyIsWhole'
    PROVE  MountInv'
<1>1. /\ active \in Sides /\ cell \in [Sides -> Log] /\ Sealed(active)
      /\ sector[active].base \in Nat /\ sector[active].base <= tail
      /\ LeadsTo(cell[active], sector[active].base)
  BY PrefixSide
<1>2. Chosen' = Chosen /\ \A s : Sealed(s)' <=> Sealed(s)
  BY DEF Chosen, Sealed, Newer
<1>3. PrefixIsWhole'
  <2>1. Same(cell[active], cell'[active], 0, sector[active].base)
    BY <1>1 DEF Same, Offsets
  <2>2. LeadsTo(cell'[active], sector[active].base)
    BY <1>1, <2>1, LeadsToSame
  <2>3. sector[active].base <= tail'
    BY <1>1
  <2>4. \A s \in Sides : Sealed(s) => sector[s].base >= HEADER
    BY DEF MountInv, PrefixIsWhole
  <2>. QED  BY <1>1, <1>2, <2>2, <2>3, <2>4 DEF PrefixIsWhole, Serviceable
<1>4. GenerationsAdjoin'
  <2>1. mounted' <=> Serviceable'
    BY DEF MountInv, GenerationsAdjoin
  <2>2. mounted' => generation' = sector'[active'].gen
    BY DEF MountInv, GenerationsAdjoin
  <2>3. Sealed(0)' /\ Sealed(1)' => \E s \in Sides : sector'[s].gen = (sector'[1 - s].gen + 1) % GENERATIONS
    BY <1>2 DEF MountInv, GenerationsAdjoin
  <2>. QED  BY <2>1, <2>2, <2>3 DEF GenerationsAdjoin
<1>5. PassesOver'
  <2>1. active' # Chosen' => ~Mountable(Chosen)'
    <3>1. Chosen \in Sides
      BY DEF Chosen, Sides
    <3>. QED  BY <1>2, <3>1 DEF Mountable
  <2>. QED  BY <2>1 DEF PassesOver, Serviceable
<1>. QED  BY <1>3, <1>4, <1>5 DEF MountInv

LEMMA MountStays ==
    ASSUME IndInv, IndInv', MountInv, Serviceable, Serviceable', sector' = sector,
           UNCHANGED <<mounted, active, generation>>, tail \in Nat, tail' \in Nat, tail <= tail',
           Same(cell[active], cell'[active], 0, tail),
           active # Chosen => cell'[Chosen] = cell[Chosen],
           CopyIsWhole'
    PROVE  MountInv'
<1>1. active # Chosen => ~Mountable(Chosen)
  BY DEF MountInv, PassesOver
<1>2. ASSUME NEW s \in Sides, s = Chosen, s # active PROVE ~Mountable(s)'
  BY <1>1, <1>2 DEF Mountable, Sealed
<1>. QED  BY <1>2, PrefixStays

LEMMA CopyKept ==
    ASSUME IndInv, MountInv, sector' = sector, pc' \notin {"copy", "activate", "commit"},
           Building' => /\ Building /\ target' = target /\ NextEnd' = NextEnd
                        /\ Same(cell[target], cell'[target], 0, NextEnd)
    PROVE  CopyIsWhole'
<1>1. ASSUME Building' PROVE ~Sealed(target)' /\ LeadsTo(cell'[target'], NextEnd')
  <2>1. cell[target] \in Log
    BY DEF IndInv, TypeOK, Log
  <2>2. ~Sealed(target) /\ LeadsTo(cell[target], NextEnd)
    BY <1>1 DEF MountInv, CopyIsWhole
  <2>. QED  BY <1>1, <2>1, <2>2, LeadsToSame DEF Sealed
<1>2. CommitIsRequested'
  BY NoCommit
<1>. QED  BY <1>1, <1>2 DEF CopyIsWhole

LEMMA GiveUpMounts ==
    ASSUME IndInv, IndInv', MountInv, NEW e, GiveUp(e), Serviceable, sector' = sector,
           Same(cell[active], cell'[active], 0, tail),
           active # Chosen => cell'[Chosen] = cell[Chosen],
           rotating /\ job.op = "write" => Same(cell[target], cell'[target], 0, writebase)
    PROVE  MountInv'
<1>1. /\ pc' = "idle" /\ Serviceable' /\ UNCHANGED <<mounted, active, generation, tail>>
      /\ rotating' => job.op = "write" /\ UNCHANGED <<rotating, target, writebase>>
  BY DEF GiveUp, Reply, Forget, Serviceable, cursorVars
<1>2. job.op = "write" => pc \notin {"seal", "activate"}
  BY DEF IndInv, RequestFitsBlock
<1>3. CopyIsWhole'
  <2>1. Building' => rotating' /\ rotating /\ job.op = "write"
    BY <1>1 DEF Building
  <2>2. rotating' => Building /\ NextEnd = writebase /\ NextEnd' = writebase /\ target' = target
    BY <1>1, <1>2 DEF Building, NextEnd
  <2>3. pc' \notin {"copy", "activate", "commit"}
    BY <1>1
  <2>. QED  BY <2>1, <2>2, <2>3, CopyKept
<1>4. tail \in Nat /\ tail <= tail
  BY DEF IndInv, TypeOK
<1>. QED  BY <1>1, <1>3, <1>4, MountStays

(* Requests, and steps that write no flash *)

LEMMA QuietMounts ==
    ASSUME IndInv, IndInv', MountInv, Serviceable, Serviceable', UNCHANGED <<flashVars, mounted, active, generation, tail>>,
           pc \notin {"seal", "activate"}, pc' \notin {"copy", "move", "seal", "activate", "commit"},
           rotating' => rotating /\ UNCHANGED <<target, writebase>>
    PROVE  MountInv'
<1>1. sector' = sector /\ cell' = cell /\ tail \in Nat /\ tail <= tail
  BY DEF flashVars, IndInv, TypeOK
<1>2. CopyIsWhole'
  <2>1. Building' => Building /\ target' = target /\ NextEnd' = NextEnd
    <3>1. Building' => rotating'
      BY DEF Building
    <3>2. rotating' => Building /\ target' = target /\ NextEnd' = NextEnd
      BY DEF Building, NextEnd
    <3>. QED  BY <3>1, <3>2
  <2>2. Same(cell[target], cell'[target], 0, NextEnd)
    BY <1>1 DEF Same
  <2>3. pc' \notin {"copy", "activate", "commit"}
    OBVIOUS
  <2>. QED  BY <1>1, <2>1, <2>2, <2>3, CopyKept
<1>. QED  BY <1>1, <1>2, MountStays DEF Same

LEMMA RequestIsQuiet ==
    ASSUME Request \/ ScratchNext
    PROVE  /\ Serviceable /\ Serviceable' /\ UNCHANGED <<flashVars, mounted, active, generation, tail>>
           /\ pc \notin {"seal", "activate"} /\ pc' \notin {"copy", "move", "seal", "activate", "commit"}
           /\ rotating' => rotating /\ UNCHANGED <<target, writebase>>
<1>. DEFINE Quiet == /\ Serviceable' /\ UNCHANGED <<flashVars, mounted, active, generation, tail>>
                     /\ pc' \notin {"copy", "move", "seal", "activate", "commit"}
                     /\ rotating' => rotating /\ UNCHANGED <<target, writebase>>
<1>1. pc \in {"idle", "scratch"}
  BY DEF Request, ScratchNext, Serving, OpenWrite, Concat, Scratch, Rename, Attribute, Compact, Write, Close,
     Abort, OpenRead, Read, ListFiles, NextEntry
<1>2. ASSUME NEW e, Refuse(e) PROVE Quiet
  BY <1>2 DEF Refuse, Reply, Serviceable, indexVars, draftVars, cursorVars
<1>3. ASSUME NEW j, Prepare(j) PROVE Quiet
  <2>1. CASE writer # Idle
    BY <1>2, <1>3, <2>1 DEF Prepare
  <2>2. CASE writer = Idle
    BY <1>3, <2>2 DEF Prepare, Serviceable, indexVars
  <2>. QED  BY <2>1, <2>2
<1>4. ASSUME NEW n, NEW j, StartWrite(n, j) PROVE Quiet
  BY <1>2, <1>3, <1>4 DEF StartWrite
<1>5. Quiet
  <2>1. ASSUME NEW f, NEW n, NEW append, OpenWrite(f, n, append) PROVE Quiet
    BY <1>2, <1>4, <2>1 DEF OpenWrite
  <2>2. ASSUME NEW n, NEW srcs, Concat(n, srcs) PROVE Quiet
    BY <1>2, <1>4, <2>2 DEF Concat
  <2>3. ASSUME NEW names, Scratch(names) PROVE Quiet
    BY <1>2, <1>3, <2>3 DEF Scratch
  <2>4. ASSUME NEW new, NEW old, Rename(new, old) PROVE Quiet
    BY <1>2, <1>3, <2>4 DEF Rename
  <2>5. ASSUME NEW n, NEW flag, Attribute(n, flag) PROVE Quiet
    BY <1>2, <1>3, <2>5 DEF Attribute
  <2>6. CASE Compact
    BY <1>2, <2>6 DEF Compact, Serviceable, indexVars
  <2>7. ASSUME NEW f, NEW bytes, Write(f, bytes) PROVE Quiet
    BY <1>2, <2>7 DEF Write, Serviceable, indexVars, draftVars, cursorVars
  <2>8. ASSUME NEW f, Close(f) \/ Abort(f) PROVE Quiet
    <3>1. Serviceable' /\ UNCHANGED <<flashVars, mounted, active, generation, tail>> /\ pc' \in {"idle", "fields"}
      BY <2>8 DEF Close, Abort, Reply, Serviceable, indexVars
    <3>2. rotating' => rotating /\ UNCHANGED <<target, writebase>>
      BY <2>8 DEF Close, Abort, Forget, draftVars, cursorVars
    <3>. QED  BY <3>1, <3>2
  <2>9. ASSUME NEW f, NEW n, OpenRead(f, n) PROVE Quiet
    BY <1>2, <2>9 DEF OpenRead, Reply, Serviceable, indexVars, draftVars, cursorVars
  <2>10. ASSUME NEW f, Read(f, 1) \/ ListFiles(f) \/ NextEntry(f) PROVE Quiet
    BY <2>10 DEF Read, ListFiles, NextEntry, Reply, Serviceable, indexVars, draftVars, cursorVars
  <2>11. CASE ScratchNext
    BY <1>2, <1>3, <2>11 DEF ScratchNext
  <2>. HIDE DEF Quiet
  <2>. QED  BY <2>1, <2>2, <2>3, <2>4, <2>5, <2>6, <2>7, <2>8, <2>9, <2>10, <2>11 DEF Request
<1>. QED  BY <1>1, <1>5 DEF Serviceable

LEMMA RequestMounts ==
    ASSUME IndInv, IndInv', MountInv, Request \/ ScratchNext
    PROVE  MountInv'
<1>1. /\ Serviceable /\ Serviceable' /\ UNCHANGED <<flashVars, mounted, active, generation, tail>>
      /\ pc \notin {"seal", "activate"} /\ pc' \notin {"copy", "move", "seal", "activate", "commit"}
      /\ rotating' => rotating /\ UNCHANGED <<target, writebase>>
  BY RequestIsQuiet
<1>. QED  BY <1>1, QuietMounts

(* Records under construction *)

LEMMA BehindDraft ==
    ASSUME IndInv, MountInv, pc \in {"payload", "fields", "commit"},
           Same(cell[target], cell'[target], 0, writebase), \A s \in Sides : s # target => cell'[s] = cell[s]
    PROVE  /\ Serviceable /\ target \in Sides
           /\ Same(cell[active], cell'[active], 0, tail)
           /\ active # Chosen => cell'[Chosen] = cell[Chosen]
           /\ Building <=> rotating
           /\ rotating => NextEnd = writebase /\ target # active
           /\ ~rotating => target = active /\ writebase = tail
<1>1. Serviceable /\ target \in Sides /\ active \in Sides /\ Chosen \in Sides
  BY DEF Serviceable, IndInv, TypeOK, Chosen, Sides
<1>2. (Building <=> rotating) /\ (rotating => NextEnd = writebase)
  BY DEF Building, NextEnd
<1>3. rotating => target # active /\ Chosen = active
  BY <1>1, <1>2, BuiltSide
<1>4. ~rotating => target = active /\ writebase = tail
  <2>1. CASE writer # Idle
    BY <2>1 DEF IndInv, DraftIsNext, RequestFitsBlock
  <2>2. CASE writer = Idle
    BY <2>2 DEF IndInv, RequestFitsBlock
  <2>. QED  BY <2>1, <2>2
<1>5. Same(cell[active], cell'[active], 0, tail)
  <2>1. CASE rotating
    BY <1>1, <1>3, <2>1 DEF Same
  <2>2. CASE ~rotating
    BY <1>4, <2>2
  <2>. QED  BY <2>1, <2>2
<1>6. active # Chosen => cell'[Chosen] = cell[Chosen]
  BY <1>1, <1>3, <1>4
<1>. QED  BY <1>1, <1>2, <1>3, <1>4, <1>5, <1>6

LEMMA TagMounts ==
    ASSUME IndInv, IndInv', MountInv, TagRecord \/ TagFails
    PROVE  MountInv'
<1>1. /\ pc = "tag" /\ Serviceable /\ writer = Idle /\ ~rotating /\ sector' = sector
      /\ cell \in [Sides -> Log] /\ active \in Sides /\ tail \in Nat /\ Chosen \in Sides
  BY DEF TagRecord, TagFails, Serviceable, IndInv, TypeOK, DraftIsNext, RotationIsAWrite, Log, Chosen, Sides
<1>2. PICK u \in Cell : cell' = cell \/ cell' = WithUnit(cell, active, tail, u)
  <2>1. Over(cell[active][tail], Tag) \in Cell /\ Junk \in Cell
    BY CellType, OverType
  <2>. QED  BY <2>1 DEF TagRecord, TagFails, WithUnit
<1>3. \A s \in Sides, o \in Offsets : s # active \/ o # tail => cell'[s][o] = cell[s][o]
  BY <1>1, <1>2, UnitType
<1>4. Same(cell[active], cell'[active], 0, tail)
  BY <1>1, <1>3 DEF Same, Offsets
<1>5. active # Chosen => cell'[Chosen] = cell[Chosen]
  BY <1>1, <1>2 DEF WithUnit
<1>6. CASE TagRecord
  <2>1. /\ pc' \in {"idle", "reserve", "fields"} /\ rotating' = FALSE /\ Serviceable'
        /\ UNCHANGED <<mounted, active, generation, tail>>
    BY <1>1, <1>6 DEF TagRecord, BeginDraft, Reply, Serviceable, indexVars
  <2>2. CopyIsWhole'
    BY <1>1, <2>1, CopyKept DEF Building
  <2>. QED  BY <1>1, <1>4, <1>5, <2>1, <2>2, MountStays
<1>7. CASE TagFails
  BY <1>1, <1>4, <1>5, <1>7, GiveUpMounts DEF TagFails
<1>. QED  BY <1>6, <1>7

LEMMA ReserveMounts ==
    ASSUME IndInv, IndInv', MountInv, Reserve
    PROVE  MountInv'
<1>1. pc = "reserve" /\ Serviceable
  BY DEF Reserve, Serviceable
<1>2. ASSUME NEW e, GiveUp(e), UNCHANGED flashVars PROVE MountInv'
  BY <1>1, <1>2, GiveUpMounts DEF flashVars, Same
<1>3. CASE /\ pc' \in {"compact", "payload"}
           /\ UNCHANGED <<flashVars, indexVars, draftVars, cursorVars, channels, job, error, localVars>>
  BY <1>1, <1>3, QuietMounts DEF Serviceable, indexVars, draftVars, cursorVars
<1>. QED  BY <1>2, <1>3 DEF Reserve

LEMMA PayloadMounts ==
    ASSUME IndInv, IndInv', MountInv, Payload \/ PayloadFails
    PROVE  MountInv'
<1>1. /\ pc = "payload" /\ Serviceable /\ writer # Idle /\ ~failed /\ sector' = sector
      /\ cell \in [Sides -> Log] /\ target \in Sides /\ cursor \in Nat /\ writebase \in Nat /\ HEADER \in Nat
      /\ tail \in Nat /\ tail <= tail
  <2>1. pc = "payload" /\ sector' = sector
    BY DEF Payload, PayloadFails
  <2>2. writer # Idle /\ ~failed
    BY <2>1 DEF IndInv, RequestFitsBlock
  <2>3. /\ cell \in [Sides -> Log] /\ target \in Sides /\ cursor \in Nat /\ writebase \in Nat /\ tail \in Nat
    BY DEF IndInv, TypeOK, Log
  <2>. QED  BY <2>1, <2>2, <2>3, JournalAssumption DEF Serviceable
<1>2. PICK bytes \in Seq(Values) : cell' = [cell EXCEPT ![target] = Programmed(@, cursor, bytes)]
  <2>1. Incoming \in Seq(Values) /\ Len(Incoming) \in Nat
    BY <1>1, IncomingType, LenProperties
  <2>2. CASE Payload
    BY <2>1, <2>2 DEF Payload
  <2>3. CASE PayloadFails
    <3>1. PICK n \in 0..(Len(Incoming) - 1) :
             cell' = [cell EXCEPT ![target] = Programmed(@, cursor, SubSeq(Incoming, 1, n))]
      BY <2>3 DEF PayloadFails
    <3>2. SubSeq(Incoming, 1, n) \in Seq(Values)
      BY <2>1, <3>1, SubSeqProperties
    <3>. QED  BY <3>1, <3>2
  <2>. QED  BY <2>2, <2>3
<1>3. Same(cell[target], cell'[target], 0, writebase) /\ \A s \in Sides : s # target => cell'[s] = cell[s]
  <2>1. writebase < cursor \/ writebase = cursor
    BY <1>1 DEF IndInv, DraftIsNext
  <2>2. \A o \in Offsets : o < cursor => Programmed(cell[target], cursor, bytes)[o] = cell[target][o]
    BY <1>1, ProgrammedType
  <2>3. cell'[target] = Programmed(cell[target], cursor, bytes)
    BY <1>1, <1>2
  <2>4. \A o \in Offsets : o < writebase => o < cursor
    BY <1>1, <2>1 DEF Offsets
  <2>. QED  BY <1>1, <1>2, <2>2, <2>3, <2>4 DEF Same
<1>4. /\ Same(cell[active], cell'[active], 0, tail) /\ (active # Chosen => cell'[Chosen] = cell[Chosen])
      /\ Building <=> rotating
      /\ rotating => NextEnd = writebase
  BY <1>1, <1>3, BehindDraft
<1>5. CASE Payload
  <2>1. /\ pc' \in {"idle", "fields", "reserve"} /\ Serviceable'
        /\ UNCHANGED <<mounted, active, generation, tail, rotating, target, writebase>>
    BY <1>5 DEF Payload, Reply, Serviceable, indexVars, draftVars
  <2>2. Building' => rotating /\ NextEnd' = writebase
    BY <2>1 DEF Building, NextEnd
  <2>3. CopyIsWhole'
    BY <1>1, <1>3, <1>4, <2>1, <2>2, CopyKept
  <2>. QED  BY <1>1, <1>4, <2>1, <2>3, MountStays
<1>6. CASE PayloadFails
  BY <1>1, <1>3, <1>4, <1>6, GiveUpMounts DEF PayloadFails
<1>. QED  BY <1>5, <1>6

LEMMA RecordFailsMounts ==
    ASSUME IndInv, SpaceInv, IndInv', MountInv, pc \in {"fields", "commit"},
           cell' = [cell EXCEPT ![target][writebase] = Junk], sector' = sector, GiveUp(25)
    PROVE  MountInv'
<1>1. cell \in [Sides -> Log] /\ target \in Sides /\ writebase \in Nat /\ writebase \in Offsets /\ Serviceable
  BY DraftPlace DEF IndInv, TypeOK, Log, Serviceable
<1>2. Same(cell[target], cell'[target], 0, writebase) /\ \A s \in Sides : s # target => cell'[s] = cell[s]
  BY <1>1 DEF Same, Offsets, Log
<1>3. Same(cell[active], cell'[active], 0, tail) /\ (active # Chosen => cell'[Chosen] = cell[Chosen])
  BY <1>2, BehindDraft
<1>. QED  BY <1>1, <1>2, <1>3, GiveUpMounts

LEMMA FieldsMounts ==
    ASSUME IndInv, SpaceInv, IndInv', MountInv, Fields
    PROVE  MountInv'
<1>0. pc = "fields" /\ sector' = sector
  BY DEF Fields
<1>1. CASE cell' = [cell EXCEPT ![target][writebase] = Junk] /\ GiveUp(25)
  BY <1>0, <1>1, RecordFailsMounts
<1>2. CASE /\ Stored(target, writebase + HEADER, Length) = data
           /\ cell' = [cell EXCEPT ![target][writebase] = NewRecord]
           /\ pc' = "commit"
           /\ UNCHANGED <<indexVars, draftVars, cursorVars, channels, job, error, localVars>>
  <2>1. /\ UNCHANGED <<mounted, active, generation, heads, tail, writer, rotating, wslot, newname,
                       target, writebase, cursor, data, job>>
        /\ Serviceable /\ Serviceable'
    BY <1>0, <1>2 DEF indexVars, draftVars, cursorVars, Serviceable
  <2>2. NewRecord \in Record /\ NewRecord.span = cursor - writebase
    BY <1>0, NewRecordFits
  <2>3. /\ writebase \in Nat /\ writebase \in Offsets /\ cursor \in Nat /\ HEADER \in Nat \ {0}
        /\ cursor >= writebase + HEADER /\ cell \in [Sides -> Log] /\ target \in Sides
        /\ job.op \in {"close", "concat", "scratch", "metadata"} /\ tail \in Nat /\ tail <= tail
    <3>1. cell \in [Sides -> Log] /\ target \in Sides /\ tail \in Nat
      BY DEF IndInv, TypeOK, Log
    <3>2. job.op \in {"close", "concat", "scratch", "metadata"}
      BY <1>0 DEF IndInv, RequestFitsBlock
    <3>3. /\ writebase \in Nat /\ writebase \in Offsets /\ cursor \in Nat /\ HEADER \in Nat \ {0}
          /\ cursor >= writebase + HEADER
      BY <1>0, DraftPlace, JournalAssumption
    <3>. QED  BY <3>1, <3>2, <3>3
  <2>4. NewRecord \in Cell
    BY <2>2, CellType
  <2>5. \A s \in Sides, o \in Offsets : cell'[s][o] = IF s = target /\ o = writebase THEN NewRecord ELSE cell[s][o]
    <3>1. cell' = WithUnit(cell, target, writebase, NewRecord)
      BY <1>2 DEF WithUnit
    <3>. QED  BY <2>3, <2>4, <3>1, UnitType
  <2>6. /\ cell'[target][writebase] = NewRecord
        /\ \A o \in Offsets : o # writebase => cell'[target][o] = cell[target][o]
    BY <2>3, <2>5, Zenon
  <2>7. Same(cell[target], cell'[target], 0, writebase) /\ \A s \in Sides : s # target => cell'[s] = cell[s]
    <3>1. \A o \in Offsets : o < writebase => o # writebase
      BY <2>3 DEF Offsets
    <3>. QED  BY <1>2, <2>3, <2>6, <3>1 DEF Same
  <2>8. /\ Same(cell[active], cell'[active], 0, tail) /\ (active # Chosen => cell'[Chosen] = cell[Chosen])
        /\ Building <=> rotating
        /\ rotating => NextEnd = writebase
        /\ ~rotating => target = active /\ writebase = tail
    BY <1>0, <2>7, BehindDraft
  <2>9. CommitIsRequested'
    <3>1. NewRecord' = NewRecord
      <4>1. CASE job.op \in {"close", "concat"}
        BY <2>1, <4>1 DEF NewRecord, Length
      <4>2. CASE job.op \in {"scratch", "metadata"}
        <5>1. job.slot \in Live
          BY <1>0, <4>2, JobType DEF IndInv, TypeOK, SourcesExist, Live
        <5>2. heads[job.slot] \in Offsets /\ heads[job.slot] < tail
          BY <1>0, <5>1 DEF IndInv, HeadsAreRecords, IsRecord, IndexEnd
        <5>3. heads[job.slot] \in Nat
          BY <5>2 DEF Offsets
        <5>4. cell'[active][heads[job.slot]] = cell[active][heads[job.slot]]
          BY <2>8, <5>2, <5>3 DEF Same
        <5>5. Entry(job.slot)' = Entry(job.slot)
          BY <2>1, <5>4 DEF Entry
        <5>. QED  BY <2>1, <4>2, <5>5 DEF NewRecord
      <4>. QED  BY <2>3, <4>1, <4>2
    <3>2. Extract(cell'[target], writebase + HEADER, NewRecord.span - HEADER) = NewRecord.crc
      <4>1. CASE job.op \in {"close", "concat"}
        <5>1. NewRecord.crc = data /\ NewRecord.span - HEADER = Length
          BY <2>2, <2>3, <4>1 DEF NewRecord, Length
        <5>2. Extract(cell[target], writebase + HEADER, Length) = data
          BY <1>2, StoredIs
        <5>3. Same(cell[target], cell'[target], writebase + HEADER, writebase + HEADER + Length)
          BY <2>3, <2>6 DEF Same, Offsets
        <5>4. writebase + HEADER \in Nat /\ Length \in Nat
          BY <2>3 DEF Length
        <5>. QED  BY <5>1, <5>2, <5>3, <5>4, ExtractSame
      <4>2. CASE job.op \in {"scratch", "metadata"}
        <5>1. NewRecord.crc = <<>>
          <6>1. job.slot \in Live
            BY <1>0, <4>2, JobType DEF IndInv, TypeOK, SourcesExist, Live
          <6>2. Entry(job.slot) \in Record
            BY <1>0, <6>1, EntryType
          <6>. QED  BY <4>2, <6>2 DEF NewRecord, Record
        <5>2. NewRecord.span - HEADER = 0
          BY <1>0, <2>1, <2>2, <2>3, <4>2 DEF IndInv, TypeOK, RequestFitsBlock
        <5>3. Extract(cell'[target], writebase + HEADER, 0) = <<>>
          BY DEF Extract
        <5>. QED  BY <5>1, <5>2, <5>3
      <4>. QED  BY <2>3, <4>1, <4>2
    <3>. QED  BY <2>1, <2>6, <3>1, <3>2 DEF CommitIsRequested
  <2>10. CopyIsWhole'
    <3>1. pc' = "commit" /\ (Building' <=> rotating) /\ (rotating => NextEnd' = writebase)
      BY <1>2, <2>1 DEF Building, NextEnd
    <3>2. ASSUME rotating PROVE ~Sealed(target)' /\ LeadsTo(cell'[target'], NextEnd')
      <4>1. ~Sealed(target) /\ LeadsTo(cell[target], writebase)
        BY <2>8, <3>2 DEF MountInv, CopyIsWhole
      <4>2. LeadsTo(cell'[target], writebase)
        BY <2>3, <2>7, <4>1, LeadsToSame
      <4>. QED  BY <1>0, <2>1, <3>1, <3>2, <4>1, <4>2 DEF Sealed
    <3>. QED  BY <2>9, <3>1, <3>2 DEF CopyIsWhole
  <2>. QED  BY <1>0, <2>1, <2>3, <2>8, <2>10, MountStays
<1>. QED  BY <1>1, <1>2 DEF Fields

LEMMA CommitMounts ==
    ASSUME IndInv, SpaceInv, IndInv', MountInv, Commit
    PROVE  MountInv'
<1>1. /\ pc = "commit" /\ sector' = sector /\ Serviceable /\ cell \in [Sides -> Log] /\ cell' \in [Sides -> Log]
      /\ tail \in Nat /\ tail <= tail /\ tail' \in Nat /\ target \in Sides
  <2>1. pc = "commit" /\ sector' = sector /\ Serviceable
    BY DEF Commit, Serviceable
  <2>2. /\ cell \in [Sides -> Log] /\ cell' \in [Sides -> Log] /\ target \in Sides
        /\ tail \in Nat /\ tail' \in Nat
    BY DEF IndInv, TypeOK, Log
  <2>. QED  BY <2>1, <2>2
<1>2. PICK r : Commits(r)
  BY CommitPrograms DEF MountInv, CopyIsWhole
<1>3. /\ r = cell'[target][writebase] /\ writebase + r.span = cursor
      /\ \A s \in Sides : s # target => cell'[s] = cell[s]
  BY <1>2 DEF Commits
<1>4. Same(cell[target], cell'[target], 0, writebase)
  BY CommitPrograms DEF MountInv, CopyIsWhole
<1>5. /\ Same(cell[active], cell'[active], 0, tail) /\ (active # Chosen => cell'[Chosen] = cell[Chosen])
      /\ Building <=> rotating
      /\ rotating => NextEnd = writebase
      /\ ~rotating => target = active /\ writebase = tail
  BY <1>1, <1>3, <1>4, BehindDraft
<1>6. CASE rotating
  <2>1. /\ pc' = "seal" /\ Serviceable' /\ rotating'
        /\ UNCHANGED <<mounted, active, generation, tail, target, cursor>>
    BY <1>6 DEF Commit, Serviceable, indexVars, draftVars
  <2>2. writer # Idle
    BY <1>6 DEF IndInv, RotationIsAWrite
  <2>3. Reads(cell'[target], writebase)
    BY <1>2, <2>2, DraftReads
  <2>4. ~Sealed(target) /\ LeadsTo(cell[target], writebase)
    BY <1>5, <1>6 DEF MountInv, CopyIsWhole
  <2>5. LeadsTo(cell'[target], cursor)
    BY <1>1, <1>3, <1>4, <2>3, <2>4, LeadsOn
  <2>6. CopyIsWhole'
    <3>1. NextEnd' = cursor /\ CommitIsRequested' /\ ~Sealed(target)'
      BY <1>1, <2>1, <2>4, NoCommit DEF NextEnd, Sealed
    <3>. QED  BY <2>1, <2>5, <3>1 DEF CopyIsWhole
  <2>. QED  BY <1>1, <1>5, <2>1, <2>6, MountStays
<1>7. CASE ~rotating
  <2>1. /\ pc' \in {"idle", "scratch"} /\ Serviceable' /\ ~rotating' /\ tail' = cursor
        /\ UNCHANGED <<mounted, active, generation>>
    BY <1>7 DEF Commit, Publish, Reply, Forget, Serviceable
  <2>2. tail <= tail'
    <3>1. writebase = tail /\ cursor >= writebase + HEADER /\ cursor \in Nat /\ HEADER \in Nat
      BY <1>1, <1>5, <1>7, DraftPlace, JournalAssumption
    <3>. QED  BY <1>1, <2>1, <3>1
  <2>3. CopyIsWhole'
    BY <1>1, <2>1, CopyKept DEF Building
  <2>. QED  BY <1>1, <1>5, <2>1, <2>2, <2>3, MountStays
<1>. QED  BY <1>6, <1>7

(* Compaction *)

LEMMA NoneBuilt ==
    ASSUME ~Building', pc' # "commit"
    PROVE  CopyIsWhole'
BY NoCommit DEF CopyIsWhole, Building

(* A step that leaves the other side unsealed. *)
LEMMA UnsealedMounts ==
    ASSUME IndInv, IndInv', MountInv, Serviceable, Serviceable',
           UNCHANGED <<mounted, active, generation, tail>>, cell'[active] = cell[active],
           sector'[active] = sector[active], sector'[1 - active].state = "unsealed",
           CopyIsWhole'
    PROVE  MountInv'
<1>1. /\ active \in Sides /\ Sealed(active) /\ sector[active].base <= tail
      /\ LeadsTo(cell[active], sector[active].base)
  BY PrefixSide
<1>2. ASSUME NEW s \in Sides PROVE Sealed(s)' <=> s = active
  BY <1>1, <1>2 DEF Sealed, Sides
<1>3. PrefixIsWhole'
  <2>1. sector[active].base >= HEADER
    BY <1>1 DEF MountInv, PrefixIsWhole
  <2>2. \A s \in Sides : Sealed(s)' => sector'[s].base >= HEADER
    BY <1>2, <2>1
  <2>3. Sealed(active)'
    BY <1>1 DEF Sealed
  <2>. QED  BY <1>1, <2>2, <2>3 DEF PrefixIsWhole, Serviceable
<1>4. GenerationsAdjoin'
  <2>1. ~(Sealed(0)' /\ Sealed(1)')
    BY <1>2 DEF Sides
  <2>2. (mounted' <=> Serviceable') /\ (mounted' => generation' = sector'[active'].gen)
    BY DEF MountInv, GenerationsAdjoin
  <2>. QED  BY <2>1, <2>2 DEF GenerationsAdjoin
<1>5. Chosen' = active
  BY <1>1, <1>2 DEF Chosen, Sides
<1>6. PassesOver'
  BY <1>5 DEF PassesOver, Serviceable
<1>. QED  BY <1>3, <1>4, <1>6 DEF MountInv

LEMMA CompactBeginMounts ==
    ASSUME IndInv, SpaceInv, IndInv', MountInv, CompactBegin
    PROVE  MountInv'
<1>1. pc = "compact" /\ Serviceable /\ ~rotating
  BY DEF CompactBegin, Serviceable, SpaceInv, SpaceFits, WriteFits
<1>2. ASSUME NEW e, GiveUp(e), UNCHANGED flashVars PROVE MountInv'
  BY <1>1, <1>2, GiveUpMounts DEF flashVars, Same
<1>3. CASE /\ pc' = "erase"
           /\ UNCHANGED <<flashVars, indexVars, draftVars, writebase, cursor, data, nextheads,
                          channels, job, error, localVars>>
  BY <1>1, <1>3, QuietMounts DEF Serviceable, indexVars, draftVars
<1>. QED  BY <1>2, <1>3 DEF CompactBegin

LEMMA EraseMounts ==
    ASSUME IndInv, IndInv', MountInv, Erase
    PROVE  MountInv'
<1>1. /\ pc = "erase" /\ pc' = "copy" /\ Serviceable /\ Serviceable' /\ ~rotating'
      /\ UNCHANGED <<mounted, active, generation, tail, target>> /\ cursor' = HEADER
  BY DEF Erase, indexVars, draftVars, IndInv, RotationIsAWrite, Serviceable
<1>2. target # active /\ target \in Sides /\ active \in Sides /\ target = 1 - active
  BY <1>1, OtherSide DEF Rebuilding
<1>3. /\ cell'[active] = cell[active] /\ sector'[active] = sector[active]
      /\ cell'[target] = BlankLog /\ sector'[target].state = "unsealed"
  BY <1>2 DEF Erase, NoSector, IndInv, TypeOK
<1>4. CopyIsWhole'
  <2>1. NextEnd' = HEADER /\ ~Sealed(target)' /\ CommitIsRequested'
    BY <1>1, <1>3, NoCommit DEF NextEnd, Sealed
  <2>2. LeadsTo(cell'[target'], NextEnd') /\ Erased(cell'[target'], cursor')
    BY <1>1, <1>3, <2>1, NothingLeads, BlankIsLogged
  <2>. QED  BY <1>1, <2>1, <2>2 DEF CopyIsWhole
<1>. QED  BY <1>1, <1>2, <1>3, <1>4, UnsealedMounts

(* An erasure that stops half-way loses no side that is whole. *)
LEMMA HalfErasedSpares ==
    ASSUME IndInv, MountInv, pc = "erase", HalfErased(target)
    PROVE  /\ cell'[active] = cell[active] /\ sector'[active] = sector[active]
           /\ sector' = sector \/ sector'[1 - active].state = "unsealed"
           /\ sector' = sector => \A s \in Sides : s = Chosen /\ s # active => ~Mountable(s)'
<1>1. target # active /\ target \in Sides /\ active \in Sides /\ target = 1 - active
  BY OtherSide DEF Rebuilding
<1>2. cell'[active] = cell[active] /\ sector'[active] = sector[active]
  BY HalfErasedStays
<1>3. active # Chosen => ~Mountable(Chosen)
  BY DEF MountInv, PassesOver, Serviceable
<1>4. CASE UNCHANGED flashVars
  BY <1>2, <1>3, <1>4 DEF flashVars, Mountable, Sealed
<1>5. CASE sector' = [sector EXCEPT ![target] = NoSector]
  <2>1. sector'[1 - active].state = "unsealed"
    BY <1>1, <1>5 DEF NoSector, IndInv, TypeOK
  <2>2. \A s \in Sides : s # active => ~Mountable(s)'
    BY <1>1, <2>1 DEF Mountable, Sealed, Sides
  <2>. QED  BY <1>2, <2>1, <2>2
<1>6. CASE cell' = [cell EXCEPT ![target] = [o \in Offsets |-> Junk]] /\ sector' = sector
  <2>. SUFFICES ASSUME NEW s \in Sides, s = Chosen, s # active, Mountable(s)' PROVE FALSE
    BY <1>2, <1>6
  <2>1. s = target
    BY <1>1 DEF Sides
  <2>. DEFINE junk == [o \in Offsets |-> Junk]
  <2>2. cell'[s] = junk
    BY <1>1, <1>6, <2>1 DEF IndInv, TypeOK
  <2>3. junk \in Log /\ \A o \in Offsets : junk[o] = Junk
    BY CellType DEF Log
  <2>. HIDE DEF junk
  <2>4. sector[s].base \in Stops(junk, Records(junk)) /\ Sealed(s)
    BY <1>6, <2>2 DEF Mountable, Sealed
  <2>5. sector[s].base = HEADER
    BY <2>3, <2>4, JunkIsLost
  <2>6. Mountable(s)
    BY <2>4, <2>5 DEF Mountable, Stops
  <2>. QED  BY <1>3, <2>6
<1>. QED  BY <1>2, <1>4, <1>5, <1>6 DEF HalfErased

LEMMA EraseFailsMounts ==
    ASSUME IndInv, IndInv', MountInv, EraseFails
    PROVE  MountInv'
<1>1. /\ pc = "erase" /\ pc' = "idle" /\ Serviceable /\ Serviceable' /\ ~rotating'
      /\ UNCHANGED <<mounted, active, generation, tail>>
  BY DEF EraseFails, GiveUp, Reply, Forget, Serviceable, IndInv, RotationIsAWrite
<1>2. CopyIsWhole'
  BY <1>1, NoneBuilt DEF Building
<1>3. /\ cell'[active] = cell[active] /\ sector'[active] = sector[active]
      /\ sector' = sector \/ sector'[1 - active].state = "unsealed"
      /\ sector' = sector => \A s \in Sides : s = Chosen /\ s # active => ~Mountable(s)'
  <2>1. HalfErased(target)
    BY DEF EraseFails
  <2>. QED  BY <1>1, <2>1, HalfErasedSpares
<1>4. tail \in Nat /\ tail <= tail /\ Same(cell[active], cell'[active], 0, tail)
  BY <1>3 DEF Same, IndInv, TypeOK
<1>. QED  BY <1>1, <1>2, <1>3, <1>4, PrefixStays, UnsealedMounts

LEMMA CompactFailsMounts ==
    ASSUME IndInv, IndInv', MountInv, CompactFails
    PROVE  MountInv'
<1>1. pc \in {"copy", "move", "seal", "activate"} /\ Serviceable /\ GiveUp(25) /\ UNCHANGED flashVars
  BY DEF CompactFails, Serviceable
<1>. QED  BY <1>1, GiveUpMounts DEF flashVars, Same

LEMMA CopyEndsMounts ==
    ASSUME IndInv, IndInv', MountInv, CopyNext, ToCopy = {}
    PROVE  MountInv'
<1>1. /\ pc = "copy" /\ pc' \in {"move", "seal"} /\ Serviceable /\ Serviceable' /\ ~rotating
      /\ UNCHANGED <<cell, sector, mounted, active, generation, tail, rotating, target, cursor>>
  BY DEF CopyNext, Serviceable, IndInv, RotationIsAWrite, indexVars, draftVars
<1>2. Building /\ NextEnd = cursor /\ NextEnd' = cursor
  BY <1>1 DEF Building, NextEnd
<1>3. CopyIsWhole'
  BY <1>1, <1>2, CopyKept DEF Same
<1>4. tail \in Nat /\ tail <= tail
  BY DEF IndInv, TypeOK
<1>. QED  BY <1>1, <1>3, <1>4, MountStays DEF Same

LEMMA CopyOneMounts ==
    ASSUME IndInv, SpaceInv, IndInv', SpaceInv', MountInv, CopyNext, ToCopy # {}
    PROVE  MountInv'
<1>1. /\ pc = "copy" /\ pc' = "copy" /\ Serviceable /\ Serviceable' /\ sector' = sector
      /\ UNCHANGED <<mounted, active, generation, tail, target>>
  BY DEF CopyNext, Serviceable, indexVars
<1>2. Building /\ NextEnd = cursor /\ NextEnd' = cursor'
  BY <1>1 DEF Building, NextEnd, CopyNext, draftVars, IndInv, RotationIsAWrite
<1>3. /\ Chosen = active /\ target # active /\ target \in Sides /\ ~Sealed(target)
      /\ LeadsTo(cell[target], cursor)
  BY <1>1, <1>2, BuiltSide
<1>4. cell[target] \in Log /\ cell'[target] \in Log
  BY <1>3 DEF IndInv, TypeOK, Log
<1>5. Erased(cell[target], cursor) /\ HEADER <= cursor
  BY <1>1, <1>3, <1>4, LeadsToType DEF MountInv, CopyIsWhole
<1>6. PICK i, r : Copies(i, r)
  BY <1>5, CopyOneReads
<1>7. /\ cell'[active] = cell[active] /\ r = cell'[target][cursor] /\ cursor + r.span = cursor'
      /\ Reads(cell'[target], cursor) /\ Same(cell[target], cell'[target], 0, cursor)
      /\ Erased(cell'[target], cursor')
  BY <1>6 DEF Copies
<1>8. LeadsTo(cell'[target], cursor')
  BY <1>3, <1>4, <1>7, LeadsOn
<1>9. CopyIsWhole'
  <2>1. ~Sealed(target)' /\ CommitIsRequested'
    BY <1>1, <1>3, NoCommit DEF Sealed
  <2>. QED  BY <1>1, <1>2, <1>7, <1>8, <2>1 DEF CopyIsWhole
<1>10. tail \in Nat /\ tail <= tail /\ Same(cell[active], cell'[active], 0, tail)
  BY <1>7 DEF Same, IndInv, TypeOK
<1>. QED  BY <1>1, <1>3, <1>9, <1>10, MountStays

LEMMA MoveMounts ==
    ASSUME IndInv, IndInv', SpaceInv', MountInv, Move
    PROVE  MountInv'
<1>1. /\ pc = "move" /\ Serviceable /\ ~rotating /\ sector' = sector
      /\ cell' = [cell EXCEPT ![target] = MovedTo(@)]
  BY DEF Move, Serviceable, IndInv, RotationIsAWrite
<1>2. Building /\ NextEnd = cursor
  BY <1>1 DEF Building, NextEnd
<1>3. Chosen = active /\ target # active /\ target \in Sides
  BY <1>1, <1>2, BuiltSide
<1>4. /\ cell \in [Sides -> Log] /\ active \in Sides /\ cursor \in Nat /\ HEADER \in Nat /\ cursor + HEADER \in Nat
      /\ tail \in Nat /\ tail <= tail
  BY JournalAssumption DEF IndInv, TypeOK, Log
<1>5. cell'[active] = cell[active] /\ Same(cell[active], cell'[active], 0, tail)
  BY <1>1, <1>3, <1>4 DEF Same
<1>6. CASE GiveUp(25)
  BY <1>1, <1>3, <1>5, <1>6, GiveUpMounts
<1>7. CASE /\ rotating' = TRUE /\ writebase' = cursor
           /\ pc' = "payload"
           /\ UNCHANGED <<indexVars, writer, failed, wslot, newname, oldlen, target, data,
                          nextheads, channels, job, error>>
  <2>1. Moved \in Seq(Values)
    <3>1. active \in Sides /\ partoff \in Nat /\ Len(data) \in Nat
      BY LenProperties DEF IndInv, TypeOK
    <3>. QED  BY <1>4, <3>1, StoredType DEF Moved
  <2>. DEFINE log == Programmed(cell[target], cursor + HEADER, Moved)
  <2>2. log \in Log /\ \A o \in Offsets : o < cursor + HEADER => log[o] = cell[target][o]
    <3>1. cell[target] \in Log
      BY <1>3, <1>4
    <3>. QED  BY <1>4, <2>1, <3>1, ProgrammedType
  <2>3. cell'[target] = [log EXCEPT ![cursor] = Over(@, Tag)]
    BY <1>1, <1>3, <1>4 DEF MovedTo
  <2>. HIDE DEF log
  <2>4. Same(cell[target], cell'[target], 0, cursor)
    <3>1. \A o \in Offsets : o < cursor => o < cursor + HEADER /\ o # cursor
      BY <1>4 DEF Offsets
    <3>. QED  BY <2>2, <2>3, <3>1 DEF Same, Log
  <2>5. /\ Serviceable' /\ Building' /\ NextEnd' = cursor
        /\ UNCHANGED <<mounted, active, generation, tail, target>>
    BY <1>7 DEF Serviceable, Building, NextEnd, indexVars
  <2>6. CopyIsWhole'
    BY <1>1, <1>2, <1>7, <2>4, <2>5, CopyKept
  <2>. QED  BY <1>1, <1>3, <1>4, <1>5, <2>5, <2>6, MountStays
<1>. QED  BY <1>6, <1>7 DEF Move

LEMMA SealMounts ==
    ASSUME IndInv, IndInv', MountInv, Seal
    PROVE  MountInv'
<1>1. /\ pc = "seal" /\ pc' = "activate" /\ Serviceable /\ Serviceable' /\ cell' = cell
      /\ sector' = [sector EXCEPT ![target] = [state |-> "unsealed", base |-> cursor, gen |-> NextGeneration]]
      /\ UNCHANGED <<mounted, active, generation, tail, target, cursor>>
  BY DEF Seal, Serviceable, indexVars, cursorVars
<1>2. Building /\ NextEnd = cursor /\ NextEnd' = cursor /\ NextGeneration' = NextGeneration
  BY <1>1 DEF Building, NextEnd, NextGeneration
<1>3. /\ target # active /\ target = 1 - active /\ target \in Sides /\ active \in Sides
      /\ LeadsTo(cell[target], cursor)
  <2>1. target # active /\ target = 1 - active /\ target \in Sides /\ LeadsTo(cell[target], cursor)
    BY <1>1, <1>2, BuiltSide
  <2>. QED  BY <2>1 DEF IndInv, TypeOK
<1>4. /\ sector'[active] = sector[active]
      /\ sector'[target] = [state |-> "unsealed", base |-> cursor, gen |-> NextGeneration]
  BY <1>1, <1>3 DEF IndInv, TypeOK
<1>5. CopyIsWhole'
  <2>1. ~Sealed(target)' /\ CommitIsRequested'
    BY <1>1, <1>4, NoCommit DEF Sealed
  <2>. QED  BY <1>1, <1>2, <1>3, <1>4, <2>1 DEF CopyIsWhole
<1>. QED  BY <1>1, <1>3, <1>4, <1>5, UnsealedMounts

LEMMA ActivateMounts ==
    ASSUME IndInv, IndInv', MountInv, Activate
    PROVE  MountInv'
<1>1. /\ pc = "activate" /\ pc' \in {"idle", "tag"} /\ Serviceable /\ Serviceable' /\ cell' = cell
      /\ sector' = [sector EXCEPT ![target].state = "sealed"]
      /\ active' = target /\ generation' = NextGeneration /\ tail' = cursor /\ mounted' = mounted /\ rotating' = FALSE
  BY DEF Activate, Publish, Reply, Serviceable, Forget
<1>2. Building /\ NextEnd = cursor
  BY <1>1 DEF Building, NextEnd
<1>3. /\ target \in Sides /\ active \in Sides /\ target # active /\ target = 1 - active /\ active = 1 - target
      /\ cell[target] \in Log
  <2>1. target \in Sides /\ active \in Sides /\ target # active /\ target = 1 - active
    BY <1>1, OtherSide DEF Rebuilding
  <2>2. active = 1 - target
    BY <2>1 DEF Sides
  <2>. QED  BY <2>1, <2>2 DEF IndInv, TypeOK, Log
<1>4. LeadsTo(cell[target], cursor)
  BY <1>1, <1>2, BuiltSide
<1>5. /\ Sealed(active) /\ generation = sector[active].gen /\ generation \in 0..(GENERATIONS - 1)
      /\ sector[target] = [state |-> "unsealed", base |-> cursor, gen |-> NextGeneration]
      /\ GENERATIONS \in Nat /\ GENERATIONS >= 4
  <2>1. Sealed(active)
    BY <1>1, PrefixSide
  <2>2. generation = sector[active].gen
    BY <1>1 DEF MountInv, GenerationsAdjoin
  <2>3. sector[target] = [state |-> "unsealed", base |-> cursor, gen |-> NextGeneration]
    BY <1>1 DEF MountInv, CopyIsWhole
  <2>. QED  BY <2>1, <2>2, <2>3, JournalAssumption DEF IndInv, TypeOK
<1>6. /\ sector'[active] = sector[active] /\ sector'[target].base = cursor
      /\ sector'[target].gen = NextGeneration /\ sector'[target].state = "sealed"
  <2>1. sector \in [Sides -> [state: {"unsealed", "sealed"}, gen: 0..(GENERATIONS - 1), base: Nat]]
    BY DEF IndInv, TypeOK
  <2>2. sector'[active] = sector[active] /\ sector'[target] = [sector[target] EXCEPT !.state = "sealed"]
    BY <1>1, <1>3, <2>1
  <2>. QED  BY <1>5, <2>2
<1>7. \A s \in Sides : s = target \/ s = active
  BY <1>3 DEF Sides
<1>8. PrefixIsWhole'
  <2>1. cursor \in Nat /\ HEADER <= cursor /\ cursor <= cursor
    BY <1>3, <1>4, LeadsToType
  <2>2. sector[active].base >= HEADER
    BY <1>3, <1>5 DEF MountInv, PrefixIsWhole
  <2>3. \A s \in Sides : sector'[s].base >= HEADER
    BY <1>6, <1>7, <2>1, <2>2
  <2>4. Sealed(active)' /\ LeadsTo(cell'[active'], sector'[active'].base)
    BY <1>1, <1>4, <1>6 DEF Sealed
  <2>. QED  BY <1>1, <1>6, <2>1, <2>3, <2>4 DEF PrefixIsWhole, Serviceable
<1>9. CopyIsWhole'
  BY <1>1, NoneBuilt DEF Building
<1>10. GenerationsAdjoin'
  <2>1. (mounted' <=> Serviceable') /\ generation' = sector'[active'].gen
    BY <1>1, <1>6 DEF MountInv, GenerationsAdjoin
  <2>2. sector'[target].gen = (sector'[1 - target].gen + 1) % GENERATIONS
    BY <1>3, <1>5, <1>6 DEF NextGeneration
  <2>3. \E s \in Sides : sector'[s].gen = (sector'[1 - s].gen + 1) % GENERATIONS
    BY <1>3, <2>2
  <2>. QED  BY <2>1, <2>3 DEF GenerationsAdjoin
<1>11. ASSUME NEW s \in Sides, NEW r \in Sides, s = target, r = active PROVE s = Chosen'
  <2>1. Sealed(s)' /\ Sealed(r)'
    BY <1>5, <1>6, <1>11 DEF Sealed
  <2>2. Newer(s, r)' /\ ~Newer(r, s)'
    BY <1>5, <1>6, <1>11, Remainders DEF Newer, NextGeneration
  <2>3. CASE s = 1
    BY <1>3, <1>11, <2>1, <2>2, <2>3 DEF Chosen
  <2>4. CASE s = 0
    BY <1>3, <1>11, <2>1, <2>2, <2>4 DEF Chosen
  <2>. QED  BY <2>3, <2>4 DEF Sides
<1>12. PassesOver'
  <2>1. active' = Chosen'
    BY <1>1, <1>3, <1>11
  <2>. QED  BY <1>1, <2>1 DEF PassesOver, Serviceable
<1>. QED  BY <1>8, <1>9, <1>10, <1>12 DEF MountInv

-----------------------------------------------------------------------------
(* Loss of power, decay, and mount() *)

(* What is left when the power is off. *)
LEMMA OffMounts ==
    ASSUME pc' = "off", ~rotating', mounted' = FALSE,
           \A s \in Sides : Sealed(s)' => sector'[s].base >= HEADER,
           GenerationsAdjoin, \A s \in Sides : Sealed(s)' => Sealed(s) /\ sector'[s] = sector[s]
    PROVE  MountInv'
<1>1. ~Serviceable' /\ ~Building'
  BY DEF Serviceable, Building
<1>2. PrefixIsWhole' /\ CopyIsWhole' /\ PassesOver'
  BY <1>1, NoneBuilt DEF PrefixIsWhole, PassesOver
<1>3. GenerationsAdjoin'
  <2>1. 0 \in Sides /\ 1 \in Sides /\ \A s \in Sides : 1 - s \in Sides
    BY DEF Sides
  <2>2. ASSUME Sealed(0)', Sealed(1)' PROVE \E s \in Sides : sector'[s].gen = (sector'[1 - s].gen + 1) % GENERATIONS
    <3>1. Sealed(0) /\ Sealed(1) /\ \A s \in Sides : Sealed(s)'
      BY <2>1, <2>2 DEF Sides
    <3>2. PICK s \in Sides : sector[s].gen = (sector[1 - s].gen + 1) % GENERATIONS
      BY <3>1 DEF GenerationsAdjoin
    <3>3. sector'[s] = sector[s] /\ sector'[1 - s] = sector[1 - s]
      BY <2>1, <3>1
    <3>. QED  BY <3>2, <3>3
  <2>. QED  BY <1>1, <2>2 DEF GenerationsAdjoin
<1>. QED  BY <1>2, <1>3 DEF MountInv

LEMMA PowerLossMounts ==
    ASSUME IndInv, IndInv', MountInv, PowerLoss
    PROVE  MountInv'
<1>1. pc' = "off" /\ ~rotating' /\ mounted' = FALSE
  BY DEF PowerLoss, NoIndex, Forget
<1>2. \A s \in Sides : Sealed(s)' => Sealed(s) /\ sector'[s] = sector[s]
  <2>1. CASE pc = "erase"
    <3>1. HalfErased(target)
      BY <2>1 DEF PowerLoss
    <3>2. /\ sector'[active] = sector[active]
          /\ sector' = sector \/ sector'[1 - active].state = "unsealed"
      BY <2>1, <3>1, HalfErasedSpares
    <3>3. \A s \in Sides : s = active \/ s = 1 - active
      <4>1. active \in Sides
        BY DEF IndInv, TypeOK
      <4>. QED  BY <4>1 DEF Sides
    <3>. QED  BY <3>2, <3>3 DEF Sealed
  <2>2. CASE pc # "erase"
    BY <2>2 DEF PowerLoss, flashVars, Sealed
  <2>. QED  BY <2>1, <2>2
<1>3. \A s \in Sides : Sealed(s)' => sector'[s].base >= HEADER
  BY <1>2 DEF MountInv, PrefixIsWhole
<1>4. GenerationsAdjoin
  BY DEF MountInv
<1>. QED  BY <1>1, <1>2, <1>3, <1>4, OffMounts

LEMMA DecayMounts ==
    ASSUME IndInv, IndInv', MountInv, Decay
    PROVE  MountInv'
<1>1. pc = "off" /\ pc' = "off" /\ sector' = sector /\ rotating' = rotating /\ mounted' = mounted
  BY DEF Decay, indexVars, draftVars
<1>2. mounted = FALSE /\ ~rotating
  BY <1>1, MountingType DEF MountInv, GenerationsAdjoin, Serviceable, Mounting, IndInv, TypeOK
<1>3. \A s \in Sides : Sealed(s)' => Sealed(s) /\ sector'[s] = sector[s] /\ sector'[s].base >= HEADER
  BY <1>1 DEF Sealed, MountInv, PrefixIsWhole
<1>4. GenerationsAdjoin
  BY DEF MountInv
<1>. QED  BY <1>1, <1>2, <1>3, <1>4, OffMounts

(* mount() starts to scan a side. *)
LEMMA ScanMounts ==
    ASSUME IndInv, IndInv', MountInv, Mounting, UNCHANGED <<flashVars, mounted, draftVars>>,
           pc' = "scan", at' = HEADER, Sealed(active'),
           IF retried' THEN active' # Chosen /\ ~Mountable(Chosen) ELSE active' = Chosen
    PROVE  MountInv'
<1>1. /\ ~Serviceable' /\ ~Building' /\ ~mounted' /\ sector' = sector /\ cell' = cell
      /\ HEADER \in Nat /\ active' \in Sides
  <2>1. ~rotating /\ ~mounted
    BY MountingType DEF MountInv, GenerationsAdjoin, Serviceable, Mounting
  <2>2. rotating' = rotating /\ mounted' = mounted /\ sector' = sector /\ cell' = cell
    BY DEF draftVars, flashVars
  <2>3. HEADER \in Nat /\ active' \in Sides
    BY JournalAssumption DEF IndInv, TypeOK
  <2>. QED  BY <2>1, <2>2, <2>3 DEF Serviceable, Building
<1>2. ASSUME NEW s, s = active'
      PROVE  \E recs \in SUBSET Offsets :
               /\ IsChain(cell[s], recs, HEADER)
               /\ sector[s].base <= HEADER => sector[s].base \in Stops(cell[s], recs)
  <2>1. IsChain(cell[s], {}, HEADER)
    BY <1>1 DEF IsChain, Stops
  <2>2. sector[s].base >= HEADER /\ sector[s].base \in Nat
    <3>1. s \in Sides /\ Sealed(s)
      BY <1>1, <1>2
    <3>. QED  BY <3>1 DEF MountInv, PrefixIsWhole, IndInv, TypeOK
  <2>3. sector[s].base <= HEADER => sector[s].base \in Stops(cell[s], {})
    BY <1>1, <2>2 DEF Stops
  <2>4. {} \in SUBSET Offsets
    OBVIOUS
  <2>. QED  BY <2>1, <2>3, <2>4
<1>3. PrefixIsWhole'
  <2>1. Sealed(active)'
    BY <1>1 DEF Sealed
  <2>2. \A s \in Sides : Sealed(s)' => sector'[s].base >= HEADER
    BY <1>1 DEF Sealed, MountInv, PrefixIsWhole
  <2>. QED  BY <1>1, <1>2, <2>1, <2>2 DEF PrefixIsWhole
<1>4. CopyIsWhole'
  BY <1>1, NoneBuilt
<1>5. GenerationsAdjoin'
  <2>1. Sealed(0)' /\ Sealed(1)' => \E s \in Sides : sector'[s].gen = (sector'[1 - s].gen + 1) % GENERATIONS
    BY <1>1 DEF Sealed, MountInv, GenerationsAdjoin
  <2>. QED  BY <1>1, <2>1 DEF GenerationsAdjoin
<1>6. PassesOver'
  <2>1. Chosen' = Chosen /\ Sealed(active)' /\ \A s : Mountable(s)' <=> Mountable(s)
    BY <1>1 DEF Chosen, Sealed, Newer, Mountable
  <2>2. IF retried' THEN active' # Chosen' /\ ~Mountable(Chosen)' ELSE active' = Chosen'
    <3>1. \A s : s = Chosen => (Mountable(s)' <=> Mountable(s))
      BY <2>1
    <3>. QED  BY <1>1, <2>1, <3>1 DEF Mountable
  <2>. QED  BY <1>1, <2>1, <2>2 DEF PassesOver
<1>. QED  BY <1>3, <1>4, <1>5, <1>6 DEF MountInv

(* mount() gives up. *)
LEMMA NoFilesystemMounts ==
    ASSUME IndInv, IndInv', MountInv, Mounting, NoFilesystem, UNCHANGED flashVars
    PROVE  MountInv'
<1>1. pc' = "off" /\ ~rotating' /\ mounted' = FALSE /\ sector' = sector /\ cell' = cell
  <2>1. ~rotating
    BY MountingType
  <2>. QED  BY <2>1 DEF NoFilesystem, NoIndex, draftVars, flashVars
<1>2. \A s \in Sides : Sealed(s)' => Sealed(s) /\ sector'[s] = sector[s]
  BY <1>1 DEF Sealed
<1>3. \A s \in Sides : Sealed(s)' => sector'[s].base >= HEADER
  BY <1>2 DEF MountInv, PrefixIsWhole
<1>4. GenerationsAdjoin
  BY DEF MountInv
<1>. QED  BY <1>1, <1>2, <1>3, <1>4, OffMounts

LEMMA MountMounts ==
    ASSUME IndInv, IndInv', MountInv, Mount
    PROVE  MountInv'
<1>1. Mounting
  BY DEF Mount, Mounting
<1>2. CASE /\ Sealed(0) \/ Sealed(1)
           /\ ScanFrom(Chosen) /\ retried' = FALSE
           /\ UNCHANGED <<flashVars, mounted, draftVars>>
  <2>1. pc' = "scan" /\ at' = HEADER /\ active' = Chosen /\ Sealed(Chosen)
    BY <1>2 DEF ScanFrom, Chosen
  <2>2. Sealed(active')
    BY <2>1 DEF Sealed
  <2>. QED  BY <1>1, <1>2, <2>1, <2>2, ScanMounts
<1>3. CASE NoFilesystem /\ UNCHANGED flashVars
  BY <1>1, <1>3, NoFilesystemMounts
<1>. QED  BY <1>2, <1>3 DEF Mount

LEMMA CondemnedIsPassed ==
    ASSUME IndInv, MountInv, pc = "condemned"
    PROVE  /\ Mounting /\ active \in Sides /\ ~Mountable(active)
           /\ IF retried THEN active # Chosen /\ ~Mountable(Chosen) ELSE active = Chosen
           /\ Chosen \in Sides /\ 1 - active # active
BY DEF Mounting, MountInv, PassesOver, Chosen, Sides, IndInv, TypeOK

LEMMA FallBackMounts ==
    ASSUME IndInv, IndInv', MountInv, FallBack
    PROVE  MountInv'
<1>1. CASE ~retried /\ Sealed(1 - active)
  <2>1. pc = "condemned" /\ ScanFrom(1 - active) /\ retried' = TRUE /\ UNCHANGED <<flashVars, mounted, draftVars>>
    BY <1>1 DEF FallBack
  <2>2. pc' = "scan" /\ at' = HEADER /\ active' = 1 - active /\ Sealed(active')
    BY <1>1, <2>1 DEF ScanFrom
  <2>3. Mounting /\ active' # Chosen /\ ~Mountable(Chosen)
    BY <1>1, <2>1, <2>2, CondemnedIsPassed
  <2>. QED  BY <2>1, <2>2, <2>3, ScanMounts
<1>2. CASE ~(~retried /\ Sealed(1 - active))
  BY <1>2, CondemnedIsPassed, NoFilesystemMounts DEF FallBack
<1>. QED  BY <1>1, <1>2

(* What scan() has read so far. *)
LEMMA ScannedLog ==
    ASSUME IndInv, MountInv, pc = "scan", NEW log, log = cell[active], NEW base, base = sector[active].base
    PROVE  /\ log \in Log /\ active \in Sides /\ Sealed(active) /\ base \in Nat /\ HEADER <= base /\ at \in Nat
           /\ \E recs \in SUBSET Offsets : IsChain(log, recs, at) /\ (base <= at => base \in Stops(log, recs))
<1>1. log \in Log /\ active \in Sides /\ base \in Nat /\ at \in Nat
  BY DEF IndInv, TypeOK, Log
<1>2. Sealed(active)
  BY DEF MountInv, PrefixIsWhole
<1>3. HEADER <= base
  <2>1. base >= HEADER
    BY <1>1, <1>2 DEF MountInv, PrefixIsWhole
  <2>. QED  BY <1>1, <2>1, JournalAssumption
<1>4. \E recs \in SUBSET Offsets : IsChain(log, recs, at) /\ (base <= at => base \in Stops(log, recs))
  BY DEF MountInv, PrefixIsWhole
<1>. QED  BY <1>1, <1>2, <1>3, <1>4

(* A scan goes on, or its side is condemned. *)
LEMMA StillScanning ==
    ASSUME IndInv, IndInv', MountInv, pc = "scan", pc' \in {"scan", "condemned"},
           UNCHANGED <<flashVars, mounted, active, retried, draftVars>>,
           pc' = "condemned" => ~Mountable(active),
           pc' = "scan" => \E recs \in SUBSET Offsets :
                             /\ IsChain(cell[active], recs, at')
                             /\ sector[active].base <= at' => sector[active].base \in Stops(cell[active], recs)
    PROVE  MountInv'
<1>1. Sealed(active) /\ \A s \in Sides : Sealed(s) => sector[s].base >= HEADER
  BY DEF MountInv, PrefixIsWhole
<1>2. ~Serviceable /\ ~Serviceable' /\ ~Building' /\ sector' = sector /\ cell' = cell
  <2>1. ~rotating
    BY MountingType DEF Mounting
  <2>. QED  BY <2>1 DEF draftVars, Building, Serviceable, flashVars
<1>3. PrefixIsWhole'
  BY <1>1, <1>2 DEF PrefixIsWhole, Sealed
<1>4. CopyIsWhole'
  BY <1>2, NoneBuilt
<1>5. GenerationsAdjoin'
  BY <1>2 DEF MountInv, GenerationsAdjoin, Sealed
<1>6. PassesOver'
  <2>1. Chosen' = Chosen
    BY <1>2 DEF Chosen, Sealed, Newer
  <2>2. IF retried THEN active # Chosen /\ ~Mountable(Chosen) ELSE active = Chosen
    BY DEF MountInv, PassesOver
  <2>3. ASSUME NEW s, ~Mountable(s) PROVE ~Mountable(s)'
    BY <1>2, <2>3 DEF Mountable, Sealed
  <2>4. ~Mountable(Chosen) => ~Mountable(Chosen)'
    BY <1>2, <2>1 DEF Mountable, Sealed
  <2>5. ~Mountable(active) => ~Mountable(active)'
    BY <1>2 DEF Mountable, Sealed
  <2>. QED  BY <1>1, <1>2, <2>1, <2>2, <2>4, <2>5 DEF PassesOver, Sealed
<1>. QED  BY <1>3, <1>4, <1>5, <1>6 DEF MountInv

LEMMA ScanRecordMounts ==
    ASSUME IndInv, IndInv', MountInv, ScanRecord
    PROVE  MountInv'
<1>. DEFINE log == cell[active]
            base == sector[active].base
            next == at + log[at].span
<1>1. /\ pc = "scan" /\ MoreToScan /\ Valid(active, at) /\ at' = next
      /\ UNCHANGED <<flashVars, mounted, active, retried, draftVars>>
      /\ pc' = IF at < base /\ next > base THEN "condemned" ELSE "scan"
  BY DEF ScanRecord
<1>2. /\ log \in Log /\ active \in Sides /\ base \in Nat /\ HEADER <= base /\ at \in Nat
      /\ \E recs \in SUBSET Offsets : IsChain(log, recs, at) /\ (base <= at => base \in Stops(log, recs))
  BY <1>1, ScannedLog
<1>3. PICK recs \in SUBSET Offsets : IsChain(log, recs, at) /\ (base <= at => base \in Stops(log, recs))
  BY <1>2
<1>4. Reads(log, at)
  <2>1. at \in Offsets
    BY <1>1, <1>2, JournalAssumption DEF MoreToScan, Offsets
  <2>. QED  BY <1>1, <1>2, <2>1, ValidReads
<1>. HIDE DEF log, base
<1>. DEFINE more == recs \cup {at}
<1>5. IsChain(log, more, next) /\ next \in Nat /\ at < next
  <2>1. IsChain(log, more, next)
    BY <1>2, <1>3, <1>4, ChainGrows DEF Same
  <2>2. next \in Nat /\ at < next
    BY <1>2, <1>4, ReadsType
  <2>. QED  BY <2>1, <2>2
<1>6. ASSUME at < base, next > base PROVE ~Mountable(active)
  <2>. SUFFICES ASSUME base \in Stops(log, Records(log)) PROVE FALSE
    BY DEF Mountable, log, base
  <2>1. PICK rest : Records(log) = more \cup rest /\ \A o \in rest : o \in Offsets /\ o >= next /\ Reads(log, o)
    BY <1>2, <1>5, ChainSplits
  <2>2. HEADER <= at
    BY <1>2, <1>3, ChainSplits
  <2>3. base # HEADER
    BY <1>2, <1>6, <2>2, JournalAssumption
  <2>4. PICK o \in more \cup rest : base = o + log[o].span
    BY <2>1, <2>3 DEF Stops
  <2>5. CASE o \in recs
    <3>1. o + log[o].span <= at
      BY <1>3, <2>5 DEF IsChain
    <3>. QED  BY <1>2, <1>6, <2>4, <3>1
  <2>6. CASE o = at
    BY <1>5, <1>2, <1>6, <2>4, <2>6
  <2>7. CASE o \in rest
    <3>1. o \in Nat /\ o >= next
      BY <2>1, <2>7, JournalAssumption DEF Offsets
    <3>2. o < o + log[o].span /\ o + log[o].span \in Nat
      BY <1>2, <2>1, <2>7, <3>1, ReadsType
    <3>. QED  BY <1>2, <1>5, <1>6, <2>4, <3>1, <3>2
  <2>. QED  BY <2>4, <2>5, <2>6, <2>7
<1>7. ASSUME ~(at < base /\ next > base), base <= next PROVE base \in Stops(log, more)
  <2>1. CASE base <= at
    BY <1>3, <2>1 DEF Stops
  <2>2. CASE at < base
    BY <1>2, <1>5, <1>7, <2>2 DEF Stops
  <2>. QED  BY <1>2, <2>1, <2>2
<1>8. pc' = "scan" => \E mine \in SUBSET Offsets : IsChain(log, mine, at') /\ (base <= at' => base \in Stops(log, mine))
  <2>1. more \in SUBSET Offsets
    BY <1>5 DEF IsChain
  <2>2. pc' = "scan" => ~(at < base /\ next > base)
    BY <1>1 DEF log, base
  <2>3. at' = next
    BY <1>1 DEF log
  <2>. HIDE DEF more, next
  <2>. QED  BY <1>5, <1>7, <2>1, <2>2, <2>3
<1>9. pc' \in {"scan", "condemned"} /\ (pc' = "condemned" => ~Mountable(active))
  BY <1>1, <1>6 DEF log, base
<1>. QED  BY <1>1, <1>8, <1>9, StillScanning DEF log, base

LEMMA ScanEndsMounts ==
    ASSUME IndInv, IndInv', MountInv, ScanEnds
    PROVE  MountInv'
<1>. DEFINE log == cell[active]
            base == sector[active].base
<1>1. /\ pc = "scan" /\ ~(MoreToScan /\ Valid(active, at)) /\ tail' = at
      /\ UNCHANGED <<flashVars, active, draftVars>> /\ sector' = sector /\ cell' = cell
  BY DEF ScanEnds, flashVars
<1>2. /\ log \in Log /\ active \in Sides /\ Sealed(active) /\ base \in Nat /\ HEADER <= base /\ at \in Nat
      /\ \E recs \in SUBSET Offsets : IsChain(log, recs, at) /\ (base <= at => base \in Stops(log, recs))
  BY <1>1, ScannedLog
<1>3. PICK recs \in SUBSET Offsets : IsChain(log, recs, at) /\ (base <= at => base \in Stops(log, recs))
  BY <1>2
<1>4. ~Reads(log, at)
  <2>. SUFFICES ASSUME Reads(log, at) PROVE FALSE
    OBVIOUS
  <2>1. at \in Offsets
    BY <1>2, ReadsType
  <2>2. Valid(active, at)
    BY <1>2, <2>1, ValidReads
  <2>3. MoreToScan
    BY DEF Reads, MoreToScan, Blank
  <2>. QED  BY <1>1, <2>2, <2>3
<1>. HIDE DEF log, base
<1>5. CASE PrefixLost
  <2>1. pc' = "condemned" /\ mounted' = mounted /\ retried' = retried
    BY <1>5 DEF ScanEnds
  <2>2. ~Mountable(active)
    <3>. SUFFICES ASSUME base \in Stops(log, Records(log)) PROVE FALSE
      BY DEF Mountable, log, base
    <3>1. Records(log) = recs
      BY <1>2, <1>3, <1>4, ChainIsRecords
    <3>2. HEADER <= at /\ \A o \in recs : o + log[o].span <= at
      BY <1>2, <1>3, ChainSplits DEF IsChain
    <3>3. base <= at
      BY <3>1, <3>2 DEF Stops
    <3>4. at < base
      BY <1>5 DEF PrefixLost, base
    <3>. QED  BY <1>2, <3>3, <3>4
  <2>. QED  BY <1>1, <2>1, <2>2, StillScanning
<1>6. CASE ~PrefixLost
  <2>1. pc' = "idle" /\ mounted' = TRUE /\ generation' = sector[active].gen
    BY <1>6 DEF ScanEnds
  <2>2. ~rotating' /\ Serviceable' /\ ~Building'
    <3>1. ~rotating
      BY <1>1, MountingType DEF Mounting
    <3>. QED  BY <1>1, <2>1, <3>1 DEF draftVars, Building, Serviceable
  <2>3. base <= at
    BY <1>2, <1>6 DEF PrefixLost, base
  <2>4. LeadsTo(log, base)
    BY <1>2, <1>3, <2>3, SubChain
  <2>5. PrefixIsWhole'
    <3>1. Sealed(active)' /\ \A s \in Sides : Sealed(s)' => sector'[s].base >= HEADER
      BY <1>1, <1>2 DEF Sealed, MountInv, PrefixIsWhole
    <3>. QED  BY <1>1, <2>1, <2>3, <2>4, <3>1 DEF PrefixIsWhole, log, base
  <2>6. CopyIsWhole'
    BY <2>1, <2>2, NoneBuilt
  <2>7. GenerationsAdjoin'
    BY <1>1, <2>1, <2>2 DEF MountInv, GenerationsAdjoin, Sealed
  <2>8. PassesOver'
    <3>1. active = Chosen \/ ~Mountable(Chosen)
      BY <1>1 DEF MountInv, PassesOver
    <3>2. Chosen' = Chosen
      BY <1>1 DEF Chosen, Sealed, Newer
    <3>3. ~Mountable(Chosen) => ~Mountable(Chosen)'
      BY <1>1, <3>2 DEF Mountable, Sealed
    <3>. QED  BY <1>1, <2>1, <3>1, <3>2, <3>3 DEF PassesOver
  <2>. QED  BY <2>5, <2>6, <2>7, <2>8 DEF MountInv
<1>. QED  BY <1>5, <1>6

LEMMA InitMounts == Init => MountInv
<1>. SUFFICES ASSUME Init PROVE MountInv
  OBVIOUS
<1>1. /\ sector[0] = [state |-> "sealed", gen |-> 0, base |-> HEADER] /\ sector[1] = NoSector
      /\ pc = "off" /\ ~rotating /\ ~mounted /\ error = 0
  BY DEF Init, Sides
<1>2. Sealed(0) /\ ~Sealed(1) /\ HEADER \in Nat
  BY <1>1, JournalAssumption DEF Sealed, NoSector
<1>3. \A s \in Sides : Sealed(s) => sector[s].base >= HEADER
  <2>1. sector[0].base >= HEADER
    BY <1>1, <1>2
  <2>. QED  BY <1>2, <2>1 DEF Sides
<1>4. ~Serviceable /\ ~Building
  BY <1>1 DEF Serviceable, Building
<1>5. PrefixIsWhole /\ GenerationsAdjoin /\ PassesOver
  BY <1>1, <1>2, <1>3, <1>4 DEF PrefixIsWhole, GenerationsAdjoin, PassesOver
<1>6. CopyIsWhole
  BY <1>1, <1>4 DEF CopyIsWhole, CommitIsRequested
<1>. QED  BY <1>5, <1>6 DEF MountInv

LEMMA StutterMounts ==
    ASSUME MountInv, UNCHANGED vars
    PROVE  MountInv'
<1>. USE DEF vars, flashVars, indexVars, draftVars, cursorVars, localVars
<1>1. PrefixIsWhole'
  BY DEF MountInv, PrefixIsWhole, Serviceable, Sealed
<1>2. CopyIsWhole'
  BY DEF MountInv, CopyIsWhole, Building, NextEnd, Sealed, NextGeneration, CommitIsRequested, NewRecord, Length, Entry
<1>3. GenerationsAdjoin'
  BY DEF MountInv, GenerationsAdjoin, Serviceable, Sealed
<1>4. PassesOver'
  <2>1. Chosen' = Chosen /\ (Serviceable' <=> Serviceable)
    BY DEF Chosen, Sealed, Newer, Serviceable
  <2>2. \A s \in Sides : ~Mountable(s) => ~Mountable(s)'
    BY DEF Mountable, Sealed
  <2>3. (~Mountable(Chosen) => ~Mountable(Chosen)') /\ (~Mountable(active) => ~Mountable(active)')
    BY <2>1 DEF Mountable, Sealed
  <2>4. Sealed(active)' <=> Sealed(active)
    BY DEF Sealed
  <2>. QED  BY <2>1, <2>2, <2>3, <2>4 DEF MountInv, PassesOver
<1>. QED  BY <1>1, <1>2, <1>3, <1>4 DEF MountInv

LEMMA NextMounts ==
    ASSUME IndInv, SpaceInv, IndInv', SpaceInv', MountInv, [Next]_vars
    PROVE  MountInv'
<1>1. CASE Request \/ ScratchNext
  BY <1>1, RequestMounts
<1>2. CASE TagRecord \/ Reserve \/ Payload \/ Fields \/ Commit
  BY <1>2, TagMounts, ReserveMounts, PayloadMounts, FieldsMounts, CommitMounts
<1>3. CASE CompactBegin \/ Erase \/ CopyNext \/ Move \/ Seal \/ Activate
  BY <1>3, CompactBeginMounts, EraseMounts, CopyEndsMounts, CopyOneMounts, MoveMounts, SealMounts, ActivateMounts
<1>4. CASE ScanRecord \/ ScanEnds \/ FallBack
  BY <1>4, ScanRecordMounts, ScanEndsMounts, FallBackMounts
<1>5. CASE Failure
  <2>1. CASE RecordFails
    BY <2>1, RecordFailsMounts DEF RecordFails
  <2>. QED  BY <1>5, <2>1, TagMounts, PayloadMounts, EraseFailsMounts, CompactFailsMounts DEF Failure
<1>6. CASE Mount \/ PowerLoss \/ Decay
  BY <1>6, MountMounts, PowerLossMounts, DecayMounts
<1>7. CASE UNCHANGED vars
  BY <1>7, StutterMounts
<1>. QED  BY <1>1, <1>2, <1>3, <1>4, <1>5, <1>6, <1>7 DEF Next, Continue

LEMMA MountHolds == Spec => []MountInv
<1>1. Init => MountInv
  BY InitMounts
<1>2. (IndInv /\ SpaceInv) /\ (IndInv /\ SpaceInv)' /\ MountInv /\ [Next]_vars => MountInv'
  BY NextMounts
<1>3. Spec => [](IndInv /\ SpaceInv)
  BY JournalHolds
<1>. QED  BY <1>1, <1>2, <1>3, PTL DEF Spec

(* The sealed side that follows the other is the one that mount() picks. *)
LEMMA FollowerIsChosen ==
    ASSUME IndInv, NEW s \in Sides, Sealed(s), Sealed(1 - s),
           sector[s].gen = (sector[1 - s].gen + 1) % GENERATIONS
    PROVE  Chosen = s /\ (sector[s].gen - sector[1 - s].gen) % GENERATIONS = 1
<1>. DEFINE g == sector[1 - s].gen
<1>1. g \in 0..(GENERATIONS - 1) /\ GENERATIONS \in Nat /\ GENERATIONS >= 4
  <2>1. 1 - s \in Sides
    BY DEF Sides
  <2>. QED  BY <2>1, JournalAssumption DEF IndInv, TypeOK
<1>2. sector[s].gen = (g + 1) % GENERATIONS
  OBVIOUS
<1>. HIDE DEF g
<1>3. /\ (sector[s].gen - g) % GENERATIONS = 1 /\ (g - sector[s].gen) % GENERATIONS = GENERATIONS - 1
      /\ 1 < GENERATIONS \div 2 /\ ~(GENERATIONS - 1 < GENERATIONS \div 2)
  BY <1>1, <1>2, Remainders
<1>4. Newer(s, 1 - s) /\ ~Newer(1 - s, s)
  BY <1>3 DEF Newer, g
<1>5. CASE s = 1
  <2>1. Sealed(1) /\ Newer(1, 0)
    BY <1>4, <1>5
  <2>. QED  BY <1>3, <1>5, <2>1 DEF Chosen, g
<1>6. CASE s = 0
  <2>1. Sealed(0) /\ ~Newer(1, 0)
    BY <1>4, <1>6
  <2>. QED  BY <1>3, <1>6, <2>1 DEF Chosen, g
<1>. QED  BY <1>5, <1>6 DEF Sides

(***************************************************************************)
(* mount() picks the side the running system was using: on whatever is     *)
(* left of the flash, the side in use is one that mount() would take, and  *)
(* of two sealed sides the wrapping comparison finds the later one.        *)
(***************************************************************************)
THEOREM NewestIsActive == Spec => []ActiveIsNewest
<1>1. IndInv /\ MountInv => ActiveIsNewest
  <2>. SUFFICES ASSUME IndInv, MountInv PROVE ActiveIsNewest
    OBVIOUS
  <2>1. ASSUME Sealed(0), Sealed(1) PROVE (sector[Chosen].gen - sector[1 - Chosen].gen) % GENERATIONS = 1
    <3>1. PICK s \in Sides : sector[s].gen = (sector[1 - s].gen + 1) % GENERATIONS
      BY <2>1 DEF MountInv, GenerationsAdjoin
    <3>2. Sealed(s) /\ Sealed(1 - s)
      BY <2>1 DEF Sides
    <3>. QED  BY <3>1, <3>2, FollowerIsChosen
  <2>2. ASSUME mounted PROVE active \in Durable /\ generation = sector[active].gen
    <3>1. Serviceable /\ generation = sector[active].gen
      BY <2>2 DEF MountInv, GenerationsAdjoin
    <3>2. /\ active \in Sides /\ cell \in [Sides -> Log] /\ Sealed(active)
          /\ LeadsTo(cell[active], sector[active].base)
      BY <3>1, PrefixSide
    <3>3. Mountable(active)
      BY <3>2, LeadsToType DEF Mountable
    <3>4. active = Chosen \/ ~Mountable(Chosen)
      BY <3>1 DEF MountInv, PassesOver
    <3>. QED  BY <3>1, <3>2, <3>3, <3>4 DEF Durable
  <2>. QED  BY <2>1, <2>2 DEF ActiveIsNewest
<1>. QED  BY <1>1, JournalHolds, MountHolds, PTL

(***************************************************************************)
(* mount() tries both sides before it reports that there is no filesystem: *)
(* as long as one sealed prefix is whole, whatever else has decayed and    *)
(* whichever flash operations have failed, a cartridge whose flash driver  *)
(* starts is mounted.                                                      *)
(***************************************************************************)
THEOREM MountFindsASide == Spec => MountsWhatItCan
<1>. DEFINE Last == pc \in {"scan", "condemned"} /\ pc' = "off" /\ error' = 74 => Durable = {}
<1>1. ASSUME IndInv, MountInv, [Next]_vars PROVE [Last]_vars
  <2>. SUFFICES ASSUME Next, pc \in {"scan", "condemned"}, pc' = "off", error' = 74 PROVE Durable = {}
    BY <1>1
  <2>1. FallBack
    <3>1. ~Request
      BY DEF Request, Serving, OpenWrite, Concat, Scratch, Rename, Attribute, Compact, Write, Close, Abort, OpenRead,
         Read, ListFiles, NextEntry
    <3>2. ~(Failure \/ Mount \/ Decay)
      BY DEF Failure, TagFails, PayloadFails, RecordFails, EraseFails, CompactFails, Mount, Decay
    <3>3. ~PowerLoss
      BY DEF PowerLoss, NoIndex, Forget
    <3>4. Continue => FallBack
      BY DEF Continue, ScratchNext, TagRecord, Reserve, Payload, Fields, Commit, CompactBegin, Erase, CopyNext, Move,
         Seal, Activate, ScanRecord, ScanEnds
    <3>. QED  BY <3>1, <3>2, <3>3, <3>4 DEF Next
  <2>2. pc = "condemned" /\ ~(~retried /\ Sealed(1 - active))
    BY <2>1 DEF FallBack, ScanFrom
  <2>3. ASSUME NEW s \in Sides PROVE ~Mountable(s)
    <3>1. CASE s = active
      BY <1>1, <2>2, <3>1, CondemnedIsPassed
    <3>2. CASE s = 1 - active /\ ~retried
      BY <2>2, <3>2 DEF Mountable
    <3>3. CASE s # active /\ retried
      <4>1. s = Chosen
        BY <1>1, <2>2, <3>3, CondemnedIsPassed DEF Sides
      <4>. QED  BY <1>1, <2>2, <3>3, <4>1, CondemnedIsPassed
    <3>4. s = active \/ s = 1 - active
      BY <1>1, <2>2, CondemnedIsPassed DEF Sides
    <3>. QED  BY <3>1, <3>2, <3>3, <3>4
  <2>. QED  BY <2>3 DEF Durable
<1>. QED  BY <1>1, JournalHolds, MountHolds, PTL DEF Spec, MountsWhatItCan

-----------------------------------------------------------------------------
(***************************************************************************)
(* The journal implements FileStore, for every value of the constants, on  *)
(* flash that does not decay.                                              *)
(*                                                                         *)
(* The files that a reset would find are read off the log of the side that *)
(* is newest; while the cartridge is in use they are those of the index.   *)
(* Only the commit of a record and the activation of a compacted side      *)
(* change them, each into what one action of the store makes of them.      *)
(***************************************************************************)

-----------------------------------------------------------------------------
(* The files of an index                                                   *)

File(log, r) == [data |-> Extract(log, r.off, r.len), ro |-> r.ro]
HavingName(log, h, n) == {i \in Slots : h[i] # 0 /\ log[h[i]].name = n}
FilesOf(log, h) == [n \in Names |-> {File(log, log[h[i]]) : i \in HavingName(log, h, n)}]

LEMMA HeadsAreIndexed ==
    ASSUME NEW log \in Log, NEW h, Records(log) \subseteq Offsets,
           \A o \in Records(log) : log[o] \in Record,
           IsIndex(log, Records(log), h)
    PROVE  Heads(log) = {h[i] : i \in {i \in Slots : h[i] # 0}}
<1>1. ASSUME NEW o \in Heads(log) PROVE \E i \in Slots : h[i] # 0 /\ o = h[i]
  <2>1. o \in Records(log) /\ IsHead(log, Records(log), o) /\ o \in Nat
    BY DEF Heads, Offsets
  <2>2. log[o].slot \in Slots
    BY <2>1, RecordType
  <2>3. h[log[o].slot] # 0
    BY <2>1, <2>2 DEF IsIndex
  <2>. DEFINE p == h[log[o].slot]
  <2>4. p \in Records(log) /\ log[p].slot = log[o].slot /\ IsHead(log, Records(log), p) /\ p \in Nat
    BY <2>2, <2>3 DEF IsIndex, Offsets
  <2>5. ~(p > o) /\ ~(o > p)
    BY <2>1, <2>4 DEF IsHead, About
  <2>. QED  BY <2>1, <2>2, <2>3, <2>4, <2>5
<1>2. ASSUME NEW i \in Slots, h[i] # 0 PROVE h[i] \in Heads(log)
  BY <1>2 DEF IsIndex, Heads
<1>. QED  BY <1>1, <1>2

(* One side is found by a reset, and its index has the files.              *)
LEMMA FilesAre ==
    ASSUME IndInv, Durability
    PROVE  /\ Durable = {Chosen}
           /\ DurableFiles = FilesOf(cell[Chosen], Index(cell[Chosen]))
<1>. DEFINE log == cell[Chosen]
            h == Index(log)
            live == {i \in Slots : h[i] # 0}
<1>1. /\ log \in Log /\ Chosen \in Sides /\ Logged(log, End(log), h)
      /\ sector[Chosen].base \in Stops(log, Records(log)) /\ Sealed(Chosen)
      /\ \A o \in Records(log) : o \in Offsets /\ Reads(log, o) /\ o \in Nat
  BY ChosenLog DEF Durability, ResetFindsAll
<1>2. Durable = {Chosen}
  BY <1>1 DEF Durable, Mountable
<1>3. \A o \in Records(log) : log[o] \in Record
  BY <1>1, ReadsType
<1>4. Heads(log) = {h[i] : i \in live}
  BY <1>1, <1>3, HeadsAreIndexed DEF Logged
<1>5. Directory = {<<Chosen, log[o]>> : o \in Heads(log)}
  BY <1>2 DEF Directory
<1>6. DurableFiles = FilesIn(Directory)
  BY DEF DurableFiles
<1>7. ASSUME NEW n \in Names
      PROVE  {[data |-> Extract(cell[e[1]], e[2].off, e[2].len), ro |-> e[2].ro] :
                 e \in {e \in Directory : e[2].name = n}}
             = {File(log, log[h[i]]) : i \in HavingName(log, h, n)}
  <2>. DEFINE F(e) == [data |-> Extract(cell[e[1]], e[2].off, e[2].len), ro |-> e[2].ro]
  <2>1. ASSUME NEW e \in Directory, e[2].name = n
        PROVE  \E i \in HavingName(log, h, n) : F(e) = File(log, log[h[i]])
    <3>1. PICK i \in live : e = <<Chosen, log[h[i]]>>
      BY <1>4, <1>5
    <3>2. e[1] = Chosen /\ e[2] = log[h[i]]
      BY <3>1
    <3>. QED  BY <2>1, <3>2 DEF HavingName, File
  <2>2. ASSUME NEW i \in HavingName(log, h, n)
        PROVE  \E e \in Directory : e[2].name = n /\ F(e) = File(log, log[h[i]])
    <3>1. <<Chosen, log[h[i]]>> \in Directory
      BY <1>4, <1>5 DEF HavingName
    <3>. WITNESS <<Chosen, log[h[i]]>> \in Directory
    <3>. QED  BY DEF HavingName, File
  <2>. HIDE DEF F
  <2>3. {F(e) : e \in {e \in Directory : e[2].name = n}} = {File(log, log[h[i]]) : i \in HavingName(log, h, n)}
    BY <2>1, <2>2
  <2>. QED  BY <2>3 DEF F
<1>8. FilesIn(Directory) = FilesOf(log, h)
  BY <1>7 DEF FilesIn, FilesOf
<1>. QED  BY <1>2, <1>6, <1>8

(* While the cartridge is in use. *)
LEMMA FilesAreIndexed ==
    ASSUME IndInv, Durability, Serviceable
    PROVE  DurableFiles = FilesOf(cell[active], heads) /\ Durable = {active}
BY FilesAre DEF Durability, IndexIsReal, Serviceable
-----------------------------------------------------------------------------
(* How many files an index has, and how much is in them                    *)

LiveIn(h) == {i \in Slots : h[i] # 0}
LensIn(log, h) == [i \in Slots |-> IF h[i] = 0 THEN 0 ELSE log[h[i]].len]

(* An index of records, no two with the same name. *)
IsDirectory(log, h) ==
    /\ \A i \in LiveIn(h) : log[h[i]] \in Record
    /\ OneName(log, h)

(* The cardinality of the store's own instance of FiniteSets. *)
LEMMA SameCardinality == \A S : Store!Cardinality(S) = Cardinality(S)
BY DEF Store!Cardinality, Cardinality, Store!IsFiniteSet, IsFiniteSet

LEMMA FilesCounted ==
    ASSUME NEW log, NEW h, IsDirectory(log, h)
    PROVE  LET names == Store!Present(FilesOf(log, h)) IN
           /\ names = {log[h[i]].name : i \in LiveIn(h)}
           /\ Cardinality(names) = Cardinality(LiveIn(h))
           /\ Cardinality(names) <= MAXFILES
<1>. DEFINE names == Store!Present(FilesOf(log, h))
            live == LiveIn(h)
            name == [i \in live |-> log[h[i]].name]
<1>1. \A i \in live : log[h[i]].name \in Names
  BY RecordType DEF IsDirectory
<1>2. names = {log[h[i]].name : i \in live}
  <2>1. ASSUME NEW n \in names PROVE \E i \in live : n = log[h[i]].name
    BY DEF Store!Present, FilesOf, HavingName, LiveIn
  <2>2. ASSUME NEW i \in live PROVE log[h[i]].name \in names
    <3>1. i \in HavingName(log, h, log[h[i]].name)
      BY DEF HavingName, LiveIn
    <3>. QED  BY <1>1, <3>1 DEF Store!Present, FilesOf
  <2>. QED  BY <2>1, <2>2
<1>3. name \in Bijection(live, names)
  <2>1. name \in [live -> names]
    BY <1>2
  <2>2. \A i, j \in live : name[i] = name[j] => i = j
    BY DEF IsDirectory, OneName, LiveIn
  <2>3. \A n \in names : \E i \in live : name[i] = n
    BY <1>2
  <2>. QED  BY <2>1, <2>2, <2>3 DEF Bijection, Injection, IsInjective, Surjection
<1>4. MAXFILES \in Nat /\ IsFiniteSet(Slots) /\ Cardinality(Slots) = MAXFILES
  <2>1. MAXFILES \in Nat \ {0}
    BY JournalAssumption
  <2>2. 0 \in Int /\ MAXFILES - 1 \in Int
    BY <2>1
  <2>3. IsFiniteSet(0..(MAXFILES - 1)) /\ Cardinality(0..(MAXFILES - 1)) = IF 0 > MAXFILES - 1 THEN 0 ELSE MAXFILES - 1 - 0 + 1
    BY <2>2, FS_Interval
  <2>. QED  BY <2>1, <2>3 DEF Slots
<1>5. live \in SUBSET Slots
  BY DEF LiveIn
<1>6. IsFiniteSet(live) /\ Cardinality(live) <= MAXFILES
  BY <1>4, <1>5, FS_Subset
<1>7. ExistsBijection(live, names)
  BY <1>3 DEF ExistsBijection
<1>8. Cardinality(names) = Cardinality(live)
  BY <1>6, <1>7, FS_Bijection
<1>. QED  BY <1>2, <1>6, <1>8

(* The units of the files in the slots below m. *)
UnitsBelow(log, h, m) ==
    UNION {{log[h[i]].name} \X (1..log[h[i]].len) : i \in {i \in LiveIn(h) : i < m}}

LEMMA FilesMeasured ==
    ASSUME NEW log, NEW h, IsDirectory(log, h)
    PROVE  Store!Size(FilesOf(log, h)) = Sum(LensIn(log, h))
<1>. DEFINE fs == FilesOf(log, h)
            len == LensIn(log, h)
            Units(m) == UnitsBelow(log, h, m)
<1>0. MAXFILES \in Nat /\ Slots \subseteq Nat /\ \A i \in Slots : i < MAXFILES
  BY JournalAssumption DEF Slots
<1>1. \A i \in LiveIn(h) : /\ i \in Slots /\ h[i] # 0 /\ log[h[i]] \in Record
                           /\ log[h[i]].name \in Names /\ log[h[i]].len \in Nat
  BY RecordType DEF IsDirectory, LiveIn
<1>10. ASSUME NEW i \in LiveIn(h) PROVE i \in Nat
  BY <1>0 DEF LiveIn
<1>2. len \in [Slots -> Nat]
  BY <1>1 DEF LensIn, LiveIn
<1>3. Store!Size(fs) = Cardinality(Units(MAXFILES))
  <2>. DEFINE all == UNION {{n} \X UNION {DOMAIN x.data : x \in fs[n]} : n \in Store!Present(fs)}
  <2>1. ASSUME NEW i \in LiveIn(h), NEW n \in Names, log[h[i]].name = n
        PROVE  n \in Store!Present(fs) /\ File(log, log[h[i]]) \in fs[n]
    BY <2>1 DEF Store!Present, FilesOf, HavingName, LiveIn
  <2>2. \A i : DOMAIN File(log, log[h[i]]).data = 1..log[h[i]].len
    BY DEF File, Extract
  <2>3. ASSUME NEW n \in Names, NEW x \in fs[n]
        PROVE  \E i \in LiveIn(h) : log[h[i]].name = n /\ x = File(log, log[h[i]])
    BY <2>3 DEF FilesOf, HavingName, LiveIn
  <2>. HIDE DEF fs
  <2>4. ASSUME NEW e \in all PROVE e \in Units(MAXFILES)
    <3>1. PICK n \in Store!Present(fs) : e \in {n} \X UNION {DOMAIN x.data : x \in fs[n]}
      OBVIOUS
    <3>2. n \in Names
      BY DEF Store!Present
    <3>3. PICK x \in fs[n] : e \in {n} \X DOMAIN x.data
      BY <3>1
    <3>4. PICK i \in LiveIn(h) : log[h[i]].name = n /\ x = File(log, log[h[i]])
      BY <2>3, <3>2
    <3>. QED  BY <1>0, <1>1, <2>2, <3>3, <3>4 DEF UnitsBelow
  <2>5. ASSUME NEW e \in Units(MAXFILES) PROVE e \in all
    <3>1. PICK i \in LiveIn(h) : e \in {log[h[i]].name} \X (1..log[h[i]].len)
      BY DEF UnitsBelow
    <3>. DEFINE n == log[h[i]].name
    <3>2. n \in Store!Present(fs) /\ File(log, log[h[i]]) \in fs[n]
      BY <1>1, <2>1
    <3>3. e \in {n} \X UNION {DOMAIN x.data : x \in fs[n]}
      BY <2>2, <3>1, <3>2
    <3>. QED  BY <3>2, <3>3
  <2>6. all = Units(MAXFILES)
    <3>. HIDE DEF all, Units
    <3>. QED  BY <2>4, <2>5
  <2>. HIDE DEF Units
  <2>7. Store!Size(fs) = Store!Cardinality(all)
    BY DEF Store!Size
  <2>8. Store!Cardinality(all) = Cardinality(all)
    BY SameCardinality
  <2>. QED  BY <2>6, <2>7, <2>8
<1>4. PICK u : Sum(len) = u[MAXFILES] /\ IsPartialSum(u, len, MAXFILES)
  BY <1>2, SumIsPartial
<1>5. \A m \in 0..MAXFILES : u[m] = IF m = 0 THEN 0 ELSE u[m - 1] + len[m - 1]
  BY <1>4 DEF IsPartialSum
<1>. DEFINE Right(m) == u[m] \in Nat /\ IsFiniteSet(Units(m)) /\ Cardinality(Units(m)) = u[m]
            Bad == {m \in 0..MAXFILES : ~Right(m)}
<1>6. Right(0)
  <2>0. \A i \in LiveIn(h) : ~(i < 0)
    BY <1>10
  <2>1. {i \in LiveIn(h) : i < 0} = {}
    BY <2>0
  <2>2. Units(0) = {}
    BY <2>1 DEF UnitsBelow
  <2>3. u[0] = 0
    BY <1>0, <1>5
  <2>. QED  BY <2>2, <2>3, FS_EmptySet
<1>7. ASSUME NEW k \in Slots, Right(k) PROVE Right(k + 1)
  <2>1. k \in Nat /\ k + 1 \in 0..MAXFILES /\ k + 1 # 0 /\ (k + 1) - 1 = k
    BY <1>0
  <2>2. u[k + 1] = u[k] + len[k] /\ len[k] \in Nat /\ u[k] \in Nat
    <3>1. u[k + 1] = u[(k + 1) - 1] + len[(k + 1) - 1]
      BY <1>5, <2>1
    <3>2. len[k] \in Nat
      BY <1>2
    <3>. QED  BY <1>7, <2>1, <3>1, <3>2
  <2>3. CASE k \notin LiveIn(h)
    <3>0. ASSUME NEW i \in LiveIn(h) PROVE i < k + 1 <=> i < k
      BY <1>10, <2>1, <2>3
    <3>1. {i \in LiveIn(h) : i < k + 1} = {i \in LiveIn(h) : i < k}
      BY <3>0
    <3>2. Units(k + 1) = Units(k)
      BY <3>1 DEF UnitsBelow
    <3>3. len[k] = 0
      BY <2>3 DEF LensIn, LiveIn
    <3>. HIDE DEF Units, len
    <3>4. u[k + 1] = u[k]
      BY <2>2, <3>3
    <3>5. u[k] \in Nat /\ IsFiniteSet(Units(k)) /\ Cardinality(Units(k)) = u[k]
      BY <1>7
    <3>. QED  BY <3>2, <3>4, <3>5
  <2>4. CASE k \in LiveIn(h)
    <3>. DEFINE n == log[h[k]].name
                more == {n} \X (1..len[k])
    <3>1. len[k] = log[h[k]].len
      BY <2>4 DEF LensIn, LiveIn
    <3>0. ASSUME NEW i \in LiveIn(h) PROVE i < k + 1 <=> i < k \/ i = k
      BY <1>10, <2>1
    <3>9. k < k + 1
      BY <2>1
    <3>2. {i \in LiveIn(h) : i < k + 1} = {i \in LiveIn(h) : i < k} \cup {k}
      BY <2>4, <3>0, <3>9
    <3>3. Units(k + 1) = Units(k) \cup more
      BY <3>1, <3>2 DEF UnitsBelow
    <3>4. Units(k) \cap more = {}
      <4>1. ASSUME NEW e \in Units(k), e \in more PROVE FALSE
        <5>1. PICK i \in LiveIn(h) : i < k /\ e \in {log[h[i]].name} \X (1..log[h[i]].len)
          BY DEF UnitsBelow
        <5>2. log[h[i]].name = n
          BY <4>1, <5>1
        <5>3. i = k
          BY <1>1, <2>4, <5>2 DEF IsDirectory, OneName
        <5>. QED  BY <2>1, <5>1, <5>3
      <4>. QED  BY <4>1
    <3>5. IsFiniteSet(more) /\ Cardinality(more) = len[k]
      <4>1. IsFiniteSet(1..len[k]) /\ Cardinality(1..len[k]) = len[k]
        <5>1. 1 \in Int /\ len[k] \in Int
          BY <2>2
        <5>2. IsFiniteSet(1..len[k]) /\ Cardinality(1..len[k]) = IF 1 > len[k] THEN 0 ELSE len[k] - 1 + 1
          BY <5>1, FS_Interval
        <5>. QED  BY <2>2, <5>2
      <4>2. IsFiniteSet({n}) /\ Cardinality({n}) = 1
        BY FS_Singleton
      <4>3. IsFiniteSet(more) /\ Cardinality(more) = Cardinality({n}) * Cardinality(1..len[k])
        BY <4>1, <4>2, FS_Product
      <4>. QED  BY <2>2, <4>1, <4>2, <4>3
    <3>6. /\ IsFiniteSet(Units(k) \cup more)
          /\ Cardinality(Units(k) \cup more) = Cardinality(Units(k)) + Cardinality(more) - Cardinality(Units(k) \cap more)
      BY <1>7, <3>5, FS_Union
    <3>7. Cardinality(Units(k) \cap more) = 0
      BY <3>4, FS_EmptySet
    <3>. HIDE DEF Units, more
    <3>8. Cardinality(Units(k) \cup more) = u[k] + len[k]
      BY <1>7, <2>2, <3>5, <3>6, <3>7
    <3>10. u[k + 1] = u[k] + len[k] /\ u[k + 1] \in Nat
      BY <2>2
    <3>. QED  BY <3>3, <3>6, <3>8, <3>10
  <2>. QED  BY <2>3, <2>4
<1>8. ASSUME Bad # {} PROVE FALSE
  <2>0. Bad \in SUBSET Nat
    BY <1>0
  <2>1. PICK m \in Bad : \A k \in Bad : m <= k
    BY <1>8, <2>0, LeastNatural
  <2>2. m \in 0..MAXFILES /\ m # 0
    BY <1>6, <2>1
  <2>3. m - 1 \in 0..MAXFILES /\ m - 1 \in Slots /\ ~(m <= m - 1) /\ (m - 1) + 1 = m
    BY <1>0, <2>2 DEF Slots
  <2>. HIDE DEF Right
  <2>4. Right(m - 1)
    BY <2>1, <2>3
  <2>5. Right((m - 1) + 1)
    BY <1>7, <2>3, <2>4
  <2>. QED  BY <2>1, <2>3, <2>5
<1>9. Right(MAXFILES)
  BY <1>0, <1>8
<1>. QED  BY <1>3, <1>4, <1>9

-----------------------------------------------------------------------------
(* The index in RAM says what a reset would find                           *)

LEMMA DirectoryFits ==
    ASSUME IndInv, SpaceInv, Durability, Serviceable
    PROVE  /\ IsDirectory(cell[active], heads) /\ LiveIn(heads) = Live
           /\ Cardinality(Store!Present(DurableFiles)) = count
           /\ Store!Size(DurableFiles) = livebytes
           /\ Store!Fits(DurableFiles)
<1>. DEFINE log == cell[active]
<1>1. LiveIn(heads) = Live
  BY DEF LiveIn, Live
<1>2. IsDirectory(log, heads)
  <2>1. \A i \in Live : log[heads[i]] \in Record
    BY LiveFiles DEF Entry
  <2>. QED  BY <1>1, <2>1, ActiveLog DEF IsDirectory, Sound
<1>3. DurableFiles = FilesOf(log, heads)
  BY FilesAreIndexed
<1>4. LensIn(log, heads) = Lens
  BY DEF LensIn, Lens, LenOf, Entry
<1>. HIDE DEF log
<1>5. /\ Cardinality(Store!Present(DurableFiles)) = Cardinality(Live)
      /\ Cardinality(Store!Present(DurableFiles)) <= MAXFILES
  BY <1>1, <1>2, <1>3, FilesCounted
<1>6. Store!Size(DurableFiles) = Sum(Lens)
  BY <1>2, <1>3, <1>4, FilesMeasured
<1>7. count = Cardinality(Live)
  BY DEF Durability, IndexIsReal
<1>8. livebytes = Sum(Lens) /\ livebytes <= CAPACITY
  BY DEF SpaceInv, SpaceFits, TotalsKept, Serviceable
<1>9. Store!Fits(DurableFiles)
  <2>1. Store!Cardinality(Store!Present(DurableFiles)) = Cardinality(Store!Present(DurableFiles))
    BY SameCardinality
  <2>. QED  BY <1>5, <1>6, <1>8, <2>1 DEF Store!Fits
<1>. QED  BY <1>1, <1>2, <1>5, <1>6, <1>7, <1>8, <1>9 DEF log

LEMMA SameFlashSameFiles ==
    ASSUME UNCHANGED flashVars
    PROVE  DurableFiles' = DurableFiles
BY DEF DurableFiles, FilesIn, Directory, Durable, Mountable, Chosen, Sealed, Newer, flashVars

(* A channel that is about to be opened for writing is closed. *)
OpenIsPending == job.op = "open" /\ writer = Idle => channels[job.f].kind = 0

LEMMA PendingStays ==
    ASSUME IndInv, OpenIsPending, [Next]_vars
    PROVE  OpenIsPending'
<1>0. job \in Jobs /\ Idle \notin Channels /\ Internal # Idle
  BY JournalAssumption DEF IndInv, TypeOK
<1>. DEFINE Same1 == UNCHANGED <<job, channels>> /\ (writer' = Idle => writer = Idle)
            Other1 == job'.op # "open"
<1>1. CASE Same1 \/ Other1
  BY <1>1 DEF OpenIsPending
<1>2. NoJob.op # "open"
  BY DEF NoJob
<1>3. CASE Request
  <2>1. CASE \E f \in Channels, n \in Names, append \in BOOLEAN : OpenWrite(f, n, append)
    <3>1. PICK f \in Channels, n \in Names, append \in BOOLEAN : OpenWrite(f, n, append)
      BY <2>1
    <3>2. CASE \E e : Refuse(e)
      BY <1>1, <1>2, <3>2 DEF Refuse, Reply
    <3>3. CASE \E i \in Slots : /\ channels[f].kind = 0
                                /\ Prepare([op |-> "open", slot |-> i, name |-> n, f |-> f, append |-> append])
      BY <1>1, <1>2, <3>3 DEF Prepare, Refuse, Reply, OpenIsPending
    <3>. QED  BY <3>1, <3>2, <3>3 DEF OpenWrite, StartWrite
  <2>2. CASE \E n, sources : Concat(n, sources)
    <3>1. PICK n, sources : Concat(n, sources)
      BY <2>2
    <3>2. CASE \E e : Refuse(e)
      BY <1>1, <1>2, <3>2 DEF Refuse, Reply
    <3>3. CASE \E i \in Slots : Prepare([op |-> "concat", slot |-> i, name |-> n, srcs |-> sources])
      BY <1>1, <1>2, <3>3 DEF Prepare, Refuse, Reply
    <3>. QED  BY <3>1, <3>2, <3>3 DEF Concat, StartWrite
  <2>3. CASE \E names \in SUBSET Names : Scratch(names)
    <3>1. (\E e : Refuse(e)) \/ \E i \in Slots : \E names : Prepare([op |-> "scratch", slot |-> i, names |-> names])
      BY <2>3 DEF Scratch
    <3>. QED  BY <1>1, <1>2, <3>1 DEF Prepare, Refuse, Reply
  <2>4. CASE (\E new \in Names, old \in Names : Rename(new, old)) \/ \E n \in Names, flag \in BOOLEAN : Attribute(n, flag)
    <3>1. \/ \E e : Refuse(e)
          \/ \E i, d, n, r : Prepare([op |-> "metadata", slot |-> i, drop |-> d, name |-> n, ro |-> r])
      BY <2>4 DEF Rename, Attribute
    <3>. QED  BY <1>1, <1>2, <3>1 DEF Prepare, Refuse, Reply
  <2>5. CASE Compact \/ \E f \in Channels, bytes \in Chunks : Write(f, bytes)
    <3>1. (\E e : Refuse(e)) \/ job' = [op |-> "compact"] \/ \E bytes : job' = [op |-> "write", bytes |-> bytes]
      BY <2>5 DEF Compact, Write
    <3>. QED  BY <1>1, <1>2, <3>1 DEF Refuse, Reply
  <2>6. CASE \E f : \/ Close(f) \/ Abort(f) \/ Read(f, 1) \/ ListFiles(f) \/ NextEntry(f)
                   \/ \E n \in Names : OpenRead(f, n)
    <3>1. job' = NoJob \/ job' = [op |-> "close"]
      BY <2>6 DEF Close, Abort, Read, ListFiles, NextEntry, OpenRead, Refuse, Reply
    <3>. QED  BY <1>1, <1>2, <3>1
  <2>. QED  BY <1>3, <2>1, <2>2, <2>3, <2>4, <2>5, <2>6 DEF Request
<1>4. CASE ScratchNext
  <2>1. job.op = "scratch"
    BY <1>4 DEF ScratchNext, IndInv, RequestFitsBlock
  <2>2. \/ \E e : Refuse(e)
        \/ \E i \in Slots : Prepare([job EXCEPT !.slot = i])
    BY <1>4 DEF ScratchNext
  <2>3. \A i \in Slots : [job EXCEPT !.slot = i].op = "scratch"
    BY <1>0, <2>1 DEF Jobs
  <2>. QED  BY <1>1, <1>2, <2>2, <2>3 DEF Prepare, Refuse, Reply
<1>5. ASSUME NEW e, GiveUp(e) PROVE OpenIsPending'
  BY <1>1, <1>2, <1>5 DEF GiveUp, Reply
<1>6. CASE TagRecord
  <2>1. CASE job.op \in {"open", "concat"}
    <3>1. job.op = "open" => job.f \in Channels
      BY <1>0 DEF Jobs
    <3>. QED  BY <1>0, <1>6, <2>1, <3>1 DEF TagRecord, BeginDraft, OpenIsPending
  <2>2. CASE job.op \notin {"open", "concat"}
    BY <1>6, <2>2 DEF TagRecord, OpenIsPending
  <2>. QED  BY <2>1, <2>2
<1>7. CASE Reserve
  BY <1>1, <1>5, <1>7 DEF Reserve, draftVars
<1>8. CASE Payload
  <2>1. CASE job.op # "concat"
    BY <1>1, <1>2, <1>8, <2>1 DEF Payload, Reply
  <2>2. CASE job.op = "concat"
    <3>1. job'.op = "concat"
      BY <1>0, <1>8, <2>2 DEF Payload, Jobs
    <3>. QED  BY <1>1, <3>1
  <2>. QED  BY <2>1, <2>2
<1>9. CASE Fields
  BY <1>1, <1>5, <1>9 DEF Fields, draftVars
<1>10. CASE Commit
  <2>1. CASE job.op = "scratch"
    BY <1>10, <2>1 DEF Commit, OpenIsPending, Reply
  <2>2. CASE job.op # "scratch"
    BY <1>1, <1>2, <1>10, <2>2 DEF Commit, Reply, draftVars
  <2>. QED  BY <2>1, <2>2
<1>11. CASE CompactBegin \/ Erase \/ CopyNext \/ Move \/ Seal \/ ScanRecord \/ ScanEnds \/ Decay
  BY <1>1, <1>5, <1>11 DEF CompactBegin, Erase, CopyNext, Move, Seal, ScanRecord, ScanEnds, Decay, draftVars
<1>12. CASE Activate
  <2>1. CASE writer = Idle
    <3>1. channels' = [f \in Channels |-> channels[f]]
      BY <1>0, <1>12, <2>1 DEF Activate, Release
    <3>2. channels' = channels
      BY <3>1 DEF IndInv, TypeOK
    <3>. QED  BY <1>1, <1>2, <1>12, <2>1, <3>2 DEF Activate, Reply
  <2>2. CASE writer # Idle
    BY <1>1, <1>2, <1>12, <2>2 DEF Activate, Reply
  <2>. QED  BY <2>1, <2>2
<1>13. CASE FallBack \/ Mount \/ PowerLoss
  BY <1>1, <1>2, <1>13 DEF FallBack, Mount, PowerLoss, NoFilesystem, draftVars
<1>14. CASE Failure
  BY <1>5, <1>14 DEF Failure, TagFails, PayloadFails, RecordFails, EraseFails, CompactFails
<1>15. CASE UNCHANGED vars
  BY <1>1, <1>15 DEF vars, draftVars
<1>. QED  BY <1>3, <1>4, <1>6, <1>7, <1>8, <1>9, <1>10, <1>11, <1>12, <1>13, <1>14, <1>15 DEF Next, Continue

FilesAreDurable == files = DurableFiles

(* The invariants of the journal, and what files is. *)
Known == IndInv /\ SpaceInv /\ Durability /\ OpenIsPending /\ FilesAreDurable

LEMMA StoreIsJournal == StoreSpec => Spec
<1>1. StoreInit => Init
  BY DEF StoreInit
<1>2. [StoreNext]_<<vars, files>> => [Next]_vars
  BY DEF StoreNext
<1>. QED  BY <1>1, <1>2, PTL DEF StoreSpec, Spec

LEMMA StoreInvariant ==
    ASSUME ~Decays
    PROVE  StoreSpec => []Known
<1>1. StoreSpec => Spec
  BY StoreIsJournal
<1>2. StoreSpec => []FilesAreDurable
  <2>1. StoreInit => FilesAreDurable
    BY DEF StoreInit, FilesAreDurable
  <2>2. FilesAreDurable /\ [StoreNext]_<<vars, files>> => FilesAreDurable'
    BY SameFlashSameFiles DEF StoreNext, FilesAreDurable, vars
  <2>. QED  BY <2>1, <2>2, PTL DEF StoreSpec
<1>3. Spec => [](IndInv /\ SpaceInv)
  BY JournalHolds
<1>4. Spec => []Durability
  BY DurabilityLasts
<1>5. Spec => []OpenIsPending
  <2>1. Init => OpenIsPending
    BY DEF Init, OpenIsPending, NoJob
  <2>2. (IndInv /\ SpaceInv) /\ OpenIsPending /\ [Next]_vars => OpenIsPending'
    BY PendingStays
  <2>. QED  BY <1>3, <2>1, <2>2, PTL DEF Spec
<1>6. (IndInv /\ SpaceInv) /\ Durability /\ OpenIsPending /\ FilesAreDurable => Known
  BY DEF Known
<1>. QED  BY <1>1, <1>2, <1>3, <1>4, <1>5, <1>6, PTL

(***************************************************************************)
(* Between requests, whatever failed and whenever power was lost before,   *)
(* exactly one side is what a reset would mount, the directory index and   *)
(* its totals are those that a reset would rebuild, all behind the tail is *)
(* erased unless the tail is dirty, and no two files have the same name.   *)
(***************************************************************************)
THEOREM IndexStaysDurable == ~Decays => (StoreSpec => []IndexIsDurable)
<1>. SUFFICES ASSUME ~Decays PROVE StoreSpec => []IndexIsDurable
  OBVIOUS
<1>1. ASSUME IndInv, SpaceInv, Durability, FilesAreDurable, pc = "idle"
      PROVE  /\ Durable = {active} /\ tail = End(cell[active]) /\ heads = Index(cell[active])
             /\ ~dirty /\ writer = Idle => \A o \in tail..(LIMIT - 1) : cell[active][o] = Blank
             /\ count = Cardinality({n \in Names : files[n] # {}})
             /\ livebytes = Store!Size(files)
             /\ \A i \in Live, j \in Live : i # j => Entry(i).name # Entry(j).name
  <2>0. Serviceable
    BY <1>1 DEF Serviceable
  <2>1. Durable = {active} /\ tail = End(cell[active]) /\ heads = Index(cell[active])
    BY <1>1, <2>0, FilesAreIndexed DEF Durability, IndexIsReal
  <2>2. ASSUME ~dirty, writer = Idle, NEW o \in tail..(LIMIT - 1) PROVE cell[active][o] = Blank
    <3>1. Erased(cell[active], tail)
      BY <1>1, <2>0, <2>2 DEF Durability, ErasedAhead
    <3>2. tail \in Nat /\ LIMIT \in Nat
      BY <1>1, JournalAssumption DEF IndInv, TypeOK
    <3>3. o \in Offsets /\ o >= tail
      BY <3>2 DEF Offsets
    <3>. QED  BY <3>1, <3>3 DEF Erased
  <2>3. count = Cardinality(Store!Present(files)) /\ livebytes = Store!Size(files)
    BY <1>1, <2>0, DirectoryFits DEF FilesAreDurable
  <2>4. \A i \in Live, j \in Live : i # j => Entry(i).name # Entry(j).name
    BY <1>1, <2>0, NamesDiffer
  <2>. QED  BY <2>1, <2>2, <2>3, <2>4 DEF Store!Present
<1>2. Known => IndexIsDurable
  BY <1>1 DEF IndexIsDurable, Known
<1>3. StoreSpec => []Known
  BY StoreInvariant
<1>. QED  BY <1>2, <1>3, PTL

-----------------------------------------------------------------------------
(* What a step leaves as it was                                            *)

(* It programs the active side behind the log, and the other side only     *)
(* while that is rebuilt.                                                  *)
LEMMA ProgramsAhead ==
    ASSUME IndInv, SpaceInv, Durability, ~Decays, Next,
           NEW s \in Sides, NEW o \in Offsets, cell'[s][o] # cell[s][o]
    PROVE  Serviceable /\ IF s = active THEN o >= tail ELSE Rebuilding
<1>0. /\ tail \in Nat /\ cursor \in Nat /\ writebase \in Nat /\ HEADER \in Nat /\ o \in Nat
      /\ active \in Sides /\ target \in Sides
  BY JournalAssumption DEF IndInv, TypeOK, Offsets
<1>1. \/ pc = "tag" /\ s = active /\ o = tail
      \/ pc \in {"payload", "copy", "move"} /\ s = target /\ o >= cursor
      \/ pc \in {"fields", "commit"} /\ s = target /\ o = writebase
      \/ pc = "erase" /\ s = target
  BY ProgramsWhere
<1>2. Serviceable
  BY <1>1 DEF Serviceable
<1>3. ASSUME pc \in {"erase", "copy", "move"}, s = target
      PROVE  IF s = active THEN o >= tail ELSE Rebuilding
  <2>1. Rebuilding
    BY <1>3 DEF Rebuilding
  <2>2. target = 1 - active
    BY <2>1 DEF IndInv, RebuiltSideIsFree
  <2>3. 1 - active # active
    BY <1>0 DEF Sides
  <2>. QED  BY <1>3, <2>1, <2>2, <2>3
<1>4. ASSUME pc \in {"payload", "fields", "commit"}, writer # Idle, s = target, o >= cursor \/ o = writebase
      PROVE  IF s = active THEN o >= tail ELSE Rebuilding
  <2>1. ~failed
    BY <1>4 DEF IndInv, RequestFitsBlock
  <2>2. cursor >= writebase + HEADER
    BY <1>4, <2>1 DEF IndInv, DraftIsNext
  <2>3. target = active => writebase = tail
    BY <1>4 DEF IndInv, DraftIsNext
  <2>4. target # active => rotating
    BY <1>4, <2>1 DEF IndInv, DraftIsNext
  <2>. QED  BY <1>0, <1>4, <2>2, <2>3, <2>4 DEF Rebuilding
<1>5. ASSUME pc \in {"fields", "commit"}, writer = Idle
      PROVE  target = active /\ writebase = tail
  BY <1>5 DEF IndInv, RequestFitsBlock
<1>6. pc = "payload" => writer # Idle
  BY DEF IndInv, RequestFitsBlock
<1>. QED  BY <1>0, <1>1, <1>2, <1>3, <1>4, <1>5, <1>6

LEMMA LogBehindStays ==
    ASSUME IndInv, SpaceInv, Durability, ~Decays, Next
    PROVE  /\ ~Serviceable => cell' = cell
           /\ Same(cell[active], cell'[active], 0, tail)
           /\ \A f \in Channels : channels[f].kind = 1 =>
                LET c == channels[f] IN Extract(cell'[c.side], c.off, c.len) = Extract(cell[c.side], c.off, c.len)
<1>0. /\ tail \in Nat /\ active \in Sides /\ cell \in [Sides -> Log]
      /\ \A f \in Channels : channels[f].side \in Sides /\ channels[f].off \in Nat /\ channels[f].len \in Nat
  BY DEF IndInv, TypeOK, Log
<1>1. ASSUME ~Serviceable PROVE cell' = cell
  BY <1>1 DEF Next, Request, Continue, Failure, Serviceable, Serving, OpenWrite, Concat, Scratch, Rename, Attribute,
     Compact, Write, Close, Abort, OpenRead, Read, ListFiles, NextEntry, ScratchNext, TagRecord, Reserve, Payload, Fields, Commit,
     CompactBegin, Erase, CopyNext, Move, Seal, Activate, ScanRecord, ScanEnds, FallBack, TagFails, PayloadFails,
     RecordFails, EraseFails, CompactFails, Mount, PowerLoss, Decay, flashVars
<1>2. Same(cell[active], cell'[active], 0, tail)
  <2>1. ASSUME NEW o \in Offsets, o < tail PROVE cell'[active][o] = cell[active][o]
    <3>1. o \in Nat /\ ~(o >= tail)
      BY <1>0, <2>1 DEF Offsets
    <3>. QED  BY <1>0, <3>1, ProgramsAhead
  <2>. QED  BY <2>1 DEF Same
<1>3. ASSUME NEW f \in Channels, channels[f].kind = 1
      PROVE  Extract(cell'[channels[f].side], channels[f].off, channels[f].len)
               = Extract(cell[channels[f].side], channels[f].off, channels[f].len)
  <2>. DEFINE s == channels[f].side
              off == channels[f].off
              len == channels[f].len
  <2>1. ASSUME NEW o \in Offsets, off <= o, o < off + len PROVE cell'[s][o] = cell[s][o]
    <3>1. CASE s = active
      <4>1. off + len <= tail
        BY <1>3, <3>1 DEF Durability, ReadersBehind
      <4>2. ~(o >= tail)
        BY <1>0, <2>1, <4>1 DEF Offsets
      <4>. QED  BY <1>0, <3>1, <4>2, ProgramsAhead
    <3>2. CASE s # active
      <4>1. ~Rebuilding
        <5>1. s = 1 - active
          BY <1>0, <3>2 DEF Sides
        <5>. QED  BY <1>3, <5>1 DEF IndInv, RebuiltSideIsFree
      <4>. QED  BY <1>0, <3>2, <4>1, ProgramsAhead
    <3>. QED  BY <3>1, <3>2
  <2>2. Same(cell[s], cell'[s], off, off + len) /\ off \in Nat /\ len \in Nat
    BY <1>0, <2>1 DEF Same
  <2>. QED  BY <2>2, ExtractSame
<1>. QED  BY <1>1, <1>2, <1>3

LEMMA FilesIndexed ==
    IndInv /\ Durability /\ Serviceable => DurableFiles = FilesOf(cell[active], heads) /\ active = Chosen
BY FilesAreIndexed DEF Durability, IndexIsReal, Serviceable

LEMMA FilesIndexedNext ==
    (IndInv /\ Durability /\ Serviceable => DurableFiles = FilesOf(cell[active], heads) /\ active = Chosen)'
BY FilesIndexed, PTL

(* The files of an index that still stands. *)
LEMMA SameRecords ==
    ASSUME IndInv, Durability, Serviceable, NEW log, Same(cell[active], log, 0, tail)
    PROVE  \A i \in Live : /\ log[heads[i]] = Entry(i)
                           /\ File(log, log[heads[i]]) = File(cell[active], Entry(i))
<1>. SUFFICES ASSUME NEW i \in Live
              PROVE  log[heads[i]] = Entry(i) /\ File(log, log[heads[i]]) = File(cell[active], Entry(i))
  OBVIOUS
<1>1. /\ heads[i] \in Offsets /\ heads[i] < tail /\ Entry(i).off \in Nat /\ Entry(i).len \in Nat
      /\ Entry(i).off + Entry(i).len <= tail
  BY LiveFiles
<1>2. log[heads[i]] = Entry(i)
  BY <1>1 DEF Same, Entry, Offsets
<1>3. Same(cell[active], log, Entry(i).off, Entry(i).off + Entry(i).len)
  BY <1>1, ActiveLog DEF Same, Offsets
<1>4. Extract(log, Entry(i).off, Entry(i).len) = Extract(cell[active], Entry(i).off, Entry(i).len)
  BY <1>1, <1>3, ExtractSame
<1>. QED  BY <1>2, <1>4 DEF File

LEMMA SameIndexSameFiles ==
    ASSUME IndInv, SpaceInv, Durability, IndInv', Durability', ~Decays, Next,
           Serviceable, Serviceable', active' = active, heads' = heads
    PROVE  DurableFiles' = DurableFiles
<1>. DEFINE new == cell'[active]
<1>1. \A i \in Live : new[heads[i]] = Entry(i) /\ File(new, new[heads[i]]) = File(cell[active], Entry(i))
  BY LogBehindStays, SameRecords
<1>2. DurableFiles = FilesOf(cell[active], heads)
  BY FilesIndexed
<1>3. DurableFiles' = FilesOf(new, heads)
  BY FilesIndexedNext
<1>. HIDE DEF new
<1>4. ASSUME NEW n \in Names
      PROVE  /\ HavingName(new, heads, n) = HavingName(cell[active], heads, n)
             /\ {File(new, new[heads[i]]) : i \in HavingName(new, heads, n)}
                  = {File(cell[active], cell[active][heads[i]]) : i \in HavingName(cell[active], heads, n)}
  <2>1. \A i \in Slots : heads[i] # 0 => new[heads[i]] = cell[active][heads[i]]
                                         /\ File(new, new[heads[i]]) = File(cell[active], cell[active][heads[i]])
    BY <1>1 DEF Live, Entry
  <2>2. HavingName(new, heads, n) = HavingName(cell[active], heads, n)
    BY <2>1 DEF HavingName
  <2>3. \A i \in HavingName(new, heads, n) : File(new, new[heads[i]]) = File(cell[active], cell[active][heads[i]])
    BY <2>1 DEF HavingName
  <2>. QED  BY <2>2, <2>3
<1>. QED  BY <1>2, <1>3, <1>4 DEF FilesOf

-----------------------------------------------------------------------------
(* Steps that change nothing, and steps that end a draft                   *)

(* A step of the journal is one of the store, or none. *)
Maps == Store!Next \/ UNCHANGED <<files, ReaderContents, Draft>>

KeepsReader(f) ==
    /\ channels'[f].kind = 1 <=> channels[f].kind = 1
    /\ channels[f].kind = 1 =>
         channels'[f].side = channels[f].side /\ channels'[f].off = channels[f].off /\ channels'[f].len = channels[f].len

LEMMA ReaderKept ==
    ASSUME Known, ~Decays, Next, NEW f \in Channels, KeepsReader(f)
    PROVE  ReaderContents'[f] = ReaderContents[f]
<1>1. CASE channels[f].kind # 1
  BY <1>1 DEF KeepsReader, ReaderContents
<1>2. CASE channels[f].kind = 1
  <2>1. Extract(cell'[channels[f].side], channels[f].off, channels[f].len)
          = Extract(cell[channels[f].side], channels[f].off, channels[f].len)
    BY <1>2, LogBehindStays DEF Known
  <2>. QED  BY <1>2, <2>1 DEF KeepsReader, ReaderContents
<1>. QED  BY <1>1, <1>2

LEMMA ReadersKept ==
    ASSUME Known, ~Decays, Next, \A f \in Channels : KeepsReader(f)
    PROVE  ReaderContents' = ReaderContents
<1>1. \A f \in Channels : ReaderContents'[f] = ReaderContents[f]
  BY ReaderKept
<1>2. ReaderContents = [f \in Channels |-> ReaderContents[f]] /\ ReaderContents' = [f \in Channels |-> ReaderContents'[f]]
  BY DEF ReaderContents
<1>. QED  BY <1>1, <1>2, Zenon

LEMMA SameChannels ==
    ASSUME UNCHANGED channels
    PROVE  \A f \in Channels : KeepsReader(f)
BY DEF KeepsReader

(* Only the writer's channel is released, which is no reader's. *)
LEMMA ReleaseKeeps ==
    ASSUME Known, pc # "idle", Release
    PROVE  \A f \in Channels : KeepsReader(f)
<1>. SUFFICES ASSUME NEW f \in Channels PROVE KeepsReader(f)
  OBVIOUS
<1>1. channels'[f] = IF writer = f THEN Closed ELSE channels[f]
  BY DEF Release
<1>2. writer = f => channels[f].kind = 2
  BY DEF Known, IndInv, WriterOwnsChannel
<1>. QED  BY <1>1, <1>2 DEF KeepsReader, Closed

KeepsFiles == UNCHANGED flashVars \/ (Serviceable /\ Serviceable' /\ UNCHANGED <<active, heads>>)

LEMMA FilesKept ==
    ASSUME Known, Known', ~Decays, Next, KeepsFiles
    PROVE  files' = files
<1>1. DurableFiles' = DurableFiles
  BY SameFlashSameFiles, SameIndexSameFiles DEF Known, KeepsFiles
<1>. QED  BY <1>1 DEF Known, FilesAreDurable

LEMMA StutterMaps ==
    ASSUME Known, Known', ~Decays, Next, KeepsFiles, \A f \in Channels : KeepsReader(f),
           UNCHANGED <<writer, newname, data>>
    PROVE  Maps
BY FilesKept, ReadersKept DEF Maps, Draft

LEMMA DiscardMaps ==
    ASSUME Known, Known', ~Decays, Next, KeepsFiles, \A f \in Channels : KeepsReader(f), writer' = Idle
    PROVE  Maps
<1>1. files' = files /\ ReaderContents' = ReaderContents /\ Draft' = {}
  BY FilesKept, ReadersKept DEF Draft
<1>2. CASE writer = Idle
  BY <1>1, <1>2 DEF Maps, Draft
<1>3. CASE writer # Idle
  <2>1. Draft # {}
    BY <1>3 DEF Draft
  <2>. QED  BY <1>1, <2>1 DEF Maps, Store!Next, Store!Discard
<1>. QED  BY <1>2, <1>3

LEMMA GiveUpMaps ==
    ASSUME Known, Known', ~Decays, Next, pc # "idle", NEW e, GiveUp(e), Serviceable
    PROVE  Maps
<1>1. KeepsFiles
  BY DEF GiveUp, Reply, KeepsFiles, Serviceable
<1>2. CASE job.op = "write"
  BY <1>1, <1>2, SameChannels, StutterMaps DEF GiveUp, cursorVars
<1>3. CASE job.op # "write"
  BY <1>1, <1>3, ReleaseKeeps, DiscardMaps DEF GiveUp, Forget
<1>. QED  BY <1>2, <1>3

(* Steps of which the store sees nothing. *)
LEMMA QuietMaps ==
    ASSUME Known, Known', ~Decays, Next, UNCHANGED <<writer, newname, data, channels>>, KeepsFiles
    PROVE  Maps
BY SameChannels, StutterMaps
-----------------------------------------------------------------------------
(* Requests                                                                *)

LEMMA RefuseMaps ==
    ASSUME Known, Known', ~Decays, Next, NEW e, Refuse(e)
    PROVE  Maps
BY QuietMaps DEF Refuse, KeepsFiles, draftVars, cursorVars

LEMMA PrepareMaps ==
    ASSUME Known, Known', ~Decays, Next, NEW j, Prepare(j)
    PROVE  Maps
BY RefuseMaps, QuietMaps DEF Prepare, KeepsFiles, cursorVars

LEMMA StartWriteMaps ==
    ASSUME Known, Known', ~Decays, Next, NEW n, NEW j, StartWrite(n, j)
    PROVE  Maps
BY RefuseMaps, PrepareMaps DEF StartWrite

LEMMA WritingRequestsMap ==
    ASSUME Known, Known', ~Decays, Next,
           \/ \E f \in Channels, n \in Names, append \in BOOLEAN : OpenWrite(f, n, append)
           \/ \E n, sources : Concat(n, sources)
           \/ \E names : Scratch(names)
           \/ \E new \in Names, old \in Names : Rename(new, old)
           \/ \E n \in Names, flag \in BOOLEAN : Attribute(n, flag)
           \/ Compact \/ ScratchNext
           \/ \E f \in Channels, bytes \in Chunks : Write(f, bytes)
    PROVE  Maps
<1>1. CASE \E f \in Channels, n \in Names, append \in BOOLEAN : OpenWrite(f, n, append)
  BY <1>1, RefuseMaps, StartWriteMaps DEF OpenWrite
<1>2. CASE \E n, sources : Concat(n, sources)
  BY <1>2, RefuseMaps, StartWriteMaps DEF Concat
<1>3. CASE (\E names : Scratch(names)) \/ ScratchNext
  BY <1>3, RefuseMaps, PrepareMaps DEF Scratch, ScratchNext
<1>4. CASE (\E new \in Names, old \in Names : Rename(new, old)) \/ (\E n \in Names, flag \in BOOLEAN : Attribute(n, flag))
  BY <1>4, RefuseMaps, PrepareMaps DEF Rename, Attribute
<1>5. CASE Compact \/ \E f \in Channels, bytes \in Chunks : Write(f, bytes)
  <2>1. (\E e : Refuse(e)) \/ (UNCHANGED <<writer, newname, data, channels>> /\ UNCHANGED flashVars)
    BY <1>5 DEF Compact, Write, draftVars, cursorVars
  <2>. QED  BY <2>1, RefuseMaps, QuietMaps DEF KeepsFiles
<1>. QED  BY <1>1, <1>2, <1>3, <1>4, <1>5

(* A channel is closed, or begins a listing: its reader's, the writer's, or none's. *)
LEMMA ClosesMap ==
    ASSUME Known, Known', ~Decays, Next, NEW f \in Channels, Close(f) \/ Abort(f) \/ ListFiles(f)
    PROVE  Maps
<1>0. UNCHANGED flashVars /\ channels \in [Channels -> ChannelType]
  BY DEF Close, Abort, ListFiles, Known, IndInv, TypeOK, ChannelType
<1>. USE DEF KeepsFiles
<1>1. CASE UNCHANGED <<channels, writer, newname, data>>
  BY <1>0, <1>1, QuietMaps
<1>2. CASE /\ \E c : channels' = [channels EXCEPT ![f] = c] /\ c.kind # 1
           /\ (writer = f /\ writer' = Idle) \/ UNCHANGED <<writer, newname, data>>
  <2>1. files' = files /\ (Draft' = Draft \/ (Draft # {} /\ Draft' = {}))
    BY <1>0, <1>2, FilesKept, JournalAssumption DEF Draft
  <2>2. \A g \in Channels : g # f => ReaderContents'[g] = ReaderContents[g]
    <3>1. \A g \in Channels : g # f => KeepsReader(g)
      BY <1>0, <1>2 DEF KeepsReader
    <3>. QED  BY <3>1, ReaderKept
  <2>3. ReaderContents'[f] = {}
    BY <1>0, <1>2 DEF ReaderContents, Closed
  <2>4. ReaderContents = [g \in Channels |-> ReaderContents[g]] /\ ReaderContents' = [g \in Channels |-> ReaderContents'[g]]
    BY DEF ReaderContents
  <2>5. ReaderContents' = [ReaderContents EXCEPT ![f] = {}]
    BY <2>2, <2>3, <2>4
  <2>. QED  BY <2>1, <2>5 DEF Maps, Store!Next, Store!Release, Store!Abandon
<1>3. Closed.kind # 1 /\ [Closed EXCEPT !.kind = 3].kind # 1
  BY DEF Closed
<1>. QED  BY <1>1, <1>2, <1>3 DEF Close, Abort, ListFiles, Forget, draftVars, cursorVars

LEMMA ReadMaps ==
    ASSUME Known, Known', ~Decays, Next, NEW f \in Channels, Read(f, 1) \/ NextEntry(f)
    PROVE  Maps
<1>1. /\ channels \in [Channels -> ChannelType]
      /\ UNCHANGED <<flashVars, draftVars, cursorVars>>
      /\ \E p : channels' = [channels EXCEPT ![f].pos = p]
  BY DEF Read, NextEntry, Known, IndInv, TypeOK, ChannelType
<1>2. \A g \in Channels : KeepsReader(g)
  BY <1>1 DEF KeepsReader, ChannelType
<1>. QED  BY <1>1, <1>2, StutterMaps DEF KeepsFiles, draftVars, cursorVars

LEMMA OpenReadMaps ==
    ASSUME Known, Known', ~Decays, Next, NEW f \in Channels, NEW n \in Names, OpenRead(f, n)
    PROVE  Maps
<1>1. CASE \E e : Refuse(e)
  BY <1>1, RefuseMaps
<1>2. CASE ~\E e : Refuse(e)
  <2>1. PICK i \in Slots :
          /\ First(i, Named(n)) /\ channels[f].kind = 0
          /\ channels' = [channels EXCEPT ![f] =
               [kind |-> 1, side |-> active, off |-> Entry(i).off, len |-> Entry(i).len, pos |-> 0]]
          /\ UNCHANGED <<flashVars, draftVars, cursorVars>>
    BY <1>2 DEF OpenRead
  <2>2. Serviceable
    BY DEF OpenRead, Serving, Serviceable
  <2>3. i \in Live /\ Entry(i).name = n
    BY <2>1 DEF First, Named
  <2>4. files' = files /\ Draft' = Draft
    BY <2>1, FilesKept DEF Draft, KeepsFiles, draftVars, cursorVars
  <2>5. files[n] = {File(cell[active], Entry(i))}
    <3>1. files = FilesOf(cell[active], heads)
      BY <2>2, FilesIndexed DEF Known, FilesAreDurable
    <3>2. HavingName(cell[active], heads, n) = {i}
      <4>1. \A j \in HavingName(cell[active], heads, n) : j = i
        BY <2>2, <2>3, NamesDiffer DEF Known, HavingName, Live, Entry
      <4>2. i \in HavingName(cell[active], heads, n)
        BY <2>3 DEF HavingName, Live, Entry
      <4>. QED  BY <4>1, <4>2
    <3>. QED  BY <3>1, <3>2 DEF FilesOf, Entry
  <2>. DEFINE text == Extract(cell[active], Entry(i).off, Entry(i).len)
  <2>6. Store!Contents(n) = {text} /\ Store!Exists(n)
    BY <2>5 DEF Store!Contents, Store!Exists, File
  <2>7. channels \in [Channels -> ChannelType] /\ cell' = cell
    BY <2>1 DEF Known, IndInv, TypeOK, ChannelType, flashVars
  <2>8. ReaderContents[f] = {} /\ ReaderContents'[f] = {text}
    <3>. DEFINE c == [kind |-> 1, side |-> active, off |-> Entry(i).off, len |-> Entry(i).len, pos |-> 0]
    <3>1. channels'[f] = c
      BY <2>1, <2>7
    <3>2. c.kind = 1 /\ c.side = active /\ c.off = Entry(i).off /\ c.len = Entry(i).len
      OBVIOUS
    <3>. QED  BY <2>1, <2>7, <3>1, <3>2 DEF ReaderContents
  <2>9. \A g \in Channels : g # f => ReaderContents'[g] = ReaderContents[g]
    <3>1. \A g \in Channels : g # f => KeepsReader(g)
      BY <2>1, <2>7 DEF KeepsReader
    <3>. QED  BY <3>1, ReaderKept
  <2>10. ReaderContents = [g \in Channels |-> ReaderContents[g]] /\ ReaderContents' = [g \in Channels |-> ReaderContents'[g]]
    BY DEF ReaderContents
  <2>. HIDE DEF text
  <2>11. ReaderContents' = [ReaderContents EXCEPT ![f] = Store!Contents(n)]
    BY <2>6, <2>8, <2>9, <2>10
  <2>. QED  BY <2>4, <2>6, <2>8, <2>11 DEF Maps, Store!Next, Store!Open
<1>. QED  BY <1>1, <1>2
-----------------------------------------------------------------------------
(* Drafts                                                                  *)

(* The file of a slot that is in use. *)
LEMMA LiveFile ==
    ASSUME Known, Serviceable, NEW i \in Live
    PROVE  /\ Entry(i).name \in Names
           /\ files[Entry(i).name] = {File(cell[active], Entry(i))}
<1>1. Entry(i).name \in Names
  BY LiveFiles, RecordType DEF Known
<1>2. files = FilesOf(cell[active], heads)
  BY FilesIndexed DEF Known, FilesAreDurable
<1>3. HavingName(cell[active], heads, Entry(i).name) = {i}
  <2>1. \A j \in HavingName(cell[active], heads, Entry(i).name) : j = i
    BY NamesDiffer DEF Known, HavingName, Live, Entry
  <2>2. i \in HavingName(cell[active], heads, Entry(i).name)
    BY DEF HavingName, Live, Entry
  <2>. QED  BY <2>1, <2>2
<1>. QED  BY <1>1, <1>2, <1>3 DEF FilesOf, Entry

LEMMA NoFile ==
    ASSUME Known, Serviceable, NEW n \in Names, \A i \in Live : Entry(i).name # n
    PROVE  files[n] = {}
<1>1. files = FilesOf(cell[active], heads)
  BY FilesIndexed DEF Known, FilesAreDurable
<1>2. HavingName(cell[active], heads, n) = {}
  <2>1. \A i \in Slots : ~(heads[i] # 0 /\ cell[active][heads[i]].name = n)
    BY DEF Live, Entry
  <2>. QED  BY <2>1 DEF HavingName
<1>. QED  BY <1>1, <1>2 DEF FilesOf

LEMMA MayBeReplaced ==
    ASSUME Known, Serviceable, NEW i, NEW n \in Names, Replaces(i, n)
    PROVE  Store!Writable(n)
<1>1. CASE i \in Live
  <2>1. Entry(i).name = n /\ ~Entry(i).ro
    BY <1>1 DEF Replaces
  <2>2. files[n] = {File(cell[active], Entry(i))}
    BY <1>1, <2>1, LiveFile
  <2>. QED  BY <2>1, <2>2 DEF Store!Writable, File
<1>2. CASE i \notin Live
  <2>1. files[n] = {}
    BY <1>2, NoFile DEF Replaces
  <2>. QED  BY <2>1 DEF Store!Writable
<1>. QED  BY <1>1, <1>2

LEMMA TagRecordMaps ==
    ASSUME Known, Known', ~Decays, Next, TagRecord
    PROVE  Maps
<1>0. /\ pc = "tag" /\ Serviceable /\ Serviceable' /\ UNCHANGED <<active, heads>> /\ data' = <<>>
      /\ job \in Jobs /\ writer = Idle
  <2>1. pc = "tag" /\ UNCHANGED <<active, heads>> /\ data' = <<>>
    BY DEF TagRecord, indexVars
  <2>2. pc' \in {"fields", "reserve", "idle"}
    BY DEF TagRecord, BeginDraft, Reply
  <2>3. writer = Idle
    BY <2>1 DEF Known, IndInv, DraftIsNext
  <2>. QED  BY <2>1, <2>2, <2>3 DEF Serviceable, Known, IndInv, TypeOK
<1>1. KeepsFiles
  BY <1>0 DEF KeepsFiles
<1>2. CASE job.op \notin {"open", "concat"}
  <2>1. UNCHANGED <<writer, channels>>
    BY <1>2 DEF TagRecord
  <2>. QED  BY <1>0, <1>1, <2>1, SameChannels, DiscardMaps
<1>3. CASE job.op \in {"open", "concat"}
  <2>1. BeginDraft
    BY <1>3 DEF TagRecord
  <2>2. writer' # Idle
    <3>1. job.op = "open" => job.f \in Channels
      BY <1>0 DEF Jobs
    <3>. QED  BY <2>1, <3>1, JournalAssumption DEF BeginDraft
  <2>3. newname' = job.name /\ job.name \in Names
    BY <1>0, <1>3, <2>1 DEF BeginDraft, Jobs
  <2>4. \A f \in Channels : KeepsReader(f)
    <3>1. CASE job.op = "open"
      <4>1. /\ channels' = [channels EXCEPT ![job.f] = [Closed EXCEPT !.kind = 2]]
            /\ job.f \in Channels
        BY <1>0, <2>1, <3>1 DEF BeginDraft, Jobs
      <4>2. channels[job.f].kind = 0
        BY <1>0, <3>1 DEF Known, OpenIsPending
      <4>3. [Closed EXCEPT !.kind = 2].kind = 2
        BY DEF Closed
      <4>4. channels \in [Channels -> ChannelType]
        BY DEF Known, IndInv, TypeOK, ChannelType
      <4>5. ASSUME NEW f \in Channels PROVE KeepsReader(f)
        <5>1. CASE f = job.f
          <6>1. channels'[f].kind = 2
            BY <4>1, <4>3, <4>4, <5>1
          <6>. QED  BY <4>2, <5>1, <6>1 DEF KeepsReader
        <5>2. CASE f # job.f
          BY <4>1, <4>4, <5>2 DEF KeepsReader
        <5>. QED  BY <5>1, <5>2
      <4>. QED  BY <4>5
    <3>2. CASE job.op = "concat"
      BY <2>1, <3>2, SameChannels DEF BeginDraft
    <3>. QED  BY <1>3, <3>1, <3>2
  <2>5. Draft = {} /\ Draft' = {[name |-> job.name, data |-> <<>>]}
    BY <1>0, <2>2, <2>3 DEF Draft
  <2>6. Store!Writable(job.name)
    <3>1. Replaces(job.slot, job.name)
      BY <1>0, <1>3 DEF Known, Durability, JobIsAllowed
    <3>. QED  BY <1>0, <2>3, <3>1, MayBeReplaced
  <2>7. files' = files /\ ReaderContents' = ReaderContents
    BY <1>1, <2>4, FilesKept, ReadersKept
  <2>8. Store!Begin(job.name)
    BY <2>5, <2>6, <2>7 DEF Store!Begin
  <2>. QED  BY <2>3, <2>8 DEF Maps, Store!Next
<1>. QED  BY <1>2, <1>3

LEMMA IncomingIsKnown ==
    ASSUME Known, pc = "payload"
    PROVE  Incoming \in Chunks \cup UNION {Store!Contents(n) : n \in Names}
<1>0. Serviceable /\ writer # Idle /\ job.op \in {"write", "open", "concat"}
  BY DEF Serviceable, Known, IndInv, RequestFitsBlock
<1>1. ASSUME NEW i \in Live PROVE Contents(i) \in UNION {Store!Contents(n) : n \in Names}
  <2>1. Entry(i).name \in Names /\ files[Entry(i).name] = {File(cell[active], Entry(i))}
    BY <1>0, LiveFile
  <2>2. Contents(i) = Extract(cell[active], Entry(i).off, Entry(i).len)
    BY StoredIs DEF Contents
  <2>3. Contents(i) \in Store!Contents(Entry(i).name)
    BY <2>1, <2>2 DEF Store!Contents, File
  <2>. QED  BY <2>1, <2>3
<1>2. CASE job.op = "write"
  BY <1>2 DEF Incoming, Known, Durability, JobIsAllowed
<1>3. CASE job.op = "open"
  <2>1. wslot \in Live
    BY <1>0, <1>3 DEF Known, IndInv, SourcesExist, TypeOK, Live
  <2>. QED  BY <1>1, <1>3, <2>1 DEF Incoming
<1>4. CASE job.op = "concat"
  <2>. DEFINE i == CHOOSE i \in Named(Head(job.srcs)) : TRUE
  <2>1. Named(Head(job.srcs)) # {}
    BY <1>0, <1>4 DEF Known, IndInv, SourcesExist
  <2>2. i \in Live
    BY <2>1 DEF Named
  <2>3. Incoming = Contents(i)
    BY <1>4 DEF Incoming
  <2>. QED  BY <1>1, <2>2, <2>3
<1>. QED  BY <1>0, <1>2, <1>3, <1>4

LEMMA PayloadMaps ==
    ASSUME Known, Known', ~Decays, Next, Payload
    PROVE  Maps
<1>1. /\ pc = "payload" /\ data' = data \o Incoming
      /\ UNCHANGED <<active, heads, writer, newname, channels>>
      /\ pc' \in {"idle", "fields", "reserve"}
  BY DEF Payload, Reply, indexVars, draftVars
<1>2. writer # Idle
  BY <1>1 DEF Known, IndInv, RequestFitsBlock
<1>3. KeepsFiles
  BY <1>1 DEF KeepsFiles, Serviceable
<1>4. files' = files /\ ReaderContents' = ReaderContents
  BY <1>1, <1>3, FilesKept, ReadersKept, SameChannels
<1>. DEFINE d == [name |-> newname, data |-> data]
<1>5. Draft = {d} /\ Draft' = {[d EXCEPT !.data = @ \o Incoming]}
  BY <1>1, <1>2 DEF Draft
<1>6. Incoming \in Chunks \cup UNION {Store!Contents(n) : n \in Names}
  BY <1>1, IncomingIsKnown
<1>. HIDE DEF d
<1>7. Store!Extend
  BY <1>4, <1>5, <1>6 DEF Store!Extend
<1>. QED  BY <1>7 DEF Maps, Store!Next

(* Blocks that do not end a request, or end it with an error. *)
LEMMA BlocksMap ==
    ASSUME Known, Known', ~Decays, Next,
           \/ Reserve \/ Fields \/ CompactBegin \/ Erase \/ CopyNext \/ Move \/ Seal \/ Failure
    PROVE  Maps
<1>1. ASSUME NEW e, GiveUp(e), pc \notin {"off", "scan", "condemned", "idle"} PROVE Maps
  BY <1>1, GiveUpMaps DEF Serviceable
<1>2. ASSUME UNCHANGED <<active, heads, writer, newname, data, channels>>,
             pc \notin {"off", "scan", "condemned"}, pc' \notin {"off", "scan", "condemned"}
      PROVE  Maps
  BY <1>2, QuietMaps DEF KeepsFiles, Serviceable
<1>. USE DEF indexVars, draftVars, cursorVars
<1>3. CASE Reserve
  BY <1>1, <1>2, <1>3 DEF Reserve
<1>4. CASE Fields
  BY <1>1, <1>2, <1>4 DEF Fields
<1>5. CASE CompactBegin
  BY <1>1, <1>2, <1>5 DEF CompactBegin
<1>6. CASE Erase
  BY <1>2, <1>6 DEF Erase
<1>7. CASE CopyNext
  BY <1>2, <1>7 DEF CopyNext
<1>8. CASE Move
  BY <1>1, <1>2, <1>8 DEF Move
<1>9. CASE Seal
  BY <1>2, <1>9 DEF Seal
<1>10. CASE Failure
  BY <1>1, <1>10 DEF Failure, TagFails, PayloadFails, RecordFails, EraseFails, CompactFails
<1>. QED  BY <1>3, <1>4, <1>5, <1>6, <1>7, <1>8, <1>9, <1>10

(* Loss of power, and mount(). *)
LEMMA MountingMaps ==
    ASSUME Known, Known', ~Decays, Next, Mount \/ ScanRecord \/ ScanEnds
    PROVE  Maps
<1>1. UNCHANGED <<flashVars, writer, newname, data, channels>>
  BY DEF Mount, NoFilesystem, ScanRecord, ScanEnds, draftVars, cursorVars
<1>. QED  BY <1>1, QuietMaps DEF KeepsFiles

LEMMA ChosenFiles ==
    IndInv /\ Durability => DurableFiles = FilesOf(cell[Chosen], Index(cell[Chosen]))
BY FilesAre

LEMMA ChosenFilesNext ==
    (IndInv /\ Durability => DurableFiles = FilesOf(cell[Chosen], Index(cell[Chosen])))'
BY ChosenFiles, PTL

LEMMA PowerLossMaps ==
    ASSUME Known, Known', ~Decays, Next, PowerLoss
    PROVE  Maps
<1>1. Draft' = {} /\ ReaderContents' = [f \in Channels |-> {}]
  BY DEF PowerLoss, Forget, Draft, ReaderContents, Closed
<1>2. DurableFiles' = DurableFiles
  <2>1. CASE pc # "erase"
    BY <2>1, SameFlashSameFiles DEF PowerLoss
  <2>2. CASE pc = "erase"
    <3>1. active \in Sides /\ active = Chosen /\ Sealed(active)
      BY <2>2, ActiveLog DEF Known, Serviceable
    <3>2. cell'[active] = cell[active] /\ sector'[active] = sector[active]
          /\ (sector'[1 - active] = sector[1 - active] \/ sector'[1 - active].state = "unsealed")
      BY <2>2, HalfErasedStays DEF Known, PowerLoss
    <3>3. \A s : s = active => s = Chosen'
      BY <3>1, <3>2, StillChosen
    <3>4. \A s : s = active => cell'[Chosen'] = cell[s] /\ cell[s] = cell[Chosen]
      BY <3>1, <3>2, <3>3
    <3>. QED  BY <3>4, ChosenFiles, ChosenFilesNext DEF Known
  <2>. QED  BY <2>1, <2>2
<1>3. files' = files
  BY <1>2 DEF Known, FilesAreDurable
<1>. QED  BY <1>1, <1>3 DEF Maps, Store!Next, Store!PowerLoss

-----------------------------------------------------------------------------
(* Commits: a record is added to the log, or another log takes over        *)

(* The files of the slots, and no others. *)
LEMMA StoredFiles ==
    Known /\ Serviceable =>
      /\ \A i \in Live : Entry(i).name \in Names /\ files[Entry(i).name] = {File(cell[active], Entry(i))}
      /\ \A n \in Names : (\A i \in Live : Entry(i).name # n) => files[n] = {}
      /\ files = [n \in Names |-> files[n]] /\ Store!Fits(files)
<1>. SUFFICES ASSUME Known, Serviceable
              PROVE  /\ \A i \in Live : Entry(i).name \in Names /\ files[Entry(i).name] = {File(cell[active], Entry(i))}
                     /\ \A n \in Names : (\A i \in Live : Entry(i).name # n) => files[n] = {}
                     /\ files = [n \in Names |-> files[n]] /\ Store!Fits(files)
  OBVIOUS
<1>1. files = FilesOf(cell[active], heads)
  BY FilesIndexed DEF Known, FilesAreDurable
<1>2. files = [n \in Names |-> files[n]]
  BY <1>1 DEF FilesOf
<1>3. Store!Fits(files)
  BY DirectoryFits DEF Known, FilesAreDurable
<1>. QED  BY <1>2, <1>3, LiveFile, NoFile

LEMMA StoredFilesNext ==
    (Known /\ Serviceable =>
      /\ \A i \in Live : Entry(i).name \in Names /\ files[Entry(i).name] = {File(cell[active], Entry(i))}
      /\ \A n \in Names : (\A i \in Live : Entry(i).name # n) => files[n] = {}
      /\ files = [n \in Names |-> files[n]] /\ Store!Fits(files))'
BY StoredFiles, PTL

(* What a step does about slot i: nothing. *)
KeepsSlot(i) ==
    /\ i \in Live' <=> i \in Live
    /\ i \in Live => Entry(i)'.name = Entry(i).name /\ File(cell[active], Entry(i))' = File(cell[active], Entry(i))

(* A file is as it was, unless one of the slots that change has its name.  *)
LEMMA OthersStay ==
    ASSUME Known, Known', Serviceable, Serviceable', NEW S, \A i \in Slots : i \notin S => KeepsSlot(i),
           NEW n \in Names, \A i \in S : i \in Live => Entry(i).name # n,
           \A i \in S : i \in Live' => Entry(i)'.name # n
    PROVE  files'[n] = files[n]
<1>1. CASE \E i \in Live : Entry(i).name = n
  <2>1. PICK i \in Live : Entry(i).name = n
    BY <1>1
  <2>2. KeepsSlot(i)
    BY <2>1 DEF Live
  <2>3. files[n] = {File(cell[active], Entry(i))}
    BY <2>1, StoredFiles
  <2>4. i \in Live' /\ Entry(i)'.name = n
    BY <2>1, <2>2 DEF KeepsSlot
  <2>5. files'[n] = {File(cell[active], Entry(i))'}
    BY <2>4, StoredFilesNext
  <2>. QED  BY <2>2, <2>3, <2>5 DEF KeepsSlot
<1>2. CASE ~\E i \in Live : Entry(i).name = n
  <2>1. ASSUME NEW i \in Live' PROVE Entry(i)'.name # n
    <3>1. i \in Slots
      BY DEF Live
    <3>2. CASE i \in S
      BY <3>2
    <3>3. CASE i \notin S
      BY <1>2, <3>1, <3>3 DEF KeepsSlot
    <3>. QED  BY <3>2, <3>3
  <2>. QED  BY <1>2, <2>1, StoredFiles, StoredFilesNext
<1>. QED  BY <1>1, <1>2

(* The draft becomes the file. *)
LEMMA DraftCommitMaps ==
    ASSUME Known, Known', ~Decays, Next, Serviceable, Serviceable', pc # "idle", writer # Idle, writer' = Idle, Release,
           NEW w, w = wslot, \A i \in Slots : i # w => KeepsSlot(i),
           w \in Live', Entry(w)'.name = newname,
           File(cell[active], Entry(w))' = [data |-> data, ro |-> FALSE]
    PROVE  Maps
<1>. DEFINE d == [name |-> newname, data |-> data]
<1>1. Draft = {d} /\ Draft' = {}
  BY DEF Draft
<1>2. ReaderContents' = ReaderContents
  BY ReleaseKeeps, ReadersKept
<1>3. newname \in Names /\ files'[newname] = {[data |-> data, ro |-> FALSE]}
  <2>1. Entry(w)'.name \in Names /\ files'[Entry(w)'.name] = {File(cell[active], Entry(w))'}
    BY StoredFilesNext
  <2>. QED  BY <2>1
<1>4. Replaces(wslot, newname)
  BY DEF Known, Durability, DraftReplaces
<1>5. Store!Writable(newname)
  BY <1>3, <1>4, MayBeReplaced
<1>6. ASSUME NEW n \in Names, n # newname PROVE files'[n] = files[n]
  <2>. DEFINE S == {w}
  <2>1. \A i \in S : i \in Live => Entry(i).name # n
    BY <1>4, <1>6 DEF Replaces
  <2>2. \A i \in S : i \in Live' => Entry(i)'.name # n
    BY <1>6
  <2>3. \A i \in Slots : i \notin S => KeepsSlot(i)
    OBVIOUS
  <2>. HIDE DEF S
  <2>. QED  BY <2>1, <2>2, <2>3, OthersStay
<1>7. files' = [files EXCEPT ![newname] = {[data |-> data, ro |-> FALSE]}]
  <2>1. files = [n \in Names |-> files[n]] /\ files' = [n \in Names |-> files'[n]]
    BY StoredFiles, StoredFilesNext
  <2>. QED  BY <1>3, <1>6, <2>1
<1>8. Store!Fits(files')
  BY StoredFilesNext
<1>9. d \in Draft /\ d.name = newname /\ d.data = data
  BY <1>1
<1>. HIDE DEF d
<1>10. Store!Commit
  BY <1>1, <1>2, <1>5, <1>7, <1>8, <1>9 DEF Store!Commit
<1>. QED  BY <1>10 DEF Maps, Store!Next

(* Another log with the same files. *)
LEMMA SameFilesMap ==
    ASSUME Known, Known', ~Decays, Next, Serviceable, Serviceable', pc # "idle", writer' = Idle, writer = Idle, Release,
           \A i \in Slots : KeepsSlot(i)
    PROVE  Maps
<1>1. Draft = {} /\ Draft' = {}
  BY DEF Draft
<1>2. ReaderContents' = ReaderContents
  BY ReleaseKeeps, ReadersKept
<1>3. \A n \in Names : files'[n] = files[n]
  <2>. DEFINE S == {}
  <2>. SUFFICES ASSUME NEW n \in Names PROVE files'[n] = files[n]
    OBVIOUS
  <2>1. /\ \A i \in Slots : i \notin S => KeepsSlot(i)
        /\ \A i \in S : i \in Live => Entry(i).name # n
        /\ \A i \in S : i \in Live' => Entry(i)'.name # n
    OBVIOUS
  <2>. HIDE DEF S
  <2>. QED  BY <2>1, OthersStay
<1>4. files = [n \in Names |-> files[n]] /\ files' = [n \in Names |-> files'[n]]
  BY StoredFiles, StoredFilesNext
<1>5. files' = files
  BY <1>3, <1>4
<1>. QED  BY <1>1, <1>2, <1>5 DEF Maps

(* What a record does to the slots when it is committed. *)
Appends(r) ==
    /\ r \in Record /\ r = [NewRecord EXCEPT !.commit = TRUE] /\ NewRecord \in Record
    /\ Extract(cell'[active], tail + HEADER, r.span - HEADER) = r.crc /\ target = active /\ writebase = tail
    /\ \A i \in Slots : i # r.slot /\ i # r.drop => KeepsSlot(i)
    /\ r.kind = 3 => r.slot \notin Live'
    /\ r.kind # 3 => r.slot \in Live' /\ Entry(r.slot)' = r
    /\ r.drop # r.slot /\ (r.drop \in Slots => r.drop \notin Live')

LEMMA PlainCommitAppends ==
    ASSUME Known, Known', ~Decays, Next, Commit, ~rotating
    PROVE  /\ \E r : Appends(r)
           /\ pc = "commit" /\ Serviceable /\ Serviceable' /\ active' = active /\ writer' = Idle /\ Release
<1>0. IndInv /\ SpaceInv /\ Durability /\ IndInv' /\ Durability'
  BY DEF Known
<1>1. PICK r : Completes(r)
  BY <1>0, CommitCompletes
<1>2. /\ pc = "commit" /\ Serviceable /\ Serviceable' /\ target = active /\ writebase = tail
      /\ writer' = Idle /\ Release /\ heads' = Applied(heads, writebase) /\ active' = active
  BY <1>0 DEF Commit, Publish, Reply, Serviceable, IndInv, DraftIsNext, RequestFitsBlock, Forget
<1>3. /\ r = cell'[active][tail] /\ r \in Record /\ Reads(cell'[active], tail)
      /\ Same(cell[active], cell'[active], 0, tail)
  BY <1>1, <1>2 DEF Completes
<1>4. heads' = AfterRecord(heads, r, tail)
  <2>1. cell[target][writebase] \in Record /\ r = [cell[target][writebase] EXCEPT !.commit = TRUE]
    BY <1>0, <1>1, <1>2, CommitRecord DEF Completes, IndInv, RequestFitsBlock, IsRecord
  <2>2. /\ cell[target][writebase].kind = r.kind /\ cell[target][writebase].slot = r.slot
        /\ cell[target][writebase].drop = r.drop
    BY <2>1 DEF Record
  <2>. QED  BY <1>2, <2>2 DEF Applied, AfterRecord
<1>5. tail # 0 /\ r.slot \in Slots /\ r.slot # r.drop /\ r.crc = Extract(cell'[active], tail + HEADER, r.span - HEADER)
  <2>1. HEADER \in Nat \ {0}
    BY JournalAssumption
  <2>. QED  BY <1>0, <1>2, <1>3, <2>1, ActiveLog, RecordType DEF Reads
<1>6. \A i \in Slots : heads'[i] = IF i = r.slot THEN (IF r.kind = 3 THEN 0 ELSE tail)
                                   ELSE IF i = r.drop THEN 0 ELSE heads[i]
  BY <1>4 DEF AfterRecord
<1>7. ASSUME NEW i \in Slots, i # r.slot, i # r.drop PROVE KeepsSlot(i)
  <2>1. heads'[i] = heads[i]
    BY <1>6, <1>7
  <2>2. i \in Live' <=> i \in Live
    BY <2>1 DEF Live
  <2>3. ASSUME i \in Live
        PROVE  /\ cell'[active][heads[i]] = Entry(i)
               /\ File(cell'[active], cell'[active][heads[i]]) = File(cell[active], Entry(i))
    BY <1>0, <1>2, <1>3, <2>3, SameRecords
  <2>4. i \in Live => Entry(i)' = cell'[active][heads[i]] /\ File(cell[active], Entry(i))' = File(cell'[active], cell'[active][heads[i]])
    BY <1>2, <2>1 DEF Entry, File
  <2>. QED  BY <2>2, <2>3, <2>4 DEF KeepsSlot
<1>8. r.kind = 3 => r.slot \notin Live'
  BY <1>5, <1>6 DEF Live
<1>9. r.kind # 3 => r.slot \in Live' /\ Entry(r.slot)' = r
  BY <1>2, <1>3, <1>5, <1>6 DEF Live, Entry
<1>10. r.drop \in Slots => r.drop \notin Live'
  BY <1>5, <1>6 DEF Live
<1>11. r = [NewRecord EXCEPT !.commit = TRUE] /\ NewRecord \in Record
  BY <1>0, <1>1, <1>2 DEF Completes, Durability, CommitIsRequested, IndInv, RequestFitsBlock, IsRecord
<1>12. Appends(r)
  BY <1>2, <1>3, <1>5, <1>7, <1>8, <1>9, <1>10, <1>11 DEF Appends
<1>. QED  BY <1>2, <1>12

(* A file written is committed. *)
LEMMA FileCommitMaps ==
    ASSUME Known, Known', ~Decays, Next, Commit, ~rotating, writer # Idle
    PROVE  Maps
<1>1. PICK r : Appends(r)
  BY PlainCommitAppends
<1>2. pc = "commit" /\ Serviceable /\ Serviceable' /\ active' = active /\ writer' = Idle /\ Release
  BY PlainCommitAppends
<1>3. job.op \in {"close", "concat"}
  BY <1>2 DEF Known, IndInv, RequestFitsBlock
<1>4. /\ r.kind = 1 /\ r.slot = wslot /\ r.drop = NoSlot /\ r.name = newname /\ r.ro = FALSE
      /\ r.off = tail + HEADER /\ r.len = r.span - HEADER /\ r.crc = data
  <2>1. /\ NewRecord.kind = 1 /\ NewRecord.slot = wslot /\ NewRecord.drop = NoSlot /\ NewRecord.name = newname
        /\ NewRecord.ro = FALSE /\ NewRecord.off = writebase + HEADER
        /\ NewRecord.len = cursor - writebase - HEADER /\ NewRecord.span = cursor - writebase
        /\ NewRecord.crc = data
    BY <1>3 DEF NewRecord, Length
  <2>2. /\ r.kind = NewRecord.kind /\ r.slot = NewRecord.slot /\ r.drop = NewRecord.drop
        /\ r.name = NewRecord.name /\ r.ro = NewRecord.ro /\ r.off = NewRecord.off /\ r.span = NewRecord.span
        /\ r.len = NewRecord.len /\ r.crc = NewRecord.crc
    BY <1>1 DEF Appends, Record
  <2>. QED  BY <1>1, <2>1, <2>2 DEF Appends
<1>5. \A w : w = wslot => Entry(w)' = r /\ w \in Live'
  BY <1>1, <1>4 DEF Appends
<1>6. Extract(cell'[active], r.off, r.len) = data
  BY <1>1, <1>4 DEF Appends
<1>7. \A w : w = wslot => File(cell[active], Entry(w))' = [data |-> data, ro |-> FALSE]
  BY <1>2, <1>4, <1>5, <1>6 DEF File
<1>8. \A w : w = wslot => \A i \in Slots : i # w => KeepsSlot(i)
  <2>1. NoSlot \notin Slots
    BY JournalAssumption DEF NoSlot, Slots
  <2>. QED  BY <1>1, <1>4, <2>1 DEF Appends
<1>9. \A w : w = wslot => Entry(w)'.name = newname
  BY <1>4, <1>5
<1>. QED  BY <1>2, <1>5, <1>7, <1>8, <1>9, DraftCommitMaps

(* A file is deleted. *)
LEMMA ScratchCommitMaps ==
    ASSUME Known, Known', ~Decays, Next, Commit, ~rotating, job.op = "scratch"
    PROVE  Maps
<1>1. PICK r : Appends(r)
  BY PlainCommitAppends
<1>2. pc = "commit" /\ Serviceable /\ Serviceable' /\ active' = active /\ writer' = Idle /\ Release /\ writer = Idle
  BY PlainCommitAppends DEF Known, IndInv, RequestFitsBlock
<1>3. Draft = {} /\ Draft' = {} /\ ReaderContents' = ReaderContents
  BY <1>2, ReleaseKeeps, ReadersKept DEF Draft
<1>4. job.slot \in Live /\ ~Entry(job.slot).ro
  BY <1>2 DEF Known, Durability, JobIsAllowed, Matching
<1>. DEFINE w == job.slot
            n == Entry(w).name
<1>5. r.kind = 3 /\ r.slot = w /\ r.drop = NoSlot
  <2>1. Entry(w) \in Record /\ Entry(w).slot = w
    BY <1>2, <1>4, LiveFiles DEF Known
  <2>2. NewRecord.kind = 3 /\ NewRecord.slot = w /\ NewRecord.drop = NoSlot
    BY <2>1 DEF NewRecord, Record
  <2>. QED  BY <1>1, <2>2 DEF Appends, Record
<1>6. n \in Names /\ files[n] = {File(cell[active], Entry(w))}
  BY <1>2, <1>4, StoredFiles
<1>7. Store!Exists(n) /\ Store!Writable(n)
  BY <1>4, <1>6 DEF Store!Exists, Store!Writable, File
<1>8. PICK v : v = w
  OBVIOUS
<1>9. \A i \in Slots : i # v => KeepsSlot(i)
  <2>1. NoSlot \notin Slots
    BY JournalAssumption DEF NoSlot, Slots
  <2>. QED  BY <1>1, <1>5, <1>8, <2>1 DEF Appends
<1>10. v \notin Live' /\ v \in Live
  BY <1>1, <1>4, <1>5, <1>8 DEF Appends
<1>11. PICK m : m = n
  OBVIOUS
<1>12. files'[m] = {}
  <2>1. ASSUME NEW i \in Live' PROVE Entry(i)'.name # m
    <3>1. i \in Slots /\ i # v
      BY <1>10 DEF Live
    <3>2. i \in Live /\ Entry(i)'.name = Entry(i).name
      BY <1>9, <3>1 DEF KeepsSlot
    <3>3. Entry(i).name # n
      BY <1>2, <1>4, <1>8, <3>1, <3>2, NamesDiffer DEF Known
    <3>. QED  BY <1>11, <3>2, <3>3
  <2>. QED  BY <1>2, <1>6, <1>11, <2>1, StoredFilesNext
<1>13. ASSUME NEW k \in Names, k # m PROVE files'[k] = files[k]
  <2>. DEFINE S == {v}
  <2>1. /\ \A i \in Slots : i \notin S => KeepsSlot(i)
        /\ \A i \in S : i \in Live => Entry(i).name # k
        /\ \A i \in S : i \in Live' => Entry(i)'.name # k
    BY <1>8, <1>9, <1>10, <1>11, <1>13
  <2>. HIDE DEF S
  <2>. QED  BY <1>2, <2>1, OthersStay
<1>14. files' = [files EXCEPT ![m] = {}]
  <2>1. files = [k \in Names |-> files[k]] /\ files' = [k \in Names |-> files'[k]]
    BY <1>2, StoredFiles, StoredFilesNext
  <2>. QED  BY <1>12, <1>13, <2>1
<1>. HIDE DEF n, w
<1>15. Store!Delete(m)
  BY <1>3, <1>7, <1>11, <1>14 DEF Store!Delete
<1>. QED  BY <1>6, <1>11, <1>15 DEF Maps, Store!Next

(* The record of a rename or of a change of attributes. *)
LEMMA MetadataRecord ==
    ASSUME Known, Known', ~Decays, Next, Commit, ~rotating, job.op = "metadata",
           NEW w, w = job.slot, NEW d, d = job.drop, NEW r, Appends(r)
    PROVE  /\ pc = "commit" /\ Serviceable /\ Serviceable' /\ writer' = Idle /\ writer = Idle
           /\ Draft = {} /\ Draft' = {} /\ ReaderContents' = ReaderContents
           /\ w \in Live /\ w \in Slots /\ w # d /\ d \in Slots \cup {NoSlot} /\ NoSlot \notin Slots
           /\ \A i \in Slots : i # w /\ i # d => KeepsSlot(i)
           /\ w \in Live' /\ d \notin Live'
           /\ Entry(w)'.name = job.name /\ job.name \in Names
           /\ File(cell[active], Entry(w))' = [File(cell[active], Entry(w)) EXCEPT !.ro = job.ro]
<1>1. /\ pc = "commit" /\ Serviceable /\ Serviceable' /\ active' = active /\ writer' = Idle /\ Release
      /\ writer = Idle /\ target = active /\ writebase = tail
  BY PlainCommitAppends DEF Known, IndInv, RequestFitsBlock
<1>2. Draft = {} /\ Draft' = {} /\ ReaderContents' = ReaderContents
  BY <1>1, ReleaseKeeps, ReadersKept DEF Draft
<1>3. w \in Live /\ w \in Slots /\ w # d /\ job \in Jobs
  BY <1>1 DEF Known, Durability, JobIsAllowed, Live, IndInv, TypeOK
<1>4. job.name \in Names /\ d \in Slots \cup {NoSlot}
  BY <1>3 DEF Jobs
<1>5. Entry(w) \in Record /\ Entry(w).slot = w
  BY <1>1, <1>3, LiveFiles DEF Known
<1>6. /\ r.kind = 2 /\ r.slot = w /\ r.drop = d /\ r.name = job.name /\ r.ro = job.ro
      /\ r.off = Entry(w).off /\ r.len = Entry(w).len
  <2>1. /\ NewRecord.kind = 2 /\ NewRecord.slot = w /\ NewRecord.drop = d /\ NewRecord.name = job.name
        /\ NewRecord.ro = job.ro /\ NewRecord.off = Entry(w).off /\ NewRecord.len = Entry(w).len
    BY <1>5 DEF NewRecord, Record
  <2>. QED  BY <2>1 DEF Appends, Record
<1>7. NoSlot \notin Slots
  BY JournalAssumption DEF NoSlot, Slots
<1>8. \A i \in Slots : i # w /\ i # d => KeepsSlot(i)
  BY <1>6 DEF Appends
<1>9. w \in Live' /\ Entry(w)' = r
  BY <1>6 DEF Appends
<1>10. d \notin Live'
  BY <1>6, <1>7 DEF Appends, Live
<1>11. Entry(w)'.name = job.name
  BY <1>6, <1>9
<1>12. File(cell[active], Entry(w))' = [File(cell[active], Entry(w)) EXCEPT !.ro = job.ro]
  <2>1. Extract(cell'[active], Entry(w).off, Entry(w).len) = Extract(cell[active], Entry(w).off, Entry(w).len)
    <3>1. /\ Entry(w).off \in Nat /\ Entry(w).len \in Nat /\ Entry(w).off + Entry(w).len <= tail
      BY <1>1, <1>3, LiveFiles DEF Known
    <3>2. Same(cell[active], cell'[active], 0, tail) /\ tail \in Nat
      BY <1>1, LogBehindStays, ActiveLog DEF Known
    <3>3. Same(cell[active], cell'[active], Entry(w).off, Entry(w).off + Entry(w).len)
      BY <3>1, <3>2 DEF Same, Offsets
    <3>. QED  BY <3>1, <3>3, ExtractSame
  <2>2. File(cell[active], Entry(w))' = File(cell'[active], r)
    BY <1>1, <1>9 DEF File
  <2>. QED  BY <1>6, <2>1, <2>2 DEF File
<1>. QED  BY <1>1, <1>2, <1>3, <1>4, <1>7, <1>8, <1>9, <1>10, <1>11, <1>12

(* A file is protected, or its protection removed. *)
LEMMA AttributeCommitMaps ==
    ASSUME Known, Known', ~Decays, Next, Commit, ~rotating, job.op = "metadata",
           Entry(job.slot).name = job.name
    PROVE  Maps
<1>0. PICK r : Appends(r)
  BY PlainCommitAppends
<1>1. PICK w, d, n, flag : w = job.slot /\ d = job.drop /\ n = job.name /\ flag = job.ro
  OBVIOUS
<1>2. /\ Serviceable /\ Serviceable' /\ Draft = {} /\ Draft' = {} /\ ReaderContents' = ReaderContents
      /\ w \in Live /\ w \in Slots /\ NoSlot \notin Slots
      /\ \A i \in Slots : i # w /\ i # d => KeepsSlot(i)
      /\ w \in Live' /\ Entry(w)'.name = n /\ n \in Names
      /\ File(cell[active], Entry(w))' = [File(cell[active], Entry(w)) EXCEPT !.ro = flag]
      /\ pc = "commit"
  BY <1>0, <1>1, MetadataRecord
<1>3. d = NoSlot /\ Entry(w).name = n
  BY <1>1, <1>2 DEF Known, Durability, JobIsAllowed
<1>4. flag \in BOOLEAN
  BY <1>1 DEF Known, IndInv, TypeOK, Jobs
<1>5. files[n] = {File(cell[active], Entry(w))} /\ files'[n] = {[File(cell[active], Entry(w)) EXCEPT !.ro = flag]}
  <2>1. files'[Entry(w)'.name] = {File(cell[active], Entry(w))'}
    BY <1>2, StoredFilesNext
  <2>. QED  BY <1>2, <1>3, <2>1, StoredFiles
<1>6. ASSUME NEW k \in Names, k # n PROVE files'[k] = files[k]
  <2>. DEFINE S == {w}
  <2>1. /\ \A i \in Slots : i \notin S => KeepsSlot(i)
        /\ \A i \in S : i \in Live => Entry(i).name # k
        /\ \A i \in S : i \in Live' => Entry(i)'.name # k
    BY <1>2, <1>3, <1>6
  <2>. HIDE DEF S
  <2>. QED  BY <1>2, <2>1, OthersStay
<1>7. files' = [files EXCEPT ![n] = {[x EXCEPT !.ro = flag] : x \in @}]
  <2>1. files = [k \in Names |-> files[k]] /\ files' = [k \in Names |-> files'[k]]
    BY <1>2, StoredFiles, StoredFilesNext
  <2>2. files'[n] = {[x EXCEPT !.ro = flag] : x \in files[n]}
    BY <1>5
  <2>. QED  BY <1>6, <2>1, <2>2
<1>8. Store!Protect(n, flag)
  BY <1>2, <1>5, <1>7 DEF Store!Protect, Store!Exists
<1>. QED  BY <1>2, <1>4, <1>8 DEF Maps, Store!Next

(* A file is renamed, and replaces the one that has the new name. *)
LEMMA RenameCommitMaps ==
    ASSUME Known, Known', ~Decays, Next, Commit, ~rotating, job.op = "metadata",
           Entry(job.slot).name # job.name
    PROVE  Maps
<1>0. PICK r : Appends(r)
  BY PlainCommitAppends
<1>1. PICK w, d, new, old, flag :
        w = job.slot /\ d = job.drop /\ new = job.name /\ old = Entry(job.slot).name /\ flag = job.ro
  OBVIOUS
<1>2. /\ Serviceable /\ Serviceable' /\ Draft = {} /\ Draft' = {} /\ ReaderContents' = ReaderContents
      /\ w \in Live /\ w \in Slots /\ w # d /\ NoSlot \notin Slots /\ d \in Slots \cup {NoSlot}
      /\ \A i \in Slots : i # w /\ i # d => KeepsSlot(i)
      /\ w \in Live' /\ d \notin Live' /\ Entry(w)'.name = new /\ new \in Names
      /\ File(cell[active], Entry(w))' = [File(cell[active], Entry(w)) EXCEPT !.ro = flag]
      /\ pc = "commit"
  BY <1>0, <1>1, MetadataRecord
<1>3. /\ \A i \in Live \ {w} : Entry(i).name = new <=> i = d
      /\ d # NoSlot => d \in Live /\ ~Entry(d).ro
      /\ ~Entry(w).ro /\ ~flag /\ Entry(w).name = old /\ new # old
  BY <1>1, <1>2 DEF Known, Durability, JobIsAllowed
<1>4. flag = FALSE /\ Entry(w).ro = FALSE
  <2>1. flag \in BOOLEAN
    BY <1>1 DEF Known, IndInv, TypeOK, Jobs
  <2>2. Entry(w).ro \in BOOLEAN
    BY <1>2, LiveFiles, RecordType DEF Known
  <2>. QED  BY <1>3, <2>1, <2>2
<1>5. /\ old \in Names /\ files[old] = {File(cell[active], Entry(w))} /\ files'[new] = files[old]
  <2>1. files'[Entry(w)'.name] = {File(cell[active], Entry(w))'}
    BY <1>2, StoredFilesNext
  <2>2. File(cell[active], Entry(w))' = File(cell[active], Entry(w))
    BY <1>2, <1>4 DEF File
  <2>. QED  BY <1>2, <1>3, <2>1, <2>2, StoredFiles
<1>6. files'[old] = {}
  <2>1. ASSUME NEW i \in Live' PROVE Entry(i)'.name # old
    <3>1. i \in Slots /\ i # d
      BY <1>2 DEF Live
    <3>2. CASE i = w
      BY <1>2, <1>3, <3>2
    <3>3. CASE i # w
      <4>1. i \in Live /\ Entry(i)'.name = Entry(i).name
        BY <1>2, <3>1, <3>3 DEF KeepsSlot
      <4>2. Entry(i).name # old
        BY <1>2, <1>3, <3>3, <4>1, NamesDiffer DEF Known
      <4>. QED  BY <4>1, <4>2
    <3>. QED  BY <3>2, <3>3
  <2>. QED  BY <1>2, <1>5, <2>1, StoredFilesNext
<1>7. Store!Writable(new)
  <2>1. CASE d = NoSlot
    <3>1. \A i \in Live : Entry(i).name # new
      BY <1>2, <1>3, <2>1 DEF Live
    <3>2. files[new] = {}
      BY <1>2, <3>1, StoredFiles
    <3>. QED  BY <3>2 DEF Store!Writable
  <2>2. CASE d # NoSlot
    <3>1. d \in Live /\ ~Entry(d).ro /\ Entry(d).name = new
      BY <1>2, <1>3, <2>2
    <3>2. files[new] = {File(cell[active], Entry(d))}
      BY <1>2, <3>1, StoredFiles
    <3>. QED  BY <3>1, <3>2 DEF Store!Writable, File
  <2>. QED  BY <2>1, <2>2
<1>8. Store!Exists(old) /\ Store!Writable(old)
  BY <1>3, <1>5 DEF Store!Exists, Store!Writable, File
<1>9. ASSUME NEW k \in Names, k # new, k # old PROVE files'[k] = files[k]
  <2>. DEFINE S == {w, d}
  <2>1. \A i \in Slots : i \notin S => KeepsSlot(i)
    BY <1>2
  <2>2. \A i \in S : i \in Live => Entry(i).name # k
    BY <1>2, <1>3, <1>9
  <2>3. \A i \in S : i \in Live' => Entry(i)'.name # k
    BY <1>2, <1>9
  <2>. HIDE DEF S
  <2>. QED  BY <1>2, <2>1, <2>2, <2>3, OthersStay
<1>10. files' = [files EXCEPT ![new] = files[old], ![old] = {}]
  <2>1. files = [k \in Names |-> files[k]] /\ files' = [k \in Names |-> files'[k]]
    BY <1>2, StoredFiles, StoredFilesNext
  <2>. QED  BY <1>3, <1>5, <1>6, <1>9, <2>1
<1>11. Store!Move(new, old)
  BY <1>2, <1>3, <1>7, <1>8, <1>10 DEF Store!Move
<1>. QED  BY <1>2, <1>5, <1>11 DEF Maps, Store!Next

LEMMA CommitMaps ==
    ASSUME Known, Known', ~Decays, Next, Commit
    PROVE  Maps
<1>1. pc = "commit"
  BY DEF Commit
<1>2. job.op \in {"scratch", "metadata"} \/ writer # Idle
  BY <1>1 DEF Known, IndInv, RequestFitsBlock
<1>3. CASE rotating
  BY <1>1, <1>3, QuietMaps DEF Commit, KeepsFiles, Serviceable, indexVars, draftVars
<1>. QED  BY <1>2, <1>3, FileCommitMaps, ScratchCommitMaps, AttributeCommitMaps, RenameCommitMaps

LEMMA ActivateMaps ==
    ASSUME Known, Known', ~Decays, Next, Activate
    PROVE  Maps
<1>1. /\ pc = "activate" /\ Serviceable /\ Serviceable' /\ cell' = cell /\ active' = target /\ heads' = nextheads
      /\ writer' = Idle /\ Release
  BY DEF Activate, Publish, Reply, Serviceable, Forget
<1>2. /\ \A i \in Slots : nextheads[i] # 0 =>
           IF writer # Idle /\ i = wslot THEN IsDraft(nextheads[i]) ELSE SameFile(i, nextheads[i])
      /\ writer # Idle => nextheads[wslot] # 0 /\ \A i \in Live : i # wslot => nextheads[i] # 0
  BY <1>1 DEF Known, Durability, CopyIsReal, Building
<1>3. writer = Idle => \A i \in Live : nextheads[i] # 0
  BY <1>1, CopyIsSound DEF Known, Live
<1>4. \A i \in Slots : i \in Live' <=> nextheads[i] # 0
  BY <1>1 DEF Live
<1>5. \A i : Entry(i)' = cell[target][nextheads[i]]
  BY <1>1 DEF Entry
<1>6. ASSUME NEW i \in Slots, ~(writer # Idle /\ i = wslot) PROVE KeepsSlot(i)
  <2>1. i \in Live <=> nextheads[i] # 0
    BY <1>2, <1>3, <1>6 DEF SameFile
  <2>2. i \in Live => Entry(i)'.name = Entry(i).name /\ File(cell[active], Entry(i))' = File(cell[active], Entry(i))
    BY <1>1, <1>2, <1>5, <1>6, <2>1 DEF SameFile, File
  <2>. QED  BY <1>4, <2>1, <2>2 DEF KeepsSlot
<1>7. CASE writer = Idle
  BY <1>1, <1>6, <1>7, SameFilesMap
<1>8. CASE writer # Idle
  <2>1. PICK w : w = wslot
    OBVIOUS
  <2>2. w \in Slots /\ nextheads[w] # 0 /\ IsDraft(nextheads[w])
    BY <1>2, <1>8, <2>1 DEF Known, IndInv, TypeOK
  <2>3. w \in Live' /\ Entry(w)'.name = newname
    BY <1>4, <1>5, <2>2 DEF IsDraft
  <2>4. Entry(w)' \in Record
    BY <1>1, <1>5, <2>2 DEF Known, IndInv, NextHeadsAreRecords, IsRecord, Building
  <2>5. File(cell[active], Entry(w))' = [data |-> data, ro |-> FALSE]
    <3>1. Entry(w)'.ro = FALSE
      BY <1>5, <2>2, <2>4, RecordType DEF IsDraft
    <3>2. Extract(cell'[active'], Entry(w)'.off, Entry(w)'.len) = data
      BY <1>1, <1>5, <2>2 DEF IsDraft
    <3>. QED  BY <3>1, <3>2 DEF File
  <2>6. \A i \in Slots : i # w => KeepsSlot(i)
    BY <1>6, <2>1
  <2>. QED  BY <1>1, <1>8, <2>1, <2>3, <2>5, <2>6, DraftCommitMaps
<1>. QED  BY <1>7, <1>8

-----------------------------------------------------------------------------
(* The refinement                                                          *)

LEMMA StepMaps ==
    ASSUME Known, Known', ~Decays, Next
    PROVE  Maps
<1>1. CASE Request
  <2>1. CASE \E f \in Channels : Close(f) \/ Abort(f) \/ ListFiles(f)
    BY <2>1, ClosesMap
  <2>2. CASE \E f \in Channels : Read(f, 1) \/ NextEntry(f) \/ \E n \in Names : OpenRead(f, n)
    BY <2>2, ReadMaps, OpenReadMaps
  <2>3. CASE \/ \E f \in Channels, n \in Names, append \in BOOLEAN : OpenWrite(f, n, append)
             \/ \E n, sources : Concat(n, sources)
             \/ \E names \in SUBSET Names : Scratch(names)
             \/ \E new \in Names, old \in Names : Rename(new, old)
             \/ \E n \in Names, flag \in BOOLEAN : Attribute(n, flag)
             \/ Compact
             \/ \E f \in Channels, bytes \in Chunks : Write(f, bytes)
    BY <2>3, WritingRequestsMap
  <2>. QED  BY <1>1, <2>1, <2>2, <2>3, JournalAssumption DEF Request
<1>2. ~FallBack /\ ~Decay
  BY DEF FallBack, Decay, Known, Durability, ResetFindsAll
<1>3. CASE ScratchNext
  BY <1>3, WritingRequestsMap
<1>4. CASE TagRecord \/ Payload
  BY <1>4, TagRecordMaps, PayloadMaps
<1>5. CASE Reserve \/ Fields \/ CompactBegin \/ Erase \/ CopyNext \/ Move \/ Seal \/ Failure
  BY <1>5, BlocksMap
<1>6. CASE Commit \/ Activate
  BY <1>6, CommitMaps, ActivateMaps
<1>7. CASE Mount \/ ScanRecord \/ ScanEnds
  BY <1>7, MountingMaps
<1>8. CASE PowerLoss
  BY <1>8, PowerLossMaps
<1>. QED  BY <1>1, <1>2, <1>3, <1>4, <1>5, <1>6, <1>7, <1>8 DEF Next, Continue

LEMMA InitMaps ==
    ASSUME Init, FilesAreDurable
    PROVE  Store!Init
<1>1. IndInv /\ Durability
  BY InitInv, InitDurability
<1>2. writer = Idle /\ channels = [f \in Channels |-> Closed] /\ cell = [s \in Sides |-> BlankLog]
  BY DEF Init
<1>3. Draft = {} /\ ReaderContents = [f \in Channels |-> {}]
  BY <1>2 DEF Draft, ReaderContents, Closed
<1>4. files = FilesOf(BlankLog, Index(BlankLog))
  BY <1>1, <1>2, FilesAre DEF FilesAreDurable, Chosen, Sides
<1>5. \A i \in Slots : Index(BlankLog)[i] = 0
  <2>1. BlankLog \in Log /\ NoHeads \in [Slots -> Nat]
    BY BlankLogType DEF NoHeads, Log
  <2>2. Index(BlankLog) = NoHeads
    BY <2>1, BlankIsLogged, LoggedIs
  <2>. QED  BY <2>2 DEF NoHeads
<1>6. files = [n \in Names |-> {}]
  <2>1. \A n \in Names : HavingName(BlankLog, Index(BlankLog), n) = {}
    BY <1>5 DEF HavingName
  <2>. QED  BY <1>4, <2>1 DEF FilesOf
<1>. QED  BY <1>3, <1>6 DEF Store!Init

(***************************************************************************)
(* Whatever requests come in whatever order, whichever flash operation     *)
(* fails or is cut short by a reset, the files that a reset would find,    *)
(* the contents of open readers and the file being written change only as  *)
(* FileStore says: a file is replaced, renamed, deleted or protected as a  *)
(* whole, at the commit of its record, and by nothing else.                *)
(***************************************************************************)
THEOREM JournalImplementsStore == ~Decays => (StoreSpec => ImplementsStore)
<1>. SUFFICES ASSUME ~Decays PROVE StoreSpec => Store!Spec
  BY DEF ImplementsStore
<1>1. StoreInit => Store!Init
  BY InitMaps DEF StoreInit, FilesAreDurable
<1>2. Known /\ Known' /\ [StoreNext]_<<vars, files>> => [Store!Next]_(Store!storeVars)
  <2>. SUFFICES ASSUME Known, Known', [StoreNext]_<<vars, files>>
                PROVE  Store!Next \/ UNCHANGED <<files, ReaderContents, Draft>>
    BY DEF Store!storeVars
  <2>1. CASE StoreNext
    BY <2>1, StepMaps DEF StoreNext, Maps
  <2>2. CASE UNCHANGED <<vars, files>>
    BY <2>2 DEF vars, draftVars, cursorVars, flashVars, ReaderContents, Draft
  <2>. QED  BY <2>1, <2>2
<1>3. StoreSpec => []Known
  BY StoreInvariant
<1>. QED  BY <1>1, <1>2, <1>3, PTL DEF StoreSpec, Store!Spec

=============================================================================
