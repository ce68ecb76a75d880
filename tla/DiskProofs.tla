------------------------------ MODULE DiskProofs ------------------------------
(***************************************************************************)
(* What is proved of the disk utilities, for any drives, disks and         *)
(* directories: what they write, what they say that they did, and why they *)
(* fail.  The lemmas on finite sets of numbers are those of ToolsProofs.   *)
(***************************************************************************)
EXTENDS ToolsProofs, DiskTools

-----------------------------------------------------------------------------
(* A walk along a chain of sectors                                         *)

NextOf(d, x) == IF x \in DOMAIN d THEN d[x].next ELSE x
IsWalk(d, s, k, f) == f = [n \in 0..k |-> IF n = 0 THEN s ELSE NextOf(d, f[n - 1])]

LEMMA WalkExists ==
    ASSUME NEW d, NEW s, NEW most \in Nat
    PROVE  \E f : IsWalk(d, s, most, f)
<1>. DEFINE Bad == {k \in Nat : ~\E f : IsWalk(d, s, k, f)}
<1>1. ASSUME Bad # {} PROVE FALSE
  <2>1. PICK k \in Bad : \A m \in Bad : k <= m
    BY <1>1, LeastNumber
  <2>2. k \in Nat /\ ~\E f : IsWalk(d, s, k, f)
    OBVIOUS
  <2>3. k # 0
    <3>1. IsWalk(d, s, 0, [n \in 0..0 |-> s])
      BY DEF IsWalk
    <3> QED
      BY <2>2, <3>1
  <2>4. PICK f : IsWalk(d, s, k - 1, f)
    BY <2>1, <2>2, <2>3
  <2>. DEFINE g == [n \in 0..k |-> IF n = k THEN NextOf(d, f[k - 1]) ELSE f[n]]
  <2>5. \A n \in 0..k - 1 : f[n] = IF n = 0 THEN s ELSE NextOf(d, f[n - 1])
    BY <2>2, <2>4 DEF IsWalk
  <2>6. \A n \in 0..k : g[n] = IF n = k THEN NextOf(d, f[k - 1]) ELSE f[n]
    OBVIOUS
  <2>7. ASSUME NEW n \in 0..k PROVE g[n] = IF n = 0 THEN s ELSE NextOf(d, g[n - 1])
    <3>1. CASE n = k
      BY <2>2, <2>3, <2>6, <3>1
    <3>2. CASE n # k
      BY <2>2, <3>2, <2>6, <2>5
    <3> QED
      BY <3>1, <3>2
  <2>8. IsWalk(d, s, k, g)
    <3>1. DOMAIN g = 0..k /\ g = [n \in 0..k |-> g[n]]
      OBVIOUS
    <3>. HIDE DEF g
    <3>2. g = [n \in 0..k |-> IF n = 0 THEN s ELSE NextOf(d, g[n - 1])]
      BY <2>7, <3>1
    <3> QED
      BY <3>2 DEF IsWalk
  <2> QED
    BY <2>2, <2>8
<1> QED
  BY <1>1

LEMMA WalkIs ==
    ASSUME NEW d, NEW s, Cardinality(DOMAIN d) \in Nat
    PROVE  /\ Walk(d, s)[0] = s
           /\ \A n \in 1..Cardinality(DOMAIN d) : Walk(d, s)[n] = NextOf(d, Walk(d, s)[n - 1])
<1>. DEFINE most == Cardinality(DOMAIN d)
            w == Walk(d, s)
<1>1. \E f : IsWalk(d, s, most, f)
  BY WalkExists
<1>2. IsWalk(d, s, most, w)
  BY <1>1 DEF IsWalk, Walk, NextOf
<1>. HIDE DEF w
<1>3. \A n \in 0..most : w[n] = IF n = 0 THEN s ELSE NextOf(d, w[n - 1])
  BY <1>2 DEF IsWalk
<1> QED
  BY <1>3 DEF w

-----------------------------------------------------------------------------
(* What a disk that fits its drive looks like                              *)

HeaderOn(m) == <<IF m = 3 THEN DENSEHEADER ELSE HEADER, 0>>
ListSectors == [kind: {"list"}, next: Nat \X Nat, entries: SUBSET DiskEntry]

GoodDisk(m, x) ==
    LET size == x[HeaderOn(m)].tracks IN
    /\ IsFiniteSet(DOMAIN x)
    /\ HeaderOn(m) \in DOMAIN x /\ x[HeaderOn(m)].kind = "header"
    /\ DOMAIN x[HeaderOn(m)] = {"kind", "tracks", "label", "id"}
    /\ m = 3 => \A n \in 1..2 : <<DENSEHEADER, n>> \in DOMAIN x /\ x[<<DENSEHEADER, n>>].kind = "repeat"
    /\ FirstList(size) \in Nat \X Nat
    /\ \A s \in Nat \X Nat :
         s[1] = FirstList(size)[1] /\ s[2] >= FirstList(size)[2] /\ ~(s[2] >= TrackSectors(s[1], size)) =>
           s \in DOMAIN x /\ x[s] \in ListSectors

LEMMA TrackSizes ==
    ASSUME NEW m \in 0..3, NEW size \in Sizes(m)
    PROVE  /\ size \in Nat /\ size >= 1 /\ (size = DENSE <=> m = 3)
           /\ \A tr \in 1..size : TrackSectors(tr, size) \in Nat /\ TrackSectors(tr, size) > 0
           /\ HeaderOf(size) = HeaderOn(m) /\ HeaderOf(size)[1] \in 1..size
<1>1. /\ SIDE \in Nat /\ SIDE > 0 /\ PerTrack \in [1..SIDE -> Nat \ {0}]
      /\ DENSE \in Nat /\ DENSE # 0 /\ DENSE # SIDE /\ DENSE # 2 * SIDE /\ PERDENSE \in Nat /\ PERDENSE > 3
      /\ HEADER \in 1..SIDE /\ DENSEHEADER \in 1..DENSE
  BY DiskAssumption
<1>2. size = DENSE \/ size = SIDE \/ size = 2 * SIDE
  BY DEF Sizes
<1>3. size \in Nat /\ size >= 1 /\ (size = DENSE <=> m = 3)
  BY <1>1, <1>2 DEF Sizes
<1>4. ASSUME NEW tr \in 1..size PROVE TrackSectors(tr, size) \in Nat /\ TrackSectors(tr, size) > 0
  <2>1. CASE size = DENSE
    BY <1>1, <2>1 DEF TrackSectors
  <2>2. CASE size # DENSE
    BY <1>1, <1>2, <2>2 DEF TrackSectors
  <2> QED
    BY <2>1, <2>2
<1>5. HeaderOf(size) = HeaderOn(m) /\ HeaderOf(size)[1] \in 1..size
  BY <1>1, <1>2, <1>3 DEF HeaderOf, HeaderOn
<1> QED
  BY <1>3, <1>4, <1>5

LEMMA SectorsFinite ==
    ASSUME NEW m \in 0..3, NEW size \in Sizes(m)
    PROVE  IsFiniteSet(Sectors(size))
<1>. DEFINE track == [tr \in 1..size |-> {tr} \X (0..TrackSectors(tr, size) - 1)]
            T == {{tr} \X (0..TrackSectors(tr, size) - 1) : tr \in 1..size}
<1>1. size \in Nat /\ \A tr \in 1..size : TrackSectors(tr, size) \in Nat
  BY TrackSizes
<1>2. IsFiniteSet(1..size)
  BY <1>1, FS_Interval
<1>3. track \in Surjection(1..size, T)
  BY DEF Surjection
<1>4. IsFiniteSet(T)
  <2>. HIDE DEF track, T
  <2> QED
    BY <1>2, <1>3, FS_Surjection
<1>5. ASSUME NEW x \in T PROVE IsFiniteSet(x)
  <2>1. PICK tr \in 1..size : x = {tr} \X (0..TrackSectors(tr, size) - 1)
    OBVIOUS
  <2>2. 0 \in Int /\ TrackSectors(tr, size) - 1 \in Int
    BY <1>1
  <2>. DEFINE u == TrackSectors(tr, size) - 1
  <2>3. IsFiniteSet({tr}) /\ IsFiniteSet(0..u)
    <3>1. IsFiniteSet({tr})
      BY FS_Singleton
    <3>. HIDE DEF u
    <3>2. IsFiniteSet(0..u)
      BY <2>2, FS_Interval DEF u
    <3> QED
      BY <3>1, <3>2
  <2> QED
    BY <2>1, <2>3, FS_Product
<1> QED
  BY <1>4, <1>5, FS_UNION DEF Sectors

LEMMA DiskIsGood ==
    ASSUME NEW m \in 0..3, NEW size \in Sizes(m), NEW label, NEW id, NEW owner,
           NEW catalog, catalog.list \in Seq(DiskListing)
    PROVE  GoodDisk(m, Disk(size, label, id, owner, catalog))
<1>. DEFINE x == Disk(size, label, id, owner, catalog)
            top == HeaderOn(m)
<1>1. /\ size \in Nat /\ size >= 1 /\ (size = DENSE <=> m = 3)
      /\ \A tr \in 1..size : TrackSectors(tr, size) \in Nat /\ TrackSectors(tr, size) > 0
      /\ HeaderOf(size) = top /\ top[1] \in 1..size
  BY TrackSizes
<1>2. DOMAIN x = Sectors(size) /\ IsFiniteSet(DOMAIN x)
  BY SectorsFinite DEF Disk
<1>3. \A a \in 1..size : \A n \in 0..TrackSectors(a, size) - 1 : <<a, n>> \in Sectors(size)
  BY DEF Sectors
<1>4. top \in Sectors(size)
  BY <1>1, <1>3 DEF HeaderOn
<1>5. x[top] = Title(size, label, id)
  BY <1>1, <1>4 DEF Disk
<1>6. x[top].kind = "header" /\ x[top].tracks = size /\ DOMAIN x[top] = {"kind", "tracks", "label", "id"}
  BY <1>5 DEF Title
<1>7. /\ DENSEHEADER \in Nat /\ HEADER \in Nat /\ PERDENSE \in Nat /\ PERDENSE > 3
      /\ DENSEHEADER \in 1..DENSE
  BY DiskAssumption
<1>8. ASSUME m = 3, NEW n \in 1..2 PROVE <<DENSEHEADER, n>> \in DOMAIN x /\ x[<<DENSEHEADER, n>>].kind = "repeat"
  <2>1. size = DENSE /\ TrackSectors(DENSEHEADER, size) = PERDENSE
    BY <1>1, <1>8 DEF TrackSectors
  <2>2. <<DENSEHEADER, n>> \in Sectors(size)
    BY <1>3, <1>7, <2>1
  <2>3. <<DENSEHEADER, n>> \in Repeats(size) /\ <<DENSEHEADER, n>> # HeaderOf(size)
    BY <2>1 DEF HeaderOf, Repeats
  <2>4. x[<<DENSEHEADER, n>>] = Repeated(id)
    BY <2>2, <2>3 DEF Disk
  <2> QED
    BY <1>2, <2>2, <2>4 DEF Repeated
<1>9. FirstList(size) \in Nat \X Nat /\ FirstList(size)[2] \in Nat /\ FirstList(size)[1] = HeaderOf(size)[1]
  BY <1>7 DEF FirstList, HeaderOf
<1>10. ASSUME NEW s \in Nat \X Nat, s[1] = FirstList(size)[1], s[2] >= FirstList(size)[2],
              ~(s[2] >= TrackSectors(s[1], size))
       PROVE  s \in DOMAIN x /\ x[s] \in ListSectors
  <2>1. s = <<s[1], s[2]>> /\ s[1] \in Nat /\ s[2] \in Nat
    OBVIOUS
  <2>2. s[1] \in 1..size
    BY <1>1, <1>9, <1>10
  <2>3. s \in Sectors(size)
    BY <1>1, <1>3, <1>10, <2>1, <2>2
  <2>4. s # HeaderOf(size) /\ s \notin Repeats(size)
    BY <1>10, <2>1 DEF HeaderOf, Repeats, FirstList
  <2>. DEFINE i == s[2] - FirstList(size)[2] + 1
              y == IF i \in DOMAIN catalog.list THEN catalog.list[i] ELSE NoEntries
  <2>5. x[s] = ListOf(size, y)
    BY <1>9, <1>10, <2>3, <2>4 DEF Disk
  <2>6. y \in DiskListing
    <3>1. NoEntries \in DiskListing
      BY DEF NoEntries, DiskListing
    <3>2. i \in DOMAIN catalog.list => catalog.list[i] \in DiskListing
      OBVIOUS
    <3> QED
      BY <3>1, <3>2
  <2>. HIDE DEF y
  <2>7. y.next \in Nat /\ y.entries \in SUBSET DiskEntry
    BY <2>6 DEF DiskListing
  <2>8. ListSector(size, y.next) \in Nat \X Nat
    <3>1. CASE y.next = 0
      BY <3>1 DEF ListSector
    <3>2. CASE y.next # 0
      <4>1. FirstList(size)[1] \in Nat /\ FirstList(size)[2] + y.next - 1 \in Nat
        BY <1>9, <2>7, <3>2
      <4> QED
        BY <3>2, <4>1 DEF ListSector
    <3> QED
      BY <3>1, <3>2
  <2>9. ListOf(size, y) \in ListSectors
    BY <2>7, <2>8 DEF ListOf, ListSectors
  <2> QED
    BY <1>2, <2>3, <2>5, <2>9
<1>. HIDE DEF x
<1> QED
  BY <1>2, <1>4, <1>6, <1>8, <1>9, <1>10 DEF GoodDisk, x

-----------------------------------------------------------------------------
(* What LABEL, DISKID and ATTRIB were asked for                            *)

EditOps == {"label", "diskid", "attrib"}

Brief == [op |-> task.op, src |-> task.src, label |-> task.label, id |-> task.id, names |-> task.names,
          mark |-> task.mark, disk |-> original[task.src], model |-> model[task.src]]

MarkedBy(b, e) == IF e.used /\ e.name \in b.names THEN [e EXCEPT !.mark = b.mark] ELSE e
AskedBy(b, x) ==
    IF b.op = "attrib" THEN IF b.mark = "shown" THEN x ELSE [x EXCEPT !.entries = {MarkedBy(b, e) : e \in @}]
    ELSE IF b.op = "label" THEN [x EXCEPT !.label = b.label] ELSE [x EXCEPT !.id = b.id]

FirstOf(b) == FirstList(b.disk[HeaderOn(b.model)].tracks)
AimedBy(b) ==
    IF b.op = "attrib" THEN LET chain == Chain(b.disk, FirstOf(b)).sectors IN {chain[i] : i \in DOMAIN chain}
    ELSE IF b.op = "diskid" THEN {s \in DOMAIN b.disk : b.disk[s].kind \in {"header", "repeat"}}
    ELSE {s \in DOMAIN b.disk : b.disk[s].kind = "header"}

LEMMA AskedIs ==
    ASSUME task.op \in EditOps, NEW x
    PROVE  AsAsked(x) = AskedBy(Brief, x)
<1>. DEFINE b == Brief
<1>1. b.op = task.op /\ b.label = task.label /\ b.id = task.id /\ b.names = task.names /\ b.mark = task.mark
  BY DEF Brief
<1>. HIDE DEF b
<1>2. CASE task.op = "attrib"
  BY <1>1, <1>2 DEF MarkedBy, Meant, AsAsked, AskedBy, b
<1>3. CASE task.op = "label"
  BY <1>1, <1>3 DEF AsAsked, AskedBy, Changed, b
<1>4. CASE task.op = "diskid"
  BY <1>1, <1>4 DEF AsAsked, AskedBy, Changed, b
<1> QED
  BY <1>2, <1>3, <1>4 DEF EditOps

LEMMA AimedIs ==
    ASSUME task.op \in EditOps
    PROVE  Targets = AimedBy(Brief)
<1>. DEFINE b == Brief
<1>1. b.op = task.op /\ b.src = task.src /\ b.disk = original[task.src] /\ b.model = model[task.src]
  BY DEF Brief
<1>2. HeaderSector(task.src) = HeaderOn(b.model)
  BY <1>1 DEF HeaderSector, HeaderOn
<1>. HIDE DEF b
<1>3. ListChain(original[task.src], task.src) = Chain(b.disk, FirstOf(b))
  BY <1>1, <1>2 DEF ListChain, FirstOf
<1> QED
  BY <1>1, <1>3 DEF Targets, AimedBy, EditOps, b

(* To change what is so already changes nothing more.                      *)
Kept(b, x, s) == x = b.disk[s] \/ (s \in AimedBy(b) /\ x = AskedBy(b, b.disk[s]))

LEMMA MarkedTwice ==
    ASSUME NEW b, NEW e \in DiskEntry
    PROVE  MarkedBy(b, MarkedBy(b, e)) = MarkedBy(b, e)
<1>1. DOMAIN e = {"name", "used", "mark", "rel"}
  BY DEF DiskEntry
<1>. DEFINE f == [e EXCEPT !.mark = b.mark]
<1>2. f.used = e.used /\ f.name = e.name /\ [f EXCEPT !.mark = b.mark] = f
  BY <1>1
<1>. HIDE DEF f
<1>3. CASE e.used /\ e.name \in b.names
  BY <1>3, <1>2 DEF MarkedBy, f
<1>4. CASE ~(e.used /\ e.name \in b.names)
  BY <1>4 DEF MarkedBy
<1> QED
  BY <1>3, <1>4

LEMMA ChangedIs ==
    ASSUME task.op \in EditOps, NEW b, b = Brief, NEW x, NEW s, s \in AimedBy(b), Kept(b, x, s),
           b.op = "attrib" => b.disk[s] \in ListSectors
    PROVE  Changed(x) = AskedBy(b, b.disk[s])
<1>1. b.op = task.op /\ b.label = task.label /\ b.id = task.id /\ b.names = task.names /\ b.mark = task.mark
  BY DEF Brief
<1>. DEFINE y == b.disk[s]
<1>2. x = y \/ x = AskedBy(b, y)
  BY DEF Kept
<1>3. b.op = "attrib" => y \in ListSectors
  OBVIOUS
<1>. HIDE DEF y
<1>4. CASE task.op = "label"
  BY <1>1, <1>4, <1>2 DEF Changed, AskedBy, y
<1>5. CASE task.op = "diskid"
  BY <1>1, <1>5, <1>2 DEF Changed, AskedBy, y
<1>6. CASE task.op = "attrib"
  <2>1. Changed(x) = [x EXCEPT !.entries = {Marked(e) : e \in x.entries}]
    BY <1>6 DEF Changed
  <2>2. y \in ListSectors
    BY <1>1, <1>3, <1>6
  <2>3. CASE task.mark = "shown"
    <3>1. AskedBy(b, y) = y
      BY <1>1, <1>6, <2>3 DEF AskedBy
    <3>2. x = y
      BY <1>2, <3>1
    <3>3. \A e : Marked(e) = e
      BY <2>3 DEF Marked
    <3>4. {Marked(e) : e \in y.entries} = y.entries
      BY <3>3
    <3>5. [y EXCEPT !.entries = y.entries] = y
      BY <2>2 DEF ListSectors
    <3> QED
      BY <2>1, <3>1, <3>2, <3>4, <3>5 DEF y
  <2>4. CASE task.mark # "shown"
    <3>1. \A e : Marked(e) = MarkedBy(b, e)
      BY <1>1, <2>4 DEF Marked, Hit, MarkedBy
    <3>. DEFINE ys == {MarkedBy(b, e) : e \in y.entries}
    <3>2. Changed(x) = [x EXCEPT !.entries = {MarkedBy(b, e) : e \in x.entries}]
      BY <3>1, <2>1
    <3>3. AskedBy(b, y) = [y EXCEPT !.entries = ys]
      BY <1>1, <1>6, <2>4 DEF AskedBy
    <3>4. CASE x = y
      BY <3>2, <3>3, <3>4 DEF y
    <3>5. CASE x = AskedBy(b, y)
      <4>1. \A e \in y.entries : MarkedBy(b, MarkedBy(b, e)) = MarkedBy(b, e)
        BY <2>2, MarkedTwice DEF ListSectors
      <4>2. {MarkedBy(b, e) : e \in ys} = ys
        BY <4>1
      <4>. HIDE DEF ys
      <4>3. x.entries = ys
        BY <2>2, <3>3, <3>5 DEF ListSectors
      <4>4. [x EXCEPT !.entries = ys] = x
        BY <3>3, <3>5
      <4> QED
        BY <3>2, <3>5, <4>2, <4>3, <4>4 DEF y
    <3> QED
      BY <1>2, <3>4, <3>5
  <2> QED
    BY <2>3, <2>4
<1> QED
  BY <1>4, <1>5, <1>6 DEF EditOps

-----------------------------------------------------------------------------
(* The stages of a command                                                 *)

Ways == {"point", "fill", "seek", "fetch"}
HeaderStages == {"identify", "mode", "open", "header", "give up", "over"}
ListStages == {"open list", "list", "follow", "listed", "astray"}

DiskOps == EditOps \cup {"format", "diskcopy", "vol", "chkdsk", "diskinit", "copyrel"}
Stages(op) ==
    IF op \in {"label", "diskid"} THEN HeaderStages \cup {"find", "change", "changed", "repeat", "initialize"}
    ELSE IF op = "attrib" THEN HeaderStages \cup ListStages \cup {"mark"}
    ELSE IF op = "copyrel"
      THEN HeaderStages \cup ListStages \cup
           {"find", "search", "prepare", "scratch", "reopen", "open relative", "block", "spread",
            "position", "put", "relative over", "relative broken"}
    ELSE IF op = "format" THEN {"identify", "agree", "mode", "format", "over"}
    ELSE IF op = "diskcopy"
      THEN HeaderStages \cup
           {"first", "second", "agree", "side", "format", "settle", "settle both", "open first", "open second",
            "read", "write", "written", "whole", "broken", "initialize"}
    ELSE IF op \in {"vol", "chkdsk"} THEN HeaderStages \cup {"find", "validate"} ELSE {"initialize", "over"}

TaskFields == {"op", "src", "dst", "label", "id", "tracks", "at", "ok", "names", "mark"}
TaskTyped(t) ==
    /\ DOMAIN t = TaskFields
    /\ t.op \in DiskOps /\ t.src \in Disks /\ t.dst \in Disks
    /\ t.op \in EditOps => t.dst = t.src

(* A transfer that writes does so on the disk of the command. *)
WritesOwn(t, bl) ==
    \/ bl.writing = FALSE
    \/ bl.writing = TRUE /\ bl.dev = t.dst /\ t.op # "copyrel"

(* Where command t is: x, in the midst of transfer bl or not. *)
Staged(x, t, bl) ==
    /\ TaskTyped(t)
    /\ x \notin Ways => x \in Stages(t.op)
    /\ x \in Ways =>
         /\ bl.then \in Stages(t.op) /\ bl.otherwise \in Stages(t.op) /\ bl.dev \in Disks
         /\ WritesOwn(t, bl)

SameTask(t, u) ==
    /\ DOMAIN u = DOMAIN t /\ u.op = t.op /\ u.src = t.src /\ u.dst = t.dst
    /\ u.label = t.label /\ u.names = t.names /\ u.mark = t.mark
    /\ t.op \in EditOps => u.id = t.id

LEMMA StagesApart ==
    \A op \in DiskOps : Stages(op) \cap Ways = {} /\ "ready" \notin Stages(op) /\ "over" \in Stages(op)
<1>. SUFFICES ASSUME NEW op \in DiskOps
              PROVE  Stages(op) \cap Ways = {} /\ "ready" \notin Stages(op) /\ "over" \in Stages(op)
  OBVIOUS
<1>1. "over" \in Stages(op)
  BY DEF Stages, HeaderStages
<1>2. ASSUME NEW x \in Ways \cup {"ready"} PROVE x \notin Stages(op)
  <2>1. x \in {"ready", "point", "fill", "seek", "fetch"}
    BY DEF Ways
  <2>2. x \notin HeaderStages /\ x \notin ListStages
    BY <2>1 DEF HeaderStages, ListStages
  <2> QED
    BY <2>1, <2>2 DEF Stages
<1> QED
  BY <1>1, <1>2

LEMMA SameItself == \A t : SameTask(t, t)
BY DEF SameTask

(* The requests that change no more than what the shell says. *)
Talks ==
    \/ IdentifyBoth \/ IdentifyDrive \/ Mode \/ GiveUp \/ Initialize \/ Agree \/ Side \/ Settle
    \/ EndList \/ Validate \/ List \/ Prepare \/ CloseRelative

LEMMA QuietStages ==
    ASSUME TaskTyped(task), tool \in Stages(task.op), Talks
    PROVE  tool' \in Stages(task.op) /\ UNCHANGED diskVars
<1>. DEFINE S == Stages(task.op)
<1>1. task.op \in DiskOps
  BY DEF TaskTyped
<1>2. "over" \in S
  BY <1>1, StagesApart
<1>3. CASE IdentifyBoth
  <2>1. UNCHANGED diskVars /\ tool \in {"first", "second"} /\ tool' \in {"second", "identify", "over"}
    BY <1>3 DEF IdentifyBoth, Identify, To, Stopped
  <2>2. task.op = "diskcopy"
    BY <1>1, <2>1 DEF Stages, HeaderStages, ListStages, DiskOps, EditOps
  <2> QED
    BY <2>1, <2>2 DEF Stages, HeaderStages
<1>4. CASE IdentifyDrive
  <2>1. /\ UNCHANGED diskVars /\ tool = "identify"
        /\ tool' \in {IF task.op = "format" THEN "agree" ELSE IF model[task.src] = 2 THEN "mode" ELSE "open", "over"}
    BY <1>4 DEF IdentifyDrive, Identify, To, Stopped
  <2> QED
    BY <1>1, <2>1 DEF Stages, HeaderStages, ListStages, DiskOps, EditOps
<1>5. CASE Mode
  <2>1. UNCHANGED diskVars /\ tool = "mode" /\ tool' \in {IF task.op = "format" THEN "format" ELSE "open", "over"}
    BY <1>5 DEF Mode, To, Stopped
  <2> QED
    BY <1>1, <2>1 DEF Stages, HeaderStages, ListStages, DiskOps, EditOps
<1>6. CASE GiveUp
  BY <1>2, <1>6 DEF GiveUp, Stopped, diskVars
<1>7. CASE Initialize
  BY <1>2, <1>7 DEF Initialize, Stopped
<1>8. CASE Agree
  <2>1. /\ UNCHANGED diskVars /\ tool = "agree"
        /\ tool' \in {"over", "format", IF task.op = "format" THEN "mode" ELSE "side"}
    BY <1>8 DEF Agree, To, Stopped, diskVars
  <2>2. task.op \in {"format", "diskcopy"}
    BY <1>1, <2>1 DEF Stages, HeaderStages, ListStages, DiskOps, EditOps
  <2> QED
    BY <2>1, <2>2 DEF Stages, HeaderStages, ListStages, DiskOps, EditOps
<1>9. CASE Side
  <2>1. UNCHANGED diskVars /\ tool = "side" /\ tool' \in {"over", "format"}
    BY <1>9 DEF Side, To, Stopped
  <2> QED
    BY <1>1, <2>1 DEF Stages, HeaderStages, ListStages, DiskOps, EditOps
<1>10. CASE Settle
  <2>1. UNCHANGED diskVars /\ tool \in {"settle", "settle both"} /\ tool' \in {"over", "settle both", "open first"}
    BY <1>10 DEF Settle, To, Stopped
  <2> QED
    BY <1>1, <2>1 DEF Stages, HeaderStages, ListStages, DiskOps, EditOps
<1>11. CASE EndList
  <2>1. /\ UNCHANGED diskVars /\ tool \in {"listed", "astray"}
        /\ tool' \in {"over", IF task.op = "attrib" THEN "over" ELSE "prepare"}
    BY <1>11 DEF EndList, To, Stopped, diskVars
  <2> QED
    BY <1>1, <2>1 DEF Stages, HeaderStages, ListStages, DiskOps, EditOps
<1>12. CASE Validate
  <2>1. UNCHANGED diskVars /\ tool = "validate" /\ tool' \in {"over", "find"}
    BY <1>12 DEF Validate, To, Stopped
  <2> QED
    BY <1>1, <2>1 DEF Stages, HeaderStages, ListStages, DiskOps, EditOps
<1>13. CASE List
  <2>1. /\ UNCHANGED diskVars /\ tool = "find"
        /\ tool' \in {"over", "identify"}
    BY <1>13 DEF List, To, Stopped
  <2> QED
    BY <1>1, <2>1 DEF Stages, HeaderStages, ListStages, DiskOps, EditOps
<1>14. CASE Prepare
  <2>1. UNCHANGED diskVars /\ tool \in {"prepare", "scratch"} /\ tool' \in {"over", "scratch", "reopen"}
    BY <1>14 DEF Prepare, To, Stopped
  <2> QED
    BY <1>1, <2>1 DEF Stages, HeaderStages, ListStages, DiskOps, EditOps
<1>15. CASE CloseRelative
  BY <1>2, <1>15 DEF CloseRelative, Stopped
<1> QED
  BY <1>3, <1>4, <1>5, <1>6, <1>7, <1>8, <1>9, <1>10, <1>11, <1>12, <1>13, <1>14, <1>15 DEF Talks

LEMMA QuietStaged ==
    ASSUME Staged(tool, task, block), Talks
    PROVE  Staged(tool', task', block') /\ SameTask(task, task') /\ UNCHANGED diskVars
<1>1. TaskTyped(task) /\ task.op \in DiskOps
  BY DEF Staged, TaskTyped
<1>2. tool \notin Ways
  BY DEF Talks, IdentifyBoth, IdentifyDrive, Mode, GiveUp, Initialize, Agree, Side, Settle, EndList, Validate,
         List, Prepare, CloseRelative, Ways
<1>3. tool' \in Stages(task.op) /\ UNCHANGED diskVars
  BY <1>1, <1>2, QuietStages DEF Staged
<1>4. task' = task /\ block' = block
  BY <1>3 DEF diskVars
<1>5. tool' \notin Ways
  BY <1>1, <1>3, StagesApart
<1> QED
  BY <1>1, <1>3, <1>4, <1>5, SameItself DEF Staged

LEMMA StagedPlain ==
    ASSUME Staged(tool, task, block), tool \notin Ways, SameTask(task, task'), tool' \in Stages(task.op)
    PROVE  Staged(tool', task', block')
<1>1. TaskTyped(task') /\ task'.op = task.op /\ task.op \in DiskOps
  BY DEF Staged, TaskTyped, SameTask
<1>2. tool' \notin Ways
  BY <1>1, StagesApart
<1> QED
  BY <1>1, <1>2 DEF Staged

(* Requests that leave the disks and the buffers of the drives as they are. *)
Steady ==
    \/ OpenHeader \/ CheckHeader \/ Change \/ NextCopy \/ ChangeCopy \/ OpenBoth \/ ReadSector \/ WriteSector
    \/ NextSector \/ CloseBoth \/ OpenList \/ NextList \/ Mark \/ SeekRelative \/ OpenRelative \/ NextBlock
    \/ Spread \/ Position \/ PutRecord

LEMMA SteadyDrives ==
    ASSUME Steady
    PROVE  tool \notin Ways /\ UNCHANGED <<original, model, disk, buffer>>
BY DEF Steady, OpenHeader, CheckHeader, Change, NextCopy, ChangeCopy, OpenBoth, ReadSector, WriteSector,
       NextSector, CloseBoth, OpenList, NextList, Mark, SeekRelative, OpenRelative, NextBlock,
       Spread, Position, PutRecord, Ways, diskVars, fileVars

LEMMA SteadyTask ==
    ASSUME TaskTyped(task), Steady
    PROVE  SameTask(task, task')
<1>1. DOMAIN task = TaskFields /\ task.op \in DiskOps
  BY DEF TaskTyped
<1>2. CASE OpenHeader \/ Change \/ NextCopy \/ ChangeCopy \/ OpenBoth \/ ReadSector \/ WriteSector \/ OpenList
           \/ NextList \/ NextBlock \/ Position \/ PutRecord \/ OpenRelative
  BY <1>2, SameItself DEF OpenHeader, Change, NextCopy, ChangeCopy, OpenBoth, ReadSector, WriteSector, OpenList,
       NextList, NextBlock, Position, PutRecord, OpenRelative
<1>3. CASE CheckHeader
  <2>1. CASE task' = task
    BY <2>1, SameItself
  <2>2. CASE task' = [task EXCEPT !.ok = TRUE]
    BY <1>1, <2>2 DEF SameTask, TaskFields
  <2>3. CASE task.op = "diskcopy" /\ task' = [task EXCEPT !.tracks = io.tracks, !.id = io.id]
    BY <1>1, <2>3 DEF SameTask, TaskFields, EditOps
  <2>4. CASE task' = [task EXCEPT !.tracks = io.tracks, !.at = FirstList(io.tracks)]
    BY <1>1, <2>4 DEF SameTask, TaskFields
  <2> QED
    BY <1>3, <2>1, <2>2, <2>3, <2>4 DEF CheckHeader
<1>4. CASE NextSector
  BY <1>4, <1>1, SameItself DEF NextSector, SameTask, TaskFields
<1>5. CASE CloseBoth
  BY <1>5, <1>1 DEF CloseBoth, SameTask, TaskFields
<1>6. CASE Mark \/ SeekRelative \/ Spread
  BY <1>6, <1>1, SameItself DEF Mark, SeekRelative, Spread, SameTask, TaskFields
<1> QED
  BY <1>2, <1>3, <1>4, <1>5, <1>6 DEF Steady

(* A request leads to stage x or to transfer bl of command t. *)
Leads(x, t, bl) ==
    \/ x \in Stages(t.op)
    \/ /\ x \in Ways /\ bl.then \in Stages(t.op) /\ bl.otherwise \in Stages(t.op)
       /\ \/ bl.writing = FALSE /\ bl.dev \in {t.src, t.dst}
          \/ bl.writing = TRUE /\ bl.dev = t.dst /\ t.op # "copyrel"

Sent(f, dev, s, writing, then, otherwise) ==
    [file |-> f, dev |-> dev, sector |-> s, writing |-> writing, then |-> then, otherwise |-> otherwise]

LEMMA OrderedLeads ==
    ASSUME NEW t, NEW f, NEW s, NEW then \in Stages(t.op), NEW otherwise \in Stages(t.op)
    PROVE  /\ Leads("seek", t, Sent(f, t.src, s, FALSE, then, otherwise))
           /\ t.op # "copyrel" => Leads("point", t, Sent(f, t.dst, s, TRUE, then, otherwise))
BY DEF Leads, Sent, Ways

(* Which commands come by a stage, and where they may go from there. *)
LEMMA StagesOf ==
    ASSUME NEW op \in DiskOps
    PROVE  /\ "open" \in Stages(op) => {"header", "give up"} \subseteq Stages(op)
           /\ "header" \in Stages(op) => "identify" \in Stages(op) /\ op \notin {"format", "diskinit"}
           /\ \A x \in {"change", "changed", "repeat"} : x \in Stages(op) => op \in {"label", "diskid"}
           /\ "mark" \in Stages(op) => op = "attrib"
           /\ \A x \in {"search", "reopen", "open relative", "block", "spread", "position", "put"} :
                x \in Stages(op) => op = "copyrel"
           /\ \A x \in {"open first", "open second", "read", "write", "written", "whole", "broken"} :
                x \in Stages(op) => op = "diskcopy"
           /\ \A x \in {"open list", "list", "follow"} : x \in Stages(op) => op \in {"attrib", "copyrel"}
           /\ op \in {"label", "diskid"} => {"give up", "change", "changed", "repeat", "initialize"} \subseteq Stages(op)
           /\ op \in {"attrib", "copyrel"} => {"open list", "list", "follow", "listed", "astray"} \subseteq Stages(op)
           /\ op = "attrib" => "mark" \in Stages(op)
           /\ op = "copyrel" =>
                {"search", "open relative", "block", "spread", "position", "put", "relative over", "relative broken"}
                  \subseteq Stages(op)
           /\ op = "diskcopy" =>
                {"agree", "open second", "read", "write", "written", "whole", "broken", "initialize"} \subseteq Stages(op)
<1>1. /\ \A x \in {"change", "changed", "repeat", "mark", "search", "reopen", "open relative", "block", "spread",
                   "position", "put", "open first", "open second", "read", "write", "written", "whole", "broken"} :
           x \notin HeaderStages \cup ListStages
      /\ \A x \in {"open list", "list", "follow"} : x \notin HeaderStages
  BY DEF HeaderStages, ListStages
<1>2. /\ {"header", "give up", "identify"} \subseteq HeaderStages
      /\ {"open list", "list", "follow", "listed", "astray"} \subseteq ListStages
  BY DEF HeaderStages, ListStages
<1>3. "open" \in Stages(op) => {"header", "give up"} \subseteq Stages(op)
  BY <1>2 DEF Stages, HeaderStages, ListStages, DiskOps, EditOps
<1>4. "header" \in Stages(op) => "identify" \in Stages(op) /\ op \notin {"format", "diskinit"}
  BY <1>2 DEF Stages, HeaderStages, ListStages, DiskOps, EditOps
<1>5. \A x \in {"change", "changed", "repeat"} : x \in Stages(op) => op \in {"label", "diskid"}
  BY <1>1 DEF Stages, HeaderStages, ListStages, DiskOps, EditOps
<1>6. "mark" \in Stages(op) => op = "attrib"
  BY <1>1 DEF Stages, HeaderStages, ListStages, DiskOps, EditOps
<1>7. \A x \in {"search", "reopen", "open relative", "block", "spread", "position", "put"} :
        x \in Stages(op) => op = "copyrel"
  BY <1>1 DEF Stages, HeaderStages, ListStages, DiskOps, EditOps
<1>8. \A x \in {"open first", "open second", "read", "write", "written", "whole", "broken"} :
        x \in Stages(op) => op = "diskcopy"
  BY <1>1 DEF Stages, HeaderStages, ListStages, DiskOps, EditOps
<1>9. \A x \in {"open list", "list", "follow"} : x \in Stages(op) => op \in {"attrib", "copyrel"}
  BY <1>1 DEF Stages, HeaderStages, ListStages, DiskOps, EditOps
<1>10. op \in {"label", "diskid"} =>
        {"give up", "change", "changed", "repeat", "initialize"} \subseteq Stages(op)
  BY <1>2 DEF Stages, HeaderStages, ListStages, DiskOps, EditOps
<1>11. op \in {"attrib", "copyrel"} => {"open list", "list", "follow", "listed", "astray"} \subseteq Stages(op)
  BY <1>2 DEF Stages, HeaderStages, ListStages, DiskOps, EditOps
<1>12. op = "attrib" => "mark" \in Stages(op)
  BY <1>2 DEF Stages, HeaderStages, ListStages, DiskOps, EditOps
<1>13. op = "copyrel" =>
        {"search", "open relative", "block", "spread", "position", "put", "relative over", "relative broken"}
          \subseteq Stages(op)
  BY <1>2 DEF Stages, HeaderStages, ListStages, DiskOps, EditOps
<1>14. op = "diskcopy" =>
        {"agree", "open second", "read", "write", "written", "whole", "broken", "initialize"} \subseteq Stages(op)
  BY <1>2 DEF Stages, HeaderStages, ListStages, DiskOps, EditOps
<1> QED
  BY <1>3, <1>4, <1>5, <1>6, <1>7, <1>8, <1>9, <1>10, <1>11, <1>12, <1>13, <1>14

LEMMA SteadyStages ==
    ASSUME TaskTyped(task), tool \in Stages(task.op), Steady
    PROVE  Leads(tool', task, block')
<1>. DEFINE op == task.op
<1>1. op \in DiskOps /\ (op \in EditOps => task.dst = task.src)
  BY DEF TaskTyped
<1>2. "over" \in Stages(op)
  BY <1>1, StagesApart
<1>3. tool' \in Stages(op) => Leads(tool', task, block')
  BY DEF Leads
<1>4. CASE OpenHeader
  <2>1. /\ tool = "open"
        /\ \/ tool' = "over"
           \/ tool' = "seek" /\ block' = Sent(2, task.src, HeaderSector(task.src), FALSE, "header", "give up")
    BY <1>4 DEF OpenHeader, Stopped, Transfer, To, Sent
  <2>2. "header" \in Stages(op) /\ "give up" \in Stages(op)
    BY <1>1, <2>1, StagesOf
  <2> QED
    BY <1>1, <1>2, <1>3, <2>1, <2>2, OrderedLeads DEF EditOps
<1>5. CASE CheckHeader
  <2>1. /\ tool = "header"
        /\ \/ tool' \in {"over", "identify"}
           \/ op \in {"label", "diskid"} /\ tool' = "change"
           \/ op = "diskcopy" /\ tool' = "agree"
           \/ op \notin {"label", "diskid", "diskcopy", "vol", "chkdsk"} /\ tool' = "open list"
    BY <1>5 DEF CheckHeader, Stopped, To
  <2>2. "identify" \in Stages(op) /\ op \in {"label", "diskid", "diskcopy", "vol", "chkdsk", "attrib", "copyrel"}
    BY <1>1, <2>1, StagesOf DEF DiskOps, EditOps
  <2>3. /\ op \in {"label", "diskid"} => "change" \in Stages(op)
        /\ op = "diskcopy" => "agree" \in Stages(op)
        /\ op \in {"attrib", "copyrel"} => "open list" \in Stages(op)
    BY <1>1, StagesOf
  <2> QED
    BY <1>2, <1>3, <2>1, <2>2, <2>3
<1>6. CASE Change
  <2>1. /\ tool = "change"
        /\ \/ tool' = "over"
           \/ tool' = "point" /\ block' = Sent(2, task.src, HeaderSector(task.src), TRUE, "changed", "give up")
    BY <1>6 DEF Change, Stopped, Transfer, To, Sent
  <2>2. op \in {"label", "diskid"} /\ {"changed", "give up"} \subseteq Stages(op)
    BY <1>1, <2>1, StagesOf
  <2> QED
    BY <1>1, <1>2, <1>3, <2>1, <2>2, OrderedLeads DEF EditOps
<1>7. CASE NextCopy
  <2>1. /\ tool = "changed"
        /\ \/ tool' = "initialize"
           \/ \E s : tool' = "seek" /\ block' = Sent(2, task.src, s, FALSE, "repeat", "give up")
    BY <1>7 DEF NextCopy, ReadFirst, Transfer, To, Sent
  <2>2. {"initialize", "repeat", "give up"} \subseteq Stages(op)
    BY <1>1, <2>1, StagesOf
  <2> QED
    BY <1>1, <1>2, <1>3, <2>1, <2>2, OrderedLeads DEF EditOps
<1>8. CASE ChangeCopy
  <2>1. /\ tool = "repeat"
        /\ tool' = "point" /\ block' = Sent(2, task.src, block.sector, TRUE, "changed", "give up")
    BY <1>8 DEF ChangeCopy, Transfer, To, Sent
  <2>2. op \in {"label", "diskid"} /\ {"changed", "give up"} \subseteq Stages(op)
    BY <1>1, <2>1, StagesOf
  <2> QED
    BY <1>1, <1>2, <1>3, <2>1, <2>2, OrderedLeads DEF EditOps
<1>9. CASE OpenBoth
  <2>1. tool \in {"open first", "open second"} /\ tool' \in {"open second", "read", "over"}
    BY <1>9 DEF OpenBoth, To, Stopped
  <2>2. {"open second", "read"} \subseteq Stages(op)
    <3>1. op = "diskcopy"
      BY <1>1, <2>1, StagesOf
    <3> QED
      BY <1>1, <3>1, StagesOf
  <2> QED
    BY <1>2, <1>3, <2>1, <2>2
<1>10. CASE ReadSector
  <2>1. /\ tool = "read"
        /\ tool' = "seek" /\ block' = Sent(2, task.src, task.at, FALSE, "write", "broken")
    BY <1>10 DEF ReadSector, Transfer, To, Sent
  <2>2. {"write", "broken"} \subseteq Stages(op)
    BY <1>1, <2>1, StagesOf
  <2> QED
    BY <1>1, <1>2, <1>3, <2>1, <2>2, OrderedLeads DEF EditOps
<1>11. CASE WriteSector
  <2>1. /\ tool = "write"
        /\ tool' = "point" /\ block' = Sent(3, task.dst, task.at, TRUE, "written", "broken")
    BY <1>11 DEF WriteSector, Transfer, To, Sent
  <2>2. op = "diskcopy" /\ {"written", "broken"} \subseteq Stages(op)
    BY <1>1, <2>1, StagesOf
  <2> QED
    BY <1>1, <1>2, <1>3, <2>1, <2>2, OrderedLeads DEF EditOps
<1>12. CASE NextSector
  <2>1. tool = "written" /\ tool' \in {"broken", "read", "whole"}
    BY <1>12 DEF NextSector, To
  <2>2. {"broken", "read", "whole"} \subseteq Stages(op)
    BY <1>1, <2>1, StagesOf
  <2> QED
    BY <1>2, <1>3, <2>1, <2>2
<1>13. CASE CloseBoth
  <2>1. tool \in {"whole", "broken"} /\ tool' = "initialize"
    BY <1>13 DEF CloseBoth, To
  <2>2. "initialize" \in Stages(op)
    BY <1>1, <2>1, StagesOf
  <2> QED
    BY <1>2, <1>3, <2>1, <2>2
<1>14. CASE OpenList
  <2>1. tool = "open list" /\ tool' \in {"list", "over"}
    BY <1>14 DEF OpenList, To, Stopped
  <2>2. "list" \in Stages(op)
    BY <1>1, <2>1, StagesOf
  <2> QED
    BY <1>2, <1>3, <2>1, <2>2
<1>15. CASE NextList
  <2>1. /\ tool = "list"
        /\ \/ tool' \in {"listed", "astray"}
           \/ /\ tool' = "seek"
              /\ block' = Sent(2, task.src, task.at, FALSE, IF op = "attrib" THEN "mark" ELSE "search", "astray")
    BY <1>15 DEF NextList, Transfer, To, Sent
  <2>2. {"listed", "astray", IF op = "attrib" THEN "mark" ELSE "search"} \subseteq Stages(op)
    BY <1>1, <2>1, StagesOf
  <2> QED
    BY <1>1, <1>2, <1>3, <2>1, <2>2, OrderedLeads DEF EditOps
<1>16. CASE Mark
  <2>1. \/ tool = "follow" /\ tool' = "list"
        \/ tool = "mark" /\ tool' \in {"follow", "listed"}
        \/ /\ tool = "mark"
           /\ tool' = "point" /\ block' = Sent(2, task.src, task.at, TRUE, "follow", "astray")
    BY <1>16 DEF Mark, Transfer, To, Sent
  <2>2. "list" \in Stages(op) /\ (tool = "mark" => op = "attrib" /\ {"follow", "listed", "astray"} \subseteq Stages(op))
    BY <1>1, <2>1, StagesOf
  <2> QED
    BY <1>1, <1>2, <1>3, <2>1, <2>2, OrderedLeads DEF EditOps
<1>17. CASE SeekRelative
  <2>1. tool = "search" /\ tool' \in {"follow", "listed"}
    BY <1>17 DEF SeekRelative, To
  <2>2. {"follow", "listed"} \subseteq Stages(op)
    BY <1>1, <2>1, StagesOf
  <2> QED
    BY <1>2, <1>3, <2>1, <2>2
<1>18. CASE OpenRelative
  <2>1. tool \in {"reopen", "open relative"} /\ tool' \in {"open relative", "over", "block", "relative broken"}
    BY <1>18 DEF OpenRelative, To, Stopped, CopyBroken
  <2>2. {"open relative", "block", "relative broken"} \subseteq Stages(op)
    <3>1. op = "copyrel"
      BY <1>1, <2>1, StagesOf
    <3> QED
      BY <1>1, <3>1, StagesOf
  <2> QED
    BY <1>2, <1>3, <2>1, <2>2
<1>19. CASE NextBlock
  <2>1. /\ tool = "block"
        /\ \/ tool' \in {"relative over", "relative broken"}
           \/ tool' = "seek" /\ block' = Sent(2, task.src, task.at, FALSE, "spread", "relative broken")
    BY <1>19 DEF NextBlock, Transfer, To, Sent
  <2>2. {"spread", "relative over", "relative broken"} \subseteq Stages(op)
    BY <1>1, <2>1, StagesOf
  <2> QED
    BY <1>1, <1>2, <1>3, <2>1, <2>2, OrderedLeads DEF EditOps
<1>20. CASE Spread
  <2>1. tool = "spread" /\ tool' \in {"block", "position"}
    BY <1>20 DEF Spread, To
  <2>2. {"block", "position"} \subseteq Stages(op)
    BY <1>1, <2>1, StagesOf
  <2> QED
    BY <1>2, <1>3, <2>1, <2>2
<1>21. CASE Position
  <2>1. tool = "position" /\ tool' \in {"put", "relative broken"}
    BY <1>21 DEF Position, To, CopyBroken
  <2>2. {"put", "relative broken"} \subseteq Stages(op)
    BY <1>1, <2>1, StagesOf
  <2> QED
    BY <1>2, <1>3, <2>1, <2>2
<1>22. CASE PutRecord
  <2>1. tool = "put" /\ tool' \in {"spread", "relative broken"}
    BY <1>22 DEF PutRecord, To, CopyBroken
  <2>2. {"spread", "relative broken"} \subseteq Stages(op)
    BY <1>1, <2>1, StagesOf
  <2> QED
    BY <1>2, <1>3, <2>1, <2>2
<1> QED
  BY <1>4, <1>5, <1>6, <1>7, <1>8, <1>9, <1>10, <1>11, <1>12, <1>13, <1>14, <1>15, <1>16, <1>17, <1>18, <1>19,
     <1>20, <1>21, <1>22
  DEF Steady

LEMMA SteadyStaged ==
    ASSUME Staged(tool, task, block), Steady
    PROVE  Staged(tool', task', block') /\ SameTask(task, task') /\ UNCHANGED <<original, model, disk, buffer>>
<1>1. TaskTyped(task) /\ task.op \in DiskOps /\ task.src \in Disks /\ task.dst \in Disks
  BY DEF Staged, TaskTyped
<1>2. tool \notin Ways /\ tool \in Stages(task.op) /\ UNCHANGED <<original, model, disk, buffer>>
  BY SteadyDrives DEF Staged
<1>3. SameTask(task, task')
  BY <1>1, SteadyTask
<1>4. Leads(tool', task, block')
  BY <1>1, <1>2, SteadyStages
<1>5. CASE tool' \in Stages(task.op)
  BY <1>2, <1>3, <1>5, StagedPlain
<1>6. CASE tool' \notin Stages(task.op)
  <2>1. /\ tool' \in Ways /\ block'.then \in Stages(task.op) /\ block'.otherwise \in Stages(task.op)
        /\ block'.dev \in Disks
        /\ block'.writing = FALSE \/ (block'.writing = TRUE /\ block'.dev = task.dst /\ task.op # "copyrel")
    BY <1>1, <1>4, <1>6 DEF Leads
  <2>2. TaskTyped(task') /\ task'.op = task.op /\ task'.dst = task.dst
    BY <1>1, <1>3 DEF TaskTyped, SameTask
  <2>3. WritesOwn(task', block')
    BY <2>1, <2>2 DEF WritesOwn
  <2>4. block'.then \in Stages(task'.op) /\ block'.otherwise \in Stages(task'.op)
    BY <2>1, <2>2
  <2> QED
    BY <1>2, <1>3, <2>1, <2>2, <2>3, <2>4 DEF Staged
<1> QED
  BY <1>2, <1>3, <1>5, <1>6

LEMMA BlockStaged ==
    ASSUME Staged(tool, task, block), Block
    PROVE  Staged(tool', task', block') /\ SameTask(task, task') /\ UNCHANGED <<original, model, task, block>>
<1>1. TaskTyped(task) /\ task.op \in DiskOps
  BY DEF Staged, TaskTyped
<1>2. tool \in Ways /\ UNCHANGED <<original, model, task, block>>
  BY DEF Block, Point, Fill, Seek, Fetch, Ways, diskVars
<1>3. tool' \in {"fill", "seek", "fetch", block.then, block.otherwise}
  <2>1. CASE Point
    BY <2>1 DEF Point, To, Fault
  <2>2. CASE Fill
    BY <2>2 DEF Fill, To, Fault, Refused
  <2>3. CASE Seek
    BY <2>3 DEF Seek, To, Fault, Refused
  <2>4. CASE Fetch
    BY <2>4 DEF Fetch, To, Fault, Refused
  <2> QED
    BY <2>1, <2>2, <2>3, <2>4 DEF Block
<1>4. tool' \in Ways \/ tool' \in Stages(task.op)
  BY <1>2, <1>3 DEF Staged, Ways
<1>5. tool' \in Ways => tool' \notin Stages(task.op)
  BY <1>1, StagesApart
<1> QED
  BY <1>1, <1>2, <1>4, <1>5, SameItself DEF Staged

LEMMA FormatStaged ==
    ASSUME Staged(tool, task, block), FormatDisk
    PROVE  /\ Staged(tool', task', block') /\ SameTask(task, task')
           /\ UNCHANGED <<original, model, task, block, buffer>>
           /\ task.op \in {"format", "diskcopy"}
<1>1. TaskTyped(task) /\ task.op \in DiskOps /\ tool = "format" /\ tool \notin Ways
  BY DEF Staged, TaskTyped, FormatDisk, Ways
<1>2. /\ UNCHANGED <<original, model, task, block, buffer>>
      /\ tool' \in {"over", IF task.op = "format" THEN "over" ELSE "settle"}
  BY DEF FormatDisk, To, Stopped
<1>3. "format" \in Stages(task.op)
  BY <1>1 DEF Staged
<1>4. task.op \in {"format", "diskcopy"}
  BY <1>1, <1>3 DEF Stages, HeaderStages, ListStages, DiskOps, EditOps
<1>5. tool' \in Stages(task.op)
  BY <1>2, <1>4 DEF Stages, HeaderStages
<1>6. SameTask(task, task')
  BY <1>2, SameItself
<1> QED
  BY <1>1, <1>2, <1>4, <1>5, <1>6, StagedPlain

-----------------------------------------------------------------------------
(* No other drive                                                          *)

OthersAsBefore(t, d, o) == \A v \in Disks : d[v] = o[v] \/ (v = t.dst /\ t.op # "copyrel")
Drives(d, o, bu) == DOMAIN d = Disks /\ DOMAIN o = Disks /\ DOMAIN bu = Disks

LEMMA OthersKept ==
    ASSUME NEW t, NEW u, SameTask(t, u), NEW d, NEW o, OthersAsBefore(t, d, o)
    PROVE  OthersAsBefore(u, d, o)
BY DEF OthersAsBefore, SameTask

LEMMA OthersStep ==
    ASSUME Staged(tool, task, block), Drives(disk, original, buffer), OthersAsBefore(task, disk, original),
           Block \/ FormatDisk
    PROVE  Drives(disk', original', buffer') /\ OthersAsBefore(task', disk', original')
<1>1. UNCHANGED <<original, task>>
  BY BlockStaged, FormatStaged
<1>2. CASE FormatDisk
  <2>1. task.op # "copyrel" /\ buffer' = buffer
    BY <1>2, FormatStaged
  <2>2. disk' = disk \/ \E x : disk' = [disk EXCEPT ![task.dst] = x]
    BY <1>2 DEF FormatDisk
  <2>3. CASE disk' = disk
    BY <1>1, <2>1, <2>3
  <2>4. ASSUME NEW x, disk' = [disk EXCEPT ![task.dst] = x]
        PROVE  Drives(disk', original', buffer') /\ OthersAsBefore(task', disk', original')
    BY <1>1, <2>1, <2>4 DEF Drives, OthersAsBefore
  <2> QED
    BY <2>2, <2>3, <2>4
<1>3. CASE Point \/ Fetch
  <2>1. UNCHANGED <<disk, buffer>>
    BY <1>3 DEF Point, Fetch, diskVars
  <2> QED
    BY <1>1, <2>1
<1>4. CASE Fill
  BY <1>4, <1>1 DEF Fill, Drives, OthersAsBefore
<1>5. CASE Seek
  <2>1. tool \in Ways
    BY <1>5 DEF Seek, Ways
  <2>2. WritesOwn(task, block)
    BY <2>1 DEF Staged
  <2>3. \/ disk' = disk /\ buffer' = buffer
        \/ disk' = disk /\ \E x : buffer' = [buffer EXCEPT ![block.dev] = x]
        \/ buffer' = buffer /\ block.writing /\ disk' = [disk EXCEPT ![block.dev][block.sector] = buffer[block.dev]]
    BY <1>5 DEF Seek
  <2>4. CASE disk' = disk
    BY <2>3, <1>1, <2>4 DEF Drives
  <2>5. CASE buffer' = buffer /\ block.writing /\ disk' = [disk EXCEPT ![block.dev][block.sector] = buffer[block.dev]]
    <3>1. block.dev = task.dst /\ task.op # "copyrel"
      BY <2>2, <2>5 DEF WritesOwn
    <3> QED
      BY <1>1, <2>5, <3>1 DEF Drives, OthersAsBefore
  <2> QED
    BY <2>3, <2>4, <2>5
<1> QED
  BY <1>2, <1>3, <1>4, <1>5 DEF Block

-----------------------------------------------------------------------------
(* What the shell holds of a disk that it edits: x is the next request, t  *)
(* the command, y the shell's buffer, bl the transfer, bu the buffers of   *)
(* the drives, and p the progress along the directory.                     *)

Again(b) == IF b.op = "diskid" /\ b.model = 3 THEN {<<DENSEHEADER, 1>>, <<DENSEHEADER, 2>>} ELSE {}

HeldDisk(b, d) ==
    DOMAIN d[b.src] = DOMAIN b.disk /\ \A s \in DOMAIN b.disk : Kept(b, d[b.src][s], s)

HeldHeader(b, x, y) == x \in {"header", "change"} => Kept(b, y, HeaderOn(b.model))

HeldRepeat(b, x, y, bl) ==
    /\ x = "changed" => bl.sector \in {HeaderOn(b.model)} \cup Again(b)
    /\ x = "repeat" => bl.sector \in Again(b) /\ Kept(b, y, bl.sector)

HeldMark(b, x, t, y) == x \in {"mark", "follow"} => Kept(b, y, t.at)

Carried(b, x, t, y, bl, bu) ==
    /\ bl.writing = TRUE /\ x \in {"point", "fill", "seek"}
    /\ bl.sector \in AimedBy(b) /\ y = AskedBy(b, b.disk[bl.sector])
    /\ x = "seek" => bu[b.src] = y
    /\ \/ bl.then = "changed" /\ bl.sector \in {HeaderOn(b.model)} \cup Again(b)
       \/ bl.then = "follow" /\ bl.sector = t.at

Brought(b, x, t, bl, bu) ==
    /\ bl.writing = FALSE /\ x \in {"seek", "fetch"}
    /\ x = "fetch" => Kept(b, bu[b.src], bl.sector)
    /\ \/ bl.then = "header" /\ bl.sector = HeaderOn(b.model)
       \/ bl.then = "repeat" /\ bl.sector \in Again(b)
       \/ bl.then = "mark" /\ bl.sector = t.at

HeldWay(b, x, t, y, bl, bu) ==
    x \in Ways =>
      /\ bl.dev = b.src /\ bl.sector \in DOMAIN b.disk /\ bl.otherwise \in {"give up", "astray"}
      /\ Carried(b, x, t, y, bl, bu) \/ Brought(b, x, t, bl, bu)

(* The walk is so many sectors along the chain of the directory, at s. *)
Reached(b, n, s) ==
    /\ n \in 0..Cardinality(DOMAIN b.disk) /\ Walk(b.disk, FirstOf(b))[n] = s
    /\ \A i \in 0..n - 1 : Walk(b.disk, FirstOf(b))[i] \in DOMAIN b.disk

Been(b, t, p) ==
    /\ t.tracks = b.disk[HeaderOn(b.model)].tracks
    /\ p.seen \subseteq DOMAIN b.disk /\ Cardinality(p.seen) = p.count

Far(x, bl) == x \in {"identify", "mode", "open", "header"} \/ (x \in Ways /\ bl.then = "header")
AtLink(x) == x \in {"open list", "list"}
AtSector(x, bl) == x \in {"mark", "follow"} \/ (x \in Ways /\ bl.then \in {"mark", "follow"})

HeldWalk(b, x, t, bl, p) ==
    b.op = "attrib" =>
      /\ Far(x, bl) => p.count = 0 /\ p.seen = {}
      /\ AtLink(x) => Been(b, t, p) /\ Reached(b, p.count, t.at) /\ t.at \in Nat \X Nat
      /\ AtSector(x, bl) =>
           /\ Been(b, t, p) /\ p.count > 0 /\ Reached(b, p.count - 1, t.at)
           /\ t.at \in DOMAIN b.disk /\ b.disk[t.at] \in ListSectors

Fields(p) == DOMAIN p = {"seen", "found", "count", "len", "off", "part", "record", "slot"}

Edited(b, x, t, y, bl, bu, p) ==
    /\ HeldHeader(b, x, y) /\ HeldRepeat(b, x, y, bl) /\ HeldMark(b, x, t, y)
    /\ HeldWay(b, x, t, y, bl, bu) /\ HeldWalk(b, x, t, bl, p) /\ Fields(p)

Resting == {"identify", "mode", "open", "give up", "find", "initialize", "over", "listed", "astray"}

LEMMA NothingHeld ==
    ASSUME NEW b, NEW x \in Resting, NEW t, NEW y, NEW bl, NEW bu, NEW p, Fields(p),
           b.op = "attrib" /\ x \in {"identify", "mode", "open"} => p.count = 0 /\ p.seen = {}
    PROVE  Edited(b, x, t, y, bl, bu, p)
<1>1. x \notin Ways /\ x \notin {"header", "change", "changed", "repeat", "mark", "follow", "open list", "list"}
  BY DEF Resting, Ways
<1>2. HeldHeader(b, x, y) /\ HeldRepeat(b, x, y, bl) /\ HeldMark(b, x, t, y) /\ HeldWay(b, x, t, y, bl, bu)
  BY <1>1 DEF HeldHeader, HeldRepeat, HeldMark, HeldWay
<1>3. HeldWalk(b, x, t, bl, p)
  BY <1>1 DEF HeldWalk, Far, AtLink, AtSector
<1> QED
  BY <1>2, <1>3 DEF Edited

LEMMA QuietEdited ==
    ASSUME NEW b, b.op = task.op, task.op \in EditOps, Staged(tool, task, block), Talks,
           Edited(b, tool, task, io, block, buffer, progress)
    PROVE  Edited(b, tool', task', io', block', buffer', progress')
<1>1. tool \notin Ways /\ tool' \in Stages(task.op) /\ UNCHANGED diskVars /\ TaskTyped(task) /\ tool \in Stages(task.op)
  <2>1. tool \notin Ways
    BY DEF Talks, IdentifyBoth, IdentifyDrive, Mode, GiveUp, Initialize, Agree, Side, Settle, EndList, Validate,
           List, Prepare, CloseRelative, Ways
  <2> QED
    BY <2>1, QuietStages DEF Staged
<1>2. UNCHANGED progress /\ Fields(progress')
  BY <1>1 DEF diskVars, fileVars, Edited
<1>3. tool' \in {"identify", "mode", "open", "over"} /\ (tool' = "identify" => tool = "find" \/ tool = "second")
      /\ (tool' \in {"mode", "open"} => tool \in {"identify", "mode", "agree"})
  <2>1. tool \notin {"second", "first", "agree", "side", "settle", "settle both", "validate", "prepare", "scratch"}
    BY <1>1 DEF Stages, HeaderStages, ListStages, EditOps
  <2>2. CASE IdentifyDrive \/ Mode
    BY <2>2 DEF IdentifyDrive, Identify, Mode, To, Stopped, EditOps
  <2>3. CASE GiveUp \/ Initialize \/ List
    BY <2>3 DEF GiveUp, Initialize, List, To, Stopped, EditOps
  <2>4. CASE EndList
    <3>1. task.op = "attrib"
      BY <1>1, <2>4 DEF EndList, Stages, HeaderStages, ListStages, EditOps
    <3> QED
      BY <2>4, <3>1 DEF EndList, Stopped
  <2>5. CASE IdentifyBoth \/ Agree \/ Side \/ Settle \/ Validate \/ Prepare
    BY <2>1, <2>5 DEF IdentifyBoth, Agree, Side, Settle, Validate, Prepare
  <2>6. CASE CloseRelative
    BY <1>1, <2>6 DEF CloseRelative, Stopped
  <2> QED
    BY <2>2, <2>3, <2>4, <2>5, <2>6 DEF Talks
<1>4. task.op = "attrib" => tool \notin {"find", "second", "agree"}
  BY <1>1 DEF Stages, HeaderStages, ListStages
<1>5. b.op = "attrib" /\ tool' \in {"identify", "mode", "open"} => progress'.count = 0 /\ progress'.seen = {}
  <2>1. HeldWalk(b, tool, task, block, progress)
    BY DEF Edited
  <2> QED
    BY <1>2, <1>3, <1>4, <2>1 DEF HeldWalk, Far
<1>6. tool' \in Resting
  BY <1>3 DEF Resting
<1> QED
  BY <1>2, <1>5, <1>6, NothingHeld

LEMMA FaultEdited ==
    ASSUME NEW b, NEW x \in {"give up", "astray"}, NEW t, NEW y, NEW bl, NEW bu, NEW p, Fields(p)
    PROVE  Edited(b, x, t, y, bl, bu, p)
<1>1. x \in Resting /\ x \notin {"identify", "mode", "open"}
  BY DEF Resting
<1> QED
  BY <1>1, NothingHeld

(* What a transfer under way has of the walk, its end has too. *)
LEMMA WalkGoesOn ==
    ASSUME NEW b, NEW x \in Ways, NEW z, NEW t, NEW bl, NEW p, HeldWalk(b, x, t, bl, p),
           z \in Ways \/ (z = bl.then /\ z \in {"header", "repeat", "mark", "changed", "follow"})
    PROVE  HeldWalk(b, z, t, bl, p)
<1>1. Far(z, bl) => Far(x, bl)
  BY DEF Far, Ways
<1>2. ~AtLink(z)
  BY DEF AtLink, Ways
<1>3. AtSector(z, bl) => AtSector(x, bl)
  BY DEF AtSector, Ways
<1> QED
  BY <1>1, <1>2, <1>3 DEF HeldWalk

LEMMA PointEdited ==
    ASSUME NEW b, Point, Edited(b, tool, task, io, block, buffer, progress)
    PROVE  Edited(b, tool', task', io', block', buffer', progress')
<1>1. /\ tool = "point" /\ tool \in Ways /\ UNCHANGED <<task, io, block, buffer, progress>>
      /\ tool' \in {"fill", block.otherwise}
  BY DEF Point, Ways, To, Fault, diskVars, fileVars
<1>2. /\ block.dev = b.src /\ block.sector \in DOMAIN b.disk /\ block.otherwise \in {"give up", "astray"}
      /\ Carried(b, tool, task, io, block, buffer) \/ Brought(b, tool, task, block, buffer)
  BY <1>1 DEF Edited, HeldWay
<1>3. CASE tool' = block.otherwise
  BY <1>1, <1>2, <1>3, FaultEdited DEF Edited
<1>4. CASE tool' = "fill"
  <2>1. Carried(b, tool, task, io, block, buffer)
    BY <1>1, <1>2 DEF Brought
  <2>2. Carried(b, tool', task', io', block', buffer')
    BY <1>1, <1>4, <2>1 DEF Carried
  <2>3. HeldWay(b, tool', task', io', block', buffer')
    BY <1>1, <1>2, <2>2 DEF HeldWay
  <2>4. HeldWalk(b, tool', task', block', progress')
    BY <1>1, <1>4, WalkGoesOn DEF Edited, Ways
  <2>5. HeldHeader(b, tool', io') /\ HeldRepeat(b, tool', io', block') /\ HeldMark(b, tool', task', io')
    BY <1>4 DEF HeldHeader, HeldRepeat, HeldMark
  <2> QED
    BY <1>1, <2>3, <2>4, <2>5 DEF Edited
<1> QED
  BY <1>1, <1>3, <1>4

LEMMA FillEdited ==
    ASSUME NEW b, b.src \in DOMAIN buffer, Fill, Edited(b, tool, task, io, block, buffer, progress)
    PROVE  Edited(b, tool', task', io', block', buffer', progress')
<1>1. /\ tool = "fill" /\ tool \in Ways /\ UNCHANGED <<task, io, block, progress>>
      /\ \/ tool' = "seek" /\ buffer' = [buffer EXCEPT ![block.dev] = io]
         \/ tool' = block.otherwise
  BY DEF Fill, Ways, To, Fault, Refused, fileVars
<1>2. /\ block.dev = b.src /\ block.sector \in DOMAIN b.disk /\ block.otherwise \in {"give up", "astray"}
      /\ Carried(b, tool, task, io, block, buffer) \/ Brought(b, tool, task, block, buffer)
  BY <1>1 DEF Edited, HeldWay
<1>3. CASE tool' = block.otherwise
  BY <1>1, <1>2, <1>3, FaultEdited DEF Edited
<1>4. CASE tool' = "seek" /\ buffer' = [buffer EXCEPT ![block.dev] = io]
  <2>1. Carried(b, tool, task, io, block, buffer)
    BY <1>1, <1>2 DEF Brought
  <2>2. Carried(b, tool', task', io', block', buffer')
    BY <1>1, <1>2, <1>4, <2>1 DEF Carried
  <2>3. HeldWay(b, tool', task', io', block', buffer')
    BY <1>1, <1>2, <2>2 DEF HeldWay
  <2>4. HeldWalk(b, tool', task', block', progress')
    BY <1>1, <1>4, WalkGoesOn DEF Edited, Ways
  <2>5. HeldHeader(b, tool', io') /\ HeldRepeat(b, tool', io', block') /\ HeldMark(b, tool', task', io')
    BY <1>4 DEF HeldHeader, HeldRepeat, HeldMark
  <2> QED
    BY <1>1, <2>3, <2>4, <2>5 DEF Edited
<1> QED
  BY <1>1, <1>3, <1>4

LEMMA SeekEdited ==
    ASSUME NEW b, b.src \in DOMAIN buffer, HeldDisk(b, disk), Seek,
           Edited(b, tool, task, io, block, buffer, progress)
    PROVE  Edited(b, tool', task', io', block', buffer', progress')
<1>1. /\ tool = "seek" /\ tool \in Ways /\ UNCHANGED <<task, io, block, progress>>
      /\ \/ block.writing /\ tool' = block.then
         \/ ~block.writing /\ tool' = "fetch" /\ buffer' = [buffer EXCEPT ![block.dev] = disk[block.dev][block.sector]]
         \/ tool' = block.otherwise
  BY DEF Seek, Ways, To, Fault, Refused, fileVars
<1>2. /\ block.dev = b.src /\ block.sector \in DOMAIN b.disk /\ block.otherwise \in {"give up", "astray"}
      /\ Carried(b, tool, task, io, block, buffer) \/ Brought(b, tool, task, block, buffer)
  BY <1>1 DEF Edited, HeldWay
<1>3. CASE tool' = block.otherwise
  BY <1>1, <1>2, <1>3, FaultEdited DEF Edited
<1>4. HeldWalk(b, tool, task, block, progress)
  BY DEF Edited
<1>5. CASE block.writing /\ tool' = block.then
  <2>1. Carried(b, tool, task, io, block, buffer)
    BY <1>2, <1>5 DEF Brought
  <2>2. block.sector \in AimedBy(b) /\ io = AskedBy(b, b.disk[block.sector])
    BY <2>1 DEF Carried
  <2>3. \/ tool' = "changed" /\ block.sector \in {HeaderOn(b.model)} \cup Again(b)
        \/ tool' = "follow" /\ block.sector = task.at
    BY <1>5, <2>1 DEF Carried
  <2>4. tool' \notin Ways
    BY <2>3 DEF Ways
  <2>5. HeldWalk(b, tool', task', block', progress')
    BY <1>1, <1>4, <1>5, <2>3, WalkGoesOn
  <2>6. HeldHeader(b, tool', io') /\ HeldRepeat(b, tool', io', block')
    BY <1>1, <2>3 DEF HeldHeader, HeldRepeat
  <2>7. HeldMark(b, tool', task', io')
    BY <1>1, <2>2, <2>3 DEF HeldMark, Kept
  <2>8. HeldWay(b, tool', task', io', block', buffer')
    BY <2>4 DEF HeldWay
  <2> QED
    BY <1>1, <2>5, <2>6, <2>7, <2>8 DEF Edited
<1>6. CASE ~block.writing /\ tool' = "fetch" /\ buffer' = [buffer EXCEPT ![block.dev] = disk[block.dev][block.sector]]
  <2>1. Brought(b, tool, task, block, buffer)
    BY <1>2, <1>6 DEF Carried
  <2>2. buffer'[b.src] = disk[b.src][block.sector] /\ Kept(b, disk[b.src][block.sector], block.sector)
    BY <1>2, <1>6 DEF HeldDisk
  <2>3. Brought(b, tool', task', block', buffer')
    BY <1>1, <1>6, <2>1, <2>2 DEF Brought
  <2>4. HeldWay(b, tool', task', io', block', buffer')
    BY <1>1, <1>2, <2>3 DEF HeldWay
  <2>5. HeldWalk(b, tool', task', block', progress')
    BY <1>6, <1>1, <1>4, WalkGoesOn DEF Ways
  <2>6. HeldHeader(b, tool', io') /\ HeldRepeat(b, tool', io', block') /\ HeldMark(b, tool', task', io')
    BY <1>6 DEF HeldHeader, HeldRepeat, HeldMark
  <2> QED
    BY <1>1, <2>4, <2>5, <2>6 DEF Edited
<1> QED
  BY <1>1, <1>3, <1>5, <1>6

LEMMA FetchEdited ==
    ASSUME NEW b, Fetch, Edited(b, tool, task, io, block, buffer, progress)
    PROVE  Edited(b, tool', task', io', block', buffer', progress')
<1>1. /\ tool = "fetch" /\ tool \in Ways /\ UNCHANGED <<task, block, buffer, progress>>
      /\ \/ tool' = block.then /\ io' = buffer[block.dev]
         \/ tool' = block.otherwise
  BY DEF Fetch, Ways, To, Fault, Refused, fileVars
<1>2. /\ block.dev = b.src /\ block.sector \in DOMAIN b.disk /\ block.otherwise \in {"give up", "astray"}
      /\ Carried(b, tool, task, io, block, buffer) \/ Brought(b, tool, task, block, buffer)
  BY <1>1 DEF Edited, HeldWay
<1>3. CASE tool' = block.otherwise
  BY <1>1, <1>2, <1>3, FaultEdited DEF Edited
<1>4. CASE tool' = block.then /\ io' = buffer[block.dev]
  <2>1. Brought(b, tool, task, block, buffer)
    BY <1>1, <1>2 DEF Carried
  <2>2. Kept(b, io', block.sector)
    BY <1>1, <1>2, <1>4, <2>1 DEF Brought
  <2>3. \/ tool' = "header" /\ block.sector = HeaderOn(b.model)
        \/ tool' = "repeat" /\ block.sector \in Again(b)
        \/ tool' = "mark" /\ block.sector = task.at
    BY <1>4, <2>1 DEF Brought
  <2>4. tool' \notin Ways
    BY <2>3 DEF Ways
  <2>5. HeldWalk(b, tool', task', block', progress')
    BY <1>1, <1>4, <2>3, WalkGoesOn DEF Edited
  <2>6. HeldHeader(b, tool', io') /\ HeldRepeat(b, tool', io', block') /\ HeldMark(b, tool', task', io')
    BY <1>1, <2>2, <2>3 DEF HeldHeader, HeldRepeat, HeldMark
  <2>7. HeldWay(b, tool', task', io', block', buffer')
    BY <2>4 DEF HeldWay
  <2> QED
    BY <1>1, <2>5, <2>6, <2>7 DEF Edited
<1> QED
  BY <1>1, <1>3, <1>4

(* A transfer writes what was asked for, if it writes. *)
LEMMA BlockHeld ==
    ASSUME NEW b, b.src \in DOMAIN disk, b.src \in DOMAIN buffer, HeldDisk(b, disk), Block,
           Edited(b, tool, task, io, block, buffer, progress)
    PROVE  HeldDisk(b, disk') /\ Edited(b, tool', task', io', block', buffer', progress')
<1>1. Edited(b, tool', task', io', block', buffer', progress')
  BY PointEdited, FillEdited, SeekEdited, FetchEdited DEF Block
<1>2. CASE disk' = disk
  BY <1>1, <1>2
<1>3. CASE disk' # disk
  <2>1. tool = "seek" /\ block.writing /\ disk' = [disk EXCEPT ![block.dev][block.sector] = buffer[block.dev]]
    BY <1>3 DEF Block, Point, Fill, Seek, Fetch, diskVars
  <2>2. tool \in Ways
    BY <2>1 DEF Ways
  <2>3. /\ block.dev = b.src /\ block.sector \in DOMAIN b.disk
        /\ Carried(b, tool, task, io, block, buffer) \/ Brought(b, tool, task, block, buffer)
    BY <2>2 DEF Edited, HeldWay
  <2>4. Carried(b, tool, task, io, block, buffer)
    BY <2>1, <2>3 DEF Brought
  <2>5. block.sector \in AimedBy(b) /\ buffer[b.src] = AskedBy(b, b.disk[block.sector])
    BY <2>1, <2>4 DEF Carried
  <2>6. DOMAIN disk'[b.src] = DOMAIN disk[b.src]
        /\ \A s \in DOMAIN disk[b.src] : disk'[b.src][s] = IF s = block.sector THEN buffer[b.src] ELSE disk[b.src][s]
    BY <2>1, <2>3
  <2>7. \A s \in DOMAIN b.disk : Kept(b, disk'[b.src][s], s)
    BY <2>5, <2>6 DEF HeldDisk, Kept
  <2>8. HeldDisk(b, disk')
    BY <2>6, <2>7 DEF HeldDisk
  <2> QED
    BY <1>1, <2>8
<1> QED
  BY <1>2, <1>3

LEMMA BriefIs ==
    ASSUME NEW b, b = Brief
    PROVE  /\ b.op = task.op /\ b.src = task.src /\ b.disk = original[task.src] /\ b.model = model[task.src]
           /\ HeaderSector(task.src) = HeaderOn(b.model)
BY DEF Brief, HeaderSector, HeaderOn

LEMMA BroughtEdited ==
    ASSUME NEW b, NEW t, NEW y, NEW s \in DOMAIN b.disk, NEW then, NEW bu, NEW p, Fields(p),
           \/ then = "header" /\ s = HeaderOn(b.model) /\ (b.op = "attrib" => p.count = 0 /\ p.seen = {})
           \/ then = "repeat" /\ s \in Again(b)
           \/ /\ then = "mark" /\ s = t.at
              /\ b.op = "attrib" =>
                   /\ Been(b, t, p) /\ p.count > 0 /\ Reached(b, p.count - 1, t.at)
                   /\ b.disk[t.at] \in ListSectors,
           NEW otherwise \in {"give up", "astray"}
    PROVE  Edited(b, "seek", t, y, Sent(2, b.src, s, FALSE, then, otherwise), bu, p)
<1>. DEFINE bl == Sent(2, b.src, s, FALSE, then, otherwise)
<1>1. /\ bl.dev = b.src /\ bl.sector = s /\ bl.writing = FALSE /\ bl.then = then /\ bl.otherwise = otherwise
      /\ "seek" \in Ways
  BY DEF Sent, Ways
<1>. HIDE DEF bl
<1>2. Brought(b, "seek", t, bl, bu)
  BY <1>1 DEF Brought
<1>3. HeldWay(b, "seek", t, y, bl, bu)
  BY <1>1, <1>2 DEF HeldWay
<1>4. HeldWalk(b, "seek", t, bl, p)
  BY <1>1 DEF HeldWalk, Far, AtLink, AtSector
<1>5. HeldHeader(b, "seek", y) /\ HeldRepeat(b, "seek", y, bl) /\ HeldMark(b, "seek", t, y)
  BY DEF HeldHeader, HeldRepeat, HeldMark
<1> QED
  BY <1>3, <1>4, <1>5 DEF Edited, bl

LEMMA CarriedEdited ==
    ASSUME NEW b, NEW t, NEW y, NEW s \in DOMAIN b.disk, s \in AimedBy(b), y = AskedBy(b, b.disk[s]),
           NEW then, NEW bu, NEW p, Fields(p),
           \/ then = "changed" /\ s \in {HeaderOn(b.model)} \cup Again(b)
           \/ /\ then = "follow" /\ s = t.at
              /\ b.op = "attrib" =>
                   /\ Been(b, t, p) /\ p.count > 0 /\ Reached(b, p.count - 1, t.at)
                   /\ b.disk[t.at] \in ListSectors,
           NEW otherwise \in {"give up", "astray"}
    PROVE  Edited(b, "point", t, y, Sent(2, b.src, s, TRUE, then, otherwise), bu, p)
<1>. DEFINE bl == Sent(2, b.src, s, TRUE, then, otherwise)
<1>1. /\ bl.dev = b.src /\ bl.sector = s /\ bl.writing = TRUE /\ bl.then = then /\ bl.otherwise = otherwise
      /\ "point" \in Ways
  BY DEF Sent, Ways
<1>. HIDE DEF bl
<1>2. Carried(b, "point", t, y, bl, bu)
  BY <1>1 DEF Carried
<1>3. HeldWay(b, "point", t, y, bl, bu)
  BY <1>1, <1>2 DEF HeldWay
<1>4. HeldWalk(b, "point", t, bl, p)
  BY <1>1 DEF HeldWalk, Far, AtLink, AtSector
<1>5. HeldHeader(b, "point", y) /\ HeldRepeat(b, "point", y, bl) /\ HeldMark(b, "point", t, y)
  BY DEF HeldHeader, HeldRepeat, HeldMark
<1> QED
  BY <1>3, <1>4, <1>5 DEF Edited, bl

LEMMA OpenHeaderEdited ==
    ASSUME NEW b, b = Brief, GoodDisk(b.model, b.disk), OpenHeader,
           Edited(b, tool, task, io, block, buffer, progress)
    PROVE  Edited(b, tool', task', io', block', buffer', progress')
<1>1. /\ tool = "open" /\ UNCHANGED <<task, io, buffer, progress>>
      /\ \/ tool' = "over"
         \/ /\ tool' = "seek"
            /\ block' = Sent(2, task.src, HeaderSector(task.src), FALSE, "header", "give up")
  BY DEF OpenHeader, Stopped, Transfer, To, Sent, fileVars
<1>2. Fields(progress) /\ (b.op = "attrib" => progress.count = 0 /\ progress.seen = {})
  BY <1>1 DEF Edited, HeldWalk, Far
<1>3. HeaderOn(b.model) \in DOMAIN b.disk
  BY DEF GoodDisk
<1>4. CASE tool' = "over"
  <2>1. "over" \in Resting
    BY DEF Resting
  <2> QED
    BY <1>1, <1>2, <1>4, <2>1, NothingHeld
<1>5. CASE tool' = "seek" /\ block' = Sent(2, task.src, HeaderSector(task.src), FALSE, "header", "give up")
  <2>1. block' = Sent(2, b.src, HeaderOn(b.model), FALSE, "header", "give up")
    BY <1>5, BriefIs
  <2>2. Edited(b, "seek", task, io, Sent(2, b.src, HeaderOn(b.model), FALSE, "header", "give up"), buffer, progress)
    BY <1>2, <1>3, BroughtEdited
  <2> QED
    BY <1>1, <1>5, <2>1, <2>2
<1> QED
  BY <1>1, <1>4, <1>5

LEMMA HeaderTracks ==
    ASSUME NEW b, b.op \in EditOps, GoodDisk(b.model, b.disk), NEW x, Kept(b, x, HeaderOn(b.model))
    PROVE  x.tracks = b.disk[HeaderOn(b.model)].tracks
<1>. DEFINE y == b.disk[HeaderOn(b.model)]
<1>1. DOMAIN y = {"kind", "tracks", "label", "id"}
  BY DEF GoodDisk
<1>2. x = y \/ x = AskedBy(b, y)
  BY DEF Kept
<1>. HIDE DEF y
<1>3. AskedBy(b, y).tracks = y.tracks
  BY <1>1 DEF AskedBy
<1> QED
  BY <1>2, <1>3 DEF y

LEMMA CheckHeaderEdited ==
    ASSUME NEW b, b = Brief, b.op \in EditOps, GoodDisk(b.model, b.disk), CheckHeader, DOMAIN task = TaskFields,
           Edited(b, tool, task, io, block, buffer, progress)
    PROVE  Edited(b, tool', task', io', block', buffer', progress')
<1>1. b.op = task.op
  BY BriefIs
<1>2. /\ tool = "header" /\ UNCHANGED <<io, block, buffer, progress>>
      /\ \/ tool' \in {"over", "identify"}
         \/ tool' = "change" /\ b.op \in {"label", "diskid"}
         \/ /\ tool' = "open list" /\ b.op = "attrib"
            /\ task' = [task EXCEPT !.tracks = io.tracks, !.at = FirstList(io.tracks)]
  BY <1>1 DEF CheckHeader, Stopped, To, EditOps, fileVars
<1>3. /\ Fields(progress) /\ Kept(b, io, HeaderOn(b.model))
      /\ b.op = "attrib" => progress.count = 0 /\ progress.seen = {}
  BY <1>2 DEF Edited, HeldWalk, Far, HeldHeader
<1>4. CASE tool' \in {"over", "identify"}
  <2>1. tool' \in Resting
    BY <1>4 DEF Resting
  <2> QED
    BY <1>2, <1>3, <2>1, NothingHeld
<1>5. CASE tool' = "change" /\ b.op \in {"label", "diskid"}
  <2>1. HeldHeader(b, tool', io') /\ HeldRepeat(b, tool', io', block') /\ HeldMark(b, tool', task', io')
    BY <1>2, <1>3, <1>5 DEF HeldHeader, HeldRepeat, HeldMark
  <2>2. HeldWay(b, tool', task', io', block', buffer') /\ HeldWalk(b, tool', task', block', progress')
    BY <1>5 DEF HeldWay, Ways, HeldWalk
  <2> QED
    BY <1>2, <1>3, <2>1, <2>2 DEF Edited
<1>6. CASE /\ tool' = "open list" /\ b.op = "attrib"
           /\ task' = [task EXCEPT !.tracks = io.tracks, !.at = FirstList(io.tracks)]
  <2>1. io.tracks = b.disk[HeaderOn(b.model)].tracks
    BY <1>3, HeaderTracks
  <2>2. task'.tracks = b.disk[HeaderOn(b.model)].tracks /\ task'.at = FirstOf(b)
    BY <1>6, <2>1 DEF TaskFields, FirstOf
  <2>3. FirstOf(b) \in Nat \X Nat
    BY DEF GoodDisk, FirstOf
  <2>4. Cardinality(DOMAIN b.disk) \in Nat
    BY FS_CardinalityType DEF GoodDisk
  <2>5. progress'.count = 0 /\ progress'.seen = {} /\ Cardinality({}) = 0
    BY <1>2, <1>3, <1>6, FS_EmptySet
  <2>6. Reached(b, 0, FirstOf(b))
    BY <2>4, WalkIs DEF Reached
  <2>7. Been(b, task', progress')
    BY <2>2, <2>5 DEF Been
  <2>8. HeldWalk(b, tool', task', block', progress')
    <3>1. ~Far(tool', block') /\ ~AtSector(tool', block')
      BY <1>6 DEF Far, AtSector, Ways
    <3> QED
      BY <2>2, <2>3, <2>5, <2>6, <2>7, <3>1 DEF HeldWalk
  <2>9. HeldHeader(b, tool', io') /\ HeldRepeat(b, tool', io', block') /\ HeldMark(b, tool', task', io')
        /\ HeldWay(b, tool', task', io', block', buffer')
    BY <1>6 DEF HeldHeader, HeldRepeat, HeldMark, HeldWay, Ways
  <2> QED
    BY <1>2, <1>3, <2>8, <2>9 DEF Edited
<1> QED
  BY <1>2, <1>4, <1>5, <1>6

LEMMA ChangeEdited ==
    ASSUME NEW b, b = Brief, b.op \in {"label", "diskid"}, GoodDisk(b.model, b.disk), Change,
           Edited(b, tool, task, io, block, buffer, progress)
    PROVE  Edited(b, tool', task', io', block', buffer', progress')
<1>1. /\ tool = "change" /\ UNCHANGED <<task, buffer, progress>> /\ io' = Changed(io)
      /\ \/ tool' = "over"
         \/ /\ tool' = "point"
            /\ block' = Sent(2, task.src, HeaderSector(task.src), TRUE, "changed", "give up")
  BY DEF Change, Stopped, Transfer, To, Sent, fileVars
<1>2. Fields(progress) /\ Kept(b, io, HeaderOn(b.model)) /\ b.op # "attrib"
  BY <1>1 DEF Edited, HeldHeader
<1>3. HeaderOn(b.model) \in DOMAIN b.disk /\ b.disk[HeaderOn(b.model)].kind = "header"
  BY DEF GoodDisk
<1>4. CASE tool' = "over"
  <2>1. "over" \in Resting
    BY DEF Resting
  <2> QED
    BY <1>1, <1>2, <1>4, <2>1, NothingHeld
<1>5. CASE tool' = "point" /\ block' = Sent(2, task.src, HeaderSector(task.src), TRUE, "changed", "give up")
  <2>1. block' = Sent(2, b.src, HeaderOn(b.model), TRUE, "changed", "give up") /\ task.op \in EditOps
    BY <1>5, BriefIs DEF EditOps
  <2>2. HeaderOn(b.model) \in AimedBy(b)
    BY <1>2, <1>3 DEF AimedBy
  <2>3. io' = AskedBy(b, b.disk[HeaderOn(b.model)])
    BY <1>1, <1>2, <2>1, <2>2, ChangedIs
  <2>4. Edited(b, "point", task, io', Sent(2, b.src, HeaderOn(b.model), TRUE, "changed", "give up"), buffer, progress)
    BY <1>2, <1>3, <2>2, <2>3, CarriedEdited
  <2> QED
    BY <1>1, <1>5, <2>1, <2>4
<1> QED
  BY <1>1, <1>4, <1>5

LEMMA AgainOn ==
    ASSUME NEW b, GoodDisk(b.model, b.disk), NEW s \in Again(b)
    PROVE  s \in DOMAIN b.disk /\ s \in AimedBy(b)
<1>1. b.op = "diskid" /\ b.model = 3 /\ (s = <<DENSEHEADER, 1>> \/ s = <<DENSEHEADER, 2>>)
  BY DEF Again
<1>2. s \in DOMAIN b.disk /\ b.disk[s].kind = "repeat"
  BY <1>1 DEF GoodDisk
<1> QED
  BY <1>1, <1>2 DEF AimedBy

LEMMA NextCopyEdited ==
    ASSUME NEW b, b = Brief, b.op \in {"label", "diskid"}, GoodDisk(b.model, b.disk), NextCopy,
           Edited(b, tool, task, io, block, buffer, progress)
    PROVE  Edited(b, tool', task', io', block', buffer', progress')
<1>. DEFINE se == block.sector[2] + 1
<1>1. /\ tool = "changed" /\ UNCHANGED <<task, io, buffer, progress>>
      /\ \/ tool' = "initialize"
         \/ /\ se <= Copies /\ tool' = "seek"
            /\ block' = Sent(2, task.src, <<DENSEHEADER, se>>, FALSE, "repeat", "give up")
  BY DEF NextCopy, Transfer, To, Sent, ReadFirst, fileVars
<1>2. Fields(progress) /\ block.sector \in {HeaderOn(b.model)} \cup Again(b) /\ b.op # "attrib"
  BY <1>1 DEF Edited, HeldRepeat
<1>3. CASE tool' = "initialize"
  <2>1. "initialize" \in Resting
    BY DEF Resting
  <2> QED
    BY <1>1, <1>2, <1>3, <2>1, NothingHeld
<1>4. CASE /\ se <= Copies /\ tool' = "seek"
           /\ block' = Sent(2, task.src, <<DENSEHEADER, se>>, FALSE, "repeat", "give up")
  <2>1. block.sector[2] \in {0, 1, 2}
    BY <1>2 DEF HeaderOn, Again
  <2>2. b.op = "diskid" /\ b.model = 3 /\ se <= 2
    <3>1. Copies = IF b.op = "diskid" /\ b.model = 3 THEN 2 ELSE 0
      BY BriefIs DEF Copies
    <3>2. se >= 1
      BY <2>1
    <3>3. se <= Copies
      BY <1>4
    <3>4. ASSUME Copies = 0 PROVE FALSE
      <4>1. se <= 0
        BY <3>3, <3>4
      <4> QED
        BY <2>1, <4>1
    <3>5. Copies = 2 /\ b.op = "diskid" /\ b.model = 3
      BY <3>1, <3>4
    <3> QED
      BY <3>3, <3>5
  <2>3. se = 1 \/ se = 2
    BY <2>1, <2>2
  <2>. HIDE DEF se
  <2>4. <<DENSEHEADER, se>> \in Again(b)
    BY <2>2, <2>3 DEF Again
  <2>5. <<DENSEHEADER, se>> \in DOMAIN b.disk
    BY <2>4, AgainOn
  <2>6. block' = Sent(2, b.src, <<DENSEHEADER, se>>, FALSE, "repeat", "give up")
    BY <1>4, BriefIs
  <2>7. Edited(b, "seek", task, io, Sent(2, b.src, <<DENSEHEADER, se>>, FALSE, "repeat", "give up"), buffer, progress)
    BY <1>2, <2>4, <2>5, BroughtEdited
  <2> QED
    BY <1>1, <1>4, <2>6, <2>7
<1> QED
  BY <1>1, <1>3, <1>4

LEMMA ChangeCopyEdited ==
    ASSUME NEW b, b = Brief, b.op \in {"label", "diskid"}, GoodDisk(b.model, b.disk), ChangeCopy,
           Edited(b, tool, task, io, block, buffer, progress)
    PROVE  Edited(b, tool', task', io', block', buffer', progress')
<1>1. /\ tool = "repeat" /\ UNCHANGED <<task, buffer, progress>> /\ io' = Changed(io)
      /\ tool' = "point" /\ block' = Sent(2, task.src, block.sector, TRUE, "changed", "give up")
  BY DEF ChangeCopy, Transfer, To, Sent, fileVars
<1>2. Fields(progress) /\ block.sector \in Again(b) /\ Kept(b, io, block.sector) /\ b.op # "attrib"
  BY <1>1 DEF Edited, HeldRepeat
<1>. DEFINE s == block.sector
<1>3. s \in DOMAIN b.disk /\ s \in AimedBy(b)
  BY <1>2, AgainOn
<1>4. io' = AskedBy(b, b.disk[s])
  <2>1. task.op \in EditOps
    BY BriefIs DEF EditOps
  <2> QED
    BY <1>1, <1>2, <1>3, <2>1, ChangedIs
<1>5. block' = Sent(2, b.src, s, TRUE, "changed", "give up")
  BY <1>1, BriefIs
<1>6. s \in {HeaderOn(b.model)} \cup Again(b)
  BY <1>2
<1>. HIDE DEF s
<1>7. Edited(b, "point", task, io', Sent(2, b.src, s, TRUE, "changed", "give up"), buffer, progress)
  BY <1>2, <1>3, <1>4, <1>6, CarriedEdited
<1> QED
  BY <1>1, <1>5, <1>7

-----------------------------------------------------------------------------
(* ATTRIB along the directory                                              *)

LEMMA ChainHas ==
    ASSUME NEW d, NEW s, IsFiniteSet(DOMAIN d), NEW k \in Nat, k < Cardinality(DOMAIN d),
           \A i \in 0..k : Walk(d, s)[i] \in DOMAIN d
    PROVE  \E i \in DOMAIN Chain(d, s).sectors : Chain(d, s).sectors[i] = Walk(d, s)[k]
<1>. DEFINE w == Walk(d, s)
            most == Cardinality(DOMAIN d)
            S == {n \in 0..most - 1 : w[n] \in DOMAIN d}
            steps == Cardinality(S)
<1>1. most \in Nat
  BY FS_CardinalityType
<1>2. Chain(d, s).sectors = [n \in 1..steps |-> w[n - 1]]
  BY DEF Chain
<1>3. IsFiniteSet(S)
  <2>1. IsFiniteSet(0..most - 1)
    <3>. DEFINE u == most - 1
    <3>1. u \in Int /\ 0 \in Int
      BY <1>1
    <3>. HIDE DEF u
    <3>2. IsFiniteSet(0..u)
      BY <3>1, FS_Interval
    <3> QED
      BY <3>2 DEF u
  <2> QED
    BY <2>1, FS_Subset
<1>4. 0..k \subseteq S
  BY <1>1
<1>5. Cardinality(0..k) = k + 1
  BY FS_Interval
<1>6. steps \in Nat /\ k + 1 <= steps
  <2>. HIDE DEF S
  <2>1. Cardinality(0..k) <= Cardinality(S) /\ Cardinality(S) \in Nat
    BY <1>3, <1>4, FS_Subset, FS_CardinalityType
  <2> QED
    BY <1>5, <2>1
<1>. HIDE DEF steps, w
<1>7. k + 1 \in 1..steps /\ (k + 1) - 1 = k
  BY <1>6
<1>8. k + 1 \in DOMAIN Chain(d, s).sectors /\ Chain(d, s).sectors[k + 1] = w[k]
  BY <1>2, <1>7
<1> QED
  BY <1>8 DEF w

LEMMA SectorAimed ==
    ASSUME NEW b, b.op = "attrib", GoodDisk(b.model, b.disk), NEW t, NEW p, Been(b, t, p),
           Reached(b, p.count - 1, t.at), p.count > 0, t.at \in DOMAIN b.disk
    PROVE  t.at \in AimedBy(b) /\ p.count \in Nat /\ p.count <= Cardinality(DOMAIN b.disk)
<1>. DEFINE w == Walk(b.disk, FirstOf(b))
            k == p.count - 1
<1>1. IsFiniteSet(DOMAIN b.disk)
  BY DEF GoodDisk
<1>2. Cardinality(DOMAIN b.disk) \in Nat /\ Cardinality(p.seen) <= Cardinality(DOMAIN b.disk) /\ Cardinality(p.seen) \in Nat
  BY <1>1, FS_Subset, FS_CardinalityType DEF Been
<1>3. p.count \in Nat /\ p.count <= Cardinality(DOMAIN b.disk)
  BY <1>2 DEF Been
<1>4. k \in Nat /\ k < Cardinality(DOMAIN b.disk)
  BY <1>2, <1>3
<1>5. w[k] = t.at /\ \A i \in 0..k - 1 : w[i] \in DOMAIN b.disk
  BY DEF Reached
<1>. HIDE DEF k, w
<1>6. \A i \in 0..k : w[i] \in DOMAIN b.disk
  BY <1>4, <1>5
<1>7. \E i \in DOMAIN Chain(b.disk, FirstOf(b)).sectors : Chain(b.disk, FirstOf(b)).sectors[i] = t.at
  BY <1>1, <1>4, <1>5, <1>6, ChainHas DEF w
<1>8. t.at \in AimedBy(b)
  BY <1>7 DEF AimedBy
<1> QED
  BY <1>3, <1>8

LEMMA OpenListEdited ==
    ASSUME NEW b, OpenList, Edited(b, tool, task, io, block, buffer, progress)
    PROVE  Edited(b, tool', task', io', block', buffer', progress')
<1>1. /\ tool = "open list" /\ UNCHANGED <<task, io, block, buffer, progress>> /\ tool' \in {"list", "over"}
  BY DEF OpenList, To, Stopped, fileVars
<1>2. Fields(progress) /\ HeldWalk(b, "open list", task, block, progress)
  BY <1>1 DEF Edited
<1>3. CASE tool' = "over"
  <2>1. "over" \in Resting
    BY DEF Resting
  <2> QED
    BY <1>1, <1>2, <1>3, <2>1, NothingHeld
<1>4. CASE tool' = "list"
  <2>1. HeldWalk(b, "list", task, block, progress)
    BY <1>2 DEF HeldWalk, Far, AtLink, AtSector, Ways
  <2>2. HeldHeader(b, "list", io) /\ HeldRepeat(b, "list", io, block) /\ HeldMark(b, "list", task, io)
        /\ HeldWay(b, "list", task, io, block, buffer)
    BY DEF HeldHeader, HeldRepeat, HeldMark, HeldWay, Ways
  <2> QED
    BY <1>1, <1>2, <1>4, <2>1, <2>2 DEF Edited
<1> QED
  BY <1>1, <1>3, <1>4

LEMMA NextListEdited ==
    ASSUME NEW b, b = Brief, b.op = "attrib", GoodDisk(b.model, b.disk), NextList,
           Edited(b, tool, task, io, block, buffer, progress)
    PROVE  Edited(b, tool', task', io', block', buffer', progress')
<1>. DEFINE s == task.at
<1>1. /\ tool = "list" /\ UNCHANGED <<task, io, buffer>>
      /\ \/ tool' \in {"listed", "astray"} /\ UNCHANGED progress
         \/ /\ ~Astray(s) /\ tool' = "seek" /\ block' = Sent(2, task.src, s, FALSE, "mark", "astray")
            /\ progress' = [progress EXCEPT !.seen = @ \cup {s}, !.count = @ + 1]
  BY BriefIs DEF NextList, Transfer, To, Sent
<1>2. /\ Fields(progress) /\ Been(b, task, progress) /\ Reached(b, progress.count, s) /\ s \in Nat \X Nat
  BY <1>1 DEF Edited, HeldWalk, AtLink
<1>3. CASE tool' \in {"listed", "astray"} /\ UNCHANGED progress
  <2>1. tool' \in Resting /\ tool' \notin {"identify", "mode", "open"}
    BY <1>3 DEF Resting
  <2> QED
    BY <1>2, <1>3, <2>1, NothingHeld
<1>4. CASE /\ ~Astray(s) /\ tool' = "seek" /\ block' = Sent(2, task.src, s, FALSE, "mark", "astray")
           /\ progress' = [progress EXCEPT !.seen = @ \cup {s}, !.count = @ + 1]
  <2>1. /\ s[1] = FirstList(task.tracks)[1] /\ ~(s[2] >= TrackSectors(s[1], task.tracks))
        /\ ~(s[2] < FirstList(task.tracks)[2]) /\ s \notin progress.seen
    BY <1>4, BriefIs DEF Astray, OffTheDisk
  <2>2. task.tracks = b.disk[HeaderOn(b.model)].tracks /\ progress.seen \subseteq DOMAIN b.disk
        /\ Cardinality(progress.seen) = progress.count
    BY <1>2 DEF Been
  <2>3. FirstList(task.tracks) \in Nat \X Nat /\ IsFiniteSet(DOMAIN b.disk)
    BY <2>2 DEF GoodDisk
  <2>4. s[2] >= FirstList(task.tracks)[2]
    BY <1>2, <2>1, <2>3
  <2>5. s \in DOMAIN b.disk /\ b.disk[s] \in ListSectors
    BY <1>2, <2>1, <2>2, <2>4 DEF GoodDisk
  <2>6. progress'.seen = progress.seen \cup {s} /\ progress'.count = progress.count + 1 /\ Fields(progress')
    BY <1>2, <1>4 DEF Fields
  <2>7. progress.count \in Nat
    BY <1>2, <2>3, FS_CardinalityType DEF Reached
  <2>8. Cardinality(progress.seen \cup {s}) = progress.count + 1
    BY <2>2, <2>3, <2>1, FS_Subset, FS_AddElement
  <2>9. Been(b, task, progress')
    BY <2>2, <2>5, <2>6, <2>8 DEF Been
  <2>10. progress'.count > 0 /\ progress'.count - 1 = progress.count
    BY <2>6, <2>7
  <2>11. Reached(b, progress'.count - 1, s)
    BY <1>2, <2>10
  <2>12. block' = Sent(2, b.src, s, FALSE, "mark", "astray")
    BY <1>4, BriefIs
  <2>13. Edited(b, "seek", task, io, Sent(2, b.src, s, FALSE, "mark", "astray"), buffer, progress')
    BY <2>5, <2>6, <2>9, <2>10, <2>11, BroughtEdited
  <2> QED
    BY <1>1, <1>4, <2>12, <2>13
<1> QED
  BY <1>1, <1>3, <1>4

LEMMA MarkEdited ==
    ASSUME NEW b, b = Brief, b.op = "attrib", GoodDisk(b.model, b.disk), Mark, tool = "mark",
           Edited(b, tool, task, io, block, buffer, progress)
    PROVE  Edited(b, tool', task', io', block', buffer', progress')
<1>. DEFINE s == task.at
<1>1. /\ UNCHANGED <<task, buffer>> /\ io' = Changed(io)
      /\ \E found : progress' = [progress EXCEPT !.found = found]
      /\ \/ tool' \in {"follow", "listed"} /\ UNCHANGED block
         \/ tool' = "point" /\ block' = Sent(2, task.src, s, TRUE, "follow", "astray")
  BY DEF Mark, Transfer, To, Sent
<1>2. /\ Fields(progress) /\ Been(b, task, progress) /\ progress.count > 0 /\ Reached(b, progress.count - 1, s)
      /\ s \in DOMAIN b.disk /\ b.disk[s] \in ListSectors /\ Kept(b, io, s)
  BY DEF Edited, HeldWalk, HeldMark, AtSector
<1>3. s \in AimedBy(b)
  BY <1>2, SectorAimed
<1>4. io' = AskedBy(b, b.disk[s])
  <2>1. task.op \in EditOps
    BY BriefIs DEF EditOps
  <2> QED
    BY <1>1, <1>2, <1>3, <2>1, ChangedIs
<1>5. Fields(progress') /\ progress'.seen = progress.seen /\ progress'.count = progress.count
  BY <1>1, <1>2 DEF Fields
<1>6. Been(b, task, progress') /\ progress'.count > 0 /\ Reached(b, progress'.count - 1, s)
  BY <1>2, <1>5 DEF Been
<1>7. CASE tool' = "listed"
  <2>1. tool' \in Resting /\ tool' \notin {"identify", "mode", "open"}
    BY <1>7 DEF Resting
  <2> QED
    BY <1>5, <2>1, NothingHeld
<1>8. CASE tool' = "follow"
  <2>1. HeldWalk(b, "follow", task, block', progress')
    BY <1>2, <1>6 DEF HeldWalk, Far, AtLink, Ways
  <2>2. HeldMark(b, "follow", task, io')
    BY <1>3, <1>4 DEF HeldMark, Kept
  <2>3. /\ HeldHeader(b, "follow", io') /\ HeldRepeat(b, "follow", io', block')
        /\ HeldWay(b, "follow", task, io', block', buffer')
    BY DEF HeldHeader, HeldRepeat, HeldWay, Ways
  <2> QED
    BY <1>1, <1>5, <1>8, <2>1, <2>2, <2>3 DEF Edited
<1>9. CASE tool' = "point" /\ block' = Sent(2, task.src, s, TRUE, "follow", "astray")
  <2>1. block' = Sent(2, b.src, s, TRUE, "follow", "astray")
    BY <1>9, BriefIs
  <2>2. Edited(b, "point", task, io', Sent(2, b.src, s, TRUE, "follow", "astray"), buffer, progress')
    BY <1>2, <1>3, <1>4, <1>5, <1>6, CarriedEdited
  <2> QED
    BY <1>1, <1>9, <2>1, <2>2
<1> QED
  BY <1>1, <1>7, <1>8, <1>9

LEMMA FollowEdited ==
    ASSUME NEW b, b.op = "attrib", GoodDisk(b.model, b.disk), DOMAIN task = TaskFields, Mark, tool = "follow",
           Edited(b, tool, task, io, block, buffer, progress)
    PROVE  Edited(b, tool', task', io', block', buffer', progress')
<1>. DEFINE s == task.at
            n == progress.count
<1>1. /\ task' = [task EXCEPT !.at = io.next] /\ tool' = "list" /\ UNCHANGED <<buffer, io, block, progress>>
  BY DEF Mark, To, fileVars
<1>2. /\ Fields(progress) /\ Been(b, task, progress) /\ n > 0 /\ Reached(b, n - 1, s)
      /\ s \in DOMAIN b.disk /\ b.disk[s] \in ListSectors /\ Kept(b, io, s)
  BY DEF Edited, HeldWalk, HeldMark, AtSector
<1>3. n \in Nat /\ n <= Cardinality(DOMAIN b.disk) /\ Cardinality(DOMAIN b.disk) \in Nat
  BY <1>2, SectorAimed, FS_CardinalityType DEF GoodDisk
<1>4. io.next = b.disk[s].next /\ io.next \in Nat \X Nat
  <2>. DEFINE y == b.disk[s]
  <2>1. y \in ListSectors /\ (io = y \/ io = AskedBy(b, y))
    BY <1>2 DEF Kept
  <2>. HIDE DEF y
  <2>2. AskedBy(b, y).next = y.next
    BY <2>1 DEF AskedBy, ListSectors
  <2>3. y.next \in Nat \X Nat
    BY <2>1 DEF ListSectors
  <2> QED
    BY <2>1, <2>2, <2>3 DEF y
<1>5. task'.at = io.next /\ task'.tracks = task.tracks
  BY <1>1 DEF TaskFields
<1>. DEFINE w == Walk(b.disk, FirstOf(b))
<1>6. w[n] = b.disk[s].next
  BY <1>2, <1>3, WalkIs DEF Reached, NextOf
<1>7. \A i \in 0..n - 1 : w[i] \in DOMAIN b.disk
  <2>1. w[n - 1] \in DOMAIN b.disk /\ \A i \in 0..(n - 1) - 1 : w[i] \in DOMAIN b.disk
    BY <1>2 DEF Reached
  <2>. HIDE DEF w
  <2>2. \A i \in 0..n - 1 : i = n - 1 \/ i \in 0..(n - 1) - 1
    BY <1>3
  <2> QED
    BY <2>1, <2>2
<1>8. Reached(b, n, task'.at)
  BY <1>3, <1>4, <1>5, <1>6, <1>7 DEF Reached
<1>9. Been(b, task', progress)
  BY <1>2, <1>5 DEF Been
<1>10. HeldWalk(b, "list", task', block, progress)
  BY <1>4, <1>5, <1>8, <1>9 DEF Far, AtSector, Ways, HeldWalk
<1>11. HeldHeader(b, "list", io) /\ HeldRepeat(b, "list", io, block) /\ HeldMark(b, "list", task', io)
       /\ HeldWay(b, "list", task', io, block, buffer)
  BY DEF HeldHeader, HeldRepeat, HeldMark, HeldWay, Ways
<1> QED
  BY <1>1, <1>2, <1>10, <1>11 DEF Edited

LEMMA SteadyEdited ==
    ASSUME NEW b, b = Brief, b.op \in EditOps, GoodDisk(b.model, b.disk), Staged(tool, task, block), Steady,
           Edited(b, tool, task, io, block, buffer, progress)
    PROVE  Edited(b, tool', task', io', block', buffer', progress')
<1>1. task.op = b.op /\ task.op \in DiskOps /\ DOMAIN task = TaskFields /\ tool \in Stages(task.op)
  BY BriefIs, SteadyDrives DEF Staged, TaskTyped
<1>2. CASE OpenHeader
  BY <1>2, OpenHeaderEdited
<1>3. CASE CheckHeader
  BY <1>1, <1>3, CheckHeaderEdited
<1>4. CASE Change
  <2>1. b.op \in {"label", "diskid"}
    BY <1>1, <1>4, StagesOf DEF Change
  <2> QED
    BY <1>4, <2>1, ChangeEdited
<1>5. CASE NextCopy
  <2>1. b.op \in {"label", "diskid"}
    BY <1>1, <1>5, StagesOf DEF NextCopy
  <2> QED
    BY <1>5, <2>1, NextCopyEdited
<1>6. CASE ChangeCopy
  <2>1. b.op \in {"label", "diskid"}
    BY <1>1, <1>6, StagesOf DEF ChangeCopy
  <2> QED
    BY <1>6, <2>1, ChangeCopyEdited
<1>7. CASE OpenList
  BY <1>7, OpenListEdited
<1>8. CASE NextList
  <2>1. b.op = "attrib"
    BY <1>1, <1>8, StagesOf DEF NextList, EditOps
  <2> QED
    BY <1>8, <2>1, NextListEdited
<1>9. CASE Mark
  <2>1. tool = "mark" \/ tool = "follow"
    BY <1>9 DEF Mark
  <2>2. b.op = "attrib"
    BY <1>1, <2>1, StagesOf DEF EditOps
  <2> QED
    BY <1>1, <1>9, <2>1, <2>2, MarkEdited, FollowEdited
<1>10. CASE OpenBoth \/ ReadSector \/ WriteSector \/ NextSector \/ CloseBoth
  <2>1. tool \in {"open first", "open second", "read", "write", "written", "whole", "broken"}
    BY <1>10 DEF OpenBoth, ReadSector, WriteSector, NextSector, CloseBoth
  <2>2. task.op = "diskcopy"
    BY <1>1, <2>1, StagesOf
  <2> QED
    BY <1>1, <2>2 DEF EditOps
<1>11. CASE SeekRelative \/ OpenRelative \/ NextBlock \/ Spread \/ Position \/ PutRecord
  <2>1. tool \in {"search", "reopen", "open relative", "block", "spread", "position", "put"}
    BY <1>11 DEF SeekRelative, OpenRelative, NextBlock, Spread, Position, PutRecord
  <2>2. task.op = "copyrel"
    BY <1>1, <2>1, StagesOf
  <2> QED
    BY <1>1, <2>2 DEF EditOps
<1> QED
  BY <1>2, <1>3, <1>4, <1>5, <1>6, <1>7, <1>8, <1>9, <1>10, <1>11 DEF Steady

-----------------------------------------------------------------------------
(* The whole of it                                                         *)

EditHeld == task.op \in EditOps => HeldDisk(Brief, disk) /\ Edited(Brief, tool, task, io, block, buffer, progress)

DiskInv ==
    /\ Drives(disk, original, buffer)
    /\ \A v \in Disks : GoodDisk(model[v], original[v])
    /\ tool = "ready" => disk = original
    /\ tool # "ready" => Staged(tool, task, block) /\ OthersAsBefore(task, disk, original) /\ EditHeld

LEMMA DiskInvStarts == DiskInit => DiskInv
<1>. SUFFICES ASSUME DiskInit PROVE DiskInv
  OBVIOUS
<1>1. model \in [Disks -> 0..3] /\ original = disk /\ tool = "ready" /\ DOMAIN buffer = Disks
  BY DiskAssumption DEF DiskInit
<1>2. PICK size \in [Disks -> {SIDE, 2 * SIDE, DENSE}] :
        /\ \A d \in Disks : size[d] \in Sizes(model[d])
        /\ disk = [d \in Disks |-> Disk(size[d], "old", "id", d, Catalog[d])]
  BY DEF DiskInit
<1>3. ASSUME NEW v \in Disks PROVE GoodDisk(model[v], original[v])
  BY <1>1, <1>2, DiskAssumption, DiskIsGood
<1>4. DOMAIN disk = Disks
  BY <1>2
<1> QED
  BY <1>1, <1>3, <1>4 DEF DiskInv, Drives

LEMMA CommandStarts ==
    ASSUME Command
    PROVE  /\ tool = "ready" /\ TaskTyped(task') /\ tool' \in Stages(task'.op)
           /\ task'.op \in EditOps => tool' \in {"identify", "find"}
           /\ UNCHANGED <<model, disk, buffer>> /\ original' = disk /\ progress' = NoProgress
<1>1. /\ tool = "ready"
      /\ UNCHANGED <<model, disk, buffer>> /\ original' = disk /\ progress' = NoProgress
  BY DEF Command, Start
<1>2. PICK dev \in Disks, label \in Labels, id \in Ids :
        \/ Start(Task("format", dev, dev, label, id), "identify")
        \/ Start(Task("label", dev, dev, label, ""), "identify")
        \/ Start([Task("label", dev, dev, label, "") EXCEPT !.ok = FALSE], "find")
        \/ Start(Task("diskid", dev, dev, "", id), "identify")
        \/ \E dst \in Disks \ {dev} : Start(Task("diskcopy", dev, dst, "mcs-copy", ""), "first")
        \/ Start(Task("vol", dev, dev, "", ""), "find")
        \/ \E begin \in {"find", "validate"} : Start(Task("chkdsk", dev, dev, "", ""), begin)
        \/ Start(Task("diskinit", dev, dev, "", ""), "initialize")
        \/ \E names \in Patterns, mark \in {"locked", "unlocked", "shown"} :
             Start([Task("attrib", dev, dev, "", "") EXCEPT !.names = names, !.mark = mark], "identify")
        \/ \E dst \in Disks, name \in RelNames(disk[dev]) :
             Start([Task("copyrel", dev, dst, "", "") EXCEPT !.names = {name}], "find")
  BY DEF Command
<1>. DEFINE Launched(op, dst, x) ==
              /\ DOMAIN task' = TaskFields /\ task'.op = op /\ task'.src = dev /\ task'.dst = dst /\ tool' = x
<1>3. \/ \E op \in {"format", "label", "diskid", "attrib"} : Launched(op, dev, "identify")
      \/ \E op \in {"label", "vol", "chkdsk"} : Launched(op, dev, "find")
      \/ \E dst \in Disks : Launched("diskcopy", dst, "first") \/ Launched("copyrel", dst, "find")
      \/ Launched("chkdsk", dev, "validate") \/ Launched("diskinit", dev, "initialize")
  <2>1. CASE Start(Task("format", dev, dev, label, id), "identify")
    <3>1. Launched("format", dev, "identify")
      BY <2>1 DEF Start, Task, TaskFields
    <3>. HIDE DEF Launched
    <3> QED
      BY <3>1
  <2>2. CASE Start(Task("label", dev, dev, label, ""), "identify")
    <3>1. Launched("label", dev, "identify")
      BY <2>2 DEF Start, Task, TaskFields
    <3>. HIDE DEF Launched
    <3> QED
      BY <3>1
  <2>3. CASE Start([Task("label", dev, dev, label, "") EXCEPT !.ok = FALSE], "find")
    <3>1. Launched("label", dev, "find")
      BY <2>3 DEF Start, Task, TaskFields
    <3>. HIDE DEF Launched
    <3> QED
      BY <3>1
  <2>4. CASE Start(Task("diskid", dev, dev, "", id), "identify")
    <3>1. Launched("diskid", dev, "identify")
      BY <2>4 DEF Start, Task, TaskFields
    <3>. HIDE DEF Launched
    <3> QED
      BY <3>1
  <2>5. CASE \E dst \in Disks \ {dev} : Start(Task("diskcopy", dev, dst, "mcs-copy", ""), "first")
    <3>1. \E dst \in Disks : Launched("diskcopy", dst, "first")
      <4>1. PICK dst \in Disks : Start(Task("diskcopy", dev, dst, "mcs-copy", ""), "first")
        BY <2>5
      <4>2. Launched("diskcopy", dst, "first")
        BY <4>1 DEF Start, Task, TaskFields
      <4> QED
        BY <4>2
    <3>. HIDE DEF Launched
    <3> QED
      BY <3>1
  <2>6. CASE Start(Task("vol", dev, dev, "", ""), "find")
    <3>1. Launched("vol", dev, "find")
      BY <2>6 DEF Start, Task, TaskFields
    <3>. HIDE DEF Launched
    <3> QED
      BY <3>1
  <2>7. CASE \E begin \in {"find", "validate"} : Start(Task("chkdsk", dev, dev, "", ""), begin)
    <3>1. Launched("chkdsk", dev, "find") \/ Launched("chkdsk", dev, "validate")
      <4>1. PICK begin \in {"find", "validate"} : Start(Task("chkdsk", dev, dev, "", ""), begin)
        BY <2>7
      <4>2. task' = Task("chkdsk", dev, dev, "", "") /\ tool' = begin
        BY <4>1 DEF Start
      <4>3. Launched("chkdsk", dev, begin)
        BY <4>2 DEF Task, TaskFields
      <4>. HIDE DEF Launched
      <4> QED
        BY <4>1, <4>3
    <3>. HIDE DEF Launched
    <3> QED
      BY <3>1
  <2>8. CASE Start(Task("diskinit", dev, dev, "", ""), "initialize")
    <3>1. Launched("diskinit", dev, "initialize")
      BY <2>8 DEF Start, Task, TaskFields
    <3>. HIDE DEF Launched
    <3> QED
      BY <3>1
  <2>9. CASE \E names \in Patterns, mark \in {"locked", "unlocked", "shown"} :
             Start([Task("attrib", dev, dev, "", "") EXCEPT !.names = names, !.mark = mark], "identify")
    <3>1. Launched("attrib", dev, "identify")
      BY <2>9 DEF Start, Task, TaskFields
    <3>. HIDE DEF Launched
    <3> QED
      BY <3>1
  <2>10. CASE \E dst \in Disks, name \in RelNames(disk[dev]) :
             Start([Task("copyrel", dev, dst, "", "") EXCEPT !.names = {name}], "find")
    <3>1. \E dst \in Disks : Launched("copyrel", dst, "find")
      BY <2>10 DEF Start, Task, TaskFields
    <3>. HIDE DEF Launched
    <3> QED
      BY <3>1
  <2> QED
    BY <1>2, <2>1, <2>2, <2>3, <2>4, <2>5, <2>6, <2>7, <2>8, <2>9, <2>10
<1>4. PICK op, dst, x : Launched(op, dst, x) /\ dst \in Disks
        /\ \/ op \in {"format", "label", "diskid", "attrib"} /\ dst = dev /\ x = "identify"
           \/ op \in {"label", "vol", "chkdsk"} /\ dst = dev /\ x = "find"
           \/ op = "diskcopy" /\ x = "first"
           \/ op = "copyrel" /\ x = "find"
           \/ op = "chkdsk" /\ x = "validate"
           \/ op = "diskinit" /\ x = "initialize"
  <2>. HIDE DEF Launched
  <2> QED
    BY <1>3
<1>5. TaskTyped(task')
  BY <1>4 DEF TaskTyped, DiskOps, EditOps
<1>6. tool' \in Stages(task'.op)
  BY <1>4 DEF Stages, HeaderStages, ListStages
<1>7. task'.op \in EditOps => tool' \in {"identify", "find"}
  BY <1>4 DEF EditOps
<1> QED
  BY <1>1, <1>5, <1>6, <1>7

LEMMA CommandHeld ==
    ASSUME DiskInv, Command
    PROVE  DiskInv'
<1>1. /\ tool = "ready" /\ TaskTyped(task') /\ tool' \in Stages(task'.op)
      /\ task'.op \in EditOps => tool' \in {"identify", "find"}
      /\ UNCHANGED <<model, disk, buffer>> /\ original' = disk /\ progress' = NoProgress
  BY CommandStarts
<1>2. disk = original /\ original' = original
  BY <1>1 DEF DiskInv
<1>3. tool' \notin Ways /\ tool' # "ready"
  BY <1>1, StagesApart DEF TaskTyped
<1>4. Staged(tool', task', block')
  BY <1>1, <1>3 DEF Staged
<1>5. OthersAsBefore(task', disk', original')
  BY <1>1, <1>2 DEF OthersAsBefore
<1>6. ASSUME NEW b, b = Brief', task'.op \in EditOps
      PROVE  HeldDisk(b, disk') /\ Edited(b, tool', task', io', block', buffer', progress')
  <2>1. b.src = task'.src /\ b.disk = original'[task'.src]
    BY <1>6 DEF Brief
  <2>2. disk'[b.src] = b.disk
    BY <1>1, <2>1
  <2>3. HeldDisk(b, disk')
    BY <2>2 DEF HeldDisk, Kept
  <2>4. Fields(progress') /\ progress'.count = 0 /\ progress'.seen = {} /\ tool' \in Resting
    BY <1>1, <1>6 DEF Fields, NoProgress, Resting
  <2> QED
    BY <2>3, <2>4, NothingHeld
<1>7. EditHeld'
  BY <1>6 DEF EditHeld
<1> QED
  BY <1>1, <1>2, <1>3, <1>4, <1>5, <1>7 DEF DiskInv, Drives

LEMMA BriefLasts ==
    ASSUME task.op \in EditOps, SameTask(task, task'), UNCHANGED <<original, model>>
    PROVE  Brief' = Brief
BY DEF SameTask, Brief

LEMMA DiskStep ==
    ASSUME DiskInv, DiskNext
    PROVE  DiskInv'
<1>1. CASE Command
  BY <1>1, CommandHeld
<1>2. CASE Talks \/ Steady \/ Block \/ FormatDisk
  <2>1. tool # "ready"
    <3>1. CASE Steady
      <4>1. tool \in {"open", "header", "change", "changed", "repeat", "open first", "open second", "read", "write",
                      "written", "whole", "broken", "open list", "list", "mark", "follow", "search", "reopen",
                      "open relative", "block", "spread", "position", "put"}
        BY <3>1 DEF Steady, OpenHeader, CheckHeader, Change, NextCopy, ChangeCopy, OpenBoth, ReadSector, WriteSector,
                    NextSector, CloseBoth, OpenList, NextList, Mark, SeekRelative, OpenRelative, NextBlock,
                    Spread, Position, PutRecord
      <4> QED
        BY <4>1
    <3>2. CASE Talks
      BY <3>2 DEF Talks, IdentifyBoth, IdentifyDrive, Mode, GiveUp, Initialize, Agree, Side, Settle, EndList, Validate,
                  List, Prepare, CloseRelative
    <3>3. CASE Block \/ FormatDisk
      BY <3>3 DEF Block, Point, Fill, Seek, Fetch, FormatDisk
    <3> QED
      BY <1>2, <3>1, <3>2, <3>3
  <2>2. Staged(tool, task, block) /\ OthersAsBefore(task, disk, original) /\ EditHeld /\ Drives(disk, original, buffer)
    BY <2>1 DEF DiskInv
  <2>3. Staged(tool', task', block') /\ SameTask(task, task') /\ UNCHANGED <<original, model>>
    BY <1>2, <2>2, QuietStaged, SteadyStaged, BlockStaged, FormatStaged DEF diskVars
  <2>4. Drives(disk', original', buffer') /\ OthersAsBefore(task', disk', original')
    <3>1. CASE Block \/ FormatDisk
      BY <2>2, <3>1, OthersStep
    <3>2. CASE Talks \/ Steady
      BY <2>2, <3>2, <2>3, QuietStaged, SteadyStaged, OthersKept DEF diskVars
    <3> QED
      BY <1>2, <3>1, <3>2
  <2>5. tool' # "ready"
    BY <2>3, StagesApart DEF Staged, TaskTyped, Ways
  <2>6. ASSUME NEW b, b = Brief, task.op \in EditOps
        PROVE  HeldDisk(b, disk') /\ Edited(b, tool', task', io', block', buffer', progress')
    <3>1. b.op = task.op /\ b.src = task.src /\ b.src \in Disks /\ b.disk = original[b.src] /\ b.model = model[b.src]
      BY <2>2, <2>6, BriefIs DEF Staged, TaskTyped
    <3>2. GoodDisk(b.model, b.disk)
      BY <3>1 DEF DiskInv
    <3>3. HeldDisk(b, disk) /\ Edited(b, tool, task, io, block, buffer, progress)
      BY <2>2, <2>6 DEF EditHeld
    <3>4. CASE Talks
      BY <2>2, <3>4, <2>6, <3>1, <3>3, QuietStaged, QuietEdited DEF diskVars
    <3>5. CASE Steady
      <4>1. disk' = disk
        BY <3>5, SteadyDrives
      <4> QED
        BY <2>2, <2>6, <3>1, <3>2, <3>3, <3>5, <4>1, SteadyEdited
    <3>6. CASE Block
      BY <2>2, <3>1, <3>3, <3>6, BlockHeld DEF Drives
    <3>7. CASE FormatDisk
      BY <2>2, <3>7, <2>6, FormatStaged DEF EditOps
    <3> QED
      BY <1>2, <3>4, <3>5, <3>6, <3>7
  <2>7. EditHeld'
    <3>1. ASSUME task'.op \in EditOps
          PROVE  HeldDisk(Brief', disk') /\ Edited(Brief', tool', task', io', block', buffer', progress')
      BY <2>3, <3>1, <2>6, BriefLasts DEF SameTask
    <3> QED
      BY <3>1 DEF EditHeld
  <2>8. \A v \in Disks : GoodDisk(model'[v], original'[v])
    BY <2>3 DEF DiskInv
  <2> QED
    BY <2>3, <2>4, <2>5, <2>7, <2>8 DEF DiskInv
<1> QED
  BY <1>1, <1>2 DEF DiskNext, Talks, Steady

LEMMA DiskStutters ==
    ASSUME DiskInv, UNCHANGED toolVars
    PROVE  DiskInv'
BY DEF DiskInv, toolVars, diskVars, fileVars, EditHeld, Brief

LEMMA DiskInvMeans == DiskInv => OnlyWhatWasAsked
<1>. SUFFICES ASSUME DiskInv, disk # original
              PROVE  OnlyWhatWasAsked
  BY DEF OnlyWhatWasAsked
<1>1. Staged(tool, task, block) /\ OthersAsBefore(task, disk, original) /\ EditHeld
  BY DEF DiskInv
<1>2. \A d \in Disks : disk[d] = original[d] \/ (d = task.dst /\ task.op # "copyrel")
  BY <1>1 DEF OthersAsBefore
<1>3. ASSUME task.op \in EditOps, NEW s \in DOMAIN original[task.src]
      PROVE  \/ disk[task.src][s] = original[task.src][s]
             \/ s \in Targets /\ disk[task.src][s] = AsAsked(original[task.src][s])
  <2>1. PICK b : b = Brief
    OBVIOUS
  <2>2. HeldDisk(b, disk) /\ b.src = task.src /\ b.disk = original[task.src]
    BY <1>1, <1>3, <2>1, BriefIs DEF EditHeld
  <2>3. Kept(b, disk[b.src][s], s)
    BY <1>3, <2>2 DEF HeldDisk
  <2>4. Targets = AimedBy(b) /\ AsAsked(original[task.src][s]) = AskedBy(b, original[task.src][s])
    BY <1>3, <2>1, AimedIs, AskedIs
  <2> QED
    BY <2>2, <2>3, <2>4 DEF Kept
<1> QED
  BY <1>2, <1>3 DEF OnlyWhatWasAsked, EditOps

(* No raw write of any disk command strikes another drive, and LABEL,      *)
(* DISKID and ATTRIB change nothing on the disk but the field they were    *)
(* asked to, in the sectors that keep it: what the shell's buffer or the   *)
(* drive's held before never ends up on the disk (disk.c, filemgmt.c).     *)
THEOREM EditsStayInPlace == DiskSpec => []OnlyWhatWasAsked
<1>1. DiskInit => DiskInv
  BY DiskInvStarts
<1>2. DiskInv /\ [DiskNext]_toolVars => DiskInv'
  BY DiskStep, DiskStutters
<1>3. DiskInv => OnlyWhatWasAsked
  BY DiskInvMeans
<1> QED
  BY <1>1, <1>2, <1>3, PTL DEF DiskSpec

-----------------------------------------------------------------------------
(* DISKCOPY                                                                *)

IsDisk(d, tracks) == d = [s \in Sectors(tracks) |-> d[s]]
SizedDisk(m, x) == x[HeaderOn(m)].tracks \in Sizes(m) /\ IsDisk(x, x[HeaderOn(m)].tracks)

Precedes(s, at) == s[1] < at[1] \/ (s[1] = at[1] /\ s[2] < at[2])

(* The copy c has the sectors before the one it is at. *)
CopiedTo(c, d, at) == \A s \in Sectors(c.tracks) : Precedes(s, at) => d[s] = c.disk[s]

CopyBrief ==
    [src |-> task.src, dst |-> task.dst, top |-> HeaderOn(model[task.src]), disk |-> original[task.src],
     tracks |-> original[task.src][HeaderOn(model[task.src])].tracks]

Asking == {"first", "second", "identify", "mode", "open", "header"}
Agreeing == {"agree", "side", "format"}
Preparing == {"settle", "settle both", "open first", "open second"}
Looping == {"read", "write", "written"}

Opens(x, bl) == x \in Asking \cup Agreeing \cup Preparing \/ (x \in Ways /\ bl.then = "header")
UnderWay(x, bl) == x \in Preparing \cup Looping \/ (x \in Ways /\ bl.then \in {"write", "written"})

CopyOpens(x, t, bl) == Opens(x, bl) => t.at = <<1, 0>>
CopySized(c, x, t, bl) == x \in Agreeing \/ UnderWay(x, bl) => t.tracks = c.tracks
CopyRuns(c, x, t, bl, d) ==
    UnderWay(x, bl) => IsDisk(d, c.tracks) /\ t.at \in Sectors(c.tracks) /\ CopiedTo(c, d, t.at)
CopyHolds(c, x, t, y, d) ==
    /\ x = "header" => y = c.disk[c.top]
    /\ x = "write" => y = c.disk[t.at]
    /\ x = "written" => d[t.at] = c.disk[t.at]
    /\ x = "whole" \/ (x = "initialize" /\ t.ok) => d = c.disk

CopyFetches(c, x, t, bl, bu) ==
    /\ bl.writing = FALSE /\ x \in {"seek", "fetch"} /\ bl.dev = c.src
    /\ x = "fetch" => bu[c.src] = c.disk[bl.sector]
    /\ \/ bl.then = "header" /\ bl.sector = c.top
       \/ bl.then = "write" /\ bl.sector = t.at

CopyStores(c, x, t, y, bl, bu) ==
    /\ bl.writing = TRUE /\ x \in {"point", "fill", "seek"} /\ bl.dev = c.dst
    /\ x = "seek" => bu[c.dst] = c.disk[t.at]
    /\ bl.then = "written" /\ bl.sector = t.at /\ y = c.disk[t.at]

CopyWay(c, x, t, y, bl, bu) ==
    x \in Ways =>
      /\ bl.otherwise \in {"give up", "broken"}
      /\ CopyFetches(c, x, t, bl, bu) \/ CopyStores(c, x, t, y, bl, bu)

Copying(c, x, t, y, bl, bu, d) ==
    /\ CopyOpens(x, t, bl) /\ CopySized(c, x, t, bl) /\ CopyRuns(c, x, t, bl, d)
    /\ CopyHolds(c, x, t, y, d) /\ CopyWay(c, x, t, y, bl, bu)

CopyHeld ==
    tool # "ready" /\ task.op = "diskcopy" =>
      /\ task.src # task.dst
      /\ Copying(CopyBrief, tool, task, io, block, buffer, disk[task.dst])

CopyInv ==
    /\ model \in [Disks -> 0..3]
    /\ \A v \in Disks : SizedDisk(model[v], original[v])
    /\ verdict = "complete" => tool = "over" /\ task.op = "diskcopy" /\ disk[task.dst] = original[task.src]
    /\ CopyHeld

LEMMA NothingCopies ==
    ASSUME NEW c, NEW x \in {"give up", "broken", "over"}, NEW t, NEW y, NEW bl, NEW bu, NEW d
    PROVE  Copying(c, x, t, y, bl, bu, d)
<1>1. /\ x \notin Ways /\ x \notin Asking \cup Agreeing \cup Preparing \cup Looping
      /\ x \notin {"header", "write", "written", "whole", "initialize"}
  BY DEF Ways, Asking, Agreeing, Preparing, Looping
<1>2. ~Opens(x, bl) /\ ~UnderWay(x, bl) /\ x \notin Agreeing
  BY <1>1 DEF Opens, UnderWay
<1> QED
  BY <1>1, <1>2 DEF Copying, CopyOpens, CopySized, CopyRuns, CopyHolds, CopyWay

(* Requests of DISKCOPY that pass no sector on. *)
LEMMA CopyTalks ==
    ASSUME NEW c, task.op = "diskcopy", tool \in Stages("diskcopy"), Talks, NEW d,
           Copying(c, tool, task, io, block, buffer, d)
    PROVE  Copying(c, tool', task', io', block', buffer', d)
<1>2. /\ UNCHANGED <<task, io, block, buffer>>
      /\ \/ tool' \in {"give up", "broken", "over"}
         \/ tool \in {"first", "second", "identify", "mode"} /\ tool' \in {"second", "identify", "mode", "open"}
         \/ tool = "agree" /\ tool' \in {"format", "side"}
         \/ tool = "side" /\ tool' = "format"
         \/ tool \in {"settle", "settle both"} /\ tool' \in {"settle both", "open first"}
  <2>1. CASE IdentifyBoth
    BY <2>1 DEF IdentifyBoth, Identify, To, Stopped, diskVars
  <2>2. CASE IdentifyDrive
    BY <2>2 DEF IdentifyDrive, Identify, To, Stopped, diskVars
  <2>3. CASE Mode
    BY <2>3 DEF Mode, To, Stopped, diskVars
  <2>4. CASE GiveUp \/ Initialize
    BY <2>4 DEF GiveUp, Initialize, Stopped, diskVars
  <2>5. CASE Agree \/ Side
    BY <2>5 DEF Agree, Side, To, Stopped, diskVars
  <2>6. CASE Settle
    BY <2>6 DEF Settle, To, Stopped, diskVars
  <2>7. CASE EndList \/ Validate \/ List \/ Prepare
    <3>1. tool \in {"listed", "astray", "validate", "find", "prepare", "scratch"}
      BY <2>7 DEF EndList, Validate, List, Prepare
    <3> QED
      BY <3>1 DEF Stages, HeaderStages, ListStages, EditOps
  <2>8. CASE CloseRelative
    BY <2>8 DEF CloseRelative, Stopped, diskVars
  <2> QED
    BY <2>1, <2>2, <2>3, <2>4, <2>5, <2>6, <2>7, <2>8 DEF Talks
<1>3. CASE tool' \in {"give up", "broken", "over"}
  BY <1>3, NothingCopies
<1>4. ASSUME tool' \notin {"give up", "broken", "over"}
      PROVE  Copying(c, tool', task', io', block', buffer', d)
  <2>1. tool' \in {"second", "identify", "mode", "open", "format", "side", "settle both", "open first"}
        /\ tool' \notin Ways
    BY <1>2, <1>4 DEF Ways
  <2>2. Opens(tool, block) /\ (tool' \in Agreeing => tool \in Agreeing) /\ (UnderWay(tool', block) => UnderWay(tool, block))
    BY <1>2, <1>4, <2>1 DEF Opens, UnderWay, Asking, Agreeing, Preparing, Looping
  <2>3. CopyOpens(tool', task', block') /\ CopySized(c, tool', task', block') /\ CopyRuns(c, tool', task', block', d)
    BY <1>2, <2>2 DEF Copying, CopyOpens, CopySized, CopyRuns
  <2>4. CopyHolds(c, tool', task', io', d) /\ CopyWay(c, tool', task', io', block', buffer')
    BY <2>1 DEF CopyHolds, CopyWay
  <2> QED
    BY <2>3, <2>4 DEF Copying
<1> QED
  BY <1>3, <1>4

(* A transfer passes the sector on that it is for. *)
LEMMA CopyBlock ==
    ASSUME NEW c, c.src # c.dst, c.src \in DOMAIN disk, c.dst \in DOMAIN disk,
           c.src \in DOMAIN buffer, c.dst \in DOMAIN buffer, disk[c.src] = c.disk, Block,
           Copying(c, tool, task, io, block, buffer, disk[c.dst])
    PROVE  Copying(c, tool', task', io', block', buffer', disk'[c.dst])
<1>1. tool \in Ways /\ UNCHANGED <<task, block>>
  BY DEF Block, Point, Fill, Seek, Fetch, Ways, diskVars
<1>2. /\ block.otherwise \in {"give up", "broken"}
      /\ CopyFetches(c, tool, task, block, buffer) \/ CopyStores(c, tool, task, io, block, buffer)
  BY <1>1 DEF Copying, CopyWay
<1>3. CASE tool' = block.otherwise
  BY <1>2, <1>3, NothingCopies
<1>. DEFINE d == disk[c.dst]
            e == disk'[c.dst]
<1>4. CASE CopyFetches(c, tool, task, block, buffer) /\ tool' # block.otherwise
  <2>1. block.writing = FALSE /\ tool \in {"seek", "fetch"} /\ block.dev = c.src
    BY <1>4 DEF CopyFetches
  <2>2. disk' = disk
    BY <2>1 DEF Block, Point, Fill, Seek, Fetch, diskVars
  <2>3. \/ /\ tool = "seek" /\ tool' = "fetch" /\ io' = io
           /\ buffer' = [buffer EXCEPT ![block.dev] = disk[block.dev][block.sector]]
        \/ tool = "fetch" /\ tool' = block.then /\ io' = buffer[block.dev]
    BY <1>4, <2>1 DEF Block, Point, Fill, Seek, Fetch, To, Fault, Refused
  <2>4. CASE tool = "seek"
    <3>1. buffer'[c.src] = c.disk[block.sector] /\ tool' = "fetch"
      BY <2>1, <2>3, <2>4
    <3>2. CopyFetches(c, tool', task', block', buffer')
      BY <1>1, <1>4, <3>1 DEF CopyFetches
    <3>3. CopyWay(c, tool', task', io', block', buffer') /\ tool' \in Ways
      BY <1>1, <1>2, <3>1, <3>2 DEF CopyWay, Ways
    <3>4. /\ tool' \notin Asking \cup Agreeing \cup Preparing \cup Looping
          /\ tool' \notin {"header", "write", "written", "whole", "initialize"}
      BY <3>1 DEF Asking, Agreeing, Preparing, Looping
    <3>5. (Opens(tool', block') => Opens(tool, block)) /\ (UnderWay(tool', block') => UnderWay(tool, block))
      BY <1>1, <3>4 DEF Opens, UnderWay
    <3>6. CopyOpens(tool', task', block') /\ CopySized(c, tool', task', block') /\ CopyRuns(c, tool', task', block', e)
      BY <1>1, <2>2, <3>4, <3>5 DEF Copying, CopyOpens, CopySized, CopyRuns
    <3>7. CopyHolds(c, tool', task', io', e)
      BY <3>4 DEF CopyHolds
    <3> QED
      BY <3>3, <3>6, <3>7 DEF Copying
  <2>5. CASE tool = "fetch"
    <3>1. /\ tool' = block.then /\ io' = c.disk[block.sector]
          /\ \/ block.then = "header" /\ block.sector = c.top
             \/ block.then = "write" /\ block.sector = task.at
      BY <1>4, <2>1, <2>3, <2>5 DEF CopyFetches
    <3>2. tool' \notin Ways
      BY <3>1 DEF Ways
    <3>3. /\ Opens(tool', block') => Opens(tool, block)
          /\ UnderWay(tool', block') => UnderWay(tool, block)
          /\ tool' \notin Agreeing
      BY <1>1, <3>1, <3>2 DEF Opens, UnderWay, Asking, Agreeing, Preparing, Looping
    <3>4. CopyOpens(tool', task', block') /\ CopySized(c, tool', task', block') /\ CopyRuns(c, tool', task', block', e)
      BY <1>1, <2>2, <3>3 DEF Copying, CopyOpens, CopySized, CopyRuns
    <3>5. CopyHolds(c, tool', task', io', e) /\ CopyWay(c, tool', task', io', block', buffer')
      BY <1>1, <3>1, <3>2 DEF CopyHolds, CopyWay
    <3> QED
      BY <3>4, <3>5 DEF Copying
  <2> QED
    BY <2>1, <2>4, <2>5
<1>5. CASE CopyStores(c, tool, task, io, block, buffer) /\ tool' # block.otherwise
  <2>1. /\ block.writing = TRUE /\ tool \in {"point", "fill", "seek"} /\ block.dev = c.dst
        /\ block.then = "written" /\ block.sector = task.at /\ io = c.disk[task.at]
    BY <1>5 DEF CopyStores
  <2>2. io' = io
    BY <2>1 DEF Block, Point, Fill, Seek, Fetch, diskVars
  <2>3. UnderWay(tool, block)
    BY <1>1, <2>1 DEF UnderWay
  <2>4. /\ task.tracks = c.tracks /\ IsDisk(d, c.tracks) /\ task.at \in Sectors(c.tracks)
        /\ CopiedTo(c, d, task.at)
    BY <2>3 DEF Copying, CopySized, CopyRuns
  <2>5. \/ tool = "point" /\ tool' = "fill" /\ disk' = disk /\ buffer' = buffer
        \/ tool = "fill" /\ tool' = "seek" /\ disk' = disk /\ buffer' = [buffer EXCEPT ![block.dev] = io]
        \/ /\ tool = "seek" /\ tool' = "written" /\ buffer' = buffer
           /\ disk' = [disk EXCEPT ![block.dev][block.sector] = buffer[block.dev]]
    BY <1>5, <2>1 DEF Block, Point, Fill, Seek, Fetch, To, Fault, Refused, diskVars
  <2>6. CASE tool # "seek"
    <3>1. /\ tool' \in {"fill", "seek"} /\ tool' \in Ways /\ disk' = disk
          /\ tool' = "seek" => buffer'[c.dst] = c.disk[task.at]
      BY <2>1, <2>5, <2>6 DEF Ways
    <3>2. CopyStores(c, tool', task', io', block', buffer')
      BY <1>1, <2>1, <2>2, <3>1 DEF CopyStores
    <3>3. CopyWay(c, tool', task', io', block', buffer')
      BY <1>1, <1>2, <3>2 DEF CopyWay
    <3>4. /\ tool' \notin Asking \cup Agreeing \cup Preparing \cup Looping
          /\ tool' \notin {"header", "write", "written", "whole", "initialize"}
      BY <3>1 DEF Asking, Agreeing, Preparing, Looping
    <3>5. ~Opens(tool', block') /\ CopyHolds(c, tool', task', io', e)
      BY <1>1, <2>1, <3>4 DEF Opens, CopyHolds
    <3>6. CopyOpens(tool', task', block') /\ CopySized(c, tool', task', block') /\ CopyRuns(c, tool', task', block', e)
      BY <1>1, <2>4, <3>1, <3>5 DEF CopyOpens, CopySized, CopyRuns
    <3> QED
      BY <3>3, <3>5, <3>6 DEF Copying
  <2>7. CASE tool = "seek"
    <3>1. tool' = "written" /\ buffer[c.dst] = c.disk[task.at]
          /\ disk' = [disk EXCEPT ![c.dst][task.at] = buffer[c.dst]]
      BY <1>5, <2>1, <2>5, <2>7 DEF CopyStores
    <3>2. e = [d EXCEPT ![task.at] = c.disk[task.at]]
      BY <3>1
    <3>3. IsDisk(e, c.tracks) /\ e[task.at] = c.disk[task.at]
      BY <2>4, <3>2 DEF IsDisk
    <3>4. CopiedTo(c, e, task.at)
      BY <2>4, <3>2 DEF CopiedTo, IsDisk
    <3>5. tool' \notin Ways /\ tool' \notin Asking \cup Agreeing \cup Preparing
      BY <3>1 DEF Ways, Asking, Agreeing, Preparing
    <3>6. CopyOpens(tool', task', block') /\ CopyWay(c, tool', task', io', block', buffer')
      BY <3>5 DEF CopyOpens, Opens, CopyWay
    <3>7. CopyHolds(c, tool', task', io', e)
      BY <1>1, <3>1, <3>3 DEF CopyHolds
    <3>8. CopySized(c, tool', task', block') /\ CopyRuns(c, tool', task', block', e)
      BY <1>1, <2>4, <3>3, <3>4 DEF CopySized, CopyRuns
    <3> QED
      BY <3>6, <3>7, <3>8 DEF Copying
  <2> QED
    BY <2>6, <2>7
<1> QED
  BY <1>2, <1>3, <1>4, <1>5

LEMMA SectorIs ==
    ASSUME NEW tracks \in Nat, \A tr \in 1..tracks : TrackSectors(tr, tracks) \in Nat, NEW s
    PROVE  s \in Sectors(tracks) <=>
             \E tr \in 1..tracks : \E se \in Nat : s = <<tr, se>> /\ se < TrackSectors(tr, tracks)
<1>1. s \in Sectors(tracks) <=> \E tr \in 1..tracks : s \in {tr} \X (0..TrackSectors(tr, tracks) - 1)
  BY DEF Sectors
<1>2. ASSUME NEW tr \in 1..tracks
      PROVE  s \in {tr} \X (0..TrackSectors(tr, tracks) - 1)
               <=> \E se \in Nat : s = <<tr, se>> /\ se < TrackSectors(tr, tracks)
  <2>1. TrackSectors(tr, tracks) \in Nat
    OBVIOUS
  <2>. DEFINE u == TrackSectors(tr, tracks)
  <2>2. \A se : se \in 0..u - 1 <=> se \in Nat /\ se < u
    BY <2>1
  <2>. HIDE DEF u
  <2>3. s \in {tr} \X (0..u - 1) <=> \E se \in 0..u - 1 : s = <<tr, se>>
    OBVIOUS
  <2>4. s \in {tr} \X (0..u - 1) <=> \E se \in Nat : s = <<tr, se>> /\ se < u
    BY <2>2, <2>3
  <2> QED
    BY <2>4 DEF u
<1> QED
  BY <1>1, <1>2

LEMMA CopyFormats ==
    ASSUME NEW c, NEW m \in 0..3, c.tracks \in Sizes(m), c.dst = task.dst, c.dst \in DOMAIN disk,
           task.op = "diskcopy", FormatDisk,
           Copying(c, tool, task, io, block, buffer, disk[c.dst])
    PROVE  Copying(c, tool', task', io', block', buffer', disk'[c.dst])
<1>1. tool = "format" /\ UNCHANGED <<task, io, block, buffer>>
  BY DEF FormatDisk
<1>2. CASE tool' = "over"
  BY <1>2, NothingCopies
<1>3. CASE tool' # "over"
  <2>1. /\ tool' = "settle"
        /\ disk' = [disk EXCEPT ![task.dst] = Disk(task.tracks, task.label, task.id, 0, Formatted)]
    BY <1>3 DEF FormatDisk, To, Stopped
  <2>2. task.tracks = c.tracks /\ task.at = <<1, 0>>
    BY <1>1 DEF Copying, CopySized, CopyOpens, Opens, Agreeing
  <2>. DEFINE e == disk'[c.dst]
  <2>3. IsDisk(e, c.tracks)
    BY <2>1, <2>2 DEF IsDisk, Disk
  <2>4. /\ c.tracks \in Nat /\ c.tracks >= 1
        /\ \A tr \in 1..c.tracks : TrackSectors(tr, c.tracks) \in Nat /\ TrackSectors(tr, c.tracks) > 0
    BY TrackSizes
  <2>5. task.at \in Sectors(c.tracks)
    BY <2>4, <2>2, SectorIs
  <2>6. CopiedTo(c, e, task.at)
    <3>1. ASSUME NEW s \in Sectors(c.tracks) PROVE ~Precedes(s, task.at)
      <4>1. PICK tr \in 1..c.tracks : \E se \in Nat : s = <<tr, se>> /\ se < TrackSectors(tr, c.tracks)
        BY <2>4, <3>1, SectorIs
      <4>2. PICK se \in Nat : s = <<tr, se>>
        BY <4>1
      <4>3. ~(tr < 1) /\ ~(se < 0)
        BY <2>4, <4>1, <4>2
      <4> QED
        BY <2>2, <4>2, <4>3 DEF Precedes
    <3> QED
      BY <3>1 DEF CopiedTo
  <2>7. tool' \notin Ways /\ tool' \notin Agreeing /\ tool' \notin {"header", "write", "written", "whole", "initialize"}
    BY <2>1 DEF Ways, Agreeing
  <2> QED
    BY <1>1, <2>2, <2>3, <2>5, <2>6, <2>7 DEF Copying, CopyOpens, CopySized, CopyRuns, CopyHolds, CopyWay
<1> QED
  BY <1>2, <1>3

LEMMA CopyOpensHeader ==
    ASSUME NEW c, c.src = task.src, c.top = HeaderSector(task.src), OpenHeader, NEW d,
           Copying(c, tool, task, io, block, buffer, d)
    PROVE  Copying(c, tool', task', io', block', buffer', d)
<1>1. /\ tool = "open" /\ UNCHANGED <<task, io, buffer>>
      /\ \/ tool' = "over"
         \/ /\ tool' = "seek"
            /\ block' = Sent(2, task.src, HeaderSector(task.src), FALSE, "header", "give up")
  BY DEF OpenHeader, Stopped, Transfer, To, Sent
<1>2. CASE tool' = "over"
  BY <1>2, NothingCopies
<1>3. CASE tool' # "over"
  <2>1. /\ block'.dev = c.src /\ block'.sector = c.top /\ block'.writing = FALSE /\ block'.then = "header"
        /\ block'.otherwise = "give up" /\ tool' = "seek"
    <3>1. tool' = "seek" /\ block' = Sent(2, c.src, c.top, FALSE, "header", "give up")
      BY <1>1, <1>3
    <3> QED
      BY <3>1 DEF Sent
  <2>2. task.at = <<1, 0>>
    BY <1>1 DEF Copying, CopyOpens, Opens, Asking
  <2>3. /\ tool' \notin Agreeing \cup Preparing \cup Looping /\ tool' \in Ways
        /\ tool' \notin {"header", "write", "written", "whole", "initialize"}
    BY <2>1 DEF Ways, Agreeing, Preparing, Looping
  <2>4. ~UnderWay(tool', block')
    BY <2>1, <2>3 DEF UnderWay
  <2>5. CopyFetches(c, tool', task', block', buffer')
    BY <2>1 DEF CopyFetches
  <2> QED
    BY <1>1, <2>1, <2>2, <2>3, <2>4, <2>5 DEF Copying, CopyOpens, CopySized, CopyRuns, CopyHolds, CopyWay
<1> QED
  BY <1>2, <1>3

LEMMA CopyChecksHeader ==
    ASSUME NEW c, c.tracks = c.disk[c.top].tracks, DOMAIN task = TaskFields, task.op = "diskcopy", CheckHeader, NEW d,
           Copying(c, tool, task, io, block, buffer, d)
    PROVE  Copying(c, tool', task', io', block', buffer', d)
<1>1. /\ tool = "header" /\ UNCHANGED <<io, buffer, block>>
      /\ \/ tool' = "over"
         \/ tool' = "identify" /\ task' = [task EXCEPT !.ok = TRUE]
         \/ tool' = "agree" /\ task' = [task EXCEPT !.tracks = io.tracks, !.id = io.id]
  BY DEF CheckHeader, Stopped, To
<1>2. CASE tool' = "over"
  BY <1>2, NothingCopies
<1>3. CASE tool' # "over"
  <2>1. task.at = <<1, 0>> /\ io = c.disk[c.top]
    BY <1>1 DEF Copying, CopyOpens, Opens, Asking, CopyHolds
  <2>2. tool' \in {"identify", "agree"} /\ task'.at = <<1, 0>> /\ (tool' = "agree" => task'.tracks = c.tracks)
    BY <1>1, <1>3, <2>1 DEF TaskFields
  <2>3. /\ tool' \notin Preparing \cup Looping /\ tool' \notin Ways /\ (tool' \in Agreeing => tool' = "agree")
        /\ tool' \notin {"header", "write", "written", "whole", "initialize"}
    BY <2>2 DEF Ways, Agreeing, Preparing, Looping
  <2> QED
    BY <2>2, <2>3 DEF Copying, CopyOpens, CopySized, CopyRuns, UnderWay, CopyHolds, CopyWay
<1> QED
  BY <1>2, <1>3

LEMMA CopyTransfers ==
    ASSUME NEW c, c.src = task.src, c.dst = task.dst, ReadSector \/ WriteSector, NEW d,
           Copying(c, tool, task, io, block, buffer, d)
    PROVE  Copying(c, tool', task', io', block', buffer', d)
<1>1. /\ UNCHANGED <<task, io, buffer>> /\ tool \in Looping
      /\ \/ /\ tool = "read" /\ tool' = "seek"
            /\ block' = Sent(2, task.src, task.at, FALSE, "write", "broken")
         \/ /\ tool = "write" /\ tool' = "point"
            /\ block' = Sent(3, task.dst, task.at, TRUE, "written", "broken")
  BY DEF ReadSector, WriteSector, Transfer, To, Sent, Looping
<1>2. /\ tool' \in {"seek", "point"} /\ block'.sector = task.at /\ block'.then \in {"write", "written"}
      /\ block'.otherwise = "broken"
      /\ \/ tool' = "seek" /\ block'.dev = c.src /\ block'.writing = FALSE /\ block'.then = "write"
         \/ /\ tool' = "point" /\ block'.dev = c.dst /\ block'.writing = TRUE /\ block'.then = "written"
            /\ io = c.disk[task.at]
  BY <1>1 DEF Copying, CopyHolds, Sent
<1>3. UnderWay(tool, block)
  BY <1>1 DEF UnderWay
<1>4. /\ tool' \notin Asking \cup Agreeing \cup Preparing \cup Looping
      /\ tool' \notin {"header", "write", "written", "whole", "initialize"} /\ tool' \in Ways
  BY <1>2 DEF Asking, Agreeing, Preparing, Looping, Ways
<1>5. ~Opens(tool', block')
  BY <1>2, <1>4 DEF Opens
<1>6. CopyFetches(c, tool', task', block', buffer') \/ CopyStores(c, tool', task', io', block', buffer')
  BY <1>1, <1>2 DEF CopyFetches, CopyStores
<1> QED
  BY <1>1, <1>2, <1>3, <1>4, <1>5, <1>6 DEF Copying, CopyOpens, CopySized, CopyRuns, CopyHolds, CopyWay

LEMMA CopyOpensBoth ==
    ASSUME NEW c, OpenBoth, NEW d, Copying(c, tool, task, io, block, buffer, d)
    PROVE  Copying(c, tool', task', io', block', buffer', d)
<1>1. /\ UNCHANGED <<task, io, buffer, block>>
      /\ tool' = "over" \/ (tool \in {"open first", "open second"} /\ tool' \in {"open second", "read"})
  BY DEF OpenBoth, Stopped, To
<1>2. CASE tool' = "over"
  BY <1>2, NothingCopies
<1>3. CASE tool' # "over"
  <2>1. UnderWay(tool, block) /\ Opens(tool, block)
    BY <1>1, <1>3 DEF UnderWay, Opens, Preparing
  <2>2. tool' \notin Agreeing /\ tool' \notin Ways /\ tool' \notin {"header", "write", "written", "whole", "initialize"}
    BY <1>1, <1>3 DEF Agreeing, Ways
  <2> QED
    BY <1>1, <2>1, <2>2 DEF Copying, CopyOpens, CopySized, CopyRuns, CopyHolds, CopyWay
<1> QED
  BY <1>2, <1>3

(* The next sector, and after the last one all of them are there. *)
LEMMA CopyGoesOn ==
    ASSUME NEW c, NEW m \in 0..3, c.tracks \in Sizes(m), IsDisk(c.disk, c.tracks), DOMAIN task = TaskFields, NextSector,
           NEW d, Copying(c, tool, task, io, block, buffer, d)
    PROVE  Copying(c, tool', task', io', block', buffer', d)
<1>. DEFINE tr == task.at[1]
            se == task.at[2] + 1
<1>1. /\ tool = "written" /\ UNCHANGED <<io, block, buffer>>
      /\ \/ tool' = "broken"
         \/ tool' = "read" /\ se < TrackSectors(tr, task.tracks) /\ task' = [task EXCEPT !.at = <<tr, se>>]
         \/ /\ tool' = "read" /\ ~(se < TrackSectors(tr, task.tracks)) /\ tr < task.tracks
            /\ task' = [task EXCEPT !.at = <<tr + 1, 0>>]
         \/ /\ tool' = "whole" /\ ~(se < TrackSectors(tr, task.tracks)) /\ ~(tr < task.tracks) /\ task' = task
  BY DEF NextSector, LastTrack, To
<1>2. /\ task.tracks = c.tracks /\ IsDisk(d, c.tracks) /\ task.at \in Sectors(c.tracks)
      /\ CopiedTo(c, d, task.at) /\ d[task.at] = c.disk[task.at]
  BY <1>1 DEF UnderWay, Looping, Copying, CopySized, CopyRuns, CopyHolds
<1>3. /\ c.tracks \in Nat /\ c.tracks >= 1
      /\ \A n \in 1..c.tracks : TrackSectors(n, c.tracks) \in Nat /\ TrackSectors(n, c.tracks) > 0
  BY TrackSizes
<1>4. /\ task.at = <<tr, task.at[2]>> /\ tr \in 1..c.tracks /\ task.at[2] \in Nat
      /\ task.at[2] < TrackSectors(tr, c.tracks)
  BY <1>2, <1>3, SectorIs
<1>5. ASSUME NEW at,
             \/ at = <<tr, se>>
             \/ ~(se < TrackSectors(tr, task.tracks)) /\ at = <<tr + 1, 0>>
             \/ ~(se < TrackSectors(tr, task.tracks)) /\ ~(tr < task.tracks) /\ at = <<c.tracks + 1, 0>>,
             NEW s \in Sectors(c.tracks), Precedes(s, at)
      PROVE  d[s] = c.disk[s]
  <2>1. PICK a \in 1..c.tracks : \E n \in Nat : s = <<a, n>> /\ n < TrackSectors(a, c.tracks)
    BY <1>3, <1>5, SectorIs
  <2>2. PICK n \in Nat : s = <<a, n>> /\ n < TrackSectors(a, c.tracks)
    BY <2>1
  <2>3. a < at[1] \/ (a = at[1] /\ n < at[2])
    BY <1>5, <2>2 DEF Precedes
  <2>4. Precedes(s, task.at) \/ s = task.at
    BY <1>2, <1>3, <1>4, <1>5, <2>2, <2>3 DEF Precedes
  <2> QED
    BY <1>2, <1>5, <2>4 DEF CopiedTo
<1>6. CASE tool' = "broken"
  BY <1>6, NothingCopies
<1>7. CASE tool' = "read"
  <2>1. /\ task'.tracks = c.tracks
        /\ \/ task'.at = <<tr, se>> /\ se < TrackSectors(tr, c.tracks)
           \/ ~(se < TrackSectors(tr, c.tracks)) /\ tr < c.tracks /\ task'.at = <<tr + 1, 0>>
    BY <1>1, <1>2, <1>7 DEF TaskFields
  <2>2. task'.at \in Sectors(c.tracks)
    <3>1. CASE task'.at = <<tr, se>> /\ se < TrackSectors(tr, c.tracks)
      BY <1>4, <1>3, <3>1, SectorIs
    <3>2. CASE tr < c.tracks /\ task'.at = <<tr + 1, 0>>
      BY <1>3, <1>4, <3>2, SectorIs
    <3> QED
      BY <2>1, <3>1, <3>2
  <2>3. CopiedTo(c, d, task'.at)
    BY <1>2, <1>5, <2>1 DEF CopiedTo
  <2>4. tool' \notin Asking \cup Agreeing \cup Preparing /\ tool' \notin Ways
        /\ tool' \notin {"header", "write", "written", "whole", "initialize"}
    BY <1>7 DEF Asking, Agreeing, Preparing, Ways
  <2>5. ~Opens(tool', block')
    BY <2>4 DEF Opens
  <2> QED
    BY <1>2, <2>1, <2>2, <2>3, <2>4, <2>5 DEF Copying, CopyOpens, CopySized, CopyRuns, CopyHolds, CopyWay
<1>8. CASE tool' = "whole"
  <2>1. ~(se < TrackSectors(tr, task.tracks)) /\ ~(tr < task.tracks)
    BY <1>1, <1>8
  <2>2. ASSUME NEW s \in Sectors(c.tracks) PROVE d[s] = c.disk[s]
    <3>1. PICK a \in 1..c.tracks : \E n \in Nat : s = <<a, n>>
      BY <1>3, <2>2, SectorIs
    <3>2. Precedes(s, <<c.tracks + 1, 0>>)
      BY <1>3, <3>1 DEF Precedes
    <3> QED
      BY <1>5, <2>1, <2>2, <3>2
  <2>3. d = c.disk
    BY <1>2, <2>2 DEF IsDisk
  <2>4. tool' \notin Asking \cup Agreeing \cup Preparing \cup Looping /\ tool' \notin Ways
    BY <1>8 DEF Asking, Agreeing, Preparing, Looping, Ways
  <2>5. ~Opens(tool', block') /\ ~UnderWay(tool', block')
    BY <2>4 DEF Opens, UnderWay
  <2>6. CopyHolds(c, tool', task', io', d)
    BY <1>8, <2>3 DEF CopyHolds
  <2> QED
    BY <2>4, <2>5, <2>6 DEF Copying, CopyOpens, CopySized, CopyRuns, CopyWay
<1> QED
  BY <1>1, <1>6, <1>7, <1>8

LEMMA CopyCloses ==
    ASSUME NEW c, DOMAIN task = TaskFields, CloseBoth, NEW d, Copying(c, tool, task, io, block, buffer, d)
    PROVE  Copying(c, tool', task', io', block', buffer', d)
<1>1. tool' = "initialize" /\ task'.ok = (tool = "whole")
  BY DEF CloseBoth, To, TaskFields
<1>2. task'.ok => d = c.disk
  BY <1>1 DEF Copying, CopyHolds
<1>3. tool' \notin Asking \cup Agreeing \cup Preparing \cup Looping /\ tool' \notin Ways
  BY <1>1 DEF Asking, Agreeing, Preparing, Looping, Ways
<1>4. ~Opens(tool', block') /\ ~UnderWay(tool', block')
  BY <1>3 DEF Opens, UnderWay
<1> QED
  BY <1>1, <1>2, <1>3, <1>4 DEF Copying, CopyOpens, CopySized, CopyRuns, CopyHolds, CopyWay

LEMMA CopyBriefIs ==
    ASSUME NEW c, c = CopyBrief
    PROVE  /\ c.src = task.src /\ c.dst = task.dst /\ c.top = HeaderSector(task.src) /\ c.top = HeaderOn(model[c.src])
           /\ c.disk = original[c.src] /\ c.tracks = c.disk[c.top].tracks
BY DEF CopyBrief, HeaderOn, HeaderSector

LEMMA CopySteady ==
    ASSUME NEW c, c = CopyBrief, NEW m \in 0..3, c.tracks \in Sizes(m), IsDisk(c.disk, c.tracks),
           task.op = "diskcopy", Staged(tool, task, block), Steady, NEW d,
           Copying(c, tool, task, io, block, buffer, d)
    PROVE  Copying(c, tool', task', io', block', buffer', d)
<1>1. task.op \in DiskOps /\ DOMAIN task = TaskFields /\ tool \in Stages(task.op)
  BY SteadyDrives DEF Staged, TaskTyped
<1>2. /\ c.src = task.src /\ c.dst = task.dst /\ c.top = HeaderSector(task.src)
      /\ c.tracks = c.disk[c.top].tracks
  BY CopyBriefIs
<1>3. CASE OpenHeader
  BY <1>2, <1>3, CopyOpensHeader
<1>4. CASE CheckHeader
  BY <1>1, <1>2, <1>4, CopyChecksHeader
<1>5. CASE OpenBoth
  BY <1>5, CopyOpensBoth
<1>6. CASE ReadSector \/ WriteSector
  BY <1>2, <1>6, CopyTransfers
<1>7. CASE NextSector
  BY <1>1, <1>7, CopyGoesOn
<1>8. CASE CloseBoth
  BY <1>1, <1>8, CopyCloses
<1>9. CASE \/ Change \/ NextCopy \/ ChangeCopy \/ Mark \/ SeekRelative \/ OpenRelative \/ NextBlock \/ Spread
           \/ Position \/ PutRecord \/ OpenList \/ NextList
  <2>1. tool \in {"change", "changed", "repeat", "mark", "follow", "search", "reopen", "open relative", "block",
                  "spread", "position", "put", "open list", "list"}
    BY <1>9 DEF Change, NextCopy, ChangeCopy, Mark, SeekRelative, OpenRelative, NextBlock, Spread, Position,
                PutRecord, OpenList, NextList
  <2>2. task.op \in {"label", "diskid", "attrib", "copyrel"}
    <3>1. CASE tool \in {"change", "changed", "repeat", "mark"}
      BY <1>1, <3>1, StagesOf
    <3>2. CASE tool \in {"search", "open relative", "block", "spread", "position", "put", "reopen"}
      BY <1>1, <3>2, StagesOf
    <3>3. CASE tool \in {"open list", "list", "follow"}
      BY <1>1, <3>3, StagesOf
    <3> QED
      BY <2>1, <3>1, <3>2, <3>3
  <2> QED
    BY <2>2
<1> QED
  BY <1>3, <1>4, <1>5, <1>6, <1>7, <1>8, <1>9 DEF Steady

LEMMA CopyStarts ==
    ASSUME Command, task'.op = "diskcopy"
    PROVE  task'.src # task'.dst /\ task'.at = <<1, 0>> /\ tool' = "first"
<1>1. PICK dev \in Disks, label \in Labels, id \in Ids :
        \/ Start(Task("format", dev, dev, label, id), "identify")
        \/ Start(Task("label", dev, dev, label, ""), "identify")
        \/ Start([Task("label", dev, dev, label, "") EXCEPT !.ok = FALSE], "find")
        \/ Start(Task("diskid", dev, dev, "", id), "identify")
        \/ \E dst \in Disks \ {dev} : Start(Task("diskcopy", dev, dst, "mcs-copy", ""), "first")
        \/ Start(Task("vol", dev, dev, "", ""), "find")
        \/ \E begin \in {"find", "validate"} : Start(Task("chkdsk", dev, dev, "", ""), begin)
        \/ Start(Task("diskinit", dev, dev, "", ""), "initialize")
        \/ \E names \in Patterns, mark \in {"locked", "unlocked", "shown"} :
             Start([Task("attrib", dev, dev, "", "") EXCEPT !.names = names, !.mark = mark], "identify")
        \/ \E dst \in Disks, name \in RelNames(disk[dev]) :
             Start([Task("copyrel", dev, dst, "", "") EXCEPT !.names = {name}], "find")
  BY DEF Command
<1>2. CASE \E dst \in Disks \ {dev} : Start(Task("diskcopy", dev, dst, "mcs-copy", ""), "first")
  <2>1. PICK dst \in Disks \ {dev} : Start(Task("diskcopy", dev, dst, "mcs-copy", ""), "first")
    BY <1>2
  <2>2. task'.src = dev /\ task'.dst = dst /\ task'.at = <<1, 0>> /\ tool' = "first"
    BY <2>1 DEF Start, Task
  <2> QED
    BY <2>2
<1>3. CASE Start(Task("format", dev, dev, label, id), "identify")
  <2>1. task'.op = "format"
    BY <1>3 DEF Start, Task
  <2> QED
    BY <2>1
<1>4. CASE Start(Task("label", dev, dev, label, ""), "identify")
  <2>1. task'.op = "label"
    BY <1>4 DEF Start, Task
  <2> QED
    BY <2>1
<1>5. CASE Start([Task("label", dev, dev, label, "") EXCEPT !.ok = FALSE], "find")
  <2>1. task'.op = "label"
    BY <1>5 DEF Start, Task
  <2> QED
    BY <2>1
<1>6. CASE Start(Task("diskid", dev, dev, "", id), "identify")
  <2>1. task'.op = "diskid"
    BY <1>6 DEF Start, Task
  <2> QED
    BY <2>1
<1>7. CASE Start(Task("vol", dev, dev, "", ""), "find")
  <2>1. task'.op = "vol"
    BY <1>7 DEF Start, Task
  <2> QED
    BY <2>1
<1>8. CASE Start(Task("diskinit", dev, dev, "", ""), "initialize")
  <2>1. task'.op = "diskinit"
    BY <1>8 DEF Start, Task
  <2> QED
    BY <2>1
<1>9. CASE \E begin \in {"find", "validate"} : Start(Task("chkdsk", dev, dev, "", ""), begin)
  <2>1. PICK begin \in {"find", "validate"} :
          Start(Task("chkdsk", dev, dev, "", ""), begin)
    BY <1>9
  <2>2. task'.op = "chkdsk"
    BY <2>1 DEF Start, Task
  <2> QED
    BY <2>2
<1>10. CASE \E names \in Patterns, mark \in {"locked", "unlocked", "shown"} :
             Start([Task("attrib", dev, dev, "", "") EXCEPT !.names = names, !.mark = mark], "identify")
  <2>1. PICK names \in Patterns, mark \in {"locked", "unlocked", "shown"} :
          Start([Task("attrib", dev, dev, "", "") EXCEPT !.names = names, !.mark = mark], "identify")
    BY <1>10
  <2>2. task'.op = "attrib"
    BY <2>1 DEF Start, Task
  <2> QED
    BY <2>2
<1>11. CASE \E dst \in Disks, name \in RelNames(disk[dev]) :
             Start([Task("copyrel", dev, dst, "", "") EXCEPT !.names = {name}], "find")
  <2>1. PICK dst \in Disks, name \in RelNames(disk[dev]) :
          Start([Task("copyrel", dev, dst, "", "") EXCEPT !.names = {name}], "find")
    BY <1>11
  <2>2. task'.op = "copyrel"
    BY <2>1 DEF Start, Task
  <2> QED
    BY <2>2
<1> QED
  BY <1>1, <1>2, <1>3, <1>4, <1>5, <1>6, <1>7, <1>8, <1>9, <1>10, <1>11

LEMMA SaysComplete ==
    ASSUME DiskNext, verdict' = "complete", verdict # "complete"
    PROVE  Initialize /\ task.op = "diskcopy" /\ task.ok
<1>1. CASE Initialize
  BY <1>1 DEF Initialize, Stopped
<1>2. CASE Command
  BY <1>2 DEF Command, Start
<1>3. CASE Block
  BY <1>3 DEF Block, Point, Fill, Seek, Fetch, To, Fault, Refused
<1>4. CASE IdentifyBoth \/ IdentifyDrive \/ Mode \/ GiveUp \/ Agree \/ Side \/ Settle \/ Validate \/ List \/ Prepare
  BY <1>4 DEF IdentifyBoth, IdentifyDrive, Identify, Mode, GiveUp, Agree, Side, Settle, Validate, List, Prepare,
              To, Stopped
<1>5. CASE EndList \/ CloseRelative
  BY <1>5 DEF EndList, CloseRelative, To, Stopped
<1>6. CASE OpenHeader \/ CheckHeader \/ Change \/ NextCopy \/ ChangeCopy
  BY <1>6 DEF OpenHeader, CheckHeader, Change, NextCopy, ChangeCopy, Transfer, To, Stopped
<1>7. CASE FormatDisk \/ OpenBoth \/ ReadSector \/ WriteSector \/ NextSector \/ CloseBoth
  BY <1>7 DEF FormatDisk, OpenBoth, ReadSector, WriteSector, NextSector, CloseBoth, Transfer, To, Stopped
<1>8. CASE OpenList \/ NextList \/ Mark \/ SeekRelative
  BY <1>8 DEF OpenList, NextList, Mark, SeekRelative, Transfer, To, Stopped
<1>9. CASE OpenRelative \/ NextBlock \/ Spread \/ Position \/ PutRecord
  BY <1>9 DEF OpenRelative, NextBlock, Spread, Position, PutRecord, CopyBroken, Transfer, To, Stopped
<1> QED
  BY <1>1, <1>2, <1>3, <1>4, <1>5, <1>6, <1>7, <1>8, <1>9 DEF DiskNext

LEMMA NotOver == DiskNext => tool # "over"
<1>1. CASE Talks
  BY <1>1 DEF Talks, IdentifyBoth, IdentifyDrive, Mode, GiveUp, Initialize, Agree, Side, Settle, EndList, Validate,
              List, Prepare, CloseRelative
<1>2. CASE Steady
  BY <1>2 DEF Steady, OpenHeader, CheckHeader, Change, NextCopy, ChangeCopy, OpenBoth, ReadSector, WriteSector,
              NextSector, CloseBoth, OpenList, NextList, Mark, SeekRelative, OpenRelative, NextBlock,
              Spread, Position, PutRecord
<1>3. CASE Block \/ FormatDisk \/ Command
  BY <1>3 DEF Block, Point, Fill, Seek, Fetch, FormatDisk, Command
<1> QED
  BY <1>1, <1>2, <1>3 DEF DiskNext, Talks, Steady

LEMMA DisksSized == DiskInit => model \in [Disks -> 0..3] /\ \A v \in Disks : SizedDisk(model[v], original[v])
<1>. SUFFICES ASSUME DiskInit
              PROVE  model \in [Disks -> 0..3] /\ \A v \in Disks : SizedDisk(model[v], original[v])
  OBVIOUS
<1>1. model \in [Disks -> 0..3] /\ original = disk
  BY DiskAssumption DEF DiskInit
<1>2. PICK size \in [Disks -> {SIDE, 2 * SIDE, DENSE}] :
        /\ \A d \in Disks : size[d] \in Sizes(model[d])
        /\ disk = [d \in Disks |-> Disk(size[d], "old", "id", d, Catalog[d])]
  BY DEF DiskInit
<1>3. ASSUME NEW v \in Disks PROVE SizedDisk(model[v], original[v])
  <2>. DEFINE z == size[v]
              x == Disk(z, "old", "id", v, Catalog[v])
              top == HeaderOn(model[v])
  <2>1. model[v] \in 0..3 /\ z \in Sizes(model[v]) /\ original[v] = x
    BY <1>1, <1>2
  <2>2. HeaderOf(z) = top /\ z \in Nat /\ top[1] \in 1..z
        /\ \A tr \in 1..z : TrackSectors(tr, z) \in Nat /\ TrackSectors(tr, z) > 0
    BY <2>1, TrackSizes
  <2>. HIDE DEF z
  <2>3. top \in Sectors(z)
    BY <2>2, SectorIs DEF HeaderOn
  <2>4. IsDisk(x, z)
    BY DEF IsDisk, Disk
  <2>5. x[top] = Title(z, "old", "id")
    BY <2>2, <2>3 DEF Disk
  <2>6. x[top].tracks = z
    BY <2>5 DEF Title
  <2>. HIDE DEF x
  <2> QED
    BY <2>1, <2>4, <2>6 DEF SizedDisk
<1> QED
  BY <1>1, <1>3

LEMMA CopyInvStarts == DiskInit => CopyInv
<1>1. DiskInit => tool = "ready" /\ verdict = "none"
  BY DEF DiskInit
<1> QED
  BY <1>1, DisksSized DEF CopyInv, CopyHeld

LEMMA CopyCommand ==
    ASSUME DiskInv, CopyInv, Command
    PROVE  CopyInv'
<1>1. UNCHANGED <<model, disk, buffer>> /\ original' = disk /\ disk = original /\ verdict' = "none"
  <2>1. tool = "ready" /\ UNCHANGED <<model, disk, buffer>> /\ original' = disk
    BY CommandStarts
  <2>2. verdict' = "none"
    BY DEF Command, Start
  <2> QED
    BY <2>1, <2>2 DEF DiskInv
<1>2. ASSUME task'.op = "diskcopy", NEW c, NEW d
      PROVE  task'.src # task'.dst /\ Copying(c, tool', task', io', block', buffer', d)
  <2>1. task'.src # task'.dst /\ task'.at = <<1, 0>> /\ tool' = "first"
    BY <1>2, CopyStarts
  <2>2. /\ tool' \notin Ways /\ tool' \notin Agreeing \cup Preparing \cup Looping
        /\ tool' \notin {"header", "write", "written", "whole", "initialize"}
    BY <2>1 DEF Ways, Agreeing, Preparing, Looping
  <2> QED
    BY <2>1, <2>2 DEF Copying, CopyOpens, CopySized, CopyRuns, UnderWay, CopyHolds, CopyWay
<1>3. CopyHeld'
  BY <1>2 DEF CopyHeld
<1>4. model' \in [Disks -> 0..3] /\ \A v \in Disks : SizedDisk(model'[v], original'[v])
  BY <1>1 DEF CopyInv
<1> QED
  BY <1>1, <1>3, <1>4 DEF CopyInv

LEMMA CopyBriefLasts ==
    ASSUME SameTask(task, task'), UNCHANGED <<original, model>>
    PROVE  CopyBrief' = CopyBrief
BY DEF SameTask, CopyBrief

LEMMA CopyStep ==
    ASSUME DiskInv, CopyInv, DiskNext
    PROVE  CopyInv'
<1>1. CASE Command
  BY <1>1, CopyCommand
<1>2. CASE Talks \/ Steady \/ Block \/ FormatDisk
  <2>1. tool # "ready"
    <3>1. CASE Steady
      BY <3>1 DEF Steady, OpenHeader, CheckHeader, Change, NextCopy, ChangeCopy, OpenBoth, ReadSector, WriteSector,
                  NextSector, CloseBoth, OpenList, NextList, Mark, SeekRelative, OpenRelative, NextBlock,
                  Spread, Position, PutRecord
    <3>2. CASE Talks
      BY <3>2 DEF Talks, IdentifyBoth, IdentifyDrive, Mode, GiveUp, Initialize, Agree, Side, Settle, EndList, Validate,
                  List, Prepare, CloseRelative
    <3>3. CASE Block \/ FormatDisk
      BY <3>3 DEF Block, Point, Fill, Seek, Fetch, FormatDisk
    <3> QED
      BY <1>2, <3>1, <3>2, <3>3
  <2>2. Staged(tool, task, block) /\ OthersAsBefore(task, disk, original) /\ Drives(disk, original, buffer)
        /\ TaskTyped(task)
    BY <2>1 DEF DiskInv, Staged
  <2>3. Staged(tool', task', block') /\ SameTask(task, task') /\ UNCHANGED <<original, model>>
    BY <1>2, <2>2, QuietStaged, SteadyStaged, BlockStaged, FormatStaged DEF diskVars
  <2>4. model' \in [Disks -> 0..3] /\ \A v \in Disks : SizedDisk(model'[v], original'[v])
    BY <2>3 DEF CopyInv
  <2>5. ASSUME task.op = "diskcopy", NEW c, c = CopyBrief
        PROVE  task.src # task.dst /\ Copying(c, tool', task', io', block', buffer', disk'[task.dst])
    <3>1. task.src # task.dst /\ Copying(c, tool, task, io, block, buffer, disk[task.dst])
      BY <2>1, <2>5 DEF CopyInv, CopyHeld
    <3>2. /\ c.src = task.src /\ c.dst = task.dst /\ c.top = HeaderOn(model[c.src]) /\ c.disk = original[c.src]
          /\ c.tracks = c.disk[c.top].tracks /\ c.src \in Disks /\ c.dst \in Disks
      BY <2>2, <2>5, CopyBriefIs DEF TaskTyped
    <3>3. model[c.src] \in 0..3 /\ c.tracks \in Sizes(model[c.src]) /\ IsDisk(c.disk, c.tracks)
      BY <3>2 DEF CopyInv, SizedDisk
    <3>4. CASE Talks
      <4>1. disk' = disk /\ tool \in Stages("diskcopy")
        <5>1. tool \notin Ways
          BY <3>4 DEF Talks, IdentifyBoth, IdentifyDrive, Mode, GiveUp, Initialize, Agree, Side, Settle, EndList,
                      Validate, List, Prepare, CloseRelative, Ways
        <5> QED
          BY <2>2, <2>5, <3>4, <5>1, QuietStaged DEF diskVars, Staged
      <4> QED
        BY <2>5, <3>1, <3>4, <4>1, CopyTalks
    <3>5. CASE Steady
      BY <3>5, <2>2, <2>5, <3>1, <3>3, SteadyDrives, CopySteady
    <3>6. CASE Block
      BY <2>2, <3>1, <3>2, <3>6, CopyBlock DEF OthersAsBefore, Drives
    <3>7. CASE FormatDisk
      BY <2>2, <3>2, <2>5, <3>1, <3>3, <3>7, CopyFormats DEF Drives
    <3> QED
      BY <1>2, <3>4, <3>5, <3>6, <3>7
  <2>6. CopyHeld'
    <3>1. ASSUME task'.op = "diskcopy"
          PROVE  task'.src # task'.dst /\ Copying(CopyBrief', tool', task', io', block', buffer', disk'[task'.dst])
      BY <2>3, <3>1, <2>5, CopyBriefLasts DEF SameTask
    <3> QED
      BY <3>1 DEF CopyHeld
  <2>7. ASSUME verdict' = "complete"
        PROVE  tool' = "over" /\ task'.op = "diskcopy" /\ disk'[task'.dst] = original'[task'.src]
    <3>1. verdict # "complete"
      BY NotOver DEF CopyInv
    <3>2. Initialize /\ task.op = "diskcopy" /\ task.ok
      BY <2>7, <3>1, SaysComplete
    <3>3. tool = "initialize" /\ tool' = "over" /\ UNCHANGED <<task, disk, original>>
      BY <3>2 DEF Initialize, Stopped, diskVars
    <3>4. disk[task.dst] = original[task.src]
      BY <2>1, <3>2, <3>3 DEF CopyInv, CopyHeld, CopyBrief, Copying, CopyHolds
    <3> QED
      BY <3>2, <3>3, <3>4
  <2> QED
    BY <2>4, <2>6, <2>7 DEF CopyInv
<1> QED
  BY <1>1, <1>2 DEF DiskNext, Talks, Steady

LEMMA CopyStutters ==
    ASSUME CopyInv, UNCHANGED toolVars
    PROVE  CopyInv'
BY DEF CopyInv, CopyHeld, CopyBrief, toolVars, diskVars, fileVars

-----------------------------------------------------------------------------
(* What LABEL, DISKID and ATTRIB say that they did                         *)

HeadsAt(m, x) ==
    \A s \in DOMAIN x :
      /\ x[s].kind = "header" => s = HeaderOn(m)
      /\ x[s].kind = "repeat" => m = 3 /\ s \in {<<DENSEHEADER, 1>>, <<DENSEHEADER, 2>>}

AsWanted(b, d, s) == d[s] = AskedBy(b, b.disk[s])
DoneTo(b, d, n) == \A s \in AimedBy(b) : s[2] < n => AsWanted(b, d, s)
AllDone(b, d) == \A s \in AimedBy(b) : AsWanted(b, d, s)

HeadsDone(b, x, bl, d) ==
    /\ x = "repeat" \/ (x \in Ways /\ bl.then \in {"changed", "repeat"}) => DoneTo(b, d, bl.sector[2])
    /\ x = "changed" => DoneTo(b, d, bl.sector[2] + 1)
    /\ x = "initialize" => AllDone(b, d)

(* ATTRIB has looked at n sectors of the directory, and written k. *)
Stop(b, i) == Walk(b.disk, FirstOf(b))[i]
NoneIn(b, s) == \A e \in b.disk[s].entries : ~(e.used /\ e.name \in b.names)
Passed(b, d, p, n, k) ==
    /\ p.found \/ \A i \in 0..n - 1 : NoneIn(b, Stop(b, i))
    /\ b.mark = "shown" \/ \A i \in 0..k - 1 : AsWanted(b, d, Stop(b, i))

AllPassed(b, d, p) ==
    /\ p.found \/ \A s \in AimedBy(b) : NoneIn(b, s)
    /\ b.mark = "shown" \/ AllDone(b, d)

MarksDone(b, x, t, y, bl, bu, p, d) ==
    /\ AtLink(x) \/ x = "follow" => Passed(b, d, p, p.count, p.count)
    /\ x = "mark" \/ (x \in Ways /\ bl.then = "mark") => Passed(b, d, p, p.count - 1, p.count - 1)
    /\ x \in Ways /\ bl.then = "follow" => Passed(b, d, p, p.count, p.count - 1)
    /\ x = "fetch" /\ bl.then = "mark" => bu[b.src] = d[bl.sector]
    /\ x = "mark" => y = d[t.at]
    /\ x = "listed" => AllPassed(b, d, p)

EditsDone(b, x, t, y, bl, bu, p, d) ==
    /\ b.op # "attrib" => HeadsDone(b, x, bl, d)
    /\ b.op = "attrib" => MarksDone(b, x, t, y, bl, bu, p, d)

EditsHeld ==
    tool # "ready" /\ task.op \in EditOps =>
      EditsDone(Brief, tool, task, io, block, buffer, progress, disk[task.src])

EditInv ==
    /\ \A v \in Disks : SizedDisk(model[v], original[v]) /\ HeadsAt(model[v], original[v])
    /\ model \in [Disks -> 0..3]
    /\ EditsHeld
    /\ verdict = "done" /\ task.op \in EditOps => tool = "over" /\ AllDone(Brief, disk[task.src])
    /\ verdict = "missing" =>
         /\ tool = "over" /\ task.op \in EditOps
         /\ \A s \in AimedBy(Brief) : NoneIn(Brief, s)

Idling == {"identify", "mode", "open", "header", "give up", "find", "over", "astray", "change"}

LEMMA NothingDone ==
    ASSUME NEW b, NEW x, NEW t, NEW y, NEW bl, NEW bu, NEW p, NEW d,
           x \in Idling \/ (x \in Ways /\ bl.then = "header")
    PROVE  EditsDone(b, x, t, y, bl, bu, p, d)
<1>1. /\ x \notin {"repeat", "changed", "initialize", "mark", "listed", "follow", "open list", "list"}
      /\ x \in Ways => bl.then = "header"
  BY DEF Idling, Ways
<1>2. HeadsDone(b, x, bl, d)
  BY <1>1 DEF HeadsDone
<1>3. MarksDone(b, x, t, y, bl, bu, p, d)
  <2>1. x = "fetch" => bl.then = "header"
    BY <1>1 DEF Ways
  <2> QED
    BY <1>1, <2>1 DEF MarksDone, AtLink
<1> QED
  BY <1>2, <1>3 DEF EditsDone

(* A walk that left the disk does not come back. *)
LEMMA StaysOut ==
    ASSUME NEW d, NEW s, Cardinality(DOMAIN d) \in Nat, NEW k \in 0..Cardinality(DOMAIN d),
           Walk(d, s)[k] \notin DOMAIN d, NEW n \in k..Cardinality(DOMAIN d)
    PROVE  Walk(d, s)[n] \notin DOMAIN d
<1>. DEFINE most == Cardinality(DOMAIN d)
            w == Walk(d, s)
            Bad == {m \in Nat : m \in k..most /\ w[m] \in DOMAIN d}
<1>1. ASSUME Bad # {} PROVE FALSE
  <2>1. PICK m \in Bad : \A j \in Bad : m <= j
    BY <1>1, LeastNumber
  <2>2. m \in k..most /\ w[m] \in DOMAIN d /\ m # k /\ k \in Nat /\ most \in Nat
    OBVIOUS
  <2>3. m - 1 \in Nat /\ m - 1 \in k..most /\ m \in 1..most
    BY <2>2
  <2>4. m - 1 \notin Bad
    BY <2>1, <2>3
  <2>5. w[m - 1] \notin DOMAIN d
    BY <2>3, <2>4
  <2>6. w[m] = NextOf(d, w[m - 1])
    BY <2>3, WalkIs
  <2> QED
    BY <2>2, <2>5, <2>6 DEF NextOf
<1>2. n \in Nat /\ n \in k..most
  OBVIOUS
<1>3. n \notin Bad
  BY <1>1
<1> QED
  BY <1>2, <1>3

LEMMA ChainIs ==
    ASSUME NEW d, NEW s, IsFiniteSet(DOMAIN d), NEW i \in DOMAIN Chain(d, s).sectors
    PROVE  \E k \in Nat : /\ k <= Cardinality(DOMAIN d) /\ Chain(d, s).sectors[i] = Walk(d, s)[k]
                          /\ \A j \in 0..k : Walk(d, s)[j] \in DOMAIN d
<1>. DEFINE w == Walk(d, s)
            most == Cardinality(DOMAIN d)
            S == {n \in 0..most - 1 : w[n] \in DOMAIN d}
            steps == Cardinality(S)
            k == i - 1
<1>1. most \in Nat
  BY FS_CardinalityType
<1>2. Chain(d, s).sectors = [n \in 1..steps |-> w[n - 1]]
  BY DEF Chain
<1>3. IsFiniteSet(0..most - 1) /\ Cardinality(0..most - 1) = most
  <2>. DEFINE u == most - 1
  <2>1. u \in Int /\ 0 \in Int /\ (0 <= u => u - 0 + 1 = most) /\ (0 > u => most = 0)
    BY <1>1
  <2>. HIDE DEF u
  <2>2. IsFiniteSet(0..u) /\ Cardinality(0..u) = IF 0 > u THEN 0 ELSE u - 0 + 1
    BY <2>1, FS_Interval
  <2>3. Cardinality(0..u) = most
    BY <2>1, <2>2
  <2> QED
    BY <2>2, <2>3 DEF u
<1>4. IsFiniteSet(S) /\ steps \in Nat /\ steps <= most
  BY <1>3, FS_Subset, FS_CardinalityType
<1>5. i \in 1..steps /\ k \in Nat /\ k < steps /\ k <= most
  <2>1. DOMAIN Chain(d, s).sectors = 1..steps
    BY <1>2
  <2>. HIDE DEF steps
  <2> QED
    BY <1>1, <1>4, <2>1
<1>6. Chain(d, s).sectors[i] = w[k]
  BY <1>2, <1>5
<1>7. ASSUME NEW j \in 0..k, w[j] \notin DOMAIN d PROVE FALSE
  <2>1. j \in Nat /\ j <= k /\ j \in 0..most
    BY <1>1, <1>5
  <2>2. \A n \in 0..most : n >= j => w[n] \notin DOMAIN d
    <3>1. ASSUME NEW n \in 0..most, n >= j PROVE w[n] \notin DOMAIN d
      BY <1>1, <2>1, <3>1, <1>7, StaysOut
    <3> QED
      BY <3>1
  <2>. DEFINE u == j - 1
  <2>3. S \subseteq 0..u
    <3>1. ASSUME NEW n \in S PROVE n \in 0..u
      BY <1>1, <2>2, <2>1
    <3> QED
      BY <3>1
  <2>4. IsFiniteSet(0..u) /\ Cardinality(0..u) = j
    <3>1. u \in Int /\ 0 \in Int /\ (0 <= u => u - 0 + 1 = j) /\ (0 > u => j = 0)
      BY <2>1
    <3>. HIDE DEF u
    <3>2. IsFiniteSet(0..u) /\ Cardinality(0..u) = IF 0 > u THEN 0 ELSE u - 0 + 1
      BY <3>1, FS_Interval
    <3> QED
      BY <3>1, <3>2
  <2>5. steps <= j
    <3>. HIDE DEF S, u
    <3> QED
      BY <2>3, <2>4, FS_Subset
  <2>. HIDE DEF steps
  <2> QED
    BY <1>4, <1>5, <2>1, <2>5
<1>. HIDE DEF k, w
<1> QED
  BY <1>5, <1>6, <1>7 DEF w

(* The sectors that are aimed at are on the disk. *)
LEMMA AimedOn ==
    ASSUME NEW b, GoodDisk(b.model, b.disk), NEW s \in AimedBy(b)
    PROVE  /\ s \in DOMAIN b.disk
           /\ b.op = "attrib" =>
                \E k \in Nat : /\ k <= Cardinality(DOMAIN b.disk) /\ s = Stop(b, k)
                               /\ \A j \in 0..k : Stop(b, j) \in DOMAIN b.disk
<1>1. IsFiniteSet(DOMAIN b.disk)
  BY DEF GoodDisk
<1>2. CASE b.op = "attrib"
  <2>1. PICK i \in DOMAIN Chain(b.disk, FirstOf(b)).sectors : s = Chain(b.disk, FirstOf(b)).sectors[i]
    BY <1>2 DEF AimedBy
  <2>2. PICK k \in Nat : /\ k <= Cardinality(DOMAIN b.disk)
                         /\ Chain(b.disk, FirstOf(b)).sectors[i] = Walk(b.disk, FirstOf(b))[k]
                         /\ \A j \in 0..k : Walk(b.disk, FirstOf(b))[j] \in DOMAIN b.disk
    BY <1>1, <2>1, ChainIs
  <2>3. k \in 0..k
    OBVIOUS
  <2> QED
    BY <2>1, <2>2, <2>3 DEF Stop
<1>3. CASE b.op # "attrib"
  BY <1>3 DEF AimedBy
<1> QED
  BY <1>2, <1>3

LEMMA HeadsAimed ==
    ASSUME NEW b, b.op \in {"label", "diskid"}, HeadsAt(b.model, b.disk), NEW s \in AimedBy(b)
    PROVE  s \in {HeaderOn(b.model)} \cup Again(b)
BY DEF AimedBy, HeadsAt, Again

LEMMA HeadsApart ==
    ASSUME NEW b, NEW s \in {HeaderOn(b.model)} \cup Again(b), NEW u \in {HeaderOn(b.model)} \cup Again(b)
    PROVE  s[2] \in {0, 1, 2} /\ (s[2] = u[2] => s = u)
<1>1. ASSUME NEW z \in {HeaderOn(b.model)} \cup Again(b)
      PROVE  \/ z = HeaderOn(b.model) /\ z[2] = 0
             \/ z = <<DENSEHEADER, 1>> /\ z[2] = 1
             \/ z = <<DENSEHEADER, 2>> /\ z[2] = 2
  BY <1>1 DEF Again, HeaderOn
<1> QED
  BY <1>1

LEMMA EditTalks ==
    ASSUME task.op \in EditOps, tool \in Stages(task.op), Talks
    PROVE  /\ tool' \in {"identify", "mode", "open", "over"} /\ UNCHANGED diskVars
           /\ verdict' # verdict /\ verdict' \in {"done", "missing"} =>
                \/ Initialize /\ verdict' = "done"
                \/ EndList /\ tool = "listed" /\ task.op = "attrib" /\ (verdict' = "missing" => ~progress.found)
<1>1. tool \notin {"second", "first", "agree", "side", "settle", "settle both", "validate", "prepare", "scratch"}
  BY DEF Stages, HeaderStages, ListStages, EditOps
<1>2. CASE IdentifyDrive \/ Mode
  BY <1>2 DEF IdentifyDrive, Identify, Mode, To, Stopped, EditOps
<1>3. CASE GiveUp \/ List
  BY <1>3 DEF GiveUp, List, To, Stopped, diskVars
<1>4. CASE Initialize
  <2>1. task.op # "diskcopy"
    BY DEF EditOps
  <2> QED
    BY <1>4, <2>1 DEF Initialize, Stopped
<1>5. CASE EndList
  <2>1. task.op = "attrib"
    BY <1>5 DEF EndList, Stages, HeaderStages, ListStages, EditOps
  <2> QED
    BY <1>5, <2>1 DEF EndList, Stopped, diskVars
<1>6. CASE IdentifyBoth \/ Agree \/ Side \/ Settle \/ Validate \/ Prepare
  BY <1>1, <1>6 DEF IdentifyBoth, Agree, Side, Settle, Validate, Prepare
<1>7. CASE CloseRelative
  <2>1. tool \notin {"relative over", "relative broken"}
    BY DEF Stages, HeaderStages, ListStages, EditOps
  <2> QED
    BY <1>7, <2>1 DEF CloseRelative
<1> QED
  BY <1>2, <1>3, <1>4, <1>5, <1>6, <1>7 DEF Talks

(* A write goes where it was aimed, and changes no other sector. *)
LEMMA WriteDone ==
    ASSUME NEW b, NEW d, NEW e, NEW s, s \in DOMAIN b.disk, DOMAIN d = DOMAIN b.disk,
           e = [d EXCEPT ![s] = AskedBy(b, b.disk[s])], NEW u, u \in DOMAIN b.disk, AsWanted(b, d, u) \/ u = s
    PROVE  AsWanted(b, e, u)
BY DEF AsWanted

LEMMA FetchesDone ==
    ASSUME NEW b, b.src \in DOMAIN buffer, Block, Brought(b, tool, task, block, buffer),
           block.dev = b.src, tool \in Ways, tool' # block.otherwise,
           EditsDone(b, tool, task, io, block, buffer, progress, disk[b.src])
    PROVE  disk' = disk /\ EditsDone(b, tool', task', io', block', buffer', progress', disk'[b.src])
<1>1. block.writing = FALSE /\ tool \in {"seek", "fetch"} /\ block.then \in {"header", "repeat", "mark"}
  BY DEF Brought
<1>2. disk' = disk /\ UNCHANGED <<task, block, progress>>
  BY <1>1 DEF Block, Point, Fill, Seek, Fetch, diskVars, fileVars
<1>3. \/ /\ tool = "seek" /\ tool' = "fetch"
         /\ buffer' = [buffer EXCEPT ![block.dev] = disk[block.dev][block.sector]]
      \/ tool = "fetch" /\ tool' = block.then /\ io' = buffer[block.dev]
  BY <1>1 DEF Block, Point, Fill, Seek, Fetch, To, Fault, Refused
<1>. DEFINE d == disk[b.src]
<1>4. CASE b.op # "attrib"
  BY <1>4, <1>1, <1>3, <1>2 DEF EditsDone, HeadsDone, Ways
<1>5. CASE b.op = "attrib"
  <2>1. MarksDone(b, tool, task, io, block, buffer, progress, d)
    BY <1>5 DEF EditsDone
  <2>2. CASE tool = "seek" /\ tool' = "fetch" /\ buffer' = [buffer EXCEPT ![block.dev] = disk[block.dev][block.sector]]
    <3>1. buffer'[b.src] = d[block.sector] /\ "fetch" \in Ways
      BY <2>2 DEF Ways
    <3>2. MarksDone(b, "fetch", task, io', block, buffer', progress, d)
      BY <1>1, <2>1, <2>2, <3>1 DEF MarksDone, AtLink
    <3> QED
      BY <1>2, <1>5, <2>2, <3>2 DEF EditsDone
  <2>3. CASE tool = "fetch" /\ tool' = block.then /\ io' = buffer[block.dev]
    <3>1. tool' = "mark" => io' = d[block.sector] /\ block.sector = task.at
      BY <2>1, <2>3 DEF MarksDone, Brought
    <3>2. tool' \notin Ways /\ tool' \in {"header", "repeat", "mark"}
      BY <1>1, <2>3 DEF Ways
    <3>3. MarksDone(b, tool', task, io', block, buffer', progress, d)
      BY <2>1, <2>3, <3>1, <3>2 DEF MarksDone, AtLink
    <3> QED
      BY <1>2, <1>5, <3>3 DEF EditsDone
  <2> QED
    BY <1>3, <2>2, <2>3
<1> QED
  BY <1>2, <1>4, <1>5

LEMMA StoresDone ==
    ASSUME NEW b, b.op \in EditOps, GoodDisk(b.model, b.disk), HeadsAt(b.model, b.disk), HeldDisk(b, disk),
           b.src \in DOMAIN disk, b.src \in DOMAIN buffer, Block, Carried(b, tool, task, io, block, buffer),
           block.dev = b.src, block.sector \in DOMAIN b.disk, tool \in Ways, tool' # block.otherwise,
           HeldWalk(b, tool, task, block, progress), block.then \in Stages(b.op),
           EditsDone(b, tool, task, io, block, buffer, progress, disk[b.src])
    PROVE  EditsDone(b, tool', task', io', block', buffer', progress', disk'[b.src])
<1>. DEFINE d == disk[b.src]
            e == disk'[b.src]
            s == block.sector
<1>1. /\ block.writing = TRUE /\ tool \in {"point", "fill", "seek"} /\ s \in AimedBy(b)
      /\ io = AskedBy(b, b.disk[s]) /\ (tool = "seek" => buffer[b.src] = io)
      /\ \/ block.then = "changed" /\ s \in {HeaderOn(b.model)} \cup Again(b)
         \/ block.then = "follow" /\ s = task.at
  BY DEF Carried
<1>2. UNCHANGED <<task, block, progress>>
  BY <1>1 DEF Block, Point, Fill, Seek, Fetch, diskVars, fileVars
<1>3. \/ tool = "point" /\ tool' = "fill" /\ disk' = disk
      \/ tool = "fill" /\ tool' = "seek" /\ disk' = disk
      \/ /\ tool = "seek" /\ tool' = block.then
         /\ disk' = [disk EXCEPT ![block.dev][s] = buffer[block.dev]]
  BY <1>1 DEF Block, Point, Fill, Seek, Fetch, To, Fault, Refused, diskVars
<1>4. CASE tool # "seek"
  <2>1. tool' \in {"fill", "seek"} /\ tool' \in Ways /\ e = d
    BY <1>3, <1>4 DEF Ways
  <2>2. b.op # "attrib" => HeadsDone(b, tool', block', e)
    BY <1>2, <2>1 DEF EditsDone, HeadsDone
  <2>3. b.op = "attrib" => MarksDone(b, tool', task', io', block', buffer', progress', e)
    BY <1>2, <2>1 DEF EditsDone, MarksDone, AtLink
  <2> QED
    BY <2>2, <2>3 DEF EditsDone
<1>5. CASE tool = "seek"
  <2>1. tool' = block.then /\ disk' = [disk EXCEPT ![b.src][s] = AskedBy(b, b.disk[s])]
    BY <1>1, <1>3, <1>5
  <2>2. e = [d EXCEPT ![s] = AskedBy(b, b.disk[s])] /\ DOMAIN d = DOMAIN b.disk
    BY <2>1 DEF HeldDisk
  <2>. HIDE DEF d, e, s
  <2>3. s \in DOMAIN b.disk
    BY DEF s
  <2>4. \A u \in DOMAIN b.disk : AsWanted(b, d, u) \/ u = s => AsWanted(b, e, u)
    BY <2>2, <2>3, WriteDone
  <2>5. CASE b.op # "attrib"
    <3>1. tool' = "changed" /\ s \in {HeaderOn(b.model)} \cup Again(b)
      <4>1. block.then # "follow"
        BY <2>5, StagesOf DEF EditOps, DiskOps
      <4> QED
        BY <1>1, <2>1, <4>1 DEF s
    <3>2. DoneTo(b, d, s[2])
      BY <1>1, <2>1, <2>5, <3>1 DEF EditsDone, HeadsDone, d, s
    <3>3. ASSUME NEW u \in AimedBy(b), u[2] < s[2] + 1 PROVE AsWanted(b, e, u)
      <4>1. u \in {HeaderOn(b.model)} \cup Again(b) /\ u \in DOMAIN b.disk
        BY <2>5, HeadsAimed, AimedOn DEF EditOps
      <4>2. u[2] \in {0, 1, 2} /\ s[2] \in {0, 1, 2} /\ (u[2] = s[2] => u = s)
        BY <3>1, <4>1, HeadsApart
      <4>3. u[2] < s[2] \/ u = s
        BY <3>3, <4>2
      <4> QED
        BY <2>4, <3>2, <4>1, <4>3 DEF DoneTo
    <3>4. DoneTo(b, e, s[2] + 1)
      BY <3>3 DEF DoneTo
    <3>5. HeadsDone(b, tool', block', e)
      BY <1>2, <3>1, <3>4 DEF HeadsDone, Ways, s
    <3> QED
      BY <2>5, <3>5 DEF EditsDone, e
  <2>6. CASE b.op = "attrib"
    <3>1. tool' = "follow" /\ s = task.at
      <4>1. block.then # "changed"
        BY <2>6, StagesOf DEF EditOps, DiskOps
      <4> QED
        BY <1>1, <2>1, <4>1 DEF s
    <3>. DEFINE n == progress.count
    <3>2. Been(b, task, progress) /\ n > 0 /\ Reached(b, n - 1, task.at) /\ task.at \in DOMAIN b.disk
      BY <2>1, <2>6, <3>1 DEF HeldWalk, AtSector
    <3>3. n \in Nat
      BY <2>6, <3>2, SectorAimed
    <3>4. Stop(b, n - 1) = s /\ \A i \in 0..(n - 1) - 1 : Stop(b, i) \in DOMAIN b.disk
      BY <3>1, <3>2 DEF Reached, Stop
    <3>5. Passed(b, d, progress, n, n - 1)
      BY <2>1, <2>6, <3>1 DEF EditsDone, MarksDone, d
    <3>6. ASSUME NEW i \in 0..n - 1, b.mark # "shown" PROVE AsWanted(b, e, Stop(b, i))
      <4>1. CASE i = n - 1
        BY <2>3, <2>4, <3>4, <4>1
      <4>2. CASE i # n - 1
        BY <3>3, <4>2, <3>4, <3>5, <3>6, <2>4 DEF Passed
      <4> QED
        BY <4>1, <4>2
    <3>7. Passed(b, e, progress, n, n)
      BY <3>5, <3>6 DEF Passed
    <3>8. MarksDone(b, tool', task', io', block', buffer', progress', e)
      BY <1>2, <3>1, <3>7 DEF MarksDone, AtLink, Ways
    <3> QED
      BY <2>6, <3>8 DEF EditsDone, e
  <2> QED
    BY <2>5, <2>6
<1> QED
  BY <1>4, <1>5

LEMMA BlockDone ==
    ASSUME NEW b, b.op \in EditOps, GoodDisk(b.model, b.disk), HeadsAt(b.model, b.disk), HeldDisk(b, disk),
           b.src \in DOMAIN disk, b.src \in DOMAIN buffer, Block, b.op = task.op, Staged(tool, task, block),
           Edited(b, tool, task, io, block, buffer, progress),
           EditsDone(b, tool, task, io, block, buffer, progress, disk[b.src])
    PROVE  EditsDone(b, tool', task', io', block', buffer', progress', disk'[b.src])
<1>1. tool \in Ways
  BY DEF Block, Point, Fill, Seek, Fetch, Ways
<1>2. /\ block.dev = b.src /\ block.sector \in DOMAIN b.disk /\ block.otherwise \in {"give up", "astray"}
      /\ Carried(b, tool, task, io, block, buffer) \/ Brought(b, tool, task, block, buffer)
      /\ HeldWalk(b, tool, task, block, progress)
  BY <1>1 DEF Edited, HeldWay
<1>3. block.then \in Stages(b.op)
  BY <1>1 DEF Staged
<1>4. CASE tool' = block.otherwise
  <2>1. tool' \in Idling
    BY <1>2, <1>4 DEF Idling
  <2> QED
    BY <2>1, NothingDone
<1>5. CASE tool' # block.otherwise /\ Carried(b, tool, task, io, block, buffer)
  BY <1>1, <1>2, <1>3, <1>5, StoresDone
<1>6. CASE tool' # block.otherwise /\ Brought(b, tool, task, block, buffer)
  BY <1>1, <1>2, <1>6, FetchesDone
<1> QED
  BY <1>2, <1>4, <1>5, <1>6

LEMMA HeaderDone ==
    ASSUME NEW b, b.op = task.op, b.op \in EditOps, OpenHeader \/ CheckHeader, NEW d,
           Edited(b, tool, task, io, block, buffer, progress)
    PROVE  EditsDone(b, tool', task', io', block', buffer', progress', d)
<1>1. CASE OpenHeader
  <2>1. tool' = "over" \/ (tool' = "seek" /\ block'.then = "header")
    <3>1. \/ tool' = "over"
          \/ tool' = "seek" /\ block' = Sent(2, task.src, HeaderSector(task.src), FALSE, "header", "give up")
      BY <1>1 DEF OpenHeader, Stopped, Transfer, To, Sent
    <3>2. Sent(2, task.src, HeaderSector(task.src), FALSE, "header", "give up").then = "header"
      BY DEF Sent
    <3> QED
      BY <3>1, <3>2
  <2>2. "over" \in Idling /\ "seek" \in Ways
    BY DEF Idling, Ways
  <2> QED
    BY <2>1, <2>2, NothingDone
<1>2. CASE CheckHeader
  <2>1. task.op \notin {"vol", "chkdsk", "diskcopy"} /\ UNCHANGED progress /\ tool = "header"
    BY <1>2 DEF CheckHeader, fileVars, EditOps
  <2>2. tool' \in {"over", "identify", "change"} \/ (tool' = "open list" /\ b.op = "attrib")
    <3>1. task.op \in {"label", "diskid"} \/ task.op = "attrib"
      BY DEF EditOps
    <3> QED
      BY <1>2, <2>1, <3>1 DEF CheckHeader, Stopped, To
  <2>3. CASE tool' \in {"over", "identify", "change"}
    <3>1. tool' \in Idling
      BY <2>3 DEF Idling
    <3> QED
      BY <3>1, NothingDone
  <2>4. CASE tool' = "open list" /\ b.op = "attrib"
    <3>1. progress'.count = 0
      BY <2>1, <2>4 DEF Edited, HeldWalk, Far
    <3>2. Passed(b, d, progress', 0, 0)
      BY DEF Passed
    <3>3. MarksDone(b, tool', task', io', block', buffer', progress', d)
      BY <2>4, <3>1, <3>2 DEF MarksDone, AtLink, Ways
    <3> QED
      BY <2>4, <3>3 DEF EditsDone
  <2> QED
    BY <2>2, <2>3, <2>4
<1> QED
  BY <1>1, <1>2

LEMMA ChangeDone ==
    ASSUME NEW b, b = Brief, b.op \in {"label", "diskid"}, HeadsAt(b.model, b.disk), GoodDisk(b.model, b.disk),
           Change \/ ChangeCopy \/ NextCopy, NEW d,
           Edited(b, tool, task, io, block, buffer, progress),
           EditsDone(b, tool, task, io, block, buffer, progress, d)
    PROVE  EditsDone(b, tool', task', io', block', buffer', progress', d)
<1>1. \A u \in AimedBy(b) : u \in {HeaderOn(b.model)} \cup Again(b) /\ u[2] \in {0, 1, 2}
  BY HeadsAimed, HeadsApart
<1>2. CASE Change
  <2>1. tool' = "over" \/ (tool' = "point" /\ block'.then = "changed" /\ block'.sector = HeaderOn(b.model))
    <3>. DEFINE bl == Sent(2, task.src, HeaderSector(task.src), TRUE, "changed", "give up")
    <3>1. tool' = "over" \/ (tool' = "point" /\ block' = bl)
      BY <1>2 DEF Change, Stopped, Transfer, To, Sent
    <3>2. bl.then = "changed" /\ bl.sector = HeaderOn(b.model)
      BY BriefIs DEF Sent
    <3>. HIDE DEF bl
    <3> QED
      BY <3>1, <3>2
  <2>2. CASE tool' = "over"
    <3>1. tool' \in Idling
      BY <2>2 DEF Idling
    <3> QED
      BY <3>1, NothingDone
  <2>3. CASE tool' = "point" /\ block'.then = "changed" /\ block'.sector = HeaderOn(b.model)
    BY <2>3, <1>1 DEF HeaderOn, DoneTo, HeadsDone, EditsDone
  <2> QED
    BY <2>1, <2>2, <2>3
<1>3. CASE ChangeCopy
  <2>1. tool = "repeat" /\ tool' = "point" /\ block'.then = "changed" /\ block'.sector = block.sector
    BY <1>3 DEF ChangeCopy, Transfer, To
  <2>2. HeadsDone(b, tool', block', d)
    BY <2>1 DEF EditsDone, HeadsDone
  <2> QED
    BY <2>2 DEF EditsDone
<1>4. CASE NextCopy
  <2>. DEFINE se == block.sector[2] + 1
  <2>1. /\ tool = "changed"
        /\ \/ ~(se <= Copies) /\ tool' = "initialize"
           \/ tool' = "seek" /\ block'.then = "repeat" /\ block'.sector[2] = se
    <3>. DEFINE bl == Sent(2, task.src, <<DENSEHEADER, se>>, FALSE, "repeat", "give up")
    <3>1. /\ tool = "changed"
          /\ (~(se <= Copies) /\ tool' = "initialize") \/ (tool' = "seek" /\ block' = bl)
      BY <1>4 DEF NextCopy, Transfer, To, Sent, ReadFirst
    <3>2. bl.then = "repeat" /\ bl.sector[2] = se
      BY DEF Sent
    <3>. HIDE DEF bl, se
    <3> QED
      BY <3>1, <3>2
  <2>2. DoneTo(b, d, se)
    BY <2>1 DEF EditsDone, HeadsDone
  <2>3. block.sector \in {HeaderOn(b.model)} \cup Again(b)
    BY <2>1 DEF Edited, HeldRepeat
  <2>4. block.sector[2] \in {0, 1, 2}
    BY <2>3, HeadsApart
  <2>. HIDE DEF se
  <2>5. CASE tool' = "seek" /\ block'.then = "repeat" /\ block'.sector[2] = se
    BY <2>2, <2>5 DEF HeadsDone, EditsDone
  <2>6. CASE ~(se <= Copies) /\ tool' = "initialize"
    <3>1. Copies = IF b.op = "diskid" /\ b.model = 3 THEN 2 ELSE 0
      BY BriefIs DEF Copies
    <3>2. ASSUME NEW u \in AimedBy(b) PROVE AsWanted(b, d, u)
      <4>1. u \in {HeaderOn(b.model)} \cup Again(b) /\ u[2] \in {0, 1, 2}
        BY <1>1
      <4>2. u[2] < se
        <5>1. CASE b.op = "diskid" /\ b.model = 3
          BY <2>6, <3>1, <5>1, <2>4, <4>1 DEF se
        <5>2. CASE ~(b.op = "diskid" /\ b.model = 3)
          BY <4>1, <5>2, <2>4 DEF Again, HeaderOn, se
        <5> QED
          BY <5>1, <5>2
      <4> QED
        BY <2>2, <4>2 DEF DoneTo
    <3>3. HeadsDone(b, tool', block', d)
      BY <2>6, <3>2 DEF HeadsDone, AllDone, Ways
    <3> QED
      BY <3>3 DEF EditsDone
  <2> QED
    BY <2>1, <2>5, <2>6
<1> QED
  BY <1>2, <1>3, <1>4

LEMMA ListDone ==
    ASSUME NEW b, b = Brief, b.op = "attrib", GoodDisk(b.model, b.disk), NEW z \in Nat, IsDisk(b.disk, z),
           \A tr \in 1..z : TrackSectors(tr, z) \in Nat, OpenList \/ NextList, NEW d,
           Edited(b, tool, task, io, block, buffer, progress),
           EditsDone(b, tool, task, io, block, buffer, progress, d)
    PROVE  EditsDone(b, tool', task', io', block', buffer', progress', d)
<1>1. tool \in {"open list", "list"} /\ MarksDone(b, tool, task, io, block, buffer, progress, d)
  BY DEF OpenList, NextList, EditsDone
<1>2. /\ Passed(b, d, progress, progress.count, progress.count) /\ Reached(b, progress.count, task.at)
      /\ Been(b, task, progress) /\ Fields(progress) /\ task.at \in Nat \X Nat
  BY <1>1 DEF MarksDone, AtLink, Edited, HeldWalk
<1>3. CASE tool' \in {"over", "astray"}
  <2>1. tool' \in Idling
    BY <1>3 DEF Idling
  <2> QED
    BY <2>1, NothingDone
<1>4. CASE OpenList /\ tool' = "list"
  <2>1. progress' = progress
    BY <1>4 DEF OpenList, fileVars
  <2>2. MarksDone(b, tool', task', io', block', buffer', progress', d)
    BY <1>2, <1>4, <2>1 DEF MarksDone, AtLink, Ways
  <2> QED
    BY <2>2 DEF EditsDone
<1>5. CASE NextList /\ tool' = "listed"
  <2>1. tool = "list" /\ task.at[1] = 0 /\ progress' = progress
    BY <1>5 DEF NextList, To, Transfer
  <2>2. task.at \notin DOMAIN b.disk
    <3>1. DOMAIN b.disk = Sectors(z)
      BY DEF IsDisk
    <3>2. ASSUME task.at \in Sectors(z) PROVE FALSE
      <4>1. PICK tr \in 1..z : \E se \in Nat : task.at = <<tr, se>>
        BY <3>2, SectorIs
      <4>2. tr = 0
        BY <2>1, <4>1
      <4> QED
        BY <4>2
    <3> QED
      BY <3>1, <3>2
  <2>3. Stop(b, progress.count) = task.at /\ progress.count \in Nat
    BY <1>2, FS_CardinalityType DEF GoodDisk, Reached, Stop
  <2>4. ASSUME NEW s \in AimedBy(b)
        PROVE  \E k \in 0..progress.count - 1 : s = Stop(b, k)
    <3>1. PICK k \in Nat : s = Stop(b, k) /\ \A j \in 0..k : Stop(b, j) \in DOMAIN b.disk
      BY AimedOn
    <3>2. progress.count \notin 0..k
      BY <2>2, <2>3, <3>1
    <3>3. k \in 0..progress.count - 1
      BY <2>3, <3>2
    <3> QED
      BY <3>1, <3>3
  <2>5. AllPassed(b, d, progress)
    BY <1>2, <2>4 DEF Passed, AllPassed, AllDone
  <2>6. MarksDone(b, tool', task', io', block', buffer', progress', d)
    BY <1>5, <2>1, <2>5 DEF MarksDone, AtLink, Ways
  <2> QED
    BY <2>6 DEF EditsDone
<1>6. CASE NextList /\ tool' = "seek"
  <2>1. block'.then = "mark" /\ progress' = [progress EXCEPT !.seen = @ \cup {task.at}, !.count = @ + 1]
    BY <1>6, BriefIs DEF NextList, To, Transfer
  <2>2. progress.count \in Nat
    BY <1>2, FS_CardinalityType DEF GoodDisk, Reached
  <2>3. progress'.count - 1 = progress.count /\ progress'.found = progress.found
    BY <1>2, <2>1, <2>2 DEF Fields
  <2>4. Passed(b, d, progress', progress'.count - 1, progress'.count - 1)
    BY <1>2, <2>3 DEF Passed
  <2>5. MarksDone(b, tool', task', io', block', buffer', progress', d)
    BY <1>6, <2>1, <2>4 DEF MarksDone, AtLink, Ways
  <2> QED
    BY <2>5 DEF EditsDone
<1> QED
  BY <1>3, <1>4, <1>5, <1>6 DEF OpenList, NextList, To, Stopped, Transfer

LEMMA HitsAre ==
    ASSUME NEW b, b = Brief, NEW s, b.disk[s] \in ListSectors, NEW y, Kept(b, y, s), b.op = "attrib",
           {e \in y.entries : Hit(e)} = {}
    PROVE  NoneIn(b, s)
<1>. DEFINE x == b.disk[s]
<1>1. x \in ListSectors /\ (y = x \/ y = AskedBy(b, x))
  BY DEF Kept
<1>. HIDE DEF x
<1>2. ASSUME NEW e \in x.entries, e.used, e.name \in b.names PROVE FALSE
  <2>1. e \in DiskEntry
    BY <1>1, <1>2 DEF ListSectors
  <2>2. b.names = task.names
    BY DEF Brief
  <2>3. CASE y = x
    BY <1>2, <2>2, <2>3 DEF Hit
  <2>4. CASE y = [x EXCEPT !.entries = {MarkedBy(b, f) : f \in @}]
    <3>1. y.entries = {MarkedBy(b, f) : f \in x.entries}
      BY <1>1, <2>4 DEF ListSectors
    <3>2. MarkedBy(b, e) = [e EXCEPT !.mark = b.mark]
      BY <1>2 DEF MarkedBy
    <3>3. [e EXCEPT !.mark = b.mark].used = e.used /\ [e EXCEPT !.mark = b.mark].name = e.name
      BY <2>1 DEF DiskEntry
    <3>4. MarkedBy(b, e) \in y.entries /\ Hit(MarkedBy(b, e))
      BY <1>2, <2>2, <3>1, <3>2, <3>3 DEF Hit
    <3> QED
      BY <3>4
  <2>5. y = x \/ y = [x EXCEPT !.entries = {MarkedBy(b, f) : f \in @}]
    BY <1>1 DEF AskedBy
  <2> QED
    BY <2>3, <2>4, <2>5
<1> QED
  BY <1>2 DEF NoneIn, x

LEMMA MarkDone ==
    ASSUME NEW b, b = Brief, b.op = "attrib", GoodDisk(b.model, b.disk), Mark, NEW d,
           Edited(b, tool, task, io, block, buffer, progress),
           EditsDone(b, tool, task, io, block, buffer, progress, d)
    PROVE  EditsDone(b, tool', task', io', block', buffer', progress', d)
<1>. DEFINE s == task.at
            n == progress.count
<1>1. MarksDone(b, tool, task, io, block, buffer, progress, d)
  BY DEF EditsDone
<1>2. CASE tool = "follow"
  <2>1. tool' = "list" /\ progress' = progress
    BY <1>2 DEF Mark, To, fileVars
  <2>2. MarksDone(b, tool', task', io', block', buffer', progress', d)
    BY <1>1, <1>2, <2>1 DEF MarksDone, AtLink, Ways
  <2> QED
    BY <2>2 DEF EditsDone
<1>3. CASE tool = "mark"
  <2>. DEFINE hits == {e \in io.entries : Hit(e)}
  <2>1. /\ Fields(progress) /\ Been(b, task, progress) /\ n > 0 /\ Reached(b, n - 1, s)
        /\ s \in DOMAIN b.disk /\ b.disk[s] \in ListSectors /\ Kept(b, io, s)
    BY <1>3 DEF Edited, HeldWalk, HeldMark, AtSector
  <2>2. s \in AimedBy(b) /\ n \in Nat /\ Stop(b, n - 1) = s
    BY <2>1, SectorAimed DEF Reached, Stop
  <2>3. Passed(b, d, progress, n - 1, n - 1) /\ d[s] = io
    BY <1>1, <1>3 DEF MarksDone
  <2>4. /\ io' = Changed(io) /\ progress' = [progress EXCEPT !.found = @ \/ hits # {}]
        /\ \/ tool' = "point" /\ block' = Sent(2, task.src, s, TRUE, "follow", "astray")
           \/ tool' = "follow" /\ io' = io
           \/ tool' = "listed" /\ hits # {} /\ task.mark = "shown"
    BY <1>3 DEF Mark, Transfer, To, Sent
  <2>5. progress'.count = n /\ (progress'.found <=> (progress.found \/ hits # {}))
    BY <2>1, <2>4 DEF Fields
  <2>6. io' = AskedBy(b, b.disk[s])
    <3>1. task.op \in EditOps
      BY BriefIs DEF EditOps
    <3> QED
      BY <2>1, <2>2, <2>4, <3>1, ChangedIs
  <2>7. hits = {} => NoneIn(b, s)
    BY <2>1, HitsAre
  <2>. HIDE DEF hits, s, n
  <2>8. progress'.found \/ \A i \in 0..n - 1 : NoneIn(b, Stop(b, i))
    <3>1. ASSUME ~progress'.found, NEW i \in 0..n - 1 PROVE NoneIn(b, Stop(b, i))
      <4>1. hits = {} /\ ~progress.found
        BY <2>5, <3>1
      <4>2. CASE i = n - 1
        BY <2>2, <2>7, <4>1, <4>2
      <4>3. CASE i # n - 1
        BY <2>2, <4>3, <2>3, <4>1 DEF Passed
      <4> QED
        BY <4>2, <4>3
    <3> QED
      BY <3>1
  <2>9. b.mark = "shown" \/ \A i \in 0..(n - 1) - 1 : AsWanted(b, d, Stop(b, i))
    BY <2>3 DEF Passed
  <2>10. CASE tool' = "point" /\ block' = Sent(2, task.src, s, TRUE, "follow", "astray")
    <3>1. block'.then = "follow"
      BY <2>10 DEF Sent
    <3>2. Passed(b, d, progress', n, n - 1)
      BY <2>8, <2>9 DEF Passed
    <3>3. MarksDone(b, tool', task', io', block', buffer', progress', d)
      BY <2>5, <2>10, <3>1, <3>2 DEF MarksDone, AtLink
    <3> QED
      BY <3>3 DEF EditsDone
  <2>11. CASE tool' = "follow" /\ io' = io
    <3>1. AsWanted(b, d, s)
      BY <2>3, <2>6, <2>11 DEF AsWanted
    <3>2. ASSUME NEW i \in 0..n - 1, b.mark # "shown" PROVE AsWanted(b, d, Stop(b, i))
      <4>1. CASE i = n - 1
        BY <2>2, <3>1, <4>1
      <4>2. CASE i # n - 1
        BY <2>2, <4>2, <2>9, <3>2
      <4> QED
        BY <4>1, <4>2
    <3>3. Passed(b, d, progress', n, n)
      BY <2>8, <3>2 DEF Passed
    <3>4. MarksDone(b, tool', task', io', block', buffer', progress', d)
      BY <2>5, <2>11, <3>3 DEF MarksDone, AtLink, Ways
    <3> QED
      BY <3>4 DEF EditsDone
  <2>12. CASE tool' = "listed" /\ hits # {} /\ task.mark = "shown"
    <3>1. progress'.found /\ b.mark = "shown"
      BY <2>5, <2>12 DEF Brief
    <3>2. AllPassed(b, d, progress')
      BY <3>1 DEF AllPassed
    <3>3. MarksDone(b, tool', task', io', block', buffer', progress', d)
      BY <2>12, <3>2 DEF MarksDone, AtLink, Ways
    <3> QED
      BY <3>3 DEF EditsDone
  <2> QED
    BY <2>4, <2>10, <2>11, <2>12
<1> QED
  BY <1>2, <1>3 DEF Mark

LEMMA SteadyDone ==
    ASSUME NEW b, b = Brief, b.op \in EditOps, GoodDisk(b.model, b.disk), HeadsAt(b.model, b.disk),
           NEW z \in Nat, IsDisk(b.disk, z), \A tr \in 1..z : TrackSectors(tr, z) \in Nat,
           Staged(tool, task, block), Steady, NEW d,
           Edited(b, tool, task, io, block, buffer, progress),
           EditsDone(b, tool, task, io, block, buffer, progress, d)
    PROVE  EditsDone(b, tool', task', io', block', buffer', progress', d)
<1>1. task.op = b.op /\ task.op \in DiskOps /\ tool \in Stages(task.op)
  BY BriefIs, SteadyDrives DEF Staged, TaskTyped
<1>2. CASE OpenHeader \/ CheckHeader
  BY <1>1, <1>2, HeaderDone
<1>3. CASE Change \/ ChangeCopy \/ NextCopy
  <2>1. tool \in {"change", "changed", "repeat"}
    BY <1>3 DEF Change, ChangeCopy, NextCopy
  <2>2. b.op \in {"label", "diskid"}
    BY <1>1, <2>1, StagesOf
  <2> QED
    BY <1>3, <2>2, ChangeDone
<1>4. CASE OpenList \/ NextList
  <2>1. tool \in {"open list", "list"}
    BY <1>4 DEF OpenList, NextList
  <2>2. b.op = "attrib"
    <3>1. tool \in Stages(task.op) => task.op \in {"attrib", "copyrel"}
      BY <1>1, <2>1, StagesOf
    <3> QED
      BY <1>1, <3>1 DEF EditOps
  <2> QED
    BY <1>4, <2>2, ListDone
<1>5. CASE Mark
  <2>1. tool = "mark" \/ tool = "follow"
    BY <1>5 DEF Mark
  <2>2. b.op = "attrib"
    <3>1. tool \in Stages(task.op) => task.op \in {"attrib", "copyrel"}
      BY <1>1, <2>1, StagesOf
    <3> QED
      BY <1>1, <3>1 DEF EditOps
  <2> QED
    BY <1>5, <2>2, MarkDone
<1>6. CASE OpenBoth \/ ReadSector \/ WriteSector \/ NextSector \/ CloseBoth
  <2>1. tool \in {"open first", "open second", "read", "write", "written", "whole", "broken"}
    BY <1>6 DEF OpenBoth, ReadSector, WriteSector, NextSector, CloseBoth
  <2>2. task.op = "diskcopy"
    BY <1>1, <2>1, StagesOf
  <2> QED
    BY <1>1, <2>2 DEF EditOps
<1>7. CASE SeekRelative \/ OpenRelative \/ NextBlock \/ Spread \/ Position \/ PutRecord
  <2>1. tool \in {"search", "reopen", "open relative", "block", "spread", "position", "put"}
    BY <1>7 DEF SeekRelative, OpenRelative, NextBlock, Spread, Position, PutRecord
  <2>2. task.op = "copyrel"
    BY <1>1, <2>1, StagesOf
  <2> QED
    BY <1>1, <2>2 DEF EditOps
<1> QED
  BY <1>2, <1>3, <1>4, <1>5, <1>6, <1>7 DEF Steady

(* Who says "done" or "missing". *)
LEMMA SaysDone ==
    ASSUME DiskNext, verdict' \in {"done", "missing"}, verdict' # verdict
    PROVE  Talks \/ CheckHeader \/ FormatDisk
<1>1. CASE Command
  BY <1>1 DEF Command, Start
<1>2. CASE Block
  BY <1>2 DEF Block, Point, Fill, Seek, Fetch, To, Fault, Refused
<1>3. CASE OpenHeader \/ Change \/ NextCopy \/ ChangeCopy
  BY <1>3 DEF OpenHeader, Change, NextCopy, ChangeCopy, Transfer, To, Stopped
<1>4. CASE OpenBoth \/ ReadSector \/ WriteSector \/ NextSector \/ CloseBoth
  BY <1>4 DEF OpenBoth, ReadSector, WriteSector, NextSector, CloseBoth, Transfer, To, Stopped
<1>5. CASE OpenList \/ NextList \/ Mark \/ SeekRelative
  BY <1>5 DEF OpenList, NextList, Mark, SeekRelative, Transfer, To, Stopped
<1>6. CASE OpenRelative \/ NextBlock \/ Spread \/ Position \/ PutRecord
  BY <1>6 DEF OpenRelative, NextBlock, Spread, Position, PutRecord, CopyBroken, Transfer, To, Stopped
<1> QED
  BY <1>1, <1>2, <1>3, <1>4, <1>5, <1>6 DEF DiskNext, Talks

LEMMA SaysMissing ==
    ASSUME Talks, Staged(tool, task, block), verdict' = "missing", verdict # "missing"
    PROVE  task.op \in EditOps
<1>1. EndList /\ task.op = "attrib"
  BY DEF Talks, IdentifyBoth, IdentifyDrive, Identify, Mode, GiveUp, Initialize, Agree, Side, Settle, EndList,
         Validate, List, Prepare, CloseRelative, To, Stopped
<1> QED
  BY <1>1 DEF EditOps

LEMMA DisksHeaded == DiskInit => \A v \in Disks : HeadsAt(model[v], original[v])
<1>. SUFFICES ASSUME DiskInit, NEW v \in Disks
              PROVE  HeadsAt(model[v], original[v])
  OBVIOUS
<1>1. model \in [Disks -> 0..3] /\ original = disk
  BY DiskAssumption DEF DiskInit
<1>2. PICK size \in [Disks -> {SIDE, 2 * SIDE, DENSE}] :
        /\ \A d \in Disks : size[d] \in Sizes(model[d])
        /\ disk = [d \in Disks |-> Disk(size[d], "old", "id", d, Catalog[d])]
  BY DEF DiskInit
<1>. DEFINE z == size[v]
            m == model[v]
            catalog == Catalog[v]
            x == Disk(z, "old", "id", v, catalog)
<1>3. m \in 0..3 /\ z \in Sizes(m) /\ original[v] = x
  BY <1>1, <1>2
<1>4. HeaderOf(z) = HeaderOn(m) /\ (z = DENSE <=> m = 3)
  BY <1>3, TrackSizes
<1>. HIDE DEF z, m, catalog
<1>5. ASSUME NEW s \in Sectors(z)
      PROVE  /\ x[s].kind = "header" => s = HeaderOn(m)
             /\ x[s].kind = "repeat" => m = 3 /\ s \in {<<DENSEHEADER, 1>>, <<DENSEHEADER, 2>>}
  <2>1. CASE s = HeaderOf(z)
    BY <2>1, <1>4 DEF Disk, Title
  <2>2. CASE s # HeaderOf(z) /\ s \in Repeats(z)
    BY <2>2, <1>4 DEF Disk, Repeats, Repeated
  <2>3. CASE s # HeaderOf(z) /\ s \notin Repeats(z)
    <3>. DEFINE NoHeader(r) == r.kind \in {"list", "block", "data"}
    <3>1. \/ \E y : x[s] = ListOf(z, y)
          \/ \E y : x[s] = BlockOf(y)
          \/ x[s] = Payload(v, s)
      BY <2>3 DEF Disk
    <3>2. /\ \A y : NoHeader(ListOf(z, y))
          /\ \A y : NoHeader(BlockOf(y))
          /\ NoHeader(Payload(v, s))
      BY DEF ListOf, BlockOf, Payload
    <3>. HIDE DEF NoHeader
    <3>3. NoHeader(x[s])
      BY <3>1, <3>2
    <3> QED
      BY <3>3 DEF NoHeader
  <2> QED
    BY <2>1, <2>2, <2>3
<1>6. DOMAIN x = Sectors(z)
  BY DEF Disk
<1>. HIDE DEF x
<1> QED
  BY <1>3, <1>5, <1>6 DEF HeadsAt, m

LEMMA EditInvStarts == DiskInit => EditInv
<1>1. DiskInit => tool = "ready" /\ verdict = "none"
  BY DEF DiskInit
<1> QED
  BY <1>1, DisksSized, DisksHeaded DEF EditInv, EditsHeld

LEMMA EditCommand ==
    ASSUME DiskInv, EditInv, Command
    PROVE  EditInv'
<1>1. UNCHANGED <<model, disk, buffer>> /\ original' = original /\ verdict' = "none"
      /\ (task'.op \in EditOps => tool' \in {"identify", "find"})
  <2>1. /\ tool = "ready" /\ UNCHANGED <<model, disk, buffer>> /\ original' = disk
        /\ task'.op \in EditOps => tool' \in {"identify", "find"}
    BY CommandStarts
  <2>2. verdict' = "none"
    BY DEF Command, Start
  <2> QED
    BY <2>1, <2>2 DEF DiskInv
<1>2. ASSUME task'.op \in EditOps, NEW b, NEW d
      PROVE  EditsDone(b, tool', task', io', block', buffer', progress', d)
  <2>1. tool' \in Idling
    BY <1>1, <1>2 DEF Idling
  <2> QED
    BY <2>1, NothingDone
<1>3. EditsHeld'
  BY <1>2 DEF EditsHeld
<1>4. /\ model' \in [Disks -> 0..3]
      /\ \A v \in Disks : SizedDisk(model'[v], original'[v]) /\ HeadsAt(model'[v], original'[v])
  BY <1>1 DEF EditInv
<1> QED
  BY <1>1, <1>3, <1>4 DEF EditInv

LEMMA EditSays ==
    ASSUME NEW b, b = Brief, b.op \in EditOps, b.op = task.op, GoodDisk(b.model, b.disk), HeldDisk(b, disk), Talks,
           tool \in Stages(task.op), EditsDone(b, tool, task, io, block, buffer, progress, disk[b.src]),
           verdict' \in {"done", "missing"}, verdict' # verdict
    PROVE  /\ verdict' = "done" => AllDone(b, disk[b.src])
           /\ verdict' = "missing" => \A s \in AimedBy(b) : NoneIn(b, s)
           /\ tool' = "over"
<1>1. \/ Initialize /\ verdict' = "done"
      \/ EndList /\ tool = "listed" /\ task.op = "attrib" /\ (verdict' = "missing" => ~progress.found)
  BY EditTalks
<1>2. CASE Initialize /\ verdict' = "done"
  BY <1>2 DEF Initialize, Stopped, Stages, HeaderStages, ListStages, EditsDone, HeadsDone
<1>3. CASE EndList /\ tool = "listed" /\ task.op = "attrib" /\ (verdict' = "missing" => ~progress.found)
  <2>1. tool' = "over" /\ AllPassed(b, disk[b.src], progress)
    BY <1>3 DEF EndList, Stopped, EditsDone, MarksDone
  <2>2. ASSUME b.mark = "shown" PROVE AllDone(b, disk[b.src])
    <3>1. ASSUME NEW s \in AimedBy(b) PROVE AsWanted(b, disk[b.src], s)
      BY <1>3, <2>2, AimedOn DEF HeldDisk, AskedBy, Kept, AsWanted
    <3> QED
      BY <3>1 DEF AllDone
  <2> QED
    BY <1>3, <2>1, <2>2 DEF AllPassed
<1> QED
  BY <1>1, <1>2, <1>3

LEMMA EditStep ==
    ASSUME DiskInv, EditInv, DiskNext
    PROVE  EditInv'
<1>1. CASE Command
  BY <1>1, EditCommand
<1>2. CASE Talks \/ Steady \/ Block \/ FormatDisk
  <2>1. tool # "ready"
    <3>1. CASE Steady
      BY <3>1 DEF Steady, OpenHeader, CheckHeader, Change, NextCopy, ChangeCopy, OpenBoth, ReadSector, WriteSector,
                  NextSector, CloseBoth, OpenList, NextList, Mark, SeekRelative, OpenRelative, NextBlock,
                  Spread, Position, PutRecord
    <3>2. CASE Talks
      BY <3>2 DEF Talks, IdentifyBoth, IdentifyDrive, Mode, GiveUp, Initialize, Agree, Side, Settle, EndList, Validate,
                  List, Prepare, CloseRelative
    <3>3. CASE Block \/ FormatDisk
      BY <3>3 DEF Block, Point, Fill, Seek, Fetch, FormatDisk
    <3> QED
      BY <1>2, <3>1, <3>2, <3>3
  <2>2. Staged(tool, task, block) /\ EditHeld /\ Drives(disk, original, buffer) /\ TaskTyped(task)
    BY <2>1 DEF DiskInv, Staged
  <2>3. Staged(tool', task', block') /\ SameTask(task, task') /\ UNCHANGED <<original, model>>
    BY <1>2, <2>2, QuietStaged, SteadyStaged, BlockStaged, FormatStaged DEF diskVars
  <2>4. /\ model' \in [Disks -> 0..3]
        /\ \A v \in Disks : SizedDisk(model'[v], original'[v]) /\ HeadsAt(model'[v], original'[v])
    BY <2>3 DEF EditInv
  <2>5. ASSUME NEW b, b = Brief, task.op \in EditOps
        PROVE  /\ b.op = task.op /\ b.src = task.src /\ b.src \in Disks /\ b.disk = original[b.src]
               /\ b.model = model[b.src] /\ GoodDisk(b.model, b.disk) /\ HeadsAt(b.model, b.disk)
               /\ HeldDisk(b, disk) /\ Edited(b, tool, task, io, block, buffer, progress)
               /\ EditsDone(b, tool, task, io, block, buffer, progress, disk[b.src])
    <3>1. b.op = task.op /\ b.src = task.src /\ b.src \in Disks /\ b.disk = original[b.src] /\ b.model = model[b.src]
      BY <2>2, <2>5, BriefIs DEF TaskTyped
    <3>2. GoodDisk(b.model, b.disk) /\ HeadsAt(b.model, b.disk)
      BY <3>1 DEF DiskInv, EditInv
    <3>3. HeldDisk(b, disk) /\ Edited(b, tool, task, io, block, buffer, progress)
      BY <2>2, <2>5 DEF EditHeld
    <3>4. EditsDone(b, tool, task, io, block, buffer, progress, disk[b.src])
      BY <2>1, <2>5, <3>1 DEF EditInv, EditsHeld
    <3> QED
      BY <3>1, <3>2, <3>3, <3>4
  <2>6. ASSUME NEW b, b = Brief, task.op \in EditOps
        PROVE  EditsDone(b, tool', task', io', block', buffer', progress', disk'[b.src])
    <3>1. CASE Talks
      <4>1. tool \notin Ways
        BY <3>1 DEF Talks, IdentifyBoth, IdentifyDrive, Mode, GiveUp, Initialize, Agree, Side, Settle, EndList,
                    Validate, List, Prepare, CloseRelative, Ways
      <4>2. tool' \in Idling
        BY <2>2, <2>6, <3>1, <4>1, EditTalks DEF Staged, Idling
      <4> QED
        BY <4>2, NothingDone
    <3>2. CASE Steady
      <4>1. disk' = disk
        BY <3>2, SteadyDrives
      <4>. DEFINE z == b.disk[HeaderOn(b.model)].tracks
      <4>2. b.model \in 0..3 /\ z \in Sizes(b.model) /\ IsDisk(b.disk, z)
        BY <2>5, <2>6 DEF EditInv, SizedDisk
      <4>. HIDE DEF z
      <4>3. z \in Nat /\ \A tr \in 1..z : TrackSectors(tr, z) \in Nat
        BY <4>2, TrackSizes
      <4> QED
        BY <2>2, <2>5, <2>6, <3>2, <4>1, <4>2, <4>3, SteadyDone
    <3>3. CASE Block
      BY <2>2, <2>5, <2>6, <3>3, BlockDone DEF Drives
    <3>4. CASE FormatDisk
      BY <2>2, <3>4, <2>6, FormatStaged DEF EditOps
    <3> QED
      BY <1>2, <3>1, <3>2, <3>3, <3>4
  <2>7. EditsHeld'
    <3>1. ASSUME task'.op \in EditOps
          PROVE  EditsDone(Brief', tool', task', io', block', buffer', progress', disk'[task'.src])
      BY <2>3, <3>1, <2>6, BriefLasts DEF SameTask, Brief
    <3> QED
      BY <3>1 DEF EditsHeld
  <2>8. ASSUME verdict' \in {"done", "missing"}, task.op \in EditOps, verdict' # verdict
        PROVE  /\ tool' = "over"
               /\ verdict' = "done" => AllDone(Brief, disk'[task.src])
               /\ verdict' = "missing" => \A s \in AimedBy(Brief) : NoneIn(Brief, s)
    <3>1. Talks \/ CheckHeader \/ FormatDisk
      BY <2>8, SaysDone
    <3>2. Talks
      <4>1. ~CheckHeader
        <5>1. ASSUME CheckHeader PROVE task.op \in {"vol", "chkdsk"}
          BY <2>8, <5>1 DEF CheckHeader, To, Stopped
        <5> QED
          BY <2>8, <5>1 DEF EditOps
      <4>2. ~FormatDisk
        <5>1. ASSUME FormatDisk PROVE task.op \in {"format", "diskcopy"}
          BY <2>2, <5>1, FormatStaged
        <5> QED
          BY <2>8, <5>1 DEF EditOps
      <4> QED
        BY <3>1, <4>1, <4>2
    <3>3. tool \in Stages(task.op) /\ disk' = disk
      <4>1. tool \notin Ways
        BY <3>2 DEF Talks, IdentifyBoth, IdentifyDrive, Mode, GiveUp, Initialize, Agree, Side, Settle, EndList,
                    Validate, List, Prepare, CloseRelative, Ways
      <4> QED
        BY <2>2, <3>2, <4>1, QuietStaged DEF Staged, diskVars
    <3>4. PICK b : b = Brief
      OBVIOUS
    <3>5. /\ verdict' = "done" => AllDone(b, disk[b.src])
          /\ verdict' = "missing" => \A s \in AimedBy(b) : NoneIn(b, s)
          /\ tool' = "over"
      BY <2>5, <2>8, <3>2, <3>3, <3>4, EditSays
    <3> QED
      BY <2>5, <2>8, <3>3, <3>4, <3>5
  <2>9. task'.op = task.op /\ task'.src = task.src /\ (task.op \in EditOps => Brief' = Brief)
    BY <2>3, BriefLasts DEF SameTask
  <2>10. ASSUME verdict' = "done", task'.op \in EditOps
         PROVE  tool' = "over" /\ AllDone(Brief', disk'[task'.src])
    BY <2>9, <2>10, <2>8, NotOver DEF EditInv
  <2>11. ASSUME verdict' = "missing"
         PROVE  tool' = "over" /\ task'.op \in EditOps /\ \A s \in AimedBy(Brief') : NoneIn(Brief', s)
    <3>1. verdict # "missing"
      BY <2>11, NotOver DEF EditInv
    <3>2. Talks \/ CheckHeader \/ FormatDisk
      BY <2>11, <3>1, SaysDone
    <3>3. ~CheckHeader /\ ~FormatDisk
      BY <2>11, <3>1 DEF CheckHeader, FormatDisk, To, Stopped
    <3>4. task.op \in EditOps
      BY <2>2, <2>11, <3>1, <3>2, <3>3, SaysMissing
    <3> QED
      BY <2>8, <2>9, <2>11, <3>1, <3>4
  <2> QED
    BY <2>4, <2>7, <2>10, <2>11 DEF EditInv
<1> QED
  BY <1>1, <1>2 DEF DiskNext, Talks, Steady

LEMMA EditStutters ==
    ASSUME EditInv, UNCHANGED toolVars
    PROVE  EditInv'
BY DEF EditInv, EditsHeld, Brief, toolVars, diskVars, fileVars

LEMMA VerdictInvMeans ==
    ASSUME CopyInv, EditInv, verdict # "copied"
    PROVE  DiskVerdictIsReal
<1>1. verdict = "complete" => disk[task.dst] = original[task.src]
  BY DEF CopyInv
<1>2. ASSUME verdict = "done", task.op \in EditOps, NEW s \in Targets
      PROVE  disk[task.src][s] = AsAsked(original[task.src][s])
  BY <1>2, AimedIs, AskedIs, BriefIs DEF EditInv, AllDone, AsWanted
<1>3. ASSUME verdict = "missing", NEW s \in Targets, NEW e \in original[task.src][s].entries
      PROVE  ~Meant(e)
  BY <1>3, AimedIs DEF EditInv, Brief, NoneIn, Meant
<1> QED
  BY <1>1, <1>2, <1>3 DEF DiskVerdictIsReal, EditOps

(* What the commands say is so, whatever the disks, the drives and the     *)
(* order of their answers: after "complete" the disk holds every sector of *)
(* its source (disk.c:655), after "done" every label and ID on it is the new *)
(* one and every lock bit asked for is set (disk.c:465 and 587), and after *)
(* "missing" no directory sector has a file of those names (filemgmt.c:447). *)
(* "copied", of a REL file, is the verdict left out: what its records should *)
(* be is defined by recursion over data.                                   *)
THEOREM VerdictsHold == DiskSpec => [](verdict # "copied" => DiskVerdictIsReal)
<1>1. DiskInit => DiskInv /\ CopyInv /\ EditInv
  BY DiskInvStarts, CopyInvStarts, EditInvStarts
<1>2. DiskInv /\ CopyInv /\ EditInv /\ [DiskNext]_toolVars => (DiskInv /\ CopyInv /\ EditInv)'
  <2>1. ASSUME DiskInv, CopyInv, EditInv, DiskNext
        PROVE  DiskInv' /\ CopyInv' /\ EditInv'
    BY <2>1, DiskStep, CopyStep, EditStep
  <2>2. ASSUME DiskInv, CopyInv, EditInv, UNCHANGED toolVars
        PROVE  DiskInv' /\ CopyInv' /\ EditInv'
    BY <2>2, DiskStutters, CopyStutters, EditStutters
  <2> QED
    BY <2>1, <2>2
<1>3. CopyInv /\ EditInv => (verdict # "copied" => DiskVerdictIsReal)
  BY VerdictInvMeans
<1> QED
  BY <1>1, <1>2, <1>3, PTL DEF DiskSpec

-----------------------------------------------------------------------------
(* Why a disk command fails                                                *)

(* The directory links to itself alone. *)
OnList(m, x, s) ==
    LET start == FirstList(x[HeaderOn(m)].tracks) IN
    s \in Nat \X Nat /\ (s[1] = 0 \/ (s[1] = start[1] /\ s[2] >= start[2]))
LinksStay(m, x) == \A s \in DOMAIN x : x[s].kind = "list" => OnList(m, x, x[s].next)

(* The command channel of a drive is open; a file is a raw buffer of it.   *)
OnLine(c, dev) == dev \in {c[0], c[1]}
HasBuffer(cs, f, dev) == cs[f] = Reading(<<dev, 0>>, <<>>)
Equipped == DOMAIN chan = Files /\ DOMAIN cmddev = {0, 1} /\ cmdslot \in {0, 1} /\ DOMAIN eof = {2, 3}

(* The command has not failed, and will not for what it has found so far.  *)
Wrong == {"give up", "broken", "astray"}
Thens == {"header", "changed", "repeat", "mark", "follow", "write", "written"}
Lawful(x, v, t, bl) ==
    /\ v \notin {"error", "incomplete"} /\ x \notin Wrong /\ (x \in Ways => bl.then \in Thens)
    /\ t.op = "diskcopy" => t.ok = TRUE

(* Until the header is read, nothing is written.                           *)
Opening(x, bl) ==
    \/ x \in {"first", "second", "find", "validate", "identify", "mode", "open", "header", "agree"}
    \/ x \in Ways /\ bl.then = "header"
Arriving(top, x, t, bl, y, bu, d, o) ==
    /\ Opening(x, bl) => d[t.src] = o[t.src]
    /\ x \in Ways /\ bl.then = "header" => bl.writing = FALSE /\ bl.sector = top
    /\ x = "fetch" /\ bl.then = "header" => bu[t.src] = o[t.src][top]
    /\ x = "header" => y = o[t.src][top]

(* The drives know the buffers in use, and will while they are. *)
Heard(x, bl, e) == x = "fetch" => e[bl.file] = FALSE
Walking == {"list", "follow", "mark", "changed", "repeat"}
Served(x, t, bl, cs) ==
    /\ x \in Walking \cup {"open second"} \cup Looping \cup Ways => HasBuffer(cs, 2, t.src)
    /\ x \in Looping \/ (x \in Ways /\ bl.then \in Looping) => HasBuffer(cs, 3, t.dst)
    /\ x \in Ways =>
         \/ bl.file = 2 /\ bl.dev = t.src
         \/ bl.file = 3 /\ bl.dev = t.dst /\ bl.then \in Looping

(* DISKCOPY asks its drives in turn: both have a command channel before    *)
(* the first buffer is opened, so none is replaced while one is in use.    *)
Paired(x, t, c, slot) ==
    t.op = "diskcopy" =>
      /\ x = "second" => OnLine(c, t.src)
      /\ x = "identify" => OnLine(c, t.dst) /\ (OnLine(c, t.src) \/ c[slot] # t.dst)
      /\ x \notin {"first", "second", "identify", "over"} => OnLine(c, t.src) /\ OnLine(c, t.dst)

(* ATTRIB has seen the sectors it has passed along the chain, and no other. *)
Trailed(b, p) == b.op = "attrib" => p.seen \subseteq {Stop(b, i) : i \in 0..p.count - 1}

Smooth ==
    /\ Equipped /\ Lawful(tool, verdict, task, block)
    /\ Arriving(HeaderSector(task.src), tool, task, block, io, buffer, disk, original)
    /\ Heard(tool, block, eof) /\ Served(tool, task, block, chan) /\ Paired(tool, task, cmddev, cmdslot)
    /\ Trailed(Brief, progress)

(* As long as there is no cause to fail, the command is on its way.        *)
CauseInv ==
    /\ \A v \in Disks : LinksStay(model[v], original[v])
    /\ tool = "ready" => Equipped /\ verdict = "none"
    /\ tool # "ready" /\ task.op # "copyrel" /\ ~excuse /\ Fits => Smooth

LEMMA AsksStatus ==
    ASSUME Equipped, NEW dev \in Disks, UseStatus(dev, TRUE)
    PROVE  /\ DOMAIN cmddev' = {0, 1} /\ cmdslot' \in {0, 1} /\ OnLine(cmddev', dev) /\ Evicted(dev) # dev
           /\ OnLine(cmddev, dev) => cmddev' = cmddev /\ cmdslot' = cmdslot /\ Evicted(dev) = 0
           /\ \A e : OnLine(cmddev, e) /\ cmddev[cmdslot] # e => OnLine(cmddev', e)
           /\ \A e : OnLine(cmddev, e) => OnLine(cmddev', e) \/ cmddev'[cmdslot'] # dev
<1>1. dev # 0 /\ dev # Cart /\ (Resident(dev) <=> OnLine(cmddev, dev))
  BY ChannelsAssumption DEF Resident, OnLine, Cart
<1>2. CASE OnLine(cmddev, dev)
  BY <1>1, <1>2 DEF UseStatus, Evicted, Equipped
<1>3. CASE ~OnLine(cmddev, dev)
  BY <1>1, <1>3 DEF UseStatus, Evicted, NextSlot, Equipped, OnLine
<1> QED
  BY <1>2, <1>3

(* A drive that keeps its command channel keeps its buffers. *)
LEMMA KeepsBuffers ==
    ASSUME NEW dev \in Disks, NEW e, e # dev, NEW f \in Files, NEW cs, HasBuffer(cs, f, dev)
    PROVE  HasBuffer(Cut(cs, e), f, dev)
<1>. DEFINE c == Reading(<<dev, 0>>, <<>>)
<1>1. c.live = TRUE /\ c.place = <<dev, 0>> /\ c = [c EXCEPT !.live = TRUE]
  BY DEF Reading, Idle
<1>. HIDE DEF c
<1>2. ~On(c, e)
  BY <1>1 DEF On, Dev
<1>3. cs[f] = c
  BY DEF HasBuffer, c
<1>4. Cut(cs, e)[f] = [c EXCEPT !.live = c.live /\ ~On(c, e)]
  BY <1>3 DEF Cut
<1>5. (c.live /\ ~On(c, e)) = TRUE
  BY <1>1, <1>2
<1> QED
  BY <1>1, <1>4, <1>5 DEF HasBuffer, c

LEMMA BuffersLive ==
    ASSUME NEW cs, NEW f, NEW dev, HasBuffer(cs, f, dev)
    PROVE  cs[f].live = TRUE
BY DEF HasBuffer, Reading, Idle

(* A request of a command to one of its drives. *)
LEMMA RequestServed ==
    ASSUME Equipped, NEW dev \in Disks, Status(dev, files, chan)
    PROVE  /\ DOMAIN chan' = Files /\ DOMAIN cmddev' = {0, 1} /\ cmdslot' \in {0, 1}
           /\ \A f \in Files : HasBuffer(chan, f, dev) => HasBuffer(chan', f, dev)
           /\ OnLine(cmddev, dev) => \A f \in Files, e \in Disks : HasBuffer(chan, f, e) => HasBuffer(chan', f, e)
<1>1. UseStatus(dev, TRUE) /\ chan' = Cut(chan, Evicted(dev))
  BY DEF Status
<1>2. DOMAIN chan' = Files
  BY <1>1 DEF Cut
<1>3. ASSUME NEW f \in Files, HasBuffer(chan, f, dev) PROVE HasBuffer(chan', f, dev)
  BY <1>1, <1>3, AsksStatus, KeepsBuffers
<1>4. ASSUME OnLine(cmddev, dev), NEW f \in Files, NEW e \in Disks, HasBuffer(chan, f, e)
      PROVE  HasBuffer(chan', f, e)
  BY <1>1, <1>4, AsksStatus, ChannelsAssumption, KeepsBuffers
<1> QED
  BY <1>1, <1>2, <1>3, <1>4, AsksStatus

LEMMA RequestPaired ==
    ASSUME Equipped, NEW t, t.op = "diskcopy", t.src \in Disks, t.dst \in Disks, t.src # t.dst, NEW x, NEW y,
           Paired(x, t, cmddev, cmdslot),
           \/ UseStatus(t.src, TRUE) /\ ((x = "first" /\ y = "second") \/ x = "identify")
           \/ UseStatus(t.dst, TRUE) /\ x = "second" /\ y = "identify"
           \/ /\ x \notin {"first", "second", "identify", "over"}
              /\ UseStatus(t.src, TRUE) \/ UseStatus(t.dst, TRUE) \/ UNCHANGED <<cmddev, cmdslot>>
           \/ y = "over",
           y \notin {"first", "second"} \/ (x = "first" /\ y = "second"), y # "identify" \/ x = "second"
    PROVE  Paired(y, t, cmddev', cmdslot')
<1>1. CASE UseStatus(t.src, TRUE) /\ x = "first" /\ y = "second"
  BY <1>1, AsksStatus DEF Paired
<1>2. CASE UseStatus(t.src, TRUE) /\ x = "identify"
  BY <1>2, AsksStatus DEF Paired
<1>3. CASE UseStatus(t.dst, TRUE) /\ x = "second" /\ y = "identify"
  BY <1>3, AsksStatus DEF Paired
<1>4. CASE /\ x \notin {"first", "second", "identify", "over"}
           /\ UseStatus(t.src, TRUE) \/ UseStatus(t.dst, TRUE) \/ UNCHANGED <<cmddev, cmdslot>>
  BY <1>4, AsksStatus DEF Paired
<1>5. CASE y = "over"
  BY <1>5 DEF Paired
<1> QED
  BY <1>1, <1>2, <1>3, <1>4, <1>5

LEMMA PlainSmooth ==
    ASSUME Smooth, Equipped', UNCHANGED <<task, block, io, buffer, disk, original, model, progress>>,
           tool' \notin Ways \cup Walking \cup Looping \cup Wrong \cup {"open second", "header"},
           verdict' \notin {"error", "incomplete"}, Opening(tool', block) => Opening(tool, block),
           Paired(tool', task, cmddev', cmdslot')
    PROVE  Smooth'
<1>1. Lawful(tool', verdict', task', block')
  BY DEF Smooth, Lawful
<1>2. tool' # "fetch" /\ tool' \notin Ways
  BY DEF Ways
<1>3. Arriving(HeaderSector(task.src), tool', task', block', io', buffer', disk', original')
  BY <1>2 DEF Smooth, Arriving
<1>4. HeaderSector(task.src)' = HeaderSector(task.src) /\ Brief' = Brief
  BY DEF HeaderSector, Brief
<1>5. Heard(tool', block', eof') /\ Served(tool', task', block', chan')
  BY <1>2 DEF Heard, Served
<1> QED
  BY <1>1, <1>3, <1>4, <1>5 DEF Smooth

(* Where a request leads that nothing hinders. *)
Led ==
    \/ tool = "first" /\ tool' = "second" /\ Status(task.src, files, chan)
    \/ tool = "second" /\ tool' = "identify" /\ Status(task.dst, files, chan)
    \/ tool = "identify" /\ tool' \in {"agree", "mode", "open"} /\ Status(task.src, files, chan)
    \/ tool = "mode" /\ tool' \in {"format", "open"} /\ Status(task.src, files, chan)
    \/ tool \in {"find", "validate"} /\ tool' \in {"find", "identify", "over"} /\ Status(task.src, files, chan)
    \/ tool = "agree" /\ tool' \in {"format", "mode", "side"} /\ UNCHANGED channelVars
    \/ tool = "side" /\ tool' = "format" /\ Status(task.dst, files, chan)
    \/ tool = "settle" /\ tool' = "settle both" /\ Status(task.src, files, chan)
    \/ tool = "settle both" /\ tool' = "open first" /\ Status(task.dst, files, chan)
    \/ tool' = "over" /\ DOMAIN chan' = Files /\ DOMAIN cmddev' = {0, 1} /\ cmdslot' \in {0, 1}

LEMMA CommandEnds ==
    ASSUME Equipped, NEW dev, CommandDone(dev, files) \/ CommandFails(dev, TRUE)
    PROVE  DOMAIN chan' = Files /\ DOMAIN cmddev' = {0, 1} /\ cmdslot' \in {0, 1}
<1>1. Status(dev, files, chan) \/ NotReady(dev, chan)
  BY DEF CommandDone, CommandFails
<1>2. (\E answers \in BOOLEAN : UseStatus(dev, answers)) /\ chan' = Cut(chan, Evicted(dev))
  BY <1>1 DEF Status, NotReady
<1>3. DOMAIN chan' = Files
  BY <1>2 DEF Cut
<1>4. /\ cmddev' = cmddev \/ \E d : cmddev' = [cmddev EXCEPT ![cmdslot] = d]
      /\ cmdslot' = cmdslot \/ cmdslot' = 1 - cmdslot
  BY <1>2 DEF UseStatus, NextSlot
<1> QED
  BY <1>3, <1>4 DEF Equipped

LEMMA TalksLead ==
    ASSUME Staged(tool, task, block), task.op # "copyrel", Fits, Smooth, Talks, ~excuse'
    PROVE  Led /\ verdict' \notin {"error", "incomplete"} /\ UNCHANGED diskVars
<1>1. TaskTyped(task) /\ task.op \in DiskOps /\ UNCHANGED diskVars /\ verdict \notin {"error", "incomplete"}
  BY QuietStaged DEF Staged, TaskTyped, Smooth, Lawful
<1>2. tool \notin Wrong /\ (task.op = "diskcopy" => task.ok = TRUE)
  BY DEF Smooth, Lawful
<1>3. tool \notin Ways /\ tool \in Stages(task.op)
  <2>1. tool \notin Ways
    BY DEF Talks, IdentifyBoth, IdentifyDrive, Mode, GiveUp, Initialize, Agree, Side, Settle, EndList, Validate,
           List, Prepare, CloseRelative, Ways
  <2> QED
    BY <2>1 DEF Staged
<1>4. task.op # "diskinit" => model[task.src] # 0
  BY DEF Fits
<1>5. CASE IdentifyBoth
  <2>1. tool \in {"first", "second"}
    BY <1>5 DEF IdentifyBoth
  <2>2. task.op = "diskcopy"
    BY <1>1, <1>3, <2>1 DEF Stages, HeaderStages, ListStages, DiskOps, EditOps
  <2>3. model[task.src] # 0 /\ model[task.dst] = model[task.src]
    BY <1>4, <2>2 DEF Fits
  <2> QED
    BY <1>1, <1>5, <2>3 DEF IdentifyBoth, Identify, To, Stopped, Led
<1>6. CASE IdentifyDrive
  <2>1. tool = "identify"
    BY <1>6 DEF IdentifyDrive
  <2>2. task.op # "diskinit"
    BY <1>1, <1>3, <2>1 DEF Stages, HeaderStages, ListStages, DiskOps, EditOps
  <2> QED
    BY <1>1, <1>4, <1>6, <2>1, <2>2 DEF IdentifyDrive, Identify, To, Stopped, Led
<1>7. CASE Mode
  BY <1>1, <1>7 DEF Mode, Does, Fails, CommandDone, To, Stopped, Led
<1>8. CASE GiveUp
  BY <1>2, <1>8 DEF GiveUp, Wrong
<1>9. CASE Initialize
  <2>1. tool' = "over" /\ verdict' \in {"complete", "done"}
        /\ \E dev : CommandDone(dev, files) \/ CommandFails(dev, TRUE)
    BY <1>2, <1>9 DEF Initialize, Does, Fails, Stopped
  <2> QED
    BY <1>1, <2>1, CommandEnds DEF Led, Smooth
<1>10. CASE Agree
  BY <1>1, <1>10 DEF Agree, To, Stopped, Led
<1>11. CASE Side
  BY <1>1, <1>11 DEF Side, Does, Fails, CommandDone, To, Stopped, Led
<1>12. CASE Settle
  BY <1>1, <1>12 DEF Settle, To, Stopped, Led
<1>13. CASE EndList
  <2>1. tool \in {"listed", "astray"}
    BY <1>13 DEF EndList
  <2>2. task.op = "attrib"
    BY <1>1, <1>3, <2>1 DEF Stages, HeaderStages, ListStages, DiskOps, EditOps
  <2>3. tool' = "over" /\ verdict' \in {"done", "missing"} /\ chan' = Released(chan, 2) /\ UNCHANGED commandVars
    BY <1>2, <1>13, <2>2 DEF EndList, Stopped, Wrong
  <2> QED
    BY <1>1, <2>3 DEF Led, Released, Equipped, Smooth, commandVars
<1>14. CASE Validate
  BY <1>1, <1>14 DEF Validate, Does, Fails, CommandDone, To, Stopped, Led
<1>15. CASE List
  BY <1>1, <1>15 DEF List, Directory, To, Stopped, Led
<1>16. CASE Prepare \/ CloseRelative
  <2>1. tool \in {"prepare", "scratch", "relative over", "relative broken"}
    BY <1>16 DEF Prepare, CloseRelative
  <2> QED
    BY <1>1, <1>3, <2>1 DEF Stages, HeaderStages, ListStages, DiskOps, EditOps
<1> QED
  BY <1>5, <1>6, <1>7, <1>8, <1>9, <1>10, <1>11, <1>12, <1>13, <1>14, <1>15, <1>16 DEF Talks

LEMMA TalkSmooth ==
    ASSUME Staged(tool, task, block), task.op # "copyrel", task.op = "diskcopy" => task.src # task.dst,
           Fits, Smooth, Talks, ~excuse'
    PROVE  Smooth'
<1>1. /\ Led /\ verdict' \notin {"error", "incomplete"}
      /\ UNCHANGED <<task, block, io, buffer, disk, original, model, progress, eof>>
  BY TalksLead DEF diskVars, fileVars
<1>2. Equipped /\ Paired(tool, task, cmddev, cmdslot)
  BY DEF Smooth
<1>3. TaskTyped(task) /\ task.op \in DiskOps /\ task.src \in Disks /\ task.dst \in Disks
  BY DEF Staged, TaskTyped
<1>4. tool \notin Ways /\ tool \in Stages(task.op)
  <2>1. tool \notin Ways
    BY DEF Talks, IdentifyBoth, IdentifyDrive, Mode, GiveUp, Initialize, Agree, Side, Settle, EndList, Validate,
           List, Prepare, CloseRelative, Ways
  <2> QED
    BY <2>1 DEF Staged
<1>5. tool \in {"find", "validate"} => task.op # "diskcopy"
  BY <1>3, <1>4 DEF Stages, HeaderStages, ListStages, DiskOps, EditOps
<1>6. Equipped'
  <2>1. DOMAIN chan' = Files /\ DOMAIN cmddev' = {0, 1} /\ cmdslot' \in {0, 1}
    <3>1. CASE Status(task.src, files, chan) \/ Status(task.dst, files, chan)
      BY <1>2, <1>3, <3>1, RequestServed
    <3>2. CASE UNCHANGED channelVars
      BY <1>2, <3>2 DEF channelVars, commandVars, Equipped
    <3> QED
      BY <1>1, <3>1, <3>2 DEF Led
  <2> QED
    BY <1>1, <1>2, <2>1 DEF Equipped
<1>7. Paired(tool', task, cmddev', cmdslot')
  <2>1. CASE task.op # "diskcopy"
    BY <2>1 DEF Paired
  <2>2. CASE task.op = "diskcopy"
    <3>1. /\ \A dev : Status(dev, files, chan) => UseStatus(dev, TRUE)
          /\ UNCHANGED channelVars => UNCHANGED <<cmddev, cmdslot>>
      BY DEF Status, channelVars, commandVars
    <3>2. \/ UseStatus(task.src, TRUE) /\ ((tool = "first" /\ tool' = "second") \/ tool = "identify")
          \/ UseStatus(task.dst, TRUE) /\ tool = "second" /\ tool' = "identify"
          \/ /\ tool \notin {"first", "second", "identify", "over"}
             /\ UseStatus(task.src, TRUE) \/ UseStatus(task.dst, TRUE) \/ UNCHANGED <<cmddev, cmdslot>>
          \/ tool' = "over"
      BY <1>1, <1>5, <2>2, <3>1 DEF Led
    <3>3. /\ tool' \notin {"first", "second"} \/ (tool = "first" /\ tool' = "second")
          /\ tool' # "identify" \/ tool = "second"
      BY <1>1, <1>5, <2>2 DEF Led
    <3> QED
      BY <1>2, <1>3, <2>2, <3>2, <3>3, RequestPaired
  <2> QED
    BY <2>1, <2>2
<1>8. /\ tool' \notin Ways \cup Walking \cup Looping \cup Wrong \cup {"open second", "header"}
      /\ Opening(tool', block) => Opening(tool, block)
  BY <1>1 DEF Led, Ways, Walking, Looping, Wrong, Opening
<1> QED
  BY <1>1, <1>6, <1>7, <1>8, PlainSmooth

LEMMA WayServed ==
    ASSUME Staged(tool, task, block), Smooth, tool \in Ways
    PROVE  /\ block.file \in {2, 3} /\ block.dev \in {task.src, task.dst} /\ task.src \in Disks /\ task.dst \in Disks
           /\ block.then \in Thens /\ (block.then = "header" => block.file = 2 /\ block.dev = task.src)
           /\ HasBuffer(chan, 2, task.src) /\ (block.then \in Looping => HasBuffer(chan, 3, task.dst))
           /\ HasBuffer(chan, block.file, block.dev)
           /\ block.then \in Looping => task.op = "diskcopy"
<1>1. TaskTyped(task) /\ task.op \in DiskOps /\ block.then \in Stages(task.op)
  BY DEF Staged, TaskTyped
<1>2. block.then \in Looping => task.op = "diskcopy"
  BY <1>1, StagesOf DEF Looping
<1>3. /\ block.then \in Thens /\ HasBuffer(chan, 2, task.src)
      /\ block.then \in Looping => HasBuffer(chan, 3, task.dst)
      /\ \/ block.file = 2 /\ block.dev = task.src
         \/ block.file = 3 /\ block.dev = task.dst /\ block.then \in Looping
  BY DEF Smooth, Lawful, Served
<1> QED
  BY <1>1, <1>2, <1>3 DEF TaskTyped, Looping

LEMMA WayRequest ==
    ASSUME Staged(tool, task, block), Smooth, tool \in Ways, Does(block.dev),
           task.op = "diskcopy" => task.src # task.dst
    PROVE  /\ DOMAIN chan' = Files /\ DOMAIN cmddev' = {0, 1} /\ cmdslot' \in {0, 1}
           /\ HasBuffer(chan', 2, task.src) /\ (block.then \in Looping => HasBuffer(chan', 3, task.dst))
           /\ HasBuffer(chan', block.file, block.dev) /\ chan'[block.file].live = TRUE
           /\ \A y : y \notin {"first", "second", "identify"} => Paired(y, task, cmddev', cmdslot')
<1>1. Equipped /\ Paired(tool, task, cmddev, cmdslot) /\ tool \notin {"first", "second", "identify", "over"}
  BY DEF Smooth, Ways
<1>2. Status(block.dev, files, chan) /\ UseStatus(block.dev, TRUE)
  BY DEF Does, CommandDone, Status
<1>3. block.dev \in Disks /\ {2, 3} \subseteq Files
  BY WayServed DEF Files
<1>4. task.op = "diskcopy" => OnLine(cmddev, task.src) /\ OnLine(cmddev, task.dst)
  BY <1>1 DEF Paired
<1>5. HasBuffer(chan', block.file, block.dev)
  BY <1>1, <1>2, <1>3, WayServed, RequestServed
<1>6. ASSUME task.op = "diskcopy"
      PROVE  HasBuffer(chan', 2, task.src) /\ (block.then \in Looping => HasBuffer(chan', 3, task.dst))
  BY <1>1, <1>2, <1>3, <1>4, <1>6, WayServed, RequestServed
<1>7. ASSUME task.op # "diskcopy"
      PROVE  HasBuffer(chan', 2, task.src) /\ block.then \notin Looping
  BY <1>7, <1>5, WayServed DEF Smooth, Served
<1>8. ASSUME NEW y, y \notin {"first", "second", "identify"} PROVE Paired(y, task, cmddev', cmdslot')
  <2>1. CASE task.op # "diskcopy"
    BY <2>1 DEF Paired
  <2>2. CASE task.op = "diskcopy"
    BY <1>2, <1>1, <1>8, <2>2, WayServed, RequestPaired
  <2> QED
    BY <2>1, <2>2
<1> QED
  BY <1>1, <1>2, <1>3, <1>5, <1>6, <1>7, <1>8, RequestServed, BuffersLive

LEMMA BlockMoves ==
    ASSUME Staged(tool, task, block), Smooth, Block, ~excuse', task.op = "diskcopy" => task.src # task.dst
    PROVE  /\ UNCHANGED <<task, block, original, model, progress, verdict>> /\ tool \in Ways
           /\ Does(block.dev) \/ UNCHANGED channelVars
           /\ \/ tool' \in {"fill", "seek"} /\ UNCHANGED <<disk, io, eof>>
              \/ /\ block.writing # FALSE /\ tool = "seek" /\ tool' = block.then /\ eof' = [eof EXCEPT ![block.file] = FALSE]
                 /\ UNCHANGED <<buffer, io>>
              \/ /\ tool' = "fetch" /\ eof' = [eof EXCEPT ![block.file] = FALSE] /\ UNCHANGED <<disk, io>>
                 /\ buffer' = [buffer EXCEPT ![block.dev] = disk[block.dev][block.sector]]
              \/ /\ tool = "fetch" /\ tool' = block.then /\ io' = buffer[block.dev] /\ eof' = [eof EXCEPT ![block.file] = TRUE]
                 /\ UNCHANGED <<disk, buffer>>
<1>1. tool \in Ways /\ Heard(tool, block, eof)
  BY DEF Block, Point, Fill, Seek, Fetch, Ways, Smooth
<1>2. HasBuffer(chan, block.file, block.dev) /\ chan[block.file].live = TRUE
  BY <1>1, WayServed, BuffersLive
<1>3. CASE Point
  BY <1>1, <1>3 DEF Point, Fault, To, diskVars, fileVars
<1>4. CASE Fill
  BY <1>1, <1>2, <1>4 DEF Fill, Fault, Refused, To, fileVars
<1>5. CASE Seek
  <2>1. Does(block.dev) => chan'[block.file].live = TRUE
    BY <1>1, WayRequest
  <2> QED
    BY <1>1, <1>5, <2>1 DEF Seek, SeekEof, Fault, Refused, To, fileVars
<1>6. CASE Fetch
  <2>1. eof[block.file] = FALSE
    BY <1>1, <1>6 DEF Fetch, Heard
  <2> QED
    BY <1>1, <1>2, <1>6, <2>1 DEF Fetch, Fault, Refused, To, fileVars
<1> QED
  BY <1>3, <1>4, <1>5, <1>6 DEF Block

LEMMA BlockSmooth ==
    ASSUME Staged(tool, task, block), Smooth, Block, ~excuse', task.op = "diskcopy" => task.src # task.dst,
           DOMAIN buffer = Disks
    PROVE  Smooth'
<1>. DEFINE top == HeaderSector(task.src)
<1>1. /\ UNCHANGED <<task, block, original, model, progress, verdict>> /\ tool \in Ways
      /\ Does(block.dev) \/ UNCHANGED channelVars
  BY BlockMoves
<1>2. tool' \in Ways \/ tool' = block.then
  BY BlockMoves DEF Ways
<1>3. /\ block.then \in Thens /\ (block.then = "header" => block.file = 2 /\ block.dev = task.src)
      /\ task.src \in Disks /\ block.file \in {2, 3} /\ block.dev \in {task.src, task.dst}
  BY <1>1, WayServed
<1>4. /\ tool' \notin {"first", "second", "identify"} /\ tool' \notin Wrong
      /\ tool' \in Ways => tool' # block.then
  BY <1>2, <1>3 DEF Ways, Thens, Wrong
<1>5. Equipped /\ Lawful(tool, verdict, task, block) /\ Arriving(top, tool, task, block, io, buffer, disk, original)
      /\ Served(tool, task, block, chan) /\ Paired(tool, task, cmddev, cmdslot) /\ Trailed(Brief, progress)
  BY DEF Smooth
<1>6. HeaderSector(task.src)' = top /\ Brief' = Brief
  BY <1>1 DEF HeaderSector, Brief
<1>7. Lawful(tool', verdict', task', block')
  BY <1>1, <1>3, <1>4, <1>5 DEF Lawful
<1>8. /\ DOMAIN chan' = Files /\ DOMAIN cmddev' = {0, 1} /\ cmdslot' \in {0, 1}
      /\ HasBuffer(chan', 2, task.src) /\ (block.then \in Looping => HasBuffer(chan', 3, task.dst))
      /\ Paired(tool', task, cmddev', cmdslot')
  <2>1. CASE Does(block.dev)
    BY <1>1, <1>4, <2>1, WayRequest
  <2>2. CASE UNCHANGED channelVars
    <3>1. UNCHANGED <<chan, cmddev, cmdslot>>
      BY <2>2 DEF channelVars, commandVars
    <3>2. Paired(tool', task, cmddev, cmdslot)
      BY <1>1, <1>4, <1>5 DEF Paired, Ways
    <3> QED
      BY <1>1, <1>5, <3>1, <3>2, WayServed DEF Equipped
  <2> QED
    BY <1>1, <2>1, <2>2
<1>9. DOMAIN eof' = {2, 3}
  BY <1>5, BlockMoves DEF Equipped
<1>10. Heard(tool', block', eof')
  BY <1>3, <1>1, <1>5, BlockMoves DEF Thens, Heard, Equipped
<1>11. Served(tool', task', block', chan')
  <2>1. tool' \in Ways => tool' \notin Looping
    BY DEF Ways, Looping
  <2>2. tool' \in Looping => block.then \in Looping
    BY <1>2, <2>1
  <2> QED
    BY <1>1, <1>5, <1>8, <2>1, <2>2 DEF Served
<1>12. Arriving(top, tool', task', block', io', buffer', disk', original')
  <2>1. CASE block.then = "header"
    <3>1. block.writing = FALSE /\ block.sector = top /\ disk[task.src] = original[task.src]
      BY <1>1, <1>5, <2>1 DEF Arriving, Opening
    <3>2. disk' = disk
      BY <3>1, BlockMoves
    <3>3. tool' = "fetch" => buffer'[task.src] = original[task.src][top]
      BY <1>3, <2>1, <3>1, BlockMoves DEF Thens
    <3>4. tool' = "header" => io' = original[task.src][top]
      BY <3>1, <1>3, <1>5, <2>1, BlockMoves DEF Arriving
    <3> QED
      BY <1>1, <3>1, <3>2, <3>3, <3>4 DEF Arriving
  <2>2. CASE block.then # "header"
    BY <1>2, <1>3, <2>2, <1>1 DEF Ways, Thens, Arriving, Opening
  <2> QED
    BY <2>1, <2>2
<1>13. Equipped'
  BY <1>8, <1>9 DEF Equipped
<1> QED
  BY <1>1, <1>5, <1>6, <1>7, <1>8, <1>10, <1>11, <1>12, <1>13 DEF Smooth

LEMMA HeaderSupported ==
    ASSUME GoodDisk(model[task.src], original[task.src]), SizedDisk(model[task.src], original[task.src]),
           model[task.src] \in 0..3, Fits, task.op \notin {"format", "diskinit"},
           io = original[task.src][HeaderSector(task.src)]
    PROVE  Supported(task.src)
<1>. DEFINE m == model[task.src]
            z == io.tracks
<1>1. HeaderSector(task.src) = HeaderOn(m)
  BY DEF HeaderSector, HeaderOn
<1>2. io.kind = "header" /\ z \in Sizes(m)
  BY <1>1 DEF GoodDisk, SizedDisk
<1>3. z = DENSE <=> m = 3
  BY <1>2, TrackSizes
<1>4. m # 0 /\ (m = 1 => z \div SIDE = 1)
  BY <1>1 DEF Fits
<1>5. SIDE \in Nat /\ SIDE > 0 /\ DENSE # 2 * SIDE
  BY DiskAssumption
<1>6. (2 * SIDE) \div SIDE = 2
  BY <1>5
<1>7. z = 2 * SIDE => m = 2
  BY <1>3, <1>4, <1>5, <1>6
<1> QED
  BY <1>2, <1>3, <1>7 DEF Supported

(* A walk that left the disk is where it left it. *)
LEMMA StaysThere ==
    ASSUME NEW d, NEW s, Cardinality(DOMAIN d) \in Nat, NEW k \in 0..Cardinality(DOMAIN d),
           Walk(d, s)[k] \notin DOMAIN d, NEW n \in k..Cardinality(DOMAIN d)
    PROVE  Walk(d, s)[n] = Walk(d, s)[k]
<1>. DEFINE most == Cardinality(DOMAIN d)
            w == Walk(d, s)
            Bad == {m \in Nat : m \in k..most /\ w[m] # w[k]}
<1>1. ASSUME Bad # {} PROVE FALSE
  <2>1. PICK m \in Bad : \A j \in Bad : m <= j
    BY <1>1, LeastNumber
  <2>2. m \in k..most /\ w[m] # w[k] /\ m # k /\ k \in Nat /\ most \in Nat
    OBVIOUS
  <2>3. m - 1 \in Nat /\ m - 1 \in k..most /\ m \in 1..most
    BY <2>2
  <2>4. m - 1 \notin Bad
    BY <2>1, <2>3
  <2>5. w[m - 1] = w[k]
    BY <2>3, <2>4
  <2>6. w[m] = NextOf(d, w[m - 1])
    BY <2>3, WalkIs
  <2> QED
    BY <2>2, <2>5, <2>6 DEF NextOf
<1>2. n \in Nat /\ n \in k..most
  OBVIOUS
<1>3. n \notin Bad
  BY <1>1
<1> QED
  BY <1>2, <1>3

(* One that comes back to where it was never leaves the disk. *)
LEMMA ComesBack ==
    ASSUME NEW d, NEW s, Cardinality(DOMAIN d) \in Nat, NEW n \in 0..Cardinality(DOMAIN d),
           NEW j \in 0..n - 1, Walk(d, s)[j] = Walk(d, s)[n], \A i \in 0..n - 1 : Walk(d, s)[i] \in DOMAIN d
    PROVE  Walk(d, s)[Cardinality(DOMAIN d)] \in DOMAIN d
<1>. DEFINE most == Cardinality(DOMAIN d)
            w == Walk(d, s)
            Round == {w[i] : i \in j..n - 1}
            Bad == {m \in Nat : m \in n..most /\ w[m] \notin Round}
<1>1. ASSUME Bad # {} PROVE FALSE
  <2>1. PICK m \in Bad : \A k \in Bad : m <= k
    BY <1>1, LeastNumber
  <2>2. m \in n..most /\ n \in Nat /\ most \in Nat /\ w[m] \notin Round
    OBVIOUS
  <2>3. w[n] \in Round
    OBVIOUS
  <2>4. m # n
    BY <2>2, <2>3
  <2>5. m - 1 \in Nat /\ m - 1 \in n..most /\ m \in 1..most
    BY <2>2, <2>4
  <2>6. m - 1 \notin Bad
    BY <2>1, <2>5
  <2>7. PICK i \in j..n - 1 : w[m - 1] = w[i]
    BY <2>5, <2>6
  <2>8. w[m] = NextOf(d, w[m - 1])
    BY <2>5, WalkIs
  <2>9. i + 1 \in 1..most /\ i + 1 \in j + 1..n
    BY <2>2
  <2>10. w[i + 1] = NextOf(d, w[i])
    BY <2>9, WalkIs
  <2>11. w[i + 1] \in Round
    <3>1. CASE i + 1 = n
      BY <2>3, <3>1
    <3>2. CASE i + 1 # n
      BY <2>9, <3>2
    <3> QED
      BY <3>1, <3>2
  <2> QED
    BY <2>2, <2>7, <2>8, <2>10, <2>11
<1>2. most \in Nat /\ most \in n..most
  OBVIOUS
<1>3. w[most] \in Round
  BY <1>1, <1>2
<1>4. PICK i \in j..n - 1 : w[most] = w[i]
  BY <1>3
<1>5. i \in 0..n - 1
  OBVIOUS
<1> QED
  BY <1>4, <1>5

LEMMA WalkOnList ==
    ASSUME NEW m \in 0..3, NEW d, GoodDisk(m, d), SizedDisk(m, d), LinksStay(m, d),
           NEW n \in 0..Cardinality(DOMAIN d)
    PROVE  OnList(m, d, Walk(d, FirstList(d[HeaderOn(m)].tracks))[n])
<1>. DEFINE z == d[HeaderOn(m)].tracks
            start == FirstList(z)
            most == Cardinality(DOMAIN d)
            w == Walk(d, start)
            Bad == {k \in Nat : k \in 0..most /\ ~OnList(m, d, w[k])}
<1>1. IsFiniteSet(DOMAIN d) /\ most \in Nat /\ start \in Nat \X Nat
  BY FS_CardinalityType DEF GoodDisk
<1>2. z \in Sizes(m) /\ DOMAIN d = Sectors(z)
  BY DEF SizedDisk, IsDisk
<1>3. z \in Nat /\ \A tr \in 1..z : TrackSectors(tr, z) \in Nat
  BY <1>2, TrackSizes
<1>4. ASSUME NEW s \in DOMAIN d, OnList(m, d, s) PROVE OnList(m, d, d[s].next)
  <2>1. PICK tr \in 1..z, se \in Nat : s = <<tr, se>> /\ se < TrackSectors(tr, z)
    BY <1>2, <1>3, SectorIs
  <2>2. TrackSectors(tr, z) \in Nat /\ s[1] = tr /\ s[2] = se /\ s[1] # 0
    BY <1>3, <2>1
  <2>3. s \in Nat \X Nat /\ s[1] = start[1] /\ s[2] >= start[2] /\ ~(s[2] >= TrackSectors(s[1], z))
    BY <1>4, <2>1, <2>2 DEF OnList
  <2>4. d[s] \in ListSectors
    BY <2>3 DEF GoodDisk
  <2> QED
    BY <2>4 DEF LinksStay, ListSectors
<1>5. OnList(m, d, start)
  BY <1>1 DEF OnList
<1>. HIDE DEF start
<1>6. ASSUME Bad # {} PROVE FALSE
  <2>1. PICK k \in Bad : \A j \in Bad : k <= j
    BY <1>6, LeastNumber
  <2>2. k \in 0..most /\ ~OnList(m, d, w[k])
    OBVIOUS
  <2>3. k # 0
    BY <1>1, <1>5, <2>2, WalkIs
  <2>4. k - 1 \in Nat /\ k - 1 \in 0..most /\ k \in 1..most
    BY <1>1, <2>2, <2>3
  <2>5. k - 1 \notin Bad
    BY <2>1, <2>4
  <2>6. OnList(m, d, w[k - 1])
    BY <2>4, <2>5
  <2>7. w[k] = NextOf(d, w[k - 1])
    BY <1>1, <2>4, WalkIs
  <2> QED
    BY <1>4, <2>2, <2>6, <2>7 DEF NextOf
<1>7. n \in Nat /\ n \in 0..most
  OBVIOUS
<1>8. n \notin Bad
  BY <1>6
<1> QED
  BY <1>7, <1>8 DEF start

LEMMA NotAstray ==
    ASSUME NEW b, b = Brief, task.op = "attrib", b.model \in 0..3, GoodDisk(b.model, b.disk),
           SizedDisk(b.model, b.disk), LinksStay(b.model, b.disk), Fits, tool = "list",
           Edited(b, tool, task, io, block, buffer, progress), Trailed(b, progress), task.at[1] # 0
    PROVE  ~Astray(task.at) /\ task.at = Stop(b, progress.count)
<1>. DEFINE d == b.disk
            m == b.model
            s == task.at
            n == progress.count
            z == d[HeaderOn(m)].tracks
            w == Walk(d, FirstOf(b))
            most == Cardinality(DOMAIN d)
<1>1. b.op = "attrib" /\ Been(b, task, progress) /\ Reached(b, n, s) /\ s \in Nat \X Nat
  <2>1. b.op = "attrib"
    BY BriefIs
  <2> QED
    BY <2>1 DEF Edited, HeldWalk, AtLink
<1>2. most \in Nat /\ n \in 0..most /\ w[n] = s /\ \A i \in 0..n - 1 : w[i] \in DOMAIN d
  BY <1>1, FS_CardinalityType DEF Reached, GoodDisk
<1>3. z \in Nat /\ DOMAIN d = Sectors(z) /\ \A tr \in 1..z : TrackSectors(tr, z) \in Nat
  BY TrackSizes DEF SizedDisk, IsDisk
<1>4. w[most][1] = 0
  <2>1. ListChain(original[task.src], task.src).ends
    BY DEF Fits
  <2>2. ListChain(original[task.src], task.src) = Chain(d, FirstOf(b))
    BY BriefIs DEF ListChain, FirstOf
  <2>3. ASSUME NEW x, NEW at PROVE Chain(x, at).ends = (Walk(x, at)[Cardinality(DOMAIN x)][1] = 0)
    BY DEF Chain
  <2> QED
    BY <2>1, <2>2, <2>3
<1>5. \A u \in DOMAIN d : u[1] # 0
  BY <1>3, SectorIs
<1>6. s \in DOMAIN d
  <2>1. CASE s \notin DOMAIN d
    <3>1. w[most] = w[n]
      BY <1>2, <2>1, StaysThere
    <3> QED
      BY <1>2, <1>4, <3>1
  <2> QED
    BY <2>1
<1>7. PICK tr \in 1..z, se \in Nat : s = <<tr, se>> /\ se < TrackSectors(tr, z)
  BY <1>3, <1>6, SectorIs
<1>8. task.tracks = z /\ s[1] = tr /\ s[2] = se /\ TrackSectors(tr, z) \in Nat
  BY <1>1, <1>3, <1>7 DEF Been
<1>9. ~OffTheDisk(s)
  BY <1>3, <1>7, <1>8 DEF OffTheDisk
<1>10. s[1] = FirstList(z)[1] /\ s[2] >= FirstList(z)[2] /\ FirstList(z) \in Nat \X Nat
  <2>1. OnList(m, d, w[n])
    BY <1>2, WalkOnList DEF FirstOf
  <2> QED
    BY <1>2, <2>1 DEF OnList, GoodDisk
<1>11. s \notin progress.seen
  <2>1. ASSUME s \in progress.seen PROVE FALSE
    <3>1. PICK j \in 0..n - 1 : s = w[j]
      BY <1>1, <2>1 DEF Trailed, Stop
    <3>2. w[most] \in DOMAIN d
      BY <1>2, <3>1, ComesBack
    <3> QED
      BY <1>4, <1>5, <3>2
  <2> QED
    BY <2>1
<1>12. ~(s[2] < FirstList(z)[2])
  BY <1>8, <1>10
<1> QED
  BY <1>2, <1>8, <1>9, <1>10, <1>11, <1>12 DEF Astray, Stop

(* A request that leaves the drives alone. *)
Goes(x, t) ==
    /\ SameTask(task, t) /\ UNCHANGED <<original, model, disk, buffer, cmddev, cmdslot>>
    /\ tool \notin Ways \cup {"first", "second", "identify", "over"} /\ x \notin Wrong \cup {"first", "second", "header", "fetch"}
    /\ DOMAIN chan' = Files /\ DOMAIN eof' = {2, 3}
    /\ verdict' \notin {"error", "incomplete"} /\ Trailed(Brief, progress')

LEMMA TurnSmooth ==
    ASSUME Smooth, Goes(tool', task'), tool' = "identify" => task.op # "diskcopy",
           task.op = "diskcopy" => task'.ok = TRUE, tool' \in Ways => block'.then \in Thens,
           Opening(tool', block') => Opening(tool, block),
           tool' \in Ways /\ block'.then = "header" => block'.writing = FALSE /\ block'.sector = HeaderSector(task.src),
           Served(tool', task', block', chan')
    PROVE  Smooth'
<1>1. /\ Equipped /\ Arriving(HeaderSector(task.src), tool, task, block, io, buffer, disk, original)
      /\ Paired(tool, task, cmddev, cmdslot)
  BY DEF Smooth
<1>2. task'.op = task.op /\ task'.src = task.src /\ task'.dst = task.dst
  BY DEF Goes, SameTask
<1>3. Equipped' /\ Heard(tool', block', eof')
  BY <1>1 DEF Goes, Equipped, Heard
<1>4. Lawful(tool', verdict', task', block')
  BY <1>2 DEF Lawful, Goes
<1>5. HeaderSector(task.src)' = HeaderSector(task.src)
  BY <1>2 DEF Goes, HeaderSector
<1>6. Arriving(HeaderSector(task.src)', tool', task', block', io', buffer', disk', original')
  BY <1>1, <1>2, <1>5 DEF Goes, Arriving
<1>7. Paired(tool', task', cmddev', cmdslot')
  BY <1>1, <1>2 DEF Goes, Paired
<1>8. Trailed(Brief', progress')
  <2>1. CASE task.op = "attrib"
    BY <2>1, BriefLasts DEF Goes, EditOps
  <2>2. CASE task.op # "attrib"
    BY <1>2, <2>2 DEF Brief, Trailed
  <2> QED
    BY <2>1, <2>2
<1> QED
  BY <1>3, <1>4, <1>6, <1>7, <1>8 DEF Smooth

LEMMA TransferSmooth ==
    ASSUME Smooth, Goes(tool', task'), task'.ok = task.ok, tool' \in {"seek", "point"},
           NEW f, NEW dev, NEW s, NEW writing, NEW then \in Thens, NEW otherwise,
           block' = Sent(f, dev, s, writing, then, otherwise), HasBuffer(chan', 2, task.src),
           then = "header" => writing = FALSE /\ s = HeaderSector(task.src) /\ Opening(tool, block),
           \/ f = 2 /\ dev = task.src
           \/ f = 3 /\ dev = task.dst /\ then \in Looping,
           then \in Looping => HasBuffer(chan', 3, task.dst)
    PROVE  Smooth'
<1>1. /\ block'.file = f /\ block'.dev = dev /\ block'.sector = s /\ block'.writing = writing /\ block'.then = then
  BY DEF Sent
<1>2. tool' \in Ways /\ tool' \notin Looping \cup {"identify"}
  BY DEF Ways, Looping
<1>3. task'.src = task.src /\ task'.dst = task.dst
  BY DEF Goes, SameTask
<1>4. Served(tool', task', block', chan')
  BY <1>1, <1>2, <1>3 DEF Served
<1>5. Opening(tool', block') => Opening(tool, block)
  BY <1>1, <1>2 DEF Opening, Ways
<1>6. task.op = "diskcopy" => task'.ok = TRUE
  BY DEF Smooth, Lawful
<1> QED
  BY <1>1, <1>2, <1>4, <1>5, <1>6, TurnSmooth

(* One that is neither in a loop nor a transfer needs no buffer. *)
LEMMA RestSmooth ==
    ASSUME Smooth, Goes(tool', task'), task.op = "diskcopy" => task'.ok = TRUE,
           tool' = "identify" => task.op # "diskcopy", tool' \notin Ways \cup Looping \cup {"open second"},
           tool' \in Walking => HasBuffer(chan', 2, task.src), Opening(tool', block') => Opening(tool, block)
    PROVE  Smooth'
<1>1. task'.src = task.src
  BY DEF Goes, SameTask
<1>2. Served(tool', task', block', chan')
  BY <1>1 DEF Served
<1> QED
  BY <1>2, TurnSmooth

(* What every request of a command to the shell's own buffers leaves alone. *)
LEMMA SteadyGoes ==
    ASSUME Staged(tool, task, block), task.op # "copyrel", Smooth, Steady
    PROVE  /\ TaskTyped(task) /\ tool \in Stages(task.op) /\ task.op \in DiskOps
           /\ SameTask(task, task') /\ UNCHANGED <<original, model, disk, buffer, cmddev, cmdslot>>
           /\ tool \notin Ways \cup {"first", "second", "identify", "over"}
           /\ \/ OpenHeader \/ CheckHeader \/ Change \/ NextCopy \/ ChangeCopy \/ OpenBoth \/ ReadSector \/ WriteSector
              \/ NextSector \/ CloseBoth \/ OpenList \/ NextList \/ Mark
<1>1. TaskTyped(task) /\ task.op \in DiskOps
  BY DEF Staged, TaskTyped
<1>2. tool \notin Ways /\ UNCHANGED <<original, model, disk, buffer>> /\ SameTask(task, task')
  BY <1>1, SteadyDrives, SteadyTask
<1>3. tool \in Stages(task.op)
  BY <1>2 DEF Staged
<1>4. ~(SeekRelative \/ OpenRelative \/ NextBlock \/ Spread \/ Position \/ PutRecord)
  <2>1. ASSUME NEW x \in {"search", "reopen", "open relative", "block", "spread", "position", "put"} PROVE tool # x
    <3>1. x \in Stages(task.op) => task.op = "copyrel"
      BY <1>1, StagesOf
    <3> QED
      BY <1>3, <3>1
  <2> QED
    BY <2>1 DEF SeekRelative, OpenRelative, NextBlock, Spread, Position, PutRecord
<1>5. \/ OpenHeader \/ CheckHeader \/ Change \/ NextCopy \/ ChangeCopy \/ OpenBoth \/ ReadSector \/ WriteSector
      \/ NextSector \/ CloseBoth \/ OpenList \/ NextList \/ Mark
  BY <1>4 DEF Steady
<1>6. UNCHANGED <<cmddev, cmdslot>> /\ tool \notin {"first", "second", "identify", "over"}
  BY <1>5 DEF OpenHeader, CheckHeader, Change, NextCopy, ChangeCopy, OpenBoth, ReadSector, WriteSector,
              NextSector, CloseBoth, OpenList, NextList, Mark, RawOpened, RawFails, commandVars, channelVars
<1> QED
  BY <1>1, <1>2, <1>3, <1>5, <1>6

LEMMA BuffersOpen ==
    ASSUME Equipped, NEW f \in {2, 3}, NEW dev
    PROVE  /\ HasBuffer(Buffered(f, dev), f, dev) /\ DOMAIN Buffered(f, dev) = Files
           /\ \A g, e : g # f /\ HasBuffer(chan, g, e) => HasBuffer(Buffered(f, dev), g, e)
           /\ DOMAIN Released(chan, f) = Files /\ DOMAIN Released(Released(chan, 2), 3) = Files
           /\ DOMAIN [eof EXCEPT ![f] = FALSE] = {2, 3}
<1>1. DOMAIN chan = Files /\ f \in Files /\ DOMAIN eof = {2, 3}
  BY DEF Equipped, Files
<1>2. Buffered(f, dev) = [chan EXCEPT ![f] = Reading(<<dev, 0>>, <<>>)]
  BY DEF Buffered
<1>3. \A cs, g : DOMAIN Released(cs, g) = DOMAIN cs
  BY DEF Released
<1> QED
  BY <1>1, <1>2, <1>3 DEF HasBuffer

LEMMA OpenHeaderSmooth ==
    ASSUME Staged(tool, task, block), task.op # "copyrel", Smooth, OpenHeader, ~excuse'
    PROVE  Smooth'
<1>1. /\ TaskTyped(task) /\ SameTask(task, task') /\ UNCHANGED <<original, model, disk, buffer, cmddev, cmdslot>>
      /\ tool \notin Ways \cup {"first", "second", "identify", "over"}
  BY SteadyGoes DEF Steady
<1>2. Equipped /\ Trailed(Brief, progress) /\ verdict \notin {"error", "incomplete"}
  BY DEF Smooth, Lawful
<1>3. /\ chan' = Buffered(2, task.src) /\ eof' = [eof EXCEPT ![2] = FALSE] /\ tool = "open" /\ tool' = "seek"
      /\ block' = Sent(2, task.src, HeaderSector(task.src), FALSE, "header", "give up")
      /\ UNCHANGED <<task, verdict, progress>>
  BY DEF OpenHeader, RawOpened, RawFails, Transfer, To, Stopped, Sent, fileVars
<1>4. Goes(tool', task')
  BY <1>1, <1>2, <1>3, BuffersOpen DEF Goes, Wrong
<1>5. "header" \in Thens /\ "header" \notin Looping /\ Opening(tool, block)
  BY <1>3 DEF Thens, Looping, Opening
<1> QED
  BY <1>2, <1>3, <1>4, <1>5, BuffersOpen, TransferSmooth

LEMMA CheckHeaderSmooth ==
    ASSUME Staged(tool, task, block), task.op # "copyrel", Smooth, CheckHeader, ~excuse', Fits,
           GoodDisk(model[task.src], original[task.src]), SizedDisk(model[task.src], original[task.src]),
           model[task.src] \in 0..3
    PROVE  Smooth'
<1>1. /\ TaskTyped(task) /\ SameTask(task, task') /\ UNCHANGED <<original, model, disk, buffer, cmddev, cmdslot>>
      /\ tool \notin Ways \cup {"first", "second", "identify", "over"} /\ tool \in Stages(task.op) /\ task.op \in DiskOps
  BY SteadyGoes DEF Steady
<1>2. Equipped /\ Trailed(Brief, progress) /\ verdict \notin {"error", "incomplete"}
      /\ (task.op = "diskcopy" => task.ok = TRUE)
  BY DEF Smooth, Lawful
<1>3. tool = "header" /\ chan' = Released(chan, 2) /\ UNCHANGED <<eof, progress, block>>
  BY DEF CheckHeader, fileVars
<1>4. Supported(task.src)
  <2>1. io = original[task.src][HeaderSector(task.src)]
    BY <1>3 DEF Smooth, Arriving
  <2>2. task.op \notin {"format", "diskinit"}
    BY <1>1, <1>3, StagesOf
  <2> QED
    BY <2>1, <2>2, HeaderSupported
<1>5. DOMAIN task = TaskFields
  BY <1>1 DEF TaskTyped
<1>6. /\ tool' \in {"over", "identify", "change", "agree", "open list"}
      /\ verdict' = verdict \/ verdict' = "done"
      /\ task.op = "diskcopy" => task'.ok = TRUE
      /\ tool' = "identify" => task.op # "diskcopy"
  BY <1>2, <1>4, <1>5 DEF CheckHeader, To, Stopped, TaskFields
<1>7. /\ tool' \notin Wrong \cup {"first", "second", "header", "fetch"}
      /\ tool' \notin Ways \cup Looping \cup Walking \cup {"open second"}
  BY <1>6 DEF Wrong, Ways, Looping, Walking
<1>8. Goes(tool', task')
  BY <1>1, <1>2, <1>3, <1>6, <1>7, BuffersOpen DEF Goes, Equipped
<1>9. Opening(tool, block)
  BY <1>3 DEF Opening
<1> QED
  BY <1>6, <1>7, <1>8, <1>9, RestSmooth

(* LABEL and DISKID *)
LEMMA ChangeSmooth ==
    ASSUME Staged(tool, task, block), task.op # "copyrel", Smooth, Change \/ NextCopy \/ ChangeCopy, ~excuse'
    PROVE  Smooth'
<1>1. /\ TaskTyped(task) /\ SameTask(task, task') /\ UNCHANGED <<original, model, disk, buffer, cmddev, cmdslot>>
      /\ tool \notin Ways \cup {"first", "second", "identify", "over"}
  BY SteadyGoes DEF Steady
<1>2. Equipped /\ Trailed(Brief, progress) /\ verdict \notin {"error", "incomplete"} /\ Served(tool, task, block, chan)
  BY DEF Smooth, Lawful
<1>3. UNCHANGED <<task, verdict, progress>>
  BY DEF Change, NextCopy, ChangeCopy, RawFails, Transfer, To, Stopped, fileVars
<1>4. \/ chan' = Buffered(2, task.src) /\ eof' = [eof EXCEPT ![2] = FALSE]
      \/ tool \in {"changed", "repeat"} /\ chan' = chan /\ eof' = eof
      \/ chan' = Released(chan, 2) /\ eof' = eof /\ tool' = "initialize"
  BY DEF Change, NextCopy, ChangeCopy, RawOpened, RawFails, Transfer, To, Stopped, channelVars
<1>5. \/ /\ tool' \in {"seek", "point"}
         /\ \E s, writing, then : then \in {"changed", "repeat"} /\ block' = Sent(2, task.src, s, writing, then, "give up")
      \/ tool' = "initialize"
  BY DEF Change, NextCopy, ChangeCopy, RawFails, Transfer, To, Stopped, Sent
<1>6. DOMAIN chan' = Files /\ DOMAIN eof' = {2, 3}
  BY <1>2, <1>4, BuffersOpen DEF Equipped
<1>7. Goes(tool', task')
  BY <1>1, <1>2, <1>3, <1>5, <1>6 DEF Goes, Wrong
<1>8. CASE tool' = "initialize"
  <2>1. tool' \notin Ways \cup Looping \cup Walking \cup {"open second"} /\ ~Opening(tool', block')
    BY <1>8 DEF Ways, Looping, Walking, Opening
  <2>2. task.op = "diskcopy" => task.ok = TRUE
    BY DEF Smooth, Lawful
  <2> QED
    BY <1>3, <1>7, <1>8, <2>1, <2>2, RestSmooth
<1>9. CASE tool' \in {"seek", "point"}
  <2>1. PICK s, writing, then : then \in {"changed", "repeat"} /\ block' = Sent(2, task.src, s, writing, then, "give up")
    BY <1>5, <1>9
  <2>2. HasBuffer(chan', 2, task.src)
    <3>1. tool \in {"changed", "repeat"} => HasBuffer(chan, 2, task.src)
      BY <1>2 DEF Served, Walking
    <3> QED
      BY <1>2, <1>4, <1>9, <3>1, BuffersOpen
  <2>3. then \in Thens /\ then # "header" /\ then \notin Looping
    BY <2>1 DEF Thens, Looping
  <2> QED
    BY <1>3, <1>7, <1>9, <2>1, <2>2, <2>3, TransferSmooth
<1> QED
  BY <1>5, <1>8, <1>9

(* DISKCOPY *)
LEMMA OpenBothSmooth ==
    ASSUME Staged(tool, task, block), task.op # "copyrel", Smooth, OpenBoth, ~excuse'
    PROVE  Smooth'
<1>1. /\ TaskTyped(task) /\ SameTask(task, task') /\ UNCHANGED <<original, model, disk, buffer, cmddev, cmdslot>>
      /\ tool \notin Ways \cup {"first", "second", "identify", "over"}
  BY SteadyGoes DEF Steady
<1>2. Equipped /\ Trailed(Brief, progress) /\ verdict \notin {"error", "incomplete"} /\ Served(tool, task, block, chan)
      /\ (task.op = "diskcopy" => task.ok = TRUE)
  BY DEF Smooth, Lawful
<1>3. /\ UNCHANGED <<task, verdict, progress, block>>
      /\ \/ tool' = "open second" /\ chan' = Buffered(2, task.src) /\ eof' = [eof EXCEPT ![2] = FALSE]
         \/ /\ tool = "open second" /\ tool' = "read"
            /\ chan' = Buffered(3, task.dst) /\ eof' = [eof EXCEPT ![3] = FALSE]
  BY DEF OpenBoth, RawOpened, RawFails, To, Stopped, fileVars
<1>4. Goes(tool', task')
  BY <1>1, <1>2, <1>3, BuffersOpen DEF Goes, Wrong
<1>5. tool' \notin Ways \cup Walking \cup {"identify"} /\ ~Opening(tool', block')
  BY <1>3 DEF Ways, Walking, Opening
<1>6. CASE tool' = "open second" /\ chan' = Buffered(2, task.src)
  <2>1. tool' \notin Looping
    BY <1>6 DEF Looping
  <2>2. Served(tool', task', block', chan')
    BY <1>2, <1>3, <1>5, <1>6, <2>1, BuffersOpen DEF Served
  <2> QED
    BY <1>2, <1>3, <1>4, <1>5, <2>2, TurnSmooth
<1>7. CASE tool = "open second" /\ tool' = "read" /\ chan' = Buffered(3, task.dst)
  <2>1. HasBuffer(chan, 2, task.src)
    BY <1>2, <1>7 DEF Served
  <2>2. HasBuffer(chan', 3, task.dst) /\ HasBuffer(chan', 2, task.src)
    <3>1. 2 # 3 /\ 3 \in {2, 3}
      OBVIOUS
    <3> QED
      BY <1>2, <1>7, <2>1, <3>1, BuffersOpen
  <2>3. Served(tool', task', block', chan')
    BY <1>3, <1>5, <2>2 DEF Served
  <2> QED
    BY <1>2, <1>3, <1>4, <1>5, <2>3, TurnSmooth
<1> QED
  BY <1>3, <1>6, <1>7

LEMMA LoopSmooth ==
    ASSUME Staged(tool, task, block), task.op # "copyrel", Smooth, ReadSector \/ WriteSector \/ NextSector, ~excuse'
    PROVE  Smooth'
<1>1. /\ TaskTyped(task) /\ SameTask(task, task') /\ UNCHANGED <<original, model, disk, buffer, cmddev, cmdslot>>
      /\ tool \notin Ways \cup {"first", "second", "identify", "over"}
  BY SteadyGoes DEF Steady
<1>2. Equipped /\ Trailed(Brief, progress) /\ verdict \notin {"error", "incomplete"} /\ Served(tool, task, block, chan)
      /\ (task.op = "diskcopy" => task.ok = TRUE)
  BY DEF Smooth, Lawful
<1>3. UNCHANGED <<chan, eof, verdict, progress>> /\ tool \in Looping
  BY DEF ReadSector, WriteSector, NextSector, Transfer, To, channelVars, fileVars, Looping
<1>4. HasBuffer(chan, 2, task.src) /\ HasBuffer(chan, 3, task.dst)
  BY <1>2, <1>3 DEF Served
<1>5. CASE ReadSector
  <2>1. task' = task /\ tool' = "seek" /\ block' = Sent(2, task.src, task.at, FALSE, "write", "broken")
    BY <1>5 DEF ReadSector, Transfer, To, Sent
  <2>2. Goes(tool', task')
    BY <1>1, <1>2, <1>3, <2>1 DEF Goes, Wrong, Equipped
  <2>3. "write" \in Thens /\ "write" \in Looping
    BY DEF Thens, Looping
  <2> QED
    BY <1>3, <1>4, <2>1, <2>2, <2>3, TransferSmooth
<1>6. CASE WriteSector
  <2>1. task' = task /\ tool' = "point" /\ block' = Sent(3, task.dst, task.at, TRUE, "written", "broken")
    BY <1>6 DEF WriteSector, Transfer, To, Sent
  <2>2. Goes(tool', task')
    BY <1>1, <1>2, <1>3, <2>1 DEF Goes, Wrong, Equipped
  <2>3. "written" \in Thens /\ "written" \in Looping
    BY DEF Thens, Looping
  <2> QED
    BY <1>3, <1>4, <2>1, <2>2, <2>3, TransferSmooth
<1>7. CASE NextSector
  <2>1. tool' \in {"read", "whole"} /\ (task' = task \/ \E at : task' = [task EXCEPT !.at = at]) /\ block' = block
    BY <1>7 DEF NextSector, To
  <2>2. task.op = "diskcopy" => task'.ok = TRUE
    BY <1>1, <1>2, <2>1 DEF TaskTyped, TaskFields
  <2>3. Goes(tool', task')
    BY <1>1, <1>2, <1>3, <2>1 DEF Goes, Wrong, Equipped
  <2>4. tool' \notin Ways \cup Walking \cup {"open second", "identify"} /\ ~Opening(tool', block')
    BY <2>1 DEF Ways, Walking, Opening
  <2>5. Served(tool', task', block', chan')
    BY <1>1, <1>3, <1>4, <2>4 DEF Served, SameTask
  <2> QED
    BY <2>2, <2>3, <2>4, <2>5, TurnSmooth
<1> QED
  BY <1>5, <1>6, <1>7

LEMMA CloseSmooth ==
    ASSUME Staged(tool, task, block), task.op # "copyrel", Smooth, CloseBoth
    PROVE  Smooth'
<1>1. /\ TaskTyped(task) /\ SameTask(task, task') /\ UNCHANGED <<original, model, disk, buffer, cmddev, cmdslot>>
      /\ tool \notin Ways \cup {"first", "second", "identify", "over"}
  BY SteadyGoes DEF Steady
<1>2. Equipped /\ Trailed(Brief, progress) /\ verdict \notin {"error", "incomplete"} /\ tool # "broken"
  BY DEF Smooth, Lawful, Wrong
<1>3. /\ UNCHANGED <<eof, verdict, progress>> /\ tool = "whole" /\ tool' = "initialize"
      /\ task' = [task EXCEPT !.ok = tool = "whole"] /\ chan' = Released(Released(chan, 2), 3)
  BY <1>2 DEF CloseBoth, To, fileVars
<1>4. task'.ok = TRUE
  BY <1>1, <1>3 DEF TaskTyped, TaskFields
<1>5. Goes(tool', task')
  BY <1>1, <1>2, <1>3, BuffersOpen DEF Goes, Wrong, Equipped
<1>6. tool' \notin Ways \cup Looping \cup Walking \cup {"open second", "identify"} /\ ~Opening(tool', block')
  BY <1>3 DEF Ways, Looping, Walking, Opening
<1> QED
  BY <1>4, <1>5, <1>6, RestSmooth

(* ATTRIB *)
LEMMA ListSmooth ==
    ASSUME Staged(tool, task, block), task.op # "copyrel", Smooth, OpenList \/ NextList \/ Mark, ~excuse', Fits,
           NEW b, b = Brief, b.model \in 0..3, GoodDisk(b.model, b.disk), SizedDisk(b.model, b.disk),
           LinksStay(b.model, b.disk), Edited(b, tool, task, io, block, buffer, progress)
    PROVE  Smooth'
<1>1. /\ TaskTyped(task) /\ SameTask(task, task') /\ UNCHANGED <<original, model, disk, buffer, cmddev, cmdslot>>
      /\ tool \notin Ways \cup {"first", "second", "identify", "over"} /\ tool \in Stages(task.op) /\ task.op \in DiskOps
  BY SteadyGoes DEF Steady
<1>2. Equipped /\ Trailed(b, progress) /\ verdict \notin {"error", "incomplete"} /\ Served(tool, task, block, chan)
  BY DEF Smooth, Lawful
<1>3. task.op = "attrib" /\ b.op = "attrib"
  <2>1. tool \in {"open list", "list", "follow"} \/ tool = "mark"
    BY DEF OpenList, NextList, Mark
  <2>2. task.op = "attrib"
    BY <1>1, <2>1, StagesOf
  <2> QED
    BY <2>2, BriefIs
<1>4. CASE OpenList
  <2>1. /\ chan' = Buffered(2, task.src) /\ eof' = [eof EXCEPT ![2] = FALSE] /\ tool' = "list"
        /\ UNCHANGED <<task, verdict, progress, block>>
    BY <1>4 DEF OpenList, RawOpened, RawFails, To, Stopped, fileVars
  <2>2. Goes(tool', task')
    BY <1>1, <1>2, <2>1, BuffersOpen DEF Goes, Wrong
  <2>3. tool' \notin Ways \cup Looping \cup {"open second", "identify"} /\ ~Opening(tool', block')
    BY <2>1 DEF Ways, Looping, Opening
  <2>4. HasBuffer(chan', 2, task.src)
    BY <1>2, <2>1, BuffersOpen
  <2> QED
    BY <1>3, <2>2, <2>3, <2>4, RestSmooth
<1>6. "mark" \in Thens /\ "follow" \in Thens /\ "mark" \notin Looping /\ "follow" \notin Looping
  BY DEF Thens, Looping
<1>7. CASE NextList
  <2>1. tool = "list" /\ UNCHANGED <<chan, eof, task, verdict>>
    BY <1>7 DEF NextList, Transfer, To, channelVars
  <2>2. HasBuffer(chan', 2, task.src)
    BY <1>2, <2>1 DEF Served, Walking
  <2>3. CASE task.at[1] = 0
    <3>1. tool' = "listed" /\ UNCHANGED <<block, progress>>
      BY <1>7, <2>3 DEF NextList, To
    <3>2. Goes(tool', task')
      BY <1>1, <1>2, <2>1, <3>1 DEF Goes, Wrong, Equipped
    <3>3. tool' \notin Ways \cup Looping \cup {"open second", "identify"} /\ ~Opening(tool', block')
      BY <3>1 DEF Ways, Looping, Opening
    <3> QED
      BY <1>3, <2>2, <3>2, <3>3, RestSmooth
  <2>4. CASE task.at[1] # 0
    <3>1. ~Astray(task.at) /\ task.at = Stop(b, progress.count)
      BY <1>2, <1>3, <2>1, <2>4, NotAstray
    <3>2. /\ tool' = "seek" /\ block' = Sent(2, task.src, task.at, FALSE, "mark", "astray")
          /\ progress' = [progress EXCEPT !.seen = @ \cup {task.at}, !.count = @ + 1]
      BY <1>3, <1>7, <2>4, <3>1 DEF NextList, Transfer, To, Sent
    <3>3. Fields(progress) /\ progress.count \in Nat
      BY <1>3, <2>1 DEF Edited, HeldWalk, AtLink, Reached
    <3>4. Trailed(b, progress')
      BY <3>2, <3>3, <1>2, <1>3, <3>1 DEF Fields, Trailed
    <3>5. Goes(tool', task')
      BY <1>1, <1>2, <2>1, <3>2, <3>4 DEF Goes, Wrong, Equipped
    <3> QED
      BY <1>6, <2>1, <2>2, <3>2, <3>5, TransferSmooth
  <2> QED
    BY <2>3, <2>4
<1>8. CASE Mark
  <2>1. UNCHANGED <<chan, eof, verdict>> /\ tool \in {"mark", "follow"}
    BY <1>8 DEF Mark, Transfer, To, channelVars
  <2>2. HasBuffer(chan', 2, task.src)
    BY <1>2, <2>1 DEF Served, Walking
  <2>3. Trailed(b, progress')
    BY <1>8, <1>2 DEF Mark, fileVars, Edited, Fields, Trailed
  <2>4. \/ tool' \in {"follow", "list"}
        \/ task' = task /\ tool' = "point" /\ block' = Sent(2, task.src, task.at, TRUE, "follow", "astray")
    BY <1>8 DEF Mark, Transfer, To, Sent
  <2>5. Goes(tool', task')
    BY <1>1, <1>2, <2>1, <2>3, <2>4 DEF Goes, Wrong, Equipped
  <2>6. CASE tool' \in {"follow", "list"}
    <3>1. tool' \notin Ways \cup Looping \cup {"open second", "identify"} /\ ~Opening(tool', block')
      BY <2>6 DEF Ways, Looping, Opening
    <3> QED
      BY <1>3, <2>2, <2>5, <3>1, RestSmooth
  <2>7. CASE task' = task /\ tool' = "point" /\ block' = Sent(2, task.src, task.at, TRUE, "follow", "astray")
    BY <1>6, <2>2, <2>5, <2>7, TransferSmooth
  <2> QED
    BY <2>4, <2>6, <2>7
<1> QED
  BY <1>4, <1>7, <1>8

LEMMA SteadySmooth ==
    ASSUME Staged(tool, task, block), task.op # "copyrel", Smooth, Steady, ~excuse', Fits,
           NEW b, b = Brief, b.model \in 0..3, GoodDisk(b.model, b.disk), SizedDisk(b.model, b.disk),
           LinksStay(b.model, b.disk),
           task.op \in EditOps => Edited(b, tool, task, io, block, buffer, progress)
    PROVE  Smooth'
<1>1. /\ tool \in Stages(task.op) /\ task.op \in DiskOps
      /\ \/ OpenHeader \/ CheckHeader \/ Change \/ NextCopy \/ ChangeCopy \/ OpenBoth \/ ReadSector \/ WriteSector
         \/ NextSector \/ CloseBoth \/ OpenList \/ NextList \/ Mark
  BY SteadyGoes
<1>2. b.model = model[task.src] /\ b.disk = original[task.src]
  BY BriefIs
<1>3. CASE OpenList \/ NextList \/ Mark
  <2>1. tool \in {"open list", "list", "follow"} \/ tool = "mark"
    BY <1>3 DEF OpenList, NextList, Mark
  <2>2. task.op = "attrib"
    BY <1>1, <2>1, StagesOf
  <2> QED
    BY <1>3, <2>2, ListSmooth DEF EditOps
<1> QED
  BY <1>1, <1>2, <1>3, OpenHeaderSmooth, CheckHeaderSmooth, ChangeSmooth, OpenBothSmooth, LoopSmooth, CloseSmooth

LEMMA FormatSmooth ==
    ASSUME Staged(tool, task, block), task.op = "diskcopy" => task.src # task.dst, Smooth, FormatDisk, ~excuse'
    PROVE  Smooth'
<1>1. /\ UNCHANGED <<original, model, task, block, buffer>> /\ task.src \in Disks /\ task.dst \in Disks
  BY FormatStaged DEF Staged, TaskTyped
<1>2. /\ tool = "format" /\ Does(task.dst) /\ UNCHANGED <<io, eof, progress>>
      /\ tool' \in {"over", "settle"} /\ (verdict' = verdict \/ verdict' = "done")
      /\ task.op = "diskcopy" => tool' = "settle"
  BY DEF FormatDisk, To, Stopped, fileVars
<1>3. /\ Equipped /\ Lawful(tool, verdict, task, block) /\ Paired(tool, task, cmddev, cmdslot)
      /\ Trailed(Brief, progress)
  BY DEF Smooth
<1>4. Status(task.dst, files, chan) /\ UseStatus(task.dst, TRUE)
  BY <1>2 DEF Does, CommandDone, Status
<1>5. Equipped'
  BY <1>1, <1>2, <1>3, <1>4, RequestServed DEF Equipped
<1>6. Paired(tool', task', cmddev', cmdslot')
  <2>1. CASE task.op # "diskcopy"
    BY <1>1, <2>1 DEF Paired
  <2>2. CASE task.op = "diskcopy"
    BY <1>1, <1>2, <1>3, <1>4, <2>2, RequestPaired
  <2> QED
    BY <2>1, <2>2
<1>7. tool' \notin Ways \cup Walking \cup Looping \cup Wrong \cup {"open second", "header"} /\ ~Opening(tool', block')
  BY <1>2 DEF Ways, Walking, Looping, Wrong, Opening
<1>8. Lawful(tool', verdict', task', block')
  BY <1>1, <1>2, <1>3, <1>7 DEF Lawful
<1>9. Arriving(HeaderSector(task.src)', tool', task', block', io', buffer', disk', original')
  BY <1>2, <1>7 DEF Arriving
<1>10. Heard(tool', block', eof') /\ Served(tool', task', block', chan') /\ Brief' = Brief
  BY <1>1, <1>2, <1>7 DEF Heard, Served, Ways, Brief
<1> QED
  BY <1>2, <1>3, <1>5, <1>6, <1>8, <1>9, <1>10 DEF Smooth

LEMMA ExcuseStays ==
    ASSUME Talks \/ Steady \/ Block \/ FormatDisk, ~excuse'
    PROVE  ~excuse
<1>1. CASE Block
  BY <1>1 DEF Block, Point, Fill, Seek, Fetch, To, Fault, Refused
<1>2. CASE Talks
  <2>1. CASE IdentifyBoth \/ IdentifyDrive \/ Mode \/ GiveUp \/ Initialize
    BY <2>1 DEF IdentifyBoth, IdentifyDrive, Identify, Mode, GiveUp, Initialize, To, Stopped
  <2>2. CASE Agree \/ Side \/ Settle \/ EndList \/ Validate \/ List
    BY <2>2 DEF Agree, Side, Settle, EndList, Validate, List, To, Stopped
  <2>3. CASE Prepare \/ CloseRelative
    BY <2>3 DEF Prepare, CloseRelative, To, Stopped
  <2> QED
    BY <1>2, <2>1, <2>2, <2>3 DEF Talks
<1>3. CASE Steady
  <2>1. CASE OpenHeader \/ CheckHeader \/ Change \/ NextCopy \/ ChangeCopy
    BY <2>1 DEF OpenHeader, CheckHeader, Change, NextCopy, ChangeCopy, Transfer, To, Stopped
  <2>2. CASE OpenBoth \/ ReadSector \/ WriteSector \/ NextSector \/ CloseBoth
    BY <2>2 DEF OpenBoth, ReadSector, WriteSector, NextSector, CloseBoth, Transfer, To, Stopped
  <2>3. CASE OpenList \/ NextList \/ Mark \/ SeekRelative
    BY <2>3 DEF OpenList, NextList, Mark, SeekRelative, Transfer, To, Stopped
  <2>4. CASE OpenRelative \/ NextBlock \/ Spread \/ Position \/ PutRecord
    BY <2>4 DEF OpenRelative, NextBlock, Spread, Position, PutRecord, CopyBroken, Transfer, To, Stopped
  <2> QED
    BY <1>3, <2>1, <2>2, <2>3, <2>4 DEF Steady
<1>4. CASE FormatDisk
  BY <1>4 DEF FormatDisk, To, Stopped
<1> QED
  BY <1>1, <1>2, <1>3, <1>4

LEMMA FitsLast ==
    ASSUME SameTask(task, task'), UNCHANGED <<original, model>>, task.op # "copyrel", Fits'
    PROVE  Fits
<1>1. task'.op = task.op /\ task'.src = task.src /\ task'.dst = task.dst
  BY DEF SameTask
<1>2. HeaderSector(task.src)' = HeaderSector(task.src)
  BY <1>1 DEF HeaderSector
<1>3. ListChain(original[task.src], task.src)' = ListChain(original[task.src], task.src)
  BY <1>1, <1>2 DEF ListChain
<1> QED
  BY <1>1, <1>2, <1>3 DEF Fits

LEMMA CommandOpens ==
    ASSUME Command
    PROVE  /\ tool' \in {"identify", "find", "first", "validate", "initialize"} /\ verdict' = "none"
           /\ progress' = NoProgress /\ UNCHANGED <<channelVars, eof>>
           /\ task'.op = "diskcopy" => task'.ok = TRUE /\ tool' = "first"
<1>1. /\ tool' \in {"identify", "find", "first", "validate", "initialize"} /\ verdict' = "none"
      /\ progress' = NoProgress /\ UNCHANGED <<channelVars, eof>>
  BY DEF Command, Start
<1>2. ASSUME task'.op = "diskcopy" PROVE task'.ok = TRUE /\ tool' = "first"
  <2>1. PICK dev, label, id :
          \/ Start(Task("format", dev, dev, label, id), "identify")
          \/ Start(Task("label", dev, dev, label, ""), "identify")
          \/ Start([Task("label", dev, dev, label, "") EXCEPT !.ok = FALSE], "find")
          \/ Start(Task("diskid", dev, dev, "", id), "identify")
          \/ \E dst : Start(Task("diskcopy", dev, dst, "mcs-copy", ""), "first")
          \/ Start(Task("vol", dev, dev, "", ""), "find")
          \/ \E begin : Start(Task("chkdsk", dev, dev, "", ""), begin)
          \/ Start(Task("diskinit", dev, dev, "", ""), "initialize")
          \/ \E names, mark :
               Start([Task("attrib", dev, dev, "", "") EXCEPT !.names = names, !.mark = mark], "identify")
          \/ \E dst, name : Start([Task("copyrel", dev, dst, "", "") EXCEPT !.names = {name}], "find")
    BY DEF Command
  <2>2. \A op, dst, l, i : Task(op, dev, dst, l, i).op = op /\ Task(op, dev, dst, l, i).ok = TRUE
    BY DEF Task
  <2>3. [Task("label", dev, dev, label, "") EXCEPT !.ok = FALSE].op = "label"
    BY DEF Task
  <2>4. \A names, mark : [Task("attrib", dev, dev, "", "") EXCEPT !.names = names, !.mark = mark].op = "attrib"
    BY DEF Task
  <2>5. \A dst, name : [Task("copyrel", dev, dst, "", "") EXCEPT !.names = {name}].op = "copyrel"
    BY DEF Task
  <2>6. \A t, x : Start(t, x) => task' = t /\ tool' = x
    BY DEF Start
  <2>7. ~Start([Task("label", dev, dev, label, "") EXCEPT !.ok = FALSE], "find")
    BY <1>2, <2>3, <2>6
  <2>8. ASSUME NEW names, NEW mark,
               Start([Task("attrib", dev, dev, "", "") EXCEPT !.names = names, !.mark = mark], "identify")
        PROVE  FALSE
    <3>1. task' = [Task("attrib", dev, dev, "", "") EXCEPT !.names = names, !.mark = mark]
      BY <2>6, <2>8
    <3>2. task'.op = "attrib"
      BY <2>4, <3>1
    <3> QED
      BY <1>2, <3>2
  <2>9. ASSUME NEW dst, NEW name, Start([Task("copyrel", dev, dst, "", "") EXCEPT !.names = {name}], "find")
        PROVE  FALSE
    <3>1. task' = [Task("copyrel", dev, dst, "", "") EXCEPT !.names = {name}]
      BY <2>6, <2>9
    <3>2. task'.op = "copyrel"
      BY <2>5, <3>1
    <3> QED
      BY <1>2, <3>2
  <2>10. ASSUME NEW op, NEW dst, NEW l, NEW i, NEW x, Start(Task(op, dev, dst, l, i), x)
         PROVE  op = "diskcopy" /\ tool' = x /\ task'.ok = TRUE
    BY <2>6, <2>10, <1>2, <2>2
  <2>11. PICK dst : Start(Task("diskcopy", dev, dst, "mcs-copy", ""), "first")
    <3>1. "format" # "diskcopy" /\ "label" # "diskcopy" /\ "diskid" # "diskcopy" /\ "vol" # "diskcopy"
          /\ "chkdsk" # "diskcopy" /\ "diskinit" # "diskcopy"
      OBVIOUS
    <3> QED
      BY <2>1, <2>7, <2>8, <2>9, <2>10, <3>1, Zenon
  <2> QED
    BY <2>10, <2>11
<1> QED
  BY <1>1, <1>2

LEMMA DisksLinked == DiskInit => \A v \in Disks : LinksStay(model[v], original[v])
<1>. SUFFICES ASSUME DiskInit, NEW v \in Disks
              PROVE  LinksStay(model[v], original[v])
  OBVIOUS
<1>1. model \in [Disks -> 0..3] /\ original = disk
  BY DiskAssumption DEF DiskInit
<1>2. PICK size \in [Disks -> {SIDE, 2 * SIDE, DENSE}] :
        /\ \A d \in Disks : size[d] \in Sizes(model[d])
        /\ disk = [d \in Disks |-> Disk(size[d], "old", "id", d, Catalog[d])]
  BY DEF DiskInit
<1>. DEFINE z == size[v]
            m == model[v]
            catalog == Catalog[v]
            x == Disk(z, "old", "id", v, catalog)
            start == FirstList(z)
<1>3. m \in 0..3 /\ z \in Sizes(m) /\ original[v] = x /\ SizedDisk(m, x)
  BY <1>1, <1>2, DisksSized
<1>4. x[HeaderOn(m)].tracks = z
  <2>1. HeaderOf(z) = HeaderOn(m) /\ z \in Nat /\ HeaderOn(m)[1] \in 1..z
        /\ \A tr \in 1..z : TrackSectors(tr, z) \in Nat /\ TrackSectors(tr, z) > 0
    BY <1>3, TrackSizes
  <2>. HIDE DEF z, m, catalog
  <2>2. HeaderOn(m) \in Sectors(z)
    BY <2>1, SectorIs DEF HeaderOn
  <2>3. x[HeaderOn(m)] = Title(z, "old", "id")
    BY <2>1, <2>2 DEF Disk
  <2> QED
    BY <2>3 DEF Title
<1>5. catalog.list \in Seq(DiskListing) /\ start \in Nat \X Nat
  <2>1. DENSEHEADER \in Nat /\ HEADER \in Nat
    BY DiskAssumption
  <2> QED
    BY <2>1, DiskAssumption DEF FirstList
<1>. HIDE DEF z, m, catalog
<1>6. ASSUME NEW n \in Nat
      PROVE  OnList(m, x, ListSector(z, n))
  <2>. HIDE DEF x
  <2>1. CASE n = 0
    BY <2>1 DEF ListSector, OnList
  <2>2. CASE n # 0
    <3>1. ListSector(z, n) = <<start[1], start[2] + n - 1>>
      BY <2>2 DEF ListSector
    <3>2. start[1] \in Nat /\ start[2] \in Nat /\ start = FirstList(x[HeaderOn(m)].tracks)
      BY <1>4, <1>5
    <3>. HIDE DEF start
    <3>3. start[2] + n - 1 \in Nat /\ start[2] + n - 1 >= start[2]
      BY <2>2, <3>2
    <3> QED
      BY <3>1, <3>2, <3>3 DEF OnList
  <2> QED
    BY <2>1, <2>2
<1>7. ASSUME NEW s \in Sectors(z), x[s].kind = "list"
      PROVE  OnList(m, x, x[s].next)
  <2>. DEFINE i == s[2] - start[2] + 1
              y == IF i \in DOMAIN catalog.list THEN catalog.list[i] ELSE NoEntries
  <2>1. x[s] = ListOf(z, y)
    BY <1>7 DEF Title, Repeated, Payload, BlockOf, Disk
  <2>2. y.next \in Nat
    <3>. HIDE DEF i
    <3>1. \A e \in DiskListing : e.next \in Nat
      BY DEF DiskListing
    <3>2. i \in DOMAIN catalog.list => y \in DiskListing
      BY <1>5
    <3>3. i \notin DOMAIN catalog.list => y = NoEntries
      OBVIOUS
    <3> QED
      BY <3>1, <3>2, <3>3 DEF NoEntries
  <2>3. x[s].next = ListSector(z, y.next)
    BY <2>1 DEF ListOf
  <2>. HIDE DEF x, y
  <2> QED
    BY <1>6, <2>2, <2>3
<1>8. DOMAIN x = Sectors(z)
  BY DEF Disk
<1>. HIDE DEF x
<1> QED
  BY <1>3, <1>7, <1>8 DEF LinksStay, m

LEMMA CauseInvStarts == DiskInit => CauseInv
<1>1. DiskInit => tool = "ready" /\ verdict = "none" /\ Equipped
  BY DEF DiskInit, Equipped
<1> QED
  BY <1>1, DisksLinked DEF CauseInv

LEMMA CauseCommand ==
    ASSUME DiskInv, CauseInv, Command
    PROVE  CauseInv'
<1>1. tool = "ready" /\ tool' # "ready" /\ UNCHANGED <<model, disk>> /\ original' = disk /\ disk = original
      /\ task'.src \in Disks
  BY CommandStarts, StagesApart DEF DiskInv, TaskTyped
<1>2. Equipped'
  BY <1>1, CommandOpens DEF CauseInv, Equipped, channelVars, commandVars
<1>3. tool' \notin Ways \cup Walking \cup Looping \cup Wrong \cup {"open second", "header"}
  BY CommandOpens DEF Ways, Walking, Looping, Wrong
<1>4. Lawful(tool', verdict', task', block')
  BY <1>3, CommandOpens DEF Lawful
<1>5. Arriving(HeaderSector(task.src)', tool', task', block', io', buffer', disk', original')
  BY <1>1, <1>3, CommandOpens DEF Arriving, Ways
<1>6. Heard(tool', block', eof') /\ Served(tool', task', block', chan')
  BY <1>3 DEF Heard, Served, Ways
<1>7. Paired(tool', task', cmddev', cmdslot')
  BY CommandOpens DEF Paired
<1>8. Trailed(Brief', progress')
  BY CommandOpens DEF Trailed, NoProgress
<1>9. Smooth'
  BY <1>2, <1>4, <1>5, <1>6, <1>7, <1>8 DEF Smooth
<1>10. \A v \in Disks : LinksStay(model'[v], original'[v])
  BY <1>1 DEF CauseInv
<1> QED
  BY <1>1, <1>9, <1>10 DEF CauseInv

LEMMA CauseStep ==
    ASSUME DiskInv, CopyInv, CauseInv, DiskNext
    PROVE  CauseInv'
<1>1. CASE Command
  BY <1>1, CauseCommand
<1>2. CASE Talks \/ Steady \/ Block \/ FormatDisk
  <2>1. tool # "ready"
    <3>1. CASE Steady
      BY <3>1 DEF Steady, OpenHeader, CheckHeader, Change, NextCopy, ChangeCopy, OpenBoth, ReadSector, WriteSector,
                  NextSector, CloseBoth, OpenList, NextList, Mark, SeekRelative, OpenRelative, NextBlock,
                  Spread, Position, PutRecord
    <3>2. CASE Talks
      BY <3>2 DEF Talks, IdentifyBoth, IdentifyDrive, Mode, GiveUp, Initialize, Agree, Side, Settle, EndList, Validate,
                  List, Prepare, CloseRelative
    <3>3. CASE Block \/ FormatDisk
      BY <3>3 DEF Block, Point, Fill, Seek, Fetch, FormatDisk
    <3> QED
      BY <1>2, <3>1, <3>2, <3>3
  <2>2. Staged(tool, task, block) /\ EditHeld /\ Drives(disk, original, buffer) /\ TaskTyped(task)
    BY <2>1 DEF DiskInv, Staged
  <2>3. Staged(tool', task', block') /\ SameTask(task, task') /\ UNCHANGED <<original, model>>
    BY <1>2, <2>2, QuietStaged, SteadyStaged, BlockStaged, FormatStaged DEF diskVars
  <2>4. tool' # "ready"
    BY DiskStep, <2>3, StagesApart DEF Staged, TaskTyped, Ways
  <2>5. \A v \in Disks : LinksStay(model'[v], original'[v])
    BY <2>3 DEF CauseInv
  <2>6. ASSUME task'.op # "copyrel", ~excuse', Fits'
        PROVE  Smooth'
    <3>1. task.op # "copyrel" /\ Fits /\ ~excuse
      BY <1>2, <2>3, <2>6, FitsLast, ExcuseStays DEF SameTask
    <3>2. Smooth
      BY <2>1, <3>1 DEF CauseInv
    <3>3. task.op = "diskcopy" => task.src # task.dst
      BY <2>1 DEF CopyInv, CopyHeld
    <3>4. PICK b : b = Brief
      OBVIOUS
    <3>5. b.op = task.op /\ b.src \in Disks /\ b.disk = original[b.src] /\ b.model = model[b.src]
      BY <2>2, <3>4, BriefIs DEF TaskTyped
    <3>6. b.model \in 0..3 /\ GoodDisk(b.model, b.disk) /\ SizedDisk(b.model, b.disk) /\ LinksStay(b.model, b.disk)
      BY <3>5 DEF DiskInv, CopyInv, CauseInv
    <3>7. task.op \in EditOps => Edited(b, tool, task, io, block, buffer, progress)
      BY <2>2, <3>4 DEF EditHeld
    <3>8. CASE Talks
      BY <2>2, <2>6, <3>1, <3>2, <3>3, <3>8, TalkSmooth
    <3>9. CASE Steady
      BY <2>2, <2>6, <3>1, <3>2, <3>4, <3>6, <3>7, <3>9, SteadySmooth
    <3>10. CASE Block
      BY <2>2, <2>6, <3>2, <3>3, <3>10, BlockSmooth DEF Drives
    <3>11. CASE FormatDisk
      BY <2>2, <2>6, <3>2, <3>3, <3>11, FormatSmooth
    <3> QED
      BY <1>2, <3>8, <3>9, <3>10, <3>11
  <2> QED
    BY <2>4, <2>5, <2>6 DEF CauseInv
<1> QED
  BY <1>1, <1>2 DEF DiskNext, Talks, Steady

LEMMA CauseStutters ==
    ASSUME CauseInv, UNCHANGED toolVars
    PROVE  CauseInv'
<1>1. /\ UNCHANGED <<tool, model, task, disk, buffer, io, eof, block, original, progress, verdict, excuse>>
      /\ UNCHANGED <<chan, cmddev, cmdslot>>
  BY DEF toolVars, diskVars, fileVars, channelVars, commandVars
<1>2. Equipped' = Equipped /\ Brief' = Brief
  BY <1>1 DEF Equipped, Brief
<1>3. Fits' = Fits
  BY <1>1 DEF Fits, ListChain, HeaderSector, WholeRel, BlockChain, RelBytes, RelOf, ListedFiles, Meant
<1>4. Smooth' = Smooth
  BY <1>1, <1>2 DEF Smooth, HeaderSector
<1> QED
  BY <1>1, <1>2, <1>3, <1>4 DEF CauseInv

LEMMA CauseInvMeans ==
    ASSUME CauseInv, task.op # "copyrel"
    PROVE  FailsForCause
<1>1. CASE tool = "ready"
  BY <1>1 DEF CauseInv, FailsForCause
<1>2. CASE tool # "ready"
  BY <1>2 DEF CauseInv, Smooth, Lawful, FailsForCause
<1> QED
  BY <1>1, <1>2

(* No disk command but the copy of a REL file says that it failed, on      *)
(* drives and disks that fit it, unless a device did or the user stopped   *)
(* it: whichever drives had command channels before, no buffer is closed   *)
(* by the channel of another drive or found at its end while it is in use, *)
(* a header that was read is the drive's own, and ATTRIB follows every     *)
(* directory that ends (disk.c:47 and 628, filemgmt.c:405).  The copy of a *)
(* REL file is left out: its blocks and records are those of definitions   *)
(* by recursion over data.                                                 *)
THEOREM FailuresHaveACause == DiskSpec => [](task.op # "copyrel" => FailsForCause)
<1>1. DiskInit => DiskInv /\ CopyInv /\ CauseInv
  BY DiskInvStarts, CopyInvStarts, CauseInvStarts
<1>2. DiskInv /\ CopyInv /\ CauseInv /\ [DiskNext]_toolVars => (DiskInv /\ CopyInv /\ CauseInv)'
  <2>1. ASSUME DiskInv, CopyInv, CauseInv, DiskNext
        PROVE  DiskInv' /\ CopyInv' /\ CauseInv'
    BY <2>1, DiskStep, CopyStep, CauseStep
  <2>2. ASSUME DiskInv, CopyInv, CauseInv, UNCHANGED toolVars
        PROVE  DiskInv' /\ CopyInv' /\ CauseInv'
    BY <2>2, DiskStutters, CopyStutters, CauseStutters
  <2> QED
    BY <2>1, <2>2
<1>3. CauseInv => (task.op # "copyrel" => FailsForCause)
  BY CauseInvMeans
<1> QED
  BY <1>1, <1>2, <1>3, PTL DEF DiskSpec
===============================================================================
