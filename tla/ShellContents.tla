----------------------------- MODULE ShellContents -----------------------------
(***************************************************************************)
(* What happens to the contents of files: MOVE and REN do not lose a file, *)
(* a file on the cartridge keeps its old contents until the new ones are   *)
(* complete, and a command that ends without an error has done its work.   *)
(* The proofs follow what a copy has moved so far (Streamed), and what is  *)
(* as it was when the command began (Untouched).                           *)
(***************************************************************************)
EXTENDS ShellProofs

Early == {"find", "prepare", "scratch"}
OneFile == {"copy", "move", "rename", "concat"}

(* Only the destination changes, not before it has been prepared, and on   *)
(* the cartridge not before the copy is complete.                          *)
Untouched ==
    /\ job.op \in OneFile /\ pc # "shell" =>
         \A p \in Places : p # job.dst => files[p] = before[p]
    /\ job.op \in OneFile /\ pc \notin {"shell", "remove"}
         /\ (Dev(job.dst) = Cart \/ pc \in Early) => files = before
    /\ job.op = "all" => \A p \in Places : Dev(p) # Dev(job.dst) => files[p] = before[p]

(* What was read and what is still to be read is the source. *)
Streamed ==
    job.op \in CopyOps =>
      /\ pc = "create" => chan[2].data \in Contents(before, job.src)
      /\ pc \in Writing3 /\ ~chan[3].bad =>
           /\ pc = "stream" => chan[3].data \o chan[2].data \in Contents(before, job.src)
           /\ pc = "finish" /\ ok => chan[3].data \in Contents(before, job.src)
           /\ Dev(job.dst) # Cart => \E x \in files[job.dst] : x.data = chan[3].data
      /\ pc = "remove" =>
           Contents(before, job.src) # {} /\ Contents(files, job.dst) = Contents(before, job.src)

Gathered == UNION {Contents(before, p) : p \in Places}

AllKept ==
    job.op = "all" =>
      \A p \in Places : Dev(p) = Cart /\ files[p] # before[p] =>
        Contents(files, p) # {} /\ Contents(files, p) \subseteq Gathered

Lasting == pc = "shell" => MoveKeepsContents /\ CartridgeKeepsOld

ContentsInv == Untouched /\ Streamed /\ AllKept /\ Lasting

-----------------------------------------------------------------------------
(* The contents of one file. *)
LEMMA ClosedContents ==
    ASSUME NEW fs, NEW p, NEW x, fs[p] = {x}, x.closed
    PROVE  Contents(fs, p) = {x.data}
BY DEF Contents

LEMMA NewContents ==
    ASSUME NEW fs, NEW p, NEW data \in Seq(Chunks), fs[p] = {New(data)}
    PROVE  Contents(fs, p) = {data}
<1>1. PICK x : x = New(data) /\ x.closed /\ x.data = data
  BY NewIsFile
<1>2. fs[p] = {x}
  BY <1>1
<1> QED
  BY <1>1, <1>2, ClosedContents

LEMMA SameContents ==
    ASSUME NEW fs, NEW gs, NEW p, NEW q, fs[p] = gs[q]
    PROVE  Contents(fs, p) = Contents(gs, q)
BY DEF Contents

(* A chunk that goes from the front of one sequence to the end of another. *)
LEMMA OneMoves ==
    ASSUME NEW a \in Seq(Chunks), NEW s \in Seq(Chunks), s # <<>>
    PROVE  Append(a, Head(s)) \o Tail(s) = a \o s
<1>1. Len(s) \in Nat /\ Len(s) > 0 /\ Head(s) = s[1] /\ Head(s) \in Chunks /\ Tail(s) \in Seq(Chunks)
      /\ Len(Tail(s)) = Len(s) - 1 /\ \A i \in 1..Len(s)-1 : Tail(s)[i] = s[i + 1]
  BY HeadTailProperties, EmptySeq
<1>2. Append(a, Head(s)) \in Seq(Chunks) /\ Len(Append(a, Head(s))) = Len(a) + 1
  BY <1>1, AppendProperties
<1>3. PICK b \in Seq(Chunks) : /\ b = Append(a, Head(s)) /\ Len(b) = Len(a) + 1
                               /\ \A i \in 1..Len(a) : b[i] = a[i]
                               /\ b[Len(a) + 1] = s[1]
  BY <1>1, <1>2, AppendProperties
<1>4. PICK t \in Seq(Chunks) : /\ t = Tail(s) /\ Len(t) = Len(s) - 1
                               /\ \A i \in 1..Len(s)-1 : t[i] = s[i + 1]
  BY <1>1
<1>5. Len(a) \in Nat /\ Len(s) \in Nat /\ Len(b) \in Nat
  BY LenProperties
<1>6. Len(b \o t) = Len(a \o s) /\ b \o t \in Seq(Chunks) /\ a \o s \in Seq(Chunks)
  BY <1>3, <1>4, <1>5, ConcatProperties
<1>7. ASSUME NEW i \in 1..Len(a \o s) PROVE (b \o t)[i] = (a \o s)[i]
  <2>1. PICK m \in Nat : m = Len(a)
    BY <1>5
  <2>2. i \in 1..(m + Len(s))
    BY <1>7, <2>1, ConcatProperties
  <2>3. (a \o s)[i] = IF i <= m THEN a[i] ELSE s[i - m]
    BY <2>1, <2>2, ConcatProperties
  <2>4. i \in 1..(Len(b) + Len(t)) /\ Len(b) = m + 1
    BY <1>3, <1>4, <1>5, <2>1, <2>2
  <2>5. (b \o t)[i] = IF i <= m + 1 THEN b[i] ELSE t[i - (m + 1)]
    BY <2>4, ConcatProperties
  <2>6. CASE i <= m
    <3>1. i <= m + 1 /\ i \in 1..Len(a)
      BY <2>1, <2>2, <2>6
    <3> QED
      BY <1>3, <2>3, <2>5, <2>6, <3>1
  <2>7. CASE i = m + 1
    <3>1. i - m = 1 /\ ~(i <= m) /\ i <= m + 1
      BY <2>7
    <3>2. b[i] = s[1]
      BY <1>3, <2>1, <2>7
    <3> QED
      BY <2>3, <2>5, <3>1, <3>2
  <2>8. CASE i > m + 1
    <3>1. PICK k : k = i - (m + 1)
      OBVIOUS
    <3>2. k \in 1..Len(s)-1 /\ k + 1 = i - m /\ ~(i <= m) /\ ~(i <= m + 1)
      BY <1>5, <2>2, <2>8, <3>1
    <3>3. t[k] = s[i - m]
      BY <1>4, <3>2
    <3> QED
      BY <2>3, <2>5, <3>1, <3>2, <3>3
  <2>9. i <= m \/ i = m + 1 \/ i > m + 1
    BY <1>5, <2>2
  <2> QED
    BY <2>6, <2>7, <2>8, <2>9
<1>8. b \o t = a \o s
  BY <1>6, <1>7, SeqEqual
<1> QED
  BY <1>3, <1>4, <1>8

LEMMA NothingMoves ==
    ASSUME NEW a \in Seq(Chunks)
    PROVE  a \o <<>> = a
BY ConcatEmptySeq

-----------------------------------------------------------------------------
(* While a command works, what it has been told to keep is there: at any   *)
(* moment the machine may be reset.                                        *)
LEMMA FilesOfJob ==
    ASSUME Base
    PROVE  /\ FilesT(files) /\ FilesT(before) /\ DOMAIN files = Places /\ DOMAIN before = Places
           /\ job.op \in OneFile => job.dst \in Places
           /\ job.op \in OneFile \ {"concat"} => job.src \in Places /\ job.src # job.dst
           /\ job.op = "all" => Dev(job.src) # Dev(job.dst)
BY DEF Base, ShellType, FilesT, Jobs, OneFile

LEMMA Verdicts ==
    ASSUME Base, ContentsInv
    PROVE  MoveKeepsContents /\ CartridgeKeepsOld
<1>1. CASE pc = "shell"
  BY <1>1 DEF ContentsInv, Lasting
<1>2. CASE pc # "shell" /\ job.op \in OneFile
  <2>1. \A p \in Places : p # job.dst => files[p] = before[p]
    BY <1>2 DEF ContentsInv, Untouched
  <2>2. MoveKeepsContents
    <3>. SUFFICES ASSUME job.op \in {"move", "rename"}
                  PROVE  Contents(before, job.src) \subseteq Contents(files, job.src)
      BY DEF MoveKeepsContents
    <3>1. files[job.src] = before[job.src]
      BY <1>2, <2>1, FilesOfJob DEF OneFile
    <3> QED
      BY <3>1, SameContents
  <2>3. CartridgeKeepsOld
    <3>. SUFFICES ASSUME NEW p \in Places, Dev(p) = Cart, files[p] # before[p]
                  PROVE  Contents(files, p) # {} /\ Contents(files, p) \subseteq Sources
      BY DEF CartridgeKeepsOld
    <3>1. p = job.dst
      BY <2>1
    <3>2. pc = "remove"
      BY <1>2, <3>1 DEF ContentsInv, Untouched
    <3>3. job.op = "move"
      BY <1>2, <3>2 DEF Base, Staged, OneFile, CopyStages
    <3>4. Contents(before, job.src) # {} /\ Contents(files, job.dst) = Contents(before, job.src)
      BY <3>2, <3>3 DEF ContentsInv, Streamed, CopyOps
    <3> QED
      BY <3>1, <3>3, <3>4 DEF Sources
  <2> QED
    BY <2>2, <2>3
<1>3. CASE job.op = "all"
  BY <1>3 DEF ContentsInv, AllKept, Gathered, MoveKeepsContents, CartridgeKeepsOld, Sources
<1>4. CASE job.op \notin OneFile \cup {"all"}
  BY <1>4 DEF MoveKeepsContents, CartridgeKeepsOld, OneFile
<1> QED
  BY <1>1, <1>2, <1>3, <1>4

(* A step that changes no file. *)
LEMMA SameFiles ==
    ASSUME Base, ContentsInv, UNCHANGED <<files, before, job>>, Streamed',
           pc' # "shell" => pc # "shell",
           pc' \notin {"shell", "remove"} => pc \notin {"shell", "remove"},
           pc' \in Early => pc \in Early
    PROVE  ContentsInv'
<1>1. MoveKeepsContents' /\ CartridgeKeepsOld'
  BY Verdicts DEF MoveKeepsContents, CartridgeKeepsOld, Sources, Contents, Joined, Old
<1>2. Untouched'
  BY DEF ContentsInv, Untouched
<1>3. AllKept'
  BY DEF ContentsInv, AllKept, Gathered, Contents
<1> QED
  BY <1>1, <1>2, <1>3 DEF ContentsInv, Lasting

(* A step that changes a file on a disk. *)
LEMMA DiskStep ==
    ASSUME Base, ContentsInv, UNCHANGED <<before, job>>, Streamed',
           job.op \in OneFile \cup {"all"}, Dev(job.dst) # Cart,
           \A p \in Places : p # job.dst => files'[p] = files[p],
           pc \notin {"shell", "remove"}, pc' \notin Early
    PROVE  ContentsInv'
<1>1. job.op \in OneFile => \A p \in Places : p # job.dst => files'[p] = before[p]
  BY DEF ContentsInv, Untouched
<1>2. job.op = "all" => \A p \in Places : Dev(p) # Dev(job.dst) => files'[p] = before[p]
  BY DEF ContentsInv, Untouched
<1>3. Untouched'
  BY <1>1, <1>2 DEF Untouched
<1>4. \A p \in Places : Dev(p) = Cart => files'[p] = before[p]
  BY <1>1, <1>2
<1>5. AllKept' /\ CartridgeKeepsOld'
  BY <1>4 DEF AllKept, CartridgeKeepsOld
<1>6. MoveKeepsContents'
  <2>. SUFFICES ASSUME job.op \in {"move", "rename"}
                PROVE  Contents(before, job.src) \subseteq Contents(files', job.src)
    BY DEF MoveKeepsContents, Contents
  <2>1. files'[job.src] = before[job.src]
    BY <1>1, FilesOfJob DEF OneFile
  <2> QED
    BY <2>1, SameContents
<1> QED
  BY <1>3, <1>5, <1>6 DEF ContentsInv, Lasting

(* A step that completes the destination on the cartridge. *)
LEMMA CartStep ==
    ASSUME Base, Base', ContentsInv, UNCHANGED <<before, job>>, Streamed',
           job.op \in {"copy", "move", "all", "concat"}, job.dst \in Places, Dev(job.dst) = Cart,
           \A p \in Places : p # job.dst => files'[p] = files[p],
           Contents(files', job.dst) # {}, Contents(files', job.dst) \subseteq Sources,
           pc \notin {"shell", "remove"}, pc' \in {"shell", "next", "remove"}
    PROVE  ContentsInv'
<1>1. job.op \in OneFile => \A p \in Places : p # job.dst => files'[p] = before[p]
  BY DEF ContentsInv, Untouched
<1>2. job.op = "all" => \A p \in Places : Dev(p) # Dev(job.dst) => files'[p] = before[p]
  BY DEF ContentsInv, Untouched
<1>3. job.op \in OneFile => pc' \in {"shell", "remove"}
  BY DEF Base, Staged, OneFile, CopyStages
<1>4. Untouched'
  BY <1>1, <1>2, <1>3 DEF Untouched
<1>5. Sources' = Sources /\ \A p : Contents(files', p) = Contents(files, p)'
  BY DEF Contents, Sources, Joined, Old
<1>6. job.op = "all" => Sources = Gathered
  BY DEF Sources, Gathered
<1>7. \A p \in Places : Dev(p) = Cart /\ files'[p] # before[p] =>
        Contents(files', p) # {} /\ Contents(files', p) \subseteq Sources
  <2>1. job.op # "all" => \A p \in Places : files'[p] # before[p] => p = job.dst
    BY <1>1 DEF OneFile
  <2>2. \A p \in Places : p # job.dst => Contents(files', p) = Contents(files, p)
    BY SameContents
  <2> QED
    BY <1>6, <2>1, <2>2 DEF ContentsInv, AllKept
<1>8. AllKept' /\ CartridgeKeepsOld'
  BY <1>5, <1>6, <1>7 DEF AllKept, CartridgeKeepsOld, Gathered, Contents
<1>9. MoveKeepsContents'
  <2>. SUFFICES ASSUME job.op \in {"move", "rename"}
                PROVE  Contents(before, job.src) \subseteq Contents(files', job.src)
    BY DEF MoveKeepsContents, Contents
  <2>1. files'[job.src] = before[job.src]
    BY <1>1, FilesOfJob DEF OneFile
  <2> QED
    BY <2>1, SameContents
<1> QED
  BY <1>4, <1>8, <1>9 DEF ContentsInv, Lasting

-----------------------------------------------------------------------------
(* The steps of a command on one file. *)
LEMMA OtherJob ==
    ASSUME job'.op \notin OneFile \cup {"all"}
    PROVE  ContentsInv'
BY DEF ContentsInv, Untouched, Streamed, AllKept, Lasting, MoveKeepsContents, CartridgeKeepsOld,
   OneFile, CopyOps

LEMMA NoCopyYet ==
    ASSUME pc' \notin {"create", "stream", "finish", "remove"}
    PROVE  Streamed'
BY DEF Streamed, Writing3

LEMMA SourceKept ==
    ASSUME Base, ContentsInv, job.op \in CopyOps, job.src \in Places, pc # "shell"
    PROVE  files[job.src] = before[job.src] /\ Contents(files, job.src) = Contents(before, job.src)
<1>1. files[job.src] = before[job.src]
  BY FilesOfJob DEF ContentsInv, Untouched, OneFile, CopyOps
<1> QED
  BY <1>1, SameContents

LEMMA PreparingContents ==
    ASSUME Base, ContentsInv, FindSource \/ Prepare \/ ScratchOld
    PROVE  ContentsInv'
<1>1. /\ pc \in Early /\ UNCHANGED <<job, before>>
      /\ ~ScratchOld => files' = files
      /\ pc' \in {"prepare", "scratch", Prepared, "shell"}
      /\ ScratchOld => pc = "scratch" /\ pc' \in {Prepared, "shell"}
  BY FindSourceBase, PrepareBase DEF FindSource, Prepare, ScratchOld, Early, Keep, jobVars,
     historyVars, Goto, End
<1>2. job.op \in OneFile \cup {"all"}
  BY <1>1 DEF Base, Staged, Ops, OneFile, Early, Printing
<1>3. Prepared \in {"rename", "combine", "open", "duplicate"}
  BY <1>2, PreparedIs DEF OneFile
<1>4. Streamed'
  BY <1>1, <1>3, NoCopyYet
<1>5. CASE ~ScratchOld
  BY <1>1, <1>3, <1>4, <1>5, SameFiles DEF Early
<1>6. CASE ScratchOld
  <2>1. Dev(job.dst) # Cart /\ pc' \notin Early
    BY <1>1, <1>3, <1>6 DEF Base, DiskSteps, Early
  <2>2. \A p \in Places : p # job.dst => files'[p] = files[p]
    BY <1>6, ScratchOldBase, WithoutTyped, FilesOfJob
  <2> QED
    BY <1>1, <1>2, <1>4, <2>1, <2>2, DiskStep DEF Early
<1> QED
  BY <1>5, <1>6

LEMMA DuplicateDoes ==
    ASSUME Base, ContentsInv, Duplicate
    PROVE  /\ pc = "duplicate" /\ UNCHANGED <<job, before>> /\ job.op \in {"copy", "move"}
           /\ \A p \in Places : p # job.dst => files'[p] = files[p]
           /\ \/ pc' = "shell" /\ result' = "error"
              \/ /\ Copied /\ pc' \in {"shell", "remove"} /\ Contents(before, job.src) # {}
                 /\ Contents(files', job.dst) = Contents(before, job.src)
<1>1. /\ pc = "duplicate" /\ UNCHANGED <<job, before>> /\ job.op \in {"copy", "move"}
  BY DuplicateBase DEF Duplicate, Keep, jobVars, historyVars
<1>2. job.src \in Places /\ job.dst \in Places
  BY <1>1, FilesOfJob DEF OneFile
<1>3. \A x : \A p \in Places : p # job.dst => [files EXCEPT ![job.dst] = x][p] = files[p]
  BY FilesOfJob
<1>4. CASE files' = files /\ pc' = "shell" /\ result' = "error"
  BY <1>1, <1>4
<1>5. CASE /\ Contents(files, job.src) # {} /\ Copied
           /\ files' = [files EXCEPT ![job.dst] = {New(Old(files, job.src))}]
  <2>1. Contents(files, job.src) = Contents(before, job.src)
    BY <1>1, <1>2, SourceKept DEF CopyOps
  <2>2. Old(files, job.src) \in Seq(Chunks) /\ Contents(files, job.src) = {Old(files, job.src)}
    BY <1>2, <1>5, FilesOfJob, OneContents
  <2>3. files'[job.dst] = {New(Old(files, job.src))}
    BY <1>2, <1>5, FilesOfJob
  <2>4. Contents(files', job.dst) = Contents(before, job.src)
    BY <2>1, <2>2, <2>3, NewContents
  <2>5. pc' \in {"shell", "remove"}
    BY <1>1, <1>5, CopiedIs
  <2> QED
    BY <1>1, <1>3, <1>5, <2>1, <2>4, <2>5
<1>6. CASE pc' = "shell" /\ result' = "error" /\ \E x : files' = [files EXCEPT ![job.dst] = {x}]
  BY <1>1, <1>3, <1>6
<1> QED
  BY <1>4, <1>5, <1>6, DuplicateBase

LEMMA DuplicateContents ==
    ASSUME Base, ContentsInv, Duplicate
    PROVE  ContentsInv'
<1>1. /\ pc = "duplicate" /\ UNCHANGED <<job, before>> /\ job.op \in {"copy", "move"}
      /\ \A p \in Places : p # job.dst => files'[p] = files[p]
      /\ pc' \in {"shell", "remove"}
      /\ pc' = "remove" => /\ Contents(before, job.src) # {}
                           /\ Contents(files', job.dst) = Contents(before, job.src)
  BY DuplicateDoes
<1>2. Dev(job.dst) # Cart
  BY <1>1 DEF Base, DiskSteps
<1>3. Contents(files, job.dst)' = Contents(files', job.dst) /\ Contents(before, job.src)' = Contents(before, job.src)
  BY <1>1 DEF Contents
<1>4. Streamed'
  BY <1>1, <1>3 DEF Streamed, Writing3
<1> QED
  BY <1>1, <1>2, <1>4, DiskStep DEF OneFile, Early

LEMMA OpenSourceContents ==
    ASSUME Base, ContentsInv, OpenSource
    PROVE  ContentsInv'
<1>1. pc = "open" /\ UNCHANGED <<files, job, before>>
  BY OpenSourceBase DEF OpenSource
<1>2. job.op \in CopyOps /\ job.src \in Places
  BY <1>1, CopyJob
<1>3. Contents(files, job.src) = Contents(before, job.src)
  BY <1>1, <1>2, SourceKept
<1>4. Contents(before, job.src)' = Contents(before, job.src)
  BY <1>1 DEF Contents
<1>5. Streamed'
  BY <1>2, <1>3, <1>4, OpenSourceBase DEF Streamed, Writing3
<1>6. pc' \in {"create", "shell"}
  BY OpenSourceBase
<1> QED
  BY <1>1, <1>5, <1>6, SameFiles DEF Early

LEMMA CreateCopyContents ==
    ASSUME Base, ContentsInv, CreateCopy
    PROVE  ContentsInv'
<1>1. pc = "create" /\ UNCHANGED <<job, before>>
  BY CreateCopyBase DEF CreateCopy
<1>2. job.op \in CopyOps /\ job.src \in Places /\ job.dst \in Places
  BY <1>1, CopyJob
<1>3. Contents(before, job.src)' = Contents(before, job.src)
  BY <1>1 DEF Contents
<1>4. CASE pc' = "shell" /\ Leaves(job.dst)
  <2>1. CASE files' = files
    BY <1>1, <1>4, <2>1, NoCopyYet, SameFiles DEF Early
  <2>2. CASE Dev(job.dst) # Cart /\ \A p \in Places : p # job.dst => files'[p] = files[p]
    BY <1>1, <1>2, <1>4, <2>2, NoCopyYet, DiskStep DEF Early, CopyOps, OneFile
  <2>. QED  BY <1>4, <2>1, <2>2 DEF Leaves
<1>5. CASE /\ pc' = "stream" /\ SameUse(chan'[2], chan[2])
           /\ chan'[3].data = <<>> /\ ~chan'[3].bad
           /\ Dev(job.dst) = Cart => files' = files
           /\ \A p \in Places : p # job.dst => files'[p] = files[p]
           /\ Dev(job.dst) # Cart => \E x \in FileT : files'[job.dst] = {x} /\ x.data = <<>>
  <2>1. chan[2].data \in Contents(before, job.src)
    BY <1>1, <1>2 DEF ContentsInv, Streamed
  <2>2. chan'[2].data = chan[2].data
    BY <1>5 DEF SameUse
  <2>3. Contents(before, job.src) \subseteq Seq(Chunks)
    BY <1>2, FilesOfJob, OneContents
  <2>4. chan'[3].data \o chan'[2].data \in Contents(before, job.src)
    BY <1>5, <2>1, <2>2, <2>3, ConcatEmptySeq
  <2>5. Dev(job.dst) # Cart => \E x \in files'[job.dst] : x.data = chan'[3].data
    BY <1>5
  <2>6. Streamed'
    BY <1>1, <1>3, <1>5, <2>4, <2>5 DEF Streamed, Writing3
  <2>7. CASE Dev(job.dst) = Cart
    BY <1>1, <1>5, <2>6, <2>7, SameFiles DEF Early
  <2>8. CASE Dev(job.dst) # Cart
    BY <1>1, <1>2, <1>5, <2>6, <2>8, DiskStep DEF Early, CopyOps, OneFile
  <2> QED
    BY <2>7, <2>8
<1> QED
  BY <1>4, <1>5, CreateCopyBase

LEMMA StreamContents ==
    ASSUME Base, ContentsInv, Stream
    PROVE  ContentsInv'
<1>. DEFINE a == chan[3].data
            s == chan[2].data
<1>1. pc = "stream" /\ UNCHANGED <<job, before>> /\ pc' \in {"stream", "finish"}
  BY StreamBase DEF Stream
<1>2. /\ job.op \in CopyOps /\ job.src \in Places /\ job.dst \in Places
      /\ chan[3].place = job.dst /\ a \in Seq(Chunks) /\ s \in Seq(Chunks)
      /\ FilesT(files)
  BY <1>1, CopyJob DEF Base, ShellType, Usage, Writes, Writing3, ChannelsT, ChannelT, Files
<1>3. Contents(before, job.src)' = Contents(before, job.src)
  BY <1>1 DEF Contents
<1>4. ~chan[3].bad => /\ a \o s \in Contents(before, job.src)
                      /\ Dev(job.dst) # Cart => \E x \in files[job.dst] : x.data = a
  BY <1>1, <1>2 DEF ContentsInv, Streamed, Writing3
<1>5. CASE files' = files /\ chan' = chan /\ pc' = "finish" /\ (ok' = FALSE \/ (ok' = ok /\ s = <<>>))
  <2>1. ~chan[3].bad /\ ok' => a \in Contents(before, job.src)
    BY <1>2, <1>4, <1>5, ConcatEmptySeq
  <2>2. Streamed'
    BY <1>1, <1>3, <1>4, <1>5, <2>1 DEF Streamed, Writing3
  <2> QED
    BY <1>1, <1>5, <2>2, SameFiles DEF Early
<1>6. CASE files' = files /\ chan'[3].bad
  <2>1. Streamed'
    BY <1>1, <1>6 DEF Streamed, Writing3
  <2> QED
    BY <1>1, <1>6, <2>1, SameFiles DEF Early
<1>7. CASE /\ s # <<>> /\ ~chan[3].bad /\ ~chan'[3].bad
           /\ chan'[2].data = Tail(s) /\ chan'[3].data = Append(a, Head(s))
           /\ files' = Stored(3, Head(s)) /\ (pc' = "finish" => ~ok')
  <2>1. chan'[3].data \o chan'[2].data \in Contents(before, job.src)
    BY <1>2, <1>4, <1>7, OneMoves
  <2>2. Head(s) \in Chunks
    BY <1>2, <1>7
  <2>3. /\ Dev(job.dst) = Cart => files' = files
        /\ \A p \in Places : p # job.dst => files'[p] = files[p]
        /\ Dev(job.dst) # Cart =>
             files'[job.dst] = {[x EXCEPT !.data = Append(@, Head(s))] : x \in files[job.dst]}
    <3>1. PICK c \in Chunks : c = Head(s) /\ files' = Stored(3, c)
      BY <1>7, <2>2
    <3>2. /\ Dev(chan[3].place) = Cart => Stored(3, c) = files
          /\ \A p \in Places : p # chan[3].place => Stored(3, c)[p] = files[p]
          /\ chan[3].place \in Places /\ Dev(chan[3].place) # Cart =>
               Stored(3, c)[chan[3].place] =
                 {[x EXCEPT !.data = Append(@, c)] : x \in files[chan[3].place]}
      BY <1>2, StoredTyped
    <3> QED
      BY <1>2, <3>1, <3>2
  <2>4. ASSUME Dev(job.dst) # Cart PROVE \E x \in files'[job.dst] : x.data = chan'[3].data
    <3>1. PICK x \in files[job.dst] : x.data = a
      BY <1>4, <1>7, <2>4
    <3>2. x \in FileT
      BY <1>2, <3>1 DEF FilesT
    <3>3. [x EXCEPT !.data = Append(@, Head(s))].data = Append(a, Head(s))
      BY <3>1, <3>2 DEF FileT
    <3> QED
      BY <1>7, <2>3, <2>4, <3>1, <3>3
  <2>5. Streamed'
    BY <1>1, <1>3, <1>7, <2>1, <2>4 DEF Streamed, Writing3
  <2>6. CASE Dev(job.dst) = Cart
    BY <1>1, <2>3, <2>5, <2>6, SameFiles DEF Early
  <2>7. CASE Dev(job.dst) # Cart
    BY <1>1, <1>2, <2>3, <2>5, <2>7, DiskStep DEF Early, CopyOps, OneFile
  <2> QED
    BY <2>6, <2>7
<1> QED
  BY <1>5, <1>6, <1>7, StreamBase

LEMMA FinishDoes ==
    ASSUME Base, Residency, ContentsInv, Finish
    PROVE  /\ pc = "finish" /\ UNCHANGED <<job, before, at, limit>>
           /\ \A p \in Places : p # job.dst => files'[p] = files[p]
           /\ \/ pc' = "shell" /\ result' = "error" /\ (Dev(job.dst) = Cart => files' = files)
              \/ /\ pc' \in {"shell", "next", "remove"}
                 /\ Copied \/ (pc' = "shell" /\ result' = "error")
                 /\ Contents(before, job.src) # {}
                 /\ Contents(files', job.dst) = Contents(before, job.src)
<1>1. pc = "finish" /\ UNCHANGED <<job, before, at, limit>>
  BY FinishBase DEF Finish
<1>2. /\ job.op \in CopyOps /\ job.src \in Places /\ job.dst \in Places
      /\ chan[3].place = job.dst /\ chan[3].data \in Seq(Chunks) /\ chan[3].live
      /\ FilesT(files) /\ ChannelsT(chan) /\ 3 \in Files
  BY <1>1, CopyJob DEF Base, ShellType, Usage, Writes, Writing3, ChannelsT, ChannelT, Files, Residency
<1>4. PICK works \in BOOLEAN :
        /\ files' = IF Aborted THEN files ELSE Closed(3, works)
        /\ (pc' = "shell" /\ result' = "error") \/ (ok /\ works /\ ~chan[3].bad /\ Copied)
  BY FinishBase
<1>5. /\ pc' \in {"shell", "next", "remove"}
      /\ pc' # "shell" => ok /\ works /\ ~chan[3].bad
  BY <1>2, <1>4, CopiedIs DEF CopyOps
<1>6. ~chan[3].bad /\ ok => chan[3].data \in Contents(before, job.src)
  BY <1>1, <1>2 DEF ContentsInv, Streamed, Writing3
<1>7. \A p \in Places : p # job.dst => files'[p] = files[p]
  BY <1>2, <1>4, ClosedTyped
<1>8. ok /\ works /\ ~chan[3].bad => Contents(files', job.dst) = {chan[3].data}
  <2>. SUFFICES ASSUME ok, works, ~chan[3].bad PROVE Contents(files', job.dst) = {chan[3].data}
    OBVIOUS
  <2>1. files' = Closed(3, works)
    BY <1>4 DEF Aborted
  <2>2. CASE Dev(job.dst) = Cart
    <3>1. files'[job.dst] = {New(chan[3].data)}
      BY <1>2, <2>1, <2>2, ClosedTyped
    <3>2. PICK d \in Seq(Chunks) : d = chan[3].data
      BY <1>2
    <3>3. files'[job.dst] = {New(d)}
      BY <3>1, <3>2
    <3>4. Contents(files', job.dst) = {d}
      BY <3>3, NewContents
    <3> QED
      BY <3>2, <3>4
  <2>3. CASE Dev(job.dst) # Cart
    <3>1. PICK x \in files[job.dst] : x.data = chan[3].data
      BY <1>1, <1>2, <2>3 DEF ContentsInv, Streamed, Writing3
    <3>2. x \in FileT /\ files[job.dst] = {x}
      BY <1>2, <3>1 DEF FilesT
    <3>3. files'[job.dst] = {[z EXCEPT !.closed = TRUE] : z \in files[job.dst]}
      BY <1>2, <2>1, <2>3, ClosedTyped
    <3>4. [x EXCEPT !.closed = TRUE].closed /\ [x EXCEPT !.closed = TRUE].data = x.data
      BY <3>2 DEF FileT
    <3>5. PICK y : y = [x EXCEPT !.closed = TRUE]
      OBVIOUS
    <3>6. y.closed /\ y.data = chan[3].data
      BY <3>1, <3>4, <3>5
    <3>7. files'[job.dst] = {y}
      BY <3>2, <3>3, <3>5
    <3>8. Contents(files', job.dst) = {y.data}
      BY <3>6, <3>7, ClosedContents
    <3> QED
      BY <3>6, <3>8
  <2> QED
    BY <2>2, <2>3
<1>9. ok /\ works /\ ~chan[3].bad =>
        Contents(before, job.src) # {} /\ Contents(files', job.dst) = Contents(before, job.src)
  <2>1. FilesT(before)
    BY FilesOfJob
  <2>2. \A d, e \in Contents(before, job.src) : d = e
    BY <1>2, <2>1, OneContents
  <2> QED
    BY <1>6, <1>8, <2>2
<1>10. CASE ok /\ works /\ ~chan[3].bad
  BY <1>1, <1>4, <1>5, <1>7, <1>9, <1>10
<1>11. CASE ~(ok /\ works /\ ~chan[3].bad)
  <2>1. Dev(job.dst) = Cart /\ ~ok => Aborted
    BY DEF Aborted
  <2>2. Dev(job.dst) = Cart => files' = files
    BY <1>2, <1>4, <1>11, <2>1, ClosedTyped
  <2> QED
    BY <1>1, <1>4, <1>7, <1>11, <2>2
<1> QED
  BY <1>10, <1>11

LEMMA FinishContents ==
    ASSUME Base, Residency, ContentsInv, Finish
    PROVE  ContentsInv'
<1>1. /\ pc = "finish" /\ UNCHANGED <<job, before>> /\ Base'
      /\ job.op \in CopyOps /\ job.dst \in Places
      /\ \A p \in Places : p # job.dst => files'[p] = files[p]
      /\ pc' \in {"shell", "next", "remove"}
  BY FinishBase, FinishDoes, CopyJob
<1>2. /\ Contents(files, job.dst)' = Contents(files', job.dst)
      /\ Contents(before, job.src)' = Contents(before, job.src)
  BY <1>1 DEF Contents
<1>3. Streamed'
  BY <1>1, <1>2, FinishDoes DEF Streamed, Writing3
<1>4. CASE Dev(job.dst) # Cart
  BY <1>1, <1>3, <1>4, DiskStep DEF Early, CopyOps, OneFile
<1>5. CASE Dev(job.dst) = Cart /\ files' = files /\ pc' = "shell"
  BY <1>1, <1>3, <1>5, SameFiles DEF Early
<1>6. CASE /\ Dev(job.dst) = Cart /\ Contents(before, job.src) # {}
           /\ Contents(files', job.dst) = Contents(before, job.src)
  <2>1. Contents(before, job.src) \subseteq Sources
    <3>1. job.op = "all" => job.src \in Places
      BY <1>1, CopyJob
    <3> QED
      BY <1>1, <3>1 DEF Sources, CopyOps
  <2> QED
    BY <1>1, <1>3, <1>6, <2>1, CartStep DEF CopyOps
<1> QED
  BY <1>4, <1>5, <1>6, FinishDoes

LEMMA RemoveSourceContents ==
    ASSUME Base, ContentsInv, RemoveSource
    PROVE  ContentsInv'
<1>1. /\ pc = "remove" /\ UNCHANGED <<job, before>> /\ pc' = "shell" /\ job.op = "move"
      /\ files' = files \/ files' = Without(files, {job.src})
  BY RemoveSourceBase DEF RemoveSource, Keep, jobVars, historyVars
<1>2. Streamed'
  BY <1>1, NoCopyYet
<1>3. CASE files' = files
  BY <1>1, <1>2, <1>3, SameFiles DEF Early
<1>4. CASE files' = Without(files, {job.src})
  <2>1. /\ job.src \in Places /\ job.dst \in Places /\ job.src # job.dst
        /\ \A p \in Places : p # job.dst => files[p] = before[p]
        /\ Contents(before, job.src) # {} /\ Contents(files, job.dst) = Contents(before, job.src)
    BY <1>1, FilesOfJob DEF ContentsInv, Untouched, Streamed, OneFile, CopyOps
  <2>2. \A p \in Places : p # job.src => files'[p] = files[p]
    BY <1>4, WithoutTyped, FilesOfJob
  <2>3. Contents(files', job.dst) = Contents(before, job.src)
    BY <2>1, <2>2, SameContents
  <2>4. Sources = Contents(before, job.src)
    BY <1>1 DEF Sources
  <2>5. /\ \A p : Contents(files, p)' = Contents(files', p) /\ Contents(before, p)' = Contents(before, p)
        /\ Sources' = Sources
    BY <1>1 DEF Contents, Sources, Joined, Old
  <2>6. MoveKeepsContents'
    BY <1>1, <2>3, <2>5 DEF MoveKeepsContents
  <2>7. \A p \in Places : files'[p] # before[p] => p \in {job.src, job.dst}
    BY <2>1, <2>2
  <2>8. CartridgeKeepsOld'
    BY <1>1, <2>1, <2>3, <2>4, <2>5, <2>7 DEF CartridgeKeepsOld
  <2>9. Untouched' /\ AllKept'
    BY <1>1 DEF Untouched, AllKept, OneFile
  <2> QED
    BY <1>1, <1>2, <2>6, <2>8, <2>9 DEF ContentsInv, Lasting
<1> QED
  BY <1>1, <1>3, <1>4

LEMMA RenameFileContents ==
    ASSUME Base, ContentsInv, RenameFile
    PROVE  ContentsInv'
<1>1. /\ pc = "rename" /\ UNCHANGED <<job, before>> /\ pc' = "shell" /\ job.op = "rename"
      /\ files' = files \/ (files' = Renamed(files, job.src, job.dst) /\ Exists(job.src))
  BY RenameFileBase DEF RenameFile, Keep, jobVars, historyVars
<1>2. Streamed'
  BY <1>1, NoCopyYet
<1>3. CASE files' = files
  BY <1>1, <1>2, <1>3, SameFiles DEF Early
<1>4. CASE files' = Renamed(files, job.src, job.dst) /\ Exists(job.src)
  <2>1. /\ job.src \in Places /\ job.dst \in Places /\ job.src # job.dst
        /\ \A p \in Places : p # job.dst => files[p] = before[p]
        /\ Dev(job.src) = Dev(job.dst) /\ FilesT(files)
    BY <1>1, FilesOfJob DEF ContentsInv, Untouched, OneFile, Base, Jobs
  <2>2. /\ files'[job.dst] = before[job.src] /\ before[job.src] = files[job.src]
        /\ \A p \in Places : p \notin {job.src, job.dst} => files'[p] = before[p]
    BY <1>4, <2>1, RenamedTyped
  <2>3. Contents(files', job.dst) = Contents(before, job.src)
    BY <2>2, SameContents
  <2>4. Sources = Contents(before, job.src)
    BY <1>1 DEF Sources
  <2>5. Dev(job.dst) = Cart => Contents(before, job.src) # {}
    <3>. SUFFICES ASSUME Dev(job.dst) = Cart PROVE \E x \in before[job.src] : x.closed
      BY DEF Contents
    <3>1. PICK x \in files[job.src] : TRUE
      BY <1>4 DEF Exists
    <3> QED
      BY <2>1, <2>2, <3>1 DEF FilesT
  <2>6. /\ \A p : Contents(files, p)' = Contents(files', p) /\ Contents(before, p)' = Contents(before, p)
        /\ Sources' = Sources
    BY <1>1 DEF Contents, Sources, Joined, Old
  <2>7. MoveKeepsContents'
    BY <1>1, <2>3, <2>6 DEF MoveKeepsContents
  <2>8. CartridgeKeepsOld'
    BY <1>1, <2>2, <2>3, <2>4, <2>5, <2>6 DEF CartridgeKeepsOld
  <2>9. Untouched' /\ AllKept'
    BY <1>1 DEF Untouched, AllKept, OneFile
  <2> QED
    BY <1>1, <1>2, <2>7, <2>8, <2>9 DEF ContentsInv, Lasting
<1> QED
  BY <1>1, <1>3, <1>4

LEMMA CombineContents ==
    ASSUME Base, ContentsInv, Combine
    PROVE  ContentsInv'
<1>1. /\ pc = "combine" /\ UNCHANGED <<job, before>> /\ pc' = "shell" /\ job.op = "concat" /\ Base'
      /\ \/ files' = files
         \/ /\ files' = [files EXCEPT ![job.dst] = {New(Joined(files, job.sources))}]
            /\ MayRead(job.sources[1]) /\ MayRead(job.sources[2])
  BY CombineBase DEF Combine, Keep, jobVars, historyVars
<1>2. Streamed'
  BY <1>1, NoCopyYet
<1>3. CASE files' = files
  BY <1>1, <1>2, <1>3, SameFiles DEF Early
<1>4. CASE /\ files' = [files EXCEPT ![job.dst] = {New(Joined(files, job.sources))}]
           /\ MayRead(job.sources[1]) /\ MayRead(job.sources[2])
  <2>1. /\ job.dst \in Places /\ job.sources[1] \in Places /\ job.sources[2] \in Places
        /\ FilesT(files)
    BY <1>1, FilesOfJob DEF Base, Jobs, OneFile
  <2>2. \A p \in Places : p # job.dst => files'[p] = files[p]
    BY <1>4, FilesOfJob
  <2>3. CASE Dev(job.dst) # Cart
    BY <1>1, <1>2, <2>2, <2>3, DiskStep DEF Early, OneFile
  <2>4. CASE Dev(job.dst) = Cart
    <3>1. files = before
      BY <1>1, <2>4 DEF ContentsInv, Untouched, OneFile
    <3>2. Joined(files, job.sources) \in Seq(Chunks)
      BY <1>4, <2>1, JoinedTyped DEF MayRead
    <3>3. files'[job.dst] = {New(Joined(files, job.sources))}
      BY <1>4, <2>1, FilesOfJob
    <3>4. Contents(files', job.dst) = {Joined(files, job.sources)}
      BY <3>2, <3>3, NewContents
    <3>5. Sources = {Joined(before, job.sources)}
      BY <1>1 DEF Sources
    <3> QED
      BY <1>1, <1>2, <2>1, <2>2, <2>4, <3>1, <3>4, <3>5, CartStep
  <2> QED
    BY <2>3, <2>4
<1> QED
  BY <1>1, <1>3, <1>4

(* The steps of a wildcard COPY from one file to the next. *)
LEMMA LoopContents ==
    ASSUME Base, CacheInv, ContentsInv, ListAll \/ NextFile \/ PickFile
    PROVE  ContentsInv'
<1>1. CASE ListAll \/ NextFile
  <2>1. /\ pc \in {"list", "next"} /\ pc' \in {"next", "pick", "shell"} /\ files' = files
        /\ UNCHANGED <<job, before>>
    BY <1>1, ListAllBase, NextFileBase DEF ListAll, NextFile, Keep, jobVars, historyVars
  <2> QED
    BY <2>1, NoCopyYet, SameFiles DEF Early
<1>2. CASE PickFile
  <2>1. pc = "pick" /\ UNCHANGED <<files, before>> /\ job.op = "all"
    BY <1>2, PickFileBase DEF PickFile, historyVars
  <2>2. CASE pc' = "shell" /\ UNCHANGED job
    BY <2>1, <2>2, NoCopyYet, SameFiles DEF Early
  <2>3. CASE pc' = "find" /\ job'.op = "all" /\ Dev(job'.dst) = Dev(job.dst)
    <3>1. Untouched'
      BY <2>1, <2>3 DEF ContentsInv, Untouched, OneFile
    <3>2. AllKept'
      BY <2>1, <2>3 DEF ContentsInv, AllKept, Gathered, Contents
    <3> QED
      BY <2>3, <3>1, <3>2, NoCopyYet DEF ContentsInv, Lasting
  <2> QED
    BY <1>2, <2>2, <2>3, PickFileBase DEF Dev
<1> QED
  BY <1>1, <1>2

LEMMA BegunContents ==
    ASSUME Begun
    PROVE  ContentsInv'
<1>1. before' = files' /\ pc' \notin {"shell", "create", "stream", "finish", "remove"}
  BY DEF Begun
<1>2. Untouched' /\ AllKept'
  BY <1>1 DEF Untouched, AllKept
<1> QED
  BY <1>1, <1>2, NoCopyYet DEF ContentsInv, Lasting

LEMMA ContentsNext ==
    ASSUME ShellInv, ShellInv', Residency, ContentsInv, [Next]_shellVars
    PROVE  ContentsInv'
<1>1. Base /\ CacheInv
  BY DEF ShellInv
<1>2. CASE ServeFile
  BY <1>1, <1>2, PreparingContents, DuplicateContents, OpenSourceContents, CreateCopyContents,
     StreamContents, FinishContents, RemoveSourceContents, RenameFileContents, CombineContents
  DEF ServeFile
<1>3. CASE ServeFiles
  <2>1. CASE ListAll \/ NextFile \/ PickFile
    BY <1>1, <2>1, LoopContents
  <2>2. CASE Check \/ Snapshot \/ Ask \/ DeleteFile \/ EraseAll
    <3>1. job.op = "delete"
      BY <1>1, <2>2, DeleteStages
    <3>2. job'.op = job.op
      BY <1>1, <2>2, <3>1 DEF Check, Snapshot, Ask, DeleteFile, EraseAll, Keep, jobVars, Base, Jobs
    <3> QED
      BY <3>1, <3>2, OtherJob DEF OneFile
  <2> QED
    BY <1>3, <2>1, <2>2 DEF ServeFiles
<1>4. CASE Output
  <2>1. UNCHANGED job
    BY <1>1, <1>4, ResolveBase, TargetBase, TruncateBase, OpenOutputBase, LookupBase, OpenInputBase,
       ListDirectoryBase, TypeChunkBase, PrintLineBase, CloseOutputBase DEF Output, PrintingStep
  <2>2. pc \in Printing \cup {"resolve", "target", "truncate", "output"}
    BY <1>4 DEF Output, Resolve, Target, Truncate, OpenOutput, Lookup, OpenInput, ListDirectory,
       TypeChunk, PrintLine, CloseOutput, Printing
  <2>3. job.op = "redirect"
    BY <1>1, <2>2, OutputJob
  <2> QED
    BY <2>1, <2>3, OtherJob DEF OneFile
<1>5. CASE \/ Command
           \/ \E kind \in {"type", "dir", "echo"}, src \in Places, dst \in Places, append \in BOOLEAN :
                Redirect(kind, src, dst, append)
  BY <1>1, <1>5, CommandBase, BegunContents
<1>6. CASE Restart
  <2>1. pc' = "shell" /\ UNCHANGED <<files, job, before>>
    BY <1>1, <1>6, RestartBase
  <2> QED
    BY <1>1, <2>1, NoCopyYet, SameFiles DEF Early
<1>7. CASE UNCHANGED shellVars
  <2>1. UNCHANGED <<files, chan, pc, job, ok, before>>
    BY <1>7 DEF shellVars, channelVars, commandsVars, jobVars, historyVars
  <2>2. Streamed'
    BY <2>1 DEF ContentsInv, Streamed, Contents
  <2> QED
    BY <1>1, <2>1, <2>2, SameFiles
<1> QED
  BY <1>2, <1>3, <1>4, <1>5, <1>6, <1>7 DEF Next

LEMMA ContentsHold == Spec => [](Base /\ ContentsInv)
<1>1. Init => Residency /\ ContentsInv
  BY InitBase DEF Residency, NoCommand, CopyOps, ContentsInv, Untouched, Streamed, AllKept, Lasting,
     MoveKeepsContents, CartridgeKeepsOld, OneFile
<1>2. ShellInv /\ ShellInv' /\ Residency /\ [Next]_shellVars => Residency'
  BY ResidencyNext
<1>3. ShellInv /\ ShellInv' /\ Residency /\ ContentsInv /\ [Next]_shellVars => ContentsInv'
  BY ContentsNext
<1>4. ShellInv => Base
  BY DEF ShellInv
<1> QED
  BY <1>1, <1>2, <1>3, <1>4, ShellInvHolds, PTL DEF Spec

(***************************************************************************)
(* filemgmt.c:207: MOVE and REN never lose the file.  At every moment its  *)
(* contents are whole and closed under the old name or under the new one,  *)
(* whichever requests fail and wherever the machine is reset.              *)
(***************************************************************************)
THEOREM MovesLoseNothing == Spec => []MoveKeepsContents
BY ContentsHold, Verdicts, PTL

(***************************************************************************)
(* filemgmt.c:187 and journal.h: a file on the cartridge that a command    *)
(* writes to keeps its old contents until the new ones are complete.       *)
(***************************************************************************)
THEOREM CartridgeFilesLast == Spec => []CartridgeKeepsOld
BY ContentsHold, Verdicts, PTL

-----------------------------------------------------------------------------
(***************************************************************************)
(* A command that ends without an error has done its work.  What a command *)
(* on many files, or with output to a file, has done so far:               *)
(***************************************************************************)

(* Wildcard COPY: the entries that have been passed are copied. *)
Every == Listing(before, Dev(job.src))
Rank(p) == Cardinality(Below(Every, p[2]))
Passed == IF pc \in Loop THEN at ELSE at - 1
There(p) == Contents(files, <<Dev(job.dst), p[2]>>) = Contents(before, p)
Wanted(p) == Dev(p) = Dev(job.src) /\ before[p] # {}

AllSoFar ==
    job.op = "all" =>
      /\ pc = "list" => at = 0
      /\ pc \notin {"list", "shell"} =>
           /\ limit = Cardinality(Every) /\ at <= limit
           /\ pc = "pick" => at < limit
           /\ pc \notin Loop => at >= 1 /\ EntryAt(Every, at - 1) = job.src[2]
           /\ \A p \in Places : Wanted(p) /\ Rank(p) < Passed => There(p)

(* DEL: no match is locked, and those that have been passed were asked     *)
(* about and are as the answer was.                                        *)
Answered(p) == \E yes \in BOOLEAN : <<p[2], yes>> \in asked /\ (yes <=> ~Exists(p))

AskedSoFar ==
    job.op = "delete" =>
      /\ pc \in {"check", "snapshot", "erase"} => files = before /\ at = 0
      /\ pc \in {"snapshot", "erase", "ask", "delete"} =>
           \A p \in Matching : \A z \in before[p] : ~z.locked
      /\ pc \in {"ask", "delete"} =>
           /\ entries = Listing(before, job.dev)
           /\ \A p \in Matching : before[p] # {} =>
                IF Cardinality(Below(entries, p[2])) < at THEN Answered(p) ELSE files[p] = before[p]
      /\ pc = "delete" =>
           /\ at < Cardinality(entries) /\ job.src = <<job.dev, EntryAt(entries, at)>>
           /\ job.src[2] \in job.matches /\ <<job.src[2], TRUE>> \in asked

(* Output to a file: old contents, if they are kept, and what was printed. *)
Shown5 == \E z \in files[job.dst] : z.data = chan[5].data /\ (~chan[5].live => z.closed)

Complete(data) == \E o \in Before(job.dst), n \in Printed : data = o \o n

OutputSoFar ==
    job.op = "redirect" =>
      /\ job.kind = "type" => job.src # job.dst
      /\ pc # "shell" => \A p \in Places : p # job.dst => files[p] = before[p]
      /\ pc # "shell" /\ Dev(job.dst) = Cart => files = before
      /\ pc \in {"resolve", "target", "truncate"} \/ (pc = "output" /\ job.append) => files = before
      /\ pc = "truncate" => ~job.append /\ Dev(job.dst) # Cart
      /\ pc \in {"resolve", "lookup", "input", "copy"} => job.kind = "type"
      /\ pc \in {"listing", "print"} => job.kind # "type"
      /\ pc \in Printing /\ Dev(job.dst) = Cart => chan[5].live
      /\ pc \in Printing /\ ~chan[5].bad =>
           /\ pc \in {"lookup", "input", "listing", "print"} => chan[5].data \in Before(job.dst)
           /\ pc = "copy" => Complete(chan[5].data \o chan[2].data)
           /\ pc = "close" /\ ok => Complete(chan[5].data)
           /\ Dev(job.dst) # Cart => Shown5

Unfinished == pc # "shell" => result = "none"
Succeeded == pc = "shell" /\ result = "done" => WorkDone

WorkInv == AllSoFar /\ AskedSoFar /\ OutputSoFar /\ Unfinished /\ Succeeded

(* What it takes, for each command. *)
Copies == Contents(before, job.src) # {} /\ Contents(files, job.dst) = Contents(before, job.src)
Prints == Contents(files, job.dst) = {o \o n : o \in Before(job.dst), n \in Printed}

LEMMA WorkNext ==
    /\ job'.op \in {"copy", "move"} /\ Copies' => WorkDone'
    /\ job'.op = "rename" /\ (files[job.dst] = before[job.src] /\ ~Exists(job.src))' => WorkDone'
    /\ job'.op = "concat" /\ (Contents(files, job.dst) = {Joined(before, job.sources)})' => WorkDone'
    /\ job'.op = "all" /\ (\A p \in Places : Wanted(p) => There(p))' => WorkDone'
    /\ job'.op = "delete" /\ (\A p \in Matching : before[p] # {} => Answered(p))' => WorkDone'
    /\ job'.op = "redirect" /\ Prints' => WorkDone'
<1>1. job'.op = "all" /\ (\A p \in Places : Wanted(p) => There(p))' => WorkDone'
  BY DEF WorkDone, Wanted, There
<1>2. job'.op = "delete" /\ (\A p \in Matching : before[p] # {} => Answered(p))' => WorkDone'
  BY DEF WorkDone, Answered
<1>3. job'.op \in {"copy", "move"} /\ Copies' => WorkDone'
  <2>1. job'.op = "copy" /\ Copies' => WorkDone'
    BY DEF WorkDone, Copies
  <2>2. job'.op = "move" /\ Copies' => WorkDone'
    BY DEF WorkDone, Copies
  <2> QED
    BY <2>1, <2>2
<1>4. job'.op = "rename" /\ (files[job.dst] = before[job.src] /\ ~Exists(job.src))' => WorkDone'
  BY DEF WorkDone
<1>5. job'.op = "concat" /\ (Contents(files, job.dst) = {Joined(before, job.sources)})' => WorkDone'
  BY DEF WorkDone
<1>6. job'.op = "redirect" /\ Prints' => WorkDone'
  BY DEF WorkDone, Prints
<1> QED
  BY <1>1, <1>2, <1>3, <1>4, <1>5, <1>6

(* A place is a name on a device; wildcard COPY has one for every name. *)
LEMMA AllPlaces ==
    ASSUME Base, ContentsInv, job.op = "all"
    PROVE  /\ Every \subseteq Nat /\ IsFiniteSet(Every) /\ Cardinality(Every) \in Nat
           /\ Listing(files, Dev(job.src)) = Every
           /\ \A p \in Places : /\ Rank(p) \in Nat
                                /\ <<Dev(job.dst), p[2]>> \in Places
                                /\ Wanted(p) => p[2] \in Every
<1>1. Every \subseteq Nat /\ IsFiniteSet(Every) /\ Cardinality(Every) \in Nat
  BY FiniteListing DEF Every
<1>2. Listing(files, Dev(job.src)) = Every
  <2>1. \A p \in Places : Dev(p) = Dev(job.src) => files[p] = before[p]
    BY FilesOfJob DEF ContentsInv, Untouched
  <2> QED
    BY <2>1 DEF Listing, Every
<1>3. ASSUME NEW p \in Places
      PROVE  /\ Rank(p) \in Nat /\ <<Dev(job.dst), p[2]>> \in Places
             /\ Wanted(p) => p[2] \in Every
  <2>1. Rank(p) \in Nat
    BY <1>1, FS_Subset, FS_CardinalityType DEF Rank, Below
  <2>2. <<Dev(job.dst), p[2]>> \in Places
    <3>1. Places = Devices \X {q[2] : q \in Places} /\ Dev(job.dst) \in Devices
      BY CommandsAssumption, JobDevices DEF Base, Jobs
    <3> QED
      BY <3>1
  <2>3. Wanted(p) => p[2] \in Every
    BY DEF Wanted, Every, Listing
  <2> QED
    BY <2>1, <2>2, <2>3
<1> QED
  BY <1>1, <1>2, <1>3

LEMMA AllSame ==
    ASSUME UNCHANGED <<job, before>>
    PROVE  Every' = Every /\ \A p : Rank(p)' = Rank(p) /\ Wanted(p)' = Wanted(p)
BY DEF Every, Rank, Wanted, Listing

LEMMA NotAll ==
    ASSUME job'.op # "all" \/ pc' = "shell"
    PROVE  AllSoFar'
BY DEF AllSoFar

(* While one file is copied the others stay copied. *)
LEMMA AllWithin ==
    ASSUME Base, ContentsInv, AllSoFar, UNCHANGED <<job, before, at, limit>>,
           \A p \in Places : p # job.dst => files'[p] = files[p],
           pc \notin Loop, pc' \notin Loop
    PROVE  AllSoFar'
<1>. SUFFICES ASSUME job.op = "all" PROVE AllSoFar'
  BY DEF AllSoFar
<1>1. pc \notin {"list", "shell", "pick"} /\ pc' \notin {"list", "shell", "pick"} /\ job.dst[2] = job.src[2]
  BY DEF Loop, Base, Jobs
<1>2. /\ limit = Cardinality(Every) /\ at <= limit /\ at >= 1 /\ EntryAt(Every, at - 1) = job.src[2]
      /\ \A p \in Places : Wanted(p) /\ Rank(p) < at - 1 => There(p)
  BY <1>1 DEF AllSoFar, Passed
<1>3. at - 1 \in Nat /\ at - 1 < Cardinality(Every) /\ at \in Nat
  BY <1>2, AllPlaces DEF Base, ShellType
<1>4. ASSUME NEW p \in Places, Wanted(p), Rank(p) < at - 1 PROVE There(p)'
  <2>1. p[2] # job.src[2]
    <3>1. Cardinality(Below(Every, job.src[2])) = at - 1
      BY <1>2, <1>3, AllPlaces, EntryIs
    <3>2. Rank(p) # at - 1
      BY <1>3, <1>4, AllPlaces
    <3> QED
      BY <3>1, <3>2 DEF Rank
  <2>. DEFINE q == <<Dev(job.dst), p[2]>>
  <2>2. q \in Places /\ q # job.dst
    BY <1>1, <2>1, AllPlaces
  <2>3. files'[q] = files[q]
    BY <2>2
  <2>4. Contents(files', q) = Contents(before, p)
    BY <1>2, <1>4, <2>3, SameContents DEF There
  <2> QED
    BY <2>4 DEF There, Contents
<1>5. \A p \in Places : Wanted(p)' /\ Rank(p)' < at - 1 => There(p)'
  BY <1>4, AllSame
<1> QED
  BY <1>1, <1>2, <1>5, AllSame DEF AllSoFar, Passed

(* The file is copied: one more entry has been passed. *)
LEMMA AllCopied ==
    ASSUME Base, ContentsInv, AllSoFar, UNCHANGED <<job, before, at, limit>>,
           \A p \in Places : p # job.dst => files'[p] = files[p],
           Contents(files', job.dst) = Contents(before, job.src),
           pc \notin Loop, pc' = "next"
    PROVE  AllSoFar'
<1>. SUFFICES ASSUME job.op = "all" PROVE AllSoFar'
  BY DEF AllSoFar
<1>1. /\ pc \notin {"list", "shell", "pick"} /\ job.dst[2] = job.src[2]
      /\ job.dst \in Places /\ job.src \in Places
  BY DEF Loop, Base, Jobs
<1>2. /\ limit = Cardinality(Every) /\ at <= limit /\ at >= 1 /\ EntryAt(Every, at - 1) = job.src[2]
      /\ \A p \in Places : Wanted(p) /\ Rank(p) < at - 1 => There(p)
  BY <1>1 DEF AllSoFar, Passed
<1>3. at - 1 \in Nat /\ at - 1 < Cardinality(Every) /\ at \in Nat
  BY <1>2, AllPlaces DEF Base, ShellType
<1>4. ASSUME NEW p \in Places, Wanted(p), Rank(p) < at PROVE There(p)'
  <2>. DEFINE q == <<Dev(job.dst), p[2]>>
  <2>1. CASE p[2] = job.src[2]
    <3>1. p = job.src
      BY <1>1, <1>4, <2>1, DevOfPlace DEF Wanted
    <3>2. q = job.dst
      BY <1>1, <2>1, DevOfPlace
    <3> QED
      BY <3>1, <3>2 DEF There, Contents
  <2>2. CASE p[2] # job.src[2]
    <3>1. Rank(p) # at - 1
      BY <1>2, <1>3, <1>4, <2>2, AllPlaces, EntryIs DEF Rank
    <3>2. Rank(p) < at - 1
      <4>1. PICK r \in Nat : r = Rank(p)
        BY AllPlaces
      <4> QED
        BY <1>3, <1>4, <3>1, <4>1
    <3>3. q \in Places /\ q # job.dst
      BY <1>1, <2>2, AllPlaces
    <3>4. files'[q] = files[q]
      BY <3>3
    <3>5. Contents(files', q) = Contents(before, p)
      BY <1>2, <1>4, <3>2, <3>4, SameContents DEF There
    <3> QED
      BY <3>5 DEF There, Contents
  <2> QED
    BY <2>1, <2>2
<1>5. \A p \in Places : Wanted(p)' /\ Rank(p)' < at => There(p)'
  BY <1>4, AllSame
<1> QED
  BY <1>2, <1>5, AllSame DEF AllSoFar, Passed, Loop

(* From one file to the next. *)
LEMMA AllLoop ==
    ASSUME Base, CacheInv, ContentsInv, AllSoFar, ListAll \/ NextFile \/ PickFile
    PROVE  AllSoFar'
<1>0. job.op = "all"
  BY ListAllBase, NextFileBase, PickFileBase
<1>1. CASE ListAll
  <2>1. pc = "list" /\ at = 0 /\ UNCHANGED <<job, at, before>> /\ files' = files
    BY <1>0, <1>1, ListAllBase DEF ListAll, historyVars, AllSoFar
  <2>2. CASE pc' = "shell"
    BY <2>2, NotAll
  <2>3. CASE pc' = "next" /\ limit' = Cardinality(entries') /\ Directory(Dev(job.src))
    <3>1. entries' = Every
      BY <1>0, <2>3, AllPlaces DEF Directory
    <3>2. limit' = Cardinality(Every) /\ limit' \in Nat
      BY <1>0, <2>3, <3>1, AllPlaces
    <3>3. \A p \in Places : Rank(p) \in Nat
      BY <1>0, AllPlaces
    <3> QED
      BY <2>1, <2>3, <3>2, <3>3, AllSame DEF AllSoFar, Passed, Loop
  <2> QED
    BY <1>1, <2>2, <2>3, ListAllBase
<1>2. CASE NextFile
  <2>1. pc = "next" /\ UNCHANGED <<job, at, limit, before>> /\ files' = files
    BY <1>2, NextFileBase DEF NextFile, Keep, jobVars, historyVars
  <2>2. CASE pc' = "shell"
    BY <2>2, NotAll
  <2>3. CASE pc' = "pick" /\ at < limit
    <3>1. \A p : There(p)' = There(p)
      BY <2>1 DEF There, Contents
    <3> QED
      BY <2>1, <2>3, <3>1, AllSame DEF AllSoFar, Passed, Loop
  <2> QED
    BY <1>2, <2>2, <2>3, NextFileBase
<1>3. CASE PickFile
  <2>1. pc = "pick" /\ UNCHANGED <<files, before, limit>>
    BY <1>3 DEF PickFile, historyVars
  <2>2. CASE pc' = "shell"
    BY <2>2, NotAll
  <2>3. CASE /\ pc' = "find" /\ at < Cardinality(entries) /\ at' = at + 1
             /\ job'.op = "all" /\ job'.src = <<Dev(job.src), EntryAt(entries, at)>>
             /\ job'.dst = <<Dev(job.dst), EntryAt(entries, at)>>
    <3>1. entries = Every
      BY <1>0, <1>3, PickFileBase, AllPlaces
    <3>2. /\ Dev(job'.src) = Dev(job.src) /\ Dev(job'.dst) = Dev(job.dst)
          /\ job'.src[2] = EntryAt(Every, at)
      BY <2>3, <3>1 DEF Dev
    <3>3. Every' = Every /\ \A p : Rank(p)' = Rank(p) /\ Wanted(p)' = Wanted(p) /\ There(p)' = There(p)
      BY <2>1, <3>2 DEF Every, Rank, Wanted, Listing, There, Contents
    <3>4. /\ limit = Cardinality(Every) /\ limit \in Nat /\ at < limit /\ at \in Nat
          /\ \A p \in Places : Wanted(p) /\ Rank(p) < at => There(p)
      BY <1>0, <2>1, AllPlaces DEF AllSoFar, Passed, Loop, Base, ShellType
    <3>5. at' - 1 = at /\ at' <= limit /\ at' >= 1
      BY <2>3, <3>4
    <3> QED
      BY <2>1, <2>3, <3>2, <3>3, <3>4, <3>5 DEF AllSoFar, Passed, Loop
  <2> QED
    BY <1>3, <2>2, <2>3, PickFileBase
<1> QED
  BY <1>1, <1>2, <1>3

(* At the end nothing has been left out. *)
LEMMA AllDone ==
    ASSUME Base, CacheInv, ContentsInv, AllSoFar, NextFile \/ PickFile, result' = "done", pc' = "shell"
    PROVE  WorkDone'
<1>1. job.op = "all"
  BY NextFileBase, PickFileBase
<1>2. CASE NextFile
  <2>1. pc = "next" /\ UNCHANGED <<job, before, files>> /\ at = limit
    BY <1>2, NextFileBase DEF NextFile, Keep, jobVars, historyVars
  <2>2. ASSUME NEW p \in Places, Wanted(p) PROVE There(p)
    <3>1. Rank(p) < Cardinality(Every)
      BY <1>1, <2>2, AllPlaces, BelowCounts DEF Rank
    <3> QED
      BY <1>1, <2>1, <2>2, <3>1 DEF AllSoFar, Passed, Loop
  <2>3. \A p : Wanted(p)' = Wanted(p) /\ There(p)' = There(p)
    BY <2>1 DEF Wanted, There, Contents
  <2>4. job'.op = "all" /\ (\A p \in Places : Wanted(p) => There(p))'
    BY <1>1, <2>1, <2>2, <2>3
  <2> QED
    BY <2>4, WorkNext
<1>3. CASE PickFile
  <2>1. pc = "pick" /\ entries = Every /\ ~(at < Cardinality(entries))
    BY <1>1, <1>3, PickFileBase, AllPlaces DEF PickFile
  <2> QED
    BY <1>1, <2>1 DEF AllSoFar
<1> QED
  BY <1>2, <1>3

-----------------------------------------------------------------------------
(* DEL. *)
LEMMA Matches ==
    ASSUME Base, job.op = "delete"
    PROVE  /\ \A p \in Matching : /\ p \in Places /\ Dev(p) = job.dev /\ p[2] \in job.matches
                                  /\ p = <<job.dev, p[2]>>
                                  /\ before[p] # {} => p[2] \in Listing(before, job.dev)
           /\ job'.dev = job.dev /\ job'.matches = job.matches => Matching' = Matching
BY DevOfPlace DEF Matching, Listing

LEMMA NotDelete ==
    ASSUME job'.op # "delete" \/ pc' = "shell"
    PROVE  AskedSoFar'
BY DEF AskedSoFar

LEMMA CheckAsked ==
    ASSUME Base, AskedSoFar, Check \/ Snapshot
    PROVE  AskedSoFar'
<1>1. /\ job.op = "delete" /\ files' = files /\ UNCHANGED <<job, at, before>> /\ job.dev \in Devices
      /\ pc \in {"check", "snapshot"}
  BY CheckSnapshotBase, DeleteStages DEF Check, Snapshot, Keep, jobVars, historyVars
<1>2. files = before /\ at = 0 /\ Matching' = Matching
  BY <1>1, Matches DEF AskedSoFar
<1>3. CASE pc' = "shell"
  BY <1>3, NotDelete
<1>4. CASE Check /\ pc' \in {"snapshot", "erase"}
  <2>1. \A p \in Matching : ~Locked(p)
    BY <1>4 DEF Check, End
  <2> QED
    BY <1>1, <1>2, <1>4, <2>1 DEF AskedSoFar, Locked
<1>5. CASE Snapshot /\ pc' = "ask"
  <2>1. pc = "snapshot" /\ Directory(job.dev)
    BY <1>5 DEF Snapshot, End
  <2>2. entries' = Listing(before, job.dev)
    BY <1>2, <2>1 DEF Directory
  <2>3. \A p \in Matching : \A z \in before[p] : ~z.locked
    BY <1>1, <2>1 DEF AskedSoFar
  <2>4. \A p : Cardinality(Below(entries', p[2])) \in Nat
    BY <2>2, FiniteListing, FS_Subset, FS_CardinalityType DEF Below
  <2>5. \A p : ~(Cardinality(Below(entries', p[2])) < 0)
    BY <2>4
  <2>6. entries' = Listing(before, job.dev)'
    BY <1>1, <2>2 DEF Listing
  <2> QED
    BY <1>1, <1>2, <1>5, <2>3, <2>5, <2>6 DEF AskedSoFar
<1>6. pc' = "shell" \/ (Check /\ pc' \in {"snapshot", "erase"}) \/ (Snapshot /\ pc' = "ask")
  BY DEF Check, Snapshot, Goto, End
<1> QED
  BY <1>3, <1>4, <1>5, <1>6

(* The next match: what it ranks among the entries. *)
LEMMA AtEntry ==
    ASSUME Base, AskedSoFar, job.op = "delete", pc \in {"ask", "delete"}
    PROVE  /\ entries = Listing(before, job.dev) /\ Cardinality(entries) \in Nat /\ at \in Nat
           /\ \A p \in Matching : before[p] # {} => p[2] \in entries
           /\ \A p \in Matching : Cardinality(Below(entries, p[2])) \in Nat
           /\ at < Cardinality(entries) =>
                \A p \in Matching : before[p] # {} =>
                  (Cardinality(Below(entries, p[2])) = at <=> p[2] = EntryAt(entries, at))
<1>1. entries = Listing(before, job.dev)
  BY DEF AskedSoFar
<1>2. entries \subseteq Nat /\ IsFiniteSet(entries) /\ Cardinality(entries) \in Nat /\ at \in Nat
  BY <1>1, FiniteListing DEF Base, ShellType
<1>3. \A p \in Matching : before[p] # {} => p[2] \in entries
  BY <1>1, Matches
<1>4. \A p \in Matching : Cardinality(Below(entries, p[2])) \in Nat
  BY <1>2, FS_Subset, FS_CardinalityType DEF Below
<1>5. at < Cardinality(entries) =>
        \A p \in Matching : before[p] # {} =>
          (Cardinality(Below(entries, p[2])) = at <=> p[2] = EntryAt(entries, at))
  BY <1>2, <1>3, EntryIs
<1> QED
  BY <1>1, <1>2, <1>3, <1>4, <1>5

LEMMA AskAsked ==
    ASSUME Base, AskedSoFar, Ask
    PROVE  AskedSoFar'
<1>1. /\ job.op = "delete" /\ UNCHANGED <<files, before, entries>> /\ pc = "ask"
  BY DeleteStages DEF Ask, channelVars, cacheVars
<1>2. /\ \A p \in Matching : \A z \in before[p] : ~z.locked
      /\ \A p \in Matching : before[p] # {} =>
           IF Cardinality(Below(entries, p[2])) < at THEN Answered(p) ELSE files[p] = before[p]
  BY <1>1 DEF AskedSoFar
<1>3. CASE at >= Cardinality(entries)
  <2>1. pc' = "shell"
    BY <1>3 DEF Ask, End
  <2> QED
    BY <2>1, NotDelete
<1>4. CASE ~(at >= Cardinality(entries))
  <2>0. at < Cardinality(entries)
    BY <1>1, <1>4, AtEntry
  <2>. DEFINE name == EntryAt(entries, at)
  <2>1. CASE /\ name \in job.matches
             /\ job' = [job EXCEPT !.src[2] = name]
             /\ asked' = asked \cup {<<name, TRUE>>}
             /\ pc' = "delete" /\ at' = at
    <3>1. /\ job'.op = "delete" /\ job'.dev = job.dev /\ job'.matches = job.matches
          /\ job'.src = <<job.dev, name>> /\ job'.src[2] = name
      <4>1. PICK j : j = [op |-> "delete", dev |-> job.dev, matches |-> job.matches, how |-> job.how,
                          src |-> <<job.src[1], job.src[2]>>] /\ j = job
        BY <1>1 DEF Base, Jobs
      <4>2. job' = [j EXCEPT !.src[2] = name] /\ job.src[1] = job.dev
        BY <1>1, <2>1, <4>1 DEF Base, Jobs
      <4> QED
        BY <4>1, <4>2
    <3>2. Matching' = Matching
      BY <1>1, <3>1, Matches
    <3>3. \A p \in Matching : Answered(p) => Answered(p)'
      BY <1>1, <2>1 DEF Answered, Exists
    <3>4. entries' = Listing(before, job.dev)'
      BY <1>1, <3>1, AtEntry DEF Listing
    <3>5. <<name, TRUE>> \in asked'
      BY <2>1
    <3>. HIDE DEF name
    <3>6. \A p \in Matching : before'[p] # {} =>
            IF Cardinality(Below(entries', p[2])) < at' THEN Answered(p)' ELSE files'[p] = before'[p]
      BY <1>1, <1>2, <2>1, <3>3
    <3>7. (/\ at < Cardinality(entries) /\ job.src = <<job.dev, EntryAt(entries, at)>>
           /\ job.src[2] \in job.matches /\ <<job.src[2], TRUE>> \in asked)'
      BY <1>1, <2>0, <2>1, <3>1, <3>5 DEF name
    <3> QED
      BY <1>1, <1>2, <2>1, <3>2, <3>4, <3>6, <3>7 DEF AskedSoFar
  <2>2. CASE /\ at' = at + 1
             /\ asked' = IF name \in job.matches THEN asked \cup {<<name, FALSE>>} ELSE asked
             /\ pc' = "ask" /\ job' = job
    <3>1. Matching' = Matching
      BY <1>1, <2>2, Matches
    <3>2. entries' = Listing(before, job.dev)'
      BY <1>1, <2>2, AtEntry DEF Listing
    <3>3. \A p \in Matching : Answered(p) => Answered(p)'
      BY <1>1, <2>2 DEF Answered, Exists
    <3>4. ASSUME NEW p \in Matching, before[p] # {}
          PROVE  IF Cardinality(Below(entries, p[2])) < at + 1 THEN Answered(p)' ELSE files[p] = before[p]
      <4>1. PICK k \in Nat : k = Cardinality(Below(entries, p[2]))
        BY <1>1, AtEntry
      <4>2. CASE k < at
        <5>1. k < at + 1 /\ Answered(p)
          BY <1>1, <1>2, <3>4, <4>1, <4>2, AtEntry
        <5> QED
          BY <3>3, <4>1, <5>1
      <4>3. CASE k = at
        <5>1. p[2] = name /\ name \in job.matches /\ files[p] = before[p]
          <6>1. p[2] = name
            BY <1>1, <2>0, <3>4, <4>1, <4>3, AtEntry
          <6>2. name \in job.matches
            BY <1>1, <6>1, Matches
          <6>3. ~(k < at)
            BY <1>1, <4>3, AtEntry
          <6> QED
            BY <1>2, <3>4, <4>1, <6>1, <6>2, <6>3
        <5>2. <<p[2], FALSE>> \in asked' /\ Exists(p)'
          BY <1>1, <2>2, <3>4, <5>1 DEF Exists
        <5>3. Answered(p)'
          BY <5>2 DEF Answered
        <5> QED
          BY <1>1, <4>1, <4>3, <5>3, AtEntry
      <4>4. CASE k > at
        <5>1. ~(k < at + 1) /\ ~(k < at)
          BY <1>1, <4>1, <4>4, AtEntry
        <5> QED
          BY <1>2, <3>4, <4>1, <5>1
      <4> QED
        BY <1>1, <4>1, <4>2, <4>3, <4>4, AtEntry
    <3> QED
      BY <1>1, <1>2, <2>2, <3>1, <3>2, <3>4 DEF AskedSoFar
  <2> QED
    BY <1>1, <1>4, <2>1, <2>2 DEF Ask, Goto
<1> QED
  BY <1>3, <1>4

LEMMA DeleteAsked ==
    ASSUME Base, AskedSoFar, DeleteFile
    PROVE  AskedSoFar'
<1>1. pc = "delete" /\ job.op = "delete" /\ UNCHANGED <<job, before, asked>>
  BY DeleteStages DEF DeleteFile, historyVars
<1>2. CASE pc' = "shell"
  BY <1>2, NotDelete
<1>3. CASE files' = Without(files, {job.src}) /\ pc' = "ask" /\ at' = at + 1
  <2>1. /\ \A p \in Matching : \A z \in before[p] : ~z.locked
        /\ \A p \in Matching : before[p] # {} =>
             IF Cardinality(Below(entries, p[2])) < at THEN Answered(p) ELSE files[p] = before[p]
        /\ at < Cardinality(entries) /\ job.src = <<job.dev, EntryAt(entries, at)>>
        /\ job.src[2] \in job.matches /\ <<job.src[2], TRUE>> \in asked
    BY <1>1 DEF AskedSoFar
  <2>2. Matching' = Matching
    BY <1>1, Matches
  <2>3. entries' = Listing(before, job.dev)' /\ entries' = entries
    <3>1. entries' = entries
      BY <1>3 DEF DeleteFile, CommandDone, CommandFails, AfterCommand, Forget, cacheVars
    <3> QED
      BY <1>1, <3>1, AtEntry DEF Listing
  <2>4. FilesT(files)
    BY FilesOfJob
  <2>5. ASSUME NEW p \in Matching, before[p] # {}
        PROVE  IF Cardinality(Below(entries, p[2])) < at + 1 THEN Answered(p)' ELSE files'[p] = before[p]
    <3>1. PICK k \in Nat : k = Cardinality(Below(entries, p[2]))
      BY <1>1, AtEntry
    <3>2. p \in Places /\ p = <<job.dev, p[2]>>
      BY <1>1, Matches
    <3>3. k = at <=> p[2] = EntryAt(entries, at)
      BY <1>1, <2>1, <2>5, <3>1, AtEntry
    <3>4. p # job.src => files'[p] = files[p]
      BY <1>3, <2>4, <3>2, WithoutTyped
    <3>5. CASE k < at
      <4>1. p # job.src /\ k < at + 1
        BY <1>1, <2>1, <3>1, <3>3, <3>5, AtEntry
      <4>2. Answered(p)
        BY <2>1, <2>5, <3>1, <3>5
      <4>3. Answered(p)'
        BY <1>1, <3>4, <4>1, <4>2 DEF Answered, Exists
      <4> QED
        BY <3>1, <4>1, <4>3
    <3>6. CASE k = at
      <4>1. p = job.src
        BY <2>1, <3>2, <3>3, <3>6
      <4>2. files[p] = before[p]
        <5>1. ~(k < at)
          BY <1>1, <3>6, AtEntry
        <5> QED
          BY <2>1, <2>5, <3>1, <5>1
      <4>3. files'[p] = {}
        <5>1. \A x \in Without(files, {job.src})[p] : x.locked /\ x \in files[p]
          <6>1. /\ Without(files, {job.src})[p] \subseteq files[p]
                /\ \A x \in Without(files, {job.src})[p] : p \in {job.src} => x.locked
            BY <2>4, <3>2, WithoutTyped
          <6> QED
            BY <4>1, <6>1
        <5> QED
          BY <1>3, <2>1, <4>2, <5>1
      <4>4. Answered(p)'
        BY <1>1, <2>1, <4>1, <4>3 DEF Answered, Exists
      <4> QED
        BY <1>1, <3>1, <3>6, <4>4, AtEntry
    <3>7. CASE k > at
      <4>1. p # job.src /\ ~(k < at) /\ ~(k < at + 1)
        BY <1>1, <2>1, <3>1, <3>3, <3>7, AtEntry
      <4> QED
        BY <2>1, <2>5, <3>1, <3>4, <4>1
    <3> QED
      BY <1>1, <3>1, <3>5, <3>6, <3>7, AtEntry
  <2> QED
    BY <1>1, <1>3, <2>1, <2>2, <2>3, <2>5 DEF AskedSoFar
<1> QED
  BY <1>2, <1>3, DeleteFileBase

(* At the end every match has been asked about. *)
LEMMA DeleteDone ==
    ASSUME Base, AskedSoFar, Ask \/ EraseAll, pc' = "shell", result' = "done"
    PROVE  WorkDone'
<1>0. job.op = "delete"
  BY DeleteStages
<1>1. CASE Ask
  <2>1. pc = "ask" /\ at >= Cardinality(entries) /\ UNCHANGED <<job, files, before, asked>>
    BY <1>1 DEF Ask, End, Goto, channelVars
  <2>2. ASSUME NEW p \in Matching, before[p] # {} PROVE Answered(p)
    <3>1. Cardinality(Below(entries, p[2])) < Cardinality(entries)
      <4>1. entries \subseteq Nat /\ IsFiniteSet(entries)
        BY <1>0, <2>1, AtEntry, FiniteListing
      <4> QED
        BY <1>0, <2>1, <2>2, <4>1, AtEntry, BelowCounts
    <3>2. Cardinality(Below(entries, p[2])) < at
      <4>1. PICK k \in Nat : k = Cardinality(Below(entries, p[2]))
        BY <1>0, <2>1, AtEntry
      <4> QED
        BY <1>0, <2>1, <3>1, <4>1, AtEntry
    <3> QED
      BY <1>0, <2>1, <2>2, <3>2 DEF AskedSoFar
  <2>3. Matching' = Matching /\ \A p : Answered(p)' = Answered(p)
    BY <1>0, <2>1, Matches DEF Answered, Exists
  <2>4. job'.op = "delete" /\ (\A p \in Matching : before[p] # {} => Answered(p))'
    BY <1>0, <2>1, <2>2, <2>3
  <2> QED
    BY <2>4, WorkNext
<1>2. CASE EraseAll
  <2>1. /\ pc = "erase" /\ UNCHANGED <<job, before>> /\ files' = Without(files, Matching)
        /\ asked' = {<<n, TRUE>> : n \in job.matches}
    BY <1>2, EraseAllBase DEF EraseAll, jobVars
  <2>2. files = before /\ \A p \in Matching : \A z \in before[p] : ~z.locked
    BY <1>0, <2>1 DEF AskedSoFar
  <2>3. Matching' = Matching
    BY <1>0, <2>1, Matches
  <2>4. ASSUME NEW p \in Matching PROVE Answered(p)'
    <3>1. p \in Places /\ p[2] \in job.matches
      BY <1>0, Matches
    <3>2. \A x \in Without(files, Matching)[p] : x.locked /\ x \in files[p]
      BY <3>1, FilesOfJob, WithoutTyped
    <3>3. files'[p] = {} /\ <<p[2], TRUE>> \in asked'
      BY <2>1, <2>2, <3>1, <3>2
    <3> QED
      BY <3>3 DEF Answered, Exists
  <2>5. job'.op = "delete" /\ (\A p \in Matching : before[p] # {} => Answered(p))'
    BY <1>0, <2>1, <2>3, <2>4
  <2> QED
    BY <2>5, WorkNext
<1> QED
  BY <1>1, <1>2

-----------------------------------------------------------------------------
(* Output to a file. *)
LEMMA NotRedirect ==
    ASSUME job'.op # "redirect"
    PROVE  OutputSoFar'
BY DEF OutputSoFar

LEMMA OutputEnds ==
    ASSUME OutputSoFar, UNCHANGED job, pc' = "shell"
    PROVE  OutputSoFar'
BY DEF OutputSoFar, Printing

LEMMA BegunOutput ==
    ASSUME Base, \/ Command
                 \/ \E kind \in {"type", "dir", "echo"}, src \in Places, dst \in Places, append \in BOOLEAN :
                      Redirect(kind, src, dst, append)
    PROVE  OutputSoFar'
<1>1. files' = before' /\ pc' # "shell"
  BY CommandBase DEF Begun
<1>2. job'.op = "redirect" => /\ job'.kind = "type" => job'.src # job'.dst
                              /\ pc' = "resolve" => job'.kind = "type"
                              /\ pc' \in {"resolve", "target"}
  BY CommandBase
<1> QED
  BY <1>1, <1>2 DEF OutputSoFar, Printing

(* Before the file is opened. *)
LEMMA TargetOutput ==
    ASSUME Base, OutputSoFar, Resolve \/ Target \/ Truncate
    PROVE  OutputSoFar'
<1>1. /\ pc \in {"resolve", "target", "truncate"} /\ UNCHANGED <<job, before>>
      /\ job.op = "redirect" /\ job.dst \in Places
  BY OutputJob DEF Resolve, Target, Truncate, Keep, jobVars, historyVars
<1>2. CASE pc' = "shell"
  BY <1>1, <1>2, OutputEnds
<1>3. CASE Resolve /\ pc' = "target"
  <2>1. files' = files
    BY <1>3, ResolveBase
  <2> QED
    BY <1>1, <1>3, <2>1 DEF OutputSoFar, Printing
<1>4. CASE Target /\ pc' \in {"truncate", "output"}
  <2>1. files' = files
    BY <1>4, TargetBase
  <2>2. pc' = "truncate" => ~job.append /\ Dev(job.dst) # Cart
    BY <1>4 DEF Target, Goto, End
  <2> QED
    BY <1>1, <1>4, <2>1, <2>2 DEF OutputSoFar, Printing
<1>5. CASE Truncate /\ pc' = "output"
  <2>1. pc = "truncate"
    BY <1>5 DEF Truncate
  <2>2. files = before /\ ~job.append /\ Dev(job.dst) # Cart
    BY <1>1, <2>1 DEF OutputSoFar
  <2>3. \A p \in Places : p # job.dst => files'[p] = files[p]
    BY <1>5, TruncateBase, WithoutTyped, FilesOfJob
  <2> QED
    BY <1>1, <1>5, <2>1, <2>2, <2>3 DEF OutputSoFar, Printing
<1> QED
  BY <1>2, <1>3, <1>4, <1>5, ResolveBase, TargetBase, TruncateBase

LEMMA OpenOutputOutput ==
    ASSUME Base, OutputSoFar, OpenOutput
    PROVE  OutputSoFar'
<1>1. pc = "output" /\ UNCHANGED <<job, before>>
  BY OpenOutputBase DEF OpenOutput
<1>2. job.op = "redirect" /\ job.dst \in Places /\ job.kind \in {"type", "dir", "echo"}
      /\ job.append \in BOOLEAN
  BY <1>1, OutputJob DEF Base, Jobs
<1>3. CASE pc' = "shell"
  BY <1>1, <1>3, OutputEnds
<1>4. CASE /\ pc' = CASE job.kind = "type" -> "lookup" [] job.kind = "dir" -> "listing"
                      [] OTHER -> "print"
           /\ Appending => Contents(files, job.dst) # {}
           /\ chan'[5].data = IF Appending THEN Old(files, job.dst) ELSE <<>>
           /\ Dev(job.dst) = Cart => files' = files
           /\ \A p \in Places : p # job.dst => files'[p] = files[p]
           /\ Dev(job.dst) # Cart =>
                \E x \in FileT : files'[job.dst] = {x} /\ x.data = chan'[5].data
  <2>1. /\ pc' \in {"lookup", "listing", "print"}
        /\ pc' = "lookup" <=> job.kind = "type"
    BY <1>2, <1>4
  <2>2. chan'[5].live
    <3>1. OpenWrite(5, job.dst, Appending)
      BY <2>1 DEF OpenOutput, End
    <3>. DEFINE data == IF Appending THEN Old(files, job.dst) ELSE <<>>
    <3>2. data \in Seq(Chunks) /\ 5 \in Files
      BY <1>2, <1>4, FilesOfJob, OneContents DEF Files
    <3>3. PICK c \in ChannelT : /\ c = Writing(job.dst, data) /\ c.mode = "write" /\ c.place = job.dst
                                /\ c.live
      BY <1>2, <3>2, NewChannels
    <3>4. ChannelsT(chan) /\ DrivesT /\ Dev(job.dst) \in Devices
      BY <1>2, DevOfPlace DEF Base, ShellType
    <3>5. PICK cs : cs = [chan EXCEPT ![5] = c] /\ ChannelsT(cs) /\ cs[5] = c
      <4>1. ChannelsT([chan EXCEPT ![5] = c]) /\ [chan EXCEPT ![5] = c][5] = c
        BY <1>2, <3>2, <3>3, <3>4, PutChannel
      <4> QED
        BY <4>1
    <3>6. PICK fs : Status(Dev(job.dst), fs, cs)
      BY <3>1, <3>3, <3>5 DEF OpenWrite
    <3>7. \A f \in Files : Dev(cs[f].place) = Dev(job.dst) => chan'[f].live = cs[f].live
      <4>1. ChannelsT(cs)
        BY <3>5
      <4>2. DrivesT /\ Dev(job.dst) \in Devices
        BY <3>4
      <4> QED
        BY <3>6, <4>1, <4>2, StatusDrives
    <3> QED
      BY <3>2, <3>3, <3>5, <3>7
  <2>3. chan'[5].data \in Before(job.dst)
    <3>1. CASE Appending
      <4>1. files = before /\ job.append /\ files[job.dst] # {}
        BY <1>1, <1>2, <3>1 DEF OutputSoFar, Appending, Exists
      <4>2. Old(files, job.dst) \in Contents(files, job.dst)
        BY <1>4, <3>1 DEF Old
      <4> QED
        BY <1>4, <3>1, <4>1, <4>2 DEF Before
    <3>2. CASE ~Appending
      <4>1. ~(job.append /\ before[job.dst] # {})
        BY <1>1, <1>2, <3>2 DEF OutputSoFar, Appending, Exists
      <4> QED
        BY <1>4, <3>2, <4>1 DEF Before
    <3> QED
      BY <3>1, <3>2
  <2>4. (chan[5].data \in Before(job.dst))'
    BY <1>1, <2>3 DEF Before, Contents
  <2>5. Dev(job.dst) # Cart => Shown5'
    BY <1>1, <1>4, <2>2 DEF Shown5
  <2>6. \A p \in Places : p # job.dst => files'[p] = before[p]
    BY <1>1, <1>2, <1>4 DEF OutputSoFar
  <2>7. Dev(job.dst) = Cart => files' = before
    BY <1>1, <1>2, <1>4 DEF OutputSoFar
  <2>8. job.kind = "type" => job.src # job.dst
    BY <1>2 DEF OutputSoFar
  <2>9. pc' \notin {"shell", "resolve", "target", "truncate", "output", "input", "copy", "close"}
    BY <2>1
  <2> QED
    BY <1>1, <2>1, <2>2, <2>4, <2>5, <2>6, <2>7, <2>8, <2>9 DEF OutputSoFar
<1> QED
  BY <1>3, <1>4, OpenOutputBase

(* While it is open, other requests may have its drive close it. *)
OutputKept ==
    /\ \A p \in Places : p # job.dst => files'[p] = files[p]
    /\ Dev(job.dst) = Cart => files' = files /\ chan'[5].live = chan[5].live
    /\ Shown5 => \E z \in files'[job.dst] : z.data = chan[5].data /\ (~chan'[5].live => z.closed)

LEMMA EvictedOutput ==
    ASSUME Base, pc \in Printing, NEW cs, ChannelsT(cs), cs[5] = chan[5],
           \A f \in Files : f # 5 => cs[f].mode # "write", NEW d,
           files' = Beheaded(files, cs, d), chan' = Cut(cs, d)
    PROVE  OutputKept
<1>. DEFINE hit == chan[5].live /\ On(chan[5], d)
<1>1. /\ chan[5].mode = "write" /\ chan[5].place = job.dst /\ 5 \in Files
      /\ job.dst \in Places /\ FilesT(files) /\ chan[5].live \in BOOLEAN
  BY OutputJob, FilesOfJob DEF Base, Usage, Writes, Files, ShellType, ChannelsT, ChannelT
<1>2. ASSUME NEW p \in Places
      PROVE  files'[p] = IF hit /\ p = job.dst THEN {[x EXCEPT !.closed = TRUE] : x \in files[p]} ELSE files[p]
  <2>1. (\E f \in Files : cs[f].mode = "write" /\ cs[f].live /\ cs[f].place = p /\ On(cs[f], d))
          <=> (hit /\ p = job.dst)
    BY <1>1
  <2>2. files'[p] = IF \E f \in Files : cs[f].mode = "write" /\ cs[f].live /\ cs[f].place = p /\ On(cs[f], d)
                      THEN {[x EXCEPT !.closed = TRUE] : x \in files[p]} ELSE files[p]
    BY DEF Beheaded
  <2> QED
    BY <2>1, <2>2
<1>3. chan'[5].live = (chan[5].live /\ ~On(chan[5], d))
  BY <1>1, CutEffect
<1>4. Dev(job.dst) = Cart => ~On(chan[5], d)
  BY <1>1 DEF On, Cart
<1>5. Dev(job.dst) = Cart => files' = files /\ chan'[5].live = chan[5].live
  <2>. SUFFICES ASSUME Dev(job.dst) = Cart PROVE files' = files /\ chan'[5].live = chan[5].live
    OBVIOUS
  <2>1. \A p \in Places : files'[p] = files[p]
    BY <1>2, <1>4
  <2>2. files' = [p \in Places |-> files'[p]] /\ files = [p \in Places |-> files[p]]
    BY <1>1 DEF Beheaded, FilesT
  <2>3. chan'[5].live = chan[5].live
    BY <1>1, <1>3, <1>4
  <2> QED
    BY <2>1, <2>2, <2>3
<1>6. ASSUME Shown5
      PROVE  \E z \in files'[job.dst] : z.data = chan[5].data /\ (~chan'[5].live => z.closed)
  <2>1. PICK z \in files[job.dst] : z.data = chan[5].data /\ (~chan[5].live => z.closed)
    BY <1>6 DEF Shown5
  <2>2. CASE hit
    <3>1. z \in FileT
      BY <1>1, <2>1 DEF FilesT
    <3>2. [z EXCEPT !.closed = TRUE].data = z.data /\ [z EXCEPT !.closed = TRUE].closed
      BY <3>1 DEF FileT
    <3>3. [z EXCEPT !.closed = TRUE] \in files'[job.dst]
      BY <1>1, <1>2, <2>1, <2>2
    <3> QED
      BY <2>1, <3>2, <3>3
  <2>3. CASE ~hit
    <3>1. files'[job.dst] = files[job.dst] /\ (~chan'[5].live => ~chan[5].live)
      BY <1>1, <1>2, <1>3, <2>3
    <3> QED
      BY <2>1, <3>1
  <2> QED
    BY <2>2, <2>3
<1> QED
  BY <1>2, <1>5, <1>6 DEF OutputKept

LEMMA RequestOutput ==
    ASSUME Base, pc \in Printing, NEW dev \in Devices, NEW possible,
           Directory(dev) \/ DirectoryFails(dev) \/ OpenFails(dev, possible, chan)
             \/ (OpenRead(2, job.src) /\ pc = "input")
    PROVE  OutputKept
<1>1. /\ ChannelsT(chan) /\ \A f \in Files : f # 5 => chan[f].mode # "write"
      /\ 2 \in Files /\ 5 \in Files /\ job.src \in Places /\ FilesT(files)
  BY OutputJob DEF Base, ShellType, Usage, Shut, Reads, Files, Printing, Writing3
<1>2. CASE OpenRead(2, job.src)
  <2>1. PICK data \in Contents(files, job.src) :
          Status(Dev(job.src), files, [chan EXCEPT ![2] = Reading(job.src, data)])
    BY <1>2 DEF OpenRead
  <2>2. data \in Seq(Chunks)
    BY <1>1, OneContents
  <2>3. PICK c \in ChannelT : c = Reading(job.src, data) /\ c.mode = "read" /\ c.place = job.src
    BY <1>1, <2>2, NewChannels
  <2>4. /\ ChannelsT([chan EXCEPT ![2] = c]) /\ [chan EXCEPT ![2] = c][2] = c
        /\ \A g \in Files : g # 2 => [chan EXCEPT ![2] = c][g] = chan[g]
    BY <1>1, <2>3, PutChannel
  <2>5. PICK cs : /\ cs = [chan EXCEPT ![2] = c] /\ ChannelsT(cs) /\ cs[2] = c
                  /\ \A g \in Files : g # 2 => cs[g] = chan[g]
    BY <2>4
  <2>6. files' = Beheaded(files, cs, Evicted(Dev(job.src))) /\ chan' = Cut(cs, Evicted(Dev(job.src)))
    BY <2>1, <2>3, <2>5 DEF Status
  <2>7. /\ \A f \in Files : f # 5 => cs[f].mode # "write"
        /\ ChannelsT(cs) /\ cs[5] = chan[5]
    BY <1>1, <2>3, <2>5
  <2> QED
    BY <2>6, <2>7, EvictedOutput
<1>3. CASE Directory(dev) \/ DirectoryFails(dev) \/ OpenFails(dev, possible, chan)
  <2>1. files' = Beheaded(files, chan, Evicted(dev)) /\ chan' = Cut(chan, Evicted(dev))
    BY <1>3 DEF Directory, DirectoryFails, OpenFails, NotReady, Status
  <2> QED
    BY <1>1, <2>1, EvictedOutput
<1> QED
  BY <1>2, <1>3

(* A step while the file is open. *)
Told5 ==
    ~chan[5].bad =>
      /\ pc \in {"lookup", "input", "listing", "print"} => chan[5].data \in Before(job.dst)
      /\ pc = "copy" => Complete(chan[5].data \o chan[2].data)
      /\ pc = "close" /\ ok => Complete(chan[5].data)
      /\ Dev(job.dst) # Cart => Shown5

LEMMA OutputStep ==
    ASSUME Base, OutputSoFar, pc \in Printing, pc' \in Printing, UNCHANGED <<job, before>>,
           \A p \in Places : p # job.dst => files'[p] = files[p],
           Dev(job.dst) = Cart => files' = files /\ chan'[5].live = chan[5].live,
           pc' \in {"lookup", "input", "copy"} => job.kind = "type",
           pc' \in {"listing", "print"} => job.kind # "type", Told5'
    PROVE  OutputSoFar'
<1>1. /\ job.op = "redirect" /\ pc \notin {"shell"} /\ job.dst \in Places
      /\ pc' \notin {"shell", "resolve", "target", "truncate", "output"}
  BY OutputJob DEF Printing
<1>2. /\ job.kind = "type" => job.src # job.dst
      /\ \A p \in Places : p # job.dst => files'[p] = before[p]
      /\ Dev(job.dst) = Cart => files' = before /\ chan'[5].live
  BY <1>1 DEF OutputSoFar
<1> QED
  BY <1>1, <1>2 DEF OutputSoFar, Told5

(* Other requests change nothing that was said. *)
LEMMA SameAnswers ==
    ASSUME UNCHANGED <<job, before>>
    PROVE  /\ Before(job.dst)' = Before(job.dst) /\ Printed' = Printed
           /\ \A data : Complete(data) => \E o \in Before(job.dst)', n \in Printed' : data = o \o n
BY DEF Before, Printed, Contents, Complete

LEMMA AskingOutput ==
    ASSUME Base, OutputSoFar, Lookup \/ ListDirectory \/ OpenInput
    PROVE  OutputSoFar'
<1>1. /\ pc \in {"lookup", "listing", "input"} /\ pc \in Printing /\ UNCHANGED <<job, before>>
      /\ pc' \in {"input", "print", "copy", "close"} /\ pc' \in Printing
      /\ pc' = "input" => pc = "lookup"
      /\ pc' = "print" => pc = "listing"
      /\ pc' = "copy" => pc = "input"
      /\ pc' = "close" => ~ok'
  BY LookupBase, ListDirectoryBase, OpenInputBase
  DEF Lookup, ListDirectory, OpenInput, Printing, PrintingStep
<1>2. /\ job.op = "redirect" /\ job.src \in Places /\ job.dst \in Places
      /\ Dev(job.src) \in Devices /\ 5 \in Files
  BY <1>1, OutputJob DEF Files
<1>3. SameUse(chan'[5], chan[5])
  BY <1>2, LookupBase, ListDirectoryBase, OpenInputBase
<1>4. OutputKept \/ (files' = files /\ chan' = chan)
  <2>1. CASE UNCHANGED channelVars
    BY <2>1 DEF channelVars
  <2>2. CASE \/ Directory(Dev(job.src)) \/ DirectoryFails(Dev(job.src))
             \/ OpenFails(Dev(job.src), MayRead(job.src), chan)
             \/ (OpenRead(2, job.src) /\ pc = "input")
    BY <1>1, <1>2, <2>2, RequestOutput
  <2> QED
    BY <2>1, <2>2 DEF Lookup, ListDirectory, OpenInput
<1>5. /\ \A p \in Places : p # job.dst => files'[p] = files[p]
      /\ Dev(job.dst) = Cart => files' = files /\ chan'[5].live = chan[5].live
      /\ Shown5 => \E z \in files'[job.dst] : z.data = chan[5].data /\ (~chan'[5].live => z.closed)
  BY <1>4 DEF OutputKept, Shown5
<1>6. /\ pc \in {"lookup", "input"} => job.kind = "type"
      /\ pc = "listing" => job.kind # "type"
      /\ job.kind = "type" => job.src # job.dst
      /\ \A p \in Places : p # job.dst => files[p] = before[p]
  BY <1>1, <1>2 DEF OutputSoFar
<1>7. ASSUME ~chan'[5].bad
      PROVE  /\ chan'[5].data \in Before(job.dst)
             /\ Dev(job.dst) # Cart => Shown5'
             /\ pc' = "copy" => Complete(chan'[5].data \o chan'[2].data)
  <2>1. ~chan[5].bad /\ chan'[5].data = chan[5].data
    BY <1>3, <1>7 DEF SameUse
  <2>2. chan[5].data \in Before(job.dst) /\ (Dev(job.dst) # Cart => Shown5)
    BY <1>1, <1>2, <2>1 DEF OutputSoFar
  <2>3. Dev(job.dst) # Cart => Shown5'
    BY <1>1, <1>5, <2>1, <2>2 DEF Shown5
  <2>4. ASSUME pc' = "copy" PROVE Complete(chan'[5].data \o chan'[2].data)
    <3>1. OpenInput
      BY <1>1, <2>4 DEF Lookup, ListDirectory
    <3>2. chan'[2].data \in Contents(files, job.src)
      BY <2>4, <3>1, OpenInputBase
    <3>3. job.kind = "type" /\ files[job.src] = before[job.src]
      BY <1>1, <1>2, <1>6, <2>4
    <3>4. chan'[2].data \in Printed
      BY <3>2, <3>3 DEF Printed, Contents
    <3> QED
      BY <2>1, <2>2, <3>4 DEF Complete
  <2> QED
    BY <2>1, <2>2, <2>3, <2>4
<1>8. Told5'
  <2>1. Before(job.dst)' = Before(job.dst) /\ Printed' = Printed
    BY <1>1, SameAnswers
  <2>2. ~chan'[5].bad /\ pc' = "copy" => (Complete(chan[5].data \o chan[2].data))'
    BY <1>7, <2>1 DEF Complete
  <2> QED
    BY <1>1, <1>7, <2>1, <2>2 DEF Told5
<1> QED
  BY <1>1, <1>5, <1>6, <1>8, OutputStep

(* What a chunk that is written does to the file. *)
LEMMA FlushedOutput ==
    ASSUME Base, pc \in Printing, NEW c \in Chunks, files' = Stored(5, c),
           chan'[5].data = Append(chan[5].data, c), chan'[5].live = chan[5].live, UNCHANGED job
    PROVE  /\ \A p \in Places : p # job.dst => files'[p] = files[p]
           /\ Dev(job.dst) = Cart => files' = files
           /\ Shown5 /\ Dev(job.dst) # Cart => Shown5'
<1>1. /\ chan[5].place = job.dst /\ job.dst \in Places /\ FilesT(files)
  BY OutputJob, FilesOfJob DEF Base, Usage, Writes
<1>2. /\ \A p \in Places : p # job.dst => files'[p] = files[p]
      /\ Dev(job.dst) = Cart => files' = files
      /\ Dev(job.dst) # Cart =>
           files'[job.dst] = {[x EXCEPT !.data = Append(@, c)] : x \in files[job.dst]}
  <2>1. /\ Dev(chan[5].place) = Cart => Stored(5, c) = files
        /\ \A p \in Places : p # chan[5].place => Stored(5, c)[p] = files[p]
        /\ chan[5].place \in Places /\ Dev(chan[5].place) # Cart =>
             Stored(5, c)[chan[5].place] =
               {[x EXCEPT !.data = Append(@, c)] : x \in files[chan[5].place]}
    BY <1>1, StoredTyped
  <2> QED
    BY <1>1, <2>1
<1>3. ASSUME Shown5, Dev(job.dst) # Cart PROVE Shown5'
  <2>1. PICK z \in files[job.dst] : z.data = chan[5].data /\ (~chan[5].live => z.closed)
    BY <1>3 DEF Shown5
  <2>2. z \in FileT
    BY <1>1, <2>1 DEF FilesT
  <2>3. /\ [z EXCEPT !.data = Append(@, c)].data = Append(z.data, c)
        /\ [z EXCEPT !.data = Append(@, c)].closed = z.closed
    BY <2>2 DEF FileT
  <2>4. PICK y : y = [z EXCEPT !.data = Append(@, c)] /\ y.data = Append(z.data, c) /\ y.closed = z.closed
    BY <2>3
  <2>5. y \in files'[job.dst]
    BY <1>2, <1>3, <2>1, <2>4
  <2> QED
    BY <2>1, <2>4, <2>5 DEF Shown5
<1> QED
  BY <1>2, <1>3

LEMMA TypingOutput ==
    ASSUME Base, OutputSoFar, TypeChunk
    PROVE  OutputSoFar'
<1>. DEFINE a == chan[5].data
            s == chan[2].data
<1>1. /\ pc = "copy" /\ pc \in Printing /\ UNCHANGED <<job, before>> /\ chan'[5].live = chan[5].live
      /\ pc' \in {"copy", "close"} /\ pc' \in Printing
  BY TypeChunkBase DEF TypeChunk, Printing, PrintingStep
<1>2. /\ job.op = "redirect" /\ job.kind = "type" /\ a \in Seq(Chunks) /\ s \in Seq(Chunks)
  BY <1>1, OutputJob DEF OutputSoFar, Base, ShellType, ChannelsT, ChannelT, Files
<1>3. ~chan[5].bad => Complete(a \o s) /\ (Dev(job.dst) # Cart => Shown5)
  BY <1>1, <1>2 DEF OutputSoFar
<1>4. Before(job.dst)' = Before(job.dst) /\ Printed' = Printed
  BY <1>1, SameAnswers
<1>5. CASE files' = files /\ chan' = chan /\ pc' = "close" /\ (~ok' \/ s = <<>>)
  <2>1. ~chan[5].bad /\ ok' => Complete(a)
    BY <1>2, <1>3, <1>5, NothingMoves
  <2>2. Told5'
    BY <1>1, <1>3, <1>4, <1>5, <2>1 DEF Told5, Complete, Shown5
  <2> QED
    BY <1>1, <1>2, <1>5, <2>2, OutputStep
<1>6. CASE files' = files /\ chan'[5].bad
  <2>1. Told5'
    BY <1>6 DEF Told5
  <2> QED
    BY <1>1, <1>2, <1>6, <2>1, OutputStep
<1>7. CASE /\ files' = Stored(5, Head(s)) /\ ~chan[5].bad /\ ~chan'[5].bad
           /\ chan'[5].data = Append(a, Head(s)) /\ chan'[2].data = Tail(s) /\ s # <<>>
           /\ pc' = "close" => ~ok'
  <2>1. PICK c \in Chunks : c = Head(s)
    BY <1>2, <1>7
  <2>2. files' = Stored(5, c) /\ chan'[5].data = Append(chan[5].data, c)
    BY <1>7, <2>1
  <2>3. /\ \A p \in Places : p # job.dst => files'[p] = files[p]
        /\ Dev(job.dst) = Cart => files' = files
        /\ Shown5 /\ Dev(job.dst) # Cart => Shown5'
    BY <1>1, <2>2, FlushedOutput
  <2>4. Complete(chan'[5].data \o chan'[2].data)
    BY <1>2, <1>3, <1>7, OneMoves
  <2>5. (Complete(chan[5].data \o chan[2].data))'
    BY <1>4, <2>4 DEF Complete
  <2>6. Told5'
    BY <1>1, <1>3, <1>7, <2>3, <2>5 DEF Told5
  <2> QED
    BY <1>1, <1>2, <2>3, <2>6, OutputStep
<1> QED
  BY <1>5, <1>6, <1>7, TypeChunkBase DEF Flushed

LEMMA LineIsChunk == Line \in Chunks
BY StartAssumption DEF Line

LEMMA PrintingOutput ==
    ASSUME Base, OutputSoFar, PrintLine
    PROVE  OutputSoFar'
<1>1. /\ pc = "print" /\ pc \in Printing /\ UNCHANGED <<job, before>> /\ chan'[5].live = chan[5].live
      /\ pc' = "close" /\ pc' \in Printing /\ Flushed(Line)
  BY PrintLineBase DEF PrintLine, Printing, PrintingStep
<1>2. job.op = "redirect" /\ job.kind # "type" /\ chan[5].data \in Seq(Chunks)
  BY <1>1, OutputJob DEF OutputSoFar, Base, ShellType, ChannelsT, ChannelT, Files
<1>3. Before(job.dst)' = Before(job.dst) /\ Printed' = Printed
  BY <1>1, SameAnswers
<1>4. CASE files' = files /\ chan'[5].bad
  <2>1. Told5'
    BY <1>4 DEF Told5
  <2> QED
    BY <1>1, <1>2, <1>4, <2>1, OutputStep
<1>5. CASE /\ files' = Stored(5, Line) /\ ~chan[5].bad
           /\ chan'[5].data = Append(chan[5].data, Line)
  <2>1. /\ \A p \in Places : p # job.dst => files'[p] = files[p]
        /\ Dev(job.dst) = Cart => files' = files
        /\ Shown5 /\ Dev(job.dst) # Cart => Shown5'
    BY <1>1, <1>5, FlushedOutput, LineIsChunk
  <2>2. chan[5].data \in Before(job.dst) /\ (Dev(job.dst) # Cart => Shown5)
    BY <1>1, <1>2, <1>5 DEF OutputSoFar
  <2>3. chan'[5].data = chan[5].data \o <<Line>>
    BY <1>2, <1>5, LineIsChunk, AppendIsConcat
  <2>4. <<Line>> \in Printed
    BY <1>2 DEF Printed
  <2>5. (Complete(chan[5].data))'
    BY <1>3, <2>2, <2>3, <2>4 DEF Complete
  <2>6. Told5'
    BY <1>1, <2>1, <2>2, <2>5 DEF Told5
  <2> QED
    BY <1>1, <1>2, <2>1, <2>6, OutputStep
<1> QED
  BY <1>1, <1>4, <1>5 DEF Flushed

(* The file is closed, whole. *)
LEMMA OneOfEach ==
    ASSUME NEW a, NEW b
    PROVE  \A S, T : S = {a} /\ T = {b} => {o \o n : o \in S, n \in T} = {a \o b}
OBVIOUS

LEMMA OutputDone ==
    ASSUME Base, OutputSoFar, CloseOutput, result' = "done"
    PROVE  WorkDone'
<1>1. pc = "close" /\ pc \in Printing /\ UNCHANGED <<job, before>>
  BY CloseOutputBase DEF CloseOutput, Printing
<1>2. /\ job.op = "redirect" /\ job.src \in Places /\ job.dst \in Places
      /\ chan[5].place = job.dst /\ chan[5].data \in Seq(Chunks) /\ 5 \in Files
      /\ FilesT(files) /\ FilesT(before) /\ ChannelsT(chan)
  BY <1>1, OutputJob DEF Base, ShellType, Usage, Writes, ChannelsT, ChannelT, Files
<1>3. PICK works \in BOOLEAN : files' = Closed(5, works) /\ ok /\ works /\ ~chan[5].bad
  BY CloseOutputBase
<1>4. /\ Complete(chan[5].data)
      /\ Dev(job.dst) = Cart => chan[5].live
      /\ Dev(job.dst) # Cart => Shown5
  BY <1>1, <1>2, <1>3 DEF OutputSoFar
<1>5. Contents(files', job.dst) = {chan[5].data}
  <2>1. CASE Dev(job.dst) = Cart
    <3>1. files'[job.dst] = {New(chan[5].data)}
      BY <1>2, <1>3, <1>4, <2>1, ClosedTyped
    <3>2. PICK d \in Seq(Chunks) : d = chan[5].data
      BY <1>2
    <3>3. files'[job.dst] = {New(d)}
      BY <3>1, <3>2
    <3>4. Contents(files', job.dst) = {d}
      BY <3>3, NewContents
    <3> QED
      BY <3>2, <3>4
  <2>2. CASE Dev(job.dst) # Cart
    <3>1. PICK z \in files[job.dst] : z.data = chan[5].data /\ (~chan[5].live => z.closed)
      BY <1>4, <2>2 DEF Shown5
    <3>2. z \in FileT /\ files[job.dst] = {z}
      BY <1>2, <3>1 DEF FilesT
    <3>3. PICK y : files'[job.dst] = {y} /\ y.closed /\ y.data = chan[5].data
      <4>1. CASE ~chan[5].live
        <5>1. files' = files
          BY <1>2, <1>3, <4>1, ClosedTyped
        <5> QED
          BY <3>1, <3>2, <4>1, <5>1
      <4>2. CASE chan[5].live
        <5>1. files'[job.dst] = {[x EXCEPT !.closed = TRUE] : x \in files[job.dst]}
          BY <1>2, <1>3, <2>2, <4>2, ClosedTyped
        <5>2. [z EXCEPT !.closed = TRUE].closed /\ [z EXCEPT !.closed = TRUE].data = z.data
          BY <3>2 DEF FileT
        <5>3. PICK y : y = [z EXCEPT !.closed = TRUE]
          OBVIOUS
        <5>4. y.closed /\ y.data = chan[5].data
          BY <3>1, <5>2, <5>3
        <5>5. files'[job.dst] = {y}
          BY <3>2, <5>1, <5>3
        <5> QED
          BY <5>4, <5>5
      <4> QED
        BY <4>1, <4>2
    <3> QED
      BY <3>3, ClosedContents
  <2> QED
    BY <2>1, <2>2
<1>6. /\ \A o, q \in Before(job.dst) : o = q
      /\ \A m, n \in Printed : m = n
  <2>1. \A d, e \in Contents(before, job.dst) : d = e
    BY <1>2, OneContents
  <2>2. \A d, e \in Contents(before, job.src) : d = e
    BY <1>2, OneContents
  <2>3. Before(job.dst) = Contents(before, job.dst) \/ Before(job.dst) = {<<>>}
    BY DEF Before
  <2>4. Printed = Contents(before, job.src) \/ Printed = {<<Line>>}
    BY DEF Printed
  <2> QED
    BY <2>1, <2>2, <2>3, <2>4
<1>7. Contents(files', job.dst) = {o \o n : o \in Before(job.dst), n \in Printed}
  <2>1. PICK u \in Before(job.dst), v \in Printed : chan[5].data = u \o v
    BY <1>4 DEF Complete
  <2>2. Before(job.dst) = {u} /\ Printed = {v}
    BY <1>6, <2>1
  <2>3. \A S, T : S = {u} /\ T = {v} => {o \o n : o \in S, n \in T} = {u \o v}
    BY OneOfEach
  <2>. DEFINE all == {o \o n : o \in Before(job.dst), n \in Printed}
  <2>4. all = {u \o v}
    BY <2>2, <2>3
  <2>5. Contents(files', job.dst) = {u \o v}
    BY <1>5, <2>1
  <2>6. Contents(files', job.dst) = all
    <3>. HIDE DEF all
    <3> QED
      BY <2>4, <2>5
  <2> QED
    BY <2>6
<1>8. Before(job.dst)' = Before(job.dst) /\ Printed' = Printed
  BY <1>1, SameAnswers
<1>9. Contents(files, job.dst)' = Contents(files', job.dst)
  BY <1>1 DEF Contents
<1>10. job'.op = "redirect" /\ Prints'
  BY <1>1, <1>2, <1>7, <1>8, <1>9 DEF Prints
<1> QED
  BY <1>10, WorkNext

-----------------------------------------------------------------------------
(* The steps of all commands together.  First, where a command begins. *)
LEMMA FirstStage ==
    ASSUME \/ Command
           \/ \E kind \in {"type", "dir", "echo"}, src \in Places, dst \in Places, append \in BOOLEAN :
                Redirect(kind, src, dst, append)
    PROVE  /\ job'.op = "all" => pc' = "list"
           /\ job'.op = "delete" => pc' = "check"
<1>1. CASE \E op \in {"copy", "move"}, src \in Places, dst \in Places : Copy(op, src, dst)
  <2>1. PICK op \in {"copy", "move"}, src \in Places, dst \in Places : Copy(op, src, dst)
    BY <1>1
  <2>2. job' = [op |-> op, src |-> src, dst |-> dst]
    BY <2>1 DEF Copy, Begin
  <2> QED
    BY <2>2
<1>2. CASE \E from \in Devices, to \in Devices : CopyAll(from, to)
  <2>1. PICK from \in Devices, to \in Devices : CopyAll(from, to)
    BY <1>2
  <2>2. job' = [op |-> "all", src |-> <<from, 0>>, dst |-> <<to, 0>>] /\ pc' = "list"
    BY <2>1 DEF CopyAll, Begin
  <2> QED
    BY <2>2
<1>3. CASE \E dev \in Devices : \E a, b, dst \in {p \in Places : Dev(p) = dev} : Concat(<<a, b>>, dst)
  <2>1. PICK a \in Places, b \in Places, dst \in Places : Concat(<<a, b>>, dst)
    BY <1>3
  <2>2. job' = [op |-> "concat", sources |-> <<a, b>>, dst |-> dst]
    BY <2>1 DEF Concat, Begin
  <2> QED
    BY <2>2
<1>4. CASE \E src \in Places, dst \in Places : Rename(src, dst)
  <2>1. PICK src \in Places, dst \in Places : Rename(src, dst)
    BY <1>4
  <2>2. job' = [op |-> "rename", src |-> src, dst |-> dst]
    BY <2>1 DEF Rename, Begin
  <2> QED
    BY <2>2
<1>5. CASE \E dev \in Devices, matches \in SUBSET Names, how \in {"single", "all", "each"} :
             Delete(dev, matches, how)
  <2>1. PICK dev \in Devices, matches \in SUBSET Names, how \in {"single", "all", "each"} :
          Delete(dev, matches, how)
    BY <1>5
  <2>2. /\ job' = [op |-> "delete", dev |-> dev, matches |-> matches, how |-> how, src |-> <<dev, 0>>]
        /\ pc' = "check"
    BY <2>1 DEF Delete, Begin
  <2> QED
    BY <2>2
<1>6. CASE \E kind \in {"type", "dir", "echo"}, src \in Places, dst \in Places, append \in BOOLEAN :
             Redirect(kind, src, dst, append)
  <2>1. PICK kind \in {"type", "dir", "echo"}, src \in Places, dst \in Places, append \in BOOLEAN :
          Redirect(kind, src, dst, append)
    BY <1>6
  <2>2. job' = [op |-> "redirect", kind |-> kind, src |-> src, dst |-> dst, append |-> append]
    BY <2>1 DEF Redirect, Begin
  <2> QED
    BY <2>2
<1> QED
  BY <1>1, <1>2, <1>3, <1>4, <1>5, <1>6 DEF Command

LEMMA BegunWork ==
    ASSUME Base, \/ Command
                 \/ \E kind \in {"type", "dir", "echo"}, src \in Places, dst \in Places, append \in BOOLEAN :
                      Redirect(kind, src, dst, append)
    PROVE  WorkInv'
<1>1. /\ pc' # "shell" /\ files' = before' /\ at' = 0 /\ result' = "none"
      /\ job'.op = "all" => pc' = "list"
      /\ job'.op = "delete" => pc' = "check"
  BY CommandBase, FirstStage DEF Begun
<1>2. AllSoFar'
  BY <1>1 DEF AllSoFar
<1>3. AskedSoFar'
  BY <1>1 DEF AskedSoFar
<1>4. Unfinished' /\ Succeeded'
  BY <1>1 DEF Unfinished, Succeeded
<1> QED
  BY <1>2, <1>3, <1>4, BegunOutput DEF WorkInv

(* No verdict before the end. *)
LEMMA NotYet ==
    ASSUME Base, ServeFile \/ ServeFiles \/ Output
    PROVE  pc # "shell" /\ (pc' # "shell" => UNCHANGED result)
<1>1. CASE ServeFile
  <2>1. CASE Duplicate
    <3>1. pc = "duplicate" /\ job.op \in {"copy", "move"}
          /\ (Copied \/ pc' = "shell")
      BY <2>1, DuplicateBase DEF Duplicate
    <3> QED
      BY <3>1, CopiedIs
  <2>2. CASE Finish
    <3>1. pc = "finish" /\ job.op \in {"copy", "move", "all"}
      BY <2>2, CopyJob DEF Finish, CopyOps
    <3>2. Copied \/ pc' = "shell"
      BY <2>2, FinishBase
    <3> QED
      BY <3>1, <3>2, CopiedIs
  <2>3. CASE OpenSource \/ CreateCopy \/ Stream
    BY <2>3, OpenSourceBase, CreateCopyBase, StreamBase DEF OpenSource, CreateCopy, Stream
  <2>4. CASE FindSource \/ Prepare \/ ScratchOld
    BY <2>4 DEF FindSource, Prepare, ScratchOld, Goto, End
  <2>5. CASE RemoveSource \/ RenameFile \/ Combine
    BY <2>5, RemoveSourceBase, RenameFileBase, CombineBase DEF RemoveSource, RenameFile, Combine
  <2> QED
    BY <1>1, <2>1, <2>2, <2>3, <2>4, <2>5 DEF ServeFile
<1>2. CASE ServeFiles
  BY <1>2 DEF ServeFiles, ListAll, NextFile, PickFile, Check, Snapshot, Ask, DeleteFile, EraseAll, Goto, End
<1>3. CASE Output
  <2>1. CASE Resolve \/ Target \/ Truncate \/ CloseOutput
    BY <2>1, CloseOutputBase DEF Resolve, Target, Truncate, CloseOutput, Goto, End
  <2>2. CASE OpenOutput
    BY <2>2, OpenOutputBase DEF OpenOutput
  <2>3. CASE Lookup \/ OpenInput \/ ListDirectory \/ TypeChunk \/ PrintLine
    BY <2>3, LookupBase, OpenInputBase, ListDirectoryBase, TypeChunkBase, PrintLineBase
    DEF Lookup, OpenInput, ListDirectory, TypeChunk, PrintLine
  <2> QED
    BY <1>3, <2>1, <2>2, <2>3 DEF Output
<1> QED
  BY <1>1, <1>2, <1>3

(* The job of the steps on one file. *)
LEMMA FileJob ==
    ASSUME Base, ServeFile
    PROVE  UNCHANGED <<job, before, at, limit>> /\ job.op \in OneFile \cup {"all"} /\ pc \notin Loop
<1>1. UNCHANGED <<job, before, at, limit>>
  BY DEF ServeFile, FindSource, Prepare, ScratchOld, Duplicate, OpenSource, CreateCopy, Stream, Finish,
     RemoveSource, RenameFile, Combine, Keep, jobVars, historyVars
<1>2. pc \in {"find", "prepare", "scratch", "duplicate", "open", "create", "stream", "finish", "remove",
              "rename", "combine"}
  BY DEF ServeFile, FindSource, Prepare, ScratchOld, Duplicate, OpenSource, CreateCopy, Stream, Finish,
     RemoveSource, RenameFile, Combine
<1> QED
  BY <1>1, <1>2 DEF Base, Staged, Ops, OneFile, CopyStages, Printing, Loop

LEMMA StreamFiles ==
    ASSUME Base, Stream
    PROVE  \A p \in Places : p # job.dst => files'[p] = files[p]
<1>1. pc = "stream" /\ chan[3].place = job.dst
  BY DEF Stream, Base, Usage, Writes, Writing3
<1>2. FilesT(files) /\ chan[2].data \in Seq(Chunks)
  BY DEF Base, ShellType, ChannelsT, ChannelT, Files
<1>3. CASE files' = files
  BY <1>3
<1>4. CASE chan[2].data # <<>> /\ files' = Stored(3, Head(chan[2].data))
  <2>1. PICK c \in Chunks : c = Head(chan[2].data) /\ files' = Stored(3, c)
    BY <1>2, <1>4
  <2> QED
    BY <1>1, <1>2, <2>1, StoredTyped
<1> QED
  BY <1>3, <1>4, StreamBase

LEMMA FileAll ==
    ASSUME Base, Residency, ContentsInv, AllSoFar, ServeFile
    PROVE  AllSoFar'
<1>1. UNCHANGED <<job, before, at, limit>> /\ pc \notin Loop
  BY FileJob
<1>2. SUFFICES ASSUME job.op = "all", pc' # "shell" PROVE AllSoFar'
  BY <1>1, NotAll
<1>3. CASE FindSource \/ Prepare \/ ScratchOld
  <2>1. Prepared \in {"rename", "combine", "open", "duplicate"}
    BY <1>2, PreparedIs
  <2>2. pc' \notin Loop
    BY <1>2, <1>3, <2>1 DEF FindSource, Prepare, ScratchOld, Goto, End, Loop
  <2>3. \A p \in Places : p # job.dst => files'[p] = files[p]
    BY <1>3, FindSourceBase, PrepareBase, ScratchOldBase, WithoutTyped, FilesOfJob
  <2> QED
    BY <1>1, <2>2, <2>3, AllWithin
<1>4. CASE OpenSource \/ CreateCopy \/ Stream
  <2>1. pc' \notin Loop
    BY <1>2, <1>4, OpenSourceBase, CreateCopyBase, StreamBase DEF Loop
  <2>2. \A p \in Places : p # job.dst => files'[p] = files[p]
    BY <1>4, OpenSourceBase, CreateCopyBase, StreamFiles DEF Leaves
  <2> QED
    BY <1>1, <2>1, <2>2, AllWithin
<1>5. CASE Finish
  <2>1. pc' = "next"
    BY <1>2, <1>5, FinishDoes, CopiedIs
  <2>2. /\ \A p \in Places : p # job.dst => files'[p] = files[p]
        /\ Contents(files', job.dst) = Contents(before, job.src)
    BY <1>2, <1>5, FinishDoes
  <2> QED
    BY <1>1, <2>1, <2>2, AllCopied
<1>6. CASE Duplicate \/ RemoveSource \/ RenameFile \/ Combine
  BY <1>2, <1>6, DuplicateBase, RemoveSourceBase, RenameFileBase, CombineBase
<1> QED
  BY <1>3, <1>4, <1>5, <1>6 DEF ServeFile

(* The steps with which a command on one file ends well. *)
LEMMA CopyDone ==
    ASSUME Base, Residency, ContentsInv, Duplicate \/ Finish, pc' = "shell", result' = "done"
    PROVE  WorkDone'
<1>1. /\ Copied /\ UNCHANGED <<job, before>> /\ job.op \in {"copy", "move", "all"}
      /\ Contents(before, job.src) # {} /\ Contents(files', job.dst) = Contents(before, job.src)
  <2>1. CASE Duplicate
    BY <2>1, DuplicateDoes
  <2>2. CASE Finish
    <3>1. job.op \in {"copy", "move", "all"}
      BY <2>2, CopyJob DEF Finish, CopyOps
    <3> QED
      BY <2>2, <3>1, FinishDoes
  <2> QED
    BY <2>1, <2>2
<1>2. job.op = "copy"
  BY <1>1, CopiedIs
<1>3. Copies' /\ job'.op = "copy"
  BY <1>1, <1>2 DEF Copies, Contents
<1> QED
  BY <1>3, WorkNext

LEMMA MoveDone ==
    ASSUME Base, ContentsInv, RemoveSource, result' = "done"
    PROVE  WorkDone'
<1>1. /\ pc = "remove" /\ UNCHANGED <<job, before>> /\ job.op = "move"
      /\ files' = Without(files, {job.src})
  BY RemoveSourceBase DEF RemoveSource, Keep, jobVars, historyVars
<1>2. /\ job.src \in Places /\ job.dst \in Places /\ job.src # job.dst
      /\ Contents(before, job.src) # {} /\ Contents(files, job.dst) = Contents(before, job.src)
  BY <1>1, FilesOfJob DEF ContentsInv, Streamed, OneFile, CopyOps
<1>3. files'[job.dst] = files[job.dst]
  BY <1>1, <1>2, WithoutTyped, FilesOfJob
<1>4. Contents(files', job.dst) = Contents(before, job.src)
  BY <1>2, <1>3, SameContents
<1>5. Copies' /\ job'.op = "move"
  BY <1>1, <1>2, <1>4 DEF Copies, Contents
<1> QED
  BY <1>5, WorkNext

LEMMA RenameDone ==
    ASSUME Base, ContentsInv, RenameFile, result' = "done"
    PROVE  WorkDone'
<1>1. /\ pc = "rename" /\ UNCHANGED <<job, before>> /\ job.op = "rename"
      /\ files' = Renamed(files, job.src, job.dst)
  BY RenameFileBase DEF RenameFile, Keep, jobVars, historyVars
<1>2. /\ job.src \in Places /\ job.dst \in Places /\ job.src # job.dst
      /\ files[job.src] = before[job.src]
      /\ Dev(job.src) = Dev(job.dst) /\ FilesT(files)
  BY <1>1, FilesOfJob DEF ContentsInv, Untouched, OneFile, Base, Jobs
<1>3. files'[job.dst] = before[job.src] /\ files'[job.src] = {}
  BY <1>1, <1>2, RenamedTyped
<1>4. job'.op = "rename" /\ (files[job.dst] = before[job.src] /\ ~Exists(job.src))'
  BY <1>1, <1>3 DEF Exists
<1> QED
  BY <1>4, WorkNext

LEMMA ConcatDone ==
    ASSUME Base, ContentsInv, Combine, result' = "done"
    PROVE  WorkDone'
<1>1. /\ pc = "combine" /\ UNCHANGED <<job, before>> /\ job.op = "concat"
      /\ files' = [files EXCEPT ![job.dst] = {New(Joined(files, job.sources))}]
      /\ MayRead(job.sources[1]) /\ MayRead(job.sources[2])
      /\ Dev(job.dst) # Cart => ~Exists(job.dst)
  BY CombineBase DEF Combine, Keep, jobVars, historyVars
<1>2. /\ job.dst \in Places /\ job.sources[1] \in Places /\ job.sources[2] \in Places
      /\ FilesT(files)
  BY <1>1, FilesOfJob DEF Base, Jobs, OneFile
<1>3. Joined(files, job.sources) \in Seq(Chunks)
  BY <1>1, <1>2, JoinedTyped DEF MayRead
<1>4. files'[job.dst] = {New(Joined(files, job.sources))}
  BY <1>1, <1>2, FilesOfJob
<1>5. Contents(files', job.dst) = {Joined(files, job.sources)}
  BY <1>3, <1>4, NewContents
<1>6. ASSUME NEW p \in Places, MayRead(p) PROVE files[p] = before[p]
  <2>1. CASE Dev(job.dst) = Cart
    BY <1>1, <2>1 DEF ContentsInv, Untouched, OneFile
  <2>2. CASE Dev(job.dst) # Cart
    <3>1. p # job.dst
      BY <1>1, <1>6, <2>2 DEF MayRead, Contents, Exists
    <3> QED
      BY <1>1, <3>1 DEF ContentsInv, Untouched, OneFile
  <2> QED
    BY <2>1, <2>2
<1>7. Joined(files, job.sources) = Joined(before, job.sources)
  <2>1. files[job.sources[1]] = before[job.sources[1]] /\ files[job.sources[2]] = before[job.sources[2]]
    BY <1>1, <1>2, <1>6
  <2>2. /\ Contents(files, job.sources[1]) = Contents(before, job.sources[1])
        /\ Contents(files, job.sources[2]) = Contents(before, job.sources[2])
    BY <2>1, SameContents
  <2>3. /\ Old(files, job.sources[1]) = Old(before, job.sources[1])
        /\ Old(files, job.sources[2]) = Old(before, job.sources[2])
    BY <2>2 DEF Old
  <2> QED
    BY <2>3 DEF Joined
<1>8. /\ Contents(files, job.dst)' = Contents(files', job.dst)
      /\ Joined(before, job.sources)' = Joined(before, job.sources)
  BY <1>1 DEF Contents, Joined, Old
<1>9. job'.op = "concat" /\ (Contents(files, job.dst) = {Joined(before, job.sources)})'
  BY <1>1, <1>5, <1>7, <1>8
<1> QED
  BY <1>9, WorkNext

(* The steps on one file, on many files, and with output to a file. *)
LEMMA FileWork ==
    ASSUME Base, Residency, ContentsInv, WorkInv, ServeFile
    PROVE  WorkInv'
<1>1. job'.op \notin {"delete", "redirect"}
  BY FileJob DEF OneFile
<1>2. AllSoFar'
  BY FileAll DEF WorkInv
<1>3. Unfinished'
  BY NotYet DEF WorkInv, Unfinished
<1>4. ASSUME pc' = "shell", result' = "done" PROVE WorkDone'
  <2>1. ~(FindSource \/ Prepare \/ ScratchOld \/ OpenSource \/ CreateCopy \/ Stream)
    <3>1. CASE FindSource \/ Prepare \/ ScratchOld
      <4>1. job.op \in OneFile \cup {"all"}
        BY FileJob
      <4>2. Prepared # "shell"
        BY <4>1, PreparedIs DEF OneFile
      <4> QED
        BY <1>4, <3>1, <4>2 DEF FindSource, Prepare, ScratchOld, Goto, End
    <3>2. CASE OpenSource \/ CreateCopy \/ Stream
      BY <1>4, <3>2, OpenSourceBase, CreateCopyBase, StreamBase
    <3> QED
      BY <3>1, <3>2
  <2> QED
    BY <1>4, <2>1, CopyDone, MoveDone, RenameDone, ConcatDone DEF ServeFile
<1> QED
  BY <1>1, <1>2, <1>3, <1>4, NotDelete, NotRedirect DEF WorkInv, Succeeded

LEMMA FilesWork ==
    ASSUME Base, CacheInv, ContentsInv, WorkInv, ServeFiles
    PROVE  WorkInv'
<1>1. Unfinished'
  BY NotYet DEF WorkInv, Unfinished
<1>2. CASE ListAll \/ NextFile \/ PickFile
  <2>1. job'.op = "all"
    BY <1>2, ListAllBase, NextFileBase, PickFileBase DEF ListAll, NextFile, Keep, jobVars
  <2>2. AllSoFar'
    BY <1>2, AllLoop DEF WorkInv
  <2>3. Succeeded'
    BY <1>2, ListAllBase, AllDone DEF WorkInv, Succeeded
  <2> QED
    BY <1>1, <2>1, <2>2, <2>3, NotDelete, NotRedirect DEF WorkInv
<1>3. CASE Check \/ Snapshot \/ Ask \/ DeleteFile \/ EraseAll
  <2>1. job.op = "delete" /\ job'.op = "delete"
    <3>1. job.op = "delete"
      BY <1>3, DeleteStages
    <3> QED
      BY <1>3, <3>1 DEF Check, Snapshot, Ask, DeleteFile, EraseAll, Keep, jobVars, Base, Jobs
  <2>2. AskedSoFar'
    <3>1. EraseAll => pc' = "shell"
      BY EraseAllBase
    <3> QED
      BY <1>3, <3>1, CheckAsked, AskAsked, DeleteAsked, NotDelete DEF WorkInv
  <2>3. Succeeded'
    <3>1. ASSUME Check \/ Snapshot \/ DeleteFile, pc' = "shell" PROVE result' # "done"
      BY <3>1 DEF Check, Snapshot, DeleteFile, Goto, End
    <3> QED
      BY <1>3, <3>1, DeleteDone DEF WorkInv, Succeeded
  <2> QED
    BY <1>1, <2>1, <2>2, <2>3, NotAll, NotRedirect DEF WorkInv
<1> QED
  BY <1>2, <1>3 DEF ServeFiles

LEMMA OutputWork ==
    ASSUME Base, WorkInv, Output
    PROVE  WorkInv'
<1>1. job.op = "redirect" /\ UNCHANGED job
  <2>1. UNCHANGED job
    BY ResolveBase, TargetBase, TruncateBase, OpenOutputBase, LookupBase, OpenInputBase,
       ListDirectoryBase, TypeChunkBase, PrintLineBase, CloseOutputBase DEF Output, PrintingStep
  <2>2. pc \in Printing \cup {"resolve", "target", "truncate", "output"}
    BY DEF Output, Resolve, Target, Truncate, OpenOutput, Lookup, OpenInput, ListDirectory,
       TypeChunk, PrintLine, CloseOutput, Printing
  <2> QED
    BY <2>1, <2>2, OutputJob
<1>2. OutputSoFar'
  BY <1>1, CloseOutputBase, TargetOutput, OpenOutputOutput, AskingOutput, TypingOutput, PrintingOutput,
     OutputEnds DEF WorkInv, Output
<1>3. Unfinished'
  BY NotYet DEF WorkInv, Unfinished
<1>4. Succeeded'
  <2>1. ASSUME pc' = "shell", result' = "done" PROVE CloseOutput
    <3>1. CASE Resolve \/ Target \/ Truncate \/ OpenOutput
      BY <2>1, <3>1, ResolveBase, TargetBase, TruncateBase, OpenOutputBase
    <3>2. CASE Lookup \/ OpenInput \/ ListDirectory \/ TypeChunk \/ PrintLine
      BY <2>1, <3>2, LookupBase, OpenInputBase, ListDirectoryBase, TypeChunkBase, PrintLineBase
    <3> QED
      BY <3>1, <3>2 DEF Output
  <2> QED
    BY <2>1, OutputDone DEF WorkInv, Succeeded
<1> QED
  BY <1>1, <1>2, <1>3, <1>4, NotAll, NotDelete DEF WorkInv

LEMMA WorkStep ==
    ASSUME ShellInv, Residency, ContentsInv, WorkInv, [Next]_shellVars
    PROVE  WorkInv'
<1>1. Base /\ CacheInv
  BY DEF ShellInv
<1>2. CASE Restart
  <2>1. /\ pc' = "shell" /\ UNCHANGED <<files, job, before, asked>>
        /\ (pc = "shell" => UNCHANGED result) /\ (pc # "shell" => result' = "lost")
    BY <1>1, <1>2, RestartBase
  <2>2. WorkDone' = WorkDone
    BY <2>1 DEF WorkDone, Contents, Exists, Matching, Before, Printed, Joined, Old
  <2> QED
    BY <2>1, <2>2, NotAll, NotDelete, OutputEnds DEF WorkInv, Succeeded, Unfinished
<1>3. CASE UNCHANGED shellVars
  <2>1. UNCHANGED <<files, chan, entries, pc, job, at, limit, ok, result, before, asked>>
    BY <1>3 DEF shellVars, channelVars, cacheVars, commandsVars, jobVars, historyVars
  <2>2. WorkDone' = WorkDone
    BY <2>1 DEF WorkDone, Contents, Exists, Matching, Before, Printed, Joined, Old
  <2>3. Unfinished' /\ Succeeded'
    BY <2>1, <2>2 DEF WorkInv, Unfinished, Succeeded
  <2>4. AllSoFar'
    BY <2>1 DEF WorkInv, AllSoFar, Every, Rank, Passed, There, Wanted, Contents, Listing
  <2>5. AskedSoFar'
    BY <2>1 DEF WorkInv, AskedSoFar, Matching, Answered, Exists
  <2>6. OutputSoFar'
    <3>1. Before(job.dst)' = Before(job.dst) /\ Printed' = Printed
      BY <2>1, SameAnswers
    <3>2. /\ Complete(chan[5].data)' = Complete(chan[5].data)
          /\ Complete(chan[5].data \o chan[2].data)' = Complete(chan[5].data \o chan[2].data)
      BY <2>1, <3>1 DEF Complete
    <3>3. Shown5' = Shown5
      BY <2>1 DEF Shown5
    <3> QED
      BY <2>1, <3>1, <3>2, <3>3 DEF WorkInv, OutputSoFar
  <2> QED
    BY <2>3, <2>4, <2>5, <2>6 DEF WorkInv
<1> QED
  BY <1>1, <1>2, <1>3, BegunWork, FileWork, FilesWork, OutputWork DEF Next

LEMMA WorkHolds == Spec => []WorkInv
<1>1. Init => Residency /\ ContentsInv /\ WorkInv
  <2>1. Init => Residency /\ ContentsInv
    BY InitBase DEF Residency, NoCommand, CopyOps, ContentsInv, Untouched, Streamed, AllKept, Lasting,
       MoveKeepsContents, CartridgeKeepsOld, OneFile
  <2>2. Init => pc = "shell" /\ result = "none" /\ job.op = "none"
    BY DEF Init, NoCommand
  <2>3. Init => WorkInv
    BY <2>2 DEF WorkInv, AllSoFar, AskedSoFar, OutputSoFar, Unfinished, Succeeded
  <2> QED
    BY <2>1, <2>3
<1>2. ShellInv /\ ShellInv' /\ Residency /\ [Next]_shellVars => Residency'
  BY ResidencyNext
<1>3. ShellInv /\ ShellInv' /\ Residency /\ ContentsInv /\ [Next]_shellVars => ContentsInv'
  BY ContentsNext
<1>4. ShellInv /\ Residency /\ ContentsInv /\ WorkInv /\ [Next]_shellVars => WorkInv'
  BY WorkStep
<1> QED
  BY <1>1, <1>2, <1>3, <1>4, ShellInvHolds, PTL DEF Spec

(***************************************************************************)
(* filemgmt.c and core.c's execute(): a command that ends without an error *)
(* has done all of its work.  A copy is whole; every match of a wildcard   *)
(* has been copied, or asked about and deleted just if the answer was yes; *)
(* the file after ">" holds all of the output.                             *)
(***************************************************************************)
THEOREM SuccessMeansDone == Spec => []SuccessIsReal
<1>1. WorkInv => SuccessIsReal
  BY DEF WorkInv, Unfinished, Succeeded, SuccessIsReal
<1> QED
  BY <1>1, WorkHolds, PTL

================================================================================
