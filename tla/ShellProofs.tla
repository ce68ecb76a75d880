------------------------------ MODULE ShellProofs ------------------------------
(***************************************************************************)
(* What the shell's file commands keep, for any drives, any files, and     *)
(* devices that may fail at every request: the directory cache, the        *)
(* channels of a copy, and the contents of the files a command was not     *)
(* asked to give up.                                                       *)
(***************************************************************************)
EXTENDS Shell, TLAPS, SequenceTheorems, FiniteSetTheorems, WellFoundedInduction

-----------------------------------------------------------------------------
(* Types                                                                   *)

FileT == [data: Seq(Chunks), closed: BOOLEAN, locked: BOOLEAN]

ChannelT ==
    [mode: {"closed", "read", "write"}, place: Places \cup {<<>>}, data: Seq(Chunks),
     live: BOOLEAN, bad: BOOLEAN]

(* A place has at most one file, and the cartridge none that is unclosed.  *)
FilesT(fs) ==
    /\ fs \in [Places -> SUBSET FileT]
    /\ \A p \in Places : \A x, y \in fs[p] : x = y
    /\ \A p \in Places : Dev(p) = Cart => \A x \in fs[p] : x.closed

ChannelsT(cs) ==
    /\ cs \in [Files -> ChannelT]
    /\ \A f \in Files : cs[f].mode # "closed" => cs[f].place \in Places

DrivesT == cmddev \in [{0, 1} -> {0} \cup Disks] /\ cmdslot \in {0, 1}

CacheT == entries \subseteq Nat /\ cachedev \in Devices /\ cachevalid \in BOOLEAN

ShellType ==
    /\ FilesT(files) /\ FilesT(before) /\ ChannelsT(chan) /\ DrivesT /\ CacheT
    /\ at \in Nat /\ limit \in Nat /\ ok \in BOOLEAN

-----------------------------------------------------------------------------
(* What a request does, whatever it is for.                                *)

(* Every place is on a device. *)
LEMMA DevOfPlace ==
    /\ \A p \in Places : Dev(p) \in Devices /\ p[2] \in Nat /\ p = <<Dev(p), p[2]>> /\ p # <<>>
    /\ Devices \subseteq Nat /\ Cart \in Devices
BY ChannelsAssumption DEF Devices, Dev, Cart

(* A channel that changes hands, or a file, but for its end. *)
SameUse(c, d) == c.mode = d.mode /\ c.place = d.place /\ c.data = d.data /\ c.bad = d.bad

NoWriter(cs) == \A f \in Files : cs[f].mode # "write"

LEMMA CutEffect ==
    ASSUME NEW cs, ChannelsT(cs), NEW d
    PROVE  /\ ChannelsT(Cut(cs, d))
           /\ \A f \in Files : /\ SameUse(Cut(cs, d)[f], cs[f])
                               /\ Cut(cs, d)[f].live = (cs[f].live /\ ~On(cs[f], d))
<1>1. ASSUME NEW f \in Files
      PROVE  /\ Cut(cs, d)[f] \in ChannelT
             /\ SameUse(Cut(cs, d)[f], cs[f])
             /\ Cut(cs, d)[f].live = (cs[f].live /\ ~On(cs[f], d))
  <2>1. cs[f] \in ChannelT
    BY DEF ChannelsT
  <2>2. PICK b \in BOOLEAN : b = (cs[f].live /\ ~On(cs[f], d))
    OBVIOUS
  <2>3. Cut(cs, d)[f] = [cs[f] EXCEPT !.live = b]
    BY <2>2 DEF Cut
  <2>4. [cs[f] EXCEPT !.live = b] \in ChannelT /\ [cs[f] EXCEPT !.live = b].live = b
    BY <2>1 DEF ChannelT
  <2>5. SameUse([cs[f] EXCEPT !.live = b], cs[f])
    BY <2>1 DEF ChannelT, SameUse
  <2> QED
    BY <2>2, <2>3, <2>4, <2>5
<1>2. Cut(cs, d) = [f \in Files |-> Cut(cs, d)[f]]
  BY DEF Cut
<1>3. Cut(cs, d) \in [Files -> ChannelT]
  BY <1>1, <1>2
<1>4. \A f \in Files : Cut(cs, d)[f].mode # "closed" => Cut(cs, d)[f].place \in Places
  BY <1>1 DEF SameUse, ChannelsT
<1> QED
  BY <1>1, <1>3, <1>4 DEF ChannelsT

LEMMA BeheadedEffect ==
    ASSUME NEW fs, FilesT(fs), NEW cs, NEW d
    PROVE  /\ FilesT(Beheaded(fs, cs, d))
           /\ \A p \in Places : Beheaded(fs, cs, d)[p] = {} <=> fs[p] = {}
           /\ NoWriter(cs) => Beheaded(fs, cs, d) = fs
           /\ d = 0 => Beheaded(fs, cs, d) = fs
<1>. DEFINE g == Beheaded(fs, cs, d)
<1>1. ASSUME NEW p \in Places
      PROVE  g[p] = fs[p] \/ g[p] = {[x EXCEPT !.closed = TRUE] : x \in fs[p]}
  BY DEF Beheaded
<1>2. ASSUME NEW p \in Places
      PROVE  /\ g[p] \in SUBSET FileT /\ \A x, y \in g[p] : x = y
             /\ Dev(p) = Cart => \A x \in g[p] : x.closed
             /\ g[p] = {} <=> fs[p] = {}
  <2>1. fs[p] \in SUBSET FileT /\ \A x, y \in fs[p] : x = y
    BY DEF FilesT
  <2>2. CASE g[p] = fs[p]
    BY <2>1, <2>2 DEF FilesT
  <2>3. CASE g[p] = {[x EXCEPT !.closed = TRUE] : x \in fs[p]}
    <3>1. \A x \in FileT : [x EXCEPT !.closed = TRUE] \in FileT /\ [x EXCEPT !.closed = TRUE].closed
      BY DEF FileT
    <3> QED
      BY <2>1, <2>3, <3>1
  <2> QED
    BY <1>1, <2>2, <2>3
<1>3. g = [p \in Places |-> g[p]]
  BY DEF Beheaded
<1>4. FilesT(g)
  BY <1>2, <1>3 DEF FilesT
<1>5. ASSUME NoWriter(cs) \/ d = 0 PROVE g = fs
  BY <1>5 DEF NoWriter, On, Beheaded, FilesT
<1> QED
  BY <1>2, <1>4, <1>5

(* The command channels. *)
LEMMA UseStatusEffect ==
    ASSUME DrivesT, NEW dev \in Devices, NEW opened \in BOOLEAN, UseStatus(dev, opened)
    PROVE  /\ DrivesT'
           /\ Resident(dev) => UNCHANGED commandVars /\ Evicted(dev) = 0
           /\ opened => Resident(dev)'
           /\ ~Resident(dev) => /\ Evicted(dev) = cmddev[cmdslot] /\ cmddev'[1 - cmdslot] = cmddev[1 - cmdslot]
                                /\ cmdslot' = 1 - cmdslot /\ dev # Cart
                                /\ cmddev'[cmdslot] \in {0, dev} /\ (opened => cmddev'[cmdslot] = dev)
<1>1. CASE Resident(dev)
  BY <1>1 DEF UseStatus, commandVars, Evicted, DrivesT, Resident
<1>2. CASE ~Resident(dev)
  BY <1>2 DEF Resident, Devices, UseStatus, NextSlot, Evicted, DrivesT
<1> QED
  BY <1>1, <1>2

LEMMA StatusEffect ==
    ASSUME DrivesT, NEW dev \in Devices, NEW fs, FilesT(fs), NEW cs, ChannelsT(cs),
           Status(dev, fs, cs)
    PROVE  /\ DrivesT' /\ FilesT(files') /\ ChannelsT(chan')
           /\ \A f \in Files : SameUse(chan'[f], cs[f])
           /\ \A p \in Places : files'[p] = {} <=> fs[p] = {}
           /\ NoWriter(cs) \/ Resident(dev) => files' = fs
           /\ Resident(dev)'
<1>1. UseStatus(dev, TRUE) /\ files' = Beheaded(fs, cs, Evicted(dev)) /\ chan' = Cut(cs, Evicted(dev))
  BY DEF Status
<1>2. Resident(dev) => Evicted(dev) = 0
  BY DEF Evicted
<1>3. DrivesT' /\ Resident(dev)'
  BY <1>1, UseStatusEffect
<1>4. ChannelsT(chan') /\ \A f \in Files : SameUse(chan'[f], cs[f])
  BY <1>1, CutEffect
<1>5. /\ FilesT(files') /\ \A p \in Places : files'[p] = {} <=> fs[p] = {}
      /\ NoWriter(cs) \/ Resident(dev) => files' = fs
  BY <1>1, <1>2, BeheadedEffect
<1> QED
  BY <1>3, <1>4, <1>5

LEMMA NotReadyEffect ==
    ASSUME DrivesT, FilesT(files), NEW dev \in Devices, NEW cs, ChannelsT(cs), NotReady(dev, cs)
    PROVE  /\ DrivesT' /\ FilesT(files') /\ ChannelsT(chan')
           /\ \A f \in Files : SameUse(chan'[f], cs[f])
           /\ \A p \in Places : files'[p] = {} <=> files[p] = {}
           /\ NoWriter(cs) \/ Resident(dev) => files' = files
<1>1. PICK opened \in BOOLEAN : UseStatus(dev, opened)
  BY DEF NotReady
<1>2. files' = Beheaded(files, cs, Evicted(dev)) /\ chan' = Cut(cs, Evicted(dev))
  BY DEF NotReady
<1>3. Resident(dev) => Evicted(dev) = 0
  BY DEF Evicted
<1> QED
  BY <1>1, <1>2, <1>3, UseStatusEffect, CutEffect, BeheadedEffect

-----------------------------------------------------------------------------
(***************************************************************************)
(* A listing has its entries in order, as many as there are: the i-th is   *)
(* the one with i smaller names.                                           *)
(***************************************************************************)
Below(list, n) == {m \in list : m < n}

LEMMA BelowCounts ==
    ASSUME NEW list, list \subseteq Nat, IsFiniteSet(list), NEW n \in list
    PROVE  /\ IsFiniteSet(Below(list, n)) /\ Cardinality(Below(list, n)) \in Nat
           /\ Cardinality(Below(list, n)) < Cardinality(list)
           /\ \A m \in list : m < n => Cardinality(Below(list, m)) < Cardinality(Below(list, n))
<1>1. IsFiniteSet(Below(list, n)) /\ Cardinality(Below(list, n)) \in Nat
  BY FS_Subset, FS_CardinalityType DEF Below
<1>2. Cardinality(Below(list, n)) < Cardinality(list)
  BY <1>1, FS_Subset, FS_CardinalityType DEF Below
<1>3. ASSUME NEW m \in list, m < n
      PROVE  Cardinality(Below(list, m)) < Cardinality(Below(list, n))
  <2>0. m \in Nat /\ n \in Nat /\ \A j \in list : j \in Nat
    OBVIOUS
  <2>1. Below(list, m) \in SUBSET Below(list, n) /\ m \notin Below(list, m) /\ m \in Below(list, n)
    <3>1. \A j \in list : j < m => j < n
      BY <1>3, <2>0
    <3>2. ~(m < m)
      BY <2>0
    <3> QED
      BY <1>3, <3>1, <3>2 DEF Below
  <2>2. /\ IsFiniteSet(Below(list, m)) /\ Cardinality(Below(list, m)) <= Cardinality(Below(list, n))
        /\ Cardinality(Below(list, n)) # Cardinality(Below(list, m))
    BY <1>1, <2>1, FS_Subset
  <2>3. Cardinality(Below(list, m)) \in Nat
    BY <2>2, FS_CardinalityType
  <2> QED
    BY <1>1, <2>2, <2>3
<1> QED
  BY <1>1, <1>2, <1>3

(* The least of some numbers. *)
LEMMA Least ==
    ASSUME NEW S, S \subseteq Nat, S # {}
    PROVE  \E n \in S : \A m \in S : n <= m
<1>1. IsWellFoundedOn(OpToRel(<, Nat), Nat)
  BY NatLessThanWellFounded
<1>2. PICK n \in S : \A m \in S : ~(<<m, n>> \in OpToRel(<, Nat))
  BY <1>1, WFMin
<1>3. \A m \in S : m \in Nat /\ n \in Nat /\ ~(m < n)
  BY <1>2 DEF OpToRel
<1>4. \A m \in S : n <= m
  BY <1>3
<1> QED
  BY <1>4

LEMMA EntryExists ==
    ASSUME NEW list, list \subseteq Nat, IsFiniteSet(list), NEW i \in Nat, i < Cardinality(list)
    PROVE  \E n \in list : Cardinality(Below(list, n)) = i
<1>. DEFINE Missing == {k \in Nat : k < Cardinality(list) /\ ~\E n \in list : Cardinality(Below(list, n)) = k}
<1>1. SUFFICES ASSUME i \in Missing PROVE FALSE
  OBVIOUS
<1>2. PICK k \in Missing : \A m \in Missing : k <= m
  BY <1>1, Least
<1>3. Cardinality(list) \in Nat /\ \A m \in list : m \in Nat
  BY FS_CardinalityType
<1>4. CASE k = 0
  <2>1. list # {}
    BY <1>2, <1>3, <1>4, FS_EmptySet
  <2>2. PICK n \in list : \A m \in list : n <= m
    BY <2>1, Least
  <2>3. Below(list, n) = {}
    <3>1. \A m \in list : ~(m < n)
      BY <1>3, <2>2
    <3> QED
      BY <3>1 DEF Below
  <2> QED
    BY <1>2, <1>4, <2>3, FS_EmptySet
<1>5. CASE k # 0
  <2>1. k - 1 \in Nat /\ k - 1 \notin Missing /\ k - 1 < Cardinality(list)
    BY <1>2, <1>3, <1>5
  <2>2. PICK n \in list : Cardinality(Below(list, n)) = k - 1
    BY <2>1
  <2>. DEFINE upto == Below(list, n) \cup {n}
  <2>3. n \notin Below(list, n) /\ IsFiniteSet(Below(list, n))
    <3>1. ~(n < n)
      BY <1>3
    <3> QED
      BY <3>1, BelowCounts DEF Below
  <2>4. IsFiniteSet(upto) /\ Cardinality(upto) = k
    BY <1>2, <2>2, <2>3, FS_AddElement
  <2>5. upto \subseteq list /\ upto # list
    <3>1. upto \subseteq list
      BY DEF Below
    <3>2. Cardinality(upto) # Cardinality(list)
      BY <1>2, <1>3, <2>4
    <3> QED
      BY <3>1, <3>2
  <2>6. PICK m \in list \ upto : \A j \in list \ upto : m <= j
    BY <2>5, Least
  <2>7. Below(list, m) = upto
    <3>1. \A j \in list : j \in upto <=> j <= n
      BY <1>3 DEF Below
    <3>2. m > n
      BY <1>3, <2>6, <3>1
    <3>3. \A j \in list : j < m <=> j <= n
      BY <1>3, <2>6, <3>1, <3>2
    <3>4. upto \subseteq list
      BY <2>5
    <3>. HIDE DEF upto
    <3> QED
      BY <3>1, <3>3, <3>4 DEF Below
  <2> QED
    BY <1>2, <2>4, <2>6, <2>7
<1> QED
  BY <1>4, <1>5

LEMMA EntryIs ==
    ASSUME NEW list, list \subseteq Nat, IsFiniteSet(list), NEW i \in Nat, i < Cardinality(list)
    PROVE  /\ EntryAt(list, i) \in list
           /\ Cardinality(Below(list, EntryAt(list, i))) = i
           /\ \A n \in list : Cardinality(Below(list, n)) = i => n = EntryAt(list, i)
<1>1. EntryAt(list, i) \in list /\ Cardinality(Below(list, EntryAt(list, i))) = i
  <2>1. EntryAt(list, i) = CHOOSE n \in list : Cardinality(Below(list, n)) = i
    BY DEF EntryAt, Below
  <2>2. \E n \in list : Cardinality(Below(list, n)) = i
    BY EntryExists
  <2> QED
    BY <2>1, <2>2
<1>2. ASSUME NEW n \in list, Cardinality(Below(list, n)) = i, n # EntryAt(list, i) PROVE FALSE
  <2>1. n < EntryAt(list, i) \/ EntryAt(list, i) < n
    <3>1. n \in Nat /\ EntryAt(list, i) \in Nat
      BY <1>1
    <3> QED
      BY <1>2, <3>1
  <2>2. n < EntryAt(list, i) => i < i
    BY <1>1, <1>2, BelowCounts
  <2>3. EntryAt(list, i) < n => i < i
    BY <1>1, <1>2, BelowCounts
  <2> QED
    BY <2>1, <2>2, <2>3
<1> QED
  BY <1>1, <1>2

LEMMA FiniteListing ==
    ASSUME NEW fs, NEW dev
    PROVE  /\ Listing(fs, dev) \subseteq Nat /\ IsFiniteSet(Listing(fs, dev))
           /\ Cardinality(Listing(fs, dev)) \in Nat
<1>. DEFINE present == {p \in Places : Dev(p) = dev /\ fs[p] # {}}
            name == [p \in present |-> p[2]]
<1>1. IsFiniteSet(present)
  BY FS_Subset, ChannelsAssumption
<1>2. IsFiniteSet(Listing(fs, dev))
  <2>1. name \in Surjection(present, Listing(fs, dev))
    BY DEF Listing, Surjection
  <2> QED
    BY <1>1, <2>1, FS_Surjection
<1> QED
  BY <1>2, FS_CardinalityType, DevOfPlace DEF Listing

-----------------------------------------------------------------------------
(***************************************************************************)
(* What is being done, and through which channels.                         *)
(***************************************************************************)
CopyStages == {"find", "prepare", "scratch", "open", "create", "stream", "finish"}
Loop == {"list", "next", "pick", "shell"}
Printing == {"lookup", "input", "copy", "listing", "print", "close"}
Writing3 == {"stream", "finish"}

Ops == {"copy", "move", "all", "rename", "concat", "delete", "redirect"}

Staged ==
    /\ pc # "shell" => job.op \in Ops
    /\ job.op = "copy" => pc \in CopyStages \cup {"duplicate", "shell"}
    /\ job.op = "move" => pc \in CopyStages \cup {"duplicate", "remove", "shell"}
    /\ job.op = "all" => pc \in CopyStages \cup Loop
    /\ job.op = "rename" => pc \in {"find", "prepare", "scratch", "rename", "shell"}
    /\ job.op = "concat" => pc \in {"prepare", "scratch", "combine", "shell"}
    /\ job.op = "delete" => pc \in {"check", "snapshot", "ask", "delete", "erase", "shell"}
    /\ job.op = "redirect" =>
         pc \in Printing \cup {"resolve", "target", "truncate", "output", "shell"}

Jobs ==
    /\ job.op \in {"copy", "move", "rename"} =>
         /\ job = [op |-> job.op, src |-> job.src, dst |-> job.dst]
         /\ job.src \in Places /\ job.dst \in Places /\ job.src # job.dst
    /\ job.op = "rename" => Dev(job.src) = Dev(job.dst)
    /\ job.op = "all" =>
         /\ "all" \in Commands
         /\ job = [op |-> "all", src |-> job.src, dst |-> job.dst]
         /\ job.src \in Devices \X Nat /\ job.dst \in Devices \X Nat
         /\ Dev(job.src) # Dev(job.dst)
         /\ pc \notin Loop => job.src \in Places /\ job.dst \in Places /\ job.dst[2] = job.src[2]
    /\ job.op = "concat" =>
         /\ job = [op |-> "concat", sources |-> job.sources, dst |-> job.dst]
         /\ job.sources[1] \in Places /\ job.sources[2] \in Places /\ job.dst \in Places
    /\ job.op = "delete" =>
         /\ job.dev \in Devices /\ job.matches \subseteq Names
         /\ job = [op |-> "delete", dev |-> job.dev, matches |-> job.matches, how |-> job.how,
                   src |-> job.src]
         /\ job.src[1] = job.dev /\ job.src = <<job.src[1], job.src[2]>>
    /\ job.op = "redirect" =>
         /\ job = [op |-> "redirect", kind |-> job.kind, src |-> job.src, dst |-> job.dst,
                   append |-> job.append]
         /\ job.src \in Places /\ job.dst \in Places /\ job.append \in BOOLEAN
         /\ job.kind \in {"type", "dir", "echo"}

(* The cartridge is not asked to make room for a file, or to duplicate one. *)
DiskSteps == pc \in {"scratch", "duplicate"} => Dev(job.dst) # Cart

Reads(f) == chan[f].mode = "read" /\ chan[f].place = job.src
Writes(f) == chan[f].mode = "write" /\ chan[f].place = job.dst
Shut(f) == chan[f].mode = "closed"

Usage ==
    /\ pc \in {"create", "stream", "finish", "copy"} => Reads(2)
    /\ pc \notin {"create", "stream", "finish", "copy", "close"} => Shut(2)
    /\ pc = "close" => chan[2].mode # "write"
    /\ IF pc \in Writing3 THEN Writes(3) ELSE Shut(3)
    /\ IF pc \in Printing THEN Writes(5) ELSE Shut(5)

Base == ShellType /\ Staged /\ Jobs /\ DiskSteps /\ Usage

Quiet(cs) == \A f \in Files : cs[f].mode = "closed"

LEMMA QuietChannels ==
    /\ Usage /\ pc \notin Printing \cup Writing3 \cup {"create"} => Quiet(chan)
    /\ \A cs : Quiet(cs) => NoWriter(cs)
    /\ \A cs, ds : Quiet(cs) /\ (\A f \in Files : SameUse(ds[f], cs[f])) => Quiet(ds)
<1>1. ASSUME Usage, pc \notin Printing \cup Writing3 \cup {"create"} PROVE Quiet(chan)
  BY <1>1 DEF Usage, Quiet, Files, Shut, Printing, Writing3
<1> QED
  BY <1>1 DEF Quiet, NoWriter, SameUse

(* Requests while no file is open. *)
LEMMA QuietRequests ==
    ASSUME ShellType, Quiet(chan), NEW dev \in Devices
    PROVE  /\ Directory(dev) =>
                /\ files' = files /\ Quiet(chan') /\ ChannelsT(chan') /\ DrivesT' /\ CacheT'
                /\ entries' = Listing(files, dev) /\ cachedev' = dev /\ cachevalid' = TRUE
           /\ DirectoryFails(dev) =>
                /\ files' = files /\ Quiet(chan') /\ ChannelsT(chan') /\ DrivesT' /\ CacheT'
                /\ cachevalid' = FALSE
           /\ \A fs : FilesT(fs) /\ CommandDone(dev, fs) =>
                /\ files' = fs /\ Quiet(chan') /\ ChannelsT(chan') /\ DrivesT' /\ CacheT'
                /\ cachevalid' = FALSE
           /\ \A possible : CommandFails(dev, possible) =>
                /\ files' = files /\ Quiet(chan') /\ ChannelsT(chan') /\ DrivesT' /\ CacheT'
                /\ cachevalid' = FALSE \/ UNCHANGED cacheVars
           /\ \A possible, cs : Quiet(cs) /\ ChannelsT(cs) /\ OpenFails(dev, possible, cs) =>
                /\ files' = files /\ Quiet(chan') /\ ChannelsT(chan') /\ DrivesT' /\ CacheT'
                /\ UNCHANGED cacheVars
<1>1. \A fs, cs : FilesT(fs) /\ Quiet(cs) /\ ChannelsT(cs) /\ Status(dev, fs, cs) =>
        files' = fs /\ Quiet(chan') /\ ChannelsT(chan') /\ DrivesT'
  BY StatusEffect, QuietChannels DEF ShellType
<1>2. \A cs : Quiet(cs) /\ ChannelsT(cs) /\ NotReady(dev, cs) =>
        files' = files /\ Quiet(chan') /\ ChannelsT(chan') /\ DrivesT'
  BY NotReadyEffect, QuietChannels DEF ShellType
<1>3. FilesT(files) /\ ChannelsT(chan) /\ CacheT
  BY DEF ShellType
<1>4. Listing(files, dev) \subseteq Nat
  BY DevOfPlace DEF Listing
<1>5. Directory(dev) =>
        /\ files' = files /\ Quiet(chan') /\ ChannelsT(chan') /\ DrivesT' /\ CacheT'
        /\ entries' = Listing(files, dev) /\ cachedev' = dev /\ cachevalid' = TRUE
  BY <1>1, <1>3, <1>4 DEF Directory, CacheT
<1>6. DirectoryFails(dev) =>
        /\ files' = files /\ Quiet(chan') /\ ChannelsT(chan') /\ DrivesT' /\ CacheT'
        /\ cachevalid' = FALSE
  BY <1>2, <1>3 DEF DirectoryFails, CacheT
<1>7. \A fs : FilesT(fs) /\ CommandDone(dev, fs) =>
        /\ files' = fs /\ Quiet(chan') /\ ChannelsT(chan') /\ DrivesT' /\ CacheT'
        /\ cachevalid' = FALSE
  BY <1>1, <1>3 DEF CommandDone, AfterCommand, Forget, CacheT
<1>8. \A possible : CommandFails(dev, possible) =>
        /\ files' = files /\ Quiet(chan') /\ ChannelsT(chan') /\ DrivesT' /\ CacheT'
        /\ cachevalid' = FALSE \/ UNCHANGED cacheVars
  BY <1>2, <1>3, <1>7 DEF CommandFails, cacheVars, CacheT
<1>9. \A possible, cs : Quiet(cs) /\ ChannelsT(cs) /\ OpenFails(dev, possible, cs) =>
        /\ files' = files /\ Quiet(chan') /\ ChannelsT(chan') /\ DrivesT' /\ CacheT'
        /\ UNCHANGED cacheVars
  BY <1>1, <1>2, <1>3 DEF OpenFails, cacheVars, CacheT
<1> QED
  BY <1>5, <1>6, <1>7, <1>8, <1>9

(* What a command leaves in the files. *)
LEMMA NewIsFile ==
    ASSUME NEW data \in Seq(Chunks)
    PROVE  /\ New(data) \in FileT /\ New(data).closed /\ New(data).data = data /\ ~New(data).locked
           /\ \A b \in BOOLEAN : /\ [New(data) EXCEPT !.closed = b] \in FileT
                                 /\ [New(data) EXCEPT !.closed = b].data = data
                                 /\ [New(data) EXCEPT !.closed = b].closed = b
           /\ \A b, l \in BOOLEAN : /\ [New(data) EXCEPT !.closed = b, !.locked = l] \in FileT
                                    /\ [New(data) EXCEPT !.closed = b, !.locked = l].data = data
                                    /\ [New(data) EXCEPT !.closed = b, !.locked = l].closed = b
BY DEF New, FileT

LEMMA PutTyped ==
    ASSUME NEW fs, FilesT(fs), NEW p, NEW x \in FileT, p \in Places /\ Dev(p) = Cart => x.closed
    PROVE  /\ FilesT([fs EXCEPT ![p] = {x}])
           /\ \A q \in Places : q # p => [fs EXCEPT ![p] = {x}][q] = fs[q]
           /\ p \in Places => [fs EXCEPT ![p] = {x}][p] = {x}
<1>. DEFINE g == [fs EXCEPT ![p] = {x}]
<1>1. /\ g = [q \in Places |-> g[q]]
      /\ \A q \in Places : q # p => g[q] = fs[q]
      /\ p \in Places => g[p] = {x}
  BY DEF FilesT
<1>2. ASSUME NEW q \in Places
      PROVE  /\ g[q] \in SUBSET FileT /\ \A y, z \in g[q] : y = z
             /\ Dev(q) = Cart => \A y \in g[q] : y.closed
  <2>1. CASE q = p
    BY <1>1, <2>1
  <2>2. CASE q # p
    <3>1. g[q] = fs[q]
      BY <1>1, <2>2
    <3> QED
      BY <3>1 DEF FilesT
  <2> QED
    BY <2>1, <2>2
<1>. HIDE DEF g
<1>3. g \in [Places -> SUBSET FileT]
  BY <1>1, <1>2
<1>4. FilesT(g)
  BY <1>2, <1>3 DEF FilesT
<1> QED
  BY <1>1, <1>4 DEF g

LEMMA WithoutTyped ==
    ASSUME NEW fs, FilesT(fs), NEW ps
    PROVE  /\ FilesT(Without(fs, ps))
           /\ \A p \in Places : /\ Without(fs, ps)[p] \subseteq fs[p]
                                /\ p \notin ps => Without(fs, ps)[p] = fs[p]
                                /\ \A x \in Without(fs, ps)[p] : p \in ps => x.locked
<1>. DEFINE g == Without(fs, ps)
<1>1. g = [p \in Places |-> {x \in fs[p] : p \in ps => x.locked}]
  BY DEF Without
<1>2. \A p \in Places : g[p] = {x \in fs[p] : p \in ps => x.locked}
  BY <1>1
<1>. HIDE DEF g
<1>3. \A p \in Places : g[p] \subseteq fs[p]
  BY <1>2
<1>4. g \in [Places -> SUBSET FileT]
  BY <1>1, <1>3 DEF FilesT
<1>5. FilesT(g)
  BY <1>3, <1>4 DEF FilesT
<1> QED
  BY <1>2, <1>3, <1>5 DEF g

LEMMA OneContents ==
    ASSUME NEW fs, FilesT(fs), NEW p \in Places
    PROVE  /\ Contents(fs, p) \subseteq Seq(Chunks)
           /\ \A d, e \in Contents(fs, p) : d = e
           /\ Contents(fs, p) # {} =>
                Old(fs, p) \in Seq(Chunks) /\ Contents(fs, p) = {Old(fs, p)}
           /\ Contents(fs, p) # {} => fs[p] # {}
           /\ \A gs : gs[p] = fs[p] => Contents(gs, p) = Contents(fs, p)
<1>1. fs[p] \subseteq FileT /\ \A x, y \in fs[p] : x = y
  BY DEF FilesT
<1>2. \A d : d \in Contents(fs, p) <=> \E x \in fs[p] : x.closed /\ d = x.data
  BY DEF Contents
<1>3. \A x \in FileT : x.data \in Seq(Chunks)
  BY DEF FileT
<1>4. Contents(fs, p) \subseteq Seq(Chunks) /\ \A d, e \in Contents(fs, p) : d = e
  BY <1>1, <1>2, <1>3
<1>5. Contents(fs, p) # {} => Old(fs, p) \in Contents(fs, p)
  BY DEF Old
<1>6. \A gs : gs[p] = fs[p] => Contents(gs, p) = Contents(fs, p)
  BY DEF Contents
<1> QED
  BY <1>2, <1>4, <1>5, <1>6

LEMMA JoinedTyped ==
    ASSUME NEW fs, FilesT(fs), NEW sources, sources[1] \in Places, sources[2] \in Places,
           Contents(fs, sources[1]) # {}, Contents(fs, sources[2]) # {}
    PROVE  Joined(fs, sources) \in Seq(Chunks)
<1>1. Old(fs, sources[1]) \in Seq(Chunks) /\ Old(fs, sources[2]) \in Seq(Chunks)
  BY OneContents
<1> QED
  BY <1>1 DEF Joined

-----------------------------------------------------------------------------
(* Base is inductive: first the steps at which no file is open.            *)
LEMMA QuietStep ==
    ASSUME Base, Quiet(chan'), FilesT(files'), ChannelsT(chan'), DrivesT', CacheT',
           UNCHANGED <<job, ok, before>>, at' \in Nat, limit' \in Nat,
           pc' \notin Printing \cup Writing3 \cup {"create"}, pc # "shell",
           Staged', pc' \in {"scratch", "duplicate"} => Dev(job.dst) # Cart,
           job.op = "all" /\ pc' \notin Loop => pc \notin Loop
    PROVE  Base'
<1>1. ShellType'
  BY DEF Base, ShellType
<1>2. Jobs'
  BY DEF Base, Jobs
<1>3. Usage'
  BY DEF Usage, Quiet, Files, Shut, Printing, Writing3
<1> QED
  BY <1>1, <1>2, <1>3 DEF Base, DiskSteps

(* The devices a job speaks of are devices. *)
LEMMA JobDevices ==
    ASSUME Base
    PROVE  /\ job.op \in {"copy", "move", "rename", "redirect", "all"} =>
                Dev(job.src) \in Devices /\ Dev(job.dst) \in Devices
           /\ job.op = "concat" => Dev(job.dst) \in Devices
           /\ job.op = "delete" => job.dev \in Devices /\ Dev(job.src) = job.dev
BY DevOfPlace DEF Base, Jobs, Dev

LEMMA FindSourceBase ==
    ASSUME Base, FindSource
    PROVE  Base' /\ files' = files /\ Quiet(chan) /\ Quiet(chan')
<1>1. /\ pc = "find" /\ job.op \in {"copy", "move", "all", "rename"} /\ Quiet(chan)
      /\ UNCHANGED <<job, at, limit, ok, before>>
  BY QuietChannels DEF FindSource, Keep, jobVars, historyVars, Base, Staged, Ops, CopyStages,
     Printing, Writing3
<1>2. Dev(job.src) \in Devices
  BY <1>1, JobDevices
<1>3. pc' \in {"prepare", "shell"}
  BY DEF FindSource, Goto, End
<1>4. files' = files /\ Quiet(chan') /\ ChannelsT(chan') /\ DrivesT' /\ CacheT'
  BY <1>1, <1>2, QuietRequests DEF FindSource, Base
<1>5. Staged'
  BY <1>1, <1>3 DEF Base, Staged, CopyStages, Printing, Ops, Loop
<1>6. Base'
  BY <1>1, <1>3, <1>4, <1>5, QuietStep DEF Base, ShellType, Printing, Writing3, Loop
<1> QED
  BY <1>1, <1>4, <1>6

LEMMA PreparedIs ==
    ASSUME Base
    PROVE  /\ job.op = "rename" => Prepared = "rename"
           /\ job.op = "concat" => Prepared = "combine"
           /\ job.op = "all" => Prepared = "open"
           /\ job.op \in {"copy", "move"} => Prepared \in {"duplicate", "open"}
           /\ Prepared # "scratch" /\ (Prepared = "duplicate" => Dev(job.dst) # Cart)
<1>1. job.op = "all" => Dev(job.src) # Dev(job.dst)
  BY DEF Base, Jobs
<1> QED
  BY <1>1 DEF Prepared, SameDisk

LEMMA PrepareBase ==
    ASSUME Base, Prepare
    PROVE  Base' /\ files' = files /\ Quiet(chan) /\ Quiet(chan')
<1>1. /\ pc = "prepare" /\ job.op \in {"copy", "move", "all", "rename", "concat"} /\ Quiet(chan)
      /\ UNCHANGED <<job, at, limit, ok, before>>
  BY QuietChannels DEF Prepare, Keep, jobVars, historyVars, Base, Staged, Ops, CopyStages,
     Printing, Writing3
<1>2. Dev(job.dst) \in Devices
  BY <1>1, JobDevices
<1>3. pc' \in {"scratch", "shell", Prepared} /\ (pc' = "scratch" => Dev(job.dst) # Cart)
  BY PreparedIs DEF Prepare, Goto, End
<1>4. files' = files /\ Quiet(chan') /\ ChannelsT(chan') /\ DrivesT' /\ CacheT'
  BY <1>1, <1>2, QuietRequests DEF Prepare, Base
<1>5. Staged'
  BY <1>1, <1>3, PreparedIs DEF Base, Staged, CopyStages, Printing, Ops, Loop
<1>6. Base'
  BY <1>1, <1>3, <1>4, <1>5, PreparedIs, QuietStep DEF Base, ShellType, Printing, Writing3, Loop
<1> QED
  BY <1>1, <1>4, <1>6

LEMMA ScratchOldBase ==
    ASSUME Base, ScratchOld
    PROVE  /\ Base' /\ Quiet(chan) /\ Quiet(chan')
           /\ files' = files \/ files' = Without(files, {job.dst})
<1>1. /\ pc = "scratch" /\ job.op \in {"copy", "move", "all", "rename", "concat"} /\ Quiet(chan)
      /\ UNCHANGED <<job, at, limit, ok, before>>
  BY QuietChannels DEF ScratchOld, Keep, jobVars, historyVars, Base, Staged, Ops, CopyStages,
     Printing, Writing3
<1>2. Dev(job.dst) \in Devices
  BY <1>1, JobDevices
<1>3. pc' \in {"shell", Prepared}
  BY DEF ScratchOld, Goto, End
<1>4. FilesT(Without(files, {job.dst})) /\ FilesT(files)
  BY WithoutTyped DEF Base, ShellType
<1>5. /\ files' = files \/ files' = Without(files, {job.dst})
      /\ Quiet(chan') /\ ChannelsT(chan') /\ DrivesT' /\ CacheT'
  BY <1>1, <1>2, <1>4, QuietRequests DEF ScratchOld, Base
<1>6. Staged'
  BY <1>1, <1>3, PreparedIs DEF Base, Staged, CopyStages, Printing, Ops, Loop
<1>7. Base'
  BY <1>1, <1>3, <1>4, <1>5, <1>6, PreparedIs, QuietStep DEF Base, ShellType, Printing, Writing3, Loop
<1> QED
  BY <1>1, <1>5, <1>7

LEMMA CopiedIs ==
    ASSUME job.op \in {"copy", "move", "all"}, Copied
    PROVE  \/ job.op = "move" /\ pc' = "remove" /\ UNCHANGED result
           \/ job.op = "copy" /\ pc' = "shell" /\ result' = "done"
           \/ job.op = "all" /\ pc' = "next" /\ UNCHANGED result
BY DEF Copied, Goto, End

(* The outcomes of a duplication within a disk. *)
LEMMA DuplicateBase ==
    ASSUME Base, Duplicate
    PROVE  /\ Base' /\ Quiet(chan) /\ Quiet(chan') /\ job.op \in {"copy", "move"}
           /\ \/ files' = files /\ pc' = "shell" /\ result' = "error"
              \/ /\ Contents(files, job.src) # {} /\ Copied
                 /\ files' = [files EXCEPT ![job.dst] = {New(Old(files, job.src))}]
              \/ /\ pc' = "shell" /\ result' = "error"
                 /\ \E x : files' = [files EXCEPT ![job.dst] = {x}]
<1>1. /\ pc = "duplicate" /\ job.op \in {"copy", "move"} /\ Quiet(chan)
      /\ UNCHANGED <<job, at, limit, ok, before>>
  BY QuietChannels DEF Duplicate, Keep, jobVars, historyVars, Base, Staged, Ops, CopyStages,
     Printing, Writing3, Loop
<1>2. Dev(job.dst) \in Devices /\ job.src \in Places /\ job.dst \in Places /\ FilesT(files)
  BY <1>1, JobDevices DEF Base, Jobs, ShellType
<1>. DEFINE part == [New(<<>>) EXCEPT !.closed = FALSE]
<1>3. CASE /\ Contents(files, job.src) # {} /\ Copied
           /\ CommandDone(Dev(job.dst), [files EXCEPT ![job.dst] = {New(Old(files, job.src))}])
  <2>1. FilesT([files EXCEPT ![job.dst] = {New(Old(files, job.src))}])
    <3>1. Old(files, job.src) \in Seq(Chunks)
      BY <1>2, <1>3, OneContents
    <3> QED
      BY <1>2, <3>1, NewIsFile, PutTyped
  <2>2. /\ files' = [files EXCEPT ![job.dst] = {New(Old(files, job.src))}]
        /\ Quiet(chan') /\ ChannelsT(chan') /\ DrivesT' /\ CacheT'
    BY <1>1, <1>2, <1>3, <2>1, QuietRequests DEF Base
  <2>3. pc' \in {"remove", "shell"} /\ (pc' = "remove" => job.op = "move")
    BY <1>1, <1>3, CopiedIs
  <2>4. Staged'
    BY <1>1, <2>3 DEF Base, Staged, CopyStages, Printing, Ops, Loop
  <2>5. Base'
    BY <1>1, <2>1, <2>2, <2>3, <2>4, QuietStep DEF Base, ShellType, Printing, Writing3, Loop
  <2> QED
    BY <1>1, <1>3, <2>2, <2>5
<1>4. CASE /\ End("error")
           /\ \/ \E possible : CommandFails(Dev(job.dst), possible)
              \/ job.dst \in Places /\ Dev(job.dst) # Cart
                   /\ CommandDone(Dev(job.dst), [files EXCEPT ![job.dst] = {part}])
  <2>1. pc' = "shell" /\ result' = "error" /\ Staged'
    BY <1>1, <1>4 DEF End, Base, Staged, Ops, Loop
  <2>2. Dev(job.dst) # Cart => FilesT([files EXCEPT ![job.dst] = {part}])
    <3>1. part \in FileT
      <4>1. <<>> \in Seq(Chunks) /\ FALSE \in BOOLEAN
        OBVIOUS
      <4> QED
        BY <4>1, NewIsFile
    <3> QED
      BY <1>2, <3>1, PutTyped
  <2>3. /\ Quiet(chan') /\ ChannelsT(chan') /\ DrivesT' /\ CacheT' /\ FilesT(files')
        /\ files' = files \/ files' = [files EXCEPT ![job.dst] = {part}]
    BY <1>1, <1>2, <1>4, <2>2, QuietRequests DEF Base
  <2>4. Base'
    BY <1>1, <2>1, <2>3, QuietStep DEF Base, ShellType, Printing, Writing3, Loop
  <2> QED
    BY <1>1, <2>1, <2>3, <2>4
<1>5. Dev(job.dst) # Cart
  BY <1>1 DEF Base, DiskSteps
<1> QED
  BY <1>2, <1>3, <1>4, <1>5 DEF Duplicate, MayRead

LEMMA RemoveSourceBase ==
    ASSUME Base, RemoveSource
    PROVE  /\ Base' /\ Quiet(chan) /\ Quiet(chan') /\ job.op = "move" /\ pc' = "shell"
           /\ \/ files' = files /\ result' = "error"
              \/ files' = Without(files, {job.src}) /\ MayScratch({job.src}) /\ result' = "done"
<1>1. /\ pc = "remove" /\ job.op = "move" /\ Quiet(chan)
      /\ UNCHANGED <<job, at, limit, ok, before>>
  BY QuietChannels DEF RemoveSource, Keep, jobVars, historyVars, Base, Staged, Ops, CopyStages,
     Printing, Writing3, Loop
<1>2. Dev(job.src) \in Devices /\ FilesT(files) /\ FilesT(Without(files, {job.src}))
  BY <1>1, JobDevices, WithoutTyped DEF Base, ShellType
<1>3. /\ Quiet(chan') /\ ChannelsT(chan') /\ DrivesT' /\ CacheT' /\ pc' = "shell"
      /\ \/ files' = files /\ result' = "error"
         \/ files' = Without(files, {job.src}) /\ MayScratch({job.src}) /\ result' = "done"
  BY <1>1, <1>2, QuietRequests DEF RemoveSource, Base, End
<1>4. Staged'
  BY <1>1, <1>3 DEF Base, Staged, Ops, Loop
<1>5. Base'
  BY <1>1, <1>2, <1>3, <1>4, QuietStep DEF Base, ShellType, Printing, Writing3, Loop
<1> QED
  BY <1>1, <1>3, <1>5

Renamed(fs, src, dst) == [fs EXCEPT ![dst] = fs[src], ![src] = {}]

LEMMA RenamedTyped ==
    ASSUME NEW fs, FilesT(fs), NEW src \in Places, NEW dst \in Places, src # dst, Dev(src) = Dev(dst)
    PROVE  /\ FilesT(Renamed(fs, src, dst))
           /\ Renamed(fs, src, dst)[dst] = fs[src] /\ Renamed(fs, src, dst)[src] = {}
           /\ \A p \in Places : p \notin {src, dst} => Renamed(fs, src, dst)[p] = fs[p]
<1>. DEFINE g == Renamed(fs, src, dst)
<1>1. /\ g = [p \in Places |-> g[p]] /\ g[dst] = fs[src] /\ g[src] = {}
      /\ \A p \in Places : p \notin {src, dst} => g[p] = fs[p]
  BY DEF FilesT, Renamed
<1>. HIDE DEF g
<1>2. ASSUME NEW p \in Places
      PROVE  /\ g[p] \in SUBSET FileT /\ \A y, z \in g[p] : y = z
             /\ Dev(p) = Cart => \A y \in g[p] : y.closed
  <2>1. CASE p = dst
    BY <1>1, <2>1 DEF FilesT
  <2>2. CASE p = src
    BY <1>1, <2>2
  <2>3. CASE p \notin {src, dst}
    BY <1>1, <2>3 DEF FilesT
  <2> QED
    BY <2>1, <2>2, <2>3
<1>3. g \in [Places -> SUBSET FileT]
  BY <1>1, <1>2
<1>4. FilesT(g)
  BY <1>2, <1>3 DEF FilesT
<1> QED
  BY <1>1, <1>4 DEF g

LEMMA RenameFileBase ==
    ASSUME Base, RenameFile
    PROVE  /\ Base' /\ Quiet(chan) /\ Quiet(chan') /\ job.op = "rename" /\ pc' = "shell"
           /\ \/ files' = files /\ result' = "error"
              \/ files' = Renamed(files, job.src, job.dst) /\ Exists(job.src) /\ result' = "done"
<1>1. /\ pc = "rename" /\ job.op = "rename" /\ Quiet(chan)
      /\ UNCHANGED <<job, at, limit, ok, before>>
  BY QuietChannels DEF RenameFile, Keep, jobVars, historyVars, Base, Staged, Ops, CopyStages,
     Printing, Writing3, Loop
<1>2. /\ Dev(job.dst) \in Devices /\ job.src \in Places /\ job.dst \in Places
      /\ job.src # job.dst /\ Dev(job.src) = Dev(job.dst) /\ FilesT(files)
  BY <1>1, JobDevices DEF Base, Jobs, ShellType
<1>3. FilesT(Renamed(files, job.src, job.dst))
  BY <1>2, RenamedTyped
<1>4. /\ Quiet(chan') /\ ChannelsT(chan') /\ DrivesT' /\ CacheT' /\ pc' = "shell"
      /\ \/ files' = files /\ result' = "error"
         \/ files' = Renamed(files, job.src, job.dst) /\ Exists(job.src) /\ result' = "done"
  BY <1>1, <1>2, <1>3, QuietRequests DEF RenameFile, Renamed, Base, End
<1>5. Staged'
  BY <1>1, <1>4 DEF Base, Staged, Ops, Loop
<1>6. Base'
  BY <1>1, <1>2, <1>3, <1>4, <1>5, QuietStep DEF Base, ShellType, Printing, Writing3, Loop
<1> QED
  BY <1>1, <1>4, <1>6

LEMMA CombineBase ==
    ASSUME Base, Combine
    PROVE  /\ Base' /\ Quiet(chan) /\ Quiet(chan') /\ job.op = "concat" /\ pc' = "shell"
           /\ \/ files' = files /\ result' = "error"
              \/ /\ files' = [files EXCEPT ![job.dst] = {New(Joined(files, job.sources))}]
                 /\ MayRead(job.sources[1]) /\ MayRead(job.sources[2])
                 /\ (Dev(job.dst) # Cart => ~Exists(job.dst)) /\ result' = "done"
<1>1. /\ pc = "combine" /\ job.op = "concat" /\ Quiet(chan)
      /\ UNCHANGED <<job, at, limit, ok, before>>
  BY QuietChannels DEF Combine, Keep, jobVars, historyVars, Base, Staged, Ops, CopyStages,
     Printing, Writing3, Loop
<1>2. /\ Dev(job.dst) \in Devices /\ job.sources[1] \in Places /\ job.sources[2] \in Places
      /\ job.dst \in Places /\ FilesT(files)
  BY <1>1, JobDevices DEF Base, Jobs, ShellType
<1>3. MayRead(job.sources[1]) /\ MayRead(job.sources[2]) =>
        FilesT([files EXCEPT ![job.dst] = {New(Joined(files, job.sources))}])
  BY <1>2, JoinedTyped, NewIsFile, PutTyped DEF MayRead
<1>4. /\ Quiet(chan') /\ ChannelsT(chan') /\ DrivesT' /\ CacheT' /\ pc' = "shell" /\ FilesT(files')
      /\ \/ files' = files /\ result' = "error"
         \/ /\ files' = [files EXCEPT ![job.dst] = {New(Joined(files, job.sources))}]
            /\ MayRead(job.sources[1]) /\ MayRead(job.sources[2])
            /\ (Dev(job.dst) # Cart => ~Exists(job.dst)) /\ result' = "done"
  BY <1>1, <1>2, <1>3, QuietRequests DEF Combine, Base, End
<1>5. Staged'
  BY <1>1, <1>4 DEF Base, Staged, Ops, Loop
<1>6. Base'
  BY <1>1, <1>4, <1>5, QuietStep DEF Base, ShellType, Printing, Writing3, Loop
<1> QED
  BY <1>1, <1>4, <1>6

LEMMA ListAllBase ==
    ASSUME Base, ListAll
    PROVE  /\ Base' /\ files' = files /\ Quiet(chan) /\ Quiet(chan') /\ job.op = "all"
           /\ \/ pc' = "shell" /\ result' = "error"
              \/ pc' = "next" /\ limit' = Cardinality(entries')
                   /\ Directory(Dev(job.src)) /\ UNCHANGED result
<1>1. /\ pc = "list" /\ job.op = "all" /\ Quiet(chan)
      /\ UNCHANGED <<job, at, ok, before>>
  BY QuietChannels DEF ListAll, jobVars, historyVars, Base, Staged, Ops, CopyStages,
     Printing, Writing3, Loop
<1>2. Dev(job.src) \in Devices
  BY <1>1, JobDevices
<1>3. /\ files' = files /\ Quiet(chan') /\ ChannelsT(chan') /\ DrivesT' /\ CacheT'
      /\ \/ pc' = "shell" /\ result' = "error" /\ limit' = limit
         \/ pc' = "next" /\ entries' = Listing(files, Dev(job.src)) /\ limit' = Cardinality(entries')
              /\ Directory(Dev(job.src)) /\ UNCHANGED result
  BY <1>1, <1>2, QuietRequests DEF ListAll, Base, End, Goto
<1>4. Staged'
  BY <1>1, <1>3 DEF Base, Staged, Ops, Loop
<1>5. limit' \in Nat
  BY <1>3, FiniteListing DEF Base, ShellType
<1>6. Base'
  BY <1>1, <1>3, <1>4, <1>5, QuietStep DEF Base, ShellType, Printing, Writing3, Loop
<1> QED
  BY <1>1, <1>3, <1>6

LEMMA NextFileBase ==
    ASSUME Base, NextFile
    PROVE  /\ Base' /\ files' = files /\ Quiet(chan) /\ Quiet(chan') /\ job.op = "all"
           /\ \/ pc' = "shell" /\ result' = "done" /\ at = limit /\ UNCHANGED channelVars
              \/ pc' = "shell" /\ result' \in {"stopped", "error"}
              \/ /\ pc' = "pick" /\ at < limit /\ UNCHANGED result
                 /\ (UNCHANGED channelVars /\ Cached(Dev(job.src))) \/ Directory(Dev(job.src))
<1>1. /\ pc = "next" /\ job.op = "all" /\ Quiet(chan)
      /\ UNCHANGED <<job, at, limit, ok, before>>
  BY QuietChannels DEF NextFile, Keep, jobVars, historyVars, Base, Staged, Ops, CopyStages,
     Printing, Writing3, Loop
<1>2. Dev(job.src) \in Devices
  BY <1>1, JobDevices
<1>3. /\ files' = files /\ Quiet(chan') /\ ChannelsT(chan') /\ DrivesT' /\ CacheT'
      /\ pc' \in {"shell", "pick"}
  <2>1. CASE UNCHANGED channelVars
    BY <1>1, <2>1 DEF NextFile, End, Goto, Base, ShellType, channelVars, commandVars, cacheVars,
       DrivesT, CacheT, Quiet
  <2>2. CASE Directory(Dev(job.src)) \/ DirectoryFails(Dev(job.src))
    BY <1>1, <1>2, <2>2, QuietRequests DEF NextFile, End, Goto, Base
  <2> QED
    BY <2>1, <2>2 DEF NextFile
<1>4. Staged'
  BY <1>1, <1>3 DEF Base, Staged, Ops, Loop
<1>6. Base'
  BY <1>1, <1>3, <1>4, QuietStep DEF Base, ShellType, Printing, Writing3, Loop
<1>7. \/ pc' = "shell" /\ result' = "done" /\ at = limit /\ UNCHANGED channelVars
      \/ pc' = "shell" /\ result' \in {"stopped", "error"}
      \/ /\ pc' = "pick" /\ at < limit /\ UNCHANGED result
         /\ (UNCHANGED channelVars /\ Cached(Dev(job.src))) \/ Directory(Dev(job.src))
  BY DEF NextFile, End, Goto, NextListing
<1> QED
  BY <1>1, <1>3, <1>6, <1>7

(* The cache, unless a file is being written, and where COPY takes a name  *)
(* from it.  Until a command has read a directory, it may be behind.       *)
Waiting == {"shell", "find", "prepare", "list", "check", "snapshot", "erase", "resolve", "target"}

Fresh ==
    cachevalid /\ pc \notin Printing \cup Writing3 =>
        Behind /\ (pc \notin Waiting => entries = Listing(files, cachedev))

PickReady == pc = "pick" => Cached(Dev(job.src))

CacheInv == Fresh /\ PickReady

LEMMA PickFileBase ==
    ASSUME Base, CacheInv, PickFile
    PROVE  /\ Base' /\ files' = files /\ Quiet(chan) /\ Quiet(chan') /\ job.op = "all"
           /\ entries = Listing(files, Dev(job.src)) /\ UNCHANGED limit
           /\ \/ pc' = "shell" /\ result' = "done" /\ ~(at < Cardinality(entries)) /\ UNCHANGED job
              \/ /\ pc' = "find" /\ at < Cardinality(entries) /\ at' = at + 1 /\ UNCHANGED result
                 /\ job'.op = "all" /\ job'.src = <<Dev(job.src), EntryAt(entries, at)>>
                 /\ job'.dst = <<Dev(job.dst), EntryAt(entries, at)>>
                 /\ EntryAt(entries, at) \in entries
<1>1. /\ pc = "pick" /\ job.op = "all" /\ Quiet(chan)
      /\ UNCHANGED <<files, chan, cmddev, cmdslot, limit, ok, before, entries, cachedev>>
  BY QuietChannels DEF PickFile, commandVars, historyVars, Base, Staged, Ops, CopyStages,
     Printing, Writing3, Loop, Forget, cacheVars
<1>2. entries = Listing(files, Dev(job.src))
  BY <1>1 DEF CacheInv, Fresh, PickReady, Cached, Printing, Writing3, Waiting
<1>3. /\ "all" \in Commands /\ job = [op |-> "all", src |-> job.src, dst |-> job.dst]
      /\ job.src \in Devices \X Nat /\ job.dst \in Devices \X Nat /\ Dev(job.src) # Dev(job.dst)
  BY <1>1 DEF Base, Jobs
<1>4. /\ FilesT(files') /\ ChannelsT(chan') /\ DrivesT' /\ Quiet(chan')
      /\ cachevalid' \in BOOLEAN /\ at \in Nat /\ limit' \in Nat
  BY <1>1 DEF Base, ShellType, PickFile, Forget, cacheVars, DrivesT, CacheT, Quiet
<1>5. CacheT' /\ ShellType'
  BY <1>1, <1>4 DEF Base, ShellType, CacheT, PickFile
<1>6. CASE at < Cardinality(entries)
  <2>. DEFINE n == EntryAt(entries, at)
  <2>1. n \in entries
    BY <1>2, <1>4, <1>6, FiniteListing, EntryIs
  <2>2. <<Dev(job.src), n>> \in Places
    BY <1>2, <2>1, DevOfPlace DEF Listing
  <2>3. <<Dev(job.dst), n>> \in Places
    BY <1>3, <1>1, <1>2, <2>1, CommandsAssumption, JobDevices DEF Listing
  <2>. HIDE DEF n
  <2>4. job' = [job EXCEPT !.src[2] = n, !.dst[2] = n] /\ at' = at + 1 /\ pc' = "find" /\ UNCHANGED result
    BY <1>6 DEF PickFile, n, Goto
  <2>5. job' = [op |-> "all", src |-> <<Dev(job.src), n>>, dst |-> <<Dev(job.dst), n>>]
    <3>1. /\ [job.src EXCEPT ![2] = n] = <<job.src[1], n>>
          /\ [job.dst EXCEPT ![2] = n] = <<job.dst[1], n>>
      BY <1>3
    <3>2. PICK j : j = [job EXCEPT !.src[2] = n]
      OBVIOUS
    <3>3. job' = [j EXCEPT !.dst[2] = n]
      BY <2>4, <3>2
    <3>4. j = [op |-> "all", src |-> <<job.src[1], n>>, dst |-> job.dst]
      BY <1>3, <3>1, <3>2
    <3>5. job' = [op |-> "all", src |-> <<job.src[1], n>>, dst |-> <<job.dst[1], n>>]
      BY <1>3, <3>1, <3>3, <3>4
    <3> QED
      BY <3>5 DEF Dev
  <2>6. /\ job'.op = "all" /\ job'.src = <<Dev(job.src), n>> /\ job'.dst = <<Dev(job.dst), n>>
        /\ Dev(job'.src) = Dev(job.src) /\ Dev(job'.dst) = Dev(job.dst) /\ job'.dst[2] = job'.src[2]
    BY <2>5 DEF Dev
  <2>7. Jobs'
    BY <1>3, <2>2, <2>3, <2>5, <2>6, DevOfPlace DEF Jobs
  <2>8. Staged'
    BY <2>4, <2>6 DEF Staged, Ops, CopyStages
  <2>9. Usage' /\ DiskSteps'
    BY <1>4, <2>4 DEF Usage, DiskSteps, Quiet, Files, Shut, Printing, Writing3
  <2> QED
    BY <1>1, <1>2, <1>4, <1>5, <1>6, <2>1, <2>4, <2>6, <2>7, <2>8, <2>9 DEF Base, n
<1>7. CASE ~(at < Cardinality(entries))
  <2>1. pc' = "shell" /\ result' = "done" /\ UNCHANGED <<job, at>>
    BY <1>7 DEF PickFile, End
  <2>2. Staged'
    BY <1>1, <2>1 DEF Base, Staged, Ops, Loop
  <2>3. Base'
    BY <1>1, <1>4, <1>5, <2>1, <2>2, QuietStep DEF Printing, Writing3, Loop
  <2> QED
    BY <1>1, <1>2, <1>4, <1>7, <2>1, <2>3
<1> QED
  BY <1>6, <1>7

LEMMA DeleteStages ==
    ASSUME Base, Check \/ Snapshot \/ Ask \/ DeleteFile \/ EraseAll
    PROVE  /\ job.op = "delete" /\ Quiet(chan) /\ job.dev \in Devices /\ pc # "shell"
           /\ pc' \in {"shell", "snapshot", "erase", "ask", "delete"}
<1>1. pc \in {"check", "snapshot", "ask", "delete", "erase"}
  BY DEF Check, Snapshot, Ask, DeleteFile, EraseAll
<1>2. job.op = "delete" /\ Quiet(chan)
  BY <1>1, QuietChannels DEF Base, Staged, Ops, CopyStages, Printing, Writing3, Loop
<1>3. pc' \in {"shell", "snapshot", "erase", "ask", "delete"}
  BY DEF Check, Snapshot, Ask, DeleteFile, EraseAll, Goto, End
<1> QED
  BY <1>1, <1>2, <1>3, JobDevices

LEMMA CheckSnapshotBase ==
    ASSUME Base, Check \/ Snapshot
    PROVE  Base' /\ files' = files /\ Quiet(chan) /\ Quiet(chan')
<1>1. /\ job.op = "delete" /\ Quiet(chan) /\ job.dev \in Devices /\ pc # "shell"
      /\ pc' \in {"shell", "snapshot", "erase", "ask", "delete"}
      /\ UNCHANGED <<job, at, limit, ok, before>>
  BY DeleteStages DEF Check, Snapshot, Keep, jobVars, historyVars
<1>2. files' = files /\ Quiet(chan') /\ ChannelsT(chan') /\ DrivesT' /\ CacheT'
  <2>1. CASE Check
    BY <1>1, <2>1 DEF Check, channelVars, commandVars, cacheVars, Base, ShellType, Quiet, ChannelsT,
       DrivesT, CacheT
  <2>2. CASE Snapshot
    BY <1>1, <2>2, QuietRequests DEF Snapshot, Base
  <2> QED
    BY <2>1, <2>2
<1>3. Staged'
  BY <1>1 DEF Staged, Ops
<1>4. Base'
  BY <1>1, <1>2, <1>3, QuietStep DEF Base, ShellType, Printing, Writing3, Loop
<1> QED
  BY <1>1, <1>2, <1>4

LEMMA AskBase ==
    ASSUME Base, Ask
    PROVE  Base' /\ UNCHANGED channelVars /\ Quiet(chan)
<1>1. /\ job.op = "delete" /\ Quiet(chan) /\ job.dev \in Devices /\ pc = "ask"
      /\ pc' \in {"shell", "ask", "delete"}
      /\ UNCHANGED <<files, chan, cmddev, cmdslot, entries, cachedev, cachevalid, limit, ok, before>>
  BY DeleteStages DEF Ask, Goto, End, channelVars, commandVars, cacheVars
<1>2. UNCHANGED channelVars
  BY DEF Ask
<1>3. at' \in Nat
  <2>1. at' = at \/ at' = at + 1
    BY DEF Ask
  <2> QED
    BY <2>1 DEF Base, ShellType
<1>4. ShellType'
  BY <1>1, <1>3 DEF Base, ShellType, DrivesT, CacheT
<1>5. job' = job \/ \E n : job' = [job EXCEPT !.src[2] = n]
  BY DEF Ask
<1>6. job = [op |-> "delete", dev |-> job.dev, matches |-> job.matches, how |-> job.how, src |-> job.src]
  BY <1>1 DEF Base, Jobs
<1>7. job'.op = "delete"
  BY <1>1, <1>5, <1>6
<1>8. Jobs'
  <2>1. CASE job' = job
    BY <1>1, <2>1 DEF Base, Jobs
  <2>2. CASE \E n : job' = [job EXCEPT !.src[2] = n]
    <3>1. PICK n : job' = [job EXCEPT !.src[2] = n]
      BY <2>2
    <3>2. job.src[1] = job.dev /\ job.src = <<job.src[1], job.src[2]>> /\ job.matches \subseteq Names
      BY <1>1 DEF Base, Jobs
    <3>3. job' = [op |-> "delete", dev |-> job.dev, matches |-> job.matches, how |-> job.how,
                  src |-> <<job.dev, n>>]
      BY <1>6, <3>1, <3>2
    <3> QED
      BY <1>1, <3>2, <3>3 DEF Jobs
  <2> QED
    BY <1>5, <2>1, <2>2
<1>9. Staged'
  BY <1>1, <1>7 DEF Staged, Ops
<1>10. Usage' /\ DiskSteps'
  BY <1>1 DEF Usage, DiskSteps, Quiet, Files, Shut, Printing, Writing3
<1> QED
  BY <1>1, <1>2, <1>4, <1>8, <1>9, <1>10 DEF Base

LEMMA DeleteFileBase ==
    ASSUME Base, DeleteFile
    PROVE  /\ Base' /\ Quiet(chan) /\ Quiet(chan')
           /\ \/ files' = files /\ pc' = "shell" /\ result' = "error"
              \/ files' = Without(files, {job.src}) /\ pc' = "ask" /\ at' = at + 1
<1>1. /\ job.op = "delete" /\ Quiet(chan) /\ job.dev \in Devices /\ pc = "delete"
      /\ UNCHANGED <<job, limit, ok, before>>
  BY DeleteStages DEF DeleteFile, historyVars
<1>2. FilesT(files) /\ FilesT(Without(files, {job.src})) /\ at \in Nat
  BY WithoutTyped DEF Base, ShellType
<1>3. /\ Quiet(chan') /\ ChannelsT(chan') /\ DrivesT' /\ CacheT'
      /\ \/ files' = files /\ pc' = "shell" /\ result' = "error" /\ at' = at
         \/ files' = Without(files, {job.src}) /\ pc' = "ask" /\ at' = at + 1
  BY <1>1, <1>2, QuietRequests DEF DeleteFile, Base, End, Goto, Following
<1>4. Staged'
  BY <1>1, <1>3 DEF Staged, Ops
<1>5. Base'
  BY <1>1, <1>2, <1>3, <1>4, QuietStep DEF Base, ShellType, Printing, Writing3, Loop
<1> QED
  BY <1>1, <1>3, <1>5

LEMMA EraseAllBase ==
    ASSUME Base, EraseAll
    PROVE  /\ Base' /\ Quiet(chan) /\ Quiet(chan') /\ pc' = "shell"
           /\ \/ files' = files /\ result' \in {"error", "stopped"}
              \/ files' = Without(files, Matching) /\ result' = "done"
<1>1. /\ job.op = "delete" /\ Quiet(chan) /\ job.dev \in Devices /\ pc = "erase"
      /\ UNCHANGED <<job, at, limit, ok, before>>
  BY DeleteStages DEF EraseAll, jobVars
<1>2. FilesT(files) /\ FilesT(Without(files, Matching)) /\ ChannelsT(chan) /\ DrivesT /\ CacheT
  BY WithoutTyped DEF Base, ShellType
<1>3. /\ Quiet(chan') /\ ChannelsT(chan') /\ DrivesT' /\ CacheT' /\ pc' = "shell"
      /\ \/ files' = files /\ result' \in {"error", "stopped"}
         \/ files' = Without(files, Matching) /\ result' = "done"
  <2>1. CASE UNCHANGED channelVars /\ End("stopped")
    BY <1>1, <1>2, <2>1 DEF channelVars, commandVars, cacheVars, Quiet, DrivesT, CacheT, End
  <2>2. CASE \/ CommandDone(job.dev, Without(files, Matching)) /\ End("done")
             \/ \E possible : CommandFails(job.dev, possible) /\ End("error")
    BY <1>1, <1>2, <2>2, QuietRequests DEF Base, End
  <2> QED
    BY <2>1, <2>2 DEF EraseAll
<1>4. Staged'
  BY <1>1, <1>3 DEF Staged, Ops
<1>5. Base'
  BY <1>1, <1>2, <1>3, <1>4, QuietStep DEF Base, ShellType, Printing, Writing3, Loop
<1> QED
  BY <1>1, <1>3, <1>5

-----------------------------------------------------------------------------
(* Channels that change hands, and what goes through them.                 *)
LEMMA NewChannels ==
    ASSUME NEW p \in Places, NEW data \in Seq(Chunks)
    PROVE  /\ Reading(p, data) \in ChannelT /\ Reading(p, data).mode = "read"
           /\ Reading(p, data).place = p /\ Reading(p, data).data = data
           /\ Reading(p, data).live /\ ~Reading(p, data).bad
           /\ Writing(p, data) \in ChannelT /\ Writing(p, data).mode = "write"
           /\ Writing(p, data).place = p /\ Writing(p, data).data = data
           /\ Writing(p, data).live /\ ~Writing(p, data).bad
<1>1. PICK a : a = [Idle EXCEPT !.mode = "read"]
  OBVIOUS
<1>2. PICK b : b = [a EXCEPT !.place = p]
  OBVIOUS
<1>3. PICK c : c = [b EXCEPT !.data = data]
  OBVIOUS
<1>4. PICK d : d = [c EXCEPT !.live = TRUE]
  OBVIOUS
<1>5. Reading(p, data) = d
  BY <1>1, <1>2, <1>3, <1>4 DEF Reading
<1>6. <<>> \in Seq(Chunks)
  OBVIOUS
<1>7. a \in ChannelT /\ a.mode = "read" /\ ~a.bad
  BY <1>1, <1>6 DEF Idle, ChannelT
<1>8. b \in ChannelT /\ b.mode = "read" /\ ~b.bad /\ b.place = p
  BY <1>2, <1>7 DEF ChannelT
<1>9. c \in ChannelT /\ c.mode = "read" /\ ~c.bad /\ c.place = p /\ c.data = data
  BY <1>3, <1>8 DEF ChannelT
<1>10. d \in ChannelT /\ d.mode = "read" /\ ~d.bad /\ d.place = p /\ d.data = data /\ d.live
  BY <1>4, <1>9 DEF ChannelT
<1>11. Writing(p, data) = [d EXCEPT !.mode = "write"]
  BY <1>5 DEF Writing
<1> QED
  BY <1>5, <1>10, <1>11 DEF ChannelT

LEMMA IdleChannels ==
    /\ Idle \in ChannelT /\ Idle.mode = "closed"
    /\ ChannelsT([f \in Files |-> Idle]) /\ Quiet([f \in Files |-> Idle])
<1>1. <<>> \in Seq(Chunks)
  OBVIOUS
<1>2. Idle \in ChannelT /\ Idle.mode = "closed"
  BY <1>1 DEF Idle, ChannelT
<1> QED
  BY <1>2 DEF ChannelsT, Quiet

LEMMA PutChannel ==
    ASSUME NEW cs, ChannelsT(cs), NEW f \in Files, NEW c \in ChannelT,
           c.mode # "closed" => c.place \in Places
    PROVE  /\ ChannelsT([cs EXCEPT ![f] = c]) /\ [cs EXCEPT ![f] = c][f] = c
           /\ \A g \in Files : g # f => [cs EXCEPT ![f] = c][g] = cs[g]
BY DEF ChannelsT

LEMMA UsedChannels ==
    ASSUME ChannelsT(chan), NEW f \in Files
    PROVE  /\ chan[f] \in ChannelT
           /\ Lost(f) \in ChannelT /\ Lost(f).bad /\ Lost(f).live = chan[f].live
           /\ Lost(f).mode = chan[f].mode /\ Lost(f).place = chan[f].place
           /\ \A c \in Chunks :
                /\ Grown(f, c) \in ChannelT /\ Grown(f, c).live = chan[f].live
                /\ Grown(f, c).mode = chan[f].mode /\ Grown(f, c).place = chan[f].place
                /\ Grown(f, c).bad = chan[f].bad /\ Grown(f, c).data = Append(chan[f].data, c)
           /\ chan[f].data # <<>> =>
                /\ Head(chan[f].data) \in Chunks
                /\ Rest(f) \in ChannelT /\ Rest(f).live = chan[f].live
                /\ Rest(f).mode = chan[f].mode /\ Rest(f).place = chan[f].place
                /\ Rest(f).bad = chan[f].bad /\ Rest(f).data = Tail(chan[f].data)
<1>1. chan[f] \in ChannelT /\ chan[f].data \in Seq(Chunks)
  BY DEF ChannelsT, ChannelT
<1>2. /\ Lost(f) \in ChannelT /\ Lost(f).bad /\ Lost(f).live = chan[f].live
      /\ Lost(f).mode = chan[f].mode /\ Lost(f).place = chan[f].place
  BY <1>1 DEF Lost, ChannelT
<1>3. ASSUME NEW c \in Chunks
      PROVE  /\ Grown(f, c) \in ChannelT /\ Grown(f, c).live = chan[f].live
             /\ Grown(f, c).mode = chan[f].mode /\ Grown(f, c).place = chan[f].place
             /\ Grown(f, c).bad = chan[f].bad /\ Grown(f, c).data = Append(chan[f].data, c)
  <2>1. Append(chan[f].data, c) \in Seq(Chunks)
    BY <1>1
  <2> QED
    BY <1>1, <2>1 DEF Grown, ChannelT
<1>4. ASSUME chan[f].data # <<>>
      PROVE  /\ Head(chan[f].data) \in Chunks
             /\ Rest(f) \in ChannelT /\ Rest(f).live = chan[f].live
             /\ Rest(f).mode = chan[f].mode /\ Rest(f).place = chan[f].place
             /\ Rest(f).bad = chan[f].bad /\ Rest(f).data = Tail(chan[f].data)
  <2>1. Tail(chan[f].data) \in Seq(Chunks) /\ Head(chan[f].data) \in Chunks
    BY <1>1, <1>4
  <2> QED
    BY <1>1, <2>1 DEF Rest, ChannelT
<1> QED
  BY <1>1, <1>2, <1>3, <1>4

LEMMA StoredTyped ==
    ASSUME FilesT(files), NEW f, NEW c \in Chunks
    PROVE  /\ FilesT(Stored(f, c))
           /\ Dev(chan[f].place) = Cart => Stored(f, c) = files
           /\ \A p \in Places : p # chan[f].place => Stored(f, c)[p] = files[p]
           /\ chan[f].place \in Places /\ Dev(chan[f].place) # Cart =>
                Stored(f, c)[chan[f].place] =
                  {[x EXCEPT !.data = Append(@, c)] : x \in files[chan[f].place]}
<1>. DEFINE p == chan[f].place
            s == {[x EXCEPT !.data = Append(@, c)] : x \in files[p]}
            g == [files EXCEPT ![p] = s]
<1>1. CASE Dev(p) = Cart
  BY <1>1 DEF Stored
<1>2. CASE Dev(p) # Cart
  <2>1. Stored(f, c) = g
    BY <1>2 DEF Stored
  <2>2. /\ g = [q \in Places |-> g[q]] /\ \A q \in Places : q # p => g[q] = files[q]
        /\ p \in Places => g[p] = s
    BY DEF FilesT
  <2>3. p \in Places => s \subseteq FileT /\ \A x, y \in s : x = y
    <3>1. \A x \in FileT : [x EXCEPT !.data = Append(@, c)] \in FileT
      BY DEF FileT
    <3> QED
      BY <3>1 DEF FilesT
  <2>. HIDE DEF g, s
  <2>4. \A q \in Places : g[q] \in SUBSET FileT /\ \A x, y \in g[q] : x = y
    BY <2>2, <2>3 DEF FilesT
  <2>5. \A q \in Places : Dev(q) = Cart => g[q] = files[q]
    BY <1>2, <2>2
  <2>6. g \in [Places -> SUBSET FileT]
    BY <2>2, <2>4
  <2>7. FilesT(g)
    BY <2>4, <2>5, <2>6 DEF FilesT
  <2> QED
    BY <1>2, <2>1, <2>2, <2>7 DEF s
<1> QED
  BY <1>1, <1>2

LEMMA ClosedTyped ==
    ASSUME FilesT(files), ChannelsT(chan), NEW f \in Files, NEW works \in BOOLEAN
    PROVE  /\ FilesT(Closed(f, works))
           /\ \A p \in Places : p # chan[f].place => Closed(f, works)[p] = files[p]
           /\ ~works \/ ~chan[f].live => Closed(f, works) = files
           /\ Dev(chan[f].place) = Cart /\ chan[f].bad => Closed(f, works) = files
           /\ works /\ chan[f].live /\ chan[f].place \in Places =>
                /\ Dev(chan[f].place) = Cart /\ ~chan[f].bad =>
                     Closed(f, works)[chan[f].place] = {New(chan[f].data)}
                /\ Dev(chan[f].place) # Cart =>
                     Closed(f, works)[chan[f].place] =
                       {[x EXCEPT !.closed = TRUE] : x \in files[chan[f].place]}
<1>. DEFINE p == chan[f].place
            s == {[x EXCEPT !.closed = TRUE] : x \in files[p]}
            g == [files EXCEPT ![p] = s]
<1>1. CASE ~works \/ ~chan[f].live
  BY <1>1 DEF Closed
<1>2. CASE works /\ chan[f].live /\ Dev(p) = Cart /\ chan[f].bad
  BY <1>2 DEF Closed
<1>3. CASE works /\ chan[f].live /\ Dev(p) = Cart /\ ~chan[f].bad
  <2>1. Closed(f, works) = [files EXCEPT ![p] = {New(chan[f].data)}]
    BY <1>3 DEF Closed
  <2>2. chan[f].data \in Seq(Chunks)
    BY DEF ChannelsT, ChannelT
  <2>3. New(chan[f].data) \in FileT /\ New(chan[f].data).closed
    BY <2>2, NewIsFile
  <2>. HIDE DEF p
  <2>4. /\ FilesT(Closed(f, works))
        /\ \A q \in Places : q # p => Closed(f, works)[q] = files[q]
        /\ p \in Places => Closed(f, works)[p] = {New(chan[f].data)}
    <3>1. PICK x \in FileT : x = New(chan[f].data) /\ x.closed
      BY <2>3
    <3>2. FilesT([files EXCEPT ![p] = {x}])
      BY <3>1, PutTyped
    <3>4. /\ \A q \in Places : q # p => [files EXCEPT ![p] = {x}][q] = files[q]
          /\ p \in Places => [files EXCEPT ![p] = {x}][p] = {x}
      BY DEF FilesT
    <3>3. Closed(f, works) = [files EXCEPT ![p] = {x}]
      BY <2>1, <3>1
    <3> QED
      BY <3>1, <3>2, <3>3, <3>4
  <2> QED
    BY <1>3, <2>4, Zenon DEF p
<1>4. CASE works /\ chan[f].live /\ Dev(p) # Cart
  <2>1. Closed(f, works) = g
    BY <1>4 DEF Closed
  <2>2. /\ g = [q \in Places |-> g[q]] /\ \A q \in Places : q # p => g[q] = files[q]
        /\ p \in Places => g[p] = s
    BY DEF FilesT
  <2>3. p \in Places => s \subseteq FileT /\ \A x, y \in s : x = y
    <3>1. \A x \in FileT : [x EXCEPT !.closed = TRUE] \in FileT
      BY DEF FileT
    <3>2. p \in Places => files[p] \subseteq FileT /\ \A x, y \in files[p] : x = y
      BY DEF FilesT
    <3> QED
      BY <3>1, <3>2
  <2>. HIDE DEF g, s
  <2>4. \A q \in Places : g[q] \in SUBSET FileT /\ \A x, y \in g[q] : x = y
    BY <2>2, <2>3 DEF FilesT
  <2>5. \A q \in Places : Dev(q) = Cart => g[q] = files[q]
    BY <1>4, <2>2
  <2>6. g \in [Places -> SUBSET FileT]
    BY <2>2, <2>4
  <2>7. FilesT(g)
    BY <2>4, <2>5, <2>6 DEF FilesT
  <2>8. p \in Places =>
          Closed(f, works)[p] = {[x EXCEPT !.closed = TRUE] : x \in files[p]}
    BY <2>1, <2>2 DEF s
  <2>9. FilesT(Closed(f, works)) /\ \A q \in Places : q # p => Closed(f, works)[q] = files[q]
    BY <2>1, <2>2, <2>7
  <2> QED
    BY <1>4, <2>8, <2>9, Zenon
<1> QED
  BY <1>1, <1>2, <1>3, <1>4

(* The drive that has to make room is not the one that is asked, so what   *)
(* is being written on that one stays as it is.                            *)
LEMMA OwnWriters ==
    ASSUME DrivesT, NEW dev \in Devices, NEW fs, FilesT(fs), NEW cs,
           \A f \in Files : cs[f].mode = "write" => Dev(cs[f].place) = dev
    PROVE  Beheaded(fs, cs, Evicted(dev)) = fs
<1>1. Evicted(dev) # 0 => Evicted(dev) # dev
  BY DEF Evicted, Resident, DrivesT
<1>2. \A f \in Files : ~(cs[f].mode = "write" /\ On(cs[f], Evicted(dev)))
  BY <1>1 DEF On
<1>3. Beheaded(fs, cs, Evicted(dev)) = [p \in Places |-> fs[p]]
  BY <1>2 DEF Beheaded
<1> QED
  BY <1>3 DEF FilesT

(* Requests while files may be open. *)
LEMMA OpenRequests ==
    ASSUME ShellType, NEW dev \in Devices
    PROVE  /\ Directory(dev) =>
                /\ FilesT(files') /\ ChannelsT(chan') /\ DrivesT' /\ CacheT'
                /\ \A f \in Files : SameUse(chan'[f], chan[f])
           /\ DirectoryFails(dev) =>
                /\ FilesT(files') /\ ChannelsT(chan') /\ DrivesT' /\ CacheT'
                /\ \A f \in Files : SameUse(chan'[f], chan[f])
           /\ \A possible : OpenFails(dev, possible, chan) =>
                /\ FilesT(files') /\ ChannelsT(chan') /\ DrivesT' /\ CacheT'
                /\ \A f \in Files : SameUse(chan'[f], chan[f])
<1>1. FilesT(files) /\ ChannelsT(chan) /\ CacheT /\ DrivesT
  BY DEF ShellType
<1>2. Status(dev, files, chan) =>
        /\ FilesT(files') /\ ChannelsT(chan') /\ DrivesT'
        /\ \A f \in Files : SameUse(chan'[f], chan[f])
  BY <1>1, StatusEffect
<1>3. NotReady(dev, chan) =>
        /\ FilesT(files') /\ ChannelsT(chan') /\ DrivesT'
        /\ \A f \in Files : SameUse(chan'[f], chan[f])
  BY <1>1, NotReadyEffect
<1>4. Listing(files, dev) \subseteq Nat
  BY DevOfPlace DEF Listing
<1> QED
  BY <1>1, <1>2, <1>3, <1>4 DEF Directory, DirectoryFails, OpenFails, CacheT, cacheVars

LEMMA OpenReadEffect ==
    ASSUME ShellType, NEW f \in Files, NEW p \in Places, OpenRead(f, p)
    PROVE  /\ DrivesT' /\ FilesT(files') /\ ChannelsT(chan') /\ UNCHANGED cacheVars /\ CacheT'
           /\ chan'[f].mode = "read" /\ chan'[f].place = p /\ chan'[f].data \in Contents(files, p)
           /\ \A g \in Files : g # f => SameUse(chan'[g], chan[g])
           /\ \A q \in Places : files'[q] = {} <=> files[q] = {}
           /\ (\A g \in Files : g # f => chan[g].mode # "write") => files' = files
<1>1. PICK data \in Contents(files, p) :
        Status(Dev(p), files, [chan EXCEPT ![f] = Reading(p, data)])
  BY DEF OpenRead
<1>2. FilesT(files) /\ ChannelsT(chan) /\ CacheT /\ DrivesT /\ data \in Seq(Chunks) /\ Dev(p) \in Devices
  BY OneContents, DevOfPlace DEF ShellType
<1>3. PICK c \in ChannelT : /\ c = Reading(p, data) /\ c.mode = "read" /\ c.place = p
                            /\ c.data = data
  BY <1>2, NewChannels
<1>4. PICK cs : /\ cs = [chan EXCEPT ![f] = c] /\ ChannelsT(cs) /\ cs[f] = c
                /\ \A g \in Files : g # f => cs[g] = chan[g]
  <2>1. /\ ChannelsT([chan EXCEPT ![f] = c]) /\ [chan EXCEPT ![f] = c][f] = c
        /\ \A g \in Files : g # f => [chan EXCEPT ![f] = c][g] = chan[g]
    BY <1>2, <1>3, PutChannel
  <2> QED
    BY <2>1
<1>5. Status(Dev(p), files, cs)
  BY <1>1, <1>3, <1>4
<1>6. /\ DrivesT' /\ FilesT(files') /\ ChannelsT(chan')
      /\ \A g \in Files : SameUse(chan'[g], cs[g])
      /\ \A q \in Places : files'[q] = {} <=> files[q] = {}
      /\ NoWriter(cs) => files' = files
  BY <1>2, <1>4, <1>5, StatusEffect
<1>7. (\A g \in Files : g # f => chan[g].mode # "write") => NoWriter(cs)
  BY <1>3, <1>4 DEF NoWriter
<1>8. UNCHANGED cacheVars /\ CacheT'
  BY <1>2 DEF OpenRead, cacheVars, CacheT
<1> QED
  BY <1>1, <1>3, <1>4, <1>6, <1>7, <1>8 DEF SameUse

LEMMA OpenWriteEffect ==
    ASSUME ShellType, NEW f \in Files, NEW p \in Places, NEW append \in BOOLEAN, OpenWrite(f, p, append),
           append => Contents(files, p) # {}, \A g \in Files : g # f => chan[g].mode # "write"
    PROVE  /\ DrivesT' /\ FilesT(files') /\ ChannelsT(chan') /\ UNCHANGED cacheVars /\ CacheT'
           /\ MayWrite(p, append)
           /\ chan'[f].mode = "write" /\ chan'[f].place = p /\ ~chan'[f].bad
           /\ chan'[f].data = IF append THEN Old(files, p) ELSE <<>>
           /\ \A g \in Files : g # f => SameUse(chan'[g], chan[g])
           /\ Dev(p) = Cart => files' = files
           /\ \A q \in Places : q # p => files'[q] = files[q]
           /\ Dev(p) # Cart => \E x \in FileT : files'[p] = {x} /\ x.data = chan'[f].data
<1>. DEFINE data == IF append THEN Old(files, p) ELSE <<>>
            x == [New(data) EXCEPT !.closed = FALSE, !.locked = Locked(p)]
            fs == IF Dev(p) = Cart THEN files ELSE [files EXCEPT ![p] = {x}]
<1>1. /\ MayWrite(p, append) /\ UNCHANGED cacheVars
      /\ Status(Dev(p), fs, [chan EXCEPT ![f] = Writing(p, data)])
  BY DEF OpenWrite
<1>2. FilesT(files) /\ ChannelsT(chan) /\ CacheT /\ DrivesT /\ Dev(p) \in Devices
  BY DevOfPlace DEF ShellType
<1>3. data \in Seq(Chunks)
  BY <1>2, OneContents
<1>4. x \in FileT /\ x.data = data
  <2>1. FALSE \in BOOLEAN /\ Locked(p) \in BOOLEAN
    BY DEF Locked
  <2>. HIDE DEF data
  <2> QED
    BY <1>3, <2>1, NewIsFile
<1>. HIDE DEF x, data
<1>5. /\ FilesT(fs) /\ (Dev(p) = Cart => fs = files)
      /\ \A q \in Places : q # p => fs[q] = files[q]
      /\ Dev(p) # Cart => fs[p] = {x}
  <2>1. CASE Dev(p) = Cart
    BY <1>2, <2>1
  <2>2. CASE Dev(p) # Cart
    <3>1. fs = [files EXCEPT ![p] = {x}]
      BY <2>2
    <3>2. FilesT([files EXCEPT ![p] = {x}])
      BY <1>2, <1>4, <2>2, PutTyped
    <3>3. /\ \A q \in Places : q # p => [files EXCEPT ![p] = {x}][q] = files[q]
          /\ [files EXCEPT ![p] = {x}][p] = {x}
      BY <1>2 DEF FilesT
    <3>. HIDE DEF fs
    <3> QED
      BY <2>2, <3>1, <3>2, <3>3
  <2> QED
    BY <2>1, <2>2
<1>6. PICK c \in ChannelT : /\ c = Writing(p, data) /\ c.mode = "write" /\ c.place = p
                            /\ c.data = data /\ ~c.bad
  BY <1>3, NewChannels
<1>7. PICK cs : /\ cs = [chan EXCEPT ![f] = c] /\ ChannelsT(cs) /\ cs[f] = c
                /\ \A g \in Files : g # f => cs[g] = chan[g]
  <2>1. /\ ChannelsT([chan EXCEPT ![f] = c]) /\ [chan EXCEPT ![f] = c][f] = c
        /\ \A g \in Files : g # f => [chan EXCEPT ![f] = c][g] = chan[g]
    BY <1>2, <1>6, PutChannel
  <2> QED
    BY <2>1
<1>. HIDE DEF fs
<1>8. Status(Dev(p), fs, cs)
  BY <1>1, <1>6, <1>7
<1>9. /\ DrivesT' /\ FilesT(files') /\ ChannelsT(chan')
      /\ \A g \in Files : SameUse(chan'[g], cs[g])
  BY <1>2, <1>5, <1>7, <1>8, StatusEffect
<1>10. files' = fs
  <2>1. \A g \in Files : cs[g].mode = "write" => Dev(cs[g].place) = Dev(p)
    BY <1>6, <1>7
  <2>2. files' = Beheaded(fs, cs, Evicted(Dev(p)))
    BY <1>8 DEF Status
  <2> QED
    BY <1>2, <1>5, <2>1, <2>2, OwnWriters
<1>11. CacheT'
  BY <1>1, <1>2 DEF cacheVars, CacheT
<1>12. /\ chan'[f].mode = "write" /\ chan'[f].place = p /\ ~chan'[f].bad /\ chan'[f].data = data
       /\ \A g \in Files : g # f => SameUse(chan'[g], chan[g])
  BY <1>6, <1>7, <1>9 DEF SameUse
<1>13. Dev(p) # Cart => \E y \in FileT : files'[p] = {y} /\ y.data = chan'[f].data
  BY <1>4, <1>5, <1>10, <1>12
<1> QED
  BY <1>1, <1>5, <1>9, <1>10, <1>11, <1>12, <1>13 DEF data

(* What an open for writing that fails leaves. *)
Leaves(p) ==
    \/ files' = files
    \/ /\ Dev(p) # Cart
       /\ \A q \in Places : q # p => files'[q] = files[q]
       /\ \E x \in FileT : files'[p] = {x} /\ (files[p] = {} => x.data = <<>>)

LEMMA OpenWriteFailsEffect ==
    ASSUME ShellType, NEW p \in Places, NEW append \in BOOLEAN, NEW cs, ChannelsT(cs), NoWriter(cs),
           OpenWriteFails(p, append, cs)
    PROVE  /\ DrivesT' /\ FilesT(files') /\ ChannelsT(chan') /\ UNCHANGED cacheVars /\ CacheT'
           /\ \A f \in Files : SameUse(chan'[f], cs[f])
           /\ Leaves(p)
<1>1. FilesT(files) /\ DrivesT /\ Dev(p) \in Devices /\ CacheT
  BY DevOfPlace DEF ShellType
<1>2. UNCHANGED cacheVars /\ CacheT'
  BY <1>1 DEF OpenWriteFails, OpenFails, cacheVars, CacheT
<1>3. CASE OpenFails(Dev(p), MayWrite(p, append), cs)
  BY <1>1, <1>2, <1>3, NotReadyEffect, StatusEffect DEF OpenFails, Leaves
<1>. DEFINE data == IF append THEN Old(files, p) ELSE <<>>
            Partly(closed) == [New(data) EXCEPT !.closed = closed, !.locked = Locked(p)]
<1>4. ASSUME ~OpenFails(Dev(p), MayWrite(p, append), cs),
             NEW closed \in BOOLEAN, NEW opened \in BOOLEAN, Dev(p) # Cart, MayWrite(p, append),
             UseStatus(Dev(p), opened), chan' = Cut(cs, Evicted(Dev(p))),
             files' = Beheaded([files EXCEPT ![p] = {Partly(closed)}], cs, Evicted(Dev(p)))
      PROVE  DrivesT' /\ FilesT(files') /\ ChannelsT(chan') /\ Leaves(p)
             /\ \A f \in Files : SameUse(chan'[f], cs[f])
  <2>1. append => Contents(files, p) # {} /\ files[p] # {}
    BY <1>4 DEF MayWrite, MayRead, Contents
  <2>2. data \in Seq(Chunks) /\ (files[p] = {} => data = <<>>)
    BY <1>1, <2>1, OneContents
  <2>. HIDE DEF data
  <2>3. PICK x \in FileT : x = Partly(closed) /\ x.data = data
    <3>1. Locked(p) \in BOOLEAN
      BY DEF Locked
    <3>2. Partly(closed) \in FileT /\ Partly(closed).data = data
      BY <2>2, <3>1, <1>4, NewIsFile
    <3>. HIDE DEF Partly
    <3>. QED  BY <3>2
  <2>. HIDE DEF Partly
  <2>4. PICK fs : /\ fs = [files EXCEPT ![p] = {x}] /\ FilesT(fs) /\ fs[p] = {x}
                  /\ \A q \in Places : q # p => fs[q] = files[q]
    <3>1. FilesT(files) /\ ~(p \in Places /\ Dev(p) = Cart)
      BY <1>1, <1>4
    <3>2. FilesT([files EXCEPT ![p] = {x}])
      BY <3>1, PutTyped
    <3>3. /\ [files EXCEPT ![p] = {x}][p] = {x}
          /\ \A q \in Places : q # p => [files EXCEPT ![p] = {x}][q] = files[q]
      BY <3>1 DEF FilesT
    <3>. QED  BY <3>2, <3>3
  <2>5. files' = fs
    BY <1>4, <2>3, <2>4, BeheadedEffect
  <2>. QED  BY <1>1, <1>4, <2>2, <2>3, <2>4, <2>5, UseStatusEffect, CutEffect DEF Leaves
<1>. QED  BY <1>2, <1>3, <1>4 DEF OpenWriteFails

(* Steps that leave a file open, or had one open. *)
LEMMA BusyStep ==
    ASSUME Base, FilesT(files'), ChannelsT(chan'), DrivesT', CacheT',
           UNCHANGED <<job, before>>, ok' \in BOOLEAN, at' \in Nat, limit' \in Nat,
           pc # "shell", Staged', Usage', pc' \notin {"scratch", "duplicate"},
           job.op = "all" /\ pc' \notin Loop => pc \notin Loop
    PROVE  Base'
<1>1. ShellType'
  BY DEF Base, ShellType
<1>2. Jobs'
  BY DEF Base, Jobs
<1> QED
  BY <1>1, <1>2 DEF Base, DiskSteps

CopyOps == {"copy", "move", "all"}

LEMMA CopyJob ==
    ASSUME Base, pc \in {"open", "create", "stream", "finish"}
    PROVE  /\ job.op \in CopyOps /\ pc \notin Loop
           /\ job.src \in Places /\ job.dst \in Places /\ job.src # job.dst
           /\ Dev(job.src) \in Devices /\ Dev(job.dst) \in Devices
<1>1. job.op \in CopyOps /\ pc \notin Loop
  BY DEF Base, Staged, Ops, CopyOps, CopyStages, Printing, Loop
<1>2. job.src \in Places /\ job.dst \in Places /\ job.src # job.dst
  BY <1>1 DEF Base, Jobs, CopyOps
<1> QED
  BY <1>1, <1>2, DevOfPlace

LEMMA CopyStaged ==
    ASSUME Base, pc \in {"open", "create", "stream", "finish"}, UNCHANGED job,
           \/ pc' \in {"open", "create", "stream", "finish", "shell"}
           \/ Copied
    PROVE  Staged'
<1>1. job.op \in CopyOps
  BY CopyJob
<1>2. \/ pc' \in {"open", "create", "stream", "finish", "shell"}
      \/ job.op = "move" /\ pc' = "remove"
      \/ job.op = "all" /\ pc' = "next"
  BY <1>1, CopiedIs DEF CopyOps
<1> QED
  BY <1>1, <1>2 DEF Staged, Ops, CopyOps, CopyStages, Loop

LEMMA OpenSourceBase ==
    ASSUME Base, OpenSource
    PROVE  /\ Base' /\ Quiet(chan) /\ files' = files /\ UNCHANGED <<job, at, limit, ok, before>>
           /\ UNCHANGED cacheVars
           /\ \/ pc' = "create" /\ chan'[2].data \in Contents(files, job.src) /\ UNCHANGED result
              \/ pc' = "shell" /\ result' = "error" /\ Quiet(chan')
<1>1. pc = "open" /\ Quiet(chan) /\ UNCHANGED <<job, at, limit, ok, before>>
  BY QuietChannels DEF OpenSource, Keep, jobVars, historyVars, Base, Printing, Writing3
<1>2. /\ job.src \in Places /\ job.dst \in Places /\ Dev(job.src) \in Devices /\ pc \notin Loop
  BY <1>1, CopyJob
<1>3. ShellType /\ 2 \in Files
  BY DEF Base, Files
<1>4. CASE OpenRead(2, job.src) /\ Goto("create")
  <2>1. /\ DrivesT' /\ FilesT(files') /\ ChannelsT(chan') /\ UNCHANGED cacheVars /\ CacheT'
        /\ chan'[2].mode = "read" /\ chan'[2].place = job.src /\ chan'[2].data \in Contents(files, job.src)
        /\ \A g \in Files : g # 2 => SameUse(chan'[g], chan[g])
        /\ (\A g \in Files : g # 2 => chan[g].mode # "write") => files' = files
    BY <1>2, <1>3, <1>4, OpenReadEffect
  <2>2. files' = files
    BY <1>1, <2>1 DEF Quiet
  <2>3. pc' = "create" /\ UNCHANGED result
    BY <1>4 DEF Goto
  <2>4. Staged'
    BY <1>1, <2>3, CopyStaged
  <2>5. Usage'
    BY <1>1, <2>1, <2>3 DEF Usage, Quiet, Files, Reads, Shut, SameUse, Printing, Writing3
  <2>6. Base'
    BY <1>1, <1>2, <2>1, <2>3, <2>4, <2>5, BusyStep DEF Base, ShellType
  <2> QED
    BY <1>1, <2>1, <2>2, <2>3, <2>6
<1>5. CASE OpenFails(Dev(job.src), MayRead(job.src), chan) /\ End("error")
  <2>1. /\ files' = files /\ Quiet(chan') /\ ChannelsT(chan') /\ DrivesT' /\ CacheT'
        /\ UNCHANGED cacheVars
    BY <1>1, <1>2, <1>3, <1>5, QuietRequests DEF ShellType
  <2>2. pc' = "shell" /\ result' = "error"
    BY <1>5 DEF End
  <2>3. Staged'
    BY <1>1, <2>2, CopyStaged
  <2>4. Base'
    BY <1>1, <2>1, <2>2, <2>3, QuietStep DEF Base, ShellType, Printing, Writing3, Loop
  <2> QED
    BY <1>1, <2>1, <2>2, <2>4
<1> QED
  BY <1>4, <1>5 DEF OpenSource

LEMMA CreateCopyBase ==
    ASSUME Base, CreateCopy
    PROVE  /\ Base' /\ UNCHANGED <<job, at, limit, ok, before>> /\ UNCHANGED cacheVars
           /\ \/ /\ pc' = "stream" /\ UNCHANGED result /\ SameUse(chan'[2], chan[2])
                 /\ chan'[3].data = <<>> /\ ~chan'[3].bad
                 /\ Dev(job.dst) = Cart => files' = files
                 /\ \A p \in Places : p # job.dst => files'[p] = files[p]
                 /\ Dev(job.dst) # Cart => \E x \in FileT : files'[job.dst] = {x} /\ x.data = <<>>
              \/ pc' = "shell" /\ result' = "error" /\ Leaves(job.dst) /\ Quiet(chan')
<1>1. pc = "create" /\ UNCHANGED <<job, at, limit, ok, before>>
  BY DEF CreateCopy, Keep, jobVars, historyVars
<1>2. /\ job.dst \in Places /\ Dev(job.dst) \in Devices /\ pc \notin Loop
  BY <1>1, CopyJob
<1>3. /\ ShellType /\ 3 \in Files /\ 2 \in Files
      /\ chan[2].mode = "read" /\ chan[3].mode = "closed" /\ chan[5].mode = "closed"
      /\ chan[2].place = job.src
  BY <1>1 DEF Base, Files, Usage, Reads, Shut, Printing, Writing3
<1>4. CASE OpenWrite(3, job.dst, FALSE) /\ Goto("stream")
  <2>1. \A g \in Files : g # 3 => chan[g].mode # "write"
    BY <1>3 DEF Files
  <2>2. /\ DrivesT' /\ FilesT(files') /\ ChannelsT(chan') /\ UNCHANGED cacheVars /\ CacheT'
        /\ chan'[3].mode = "write" /\ chan'[3].place = job.dst /\ ~chan'[3].bad
        /\ chan'[3].data = <<>>
        /\ \A g \in Files : g # 3 => SameUse(chan'[g], chan[g])
        /\ Dev(job.dst) = Cart => files' = files
        /\ \A q \in Places : q # job.dst => files'[q] = files[q]
        /\ Dev(job.dst) # Cart => \E x \in FileT : files'[job.dst] = {x} /\ x.data = <<>>
    <3>1. PICK a \in BOOLEAN : a = FALSE
      OBVIOUS
    <3>2. OpenWrite(3, job.dst, a)
      BY <1>4, <3>1
    <3>3. /\ DrivesT' /\ FilesT(files') /\ ChannelsT(chan') /\ UNCHANGED cacheVars /\ CacheT'
          /\ chan'[3].mode = "write" /\ chan'[3].place = job.dst /\ ~chan'[3].bad
          /\ chan'[3].data = IF a THEN Old(files, job.dst) ELSE <<>>
          /\ \A g \in Files : g # 3 => SameUse(chan'[g], chan[g])
          /\ Dev(job.dst) = Cart => files' = files
          /\ \A q \in Places : q # job.dst => files'[q] = files[q]
          /\ Dev(job.dst) # Cart => \E x \in FileT : files'[job.dst] = {x} /\ x.data = chan'[3].data
      BY <1>2, <1>3, <2>1, <3>1, <3>2, OpenWriteEffect
    <3> QED
      BY <3>1, <3>3
  <2>3. pc' = "stream" /\ UNCHANGED result
    BY <1>4 DEF Goto
  <2>4. Staged'
    BY <1>1, <2>3, CopyStaged
  <2>5. Usage'
    BY <1>1, <1>3, <2>2, <2>3 DEF Usage, Files, Reads, Writes, Shut, SameUse, Printing, Writing3
  <2>6. Base'
    BY <1>1, <1>2, <2>2, <2>3, <2>4, <2>5, BusyStep DEF Base, ShellType
  <2> QED
    BY <1>1, <1>3, <2>2, <2>3, <2>6
<1>5. CASE OpenWriteFails(job.dst, FALSE, [chan EXCEPT ![2] = Idle]) /\ End("error")
  <2>1. PICK cs : cs = [chan EXCEPT ![2] = Idle] /\ ChannelsT(cs) /\ Quiet(cs)
    <3>1. /\ ChannelsT([chan EXCEPT ![2] = Idle]) /\ [chan EXCEPT ![2] = Idle][2] = Idle
          /\ \A g \in Files : g # 2 => [chan EXCEPT ![2] = Idle][g] = chan[g]
      BY <1>3, IdleChannels, PutChannel DEF ShellType
    <3>2. Quiet([chan EXCEPT ![2] = Idle])
      BY <1>3, <3>1, IdleChannels DEF Quiet, Files
    <3> QED
      BY <3>1, <3>2
  <2>2. OpenWriteFails(job.dst, FALSE, cs) /\ NoWriter(cs)
    BY <1>5, <2>1 DEF Quiet, NoWriter
  <2>3. /\ FilesT(files') /\ ChannelsT(chan') /\ DrivesT' /\ \A f \in Files : SameUse(chan'[f], cs[f])
        /\ UNCHANGED cacheVars /\ CacheT' /\ Leaves(job.dst)
    <3>1. PICK a \in BOOLEAN : a = FALSE
      OBVIOUS
    <3>. QED  BY <1>2, <1>3, <2>1, <2>2, <3>1, OpenWriteFailsEffect
  <2>4. Quiet(chan')
    BY <2>1, <2>3, QuietChannels
  <2>5. pc' = "shell" /\ result' = "error"
    BY <1>5 DEF End
  <2>6. Staged'
    BY <1>1, <2>5, CopyStaged
  <2>7. Base'
    BY <1>1, <1>3, <2>3, <2>4, <2>5, <2>6, QuietStep DEF Base, ShellType, Printing, Writing3, Loop
  <2> QED
    BY <1>1, <2>3, <2>4, <2>5, <2>7
<1> QED
  BY <1>4, <1>5 DEF CreateCopy

(* One pass of the loop: nothing is left to read or reading fails, a chunk *)
(* goes from one file to the other, or it is lost.                         *)
LEMMA StreamBase ==
    ASSUME Base, Stream
    PROVE  /\ Base' /\ UNCHANGED <<job, at, limit, before>> /\ UNCHANGED <<commandVars, cacheVars>>
           /\ UNCHANGED result /\ pc' \in {"stream", "finish"}
           /\ \A f \in Files : /\ chan'[f].live = chan[f].live
                               /\ chan'[f].mode = chan[f].mode /\ chan'[f].place = chan[f].place
           /\ \/ /\ files' = files /\ chan' = chan /\ pc' = "finish"
                 /\ ok' = FALSE \/ (ok' = ok /\ chan[2].data = <<>>)
              \/ /\ chan[2].data # <<>> /\ ~chan[3].bad /\ ~chan'[3].bad
                 /\ chan'[2].data = Tail(chan[2].data)
                 /\ chan'[3].data = Append(chan[3].data, Head(chan[2].data))
                 /\ files' = Stored(3, Head(chan[2].data))
                 /\ pc' = "finish" => ~ok'
              \/ files' = files /\ chan'[3].bad
<1>1. pc = "stream" /\ UNCHANGED <<job, at, limit, before, cmddev, cmdslot, entries, cachedev, cachevalid>>
  BY DEF Stream, jobVars, historyVars, commandVars, cacheVars
<1>2. /\ Base /\ FilesT(files) /\ ChannelsT(chan) /\ DrivesT /\ CacheT /\ ok \in BOOLEAN
      /\ at \in Nat /\ limit \in Nat /\ 2 \in Files /\ 3 \in Files /\ 5 \in Files
  BY DEF Base, ShellType, Files
<1>3. /\ chan[2].mode = "read" /\ chan[2].place = job.src
      /\ chan[3].mode = "write" /\ chan[3].place = job.dst /\ chan[5].mode = "closed"
  BY <1>1 DEF Base, Usage, Reads, Writes, Shut, Printing, Writing3
<1>4. pc' \in {"stream", "finish"} /\ UNCHANGED result /\ ok' \in BOOLEAN
  BY <1>1, <1>2 DEF Stream, Goto, ReadFailed
<1>5. /\ FilesT(files') /\ ChannelsT(chan')
      /\ \A f \in Files : /\ chan'[f].live = chan[f].live
                          /\ chan'[f].mode = chan[f].mode /\ chan'[f].place = chan[f].place
      /\ \/ /\ files' = files /\ chan' = chan /\ pc' = "finish"
            /\ ok' = FALSE \/ (ok' = ok /\ chan[2].data = <<>>)
         \/ /\ chan[2].data # <<>> /\ ~chan[3].bad /\ ~chan'[3].bad
            /\ chan'[2].data = Tail(chan[2].data)
            /\ chan'[3].data = Append(chan[3].data, Head(chan[2].data))
            /\ files' = Stored(3, Head(chan[2].data))
            /\ pc' = "finish" => ~ok'
         \/ files' = files /\ chan'[3].bad
  <2>1. CASE /\ Goto("finish") /\ UNCHANGED <<files, chan>>
             /\ ok' = FALSE \/ (ok' = ok /\ chan[2].data = <<>>)
    BY <1>2, <2>1 DEF Goto
  <2>2. CASE /\ CanRead(2) /\ CanWrite(3) /\ files' = Stored(3, Head(chan[2].data))
             /\ chan' = [chan EXCEPT ![2] = Rest(2), ![3] = Grown(3, Head(chan[2].data))]
             /\ UNCHANGED <<pc, ok, result>> \/ (Goto("finish") /\ ok' = FALSE)
    <3>1. chan[2].data # <<>> /\ ~chan[3].bad /\ (pc' = "finish" => ~ok')
      BY <1>1, <2>2 DEF CanRead, CanWrite, Goto
    <3>2. PICK c \in Chunks : c = Head(chan[2].data)
      BY <1>2, <3>1, UsedChannels
    <3>3. PICK r \in ChannelT : /\ r = Rest(2) /\ r.live = chan[2].live /\ r.mode = chan[2].mode
                                /\ r.place = chan[2].place /\ r.data = Tail(chan[2].data)
      BY <1>2, <3>1, UsedChannels
    <3>4. PICK w \in ChannelT : /\ w = Grown(3, c) /\ w.live = chan[3].live /\ w.mode = chan[3].mode
                                /\ w.place = chan[3].place /\ w.data = Append(chan[3].data, c)
                                /\ w.bad = chan[3].bad
      BY <1>2, <3>2, UsedChannels
    <3>5. chan' = [chan EXCEPT ![2] = r, ![3] = w]
      BY <2>2, <3>2, <3>3, <3>4
    <3>6. /\ r.mode # "closed" => r.place \in Places
          /\ w.mode # "closed" => w.place \in Places
      BY <1>2, <3>3, <3>4 DEF ChannelsT
    <3>7. /\ ChannelsT(chan') /\ chan'[2] = r /\ chan'[3] = w
          /\ \A h \in Files : h \notin {2, 3} => chan'[h] = chan[h]
      <4>1. PICK cs : cs = [chan EXCEPT ![2] = r]
        OBVIOUS
      <4>2. ChannelsT(cs) /\ cs[2] = r /\ \A h \in Files : h # 2 => cs[h] = chan[h]
        <5>1. /\ ChannelsT([chan EXCEPT ![2] = r]) /\ [chan EXCEPT ![2] = r][2] = r
              /\ \A h \in Files : h # 2 => [chan EXCEPT ![2] = r][h] = chan[h]
          BY <1>2, <3>6, PutChannel
        <5> QED
          BY <4>1, <5>1
      <4>3. chan' = [cs EXCEPT ![3] = w]
        BY <3>5, <4>1
      <4>4. ChannelsT(chan') /\ chan'[3] = w /\ \A h \in Files : h # 3 => chan'[h] = cs[h]
        <5>1. /\ ChannelsT([cs EXCEPT ![3] = w]) /\ [cs EXCEPT ![3] = w][3] = w
              /\ \A h \in Files : h # 3 => [cs EXCEPT ![3] = w][h] = cs[h]
          BY <1>2, <3>6, <4>2, PutChannel
        <5> QED
          BY <4>3, <5>1
      <4> QED
        BY <1>2, <4>2, <4>4
    <3>8. \A f \in Files : /\ chan'[f].live = chan[f].live
                           /\ chan'[f].mode = chan[f].mode /\ chan'[f].place = chan[f].place
      BY <3>3, <3>4, <3>7
    <3>9. FilesT(files') /\ files' = Stored(3, Head(chan[2].data))
      BY <1>2, <2>2, <3>2, StoredTyped
    <3> QED
      BY <1>2, <3>1, <3>2, <3>3, <3>4, <3>7, <3>8, <3>9
  <2>3. CASE /\ CanRead(2) /\ UNCHANGED files
             /\ chan' = [chan EXCEPT ![2] = Rest(2), ![3] = Lost(3)]
    <3>1. chan[2].data # <<>>
      BY <2>3 DEF CanRead
    <3>3. PICK r \in ChannelT : /\ r = Rest(2) /\ r.live = chan[2].live /\ r.mode = chan[2].mode
                                /\ r.place = chan[2].place
      BY <1>2, <3>1, UsedChannels
    <3>4. PICK w \in ChannelT : /\ w = Lost(3) /\ w.live = chan[3].live /\ w.mode = chan[3].mode
                                /\ w.place = chan[3].place /\ w.bad
      BY <1>2, UsedChannels
    <3>5. chan' = [chan EXCEPT ![2] = r, ![3] = w]
      BY <2>3, <3>3, <3>4
    <3>6. /\ r.mode # "closed" => r.place \in Places
          /\ w.mode # "closed" => w.place \in Places
      BY <1>2, <3>3, <3>4 DEF ChannelsT
    <3>7. /\ ChannelsT(chan') /\ chan'[2] = r /\ chan'[3] = w
          /\ \A h \in Files : h \notin {2, 3} => chan'[h] = chan[h]
      <4>1. PICK cs : cs = [chan EXCEPT ![2] = r]
        OBVIOUS
      <4>2. ChannelsT(cs) /\ cs[2] = r /\ \A h \in Files : h # 2 => cs[h] = chan[h]
        <5>1. /\ ChannelsT([chan EXCEPT ![2] = r]) /\ [chan EXCEPT ![2] = r][2] = r
              /\ \A h \in Files : h # 2 => [chan EXCEPT ![2] = r][h] = chan[h]
          BY <1>2, <3>6, PutChannel
        <5> QED
          BY <4>1, <5>1
      <4>3. chan' = [cs EXCEPT ![3] = w]
        BY <3>5, <4>1
      <4>4. ChannelsT(chan') /\ chan'[3] = w /\ \A h \in Files : h # 3 => chan'[h] = cs[h]
        <5>1. /\ ChannelsT([cs EXCEPT ![3] = w]) /\ [cs EXCEPT ![3] = w][3] = w
              /\ \A h \in Files : h # 3 => [cs EXCEPT ![3] = w][h] = cs[h]
          BY <1>2, <3>6, <4>2, PutChannel
        <5> QED
          BY <4>3, <5>1
      <4> QED
        BY <1>2, <4>2, <4>4
    <3>8. \A f \in Files : /\ chan'[f].live = chan[f].live
                           /\ chan'[f].mode = chan[f].mode /\ chan'[f].place = chan[f].place
      BY <3>3, <3>4, <3>7
    <3> QED
      BY <1>2, <2>3, <3>4, <3>7, <3>8
  <2> QED
    BY <2>1, <2>2, <2>3 DEF Stream, AtEnd, ReadFailed
<1>6. Staged'
  BY <1>1, <1>4, CopyStaged
<1>7. Usage'
  BY <1>1, <1>2, <1>3, <1>4, <1>5 DEF Usage, Reads, Writes, Shut, Printing, Writing3
<1>8. DrivesT' /\ CacheT'
  BY <1>1, <1>2 DEF DrivesT, CacheT
<1>9. Base'
  BY <1>1, <1>2, <1>4, <1>5, <1>6, <1>7, <1>8, BusyStep DEF Loop
<1>10. UNCHANGED <<commandVars, cacheVars>>
  BY DEF Stream
<1> QED
  BY <1>1, <1>4, <1>5, <1>9, <1>10

(* The requests that end a command whose files are open. *)
LEMMA LastRequest ==
    ASSUME ShellType, NEW dev \in Devices, NEW fs, FilesT(fs),
           \/ Status(dev, fs, [f \in Files |-> Idle])
           \/ /\ UseStatus(dev, FALSE) /\ files' = fs
              /\ chan' = [f \in Files |-> Idle]
    PROVE  files' = fs /\ ChannelsT(chan') /\ Quiet(chan') /\ DrivesT'
<1>1. PICK cs : cs = [f \in Files |-> Idle] /\ ChannelsT(cs) /\ Quiet(cs) /\ NoWriter(cs)
  BY IdleChannels, QuietChannels
<1>2. CASE Status(dev, fs, cs)
  BY <1>1, <1>2, StatusEffect, QuietChannels DEF ShellType
<1>3. CASE UseStatus(dev, FALSE) /\ files' = fs /\ chan' = cs
  BY <1>3, <1>1, UseStatusEffect DEF ShellType
<1> QED
  BY <1>1, <1>2, <1>3

LEMMA FinishBase ==
    ASSUME Base, Finish
    PROVE  /\ Base' /\ Quiet(chan') /\ UNCHANGED <<job, at, limit, ok, before>> /\ cachevalid' = FALSE
           /\ \E works \in BOOLEAN :
                /\ files' = IF Aborted THEN files ELSE Closed(3, works)
                /\ \/ pc' = "shell" /\ result' = "error"
                   \/ ok /\ works /\ ~chan[3].bad /\ Copied
<1>1. pc = "finish" /\ UNCHANGED <<job, at, limit, ok, before>> /\ cachevalid' = FALSE
      /\ UNCHANGED <<entries, cachedev>>
  BY DEF Finish, Keep, jobVars, historyVars, Forget
<1>2. Dev(job.dst) \in Devices /\ pc \notin Loop /\ job.op \in CopyOps
  BY <1>1, CopyJob
<1>3. PICK works \in BOOLEAN :
        /\ \/ Status(Dev(job.dst), IF Aborted THEN files ELSE Closed(3, works), [f \in Files |-> Idle])
           \/ /\ UseStatus(Dev(job.dst), FALSE) /\ files' = IF Aborted THEN files ELSE Closed(3, works)
              /\ chan' = [f \in Files |-> Idle]
        /\ \/ pc' = "shell" /\ result' = "error"
           \/ ok /\ works /\ ~chan[3].bad /\ Copied
  <2>1. Troubles \in BOOLEAN
    BY ChannelsAssumption
  <2>2. PICK works \in {TRUE, ~Troubles} :
          LET left == IF Aborted THEN files ELSE Closed(3, works)
              idle == [f \in Files |-> Idle]
          IN  \/ /\ Status(Dev(job.dst), left, idle)
                 /\ IF ok /\ ~Told(works) THEN Copied ELSE End("error")
              \/ /\ Troubles /\ Dev(job.dst) # Cart
                 /\ UseStatus(Dev(job.dst), FALSE) /\ files' = left /\ chan' = idle
                 /\ End("error")
    BY DEF Finish
  <2>3. works \in BOOLEAN
    BY <2>1, <2>2
  <2> QED
    BY <2>2, <2>3 DEF Told, End
<1>4. PICK fs : fs = (IF Aborted THEN files ELSE Closed(3, works)) /\ FilesT(fs)
  BY ClosedTyped DEF Base, ShellType, Files
<1>5. files' = fs /\ ChannelsT(chan') /\ Quiet(chan') /\ DrivesT'
  BY <1>3, <1>4, <1>2, LastRequest DEF Base
<1>6. pc' \in {"shell", "remove", "next"}
  BY <1>2, <1>3, CopiedIs DEF CopyOps
<1>7. Staged'
  BY <1>1, <1>3, CopyStaged
<1>8. CacheT'
  BY <1>1 DEF Base, ShellType, CacheT
<1>9. Base'
  BY <1>1, <1>4, <1>5, <1>6, <1>7, <1>8, QuietStep DEF Base, ShellType, Printing, Writing3, Loop
<1> QED
  BY <1>1, <1>3, <1>4, <1>5, <1>9

-----------------------------------------------------------------------------
(* Base, continued: commands whose output goes to a file. *)
LEMMA OutputJob ==
    ASSUME Base, pc \in Printing \cup {"resolve", "target", "truncate", "output"}
    PROVE  /\ job.op = "redirect" /\ pc \notin Loop
           /\ job.src \in Places /\ job.dst \in Places
           /\ Dev(job.src) \in Devices /\ Dev(job.dst) \in Devices
           /\ \A label \in Printing \cup {"target", "truncate", "output", "shell"} :
                UNCHANGED job /\ pc' = label => Staged'
<1>1. job.op = "redirect" /\ pc \notin Loop
  BY DEF Base, Staged, Ops, CopyStages, Printing, Loop
<1>2. job.src \in Places /\ job.dst \in Places
  BY <1>1 DEF Base, Jobs
<1>3. ASSUME UNCHANGED job, pc' \in Printing \cup {"target", "truncate", "output", "shell"}
      PROVE  Staged'
  BY <1>1, <1>3 DEF Staged, Ops
<1> QED
  BY <1>1, <1>2, <1>3, DevOfPlace

LEMMA ResolveBase ==
    ASSUME Base, Resolve
    PROVE  /\ Base' /\ files' = files /\ Quiet(chan) /\ Quiet(chan')
           /\ UNCHANGED <<job, at, limit, ok, before>>
           /\ \/ pc' = "target" /\ UNCHANGED result
              \/ pc' = "shell" /\ result' = "error"
<1>1. pc = "resolve" /\ Quiet(chan) /\ UNCHANGED <<job, at, limit, ok, before>>
  BY QuietChannels DEF Resolve, Keep, jobVars, historyVars, Base, Printing, Writing3
<1>2. job.op = "redirect" /\ Dev(job.src) \in Devices
  BY <1>1, OutputJob
<1>3. \/ pc' = "target" /\ UNCHANGED result
      \/ pc' = "shell" /\ result' = "error"
  BY DEF Resolve, Goto, End
<1>4. files' = files /\ Quiet(chan') /\ ChannelsT(chan') /\ DrivesT' /\ CacheT'
  <2>1. CASE UNCHANGED channelVars
    BY <1>1, <2>1 DEF Base, ShellType, channelVars, commandVars, cacheVars, DrivesT, CacheT, Quiet
  <2>2. CASE Directory(Dev(job.src)) \/ DirectoryFails(Dev(job.src))
    BY <1>1, <1>2, <2>2, QuietRequests DEF Base
  <2> QED
    BY <2>1, <2>2 DEF Resolve
<1>5. Staged'
  BY <1>1, <1>3, OutputJob
<1>6. Base'
  BY <1>1, <1>2, <1>3, <1>4, <1>5, QuietStep DEF Base, ShellType, Printing, Writing3, Loop
<1> QED
  BY <1>1, <1>3, <1>4, <1>6

LEMMA TargetBase ==
    ASSUME Base, Target
    PROVE  /\ Base' /\ files' = files /\ Quiet(chan) /\ Quiet(chan')
           /\ UNCHANGED <<job, at, limit, ok, before>>
           /\ \/ pc' \in {"truncate", "output"} /\ (pc' = "truncate" => ~job.append) /\ UNCHANGED result
              \/ pc' = "shell" /\ result' = "error"
<1>1. pc = "target" /\ Quiet(chan) /\ UNCHANGED <<job, at, limit, ok, before>>
  BY QuietChannels DEF Target, Keep, jobVars, historyVars, Base, Printing, Writing3
<1>2. job.op = "redirect" /\ Dev(job.dst) \in Devices
  BY <1>1, OutputJob
<1>3. \/ pc' \in {"truncate", "output"} /\ (pc' = "truncate" => ~job.append) /\ UNCHANGED result
      \/ pc' = "shell" /\ result' = "error"
  BY DEF Target, Goto, End
<1>4. files' = files /\ Quiet(chan') /\ ChannelsT(chan') /\ DrivesT' /\ CacheT'
  BY <1>1, <1>2, QuietRequests DEF Base, Target
<1>5. Staged'
  BY <1>1, <1>3, OutputJob
<1>6. Base'
  BY <1>1, <1>2, <1>3, <1>4, <1>5, QuietStep DEF Base, ShellType, Printing, Writing3, Loop
<1> QED
  BY <1>1, <1>3, <1>4, <1>6

LEMMA TruncateBase ==
    ASSUME Base, Truncate
    PROVE  /\ Base' /\ Quiet(chan) /\ Quiet(chan') /\ UNCHANGED <<job, at, limit, ok, before>>
           /\ files' = files \/ files' = Without(files, {job.dst})
           /\ \/ pc' = "output" /\ UNCHANGED result
              \/ pc' = "shell" /\ result' = "error"
<1>1. pc = "truncate" /\ Quiet(chan) /\ UNCHANGED <<job, at, limit, ok, before>>
  BY QuietChannels DEF Truncate, Keep, jobVars, historyVars, Base, Printing, Writing3
<1>2. job.op = "redirect" /\ Dev(job.dst) \in Devices
  BY <1>1, OutputJob
<1>3. \/ pc' = "output" /\ UNCHANGED result
      \/ pc' = "shell" /\ result' = "error"
  BY DEF Truncate, Goto, End
<1>4. FilesT(Without(files, {job.dst})) /\ FilesT(files)
  BY WithoutTyped DEF Base, ShellType
<1>5. /\ files' = files \/ files' = Without(files, {job.dst})
      /\ Quiet(chan') /\ ChannelsT(chan') /\ DrivesT' /\ CacheT'
  BY <1>1, <1>2, <1>4, QuietRequests DEF Base, Truncate
<1>6. Staged'
  BY <1>1, <1>3, OutputJob
<1>7. Base'
  BY <1>1, <1>2, <1>3, <1>4, <1>5, <1>6, QuietStep DEF Base, ShellType, Printing, Writing3, Loop
<1> QED
  BY <1>1, <1>3, <1>5, <1>7

LEMMA OpenOutputBase ==
    ASSUME Base, OpenOutput
    PROVE  /\ Base' /\ Quiet(chan) /\ UNCHANGED <<job, at, limit, ok, before>>
           /\ \/ /\ pc' = CASE job.kind = "type" -> "lookup" [] job.kind = "dir" -> "listing"
                            [] OTHER -> "print"
                 /\ UNCHANGED result /\ MayWrite(job.dst, Appending)
                 /\ Appending => Contents(files, job.dst) # {}
                 /\ chan'[5].data = IF Appending THEN Old(files, job.dst) ELSE <<>>
                 /\ ~chan'[5].bad
                 /\ Dev(job.dst) = Cart => files' = files
                 /\ \A p \in Places : p # job.dst => files'[p] = files[p]
                 /\ Dev(job.dst) # Cart =>
                      \E x \in FileT : files'[job.dst] = {x} /\ x.data = chan'[5].data
              \/ pc' = "shell" /\ result' = "error" /\ Leaves(job.dst) /\ Quiet(chan')
           /\ pc' = "shell" => UNCHANGED cacheVars
<1>1. pc = "output" /\ Quiet(chan) /\ UNCHANGED <<job, at, limit, ok, before>>
  BY QuietChannels DEF OpenOutput, Keep, jobVars, historyVars, Base, Printing, Writing3
<1>2. /\ job.op = "redirect" /\ Dev(job.dst) \in Devices /\ job.dst \in Places
      /\ job.append \in BOOLEAN /\ job.kind \in {"type", "dir", "echo"} /\ pc \notin Loop
  BY <1>1, OutputJob DEF Base, Jobs
<1>3. ShellType /\ FilesT(files) /\ 5 \in Files
  BY DEF Base, ShellType, Files
<1>. DEFINE next == CASE job.kind = "type" -> "lookup" [] job.kind = "dir" -> "listing"
                      [] OTHER -> "print"
<1>4. next \in {"lookup", "listing", "print"}
  OBVIOUS
<1>5. CASE OpenWrite(5, job.dst, Appending) /\ Goto(next)
  <2>1. PICK a \in BOOLEAN : a = Appending
    BY <1>2 DEF Appending, Exists
  <2>2. OpenWrite(5, job.dst, a) /\ MayWrite(job.dst, a)
    BY <1>5, <2>1 DEF OpenWrite
  <2>3. a => Contents(files, job.dst) # {}
    <3>1. CASE Dev(job.dst) = Cart
      <4>1. a => \E x \in files[job.dst] : x.closed
        BY <1>2, <1>3, <2>1, <3>1 DEF Appending, Exists, FilesT
      <4> QED
        BY <4>1 DEF Contents
    <3>2. CASE Dev(job.dst) # Cart
      BY <2>2, <3>2 DEF MayWrite, MayRead
    <3> QED
      BY <3>1, <3>2
  <2>4. \A g \in Files : g # 5 => chan[g].mode # "write"
    BY <1>1 DEF Quiet
  <2>5. /\ DrivesT' /\ FilesT(files') /\ ChannelsT(chan') /\ UNCHANGED cacheVars /\ CacheT'
        /\ chan'[5].mode = "write" /\ chan'[5].place = job.dst /\ ~chan'[5].bad
        /\ chan'[5].data = IF a THEN Old(files, job.dst) ELSE <<>>
        /\ \A g \in Files : g # 5 => SameUse(chan'[g], chan[g])
        /\ Dev(job.dst) = Cart => files' = files
        /\ \A q \in Places : q # job.dst => files'[q] = files[q]
        /\ Dev(job.dst) # Cart => \E x \in FileT : files'[job.dst] = {x} /\ x.data = chan'[5].data
    BY <1>2, <1>3, <2>2, <2>3, <2>4, OpenWriteEffect
  <2>6. pc' = next /\ UNCHANGED result
    BY <1>5 DEF Goto
  <2>. HIDE DEF next
  <2>7. Staged'
    BY <1>1, <1>4, <2>6, OutputJob DEF Printing
  <2>8. Usage'
    BY <1>1, <1>4, <2>5, <2>6 DEF Usage, Quiet, Files, Writes, Shut, SameUse, Printing, Writing3
  <2>9. Base'
    BY <1>1, <1>2, <1>4, <2>5, <2>6, <2>7, <2>8, BusyStep DEF Base, ShellType
  <2> QED
    BY <1>1, <2>1, <2>2, <2>3, <2>5, <2>6, <2>9 DEF next
<1>6. CASE OpenWriteFails(job.dst, Appending, chan) /\ End("error")
  <2>0. Appending \in BOOLEAN /\ NoWriter(chan) /\ ChannelsT(chan)
    BY <1>1, <1>2, <1>3 DEF Appending, Exists, Quiet, NoWriter, ShellType
  <2>1. /\ FilesT(files') /\ Quiet(chan') /\ ChannelsT(chan') /\ DrivesT' /\ CacheT'
        /\ UNCHANGED cacheVars /\ Leaves(job.dst)
    BY <1>1, <1>2, <1>3, <1>6, <2>0, OpenWriteFailsEffect, QuietChannels
  <2>2. pc' = "shell" /\ result' = "error"
    BY <1>6 DEF End
  <2>3. Staged'
    BY <1>1, <2>2, OutputJob
  <2>4. Base'
    BY <1>1, <2>1, <2>2, <2>3, QuietStep DEF Base, ShellType, Printing, Writing3, Loop
  <2> QED
    BY <1>1, <2>1, <2>2, <2>4
<1> QED
  BY <1>5, <1>6 DEF OpenOutput

(* While the output is open. *)
PrintingStep == UNCHANGED <<job, at, limit, before>> /\ ok' \in BOOLEAN

LEMMA PrintingBase ==
    ASSUME Base, pc \in Printing, PrintingStep, pc' \in Printing,
           FilesT(files'), ChannelsT(chan'), DrivesT', CacheT',
           \A f \in {3, 5} : chan'[f].mode = chan[f].mode /\ chan'[f].place = chan[f].place,
           CASE pc' = "copy" -> Reads(2)'
             [] pc' = "close" -> chan'[2].mode # "write"
             [] OTHER -> chan'[2].mode = "closed"
    PROVE  Base'
<1>1. pc \notin Loop /\ pc # "shell"
  BY OutputJob DEF Loop
<1>2. Staged'
  BY OutputJob DEF PrintingStep
<1>3. Usage'
  BY DEF Base, Usage, Printing, Writing3, Writes, Shut, PrintingStep
<1>4. pc' \notin {"scratch", "duplicate"} /\ at' \in Nat /\ limit' \in Nat
  BY DEF Printing, PrintingStep, Base, ShellType
<1> QED
  BY <1>1, <1>2, <1>3, <1>4, BusyStep DEF PrintingStep

LEMMA LookupBase ==
    ASSUME Base, Lookup
    PROVE  /\ Base' /\ PrintingStep /\ \A f \in Files : SameUse(chan'[f], chan[f])
           /\ UNCHANGED result
           /\ (pc' = "input" /\ UNCHANGED ok) \/ (pc' = "close" /\ ~ok')
<1>1. /\ pc = "lookup" /\ PrintingStep /\ UNCHANGED result
      /\ (pc' = "input" /\ UNCHANGED ok) \/ (pc' = "close" /\ ~ok')
  BY DEF Lookup, PrintingStep, jobVars, historyVars, Goto, Fumble, Base, ShellType
<1>2. Dev(job.src) \in Devices /\ ShellType /\ 2 \in Files /\ 3 \in Files /\ 5 \in Files
  BY <1>1, OutputJob DEF Base, Printing, Files
<1>3. /\ FilesT(files') /\ ChannelsT(chan') /\ DrivesT' /\ CacheT'
      /\ \A f \in Files : SameUse(chan'[f], chan[f])
  <2>1. CASE UNCHANGED channelVars
    BY <1>2, <2>1 DEF ShellType, channelVars, commandVars, cacheVars, DrivesT, CacheT, SameUse
  <2>2. CASE Directory(Dev(job.src)) \/ DirectoryFails(Dev(job.src))
    BY <1>2, <2>2, OpenRequests
  <2> QED
    BY <2>1, <2>2 DEF Lookup
<1>4. chan[2].mode = "closed"
  BY <1>1 DEF Base, Usage, Shut
<1>5. Base'
  BY <1>1, <1>2, <1>3, <1>4, PrintingBase DEF Printing, SameUse
<1> QED
  BY <1>1, <1>3, <1>5

LEMMA OpenInputBase ==
    ASSUME Base, OpenInput
    PROVE  /\ Base' /\ PrintingStep /\ UNCHANGED result
           /\ \A f \in Files : f # 2 => SameUse(chan'[f], chan[f])
           /\ \/ pc' = "copy" /\ UNCHANGED ok /\ chan'[2].data \in Contents(files, job.src)
              \/ pc' = "close" /\ ~ok'
<1>1. pc = "input" /\ PrintingStep /\ UNCHANGED result
  BY DEF OpenInput, PrintingStep, jobVars, historyVars, Goto, Fumble, Base, ShellType
<1>2. /\ Dev(job.src) \in Devices /\ job.src \in Places /\ ShellType
      /\ 2 \in Files /\ 3 \in Files /\ 5 \in Files
  BY <1>1, OutputJob DEF Base, Printing, Files
<1>3. chan[2].mode = "closed"
  BY <1>1 DEF Base, Usage, Shut
<1>4. CASE OpenRead(2, job.src) /\ Goto("copy") /\ UNCHANGED ok
  <2>1. /\ DrivesT' /\ FilesT(files') /\ ChannelsT(chan') /\ CacheT'
        /\ chan'[2].mode = "read" /\ chan'[2].place = job.src /\ chan'[2].data \in Contents(files, job.src)
        /\ \A g \in Files : g # 2 => SameUse(chan'[g], chan[g])
    BY <1>2, <1>4, OpenReadEffect
  <2>2. Reads(2)' /\ pc' = "copy"
    BY <1>1, <1>4, <2>1 DEF Reads, PrintingStep, Goto
  <2>3. Base'
    BY <1>1, <1>2, <2>1, <2>2, PrintingBase DEF Printing, SameUse
  <2> QED
    BY <1>1, <1>4, <2>1, <2>2, <2>3
<1>5. CASE OpenFails(Dev(job.src), MayRead(job.src), chan) /\ Fumble
  <2>1. /\ FilesT(files') /\ ChannelsT(chan') /\ DrivesT' /\ CacheT'
        /\ \A f \in Files : SameUse(chan'[f], chan[f])
    BY <1>2, <1>5, OpenRequests
  <2>2. pc' = "close" /\ ~ok'
    BY <1>5 DEF Fumble, Goto
  <2>3. Base'
    BY <1>1, <1>2, <1>3, <2>1, <2>2, PrintingBase DEF Printing, SameUse
  <2> QED
    BY <1>1, <2>1, <2>2, <2>3
<1> QED
  BY <1>4, <1>5 DEF OpenInput

LEMMA ListDirectoryBase ==
    ASSUME Base, ListDirectory
    PROVE  /\ Base' /\ PrintingStep /\ \A f \in Files : SameUse(chan'[f], chan[f])
           /\ UNCHANGED result
           /\ (pc' = "print" /\ UNCHANGED ok) \/ (pc' = "close" /\ ~ok')
<1>1. /\ pc = "listing" /\ PrintingStep /\ UNCHANGED result
      /\ (pc' = "print" /\ UNCHANGED ok) \/ (pc' = "close" /\ ~ok')
  BY DEF ListDirectory, PrintingStep, jobVars, historyVars, Goto, Fumble, Base, ShellType
<1>2. Dev(job.src) \in Devices /\ ShellType /\ 2 \in Files /\ 3 \in Files /\ 5 \in Files
  BY <1>1, OutputJob DEF Base, Printing, Files
<1>3. /\ FilesT(files') /\ ChannelsT(chan') /\ DrivesT' /\ CacheT'
      /\ \A f \in Files : SameUse(chan'[f], chan[f])
  BY <1>2, OpenRequests DEF ListDirectory
<1>4. chan[2].mode = "closed"
  BY <1>1 DEF Base, Usage, Shut
<1>5. Base'
  BY <1>1, <1>2, <1>3, <1>4, PrintingBase DEF Printing, SameUse
<1> QED
  BY <1>1, <1>3, <1>5

(* A chunk goes to the output, or is lost. *)
Flushed(c) ==
    \/ /\ files' = Stored(5, c) /\ ~chan[5].bad /\ ~chan'[5].bad /\ chan'[5].data = Append(chan[5].data, c)
    \/ /\ files' = files /\ chan'[5].bad

LEMMA FlushEffect ==
    ASSUME ShellType, NEW c \in Chunks, NEW cs, ChannelsT(cs), cs[5] = chan[5], NEW more, Flush(c, cs, more)
    PROVE  /\ FilesT(files') /\ ChannelsT(chan') /\ Flushed(c)
           /\ \A f \in Files : f # 5 => chan'[f] = cs[f]
           /\ chan'[5].live = chan[5].live /\ chan'[5].mode = chan[5].mode
           /\ chan'[5].place = chan[5].place
           /\ more \/ (Fumble /\ chan'[5].bad)
<1>1. FilesT(files) /\ ChannelsT(chan) /\ 5 \in Files
  BY DEF ShellType, Files
<1>2. CASE CanWrite(5) /\ files' = Stored(5, c) /\ chan' = [cs EXCEPT ![5] = Grown(5, c)] /\ more
  <2>1. PICK w \in ChannelT : /\ w = Grown(5, c) /\ w.live = chan[5].live /\ w.mode = chan[5].mode
                              /\ w.place = chan[5].place /\ w.data = Append(chan[5].data, c)
                              /\ w.bad = chan[5].bad
    BY <1>1, UsedChannels
  <2>2. w.mode # "closed" => w.place \in Places
    BY <1>1, <2>1 DEF ChannelsT
  <2>3. /\ ChannelsT([cs EXCEPT ![5] = w]) /\ [cs EXCEPT ![5] = w][5] = w
        /\ \A g \in Files : g # 5 => [cs EXCEPT ![5] = w][g] = cs[g]
    BY <1>1, <2>2, PutChannel
  <2>4. chan' = [cs EXCEPT ![5] = w]
    BY <1>2, <2>1
  <2>5. FilesT(files') /\ files' = Stored(5, c)
    BY <1>1, <1>2, StoredTyped
  <2>6. ~chan[5].bad
    BY <1>2 DEF CanWrite
  <2> QED
    BY <1>2, <2>1, <2>3, <2>4, <2>5, <2>6 DEF Flushed
<1>3. CASE /\ chan' = [cs EXCEPT ![5] = Lost(5)] /\ UNCHANGED files /\ (more \/ Fumble)
  <2>1. PICK w \in ChannelT : /\ w = Lost(5) /\ w.live = chan[5].live /\ w.mode = chan[5].mode
                              /\ w.place = chan[5].place /\ w.bad
    BY <1>1, UsedChannels
  <2>2. w.mode # "closed" => w.place \in Places
    BY <1>1, <2>1 DEF ChannelsT
  <2>3. /\ ChannelsT([cs EXCEPT ![5] = w]) /\ [cs EXCEPT ![5] = w][5] = w
        /\ \A g \in Files : g # 5 => [cs EXCEPT ![5] = w][g] = cs[g]
    BY <1>1, <2>2, PutChannel
  <2>4. chan' = [cs EXCEPT ![5] = w]
    BY <1>3, <2>1
  <2> QED
    BY <1>1, <1>3, <2>1, <2>3, <2>4 DEF Flushed
<1> QED
  BY <1>2, <1>3 DEF Flush

LEMMA TypeChunkBase ==
    ASSUME Base, TypeChunk
    PROVE  /\ Base' /\ PrintingStep
           /\ chan'[5].live = chan[5].live
           /\ \/ /\ pc' \in {"copy", "close"} /\ (pc' = "close" => ~ok') /\ chan[2].data # <<>>
                 /\ Flushed(Head(chan[2].data)) /\ chan'[2].data = Tail(chan[2].data)
              \/ /\ pc' = "close" /\ files' = files /\ chan' = chan
                 /\ ~ok' \/ chan[2].data = <<>>
           /\ UNCHANGED result
<1>1. pc = "copy" /\ UNCHANGED <<job, at, limit, before, cmddev, cmdslot, entries, cachedev, cachevalid>>
  BY DEF TypeChunk, jobVars, historyVars, commandVars, cacheVars
<1>2. /\ ShellType /\ FilesT(files) /\ ChannelsT(chan) /\ DrivesT /\ CacheT /\ ok \in BOOLEAN
      /\ 2 \in Files /\ 3 \in Files /\ 5 \in Files /\ Reads(2)
      /\ chan[2].mode = "read" /\ chan[2].place = job.src
  BY <1>1 DEF Base, ShellType, Files, Usage, Reads
<1>3. PrintingStep
  BY <1>1, <1>2 DEF PrintingStep, TypeChunk, Flush, Fumble
<1>4. DrivesT' /\ CacheT'
  BY <1>1, <1>2 DEF DrivesT, CacheT
<1>5. CASE /\ CanRead(2)
           /\ Flush(Head(chan[2].data), [chan EXCEPT ![2] = Rest(2)],
                    Fumble \/ UNCHANGED <<pc, result, ok>>)
  <2>1. chan[2].data # <<>>
    BY <1>5 DEF CanRead
  <2>2. PICK c \in Chunks : c = Head(chan[2].data)
    BY <1>2, <2>1, UsedChannels
  <2>3. PICK r \in ChannelT : /\ r = Rest(2) /\ r.live = chan[2].live /\ r.mode = chan[2].mode
                              /\ r.place = chan[2].place /\ r.data = Tail(chan[2].data)
    BY <1>2, <2>1, UsedChannels
  <2>4. r.mode # "closed" => r.place \in Places
    BY <1>2, <2>3 DEF ChannelsT
  <2>5. /\ ChannelsT([chan EXCEPT ![2] = r]) /\ [chan EXCEPT ![2] = r][2] = r
        /\ \A g \in Files : g # 2 => [chan EXCEPT ![2] = r][g] = chan[g]
    BY <1>2, <2>4, PutChannel
  <2>6. PICK cs : /\ cs = [chan EXCEPT ![2] = r] /\ ChannelsT(cs) /\ cs[2] = r
                  /\ \A g \in Files : g # 2 => cs[g] = chan[g]
    BY <2>5
  <2>7. PICK more \in BOOLEAN : more = (Fumble \/ UNCHANGED <<pc, result, ok>>)
    BY DEF Fumble
  <2>8. Flush(c, cs, more)
    BY <1>5, <2>2, <2>3, <2>6, <2>7
  <2>9. /\ FilesT(files') /\ ChannelsT(chan') /\ Flushed(c)
        /\ \A f \in Files : f # 5 => chan'[f] = cs[f]
        /\ chan'[5].live = chan[5].live /\ chan'[5].mode = chan[5].mode
        /\ chan'[5].place = chan[5].place
        /\ more \/ (Fumble /\ chan'[5].bad)
    <3>1. ShellType /\ ChannelsT(cs) /\ cs[5] = chan[5]
      BY <1>2, <2>6
    <3> QED
      BY <2>8, <3>1, FlushEffect
  <2>10. pc' \in {"copy", "close"} /\ (pc' = "close" => ~ok') /\ UNCHANGED result
    BY <1>1, <2>7, <2>9 DEF Fumble, Goto
  <2>11. \A f \in {3, 5} : chan'[f].mode = chan[f].mode /\ chan'[f].place = chan[f].place
    BY <1>2, <2>6, <2>9
  <2>12. chan'[2] = r
    BY <1>2, <2>6, <2>9
  <2>13. Reads(2)' /\ chan'[2].mode # "write"
    BY <1>1, <1>2, <2>3, <2>12 DEF Reads
  <2>14. Base'
    BY <1>1, <1>3, <1>4, <2>9, <2>10, <2>11, <2>13, PrintingBase DEF Printing
  <2> QED
    BY <1>3, <2>1, <2>2, <2>3, <2>9, <2>10, <2>12, <2>14
<1>6. CASE /\ Goto("close") /\ UNCHANGED <<files, chan>>
           /\ ok' = FALSE \/ chan[2].data = <<>>
  BY <1>6, <1>1, <1>2, <1>3, <1>4, PrintingBase DEF Goto, Printing
<1> QED
  BY <1>5, <1>6 DEF TypeChunk, AtEnd, Fumble

LEMMA PrintLineBase ==
    ASSUME Base, PrintLine
    PROVE  /\ Base' /\ PrintingStep /\ UNCHANGED result
           /\ chan'[5].live = chan[5].live
           /\ pc' = "close" /\ Flushed(Line) /\ (ok' = ok \/ ~ok')
<1>1. pc = "print" /\ UNCHANGED <<job, at, limit, before, cmddev, cmdslot, entries, cachedev, cachevalid>>
  BY DEF PrintLine, jobVars, historyVars, commandVars, cacheVars
<1>2. /\ ShellType /\ DrivesT /\ CacheT /\ ok \in BOOLEAN /\ ChannelsT(chan)
      /\ 2 \in Files /\ 3 \in Files /\ 5 \in Files /\ chan[2].mode = "closed"
  BY <1>1 DEF Base, ShellType, Files, Usage, Shut
<1>3. PICK more \in BOOLEAN : more = (Goto("close") /\ UNCHANGED ok)
  BY DEF Goto
<1>4. Line \in Chunks
  BY StartAssumption DEF Line
<1>5. /\ FilesT(files') /\ ChannelsT(chan') /\ Flushed(Line)
      /\ \A f \in Files : f # 5 => chan'[f] = chan[f]
      /\ chan'[5].live = chan[5].live /\ chan'[5].mode = chan[5].mode
      /\ chan'[5].place = chan[5].place
      /\ more \/ (Fumble /\ chan'[5].bad)
  <2>1. Flush(Line, chan, more)
    BY <1>3 DEF PrintLine
  <2> QED
    BY <1>2, <1>4, <2>1, FlushEffect
<1>6. pc' = "close" /\ UNCHANGED result /\ (ok' = ok \/ ok' = FALSE)
  BY <1>3, <1>5 DEF Fumble, Goto
<1>7. PrintingStep
  BY <1>1, <1>2, <1>6 DEF PrintingStep
<1>8. DrivesT' /\ CacheT'
  BY <1>1, <1>2 DEF DrivesT, CacheT
<1>9. \A f \in {3, 5} : chan'[f].mode = chan[f].mode /\ chan'[f].place = chan[f].place
  BY <1>2, <1>5
<1>10. chan'[2].mode # "write"
  BY <1>2, <1>5
<1>11. Base'
  BY <1>1, <1>5, <1>6, <1>7, <1>8, <1>9, <1>10, PrintingBase DEF Printing
<1> QED
  BY <1>5, <1>6, <1>7, <1>11

LEMMA CloseOutputBase ==
    ASSUME Base, CloseOutput
    PROVE  /\ Base' /\ Quiet(chan') /\ UNCHANGED <<job, at, limit, ok, before>> /\ cachevalid' = FALSE
           /\ pc' = "shell"
           /\ \E works \in BOOLEAN :
                /\ files' = Closed(5, works)
                /\ result' = "error" \/ (result' = "done" /\ ok /\ works /\ ~chan[5].bad)
<1>1. /\ pc = "close" /\ UNCHANGED <<job, at, limit, ok, before>> /\ cachevalid' = FALSE
      /\ UNCHANGED <<entries, cachedev>>
  BY DEF CloseOutput, Keep, jobVars, historyVars, Forget
<1>2. Dev(job.dst) \in Devices /\ pc \notin Loop /\ job.op = "redirect"
  BY <1>1, OutputJob DEF Printing
<1>3. PICK works \in BOOLEAN :
        /\ \/ Status(Dev(job.dst), Closed(5, works), [f \in Files |-> Idle])
           \/ /\ UseStatus(Dev(job.dst), FALSE) /\ files' = Closed(5, works)
              /\ chan' = [f \in Files |-> Idle]
        /\ pc' = "shell"
        /\ result' = "error" \/ (result' = "done" /\ ok /\ works /\ ~chan[5].bad)
  <2>1. Troubles \in BOOLEAN
    BY ChannelsAssumption
  <2>2. PICK works \in {TRUE, ~Troubles} :
          LET left == Closed(5, works)
              idle == [f \in Files |-> Idle]
          IN  \/ /\ Status(Dev(job.dst), left, idle)
                 /\ End(IF ok /\ ~Shown(works) THEN "done" ELSE "error")
              \/ /\ Troubles /\ Dev(job.dst) # Cart
                 /\ UseStatus(Dev(job.dst), FALSE) /\ files' = left /\ chan' = idle
                 /\ End("error")
    BY DEF CloseOutput
  <2>3. works \in BOOLEAN
    BY <2>1, <2>2
  <2> QED
    BY <2>2, <2>3 DEF Shown, End
<1>4. PICK fs : fs = Closed(5, works) /\ FilesT(fs)
  BY ClosedTyped DEF Base, ShellType, Files
<1>5. files' = fs /\ ChannelsT(chan') /\ Quiet(chan') /\ DrivesT'
  BY <1>3, <1>4, <1>2, LastRequest DEF Base
<1>6. Staged'
  BY <1>1, <1>3, OutputJob DEF Printing
<1>7. CacheT'
  BY <1>1 DEF Base, ShellType, CacheT
<1>8. Base'
  BY <1>1, <1>2, <1>3, <1>4, <1>5, <1>6, <1>7, QuietStep DEF Base, ShellType, Printing, Writing3, Loop
<1> QED
  BY <1>1, <1>3, <1>4, <1>5, <1>8

-----------------------------------------------------------------------------
(* Base, concluded: between commands. *)
Begun == /\ pc = "shell" /\ pc' \in {"find", "list", "prepare", "check", "resolve", "target"}
         /\ files' = files /\ chan' = chan /\ UNCHANGED commandVars
         /\ at' = 0 /\ limit' = 0 /\ ok' = TRUE /\ result' = "none"
         /\ before' = files /\ asked' = {}
         /\ UNCHANGED cacheVars \/ Forget

LEMMA BegunBase ==
    ASSUME Base, Begun, Staged', Jobs'
    PROVE  Base' /\ Quiet(chan) /\ Quiet(chan')
<1>1. Quiet(chan) /\ Quiet(chan')
  BY QuietChannels DEF Base, Begun, Printing, Writing3
<1>2. ShellType'
  BY DEF Base, ShellType, Begun, commandVars, cacheVars, Forget, DrivesT, CacheT
<1>3. Usage' /\ DiskSteps'
  BY <1>1 DEF Begun, Usage, DiskSteps, Quiet, Files, Shut, Printing, Writing3
<1> QED
  BY <1>1, <1>2, <1>3 DEF Base

LEMMA CommandBase ==
    ASSUME Base, \/ Command
                 \/ \E kind \in {"type", "dir", "echo"}, src \in Places, dst \in Places, append \in BOOLEAN :
                      Redirect(kind, src, dst, append)
    PROVE  /\ Base' /\ Begun /\ Quiet(chan) /\ Quiet(chan')
           /\ job'.op \in Ops /\ (pc' = "prepare" => job'.op = "concat")
           /\ job'.op = "redirect" => /\ job'.kind = "type" => job'.src # job'.dst
                                      /\ pc' = "resolve" => job'.kind = "type"
                                      /\ pc' \in {"resolve", "target"}
<1>1. CASE \E op \in {"copy", "move"}, src \in Places, dst \in Places : Copy(op, src, dst)
  <2>1. PICK op \in {"copy", "move"}, src \in Places, dst \in Places : Copy(op, src, dst)
    BY <1>1
  <2>2. job' = [op |-> op, src |-> src, dst |-> dst] /\ src # dst /\ pc' = "find" /\ Begun
    BY <2>1 DEF Copy, Begin, Begun, Distinct, commandVars
  <2>3. job'.op = op /\ job'.src = src /\ job'.dst = dst
    BY <2>2
  <2>4. Staged' /\ Jobs'
    BY <2>2, <2>3 DEF Staged, Jobs, CopyStages, Ops
  <2> QED
    BY <2>2, <2>3, <2>4, BegunBase DEF Ops
<1>2. CASE \E from \in Devices, to \in Devices : CopyAll(from, to)
  <2>1. PICK from \in Devices, to \in Devices : CopyAll(from, to)
    BY <1>2
  <2>2. /\ job' = [op |-> "all", src |-> <<from, 0>>, dst |-> <<to, 0>>] /\ from # to
        /\ pc' = "list" /\ Begun /\ "all" \in Commands
    BY <2>1 DEF CopyAll, Begin, Begun, channelVars
  <2>3. job'.op = "all" /\ job'.src = <<from, 0>> /\ job'.dst = <<to, 0>>
    BY <2>2
  <2>4. Dev(job'.src) # Dev(job'.dst) /\ job'.src \in Devices \X Nat /\ job'.dst \in Devices \X Nat
    BY <2>2, <2>3 DEF Dev
  <2>5. Staged' /\ Jobs'
    BY <2>2, <2>3, <2>4 DEF Staged, Jobs, CopyStages, Ops, Loop
  <2> QED
    BY <2>2, <2>3, <2>5, BegunBase DEF Ops
<1>3. CASE \E dev \in Devices : \E a, b, dst \in {p \in Places : Dev(p) = dev} : Concat(<<a, b>>, dst)
  <2>1. PICK a \in Places, b \in Places, dst \in Places : Concat(<<a, b>>, dst)
    BY <1>3
  <2>2. /\ job' = [op |-> "concat", sources |-> <<a, b>>, dst |-> dst] /\ pc' = "prepare" /\ Begun
    BY <2>1 DEF Concat, Begin, Begun, channelVars
  <2>3. job'.op = "concat" /\ job'.sources = <<a, b>> /\ job'.dst = dst
    BY <2>2
  <2>4. job'.sources[1] = a /\ job'.sources[2] = b
    BY <2>3
  <2>5. Staged' /\ Jobs'
    BY <2>2, <2>3, <2>4 DEF Staged, Jobs, CopyStages, Ops, Loop
  <2> QED
    BY <2>2, <2>3, <2>5, BegunBase DEF Ops
<1>4. CASE \E src \in Places, dst \in Places : Rename(src, dst)
  <2>1. PICK src \in Places, dst \in Places : Rename(src, dst)
    BY <1>4
  <2>2. /\ job' = [op |-> "rename", src |-> src, dst |-> dst] /\ src # dst /\ Dev(src) = Dev(dst)
        /\ pc' = "find" /\ Begun
    BY <2>1 DEF Rename, Begin, Begun, Distinct, commandVars
  <2>3. job'.op = "rename" /\ job'.src = src /\ job'.dst = dst
    BY <2>2
  <2>4. Staged' /\ Jobs'
    BY <2>2, <2>3 DEF Staged, Jobs, CopyStages, Ops
  <2> QED
    BY <2>2, <2>3, <2>4, BegunBase DEF Ops
<1>5. CASE \E dev \in Devices, matches \in SUBSET Names, how \in {"single", "all", "each"} :
             Delete(dev, matches, how)
  <2>1. PICK dev \in Devices, matches \in SUBSET Names, how \in {"single", "all", "each"} :
          Delete(dev, matches, how)
    BY <1>5
  <2>2. /\ job' = [op |-> "delete", dev |-> dev, matches |-> matches, how |-> how, src |-> <<dev, 0>>]
        /\ pc' = "check" /\ Begun
    BY <2>1 DEF Delete, Begin, Begun, channelVars
  <2>3. /\ job'.op = "delete" /\ job'.dev = dev /\ job'.matches = matches /\ job'.how = how
        /\ job'.src = <<dev, 0>>
    BY <2>2
  <2>4. job'.src[1] = job'.dev /\ job'.src = <<job'.src[1], job'.src[2]>>
    BY <2>3
  <2>5. Staged' /\ Jobs'
    BY <2>2, <2>3, <2>4 DEF Staged, Jobs, CopyStages, Ops
  <2> QED
    BY <2>2, <2>3, <2>5, BegunBase DEF Ops
<1>6. CASE \E kind \in {"type", "dir", "echo"}, src \in Places, dst \in Places, append \in BOOLEAN :
             Redirect(kind, src, dst, append)
  <2>1. PICK kind \in {"type", "dir", "echo"}, src \in Places, dst \in Places, append \in BOOLEAN :
          Redirect(kind, src, dst, append)
    BY <1>6
  <2>2. /\ job' = [op |-> "redirect", kind |-> kind, src |-> src, dst |-> dst, append |-> append]
        /\ pc' = IF kind = "type" THEN "resolve" ELSE "target"
        /\ kind = "type" => src # dst
        /\ Begun
    BY <2>1 DEF Redirect, Begin, Begun, channelVars
  <2>3. /\ job'.op = "redirect" /\ job'.kind = kind /\ job'.src = src /\ job'.dst = dst
        /\ job'.append = append
    BY <2>2
  <2>4. pc' \in {"resolve", "target"} /\ (pc' = "resolve" => kind = "type")
    BY <2>2
  <2>5. Staged' /\ Jobs'
    BY <2>2, <2>3, <2>4 DEF Staged, Jobs, CopyStages, Ops
  <2> QED
    BY <2>2, <2>3, <2>4, <2>5, BegunBase DEF Ops
<1> QED
  BY <1>1, <1>2, <1>3, <1>4, <1>5, <1>6 DEF Command

LEMMA RestartBase ==
    ASSUME Base, Restart
    PROVE  /\ Base' /\ Quiet(chan') /\ pc' = "shell" /\ cachevalid' = FALSE
           /\ UNCHANGED <<files, job, at, limit, ok, before, asked>>
           /\ (pc = "shell" => UNCHANGED result) /\ (pc # "shell" => result' = "lost")
<1>1. /\ UNCHANGED <<files, job, at, limit, ok, before, asked>> /\ pc' = "shell" /\ cachevalid' = FALSE
      /\ (pc = "shell" => UNCHANGED result) /\ (pc # "shell" => result' = "lost")
      /\ entries' = {} /\ cachedev' = Cart
  BY DEF Restart, jobVars, historyVars
<1>2. ChannelsT(chan') /\ Quiet(chan')
  BY IdleChannels DEF Restart
<1>3. DrivesT' /\ CacheT'
  BY <1>1, DevOfPlace DEF Restart, DrivesT, CacheT
<1>4. ShellType'
  BY <1>1, <1>2, <1>3 DEF Base, ShellType
<1>5. Staged'
  BY <1>1 DEF Base, Staged, Loop
<1>6. Jobs'
  BY <1>1 DEF Base, Jobs, Loop
<1>7. Usage' /\ DiskSteps'
  BY <1>1, <1>2 DEF Usage, DiskSteps, Quiet, Files, Shut, Printing, Writing3
<1> QED
  BY <1>1, <1>2, <1>4, <1>5, <1>6, <1>7 DEF Base

LEMMA InitBase == Init => Base /\ Quiet(chan) /\ before = files /\ job = NoCommand /\ pc = "shell"
<1>. SUFFICES ASSUME Init PROVE Base /\ Quiet(chan) /\ before = files /\ job = NoCommand /\ pc = "shell"
  OBVIOUS
<1>1. pc = "shell" /\ before = files /\ job = NoCommand /\ at = 0 /\ limit = 0 /\ ok = TRUE
  BY DEF Init
<1>2. ChannelsT(chan) /\ Quiet(chan) /\ DrivesT /\ CacheT
  BY IdleChannels, DevOfPlace DEF Init, Powered, DrivesT, CacheT
<1>3. FilesT(files)
  <2>1. File \subseteq FileT
    BY ChannelsAssumption DEF Data, File, FileT
  <2>2. \A p \in Places : files[p] \in {{}} \cup {{x} : x \in Start}
    BY DEF Init
  <2>3. \A p \in Places : files[p] \in SUBSET FileT /\ \A x, y \in files[p] : x = y
    BY <2>1, <2>2, StartAssumption
  <2>4. files = [p \in Places |-> files[p]] /\ \A p \in Places : Dev(p) = Cart => \A x \in files[p] : x.closed
    BY DEF Init
  <2>5. files \in [Places -> SUBSET FileT]
    BY <2>3, <2>4
  <2> QED
    BY <2>3, <2>4, <2>5 DEF FilesT
<1>4. ShellType
  BY <1>1, <1>2, <1>3 DEF ShellType
<1>5. job.op = "none"
  BY <1>1 DEF NoCommand
<1>6. Staged /\ Jobs /\ DiskSteps
  BY <1>1, <1>5 DEF Staged, Jobs, DiskSteps
<1>7. Usage
  BY <1>1, <1>2 DEF Usage, Quiet, Files, Shut, Printing, Writing3
<1> QED
  BY <1>1, <1>2, <1>4, <1>6, <1>7 DEF Base

-----------------------------------------------------------------------------
(***************************************************************************)
(* The directory cache: every request that changes a directory, or that    *)
(* may have, makes it invalid.  While a file is being written the listing  *)
(* may be old, and the close that follows makes it invalid.                *)
(***************************************************************************)
CacheKept ==
    \/ cachevalid' = FALSE
    \/ files' = files /\ UNCHANGED cacheVars
    \/ entries' = Listing(files', cachedev')

Exact == cachevalid => entries = Listing(files, cachedev)

LEMMA CacheStep ==
    ASSUME CacheInv, pc' # "pick",
           \/ CacheKept /\ pc \notin Printing \cup Writing3 /\ (pc \in Waiting => pc' \in Waiting)
           \/ Exact'
           \/ pc' \in Printing \cup Writing3
           \/ Behind' /\ pc' = "shell"
           \/ cachevalid' = FALSE
    PROVE  CacheInv'
<1>1. CASE CacheKept /\ pc \notin Printing \cup Writing3 /\ (pc \in Waiting => pc' \in Waiting)
  <2>1. CASE files' = files /\ UNCHANGED cacheVars
    BY <2>1, <1>1 DEF Behind, cacheVars, CacheInv, Fresh, PickReady
  <2>. QED  BY <1>1, <2>1 DEF CacheInv, Fresh, PickReady, CacheKept, Behind
<1>. QED  BY <1>1 DEF CacheInv, Fresh, PickReady, Exact, Behind, Waiting

(* A file begun by an open that failed is the one the cache may miss.      *)
LEMMA MissesOne ==
    ASSUME NEW p \in Places, Leaves(p), UNCHANGED cacheVars, entries = Listing(files, cachedev)
    PROVE  Behind'
<1>1. UNCHANGED <<entries, cachedev>>
  BY DEF cacheVars
<1>2. CASE files' = files
  BY <1>1, <1>2 DEF Behind
<1>3. CASE /\ Dev(p) # Cart
           /\ \A q \in Places : q # p => files'[q] = files[q]
           /\ \E x \in FileT : files'[p] = {x} /\ (files[p] = {} => x.data = <<>>)
  <2>1. CASE Dev(p) # cachedev \/ files[p] # {}
    BY <1>3, <2>1, <1>1 DEF Listing, Behind
  <2>2. CASE Dev(p) = cachedev /\ files[p] = {}
    BY <2>2, <1>3, <1>1, DevOfPlace DEF Listing, Behind
  <2>. QED  BY <2>1, <2>2
<1>. QED  BY <1>2, <1>3 DEF Leaves

LEMMA QuietCache ==
    ASSUME ShellType, Quiet(chan), NEW dev \in Devices
    PROVE  /\ Directory(dev) \/ DirectoryFails(dev) => CacheKept /\ Exact'
           /\ \A fs : CommandDone(dev, fs) => CacheKept
           /\ \A possible : CommandFails(dev, possible) => CacheKept
           /\ \A possible : OpenFails(dev, possible, chan) => CacheKept
           /\ UNCHANGED channelVars => CacheKept
<1>1. Directory(dev) \/ DirectoryFails(dev) => CacheKept /\ Exact'
  BY QuietRequests DEF CacheKept, Exact
<1>2. \A fs : CommandDone(dev, fs) => CacheKept
  BY DEF CommandDone, AfterCommand, Forget, CacheKept
<1>3. \A possible : CommandFails(dev, possible) => CacheKept
  BY QuietRequests DEF CacheKept
<1>4. \A possible : OpenFails(dev, possible, chan) => CacheKept
  BY QuietRequests DEF CacheKept, ShellType
<1>5. UNCHANGED channelVars => CacheKept
  BY DEF channelVars, CacheKept
<1> QED
  BY <1>1, <1>2, <1>3, <1>4, <1>5

(* Where pc goes. *)
LEMMA NoPick ==
    ASSUME Base, \/ FindSource \/ Prepare \/ ScratchOld \/ Duplicate \/ OpenSource \/ CreateCopy
                 \/ Stream \/ Finish \/ RemoveSource \/ RenameFile \/ Combine \/ ListAll \/ PickFile
                 \/ Check \/ Snapshot \/ Ask \/ DeleteFile \/ EraseAll \/ Resolve \/ Target
                 \/ Truncate \/ OpenOutput \/ Lookup \/ OpenInput \/ ListDirectory \/ TypeChunk
                 \/ PrintLine \/ CloseOutput
    PROVE  pc' # "pick"
<1>1. Prepared # "pick"
  BY DEF Prepared
<1>2. ~Duplicate /\ ~Finish => pc' # "pick"
  BY <1>1 DEF FindSource, Prepare, ScratchOld, OpenSource, CreateCopy, Stream, RemoveSource,
     RenameFile, Combine, ListAll, PickFile, Check, Snapshot, Ask, DeleteFile, EraseAll, Goto, End,
     Resolve, Target, Truncate, OpenOutput, Lookup, OpenInput, ListDirectory, TypeChunk, PrintLine,
     CloseOutput, Fumble, Flush
<1>3. CASE Duplicate
  BY <1>3, DuplicateBase, CopiedIs
<1>4. CASE Finish
  BY <1>4, CopyJob, FinishBase, CopiedIs DEF Finish, CopyOps
<1> QED
  BY <1>2, <1>3, <1>4

LEMMA FileCache ==
    ASSUME Base, CacheInv, ServeFile
    PROVE  CacheInv'
<1>1. ShellType
  BY DEF Base
<1>2. CASE FindSource
  <2>1. Exact'
    <3>1. Quiet(chan) /\ Dev(job.src) \in Devices
      BY <1>2, FindSourceBase, JobDevices DEF FindSource, Base, Staged, Ops, Printing
    <3> QED
      BY <1>1, <1>2, <3>1, QuietCache DEF FindSource
  <2> QED
    BY <1>2, <2>1, NoPick, CacheStep DEF Printing, Writing3, Waiting
<1>3. CASE Prepare
  <2>1. Exact'
    <3>1. Quiet(chan) /\ Dev(job.dst) \in Devices
      BY <1>3, PrepareBase, JobDevices DEF Prepare, Base, Staged, Ops, Printing
    <3> QED
      BY <1>1, <1>3, <3>1, QuietCache DEF Prepare
  <2> QED
    BY <1>3, <2>1, NoPick, CacheStep DEF Printing, Writing3, Waiting
<1>4. CASE ScratchOld
  <2>1. CacheKept /\ pc = "scratch"
    <3>1. Quiet(chan) /\ Dev(job.dst) \in Devices
      BY <1>4, ScratchOldBase, JobDevices DEF ScratchOld, Base, Staged, Ops, Printing
    <3> QED
      BY <1>1, <1>4, <3>1, QuietCache DEF ScratchOld
  <2> QED
    BY <1>4, <2>1, NoPick, CacheStep DEF Printing, Writing3, Waiting
<1>5. CASE Duplicate
  <2>1. CacheKept /\ pc = "duplicate"
    BY <1>5, <1>1, DuplicateBase, JobDevices, QuietCache DEF Duplicate
  <2> QED
    BY <1>5, <2>1, NoPick, CacheStep DEF Printing, Writing3, Waiting
<1>6. CASE OpenSource
  <2>1. CacheKept /\ pc = "open"
    BY <1>6, OpenSourceBase DEF CacheKept, OpenSource
  <2> QED
    BY <1>6, <2>1, NoPick, CacheStep DEF Printing, Writing3, Waiting
<1>7. CASE CreateCopy
  <2>1. pc = "create" /\ job.dst \in Places /\ UNCHANGED cacheVars
    BY <1>7, CreateCopyBase, CopyJob DEF CreateCopy
  <2>2. pc' \in Writing3 \/ (Leaves(job.dst) /\ pc' = "shell")
    BY <1>7, CreateCopyBase DEF Writing3
  <2>3. cachevalid => entries = Listing(files, cachedev)
    BY <2>1 DEF CacheInv, Fresh, Waiting, Printing, Writing3
  <2>4. pc' \in Writing3 \/ (Behind' /\ pc' = "shell") \/ cachevalid' = FALSE
    BY <1>1, <2>1, <2>2, <2>3, MissesOne DEF cacheVars, ShellType, CacheT
  <2> QED
    BY <1>7, <2>4, NoPick, CacheStep DEF Printing, Writing3, Waiting
<1>8. CASE Stream
  BY <1>8, NoPick, StreamBase, CacheStep DEF Writing3
<1>9. CASE Finish
  BY <1>9, NoPick, FinishBase, CacheStep
<1>10. CASE RemoveSource
  <2>1. CacheKept /\ pc = "remove"
    BY <1>10, <1>1, RemoveSourceBase, JobDevices, QuietCache DEF RemoveSource
  <2> QED
    BY <1>10, <2>1, NoPick, CacheStep DEF Printing, Writing3, Waiting
<1>11. CASE RenameFile
  <2>1. CacheKept /\ pc = "rename"
    BY <1>11, <1>1, RenameFileBase, JobDevices, QuietCache DEF RenameFile
  <2> QED
    BY <1>11, <2>1, NoPick, CacheStep DEF Printing, Writing3, Waiting
<1>12. CASE Combine
  <2>1. CacheKept /\ pc = "combine"
    BY <1>12, <1>1, CombineBase, JobDevices, QuietCache DEF Combine
  <2> QED
    BY <1>12, <2>1, NoPick, CacheStep DEF Printing, Writing3, Waiting
<1> QED
  BY <1>2, <1>3, <1>4, <1>5, <1>6, <1>7, <1>8, <1>9, <1>10, <1>11, <1>12 DEF ServeFile

LEMMA FilesCache ==
    ASSUME Base, CacheInv, ServeFiles
    PROVE  CacheInv'
<1>1. ShellType
  BY DEF Base
<1>2. CASE ListAll
  <2>1. Exact'
    BY <1>2, <1>1, ListAllBase, JobDevices, QuietCache DEF ListAll
  <2> QED
    BY <1>2, <2>1, NoPick, CacheStep DEF Printing, Writing3, Waiting
<1>3. CASE NextFile
  <2>1. pc = "next" /\ Quiet(chan) /\ Dev(job.src) \in Devices /\ UNCHANGED job
    BY <1>3, NextFileBase, JobDevices DEF NextFile, Keep, jobVars
  <2>2. CacheKept
    BY <1>1, <1>3, <2>1, QuietCache DEF NextFile
  <2>3. pc' = "pick" => Cached(Dev(job.src))'
    BY <1>3, <2>1, NextFileBase DEF Directory, Cached, channelVars, cacheVars
  <2> QED
    BY <2>1, <2>2, <2>3 DEF CacheInv, Fresh, PickReady, CacheKept, cacheVars, Printing, Writing3, Behind, Waiting
<1>4. CASE PickFile
  <2>1. pc = "pick" /\ CacheKept
    BY <1>4 DEF PickFile, CacheKept, Forget
  <2> QED
    BY <1>4, <2>1, NoPick, CacheStep DEF Printing, Writing3, Waiting
<1>5. CASE Check \/ Snapshot \/ Ask \/ DeleteFile \/ EraseAll
  <2>1. Quiet(chan) /\ job.dev \in Devices /\ pc \notin Printing \cup Writing3
    BY <1>5, DeleteStages DEF Check, Snapshot, Ask, DeleteFile, EraseAll, Printing, Writing3
  <2>2. CacheKept /\ (pc \in Waiting => Exact' \/ pc' \in Waiting)
    <3>1. CASE Check
      BY <1>1, <2>1, <3>1, QuietCache DEF Check, Goto, End, Waiting
    <3>2. CASE Snapshot
      BY <1>1, <2>1, <3>2, QuietCache DEF Snapshot, Goto, End, Waiting
    <3>3. CASE Ask
      BY <1>1, <2>1, <3>3, QuietCache DEF Ask, Goto, End, Waiting
    <3>4. CASE DeleteFile
      BY <1>1, <2>1, <3>4, QuietCache DEF DeleteFile, Goto, End, Waiting
    <3>5. CASE EraseAll
      BY <1>1, <2>1, <3>5, QuietCache DEF EraseAll, Goto, End, Waiting
    <3> QED
      BY <1>5, <3>1, <3>2, <3>3, <3>4, <3>5
  <2> QED
    BY <1>5, <2>1, <2>2, NoPick, CacheStep
<1> QED
  BY <1>2, <1>3, <1>4, <1>5 DEF ServeFiles

LEMMA OutputCache ==
    ASSUME Base, CacheInv, Output
    PROVE  CacheInv'
<1>1. ShellType
  BY DEF Base
<1>2. CASE Resolve
  <2>1. pc = "resolve" /\ Quiet(chan) /\ Dev(job.src) \in Devices
    BY <1>2, ResolveBase, OutputJob DEF Resolve
  <2>2. CacheKept /\ (Exact' \/ pc' \in Waiting)
    BY <1>1, <1>2, <2>1, QuietCache DEF Resolve, Goto, End, Waiting
  <2> QED
    BY <1>2, <2>1, <2>2, NoPick, CacheStep DEF Printing, Writing3, Waiting
<1>3. CASE Target
  <2>1. pc = "target" /\ Quiet(chan) /\ Dev(job.dst) \in Devices
    BY <1>3, TargetBase, OutputJob DEF Target
  <2>2. Exact'
    BY <1>1, <1>3, <2>1, QuietCache DEF Target
  <2> QED
    BY <1>3, <2>1, <2>2, NoPick, CacheStep DEF Printing, Writing3, Waiting
<1>4. CASE Truncate
  <2>1. pc = "truncate" /\ Quiet(chan) /\ Dev(job.dst) \in Devices
    BY <1>4, TruncateBase, OutputJob DEF Truncate
  <2>2. CacheKept
    BY <1>1, <1>4, <2>1, QuietCache DEF Truncate
  <2> QED
    BY <1>4, <2>1, <2>2, NoPick, CacheStep DEF Printing, Writing3, Waiting
<1>5. CASE OpenOutput
  <2>1. pc = "output" /\ Quiet(chan) /\ Dev(job.dst) \in Devices
    BY <1>5, OpenOutputBase, OutputJob DEF OpenOutput
  <2>2. pc' \in Printing \/ (Leaves(job.dst) /\ pc' = "shell" /\ UNCHANGED cacheVars)
    BY <1>5, OpenOutputBase DEF Printing
  <2>3. (cachevalid => entries = Listing(files, cachedev)) /\ job.dst \in Places
    BY <1>5, <2>1, OutputJob DEF CacheInv, Fresh, Waiting, Printing, Writing3
  <2>4. pc' \in Printing \/ (Behind' /\ pc' = "shell") \/ cachevalid' = FALSE
    BY <1>1, <2>2, <2>3, MissesOne DEF cacheVars, ShellType, CacheT
  <2> QED
    BY <1>5, <2>1, <2>4, NoPick, CacheStep DEF Printing, Writing3, Waiting
<1>6. CASE Lookup
  BY <1>6, LookupBase, NoPick, CacheStep DEF Printing
<1>7. CASE OpenInput
  BY <1>7, OpenInputBase, NoPick, CacheStep DEF Printing
<1>8. CASE ListDirectory
  BY <1>8, ListDirectoryBase, NoPick, CacheStep DEF Printing
<1>9. CASE TypeChunk
  BY <1>9, TypeChunkBase, NoPick, CacheStep DEF Printing
<1>10. CASE PrintLine
  BY <1>10, PrintLineBase, NoPick, CacheStep DEF Printing
<1>11. CASE CloseOutput
  BY <1>11, CloseOutputBase, NoPick, CacheStep
<1> QED
  BY <1>2, <1>3, <1>4, <1>5, <1>6, <1>7, <1>8, <1>9, <1>10, <1>11 DEF Output

LEMMA ServeBase ==
    ASSUME Base, CacheInv, ServeFile \/ ServeFiles \/ Output
    PROVE  Base'
<1>1. CASE ServeFile
  BY <1>1, FindSourceBase, PrepareBase, ScratchOldBase, DuplicateBase, OpenSourceBase, CreateCopyBase,
     StreamBase, FinishBase, RemoveSourceBase, RenameFileBase, CombineBase DEF ServeFile
<1>2. CASE ServeFiles
  BY <1>2, ListAllBase, NextFileBase, PickFileBase, CheckSnapshotBase, AskBase, DeleteFileBase,
     EraseAllBase DEF ServeFiles
<1>3. CASE Output
  BY <1>3, ResolveBase, TargetBase, TruncateBase, OpenOutputBase, LookupBase, OpenInputBase,
     ListDirectoryBase, TypeChunkBase, PrintLineBase, CloseOutputBase DEF Output
<1> QED
  BY <1>1, <1>2, <1>3

ShellInv == Base /\ CacheInv

LEMMA ShellInvNext == ShellInv /\ [Next]_shellVars => ShellInv'
<1>. SUFFICES ASSUME Base, CacheInv, [Next]_shellVars PROVE Base' /\ CacheInv'
  BY DEF ShellInv
<1>1. CASE ServeFile \/ ServeFiles \/ Output
  BY <1>1, ServeBase, FileCache, FilesCache, OutputCache
<1>2. CASE \/ Command
           \/ \E kind \in {"type", "dir", "echo"}, src \in Places, dst \in Places, append \in BOOLEAN :
                Redirect(kind, src, dst, append)
  <2>1. Base' /\ Begun
    BY <1>2, CommandBase
  <2>2. CacheKept /\ pc' # "pick" /\ pc \notin Printing \cup Writing3
    BY <2>1 DEF Begun, CacheKept, Forget, Printing, Writing3
  <2>3. pc' \in Waiting
    BY <2>1 DEF Begun, Waiting
  <2> QED
    BY <2>1, <2>2, <2>3, CacheStep
<1>3. CASE Restart
  BY <1>3, RestartBase, CacheStep
<1>4. CASE UNCHANGED shellVars
  <2>1. UNCHANGED <<files, chan, cmddev, cmdslot, entries, cachedev, cachevalid, pc, job, at, limit,
                    ok, result, before, asked>>
    BY <1>4 DEF shellVars, channelVars, commandVars, cacheVars, commandsVars, jobVars, historyVars
  <2>2. ShellType' /\ Staged' /\ Jobs' /\ DiskSteps' /\ Usage'
    BY <2>1 DEF Base, ShellType, DrivesT, CacheT, Staged, Jobs, DiskSteps, Usage, Reads, Writes, Shut
  <2>3. CacheInv'
    BY <2>1 DEF CacheInv, Fresh, PickReady, Cached, Behind
  <2> QED
    BY <2>2, <2>3 DEF Base
<1> QED
  BY <1>1, <1>2, <1>3, <1>4 DEF Next

LEMMA ShellInvInit == Init => ShellInv
<1>1. Init => Base /\ CacheInv
  BY InitBase DEF Init, Powered, CacheInv, Fresh, PickReady
<1> QED
  BY <1>1 DEF ShellInv

LEMMA ShellInvHolds == Spec => []ShellInv
BY ShellInvInit, ShellInvNext, PTL DEF Spec

(***************************************************************************)
(* core.c:1222 and filemgmt.c:195: a directory in the cache that counts as *)
(* valid is what the device would list, whichever requests failed since it *)
(* was read, but for an empty file begun by an open that failed.           *)
(***************************************************************************)
THEOREM CacheStaysFresh == Spec => []CacheIsFresh
<1>1. ShellInv => CacheIsFresh
  BY DEF ShellInv, CacheInv, Fresh, CacheIsFresh, Printing, Writing3, Waiting
<1> QED
  BY <1>1, ShellInvHolds, PTL

-----------------------------------------------------------------------------
(***************************************************************************)
(* A copy needs two drives, and there are two command channels, replaced   *)
(* in turn.  Once the destination has been asked, the source either still  *)
(* has its channel or lost it to the destination, and then the slot that   *)
(* is replaced next is not the destination's.                              *)
(***************************************************************************)
Residency ==
    job.op \in CopyOps =>
      /\ pc = "prepare" => Resident(Dev(job.src))
      /\ pc \in {"scratch", "open"} =>
           /\ Resident(Dev(job.dst))
           /\ \/ Resident(Dev(job.src)) \/ Dev(job.dst) = Cart
              \/ cmddev[cmdslot] # Dev(job.dst)
      /\ pc \in {"create", "stream", "finish"} =>
           Resident(Dev(job.src)) /\ Resident(Dev(job.dst)) /\ chan[2].live
      /\ pc \in Writing3 => chan[3].live

(* Who has a command channel after a request, and which channels live.     *)
ResidentNext(dev) == dev = Cart \/ dev \in {cmddev'[0], cmddev'[1]}

LEMMA StatusDrives ==
    ASSUME DrivesT, NEW dev \in Devices, NEW fs, NEW cs, ChannelsT(cs), Status(dev, fs, cs)
    PROVE  /\ ResidentNext(dev)
           /\ Resident(dev) =>
                /\ UNCHANGED <<cmddev, cmdslot>>
                /\ \A f \in Files : chan'[f].live = cs[f].live
           /\ ~Resident(dev) =>
                /\ dev # Cart /\ cmddev'[cmdslot] = dev /\ cmdslot' = 1 - cmdslot
                /\ cmddev'[1 - cmdslot] = cmddev[1 - cmdslot]
           /\ \A f \in Files : Dev(cs[f].place) = dev => chan'[f].live = cs[f].live
<1>1. UseStatus(dev, TRUE) /\ chan' = Cut(cs, Evicted(dev))
  BY DEF Status
<1>2. /\ ResidentNext(dev)
      /\ Resident(dev) => UNCHANGED commandVars /\ Evicted(dev) = 0
      /\ ~Resident(dev) => /\ dev # Cart /\ cmddev'[cmdslot] = dev /\ cmdslot' = 1 - cmdslot
                           /\ cmddev'[1 - cmdslot] = cmddev[1 - cmdslot]
  BY <1>1, UseStatusEffect DEF ResidentNext, Resident
<1>3. \A f \in Files : chan'[f].live = (cs[f].live /\ ~On(cs[f], Evicted(dev)))
  BY <1>1, CutEffect
<1>4. Evicted(dev) # 0 => Evicted(dev) # dev
  BY DEF Evicted, Resident, DrivesT
<1>5. Resident(dev) => \A f \in Files : chan'[f].live = cs[f].live
  <2>1. Resident(dev) => \A f \in Files : ~On(cs[f], Evicted(dev))
    BY <1>2 DEF On
  <2>2. \A f \in Files : cs[f].live \in BOOLEAN /\ chan'[f].live \in BOOLEAN
    BY <1>1, CutEffect DEF ChannelsT, ChannelT
  <2> QED
    BY <1>3, <2>1, <2>2
<1>6. \A f \in Files : Dev(cs[f].place) = dev => chan'[f].live = cs[f].live
  BY <1>4, <1>1, <1>3, CutEffect DEF On, ChannelsT, ChannelT
<1> QED
  BY <1>2, <1>5, <1>6 DEF commandVars

LEMMA ResidencyNext ==
    ASSUME ShellInv, ShellInv', Residency, [Next]_shellVars
    PROVE  Residency'
<1>. DEFINE Stages == {"prepare", "scratch", "open", "create", "stream", "finish"}
<1>1. Base /\ Base' /\ ShellType /\ DrivesT /\ ChannelsT(chan) /\ CacheInv /\ 2 \in Files /\ 3 \in Files
  BY DEF ShellInv, Base, ShellType, Files
<1>2. pc' \notin Stages \/ job'.op \notin CopyOps => Residency'
  BY DEF Residency, Writing3
<1>3. CASE FindSource
  <2>1. UNCHANGED job /\ pc' \in {"prepare", "shell"}
    BY <1>3 DEF FindSource, Keep, jobVars, Goto, End
  <2>2. CASE pc' = "prepare"
    <3>1. Status(Dev(job.src), files, chan)
      BY <1>3, <2>2 DEF FindSource, Directory, End
    <3>2. Dev(job.src) \in Devices
      BY <1>1, <1>3, JobDevices DEF FindSource, Base, Staged, Ops, Printing
    <3>3. ResidentNext(Dev(job.src))
      BY <1>1, <3>1, <3>2, StatusDrives
    <3> QED
      BY <2>1, <2>2, <3>3 DEF Residency, Resident, ResidentNext, Writing3
  <2> QED
    BY <1>2, <2>1, <2>2
<1>4. CASE Prepare
  <2>1. UNCHANGED job /\ pc' \in {"shell", "scratch", Prepared} /\ pc = "prepare"
    BY <1>4 DEF Prepare, Keep, jobVars, Goto, End
  <2>2. CASE pc' # "shell" /\ job.op \in CopyOps
    <3>1. Status(Dev(job.dst), files, chan)
      BY <1>4, <2>2 DEF Prepare, Directory, End
    <3>2. Dev(job.dst) \in Devices /\ Resident(Dev(job.src))
      BY <1>1, <2>1, <2>2, JobDevices DEF Residency, CopyOps
    <3>3. pc' \in {"scratch", "duplicate", "open"}
      BY <1>1, <2>1, <2>2, PreparedIs DEF CopyOps
    <3>4. /\ ResidentNext(Dev(job.dst))
          /\ Resident(Dev(job.dst)) => UNCHANGED <<cmddev, cmdslot>>
          /\ ~Resident(Dev(job.dst)) =>
                /\ Dev(job.dst) # Cart /\ cmdslot' = 1 - cmdslot
                /\ cmddev'[1 - cmdslot] = cmddev[1 - cmdslot]
      BY <1>1, <3>1, <3>2, StatusDrives
    <3>5. CASE Resident(Dev(job.dst))
      BY <2>1, <3>2, <3>3, <3>4, <3>5 DEF Residency, Resident, ResidentNext, Writing3
    <3>6. CASE ~Resident(Dev(job.dst))
      <4>1. cmdslot \in {0, 1}
        BY <1>1 DEF DrivesT
      <4>2. cmddev'[cmdslot'] # Dev(job.dst)
        BY <3>4, <3>6, <4>1 DEF Resident
      <4> QED
        BY <2>1, <3>3, <3>4, <4>2 DEF Residency, Resident, ResidentNext, Writing3
    <3> QED
      BY <3>5, <3>6
  <2> QED
    BY <1>2, <2>1, <2>2
<1>5. CASE ScratchOld
  <2>1. UNCHANGED job /\ pc' \in {"shell", Prepared} /\ pc = "scratch"
    BY <1>5 DEF ScratchOld, Keep, jobVars, Goto, End
  <2>2. CASE pc' # "shell" /\ job.op \in CopyOps
    <3>1. Status(Dev(job.dst), Without(files, {job.dst}), chan)
      BY <1>5, <2>2 DEF ScratchOld, CommandDone, End
    <3>2. Dev(job.dst) \in Devices /\ Resident(Dev(job.dst))
      BY <1>1, <2>1, <2>2, JobDevices DEF Residency, CopyOps
    <3>3. pc' \in {"duplicate", "open"}
      BY <1>1, <2>1, <2>2, PreparedIs DEF CopyOps
    <3>4. UNCHANGED <<cmddev, cmdslot>>
      BY <1>1, <3>1, <3>2, StatusDrives
    <3> QED
      BY <2>1, <2>2, <3>3, <3>4 DEF Residency, Resident, Writing3
  <2> QED
    BY <1>2, <2>1, <2>2
<1>6. CASE OpenSource
  <2>1. UNCHANGED job /\ pc' \in {"shell", "create"} /\ pc = "open"
    BY <1>6 DEF OpenSource, Keep, jobVars, Goto, End
  <2>2. CASE pc' # "shell"
    <3>1. PICK data \in Contents(files, job.src) :
            Status(Dev(job.src), files, [chan EXCEPT ![2] = Reading(job.src, data)])
      BY <1>6, <2>2 DEF OpenSource, OpenRead, End
    <3>2. /\ Dev(job.src) \in Devices /\ Dev(job.dst) \in Devices /\ Resident(Dev(job.dst))
          /\ \/ Resident(Dev(job.src)) \/ Dev(job.dst) = Cart
             \/ cmddev[cmdslot] # Dev(job.dst)
          /\ job.src \in Places /\ job.op \in CopyOps
      BY <1>1, <2>1, CopyJob DEF Residency
    <3>3. data \in Seq(Chunks)
      BY <1>1, <3>1, <3>2, OneContents DEF ShellType
    <3>4. PICK c \in ChannelT : c = Reading(job.src, data) /\ c.live /\ c.place = job.src
      BY <3>2, <3>3, NewChannels
    <3>5. PICK cs : cs = [chan EXCEPT ![2] = c] /\ ChannelsT(cs) /\ cs[2] = c
      <4>1. ChannelsT([chan EXCEPT ![2] = c]) /\ [chan EXCEPT ![2] = c][2] = c
        BY <1>1, <3>2, <3>4, PutChannel
      <4> QED
        BY <4>1
    <3>6. Status(Dev(job.src), files, cs)
      BY <3>1, <3>4, <3>5
    <3>7. /\ ResidentNext(Dev(job.src)) /\ chan'[2].live = c.live
          /\ Resident(Dev(job.src)) => UNCHANGED <<cmddev, cmdslot>>
          /\ ~Resident(Dev(job.src)) => cmddev'[1 - cmdslot] = cmddev[1 - cmdslot]
      <4>1. Dev(cs[2].place) = Dev(job.src) /\ cs[2].live = c.live
        BY <3>4, <3>5
      <4>2. /\ ResidentNext(Dev(job.src))
            /\ Resident(Dev(job.src)) => UNCHANGED <<cmddev, cmdslot>>
            /\ ~Resident(Dev(job.src)) => cmddev'[1 - cmdslot] = cmddev[1 - cmdslot]
            /\ \A f \in Files : Dev(cs[f].place) = Dev(job.src) => chan'[f].live = cs[f].live
        <5>1. DrivesT /\ Dev(job.src) \in Devices /\ ChannelsT(cs)
          BY <1>1, <3>2, <3>5
        <5> QED
          BY <3>6, <5>1, StatusDrives
      <4> QED
        BY <1>1, <4>1, <4>2
    <3>8. ResidentNext(Dev(job.dst))
      <4>1. CASE Resident(Dev(job.src))
        BY <3>2, <3>7, <4>1 DEF Resident, ResidentNext
      <4>2. CASE ~Resident(Dev(job.src)) /\ Dev(job.dst) # Cart
        BY <1>1, <3>2, <4>2, <3>7 DEF DrivesT, Resident, ResidentNext
      <4> QED
        BY <4>1, <4>2 DEF ResidentNext
    <3>9. pc' = "create"
      BY <2>1, <2>2
    <3> QED
      BY <2>1, <3>4, <3>7, <3>8, <3>9 DEF Residency, Resident, ResidentNext, Writing3
  <2> QED
    BY <1>2, <2>1, <2>2
<1>7. CASE CreateCopy
  <2>1. UNCHANGED job /\ pc' \in {"shell", "stream"} /\ pc = "create"
    BY <1>7 DEF CreateCopy, Keep, jobVars, Goto, End
  <2>2. CASE pc' # "shell"
    <3>1. /\ Dev(job.src) \in Devices /\ Dev(job.dst) \in Devices /\ job.dst \in Places
          /\ Resident(Dev(job.dst)) /\ Resident(Dev(job.src)) /\ chan[2].live
      BY <1>1, <2>1, CopyJob DEF Residency
    <3>2. PICK fs : Status(Dev(job.dst), fs, [chan EXCEPT ![3] = Writing(job.dst, <<>>)])
      BY <1>7, <2>2 DEF CreateCopy, OpenWrite, End
    <3>3. PICK c \in ChannelT : c = Writing(job.dst, <<>>) /\ c.live /\ c.place = job.dst
      <4>1. PICK none \in Seq(Chunks) : none = <<>>
        <5>1. <<>> \in Seq(Chunks)
          OBVIOUS
        <5> QED
          BY <5>1, Zenon
      <4>2. PICK c \in ChannelT : c = Writing(job.dst, none) /\ c.live /\ c.place = job.dst
        BY <3>1, NewChannels
      <4> QED
        BY <4>1, <4>2
    <3>4. PICK cs : /\ cs = [chan EXCEPT ![3] = c] /\ ChannelsT(cs) /\ cs[3] = c
                    /\ \A g \in Files : g # 3 => cs[g] = chan[g]
      <4>1. /\ ChannelsT([chan EXCEPT ![3] = c]) /\ [chan EXCEPT ![3] = c][3] = c
            /\ \A g \in Files : g # 3 => [chan EXCEPT ![3] = c][g] = chan[g]
        BY <1>1, <3>1, <3>3, PutChannel
      <4> QED
        BY <4>1
    <3>5. Status(Dev(job.dst), fs, cs)
      BY <3>2, <3>3, <3>4
    <3>6. UNCHANGED <<cmddev, cmdslot>> /\ \A f \in Files : chan'[f].live = cs[f].live
      <4>1. DrivesT /\ Dev(job.dst) \in Devices /\ ChannelsT(cs) /\ Resident(Dev(job.dst))
        BY <1>1, <3>1, <3>4
      <4> QED
        BY <3>5, <4>1, StatusDrives
    <3>7. chan'[2].live /\ chan'[3].live
      BY <1>1, <3>1, <3>3, <3>4, <3>6
    <3> QED
      BY <2>1, <2>2, <3>1, <3>6, <3>7 DEF Residency, Resident, Writing3
  <2> QED
    BY <1>2, <2>1, <2>2
<1>8. CASE Stream
  BY <1>1, <1>8, StreamBase DEF commandVars, Stream, Residency, Resident, Writing3
<1>9. CASE Finish
  <2>1. pc' \in {"shell", "remove", "next"}
    BY <1>1, <1>9, CopyJob, FinishBase, CopiedIs DEF Finish, CopyOps
  <2> QED
    BY <1>2, <2>1
<1>10. CASE Duplicate
  BY <1>1, <1>10, <1>2, DuplicateBase, CopiedIs
<1>11. CASE RemoveSource \/ RenameFile \/ Combine
  BY <1>1, <1>2, <1>11, RemoveSourceBase, RenameFileBase, CombineBase
<1>12. CASE ServeFiles
  <2>1. CASE ListAll \/ NextFile \/ PickFile
    BY <1>1, <1>2, <2>1, ListAllBase, NextFileBase, PickFileBase
  <2>2. CASE Check \/ Snapshot \/ Ask \/ DeleteFile \/ EraseAll
    BY <1>1, <1>2, <2>2, DeleteStages
  <2> QED
    BY <1>12, <2>1, <2>2 DEF ServeFiles
<1>13. CASE Output
  <2>1. UNCHANGED job
    BY <1>1, <1>13, ResolveBase, TargetBase, TruncateBase, OpenOutputBase, LookupBase, OpenInputBase,
       ListDirectoryBase, TypeChunkBase, PrintLineBase, CloseOutputBase DEF Output, PrintingStep
  <2>2. job.op = "redirect"
    <3>1. pc \in Printing \cup {"resolve", "target", "truncate", "output"}
      BY <1>13 DEF Output, Resolve, Target, Truncate, OpenOutput, Lookup, OpenInput, ListDirectory,
         TypeChunk, PrintLine, CloseOutput, Printing
    <3> QED
      BY <1>1, <3>1, OutputJob
  <2> QED
    BY <1>2, <2>1, <2>2 DEF CopyOps
<1>14. CASE \/ Command
            \/ \E kind \in {"type", "dir", "echo"}, src \in Places, dst \in Places, append \in BOOLEAN :
                 Redirect(kind, src, dst, append)
  BY <1>1, <1>14, <1>2, CommandBase DEF Begun, CopyOps
<1>15. CASE Restart
  BY <1>1, <1>2, <1>15, RestartBase
<1>16. CASE UNCHANGED shellVars
  BY <1>16 DEF shellVars, channelVars, commandVars, commandsVars, jobVars, Residency, Resident
<1> QED
  BY <1>3, <1>4, <1>5, <1>6, <1>7, <1>8, <1>9, <1>10, <1>11, <1>12, <1>13, <1>14, <1>15, <1>16
  DEF Next, ServeFile

(***************************************************************************)
(* core.c:570 and disk.c:88: while COPY or MOVE has files open, no request *)
(* closes one of them, with any number of drives.                          *)
(***************************************************************************)
THEOREM CopiesKeepTheirFiles == Spec => []CopiesStayOpen
<1>1. Init => Residency
  BY InitBase DEF Residency, NoCommand, CopyOps
<1>2. ShellInv /\ ShellInv' /\ Residency /\ [Next]_shellVars => Residency'
  BY ResidencyNext
<1>3. ShellInv /\ Residency => CopiesStayOpen
  <2>. SUFFICES ASSUME Base, Residency, job.op \in CopyOps, NEW f \in Files, Open(f) PROVE chan[f].live
    BY DEF ShellInv, CopiesStayOpen, LiveFilesStayOpen, CopyOps
  <2>1. pc \notin Printing
    BY DEF Base, Staged, Printing, CopyOps, CopyStages, Loop
  <2>2. CASE f = 2
    BY <2>1, <2>2 DEF Base, Usage, Shut, Open, Printing, Residency
  <2>3. CASE f = 3
    BY <2>3 DEF Base, Usage, Shut, Open, Residency
  <2>4. CASE f = 5
    BY <2>1, <2>4 DEF Base, Usage, Shut, Open
  <2> QED
    BY <2>2, <2>3, <2>4 DEF Files
<1> QED
  BY <1>1, <1>2, <1>3, ShellInvHolds, PTL DEF Spec

===============================================================================
