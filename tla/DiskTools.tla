------------------------------ MODULE DiskTools ------------------------------
(***************************************************************************)
(* The commands of src/disk.c, among them the copy of a REL file, and      *)
(* ATTRIB on a disk (src/filemgmt.c): they work on the sectors of a disk,  *)
(* through a buffer in the drive ("#", logical file 2, and 3 for a second  *)
(* drive or the copy) and its command channel.  tool names the request     *)
(* that comes next; a question and RUN/STOP are choices.                   *)
(***************************************************************************)
EXTENDS Channels

CONSTANTS
    Models,     \* what drives there may be: drive -> 1 (1541), 2 (1571), 3 (1581) or 0
    SIDE,       \* tracks of one side of a floppy disk: 35
    PerTrack,   \* track of one side -> its sectors: 21 to 17
    DENSE,      \* tracks of a 1581 disk: 80,
    PERDENSE,   \* of so many sectors: 40
    HEADER, DENSEHEADER, \* the track of the header: 18, 40
    Labels, Ids,
    Catalog,    \* drive -> the directory and the REL files on its disk
    Patterns    \* what ATTRIB may be asked for: sets of names

(* What a directory and a REL file on a disk are made of. *)
DiskEntry == [name: STRING, used: BOOLEAN, mark: {"locked", "unlocked"}, rel: SUBSET [len: Nat, first: Nat]]
DiskListing == [next: Nat, entries: SUBSET DiskEntry]

ASSUME DiskAssumption ==
    /\ Models \subseteq [Disks -> 0..3]
    /\ \A dev \in Disks : Catalog[dev].list \in Seq(DiskListing)
    /\ SIDE \in Nat \ {0} /\ PerTrack \in [1..SIDE -> Nat \ {0}]
    /\ DENSE \in Nat \ {0, SIDE, 2 * SIDE} /\ PERDENSE \in Nat /\ PERDENSE > 3
    /\ HEADER \in 1..SIDE /\ DENSEHEADER \in 1..DENSE

VARIABLES
    tool,     \* the next request
    model,    \* the drives
    task,     \* the command
    disk,     \* drive -> its disk
    buffer,   \* drive -> the sector in its buffer
    io,       \* the sector in the shell's buffer
    eof,      \* logical file -> has readio() seen its end?
    block,    \* the transfer under way
    verdict,  \* of the last command
    progress, \* of a walk along a chain of sectors, and of a record
    relative, \* the REL file that is written
    original, \* history: the disks when the command began
    excuse    \* history: a device failed or the user stopped the command

fileVars == <<progress, relative>>
diskVars == <<model, task, disk, buffer, io, eof, block, original, fileVars>>
toolVars == <<channelVars, tool, diskVars, verdict, excuse>>

-----------------------------------------------------------------------------
(* Disks                                                                   *)

TrackSectors(track, tracks) ==
    IF tracks = DENSE THEN PERDENSE ELSE PerTrack[IF track > SIDE THEN track - SIDE ELSE track]

Sectors(tracks) == UNION {{tr} \X (0..TrackSectors(tr, tracks) - 1) : tr \in 1..tracks}

(* A disk has its number of tracks, and sectors: a header, on a 1581 disk  *)
(* two more that repeat its ID, the directory on the rest of that track,   *)
(* the blocks of REL files, from the first track on, and data.             *)
HeaderOf(tracks) == <<IF tracks = DENSE THEN DENSEHEADER ELSE HEADER, 0>>
Repeats(tracks) == IF tracks = DENSE THEN {<<DENSEHEADER, 1>>, <<DENSEHEADER, 2>>} ELSE {}

Title(tracks, label, id) == [kind |-> "header", tracks |-> tracks, label |-> label, id |-> id]
Repeated(id) == [kind |-> "repeat", id |-> id]
Payload(owner, s) == [kind |-> "data", owner |-> owner, at |-> s]

(***************************************************************************)
(* catalog.list: its directory sectors, catalog.blocks: its REL blocks.    *)
(* Each links to the one numbered next, 0 at the end of the chain; a link  *)
(* may be damaged.                                                         *)
(***************************************************************************)
FirstList(tracks) == IF tracks = DENSE THEN <<DENSEHEADER, 3>> ELSE <<HEADER, 1>>
ListSector(tracks, i) ==
    IF i = 0 THEN <<0, 0>> ELSE <<FirstList(tracks)[1], FirstList(tracks)[2] + i - 1>>
BlockSector(i) == IF i = 0 THEN <<0, 0>> ELSE <<1, i - 1>>

ListOf(tracks, x) == [kind |-> "list", next |-> ListSector(tracks, x.next), entries |-> x.entries]
BlockOf(x) == [kind |-> "block", next |-> BlockSector(x.next), bytes |-> x.bytes]
Formatted == [list |-> <<>>, blocks |-> <<>>]
NoEntries == [next |-> 0, entries |-> {}]

(* A disk of the size whose data sectors owner has written; 0: "n0:".      *)
Disk(tracks, label, id, owner, catalog) ==
    [s \in Sectors(tracks) |->
       IF s = HeaderOf(tracks) THEN Title(tracks, label, id)
       ELSE IF s \in Repeats(tracks) THEN Repeated(id)
       ELSE IF s[1] = HeaderOf(tracks)[1]
         THEN LET i == s[2] - FirstList(tracks)[2] + 1 IN
              ListOf(tracks, IF i \in DOMAIN catalog.list THEN catalog.list[i] ELSE NoEntries)
       ELSE IF s[1] = 1 /\ s[2] + 1 \in DOMAIN catalog.blocks
         THEN BlockOf(catalog.blocks[s[2] + 1]) ELSE Payload(owner, s)]

Size(dev) == CASE model[dev] = 3 -> DENSE [] model[dev] = 2 -> 2 * SIDE [] OTHER -> SIDE
HeaderSector(dev) == <<IF model[dev] = 3 THEN DENSEHEADER ELSE HEADER, 0>>

-----------------------------------------------------------------------------
(* Requests                                                                *)

To(label) == tool' = label /\ UNCHANGED <<verdict, excuse>>
Stopped(v, why) == tool' = "over" /\ verdict' = v /\ excuse' = (excuse \/ why)

Buffered(f, dev) == [chan EXCEPT ![f] = Reading(<<dev, 0>>, <<>>)]
Released(cs, f) == [cs EXCEPT ![f] = Idle]

(* A command to dev that is carried out or fails. *)
Does(dev) == CommandDone(dev, files)
Fails(dev) == CommandFails(dev, TRUE)

(* bank_rawchannel() *)
RawOpened(f, dev) ==
    /\ chan' = Buffered(f, dev) /\ eof' = [eof EXCEPT ![f] = FALSE]
    /\ UNCHANGED <<files, commandVars, cacheVars>>

RawFails(f) ==
    Troubles /\ chan' = Released(chan, f) /\ UNCHANGED <<files, commandVars, cacheVars>>

(* bank_blockchannel(): the transfer of one sector; then says what follows *)
(* it, and otherwise what follows when it fails.                           *)
Transfer(f, dev, sector, writing, then, otherwise) ==
    /\ To(IF writing THEN "point" ELSE "seek")
    /\ block' = [file |-> f, dev |-> dev, sector |-> sector, writing |-> writing,
                 then |-> then, otherwise |-> otherwise]

Fault == tool' = block.otherwise /\ excuse' = TRUE /\ UNCHANGED verdict
Refused == To(block.otherwise)

Point ==
    /\ tool = "point"
    /\ \/ Does(block.dev) /\ To("fill")
       \/ Fails(block.dev) /\ Fault
    /\ UNCHANGED diskVars

Fill ==
    /\ tool = "fill"
    /\ \/ /\ chan[block.file].live
          /\ buffer' = [buffer EXCEPT ![block.dev] = io] /\ To("seek")
       \/ ~chan[block.file].live /\ Refused /\ UNCHANGED buffer
       \/ Troubles /\ Fault /\ UNCHANGED buffer
    /\ UNCHANGED <<channelVars, model, task, disk, io, eof, block, original, fileVars>>

(* U1 rewinds the buffer, with it the end of file. *)
SeekEof_Kept == eof
SeekEof == [eof EXCEPT ![block.file] = FALSE]

(* U1 and U2: without its channel, the drive knows no buffer.              *)
Seek ==
    LET dev == block.dev IN
    /\ tool = "seek"
    /\ \/ /\ Does(dev) /\ chan'[block.file].live
          /\ IF block.writing
               THEN /\ disk' = [disk EXCEPT ![dev][block.sector] = buffer[dev]]
                    /\ To(block.then) /\ UNCHANGED buffer
               ELSE /\ buffer' = [buffer EXCEPT ![dev] = disk[dev][block.sector]]
                    /\ To("fetch") /\ UNCHANGED disk
          /\ eof' = SeekEof
       \/ Fails(dev) /\ Fault /\ UNCHANGED <<disk, buffer, eof>>
       \/ /\ Does(dev) /\ ~chan'[block.file].live
          /\ Refused /\ UNCHANGED <<disk, buffer, eof>>
    /\ UNCHANGED <<model, task, io, block, original, fileVars>>

(* readio(): the last byte of the sector is the end of the file. *)
Fetch ==
    /\ tool = "fetch"
    /\ \/ /\ chan[block.file].live /\ ~eof[block.file]
          /\ io' = buffer[block.dev] /\ eof' = [eof EXCEPT ![block.file] = TRUE]
          /\ To(block.then)
       \/ (~chan[block.file].live \/ eof[block.file]) /\ Refused /\ UNCHANGED <<io, eof>>
       \/ Troubles /\ Fault /\ UNCHANGED <<io, eof>>
    /\ UNCHANGED <<channelVars, model, task, disk, buffer, block, original, fileVars>>

Block == Point \/ Fill \/ Seek \/ Fetch

-----------------------------------------------------------------------------
(* Commands                                                                *)

(* seen, found: of ATTRIB; count: the sectors of the chain; len, off, part *)
(* and record: of the REL file, its sector and its record; slot: of the    *)
(* command channel that positions in the copy.                             *)
NoProgress ==
    [seen |-> {}, found |-> FALSE, count |-> 0, len |-> 0, off |-> 0, part |-> <<>>, record |-> 1, slot |-> 0]

(* The records of a REL file, and the one that is written next. *)
Unwritten == [records |-> <<>>, spot |-> 1]

Start(t, label) ==
    /\ tool' = label /\ task' = t /\ verdict' = "none" /\ original' = disk /\ excuse' = FALSE
    /\ progress' = NoProgress /\ relative' = Unwritten
    /\ UNCHANGED <<channelVars, model, disk, buffer, io, eof, block>>

(* tracks, id: of the source; at: the sector of a loop; ok: nothing failed *)
(* so far and nothing is still to be asked for; names, mark: of ATTRIB or  *)
(* the copy.                                                               *)
Task(op, src, dst, label, id) ==
    [op |-> op, src |-> src, dst |-> dst, label |-> label, id |-> id, tracks |-> Size(dst),
     at |-> <<1, 0>>, ok |-> TRUE, names |-> {}, mark |-> "shown"]

ListedFiles(d) == UNION {d[s].entries : s \in {s \in DOMAIN d : d[s].kind = "list"}}
RelNames(d) == {e.name : e \in {e \in ListedFiles(d) : e.used /\ e.rel # {}}}

Command ==
    tool = "ready" /\ \E dev \in Disks, label \in Labels, id \in Ids :
      \/ Start(Task("format", dev, dev, label, id), "identify")
      \/ Start(Task("label", dev, dev, label, ""), "identify")
      \/ Start([Task("label", dev, dev, label, "") EXCEPT !.ok = FALSE], "find") \* the label is asked for
      \/ Start(Task("diskid", dev, dev, "", id), "identify")
      \/ \E dst \in Disks \ {dev} : Start(Task("diskcopy", dev, dst, "mcs-copy", ""), "first")
      \/ Start(Task("vol", dev, dev, "", ""), "find")
      \/ \E begin \in {"find", "validate"} : Start(Task("chkdsk", dev, dev, "", ""), begin)
      \/ Start(Task("diskinit", dev, dev, "", ""), "initialize")
      \/ \E names \in Patterns, mark \in {"locked", "unlocked", "shown"} :
           Start([Task("attrib", dev, dev, "", "") EXCEPT !.names = names, !.mark = mark], "identify")
      \/ \E dst \in Disks, name \in RelNames(disk[dev]) :
           Start([Task("copyrel", dev, dst, "", "") EXCEPT !.names = {name}], "find")

(* bank_drivetype() *)
Identify(dev, refused, label) ==
    \/ /\ Status(dev, files, chan) /\ UNCHANGED cacheVars
       /\ IF refused THEN Stopped("error", FALSE) ELSE To(label)
    \/ NotReady(dev, chan) /\ UNCHANGED cacheVars /\ Stopped("error", TRUE)

IdentifyBoth ==
    /\ \/ tool = "first" /\ Identify(task.src, FALSE, "second")
       \/ /\ tool = "second"
          /\ Identify(task.dst, model[task.src] = 0 \/ model[task.dst] # model[task.src], "identify")
    /\ UNCHANGED diskVars

(* bank_bam(): the family, 1571 mode, then the header. *)
IdentifyDrive ==
    /\ tool = "identify"
    /\ Identify(task.src, model[task.src] = 0,
                IF task.op = "format" THEN "agree"
                ELSE IF model[task.src] = 2 THEN "mode" ELSE "open")
    /\ UNCHANGED diskVars

Mode ==
    /\ tool = "mode"
    /\ \/ Does(task.src) /\ To(IF task.op = "format" THEN "format" ELSE "open")
       \/ Fails(task.src) /\ Stopped("error", TRUE)
    /\ UNCHANGED diskVars

OpenHeader ==
    /\ tool = "open"
    /\ \/ /\ RawOpened(2, task.src)
          /\ Transfer(2, task.src, HeaderSector(task.src), FALSE, "header", "give up")
       \/ RawFails(2) /\ Stopped("error", TRUE) /\ UNCHANGED <<eof, block>>
    /\ UNCHANGED <<model, task, disk, buffer, io, original, fileVars>>

GiveUp ==
    /\ tool = "give up"
    /\ chan' = Released(chan, 2) /\ Stopped("error", FALSE)
    /\ UNCHANGED <<files, commandVars, cacheVars, diskVars>>

Supported(dev) ==
    /\ io.kind = "header"
    /\ io.tracks = DENSE <=> model[dev] = 3
    /\ io.tracks = 2 * SIDE => model[dev] = 2

CheckHeader ==
    /\ tool = "header"
    /\ chan' = Released(chan, 2)
    /\ IF ~Supported(task.src) THEN Stopped("error", FALSE) /\ UNCHANGED task
       ELSE IF task.op \in {"vol", "chkdsk"} THEN Stopped("done", FALSE) /\ UNCHANGED task
       ELSE IF ~task.ok
         THEN (To("identify") \/ Stopped("refused", TRUE)) /\ task' = [task EXCEPT !.ok = TRUE]
       ELSE IF task.op \in {"label", "diskid"} THEN To("change") /\ UNCHANGED task
       ELSE IF task.op = "diskcopy"
         THEN To("agree") /\ task' = [task EXCEPT !.tracks = io.tracks, !.id = io.id]
         ELSE To("open list") /\ task' = [task EXCEPT !.tracks = io.tracks, !.at = FirstList(io.tracks)]
    /\ UNCHANGED <<files, commandVars, cacheVars, model, disk, buffer, io, eof, block, original, fileVars>>

-----------------------------------------------------------------------------
(* VOL, CHKDSK, with "v0" or without, and the listing of LABEL and COPY     *)

Validate ==
    /\ tool = "validate"
    /\ \/ Does(task.src) /\ To("find")
       \/ Fails(task.src) /\ Stopped("error", TRUE)
    /\ UNCHANGED diskVars

(* What follows needs the header: VOL shows the ID of the disk too         *)
(* (core.c:260).                                                           *)
List ==
    /\ tool = "find"
    /\ \/ Directory(task.src) /\ To("identify")
       \/ DirectoryFails(task.src) /\ Stopped("error", TRUE)
    /\ UNCHANGED diskVars

-----------------------------------------------------------------------------
(* LABEL and DISKID                                                        *)

Hit_Scratched(e) == e.name \in task.names
Hit(e) == e.used /\ e.name \in task.names
Marked(e) == IF Hit(e) /\ task.mark # "shown" THEN [e EXCEPT !.mark = task.mark] ELSE e

Changed(sector) ==
    CASE task.op = "label" -> [sector EXCEPT !.label = task.label]
      [] task.op = "diskid" -> [sector EXCEPT !.id = task.id]
      [] task.op = "attrib" -> [sector EXCEPT !.entries = {Marked(e) : e \in @}]

Change ==
    /\ tool = "change"
    /\ io' = Changed(io)
    /\ \/ /\ RawOpened(2, task.src)
          /\ Transfer(2, task.src, HeaderSector(task.src), TRUE, "changed", "give up")
       \/ RawFails(2) /\ Stopped("error", TRUE) /\ UNCHANGED <<eof, block>>
    /\ UNCHANGED <<model, task, disk, buffer, original, fileVars>>

(* A 1581 keeps the ID twice more. *)
Copies_None == 0
Copies == IF task.op = "diskid" /\ model[task.src] = 3 THEN 2 ELSE 0

(* io still holds the sector before. *)
ReadFirst_Forgotten == FALSE
ReadFirst == TRUE

NextCopy ==
    /\ tool = "changed"
    /\ LET se == block.sector[2] + 1 IN
       IF se <= Copies
         THEN /\ Transfer(2, task.src, <<DENSEHEADER, se>>, ~ReadFirst, "repeat", "give up")
              /\ UNCHANGED channelVars
         ELSE /\ chan' = Released(chan, 2) /\ Forget /\ To("initialize")
              /\ UNCHANGED <<files, commandVars, block>>
    /\ UNCHANGED <<model, task, disk, buffer, io, eof, original, fileVars>>

ChangeCopy ==
    /\ tool = "repeat"
    /\ io' = Changed(io)
    /\ Transfer(2, task.src, block.sector, TRUE, "changed", "give up")
    /\ UNCHANGED <<channelVars, model, task, disk, buffer, eof, original, fileVars>>

(* "i0": DISKCOPY does not depend on it. *)
Initialize ==
    /\ tool = "initialize"
    /\ IF task.op = "diskcopy"
         THEN /\ Does(task.dst) \/ Fails(task.dst)
              /\ Stopped(IF task.ok THEN "complete" ELSE "incomplete", FALSE)
         ELSE \/ Does(task.src) /\ Stopped("done", FALSE)
              \/ Fails(task.src) /\ Stopped("error", TRUE)
    /\ UNCHANGED diskVars

-----------------------------------------------------------------------------
(* FORMAT and DISKCOPY                                                     *)

Agree ==
    /\ tool = "agree"
    /\ \/ Stopped("refused", TRUE)
       \/ To(IF model[task.dst] # 2 THEN "format" ELSE IF task.op = "format" THEN "mode" ELSE "side")
    /\ UNCHANGED <<channelVars, diskVars>>

Side ==
    /\ tool = "side"
    /\ \/ Does(task.dst) /\ To("format")
       \/ Fails(task.dst) /\ Stopped("error", TRUE)
    /\ UNCHANGED diskVars

FormatDisk ==
    /\ tool = "format"
    /\ \/ /\ Does(task.dst)
          /\ disk' = [disk EXCEPT ![task.dst] = Disk(task.tracks, task.label, task.id, 0, Formatted)]
          /\ IF task.op = "format" THEN Stopped("done", FALSE) ELSE To("settle")
       \/ Fails(task.dst) /\ Stopped("error", TRUE) /\ UNCHANGED disk
    /\ UNCHANGED <<model, task, buffer, io, eof, block, original, fileVars>>

(* Both command channels are there before the buffers are opened: one that *)
(* came later could take the place of the other, and close its buffer.     *)
Settle ==
    /\ tool \in {"settle", "settle both"}
    /\ LET dev == IF tool = "settle" THEN task.src ELSE task.dst IN
       \/ /\ Status(dev, files, chan)
          /\ To(IF tool = "settle" THEN "settle both" ELSE "open first")
       \/ NotReady(dev, chan) /\ Stopped("error", TRUE)
    /\ UNCHANGED <<cacheVars, diskVars>>

OpenBoth ==
    /\ \/ /\ tool = "open first"
          /\ \/ RawOpened(2, task.src) /\ To("open second")
             \/ RawFails(2) /\ Stopped("error", TRUE) /\ UNCHANGED eof
       \/ /\ tool = "open second"
          /\ \/ RawOpened(3, task.dst) /\ To("read")
             \/ /\ Troubles /\ Stopped("error", TRUE)
                /\ chan' = Released(Released(chan, 2), 3)
                /\ UNCHANGED <<files, commandVars, cacheVars, eof>>
    /\ UNCHANGED <<model, task, disk, buffer, io, block, original, fileVars>>

ReadSector ==
    /\ tool = "read"
    /\ Transfer(2, task.src, task.at, FALSE, "write", "broken")
    /\ UNCHANGED <<channelVars, model, task, disk, buffer, io, eof, original, fileVars>>

WriteSector ==
    /\ tool = "write"
    /\ Transfer(3, task.dst, task.at, TRUE, "written", "broken")
    /\ UNCHANGED <<channelVars, model, task, disk, buffer, io, eof, original, fileVars>>

LastTrack_Short == task.tracks - 1
LastTrack == task.tracks

NextSector ==
    /\ tool = "written"
    /\ \/ tool' = "broken" /\ excuse' = TRUE /\ UNCHANGED <<verdict, task>>      \* RUN/STOP
       \/ LET tr == task.at[1]
              se == task.at[2] + 1
          IN  IF se < TrackSectors(tr, task.tracks)
                THEN To("read") /\ task' = [task EXCEPT !.at = <<tr, se>>]
              ELSE IF tr < LastTrack
                THEN To("read") /\ task' = [task EXCEPT !.at = <<tr + 1, 0>>]
              ELSE To("whole") /\ UNCHANGED task
    /\ UNCHANGED <<channelVars, model, disk, buffer, io, eof, block, original, fileVars>>

CloseBoth ==
    /\ tool \in {"whole", "broken"}
    /\ chan' = Released(Released(chan, 2), 3)
    /\ task' = [task EXCEPT !.ok = tool = "whole"]
    /\ To("initialize")
    /\ UNCHANGED <<files, commandVars, cacheVars, model, disk, buffer, io, eof, block, original, fileVars>>

-----------------------------------------------------------------------------
(* The directory: ATTRIB, and the search for a REL file                    *)

OpenList ==
    /\ tool = "open list"
    /\ \/ RawOpened(2, task.src) /\ To("list")
       \/ RawFails(2) /\ Stopped("error", TRUE) /\ UNCHANGED eof
    /\ UNCHANGED <<model, task, disk, buffer, io, block, original, fileVars>>

OffTheDisk(s) == s[1] > task.tracks \/ s[2] >= TrackSectors(s[1], task.tracks)

(* ATTRIB never reads a sector twice; a search reads no more of them than  *)
(* the track has.                                                          *)
Astray(s) ==
    LET start == FirstList(task.tracks) IN
    \/ s[1] # start[1]
    \/ OffTheDisk(s)
    \/ task.op = "attrib" /\ (s[2] < start[2] \/ s \in progress.seen)
    \/ task.op = "copyrel" /\ progress.count >= TrackSectors(start[1], task.tracks)

NextList ==
    /\ tool = "list"
    /\ LET s == task.at IN
       IF s[1] = 0 THEN To("listed") /\ UNCHANGED <<block, progress>>
       ELSE IF Astray(s) THEN To("astray") /\ UNCHANGED <<block, progress>>
       ELSE /\ Transfer(2, task.src, s, FALSE, IF task.op = "attrib" THEN "mark" ELSE "search", "astray")
            /\ progress' = [progress EXCEPT !.seen = @ \cup {s}, !.count = @ + 1]
    /\ UNCHANGED <<channelVars, model, task, disk, buffer, io, eof, original, relative>>

(* A sector is written back if a lock bit of it changed; the page of a     *)
(* listing may be the last one wanted.                                     *)
Mark ==
    LET hits == {e \in io.entries : Hit(e)} IN
    \/ /\ tool = "mark"
       /\ progress' = [progress EXCEPT !.found = @ \/ hits # {}]
       /\ io' = Changed(io)
       /\ IF io' # io THEN Transfer(2, task.src, task.at, TRUE, "follow", "astray")
          ELSE /\ UNCHANGED block
               /\ \/ To("follow")
                  \/ hits # {} /\ task.mark = "shown" /\ tool' = "listed" /\ excuse' = TRUE /\ UNCHANGED verdict
       /\ UNCHANGED <<channelVars, model, task, disk, buffer, eof, original, relative>>
    \/ /\ tool = "follow"
       /\ task' = [task EXCEPT !.at = io.next] /\ To("list")
       /\ UNCHANGED <<channelVars, model, disk, buffer, io, eof, block, original, fileVars>>

SeekRelative ==
    LET found == {e \in io.entries : Hit(e) /\ e.rel # {}} IN
    /\ tool = "search"
    /\ IF found = {} THEN To("follow") /\ UNCHANGED <<task, progress>>
       ELSE \E e \in found : \E r \in e.rel :
              /\ progress' = [progress EXCEPT !.len = r.len]
              /\ task' = [task EXCEPT !.at = BlockSector(r.first)]
              /\ To("listed")
    /\ UNCHANGED <<channelVars, model, disk, buffer, io, eof, block, original, relative>>

EndList ==
    /\ tool \in {"listed", "astray"}
    /\ chan' = Released(chan, 2)
    /\ IF task.op = "attrib"
         THEN /\ Forget
              /\ Stopped(IF tool = "astray" THEN "error" ELSE IF progress.found THEN "done" ELSE "missing", FALSE)
         ELSE /\ UNCHANGED cacheVars
              /\ IF progress.len = 0 \/ task.at[1] = 0 THEN Stopped("error", FALSE) ELSE To("prepare")
    /\ UNCHANGED <<files, commandVars, diskVars>>

-----------------------------------------------------------------------------
(* The copy of a REL file, record by record                                *)

Answers(dev, cs) == Status(dev, files, cs) /\ UNCHANGED cacheVars
AnswersNot(dev, cs) ==
    (NotReady(dev, cs) \/ (Troubles /\ Status(dev, files, cs))) /\ UNCHANGED cacheVars

CopyBroken == tool' = "relative broken" /\ excuse' = TRUE /\ UNCHANGED verdict

(* bank_preparewrite(): a file of that name is scratched, if there is one. *)
Prepare ==
    /\ \/ /\ tool = "prepare"
          /\ \/ Directory(task.dst) /\ (To("reopen") \/ To("scratch") \/ Stopped("refused", TRUE))
             \/ DirectoryFails(task.dst) /\ Stopped("error", TRUE)
       \/ /\ tool = "scratch"
          /\ \/ Does(task.dst) /\ To("reopen")
             \/ Fails(task.dst) /\ Stopped("error", TRUE)
    /\ UNCHANGED diskVars

(* The buffer for the source again, and the new file, which the drive      *)
(* makes anew.  The number of the command channel is kept for the records. *)
OpenRelative ==
    LET cs == Buffered(3, task.dst) IN
    /\ \/ /\ tool = "reopen" /\ UNCHANGED <<task, progress>>
          /\ \/ RawOpened(2, task.src) /\ To("open relative")
             \/ RawFails(2) /\ Stopped("error", TRUE) /\ UNCHANGED eof
       \/ /\ tool = "open relative" /\ UNCHANGED eof
          /\ \/ /\ Answers(task.dst, cs) /\ To("block") /\ UNCHANGED task
                /\ progress' = [progress EXCEPT !.count = 0, !.slot = CHOOSE i \in {0, 1} : cmddev'[i] = task.dst]
             \/ AnswersNot(task.dst, cs) /\ CopyBroken /\ UNCHANGED <<task, progress>>
             \/ /\ Troubles /\ Stopped("error", TRUE)
                /\ chan' = Released(Released(chan, 2), 3)
                /\ UNCHANGED <<files, commandVars, cacheVars, task, progress>>
    /\ UNCHANGED <<model, disk, buffer, io, block, original, relative>>

NextBlock ==
    /\ tool = "block"
    /\ IF task.at[1] = 0 THEN To("relative over") /\ UNCHANGED <<block, progress>>
       ELSE IF OffTheDisk(task.at) \/ progress.count >= Cardinality(Sectors(task.tracks))
         THEN To("relative broken") /\ UNCHANGED <<block, progress>>
       ELSE /\ Transfer(2, task.src, task.at, FALSE, "spread", "relative broken")
            /\ progress' = [progress EXCEPT !.count = @ + 1, !.off = 0]
    /\ UNCHANGED <<channelVars, model, task, disk, buffer, io, eof, original, relative>>

(* The bytes of the sector go to the record, which may go on in the next.  *)
Spread ==
    LET missing == progress.len - Len(progress.part)
        rest == SubSeq(io.bytes, progress.off + 1, Len(io.bytes))
    IN  /\ tool = "spread"
        /\ IF Len(rest) < missing
             THEN /\ progress' = [progress EXCEPT !.part = @ \o rest]
                  /\ task' = [task EXCEPT !.at = io.next] /\ To("block")
             ELSE /\ progress' = [progress EXCEPT !.part = @ \o SubSeq(rest, 1, missing), !.off = @ + missing]
                  /\ To("position") /\ UNCHANGED task
        /\ UNCHANGED <<channelVars, model, disk, buffer, io, eof, block, original, relative>>

(* "p": to a record that is not there yet too. *)
Position ==
    /\ tool = "position"
    /\ \/ /\ Answers(task.dst, chan) /\ To("put")
          /\ relative' = IF cmddev[progress.slot] = task.dst THEN [relative EXCEPT !.spot = progress.record]
                         ELSE relative
       \/ AnswersNot(task.dst, chan) /\ CopyBroken /\ UNCHANGED relative
    /\ UNCHANGED <<model, task, disk, buffer, io, eof, block, original, progress>>

NextRecord_Kept == [progress EXCEPT !.part = <<>>]
NextRecord == [progress EXCEPT !.part = <<>>, !.record = @ + 1]

PutRecord ==
    LET spot == relative.spot
        old == relative.records
        records == [i \in DOMAIN old \cup {spot} |-> IF i = spot THEN progress.part ELSE old[i]]
    IN  /\ tool = "put"
        /\ \/ /\ chan[3].live /\ Answers(task.dst, chan)
              /\ relative' = [records |-> records, spot |-> spot + 1]
              /\ progress' = NextRecord
              /\ To("spread") \/ CopyBroken                                     \* RUN/STOP
           \/ /\ ~chan[3].live /\ To("relative broken")
              /\ UNCHANGED <<channelVars, fileVars>>
           \/ AnswersNot(task.dst, chan) /\ CopyBroken /\ UNCHANGED fileVars
        /\ UNCHANGED <<model, task, disk, buffer, io, eof, block, original>>

(* A part of a record is left over when the file is not whole. *)
CloseRelative ==
    LET cs == Released(Released(chan, 2), 3) IN
    /\ tool \in {"relative over", "relative broken"}
    /\ \/ /\ Status(task.dst, files, cs)
          /\ Stopped(IF tool = "relative over" /\ progress.part = <<>> THEN "copied" ELSE "incomplete", FALSE)
       \/ /\ (NotReady(task.dst, cs) \/ (Troubles /\ Status(task.dst, files, cs)))
          /\ Stopped("incomplete", TRUE)
    /\ Forget /\ UNCHANGED diskVars

-----------------------------------------------------------------------------
(* One command, on any disks that fit the drives, after others that may    *)
(* have left any drives with command channels.                             *)

Sizes(m) == IF m = 3 THEN {DENSE} ELSE {SIDE, 2 * SIDE}

DiskInit ==
    /\ files = [p \in Places |-> {}] /\ chan = [f \in Files |-> Idle]
    /\ cmddev \in {c \in [{0, 1} -> Disks \cup {0}] : c[0] = c[1] => c[0] = 0}
    /\ cmdslot \in {0, 1}
    /\ entries = {} /\ cachedev = Cart /\ cachevalid = FALSE
    /\ model \in Models
    /\ \E size \in [Disks -> {SIDE, 2 * SIDE, DENSE}] :
         /\ \A d \in Disks : size[d] \in Sizes(model[d])
         /\ disk = [d \in Disks |-> Disk(size[d], "old", "id", d, Catalog[d])]
    /\ tool = "ready" /\ task = [op |-> "none"] /\ verdict = "none" /\ excuse = FALSE
    /\ original = disk /\ buffer = [d \in Disks |-> {}] /\ io = {}
    /\ eof = [f \in {2, 3} |-> FALSE] /\ block = {}
    /\ progress = NoProgress /\ relative = Unwritten

DiskNext ==
    \/ Command \/ Block \/ IdentifyBoth \/ IdentifyDrive \/ Mode \/ OpenHeader \/ GiveUp
    \/ CheckHeader \/ Change \/ NextCopy \/ ChangeCopy \/ Initialize \/ Agree \/ Side
    \/ FormatDisk \/ Settle \/ OpenBoth \/ ReadSector \/ WriteSector \/ NextSector \/ CloseBoth
    \/ OpenList \/ NextList \/ Mark \/ SeekRelative \/ EndList
    \/ Validate \/ List \/ Prepare \/ OpenRelative \/ NextBlock \/ Spread \/ Position \/ PutRecord
    \/ CloseRelative

DiskSpec == DiskInit /\ [][DiskNext]_toolVars
-----------------------------------------------------------------------------
(***************************************************************************)
(* Properties                                                              *)
(***************************************************************************)

(* The chain of sectors from s on, as far as it is on the disk; does it    *)
(* end?                                                                    *)
Walk(d, s) ==
    LET at[n \in 0..Cardinality(DOMAIN d)] ==
          IF n = 0 THEN s ELSE IF at[n - 1] \in DOMAIN d THEN d[at[n - 1]].next ELSE at[n - 1]
    IN  at
Chain(d, s) ==
    LET at == Walk(d, s)
        most == Cardinality(DOMAIN d)
        steps == Cardinality({n \in 0..most - 1 : at[n] \in DOMAIN d})
    IN  [ends |-> at[most][1] = 0, sectors |-> [n \in 1..steps |-> at[n - 1]]]

ListChain(d, dev) == Chain(d, FirstList(d[HeaderSector(dev)].tracks))

Meant(e) == e.used /\ e.name \in task.names
RelOf(d) == CHOOSE r \in UNION {e.rel : e \in {e \in ListedFiles(d) : Meant(e)}} : TRUE
BlockChain(d) == Chain(d, BlockSector(RelOf(d).first))
RelBytes(d) ==
    LET chain == BlockChain(d).sectors
        upto[n \in 0..Len(chain)] == IF n = 0 THEN <<>> ELSE upto[n - 1] \o d[chain[n]].bytes
    IN  upto[Len(chain)]

WholeRel(d) == BlockChain(d).ends /\ Len(RelBytes(d)) % RelOf(d).len = 0
RecordsOf(d) ==
    LET len == RelOf(d).len
    IN  [i \in 1..(Len(RelBytes(d)) \div len) |-> SubSeq(RelBytes(d), (i - 1) * len + 1, i * len)]

Targets ==
    LET d == original[task.src] IN
    CASE task.op = "attrib" -> LET chain == ListChain(d, task.src).sectors IN {chain[i] : i \in DOMAIN chain}
      [] task.op = "diskid" -> {s \in DOMAIN d : d[s].kind \in {"header", "repeat"}}
      [] OTHER -> {s \in DOMAIN d : d[s].kind = "header"}

AsAsked(sector) ==
    IF task.op = "attrib" /\ task.mark # "shown"
      THEN [sector EXCEPT !.entries = {IF Meant(e) THEN [e EXCEPT !.mark = task.mark] ELSE e : e \in @}]
    ELSE IF task.op = "attrib" THEN sector ELSE Changed(sector)

(* What the commands say is so (disk.c:465, 587 and 655, filemgmt.c:197    *)
(* and 447): every sector of the copy is the source's, every ID on the     *)
(* disk is the new one, every lock bit asked for is changed, no such file  *)
(* is there, and the copy of a REL file has its records in their places.   *)
DiskVerdictIsReal ==
    /\ verdict = "complete" => disk[task.dst] = original[task.src]
    /\ verdict = "done" /\ task.op \in {"label", "diskid", "attrib"} =>
         \A s \in Targets : disk[task.src][s] = AsAsked(original[task.src][s])
    /\ verdict = "missing" => \A s \in Targets : \A e \in original[task.src][s].entries : ~Meant(e)
    /\ verdict = "copied" =>
         WholeRel(original[task.src]) /\ relative.records = RecordsOf(original[task.src])

(* A raw write never strikes another drive, another sector, or another     *)
(* field: what the shared buffer held before does not end up on the disk.  *)
OnlyWhatWasAsked ==
    disk # original =>
      /\ \A d \in Disks : disk[d] = original[d] \/ (d = task.dst /\ task.op # "copyrel")
      /\ task.op \in {"label", "diskid", "attrib"} =>
           \A s \in DOMAIN original[task.src] :
             \/ disk[task.src][s] = original[task.src][s]
             \/ s \in Targets /\ disk[task.src][s] = AsAsked(original[task.src][s])

(* No command fails, on drives and disks that fit it, unless a device did  *)
(* or the user stopped it: no buffer is closed or found at its end while   *)
(* it is in use (disk.c:47 and 628).                                       *)
Fits ==
    LET d == original[task.src]
        sides == d[HeaderSector(task.src)].tracks \div SIDE
    IN  /\ task.op # "diskinit" => model[task.src] # 0
        /\ task.op = "diskcopy" => model[task.dst] = model[task.src]
        /\ task.op \notin {"format", "diskinit"} /\ model[task.src] = 1 => sides = 1
        /\ task.op \in {"attrib", "copyrel"} => ListChain(d, task.src).ends
        /\ task.op = "copyrel" => WholeRel(d)

FailsForCause == verdict \in {"error", "incomplete"} => excuse \/ ~Fits
================================================================================
