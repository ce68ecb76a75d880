------------------------------- MODULE Channels -------------------------------
(***************************************************************************)
(* The shell's channels to its devices: the cartridge, which is device 0,  *)
(* and the disk drives (src/core.c: statuschannel to command;              *)
(* src/filemgmt.c: the directory cache and the opening of files;           *)
(* src/c64-support.c and src/cart.c: channel_open to channel_abort).       *)
(*                                                                         *)
(* A step is the code around one request to a device.  Drives are          *)
(* external: a drive keeps the code of its last failure until it is asked, *)
(* and closes its data channels when its command channel is closed.  A     *)
(* file that is being written on a disk is there, unclosed; one on the     *)
(* cartridge replaces the old one when it is closed (module FileStore).    *)
(*                                                                         *)
(* A definition X_Slip is what X would be after a plausible slip in the    *)
(* code; the README says which property catches it.                        *)
(***************************************************************************)
EXTENDS Naturals, Sequences, FiniteSets

CONSTANTS
    Disks,     \* device numbers
    Places,    \* the <<device, name>> pairs in use; names are numbered in directory order
    Chunks,    \* what one pass of a copy loop moves
    SIZE,      \* chunks of the largest file
    Troubles   \* may a device fail?

Cart == 0
Devices == {Cart} \cup Disks
Dev(p) == p[1]

ASSUME ChannelsAssumption ==
    /\ Disks \subseteq Nat \ {0}
    /\ Places \subseteq Devices \X Nat /\ IsFiniteSet(Places)
    /\ SIZE \in Nat
    /\ Troubles \in BOOLEAN

VARIABLES
    files,     \* place -> the file there, if any
    chan,      \* logical files 2, 3 and 5
    cmddev,    \* the drives of the command channels 14 and 15, 0 for none
    cmdslot,   \* which of them is replaced next
    entries,   \* directory_entries, a listing of
    cachedev,  \* this device, which
    cachevalid \* is up to date

cacheVars == <<entries, cachedev, cachevalid>>
commandVars == <<cmddev, cmdslot>>
channelVars == <<files, chan, commandVars, cacheVars>>

(* An optional value is a set with at most one element. *)
Data == UNION {[1..n -> Chunks] : n \in 0..SIZE}
File == [data: Data, closed: BOOLEAN, locked: BOOLEAN]
New(data) == [data |-> data, closed |-> TRUE, locked |-> FALSE]

Contents(fs, p) == {x.data : x \in {x \in fs[p] : x.closed}}
Exists(p) == files[p] # {}
Locked(p) == \E x \in files[p] : x.locked

(***************************************************************************)
(* live: the drive knows the channel.  data: what was written through it,  *)
(* or what is still to be read.  bad: a write was lost, which the drive    *)
(* tells when it is next asked.                                            *)
(***************************************************************************)
Files == {2, 3, 5}
Idle == [mode |-> "closed", place |-> <<>>, data |-> <<>>, live |-> FALSE, bad |-> FALSE]
Reading(p, data) == [Idle EXCEPT !.mode = "read", !.place = p, !.data = data, !.live = TRUE]
Writing(p, data) == [Reading(p, data) EXCEPT !.mode = "write"]

Open(f) == chan[f].mode # "closed"

Powered ==
    /\ chan = [f \in Files |-> Idle]
    /\ cmddev = [i \in {0, 1} |-> 0] /\ cmdslot = 0
    /\ entries = {} /\ cachedev = Cart /\ cachevalid = FALSE

-----------------------------------------------------------------------------
(* Command channels                                                        *)

(***************************************************************************)
(* statuschannel(): the two command channels are replaced in turn.  To     *)
(* close one is to have its drive close every file it has open.            *)
(***************************************************************************)
Resident_First(dev) == dev = Cart \/ dev = cmddev[0]
Resident(dev) == dev = Cart \/ dev \in {cmddev[0], cmddev[1]}

NextSlot_Stuck == cmdslot
NextSlot == 1 - cmdslot

Evicted(dev) == IF Resident(dev) THEN 0 ELSE cmddev[cmdslot]

On(c, dev) == c.mode # "closed" /\ dev # 0 /\ Dev(c.place) = dev

Cut(cs, dev) == [f \in Files |-> [cs[f] EXCEPT !.live = @ /\ ~On(cs[f], dev)]]

Beheaded(fs, cs, dev) ==
    [p \in Places |->
       IF \E f \in Files : cs[f].mode = "write" /\ cs[f].live /\ cs[f].place = p /\ On(cs[f], dev)
         THEN {[x EXCEPT !.closed = TRUE] : x \in fs[p]} ELSE fs[p]]

UseStatus(dev, opened) ==
    /\ cmddev' = IF Resident(dev) THEN cmddev
                 ELSE [cmddev EXCEPT ![cmdslot] = IF opened THEN dev ELSE 0]
    /\ cmdslot' = IF Resident(dev) THEN cmdslot ELSE NextSlot

(* The command channel of dev is found or opened; fs and cs are the files  *)
(* and channels as they would be without that.                             *)
Status(dev, fs, cs) ==
    /\ UseStatus(dev, TRUE)
    /\ files' = Beheaded(fs, cs, Evicted(dev))
    /\ chan' = Cut(cs, Evicted(dev))

(* The drive does not answer, its command channel open or not. *)
NotReady(dev, cs) ==
    /\ Troubles /\ dev # Cart
    /\ \E opened \in BOOLEAN : UseStatus(dev, opened)
    /\ files' = Beheaded(files, cs, Evicted(dev))
    /\ chan' = Cut(cs, Evicted(dev))

-----------------------------------------------------------------------------
(* The directory cache                                                     *)

Listing(fs, dev) == {p[2] : p \in {p \in Places : Dev(p) = dev /\ fs[p] # {}}}

(* The i-th entry of a listing. *)
EntryAt(list, i) == CHOOSE n \in list : Cardinality({m \in list : m < n}) = i

(* bank_directory() *)
Directory(dev) ==
    /\ Status(dev, files, chan)
    /\ entries' = Listing(files, dev) /\ cachedev' = dev /\ cachevalid' = TRUE

DirectoryFails(dev) ==
    /\ NotReady(dev, chan)
    /\ entries' = {} /\ cachedev' = dev /\ cachevalid' = FALSE

Cached(dev) == cachevalid /\ cachedev = dev

Forget_Cached == UNCHANGED cacheVars
Forget == cachevalid' = FALSE /\ UNCHANGED <<entries, cachedev>>

-----------------------------------------------------------------------------
(* Requests on files                                                       *)

(***************************************************************************)
(* command(): the drive is asked for the outcome.  fs is what the command  *)
(* leaves.                                                                 *)
(***************************************************************************)
AfterCommand_Cached == UNCHANGED cacheVars
AfterCommand == Forget

CommandDone(dev, fs) == Status(dev, fs, chan) /\ AfterCommand

CommandFails(dev, possible) ==
    \/ NotReady(dev, chan) /\ UNCHANGED cacheVars
    \/ (Troubles \/ ~possible) /\ CommandDone(dev, files)

(* "s0:names": a drive skips locked files without a word, the cartridge    *)
(* refuses them.                                                           *)
MayScratch(ps) == \A p \in ps : Dev(p) = Cart => Exists(p) /\ ~Locked(p)
Without(fs, ps) == [p \in Places |-> {x \in fs[p] : p \in ps => x.locked}]

(* bank_openreadtype() *)
MayRead(p) == Contents(files, p) # {}

OpenRead(f, p) ==
    /\ \E data \in Contents(files, p) :
         Status(Dev(p), files, [chan EXCEPT ![f] = Reading(p, data)])
    /\ UNCHANGED cacheVars

(***************************************************************************)
(* bank_openwrite() and the opening of redirected output.  A drive refuses *)
(* a name that is taken unless it appends to the file; the cartridge       *)
(* refuses a locked file.                                                  *)
(***************************************************************************)
MayWrite(p, append) ==
    IF Dev(p) = Cart THEN ~Locked(p) ELSE IF append THEN MayRead(p) ELSE ~Exists(p)

Old(fs, p) == CHOOSE d \in Contents(fs, p) : TRUE

OpenWrite(f, p, append) ==
    LET data == IF append THEN Old(files, p) ELSE <<>>
        file == [New(data) EXCEPT !.closed = FALSE, !.locked = Locked(p)]
    IN  /\ MayWrite(p, append)
        /\ Status(Dev(p), IF Dev(p) = Cart THEN files ELSE [files EXCEPT ![p] = {file}],
                  [chan EXCEPT ![f] = Writing(p, data)])
        /\ UNCHANGED cacheVars

(* An open is refused or fails; the caller closes cs.                      *)
OpenFails(dev, possible, cs) ==
    /\ \/ NotReady(dev, cs)
       \/ (Troubles \/ ~possible) /\ Status(dev, files, cs)
    /\ UNCHANGED cacheVars

(***************************************************************************)
(* An open for writing fails.  A drive may have begun the file before it   *)
(* reports an error (72, easyflash/tape.c:269) or is not heard any more.   *)
(* The caller returns: it neither removes the file nor forgets the         *)
(* directory.                                                              *)
(***************************************************************************)
OpenWriteFails(p, append, cs) ==
    LET data == IF append THEN Old(files, p) ELSE <<>>
        Partly(closed) == [New(data) EXCEPT !.closed = closed, !.locked = Locked(p)]
    IN  \/ OpenFails(Dev(p), MayWrite(p, append), cs)
        \/ /\ Troubles /\ Dev(p) # Cart /\ MayWrite(p, append)
           /\ \E closed, opened \in BOOLEAN :
                /\ UseStatus(Dev(p), opened)
                /\ files' = Beheaded([files EXCEPT ![p] = {Partly(closed)}], cs,
                                     Evicted(Dev(p)))
           /\ chan' = Cut(cs, Evicted(Dev(p)))
           /\ UNCHANGED cacheVars

(* channel_read() of the next chunk, if any. *)
AtEnd(f) == chan[f].live /\ chan[f].data = <<>>
CanRead(f) == chan[f].live /\ chan[f].data # <<>>
Rest(f) == [chan[f] EXCEPT !.data = Tail(@)]
ReadMayFail(f) == Troubles \/ ~chan[f].live

(***************************************************************************)
(* channel_write() of a chunk: it is stored, or a drive that is out of     *)
(* order or full lets it go, or the caller is told.                        *)
(***************************************************************************)
CanWrite(f) == chan[f].live /\ ~chan[f].bad /\ Len(chan[f].data) < SIZE
CanLose(f) == Dev(chan[f].place) # Cart /\ chan[f].live /\ (Troubles \/ ~CanWrite(f))
WriteMayFail(f) == Troubles \/ ~CanWrite(f)

Grown(f, c) == [chan[f] EXCEPT !.data = Append(@, c)]
Lost_Unmarked(f) == chan[f]
Lost(f) == [chan[f] EXCEPT !.bad = TRUE]
Stored(f, c) ==
    LET p == chan[f].place IN
    IF Dev(p) = Cart THEN files
    ELSE [files EXCEPT ![p] = {[x EXCEPT !.data = Append(@, c)] : x \in @}]

(***************************************************************************)
(* channel_close(): a drive closes the file as far as it got; the          *)
(* cartridge commits the new file if no write failed.  works: the device   *)
(* did what it had to.                                                     *)
(***************************************************************************)
Closed(f, works) ==
    LET p == chan[f].place IN
    IF ~works \/ ~chan[f].live THEN files
    ELSE IF Dev(p) = Cart
      THEN IF chan[f].bad THEN files ELSE [files EXCEPT ![p] = {New(chan[f].data)}]
      ELSE [files EXCEPT ![p] = {[x EXCEPT !.closed = TRUE] : x \in @}]
================================================================================
