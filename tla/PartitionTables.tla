--------------------------- MODULE PartitionTables ---------------------------
(***************************************************************************)
(* fdisk_l/fdskL.c: for each device, find the kind of its partition table  *)
(* and print the partitions.  The MBR and the EBRs of an extended          *)
(* partition are read into one sector buffer, into which `entry' points,   *)
(* and the link of an EBR is taken from the first four bytes of its second *)
(* entry (boot flag and CHS start, field chs here), not from its LBA.      *)
(* Nobody looks at the result of lseek: behind the end of a block device   *)
(* it fails, and read goes on where the last one stopped.                  *)
(* Of a line only number, first sector and size are kept; the size of a    *)
(* GPT entry is an integer here, printed modulo 2^64 by the code.          *)
(***************************************************************************)
EXTENDS Integers, Sequences, SequencesExt

CONSTANTS
    NumDevices,     \* devices /dev/sd? of iterate_devices
    Disks,          \* contents a device may have
    Wrap,           \* number of values of a 32-bit sector number
    MaxLines        \* bound: lines printed for one device

\* A sector is what the program makes of its 512 bytes: the signatures, four
\* entries, and as second sector the GPT header.  Sectors below size that are
\* not in the domain of table cannot be read.  slots are the 128-byte records
\* from where the seek to partition_entry_lba leaves the file.
Entry  == [id : {"none", "Linux", "Extended"}, chs : 0..Wrap-1,
           start : 0..Wrap-1, total : 0..Wrap-1]
Header == [num : Nat, size : Nat \ {0}]
Slot   == [first : Nat, last : Nat]

ASSUME DeviceAssumption == 
    NumDevices \in Nat /\ Wrap \in Nat \ {0} /\ MaxLines \in Nat

ASSUME DiskAssumption ==
    \A d \in Disks :
        /\ d.size \in Nat
        /\ DOMAIN d.table \subseteq (0..Wrap-1) \cap (0..d.size-1)
        /\ \A s \in DOMAIN d.table : d.table[s] \in [1..4 -> Entry]
        /\ d.signed \in BOOLEAN /\ d.efi \in BOOLEAN
        /\ d.header \in Header
        /\ d.slots \in Seq(Slot)

VARIABLES
    disk,           \* contents of each device
    dev,            \* the device process_device works on
    pc,             \* where it stands
    buffer,         \* buffer of handle_mbr, as four entries
    i,              \* i of the second loop of handle_mbr, or of handle_gpt
    ebr,            \* ebr_sector
    pos,            \* sector fd stands at while handle_mbr reads
    logical,        \* logical_count
    described,      \* devices print_disk_info has described
    listed          \* lines printed per device

vars == <<disk, dev, pc, buffer, i, ebr, pos, logical, described, listed>>

Devices == 1..NumDevices
Blank   == [n \in 1..4 |-> [id |-> "none", chs |-> 0, start |-> 0, total |-> 0]]
Line    == [num : Nat, start : Nat, total : Int]

Add(a, b) == (a + b) % Wrap

Init ==
    /\ disk \in [Devices -> Disks]
    /\ dev = 1
    /\ pc = "open"
    /\ buffer = Blank
    /\ i = 1
    /\ ebr = 0
    /\ pos = 0
    /\ logical = 5
    /\ described = {}
    /\ listed = [d \in Devices |-> <<>>]

table == disk[dev].table
Readable(s) == s \in DOMAIN table

Show(lines) == listed' = [listed EXCEPT ![dev] = @ \o lines]

-----------------------------------------------------------------------------
(* iterate_devices, process_device *)

\* open or an ioctl fails: the next device.
OpenFails ==
    /\ pc = "open"
    /\ dev \in Devices
    /\ pc' = "close"
    /\ UNCHANGED <<disk, dev, buffer, i, ebr, pos, logical, described, listed>>

\* print_disk_info, detect_partition_table_type
TableType ==
    IF ~Readable(0) \/ ~disk[dev].signed \/ ~Readable(1) THEN "close"
    ELSE IF disk[dev].efi THEN "gpt"
    ELSE "mbr"

Detect ==
    /\ pc = "open"
    /\ dev \in Devices
    /\ pc' = TableType
    /\ described' = described \cup {dev}
    /\ i' = 1
    /\ UNCHANGED <<disk, dev, buffer, ebr, pos, logical, listed>>

Close ==
    /\ pc = "close"
    /\ dev' = dev + 1
    /\ pc' = "open"
    /\ buffer' = Blank
    /\ i' = 1
    /\ ebr' = 0
    /\ pos' = 0
    /\ logical' = 5
    /\ UNCHANGED <<disk, described, listed>>

-----------------------------------------------------------------------------
(* handle_mbr *)

LineOf(n, e) == [num |-> n, start |-> e.start, total |-> e.total]

\* The first loop: the used entries of the MBR under their own numbers.
PrimaryLine(n, e) == IF e.total = 0 THEN <<>> ELSE <<LineOf(n, e)>>

PrimaryLines(entries) ==
    PrimaryLine(1, entries[1]) \o PrimaryLine(2, entries[2]) \o
    PrimaryLine(3, entries[3]) \o PrimaryLine(4, entries[4])

ListPrimaries ==
    /\ pc = "mbr"
    /\ buffer' = table[0]
    /\ Show(PrimaryLines(table[0]))
    /\ pos' = 1
    /\ pc' = "scan"
    /\ UNCHANGED <<disk, dev, i, ebr, logical, described>>

\* The second loop looks at whatever sector the buffer holds by then.
ScanEntry ==
    /\ pc = "scan"
    /\ i <= 4
    /\ IF buffer[i].id = "Extended"
       THEN ebr' = buffer[i].start /\ logical' = 5 /\ pc' = "chain" /\ i' = i
       ELSE UNCHANGED <<ebr, logical, pc>> /\ i' = i + 1
    /\ UNCHANGED <<disk, dev, buffer, pos, described, listed>>

\* Mutant of ScanEnds: the loop leaves out the last entry.
ScanEndsEarly ==
    /\ pc = "scan"
    /\ i >= 4
    /\ pc' = "close"
    /\ UNCHANGED <<disk, dev, buffer, i, ebr, pos, logical, described, listed>>

ScanEnds ==
    /\ pc = "scan"
    /\ i > 4
    /\ pc' = "close"
    /\ UNCHANGED <<disk, dev, buffer, i, ebr, pos, logical, described, listed>>

\* Where lseek to sector s leaves a descriptor of disk d that stands at p.
Landing(d, p, s) == IF s <= d.size THEN s ELSE p

Lands == Landing(disk[dev], pos, ebr)

\* Mutant of LeaveChain: an unreadable sector is tried again.
LeaveChainRetry ==
    /\ pc = "chain"
    /\ ebr = 0
    /\ pc' = "scan"
    /\ i' = i + 1
    /\ UNCHANGED <<disk, dev, buffer, ebr, pos, logical, described, listed>>

\* The end of the chain, or a read error.
LeaveChain ==
    /\ pc = "chain"
    /\ \/ ebr = 0 /\ pos' = pos
       \/ ebr # 0 /\ ~Readable(Lands) /\ pos' = Lands
    /\ pc' = "scan"
    /\ i' = i + 1
    /\ UNCHANGED <<disk, dev, buffer, ebr, logical, described, listed>>

\* Mutant of Relocated: the logical partition keeps its relative start.
RelocatedNot(entries, s) == entries

\* logical_entry->start_sector += ebr_sector, in the buffer.
Relocated(entries, s) ==
    IF entries[1].total = 0 THEN entries
    ELSE [entries EXCEPT ![1].start = Add(@, s)]

\* entry->start_sector is read from the buffer the EBR has overwritten.
NextEbr(entries, n) ==
    IF entries[2].chs = 0 THEN 0 ELSE Add(entries[2].chs, entries[n].start)

\* The sector read is the one lseek led to, what is added is ebr_sector.
ReadEbr ==
    /\ pc = "chain"
    /\ ebr # 0
    /\ Readable(Lands)
    /\ Len(listed[dev]) < MaxLines
    /\ buffer' = Relocated(table[Lands], ebr)
    /\ pos' = Lands + 1
    /\ IF buffer'[1].total # 0
       THEN Show(<<LineOf(logical, buffer'[1])>>) /\ logical' = logical + 1
       ELSE UNCHANGED <<listed, logical>>
    /\ ebr' = NextEbr(buffer', i)
    /\ UNCHANGED <<disk, dev, pc, i, described>>

-----------------------------------------------------------------------------
(* handle_gpt: records are read one after the other, 128 bytes each *)

Used(r) == r.first # 0 \/ r.last # 0

GptEntry ==
    /\ pc = "gpt"
    /\ i <= disk[dev].header.num
    /\ i \in DOMAIN disk[dev].slots
    /\ LET r == disk[dev].slots[i]
       IN  IF Used(r) THEN Show(<<[num |-> i, start |-> r.first,
                                    total |-> r.last - r.first + 1]>>)
           ELSE UNCHANGED listed
    /\ i' = i + 1
    /\ UNCHANGED <<disk, dev, pc, buffer, ebr, pos, logical, described>>

\* Mutant of GptEnds: the loop leaves out the last entry.
GptEndsEarly ==
    /\ pc = "gpt"
    /\ i >= disk[dev].header.num \/ i \notin DOMAIN disk[dev].slots
    /\ pc' = "close"
    /\ UNCHANGED <<disk, dev, buffer, i, ebr, pos, logical, described, listed>>

\* All entries, or a record that cannot be read.
GptEnds ==
    /\ pc = "gpt"
    /\ i > disk[dev].header.num \/ i \notin DOMAIN disk[dev].slots
    /\ pc' = "close"
    /\ UNCHANGED <<disk, dev, buffer, i, ebr, pos, logical, described, listed>>

Mbr == ListPrimaries \/ ScanEntry \/ ScanEnds \/ LeaveChain \/ ReadEbr
Gpt == GptEntry \/ GptEnds

Next == OpenFails \/ Detect \/ Close \/ Mbr \/ Gpt

Spec     == Init /\ [][Next]_vars
FairSpec == Spec /\ WF_vars(Next)
-----------------------------------------------------------------------------
(* What a partition table means *)

\* The extended partitions of the MBR.
ExtendedSlots(d) == {n \in 1..4 : d.table[0][n].id = "Extended"}

\* The logical partition of the EBR in sector s, if it has one.
LogicalHere(d, s) ==
    LET e == d.table[s][1]
    IN  IF e.total = 0 THEN <<>>
        ELSE <<[start |-> Add(s, e.start), total |-> e.total]>>

\* The logical partitions of the EBR in a sector and of those behind it, n
\* EBRs at most.  The link of an EBR is the LBA of its second entry, relative
\* to the extended partition, which begins at sector first.
Chain(d, first) ==
    LET From[n \in 0..Wrap] ==
          [s \in 0..Wrap-1 |->
             IF n = 0 \/ s \notin DOMAIN d.table THEN <<>>
             ELSE LogicalHere(d, s) \o
                  IF d.table[s][2].total = 0 THEN <<>>
                  ELSE From[n-1][Add(first, d.table[s][2].start)]]
    IN  From

\* Their lines: logical partitions are numbered from 5.
LogicalLines(d, first) ==
    LET found == Chain(d, first)[Wrap][first]
    IN  [k \in DOMAIN found |-> LineOf(k + 4, found[k])]

ExtendedStart(d) == d.table[0][CHOOSE n \in ExtendedSlots(d) : TRUE].start

\* Every partition of a disk with at most one extended partition.
AllLines(d) ==
    PrimaryLines(d.table[0]) \o
    IF ExtendedSlots(d) = {} THEN <<>> ELSE LogicalLines(d, ExtendedStart(d))

\* No partitions, no extended ones, and no bytes that could be a link.
Bare(entries) ==
    /\ entries[1].total = 0 /\ entries[2].chs = 0
    /\ \A m \in 1..4 : entries[m].id # "Extended"

\* Whatever number an EBR is read under, and whichever slot an extended
\* partition has: the bytes taken for its link are zero or lead out of the disk.
LinksLeadOut(d) ==
    LET slots == {n \in 1..4 : \E s \in DOMAIN d.table : d.table[s][n].id = "Extended"}
    IN  \A s \in DOMAIN d.table, n \in slots, at \in 0..Wrap-1 :
          NextEbr(Relocated(d.table[s], at), n) \notin 1..d.size

\* The bytes the program takes for the link of the EBR in sector s, behind
\* slot n of the MBR, are zero, or they lead, directly or past the end of the
\* disk to the sector after the EBR, to nothing that looks like an EBR.
DeadEnd(d, s, n) ==
    LET next == NextEbr(Relocated(d.table[s], s), n)
        at   == Landing(d, s + 1, next)
    IN  next = 0 \/ at \notin DOMAIN d.table \/ Bare(d.table[at])

\* One extended partition at most, in the disk and behind the MBR.  In its
\* first EBR the slots behind its own in the MBR do not hold an extended one,
\* and what is taken for the link leads nowhere.
Ordinary(d) ==
    /\ 0 \in DOMAIN d.table
    /\ \A m, n \in ExtendedSlots(d) : m = n
    /\ \A n \in ExtendedSlots(d) :
         LET s == d.table[0][n].start
         IN  /\ s \in 1..d.size-1
             /\ s \in DOMAIN d.table =>
                  /\ \A m \in n+1..4 : d.table[s][m].id # "Extended"
                  /\ DeadEnd(d, s, n)

\* The extended partition holds a single EBR.
LoneEbr(d) ==
    \A n \in ExtendedSlots(d) :
        d.table[0][n].start \in DOMAIN d.table =>
            d.table[d.table[0][n].start][2].total = 0

IsMbr(d) == d.signed /\ {0, 1} \subseteq DOMAIN d.table /\ ~d.efi
IsGpt(d) == d.signed /\ {0, 1} \subseteq DOMAIN d.table /\ d.efi

Done(d) == d < dev \/ (d = dev /\ pc = "close")

-----------------------------------------------------------------------------
(* Properties *)

\* All variables keep their types; the chain position and the index stay in
\* range however the sectors are linked.
TypeOK ==
    /\ disk \in [Devices -> Disks]
    /\ dev \in 1..NumDevices+1
    /\ pc \in {"open", "close", "mbr", "scan", "chain", "gpt"}
    /\ pc # "open" => dev \in Devices
    /\ pc \in {"mbr", "scan", "chain"} => IsMbr(disk[dev])
    /\ buffer \in [1..4 -> Entry]
    /\ i \in Nat \ {0}
    /\ pc \in {"mbr", "chain"} => i <= 4
    /\ ebr \in 0..Wrap-1
    /\ pos \in 0..Wrap
    /\ logical \in Nat
    /\ described \subseteq Devices
    /\ listed \in [Devices -> Seq(Line)]

\* Although the walk reads every EBR into the buffer its loop still looks at,
\* takes the link from the wrong bytes and reads on where a seek behind the
\* end of the disk left it, it invents nothing on an ordinary disk: what is
\* printed is the beginning of the true list, with the true numbers.
NothingInvented ==
    /\ TypeOK
    /\ \A d \in Devices : IsMbr(disk[d]) /\ Ordinary(disk[d]) =>
         IsPrefix(listed[d], AllLines(disk[d]))

\* With a single logical partition (as in README.md:80-84) nothing is missing
\* either, whatever slot of the MBR holds the extended partition, once a
\* device that opened is done with.
LoneLogicalListed ==
    \A d \in Devices :
        /\ IsMbr(disk[d]) /\ Ordinary(disk[d]) /\ LoneEbr(disk[d])
        /\ Done(d) /\ d \in described
        => listed[d] = AllLines(disk[d])

\* The used entries of a GPT that can be read.
GptUsed(d) ==
    {n \in DOMAIN d.slots : n <= d.header.num /\ Used(d.slots[n])}

\* The lines of a GPT with 128-byte entries are its used entries, under their
\* own index, in their order and with their sectors; none before an entry
\* printed is left out, and none at all up to the first that cannot be read
\* once a device that opened is done with.
GptListed ==
    \A d \in Devices :
        IsGpt(disk[d]) /\ disk[d].header.size = 1 =>
        /\ \A k \in DOMAIN listed[d] :
             LET l == listed[d][k]
             IN  /\ l.num \in GptUsed(disk[d])
                 /\ l.start = disk[d].slots[l.num].first
                 /\ l.total = disk[d].slots[l.num].last - l.start + 1
                 /\ k > 1 => listed[d][k-1].num < l.num
                 /\ \A m \in GptUsed(disk[d]) : m < l.num =>
                       \E j \in 1..k : listed[d][j].num = m
        /\ Done(d) /\ d \in described =>
             \A m \in GptUsed(disk[d]) : \E k \in DOMAIN listed[d] : listed[d][k].num = m

\* Every device is reached: no disk whose CHS fields lead nowhere can keep
\* the walk from ending, though it then reads on sector by sector.
AllDevicesShown ==
    (\A d \in Devices : LinksLeadOut(disk[d])) => <>(dev > NumDevices)

\* fdisk_l/README.md:3, detailed information about each partition: a disk
\* that was opened and read to the end has every logical partition listed.
EachPartitionListed ==
    \A d \in Devices :
        /\ IsMbr(disk[d]) /\ Ordinary(disk[d])
        /\ Done(d) /\ d \in described
        => listed[d] = AllLines(disk[d])
=============================================================================
