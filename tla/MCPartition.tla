---------------------------- MODULE MCPartition ----------------------------
(***************************************************************************)
(* Small disks for PartitionTables, of eight sectors: sector 0 is the MBR, *)
(* 1 the gap behind it, 3 and 5 hold EBRs, 4 what a partition has in its   *)
(* first sector; the extended partition begins at 3.                       *)
(***************************************************************************)
EXTENDS PartitionTables, TLC

DiskSize == 8

None     == [id |-> "none", chs |-> 0, start |-> 0, total |-> 0]
Data(s)  == [id |-> "Linux", chs |-> 0, start |-> s, total |-> 1]
ExtAt(s) == [id |-> "Extended", chs |-> 0, start |-> s, total |-> 5]
Ext      == ExtAt(3)
Link(c)  == [id |-> "Extended", chs |-> c, start |-> 2, total |-> 2]

\* No, one (in each slot, or behind the end of the disk) or two extended
\* partitions.
Mbrs == {<<Data(2), None, None, None>>, <<None, Data(2), Ext, None>>,
         <<Data(2), Ext, None, None>>, <<Ext, Data(2), None, None>>,
         <<None, None, Data(2), Ext>>, <<Data(2), Ext, Ext, None>>,
         <<None, None, Data(2), ExtAt(12)>>}

\* Read as a sector number, the link bytes are zero, lie beyond the disk, or
\* lead back into the chain for one slot or another.
Ebrs == {<<Data(1), l, None, None>> : l \in {None} \cup {Link(c) : c \in {0, 1, 3, 10}}}
        \cup {<<None, Link(0), None, None>>}

NoTable == Blank
LastEbr == <<Data(1), None, None, None>>

\* Sector 4 may hold what is left of an older table.
OldTable == <<Data(2), Link(10), None, None>>

MbrDisk(m, e, data, bad) ==
    LET all == (3 :> e) @@ (0 :> m) @@ (4 :> data) @@ (5 :> LastEbr) @@
               [s \in 0..DiskSize-1 |-> NoTable]
    IN  [size |-> DiskSize, signed |-> TRUE, efi |-> FALSE,
         header |-> [num |-> 0, size |-> 1],
         table |-> [s \in DOMAIN all \ bad |-> all[s]], slots |-> <<>>]

Extent == [first : {4}, last : {6}] \cup [first : {0}, last : {0}]

GptDisk(n, z, slots) ==
    [size |-> DiskSize, signed |-> TRUE, efi |-> TRUE, header |-> [num |-> n, size |-> z],
     table |-> (0 :> NoTable) @@ (1 :> NoTable), slots |-> slots]

MbrDisks ==
    {MbrDisk(m, e, data, {}) : m \in Mbrs, e \in Ebrs, data \in {NoTable, OldTable}} \cup
    {MbrDisk(m, <<Data(1), Link(10), None, None>>, NoTable, bad) :
        m \in Mbrs, bad \in {{1}, {3}, {4}}}

SmallDisks ==
    MbrDisks
    \cup {GptDisk(3, z, s) : z \in {1, 2}, s \in [1..3 -> Extent]}
    \cup {GptDisk(n, 1, <<[first |-> 4, last |-> 6]>>) : n \in {0, 2}}
    \cup {[MbrDisk(Blank, Blank, Blank, {}) EXCEPT !.signed = FALSE]}
=============================================================================
