----------------------- MODULE PartitionTablesProofs -----------------------
(***************************************************************************)
(* PartitionTables for any number of devices and any contents of them: the *)
(* listing is the one the tables mean.                                     *)
(***************************************************************************)
EXTENDS PartitionTables, SequenceTheorems, WellFoundedInduction, TLAPS

Sectors == 0..Wrap-1
Found   == [start : Sectors, total : Sectors]

LEMMA AddType ==
    ASSUME NEW a \in Sectors, NEW b \in Sectors
    PROVE  Add(a, b) \in Sectors
BY DeviceAssumption DEF Add, Sectors

LEMMA DiskFacts ==
    ASSUME NEW d \in Disks
    PROVE  /\ d.size \in Nat
           /\ DOMAIN d.table \subseteq Sectors
           /\ DOMAIN d.table \subseteq 0..d.size-1
           /\ \A s \in DOMAIN d.table : d.table[s] \in [1..4 -> Entry]
           /\ d.header \in Header /\ d.slots \in Seq(Slot)
BY DiskAssumption DEF Sectors

LEMMA EntryFacts ==
    ASSUME NEW e \in Entry
    PROVE  e.chs \in Sectors /\ e.start \in Sectors /\ e.total \in Sectors
BY DEF Entry, Sectors

-----------------------------------------------------------------------------
(* The chain of EBRs is well defined, although it is recursive *)

LEMMA Ascends ==
    ASSUME NEW S, 0 \in S, \A n \in Nat : n \in S => n + 1 \in S
    PROVE  Nat \subseteq S
<1> SUFFICES ASSUME Nat \ S # {}
             PROVE  FALSE
  OBVIOUS
<1>1. \E x \in Nat \ S : \A y \in Nat \ S : ~(<<y, x>> \in OpToRel(<, Nat))
  BY NatLessThanWellFounded, WFMin
<1>2. \A x, y \in Nat : y < x => <<y, x>> \in OpToRel(<, Nat)
  BY DEF OpToRel
<1>3. PICK x \in Nat \ S : \A y \in Nat \ S : ~(y < x)
  BY <1>1, <1>2, Zenon
<1>4. x - 1 \in Nat /\ x - 1 < x /\ (x - 1) + 1 = x
  BY <1>3
<1> QED
  BY <1>3, <1>4

Lists == [Sectors -> Seq(Found)]

\* What the EBR in sector s lists, given what those behind it list.
Longer(d, first, g) ==
    [s \in Sectors |->
       IF s \notin DOMAIN d.table THEN <<>>
       ELSE LogicalHere(d, s) \o
            IF d.table[s][2].total = 0 THEN <<>>
            ELSE g[Add(first, d.table[s][2].start)]]

Nothing == [s \in Sectors |-> <<>>]

LEMMA HereType ==
    ASSUME NEW d \in Disks, NEW s \in DOMAIN d.table
    PROVE  LogicalHere(d, s) \in Seq(Found)
<1>1. s \in Sectors /\ d.table[s][1] \in Entry
  BY DiskFacts
<1>2. [start |-> Add(s, d.table[s][1].start), total |-> d.table[s][1].total] \in Found
  BY <1>1, EntryFacts, AddType DEF Found
<1> QED
  BY <1>2 DEF LogicalHere

LEMMA LongerType ==
    ASSUME NEW d \in Disks, NEW first \in Sectors, NEW g \in Lists
    PROVE  Longer(d, first, g) \in Lists
<1>1. ASSUME NEW s \in DOMAIN d.table
      PROVE  g[Add(first, d.table[s][2].start)] \in Seq(Found)
  BY DiskFacts, EntryFacts, AddType DEF Lists
<1>2. ASSUME NEW s \in Sectors, s \in DOMAIN d.table
      PROVE  LogicalHere(d, s) \o
             (IF d.table[s][2].total = 0 THEN <<>>
              ELSE g[Add(first, d.table[s][2].start)]) \in Seq(Found)
  <2> DEFINE h == LogicalHere(d, s)
             r == IF d.table[s][2].total = 0 THEN <<>>
                  ELSE g[Add(first, d.table[s][2].start)]
  <2>1. h \in Seq(Found) /\ r \in Seq(Found)
    BY <1>1, <1>2, HereType
  <2> HIDE DEF h, r
  <2>2. h \o r \in Seq(Found)
    BY <2>1
  <2> QED
    BY <2>2 DEF h, r
<1> QED
  BY <1>2 DEF Lists, Longer

LEMMA ChainExists ==
    ASSUME NEW d \in Disks, NEW first \in Sectors, NEW N \in Nat
    PROVE  \E F \in [0..N -> Lists] :
             F[0] = Nothing /\ \A n \in 1..N : F[n] = Longer(d, first, F[n-1])
<1> DEFINE Good(m, F) == F[0] = Nothing /\ \A n \in 1..m : F[n] = Longer(d, first, F[n-1])
           S == {m \in Nat : \E F \in [0..m -> Lists] : Good(m, F)}
<1>0. Nothing \in Lists
  BY DEF Nothing, Lists
<1>1. 0 \in S
  <2>1. [k \in 0..0 |-> Nothing] \in [0..0 -> Lists]
    BY <1>0
  <2>2. Good(0, [k \in 0..0 |-> Nothing])
    OBVIOUS
  <2> QED
    BY <2>1, <2>2
<1>2. ASSUME NEW m \in Nat, m \in S
      PROVE  m + 1 \in S
  <2>1. PICK F \in [0..m -> Lists] : Good(m, F)
    BY <1>2
  <2> DEFINE H == [k \in 0..m+1 |-> IF k = m + 1 THEN Longer(d, first, F[m]) ELSE F[k]]
  <2>2. H \in [0..m+1 -> Lists]
    BY <2>1, LongerType
  <2>3. H[0] = Nothing
    BY <2>1
  <2>4. ASSUME NEW n \in 1..m+1
        PROVE  H[n] = Longer(d, first, H[n-1])
    <3>1. H[n-1] = F[n-1]
      OBVIOUS
    <3>2. CASE n = m + 1
      BY <3>1, <3>2
    <3>3. CASE n \in 1..m
      BY <2>1, <3>1, <3>3
    <3> QED
      BY <3>2, <3>3
  <2>5. Good(m + 1, H)
    BY <2>3, <2>4
  <2> HIDE DEF H, Good
  <2>6. m + 1 \in Nat /\ \E F1 \in [0..m+1 -> Lists] : Good(m + 1, F1)
    BY <2>2, <2>5
  <2> QED
    BY <2>6 DEF S
<1> HIDE DEF S
<1>3. N \in S
  BY <1>1, <1>2, Ascends
<1> QED
  BY <1>3 DEF S

LEMMA ChainFacts ==
    ASSUME NEW d \in Disks, NEW first \in Sectors
    PROVE  /\ Chain(d, first) \in [0..Wrap -> Lists]
           /\ \A n \in 1..Wrap : Chain(d, first)[n] = Longer(d, first, Chain(d, first)[n-1])
<1> DEFINE Body(f) == [n \in 0..Wrap |->
             [s \in 0..Wrap-1 |->
             IF n = 0 \/ s \notin DOMAIN d.table THEN <<>>
             ELSE LogicalHere(d, s) \o
                  IF d.table[s][2].total = 0 THEN <<>>
                  ELSE f[n-1][Add(first, d.table[s][2].start)]]]
           C == Chain(d, first)
<1>1. C = CHOOSE f : f = Body(f)
  BY DEF Chain
<1>2. \E F : F = Body(F)
  <2>1. PICK F \in [0..Wrap -> Lists] :
               F[0] = Nothing /\ \A n \in 1..Wrap : F[n] = Longer(d, first, F[n-1])
    BY DeviceAssumption, ChainExists
  <2>2. ASSUME NEW n \in 0..Wrap
        PROVE  F[n] = Body(F)[n]
    <3>1. CASE n = 0
      <4>1. Body(F)[n] = [s \in Sectors |-> <<>>]
        BY <3>1 DEF Sectors
      <4> QED
        BY <2>1, <3>1, <4>1 DEF Nothing
    <3>2. CASE n \in 1..Wrap
      <4>1. n # 0 /\ F[n] = Longer(d, first, F[n-1])
        BY <2>1, <3>2
      <4>2. Body(F)[n] = Longer(d, first, F[n-1])
        BY <4>1 DEF Longer, Sectors
      <4> QED
        BY <4>1, <4>2
    <3> HIDE DEF Body
    <3> QED
      BY <3>1, <3>2
  <2>3. F = [n \in 0..Wrap |-> F[n]]
    BY <2>1
  <2>4. F = Body(F)
    BY <2>2, <2>3
  <2> QED
    BY <2>4
<1>3. C = Body(C)
  <2> HIDE DEF Body, C
  <2> QED
    BY <1>1, <1>2
<1> HIDE DEF C
<1>4. C[0] = Nothing
  <2>1. 0 \in 0..Wrap
    BY DeviceAssumption
  <2>2. Body(C)[0] = [s \in 0..Wrap-1 |-> <<>>]
    BY <2>1
  <2> HIDE DEF Body
  <2> QED
    BY <1>3, <2>2 DEF Nothing, Sectors
<1>5. ASSUME NEW n \in 1..Wrap
      PROVE  C[n] = Longer(d, first, C[n-1])
  <2>1. n \in 0..Wrap /\ n # 0
    BY <1>5
  <2>2. C[n] = Body(C)[n]
    BY <1>3
  <2> QED
    BY <2>1, <2>2 DEF Longer, Sectors
<1>6. \A n \in 0..Wrap : C[n] \in Lists
  <2> DEFINE S == {n \in Nat : n <= Wrap => C[n] \in Lists}
  <2>1. 0 \in S
    <3>1. Nothing \in Lists
      BY DEF Nothing, Lists
    <3> QED
      BY <1>4, <3>1
  <2>2. ASSUME NEW n \in Nat, n \in S
        PROVE  n + 1 \in S
    <3>1. CASE n + 1 <= Wrap
      <4>1. n + 1 \in 1..Wrap /\ (n + 1) - 1 = n /\ C[n] \in Lists
        BY <2>2, <3>1, DeviceAssumption
      <4>2. C[n + 1] = Longer(d, first, C[n])
        BY <1>5, <4>1
      <4> QED
        BY <4>1, <4>2, LongerType
    <3> QED
      BY <3>1
  <2> HIDE DEF S
  <2>3. Nat \subseteq S
    BY <2>1, <2>2, Ascends
  <2> QED
    BY <2>3 DEF S
<1>7. C = [n \in 0..Wrap |-> C[n]]
  <2>1. DOMAIN C = 0..Wrap /\ C = [n \in DOMAIN C |-> C[n]]
    BY <1>3
  <2> QED
    BY <2>1
<1> QED
  BY <1>5, <1>6, <1>7 DEF C

-----------------------------------------------------------------------------
(* What the walk prints of an ordinary disk *)

\* The line of the first EBR, if the extended partition has one with a
\* logical partition.
FirstLogical(d) ==
    LET s == ExtendedStart(d)
    IN  IF ExtendedSlots(d) = {} \/ s \notin DOMAIN d.table THEN <<>>
        ELSE IF d.table[s][1].total = 0 THEN <<>>
        ELSE <<[num |-> 5, start |-> Add(s, d.table[s][1].start), total |-> d.table[s][1].total]>>

Walked(d) == PrimaryLines(d.table[0]) \o FirstLogical(d)

LEMMA LineTypes ==
    ASSUME NEW n \in Nat, NEW e, e.start \in Sectors, e.total \in Sectors
    PROVE  LineOf(n, e) \in Line
BY DeviceAssumption DEF LineOf, Line, Sectors

LEMMA PrimaryType ==
    ASSUME NEW entries \in [1..4 -> Entry]
    PROVE  PrimaryLines(entries) \in Seq(Line)
<1>1. ASSUME NEW n \in 1..4
      PROVE  PrimaryLine(n, entries[n]) \in Seq(Line)
  BY EntryFacts, LineTypes DEF PrimaryLine
<1> DEFINE l(n) == PrimaryLine(n, entries[n])
<1>2. l(1) \in Seq(Line) /\ l(2) \in Seq(Line) /\ l(3) \in Seq(Line) /\ l(4) \in Seq(Line)
  BY <1>1
<1> HIDE DEF l
<1>3. l(1) \o l(2) \o l(3) \o l(4) \in Seq(Line)
  BY <1>2
<1> QED
  BY <1>3 DEF PrimaryLines, l

LEMMA ExtendedFacts ==
    ASSUME NEW d \in Disks, 0 \in DOMAIN d.table, ExtendedSlots(d) # {}
    PROVE  /\ ExtendedStart(d) \in Sectors
           /\ \E n \in ExtendedSlots(d) : ExtendedStart(d) = d.table[0][n].start
<1> DEFINE n == CHOOSE m \in ExtendedSlots(d) : TRUE
<1>1. n \in ExtendedSlots(d)
  OBVIOUS
<1>2. ExtendedStart(d) = d.table[0][n].start
  BY DEF ExtendedStart
<1>3. n \in 1..4
  BY <1>1 DEF ExtendedSlots
<1> HIDE DEF n
<1>4. d.table[0][n] \in Entry
  BY <1>3, DiskFacts
<1> QED
  BY <1>1, <1>2, <1>4, EntryFacts

LEMMA FirstOfConcat ==
    ASSUME NEW S, NEW h \in Seq(S), NEW r \in Seq(S), Len(h) = 1
    PROVE  Len(h \o r) >= 1 /\ (h \o r)[1] = h[1]
<1>1. Len(r) \in Nat /\ 1 \in 1..Len(h) + Len(r) /\ 1 <= Len(h)
  OBVIOUS
<1>2. Len(h \o r) = Len(h) + Len(r)
  BY ConcatProperties
<1>3. (h \o r)[1] = h[1]
  BY <1>1, ConcatProperties
<1> QED
  BY <1>1, <1>2, <1>3

LEMMA LogicalFacts ==
    ASSUME NEW d \in Disks, NEW first \in Sectors
    PROVE  /\ LogicalLines(d, first) \in Seq(Line)
           /\ first \notin DOMAIN d.table => LogicalLines(d, first) = <<>>
           /\ first \in DOMAIN d.table /\ d.table[first][1].total # 0 =>
                /\ LogicalLines(d, first) # <<>>
                /\ LogicalLines(d, first)[1] =
                     [num |-> 5, start |-> Add(first, d.table[first][1].start),
                      total |-> d.table[first][1].total]
           /\ first \in DOMAIN d.table /\ d.table[first][2].total = 0 =>
                Len(LogicalLines(d, first)) = IF d.table[first][1].total = 0 THEN 0 ELSE 1
<1> DEFINE c == Chain(d, first)[Wrap][first]
           h == LogicalHere(d, first)
           r == IF d.table[first][2].total = 0 THEN <<>>
                ELSE Chain(d, first)[Wrap-1][Add(first, d.table[first][2].start)]
<1>1. Wrap \in 1..Wrap /\ Wrap - 1 \in 0..Wrap /\ Wrap \in 0..Wrap
  BY DeviceAssumption
<1>2. Chain(d, first)[Wrap] = Longer(d, first, Chain(d, first)[Wrap-1])
  BY <1>1, ChainFacts
<1>3. c = IF first \notin DOMAIN d.table THEN <<>> ELSE h \o r
  BY <1>2 DEF Longer
<1>4. c \in Seq(Found)
  BY <1>1, ChainFacts DEF Lists
<1>5. first \in DOMAIN d.table => r \in Seq(Found) /\ h \in Seq(Found)
  <2> SUFFICES ASSUME first \in DOMAIN d.table
               PROVE  r \in Seq(Found) /\ h \in Seq(Found)
    OBVIOUS
  <2>1. h \in Seq(Found)
    BY HereType
  <2>2. d.table[first][2] \in Entry
    BY DiskFacts
  <2>3. Add(first, d.table[first][2].start) \in Sectors
    BY <2>2, EntryFacts, AddType
  <2>4. Chain(d, first)[Wrap-1] \in Lists
    BY <1>1, ChainFacts
  <2>5. Chain(d, first)[Wrap-1][Add(first, d.table[first][2].start)] \in Seq(Found)
    BY <2>3, <2>4 DEF Lists
  <2> QED
    BY <2>1, <2>5
<1>6. LogicalLines(d, first) = [k \in 1..Len(c) |-> LineOf(k + 4, c[k])]
  BY <1>4 DEF LogicalLines
<1>7. \A k \in 1..Len(c) : LineOf(k + 4, c[k]) \in Line
  <2> SUFFICES ASSUME NEW k \in 1..Len(c)
               PROVE  LineOf(k + 4, c[k]) \in Line
    OBVIOUS
  <2> HIDE DEF c
  <2>1. c[k] \in Found /\ k + 4 \in Nat
    BY <1>4
  <2> QED
    BY <2>1, LineTypes DEF Found
<1> HIDE DEF c, r
<1>8. LogicalLines(d, first) \in Seq(Line) /\ Len(LogicalLines(d, first)) = Len(c)
  BY <1>4, <1>6, <1>7
<1>9. first \notin DOMAIN d.table => LogicalLines(d, first) = <<>>
  BY <1>3, <1>6, <1>8
<1>10. ASSUME first \in DOMAIN d.table, d.table[first][1].total # 0
       PROVE  /\ Len(h) = 1
              /\ h[1] = [start |-> Add(first, d.table[first][1].start),
                         total |-> d.table[first][1].total]
  BY <1>10 DEF LogicalHere
<1>11. ASSUME first \in DOMAIN d.table, d.table[first][1].total = 0
       PROVE  h = <<>>
  BY <1>11 DEF LogicalHere
<1> HIDE DEF h
<1>12. ASSUME first \in DOMAIN d.table, d.table[first][1].total # 0
       PROVE  /\ LogicalLines(d, first) # <<>>
              /\ LogicalLines(d, first)[1] =
                   [num |-> 5, start |-> Add(first, d.table[first][1].start),
                    total |-> d.table[first][1].total]
  <2>1. c = h \o r /\ h \in Seq(Found) /\ r \in Seq(Found) /\ Len(h) = 1
    BY <1>3, <1>5, <1>10, <1>12
  <2>2. Len(c) >= 1 /\ c[1] = h[1]
    <3>1. Len(h \o r) >= 1 /\ (h \o r)[1] = h[1]
      BY <2>1, FirstOfConcat
    <3> QED
      BY <2>1, <3>1
  <2>3. 1 \in 1..Len(c) /\ 1 + 4 = 5
    BY <2>2, <1>4
  <2>4. LogicalLines(d, first)[1] = LineOf(5, c[1])
    BY <1>6, <2>3
  <2>5. LogicalLines(d, first) # <<>>
    BY <1>8, <2>2
  <2> QED
    BY <2>2, <2>4, <2>5, <1>10, <1>12 DEF LineOf
<1>13. ASSUME first \in DOMAIN d.table, d.table[first][2].total = 0
       PROVE  Len(c) = IF d.table[first][1].total = 0 THEN 0 ELSE 1
  <2>1. r = <<>> /\ c = h \o r /\ h \in Seq(Found)
    BY <1>3, <1>5, <1>13 DEF r
  <2>2. c = h
    BY <2>1
  <2> QED
    BY <2>2, <1>10, <1>11, <1>13
<1> QED
  BY <1>8, <1>9, <1>12, <1>13

LEMMA FirstLogicalFacts ==
    ASSUME NEW d \in Disks, Ordinary(d), ExtendedSlots(d) # {}
    PROVE  LET l == LogicalLines(d, ExtendedStart(d))
           IN  /\ l \in Seq(Line) /\ FirstLogical(d) \in Seq(Line)
               /\ FirstLogical(d) = <<>> \/ (l # <<>> /\ FirstLogical(d) = <<l[1]>>)
               /\ LoneEbr(d) => FirstLogical(d) = l
<1> DEFINE s == ExtendedStart(d)
           l == LogicalLines(d, s)
           x == FirstLogical(d)
<1>1. s \in Sectors /\ \E n \in ExtendedSlots(d) : s = d.table[0][n].start
  BY ExtendedFacts DEF Ordinary
<1>2. /\ l \in Seq(Line)
      /\ s \notin DOMAIN d.table => l = <<>>
      /\ s \in DOMAIN d.table /\ d.table[s][1].total # 0 =>
           /\ l # <<>>
           /\ l[1] = [num |-> 5, start |-> Add(s, d.table[s][1].start),
                      total |-> d.table[s][1].total]
      /\ s \in DOMAIN d.table /\ d.table[s][2].total = 0 =>
           Len(l) = IF d.table[s][1].total = 0 THEN 0 ELSE 1
  BY <1>1, LogicalFacts
<1>3. LoneEbr(d) /\ s \in DOMAIN d.table => d.table[s][2].total = 0
  BY <1>1 DEF LoneEbr
<1>4. /\ s \notin DOMAIN d.table => x = <<>>
      /\ s \in DOMAIN d.table /\ d.table[s][1].total = 0 => x = <<>>
      /\ s \in DOMAIN d.table /\ d.table[s][1].total # 0 =>
           x = <<[num |-> 5, start |-> Add(s, d.table[s][1].start),
                      total |-> d.table[s][1].total]>>
  BY DEF FirstLogical
<1> HIDE DEF s, l, x
<1>5. x = <<>> \/ (l # <<>> /\ x = <<l[1]>>)
  BY <1>2, <1>4
<1>6. x \in Seq(Line)
  <2>1. CASE x = <<>>
    BY <2>1
  <2>2. CASE l # <<>> /\ x = <<l[1]>>
    <3>1. l[1] \in Line
      BY <1>2, <2>2
    <3> QED
      BY <2>2, <3>1
  <2> QED
    BY <1>5, <2>1, <2>2
<1>7. ASSUME LoneEbr(d)
      PROVE  x = l
  <2>1. CASE s \notin DOMAIN d.table
    BY <2>1, <1>2, <1>4
  <2>2. CASE s \in DOMAIN d.table /\ d.table[s][1].total = 0
    <3>1. Len(l) = 0
      BY <2>2, <1>2, <1>3, <1>7
    <3> QED
      BY <2>2, <3>1, <1>2, <1>4
  <2>3. CASE s \in DOMAIN d.table /\ d.table[s][1].total # 0
    <3>1. Len(l) = 1 /\ x = <<l[1]>>
      BY <2>3, <1>2, <1>3, <1>4, <1>7
    <3> QED
      BY <3>1, <1>2
  <2> QED
    BY <2>1, <2>2, <2>3
<1> QED
  BY <1>2, <1>5, <1>6, <1>7 DEF s, l, x

LEMMA PrefixOfConcat ==
    ASSUME NEW S, NEW p \in Seq(S), NEW l \in Seq(S)
    PROVE  /\ IsPrefix(<<>>, p \o l)
           /\ IsPrefix(p, p \o l)
           /\ l # <<>> => IsPrefix(p \o <<l[1]>>, p \o l)
<1>1. IsPrefix(<<>>, p \o l)
  BY DEF IsPrefix
<1>2. IsPrefix(p, p \o l)
  BY DEF IsPrefix
<1>3. ASSUME l # <<>>
      PROVE  IsPrefix(p \o <<l[1]>>, p \o l)
  <2> DEFINE q == p \o <<l[1]>>
             t == p \o l
  <2>1. l[1] \in S /\ Len(l) >= 1
    BY <1>3
  <2>2. q \in Seq(S) /\ t \in Seq(S) /\ Len(q) = Len(p) + 1 /\ Len(t) = Len(p) + Len(l)
    BY <2>1
  <2>3. \A k \in 1..Len(q) : q[k] = t[k]
    BY <2>1
  <2> HIDE DEF q, t
  <2>4. Len(q) <= Len(t)
    BY <2>1, <2>2
  <2>5. SubSeq(q, 1, Len(q)) = SubSeq(t, 1, Len(q))
    BY <2>2, <2>3, <2>4
  <2>6. IsPrefix(q, t)
    BY <2>4, <2>5 DEF IsPrefix
  <2> QED
    BY <2>6 DEF q, t
<1> QED
  BY <1>1, <1>2, <1>3

\* What the walk may have printed is the beginning of the true list; with a
\* single EBR what it prints in the end is all of it.
LEMMA WalkedFacts ==
    ASSUME NEW d \in Disks, Ordinary(d)
    PROVE  /\ IsPrefix(<<>>, AllLines(d))
           /\ IsPrefix(PrimaryLines(d.table[0]), AllLines(d))
           /\ IsPrefix(Walked(d), AllLines(d))
           /\ LoneEbr(d) => Walked(d) = AllLines(d)
<1> DEFINE p == PrimaryLines(d.table[0])
           l == IF ExtendedSlots(d) = {} THEN <<>> ELSE LogicalLines(d, ExtendedStart(d))
           x == FirstLogical(d)
<1>1. p \in Seq(Line)
  BY DiskFacts, PrimaryType DEF Ordinary
<1>2. /\ l \in Seq(Line) /\ x \in Seq(Line)
      /\ x = <<>> \/ (l # <<>> /\ x = <<l[1]>>)
      /\ LoneEbr(d) => x = l
  <2>1. CASE ExtendedSlots(d) = {}
    BY <2>1 DEF FirstLogical
  <2>2. CASE ExtendedSlots(d) # {}
    BY <2>2, FirstLogicalFacts
  <2> QED
    BY <2>1, <2>2
<1>3. AllLines(d) = p \o l /\ Walked(d) = p \o x
  BY DEF AllLines, Walked
<1> HIDE DEF p, l, x
<1>4. /\ IsPrefix(<<>>, p \o l) /\ IsPrefix(p, p \o l)
      /\ l # <<>> => IsPrefix(p \o <<l[1]>>, p \o l)
  BY <1>1, <1>2, PrefixOfConcat
<1>5. IsPrefix(p \o x, p \o l)
  <2>1. p \o <<>> = p
    BY <1>1
  <2> QED
    BY <1>2, <1>4, <2>1
<1> QED
  BY <1>2, <1>3, <1>4, <1>5 DEF p

-----------------------------------------------------------------------------
(* Types *)

LEMMA RelocatedType ==
    ASSUME NEW entries \in [1..4 -> Entry], NEW s \in Sectors
    PROVE  /\ Relocated(entries, s) \in [1..4 -> Entry]
           /\ Relocated(entries, s)[1] =
                IF entries[1].total = 0 THEN entries[1]
                ELSE [entries[1] EXCEPT !.start = Add(entries[1].start, s)]
           /\ \A n \in 2..4 : Relocated(entries, s)[n] = entries[n]
<1>1. entries[1] \in Entry
  OBVIOUS
<1>2. Add(entries[1].start, s) \in Sectors
  BY <1>1, EntryFacts, AddType
<1>3. [entries[1] EXCEPT !.start = Add(entries[1].start, s)] \in Entry
  BY <1>1, <1>2 DEF Entry, Sectors
<1> QED
  BY <1>3 DEF Relocated

LEMMA NextEbrType ==
    ASSUME NEW entries \in [1..4 -> Entry], NEW n \in 1..4
    PROVE  NextEbr(entries, n) \in Sectors
<1>1. entries[2] \in Entry /\ entries[n] \in Entry
  OBVIOUS
<1>2. Add(entries[2].chs, entries[n].start) \in Sectors
  BY <1>1, EntryFacts, AddType
<1> QED
  BY <1>2, DeviceAssumption DEF NextEbr, Sectors

\* A read always starts at a sector number, or just behind the last one.
LEMMA LandsType ==
    ASSUME ebr \in Sectors, pos \in 0..Wrap, NEW d \in Disks, d = disk[dev]
    PROVE  /\ Lands \in 0..Wrap
           /\ Lands \in DOMAIN d.table => Lands + 1 \in 0..Wrap
<1>1. Lands \in 0..Wrap
  BY DeviceAssumption DEF Lands, Landing, Sectors
<1>2. Lands \in DOMAIN d.table => Lands \in Sectors
  BY DiskFacts
<1> HIDE DEF Lands
<1> QED
  BY <1>1, <1>2, DeviceAssumption DEF Sectors

LEMMA ShowType ==
    ASSUME TypeOK, dev \in Devices, NEW lines \in Seq(Line), Show(lines)
    PROVE  /\ listed' \in [Devices -> Seq(Line)]
           /\ listed'[dev] = listed[dev] \o lines
           /\ \A d \in Devices \ {dev} : listed'[d] = listed[d]
<1>1. listed \in [Devices -> Seq(Line)] /\ listed[dev] \in Seq(Line)
  BY DEF TypeOK
<1>2. listed[dev] \o lines \in Seq(Line)
  BY <1>1
<1> QED
  BY <1>1, <1>2 DEF Show

LEMMA InitTyped == Init => TypeOK
<1> SUFFICES ASSUME Init
             PROVE  TypeOK
  OBVIOUS
<1>1. Blank \in [1..4 -> Entry]
  BY DeviceAssumption DEF Blank, Entry
<1>2. 1 \in 1..NumDevices+1 /\ 0 \in 0..Wrap-1 /\ 0 \in 0..Wrap
  BY DeviceAssumption
<1> QED
  BY <1>1, <1>2 DEF Init, TypeOK

LEMMA TypeStep ==
    ASSUME TypeOK, [Next]_vars
    PROVE  TypeOK'
<1> USE DeviceAssumption
<1>0. /\ disk \in [Devices -> Disks] /\ dev \in 1..NumDevices+1
      /\ pc \in {"open", "close", "mbr", "scan", "chain", "gpt"}
      /\ pc # "open" => dev \in Devices
      /\ pc \in {"mbr", "scan", "chain"} => IsMbr(disk[dev])
      /\ buffer \in [1..4 -> Entry] /\ i \in Nat \ {0}
      /\ pc \in {"mbr", "chain"} => i <= 4
      /\ ebr \in Sectors /\ pos \in 0..Wrap /\ logical \in Nat
      /\ described \subseteq Devices /\ listed \in [Devices -> Seq(Line)]
  BY DEF TypeOK, Sectors
<1>b. Blank \in [1..4 -> Entry]
  BY DEF Blank, Entry
<1>1. CASE OpenFails
  BY <1>0, <1>1 DEF OpenFails, TypeOK, Sectors
<1>2. CASE Detect
  <2>1. TableType \in {"close", "gpt", "mbr"} /\ (TableType = "mbr" => IsMbr(disk[dev]))
    BY DEF TableType, IsMbr, Readable, table
  <2> QED
    BY <1>0, <1>2, <2>1 DEF Detect, TypeOK, Sectors
<1>3. CASE Close
  <2>1. dev + 1 \in 1..NumDevices+1
    BY <1>0, <1>3 DEF Close, Devices
  <2>2. 0 \in 0..Wrap-1 /\ 0 \in 0..Wrap
    OBVIOUS
  <2> QED
    BY <1>0, <1>b, <1>3, <2>1, <2>2 DEF Close, TypeOK, Sectors
<1>4. CASE ListPrimaries
  <2>1. dev \in Devices /\ disk[dev] \in Disks /\ 0 \in DOMAIN disk[dev].table
    BY <1>0, <1>4 DEF ListPrimaries, IsMbr
  <2>2. table[0] \in [1..4 -> Entry]
    BY <2>1, DiskFacts DEF table
  <2>3. listed' \in [Devices -> Seq(Line)]
    BY <1>4, <2>1, <2>2, PrimaryType, ShowType DEF ListPrimaries
  <2>4. 1 \in 0..Wrap
    OBVIOUS
  <2> QED
    BY <1>0, <1>4, <2>2, <2>3, <2>4 DEF ListPrimaries, TypeOK, Sectors
<1>5. CASE ScanEntry
  <2>1. i \in 1..4 /\ buffer[i] \in Entry
    BY <1>0, <1>5 DEF ScanEntry
  <2>2. buffer[i].start \in Sectors
    BY <2>1, EntryFacts
  <2> QED
    BY <1>0, <1>5, <2>1, <2>2 DEF ScanEntry, TypeOK, Sectors
<1>6. CASE ScanEnds
  BY <1>0, <1>6 DEF ScanEnds, TypeOK, Sectors
<1>7. CASE LeaveChain
  <2>1. disk[dev] \in Disks
    BY <1>0, <1>7 DEF LeaveChain
  <2>2. pos' \in 0..Wrap
    BY <1>0, <1>7, <2>1, LandsType DEF LeaveChain
  <2> QED
    BY <1>0, <1>7, <2>2 DEF LeaveChain, TypeOK, Sectors
<1>8. CASE ReadEbr
  <2>1. dev \in Devices /\ disk[dev] \in Disks /\ Lands \in DOMAIN disk[dev].table
    BY <1>0, <1>8 DEF ReadEbr, Readable, table
  <2>2. table[Lands] \in [1..4 -> Entry]
    BY <2>1, DiskFacts DEF table
  <2>p. pos' \in 0..Wrap
    BY <1>0, <1>8, <2>1, LandsType DEF ReadEbr
  <2>3. buffer' \in [1..4 -> Entry]
    BY <1>0, <1>8, <2>2, RelocatedType DEF ReadEbr
  <2>4. ebr' \in Sectors
    BY <1>0, <1>8, <2>3, NextEbrType DEF ReadEbr
  <2>5. buffer'[1] \in Entry
    BY <2>3
  <2>6. <<LineOf(logical, buffer'[1])>> \in Seq(Line)
    <3> DEFINE e == buffer'[1]
    <3>1. e.start \in Sectors /\ e.total \in Sectors
      BY <2>5, EntryFacts
    <3> HIDE DEF e
    <3>2. LineOf(logical, e) \in Line
      BY <1>0, <3>1, LineTypes
    <3> QED
      BY <3>2 DEF e
  <2>7. listed' \in [Devices -> Seq(Line)] /\ logical' \in Nat
    <3>1. CASE buffer'[1].total # 0
      <4>1. Show(<<LineOf(logical, buffer'[1])>>) /\ logical' = logical + 1
        BY <1>8, <3>1 DEF ReadEbr
      <4>2. listed' \in [Devices -> Seq(Line)]
        BY <2>1, <2>6, <4>1, ShowType
      <4>3. logical' \in Nat
        BY <1>0, <4>1
      <4> QED
        BY <4>2, <4>3
    <3>2. CASE buffer'[1].total = 0
      BY <1>0, <1>8, <3>2 DEF ReadEbr
    <3> QED
      BY <3>1, <3>2
  <2> QED
    BY <1>0, <1>8, <2>p, <2>3, <2>4, <2>7 DEF ReadEbr, TypeOK, Sectors
<1>9. CASE GptEntry
  <2> DEFINE r == disk[dev].slots[i]
             x == [num |-> i, start |-> r.first, total |-> r.last - r.first + 1]
  <2>1. dev \in Devices /\ disk[dev] \in Disks /\ i \in DOMAIN disk[dev].slots
    BY <1>0, <1>9 DEF GptEntry
  <2>2. r \in Slot
    BY <2>1, DiskFacts
  <2>3. x \in Line
    BY <1>0, <2>2 DEF Slot, Line
  <2>4. Show(<<x>>) \/ listed' = listed
    BY <1>9 DEF GptEntry
  <2> HIDE DEF r, x
  <2>5. listed' \in [Devices -> Seq(Line)]
    <3>1. CASE Show(<<x>>)
      <4>1. <<x>> \in Seq(Line)
        BY <2>3
      <4> QED
        BY <2>1, <3>1, <4>1, ShowType
    <3> QED
      BY <1>0, <2>4, <3>1
  <2>6. pc = "gpt" /\ i' = i + 1
        /\ UNCHANGED <<disk, dev, pc, buffer, ebr, pos, logical, described>>
    BY <1>9 DEF GptEntry
  <2> QED
    BY <1>0, <2>5, <2>6 DEF TypeOK, Sectors
<1>10. CASE GptEnds
  BY <1>0, <1>10 DEF GptEnds, TypeOK, Sectors
<1>11. CASE UNCHANGED vars
  BY <1>11 DEF vars, TypeOK, IsMbr
<1> QED
  BY <1>1, <1>2, <1>3, <1>4, <1>5, <1>6, <1>7, <1>8, <1>9, <1>10, <1>11
  DEF Next, Mbr, Gpt

\* Every variable keeps its type, on any disks and however their sectors are
\* linked: the walk stays in the sector buffer and in the sector numbers.
THEOREM TypeCorrect == Spec => []TypeOK
<1>1. Init => TypeOK
  BY InitTyped
<1>2. TypeOK /\ [Next]_vars => TypeOK'
  BY TypeStep
<1> QED
  BY <1>1, <1>2, PTL DEF Spec

-----------------------------------------------------------------------------
(* GPT *)

\* The lines l are among the entries U of a GPT with these slots.
Entries(l, slots, U) ==
    \A k \in DOMAIN l :
        /\ l[k].num \in U
        /\ l[k].start = slots[l[k].num].first
        /\ l[k].total = slots[l[k].num].last - l[k].start + 1
        /\ k > 1 => l[k-1].num < l[k].num
        /\ \A m \in U : m < l[k].num => \E j \in 1..k : l[j].num = m

\* They are those below n.
Below(l, U, n) ==
    /\ \A k \in DOMAIN l : l[k].num < n
    /\ \A m \in U : m < n => \E k \in DOMAIN l : l[k].num = m

Complete(l, U) == \A m \in U : \E k \in DOMAIN l : l[k].num = m

GptInv(d) ==
    /\ IsGpt(disk[d]) => Entries(listed[d], disk[d].slots, GptUsed(disk[d]))
    /\ (dev = d /\ pc = "gpt") => IsGpt(disk[d]) /\ Below(listed[d], GptUsed(disk[d]), i)
    /\ (dev < d \/ (dev = d /\ pc = "open")) => listed[d] = <<>> /\ d \notin described
    /\ (IsGpt(disk[d]) /\ Done(d) /\ d \in described) =>
         Complete(listed[d], GptUsed(disk[d]))

LEMMA GptUsedFacts ==
    ASSUME NEW d \in Disks
    PROVE  /\ GptUsed(d) \subseteq Nat \ {0}
           /\ \A n \in GptUsed(d) : n \in DOMAIN d.slots /\ n <= d.header.num /\ Used(d.slots[n])
           /\ \A n \in Nat \ {0} : n > d.header.num \/ n \notin DOMAIN d.slots =>
                \A m \in GptUsed(d) : m < n
<1>1. d.slots \in Seq(Slot) /\ d.header.num \in Nat
  BY DiskFacts DEF Header
<1>2. DOMAIN d.slots = 1..Len(d.slots) /\ Len(d.slots) \in Nat
  BY <1>1
<1> QED
  BY <1>1, <1>2 DEF GptUsed

LEMMA EntriesStep ==
    ASSUME NEW l \in Seq(Line), NEW slots, NEW U \in SUBSET Nat, NEW n \in U,
           Entries(l, slots, U), Below(l, U, n),
           NEW x \in Line, x.num = n, x.start = slots[n].first,
           x.total = slots[n].last - x.start + 1
    PROVE  /\ Entries(l \o <<x>>, slots, U)
           /\ Below(l \o <<x>>, U, n + 1)
<1> DEFINE t == l \o <<x>>
           K == Len(l) + 1
<1>1. /\ t \in Seq(Line) /\ DOMAIN t = 1..K /\ t[K] = x /\ K \in Nat
      /\ DOMAIN l = 1..Len(l) /\ Len(l) \in Nat
      /\ \A k \in DOMAIN l : t[k] = l[k]
  OBVIOUS
<1>2. n \in Nat /\ \A k \in DOMAIN l : l[k] \in Line /\ l[k].num \in Nat
  <2>1. \A k \in DOMAIN l : l[k] \in Line
    BY <1>1
  <2> QED
    BY <2>1 DEF Line
<1> HIDE DEF t
<1>3. ASSUME NEW k \in DOMAIN l
      PROVE  /\ t[k].num \in U
             /\ t[k].start = slots[t[k].num].first
             /\ t[k].total = slots[t[k].num].last - t[k].start + 1
             /\ k > 1 => t[k-1].num < t[k].num
             /\ \A m \in U : m < t[k].num => \E j \in 1..k : t[j].num = m
  <2>a. \A j \in 1..k : j \in DOMAIN l
    BY <1>1, <1>3
  <2>b. \A j \in DOMAIN l : t[j] = l[j]
    BY <1>1, Zenon
  <2>1. t[k] = l[k] /\ \A j \in 1..k : j \in DOMAIN l /\ t[j] = l[j]
    BY <1>3, <2>a, <2>b, Zenon
  <2>c. k > 1 => k - 1 \in DOMAIN l
    BY <1>1, <1>3
  <2>2. k > 1 => t[k-1] = l[k-1]
    BY <2>b, <2>c
  <2>3. /\ l[k].num \in U
        /\ l[k].start = slots[l[k].num].first
        /\ l[k].total = slots[l[k].num].last - l[k].start + 1
        /\ k > 1 => l[k-1].num < l[k].num
        /\ \A m \in U : m < l[k].num => \E j \in 1..k : l[j].num = m
    BY <1>3 DEF Entries
  <2>4. \A m \in U : m < t[k].num => \E j \in 1..k : t[j].num = m
    BY <2>1, <2>3
  <2>5. k > 1 => t[k-1].num < t[k].num
    BY <2>1, <2>2, <2>3
  <2> QED
    BY <2>1, <2>3, <2>4, <2>5
<1>4. \A m \in U : m < n + 1 => \E j \in 1..K : t[j].num = m
  <2> SUFFICES ASSUME NEW m \in U, m < n + 1
               PROVE  \E j \in 1..K : t[j].num = m
    OBVIOUS
  <2>1. CASE m = n
    BY <1>1, <2>1
  <2>2. CASE m < n
    <3>1. PICK k \in DOMAIN l : l[k].num = m
      BY <2>2 DEF Below
    <3>2. k \in 1..K /\ t[k].num = m
      BY <1>1, <3>1
    <3> QED
      BY <3>2
  <2> QED
    BY <1>2, <2>1, <2>2
<1>5. /\ t[K].num \in U
      /\ t[K].start = slots[t[K].num].first
      /\ t[K].total = slots[t[K].num].last - t[K].start + 1
      /\ K > 1 => t[K-1].num < t[K].num
      /\ \A m \in U : m < t[K].num => \E j \in 1..K : t[j].num = m
  <2>1. K > 1 => K - 1 \in DOMAIN l /\ t[K-1] = l[K-1]
    BY <1>1
  <2>2. K > 1 => t[K-1].num < n
    BY <2>1 DEF Below
  <2>3. \A m \in U : m < n => m < n + 1
    BY <1>2
  <2> QED
    BY <1>1, <1>4, <2>2, <2>3
<1>6. \A k \in DOMAIN t : k \in DOMAIN l \/ k = K
  BY <1>1
<1> HIDE DEF K
<1>7. Entries(t, slots, U)
  BY <1>3, <1>5, <1>6, Zenon DEF Entries
<1>8. \A k \in DOMAIN t : t[k].num < n + 1
  <2>1. \A k \in DOMAIN l : t[k].num < n + 1
    BY <1>1, <1>2 DEF Below
  <2>2. t[K].num < n + 1
    BY <1>1, <1>2
  <2> QED
    BY <1>6, <2>1, <2>2
<1>9. Below(t, U, n + 1)
  BY <1>1, <1>4, <1>8 DEF Below
<1> QED
  BY <1>7, <1>9 DEF t

LEMMA BelowSkips ==
    ASSUME NEW l \in Seq(Line), NEW U \in SUBSET Nat, NEW n \in Nat,
           Below(l, U, n), n \notin U
    PROVE  Below(l, U, n + 1)
<1>1. ASSUME NEW k \in DOMAIN l
      PROVE  l[k].num < n + 1
  <2>1. l[k] \in Line
    OBVIOUS
  <2>2. l[k].num \in Nat
    BY <2>1 DEF Line
  <2> QED
    BY <2>2 DEF Below
<1>2. \A m \in U : m < n + 1 => m < n
  OBVIOUS
<1> QED
  BY <1>1, <1>2 DEF Below

\* A step of which the invariant does not speak.
LEMMA GptStays ==
    ASSUME TypeOK, NEW d \in Devices, GptInv(d), disk' = disk, listed'[d] = listed[d],
           d \in described' <=> d \in described,
           pc' # "gpt" \/ (pc = "gpt" /\ i' = i /\ dev' = dev),
           dev' < d \/ (dev' = d /\ pc' = "open") => dev < d \/ (dev = d /\ pc = "open"),
           Done(d)' => Done(d) \/ d \notin described \/ ~IsGpt(disk[d])
    PROVE  GptInv(d)'
BY DEF GptInv, Done

LEMMA GptStep ==
    ASSUME TypeOK, TypeOK', NEW d \in Devices, GptInv(d), [Next]_vars
    PROVE  GptInv(d)'
<1>0. /\ disk \in [Devices -> Disks] /\ dev \in Nat /\ d \in Nat
      /\ pc \in {"open", "close", "mbr", "scan", "chain", "gpt"}
      /\ pc # "open" => dev \in Devices
      /\ pc \in {"mbr", "scan", "chain"} => IsMbr(disk[dev])
      /\ i \in Nat \ {0} /\ listed \in [Devices -> Seq(Line)]
      /\ disk[d] \in Disks /\ listed[d] \in Seq(Line)
  BY DeviceAssumption DEF TypeOK, Devices
<1>m. pc \in {"mbr", "scan", "chain"} /\ dev = d => ~IsGpt(disk[d])
  BY <1>0 DEF IsMbr, IsGpt
<1>1. CASE OpenFails
  <2>1. /\ pc = "open" /\ pc' = "close" /\ dev' = dev /\ disk' = disk
        /\ listed' = listed /\ described' = described
    BY <1>1 DEF OpenFails
  <2>2. dev = d => d \notin described
    BY <2>1 DEF GptInv
  <2> QED
    BY <2>1, <2>2, GptStays DEF Done
<1>2. CASE Detect
  <2>1. /\ pc = "open" /\ dev' = dev /\ disk' = disk /\ listed' = listed /\ i' = 1
        /\ pc' \in {"close", "gpt", "mbr"} /\ described' = described \cup {dev}
    BY <1>2 DEF Detect, TableType
  <2>2. CASE dev # d
    BY <1>0, <2>1, <2>2 DEF GptInv, Done
  <2>3. CASE dev = d
    <3>1. listed[d] = <<>>
      BY <2>1, <2>3 DEF GptInv
    <3>2. pc' = "gpt" <=> IsGpt(disk[d])
      BY <1>2, <2>3 DEF Detect, TableType, IsGpt, Readable, table
    <3>3. Below(<<>>, GptUsed(disk[d]), 1) /\ Entries(<<>>, disk[d].slots, GptUsed(disk[d]))
      BY <1>0, GptUsedFacts DEF Below, Entries
    <3>4. ~(dev < d)
      BY <1>0, <2>3
    <3> QED
      BY <2>1, <2>3, <3>1, <3>2, <3>3, <3>4 DEF GptInv, Done
  <2> QED
    BY <2>2, <2>3
<1>3. CASE Close
  <2>1. /\ pc = "close" /\ pc' = "open" /\ dev' = dev + 1 /\ disk' = disk
        /\ listed' = listed /\ described' = described
    BY <1>3 DEF Close
  <2>2. dev' < d \/ dev' = d => dev < d
    BY <1>0, <2>1
  <2>3. Done(d)' => Done(d)
    BY <1>0, <2>1 DEF Done
  <2> QED
    BY <2>1, <2>2, <2>3, GptStays
<1>4. CASE ListPrimaries
  <2>1. /\ pc = "mbr" /\ pc' = "scan" /\ dev' = dev /\ disk' = disk
        /\ described' = described
        /\ \A e \in Devices \ {dev} : listed'[e] = listed[e]
    BY <1>0, <1>4 DEF ListPrimaries, Show
  <2>2. CASE dev = d
    BY <1>0, <1>m, <2>1, <2>2 DEF GptInv
  <2>3. CASE dev # d
    BY <2>1, <2>3 DEF GptInv, Done
  <2> QED
    BY <2>2, <2>3
<1>5. CASE ScanEntry
  <2>1. /\ pc = "scan" /\ pc' \in {"scan", "chain"} /\ dev' = dev /\ disk' = disk
        /\ listed' = listed /\ described' = described
    BY <1>5 DEF ScanEntry
  <2> QED
    BY <2>1 DEF GptInv, Done
<1>6. CASE ScanEnds
  <2>1. /\ pc = "scan" /\ pc' = "close" /\ dev' = dev /\ disk' = disk
        /\ listed' = listed /\ described' = described
    BY <1>6 DEF ScanEnds
  <2> QED
    BY <1>m, <2>1, GptStays DEF Done
<1>7. CASE LeaveChain
  <2>1. /\ pc = "chain" /\ pc' = "scan" /\ dev' = dev /\ disk' = disk
        /\ listed' = listed /\ described' = described
    BY <1>7 DEF LeaveChain
  <2> QED
    BY <2>1, GptStays DEF Done
<1>8. CASE ReadEbr
  <2>1. /\ pc = "chain" /\ pc' = "chain" /\ dev' = dev /\ disk' = disk
        /\ described' = described
        /\ \A e \in Devices \ {dev} : listed'[e] = listed[e]
    BY <1>0, <1>8 DEF ReadEbr, Show
  <2>2. CASE dev = d
    BY <1>0, <1>m, <2>1, <2>2 DEF GptInv
  <2>3. CASE dev # d
    BY <2>1, <2>3 DEF GptInv, Done
  <2> QED
    BY <2>2, <2>3
<1>9. CASE GptEntry
  <2> DEFINE r == disk[dev].slots[i]
             x == [num |-> i, start |-> r.first, total |-> r.last - r.first + 1]
  <2>1. /\ pc = "gpt" /\ dev' = dev /\ disk' = disk /\ pc' = pc /\ i' = i + 1
        /\ described' = described
        /\ i <= disk[dev].header.num /\ i \in DOMAIN disk[dev].slots /\ dev \in Devices
        /\ IF Used(r) THEN Show(<<x>>) ELSE listed' = listed
    BY <1>0, <1>9 DEF GptEntry
  <2>2. CASE dev # d
    <3>1. listed'[d] = listed[d]
      <4>1. CASE Used(r)
        BY <1>0, <2>1, <2>2, <4>1 DEF Show
      <4> QED
        BY <2>1, <4>1
    <3> QED
      BY <2>1, <2>2, <3>1 DEF GptInv, Done
  <2>3. CASE dev = d
    <3> DEFINE U == GptUsed(disk[d])
    <3>1. disk[d].slots \in Seq(Slot) /\ r \in Slot /\ U \in SUBSET Nat
      BY <1>0, <2>1, <2>3, DiskFacts, GptUsedFacts
    <3>2. x \in Line
      BY <1>0, <3>1 DEF Line, Slot
    <3>3. i \in U <=> Used(r)
      BY <2>1, <2>3 DEF GptUsed
    <3>4. IsGpt(disk[d]) /\ Entries(listed[d], disk[d].slots, U) /\ Below(listed[d], U, i)
      BY <2>1, <2>3 DEF GptInv
    <3>5. /\ x.num = i /\ x.start = disk[d].slots[i].first
          /\ x.total = disk[d].slots[i].last - x.start + 1
      BY <2>3
    <3> HIDE DEF r, x, U
    <3>6. Entries(listed'[d], disk[d].slots, U) /\ Below(listed'[d], U, i + 1)
      <4>1. CASE ~Used(r)
        BY <1>0, <2>1, <3>1, <3>3, <3>4, <4>1, BelowSkips
      <4>2. CASE Used(r)
        <5>1. listed'[d] = listed[d] \o <<x>>
          BY <1>0, <2>1, <2>3, <4>2 DEF Show
        <5> QED
          BY <1>0, <3>1, <3>2, <3>3, <3>4, <3>5, <4>2, <5>1, EntriesStep
      <4> QED
        BY <4>1, <4>2
    <3>7. ~(dev < d)
      BY <1>0, <2>3
    <3>8. ~Done(d)'
      BY <2>1, <2>3, <3>7 DEF Done
    <3> QED
      BY <2>1, <2>3, <3>4, <3>6, <3>7, <3>8 DEF GptInv, U
  <2> QED
    BY <2>2, <2>3
<1>10. CASE GptEnds
  <2>1. /\ pc = "gpt" /\ pc' = "close" /\ dev' = dev /\ disk' = disk
        /\ listed' = listed /\ described' = described
        /\ i > disk[dev].header.num \/ i \notin DOMAIN disk[dev].slots
    BY <1>10 DEF GptEnds
  <2>2. CASE dev # d
    BY <2>1, <2>2 DEF GptInv, Done
  <2>3. CASE dev = d
    <3>1. \A m \in GptUsed(disk[d]) : m < i
      BY <1>0, <2>1, <2>3, GptUsedFacts
    <3>2. Complete(listed[d], GptUsed(disk[d]))
      BY <2>1, <2>3, <3>1 DEF GptInv, Below, Complete
    <3> QED
      BY <2>1, <2>3, <3>2 DEF GptInv
  <2> QED
    BY <2>2, <2>3
<1>11. CASE UNCHANGED vars
  BY <1>11 DEF vars, GptInv, Done
<1> QED
  BY <1>1, <1>2, <1>3, <1>4, <1>5, <1>6, <1>7, <1>8, <1>9, <1>10, <1>11
  DEF Next, Mbr, Gpt

\* The used entries of a GPT, and they only, are listed under their index with
\* their sectors, in order and without gaps, and all of those up to the first
\* that cannot be read when the device is done, for any number of entries.
THEOREM EntriesListed == Spec => []GptListed
<1> DEFINE Inv == TypeOK /\ \A d \in Devices : GptInv(d)
<1>1. Init => Inv
  <2>1. Init => \A d \in Devices : GptInv(d)
    BY DEF Init, GptInv, Entries, Done, Devices
  <2> QED
    BY <2>1, InitTyped
<1>2. Inv /\ [Next]_vars => Inv'
  <2>1. TypeOK /\ [Next]_vars => TypeOK'
    BY TypeStep
  <2> QED
    BY <2>1, GptStep
<1>3. Inv => GptListed
  BY DEF GptListed, GptInv, Entries, Complete
<1> QED
  BY <1>1, <1>2, <1>3, PTL DEF Spec

-----------------------------------------------------------------------------
(* MBR and EBRs *)

\* The second loop will find no extended partition from entry m on.
Plain(entries, m) == \A n \in m..4 : entries[n].id # "Extended"

Primary(d) == PrimaryLines(disk[d].table[0])

\* Where the walk stands on an ordinary disk d that it works on.  As long as
\* it has not left the MBR the primary partitions are listed; the first link
\* it takes lands, if anywhere, on a bare sector, and what is then in the
\* buffer leads nowhere.
Scanning(d) ==
    \/ /\ buffer = disk[d].table[0] /\ listed[d] = Primary(d)
       /\ \A n \in 1..4 : n < i => buffer[n].id # "Extended"
    \/ listed[d] = Walked(disk[d]) /\ Plain(buffer, i)

AtFirst(d) ==
    /\ buffer = disk[d].table[0] /\ listed[d] = Primary(d)
    /\ buffer[i].id = "Extended" /\ ebr = buffer[i].start /\ logical = 5

Behind(d) ==
    /\ listed[d] = Walked(disk[d]) /\ Plain(buffer, i + 1)
    /\ \/ ebr = 0
       \/ Landing(disk[d], pos, ebr) \notin DOMAIN disk[d].table
       \/ Bare(disk[d].table[Landing(disk[d], pos, ebr)])

Walking(d) == AtFirst(d) \/ Behind(d)

MbrInv(d) ==
    IsMbr(disk[d]) /\ Ordinary(disk[d]) =>
        /\ listed[d] \in {<<>>, Primary(d), Walked(disk[d])}
        /\ (dev < d \/ (dev = d /\ pc \in {"open", "mbr"})) => listed[d] = <<>>
        /\ (dev < d \/ (dev = d /\ pc = "open")) => d \notin described
        /\ Done(d) /\ d \in described => listed[d] = Walked(disk[d])
        /\ dev = d => pc # "gpt" /\ (pc = "mbr" => i = 1)
        /\ (dev = d /\ pc = "scan") => Scanning(d)
        /\ (dev = d /\ pc = "chain") => Walking(d)

LEMMA SlotFacts ==
    ASSUME NEW d \in Disks, Ordinary(d), NEW n \in 1..4, d.table[0][n].id = "Extended"
    PROVE  /\ ExtendedSlots(d) # {}
           /\ ExtendedStart(d) = d.table[0][n].start
           /\ \A m \in 1..4 : d.table[0][m].id = "Extended" => m = n
           /\ ExtendedStart(d) \in 1..d.size-1
           /\ ExtendedStart(d) \in DOMAIN d.table =>
                /\ \A m \in n+1..4 : d.table[ExtendedStart(d)][m].id # "Extended"
                /\ DeadEnd(d, ExtendedStart(d), n)
<1>1. n \in ExtendedSlots(d)
  BY DEF ExtendedSlots
<1>2. \A m \in ExtendedSlots(d) : m = n
  BY <1>1 DEF Ordinary
<1>3. \A m \in 1..4 : d.table[0][m].id = "Extended" => m \in ExtendedSlots(d)
  BY DEF ExtendedSlots
<1>4. ExtendedStart(d) \in Sectors /\ ExtendedStart(d) = d.table[0][n].start
  BY <1>1, <1>2, ExtendedFacts DEF Ordinary
<1>5. /\ d.table[0][n].start \in 1..d.size-1
      /\ d.table[0][n].start \in DOMAIN d.table =>
           /\ \A m \in n+1..4 : d.table[d.table[0][n].start][m].id # "Extended"
           /\ DeadEnd(d, d.table[0][n].start, n)
  BY <1>1 DEF Ordinary
<1> QED
  BY <1>1, <1>2, <1>3, <1>4, <1>5

\* Nothing is behind the primary partitions if there is no extended one.
LEMMA NoneExtended ==
    ASSUME NEW d \in Disks, Ordinary(d), \A n \in 1..4 : d.table[0][n].id # "Extended"
    PROVE  Walked(d) = PrimaryLines(d.table[0])
<1>1. ExtendedSlots(d) = {}
  BY DEF ExtendedSlots
<1>2. PrimaryLines(d.table[0]) \in Seq(Line)
  BY DiskFacts, PrimaryType DEF Ordinary
<1> QED
  BY <1>1, <1>2 DEF Walked, FirstLogical

\* Nor if its first sector cannot be read.
LEMMA NoneReadable ==
    ASSUME NEW d \in Disks, Ordinary(d), ExtendedStart(d) \notin DOMAIN d.table
    PROVE  Walked(d) = PrimaryLines(d.table[0])
<1>1. PrimaryLines(d.table[0]) \in Seq(Line)
  BY DiskFacts, PrimaryType DEF Ordinary
<1> QED
  BY <1>1 DEF Walked, FirstLogical

\* The seek to the extended partition of an ordinary disk succeeds.
LEMMA FirstLands ==
    ASSUME NEW d \in Devices, dev = d, TypeOK, Ordinary(disk[d]), AtFirst(d), i \in 1..4
    PROVE  /\ Lands = ExtendedStart(disk[d]) /\ ebr = ExtendedStart(disk[d]) /\ ebr # 0
           /\ Landing(disk[d], pos, ebr) = Lands
<1>1. disk[d] \in Disks
  BY DEF TypeOK
<1>2. disk[d].table[0][i].id = "Extended" /\ ebr = disk[d].table[0][i].start
  BY DEF AtFirst
<1>3. ebr = ExtendedStart(disk[d]) /\ ebr \in 1..disk[d].size-1
  BY <1>1, <1>2, SlotFacts
<1>4. disk[d].size \in Nat
  BY <1>1, DiskFacts
<1> QED
  BY <1>3, <1>4 DEF Lands, Landing

LEMMA LeaveStep ==
    ASSUME TypeOK, NEW d \in Devices, dev = d, pc = "chain", MbrInv(d), LeaveChain,
           IsMbr(disk[d]), Ordinary(disk[d])
    PROVE  Scanning(d)' /\ listed[d] = Walked(disk[d])
<1>0. /\ disk[d] \in Disks /\ i \in 1..4 /\ ebr \in Sectors
      /\ buffer \in [1..4 -> Entry] /\ Walking(d)
  BY DEF TypeOK, MbrInv, Sectors
<1>1. /\ i' = i + 1 /\ buffer' = buffer /\ disk' = disk /\ listed' = listed
      /\ ebr = 0 \/ Lands \notin DOMAIN disk[d].table
  BY DEF LeaveChain, Readable, table
<1>2. CASE Behind(d)
  <2>1. listed'[d] = Walked(disk'[d]) /\ Plain(buffer', i')
    BY <1>1, <1>2 DEF Behind
  <2> QED
    BY <1>1, <1>2, <2>1 DEF Scanning, Behind
<1>3. CASE AtFirst(d)
  <2>1. Lands = ExtendedStart(disk[d]) /\ ebr # 0
    BY <1>0, <1>3, FirstLands
  <2>2. \A m \in 1..4 : buffer[m].id = "Extended" => m = i
    BY <1>0, <1>3, SlotFacts DEF AtFirst
  <2>3. listed[d] = Walked(disk[d])
    BY <1>0, <1>1, <1>3, <2>1, NoneReadable DEF AtFirst, Primary
  <2>4. Plain(buffer, i + 1)
    BY <1>0, <2>2 DEF Plain
  <2> QED
    BY <1>1, <2>3, <2>4 DEF Scanning
<1> QED
  BY <1>0, <1>2, <1>3 DEF Walking

\* The first EBR is read at its own sector; its line is the first logical one.
LEMMA ReadFirst ==
    ASSUME TypeOK, NEW d \in Devices, dev = d, ReadEbr, AtFirst(d), i \in 1..4,
           Ordinary(disk[d])
    PROVE  Behind(d)'
<1> DEFINE t == disk[d].table
           s == ExtendedStart(disk[d])
           e == t[s]
<1>0. /\ disk[d] \in Disks /\ ebr \in Sectors /\ 0 \in DOMAIN t
      /\ buffer \in [1..4 -> Entry] /\ listed \in [Devices -> Seq(Line)]
  BY DEF TypeOK, Sectors, Ordinary
<1>1. Lands = s /\ ebr = s /\ ebr # 0
  BY FirstLands
<1>2. /\ s \in DOMAIN t /\ i' = i /\ disk' = disk
      /\ buffer' = Relocated(e, s) /\ pos' = s + 1
      /\ IF buffer'[1].total # 0
         THEN Show(<<LineOf(logical, buffer'[1])>>)
         ELSE listed' = listed
      /\ ebr' = NextEbr(Relocated(e, s), i)
  BY <1>1 DEF ReadEbr, Readable, table
<1>3. /\ ExtendedSlots(disk[d]) # {}
      /\ \A m \in i+1..4 : e[m].id # "Extended"
      /\ DeadEnd(disk[d], s, i)
  BY <1>0, <1>2, SlotFacts DEF AtFirst
<1>4. e \in [1..4 -> Entry] /\ s \in Sectors
  BY <1>0, <1>1, <1>2, DiskFacts
<1>5. /\ \A n \in 2..4 : buffer'[n] = e[n]
      /\ buffer'[1] = IF e[1].total = 0 THEN e[1]
                      ELSE [e[1] EXCEPT !.start = Add(e[1].start, s)]
  <2> HIDE DEF e, s, t
  <2> QED
    BY <1>2, <1>4, RelocatedType
<1>6. Plain(buffer', i' + 1)
  <2>1. \A m \in i+1..4 : m \in 2..4
    OBVIOUS
  <2> QED
    BY <1>2, <1>3, <1>5, <2>1 DEF Plain
<1>7. \/ ebr' = 0
      \/ Landing(disk'[d], pos', ebr') \notin DOMAIN disk'[d].table
      \/ Bare(disk'[d].table[Landing(disk'[d], pos', ebr')])
  BY <1>2, <1>3 DEF DeadEnd
<1>8. listed'[d] = Walked(disk[d])
  <2>1. Primary(d) \in Seq(Line) /\ listed[d] = Primary(d)
    BY <1>0, DiskFacts, PrimaryType DEF AtFirst, Primary
  <2>2. CASE e[1].total = 0
    <3>1. listed'[d] = Primary(d)
      BY <1>2, <1>5, <2>1, <2>2
    <3>2. FirstLogical(disk[d]) = <<>>
      BY <1>2, <1>3, <2>2 DEF FirstLogical
    <3> QED
      BY <2>1, <3>1, <3>2 DEF Walked, Primary
  <2>3. CASE e[1].total # 0
    <3> DEFINE x == [num |-> 5, start |-> Add(s, e[1].start), total |-> e[1].total]
    <3>1. e[1] \in Entry
      BY <1>4
    <3>2. Add(e[1].start, s) = Add(s, e[1].start)
      <4>1. e[1].start \in Int /\ s \in Int
        BY <1>4, <3>1, EntryFacts DEF Sectors
      <4>2. e[1].start + s = s + e[1].start
        BY <4>1
      <4> QED
        BY <4>2 DEF Add
    <3>3. buffer'[1].total = e[1].total /\ buffer'[1].start = Add(s, e[1].start)
      BY <1>5, <2>3, <3>1, <3>2 DEF Entry
    <3>4. LineOf(5, buffer'[1]) = x
      BY <3>3 DEF LineOf
    <3>5. listed' = [listed EXCEPT ![dev] = @ \o <<x>>]
      BY <1>2, <2>3, <3>3, <3>4 DEF Show, AtFirst
    <3>6. listed'[d] = Primary(d) \o <<x>>
      BY <1>0, <2>1, <3>5
    <3>7. FirstLogical(disk[d]) = <<x>>
      BY <1>2, <1>3, <2>3 DEF FirstLogical
    <3> QED
      BY <3>6, <3>7 DEF Walked, Primary
  <2> QED
    BY <2>2, <2>3
<1> QED
  BY <1>2, <1>6, <1>7, <1>8 DEF Behind

\* A bare sector read behind it adds no line and ends the walk.
LEMMA ReadBare ==
    ASSUME TypeOK, NEW d \in Devices, dev = d, ReadEbr, Behind(d), i \in 1..4
    PROVE  Behind(d)'
<1> DEFINE b == disk[d].table[Lands]
<1>1. /\ Bare(b) /\ i' = i /\ disk' = disk
      /\ buffer' = Relocated(b, ebr) /\ ebr' = NextEbr(Relocated(b, ebr), i)
      /\ buffer'[1].total = 0 => listed' = listed
  BY DEF ReadEbr, Readable, table, Behind, Lands
<1>2. Relocated(b, ebr) = b /\ NextEbr(b, i) = 0
  BY <1>1 DEF Bare, Relocated, NextEbr
<1>3. buffer' = b /\ ebr' = 0 /\ listed' = listed
  BY <1>1, <1>2 DEF Bare
<1>4. Plain(buffer', i' + 1)
  BY <1>1, <1>3 DEF Plain, Bare
<1> QED
  BY <1>1, <1>3, <1>4 DEF Behind

LEMMA ReadStep ==
    ASSUME TypeOK, NEW d \in Devices, dev = d, pc = "chain", MbrInv(d), ReadEbr,
           IsMbr(disk[d]), Ordinary(disk[d])
    PROVE  Behind(d)'
<1>1. i \in 1..4 /\ Walking(d)
  BY DEF TypeOK, MbrInv
<1> QED
  BY <1>1, ReadFirst, ReadBare DEF Walking

\* Nothing that the invariant says of a disk the walk does not work on, or of
\* one that is not an ordinary MBR disk, is touched by the other steps.
LEMMA MbrElsewhere ==
    ASSUME TypeOK, NEW d \in Devices, MbrInv(d), [Next]_vars, dev # d
    PROVE  MbrInv(d)'
<1>0. dev \in Nat /\ d \in Nat /\ listed \in [Devices -> Seq(Line)]
  BY DeviceAssumption DEF TypeOK, Devices
<1>1. disk' = disk /\ listed'[d] = listed[d] /\ (d \in described' <=> d \in described)
  <2>1. CASE ListPrimaries
    BY <1>0, <2>1 DEF ListPrimaries, Show
  <2>2. CASE ReadEbr
    BY <1>0, <2>2 DEF ReadEbr, Show
  <2>3. CASE GptEntry
    BY <1>0, <2>3 DEF GptEntry, Show
  <2> QED
    BY <2>1, <2>2, <2>3 DEF Next, Mbr, Gpt, OpenFails, Detect, Close, ScanEntry,
       ScanEnds, LeaveChain, GptEnds, vars
<1>2. (dev' = dev /\ dev # d) \/ (pc' = "open" /\ dev' = dev + 1)
  BY DEF Next, Mbr, Gpt, OpenFails, Detect, Close, ListPrimaries, ScanEntry, ScanEnds,
     LeaveChain, ReadEbr, GptEntry, GptEnds, vars
<1> QED
  BY <1>0, <1>1, <1>2 DEF MbrInv, Primary, Done

LEMMA MbrStep ==
    ASSUME TypeOK, TypeOK', NEW d \in Devices, MbrInv(d), [Next]_vars
    PROVE  MbrInv(d)'
<1> SUFFICES ASSUME dev = d, IsMbr(disk[d]), Ordinary(disk[d])
             PROVE  MbrInv(d)'
  <2>1. disk' = disk
    BY DEF Next, Mbr, Gpt, OpenFails, Detect, Close, ListPrimaries, ScanEntry, ScanEnds,
       LeaveChain, ReadEbr, GptEntry, GptEnds, vars
  <2>2. CASE ~(IsMbr(disk[d]) /\ Ordinary(disk[d]))
    BY <2>1, <2>2 DEF MbrInv
  <2> QED
    BY <2>2, MbrElsewhere
<1>a. d \in Nat
  BY DeviceAssumption DEF Devices
<1>b. /\ disk[d] \in Disks
      /\ i \in Nat \ {0} /\ buffer \in [1..4 -> Entry] /\ listed \in [Devices -> Seq(Line)]
      /\ 0 \in DOMAIN disk[d].table
  BY DEF TypeOK, Ordinary
<1>0. /\ disk[d] \in Disks /\ d \in Nat /\ d + 1 \in Nat
      /\ ~(d < d) /\ ~(d + 1 < d) /\ d + 1 # d /\ d < d + 1
      /\ i \in Nat \ {0} /\ buffer \in [1..4 -> Entry] /\ listed \in [Devices -> Seq(Line)]
      /\ 0 \in DOMAIN disk[d].table
  BY <1>a, <1>b
<1>i. /\ listed[d] \in {<<>>, Primary(d), Walked(disk[d])}
      /\ pc \in {"open", "mbr"} => listed[d] = <<>>
      /\ pc = "open" => d \notin described
      /\ pc = "close" /\ d \in described => listed[d] = Walked(disk[d])
      /\ pc # "gpt" /\ (pc = "mbr" => i = 1)
      /\ pc = "scan" => Scanning(d)
      /\ pc = "chain" => Walking(d)
  BY DEF MbrInv, Done
<1>1. CASE OpenFails
  <2>1. pc = "open" /\ pc' = "close" /\ dev' = dev /\ disk' = disk /\ listed' = listed
        /\ described' = described
    BY <1>1 DEF OpenFails
  <2> QED
    BY <1>0, <1>i, <2>1 DEF MbrInv, Done, Primary
<1>2. CASE Detect
  <2>1. /\ pc = "open" /\ pc' = "mbr" /\ dev' = dev /\ disk' = disk
        /\ listed' = listed /\ i' = 1
    BY <1>2 DEF Detect, TableType, IsMbr, Readable, table
  <2> QED
    BY <1>0, <1>i, <2>1 DEF MbrInv, Done, Primary
<1>3. CASE Close
  <2>1. pc = "close" /\ pc' = "open" /\ dev' = d + 1 /\ disk' = disk /\ listed' = listed
        /\ described' = described
    BY <1>3 DEF Close
  <2> QED
    BY <1>0, <1>i, <2>1 DEF MbrInv, Done, Primary
<1>4. CASE ListPrimaries
  <2>1. /\ pc = "mbr" /\ pc' = "scan" /\ dev' = dev /\ disk' = disk /\ i' = i
        /\ buffer' = disk[d].table[0]
        /\ listed' = [listed EXCEPT ![dev] = @ \o Primary(d)]
    BY <1>4 DEF ListPrimaries, Show, Primary, table
  <2>2. Primary(d) \in Seq(Line) /\ listed[d] = <<>>
    BY <1>0, <1>i, <2>1, DiskFacts, PrimaryType DEF Primary
  <2>3. listed'[d] = Primary(d) /\ Primary(d)' = Primary(d)
    BY <1>0, <2>1, <2>2 DEF Primary
  <2>4. Scanning(d)'
    BY <1>i, <2>1, <2>3 DEF Scanning
  <2> QED
    BY <1>0, <2>1, <2>3, <2>4 DEF MbrInv, Done
<1>5. CASE ScanEntry
  <2>1. pc = "scan" /\ i \in 1..4 /\ dev' = dev /\ disk' = disk /\ listed' = listed
        /\ buffer' = buffer
    BY <1>0, <1>5 DEF ScanEntry
  <2>2. CASE buffer[i].id = "Extended"
    <3>1. pc' = "chain" /\ i' = i /\ ebr' = buffer[i].start /\ logical' = 5
      BY <1>5, <2>2 DEF ScanEntry
    <3>2. ~Plain(buffer, i)
      BY <2>1, <2>2 DEF Plain
    <3>3. AtFirst(d)'
      BY <1>i, <2>1, <2>2, <3>1, <3>2 DEF AtFirst, Scanning, Primary
    <3> QED
      BY <1>0, <1>i, <2>1, <3>1, <3>3 DEF MbrInv, Walking, Primary, Done
  <2>3. CASE buffer[i].id # "Extended"
    <3>1. pc' = "scan" /\ i' = i + 1
      BY <1>5, <2>1, <2>3 DEF ScanEntry
    <3>2. Scanning(d)'
      <4>1. CASE listed[d] = Walked(disk[d]) /\ Plain(buffer, i)
        <5>1. Plain(buffer, i + 1)
          BY <2>1, <4>1 DEF Plain
        <5> QED
          BY <2>1, <3>1, <4>1, <5>1 DEF Scanning
      <4>2. CASE /\ buffer = disk[d].table[0] /\ listed[d] = Primary(d)
                 /\ \A n \in 1..4 : n < i => buffer[n].id # "Extended"
        <5>1. \A n \in 1..4 : n < i + 1 => buffer[n].id # "Extended"
          BY <2>1, <2>3, <4>2
        <5> QED
          BY <2>1, <3>1, <4>2, <5>1 DEF Scanning, Primary
      <4> QED
        BY <1>i, <2>1, <4>1, <4>2 DEF Scanning
    <3> QED
      BY <1>0, <1>i, <2>1, <3>1, <3>2 DEF MbrInv, Primary, Done
  <2> QED
    BY <2>2, <2>3
<1>6. CASE ScanEnds
  <2>1. pc = "scan" /\ pc' = "close" /\ i > 4 /\ dev' = dev /\ disk' = disk /\ listed' = listed
    BY <1>6 DEF ScanEnds
  <2>2. listed[d] = Walked(disk[d])
    <3>1. CASE /\ buffer = disk[d].table[0] /\ listed[d] = Primary(d)
               /\ \A n \in 1..4 : n < i => buffer[n].id # "Extended"
      <4>1. \A n \in 1..4 : disk[d].table[0][n].id # "Extended"
        BY <1>0, <2>1, <3>1
      <4> QED
        BY <1>0, <3>1, <4>1, NoneExtended DEF Primary
    <3> QED
      BY <1>i, <2>1, <3>1 DEF Scanning
  <2> QED
    BY <1>0, <2>1, <2>2 DEF MbrInv, Done
<1>7. CASE LeaveChain
  <2>1. pc = "chain" /\ pc' = "scan" /\ dev' = dev /\ disk' = disk /\ listed' = listed
    BY <1>7 DEF LeaveChain
  <2>2. Scanning(d)'
    BY <1>7, <2>1, LeaveStep
  <2> QED
    BY <1>0, <1>i, <2>1, <2>2 DEF MbrInv, Primary, Done
<1>8. CASE ReadEbr
  <2>1. pc = "chain" /\ pc' = "chain" /\ dev' = dev /\ disk' = disk
    BY <1>8 DEF ReadEbr
  <2>2. Behind(d)'
    BY <1>8, <2>1, ReadStep
  <2>3. listed'[d] = Walked(disk'[d])
    BY <2>2 DEF Behind
  <2> QED
    BY <1>0, <2>1, <2>2, <2>3 DEF MbrInv, Walking, Done
<1>9. CASE GptEntry \/ GptEnds
  BY <1>i, <1>9 DEF GptEntry, GptEnds
<1>10. CASE UNCHANGED vars
  BY <1>10 DEF vars, MbrInv, Primary, Scanning, Walking, AtFirst, Behind, Done
<1> QED
  BY <1>1, <1>2, <1>3, <1>4, <1>5, <1>6, <1>7, <1>8, <1>9, <1>10 DEF Next, Mbr, Gpt

LEMMA MbrAlways == Spec => [](TypeOK /\ \A d \in Devices : MbrInv(d))
<1> DEFINE Inv == TypeOK /\ \A d \in Devices : MbrInv(d)
<1>1. Init => Inv
  <2>1. Init => \A d \in Devices : MbrInv(d)
    BY DeviceAssumption DEF Init, MbrInv, Devices, Done
  <2> QED
    BY <2>1, InitTyped
<1>2. Inv /\ [Next]_vars => Inv'
  <2>1. TypeOK /\ [Next]_vars => TypeOK'
    BY TypeStep
  <2> QED
    BY <2>1, MbrStep
<1> QED
  BY <1>1, <1>2, PTL DEF Spec

\* What is printed of an ordinary MBR disk is at any time the beginning of
\* the true list of its partitions, with the true numbers and sectors, whatever
\* EBRs are behind the first, of which it reads no more than a bare sector.
THEOREM OnlyPartitions == Spec => []NothingInvented
<1>1. TypeOK /\ (\A d \in Devices : MbrInv(d)) => NothingInvented
  <2> SUFFICES ASSUME TypeOK, NEW d \in Devices, MbrInv(d), IsMbr(disk[d]), Ordinary(disk[d])
               PROVE  IsPrefix(listed[d], AllLines(disk[d]))
    BY DEF NothingInvented
  <2>1. disk[d] \in Disks
    BY DEF TypeOK
  <2> QED
    BY <2>1, WalkedFacts DEF MbrInv, Primary
<1> QED
  BY <1>1, MbrAlways, PTL

\* An ordinary disk with one logical partition is listed completely once its
\* device is done with, whatever slot of the MBR leads to it.
THEOREM LoneLogicalFound == Spec => []LoneLogicalListed
<1>1. TypeOK /\ (\A d \in Devices : MbrInv(d)) => LoneLogicalListed
  <2> SUFFICES ASSUME TypeOK, NEW d \in Devices, MbrInv(d), IsMbr(disk[d]), Ordinary(disk[d]),
                      LoneEbr(disk[d]), Done(d), d \in described
               PROVE  listed[d] = AllLines(disk[d])
    BY DEF LoneLogicalListed
  <2>1. disk[d] \in Disks
    BY DEF TypeOK
  <2>2. listed[d] = Walked(disk[d])
    BY DEF MbrInv
  <2> QED
    BY <2>1, <2>2, WalkedFacts
<1> QED
  BY <1>1, MbrAlways, PTL
=============================================================================
