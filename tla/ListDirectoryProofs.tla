------------------------- MODULE ListDirectoryProofs -------------------------
(***************************************************************************)
(* ListDirectory for any directories, options and paths, with any number   *)
(* of entries, changes behind its back and failing calls: what is on the   *)
(* heap, what is freed, and what is printed.                               *)
(***************************************************************************)
EXTENDS ListDirectory, SequenceTheorems, FiniteSetTheorems, WellFoundedInduction, TLAPS

Reading == {"read", "lstat", "link"}

NamesOf(fs) == {f.name : f \in Range(fs)}

\* Nothing was freed that was not in use, and what the program still has is.
HeapInv ==
    /\ wild = {}
    /\ pc \in Listing => BlocksOf(files) \cup {Array} \subseteq live
    /\ pc \in {"lstat", "link"} => NameBlock(entry) \in live
    /\ pc = "link" => stat[entry].link

\* An entry is read once: what has been read or may still be is there or has
\* been changed, and nothing is changed twice.
ReadInv ==
    pc \in Reading =>
        /\ NamesOf(files) \cup dir \subseteq present[Path] \cup changed
        /\ NamesOf(files) \cap dir = {}
        /\ pc \in {"lstat", "link"} =>
             entry \in (present[Path] \cup changed) \ (NamesOf(files) \cup dir)

\* There is room in the array for the entry that is being read.
RoomInv ==
    /\ capacity \in Nat
    /\ pc \in Reading \cup {"itself"} => capacity >= 1
    /\ pc \in {"lstat", "link"} => Len(files) < capacity

\* What may be left over: the arrays of earlier paths, and the tokens.
Leftover == {<<"files", n>> : n \in 2..arg} \cup Tokens(MaxTokens)

InUse == Leftover \cup {Array} \cup BlocksOf(files) \cup
         (IF pc \in {"lstat", "link"} THEN {NameBlock(entry)} ELSE {})

LeakInv ==
    /\ "d" \in flags => arg = 1 /\ pc # "next"
    /\ "d" \notin flags =>
         /\ pc # "itself"
         /\ pc \in {"open", "failed", "next"} => live \subseteq Leftover
         /\ pc \in Listing => live \subseteq InUse

ListInv == TypeOK /\ HeapInv /\ ReadInv /\ RoomInv /\ LeakInv

-----------------------------------------------------------------------------
(* Lemmas about what an array of entries keeps on the heap *)

LEMMA RangeAppend ==
    ASSUME NEW S, NEW s \in Seq(S), NEW x \in S
    PROVE  /\ Append(s, x) \in Seq(S) /\ Len(Append(s, x)) = Len(s) + 1 /\ Len(s) \in Nat
           /\ Range(Append(s, x)) = Range(s) \cup {x}
<1>1. /\ Append(s, x) \in Seq(S) /\ Len(Append(s, x)) = Len(s) + 1 /\ Len(s) \in Nat
      /\ \A i \in 1..Len(s) : Append(s, x)[i] = s[i]
      /\ Append(s, x)[Len(s) + 1] = x
      /\ DOMAIN s = 1..Len(s) /\ DOMAIN Append(s, x) = 1..(Len(s) + 1)
  BY AppendProperties, LenProperties
<1> QED
  BY <1>1 DEF Range

LEMMA BlockFacts ==
    /\ \A m, n : NameBlock(m) = NameBlock(n) => m = n
    /\ \A m, n : NameBlock(m) # LinkBlock(n)
    /\ \A m, k : NameBlock(m) # <<"files", k>>
BY DEF NameBlock, LinkBlock

LEMMA BlocksEmpty == BlocksOf(<<>>) = {} /\ NamesOf(<<>>) = {}
BY DEF BlocksOf, NamesOf, Range

LEMMA BlocksAppend ==
    ASSUME NEW fs \in Seq(File), NEW f \in File
    PROVE  /\ BlocksOf(Append(fs, f)) = BlocksOf(fs) \cup {NameBlock(f.name)} \cup
                                        (IF f.st.link THEN {LinkBlock(f.name)} ELSE {})
           /\ NamesOf(Append(fs, f)) = NamesOf(fs) \cup {f.name}
<1>1. Range(Append(fs, f)) = Range(fs) \cup {f}
  BY RangeAppend
<1>2. NamesOf(Append(fs, f)) = NamesOf(fs) \cup {f.name}
  BY <1>1 DEF NamesOf
<1>3. {NameBlock(g.name) : g \in Range(fs) \cup {f}}
        = {NameBlock(g.name) : g \in Range(fs)} \cup {NameBlock(f.name)}
  OBVIOUS
<1>4. {LinkBlock(g.name) : g \in {h \in Range(fs) \cup {f} : h.st.link}}
        = {LinkBlock(g.name) : g \in {h \in Range(fs) : h.st.link}} \cup
          (IF f.st.link THEN {LinkBlock(f.name)} ELSE {})
  OBVIOUS
<1> QED
  BY <1>1, <1>2, <1>3, <1>4 DEF BlocksOf

\* The name of an entry that is not in the array is not one of its blocks.
LEMMA NameApart ==
    ASSUME NEW fs, NEW n, n \notin NamesOf(fs)
    PROVE  NameBlock(n) \notin BlocksOf(fs)
BY BlockFacts DEF BlocksOf, NamesOf

\* Sorting keeps the entries.
LEMMA SortedFacts ==
    ASSUME NEW fs \in Seq(File), NEW key, NEW s \in Sorted(key, fs)
    PROVE  /\ s \in Seq(File) /\ Len(s) <= Len(fs)
           /\ BlocksOf(s) = BlocksOf(fs) /\ NamesOf(s) = NamesOf(fs)
           /\ Range(s) = Range(fs) /\ \A i, j \in 1..Len(s) : s[i] = s[j] => i = j
<1> DEFINE R == Range(fs)
           n == Cardinality(R)
<1>1. Len(fs) \in Nat /\ fs \in [1..Len(fs) -> File] /\ DOMAIN fs = 1..Len(fs)
  BY LenProperties
<1>2. fs \in Surjection(1..Len(fs), R) /\ R \subseteq File
  BY <1>1 DEF Surjection, Range
<1>3. IsFiniteSet(1..Len(fs))
  BY <1>1, FS_Interval
<1>4. IsFiniteSet(R) /\ n \in Nat /\ n <= Len(fs)
  BY <1>1, <1>2, <1>3, FS_Surjection, FS_SurjCardinalityBound, FS_CardinalityType
     DEF ExistsSurjection
<1>5. s \in SetToSeqs(R)
  BY DEF Sorted
<1>6. /\ s \in [1..n -> R]
      /\ \A i, j \in 1..n : i # j => s[i] # s[j]
  BY <1>5 DEF SetToSeqs
<1> HIDE DEF R, n
<1>7. s \in Seq(File) /\ Len(s) = n
  BY <1>2, <1>4, <1>6
<1>8. s \in Injection(1..n, R)
  BY <1>6 DEF Injection, IsInjective
<1>9. Cardinality(1..n) = n
  BY <1>4, FS_Interval
<1>10. s \in Surjection(1..n, R)
  BY <1>4, <1>8, <1>9, FS_Injection DEF n
<1>11. Range(s) = R
  BY <1>6, <1>10 DEF Surjection, Range
<1>12. \A i, j \in 1..Len(s) : s[i] = s[j] => i = j
  BY <1>6, <1>7
<1> QED
  BY <1>4, <1>7, <1>11, <1>12 DEF BlocksOf, NamesOf, R

-----------------------------------------------------------------------------
(* The invariant *)

LEMMA ListInit == Init => ListInv
<1> SUFFICES ASSUME Init PROVE ListInv
  OBVIOUS
<1>1. /\ arg \in 1..Len(argv) /\ <<>> \in Seq(File) /\ Len(<<>>) = 0
      /\ present \in [Dirs -> SUBSET Names]
  BY ListAssumption, LenProperties, EmptySeq DEF Init
<1>2. TypeOK
  <2>1. opened \in BOOLEAN /\ (opened <=> pc \in {"read", "lstat", "link"})
    <3>1. pc = "parse" /\ opened = FALSE
      BY DEF Init
    <3> QED
      BY <3>1
  <2>2. stat \in Stats /\ flags \in Flags /\ argv \in CommandLines /\ entry \in Names
    BY DEF Init
  <2>3. changed \subseteq Names /\ refused \subseteq Names /\ dir \subseteq Names /\ pc = "parse"
    BY DEF Init
  <2>4. files = <<>> /\ capacity = 0
    BY DEF Init
  <2> QED
    BY <1>1, <2>1, <2>2, <2>3, <2>4 DEF TypeOK
<1>3. HeapInv /\ ReadInv /\ RoomInv /\ LeakInv
  BY DEF Init, HeapInv, ReadInv, RoomInv, LeakInv, Listing, Reading
<1> QED
  BY <1>2, <1>3 DEF ListInv

\* What the types say of the path that is listed.
LEMMA PathFacts ==
    ASSUME TypeOK
    PROVE  /\ Path \in Dirs /\ present[Path] \subseteq Names
           /\ \A n \in Named : stat[n] \in Stat
           /\ arg \in Nat /\ arg >= 1
<1>1. argv \in Seq(Dirs) /\ arg \in 1..Len(argv) /\ Len(argv) \in Nat
  BY ListAssumption, LenProperties DEF TypeOK
<1>2. Path \in Dirs
  BY <1>1 DEF Path
<1>3. stat \in [Named -> Stat]
  BY ListAssumption DEF TypeOK
<1> QED
  BY <1>1, <1>2, <1>3 DEF TypeOK

\* Entries come and go while the directory is read.
LEMMA InvOthers ==
    ASSUME ListInv, Others
    PROVE  ListInv'
<1> USE PathFacts DEF ListInv
<1>1. /\ pc \in {"read", "lstat", "link"} /\ opened
      /\ UNCHANGED <<stat, refused, flags, argv, arg, pc, opened, files, capacity, entry,
                     memory, out>>
  BY DEF Others, Unlink, Create, TypeOK
<1>2. PICK n \in Names \ changed :
         /\ changed' = changed \cup {n}
         /\ \/ present' = [present EXCEPT ![Path] = @ \ {n}] /\ UNCHANGED dir
            \/ /\ n \notin present[Path]
               /\ present' = [present EXCEPT ![Path] = @ \cup {n}]
               /\ dir' \in {dir, dir \cup {n}}
  BY <1>1 DEF Others, Unlink, Create
<1>3. /\ present' \in [Dirs -> SUBSET Names] /\ changed' \subseteq Names
      /\ dir' \subseteq Names
      /\ present[Path] \subseteq present'[Path] \cup {n}
  BY <1>2 DEF TypeOK
<1>4. TypeOK'
  BY <1>1, <1>3 DEF TypeOK
<1>5. HeapInv' /\ RoomInv' /\ LeakInv'
  BY <1>1 DEF HeapInv, RoomInv, LeakInv, InUse, Leftover, Array, memory
<1>6. ReadInv'
  <2>1. /\ NamesOf(files) \cup dir \subseteq present[Path] \cup changed
        /\ NamesOf(files) \cap dir = {}
        /\ pc \in {"lstat", "link"} =>
             entry \in (present[Path] \cup changed) \ (NamesOf(files) \cup dir)
    BY <1>1 DEF ReadInv, Reading
  <2>2. /\ present[Path] \cup changed \subseteq present'[Path] \cup changed'
        /\ n \in changed'
    BY <1>2, <1>3
  <2>3. dir' = dir \/ (dir' = dir \cup {n} /\ n \notin present[Path] \cup changed)
    BY <1>2
  <2>4. /\ NamesOf(files) \cup dir' \subseteq present'[Path] \cup changed'
        /\ NamesOf(files) \cap dir' = {}
        /\ pc \in {"lstat", "link"} =>
             entry \in (present'[Path] \cup changed') \ (NamesOf(files) \cup dir')
    BY <2>1, <2>2, <2>3
  <2>5. Path' = Path
    BY <1>1 DEF Path
  <2> QED
    BY <1>1, <2>4, <2>5 DEF ReadInv
<1> QED
  BY <1>4, <1>5, <1>6

LEMMA InvParse ==
    ASSUME ListInv, Parse
    PROVE  ListInv'
<1> USE DEF ListInv
<1>1. CASE ParseInput
  <2>1. /\ pc = "parse" /\ pc' = "open"
        /\ UNCHANGED <<env, flags, argv, arg, dir, opened, files, capacity, entry, wild, out>>
    BY <1>1 DEF ParseInput
  <2>2. live' \subseteq Tokens(MaxTokens)
    BY <1>1, ListAssumption DEF ParseInput, Tokens
  <2>3. TypeOK'
    BY <2>1 DEF TypeOK, Listing, env
  <2>4. HeapInv' /\ ReadInv' /\ RoomInv'
    BY <2>1 DEF HeapInv, ReadInv, RoomInv, Listing, Reading, env
  <2>5. LeakInv'
    BY <2>1, <2>2 DEF LeakInv, Leftover, Listing
  <2> QED
    BY <2>3, <2>4, <2>5
<1>2. CASE ParseFails
  <2>1. /\ pc = "parse" /\ pc' = "exit"
        /\ UNCHANGED <<env, flags, argv, arg, dir, opened, files, capacity, entry, memory, out>>
    BY <1>2 DEF ParseFails
  <2>2. TypeOK'
    BY <2>1 DEF TypeOK, Listing, env
  <2>3. HeapInv' /\ ReadInv' /\ RoomInv' /\ LeakInv'
    BY <2>1 DEF HeapInv, ReadInv, RoomInv, LeakInv, Listing, Reading, env, memory
  <2> QED
    BY <2>2, <2>3
<1> QED
  BY <1>1, <1>2 DEF Parse

LEMMA InvOpen ==
    ASSUME ListInv, OpenFails \/ OpenDir
    PROVE  ListInv'
<1> USE DEF ListInv
<1>1. CASE OpenFails
  <2>1. /\ pc = "open" /\ pc' = "failed"
        /\ UNCHANGED <<env, flags, argv, arg, dir, opened, files, capacity, entry, memory, out>>
    BY <1>1 DEF OpenFails
  <2>2. TypeOK'
    BY <2>1 DEF TypeOK, Listing, env
  <2>3. HeapInv' /\ ReadInv' /\ RoomInv' /\ LeakInv'
    BY <2>1 DEF HeapInv, ReadInv, RoomInv, LeakInv, Leftover, Listing, Reading, env, memory
  <2> QED
    BY <2>2, <2>3
<1>2. CASE OpenDir
  <2>1. /\ pc = "open" /\ pc' = "read" /\ files' = <<>> /\ opened' = TRUE
        /\ changed' = {} /\ refused' = {} /\ dir' = present[Path] /\ capacity' = Initial
        /\ live' = live \cup {Array} /\ wild' = wild
        /\ UNCHANGED <<stat, present, flags, argv, arg, entry, out>>
    BY <1>2 DEF OpenDir, Allocate
  <2>2. Initial \in Nat /\ Initial >= 1
    BY ListAssumption
  <2>3. <<>> \in Seq(File) /\ Len(<<>>) = 0
    BY EmptySeq
  <2>4. TypeOK'
    <3>1. opened' \in BOOLEAN /\ (opened' <=> pc' \in {"read", "lstat", "link"})
      BY <2>1
    <3>2. dir' \subseteq Names /\ changed' \subseteq Names /\ refused' \subseteq Names
      BY <2>1, PathFacts
    <3>3. files' \in Seq(File) /\ Len(files') <= capacity'
      BY <2>1, <2>2, <2>3
    <3>4. pc' \in Listing
      BY <2>1 DEF Listing
    <3> QED
      BY <2>1, <3>1, <3>2, <3>3, <3>4 DEF TypeOK
  <2>5. HeapInv'
    BY <2>1, BlocksEmpty DEF HeapInv, Array
  <2>6. ReadInv'
    BY <2>1, BlocksEmpty DEF ReadInv, Path
  <2>7. RoomInv'
    BY <2>1, <2>2 DEF RoomInv
  <2>8. LeakInv'
    BY <2>1 DEF LeakInv, InUse, Leftover, Array, Listing
  <2> QED
    BY <2>4, <2>5, <2>6, <2>7, <2>8
<1> QED
  BY <1>1, <1>2

-----------------------------------------------------------------------------
(* The loop over the entries *)

LEMMA InvRead ==
    ASSUME ListInv, SkipHidden \/ ReadEntry
    PROVE  ListInv'
<1> USE DEF ListInv
<1>1. CASE SkipHidden
  <2>1. /\ pc = "read" /\ dir' \subseteq dir
        /\ UNCHANGED <<env, flags, argv, arg, pc, opened, files, capacity, entry, memory, out>>
    BY <1>1 DEF SkipHidden
  <2>2. TypeOK'
    BY <2>1 DEF TypeOK, env
  <2>3. HeapInv' /\ RoomInv' /\ LeakInv'
    BY <2>1 DEF HeapInv, RoomInv, LeakInv, InUse, Leftover, Array, memory
  <2>4. ReadInv'
    BY <2>1 DEF ReadInv, Reading, Path, env
  <2> QED
    BY <2>2, <2>3, <2>4
<1>2. CASE ReadEntry
  <2>1. PICK n \in dir : /\ entry' = n
                         /\ dir' = dir \ {n}
                         /\ Allocate(NameBlock(n))
    BY <1>2 DEF ReadEntry
  <2>2. /\ pc = "read" /\ pc' = "lstat"
        /\ capacity' = IF Len(files) >= capacity THEN 2 * capacity ELSE capacity
        /\ UNCHANGED <<env, flags, argv, arg, opened, files, out>>
    BY <1>2 DEF ReadEntry
  <2>3. files \in Seq(File) /\ Len(files) \in Nat /\ Len(files) <= capacity
        /\ capacity \in Nat /\ capacity >= 1
    BY <2>2, LenProperties DEF TypeOK, RoomInv, Reading
  <2>4. capacity' \in Nat /\ capacity' >= 1 /\ Len(files) < capacity'
    BY <2>2, <2>3
  <2>5. TypeOK'
    <3>1. n \in Names /\ dir' \subseteq Names
      BY <2>1 DEF TypeOK
    <3>2. Len(files') <= capacity'
      BY <2>2, <2>3, <2>4
    <3> QED
      BY <2>1, <2>2, <3>1, <3>2 DEF TypeOK, env, Listing
  <2>6. HeapInv'
    BY <2>1, <2>2 DEF HeapInv, Allocate, Array, Listing
  <2>7. RoomInv'
    BY <2>2, <2>4 DEF RoomInv
  <2>8. ReadInv'
    BY <2>1, <2>2 DEF ReadInv, Reading, Path, env
  <2>9. LeakInv'
    <3>1. CASE "d" \in flags
      BY <2>2, <3>1 DEF LeakInv
    <3>2. CASE "d" \notin flags
      <4>1. live \subseteq Leftover \cup {Array} \cup BlocksOf(files)
        BY <2>2, <3>2 DEF LeakInv, InUse, Listing
      <4>2. live' = live \cup {NameBlock(entry')}
        BY <2>1 DEF Allocate
      <4>3. live' \subseteq InUse'
        BY <2>2, <4>1, <4>2 DEF InUse, Leftover, Array
      <4> QED
        BY <2>2, <3>2, <4>3 DEF LeakInv
    <3> QED
      BY <3>1, <3>2
  <2> QED
    BY <2>5, <2>6, <2>7, <2>8, <2>9
<1> QED
  BY <1>1, <1>2

\* lstat failed: the slot is not counted, and only the name is freed.
LEMMA InvRefused ==
    ASSUME ListInv, pc = "lstat", Release({NameBlock(entry)}), pc' = "read",
           refused' = refused \cup {entry},
           UNCHANGED <<stat, present, changed, flags, argv, arg, dir, opened, files,
                       capacity, entry, out>>
    PROVE  ListInv'
<1> USE DEF ListInv
<1>1. NameBlock(entry) \in live /\ wild = {}
  BY DEF HeapInv
<1>2. live' = live \ {NameBlock(entry)} /\ wild' = {}
  BY <1>1 DEF Release
<1>3. NameBlock(entry) \notin BlocksOf(files) \cup {Array}
  BY NameApart, BlockFacts DEF ReadInv, Reading, Array
<1>4. TypeOK'
  BY DEF TypeOK, Listing
<1>5. HeapInv'
  BY <1>2, <1>3 DEF HeapInv, Listing, Array
<1>6. ReadInv' /\ RoomInv'
  BY DEF ReadInv, RoomInv, Reading, Path
<1>7. LeakInv'
  BY <1>2 DEF LeakInv, InUse, Leftover, Array, Listing
<1> QED
  BY <1>4, <1>5, <1>6, <1>7

\* The entry is counted, with its blocks.
LEMMA InvCounted ==
    ASSUME ListInv, pc \in {"lstat", "link"}, pc' = "read", wild' = wild,
           files' = Append(files, [name |-> entry, st |-> stat[entry]]),
           live' = live \cup (IF stat[entry].link THEN {LinkBlock(entry)} ELSE {}),
           UNCHANGED <<env, flags, argv, arg, dir, opened, capacity, entry, out>>
    PROVE  ListInv'
<1> USE DEF ListInv
<1> DEFINE f == [name |-> entry, st |-> stat[entry]]
<1>1. f \in File /\ f.name = entry /\ f.st = stat[entry] /\ files \in Seq(File)
  BY PathFacts DEF File, TypeOK, Named
<1> HIDE DEF f
<1>2. /\ files' \in Seq(File) /\ Len(files') = Len(files) + 1 /\ Len(files) \in Nat
  BY <1>1, RangeAppend DEF f
<1>3. /\ BlocksOf(files') = BlocksOf(files) \cup {NameBlock(entry)} \cup
                             (IF stat[entry].link THEN {LinkBlock(entry)} ELSE {})
      /\ NamesOf(files') = NamesOf(files) \cup {entry}
  BY <1>1, BlocksAppend DEF f
<1>4. TypeOK'
  <2>1. Len(files') <= capacity'
    BY <1>2 DEF RoomInv
  <2> QED
    BY <1>2, <2>1 DEF TypeOK, env, Listing
<1>5. HeapInv'
  BY <1>3 DEF HeapInv, Listing, Array
<1>6. ReadInv'
  BY <1>3 DEF ReadInv, Reading, Path, env
<1>7. RoomInv'
  BY DEF RoomInv, Reading
<1>8. LeakInv'
  BY <1>3 DEF LeakInv, InUse, Leftover, Array, Listing
<1> QED
  BY <1>4, <1>5, <1>6, <1>7, <1>8

\* An error in the loop frees what was read, and the directory is closed.
LEMMA InvGiveUp ==
    ASSUME ListInv, pc \in {"read", "link"}, NEW bs, bs \subseteq live,
           pc = "link" => bs = {NameBlock(entry)},
           GiveUp(bs), UNCHANGED <<env, flags, argv, arg, files, capacity, entry, out>>
    PROVE  ListInv'
<1> USE DEF ListInv
<1>1. BlocksOf(files) \cup {Array} \subseteq live /\ wild = {}
  BY DEF HeapInv, Listing
<1>2. /\ live' = live \ (bs \cup BlocksOf(files) \cup {Array}) /\ wild' = {}
      /\ opened' = FALSE /\ dir' = {} /\ pc' = "failed"
  BY <1>1 DEF GiveUp, Release
<1>3. TypeOK'
  BY <1>2 DEF TypeOK, env, Listing
<1>4. HeapInv' /\ ReadInv' /\ RoomInv'
  BY <1>2 DEF HeapInv, ReadInv, RoomInv, Listing, Reading
<1>5. LeakInv'
  BY <1>2 DEF LeakInv, InUse, Leftover, Listing
<1> QED
  BY <1>3, <1>4, <1>5

LEMMA InvEntry ==
    ASSUME ListInv, Lstat \/ ReadLink \/ LinkFails \/ ReadFails
    PROVE  ListInv'
<1>1. CASE Lstat
  <2>1. /\ pc = "lstat"
        /\ UNCHANGED <<stat, present, changed, flags, argv, arg, dir, opened, capacity,
                       entry, out>>
    BY <1>1 DEF Lstat
  <2>2. CASE /\ Release({NameBlock(entry)}) /\ refused' = refused \cup {entry}
             /\ pc' = "read" /\ UNCHANGED files
    BY <2>1, <2>2, InvRefused
  <2>3. CASE pc' = "link" /\ stat[entry].link /\ UNCHANGED <<files, memory, refused>>
    <3>1. TypeOK'
      BY <2>1, <2>3 DEF ListInv, TypeOK, Listing
    <3>2. HeapInv' /\ ReadInv' /\ RoomInv' /\ LeakInv'
      BY <2>1, <2>3 DEF ListInv, HeapInv, ReadInv, RoomInv, LeakInv, InUse, Leftover,
                        Array, Path, Listing, Reading, memory
    <3> QED
      BY <3>1, <3>2 DEF ListInv
  <2>4. CASE /\ pc' = "read" /\ ~stat[entry].link /\ UNCHANGED <<memory, refused>>
             /\ files' = Append(files, [name |-> entry, st |-> stat[entry]])
    BY <2>1, <2>4, InvCounted DEF memory, env
  <2> QED
    BY <1>1, <2>2, <2>3, <2>4 DEF Lstat
<1>2. CASE ReadLink
  <2>1. stat[entry].link
    BY <1>2 DEF ReadLink, ListInv, HeapInv
  <2> QED
    BY <1>2, <2>1, InvCounted DEF ReadLink, Allocate
<1>3. CASE LinkFails
  BY <1>3, InvGiveUp DEF LinkFails, ListInv, HeapInv
<1>4. CASE ReadFails
  BY <1>4, InvGiveUp DEF ReadFails
<1> QED
  BY <1>1, <1>2, <1>3, <1>4

-----------------------------------------------------------------------------
(* After the loop *)

LEMMA InvEndOfDir ==
    ASSUME ListInv, EndOfDir
    PROVE  ListInv'
<1> USE DEF ListInv
<1>1. /\ pc = "read" /\ dir' = {} /\ opened' = FALSE
      /\ pc' = IF "d" \in flags THEN "itself" ELSE "sort"
      /\ UNCHANGED <<env, flags, argv, arg, files, capacity, entry, memory, out>>
  BY DEF EndOfDir
<1>2. TypeOK'
  BY <1>1 DEF TypeOK, env, Listing
<1>3. HeapInv' /\ ReadInv'
  BY <1>1 DEF HeapInv, ReadInv, Listing, Reading, Array, memory
<1>4. RoomInv'
  BY <1>1 DEF RoomInv, Reading
<1>5. LeakInv'
  BY <1>1 DEF LeakInv, InUse, Leftover, Array, Listing, memory
<1> QED
  BY <1>2, <1>3, <1>4, <1>5

\* -d: the array holds the path alone, whose linkname is NULL.
LEMMA InvItself ==
    ASSUME ListInv, ListItself
    PROVE  ListInv'
<1> USE DEF ListInv
<1> DEFINE f == [name |-> Path, st |-> [stat[Path] EXCEPT !.link = FALSE]]
<1>1. f \in File /\ f.name = Path /\ ~f.st.link
  BY PathFacts DEF File, Named, Stat
<1>2. /\ pc = "itself" /\ pc' = "print" /\ files' = <<f>> /\ Allocate(NameBlock(Path))
      /\ UNCHANGED <<env, flags, argv, arg, dir, opened, capacity, entry, out>>
  BY DEF ListItself
<1> HIDE DEF f
<1>3. <<f>> \in Seq(File) /\ Len(<<f>>) = 1 /\ Range(<<f>>) = {f}
  BY <1>1 DEF Range
<1>4. BlocksOf(files') = {NameBlock(Path)}
  BY <1>1, <1>2, <1>3 DEF BlocksOf
<1>5. TypeOK'
  BY <1>2, <1>3 DEF TypeOK, RoomInv, env, Listing
<1>6. HeapInv'
  BY <1>2, <1>4 DEF HeapInv, Allocate, Listing, Array
<1>7. ReadInv' /\ RoomInv'
  BY <1>2 DEF ReadInv, RoomInv, Reading
<1>8. LeakInv'
  BY <1>2 DEF LeakInv
<1> QED
  BY <1>5, <1>6, <1>7, <1>8

LEMMA InvItselfFails ==
    ASSUME ListInv, ListItselfFails
    PROVE  ListInv'
<1> USE DEF ListInv
<1>1. /\ pc = "itself" /\ pc' = "failed" /\ (UNCHANGED memory \/ Release({Array}))
      /\ UNCHANGED <<env, flags, argv, arg, dir, opened, files, capacity, entry, out>>
  BY DEF ListItselfFails
<1>2. TypeOK'
  BY <1>1 DEF TypeOK, env, Listing
<1>3. Array \in live /\ wild = {}
  BY <1>1 DEF HeapInv, Listing
<1>4. HeapInv'
  BY <1>1, <1>3 DEF HeapInv, Release, memory, Listing
<1>5. ReadInv' /\ RoomInv' /\ LeakInv'
  BY <1>1 DEF ReadInv, RoomInv, LeakInv, Reading
<1> QED
  BY <1>2, <1>4, <1>5

LEMMA InvSort ==
    ASSUME ListInv, Sort
    PROVE  ListInv'
<1> USE DEF ListInv
<1>1. /\ pc = "sort" /\ pc' = "print"
      /\ UNCHANGED <<env, flags, argv, arg, dir, opened, capacity, entry, memory, out>>
      /\ files' = files \/ files' \in Sorted(SortKey, files)
  BY DEF Sort
<1>2. files \in Seq(File) /\ Len(files) \in Nat /\ Len(files) <= capacity /\ capacity \in Nat
  BY LenProperties DEF TypeOK, RoomInv
<1>3. /\ files' \in Seq(File) /\ Len(files') <= Len(files) /\ BlocksOf(files') = BlocksOf(files)
  BY <1>1, <1>2, SortedFacts
<1>4. Len(files') \in Nat
  BY <1>3, LenProperties
<1>5. TypeOK'
  <2>1. Len(files') <= capacity'
    BY <1>1, <1>2, <1>3, <1>4
  <2> QED
    BY <1>1, <1>3, <2>1 DEF TypeOK, env, Listing
<1>6. HeapInv'
  BY <1>1, <1>3 DEF HeapInv, Listing, Array, memory
<1>7. ReadInv' /\ RoomInv'
  BY <1>1 DEF ReadInv, RoomInv, Reading
<1>8. LeakInv'
  BY <1>1, <1>3 DEF LeakInv, InUse, Leftover, Array, Listing, memory
<1> QED
  BY <1>5, <1>6, <1>7, <1>8

-----------------------------------------------------------------------------
(* Output, and the next path *)

LEMMA InvPrint ==
    ASSUME ListInv, PrintOutput \/ SkipEmpty
    PROVE  ListInv'
<1> USE DEF ListInv
<1>1. CASE PrintOutput
  <2>1. /\ pc = "print" /\ pc' = "free"
        /\ UNCHANGED <<env, flags, argv, arg, dir, opened, files, capacity, entry, memory>>
    BY <1>1 DEF PrintOutput
  <2>2. TypeOK'
    BY <2>1 DEF TypeOK, env, Listing
  <2>3. HeapInv' /\ ReadInv' /\ RoomInv'
    BY <2>1 DEF HeapInv, ReadInv, RoomInv, Listing, Reading, Array, memory
  <2>4. LeakInv'
    BY <2>1 DEF LeakInv, InUse, Leftover, Array, Listing, memory
  <2> QED
    BY <2>2, <2>3, <2>4
<1>2. CASE SkipEmpty
  <2>1. /\ pc = "print" /\ pc' = "next" /\ arg > 1 /\ files = <<>>
        /\ UNCHANGED <<env, flags, argv, arg, dir, opened, files, capacity, entry, memory, out>>
    BY <1>2 DEF SkipEmpty
  <2>2. TypeOK'
    BY <2>1 DEF TypeOK, env, Listing
  <2>3. HeapInv' /\ ReadInv' /\ RoomInv'
    BY <2>1 DEF HeapInv, ReadInv, RoomInv, Listing, Reading, memory
  <2>4. arg \in Nat /\ arg # 1
    BY <2>1, PathFacts
  <2>5. LeakInv'
    <3>1. "d" \notin flags
      BY <2>4 DEF LeakInv
    <3>2. Array \in Leftover
      BY <2>1, <2>4 DEF Array, Leftover
    <3>3. live \subseteq Leftover
      BY <2>1, <3>1, <3>2, BlocksEmpty DEF LeakInv, InUse, Listing
    <3> QED
      BY <2>1, <3>1, <3>3 DEF LeakInv, Leftover, Listing, memory
  <2> QED
    BY <2>2, <2>3, <2>5
<1> QED
  BY <1>1, <1>2

\* Everything of the path that was printed is freed.
LEMMA InvFree ==
    ASSUME ListInv, FreeFirst \/ FreeLater
    PROVE  ListInv'
<1> USE DEF ListInv
<1>1. PICK bs \in SUBSET live :
        /\ pc = "free" /\ pc' = IF arg = 1 /\ "d" \in flags THEN "exit" ELSE "next"
        /\ files' = <<>> /\ Release(BlocksOf(files) \cup {Array} \cup bs)
        /\ UNCHANGED <<env, flags, argv, arg, dir, opened, capacity, entry, out>>
  <2>1. CASE FreeFirst
    <3>1. {b \in live : b[1] = "token"} \in SUBSET live
      OBVIOUS
    <3> QED
      BY <2>1, <3>1 DEF FreeFirst
  <2>2. CASE FreeLater
    <3>1. {} \in SUBSET live /\ arg # 1
      BY <2>2, PathFacts DEF FreeLater
    <3>2. BlocksOf(files) \cup {Array} \cup {} = BlocksOf(files) \cup {Array}
      OBVIOUS
    <3> QED
      BY <2>2, <3>1, <3>2 DEF FreeLater
  <2> QED
    BY <2>1, <2>2
<1>2. BlocksOf(files) \cup {Array} \subseteq live /\ wild = {}
  BY <1>1 DEF HeapInv, Listing
<1>3. live' = live \ (BlocksOf(files) \cup {Array} \cup bs) /\ wild' = {}
  BY <1>1, <1>2 DEF Release
<1>4. <<>> \in Seq(File) /\ Len(<<>>) = 0
  BY EmptySeq
<1>5. TypeOK'
  <2>1. files' \in Seq(File) /\ Len(files') <= capacity'
    BY <1>1, <1>4 DEF RoomInv
  <2> QED
    BY <1>1, <2>1 DEF TypeOK, env, Listing
<1>6. HeapInv' /\ ReadInv' /\ RoomInv'
  BY <1>1, <1>3 DEF HeapInv, ReadInv, RoomInv, Listing, Reading
<1>7. LeakInv'
  <2>1. CASE "d" \in flags
    BY <1>1, <2>1 DEF LeakInv
  <2>2. CASE "d" \notin flags
    <3>1. live \subseteq Leftover \cup {Array} \cup BlocksOf(files)
      BY <1>1, <2>2 DEF LeakInv, InUse, Listing
    <3>2. live' \subseteq Leftover'
      BY <1>1, <1>3, <3>1 DEF Leftover
    <3> QED
      BY <1>1, <2>2, <3>2 DEF LeakInv, Listing
  <2> QED
    BY <2>1, <2>2
<1> QED
  BY <1>5, <1>6, <1>7

LEMMA InvNext ==
    ASSUME ListInv, Failed \/ NextPath
    PROVE  ListInv'
<1> USE DEF ListInv
<1>1. CASE Failed
  <2>1. /\ pc = "failed" /\ pc' = (IF arg = 1 THEN "exit" ELSE "next") /\ files' = <<>>
        /\ UNCHANGED <<env, flags, argv, arg, dir, opened, capacity, entry, memory, out>>
    BY <1>1 DEF Failed
  <2>2. files' \in Seq(File) /\ Len(files') <= capacity'
    BY <2>1, EmptySeq DEF RoomInv
  <2>3. TypeOK'
    BY <2>1, <2>2 DEF TypeOK, env, Listing
  <2>4. HeapInv' /\ ReadInv' /\ RoomInv'
    BY <2>1 DEF HeapInv, ReadInv, RoomInv, Listing, Reading, memory
  <2>5. LeakInv'
    BY <2>1 DEF LeakInv, Leftover, Listing, memory
  <2> QED
    BY <2>3, <2>4, <2>5
<1>2. CASE NextPath
  <2>1. /\ pc = "next" /\ pc' \in {"open", "exit"}
        /\ arg' \in {arg, arg + 1} /\ arg' \in 1..Len(argv)
        /\ UNCHANGED <<env, flags, argv, dir, opened, files, capacity, entry, memory>>
    <3>1. arg \in 1..Len(argv) /\ Len(argv) \in Nat
      BY ListAssumption, LenProperties DEF TypeOK
    <3> QED
      BY <1>2, <3>1 DEF NextPath
  <2>2. TypeOK'
    BY <2>1 DEF TypeOK, env, Listing
  <2>3. HeapInv' /\ ReadInv' /\ RoomInv'
    BY <2>1 DEF HeapInv, ReadInv, RoomInv, Listing, Reading, memory
  <2>4. "d" \notin flags /\ live \subseteq Leftover
    BY <2>1 DEF LeakInv
  <2>5. Leftover \subseteq Leftover'
    <3>1. 2..arg \subseteq 2..arg'
      BY <2>1, PathFacts
    <3> QED
      BY <3>1 DEF Leftover
  <2>6. LeakInv'
    BY <2>1, <2>4, <2>5 DEF LeakInv, Listing, memory
  <2> QED
    BY <2>2, <2>3, <2>6
<1> QED
  BY <1>1, <1>2

LEMMA ListStep == ListInv /\ [Next]_vars => ListInv'
<1> SUFFICES ASSUME ListInv, [Next]_vars PROVE ListInv'
  OBVIOUS
<1>1. CASE Others
  BY <1>1, InvOthers
<1>2. CASE Parse
  BY <1>2, InvParse
<1>3. CASE Process
  BY <1>3, InvOpen, InvRead, InvEntry, InvEndOfDir, InvItself, InvItselfFails, InvSort
     DEF Process
<1>4. CASE PrintOutput \/ SkipEmpty \/ FreeFirst \/ FreeLater \/ Failed \/ NextPath
  BY <1>4, InvPrint, InvFree, InvNext
<1>5. CASE UNCHANGED vars
  BY <1>5 DEF vars, env, memory, ListInv, TypeOK, HeapInv, ReadInv, RoomInv, LeakInv,
              InUse, Leftover, Array, Path
<1> QED
  BY <1>1, <1>2, <1>3, <1>4, <1>5 DEF Next, Main

THEOREM ListSafe == Spec => []ListInv
<1>1. Init => ListInv
  BY ListInit
<1>2. ListInv /\ [Next]_vars => ListInv'
  BY ListStep
<1> QED
  BY <1>1, <1>2, PTL DEF Spec

\* No error path of process_and_sort, and no path of main, frees a block that
\* is not in use, or prints, compares or frees an entry whose blocks were
\* freed, however entries vanish between readdir and lstat.
THEOREM NoDoubleFree == Spec => []FreedOnce
<1>1. ListInv => FreedOnce
  BY DEF ListInv, HeapInv, FreedOnce
<1> QED
  BY <1>1, ListSafe, PTL

\* main has freed all that process_and_sort gave it when it goes on to the next
\* path, except the arrays of empty later directories and tokens of the path.
THEOREM NoLeak == Spec => []NothingLeaked
<1>1. ListInv => NothingLeaked
  BY DEF ListInv, LeakInv, NothingLeaked, Leftover
<1> QED
  BY <1>1, ListSafe, PTL

-----------------------------------------------------------------------------
(* Flattening, although it is recursive *)

LEMMA Ascends ==
    ASSUME NEW S, 0 \in S, \A n \in Nat : n \in S => n + 1 \in S
    PROVE  Nat \subseteq S
<1> SUFFICES ASSUME Nat \ S # {}
             PROVE  FALSE
  OBVIOUS
<1>1. \E x \in Nat \ S : \A y \in Nat \ S : ~(<<y, x>> \in OpToRel(<, Nat))
  BY NatLessThanWellFounded, WFMin
<1>2. \A x, y \in Nat : y < x => <<y, x>> \in OpToRel(<, Nat)
  BY DEF OpToRel
<1>3. PICK x \in Nat \ S : \A y \in Nat \ S : ~(y < x)
  BY <1>1, <1>2, Zenon
<1>4. x - 1 \in Nat /\ x - 1 < x /\ (x - 1) + 1 = x
  BY <1>3
<1> QED
  BY <1>3, <1>4

\* f flattens the first n elements of q.
Flattens(f, q, n) ==
    n >= 1 => f[1] = q[1] /\ \A i \in 2..n : f[i] = f[i-1] \o q[i]

LEMMA FlattenExists ==
    ASSUME NEW S, NEW n \in Nat, NEW q \in [1..n -> Seq(S)]
    PROVE  \E f \in [1..n -> Seq(S)] : Flattens(f, q, n)
<1> DEFINE T == {m \in Nat : m <= n => \E f \in [1..m -> Seq(S)] : Flattens(f, q, m)}
<1>1. 0 \in T
  <2>1. [k \in 1..0 |-> <<>>] \in [1..0 -> Seq(S)]
    OBVIOUS
  <2>2. Flattens([k \in 1..0 |-> <<>>], q, 0)
    BY DEF Flattens
  <2>3. \E f \in [1..0 -> Seq(S)] : Flattens(f, q, 0)
    BY <2>1, <2>2
  <2> QED
    BY <2>3
<1>2. ASSUME NEW m \in Nat, m \in T
      PROVE  m + 1 \in T
  <2> SUFFICES ASSUME m + 1 <= n
               PROVE  \E f \in [1..m+1 -> Seq(S)] : Flattens(f, q, m + 1)
    OBVIOUS
  <2>1. PICK f \in [1..m -> Seq(S)] : Flattens(f, q, m)
    BY <1>2
  <2> DEFINE x == IF m = 0 THEN q[1] ELSE f[m] \o q[m+1]
             g == [k \in 1..m+1 |-> IF k = m + 1 THEN x ELSE f[k]]
  <2>2. x \in Seq(S)
    <3>1. q[1] \in Seq(S) /\ q[m+1] \in Seq(S)
      OBVIOUS
    <3>2. CASE m # 0
      <4>1. f[m] \in Seq(S)
        BY <3>2
      <4> QED
        BY <3>1, <3>2, <4>1
    <3> QED
      BY <3>1, <3>2
  <2> HIDE DEF x
  <2>3. g \in [1..m+1 -> Seq(S)]
    BY <2>2
  <2>4. \A k \in 1..m+1 : g[k] = IF k = m + 1 THEN x ELSE f[k]
    OBVIOUS
  <2> HIDE DEF g
  <2>5. g[1] = q[1]
    <3>1. CASE m = 0
      BY <2>4, <3>1 DEF x
    <3>2. CASE m # 0
      <4>1. m >= 1 /\ 1 \in 1..m+1 /\ 1 # m + 1
        BY <3>2
      <4>2. g[1] = f[1]
        BY <2>4, <4>1
      <4>3. f[1] = q[1]
        BY <2>1, <4>1 DEF Flattens
      <4> QED
        BY <4>2, <4>3
    <3> QED
      BY <3>1, <3>2
  <2>7. ASSUME NEW i \in 2..m+1
        PROVE  g[i] = g[i-1] \o q[i]
    <3>1. m # 0 /\ i - 1 \in 1..m+1 /\ i - 1 # m + 1 /\ i \in 1..m+1
      BY <2>7
    <3>2. g[i-1] = f[i-1]
      BY <2>4, <3>1
    <3>3. CASE i = m + 1
      <4>1. g[i] = x /\ i - 1 = m
        BY <2>4, <3>1, <3>3
      <4> QED
        BY <3>1, <3>2, <3>3, <4>1 DEF x
    <3>4. CASE i # m + 1
      <4>1. g[i] = f[i] /\ i \in 2..m /\ m >= 1
        BY <2>4, <2>7, <3>1, <3>4
      <4> QED
        BY <2>1, <3>2, <4>1 DEF Flattens
    <3> QED
      BY <3>3, <3>4
  <2>6. Flattens(g, q, m + 1)
    BY <2>5, <2>7 DEF Flattens
  <2> QED
    BY <2>3, <2>6
<1> HIDE DEF T
<1>3. n \in T
  BY <1>1, <1>2, Ascends
<1> QED
  BY <1>3 DEF T

\* What FlattenSeq computes.
LEMMA FlattenFacts ==
    ASSUME NEW S, NEW n \in Nat \ {0}, NEW q \in [1..n -> Seq(S)]
    PROVE  \E f \in [1..n -> Seq(S)] : Flattens(f, q, n) /\ FlattenSeq(q) = f[n]
<1> DEFINE Body(f) == [i \in 1..n |-> IF i = 1 THEN q[i] ELSE f[i-1] \o q[i]]
           C == CHOOSE f : f = Body(f)
<1>1. Len(q) = n /\ n # 0
  OBVIOUS
<1>2. FlattenSeq(q) = C[n]
  BY <1>1 DEF FlattenSeq
<1>3. \E f : f = Body(f)
  <2>1. PICK f \in [1..n -> Seq(S)] : Flattens(f, q, n)
    BY FlattenExists
  <2>2. ASSUME NEW i \in 1..n
        PROVE  f[i] = Body(f)[i]
    <3>1. Body(f)[i] = IF i = 1 THEN q[i] ELSE f[i-1] \o q[i]
      OBVIOUS
    <3> HIDE DEF Body
    <3>2. CASE i = 1
      BY <2>1, <3>1, <3>2 DEF Flattens
    <3>3. CASE i # 1
      <4>1. i \in 2..n /\ n >= 1
        BY <3>3
      <4> QED
        BY <2>1, <3>1, <3>3, <4>1 DEF Flattens
    <3> QED
      BY <3>2, <3>3
  <2>3. f = [i \in 1..n |-> f[i]]
    OBVIOUS
  <2>4. f = Body(f)
    BY <2>2, <2>3
  <2> QED
    BY <2>4
<1>4. C = Body(C)
  <2> HIDE DEF Body
  <2> QED
    BY <1>3
<1> HIDE DEF C
<1>a. \A i \in 1..n : C[i] = IF i = 1 THEN q[i] ELSE C[i-1] \o q[i]
  <2> SUFFICES ASSUME NEW i \in 1..n
               PROVE  C[i] = IF i = 1 THEN q[i] ELSE C[i-1] \o q[i]
    OBVIOUS
  <2>1. C[i] = Body(C)[i]
    BY <1>4
  <2> QED
    BY <2>1
<1>5. C[1] = q[1] /\ \A i \in 2..n : C[i] = C[i-1] \o q[i]
  <2>1. 1 \in 1..n /\ \A i \in 2..n : i \in 1..n /\ i # 1
    OBVIOUS
  <2> HIDE DEF Body
  <2> QED
    BY <1>a, <2>1, Zenon
<1>6. \A i \in 1..n : C[i] \in Seq(S)
  <2> DEFINE T == {m \in Nat : m + 1 <= n => C[m+1] \in Seq(S)}
  <2>1. 0 \in T
    BY <1>5
  <2>2. ASSUME NEW m \in Nat, m \in T
        PROVE  m + 1 \in T
    <3> SUFFICES ASSUME (m + 1) + 1 <= n
                 PROVE  C[(m + 1) + 1] \in Seq(S)
      OBVIOUS
    <3>1. (m + 1) + 1 \in 2..n /\ ((m + 1) + 1) - 1 = m + 1 /\ m + 1 <= n
      OBVIOUS
    <3>2. C[m+1] \in Seq(S) /\ q[(m + 1) + 1] \in Seq(S)
      BY <2>2, <3>1
    <3>3. C[(m + 1) + 1] = C[m + 1] \o q[(m + 1) + 1]
      BY <1>5, <3>1
    <3> QED
      BY <3>2, <3>3
  <2> HIDE DEF T
  <2>3. Nat \subseteq T
    BY <2>1, <2>2, Ascends
  <2> SUFFICES ASSUME NEW i \in 1..n
               PROVE  C[i] \in Seq(S)
    OBVIOUS
  <2>4. i - 1 \in T /\ (i - 1) + 1 = i
    BY <2>3
  <2> QED
    BY <2>4 DEF T
<1>7. C = [i \in 1..n |-> C[i]]
  <2>1. DOMAIN C = 1..n /\ C = [i \in DOMAIN C |-> C[i]]
    BY <1>4
  <2> QED
    BY <2>1
<1>8. C \in [1..n -> Seq(S)]
  BY <1>6, <1>7
<1> QED
  BY <1>2, <1>5, <1>8 DEF Flattens

LEMMA FunctionSeq ==
    ASSUME NEW S, NEW n \in Nat, NEW f \in [1..n -> S]
    PROVE  f \in Seq(S) /\ Len(f) = n
OBVIOUS

LEMMA ConcatFacts ==
    ASSUME NEW S, NEW p \in Seq(S), NEW r \in Seq(S)
    PROVE  /\ p \o r \in Seq(S) /\ Len(p \o r) = Len(p) + Len(r)
           /\ Len(p) \in Nat /\ Len(r) \in Nat
           /\ \A k \in 1..Len(p) + Len(r) :
                (p \o r)[k] = IF k <= Len(p) THEN p[k] ELSE r[k - Len(p)]
BY ConcatProperties, LenProperties

LEMMA ConcatLens ==
    ASSUME NEW S, NEW p \in Seq(S), NEW r \in Seq(S), NEW a, NEW b, Len(p) = a, Len(r) = b
    PROVE  /\ p \o r \in Seq(S) /\ Len(p \o r) = a + b
           /\ \A k \in 1..a+b : (p \o r)[k] = IF k <= a THEN p[k] ELSE r[k - a]
BY ConcatFacts

LEMMA ConcatOne ==
    ASSUME NEW S, NEW p \in Seq(S), NEW y \in S, NEW a \in Nat, Len(p) = a
    PROVE  /\ p \o <<y>> \in Seq(S) /\ Len(p \o <<y>>) = a + 1
           /\ \A k \in 1..a+1 : (p \o <<y>>)[k] = IF k <= a THEN p[k] ELSE y
<1>1. <<y>> \in Seq(S) /\ Len(<<y>>) = 1 /\ <<y>>[1] = y
  OBVIOUS
<1> DEFINE r == <<y>>
<1>2. /\ p \o r \in Seq(S) /\ Len(p \o r) = a + 1
      /\ \A k \in 1..a+1 : (p \o r)[k] = IF k <= a THEN p[k] ELSE r[k - a]
  <2> HIDE DEF r
  <2>1. r \in Seq(S) /\ Len(r) = 1
    BY <1>1 DEF r
  <2>2. /\ p \o r \in Seq(S) /\ Len(p \o r) = Len(p) + Len(r)
        /\ \A k \in 1..Len(p) + Len(r) :
             (p \o r)[k] = IF k <= Len(p) THEN p[k] ELSE r[k - Len(p)]
    BY <2>1, ConcatFacts
  <2>3. Len(p) + Len(r) = a + 1
    BY <2>1
  <2> DEFINE w == p \o r
  <2> HIDE DEF w
  <2>4. w \in Seq(S) /\ Len(w) = a + 1 /\
        \A k \in 1..a+1 : w[k] = IF k <= a THEN p[k] ELSE r[k - a]
    BY <2>2, <2>3 DEF w
  <2> QED
    BY <2>4 DEF w
<1>3. \A k \in 1..a+1 : ~(k <= a) => k - a = 1
  OBVIOUS
<1> QED
  BY <1>1, <1>2, <1>3

\* Flattening a sequence of single elements gives the elements.
LEMMA FlattenSingles ==
    ASSUME NEW S, NEW s \in Seq(S)
    PROVE  FlattenSeq([k \in 1..Len(s) |-> <<s[k]>>]) = s
<1> DEFINE n == Len(s)
           q == [k \in 1..n |-> <<s[k]>>]
<1>1. n \in Nat /\ \A k \in 1..n : s[k] \in S
  OBVIOUS
<1>a. s = [k \in 1..n |-> s[k]]
  OBVIOUS
<1> HIDE DEF n
<1>2. q \in [1..n -> Seq(S)] /\ Len(q) = n /\ \A k \in 1..n : q[k] = <<s[k]>>
  <2>1. \A k \in 1..n : <<s[k]>> \in Seq(S)
    BY <1>1
  <2> QED
    BY <1>1, <2>1
<1>3. CASE n = 0
  <2>1. FlattenSeq(q) = q
    BY <1>2, <1>3 DEF FlattenSeq
  <2>2. q = <<>> /\ s = <<>>
    BY <1>3, <1>a
  <2> QED
    BY <2>1, <2>2 DEF n
<1>4. CASE n # 0
  <2> HIDE DEF q
  <2>1. PICK f \in [1..n -> Seq(S)] : Flattens(f, q, n) /\ FlattenSeq(q) = f[n]
    BY <1>1, <1>2, <1>4, FlattenFacts
  <2>2. f[1] = q[1] /\ \A i \in 2..n : f[i] = f[i-1] \o q[i]
    <3>1. n >= 1
      BY <1>1, <1>4
    <3> QED
      BY <2>1, <3>1 DEF Flattens
  <2> DEFINE front(m) == [k \in 1..m |-> s[k]]
             T == {m \in Nat : m + 1 <= n => f[m+1] = front(m + 1)}
  <2>3. 0 \in T
    <3>1. f[1] = <<s[1]>>
      <4>1. 1 \in 1..n
        BY <1>1, <1>4
      <4>2. q[1] = <<s[1]>>
        BY <1>2, <4>1
      <4> QED
        BY <2>2, <4>2
    <3>2. front(1) = <<s[1]>>
      OBVIOUS
    <3> QED
      BY <3>1, <3>2
  <2>4. ASSUME NEW m \in Nat, m \in T
        PROVE  m + 1 \in T
    <3> SUFFICES ASSUME (m + 1) + 1 <= n
                 PROVE  f[(m + 1) + 1] = front((m + 1) + 1)
      OBVIOUS
    <3>1. (m + 1) + 1 \in 2..n /\ ((m + 1) + 1) - 1 = m + 1 /\ m + 1 <= n /\ (m + 1) + 1 \in 1..n
      BY <1>1
    <3>2. f[m+1] = front(m + 1)
      BY <2>4, <3>1
    <3> DEFINE y == s[(m + 1) + 1]
               h == front(m + 1)
               w == h \o <<y>>
    <3>3. f[(m + 1) + 1] = w
      <4>1. q[(m + 1) + 1] = <<y>>
        BY <1>2, <3>1
      <4> HIDE DEF y, h
      <4>2. f[(m + 1) + 1] = f[m + 1] \o q[(m + 1) + 1]
        BY <2>2, <3>1
      <4>3. f[m + 1] = h
        BY <3>2 DEF h
      <4> QED
        BY <4>1, <4>2, <4>3
    <3>4. h \in Seq(S) /\ Len(h) = m + 1 /\ y \in S /\ m + 1 \in Nat
      BY <1>1, <3>1
    <3>5. y = s[(m + 1) + 1] /\ \A k \in 1..m+1 : h[k] = s[k]
      OBVIOUS
    <3> HIDE DEF y, h
    <3>6. /\ w \in Seq(S) /\ Len(w) = (m + 1) + 1
          /\ \A k \in 1..(m + 1) + 1 : w[k] = IF k <= m + 1 THEN h[k] ELSE y
      BY <3>4, ConcatOne
    <3> HIDE DEF w
    <3>7. \A k \in 1..(m + 1) + 1 : w[k] = s[k]
      <4> SUFFICES ASSUME NEW k \in 1..(m + 1) + 1
                   PROVE  w[k] = s[k]
        OBVIOUS
      <4>1. CASE k <= m + 1
        <5>1. k \in 1..m+1
          BY <4>1
        <5> QED
          BY <3>5, <3>6, <4>1, <5>1
      <4>2. CASE k = (m + 1) + 1
        <5>1. ~(k <= m + 1)
          BY <4>2
        <5> QED
          BY <3>5, <3>6, <4>2, <5>1
      <4> QED
        BY <4>1, <4>2
    <3>8. w = [k \in 1..(m + 1) + 1 |-> w[k]]
      BY <3>6
    <3>9. w = front((m + 1) + 1)
      BY <3>7, <3>8
    <3> QED
      BY <3>3, <3>9
  <2> HIDE DEF T
  <2>5. Nat \subseteq T
    BY <2>3, <2>4, Ascends
  <2>6. n - 1 \in T /\ (n - 1) + 1 = n /\ n <= n
    BY <1>1, <1>4, <2>5
  <2>7. f[n] = s
    BY <1>a, <2>6 DEF T
  <2> QED
    BY <2>1, <2>7 DEF q, n
<1> QED
  BY <1>3, <1>4

-----------------------------------------------------------------------------
(* The columns show every entry once *)

\* t consists of the elements of s at the indices in A, each taken once.
Picks(t, s, A) ==
    \E P \in Seq(A) :
        /\ \A j, k \in 1..Len(P) : P[j] = P[k] => j = k
        /\ \A x \in A : \E k \in 1..Len(P) : P[k] = x
        /\ t = [k \in 1..Len(P) |-> s[P[k]]]

LEMMA PicksConcat ==
    ASSUME NEW S, NEW s \in Seq(S), NEW A \in SUBSET (1..Len(s)), NEW B \in SUBSET (1..Len(s)),
           A \cap B = {}, NEW t, NEW u, Picks(t, s, A), Picks(u, s, B)
    PROVE  Picks(t \o u, s, A \cup B)
<1>1. PICK p \in Seq(A) :
        /\ \A j, k \in 1..Len(p) : p[j] = p[k] => j = k
        /\ \A x \in A : \E k \in 1..Len(p) : p[k] = x
        /\ t = [k \in 1..Len(p) |-> s[p[k]]]
  BY DEF Picks
<1>2. PICK r \in Seq(B) :
        /\ \A j, k \in 1..Len(r) : r[j] = r[k] => j = k
        /\ \A x \in B : \E k \in 1..Len(r) : r[k] = x
        /\ u = [k \in 1..Len(r) |-> s[r[k]]]
  BY DEF Picks
<1> DEFINE c == p \o r
           a == Len(p)
           b == Len(r)
<1>a. p \in Seq(A \cup B) /\ r \in Seq(A \cup B)
  BY <1>1, <1>2
<1>3. /\ c \in Seq(A \cup B) /\ Len(c) = a + b /\ a \in Nat /\ b \in Nat
      /\ \A k \in 1..a+b : c[k] = IF k <= a THEN p[k] ELSE r[k-a]
  BY <1>a, ConcatFacts
<1>b. (\A k \in 1..a : p[k] \in A) /\ (\A k \in 1..b : r[k] \in B)
  OBVIOUS
<1> HIDE DEF c, a, b
<1>4. ASSUME NEW j \in 1..a+b, NEW k \in 1..a+b, c[j] = c[k]
      PROVE  j = k
  <2>1. CASE j <= a /\ k <= a
    <3>1. j \in 1..a /\ k \in 1..a /\ p[j] = p[k]
      BY <1>3, <1>4, <2>1
    <3> QED
      BY <1>1, <3>1 DEF a
  <2>2. CASE j > a /\ k > a
    <3>1. j - a \in 1..b /\ k - a \in 1..b /\ r[j-a] = r[k-a]
      BY <1>3, <1>4, <2>2
    <3>2. j - a = k - a
      BY <1>2, <3>1 DEF b
    <3> QED
      BY <1>3, <3>2
  <2>3. CASE j <= a /\ k > a
    <3>1. j \in 1..a /\ k - a \in 1..b /\ p[j] = r[k-a]
      BY <1>3, <1>4, <2>3
    <3> QED
      BY <1>b, <3>1
  <2>4. CASE j > a /\ k <= a
    <3>1. k \in 1..a /\ j - a \in 1..b /\ p[k] = r[j-a]
      BY <1>3, <1>4, <2>4
    <3> QED
      BY <1>b, <3>1
  <2>5. (j <= a \/ j > a) /\ (k <= a \/ k > a)
    BY <1>3
  <2> QED
    BY <2>1, <2>2, <2>3, <2>4, <2>5
<1>5. ASSUME NEW x \in A \cup B
      PROVE  \E k \in 1..a+b : c[k] = x
  <2>1. CASE x \in A
    <3>1. PICK k \in 1..a : p[k] = x
      BY <1>1, <2>1 DEF a
    <3>2. k \in 1..a+b /\ k <= a
      BY <1>3
    <3> QED
      BY <1>3, <3>1, <3>2
  <2>2. CASE x \in B
    <3>1. PICK k \in 1..b : r[k] = x
      BY <1>2, <2>2 DEF b
    <3>2. a + k \in 1..a+b /\ ~(a + k <= a) /\ (a + k) - a = k
      BY <1>3
    <3>3. c[a + k] = x
      BY <1>3, <3>1, <3>2
    <3> QED
      BY <3>2, <3>3
  <2> QED
    BY <2>1, <2>2
<1>6. t \o u = [k \in 1..a+b |-> s[c[k]]]
  <2>1. t \in Seq(S) /\ Len(t) = a /\ \A k \in 1..a : t[k] = s[p[k]]
    <3>1. t = [k \in 1..a |-> s[p[k]]]
      BY <1>1 DEF a
    <3>2. \A k \in 1..a : p[k] \in 1..Len(s)
      BY <1>b
    <3>3. \A k \in 1..a : s[p[k]] \in S
      BY <3>2
    <3>4. t \in [1..a -> S] /\ \A k \in 1..a : t[k] = s[p[k]]
      BY <3>1, <3>3
    <3> QED
      BY <1>3, <3>4, FunctionSeq
  <2>2. u \in Seq(S) /\ Len(u) = b /\ \A k \in 1..b : u[k] = s[r[k]]
    <3>1. u = [k \in 1..b |-> s[r[k]]]
      BY <1>2 DEF b
    <3>2. \A k \in 1..b : r[k] \in 1..Len(s)
      BY <1>b
    <3>3. \A k \in 1..b : s[r[k]] \in S
      BY <3>2
    <3>4. u \in [1..b -> S] /\ \A k \in 1..b : u[k] = s[r[k]]
      BY <3>1, <3>3
    <3> QED
      BY <1>3, <3>4, FunctionSeq
  <2> DEFINE w == t \o u
  <2>3. /\ w \in Seq(S) /\ Len(w) = a + b
        /\ \A k \in 1..a+b : w[k] = IF k <= a THEN t[k] ELSE u[k-a]
    BY <2>1, <2>2, ConcatLens
  <2> HIDE DEF w
  <2>4. ASSUME NEW k \in 1..a+b
        PROVE  w[k] = s[c[k]]
    <3>1. CASE k <= a
      <4>1. k \in 1..a /\ c[k] = p[k] /\ w[k] = t[k]
        BY <1>3, <2>3, <3>1
      <4> QED
        BY <2>1, <4>1
    <3>2. CASE ~(k <= a)
      <4>1. k - a \in 1..b /\ c[k] = r[k-a] /\ w[k] = u[k-a]
        BY <1>3, <2>3, <3>2
      <4> QED
        BY <2>2, <4>1
    <3> QED
      BY <3>1, <3>2
  <2>5. w = [k \in 1..a+b |-> w[k]]
    BY <2>3
  <2>6. w = [k \in 1..a+b |-> s[c[k]]]
    BY <2>4, <2>5
  <2> QED
    BY <2>6 DEF w
<1>7. /\ \A j, k \in 1..Len(c) : c[j] = c[k] => j = k
      /\ \A x \in A \cup B : \E k \in 1..Len(c) : c[k] = x
      /\ t \o u = [k \in 1..Len(c) |-> s[c[k]]]
  <2>1. Len(c) = a + b
    BY <1>3
  <2> QED
    BY <2>1, <1>4, <1>5, <1>6, Zenon
<1>8. c \in Seq(A \cup B)
  BY <1>3
<1> QED
  BY <1>7, <1>8, Zenon DEF Picks

LEMMA FlattenPicks ==
    ASSUME NEW S, NEW s \in Seq(S), NEW n \in Nat \ {0}, NEW q \in [1..n -> Seq(S)],
           NEW A \in [1..n -> SUBSET (1..Len(s))],
           \A i \in 1..n : Picks(q[i], s, A[i]),
           \A i, j \in 1..n : i # j => A[i] \cap A[j] = {},
           NEW W, W = UNION {A[i] : i \in 1..n}
    PROVE  Picks(FlattenSeq(q), s, W)
<1>1. PICK f \in [1..n -> Seq(S)] : Flattens(f, q, n) /\ FlattenSeq(q) = f[n]
  BY FlattenFacts
<1>2. f[1] = q[1] /\ \A i \in 2..n : f[i] = f[i-1] \o q[i]
  <2>1. n >= 1
    OBVIOUS
  <2> QED
    BY <1>1, <2>1 DEF Flattens
<1> DEFINE U(m) == UNION {A[i] : i \in 1..m}
           T == {m \in Nat : m + 1 <= n => Picks(f[m+1], s, U(m + 1))}
<1>3. 0 \in T
  <2>1. U(1) = A[1]
    OBVIOUS
  <2> HIDE DEF U
  <2>2. Picks(f[1], s, U(1))
    <3>1. Picks(q[1], s, A[1])
      OBVIOUS
    <3> QED
      BY <1>2, <2>1, <3>1
  <2> QED
    BY <2>2
<1>4. ASSUME NEW m \in Nat, m \in T
      PROVE  m + 1 \in T
  <2> SUFFICES ASSUME (m + 1) + 1 <= n
               PROVE  Picks(f[(m + 1) + 1], s, U((m + 1) + 1))
    OBVIOUS
  <2> DEFINE k == (m + 1) + 1
  <2>1. /\ k \in 2..n /\ k - 1 = m + 1 /\ m + 1 <= n /\ k \in 1..n
        /\ \A i \in 1..m+1 : i \in 1..n /\ i # k
        /\ \A i \in 1..k : i \in 1..m+1 \/ i = k
        /\ \A i \in 1..m+1 : i \in 1..k
    OBVIOUS
  <2>2. Picks(f[m+1], s, U(m + 1))
    BY <1>4, <2>1
  <2> HIDE DEF k, T
  <2>3. f[k] = f[m+1] \o q[k]
    BY <1>2, <2>1
  <2>4. U(m + 1) \subseteq 1..Len(s) /\ A[k] \subseteq 1..Len(s) /\ U(m + 1) \cap A[k] = {}
    <3>1. \A i \in 1..m+1 : A[i] \subseteq 1..Len(s) /\ A[i] \cap A[k] = {}
      BY <2>1
    <3> QED
      BY <2>1, <3>1
  <2>5. U(k) = U(m + 1) \cup A[k]
    <3>1. \A i \in 1..k : A[i] \subseteq U(m + 1) \cup A[k]
      BY <2>1
    <3>2. U(m + 1) \subseteq U(k) /\ A[k] \subseteq U(k)
      <4>1. \A i \in 1..k : A[i] \subseteq U(k)
        OBVIOUS
      <4>2. k \in 1..k /\ \A i \in 1..m+1 : i \in 1..k
        BY <2>1
      <4>3. \A x \in U(m + 1) : \E i \in 1..m+1 : x \in A[i]
        OBVIOUS
      <4> HIDE DEF U
      <4> QED
        BY <4>1, <4>2, <4>3
    <3>3. \A x \in U(k) : \E i \in 1..k : x \in A[i]
      OBVIOUS
    <3> HIDE DEF U
    <3> QED
      BY <3>1, <3>2, <3>3, Zenon
  <2> HIDE DEF U
  <2>6. Picks(f[m+1] \o q[k], s, U(m + 1) \cup A[k])
    BY <2>1, <2>2, <2>4, PicksConcat
  <2> QED
    BY <2>3, <2>5, <2>6 DEF k
<1> HIDE DEF T
<1>5. Nat \subseteq T
  BY <1>3, <1>4, Ascends
<1>6. n - 1 \in T /\ (n - 1) + 1 = n /\ n <= n
  BY <1>5
<1>7. Picks(f[n], s, U(n))
  BY <1>6 DEF T
<1> QED
  BY <1>1, <1>7

-----------------------------------------------------------------------------
(* Rows and columns *)

LEMMA Product ==
    ASSUME NEW a \in Nat, NEW b \in Nat, NEW r \in Nat
    PROVE  a * r \in Nat /\ (a <= b => a * r <= b * r) /\ (a < b => a * r + r <= b * r)
<1>1. \A x, y \in Nat : x * y \in Nat
  OBVIOUS
<1>2. CASE a < b
  <2>1. b - a - 1 \in Nat
    BY <1>2
  <2>2. (b - a - 1) * r \in Nat
    BY <1>1, <2>1
  <2>3. (b - a - 1) * r = b * r - a * r - r
    OBVIOUS
  <2> QED
    BY <1>1, <2>2, <2>3
<1>3. CASE ~(a < b)
  <2>1. a <= b => a = b
    BY <1>3
  <2> QED
    BY <1>1, <1>3, <2>1
<1> QED
  BY <1>2, <1>3

LEMMA Quotient ==
    ASSUME NEW a \in Nat, NEW b \in Nat \ {0}
    PROVE  a \div b \in Nat /\ a % b \in 0..b-1 /\ a = (a \div b) * b + (a % b)
OBVIOUS

LEMMA RowsSuffice ==
    ASSUME NEW n \in Nat, NEW cols \in Nat \ {0}
    PROVE  /\ NumRows(n, cols) \in Nat /\ n <= cols * NumRows(n, cols)
           /\ n # 0 => NumRows(n, cols) >= 1
<1> DEFINE q == (n + cols - 1) \div cols
           e == (n + cols - 1) % cols
<1>1. n + cols - 1 \in Nat
  OBVIOUS
<1>2. q \in Nat /\ e \in 0..cols-1 /\ n + cols - 1 = q * cols + e
  BY <1>1, Quotient
<1> HIDE DEF q, e
<1>3. q * cols = cols * q /\ q * cols \in Nat
  BY <1>2
<1>4. n <= cols * q
  BY <1>2, <1>3
<1>5. q = 0 => q * cols = 0
  OBVIOUS
<1> QED
  BY <1>2, <1>3, <1>4, <1>5 DEF q, NumRows

\* A number has one place among rows of r.
LEMMA OnePlace ==
    ASSUME NEW r \in Nat \ {0}, NEW a \in Nat, NEW b \in Nat, NEW i \in 1..r, NEW j \in 1..r,
           a * r + i = b * r + j
    PROVE  a = b /\ i = j
<1>1. a * r \in Nat /\ b * r \in Nat
  BY Product
<1>2. ~(a < b)
  <2> SUFFICES ASSUME a < b PROVE FALSE
    OBVIOUS
  <2>1. a * r + r <= b * r
    BY Product
  <2> QED
    BY <1>1, <2>1
<1>3. ~(b < a)
  <2> SUFFICES ASSUME b < a PROVE FALSE
    OBVIOUS
  <2>1. b * r + r <= a * r
    BY Product
  <2> QED
    BY <1>1, <2>1
<1>4. a = b
  BY <1>2, <1>3
<1> QED
  BY <1>1, <1>4

LEMMA LeastNat ==
    ASSUME NEW S, S \subseteq Nat, S # {}
    PROVE  \E x \in S : \A y \in S : x <= y
<1>1. \E x \in S : \A y \in S : ~(<<y, x>> \in OpToRel(<, Nat))
  BY NatLessThanWellFounded, WFMin
<1>2. \A x, y \in Nat : y < x => <<y, x>> \in OpToRel(<, Nat)
  BY DEF OpToRel
<1>3. PICK x \in S : \A y \in S : ~(y < x)
  BY <1>1, <1>2, Zenon
<1> QED
  BY <1>3

\* A row is filled from the left.
LEMMA Prefix ==
    ASSUME NEW c \in Nat, NEW D \in SUBSET (0..c-1), \A x \in D : \A y \in Nat : y < x => y \in D
    PROVE  Cardinality(D) \in Nat /\ D = 0..Cardinality(D)-1
<1>1. Nat \ D \subseteq Nat /\ Nat \ D # {}
  <2>1. c \in Nat \ D
    OBVIOUS
  <2> QED
    BY <2>1
<1>2. PICK m \in Nat \ D : \A y \in Nat \ D : m <= y
  BY <1>1, LeastNat
<1>3. ASSUME NEW y \in Nat
      PROVE  y \in D <=> y < m
  <2>1. y < m => y \in D
    BY <1>2
  <2>2. ~(y < m) => y = m \/ m < y
    BY <1>2
  <2> QED
    BY <1>2, <2>1, <2>2
<1>4. D = 0..m-1
  <2>1. \A y \in D : y \in Nat
    OBVIOUS
  <2>2. \A y : y \in 0..m-1 <=> y \in Nat /\ y < m
    BY <1>2
  <2>3. \A y : y \in D <=> y \in 0..m-1
    BY <1>3, <2>1, <2>2
  <2> QED
    BY <2>3
<1>5. Cardinality(0..m-1) = m
  <2>1. 0 \in Int /\ m - 1 \in Int
    BY <1>2
  <2> DEFINE k == m - 1
  <2>2. Cardinality(0..k) = IF 0 > k THEN 0 ELSE k - 0 + 1
    <3> HIDE DEF k
    <3> QED
      BY <2>1, FS_Interval DEF k
  <2> QED
    BY <1>2, <2>2
<1> QED
  BY <1>2, <1>4, <1>5

\* The places of a row: every rows-th index, from 1.
Places(row, rows, n) == {j \in 1..n : \E c \in Nat : j = c * rows + row}

LEMMA OneRow ==
    ASSUME NEW S, NEW s \in Seq(S), NEW cols \in Nat \ {0}, NEW n \in Nat, n = Len(s),
           NEW rows \in Nat, rows = NumRows(n, cols), NEW r \in 1..rows,
           NEW t, t = [c \in 1..Cardinality(InRow(r - 1, n, cols)) |-> s[Index(r - 1, c - 1, rows) + 1]]
    PROVE  t \in Seq(S) /\ Picks(t, s, Places(r, rows, n))
<1> DEFINE D == InRow(r - 1, n, cols)
           m == Cardinality(D)
           P == [c \in 1..m |-> (c - 1) * rows + r]
<1>1. D = {c \in 0..cols-1 : c * rows + (r - 1) < n}
  BY DEF InRow, Index
<1> HIDE DEF D
<1>2. \A c \in D : \A y \in Nat : y < c => y \in D
  <2> SUFFICES ASSUME NEW c \in D, NEW y \in Nat, y < c
               PROVE  y \in D
    OBVIOUS
  <2>1. c \in Nat /\ c <= cols - 1 /\ c * rows + (r - 1) < n
    BY <1>1
  <2>2. y * rows <= c * rows /\ y * rows \in Nat /\ c * rows \in Nat
    BY <2>1, Product
  <2>3. y * rows + (r - 1) < n
    <3> DEFINE u == y * rows
               v == c * rows
    <3>1. u \in Nat /\ v \in Nat /\ u <= v /\ v + (r - 1) < n /\ r \in Nat
      BY <2>1, <2>2
    <3> HIDE DEF u, v
    <3>2. u + (r - 1) < n
      BY <3>1
    <3> QED
      BY <3>2 DEF u
  <2>4. y \in 0..cols-1
    BY <2>1
  <2> QED
    BY <1>1, <2>3, <2>4
<1>3. m \in Nat /\ D = 0..m-1
  <2>1. D \in SUBSET (0..cols-1) /\ cols \in Nat
    BY <1>1
  <2> QED
    BY <1>2, <2>1, Prefix
<1> HIDE DEF m
<1>4. ASSUME NEW c \in 1..m
      PROVE  /\ c - 1 \in Nat /\ (c - 1) * rows \in Nat
             /\ (c - 1) * rows + r \in 1..n
  <2>1. c - 1 \in D /\ c - 1 \in Nat
    BY <1>3
  <2>2. (c - 1) * rows + (r - 1) < n
    BY <1>1, <2>1
  <2> DEFINE x == (c - 1) * rows
  <2>3. x \in Nat
    BY <2>1, Product
  <2> HIDE DEF x
  <2>4. x + (r - 1) < n
    BY <2>2 DEF x
  <2>5. x + r \in 1..n
    BY <2>3, <2>4
  <2> QED
    BY <2>1, <2>3, <2>5 DEF x
<1>5. ASSUME NEW c \in 1..m
      PROVE  P[c] = (c - 1) * rows + r /\ P[c] \in Places(r, rows, n)
  <2>1. P[c] = (c - 1) * rows + r
    OBVIOUS
  <2>2. c - 1 \in Nat /\ (c - 1) * rows + r \in 1..n
    BY <1>4
  <2> QED
    BY <2>1, <2>2 DEF Places
<1>6. P \in Seq(Places(r, rows, n)) /\ Len(P) = m
  <2>1. P \in [1..m -> Places(r, rows, n)]
    BY <1>5
  <2> HIDE DEF P
  <2> QED
    BY <1>3, <2>1
<1> HIDE DEF P
<1>7. ASSUME NEW j \in 1..m, NEW k \in 1..m, P[j] = P[k]
      PROVE  j = k
  <2>1. j - 1 \in Nat /\ k - 1 \in Nat
    BY <1>4
  <2>2. (j - 1) * rows + r = (k - 1) * rows + r /\ rows \in Nat \ {0}
    BY <1>5, <1>7
  <2>3. j - 1 = k - 1
    <3> DEFINE u == j - 1
               v == k - 1
    <3>1. u \in Nat /\ v \in Nat /\ u * rows + r = v * rows + r
      BY <2>1, <2>2
    <3> HIDE DEF u, v
    <3>2. rows \in Nat \ {0} /\ r \in 1..rows /\ rows >= 1
      BY <2>2
    <3>3. u = v
      <4>1. u * rows \in Nat /\ v * rows \in Nat
        BY <3>1, <3>2, Product
      <4> DEFINE x == u * rows
                 y == v * rows
      <4>a. x \in Nat /\ y \in Nat /\ x + r = y + r
        BY <3>1, <4>1
      <4>b. (u < v => x + rows <= y) /\ (v < u => y + rows <= x)
        BY <3>1, <3>2, Product
      <4> HIDE DEF x, y
      <4>2. x = y
        BY <3>2, <4>a
      <4>4. ~(u < v) /\ ~(v < u)
        BY <3>2, <4>2, <4>a, <4>b
      <4> QED
        BY <3>1, <4>4
    <3> QED
      BY <3>3 DEF u, v
  <2> QED
    BY <1>3, <2>3
<1>8. ASSUME NEW x \in Places(r, rows, n)
      PROVE  \E k \in 1..m : P[k] = x
  <2>1. PICK c \in Nat : x = c * rows + r
    BY DEF Places
  <2>2. x \in 1..n /\ c * rows \in Nat
    BY Product DEF Places
  <2>3. c < cols
    <3> SUFFICES ASSUME cols <= c
                 PROVE  FALSE
      OBVIOUS
    <3>1. cols * rows <= c * rows /\ cols * rows \in Nat
      BY Product
    <3>2. n <= cols * rows
      BY RowsSuffice
    <3> QED
      BY <2>1, <2>2, <3>1, <3>2
  <2>4. c \in D
    <3>1. c \in 0..cols-1
      BY <2>3
    <3>2. c * rows + (r - 1) < n
      BY <2>1, <2>2
    <3> QED
      BY <1>1, <3>1, <3>2
  <2>5. c + 1 \in 1..m /\ (c + 1) - 1 = c
    BY <1>3, <2>4
  <2>6. P[c + 1] = x
    BY <1>5, <2>1, <2>5
  <2> QED
    BY <2>5, <2>6
<1>9. ASSUME NEW c \in 1..m
      PROVE  s[Index(r - 1, c - 1, rows) + 1] = s[P[c]] /\ s[P[c]] \in S
  <2>1. Index(r - 1, c - 1, rows) + 1 = (c - 1) * rows + r
    BY <1>4 DEF Index
  <2>2. P[c] \in 1..n
    BY <1>4, <1>5
  <2> QED
    BY <1>5, <2>1, <2>2
<1>10. t = [c \in 1..m |-> s[Index(r - 1, c - 1, rows) + 1]]
  BY DEF m, D
<1>11. t = [c \in 1..m |-> s[P[c]]]
  BY <1>9, <1>10
<1>12. t \in Seq(S)
  <2>1. \A c \in 1..m : s[P[c]] \in S
    BY <1>9
  <2>2. t \in [1..m -> S]
    BY <1>11, <2>1
  <2> QED
    BY <1>3, <2>2, FunctionSeq
<1>13. /\ \A j, k \in 1..Len(P) : P[j] = P[k] => j = k
       /\ \A x \in Places(r, rows, n) : \E k \in 1..Len(P) : P[k] = x
       /\ t = [k \in 1..Len(P) |-> s[P[k]]]
  BY <1>6, <1>7, <1>8, <1>11
<1> QED
  BY <1>6, <1>12, <1>13 DEF Picks

\* However wide the terminal, print_output shows each entry in one place.
LEMMA ColumnsPick ==
    ASSUME NEW S, NEW s \in Seq(S), NEW cols \in Nat \ {0}
    PROVE  Picks(FlattenSeq(InColumns(s, cols)), s, 1..Len(s))
<1> DEFINE n == Len(s)
           rows == NumRows(n, cols)
           q == InColumns(s, cols)
           A == [r \in 1..rows |-> Places(r, rows, n)]
<1>1. n \in Nat
  OBVIOUS
<1>2. q = [r \in 1..rows |->
             [c \in 1..Cardinality(InRow(r - 1, n, cols)) |-> s[Index(r - 1, c - 1, rows) + 1]]]
  BY DEF InColumns
<1>3. rows \in Nat /\ (n # 0 => rows # 0) /\ n <= cols * rows
  <2> HIDE DEF n
  <2>1. /\ NumRows(n, cols) \in Nat /\ n <= cols * NumRows(n, cols)
        /\ n # 0 => NumRows(n, cols) >= 1
    BY <1>1, RowsSuffice
  <2> QED
    BY <2>1
<1> SUFFICES Picks(FlattenSeq(q), s, 1..n)
  OBVIOUS
<1> HIDE DEF rows, q
<1>4. ASSUME NEW r \in 1..rows
      PROVE  q[r] \in Seq(S) /\ Picks(q[r], s, Places(r, rows, n))
  <2>1. q[r] = [c \in 1..Cardinality(InRow(r - 1, n, cols)) |-> s[Index(r - 1, c - 1, rows) + 1]]
    BY <1>2
  <2> QED
    BY <1>1, <1>3, <2>1, OneRow DEF rows
<1>5. q \in [1..rows -> Seq(S)]
  BY <1>2, <1>4
<1>6. CASE rows = 0
  <2>1. n = 0
    BY <1>3, <1>6
  <2>2. Len(q) = 0 /\ q = <<>>
    BY <1>5, <1>6
  <2>3. FlattenSeq(q) = <<>>
    BY <2>2 DEF FlattenSeq
  <2>4. <<>> \in Seq(1..n) /\ Len(<<>>) = 0
    OBVIOUS
  <2>5. <<>> = [k \in 1..Len(<<>>) |-> s[<<>>[k]]]
    OBVIOUS
  <2>6. Picks(<<>>, s, 1..n)
    <3> DEFINE P == <<>>
    <3>1. \A j, k \in 1..Len(P) : P[j] = P[k] => j = k
      OBVIOUS
    <3>2. \A x \in 1..n : \E k \in 1..Len(P) : P[k] = x
      BY <2>1
    <3> QED
      BY <2>4, <2>5, <3>1, <3>2 DEF Picks
  <2> QED
    BY <2>3, <2>6
<1>7. CASE rows # 0
  <2>1. A \in [1..rows -> SUBSET (1..n)] /\ \A r \in 1..rows : A[r] = Places(r, rows, n)
    BY DEF Places
  <2> HIDE DEF A
  <2>2. ASSUME NEW i \in 1..rows, NEW j \in 1..rows, i # j
        PROVE  A[i] \cap A[j] = {}
    <3> SUFFICES ASSUME NEW x \in A[i], x \in A[j]
                 PROVE  FALSE
      OBVIOUS
    <3>1. PICK a \in Nat : x = a * rows + i
      BY <2>1 DEF Places
    <3>2. PICK b \in Nat : x = b * rows + j
      BY <2>1 DEF Places
    <3>3. rows \in Nat \ {0}
      BY <1>3, <1>7
    <3>4. a * rows + i = b * rows + j
      BY <3>1, <3>2
    <3> QED
      BY <2>2, <3>3, <3>4, OnePlace
  <2>3. UNION {A[i] : i \in 1..rows} = 1..n
    <3>1. \A i \in 1..rows : A[i] \subseteq 1..n
      BY <2>1
    <3>2. ASSUME NEW x \in 1..n
          PROVE  \E i \in 1..rows : x \in A[i]
      <4> DEFINE a == (x - 1) \div rows
                 e == (x - 1) % rows
      <4>1. x - 1 \in Nat /\ rows \in Nat \ {0}
        BY <1>3, <1>7
      <4>2. a \in Nat /\ e \in 0..rows-1 /\ x - 1 = a * rows + e
        BY <4>1, Quotient
      <4> HIDE DEF a, e
      <4>3. a * rows \in Nat
        BY <4>1, <4>2, Product
      <4>4. e + 1 \in 1..rows /\ x = a * rows + (e + 1)
        BY <4>1, <4>2, <4>3
      <4>5. x \in Places(e + 1, rows, n)
        BY <4>2, <4>4 DEF Places
      <4> QED
        BY <2>1, <4>4, <4>5
    <3> QED
      BY <3>1, <3>2
  <2>4. \A i \in 1..rows : Picks(q[i], s, A[i])
    BY <1>4, <2>1
  <2>5. rows \in Nat \ {0}
    BY <1>3, <1>7
  <2> DEFINE W == UNION {A[i] : i \in 1..rows}
  <2>6. Picks(FlattenSeq(q), s, W)
    <3>1. A \in [1..rows -> SUBSET (1..Len(s))]
      BY <2>1
    <3>2. \A i, j \in 1..rows : i # j => A[i] \cap A[j] = {}
      BY <2>2
    <3> HIDE DEF W
    <3>3. W = UNION {A[i] : i \in 1..rows}
      BY DEF W
    <3> QED
      BY <1>5, <2>4, <2>5, <3>1, <3>2, <3>3, FlattenPicks
  <2> HIDE DEF W
  <2>7. W = 1..n
    BY <2>3 DEF W
  <2> QED
    BY <2>6, <2>7
<1> QED
  BY <1>6, <1>7 DEF q

-----------------------------------------------------------------------------
(* What has been gathered, and what is printed *)

Shown == {n \in Names : Shows(n)}

\* No name twice.
DistinctInv ==
    \A i, j \in 1..Len(files) : files[i].name = files[j].name => i = j

\* What is counted, in hand, or still to be read and not skipped.
Gathered == NamesOf(files) \cup
            (IF pc \in Reading THEN dir \cap Shown ELSE {}) \cup
            (IF pc \in {"lstat", "link"} THEN {entry} ELSE {})

\* What nobody touched is gathered if and only if it is to be shown and lstat
\* has not failed.
GatherInv ==
    pc \in Reading \/ ("d" \notin flags /\ pc \in {"sort", "print", "free"}) =>
        /\ Gathered \subseteq Shown
        /\ \A n \in Names \ changed :
             n \in Gathered <=> n \in present[Path] /\ Shows(n) /\ n \notin refused

OutInv ==
    pc = "free" =>
        \E width \in 0..MaxWidth : out = [lines |-> Lines(width), time |-> TimeShown]

\* By time, newest first.
OrderInv ==
    pc \in {"print", "free"} /\ {"l", "t"} \subseteq flags /\ "f" \notin flags /\ Near =>
        \A j, k \in 1..Len(files) : j < k => files[j].st[Timed] >= files[k].st[Timed]

SeenInv == DistinctInv /\ GatherInv /\ OutInv /\ OrderInv

LEMMA SeenInit == Init => SeenInv
<1> SUFFICES ASSUME Init PROVE SeenInv
  OBVIOUS
<1>1. files = <<>> /\ pc = "parse" /\ Len(<<>>) = 0
  BY DEF Init
<1> QED
  BY <1>1 DEF SeenInv, DistinctInv, GatherInv, OutInv, OrderInv, Reading

\* The array is indexed by its names.
LEMMA NamesAt ==
    ASSUME NEW fs \in Seq(File)
    PROVE  /\ Len(fs) \in Nat
           /\ \A i \in 1..Len(fs) : fs[i] \in File /\ fs[i].name \in NamesOf(fs)
           /\ \A n \in NamesOf(fs) : \E i \in 1..Len(fs) : fs[i].name = n
BY LenProperties DEF NamesOf, Range

LEMMA RangeAt ==
    ASSUME NEW fs \in Seq(File), NEW gs \in Seq(File), Range(gs) = Range(fs),
           NEW i \in 1..Len(gs)
    PROVE  \E k \in 1..Len(fs) : fs[k] = gs[i]
<1>1. DOMAIN fs = 1..Len(fs) /\ DOMAIN gs = 1..Len(gs)
  BY LenProperties
<1>2. gs[i] \in Range(gs)
  BY <1>1 DEF Range
<1> QED
  BY <1>1, <1>2 DEF Range

LEMMA DistinctStep ==
    ASSUME ListInv, DistinctInv, ReadInv, Next
    PROVE  DistinctInv'
<1>1. files \in Seq(File)
  BY DEF ListInv, TypeOK
<1>2. CASE UNCHANGED files
  BY <1>2 DEF DistinctInv
<1>3. CASE files' = <<>>
  <2>1. Len(files') = 0
    BY <1>3
  <2> QED
    BY <2>1 DEF DistinctInv
<1>4. CASE /\ pc \in {"lstat", "link"}
           /\ files' = Append(files, [name |-> entry, st |-> stat[entry]])
  <2> DEFINE f == [name |-> entry, st |-> stat[entry]]
  <2>1. f \in File /\ f.name = entry
    BY PathFacts DEF File, ListInv, TypeOK, Named
  <2>2. entry \notin NamesOf(files)
    BY <1>4 DEF ReadInv, Reading
  <2> HIDE DEF f
  <2>3. /\ Len(files) \in Nat /\ Len(files') = Len(files) + 1
        /\ \A i \in 1..Len(files) : files'[i] = files[i]
        /\ files'[Len(files) + 1] = f
    BY <1>1, <1>4, <2>1, AppendProperties, LenProperties DEF f
  <2>4. \A i \in 1..Len(files) : files[i].name # entry
    BY <1>1, <2>2, NamesAt
  <2>5. \A i \in 1..Len(files') : i \in 1..Len(files) \/ i = Len(files) + 1
    BY <2>3
  <2>6. ASSUME NEW i \in 1..Len(files'), NEW j \in 1..Len(files'),
               files'[i].name = files'[j].name
        PROVE  i = j
    <3>1. CASE i \in 1..Len(files) /\ j \in 1..Len(files)
      BY <2>3, <2>6, <3>1 DEF DistinctInv
    <3>2. CASE i \in 1..Len(files) /\ j = Len(files) + 1
      BY <2>1, <2>3, <2>4, <2>6, <3>2
    <3>3. CASE i = Len(files) + 1 /\ j \in 1..Len(files)
      BY <2>1, <2>3, <2>4, <2>6, <3>3
    <3> QED
      BY <2>5, <3>1, <3>2, <3>3
  <2> QED
    BY <2>6 DEF DistinctInv
<1>5. CASE ListItself
  <2> DEFINE f == [name |-> Path, st |-> [stat[Path] EXCEPT !.link = FALSE]]
  <2>1. files' = <<f>>
    BY <1>5 DEF ListItself
  <2> HIDE DEF f
  <2>2. Len(files') = 1
    BY <2>1
  <2> QED
    BY <2>2 DEF DistinctInv
<1>6. CASE files' \in Sorted(SortKey, files)
  <2>1. /\ files' \in Seq(File) /\ Range(files') = Range(files)
        /\ \A i, j \in 1..Len(files') : files'[i] = files'[j] => i = j
    BY <1>1, <1>6, SortedFacts
  <2>3. ASSUME NEW i \in 1..Len(files'), NEW j \in 1..Len(files'),
               files'[i].name = files'[j].name
        PROVE  i = j
    <3>1. PICK k \in 1..Len(files) : files[k] = files'[i]
      BY <1>1, <2>1, RangeAt
    <3>2. PICK l \in 1..Len(files) : files[l] = files'[j]
      BY <1>1, <2>1, RangeAt
    <3>3. k = l
      BY <2>3, <3>1, <3>2 DEF DistinctInv
    <3> QED
      BY <2>1, <3>1, <3>2, <3>3
  <2> QED
    BY <2>3 DEF DistinctInv
<1>7. \/ UNCHANGED files \/ files' = <<>> \/ ListItself \/ files' \in Sorted(SortKey, files)
      \/ /\ pc \in {"lstat", "link"}
         /\ files' = Append(files, [name |-> entry, st |-> stat[entry]])
  BY DEF Next, Main, Others, Unlink, Create, Parse, ParseInput, ParseFails, Process, OpenFails,
         OpenDir, SkipHidden, ReadEntry, ReadFails, Lstat, ReadLink, LinkFails, EndOfDir,
         ListItselfFails, Sort, PrintOutput, FreeFirst, FreeLater, SkipEmpty, Failed, NextPath
<1> QED
  BY <1>2, <1>3, <1>4, <1>5, <1>6, <1>7
LEMMA GatherOthers ==
    ASSUME ListInv, GatherInv, Others
    PROVE  GatherInv'
<1>1. /\ pc \in Reading
      /\ UNCHANGED <<stat, refused, flags, argv, arg, pc, opened, files, capacity, entry>>
  BY DEF Others, Unlink, Create, Reading
<1>2. PICK n \in Names \ changed :
         /\ changed' = changed \cup {n}
         /\ \A m \in Names \ {n} : m \in present'[Path] <=> m \in present[Path]
         /\ \A m \in Names \ {n} : m \in dir' <=> m \in dir
         /\ dir' \subseteq Names
  <2>1. PICK n \in Names \ changed :
          /\ changed' = changed \cup {n}
          /\ \/ present' = [present EXCEPT ![Path] = @ \ {n}] /\ UNCHANGED dir
             \/ /\ present' = [present EXCEPT ![Path] = @ \cup {n}]
                /\ dir' \in {dir, dir \cup {n}}
    BY PathFacts DEF ListInv, Others, Unlink, Create
  <2>2. Path \in Dirs /\ present \in [Dirs -> SUBSET Names] /\ dir \subseteq Names
    BY PathFacts DEF ListInv, TypeOK
  <2> QED
    BY <2>1, <2>2
<1>3. Shown' = Shown /\ Path' = Path /\ \A m : Shows(m)' <=> Shows(m)
  BY <1>1 DEF Shown, Shows, Path
<1>4. /\ Gathered \subseteq Shown
      /\ \A m \in Names \ changed :
           m \in Gathered <=> m \in present[Path] /\ Shows(m) /\ m \notin refused
  BY <1>1 DEF GatherInv
<1>5. NamesOf(files) \cup (IF pc \in {"lstat", "link"} THEN {entry} ELSE {}) \subseteq Shown
  BY <1>4 DEF Gathered
<1>6. Gathered' \subseteq Shown'
  BY <1>1, <1>3, <1>5 DEF Gathered
<1>7. \A m \in Names \ {n} : m \in Gathered' <=> m \in Gathered
  BY <1>1, <1>2, <1>3 DEF Gathered
<1>8. \A m \in Names \ changed' :
        m \in Gathered' <=> m \in present'[Path'] /\ Shows(m)' /\ m \notin refused'
  BY <1>1, <1>2, <1>3, <1>4, <1>7
<1> QED
  BY <1>6, <1>8 DEF GatherInv

\* Steps of the program itself leave present as it is, and flags.
LEMMA GatherKept ==
    ASSUME GatherInv, pc \in Reading \/ ("d" \notin flags /\ pc \in {"sort", "print", "free"}),
           UNCHANGED <<env, flags, argv, arg>>, Gathered' \subseteq Gathered,
           \A n \in Gathered \ changed : n \in Gathered'
    PROVE  GatherInv'
<1>1. Shown' = Shown /\ Path' = Path /\ present' = present /\ changed' = changed
      /\ refused' = refused /\ \A m : Shows(m)' <=> Shows(m)
  BY DEF Shown, Shows, Path, env
<1>2. /\ Gathered \subseteq Shown
      /\ \A m \in Names \ changed :
           m \in Gathered <=> m \in present[Path] /\ Shows(m) /\ m \notin refused
  BY DEF GatherInv
<1>3. Gathered' \subseteq Shown'
  BY <1>1, <1>2
<1>4. \A m \in Names \ changed' :
        m \in Gathered' <=> m \in present'[Path'] /\ Shows(m)' /\ m \notin refused'
  BY <1>1, <1>2
<1> QED
  BY <1>3, <1>4 DEF GatherInv

LEMMA GatherStep ==
    ASSUME ListInv, GatherInv, Next
    PROVE  GatherInv'
<1>1. files \in Seq(File)
  BY DEF ListInv, TypeOK
<1>2. CASE Others
  BY <1>2, GatherOthers
<1>3. CASE OpenDir
  <2>1. /\ files' = <<>> /\ pc' = "read" /\ changed' = {} /\ refused' = {}
        /\ dir' = present[Path] /\ UNCHANGED <<present, flags, argv, arg>>
    BY <1>3 DEF OpenDir
  <2>2. NamesOf(files') = {}
    BY <2>1, BlocksEmpty
  <2>3. Path' = Path /\ Shown' = Shown /\ \A m : Shows(m)' <=> Shows(m)
    BY <2>1 DEF Path, Shown, Shows
  <2>4. Gathered' = present[Path] \cap Shown
    BY <2>1, <2>2, <2>3 DEF Gathered, Reading
  <2>5. \A m \in Names : m \in Shown <=> Shows(m)
    BY DEF Shown
  <2>6. Gathered' \subseteq Shown'
    BY <2>3, <2>4
  <2>7. \A m \in Names \ changed' :
        m \in Gathered' <=> m \in present'[Path'] /\ Shows(m)' /\ m \notin refused'
    BY <2>1, <2>3, <2>4, <2>5
  <2> QED
    BY <2>6, <2>7 DEF GatherInv
<1>4. CASE SkipHidden
  <2>1. PICK n \in dir : ~Shows(n) /\ dir' = dir \ {n}
    BY <1>4 DEF SkipHidden
  <2>2. /\ pc = "read"
        /\ UNCHANGED <<env, flags, argv, arg, pc, files, entry>>
    BY <1>4 DEF SkipHidden
  <2>3. Shown' = Shown /\ n \notin Shown
    BY <2>1, <2>2 DEF Shown, Shows
  <2>4. Gathered' = Gathered
    BY <2>1, <2>2, <2>3 DEF Gathered
  <2> QED
    BY <2>2, <2>4, GatherKept DEF Reading
<1>5. CASE ReadEntry
  <2>1. PICK n \in dir : Shows(n) /\ entry' = n /\ dir' = dir \ {n}
    BY <1>5 DEF ReadEntry
  <2>2. /\ pc = "read" /\ pc' = "lstat"
        /\ UNCHANGED <<env, flags, argv, arg, files>>
    BY <1>5 DEF ReadEntry
  <2>3. Shown' = Shown /\ n \in Shown
    BY <2>1, <2>2 DEF Shown, Shows, ListInv, TypeOK
  <2>4. Gathered' = Gathered
    BY <2>1, <2>2, <2>3 DEF Gathered, Reading
  <2> QED
    BY <2>2, <2>4, GatherKept DEF Reading
<1>6. CASE Lstat \/ ReadLink
  <2>1. /\ pc \in {"lstat", "link"} /\ pc' \in {"read", "link"}
        /\ UNCHANGED <<stat, present, changed, flags, argv, arg, dir, entry>>
    BY <1>6 DEF Lstat, ReadLink, env
  <2>2. Shown' = Shown
    BY <2>1 DEF Shown, Shows
  <2>3. CASE pc' = "read" /\ UNCHANGED files /\ refused' = refused \cup {entry}
    <3>1. entry \notin NamesOf(files) \cup dir
      BY <2>1 DEF ListInv, ReadInv, Reading
    <3>2. Gathered' = Gathered \ {entry}
      BY <2>1, <2>2, <2>3, <3>1 DEF Gathered, Reading
    <3>3. Path' = Path /\ \A m : Shows(m)' <=> Shows(m)
      BY <2>1 DEF Path, Shows
    <3>4. /\ Gathered \subseteq Shown
          /\ \A m \in Names \ changed :
               m \in Gathered <=> m \in present[Path] /\ Shows(m) /\ m \notin refused
      BY <2>1 DEF GatherInv, Reading
    <3>5. \A m \in Names \ changed' :
            m \in Gathered' <=> m \in present'[Path'] /\ Shows(m)' /\ m \notin refused'
      BY <2>1, <2>3, <3>2, <3>3, <3>4
    <3>6. Gathered' \subseteq Shown'
      BY <2>2, <3>2, <3>4
    <3> QED
      BY <3>5, <3>6 DEF GatherInv
  <2>4. CASE pc' = "link" /\ UNCHANGED <<files, refused>>
    <3>1. Gathered' = Gathered
      BY <2>1, <2>2, <2>4 DEF Gathered, Reading
    <3>2. pc \in Reading /\ UNCHANGED <<env, flags, argv, arg>>
      BY <2>1, <2>4 DEF Reading, env
    <3> QED
      BY <3>1, <3>2, GatherKept
  <2>5. CASE /\ pc' = "read" /\ UNCHANGED refused
             /\ files' = Append(files, [name |-> entry, st |-> stat[entry]])
    <3> DEFINE f == [name |-> entry, st |-> stat[entry]]
    <3>1. f \in File /\ f.name = entry
      BY PathFacts DEF File, ListInv, TypeOK, Named
    <3> HIDE DEF f
    <3>2. NamesOf(files') = NamesOf(files) \cup {entry}
      BY <1>1, <2>5, <3>1, BlocksAppend DEF f
    <3>3. Gathered' = Gathered
      BY <2>1, <2>2, <2>5, <3>2 DEF Gathered, Reading
    <3>4. pc \in Reading /\ UNCHANGED <<env, flags, argv, arg>>
      BY <2>1, <2>5 DEF Reading, env
    <3> QED
      BY <3>3, <3>4, GatherKept
  <2> QED
    BY <1>6, <2>3, <2>4, <2>5 DEF Lstat, ReadLink, env
<1>7. CASE EndOfDir
  <2>1. /\ pc = "read" /\ dir \subseteq changed /\ pc' \in {"itself", "sort"}
        /\ UNCHANGED <<env, flags, argv, arg, files>>
    BY <1>7 DEF EndOfDir
  <2>2. Gathered' = NamesOf(files)
    BY <2>1 DEF Gathered, Reading
  <2>3. Gathered' \subseteq Gathered /\ \A n \in Gathered \ changed : n \in Gathered'
    BY <2>1, <2>2 DEF Gathered
  <2> QED
    BY <2>1, <2>3, GatherKept DEF Reading
<1>8. CASE Sort \/ PrintOutput
  <2>1. /\ pc \in {"sort", "print"} /\ pc' \in {"print", "free"}
        /\ UNCHANGED <<env, flags, argv, arg>>
        /\ files' = files \/ files' \in Sorted(SortKey, files)
    BY <1>8 DEF Sort, PrintOutput
  <2>2. NamesOf(files') = NamesOf(files)
    BY <1>1, <2>1, SortedFacts
  <2>3. Gathered' = Gathered
    BY <2>1, <2>2 DEF Gathered, Reading
  <2>4. CASE "d" \notin flags
    BY <2>1, <2>3, <2>4, GatherKept
  <2>5. CASE "d" \in flags
    BY <2>1, <2>5 DEF GatherInv, Reading
  <2> QED
    BY <2>4, <2>5
<1>9. CASE ListItself
  <2>1. "d" \in flags /\ pc' = "print" /\ flags' = flags
    BY <1>9 DEF ListItself, ListInv, LeakInv
  <2> QED
    BY <2>1 DEF GatherInv, Reading
<1>10. CASE \/ Parse \/ OpenFails \/ ReadFails \/ LinkFails \/ ListItselfFails
            \/ FreeFirst \/ FreeLater \/ SkipEmpty \/ Failed \/ NextPath
  <2>1. pc' \in {"open", "exit", "failed", "next"}
    BY <1>10 DEF Parse, ParseInput, ParseFails, OpenFails, ReadFails, GiveUp, LinkFails,
                 ListItselfFails, FreeFirst, FreeLater, SkipEmpty, Failed, NextPath
  <2> QED
    BY <2>1 DEF GatherInv, Reading
<1> QED
  BY <1>2, <1>3, <1>4, <1>5, <1>6, <1>7, <1>8, <1>9, <1>10 DEF Next, Main, Process

\* The output is that of the array which is not freed yet.
LEMMA OutStep ==
    ASSUME ListInv, OutInv, Next
    PROVE  OutInv'
<1>1. CASE PrintOutput
  <2>1. PICK width \in 0..MaxWidth : out' = [lines |-> Lines(width), time |-> TimeShown]
    BY <1>1 DEF PrintOutput
  <2>2. UNCHANGED <<flags, files>>
    BY <1>1 DEF PrintOutput
  <2>3. Lines(width)' = Lines(width) /\ TimeShown' = TimeShown
    BY <2>2 DEF Lines, Columns, ColWidth, TimeShown, Timed
  <2>4. out' = [lines |-> Lines(width)', time |-> TimeShown']
    BY <2>1, <2>3
  <2> QED
    BY <2>4 DEF OutInv
<1>2. CASE ~PrintOutput
  <2>1. pc' # "free"
    BY <1>2 DEF Next, Main, Others, Unlink, Create, Parse, ParseInput, ParseFails, Process,
         OpenFails, OpenDir, SkipHidden, ReadEntry, ReadFails, GiveUp, Lstat, ReadLink, LinkFails,
         EndOfDir, ListItself, ListItselfFails, Sort, FreeFirst, FreeLater, SkipEmpty, Failed,
         NextPath
  <2> QED
    BY <2>1 DEF OutInv
<1> QED
  BY <1>1, <1>2

Clocks == {"mtime", "atime", "ctime"}

LEMMA TimesNat ==
    ASSUME NEW f \in File, NEW k \in Clocks
    PROVE  f.st[k] \in Nat
<1>1. f.st \in Stat
  BY DEF File
<1> DEFINE s == f.st
<1>2. s \in [link : BOOLEAN, mtime : Nat, atime : Nat, ctime : Nat]
  BY <1>1 DEF Stat
<1> HIDE DEF s
<1>3. s["mtime"] \in Nat /\ s["atime"] \in Nat /\ s["ctime"] \in Nat
  BY <1>2
<1>4. s[k] \in Nat
  BY <1>3 DEF Clocks
<1> QED
  BY <1>4 DEF s

\* An int holds a difference that is near.
LEMMA ToIntNear ==
    ASSUME NEW x \in Int, x < IntHalf, -IntHalf < x
    PROVE  ToInt(x) = x
<1> DEFINE h == IntHalf
           m == 2 * IntHalf
           y == x + IntHalf
           q == y \div m
           e == y % m
<1>1. h \in Nat \ {0} /\ m \in Nat \ {0} /\ y \in Nat /\ y < m /\ y - h = x
  BY ListAssumption
<1>a. ToInt(x) = e - h
  BY DEF ToInt
<1> HIDE DEF y, m, h
<1>2. q \in Nat /\ e \in 0..m-1 /\ y = q * m + e
  BY <1>1, Quotient
<1> HIDE DEF q, e
<1>3. q = 0
  <2>1. 1 <= q => 1 * m <= q * m
    BY <1>1, <1>2, Product
  <2>2. 1 * m = m /\ q * m \in Nat
    BY <1>1, <1>2, Product
  <2> QED
    BY <1>1, <1>2, <2>1, <2>2
<1>4. q * m = 0
  BY <1>1, <1>3
<1>5. e = y
  BY <1>1, <1>2, <1>4
<1> QED
  BY <1>1, <1>5, <1>a

\* With such times the comparison is an order, by which qsort may sort.
LEMMA TimedSort ==
    ASSUME NEW fs \in Seq(File), NEW key \in Clocks,
           \A f, g \in Range(fs) : f.st[key] - g.st[key] < IntHalf,
           NEW s \in Sorted(key, fs)
    PROVE  \A j, k \in 1..Len(s) : j < k => s[j].st[key] >= s[k].st[key]
<1>1. key # "name"
  BY DEF Clocks
<1>2. Range(fs) \subseteq File /\ \A f \in Range(fs) : f.st[key] \in Nat
  <2>1. Range(fs) \subseteq File
    BY LenProperties DEF Range
  <2> QED
    BY <2>1, TimesNat
<1>3. ASSUME NEW f \in Range(fs), NEW g \in Range(fs)
      PROVE  Compare(key, f, g) = g.st[key] - f.st[key]
  <2> DEFINE x == g.st[key] - f.st[key]
  <2>1. x \in Int /\ x < IntHalf /\ -IntHalf < x
    <3>1. f.st[key] \in Nat /\ g.st[key] \in Nat /\ IntHalf \in Nat
      BY <1>2, ListAssumption
    <3>2. g.st[key] - f.st[key] < IntHalf /\ f.st[key] - g.st[key] < IntHalf
      OBVIOUS
    <3> DEFINE a == f.st[key]
               b == g.st[key]
    <3>3. a \in Nat /\ b \in Nat /\ b - a < IntHalf /\ a - b < IntHalf
      BY <3>1, <3>2
    <3> HIDE DEF a, b
    <3>4. b - a \in Int /\ b - a < IntHalf /\ -IntHalf < b - a
      BY <3>1, <3>3
    <3> QED
      BY <3>4 DEF a, b
  <2>2. ToInt(x) = x
    <3> HIDE DEF x
    <3> QED
      BY <2>1, ToIntNear
  <2> QED
    BY <1>1, <2>2 DEF Compare
<1>4. IsOrder(key, Range(fs))
  <2>1. ASSUME NEW f \in Range(fs), NEW g \in Range(fs)
        PROVE  Compare(key, f, g) > 0 <=> Compare(key, g, f) < 0
    <3> DEFINE a == f.st[key]
               b == g.st[key]
    <3>1. a \in Nat /\ b \in Nat /\ Compare(key, f, g) = b - a /\ Compare(key, g, f) = a - b
      BY <1>2, <1>3
    <3> HIDE DEF a, b
    <3> QED
      BY <3>1
  <2>2. ASSUME NEW f \in Range(fs), NEW g \in Range(fs), NEW h \in Range(fs),
               Compare(key, f, g) <= 0, Compare(key, g, h) <= 0
        PROVE  Compare(key, f, h) <= 0
    <3> DEFINE a == f.st[key]
               b == g.st[key]
               c == h.st[key]
    <3>1. /\ a \in Nat /\ b \in Nat /\ c \in Nat
          /\ Compare(key, f, g) = b - a /\ Compare(key, g, h) = c - b /\ Compare(key, f, h) = c - a
      BY <1>2, <1>3
    <3> HIDE DEF a, b, c
    <3> QED
      BY <2>2, <3>1
  <2> QED
    BY <2>1, <2>2 DEF IsOrder
<1>5. /\ \A j, k \in DOMAIN s : j < k => Compare(key, s[j], s[k]) <= 0
  BY <1>4 DEF Sorted
<1>6. s \in Seq(File) /\ Range(s) = Range(fs)
  BY SortedFacts
<1>7. DOMAIN s = 1..Len(s) /\ \A k \in 1..Len(s) : s[k] \in Range(fs)
  <2>1. DOMAIN s = 1..Len(s)
    BY <1>6, LenProperties
  <2>2. \A k \in 1..Len(s) : s[k] \in Range(s)
    BY <2>1 DEF Range
  <2> QED
    BY <1>6, <2>1, <2>2
<1> SUFFICES ASSUME NEW j \in 1..Len(s), NEW k \in 1..Len(s), j < k
             PROVE  s[j].st[key] >= s[k].st[key]
  OBVIOUS
<1> DEFINE a == s[j].st[key]
           b == s[k].st[key]
<1>8. a \in Nat /\ b \in Nat /\ Compare(key, s[j], s[k]) = b - a
  BY <1>2, <1>3, <1>7
<1>9. Compare(key, s[j], s[k]) <= 0
  BY <1>5, <1>7
<1> HIDE DEF a, b
<1>10. a >= b
  BY <1>8, <1>9
<1> QED
  BY <1>10 DEF a, b

LEMMA OrderStep ==
    ASSUME ListInv, OrderInv, Next
    PROVE  OrderInv'
<1>1. files \in Seq(File)
  BY DEF ListInv, TypeOK
<1>2. CASE Sort
  <2> SUFFICES ASSUME {"l", "t"} \subseteq flags', "f" \notin flags', Near'
               PROVE  \A j, k \in 1..Len(files') :
                        j < k => files'[j].st[Timed'] >= files'[k].st[Timed']
    BY DEF OrderInv
  <2>1. flags' = flags /\ SortKey = Timed /\ Timed' = Timed /\ Timed \in Clocks
    BY <1>2 DEF Sort, SortKey, Timed, Clocks
  <2>2. files' \in Sorted(Timed, files)
    BY <1>2, <2>1 DEF Sort, Clocks
  <2> DEFINE key == Timed
  <2>3. Range(files') = Range(files)
    BY <1>1, <2>2, SortedFacts
  <2>4. \A f, g \in Range(files) : f.st[key] - g.st[key] < IntHalf
    BY <2>1, <2>3 DEF Near, Clocks
  <2> HIDE DEF key
  <2>5. key \in Clocks /\ files' \in Sorted(key, files)
    BY <2>1, <2>2 DEF key
  <2>6. \A j, k \in 1..Len(files') : j < k => files'[j].st[key] >= files'[k].st[key]
    BY <1>1, <2>4, <2>5, TimedSort
  <2> QED
    BY <2>1, <2>6 DEF key
<1>3. CASE ListItself
  <2> DEFINE f == [name |-> Path, st |-> [stat[Path] EXCEPT !.link = FALSE]]
  <2>1. files' = <<f>>
    BY <1>3 DEF ListItself
  <2> HIDE DEF f
  <2>2. Len(files') = 1
    BY <2>1
  <2> QED
    BY <2>2 DEF OrderInv
<1>4. CASE PrintOutput
  <2>1. pc = "print" /\ UNCHANGED <<flags, files>>
    BY <1>4 DEF PrintOutput
  <2> QED
    BY <2>1 DEF OrderInv, Near, Timed
<1>5. CASE ~(Sort \/ ListItself \/ PrintOutput)
  <2>1. pc' \notin {"print", "free"}
    BY <1>5 DEF Next, Main, Others, Unlink, Create, Parse, ParseInput, ParseFails, Process,
         OpenFails, OpenDir, SkipHidden, ReadEntry, ReadFails, GiveUp, Lstat, ReadLink, LinkFails,
         EndOfDir, ListItselfFails, FreeFirst, FreeLater, SkipEmpty, Failed, NextPath
  <2> QED
    BY <2>1 DEF OrderInv
<1> QED
  BY <1>2, <1>3, <1>4, <1>5

LEMMA SeenStep == ListInv /\ SeenInv /\ [Next]_vars => SeenInv'
<1> SUFFICES ASSUME ListInv, SeenInv, [Next]_vars PROVE SeenInv'
  OBVIOUS
<1>1. CASE Next
  BY <1>1, DistinctStep, GatherStep, OutStep, OrderStep DEF SeenInv, ListInv
<1>2. CASE UNCHANGED vars
  <2>1. UNCHANGED <<present, changed, refused, flags, argv, arg, pc, dir, files, entry, out>>
    BY <1>2 DEF vars, env
  <2>2. DistinctInv' /\ OrderInv'
    BY <2>1 DEF SeenInv, DistinctInv, OrderInv, Near, Timed
  <2>3. GatherInv'
    BY <2>1 DEF SeenInv, GatherInv, Gathered, Shown, Shows, Path
  <2>4. OutInv'
    BY <2>1 DEF SeenInv, OutInv, Lines, Columns, ColWidth, TimeShown, Timed
  <2> QED
    BY <2>2, <2>3, <2>4 DEF SeenInv
<1> QED
  BY <1>1, <1>2

LEMMA SeenAlways == Spec => [](ListInv /\ SeenInv)
<1>1. Init => ListInv /\ SeenInv
  BY ListInit, SeenInit
<1>2. (ListInv /\ SeenInv) /\ [Next]_vars => (ListInv /\ SeenInv)'
  BY ListStep, SeenStep
<1> QED
  BY <1>1, <1>2, PTL DEF Spec

-----------------------------------------------------------------------------
(* The listing shows the array *)

LEMMA PickFacts ==
    ASSUME NEW S, NEW s \in Seq(S), NEW t, Picks(t, s, 1..Len(s))
    PROVE  /\ DOMAIN t = 1..Len(s) /\ Len(t) = Len(s)
           /\ \E P \in [1..Len(s) -> 1..Len(s)] :
                /\ \A j, k \in 1..Len(s) : P[j] = P[k] => j = k
                /\ \A x \in 1..Len(s) : \E k \in 1..Len(s) : P[k] = x
                /\ \A k \in 1..Len(s) : t[k] = s[P[k]]
<1> DEFINE n == Len(s)
<1>1. n \in Nat
  OBVIOUS
<1> SUFFICES /\ DOMAIN t = 1..n /\ Len(t) = n
             /\ \E P \in [1..n -> 1..n] :
                  /\ \A j, k \in 1..n : P[j] = P[k] => j = k
                  /\ \A x \in 1..n : \E k \in 1..n : P[k] = x
                  /\ \A k \in 1..n : t[k] = s[P[k]]
  OBVIOUS
<1>2. PICK P \in Seq(1..n) :
        /\ \A j, k \in 1..Len(P) : P[j] = P[k] => j = k
        /\ \A x \in 1..n : \E k \in 1..Len(P) : P[k] = x
        /\ t = [k \in 1..Len(P) |-> s[P[k]]]
  BY DEF Picks
<1> DEFINE m == Len(P)
<1> HIDE DEF n
<1>3. m \in Nat /\ P \in [1..m -> 1..n]
  BY LenProperties
<1> HIDE DEF m
<1>4. P \in Bijection(1..m, 1..n)
  <2>1. P \in Injection(1..m, 1..n)
    BY <1>2, <1>3 DEF Injection, IsInjective, m
  <2>2. P \in Surjection(1..m, 1..n)
    BY <1>2, <1>3 DEF Surjection, m
  <2> QED
    BY <2>1, <2>2 DEF Bijection
<1>5. ExistsBijection(1..m, 1..n)
  BY <1>4 DEF ExistsBijection
<1>6. Cardinality(1..n) = m
  BY <1>3, <1>5, FS_CountingElements
<1>7. Cardinality(1..n) = n
  BY <1>1, FS_Interval
<1>8. m = n
  BY <1>6, <1>7
<1>9. t = [k \in 1..n |-> s[P[k]]]
  BY <1>2, <1>8 DEF m
<1>10. DOMAIN t = 1..n /\ Len(t) = n /\ \A k \in 1..n : t[k] = s[P[k]]
  <2> DEFINE e(k) == s[P[k]]
  <2>1. t = [k \in 1..n |-> e(k)]
    BY <1>9
  <2> HIDE DEF e
  <2>2. DOMAIN t = 1..n /\ Len(t) = n /\ \A k \in 1..n : t[k] = e(k)
    BY <1>1, <2>1
  <2> QED
    BY <2>2 DEF e
<1>11. /\ P \in [1..n -> 1..n]
       /\ \A j, k \in 1..n : P[j] = P[k] => j = k
       /\ \A x \in 1..n : \E k \in 1..n : P[k] = x
  BY <1>2, <1>3, <1>8 DEF m
<1> QED
  BY <1>10, <1>11

\* A sequence shows itself.
LEMMA PicksSelf ==
    ASSUME NEW S, NEW s \in Seq(S)
    PROVE  Picks(s, s, 1..Len(s))
<1> DEFINE n == Len(s)
           P == [k \in 1..n |-> k]
<1>1. n \in Nat /\ s = [k \in 1..n |-> s[k]]
  OBVIOUS
<1> HIDE DEF n
<1>2. P \in Seq(1..n) /\ Len(P) = n /\ \A k \in 1..n : P[k] = k
  BY <1>1
<1> HIDE DEF P
<1>3. s = [k \in 1..n |-> s[P[k]]]
  BY <1>1, <1>2
<1>4. /\ \A j, k \in 1..Len(P) : P[j] = P[k] => j = k
      /\ \A x \in 1..n : \E k \in 1..Len(P) : P[k] = x
      /\ s = [k \in 1..Len(P) |-> s[P[k]]]
  BY <1>2, <1>3
<1>5. Picks(s, s, 1..n)
  BY <1>2, <1>4 DEF Picks
<1> QED
  BY <1>5 DEF n

LEMMA MaxNat ==
    ASSUME NEW n \in Nat \ {0}, NEW g \in [1..n -> Nat]
    PROVE  Max({g[k] : k \in 1..n}) \in Nat
<1> DEFINE T == {m \in Nat : m + 1 <= n => \E k \in 1..m+1 : \A j \in 1..m+1 : g[j] <= g[k]}
<1>1. 0 \in T
  <2>1. 1 \in 1..1 /\ \A j \in 1..1 : g[j] <= g[1]
    <3>1. g[1] \in Nat
      OBVIOUS
    <3> QED
      BY <3>1
  <2> QED
    BY <2>1
<1>2. ASSUME NEW m \in Nat, m \in T
      PROVE  m + 1 \in T
  <2> SUFFICES ASSUME (m + 1) + 1 <= n
               PROVE  \E k \in 1..(m + 1) + 1 : \A j \in 1..(m + 1) + 1 : g[j] <= g[k]
    OBVIOUS
  <2>1. PICK k \in 1..m+1 : \A j \in 1..m+1 : g[j] <= g[k]
    <3>1. m + 1 <= n
      OBVIOUS
    <3> QED
      BY <1>2, <3>1
  <2> DEFINE b == (m + 1) + 1
  <2>2. /\ b \in 1..b /\ k \in 1..b /\ k \in 1..n /\ b \in 1..n
        /\ \A j \in 1..b : (j \in 1..m+1 \/ j = b) /\ j \in 1..n
    OBVIOUS
  <2> HIDE DEF b
  <2>3. \A j \in 1..n : g[j] \in Nat
    OBVIOUS
  <2>4. CASE g[b] <= g[k]
    BY <2>1, <2>2, <2>4 DEF b
  <2>5. CASE ~(g[b] <= g[k])
    <3>1. \A j \in 1..b : g[j] <= g[b]
      BY <2>1, <2>2, <2>3, <2>5
    <3> QED
      BY <2>2, <3>1 DEF b
  <2> QED
    BY <2>4, <2>5
<1> HIDE DEF T
<1>a. Nat \subseteq T
  BY <1>1, <1>2, Ascends
<1>3. n - 1 \in T /\ (n - 1) + 1 = n /\ n <= n
  BY <1>a
<1>4. PICK k \in 1..n : \A j \in 1..n : g[j] <= g[k]
  BY <1>3 DEF T
<1> DEFINE S == {g[j] : j \in 1..n}
<1>5. S \subseteq Nat /\ g[k] \in S /\ \A y \in S : g[k] >= y
  BY <1>4
<1> HIDE DEF S
<1>6. \E x \in S : \A y \in S : x >= y
  BY <1>5
<1>7. Max(S) \in S
  BY <1>6 DEF Max
<1> QED
  BY <1>5, <1>7 DEF S

LEMMA ColWidthFacts ==
    ASSUME TypeOK
    PROVE  ColWidth \in Nat \ {0}
<1> DEFINE n == Len(files)
           g == [k \in 1..n |-> Lengths[files[k].name]]
           lens == {Lengths[f.name] : f \in Range(files)}
<1>1. files \in Seq(File) /\ n \in Nat /\ DOMAIN files = 1..n
  BY LenProperties DEF TypeOK
<1>2. \A k \in 1..n : Lengths[files[k].name] \in Nat
  <2>1. \A k \in 1..n : files[k] \in File
    BY <1>1
  <2> QED
    BY <2>1, ListAssumption DEF File
<1> HIDE DEF n
<1>3. g \in [1..n -> Nat] /\ \A k \in 1..n : g[k] = Lengths[files[k].name]
  BY <1>2
<1> HIDE DEF g
<1>4. lens = {g[k] : k \in 1..n}
  <2>1. Range(files) = {files[k] : k \in 1..n}
    BY <1>1 DEF Range
  <2>2. lens = {Lengths[files[k].name] : k \in 1..n}
    BY <2>1
  <2>3. \A k \in 1..n : Lengths[files[k].name] = g[k]
    BY <1>3
  <2> HIDE DEF lens
  <2>4. ASSUME NEW x
        PROVE  x \in lens <=> \E k \in 1..n : x = g[k]
    BY <2>2, <2>3, Zenon
  <2> QED
    BY <2>4
<1>5. ColWidth = 2 + IF lens = {} THEN 0 ELSE Max(lens)
  BY DEF ColWidth
<1> HIDE DEF lens
<1>6. CASE n = 0
  <2>1. lens = {}
    BY <1>4, <1>6
  <2> QED
    BY <1>5, <2>1
<1>7. CASE n # 0
  <2>1. Max(lens) \in Nat
    BY <1>1, <1>3, <1>4, <1>7, MaxNat
  <2>2. CASE lens = {}
    BY <1>5, <2>2
  <2>3. CASE lens # {}
    BY <1>5, <2>1, <2>3
  <2> QED
    BY <2>2, <2>3
<1> QED
  BY <1>6, <1>7

\* Whatever the width, the lines show each element of the array once; the
\* long format in its order.
LEMMA LinesShow ==
    ASSUME TypeOK, NEW width \in Nat
    PROVE  /\ Picks(FlattenSeq(Lines(width)), files, 1..Len(files))
           /\ "l" \in flags => FlattenSeq(Lines(width)) = files
<1>1. files \in Seq(File) /\ DOMAIN files = 1..Len(files)
  BY LenProperties DEF TypeOK
<1>2. CASE {"l", "1"} \cap flags = {}
  <2> DEFINE cols == NumCols(width, ColWidth)
  <2>1. Lines(width) = InColumns(files, cols)
    BY <1>2 DEF Lines, Columns
  <2>2. cols \in Nat \ {0}
    <3> DEFINE b == ColWidth
               q == width \div b
    <3>1. b \in Nat \ {0}
      BY ColWidthFacts
    <3> HIDE DEF b
    <3>2. q \in Nat
      BY <3>1, Quotient
    <3>3. cols = IF q = 0 THEN 1 ELSE q
      BY DEF NumCols, b
    <3> HIDE DEF q, cols
    <3> QED
      BY <3>2, <3>3
  <2> HIDE DEF cols
  <2>3. Picks(FlattenSeq(InColumns(files, cols)), files, 1..Len(files))
    BY <1>1, <2>2, ColumnsPick
  <2> QED
    BY <1>2, <2>1, <2>3
<1>3. CASE {"l", "1"} \cap flags # {}
  <2>1. Lines(width) = [k \in 1..Len(files) |-> <<files[k]>>]
    BY <1>1, <1>3 DEF Lines
  <2>2. FlattenSeq(Lines(width)) = files
    BY <1>1, <2>1, FlattenSingles
  <2> QED
    BY <1>1, <2>2, PicksSelf
<1> QED
  BY <1>2, <1>3

\* An entry that stayed is shown once if it is to be shown.
LEMMA StayersShown ==
    ASSUME ListInv, SeenInv
    PROVE  StayersListed
<1> SUFFICES ASSUME pc = "free", "d" \notin flags
             PROVE  LET line == FlattenSeq(out.lines)
                    IN  /\ \A n \in Names \ changed :
                             Cardinality({k \in DOMAIN line : line[k].name = n}) =
                                 IF n \in present[Path] /\ Shows(n) /\ n \notin refused THEN 1 ELSE 0
                        /\ \A k \in DOMAIN line : line[k].name \in {n \in Names : Shows(n)}
                        /\ Len(line) = Len(files)
  BY DEF StayersListed
<1> DEFINE line == FlattenSeq(out.lines)
           N == Len(files)
<1>1. TypeOK /\ files \in Seq(File) /\ N \in Nat
  BY LenProperties DEF ListInv, TypeOK
<1>2. PICK width \in 0..MaxWidth : out.lines = Lines(width)
  BY DEF SeenInv, OutInv
<1>3. Picks(line, files, 1..N)
  <2>1. width \in Nat
    BY ListAssumption
  <2> QED
    BY <1>1, <1>2, <2>1, LinesShow
<1> HIDE DEF line
<1>4. DOMAIN line = 1..N /\ Len(line) = N
  BY <1>1, <1>3, PickFacts
<1>5. PICK P \in [1..N -> 1..N] :
        /\ \A j, k \in 1..N : P[j] = P[k] => j = k
        /\ \A x \in 1..N : \E k \in 1..N : P[k] = x
        /\ \A k \in 1..N : line[k] = files[P[k]]
  BY <1>1, <1>3, PickFacts
<1>6. /\ \A i, j \in 1..N : files[i].name = files[j].name => i = j
      /\ \A i \in 1..N : files[i].name \in NamesOf(files)
      /\ \A n \in NamesOf(files) : \E i \in 1..N : files[i].name = n
  BY <1>1, NamesAt DEF SeenInv, DistinctInv
<1> HIDE DEF N
<1>7. /\ NamesOf(files) \subseteq Shown
      /\ \A n \in Names \ changed :
           n \in NamesOf(files) <=> n \in present[Path] /\ Shows(n) /\ n \notin refused
  BY DEF SeenInv, GatherInv, Gathered, Reading
<1>8. ASSUME NEW n \in Names \ changed
      PROVE  Cardinality({k \in DOMAIN line : line[k].name = n}) =
                 IF n \in present[Path] /\ Shows(n) /\ n \notin refused THEN 1 ELSE 0
  <2> DEFINE K == {k \in DOMAIN line : line[k].name = n}
  <2>1. CASE n \in NamesOf(files)
    <3>1. PICK i \in 1..N : files[i].name = n
      BY <1>6, <2>1
    <3>2. PICK k \in 1..N : P[k] = i
      BY <1>5
    <3>3. K = {k}
      <4>1. ASSUME NEW j \in 1..N
            PROVE  line[j].name = n <=> j = k
        <5>1. P[j] \in 1..N /\ line[j] = files[P[j]]
          BY <1>5
        <5>2. files[P[j]].name = n <=> P[j] = i
          BY <1>6, <3>1, <5>1
        <5>3. P[j] = i <=> j = k
          BY <1>5, <3>2
        <5> QED
          BY <5>1, <5>2, <5>3
      <4> QED
        BY <1>4, <4>1
    <3>4. Cardinality(K) = 1
      BY <3>3, FS_Singleton
    <3> QED
      BY <1>7, <2>1, <3>4
  <2>2. CASE n \notin NamesOf(files)
    <3>1. K = {}
      <4>1. ASSUME NEW j \in 1..N
            PROVE  line[j].name # n
        <5>1. P[j] \in 1..N /\ line[j] = files[P[j]]
          BY <1>5
        <5>2. files[P[j]].name \in NamesOf(files)
          BY <1>6, <5>1
        <5> QED
          BY <2>2, <5>1, <5>2
      <4> QED
        BY <1>4, <4>1
    <3>2. Cardinality(K) = 0
      BY <3>1, FS_EmptySet
    <3> QED
      BY <1>7, <2>2, <3>2
  <2> QED
    BY <2>1, <2>2
<1>9. \A k \in DOMAIN line : line[k].name \in {n \in Names : Shows(n)}
  BY <1>4, <1>5, <1>6, <1>7 DEF Shown
<1> QED
  BY <1>4, <1>8, <1>9 DEF line, N

\* While others create and remove entries, print_output shows every entry that
\* nobody touched exactly once if the options ask for it and its lstat did not
\* fail, and never otherwise, in any number of columns that the terminal has
\* room for.
THEOREM StayersAppear == Spec => []StayersListed
BY StayersShown, SeenAlways, PTL

LEMMA OrderShown ==
    ASSUME ListInv, SeenInv
    PROVE  ShownInOrder
<1> SUFFICES ASSUME pc = "free", {"l", "t"} \subseteq flags, "f" \notin flags, Near
             PROVE  LET line == FlattenSeq(out.lines)
                    IN  \A j, k \in DOMAIN line :
                           j < k => line[j].st[out.time] >= line[k].st[out.time]
  BY DEF ShownInOrder
<1>1. TypeOK /\ DOMAIN files = 1..Len(files)
  BY LenProperties DEF ListInv, TypeOK
<1>2. PICK width \in 0..MaxWidth : out.lines = Lines(width) /\ out.time = Timed
  BY DEF SeenInv, OutInv, TimeShown
<1>3. FlattenSeq(out.lines) = files
  <2>1. width \in Nat
    BY ListAssumption
  <2> QED
    BY <1>1, <1>2, <2>1, LinesShow
<1>4. \A j, k \in 1..Len(files) : j < k => files[j].st[Timed] >= files[k].st[Timed]
  BY DEF SeenInv, OrderInv
<1> QED
  BY <1>1, <1>2, <1>3, <1>4

\* With -l and -t the times shown descend: the option chain that chooses the
\* key of qsort agrees with the one that chooses the column, and qsort is given
\* an order if an int holds the differences.
THEOREM TimesDescend == Spec => []ShownInOrder
BY OrderShown, SeenAlways, PTL
=============================================================================
