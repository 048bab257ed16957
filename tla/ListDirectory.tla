---------------------------- MODULE ListDirectory ----------------------------
(***************************************************************************)
(* ls_cmd/my_ls.c: read each directory of the command line, sort what was  *)
(* read, print it, and release it, while other processes create and remove *)
(* entries and any allocation may fail.  The heap is the set of blocks in  *)
(* use.  Owners, sizes, permissions, inode numbers and colours are layout. *)
(***************************************************************************)
EXTENDS DirectoryLayout, FiniteSets, SequencesExt

CONSTANTS
    Names,          \* names of entries
    Hidden,         \* those that begin with a dot
    Dirs,           \* paths of directories
    Stats,          \* what lstat may tell of names and paths, as functions;
                    \* a full_path cut off at MAX_PATH may be that of another file
    Contents,       \* entries of each directory at the start
    Flags,          \* combinations of options
    CommandLines,   \* sequences of paths
    Lengths,        \* length of each name and path
    Rank,           \* position of each name in the order of strcmp
    IntHalf,        \* an int is in -IntHalf .. IntHalf-1
    Initial,        \* INITIAL_CAPACITY
    MaxWidth,       \* bound: columns of a terminal
    MaxTokens       \* bound: tokens found in the uninitialised path

Stat  == [link : BOOLEAN, mtime : Nat, atime : Nat, ctime : Nat]
Named == Names \cup Dirs

ASSUME ListAssumption ==
    /\ Hidden \subseteq Names
    /\ Names \cap Dirs = {}
    /\ Stats \subseteq [Named -> Stat]
    /\ Contents \subseteq [Dirs -> SUBSET Names]
    /\ Flags \subseteq SUBSET {"l", "a", "t", "u", "c", "f", "d", "1"}
    /\ CommandLines \subseteq Seq(Dirs) \ {<<>>}
    /\ Lengths \in [Named -> Nat]
    /\ Rank \in [Names -> Nat]
    /\ IntHalf \in Nat \ {0} /\ Initial \in Nat \ {0}
    /\ MaxWidth \in Nat /\ MaxTokens \in Nat

VARIABLES
    stat,           \* lstat of each name and path
    present,        \* entries of each directory
    changed,        \* entries created or removed since the last opendir
    refused,        \* entries whose lstat has failed since then
    flags, argv,    \* the command line
    arg,            \* index of the path that is listed
    pc,
    dir,            \* entries that readdir may still return
    opened,         \* is the DIR open?
    files,          \* the first count elements of *files
    capacity,
    entry,          \* entry->d_name
    live,           \* blocks in use
    wild,           \* blocks freed while not in use
    out             \* what was printed for the last path

env    == <<stat, present, changed, refused>>
memory == <<live, wild>>
vars   == <<env, flags, argv, arg, pc, dir, opened, files, capacity, entry, memory, out>>

Path == argv[arg]
File == [name : Named, st : Stat]

Array        == <<"files", arg>>
Tokens(n)    == {<<"token", k>> : k \in 1..n}
NameBlock(n) == <<"name", n>>
LinkBlock(n) == <<"link", n>>
BlocksOf(fs) == {NameBlock(f.name) : f \in Range(fs)} \cup
                {LinkBlock(f.name) : f \in {g \in Range(fs) : g.st.link}}

Nothing == [lines |-> <<>>, time |-> "none"]

Allocate(b) == live' = live \cup {b} /\ UNCHANGED wild

\* free of each of bs.
Release(bs) ==
    /\ live' = live \ bs
    /\ wild' = wild \cup (bs \ live)

Init ==
    /\ stat \in Stats
    /\ present \in Contents
    /\ changed = {}
    /\ refused = {}
    /\ flags \in Flags
    /\ argv \in CommandLines
    /\ arg = 1
    /\ pc = "parse"
    /\ dir = {}
    /\ opened = FALSE
    /\ files = <<>>
    /\ capacity = 0
    /\ entry \in Names
    /\ live = {}
    /\ wild = {}
    /\ out = Nothing

-----------------------------------------------------------------------------
(* Other processes.  Bound: while a directory is read a name comes or goes *)
(* at most once.                                                           *)

Unlink ==
    \E n \in present[Path] \ changed :
        /\ present' = [present EXCEPT ![Path] = @ \ {n}]
        /\ changed' = changed \cup {n}
        /\ UNCHANGED <<stat, refused, flags, argv, arg, pc, dir, opened, files,
                       capacity, entry, memory, out>>

\* readdir may or may not see an entry created behind its back.
Create ==
    \E n \in (Names \ present[Path]) \ changed :
        /\ present' = [present EXCEPT ![Path] = @ \cup {n}]
        /\ changed' = changed \cup {n}
        /\ dir' \in IF opened THEN {dir, dir \cup {n}} ELSE {dir}
        /\ UNCHANGED <<stat, refused, flags, argv, arg, pc, opened, files, capacity,
                       entry, memory, out>>

Others == pc \in {"read", "lstat", "link"} /\ (Unlink \/ Create)

-----------------------------------------------------------------------------
(* parse_input *)

\* strtok runs over the uninitialised path: any number of tokens.
ParseInput ==
    /\ pc = "parse"
    /\ \E n \in 0..MaxTokens : live' = Tokens(n)
    /\ pc' = "open"
    /\ UNCHANGED <<env, flags, argv, arg, dir, opened, files, capacity, entry,
                   wild, out>>

\* An allocation fails, or the options are not accepted: exit(EXIT_FAILURE).
ParseFails ==
    /\ pc = "parse"
    /\ pc' = "exit"
    /\ UNCHANGED <<env, flags, argv, arg, dir, opened, files, capacity, entry,
                   memory, out>>

-----------------------------------------------------------------------------
(* process_and_sort *)

\* opendir or malloc fails; in the latter case closedir follows.
OpenFails ==
    /\ pc = "open"
    /\ pc' = "failed"
    /\ UNCHANGED <<env, flags, argv, arg, dir, opened, files, capacity, entry,
                   memory, out>>

OpenDir ==
    /\ pc = "open"
    /\ changed' = {}
    /\ refused' = {}
    /\ dir' = present[Path]
    /\ opened' = TRUE
    /\ files' = <<>>
    /\ capacity' = Initial
    /\ Allocate(Array)
    /\ pc' = "read"
    /\ UNCHANGED <<stat, present, flags, argv, arg, entry, out>>

Shows(n) == {"a", "f"} \cap flags # {} \/ n \notin Hidden

\* continue: a hidden entry without -a.
SkipHidden ==
    /\ pc = "read"
    /\ \E n \in {x \in dir : ~Shows(x)} : dir' = dir \ {n}
    /\ UNCHANGED <<env, flags, argv, arg, pc, opened, files, capacity, entry,
                   memory, out>>

\* realloc when the array is full, and strdup of the name.
ReadEntry ==
    /\ pc = "read"
    /\ \E n \in {x \in dir : Shows(x)} :
        /\ entry' = n
        /\ dir' = dir \ {n}
        /\ Allocate(NameBlock(n))
    /\ capacity' = IF Len(files) >= capacity THEN 2 * capacity ELSE capacity
    /\ pc' = "lstat"
    /\ UNCHANGED <<env, flags, argv, arg, opened, files, out>>

\* The error paths free what was read so far and close the directory.
GiveUp(blocks) ==
    /\ Release(blocks \cup BlocksOf(files) \cup {Array})
    /\ opened' = FALSE
    /\ dir' = {}
    /\ pc' = "failed"

ReadFails ==
    /\ pc = "read"
    /\ {x \in dir : Shows(x)} # {}
    /\ GiveUp({})
    /\ UNCHANGED <<env, flags, argv, arg, files, capacity, entry, out>>

\* Mutant of Lstat: an entry whose lstat failed is counted.
LstatCounting ==
    /\ pc = "lstat"
    /\ files' = Append(files, [name |-> entry, st |-> [stat[entry] EXCEPT !.link = FALSE]])
    /\ IF entry \in present[Path] THEN UNCHANGED memory ELSE Release({NameBlock(entry)})
    /\ pc' = "read"
    /\ UNCHANGED <<env, flags, argv, arg, dir, opened, capacity, entry, out>>

\* Mutant of Lstat: the name of an entry whose lstat failed is not freed.
LstatKeepingName ==
    /\ pc = "lstat"
    /\ \/ files' = files /\ pc' = "read"
       \/ /\ entry \in present[Path]
          /\ files' = Append(files, [name |-> entry, st |-> stat[entry]])
          /\ pc' = IF stat[entry].link THEN "link" ELSE "read"
    /\ UNCHANGED <<env, flags, argv, arg, dir, opened, capacity, entry, memory, out>>

\* Mutant of Lstat: it is tried again until it succeeds.
LstatAgain ==
    /\ pc = "lstat"
    /\ IF entry \notin present[Path]
       THEN UNCHANGED <<pc, files>>
       ELSE /\ files' = Append(files, [name |-> entry, st |-> stat[entry]])
            /\ pc' = IF stat[entry].link THEN "link" ELSE "read"
    /\ UNCHANGED <<env, flags, argv, arg, dir, opened, capacity, entry, memory, out>>

\* lstat fails if the entry is gone, but also if the directory may not be
\* searched or full_path was cut off.  A link is counted only after its target
\* was read.
Lstat ==
    /\ pc = "lstat"
    /\ \/ /\ Release({NameBlock(entry)})
          /\ refused' = refused \cup {entry}
          /\ pc' = "read"
          /\ UNCHANGED files
       \/ /\ entry \in present[Path]
          /\ IF stat[entry].link
             THEN pc' = "link" /\ UNCHANGED files
             ELSE /\ pc' = "read"
                  /\ files' = Append(files, [name |-> entry, st |-> stat[entry]])
          /\ UNCHANGED <<memory, refused>>
    /\ UNCHANGED <<stat, present, changed, flags, argv, arg, dir, opened, capacity,
                   entry, out>>

\* If readlink fails the target is the empty string.
ReadLink ==
    /\ pc = "link"
    /\ Allocate(LinkBlock(entry))
    /\ files' = Append(files, [name |-> entry, st |-> stat[entry]])
    /\ pc' = "read"
    /\ UNCHANGED <<env, flags, argv, arg, dir, opened, capacity, entry, out>>

LinkFails ==
    /\ pc = "link"
    /\ GiveUp({NameBlock(entry)})
    /\ UNCHANGED <<env, flags, argv, arg, files, capacity, entry, out>>

\* Nothing is left that was there all the time.
EndOfDir ==
    /\ pc = "read"
    /\ dir \subseteq changed
    /\ dir' = {}
    /\ opened' = FALSE
    /\ pc' = IF "d" \in flags THEN "itself" ELSE "sort"
    /\ UNCHANGED <<env, flags, argv, arg, files, capacity, entry, memory, out>>

\* -d: the entries are forgotten, not freed.  linkname is NULL even if the
\* path is a link.
ListItself ==
    /\ pc = "itself"
    /\ files' = <<[name |-> Path, st |-> [stat[Path] EXCEPT !.link = FALSE]]>>
    /\ Allocate(NameBlock(Path))
    /\ pc' = "print"
    /\ UNCHANGED <<env, flags, argv, arg, dir, opened, capacity, entry, out>>

\* realloc fails, and *files is lost; or strdup or lstat fails.
ListItselfFails ==
    /\ pc = "itself"
    /\ UNCHANGED memory \/ Release({Array})
    /\ pc' = "failed"
    /\ UNCHANGED <<env, flags, argv, arg, dir, opened, files, capacity, entry, out>>

Timed == IF "u" \in flags THEN "atime" ELSE IF "c" \in flags THEN "ctime" ELSE "mtime"

\* What the chain of tests after the loop sorts by.
SortKey ==
    IF "f" \in flags THEN "none"
    ELSE IF "t" \in flags THEN Timed
    ELSE IF "l" \in flags THEN "name"
    ELSE IF {"u", "c"} \cap flags # {} THEN Timed
    ELSE "none"

\* A difference of two time_t is returned as int.
ToInt(n) == ((n + IntHalf) % (2 * IntHalf)) - IntHalf

Compare(key, f, g) ==
    IF key = "name" THEN Rank[f.name] - Rank[g.name]
    ELSE ToInt(g.st[key] - f.st[key])

\* qsort is only defined for a comparison that is an order.
IsOrder(key, fs) ==
    /\ \A f, g \in fs : Compare(key, f, g) > 0 <=> Compare(key, g, f) < 0
    /\ \A f, g, h \in fs :
         Compare(key, f, g) <= 0 /\ Compare(key, g, h) <= 0 => Compare(key, f, h) <= 0

Sorted(key, fs) ==
    LET all == SetToSeqs(Range(fs))
    IN  IF IsOrder(key, Range(fs))
        THEN {s \in all : \A j, k \in DOMAIN s : j < k => Compare(key, s[j], s[k]) <= 0}
        ELSE all

Sort ==
    /\ pc = "sort"
    /\ files' \in IF SortKey = "none" THEN {files} ELSE Sorted(SortKey, files)
    /\ pc' = "print"
    /\ UNCHANGED <<env, flags, argv, arg, dir, opened, capacity, entry, memory, out>>

-----------------------------------------------------------------------------
(* print_output and main *)

\* Mutant of TimeShown: -c is tested before -u.
TimeShownChange ==
    IF "c" \in flags THEN "ctime" ELSE IF "u" \in flags THEN "atime" ELSE "mtime"

\* time_to_use of the long format.
TimeShown == Timed

ColWidth == LET lens == {Lengths[f.name] : f \in Range(files)}
            IN  2 + IF lens = {} THEN 0 ELSE Max(lens)

Columns(width) == InColumns(files, NumCols(width, ColWidth))

Lines(width) ==
    IF {"l", "1"} \cap flags = {} THEN Columns(width)
    ELSE [k \in DOMAIN files |-> <<files[k]>>]

\* Without a terminal the ioctl fails and the width is whatever w holds.
PrintOutput ==
    /\ pc = "print"
    /\ arg = 1 \/ files # <<>>
    /\ \E width \in 0..MaxWidth :
         out' = [lines |-> Lines(width), time |-> TimeShown]
    /\ pc' = "free"
    /\ UNCHANGED <<env, flags, argv, arg, dir, opened, files, capacity, entry, memory>>

\* The first path frees everything, the tokens too, and -d ends there.
FreeFirst ==
    /\ pc = "free"
    /\ arg = 1
    /\ Release(BlocksOf(files) \cup {Array} \cup {b \in live : b[1] = "token"})
    /\ files' = <<>>
    /\ pc' = IF "d" \in flags THEN "exit" ELSE "next"
    /\ UNCHANGED <<env, flags, argv, arg, dir, opened, capacity, entry, out>>

FreeLater ==
    /\ pc = "free"
    /\ arg > 1
    /\ Release(BlocksOf(files) \cup {Array})
    /\ files' = <<>>
    /\ pc' = "next"
    /\ UNCHANGED <<env, flags, argv, arg, dir, opened, capacity, entry, out>>

\* count is 0: neither printed nor freed.
SkipEmpty ==
    /\ pc = "print"
    /\ arg > 1
    /\ files = <<>>
    /\ pc' = "next"
    /\ UNCHANGED <<env, flags, argv, arg, dir, opened, files, capacity, entry,
                   memory, out>>

\* count is -1: the program ends at the first path, and goes on at a later one.
Failed ==
    /\ pc = "failed"
    /\ pc' = IF arg = 1 THEN "exit" ELSE "next"
    /\ files' = <<>>
    /\ UNCHANGED <<env, flags, argv, arg, dir, opened, capacity, entry, memory, out>>

NextPath ==
    /\ pc = "next"
    /\ IF arg < Len(argv) THEN arg' = arg + 1 /\ pc' = "open"
       ELSE arg' = arg /\ pc' = "exit"
    /\ out' = Nothing
    /\ UNCHANGED <<env, flags, argv, dir, opened, files, capacity, entry, memory>>

Parse   == ParseInput \/ ParseFails
Process == OpenFails \/ OpenDir \/ SkipHidden \/ ReadEntry \/ ReadFails \/ Lstat
           \/ ReadLink \/ LinkFails \/ EndOfDir \/ ListItself \/ ListItselfFails \/ Sort
Main    == Parse \/ Process \/ PrintOutput \/ FreeFirst \/ FreeLater \/ SkipEmpty
           \/ Failed \/ NextPath

Next == Main \/ Others

Spec     == Init /\ [][Next]_vars
FairSpec == Spec /\ WF_vars(Main)
-----------------------------------------------------------------------------
(* Properties *)

Listing == {"read", "lstat", "link", "itself", "sort", "print", "free"}

\* All variables keep their types, the array never holds more than its
\* capacity, and the directory is open exactly while it is read.
TypeOK ==
    /\ stat \in Stats /\ flags \in Flags /\ argv \in CommandLines
    /\ present \in [Dirs -> SUBSET Names]
    /\ changed \subseteq Names /\ refused \subseteq Names
    /\ arg \in 1..Len(argv)
    /\ pc \in Listing \cup {"parse", "open", "failed", "next", "exit"}
    /\ dir \subseteq Names
    /\ opened \in BOOLEAN /\ (opened <=> pc \in {"read", "lstat", "link"})
    /\ files \in Seq(File)
    /\ Len(files) <= capacity
    /\ entry \in Names

\* Nothing is freed twice on any error path, nothing that is printed, compared
\* or freed later has been freed before: the slot of an entry that vanished
\* between readdir and lstat holds a dangling name, but is never counted.
FreedOnce ==
    /\ TypeOK
    /\ wild = {}
    /\ pc \in Listing => BlocksOf(files) \cup {Array} \subseteq live

\* A path that was listed or given up without -d leaves nothing behind,
\* except the array of an empty directory after the first path.
NothingLeaked ==
    pc = "next" =>
        live \subseteq {<<"files", n>> : n \in 2..arg} \cup Tokens(MaxTokens)

\* Whatever others do meanwhile, an entry that stayed is printed once if it
\* is to be shown and lstat told of it, and never if not; a hidden or foreign
\* one is never printed.
StayersListed ==
    pc = "free" /\ "d" \notin flags =>
        LET line == FlattenSeq(out.lines)
        IN  /\ \A n \in Names \ changed :
                 Cardinality({k \in DOMAIN line : line[k].name = n}) =
                     IF n \in present[Path] /\ Shows(n) /\ n \notin refused THEN 1 ELSE 0
            /\ \A k \in DOMAIN line : line[k].name \in {n \in Names : Shows(n)}
            /\ Len(line) = Len(files)

\* Times whose differences an int can hold.
Near == \A f, g \in Range(files), k \in {"mtime", "atime", "ctime"} :
            f.st[k] - g.st[k] < IntHalf

\* The first column of times that a long listing shows is the order of the
\* listing, newest first, when -t asks for it (if the comparison does not
\* overflow): two chains of tests of the options have to agree.
ShownInOrder ==
    pc = "free" /\ {"l", "t"} \subseteq flags /\ "f" \notin flags /\ Near =>
        LET line == FlattenSeq(out.lines)
        IN  \A j, k \in DOMAIN line :
               j < k => line[j].st[out.time] >= line[k].st[out.time]

\* Every run ends, though others create and remove entries all the time.
Ends == <>(pc = "exit")
=============================================================================
