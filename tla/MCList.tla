------------------------------- MODULE MCList -------------------------------
(***************************************************************************)
(* Values for the constants of ListDirectory.                              *)
(***************************************************************************)
EXTENDS ListDirectory, TLC

CONSTANTS a, b, dot, home, tmp

ThreeNames == {a, b, dot}
DotNames   == {dot}
TwoDirs    == {home, tmp}

Time(l, m, u, c) == [link |-> l, mtime |-> m, atime |-> u, ctime |-> c]

\* Times in different orders; in the second set mtimes are too far apart for
\* an int, and their differences cycle.
SomeStats ==
    {(a :> Time(TRUE, 1, 2, 1)) @@ (b :> Time(FALSE, 2, 1, 3)) @@
       (dot :> Time(FALSE, 3, 1, 2)) @@ [d \in TwoDirs |-> Time(FALSE, 1, 1, 1)],
     (a :> Time(FALSE, 0, 2, 1)) @@ (b :> Time(TRUE, 3, 1, 3)) @@
       (dot :> Time(TRUE, 6, 1, 2)) @@ [d \in TwoDirs |-> Time(TRUE, 1, 1, 1)]}

SomeContents ==
    {(home :> ThreeNames) @@ (tmp :> {b}), (home :> {b, dot}) @@ (tmp :> {}),
     (home :> {}) @@ (tmp :> {a, b})}

SomeFlags == {{}, {"a"}, {"a", "d"}, {"f"}, {"f", "l", "t"}, {"a", "1", "u"}, {"c"},
              {"a", "l"}, {"a", "l", "t"}, {"a", "l", "t", "c"}, {"a", "l", "t", "u", "c"}}

SomeCommandLines == {<<home>>, <<home, tmp>>}
NameLengths == (a :> 1) @@ (b :> 2) @@ (dot :> 3) @@ (home :> 4) @@ (tmp :> 3)
NameRanks   == (a :> 2) @@ (b :> 3) @@ (dot :> 1)
=============================================================================
