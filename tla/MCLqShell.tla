------------------------------ MODULE MCLqShell ------------------------------
(***************************************************************************)
(* Values for the constants of LqShell.                                    *)
(***************************************************************************)
EXTENDS LqShell, TLC

CONSTANTS f, g, i1, i2

Word       == [op |-> "word"]
Op(o, x)   == [op |-> o, file |-> x]
Line(k, a, b) == [kind |-> k, cmd1 |-> a, cmd2 |-> b]

SomeLines ==
    {Line(k, <<>>, <<>>) : k \in {"prints", "badpipe", "cp", "mv", "free", "exit"}} \cup
    {Line("simple", a, <<>>) : a \in {
        <<Word>>, <<Op("<", f), Word, Op(">", g), Op("2>", f)>>,
        <<Word, Op(">", f), Op(">", g)>>, <<Word, Op("<", f), Op(">", "missing")>>,
        <<Word, Word, Op(">", f), Word>>, <<Op(">", f)>>}} \cup
    {Line("pipe", <<Word>>, b) : b \in {<<Word>>, <<Word, Op("<", g)>>, <<Op(">", f), Word>>}} \cup
    {Line("pipe", a, <<Word>>) : a \in {<<Word, Op("2>", f)>>, <<Word, Op(">", f)>>}}

TwoFiles   == {f, g}
TwoInodes  == {i1, i2}

Dir(s, d, n) == [x \in {"src", "dst", "in"} |->
                   IF x = "src" THEN s ELSE IF x = "dst" THEN d ELSE n]
SomeDirs == {Dir("none", "none", "none"), Dir(i1, "none", "none"), Dir(i1, i2, "none"),
             Dir(i1, "dir", "none"), Dir(i1, "dir", i2)}
=============================================================================
