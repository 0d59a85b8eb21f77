---------------------------- MODULE MCFirstQueue ----------------------------
(* Input files that create x1, go on with up to MaxLines lines, and one with   *)
(* a command more than there is room for.                                      *)
EXTENDS FirstQueue

CONSTANTS x1, x2, MaxLines

MCName == {x1, x2}

Create(n) == [op |-> "c", name |-> n]
Delete(n) == [op |-> "d", name |-> n]
Lookup(n) == [op |-> "l", name |-> n]

MCLine == {Create(x1), Create(x2), Delete(x1), Lookup(x1), Create(NoName), Other}

MCFile ==
  {<<Create(x1)>> \o f : f \in UNION {[1..n -> MCLine] : n \in 0..MaxLines}}
    \cup {<<Create(x1), Lookup(x2), Other, Create(x2), Delete(x1)>>}
=============================================================================
