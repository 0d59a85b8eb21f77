----------------------------- MODULE MCTecnicoFS -----------------------------
(* Input files of up to MaxLines lines over the commands of Kinds; a and b     *)
(* share a bucket, c has one of its own.                                       *)
EXTENDS TecnicoFS, HashOfName, TLC

CONSTANTS a, b, c, Kinds, MaxLines

MCName == {a, b, c}
FirstByte == (a :> 97) @@ (b :> 99) @@ (c :> 98)
MCBucket == 0..1
MCHash == [n \in MCName |-> hash(FirstByte[n], 2)]

Lines == {x \in D!Command : x.kind \in Kinds}
MCFile == UNION {[1..n -> Lines] : n \in 0..MaxLines}

\* For two workers: those that create a first, and go on with lines that get
\* in each other's way.
Create(n) == [kind |-> "create", name |-> n]
Delete(n) == [kind |-> "delete", name |-> n]
Rename(m, n) == [kind |-> "rename", name |-> m, name2 |-> n]

RacingLines ==
  {Create(c), Delete(a), Delete(c), Rename(a, b), Rename(a, c), Rename(c, a)}
MCRacingFile == {<<Create(a)>> \o f : f \in UNION {[1..n -> RacingLines] : n \in 0..2}}
=============================================================================
