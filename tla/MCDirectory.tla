----------------------------- MODULE MCDirectory -----------------------------
(* Two threads, two buckets and three names, which start with 'a', 'c' and 'b':  *)
(* a and b share a bucket, c has one of its own.                                *)
EXTENDS Directory, HashOfName, TLC

CONSTANTS t1, t2, a, b, c

MCThread == {t1, t2}
MCName == {a, b, c}
FirstByte == (a :> 97) @@ (b :> 99) @@ (c :> 98)
MCBucket == 0..1
MCHash == [n \in MCName |-> hash(FirstByte[n], 2)]

\* The threads are interchangeable.
ThreadSymmetry == Permutations(MCThread)
=============================================================================
