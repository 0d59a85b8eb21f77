--------------------------- MODULE MCCommandQueue ---------------------------
(* Input files of up to MaxLines lines over two commands. *)
EXTENDS CommandQueue

CONSTANTS put, get, MaxLines

MCCommand == {put, get}
MCFile == UNION {[1..n -> MCCommand \cup {Comment, Invalid}] : n \in 0..MaxLines}
=============================================================================
