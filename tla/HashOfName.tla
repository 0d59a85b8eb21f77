----------------------------- MODULE HashOfName ------------------------------
(* The bucket that lib/hash.c gives a name, as the instances for TLC choose    *)
(* the constant Hash of Directory.                                             *)
EXTENDS Integers

\* hash(name, n), where byte is the first of the name: a char is signed, and the
\* remainder of a negative number is not positive.
hash(byte, n) ==
  LET char == IF byte < 128 THEN byte ELSE byte - 256 IN
  IF char >= 0 THEN char % n ELSE -((-char) % n)
=============================================================================
