------------------------------- MODULE Inodes -------------------------------
(***************************************************************************)
(* The i-node table of the third program (lib/inodes.c).  Each function    *)
(* holds inode_table_lock from its first line to its last and takes no     *)
(* other lock, so it is one step.                                          *)
(*                                                                         *)
(* A free entry is FREE_INODE and nothing else: every function looks at    *)
(* the owner first and goes no further when the entry is free, and         *)
(* inode_create sets every field.                                          *)
(***************************************************************************)
EXTENDS TfsApi

CONSTANTS INODE_TABLE_SIZE, FREE_INODE

ASSUME SizeAssumption == INODE_TABLE_SIZE \in Nat

Inumber == 0..(INODE_TABLE_SIZE - 1)

Inode ==
  [owner : User, ownerPermissions : 0..3, othersPermissions : 0..3,
   fileContent : Content \cup {NULL}]

ASSUME FreeAssumption == FREE_INODE \notin Inode

VARIABLE inode_table

inode_table_init == inode_table = [i \in Inumber |-> FREE_INODE]

\* The test of inode_delete, inode_get and inode_set lets INODE_TABLE_SIZE pass.
Invalid(i) ==
  i < 0 \/ i > INODE_TABLE_SIZE \/ inode_table[i] = FREE_INODE

FreeInodes == {i \in Inumber : inode_table[i] = FREE_INODE}

FirstFree == CHOOSE i \in FreeInodes : \A j \in FreeInodes : i <= j

\* A fault: the loop's counter is returned when it has found nothing.
inode_create_past == IF FreeInodes = {} THEN INODE_TABLE_SIZE ELSE FirstFree

\* The number inode_create returns ...
inode_create_result == IF FreeInodes = {} THEN -1 ELSE FirstFree

\* ... and what it does.
inode_create(user, ownerPerm, othersPerm) ==
  inode_table' =
    IF FreeInodes = {}
    THEN inode_table
    ELSE [inode_table EXCEPT ![FirstFree] =
            [owner |-> user, ownerPermissions |-> ownerPerm,
             othersPermissions |-> othersPerm, fileContent |-> NULL]]

inode_delete(i) ==
  inode_table' =
    IF Invalid(i) THEN inode_table ELSE [inode_table EXCEPT ![i] = FREE_INODE]

\* What the caller's variables may hold afterwards: they are not initialised,
\* so after a failed call they hold anything.
inode_get(i) == IF Invalid(i) THEN Inode ELSE {inode_table[i]}

inode_set(i, content) ==
  inode_table' =
    IF Invalid(i) THEN inode_table ELSE [inode_table EXCEPT ![i].fileContent = content]

inode_set_result(i) == IF Invalid(i) THEN -1 ELSE 0
=============================================================================
