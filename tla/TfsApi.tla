------------------------------- MODULE TfsApi -------------------------------
(***************************************************************************)
(* What clients and server of the third program agree on: the requests of  *)
(* the client library (api.c), the answers and the permissions of          *)
(* tecnicofs-api-constants.h, and the rule by which the server permits a   *)
(* read or a write.                                                        *)
(***************************************************************************)
EXTENDS Integers

CONSTANTS
  Session,         \* client sessions
  User,            \* uids
  userOf,          \* the uid that SO_PEERCRED gives for each session
  Name,            \* file names
  Content,         \* what a client may write
  NULL,            \* the content of a file that has not been written
  CreateModes,     \* permissions clients create with, in their decimal encoding
  OpenModes,       \* modes clients open in
  Requests,        \* what the clients of an instance ask for
  MAX_TABLE_SIZE   \* descriptors per session

ASSUME UserAssumption == userOf \in [Session -> User]
ASSUME ModesAssumption ==
  /\ CreateModes \subseteq {10 * p + q : p \in 0..3, q \in 0..3}
  /\ OpenModes \subseteq 0..3
ASSUME TableAssumption == MAX_TABLE_SIZE \in Nat

WRITE == 1
READ == 2
RW == 3

FILE_ALREADY_EXISTS == -4
FILE_NOT_FOUND == -5
PERMISSION_DENIED == -6
MAXED_OPEN_FILES == -7
FILE_NOT_OPEN == -8
FILE_IS_OPEN == -9
INVALID_MODE == -10
ERROR_OTHER == -11

fds == 0..(MAX_TABLE_SIZE - 1)

\* -1 stands for every descriptor below 0 or above 5.  Descriptor 5, which the
\* server lets pass though its table ends at 4, is left out: what lies behind
\* the table is up to the compiler.
Request ==
  [kind : {"create"}, name : Name, permissions : CreateModes]
    \cup [kind : {"delete"}, name : Name]
    \cup [kind : {"rename"}, name : Name, name2 : Name]
    \cup [kind : {"open"}, name : Name, mode : OpenModes]
    \cup [kind : {"close", "read"}, fd : fds \cup {-1}]
    \cup [kind : {"write"}, fd : fds \cup {-1}, content : Content]

ASSUME RequestsAssumption == Requests \subseteq Request

NoRequest == [kind |-> "none"]

Answer == -11..MAX_TABLE_SIZE \cup Content \cup {NULL}

Closed == [iNumber |-> -1, mode |-> 0]

\* A bit of perm is in othersPermission.  The second argument may be a mode.
isPermitted(othersPermission, perm) ==
  \/ othersPermission = WRITE /\ perm \in {WRITE, RW}
  \/ othersPermission = READ /\ perm \in {READ, RW}
  \/ othersPermission = RW

\* The owner's permission is held against the mode of the descriptor and not
\* against what is asked for.
user_allowed(user, mode, perm, inode) ==
  IF ~isPermitted(perm, mode) THEN INVALID_MODE
  ELSE IF \/ user # inode.owner /\ isPermitted(inode.othersPermissions, perm)
          \/ user = inode.owner /\ isPermitted(inode.ownerPermissions, mode)
  THEN 0
  ELSE PERMISSION_DENIED
=============================================================================
