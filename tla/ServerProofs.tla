---------------------------- MODULE ServerProofs ----------------------------
(***************************************************************************)
(* Proofs about Server, for any sessions, users, names and buckets, and    *)
(* for tables of any size, full ones included.                             *)
(***************************************************************************)
EXTENDS Server, WellFoundedInduction, TLAPS

\* The directory is a function; its operations are no more than short names.
USE DEF new_tecnicofs, lookup, create, delete

\* What a request of each kind carries.
LEMMA RequestFields ==
  ASSUME NEW r \in Requests \cup {NoRequest}
  PROVE  /\ r.kind \in {"none", "create", "delete", "rename", "open", "close", "read", "write"}
         /\ r.kind = "none" => r = NoRequest
         /\ r.kind \in {"create", "delete", "rename", "open"} => r.name \in Name
         /\ r.kind = "create" => r.permissions \in CreateModes
         /\ r.kind = "rename" => r.name2 \in Name
         /\ r.kind = "open" => r.mode \in OpenModes
         /\ r.kind \in {"close", "read", "write"} => r.fd \in fds \cup {-1}
         /\ r.kind = "write" => r.content \in Content
  BY RequestsAssumption DEF Request, NoRequest

\* A mode of two digits falls apart into the permissions of owner and others.
LEMMA Digits ==
  ASSUME NEW m \in CreateModes
  PROVE  m \div 10 \in 0..3 /\ m % 10 \in 0..3
  <1>1. PICK p \in 0..3, q \in 0..3 : m = 10 * p + q
    BY ModesAssumption
  <1> QED
    BY <1>1

LEMMA SmallestExists ==
  ASSUME NEW S, S \subseteq Nat, S # {}
  PROVE  \E i \in S : \A j \in S : i <= j
  <1> DEFINE less == OpToRel(<, Nat)
  <1>1. \A i, j \in Nat : i < j => <<i, j>> \in less
    BY DEF OpToRel
  <1>2. IsWellFoundedOn(less, Nat)
    BY NatLessThanWellFounded
  <1> HIDE DEF less
  <1>3. PICK i \in S : \A j \in S : <<j, i>> \notin less
    BY <1>2, WFMin
  <1>4. \A j \in S : i <= j
    <2> TAKE j \in S
    <2>1. ~(j < i)
      BY <1>1, <1>3
    <2> QED
      BY <1>3, <2>1
  <1> QED
    BY <1>4

\* inode_create finds the first free entry if there is one ...
LEMMA FirstFreeIsFree ==
  ASSUME FreeInodes # {}
  PROVE  FirstFree \in Inumber /\ inode_table[FirstFree] = FREE_INODE
  <1>1. FreeInodes \subseteq Nat
    BY SizeAssumption DEF FreeInodes, Inumber
  <1> QED
    BY <1>1, SmallestExists DEF FirstFree, FreeInodes

\* ... and inode_set leaves an entry of the table what it is.
LEMMA InodeSetTypes ==
  ASSUME inode_table \in [Inumber -> Inode \cup {FREE_INODE}],
         NEW i \in Inumber \cup {-1}, NEW content \in Content, inode_set(i, content)
  PROVE  /\ inode_table' \in [Inumber -> Inode \cup {FREE_INODE}]
         /\ \A j \in Inumber : inode_table'[j] = FREE_INODE <=> inode_table[j] = FREE_INODE
  <1>1. CASE Invalid(i)
    BY <1>1 DEF inode_set
  <1>2. CASE ~Invalid(i)
    <2>1. i \in Inumber /\ inode_table[i] \in Inode
      BY <1>2 DEF Invalid
    <2>2. [inode_table[i] EXCEPT !.fileContent = content] \in Inode
      BY <2>1 DEF Inode
    <2>3. inode_table' = [inode_table EXCEPT ![i] = [inode_table[i] EXCEPT !.fileContent = content]]
      BY <1>2 DEF inode_set
    <2> QED
      BY <2>1, <2>2, <2>3, FreeAssumption
  <1> QED
    BY <1>1, <1>2

-----------------------------------------------------------------------------
(* Types. *)

LEMMA InitTypeOK == Init => TypeOK
  BY SizeAssumption, TableAssumption
     DEF Init, inode_table_init, TypeOK, Closed, Label, Answer

\* Where a session thread goes or what it answers keeps the types.
LEMMA GotoTypes ==
  ASSUME TypeOK, NEW s \in Session, NEW label \in Label, NEW i \in Inumber \cup {-1},
         Goto(s, label, i)
  PROVE  /\ pc' \in [Session -> Label]
         /\ req' \in [Session -> Requests \cup {NoRequest}]
         /\ iNumber' \in [Session -> Inumber \cup {-1}]
         /\ answer' \in [Session -> Answer]
  BY DEF TypeOK, Goto

LEMMA ReplyTypes ==
  ASSUME TypeOK, NEW s \in Session, NEW reply \in Answer, Reply(s, reply)
  PROVE  /\ pc' \in [Session -> Label]
         /\ req' \in [Session -> Requests \cup {NoRequest}]
         /\ iNumber' \in [Session -> Inumber \cup {-1}]
         /\ answer' \in [Session -> Answer]
  BY DEF TypeOK, Reply, Label


LEMMA CreateTypes ==
  ASSUME TypeOK, NEW s \in Session, apply_create(s)
  PROVE  TypeOK'
  <1> DEFINE n == req[s].name
  <1>1. TypeOK /\ req[s] \in Requests \cup {NoRequest} /\ n \in Name
    BY RequestFields DEF apply_create, At, TypeOK
  <1>2. CASE At(s, "create", "lookup")
    <2>1. inode_table' = inode_table /\ dir' = dir /\ files' = files
      BY <1>2 DEF apply_create, At
    <2>2. Goto(s, "inode_create", -1) \/ Reply(s, FILE_ALREADY_EXISTS)
      BY <1>2 DEF apply_create, At
    <2> QED
      BY <1>1, <2>1, <2>2, GotoTypes, ReplyTypes, TableAssumption
         DEF TypeOK, Label, Answer, FILE_ALREADY_EXISTS
  <1>3. CASE At(s, "create", "inode_create")
    <2>1. /\ inode_create(userOf[s], req[s].permissions \div 10, req[s].permissions % 10)
          /\ Goto(s, "insert", inode_create_result)
          /\ dir' = dir /\ files' = files
      BY <1>3 DEF apply_create, At
    <2>2. inode_create_result \in Inumber \cup {-1}
      BY FirstFreeIsFree DEF inode_create_result
    <2>3. inode_table' \in [Inumber -> Inode \cup {FREE_INODE}]
      <3>1. /\ req[s].permissions \div 10 \in 0..3
            /\ req[s].permissions % 10 \in 0..3
            /\ userOf[s] \in User
        BY <1>1, <1>3, RequestFields, Digits, UserAssumption DEF At
      <3> QED
        BY <1>1, <2>1, <3>1, FirstFreeIsFree DEF inode_create, TypeOK, Inode
    <2> QED
      BY <1>1, <2>1, <2>2, <2>3, GotoTypes DEF TypeOK, Label
  <1>4. CASE At(s, "create", "insert")
    <2>1. /\ dir' = [dir EXCEPT ![n] = iNumber[s]]
          /\ Reply(s, 0)
          /\ inode_table' = inode_table /\ files' = files
      BY <1>4 DEF apply_create, At
    <2> QED
      BY <1>1, <2>1, ReplyTypes, TableAssumption DEF TypeOK, Answer
  <1> QED
    BY <1>2, <1>3, <1>4 DEF apply_create

LEMMA DeleteTypes ==
  ASSUME TypeOK, NEW s \in Session, apply_delete(s)
  PROVE  TypeOK'
  <1> DEFINE n == req[s].name
  <1>1. TypeOK /\ req[s] \in Requests \cup {NoRequest} /\ n \in Name
    BY RequestFields DEF apply_delete, At, TypeOK
  <1>2. {FILE_NOT_FOUND, PERMISSION_DENIED, 0} \subseteq Answer
    BY TableAssumption DEF Answer, FILE_NOT_FOUND, PERMISSION_DENIED
  <1>3. \/ \E i \in Inumber \cup {-1} : \E label \in Label : Goto(s, label, i)
        \/ \E reply \in Answer : Reply(s, reply)
    BY <1>1, <1>2 DEF apply_delete, At, TypeOK, Label
  <1>4. files' = files
    BY DEF apply_delete
  <1>5. dir' \in [Name -> Inumber \cup {-1}]
    BY <1>1 DEF apply_delete, TypeOK
  <1>6. inode_table' \in [Inumber -> Inode \cup {FREE_INODE}]
    BY <1>1 DEF apply_delete, inode_delete, TypeOK
  <1> QED
    BY <1>1, <1>3, <1>4, <1>5, <1>6, GotoTypes, ReplyTypes DEF TypeOK

LEMMA RenameTypes ==
  ASSUME TypeOK, NEW s \in Session, apply_rename(s)
  PROVE  TypeOK'
  <1>1. /\ TypeOK
        /\ req[s] \in Requests \cup {NoRequest}
        /\ req[s].name \in Name /\ req[s].name2 \in Name
    BY RequestFields DEF apply_rename, TypeOK
  <1>2. {FILE_NOT_FOUND, FILE_ALREADY_EXISTS, PERMISSION_DENIED, 0} \subseteq Answer
    BY TableAssumption DEF Answer, FILE_NOT_FOUND, FILE_ALREADY_EXISTS, PERMISSION_DENIED
  <1>3. \/ \E i \in Inumber \cup {-1} : \E label \in Label : Goto(s, label, i)
        \/ \E reply \in Answer : Reply(s, reply)
    BY <1>1, <1>2 DEF apply_rename, renameFile, TypeOK, Label
  <1>4. files' = files /\ inode_table' = inode_table
    BY DEF apply_rename
  <1>5. dir' \in [Name -> Inumber \cup {-1}]
    BY <1>1 DEF apply_rename, renameFile, TypeOK
  <1> QED
    BY <1>1, <1>3, <1>4, <1>5, GotoTypes, ReplyTypes DEF TypeOK

LEMMA OpenTypes ==
  ASSUME TypeOK, NEW s \in Session, apply_open(s)
  PROVE  TypeOK'
  <1> DEFINE i == dir[req[s].name]
             unused == {fd \in fds : files[s][fd].iNumber = -1}
             first == CHOOSE fd \in unused : \A other \in unused : fd <= other
  <1>1. /\ TypeOK
        /\ req[s].name \in Name /\ req[s].mode \in 0..3
        /\ i \in Inumber \cup {-1}
    <2>1. req[s] \in Requests \cup {NoRequest} /\ req[s].kind = "open"
      BY DEF apply_open, At, TypeOK
    <2>2. req[s].name \in Name /\ req[s].mode \in OpenModes
      BY <2>1, RequestFields
    <2>3. OpenModes \subseteq 0..3
      BY ModesAssumption
    <2>4. i \in Inumber \cup {-1}
      BY <2>2 DEF TypeOK
    <2> QED
      BY <2>2, <2>3, <2>4
  <1>2. {FILE_NOT_FOUND, FILE_IS_OPEN, MAXED_OPEN_FILES} \cup fds \subseteq Answer
    BY TableAssumption DEF Answer, FILE_NOT_FOUND, FILE_IS_OPEN, MAXED_OPEN_FILES, fds
  <1>3. unused # {} => first \in unused
    <2>1. unused \subseteq fds /\ fds \subseteq Nat
      BY TableAssumption DEF fds
    <2> HIDE DEF unused
    <2>2. unused # {} => \E fd \in unused : \A other \in unused : fd <= other
      BY <2>1, SmallestExists
    <2> QED
      BY <2>2
  <1>4. inode_table' = inode_table /\ dir' = dir
    BY DEF apply_open
  <1>5. \E reply \in Answer : Reply(s, reply)
    BY <1>2, <1>3 DEF apply_open
  <1>6. files' \in [Session -> [fds -> [iNumber : Inumber \cup {-1}, mode : 0..3]]]
    <2>1. CASE files' = files
      BY <1>1, <2>1 DEF TypeOK
    <2>2. CASE /\ unused # {}
               /\ files' = [files EXCEPT ![s][first] = [iNumber |-> i, mode |-> req[s].mode]]
      <3>1. first \in fds
        BY <1>3, <2>2
      <3>2. [iNumber |-> i, mode |-> req[s].mode] \in [iNumber : Inumber \cup {-1}, mode : 0..3]
        BY <1>1
      <3> HIDE DEF first, i
      <3> QED
        BY <1>1, <2>2, <3>1, <3>2 DEF TypeOK
    <2> QED
      BY <2>1, <2>2 DEF apply_open
  <1> QED
    BY <1>1, <1>4, <1>5, <1>6, ReplyTypes DEF TypeOK

LEMMA CloseTypes ==
  ASSUME TypeOK, NEW s \in Session, apply_close(s)
  PROVE  TypeOK'
  <1>1. TypeOK /\ req[s].fd \in fds \cup {-1}
    BY RequestFields DEF apply_close, At, TypeOK
  <1>2. {ERROR_OTHER, 0} \subseteq Answer
    BY TableAssumption DEF Answer, ERROR_OTHER
  <1>3. inode_table' = inode_table /\ dir' = dir
    BY DEF apply_close
  <1>4. \E reply \in Answer : Reply(s, reply)
    BY <1>2 DEF apply_close
  <1>5. files' \in [Session -> [fds -> [iNumber : Inumber \cup {-1}, mode : 0..3]]]
    <2>1. CASE files' = files
      BY <1>1, <2>1 DEF TypeOK
    <2>2. CASE req[s].fd # -1 /\ files' = [files EXCEPT ![s][req[s].fd] = Closed]
      <3>1. Closed \in [iNumber : Inumber \cup {-1}, mode : 0..3]
        BY DEF Closed
      <3> QED
        BY <1>1, <2>2, <3>1 DEF TypeOK
    <2> QED
      BY <2>1, <2>2 DEF apply_close
  <1> QED
    BY <1>1, <1>3, <1>4, <1>5, ReplyTypes DEF TypeOK

LEMMA CheckDescriptorTypes ==
  ASSUME TypeOK, NEW s \in Session, NEW perm, NEW next \in Label,
         req[s].kind \in {"read", "write"}, CheckDescriptor(s, perm, next)
  PROVE  TypeOK'
  <1>1. TypeOK /\ req[s].fd \in fds \cup {-1}
    BY RequestFields DEF TypeOK
  <1>2. {FILE_ALREADY_EXISTS, FILE_NOT_OPEN} \subseteq Answer
    BY TableAssumption DEF Answer, FILE_ALREADY_EXISTS, FILE_NOT_OPEN
  <1>3. \A user, mode, inode : user_allowed(user, mode, perm, inode) \in Answer
    BY TableAssumption DEF user_allowed, INVALID_MODE, PERMISSION_DENIED, Answer
  <1>4. inode_table' = inode_table /\ dir' = dir /\ files' = files
    BY DEF CheckDescriptor
  <1>5. \/ \E i \in Inumber \cup {-1} : Goto(s, next, i)
        \/ \E reply \in Answer : Reply(s, reply)
    <2>1. req[s].fd # -1 => files[s][req[s].fd].iNumber \in Inumber \cup {-1}
      BY <1>1 DEF TypeOK
    <2> QED
      BY <1>2, <1>3, <2>1 DEF CheckDescriptor
  <1> QED
    BY <1>1, <1>4, <1>5, GotoTypes, ReplyTypes DEF TypeOK

LEMMA WriteTypes ==
  ASSUME TypeOK, NEW s \in Session, apply_write(s)
  PROVE  TypeOK'
  <1>1. CASE req[s].kind = "write" /\ CheckDescriptor(s, WRITE, "inode_set")
    BY <1>1, CheckDescriptorTypes DEF Label
  <1>2. CASE At(s, "write", "inode_set")
    <2>1. TypeOK /\ req[s].content \in Content
      BY <1>2, RequestFields DEF At, TypeOK
    <2>2. /\ inode_set(iNumber[s], req[s].content)
          /\ Reply(s, inode_set_result(iNumber[s]))
          /\ dir' = dir /\ files' = files
      BY <1>2 DEF apply_write, At, CheckDescriptor
    <2>3. inode_set_result(iNumber[s]) \in Answer
      BY TableAssumption DEF inode_set_result, Answer
    <2>4. inode_table' \in [Inumber -> Inode \cup {FREE_INODE}]
      BY <2>1, <2>2, InodeSetTypes DEF TypeOK
    <2> QED
      BY <2>1, <2>2, <2>3, <2>4, ReplyTypes DEF TypeOK
  <1> QED
    BY <1>1, <1>2 DEF apply_write

LEMMA ReadTypes ==
  ASSUME TypeOK, NEW s \in Session, apply_read(s)
  PROVE  TypeOK'
  <1>1. CASE req[s].kind = "read" /\ CheckDescriptor(s, READ, "inode_get_content")
    BY <1>1, CheckDescriptorTypes DEF Label
  <1>2. CASE At(s, "read", "inode_get_content")
    <2> DEFINE reply ==
          IF Invalid(iNumber[s]) THEN NULL ELSE inode_table[iNumber[s]].fileContent
    <2>1. Reply(s, reply) /\ inode_table' = inode_table /\ dir' = dir /\ files' = files
      BY <1>2 DEF apply_read, At, CheckDescriptor
    <2>2. iNumber[s] \in Inumber \cup {-1} /\ inode_table \in [Inumber -> Inode \cup {FREE_INODE}]
      BY DEF TypeOK
    <2>3. reply \in Answer
      BY <2>2 DEF Answer, Invalid, Inode
    <2> HIDE DEF reply
    <2> QED
      BY <2>1, <2>3, ReplyTypes DEF TypeOK
  <1> QED
    BY <1>1, <1>2 DEF apply_read

LEMMA TypeStep == TypeOK /\ [Next]_vars => TypeOK'
  <1> SUFFICES ASSUME TypeOK, [Next]_vars PROVE TypeOK'
    OBVIOUS
  <1>1. ASSUME NEW s \in Session, applyComands(s)
        PROVE  TypeOK'
    BY <1>1, CreateTypes, DeleteTypes, RenameTypes, OpenTypes, CloseTypes,
       WriteTypes, ReadTypes DEF applyComands
  <1>2. ASSUME NEW s \in Session, Mount(s)
        PROVE  TypeOK'
    BY <1>2 DEF Mount, TypeOK, Closed
  <1>3. ASSUME NEW s \in Session, NEW r \in Requests, Call(s, r)
        PROVE  TypeOK'
    BY <1>3 DEF Call, TypeOK, Label, Answer
  <1>4. CASE UNCHANGED vars
    BY <1>4 DEF vars, TypeOK
  <1> QED
    BY <1>1, <1>2, <1>3, <1>4 DEF Next

\* The state keeps its types whatever clients do, a full i-node table and stale
\* descriptors included: no thread ever follows an i-number out of the table.
THEOREM TypeCorrect == Spec => []TypeOK
  BY InitTypeOK, TypeStep, PTL DEF Spec
-----------------------------------------------------------------------------
(* Directory and i-node table. *)

Idle == \A s \in Session : pc[s] = "idle" => req[s] = NoRequest

\* No name is in two requests that change names.
Apart ==
  \A s, t \in Session :
    s # t /\ Changes(req[s]) /\ Changes(req[t])
      => NamesOf(req[s]) \cap NamesOf(req[t]) = {}

\* What a session has found in the directory is still so: nobody else changes
\* the names of its request.
StillSo(s) ==
  LET n == req[s].name IN
  /\ At(s, "create", "inode_create") \/ At(s, "create", "insert") => dir[n] = -1
  /\ At(s, "delete", "inode_get_owner") \/ At(s, "delete", "inode_delete")
       => iNumber[s] = dir[n] /\ dir[n] # -1
  /\ At(s, "rename", "lookup_new") => iNumber[s] = dir[n]
  /\ req[s].kind = "rename"
       /\ pc[s] \in {"inode_get_owner", "lookup_again", "lookup_new_again", "move"}
       => iNumber[s] = dir[n] /\ dir[n] # -1
  /\ At(s, "rename", "move") => dir[req[s].name2] = -1

\* An i-node that has been created and has no name yet is its session's alone.
Unnamed(s) ==
  At(s, "create", "insert") /\ iNumber[s] # -1 =>
    /\ inode_table[iNumber[s]] # FREE_INODE
    /\ \A n \in Name : dir[n] = iNumber[s] => Leaving(n)
    /\ \A t \in Session : At(t, "create", "insert") /\ iNumber[t] = iNumber[s] => t = s

\* The inductive invariant.
IInv ==
  /\ TypeOK /\ Idle /\ Apart
  /\ \A s \in Session : StillSo(s) /\ Unnamed(s)
  /\ NamesHaveInodes

LEMMA InitIInv == Init => IInv
  <1> SUFFICES ASSUME Init PROVE IInv
    OBVIOUS
  <1>1. TypeOK
    BY InitTypeOK
  <1>2. \A s \in Session : req[s] = NoRequest /\ req[s].kind = "none" /\ pc[s] = "idle"
    BY DEF Init, NoRequest
  <1>3. Idle /\ Apart
    BY <1>2 DEF Idle, Apart, Changes
  <1>4. \A s \in Session : StillSo(s) /\ Unnamed(s)
    BY <1>2 DEF StillSo, Unnamed, At
  <1>5. NamesHaveInodes
    BY DEF Init, inode_table_init, NamesHaveInodes
  <1> QED
    BY <1>1, <1>3, <1>4, <1>5 DEF IInv

\* A step is one session's, and the others are where they were.
OthersStay(s) ==
  \A t \in Session \ {s} : pc'[t] = pc[t] /\ req'[t] = req[t] /\ iNumber'[t] = iNumber[t]

LEMMA StepMoves ==
  ASSUME TypeOK, NEW s \in Session,
         \/ \E label, i : Goto(s, label, i)
         \/ \E reply : Reply(s, reply)
         \/ Mount(s) \/ \E r \in Requests : Call(s, r)
  PROVE  OthersStay(s)
  BY DEF TypeOK, OthersStay, Goto, Reply, Mount, Call

\* Every step of a session thread ends in Goto or in Reply.
LEMMA ThreadMoves ==
  ASSUME NEW s \in Session, applyComands(s)
  PROVE  (\E label, i : Goto(s, label, i)) \/ (\E reply : Reply(s, reply))
  BY DEF applyComands, apply_create, apply_delete, apply_rename, renameFile, apply_open,
         apply_close, apply_write, apply_read, CheckDescriptor

LEMMA IdleStep == IInv /\ [Next]_vars => Idle' /\ Apart'
  <1> SUFFICES ASSUME IInv, [Next]_vars PROVE Idle' /\ Apart'
    OBVIOUS
  <1>1. TypeOK /\ Idle /\ Apart
    BY DEF IInv
  <1>2. ASSUME NEW s \in Session, applyComands(s)
        PROVE  Idle' /\ Apart'
    <2>1. OthersStay(s)
      BY <1>1, <1>2, StepMoves, ThreadMoves
    <2>2. \/ pc'[s] = "idle" /\ req'[s] = NoRequest
          \/ req'[s] = req[s] /\ (pc'[s] = "idle" => req[s] = NoRequest)
      BY <1>1, <1>2
         DEF applyComands, apply_create, apply_delete, apply_rename, renameFile, apply_open,
             apply_close, apply_write, apply_read, CheckDescriptor, Goto, Reply, TypeOK
    <2>3. ~Changes(NoRequest)
      BY DEF Changes, NoRequest
    <2> QED
      BY <1>1, <2>1, <2>2, <2>3 DEF OthersStay, Idle, Apart
  <1>3. ASSUME NEW s \in Session, Mount(s) 
        PROVE  Idle' /\ Apart'
    BY <1>1, <1>3 DEF Mount, Idle, Apart
  <1>4. ASSUME NEW s \in Session, NEW r \in Requests, Call(s, r)
        PROVE  Idle' /\ Apart'
    <2>1. OthersStay(s) /\ req'[s] = r /\ pc'[s] # "idle"
      BY <1>1, <1>4, StepMoves DEF Call, TypeOK
    <2>2. \A t \in Session \ {s} :
            Changes(req[t]) /\ Changes(r) => NamesOf(req[t]) \cap NamesOf(r) = {}
      <3> TAKE t \in Session \ {s}
      <3>1. pc[t] = "idle" => ~Changes(req[t])
        BY <1>1 DEF Idle, Changes, NoRequest
      <3>2. pc[t] # "idle" => ~Clash(req[t], r)
        BY <1>4 DEF Call, Conduct
      <3> QED
        BY <3>1, <3>2 DEF Clash
    <2> QED
      BY <1>1, <2>1, <2>2 DEF OthersStay, Idle, Apart
  <1>5. CASE UNCHANGED vars
    BY <1>1, <1>5 DEF vars, Idle, Apart
  <1> QED
    BY <1>2, <1>3, <1>4, <1>5 DEF Next

\* The names a request changes, for one session and against another.
LEMMA NamesApart ==
  ASSUME IInv, NEW s \in Session, NEW t \in Session \ {s},
         req[s].kind \in {"create", "delete", "rename"},
         req[t].kind \in {"create", "delete", "rename"}
  PROVE  /\ req[s].name # req[t].name
         /\ req[s].kind = "rename" => req[s].name2 # req[t].name
         /\ req[t].kind = "rename" => req[s].name # req[t].name2
         /\ req[s].kind = "rename" /\ req[t].kind = "rename" => req[s].name2 # req[t].name2
  <1>1. NamesOf(req[s]) \cap NamesOf(req[t]) = {}
    BY DEF IInv, Apart, Changes
  <1>2. ASSUME NEW r, r.kind \in {"create", "delete", "rename"}
        PROVE  r.name \in NamesOf(r) /\ (r.kind = "rename" => r.name2 \in NamesOf(r))
    BY <1>2 DEF NamesOf
  <1> QED
    BY <1>1, <1>2

\* A step that changes neither the directory nor what is in use, of a session
\* that is not between two parts of a change, only has to keep StillSo.
Between(s) == At(s, "create", "insert") \/ At(s, "delete", "remove")

LEMMA QuietStep ==
  ASSUME IInv, TypeOK', NEW s \in Session, OthersStay(s), dir' = dir,
         \A i \in Inumber : inode_table'[i] = FREE_INODE <=> inode_table[i] = FREE_INODE,
         ~Between(s), ~Between(s)', StillSo(s)'
  PROVE  /\ \A t \in Session : StillSo(t)' /\ Unnamed(t)'
         /\ NamesHaveInodes'
  <1> USE DEF IInv
  <1>1. \A t \in Session \ {s} : \A kind, label : At(t, kind, label)' <=> At(t, kind, label)
    BY DEF OthersStay, At
  <1>2. \A t \in Session : /\ At(t, "create", "insert")' <=> At(t, "create", "insert")
                           /\ At(t, "delete", "remove")' <=> At(t, "delete", "remove")
    BY <1>1 DEF Between
  <1>3. \A n \in Name : Leaving(n)' <=> Leaving(n)
    BY <1>2 DEF Leaving, OthersStay, Between
  <1>4. \A t \in Session : At(t, "create", "insert") => t # s /\ iNumber'[t] = iNumber[t]
    BY DEF Between, OthersStay
  <1>5. \A t \in Session \ {s} : StillSo(t)'
    BY DEF StillSo, OthersStay, At
  <1>6. ASSUME NEW t \in Session
        PROVE  Unnamed(t)'
    <2>1. iNumber[t] \in Inumber \cup {-1}
      BY DEF TypeOK
    <2> QED
      BY <1>2, <1>3, <1>4, <2>1 DEF Unnamed
  <1>7. NamesHaveInodes'
    <2>1. \A n \in Name : dir[n] \in Inumber \cup {-1}
      BY DEF TypeOK
    <2>2. \A n \in Name :
            dir'[n] # -1 /\ ~Leaving(n)' =>
              /\ inode_table'[dir'[n]] # FREE_INODE
              /\ \A m \in Name : dir'[m] = dir'[n] /\ ~Leaving(m)' => m = n
      BY <1>3, <2>1 DEF NamesHaveInodes
    <2>3. \A i \in Inumber :
            inode_table'[i] # FREE_INODE =>
              \/ \E n \in Name : dir'[n] = i /\ ~Leaving(n)'
              \/ \E t \in Session : At(t, "create", "insert")' /\ iNumber'[t] = i
      BY <1>2, <1>3, <1>4 DEF NamesHaveInodes
    <2> QED
      BY <2>2, <2>3 DEF NamesHaveInodes
  <1> QED
    BY <1>5, <1>6, <1>7

\* What IInv' is about, beyond types and what IdleStep shows.
Kept == (\A t \in Session : StillSo(t)' /\ Unnamed(t)') /\ NamesHaveInodes'

LEMMA CallKeeps ==
  ASSUME IInv, TypeOK', NEW s \in Session,
         Mount(s) \/ \E r \in Requests : Call(s, r)
  PROVE  Kept
  <1>1. OthersStay(s)
    BY StepMoves DEF IInv
  <1>2. dir' = dir /\ inode_table' = inode_table
    BY DEF Mount, Call
  <1>3. pc[s] = "idle" /\ req[s] = NoRequest
    BY DEF Mount, Call, IInv, Idle
  <1>4. pc'[s] \in {"idle", "lookup", "close", "user_allowed"}
    BY <1>3 DEF Mount, Call, IInv, TypeOK
  <1>5. ~Between(s) /\ ~Between(s)' /\ StillSo(s)'
    BY <1>3, <1>4 DEF Between, At, StillSo
  <1> QED
    BY <1>1, <1>2, <1>5, QuietStep DEF Kept

\* open, close, write and read have nothing to do with names that change.
LEMMA OtherRequestsKeep ==
  ASSUME IInv, TypeOK', NEW s \in Session,
         apply_open(s) \/ apply_close(s) \/ apply_write(s) \/ apply_read(s)
  PROVE  Kept
  <1>1. OthersStay(s)
    BY StepMoves, ThreadMoves DEF IInv, applyComands
  <1>2. dir' = dir
    BY DEF apply_open, apply_close, apply_write, apply_read, CheckDescriptor
  <1>3. req[s].kind \in {"open", "close", "read", "write"}
    BY DEF apply_open, apply_close, apply_write, apply_read, At
  <1>4. pc'[s] = "idle" \/ req'[s] = req[s]
    BY DEF apply_open, apply_close, apply_write, apply_read, CheckDescriptor, Goto, Reply,
           IInv, TypeOK
  <1>5. ~Between(s) /\ ~Between(s)' /\ StillSo(s)'
    BY <1>3, <1>4 DEF Between, At, StillSo
  <1>6. \A i \in Inumber : inode_table'[i] = FREE_INODE <=> inode_table[i] = FREE_INODE
    <2>1. CASE inode_table' = inode_table
      BY <2>1
    <2>2. CASE At(s, "write", "inode_set") /\ inode_set(iNumber[s], req[s].content)
      BY <2>2, RequestFields, InodeSetTypes DEF IInv, TypeOK, At
    <2> QED
      BY <2>1, <2>2 DEF apply_open, apply_close, apply_write, apply_read, CheckDescriptor
  <1> QED
    BY <1>1, <1>2, <1>5, <1>6, QuietStep DEF Kept

LEMMA CreateKeeps ==
  ASSUME IInv, TypeOK', NEW s \in Session, apply_create(s)
  PROVE  Kept
  <1> DEFINE n == req[s].name
             new == iNumber[s]
  <1>1. OthersStay(s) /\ TypeOK /\ n \in Name /\ req[s].kind = "create"
    <2>1. OthersStay(s)
      BY StepMoves, ThreadMoves DEF IInv, applyComands
    <2>2. TypeOK /\ req[s] \in Requests \cup {NoRequest} /\ req[s].kind = "create"
      BY DEF IInv, TypeOK, apply_create, At
    <2> QED
      BY <2>1, <2>2, RequestFields
  <1>2. CASE At(s, "create", "lookup")
    <2>1. dir' = dir /\ inode_table' = inode_table
      BY <1>2 DEF apply_create, At
    <2>2. \/ dir[n] = -1 /\ Goto(s, "inode_create", -1)
          \/ Reply(s, FILE_ALREADY_EXISTS)
      BY <1>2 DEF apply_create, At
    <2>3. ~Between(s) /\ ~Between(s)' /\ StillSo(s)'
      BY <1>1, <1>2, <2>1, <2>2 DEF Between, At, StillSo, Goto, Reply, TypeOK
    <2> QED
      BY <1>1, <2>1, <2>3, QuietStep DEF Kept
  <1>3. CASE At(s, "create", "inode_create")
    <2>1. /\ inode_create(userOf[s], req[s].permissions \div 10, req[s].permissions % 10)
          /\ Goto(s, "insert", inode_create_result)
          /\ dir' = dir
      BY <1>3 DEF apply_create, At
    <2>2. /\ pc'[s] = "insert" /\ req'[s] = req[s]
          /\ iNumber'[s] = inode_create_result
          /\ At(s, "create", "insert")'
      BY <1>1, <2>1 DEF Goto, TypeOK, At
    <2>3. \A m \in Name : Leaving(m)' <=> Leaving(m)
      BY <1>1, <1>3, <2>2 DEF Leaving, OthersStay, At
    <2>4. \A t \in Session \ {s} :
            At(t, "create", "insert")' <=> At(t, "create", "insert")
      BY <1>1 DEF OthersStay, At
    <2>5. \A t \in Session : StillSo(t)'
      BY <1>1, <1>3, <2>1, <2>2 DEF IInv, StillSo, OthersStay, At
    <2>6. CASE FreeInodes = {}
      <3>1. inode_table' = inode_table /\ iNumber'[s] = -1
        BY <2>1, <2>2, <2>6 DEF inode_create, inode_create_result
      <3>2. \A t \in Session : Unnamed(t)'
        BY <1>1, <2>1, <2>3, <2>4, <3>1 DEF IInv, Unnamed, OthersStay
      <3>3. NamesHaveInodes'
        BY <1>1, <1>3, <2>1, <2>3, <2>4, <3>1 DEF IInv, NamesHaveInodes, OthersStay, At
      <3> QED
        BY <2>5, <3>2, <3>3 DEF Kept
    <2>7. CASE FreeInodes # {}
      <3> DEFINE i == iNumber'[s]
      <3>1. i \in Inumber /\ inode_table[i] = FREE_INODE /\ i # -1
        <4>1. i = FirstFree
          BY <2>2, <2>7 DEF inode_create_result
        <4>2. FirstFree \in Inumber /\ inode_table[FirstFree] = FREE_INODE
          BY <2>7, FirstFreeIsFree
        <4>3. -1 \notin Inumber
          BY SizeAssumption DEF Inumber
        <4> HIDE DEF i
        <4> QED
          BY <4>1, <4>2, <4>3
      <3>2. /\ inode_table'[i] # FREE_INODE
            /\ \A j \in Inumber \ {i} : inode_table'[j] = inode_table[j]
        <4>1. inode_table'[i] # FREE_INODE
          <5>1. i = FirstFree
            BY <2>2, <2>7 DEF inode_create_result
          <5>2. inode_table'[i] =
                  [owner |-> userOf[s], ownerPermissions |-> req[s].permissions \div 10,
                   othersPermissions |-> req[s].permissions % 10, fileContent |-> NULL]
            BY <1>1, <2>1, <2>7, <3>1, <5>1 DEF inode_create, TypeOK
          <5>3. /\ req[s].permissions \div 10 \in 0..3 /\ req[s].permissions % 10 \in 0..3
                /\ userOf[s] \in User
            BY <1>1, RequestFields, Digits, UserAssumption DEF TypeOK
          <5> QED
            BY <5>2, <5>3, FreeAssumption DEF Inode
        <4>2. i = FirstFree
          BY <2>2, <2>7 DEF inode_create_result
        <4> QED
          BY <1>1, <2>1, <2>7, <4>1, <4>2 DEF inode_create, TypeOK
      <3>3. \A m \in Name : dir[m] = i => Leaving(m)
        BY <3>1 DEF IInv, NamesHaveInodes
      <3>4. \A t \in Session : At(t, "create", "insert") => iNumber[t] # i
        BY <3>1 DEF IInv, Unnamed
      <3> HIDE DEF i
      <3>5. Unnamed(s)'
        <4>1. \A t \in Session : At(t, "create", "insert")' /\ iNumber'[t] = i => t = s
          BY <1>1, <2>4, <3>4 DEF OthersStay
        <4> QED
          BY <2>1, <2>3, <3>1, <3>2, <3>3, <4>1 DEF Unnamed, i
      <3>6. ASSUME NEW t \in Session \ {s}
            PROVE  Unnamed(t)'
        <4>1. SUFFICES ASSUME At(t, "create", "insert"), iNumber[t] # -1 PROVE Unnamed(t)'
          BY <1>1, <2>4 DEF Unnamed, OthersStay
        <4>2. iNumber[t] \in Inumber \ {i} /\ iNumber'[t] = iNumber[t]
          BY <1>1, <3>4, <4>1 DEF OthersStay, TypeOK
        <4>3. inode_table'[iNumber'[t]] # FREE_INODE
          BY <3>2, <4>1, <4>2 DEF IInv, Unnamed
        <4>4. \A m \in Name : dir'[m] = iNumber'[t] => Leaving(m)'
          BY <2>1, <2>3, <4>1, <4>2 DEF IInv, Unnamed
        <4>5. \A u \in Session : At(u, "create", "insert")' /\ iNumber'[u] = iNumber'[t] => u = t
          BY <1>1, <2>4, <4>1, <4>2 DEF IInv, Unnamed, OthersStay, i
        <4> QED
          BY <4>3, <4>4, <4>5 DEF Unnamed
      <3>7. NamesHaveInodes'
        <4>1. \A m \in Name :
                dir[m] # -1 /\ ~Leaving(m) =>
                  /\ inode_table'[dir[m]] # FREE_INODE
                  /\ \A k \in Name : dir[k] = dir[m] /\ ~Leaving(k) => k = m
          BY <1>1, <3>2, <3>3 DEF IInv, NamesHaveInodes, TypeOK
        <4>2. \A j \in Inumber :
                inode_table'[j] # FREE_INODE =>
                  \/ \E m \in Name : dir[m] = j /\ ~Leaving(m)
                  \/ \E t \in Session : At(t, "create", "insert")' /\ iNumber'[t] = j
          <5> TAKE j \in Inumber
          <5>1. CASE j = i
            BY <2>2, <5>1 DEF i
          <5>2. CASE j # i
            <6> SUFFICES ASSUME inode_table[j] # FREE_INODE
                         PROVE  \/ \E m \in Name : dir[m] = j /\ ~Leaving(m)
                                \/ \E t \in Session : At(t, "create", "insert")' /\ iNumber'[t] = j
              BY <3>2, <5>2
            <6>1. \A t \in Session : At(t, "create", "insert") => t # s
              BY <1>3 DEF At
            <6> QED
              BY <1>1, <2>4, <6>1 DEF IInv, NamesHaveInodes, OthersStay
          <5> QED
            BY <5>1, <5>2
        <4> QED
          BY <2>1, <2>3, <4>1, <4>2 DEF NamesHaveInodes
      <3> QED
        BY <2>5, <3>5, <3>6, <3>7 DEF Kept
    <2> QED
      BY <2>6, <2>7
  <1>4. CASE At(s, "create", "insert")
    <2>1. /\ dir' = [dir EXCEPT ![n] = new]
          /\ Reply(s, 0)
          /\ inode_table' = inode_table
      BY <1>4 DEF apply_create, At
    <2>2. /\ dir'[n] = new /\ \A m \in Name \ {n} : dir'[m] = dir[m]
          /\ dir[n] = -1
      BY <1>1, <1>4, <2>1 DEF TypeOK, IInv, StillSo
    <2>3. pc'[s] = "idle"
      BY <1>1, <2>1 DEF Reply, TypeOK
    <2>4. \A m \in Name : Leaving(m)' <=> Leaving(m)
      BY <1>1, <1>4, <2>3 DEF Leaving, OthersStay, At
    <2>5. ~Leaving(n)
      BY <1>1, NamesApart DEF Leaving, At
    <2>6. \A t \in Session : At(t, "create", "insert")' <=> t # s /\ At(t, "create", "insert")
      BY <1>1, <2>3 DEF OthersStay, At
    <2>7. ASSUME NEW t \in Session
          PROVE  StillSo(t)'
      <3>1. CASE t = s
        BY <2>3, <3>1 DEF StillSo, At
      <3>2. CASE t # s
        <4>1. CASE req[t].kind \in {"create", "delete", "rename"}
          <5>1. /\ req[t].name # n
                /\ req[t].kind = "rename" => req[t].name2 # n
            BY <1>1, <3>2, <4>1, NamesApart
          <5>2. req[t].name \in Name /\ (req[t].kind = "rename" => req[t].name2 \in Name)
            BY <1>1, <4>1, RequestFields DEF TypeOK
          <5> QED
            BY <1>1, <2>2, <3>2, <5>1, <5>2 DEF IInv, StillSo, OthersStay, At
        <4>2. CASE req[t].kind \notin {"create", "delete", "rename"}
          BY <1>1, <3>2, <4>2 DEF StillSo, OthersStay, At
        <4> QED
          BY <4>1, <4>2
      <3> QED
        BY <3>1, <3>2
    <2>8. ASSUME NEW t \in Session
          PROVE  Unnamed(t)'
      <3>1. SUFFICES ASSUME t # s, At(t, "create", "insert"), iNumber[t] # -1
                     PROVE  Unnamed(t)'
        BY <1>1, <2>6 DEF Unnamed, OthersStay
      <3>2. iNumber[t] # new /\ iNumber'[t] = iNumber[t]
        BY <1>1, <1>4, <3>1 DEF IInv, Unnamed, OthersStay
      <3> QED
        BY <1>1, <2>1, <2>2, <2>4, <2>6, <3>1, <3>2 DEF IInv, Unnamed, OthersStay
    <2>9. NamesHaveInodes'
      <3>1. new # -1 => inode_table[new] # FREE_INODE /\ \A m \in Name : dir[m] = new => Leaving(m)
        BY <1>4 DEF IInv, Unnamed
      <3>2. \A m \in Name :
              dir'[m] # -1 /\ ~Leaving(m) =>
                /\ inode_table[dir'[m]] # FREE_INODE
                /\ \A k \in Name : dir'[k] = dir'[m] /\ ~Leaving(k) => k = m
        BY <2>2, <3>1 DEF IInv, NamesHaveInodes
      <3>3. \A j \in Inumber :
              inode_table[j] # FREE_INODE =>
                \/ \E m \in Name : dir'[m] = j /\ ~Leaving(m)
                \/ \E t \in Session : At(t, "create", "insert")' /\ iNumber'[t] = j
        <4> SUFFICES ASSUME NEW j \in Inumber, inode_table[j] # FREE_INODE
                     PROVE  \/ \E m \in Name : dir'[m] = j /\ ~Leaving(m)
                            \/ \E t \in Session : At(t, "create", "insert")' /\ iNumber'[t] = j
          OBVIOUS
        <4>1. CASE \E m \in Name : dir[m] = j /\ ~Leaving(m)
          <5>1. j # -1
            BY SizeAssumption DEF Inumber
          <5> QED
            BY <2>2, <4>1, <5>1
        <4>2. CASE \E t \in Session : At(t, "create", "insert") /\ iNumber[t] = j
          BY <1>1, <2>2, <2>5, <2>6, <4>2 DEF OthersStay
        <4> QED
          BY <4>1, <4>2 DEF IInv, NamesHaveInodes
      <3> QED
        BY <2>1, <2>4, <3>2, <3>3 DEF NamesHaveInodes
    <2> QED
      BY <2>7, <2>8, <2>9 DEF Kept
  <1> QED
    BY <1>2, <1>3, <1>4 DEF apply_create

LEMMA DeleteKeeps ==
  ASSUME IInv, TypeOK', NEW s \in Session, apply_delete(s)
  PROVE  Kept
  <1> DEFINE n == req[s].name
             i == iNumber[s]
  <1>1. OthersStay(s) /\ TypeOK /\ n \in Name /\ req[s].kind = "delete"
    <2>1. OthersStay(s)
      BY StepMoves, ThreadMoves DEF IInv, applyComands
    <2>2. TypeOK /\ req[s] \in Requests \cup {NoRequest} /\ req[s].kind = "delete"
      BY DEF IInv, TypeOK, apply_delete, At
    <2> QED
      BY <2>1, <2>2, RequestFields
  <1>2. CASE At(s, "delete", "lookup") \/ At(s, "delete", "inode_get_owner")
    <2>1. dir' = dir /\ inode_table' = inode_table
      BY <1>2 DEF apply_delete, At
    <2>2. \/ At(s, "delete", "lookup") /\ dir[n] # -1 /\ Goto(s, "inode_get_owner", dir[n])
          \/ At(s, "delete", "inode_get_owner") /\ Goto(s, "inode_delete", iNumber[s])
          \/ \E reply : Reply(s, reply)
      BY <1>2 DEF apply_delete, At
    <2>3. ~Between(s) /\ ~Between(s)' /\ StillSo(s)'
      BY <1>1, <1>2, <2>1, <2>2 DEF Between, At, StillSo, Goto, Reply, TypeOK, IInv
    <2> QED
      BY <1>1, <2>1, <2>3, QuietStep DEF Kept
  <1>3. CASE At(s, "delete", "inode_delete")
    <2>1. inode_delete(i) /\ Goto(s, "remove", i) /\ dir' = dir
      BY <1>3 DEF apply_delete, At
    <2>2. pc'[s] = "remove" /\ req'[s] = req[s]
      BY <1>1, <2>1 DEF Goto, TypeOK
    <2>3. i = dir[n] /\ i \in Inumber /\ i # -1
      BY <1>1, <1>3 DEF IInv, StillSo, TypeOK
    <2>4. /\ inode_table'[i] = FREE_INODE
          /\ \A j \in Inumber \ {i} : inode_table'[j] = inode_table[j]
      <3>1. inode_table \in [Inumber -> Inode \cup {FREE_INODE}]
        BY <1>1 DEF TypeOK
      <3>2. CASE Invalid(i)
        <4>1. inode_table[i] = FREE_INODE
          BY <2>3, <3>2, SizeAssumption DEF Invalid, Inumber
        <4> QED
          BY <2>1, <3>2, <4>1 DEF inode_delete
      <3>3. CASE ~Invalid(i)
        BY <2>1, <2>3, <3>1, <3>3 DEF inode_delete
      <3> QED
        BY <3>2, <3>3
    <2>5. \A m \in Name : Leaving(m)' <=> Leaving(m) \/ m = n
      BY <1>1, <1>3, <2>2 DEF Leaving, OthersStay, At
    <2>6. ~Leaving(n)
      BY <1>1, <1>3, NamesApart DEF Leaving, At
    <2>7. \A m \in Name : dir[m] = i /\ ~Leaving(m) => m = n
      BY <1>1, <2>3, <2>6 DEF IInv, NamesHaveInodes
    <2>8. \A t \in Session :
            /\ At(t, "create", "insert")' <=> At(t, "create", "insert")
            /\ At(t, "create", "insert") => t # s /\ iNumber'[t] = iNumber[t]
      BY <1>1, <1>3, <2>2 DEF OthersStay, At
    <2>9. \A t \in Session : StillSo(t)'
      BY <1>1, <1>3, <2>1, <2>2 DEF IInv, StillSo, OthersStay, At
    <2>10. ASSUME NEW t \in Session
           PROVE  Unnamed(t)'
      <3>1. SUFFICES ASSUME At(t, "create", "insert"), iNumber[t] # -1
                     PROVE  Unnamed(t)'
        BY <2>8 DEF Unnamed
      <3>2. iNumber[t] # i /\ iNumber[t] \in Inumber
        BY <1>1, <2>3, <2>6, <3>1 DEF IInv, Unnamed, TypeOK
      <3> QED
        BY <2>1, <2>4, <2>5, <2>8, <3>1, <3>2 DEF IInv, Unnamed
    <2>11. NamesHaveInodes'
      <3>1. \A m \in Name : dir[m] \in Inumber \cup {-1}
        BY <1>1 DEF TypeOK
      <3>2. \A m \in Name :
              dir[m] # -1 /\ ~Leaving(m)' =>
                /\ inode_table'[dir[m]] # FREE_INODE
                /\ \A k \in Name : dir[k] = dir[m] /\ ~Leaving(k)' => k = m
        BY <2>4, <2>5, <2>7, <3>1 DEF IInv, NamesHaveInodes
      <3>3. \A j \in Inumber :
              inode_table'[j] # FREE_INODE =>
                \/ \E m \in Name : dir[m] = j /\ ~Leaving(m)'
                \/ \E t \in Session : At(t, "create", "insert")' /\ iNumber'[t] = j
        BY <2>3, <2>4, <2>5, <2>8 DEF IInv, NamesHaveInodes
      <3> QED
        BY <2>1, <3>2, <3>3 DEF NamesHaveInodes
    <2> QED
      BY <2>9, <2>10, <2>11 DEF Kept
  <1>4. CASE At(s, "delete", "remove")
    <2>1. /\ dir' = [dir EXCEPT ![n] = -1]
          /\ Reply(s, 0)
          /\ inode_table' = inode_table
      BY <1>4 DEF apply_delete, At
    <2>2. /\ dir'[n] = -1 /\ \A m \in Name \ {n} : dir'[m] = dir[m]
          /\ pc'[s] = "idle"
      BY <1>1, <2>1 DEF TypeOK, Reply
    <2>3. \A m \in Name \ {n} : Leaving(m)' <=> Leaving(m)
      BY <1>1, <2>2 DEF Leaving, OthersStay, At
    <2>4. Leaving(n)
      BY <1>4 DEF Leaving
    <2>5. \A t \in Session :
            /\ At(t, "create", "insert")' <=> At(t, "create", "insert")
            /\ At(t, "create", "insert") => t # s /\ iNumber'[t] = iNumber[t]
      BY <1>1, <1>4, <2>2 DEF OthersStay, At
    <2>6. ASSUME NEW t \in Session
          PROVE  StillSo(t)'
      <3>1. CASE t = s
        BY <2>2, <3>1 DEF StillSo, At
      <3>2. CASE t # s /\ req[t].kind \in {"create", "delete", "rename"}
        <4>1. /\ req[t].name # n
              /\ req[t].kind = "rename" => req[t].name2 # n
          BY <1>1, <3>2, NamesApart
        <4>2. req[t].name \in Name /\ (req[t].kind = "rename" => req[t].name2 \in Name)
          BY <1>1, <3>2, RequestFields DEF TypeOK
        <4> QED
          BY <1>1, <2>2, <3>2, <4>1, <4>2 DEF IInv, StillSo, OthersStay, At
      <3>3. CASE t # s /\ req[t].kind \notin {"create", "delete", "rename"}
        BY <1>1, <3>3 DEF StillSo, OthersStay, At
      <3> QED
        BY <3>1, <3>2, <3>3
    <2>7. ASSUME NEW t \in Session
          PROVE  Unnamed(t)'
      BY <2>1, <2>2, <2>3, <2>5 DEF IInv, Unnamed
    <2>8. NamesHaveInodes'
      <3>1. \A m \in Name :
              dir'[m] # -1 /\ ~Leaving(m)' =>
                /\ inode_table[dir'[m]] # FREE_INODE
                /\ \A k \in Name : dir'[k] = dir'[m] /\ ~Leaving(k)' => k = m
        BY <2>2, <2>3 DEF IInv, NamesHaveInodes
      <3>2. \A j \in Inumber :
              inode_table[j] # FREE_INODE =>
                \/ \E m \in Name : dir'[m] = j /\ ~Leaving(m)'
                \/ \E t \in Session : At(t, "create", "insert")' /\ iNumber'[t] = j
        <4>1. \A m \in Name : ~Leaving(m) => dir'[m] = dir[m] /\ ~Leaving(m)'
          BY <2>2, <2>3, <2>4
        <4> QED
          BY <2>5, <4>1 DEF IInv, NamesHaveInodes
      <3> QED
        BY <2>1, <3>1, <3>2 DEF NamesHaveInodes
    <2> QED
      BY <2>6, <2>7, <2>8 DEF Kept
  <1> QED
    BY <1>2, <1>3, <1>4 DEF apply_delete

LEMMA RenameKeeps ==
  ASSUME IInv, TypeOK', NEW s \in Session, apply_rename(s)
  PROVE  Kept
  <1> DEFINE n == req[s].name
             new == req[s].name2
             i == iNumber[s]
  <1>1. /\ OthersStay(s) /\ TypeOK
        /\ n \in Name /\ new \in Name
        /\ req[s].kind = "rename"
        /\ inode_table' = inode_table
    <2>1. OthersStay(s)
      BY StepMoves, ThreadMoves DEF IInv, applyComands
    <2>2. TypeOK /\ req[s] \in Requests \cup {NoRequest} /\ req[s].kind = "rename"
      BY DEF IInv, TypeOK, apply_rename
    <2> QED
      BY <2>1, <2>2, RequestFields DEF apply_rename
  <1>2. CASE pc[s] # "move"
    <2>1. dir' = dir
      BY <1>2 DEF apply_rename, renameFile
    <2>2. \/ pc[s] = "lookup" /\ Goto(s, "lookup_new", dir[n])
          \/ pc[s] = "lookup_new" /\ i # -1 /\ Goto(s, "inode_get_owner", i)
          \/ pc[s] = "inode_get_owner" /\ Goto(s, "lookup_again", i)
          \/ pc[s] = "lookup_again" /\ Goto(s, "lookup_new_again", dir[n])
          \/ pc[s] = "lookup_new_again" /\ dir[new] = -1 /\ Goto(s, "move", i)
          \/ \E reply : Reply(s, reply)
      BY <1>2 DEF apply_rename, renameFile, MayRename
    <2>3. ~Between(s) /\ ~Between(s)' /\ StillSo(s)'
      BY <1>1, <1>2, <2>1, <2>2 DEF Between, At, StillSo, Goto, Reply, TypeOK, IInv
    <2> QED
      BY <1>1, <2>1, <2>3, QuietStep DEF Kept
  <1>3. CASE pc[s] = "move"
    <2>1. dir' = [dir EXCEPT ![n] = -1, ![new] = i] /\ Reply(s, 0)
      BY <1>3 DEF apply_rename, renameFile
    <2>2. i = dir[n] /\ i # -1 /\ dir[new] = -1
      BY <1>1, <1>3 DEF IInv, StillSo, At
    <2>3. /\ n # new /\ dir'[n] = -1 /\ dir'[new] = i
          /\ \A m \in Name \ {n, new} : dir'[m] = dir[m]
          /\ pc'[s] = "idle"
      BY <1>1, <2>1, <2>2 DEF TypeOK, Reply
    <2>4. \A m \in Name : Leaving(m)' <=> Leaving(m)
      BY <1>1, <2>3 DEF Leaving, OthersStay, At
    <2>5. ~Leaving(n) /\ ~Leaving(new)
      BY <1>1, NamesApart DEF Leaving, At
    <2>6. \A t \in Session :
            /\ At(t, "create", "insert")' <=> At(t, "create", "insert")
            /\ At(t, "create", "insert") => t # s /\ iNumber'[t] = iNumber[t]
      BY <1>1, <2>3 DEF OthersStay, At
    <2>7. ASSUME NEW t \in Session
          PROVE  StillSo(t)'
      <3>1. CASE t = s
        BY <2>3, <3>1 DEF StillSo, At
      <3>2. CASE t # s /\ req[t].kind \in {"create", "delete", "rename"}
        <4>1. /\ req[t].name \notin {n, new}
              /\ req[t].kind = "rename" => req[t].name2 \notin {n, new}
          BY <1>1, <3>2, NamesApart
        <4>2. req[t].name \in Name /\ (req[t].kind = "rename" => req[t].name2 \in Name)
          BY <1>1, <3>2, RequestFields DEF TypeOK
        <4> QED
          BY <1>1, <2>3, <3>2, <4>1, <4>2 DEF IInv, StillSo, OthersStay, At
      <3>3. CASE t # s /\ req[t].kind \notin {"create", "delete", "rename"}
        BY <1>1, <3>3 DEF StillSo, OthersStay, At
      <3> QED
        BY <3>1, <3>2, <3>3
    <2>8. ASSUME NEW t \in Session
          PROVE  Unnamed(t)'
      <3>1. SUFFICES ASSUME At(t, "create", "insert"), iNumber[t] # -1
                     PROVE  Unnamed(t)'
        BY <2>6 DEF Unnamed
      <3>2. iNumber[t] # i
        BY <1>1, <2>2, <2>5, <3>1 DEF IInv, Unnamed
      <3> QED
        BY <1>1, <2>3, <2>4, <2>6, <3>1, <3>2 DEF IInv, Unnamed
    <2>9. NamesHaveInodes'
      <3>1. /\ inode_table[i] # FREE_INODE
            /\ \A m \in Name : dir[m] = i /\ ~Leaving(m) => m = n
        BY <1>1, <2>2, <2>5 DEF IInv, NamesHaveInodes
      <3>2. \A m \in Name :
              dir'[m] # -1 /\ ~Leaving(m) =>
                /\ inode_table[dir'[m]] # FREE_INODE
                /\ \A k \in Name : dir'[k] = dir'[m] /\ ~Leaving(k) => k = m
        BY <2>3, <3>1 DEF IInv, NamesHaveInodes
      <3>3. \A j \in Inumber :
              inode_table[j] # FREE_INODE =>
                \/ \E m \in Name : dir'[m] = j /\ ~Leaving(m)
                \/ \E t \in Session : At(t, "create", "insert")' /\ iNumber'[t] = j
        <4> SUFFICES ASSUME NEW j \in Inumber, inode_table[j] # FREE_INODE
                     PROVE  \/ \E m \in Name : dir'[m] = j /\ ~Leaving(m)
                            \/ \E t \in Session : At(t, "create", "insert")' /\ iNumber'[t] = j
          OBVIOUS
        <4>1. CASE j = i
          BY <1>1, <2>3, <2>5, <4>1
        <4>2. CASE j # i
          <5>1. j # -1
            BY SizeAssumption DEF Inumber
          <5>2. \A m \in Name : dir[m] = j => dir'[m] = j
            BY <2>2, <2>3, <4>2, <5>1
          <5> QED
            BY <2>6, <5>2 DEF IInv, NamesHaveInodes
        <4> QED
          BY <4>1, <4>2
      <3> QED
        BY <1>1, <2>4, <3>2, <3>3 DEF NamesHaveInodes
    <2> QED
      BY <2>7, <2>8, <2>9 DEF Kept
  <1> QED
    BY <1>2, <1>3

LEMMA StepIInv == IInv /\ [Next]_vars => IInv'
  <1> SUFFICES ASSUME IInv, [Next]_vars PROVE IInv'
    OBVIOUS
  <1>1. TypeOK' /\ Idle' /\ Apart'
    BY TypeStep, IdleStep DEF IInv
  <1>2. ASSUME NEW s \in Session, applyComands(s)
        PROVE  Kept
    BY <1>1, <1>2, CreateKeeps, DeleteKeeps, RenameKeeps, OtherRequestsKeep DEF applyComands
  <1>3. ASSUME NEW s \in Session, Mount(s) \/ \E r \in Requests : Call(s, r)
        PROVE  Kept
    BY <1>1, <1>3, CallKeeps
  <1>4. CASE UNCHANGED vars
    <2>1. \A s \in Session : StillSo(s)' /\ Unnamed(s)'
      BY <1>4 DEF vars, IInv, StillSo, Unnamed, At, Leaving
    <2>2. NamesHaveInodes'
      BY <1>4 DEF vars, IInv, NamesHaveInodes, At, Leaving
    <2> QED
      BY <1>1, <2>1, <2>2 DEF IInv
  <1> QED
    BY <1>1, <1>2, <1>3, <1>4 DEF Next, IInv, Kept

\* As long as clients keep their changes apart, the directory and the i-node
\* table agree after every step, however the requests of any number of sessions
\* interleave and however full the table is (main.c:107-164).
THEOREM DirectoryAgrees == Spec => []NamesHaveInodes
  <1>1. IInv => NamesHaveInodes
    BY DEF IInv
  <1> QED
    BY <1>1, InitIInv, StepIInv, PTL DEF Spec

-----------------------------------------------------------------------------
(* What clients see when they keep to Conduct and close a file before they *)
(* have it deleted: every write is permitted, and the server implements    *)
(* FileService.                                                            *)

\* No name that a request changes is in another request.
Secluded ==
  \A s, t \in Session :
    s # t /\ Changes(req[s]) => NamesOf(req[s]) \cap NamesOf(req[t]) = {}

\* The i-node is in the directory to stay.
Named(i) == \E n \in Name : dir[n] = i /\ ~Leaving(n)

OpenAreNamed ==
  \A s \in Session, fd \in fds : files[s][fd].iNumber # -1 => Named(files[s][fd].iNumber)

\* Nobody has the file open that a session is about to delete.
Unopened(s) ==
  req[s].kind = "delete" /\ pc[s] \in {"lookup", "inode_get_owner", "inode_delete"}
    => dir[req[s].name] = -1 \/ \A t \in Session : ~IsOpen(t, dir[req[s].name])

\* What a session has found out about permissions and the new name of a rename
\* is still so when it acts on it.
Owned(s) ==
  At(s, "delete", "inode_delete")
    \/ (req[s].kind = "rename" /\ pc[s] \in {"lookup_again", "lookup_new_again", "move"})
    => inode_table[iNumber[s]].owner = userOf[s]

NewIsFree(s) ==
  req[s].kind = "rename"
    /\ pc[s] \in {"inode_get_owner", "lookup_again", "lookup_new_again", "move"}
    => dir[req[s].name2] = -1

Permits(s, perm, i) ==
  LET fd == req[s].fd IN
  /\ fd \in fds /\ files[s][fd].iNumber = i /\ i # -1
  /\ user_allowed(userOf[s], files[s][fd].mode, perm, inode_table[i]) = 0

Permitted(s) ==
  /\ At(s, "write", "inode_set") => Permits(s, WRITE, iNumber[s])
  /\ At(s, "read", "inode_get_content") => Permits(s, READ, iNumber[s])

\* An i-node that has no name yet is as it was created.
NewInode(s) ==
  [owner |-> userOf[s], ownerPermissions |-> req[s].permissions \div 10,
   othersPermissions |-> req[s].permissions % 10, fileContent |-> NULL]

Fresh(s) ==
  At(s, "create", "insert") /\ iNumber[s] # -1 => inode_table[iNumber[s]] = NewInode(s)

Sound(s) == Unopened(s) /\ Owned(s) /\ NewIsFree(s) /\ Permitted(s) /\ Fresh(s)

\* The inductive invariant.
RInv ==
  /\ CloseFirst /\ IInv /\ Secluded /\ OpenAreNamed
  /\ \A s \in Session : Sound(s)

LEMMA InitRInv == CloseFirst /\ Init => RInv
  <1> SUFFICES ASSUME CloseFirst, Init PROVE RInv
    OBVIOUS
  <1>1. \A s \in Session : req[s].kind = "none" /\ pc[s] = "idle"
    BY DEF Init, NoRequest
  <1>2. Secluded
    BY <1>1 DEF Secluded, Changes
  <1>3. OpenAreNamed
    BY DEF Init, OpenAreNamed, Closed
  <1>4. \A s \in Session : Sound(s)
    BY <1>1 DEF Sound, Unopened, Owned, NewIsFree, Permitted, Fresh, At
  <1> QED
    BY <1>2, <1>3, <1>4, InitIInv DEF RInv

-----------------------------------------------------------------------------
(* What a step leaves alone. *)

\* A named i-node is in use, and a file that is open is named.
LEMMA NamedInUse ==
  ASSUME IInv, NEW i, i # -1, Named(i)
  PROVE  i \in Inumber /\ inode_table[i] \in Inode /\ inode_table[i] # FREE_INODE
  BY FreeAssumption DEF IInv, TypeOK, NamesHaveInodes, Named

\* The three steps that change the directory.
LEMMA DirectoryChanges ==
  ASSUME TypeOK, NEW s \in Session, applyComands(s)
  PROVE  \/ dir' = dir
         \/ /\ At(s, "create", "insert") /\ pc'[s] = "idle"
            /\ dir' = [dir EXCEPT ![req[s].name] = iNumber[s]]
         \/ /\ At(s, "delete", "remove") /\ pc'[s] = "idle"
            /\ dir' = [dir EXCEPT ![req[s].name] = -1]
         \/ /\ At(s, "rename", "move") /\ pc'[s] = "idle"
            /\ dir' = [dir EXCEPT ![req[s].name] = -1, ![req[s].name2] = iNumber[s]]
  <1>1. CASE apply_create(s)
    <2>1. \/ dir' = dir
          \/ /\ At(s, "create", "insert") /\ Reply(s, 0)
             /\ dir' = [dir EXCEPT ![req[s].name] = iNumber[s]]
      BY <1>1 DEF apply_create
    <2> QED
      BY <2>1 DEF Reply, TypeOK
  <1>2. CASE apply_delete(s)
    <2>1. \/ dir' = dir
          \/ /\ At(s, "delete", "remove") /\ Reply(s, 0)
             /\ dir' = [dir EXCEPT ![req[s].name] = -1]
      BY <1>2 DEF apply_delete
    <2> QED
      BY <2>1 DEF Reply, TypeOK
  <1>3. CASE apply_rename(s)
    BY <1>3 DEF apply_rename, renameFile, At, Reply, TypeOK
  <1>4. CASE apply_open(s) \/ apply_close(s) \/ apply_write(s) \/ apply_read(s)
    BY <1>4 DEF apply_open, apply_close, apply_write, apply_read, CheckDescriptor
  <1> QED
    BY <1>1, <1>2, <1>3, <1>4 DEF applyComands

LEMMA DirectoryStays ==
  ASSUME IInv, NEW s \in Session, applyComands(s), NEW m \in Name,
         ~(Changes(req[s]) /\ m \in NamesOf(req[s]))
  PROVE  dir'[m] = dir[m] /\ (Leaving(m)' <=> Leaving(m))
  <1>1. OthersStay(s) /\ TypeOK
    BY StepMoves, ThreadMoves DEF IInv
  <1>2. req[s].kind \in {"create", "delete"} => m # req[s].name
    BY DEF Changes, NamesOf
  <1>3. req[s].kind = "rename" => m # req[s].name /\ m # req[s].name2
    BY DEF Changes, NamesOf
  <1>4. dir'[m] = dir[m]
    BY <1>1, <1>2, <1>3, DirectoryChanges DEF At, TypeOK
  <1>5. pc'[s] = "idle" \/ req'[s] = req[s]
    BY <1>1, ThreadMoves DEF Goto, Reply, TypeOK
  <1>6. Leaving(m)' <=> Leaving(m)
    <2>1. ~(At(s, "delete", "remove")' /\ req'[s].name = m)
      BY <1>2, <1>5 DEF At
    <2>2. ~(At(s, "delete", "remove") /\ req[s].name = m)
      BY <1>2 DEF At
    <2> QED
      BY <1>1, <2>1, <2>2 DEF Leaving, OthersStay, At
  <1> QED
    BY <1>4, <1>6

\* The table of i-nodes: what each step may do to an i-node that is in use.
Deletes(s, i) == At(s, "delete", "inode_delete") /\ iNumber[s] = i
Writes(s, i) == At(s, "write", "inode_set") /\ iNumber[s] = i

LEMMA InodeStays ==
  ASSUME IInv, NEW s \in Session, applyComands(s),
         NEW i \in Inumber, inode_table[i] # FREE_INODE, ~Deletes(s, i)
  PROVE  /\ inode_table'[i] # FREE_INODE
         /\ inode_table'[i].owner = inode_table[i].owner
         /\ inode_table'[i].ownerPermissions = inode_table[i].ownerPermissions
         /\ inode_table'[i].othersPermissions = inode_table[i].othersPermissions
         /\ ~Writes(s, i) => inode_table'[i] = inode_table[i]
  <1>1. TypeOK /\ inode_table[i] \in Inode
    BY DEF IInv, TypeOK
  <1>2. CASE inode_table' = inode_table
    BY <1>2
  <1>3. CASE At(s, "create", "inode_create")
    <2>1. inode_create(userOf[s], req[s].permissions \div 10, req[s].permissions % 10)
      BY <1>3 DEF applyComands, apply_create, apply_delete, apply_rename, apply_open,
                  apply_close, apply_write, apply_read, CheckDescriptor, At
    <2>2. FreeInodes # {} => i # FirstFree
      BY FirstFreeIsFree
    <2>3. inode_table'[i] = inode_table[i]
      BY <1>1, <2>1, <2>2 DEF inode_create, TypeOK
    <2> QED
      BY <2>3
  <1>4. CASE At(s, "delete", "inode_delete")
    <2>1. inode_delete(iNumber[s]) /\ iNumber[s] # i
      BY <1>4 DEF applyComands, apply_create, apply_delete, apply_rename, apply_open,
                  apply_close, apply_write, apply_read, CheckDescriptor, At, Deletes
    <2>2. inode_table'[i] = inode_table[i]
      BY <1>1, <2>1 DEF inode_delete, TypeOK
    <2> QED
      BY <2>2
  <1>5. CASE At(s, "write", "inode_set")
    <2>1. inode_set(iNumber[s], req[s].content)
      BY <1>5 DEF applyComands, apply_create, apply_delete, apply_rename, apply_open,
                  apply_close, apply_write, apply_read, CheckDescriptor, At
    <2>2. CASE iNumber[s] # i
      BY <1>1, <2>1, <2>2 DEF inode_set, TypeOK
    <2>3. CASE iNumber[s] = i
      <3>1. inode_table' = [inode_table EXCEPT ![i] = [inode_table[i] EXCEPT !.fileContent = req[s].content]]
        BY <1>1, <2>1, <2>3, SizeAssumption DEF inode_set, Invalid, Inumber
      <3>2. inode_table'[i] = [inode_table[i] EXCEPT !.fileContent = req[s].content]
        BY <1>1, <3>1 DEF TypeOK
      <3>3. inode_table'[i] \in
              [owner : User, ownerPermissions : 0..3, othersPermissions : 0..3,
               fileContent : {req[s].content}]
        BY <1>1, <3>2 DEF Inode
      <3>4. inode_table'[i] # FREE_INODE
        <4>1. req[s].content \in Content
          BY <1>1, <1>5, RequestFields DEF TypeOK, At
        <4> QED
          BY <3>3, <4>1, FreeAssumption DEF Inode
      <3> QED
        BY <1>1, <1>5, <2>3, <3>2, <3>4 DEF Inode, Writes
    <2> QED
      BY <2>2, <2>3
  <1> QED
    BY <1>2, <1>3, <1>4, <1>5
       DEF applyComands, apply_create, apply_delete, apply_rename, apply_open,
           apply_close, apply_write, apply_read, CheckDescriptor

\* What a session deletes has the name it has looked up.
LEMMA DeletedIsNamed ==
  ASSUME IInv, NEW s \in Session, At(s, "delete", "inode_delete")
  PROVE  /\ req[s].name \in Name /\ dir[req[s].name] = iNumber[s]
         /\ iNumber[s] # -1 /\ ~Leaving(req[s].name)
         /\ \A m \in Name : dir[m] = iNumber[s] /\ ~Leaving(m) => m = req[s].name
  <1>1. req[s].name \in Name /\ dir[req[s].name] = iNumber[s] /\ iNumber[s] # -1
    BY RequestFields DEF IInv, TypeOK, StillSo, At
  <1>2. ~Leaving(req[s].name)
    BY NamesApart DEF Leaving, At
  <1> QED
    BY <1>1, <1>2 DEF IInv, NamesHaveInodes

LEMMA NamedStays ==
  ASSUME IInv, IInv', NEW s \in Session, applyComands(s), NEW i, i # -1, Named(i), ~Deletes(s, i)
  PROVE  Named(i)'
  <1>1. PICK n \in Name : dir[n] = i /\ ~Leaving(n)
    BY DEF Named
  <1>2. CASE ~(Changes(req[s]) /\ n \in NamesOf(req[s]))
    BY <1>1, <1>2, DirectoryStays DEF Named
  <1>3. CASE Changes(req[s]) /\ n \in NamesOf(req[s])
    <2>1. OthersStay(s) /\ TypeOK
      BY StepMoves, ThreadMoves DEF IInv
    <2>2. CASE dir'[n] = dir[n]
      <3>1. ASSUME Leaving(n)' PROVE FALSE
        <4>1. PICK t \in Session : At(t, "delete", "remove")' /\ req'[t].name = n
          BY <3>1 DEF Leaving
        <4>2. t = s
          BY <1>1, <2>1, <4>1 DEF Leaving, OthersStay, At
        <4>3. req'[s] = req[s] /\ pc'[s] = "remove"
          BY <2>1, <4>1, <4>2, ThreadMoves DEF Goto, Reply, TypeOK, At
        <4>4. At(s, "delete", "inode_delete") \/ At(s, "delete", "remove")
          BY <2>1, <4>1, <4>2, <4>3
             DEF applyComands, apply_create, apply_delete, apply_rename, renameFile, apply_open,
                 apply_close, apply_write, apply_read, CheckDescriptor, At, Goto, Reply, TypeOK
        <4>5. At(s, "delete", "inode_delete")
          BY <1>1, <4>1, <4>2, <4>3, <4>4 DEF Leaving, At
        <4> QED
          BY <1>1, <4>1, <4>2, <4>3, <4>5, DeletedIsNamed DEF Deletes
      <3> QED
        BY <1>1, <2>2, <3>1 DEF Named
    <2>3. CASE dir'[n] # dir[n]
      <3>1. /\ At(s, "create", "insert") \/ At(s, "delete", "remove") \/ At(s, "rename", "move")
            /\ At(s, "create", "insert") => dir' = [dir EXCEPT ![req[s].name] = iNumber[s]]
            /\ At(s, "delete", "remove") => dir' = [dir EXCEPT ![req[s].name] = -1]
            /\ At(s, "rename", "move") =>
                 /\ pc'[s] = "idle"
                 /\ dir' = [dir EXCEPT ![req[s].name] = -1, ![req[s].name2] = iNumber[s]]
        BY <2>1, <2>3, DirectoryChanges DEF At
      <3>2. ~At(s, "create", "insert")
        BY <1>1, <2>1, <2>3, <3>1 DEF IInv, StillSo, TypeOK, At
      <3>3. ~At(s, "delete", "remove")
        BY <1>1, <2>1, <2>3, <3>1 DEF Leaving, TypeOK, At
      <3>4. At(s, "rename", "move") /\ pc'[s] = "idle"
            /\ dir' = [dir EXCEPT ![req[s].name] = -1, ![req[s].name2] = iNumber[s]]
        BY <3>1, <3>2, <3>3
      <3>5. PICK new \in Name : new = req[s].name2
        BY <2>1, <3>4, RequestFields DEF TypeOK, At
      <3>6. /\ req[s].name \in Name
            /\ iNumber[s] = dir[req[s].name] /\ dir[new] = -1
        BY <2>1, <3>4, <3>5, RequestFields DEF IInv, StillSo, TypeOK, At
      <3>7. n = req[s].name /\ dir'[new] = i
        BY <1>1, <2>1, <2>3, <3>4, <3>5, <3>6 DEF TypeOK
      <3>8. ~Leaving(new)'
        <4>1. ~Leaving(new)
          BY <3>4, <3>5, NamesApart DEF Leaving, At
        <4> QED
          BY <2>1, <3>4, <4>1 DEF Leaving, OthersStay, At
      <3> QED
        BY <3>7, <3>8 DEF Named
    <2> QED
      BY <2>2, <2>3
  <1> QED
    BY <1>2, <1>3

-----------------------------------------------------------------------------
(* The invariant is inductive. *)

\* The two steps that change open file tables.
LEMMA FilesChange ==
  ASSUME TypeOK, NEW s \in Session, applyComands(s), NEW t \in Session, NEW fd \in fds
  PROVE  \/ files'[t][fd] = files[t][fd]
         \/ t = s /\ files'[t][fd].iNumber = -1
         \/ /\ t = s /\ At(s, "open", "lookup") /\ dir[req[s].name] # -1
            /\ files'[t][fd].iNumber = dir[req[s].name]
  <1>1. CASE apply_open(s)
    <2>1. \/ files' = files
          \/ /\ At(s, "open", "lookup") /\ dir[req[s].name] # -1
             /\ \E d \in fds : files' = [files EXCEPT ![s][d] =
                                  [iNumber |-> dir[req[s].name], mode |-> req[s].mode]]
      <3> DEFINE unused == {d \in fds : files[s][d].iNumber = -1}
                 first == CHOOSE d \in unused : \A other \in unused : d <= other
      <3>1. ASSUME unused # {} PROVE first \in fds
        <4>1. unused \subseteq Nat /\ unused \subseteq fds
          BY TableAssumption DEF fds
        <4> HIDE DEF unused
        <4>2. \E d \in unused : \A other \in unused : d <= other
          BY <3>1, <4>1, SmallestExists
        <4>3. first \in unused
          BY <4>2
        <4> QED
          BY <4>1, <4>3
      <3> QED
        BY <1>1, <3>1 DEF apply_open
    <2>2. CASE files' = files
      BY <2>2
    <2>3. ASSUME NEW d \in fds, At(s, "open", "lookup"), dir[req[s].name] # -1,
                 files' = [files EXCEPT ![s][d] =
                             [iNumber |-> dir[req[s].name], mode |-> req[s].mode]]
          PROVE  \/ files'[t][fd] = files[t][fd]
                 \/ t = s /\ files'[t][fd].iNumber = dir[req[s].name]
      <3>1. CASE t = s /\ d = fd
        BY <2>3, <3>1 DEF TypeOK
      <3>2. CASE ~(t = s /\ d = fd)
        BY <2>3, <3>2 DEF TypeOK
      <3> QED
        BY <3>1, <3>2
    <2> QED
      BY <2>1, <2>2, <2>3
  <1>2. CASE apply_close(s)
    BY <1>2 DEF apply_close, At, TypeOK, Closed
  <1>3. CASE apply_create(s) \/ apply_delete(s) \/ apply_rename(s) \/ apply_write(s) \/ apply_read(s)
    <2>1. files' = files
      BY <1>3 DEF apply_create, apply_delete, apply_rename, apply_write, apply_read, CheckDescriptor
    <2> QED
      BY <2>1
  <1> QED
    BY <1>1, <1>2, <1>3 DEF applyComands

\* An open finds a name that nobody is changing.
LEMMA OpensNamed ==
  ASSUME RInv, NEW s \in Session, At(s, "open", "lookup")
  PROVE  /\ req[s].name \in Name /\ ~Leaving(req[s].name)
         /\ dir[req[s].name] # -1 => Named(dir[req[s].name])
  <1>1. req[s].name \in Name /\ req[s].name \in NamesOf(req[s])
    BY RequestFields DEF RInv, IInv, TypeOK, At, NamesOf
  <1>2. ~Leaving(req[s].name)
    <2> SUFFICES ASSUME NEW t \in Session, At(t, "delete", "remove"), req[t].name = req[s].name
                 PROVE  FALSE
      BY DEF Leaving
    <2>1. t # s /\ Changes(req[t]) /\ req[t].name \in NamesOf(req[t])
      BY DEF At, Changes, NamesOf
    <2> QED
      BY <1>1, <2>1 DEF RInv, Secluded
  <1> QED
    BY <1>1, <1>2 DEF Named

\* No file that is open is deleted.
LEMMA OpenNotDeleted ==
  ASSUME RInv, NEW s \in Session, NEW t \in Session, NEW fd \in fds,
         files[t][fd].iNumber # -1
  PROVE  ~Deletes(s, files[t][fd].iNumber)
  <1> SUFFICES ASSUME Deletes(s, files[t][fd].iNumber) PROVE FALSE
    OBVIOUS
  <1>1. dir[req[s].name] = files[t][fd].iNumber
    BY DeletedIsNamed DEF Deletes, RInv
  <1> QED
    BY <1>1 DEF RInv, Sound, Unopened, Deletes, IsOpen, At

LEMMA OpenAreNamedStep ==
  ASSUME RInv, IInv', NEW s \in Session, applyComands(s)
  PROVE  OpenAreNamed'
  <1> SUFFICES ASSUME NEW t \in Session, NEW fd \in fds, NEW i,
                      i = files'[t][fd].iNumber, i # -1
               PROVE  Named(i)'
    BY DEF OpenAreNamed
  <1>1. IInv /\ TypeOK
    BY DEF RInv, IInv
  <1>2. CASE files'[t][fd] = files[t][fd]
    <2>1. Named(i) /\ ~Deletes(s, i)
      BY <1>2, OpenNotDeleted DEF RInv, OpenAreNamed
    <2> QED
      BY <1>1, <2>1, NamedStays
  <1>3. CASE At(s, "open", "lookup") /\ dir[req[s].name] # -1 /\ i = dir[req[s].name]
    <2>1. Named(i) /\ ~Deletes(s, i)
      BY <1>3, OpensNamed DEF Deletes, At
    <2> QED
      BY <1>1, <2>1, NamedStays
  <1> QED
    BY <1>1, <1>2, <1>3, FilesChange

\* What a session t has found out is still so after a step of another one.
LEMMA SoundOther ==
  ASSUME RInv, IInv', NEW s \in Session, applyComands(s), NEW t \in Session \ {s}
  PROVE  Sound(t)'
  <1>1. IInv /\ TypeOK /\ OthersStay(s) /\ Sound(t)
    BY StepMoves, ThreadMoves DEF RInv, IInv
  <1>2. \A m \in Name : m \in NamesOf(req[t]) =>
          dir'[m] = dir[m] /\ (Leaving(m)' <=> Leaving(m))
    BY <1>1, DirectoryStays DEF RInv, Secluded
  <1>3. req'[t] = req[t] /\ pc'[t] = pc[t] /\ iNumber'[t] = iNumber[t]
    BY <1>1 DEF OthersStay
  <1>4. \A fd \in fds : files'[t][fd] = files[t][fd]
    BY <1>1, FilesChange
  <1>5. Unopened(t)'
    <2> SUFFICES ASSUME req[t].kind = "delete",
                        pc[t] \in {"lookup", "inode_get_owner", "inode_delete"},
                        dir'[req[t].name] # -1,
                        NEW u \in Session, NEW fd \in fds,
                        files'[u][fd].iNumber = dir'[req[t].name]
                 PROVE  FALSE
      BY <1>3 DEF Unopened, IsOpen
    <2> DEFINE n == req[t].name
    <2>1. n \in Name /\ n \in NamesOf(req[t]) /\ Changes(req[t])
      BY <1>1, RequestFields DEF TypeOK, NamesOf, Changes
    <2>2. dir'[n] = dir[n]
      BY <1>2, <2>1
    <2>3. files[u][fd].iNumber # dir[n]
      BY <1>1, <2>2 DEF Sound, Unopened, IsOpen
    <2>4. At(s, "open", "lookup") /\ dir[req[s].name] = dir[n]
      BY <1>1, <2>2, <2>3, FilesChange
    <2>5. req[s].name \in Name /\ ~Leaving(req[s].name) /\ req[s].name \in NamesOf(req[s])
      BY <2>4, OpensNamed DEF At, NamesOf
    <2>6. ~Leaving(n)
      BY <1>1, NamesApart DEF Leaving, At
    <2>7. req[s].name = n
      BY <1>1, <2>1, <2>2, <2>4, <2>5, <2>6 DEF IInv, NamesHaveInodes
    <2> QED
      BY <2>1, <2>5, <2>7 DEF RInv, Secluded
  <1>6. Owned(t)'
    <2> SUFFICES ASSUME \/ At(t, "delete", "inode_delete")
                        \/ /\ req[t].kind = "rename"
                           /\ pc[t] \in {"lookup_again", "lookup_new_again", "move"}
                 PROVE  inode_table'[iNumber[t]].owner = userOf[t]
      BY <1>3 DEF Owned, At
    <2> DEFINE n == req[t].name
    <2>1. n \in Name /\ dir[n] = iNumber[t] /\ dir[n] # -1
      BY <1>1, RequestFields DEF IInv, TypeOK, StillSo, At
    <2>2. ~Leaving(n)
      BY <1>1, NamesApart DEF Leaving, At
    <2>3. iNumber[t] \in Inumber /\ inode_table[iNumber[t]] # FREE_INODE
      BY <1>1, <2>1, <2>2, NamedInUse DEF Named
    <2>4. ~Deletes(s, iNumber[t])
      <3>1. Deletes(s, iNumber[t]) => req[s].name = n
        BY <1>1, <2>1, <2>2, DeletedIsNamed DEF Deletes
      <3> QED
        BY <1>1, <3>1, NamesApart DEF Deletes, At
    <2>5. inode_table'[iNumber[t]].owner = inode_table[iNumber[t]].owner
      BY <1>1, <2>3, <2>4, InodeStays
    <2> QED
      BY <1>1, <2>5 DEF Sound, Owned
  <1>7. NewIsFree(t)'
    <2> SUFFICES ASSUME req[t].kind = "rename"
                 PROVE  dir'[req[t].name2] = dir[req[t].name2]
      BY <1>1, <1>3 DEF Sound, NewIsFree
    <2>1. req[t].name2 \in Name /\ req[t].name2 \in NamesOf(req[t])
      BY <1>1, RequestFields DEF TypeOK, NamesOf
    <2> QED
      BY <1>2, <2>1
  <1>8. Permitted(t)'
    <2> SUFFICES ASSUME NEW perm, Permits(t, perm, iNumber[t])
                 PROVE  Permits(t, perm, iNumber[t])'
      BY <1>1, <1>3 DEF Sound, Permitted, Permits, At
    <2> DEFINE i == iNumber[t]
               fd == req[t].fd
    <2>1. fd \in fds /\ files[t][fd].iNumber = i /\ i # -1
      BY DEF Permits
    <2>2. i \in Inumber /\ inode_table[i] # FREE_INODE /\ ~Deletes(s, i)
      BY <1>1, <2>1, NamedInUse, OpenNotDeleted DEF RInv, OpenAreNamed
    <2>3. /\ inode_table'[i].owner = inode_table[i].owner
          /\ inode_table'[i].ownerPermissions = inode_table[i].ownerPermissions
          /\ inode_table'[i].othersPermissions = inode_table[i].othersPermissions
      BY <1>1, <2>2, InodeStays
    <2>4. files'[t][fd] = files[t][fd]
      BY <1>4, <2>1
    <2> QED
      BY <1>3, <2>1, <2>3, <2>4 DEF Permits, user_allowed
  <1>9. Fresh(t)'
    <2> SUFFICES ASSUME At(t, "create", "insert"), iNumber[t] # -1
                 PROVE  inode_table'[iNumber[t]] = inode_table[iNumber[t]]
      BY <1>1, <1>3 DEF Sound, Fresh, NewInode, At
    <2> DEFINE i == iNumber[t]
    <2>1. i \in Inumber /\ inode_table[i] # FREE_INODE /\ ~Named(i)
      BY <1>1 DEF IInv, TypeOK, Unnamed, Named
    <2>2. ~Deletes(s, i)
      BY <1>1, <2>1, DeletedIsNamed DEF Deletes, Named
    <2>3. ~Writes(s, i)
      BY <2>1 DEF RInv, Sound, Permitted, Permits, OpenAreNamed, Writes
    <2> QED
      BY <1>1, <2>1, <2>2, <2>3, InodeStays
  <1> QED
    BY <1>5, <1>6, <1>7, <1>8, <1>9 DEF Sound

\* What a session finds out is so when it has found it, and from then on.
LEMMA SoundSelf ==
  ASSUME RInv, IInv', NEW s \in Session, applyComands(s)
  PROVE  Sound(s)'
  <1> DEFINE n == req[s].name
             i == iNumber[s]
             fd == req[s].fd
  <1>1. IInv /\ TypeOK /\ Sound(s)
    BY DEF RInv, IInv
  <1>2. CASE \E reply : Reply(s, reply)
    BY <1>1, <1>2 DEF Reply, TypeOK, Sound, Unopened, Owned, NewIsFree, Permitted, Fresh, At
  <1>3. CASE \E label, j : Goto(s, label, j)
    <2>1. req'[s] = req[s]
      BY <1>3 DEF Goto
    <2>2. CASE apply_create(s)
      <3>1. req[s].kind = "create"
        BY <2>2 DEF apply_create, At
      <3>2. Fresh(s)'
        <4> SUFFICES ASSUME At(s, "create", "insert")', iNumber'[s] # -1
                     PROVE  inode_table'[iNumber'[s]] = NewInode(s)
          BY <2>1 DEF Fresh, NewInode
        <4>1. /\ inode_create(userOf[s], req[s].permissions \div 10, req[s].permissions % 10)
              /\ iNumber'[s] = inode_create_result
          BY <1>1, <2>1, <2>2 DEF apply_create, Goto, Reply, TypeOK, At
        <4>2. FreeInodes # {} /\ iNumber'[s] = FirstFree /\ FirstFree \in Inumber
          BY <4>1, FirstFreeIsFree DEF inode_create_result
        <4> QED
          BY <1>1, <4>1, <4>2 DEF inode_create, NewInode, TypeOK
      <3> QED
        BY <2>1, <3>1, <3>2 DEF Sound, Unopened, Owned, NewIsFree, Permitted, At
    <2>3. CASE apply_delete(s)
      <3>1. req[s].kind = "delete"
        BY <2>3 DEF apply_delete, At
      <3>2. Unopened(s)'
        <4>1. (dir' = dir /\ files' = files) \/ pc'[s] = "idle"
          BY <1>1, <2>3 DEF apply_delete, Goto, Reply, TypeOK
        <4>2. pc'[s] \in {"lookup", "inode_get_owner", "inode_delete"}
                => pc[s] \in {"lookup", "inode_get_owner", "inode_delete"}
          BY <1>1, <2>3 DEF apply_delete, Goto, Reply, TypeOK, At
        <4> QED
          BY <1>1, <2>1, <3>1, <4>1, <4>2 DEF Sound, Unopened, IsOpen
      <3>3. Owned(s)'
        <4> SUFFICES ASSUME pc'[s] = "inode_delete"
                     PROVE  inode_table'[iNumber'[s]].owner = userOf[s]
          BY <2>1, <3>1 DEF Owned, At
        <4>1. /\ At(s, "delete", "inode_get_owner")
              /\ \E inode \in inode_get(i) : inode.owner = userOf[s]
              /\ iNumber'[s] = i /\ inode_table' = inode_table
          BY <1>1, <2>3 DEF apply_delete, Goto, Reply, TypeOK, At
        <4>2. n \in Name /\ dir[n] = i /\ i # -1
          BY <1>1, <4>1, RequestFields DEF IInv, TypeOK, StillSo, At
        <4>3. ~Leaving(n)
          BY <1>1, <4>1, NamesApart DEF Leaving, At
        <4>4. ~Invalid(i)
          BY <1>1, <4>2, <4>3, NamedInUse, SizeAssumption DEF Named, Invalid, Inumber
        <4> QED
          BY <4>1, <4>4 DEF inode_get
      <3> QED
        BY <2>1, <3>1, <3>2, <3>3 DEF Sound, NewIsFree, Permitted, Fresh, At
    <2>4. CASE apply_rename(s)
      <3>1. req[s].kind = "rename" /\ inode_table' = inode_table
        BY <2>4 DEF apply_rename
      <3>2. n \in Name /\ req[s].name2 \in Name
        BY <1>1, <3>1, RequestFields DEF TypeOK
      <3>3. ~Leaving(n)
        BY <1>1, <3>1, NamesApart DEF Leaving, At
      <3>4. NewIsFree(s)'
        <4>1. dir' = dir \/ pc'[s] = "idle"
          BY <1>1, <2>4 DEF apply_rename, renameFile, Reply, TypeOK
        <4>2. pc'[s] = "inode_get_owner" => dir[req[s].name2] = -1
          BY <1>1, <2>4 DEF apply_rename, renameFile, MayRename, Goto, Reply, TypeOK
        <4>3. pc'[s] \in {"lookup_again", "lookup_new_again", "move"}
                => pc[s] \in {"inode_get_owner", "lookup_again", "lookup_new_again"}
          BY <1>1, <2>4 DEF apply_rename, renameFile, Goto, Reply, TypeOK
        <4> QED
          BY <1>1, <2>1, <3>1, <4>1, <4>2, <4>3 DEF Sound, NewIsFree
      <3>5. Owned(s)'
        <4> SUFFICES ASSUME pc'[s] \in {"lookup_again", "lookup_new_again", "move"}
                     PROVE  inode_table[iNumber'[s]].owner = userOf[s]
          BY <2>1, <3>1 DEF Owned, At
        <4>1. \/ /\ pc[s] = "inode_get_owner" /\ iNumber'[s] = i
                 /\ \E inode \in inode_get(i) : inode.owner = userOf[s]
              \/ pc[s] = "lookup_again" /\ iNumber'[s] = dir[n]
              \/ pc[s] = "lookup_new_again" /\ iNumber'[s] = i
          BY <1>1, <2>4 DEF apply_rename, renameFile, Goto, Reply, TypeOK
        <4>2. dir[n] = i /\ i # -1
          BY <1>1, <3>1, <4>1 DEF IInv, StillSo
        <4>3. ~Invalid(i)
          <5>1. i # -1 /\ Named(i)
            BY <3>2, <3>3, <4>2 DEF Named
          <5> QED
            BY <1>1, <5>1, NamedInUse, SizeAssumption DEF Invalid, Inumber
        <4> QED
          BY <1>1, <3>1, <4>1, <4>2, <4>3 DEF inode_get, Sound, Owned
      <3> QED
        BY <2>1, <3>1, <3>4, <3>5 DEF Sound, Unopened, Permitted, Fresh, At
    <2>5. ASSUME NEW perm, NEW label, CheckDescriptor(s, perm, label), pc'[s] # "idle",
                 req[s].kind \in {"read", "write"}
          PROVE  pc'[s] = label /\ Permits(s, perm, iNumber[s])'
      <3> DEFINE j == files[s][fd].iNumber
      <3>1. /\ fd # -1 /\ j # -1
            /\ Goto(s, label, j)
            /\ \E inode \in inode_get(j) : user_allowed(userOf[s], files[s][fd].mode, perm, inode) = 0
            /\ inode_table' = inode_table /\ files' = files
        BY <1>1, <2>5 DEF CheckDescriptor, Reply, TypeOK
      <3>2. fd \in fds
        BY <1>1, <2>5, <3>1, RequestFields DEF TypeOK
      <3>3. ~Invalid(j)
        BY <1>1, <3>1, <3>2, NamedInUse, SizeAssumption
           DEF RInv, OpenAreNamed, Invalid, Inumber
      <3>4. user_allowed(userOf[s], files[s][fd].mode, perm, inode_table[j]) = 0
        BY <3>1, <3>3 DEF inode_get
      <3>5. iNumber'[s] = j /\ pc'[s] = label
        BY <1>1, <3>1 DEF Goto, TypeOK
      <3>6. Permits(s, perm, iNumber[s])' <=> Permits(s, perm, j)
        BY <2>1, <3>1, <3>5 DEF Permits
      <3> QED
        BY <3>1, <3>2, <3>4, <3>5, <3>6 DEF Permits
    <2>6. CASE apply_write(s) \/ apply_read(s)
      <3>1. /\ req[s].kind \in {"read", "write"}
            /\ \/ req[s].kind = "write" /\ CheckDescriptor(s, WRITE, "inode_set")
               \/ req[s].kind = "read" /\ CheckDescriptor(s, READ, "inode_get_content")
               \/ pc'[s] = "idle"
        BY <1>1, <2>6 DEF apply_write, apply_read, At, Reply, TypeOK
      <3>2. Permitted(s)'
        BY <2>1, <2>5, <3>1 DEF Permitted, At
      <3> QED
        BY <2>1, <3>1, <3>2 DEF Sound, Unopened, Owned, NewIsFree, Fresh, At
    <2>7. CASE apply_open(s) \/ apply_close(s)
      <3>1. req[s].kind \in {"open", "close"}
        BY <2>7 DEF apply_open, apply_close, At
      <3> QED
        BY <2>1, <3>1 DEF Sound, Unopened, Owned, NewIsFree, Permitted, Fresh, At
    <2> QED
      BY <2>2, <2>3, <2>4, <2>6, <2>7 DEF applyComands
  <1> QED
    BY <1>2, <1>3, ThreadMoves

\* A call, or a new session, of s.
LEMMA CallKeepsRInv ==
  ASSUME RInv, IInv', NEW s \in Session, Mount(s) \/ \E r \in Requests : Call(s, r)
  PROVE  RInv'
  <1>1. IInv /\ TypeOK /\ OthersStay(s) /\ CloseFirst
    BY StepMoves DEF RInv, IInv
  <1>2. dir' = dir /\ inode_table' = inode_table /\ pc[s] = "idle" /\ req[s] = NoRequest
    BY <1>1 DEF Mount, Call, IInv, Idle
  <1>3. \A t \in Session, d \in fds : files'[t][d] = files[t][d] \/ files'[t][d].iNumber = -1
    <2>1. files' = files \/ files' = [files EXCEPT ![s] = [d \in fds |-> Closed]]
      BY DEF Mount, Call
    <2>2. Closed.iNumber = -1
      BY DEF Closed
    <2> QED
      BY <1>1, <2>1, <2>2 DEF TypeOK
  <1>4. \A t \in Session \ {s} : files'[t] = files[t]
    BY <1>1 DEF Mount, Call, TypeOK
  <1>5. \A m \in Name : Leaving(m)' <=> Leaving(m)
    <2>1. ~At(s, "delete", "remove") /\ ~At(s, "delete", "remove")'
      BY <1>1, <1>2 DEF Mount, Call, TypeOK, At
    <2> QED
      BY <1>1, <2>1 DEF Leaving, OthersStay, At
  <1>6. OpenAreNamed'
    BY <1>2, <1>3, <1>5 DEF RInv, OpenAreNamed, Named
  <1>7. CASE Mount(s)
    <2>1. pc' = pc /\ req' = req /\ iNumber' = iNumber
      BY <1>7 DEF Mount
    <2>2. Secluded'
      BY <2>1 DEF RInv, Secluded
    <2>3. ASSUME NEW t \in Session PROVE Sound(t)'
      <3>1. CASE t = s
        BY <1>2, <2>1, <3>1
           DEF NoRequest, Sound, Unopened, Owned, NewIsFree, Permitted, Fresh, At
      <3>2. CASE t # s
        <4>1. Unopened(t)'
          <5>1. req[t].kind = "delete" => dir[req[t].name] \in Inumber \cup {-1}
            BY <1>1, RequestFields DEF TypeOK
          <5> QED
            BY <1>2, <1>3, <2>1, <5>1 DEF RInv, Sound, Unopened, IsOpen
        <4>2. Permitted(t)'
          BY <1>2, <1>4, <2>1, <3>2 DEF RInv, Sound, Permitted, Permits, At
        <4> QED
          BY <1>2, <2>1, <4>1, <4>2
             DEF RInv, Sound, Owned, NewIsFree, Fresh, NewInode, At
      <3> QED
        BY <3>1, <3>2
    <2> QED
      BY <1>1, <1>6, <2>2, <2>3 DEF RInv
  <1>8. ASSUME NEW r \in Requests, Call(s, r)
        PROVE  RInv'
    <2>1. req'[s] = r /\ pc'[s] \in {"lookup", "close", "user_allowed"} /\ files' = files
      BY <1>1, <1>8 DEF Call, TypeOK
    <2>2. \A t \in Session \ {s} :
            Changes(req[t]) \/ Changes(r) => NamesOf(req[t]) \cap NamesOf(r) = {}
      <3> TAKE t \in Session \ {s}
      <3>1. CASE pc[t] = "idle"
        BY <1>1, <3>1 DEF IInv, Idle, NoRequest, NamesOf
      <3>2. CASE pc[t] # "idle"
        BY <1>8, <3>2 DEF Call, Conduct, Clash
      <3> QED
        BY <3>1, <3>2
    <2>3. Secluded'
      BY <1>1, <2>1, <2>2 DEF RInv, Secluded, OthersStay
    <2>4. Sound(s)'
      <3>1. Unopened(s)'
        BY <1>1, <1>2, <1>8, <2>1 DEF Unopened, IsOpen, Call, Conduct
      <3> QED
        BY <2>1, <3>1 DEF Sound, Owned, NewIsFree, Permitted, Fresh, At
    <2>5. \A t \in Session \ {s} : Sound(t)'
      BY <1>1, <1>2, <2>1
         DEF RInv, OthersStay, Sound, Unopened, Owned, NewIsFree, Permitted, Permits, Fresh,
             NewInode, At, IsOpen
    <2> QED
      BY <1>1, <1>6, <2>3, <2>4, <2>5 DEF RInv
  <1> QED
    BY <1>7, <1>8

LEMMA SecludedStep ==
  ASSUME RInv, NEW s \in Session, applyComands(s)
  PROVE  Secluded'
  <1>1. OthersStay(s) /\ TypeOK
    BY StepMoves, ThreadMoves DEF RInv, IInv
  <1>2. req'[s] = req[s] \/ req'[s] = NoRequest
    BY <1>1, ThreadMoves DEF Goto, Reply, TypeOK
  <1>3. ~Changes(NoRequest) /\ NamesOf(NoRequest) = {}
    BY DEF Changes, NamesOf, NoRequest
  <1> QED
    BY <1>1, <1>2, <1>3 DEF RInv, Secluded, OthersStay

LEMMA StepRInv == RInv /\ [Next]_vars => RInv'
  <1> SUFFICES ASSUME RInv, [Next]_vars PROVE RInv'
    OBVIOUS
  <1>1. IInv' /\ CloseFirst
    BY StepIInv DEF RInv
  <1>2. ASSUME NEW s \in Session, applyComands(s)
        PROVE  RInv'
    <2>1. OpenAreNamed' /\ Secluded'
      BY <1>1, <1>2, OpenAreNamedStep, SecludedStep
    <2>2. \A t \in Session : Sound(t)'
      BY <1>1, <1>2, SoundOther, SoundSelf
    <2> QED
      BY <1>1, <2>1, <2>2 DEF RInv
  <1>3. CASE UNCHANGED vars
    BY <1>1, <1>3
       DEF vars, RInv, Secluded, OpenAreNamed, Named, Leaving, Sound, Unopened, Owned,
           NewIsFree, Permitted, Permits, Fresh, NewInode, At, IsOpen
  <1> QED
    BY <1>1, <1>2, <1>3, CallKeepsRInv DEF Next

-----------------------------------------------------------------------------
(* Permissions. *)

Granted(user, inode) ==
  IF inode.owner = user THEN inode.ownerPermissions ELSE inode.othersPermissions

\* What user_allowed lets through: what the mode of the descriptor includes and the
\* file permits the user; and, since it holds the owner's permission against the
\* mode instead of what is asked for (main.c:101), all the mode includes to an
\* owner with any permission whose descriptor is RW.  So an owner with READ
\* writes, and one with WRITE reads, through a descriptor opened RW.
THEOREM OwnerRule ==
  ASSUME NEW user, NEW inode \in Inode, NEW mode \in 0..3, NEW perm \in {READ, WRITE}
  PROVE  user_allowed(user, mode, perm, inode) = 0 <=>
           /\ mode \in {perm, RW}
           /\ \/ Granted(user, inode) \in {perm, RW}
              \/ inode.owner = user /\ inode.ownerPermissions # 0 /\ mode = RW
  <1>1. inode.ownerPermissions \in 0..3 /\ inode.othersPermissions \in 0..3
    BY DEF Inode
  <1>2. isPermitted(perm, mode) <=> mode \in {perm, RW}
    BY DEF isPermitted, READ, WRITE, RW
  <1>3. isPermitted(inode.othersPermissions, perm) <=> inode.othersPermissions \in {perm, RW}
    BY <1>1 DEF isPermitted, READ, WRITE, RW
  <1>4. ASSUME mode \in {perm, RW}
        PROVE  isPermitted(inode.ownerPermissions, mode) <=>
                 \/ inode.ownerPermissions \in {perm, RW}
                 \/ inode.ownerPermissions # 0 /\ mode = RW
    BY <1>1, <1>4 DEF isPermitted, READ, WRITE, RW
  <1> QED
    BY <1>2, <1>3, <1>4 DEF user_allowed, Granted, INVALID_MODE, PERMISSION_DENIED

\* A session is past user_allowed and about to write to a file that does not
\* permit it, nor would by the rule for owners.
Trespasses(s) ==
  LET i == iNumber[s] IN
  /\ At(s, "write", "inode_set")
  /\ i \in Inumber /\ inode_table[i] # FREE_INODE
  /\ ~MayWrite(s, inode_table[i])
  /\ ~(inode_table[i].owner = userOf[s] /\ inode_table[i].ownerPermissions = READ)

Makes(s, i) == At(s, "create", "inode_create") /\ FreeInodes # {} /\ FirstFree = i

\* user_allowed lets no session through that would trespass at once.
LEMMA LetThrough ==
  ASSUME IInv, NEW s \in Session, applyComands(s)
  PROVE  ~Trespasses(s)'
  <1> SUFFICES ASSUME Trespasses(s)' PROVE FALSE
    OBVIOUS
  <1>1. TypeOK /\ TypeOK'
    BY TypeStep DEF IInv, Next
  <1>2. pc'[s] = "inode_set" /\ req'[s].kind = "write"
    BY DEF Trespasses, At
  <1>3. CheckDescriptor(s, WRITE, "inode_set")
    <2>1. req[s].kind = "write"
      <3>1. CASE \E label, i : Goto(s, label, i)
        BY <1>2, <3>1 DEF Goto
      <3>2. CASE \E reply : Reply(s, reply)
        BY <1>1, <1>2, <3>2 DEF Reply, TypeOK
      <3> QED
        BY <3>1, <3>2, ThreadMoves
    <2>2. apply_write(s)
      BY <2>1 DEF applyComands, apply_create, apply_delete, apply_rename, apply_open,
                  apply_close, apply_read, CheckDescriptor, At
    <2> QED
      BY <1>1, <1>2, <2>2 DEF apply_write, Reply, TypeOK
  <1> DEFINE file == files[s][req[s].fd]
  <1>4. PICK inode \in inode_get(file.iNumber) :
          /\ req[s].fd # -1 /\ file.iNumber # -1
          /\ user_allowed(userOf[s], file.mode, WRITE, inode) = 0
          /\ Goto(s, "inode_set", file.iNumber)
    BY <1>1, <1>2, <1>3 DEF CheckDescriptor, Goto, Reply, TypeOK
  <1>5. inode_table' = inode_table /\ iNumber'[s] = file.iNumber
    BY <1>1, <1>3, <1>4 DEF CheckDescriptor, Goto, TypeOK
  <1>6. file.iNumber \in Inumber /\ inode_table[file.iNumber] # FREE_INODE
    BY <1>5 DEF Trespasses
  <1>7. inode = inode_table[file.iNumber] /\ inode \in Inode
    BY <1>1, <1>4, <1>6, SizeAssumption DEF inode_get, Invalid, Inumber, TypeOK
  <1>8. file.mode \in 0..3
    <2>1. req[s].fd \in fds
      BY <1>1, <1>2, <1>4, RequestFields DEF TypeOK, Goto
    <2> QED
      BY <1>1, <2>1 DEF TypeOK
  <1> HIDE DEF file
  <1>9. \/ Granted(userOf[s], inode) \in {WRITE, RW}
        \/ inode.owner = userOf[s] /\ inode.ownerPermissions # 0
    BY <1>4, <1>7, <1>8, OwnerRule
  <1>10. MayWrite(s, inode) \/ (inode.owner = userOf[s] /\ inode.ownerPermissions = READ)
    BY <1>7, <1>9 DEF Granted, MayWrite, Inode, READ, WRITE, RW
  <1> QED
    BY <1>5, <1>7, <1>10 DEF Trespasses, MayWrite

\* A trespass begins when the file is created, between user_allowed and inode_set.
LEMMA TrespassStarts ==
  ASSUME IInv, [Next]_vars, NEW s \in Session, Trespasses(s)', ~Trespasses(s)
  PROVE  /\ At(s, "write", "inode_set") /\ iNumber'[s] = iNumber[s]
         /\ \E t \in Session : Makes(t, iNumber[s])
  <1>1. TypeOK
    BY DEF IInv
  <1>2. ~UNCHANGED vars
    BY DEF vars, Trespasses, At, MayWrite
  <1>3. ASSUME NEW t \in Session, Mount(t) \/ \E r \in Requests : Call(t, r)
        PROVE  FALSE
    <2>1. inode_table' = inode_table /\ iNumber' = iNumber
      BY <1>3 DEF Mount, Call
    <2>2. pc'[s] = "inode_set" => pc[s] = "inode_set" /\ req'[s] = req[s]
      BY <1>1, <1>3 DEF Mount, Call, TypeOK
    <2> QED
      BY <2>1, <2>2 DEF Trespasses, At, MayWrite
  <1>4. PICK t \in Session : applyComands(t)
    BY <1>2, <1>3 DEF Next
  <1>5. t # s
    BY <1>4, LetThrough
  <1>6. pc'[s] = pc[s] /\ req'[s] = req[s] /\ iNumber'[s] = iNumber[s]
    BY <1>1, <1>4, <1>5, StepMoves, ThreadMoves DEF OthersStay
  <1> DEFINE i == iNumber[s]
  <1>7. /\ At(s, "write", "inode_set") /\ i \in Inumber /\ inode_table'[i] # FREE_INODE
        /\ ~MayWrite(s, inode_table'[i])
        /\ ~(inode_table'[i].owner = userOf[s] /\ inode_table'[i].ownerPermissions = READ)
    BY <1>6 DEF Trespasses, At, MayWrite
  <1> HIDE DEF i
  <1>8. inode_table[i] = FREE_INODE
    <2> SUFFICES ASSUME inode_table[i] # FREE_INODE PROVE FALSE
      OBVIOUS
    <2>1. ~Deletes(t, i)
      <3> SUFFICES ASSUME Deletes(t, i) PROVE inode_table'[i] = FREE_INODE
        BY <1>7
      <3>1. inode_delete(i)
        BY <1>4 DEF applyComands, apply_create, apply_delete, apply_rename, apply_open,
                    apply_close, apply_write, apply_read, CheckDescriptor, At, Deletes
      <3> QED
        BY <1>1, <1>7, <3>1, SizeAssumption DEF inode_delete, Invalid, Inumber, TypeOK
    <2>2. /\ inode_table'[i].owner = inode_table[i].owner
          /\ inode_table'[i].ownerPermissions = inode_table[i].ownerPermissions
          /\ inode_table'[i].othersPermissions = inode_table[i].othersPermissions
      BY <1>4, <1>7, <2>1, InodeStays
    <2> QED
      BY <1>7, <2>2 DEF Trespasses, MayWrite, i
  <1>9. Makes(t, i)
    <2>1. inode_table' # inode_table
      BY <1>7, <1>8
    <2>2. \/ At(t, "create", "inode_create")
          \/ At(t, "delete", "inode_delete") /\ inode_delete(iNumber[t])
          \/ At(t, "write", "inode_set") /\ inode_set(iNumber[t], req[t].content)
      <3>1. CASE apply_create(t)
        BY <2>1, <3>1 DEF apply_create
      <3>2. CASE apply_delete(t)
        BY <2>1, <3>2 DEF apply_delete
      <3>3. CASE apply_write(t)
        BY <2>1, <3>3 DEF apply_write, CheckDescriptor
      <3>4. CASE apply_rename(t) \/ apply_open(t) \/ apply_close(t) \/ apply_read(t)
        BY <2>1, <3>4 DEF apply_rename, apply_open, apply_close, apply_read, CheckDescriptor
      <3> QED
        BY <1>4, <3>1, <3>2, <3>3, <3>4 DEF applyComands
    <2>3. CASE At(t, "create", "inode_create")
      <3>1. inode_create(userOf[t], req[t].permissions \div 10, req[t].permissions % 10)
        BY <1>4, <2>3 DEF applyComands, apply_create, apply_delete, apply_rename, apply_open,
                          apply_close, apply_write, apply_read, CheckDescriptor, At
      <3> QED
        BY <1>1, <1>7, <1>8, <2>3, <3>1 DEF inode_create, Makes, TypeOK
    <2>4. CASE inode_delete(iNumber[t])
      BY <1>1, <1>7, <1>8, <2>4 DEF inode_delete, TypeOK
    <2>5. CASE inode_set(iNumber[t], req[t].content)
      BY <1>1, <1>7, <1>8, <2>5 DEF inode_set, Invalid, TypeOK
    <2> QED
      BY <2>2, <2>3, <2>4, <2>5
  <1> QED
    BY <1>6, <1>7, <1>9 DEF i

\* The content of a file changes only by an inode_set that carries its i-number.
LEMMA OnlySettersWrite ==
  ASSUME IInv, [Next]_vars, NEW i \in Inumber,
         inode_table[i] # FREE_INODE, inode_table'[i] # FREE_INODE,
         inode_table[i] # inode_table'[i]
  PROVE  \E s \in Session : Writes(s, i)
  <1>1. PICK s \in Session : applyComands(s)
    BY DEF Next, Mount, Call, vars
  <1>2. ~Deletes(s, i)
    <2> SUFFICES ASSUME Deletes(s, i) PROVE inode_table'[i] = FREE_INODE
      OBVIOUS
    <2>1. inode_delete(i)
      BY <1>1 DEF applyComands, apply_create, apply_delete, apply_rename, apply_open,
                  apply_close, apply_write, apply_read, CheckDescriptor, At, Deletes
    <2> QED
      BY <2>1, SizeAssumption DEF inode_delete, Invalid, Inumber, IInv, TypeOK
  <1> QED
    BY <1>1, <1>2, InodeStays

\* Run server_writes shows a write to a file that does not permit it.  That can
\* befall only a file created after its writer was let through, whatever is
\* deleted while it is open: a session comes to be in the wrong only by the
\* inode_create of the file, when it is at inode_set already, and what a file
\* holds changes only by a session at inode_set.
OnlyNewFilesSuffer ==
  [][/\ \A s \in Session :
          Trespasses(s)' /\ ~Trespasses(s) =>
            /\ At(s, "write", "inode_set") /\ iNumber'[s] = iNumber[s]
            /\ \E t \in Session : Makes(t, iNumber[s])
     /\ \A i \in Inumber :
          inode_table[i] # FREE_INODE /\ inode_table'[i] # FREE_INODE
            /\ inode_table[i] # inode_table'[i] =>
              \E s \in Session : Writes(s, i)]_vars

THEOREM NewFilesOnly == Spec => OnlyNewFilesSuffer
  <1>1. IInv /\ [Next]_vars =>
          [/\ \A s \in Session :
                Trespasses(s)' /\ ~Trespasses(s) =>
                  /\ At(s, "write", "inode_set") /\ iNumber'[s] = iNumber[s]
                  /\ \E t \in Session : Makes(t, iNumber[s])
           /\ \A i \in Inumber :
                inode_table[i] # FREE_INODE /\ inode_table'[i] # FREE_INODE
                  /\ inode_table[i] # inode_table'[i] =>
                    \E s \in Session : Writes(s, i)]_vars
    BY TrespassStarts, OnlySettersWrite
  <1> QED
    BY <1>1, InitIInv, StepIInv, PTL DEF Spec, OnlyNewFilesSuffer

-----------------------------------------------------------------------------
(* Refinement: the state of FileService before and after a step. *)

\* FileService has the constants of TfsApi under names of its own.
LEMMA SameApi ==
  /\ Abs!NoRequest = NoRequest /\ Abs!fds = fds /\ Abs!Closed = Closed
  /\ Abs!FILE_ALREADY_EXISTS = FILE_ALREADY_EXISTS
  /\ Abs!FILE_NOT_FOUND = FILE_NOT_FOUND
  /\ Abs!PERMISSION_DENIED = PERMISSION_DENIED
  /\ Abs!MAXED_OPEN_FILES = MAXED_OPEN_FILES
  /\ Abs!FILE_NOT_OPEN = FILE_NOT_OPEN
  /\ Abs!FILE_IS_OPEN = FILE_IS_OPEN
  /\ Abs!ERROR_OTHER = ERROR_OTHER
  /\ Abs!WRITE = WRITE /\ Abs!READ = READ
  /\ \A user, mode, perm, inode :
       Abs!user_allowed(user, mode, perm, inode) = user_allowed(user, mode, perm, inode)
  BY DEF Abs!NoRequest, NoRequest, Abs!fds, fds, Abs!Closed, Closed,
         Abs!FILE_ALREADY_EXISTS, FILE_ALREADY_EXISTS, Abs!FILE_NOT_FOUND, FILE_NOT_FOUND,
         Abs!PERMISSION_DENIED, PERMISSION_DENIED, Abs!MAXED_OPEN_FILES, MAXED_OPEN_FILES,
         Abs!FILE_NOT_OPEN, FILE_NOT_OPEN, Abs!FILE_IS_OPEN, FILE_IS_OPEN,
         Abs!ERROR_OTHER, ERROR_OTHER, Abs!WRITE, WRITE, Abs!READ, READ, Abs!RW, RW,
         Abs!INVALID_MODE, INVALID_MODE, Abs!user_allowed, user_allowed,
         Abs!isPermitted, isPermitted

\* A thread's step is its session's alone, the answers included.
LEMMA AnswersStay ==
  ASSUME TypeOK, NEW s \in Session,
         (\E label, i : Goto(s, label, i)) \/ (\E reply : Reply(s, reply))
  PROVE  /\ OthersStay(s)
         /\ \A t \in Session \ {s} :
              /\ (Served(t)' <=> Served(t))
              /\ answer'[t] = answer[t]
  <1>1. OthersStay(s)
    BY StepMoves
  <1>2. \A t \in Session \ {s} : answer'[t] = answer[t]
    BY DEF TypeOK, Goto, Reply
  <1> QED
    BY <1>1, <1>2 DEF OthersStay, Served, At

\* Whether the others have been served, as values.
LEMMA DoneStays ==
  ASSUME TypeOK, NEW s \in Session,
         (\E label, i : Goto(s, label, i)) \/ (\E reply : Reply(s, reply))
  PROVE  doneBar' = [doneBar EXCEPT ![s] = Served(s)']
  <1>1. \A t \in Session : t # s => Served(t)' = Served(t)
    <2>1. \A t \in Session \ {s} : Served(t)' <=> Served(t)
      BY AnswersStay
    <2>2. \A t : Served(t) \in BOOLEAN /\ Served(t)' \in BOOLEAN
      BY DEF Served
    <2> QED
      BY <2>1, <2>2, Zenon
  <1> QED
    BY <1>1, Zenon DEF doneBar

LEMMA DoneOf ==
  ASSUME NEW s \in Session
  PROVE  /\ Served(s) => doneBar[s] = TRUE
         /\ ~Served(s) => doneBar[s] = FALSE
         /\ Served(s)' => Served(s)' = TRUE
         /\ ~Served(s)' => Served(s)' = FALSE
  <1>1. Served(s) \in BOOLEAN /\ Served(s)' \in BOOLEAN
    BY DEF Served
  <1>2. doneBar[s] = Served(s)
    BY Zenon DEF doneBar
  <1> QED
    BY <1>1, <1>2, Zenon

\* What a reply is to FileService ...
LEMMA ReplyIsEffect ==
  ASSUME TypeOK, NEW s \in Session, NEW reply \in Answer, Reply(s, reply), ~Served(s)
  PROVE  Abs!Effect(s, reply)
  <1>1. ~Served(s)'
    BY DEF TypeOK, Reply, Served, At
  <1>2. doneBar' = doneBar /\ ~doneBar[s]
    <2>1. Served(s)' = FALSE /\ doneBar[s] = FALSE
      BY <1>1, DoneOf, Zenon
    <2>2. doneBar' = [doneBar EXCEPT ![s] = doneBar[s]]
      BY <2>1, DoneStays, Zenon
    <2> QED
      BY <2>1, <2>2 DEF doneBar
  <1>3. answerBar' = [answerBar EXCEPT ![s] = reply]
    <2>1. answer'[s] = reply
      BY DEF TypeOK, Reply
    <2> QED
      BY <1>1, <2>1, AnswersStay DEF answerBar
  <1> QED
    BY <1>2, <1>3, SameApi DEF Abs!Effect, Reply

\* ... when the effect has been before ...
LEMMA ReplyIsDelivery ==
  ASSUME TypeOK, NEW s \in Session, Reply(s, 0), Served(s),
         namesBar' = namesBar, inodesBar' = inodesBar, files' = files
  PROVE  Abs!Deliver(s)
  <1>1. ~Served(s)'
    BY DEF TypeOK, Reply, Served, At
  <1>2. doneBar' = [doneBar EXCEPT ![s] = FALSE] /\ doneBar[s]
    <2>1. Served(s)' = FALSE /\ doneBar[s] = TRUE
      BY <1>1, DoneOf, Zenon
    <2> QED
      BY <2>1, DoneStays, Zenon
  <1>3. answerBar' = answerBar
    <2>1. answer'[s] = 0
      BY DEF TypeOK, Reply
    <2> QED
      BY <1>1, <2>1, AnswersStay DEF answerBar
  <1> QED
    BY <1>2, <1>3, SameApi DEF Abs!Deliver, Reply

\* ... when it comes before the reply ...
LEMMA GotoIsEffect ==
  ASSUME TypeOK, NEW s \in Session, NEW label, NEW i, Goto(s, label, i), ~Served(s), Served(s)'
  PROVE  Abs!Effect(s, 0)
  <1>1. doneBar' = [doneBar EXCEPT ![s] = TRUE] /\ ~doneBar[s]
    <2>1. Served(s)' = TRUE /\ doneBar[s] = FALSE
      BY DoneOf, Zenon
    <2> QED
      BY <2>1, DoneStays, Zenon
  <1>2. answerBar' = [answerBar EXCEPT ![s] = 0]
    BY AnswersStay DEF answerBar
  <1> QED
    BY <1>1, <1>2 DEF Abs!Effect, Goto

\* ... and when nothing is to be seen.
LEMMA GotoIsStutter ==
  ASSUME TypeOK, NEW s \in Session, NEW label, NEW i, Goto(s, label, i), ~Served(s), ~Served(s)',
         namesBar' = namesBar, inodesBar' = inodesBar, files' = files
  PROVE  UNCHANGED Abs!vars
  <1>1. doneBar' = doneBar
    <2>1. Served(s)' = FALSE /\ doneBar[s] = FALSE
      BY DoneOf, Zenon
    <2>2. doneBar' = [doneBar EXCEPT ![s] = doneBar[s]]
      BY <2>1, DoneStays, Zenon
    <2> QED
      BY <2>2 DEF doneBar
  <1>2. answerBar' = answerBar
    BY AnswersStay DEF answerBar, Goto
  <1> QED
    BY <1>1, <1>2 DEF Abs!vars, Goto

LEMMA NamesBar ==
  ASSUME NEW n \in Name
  PROVE  namesBar[n] = IF Leaving(n) THEN -1 ELSE dir[n]
  BY DEF namesBar

LEMMA InodesBar ==
  ASSUME NEW i \in Inumber
  PROVE  inodesBar[i] = IF Named(i) THEN inode_table[i] ELSE FREE_INODE
  BY DEF inodesBar, Named

\* Names leave the directory only in two steps of apply_delete.
LEMMA LeavingStays ==
  ASSUME TypeOK, NEW s \in Session, OthersStay(s),
         ~At(s, "delete", "remove"), ~At(s, "delete", "remove")'
  PROVE  \A m \in Name : Leaving(m)' <=> Leaving(m)
  BY DEF Leaving, OthersStay, At

\* A step that changes no name and no i-node that has one.
LEMMA BarsStay ==
  ASSUME dir' = dir, \A m \in Name : Leaving(m)' <=> Leaving(m),
         \A i \in Inumber : Named(i) => inode_table'[i] = inode_table[i]
  PROVE  namesBar' = namesBar /\ inodesBar' = inodesBar
  BY DEF namesBar, inodesBar, Named

-----------------------------------------------------------------------------
(* Refinement: the steps. *)

LEMMA CreateRefines ==
  ASSUME RInv, RInv', NEW s \in Session, apply_create(s)
  PROVE  Abs!Create(s) \/ Abs!Deliver(s) \/ UNCHANGED Abs!vars
  <1> DEFINE n == req[s].name
             i == iNumber[s]
  <1>1. /\ IInv /\ TypeOK /\ OthersStay(s) /\ applyComands(s)
        /\ n \in Name /\ req[s].kind = "create" /\ files' = files
    <2>1. OthersStay(s) /\ applyComands(s)
      BY StepMoves, ThreadMoves DEF RInv, IInv, applyComands
    <2>2. IInv /\ TypeOK /\ req[s].kind = "create" /\ files' = files
      BY DEF RInv, IInv, apply_create, At
    <2> QED
      BY <2>1, <2>2, RequestFields DEF TypeOK
  <1>2. ~Leaving(n) /\ namesBar[n] = dir[n]
    BY <1>1, NamesApart, NamesBar DEF Leaving, At
  <1>3. \A m \in Name : Leaving(m)' <=> Leaving(m)
    <2>1. pc'[s] # "remove"
      BY <1>1 DEF apply_create, Goto, Reply, TypeOK
    <2> QED
      BY <1>1, <2>1, LeavingStays DEF At
  <1>4. FILE_ALREADY_EXISTS \in Answer /\ 0 \in Answer
    BY TableAssumption DEF Answer, FILE_ALREADY_EXISTS
  <1>5. CASE At(s, "create", "lookup")
    <2>1. dir' = dir /\ inode_table' = inode_table /\ ~Served(s)
      BY <1>5 DEF apply_create, At, Served
    <2>2. namesBar' = namesBar /\ inodesBar' = inodesBar
      BY <1>3, <2>1, BarsStay
    <2>3. CASE dir[n] # -1
      <3>1. Reply(s, FILE_ALREADY_EXISTS)
        BY <1>5, <2>3 DEF apply_create, At
      <3>2. Abs!Effect(s, FILE_ALREADY_EXISTS)
        BY <1>1, <1>4, <2>1, <3>1, ReplyIsEffect
      <3> QED
        BY <1>1, <1>2, <2>2, <2>3, <3>2, SameApi DEF Abs!Create
    <2>4. CASE dir[n] = -1
      <3>1. Goto(s, "inode_create", -1)
        BY <1>5, <2>4 DEF apply_create, At
      <3>2. ~Served(s)'
        BY <1>1, <3>1 DEF Goto, TypeOK, Served, At
      <3> QED
        BY <1>1, <2>1, <2>2, <3>1, <3>2, GotoIsStutter
    <2> QED
      BY <2>3, <2>4
  <1>6. CASE At(s, "create", "inode_create")
    <2>1. /\ inode_create(userOf[s], req[s].permissions \div 10, req[s].permissions % 10)
          /\ Goto(s, "insert", inode_create_result)
          /\ dir' = dir /\ ~Served(s)
      BY <1>6 DEF apply_create, At, Served
    <2>2. \A j \in Inumber : Named(j) => inode_table'[j] = inode_table[j]
      <3> SUFFICES ASSUME NEW j \in Inumber, Named(j) PROVE inode_table'[j] = inode_table[j]
        OBVIOUS
      <3>1. j # -1
        BY SizeAssumption DEF Inumber
      <3>2. inode_table[j] # FREE_INODE
        BY <1>1, <3>1, NamedInUse
      <3> QED
        BY <1>1, <1>6, <3>2, InodeStays DEF Deletes, Writes, At
    <2>3. namesBar' = namesBar /\ inodesBar' = inodesBar
      BY <1>3, <2>1, <2>2, BarsStay
    <2>4. Served(s)' <=> inode_create_result = -1
      BY <1>1, <2>1 DEF Goto, TypeOK, Served, At
    <2>5. CASE inode_create_result # -1
      BY <1>1, <2>1, <2>3, <2>4, <2>5, GotoIsStutter
    <2>6. CASE inode_create_result = -1
      <3>1. FreeInodes = {}
        <4>1. FreeInodes # {} => FirstFree \in Inumber
          BY FirstFreeIsFree
        <4> QED
          BY <2>6, <4>1, SizeAssumption DEF inode_create_result, Inumber
      <3>2. Abs!Effect(s, 0)
        BY <1>1, <2>1, <2>4, <2>6, GotoIsEffect
      <3>3. Abs!NoRoom(s)
        <4>1. CASE \A j \in Inumber : Named(j)
          <5>1. \A j \in Inumber : inodesBar[j] # FREE_INODE
            BY <3>1, <4>1, InodesBar DEF FreeInodes
          <5> QED
            BY <5>1 DEF Abs!NoRoom
        <4>2. ASSUME NEW j \in Inumber, ~Named(j) PROVE Abs!NoRoom(s)
          <5>1. PICK t \in Session : At(t, "create", "insert") /\ iNumber[t] = j
            BY <1>1, <3>1, <4>2 DEF FreeInodes, IInv, NamesHaveInodes, Named
          <5>2. j # -1
            BY SizeAssumption DEF Inumber
          <5>3. t # s /\ ~doneBar[t] /\ req[t].kind = "create"
            BY <1>6, <5>1, <5>2 DEF At, doneBar, Served
          <5> QED
            BY <5>3 DEF Abs!NoRoom
        <4> QED
          BY <4>1, <4>2
      <3>4. namesBar[n] = -1
        BY <1>1, <1>2, <1>6 DEF IInv, StillSo
      <3> QED
        BY <1>1, <2>3, <3>2, <3>3, <3>4 DEF Abs!Create
    <2> QED
      BY <2>5, <2>6
  <1>7. CASE At(s, "create", "insert")
    <2>1. /\ dir' = [dir EXCEPT ![n] = i] /\ Reply(s, 0)
          /\ inode_table' = inode_table
      BY <1>7 DEF apply_create, At
    <2>2. dir[n] = -1 /\ dir'[n] = i /\ \A m \in Name \ {n} : dir'[m] = dir[m]
      BY <1>1, <1>7, <2>1 DEF IInv, StillSo, TypeOK
    <2>3. CASE i = -1
      <3>1. dir' = dir /\ Served(s)
        BY <1>1, <1>7, <2>1, <2>2, <2>3 DEF TypeOK, Served
      <3>2. namesBar' = namesBar /\ inodesBar' = inodesBar
        BY <1>3, <2>1, <3>1, BarsStay
      <3> QED
        BY <1>1, <2>1, <3>1, <3>2, ReplyIsDelivery
    <2>4. CASE i # -1
      <3>1. ~Served(s) /\ i \in Inumber
        BY <1>1, <1>7, <2>4 DEF Served, At, TypeOK
      <3>2. Abs!Effect(s, 0)
        BY <1>1, <1>4, <2>1, <3>1, ReplyIsEffect
      <3>3. ~Named(i) /\ inode_table[i] = NewInode(s)
        BY <1>1, <1>7, <2>4 DEF IInv, Unnamed, Named, RInv, Sound, Fresh
      <3>4. namesBar' = [namesBar EXCEPT ![n] = i]
        BY <1>2, <1>3, <2>2 DEF namesBar
      <3>5. inodesBar' = [inodesBar EXCEPT ![i] = NewInode(s)]
        <4>1. \A j \in Inumber : Named(j)' <=> Named(j) \/ j = i
          <5>1. -1 \notin Inumber
            BY SizeAssumption DEF Inumber
          <5> QED
            BY <1>1, <1>2, <1>3, <2>2, <5>1 DEF Named
        <4> QED
          BY <2>1, <3>3, <4>1 DEF inodesBar, Named
      <3>6. namesBar[n] = -1 /\ inodesBar[i] = FREE_INODE
        BY <1>2, <2>2, <3>1, <3>3, InodesBar
      <3> QED
        BY <1>1, <3>1, <3>2, <3>4, <3>5, <3>6 DEF Abs!Create, NewInode
    <2> QED
      BY <2>3, <2>4
  <1> QED
    BY <1>5, <1>6, <1>7 DEF apply_create

LEMMA DeleteRefines ==
  ASSUME RInv, RInv', NEW s \in Session, apply_delete(s)
  PROVE  Abs!Delete(s) \/ Abs!Deliver(s) \/ UNCHANGED Abs!vars
  <1> DEFINE n == req[s].name
             i == iNumber[s]
  <1>1. /\ IInv /\ TypeOK /\ OthersStay(s) /\ applyComands(s)
        /\ n \in Name /\ req[s].kind = "delete" /\ files' = files
    <2>1. OthersStay(s) /\ applyComands(s)
      BY StepMoves, ThreadMoves DEF RInv, IInv, applyComands
    <2>2. IInv /\ TypeOK /\ req[s].kind = "delete" /\ files' = files
      BY DEF RInv, IInv, apply_delete, At
    <2> QED
      BY <2>1, <2>2, RequestFields DEF TypeOK
  <1>2. FILE_NOT_FOUND \in Answer /\ PERMISSION_DENIED \in Answer /\ 0 \in Answer
    BY TableAssumption DEF Answer, FILE_NOT_FOUND, PERMISSION_DENIED
  <1>3. CASE At(s, "delete", "lookup") \/ At(s, "delete", "inode_get_owner")
    <2>1. dir' = dir /\ inode_table' = inode_table /\ ~Served(s)
      BY <1>3 DEF apply_delete, At, Served
    <2>2. ~Leaving(n) /\ namesBar[n] = dir[n]
      BY <1>1, <1>3, NamesApart, NamesBar DEF Leaving, At
    <2>3. ~At(s, "delete", "remove")'
      BY <1>1, <1>3 DEF apply_delete, Goto, Reply, TypeOK, At
    <2>4. namesBar' = namesBar /\ inodesBar' = inodesBar
      <3>1. \A m \in Name : Leaving(m)' <=> Leaving(m)
        BY <1>1, <1>3, <2>3, LeavingStays DEF At
      <3> QED
        BY <2>1, <3>1, BarsStay
    <2>5. ASSUME NEW label, NEW j, Goto(s, label, j)
          PROVE  UNCHANGED Abs!vars
      <3>1. ~Served(s)'
        BY <1>1, <2>3, <2>5 DEF Goto, TypeOK, Served, At
      <3> QED
        BY <1>1, <2>1, <2>4, <2>5, <3>1, GotoIsStutter
    <2>6. CASE At(s, "delete", "lookup") /\ dir[n] = -1
      <3>1. Reply(s, FILE_NOT_FOUND)
        BY <2>6 DEF apply_delete, At
      <3>2. Abs!Effect(s, FILE_NOT_FOUND)
        BY <1>1, <1>2, <2>1, <3>1, ReplyIsEffect
      <3> QED
        BY <1>1, <2>2, <2>4, <2>6, <3>2, SameApi DEF Abs!Delete
    <2>7. CASE At(s, "delete", "lookup") /\ dir[n] # -1
      BY <2>5, <2>7 DEF apply_delete, At
    <2>8. CASE At(s, "delete", "inode_get_owner")
      <3>1. dir[n] = i /\ i # -1
        BY <1>1, <2>8 DEF IInv, StillSo
      <3>2. Named(i)
        BY <1>1, <2>2, <3>1 DEF Named
      <3>3. i \in Inumber /\ inode_table[i] # FREE_INODE
        BY <1>1, <3>1, <3>2, NamedInUse
      <3>4. inode_get(i) = {inode_table[i]} /\ inodesBar[i] = inode_table[i]
        BY <3>2, <3>3, InodesBar, SizeAssumption DEF inode_get, Invalid, Inumber
      <3>5. CASE inode_table[i].owner = userOf[s]
        BY <2>5, <2>8, <3>4, <3>5 DEF apply_delete, At
      <3>6. CASE inode_table[i].owner # userOf[s]
        <4>1. Reply(s, PERMISSION_DENIED)
          BY <2>8, <3>4, <3>6 DEF apply_delete, At
        <4>2. Abs!Effect(s, PERMISSION_DENIED)
          BY <1>1, <1>2, <2>1, <4>1, ReplyIsEffect
        <4> QED
          BY <1>1, <2>2, <2>4, <3>1, <3>4, <3>6, <4>2, SameApi DEF Abs!Delete, Abs!Owns
      <3> QED
        BY <3>5, <3>6
    <2> QED
      BY <1>3, <2>6, <2>7, <2>8
  <1>4. CASE At(s, "delete", "inode_delete")
    <2>1. inode_delete(i) /\ Goto(s, "remove", i) /\ dir' = dir
      BY <1>4 DEF apply_delete, At
    <2>2. /\ dir[n] = i /\ i # -1 /\ ~Leaving(n)
          /\ \A m \in Name : dir[m] = i /\ ~Leaving(m) => m = n
      BY <1>1, <1>4, DeletedIsNamed
    <2>3. Named(i) /\ i \in Inumber /\ inode_table[i] # FREE_INODE
      BY <1>1, <2>2, NamedInUse DEF Named
    <2>4. /\ inode_table'[i] = FREE_INODE
          /\ \A j \in Inumber \ {i} : inode_table'[j] = inode_table[j]
      BY <1>1, <2>1, <2>3, SizeAssumption DEF inode_delete, Invalid, Inumber, TypeOK
    <2>5. ~Served(s) /\ At(s, "delete", "remove")' /\ req' = req
      BY <1>1, <1>4, <2>1 DEF Served, At, Goto, TypeOK
    <2>6. \A m \in Name : Leaving(m)' <=> Leaving(m) \/ m = n
      BY <1>1, <1>4, <2>5 DEF Leaving, OthersStay, At
    <2>7. Abs!Effect(s, 0)
      BY <1>1, <2>1, <2>5, GotoIsEffect DEF Served
    <2>8. namesBar' = [namesBar EXCEPT ![n] = -1]
      BY <2>1, <2>6 DEF namesBar
    <2>9. \A j \in Inumber : Named(j)' <=> Named(j) /\ j # i
      BY <1>1, <2>1, <2>2, <2>6 DEF Named
    <2>10. inodesBar' = [inodesBar EXCEPT ![i] = FREE_INODE]
      BY <2>4, <2>9 DEF inodesBar, Named
    <2>11. namesBar[n] = i /\ inodesBar[i].owner = userOf[s]
      <3>1. inode_table[i].owner = userOf[s]
        BY <1>4 DEF RInv, Sound, Owned
      <3> QED
        BY <1>1, <2>2, <2>3, <3>1, NamesBar, InodesBar
    <2> QED
      BY <1>1, <2>2, <2>7, <2>8, <2>10, <2>11 DEF Abs!Delete, Abs!Owns
  <1>5. CASE At(s, "delete", "remove")
    <2>1. dir' = [dir EXCEPT ![n] = -1] /\ Reply(s, 0) /\ inode_table' = inode_table
      BY <1>5 DEF apply_delete, At
    <2>2. /\ dir'[n] = -1 /\ \A m \in Name \ {n} : dir'[m] = dir[m]
          /\ pc'[s] = "idle"
      BY <1>1, <2>1 DEF TypeOK, Reply
    <2>3. Leaving(n) /\ Served(s)
      BY <1>5 DEF Leaving, Served
    <2>4. \A m \in Name \ {n} : Leaving(m)' <=> Leaving(m)
      BY <1>1, <2>2 DEF Leaving, OthersStay, At
    <2>5. namesBar' = namesBar
      BY <2>2, <2>3, <2>4 DEF namesBar
    <2>6. \A j \in Inumber : Named(j)' <=> Named(j)
      <3>1. -1 \notin Inumber
        BY SizeAssumption DEF Inumber
      <3> QED
        BY <1>1, <2>2, <2>3, <2>4, <3>1 DEF Named
    <2>7. inodesBar' = inodesBar
      BY <2>1, <2>6 DEF inodesBar, Named
    <2> QED
      BY <1>1, <2>1, <2>3, <2>5, <2>7, ReplyIsDelivery
  <1> QED
    BY <1>3, <1>4, <1>5 DEF apply_delete

LEMMA RenameRefines ==
  ASSUME RInv, RInv', NEW s \in Session, apply_rename(s)
  PROVE  Abs!Rename(s) \/ UNCHANGED Abs!vars
  <1> DEFINE n == req[s].name
             new == req[s].name2
             i == iNumber[s]
  <1>1. /\ IInv /\ TypeOK /\ OthersStay(s) /\ applyComands(s)
        /\ n \in Name /\ new \in Name /\ req[s].kind = "rename"
        /\ files' = files /\ inode_table' = inode_table
    <2>1. OthersStay(s) /\ applyComands(s)
      BY StepMoves, ThreadMoves DEF RInv, IInv, applyComands
    <2>2. IInv /\ TypeOK /\ req[s].kind = "rename" /\ UNCHANGED <<files, inode_table>>
      BY DEF RInv, IInv, apply_rename
    <2> QED
      BY <2>1, <2>2, RequestFields DEF TypeOK
  <1>2. /\ ~Leaving(n) /\ namesBar[n] = dir[n]
        /\ ~Leaving(new) /\ namesBar[new] = dir[new]
    BY <1>1, NamesApart, NamesBar DEF Leaving, At
  <1>3. /\ FILE_NOT_FOUND \in Answer /\ FILE_ALREADY_EXISTS \in Answer
        /\ PERMISSION_DENIED \in Answer /\ 0 \in Answer
    BY TableAssumption
       DEF Answer, FILE_NOT_FOUND, FILE_ALREADY_EXISTS, PERMISSION_DENIED
  <1>4. /\ ~Served(s) /\ pc'[s] # "remove"
        /\ \A m \in Name : Leaving(m)' <=> Leaving(m)
    <2>1. pc'[s] # "remove"
      BY <1>1 DEF apply_rename, renameFile, Goto, Reply, TypeOK
    <2> QED
      BY <1>1, <2>1, LeavingStays DEF Served, At
  <1>5. ASSUME dir' = dir
        PROVE  /\ namesBar' = namesBar /\ inodesBar' = inodesBar
               /\ \A label, j : Goto(s, label, j) => UNCHANGED Abs!vars
    <2>1. namesBar' = namesBar /\ inodesBar' = inodesBar
      BY <1>1, <1>4, <1>5, BarsStay
    <2>2. ASSUME NEW label, NEW j, Goto(s, label, j) PROVE UNCHANGED Abs!vars
      <3>1. ~Served(s)'
        BY <1>1, <2>2 DEF Goto, Served, At
      <3> QED
        BY <1>1, <1>4, <2>1, <2>2, <3>1, GotoIsStutter
    <2> QED
      BY <2>1, <2>2
  <1>6. ASSUME pc[s] \in {"inode_get_owner", "lookup_again", "lookup_new_again", "move"}
        PROVE  /\ dir[n] = i /\ i # -1 /\ dir[new] = -1
               /\ i \in Inumber /\ inode_get(i) = {inode_table[i]}
               /\ inodesBar[i] = inode_table[i]
    <2>1. dir[n] = i /\ i # -1 /\ dir[new] = -1
      BY <1>1, <1>6 DEF IInv, StillSo, RInv, Sound, NewIsFree
    <2>2. Named(i)
      BY <1>1, <1>2, <2>1 DEF Named
    <2>3. i \in Inumber /\ inode_table[i] # FREE_INODE
      BY <1>1, <2>1, <2>2, NamedInUse
    <2> QED
      BY <2>1, <2>2, <2>3, InodesBar, SizeAssumption DEF inode_get, Invalid, Inumber
  <1>7. CASE pc[s] = "lookup" \/ pc[s] = "lookup_again"
    <2>1. dir' = dir /\ \E label, j : Goto(s, label, j)
      BY <1>7 DEF apply_rename, renameFile
    <2> QED
      BY <1>5, <2>1
  <1>8. CASE pc[s] = "lookup_new"
    <2>1. dir' = dir /\ i = dir[n]
      BY <1>1, <1>8 DEF apply_rename, renameFile, IInv, StillSo, At
    <2>2. CASE MayRename(s)
      BY <1>5, <1>8, <2>1, <2>2 DEF apply_rename, renameFile
    <2>3. CASE ~MayRename(s)
      <3> DEFINE refusal == IF i = -1 THEN FILE_NOT_FOUND ELSE FILE_ALREADY_EXISTS
      <3>1. Reply(s, refusal)
        BY <1>8, <2>3 DEF apply_rename, renameFile
      <3>2. Abs!Effect(s, refusal)
        BY <1>1, <1>3, <1>4, <3>1, ReplyIsEffect
      <3> QED
        BY <1>1, <1>2, <1>5, <2>1, <2>3, <3>2, SameApi DEF Abs!Rename, MayRename
    <2> QED
      BY <2>2, <2>3
  <1>9. CASE pc[s] = "inode_get_owner"
    <2>1. dir' = dir
      BY <1>9 DEF apply_rename, renameFile
    <2>2. CASE inode_table[i].owner = userOf[s]
      <3>1. Goto(s, "lookup_again", i)
        BY <1>6, <1>9, <2>2 DEF apply_rename, renameFile
      <3> QED
        BY <1>5, <2>1, <3>1
    <2>3. CASE inode_table[i].owner # userOf[s]
      <3>1. Reply(s, PERMISSION_DENIED)
        BY <1>6, <1>9, <2>3 DEF apply_rename, renameFile
      <3>2. Abs!Effect(s, PERMISSION_DENIED)
        BY <1>1, <1>3, <1>4, <3>1, ReplyIsEffect
      <3> QED
        BY <1>1, <1>2, <1>5, <1>6, <1>9, <2>1, <2>3, <3>2, SameApi DEF Abs!Rename, Abs!Owns
    <2> QED
      BY <2>2, <2>3
  <1>10. CASE pc[s] = "lookup_new_again"
    <2>1. dir' = dir /\ Goto(s, "move", i)
      BY <1>6, <1>10 DEF apply_rename, renameFile
    <2> QED
      BY <1>5, <2>1
  <1>11. CASE pc[s] = "move"
    <2>1. dir' = [dir EXCEPT ![n] = -1, ![new] = i] /\ Reply(s, 0)
      BY <1>11 DEF apply_rename, renameFile
    <2>2. dir[n] = i /\ i # -1 /\ dir[new] = -1 /\ i \in Inumber
      BY <1>6, <1>11
    <2>3. Abs!Effect(s, 0)
      BY <1>1, <1>3, <1>4, <2>1, ReplyIsEffect
    <2>4. namesBar' = [namesBar EXCEPT ![n] = -1, ![new] = i]
      BY <1>1, <1>2, <1>4, <2>1 DEF namesBar, TypeOK
    <2>5. /\ n # new /\ dir'[n] = -1 /\ dir'[new] = i
          /\ \A m \in Name \ {n, new} : dir'[m] = dir[m]
      BY <1>1, <2>1, <2>2 DEF TypeOK
    <2>6. \A j \in Inumber : Named(j)' <=> Named(j)
      <3> SUFFICES ASSUME NEW j \in Inumber PROVE Named(j)' <=> Named(j)
        OBVIOUS
      <3>1. j # -1
        BY SizeAssumption DEF Inumber
      <3>2. CASE j = i
        BY <1>1, <1>2, <1>4, <2>2, <2>5, <3>2 DEF Named
      <3>3. CASE j # i
        <4>1. \A m \in Name : dir'[m] = j <=> dir[m] = j
          BY <2>2, <2>5, <3>1, <3>3
        <4> QED
          BY <1>4, <4>1 DEF Named
      <3> QED
        BY <3>2, <3>3
    <2>7. inodesBar' = inodesBar
      BY <1>1, <2>6 DEF inodesBar, Named
    <2>8. Abs!Owns(s, n)
      <3>1. inode_table[i].owner = userOf[s]
        BY <1>1, <1>11 DEF RInv, Sound, Owned
      <3> QED
        BY <1>2, <1>6, <1>11, <3>1 DEF Abs!Owns
    <2>9. namesBar[n] = i /\ namesBar[new] = -1
      BY <1>2, <2>2
    <2> QED
      BY <1>1, <2>2, <2>3, <2>4, <2>7, <2>8, <2>9 DEF Abs!Rename
  <1> QED
    BY <1>7, <1>8, <1>9, <1>10, <1>11 DEF apply_rename, renameFile

\* open, close, write and read: names stay, and so does what leaves.
LEMMA OtherRequestsStay ==
  ASSUME RInv, NEW s \in Session,
         apply_open(s) \/ apply_close(s) \/ apply_write(s) \/ apply_read(s)
  PROVE  /\ IInv /\ TypeOK /\ OthersStay(s) /\ applyComands(s) /\ dir' = dir
         /\ ~Served(s) /\ ~Served(s)'
         /\ \A m \in Name : Leaving(m)' <=> Leaving(m)
         /\ namesBar' = namesBar
         /\ inode_table' = inode_table => inodesBar' = inodesBar
  <1>1. IInv /\ TypeOK /\ OthersStay(s) /\ applyComands(s) /\ dir' = dir
    <2>1. OthersStay(s) /\ applyComands(s)
      BY StepMoves, ThreadMoves DEF RInv, IInv, applyComands
    <2> QED
      BY <2>1 DEF RInv, IInv, apply_open, apply_close, apply_write, apply_read, CheckDescriptor
  <1>2. req[s].kind \in {"open", "close", "read", "write"}
    BY DEF apply_open, apply_close, apply_write, apply_read, At
  <1>3. req'[s] = req[s] \/ req'[s] = NoRequest
    BY <1>1, ThreadMoves DEF Goto, Reply, TypeOK
  <1>4. ~Served(s) /\ ~Served(s)'
    BY <1>2, <1>3 DEF Served, At, NoRequest
  <1>5. \A m \in Name : Leaving(m)' <=> Leaving(m)
    BY <1>1, <1>2, <1>3, LeavingStays DEF At, NoRequest
  <1>6. namesBar' = namesBar
    BY <1>1, <1>5 DEF namesBar
  <1> QED
    BY <1>1, <1>4, <1>5, <1>6, BarsStay

LEMMA OpenRefines ==
  ASSUME RInv, NEW s \in Session, apply_open(s)
  PROVE  Abs!Open(s)
  <1> DEFINE i == dir[req[s].name]
             unused == {fd \in fds : files[s][fd].iNumber = -1}
             first == CHOOSE fd \in unused : \A other \in unused : fd <= other
  <1>1. TypeOK /\ ~Served(s) /\ namesBar' = namesBar
    BY OtherRequestsStay
  <1>2. inodesBar' = inodesBar /\ At(s, "open", "lookup")
    BY OtherRequestsStay DEF apply_open
  <1>3. namesBar[req[s].name] = i
    BY <1>2, OpensNamed, NamesBar
  <1>4. \A j : Abs!IsOpen(s, j) <=> IsOpen(s, j)
    BY SameApi DEF Abs!IsOpen, IsOpen
  <1>5. IsOpen(s, -1) <=> unused # {}
    BY DEF IsOpen
  <1>6. ASSUME unused # {} PROVE first \in fds /\ files[s][first].iNumber = -1
    <2>1. unused \subseteq Nat
      BY TableAssumption DEF fds
    <2>2. \E fd \in unused : \A other \in unused : fd <= other
      <3> HIDE DEF unused
      <3> QED
        BY <1>6, <2>1, SmallestExists
    <2>3. first \in unused
      <3> HIDE DEF unused
      <3> QED
        BY <2>2
    <2> QED
      BY <2>3
  <1>7. /\ FILE_NOT_FOUND \in Answer /\ FILE_IS_OPEN \in Answer /\ MAXED_OPEN_FILES \in Answer
        /\ fds \subseteq Answer
    BY TableAssumption DEF Answer, FILE_NOT_FOUND, FILE_IS_OPEN, MAXED_OPEN_FILES, fds
  <1>8. \A reply \in Answer : Reply(s, reply) => Abs!Effect(s, reply)
    BY <1>1, ReplyIsEffect
  <1>9. req[s].kind = "open"
    BY <1>2 DEF At
  <1>10. CASE i = -1
    <2>1. Abs!Effect(s, FILE_NOT_FOUND) /\ files' = files
      BY <1>7, <1>8, <1>10 DEF apply_open
    <2> QED
      BY <1>1, <1>2, <1>3, <1>9, <1>10, <2>1, SameApi DEF Abs!Open
  <1>11. CASE i # -1 /\ IsOpen(s, i)
    <2>1. Abs!Effect(s, FILE_IS_OPEN) /\ files' = files
      BY <1>7, <1>8, <1>11 DEF apply_open
    <2> QED
      BY <1>1, <1>2, <1>3, <1>4, <1>9, <1>11, <2>1, SameApi DEF Abs!Open
  <1>12. CASE i # -1 /\ ~IsOpen(s, i) /\ unused = {}
    <2>1. Abs!Effect(s, MAXED_OPEN_FILES) /\ files' = files
      BY <1>7, <1>8, <1>12 DEF apply_open
    <2> QED
      BY <1>1, <1>2, <1>3, <1>4, <1>5, <1>9, <1>12, <2>1, SameApi DEF Abs!Open
  <1>13. CASE i # -1 /\ ~IsOpen(s, i) /\ unused # {}
    <2>1. /\ Reply(s, first)
          /\ files' = [files EXCEPT ![s][first] = [iNumber |-> i, mode |-> req[s].mode]]
      BY <1>13 DEF apply_open
    <2>2. first \in fds /\ files[s][first].iNumber = -1
      BY <1>6, <1>13
    <2> HIDE DEF first
    <2>3. Abs!Effect(s, first)
      BY <1>7, <1>8, <2>1, <2>2
    <2> QED
      BY <1>1, <1>2, <1>3, <1>4, <1>9, <1>13, <2>1, <2>2, <2>3, SameApi DEF Abs!Open
  <1> QED
    BY <1>10, <1>11, <1>12, <1>13

LEMMA CloseRefines ==
  ASSUME RInv, NEW s \in Session, apply_close(s)
  PROVE  Abs!Close(s)
  <1>1. TypeOK /\ ~Served(s) /\ namesBar' = namesBar
    BY OtherRequestsStay
  <1>2. inodesBar' = inodesBar /\ req[s].kind = "close"
    BY OtherRequestsStay DEF apply_close, At
  <1>3. ERROR_OTHER \in Answer /\ 0 \in Answer
    BY TableAssumption DEF Answer, ERROR_OTHER
  <1>4. \A reply \in Answer : Reply(s, reply) => Abs!Effect(s, reply)
    BY <1>1, ReplyIsEffect
  <1>5. CASE req[s].fd = -1
    BY <1>1, <1>2, <1>3, <1>4, <1>5, SameApi DEF apply_close, Abs!Close
  <1>6. CASE req[s].fd # -1
    <2>1. Reply(s, 0) /\ files' = [files EXCEPT ![s][req[s].fd] = Closed]
      BY <1>6 DEF apply_close
    <2> QED
      BY <1>1, <1>2, <1>3, <1>4, <1>6, <2>1, SameApi DEF Abs!Close
  <1> QED
    BY <1>5, <1>6

\* The verdict of CheckDescriptor is that of FileService.
LEMMA VerdictRefines ==
  ASSUME RInv, NEW s \in Session, NEW perm, NEW label, CheckDescriptor(s, perm, label),
         req[s].kind \in {"read", "write"}
  PROVE  \/ /\ Abs!Verdict(s, perm) = 0
            /\ \E i : Goto(s, label, i)
         \/ /\ Abs!Verdict(s, perm) # 0
            /\ Abs!Verdict(s, perm) \in Answer
            /\ Reply(s, Abs!Verdict(s, perm))
  <1> DEFINE fd == req[s].fd
             i == files[s][fd].iNumber
             verdict == user_allowed(userOf[s], files[s][fd].mode, perm, inode_table[i])
  <1>1. IInv /\ TypeOK
    BY DEF RInv, IInv
  <1>2. FILE_ALREADY_EXISTS \in Answer /\ FILE_NOT_OPEN \in Answer /\ verdict \in Answer
    BY TableAssumption
       DEF Answer, FILE_ALREADY_EXISTS, FILE_NOT_OPEN, user_allowed, INVALID_MODE,
           PERMISSION_DENIED
  <1>3. CASE fd = -1
    <2>1. Abs!Verdict(s, perm) = FILE_ALREADY_EXISTS /\ FILE_ALREADY_EXISTS # 0
      BY <1>3, SameApi DEF Abs!Verdict, FILE_ALREADY_EXISTS
    <2> QED
      BY <1>2, <1>3, <2>1 DEF CheckDescriptor
  <1>4. CASE fd # -1 /\ i = -1
    <2>1. Abs!Verdict(s, perm) = FILE_NOT_OPEN /\ FILE_NOT_OPEN # 0
      BY <1>4, SameApi DEF Abs!Verdict, FILE_NOT_OPEN
    <2> QED
      BY <1>2, <1>4, <2>1 DEF CheckDescriptor
  <1>5. CASE fd # -1 /\ i # -1
    <2>1. fd \in fds
      BY <1>1, <1>5, RequestFields DEF TypeOK
    <2>2. Named(i) /\ i \in Inumber /\ inode_table[i] # FREE_INODE
      BY <1>1, <1>5, <2>1, NamedInUse DEF RInv, OpenAreNamed
    <2>3. inode_get(i) = {inode_table[i]} /\ inodesBar[i] = inode_table[i]
      <3> HIDE DEF i
      <3>1. ~Invalid(i)
        BY <2>2, SizeAssumption DEF Invalid, Inumber
      <3>2. inode_get(i) = {inode_table[i]}
        BY <3>1 DEF inode_get
      <3> QED
        BY <2>2, <3>2, InodesBar
    <2>4. Abs!Verdict(s, perm) = verdict
      BY <1>5, <2>3, SameApi DEF Abs!Verdict
    <2>5. IF verdict = 0 THEN Goto(s, label, i) ELSE Reply(s, verdict)
      BY <1>5, <2>3 DEF CheckDescriptor
    <2> HIDE DEF verdict
    <2> QED
      BY <1>2, <2>4, <2>5
  <1> QED
    BY <1>3, <1>4, <1>5

\* What has been permitted is permitted still when the session acts on it.
LEMMA PermittedVerdict ==
  ASSUME RInv, NEW s \in Session, NEW perm, Permits(s, perm, iNumber[s])
  PROVE  /\ Abs!Verdict(s, perm) = 0
         /\ files[s][req[s].fd].iNumber = iNumber[s] /\ req[s].fd \in fds
         /\ iNumber[s] \in Inumber /\ Named(iNumber[s])
         /\ ~Invalid(iNumber[s])
         /\ inodesBar[iNumber[s]] = inode_table[iNumber[s]]
  <1> DEFINE i == iNumber[s]
             fd == req[s].fd
  <1>1. /\ fd \in fds /\ files[s][fd].iNumber = i /\ i # -1
        /\ user_allowed(userOf[s], files[s][fd].mode, perm, inode_table[i]) = 0
    BY DEF Permits
  <1>2. Named(i) /\ i \in Inumber /\ inode_table[i] # FREE_INODE
    BY <1>1, NamedInUse DEF RInv, OpenAreNamed
  <1>3. ~Invalid(i) /\ inodesBar[i] = inode_table[i]
    BY <1>2, InodesBar, SizeAssumption DEF Invalid, Inumber
  <1>4. fd # -1
    BY <1>1, TableAssumption DEF fds
  <1> QED
    BY <1>1, <1>2, <1>3, <1>4, SameApi DEF Abs!Verdict

LEMMA WriteRefines ==
  ASSUME RInv, NEW s \in Session, apply_write(s)
  PROVE  Abs!Write(s) \/ UNCHANGED Abs!vars
  <1> DEFINE i == iNumber[s]
  <1>1. /\ TypeOK /\ ~Served(s) /\ ~Served(s)' /\ namesBar' = namesBar /\ dir' = dir
        /\ \A m \in Name : Leaving(m)' <=> Leaving(m)
        /\ inode_table' = inode_table => inodesBar' = inodesBar
    BY OtherRequestsStay
  <1>2. req[s].kind = "write" /\ files' = files
    BY DEF apply_write, CheckDescriptor, At
  <1>3. CASE CheckDescriptor(s, WRITE, "inode_set")
    <2>1. inodesBar' = inodesBar
      BY <1>1, <1>3 DEF CheckDescriptor
    <2>2. CASE \E j : Goto(s, "inode_set", j)
      BY <1>1, <1>2, <2>1, <2>2, GotoIsStutter
    <2>3. CASE /\ Abs!Verdict(s, WRITE) # 0
               /\ Abs!Verdict(s, WRITE) \in Answer
               /\ Reply(s, Abs!Verdict(s, WRITE))
      <3>1. Abs!Effect(s, Abs!Verdict(s, WRITE))
        BY <1>1, <2>3, ReplyIsEffect
      <3> QED
        BY <1>1, <1>2, <2>1, <2>3, <3>1, SameApi DEF Abs!Write
    <2> QED
      BY <1>2, <1>3, <2>2, <2>3, VerdictRefines
  <1>4. CASE At(s, "write", "inode_set")
    <2>1. /\ Abs!Verdict(s, WRITE) = 0 /\ files[s][req[s].fd].iNumber = i
          /\ i \in Inumber /\ Named(i) /\ ~Invalid(i)
          /\ inodesBar[i] = inode_table[i]
      BY <1>4, PermittedVerdict DEF RInv, Sound, Permitted
    <2>2. /\ inode_table' = [inode_table EXCEPT ![i].fileContent = req[s].content]
          /\ Reply(s, 0)
      BY <1>4, <2>1 DEF apply_write, CheckDescriptor, At, inode_set, inode_set_result
    <2>3. Abs!Effect(s, 0)
      <3>1. 0 \in Answer
        BY TableAssumption DEF Answer
      <3> QED
        BY <1>1, <2>2, <3>1, ReplyIsEffect
    <2>4. inodesBar' = [inodesBar EXCEPT ![i].fileContent = req[s].content]
      <3>1. \A j \in Inumber : Named(j)' <=> Named(j)
        BY <1>1 DEF Named
      <3> QED
        BY <1>1, <2>1, <2>2, <3>1 DEF inodesBar, Named, TypeOK
    <2> QED
      BY <1>1, <1>2, <2>1, <2>3, <2>4, SameApi DEF Abs!Write
  <1> QED
    BY <1>3, <1>4 DEF apply_write

LEMMA ReadRefines ==
  ASSUME RInv, NEW s \in Session, apply_read(s)
  PROVE  Abs!Read(s) \/ UNCHANGED Abs!vars
  <1> DEFINE i == iNumber[s]
  <1>1. req[s].kind = "read" /\ files' = files /\ inode_table' = inode_table
    BY DEF apply_read, CheckDescriptor, At
  <1>2. /\ TypeOK /\ ~Served(s) /\ ~Served(s)' /\ namesBar' = namesBar
        /\ inodesBar' = inodesBar
    BY <1>1, OtherRequestsStay
  <1>3. CASE CheckDescriptor(s, READ, "inode_get_content")
    <2>1. CASE \E j : Goto(s, "inode_get_content", j)
      BY <1>1, <1>2, <2>1, GotoIsStutter
    <2>2. CASE /\ Abs!Verdict(s, READ) # 0
               /\ Abs!Verdict(s, READ) \in Answer
               /\ Reply(s, Abs!Verdict(s, READ))
      <3>1. Abs!Effect(s, Abs!Verdict(s, READ))
        BY <1>2, <2>2, ReplyIsEffect
      <3> QED
        BY <1>1, <1>2, <2>2, <3>1, SameApi DEF Abs!Read
    <2> QED
      BY <1>1, <1>3, <2>1, <2>2, VerdictRefines
  <1>4. CASE At(s, "read", "inode_get_content")
    <2>1. /\ Abs!Verdict(s, READ) = 0 /\ files[s][req[s].fd].iNumber = i
          /\ i \in Inumber /\ Named(i) /\ ~Invalid(i)
          /\ inodesBar[i] = inode_table[i]
      BY <1>4, PermittedVerdict DEF RInv, Sound, Permitted
    <2>2. Reply(s, inode_table[i].fileContent)
      BY <1>4, <2>1 DEF apply_read, CheckDescriptor, At
    <2>3. inode_table[i].fileContent \in Answer
      <3>1. inode_table[i] \in Inode
        BY <1>2, <2>1 DEF TypeOK, Invalid
      <3> QED
        BY <3>1 DEF Inode, Answer
    <2>4. Abs!Effect(s, inode_table[i].fileContent)
      BY <1>2, <2>2, <2>3, ReplyIsEffect
    <2> QED
      BY <1>1, <1>2, <2>1, <2>4, SameApi DEF Abs!Read
  <1> QED
    BY <1>3, <1>4 DEF apply_read

LEMMA CallRefines ==
  ASSUME RInv, NEW s \in Session, NEW r \in Requests, Call(s, r)
  PROVE  Abs!Call(s, r)
  <1>1. TypeOK /\ OthersStay(s) /\ req[s] = NoRequest /\ pc[s] = "idle"
    BY StepMoves DEF RInv, IInv, Idle, Call
  <1>2. req' = [req EXCEPT ![s] = r] /\ pc'[s] \in {"lookup", "close", "user_allowed"}
    BY <1>1 DEF Call, TypeOK
  <1>3. \A t \in Session : ~Served(s) /\ ~Served(s)' /\ (Served(t)' <=> Served(t))
    BY <1>1, <1>2 DEF OthersStay, Served, At
  <1>4. namesBar' = namesBar /\ inodesBar' = inodesBar
    <2>1. \A m \in Name : Leaving(m)' <=> Leaving(m)
      BY <1>1, <1>2, LeavingStays DEF At
    <2> QED
      BY <2>1, BarsStay DEF Call
  <1>5. doneBar' = doneBar
    <2>1. \A t \in Session : Served(t)' = Served(t)
      <3>1. \A t \in Session : Served(t) \in BOOLEAN /\ Served(t)' \in BOOLEAN
        BY DEF Served
      <3> QED
        BY <1>3, <3>1, Zenon
    <2> QED
      BY <2>1, Zenon DEF doneBar
  <1>6. answerBar' = [answerBar EXCEPT ![s] = NULL]
    BY <1>1, <1>3 DEF answerBar, Call, TypeOK
  <1> QED
    BY <1>1, <1>2, <1>4, <1>5, <1>6, SameApi DEF Abs!Call, Call

LEMMA MountRefines ==
  ASSUME RInv, NEW s \in Session, Mount(s)
  PROVE  Abs!Mount(s)
  <1>1. TypeOK /\ req[s] = NoRequest
    BY DEF RInv, IInv, Idle, Mount
  <1>2. UNCHANGED <<namesBar, inodesBar, doneBar, answerBar>>
    BY DEF Mount, namesBar, inodesBar, doneBar, answerBar, Served, Leaving, At
  <1> QED
    BY <1>1, <1>2, SameApi DEF Abs!Mount, Mount

\* To clients that keep to Conduct and close a file before they have it
\* deleted, the server is FileService: each request takes effect at one
\* instant, however many sessions there are and however their threads take
\* turns at the locks (main.c:107-240).
THEOREM Refinement == CloseFirst /\ Spec => ImplementsFileService
  <1>1. Init => Abs!Init
    <2> SUFFICES ASSUME Init PROVE Abs!Init
      OBVIOUS
    <2>1. \A s \in Session : ~Served(s)
      BY DEF Init, Served, At
    <2>2. \A n \in Name : ~Leaving(n)
      BY DEF Init, Leaving, At
    <2>3. namesBar = [n \in Name |-> -1]
      BY <2>2 DEF namesBar, Init
    <2>4. inodesBar = [i \in Inumber |-> FREE_INODE]
      BY DEF inodesBar, Init, inode_table_init
    <2>5. doneBar = [s \in Session |-> FALSE]
      <3>1. \A s \in Session : Served(s) = FALSE
        <4>1. \A s \in Session : Served(s) \in BOOLEAN
          BY DEF Served
        <4> QED
          BY <2>1, <4>1, Zenon
      <3> QED
        BY <3>1, Zenon DEF doneBar
    <2>6. answerBar = [s \in Session |-> NULL]
      BY <2>1 DEF answerBar, Init
    <2> QED
      BY <2>3, <2>4, <2>5, <2>6, SameApi DEF Init, Abs!Init
  <1>2. RInv /\ RInv' /\ [Next]_vars => [Abs!Next]_Abs!vars
    <2> SUFFICES ASSUME RInv, RInv', [Next]_vars
                 PROVE  [Abs!Next]_Abs!vars
      OBVIOUS
    <2>1. ASSUME NEW s \in Session, applyComands(s)
          PROVE  [Abs!Next]_Abs!vars
      <3>1. Abs!Serve(s) \/ UNCHANGED Abs!vars
        BY <2>1, CreateRefines, DeleteRefines, RenameRefines, OpenRefines, CloseRefines,
           WriteRefines, ReadRefines
           DEF applyComands, Abs!Serve
      <3> QED
        BY <3>1 DEF Abs!Next
    <2>2. ASSUME NEW s \in Session, Mount(s) \/ \E r \in Requests : Call(s, r)
          PROVE  [Abs!Next]_Abs!vars
      BY <2>2, MountRefines, CallRefines DEF Abs!Next
    <2>3. CASE UNCHANGED vars
      BY <2>3 DEF vars, Abs!vars, namesBar, inodesBar, doneBar, answerBar, Served, Leaving, At
    <2> QED
      BY <2>1, <2>2, <2>3 DEF Next
  <1> QED
    BY <1>1, <1>2, InitRInv, StepRInv, PTL DEF Spec, Abs!Spec, ImplementsFileService
=============================================================================
