------------------------------ MODULE MCServer ------------------------------
(* Two users with a session each, and three files in two buckets, one more     *)
(* than there is room for in the i-node table.                                 *)
EXTENDS Server, TLC

CONSTANTS f1, f2, f3, s1, s2, u1, u2

MCHash == (f1 :> 0) @@ (f2 :> 1) @@ (f3 :> 0)
MCUserOf == (s1 :> u1) @@ (s2 :> u2)

\* f1 is created, opened and deleted, f2 is what it is renamed to and from,
\* and f3 takes the room that is left.
MCRequests ==
  {r \in Request :
     /\ r.kind = "create" => r.name # f2
     /\ r.kind = "open" => r.name = f1
     /\ r.kind = "delete" => r.name # f3
     /\ r.kind = "rename" => {r.name, r.name2} = {f1, f2}
     /\ r.kind \in {"read", "write"} => r.fd # -1}

\* Either session may be called the first, each with its user.
Swap == {(s1 :> s1) @@ (s2 :> s2) @@ (u1 :> u1) @@ (u2 :> u2),
         (s1 :> s2) @@ (s2 :> s1) @@ (u1 :> u2) @@ (u2 :> u1)}

\* Keeps to executions in which user_allowed reads only i-nodes in use: what its
\* variables hold otherwise is up to the compiler, and makes a refusal or a
\* permission of its own.
ReadsAreDefined ==
  \A s \in Session :
    pc[s] = "user_allowed" =>
      LET i == files[s][req[s].fd].iNumber IN i = -1 \/ inode_table[i] # FREE_INODE
=============================================================================
