--------------------------------- MODULE Bst ---------------------------------
(***************************************************************************)
(* The binary search trees of the directory (lib/bst.c), down to the nodes *)
(* in memory: heap maps the address of each node that is allocated to its  *)
(* fields, so that a node that is freed, forgotten or shared shows.  The   *)
(* caller's root pointer is assigned what insert and remove_item return    *)
(* (create and delete of fs.c).                                            *)
(*                                                                         *)
(* Each operator takes the heap it starts from and yields the heap it      *)
(* leaves, in h, with the pointer it returns, in p.                        *)
(***************************************************************************)
EXTENDS Integers, Sequences, FiniteSets

CONSTANTS
  Key,      \* the names, compared with strcmp: integers stand for them
  INumber,  \* the i-numbers stored
  Address   \* where malloc can put a node

NULL == 0
NotFound == 0

ASSUME BstAssumption ==
  /\ Key \subseteq Int
  /\ NotFound \notin INumber
  /\ NULL \notin Address
  /\ IsFiniteSet(Key)
  /\ IsFiniteSet(Address)
  /\ Cardinality(Address) > Cardinality(Key)  \* malloc always finds room

VARIABLES
  heap,   \* the nodes allocated
  root,   \* the caller's pointer to the tree
  map     \* history: what the calls so far have stored under each key

vars == <<heap, root, map>>

Pointer == Address \cup {NULL}
Node == [key : Key, inumber : INumber, left : Pointer, right : Pointer]

TypeOK ==
  /\ DOMAIN heap \subseteq Address
  /\ heap \in [DOMAIN heap -> Node]
  /\ root \in Pointer
  /\ map \in [Key -> INumber \cup {NotFound}]

Init ==
  /\ heap = [a \in {} |-> NULL]
  /\ root = NULL
  /\ map = [k \in Key |-> NotFound]
-----------------------------------------------------------------------------
free(h, p) == [a \in DOMAIN h \ {p} |-> h[a]]

\* malloc gives any address that is not in use; one of them stands for all.
\* (a fault: the i-number is not set)
new_node_unset(h, key, inumber) ==
  LET p == CHOOSE a \in Address \ DOMAIN h : TRUE
      n == [key |-> key, inumber |-> NotFound, left |-> NULL, right |-> NULL]
  IN [h |-> [a \in DOMAIN h \cup {p} |-> IF a = p THEN n ELSE h[a]], p |-> p]

new_node(h, key, inumber) ==
  LET p == CHOOSE a \in Address \ DOMAIN h : TRUE
      n == [key |-> key, inumber |-> inumber, left |-> NULL, right |-> NULL]
  IN [h |-> [a \in DOMAIN h \cup {p} |-> IF a = p THEN n ELSE h[a]], p |-> p]

Children(h, a) == {h[a].left, h[a].right}

\* A node is given the subtree that a call has yielded: p->left = r; return p.
set_left(p, r) == [h |-> [r.h EXCEPT ![p].left = r.p], p |-> p]
set_right(p, r) == [h |-> [r.h EXCEPT ![p].right = r.p], p |-> p]

\* Each function is a recursion over the nodes of the heap it starts from: f[q]
\* is what its call at q yields.
search(h, p, key) ==
  LET f[q \in DOMAIN h \cup {NULL}] ==
        IF q = NULL THEN NULL
        ELSE IF key < h[q].key THEN f[h[q].left]
        ELSE IF key > h[q].key THEN f[h[q].right]
        ELSE q
  IN f[p]

insert(h, p, key, inumber) ==
  LET f[q \in DOMAIN h \cup {NULL}] ==
        IF q = NULL THEN new_node(h, key, inumber)
        ELSE IF key < h[q].key THEN set_left(q, f[h[q].left])
        ELSE IF key > h[q].key THEN set_right(q, f[h[q].right])
        ELSE [h |-> [h EXCEPT ![q].inumber = inumber], p |-> q]
  IN f[p]

\* The nodes one can come to from p: while remove_item puts the subtrees together
\* there is still a pointer to the node it has freed, elsewhere in the heap.
Below(h, p) ==
  LET closed == {S \in SUBSET DOMAIN h :
                   ({p} \cup UNION {Children(h, b) : b \in S}) \cap DOMAIN h \subseteq S}
  IN {a \in DOMAIN h : \A S \in closed : a \in S}

find_min(h, p) ==
  LET f[q \in Below(h, p)] == IF h[q].left # NULL THEN f[h[q].left] ELSE q
  IN f[p]

remove_min(h, p) ==
  LET f[q \in Below(h, p)] ==
        IF h[q].left = NULL THEN [h |-> h, p |-> h[q].right]
        ELSE set_left(q, f[h[q].left])
  IN f[p]

\* The node found is freed, and the least node of its right subtree, if it has
\* one, takes its place.
\* (faults: the node is not freed, the rest of the right subtree is dropped, or
\* it is put on the left)
unlink_leaks(h, p) ==
  LET l == h[p].left
      r == h[p].right
      m == find_min(h, r)
      s == remove_min(h, r)
  IN
  IF r = NULL THEN [h |-> h, p |-> l]
  ELSE [h |-> [s.h EXCEPT ![m].right = s.p, ![m].left = l], p |-> m]
unlink_drops_right(h, p) ==
  LET l == h[p].left
      r == h[p].right
      g == free(h, p)
      m == find_min(g, r)
  IN
  IF r = NULL THEN [h |-> g, p |-> l] ELSE [h |-> [g EXCEPT ![m].left = l], p |-> m]
unlink_swaps(h, p) ==
  LET l == h[p].left
      r == h[p].right
      g == free(h, p)
      m == find_min(g, r)
      s == remove_min(g, r)
  IN
  IF r = NULL THEN [h |-> g, p |-> l]
  ELSE [h |-> [s.h EXCEPT ![m].right = l, ![m].left = s.p], p |-> m]

unlink(h, p) ==
  LET l == h[p].left
      r == h[p].right
      g == free(h, p)
      m == find_min(g, r)
      s == remove_min(g, r)
  IN
  IF r = NULL THEN [h |-> g, p |-> l]
  ELSE [h |-> [s.h EXCEPT ![m].right = s.p, ![m].left = l], p |-> m]

remove_item(h, p, key) ==
  LET f[q \in DOMAIN h \cup {NULL}] ==
        IF q = NULL THEN [h |-> h, p |-> NULL]
        ELSE IF key < h[q].key THEN set_left(q, f[h[q].left])
        ELSE IF key > h[q].key THEN set_right(q, f[h[q].right])
        ELSE unlink(h, q)
  IN f[p]

\* The nodes in the order free_tree frees them.
\* (a fault: the right subtree is forgotten)
free_tree_left(h, p) ==
  LET f[q \in DOMAIN h \cup {NULL}] ==
        IF q = NULL THEN <<>> ELSE f[h[q].left] \o <<q>>
  IN f[p]

free_tree(h, p) ==
  LET f[q \in DOMAIN h \cup {NULL}] ==
        IF q = NULL THEN <<>> ELSE f[h[q].left] \o f[h[q].right] \o <<q>>
  IN f[p]

\* The keys in the order print_tree writes them.
print_tree(h, p) ==
  LET f[q \in DOMAIN h \cup {NULL}] ==
        IF q = NULL THEN <<>> ELSE f[h[q].left] \o <<h[q].key>> \o f[h[q].right]
  IN f[p]
-----------------------------------------------------------------------------
Insert(key, inumber) ==
  LET r == insert(heap, root, key, inumber) IN
  /\ heap' = r.h
  /\ root' = r.p
  /\ map' = [map EXCEPT ![key] = inumber]

Remove(key) ==
  LET r == remove_item(heap, root, key) IN
  /\ heap' = r.h
  /\ root' = r.p
  /\ map' = [map EXCEPT ![key] = NotFound]

Next ==
  \E key \in Key :
    \/ \E inumber \in INumber : Insert(key, inumber)
    \/ Remove(key)

Spec == Init /\ [][Next]_vars
-----------------------------------------------------------------------------
(* Properties. *)

\* search finds under every key what was stored there last, and nothing under a
\* key that was removed: the trees are the maps that Directory takes them for.
SearchFindsMap ==
  \A k \in Key :
    LET p == search(heap, root, k)
    IN map[k] = IF p = NULL THEN NotFound ELSE heap[p].inumber

PointersTo(b) ==
  {f \in {"left", "right"} \X DOMAIN heap :
     (IF f[1] = "left" THEN heap[f[2]].left ELSE heap[f[2]].right) = b}

\* No pointer is left to a node that was freed, no node is lost without being
\* freed, and none hangs from two places: remove_item frees a node before it
\* puts its subtrees together again (lib/bst.c:103-113).
NodesAreOwned ==
  /\ root # NULL => root \in DOMAIN heap
  /\ \A a \in DOMAIN heap :
       /\ Children(heap, a) \subseteq DOMAIN heap \cup {NULL}
       /\ Cardinality(PointersTo(a)) = IF a = root THEN 0 ELSE 1

\* print_tree lists exactly the keys stored, in order.
PrintsInOrder ==
  LET keys == print_tree(heap, root) IN
  /\ {keys[i] : i \in DOMAIN keys} = {k \in Key : map[k] # NotFound}
  /\ \A i, j \in DOMAIN keys : i < j => keys[i] < keys[j]

\* free_tree frees every node there is, and none twice.
FreesEverything ==
  LET freed == free_tree(heap, root) IN
  /\ {freed[i] : i \in DOMAIN freed} = DOMAIN heap
  /\ \A i, j \in DOMAIN freed : freed[i] = freed[j] => i = j
=============================================================================
