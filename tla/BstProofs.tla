------------------------------ MODULE BstProofs ------------------------------
(***************************************************************************)
(* Proofs about the search trees, for any keys, i-numbers and addresses.   *)
(* What a tree is, is defined as the least set of pairs of a pointer and   *)
(* the nodes below it, so that the recursion of bst.c is proved about by   *)
(* induction over trees.                                                   *)
(***************************************************************************)
EXTENDS Bst, FiniteSetTheorems, SequenceTheorems, TLAPS

IsHeap(h) == DOMAIN h \subseteq Address /\ h \in [DOMAIN h -> Node]

Pairs(h) == (DOMAIN h \cup {NULL}) \X SUBSET DOMAIN h

\* p is a node above the two sets of nodes, in the order of the keys.
Joins(h, p, L, R) ==
  /\ p \in DOMAIN h /\ L \in SUBSET DOMAIN h /\ R \in SUBSET DOMAIN h
  /\ p \notin L /\ p \notin R /\ L \cap R = {}
  /\ \A a \in L : h[a].key < h[p].key
  /\ \A a \in R : h[p].key < h[a].key

ClosedUnderJoin(h, T) ==
  /\ <<NULL, {}>> \in T
  /\ \A p, L, R :
       Joins(h, p, L, R) /\ <<h[p].left, L>> \in T /\ <<h[p].right, R>> \in T
         => <<p, {p} \cup L \cup R>> \in T

\* p points to a search tree whose nodes are those of S.
Tree(h, p, S) ==
  /\ <<p, S>> \in Pairs(h)
  /\ \A T \in SUBSET Pairs(h) : ClosedUnderJoin(h, T) => <<p, S>> \in T

LEMMA TreeEmpty == ASSUME NEW h PROVE Tree(h, NULL, {})
  BY DEF Tree, Pairs, ClosedUnderJoin

LEMMA TreeJoin ==
  ASSUME NEW h, NEW p, NEW L, NEW R, Joins(h, p, L, R),
         Tree(h, h[p].left, L), Tree(h, h[p].right, R)
  PROVE  Tree(h, p, {p} \cup L \cup R)
  <1>1. <<p, {p} \cup L \cup R>> \in Pairs(h)
    BY DEF Joins, Pairs
  <1>2. ASSUME NEW T \in SUBSET Pairs(h), ClosedUnderJoin(h, T)
        PROVE  <<p, {p} \cup L \cup R>> \in T
    <2>1. <<h[p].left, L>> \in T /\ <<h[p].right, R>> \in T
      BY <1>2 DEF Tree
    <2> QED
      BY <1>2, <2>1 DEF ClosedUnderJoin
  <1> QED
    BY <1>1, <1>2 DEF Tree

LEMMA TreeInduction ==
  ASSUME NEW h, NEW T,
         <<NULL, {}>> \in T,
         ASSUME NEW p, NEW L, NEW R, Joins(h, p, L, R),
                Tree(h, h[p].left, L), Tree(h, h[p].right, R),
                <<h[p].left, L>> \in T, <<h[p].right, R>> \in T
         PROVE  <<p, {p} \cup L \cup R>> \in T,
         NEW q, NEW S, Tree(h, q, S)
  PROVE  <<q, S>> \in T
  <1> DEFINE U == {t \in Pairs(h) : t \in T /\ Tree(h, t[1], t[2])}
  <1>1. <<NULL, {}>> \in U
    BY TreeEmpty DEF Pairs
  <1>2. ASSUME NEW p, NEW L, NEW R, Joins(h, p, L, R),
               <<h[p].left, L>> \in U, <<h[p].right, R>> \in U
        PROVE  <<p, {p} \cup L \cup R>> \in U
    <2>1. /\ Tree(h, h[p].left, L) /\ Tree(h, h[p].right, R)
          /\ <<h[p].left, L>> \in T /\ <<h[p].right, R>> \in T
      BY <1>2
    <2>2. <<p, {p} \cup L \cup R>> \in T
      BY <1>2, <2>1
    <2>3. Tree(h, p, {p} \cup L \cup R)
      BY <1>2, <2>1, TreeJoin
    <2>4. <<p, {p} \cup L \cup R>> \in Pairs(h)
      BY <2>3 DEF Tree
    <2> QED
      BY <2>2, <2>3, <2>4
  <1>3. U \in SUBSET Pairs(h) /\ ClosedUnderJoin(h, U)
    <2> HIDE DEF U
    <2>1. U \in SUBSET Pairs(h)
      BY DEF U
    <2> QED
      BY <1>1, <1>2, <2>1 DEF ClosedUnderJoin
  <1>4. <<q, S>> \in U
    BY <1>3 DEF Tree
  <1> QED
    BY <1>4

\* A tree is empty or a node above two trees.
LEMMA TreeSplit ==
  ASSUME NEW h, NEW p, NEW S, Tree(h, p, S)
  PROVE  \/ p = NULL /\ S = {}
         \/ \E L, R : /\ Joins(h, p, L, R)
                      /\ Tree(h, h[p].left, L) /\ Tree(h, h[p].right, R)
                      /\ S = {p} \cup L \cup R
  <1> DEFINE Q(q, U) == \/ q = NULL /\ U = {}
                        \/ \E L, R : /\ Joins(h, q, L, R)
                                     /\ Tree(h, h[q].left, L) /\ Tree(h, h[q].right, R)
                                     /\ U = {q} \cup L \cup R
  <1> DEFINE T == {t \in Pairs(h) : Q(t[1], t[2])}
  <1>1. <<NULL, {}>> \in T
    BY DEF Pairs
  <1>2. ASSUME NEW q, NEW L, NEW R, Joins(h, q, L, R),
               Tree(h, h[q].left, L), Tree(h, h[q].right, R)
        PROVE  <<q, {q} \cup L \cup R>> \in T
    <2>1. Q(q, {q} \cup L \cup R)
      BY <1>2
    <2>2. <<q, {q} \cup L \cup R>> \in Pairs(h)
      BY <1>2, TreeJoin DEF Tree
    <2> QED
      BY <2>1, <2>2
  <1>3. <<p, S>> \in T
    <2> HIDE DEF T
    <2> QED
      BY <1>1, <1>2, TreeInduction
  <1> QED
    BY <1>3

LEMMA TreeShape ==
  ASSUME NEW h, IsHeap(h), NEW p, NEW S, Tree(h, p, S)
  PROVE  /\ S \subseteq DOMAIN h
         /\ p = NULL => S = {}
         /\ p # NULL => p \in S
         /\ \A a \in S : h[a].left \in S \cup {NULL} /\ h[a].right \in S \cup {NULL}
  <1> DEFINE Q(q, U) == /\ q = NULL => U = {}
                        /\ q # NULL => q \in U
                        /\ \A a \in U : h[a].left \in U \cup {NULL} /\ h[a].right \in U \cup {NULL}
  <1> DEFINE T == {t \in Pairs(h) : Q(t[1], t[2])}
  <1>1. <<NULL, {}>> \in T
    BY DEF Pairs
  <1>2. ASSUME NEW q, NEW L, NEW R, Joins(h, q, L, R),
               Tree(h, h[q].left, L), Tree(h, h[q].right, R),
               <<h[q].left, L>> \in T, <<h[q].right, R>> \in T
        PROVE  <<q, {q} \cup L \cup R>> \in T
    <2>1. Q(h[q].left, L) /\ Q(h[q].right, R)
      BY <1>2
    <2>2. q # NULL
      BY <1>2, BstAssumption DEF Joins, IsHeap
    <2>3. Q(q, {q} \cup L \cup R)
      BY <2>1, <2>2
    <2>4. <<q, {q} \cup L \cup R>> \in Pairs(h)
      BY <1>2, TreeJoin DEF Tree
    <2> QED
      BY <2>3, <2>4
  <1>3. <<p, S>> \in T
    <2> HIDE DEF T
    <2> QED
      BY <1>1, <1>2, TreeInduction
  <1> QED
    BY <1>3 DEF Pairs

\* A heap that is the same on the nodes of a tree has the tree.
LEMMA TreeFrame ==
  ASSUME NEW h, NEW g, NEW p, NEW S, Tree(h, p, S),
         S \subseteq DOMAIN g, \A a \in S : g[a] = h[a]
  PROVE  Tree(g, p, S)
  <1> DEFINE Q(q, U) == U \subseteq S => Tree(g, q, U)
  <1> DEFINE T == {t \in Pairs(h) : Q(t[1], t[2])}
  <1>1. <<NULL, {}>> \in T
    BY TreeEmpty DEF Pairs
  <1>2. ASSUME NEW q, NEW L, NEW R, Joins(h, q, L, R),
               Tree(h, h[q].left, L), Tree(h, h[q].right, R),
               <<h[q].left, L>> \in T, <<h[q].right, R>> \in T
        PROVE  <<q, {q} \cup L \cup R>> \in T
    <2>1. Q(h[q].left, L) /\ Q(h[q].right, R)
      BY <1>2
    <2>2. ASSUME {q} \cup L \cup R \subseteq S PROVE Tree(g, q, {q} \cup L \cup R)
      <3>1. Tree(g, h[q].left, L) /\ Tree(g, h[q].right, R) /\ g[q] = h[q]
        BY <2>1, <2>2
      <3>2. Joins(g, q, L, R)
        BY <1>2, <2>2 DEF Joins
      <3> QED
        BY <3>1, <3>2, TreeJoin
    <2>4. <<q, {q} \cup L \cup R>> \in Pairs(h)
      BY <1>2, TreeJoin DEF Tree
    <2> QED
      BY <2>2, <2>4
  <1>3. <<p, S>> \in T
    <2> HIDE DEF T
    <2> QED
      BY <1>1, <1>2, TreeInduction
  <1> QED
    BY <1>3

\* There is a function on the nodes with a given value at NULL whose value at a
\* node follows from those at its children.
Recursion(h, S, V, base, step) ==
  \E g \in [S \cup {NULL} -> V] :
    /\ g[NULL] = base
    /\ \A a \in S : g[a] = step[a][g[h[a].left]][g[h[a].right]]

\* On a tree there is.
LEMMA TreeRecursion ==
  ASSUME NEW h, IsHeap(h), NEW V, NEW base \in V,
         NEW step \in [DOMAIN h -> [V -> [V -> V]]],
         NEW p, NEW S, Tree(h, p, S)
  PROVE  Recursion(h, S, V, base, step)
  <1> DEFINE Goes(g, U) == /\ g[NULL] = base
                           /\ \A a \in U : g[a] = step[a][g[h[a].left]][g[h[a].right]]
  <1> DEFINE T == {t \in Pairs(h) : \E g \in [t[2] \cup {NULL} -> V] : Goes(g, t[2])}
  <1>n. NULL \notin DOMAIN h
    BY BstAssumption DEF IsHeap
  <1>1. <<NULL, {}>> \in T
    <2>1. [x \in {} \cup {NULL} |-> base] \in [{} \cup {NULL} -> V]
      OBVIOUS
    <2>2. Goes([x \in {} \cup {NULL} |-> base], {})
      OBVIOUS
    <2> QED
      BY <2>1, <2>2 DEF Pairs
  <1>2. ASSUME NEW q, NEW L, NEW R, Joins(h, q, L, R),
               Tree(h, h[q].left, L), Tree(h, h[q].right, R),
               <<h[q].left, L>> \in T, <<h[q].right, R>> \in T
        PROVE  <<q, {q} \cup L \cup R>> \in T
    <2>1. PICK gl \in [L \cup {NULL} -> V] : Goes(gl, L)
      BY <1>2
    <2>2. PICK gr \in [R \cup {NULL} -> V] : Goes(gr, R)
      BY <1>2
    <2>3. /\ h[q].left \in L \cup {NULL} /\ h[q].right \in R \cup {NULL}
          /\ \A a \in L : h[a].left \in L \cup {NULL} /\ h[a].right \in L \cup {NULL}
          /\ \A a \in R : h[a].left \in R \cup {NULL} /\ h[a].right \in R \cup {NULL}
      BY <1>2, TreeShape
    <2> DEFINE top == step[q][gl[h[q].left]][gr[h[q].right]]
    <2>4. top \in V
      <3>1. q \in DOMAIN h /\ gl[h[q].left] \in V /\ gr[h[q].right] \in V
        BY <1>2, <2>3 DEF Joins
      <3> QED
        BY <3>1
    <2> DEFINE U == {q} \cup L \cup R
    <2> DEFINE g == [x \in U \cup {NULL} |->
                       IF x = q THEN top ELSE IF x \in R THEN gr[x] ELSE gl[x]]
    <2>5. /\ q \notin L /\ q \notin R /\ L \cap R = {}
          /\ q # NULL /\ NULL \notin L /\ NULL \notin R
      BY <1>2, <1>n DEF Joins
    <2> HIDE DEF top
    <2>6. g \in [U \cup {NULL} -> V]
      BY <2>4, <2>5
    <2>7. /\ g[q] = top
          /\ \A x \in L \cup {NULL} : g[x] = gl[x]
          /\ \A x \in R : g[x] = gr[x]
          /\ g[NULL] = base
      BY <2>1, <2>5
    <2>8. \A x \in R \cup {NULL} : g[x] = gr[x]
      BY <2>1, <2>2, <2>7
    <2> HIDE DEF g
    <2>9. \A a \in L : g[a] = step[a][g[h[a].left]][g[h[a].right]]
      BY <2>1, <2>3, <2>7
    <2>10. \A a \in R : g[a] = step[a][g[h[a].left]][g[h[a].right]]
      BY <2>2, <2>3, <2>7, <2>8
    <2>11. g[q] = step[q][g[h[q].left]][g[h[q].right]]
      BY <2>3, <2>7, <2>8 DEF top
    <2>12. Goes(g, U)
      BY <2>7, <2>9, <2>10, <2>11
    <2>13. <<q, U>> \in Pairs(h)
      BY <1>2, TreeJoin DEF Tree
    <2> HIDE DEF U, Goes
    <2> QED
      BY <2>6, <2>12, <2>13 DEF U
  <1>3. <<p, S>> \in T
    <2> HIDE DEF T
    <2> QED
      BY <1>1, <1>2, TreeInduction
  <1> QED
    BY <1>3 DEF Recursion

LEMMA HeapNode ==
  ASSUME NEW h, IsHeap(h), NEW a \in DOMAIN h
  PROVE  /\ a \in Address /\ a # NULL
         /\ h[a] \in Node
         /\ h[a].key \in Key /\ h[a].key \in Int /\ h[a].inumber \in INumber
         /\ h[a].left \in Pointer /\ h[a].right \in Pointer
  BY BstAssumption DEF IsHeap, Node
-----------------------------------------------------------------------------
(* search *)

Searches(h, key, f) ==
  f = [q \in DOMAIN h \cup {NULL} |->
         IF q = NULL THEN NULL
         ELSE IF key < h[q].key THEN f[h[q].left]
         ELSE IF key > h[q].key THEN f[h[q].right]
         ELSE q]

LEMMA SearchUnfolds ==
  ASSUME NEW h, IsHeap(h), NEW p, Tree(h, p, DOMAIN h), NEW key
  PROVE  \E f : Searches(h, key, f) /\ search(h, p, key) = f[p]
  <1> DEFINE V == DOMAIN h \cup {NULL}
  <1> DEFINE step == [a \in DOMAIN h |-> [x \in V |-> [y \in V |->
                        IF key < h[a].key THEN x ELSE IF key > h[a].key THEN y ELSE a]]]
  <1>1. step \in [DOMAIN h -> [V -> [V -> V]]] /\ NULL \in V
    OBVIOUS
  <1>s. \A a \in DOMAIN h, x \in V, y \in V :
          step[a][x][y] = IF key < h[a].key THEN x ELSE IF key > h[a].key THEN y ELSE a
    OBVIOUS
  <1> HIDE DEF step
  <1>2. PICK g \in [DOMAIN h \cup {NULL} -> V] :
          /\ g[NULL] = NULL
          /\ \A a \in DOMAIN h : g[a] = step[a][g[h[a].left]][g[h[a].right]]
    <2> HIDE DEF V
    <2>1. Recursion(h, DOMAIN h, V, NULL, step)
      BY <1>1, TreeRecursion
    <2> QED
      BY <2>1 DEF Recursion
  <1>3. \A a \in DOMAIN h : /\ h[a].left \in DOMAIN h \cup {NULL}
                            /\ h[a].right \in DOMAIN h \cup {NULL}
    BY TreeShape
  <1>4. ASSUME NEW q \in DOMAIN h
        PROVE  g[q] = IF key < h[q].key THEN g[h[q].left]
                      ELSE IF key > h[q].key THEN g[h[q].right]
                      ELSE q
    BY <1>2, <1>3, <1>s
  <1>5. Searches(h, key, g)
    BY <1>2, <1>4 DEF Searches
  <1>6. search(h, p, key) = (CHOOSE f : Searches(h, key, f))[p]
    BY Zenon DEF search, Searches
  <1>7. Searches(h, key, CHOOSE f : Searches(h, key, f))
    BY <1>5, Zenon
  <1> QED
    BY <1>6, <1>7

\* search returns a node with the key, and NULL if there is none.
LEMMA SearchFinds ==
  ASSUME NEW h, IsHeap(h), NEW p, Tree(h, p, DOMAIN h), NEW key \in Int
  PROVE  LET r == search(h, p, key) IN
         \/ r = NULL /\ \A a \in DOMAIN h : h[a].key # key
         \/ r \in DOMAIN h /\ h[r].key = key
  <1>1. PICK f : Searches(h, key, f) /\ search(h, p, key) = f[p]
    BY SearchUnfolds
  <1> DEFINE Q(q, U) == \/ f[q] = NULL /\ \A a \in U : h[a].key # key
                        \/ f[q] \in U /\ h[f[q]].key = key
  <1> DEFINE T == {t \in Pairs(h) : Q(t[1], t[2])}
  <1>n. NULL \notin DOMAIN h
    BY BstAssumption DEF IsHeap
  <1>2. <<NULL, {}>> \in T
    BY <1>1 DEF Pairs, Searches
  <1>3. ASSUME NEW q, NEW L, NEW R, Joins(h, q, L, R),
               Tree(h, h[q].left, L), Tree(h, h[q].right, R),
               <<h[q].left, L>> \in T, <<h[q].right, R>> \in T
        PROVE  <<q, {q} \cup L \cup R>> \in T
    <2>1. Q(h[q].left, L) /\ Q(h[q].right, R)
      BY <1>3
    <2>2. f[q] = IF key < h[q].key THEN f[h[q].left]
                 ELSE IF key > h[q].key THEN f[h[q].right]
                 ELSE q
      BY <1>1, <1>3, <1>n DEF Searches, Joins
    <2>3. /\ q \in DOMAIN h /\ L \subseteq DOMAIN h /\ R \subseteq DOMAIN h
          /\ \A a \in L : h[a].key < h[q].key
          /\ \A a \in R : h[q].key < h[a].key
      BY <1>3 DEF Joins
    <2>4. \A a \in DOMAIN h : h[a].key \in Int
      BY HeapNode
    <2>5. Q(q, {q} \cup L \cup R)
      <3>1. CASE key < h[q].key
        <4>1. f[q] = f[h[q].left]
          BY <2>2, <3>1
        <4>2. \A a \in {q} \cup R : h[a].key # key
          BY <2>3, <2>4, <3>1
        <4> HIDE DEF Q
        <4> QED
          BY <2>1, <4>1, <4>2 DEF Q
      <3>2. CASE key > h[q].key
        <4>1. f[q] = f[h[q].right]
          BY <2>2, <2>3, <2>4, <3>2
        <4>2. \A a \in {q} \cup L : h[a].key # key
          BY <2>3, <2>4, <3>2
        <4> HIDE DEF Q
        <4> QED
          BY <2>1, <4>1, <4>2 DEF Q
      <3>3. CASE key = h[q].key
        BY <2>2, <3>3, <2>3, <2>4
      <3> QED
        BY <2>3, <2>4, <3>1, <3>2, <3>3
    <2>6. <<q, {q} \cup L \cup R>> \in Pairs(h)
      BY <1>3, TreeJoin DEF Tree
    <2> HIDE DEF Q
    <2> QED
      BY <2>5, <2>6
  <1>4. <<p, DOMAIN h>> \in T
    <2> HIDE DEF T
    <2> QED
      BY <1>2, <1>3, TreeInduction
  <1> QED
    BY <1>1, <1>4

-----------------------------------------------------------------------------
(* A node is given a new subtree. *)

Heaps == UNION {[A -> Node] : A \in SUBSET Address}
Results == [h : Heaps, p : Pointer]

LEMMA HeapsAre == \A h : h \in Heaps <=> IsHeap(h)
  <1>1. ASSUME NEW h \in Heaps PROVE IsHeap(h)
    BY DEF Heaps, IsHeap
  <1>2. ASSUME NEW h, IsHeap(h) PROVE h \in Heaps
    BY <1>2 DEF Heaps, IsHeap
  <1> QED
    BY <1>1, <1>2

LEMMA SetLeftIs ==
  ASSUME NEW r \in Results, NEW q \in Address
  PROVE  LET e == set_left(q, r) IN
         /\ e \in Results
         /\ e.p = q
         /\ DOMAIN e.h = DOMAIN r.h
         /\ \A a \in DOMAIN r.h \ {q} : e.h[a] = r.h[a]
         /\ q \in DOMAIN r.h =>
              /\ e.h[q].key = r.h[q].key /\ e.h[q].inumber = r.h[q].inumber
              /\ e.h[q].left = r.p /\ e.h[q].right = r.h[q].right
  <1> DEFINE g == [r.h EXCEPT ![q].left = r.p]
  <1>1. IsHeap(r.h) /\ r.p \in Pointer
    BY HeapsAre DEF Results
  <1>2. /\ DOMAIN g = DOMAIN r.h
        /\ \A a \in DOMAIN r.h \ {q} : g[a] = r.h[a]
        /\ q \in DOMAIN r.h => g[q] = [r.h[q] EXCEPT !.left = r.p]
    OBVIOUS
  <1>3. q \in DOMAIN r.h =>
          /\ g[q] \in Node
          /\ g[q].key = r.h[q].key /\ g[q].inumber = r.h[q].inumber
          /\ g[q].left = r.p /\ g[q].right = r.h[q].right
    <2> HIDE DEF g
    <2> QED
      BY <1>1, <1>2 DEF IsHeap, Node
  <1>4. g = [a \in DOMAIN r.h |-> g[a]]
    OBVIOUS
  <1>5. IsHeap(g)
    <2> HIDE DEF g
    <2> QED
      BY <1>1, <1>2, <1>3, <1>4 DEF IsHeap
  <1>6. q \in Pointer
    BY DEF Pointer
  <1>7. set_left(q, r) = [h |-> g, p |-> q]
    BY DEF set_left
  <1> HIDE DEF g
  <1> QED
    BY <1>2, <1>3, <1>5, <1>6, <1>7, HeapsAre DEF Results

LEMMA SetRightIs ==
  ASSUME NEW r \in Results, NEW q \in Address
  PROVE  LET e == set_right(q, r) IN
         /\ e \in Results
         /\ e.p = q
         /\ DOMAIN e.h = DOMAIN r.h
         /\ \A a \in DOMAIN r.h \ {q} : e.h[a] = r.h[a]
         /\ q \in DOMAIN r.h =>
              /\ e.h[q].key = r.h[q].key /\ e.h[q].inumber = r.h[q].inumber
              /\ e.h[q].right = r.p /\ e.h[q].left = r.h[q].left
  <1> DEFINE g == [r.h EXCEPT ![q].right = r.p]
  <1>1. IsHeap(r.h) /\ r.p \in Pointer
    BY HeapsAre DEF Results
  <1>2. /\ DOMAIN g = DOMAIN r.h
        /\ \A a \in DOMAIN r.h \ {q} : g[a] = r.h[a]
        /\ q \in DOMAIN r.h => g[q] = [r.h[q] EXCEPT !.right = r.p]
    OBVIOUS
  <1>3. q \in DOMAIN r.h =>
          /\ g[q] \in Node
          /\ g[q].key = r.h[q].key /\ g[q].inumber = r.h[q].inumber
          /\ g[q].right = r.p /\ g[q].left = r.h[q].left
    <2> HIDE DEF g
    <2> QED
      BY <1>1, <1>2 DEF IsHeap, Node
  <1>4. g = [a \in DOMAIN r.h |-> g[a]]
    OBVIOUS
  <1>5. IsHeap(g)
    <2> HIDE DEF g
    <2> QED
      BY <1>1, <1>2, <1>3, <1>4 DEF IsHeap
  <1>6. q \in Pointer
    BY DEF Pointer
  <1>7. set_right(q, r) = [h |-> g, p |-> q]
    BY DEF set_right
  <1> HIDE DEF g
  <1> QED
    BY <1>2, <1>3, <1>5, <1>6, <1>7, HeapsAre DEF Results

\* What a call on the left subtree has yielded may take its place when it is a
\* tree with smaller keys, away from the rest.
LEMMA JoinLeft ==
  ASSUME NEW h, NEW q, NEW L, NEW R, IsHeap(h), Joins(h, q, L, R),
         Tree(h, h[q].right, R),
         NEW r \in Results, NEW N, Tree(r.h, r.p, N),
         N \cap ({q} \cup R) = {},
         \A a \in {q} \cup R : a \in DOMAIN r.h /\ r.h[a] = h[a],
         \A a \in N : r.h[a].key < h[q].key
  PROVE  Tree(set_left(q, r).h, q, {q} \cup N \cup R)
  <1> DEFINE e == set_left(q, r)
  <1>1. q \in Address /\ N \subseteq DOMAIN r.h /\ R \subseteq DOMAIN h
    BY HeapNode DEF Joins, Tree, Pairs
  <1>2. /\ DOMAIN e.h = DOMAIN r.h
        /\ \A a \in N \cup R : a # q /\ a \in DOMAIN r.h /\ e.h[a] = r.h[a]
        /\ e.h[q].key = h[q].key /\ e.h[q].left = r.p /\ e.h[q].right = h[q].right
    BY <1>1, SetLeftIs DEF Joins
  <1> HIDE DEF e
  <1>3. Tree(e.h, r.p, N) /\ Tree(e.h, h[q].right, R)
    <2>1. N \subseteq DOMAIN e.h /\ R \subseteq DOMAIN e.h /\ \A a \in R : e.h[a] = h[a]
      BY <1>1, <1>2
    <2> QED
      BY <1>2, <2>1, TreeFrame
  <1>4. Joins(e.h, q, N, R)
    BY <1>1, <1>2 DEF Joins
  <1> QED
    BY <1>2, <1>3, <1>4, TreeJoin DEF e

LEMMA JoinRight ==
  ASSUME NEW h, NEW q, NEW L, NEW R, IsHeap(h), Joins(h, q, L, R),
         Tree(h, h[q].left, L),
         NEW r \in Results, NEW N, Tree(r.h, r.p, N),
         N \cap ({q} \cup L) = {},
         \A a \in {q} \cup L : a \in DOMAIN r.h /\ r.h[a] = h[a],
         \A a \in N : h[q].key < r.h[a].key
  PROVE  Tree(set_right(q, r).h, q, {q} \cup L \cup N)
  <1> DEFINE e == set_right(q, r)
  <1>1. q \in Address /\ N \subseteq DOMAIN r.h /\ L \subseteq DOMAIN h
    BY HeapNode DEF Joins, Tree, Pairs
  <1>2. /\ DOMAIN e.h = DOMAIN r.h
        /\ \A a \in N \cup L : a # q /\ a \in DOMAIN r.h /\ e.h[a] = r.h[a]
        /\ e.h[q].key = h[q].key /\ e.h[q].right = r.p /\ e.h[q].left = h[q].left
    BY <1>1, SetRightIs DEF Joins
  <1> HIDE DEF e
  <1>3. Tree(e.h, r.p, N) /\ Tree(e.h, h[q].left, L)
    <2>1. N \subseteq DOMAIN e.h /\ L \subseteq DOMAIN e.h /\ \A a \in L : e.h[a] = h[a]
      BY <1>1, <1>2
    <2> QED
      BY <1>2, <2>1, TreeFrame
  <1>4. Joins(e.h, q, L, N)
    BY <1>1, <1>2 DEF Joins
  <1> QED
    BY <1>2, <1>3, <1>4, TreeJoin DEF e

-----------------------------------------------------------------------------
(* insert *)

LEMMA TreeKeysDiffer ==
  ASSUME NEW h, IsHeap(h), NEW p, NEW S, Tree(h, p, S)
  PROVE  \A a, b \in S : h[a].key = h[b].key => a = b
  <1> DEFINE Q(U) == \A a, b \in U : h[a].key = h[b].key => a = b
  <1> DEFINE T == {t \in Pairs(h) : Q(t[2])}
  <1>1. <<NULL, {}>> \in T
    BY DEF Pairs
  <1>2. ASSUME NEW q, NEW L, NEW R, Joins(h, q, L, R),
               Tree(h, h[q].left, L), Tree(h, h[q].right, R),
               <<h[q].left, L>> \in T, <<h[q].right, R>> \in T
        PROVE  <<q, {q} \cup L \cup R>> \in T
    <2>1. Q(L) /\ Q(R)
      BY <1>2
    <2>2. /\ \A a \in {q} \cup L \cup R : h[a].key \in Int
          /\ \A a \in L : h[a].key < h[q].key
          /\ \A a \in R : h[q].key < h[a].key
      BY <1>2, HeapNode DEF Joins
    <2>3. Q({q} \cup L \cup R)
      BY <2>1, <2>2
    <2>4. <<q, {q} \cup L \cup R>> \in Pairs(h)
      BY <1>2, TreeJoin DEF Tree
    <2> QED
      BY <2>3, <2>4
  <1>3. <<p, S>> \in T
    <2> HIDE DEF T
    <2> QED
      BY <1>1, <1>2, TreeInduction
  <1> QED
    BY <1>3

\* A tree has fewer nodes than there are addresses.
LEMMA Room ==
  ASSUME NEW h, IsHeap(h), NEW p, Tree(h, p, DOMAIN h)
  PROVE  \E a : a \in Address \ DOMAIN h
  <1> SUFFICES ASSUME DOMAIN h = Address PROVE FALSE
    BY DEF IsHeap
  <1> DEFINE f == [a \in Address |-> h[a].key]
  <1>1. f \in [Address -> Key]
    BY HeapNode
  <1>2. Cardinality(Key) < Cardinality(Address) /\ IsFiniteSet(Key) /\ IsFiniteSet(Address)
    BY BstAssumption, FS_CardinalityType DEF BstAssumption
  <1> HIDE DEF f
  <1>3. \E a, b \in Address : a # b /\ f[a] = f[b]
    BY <1>1, <1>2, FS_PigeonHole
  <1> QED
    BY <1>3, TreeKeysDiffer DEF f

LEMMA NewNodeIs ==
  ASSUME NEW h, IsHeap(h), \E a : a \in Address \ DOMAIN h,
         NEW key \in Key, NEW inumber \in INumber
  PROVE  LET e == new_node(h, key, inumber) IN
         /\ e \in Results
         /\ e.p \in Address \ DOMAIN h
         /\ DOMAIN e.h = DOMAIN h \cup {e.p}
         /\ \A a \in DOMAIN h : e.h[a] = h[a]
         /\ e.h[e.p].key = key /\ e.h[e.p].inumber = inumber
         /\ e.h[e.p].left = NULL /\ e.h[e.p].right = NULL
  <1> DEFINE a0 == CHOOSE a \in Address \ DOMAIN h : TRUE
  <1> DEFINE n == [key |-> key, inumber |-> inumber, left |-> NULL, right |-> NULL]
  <1> DEFINE g == [a \in DOMAIN h \cup {a0} |-> IF a = a0 THEN n ELSE h[a]]
  <1>1. a0 \in Address \ DOMAIN h
    OBVIOUS
  <1>2. new_node(h, key, inumber) = [h |-> g, p |-> a0]
    BY DEF new_node
  <1>3. n \in Node
    BY DEF Node, Pointer
  <1> HIDE DEF a0
  <1>4. IsHeap(g)
    BY <1>1, <1>3 DEF IsHeap
  <1>5. g \in Heaps /\ a0 \in Pointer
    BY <1>1, <1>4, HeapsAre DEF Pointer
  <1>6. /\ DOMAIN g = DOMAIN h \cup {a0}
        /\ g[a0] = n
        /\ \A a \in DOMAIN h : g[a] = h[a]
    BY <1>1
  <1> HIDE DEF g
  <1> QED
    BY <1>1, <1>2, <1>5, <1>6 DEF Results

Inserts(h, key, inumber, f) ==
  f = [q \in DOMAIN h \cup {NULL} |->
         IF q = NULL THEN new_node(h, key, inumber)
         ELSE IF key < h[q].key THEN set_left(q, f[h[q].left])
         ELSE IF key > h[q].key THEN set_right(q, f[h[q].right])
         ELSE [h |-> [h EXCEPT ![q].inumber = inumber], p |-> q]]

LEMMA StoreIs ==
  ASSUME NEW h, IsHeap(h), NEW q \in DOMAIN h, NEW inumber \in INumber
  PROVE  LET e == [h |-> [h EXCEPT ![q].inumber = inumber], p |-> q] IN
         /\ e \in Results
         /\ e.p = q
         /\ DOMAIN e.h = DOMAIN h
         /\ \A a \in DOMAIN h \ {q} : e.h[a] = h[a]
         /\ e.h[q].key = h[q].key /\ e.h[q].inumber = inumber
         /\ e.h[q].left = h[q].left /\ e.h[q].right = h[q].right
  <1> DEFINE g == [h EXCEPT ![q].inumber = inumber]
  <1>1. /\ DOMAIN g = DOMAIN h
        /\ \A a \in DOMAIN h \ {q} : g[a] = h[a]
        /\ g[q] = [h[q] EXCEPT !.inumber = inumber]
    OBVIOUS
  <1>2. /\ g[q] \in Node
        /\ g[q].key = h[q].key /\ g[q].inumber = inumber
        /\ g[q].left = h[q].left /\ g[q].right = h[q].right
    <2> HIDE DEF g
    <2> QED
      BY <1>1, HeapNode DEF Node
  <1>3. g = [a \in DOMAIN h |-> g[a]]
    OBVIOUS
  <1>4. IsHeap(g)
    <2> HIDE DEF g
    <2> QED
      BY <1>1, <1>2, <1>3 DEF IsHeap
  <1>5. q \in Pointer
    BY HeapNode DEF Pointer
  <1> HIDE DEF g
  <1>6. g \in Heaps
    BY <1>4, HeapsAre
  <1>7. [h |-> g, p |-> q] \in Results
    BY <1>5, <1>6 DEF Results
  <1> QED
    BY <1>1, <1>2, <1>7 DEF g

LEMMA InsertUnfolds ==
  ASSUME NEW h, IsHeap(h), NEW p, Tree(h, p, DOMAIN h),
         NEW key \in Key, NEW inumber \in INumber
  PROVE  \E f : Inserts(h, key, inumber, f) /\ insert(h, p, key, inumber) = f[p]
  <1> DEFINE step == [a \in DOMAIN h |-> [x \in Results |-> [y \in Results |->
                        IF key < h[a].key THEN set_left(a, x)
                        ELSE IF key > h[a].key THEN set_right(a, y)
                        ELSE [h |-> [h EXCEPT ![a].inumber = inumber], p |-> a]]]]
  <1> DEFINE base == new_node(h, key, inumber)
  <1>1. base \in Results
    BY Room, NewNodeIs
  <1>2. \A a \in DOMAIN h, x \in Results, y \in Results :
          /\ set_left(a, x) \in Results
          /\ set_right(a, y) \in Results
          /\ [h |-> [h EXCEPT ![a].inumber = inumber], p |-> a] \in Results
    BY HeapNode, SetLeftIs, SetRightIs, StoreIs
  <1>3. step \in [DOMAIN h -> [Results -> [Results -> Results]]]
    BY <1>2
  <1>s. \A a \in DOMAIN h, x \in Results, y \in Results :
          step[a][x][y] = IF key < h[a].key THEN set_left(a, x)
                          ELSE IF key > h[a].key THEN set_right(a, y)
                          ELSE [h |-> [h EXCEPT ![a].inumber = inumber], p |-> a]
    OBVIOUS
  <1> HIDE DEF step, base
  <1>4. Recursion(h, DOMAIN h, Results, base, step)
    BY <1>1, <1>3, TreeRecursion
  <1>5. PICK g \in [DOMAIN h \cup {NULL} -> Results] :
          /\ g[NULL] = base
          /\ \A a \in DOMAIN h : g[a] = step[a][g[h[a].left]][g[h[a].right]]
    BY <1>4 DEF Recursion
  <1>6. \A a \in DOMAIN h : /\ h[a].left \in DOMAIN h \cup {NULL}
                            /\ h[a].right \in DOMAIN h \cup {NULL}
    BY TreeShape
  <1>7. ASSUME NEW q \in DOMAIN h
        PROVE  g[q] = IF key < h[q].key THEN set_left(q, g[h[q].left])
                      ELSE IF key > h[q].key THEN set_right(q, g[h[q].right])
                      ELSE [h |-> [h EXCEPT ![q].inumber = inumber], p |-> q]
    <2>1. g[h[q].left] \in Results /\ g[h[q].right] \in Results
      BY <1>5, <1>6
    <2>2. g[q] = step[q][g[h[q].left]][g[h[q].right]]
      BY <1>5
    <2>3. ASSUME NEW x \in Results, NEW y \in Results
          PROVE  step[q][x][y] = IF key < h[q].key THEN set_left(q, x)
                                 ELSE IF key > h[q].key THEN set_right(q, y)
                                 ELSE [h |-> [h EXCEPT ![q].inumber = inumber], p |-> q]
      BY <1>s, Zenon
    <2> QED
      BY <2>1, <2>2, <2>3, Zenon
  <1>n. \A q \in DOMAIN h : q # NULL
    BY HeapNode
  <1>8. Inserts(h, key, inumber, g)
    <2>1. g = [q \in DOMAIN h \cup {NULL} |-> g[q]]
      BY <1>5
    <2>2. \A q \in DOMAIN h \cup {NULL} :
            g[q] = IF q = NULL THEN new_node(h, key, inumber)
                   ELSE IF key < h[q].key THEN set_left(q, g[h[q].left])
                   ELSE IF key > h[q].key THEN set_right(q, g[h[q].right])
                   ELSE [h |-> [h EXCEPT ![q].inumber = inumber], p |-> q]
      BY <1>5, <1>7, <1>n, Zenon DEF base
    <2> QED
      BY <2>1, <2>2, Zenon DEF Inserts
  <1>9. insert(h, p, key, inumber) = (CHOOSE f : Inserts(h, key, inumber, f))[p]
    BY Zenon DEF insert, Inserts
  <1>10. Inserts(h, key, inumber, CHOOSE f : Inserts(h, key, inumber, f))
    BY <1>8, Zenon
  <1> QED
    BY <1>9, <1>10

\* r is what storing inumber under key in the tree with the nodes S yields: a
\* tree with those nodes and the new ones, and nothing else has changed.
With(h, S, r) == S \cup (DOMAIN r.h \ DOMAIN h)

Inserted(h, S, r, key, inumber) ==
  /\ r \in Results
  /\ DOMAIN h \subseteq DOMAIN r.h
  /\ \A a \in DOMAIN h \ S : r.h[a] = h[a]
  /\ Tree(r.h, r.p, With(h, S, r))
  /\ \A a \in S : r.h[a].key = h[a].key /\ (h[a].key # key => r.h[a].inumber = h[a].inumber)
  /\ \A a \in DOMAIN r.h \ DOMAIN h : r.h[a].key = key
  /\ \A a \in With(h, S, r) : r.h[a].key = key => r.h[a].inumber = inumber
  /\ \E a \in With(h, S, r) : r.h[a].key = key

LEMMA InsertedEmpty ==
  ASSUME NEW h, IsHeap(h), \E a : a \in Address \ DOMAIN h,
         NEW key \in Key, NEW inumber \in INumber
  PROVE  Inserted(h, {}, new_node(h, key, inumber), key, inumber)
  <1> DEFINE e == new_node(h, key, inumber)
  <1>1. /\ e \in Results
        /\ e.p \in Address \ DOMAIN h
        /\ DOMAIN e.h = DOMAIN h \cup {e.p}
        /\ \A a \in DOMAIN h : e.h[a] = h[a]
        /\ e.h[e.p].key = key /\ e.h[e.p].inumber = inumber
        /\ e.h[e.p].left = NULL /\ e.h[e.p].right = NULL
    BY NewNodeIs
  <1> HIDE DEF e
  <1>2. With(h, {}, e) = {e.p}
    BY <1>1 DEF With
  <1>3. Joins(e.h, e.p, {}, {})
    BY <1>1 DEF Joins
  <1>4. Tree(e.h, e.p, {e.p} \cup {} \cup {})
    BY <1>1, <1>3, TreeJoin, TreeEmpty
  <1>5. Tree(e.h, e.p, {e.p})
    BY <1>4
  <1> QED
    BY <1>1, <1>2, <1>5 DEF Inserted, e

LEMMA InsertedLeft ==
  ASSUME NEW h, IsHeap(h), NEW q, NEW L, NEW R, Joins(h, q, L, R),
         Tree(h, h[q].right, R), NEW key \in Key, NEW inumber \in INumber,
         key < h[q].key, NEW r, Inserted(h, L, r, key, inumber)
  PROVE  Inserted(h, {q} \cup L \cup R, set_left(q, r), key, inumber)
  <1> DEFINE e == set_left(q, r)
  <1> DEFINE N == With(h, L, r)
  <1> DEFINE U == {q} \cup L \cup R
  <1>1. /\ q \in DOMAIN h /\ L \subseteq DOMAIN h /\ R \subseteq DOMAIN h
        /\ q \notin L /\ q \notin R /\ L \cap R = {}
        /\ \A a \in L : h[a].key < h[q].key
        /\ \A a \in R : h[q].key < h[a].key
    BY DEF Joins
  <1>2. r \in Results /\ DOMAIN h \subseteq DOMAIN r.h /\ \A a \in DOMAIN h \ L : r.h[a] = h[a]
    BY DEF Inserted
  <1>3. q \in Address /\ \A a \in DOMAIN h : h[a].key \in Int
    BY <1>1, HeapNode
  <1>4. /\ e \in Results
        /\ DOMAIN e.h = DOMAIN r.h
        /\ \A a \in DOMAIN r.h \ {q} : e.h[a] = r.h[a]
        /\ e.h[q].key = r.h[q].key /\ e.h[q].inumber = r.h[q].inumber
    BY <1>1, <1>2, <1>3, SetLeftIs
  <1>5. Tree(e.h, q, {q} \cup N \cup R)
    <2>1. Tree(r.h, r.p, N)
      BY DEF Inserted
    <2>2. N \cap ({q} \cup R) = {}
      BY <1>1 DEF With
    <2>3. \A a \in {q} \cup R : a \in DOMAIN r.h /\ r.h[a] = h[a]
      BY <1>1, <1>2
    <2>4. \A a \in N : r.h[a].key < h[q].key
      BY <1>1 DEF Inserted, With
    <2> HIDE DEF N
    <2> QED
      BY <1>2, <2>1, <2>2, <2>3, <2>4, JoinLeft
  <1>6. {q} \cup N \cup R = With(h, U, e) /\ e.p = q
    BY <1>4 DEF With, set_left
  <1> HIDE DEF e
  <1>7. \A a \in U : e.h[a].key = h[a].key /\ (h[a].key # key => e.h[a].inumber = h[a].inumber)
    <2>1. ASSUME NEW a \in L
          PROVE  e.h[a].key = h[a].key /\ (h[a].key # key => e.h[a].inumber = h[a].inumber)
      BY <1>1, <1>2, <1>4 DEF Inserted
    <2>2. ASSUME NEW a \in {q} \cup R
          PROVE  e.h[a].key = h[a].key /\ (h[a].key # key => e.h[a].inumber = h[a].inumber)
      BY <1>1, <1>2, <1>4
    <2> QED
      BY <2>1, <2>2
  <1>8. \A a \in DOMAIN e.h \ DOMAIN h : a # q /\ e.h[a].key = key
    BY <1>1, <1>4 DEF Inserted
  <1>9. ASSUME NEW a \in With(h, U, e), e.h[a].key = key PROVE e.h[a].inumber = inumber
    <2>1. CASE a \in N
      BY <1>1, <1>4, <1>9, <2>1 DEF Inserted, With
    <2>2. CASE a \in {q} \cup R
      BY <1>1, <1>3, <1>7, <1>9, <2>2
    <2> QED
      BY <1>6, <2>1, <2>2
  <1>10. \E a \in With(h, U, e) : e.h[a].key = key
    <2>1. PICK a \in N : r.h[a].key = key
      BY DEF Inserted
    <2>2. a # q /\ a \in DOMAIN r.h /\ a \in With(h, U, e)
      BY <1>1, <1>2, <1>6 DEF With
    <2> QED
      BY <1>4, <2>1, <2>2
  <1>11. \A a \in DOMAIN h \ U : e.h[a] = h[a]
    BY <1>2, <1>4
  <1>12. Tree(e.h, e.p, With(h, U, e))
    BY <1>5, <1>6
  <1> QED
    BY <1>2, <1>4, <1>7, <1>8, <1>9, <1>10, <1>11, <1>12 DEF Inserted, e

LEMMA InsertedRight ==
  ASSUME NEW h, IsHeap(h), NEW q, NEW L, NEW R, Joins(h, q, L, R),
         Tree(h, h[q].left, L), NEW key \in Key, NEW inumber \in INumber,
         h[q].key < key, NEW r, Inserted(h, R, r, key, inumber)
  PROVE  Inserted(h, {q} \cup L \cup R, set_right(q, r), key, inumber)
  <1> DEFINE e == set_right(q, r)
  <1> DEFINE N == With(h, R, r)
  <1> DEFINE U == {q} \cup L \cup R
  <1>1. /\ q \in DOMAIN h /\ L \subseteq DOMAIN h /\ R \subseteq DOMAIN h
        /\ q \notin L /\ q \notin R /\ L \cap R = {}
        /\ \A a \in L : h[a].key < h[q].key
        /\ \A a \in R : h[q].key < h[a].key
    BY DEF Joins
  <1>2. r \in Results /\ DOMAIN h \subseteq DOMAIN r.h /\ \A a \in DOMAIN h \ R : r.h[a] = h[a]
    BY DEF Inserted
  <1>3. q \in Address /\ \A a \in DOMAIN h : h[a].key \in Int
    BY <1>1, HeapNode
  <1>4. /\ e \in Results
        /\ DOMAIN e.h = DOMAIN r.h
        /\ \A a \in DOMAIN r.h \ {q} : e.h[a] = r.h[a]
        /\ e.h[q].key = r.h[q].key /\ e.h[q].inumber = r.h[q].inumber
    BY <1>1, <1>2, <1>3, SetRightIs
  <1>5. Tree(e.h, q, {q} \cup L \cup N)
    <2>1. Tree(r.h, r.p, N)
      BY DEF Inserted
    <2>2. N \cap ({q} \cup L) = {}
      BY <1>1 DEF With
    <2>3. \A a \in {q} \cup L : a \in DOMAIN r.h /\ r.h[a] = h[a]
      BY <1>1, <1>2
    <2>4. \A a \in N : h[q].key < r.h[a].key
      BY <1>1 DEF Inserted, With
    <2> HIDE DEF N
    <2> QED
      BY <1>2, <2>1, <2>2, <2>3, <2>4, JoinRight
  <1>6. {q} \cup L \cup N = With(h, U, e) /\ e.p = q
    BY <1>4 DEF With, set_right
  <1> HIDE DEF e
  <1>7. \A a \in U : e.h[a].key = h[a].key /\ (h[a].key # key => e.h[a].inumber = h[a].inumber)
    <2>1. ASSUME NEW a \in R
          PROVE  e.h[a].key = h[a].key /\ (h[a].key # key => e.h[a].inumber = h[a].inumber)
      BY <1>1, <1>2, <1>4 DEF Inserted
    <2>2. ASSUME NEW a \in {q} \cup L
          PROVE  e.h[a].key = h[a].key /\ (h[a].key # key => e.h[a].inumber = h[a].inumber)
      BY <1>1, <1>2, <1>4
    <2> QED
      BY <2>1, <2>2
  <1>8. \A a \in DOMAIN e.h \ DOMAIN h : a # q /\ e.h[a].key = key
    BY <1>1, <1>4 DEF Inserted
  <1>9. ASSUME NEW a \in With(h, U, e), e.h[a].key = key PROVE e.h[a].inumber = inumber
    <2>1. CASE a \in N
      BY <1>1, <1>4, <1>9, <2>1 DEF Inserted, With
    <2>2. CASE a \in {q} \cup L
      BY <1>1, <1>3, <1>7, <1>9, <2>2
    <2> QED
      BY <1>6, <2>1, <2>2
  <1>10. \E a \in With(h, U, e) : e.h[a].key = key
    <2>1. PICK a \in N : r.h[a].key = key
      BY DEF Inserted
    <2>2. a # q /\ a \in DOMAIN r.h /\ a \in With(h, U, e)
      BY <1>1, <1>2, <1>6 DEF With
    <2> QED
      BY <1>4, <2>1, <2>2
  <1>11. \A a \in DOMAIN h \ U : e.h[a] = h[a]
    BY <1>2, <1>4
  <1>12. Tree(e.h, e.p, With(h, U, e))
    BY <1>5, <1>6
  <1> QED
    BY <1>2, <1>4, <1>7, <1>8, <1>9, <1>10, <1>11, <1>12 DEF Inserted, e

LEMMA InsertedHere ==
  ASSUME NEW h, IsHeap(h), NEW q, NEW L, NEW R, Joins(h, q, L, R),
         Tree(h, h[q].left, L), Tree(h, h[q].right, R),
         NEW key \in Key, NEW inumber \in INumber, key = h[q].key
  PROVE  Inserted(h, {q} \cup L \cup R,
                  [h |-> [h EXCEPT ![q].inumber = inumber], p |-> q], key, inumber)
  <1> DEFINE e == [h |-> [h EXCEPT ![q].inumber = inumber], p |-> q]
  <1> DEFINE U == {q} \cup L \cup R
  <1>1. /\ q \in DOMAIN h /\ L \subseteq DOMAIN h /\ R \subseteq DOMAIN h
        /\ q \notin L /\ q \notin R /\ L \cap R = {}
        /\ \A a \in L : h[a].key < h[q].key
        /\ \A a \in R : h[q].key < h[a].key
    BY DEF Joins
  <1>2. /\ e \in Results
        /\ e.p = q
        /\ DOMAIN e.h = DOMAIN h
        /\ \A a \in DOMAIN h \ {q} : e.h[a] = h[a]
        /\ e.h[q].key = h[q].key /\ e.h[q].inumber = inumber
        /\ e.h[q].left = h[q].left /\ e.h[q].right = h[q].right
    BY <1>1, StoreIs
  <1> HIDE DEF e
  <1>3. Tree(e.h, h[q].left, L) /\ Tree(e.h, h[q].right, R)
    BY <1>1, <1>2, TreeFrame
  <1>4. Joins(e.h, q, L, R)
    BY <1>1, <1>2 DEF Joins
  <1>5. Tree(e.h, e.p, U) /\ With(h, U, e) = U
    BY <1>2, <1>3, <1>4, TreeJoin DEF With
  <1>6. \A a \in DOMAIN h : h[a].key \in Int
    BY HeapNode
  <1>7. \A a \in L \cup R : h[a].key # key
    BY <1>1, <1>6
  <1> QED
    BY <1>1, <1>2, <1>5, <1>7 DEF Inserted, e

\* insert yields a tree with the key and its i-number, and what was there.
LEMMA InsertStores ==
  ASSUME NEW h, IsHeap(h), NEW p, Tree(h, p, DOMAIN h),
         NEW key \in Key, NEW inumber \in INumber
  PROVE  Inserted(h, DOMAIN h, insert(h, p, key, inumber), key, inumber)
  <1>1. PICK f : Inserts(h, key, inumber, f) /\ insert(h, p, key, inumber) = f[p]
    BY InsertUnfolds
  <1> DEFINE T == {t \in Pairs(h) : Inserted(h, t[2], f[t[1]], key, inumber)}
  <1>n. NULL \notin DOMAIN h
    BY BstAssumption DEF IsHeap
  <1>2. <<NULL, {}>> \in T
    <2>1. f[NULL] = new_node(h, key, inumber)
      BY <1>1 DEF Inserts
    <2>2. Inserted(h, {}, f[NULL], key, inumber)
      BY <2>1, InsertedEmpty, Room
    <2> QED
      BY <2>2 DEF Pairs
  <1>3. ASSUME NEW q, NEW L, NEW R, Joins(h, q, L, R),
               Tree(h, h[q].left, L), Tree(h, h[q].right, R),
               <<h[q].left, L>> \in T, <<h[q].right, R>> \in T
        PROVE  <<q, {q} \cup L \cup R>> \in T
    <2>1. /\ Inserted(h, L, f[h[q].left], key, inumber)
          /\ Inserted(h, R, f[h[q].right], key, inumber)
      BY <1>3
    <2>2. f[q] = IF key < h[q].key THEN set_left(q, f[h[q].left])
                 ELSE IF key > h[q].key THEN set_right(q, f[h[q].right])
                 ELSE [h |-> [h EXCEPT ![q].inumber = inumber], p |-> q]
      <3>1. q \in DOMAIN h /\ q # NULL
        BY <1>3, <1>n DEF Joins
      <3> QED
        BY <1>1, <3>1, Zenon DEF Inserts
    <2>3. h[q].key \in Int /\ key \in Int
      BY <1>3, HeapNode, BstAssumption DEF Joins, BstAssumption
    <2>4. Inserted(h, {q} \cup L \cup R, f[q], key, inumber)
      <3>1. CASE key < h[q].key
        <4>1. f[q] = set_left(q, f[h[q].left])
          BY <2>2, <3>1
        <4> QED
          BY <1>3, <2>1, <3>1, <4>1, InsertedLeft
      <3>2. CASE key > h[q].key
        <4>1. f[q] = set_right(q, f[h[q].right]) /\ h[q].key < key
          BY <2>2, <2>3, <3>2
        <4> QED
          BY <1>3, <2>1, <4>1, InsertedRight
      <3>3. CASE key = h[q].key
        <4>1. f[q] = [h |-> [h EXCEPT ![q].inumber = inumber], p |-> q]
          BY <2>2, <2>3, <3>3
        <4> QED
          BY <1>3, <3>3, <4>1, InsertedHere
      <3> QED
        BY <2>3, <3>1, <3>2, <3>3
    <2>6. <<q, {q} \cup L \cup R>> \in Pairs(h)
      BY <1>3, TreeJoin DEF Tree
    <2> QED
      BY <2>4, <2>6
  <1>4. <<p, DOMAIN h>> \in T
    <2> HIDE DEF T
    <2> QED
      BY <1>2, <1>3, TreeInduction
  <1> QED
    BY <1>1, <1>4

-----------------------------------------------------------------------------
(* find_min and remove_min *)

LEMMA BelowIsTree ==
  ASSUME NEW h, IsHeap(h), NEW p, NEW S, Tree(h, p, S)
  PROVE  Below(h, p) = S
  <1> DEFINE Closed(C) ==
               ({p} \cup UNION {Children(h, b) : b \in C}) \cap DOMAIN h \subseteq C
  <1>b. Below(h, p) = {a \in DOMAIN h : \A C \in SUBSET DOMAIN h : Closed(C) => a \in C}
    BY DEF Below
  <1>n. NULL \notin DOMAIN h
    BY BstAssumption DEF IsHeap
  <1>s. /\ S \subseteq DOMAIN h
        /\ p \in S \cup {NULL}
        /\ \A a \in S : h[a].left \in S \cup {NULL} /\ h[a].right \in S \cup {NULL}
    BY TreeShape
  <1>1. Closed(S)
    BY <1>n, <1>s DEF Children
  <1>2. ASSUME NEW C \in SUBSET DOMAIN h, Closed(C) PROVE S \subseteq C
    <2>1. /\ p \in DOMAIN h => p \in C
          /\ \A b \in C : /\ h[b].left \in DOMAIN h => h[b].left \in C
                          /\ h[b].right \in DOMAIN h => h[b].right \in C
      BY <1>2 DEF Children
    <2> DEFINE T == {t \in Pairs(h) : t[1] \in C \cup {NULL} => t[2] \subseteq C}
    <2>2. <<NULL, {}>> \in T
      BY DEF Pairs
    <2>3. ASSUME NEW q, NEW L, NEW R, Joins(h, q, L, R),
                 Tree(h, h[q].left, L), Tree(h, h[q].right, R),
                 <<h[q].left, L>> \in T, <<h[q].right, R>> \in T
          PROVE  <<q, {q} \cup L \cup R>> \in T
      <3>1. <<q, {q} \cup L \cup R>> \in Pairs(h)
        BY <2>3, TreeJoin DEF Tree
      <3>2. /\ h[q].left \in C \cup {NULL} => L \subseteq C
            /\ h[q].right \in C \cup {NULL} => R \subseteq C
        BY <2>3
      <3>3. h[q].left \in DOMAIN h \cup {NULL} /\ h[q].right \in DOMAIN h \cup {NULL}
        BY <2>3 DEF Tree, Pairs
      <3>4. q \in C => {q} \cup L \cup R \subseteq C
        BY <2>1, <3>2, <3>3
      <3> QED
        BY <1>n, <2>3, <3>1, <3>4 DEF Joins
    <2>4. <<p, S>> \in T
      <3> HIDE DEF T
      <3> QED
        BY <2>2, <2>3, TreeInduction
    <2> QED
      BY <1>s, <2>1, <2>4
  <1> HIDE DEF Closed
  <1> QED
    BY <1>b, <1>s, <1>1, <1>2

FindsMin(h, S, f) == f = [q \in S |-> IF h[q].left # NULL THEN f[h[q].left] ELSE q]

LEMMA FindMinUnfolds ==
  ASSUME NEW h, IsHeap(h), NEW p, NEW S, Tree(h, p, S)
  PROVE  \E f : FindsMin(h, S, f) /\ find_min(h, p) = f[p]
  <1> DEFINE V == DOMAIN h \cup {NULL}
  <1> DEFINE step == [a \in DOMAIN h |-> [x \in V |-> [y \in V |->
                        IF h[a].left # NULL THEN x ELSE a]]]
  <1>1. step \in [DOMAIN h -> [V -> [V -> V]]] /\ NULL \in V
    OBVIOUS
  <1>s. \A a \in DOMAIN h, x \in V, y \in V :
          step[a][x][y] = IF h[a].left # NULL THEN x ELSE a
    OBVIOUS
  <1> HIDE DEF step
  <1>2. PICK g \in [S \cup {NULL} -> V] :
          /\ g[NULL] = NULL
          /\ \A a \in S : g[a] = step[a][g[h[a].left]][g[h[a].right]]
    <2> HIDE DEF V
    <2>1. Recursion(h, S, V, NULL, step)
      BY <1>1, TreeRecursion
    <2> QED
      BY <2>1 DEF Recursion
  <1>3. /\ S \subseteq DOMAIN h
        /\ \A a \in S : h[a].left \in S \cup {NULL} /\ h[a].right \in S \cup {NULL}
    BY TreeShape
  <1>4. ASSUME NEW q \in S
        PROVE  g[q] = IF h[q].left # NULL THEN g[h[q].left] ELSE q
    <2>1. g[h[q].left] \in V /\ g[h[q].right] \in V /\ q \in DOMAIN h
      BY <1>2, <1>3
    <2> QED
      BY <1>2, <1>s, <2>1
  <1> DEFINE f == [q \in S |-> g[q]]
  <1>5. FindsMin(h, S, f)
    BY <1>3, <1>4 DEF FindsMin
  <1>6. find_min(h, p) = (CHOOSE x : FindsMin(h, S, x))[p]
    <2>1. find_min(h, p) = (CHOOSE x : FindsMin(h, Below(h, p), x))[p]
      BY Zenon DEF find_min, FindsMin
    <2> QED
      BY <2>1, BelowIsTree
  <1>7. FindsMin(h, S, CHOOSE x : FindsMin(h, S, x))
    <2> HIDE DEF f
    <2> QED
      BY <1>5, Zenon
  <1> QED
    BY <1>6, <1>7

RemovesMin(h, S, f) ==
  f = [q \in S |-> IF h[q].left = NULL THEN [h |-> h, p |-> h[q].right]
                   ELSE set_left(q, f[h[q].left])]

LEMMA RemoveMinUnfolds ==
  ASSUME NEW h, IsHeap(h), NEW p, NEW S, Tree(h, p, S)
  PROVE  \E f : RemovesMin(h, S, f) /\ remove_min(h, p) = f[p]
  <1> DEFINE step == [a \in DOMAIN h |-> [x \in Results |-> [y \in Results |->
                        IF h[a].left = NULL THEN [h |-> h, p |-> h[a].right]
                        ELSE set_left(a, x)]]]
  <1> DEFINE base == [h |-> h, p |-> NULL]
  <1>1. base \in Results
    BY HeapsAre DEF Results, Pointer
  <1>2. \A a \in DOMAIN h, x \in Results :
          set_left(a, x) \in Results /\ [h |-> h, p |-> h[a].right] \in Results
    <2>1. ASSUME NEW a \in DOMAIN h PROVE [h |-> h, p |-> h[a].right] \in Results
      BY HeapsAre, HeapNode DEF Results
    <2> QED
      BY <2>1, HeapNode, SetLeftIs
  <1>3. step \in [DOMAIN h -> [Results -> [Results -> Results]]]
    BY <1>2
  <1>s. \A a \in DOMAIN h, x \in Results, y \in Results :
          step[a][x][y] = IF h[a].left = NULL THEN [h |-> h, p |-> h[a].right]
                          ELSE set_left(a, x)
    OBVIOUS
  <1> HIDE DEF step, base
  <1>4. Recursion(h, S, Results, base, step)
    BY <1>1, <1>3, TreeRecursion
  <1>5. PICK g \in [S \cup {NULL} -> Results] :
          /\ g[NULL] = base
          /\ \A a \in S : g[a] = step[a][g[h[a].left]][g[h[a].right]]
    BY <1>4 DEF Recursion
  <1>6. /\ S \subseteq DOMAIN h
        /\ \A a \in S : h[a].left \in S \cup {NULL} /\ h[a].right \in S \cup {NULL}
    BY TreeShape
  <1>7. ASSUME NEW q \in S
        PROVE  g[q] = IF h[q].left = NULL THEN [h |-> h, p |-> h[q].right]
                      ELSE set_left(q, g[h[q].left])
    <2>1. g[h[q].left] \in Results /\ g[h[q].right] \in Results /\ q \in DOMAIN h
      BY <1>5, <1>6
    <2>2. g[q] = step[q][g[h[q].left]][g[h[q].right]]
      BY <1>5
    <2>3. ASSUME NEW x \in Results, NEW y \in Results
          PROVE  step[q][x][y] = IF h[q].left = NULL THEN [h |-> h, p |-> h[q].right]
                                 ELSE set_left(q, x)
      BY <1>s, <2>1, Zenon
    <2> QED
      BY <2>1, <2>2, <2>3, Zenon
  <1> DEFINE f == [q \in S |-> g[q]]
  <1>8. RemovesMin(h, S, f)
    <2>1. \A q \in S :
            f[q] = IF h[q].left = NULL THEN [h |-> h, p |-> h[q].right]
                   ELSE set_left(q, f[h[q].left])
      <3>1. \A q \in S : f[q] = g[q]
        OBVIOUS
      <3>2. ASSUME NEW q \in S, h[q].left = NULL PROVE f[q] = [h |-> h, p |-> h[q].right]
        BY <1>7, <3>1, <3>2, Zenon
      <3>3. ASSUME NEW q \in S, h[q].left # NULL PROVE f[q] = set_left(q, f[h[q].left])
        <4>1. f[q] = set_left(q, g[h[q].left]) /\ h[q].left \in S
          BY <1>6, <1>7, <3>1, <3>3, Zenon
        <4> HIDE DEF f
        <4> QED
          BY <3>1, <4>1, Zenon
      <3> HIDE DEF f
      <3> QED
        BY <3>2, <3>3, Zenon
    <2>2. f = [q \in S |-> f[q]]
      OBVIOUS
    <2> HIDE DEF f
    <2> QED
      BY <2>1, <2>2, Zenon DEF RemovesMin
  <1>9. remove_min(h, p) = (CHOOSE x : RemovesMin(h, S, x))[p]
    <2>1. remove_min(h, p) = (CHOOSE x : RemovesMin(h, Below(h, p), x))[p]
      BY Zenon DEF remove_min, RemovesMin
    <2> QED
      BY <2>1, BelowIsTree
  <1>10. RemovesMin(h, S, CHOOSE x : RemovesMin(h, S, x))
    <2> HIDE DEF f
    <2> QED
      BY <1>8, Zenon
  <1> QED
    BY <1>9, <1>10

\* m is the least node of the tree with the nodes S, and r that tree without it.
MinRemoved(h, S, m, r) ==
  /\ m \in S
  /\ \A a \in S \ {m} : h[m].key < h[a].key
  /\ r \in Results
  /\ DOMAIN r.h = DOMAIN h
  /\ \A a \in DOMAIN h \ S : r.h[a] = h[a]
  /\ \A a \in DOMAIN h : r.h[a].key = h[a].key /\ r.h[a].inumber = h[a].inumber
  /\ Tree(r.h, r.p, S \ {m})

LEMMA MinRemovedLeft ==
  ASSUME NEW h, IsHeap(h), NEW q, NEW L, NEW R, Joins(h, q, L, R),
         Tree(h, h[q].right, R), NEW m, NEW r, MinRemoved(h, L, m, r)
  PROVE  MinRemoved(h, {q} \cup L \cup R, m, set_left(q, r))
  <1> DEFINE e == set_left(q, r)
  <1> DEFINE U == {q} \cup L \cup R
  <1>1. /\ q \in DOMAIN h /\ L \subseteq DOMAIN h /\ R \subseteq DOMAIN h
        /\ q \notin L /\ q \notin R /\ L \cap R = {}
        /\ \A a \in L : h[a].key < h[q].key
        /\ \A a \in R : h[q].key < h[a].key
    BY DEF Joins
  <1>2. /\ r \in Results /\ DOMAIN r.h = DOMAIN h
        /\ \A a \in DOMAIN h \ L : r.h[a] = h[a]
        /\ \A a \in DOMAIN h : r.h[a].key = h[a].key /\ r.h[a].inumber = h[a].inumber
        /\ m \in L /\ Tree(r.h, r.p, L \ {m})
        /\ \A a \in L \ {m} : h[m].key < h[a].key
    BY DEF MinRemoved
  <1>3. q \in Address /\ \A a \in DOMAIN h : h[a].key \in Int
    BY <1>1, HeapNode
  <1>4. /\ e \in Results /\ e.p = q
        /\ DOMAIN e.h = DOMAIN r.h
        /\ \A a \in DOMAIN r.h \ {q} : e.h[a] = r.h[a]
        /\ e.h[q].key = r.h[q].key /\ e.h[q].inumber = r.h[q].inumber
    BY <1>1, <1>2, <1>3, SetLeftIs
  <1>5. Tree(e.h, q, {q} \cup (L \ {m}) \cup R)
    <2>1. (L \ {m}) \cap ({q} \cup R) = {}
      BY <1>1
    <2>2. \A a \in {q} \cup R : a \in DOMAIN r.h /\ r.h[a] = h[a]
      BY <1>1, <1>2
    <2>3. \A a \in L \ {m} : r.h[a].key < h[q].key
      BY <1>1, <1>2
    <2> QED
      BY <1>2, <2>1, <2>2, <2>3, JoinLeft
  <1>6. {q} \cup (L \ {m}) \cup R = U \ {m}
    BY <1>1, <1>2
  <1>7. \A a \in U \ {m} : h[m].key < h[a].key
    <2>1. m \in DOMAIN h /\ h[m].key < h[q].key
      BY <1>1, <1>2
    <2>2. \A a \in R : h[m].key < h[a].key
      BY <1>1, <1>3, <2>1
    <2> QED
      BY <1>2, <2>1, <2>2
  <1> HIDE DEF e
  <1>8. \A a \in DOMAIN h \ U : e.h[a] = h[a]
    BY <1>2, <1>4
  <1>9. \A a \in DOMAIN h : e.h[a].key = h[a].key /\ e.h[a].inumber = h[a].inumber
    BY <1>1, <1>2, <1>4
  <1> QED
    BY <1>2, <1>4, <1>5, <1>6, <1>7, <1>8, <1>9 DEF MinRemoved, e

LEMMA MinRemovedHere ==
  ASSUME NEW h, IsHeap(h), NEW q, NEW R, Joins(h, q, {}, R),
         Tree(h, h[q].right, R)
  PROVE  MinRemoved(h, {q} \cup {} \cup R, q, [h |-> h, p |-> h[q].right])
  <1> DEFINE e == [h |-> h, p |-> h[q].right]
  <1>1. /\ q \in DOMAIN h /\ q \notin R
        /\ \A a \in R : h[q].key < h[a].key
    BY DEF Joins
  <1>2. e \in Results
    BY <1>1, HeapsAre, HeapNode DEF Results
  <1>3. ({q} \cup {} \cup R) \ {q} = R
    BY <1>1
  <1> QED
    BY <1>1, <1>2, <1>3 DEF MinRemoved

\* find_min and remove_min agree on the least node of a tree.
LEMMA MinIsRemoved ==
  ASSUME NEW h, IsHeap(h), NEW p, NEW S, Tree(h, p, S), p # NULL
  PROVE  MinRemoved(h, S, find_min(h, p), remove_min(h, p))
  <1>1. PICK f : FindsMin(h, S, f) /\ find_min(h, p) = f[p]
    BY FindMinUnfolds
  <1>2. PICK g : RemovesMin(h, S, g) /\ remove_min(h, p) = g[p]
    BY RemoveMinUnfolds
  <1> DEFINE Q(q, U) == U \subseteq S /\ q # NULL => MinRemoved(h, U, f[q], g[q])
  <1> DEFINE T == {t \in Pairs(h) : Q(t[1], t[2])}
  <1>3. <<NULL, {}>> \in T
    BY DEF Pairs
  <1>4. ASSUME NEW q, NEW L, NEW R, Joins(h, q, L, R),
               Tree(h, h[q].left, L), Tree(h, h[q].right, R),
               <<h[q].left, L>> \in T, <<h[q].right, R>> \in T
        PROVE  <<q, {q} \cup L \cup R>> \in T
    <2>1. Q(h[q].left, L)
      BY <1>4
    <2>2. ASSUME {q} \cup L \cup R \subseteq S
          PROVE  MinRemoved(h, {q} \cup L \cup R, f[q], g[q])
      <3>1. /\ f[q] = IF h[q].left # NULL THEN f[h[q].left] ELSE q
            /\ g[q] = IF h[q].left = NULL THEN [h |-> h, p |-> h[q].right]
                      ELSE set_left(q, g[h[q].left])
        <4>1. q \in S
          BY <2>2
        <4>2. f[q] = IF h[q].left # NULL THEN f[h[q].left] ELSE q
          BY <1>1, <4>1, Zenon DEF FindsMin
        <4>3. g[q] = IF h[q].left = NULL THEN [h |-> h, p |-> h[q].right]
                     ELSE set_left(q, g[h[q].left])
          BY <1>2, <4>1, Zenon DEF RemovesMin
        <4> QED
          BY <4>2, <4>3
      <3>2. CASE h[q].left = NULL
        <4>1. L = {}
          BY <1>4, <3>2, TreeShape
        <4>2. f[q] = q /\ g[q] = [h |-> h, p |-> h[q].right]
          BY <3>1, <3>2
        <4> QED
          BY <1>4, <4>1, <4>2, MinRemovedHere
      <3>3. CASE h[q].left # NULL
        <4>1. MinRemoved(h, L, f[h[q].left], g[h[q].left])
          BY <2>1, <2>2, <3>3
        <4>2. f[q] = f[h[q].left] /\ g[q] = set_left(q, g[h[q].left])
          BY <3>1, <3>3
        <4> QED
          BY <1>4, <4>1, <4>2, MinRemovedLeft
      <3> QED
        BY <3>2, <3>3
    <2>3. <<q, {q} \cup L \cup R>> \in Pairs(h)
      BY <1>4, TreeJoin DEF Tree
    <2> QED
      BY <2>2, <2>3
  <1>5. <<p, S>> \in T
    <2> HIDE DEF T
    <2> QED
      BY <1>3, <1>4, TreeInduction
  <1> QED
    BY <1>1, <1>2, <1>5

-----------------------------------------------------------------------------
(* remove_item *)

\* r is what removing key from the tree with the nodes S yields: a tree of the
\* nodes that have other keys, and nothing else has changed or been freed.
Removed(h, S, r, key) ==
  /\ r \in Results
  /\ DOMAIN r.h \subseteq DOMAIN h
  /\ \A a \in DOMAIN h \ S : a \in DOMAIN r.h /\ r.h[a] = h[a]
  /\ \A a \in S : a \in DOMAIN r.h <=> h[a].key # key
  /\ \A a \in DOMAIN r.h : r.h[a].key = h[a].key /\ r.h[a].inumber = h[a].inumber
  /\ Tree(r.h, r.p, S \cap DOMAIN r.h)

LEMMA FreeIs ==
  ASSUME NEW h, IsHeap(h), NEW q
  PROVE  /\ IsHeap(free(h, q))
         /\ DOMAIN free(h, q) = DOMAIN h \ {q}
         /\ \A a \in DOMAIN h \ {q} : free(h, q)[a] = h[a]
  BY DEF free, IsHeap

LEMMA TwoFields ==
  ASSUME NEW s \in Results, NEW m, NEW l
  PROVE  [h |-> [s.h EXCEPT ![m].right = s.p, ![m].left = l], p |-> m]
           = set_left(m, [h |-> set_right(m, s).h, p |-> l])
  BY DEF set_left, set_right

LEMMA UnlinkAlone ==
  ASSUME NEW h, IsHeap(h), NEW q, NEW L, NEW R, Joins(h, q, L, R),
         Tree(h, h[q].left, L), Tree(h, h[q].right, R), h[q].right = NULL
  PROVE  Removed(h, {q} \cup L \cup R, unlink(h, q), h[q].key)
  <1> DEFINE e == [h |-> free(h, q), p |-> h[q].left]
  <1>1. unlink(h, q) = e
    BY DEF unlink
  <1>2. R = {}
    BY TreeShape
  <1>3. /\ q \in DOMAIN h /\ L \subseteq DOMAIN h /\ q \notin L
        /\ \A a \in L : h[a].key < h[q].key
    BY DEF Joins
  <1>4. /\ IsHeap(e.h) /\ DOMAIN e.h = DOMAIN h \ {q}
        /\ \A a \in DOMAIN h \ {q} : e.h[a] = h[a]
    BY FreeIs
  <1>5. e \in Results
    BY <1>3, FreeIs, HeapsAre, HeapNode DEF Results
  <1>6. e.p = h[q].left
    OBVIOUS
  <1> HIDE DEF e
  <1>7. Tree(e.h, e.p, L)
    BY <1>3, <1>4, <1>6, TreeFrame
  <1>8. ({q} \cup L \cup R) \cap DOMAIN e.h = L
    BY <1>2, <1>3, <1>4
  <1>9. \A a \in L : h[a].key # h[q].key
    BY <1>3, HeapNode
  <1> QED
    BY <1>1, <1>2, <1>3, <1>4, <1>5, <1>7, <1>8, <1>9 DEF Removed

LEMMA UnlinkBoth ==
  ASSUME NEW h, IsHeap(h), NEW q, NEW L, NEW R, Joins(h, q, L, R),
         Tree(h, h[q].left, L), Tree(h, h[q].right, R), h[q].right # NULL
  PROVE  Removed(h, {q} \cup L \cup R, unlink(h, q), h[q].key)
  <1> DEFINE g == free(h, q)
             l == h[q].left
             m == find_min(g, h[q].right)
             s == remove_min(g, h[q].right)
             e == [h |-> [s.h EXCEPT ![m].right = s.p, ![m].left = l], p |-> m]
             U == {q} \cup L \cup R
  <1>1. unlink(h, q) = e
    BY DEF unlink
  <1>2. /\ q \in DOMAIN h /\ L \subseteq DOMAIN h /\ R \subseteq DOMAIN h
        /\ q \notin L /\ q \notin R /\ L \cap R = {}
        /\ \A a \in L : h[a].key < h[q].key
        /\ \A a \in R : h[q].key < h[a].key
    BY DEF Joins
  <1>3. /\ IsHeap(g) /\ DOMAIN g = DOMAIN h \ {q}
        /\ \A a \in DOMAIN h \ {q} : g[a] = h[a]
    BY FreeIs
  <1>4. l \in Pointer /\ \A a \in DOMAIN h : h[a].key \in Int
    BY <1>2, HeapNode
  <1> HIDE DEF g
  <1>5. Tree(g, h[q].right, R)
    BY <1>2, <1>3, TreeFrame
  <1>6. MinRemoved(g, R, m, s)
    BY <1>3, <1>5, MinIsRemoved
  <1> HIDE DEF m, s
  <1>7. /\ s \in Results /\ m \in R
        /\ DOMAIN s.h = DOMAIN h \ {q}
        /\ \A a \in DOMAIN h \ ({q} \cup R) : s.h[a] = h[a]
        /\ \A a \in DOMAIN h \ {q} : s.h[a].key = h[a].key /\ s.h[a].inumber = h[a].inumber
        /\ Tree(s.h, s.p, R \ {m})
        /\ \A a \in R \ {m} : h[m].key < h[a].key
    BY <1>2, <1>3, <1>6 DEF MinRemoved
  <1>8. m \in Address /\ m \in DOMAIN s.h
    BY <1>2, <1>7, HeapNode
  <1> DEFINE t == set_right(m, s)
             u == [h |-> t.h, p |-> l]
  <1>9. /\ t \in Results
        /\ DOMAIN t.h = DOMAIN s.h
        /\ \A a \in DOMAIN s.h \ {m} : t.h[a] = s.h[a]
        /\ t.h[m].key = s.h[m].key /\ t.h[m].inumber = s.h[m].inumber
        /\ t.h[m].right = s.p
    BY <1>7, <1>8, SetRightIs
  <1> HIDE DEF t
  <1>10. u \in Results /\ u.h = t.h /\ u.p = l
    BY <1>4, <1>9 DEF Results
  <1>11. e = set_left(m, u)
    BY <1>7, TwoFields DEF t
  <1> HIDE DEF u, e
  <1>12. /\ e \in Results /\ e.p = m
         /\ DOMAIN e.h = DOMAIN t.h
         /\ \A a \in DOMAIN t.h \ {m} : e.h[a] = t.h[a]
         /\ e.h[m].key = t.h[m].key /\ e.h[m].inumber = t.h[m].inumber
         /\ e.h[m].left = l /\ e.h[m].right = t.h[m].right
    BY <1>8, <1>9, <1>10, <1>11, SetLeftIs
  <1>13. /\ DOMAIN e.h = DOMAIN h \ {q}
         /\ \A a \in DOMAIN h \ {q, m} : e.h[a] = s.h[a]
         /\ \A a \in DOMAIN h \ {q} : e.h[a].key = h[a].key /\ e.h[a].inumber = h[a].inumber
         /\ e.h[m].right = s.p
    BY <1>7, <1>8, <1>9, <1>12
  <1>14. Tree(e.h, l, L)
    <2>1. L \subseteq DOMAIN e.h /\ \A a \in L : e.h[a] = h[a]
      BY <1>2, <1>7, <1>13
    <2> QED
      BY <2>1, TreeFrame
  <1>15. Tree(e.h, s.p, R \ {m})
    <2>1. R \ {m} \subseteq DOMAIN e.h /\ \A a \in R \ {m} : e.h[a] = s.h[a]
      BY <1>2, <1>13
    <2> QED
      BY <1>7, <2>1, TreeFrame
  <1>16. Joins(e.h, m, L, R \ {m})
    <2>1. /\ m \in DOMAIN e.h /\ L \in SUBSET DOMAIN e.h /\ R \ {m} \in SUBSET DOMAIN e.h
          /\ m \notin L /\ L \cap (R \ {m}) = {}
      BY <1>2, <1>7, <1>13
    <2>2. \A a \in L : e.h[a].key < e.h[m].key
      <3>1. ASSUME NEW a \in L PROVE h[a].key < h[m].key
        <4>1. /\ h[a].key < h[q].key /\ h[q].key < h[m].key
              /\ h[a].key \in Int /\ h[q].key \in Int /\ h[m].key \in Int
          BY <1>2, <1>4, <1>7
        <4> QED
          BY <4>1
      <3> QED
        BY <1>2, <1>7, <1>13, <3>1
    <2>3. \A a \in R \ {m} : e.h[m].key < e.h[a].key
      BY <1>2, <1>7, <1>13
    <2> QED
      BY <2>1, <2>2, <2>3 DEF Joins
  <1>17. Tree(e.h, e.p, {m} \cup L \cup (R \ {m}))
    BY <1>12, <1>13, <1>14, <1>15, <1>16, TreeJoin
  <1>18. {m} \cup L \cup (R \ {m}) = U \cap DOMAIN e.h
    BY <1>2, <1>7, <1>13
  <1>19. \A a \in L \cup R : h[a].key # h[q].key
    <2>1. \A a \in L \cup R : h[a].key \in Int /\ h[q].key \in Int
      BY <1>2, <1>4
    <2> QED
      BY <1>2, <2>1
  <1>20. \A a \in U : a \in DOMAIN e.h <=> h[a].key # h[q].key
    BY <1>2, <1>13, <1>19
  <1>21. \A a \in DOMAIN h \ U : a \in DOMAIN e.h /\ e.h[a] = h[a]
    BY <1>7, <1>13
  <1> QED
    BY <1>1, <1>12, <1>13, <1>17, <1>18, <1>20, <1>21 DEF Removed

LEMMA RemovedLeft ==
  ASSUME NEW h, IsHeap(h), NEW q, NEW L, NEW R, Joins(h, q, L, R),
         Tree(h, h[q].right, R), NEW key \in Key,
         key < h[q].key, NEW r, Removed(h, L, r, key)
  PROVE  Removed(h, {q} \cup L \cup R, set_left(q, r), key)
  <1> DEFINE e == set_left(q, r)
  <1> DEFINE N == L \cap DOMAIN r.h
  <1> DEFINE U == {q} \cup L \cup R
  <1>1. /\ q \in DOMAIN h /\ L \subseteq DOMAIN h /\ R \subseteq DOMAIN h
        /\ q \notin L /\ q \notin R /\ L \cap R = {}
        /\ \A a \in L : h[a].key < h[q].key
        /\ \A a \in R : h[q].key < h[a].key
    BY DEF Joins
  <1>2. /\ r \in Results /\ DOMAIN r.h \subseteq DOMAIN h
        /\ \A a \in DOMAIN h \ L : a \in DOMAIN r.h /\ r.h[a] = h[a]
        /\ \A a \in L : a \in DOMAIN r.h <=> h[a].key # key
        /\ \A a \in DOMAIN r.h : r.h[a].key = h[a].key /\ r.h[a].inumber = h[a].inumber
        /\ Tree(r.h, r.p, N)
    BY DEF Removed
  <1>3. q \in Address /\ key \in Int /\ \A a \in DOMAIN h : h[a].key \in Int
    BY <1>1, HeapNode, BstAssumption
  <1>4. /\ e \in Results /\ e.p = q
        /\ DOMAIN e.h = DOMAIN r.h
        /\ \A a \in DOMAIN r.h \ {q} : e.h[a] = r.h[a]
        /\ e.h[q].key = r.h[q].key /\ e.h[q].inumber = r.h[q].inumber
    BY <1>1, <1>2, <1>3, SetLeftIs
  <1>5. Tree(e.h, q, {q} \cup N \cup R)
    <2>1. N \cap ({q} \cup R) = {}
      BY <1>1
    <2>2. \A a \in {q} \cup R : a \in DOMAIN r.h /\ r.h[a] = h[a]
      BY <1>1, <1>2
    <2>3. \A a \in N : r.h[a].key < h[q].key
      BY <1>1, <1>2
    <2> HIDE DEF N
    <2> QED
      BY <1>2, <2>1, <2>2, <2>3, JoinLeft
  <1> HIDE DEF e
  <1>6. {q} \cup N \cup R = U \cap DOMAIN e.h
    BY <1>1, <1>2, <1>4
  <1>7. \A a \in {q} \cup R : h[a].key # key
    BY <1>1, <1>3
  <1>8. \A a \in U : a \in DOMAIN e.h <=> h[a].key # key
    BY <1>1, <1>2, <1>4, <1>7
  <1>9. \A a \in DOMAIN h \ U : a \in DOMAIN e.h /\ e.h[a] = h[a]
    BY <1>2, <1>4
  <1>10. \A a \in DOMAIN e.h : e.h[a].key = h[a].key /\ e.h[a].inumber = h[a].inumber
    BY <1>1, <1>2, <1>4
  <1> QED
    BY <1>2, <1>4, <1>5, <1>6, <1>8, <1>9, <1>10 DEF Removed, e

LEMMA RemovedRight ==
  ASSUME NEW h, IsHeap(h), NEW q, NEW L, NEW R, Joins(h, q, L, R),
         Tree(h, h[q].left, L), NEW key \in Key,
         h[q].key < key, NEW r, Removed(h, R, r, key)
  PROVE  Removed(h, {q} \cup L \cup R, set_right(q, r), key)
  <1> DEFINE e == set_right(q, r)
  <1> DEFINE N == R \cap DOMAIN r.h
  <1> DEFINE U == {q} \cup L \cup R
  <1>1. /\ q \in DOMAIN h /\ L \subseteq DOMAIN h /\ R \subseteq DOMAIN h
        /\ q \notin L /\ q \notin R /\ L \cap R = {}
        /\ \A a \in L : h[a].key < h[q].key
        /\ \A a \in R : h[q].key < h[a].key
    BY DEF Joins
  <1>2. /\ r \in Results /\ DOMAIN r.h \subseteq DOMAIN h
        /\ \A a \in DOMAIN h \ R : a \in DOMAIN r.h /\ r.h[a] = h[a]
        /\ \A a \in R : a \in DOMAIN r.h <=> h[a].key # key
        /\ \A a \in DOMAIN r.h : r.h[a].key = h[a].key /\ r.h[a].inumber = h[a].inumber
        /\ Tree(r.h, r.p, N)
    BY DEF Removed
  <1>3. q \in Address /\ key \in Int /\ \A a \in DOMAIN h : h[a].key \in Int
    BY <1>1, HeapNode, BstAssumption
  <1>4. /\ e \in Results /\ e.p = q
        /\ DOMAIN e.h = DOMAIN r.h
        /\ \A a \in DOMAIN r.h \ {q} : e.h[a] = r.h[a]
        /\ e.h[q].key = r.h[q].key /\ e.h[q].inumber = r.h[q].inumber
    BY <1>1, <1>2, <1>3, SetRightIs
  <1>5. Tree(e.h, q, {q} \cup L \cup N)
    <2>1. N \cap ({q} \cup L) = {}
      BY <1>1
    <2>2. \A a \in {q} \cup L : a \in DOMAIN r.h /\ r.h[a] = h[a]
      BY <1>1, <1>2
    <2>3. \A a \in N : h[q].key < r.h[a].key
      BY <1>1, <1>2
    <2> HIDE DEF N
    <2> QED
      BY <1>2, <2>1, <2>2, <2>3, JoinRight
  <1> HIDE DEF e
  <1>6. {q} \cup L \cup N = U \cap DOMAIN e.h
    BY <1>1, <1>2, <1>4
  <1>7. \A a \in {q} \cup L : h[a].key # key
    BY <1>1, <1>3
  <1>8. \A a \in U : a \in DOMAIN e.h <=> h[a].key # key
    BY <1>1, <1>2, <1>4, <1>7
  <1>9. \A a \in DOMAIN h \ U : a \in DOMAIN e.h /\ e.h[a] = h[a]
    BY <1>2, <1>4
  <1>10. \A a \in DOMAIN e.h : e.h[a].key = h[a].key /\ e.h[a].inumber = h[a].inumber
    BY <1>1, <1>2, <1>4
  <1> QED
    BY <1>2, <1>4, <1>5, <1>6, <1>8, <1>9, <1>10 DEF Removed, e

Removes(h, key, f) ==
  f = [q \in DOMAIN h \cup {NULL} |->
         IF q = NULL THEN [h |-> h, p |-> NULL]
         ELSE IF key < h[q].key THEN set_left(q, f[h[q].left])
         ELSE IF key > h[q].key THEN set_right(q, f[h[q].right])
         ELSE unlink(h, q)]

\* unlink yields an outcome of remove_item at any node of a tree.
LEMMA UnlinkIs ==
  ASSUME NEW h, IsHeap(h), NEW q, NEW L, NEW R, Joins(h, q, L, R),
         Tree(h, h[q].left, L), Tree(h, h[q].right, R)
  PROVE  Removed(h, {q} \cup L \cup R, unlink(h, q), h[q].key)
  BY UnlinkAlone, UnlinkBoth

LEMMA UnlinkTypes ==
  ASSUME NEW h, IsHeap(h), NEW p, NEW S, Tree(h, p, S)
  PROVE  \A a \in S : unlink(h, a) \in Results
  <1> DEFINE T == {t \in Pairs(h) : \A a \in t[2] : unlink(h, a) \in Results}
  <1>1. <<NULL, {}>> \in T
    BY DEF Pairs
  <1>2. ASSUME NEW q, NEW L, NEW R, Joins(h, q, L, R),
               Tree(h, h[q].left, L), Tree(h, h[q].right, R),
               <<h[q].left, L>> \in T, <<h[q].right, R>> \in T
        PROVE  <<q, {q} \cup L \cup R>> \in T
    <2>1. unlink(h, q) \in Results
      BY <1>2, UnlinkIs DEF Removed
    <2>2. <<q, {q} \cup L \cup R>> \in Pairs(h)
      BY <1>2, TreeJoin DEF Tree
    <2>3. /\ \A a \in L : unlink(h, a) \in Results
          /\ \A a \in R : unlink(h, a) \in Results
      BY <1>2
    <2> QED
      BY <2>1, <2>2, <2>3
  <1>3. <<p, S>> \in T
    <2> HIDE DEF T
    <2> QED
      BY <1>1, <1>2, TreeInduction
  <1> QED
    BY <1>3

LEMMA RemoveUnfolds ==
  ASSUME NEW h, IsHeap(h), NEW p, Tree(h, p, DOMAIN h), NEW key \in Key
  PROVE  \E f : Removes(h, key, f) /\ remove_item(h, p, key) = f[p]
  <1> DEFINE step == [a \in DOMAIN h |-> [x \in Results |-> [y \in Results |->
                        IF key < h[a].key THEN set_left(a, x)
                        ELSE IF key > h[a].key THEN set_right(a, y)
                        ELSE unlink(h, a)]]]
  <1> DEFINE base == [h |-> h, p |-> NULL]
  <1>1. base \in Results
    BY HeapsAre DEF Results, Pointer
  <1>2. \A a \in DOMAIN h, x \in Results, y \in Results :
          /\ set_left(a, x) \in Results
          /\ set_right(a, y) \in Results
          /\ unlink(h, a) \in Results
    BY HeapNode, SetLeftIs, SetRightIs, UnlinkTypes
  <1>3. step \in [DOMAIN h -> [Results -> [Results -> Results]]]
    BY <1>2
  <1>s. \A a \in DOMAIN h, x \in Results, y \in Results :
          step[a][x][y] = IF key < h[a].key THEN set_left(a, x)
                          ELSE IF key > h[a].key THEN set_right(a, y)
                          ELSE unlink(h, a)
    OBVIOUS
  <1> HIDE DEF step, base
  <1>4. Recursion(h, DOMAIN h, Results, base, step)
    BY <1>1, <1>3, TreeRecursion
  <1>5. PICK g \in [DOMAIN h \cup {NULL} -> Results] :
          /\ g[NULL] = base
          /\ \A a \in DOMAIN h : g[a] = step[a][g[h[a].left]][g[h[a].right]]
    BY <1>4 DEF Recursion
  <1>6. \A a \in DOMAIN h : /\ h[a].left \in DOMAIN h \cup {NULL}
                            /\ h[a].right \in DOMAIN h \cup {NULL}
    BY TreeShape
  <1>7. ASSUME NEW q \in DOMAIN h
        PROVE  g[q] = IF key < h[q].key THEN set_left(q, g[h[q].left])
                      ELSE IF key > h[q].key THEN set_right(q, g[h[q].right])
                      ELSE unlink(h, q)
    <2>1. g[h[q].left] \in Results /\ g[h[q].right] \in Results
      BY <1>5, <1>6
    <2>2. g[q] = step[q][g[h[q].left]][g[h[q].right]]
      BY <1>5
    <2>3. ASSUME NEW x \in Results, NEW y \in Results
          PROVE  step[q][x][y] = IF key < h[q].key THEN set_left(q, x)
                                 ELSE IF key > h[q].key THEN set_right(q, y)
                                 ELSE unlink(h, q)
      BY <1>s, Zenon
    <2> QED
      BY <2>1, <2>2, <2>3, Zenon
  <1>n. \A q \in DOMAIN h : q # NULL
    BY HeapNode
  <1>8. Removes(h, key, g)
    <2>1. g = [q \in DOMAIN h \cup {NULL} |-> g[q]]
      BY <1>5
    <2>2. \A q \in DOMAIN h \cup {NULL} :
            g[q] = IF q = NULL THEN [h |-> h, p |-> NULL]
                   ELSE IF key < h[q].key THEN set_left(q, g[h[q].left])
                   ELSE IF key > h[q].key THEN set_right(q, g[h[q].right])
                   ELSE unlink(h, q)
      BY <1>5, <1>7, <1>n, Zenon DEF base
    <2> QED
      BY <2>1, <2>2, Zenon DEF Removes
  <1>9. remove_item(h, p, key) = (CHOOSE f : Removes(h, key, f))[p]
    BY Zenon DEF remove_item, Removes
  <1>10. Removes(h, key, CHOOSE f : Removes(h, key, f))
    BY <1>8, Zenon
  <1> QED
    BY <1>9, <1>10

\* remove_item yields a tree without the key and with everything else.
LEMMA RemoveRemoves ==
  ASSUME NEW h, IsHeap(h), NEW p, Tree(h, p, DOMAIN h), NEW key \in Key
  PROVE  Removed(h, DOMAIN h, remove_item(h, p, key), key)
  <1>1. PICK f : Removes(h, key, f) /\ remove_item(h, p, key) = f[p]
    BY RemoveUnfolds
  <1> DEFINE T == {t \in Pairs(h) : Removed(h, t[2], f[t[1]], key)}
  <1>n. NULL \notin DOMAIN h
    BY BstAssumption DEF IsHeap
  <1>2. <<NULL, {}>> \in T
    <2> DEFINE e == [h |-> h, p |-> NULL]
    <2>1. f[NULL] = e
      BY <1>1 DEF Removes
    <2>2. e \in Results /\ e.h = h /\ e.p = NULL
      BY HeapsAre DEF Results, Pointer
    <2> HIDE DEF e
    <2>3. Removed(h, {}, e, key)
      BY <2>2, TreeEmpty DEF Removed
    <2> QED
      BY <2>1, <2>3 DEF Pairs
  <1>3. ASSUME NEW q, NEW L, NEW R, Joins(h, q, L, R),
               Tree(h, h[q].left, L), Tree(h, h[q].right, R),
               <<h[q].left, L>> \in T, <<h[q].right, R>> \in T
        PROVE  <<q, {q} \cup L \cup R>> \in T
    <2>1. Removed(h, L, f[h[q].left], key) /\ Removed(h, R, f[h[q].right], key)
      BY <1>3
    <2>2. f[q] = IF key < h[q].key THEN set_left(q, f[h[q].left])
                 ELSE IF key > h[q].key THEN set_right(q, f[h[q].right])
                 ELSE unlink(h, q)
      <3>1. q \in DOMAIN h /\ q # NULL
        BY <1>3, <1>n DEF Joins
      <3> QED
        BY <1>1, <3>1, Zenon DEF Removes
    <2>3. h[q].key \in Int /\ key \in Int
      BY <1>3, HeapNode, BstAssumption DEF Joins
    <2>4. Removed(h, {q} \cup L \cup R, f[q], key)
      <3>1. CASE key < h[q].key
        <4>1. f[q] = set_left(q, f[h[q].left])
          BY <2>2, <3>1
        <4> QED
          BY <1>3, <2>1, <3>1, <4>1, RemovedLeft
      <3>2. CASE key > h[q].key
        <4>1. f[q] = set_right(q, f[h[q].right]) /\ h[q].key < key
          BY <2>2, <2>3, <3>2
        <4> QED
          BY <1>3, <2>1, <4>1, RemovedRight
      <3>3. CASE key = h[q].key
        <4>1. f[q] = unlink(h, q)
          BY <2>2, <2>3, <3>3
        <4> QED
          BY <1>3, <3>3, <4>1, UnlinkIs
      <3> QED
        BY <2>3, <3>1, <3>2, <3>3
    <2>6. <<q, {q} \cup L \cup R>> \in Pairs(h)
      BY <1>3, TreeJoin DEF Tree
    <2> QED
      BY <2>4, <2>6
  <1>4. <<p, DOMAIN h>> \in T
    <2> HIDE DEF T
    <2> QED
      BY <1>2, <1>3, TreeInduction
  <1> QED
    BY <1>1, <1>4

-----------------------------------------------------------------------------
(* The program that inserts and removes. *)

\* The tree has a node for each name that is stored, with its i-number.
Stored ==
  \A k \in Key :
    /\ map[k] # NotFound =>
         \E a \in DOMAIN heap : heap[a].key = k /\ heap[a].inumber = map[k]
    /\ map[k] = NotFound => \A a \in DOMAIN heap : heap[a].key # k

IInv ==
  /\ IsHeap(heap)
  /\ Tree(heap, root, DOMAIN heap)
  /\ map \in [Key -> INumber \cup {NotFound}]
  /\ Stored

LEMMA InitIInv == Init => IInv
  <1> SUFFICES ASSUME Init PROVE IInv
    OBVIOUS
  <1>1. DOMAIN heap = {} /\ heap = [a \in DOMAIN heap |-> NULL] /\ root = NULL
    BY DEF Init
  <1>2. IsHeap(heap)
    BY <1>1 DEF IsHeap
  <1>3. Tree(heap, root, DOMAIN heap)
    BY <1>1, TreeEmpty
  <1>4. map \in [Key -> INumber \cup {NotFound}] /\ Stored
    BY <1>1 DEF Init, Stored
  <1> QED
    BY <1>2, <1>3, <1>4 DEF IInv

LEMMA InsertIInv ==
  ASSUME IInv, NEW key \in Key, NEW inumber \in INumber, Insert(key, inumber)
  PROVE  IInv'
  <1> DEFINE r == insert(heap, root, key, inumber)
  <1>1. heap' = r.h /\ root' = r.p /\ map' = [map EXCEPT ![key] = inumber]
    BY DEF Insert
  <1>2. Inserted(heap, DOMAIN heap, r, key, inumber)
    BY InsertStores DEF IInv
  <1> HIDE DEF r
  <1>3. /\ r \in Results
        /\ DOMAIN heap \subseteq DOMAIN r.h
        /\ Tree(r.h, r.p, With(heap, DOMAIN heap, r))
        /\ \A a \in DOMAIN heap :
             r.h[a].key = heap[a].key /\ (heap[a].key # key => r.h[a].inumber = heap[a].inumber)
        /\ \A a \in DOMAIN r.h \ DOMAIN heap : r.h[a].key = key
        /\ \A a \in With(heap, DOMAIN heap, r) : r.h[a].key = key => r.h[a].inumber = inumber
        /\ \E a \in With(heap, DOMAIN heap, r) : r.h[a].key = key
    BY <1>2 DEF Inserted
  <1>4. With(heap, DOMAIN heap, r) = DOMAIN r.h
    BY <1>3 DEF With
  <1>5. IsHeap(r.h) /\ Tree(r.h, r.p, DOMAIN r.h)
    BY <1>3, <1>4, HeapsAre DEF Results
  <1>6. IsHeap(heap') /\ Tree(heap', root', DOMAIN heap')
    BY <1>1, <1>5
  <1>7. map \in [Key -> INumber \cup {NotFound}] /\ NotFound \notin INumber
    BY BstAssumption DEF IInv
  <1>8. ASSUME NEW k \in Key
        PROVE  /\ map'[k] # NotFound =>
                    \E a \in DOMAIN r.h : r.h[a].key = k /\ r.h[a].inumber = map'[k]
               /\ map'[k] = NotFound => \A a \in DOMAIN r.h : r.h[a].key # k
    <2>1. CASE k = key
      <3>1. map'[k] = inumber
        BY <1>1, <1>7, <2>1
      <3> QED
        BY <1>3, <1>4, <1>7, <2>1, <3>1
    <2>2. CASE k # key
      <3>1. map'[k] = map[k]
        BY <1>1, <1>7, <2>2
      <3>2. /\ map[k] # NotFound =>
                 \E a \in DOMAIN heap : heap[a].key = k /\ heap[a].inumber = map[k]
            /\ map[k] = NotFound => \A a \in DOMAIN heap : heap[a].key # k
        BY DEF IInv, Stored
      <3>3. \A a \in DOMAIN r.h \ DOMAIN heap : r.h[a].key # k
        BY <1>3, <2>2
      <3>4. \A a \in DOMAIN heap : heap[a].key = k =>
              r.h[a].key = k /\ r.h[a].inumber = heap[a].inumber
        BY <1>3, <2>2
      <3>5. \A a \in DOMAIN heap : heap[a].key # k => r.h[a].key # k
        BY <1>3
      <3> QED
        BY <1>3, <3>1, <3>2, <3>3, <3>4, <3>5
    <2> QED
      BY <2>1, <2>2
  <1>9. Stored'
    BY <1>1, <1>8 DEF Stored
  <1>10. map' \in [Key -> INumber \cup {NotFound}]
    BY <1>1, <1>7
  <1> QED
    BY <1>6, <1>9, <1>10 DEF IInv

LEMMA RemoveIInv ==
  ASSUME IInv, NEW key \in Key, Remove(key)
  PROVE  IInv'
  <1> DEFINE r == remove_item(heap, root, key)
  <1>1. heap' = r.h /\ root' = r.p /\ map' = [map EXCEPT ![key] = NotFound]
    BY DEF Remove
  <1>2. Removed(heap, DOMAIN heap, r, key)
    BY RemoveRemoves DEF IInv
  <1> HIDE DEF r
  <1>3. /\ r \in Results
        /\ DOMAIN r.h \subseteq DOMAIN heap
        /\ \A a \in DOMAIN heap : a \in DOMAIN r.h <=> heap[a].key # key
        /\ \A a \in DOMAIN r.h : r.h[a].key = heap[a].key /\ r.h[a].inumber = heap[a].inumber
        /\ Tree(r.h, r.p, DOMAIN heap \cap DOMAIN r.h)
    BY <1>2 DEF Removed
  <1>4. DOMAIN heap \cap DOMAIN r.h = DOMAIN r.h
    BY <1>3
  <1>5. IsHeap(r.h) /\ Tree(r.h, r.p, DOMAIN r.h)
    BY <1>3, <1>4, HeapsAre DEF Results
  <1>6. IsHeap(heap') /\ Tree(heap', root', DOMAIN heap')
    BY <1>1, <1>5
  <1>7. map \in [Key -> INumber \cup {NotFound}]
    BY DEF IInv
  <1>8. ASSUME NEW k \in Key
        PROVE  /\ map'[k] # NotFound =>
                    \E a \in DOMAIN r.h : r.h[a].key = k /\ r.h[a].inumber = map'[k]
               /\ map'[k] = NotFound => \A a \in DOMAIN r.h : r.h[a].key # k
    <2>1. CASE k = key
      <3>1. map'[k] = NotFound
        BY <1>1, <1>7, <2>1
      <3> QED
        BY <1>3, <2>1, <3>1
    <2>2. CASE k # key
      <3>1. map'[k] = map[k]
        BY <1>1, <1>7, <2>2
      <3>2. /\ map[k] # NotFound =>
                 \E a \in DOMAIN heap : heap[a].key = k /\ heap[a].inumber = map[k]
            /\ map[k] = NotFound => \A a \in DOMAIN heap : heap[a].key # k
        BY DEF IInv, Stored
      <3> QED
        BY <1>3, <2>2, <3>1, <3>2
    <2> QED
      BY <2>1, <2>2
  <1>9. Stored'
    BY <1>1, <1>8 DEF Stored
  <1>10. map' \in [Key -> INumber \cup {NotFound}]
    BY <1>1, <1>7
  <1> QED
    BY <1>6, <1>9, <1>10 DEF IInv

LEMMA NextIInv == IInv /\ [Next]_vars => IInv'
  <1> SUFFICES ASSUME IInv, [Next]_vars PROVE IInv'
    OBVIOUS
  <1>1. ASSUME NEW key \in Key, NEW inumber \in INumber, Insert(key, inumber) PROVE IInv'
    BY <1>1, InsertIInv
  <1>2. ASSUME NEW key \in Key, Remove(key) PROVE IInv'
    BY <1>2, RemoveIInv
  <1>3. CASE UNCHANGED vars
    BY <1>3 DEF vars, IInv, Stored
  <1> QED
    BY <1>1, <1>2, <1>3 DEF Next

THEOREM Invariance == Spec => []IInv
  <1> QED
    BY InitIInv, NextIInv, PTL DEF Spec

\* Whatever is inserted and removed, nodes have their types and the pointers to
\* them are addresses or NULL.
THEOREM TypeCorrect == Spec => []TypeOK
  <1>1. IInv => TypeOK
    BY DEF IInv, IsHeap, Tree, Pairs, Pointer, TypeOK
  <1> QED
    BY <1>1, Invariance, PTL

\* search finds under every name what was stored there last, and NULL under one
\* that was removed or never stored.
THEOREM SearchCorrect == Spec => []SearchFindsMap
  <1>1. ASSUME IInv PROVE SearchFindsMap
    <2> SUFFICES ASSUME NEW k \in Key
                 PROVE  LET p == search(heap, root, k)
                        IN  map[k] = IF p = NULL THEN NotFound ELSE heap[p].inumber
      BY DEF SearchFindsMap
    <2> DEFINE p == search(heap, root, k)
    <2>1. /\ IsHeap(heap) /\ Tree(heap, root, DOMAIN heap)
          /\ map[k] # NotFound =>
               \E a \in DOMAIN heap : heap[a].key = k /\ heap[a].inumber = map[k]
          /\ map[k] = NotFound => \A a \in DOMAIN heap : heap[a].key # k
      BY <1>1 DEF IInv, Stored
    <2>2. \/ p = NULL /\ \A a \in DOMAIN heap : heap[a].key # k
          \/ p \in DOMAIN heap /\ heap[p].key = k
      BY <2>1, SearchFinds, BstAssumption
    <2>3. \A a, b \in DOMAIN heap : heap[a].key = heap[b].key => a = b
      BY <2>1, TreeKeysDiffer
    <2>4. p \in DOMAIN heap => p # NULL
      BY <2>1, HeapNode
    <2> HIDE DEF p
    <2>5. CASE p = NULL
      BY <2>1, <2>2, <2>4, <2>5 DEF p
    <2>6. CASE p # NULL
      <3>1. p \in DOMAIN heap /\ heap[p].key = k
        BY <2>2, <2>6
      <3>2. heap[p].inumber = map[k]
        BY <2>1, <2>3, <3>1
      <3> QED
        BY <2>6, <3>2 DEF p
    <2> QED
      BY <2>5, <2>6
  <1> QED
    BY <1>1, Invariance, PTL

-----------------------------------------------------------------------------
(* Every node hangs from one place. *)

\* The fields of the nodes in U that hold the pointer b.
To(h, U, b) ==
  {f \in {"left", "right"} \X U : (IF f[1] = "left" THEN h[f[2]].left ELSE h[f[2]].right) = b}

LEMMA ToParts ==
  ASSUME NEW h, NEW U, NEW W, NEW b
  PROVE  To(h, U \cup W, b) = To(h, U, b) \cup To(h, W, b)
  BY DEF To

LEMMA ToNone ==
  ASSUME NEW h, NEW U, NEW b, \A a \in U : h[a].left # b /\ h[a].right # b
  PROVE  To(h, U, b) = {}
  BY DEF To

LEMMA ToOne ==
  ASSUME NEW h, NEW q, NEW b
  PROVE  /\ h[q].left = b /\ h[q].right # b => To(h, {q}, b) = {<<"left", q>>}
         /\ h[q].left # b /\ h[q].right = b => To(h, {q}, b) = {<<"right", q>>}
  BY DEF To

LEMMA TreeOwned ==
  ASSUME NEW h, IsHeap(h), NEW p, NEW S, Tree(h, p, S)
  PROVE  \A b \in S : IF b = p THEN To(h, S, b) = {} ELSE \E f : To(h, S, b) = {f}
  <1> DEFINE Q(q, U) ==
               \A b \in U : IF b = q THEN To(h, U, b) = {} ELSE \E f : To(h, U, b) = {f}
  <1> DEFINE T == {t \in Pairs(h) : Q(t[1], t[2])}
  <1>1. <<NULL, {}>> \in T
    BY DEF Pairs
  <1>2. ASSUME NEW q, NEW L, NEW R, Joins(h, q, L, R),
               Tree(h, h[q].left, L), Tree(h, h[q].right, R),
               <<h[q].left, L>> \in T, <<h[q].right, R>> \in T
        PROVE  <<q, {q} \cup L \cup R>> \in T
    <2> DEFINE U == {q} \cup L \cup R
    <2>1. Q(h[q].left, L) /\ Q(h[q].right, R)
      BY <1>2
    <2>2. /\ q \in DOMAIN h /\ L \subseteq DOMAIN h /\ R \subseteq DOMAIN h
          /\ q \notin L /\ q \notin R /\ L \cap R = {}
      BY <1>2 DEF Joins
    <2>3. \A b \in U : b # NULL
      BY <2>2, HeapNode
    <2>4. /\ h[q].left \in L \cup {NULL} /\ h[q].right \in R \cup {NULL}
          /\ \A a \in L : h[a].left \in L \cup {NULL} /\ h[a].right \in L \cup {NULL}
          /\ \A a \in R : h[a].left \in R \cup {NULL} /\ h[a].right \in R \cup {NULL}
      BY <1>2, TreeShape
    <2>5. ASSUME NEW b
          PROVE  To(h, U, b) = To(h, {q}, b) \cup To(h, L, b) \cup To(h, R, b)
      <3>1. To(h, ({q} \cup L) \cup R, b) = To(h, {q} \cup L, b) \cup To(h, R, b)
        BY ToParts
      <3>2. To(h, {q} \cup L, b) = To(h, {q}, b) \cup To(h, L, b)
        BY ToParts
      <3> QED
        BY <3>1, <3>2
    <2>6. ASSUME NEW b \in U, b \notin L PROVE To(h, L, b) = {}
      BY <2>3, <2>4, <2>6, ToNone
    <2>7. ASSUME NEW b \in U, b \notin R PROVE To(h, R, b) = {}
      BY <2>3, <2>4, <2>7, ToNone
    <2>8. ASSUME NEW b, h[q].left # b, h[q].right # b PROVE To(h, {q}, b) = {}
      BY <2>8, ToNone
    <2>9. To(h, U, q) = {}
      BY <2>2, <2>3, <2>4, <2>5, <2>6, <2>7, <2>8
    <2>10. ASSUME NEW b \in L PROVE \E f : To(h, U, b) = {f}
      <3>1. b \notin R /\ h[q].right # b /\ To(h, R, b) = {}
        BY <2>2, <2>3, <2>4, <2>7
      <3>2. CASE b = h[q].left
        <4>1. To(h, L, b) = {} /\ To(h, {q}, b) = {<<"left", q>>}
          BY <2>1, <3>1, <3>2, ToOne
        <4> QED
          BY <2>5, <3>1, <4>1
      <3>3. CASE b # h[q].left
        <4>1. PICK f : To(h, L, b) = {f}
          BY <2>1, <3>3
        <4>2. To(h, {q}, b) = {}
          BY <2>8, <3>1, <3>3
        <4> QED
          BY <2>5, <3>1, <4>1, <4>2
      <3> QED
        BY <3>2, <3>3
    <2>11. ASSUME NEW b \in R PROVE \E f : To(h, U, b) = {f}
      <3>1. b \notin L /\ h[q].left # b /\ To(h, L, b) = {}
        BY <2>2, <2>3, <2>4, <2>6
      <3>2. CASE b = h[q].right
        <4>1. To(h, R, b) = {} /\ To(h, {q}, b) = {<<"right", q>>}
          BY <2>1, <3>1, <3>2, ToOne
        <4> QED
          BY <2>5, <3>1, <4>1
      <3>3. CASE b # h[q].right
        <4>1. PICK f : To(h, R, b) = {f}
          BY <2>1, <3>3
        <4>2. To(h, {q}, b) = {}
          BY <2>8, <3>1, <3>3
        <4> QED
          BY <2>5, <3>1, <4>1, <4>2
      <3> QED
        BY <3>2, <3>3
    <2>12. Q(q, U)
      BY <2>2, <2>9, <2>10, <2>11
    <2>13. <<q, U>> \in Pairs(h)
      BY <1>2, TreeJoin DEF Tree
    <2> HIDE DEF Q, U
    <2>14. <<q, U>> \in T
      BY <2>12, <2>13
    <2> QED
      BY <2>14 DEF U
  <1>3. <<p, S>> \in T
    <2> HIDE DEF T
    <2> QED
      BY <1>1, <1>2, TreeInduction
  <1> QED
    BY <1>3

\* No pointer is left to a node that was freed, no node is lost and none hangs
\* from two places, though remove_item frees a node before it has put its
\* subtrees together.
THEOREM OwnedCorrect == Spec => []NodesAreOwned
  <1>1. ASSUME IInv PROVE NodesAreOwned
    <2>1. IsHeap(heap) /\ Tree(heap, root, DOMAIN heap)
      BY <1>1 DEF IInv
    <2>2. root # NULL => root \in DOMAIN heap
      BY <2>1 DEF Tree, Pairs
    <2>3. \A a \in DOMAIN heap : Children(heap, a) \subseteq DOMAIN heap \cup {NULL}
      BY <2>1, TreeShape DEF Children
    <2>4. \A b : PointersTo(b) = To(heap, DOMAIN heap, b)
      BY DEF PointersTo, To
    <2>5. \A b \in DOMAIN heap : IF b = root THEN To(heap, DOMAIN heap, b) = {}
                                ELSE \E f : To(heap, DOMAIN heap, b) = {f}
      <3> DEFINE S == DOMAIN heap
      <3>1. IsHeap(heap) /\ Tree(heap, root, S)
        BY <2>1
      <3> HIDE DEF S
      <3>2. \A b \in S : IF b = root THEN To(heap, S, b) = {} ELSE \E f : To(heap, S, b) = {f}
        BY <3>1, TreeOwned
      <3> QED
        BY <3>2 DEF S
    <2>6. ASSUME NEW a \in DOMAIN heap
          PROVE  Cardinality(PointersTo(a)) = IF a = root THEN 0 ELSE 1
      <3>1. IF a = root THEN To(heap, DOMAIN heap, a) = {}
            ELSE \E f : To(heap, DOMAIN heap, a) = {f}
        BY <2>5
      <3>2. PointersTo(a) = To(heap, DOMAIN heap, a)
        BY <2>4
      <3>3. Cardinality({}) = 0 /\ \A f : Cardinality({f}) = 1
        BY FS_EmptySet, FS_Singleton
      <3> QED
        BY <3>1, <3>2, <3>3
    <2> QED
      BY <2>2, <2>3, <2>6 DEF NodesAreOwned
  <1> QED
    BY <1>1, Invariance, PTL

-----------------------------------------------------------------------------
(* print_tree and free_tree *)

Elements(s) == {s[i] : i \in DOMAIN s}
Ascends(s) == \A i, j \in DOMAIN s : i < j => s[i] < s[j]
NoneTwice(s) == \A i, j \in DOMAIN s : s[i] = s[j] => i = j

LEMMA OneElement ==
  ASSUME NEW x
  PROVE  Elements(<<x>>) = {x} /\ Ascends(<<x>>) /\ NoneTwice(<<x>>)
  BY DEF Elements, Ascends, NoneTwice

LEMMA ElementsConcat ==
  ASSUME NEW V, NEW s \in Seq(V), NEW t \in Seq(V)
  PROVE  s \o t \in Seq(V) /\ Elements(s \o t) = Elements(s) \cup Elements(t)
  <1> DEFINE u == s \o t
  <1>1. /\ u \in Seq(V) /\ Len(u) = Len(s) + Len(t)
        /\ \A i \in 1 .. Len(s) + Len(t) : u[i] = IF i <= Len(s) THEN s[i] ELSE t[i - Len(s)]
    BY ConcatProperties
  <1>2. /\ DOMAIN u = 1 .. Len(s) + Len(t) /\ DOMAIN s = 1 .. Len(s) /\ DOMAIN t = 1 .. Len(t)
        /\ Len(s) \in Nat /\ Len(t) \in Nat
    BY <1>1
  <1> HIDE DEF u
  <1>3. ASSUME NEW i \in DOMAIN u PROVE u[i] \in Elements(s) \cup Elements(t)
    <2>1. CASE i <= Len(s)
      BY <1>1, <1>2, <2>1 DEF Elements
    <2>2. CASE ~(i <= Len(s))
      <3>1. i - Len(s) \in DOMAIN t /\ u[i] = t[i - Len(s)]
        BY <1>1, <1>2, <2>2
      <3> QED
        BY <3>1 DEF Elements
    <2> QED
      BY <2>1, <2>2
  <1>4. ASSUME NEW i \in DOMAIN s PROVE s[i] \in Elements(u)
    <2>1. i \in DOMAIN u /\ u[i] = s[i]
      BY <1>1, <1>2
    <2> QED
      BY <2>1 DEF Elements
  <1>5. ASSUME NEW i \in DOMAIN t PROVE t[i] \in Elements(u)
    <2>1. Len(s) + i \in DOMAIN u /\ u[Len(s) + i] = t[i]
      BY <1>1, <1>2
    <2> QED
      BY <2>1 DEF Elements
  <1>6. Elements(u) = Elements(s) \cup Elements(t)
    BY <1>3, <1>4, <1>5 DEF Elements
  <1> QED
    BY <1>1, <1>6 DEF u

LEMMA AscendsConcat ==
  ASSUME NEW s \in Seq(Int), NEW t \in Seq(Int), Ascends(s), Ascends(t),
         \A x \in Elements(s), y \in Elements(t) : x < y
  PROVE  Ascends(s \o t)
  <1> DEFINE u == s \o t
  <1>1. /\ u \in Seq(Int) /\ Len(u) = Len(s) + Len(t)
        /\ \A i \in 1 .. Len(s) + Len(t) : u[i] = IF i <= Len(s) THEN s[i] ELSE t[i - Len(s)]
    BY ConcatProperties
  <1>2. /\ DOMAIN u = 1 .. Len(s) + Len(t) /\ DOMAIN s = 1 .. Len(s) /\ DOMAIN t = 1 .. Len(t)
        /\ Len(s) \in Nat /\ Len(t) \in Nat
    BY <1>1
  <1> HIDE DEF u
  <1>3. \A i \in DOMAIN s, j \in DOMAIN t : s[i] < t[j]
    BY DEF Elements
  <1>4. ASSUME NEW i \in DOMAIN u, NEW j \in DOMAIN u, i < j PROVE u[i] < u[j]
    <2>1. CASE j <= Len(s)
      <3>1. i \in DOMAIN s /\ j \in DOMAIN s /\ u[i] = s[i] /\ u[j] = s[j]
        BY <1>1, <1>2, <1>4, <2>1
      <3> QED
        BY <1>4, <3>1 DEF Ascends
    <2>2. CASE i <= Len(s) /\ ~(j <= Len(s))
      <3>1. i \in DOMAIN s /\ j - Len(s) \in DOMAIN t
        BY <1>2, <2>2
      <3>2. u[i] = s[i]
        BY <1>1, <1>2, <2>2
      <3>3. u[j] = t[j - Len(s)]
        BY <1>1, <1>2, <2>2
      <3> QED
        BY <1>3, <3>1, <3>2, <3>3
    <2>3. CASE ~(i <= Len(s))
      <3>1. i \in Int /\ j \in Int /\ ~(j <= Len(s))
        BY <1>2, <1>4, <2>3
      <3>2. i - Len(s) \in DOMAIN t /\ j - Len(s) \in DOMAIN t /\ i - Len(s) < j - Len(s)
        BY <1>2, <1>4, <2>3, <3>1
      <3>3. u[i] = t[i - Len(s)]
        BY <1>1, <1>2, <2>3
      <3>4. u[j] = t[j - Len(s)]
        BY <1>1, <1>2, <3>1
      <3> QED
        BY <3>2, <3>3, <3>4 DEF Ascends
    <2> QED
      BY <1>2, <2>1, <2>2, <2>3
  <1> QED
    BY <1>4 DEF Ascends, u

LEMMA NoneTwiceConcat ==
  ASSUME NEW V, NEW s \in Seq(V), NEW t \in Seq(V), NoneTwice(s), NoneTwice(t),
         Elements(s) \cap Elements(t) = {}
  PROVE  NoneTwice(s \o t)
  <1> DEFINE u == s \o t
  <1>1. /\ u \in Seq(V) /\ Len(u) = Len(s) + Len(t)
        /\ \A i \in 1 .. Len(s) + Len(t) : u[i] = IF i <= Len(s) THEN s[i] ELSE t[i - Len(s)]
    BY ConcatProperties
  <1>2. /\ DOMAIN u = 1 .. Len(s) + Len(t) /\ DOMAIN s = 1 .. Len(s) /\ DOMAIN t = 1 .. Len(t)
        /\ Len(s) \in Nat /\ Len(t) \in Nat
    BY <1>1
  <1> HIDE DEF u
  <1>3. \A i \in DOMAIN s, j \in DOMAIN t : s[i] # t[j]
    BY DEF Elements
  <1>4. ASSUME NEW i \in DOMAIN u, NEW j \in DOMAIN u, u[i] = u[j] PROVE i = j
    <2>1. CASE i <= Len(s) /\ j <= Len(s)
      <3>1. i \in DOMAIN s /\ j \in DOMAIN s /\ u[i] = s[i] /\ u[j] = s[j]
        BY <1>1, <1>2, <2>1
      <3> QED
        BY <1>4, <3>1 DEF NoneTwice
    <2>2. CASE i <= Len(s) /\ ~(j <= Len(s))
      <3>1. i \in DOMAIN s /\ j - Len(s) \in DOMAIN t /\ u[i] = s[i] /\ u[j] = t[j - Len(s)]
        BY <1>1, <1>2, <2>2
      <3> QED
        BY <1>3, <1>4, <3>1
    <2>3. CASE ~(i <= Len(s)) /\ j <= Len(s)
      <3>1. j \in DOMAIN s /\ i - Len(s) \in DOMAIN t /\ u[j] = s[j] /\ u[i] = t[i - Len(s)]
        BY <1>1, <1>2, <2>3
      <3> QED
        BY <1>3, <1>4, <3>1
    <2>4. CASE ~(i <= Len(s)) /\ ~(j <= Len(s))
      <3>1. /\ i - Len(s) \in DOMAIN t /\ j - Len(s) \in DOMAIN t
            /\ u[i] = t[i - Len(s)] /\ u[j] = t[j - Len(s)]
        BY <1>1, <1>2, <2>4
      <3>2. i - Len(s) = j - Len(s)
        BY <1>4, <3>1 DEF NoneTwice
      <3> QED
        BY <1>2, <3>2
    <2> QED
      BY <2>1, <2>2, <2>3, <2>4
  <1> QED
    BY <1>4 DEF NoneTwice, u

Prints(h, f) ==
  f = [q \in DOMAIN h \cup {NULL} |->
         IF q = NULL THEN <<>> ELSE f[h[q].left] \o <<h[q].key>> \o f[h[q].right]]

LEMMA PrintUnfolds ==
  ASSUME NEW h, IsHeap(h), NEW p, Tree(h, p, DOMAIN h)
  PROVE  \E f : Prints(h, f) /\ print_tree(h, p) = f[p]
  <1> DEFINE V == Seq(Int)
  <1> DEFINE step == [a \in DOMAIN h |-> [x \in V |-> [y \in V |-> (x \o <<h[a].key>>) \o y]]]
  <1>1. step \in [DOMAIN h -> [V -> [V -> V]]] /\ <<>> \in V
    <2>1. ASSUME NEW a \in DOMAIN h, NEW x \in V, NEW y \in V PROVE (x \o <<h[a].key>>) \o y \in V
      BY <2>1, HeapNode, ConcatProperties
    <2> HIDE DEF V
    <2>2. <<>> \in V
      BY DEF V
    <2> QED
      BY <2>1, <2>2
  <1>s. \A a \in DOMAIN h, x \in V, y \in V : step[a][x][y] = (x \o <<h[a].key>>) \o y
    OBVIOUS
  <1> HIDE DEF V, step
  <1>2. PICK g \in [DOMAIN h \cup {NULL} -> V] :
          /\ g[NULL] = <<>>
          /\ \A a \in DOMAIN h : g[a] = step[a][g[h[a].left]][g[h[a].right]]
    <2>1. Recursion(h, DOMAIN h, V, <<>>, step)
      BY <1>1, TreeRecursion
    <2> QED
      BY <2>1 DEF Recursion
  <1>3. \A a \in DOMAIN h : /\ h[a].left \in DOMAIN h \cup {NULL}
                            /\ h[a].right \in DOMAIN h \cup {NULL}
    BY TreeShape
  <1>4. ASSUME NEW q \in DOMAIN h
        PROVE  g[q] = g[h[q].left] \o <<h[q].key>> \o g[h[q].right]
    <2>1. g[h[q].left] \in V /\ g[h[q].right] \in V
      BY <1>3
    <2> QED
      BY <1>2, <1>s, <2>1
  <1>n. NULL \notin DOMAIN h
    BY BstAssumption DEF IsHeap
  <1>5. Prints(h, g)
    BY <1>2, <1>4, <1>n DEF Prints
  <1>6. print_tree(h, p) = (CHOOSE f : Prints(h, f))[p]
    BY Zenon DEF print_tree, Prints
  <1>7. Prints(h, CHOOSE f : Prints(h, f))
    BY <1>5, Zenon
  <1> QED
    BY <1>6, <1>7

\* print_tree lists the keys of the nodes, in order.
LEMMA PrintLists ==
  ASSUME NEW h, IsHeap(h), NEW p, Tree(h, p, DOMAIN h)
  PROVE  LET s == print_tree(h, p)
         IN  Elements(s) = {h[a].key : a \in DOMAIN h} /\ Ascends(s)
  <1>1. PICK f : Prints(h, f) /\ print_tree(h, p) = f[p]
    BY PrintUnfolds
  <1> DEFINE Q(q, U) == /\ f[q] \in Seq(Int)
                        /\ Elements(f[q]) = {h[a].key : a \in U}
                        /\ Ascends(f[q])
  <1> DEFINE T == {t \in Pairs(h) : Q(t[1], t[2])}
  <1>n. NULL \notin DOMAIN h
    BY BstAssumption DEF IsHeap
  <1>2. <<NULL, {}>> \in T
    <2>1. f[NULL] = <<>>
      BY <1>1 DEF Prints
    <2>2. Q(NULL, {})
      BY <2>1 DEF Elements, Ascends
    <2> QED
      BY <2>2 DEF Pairs
  <1>3. ASSUME NEW q, NEW L, NEW R, Joins(h, q, L, R),
               Tree(h, h[q].left, L), Tree(h, h[q].right, R),
               <<h[q].left, L>> \in T, <<h[q].right, R>> \in T
        PROVE  <<q, {q} \cup L \cup R>> \in T
    <2> DEFINE s == f[h[q].left]
    <2> DEFINE t == f[h[q].right]
    <2> DEFINE k == <<h[q].key>>
    <2>1. /\ s \in Seq(Int) /\ Elements(s) = {h[a].key : a \in L} /\ Ascends(s)
          /\ t \in Seq(Int) /\ Elements(t) = {h[a].key : a \in R} /\ Ascends(t)
      BY <1>3
    <2> DEFINE w == s \o k
    <2>2. f[q] = w \o t
      BY <1>1, <1>3, <1>n DEF Prints, Joins
    <2>3. /\ q \in DOMAIN h /\ L \subseteq DOMAIN h /\ R \subseteq DOMAIN h
          /\ \A a \in L : h[a].key < h[q].key
          /\ \A a \in R : h[q].key < h[a].key
          /\ \A a \in DOMAIN h : h[a].key \in Int
      BY <1>3, HeapNode DEF Joins
    <2>4. k \in Seq(Int) /\ Elements(k) = {h[q].key} /\ Ascends(k)
      BY <2>3, OneElement
    <2> HIDE DEF s, t, k
    <2>5. w \in Seq(Int) /\ Elements(w) = Elements(s) \cup Elements(k)
      BY <2>1, <2>4, ElementsConcat
    <2>6. Ascends(w)
      BY <2>1, <2>3, <2>4, AscendsConcat
    <2> HIDE DEF w
    <2>7. f[q] \in Seq(Int) /\ Elements(f[q]) = Elements(w) \cup Elements(t)
      <3>1. w \in Seq(Int) /\ t \in Seq(Int)
        BY <2>1, <2>5
      <3>2. w \o t \in Seq(Int) /\ Elements(w \o t) = Elements(w) \cup Elements(t)
        BY <3>1, ElementsConcat
      <3> QED
        BY <2>2, <3>2
    <2>8. /\ w \in Seq(Int) /\ Elements(w) = {h[a].key : a \in L} \cup {h[q].key}
          /\ f[q] \in Seq(Int)
          /\ Elements(f[q]) = {h[a].key : a \in L} \cup {h[q].key} \cup {h[a].key : a \in R}
      BY <2>1, <2>4, <2>5, <2>7
    <2>9. \A x \in Elements(w), y \in Elements(t) : x < y
      BY <2>1, <2>3, <2>8
    <2>10. Ascends(f[q])
      BY <2>1, <2>2, <2>8, <2>6, <2>9, AscendsConcat
    <2>11. Elements(f[q]) = {h[a].key : a \in {q} \cup L \cup R}
      BY <2>8
    <2>12. Q(q, {q} \cup L \cup R)
      BY <2>8, <2>10, <2>11
    <2>13. <<q, {q} \cup L \cup R>> \in Pairs(h)
      BY <1>3, TreeJoin DEF Tree
    <2> HIDE DEF Q
    <2> QED
      BY <2>12, <2>13
  <1>4. <<p, DOMAIN h>> \in T
    <2> HIDE DEF T
    <2> QED
      BY <1>2, <1>3, TreeInduction
  <1> QED
    BY <1>1, <1>4

Frees(h, f) ==
  f = [q \in DOMAIN h \cup {NULL} |->
         IF q = NULL THEN <<>> ELSE f[h[q].left] \o f[h[q].right] \o <<q>>]

LEMMA FreeUnfolds ==
  ASSUME NEW h, IsHeap(h), NEW p, Tree(h, p, DOMAIN h)
  PROVE  \E f : Frees(h, f) /\ free_tree(h, p) = f[p]
  <1> DEFINE V == Seq(Address)
  <1> DEFINE step == [a \in DOMAIN h |-> [x \in V |-> [y \in V |-> (x \o y) \o <<a>>]]]
  <1>1. step \in [DOMAIN h -> [V -> [V -> V]]] /\ <<>> \in V
    <2>1. ASSUME NEW a \in DOMAIN h, NEW x \in V, NEW y \in V PROVE (x \o y) \o <<a>> \in V
      BY <2>1, HeapNode, ConcatProperties
    <2> HIDE DEF V
    <2>2. <<>> \in V
      BY DEF V
    <2> QED
      BY <2>1, <2>2
  <1>s. \A a \in DOMAIN h, x \in V, y \in V : step[a][x][y] = (x \o y) \o <<a>>
    OBVIOUS
  <1> HIDE DEF V, step
  <1>2. PICK g \in [DOMAIN h \cup {NULL} -> V] :
          /\ g[NULL] = <<>>
          /\ \A a \in DOMAIN h : g[a] = step[a][g[h[a].left]][g[h[a].right]]
    <2>1. Recursion(h, DOMAIN h, V, <<>>, step)
      BY <1>1, TreeRecursion
    <2> QED
      BY <2>1 DEF Recursion
  <1>3. \A a \in DOMAIN h : /\ h[a].left \in DOMAIN h \cup {NULL}
                            /\ h[a].right \in DOMAIN h \cup {NULL}
    BY TreeShape
  <1>4. ASSUME NEW q \in DOMAIN h
        PROVE  g[q] = g[h[q].left] \o g[h[q].right] \o <<q>>
    <2>1. g[h[q].left] \in V /\ g[h[q].right] \in V
      BY <1>3
    <2> QED
      BY <1>2, <1>s, <2>1
  <1>n. NULL \notin DOMAIN h
    BY BstAssumption DEF IsHeap
  <1>5. Frees(h, g)
    BY <1>2, <1>4, <1>n DEF Frees
  <1>6. free_tree(h, p) = (CHOOSE f : Frees(h, f))[p]
    BY Zenon DEF free_tree, Frees
  <1>7. Frees(h, CHOOSE f : Frees(h, f))
    BY <1>5, Zenon
  <1> QED
    BY <1>6, <1>7

\* free_tree frees the nodes of the tree, each once.
LEMMA FreeLists ==
  ASSUME NEW h, IsHeap(h), NEW p, Tree(h, p, DOMAIN h)
  PROVE  LET s == free_tree(h, p) IN Elements(s) = DOMAIN h /\ NoneTwice(s)
  <1>1. PICK f : Frees(h, f) /\ free_tree(h, p) = f[p]
    BY FreeUnfolds
  <1> DEFINE Q(q, U) == /\ f[q] \in Seq(Address)
                        /\ Elements(f[q]) = U
                        /\ NoneTwice(f[q])
  <1> DEFINE T == {t \in Pairs(h) : Q(t[1], t[2])}
  <1>n. NULL \notin DOMAIN h
    BY BstAssumption DEF IsHeap
  <1>2. <<NULL, {}>> \in T
    <2>1. f[NULL] = <<>>
      BY <1>1 DEF Frees
    <2>2. Q(NULL, {})
      BY <2>1 DEF Elements, NoneTwice
    <2> QED
      BY <2>2 DEF Pairs
  <1>3. ASSUME NEW q, NEW L, NEW R, Joins(h, q, L, R),
               Tree(h, h[q].left, L), Tree(h, h[q].right, R),
               <<h[q].left, L>> \in T, <<h[q].right, R>> \in T
        PROVE  <<q, {q} \cup L \cup R>> \in T
    <2> DEFINE s == f[h[q].left]
    <2> DEFINE t == f[h[q].right]
    <2> DEFINE k == <<q>>
    <2>1. /\ s \in Seq(Address) /\ Elements(s) = L /\ NoneTwice(s)
          /\ t \in Seq(Address) /\ Elements(t) = R /\ NoneTwice(t)
      BY <1>3
    <2> DEFINE w == s \o t
    <2>2. f[q] = w \o k
      BY <1>1, <1>3, <1>n DEF Frees, Joins
    <2>3. /\ q \in DOMAIN h /\ q \in Address
          /\ q \notin L /\ q \notin R /\ L \cap R = {}
      BY <1>3, HeapNode DEF Joins
    <2>4. k \in Seq(Address) /\ Elements(k) = {q} /\ NoneTwice(k)
      BY <2>3, OneElement
    <2> HIDE DEF s, t, k
    <2>5. w \in Seq(Address) /\ Elements(w) = L \cup R
      BY <2>1, ElementsConcat
    <2>6. NoneTwice(w)
      BY <2>1, <2>3, NoneTwiceConcat
    <2> HIDE DEF w
    <2>7. f[q] \in Seq(Address) /\ Elements(f[q]) = {q} \cup L \cup R
      BY <2>2, <2>4, <2>5, ElementsConcat
    <2>8. NoneTwice(f[q])
      BY <2>2, <2>3, <2>4, <2>5, <2>6, NoneTwiceConcat
    <2>9. Q(q, {q} \cup L \cup R)
      BY <2>7, <2>8
    <2>10. <<q, {q} \cup L \cup R>> \in Pairs(h)
      BY <1>3, TreeJoin DEF Tree
    <2> HIDE DEF Q
    <2> QED
      BY <2>9, <2>10
  <1>4. <<p, DOMAIN h>> \in T
    <2> HIDE DEF T
    <2> QED
      BY <1>2, <1>3, TreeInduction
  <1> QED
    BY <1>1, <1>4

\* print_tree writes exactly the names that are stored, in the order of strcmp
\* and none twice, whatever the order of the calls was.
THEOREM PrintCorrect == Spec => []PrintsInOrder
  <1>1. ASSUME IInv PROVE PrintsInOrder
    <2> DEFINE keys == print_tree(heap, root)
    <2>1. /\ IsHeap(heap) /\ Tree(heap, root, DOMAIN heap)
          /\ \A k \in Key :
               /\ map[k] # NotFound => \E a \in DOMAIN heap : heap[a].key = k
               /\ map[k] = NotFound => \A a \in DOMAIN heap : heap[a].key # k
      BY <1>1 DEF IInv, Stored
    <2>2. Elements(keys) = {heap[a].key : a \in DOMAIN heap} /\ Ascends(keys)
      BY <2>1, PrintLists
    <2>3. \A a \in DOMAIN heap : heap[a].key \in Key
      BY <2>1, HeapNode
    <2> HIDE DEF keys
    <2>4. {heap[a].key : a \in DOMAIN heap} = {k \in Key : map[k] # NotFound}
      BY <2>1, <2>3
    <2> QED
      BY <2>2, <2>4 DEF PrintsInOrder, Elements, Ascends, keys
  <1> QED
    BY <1>1, Invariance, PTL

\* free_tree frees every node that was allocated and not yet freed, once.
THEOREM FreeCorrect == Spec => []FreesEverything
  <1>1. ASSUME IInv PROVE FreesEverything
    <2>1. IsHeap(heap) /\ Tree(heap, root, DOMAIN heap)
      BY <1>1 DEF IInv
    <2>2. LET s == free_tree(heap, root) IN Elements(s) = DOMAIN heap /\ NoneTwice(s)
      BY <2>1, FreeLists
    <2> QED
      BY <2>2 DEF FreesEverything, Elements, NoneTwice
  <1> QED
    BY <1>1, Invariance, PTL
=============================================================================
