------------------------- MODULE BuildCascadeProofs -------------------------
(* Proofs about module BuildCascade, for any set of profiles and any       *)
(* parent files.                                                           *)
EXTENDS BuildCascade, FiniteSetTheorems, TLAPS

USE ProfilesAssumption, InputsAssumption

(***************************************************************************)
(* The work list.                                                          *)
(***************************************************************************)

\* Who is whose child.
LEMMA ChildOf ==
    \A p, c : c \in Children(p) <=> c \in Profiles /\ p \in Parents(c)
BY DEF Children

\* The work list starts with the root and its children.
LEMMA InitWorklist == Init => TypeOK /\ WorklistInv
<1> SUFFICES ASSUME Init PROVE TypeOK /\ WorklistInv
  OBVIOUS
<1>1. TypeOK
  BY DEF Init, TypeOK, Children
<1>2. \A S \in SUBSET Profiles :
          root \in S /\ Downward(S) => Found \subseteq S
  BY DEF Init, Downward, Found
<1>3. \A n \in Found \ {root} : InSetParents(n) # {}
  BY ChildOf DEF Init, Found, InSetParents
<1>4. QED
  BY <1>1, <1>2, <1>3 DEF Init, WorklistInv, Found

\* One iteration of the first loop.
LEMMA CollectWorklist ==
    ASSUME TypeOK, WorklistInv, NEW node \in stack, Collect(node)
    PROVE  TypeOK' /\ WorklistInv'
<1>1. node \in Profiles /\ UNCHANGED <<declared, root, pc>> /\ pc = "collect"
  BY DEF Collect, TypeOK
<1>2. \A p : Parents(p)' = Parents(p) /\ Children(p)' = Children(p)
  BY <1>1 DEF Parents, Children
<1>3. \A S : Downward(S)' <=> Downward(S)
  BY <1>2 DEF Downward
<1>4. TypeOK'
  BY <1>1 DEF Collect, TypeOK, Children
<1>5. CASE node \in inSet
  <2>1. inSet' = inSet /\ Found' = Found
    BY <1>5 DEF Collect, Found
  <2>2. QED
    BY <1>1, <1>2, <1>3, <1>4, <2>1 DEF WorklistInv, InSetParents
<1>6. CASE node \notin inSet
  <2>1. inSet' = inSet \cup {node} /\ Found' = Found \cup Children(node)
    BY <1>6 DEF Collect, Found
  <2>2. \A S \in SUBSET Profiles :
            root \in S /\ Downward(S) => Found' \subseteq S
    BY <2>1 DEF WorklistInv, Downward, Found
  <2>3. \A n \in Found' \ {root} : InSetParents(n)' # {}
    BY <1>2, <2>1, ChildOf DEF WorklistInv, InSetParents
  <2>4. \A p \in inSet' : Children(p) \subseteq Found'
    BY <2>1 DEF WorklistInv
  <2>5. QED
    BY <1>1, <1>2, <1>3, <1>4, <2>1, <2>2, <2>3, <2>4 DEF WorklistInv
<1>7. QED
  BY <1>5, <1>6

\* The second loop does not touch the work list.
LEMMA SortWorklist ==
    ASSUME TypeOK, WorklistInv,
           UNCHANGED <<declared, root, inSet, stack>>,
           pc' # "collect", pc # "collect" \/ stack = {}
    PROVE  WorklistInv'
<1>1. \A p : Parents(p)' = Parents(p) /\ Children(p)' = Children(p)
  BY DEF Parents, Children
<1>2. \A S : Downward(S)' <=> Downward(S)
  BY <1>1 DEF Downward
<1>3. Found' = Found /\ \A n : InSetParents(n)' = InSetParents(n)
  BY <1>1 DEF Found, InSetParents
<1>4. QED
  BY <1>1, <1>2, <1>3 DEF WorklistInv

\* When the work list is empty the set is exactly what is downstream.
LEMMA EmptyWorklist ==
    ASSUME TypeOK, WorklistInv, stack = {}
    PROVE  inSet = Downstream
<1>1. Found = inSet /\ inSet \in SUBSET Profiles
  BY DEF Found, TypeOK
<1>2. Downward(inSet)
  BY <1>1 DEF Downward, WorklistInv
<1>3. QED
  BY <1>1, <1>2 DEF Downstream, WorklistInv

(***************************************************************************)
(* The rounds.                                                             *)
(***************************************************************************)

\* Sets of profiles are finite.
LEMMA FiniteParts ==
    ASSUME NEW S \in SUBSET Profiles
    PROVE  IsFiniteSet(S) /\ Cardinality(S) \in Nat
BY FS_Subset, FS_CardinalityType

\* Without circles the root is the one profile that waits for nobody.
LEMMA RootHasNoParents ==
    ASSUME WorklistInv, stack = {}, Acyclic(inSet)
    PROVE  \A n \in inSet : InSetParents(n) = {} <=> n = root
<1>1. Found = inSet /\ root \in inSet
  BY DEF Found, WorklistInv
<1>2. PICK n \in inSet : Parents(n) \cap inSet = {}
  BY <1>1 DEF Acyclic
<1>3. QED
  BY <1>1, <1>2 DEF WorklistInv, InSetParents

\* Without circles some profile is ready in every round: the fallback of
\* compute_build_cascade is not taken.
LEMMA SomeReady ==
    ASSUME RoundsInv, Left \subseteq inSet, pc = "sort", Acyclic(inSet),
           Left # {}
    PROVE  Ready # {}
<1>1. PICK n \in Left : Parents(n) \cap Left = {}
  BY DEF Acyclic
<1>2. remaining[n] = {}
  BY <1>1 DEF RoundsInv, InSetParents
<1>3. QED
  BY <1>1, <1>2 DEF Ready, Left

\* The positions a round hands out follow those of the earlier rounds.
LEMMA EmitPositions ==
    ASSUME TypeOK, RoundsInv, pc = "sort", NEW S \in SUBSET Left, Emit(S)
    PROVE  /\ position' \in [inSet -> Nat]
           /\ \A n \in inSet \ S : position'[n] = position[n]
           /\ \A n \in S :
                  /\ position'[n] > Cardinality(inSet \ Left)
                  /\ position'[n] \in 1..Cardinality(inSet \ (Left \ S))
           /\ \A n, k \in S : n < k => position'[n] # position'[k]
           /\ S = {root} /\ Left = inSet => position'[root] = 1
<1> DEFINE old == inSet \ Left
<1> DEFINE upTo(n) == {k \in S : k <= n}
<1>1. /\ inSet \in SUBSET Profiles /\ Left \in SUBSET inSet
      /\ S \in SUBSET inSet
  BY DEF TypeOK, Left
<1>2. Emitted = old
  <2>1. \A n \in inSet : position[n] \in Nat
    BY DEF TypeOK, RoundsInv
  <2>2. QED
    BY <2>1 DEF Emitted, RoundsInv
<1>3. position' = [n \in inSet |->
          IF n \in S THEN Cardinality(old) + Cardinality(upTo(n))
                     ELSE position[n]]
  BY <1>2 DEF Emit
<1>4. /\ IsFiniteSet(old) /\ Cardinality(old) \in Nat
      /\ IsFiniteSet(S) /\ Cardinality(S) \in Nat
  BY <1>1, FiniteParts
<1>5. Cardinality(inSet \ (Left \ S)) = Cardinality(old) + Cardinality(S)
  <2>1. inSet \ (Left \ S) = old \cup S /\ old \cap S = {}
    BY <1>1
  <2>2. Cardinality(old \cup S)
            = Cardinality(old) + Cardinality(S) - Cardinality(old \cap S)
    BY <1>4, FS_Union
  <2>3. Cardinality(old \cap S) = 0
    BY <2>1, FS_EmptySet
  <2>4. Cardinality(old \cup S) = Cardinality(old) + Cardinality(S)
    <3> HIDE DEF old
    <3> QED
      BY <1>4, <2>2, <2>3
  <2>5. QED
    BY <2>1, <2>4
<1>6. ASSUME NEW n \in S
      PROVE  Cardinality(upTo(n)) \in 1..Cardinality(S)
  <2>1. upTo(n) \in SUBSET S /\ n \in upTo(n)
    BY <1>1
  <2>2. IsFiniteSet(upTo(n)) /\ Cardinality(upTo(n)) \in Nat
    BY <1>1, <2>1, FiniteParts
  <2>3. Cardinality(upTo(n)) <= Cardinality(S)
    BY <1>4, <2>1, FS_Subset
  <2>4. Cardinality(upTo(n)) # 0
    BY <2>1, <2>2, FS_EmptySet
  <2>5. QED
    BY <1>4, <2>2, <2>3, <2>4
<1>7. \A n \in S : /\ position'[n] > Cardinality(old)
                   /\ position'[n] \in 1..Cardinality(inSet \ (Left \ S))
  <2> HIDE DEF old, upTo
  <2> QED
    BY <1>1, <1>3, <1>4, <1>5, <1>6
<1>8. S = {root} /\ Left = inSet => position'[root] = 1
  <2>1. HAVE S = {root} /\ Left = inSet
  <2>2. old = {} /\ upTo(root) = {root}
    BY <1>1, <2>1
  <2>3. Cardinality(old) = 0 /\ Cardinality(upTo(root)) = 1
    BY <2>2, FS_EmptySet, FS_Singleton
  <2>4. QED
    BY <1>1, <1>3, <2>1, <2>3
<1>9. position' \in [inSet -> Nat]
  <2>1. \A n \in S : Cardinality(old) + Cardinality(upTo(n)) \in Nat
    BY <1>4, <1>6
  <2>2. \A n \in inSet : position[n] \in Nat
    BY DEF TypeOK, RoundsInv
  <2> HIDE DEF old, upTo
  <2>3. QED
    BY <1>3, <2>1, <2>2
<1>10. ASSUME NEW n \in S, NEW k \in S, n < k
       PROVE  position'[n] # position'[k]
  <2>1. /\ upTo(n) \in SUBSET S /\ upTo(k) \in SUBSET S
        /\ S \in SUBSET Nat /\ n \in Nat /\ k \in Nat
    BY <1>1
  <2>2. upTo(n) \in SUBSET upTo(k) /\ k \in upTo(k) /\ k \notin upTo(n)
    <3>1. n < k
      BY <1>10
    <3>2. \A j \in S : j <= n => j <= k
      BY <2>1, <3>1
    <3>3. ~(k <= n) /\ k <= k
      BY <2>1, <3>1
    <3>4. QED
      BY <3>2, <3>3
  <2>3. /\ IsFiniteSet(upTo(k))
        /\ Cardinality(upTo(n)) \in Nat /\ Cardinality(upTo(k)) \in Nat
    BY <1>1, <2>1, FiniteParts
  <2>4. Cardinality(upTo(n)) # Cardinality(upTo(k))
    BY <2>2, <2>3, FS_Subset
  <2>5. /\ position'[n] = Cardinality(old) + Cardinality(upTo(n))
        /\ position'[k] = Cardinality(old) + Cardinality(upTo(k))
    BY <1>1, <1>3
  <2> HIDE DEF old, upTo
  <2>6. QED
    BY <1>4, <2>3, <2>4, <2>5
<1>11. QED
  BY <1>3, <1>7, <1>8, <1>9, <1>10

\* A round keeps the positions apart and leaves none out.
LEMMA EmitNumbering ==
    ASSUME TypeOK, RoundsInv, NumberingInv, pc = "sort", inSet' = inSet,
           NEW S \in SUBSET Left, Emit(S)
    PROVE  /\ Emitted' = Emitted \cup S
           /\ \A p \in Emitted' : position'[p] \in 1..Cardinality(Emitted')
           /\ \A p, q \in Emitted' : position'[p] = position'[q] => p = q
<1>1. /\ inSet \in SUBSET Profiles /\ Left \in SUBSET inSet
      /\ \A n \in inSet : position[n] \in Nat
      /\ \A n \in inSet : n \in Left <=> position[n] = 0
  BY DEF TypeOK, RoundsInv, Left
<1>2. Emitted = inSet \ Left /\ Emitted \cup S = inSet \ (Left \ S)
  <2>1. \A n \in inSet : position[n] > 0 <=> n \notin Left
    BY <1>1
  <2>2. QED
    BY <1>1, <2>1 DEF Emitted
<1>3. /\ position' \in [inSet -> Nat]
      /\ \A n \in inSet \ S : position'[n] = position[n]
      /\ \A n \in S : /\ position'[n] > Cardinality(Emitted)
                       /\ position'[n] \in 1..Cardinality(Emitted \cup S)
      /\ \A n, k \in S : n < k => position'[n] # position'[k]
  BY <1>2, EmitPositions
<1>4. Emitted' = Emitted \cup S
  <2>1. \A n \in S : n \in inSet /\ position'[n] > 0
    BY <1>1, <1>3
  <2>2. \A n \in inSet \ S : n \in Emitted' <=> n \in Emitted
    BY <1>3 DEF Emitted
  <2>3. QED
    BY <2>1, <2>2 DEF Emitted
<1>5. /\ \A p \in Emitted : position[p] \in 1..Cardinality(Emitted)
      /\ \A p, q \in Emitted : position[p] = position[q] => p = q
  BY DEF NumberingInv
<1>6. /\ Cardinality(Emitted) \in Nat /\ Cardinality(Emitted \cup S) \in Nat
      /\ Cardinality(Emitted) <= Cardinality(Emitted \cup S)
  <2>1. /\ Emitted \in SUBSET Profiles /\ Emitted \cup S \in SUBSET Profiles
        /\ Emitted \in SUBSET (Emitted \cup S)
    BY <1>1, <1>2
  <2>2. QED
    BY <2>1, FiniteParts, FS_Subset
<1>7. \A p \in Emitted : p \in inSet \ S /\ position'[p] = position[p]
  BY <1>1, <1>2, <1>3
<1>8. \A p \in Emitted \cup S : position'[p] \in 1..Cardinality(Emitted \cup S)
  BY <1>3, <1>5, <1>6, <1>7
<1>9. ASSUME NEW p \in Emitted \cup S, NEW q \in Emitted \cup S,
             position'[p] = position'[q]
      PROVE  p = q
  <2>1. CASE p \in Emitted /\ q \in Emitted
    BY <1>5, <1>7, <1>9, <2>1
  <2>2. CASE p \in S /\ q \in S
    <3>1. p \in Nat /\ q \in Nat
      BY <1>1, <2>2
    <3>2. ~(p < q) /\ ~(q < p)
      BY <1>3, <1>9, <2>2
    <3>3. QED
      BY <3>1, <3>2, SMT
  <2>3. CASE (p \in Emitted /\ q \in S) \/ (p \in S /\ q \in Emitted)
    BY <1>3, <1>5, <1>6, <1>7, <1>9, <2>3
  <2>4. QED
    BY <2>1, <2>2, <2>3
<1>10. QED
  BY <1>4, <1>8, <1>9

\* What is not left has a position.
LEMMA AllNumbered ==
    ASSUME TypeOK, RoundsInv, pc = "sort"
    PROVE  Emitted \cup Left = inSet
<1>1. /\ Left \in SUBSET inSet /\ \A n \in inSet : position[n] \in Nat
      /\ \A n \in inSet : n \in Left <=> position[n] = 0
  BY DEF TypeOK, RoundsInv, Left
<1>2. \A n \in inSet : position[n] > 0 <=> n \notin Left
  BY <1>1
<1>3. QED
  BY <1>1, <1>2 DEF Emitted

-----------------------------------------------------------------------------
(* Every step keeps the invariant.                                         *)

\* Whether there is a circle depends on the parent files alone.
LEMMA SameParents ==
    ASSUME UNCHANGED <<declared, inSet>>
    PROVE  /\ \A n : InSetParents(n)' = InSetParents(n)
           /\ Acyclic(inSet)' <=> Acyclic(inSet)
BY DEF InSetParents, Acyclic, Parents

\* The invariant holds before the first iteration.
LEMMA InitIInv == Init => IInv
BY InitWorklist DEF Init, IInv, RoundsInv, OrderInv, NumberingInv

\* An iteration of the first loop.
LEMMA CollectIInv ==
    ASSUME IInv, NEW node \in stack, Collect(node) PROVE IInv'
<1>1. TypeOK' /\ WorklistInv'
  BY CollectWorklist DEF IInv
<1>2. RoundsInv' /\ OrderInv' /\ NumberingInv'
  BY DEF Collect, IInv, RoundsInv, OrderInv, NumberingInv
<1>3. QED
  BY <1>1, <1>2 DEF IInv

\* The step between the loops.
LEMMA StartSortIInv == ASSUME IInv, StartSort PROVE IInv'
<1>1. TypeOK'
  BY DEF IInv, TypeOK, StartSort
<1>2. WorklistInv'
  BY SortWorklist DEF IInv, StartSort
<1>3. RoundsInv'
  BY SameParents DEF StartSort, RoundsInv, Left, InSetParents
<1>4. OrderInv'
  <2>1. root \in inSet
    BY DEF IInv, WorklistInv
  <2>2. QED
    BY <2>1 DEF StartSort, OrderInv, Left
<1>5. NumberingInv'
  <2>1. /\ pc' = "sort" /\ inSet' = inSet
        /\ \A n \in inSet : position'[n] = 0
    BY DEF StartSort
  <2>2. Emitted' = {}
    BY <2>1 DEF Emitted
  <2>3. QED
    BY <2>1, <2>2 DEF NumberingInv
<1>6. QED
  BY <1>1, <1>2, <1>3, <1>4, <1>5 DEF IInv

\* A round.
LEMMA EmitReadyIInv == ASSUME IInv, EmitReady PROVE IInv'
<1>1. /\ TypeOK /\ WorklistInv /\ RoundsInv /\ OrderInv
      /\ pc = "sort" /\ pc' = "sort" /\ stack = {}
      /\ UNCHANGED <<declared, root, inSet, stack>>
  BY DEF IInv, WorklistInv, EmitReady
<1>2. /\ Ready \in SUBSET Left /\ Left \subseteq inSet
      /\ Left' = Left \ Ready
      /\ \A n \in Left' : remaining'[n] = remaining[n] \ Ready
  BY <1>1 DEF EmitReady, Ready, Left, TypeOK
<1>3. /\ position' \in [inSet -> Nat]
      /\ \A n \in inSet \ Ready : position'[n] = position[n]
      /\ \A n \in Ready :
             /\ position'[n] > Cardinality(inSet \ Left)
             /\ position'[n] \in 1..Cardinality(inSet \ Left')
      /\ Ready = {root} /\ Left = inSet => position'[root] = 1
  BY <1>1, <1>2, EmitPositions DEF EmitReady
<1>4. TypeOK'
  BY <1>1, <1>2, <1>3 DEF EmitReady, TypeOK, Left
<1>5. WorklistInv'
  BY <1>1, SortWorklist
<1>6. RoundsInv'
  BY <1>1, <1>2, <1>3, SameParents DEF RoundsInv
<1>7. OrderInv'
  <2> SUFFICES ASSUME Acyclic(inSet)
               PROVE  /\ \A n \in inSet' \ Left' :
                             /\ position'[n] \in 1..Cardinality(inSet' \ Left')
                             /\ \A p \in InSetParents(n) :
                                    p \notin Left' /\ position'[p] < position'[n]
                      /\ IF root \in Left' THEN Left' = inSet
                                           ELSE position'[root] = 1
    BY <1>1, SameParents DEF OrderInv
  <2>1. \A n \in inSet \ Left :
            /\ position[n] \in 1..Cardinality(inSet \ Left)
            /\ \A p \in InSetParents(n) :
                   p \notin Left /\ position[p] < position[n]
    BY <1>1 DEF OrderInv
  <2>2. /\ Cardinality(inSet \ Left) \in Nat
        /\ Cardinality(inSet \ Left') \in Nat
        /\ Cardinality(inSet \ Left) <= Cardinality(inSet \ Left')
    <3>1. inSet \ Left \in SUBSET Profiles /\ inSet \ Left' \in SUBSET Profiles
      BY <1>1 DEF TypeOK
    <3>2. inSet \ Left \in SUBSET (inSet \ Left')
      BY <1>2
    <3>3. QED
      BY <3>1, <3>2, FiniteParts, FS_Subset
  <2>3. ASSUME NEW n \in inSet \ Left
        PROVE  /\ position'[n] \in 1..Cardinality(inSet \ Left')
               /\ \A p \in InSetParents(n) :
                      p \notin Left' /\ position'[p] < position'[n]
    <3>1. position[n] \in 1..Cardinality(inSet \ Left)
      BY <2>1
    <3>2. position'[n] = position[n]
      BY <1>2, <1>3
    <3>3. position'[n] \in 1..Cardinality(inSet \ Left')
      BY <2>2, <3>1, <3>2
    <3>4. ASSUME NEW p \in InSetParents(n)
          PROVE  p \notin Left' /\ position'[p] < position'[n]
      <4>1. p \in inSet /\ p \notin Left /\ position[p] < position[n]
        BY <2>1 DEF InSetParents
      <4>2. position'[p] = position[p] /\ p \notin Left'
        BY <1>2, <1>3, <4>1
      <4>3. QED
        BY <3>2, <4>1, <4>2
    <3>5. QED
      BY <3>3, <3>4
  <2>4. ASSUME NEW n \in Ready
        PROVE  /\ position'[n] \in 1..Cardinality(inSet \ Left')
               /\ \A p \in InSetParents(n) :
                      p \notin Left' /\ position'[p] < position'[n]
    <3>1. InSetParents(n) \cap Left = {} /\ InSetParents(n) \subseteq inSet
      BY <1>1, <1>2 DEF Ready, RoundsInv, InSetParents
    <3>2. /\ position'[n] > Cardinality(inSet \ Left)
          /\ position'[n] \in 1..Cardinality(inSet \ Left')
      BY <1>3
    <3>3. ASSUME NEW p \in InSetParents(n)
          PROVE  p \notin Left' /\ position'[p] < position'[n]
      <4>1. /\ p \in inSet \ Left /\ p \notin Left'
            /\ position'[p] = position[p]
        BY <1>2, <1>3, <3>1
      <4>2. position[p] \in 1..Cardinality(inSet \ Left)
        BY <2>1, <4>1
      <4>3. QED
        BY <2>2, <3>2, <4>1, <4>2
    <3>4. QED
      BY <3>2, <3>3
  <2>5. IF root \in Left' THEN Left' = inSet ELSE position'[root] = 1
    <3>1. CASE root \notin Left
      BY <1>1, <1>2, <1>3, <3>1 DEF OrderInv, WorklistInv
    <3>2. CASE root \in Left
      <4>1. Left = inSet
        BY <1>1, <3>2 DEF OrderInv
      <4>2. \A n \in inSet : remaining[n] = InSetParents(n)
        BY <1>1, <4>1 DEF RoundsInv, InSetParents
      <4>3. Ready = {root}
        BY <1>1, <3>2, <4>1, <4>2, RootHasNoParents DEF Ready, Left
      <4>4. QED
        BY <1>2, <1>3, <4>1, <4>3
    <3>3. QED
      BY <3>1, <3>2
  <2>6. QED
    BY <1>1, <1>2, <2>3, <2>4, <2>5
<1>8. NumberingInv'
  <2>1. NumberingInv /\ Emit(Ready)
    BY DEF IInv, EmitReady
  <2>2. /\ \A p \in Emitted' : position'[p] \in 1..Cardinality(Emitted')
        /\ \A p, q \in Emitted' : position'[p] = position'[q] => p = q
    BY <1>1, <1>2, <2>1, EmitNumbering
  <2>3. QED
    BY <1>1, <2>2 DEF NumberingInv
<1>9. QED
  BY <1>4, <1>5, <1>6, <1>7, <1>8 DEF IInv

\* The fallback, which only a circle reaches.
LEMMA EmitCircleIInv == ASSUME IInv, EmitCircle PROVE IInv'
<1>1. /\ TypeOK /\ WorklistInv /\ RoundsInv
      /\ pc = "sort" /\ pc' = "done" /\ stack = {}
      /\ UNCHANGED <<declared, root, inSet, stack, remaining>>
      /\ Left \subseteq inSet /\ Left # {} /\ Ready = {}
  BY DEF IInv, WorklistInv, EmitCircle, TypeOK, Left
<1>2. position' \in [inSet -> Nat]
  BY <1>1, EmitPositions DEF EmitCircle, Left
<1>3. TypeOK'
  BY <1>1, <1>2 DEF TypeOK
<1>4. WorklistInv'
  BY <1>1, SortWorklist
<1>5. RoundsInv'
  BY <1>1, <1>2, SameParents DEF RoundsInv, Left
<1>6. OrderInv'
  <2>1. ~Acyclic(inSet)
    BY <1>1, SomeReady
  <2>2. QED
    BY <1>1, <2>1, SameParents DEF OrderInv
<1>7. NumberingInv'
  <2>1. NumberingInv /\ Emit(Left)
    BY DEF IInv, EmitCircle, Left
  <2>2. /\ Emitted' = Emitted \cup Left
        /\ \A p \in Emitted' : position'[p] \in 1..Cardinality(Emitted')
        /\ \A p, q \in Emitted' : position'[p] = position'[q] => p = q
    BY <1>1, <2>1, EmitNumbering
  <2>3. Emitted' = inSet'
    BY <1>1, <2>2, AllNumbered
  <2>4. QED
    BY <2>2, <2>3 DEF NumberingInv
<1>8. QED
  BY <1>3, <1>4, <1>5, <1>6, <1>7 DEF IInv

\* The second loop ends.
LEMMA FinishIInv == ASSUME IInv, Finish PROVE IInv'
<1>1. /\ TypeOK /\ WorklistInv /\ RoundsInv /\ OrderInv
      /\ pc = "sort" /\ pc' = "done" /\ stack = {} /\ Left = {}
      /\ UNCHANGED <<declared, root, inSet, stack, remaining, position>>
  BY DEF IInv, WorklistInv, Finish, Left
<1>2. TypeOK'
  BY <1>1 DEF TypeOK
<1>3. WorklistInv'
  BY <1>1, SortWorklist
<1>4. RoundsInv'
  BY <1>1, SameParents DEF RoundsInv, Left
<1>5. OrderInv'
  BY <1>1, SameParents DEF OrderInv, Left
<1>6. NumberingInv'
  <2>1. NumberingInv /\ Emitted' = Emitted
    BY <1>1 DEF IInv, Emitted
  <2>2. Emitted = inSet
    BY <1>1, AllNumbered
  <2>3. QED
    BY <1>1, <2>1, <2>2 DEF NumberingInv
<1>7. QED
  BY <1>2, <1>3, <1>4, <1>5, <1>6 DEF IInv

\* Every step keeps the invariant.
LEMMA NextIInv == IInv /\ [Next]_vars => IInv'
<1> SUFFICES ASSUME IInv, [Next]_vars PROVE IInv'
  OBVIOUS
<1>1. CASE UNCHANGED vars
  <2>1. UNCHANGED <<declared, root, pc, inSet, stack, remaining, position>>
    BY <1>1 DEF vars
  <2>2. TypeOK'
    BY <2>1 DEF IInv, TypeOK
  <2>3. WorklistInv'
    <3>1. \A p : Parents(p)' = Parents(p) /\ Children(p)' = Children(p)
      BY <2>1 DEF Parents, Children
    <3>2. \A S : Downward(S)' <=> Downward(S)
      BY <3>1 DEF Downward
    <3>3. QED
      BY <2>1, <3>1, <3>2 DEF IInv, WorklistInv, Found, InSetParents
  <2>4. RoundsInv'
    BY <2>1, SameParents DEF IInv, RoundsInv, Left
  <2>5. OrderInv'
    BY <2>1, SameParents DEF IInv, OrderInv, Left
  <2>6. NumberingInv'
    BY <2>1 DEF IInv, NumberingInv, Emitted
  <2>7. QED
    BY <2>2, <2>3, <2>4, <2>5, <2>6 DEF IInv
<1>2. QED
  BY <1>1, CollectIInv, StartSortIInv, EmitReadyIInv, EmitCircleIInv,
     FinishIInv DEF Next

-----------------------------------------------------------------------------
(* The theorems.                                                           *)

\* The invariant, for any profiles and any parent files.
THEOREM Invariance == Spec => []IInv
BY InitIInv, NextIInv, PTL DEF Spec

\* The cascade is the root and everything downstream of it, circles and
\* missing parents included.
THEOREM Complete == Spec => []CascadeIsComplete
<1>1. IInv => CascadeIsComplete
  BY EmptyWorklist DEF IInv, CascadeIsComplete, WorklistInv
<1>2. QED
  BY <1>1, Invariance, PTL

\* A profile is built after its parents, unless the cascade has a circle.
THEOREM TopologicalOrder == Spec => []ParentsFirst
<1>1. IInv => ParentsFirst
  <2> SUFFICES ASSUME IInv, pc = "done", Acyclic(inSet)
               PROVE  \A n \in inSet : \A p \in InSetParents(n) :
                          position[p] < position[n]
    BY DEF ParentsFirst
  <2>1. OrderInv
    BY DEF IInv
  <2>2. Left = {}
    BY <2>1 DEF OrderInv
  <2>3. QED
    BY <2>1, <2>2 DEF OrderInv
<1>2. QED
  BY <1>1, Invariance, PTL

\* Nothing is built before the root, unless the cascade has a circle.
THEOREM RootLeads == Spec => []RootFirst
<1>1. IInv => RootFirst
  BY DEF IInv, OrderInv, WorklistInv, RootFirst
<1>2. QED
  BY <1>1, Invariance, PTL

\* As many different positions as profiles leave none of them out.
LEMMA NoneLeftOut ==
    ASSUME TypeOK, NumberingInv, pc = "done",
           NEW i \in 1..Cardinality(inSet)
    PROVE  \E p \in inSet : position[p] = i
<1> DEFINE N == Cardinality(inSet)
           T == (1..N) \ {i}
           f == [p \in inSet |-> position[p]]
<1>1. /\ \A p \in inSet : position[p] \in 1..N
      /\ \A p, q \in inSet : position[p] = position[q] => p = q
  BY DEF NumberingInv
<1>2. IsFiniteSet(inSet) /\ N \in Nat
  BY FiniteParts DEF TypeOK
<1> HIDE DEF N
<1>3. IsFiniteSet(1..N) /\ Cardinality(1..N) = N
  BY <1>2, FS_Interval
<1>4. i \in 1..N
  BY DEF N
<1>5. IsFiniteSet(T) /\ Cardinality(T) = N - 1
  <2>1. IsFiniteSet((1..N) \ {i}) /\ Cardinality((1..N) \ {i}) = Cardinality(1..N) - 1
    BY <1>3, <1>4, FS_RemoveElement, Zenon
  <2>2. QED
    BY <1>3, <2>1
<1> SUFFICES ASSUME \A p \in inSet : position[p] # i PROVE FALSE
  OBVIOUS
<1>6. f \in [inSet -> T]
  BY <1>1
<1>7. Cardinality(T) < Cardinality(inSet)
  BY <1>2, <1>5 DEF N
<1> HIDE DEF T, f
<1>8. PICK p \in inSet, q \in inSet : p # q /\ f[p] = f[q]
  BY <1>2, <1>5, <1>6, <1>7, FS_PigeonHole
<1>9. QED
  BY <1>1, <1>8 DEF f

\* Every profile of the cascade has a build of its own, none has two,
\* circles and all.
THEOREM OneBuildEach == Spec => []EachBuiltOnce
<1>1. IInv => EachBuiltOnce
  <2> SUFFICES ASSUME IInv, pc = "done", NEW i \in 1..Cardinality(inSet)
               PROVE  \E p \in inSet : \A q \in inSet : position[q] = i <=> q = p
    BY DEF EachBuiltOnce
  <2>1. TypeOK /\ NumberingInv
    BY DEF IInv
  <2>2. PICK p \in inSet : position[p] = i
    BY <2>1, NoneLeftOut
  <2>3. QED
    BY <2>1, <2>2 DEF NumberingInv
<1>2. QED
  BY <1>1, Invariance, PTL

=============================================================================
