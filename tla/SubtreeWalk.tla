----------------------------- MODULE SubtreeWalk -----------------------------
(***************************************************************************)
(* The loop of subtreeIds (lib/documents/tree.ts), one pass per step: a    *)
(* breadth-first walk over a list that grows as it is walked.  It must     *)
(* return the least set DocumentTree!subtreeIds names, parents first, and  *)
(* end on every file the store can hold: one with a cycle and one whose    *)
(* parentIds name documents that are not there included.                   *)
(***************************************************************************)
EXTENDS DocumentTree, SequencesExt, FiniteSetTheorems, TLAPS

CONSTANT
  Order \* the ids in the order documents.json lists them

ASSUME OrderAssumption ==
  /\ Order \in Seq(Ids)
  /\ \A c \in Ids : \E k \in DOMAIN Order : Order[k] = c
  /\ \A j, k \in DOMAIN Order : Order[j] = Order[k] => j = k

VARIABLES
  documents, \* the catalogue walked, never changed
  ids,       \* the list the function returns
  i          \* the position of the next pass

vars == <<documents, ids, i>>

\* The start is ids[1]: the list begins as [id] and only grows.
id == ids[1]

Done == i > Len(ids)

Reached == {ids[k] : k \in DOMAIN ids}

NewChildren(parentId) == childrenOf(documents, parentId) \ Reached

\* c comes before d in documents.json.
Before(c, d) == \E j, k \in DOMAIN Order : j < k /\ Order[j] = c /\ Order[k] = d

\* The list a pass over a parent leaves: the children that were not there are
\* pushed in the catalogue's own order.
Grown(parentId, list) ==
  LET n == Cardinality(NewChildren(parentId))
  IN \E pushed \in [1..n -> NewChildren(parentId)] :
       /\ \A j, k \in 1..n : j < k => Before(pushed[j], pushed[k])
       /\ list = ids \o pushed

Init ==
  /\ \E S \in SUBSET Ids :
       /\ documents \in [S -> [parent : Ids \cup {NoParent}]]
       /\ ids \in {<<d>> : d \in S}
  /\ i = 1

\* Mutant: the list is walked as it was, not as it grows.
PassOnce ==
  /\ ~ Done
  /\ Grown(ids[i], ids')
  /\ i' = Len(ids') + 1
  /\ UNCHANGED documents

\* Mutant: i is not advanced.
PassWithoutStep ==
  /\ ~ Done
  /\ Grown(ids[i], ids')
  /\ UNCHANGED <<documents, i>>

Pass ==
  /\ ~ Done
  /\ Grown(ids[i], ids')
  /\ i' = i + 1
  /\ UNCHANGED documents

\* The function runs to its end without a pause.
Spec == Init /\ [][Pass]_vars /\ WF_vars(Pass)

-----------------------------------------------------------------------------
ParentsFirst ==
  \A k \in 2 .. Len(ids) : \E j \in 1 .. k - 1 : ids[j] = documents[ids[k]].parent

\* What is returned is id and everything under it, no more and no less, and each
\* once: deleteDocument writes one trash row per id.  And "parent first": each
\* but the start comes after its parent, so a client that applies them in order
\* always has the parent.
ReturnsSubtree ==
  /\ ParentsFirst
  /\ Done => Reached = subtreeIds(documents, id) /\ IsInjective(ids)

\* "This must not hang on it": the walk ends on a catalogue with a cycle too.
Terminates == <>Done

\* The reason it ends: the list never grows beyond the ids there are, and every
\* pass takes one of it.
Bounded == i <= Len(ids) + 1 /\ Len(ids) <= Cardinality(Ids)

-----------------------------------------------------------------------------
(* The loop's invariant, and its proof for every catalogue and every order *)

ListHolds ==
  /\ DOMAIN documents \subseteq Ids
  /\ ids \in Seq(DOMAIN documents) /\ ids # <<>>
  /\ i \in 1..Len(ids) + 1

\* Each document once, each under the start.
OnlyBelow ==
  /\ \A j, k \in DOMAIN ids : ids[j] = ids[k] => j = k
  /\ Reached \subseteq subtreeIds(documents, id)

\* The children of every document passed are in the list.
PassedClosed == \A k \in 1..i - 1 : childrenOf(documents, ids[k]) \subseteq Reached

Inv == ListHolds /\ OnlyBelow /\ ParentsFirst /\ PassedClosed

\* There are finitely many ids: documents.json lists them.
LEMMA IdsFinite == IsFiniteSet(Ids)
<1>1. Len(Order) \in Nat /\ DOMAIN Order = 1..Len(Order)
  BY OrderAssumption
<1>2. [k \in 1..Len(Order) |-> Order[k]] \in Surjection(1..Len(Order), Ids)
  BY <1>1, OrderAssumption DEF Surjection
<1>3. QED
  BY <1>1, <1>2, FS_NatSurjection DEF ExistsSurjection

\* What a pass pushes: each new child once, and nothing else.
LEMMA Pushing ==
  ASSUME ListHolds, NEW parentId, NEW list, Grown(parentId, list)
  PROVE  \E n \in Nat : \E pushed \in [1..n -> NewChildren(parentId)] :
           /\ list = ids \o pushed
           /\ \A j, k \in 1..n : pushed[j] = pushed[k] => j = k
           /\ \A c \in NewChildren(parentId) : \E k \in 1..n : pushed[k] = c
<1> DEFINE new == NewChildren(parentId)
           n == Cardinality(new)
<1>1. IsFiniteSet(new) /\ n \in Nat
  <2>1. new \subseteq Ids
    BY DEF NewChildren, childrenOf, ListHolds
  <2> HIDE DEF new
  <2>2. QED
    BY <2>1, IdsFinite, FS_Subset, FS_CardinalityType
<1>2. PICK pushed \in [1..n -> new] :
        /\ \A j, k \in 1..n : j < k => Before(pushed[j], pushed[k])
        /\ list = ids \o pushed
  BY DEF Grown
<1> HIDE DEF n, new
<1>3. \A j, k \in 1..n : j < k => pushed[j] # pushed[k]
  <2>1. DOMAIN Order \subseteq Nat
    BY OrderAssumption
  <2>2. \A c, d : Before(c, d) => c # d
    BY <2>1, OrderAssumption DEF Before
  <2>3. QED
    BY <1>2, <2>2
<1>4. \A j, k \in 1..n : pushed[j] = pushed[k] => j = k
  BY <1>1, <1>3
<1>5. pushed \in Injection(1..n, new)
  BY <1>2, <1>4 DEF Injection, IsInjective
<1>6. pushed \in Surjection(1..n, new)
  <2>1. Cardinality(1..n) = n
    BY <1>1, FS_Interval
  <2>2. QED
    BY <1>1, <1>5, <2>1, FS_Injection DEF n
<1>7. \A c \in new : \E k \in 1..n : pushed[k] = c
  BY <1>6 DEF Surjection
<1>8. QED
  BY <1>1, <1>2, <1>4, <1>7 DEF new

LEMMA InitHolds == Init => Inv
<1> SUFFICES ASSUME Init PROVE Inv
  OBVIOUS
<1>1. PICK S \in SUBSET Ids :
        /\ documents \in [S -> [parent : Ids \cup {NoParent}]]
        /\ ids \in {<<d>> : d \in S}
  BY DEF Init
<1>2. PICK d \in S : ids = <<d>>
  BY <1>1
<1>3. DOMAIN documents = S /\ i = 1 /\ Len(ids) = 1 /\ ids[1] = d /\ DOMAIN ids = {1}
  BY <1>1, <1>2 DEF Init
<1>4. ListHolds
  BY <1>1, <1>2, <1>3 DEF ListHolds
<1>5. OnlyBelow
  BY <1>3 DEF OnlyBelow, Reached, id, subtreeIds
<1>6. ParentsFirst /\ PassedClosed
  BY <1>3 DEF ParentsFirst, PassedClosed
<1>7. QED
  BY <1>4, <1>5, <1>6 DEF Inv

LEMMA PassKeeps ==
  ASSUME Inv, Pass
  PROVE  Inv'
<1>1. /\ DOMAIN documents \subseteq Ids
      /\ ids \in Seq(DOMAIN documents) /\ Len(ids) \in Nat /\ Len(ids) >= 1
      /\ DOMAIN ids = 1..Len(ids)
      /\ i \in 1..Len(ids)
  BY DEF Inv, ListHolds, Pass, Done
<1> DEFINE parent == ids[i]
           new == NewChildren(parent)
<1>2. PICK n \in Nat : \E pushed \in [1..n -> new] :
        /\ ids' = ids \o pushed
        /\ \A j, k \in 1..n : pushed[j] = pushed[k] => j = k
        /\ \A c \in new : \E k \in 1..n : pushed[k] = c
  <2>1. ListHolds /\ Grown(parent, ids')
    BY DEF Inv, Pass
  <2>2. QED
    BY <2>1, Pushing
<1>3. PICK pushed \in [1..n -> new] :
        /\ ids' = ids \o pushed
        /\ \A j, k \in 1..n : pushed[j] = pushed[k] => j = k
        /\ \A c \in new : \E k \in 1..n : pushed[k] = c
  BY <1>2
<1>4. new \subseteq DOMAIN documents /\ new \cap Reached = {}
      /\ \A c \in new : documents[c].parent = parent
  BY DEF NewChildren, childrenOf
<1>5. UNCHANGED documents /\ i' = i + 1
  BY DEF Pass
<1>6. /\ pushed \in Seq(DOMAIN documents) /\ Len(pushed) = n
      /\ \A k \in 1..n : pushed[k] \in new
  BY <1>3, <1>4
<1>7. /\ ids' \in Seq(DOMAIN documents)
      /\ Len(ids') = Len(ids) + n
      /\ DOMAIN ids' = 1..Len(ids) + n
      /\ \A k \in 1..Len(ids) : ids'[k] = ids[k]
      /\ \A k \in Len(ids) + 1..Len(ids) + n :
           k - Len(ids) \in 1..n /\ ids'[k] = pushed[k - Len(ids)]
  BY <1>1, <1>3, <1>6
<1>8. ListHolds'
  BY <1>1, <1>5, <1>7 DEF ListHolds
<1> HIDE DEF new
<1>9. \A c \in Reached : \E k \in 1..Len(ids) : ids[k] = c
  BY <1>1 DEF Reached
<1>10. Reached' = Reached \cup new
  <2>1. ASSUME NEW k \in DOMAIN ids'
        PROVE  ids'[k] \in Reached \cup new
    <3>1. CASE k \in 1..Len(ids)
      BY <1>1, <1>7, <3>1 DEF Reached
    <3>2. CASE k \in Len(ids) + 1..Len(ids) + n
      BY <1>6, <1>7, <3>2
    <3>3. QED
      BY <1>1, <1>7, <3>1, <3>2
  <2>2. ASSUME NEW c \in Reached
        PROVE  c \in Reached'
    BY <1>1, <1>7, <1>9 DEF Reached
  <2>3. ASSUME NEW c \in new
        PROVE  c \in Reached'
    <3>1. PICK k \in 1..n : pushed[k] = c
      BY <1>3
    <3>2. Len(ids) + k \in Len(ids) + 1..Len(ids) + n /\ (Len(ids) + k) - Len(ids) = k
      BY <1>1
    <3>3. ids'[Len(ids) + k] = c /\ Len(ids) + k \in DOMAIN ids'
      BY <1>1, <1>7, <3>1, <3>2
    <3>4. QED
      BY <3>3 DEF Reached
  <2>4. QED
    BY <2>1, <2>2, <2>3 DEF Reached
<1>11. id' = id
  BY <1>1, <1>7 DEF id
<1>12. OnlyBelow'
  <2>1. \A j, k \in DOMAIN ids' : ids'[j] = ids'[k] => j = k
    <3> SUFFICES ASSUME NEW j \in DOMAIN ids', NEW k \in DOMAIN ids', ids'[j] = ids'[k]
                 PROVE  j = k
      OBVIOUS
    <3>1. CASE j \in 1..Len(ids) /\ k \in 1..Len(ids)
      BY <1>1, <1>7, <3>1 DEF Inv, OnlyBelow
    <3>2. ASSUME NEW a \in 1..Len(ids), NEW b \in Len(ids) + 1..Len(ids) + n
          PROVE  ids'[a] # ids'[b]
      BY <1>1, <1>4, <1>6, <1>7 DEF Reached
    <3>3. CASE j \in Len(ids) + 1..Len(ids) + n /\ k \in Len(ids) + 1..Len(ids) + n
      BY <1>1, <1>3, <1>7, <3>3
    <3>4. QED
      BY <1>1, <1>7, <3>1, <3>2, <3>3
  <2>2. new \subseteq subtreeIds(documents, id)
    <3>1. parent \in subtreeIds(documents, id)
      BY <1>1 DEF Inv, OnlyBelow, Reached
    <3>2. QED
      BY <1>4, <3>1 DEF subtreeIds, ClosedUnderChildren
  <2>3. Reached' \subseteq subtreeIds(documents, id)
    BY <1>10, <2>2 DEF Inv, OnlyBelow
  <2>4. QED
    BY <1>5, <1>11, <2>1, <2>3 DEF OnlyBelow
<1>13. ParentsFirst'
  <2> SUFFICES ASSUME NEW k \in 2..Len(ids')
               PROVE  \E j \in 1..k - 1 : ids'[j] = documents[ids'[k]].parent
    BY <1>5 DEF ParentsFirst
  <2>1. CASE k \in 1..Len(ids)
    <3>1. PICK j \in 1..k - 1 : ids[j] = documents[ids[k]].parent
      BY <1>1, <2>1 DEF Inv, ParentsFirst
    <3>2. QED
      BY <1>1, <1>7, <2>1, <3>1
  <2>2. CASE k \in Len(ids) + 1..Len(ids) + n
    <3>1. documents[ids'[k]].parent = ids'[i]
      BY <1>1, <1>4, <1>6, <1>7, <2>2
    <3>2. QED
      BY <1>1, <2>2, <3>1
  <2>3. QED
    BY <1>1, <1>7, <2>1, <2>2
<1>14. PassedClosed'
  <2> SUFFICES ASSUME NEW k \in 1..i
               PROVE  childrenOf(documents, ids[k]) \subseteq Reached \cup new
    BY <1>1, <1>5, <1>7, <1>10 DEF PassedClosed
  <2>1. CASE k = i
    BY <2>1 DEF new, NewChildren
  <2>2. CASE k # i
    BY <1>1, <2>2 DEF Inv, PassedClosed
  <2>3. QED
    BY <2>1, <2>2
<1>15. QED
  BY <1>8, <1>12, <1>13, <1>14 DEF Inv

LEMMA Invariant == Spec => []Inv
<1>1. ASSUME Inv, UNCHANGED vars
      PROVE  Inv'
  BY <1>1
     DEF Inv, vars, ListHolds, OnlyBelow, ParentsFirst, PassedClosed, Reached, id
<1>2. Inv /\ [Pass]_vars => Inv'
  BY <1>1, PassKeeps
<1>3. QED
  BY <1>2, InitHolds, PTL DEF Spec

\* tree.ts, subtreeIds: on every catalogue, a damaged one included, and in every
\* order of its rows, the loop lists parents first, and returns the document and
\* everything under it, each once.
THEOREM AlwaysReturnsSubtree ==
  Spec => []ReturnsSubtree
<1>1. Inv => ReturnsSubtree
  <2> SUFFICES ASSUME Inv PROVE ReturnsSubtree
    OBVIOUS
  <2>1. ASSUME Done
        PROVE  Reached = subtreeIds(documents, id) /\ IsInjective(ids)
    <3>1. /\ ids \in Seq(DOMAIN documents) /\ Len(ids) \in Nat /\ Len(ids) >= 1
          /\ DOMAIN ids = 1..Len(ids) /\ i = Len(ids) + 1
      BY <2>1 DEF Inv, ListHolds, Done
    <3>2. Reached \subseteq DOMAIN documents /\ id \in Reached
      BY <3>1 DEF Reached, id
    <3>3. ClosedUnderChildren(documents, Reached)
      BY <3>1 DEF Inv, PassedClosed, ClosedUnderChildren, childrenOf, Reached
    <3>4. QED
      BY <3>2, <3>3 DEF Inv, OnlyBelow, subtreeIds, IsInjective
  <2>2. QED
    BY <2>1 DEF Inv, ReturnsSubtree
<1>2. QED
  BY <1>1, Invariant, PTL

\* "This must not hang on it": the list never holds more than the ids there are,
\* so a walk of any catalogue is over after that many passes.
THEOREM AlwaysBounded ==
  Spec => []Bounded
<1>1. Inv => Bounded
  <2> SUFFICES ASSUME Inv PROVE Bounded
    OBVIOUS
  <2>1. /\ Len(ids) \in Nat /\ i \in 1..Len(ids) + 1
        /\ \A k \in 1..Len(ids) : ids[k] \in Ids
        /\ DOMAIN ids = 1..Len(ids)
    BY DEF Inv, ListHolds
  <2>2. [k \in 1..Len(ids) |-> ids[k]] \in Injection(1..Len(ids), Ids)
    BY <2>1 DEF Inv, OnlyBelow, Injection, IsInjective
  <2>3. Cardinality(1..Len(ids)) <= Cardinality(Ids)
    BY <2>2, IdsFinite, FS_Injection
  <2>4. Cardinality(1..Len(ids)) = Len(ids)
    <3> DEFINE n == Len(ids)
    <3>1. n \in Nat
      BY <2>1
    <3> HIDE DEF n
    <3>2. Cardinality(1..n) = n
      BY <3>1, FS_Interval
    <3>3. QED
      BY <3>2 DEF n
  <2>5. QED
    BY <2>1, <2>3, <2>4 DEF Bounded
<1>2. QED
  BY <1>1, Invariant, PTL
=============================================================================
