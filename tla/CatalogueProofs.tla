--------------------------- MODULE CatalogueProofs ---------------------------
(***************************************************************************)
(* Catalogue's invariants, for every set of ids, of names and of requests, *)
(* every TTL and every number of faults.                                   *)
(*                                                                         *)
(* FaultyInv holds whatever stops half way and is inductive for            *)
(* FaultySpec; Inv adds what holds only while no handler stops half way    *)
(* and is inductive for Spec.  From Inv follows the refinement of          *)
(* DocumentLife.                                                           *)
(***************************************************************************)
EXTENDS Catalogue, FiniteSetTheorems, WellFoundedInduction, SequenceTheorems, TLAPS

(* What the operators of DocumentTree promise, for every catalogue. *)

-----------------------------------------------------------------------------
(* uniqueName *)

\* The loop counts up from 2: of the numbers it could stop at there is a
\* least.
LEMMA LeastNumber ==
  ASSUME NEW S \in SUBSET Nat, S # {}
  PROVE  \E n \in S : \A m \in S : n <= m
<1>1. PICK n \in S : \A m \in S : <<m, n>> \notin OpToRel(<, Nat)
  BY NatLessThanWellFounded, WFMin
<1>2. \A m \in S : ~ (m < n)
  BY <1>1, Zenon DEF OpToRel
<1>3. QED
  BY <1>2

\* What uniqueName's loop tries are names.
LEMMA SuffixedIsName ==
  ASSUME NEW name \in Names, NEW n \in Nat
  PROVE  Suffixed(name, n) \in Names
  BY DEF Suffixed, Names

\* The counting behind uniqueName's loop: one more candidate than there are
\* taken names, and candidates with different numbers are different names.
LEMMA SomeSuffixIsFree ==
  ASSUME NEW name \in Names, NEW taken, IsFiniteSet(taken)
  PROVE  \E n \in 2 .. Cardinality(taken) + 2 : Suffixed(name, n) \notin taken
<1> DEFINE k == Cardinality(taken)
           f == [n \in 2 .. k + 2 |-> Suffixed(name, n)]
<1>1. k \in Nat
  BY FS_CardinalityType
<1>2. SUFFICES ASSUME \A n \in 2 .. k + 2 : Suffixed(name, n) \in taken
               PROVE  FALSE
  OBVIOUS
<1>3. f \in [2 .. k + 2 -> taken]
  BY <1>2
<1>4. IsFiniteSet(2 .. k + 2) /\ Cardinality(2 .. k + 2) = k + 1
  BY <1>1, FS_Interval
<1>5. PICK m, n \in 2 .. k + 2 : m # n /\ f[m] = f[n]
  <2> HIDE DEF f
  <2> QED BY <1>1, <1>3, <1>4, FS_PigeonHole
<1>6. Suffixed(name, m).suffixes = Suffixed(name, n).suffixes
  BY <1>5
<1>7. Append(name.suffixes, m) = Append(name.suffixes, n)
  BY <1>6 DEF Suffixed, Names
<1>8. QED
  BY <1>1, <1>5, <1>7 DEF Names

\* documents.ts, uniqueName: the name it returns is a name no sibling has.
LEMMA UniqueNameIsFree ==
  ASSUME NEW name \in Names, NEW taken, IsFiniteSet(taken)
  PROVE  uniqueName(name, taken) \in Names \ taken
<1> DEFINE k    == Cardinality(taken)
           free == {n \in 2 .. k + 2 : Suffixed(name, n) \notin taken}
           P(n) == /\ Suffixed(name, n) \notin taken
                   /\ \A m \in 2 .. n - 1 : Suffixed(name, m) \in taken
<1>1. CASE name \notin taken
  BY <1>1 DEF uniqueName
<1>2. CASE name \in taken
  <2>1. k \in Nat
    BY FS_CardinalityType
  <2>2. free \in SUBSET Nat /\ free # {}
    BY <2>1, SomeSuffixIsFree
  <2>3. PICK n \in free : \A m \in free : n <= m
    <3> HIDE DEF free
    <3> QED BY <2>2, LeastNumber
  <2>4. \A m \in 2 .. n - 1 : Suffixed(name, m) \in taken
    BY <2>1, <2>3
  <2>5. \E s \in 2 .. k + 2 : P(s)
    BY <2>3, <2>4
  <2>6. FreeSuffix(name, taken) \in 2 .. k + 2 /\ P(FreeSuffix(name, taken))
    BY <2>5 DEF FreeSuffix
  <2>7. \A s \in Nat : Suffixed(name, s) \in Names
    BY SuffixedIsName
  <2>8. QED
    BY <1>2, <2>1, <2>6, <2>7 DEF uniqueName
<1>3. QED
  BY <1>1, <1>2

-----------------------------------------------------------------------------
(* subtreeIds *)

\* The walk takes the document it starts from.
LEMMA SubtreeHasRoot ==
  ASSUME NEW documents, NEW id \in DOMAIN documents
  PROVE  id \in subtreeIds(documents, id)
BY DEF subtreeIds

\* The walk takes a document's children with it.
LEMMA SubtreeIsClosed ==
  ASSUME NEW documents, NEW id
  PROVE  ClosedUnderChildren(documents, subtreeIds(documents, id))
BY DEF subtreeIds, ClosedUnderChildren

\* The walk takes nothing else: what it took, but for its start, it took as
\* the child of a document it had taken.
LEMMA SubtreeHasParents ==
  ASSUME NEW documents, NEW id \in DOMAIN documents,
         NEW d \in subtreeIds(documents, id), d # id
  PROVE  documents[d].parent \in subtreeIds(documents, id)
<1> DEFINE T == subtreeIds(documents, id)
<1>1. SUFFICES ASSUME documents[d].parent \notin T
               PROVE  FALSE
  OBVIOUS
<1>2. T \ {d} \in SUBSET DOMAIN documents
  BY DEF subtreeIds
<1>3. id \in T \ {d}
  BY SubtreeHasRoot
<1>4. ClosedUnderChildren(documents, T \ {d})
  BY <1>1, SubtreeIsClosed DEF ClosedUnderChildren
<1>5. d \in T \ {d}
  BY <1>2, <1>3, <1>4 DEF subtreeIds
<1>6. QED
  BY <1>5

-----------------------------------------------------------------------------
(* Catalogues stay catalogues *)

\* A catalogue is a function to rows whose domain is a set of ids.
LEMMA CatalogueIsFunction ==
  ASSUME NEW documents
  PROVE  IsCatalogue(documents) <=>
           /\ DOMAIN documents \subseteq Ids
           /\ documents \in [DOMAIN documents -> Rows]
BY DEF IsCatalogue

\* documents.filter leaves a catalogue.
LEMMA RestrictIsCatalogue ==
  ASSUME NEW documents, IsCatalogue(documents),
         NEW S \in SUBSET DOMAIN documents
  PROVE  /\ IsCatalogue(Restrict(documents, S))
         /\ DOMAIN Restrict(documents, S) = S
         /\ \A d \in S : Restrict(documents, S)[d] = documents[d]
<1>1. Restrict(documents, S) = [d \in S |-> documents[d]]
  BY DEF Restrict
<1>2. Restrict(documents, S) \in [S -> Rows] /\ S \subseteq Ids
  BY <1>1, CatalogueIsFunction
<1>3. QED
  BY <1>1, <1>2 DEF IsCatalogue

\* Without, in the same terms.
LEMMA WithoutIsCatalogue ==
  ASSUME NEW documents, IsCatalogue(documents), NEW S
  PROVE  /\ IsCatalogue(Without(documents, S))
         /\ DOMAIN Without(documents, S) = DOMAIN documents \ S
         /\ \A d \in DOMAIN documents \ S :
              Without(documents, S)[d] = documents[d]
<1>1. DOMAIN documents \ S \in SUBSET DOMAIN documents
  OBVIOUS
<1>2. QED
  BY <1>1, RestrictIsCatalogue DEF Without

\* Rows added to a catalogue, or put in the place of its own, leave one.
LEMMA WithIsCatalogue ==
  ASSUME NEW documents, IsCatalogue(documents),
         NEW rows, IsCatalogue(rows)
  PROVE  /\ IsCatalogue(With(documents, rows))
         /\ DOMAIN With(documents, rows) = DOMAIN documents \cup DOMAIN rows
         /\ \A d \in DOMAIN rows : With(documents, rows)[d] = rows[d]
         /\ \A d \in DOMAIN documents \ DOMAIN rows :
              With(documents, rows)[d] = documents[d]
<1>1. /\ DOMAIN documents \subseteq Ids
      /\ documents \in [DOMAIN documents -> Rows]
      /\ DOMAIN rows \subseteq Ids
      /\ rows \in [DOMAIN rows -> Rows]
  BY CatalogueIsFunction
<1>2. With(documents, rows) \in [DOMAIN documents \cup DOMAIN rows -> Rows]
  BY <1>1 DEF With
<1>3. QED
  BY <1>1, <1>2 DEF IsCatalogue, With

\* after is documents with one document's row added or replaced.
Puts(documents, id, row, after) ==
  /\ DOMAIN after = DOMAIN documents \cup {id}
  /\ after[id] = row
  /\ \A d \in DOMAIN documents \ {id} : after[d] = documents[d]

\* One row added.
LEMMA AddIsCatalogue ==
  ASSUME NEW documents, IsCatalogue(documents),
         NEW id \in Ids, NEW row \in Rows,
         NEW after, after = WithOne(documents, id, row)
  PROVE  IsCatalogue(after) /\ Puts(documents, id, row, after)
<1> DEFINE added == [d \in {id} |-> row]
<1>1. IsCatalogue(added) /\ DOMAIN added = {id} /\ added[id] = row
  BY DEF IsCatalogue
<1>2. after = With(documents, added)
  BY DEF WithOne
<1> HIDE DEF added
<1>3. /\ IsCatalogue(With(documents, added))
      /\ DOMAIN With(documents, added) = DOMAIN documents \cup DOMAIN added
      /\ \A d \in DOMAIN added : With(documents, added)[d] = added[d]
      /\ \A d \in DOMAIN documents \ DOMAIN added :
           With(documents, added)[d] = documents[d]
  BY <1>1, WithIsCatalogue, Zenon
<1>4. QED
  BY <1>1, <1>2, <1>3 DEF Puts

\* One row put in the place of another leaves a catalogue.
LEMMA ReplaceIsCatalogue ==
  ASSUME NEW documents, IsCatalogue(documents),
         NEW id \in DOMAIN documents, NEW row \in Rows
  PROVE  IsCatalogue([documents EXCEPT ![id] = row])
<1>1. /\ DOMAIN documents \subseteq Ids
      /\ documents \in [DOMAIN documents -> Rows]
  BY CatalogueIsFunction
<1>2. [documents EXCEPT ![id] = row] \in [DOMAIN documents -> Rows]
  BY <1>1
<1>3. QED
  BY <1>1, <1>2 DEF IsCatalogue

-----------------------------------------------------------------------------
(* Catalogues stay acyclic *)

\* What is left of a tree has no cycle.
LEMMA RestrictIsAcyclic ==
  ASSUME NEW documents, IsCatalogue(documents), Acyclic(documents),
         NEW S \in SUBSET DOMAIN documents
  PROVE  Acyclic(Restrict(documents, S))
<1>1. /\ DOMAIN Restrict(documents, S) = S
      /\ \A d \in S : Restrict(documents, S)[d] = documents[d]
  BY RestrictIsCatalogue
<1>2. SUFFICES ASSUME NEW U \in SUBSET S, U # {}
               PROVE  \E d \in U : documents[d].parent \notin U
  BY <1>1 DEF Acyclic
<1>3. QED
  BY <1>2 DEF Acyclic

\* A document created under one that is there, or at the root, closes no
\* cycle: nobody names the new id as a parent yet.
LEMMA CreateKeepsAcyclic ==
  ASSUME NEW documents, IsCatalogue(documents),
         Acyclic(documents), ParentsPresent(documents),
         NEW id \in Ids \ DOMAIN documents,
         NEW row \in Rows,
         row.parent \in DOMAIN documents \cup {NoParent}
  PROVE  Acyclic(WithOne(documents, id, row))
<1>1. PICK after : after = WithOne(documents, id, row)
  OBVIOUS
<1>2. /\ DOMAIN after = DOMAIN documents \cup {id}
      /\ after[id] = row
      /\ \A d \in DOMAIN documents : after[d] = documents[d]
  <2>1. id \in Ids /\ id \notin DOMAIN documents
    OBVIOUS
  <2>2. Puts(documents, id, row, after)
    BY <1>1, <2>1, AddIsCatalogue
  <2>3. QED
    BY <2>1, <2>2 DEF Puts
<1>3. SUFFICES Acyclic(after)
  BY <1>1
<1>4. SUFFICES ASSUME NEW S \in SUBSET (DOMAIN documents \cup {id}), S # {}
               PROVE  \E d \in S : after[d].parent \notin S
  BY <1>2 DEF Acyclic
<1>5. CASE S \ {id} = {}
  <2>1. S = {id}
    BY <1>4, <1>5
  <2>2. row.parent # id
    BY NoParentAssumption
  <2>3. QED
    BY <1>2, <2>1, <2>2
<1>6. CASE S \ {id} # {}
  <2>1. PICK d \in S \ {id} : documents[d].parent \notin S \ {id}
    BY <1>4, <1>6 DEF Acyclic
  <2>2. documents[d].parent # id
    BY <1>4, NoParentAssumption DEF ParentsPresent
  <2>3. QED
    BY <1>2, <1>4, <2>1, <2>2
<1>7. QED
  BY <1>5, <1>6

\* tree.ts, wouldCycle: a move that it lets through closes no cycle, for the
\* new parent is not below the document.
LEMMA MoveKeepsAcyclic ==
  ASSUME NEW documents, IsCatalogue(documents), Acyclic(documents),
         NEW id \in DOMAIN documents,
         NEW parentId, ~ wouldCycle(documents, id, parentId),
         NEW name
  PROVE  Acyclic([documents EXCEPT ![id] = Row(parentId, name)])
<1> DEFINE after == [documents EXCEPT ![id] = Row(parentId, name)]
           below == subtreeIds(documents, id)
<1>1. /\ DOMAIN after = DOMAIN documents
      /\ after[id].parent = parentId
      /\ \A d \in DOMAIN documents \ {id} : after[d] = documents[d]
  BY CatalogueIsFunction DEF Row
<1>2. SUFFICES Acyclic(after)
  OBVIOUS
<1> HIDE DEF after
<1>3. SUFFICES ASSUME NEW S \in SUBSET DOMAIN documents, S # {}
               PROVE  \E d \in S : after[d].parent \notin S
  BY <1>1 DEF Acyclic
<1>4. parentId \notin below
  BY NoParentAssumption, CatalogueIsFunction DEF wouldCycle, subtreeIds
<1>5. id \in below
  BY SubtreeHasRoot
<1>6. CASE id \notin S
  BY <1>1, <1>3, <1>6 DEF Acyclic
<1>7. CASE id \in S /\ S \subseteq below
  BY <1>1, <1>4, <1>7
<1>8. CASE id \in S /\ ~ (S \subseteq below)
  <2>1. PICK d \in S \ below : documents[d].parent \notin S \ below
    BY <1>3, <1>8 DEF Acyclic
  <2>2. documents[d].parent \notin below
    BY <1>3, <2>1, SubtreeIsClosed DEF ClosedUnderChildren
  <2>3. QED
    BY <1>1, <1>3, <1>5, <2>1, <2>2
<1>9. QED
  BY <1>6, <1>7, <1>8

\* A group whose root is put under a document outside it, or at the root,
\* closes no cycle: nothing outside the group hangs under it.
LEMMA AttachKeepsAcyclic ==
  ASSUME NEW kept, IsCatalogue(kept), Acyclic(kept), ParentsPresent(kept),
         NEW group, IsCatalogue(group), Acyclic(group),
         DOMAIN group \cap DOMAIN kept = {},
         NEW root \in DOMAIN group,
         NEW row \in Rows, row.parent \in DOMAIN kept \cup {NoParent}
  PROVE  Acyclic(With(kept, [group EXCEPT ![root] = row]))
<1> DEFINE placed == [group EXCEPT ![root] = row]
           after  == With(kept, placed)
<1>1. /\ IsCatalogue(placed)
      /\ DOMAIN placed = DOMAIN group
      /\ placed[root] = row
      /\ \A d \in DOMAIN group \ {root} : placed[d] = group[d]
  BY ReplaceIsCatalogue, CatalogueIsFunction
<1>2. /\ DOMAIN after = DOMAIN kept \cup DOMAIN placed
      /\ \A d \in DOMAIN placed : after[d] = placed[d]
      /\ \A d \in DOMAIN kept \ DOMAIN placed : after[d] = kept[d]
  <2> HIDE DEF placed
  <2> QED BY <1>1, WithIsCatalogue
<1>3. SUFFICES Acyclic(after)
  OBVIOUS
<1> HIDE DEF placed, after
<1>4. SUFFICES ASSUME NEW S \in SUBSET (DOMAIN kept \cup DOMAIN group), S # {}
               PROVE  \E d \in S : after[d].parent \notin S
  BY <1>1, <1>2 DEF Acyclic
<1>5. CASE S \cap DOMAIN kept # {}
  <2>1. PICK d \in S \cap DOMAIN kept :
          kept[d].parent \notin S \cap DOMAIN kept
    BY <1>5 DEF Acyclic
  <2>2. kept[d].parent \notin S
    BY <1>4, <2>1, NoParentAssumption, CatalogueIsFunction DEF ParentsPresent
  <2>3. QED
    BY <1>1, <1>2, <2>1, <2>2
<1>6. CASE S \cap DOMAIN kept = {}
  <2>1. S \subseteq DOMAIN group
    BY <1>4, <1>6
  <2>2. PICK d \in S : group[d].parent \notin S
    BY <1>4, <2>1 DEF Acyclic
  <2>3. CASE d = root
    <3>1. row.parent \notin S
      BY <1>6, <2>1, NoParentAssumption, CatalogueIsFunction
    <3>2. QED
      BY <1>1, <1>2, <2>3, <3>1
  <2>4. CASE d # root
    BY <1>1, <1>2, <2>1, <2>2, <2>4
  <2>5. QED
    BY <2>3, <2>4
<1>7. QED
  BY <1>5, <1>6

-----------------------------------------------------------------------------
(* Siblings keep different names *)

\* A document placed among siblings under a name none of them has: nobody
\* else's place or name changes.
LEMMA PlaceKeepsNamesUnique ==
  ASSUME NEW documents, NamesUnique(documents),
         NEW id, NEW row,
         NEW after,
         DOMAIN after = DOMAIN documents \cup {id},
         after[id] = row,
         \A d \in DOMAIN documents \ {id} : after[d] = documents[d],
         \A d \in childrenOf(documents, row.parent) \ {id} :
            documents[d].name # row.name
  PROVE  NamesUnique(after)
<1>1. SUFFICES ASSUME NEW c \in DOMAIN after, NEW d \in DOMAIN after,
                      after[c].parent = after[d].parent,
                      after[c].name = after[d].name,
                      c # d
               PROVE  FALSE
  BY DEF NamesUnique
<1>2. CASE c = id
  BY <1>1, <1>2 DEF childrenOf
<1>3. CASE d = id
  BY <1>1, <1>3 DEF childrenOf
<1>4. CASE c # id /\ d # id
  BY <1>1, <1>4 DEF NamesUnique
<1>5. QED
  BY <1>2, <1>3, <1>4

\* What is left of a catalogue has no two namesakes in one place.
LEMMA RestrictKeepsNamesUnique ==
  ASSUME NEW documents, IsCatalogue(documents), NamesUnique(documents),
         NEW S \in SUBSET DOMAIN documents
  PROVE  NamesUnique(Restrict(documents, S))
BY RestrictIsCatalogue DEF NamesUnique

\* A restored group brings no namesakes: its root has a name that is free
\* where it goes, and below the root the group is among itself.
LEMMA AttachKeepsNamesUnique ==
  ASSUME NEW kept, IsCatalogue(kept), NamesUnique(kept), ParentsPresent(kept),
         NEW group, IsCatalogue(group), NamesUnique(group),
         DOMAIN group \cap DOMAIN kept = {},
         NEW root \in DOMAIN group,
         \A d \in DOMAIN group \ {root} : group[d].parent \in DOMAIN group,
         NEW row \in Rows, row.parent \in DOMAIN kept \cup {NoParent},
         \A d \in childrenOf(kept, row.parent) : kept[d].name # row.name
  PROVE  NamesUnique(With(kept, [group EXCEPT ![root] = row]))
<1> DEFINE placed == [group EXCEPT ![root] = row]
           after  == With(kept, placed)
<1>1. /\ IsCatalogue(placed)
      /\ DOMAIN placed = DOMAIN group
      /\ placed[root] = row
      /\ \A d \in DOMAIN group \ {root} : placed[d] = group[d]
  BY ReplaceIsCatalogue, CatalogueIsFunction
<1>2. /\ DOMAIN after = DOMAIN kept \cup DOMAIN placed
      /\ \A d \in DOMAIN placed : after[d] = placed[d]
      /\ \A d \in DOMAIN kept \ DOMAIN placed : after[d] = kept[d]
  <2> HIDE DEF placed
  <2> QED BY <1>1, WithIsCatalogue
<1>3. SUFFICES NamesUnique(after)
  OBVIOUS
<1> HIDE DEF placed, after
<1>4. /\ \A d \in DOMAIN kept :
           after[d] = kept[d] /\ after[d].parent \in DOMAIN kept \cup {NoParent}
      /\ \A d \in DOMAIN group \ {root} :
           after[d] = group[d] /\ after[d].parent \in DOMAIN group
      /\ after[root] = row
  BY <1>1, <1>2 DEF ParentsPresent
<1>5. NoParent \notin DOMAIN group
  BY NoParentAssumption, CatalogueIsFunction
<1>6. SUFFICES ASSUME NEW c \in DOMAIN kept \cup DOMAIN group,
                      NEW d \in DOMAIN kept \cup DOMAIN group,
                      after[c].parent = after[d].parent,
                      after[c].name = after[d].name
               PROVE  c = d
  BY <1>1, <1>2 DEF NamesUnique
<1>7. CASE c \in DOMAIN kept /\ d \in DOMAIN kept
  BY <1>4, <1>6, <1>7 DEF NamesUnique
<1>8. CASE c \in DOMAIN group /\ d \in DOMAIN group
  <2>1. \A e \in DOMAIN group \ {root} : after[e].parent # row.parent
    BY <1>4, <1>5
  <2>2. QED
    BY <1>4, <1>6, <1>8, <2>1 DEF NamesUnique
<1>9. CASE c \in DOMAIN kept /\ d \in DOMAIN group
  BY <1>4, <1>5, <1>6, <1>9 DEF childrenOf
<1>10. CASE c \in DOMAIN group /\ d \in DOMAIN kept
  BY <1>4, <1>5, <1>6, <1>10 DEF childrenOf
<1>11. QED
  BY <1>6, <1>7, <1>8, <1>9, <1>10

-----------------------------------------------------------------------------
(* The invariants *)

\* A document in an entry, but for the entry's root, hangs under another one
\* of the same entry.
IsWhole(e) ==
  \A d \in InEntry(e) \ {e.root} : e.docs[d].parent \in InEntry(e)

\* Every id in the two files was handed out, so createDocument never hands it
\* out again.
CatalogueHolds ==
  /\ IsCatalogue(docs)
  /\ Live \subseteq issued
  /\ NoOrphans

TrashHolds ==
  /\ trash \in Seq(Range(trash))
  /\ \A i \in DOMAIN trash :
       /\ IsEntry(trash[i])
       /\ IsWhole(trash[i])
       /\ InEntry(trash[i]) \subseteq issued

\* Only finitely many ids were handed out, so there is a free name.
RequestsHold ==
  /\ issued \subseteq Ids
  /\ IsFiniteSet(issued)
  /\ purging \in [Requests -> Purges]
  /\ now \in Nat
  /\ faults \in Nat

FaultyInv == CatalogueHolds /\ TrashHolds /\ RequestsHold

\* The invariant holds what was asked for: the types and tree.ts' parents.
LEMMA FaultyInvHolds ==
  FaultyInv => TypeOK /\ NoOrphans
BY DEF FaultyInv, CatalogueHolds, TrashHolds, RequestsHold, TypeOK

-----------------------------------------------------------------------------
(* The trash as a sequence *)

\* A sequence is a sequence of its own elements.
LEMMA OwnRange ==
  ASSUME NEW S, NEW s \in Seq(S)
  PROVE  s \in Seq(Range(s))
<1>1. Len(s) \in Nat /\ DOMAIN s = 1 .. Len(s) /\ s = [i \in 1 .. Len(s) |-> s[i]]
  BY LenProperties
<1>2. \A i \in 1 .. Len(s) : s[i] \in Range(s)
  BY <1>1 DEF Range
<1>3. QED
  BY <1>1, <1>2

\* [...trash, entry]: the entries there were, and one more.
LEMMA Appending ==
  ASSUME NEW s, s \in Seq(Range(s)), NEW e
  PROVE  /\ Append(s, e) \in Seq(Range(Append(s, e)))
         /\ Len(s) + 1 \notin DOMAIN s
         /\ DOMAIN Append(s, e) = DOMAIN s \cup {Len(s) + 1}
         /\ Append(s, e)[Len(s) + 1] = e
         /\ \A i \in DOMAIN s : Append(s, e)[i] = s[i]
<1> DEFINE S == Range(s) \cup {e}
<1>1. s \in Seq(S)
  BY SeqMonotonic
<1>2. /\ Len(s) \in Nat
      /\ DOMAIN s = 1 .. Len(s)
      /\ Append(s, e) \in Seq(S)
      /\ Len(Append(s, e)) = Len(s) + 1
      /\ Append(s, e)[Len(s) + 1] = e
      /\ \A i \in 1 .. Len(s) : Append(s, e)[i] = s[i]
  <2> HIDE DEF S
  <2> QED BY <1>1, e \in S, AppendProperties, LenProperties DEF S
<1>3. DOMAIN Append(s, e) = 1 .. Len(s) + 1
  BY <1>2, LenProperties
<1>4. Append(s, e) \in Seq(Range(Append(s, e)))
  BY <1>2, OwnRange
<1>5. QED
  BY <1>2, <1>3, <1>4

\* t holds what s has at the positions in keep, each once, and nothing else.
Selects(s, keep, t) ==
  \E position \in [DOMAIN t -> keep] :
    /\ \A k \in DOMAIN t : t[k] = s[position[k]]
    /\ \A j, k \in DOMAIN t : j # k => position[j] # position[k]
    /\ \A i \in keep : \E k \in DOMAIN t : position[k] = i

\* trash.filter: the entries that are kept, each once, and no other.
LEMMA Filtering ==
  ASSUME NEW s, s \in Seq(Range(s)),
         NEW keep \in SUBSET DOMAIN s,
         NEW t, IsFiltered(s, keep, t)
  PROVE  /\ t \in Seq(Range(t))
         /\ Selects(s, keep, t)
<1> DEFINE n == Cardinality(keep)
<1>1. PICK position \in [1 .. n -> keep] :
        /\ \A j, k \in 1 .. n : j < k => position[j] < position[k]
        /\ t = [k \in 1 .. n |-> s[position[k]]]
  BY DEF IsFiltered
<1>2. IsFiniteSet(keep) /\ n \in Nat
  <2>1. Len(s) \in Nat /\ DOMAIN s = 1 .. Len(s)
    OBVIOUS
  <2>2. IsFiniteSet(DOMAIN s)
    BY <2>1, FS_Interval
  <2>3. QED
    BY <2>2, FS_Subset, FS_CardinalityType
<1>3. DOMAIN t = 1 .. n /\ \A k \in 1 .. n : t[k] = s[position[k]]
  BY <1>1
<1>4. t \in Seq(Range(t))
  <2>1. \A k \in 1 .. n : t[k] \in Range(t)
    BY <1>3 DEF Range
  <2>2. t = [k \in 1 .. n |-> t[k]]
    BY <1>1
  <2> HIDE DEF n
  <2>3. QED
    BY <1>2, <2>1, <2>2
<1>5. \A j, k \in 1 .. n : j # k => position[j] # position[k]
  <2>1. \A k \in 1 .. n : position[k] \in Nat
    BY <1>1
  <2> HIDE DEF n
  <2>2. QED
    BY <1>1, <1>2, <2>1
<1>6. \A i \in keep : \E k \in 1 .. n : position[k] = i
  <2>1. position \in Injection(1 .. n, keep)
    BY <1>1, <1>5 DEF Injection, IsInjective
  <2>2. Cardinality(1 .. n) = n
    BY <1>2, FS_Interval
  <2>3. position \in Surjection(1 .. n, keep)
    BY <1>2, <2>1, <2>2, FS_Injection
  <2>4. QED
    BY <2>3 DEF Surjection
<1>7. QED
  BY <1>1, <1>3, <1>4, <1>5, <1>6 DEF Selects

-----------------------------------------------------------------------------
(* The catalogue's rows *)

\* The names of finitely many documents are finitely many, so uniqueName,
\* which is given such a set, returns a name outside it.
LEMMA NamesAreFinite ==
  ASSUME NEW documents, IsCatalogue(documents),
         NEW S \in SUBSET DOMAIN documents, IsFiniteSet(S)
  PROVE  IsFiniteSet(NamesOf(documents, S))
<1> DEFINE T == NamesOf(documents, S)
           f == [d \in S |-> documents[d].name]
<1>1. f \in Surjection(S, T)
  BY DEF NamesOf, Surjection
<1>2. QED
  <2> HIDE DEF f
  <2> QED BY <1>1, FS_Surjection

\* The name a document gets among some siblings is a name, and none of theirs.
LEMMA NewNameIsFree ==
  ASSUME NEW documents, IsCatalogue(documents), IsFiniteSet(DOMAIN documents),
         NEW S \in SUBSET DOMAIN documents,
         NEW name \in Names
  PROVE  /\ uniqueName(name, NamesOf(documents, S)) \in Names
         /\ \A d \in S :
              documents[d].name # uniqueName(name, NamesOf(documents, S))
<1>1. IsFiniteSet(NamesOf(documents, S))
  BY FS_Subset, NamesAreFinite
<1>2. uniqueName(name, NamesOf(documents, S)) \in Names \ NamesOf(documents, S)
  BY <1>1, UniqueNameIsFree
<1>3. QED
  BY <1>2 DEF NamesOf

\* A parent and a name make a row.
LEMMA RowIsRow ==
  ASSUME NEW parentId \in Ids \cup {NoParent}, NEW name \in Names
  PROVE  /\ Row(parentId, name) \in Rows
         /\ Row(parentId, name).parent = parentId
         /\ Row(parentId, name).name = name
BY DEF Row, Rows

\* deleteDocument writes an entry that holds the document and all that hangs
\* under it, as the catalogue has it.
LEMMA DeletedEntryHolds ==
  ASSUME TypeOK, NEW id \in Live
  PROVE  LET e == DeletedEntry(id)
         IN  /\ IsEntry(e)
             /\ IsWhole(e)
             /\ e.root = id
             /\ e.deletedAt = now
             /\ InEntry(e) = subtreeIds(docs, id)
             /\ e.docs = Restrict(docs, subtreeIds(docs, id))
<1> DEFINE T == subtreeIds(docs, id)
           e == DeletedEntry(id)
<1>1. T \in SUBSET DOMAIN docs
  BY DEF subtreeIds
<1>2. e.root = id /\ e.docs = Restrict(docs, T) /\ e.deletedAt = now
  BY DEF DeletedEntry
<1>3. /\ IsCatalogue(e.docs)
      /\ InEntry(e) = T
      /\ \A d \in T : e.docs[d] = docs[d]
  BY <1>1, <1>2, RestrictIsCatalogue DEF TypeOK, InEntry
<1>4. id \in T
  BY SubtreeHasRoot DEF Live
<1>5. IsEntry(e)
  BY <1>2, <1>3, <1>4 DEF IsEntry, InEntry, TypeOK
<1>6. IsWhole(e)
  BY <1>2, <1>3, SubtreeHasParents DEF IsWhole, Live
<1>7. QED
  BY <1>2, <1>3, <1>5, <1>6

\* restoreDocument gives every document of the entry back; its root alone
\* gets a new row, under a document that was not restored with it, or at the
\* root, and with a name no sibling has.
LEMMA RestoredDocsHolds ==
  ASSUME FaultyInv, NEW i \in DOMAIN trash
  PROVE  LET kept  == Without(docs, InEntry(trash[i]))
             group == trash[i].docs
             root  == trash[i].root
         IN  \E row \in Rows :
               /\ row.parent \in DOMAIN kept \cup {NoParent}
               /\ \A d \in childrenOf(kept, row.parent) :
                    kept[d].name # row.name
               /\ RestoredDocs(trash[i]) =
                    With(kept, [group EXCEPT ![root] = row])
<1> DEFINE entry    == trash[i]
           kept     == Without(docs, InEntry(entry))
           root     == entry.docs[entry.root]
           parentId == IF root.parent \in DOMAIN kept
                         THEN root.parent ELSE NoParent
           unique   == uniqueName(root.name, SiblingNames(kept, parentId))
           row      == Row(parentId, unique)
<1>1. IsCatalogue(kept) /\ DOMAIN kept = Live \ InEntry(entry)
  BY WithoutIsCatalogue DEF FaultyInv, CatalogueHolds, Live
<1>2. root \in Rows
  BY CatalogueIsFunction DEF FaultyInv, TrashHolds, IsEntry
<1>3. parentId \in Ids \cup {NoParent}
  BY <1>1, CatalogueIsFunction
<1>4. IsFiniteSet(DOMAIN kept)
  BY <1>1, FS_Subset DEF FaultyInv, CatalogueHolds, RequestsHold
<1>5. /\ unique \in Names
      /\ \A d \in childrenOf(kept, parentId) : kept[d].name # unique
  <2>1. root.name \in Names
    BY <1>2 DEF Rows
  <2>2. childrenOf(kept, parentId) \in SUBSET DOMAIN kept
    BY DEF childrenOf
  <2> HIDE DEF kept, root, parentId
  <2>3. QED
    BY <1>1, <1>4, <2>1, <2>2, NewNameIsFree DEF SiblingNames
<1>6. row \in Rows /\ row.parent = parentId /\ row.name = unique
  BY <1>3, <1>5, RowIsRow
<1>7. parentId \in DOMAIN kept \cup {NoParent}
  OBVIOUS
<1>8. RestoredDocs(entry) = With(kept, [entry.docs EXCEPT ![entry.root] = row])
  BY DEF RestoredDocs
<1>9. QED
  BY <1>5, <1>6, <1>7, <1>8

-----------------------------------------------------------------------------
(* What each write does to the two files *)

\* A document added under one that is there, or at the root.
LEMMA CreateHolds ==
  ASSUME FaultyInv,
         NEW name \in TypedNames, NEW parentId \in Ids \cup {NoParent},
         createDocument(name, parentId)
  PROVE  FaultyInv'
<1>1. PICK id \in Fresh :
        /\ docs' = WithOne(docs, id,
              Row(parentId, uniqueName(name, SiblingNames(docs, parentId))))
        /\ issued' = issued \cup {id}
  BY DEF createDocument
<1> DEFINE row == Row(parentId, uniqueName(name, SiblingNames(docs, parentId)))
<1>2. row \in Rows /\ row.parent = parentId
  <2>1. IsFiniteSet(DOMAIN docs)
    BY FS_Subset DEF FaultyInv, CatalogueHolds, RequestsHold, Live
  <2>2. childrenOf(docs, parentId) \in SUBSET DOMAIN docs
    BY DEF childrenOf
  <2>3. name \in Names
    BY TypedNamesAssumption
  <2>4. QED
    BY <2>1, <2>2, <2>3, NewNameIsFree, RowIsRow
       DEF SiblingNames, FaultyInv, CatalogueHolds
<1>3. docs' = WithOne(docs, id, row)
  BY <1>1
<1>4. IsCatalogue(docs') /\ Puts(docs, id, row, docs')
  <2>1. IsCatalogue(docs)
    BY DEF FaultyInv, CatalogueHolds
  <2>2. id \in Ids
    BY DEF Fresh
  <2> HIDE DEF row
  <2>3. QED
    BY <1>2, <1>3, <2>1, <2>2, AddIsCatalogue
<1>5. CatalogueHolds'
  <2>1. NoOrphans'
    BY <1>2, <1>4
       DEF NoOrphans, ParentsPresent, createDocument, IsPlace, Live,
           FaultyInv, CatalogueHolds, Puts
  <2>2. QED
    BY <1>1, <1>4, <2>1 DEF CatalogueHolds, Live, FaultyInv, Puts
<1>6. TrashHolds'
  BY <1>1 DEF TrashHolds, FaultyInv, createDocument, InEntry, IsWhole, IsEntry
<1>7. RequestsHold'
  BY <1>1, FS_AddElement DEF RequestsHold, FaultyInv, createDocument, Fresh
<1>8. QED
  BY <1>5, <1>6, <1>7 DEF FaultyInv

\* A row replaced by one under a document that is there, or at the root.
LEMMA ReplaceHolds ==
  ASSUME FaultyInv,
         NEW id \in Live, NEW row \in Rows,
         row.parent \in Live \cup {NoParent},
         docs' = [docs EXCEPT ![id] = row],
         UNCHANGED <<trash, issued, purging, now, faults>>
  PROVE  FaultyInv'
<1>1. /\ IsCatalogue(docs')
      /\ DOMAIN docs' = DOMAIN docs
      /\ docs'[id] = row
      /\ \A d \in DOMAIN docs \ {id} : docs'[d] = docs[d]
  BY ReplaceIsCatalogue, CatalogueIsFunction DEF FaultyInv, CatalogueHolds, Live
<1>2. CatalogueHolds'
  BY <1>1
     DEF FaultyInv, CatalogueHolds, NoOrphans, ParentsPresent, Live
<1>3. TrashHolds' /\ RequestsHold'
  BY DEF TrashHolds, RequestsHold, FaultyInv, InEntry, IsWhole, IsEntry
<1>4. QED
  BY <1>2, <1>3 DEF FaultyInv

\* rename writes a row that differs in the name alone, and with a name that
\* no sibling has.
LEMMA RenameIsReplace ==
  ASSUME FaultyInv, NEW id, NEW name \in TypedNames, renameDocument(id, name)
  PROVE  \E row \in Rows :
           /\ docs' = [docs EXCEPT ![id] = row]
           /\ row.parent = docs[id].parent
           /\ row.parent \in Live \cup {NoParent}
           /\ \A d \in childrenOf(docs, row.parent) \ {id} :
                docs[d].name # row.name
<1> DEFINE row == Row(docs[id].parent, name)
<1>1. id \in Live /\ docs \in [Live -> Rows]
  BY CatalogueIsFunction DEF FaultyInv, CatalogueHolds, Live, renameDocument
<1>2. docs[id].parent \in Ids \cup {NoParent} /\ name \in Names
  BY <1>1, TypedNamesAssumption DEF Rows
<1>3. [docs[id] EXCEPT !.name = name] = row
  BY <1>1 DEF Rows, Row
<1>4. docs' = [docs EXCEPT ![id] = row]
  BY <1>3 DEF renameDocument
<1>5. row \in Rows /\ row.parent = docs[id].parent /\ row.name = name
  BY <1>2, RowIsRow
<1>6. docs[id].parent \in Live \cup {NoParent}
  BY <1>1 DEF FaultyInv, CatalogueHolds, NoOrphans, ParentsPresent, Live
<1> HIDE DEF row
<1>7. \A d \in childrenOf(docs, row.parent) \ {id} : docs[d].name # row.name
  BY <1>5 DEF renameDocument
<1>8. QED
  BY <1>4, <1>5, <1>6, <1>7

\* move writes a row under the new parent with a name that no sibling there
\* has.
LEMMA MoveIsReplace ==
  ASSUME FaultyInv, NEW id, NEW parentId, moveDocument(id, parentId)
  PROVE  \E row \in Rows :
           /\ docs' = [docs EXCEPT ![id] = row]
           /\ row = Row(parentId, row.name)
           /\ row.parent = parentId
           /\ parentId \in Live \cup {NoParent}
           /\ \A d \in childrenOf(docs, parentId) \ {id} :
                docs[d].name # row.name
<1> DEFINE siblings == childrenOf(docs, parentId) \ {id}
           unique   == uniqueName(docs[id].name, NamesOf(docs, siblings))
           row      == Row(parentId, unique)
<1>1. id \in Live /\ parentId \in Live \cup {NoParent}
  BY DEF moveDocument, IsPlace
<1>2. docs \in [Live -> Rows] /\ Live \subseteq Ids
  BY CatalogueIsFunction DEF FaultyInv, CatalogueHolds, Live
<1>3. docs[id].name \in Names /\ parentId \in Ids \cup {NoParent}
  BY <1>1, <1>2 DEF Rows
<1>4. IsFiniteSet(DOMAIN docs) /\ siblings \in SUBSET DOMAIN docs
  BY FS_Subset DEF FaultyInv, CatalogueHolds, RequestsHold, Live, childrenOf
<1>5. /\ unique \in Names
      /\ \A d \in siblings : docs[d].name # unique
  <2>1. IsCatalogue(docs)
    BY DEF FaultyInv, CatalogueHolds
  <2> HIDE DEF siblings
  <2>2. QED
    BY <1>3, <1>4, <2>1, NewNameIsFree
<1>6. row \in Rows /\ row.parent = parentId /\ row.name = unique
  BY <1>3, <1>5, RowIsRow
<1>7. docs' = [docs EXCEPT ![id] = row]
  BY DEF moveDocument
<1>8. row = Row(parentId, row.name)
  BY <1>6
<1>9. QED
  BY <1>1, <1>5, <1>6, <1>7, <1>8

\* An entry appended for a live document.
LEMMA AppendHolds ==
  ASSUME FaultyInv, NEW id \in Live,
         trash' = Append(trash, DeletedEntry(id)), issued' = issued
  PROVE  TrashHolds'
<1>1. /\ IsEntry(DeletedEntry(id))
      /\ IsWhole(DeletedEntry(id))
      /\ InEntry(DeletedEntry(id)) \subseteq Live
  <2>1. TypeOK
    BY FaultyInvHolds
  <2>2. subtreeIds(docs, id) \subseteq Live
    BY DEF subtreeIds, Live
  <2>3. QED
    BY <2>1, <2>2, DeletedEntryHolds
<1>2. InEntry(DeletedEntry(id)) \subseteq issued
  BY <1>1 DEF FaultyInv, CatalogueHolds
<1>3. trash \in Seq(Range(trash))
  BY DEF FaultyInv, TrashHolds
<1>4. /\ trash' \in Seq(Range(trash'))
      /\ DOMAIN trash' = DOMAIN trash \cup {Len(trash) + 1}
      /\ trash'[Len(trash) + 1] = DeletedEntry(id)
      /\ \A i \in DOMAIN trash : trash'[i] = trash[i]
  BY <1>3, Appending
<1>5. \A i \in DOMAIN trash' :
        /\ IsEntry(trash'[i])
        /\ IsWhole(trash'[i])
        /\ InEntry(trash'[i]) \subseteq issued
  BY <1>1, <1>2, <1>4 DEF FaultyInv, TrashHolds
<1>6. QED
  BY <1>4, <1>5 DEF TrashHolds, IsEntry, IsWhole, InEntry

\* A subtree taken out of the catalogue.
LEMMA WithoutSubtreeHolds ==
  ASSUME FaultyInv, NEW id \in Live,
         docs' = Without(docs, subtreeIds(docs, id)), issued' = issued
  PROVE  CatalogueHolds'
<1>1. /\ IsCatalogue(docs')
      /\ DOMAIN docs' = DOMAIN docs \ subtreeIds(docs, id)
      /\ \A d \in DOMAIN docs' : docs'[d] = docs[d]
  BY WithoutIsCatalogue DEF FaultyInv, CatalogueHolds
<1>2. NoOrphans'
  BY <1>1, SubtreeIsClosed
     DEF FaultyInv, CatalogueHolds, NoOrphans, ParentsPresent,
         ClosedUnderChildren
<1>3. QED
  BY <1>1, <1>2 DEF FaultyInv, CatalogueHolds, Live

\* An entry put back.
LEMMA RestoreHolds ==
  ASSUME FaultyInv, NEW i \in DOMAIN trash,
         docs' = RestoredDocs(trash[i]), issued' = issued
  PROVE  CatalogueHolds'
<1> DEFINE kept   == Without(docs, InEntry(trash[i]))
           group  == trash[i].docs
           root   == trash[i].root
<1>1. PICK row \in Rows :
        /\ row.parent \in DOMAIN kept \cup {NoParent}
        /\ docs' = With(kept, [group EXCEPT ![root] = row])
  BY RestoredDocsHolds
<1> DEFINE placed == [group EXCEPT ![root] = row]
<1>2. /\ IsCatalogue(kept)
      /\ DOMAIN kept = Live \ DOMAIN group
      /\ \A d \in DOMAIN kept : kept[d] = docs[d]
  <2>1. IsCatalogue(docs)
    BY DEF FaultyInv, CatalogueHolds
  <2>2. /\ IsCatalogue(kept)
        /\ DOMAIN kept = DOMAIN docs \ InEntry(trash[i])
        /\ \A d \in DOMAIN docs \ InEntry(trash[i]) : kept[d] = docs[d]
    BY <2>1, WithoutIsCatalogue
  <2> HIDE DEF kept
  <2>3. QED
    BY <2>2 DEF Live, InEntry
<1>3. /\ IsCatalogue(group)
      /\ root \in DOMAIN group
      /\ \A d \in DOMAIN group \ {root} : group[d].parent \in DOMAIN group
      /\ DOMAIN group \subseteq issued
  BY DEF FaultyInv, TrashHolds, IsEntry, IsWhole, InEntry
<1>4. /\ IsCatalogue(placed)
      /\ DOMAIN placed = DOMAIN group
      /\ placed[root] = row
      /\ \A d \in DOMAIN group \ {root} : placed[d] = group[d]
  BY <1>3, ReplaceIsCatalogue, CatalogueIsFunction
<1>5. /\ IsCatalogue(docs')
      /\ DOMAIN docs' = DOMAIN kept \cup DOMAIN placed
      /\ \A d \in DOMAIN placed : docs'[d] = placed[d]
      /\ \A d \in DOMAIN kept \ DOMAIN placed : docs'[d] = kept[d]
  <2>1. docs' = With(kept, placed)
    BY <1>1
  <2> HIDE DEF placed, kept
  <2>2. QED
    BY <1>2, <1>4, <2>1, WithIsCatalogue
<1> HIDE DEF placed, kept, group, root
<1>6. DOMAIN docs' = Live \cup DOMAIN group
  BY <1>2, <1>4, <1>5
<1>7. NoOrphans'
  <2>1. ASSUME NEW d \in DOMAIN docs'
        PROVE  docs'[d].parent \in DOMAIN docs' \cup {NoParent}
    <3>1. CASE d = root
      BY <1>1, <1>2, <1>3, <1>4, <1>5, <1>6, <3>1
    <3>2. CASE d \in DOMAIN group \ {root}
      BY <1>3, <1>4, <1>5, <1>6, <3>2
    <3>3. CASE d \in Live \ DOMAIN group
      BY <1>2, <1>4, <1>5, <1>6, <3>3
         DEF FaultyInv, CatalogueHolds, NoOrphans, ParentsPresent, Live
    <3>4. QED
      BY <1>6, <2>1, <3>1, <3>2, <3>3
  <2>2. QED
    BY <2>1 DEF NoOrphans, ParentsPresent
<1>8. QED
  BY <1>3, <1>5, <1>6, <1>7 DEF FaultyInv, CatalogueHolds, Live

\* Some entries filtered out of the trash.
LEMMA FilterHolds ==
  ASSUME FaultyInv, NEW keep \in SUBSET DOMAIN trash,
         IsFiltered(trash, keep, trash'), issued' = issued
  PROVE  TrashHolds'
<1>1. trash \in Seq(Range(trash))
  BY DEF FaultyInv, TrashHolds
<1>2. trash' \in Seq(Range(trash')) /\ Selects(trash, keep, trash')
  BY <1>1, Filtering
<1>3. \A k \in DOMAIN trash' : \E i \in DOMAIN trash : trash'[k] = trash[i]
  BY <1>2 DEF Selects
<1>4. \A k \in DOMAIN trash' :
        /\ IsEntry(trash'[k])
        /\ IsWhole(trash'[k])
        /\ InEntry(trash'[k]) \subseteq issued
  BY <1>3 DEF FaultyInv, TrashHolds
<1>5. QED
  BY <1>2, <1>4 DEF TrashHolds, IsEntry, IsWhole, InEntry

\* A purge is started with ids of the trash.
LEMMA StartPurgeHolds ==
  ASSUME FaultyInv, NEW r \in Requests, NEW t,
         \A i \in DOMAIN t : IsEntry(t[i]),
         StartPurge(r, t)
  PROVE  purging' \in [Requests -> Purges]
<1> DEFINE ids == UNION {InEntry(t[i]) : i \in
                           {j \in DOMAIN t : Expired(t[j], now)}}
<1>1. purging' = purging
      \/ purging' = [purging EXCEPT ![r] = [ids |-> ids, at |-> now]]
  BY DEF StartPurge
<1>2. ids \in SUBSET Ids
  BY CatalogueIsFunction DEF IsEntry, InEntry
<1>3. [ids |-> ids, at |-> now] \in Purges
  BY <1>2 DEF Purges, FaultyInv, RequestsHold
<1>4. QED
  BY <1>1, <1>3 DEF FaultyInv, RequestsHold

-----------------------------------------------------------------------------
(* What holds whatever stops half way *)

\* Nothing is in the files when the program is first started.
LEMMA InitHolds ==
  Init => FaultyInv
<1> SUFFICES ASSUME Init PROVE FaultyInv
  OBVIOUS
<1>1. IsCatalogue(docs) /\ DOMAIN docs = {}
  <2>1. docs = [d \in {} |-> NoParent]
    BY DEF Init, EmptyCatalogue
  <2>2. docs \in [{} -> Rows]
    BY <2>1
  <2>3. QED
    BY <2>1, <2>2 DEF IsCatalogue
<1>2. trash = <<>> /\ DOMAIN trash = {}
  BY DEF Init
<1>3. trash \in Seq(Range(trash))
  BY <1>2, EmptySeq
<1>4. CatalogueHolds
  BY <1>1 DEF CatalogueHolds, Live, NoOrphans, ParentsPresent
<1>5. TrashHolds
  BY <1>2, <1>3 DEF TrashHolds
<1>6. RequestsHold
  BY FS_EmptySet DEF RequestsHold, Init, NoPurge, Purges
<1>7. QED
  BY <1>4, <1>5, <1>6 DEF FaultyInv

\* deleteDocument's two writes.
LEMMA DeleteHolds ==
  ASSUME FaultyInv, NEW id, deleteDocument(id), issued' = issued
  PROVE  CatalogueHolds' /\ TrashHolds'
<1>1. id \in Live
  BY DEF deleteDocument
<1>2. trash' = Append(trash, DeletedEntry(id))
  BY DEF deleteDocument
<1>3. docs' = Without(docs, subtreeIds(docs, id))
  BY DEF deleteDocument
<1>4. QED
  BY <1>1, <1>2, <1>3, AppendHolds, WithoutSubtreeHolds

\* A request the files of which are not touched keeps what holds of them.
LEMMA CatalogueUntouched ==
  ASSUME FaultyInv, UNCHANGED <<docs, issued>>
  PROVE  CatalogueHolds'
BY DEF FaultyInv, CatalogueHolds, Live, NoOrphans, ParentsPresent

\* The same for the trash: a step that leaves deleted.json alone keeps what is
\* said of its entries.
LEMMA TrashUntouched ==
  ASSUME FaultyInv, UNCHANGED <<trash, issued>>
  PROVE  TrashHolds'
BY DEF FaultyInv, TrashHolds, InEntry, IsWhole, IsEntry

\* One step of the running program.
LEMMA NextHolds ==
  ASSUME FaultyInv, Next
  PROVE  FaultyInv'
<1>1. ASSUME NEW name \in TypedNames, NEW parentId \in Ids \cup {NoParent},
             createDocument(name, parentId)
      PROVE  FaultyInv'
  BY <1>1, CreateHolds
<1>2. ASSUME NEW id \in Ids, NEW name \in TypedNames,
             renameDocument(id, name)
      PROVE  FaultyInv'
  <2>1. id \in Live /\ UNCHANGED <<trash, issued, purging, now, faults>>
    BY <1>2 DEF renameDocument
  <2>2. PICK row \in Rows :
          row.parent \in Live \cup {NoParent} /\ docs' = [docs EXCEPT ![id] = row]
    BY <1>2, RenameIsReplace
  <2>3. QED
    BY <2>1, <2>2, ReplaceHolds
<1>3. ASSUME NEW id \in Ids, NEW parentId \in Ids \cup {NoParent},
             moveDocument(id, parentId)
      PROVE  FaultyInv'
  <2>1. id \in Live /\ UNCHANGED <<trash, issued, purging, now, faults>>
    BY <1>3 DEF moveDocument
  <2>2. PICK row \in Rows :
          row.parent \in Live \cup {NoParent} /\ docs' = [docs EXCEPT ![id] = row]
    BY <1>3, MoveIsReplace
  <2>3. QED
    BY <2>1, <2>2, ReplaceHolds
<1>4. ASSUME NEW r \in Requests, NEW id \in Ids, DeleteRoute(r, id)
      PROVE  FaultyInv'
  <2>1. CatalogueHolds' /\ TrashHolds'
    BY <1>4, DeleteHolds DEF DeleteRoute
  <2>2. \A i \in DOMAIN trash' : IsEntry(trash'[i])
    BY <2>1 DEF TrashHolds, IsEntry
  <2>3. purging' \in [Requests -> Purges]
    BY <1>4, <2>2, StartPurgeHolds DEF DeleteRoute
  <2>4. RequestsHold'
    BY <1>4, <2>3 DEF DeleteRoute, FaultyInv, RequestsHold
  <2>5. QED
    BY <2>1, <2>4 DEF FaultyInv
<1>5. ASSUME NEW id \in Ids, restoreDocument(id)
      PROVE  FaultyInv'
  <2>1. PICK i \in DOMAIN trash :
          /\ docs' = RestoredDocs(trash[i])
          /\ IsFiltered(trash, DOMAIN trash \ {i}, trash')
    BY <1>5 DEF restoreDocument
  <2>2. UNCHANGED <<issued, purging, now, faults>>
    BY <1>5 DEF restoreDocument
  <2>3. CatalogueHolds'
    BY <2>1, <2>2, RestoreHolds
  <2>4. DOMAIN trash \ {i} \in SUBSET DOMAIN trash
    OBVIOUS
  <2>5. TrashHolds'
    BY <2>1, <2>2, <2>4, FilterHolds
  <2>6. RequestsHold'
    BY <2>2 DEF FaultyInv, RequestsHold
  <2>7. QED
    BY <2>3, <2>5, <2>6 DEF FaultyInv
<1>6. ASSUME NEW r \in Requests, AdminPage(r)
      PROVE  FaultyInv'
  <2>1. UNCHANGED <<docs, trash, issued, now, faults>>
    BY <1>6 DEF AdminPage
  <2>2. \A i \in DOMAIN trash : IsEntry(trash[i])
    BY DEF FaultyInv, TrashHolds
  <2>3. purging' \in [Requests -> Purges]
    BY <1>6, <2>2, StartPurgeHolds DEF AdminPage
  <2>4. RequestsHold'
    BY <2>1, <2>3 DEF FaultyInv, RequestsHold
  <2>5. QED
    BY <2>1, <2>4, CatalogueUntouched, TrashUntouched DEF FaultyInv
<1>7. ASSUME NEW r \in Requests, FinishPurge(r)
      PROVE  FaultyInv'
  <2> DEFINE keep == {i \in DOMAIN trash : ~ Expired(trash[i], purging[r].at)}
  <2>1. /\ IsFiltered(trash, keep, trash')
        /\ purging' = [purging EXCEPT ![r] = NoPurge]
        /\ UNCHANGED <<docs, issued, now, faults>>
    BY <1>7 DEF FinishPurge
  <2>2. keep \in SUBSET DOMAIN trash
    OBVIOUS
  <2> HIDE DEF keep
  <2>3. TrashHolds'
    BY <2>1, <2>2, FilterHolds
  <2>4. RequestsHold'
    BY <2>1 DEF FaultyInv, RequestsHold, NoPurge, Purges
  <2>5. QED
    BY <2>1, <2>3, <2>4, CatalogueUntouched DEF FaultyInv
<1>8. CASE Tick
  <2>1. UNCHANGED <<docs, trash, issued, purging, faults>> /\ now' = now + 1
    BY <1>8 DEF Tick
  <2>2. RequestsHold'
    BY <2>1 DEF FaultyInv, RequestsHold
  <2>3. QED
    BY <2>1, <2>2, CatalogueUntouched, TrashUntouched DEF FaultyInv
<1>9. QED
  BY <1>1, <1>2, <1>3, <1>4, <1>5, <1>6, <1>7, <1>8 DEF Next

\* One fault.
LEMMA FaultHolds ==
  ASSUME FaultyInv, Faults
  PROVE  FaultyInv'
<1>1. faults' \in Nat
  <2>1. faults' = faults + 1
    BY DEF Faults, DeleteStopsHalfWay, RestoreStopsHalfWay, DeleteWithoutPurge,
           PurgeFails, Restart, Fault
  <2>2. QED
    BY <2>1 DEF FaultyInv, RequestsHold
<1>2. ASSUME UNCHANGED <<issued, purging, now>>
      PROVE  RequestsHold'
  BY <1>1, <1>2 DEF FaultyInv, RequestsHold
<1>3. ASSUME NEW id \in Ids, DeleteStopsHalfWay(id)
      PROVE  FaultyInv'
  <2>1. /\ id \in Live
        /\ trash' = Append(trash, DeletedEntry(id))
        /\ UNCHANGED <<docs, issued, purging, now>>
    BY <1>3 DEF DeleteStopsHalfWay
  <2>2. TrashHolds'
    BY <2>1, AppendHolds
  <2>3. QED
    BY <1>2, <2>1, <2>2, CatalogueUntouched DEF FaultyInv
<1>4. ASSUME NEW id \in Ids, RestoreStopsHalfWay(id)
      PROVE  FaultyInv'
  <2>1. UNCHANGED <<trash, issued, purging, now>>
    BY <1>4 DEF RestoreStopsHalfWay
  <2>2. PICK i \in DOMAIN trash : docs' = RestoredDocs(trash[i])
    BY <1>4 DEF RestoreStopsHalfWay
  <2>3. CatalogueHolds'
    BY <2>1, <2>2, RestoreHolds
  <2>4. QED
    BY <1>2, <2>1, <2>3, TrashUntouched DEF FaultyInv
<1>5. ASSUME NEW id \in Ids, DeleteWithoutPurge(id)
      PROVE  FaultyInv'
  <2>1. deleteDocument(id) /\ UNCHANGED <<issued, purging, now>>
    BY <1>5 DEF DeleteWithoutPurge
  <2>2. QED
    BY <1>2, <2>1, DeleteHolds DEF FaultyInv
<1>6. ASSUME NEW r \in Requests, PurgeFails(r)
      PROVE  FaultyInv'
  <2>1. /\ UNCHANGED <<docs, trash, issued, now>>
        /\ purging' = [purging EXCEPT ![r] = NoPurge]
    BY <1>6 DEF PurgeFails
  <2>2. RequestsHold'
    BY <1>1, <2>1 DEF FaultyInv, RequestsHold, NoPurge, Purges
  <2>3. QED
    BY <2>1, <2>2, CatalogueUntouched, TrashUntouched DEF FaultyInv
<1>7. CASE Restart
  <2>1. /\ UNCHANGED <<docs, trash, issued, now>>
        /\ purging' = [r \in Requests |-> NoPurge]
    BY <1>7 DEF Restart
  <2>2. RequestsHold'
    BY <1>1, <2>1 DEF FaultyInv, RequestsHold, NoPurge, Purges
  <2>3. QED
    BY <2>1, <2>2, CatalogueUntouched, TrashUntouched DEF FaultyInv
<1>8. QED
  BY <1>3, <1>4, <1>5, <1>6, <1>7 DEF Faults

\* A step that leaves the catalogue, the trash and the requests alone: one of
\* another component, which may count a fault, or none.
LEMMA FaultyInvUntouched ==
  ASSUME FaultyInv, UNCHANGED <<docs, trash, issued, purging, now>>, faults' \in Nat
  PROVE  FaultyInv'
<1>1. RequestsHold'
  BY DEF FaultyInv, RequestsHold
<1> QED
  BY <1>1, CatalogueUntouched, TrashUntouched DEF FaultyInv

\* The invariant, for every step that changes nothing too.
LEMMA FaultyStepKeeps ==
  ASSUME FaultyInv, [Next \/ Faults]_vars
  PROVE  FaultyInv'
<1>1. CASE Next
  BY <1>1, NextHolds
<1>2. CASE Faults
  BY <1>2, FaultHolds
<1>3. CASE UNCHANGED vars
  BY <1>3, FaultyInvUntouched DEF vars, FaultyInv, RequestsHold
<1> QED
  BY <1>1, <1>2, <1>3

LEMMA FaultyInvariant ==
  FaultySpec => []FaultyInv
<1>1. FaultyInv /\ [Next \/ Faults]_vars => FaultyInv'
  BY FaultyStepKeeps
<1> QED
  BY <1>1, InitHolds, PTL DEF FaultySpec

\* The files and the waiting requests always hold what their types say,
\* whatever stops half way.
THEOREM TypesCorrect ==
  FaultySpec => []TypeOK
BY FaultyInvariant, FaultyInvHolds, PTL

\* deleteDocument takes the whole subtree in one write and restoreDocument
\* looks for the parent: no document ever hangs under a missing one, not even
\* after a delete or a restore that stopped between its two writes.
THEOREM OrphansNever ==
  FaultySpec => []NoOrphans
BY FaultyInvariant, FaultyInvHolds, PTL

-----------------------------------------------------------------------------
(* What holds while no handler stops half way *)

\* What was deleted was a tree, and stays one in its entry.
EntriesAreTrees ==
  \A i \in DOMAIN trash :
    Acyclic(trash[i].docs) /\ NamesUnique(trash[i].docs)

Inv ==
  /\ FaultyInv
  /\ NoCycle
  /\ SiblingNamesUnique
  /\ OnePlace
  /\ EntriesAreTrees

\* A document whose parent stays as it was closes no cycle.
LEMMA RenameKeepsAcyclic ==
  ASSUME NEW documents, Acyclic(documents),
         NEW after, DOMAIN after = DOMAIN documents,
         \A d \in DOMAIN documents : after[d].parent = documents[d].parent
  PROVE  Acyclic(after)
BY DEF Acyclic

\* A replaced row: the document's place and name are its own.
LEMMA ReplaceKeepsNames ==
  ASSUME Inv, NEW id \in Live, NEW row \in Rows,
         \A d \in childrenOf(docs, row.parent) \ {id} :
            docs[d].name # row.name,
         docs' = [docs EXCEPT ![id] = row]
  PROVE  SiblingNamesUnique'
<1>1. /\ DOMAIN docs' = DOMAIN docs \cup {id}
      /\ docs'[id] = row
      /\ \A d \in DOMAIN docs \ {id} : docs'[d] = docs[d]
  BY CatalogueIsFunction DEF Inv, FaultyInv, CatalogueHolds, Live
<1>2. NamesUnique(docs)
  BY DEF Inv, SiblingNamesUnique
<1>3. NamesUnique(docs')
  BY <1>1, <1>2, PlaceKeepsNamesUnique
<1>4. QED
  BY <1>3 DEF SiblingNamesUnique

\* Nothing that is deleted is touched by a step that leaves the trash and the
\* set of live documents alone.
LEMMA TrashAndLiveUntouched ==
  ASSUME Inv, UNCHANGED trash, Live' = Live
  PROVE  OnePlace' /\ EntriesAreTrees'
BY DEF Inv, OnePlace, EntriesAreTrees, InEntry

\* createDocument: the new id is in no entry, the new name is free, and
\* nobody names the new id as a parent.
LEMMA CreateKeepsTree ==
  ASSUME Inv,
         NEW name \in TypedNames, NEW parentId \in Ids \cup {NoParent},
         createDocument(name, parentId)
  PROVE  /\ NoCycle' /\ SiblingNamesUnique'
         /\ OnePlace' /\ EntriesAreTrees'
<1>1. PICK id \in Fresh :
        docs' = WithOne(docs, id,
          Row(parentId, uniqueName(name, SiblingNames(docs, parentId))))
  BY DEF createDocument
<1> DEFINE row == Row(parentId, uniqueName(name, SiblingNames(docs, parentId)))
<1>2. IsCatalogue(docs) /\ ParentsPresent(docs)
  BY DEF Inv, FaultyInv, CatalogueHolds, NoOrphans
<1>3. id \in Ids \ DOMAIN docs
  BY DEF Fresh, Inv, FaultyInv, CatalogueHolds, Live
<1>4. /\ row \in Rows
      /\ row.parent = parentId
      /\ \A d \in childrenOf(docs, row.parent) : docs[d].name # row.name
  <2>1. IsFiniteSet(DOMAIN docs)
    BY FS_Subset DEF Inv, FaultyInv, CatalogueHolds, RequestsHold, Live
  <2>2. childrenOf(docs, parentId) \in SUBSET DOMAIN docs
    BY DEF childrenOf
  <2>3. name \in Names
    BY TypedNamesAssumption
  <2>4. QED
    BY <1>2, <2>1, <2>2, <2>3, NewNameIsFree, RowIsRow DEF SiblingNames
<1>5. docs' = WithOne(docs, id, row)
  BY <1>1
<1>6. /\ DOMAIN docs' = DOMAIN docs \cup {id}
      /\ docs'[id] = row
      /\ \A d \in DOMAIN docs \ {id} : docs'[d] = docs[d]
  <2>1. id \in Ids
    BY <1>3
  <2> HIDE DEF row
  <2>2. Puts(docs, id, row, docs')
    BY <1>2, <1>4, <1>5, <2>1, AddIsCatalogue
  <2>3. QED
    BY <2>2 DEF Puts
<1>7. NoCycle'
  <2>1. row.parent \in DOMAIN docs \cup {NoParent}
    BY <1>4 DEF createDocument, IsPlace, Live
  <2> HIDE DEF row
  <2>2. Acyclic(docs')
    BY <1>2, <1>3, <1>4, <1>5, <2>1, CreateKeepsAcyclic DEF Inv, NoCycle
  <2>3. QED
    BY <2>2 DEF NoCycle
<1>8. SiblingNamesUnique'
  <2> HIDE DEF row
  <2>1. NamesUnique(docs')
    BY <1>4, <1>6, PlaceKeepsNamesUnique DEF Inv, SiblingNamesUnique
  <2>2. QED
    BY <2>1 DEF SiblingNamesUnique
<1>9. OnePlace'
  <2>1. \A i \in DOMAIN trash : id \notin InEntry(trash[i])
    BY DEF Fresh, Inv, FaultyInv, TrashHolds
  <2>2. UNCHANGED trash
    BY DEF createDocument
  <2>3. QED
    BY <1>6, <2>1, <2>2 DEF Inv, OnePlace, Live, InEntry
<1>10. EntriesAreTrees'
  BY DEF createDocument, Inv, EntriesAreTrees
<1>11. QED
  BY <1>7, <1>8, <1>9, <1>10

\* renameDocument: no parent changes.
LEMMA RenameKeepsTree ==
  ASSUME Inv, NEW id \in Ids, NEW name \in TypedNames,
         renameDocument(id, name)
  PROVE  /\ NoCycle' /\ SiblingNamesUnique'
         /\ OnePlace' /\ EntriesAreTrees'
<1>1. FaultyInv /\ id \in Live /\ UNCHANGED trash
  BY DEF Inv, renameDocument
<1>2. PICK row \in Rows :
        /\ docs' = [docs EXCEPT ![id] = row]
        /\ row.parent = docs[id].parent
        /\ \A d \in childrenOf(docs, row.parent) \ {id} :
             docs[d].name # row.name
  BY <1>1, RenameIsReplace
<1>3. /\ DOMAIN docs' = DOMAIN docs
      /\ \A d \in DOMAIN docs : docs'[d].parent = docs[d].parent
  BY <1>1, <1>2, CatalogueIsFunction DEF FaultyInv, CatalogueHolds, Live
<1>4. Acyclic(docs')
  BY <1>3, RenameKeepsAcyclic DEF Inv, NoCycle
<1>5. SiblingNamesUnique'
  BY <1>1, <1>2, ReplaceKeepsNames
<1>6. OnePlace' /\ EntriesAreTrees'
  BY <1>1, <1>3, TrashAndLiveUntouched DEF Live
<1>7. QED
  BY <1>4, <1>5, <1>6 DEF NoCycle

\* moveDocument: what wouldCycle lets through closes no cycle.
LEMMA MoveKeepsTree ==
  ASSUME Inv, NEW id \in Ids, NEW parentId \in Ids \cup {NoParent},
         moveDocument(id, parentId)
  PROVE  /\ NoCycle' /\ SiblingNamesUnique'
         /\ OnePlace' /\ EntriesAreTrees'
<1>1. /\ FaultyInv
      /\ id \in Live
      /\ ~ wouldCycle(docs, id, parentId)
      /\ UNCHANGED trash
  BY DEF Inv, moveDocument
<1>2. PICK row \in Rows :
        /\ docs' = [docs EXCEPT ![id] = row]
        /\ row = Row(parentId, row.name)
        /\ row.parent = parentId
        /\ \A d \in childrenOf(docs, parentId) \ {id} :
             docs[d].name # row.name
  BY <1>1, MoveIsReplace
<1>3. IsCatalogue(docs) /\ Acyclic(docs) /\ id \in DOMAIN docs
  BY <1>1 DEF Inv, FaultyInv, CatalogueHolds, NoCycle, Live
<1>4. Acyclic(docs')
  <2>1. docs' = [docs EXCEPT ![id] = Row(parentId, row.name)]
    BY <1>2
  <2>2. QED
    BY <1>1, <1>3, <2>1, MoveKeepsAcyclic
<1>5. SiblingNamesUnique'
  BY <1>1, <1>2, ReplaceKeepsNames
<1>6. Live' = Live
  BY <1>2, <1>3, CatalogueIsFunction DEF Live
<1>7. OnePlace' /\ EntriesAreTrees'
  BY <1>1, <1>6, TrashAndLiveUntouched
<1>8. QED
  BY <1>4, <1>5, <1>7 DEF NoCycle

\* deleteDocument: what goes and what stays are trees, and no document is in
\* both.
LEMMA DeleteKeepsTree ==
  ASSUME Inv, NEW id, deleteDocument(id)
  PROVE  /\ NoCycle' /\ SiblingNamesUnique'
         /\ OnePlace' /\ EntriesAreTrees'
<1> DEFINE below == subtreeIds(docs, id)
           e     == DeletedEntry(id)
<1>1. /\ id \in Live
      /\ trash' = Append(trash, e)
      /\ docs' = Without(docs, below)
  BY DEF deleteDocument
<1>2. /\ IsCatalogue(docs) /\ Acyclic(docs) /\ NamesUnique(docs)
      /\ trash \in Seq(Range(trash))
      /\ TypeOK
  BY FaultyInvHolds
     DEF Inv, FaultyInv, CatalogueHolds, TrashHolds, NoCycle, SiblingNamesUnique
<1>3. docs' = Restrict(docs, DOMAIN docs \ below)
  BY <1>1 DEF Without
<1>4. Acyclic(docs') /\ NamesUnique(docs')
  BY <1>2, <1>3, RestrictIsAcyclic, RestrictKeepsNamesUnique
<1>5. DOMAIN docs' = DOMAIN docs \ below
  BY <1>1, <1>2, WithoutIsCatalogue
<1>6. e.docs = Restrict(docs, below) /\ InEntry(e) = below
  BY <1>1, <1>2, DeletedEntryHolds
<1>7. below \in SUBSET DOMAIN docs
  BY DEF subtreeIds
<1>8. Acyclic(e.docs) /\ NamesUnique(e.docs)
  BY <1>2, <1>6, <1>7, RestrictIsAcyclic, RestrictKeepsNamesUnique
<1>9. /\ DOMAIN trash' = DOMAIN trash \cup {Len(trash) + 1}
      /\ Len(trash) + 1 \notin DOMAIN trash
      /\ trash'[Len(trash) + 1] = e
      /\ \A i \in DOMAIN trash : trash'[i] = trash[i]
  BY <1>1, <1>2, Appending
<1> HIDE DEF below, e
<1>10. EntriesAreTrees'
  BY <1>8, <1>9 DEF EntriesAreTrees, Inv
<1>11. OnePlace'
  <2>1. /\ \A i \in DOMAIN trash : InEntry(trash[i]) \cap DOMAIN docs = {}
        /\ \A i, j \in DOMAIN trash :
             i # j => InEntry(trash[i]) \cap InEntry(trash[j]) = {}
    BY DEF Inv, OnePlace, Live
  <2>2. ASSUME NEW i \in DOMAIN trash'
        PROVE  InEntry(trash'[i]) \cap DOMAIN docs' = {}
    BY <1>5, <1>6, <1>9, <2>1
  <2>3. ASSUME NEW i \in DOMAIN trash', NEW j \in DOMAIN trash', i # j
        PROVE  InEntry(trash'[i]) \cap InEntry(trash'[j]) = {}
    BY <1>6, <1>7, <1>9, <2>1, <2>3
  <2>4. QED
    BY <2>2, <2>3 DEF OnePlace, Live, InEntry
<1>12. QED
  BY <1>4, <1>10, <1>11 DEF NoCycle, SiblingNamesUnique

\* An entry taken out of the trash, and others kept: who was in one place
\* stays in one place.
LEMMA FilterKeepsTrees ==
  ASSUME Inv, NEW keep \in SUBSET DOMAIN trash,
         IsFiltered(trash, keep, trash')
  PROVE  /\ EntriesAreTrees'
         /\ \A j, k \in DOMAIN trash' :
              j # k => InEntry(trash'[j]) \cap InEntry(trash'[k]) = {}
         /\ \A k \in DOMAIN trash' : \E i \in keep : trash'[k] = trash[i]
<1>1. trash \in Seq(Range(trash))
  BY DEF Inv, FaultyInv, TrashHolds
<1>2. Selects(trash, keep, trash')
  BY <1>1, Filtering
<1>3. PICK position \in [DOMAIN trash' -> keep] :
        /\ \A k \in DOMAIN trash' : trash'[k] = trash[position[k]]
        /\ \A j, k \in DOMAIN trash' : j # k => position[j] # position[k]
  BY <1>2 DEF Selects
<1>4. \A k \in DOMAIN trash' : position[k] \in DOMAIN trash /\ position[k] \in keep
  BY <1>3
<1>5. \A j, k \in DOMAIN trash' :
        j # k => InEntry(trash'[j]) \cap InEntry(trash'[k]) = {}
  BY <1>3, <1>4 DEF Inv, OnePlace
<1>6. EntriesAreTrees'
  BY <1>3, <1>4 DEF Inv, EntriesAreTrees
<1>7. QED
  BY <1>3, <1>4, <1>5, <1>6

\* restoreDocument: nothing live is in the entry, so the group comes back as
\* it went, under a document that is not part of it.
LEMMA RestoreKeepsTree ==
  ASSUME Inv, NEW id, restoreDocument(id)
  PROVE  /\ NoCycle' /\ SiblingNamesUnique'
         /\ OnePlace' /\ EntriesAreTrees'
<1>1. PICK i \in DOMAIN trash :
        /\ docs' = RestoredDocs(trash[i])
        /\ IsFiltered(trash, DOMAIN trash \ {i}, trash')
  BY DEF restoreDocument
<1> DEFINE kept  == Without(docs, InEntry(trash[i]))
           group == trash[i].docs
           root  == trash[i].root
<1>2. FaultyInv
  BY DEF Inv
<1>3. PICK row \in Rows :
        /\ row.parent \in DOMAIN kept \cup {NoParent}
        /\ \A d \in childrenOf(kept, row.parent) : kept[d].name # row.name
        /\ docs' = With(kept, [group EXCEPT ![root] = row])
  BY <1>1, <1>2, RestoredDocsHolds
<1>4. DOMAIN group \cap Live = {} /\ InEntry(trash[i]) = DOMAIN group
  BY DEF Inv, OnePlace, InEntry
<1>5. IsCatalogue(docs) /\ Acyclic(docs) /\ NamesUnique(docs) /\ ParentsPresent(docs)
  BY <1>2
     DEF Inv, FaultyInv, CatalogueHolds, NoCycle, SiblingNamesUnique, NoOrphans
<1>6. /\ IsCatalogue(kept)
      /\ DOMAIN kept = Live
      /\ \A d \in Live : kept[d] = docs[d]
  <2>1. /\ IsCatalogue(kept)
        /\ DOMAIN kept = DOMAIN docs \ InEntry(trash[i])
        /\ \A d \in DOMAIN docs \ InEntry(trash[i]) : kept[d] = docs[d]
    BY <1>5, WithoutIsCatalogue
  <2> HIDE DEF kept
  <2>2. QED
    BY <1>4, <2>1 DEF Live
<1>7. Acyclic(kept) /\ NamesUnique(kept) /\ ParentsPresent(kept)
  <2> HIDE DEF kept
  <2>1. Acyclic(kept)
    BY <1>5, <1>6, RenameKeepsAcyclic DEF Live
  <2>2. QED
    BY <1>5, <1>6, <2>1 DEF NamesUnique, ParentsPresent, Live
<1>8. /\ IsCatalogue(group) /\ Acyclic(group) /\ NamesUnique(group)
      /\ root \in DOMAIN group
      /\ \A d \in DOMAIN group \ {root} : group[d].parent \in DOMAIN group
  BY <1>2
     DEF Inv, FaultyInv, TrashHolds, EntriesAreTrees, IsEntry, IsWhole, InEntry
<1> HIDE DEF kept, group, root
<1>9. DOMAIN group \cap DOMAIN kept = {}
  BY <1>4, <1>6
<1>10. Acyclic(docs')
  BY <1>3, <1>6, <1>7, <1>8, <1>9, AttachKeepsAcyclic
<1>11. NamesUnique(docs')
  BY <1>3, <1>6, <1>7, <1>8, <1>9, AttachKeepsNamesUnique
<1>12. DOMAIN docs' = Live \cup DOMAIN group
  <2>1. /\ IsCatalogue([group EXCEPT ![root] = row])
        /\ DOMAIN [group EXCEPT ![root] = row] = DOMAIN group
    BY <1>8, ReplaceIsCatalogue
  <2>2. QED
    BY <1>3, <1>6, <2>1, WithIsCatalogue
<1>13. DOMAIN trash \ {i} \in SUBSET DOMAIN trash
  OBVIOUS
<1>14. /\ EntriesAreTrees'
       /\ \A j, k \in DOMAIN trash' :
            j # k => InEntry(trash'[j]) \cap InEntry(trash'[k]) = {}
       /\ \A k \in DOMAIN trash' :
            \E j \in DOMAIN trash \ {i} : trash'[k] = trash[j]
  BY <1>1, <1>13, FilterKeepsTrees
<1>15. OnePlace'
  <2>1. \A j \in DOMAIN trash \ {i} :
          InEntry(trash[j]) \cap (Live \cup DOMAIN group) = {}
    BY <1>4 DEF Inv, OnePlace
  <2>2. \A k \in DOMAIN trash' : InEntry(trash'[k]) \cap DOMAIN docs' = {}
    BY <1>12, <1>14, <2>1
  <2>3. QED
    BY <1>14, <2>2 DEF OnePlace, Live, InEntry
<1>16. QED
  BY <1>10, <1>11, <1>14, <1>15 DEF NoCycle, SiblingNamesUnique

\* A step that touches neither file.
LEMMA FilesUntouched ==
  ASSUME Inv, UNCHANGED <<docs, trash>>
  PROVE  /\ NoCycle' /\ SiblingNamesUnique'
         /\ OnePlace' /\ EntriesAreTrees'
BY DEF Inv, NoCycle, SiblingNamesUnique, OnePlace, EntriesAreTrees, Live, InEntry

\* One step of the program while no handler stops half way.
LEMMA StepKeeps ==
  ASSUME Inv, [Next]_vars
  PROVE  Inv'
<1>1. FaultyInv'
  BY FaultyStepKeeps DEF Inv
<1>2. /\ NoCycle' /\ SiblingNamesUnique'
      /\ OnePlace' /\ EntriesAreTrees'
  <2>1. ASSUME NEW name \in TypedNames, NEW parentId \in Ids \cup {NoParent},
               createDocument(name, parentId)
        PROVE  /\ NoCycle' /\ SiblingNamesUnique'
               /\ OnePlace' /\ EntriesAreTrees'
    BY <2>1, CreateKeepsTree
  <2>2. ASSUME NEW id \in Ids, NEW name \in TypedNames,
               renameDocument(id, name)
        PROVE  /\ NoCycle' /\ SiblingNamesUnique'
               /\ OnePlace' /\ EntriesAreTrees'
    BY <2>2, RenameKeepsTree
  <2>3. ASSUME NEW id \in Ids, NEW parentId \in Ids \cup {NoParent},
               moveDocument(id, parentId)
        PROVE  /\ NoCycle' /\ SiblingNamesUnique'
               /\ OnePlace' /\ EntriesAreTrees'
    BY <2>3, MoveKeepsTree
  <2>4. ASSUME NEW r \in Requests, NEW id \in Ids, DeleteRoute(r, id)
        PROVE  /\ NoCycle' /\ SiblingNamesUnique'
               /\ OnePlace' /\ EntriesAreTrees'
    BY <2>4, DeleteKeepsTree DEF DeleteRoute
  <2>5. ASSUME NEW id \in Ids, restoreDocument(id)
        PROVE  /\ NoCycle' /\ SiblingNamesUnique'
               /\ OnePlace' /\ EntriesAreTrees'
    BY <2>5, RestoreKeepsTree
  <2>6. ASSUME NEW r \in Requests, FinishPurge(r)
        PROVE  /\ NoCycle' /\ SiblingNamesUnique'
               /\ OnePlace' /\ EntriesAreTrees'
    <3> DEFINE keep == {i \in DOMAIN trash :
                          ~ Expired(trash[i], purging[r].at)}
    <3>1. keep \in SUBSET DOMAIN trash
      OBVIOUS
    <3>2. IsFiltered(trash, keep, trash') /\ UNCHANGED docs
      BY <2>6 DEF FinishPurge
    <3> HIDE DEF keep
    <3>3. /\ EntriesAreTrees'
          /\ \A j, k \in DOMAIN trash' :
               j # k => InEntry(trash'[j]) \cap InEntry(trash'[k]) = {}
          /\ \A k \in DOMAIN trash' : \E i \in keep : trash'[k] = trash[i]
      BY <3>1, <3>2, FilterKeepsTrees
    <3>4. OnePlace'
      BY <3>1, <3>2, <3>3 DEF Inv, OnePlace, Live, InEntry
    <3>5. QED
      BY <3>2, <3>3, <3>4 DEF Inv, NoCycle, SiblingNamesUnique
  <2>7. CASE \/ \E r \in Requests : AdminPage(r)
             \/ Tick
             \/ UNCHANGED vars
    <3>1. UNCHANGED <<docs, trash>>
      BY <2>7 DEF AdminPage, Tick, vars
    <3>2. QED
      BY <3>1, FilesUntouched
  <2>8. QED
    BY <2>1, <2>2, <2>3, <2>4, <2>5, <2>6, <2>7 DEF Next
<1>3. QED
  BY <1>1, <1>2 DEF Inv

\* A step of another component.
LEMMA InvUntouched ==
  ASSUME Inv, UNCHANGED <<docs, trash, issued, purging, now>>, faults' \in Nat
  PROVE  Inv'
BY FaultyInvUntouched, FilesUntouched DEF Inv

\* The empty files.
LEMMA InitKeeps ==
  Init => Inv
<1> SUFFICES ASSUME Init PROVE Inv
  OBVIOUS
<1>1. FaultyInv
  BY InitHolds
<1>2. DOMAIN docs = {} /\ DOMAIN trash = {}
  BY DEF Init, EmptyCatalogue
<1> QED
  BY <1>1, <1>2
     DEF Inv, NoCycle, Acyclic, SiblingNamesUnique, NamesUnique, OnePlace,
         EntriesAreTrees

\* The invariant of the program while no handler stops half way.
LEMMA Invariant ==
  Spec => []Inv
<1>1. Inv /\ [Next]_vars => Inv'
  BY StepKeeps
<1> QED
  BY <1>1, InitKeeps, PTL DEF Spec

\* tree.ts, wouldCycle, with documents.ts: no sequence of creates, renames,
\* moves, deletes, purges and restores makes a document its own ancestor.
THEOREM CyclesNever ==
  Spec => []NoCycle
<1>1. Inv => NoCycle
  BY DEF Inv
<1>2. QED
  BY <1>1, Invariant, PTL

\* FR-021-03: no such sequence leaves two namesakes in one place.
THEOREM NamesakesNever ==
  Spec => []SiblingNamesUnique
<1>1. Inv => SiblingNamesUnique
  BY DEF Inv
<1>2. QED
  BY <1>1, Invariant, PTL

\* documents.ts: a document is live or in one trash entry, never in two
\* places.
THEOREM OnePlaceAlways ==
  Spec => []OnePlace
<1>1. Inv => OnePlace
  BY DEF Inv
<1>2. QED
  BY <1>1, Invariant, PTL

-----------------------------------------------------------------------------
(* The refinement: documents.json and deleted.json together keep the promise *)
(* of DocumentLife; every step is a step of the promise or changes nothing   *)
(* of it.                                                                    *)

Groups == {InEntry(trash[i]) : i \in DOMAIN trash}

\* Two entries never hold the same group: no entry is empty, and no document
\* is in two.
LEMMA GroupsDiffer ==
  ASSUME Inv
  PROVE  \A i, j \in DOMAIN trash :
           i # j => InEntry(trash[i]) # InEntry(trash[j])
<1>1. \A i \in DOMAIN trash : InEntry(trash[i]) # {}
  BY DEF Inv, FaultyInv, TrashHolds, IsEntry, InEntry
<1>2. QED
  BY <1>1 DEF Inv, OnePlace

\* Filtering the trash takes away the groups of the entries it leaves out,
\* and no other.
LEMMA FilteredGroups ==
  ASSUME Inv, NEW keep \in SUBSET DOMAIN trash,
         IsFiltered(trash, keep, trash')
  PROVE  Groups' = Groups \ {InEntry(trash[i]) : i \in DOMAIN trash \ keep}
<1>1. trash \in Seq(Range(trash))
  BY DEF Inv, FaultyInv, TrashHolds
<1>2. Selects(trash, keep, trash')
  BY <1>1, Filtering
<1>3. PICK position \in [DOMAIN trash' -> keep] :
        /\ \A k \in DOMAIN trash' : trash'[k] = trash[position[k]]
        /\ \A i \in keep : \E k \in DOMAIN trash' : position[k] = i
  BY <1>2 DEF Selects
<1>4. Groups' = {InEntry(trash[i]) : i \in keep}
  <2>1. Groups' = {InEntry(trash'[k]) : k \in DOMAIN trash'}
    BY DEF Groups, InEntry
  <2>2. \A k \in DOMAIN trash' : InEntry(trash'[k]) = InEntry(trash[position[k]])
    BY <1>3
  <2>3. \A k \in DOMAIN trash' : position[k] \in keep
    BY <1>3
  <2>4. QED
    BY <1>3, <2>1, <2>2, <2>3
<1>5. QED
  BY <1>4, GroupsDiffer DEF Groups

\* createDocument is the promise's Create, of an id that was never used.
LEMMA CreateIsCreate ==
  ASSUME Inv,
         NEW name \in TypedNames, NEW parentId \in Ids \cup {NoParent},
         createDocument(name, parentId)
  PROVE  Life!Next
<1>1. PICK id \in Fresh :
        /\ docs' = WithOne(docs, id,
             Row(parentId, uniqueName(name, SiblingNames(docs, parentId))))
        /\ issued' = issued \cup {id}
  BY DEF createDocument
<1>2. DOMAIN docs' = DOMAIN docs \cup {id}
  BY <1>1 DEF WithOne, With
<1>3. Live' = Live \cup {id} /\ Groups' = Groups
  BY <1>2 DEF Live, Groups, InEntry, createDocument
<1>4. Life!Create(id)
  BY <1>1, <1>3 DEF Life!Create, Fresh, Groups
<1>5. QED
  BY <1>4 DEF Life!Next, Fresh

\* A step that changes neither who is live nor what is in the trash.
LEMMA NothingPromised ==
  ASSUME Live' = Live, UNCHANGED <<trash, issued>>
  PROVE  UNCHANGED Life!vars
BY DEF Life!vars, Live, InEntry

\* deleteDocument is the promise's Delete, of the whole subtree at once.
LEMMA DeleteIsDelete ==
  ASSUME Inv, NEW id, deleteDocument(id), UNCHANGED issued
  PROVE  Life!Next
<1> DEFINE below == subtreeIds(docs, id)
<1>1. /\ id \in Live
      /\ trash' = Append(trash, DeletedEntry(id))
      /\ docs' = Without(docs, below)
  BY DEF deleteDocument
<1>2. IsCatalogue(docs) /\ TypeOK /\ trash \in Seq(Range(trash))
  BY FaultyInvHolds DEF Inv, FaultyInv, CatalogueHolds, TrashHolds
<1>3. DOMAIN docs' = DOMAIN docs \ below
  BY <1>1, <1>2, WithoutIsCatalogue
<1>4. InEntry(DeletedEntry(id)) = below
  BY <1>1, <1>2, DeletedEntryHolds
<1>5. /\ DOMAIN trash' = DOMAIN trash \cup {Len(trash) + 1}
      /\ trash'[Len(trash) + 1] = DeletedEntry(id)
      /\ \A i \in DOMAIN trash : trash'[i] = trash[i]
  BY <1>1, <1>2, Appending
<1>6. below \subseteq Live /\ id \in below
  BY <1>1, SubtreeHasRoot DEF subtreeIds, Live
<1> HIDE DEF below
<1>7. Groups' = Groups \cup {below}
  <2>1. Groups' = {InEntry(trash'[i]) : i \in DOMAIN trash'}
    BY DEF Groups, InEntry
  <2>2. QED
    BY <1>4, <1>5, <2>1 DEF Groups
<1>8. Life!Delete(below)
  BY <1>3, <1>6, <1>7 DEF Life!Delete, Live, Groups
<1>9. below \in SUBSET Ids
  BY <1>2, <1>6, CatalogueIsFunction DEF Live
<1>10. QED
  BY <1>8, <1>9 DEF Life!Next

\* restoreDocument is the promise's Restore, of exactly what one delete took.
LEMMA RestoreIsRestore ==
  ASSUME Inv, NEW id, restoreDocument(id)
  PROVE  Life!Next
<1>1. PICK i \in DOMAIN trash :
        /\ docs' = RestoredDocs(trash[i])
        /\ IsFiltered(trash, DOMAIN trash \ {i}, trash')
  BY DEF restoreDocument
<1> DEFINE group == InEntry(trash[i])
<1>2. Live' = Live \cup group
  <2>1. FaultyInv
    BY DEF Inv
  <2>2. IsCatalogue(docs)
    BY DEF Inv, FaultyInv, CatalogueHolds
  <2>3. DOMAIN Without(docs, InEntry(trash[i])) = DOMAIN docs \ InEntry(trash[i])
    BY <2>2, WithoutIsCatalogue
  <2>4. PICK row \in Rows :
          docs' = With(Without(docs, InEntry(trash[i])),
                       [trash[i].docs EXCEPT ![trash[i].root] = row])
    BY <1>1, <2>1, RestoredDocsHolds
  <2>5. DOMAIN docs' =
          DOMAIN Without(docs, InEntry(trash[i])) \cup DOMAIN trash[i].docs
    BY <2>4 DEF With
  <2>6. QED
    BY <2>3, <2>5 DEF Live, InEntry
<1>3. Groups' = Groups \ {group}
  <2>1. DOMAIN trash \ {i} \in SUBSET DOMAIN trash
    OBVIOUS
  <2>2. Groups' = Groups \ {InEntry(trash[j]) :
                              j \in DOMAIN trash \ (DOMAIN trash \ {i})}
    BY <1>1, <2>1, FilteredGroups
  <2>3. QED
    BY <2>2
<1>4. Life!Restore(group)
  BY <1>2, <1>3 DEF Life!Restore, restoreDocument, Groups
<1>5. QED
  BY <1>4 DEF Life!Next

\* The end of a purge is the promise's Expire, of whole groups.
LEMMA PurgeIsExpire ==
  ASSUME Inv, NEW r \in Requests, FinishPurge(r)
  PROVE  Life!Next
<1> DEFINE keep == {i \in DOMAIN trash : ~ Expired(trash[i], purging[r].at)}
           gone == {InEntry(trash[i]) : i \in DOMAIN trash \ keep}
<1>1. IsFiltered(trash, keep, trash') /\ UNCHANGED <<docs, issued>>
  BY DEF FinishPurge
<1>2. keep \in SUBSET DOMAIN trash
  OBVIOUS
<1> HIDE DEF keep
<1>3. Groups' = Groups \ gone
  BY <1>1, <1>2, FilteredGroups
<1>4. gone \subseteq Groups
  BY DEF Groups
<1> HIDE DEF gone
<1>5. Life!Expire(gone)
  BY <1>1, <1>3, <1>4 DEF Life!Expire, Groups, Live
<1>6. gone \in SUBSET Groups
  BY <1>4
<1>7. QED
  BY <1>5, <1>6 DEF Life!Next, Groups

\* documents.ts, TrashEntry: a delete's group comes back as a whole, with
\* nothing added and nothing left behind, or goes as a whole, whatever moves,
\* renames, other deletes and purges come between.
THEOREM PromiseKept ==
  Spec => KeepsThePromise
<1>1. Init => Life!Init
  BY DEF Init, Life!Init, Live, EmptyCatalogue
<1>2. Inv /\ [Next]_vars => [Life!Next]_(Life!vars)
  <2> SUFFICES ASSUME Inv, [Next]_vars
               PROVE  Life!Next \/ UNCHANGED Life!vars
    OBVIOUS
  <2>1. ASSUME NEW name \in TypedNames, NEW parentId \in Ids \cup {NoParent},
               createDocument(name, parentId)
        PROVE  Life!Next
    BY <2>1, CreateIsCreate
  <2>2. ASSUME NEW id \in Ids, NEW name \in TypedNames,
               renameDocument(id, name)
        PROVE  UNCHANGED Life!vars
    BY <2>2, NothingPromised DEF renameDocument, Live
  <2>3. ASSUME NEW id \in Ids, NEW parentId \in Ids \cup {NoParent},
               moveDocument(id, parentId)
        PROVE  UNCHANGED Life!vars
    BY <2>3, NothingPromised DEF moveDocument, Live
  <2>4. ASSUME NEW r \in Requests, NEW id \in Ids, DeleteRoute(r, id)
        PROVE  Life!Next
    BY <2>4, DeleteIsDelete DEF DeleteRoute
  <2>5. ASSUME NEW id \in Ids, restoreDocument(id)
        PROVE  Life!Next
    BY <2>5, RestoreIsRestore
  <2>6. ASSUME NEW r \in Requests, FinishPurge(r)
        PROVE  Life!Next
    BY <2>6, PurgeIsExpire
  <2>7. CASE \/ \E r \in Requests : AdminPage(r)
             \/ Tick
             \/ UNCHANGED vars
    <3>1. Live' = Live /\ UNCHANGED <<trash, issued>>
      BY <2>7 DEF AdminPage, Tick, vars, Live
    <3>2. QED
      BY <3>1, NothingPromised
  <2>8. QED
    BY <2>1, <2>2, <2>3, <2>4, <2>5, <2>6, <2>7 DEF Next
<1>3. QED
  BY <1>1, <1>2, Invariant, PTL DEF Spec, KeepsThePromise, Life!Spec
=============================================================================
