---------------------------- MODULE DocumentTree ----------------------------
(***************************************************************************)
(* The document tree as data: lib/documents/tree.ts, and the naming rule   *)
(* of lib/documents/documents.ts.  A catalogue is a function from the ids  *)
(* of the documents it lists to their rows; the two row fields that        *)
(* decide where a document sits and whether it may be called what it is    *)
(* called are kept (parent, name), the record-only ones (createdBy,        *)
(* createdAt, updatedAt) are not.                                          *)
(***************************************************************************)
EXTENDS Naturals, Sequences, FiniteSets, Functions

CONSTANTS
  Ids,      \* every id randomUUID may hand out to a document
  NoParent, \* the null parentId: the document is a root
  Bases     \* the part of a name a person types, before any " (n)"

ASSUME NoParentAssumption == NoParent \notin Ids

(***************************************************************************)
(* A name is a typed base followed by the suffixes " (n)" it carries: the  *)
(* name "a (2) (3)" has base a and suffixes <<2, 3>>.  A person may type a *)
(* suffix too, so names with suffixes are ordinary inputs.                 *)
(***************************************************************************)
Names == [base : Bases, suffixes : Seq(Nat)]

Suffixed(name, n) ==
  [base |-> name.base, suffixes |-> Append(name.suffixes, n)]

Rows == [parent : Ids \cup {NoParent}, name : Names]

\* A catalogue: any set of ids with a row each.
IsCatalogue(documents) == \E S \in SUBSET Ids : documents \in [S -> Rows]

EmptyCatalogue == [d \in {} |-> NoParent]

-----------------------------------------------------------------------------
(* Where a document sits: tree.ts *)

childrenOf(documents, parentId) ==
  {d \in DOMAIN documents : documents[d].parent = parentId}

ClosedUnderChildren(documents, S) ==
  \A d \in DOMAIN documents : documents[d].parent \in S => d \in S

\* Mutant: the walk starts with the children and leaves the document out.
idsBelow(documents, id) ==
  {d \in DOMAIN documents :
     \A S \in SUBSET DOMAIN documents :
       /\ childrenOf(documents, id) \subseteq S
       /\ ClosedUnderChildren(documents, S)
       => d \in S}

\* id and everything under it: the least set that holds id and, with a
\* document, its children.  SubtreeWalk shows that the source's loop
\* computes it, on every catalogue, cyclic ones included.
subtreeIds(documents, id) ==
  {d \in DOMAIN documents :
     \A S \in SUBSET DOMAIN documents :
       id \in S /\ ClosedUnderChildren(documents, S) => d \in S}

\* Mutant: only the document's own children are looked at.
wouldCycleAtOnce(documents, id, nextParentId) ==
  /\ nextParentId # NoParent
  /\ nextParentId = id \/ nextParentId \in childrenOf(documents, id)

wouldCycle(documents, id, nextParentId) ==
  /\ nextParentId # NoParent
  /\ nextParentId = id \/ nextParentId \in subtreeIds(documents, id)

-----------------------------------------------------------------------------
(* What a document is called: documents.ts *)

NamesOf(documents, S) == {documents[d].name : d \in S}

\* The suffix uniqueName's loop stops at: the least n >= 2 whose suffixed
\* name is free.  Among Cardinality(taken) + 1 candidates one is free.
FreeSuffix(name, taken) ==
  CHOOSE n \in 2 .. Cardinality(taken) + 2 :
    /\ Suffixed(name, n) \notin taken
    /\ \A m \in 2 .. n - 1 : Suffixed(name, m) \in taken

uniqueName(name, taken) ==
  IF name \in taken THEN Suffixed(name, FreeSuffix(name, taken)) ELSE name

-----------------------------------------------------------------------------
(* The writes the stores are built from *)

\* documents.filter(...): the catalogue without the documents in S.
Without(documents, S) == Restrict(documents, DOMAIN documents \ S)

\* [...documents, ...rows]: the catalogue with the rows added or replaced.
With(documents, rows) ==
  [d \in DOMAIN documents \cup DOMAIN rows |->
     IF d \in DOMAIN rows THEN rows[d] ELSE documents[d]]

WithOne(documents, id, row) == With(documents, [d \in {id} |-> row])

Row(parentId, name) == [parent |-> parentId, name |-> name]

-----------------------------------------------------------------------------
(* What makes a catalogue a tree *)

\* Every nonempty set of documents has a member whose parent is outside the
\* set: no document is its own ancestor.
Acyclic(documents) ==
  \A S \in SUBSET DOMAIN documents :
    S # {} => \E d \in S : documents[d].parent \notin S

\* A parentId names a document of the same catalogue, or nothing.
ParentsPresent(documents) ==
  \A d \in DOMAIN documents :
    documents[d].parent \in DOMAIN documents \cup {NoParent}

\* FR-021-03: a name is unique among siblings.
NamesUnique(documents) ==
  \A c, d \in DOMAIN documents :
    /\ documents[c].parent = documents[d].parent
    /\ documents[c].name = documents[d].name
    => c = d
=============================================================================
