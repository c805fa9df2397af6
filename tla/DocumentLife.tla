---------------------------- MODULE DocumentLife ----------------------------
(***************************************************************************)
(* What the catalogue and the trash promise together, without the tree,    *)
(* the names or the files: a document is created once, a delete takes a    *)
(* group of live documents, and that group comes back as a whole, with     *)
(* nothing added and nothing left behind, or goes as a whole, for good.    *)
(***************************************************************************)
CONSTANT Ids

VARIABLES
  live,    \* the documents of the workspace
  deleted, \* the groups that can still be restored, one per delete
  created  \* every document there has ever been

vars == <<live, deleted, created>>

Init ==
  /\ live = {}
  /\ deleted = {}
  /\ created = {}

Create(d) ==
  /\ d \notin created
  /\ live' = live \cup {d}
  /\ created' = created \cup {d}
  /\ UNCHANGED deleted

Delete(group) ==
  /\ group # {}
  /\ group \subseteq live
  /\ live' = live \ group
  /\ deleted' = deleted \cup {group}
  /\ UNCHANGED created

Restore(group) ==
  /\ group \in deleted
  /\ live' = live \cup group
  /\ deleted' = deleted \ {group}
  /\ UNCHANGED created

Expire(groups) ==
  /\ groups \subseteq deleted
  /\ deleted' = deleted \ groups
  /\ UNCHANGED <<live, created>>

Next ==
  \/ \E d \in Ids : Create(d)
  \/ \E group \in SUBSET Ids : Delete(group)
  \/ \E group \in deleted : Restore(group)
  \/ \E groups \in SUBSET deleted : Expire(groups)

Spec == Init /\ [][Next]_vars
=============================================================================
