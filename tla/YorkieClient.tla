---------------------------- MODULE YorkieClient ----------------------------
(***************************************************************************)
(* What a Yorkie client demands of its caller, as lib/documents/           *)
(* attach-pool.ts relies on it: a key is attached once at a time, and again *)
(* only when its detach has landed on the server.  Yorkie itself is an     *)
(* external program.                                                       *)
(***************************************************************************)
CONSTANT Keys

VARIABLE status

Statuses == {"detached", "attaching", "attached", "detaching"}

Changes(key, from, to) ==
  /\ status[key] = from
  /\ status' = [status EXCEPT ![key] = to]

Attach(key) == Changes(key, "detached", "attaching")
Attached(key) == Changes(key, "attaching", "attached")
Refused(key) == Changes(key, "attaching", "detached")
Detach(key) == Changes(key, "attached", "detaching")
Detached(key) == Changes(key, "detaching", "detached")

Init == status = [key \in Keys |-> "detached"]

Next ==
  \E key \in Keys :
    \/ Attach(key)
    \/ Attached(key)
    \/ Refused(key)
    \/ Detach(key)
    \/ Detached(key)

Spec == Init /\ [][Next]_status
=============================================================================
