------------------------------ MODULE JoinForm ------------------------------
(***************************************************************************)
(* The form a guest joins by, app/join/join-form.tsx, and what its server, *)
(* api/workspace/join/route.ts, answers: under a nickname that is in use   *)
(* it asks before it displaces whoever uses it.  Other devices come and go *)
(* while an answer is awaited.  The password is right or wrong.            *)
(***************************************************************************)
EXTENDS Naturals

CONSTANTS
  Nicknames,
  None,       \* stands for null: no request, nothing asked, nobody joined
  MaxEdits    \* bounds what the guest types and how often others come and go

VARIABLES
  nickname, \* the input
  request,  \* the request under way and its status, or None
  conflict, \* the nickname the dialog asks about, or None
  error,    \* the field an error is shown for, "" of no field, or None
  member,   \* who this guest joined as, or None
  live,     \* the nicknames that others are signed in under
  edits

vars == <<nickname, request, conflict, error, member, live, edits>>

pending == request # None

Bounded == edits < MaxEdits /\ edits' = edits + 1

-----------------------------------------------------------------------------
(* The guest.  Behind the dialog, which is modal, the form is inert. *)

\* The inputs are not disabled while an answer is awaited.
Type ==
  /\ Bounded /\ conflict = None /\ member = None
  /\ nickname' \in Nicknames
  /\ UNCHANGED <<request, conflict, error, member, live>>

\* Up to the fetch: the nickname is read from the input each time.
join(force) ==
  /\ ~pending /\ member = None
  /\ request' = [nickname |-> nickname, force |-> force, status |-> "sent"]
  /\ error' = None
  /\ UNCHANGED <<nickname, conflict, member, live, edits>>

Submit == conflict = None /\ join(FALSE)

Continue == conflict # None /\ join(TRUE)

dismiss ==
  /\ conflict # None /\ ~pending
  /\ conflict' = None
  /\ UNCHANGED <<nickname, request, error, member, live, edits>>

-----------------------------------------------------------------------------
(* The server, and the other devices *)

\* From the hash to the answer, which displaces whoever has the nickname.
Handled ==
  /\ pending /\ request.status = "sent"
  /\ \/ /\ request' \in {[request EXCEPT !.status = s] : s \in {"400", "401", "503"}}
        /\ UNCHANGED live
     \/ /\ ~request.force /\ request.nickname \in live
        /\ request' = [request EXCEPT !.status = "409"]
        /\ UNCHANGED live
     \/ /\ request.force \/ request.nickname \notin live
        /\ request' = [request EXCEPT !.status = "200"]
        /\ live' = live \ {request.nickname}
  /\ UNCHANGED <<nickname, conflict, error, member, edits>>

OthersJoinOrLeave ==
  /\ Bounded
  /\ \E n \in Nicknames \ {member} :
       live' = IF n \in live THEN live \ {n} ELSE live \cup {n}
  /\ UNCHANGED <<nickname, request, conflict, error, member>>

-----------------------------------------------------------------------------
(* The answer *)

FieldByStatus(status) ==
  CASE status = "400" -> "nickname" [] status = "401" -> "password" [] OTHER -> ""

Answered ==
  /\ pending /\ request.status # "sent"
  /\ request' = None
  /\ \/ /\ request.status = "409"
        /\ conflict' = request.nickname
        /\ UNCHANGED <<error, member>>
     \/ /\ request.status \in {"400", "401", "503"}
        /\ error' = FieldByStatus(request.status) /\ conflict' = None
        /\ UNCHANGED member
     \/ /\ request.status = "200"
        /\ member' = request.nickname /\ conflict' = None
        /\ UNCHANGED error
  /\ UNCHANGED <<nickname, live, edits>>

\* The answer, or the request itself, is lost: a dialog stays as it is.
Unanswered ==
  /\ pending /\ request' = None
  /\ error' = ""
  /\ UNCHANGED <<nickname, conflict, member, live, edits>>

Init ==
  /\ nickname \in Nicknames /\ live \in SUBSET Nicknames
  /\ request = None /\ conflict = None /\ error = None /\ member = None
  /\ edits = 0

Next ==
  \/ Type \/ Submit \/ Continue \/ dismiss
  \/ Handled \/ OthersJoinOrLeave
  \/ Answered \/ Unanswered

Spec == Init /\ [][Next]_vars

-----------------------------------------------------------------------------
(* Properties *)

\* A guest displaces only those they were asked about: api/workspace/join,
\* "Set by the client only after the guest has seen the takeover warning".
\* The code does not hold to it: a nickname typed while the first answer was
\* awaited is the one that is sent again, and the dialog names the other.
DisplacesTheOneAsked ==
  [][Handled => live \ live' \subseteq {conflict}]_vars
=============================================================================
