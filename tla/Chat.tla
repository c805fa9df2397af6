-------------------------------- MODULE Chat --------------------------------
(***************************************************************************)
(* The chat panel of one browser (chat-panel.tsx) over the service that    *)
(* stores and broadcasts (chat-service.ts, chat-repository.ts, the chat    *)
(* routes): the socket that drops and reconnects, the backfill, and the    *)
(* sends that fail and are repeated.  A message is its number in the store,*)
(* which is also the order of `sentAt'.                                    *)
(***************************************************************************)
EXTENDS Integers, Sequences, FiniteSets, SequencesExt

CONSTANTS
  Keys,        \* the sends of this panel
  MaxMessages, \* bounds the store
  MaxFaults    \* bounds what the network and the host do wrong

VARIABLES
  stored,    \* messages.json: which send, or which other member, each is of
  files,     \* how many files each send has stored
  socket,    \* down, registered by the hub, or open
  feed,      \* the frames on their way to this browser
  backfills, \* the history requests on their way, and their answers
  messages,  \* what the panel shows
  pending,   \* the panel's sends that are not done
  requests,  \* what each send has asked for and not been told
  lost,      \* how many answers each send has lost
  faults     \* how much has gone wrong

vars == <<stored, files, socket, feed, backfills, messages, pending, requests,
          lost, faults>>

client == <<messages, pending, requests, lost, files>>
network == <<socket, feed, backfills>>

NotSent == "none"
Idle == "idle"
Down == [state |-> "down", history |-> "awaited"]

\* A history request, and whether the socket is still the one that asked it.
Backfill == [current |-> TRUE, handled |-> FALSE, holds |-> 0]

Ids == 1..Len(stored)

\* The entries of `s' at these places, in their order; a sort leaves equal ones in
\* the order of their places.
Before(s, i, j) == s[i] < s[j] \/ (s[i] = s[j] /\ i < j)

Sorted(s, places) ==
  LET rank(i) == Cardinality({j \in places : ~Before(s, i, j)})
  IN [n \in 1..Cardinality(places) |-> s[CHOOSE i \in places : rank(i) = n]]

\* The merge of what is shown with what arrives: the id decides what is new and
\* sentAt the order.
merge(current, incoming) ==
  LET all == current \o incoming
  IN Sorted(all, {i \in DOMAIN all : i <= Len(current) \/ all[i] \notin ToSet(current)})

-----------------------------------------------------------------------------
(* ChatService.send, in one turn: stored, then broadcast. *)

Accept(sender) ==
  /\ Len(stored) < MaxMessages
  /\ stored' = Append(stored, sender)
  /\ feed' = IF socket.state = "down" THEN feed ELSE Append(feed, Len(stored'))

OthersSend ==
  /\ Accept("others")
  /\ UNCHANGED <<client, socket, backfills, faults>>

-----------------------------------------------------------------------------
(* The socket *)

Fault == faults < MaxFaults /\ faults' = faults + 1

\* Mutant: only the first failure is followed by another attempt.
ConnectOnceMore ==
  /\ socket = Down /\ faults < 2
  /\ socket' = [socket EXCEPT !.state = "registered"]
  /\ UNCHANGED <<stored, client, feed, backfills, faults>>

\* The hub registers the socket before the browser knows that it is open.
Connect ==
  /\ socket = Down
  /\ socket' = [socket EXCEPT !.state = "registered"]
  /\ UNCHANGED <<stored, client, feed, backfills, faults>>

\* Mutant: only the first open asks for the history.
OpenOnce ==
  /\ socket.state = "registered"
  /\ socket' = [state |-> "open",
                history |-> IF messages = <<>> THEN "awaited" ELSE "merged"]
  /\ backfills' = IF messages = <<>>
                  THEN Append(backfills, Backfill)
                  ELSE backfills
  /\ UNCHANGED <<stored, client, feed, faults>>

Open ==
  /\ socket.state = "registered"
  /\ socket' = [socket EXCEPT !.state = "open"]
  /\ backfills' = Append(backfills, Backfill)
  /\ UNCHANGED <<stored, client, feed, faults>>

Receive ==
  /\ socket.state = "open" /\ feed # <<>>
  /\ feed' = Tail(feed)
  /\ messages' = merge(messages, <<Head(feed)>>)
  /\ UNCHANGED <<stored, files, socket, backfills, pending, requests, lost, faults>>

\* The connection or the host goes down; the close sets the retry's timer.
Drop ==
  /\ socket # Down /\ Fault
  /\ socket' = Down /\ feed' = <<>>
  /\ backfills' = [i \in DOMAIN backfills |-> [backfills[i] EXCEPT !.current = FALSE]]
  /\ UNCHANGED <<stored, client>>

BackfillHandled ==
  \E i \in DOMAIN backfills :
    /\ ~backfills[i].handled
    /\ backfills' = [backfills EXCEPT ![i].handled = TRUE,
                                      ![i].holds = Len(stored)]
    /\ UNCHANGED <<stored, client, socket, feed, faults>>

\* `history' is kept for the properties: whether this socket's has arrived.
Told(backfill, what) ==
  socket' = IF backfill.current THEN [socket EXCEPT !.history = what] ELSE socket

BackfillAnswered ==
  \E i \in DOMAIN backfills :
    /\ backfills[i].handled
    /\ backfills' = RemoveAt(backfills, i)
    /\ messages' = merge(messages, [m \in 1..backfills[i].holds |-> m])
    /\ Told(backfills[i], "merged")
    /\ UNCHANGED <<stored, files, feed, pending, requests, lost, faults>>

\* An answer that is not ok is an empty history, and a rejection is none: the
\* panel says nothing of either and does not ask again.
BackfillFails ==
  /\ Fault
  /\ \E i \in DOMAIN backfills :
       backfills' = RemoveAt(backfills, i) /\ Told(backfills[i], "refused")
  /\ UNCHANGED <<stored, client, feed>>

-----------------------------------------------------------------------------
(* submit, send and deliver *)

\* The first request of a delivery: the file, unless it is already stored.
FirstStep(entry) == IF entry.file = "held" THEN "upload" ELSE "post"

submit(k) ==
  /\ pending[k].state = NotSent
  /\ \E file \in {"none", "held"} :
       LET entry == [state |-> "sending", file |-> file]
       IN /\ pending' = [pending EXCEPT ![k] = entry]
          /\ requests' = [requests EXCEPT ![k] = FirstStep(entry)]
  /\ UNCHANGED <<stored, files, network, messages, lost, faults>>

Resend(k) ==
  /\ pending[k].state = "failed"
  /\ pending' = [pending EXCEPT ![k].state = "sending"]
  /\ requests' = [requests EXCEPT ![k] = FirstStep(pending[k])]
  /\ UNCHANGED <<stored, files, network, messages, lost, faults>>

UploadHandled(k) ==
  /\ requests[k] = "upload"
  /\ files' = [files EXCEPT ![k] = @ + 1]
  /\ requests' = [requests EXCEPT ![k] = "uploaded"]
  /\ UNCHANGED <<stored, network, messages, pending, lost, faults>>

\* Mutant: the file's id is kept in a local variable.
UploadAnsweredUnrecorded(k) ==
  /\ requests[k] = "uploaded"
  /\ requests' = [requests EXCEPT ![k] = "post"]
  /\ UNCHANGED <<stored, files, network, messages, pending, lost, faults>>

\* The file's id is recorded before the send is attempted.
UploadAnswered(k) ==
  /\ requests[k] = "uploaded"
  /\ pending' = [pending EXCEPT ![k].file = "stored"]
  /\ requests' = [requests EXCEPT ![k] = "post"]
  /\ UNCHANGED <<stored, files, network, messages, lost, faults>>

PostHandled(k) ==
  /\ requests[k] = "post"
  /\ Accept(k)
  /\ requests' = [requests EXCEPT ![k] = "posted"]
  /\ UNCHANGED <<files, socket, backfills, messages, pending, lost, faults>>

\* The message that a send was told of is the last one of it.
Answer(k) ==
  CHOOSE m \in Ids : stored[m] = k /\ \A n \in Ids : stored[n] = k => n <= m

PostAnswered(k) ==
  /\ requests[k] = "posted"
  /\ messages' = merge(messages, <<Answer(k)>>)
  /\ pending' = [pending EXCEPT ![k].state = "done"]
  /\ requests' = [requests EXCEPT ![k] = Idle]
  /\ UNCHANGED <<stored, files, network, lost, faults>>

\* A request that is refused, or whose answer does not arrive.
RequestFails(k) ==
  /\ requests[k] # Idle /\ Fault
  /\ lost' = IF requests[k] \in {"uploaded", "posted"}
             THEN [lost EXCEPT ![k] = @ + 1] ELSE lost
  /\ pending' = [pending EXCEPT ![k].state = "failed"]
  /\ requests' = [requests EXCEPT ![k] = Idle]
  /\ UNCHANGED <<stored, files, network, messages>>

-----------------------------------------------------------------------------

Init ==
  /\ stored = <<"others">> /\ files = [k \in Keys |-> 0]
  /\ socket = Down /\ feed = <<>> /\ backfills = <<>>
  /\ messages = <<>>
  /\ pending = [k \in Keys |-> [state |-> NotSent, file |-> "none"]]
  /\ requests = [k \in Keys |-> Idle]
  /\ lost = [k \in Keys |-> 0] /\ faults = 0

Deliver(k) == UploadHandled(k) \/ UploadAnswered(k) \/ PostHandled(k) \/ PostAnswered(k)

Listen == Connect \/ Open \/ Receive \/ BackfillHandled \/ BackfillAnswered

Next ==
  \/ OthersSend \/ Listen \/ Drop \/ BackfillFails
  \/ \E k \in Keys : submit(k) \/ Resend(k) \/ Deliver(k) \/ RequestFails(k)

\* The retry's timer and the network go on; nobody has to speak or resend.
Fairness ==
  /\ WF_vars(Connect) /\ WF_vars(Open) /\ WF_vars(Receive)
  /\ WF_vars(BackfillHandled) /\ WF_vars(BackfillAnswered)
  /\ \A k \in Keys : WF_vars(Deliver(k))

Spec == Init /\ [][Next]_vars /\ Fairness

-----------------------------------------------------------------------------
(* Properties *)

\* While the socket is open, its history has arrived and no frame is on its
\* way, the panel shows every message of the store, each once and in order,
\* whatever was lost while it was down and however the two sources overlapped.
ShowsEveryMessage ==
  /\ \A i \in DOMAIN messages : i > 1 => messages[i - 1] < messages[i]
  /\ socket.history = "merged" /\ feed = <<>> => ToSet(messages) = Ids

\* A send stores its message once, and its file once, unless an answer about
\* them was lost: resending repeats nothing that is known to be stored (UC-060).
StoresOnce ==
  \A k \in Keys :
    Cardinality({m \in Ids : stored[m] = k}) + files[k]
      <= lost[k] + (IF pending[k].file = "none" THEN 1 ELSE 2)

Dropped == socket = Down

Reached == socket.history # "awaited"

\* A panel whose socket dropped gets a socket and a history again; only a
\* history that was refused leaves it with the hole, until the next drop.
Recovers == Dropped ~> Reached
=============================================================================
