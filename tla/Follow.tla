------------------------------- MODULE Follow -------------------------------
(***************************************************************************)
(* One browser's part in the shares of the others: focus-follow-provider,  *)
(* the control of focus-share.tsx and the effects of use-focus-presence.ts *)
(* that pause a follow and land a jump.  A share is the document it shows; *)
(* where in the document it is, and the ink over it, are not told apart.   *)
(***************************************************************************)
EXTENDS Integers, FiniteSets

CONSTANTS
  Others, Docs, \* the other members; the documents
  MaxEvents,    \* bounds the presence events
  MaxActs       \* bounds what this member does

VARIABLES
  members,      \* the roster: what each of the others presents
  lastRoster,   \* the roster of the last render
  current,      \* the follow this browser is in
  drawn,        \* ... as of the last render
  isPresenting, \* this browser's own share
  shareStarted, shareEnded, \* the notices
  route,        \* the document of the page, or None
  seenPath,     \* seenPathRef
  sentTo,       \* sentToRef
  going,        \* where a navigation goes, and whose it is; there, when landed
  returnTo, scrollTarget,
  joined,       \* kept for the properties: the running shares joined
  strayed, own, \* ...: navigated since joining; and landed, away from the share
  events, acts

vars == <<members, lastRoster, current, drawn, isPresenting, shareStarted,
          shareEnded, route, seenPath, sentTo, going, returnTo, scrollTarget,
          joined, strayed, own, events, acts>>

roster == <<members, lastRoster, events>>
path == <<route, seenPath, sentTo, going>>
notices == <<shareStarted, shareEnded>>
jumps == <<returnTo, scrollTarget>>
history == <<joined, strayed, own>>

None == "none" \* no document, no share, nobody
Gone == "gone" \* not in the roster
Home == "home"
NoFollow == [id |-> None, paused |-> FALSE]

Sharing(m, seen) == seen[m] \in Docs

\* The follow that drives the view.
Running(f) == f # NoFollow /\ ~f.paused

\* An event's state has all been rendered, its effects included.
Rendered == <<members, current, route>> = <<lastRoster, drawn, seenPath>>

-----------------------------------------------------------------------------
(* The roster *)

\* A member starts or ends a share, moves it to another document, leaves or is
\* back; several may change before the next render.
PresenceEvent(m) ==
  /\ events < MaxEvents /\ events' = events + 1
  /\ \E now \in Docs \cup {None, Gone} : members' = [members EXCEPT ![m] = now]
  /\ UNCHANGED <<lastRoster, current, drawn, isPresenting, notices, path, jumps,
                 history, acts>>

-----------------------------------------------------------------------------
(* A render, with the effect that it runs *)

\* Whom the notice names: who was seen without a share and has one, for a
\* member who follows nobody; it goes with its share.
Announced ==
  LET started == {m \in Others : Sharing(m, members) /\ lastRoster[m] = None}
  IN IF started # {} /\ current = NoFollow THEN shareStarted' \in started
     ELSE shareStarted' = IF shareStarted # None /\ Sharing(shareStarted, members)
                          THEN shareStarted ELSE None

Ended == current # NoFollow /\ ~Sharing(current.id, members)

\* Mutant: an ended share is derived away, and the follow is left standing.
SettledStanding == current

\* A follow whose share has ended is forgotten.
Settled == IF Ended THEN NoFollow ELSE current

Undriven == sentTo' = None /\ current' = Settled /\ UNCHANGED going

\* The follower's own navigation: to where the provider did not send them.
MovedAway == route # seenPath /\ (sentTo = None \/ route # sentTo)

\* The effect on followingId, members and pathname: a running follow crosses to
\* the presenter's document, unless the follower has just moved elsewhere.
Driven ==
  /\ drawn' = Settled
  /\ \/ ~Running(Settled) /\ Undriven
     \/ /\ Running(Settled)
        /\ \/ members[Settled.id] = route
           \/ members[Settled.id] = sentTo /\ ~MovedAway
        /\ current' = Settled /\ UNCHANGED <<sentTo, going>>
     \/ /\ Running(Settled) /\ members[Settled.id] # route /\ MovedAway
        /\ current' = [Settled EXCEPT !.paused = TRUE]
        /\ UNCHANGED <<sentTo, going>>
     \/ /\ Running(Settled) /\ members[Settled.id] \notin {route, sentTo} /\ ~MovedAway
        /\ sentTo' = members[Settled.id] /\ current' = Settled
        /\ going' = [to |-> sentTo', by |-> "follow"]

Render ==
  /\ ~Rendered
  /\ lastRoster' = members /\ seenPath' = route
  /\ IF members = lastRoster THEN UNCHANGED shareStarted ELSE Announced
  /\ shareEnded' = (shareEnded \/ Ended)
  /\ Driven
  /\ joined' = {m \in joined : Sharing(m, members)}
  /\ own' = (own \/ /\ Running(Settled) /\ seenPath # route /\ going.by = "self"
                    /\ route # members[Settled.id] /\ route \notin Docs \cap {sentTo})
  /\ UNCHANGED <<members, isPresenting, route, jumps, strayed, events, acts>>

-----------------------------------------------------------------------------
(* What the member does: an event whose render follows at once *)

Act == acts < MaxActs /\ acts' = acts + 1 /\ current = drawn

\* 참여하기, in the header or on the notice.
follow(m) ==
  /\ Act /\ Sharing(m, lastRoster)
  /\ (drawn = NoFollow /\ ~isPresenting) \/ shareStarted = m
  /\ current' = [id |-> m, paused |-> FALSE]
  /\ shareStarted' = None /\ shareEnded' = FALSE
  /\ joined' = joined \cup {m} /\ strayed' = FALSE /\ own' = FALSE
  /\ UNCHANGED <<roster, drawn, isPresenting, path, jumps>>

unfollow ==
  /\ Act /\ drawn # NoFollow /\ current' = NoFollow
  /\ UNCHANGED <<roster, drawn, isPresenting, notices, path, jumps, history>>

Paused == IF current = NoFollow THEN NoFollow ELSE [current EXCEPT !.paused = TRUE]

\* The button, or a wheel, touch, press or input over the document's scroller.
pause ==
  /\ Act /\ Running(drawn) /\ current' = Paused
  /\ UNCHANGED <<roster, drawn, isPresenting, notices, path, jumps, history>>

resume ==
  /\ Act /\ drawn # NoFollow /\ ~Running(drawn)
  /\ current' = [current EXCEPT !.paused = FALSE]
  /\ strayed' = FALSE /\ own' = FALSE
  /\ UNCHANGED <<roster, drawn, isPresenting, notices, path, jumps, joined>>

\* startSharing: nobody else's share is offered, and a document is shown.
startSharing ==
  /\ Act /\ ~isPresenting /\ drawn = NoFollow /\ seenPath # None
  /\ \A m \in Others : ~Sharing(m, lastRoster)
  /\ isPresenting' = TRUE
  /\ UNCHANGED <<roster, current, drawn, notices, path, jumps, history>>

stopSharing ==
  /\ Act /\ isPresenting /\ isPresenting' = FALSE
  /\ UNCHANGED <<roster, current, drawn, notices, path, jumps, history>>

\* A link, a tab, the browser's back: the last navigation wins.
Went(page) ==
  /\ going' = [to |-> page, by |-> "self"]
  /\ strayed' = TRUE
  /\ UNCHANGED <<route, seenPath, sentTo, joined, own>>

Navigate ==
  /\ Act /\ \E page \in Docs \cup {None} : Went(page)
  /\ UNCHANGED <<roster, current, drawn, isPresenting, notices, jumps>>

goTo(doc) ==
  /\ scrollTarget' = doc
  /\ IF doc # seenPath THEN Went(doc) ELSE UNCHANGED <<path, history>>

\* To where a member is.
jumpTo ==
  /\ Act /\ current' = Paused
  /\ returnTo' = IF seenPath = None THEN Home ELSE seenPath
  /\ \E doc \in Docs : goTo(doc)
  /\ UNCHANGED <<roster, drawn, isPresenting, notices>>

\* To a file's block.
goToBlock ==
  /\ Act /\ current' = Paused
  /\ \E doc \in Docs : goTo(doc)
  /\ UNCHANGED <<roster, drawn, isPresenting, notices, returnTo>>

\* A block's address on this page: nothing is paused.
land ==
  /\ Act /\ seenPath # None /\ scrollTarget' = seenPath
  /\ UNCHANGED <<roster, current, drawn, isPresenting, notices, path, returnTo, history>>

goBack ==
  /\ Act /\ returnTo # None /\ returnTo' = None
  /\ IF returnTo = Home THEN Went(None) /\ UNCHANGED scrollTarget ELSE goTo(returnTo)
  /\ UNCHANGED <<roster, current, drawn, isPresenting, notices>>

-----------------------------------------------------------------------------
(* The router, the editor and the timers *)

Land ==
  /\ going.to # route /\ route' = going.to
  /\ UNCHANGED <<roster, current, drawn, isPresenting, notices, seenPath, sentTo,
                 going, jumps, history, acts>>

\* The editor scrolls to its target, or the target's time is over.
clearScrollTarget ==
  /\ scrollTarget # None /\ scrollTarget' = None
  /\ UNCHANGED <<roster, current, drawn, isPresenting, notices, path, returnTo,
                 history, acts>>

clearNotice ==
  /\ \/ shareStarted # None /\ shareStarted' = None /\ UNCHANGED shareEnded
     \/ shareEnded /\ shareEnded' = FALSE /\ UNCHANGED shareStarted
  /\ UNCHANGED <<roster, current, drawn, isPresenting, path, jumps, history, acts>>

Init ==
  /\ members \in [Others -> Docs \cup {None}] /\ lastRoster = members
  /\ current = NoFollow /\ drawn = NoFollow /\ isPresenting = FALSE
  /\ shareStarted = None /\ shareEnded = FALSE
  /\ route \in Docs \cup {None} /\ seenPath = route /\ sentTo = None
  /\ going = [to |-> route, by |-> "self"]
  /\ returnTo = None /\ scrollTarget = None
  /\ joined = {} /\ strayed = FALSE /\ own = FALSE /\ events = 0 /\ acts = 0

Next ==
  \/ \E m \in Others : PresenceEvent(m) \/ follow(m)
  \/ Render \/ unfollow \/ pause \/ resume \/ startSharing \/ stopSharing
  \/ Navigate \/ jumpTo \/ goToBlock \/ land \/ goBack
  \/ Land \/ clearScrollTarget \/ clearNotice

Spec == Init /\ [][Next]_vars

-----------------------------------------------------------------------------
(* Properties *)

\* Whoever follows has joined this share: the next share of a presenter one
\* followed once does not pull the browser in (FR-030-11).
FollowsByChoice == current # NoFollow => current.id \in joined

\* A follower who has landed on a page of their own choice, where the share is
\* not, is not taken from it: the follow is paused until it is resumed (E3-1).
NotPulledBack == own => ~Running(current)

Quiet == Rendered /\ going.to = route

\* Once everything has landed, a running follow shows the presenter's document,
\* however the share moved meanwhile, for who has not navigated since joining.
TakenAlong ==
  Quiet /\ Running(current) /\ ~strayed => members[current.id] = route

\* The three of them: focus-follow-provider.tsx, the effects.
FollowsAsChosen == FollowsByChoice /\ NotPulledBack /\ TakenAlong
=============================================================================
