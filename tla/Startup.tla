-------------------------------- MODULE Startup --------------------------------
(***************************************************************************)
(* The start of the server (instrumentation.ts) and the registration of    *)
(* its webhook with Yorkie (lib/yorkie-admin.ts), call by call: Yorkie may *)
(* be down, an answer may be lost, and the process may stop anywhere.      *)
(***************************************************************************)
EXTENDS Naturals

CONSTANTS
  Attempts,  \* of one start, `attempts'
  MaxStarts, \* bounds the starts
  MaxFaults  \* bounds the calls that fail

VARIABLES
  production, \* NODE_ENV
  configured, \* YORKIE_ADMIN_PASSWORD, or the default where it is unset
  yorkie,     \* the admin's password, and whether it asks the webhook
  stage,      \* the call that is next, serving, or how the process ended
  attempt,
  unnoticed,  \* kept for the properties: a failure reported as a wrong password
  starts, faults

vars == <<production, configured, yorkie, stage, attempt, unnoticed, starts, faults>>

env == <<production, configured>>

Default == "admin"
Calls == {"LogIn", "LogIn as before", "ChangePassword", "LogIn again", "UpdateProject"}

\* adminPassword, outside the retry.
MayRegister == ~(production /\ configured = Default)

\* Mutant: the process lives on.
GivenUpServing == stage' = "serving"

\* register: a failed registration ends a production server only.
GivenUp == stage' = IF production THEN "exited" ELSE "serving"

Start ==
  /\ stage \in {"off", "exited"} /\ starts < MaxStarts /\ starts' = starts + 1
  /\ attempt' = 1 /\ unnoticed' = FALSE
  /\ IF MayRegister THEN stage' = "LogIn" ELSE GivenUp
  /\ UNCHANGED <<env, yorkie, faults>>

\* What the catch of registerAuthWebhook does with an error.
Failed(is401) ==
  IF attempt >= Attempts \/ is401 THEN GivenUp /\ UNCHANGED attempt
  ELSE stage' = "LogIn" /\ attempt' = attempt + 1

\* tokenFor answers 401.
WrongPassword ==
  /\ \/ stage = "LogIn" /\ yorkie.password # configured
     \/ stage = "LogIn as before" /\ yorkie.password # Default
     \/ stage = "LogIn again" /\ yorkie.password # configured
  /\ IF stage = "LogIn" /\ configured # Default
     THEN stage' = "LogIn as before" /\ UNCHANGED attempt
     ELSE Failed(TRUE)
  /\ UNCHANGED <<env, yorkie, unnoticed, starts, faults>>

LoggedIn ==
  /\ \/ stage = "LogIn" /\ yorkie.password = configured /\ stage' = "UpdateProject"
     \/ stage = "LogIn as before" /\ yorkie.password = Default /\ stage' = "ChangePassword"
     \/ stage = "LogIn again" /\ yorkie.password = configured /\ stage' = "UpdateProject"
  /\ UNCHANGED <<env, yorkie, attempt, unnoticed, starts, faults>>

\* What Yorkie does of the two calls that change it.
Handled ==
  yorkie' = IF stage = "ChangePassword" THEN [yorkie EXCEPT !.password = configured]
            ELSE [yorkie EXCEPT !.asks = TRUE]

Answered ==
  /\ \/ stage = "ChangePassword" /\ stage' = "LogIn again"
     \/ stage = "UpdateProject" /\ stage' = "serving"
  /\ Handled
  /\ UNCHANGED <<env, attempt, unnoticed, starts, faults>>

\* A call that Yorkie does not answer, done or not; the login with the default
\* password hides its own failure behind the 401 before it.
Unanswered ==
  /\ stage \in Calls /\ faults < MaxFaults /\ faults' = faults + 1
  /\ \/ stage \in {"ChangePassword", "UpdateProject"} /\ Handled
     \/ UNCHANGED yorkie
  /\ Failed(stage = "LogIn as before")
  /\ unnoticed' = (stage = "LogIn as before")
  /\ UNCHANGED <<env, starts>>

\* The process is stopped, wherever it is.
Stop ==
  /\ stage \notin {"off", "exited"} /\ stage' = "off"
  /\ UNCHANGED <<env, yorkie, attempt, unnoticed, starts, faults>>

\* A volume keeps the password it was made with: the default, that of this
\* configuration, or that of another one.
Init ==
  /\ production \in BOOLEAN /\ configured \in {Default, "own"}
  /\ yorkie \in [password : {Default, "own", "another"}, asks : {FALSE}]
  /\ stage = "off" /\ attempt = 0 /\ unnoticed = FALSE /\ starts = 0 /\ faults = 0

Next == Start \/ WrongPassword \/ LoggedIn \/ Answered \/ Unanswered \/ Stop

Spec == Init /\ [][Next]_vars

-----------------------------------------------------------------------------
(* Properties *)

\* No server serves in production while Yorkie lets everybody in, whatever
\* failed and wherever earlier starts stopped; and one whose password Yorkie
\* holds, or would be given, does not give up before its attempts are used,
\* though an earlier start moved the password and never heard of it.
ServesGuarded ==
  /\ stage = "serving" /\ production => yorkie.asks
  /\ stage = "exited" /\ configured = "own" /\ yorkie.password # "another"
       => attempt = Attempts \/ unnoticed
=============================================================================
