--------------------------- MODULE WorkspaceConfig ---------------------------
(***************************************************************************)
(* The workspace's name and password: lib/workspace-config.ts with its two *)
(* routes.  Hashing a password is an await, so every operation is two      *)
(* steps: what it reads before, and what it does after.  A hash matches    *)
(* only its own password; the salt adds nothing here.  Lengths only refuse *)
(* a request.                                                              *)
(***************************************************************************)
EXTENDS Naturals

CONSTANTS
  Names, Passwords,
  DefaultName, \* DEFAULT_WORKSPACE_NAME
  NotSetUp,    \* no workspace.json, or one that does not parse
  EnvSeed,     \* WORKSPACE_NAME and WORKSPACE_PASSWORD, or NotSetUp
  Requests,    \* the requests that may be hashing at the same time
  MaxFaults    \* bound: how many faults happen

Configs == [name : Names \cup {DefaultName}, password : Passwords]

VARIABLES
  config, \* workspace.json
  hashing, \* what each request that awaits a hash keeps in its locals
  faults  \* how many faults have happened, for MaxFaults

configVars == <<config, hashing, faults>>

Idle == [op |-> "idle"]

Checks == [op : {"check"}, password : Passwords, stored : Configs]

Stores == [op : {"new", "existing"}, name : Names \cup {DefaultName},
           password : Passwords]

TypeOK ==
  /\ config \in Configs \cup {NotSetUp}
  /\ hashing \in [Requests -> {Idle} \cup Checks \cup Stores]
  /\ faults \in Nat

isWorkspaceOpen == config # NotSetUp

getWorkspaceName == IF isWorkspaceOpen THEN config.name ELSE DefaultName

Begins(r, work) ==
  /\ hashing[r] = Idle
  /\ hashing' = [hashing EXCEPT ![r] = work]
  /\ UNCHANGED <<config, faults>>

Ends(r) == hashing' = [hashing EXCEPT ![r] = Idle]

-----------------------------------------------------------------------------
(* isWorkspacePassword *)

\* Until the setup is done there is no password to be wrong about.
BeginCheck(r, candidate) ==
  /\ isWorkspaceOpen
  /\ Begins(r, [op |-> "check", password |-> candidate, stored |-> config])

Matches(r) == hashing[r].password = hashing[r].stored.password

-----------------------------------------------------------------------------
(* openWorkspace, changeWorkspacePassword *)

BeginSetup(r, name, password) ==
  Begins(r, [op |-> "new", name |-> name, password |-> password])

\* The name is read before the hash.
BeginChange(r, password) ==
  Begins(r, [op |-> "existing", name |-> getWorkspaceName,
             password |-> password])

\* A setup only creates, a change only replaces.
MayStore(r) ==
  \/ hashing[r].op = "new" /\ ~isWorkspaceOpen
  \/ hashing[r].op = "existing" /\ isWorkspaceOpen

EndStore(r) ==
  /\ hashing[r].op \in {"new", "existing"}
  /\ config' = IF MayStore(r)
                 THEN [name |-> hashing[r].name,
                       password |-> hashing[r].password]
                 ELSE config
  /\ Ends(r)
  /\ UNCHANGED faults

-----------------------------------------------------------------------------
(* Faults *)

Fault ==
  /\ faults < MaxFaults
  /\ faults' = faults + 1

\* The file cannot be written: the request ends with an error.
WriteFails(r) ==
  /\ Fault
  /\ MayStore(r)
  /\ Ends(r)
  /\ UNCHANGED config

\* The file is damaged from outside: the workspace counts as not set up.
Damaged ==
  /\ Fault
  /\ config' = NotSetUp
  /\ UNCHANGED hashing

\* Mutant: the environment always wins.
SeededAlways == IF EnvSeed # NotSetUp THEN EnvSeed ELSE config

\* seedWorkspaceFromEnv, before the first request.
Seeded == IF isWorkspaceOpen THEN config ELSE EnvSeed

Restart ==
  /\ Fault
  /\ config' = Seeded
  /\ hashing' = [r \in Requests |-> Idle]

-----------------------------------------------------------------------------
Init ==
  /\ config = EnvSeed
  /\ hashing = [r \in Requests |-> Idle]
  /\ faults = 0

Store ==
  \/ \E r \in Requests, password \in Passwords :
       \/ \E name \in Names \cup {DefaultName} : BeginSetup(r, name, password)
       \/ BeginChange(r, password)
  \/ \E r \in Requests : EndStore(r)

-----------------------------------------------------------------------------
(* Properties *)

\* workspace-config.ts, openWorkspace, "a second tab cannot replace a password
\* guests were already given": while the file is sound, the password changes
\* only by a change of it that finds the workspace open; never by a setup, nor
\* by the environment after a restart.
PasswordKept ==
  [][config # NotSetUp /\ config' \notin {config, NotSetUp} =>
       \E r \in Requests : /\ hashing[r].op = "existing"
                           /\ hashing'[r] = Idle
                           /\ config'.password = hashing[r].password]_configVars

=============================================================================
