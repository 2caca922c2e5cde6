------------------------------ MODULE TestRegistry ------------------------------
(***************************************************************************)
(* The test harness registry of daemon/src/testing.rs and its handlers:    *)
(* provisioned databases, mocks and test mode.  One critical section each. *)
(***************************************************************************)
EXTENDS Naturals, FiniteSets

CONSTANTS Names, Principals, Services, Levels,
          MaxSeq     \* bound: databases provisioned

VARIABLES
  databases,   \* live namespaces: <<seq, name>>
  next_seq,
  mocks,       \* [auth, services]
  mode,        \* the log level of the active test run, or "off"
  promised     \* history: every namespace that was ever handed out

vars == <<databases, next_seq, mocks, mode, promised>>

NoMocks == [auth |-> "none", services |-> {}]
Known == {"trace", "debug", "info", "warn", "error"}

Init ==
  /\ databases = {} /\ next_seq = 0 /\ mocks = NoMocks /\ mode = "off" /\ promised = {}

\* testing_db_new, new_database: the namespace is t{seq}_{name}.
NewDatabase(name) ==
  LET namespace == <<next_seq + 1, name>>
  IN /\ next_seq < MaxSeq
     /\ next_seq' = next_seq + 1
     /\ databases' = databases \cup {namespace}
     /\ promised' = promised \cup {namespace}
     /\ UNCHANGED <<mocks, mode>>

\* Mutation: the registry starts over.
CleanupStartsOver == databases' = {} /\ next_seq' = 0 /\ UNCHANGED <<mocks, mode, promised>>

\* cleanup_databases destroys everybody's, and counts them; the counter goes on.
Cleanup == databases' = {} /\ UNCHANGED <<next_seq, mocks, mode, promised>>

\* enter_mode: an unknown level becomes error.
EnterMode(level) ==
  /\ mode' = IF level \in Known THEN level ELSE "error"
  /\ UNCHANGED <<databases, next_seq, mocks, promised>>
ExitMode == mode # "off" /\ mode' = "off" /\ UNCHANGED <<databases, next_seq, mocks, promised>>

MockAuth(p) ==
  mocks' = [mocks EXCEPT !.auth = p] /\ UNCHANGED <<databases, next_seq, mode, promised>>
MockService(s) ==
  /\ mocks' = [mocks EXCEPT !.services = @ \cup {s}]
  /\ UNCHANGED <<databases, next_seq, mode, promised>>
ClearMocks == mocks' = NoMocks /\ UNCHANGED <<databases, next_seq, mode, promised>>

Next ==
  \/ \E name \in Names : NewDatabase(name)
  \/ Cleanup
  \/ \E level \in Levels : EnterMode(level)
  \/ ExitMode
  \/ \E p \in Principals : MockAuth(p)
  \/ \E s \in Services : MockService(s)
  \/ ClearMocks

Spec == Init /\ [][Next]_vars

---------------------------------------------------------------------------------

\* "uniquely-namespaced instances": a namespace is handed out once, also after a
\* cleanup that another harness asked for while its owner still holds it.
NamespacesAreFresh ==
  [][\A namespace \in databases' \ databases : namespace \notin promised]_vars

=================================================================================
