------------------------------ MODULE InfraConfig ------------------------------
(***************************************************************************)
(* The runtime configuration of daemon/src/infra_config.rs and its         *)
(* handlers: declared environment variables, discovered services,          *)
(* databases and TLS.  Each handler is one critical section.               *)
(***************************************************************************)
EXTENDS Sequences, SequencesExt

CONSTANTS Names, Values,
          Addrs,       \* addresses with a port, or "unix"
          BadAddrs,    \* addresses without one
          Engines      \* "postgres", "mysql", "sqlite" and others

VARIABLES env_vars, services, databases, tls, status
vars == <<env_vars, services, databases, tls, status>>

Supported == {"postgres", "mysql", "sqlite"}
Empty == "empty"

Init ==
  /\ env_vars = [n \in {} |-> Empty]
  /\ services = <<>>
  /\ databases = [n \in {} |-> Empty]
  /\ tls = "unconfigured"
  /\ status = 200

Put(f, n, v) == [m \in DOMAIN f \cup {n} |-> IF m = n THEN v ELSE f[m]]
Drop(f, n) == [m \in DOMAIN f \ {n} |-> f[m]]

\* infra_env_set: an empty value removes the variable.
SetEnvVar(n, v) ==
  /\ env_vars' = IF v = Empty THEN Drop(env_vars, n) ELSE Put(env_vars, n, v)
  /\ status' = 200
  /\ UNCHANGED <<services, databases, tls>>
ClearEnv ==
  /\ env_vars' = [n \in {} |-> Empty]
  /\ status' = 200
  /\ UNCHANGED <<services, databases, tls>>

\* infra_service_register: register_service answers whether the name is new, and the
\* handler takes "no" for a refusal.
RegisterService(n, a) ==
  LET known == {i \in DOMAIN services : services[i].name = n}
  IN /\ CASE a \in BadAddrs -> UNCHANGED services
           [] a \notin BadAddrs /\ known # {} ->
                services' = [i \in DOMAIN services |->
                               IF i \in known THEN [services[i] EXCEPT !.addr = a] ELSE services[i]]
           [] OTHER -> services' = Append(services, [name |-> n, addr |-> a])
     /\ status' = IF a \in BadAddrs \/ known # {} THEN 400 ELSE 200
     /\ UNCHANGED <<env_vars, databases, tls>>

\* infra_database_upsert: an unknown engine and port 0 are refused.
UpsertDatabase(n, engine, port) ==
  /\ IF engine \in Supported /\ port # 0
     THEN databases' = Put(databases, n, <<engine, port>>) /\ status' = 200
     ELSE status' = 400 /\ UNCHANGED databases
  /\ UNCHANGED <<env_vars, services, tls>>

SetTls(enabled) ==
  /\ tls' = IF enabled THEN "on" ELSE "off"
  /\ status' = 200
  /\ UNCHANGED <<env_vars, services, databases>>

Next ==
  \/ \E n \in Names, v \in Values \cup {Empty} : SetEnvVar(n, v)
  \/ ClearEnv
  \/ \E n \in Names, a \in Addrs \cup BadAddrs : RegisterService(n, a)
  \/ \E n \in Names, engine \in Engines, port \in {0, 5432} : UpsertDatabase(n, engine, port)
  \/ \E enabled \in BOOLEAN : SetTls(enabled)

Spec == Init /\ [][Next]_vars

---------------------------------------------------------------------------------

\* What is stored can be used, whatever was refused and replaced: a service stands once,
\* at an address it can be reached at, and a database has an engine and a port.
StoredIsUsable ==
  /\ \A i, j \in DOMAIN services : services[i].name = services[j].name => i = j
  /\ \A i \in DOMAIN services : services[i].addr \notin BadAddrs
  /\ \A n \in DOMAIN databases : databases[n][1] \in Supported /\ databases[n][2] # 0

=================================================================================
