------------------------------- MODULE Transactions -------------------------------
(***************************************************************************)
(* The daemon's store transactions: TxRegistry of                          *)
(* daemon/src/transactions.rs, its HTTP handlers, and the other writers of *)
(* the daemon's key-value store (the TCP Db commands, and a compile, which *)
(* stores the code it generated under two keys).                           *)
(*                                                                         *)
(* TxRegistry and Db each have a lock of their own, taken per call, and a  *)
(* commit is many calls.  What makes a commit atomic to the rest of the    *)
(* daemon is that tx_commit keeps the State lock until it has answered;    *)
(* the model therefore has that lock, and one action for every stretch in  *)
(* which a commit changes the store.  All other handlers do their work     *)
(* under the State lock in one go.                                         *)
(*                                                                         *)
(* apply_op never fails, so a transaction never becomes Failed.  Nothing   *)
(* in the daemon sets a deadline.  The isolation level is stored and never *)
(* read.  A value is named by the number of the put that carries it.       *)
(***************************************************************************)
EXTENDS Kv, SequencesExt, TLC

CONSTANTS TxIds,
          Patterns,     \* the key sets that globs may match
          Clients,      \* connections
          CodegenNs,    \* "codegen"
          ServiceKey,   \* the compiled file's first service
          LatestKey,    \* "latest"
          MaxPuts,      \* bound: puts ever accepted
          MaxOps,       \* bound: operations queued in one transaction
          MaxUnits,     \* bound: writes and commits ever finished
          None

ASSUME BoundAssumption == MaxPuts \in Nat /\ MaxOps \in Nat /\ MaxUnits \in Nat
ASSUME ValuesAssumption == Values = 1 .. MaxPuts
ASSUME PatternsAssumption == Patterns \subseteq SUBSET Keys
ASSUME NoneAssumption == None \notin Clients
ASSUME CodegenAssumption == CodegenNs \in Namespaces /\ {ServiceKey, LatestKey} \subseteq Keys

\* StoreOp.  A pattern is the set of keys it matches.
Ops ==
  [op : {"put"}, ns : Namespaces, key : Keys, value : Values]
    \cup [op : {"del"}, ns : Namespaces, key : Keys]
    \cup [op : {"del_matching"}, ns : Namespaces, pattern : Patterns]

TxStates == {"Active", "Committed", "RolledBack"}

VARIABLES
  store,
  txs,        \* the registry: id -> [state, ops], for the ids it knows
  lock,       \* the client that holds the State lock across actions, or None
  commit,     \* client -> the commit it is in: what is left, and the keys of a
              \* del_matching it has collected and not yet deleted
  puts,       \* puts accepted so far
  units,      \* history: the writes and commits finished, each a sequence of ops
  dropped     \* history: values whose transaction was rolled back

vars == <<store, txs, lock, commit, puts, units, dropped>>

NoCommit == [ops |-> <<>>, left |-> <<>>, doomed |-> {}]

PutValues(ops) == {ops[i].value : i \in {j \in DOMAIN ops : ops[j].op = "put"}}

PutOp(ns, key, value) == [op |-> "put", ns |-> ns, key |-> key, value |-> value]

---------------------------------------------------------------------------------

Init ==
  /\ store = EmptyStore
  /\ txs = [i \in {} |-> i]
  /\ lock = None
  /\ commit = [c \in Clients |-> NoCommit]
  /\ puts = 0
  /\ units = <<>>
  /\ dropped = {}

\* A write outside of transactions, made of ops under one hold of the lock.
Write(ops) ==
  /\ lock = None
  /\ Len(units) < MaxUnits
  /\ store' = Replay(store, ops)
  /\ units' = Append(units, ops)
  /\ UNCHANGED <<txs, lock, commit, dropped>>

DbPut(ns, key) ==
  /\ puts < MaxPuts
  /\ puts' = puts + 1
  /\ Write(<<PutOp(ns, key, puts + 1)>>)

DbDel(ns, key) == Write(<<[op |-> "del", ns |-> ns, key |-> key]>>) /\ UNCHANGED puts

DbFlush(ns) == Write(<<[op |-> "flush", ns |-> ns]>>) /\ UNCHANGED puts

\* A compile over HTTP or TCP, or by the watcher: one text under two keys.
Compile ==
  /\ puts < MaxPuts
  /\ puts' = puts + 1
  /\ Write(<<PutOp(CodegenNs, ServiceKey, puts + 1), PutOp(CodegenNs, LatestKey, puts + 1)>>)

\* begin: 409 for an id the registry still knows.
Begin(i) ==
  /\ lock = None
  /\ i \notin DOMAIN txs
  /\ txs' = [j \in DOMAIN txs \cup {i} |->
               IF j = i THEN [state |-> "Active", ops |-> <<>>] ELSE txs[j]]
  /\ UNCHANGED <<store, lock, commit, puts, units, dropped>>

\* enqueue: 404 unless the transaction is there and active.
Enqueue(i, op) ==
  /\ lock = None
  /\ i \in DOMAIN txs
  /\ txs[i].state = "Active"
  /\ Len(txs[i].ops) < MaxOps
  /\ IF op.op = "put" THEN puts < MaxPuts /\ op.value = puts + 1 /\ puts' = puts + 1
                      ELSE UNCHANGED puts
  /\ txs' = [txs EXCEPT ![i].ops = Append(@, op)]
  /\ UNCHANGED <<store, lock, commit, units, dropped>>

\* Mutation: tx_commit takes a handle on the store and lets the State lock go.
CommitBeginUnlocked(c, i) ==
  /\ lock = None
  /\ commit[c] = NoCommit
  /\ Len(units) < MaxUnits
  /\ i \in DOMAIN txs
  /\ txs[i].state = "Active"
  /\ txs' = [txs EXCEPT ![i] = [state |-> "Committed", ops |-> <<>>]]
  /\ commit' = [commit EXCEPT ![c] = [ops |-> txs[i].ops, left |-> txs[i].ops, doomed |-> {}]]
  /\ UNCHANGED <<lock, store, puts, units, dropped>>

\* Mutation: commit copies the operations and accepts any state.
CommitBeginClones(c, i) ==
  /\ lock = None
  /\ Len(units) < MaxUnits
  /\ i \in DOMAIN txs
  /\ txs' = [txs EXCEPT ![i].state = "Committed"]
  /\ commit' = [commit EXCEPT ![c] = [ops |-> txs[i].ops, left |-> txs[i].ops, doomed |-> {}]]
  /\ lock' = c
  /\ UNCHANGED <<store, puts, units, dropped>>

\* tx_commit up to the registry's answer: the transaction is Committed, its
\* operations are taken out of it, and the State lock stays with the client.
CommitBegin(c, i) ==
  /\ lock = None
  /\ Len(units) < MaxUnits
  /\ i \in DOMAIN txs
  /\ txs[i].state = "Active"
  /\ txs' = [txs EXCEPT ![i] = [state |-> "Committed", ops |-> <<>>]]
  /\ commit' = [commit EXCEPT ![c] = [ops |-> txs[i].ops, left |-> txs[i].ops, doomed |-> {}]]
  /\ lock' = c
  /\ UNCHANGED <<store, puts, units, dropped>>

\* The commit's loop is at its next operation.
AtNext(c) ==
  /\ commit[c].left # <<>>
  /\ commit[c].doomed = {}

\* apply_op of a put or a del.
ApplyOp(c) ==
  /\ AtNext(c)
  /\ Head(commit[c].left).op # "del_matching"
  /\ store' = Apply(store, Head(commit[c].left))
  /\ commit' = [commit EXCEPT ![c].left = Tail(@)]
  /\ UNCHANGED <<txs, lock, puts, units, dropped>>

\* apply_op of a del_matching: the keys are listed first...
CollectMatching(c) ==
  /\ AtNext(c)
  /\ LET op == Head(commit[c].left) IN
     /\ op.op = "del_matching"
     /\ LET doomed == {[ns |-> op.ns, key |-> k] : k \in Doomed(store, op.ns, op.pattern)} IN
        commit' = [commit EXCEPT ![c].left = Tail(@), ![c].doomed = doomed]
  /\ UNCHANGED <<store, txs, lock, puts, units, dropped>>

\* ... and then deleted one by one, in the order of a HashMap.
DelMatched(c) ==
  /\ \E d \in commit[c].doomed :
       /\ store' = DelIn(store, d.ns, d.key)
       /\ commit' = [commit EXCEPT ![c].doomed = @ \ {d}]
  /\ UNCHANGED <<txs, lock, puts, units, dropped>>

\* The answer; the lock is given back.
CommitEnd(c) ==
  /\ lock = c
  /\ commit[c].left = <<>> /\ commit[c].doomed = {}
  /\ units' = Append(units, commit[c].ops)
  /\ commit' = [commit EXCEPT ![c] = NoCommit]
  /\ lock' = None
  /\ UNCHANGED <<store, txs, puts, dropped>>

\* rollback
Rollback(i) ==
  /\ lock = None
  /\ i \in DOMAIN txs
  /\ txs[i].state = "Active"
  /\ txs' = [txs EXCEPT ![i] = [state |-> "RolledBack", ops |-> <<>>]]
  /\ dropped' = dropped \cup PutValues(txs[i].ops)
  /\ UNCHANGED <<store, lock, commit, puts, units>>

\* Mutation: prune drops the active transactions and keeps the others.
PruneActive ==
  /\ lock = None
  /\ txs' = [i \in {j \in DOMAIN txs : txs[j].state # "Active"} |-> txs[i]]
  /\ UNCHANGED <<store, lock, commit, puts, units, dropped>>

\* prune_finished
Prune ==
  /\ lock = None
  /\ txs' = [i \in {j \in DOMAIN txs : txs[j].state = "Active"} |-> txs[i]]
  /\ UNCHANGED <<store, lock, commit, puts, units, dropped>>

Next ==
  \/ \E ns \in Namespaces, key \in Keys : DbPut(ns, key) \/ DbDel(ns, key)
  \/ \E ns \in Namespaces : DbFlush(ns)
  \/ Compile
  \/ \E i \in TxIds : Begin(i) \/ Rollback(i)
  \/ \E i \in TxIds, op \in Ops : Enqueue(i, op)
  \/ \E c \in Clients, i \in TxIds : CommitBegin(c, i)
  \/ \E c \in Clients :
       ApplyOp(c) \/ CollectMatching(c) \/ DelMatched(c) \/ CommitEnd(c)
  \/ Prune

Spec == Init /\ [][Next]_vars

---------------------------------------------------------------------------------
\* Properties

\* All that was finished, in order.
AllUnits == FlattenSeq(units)

AppliedValues == UNION {PutValues(units[u]) : u \in DOMAIN units}

\* Whatever a handler finds in the store is what whole transactions and whole
\* writes left there, one after the other: nobody ever sees, or writes into,
\* half of a commit.
HandlersSeeWholeCommits ==
  lock = None => store = Replay(EmptyStore, AllUnits)

\* Every put a client was told is queued has been applied, is still queued in
\* an active transaction, or went with a rollback: pruning, committing and
\* queueing in any order forget nothing.
AcceptedPutsAreDecided ==
  1 .. puts = dropped \cup AppliedValues
                \cup (UNION {PutValues(commit[c].ops) : c \in Clients})
                \cup (UNION {PutValues(txs[i].ops) :
                               i \in {j \in DOMAIN txs : txs[j].state = "Active"}})

\* No put takes effect twice, or after it was rolled back, even when an id is
\* committed again or used again after a prune.
AppliedOnce ==
  /\ dropped \cap AppliedValues = {}
  /\ \A u, v \in DOMAIN units : u # v => PutValues(units[u]) \cap PutValues(units[v]) = {}

---------------------------------------------------------------------------------
\* For TLC: clients, and transaction ids, are alike.
Symmetry == Permutations(Clients) \cup Permutations(TxIds)

===================================================================================
