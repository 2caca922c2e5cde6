----------------------------------- MODULE Db -----------------------------------
(***************************************************************************)
(* The embedded key-value library, db/src/lib.rs: threads that share a Db  *)
(* handle, its per-key deadlines, and its transactions.                    *)
(*                                                                         *)
(* Every Db method holds the store's mutex from its first line to its last *)
(* and is one action.  Transaction::commit is not one: it calls the Db     *)
(* methods one by one, and each takes the mutex for itself.  The clock     *)
(* moves between any two actions.                                          *)
(*                                                                         *)
(* A value is named by the number of the put that wrote or queued it, so   *)
(* that no two puts write the same value.  Queries that change nothing     *)
(* (get, keys, stats...) are no steps.                                     *)
(***************************************************************************)
EXTENDS Kv

CONSTANTS Threads,
          MaxPuts,   \* bound: puts ever called; Values is 1 .. MaxPuts
          MaxOps     \* bound: operations in one transaction

Ops ==
  [op : {"put", "put_ttl"}, ns : Namespaces, key : Keys, value : Values]
    \cup [op : {"del"}, ns : Namespaces, key : Keys]
    \cup [op : {"flush"}, ns : Namespaces]

VARIABLES
  store,
  puts,        \* puts called so far
  tx,          \* thread -> its Transaction: operations, how many of them commit
               \* has applied, and how far it has come
  discarded    \* history: values whose transaction was rolled back or dropped

vars == <<store, puts, tx, discarded>>

NoTx == [ops |-> <<>>, applied |-> 0, phase |-> "none"]

\* Inside commit a thread can do nothing else; commit consumes the Transaction.
Free(c) == tx[c].phase # "committing"

ValuesOf(ops) == {ops[i].value : i \in {j \in DOMAIN ops : ops[j].op \in {"put", "put_ttl"}}}

\* The operation reaches the entry of (ns, key).
Hits(op, ns, key) == op.ns = ns /\ (op.op = "flush" \/ op.key = key)

---------------------------------------------------------------------------------
\* The store's operations

Init ==
  /\ store = EmptyStore
  /\ puts = 0
  /\ tx = [c \in Threads |-> NoTx]
  /\ discarded = {}

Put(c, ns, key, expiry) ==
  /\ Free(c)
  /\ puts < MaxPuts
  /\ puts' = puts + 1
  /\ store' = PutIn(store, ns, key, puts + 1, expiry)
  /\ UNCHANGED <<tx, discarded>>

Del(c, ns, key) ==
  /\ Free(c)
  /\ store' = DelIn(store, ns, key)
  /\ UNCHANGED <<puts, tx, discarded>>

FlushNs(c, ns) ==
  /\ Free(c)
  /\ store' = FlushIn(store, ns)
  /\ UNCHANGED <<puts, tx, discarded>>

FlushAll(c) ==
  /\ Free(c)
  /\ store' = EmptyStore
  /\ UNCHANGED <<puts, tx, discarded>>

\* Mutation: expire and persist do not look whether the entry has expired.
SetDeadlineUnchecked(c, ns, key, expiry) ==
  /\ Free(c)
  /\ Has(store, ns, key)
  /\ store' = [store EXCEPT ![ns][key].expiry = expiry]
  /\ UNCHANGED <<puts, tx, discarded>>

\* expire ("armed") and persist ("never"): only on an entry that is visible.
SetDeadline(c, ns, key, expiry) ==
  /\ Free(c)
  /\ Visible(store, ns, key)
  /\ store' = [store EXCEPT ![ns][key].expiry = expiry]
  /\ UNCHANGED <<puts, tx, discarded>>

PurgeExpired(c) ==
  /\ Free(c)
  /\ store' = [n \in DOMAIN store |->
                 [k \in {x \in DOMAIN store[n] : store[n][x].expiry # "past"} |->
                    store[n][k]]]
  /\ UNCHANGED <<puts, tx, discarded>>

\* A deadline passes.
Tick ==
  /\ \E ns \in DOMAIN store : \E key \in DOMAIN store[ns] :
       /\ store[ns][key].expiry = "armed"
       /\ store' = [store EXCEPT ![ns][key].expiry = "past"]
  /\ UNCHANGED <<puts, tx, discarded>>

---------------------------------------------------------------------------------
\* Transactions

\* transaction(): a thread starts a new buffer once the last one is consumed.
Begin(c) ==
  /\ tx[c].phase \in {"none", "done"}
  /\ tx' = [tx EXCEPT ![c] = [ops |-> <<>>, applied |-> 0, phase |-> "open"]]
  /\ UNCHANGED <<store, puts, discarded>>

\* put, put_with_ttl, del and flush of a Transaction.
Queue(c, op) ==
  /\ tx[c].phase = "open"
  /\ Len(tx[c].ops) < MaxOps
  /\ IF op.op \in {"put", "put_ttl"}
     THEN puts < MaxPuts /\ op.value = puts + 1 /\ puts' = puts + 1
     ELSE UNCHANGED puts
  /\ tx' = [tx EXCEPT ![c].ops = Append(@, op)]
  /\ UNCHANGED <<store, discarded>>

\* Mutation: rollback applies what was queued.
RollbackApplies(c) ==
  /\ tx[c].phase = "open"
  /\ tx' = [tx EXCEPT ![c] = NoTx]
  /\ discarded' = discarded \cup ValuesOf(tx[c].ops)
  /\ store' = Replay(store, tx[c].ops)
  /\ UNCHANGED <<puts>>

\* rollback, or dropping the Transaction.
Rollback(c) ==
  /\ tx[c].phase = "open"
  /\ tx' = [tx EXCEPT ![c] = NoTx]
  /\ discarded' = discarded \cup ValuesOf(tx[c].ops)
  /\ UNCHANGED <<store, puts>>

Commit(c) ==
  /\ tx[c].phase = "open"
  /\ tx' = [tx EXCEPT ![c].phase = IF tx[c].ops = <<>> THEN "done" ELSE "committing"]
  /\ UNCHANGED <<store, puts, discarded>>

\* Mutation: commit pops the operations off the end.
CommitStepPops(c) ==
  /\ tx[c].phase = "committing"
  /\ store' = Apply(store, tx[c].ops[Len(tx[c].ops) - tx[c].applied])
  /\ tx' = [tx EXCEPT ![c].applied = @ + 1,
                      ![c].phase = IF tx[c].applied + 1 = Len(tx[c].ops)
                                   THEN "done" ELSE "committing"]
  /\ UNCHANGED <<puts, discarded>>

\* One turn of commit's loop: one operation under its own lock.
CommitStep(c) ==
  /\ tx[c].phase = "committing"
  /\ store' = Apply(store, tx[c].ops[tx[c].applied + 1])
  /\ tx' = [tx EXCEPT ![c].applied = @ + 1,
                      ![c].phase = IF tx[c].applied + 1 = Len(tx[c].ops)
                                   THEN "done" ELSE "committing"]
  /\ UNCHANGED <<puts, discarded>>

---------------------------------------------------------------------------------

Next ==
  \/ \E c \in Threads, ns \in Namespaces, key \in Keys :
       \/ \E expiry \in {"never", "armed"} :
            Put(c, ns, key, expiry) \/ SetDeadline(c, ns, key, expiry)
       \/ Del(c, ns, key)
  \/ \E c \in Threads, ns \in Namespaces : FlushNs(c, ns)
  \/ \E c \in Threads : FlushAll(c) \/ PurgeExpired(c)
  \/ \E c \in Threads, op \in Ops : Queue(c, op)
  \/ \E c \in Threads : Begin(c) \/ Rollback(c) \/ Commit(c) \/ CommitStep(c)
  \/ Tick

Spec == Init /\ [][Next]_vars

---------------------------------------------------------------------------------
\* Properties

\* A value past its deadline is never read again: neither expire nor persist
\* nor a race of either with the clock brings it back.
ExpiredStaysExpired ==
  [][\A ns \in DOMAIN store : \A key \in DOMAIN store[ns] :
       store[ns][key].expiry = "past" =>
         ~(Visible(store', ns, key) /\ store'[ns][key].value = store[ns][key].value)]_vars

\* What is only queued, or was rolled back, is in no entry: only a commit makes
\* a transaction's puts visible.
NoDirtyWrites ==
  \A ns \in DOMAIN store : \A key \in DOMAIN store[ns] :
    /\ store[ns][key].value \notin discarded
    /\ \A c \in Threads :
         tx[c].phase = "open" => store[ns][key].value \notin ValuesOf(tx[c].ops)

\* A transaction's operations take effect in the order they were queued: what
\* an applied one put is gone once a later applied one hit the same key,
\* whatever other threads do in between.
LaterOpWins ==
  \A c \in Threads : \A i, j \in 1 .. tx[c].applied :
    i < j /\ tx[c].ops[i].op \in {"put", "put_ttl"} =>
      LET op == tx[c].ops[i] IN
      Hits(tx[c].ops[j], op.ns, op.key) /\ Has(store, op.ns, op.key)
        => store[op.ns][op.key].value # op.value

---------------------------------------------------------------------------------
(***************************************************************************)
(* Threads that do nothing but run one transaction each, without           *)
(* deadlines: is the outcome one that running them one after the other     *)
(* could have had?                                                         *)
(***************************************************************************)

LOCAL INSTANCE SequencesExt

TxNext ==
  \E c \in Threads :
    \/ tx[c].phase = "none" /\ Begin(c)
    \/ Rollback(c) \/ Commit(c) \/ CommitStep(c)
    \/ \E op \in Ops : op.op # "put_ttl" /\ Queue(c, op)

TxSpec == Init /\ [][TxNext]_vars

\* db/src/lib.rs says commit applies the queued operations "atomically" and
\* "all-at-once": with every commit over, the store is what the transactions
\* leave when they are applied one after the other, in some order.
CommitsAreSerial ==
  (\A c \in Threads : Free(c)) =>
    \E order \in SetToSeqs({c \in Threads : tx[c].phase = "done"}) :
      store = Replay(EmptyStore, FlattenSeq([i \in DOMAIN order |-> tx[order[i]].ops]))

==================================================================================
