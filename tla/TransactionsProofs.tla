---------------------------- MODULE TransactionsProofs ----------------------------
(***************************************************************************)
(* What holds of the store transactions for any namespaces, keys, clients, *)
(* transaction ids and bounds: every accepted put is in one place, and the *)
(* store is what whole commits and whole writes left.                      *)
(***************************************************************************)
EXTENDS Transactions, Iteration

---------------------------------------------------------------------------------
\* AppliedOnce and AcceptedPutsAreDecided, for any ids, keys, clients and bounds.

AnyOp == Ops \cup [op : {"flush"}, ns : Namespaces]

\* The history and the transactions are what the actions take them for.
Shaped ==
  /\ puts \in Nat
  /\ units \in Seq(Seq(AnyOp))
  /\ txs = [i \in DOMAIN txs |-> txs[i]]
  /\ \A i \in DOMAIN txs : txs[i] \in [state : TxStates, ops : Seq(Ops)]
  /\ commit = [c \in Clients |-> commit[c]]
  /\ \A c \in Clients : /\ commit[c] = [f \in DOMAIN NoCommit |-> commit[c][f]]
                        /\ commit[c].ops \in Seq(Ops)

\* Only the client that holds the lock is in a commit, and what is decided holds no
\* operations any more.
OneCommit ==
  /\ \A c \in Clients : c # lock => commit[c] = NoCommit
  /\ \A i \in DOMAIN txs : txs[i].state # "Active" => txs[i].ops = <<>>

\* The values in a commit, and in a transaction.
InCommit(c) == PutValues(commit[c].ops)
InTx(i) == PutValues(txs[i].ops)

\* Every accepted put is in one place.
Somewhere(x) ==
  \/ x \in dropped
  \/ \E u \in DOMAIN units : x \in PutValues(units[u])
  \/ \E c \in Clients : x \in InCommit(c)
  \/ \E i \in DOMAIN txs : x \in InTx(i)

OnePlace(x) ==
  /\ \A u \in DOMAIN units : x \in PutValues(units[u]) =>
       /\ x \notin dropped
       /\ \A v \in DOMAIN units : x \in PutValues(units[v]) => u = v
  /\ \A c \in Clients : x \in InCommit(c) =>
       x \notin dropped /\ \A u \in DOMAIN units : x \notin PutValues(units[u])
  /\ \A i \in DOMAIN txs : x \in InTx(i) =>
       /\ x \notin dropped
       /\ \A u \in DOMAIN units : x \notin PutValues(units[u])
       /\ \A c \in Clients : x \notin InCommit(c)
       /\ \A j \in DOMAIN txs : x \in InTx(j) => i = j

Placed == \A x : (x \in 1 .. puts <=> Somewhere(x)) /\ OnePlace(x)

TxInv == Shaped /\ OneCommit /\ Placed

\* What PutValues makes of the sequences of operations there are.
LEMMA NoPutValues == PutValues(<<>>) = {}
  BY DEF PutValues

LEMMA PutValuesOfOne ==
  ASSUME NEW op \in AnyOp
  PROVE  /\ <<op>> \in Seq(AnyOp)
         /\ op.op = "put" => PutValues(<<op>>) = {op.value}
         /\ op.op # "put" => PutValues(<<op>>) = {}
  <1>1. /\ <<op>> \in Seq(AnyOp)
        /\ DOMAIN <<op>> = {1} /\ <<op>>[1] = op
    OBVIOUS
  <1>2. QED
    BY <1>1 DEF PutValues

LEMMA PutValuesOfTwo ==
  ASSUME NEW o, NEW p, o.op = "put", p.op = "put", o.value = p.value
  PROVE  PutValues(<<o, p>>) = {o.value}
  BY DEF PutValues

LEMMA PutValuesOfMore ==
  ASSUME NEW ops \in Seq(Ops), NEW op \in Ops
  PROVE  /\ op.op = "put" => PutValues(Append(ops, op)) = PutValues(ops) \cup {op.value}
         /\ op.op # "put" => PutValues(Append(ops, op)) = PutValues(ops)
  <1> DEFINE more == Append(ops, op)
  <1>1. /\ DOMAIN more = DOMAIN ops \cup {Len(ops) + 1} /\ Len(ops) + 1 \notin DOMAIN ops
        /\ \A i \in DOMAIN ops : more[i] = ops[i]
        /\ more[Len(ops) + 1] = op
    OBVIOUS
  <1> HIDE DEF more
  <1>2. QED
    BY <1>1 DEF PutValues, more

\* One more unit.
LEMMA OneMoreUnit ==
  ASSUME NEW ops \in Seq(AnyOp), units \in Seq(Seq(AnyOp)), units' = Append(units, ops)
  PROVE  /\ units' \in Seq(Seq(AnyOp))
         /\ DOMAIN units' = DOMAIN units \cup {Len(units) + 1}
         /\ Len(units) + 1 \notin DOMAIN units
         /\ \A u \in DOMAIN units : units'[u] = units[u]
         /\ units'[Len(units) + 1] = ops
  OBVIOUS

\* A write puts a value of its own into the store, or none.
LEMMA WriteStep ==
  ASSUME TxInv, NEW ops \in Seq(AnyOp), Write(ops),
         puts' \in {puts, puts + 1}, PutValues(ops) = (1 .. puts') \ (1 .. puts)
  PROVE  TxInv'
  <1>1. /\ UNCHANGED <<txs, lock, commit, dropped>>
        /\ units' = Append(units, ops)
    BY DEF Write
  <1>2. /\ units' \in Seq(Seq(AnyOp))
        /\ DOMAIN units' = DOMAIN units \cup {Len(units) + 1}
        /\ Len(units) + 1 \notin DOMAIN units
        /\ \A u \in DOMAIN units : units'[u] = units[u]
        /\ units'[Len(units) + 1] = ops
    BY <1>1, OneMoreUnit DEF TxInv, Shaped
  <1>3. puts' \in Nat /\ 1 .. puts' = (1 .. puts) \cup PutValues(ops)
        /\ (1 .. puts) \cap PutValues(ops) = {}
    BY DEF TxInv, Shaped
  <1>4. Shaped' /\ OneCommit'
    BY <1>1, <1>2, <1>3 DEF TxInv, Shaped, OneCommit
  <1>5. ASSUME NEW x
        PROVE  (x \in 1 .. puts' <=> Somewhere(x)') /\ OnePlace(x)'
    <2>1. (x \in 1 .. puts <=> Somewhere(x)) /\ OnePlace(x)
      BY DEF TxInv, Placed
    <2>2. Somewhere(x)' <=> Somewhere(x) \/ x \in PutValues(ops)
      BY <1>1, <1>2 DEF Somewhere, InCommit, InTx
    <2>3. CASE x \in PutValues(ops)
      <3>1. ~Somewhere(x)
        BY <1>3, <2>1, <2>3
      <3>2. OnePlace(x)'
        BY <1>1, <1>2, <3>1 DEF Somewhere, OnePlace, InCommit, InTx
      <3>3. QED
        BY <1>3, <2>2, <2>3, <3>2
    <2>4. CASE x \notin PutValues(ops)
      <3>1. OnePlace(x)'
        BY <1>1, <1>2, <2>1, <2>4 DEF OnePlace, InCommit, InTx
      <3>2. QED
        BY <1>3, <2>1, <2>2, <2>4, <3>1
    <2>5. QED
      BY <2>3, <2>4
  <1>6. QED
    BY <1>4, <1>5 DEF TxInv, Placed

\* The writes outside of transactions.
LEMMA OutsideStep ==
  ASSUME TxInv, NEW ns \in Namespaces, NEW key \in Keys,
         DbPut(ns, key) \/ DbDel(ns, key) \/ DbFlush(ns) \/ Compile
  PROVE  TxInv'
  <1>1. puts \in Nat
    BY DEF TxInv, Shaped
  <1> DEFINE put(n, k) == PutOp(n, k, puts + 1)
  <1>2. ASSUME NEW n \in Namespaces, NEW k \in Keys, puts < MaxPuts
        PROVE  put(n, k) \in AnyOp /\ put(n, k).op = "put" /\ put(n, k).value = puts + 1
    BY <1>1, <1>2, BoundAssumption, ValuesAssumption DEF PutOp, AnyOp, Ops
  <1>3. puts' = puts + 1 => (1 .. puts') \ (1 .. puts) = {puts + 1}
    BY <1>1
  <1>4. puts' = puts => (1 .. puts') \ (1 .. puts) = {}
    OBVIOUS
  <1> HIDE DEF put
  <1>5. CASE DbPut(ns, key)
    <2>1. puts < MaxPuts /\ puts' = puts + 1 /\ Write(<<put(ns, key)>>)
      BY <1>5 DEF DbPut, put
    <2>2. <<put(ns, key)>> \in Seq(AnyOp) /\ PutValues(<<put(ns, key)>>) = {puts + 1}
      BY <1>2, <2>1, PutValuesOfOne
    <2>3. QED
      BY <1>3, <2>1, <2>2, WriteStep
  <1>6. CASE DbDel(ns, key)
    <2> DEFINE del == [op |-> "del", ns |-> ns, key |-> key]
    <2>1. del \in AnyOp /\ del.op # "put"
      BY DEF AnyOp, Ops
    <2>2. puts' = puts /\ Write(<<del>>)
      BY <1>6 DEF DbDel
    <2> HIDE DEF del
    <2>3. <<del>> \in Seq(AnyOp) /\ PutValues(<<del>>) = {}
      BY <2>1, PutValuesOfOne
    <2>4. QED
      BY <1>4, <2>2, <2>3, WriteStep
  <1>7. CASE DbFlush(ns)
    <2> DEFINE flush == [op |-> "flush", ns |-> ns]
    <2>1. flush \in AnyOp /\ flush.op # "put"
      BY DEF AnyOp, Ops
    <2>2. puts' = puts /\ Write(<<flush>>)
      BY <1>7 DEF DbFlush
    <2> HIDE DEF flush
    <2>3. <<flush>> \in Seq(AnyOp) /\ PutValues(<<flush>>) = {}
      BY <2>1, PutValuesOfOne
    <2>4. QED
      BY <1>4, <2>2, <2>3, WriteStep
  <1>8. CASE Compile
    <2> DEFINE o == put(CodegenNs, ServiceKey)
               p == put(CodegenNs, LatestKey)
    <2>1. puts < MaxPuts /\ puts' = puts + 1 /\ Write(<<o, p>>)
      BY <1>8 DEF Compile, put
    <2>2. /\ o \in AnyOp /\ o.op = "put" /\ o.value = puts + 1
          /\ p \in AnyOp /\ p.op = "put" /\ p.value = puts + 1
      BY <1>2, <2>1, CodegenAssumption
    <2> HIDE DEF o, p
    <2>3. <<o, p>> \in Seq(AnyOp) /\ PutValues(<<o, p>>) = {puts + 1}
      BY <2>2, PutValuesOfTwo
    <2>4. QED
      BY <1>3, <2>1, <2>3, WriteStep
  <1>9. QED
    BY <1>5, <1>6, <1>7, <1>8

\* Steps that move no put from where it is.
LEMMA NothingMoves ==
  ASSUME TxInv, UNCHANGED <<puts, units, dropped>>, Shaped', OneCommit',
         \A c \in Clients : InCommit(c)' = InCommit(c),
         \A i \in DOMAIN txs \cap DOMAIN txs' : InTx(i)' = InTx(i),
         \A i \in DOMAIN txs \ DOMAIN txs' : InTx(i) = {},
         \A i \in DOMAIN txs' \ DOMAIN txs : InTx(i)' = {}
  PROVE  TxInv'
  <1>1. ASSUME NEW x
        PROVE  (Somewhere(x)' <=> Somewhere(x)) /\ (OnePlace(x) => OnePlace(x)')
    BY DEF Somewhere, OnePlace
  <1>2. QED
    BY <1>1 DEF TxInv, Placed

LEMMA BeginStep ==
  ASSUME TxInv, NEW i \in TxIds, Begin(i)
  PROVE  TxInv'
  <1>1. /\ i \notin DOMAIN txs
        /\ txs' = [j \in DOMAIN txs \cup {i} |->
                     IF j = i THEN [state |-> "Active", ops |-> <<>>] ELSE txs[j]]
        /\ UNCHANGED <<lock, commit, puts, units, dropped>>
    BY DEF Begin
  <1>2. /\ DOMAIN txs' = DOMAIN txs \cup {i}
        /\ txs'[i] = [state |-> "Active", ops |-> <<>>]
        /\ \A j \in DOMAIN txs : txs'[j] = txs[j]
    BY <1>1
  <1>3. Shaped' /\ OneCommit'
    BY <1>1, <1>2 DEF TxInv, Shaped, OneCommit, TxStates
  <1>4. InTx(i)' = {}
    BY <1>2, NoPutValues DEF InTx
  <1>5. QED
    BY <1>1, <1>2, <1>3, <1>4, NothingMoves DEF InTx, InCommit

LEMMA EnqueueStep ==
  ASSUME TxInv, NEW i \in TxIds, NEW op \in Ops, Enqueue(i, op)
  PROVE  TxInv'
  <1>1. /\ i \in DOMAIN txs /\ txs[i].state = "Active"
        /\ txs' = [txs EXCEPT ![i].ops = Append(txs[i].ops, op)]
        /\ UNCHANGED <<lock, commit, units, dropped>>
        /\ puts' = IF op.op = "put" THEN puts + 1 ELSE puts
        /\ op.op = "put" => op.value = puts + 1
    BY DEF Enqueue
  <1>2. puts \in Nat /\ txs[i].ops \in Seq(Ops) /\ txs[i] \in [state : TxStates, ops : Seq(Ops)]
    BY <1>1 DEF TxInv, Shaped
  <1>3. Append(txs[i].ops, op) \in Seq(Ops)
    BY <1>2
  <1>4. /\ DOMAIN txs' = DOMAIN txs /\ txs' = [j \in DOMAIN txs' |-> txs'[j]]
        /\ txs'[i].ops = Append(txs[i].ops, op) /\ txs'[i].state = "Active"
        /\ txs'[i] \in [state : TxStates, ops : Seq(Ops)]
        /\ \A j \in DOMAIN txs \ {i} : txs'[j] = txs[j]
    BY <1>1, <1>2, <1>3 DEF TxInv, Shaped
  <1>5. Shaped' /\ OneCommit'
    BY <1>1, <1>2, <1>4 DEF TxInv, Shaped, OneCommit
  <1>6. /\ op.op = "put" => InTx(i)' = InTx(i) \cup {puts + 1}
        /\ op.op # "put" => InTx(i)' = InTx(i)
    <2>1. /\ op.op = "put" => PutValues(Append(txs[i].ops, op)) = PutValues(txs[i].ops) \cup {op.value}
          /\ op.op # "put" => PutValues(Append(txs[i].ops, op)) = PutValues(txs[i].ops)
      BY <1>2, PutValuesOfMore
    <2>2. QED
      BY <1>1, <1>4, <2>1 DEF InTx
  <1>7. CASE op.op # "put"
    BY <1>1, <1>4, <1>5, <1>6, <1>7, NothingMoves DEF InTx, InCommit
  <1>8. CASE op.op = "put"
    <2>1. /\ 1 .. puts' = (1 .. puts) \cup {puts + 1} /\ puts + 1 \notin 1 .. puts
      BY <1>1, <1>2, <1>8
    <2>2. ASSUME NEW x
          PROVE  (x \in 1 .. puts' <=> Somewhere(x)') /\ OnePlace(x)'
      <3>1. (x \in 1 .. puts <=> Somewhere(x)) /\ OnePlace(x)
        BY DEF TxInv, Placed
      <3>2. /\ \A c \in Clients : InCommit(c)' = InCommit(c)
            /\ \A j \in DOMAIN txs \ {i} : InTx(j)' = InTx(j)
            /\ InTx(i)' = InTx(i) \cup {puts + 1}
            /\ UNCHANGED <<dropped, units>> /\ DOMAIN txs' = DOMAIN txs /\ i \in DOMAIN txs
        BY <1>1, <1>4, <1>6, <1>8 DEF InTx, InCommit
      <3>3. Somewhere(x)' <=> Somewhere(x) \/ x = puts + 1
        BY <3>2 DEF Somewhere
      <3>4. CASE x = puts + 1
        <4>1. ~Somewhere(x)
          BY <2>1, <3>1, <3>4
        <4>2. OnePlace(x)'
          BY <3>2, <4>1 DEF Somewhere, OnePlace
        <4>3. QED
          BY <2>1, <3>3, <3>4, <4>2
      <3>5. CASE x # puts + 1
        <4>1. OnePlace(x)'
          BY <3>1, <3>2, <3>5 DEF OnePlace
        <4>2. QED
          BY <2>1, <3>1, <3>3, <3>5, <4>1
      <3>6. QED
        BY <3>4, <3>5
    <2>3. QED
      BY <1>5, <2>2 DEF TxInv, Placed
  <1>9. QED
    BY <1>7, <1>8

\* A transaction's puts go over to the commit that took them.
LEMMA CommitBeginStep ==
  ASSUME TxInv, NEW c \in Clients, NEW i \in TxIds, CommitBegin(c, i)
  PROVE  TxInv'
  <1> DEFINE taken == [ops |-> txs[i].ops, left |-> txs[i].ops, doomed |-> {}]
             done == [state |-> "Committed", ops |-> <<>>]
  <1>1. /\ lock = None /\ i \in DOMAIN txs
        /\ txs' = [txs EXCEPT ![i] = done] /\ commit' = [commit EXCEPT ![c] = taken]
        /\ lock' = c
        /\ UNCHANGED <<puts, units, dropped>>
    BY DEF CommitBegin
  <1>2. /\ done \in [state : TxStates, ops : Seq(Ops)] /\ done.ops = <<>>
        /\ taken = [f \in DOMAIN NoCommit |-> taken[f]] /\ taken.ops = txs[i].ops
        /\ txs[i].ops \in Seq(Ops)
    <2>1. done \in [state : TxStates, ops : Seq(Ops)] /\ done.ops = <<>>
      BY DEF TxStates
    <2>2. taken = [f \in DOMAIN NoCommit |-> taken[f]] /\ taken.ops = txs[i].ops
      BY DEF NoCommit
    <2>3. txs[i].ops \in Seq(Ops)
      BY <1>1 DEF TxInv, Shaped
    <2>4. QED
      BY <2>1, <2>2, <2>3
  <1> HIDE DEF taken, done
  <1>3. /\ DOMAIN txs' = DOMAIN txs /\ txs' = [j \in DOMAIN txs' |-> txs'[j]]
        /\ txs'[i] = done /\ \A j \in DOMAIN txs \ {i} : txs'[j] = txs[j]
        /\ commit' = [d \in Clients |-> commit'[d]]
        /\ commit'[c] = taken /\ \A d \in Clients \ {c} : commit'[d] = commit[d]
    BY <1>1 DEF TxInv, Shaped
  <1>4. Shaped'
    BY <1>1, <1>2, <1>3 DEF TxInv, Shaped
  <1>5. OneCommit'
    BY <1>1, <1>2, <1>3, NoneAssumption DEF TxInv, OneCommit
  <1>6. /\ \A d \in Clients : InCommit(d) = {}
        /\ InCommit(c)' = InTx(i) /\ InTx(i)' = {}
        /\ \A d \in Clients \ {c} : InCommit(d)' = {}
        /\ \A j \in DOMAIN txs \ {i} : InTx(j)' = InTx(j)
    <2>1. \A d \in Clients : commit[d].ops = <<>>
      BY <1>1, NoneAssumption DEF TxInv, OneCommit, NoCommit
    <2>2. QED
      BY <1>2, <1>3, <2>1, NoPutValues DEF InCommit, InTx
  <1>7. ASSUME NEW x
        PROVE  (Somewhere(x)' <=> Somewhere(x)) /\ (OnePlace(x) => OnePlace(x)')
    <2>1. Somewhere(x)' <=> Somewhere(x)
      BY <1>1, <1>3, <1>6 DEF Somewhere
    <2>2. OnePlace(x) => OnePlace(x)'
      BY <1>1, <1>3, <1>6 DEF OnePlace
    <2>3. QED
      BY <2>1, <2>2
  <1>8. QED
    BY <1>1, <1>4, <1>5, <1>7 DEF TxInv, Placed

\* The steps of a commit's loop.
LEMMA LoopStep ==
  ASSUME TxInv, NEW c \in Clients, ApplyOp(c) \/ CollectMatching(c) \/ DelMatched(c)
  PROVE  TxInv'
  <1>1. commit[c] # NoCommit /\ UNCHANGED <<txs, lock, puts, units, dropped>>
    BY DEF ApplyOp, CollectMatching, DelMatched, AtNext, NoCommit
  <1>2. /\ commit' = [d \in Clients |-> commit'[d]]
        /\ commit'[c] = [f \in DOMAIN NoCommit |-> commit'[c][f]] /\ commit'[c].ops = commit[c].ops
        /\ \A d \in Clients \ {c} : commit'[d] = commit[d]
    <2>1. CASE ApplyOp(c)
      <3>1. commit' = [commit EXCEPT ![c].left = Tail(commit[c].left)]
        BY <2>1 DEF ApplyOp
      <3>2. QED
        BY <3>1, ZenonT(60) DEF TxInv, Shaped, NoCommit
    <2>2. CASE CollectMatching(c)
      <3>1. \E doomed : commit' = [commit EXCEPT ![c].left = Tail(commit[c].left), ![c].doomed = doomed]
        BY <2>2 DEF CollectMatching
      <3>2. QED
        BY <3>1 DEF TxInv, Shaped, NoCommit
    <2>3. CASE DelMatched(c)
      <3>1. \E d : commit' = [commit EXCEPT ![c].doomed = commit[c].doomed \ {d}]
        BY <2>3 DEF DelMatched
      <3>2. QED
        BY <3>1 DEF TxInv, Shaped, NoCommit
    <2>4. QED
      BY <2>1, <2>2, <2>3
  <1>3. c = lock
    BY <1>1 DEF TxInv, OneCommit
  <1>4. Shaped'
    <2>1. ASSUME NEW d \in Clients
          PROVE  commit'[d] = [f \in DOMAIN NoCommit |-> commit'[d][f]] /\ commit'[d].ops \in Seq(Ops)
      BY <1>2 DEF TxInv, Shaped
    <2>2. QED
      BY <1>1, <1>2, <2>1 DEF TxInv, Shaped
  <1>5. OneCommit'
    BY <1>1, <1>2, <1>3 DEF TxInv, OneCommit
  <1>6. QED
    BY <1>1, <1>2, <1>4, <1>5, NothingMoves DEF InCommit, InTx

\* What was in the commit is applied.
LEMMA CommitEndStep ==
  ASSUME TxInv, NEW c \in Clients, CommitEnd(c)
  PROVE  TxInv'
  <1>1. /\ lock = c /\ lock' = None
        /\ units' = Append(units, commit[c].ops)
        /\ commit' = [commit EXCEPT ![c] = NoCommit]
        /\ UNCHANGED <<txs, puts, dropped>>
    BY DEF CommitEnd
  <1>2. commit[c].ops \in Seq(AnyOp)
    BY DEF TxInv, Shaped, AnyOp
  <1>3. /\ units' \in Seq(Seq(AnyOp))
        /\ DOMAIN units' = DOMAIN units \cup {Len(units) + 1}
        /\ Len(units) + 1 \notin DOMAIN units
        /\ \A u \in DOMAIN units : units'[u] = units[u]
        /\ units'[Len(units) + 1] = commit[c].ops
    BY <1>1, <1>2, OneMoreUnit DEF TxInv, Shaped
  <1>4. /\ commit' = [d \in Clients |-> commit'[d]]
        /\ \A d \in Clients : commit'[d] = NoCommit
        /\ \A d \in Clients \ {c} : commit[d] = NoCommit
    BY <1>1 DEF TxInv, Shaped, OneCommit
  <1>5. Shaped' /\ OneCommit'
    <2>1. NoCommit = [f \in DOMAIN NoCommit |-> NoCommit[f]] /\ NoCommit.ops \in Seq(Ops)
      BY DEF NoCommit
    <2>2. QED
      BY <1>1, <1>3, <1>4, <2>1 DEF TxInv, Shaped, OneCommit
  <1>6. /\ \A d \in Clients : InCommit(d)' = {}
        /\ \A d \in Clients \ {c} : InCommit(d) = {}
        /\ PutValues(units'[Len(units) + 1]) = InCommit(c)
    BY <1>3, <1>4, NoPutValues DEF InCommit, NoCommit
  <1>7. ASSUME NEW x
        PROVE  (Somewhere(x)' <=> Somewhere(x)) /\ (OnePlace(x) => OnePlace(x)')
    <2>1. \A i \in DOMAIN txs : InTx(i)' = InTx(i)
      BY <1>1 DEF InTx
    <2>2. Somewhere(x)' <=> Somewhere(x)
      BY <1>1, <1>3, <1>6, <2>1 DEF Somewhere
    <2>3. OnePlace(x) => OnePlace(x)'
      BY <1>1, <1>3, <1>6, <2>1 DEF OnePlace
    <2>4. QED
      BY <2>2, <2>3
  <1>8. QED
    BY <1>1, <1>5, <1>7 DEF TxInv, Placed

LEMMA RollbackStep ==
  ASSUME TxInv, NEW i \in TxIds, Rollback(i)
  PROVE  TxInv'
  <1> DEFINE done == [state |-> "RolledBack", ops |-> <<>>]
  <1>1. /\ i \in DOMAIN txs
        /\ txs' = [txs EXCEPT ![i] = done]
        /\ dropped' = dropped \cup InTx(i)
        /\ UNCHANGED <<lock, commit, puts, units>>
    BY DEF Rollback, InTx
  <1>2. done \in [state : TxStates, ops : Seq(Ops)] /\ done.ops = <<>>
    BY DEF TxStates
  <1> HIDE DEF done
  <1>3. /\ DOMAIN txs' = DOMAIN txs /\ txs' = [j \in DOMAIN txs' |-> txs'[j]]
        /\ txs'[i] = done /\ \A j \in DOMAIN txs \ {i} : txs'[j] = txs[j]
    BY <1>1 DEF TxInv, Shaped
  <1>4. Shaped' /\ OneCommit'
    BY <1>1, <1>2, <1>3 DEF TxInv, Shaped, OneCommit
  <1>5. /\ InTx(i)' = {} /\ \A j \in DOMAIN txs \ {i} : InTx(j)' = InTx(j)
        /\ \A c \in Clients : InCommit(c)' = InCommit(c)
    BY <1>1, <1>2, <1>3, NoPutValues DEF InTx, InCommit
  <1>6. ASSUME NEW x
        PROVE  (Somewhere(x)' <=> Somewhere(x)) /\ (OnePlace(x) => OnePlace(x)')
    <2>1. Somewhere(x)' <=> Somewhere(x)
      BY <1>1, <1>3, <1>5 DEF Somewhere
    <2>2. OnePlace(x) => OnePlace(x)'
      BY <1>1, <1>3, <1>5 DEF OnePlace
    <2>3. QED
      BY <2>1, <2>2
  <1>7. QED
    BY <1>1, <1>4, <1>6 DEF TxInv, Placed

LEMMA PruneStep ==
  ASSUME TxInv, Prune
  PROVE  TxInv'
  <1>1. /\ txs' = [i \in {j \in DOMAIN txs : txs[j].state = "Active"} |-> txs[i]]
        /\ UNCHANGED <<lock, commit, puts, units, dropped>>
    BY DEF Prune
  <1>2. /\ DOMAIN txs' = {j \in DOMAIN txs : txs[j].state = "Active"}
        /\ txs' = [i \in DOMAIN txs' |-> txs'[i]]
        /\ \A i \in DOMAIN txs' : txs'[i] = txs[i]
    BY <1>1
  <1>3. Shaped' /\ OneCommit'
    BY <1>1, <1>2 DEF TxInv, Shaped, OneCommit
  <1>4. \A i \in DOMAIN txs \ DOMAIN txs' : InTx(i) = {}
    BY <1>2, NoPutValues DEF TxInv, OneCommit, InTx
  <1>5. QED
    BY <1>1, <1>2, <1>3, <1>4, NothingMoves DEF InTx, InCommit

LEMMA TxStep ==
  ASSUME TxInv, [Next]_vars
  PROVE  TxInv'
  <1>1. CASE UNCHANGED vars
    <2>1. Shaped' /\ OneCommit'
      BY <1>1 DEF vars, TxInv, Shaped, OneCommit
    <2>2. QED
      BY <1>1, <2>1, NothingMoves DEF vars, InTx, InCommit
  <1>2. QED
    BY <1>1, OutsideStep, BeginStep, EnqueueStep, CommitBeginStep, LoopStep, CommitEndStep,
       RollbackStep, PruneStep, CodegenAssumption DEF Next

LEMMA TxInvInit == Init => TxInv
  <1> SUFFICES ASSUME Init PROVE TxInv
    OBVIOUS
  <1>1. NoCommit = [f \in DOMAIN NoCommit |-> NoCommit[f]] /\ NoCommit.ops = <<>>
    BY DEF NoCommit
  <1>2. Shaped
    <2>1. puts \in Nat /\ units \in Seq(Seq(AnyOp)) /\ <<>> \in Seq(Ops)
      BY DEF Init
    <2>2. DOMAIN txs = {} /\ txs = [i \in DOMAIN txs |-> txs[i]]
      BY DEF Init
    <2>3. commit = [c \in Clients |-> commit[c]] /\ \A c \in Clients : commit[c] = NoCommit
      BY DEF Init
    <2>4. QED
      BY <1>1, <2>1, <2>2, <2>3 DEF Shaped
  <1>3. OneCommit
    BY DEF Init, OneCommit
  <1>4. \A c \in Clients : InCommit(c) = {}
    BY <1>1, NoPutValues DEF Init, InCommit
  <1>5. Placed
    BY <1>4 DEF Init, Placed, Somewhere, OnePlace
  <1>6. QED
    BY <1>2, <1>3, <1>5 DEF TxInv

LEMMA TxInvHolds == Spec => []TxInv
  <1>1. Init => TxInv
    BY TxInvInit
  <1>2. TxInv /\ [Next]_vars => TxInv'
    BY TxStep
  <1>3. QED
    BY <1>1, <1>2, PTL DEF Spec

\* No put takes effect twice, or after it was rolled back, however transactions are
\* begun, committed, pruned and begun again.
THEOREM EveryPutAtMostOnce == Spec => []AppliedOnce
  <1>1. TxInv => AppliedOnce
    BY DEF TxInv, Placed, OnePlace, AppliedOnce, AppliedValues
  <1>2. QED
    BY <1>1, TxInvHolds, PTL

\* Every put a client was told is queued is applied, rolled back or still in an active
\* transaction or a commit: none is lost.
THEOREM NoPutForgotten == Spec => []AcceptedPutsAreDecided
  <1>1. TxInv => AcceptedPutsAreDecided
    <2> SUFFICES ASSUME TxInv PROVE AcceptedPutsAreDecided
      OBVIOUS
    <2> DEFINE Committing == UNION {PutValues(commit[c].ops) : c \in Clients}
               Queued == UNION {PutValues(txs[i].ops) :
                                  i \in {j \in DOMAIN txs : txs[j].state = "Active"}}
    <2>1. AcceptedPutsAreDecided <=> 1 .. puts = dropped \cup AppliedValues \cup Committing \cup Queued
      BY DEF AcceptedPutsAreDecided
    <2>2. \A x : x \in Committing <=> \E c \in Clients : x \in InCommit(c)
      BY DEF InCommit
    <2>3. \A x : x \in Queued <=> \E i \in DOMAIN txs : txs[i].state = "Active" /\ x \in InTx(i)
      BY DEF InTx
    <2> HIDE DEF Committing, Queued
    <2>4. \A i \in DOMAIN txs : \A x : x \in InTx(i) => txs[i].state = "Active"
      BY NoPutValues DEF TxInv, OneCommit, InTx
    <2>5. \A x : x \in AppliedValues <=> \E u \in DOMAIN units : x \in PutValues(units[u])
      BY DEF AppliedValues
    <2>6. \A x : x \in 1 .. puts <=>
                   x \in dropped \/ x \in AppliedValues \/ x \in Committing \/ x \in Queued
      <3>1. \A x : x \in 1 .. puts <=> Somewhere(x)
        BY DEF TxInv, Placed
      <3>2. \A x : (\E i \in DOMAIN txs : x \in InTx(i)) <=> x \in Queued
        BY <2>3, <2>4
      <3>3. \A x : Somewhere(x) <=>
                     x \in dropped \/ x \in AppliedValues \/ x \in Committing \/ x \in Queued
        BY <2>2, <2>5, <3>2 DEF Somewhere
      <3>4. QED
        BY <3>1, <3>3
    <2>7. QED
      BY <2>1, <2>6
  <1>2. QED
    BY <1>1, TxInvHolds, PTL

---------------------------------------------------------------------------------
\* What the operations do to a store, and a sequence of them.
LEMMA StoreType ==
  ASSUME NEW s
  PROVE  s \in Stores <=> /\ s = [n \in DOMAIN s |-> s[n]]
                          /\ DOMAIN s \subseteq Namespaces
                          /\ \A n \in DOMAIN s : s[n] \in Spaces
  <1>1. ASSUME s \in Stores
        PROVE  /\ s = [n \in DOMAIN s |-> s[n]]
               /\ DOMAIN s \subseteq Namespaces
               /\ \A n \in DOMAIN s : s[n] \in Spaces
    <2>1. PICK N \in SUBSET Namespaces : s \in [N -> Spaces]
      BY <1>1 DEF Stores
    <2>2. QED
      BY <2>1
  <1>2. ASSUME s = [n \in DOMAIN s |-> s[n]], DOMAIN s \subseteq Namespaces,
               \A n \in DOMAIN s : s[n] \in Spaces
        PROVE  s \in Stores
    <2>1. s \in [DOMAIN s -> Spaces]
      BY <1>2
    <2>2. QED
      BY <1>2, <2>1 DEF Stores
  <1>3. QED
    BY <1>1, <1>2

LEMMA SpaceType ==
  ASSUME NEW m
  PROVE  m \in Spaces <=> /\ m = [k \in DOMAIN m |-> m[k]]
                          /\ DOMAIN m \subseteq Keys
                          /\ \A k \in DOMAIN m : m[k] \in Entry
  <1>1. ASSUME m \in Spaces
        PROVE  /\ m = [k \in DOMAIN m |-> m[k]]
               /\ DOMAIN m \subseteq Keys
               /\ \A k \in DOMAIN m : m[k] \in Entry
    <2>1. PICK K \in SUBSET Keys : m \in [K -> Entry]
      BY <1>1 DEF Spaces
    <2>2. QED
      BY <2>1
  <1>2. ASSUME m = [k \in DOMAIN m |-> m[k]], DOMAIN m \subseteq Keys,
               \A k \in DOMAIN m : m[k] \in Entry
        PROVE  m \in Spaces
    <2>1. m \in [DOMAIN m -> Entry]
      BY <1>2
    <2>2. QED
      BY <1>2, <2>1 DEF Spaces
  <1>3. QED
    BY <1>1, <1>2

LEMMA PutInType ==
  ASSUME NEW s \in Stores, NEW ns \in Namespaces, NEW key \in Keys, NEW value \in Values,
         NEW expiry \in Expiries
  PROVE  PutIn(s, ns, key, value, expiry) \in Stores
  <1> DEFINE old == Space(s, ns)
             entry == [value |-> value, expiry |-> expiry]
             space == [k \in DOMAIN old \cup {key} |-> IF k = key THEN entry ELSE s[ns][k]]
             new == [n \in DOMAIN s \cup {ns} |-> IF n = ns THEN space ELSE s[n]]
  <1>1. entry \in Entry
    BY DEF Entry
  <1>2. old \in Spaces /\ (ns \in DOMAIN s => old = s[ns]) /\ (ns \notin DOMAIN s => DOMAIN old = {})
    <2>1. NoEntries \in Spaces /\ DOMAIN NoEntries = {}
      BY SpaceType DEF NoEntries
    <2>2. QED
      BY <2>1, StoreType DEF Space
  <1>3. \A k \in DOMAIN old : k \in Keys /\ s[ns][k] \in Entry
    BY <1>2, SpaceType
  <1> HIDE DEF old, entry
  <1>4. space \in Spaces
    <2>1. space \in [DOMAIN old \cup {key} -> Entry] /\ DOMAIN old \cup {key} \subseteq Keys
      BY <1>1, <1>3
    <2> HIDE DEF space
    <2>2. QED
      BY <2>1 DEF Spaces
  <1> HIDE DEF space
  <1>5. new \in [DOMAIN s \cup {ns} -> Spaces] /\ DOMAIN s \cup {ns} \subseteq Namespaces
    BY <1>4, StoreType
  <1>6. new = PutIn(s, ns, key, value, expiry)
    BY DEF PutIn, WithSpace, new, space, entry, old
  <1> HIDE DEF new
  <1>7. QED
    BY <1>5, <1>6 DEF Stores

LEMMA WithoutType ==
  ASSUME NEW s \in Stores, NEW ns, NEW K
  PROVE  Without(s, ns, K) \in Stores
  <1> DEFINE space == [k \in DOMAIN s[ns] \ K |-> s[ns][k]]
             new == [n \in DOMAIN s |-> IF n = ns THEN space ELSE s[n]]
  <1>1. ns \in DOMAIN s => space \in Spaces
    <2> SUFFICES ASSUME ns \in DOMAIN s PROVE space \in Spaces
      OBVIOUS
    <2>1. s[ns] \in Spaces
      BY StoreType
    <2>2. space \in [DOMAIN s[ns] \ K -> Entry] /\ DOMAIN s[ns] \ K \subseteq Keys
      BY <2>1, SpaceType
    <2> HIDE DEF space
    <2>3. QED
      BY <2>2 DEF Spaces
  <1> HIDE DEF space
  <1>2. new \in [DOMAIN s -> Spaces] /\ DOMAIN s \subseteq Namespaces
    BY <1>1, StoreType
  <1>3. new = Without(s, ns, K)
    <2>1. Without(s, ns, K) = [n \in DOMAIN s |->
            IF n = ns THEN [k \in DOMAIN s[n] \ K |-> s[n][k]] ELSE s[n]]
      BY DEF Without
    <2>2. QED
      BY <2>1 DEF space
  <1> HIDE DEF new
  <1>4. QED
    BY <1>2, <1>3 DEF Stores

LEMMA WithoutNone ==
  ASSUME NEW s \in Stores, NEW ns
  PROVE  Without(s, ns, {}) = s
  <1>1. ASSUME NEW n \in DOMAIN s
        PROVE  [k \in DOMAIN s[n] \ {} |-> s[n][k]] = s[n]
    <2>1. s[n] \in Spaces
      BY StoreType
    <2>2. s[n] = [k \in DOMAIN s[n] |-> s[n][k]]
      BY <2>1, SpaceType
    <2>3. DOMAIN s[n] \ {} = DOMAIN s[n]
      OBVIOUS
    <2>4. QED
      BY <2>2, <2>3
  <1>2. s = [n \in DOMAIN s |-> s[n]]
    BY StoreType
  <1>3. QED
    BY <1>1, <1>2 DEF Without

\* Deleting some keys and then the others is deleting all of them.
LEMMA WithoutTwice ==
  ASSUME NEW s, NEW ns, NEW J, NEW K
  PROVE  Without(Without(s, ns, J), ns, K) = Without(s, ns, J \cup K)
  <1> DEFINE t == Without(s, ns, J)
  <1>1. t = [n \in DOMAIN s |-> IF n = ns THEN [k \in DOMAIN s[n] \ J |-> s[n][k]] ELSE s[n]]
    BY DEF Without
  <1>2. DOMAIN t = DOMAIN s /\ (\A n \in DOMAIN s : n # ns => t[n] = s[n])
    BY <1>1
  <1>3. ns \in DOMAIN s => DOMAIN t[ns] = DOMAIN s[ns] \ J /\ \A k \in DOMAIN s[ns] \ J : t[ns][k] = s[ns][k]
    BY <1>1
  <1> HIDE DEF t
  <1>4. ns \in DOMAIN s =>
          [k \in DOMAIN t[ns] \ K |-> t[ns][k]] = [k \in DOMAIN s[ns] \ (J \cup K) |-> s[ns][k]]
    <2> SUFFICES ASSUME ns \in DOMAIN s
                 PROVE  [k \in DOMAIN t[ns] \ K |-> t[ns][k]]
                          = [k \in DOMAIN s[ns] \ (J \cup K) |-> s[ns][k]]
      OBVIOUS
    <2>1. DOMAIN t[ns] \ K = DOMAIN s[ns] \ (J \cup K)
      BY <1>3
    <2>2. QED
      BY <1>3, <2>1
  <1>5. Without(t, ns, K) = [n \in DOMAIN t |->
          IF n = ns THEN [k \in DOMAIN t[n] \ K |-> t[n][k]] ELSE t[n]]
    BY DEF Without
  <1>6. Without(s, ns, J \cup K) = [n \in DOMAIN s |->
          IF n = ns THEN [k \in DOMAIN s[n] \ (J \cup K) |-> s[n][k]] ELSE s[n]]
    BY DEF Without
  <1>7. \A n \in DOMAIN s :
          (IF n = ns THEN [k \in DOMAIN t[n] \ K |-> t[n][k]] ELSE t[n])
            = (IF n = ns THEN [k \in DOMAIN s[n] \ (J \cup K) |-> s[n][k]] ELSE s[n])
    BY <1>2, <1>4
  <1>8. QED
    BY <1>2, <1>5, <1>6, <1>7 DEF t

LEMMA ApplyType ==
  ASSUME NEW s \in Stores, NEW op \in AnyOp
  PROVE  Apply(s, op) \in Stores
  <1>1. CASE op.op = "put"
    <2>1. op.ns \in Namespaces /\ op.key \in Keys /\ op.value \in Values
      BY <1>1 DEF AnyOp, Ops
    <2>2. Apply(s, op) = PutIn(s, op.ns, op.key, op.value, "never")
      BY <1>1 DEF Apply
    <2>3. QED
      BY <2>1, <2>2, PutInType DEF Expiries
  <1>2. CASE op.op = "del"
    BY <1>2, WithoutType DEF Apply, DelIn
  <1>3. CASE op.op = "flush"
    BY <1>3, WithoutType DEF Apply, FlushIn
  <1>4. CASE op.op = "del_matching"
    BY <1>4, WithoutType DEF Apply
  <1>5. QED
    BY <1>1, <1>2, <1>3, <1>4 DEF AnyOp, Ops

\* What a sequence of operations leaves after each of its steps.
ReplayUpTo(s, ops) ==
  LET after[i \in 0 .. Len(ops)] ==
        IF i = 0 THEN s ELSE Apply(after[i - 1], ops[i])
  IN after

LEMMA ReplaySteps ==
  ASSUME NEW s \in Stores, NEW ops \in Seq(AnyOp)
  PROVE  /\ Replay(s, ops) = ReplayUpTo(s, ops)[Len(ops)]
         /\ ReplayUpTo(s, ops) \in [0 .. Len(ops) -> Stores]
         /\ ReplayUpTo(s, ops)[0] = s
         /\ \A i \in 1 .. Len(ops) :
              ReplayUpTo(s, ops)[i] = Apply(ReplayUpTo(s, ops)[i - 1], ops[i])
  <1> DEFINE n == Len(ops)
             Turn(x, i) == Apply(x, ops[i])
             step == [i \in 1 .. n |-> [x \in Stores |-> Turn(x, i)]]
             IsLoop(f) == f = [i \in 0 .. n |-> IF i = 0 THEN s ELSE Turn(f[i - 1], i)]
  <1>1. n \in Nat
    BY LenProperties
  <1>2. step \in [1 .. n -> [Stores -> Stores]]
    <2>1. \A i \in 1 .. n : ops[i] \in AnyOp
      BY ElementOfSeq
    <2> HIDE DEF n
    <2>2. \A i \in 1 .. n : \A x \in Stores : Turn(x, i) \in Stores
      BY <2>1, ApplyType
    <2> HIDE DEF Turn
    <2>3. QED
      BY <2>2
  <1>3. \A x \in Stores, i \in 1 .. n : step[i][x] = Turn(x, i)
    OBVIOUS
  <1> HIDE DEF step, Turn
  <1>4. PICK f \in [0 .. n -> Stores] :
          f[0] = s /\ \A i \in 1 .. n : f[i] = step[i][f[i - 1]]
    <2> HIDE DEF n
    <2>1. Loops(Stores, s, n, step) # {}
      BY <1>1, <1>2, LoopExists
    <2>2. QED
      BY <2>1 DEF Loops
  <1>5. \A i \in 1 .. n : i - 1 \in 0 .. n /\ i \in 0 .. n /\ i # 0
    BY <1>1
  <1>6. \A i \in 1 .. n : f[i] = Turn(f[i - 1], i)
    BY <1>3, <1>4, <1>5
  <1>7. IsLoop(f)
    BY <1>1, <1>4, <1>6
  <1> DEFINE k == ReplayUpTo(s, ops)
  <1>8. k = CHOOSE g : IsLoop(g)
    BY DEF ReplayUpTo, Turn
  <1>9. Replay(s, ops) = (CHOOSE g : IsLoop(g))[n]
    BY DEF Replay, Turn
  <1>10. IsLoop(k)
    <2> HIDE DEF IsLoop, k
    <2>1. QED
      BY <1>7, <1>8
  <1>11. k = [i \in 0 .. n |-> IF i = 0 THEN s ELSE Turn(k[i - 1], i)]
    BY <1>10
  <1>12. Replay(s, ops) = k[n]
    <2> HIDE DEF IsLoop, k
    <2>1. QED
      BY <1>8, <1>9
  <1> HIDE DEF k, IsLoop
  <1>13. k[0] = s
    BY <1>1, <1>11
  <1>14. \A i \in 1 .. n : k[i] = Turn(k[i - 1], i)
    BY <1>5, <1>11
  <1>15. k = [i \in 0 .. n |-> f[i]]
    <2> DEFINE bad == {i \in Nat : i =< n /\ k[i] # f[i]}
    <2>1. bad = {}
      <3> SUFFICES ASSUME bad # {} PROVE FALSE
        OBVIOUS
      <3>1. PICK m \in bad : \A j \in bad : m =< j
        <4>1. bad \in SUBSET Nat
          OBVIOUS
        <4> HIDE DEF bad
        <4>2. QED
          BY <4>1, SmallestNat
      <3>2. m # 0
        BY <1>4, <1>13
      <3>3. m \in 1 .. n /\ m - 1 \in Nat /\ m - 1 =< n /\ ~(m =< m - 1)
        BY <1>1, <3>2
      <3>4. k[m - 1] = f[m - 1]
        BY <3>1, <3>3
      <3>5. QED
        BY <1>6, <1>14, <3>3, <3>4
    <2>2. \A i \in 0 .. n : k[i] = f[i]
      BY <1>1, <2>1
    <2>3. k = [i \in 0 .. n |-> k[i]]
      BY <1>11
    <2>4. QED
      BY <2>2, <2>3
  <1>16. k \in [0 .. n -> Stores]
    BY <1>15
  <1>17. QED
    BY <1>12, <1>13, <1>14, <1>16 DEF Turn, k

\* One operation more.
LEMMA ReplayAppend ==
  ASSUME NEW s \in Stores, NEW ops \in Seq(AnyOp), NEW op \in AnyOp
  PROVE  Replay(s, Append(ops, op)) = Apply(Replay(s, ops), op)
  <1> DEFINE more == Append(ops, op)
             f == ReplayUpTo(s, ops)
             g == ReplayUpTo(s, more)
             bad == {i \in Nat : i =< Len(ops) /\ g[i] # f[i]}
  <1>1. /\ more \in Seq(AnyOp) /\ Len(ops) \in Nat /\ Len(more) = Len(ops) + 1
        /\ \A i \in 1 .. Len(ops) : more[i] = ops[i]
        /\ more[Len(more)] = op
    BY AppendProperties, LenProperties
  <1> HIDE DEF more
  <1>2. /\ Replay(s, ops) = f[Len(ops)] /\ f[0] = s
        /\ \A i \in 1 .. Len(ops) : f[i] = Apply(f[i - 1], ops[i])
    BY ReplaySteps
  <1>3. /\ Replay(s, more) = g[Len(more)] /\ g[0] = s
        /\ \A i \in 1 .. Len(more) : g[i] = Apply(g[i - 1], more[i])
    BY <1>1, ReplaySteps
  <1> HIDE DEF f, g
  <1>4. bad = {}
    <2> SUFFICES ASSUME bad # {} PROVE FALSE
      OBVIOUS
    <2>1. PICK m \in bad : \A j \in bad : m =< j
      <3>1. bad \in SUBSET Nat
        OBVIOUS
      <3> HIDE DEF bad
      <3>2. QED
        BY <3>1, SmallestNat
    <2>2. m # 0
      BY <1>2, <1>3
    <2>3. /\ m \in 1 .. Len(ops) /\ m \in 1 .. Len(more)
          /\ m - 1 \in Nat /\ m - 1 =< Len(ops) /\ ~ (m =< m - 1)
      BY <1>1, <2>2
    <2>4. g[m - 1] = f[m - 1]
      BY <2>1, <2>3
    <2>5. QED
      BY <1>1, <1>2, <1>3, <2>1, <2>3, <2>4
  <1>5. g[Len(ops)] = f[Len(ops)]
    BY <1>1, <1>4
  <1>6. Len(more) \in 1 .. Len(more) /\ Len(more) - 1 = Len(ops)
    BY <1>1
  <1>7. g[Len(more)] = Apply(g[Len(more) - 1], more[Len(more)])
    BY <1>3, <1>6
  <1>8. QED
    BY <1>1, <1>2, <1>3, <1>5, <1>6, <1>7 DEF more

LEMMA ReplayType ==
  ASSUME NEW s \in Stores, NEW ops \in Seq(AnyOp)
  PROVE  Replay(s, ops) \in Stores /\ Replay(s, <<>>) = s
  <1>1. Len(ops) \in 0 .. Len(ops)
    BY LenProperties
  <1>2. Replay(s, ops) \in Stores
    BY <1>1, ReplaySteps
  <1>3. <<>> \in Seq(AnyOp) /\ Len(<<>>) = 0
    BY EmptySeq
  <1>4. Replay(s, <<>>) = ReplayUpTo(s, <<>>)[Len(<<>>)] /\ ReplayUpTo(s, <<>>)[0] = s
    BY <1>3, ReplaySteps
  <1>5. QED
    BY <1>2, <1>3, <1>4

\* Operations, and then others.
LEMMA ReplayConcat ==
  ASSUME NEW s \in Stores, NEW ops \in Seq(AnyOp), NEW more \in Seq(AnyOp)
  PROVE  Replay(s, ops \o more) = Replay(Replay(s, ops), more)
  <1> DEFINE bad == {t \in Seq(AnyOp) : Replay(s, ops \o t) # Replay(Replay(s, ops), t)}
  <1>1. bad = {}
    <2> SUFFICES ASSUME bad # {} PROVE FALSE
      OBVIOUS
    <2>0. Replay(s, ops) \in Stores
      BY ReplayType
    <2>1. <<>> \notin bad
      BY <2>0, ReplayType, ConcatEmptySeq
    <2>2. ASSUME NEW t \in Seq(AnyOp) \ bad, NEW op \in AnyOp
          PROVE  Append(t, op) \notin bad
      <3>1. t \in Seq(AnyOp) /\ ops \o t \in Seq(AnyOp)
        BY ConcatProperties
      <3>2. Replay(s, ops \o t) = Replay(Replay(s, ops), t)
        OBVIOUS
      <3> HIDE DEF bad
      <3>3. ops \o Append(t, op) = Append(ops \o t, op)
        BY <3>1, ConcatAppend
      <3>4. Replay(s, Append(ops \o t, op)) = Apply(Replay(s, ops \o t), op)
        BY <3>1, ReplayAppend
      <3>5. Replay(Replay(s, ops), Append(t, op)) = Apply(Replay(Replay(s, ops), t), op)
        BY <2>0, <3>1, ReplayAppend
      <3>6. QED
        BY <3>2, <3>3, <3>4, <3>5 DEF bad
    <2>3. bad \in SUBSET Seq(AnyOp)
      OBVIOUS
    <2> HIDE DEF bad
    <2>4. QED
      BY <2>1, <2>2, <2>3, ShortestSeq
  <1>2. QED
    BY <1>1

---------------------------------------------------------------------------------
\* HandlersSeeWholeCommits.

\* What all the finished units left.
Base == Replay(EmptyStore, AllUnits)

\* A commit under way: the operations it has done, the last of them a del_matching that
\* has yet to delete the keys K of ns, and the ones that are left.
HalfWay(c) ==
  /\ commit[c].left \in Seq(Ops)
  /\ \E done \in Seq(AnyOp) : \E ns, K :
       /\ commit[c].ops = done \o commit[c].left
       /\ commit[c].doomed = {[ns |-> ns, key |-> k] : k \in K}
       /\ Without(store, ns, K) = Replay(Base, done)

StoreInv ==
  /\ store \in Stores
  /\ lock \in Clients \cup {None}
  /\ (lock = None => store = Base)
  /\ (lock # None => HalfWay(lock))

LEMMA BaseType ==
  ASSUME TxInv
  PROVE  EmptyStore \in Stores /\ AllUnits \in Seq(AnyOp) /\ Base \in Stores
  <1>1. EmptyStore \in Stores
    BY StoreType DEF EmptyStore
  <1>2. AllUnits \in Seq(AnyOp)
    BY FlattenType DEF AllUnits, TxInv, Shaped
  <1>3. QED
    BY <1>1, <1>2, ReplayType DEF Base

LEMMA BaseGrows ==
  ASSUME TxInv, NEW ops \in Seq(AnyOp), units' = Append(units, ops)
  PROVE  Base' = Replay(Base, ops)
  <1>1. AllUnits' = AllUnits \o ops
    BY FlattenAppend DEF AllUnits, TxInv, Shaped
  <1>2. QED
    BY <1>1, BaseType, ReplayConcat DEF Base

LEMMA WriteWhole ==
  ASSUME TxInv, StoreInv, NEW ops \in Seq(AnyOp), Write(ops)
  PROVE  StoreInv'
  <1>1. /\ lock = None /\ lock' = None
        /\ store' = Replay(store, ops) /\ units' = Append(units, ops)
    BY DEF Write
  <1>2. Base' = Replay(Base, ops)
    BY <1>1, BaseGrows
  <1>3. store' \in Stores
    BY <1>1, ReplayType DEF StoreInv
  <1>4. QED
    BY <1>1, <1>2, <1>3 DEF StoreInv

LEMMA OutsideWhole ==
  ASSUME TxInv, StoreInv, NEW ns \in Namespaces, NEW key \in Keys,
         DbPut(ns, key) \/ DbDel(ns, key) \/ DbFlush(ns) \/ Compile
  PROVE  StoreInv'
  <1> DEFINE put(n, k) == PutOp(n, k, puts + 1)
             del == [op |-> "del", ns |-> ns, key |-> key]
             flush == [op |-> "flush", ns |-> ns]
  <1>1. \A n \in Namespaces : \A k \in Keys : puts < MaxPuts => put(n, k) \in AnyOp
    BY BoundAssumption, ValuesAssumption DEF PutOp, AnyOp, Ops, TxInv, Shaped
  <1>2. del \in AnyOp /\ flush \in AnyOp
    BY DEF AnyOp, Ops
  <1> HIDE DEF put, del, flush
  <1>3. CASE DbPut(ns, key)
    <2>1. puts < MaxPuts /\ Write(<<put(ns, key)>>)
      BY <1>3 DEF DbPut, put
    <2>2. <<put(ns, key)>> \in Seq(AnyOp)
      BY <1>1, <2>1
    <2>3. QED
      BY <2>1, <2>2, WriteWhole
  <1>4. CASE DbDel(ns, key)
    <2>1. Write(<<del>>) /\ <<del>> \in Seq(AnyOp)
      BY <1>2, <1>4 DEF DbDel, del
    <2>2. QED
      BY <2>1, WriteWhole
  <1>5. CASE DbFlush(ns)
    <2>1. Write(<<flush>>) /\ <<flush>> \in Seq(AnyOp)
      BY <1>2, <1>5 DEF DbFlush, flush
    <2>2. QED
      BY <2>1, WriteWhole
  <1>6. CASE Compile
    <2> DEFINE o == put(CodegenNs, ServiceKey)
               p == put(CodegenNs, LatestKey)
    <2>1. puts < MaxPuts /\ Write(<<o, p>>)
      BY <1>6 DEF Compile, put
    <2>2. o \in AnyOp /\ p \in AnyOp
      BY <1>1, <2>1, CodegenAssumption
    <2> HIDE DEF o, p
    <2>3. <<o, p>> \in Seq(AnyOp)
      BY <2>2
    <2>4. QED
      BY <2>1, <2>3, WriteWhole
  <1>7. QED
    BY <1>3, <1>4, <1>5, <1>6

LEMMA CommitBeginWhole ==
  ASSUME TxInv, StoreInv, NEW c \in Clients, NEW i \in TxIds, CommitBegin(c, i)
  PROVE  StoreInv'
  <1> DEFINE ops == txs[i].ops
  <1>1. /\ lock = None /\ lock' = c /\ c # None /\ i \in DOMAIN txs
        /\ commit' = [commit EXCEPT ![c] = [ops |-> ops, left |-> ops, doomed |-> {}]]
        /\ UNCHANGED <<store, units>>
    BY NoneAssumption DEF CommitBegin
  <1>2. ops \in Seq(Ops) /\ commit = [d \in Clients |-> commit[d]]
    BY <1>1 DEF TxInv, Shaped
  <1>3. /\ commit'[c].ops = ops /\ commit'[c].left = ops /\ commit'[c].doomed = {}
    BY <1>1, <1>2
  <1> HIDE DEF ops
  <1>4. store = Base /\ store \in Stores /\ Base' = Base
    BY <1>1 DEF StoreInv, Base, AllUnits
  <1>5. <<>> \in Seq(AnyOp) /\ ops = <<>> \o ops
    BY <1>2, EmptySeq, ConcatEmptySeq
  <1>6. Without(store, CodegenNs, {}) = Replay(Base, <<>>)
    BY <1>4, <1>5, WithoutNone, ReplayType
  <1>7. {} = {[ns |-> CodegenNs, key |-> k] : k \in {}}
    OBVIOUS
  <1>8. HalfWay(c)'
    BY <1>1, <1>2, <1>3, <1>4, <1>5, <1>6, <1>7 DEF HalfWay
  <1>9. QED
    BY <1>1, <1>4, <1>8 DEF StoreInv

\* Where a commit stands that is at its next operation.
LEMMA AtNextWhole ==
  ASSUME TxInv, StoreInv, NEW c \in Clients, AtNext(c)
  PROVE  /\ lock = c /\ c # None
         /\ commit[c].left \in Seq(Ops) /\ commit[c].left # <<>>
         /\ \E done \in Seq(AnyOp) : /\ commit[c].ops = done \o commit[c].left
                                     /\ store = Replay(Base, done)
  <1>1. lock = c /\ c # None
    BY NoneAssumption DEF TxInv, OneCommit, AtNext, NoCommit
  <1>2. HalfWay(c)
    BY <1>1 DEF StoreInv
  <1>3. PICK done \in Seq(AnyOp) : \E ns, K :
               /\ commit[c].ops = done \o commit[c].left
               /\ commit[c].doomed = {[ns |-> ns, key |-> k] : k \in K}
               /\ Without(store, ns, K) = Replay(Base, done)
    BY <1>2 DEF HalfWay
  <1>4. PICK ns, K : /\ commit[c].ops = done \o commit[c].left
                     /\ commit[c].doomed = {[ns |-> ns, key |-> k] : k \in K}
                     /\ Without(store, ns, K) = Replay(Base, done)
    BY <1>3
  <1>5. K = {}
    BY <1>4 DEF AtNext
  <1>6. store = Replay(Base, done)
    BY <1>4, <1>5, WithoutNone DEF StoreInv
  <1>7. QED
    BY <1>1, <1>2, <1>4, <1>6 DEF AtNext, HalfWay

LEMMA HeadDone ==
  ASSUME NEW done \in Seq(AnyOp), NEW left \in Seq(Ops), left # <<>>
  PROVE  /\ Head(left) \in AnyOp /\ Tail(left) \in Seq(Ops)
         /\ Append(done, Head(left)) \in Seq(AnyOp)
         /\ done \o left = Append(done, Head(left)) \o Tail(left)
  <1>1. left \in Seq(AnyOp)
    BY SeqMonotonic DEF AnyOp
  <1>2. Head(left) \in AnyOp /\ Tail(left) \in Seq(Ops) /\ Tail(left) \in Seq(AnyOp)
    BY <1>1, HeadTailProperties
  <1>3. left = <<Head(left)>> \o Tail(left)
    BY <1>1
  <1>4. Append(done, Head(left)) = done \o <<Head(left)>>
    BY <1>2, AppendIsConcat
  <1>5. QED
    BY <1>1, <1>2, <1>3, <1>4, ConcatAssociative, AppendProperties, SMTT(60)

LEMMA ApplyOpWhole ==
  ASSUME TxInv, StoreInv, NEW c \in Clients, ApplyOp(c)
  PROVE  StoreInv'
  <1> DEFINE left == commit[c].left
             op == Head(left)
  <1>1. /\ lock = c /\ c # None /\ left \in Seq(Ops) /\ left # <<>>
        /\ \E done \in Seq(AnyOp) : commit[c].ops = done \o left /\ store = Replay(Base, done)
    BY AtNextWhole DEF ApplyOp
  <1>2. PICK done \in Seq(AnyOp) : commit[c].ops = done \o left /\ store = Replay(Base, done)
    BY <1>1
  <1> DEFINE more == Append(done, op)
  <1>3. /\ op \in AnyOp /\ Tail(left) \in Seq(Ops) /\ more \in Seq(AnyOp)
        /\ done \o left = more \o Tail(left)
    BY <1>1, HeadDone
  <1>4. /\ store' = Apply(store, op) /\ lock' = lock /\ commit[c].doomed = {}
        /\ commit' = [commit EXCEPT ![c].left = Tail(left)] /\ UNCHANGED units
    BY DEF ApplyOp, AtNext
  <1>5. commit = [d \in Clients |-> commit[d]] /\ commit[c] = [f \in DOMAIN NoCommit |-> commit[c][f]]
    BY DEF TxInv, Shaped
  <1>6. /\ commit'[c].ops = commit[c].ops /\ commit'[c].left = Tail(left) /\ commit'[c].doomed = {}
    BY <1>4, <1>5 DEF NoCommit
  <1> HIDE DEF left, op
  <1>7. store' \in Stores
    BY <1>3, <1>4, ApplyType DEF StoreInv
  <1>8. store' = Replay(Base, more) /\ Base' = Base
    BY <1>2, <1>3, <1>4, BaseType, ReplayAppend DEF Base, AllUnits
  <1>9. {} = {[ns |-> CodegenNs, key |-> k] : k \in {}}
    OBVIOUS
  <1>10. Without(store', CodegenNs, {}) = Replay(Base', more)
    BY <1>7, <1>8, WithoutNone
  <1> HIDE DEF more
  <1>11. HalfWay(c)'
    BY <1>2, <1>3, <1>6, <1>9, <1>10 DEF HalfWay
  <1>12. QED
    BY <1>1, <1>4, <1>7, <1>11 DEF StoreInv

LEMMA CollectWhole ==
  ASSUME TxInv, StoreInv, NEW c \in Clients, CollectMatching(c)
  PROVE  StoreInv'
  <1> DEFINE left == commit[c].left
             op == Head(left)
             K == Doomed(store, op.ns, op.pattern)
  <1>1. /\ lock = c /\ c # None /\ left \in Seq(Ops) /\ left # <<>>
        /\ \E done \in Seq(AnyOp) : commit[c].ops = done \o left /\ store = Replay(Base, done)
    BY AtNextWhole DEF CollectMatching
  <1>2. PICK done \in Seq(AnyOp) : commit[c].ops = done \o left /\ store = Replay(Base, done)
    BY <1>1
  <1> DEFINE more == Append(done, op)
             doomed == {[ns |-> op.ns, key |-> k] : k \in K}
  <1>3. /\ op \in AnyOp /\ Tail(left) \in Seq(Ops) /\ more \in Seq(AnyOp)
        /\ done \o left = more \o Tail(left)
    BY <1>1, HeadDone
  <1>4. /\ store' = store /\ lock' = lock /\ op.op = "del_matching"
        /\ commit' = [commit EXCEPT ![c].left = Tail(left), ![c].doomed = doomed]
        /\ UNCHANGED units
    BY DEF CollectMatching
  <1>5. commit = [d \in Clients |-> commit[d]] /\ commit[c] = [f \in DOMAIN NoCommit |-> commit[c][f]]
    BY DEF TxInv, Shaped
  <1> HIDE DEF left, op, K
  <1>6. /\ commit'[c].ops = commit[c].ops /\ commit'[c].left = Tail(left)
        /\ commit'[c].doomed = doomed
    <2> HIDE DEF doomed
    <2>1. QED
      BY <1>4, <1>5 DEF NoCommit
  <1>7. Apply(store, op) = Without(store, op.ns, K)
    BY <1>4 DEF Apply, K
  <1>8. Without(store', op.ns, K) = Replay(Base', more)
    BY <1>2, <1>3, <1>4, <1>7, BaseType, ReplayAppend DEF Base, AllUnits
  <1> HIDE DEF more
  <1>9. HalfWay(c)'
    BY <1>2, <1>3, <1>6, <1>8 DEF HalfWay
  <1>10. QED
    BY <1>1, <1>4, <1>9 DEF StoreInv

LEMMA DelMatchedWhole ==
  ASSUME TxInv, StoreInv, NEW c \in Clients, DelMatched(c)
  PROVE  StoreInv'
  <1>1. PICK d \in commit[c].doomed :
          /\ store' = DelIn(store, d.ns, d.key)
          /\ commit' = [commit EXCEPT ![c].doomed = commit[c].doomed \ {d}]
    BY DEF DelMatched
  <1>2. UNCHANGED <<lock, units>>
    BY DEF DelMatched
  <1>3. lock = c /\ c # None
    BY <1>1, NoneAssumption DEF TxInv, OneCommit, NoCommit
  <1>4. HalfWay(c)
    BY <1>3 DEF StoreInv
  <1>5. PICK done \in Seq(AnyOp) : \E ns, K :
               /\ commit[c].ops = done \o commit[c].left
               /\ commit[c].doomed = {[ns |-> ns, key |-> k] : k \in K}
               /\ Without(store, ns, K) = Replay(Base, done)
    BY <1>4 DEF HalfWay
  <1>6. PICK ns, K : /\ commit[c].ops = done \o commit[c].left
                     /\ commit[c].doomed = {[ns |-> ns, key |-> k] : k \in K}
                     /\ Without(store, ns, K) = Replay(Base, done)
    BY <1>5
  <1>7. PICK key \in K : d = [ns |-> ns, key |-> key]
    BY <1>1, <1>6
  <1> DEFINE J == K \ {key}
             rest == {[ns |-> ns, key |-> k] : k \in J}
  <1>8. commit[c].doomed \ {d} = rest
    BY <1>6, <1>7
  <1>9. commit = [e \in Clients |-> commit[e]] /\ commit[c] = [f \in DOMAIN NoCommit |-> commit[c][f]]
    BY DEF TxInv, Shaped
  <1>10. /\ commit'[c].ops = commit[c].ops /\ commit'[c].left = commit[c].left
         /\ commit'[c].doomed = rest
    <2> HIDE DEF rest
    <2>1. QED
      BY <1>1, <1>8, <1>9 DEF NoCommit
  <1>11. store' = Without(store, ns, {key}) /\ store' \in Stores
    BY <1>1, <1>7, WithoutType DEF DelIn, StoreInv
  <1>12. Without(store', ns, J) = Replay(Base', done)
    <2>1. {key} \cup J = K
      OBVIOUS
    <2>2. Without(Without(store, ns, {key}), ns, J) = Without(store, ns, {key} \cup J)
      BY WithoutTwice
    <2>3. Base' = Base
      BY <1>2 DEF Base, AllUnits
    <2>4. QED
      BY <1>6, <1>11, <2>1, <2>2, <2>3
  <1>13. commit'[c].left \in Seq(Ops)
    BY <1>4, <1>10 DEF HalfWay
  <1> HIDE DEF J
  <1>14. HalfWay(c)'
    BY <1>6, <1>10, <1>12, <1>13 DEF HalfWay
  <1>15. QED
    BY <1>2, <1>3, <1>11, <1>14 DEF StoreInv

LEMMA CommitEndWhole ==
  ASSUME TxInv, StoreInv, NEW c \in Clients, CommitEnd(c)
  PROVE  StoreInv'
  <1>1. /\ lock = c /\ lock' = None /\ store' = store
        /\ commit[c].left = <<>> /\ commit[c].doomed = {}
        /\ units' = Append(units, commit[c].ops)
    BY DEF CommitEnd
  <1>2. HalfWay(c)
    BY <1>1, NoneAssumption DEF StoreInv
  <1>3. PICK done \in Seq(AnyOp) : \E ns, K :
               /\ commit[c].ops = done \o commit[c].left
               /\ commit[c].doomed = {[ns |-> ns, key |-> k] : k \in K}
               /\ Without(store, ns, K) = Replay(Base, done)
    BY <1>2 DEF HalfWay
  <1>4. PICK ns, K : /\ commit[c].ops = done \o commit[c].left
                     /\ commit[c].doomed = {[ns |-> ns, key |-> k] : k \in K}
                     /\ Without(store, ns, K) = Replay(Base, done)
    BY <1>3
  <1>5. K = {}
    BY <1>1, <1>4
  <1>6. store = Replay(Base, done)
    BY <1>4, <1>5, WithoutNone DEF StoreInv
  <1>7. commit[c].ops = done
    BY <1>1, <1>4, ConcatEmptySeq
  <1>8. Base' = Replay(Base, done)
    BY <1>1, <1>7, BaseGrows
  <1>9. QED
    BY <1>1, <1>6, <1>8 DEF StoreInv

LEMMA StoreStep ==
  ASSUME TxInv, StoreInv, [Next]_vars
  PROVE  StoreInv'
  <1>1. ASSUME UNCHANGED <<store, lock, commit, units>>
        PROVE  StoreInv'
    BY <1>1 DEF StoreInv, HalfWay, Base, AllUnits
  <1>2. ASSUME NEW i \in TxIds, Begin(i) \/ Rollback(i) \/ \E op \in Ops : Enqueue(i, op)
        PROVE  StoreInv'
    BY <1>1, <1>2 DEF Begin, Rollback, Enqueue
  <1>3. CASE Prune
    BY <1>1, <1>3 DEF Prune
  <1>4. CASE UNCHANGED vars
    BY <1>1, <1>4 DEF vars
  <1>5. QED
    BY <1>2, <1>3, <1>4, OutsideWhole, CommitBeginWhole, ApplyOpWhole, CollectWhole,
       DelMatchedWhole, CommitEndWhole, CodegenAssumption DEF Next

\* Whatever a handler finds in the store is what whole transactions and whole writes
\* left there, one after the other.
THEOREM CommitsAreWhole == Spec => []HandlersSeeWholeCommits
  <1>1. Init => TxInv /\ StoreInv
    <2> SUFFICES ASSUME Init PROVE TxInv /\ StoreInv
      OBVIOUS
    <2>1. TxInv
      BY TxInvInit
    <2>2. AllUnits = <<>>
      BY DEF Init, AllUnits, FlattenSeq
    <2>3. store = Base /\ store \in Stores /\ lock = None
      BY <2>1, <2>2, BaseType, ReplayType, EmptySeq DEF Init, Base
    <2>4. QED
      BY <2>1, <2>3 DEF StoreInv
  <1>2. TxInv /\ StoreInv /\ [Next]_vars => TxInv' /\ StoreInv'
    BY TxStep, StoreStep
  <1>3. StoreInv => HandlersSeeWholeCommits
    BY DEF StoreInv, HandlersSeeWholeCommits, Base
  <1>4. QED
    BY <1>1, <1>2, <1>3, PTL DEF Spec

===================================================================================
