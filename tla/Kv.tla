----------------------------------- MODULE Kv -----------------------------------
(***************************************************************************)
(* The contents of a db::Db (db/src/lib.rs) and what each of its locked    *)
(* operations does to them.  A store maps the namespaces that exist to     *)
(* their keys' entries.  Values are opaque; a deadline is where the clock  *)
(* stands to it: "never" (no deadline), "armed" (not beyond it) or "past".        *)
(***************************************************************************)
EXTENDS Naturals, Sequences

CONSTANTS Namespaces, Keys, Values

Expiries == {"never", "armed", "past"}

Entry == [value : Values, expiry : Expiries]

Spaces == UNION {[K -> Entry] : K \in SUBSET Keys}

Stores == UNION {[N -> Spaces] : N \in SUBSET Namespaces}

NoEntries == [k \in {} |-> k]

EmptyStore == [n \in {} |-> NoEntries]

Space(store, ns) == IF ns \in DOMAIN store THEN store[ns] ELSE NoEntries

Has(store, ns, key) == key \in DOMAIN Space(store, ns)

\* What a read finds: an expired entry is there until it is purged, and hidden.
Visible(store, ns, key) ==
  Has(store, ns, key) /\ store[ns][key].expiry # "past"

\* Namespace ns rewritten to space; entry().or_default() creates it.
WithSpace(store, ns, space) ==
  [n \in DOMAIN store \cup {ns} |-> IF n = ns THEN space ELSE store[n]]

\* put and put_with_ttl: the new entry replaces the old one, deadline and all.
PutIn(store, ns, key, value, expiry) ==
  WithSpace(store, ns,
    [k \in DOMAIN Space(store, ns) \cup {key} |->
       IF k = key THEN [value |-> value, expiry |-> expiry] ELSE store[ns][k]])

\* The store without the entries of ns under the keys K; an absent namespace
\* stays absent, an emptied one stays.
Without(store, ns, K) ==
  [n \in DOMAIN store |->
     IF n = ns THEN [k \in DOMAIN store[n] \ K |-> store[n][k]] ELSE store[n]]

DelIn(store, ns, key) == Without(store, ns, {key})

FlushIn(store, ns) == Without(store, ns, Keys)

\* The keys a "del_matching" deletes: the visible ones among those its pattern
\* matches.  A pattern stands for the set of keys it matches.
Doomed(store, ns, pattern) == {k \in pattern : Visible(store, ns, k)}

\* One queued operation, applied in one go.
Apply(store, op) ==
  CASE op.op = "put"          -> PutIn(store, op.ns, op.key, op.value, "never")
    [] op.op = "put_ttl"      -> PutIn(store, op.ns, op.key, op.value, "armed")
    [] op.op = "del"          -> DelIn(store, op.ns, op.key)
    [] op.op = "flush"        -> FlushIn(store, op.ns)
    [] op.op = "del_matching" -> Without(store, op.ns, Doomed(store, op.ns, op.pattern))

\* A sequence of operations, applied in order.
Replay(store, ops) ==
  LET after[i \in 0 .. Len(ops)] ==
        IF i = 0 THEN store ELSE Apply(after[i - 1], ops[i])
  IN after[Len(ops)]

==================================================================================
