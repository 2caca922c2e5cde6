--------------------------------- MODULE Config ---------------------------------
(***************************************************************************)
(* bridge.toml (daemon/src/config.rs): a line-oriented parser that keeps a *)
(* section and the rule it is filling, and what the daemon takes over from *)
(* the result when it starts.                                              *)
(*                                                                         *)
(* A line is a sequence of symbols: punctuation, blanks and words.         *)
(***************************************************************************)
EXTENDS Strings, TLC

CONSTANTS
  Lines,
  MaxLines       \* bound: the length of a file

VARIABLES
  lines,         \* what has been read
  parser,        \* [cfg, section, mw, rl, failed]; mw and rl hold one rule or none
  daemon         \* the part of State that apply sets, or Idle before it

vars == <<lines, parser, daemon>>

Idle == [at |-> "idle"]
Absent == <<"none">>
Bad == <<"bad">>

---------------------------------------------------------------------------------
\* The configuration and its defaults

NumberOf == ("0" :> 0) @@ ("50" :> 50) @@ ("60" :> 60) @@ ("500" :> 500)

Defaults ==
  [project |-> [name |-> <<>>, version |-> <<>>],
   daemon |-> [http_addr |-> <<"127.0.0.1:8787">>, tcp_addr |-> <<"127.0.0.1:7878">>,
               redis_addr |-> <<"127.0.0.1:6399">>, mode |-> <<"full">>],
   watch |-> [enabled |-> TRUE, poll_ms |-> 500, dirs |-> <<>>, files |-> <<>>],
   cache |-> [max_entries |-> 10000, default_ttl_ms |-> 300000],
   middleware |-> <<>>, ratelimit |-> <<>>]

NewHook == [name |-> <<>>, scope |-> <<>>, before |-> Absent, after |-> Absent]
NewRule == [method |-> <<"*">>, path |-> <<"*">>, capacity |-> 0, refill_rate |-> 0]

Tables == {"project", "daemon", "watch", "cache"}

---------------------------------------------------------------------------------
\* The helpers of the parser

StripStart(s, chars) == SubSeq(s, Min({i \in DOMAIN s : s[i] \notin chars} \cup {Len(s) + 1}), Len(s))
StripEnd(s, chars) == SubSeq(s, 1, Max({i \in DOMAIN s : s[i] \notin chars} \cup {0}))

\* parse_kv: a quoted value ends at the next quote, any other at a comment.
Value(raw) ==
  IF raw # <<>> /\ raw[1] = "quote"
  THEN IF "quote" \in ToSet(Tail(raw)) THEN Before(Tail(raw), "quote") ELSE Bad
  ELSE Trim(Before(raw, "#"))
Key(line) == Trim(Before(line, "="))
IsPair(line) == "=" \in ToSet(line) /\ Value(Trim(After(line, "="))) # Bad

\* parse_str_array: split at commas, quotes trimmed off.
StrArray(val) ==
  LET inner == StripEnd(StripStart(Trim(val), {"["}), {"]"})
      items == [i \in DOMAIN Split(inner, ",") |->
                  StripEnd(StripStart(Trim(Split(inner, ",")[i]), {"quote"}), {"quote"})]
  IN SelectSeq(items, LAMBDA s : s # <<>>)

\* parse_bool, parse_u64, parse_f64
Booleans == {"enabled"}
Numbers == {"poll_ms", "max_entries", "default_ttl_ms", "capacity", "refill_rate"}
WellTyped(key, val) ==
  /\ key \in Booleans => val \in {<<"true">>, <<"false">>}
  /\ key \in Numbers => Len(val) = 1 /\ val[1] \in DOMAIN NumberOf
Typed(key, val) ==
  CASE key \in {"dirs", "files"} -> StrArray(val)
    [] key \in Booleans          -> val = <<"true">>
    [] key \in Numbers           -> NumberOf[val[1]]
    [] OTHER                     -> val

---------------------------------------------------------------------------------
\* parse, line by line; a method is taken to be in capitals already

Fail(p) == [p EXCEPT !.failed = TRUE]

\* A rule without a name, or without a capacity, is not kept.
Flush(p) ==
  [p EXCEPT !.cfg.middleware = @ \o SelectSeq(p.mw, LAMBDA mw : mw.name # <<>>),
            !.cfg.ratelimit = @ \o SelectSeq(p.rl, LAMBDA rl : rl.capacity > 0),
            !.mw = <<>>, !.rl = <<>>]

\* Mutation: a table that follows one of its kind goes on with its rule.
HeaderKeeps(p, line) ==
  LET section == Trim(StripEnd(StripStart(line, {"[", "]"}), {"[", "]"}))
      q == Flush(p)
  IN [q EXCEPT !.section = section,
               !.mw = IF section # <<"middleware.rules">> THEN <<>> ELSE IF p.mw # <<>> THEN p.mw ELSE <<NewHook>>,
               !.rl = IF section # <<"ratelimit.rules">> THEN <<>> ELSE IF p.rl # <<>> THEN p.rl ELSE <<NewRule>>]

\* [section] or [[section.sub]]: brackets are trimmed off both ends.
Header(p, line) ==
  LET section == Trim(StripEnd(StripStart(line, {"[", "]"}), {"[", "]"}))
  IN [Flush(p) EXCEPT !.section = section,
                      !.mw = IF section = <<"middleware.rules">> THEN <<NewHook>> ELSE <<>>,
                      !.rl = IF section = <<"ratelimit.rules">> THEN <<NewRule>> ELSE <<>>]

\* A key of a known section must be one of its own; other sections are not looked at.
Pair(p, key, val) ==
  CASE p.section = <<"middleware.rules">> ->
         IF key \in DOMAIN NewHook THEN [p EXCEPT !.mw[1][key] = val] ELSE Fail(p)
    [] p.section = <<"ratelimit.rules">> ->
         IF key \in DOMAIN NewRule /\ WellTyped(key, val) THEN [p EXCEPT !.rl[1][key] = Typed(key, val)] ELSE Fail(p)
    [] Len(p.section) = 1 /\ p.section[1] \in Tables ->
         IF key \in DOMAIN p.cfg[p.section[1]] /\ WellTyped(key, val)
         THEN [p EXCEPT !.cfg[p.section[1]][key] = Typed(key, val)] ELSE Fail(p)
    [] OTHER -> p

Parsed(p, raw) ==
  LET line == Trim(raw)
  IN IF line = <<>> \/ line[1] = "#" THEN p
     ELSE IF line[1] = "[" THEN Header(p, line)
     ELSE IF ~IsPair(line) THEN Fail(p)
     ELSE Pair(p, IF Len(Key(line)) = 1 THEN Key(line)[1] ELSE "other", Value(Trim(After(line, "="))))

---------------------------------------------------------------------------------
\* apply: once, before the servers start

\* parse_scope, build_hook_before and build_hook_after take the spec or refuse it.
IsScope(s) ==
  \/ s = <<"global">>
  \/ (Len(s) >= 2 /\ s[1] = "service" /\ s[2] = ":")
  \/ (":" \in ToSet(s) /\ Before(s, ":") # <<>> /\ After(s, ":") # <<>>)
IsBefore(s) == s \in {Absent, <<"log">>} \/ (Len(s) >= 3 /\ s[1] = "reject" /\ s[2] = ":" /\ s[3] \in DOMAIN NumberOf)
IsAfter(s) == s \in {Absent, <<"log">>} \/ (Len(s) >= 3 /\ s[1] = "header" /\ s[2] = ":" /\ s[3] # ":")
Usable(mw) == IsScope(mw.scope) /\ IsBefore(mw.before) /\ IsAfter(mw.after)

Applied(cfg) ==
  LET Registered(hooks, mw) == IF Usable(mw) THEN Append(SelectSeq(hooks, LAMBDA h : h.name # mw.name), mw) ELSE hooks
      WithRule(buckets, rl) == (<<rl.method, rl.path>> :> [capacity |-> rl.capacity, refill_rate |-> rl.refill_rate]) @@ buckets
      Watched(found, path) == IF path \in ToSet(found) THEN found ELSE Append(found, path)
      on == cfg.watch.enabled
  IN [at |-> "running",
      mode |-> IF cfg.daemon.mode \in {<<"lite">>, <<"full">>, <<"ultra">>, <<"off">>} THEN cfg.daemon.mode ELSE <<"full">>,
      name |-> cfg.project.name,
      poll |-> IF ~on THEN 0 ELSE IF cfg.watch.poll_ms < 100 THEN 100 ELSE cfg.watch.poll_ms,
      dirs |-> IF on THEN FoldLeft(Watched, <<>>, cfg.watch.dirs) ELSE <<>>,
      files |-> IF on THEN FoldLeft(Watched, <<>>, cfg.watch.files) ELSE <<>>,
      hooks |-> FoldLeft(Registered, <<>>, cfg.middleware),
      buckets |-> FoldLeft(WithRule, [r \in {} |-> Absent], cfg.ratelimit),
      keyspace |-> cfg.cache]

---------------------------------------------------------------------------------

Init ==
  /\ lines = <<>> /\ daemon = Idle
  /\ parser = [cfg |-> Defaults, section |-> <<>>, mw |-> <<>>, rl |-> <<>>, failed |-> FALSE]

Read(line) ==
  /\ daemon = Idle /\ ~parser.failed /\ Len(lines) < MaxLines
  /\ lines' = Append(lines, line)
  /\ parser' = Parsed(parser, line)
  /\ UNCHANGED daemon

\* main: a file with an error is left out as a whole.
Start ==
  /\ daemon = Idle
  /\ parser' = Flush(parser)
  /\ daemon' = Applied(IF parser.failed THEN Defaults ELSE parser'.cfg)
  /\ UNCHANGED lines

Next == Start \/ \E line \in Lines : Read(line)

Spec == Init /\ [][Next]_vars

---------------------------------------------------------------------------------
\* Properties

IsHeader(i) == lines[i] # <<>> /\ lines[i][1] = "["
HeadOf(i) == Max({h \in 1..i : IsHeader(h)} \cup {0})

\* What the table opened at line h says of a key: its last line for it, or the default.
Says(h, key, default) ==
  LET at == {i \in (h + 1)..Len(lines) : HeadOf(i) = h /\ Key(Trim(lines[i])) = <<key>>}
  IN IF at = {} THEN default ELSE Typed(key, Value(Trim(After(Trim(lines[Max(at)]), "="))))
RuleAt(h) == [k \in DOMAIN NewRule |-> Says(h, k, NewRule[k])]
HookAt(h) == [k \in DOMAIN NewHook |-> Says(h, k, NewHook[k])]
TablesOf(section) == {h \in DOMAIN lines : IsHeader(h) /\ lines[h] = <<"[", "[", section, "]", "]">>}

\* Whatever order the tables of a file have, the daemon starts with one bucket for each
\* method and path, filled from the last table that gives it a capacity and from
\* nothing else, and with one hook for each name, taken whole from one table.
RulesComeFromTheirTables ==
  (daemon # Idle /\ ~parser.failed) =>
    LET rules == {h \in TablesOf("ratelimit.rules") : RuleAt(h).capacity > 0}
        hooks == {h \in TablesOf("middleware.rules") : HookAt(h).name # <<>> /\ Usable(HookAt(h))}
        LastOf(h, tables, Id(_)) == \A g \in tables : Id(g) = Id(h) => g <= h
        RuleId(h) == <<RuleAt(h).method, RuleAt(h).path>>
        HookId(h) == HookAt(h).name
    IN /\ DOMAIN daemon.buckets = {RuleId(h) : h \in rules}
       /\ \A h \in rules : LastOf(h, rules, RuleId) =>
            daemon.buckets[RuleId(h)] = [capacity |-> RuleAt(h).capacity, refill_rate |-> RuleAt(h).refill_rate]
       /\ ToSet(daemon.hooks) = {HookAt(h) : h \in {g \in hooks : LastOf(g, hooks, HookId)}}
=================================================================================
