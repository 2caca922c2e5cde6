---------------------------------- MODULE Traces ----------------------------------
(***************************************************************************)
(* What the daemon shows of itself: the trace and log rings and the        *)
(* sampling rate of daemon/src/state.rs, and the state streams             *)
(* (StreamRegistry of daemon/src/streaming.rs, handle_state_stream of      *)
(* http.rs), whose threads register a session, write a first burst and     *)
(* then poll the state until a write fails.  Metrics has the counters.     *)
(*                                                                         *)
(* A trace is its number.  The streams are those of /stream/traces; those  *)
(* of metrics and services differ in what they render, which is never      *)
(* empty.  Each action is one hold of the State lock, or the write between *)
(* two holds.                                                              *)
(***************************************************************************)
EXTENDS Naturals, Sequences, FiniteSets

CONSTANTS Clients,
          MaxTraces, MaxLogs,   \* 500 and 1000 in state.rs
          Burst,                \* 50: how many traces a stream renders
          MaxCounter,           \* bound: traces taken
          MaxSessions           \* bound: sessions opened

VARIABLES
  traces,         \* oldest first
  trace_counter,
  logs,           \* the statuses logged, oldest first
  rate,           \* trace_sample_rate: "none", "low", "high", "all"
  active,         \* ids of the sessions in the registry
  counter,        \* of sessions
  thread          \* [at, session, gone, ended]: the stream of each client

traceVars == <<traces, trace_counter, logs, rate>>
streamVars == <<active, counter, thread>>
vars == <<traceVars, streamVars>>

Idle == [at |-> "none", session |-> 0, gone |-> FALSE, ended |-> FALSE, shown |-> <<>>]

LastOf(s, n) == IF Len(s) > n THEN SubSeq(s, Len(s) - n + 1, Len(s)) ELSE s

---------------------------------------------------------------------------------

Init ==
  /\ traces = <<>> /\ trace_counter = 0
  /\ logs = <<>>
  /\ rate = "all"
  /\ active = {} /\ counter = 0
  /\ thread = [c \in Clients |-> Idle]

\* should_sample: the generator's top 31 bits are divided by u32::MAX, so the number
\* it draws is below one half, and a rate of one half or more takes every trace.
Sampled == CASE rate \in {"high", "all"} -> {TRUE} [] rate = "none" -> {FALSE} [] OTHER -> BOOLEAN

\* Mutation: the ring gives up its newest trace.
KeptNewest(s) == IF Len(s) > MaxTraces THEN SubSeq(s, 1, MaxTraces) ELSE s

\* push, and remove(0) once the ring is over its size.
Kept(s) == LastOf(s, MaxTraces)

\* serve_request, after the answer is computed: push_trace keeps a trace of the
\* request when it is sampled, push_log keeps its line.
Served(error) ==
  /\ trace_counter < MaxCounter
  /\ \E sampled \in Sampled :
       IF sampled THEN /\ trace_counter' = trace_counter + 1
                       /\ traces' = Kept(Append(traces, trace_counter + 1))
       ELSE UNCHANGED <<traces, trace_counter>>
  /\ logs' = LastOf(Append(logs, error), MaxLogs)
  /\ UNCHANGED <<rate, streamVars>>

\* traces_clear keeps the counter, so ids are not given twice.
ClearTraces == traces' = <<>> /\ UNCHANGED <<trace_counter, logs, rate, streamVars>>
SetSampling(r) == rate' = r /\ UNCHANGED <<traces, trace_counter, logs, streamVars>>

\* find_trace, for GET /traces/<id> and TRACE GET.
Found(id) == \E i \in DOMAIN traces : traces[i] = id

---------------------------------------------------------------------------------

\* A client connects: the headers are written, then the session is registered.
OpenStream(c) ==
  /\ thread[c].at = "none" /\ counter < MaxSessions
  /\ counter' = counter + 1
  /\ active' = active \cup {counter + 1}
  /\ thread' = [thread EXCEPT ![c] = [Idle EXCEPT !.at = "poll", !.session = counter + 1]]
  /\ UNCHANGED traceVars

\* Mutation: a failed write ends the thread at once.
RenderForgets(c) ==
  /\ thread[c].at = "poll"
  /\ thread' = [thread EXCEPT ![c] = IF thread[c].gone THEN Idle
                                      ELSE [thread[c] EXCEPT !.shown = LastOf(traces, Burst)]]
  /\ UNCHANGED <<active, counter, traceVars>>

\* One poll, the first burst included: render_traces, then write_chunk.  A chunk of
\* no traces has length 0, which ends a chunked body; a client that is gone makes
\* the write fail, sooner or later.
Render(c) ==
  /\ thread[c].at = "poll"
  /\ thread' = [thread EXCEPT ![c] =
                  IF thread[c].gone THEN [thread[c] EXCEPT !.at = "finish"]
                  ELSE [thread[c] EXCEPT !.shown = LastOf(traces, Burst),
                                         !.ended = thread[c].ended \/ traces = <<>>]]
  /\ UNCHANGED <<active, counter, traceVars>>

\* finish_state_stream.
Finish(c) ==
  /\ thread[c].at = "finish"
  /\ active' = active \ {thread[c].session}
  /\ thread' = [thread EXCEPT ![c] = Idle]
  /\ UNCHANGED <<counter, traceVars>>

\* The client closes its connection, which it will after the body has ended.
ClientLeaves(c) ==
  /\ thread[c].at = "poll" /\ ~thread[c].gone
  /\ thread' = [thread EXCEPT ![c].gone = TRUE]
  /\ UNCHANGED <<active, counter, traceVars>>

\* The TCP commands STREAM OPEN, a session without a connection, and STREAM CLOSE
\* of whichever session.
TcpStreamOpen ==
  /\ counter < MaxSessions
  /\ counter' = counter + 1
  /\ active' = active \cup {counter + 1}
  /\ UNCHANGED <<thread, traceVars>>
TcpStreamClose(id) == active' = active \ {id} /\ UNCHANGED <<counter, thread, traceVars>>

Next ==
  \/ \E error \in BOOLEAN : Served(error)
  \/ ClearTraces
  \/ \E r \in {"none", "low", "high", "all"} : SetSampling(r)
  \/ \E c \in Clients : OpenStream(c) \/ Render(c) \/ Finish(c) \/ ClientLeaves(c)
  \/ TcpStreamOpen \/ \E id \in active : TcpStreamClose(id)

\* The stream threads run; clients and requests need not.
Fairness == \A c \in Clients : WF_vars(Render(c)) /\ WF_vars(Finish(c))

Spec == Init /\ [][Next]_vars
FairSpec == Spec /\ Fairness

---------------------------------------------------------------------------------
\* Properties

\* The traces kept are the last ones taken, without a gap and in their order, so an
\* id that is answered with a trace is answered until MaxTraces younger ones exist or
\* the traces are cleared; and a session a thread holds is nobody else's.
TracesAreTheNewest ==
  /\ Len(traces) <= MaxTraces /\ Len(logs) <= MaxLogs
  /\ \A i, j \in DOMAIN traces : i < j => traces[i] < traces[j]
  /\ \A id \in 1 .. trace_counter : Found(id) = (id > trace_counter - Len(traces))
  /\ \A c, d \in Clients : thread[c].at # "none" /\ thread[d].session = thread[c].session => c = d
  /\ active \subseteq 1 .. counter

\* streaming.rs: a session is "closed on disconnect", whatever else goes on: the
\* session of a client that left is taken out of the registry.
GoneClientsAreDropped ==
  \A c \in Clients, s \in 1 .. MaxSessions :
    (thread[c].gone /\ thread[c].session = s) ~> s \notin active

\* http.rs: handle_state_stream is a "Long-lived SSE stream of daemon state": its
\* body does not end while its client is there.
StreamsAreLongLived == \A c \in Clients : ~thread[c].ended

==================================================================================
