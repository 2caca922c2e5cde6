--------------------------------- MODULE Watcher ---------------------------------
(***************************************************************************)
(* Hot reload: the watcher thread and the registry of daemon/src/watcher.rs, *)
(* and the event-stream connections of daemon/src/http.rs it broadcasts to. *)
(*                                                                         *)
(* The thread takes the State lock to list the files, to compare a file's  *)
(* mtime and to publish a result; it looks at the disk between these, and  *)
(* once more while it publishes.  Each of those is one action, and the     *)
(* disk may change before any of them.                                     *)
(*                                                                         *)
(* A text is named by the number of the write that produced it; the mtimes *)
(* on the disk count seconds, as the thread reads them.  A source a client *)
(* compiles is a text that was once on the disk.  Directories, keepalives, *)
(* change counts and log lines are not modelled.                           *)
(***************************************************************************)
EXTENDS Naturals, Sequences

CONSTANTS Paths,        \* .bridge files
          Broken,       \* texts that do not parse
          SameSecond,   \* whether two writes may fall into the same second
          Clients,      \* event-stream connections
          BufferSize,   \* the capacity of a client's channel (64)
          MaxTexts,     \* bound: writes to the disk
          MaxWatches,   \* bound: calls that start watching a file
          None

Texts == 1 .. MaxTexts

ASSUME BoundAssumption == MaxTexts \in Nat /\ MaxWatches \in Nat /\ BufferSize \in Nat
ASSUME BrokenAssumption == Broken \subseteq Texts
ASSUME SecondAssumption == SameSecond \in BOOLEAN
ASSUME NoneAssumption == None \notin Nat \cup [text : Nat, mtime : Nat]

VARIABLES
  disk,          \* path -> [text, mtime], or None
  stamp,         \* history: the second each text was written in
  files,         \* the registry's Vec: [path, last_mtime, last_result]
  watches,       \* history: calls that started watching a file
  thread,        \* the watcher thread: where it is, the paths left, what it found
  latest,        \* the text compiled into codegen/latest
  registry,      \* the text parsed into service_registry
  sse_clients,   \* clients the registry broadcasts to
  channel,       \* client -> events sent and not yet received
  reader,        \* client -> how far its connection handler is
  seen,          \* client -> the last event before or in what it has received
  events_total

disk_vars == <<disk, stamp>>
compiled == <<latest, registry>>
streams == <<sse_clients, channel, reader, seen, events_total>>
vars == <<disk_vars, files, watches, thread, compiled, streams>>

Results == [status : {"pending", "ok", "error"}, text : Texts \cup {None}]

Pending == [status |-> "pending", text |-> None]

Mtimes == Nat \cup {None}

Now == IF stamp = <<>> THEN 0 ELSE stamp[Len(stamp)]

Watched(p) == \E i \in DOMAIN files : files[i].path = p

\* The disk as file_mtime and recompile_file find it.
MtimeOf(p) == IF disk[p] = None THEN None ELSE disk[p].mtime

Recompiled(p) ==
  IF disk[p] = None THEN [status |-> "error", text |-> None]
  ELSE [status |-> IF disk[p].text \in Broken THEN "error" ELSE "ok", text |-> disk[p].text]

Asleep == [at |-> "asleep", todo |-> <<>>, mtime |-> None, result |-> Pending]

\* The thread before the first of the paths left, or back in its sleep.
NextPath(todo) ==
  IF todo = <<>> THEN Asleep
  ELSE [at |-> "look", todo |-> todo, mtime |-> None, result |-> Pending]

\* A channel whose receiver still exists.
Listening(c) == reader[c] \in {"greeting", "open", "leaving"}

---------------------------------------------------------------------------------
\* The disk

Init ==
  /\ disk = [p \in Paths |-> None]
  /\ stamp = <<>>
  /\ files = <<>>
  /\ watches = 0
  /\ thread = Asleep
  /\ latest = None
  /\ registry = None
  /\ sse_clients = {}
  /\ channel = [c \in Clients |-> <<>>]
  /\ reader = [c \in Clients |-> "new"]
  /\ seen = [c \in Clients |-> 0]
  /\ events_total = 0

\* Somebody saves a file, in the second of the write before it or in a later one.
Save(p) ==
  /\ Len(stamp) < MaxTexts
  /\ \E second \in {Now, Now + 1} :
       /\ second = Now => SameSecond
       /\ stamp' = Append(stamp, second)
       /\ disk' = [disk EXCEPT ![p] = [text |-> Len(stamp) + 1, mtime |-> second]]
  /\ UNCHANGED <<files, watches, thread, compiled, streams>>

Delete(p) ==
  /\ disk[p] # None
  /\ disk' = [disk EXCEPT ![p] = None]
  /\ UNCHANGED <<stamp, files, watches, thread, compiled, streams>>

---------------------------------------------------------------------------------
\* Requests

\* watch_file; a path that is watched already stays as it is.
WatchFile(p) ==
  /\ ~Watched(p)
  /\ watches < MaxWatches
  /\ watches' = watches + 1
  /\ files' = Append(files, [path |-> p, last_mtime |-> None, last_result |-> Pending])
  /\ UNCHANGED <<disk_vars, thread, compiled, streams>>

\* retain; a path is watched once at most.
Unwatch(p) ==
  /\ \E i \in DOMAIN files :
       /\ files[i].path = p
       /\ files' = [j \in 1 .. Len(files) - 1 |-> files[IF j < i THEN j ELSE j + 1]]
  /\ UNCHANGED <<disk_vars, watches, thread, compiled, streams>>

\* A compile over HTTP or TCP.
Compile(text) ==
  /\ text \in 1 .. Len(stamp) \ Broken
  /\ latest' = text
  /\ registry' = text
  /\ UNCHANGED <<disk_vars, files, watches, thread, streams>>

---------------------------------------------------------------------------------
\* The watcher thread

\* Woken up, it lists the files.
Poll ==
  /\ thread.at = "asleep"
  /\ thread' = NextPath([i \in DOMAIN files |-> files[i].path])
  /\ UNCHANGED <<disk_vars, files, watches, compiled, streams>>

Look ==
  /\ thread.at = "look"
  /\ thread' = [thread EXCEPT !.at = "compare", !.mtime = MtimeOf(Head(thread.todo))]
  /\ UNCHANGED <<disk_vars, files, watches, compiled, streams>>

Compare ==
  /\ thread.at = "compare"
  /\ IF \E i \in DOMAIN files : /\ files[i].path = Head(thread.todo)
                                /\ files[i].last_mtime # thread.mtime
     THEN thread' = [thread EXCEPT !.at = "compile"]
     ELSE thread' = NextPath(Tail(thread.todo))
  /\ UNCHANGED <<disk_vars, files, watches, compiled, streams>>

\* recompile_file
Recompile ==
  /\ thread.at = "compile"
  /\ thread' = [thread EXCEPT !.at = "publish", !.result = Recompiled(Head(thread.todo))]
  /\ UNCHANGED <<disk_vars, files, watches, compiled, streams>>

\* Mutation: a full channel loses the event and stays.
BroadcastDropsEvent ==
  /\ events_total' = events_total + 1
  /\ sse_clients' = {c \in sse_clients : Listening(c)}
  /\ channel' = [c \in Clients |-> IF c \in sse_clients' /\ Len(channel[c]) < BufferSize
                                   THEN Append(channel[c], events_total + 1) ELSE channel[c]]

\* broadcast: a client whose channel is full, or has no receiver, is dropped.
Broadcast ==
  /\ events_total' = events_total + 1
  /\ sse_clients' = {c \in sse_clients : Listening(c) /\ Len(channel[c]) < BufferSize}
  /\ channel' = [c \in Clients |-> IF c \in sse_clients' THEN Append(channel[c], events_total + 1)
                                                         ELSE channel[c]]

\* The registry's files with that of p showing result, for a file of that mtime.
Shown(p, mtime, result) ==
  [i \in DOMAIN files |-> IF files[i].path = p
                          THEN [path |-> p, last_mtime |-> mtime, last_result |-> result]
                          ELSE files[i]]

\* Mutation: the code is generated from the second read.
StoreSwapped(p, result) ==
  IF result.status = "ok" /\ Recompiled(p).status = "ok"
  THEN latest' = disk[p].text /\ registry' = result.text
  ELSE UNCHANGED compiled

\* A successful result goes into codegen/latest.  The file is read again for
\* service_registry; when that text does not parse neither is stored.
Store(p, result) ==
  IF result.status = "ok" /\ Recompiled(p).status = "ok"
  THEN latest' = result.text /\ registry' = disk[p].text
  ELSE UNCHANGED compiled

\* Mutation: the mtime is taken when the result is shown.
PublishRereadsMtime ==
  /\ thread.at = "publish"
  /\ LET p == Head(thread.todo) IN
     /\ files' = Shown(p, MtimeOf(p), thread.result)
     /\ Store(p, thread.result)
  /\ Broadcast
  /\ thread' = NextPath(Tail(thread.todo))
  /\ UNCHANGED <<disk_vars, watches, reader, seen>>

\* Everything the thread does under its last lock.
Publish ==
  /\ thread.at = "publish"
  /\ LET p == Head(thread.todo) IN
     /\ files' = Shown(p, thread.mtime, thread.result)
     /\ Store(p, thread.result)
  /\ Broadcast
  /\ thread' = NextPath(Tail(thread.todo))
  /\ UNCHANGED <<disk_vars, watches, reader, seen>>

ThreadStep == Poll \/ Look \/ Compare \/ Recompile \/ Publish

---------------------------------------------------------------------------------
\* Event-stream connections

\* handle_sse up to its registration: the stream starts after the last event.
Connect(c) ==
  /\ reader[c] = "new"
  /\ reader' = [reader EXCEPT ![c] = "greeting"]
  /\ sse_clients' = sse_clients \cup {c}
  /\ seen' = [seen EXCEPT ![c] = events_total]
  /\ UNCHANGED <<disk_vars, files, watches, thread, compiled, channel, events_total>>

\* The first ping is written.
Greet(c) ==
  /\ reader[c] = "greeting"
  /\ reader' = [reader EXCEPT ![c] = "open"]
  /\ UNCHANGED <<disk_vars, files, watches, thread, compiled, sse_clients, channel, seen,
                 events_total>>

\* The first ping cannot be written: the handler returns and stays registered.
GreetFails(c) ==
  /\ reader[c] = "greeting"
  /\ reader' = [reader EXCEPT ![c] = "gone"]
  /\ channel' = [channel EXCEPT ![c] = <<>>]
  /\ UNCHANGED <<disk_vars, files, watches, thread, compiled, sse_clients, seen, events_total>>

\* An event is received and written.
Receive(c) ==
  /\ reader[c] = "open"
  /\ channel[c] # <<>>
  /\ seen' = [seen EXCEPT ![c] = Head(channel[c])]
  /\ channel' = [channel EXCEPT ![c] = Tail(@)]
  /\ UNCHANGED <<disk_vars, files, watches, thread, compiled, sse_clients, reader, events_total>>

\* The loop ends: a write failed, or the sender is gone and the channel empty.
Hangup(c) ==
  /\ reader[c] = "open"
  /\ reader' = [reader EXCEPT ![c] = "leaving"]
  /\ UNCHANGED <<disk_vars, files, watches, thread, compiled, sse_clients, channel, seen,
                 events_total>>

\* remove_sse_client, and the receiver goes.
Leave(c) ==
  /\ reader[c] = "leaving"
  /\ reader' = [reader EXCEPT ![c] = "gone"]
  /\ sse_clients' = sse_clients \ {c}
  /\ channel' = [channel EXCEPT ![c] = <<>>]
  /\ UNCHANGED <<disk_vars, files, watches, thread, compiled, seen, events_total>>

Next ==
  \/ \E p \in Paths : Save(p) \/ Delete(p) \/ WatchFile(p) \/ Unwatch(p)
  \/ \E text \in Texts : Compile(text)
  \/ ThreadStep
  \/ \E c \in Clients :
       Connect(c) \/ Greet(c) \/ GreetFails(c) \/ Receive(c) \/ Hangup(c) \/ Leave(c)

Spec == Init /\ [][Next]_vars

\* The thread is never waited for by anyone and every lock is held for a moment
\* only.  Nothing is assumed of the clients: one that does not read must not
\* hold it up.
FairSpec == Spec /\ WF_vars(ThreadStep)

---------------------------------------------------------------------------------
\* Properties

\* A text shown for a file is never older than the mtime recorded with it,
\* whatever was saved between the thread's looks at the disk: an mtime that is
\* recorded is not one whose change is still to be compiled.
ShownIsNoOlderThanRecorded ==
  \A i \in DOMAIN files :
    files[i].last_mtime # None /\ files[i].last_result.text # None
      => stamp[files[i].last_result.text] >= files[i].last_mtime

\* The file is read twice for one reload, so codegen/latest and service_registry
\* may come from different texts; the registry's is never the older one, and
\* both were stored or neither.
RegistryIsNoOlderThanCode ==
  /\ latest = None <=> registry = None
  /\ latest # None => registry >= latest /\ {latest, registry} \cap Broken = {}

\* Both: neither what a file shows nor what was stored for it lags behind what the
\* thread has taken note of.
WhatIsShownIsCurrent == ShownIsNoOlderThanRecorded /\ RegistryIsNoOlderThanCode

\* A client's stream is an unbroken run of the events from its registration on:
\* one that cannot keep up, or loses its connection, is cut off and never
\* skips an event, and one that is still registered has all of them.
StreamsHaveNoGaps ==
  \A c \in Clients : Listening(c) =>
    /\ \A i \in DOMAIN channel[c] : channel[c][i] = seen[c] + i
    /\ c \in sse_clients => seen[c] + Len(channel[c]) = events_total

\* docs/watcher.md: the watcher "monitors .bridge files for changes, recompiles
\* them automatically".  A text that stays on the disk of a watched path is in
\* the end the one shown for it, however the saves before it fell between the
\* thread's looks.  (A deleted file is another matter: one that was saved again
\* after its mtime was found missing, and deleted again after it was compiled,
\* is shown as compiled for good.)
ChangesAreCompiled ==
  \A p \in Paths, text \in Texts :
    LET Holds == Watched(p) /\ disk[p] # None /\ disk[p].text = text
    IN Holds ~> (~Holds \/ \A i \in DOMAIN files :
                              files[i].path = p => files[i].last_result = Recompiled(p))

==================================================================================
