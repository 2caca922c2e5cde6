------------------------------- MODULE StaticFiles -------------------------------
(***************************************************************************)
(* The static mounts (daemon/src/staticfiles.rs), their handlers, and the  *)
(* conditional requests of a client that keeps copies, while the files     *)
(* change underneath.                                                      *)
(*                                                                         *)
(* A path is the sequence of its segments; the mount at "/" has the empty  *)
(* prefix.  An ETag hashes the bytes, so it stands for the content.        *)
(***************************************************************************)
EXTENDS Iteration

CONSTANTS
  MountPrefixes, Dirs, Fallbacks,   \* of registrations; a fallback may be Absent
  Paths,                       \* of requests, outside the API
  Contents,
  MaxNow                       \* bound: the clock, in seconds

VARIABLES
  mounts,     \* sequence of [prefix, dir, fallback]
  files,      \* what is on disk: [path -> [content, mtime]]
  now,        \* the clock
  request,    \* the request under way: [at, method, path, inm, ims, ...] or Idle
  copies,     \* what the client keeps: [path -> [content, etag, modified]]
  answer      \* the answer that has just arrived

vars == <<mounts, files, now, request, copies, answer>>

Absent == <<"none">>
Idle == [at |-> "idle"]
Date(second) == <<"at", second>>    \* http_date

---------------------------------------------------------------------------------
\* The registry

Put(f, k, v) == [x \in DOMAIN f \cup {k} |-> IF x = k THEN v ELSE f[x]]
Without(f, k) == [x \in DOMAIN f \ {k} |-> f[x]]

\* Mutation: a new mount is not moved before the shorter ones.
WithMountLast(ms, mount) ==
  IF \E i \in DOMAIN ms : ms[i].prefix = mount.prefix
  THEN [i \in DOMAIN ms |-> IF ms[i].prefix = mount.prefix THEN mount ELSE ms[i]]
  ELSE Append(ms, mount)

\* register: replaced in place, or added and sorted, the longest prefix first.
WithMount(ms, mount) ==
  LET longer == {m \in ToSet(ms) : Len(m.prefix) >= Len(mount.prefix)}
  IN IF \E i \in DOMAIN ms : ms[i].prefix = mount.prefix
     THEN [i \in DOMAIN ms |-> IF ms[i].prefix = mount.prefix THEN mount ELSE ms[i]]
     ELSE Kept(ms, longer) \o <<mount>> \o Kept(ms, ToSet(ms) \ longer)

\* find_mount, matches
Covers(mount, path) == IsPrefix(mount.prefix, path)
Matches(path) == \E i \in DOMAIN mounts : Covers(mounts[i], path)
FindMount(path) == mounts[Min({i \in DOMAIN mounts : Covers(mounts[i], path)})]

\* safe_join: nothing with a parent reference.
SafeJoin(dir, rel) == IF ".." \in ToSet(rel) THEN Absent ELSE dir \o SelectSeq(rel, LAMBDA s : s # ".")

\* The file served for a path, or Absent.
Resolved(mount, path) ==
  LET real == SafeJoin(mount.dir, SubSeq(path, Len(mount.prefix) + 1, Len(path)))
  IN IF real \in DOMAIN files THEN real
     ELSE IF mount.fallback \in DOMAIN files THEN mount.fallback ELSE Absent

---------------------------------------------------------------------------------
\* The answer to a request whose file has been read

\* Mutation: a date that matches is enough, whatever became of the ETag.
UnchangedByDate(r, modified) == r.inm = r.bytes \/ (r.ims # Absent /\ r.ims = modified)

\* If-None-Match takes precedence over If-Modified-Since, which is compared as text.
Unchanged(r, modified) == IF r.inm # Absent THEN r.inm = r.bytes ELSE r.ims # Absent /\ r.ims = modified

Answer(r, modified) ==
  IF Unchanged(r, modified)
  THEN [status |-> 304, path |-> r.path, byEtag |-> r.inm # Absent, content |-> r.bytes]
  ELSE [status |-> 200, path |-> r.path, byEtag |-> FALSE, content |-> r.bytes]

---------------------------------------------------------------------------------

Init ==
  /\ mounts = <<>> /\ files = [f \in {} |-> Absent] /\ now = 0
  /\ request = Idle /\ copies = [p \in {} |-> Absent] /\ answer = Idle

\* The lock is free unless a file is being served.
Unlocked == request.at # "read"

\* static_register, whose caller has seen the directory exist, and static_remove
Register(prefix, dir, fallback) ==
  /\ Unlocked
  /\ mounts' = WithMount(mounts, [prefix |-> prefix, dir |-> dir, fallback |-> fallback])
  /\ UNCHANGED <<files, now, request, copies, answer>>
Unmount(prefix) ==
  /\ Unlocked /\ \E i \in DOMAIN mounts : mounts[i].prefix = prefix
  /\ mounts' = Kept(mounts, {m \in ToSet(mounts) : m.prefix # prefix})
  /\ UNCHANGED <<files, now, request, copies, answer>>

\* Somebody else's doing
Save(file, content) ==
  /\ files' = Put(files, file, [content |-> content, mtime |-> now])
  /\ UNCHANGED <<mounts, now, request, copies, answer>>
Delete(file) ==
  /\ file \in DOMAIN files
  /\ files' = Without(files, file)
  /\ UNCHANGED <<mounts, now, request, copies, answer>>
Tick ==
  /\ now < MaxNow
  /\ now' = now + 1
  /\ UNCHANGED <<mounts, files, request, copies, answer>>

\* The client asks, with the validators of its copy if it wants; handle looks whether
\* a mount covers the path.
Ask(method, path, withEtag, withDate) ==
  /\ request = Idle /\ Matches(path)
  /\ (withEtag \/ withDate) => path \in DOMAIN copies
  /\ request' = [at |-> "matched", method |-> method, path |-> path, bytes |-> Absent, file |-> Absent,
                 inm |-> IF withEtag THEN copies[path].etag ELSE Absent,
                 ims |-> IF withDate THEN copies[path].modified ELSE Absent]
  /\ answer' = Idle
  /\ UNCHANGED <<mounts, files, now, copies>>

\* serve, under a lock of its own: the mount may be gone by now, and then the router
\* answers 404.  The bytes are read ...
NotFound ==
  /\ answer' = [status |-> 404, path |-> request.path, byEtag |-> FALSE, content |-> Absent]
  /\ request' = Idle
ReadFile ==
  /\ request.at = "matched"
  /\ LET file == Resolved(FindMount(request.path), request.path)
     IN IF ~Matches(request.path) THEN NotFound
        ELSE IF file = Absent THEN NotFound
        ELSE /\ request' = [request EXCEPT !.at = "read", !.file = file, !.bytes = files[file].content]
             /\ UNCHANGED answer
  /\ UNCHANGED <<mounts, files, now, copies>>

\* ... and the date is looked up after them; a 200 with a body replaces the copy.
Respond ==
  /\ request.at = "read"
  /\ LET modified == IF request.file \in DOMAIN files THEN Date(files[request.file].mtime) ELSE Absent
     IN /\ answer' = Answer(request, modified)
        /\ copies' = IF answer'.status = 200 /\ request.method = "GET"
                     THEN Put(copies, request.path, [content |-> request.bytes, etag |-> request.bytes,
                                                     modified |-> modified])
                     ELSE copies
  /\ request' = Idle
  /\ UNCHANGED <<mounts, files, now>>

Files == {d \o <<"x">> : d \in Dirs} \cup (Fallbacks \ {Absent})

Next ==
  \/ \E p \in MountPrefixes : Unmount(p) \/ \E d \in Dirs, f \in Fallbacks : Register(p, d, f)
  \/ \E f \in Files : Delete(f) \/ \E c \in Contents : Save(f, c)
  \/ Tick
  \/ \E m \in {"GET", "HEAD"}, p \in Paths, e, d \in BOOLEAN : Ask(m, p, e, d)
  \/ ReadFile
  \/ Respond

Spec == Init /\ [][Next]_vars

---------------------------------------------------------------------------------
\* Properties

\* Whatever the order mounts come, are replaced and go in, a path is served from the
\* mount with the longest prefix that covers it, and a prefix has one mount.
MostSpecificMountServes ==
  /\ \A i, j \in DOMAIN mounts : mounts[i].prefix = mounts[j].prefix => i = j
  /\ \A p \in Paths : Matches(p) =>
       \A i \in DOMAIN mounts : Covers(mounts[i], p) => Len(mounts[i].prefix) <= Len(FindMount(p).prefix)

\* A client that sends its ETag is told that nothing has changed only if its copy has
\* the bytes that were on disk, although the file may change within a second, or
\* between the read and the look at its date.
CopiesAreConfirmed ==
  answer # Idle =>
    (answer.status = 304 /\ answer.byEtag => copies[answer.path].content = answer.content)
=================================================================================
