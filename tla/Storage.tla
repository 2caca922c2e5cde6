--------------------------------- MODULE Storage ---------------------------------
(***************************************************************************)
(* Object storage: StorageRegistry of daemon/src/storage.rs and its HTTP   *)
(* handlers.  The buckets are kept in memory and the objects on the disk,  *)
(* <data_dir>/<bucket>/<key>, so a restart of the daemon forgets the one   *)
(* and keeps the other.                                                    *)
(*                                                                         *)
(* Every handler holds the State lock while it works, but a request with a *)
(* signature, and a download, is authorised under one hold of the lock and *)
(* carried out under another.  A signed URL is an entry of `minted` until  *)
(* it expires; what is in an object is not modelled.                       *)
(***************************************************************************)
EXTENDS Naturals, FiniteSets

CONSTANTS Buckets, Keys,
          Folder    \* [Keys -> Keys \cup {"none"}]: the folder a key like a/b lies in, a name others may use as a key

VARIABLES
  buckets,    \* name -> public, for the registered ones
  files,      \* the objects on the disk, <<bucket, key>>
  folders,    \* the folders on the disk, <<bucket, name>>
  minted,     \* the signed URLs that have not expired, <<method, bucket, key>>
  request,    \* the request between its two locks, or Nobody
  forgotten   \* history: buckets a restart forgot and nobody has created since

vars == <<buckets, files, folders, minted, request, forgotten>>

Nobody == [kind |-> "none"]

Objects == Buckets \X Keys
FilesOf(b) == {o \in files : o[1] = b}

\* verify_signed_url: the MAC covers method, bucket, key and expiry.
Verified(method, b, k) == b \in DOMAIN buckets /\ <<method, b, k>> \in minted

\* create_dir_all of the folder and write of the object succeed: no file is in the
\* folder's place, no folder in the object's.
CanWrite(b, k) ==
  /\ <<b, k>> \notin folders
  /\ Folder[k] # "none" => <<b, Folder[k]>> \notin files

---------------------------------------------------------------------------------

\* The data directory may hold what an earlier daemon left there.
Init ==
  /\ buckets = [b \in {} |-> TRUE]
  /\ files = {} /\ folders = {}
  /\ minted = {}
  /\ request = Nobody
  /\ forgotten = {}

\* Mutation: creating a bucket again replaces it.
CreateBucketAgain(b, public) ==
  /\ buckets' = [c \in DOMAIN buckets \cup {b} |-> IF c = b THEN public ELSE buckets[c]]
  /\ forgotten' = forgotten \ {b}
  /\ UNCHANGED <<files, folders, minted, request>>

\* create_bucket takes over a directory that is there already.
CreateBucket(b, public) ==
  /\ b \notin DOMAIN buckets
  /\ buckets' = [c \in DOMAIN buckets \cup {b} |-> IF c = b THEN public ELSE buckets[c]]
  /\ forgotten' = forgotten \ {b}
  /\ UNCHANGED <<files, folders, minted, request>>

\* Mutation: a bucket is deleted whatever is in it.
DeleteBucketFull(b) ==
  /\ b \in DOMAIN buckets
  /\ buckets' = [c \in DOMAIN buckets \ {b} |-> buckets[c]]
  /\ UNCHANGED <<files, folders, minted, request, forgotten>>

\* delete_bucket wants no objects; remove_dir fails, unnoticed, when empty folders
\* are left, and they stay.
DeleteBucket(b) ==
  /\ b \in DOMAIN buckets
  /\ FilesOf(b) = {}
  /\ buckets' = [c \in DOMAIN buckets \ {b} |-> buckets[c]]
  /\ UNCHANGED <<files, folders, minted, request, forgotten>>

\* put_object; the folder is made before the object is written.
WriteObject(b, k) ==
  IF b \in DOMAIN buckets /\ CanWrite(b, k)
  THEN /\ files' = files \cup {<<b, k>>}
       /\ folders' = folders \cup (IF Folder[k] = "none" THEN {} ELSE {<<b, Folder[k]>>})
  ELSE UNCHANGED <<files, folders>>

\* Mutation: put does not ask for the bucket, whose directory create_dir_all makes.
WriteObjectAnywhere(b, k) ==
  IF CanWrite(b, k)
  THEN /\ files' = files \cup {<<b, k>>}
       /\ folders' = folders \cup (IF Folder[k] = "none" THEN {} ELSE {<<b, Folder[k]>>})
  ELSE UNCHANGED <<files, folders>>

\* delete_object removes the file and leaves its folder.
RemoveObject(b, k) ==
  files' = (IF b \in DOMAIN buckets THEN files \ {<<b, k>>} ELSE files) /\ UNCHANGED folders

\* The unsigned management requests.
Put(b, k) == WriteObject(b, k) /\ UNCHANGED <<buckets, minted, request, forgotten>>
Delete(b, k) == RemoveObject(b, k) /\ UNCHANGED <<buckets, minted, request, forgotten>>

\* sign_url mints GET and PUT only, for any key of a bucket there is.
SignUrl(method, b, k) ==
  /\ b \in DOMAIN buckets
  /\ minted' = minted \cup {<<method, b, k>>}
  /\ UNCHANGED <<buckets, files, folders, request, forgotten>>

UrlExpires(u) ==
  minted' = minted \ {u} /\ UNCHANGED <<buckets, files, folders, request, forgotten>>

\* The first lock of a signed request, and of a download without a signature,
\* which a public bucket allows; one that is refused leaves nothing.
Authorise(kind, b, k, signed) ==
  /\ request = Nobody
  /\ IF signed THEN Verified(kind, b, k)
     ELSE kind = "GET" /\ b \in DOMAIN buckets /\ buckets[b]
  /\ request' = [kind |-> kind, bucket |-> b, key |-> k, signed |-> signed, since |-> buckets]
  /\ UNCHANGED <<buckets, files, folders, minted, forgotten>>

\* A request for an object's metadata looks the bucket up first, and takes its query
\* for a signature only if there is one in it; then it is let in like a download.
AuthoriseInfo(b, k, signed) ==
  /\ request = Nobody /\ b \in DOMAIN buckets
  /\ IF signed THEN Verified("GET", b, k) ELSE buckets[b]
  /\ request' = [kind |-> "GET", bucket |-> b, key |-> k, signed |-> signed, since |-> buckets]
  /\ UNCHANGED <<buckets, files, folders, minted, forgotten>>

\* The second lock: get_object, put_object or delete_object look for the bucket
\* again, but not whether the URL has expired or the bucket is public.
CarryOut ==
  /\ request # Nobody
  /\ CASE request.kind = "GET" -> UNCHANGED <<files, folders>>
       [] request.kind = "PUT" -> WriteObject(request.bucket, request.key)
       [] OTHER -> RemoveObject(request.bucket, request.key)
  /\ request' = Nobody
  /\ UNCHANGED <<buckets, minted, forgotten>>

\* The daemon dies and starts again on the same directory; signed URLs are
\* checked against the secret alone and live on.
Restart ==
  /\ forgotten' = {o[1] : o \in files}
  /\ buckets' = [b \in {} |-> TRUE]
  /\ request' = Nobody
  /\ UNCHANGED <<files, folders, minted>>

Next ==
  \/ \E b \in Buckets : DeleteBucket(b) \/ \E public \in BOOLEAN : CreateBucket(b, public)
  \/ \E b \in Buckets, k \in Keys :
       \/ Put(b, k) \/ Delete(b, k)
       \/ \E method \in {"GET", "PUT"} : SignUrl(method, b, k)
       \/ \E kind \in {"GET", "PUT", "DELETE"}, signed \in BOOLEAN : Authorise(kind, b, k, signed)
       \/ \E signed \in BOOLEAN : AuthoriseInfo(b, k, signed)
  \/ \E u \in minted : UrlExpires(u)
  \/ CarryOut \/ Restart

Spec == Init /\ [][Next]_vars

---------------------------------------------------------------------------------
\* Properties

\* Across deletions, signed uploads that meet them and restarts: an object lies in
\* a bucket that is registered, or in one a restart forgot, where it can be reached
\* again by creating the bucket; and no name is a file and a folder at once, so
\* every object listed can be read.
EveryObjectHasItsBucket ==
  /\ files \cup folders \subseteq Objects
  /\ {o[1] : o \in files} \subseteq DOMAIN buckets \cup forgotten
  /\ files \cap folders = {}
  /\ \A o \in files : Folder[o[2]] # "none" => <<o[1], Folder[o[2]]>> \in folders

\* While the daemon runs, an object does not change between public and private by
\* whatever is done to its bucket: only one that a restart left behind gets the
\* visibility its bucket is created with.  And what a request without a signature
\* is handed was put into a public bucket, or its bucket was made again after the
\* request was let in.
Readable(o, B) == o[1] \in DOMAIN B /\ B[o[1]]
VisibilityIsFixed ==
  [][/\ \A o \in files \cap files' :
          o[1] \notin forgotten /\ o[1] \in DOMAIN buckets' =>
            Readable(o, buckets) = Readable(o, buckets')
     /\ CarryOut /\ ~request.signed /\ <<request.bucket, request.key>> \in files =>
          \/ Readable(<<request.bucket>>, buckets)
          \/ buckets # request.since]_vars

==================================================================================
