-------------------------------- MODULE Manifest --------------------------------
(***************************************************************************)
(* The infrastructure manifest of the Rust SDK (sdk-rust/src/lib.rs) and   *)
(* the one codegen derives from a .bridge file: builders collect            *)
(* declarations, finalize checks and freezes them, and the lock text and   *)
(* its hash must depend on nothing but what was declared.                  *)
(*                                                                         *)
(* A name is a sequence of characters.  A BTreeMap is the sequence of its  *)
(* entries <<key, value>> in the order it iterates, a JSON value the tree  *)
(* that is printed; SHA-256 stands for the text it is taken of.            *)
(***************************************************************************)
EXTENDS Iteration

CONSTANTS
  Builders,
  Apps, Languages, Names, Images,
  Resources,     \* what is declared: records tagged by type
  SpecCalls,     \* sequences of ServiceSpec method calls
  Sources        \* .bridge files: sequences of service names

VARIABLES
  builders       \* [b -> [at, app, language, services, resources, error]]

vars == <<builders>>

---------------------------------------------------------------------------------
\* Maps in key order

Alphabet == <<"-", "0", "1", "2", "3", "4", "5", "6", "7", "8", "9", "A", "B", "a", "b", "c", "d", "e">>
Ord(c) == CHOOSE i \in DOMAIN Alphabet : Alphabet[i] = c

\* The orders of keys: ports by number, names by the first character that differs, or
\* that only the second has.
ByNumber(k, l) == k < l
ByName(k, l) ==
  \E i \in DOMAIN l :
    /\ \A j \in 1 .. (i - 1) : j \in DOMAIN k /\ k[j] = l[j]
    /\ i \in DOMAIN k => Ord(k[i]) < Ord(l[i])

HasKey(map, k) == \E i \in DOMAIN map : map[i][1] = k

\* BTreeMap::insert
Inserted(map, k, v, Precedes(_, _)) ==
  Kept(map, {e \in ToSet(map) : Precedes(e[1], k)}) \o << <<k, v>> >>
  \o Kept(map, {e \in ToSet(map) : Precedes(k, e[1])})

---------------------------------------------------------------------------------
\* What the constants are made of: texts, resources by their type, method calls

Texts == Seq(STRING)
Resource ==
  [type : {"bucket"}, public : BOOLEAN] \cup [type : {"topic"}, region : Texts]
  \cup [type : {"database", "secret"}] \cup [type : {"cron"}, schedule : Texts]
Call ==
  ({"port"} \X Nat \X Nat) \cup ({"env"} \X Seq(ToSet(Alphabet)) \X Texts) \cup ({"bucket", "topic", "database"} \X Texts)

---------------------------------------------------------------------------------
\* ServiceSpec: ports and env are maps, references are kept as they come

NewSpec(image) == [image |-> image, ports |-> <<>>, env |-> <<>>, bucket |-> <<>>, topic |-> <<>>, database |-> <<>>]
With(spec, call) ==
  CASE call[1] = "port" -> [spec EXCEPT !.ports = Inserted(@, call[2], call[3], ByNumber)]
    [] call[1] = "env"  -> [spec EXCEPT !.env = Inserted(@, call[2], call[3], ByName)]
    [] OTHER            -> [spec EXCEPT ![call[1]] = Append(@, call[2])]
SpecOf(image, calls) ==
  LET spec[i \in 0 .. Len(calls)] == IF i = 0 THEN NewSpec(image) ELSE With(spec[i - 1], calls[i])
  IN spec[Len(calls)]

---------------------------------------------------------------------------------
\* The canonical form: fields in declaration order, empty containers left out

Unless(empty, key, value) == IF value = empty THEN <<>> ELSE << <<key, value>> >>
Mapped(map, Value(_)) == [i \in DOMAIN map |-> <<map[i][1], Value(map[i][2])>>]

\* Mutation: references are printed as one list, whatever they are to.
ServiceObjectMerged(s) ==
  << <<"image", s.image>> >> \o Unless(<<>>, "ports", s.ports) \o Unless(<<>>, "env", s.env)
  \o Unless(<<>>, "references", s.bucket \o s.topic \o s.database)

ServiceObject(s) ==
  << <<"image", s.image>> >> \o Unless(<<>>, "ports", s.ports) \o Unless(<<>>, "env", s.env)
  \o Unless(<<>>, "buckets", s.bucket) \o Unless(<<>>, "topics", s.topic) \o Unless(<<>>, "databases", s.database)

ResourceObject(r) ==
  << <<"type", r.type>> >> \o
    CASE r.type = "bucket"   -> << <<"public", r.public>> >>
      [] r.type = "topic"    -> Unless(<<>>, "region", r.region)
      [] r.type = "database" -> << <<"engine", "postgres">> >>
      [] r.type = "cron"     -> << <<"schedule", r.schedule>> >>
      [] r.type = "secret"   -> <<>>

ToObject(m, hash) ==
  << <<"schema_version", 1>>, <<"app", m.app>> >> \o Unless(<<>>, "language", m.language)
  \o << <<"services", Mapped(m.services, ServiceObject)>>, <<"resources", Mapped(m.resources, ResourceObject)>> >>
  \o Unless(<<>>, "content_hash", hash)

ContentHash(m) == <<"sha256", ToObject(m, <<>>)>>
ToLock(m) == ToObject(m, m.hash)
Verify(m) == ContentHash(m) = m.hash

---------------------------------------------------------------------------------
\* Checks

\* validate_name: a DNS label that starts with a letter
IsLower(c) == c \in {"a", "b", "c", "d", "e"}
IsDigit(c) == c \in {"0", "1", "2", "3", "4", "5", "6", "7", "8", "9"}
IsLabel(name) ==
  /\ name # <<>> /\ Len(name) <= 63 /\ IsLower(name[1])
  /\ \A i \in DOMAIN name : IsLower(name[i]) \/ IsDigit(name[i]) \/ name[i] = "-"

\* cron counts the fields of its schedule and no more.
Sound(r) == r.type = "cron" => Len(r.schedule) = 5

Absent == [at |-> "absent", app |-> <<>>, language |-> <<>>, services |-> <<>>, resources |-> <<>>, hash |-> <<>>]
Fresh(app) == [Absent EXCEPT !.at = "building", !.app = app]
Refused(m, error) == [Absent EXCEPT !.at = error]      \* the builder is gone with the error

WithResource(m, name, r) ==
  IF ~Sound(r) THEN Refused(m, "invalid")
  ELSE IF ~IsLabel(name) THEN Refused(m, "bad name")
  ELSE IF HasKey(m.resources, name) THEN Refused(m, "duplicate resource")
  ELSE [m EXCEPT !.resources = Inserted(@, name, r, ByName)]

\* A second service of the same name replaces the first.
WithService(m, name, spec) ==
  IF ~IsLabel(name) THEN Refused(m, "bad name")
  ELSE IF spec.image = <<>> THEN Refused(m, "invalid")
  ELSE [m EXCEPT !.services = Inserted(@, name, spec, ByName)]

\* The names a manifest's services refer to
References(m) ==
  UNION {ToSet(m.services[i][2].bucket) \cup ToSet(m.services[i][2].topic) \cup ToSet(m.services[i][2].database)
           : i \in DOMAIN m.services}

\* finalize looks whether a name is declared, not what it is declared as.
FinalizedFrom(m) ==
  IF \E name \in References(m) : ~HasKey(m.resources, name) THEN Refused(m, "unknown reference")
  ELSE [m EXCEPT !.at = "final", !.hash = ContentHash(m)]

\* generate_manifest: every service of the file is an image named after it.
WithImage(m, name) ==
  IF m.at # "building" THEN m ELSE WithService(m, name, NewSpec(<<"bridge/demo-">> \o name \o <<":1">>))
Generated(file) ==
  LET m[i \in 0 .. Len(file)] ==
        IF i = 0 THEN [Fresh(<<"d", "e">>) EXCEPT !.language = <<"ts">>] ELSE WithImage(m[i - 1], file[i])
  IN IF m[Len(file)].at # "building" THEN m[Len(file)] ELSE FinalizedFrom(m[Len(file)])

---------------------------------------------------------------------------------

Init == builders = [b \in Builders |-> Absent]

Building(b) == builders[b].at = "building"
Becomes(b, m) == builders' = [builders EXCEPT ![b] = m]

New(b, app)           == builders[b].at = "absent" /\ Becomes(b, IF IsLabel(app) THEN Fresh(app) ELSE Refused(Absent, "bad name"))
Language(b, lang)     == Building(b) /\ Becomes(b, [builders[b] EXCEPT !.language = lang])
Declare(b, name, r)   == Building(b) /\ Becomes(b, WithResource(builders[b], name, r))
Serve(b, name, spec)  == Building(b) /\ Becomes(b, WithService(builders[b], name, spec))
Clone(b, c)           == Building(b) /\ builders[c].at = "absent" /\ Becomes(c, builders[b])
Finalize(b)           == Building(b) /\ Becomes(b, FinalizedFrom(builders[b]))
Generate(b, file)     == builders[b].at = "absent" /\ Becomes(b, Generated(file))
Drop(b)               == builders[b].at # "absent" /\ Becomes(b, Absent)

Next == \E b \in Builders :
  \/ \E app \in Apps : New(b, app)
  \/ \E lang \in Languages : Language(b, lang)
  \/ \E name \in Names, r \in Resources : Declare(b, name, r)
  \/ \E name \in Names, image \in Images, calls \in SpecCalls : Serve(b, name, SpecOf(image, calls))
  \/ \E c \in Builders : Clone(b, c)
  \/ Finalize(b)
  \/ \E file \in Sources : Generate(b, file)
  \/ Drop(b)

Spec == Init /\ [][Next]_vars

---------------------------------------------------------------------------------
\* Properties

Final(m) == m.at = "final"
Entries(map) == {<<map[i][1], map[i][2]>> : i \in DOMAIN map}

\* What was declared, without any order but that of a service's references.
Loose(spec) == [spec EXCEPT !.ports = Entries(@), !.env = Entries(@)]
Declared(m) == <<m.app, m.language, {<<m.services[i][1], Loose(m.services[i][2])>> : i \in DOMAIN m.services},
                 Entries(m.resources)>>

\* In whatever order two builders were called, their locks are the same text exactly
\* when they declare the same things, and so are their hashes; a lock verifies, and
\* everything its services refer to is declared in it.
LocksTellContents ==
  \A b \in Builders : Final(builders[b]) =>
    /\ Verify(builders[b])
    /\ \A name \in References(builders[b]) : HasKey(builders[b].resources, name)
    /\ \A c \in Builders : Final(builders[c]) =>
         /\ (Declared(builders[b]) = Declared(builders[c])) <=> (ToLock(builders[b]) = ToLock(builders[c]))
         /\ (builders[b].hash = builders[c].hash) <=> (ToLock(builders[b]) = ToLock(builders[c]))
=================================================================================
