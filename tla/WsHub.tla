--------------------------------- MODULE WsHub ---------------------------------
(***************************************************************************)
(* The WebSocket room hub of daemon/src/websocket.rs and its handlers.     *)
(* The HTTP surface joins and leaves rooms under ids the client names; a   *)
(* broadcast answers whom the caller is to send to.                        *)
(***************************************************************************)
EXTENDS Iteration, FiniteSets

CONSTANTS Rooms, Conns,
          MaxMembers    \* bound: members of a room

VARIABLES
  rooms,    \* room -> its members, in the order of joining
  joined    \* history: the <<connection, room>> last answered as joined

vars == <<rooms, joined>>

Init == rooms = [r \in {} |-> <<>>] /\ joined = {}

Members(r) == IF r \in DOMAIN rooms THEN rooms[r] ELSE <<>>
Holding(f) == [r \in {s \in DOMAIN f : f[s] # <<>>} |-> f[r]]
Set(r, members) == [s \in DOMAIN rooms \cup {r} |-> IF s = r THEN members ELSE rooms[s]]

\* connect: a new connection enters its initial rooms, here each named once.
Connect(c, R) ==
  /\ \A r \in Rooms : ~Contains(Members(r), c)
  /\ \A r \in R : Len(Members(r)) < MaxMembers
  /\ rooms' = [r \in DOMAIN rooms \cup R |->
                 IF r \in R THEN Append(Members(r), c) ELSE rooms[r]]
  /\ joined' = joined \cup ({c} \X R)

\* Mutation: join does not look whether the connection is a member.
JoinAgain(c, r) ==
  /\ Len(Members(r)) < MaxMembers
  /\ rooms' = Set(r, Append(Members(r), c))
  /\ joined' = joined \cup {<<c, r>>}

\* join
Join(c, r) ==
  IF Contains(Members(r), c) THEN UNCHANGED vars
  ELSE /\ Len(Members(r)) < MaxMembers
       /\ rooms' = Set(r, Append(Members(r), c))
       /\ joined' = joined \cup {<<c, r>>}

\* leave removes the first membership and prunes an empty room.
Leave(c, r) ==
  /\ \E pos \in DOMAIN Members(r) :
       /\ Members(r)[pos] = c /\ \A i \in 1 .. pos - 1 : Members(r)[i] # c
       /\ rooms' = Holding(Set(r, RemoveAt(Members(r), pos)))
  /\ joined' = joined \ {<<c, r>>}

\* disconnect
Disconnect(c) ==
  /\ rooms' = Holding([r \in DOMAIN rooms |-> Kept(rooms[r], Conns \ {c})])
  /\ joined' = {j \in joined : j[1] # c}

\* ws_broadcast: everyone in the room but the sender.
Recipients(r, sender) == Kept(Members(r), Conns \ {sender})

Next ==
  \/ \E c \in Conns, R \in SUBSET Rooms : Connect(c, R)
  \/ \E c \in Conns, r \in Rooms : Join(c, r)
  \/ \E c \in Conns, r \in Rooms : Leave(c, r)
  \/ \E c \in Conns : Disconnect(c)

Spec == Init /\ [][Next]_vars

---------------------------------------------------------------------------------

\* A broadcast names every connection that joined the room and has not left it, but
\* the sender, once each, however joins, leaves and disconnects were interleaved;
\* and a room exists only as long as someone is in it.
BroadcastsReachTheRoom ==
  /\ \A r \in Rooms, sender \in Conns :
       /\ IsInjective(Recipients(r, sender))
       /\ ToSet(Recipients(r, sender)) = {c \in Conns \ {sender} : <<c, r>> \in joined}
  /\ \A r \in DOMAIN rooms : rooms[r] # <<>>

=================================================================================
