-------------------------------- MODULE WsFrames --------------------------------
(***************************************************************************)
(* The WebSocket handshake and frame codec of daemon/src/websocket.rs,     *)
(* between a peer whose bytes arrive in any pieces and a reader that tries *)
(* to decode whenever some have come.                                      *)
(*                                                                         *)
(* A payload is its length.  A header line is a pair <<name, value>> in    *)
(* lower case, trimmed; SHA-1 and base64 stand for the key they take.      *)
(***************************************************************************)
EXTENDS Integers, Sequences, SequencesExt

CONSTANTS
  Requests,     \* upgrade requests: sequences of header lines, Blank ending them
  Codes,        \* opcodes that are sent
  Lengths       \* of payloads

VARIABLES
  peer,         \* "new", the Accept value it was given, or "refused"
  frame,        \* the frame on its way: [opcode, len, masked], or Nothing
  have,         \* how many of its bytes have arrived
  got           \* what the reader made of them: a frame, "more", an error, or Nothing

vars == <<peer, frame, have, got>>

Nothing == [is |-> "nothing"]
Blank == <<>>
TooLarge == 1048576

---------------------------------------------------------------------------------
\* Handshake

\* parse_upgrade_request: up to the first blank line, the last line of a name counts.
HeaderLines(req) ==
  LET blanks == {i \in DOMAIN req : req[i] = Blank}
  IN SubSeq(req, 1, Min(blanks \cup {Len(req) + 1}) - 1)
Header(req, name) ==
  LET at == {i \in DOMAIN HeaderLines(req) : req[i][1] = name}
  IN IF at = {} THEN "" ELSE req[Max(at)][2]

\* handshake_response and accept_key; an empty key is none.
Handshake(req) ==
  IF /\ Header(req, "upgrade") = "websocket"
     /\ Header(req, "connection") \in {"upgrade", "keep-alive, upgrade"}
     /\ Header(req, "sec-websocket-key") # ""
  THEN <<"sha1", Header(req, "sec-websocket-key")>> ELSE <<"refused">>

---------------------------------------------------------------------------------
\* Encoding

\* be_bytes of n, that many of them
BigEndian(n, bytes) == [i \in 1..bytes |-> IF bytes - i > 3 THEN 0 ELSE (n \div (256 ^ (bytes - i))) % 256]
FromBigEndian(bytes) == FoldLeft(LAMBDA n, b : n * 256 + b, 0, bytes)

\* Mutation: a length of 126 still goes into the seven bits.
LengthBytesLate(len) ==
  IF len < 127 THEN <<len>>
  ELSE IF len <= 65535 THEN <<126>> \o BigEndian(len, 2) ELSE <<127>> \o BigEndian(len, 8)

LengthBytes(len) ==
  IF len < 126 THEN <<len>>
  ELSE IF len <= 65535 THEN <<126>> \o BigEndian(len, 2) ELSE <<127>> \o BigEndian(len, 8)

\* encode_frame; a client sets the mask bit and adds four bytes.
HeadOf(f) ==
  LET bytes == LengthBytes(f.len)
      mask == IF f.masked THEN 128 ELSE 0
  IN <<128 + f.opcode, bytes[1] + mask>> \o Tail(bytes) \o (IF f.masked THEN <<17, 34, 51, 68>> ELSE <<>>)
Size(f) == Len(HeadOf(f)) + f.len

---------------------------------------------------------------------------------
\* decode_frame of a buffer that holds `count` bytes, the first of them `bytes`

Opcodes == {0, 1, 2, 8, 9, 10}
Err(what) == [is |-> "error", what |-> what]
More == [is |-> "more"]

Decoded(bytes, count) ==
  LET len7 == bytes[2] % 128
      masked == bytes[2] >= 128
      off == IF len7 = 126 THEN 4 ELSE IF len7 = 127 THEN 10 ELSE 2
      len == IF len7 < 126 THEN len7 ELSE FromBigEndian(SubSeq(bytes, 3, off))
      dataOff == off + (IF masked THEN 4 ELSE 0)
  IN IF count < 2 THEN More
     ELSE IF (bytes[1] % 16) \notin Opcodes THEN Err("bad opcode")
     ELSE IF count < off THEN More
     ELSE IF len > TooLarge THEN Err("frame too large")
     ELSE IF count < dataOff + len THEN More
     ELSE [is |-> "frame", opcode |-> bytes[1] % 16, len |-> len, off |-> dataOff, used |-> dataOff + len]

---------------------------------------------------------------------------------

Init == peer = <<"new">> /\ frame = Nothing /\ have = 0 /\ got = Nothing

\* ws_handshake
Connect(req) ==
  /\ peer = <<"new">>
  /\ peer' = Handshake(req)
  /\ UNCHANGED <<frame, have, got>>

Send(f) ==
  /\ peer[1] = "sha1" /\ frame = Nothing
  /\ frame' = f /\ have' = 0 /\ got' = Nothing
  /\ UNCHANGED peer

\* More bytes come, up to a place in the head or just before or at the end, and the
\* reader looks at all it has.
Payload == [i \in 1..14 |-> 0]     \* what it begins with
Pieces == 1..14 \cup {Size(frame) - 1, Size(frame)}
Arrive(count) ==
  /\ have < count /\ count <= Size(frame)
  /\ have' = count
  /\ got' = Decoded(SubSeq(HeadOf(frame) \o Payload, 1, Min({count, Len(HeadOf(frame) \o Payload)})), count)
  /\ UNCHANGED <<peer, frame>>

\* A decoded frame is cut off the buffer; an error ends the connection.
Done ==
  /\ got.is \in {"frame", "error"}
  /\ peer' = IF got.is = "error" THEN <<"new">> ELSE peer
  /\ frame' = Nothing /\ have' = 0 /\ got' = Nothing

Next ==
  \/ \E req \in Requests : Connect(req)
  \/ \E op \in Codes, len \in Lengths, masked \in BOOLEAN : Send([is |-> "frame", opcode |-> op, len |-> len, masked |-> masked])
  \/ frame # Nothing /\ got.is \notin {"frame", "error"} /\ \E count \in Pieces : Arrive(count)
  \/ Done

Spec == Init /\ [][Next]_vars

---------------------------------------------------------------------------------
\* Properties

\* In whatever pieces its bytes come, the reader has a frame exactly when the whole of
\* it is there, takes its opcode and length and cuts off its bytes and no more; only
\* an unknown opcode or a payload over one mebibyte is an error.
FramesAreWhole ==
  frame # Nothing =>
    /\ got.is = "frame" => /\ have = Size(frame) /\ got.used = have
                           /\ <<got.opcode, got.len, got.off>> = <<frame.opcode, frame.len, Len(HeadOf(frame))>>
    /\ got.is = "error" => frame.opcode \notin Opcodes \/ frame.len > TooLarge
    /\ have = Size(frame) => got.is # "more"
=================================================================================
