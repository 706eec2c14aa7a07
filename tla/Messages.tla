------------------------------- MODULE Messages -----------------------------
(***************************************************************************)
(* What the servers read of a client's first bytes: a SOCKS5 message, or a *)
(* TLS ClientHello, of which the network has brought any number of bytes.  *)
(* SOCKS5 parses the one 'data' event it gets; the reverse server appends  *)
(* segments and asks isComplete() and parseSNI() of src/utils/sni again.   *)
(***************************************************************************)
EXTENDS Socks5Parse, Sni

CONSTANTS
  Extra,         \* bytes that may follow a message
  Spoilt         \* positions at which a ClientHello may be malformed

VARIABLES
  message,       \* what the client means
  length,        \* how many bytes that takes
  stream,        \* those bytes, and what follows them
  received,      \* how many of them have arrived
  malformed      \* one byte is not what a TLS client would send

messageVars == <<message, length, stream, received, malformed>>

Encode(m) == IF m.kind = "hello" THEN EncodeHello(m) ELSE EncodeSocks(m)

Buf == SubSeq(stream, 1, received)

Whole == message.kind # "none" /\ received >= length

MessagesInit ==
  /\ message = [kind |-> "none"]
  /\ length = 0
  /\ stream = <<>>
  /\ received = 0
  /\ malformed = FALSE

Compose ==
  /\ message.kind = "none"
  /\ message' \in Requests \cup Logins \cup Hellos
  /\ stream' = Encode(message')
  /\ length' = Len(stream')
  /\ UNCHANGED <<received, malformed>>

Spoil ==
  /\ message.kind = "hello"
  /\ received = 0
  /\ ~malformed
  /\ \E i \in Spoilt \cap DOMAIN stream, byte \in {0, 255} :
       /\ byte # stream[i]
       /\ stream' = [stream EXCEPT ![i] = byte]
  /\ malformed' = TRUE
  /\ UNCHANGED <<message, length, received>>

Receive ==
  /\ received < Len(stream)
  /\ received' = received + 1
  /\ UNCHANGED <<message, length, stream, malformed>>

(* A message that starts like a TLS record, or anything else.              *)
Follow ==
  /\ Whole
  /\ received = Len(stream)
  /\ received < length + Extra
  /\ \E byte \in {0, ContentTypeHandshake} : stream' = Append(stream, byte)
  /\ received' = received + 1
  /\ UNCHANGED <<message, length, malformed>>

MessagesNext == Compose \/ Spoil \/ Receive \/ Follow

MessagesSpec == MessagesInit /\ [][MessagesNext]_messageVars

-----------------------------------------------------------------------------
(* Properties.                                                             *)

(* A part of a SOCKS5 message is never taken for a shorter one, and a      *)
(* whole one is read as it was meant, whatever arrives behind it.          *)
ReadAsMeant ==
  /\ message.kind = "request" =>
       ParseRequest(Buf) =
         IF Whole THEN [ok |-> TRUE, host |-> message.host, port |-> message.port,
                        atyp |-> message.atyp]
         ELSE Null
  /\ message.kind = "login" =>
       ParseAuth(Buf) =
         IF Whole THEN [ok |-> TRUE, username |-> message.username,
                        password |-> message.password]
         ELSE Null

(* However a ClientHello is cut into records and segments, it is told from *)
(* other bytes by its first six, it is incomplete until its last byte is   *)
(* there, and then the name found is the one the client asked for.         *)
NameRead ==
  message.kind = "hello" /\ ~malformed =>
    /\ IsClientHello(Buf) <=> received > 5
    /\ IsComplete(Buf) <=> Whole
    /\ ParseSNI(Buf) = IF Whole THEN Meant(message) ELSE Null

(* Once the parser needs no more bytes, more bytes change nothing: the     *)
(* reverse server asks again with each segment, and a malformed ClientHello*)
(* must not become another one, nor a complete one incomplete.             *)
AnswerStable ==
  [][LET more == SubSeq(stream', 1, received')
     IN  IsComplete(Buf) => /\ IsComplete(more)
                            /\ ParseSNI(more) = ParseSNI(Buf)]_messageVars
=============================================================================
