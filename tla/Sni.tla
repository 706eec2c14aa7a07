--------------------------------- MODULE Sni --------------------------------
(***************************************************************************)
(* src/utils/sni/index.js: how the reverse server reads the name a TLS     *)
(* client asks for.  A read past the end of a Buffer throws there; the     *)
(* exported functions catch it, and here it is a guard.                    *)
(***************************************************************************)
EXTENDS Buffers, FiniteSets, SequencesExt

CONSTANTS
  Fronts,          \* session ids, cipher suites and compression methods
  ExtensionLists,  \* the extensions of a ClientHello
  Cuts             \* where the handshake message is cut into TLS records

Entries == [type : Nat, name : Seq(Nat)]

Extensions ==
  [type : {0}, list : Seq(Entries)] \cup [type : Nat \ {0}, data : Seq(Nat)]

ASSUME SniAssumption ==
  /\ Fronts \subseteq [session : Seq(Nat), ciphers : Seq(Nat), compression : Seq(Nat)]
  /\ ExtensionLists \subseteq Seq(Extensions)
  /\ Cuts \subseteq SUBSET (Nat \ {0})

RecordHeaderSize == 5
HandshakeHeaderSize == 4
ContentTypeHandshake == 22
HandshakeClientHello == 1
ExtensionServerName == 0
NameTypeHostName == 0
RandomSize == 32

Found(name) == [ok |-> TRUE, name |-> name]

Smaller(a, b) == IF a < b THEN a ELSE b

-----------------------------------------------------------------------------
(* readHandshake(): the first handshake message, out of the records that   *)
(* carry it.                                                               *)

HeaderThere(buf, o) == o + RecordHeaderSize <= Len(buf)

BodyThere(buf, o) ==
  /\ HeaderThere(buf, o)
  /\ o + RecordHeaderSize + UInt16(buf, o + 3) <= Len(buf)

ShortIsBad(buf, o) ==                                \* seeded bug
  HeaderThere(buf, o) => At(buf, o) # ContentTypeHandshake \/ UInt16(buf, o + 3) = 0

BadRecord(buf, o) ==
  /\ HeaderThere(buf, o)
  /\ At(buf, o) # ContentTypeHandshake \/ UInt16(buf, o + 3) = 0

TotalKnown(body) == Len(body) >= HandshakeHeaderSize

Total(body) == HandshakeHeaderSize + UInt24(body, 1)

ReadHandshake(buf) ==
  LET Read[at \in [o : Nat, body : Seq(Nat)]] ==
        LET start == at.o + RecordHeaderSize
            end == start + UInt16(buf, at.o + 3)
        IN  IF TotalKnown(at.body) /\ Len(at.body) >= Total(at.body)
            THEN [state |-> "complete", message |-> Slice(at.body, 0, Total(at.body))]
            ELSE IF BadRecord(buf, at.o) THEN [state |-> "malformed"]
            ELSE IF BodyThere(buf, at.o)
                 THEN Read[[o |-> end, body |-> at.body \o Slice(buf, start, end)]]
            ELSE [state |-> "incomplete"]
  IN  Read[[o |-> 0, body |-> <<>>]]

-----------------------------------------------------------------------------
(* parseServerNameList(): the first host name of the list.                 *)
ParseServerNameList(data) ==
  LET end == Smaller(2 + UInt16(data, 0), Len(data))
      Name[o \in Nat] ==
        LET start == o + 3
            length == UInt16(data, o + 1)
        IN  IF o + 3 > end \/ start + length > end THEN Null
            ELSE IF At(data, o) = NameTypeHostName
                 THEN Found(Slice(data, start, start + length))
            ELSE Name[start + length]
  IN  IF Len(data) < 2 THEN Null ELSE Name[2]

(* The extensions: their total may claim more than there is.               *)
ExtensionsEnd(message, o) ==
  Smaller(o + 2 + UInt16(message, o), Len(message))

ServerName(message, from, end) ==
  LET Walk[o \in Nat] ==
        LET start == o + 4
            length == UInt16(message, o + 2)
        IN  IF o + 4 > end THEN Null
            ELSE IF UInt16(message, o) = ExtensionServerName
                 THEN ParseServerNameList(
                        Slice(message, start, Smaller(start + length, end)))
            ELSE Walk[start + length]
  IN  Walk[from]

(* parseClientHello(): the fields before the extensions are skipped.       *)
SessionAt == HandshakeHeaderSize + 2 + RandomSize

CiphersAt(message) == SessionAt + 1 + At(message, SessionAt)

CompressionUnprefixed(message) ==                    \* seeded bug
  CiphersAt(message) + UInt16(message, CiphersAt(message))

CompressionAt(message) ==
  CiphersAt(message) + 2 + UInt16(message, CiphersAt(message))

ExtensionsAt(message) ==
  CompressionAt(message) + 1 + At(message, CompressionAt(message))

HasExtensions(message) ==
  /\ SessionAt < Len(message)
  /\ CiphersAt(message) + 2 <= Len(message)
  /\ CompressionAt(message) < Len(message)
  /\ ExtensionsAt(message) + 2 <= Len(message)

ParseClientHello(message) ==
  IF At(message, 0) = HandshakeClientHello /\ HasExtensions(message)
  THEN LET o == ExtensionsAt(message)
       IN  ServerName(message, o + 2, ExtensionsEnd(message, o))
  ELSE Null

(* The exported functions.                                                 *)
IsClientHello(buf) ==
  Len(buf) > 5 /\ At(buf, 0) = 22 /\ At(buf, 1) = 3 /\ At(buf, 5) = 1

IsComplete(buf) == ReadHandshake(buf).state # "incomplete"

ParseSNI(buf) ==
  LET handshake == ReadHandshake(buf)
  IN  IF handshake.state = "complete" THEN ParseClientHello(handshake.message)
      ELSE Null

-----------------------------------------------------------------------------
(* What a TLS client sends (RFC 8446 and 6066): a ClientHello with its     *)
(* extensions, in one record or cut into several.                          *)

Hellos ==
  [kind : {"hello"}, front : Fronts, extensions : ExtensionLists, cuts : Cuts]

EncodeEntry(entry) == <<entry.type>> \o Prefixed16(entry.name)

EncodeList(list) == FlattenSeq([i \in DOMAIN list |-> EncodeEntry(list[i])])

EncodeExtension(extension) ==
  Write16(extension.type)
    \o Prefixed16(IF extension.type = ExtensionServerName
                  THEN Prefixed16(EncodeList(extension.list)) ELSE extension.data)

EncodeExtensions(extensions) ==
  IF extensions = <<>> THEN <<>>
  ELSE Prefixed16(FlattenSeq([i \in DOMAIN extensions |-> EncodeExtension(extensions[i])]))

EncodeFront(front) ==
  <<3, 3>> \o Bytes(RandomSize, 128) \o Prefixed8(front.session)
    \o Prefixed16(front.ciphers) \o Prefixed8(front.compression)

HelloMessage(h) ==
  <<HandshakeClientHello, 0>>
    \o Prefixed16(EncodeFront(h.front) \o EncodeExtensions(h.extensions))

Ascending(S) ==
  CHOOSE s \in SetToSeqs(S) : \A i, j \in DOMAIN s : i < j => s[i] < s[j]

EncodeHello(h) ==
  LET message == HelloMessage(h)
      ends == Ascending({c \in h.cuts : c < Len(message)} \cup {Len(message)})
      Piece(i) == Slice(message, IF i = 1 THEN 0 ELSE ends[i - 1], ends[i])
  IN  FlattenSeq([i \in DOMAIN ends |->
                    <<ContentTypeHandshake, 3, 1>> \o Prefixed16(Piece(i))])

(* The name the client means: the first host name of its server_name       *)
(* extension.  Both have the type 0.                                       *)
HasZero(s) == \E i \in DOMAIN s : s[i].type = 0

FirstZero(s) ==
  s[CHOOSE i \in DOMAIN s : s[i].type = 0 /\ \A j \in 1..(i - 1) : s[j].type # 0]

Meant(h) ==
  IF HasZero(h.extensions) /\ HasZero(FirstZero(h.extensions).list)
  THEN Found(FirstZero(FirstZero(h.extensions).list).name) ELSE Null
=============================================================================
