----------------------------- MODULE Socks5Parse ----------------------------
(***************************************************************************)
(* parseAddress() and parseAuth() of src/proxy/server/socks5/index.js, and *)
(* the checks the request listener makes with them.  Hosts and credentials *)
(* stay bytes: their formatting is not modelled.                           *)
(***************************************************************************)
EXTENDS Buffers

CONSTANTS
  Hosts,         \* lengths of domain names in the requests sent
  Names          \* lengths of user names and passwords in the messages sent

(* A length is one byte; RFC 1929 has no empty names, and the code refuses *)
(* domains of fewer than three bytes.                                      *)
ASSUME Socks5ParseAssumption == Hosts \subseteq 3..255 /\ Names \subseteq 1..255

Version == 5
Connect == 1
IPv4 == 1
Domain == 3
IPv6 == 4
MinRequestSize == 10
MinAuthSize == 5

-----------------------------------------------------------------------------
(* parseAddress(): where the host begins and the port stands.              *)

DomainIncomplete(buf) == Len(buf) < 5 + At(buf, 4) + 2

IPv6Incomplete(buf) == Len(buf) < 22

AddressKnown(buf) ==
  /\ Len(buf) >= MinRequestSize
  /\ \/ At(buf, 3) = IPv4
     \/ At(buf, 3) = Domain /\ ~DomainIncomplete(buf)
     \/ At(buf, 3) = IPv6 /\ ~IPv6Incomplete(buf)

HostOffset(buf) == IF At(buf, 3) = Domain THEN 5 ELSE 4

PortOffset(buf) ==
  IF At(buf, 3) = IPv4 THEN 8
  ELSE IF At(buf, 3) = Domain THEN 5 + At(buf, 4)
  ELSE 20

ParseAddress(buf) ==
  IF AddressKnown(buf)
  THEN [ok   |-> TRUE,
        host |-> Slice(buf, HostOffset(buf), PortOffset(buf)),
        port |-> UInt16(buf, PortOffset(buf)),
        atyp |-> At(buf, 3)]
  ELSE Null

(* The request listener: a CONNECT whose address parses.                   *)
ParseRequest(buf) ==
  IF Len(buf) > 1 /\ At(buf, 1) = Connect THEN ParseAddress(buf) ELSE Null

-----------------------------------------------------------------------------
(* parseAuth().                                                            *)

UserLength(buf) == At(buf, 1)

PassLength(buf) == At(buf, 2 + UserLength(buf))

PasswordUnchecked(buf) == FALSE                      \* seeded bug

PasswordIncomplete(buf) == Len(buf) < 3 + UserLength(buf) + PassLength(buf)

AuthKnown(buf) ==
  /\ Len(buf) >= MinAuthSize
  /\ Len(buf) >= 3 + UserLength(buf)
  /\ ~PasswordIncomplete(buf)

ParseAuth(buf) ==
  IF AuthKnown(buf)
  THEN LET u == UserLength(buf) IN
       [ok       |-> TRUE,
        username |-> Slice(buf, 2, 2 + u),
        password |-> Slice(buf, 3 + u, 3 + u + PassLength(buf))]
  ELSE Null

-----------------------------------------------------------------------------
(* The client's side of the protocol: what it sends (RFC 1928 and 1929).   *)

Address(atyp, host) ==
  [kind |-> "request", atyp |-> atyp, host |-> host, port |-> 443]

Requests ==
  {Address(IPv4, Bytes(4, 9)), Address(IPv6, Bytes(16, 9))}
    \cup {Address(Domain, Bytes(n, 97)) : n \in Hosts}

Logins ==
  {[kind |-> "login", username |-> Bytes(n, 97), password |-> Bytes(m, 64)]
     : n \in Names, m \in Names}

EncodeSocks(m) ==
  IF m.kind = "login"
  THEN <<1>> \o Prefixed8(m.username) \o Prefixed8(m.password)
  ELSE <<Version, Connect, 0, m.atyp>>
         \o (IF m.atyp = Domain THEN Prefixed8(m.host) ELSE m.host)
         \o Write16(m.port)
=============================================================================
