---------------------------- MODULE MessagesProofs --------------------------
(***************************************************************************)
(* Theorems about Messages.  SOCKS5, for names of every length a byte can  *)
(* hold: parseAddress() and parseAuth() at every prefix of what a client   *)
(* sends, and of what it sends behind that.  TLS, for every ClientHello,   *)
(* every way to cut it into records, and any byte of it spoilt.            *)
(***************************************************************************)
EXTENDS Messages, Induction

-----------------------------------------------------------------------------
(* Sequences.                                                              *)

(* What is sent is made of bytes.                                          *)
LEMMA BytesSeq ==
  ASSUME NEW n \in Nat, NEW b \in Nat
  PROVE  Bytes(n, b) \in Seq(Nat) /\ Len(Bytes(n, b)) = n
<1>1. Bytes(n, b) \in [1..n -> Nat]
  BY DEF Bytes
<1> QED BY <1>1

(* The bytes of a message of two parts.                                    *)
LEMMA Concatenated ==
  ASSUME NEW s \in Seq(Nat), NEW t \in Seq(Nat)
  PROVE  /\ s \o t \in Seq(Nat)
         /\ Len(s \o t) = Len(s) + Len(t)
         /\ \A i \in 1..Len(s) : (s \o t)[i] = s[i]
         /\ \A i \in 1..Len(t) : (s \o t)[Len(s) + i] = t[i]
BY ConcatProperties

LEMMA Prepended ==
  ASSUME NEW b \in Nat, NEW t \in Seq(Nat)
  PROVE  /\ <<b>> \o t \in Seq(Nat)
         /\ Len(<<b>> \o t) = 1 + Len(t)
         /\ (<<b>> \o t)[1] = b
         /\ \A i \in 1..Len(t) : (<<b>> \o t)[1 + i] = t[i]
<1>1. <<b>> \in Seq(Nat) /\ Len(<<b>>) = 1 /\ <<b>>[1] = b
  OBVIOUS
<1> QED BY <1>1, Concatenated

(* A slice of a buffer that holds a sequence from some place on.           *)
LEMMA Sliced ==
  ASSUME NEW buf \in Seq(Nat), NEW s \in Seq(Nat), NEW from \in Nat,
         from + Len(s) <= Len(buf), \A i \in 1..Len(s) : buf[from + i] = s[i]
  PROVE  Slice(buf, from, from + Len(s)) = s
<1> DEFINE to == from + Len(s)
           slice == SubSeq(buf, from + 1, to)
<1>1. Slice(buf, from, from + Len(s)) = slice
  <2>1. (IF to < Len(buf) THEN to ELSE Len(buf)) = to
    BY SMTT(30)
  <2> QED BY <2>1, Zenon DEF Slice
<1>2. Len(slice) = Len(s) /\ slice \in Seq(Nat)
      /\ \A i \in 1..Len(s) : slice[i] = buf[from + i]
  <2>1. from + 1 \in Int /\ to \in Int /\ \A i \in (from + 1)..to : buf[i] \in Nat
    OBVIOUS
  <2>2. /\ slice \in Seq(Nat)
        /\ Len(slice) = IF from + 1 <= to THEN to - (from + 1) + 1 ELSE 0
        /\ \A i \in 1..(to - (from + 1) + 1) : slice[i] = buf[(from + 1) + i - 1]
    BY <2>1, SubSeqProperties
  <2> QED BY <2>2
<1>3. slice = s
  BY <1>2, SeqEqual
<1> QED BY <1>1, <1>3

-----------------------------------------------------------------------------
(* The bytes of a login, and of a request: where each field stands.        *)

Login(u, w) == [kind |-> "login", username |-> u, password |-> w]

LoginFields(e, u, w) ==
  /\ e \in Seq(Nat) /\ Len(e) = 3 + Len(u) + Len(w)
  /\ e[2] = Len(u) /\ e[3 + Len(u)] = Len(w)
  /\ \A i \in 1..Len(u) : e[2 + i] = u[i]
  /\ \A i \in 1..Len(w) : e[3 + Len(u) + i] = w[i]

LEMMA LoginLayout ==
  ASSUME NEW u \in Seq(Nat), NEW w \in Seq(Nat)
  PROVE  LoginFields(EncodeSocks(Login(u, w)), u, w)
<1> DEFINE e == EncodeSocks(Login(u, w))
           user == <<Len(u)>> \o u
           pass == <<Len(w)>> \o w
           start == <<1>> \o user
<1>1. Len(u) \in Nat /\ Len(w) \in Nat
  OBVIOUS
<1>2. /\ user \in Seq(Nat) /\ Len(user) = 1 + Len(u) /\ user[1] = Len(u)
      /\ \A i \in 1..Len(u) : user[1 + i] = u[i]
  BY <1>1, Prepended
<1>3. /\ pass \in Seq(Nat) /\ Len(pass) = 1 + Len(w) /\ pass[1] = Len(w)
      /\ \A i \in 1..Len(w) : pass[1 + i] = w[i]
  BY <1>1, Prepended
<1> HIDE DEF user, pass
<1>4. /\ start \in Seq(Nat) /\ Len(start) = 2 + Len(u) /\ start[2] = Len(u)
      /\ \A i \in 1..Len(u) : start[2 + i] = u[i]
  <2>1. /\ start \in Seq(Nat) /\ Len(start) = 1 + Len(user)
        /\ \A i \in 1..Len(user) : start[1 + i] = user[i]
    BY <1>2, Prepended
  <2>2. start[1 + 1] = user[1] /\ \A i \in 1..Len(u) : start[1 + (1 + i)] = user[1 + i]
    BY <1>2, <2>1
  <2>3. \A i \in 1..Len(u) : 1 + (1 + i) = 2 + i
    OBVIOUS
  <2> QED BY <1>2, <2>1, <2>2, <2>3
<1> HIDE DEF start
<1>5. /\ start \o pass \in Seq(Nat) /\ Len(start \o pass) = Len(start) + Len(pass)
      /\ \A i \in 1..Len(start) : (start \o pass)[i] = start[i]
      /\ \A i \in 1..Len(pass) : (start \o pass)[Len(start) + i] = pass[i]
  BY <1>3, <1>4, Concatenated, ZenonT(60)
<1>6. e = start \o pass
  <2> DEFINE m == Login(u, w)
  <2>1. m.kind = "login" /\ m.username = u /\ m.password = w
    BY DEF Login
  <2> HIDE DEF m
  <2>2. EncodeSocks(m) = <<1>> \o Prefixed8(m.username) \o Prefixed8(m.password)
    BY <2>1, Zenon DEF EncodeSocks
  <2> QED BY <2>1, <2>2, Zenon DEF start, user, pass, Prefixed8, m
<1> HIDE DEF e
<1>7. e \in Seq(Nat) /\ Len(e) = 3 + Len(u) + Len(w) /\ e[2] = Len(u)
      /\ \A i \in 1..Len(u) : e[2 + i] = u[i]
  <2>1. e \in Seq(Nat) /\ Len(e) = 3 + Len(u) + Len(w)
    BY <1>1, <1>3, <1>4, <1>5, <1>6
  <2>2. \A i \in 1..Len(start) : e[i] = start[i]
    BY <1>5, <1>6
  <2>3. 2 \in 1..Len(start) /\ \A i \in 1..Len(u) : 2 + i \in 1..Len(start)
    BY <1>1, <1>4
  <2> QED BY <1>4, <2>1, <2>2, <2>3, Zenon
<1>8. e[2 + Len(u) + 1] = pass[1]
      /\ \A i \in 1..Len(w) : e[2 + Len(u) + (1 + i)] = pass[1 + i]
  <2>1. \A j \in 1..Len(pass) : e[2 + Len(u) + j] = pass[j]
    BY <1>4, <1>5, <1>6
  <2>2. 1 \in 1..Len(pass) /\ \A i \in 1..Len(w) : 1 + i \in 1..Len(pass)
    BY <1>3
  <2> QED BY <2>1, <2>2, Zenon
<1>9. 2 + Len(u) + 1 = 3 + Len(u)
      /\ \A i \in 1..Len(w) : 2 + Len(u) + (1 + i) = 3 + Len(u) + i
  OBVIOUS
<1>10. LoginFields(e, u, w)
  BY <1>3, <1>7, <1>8, <1>9 DEF LoginFields
<1> QED BY <1>10 DEF e

HostField(atyp, host) == IF atyp = Domain THEN Prefixed8(host) ELSE host

RequestFields(e, atyp, h) ==
  /\ e \in Seq(Nat) /\ Len(e) = 6 + Len(h) /\ e[2] = Connect /\ e[4] = atyp
  /\ \A i \in 1..Len(h) : e[4 + i] = h[i]
  /\ e[5 + Len(h)] * 256 + e[6 + Len(h)] = 443

LEMMA RequestLayout ==
  ASSUME NEW host \in Seq(Nat), NEW atyp \in Nat
  PROVE  RequestFields(EncodeSocks(Address(atyp, host)), atyp, HostField(atyp, host))
<1> DEFINE e == EncodeSocks(Address(atyp, host))
           h == IF atyp = Domain THEN Prefixed8(host) ELSE host
           start == <<Version, Connect, 0, atyp>>
           front == start \o h
           port == Write16(443)
<1>1. h \in Seq(Nat) /\ Len(h) \in Nat
  <2>1. Prefixed8(host) \in Seq(Nat)
    BY Prepended DEF Prefixed8
  <2> QED BY <2>1
<1>2. start \in Seq(Nat)
  BY DEF Version, Connect
<1>3. port \in Seq(Nat)
  BY DEF Write16
<1>4. Len(start) = 4 /\ start[2] = Connect /\ start[4] = atyp
  BY DEF Version, Connect
<1>5. Len(port) = 2 /\ port[1] * 256 + port[2] = 443
  BY DEF Write16
<1> HIDE DEF h, start, port
<1>6. /\ front \in Seq(Nat) /\ Len(front) = 4 + Len(h)
      /\ front[2] = Connect /\ front[4] = atyp
      /\ \A i \in 1..Len(h) : front[4 + i] = h[i]
  <2>1. /\ front \in Seq(Nat) /\ Len(front) = Len(start) + Len(h)
        /\ \A i \in 1..Len(start) : front[i] = start[i]
        /\ \A i \in 1..Len(h) : front[Len(start) + i] = h[i]
    BY <1>1, <1>2, Concatenated
  <2> HIDE DEF front
  <2> QED BY <1>4, <2>1
<1> HIDE DEF front
<1>7. /\ front \o port \in Seq(Nat) /\ Len(front \o port) = Len(front) + Len(port)
      /\ \A i \in 1..Len(front) : (front \o port)[i] = front[i]
      /\ \A i \in 1..Len(port) : (front \o port)[Len(front) + i] = port[i]
  <2>1. front \in Seq(Nat)
    BY <1>6
  <2> QED BY <1>3, <2>1, Concatenated
<1>8. e = front \o port
  <2> DEFINE m == Address(atyp, host)
  <2>1. m.kind # "login" /\ m.atyp = atyp /\ m.host = host /\ m.port = 443
    BY DEF Address
  <2> HIDE DEF m
  <2>2. EncodeSocks(m) =
          <<Version, Connect, 0, m.atyp>>
            \o (IF m.atyp = Domain THEN Prefixed8(m.host) ELSE m.host)
            \o Write16(m.port)
    BY <2>1, Zenon DEF EncodeSocks
  <2>3. EncodeSocks(m) = start \o h \o port
    BY <2>1, <2>2, ZenonT(60) DEF start, port, h
  <2> QED BY <2>3, Zenon DEF front, m
<1> HIDE DEF e
<1>9. /\ e \in Seq(Nat) /\ Len(e) = 6 + Len(h) /\ e[2] = Connect /\ e[4] = atyp
      /\ \A i \in 1..Len(h) : e[4 + i] = h[i]
  <2>1. e \in Seq(Nat) /\ Len(e) = 6 + Len(h)
    BY <1>1, <1>5, <1>6, <1>7, <1>8
  <2>2. \A i \in 1..Len(front) : e[i] = front[i]
    BY <1>7, <1>8
  <2>3. /\ 2 \in 1..Len(front) /\ 4 \in 1..Len(front)
        /\ \A i \in 1..Len(h) : 4 + i \in 1..Len(front)
    BY <1>1, <1>6
  <2> QED BY <1>6, <2>1, <2>2, <2>3, Zenon
<1>10. e[5 + Len(h)] = port[1] /\ e[6 + Len(h)] = port[2]
  <2>1. \A j \in 1..Len(port) : e[Len(front) + j] = port[j]
    BY <1>7, <1>8, Zenon
  <2>2. 1 \in 1..Len(port) /\ 2 \in 1..Len(port)
    BY <1>5
  <2>3. e[Len(front) + 1] = port[1] /\ e[Len(front) + 2] = port[2]
    BY <2>1, <2>2, Zenon
  <2>4. Len(front) + 1 = 5 + Len(h) /\ Len(front) + 2 = 6 + Len(h)
    BY <1>1, <1>6
  <2> QED BY <2>3, <2>4, Zenon
<1>11. RequestFields(e, atyp, h)
  BY <1>5, <1>9, <1>10 DEF RequestFields
<1> QED BY <1>11 DEF e, h, HostField

-----------------------------------------------------------------------------
(* The parsers, given the first bytes of a message, all of it, or more.    *)

Begins(buf, e) == \A i \in 1..Len(e) : i <= Len(buf) => buf[i] = e[i]

LEMMA LoginParsed ==
  ASSUME NEW u \in Seq(Nat), NEW w \in Seq(Nat), Len(u) >= 1, Len(w) >= 1,
         NEW e, LoginFields(e, u, w), NEW buf \in Seq(Nat), Begins(buf, e)
  PROVE  ParseAuth(buf) = IF Len(buf) >= Len(e)
                          THEN [ok |-> TRUE, username |-> u, password |-> w] ELSE Null
<1> DEFINE n == Len(u)
           k == Len(w)
           size == Len(buf)
<1>1. n \in Nat /\ k \in Nat /\ n >= 1 /\ k >= 1 /\ size \in Nat
  OBVIOUS
<1>2. Len(e) = 3 + n + k /\ e[2] = n /\ e[3 + n] = k
  BY DEF LoginFields
<1>3. \A i \in 1..n : e[2 + i] = u[i]
  BY DEF LoginFields
<1>4. \A i \in 1..k : e[3 + n + i] = w[i]
  BY DEF LoginFields
<1>5. \A i \in 1..Len(e) : i <= size => buf[i] = e[i]
  BY DEF Begins
<1> HIDE DEF n, k, size
<1>6. size >= 2 => UserLength(buf) = n
  <2>1. ASSUME size >= 2 PROVE buf[2] = e[2]
    <3>1. 2 \in 1..Len(e) /\ 2 <= size
      BY <1>1, <1>2, <2>1
    <3> QED BY <1>5, <3>1
  <2> QED BY <1>2, <2>1 DEF UserLength, At
<1>7. size >= 3 + n => PassLength(buf) = k
  <2>1. ASSUME size >= 3 + n PROVE buf[3 + n] = e[3 + n]
    <3>1. 3 + n \in 1..Len(e) /\ 3 + n <= size
      BY <1>1, <1>2, <2>1
    <3> QED BY <1>5, <3>1
  <2>2. 2 + n + 1 = 3 + n /\ (size >= 3 + n => size >= 2)
    BY <1>1
  <2> QED BY <1>2, <1>6, <2>1, <2>2 DEF PassLength, At
<1>8. AuthKnown(buf) <=> size >= Len(e)
  <2>1. AuthKnown(buf) <=>
          size >= 5 /\ size >= 3 + UserLength(buf)
            /\ ~(size < 3 + UserLength(buf) + PassLength(buf))
    BY DEF AuthKnown, PasswordIncomplete, MinAuthSize, size
  <2> QED BY <1>1, <1>2, <1>6, <1>7, <2>1, SMTT(30)
<1>9. CASE size >= Len(e)
  <2>1. \A i \in 1..Len(e) : buf[i] = e[i]
    BY <1>1, <1>2, <1>5, <1>9
  <2>2. Slice(buf, 2, 2 + n) = u
    <3>1. \A i \in 1..n : 2 + i \in 1..Len(e)
      BY <1>1, <1>2
    <3>2. \A i \in 1..n : buf[2 + i] = u[i]
      BY <1>3, <2>1, <3>1, Zenon
    <3>3. 2 + n <= size
      BY <1>1, <1>2, <1>9
    <3> QED BY <3>2, <3>3, Sliced DEF n, size
  <2>3. Slice(buf, 3 + n, 3 + n + k) = w
    <3>1. \A i \in 1..k : 3 + n + i \in 1..Len(e)
      BY <1>1, <1>2
    <3>2. \A i \in 1..k : buf[3 + n + i] = w[i]
      BY <1>4, <2>1, <3>1, Zenon
    <3>3. 3 + n + k <= size /\ 3 + n \in Nat
      BY <1>1, <1>2, <1>9
    <3> QED BY <3>2, <3>3, Sliced DEF k, size
  <2>4. UserLength(buf) = n /\ PassLength(buf) = k
    <3>1. size >= 2 /\ size >= 3 + n
      BY <1>1, <1>2, <1>9
    <3> QED BY <1>6, <1>7, <3>1
  <2>5. AuthKnown(buf)
    BY <1>8, <1>9
  <2> QED BY <1>9, <2>2, <2>3, <2>4, <2>5, Zenon DEF ParseAuth, size
<1>10. CASE ~(size >= Len(e))
  BY <1>8, <1>10, Zenon DEF ParseAuth, size
<1> QED BY <1>9, <1>10

(* Where the host stands in a request, and what is behind it.              *)
HostStart(atyp) == IF atyp = Domain THEN 5 ELSE 4

Located(e, start, host) ==
  /\ Len(e) = start + Len(host) + 2
  /\ \A i \in 1..Len(host) : e[start + i] = host[i]
  /\ e[start + Len(host) + 1] * 256 + e[start + Len(host) + 2] = 443

LEMMA HostFound ==
  ASSUME NEW host \in Seq(Nat), NEW atyp \in {IPv4, Domain, IPv6},
         NEW e, RequestFields(e, atyp, HostField(atyp, host))
  PROVE  Located(e, HostStart(atyp), host) /\ (atyp = Domain => e[5] = Len(host))
<1> DEFINE start == HostStart(atyp)
           h == HostField(atyp, host)
           n == Len(host)
<1>1. n \in Nat
  OBVIOUS
<1>2. Len(e) = 6 + Len(h) /\ e[5 + Len(h)] * 256 + e[6 + Len(h)] = 443
  BY DEF RequestFields
<1>3. \A i \in 1..Len(h) : e[4 + i] = h[i]
  BY DEF RequestFields
<1> HIDE DEF n
<1>4. CASE atyp = Domain
  <2>1. h = <<n>> \o host
    BY <1>4 DEF HostField, Prefixed8, n
  <2>2. Len(h) = 1 + n /\ h[1] = n
    BY <1>1, <2>1, Prepended DEF n
  <2>3. \A i \in 1..n : h[1 + i] = host[i]
    BY <1>1, <2>1, Prepended DEF n
  <2> HIDE DEF h
  <2>4. e[4 + 1] = h[1]
    BY <1>1, <1>3, <2>2
  <2>5. \A i \in 1..n : e[5 + i] = host[i]
    <3>1. \A i \in 1..n : 1 + i \in 1..Len(h) /\ 4 + (1 + i) = 5 + i
      BY <1>1, <2>2
    <3>2. \A i \in 1..n : e[4 + (1 + i)] = h[1 + i]
      BY <1>3, <3>1, Zenon
    <3>3. \A i \in 1..n : e[5 + i] = h[1 + i]
      BY <3>1, <3>2, Zenon
    <3> QED BY <2>3, <3>3, Zenon
  <2>6. 6 + Len(h) = start + n + 2 /\ 5 + Len(h) = start + n + 1 /\ start = 5
    BY <1>1, <1>4, <2>2 DEF HostStart
  <2> QED BY <1>2, <1>4, <2>2, <2>4, <2>5, <2>6 DEF n, Located
<1>5. CASE atyp # Domain
  <2>1. h = host
    BY <1>5 DEF HostField
  <2>2. start = 4 /\ 6 + n = start + n + 2 /\ 5 + n = start + n + 1
    BY <1>1, <1>5 DEF HostStart
  <2> QED BY <1>2, <1>3, <1>5, <2>1, <2>2 DEF n, Located
<1> QED BY <1>4, <1>5

LEMMA RequestParsed ==
  ASSUME NEW host \in Seq(Nat), NEW atyp \in {IPv4, Domain, IPv6},
         atyp = IPv4 => Len(host) = 4, atyp = IPv6 => Len(host) = 16,
         atyp = Domain => Len(host) >= 3,
         NEW e, RequestFields(e, atyp, HostField(atyp, host)),
         NEW buf \in Seq(Nat), Begins(buf, e)
  PROVE  ParseRequest(buf) =
           IF Len(buf) >= Len(e)
           THEN [ok |-> TRUE, host |-> host, port |-> 443, atyp |-> atyp] ELSE Null
<1> DEFINE n == Len(host)
           start == HostStart(atyp)
           port == start + n
           size == Len(buf)
<1>1. n \in Nat /\ size \in Nat /\ start \in {4, 5}
  BY DEF HostStart
<1>2. /\ atyp = IPv4 => start = 4 /\ n = 4
      /\ atyp = IPv6 => start = 4 /\ n = 16
      /\ atyp = Domain => start = 5 /\ n >= 3
  BY DEF IPv4, Domain, IPv6, HostStart
<1>3. Located(e, start, host) /\ (atyp = Domain => e[5] = n)
  BY HostFound
<1> HIDE DEF start
<1>4. Len(e) = start + n + 2
  BY <1>3 DEF Located
<1>5. \A i \in 1..n : e[start + i] = host[i]
  BY <1>3 DEF Located
<1>6. e[start + n + 1] * 256 + e[start + n + 2] = 443
  BY <1>3 DEF Located
<1>7. e[2] = Connect /\ e[4] = atyp
  BY DEF RequestFields
<1>8. \A i \in 1..Len(e) : i <= size => buf[i] = e[i]
  BY DEF Begins
<1> HIDE DEF n, size
<1>9. port \in Nat /\ Len(e) = port + 2 /\ Len(e) >= 10
  BY <1>1, <1>2, <1>4 DEF IPv4, Domain, IPv6
<1> HIDE DEF port
<1>10. size > 1 => At(buf, 1) = Connect
  <2>1. ASSUME size > 1 PROVE buf[2] = e[2]
    <3>1. 2 \in 1..Len(e) /\ 2 <= size
      BY <1>1, <1>9, <2>1
    <3> QED BY <1>8, <3>1
  <2> QED BY <1>7, <2>1 DEF At
<1>11. size >= 10 => At(buf, 3) = atyp /\ (atyp = Domain => At(buf, 4) = n)
  <2>1. ASSUME size >= 10 PROVE buf[4] = e[4] /\ buf[5] = e[5]
    <3>1. 4 \in 1..Len(e) /\ 5 \in 1..Len(e) /\ 4 <= size /\ 5 <= size
      BY <1>1, <1>9, <2>1
    <3> QED BY <1>8, <3>1
  <2> QED BY <1>3, <1>7, <2>1, SMTT(30) DEF At
<1>12. AddressKnown(buf) <=> size >= Len(e)
  <2>1. AddressKnown(buf) <=>
          /\ size >= 10
          /\ \/ At(buf, 3) = IPv4
             \/ At(buf, 3) = Domain /\ ~(size < 5 + At(buf, 4) + 2)
             \/ At(buf, 3) = IPv6 /\ ~(size < 22)
    BY DEF AddressKnown, DomainIncomplete, IPv6Incomplete, MinRequestSize, size
  <2>2. CASE size >= 10
    <3>1. AddressKnown(buf) <=>
            \/ atyp = IPv4
            \/ atyp = Domain /\ ~(size < 5 + n + 2)
            \/ atyp = IPv6 /\ ~(size < 22)
      BY <1>11, <2>1, <2>2
    <3> QED BY <1>1, <1>2, <1>4, <2>2, <3>1 DEF IPv4, Domain, IPv6
  <2>3. CASE ~(size >= 10)
    BY <1>1, <1>9, <2>1, <2>3
  <2> QED BY <2>2, <2>3
<1>13. CASE size >= Len(e)
  <2>1. size >= 10 /\ size > 1
    BY <1>1, <1>9, <1>13
  <2>2. At(buf, 1) = Connect /\ At(buf, 3) = atyp /\ AddressKnown(buf)
    BY <1>10, <1>11, <1>12, <1>13, <2>1
  <2>3. HostOffset(buf) = start
    BY <2>2 DEF HostOffset, HostStart, start
  <2>4. PortOffset(buf) = port
    <3>1. CASE atyp = Domain
      <4>1. At(buf, 4) = n /\ start = 5
        BY <1>2, <1>11, <2>1, <3>1
      <4>2. At(buf, 3) # IPv4 /\ At(buf, 3) = Domain
        BY <2>2, <3>1 DEF IPv4, Domain
      <4> QED BY <4>1, <4>2 DEF PortOffset, port
    <3>2. CASE atyp = IPv4
      BY <1>2, <2>2, <3>2 DEF PortOffset, port
    <3>3. CASE atyp = IPv6
      BY <1>2, <2>2, <3>3 DEF PortOffset, port, IPv4, Domain, IPv6
    <3> QED BY <3>1, <3>2, <3>3
  <2>5. \A i \in 1..Len(e) : buf[i] = e[i]
    BY <1>1, <1>8, <1>9, <1>13
  <2>6. Slice(buf, start, port) = host
    <3>1. \A i \in 1..n : start + i \in 1..Len(e)
      BY <1>1, <1>4
    <3>2. \A i \in 1..n : buf[start + i] = host[i]
      BY <1>5, <2>5, <3>1, Zenon
    <3>3. start + n <= size /\ start \in Nat
      BY <1>1, <1>4, <1>13
    <3> QED BY <3>2, <3>3, Sliced DEF n, size, port
  <2>7. UInt16(buf, port) = 443
    <3>1. port + 1 \in 1..Len(e) /\ port + 2 \in 1..Len(e) /\ port + 1 + 1 = port + 2
      BY <1>9
    <3>2. buf[port + 1] = e[port + 1] /\ buf[port + 2] = e[port + 2]
      BY <2>5, <3>1, Zenon
    <3>3. e[port + 1] * 256 + e[port + 2] = 443
      BY <1>6 DEF port
    <3> QED BY <3>1, <3>2, <3>3 DEF UInt16, At
  <2>8. Len(buf) > 1 /\ Len(buf) >= Len(e)
    BY <1>13, <2>1 DEF size
  <2> QED BY <2>2, <2>3, <2>4, <2>6, <2>7, <2>8, Zenon DEF ParseRequest, ParseAddress
<1>14. CASE ~(size >= Len(e))
  BY <1>12, <1>14, Zenon DEF ParseRequest, ParseAddress, size
<1> QED BY <1>13, <1>14

-----------------------------------------------------------------------------
(* What the clients of SOCKS5 send, and how it is read.                    *)

LEMMA SocksMessage ==
  ASSUME NEW m \in Requests \cup Logins
  PROVE  \/ \E atyp \in {IPv4, Domain, IPv6}, host \in Seq(Nat) :
              /\ m = Address(atyp, host)
              /\ atyp = IPv4 => Len(host) = 4
              /\ atyp = IPv6 => Len(host) = 16
              /\ atyp = Domain => Len(host) >= 3
         \/ \E u \in Seq(Nat), w \in Seq(Nat) :
              m = Login(u, w) /\ Len(u) >= 1 /\ Len(w) >= 1
<1>1. CASE m = Address(IPv4, Bytes(4, 9))
  <2>1. Bytes(4, 9) \in Seq(Nat) /\ Len(Bytes(4, 9)) = 4
    BY BytesSeq
  <2> QED BY <1>1, <2>1 DEF IPv4, Domain, IPv6
<1>2. CASE m = Address(IPv6, Bytes(16, 9))
  <2>1. Bytes(16, 9) \in Seq(Nat) /\ Len(Bytes(16, 9)) = 16
    BY BytesSeq
  <2> QED BY <1>2, <2>1 DEF IPv4, Domain, IPv6
<1>3. CASE \E n \in Hosts : m = Address(Domain, Bytes(n, 97))
  <2>1. PICK n \in Hosts : m = Address(Domain, Bytes(n, 97))
    BY <1>3
  <2>2. n \in Nat /\ n >= 3
    BY Socks5ParseAssumption
  <2>3. Bytes(n, 97) \in Seq(Nat) /\ Len(Bytes(n, 97)) = n
    BY <2>2, BytesSeq, SMTT(30)
  <2> QED BY <2>1, <2>2, <2>3 DEF IPv4, Domain, IPv6
<1>4. CASE m \in Logins
  <2>1. PICK n \in Names, k \in Names : m = Login(Bytes(n, 97), Bytes(k, 64))
    BY <1>4 DEF Logins, Login
  <2>2. n \in Nat /\ n >= 1 /\ k \in Nat /\ k >= 1
    BY Socks5ParseAssumption
  <2>3. /\ Bytes(n, 97) \in Seq(Nat) /\ Len(Bytes(n, 97)) = n
        /\ Bytes(k, 64) \in Seq(Nat) /\ Len(Bytes(k, 64)) = k
    BY <2>2, BytesSeq, ZenonT(60)
  <2> QED BY <2>1, <2>2, <2>3, ZenonT(60)
<1> QED BY <1>1, <1>2, <1>3, <1>4 DEF Requests

LEMMA SocksRead ==
  ASSUME NEW m \in Requests \cup Logins,
         NEW buf \in Seq(Nat), Begins(buf, EncodeSocks(m))
  PROVE  /\ EncodeSocks(m) \in Seq(Nat)
         /\ m.kind = "request" =>
              ParseRequest(buf) =
                IF Len(buf) >= Len(EncodeSocks(m))
                THEN [ok |-> TRUE, host |-> m.host, port |-> m.port, atyp |-> m.atyp]
                ELSE Null
         /\ m.kind = "login" =>
              ParseAuth(buf) =
                IF Len(buf) >= Len(EncodeSocks(m))
                THEN [ok |-> TRUE, username |-> m.username, password |-> m.password]
                ELSE Null
         /\ m.kind \in {"request", "login"}
<1>1. ASSUME NEW atyp \in {IPv4, Domain, IPv6}, NEW host \in Seq(Nat),
             m = Address(atyp, host), atyp = IPv4 => Len(host) = 4,
             atyp = IPv6 => Len(host) = 16, atyp = Domain => Len(host) >= 3
      PROVE  /\ m.kind = "request" /\ EncodeSocks(m) \in Seq(Nat)
             /\ ParseRequest(buf) =
                  IF Len(buf) >= Len(EncodeSocks(m))
                  THEN [ok |-> TRUE, host |-> m.host, port |-> m.port, atyp |-> m.atyp]
                  ELSE Null
  <2>1. m.kind = "request" /\ m.host = host /\ m.port = 443 /\ m.atyp = atyp
    BY <1>1 DEF Address
  <2>2. atyp \in Nat
    BY DEF IPv4, Domain, IPv6
  <2>3. RequestFields(EncodeSocks(m), atyp, HostField(atyp, host))
    BY <1>1, <2>2, RequestLayout
  <2>4. ParseRequest(buf) =
          IF Len(buf) >= Len(EncodeSocks(m))
          THEN [ok |-> TRUE, host |-> host, port |-> 443, atyp |-> atyp] ELSE Null
    BY <1>1, <2>3, RequestParsed
  <2>5. EncodeSocks(m) \in Seq(Nat)
    BY <2>3, Zenon DEF RequestFields
  <2> QED BY <2>1, <2>4, <2>5, ZenonT(60)
<1>2. ASSUME NEW u \in Seq(Nat), NEW w \in Seq(Nat), m = Login(u, w),
             Len(u) >= 1, Len(w) >= 1
      PROVE  /\ m.kind = "login" /\ EncodeSocks(m) \in Seq(Nat)
             /\ ParseAuth(buf) =
                  IF Len(buf) >= Len(EncodeSocks(m))
                  THEN [ok |-> TRUE, username |-> m.username, password |-> m.password]
                  ELSE Null
  <2>1. m.kind = "login" /\ m.username = u /\ m.password = w
    BY <1>2 DEF Login
  <2>2. LoginFields(EncodeSocks(m), u, w)
    BY <1>2, LoginLayout
  <2>3. ParseAuth(buf) = IF Len(buf) >= Len(EncodeSocks(m))
                         THEN [ok |-> TRUE, username |-> u, password |-> w] ELSE Null
    BY <1>2, <2>2, LoginParsed
  <2> QED BY <2>1, <2>2, <2>3, Zenon DEF LoginFields
<1> QED BY <1>1, <1>2, SocksMessage

(* The stream begins with the message the client means.                    *)
Sent ==
  /\ message.kind = "none" => received = 0 /\ stream = <<>>
  /\ message.kind \in {"request", "login"} =>
       /\ message \in Requests \cup Logins
       /\ length = Len(EncodeSocks(message))
       /\ stream \in Seq(Nat) /\ received \in 0..Len(stream)
       /\ length <= Len(stream) /\ Begins(stream, EncodeSocks(message))

LEMMA Composes ==
  ASSUME Sent, Compose PROVE Sent'
<1>1. message.kind = "none" /\ received' = received /\ received = 0
  BY DEF Compose, Sent
<1>2. /\ message' \in Requests \cup Logins \cup Hellos
      /\ stream' = Encode(message') /\ length' = Len(stream')
  BY DEF Compose
<1>3. CASE message' \in Hellos
  <2>1. message'.kind = "hello"
    BY <1>3 DEF Hellos
  <2> QED BY <2>1 DEF Sent
<1>4. CASE message' \in Requests \cup Logins
  <2>1. PICK m \in Requests \cup Logins : m = message'
    BY <1>4
  <2>2. <<>> \in Seq(Nat) /\ Begins(<<>>, EncodeSocks(m))
    BY DEF Begins
  <2>3. EncodeSocks(m) \in Seq(Nat) /\ m.kind \in {"request", "login"}
    BY <2>2, SocksRead
  <2>4. stream' = EncodeSocks(m)
    BY <1>2, <2>1, <2>3 DEF Encode
  <2>5. Begins(EncodeSocks(m), EncodeSocks(m))
    BY DEF Begins
  <2> QED BY <1>1, <1>2, <2>1, <2>3, <2>4, <2>5 DEF Sent
<1> QED BY <1>2, <1>3, <1>4

LEMMA Receives ==
  ASSUME Sent, Receive PROVE Sent'
<1>1. UNCHANGED <<message, length, stream>> /\ received < Len(stream)
      /\ received' = received + 1
  BY DEF Receive
<1>2. CASE message.kind = "none"
  BY <1>1, <1>2 DEF Sent
<1>3. CASE message.kind \in {"request", "login"}
  <2>1. Len(stream) \in Nat /\ received \in 0..Len(stream)
    BY <1>3 DEF Sent
  <2>2. received' \in 0..Len(stream)
    BY <1>1, <2>1
  <2> QED BY <1>1, <1>3, <2>2 DEF Sent, Begins
<1> QED BY <1>1, <1>2, <1>3 DEF Sent

LEMMA Follows ==
  ASSUME Sent, Follow PROVE Sent'
<1>1. /\ UNCHANGED <<message, length>> /\ message.kind # "none"
      /\ received = Len(stream) /\ received' = received + 1
  BY DEF Follow, Whole
<1>2. CASE message.kind \in {"request", "login"}
  <2> DEFINE e == EncodeSocks(message)
  <2>1. /\ stream \in Seq(Nat) /\ message \in Requests \cup Logins /\ length = Len(e)
        /\ Len(e) <= Len(stream) /\ Begins(stream, e)
    BY <1>2 DEF Sent
  <2>2. PICK byte \in Nat : stream' = Append(stream, byte)
    BY DEF Follow, ContentTypeHandshake
  <2>3. /\ stream' \in Seq(Nat) /\ Len(stream') = Len(stream) + 1
        /\ \A i \in 1..Len(stream) : stream'[i] = stream[i]
    BY <2>1, <2>2, AppendProperties
  <2>4. e \in Seq(Nat)
    BY <2>1, SocksRead
  <2>5. e' = e
    BY <1>1
  <2> HIDE DEF e
  <2>6. Begins(stream', e)
    <3>1. Len(e) \in Nat /\ Len(stream) \in Nat
      BY <2>1, <2>4
    <3>2. \A i \in 1..Len(e) : i \in 1..Len(stream) /\ i <= Len(stream)
      BY <2>1, <3>1
    <3>3. \A i \in 1..Len(e) : stream[i] = e[i]
      BY <2>1, <3>2, Zenon DEF Begins
    <3>4. \A i \in 1..Len(e) : stream'[i] = e[i]
      BY <2>3, <3>2, <3>3, Zenon
    <3> QED BY <3>4, Zenon DEF Begins
  <2>7. received' \in 0..Len(stream') /\ Len(e) <= Len(stream')
    BY <1>1, <2>1, <2>3, <2>4
  <2> QED BY <1>1, <1>2, <2>1, <2>3, <2>6, <2>7 DEF Sent, e
<1> QED BY <1>1, <1>2 DEF Sent

LEMMA SentStep ==
  ASSUME Sent, [MessagesNext]_messageVars PROVE Sent'
<1>1. CASE Spoil
  <2>1. message'.kind = "hello"
    BY <1>1 DEF Spoil
  <2> QED BY <2>1 DEF Sent
<1>2. CASE UNCHANGED messageVars
  BY <1>2 DEF messageVars, Sent, Begins
<1> QED BY <1>1, <1>2, Composes, Receives, Follows DEF MessagesNext

LEMMA SentMeansRead ==
  ASSUME Sent PROVE ReadAsMeant
<1>1. CASE message.kind \in {"request", "login"}
  <2> DEFINE e == EncodeSocks(message)
             buf == SubSeq(stream, 1, received)
  <2>1. /\ stream \in Seq(Nat) /\ message \in Requests \cup Logins /\ length = Len(e)
        /\ received \in 0..Len(stream) /\ Begins(stream, e)
    BY <1>1 DEF Sent
  <2>2. e \in Seq(Nat)
    BY <2>1, SocksRead
  <2>3. /\ buf \in Seq(Nat) /\ Len(buf) = received
        /\ \A i \in 1..received : buf[i] = stream[i]
    <3>1. \A i \in 1..received : stream[i] \in Nat
      BY <2>1
    <3>2. 1 \in Int /\ received \in Int
      BY <2>1
    <3> QED BY <2>1, <3>1, <3>2, SubSeqProperties
  <2>4. Begins(buf, e)
    <3> HIDE DEF e, buf
    <3>1. Len(e) \in Nat /\ Len(stream) \in Nat
      BY <2>1, <2>2
    <3>2. \A i \in 1..Len(e) : i <= Len(buf) => i \in 1..received /\ i <= Len(stream)
      BY <2>1, <2>3, <3>1
    <3> QED BY <2>1, <2>3, <3>2, Zenon DEF Begins
  <2>5. Whole <=> Len(buf) >= Len(e)
    BY <1>1, <2>1, <2>3 DEF Whole
  <2>6. /\ message.kind = "request" =>
             ParseRequest(buf) =
               IF Len(buf) >= Len(e)
               THEN [ok |-> TRUE, host |-> message.host, port |-> message.port,
                     atyp |-> message.atyp]
               ELSE Null
        /\ message.kind = "login" =>
             ParseAuth(buf) =
               IF Len(buf) >= Len(e)
               THEN [ok |-> TRUE, username |-> message.username,
                     password |-> message.password]
               ELSE Null
    BY <2>1, <2>3, <2>4, SocksRead
  <2>7. Buf = buf
    BY DEF Buf
  <2> HIDE DEF e, buf
  <2> QED BY <2>5, <2>6, <2>7, Zenon DEF ReadAsMeant
<1>2. CASE message.kind \notin {"request", "login"}
  BY <1>2 DEF ReadAsMeant
<1> QED BY <1>1, <1>2

(* socks5/index.js:58-129.  For every length of a domain, a user name and  *)
(* a password that the protocol allows and the code accepts, a part of a   *)
(* message is never taken for a shorter one, and a whole message is read   *)
(* as it was meant, whatever arrives behind it.                            *)
THEOREM MessagesReadAsMeant == MessagesSpec => []ReadAsMeant
<1>1. MessagesInit => Sent
  BY DEF MessagesInit, Sent
<1>2. Sent /\ [MessagesNext]_messageVars => Sent'
  BY SentStep
<1>3. Sent => ReadAsMeant
  BY SentMeansRead
<1> QED BY <1>1, <1>2, <1>3, PTL DEF MessagesSpec

-----------------------------------------------------------------------------
(* What a TLS client sends is a sequence of bytes.                         *)

LEMMA Spliced ==
  ASSUME NEW buf \in Seq(Nat), NEW from \in Nat, NEW to \in Nat
  PROVE  Slice(buf, from, to) \in Seq(Nat)
<1>1. from + 1 \in Int /\ Smaller(to, Len(buf)) \in 0..Len(buf)
  BY DEF Smaller
<1>2. \A i \in (from + 1)..Smaller(to, Len(buf)) : buf[i] \in Nat
  BY <1>1
<1>3. SubSeq(buf, from + 1, Smaller(to, Len(buf))) \in Seq(Nat)
  BY <1>1, <1>2, SubSeqProperties
<1> QED BY <1>3, Zenon DEF Slice, Smaller

LEMMA Prefixed ==
  ASSUME NEW s \in Seq(Nat)
  PROVE  /\ Prefixed8(s) \in Seq(Nat) /\ Len(Prefixed8(s)) = 1 + Len(s)
         /\ Prefixed16(s) \in Seq(Nat) /\ Len(Prefixed16(s)) = 2 + Len(s)
<1>1. Len(s) \in Nat /\ Len(s) \div 256 \in Nat /\ Len(s) % 256 \in Nat
  OBVIOUS
<1>2. Write16(Len(s)) \in Seq(Nat) /\ Len(Write16(Len(s))) = 2
  BY <1>1 DEF Write16
<1>3. Prefixed16(s) \in Seq(Nat) /\ Len(Prefixed16(s)) = 2 + Len(s)
  <2> DEFINE w == Write16(Len(s))
  <2>1. w \in Seq(Nat) /\ Len(w) = 2
    BY <1>2
  <2> HIDE DEF w
  <2>2. w \o s \in Seq(Nat) /\ Len(w \o s) = Len(w) + Len(s)
    BY <2>1, Concatenated
  <2> QED BY <2>1, <2>2 DEF w, Prefixed16
<1> QED BY <1>1, <1>3, Prepended DEF Prefixed8

LEMMA TwoBytes ==
  ASSUME NEW n \in Nat
  PROVE  /\ n \div 256 \in Nat /\ n % 256 \in Nat
         /\ (n \div 256) * 256 + (n % 256) = n
OBVIOUS

LEMMA EntryBytes ==
  ASSUME NEW entry \in Entries
  PROVE  EncodeEntry(entry) \in Seq(Nat)
<1>1. entry.type \in Nat /\ Prefixed16(entry.name) \in Seq(Nat)
  BY Prefixed DEF Entries
<1> QED BY <1>1, Prepended DEF EncodeEntry

LEMMA ListBytes ==
  ASSUME NEW list \in Seq(Entries)
  PROVE  EncodeList(list) \in Seq(Nat)
<1> DEFINE s == [i \in DOMAIN list |-> EncodeEntry(list[i])]
<1>1. \A i \in 1..Len(list) : EncodeEntry(list[i]) \in Seq(Nat)
  BY EntryBytes
<1>2. s \in Seq(Seq(Nat))
  BY <1>1
<1> HIDE DEF s
<1>3. FlattenSeq(s) \in Seq(Nat)
  BY <1>2, FlattenSequence
<1> QED BY <1>3, Zenon DEF s, EncodeList

LEMMA ExtensionBytes ==
  ASSUME NEW extension \in Extensions
  PROVE  EncodeExtension(extension) \in Seq(Nat)
<1> DEFINE data == IF extension.type = ExtensionServerName
                   THEN Prefixed16(EncodeList(extension.list)) ELSE extension.data
<1>1. data \in Seq(Nat) /\ extension.type \in Nat
  <2>1. CASE extension \in [type : {0}, list : Seq(Entries)]
    <3>1. extension.type = 0 /\ extension.list \in Seq(Entries)
      BY <2>1
    <3>2. EncodeList(extension.list) \in Seq(Nat)
      BY <3>1, ListBytes
    <3>3. data = Prefixed16(EncodeList(extension.list))
      BY <3>1 DEF ExtensionServerName
    <3> HIDE DEF data
    <3> QED BY <3>1, <3>2, <3>3, Prefixed
  <2>2. CASE extension \in [type : Nat \ {0}, data : Seq(Nat)]
    BY <2>2 DEF ExtensionServerName
  <2> QED BY <2>1, <2>2 DEF Extensions
<1>2. EncodeExtension(extension) = Write16(extension.type) \o Prefixed16(data)
  BY Zenon DEF EncodeExtension
<1> HIDE DEF data
<1>3. Write16(extension.type) \in Seq(Nat)
  BY <1>1, TwoBytes DEF Write16
<1>4. Prefixed16(data) \in Seq(Nat)
  BY <1>1, Prefixed
<1> QED BY <1>2, <1>3, <1>4, Concatenated

HelloTypeOK(h) ==
  /\ h.front \in [session : Seq(Nat), ciphers : Seq(Nat), compression : Seq(Nat)]
  /\ h.extensions \in Seq(Extensions)
  /\ h.cuts \in SUBSET (Nat \ {0})

LEMMA HelloType ==
  ASSUME NEW h \in Hellos
  PROVE  HelloTypeOK(h) /\ h.kind = "hello"
BY SniAssumption DEF HelloTypeOK, Hellos

LEMMA ExtensionsBytes ==
  ASSUME NEW x \in Seq(Extensions)
  PROVE  [i \in DOMAIN x |-> EncodeExtension(x[i])] \in Seq(Seq(Nat))
<1>1. \A i \in 1..Len(x) : EncodeExtension(x[i]) \in Seq(Nat)
  BY ExtensionBytes
<1> QED BY <1>1

Opening(h) == EncodeFront(h.front)

Rest(h) == EncodeExtensions(h.extensions)

LEMMA MessageIs ==
  \A h : HelloMessage(h) = <<HandshakeClientHello, 0>> \o Prefixed16(Opening(h) \o Rest(h))
BY Zenon DEF HelloMessage, Opening, Rest

LEMMA OpeningBytes ==
  ASSUME NEW h, HelloTypeOK(h)
  PROVE  Opening(h) \in Seq(Nat)
<1> DEFINE a == <<3, 3>>
           b == Bytes(32, 128)
           c == Prefixed8(h.front.session)
           d == Prefixed16(h.front.ciphers)
           e == Prefixed8(h.front.compression)
<1>1. a \in Seq(Nat) /\ b \in Seq(Nat)
  BY BytesSeq
<1>2. c \in Seq(Nat) /\ d \in Seq(Nat) /\ e \in Seq(Nat)
  BY Prefixed DEF HelloTypeOK
<1> HIDE DEF a, b, c, d, e
<1>3. a \o b \o c \o d \o e \in Seq(Nat)
  BY <1>1, <1>2
<1> QED BY <1>3 DEF Opening, EncodeFront, RandomSize, a, b, c, d, e

LEMMA RestBytes ==
  ASSUME NEW h, HelloTypeOK(h)
  PROVE  Rest(h) \in Seq(Nat)
<1> DEFINE s == [i \in DOMAIN h.extensions |-> EncodeExtension(h.extensions[i])]
<1>1. s \in Seq(Seq(Nat))
  BY ExtensionsBytes DEF HelloTypeOK
<1>2. Rest(h) = IF h.extensions = <<>> THEN <<>> ELSE Prefixed16(FlattenSeq(s))
  BY Zenon DEF Rest, EncodeExtensions
<1> HIDE DEF s
<1>3. FlattenSeq(s) \in Seq(Nat)
  BY <1>1, FlattenSequence
<1>4. Prefixed16(FlattenSeq(s)) \in Seq(Nat)
  BY <1>3, Prefixed
<1> QED BY <1>2, <1>4

LEMMA MessageBytes ==
  ASSUME NEW h, HelloTypeOK(h)
  PROVE  /\ HelloMessage(h) \in Seq(Nat)
         /\ Len(HelloMessage(h)) = 4 + Len(Opening(h)) + Len(Rest(h))
<1> DEFINE body == Opening(h) \o Rest(h)
           q == Prefixed16(body)
           t == <<HandshakeClientHello, 0>>
<1>1. body \in Seq(Nat) /\ Len(body) = Len(Opening(h)) + Len(Rest(h))
  BY OpeningBytes, RestBytes, Concatenated
<1>2. q \in Seq(Nat) /\ Len(q) = 2 + Len(body)
  BY <1>1, Prefixed
<1>3. t \in Seq(Nat) /\ Len(t) = 2
  BY DEF HandshakeClientHello
<1>4. HelloMessage(h) = t \o q
  BY MessageIs, Zenon
<1> HIDE DEF body, q, t
<1>5. t \o q \in Seq(Nat) /\ Len(t \o q) = 2 + (2 + (Len(Opening(h)) + Len(Rest(h))))
  <2>1. t \o q \in Seq(Nat) /\ Len(t \o q) = Len(t) + Len(q)
    BY <1>2, <1>3, Concatenated
  <2> QED BY <1>1, <1>2, <1>3, <2>1
<1>6. Len(Opening(h)) \in Nat /\ Len(Rest(h)) \in Nat
  BY OpeningBytes, RestBytes
<1> QED BY <1>4, <1>5, <1>6

(* Where the records end.                                                  *)
Ended(h) == {c \in h.cuts : c < Len(HelloMessage(h))} \cup {Len(HelloMessage(h))}

Ends(h) == Ascending(Ended(h))

Piece(h, i) == Slice(HelloMessage(h), IF i = 1 THEN 0 ELSE Ends(h)[i - 1], Ends(h)[i])

Record(h, i) == <<ContentTypeHandshake, 3, 1>> \o Prefixed16(Piece(h, i))

LEMMA EncodeIs ==
  \A h : EncodeHello(h) = FlattenSeq([i \in DOMAIN Ends(h) |-> Record(h, i)])
BY Zenon DEF EncodeHello, Ends, Ended, Piece, Record

(* They end in order, the last one with the message.                       *)
LEMMA EndsOrdered ==
  ASSUME NEW h, HelloTypeOK(h)
  PROVE  /\ Len(Ends(h)) \in Nat \ {0} /\ DOMAIN Ends(h) = 1..Len(Ends(h))
         /\ \A i \in 1..Len(Ends(h)) : Ends(h)[i] \in 1..Len(HelloMessage(h))
         /\ \A i, j \in 1..Len(Ends(h)) : i < j => Ends(h)[i] < Ends(h)[j]
         /\ Ends(h)[Len(Ends(h))] = Len(HelloMessage(h))
<1> DEFINE m == Len(HelloMessage(h))
           E == Ended(h)
           n == Cardinality(E)
           s == Ends(h)
<1>1. m \in Nat /\ m >= 1
  <2>1. Len(Opening(h)) \in Nat /\ Len(Rest(h)) \in Nat
    BY OpeningBytes, RestBytes
  <2> QED BY <2>1, MessageBytes
<1>2. /\ E \subseteq 0..m /\ E \subseteq Nat /\ m \in E
      /\ \A x \in E : x \in 1..m /\ x <= m
  BY <1>1 DEF HelloTypeOK, Ended
<1> HIDE DEF E
<1>3. IsFiniteSet(E)
  BY <1>1, <1>2, FS_BoundedSetOfNaturals
<1>4. s \in SetToSeqs(E) /\ Ascends(s)
  <2>1. \E t \in SetToSeqs(E) : Ascends(t)
    BY <1>1, <1>2, SortedExists
  <2>2. s = CHOOSE t \in SetToSeqs(E) : Ascends(t)
    BY Zenon DEF Ends, Ascending, Ascends, E
  <2> HIDE DEF s
  <2> QED BY <2>1, <2>2
<1> HIDE DEF m, n, s
<1>5. /\ s \in [1..n -> E] /\ \A i, j \in 1..n : i # j => s[i] # s[j]
      /\ \A i, j \in 1..n : i < j => s[i] < s[j]
  BY <1>4 DEF SetToSeqs, Ascends, n
<1>6. n \in Nat
  BY <1>3, FS_CardinalityType DEF n
<1>7. s \in Surjection(1..n, E)
  <2> DEFINE D == 1..n
  <2>1. IsFiniteSet(D) /\ Cardinality(D) = n
    <3>1. 1 \in Int /\ n \in Int
      BY <1>6
    <3> QED BY <1>6, <3>1, FS_Interval
  <2>2. s \in Injection(D, E)
    BY <1>5 DEF Injection, IsInjective
  <2> HIDE DEF D
  <2>3. Cardinality(D) = Cardinality(E) <=> s \in Surjection(D, E)
    BY <1>3, <2>2, FS_Injection
  <2> QED BY <2>1, <2>3 DEF n, D
<1>8. PICK k \in 1..n : s[k] = m
  BY <1>2, <1>7 DEF Surjection
<1>9. n # 0 /\ n \in 1..n /\ Len(s) = n /\ DOMAIN s = 1..n
  BY <1>5, <1>6, <1>8
<1>10. k = n
  <2> SUFFICES ASSUME k < n PROVE FALSE
    BY <1>6
  <2>1. s[k] < s[n] /\ s[n] \in E
    BY <1>5, <1>9
  <2>2. s[n] <= m /\ s[n] \in Nat
    BY <1>2, <2>1
  <2> QED BY <1>1, <1>8, <2>1, <2>2
<1> QED BY <1>2, <1>5, <1>6, <1>8, <1>9, <1>10 DEF s, m

LEMMA RecordBytes ==
  ASSUME NEW h, HelloTypeOK(h), NEW i \in 1..Len(Ends(h))
  PROVE  Piece(h, i) \in Seq(Nat) /\ Record(h, i) \in Seq(Nat)
<1> DEFINE from == IF i = 1 THEN 0 ELSE Ends(h)[i - 1]
           to == Ends(h)[i]
<1>1. HelloMessage(h) \in Seq(Nat)
  BY MessageBytes
<1>2. from \in Nat /\ to \in Nat
  <2>1. i # 1 => i - 1 \in 1..Len(Ends(h))
    BY EndsOrdered
  <2> QED BY <2>1, EndsOrdered
<1> HIDE DEF from, to
<1>3. Slice(HelloMessage(h), from, to) \in Seq(Nat)
  BY <1>1, <1>2, Spliced
<1>4. Piece(h, i) \in Seq(Nat)
  BY <1>3, Zenon DEF from, to, Piece
<1>5. Prefixed16(Piece(h, i)) \in Seq(Nat)
  BY <1>4, Prefixed
<1>6. <<ContentTypeHandshake, 3, 1>> \in Seq(Nat)
  BY DEF ContentTypeHandshake
<1> QED BY <1>4, <1>5, <1>6, Concatenated DEF Record

LEMMA HelloBytes ==
  ASSUME NEW h, HelloTypeOK(h)
  PROVE  EncodeHello(h) \in Seq(Nat)
<1> DEFINE s == [i \in DOMAIN Ends(h) |-> Record(h, i)]
<1>1. s \in Seq(Seq(Nat))
  <2>1. DOMAIN Ends(h) = 1..Len(Ends(h)) /\ Len(Ends(h)) \in Nat
    BY EndsOrdered
  <2>2. \A i \in 1..Len(Ends(h)) : Record(h, i) \in Seq(Nat)
    BY RecordBytes
  <2> QED BY <2>1, <2>2
<1> HIDE DEF s
<1>2. FlattenSeq(s) \in Seq(Nat)
  BY <1>1, FlattenSequence
<1> QED BY <1>2, EncodeIs DEF s

-----------------------------------------------------------------------------
(* readHandshake(): the loop is a recursive function, which exists as the  *)
(* offset grows with each record and never passes the end of the buffer.   *)

Places == [o : Nat, body : Seq(Nat)]

At0 == [o |-> 0, body |-> <<>>]

RecordEnd(buf, o) == o + RecordHeaderSize + UInt16(buf, o + 3)

Enough(body) == TotalKnown(body) /\ Len(body) >= Total(body)

NextPlace(buf, at) ==
  [o |-> RecordEnd(buf, at.o),
   body |-> at.body \o Slice(buf, at.o + RecordHeaderSize, RecordEnd(buf, at.o))]

Answer(buf, at) ==
  IF Enough(at.body)
  THEN [state |-> "complete", message |-> Slice(at.body, 0, Total(at.body))]
  ELSE IF BadRecord(buf, at.o) THEN [state |-> "malformed"]
  ELSE [state |-> "incomplete"]

Stops(buf, at) == Enough(at.body) \/ BadRecord(buf, at.o) \/ ~BodyThere(buf, at.o)

IsReader(g, buf) ==
  g = [at \in Places |->
         IF Enough(at.body)
         THEN [state |-> "complete", message |-> Slice(at.body, 0, Total(at.body))]
         ELSE IF BadRecord(buf, at.o) THEN [state |-> "malformed"]
         ELSE IF BodyThere(buf, at.o) THEN g[NextPlace(buf, at)]
         ELSE [state |-> "incomplete"]]

Reader(buf) == CHOOSE g : IsReader(g, buf)

LEMMA ReadIsReader == \A buf : ReadHandshake(buf) = Reader(buf)[At0]
BY Zenon DEF ReadHandshake, Reader, IsReader, Enough, RecordEnd, NextPlace, Places, At0

LEMMA PlaceGrows ==
  ASSUME NEW buf \in Seq(Nat), NEW at \in Places, ~Stops(buf, at)
  PROVE  /\ NextPlace(buf, at) \in Places
         /\ at.o + 5 < NextPlace(buf, at).o /\ NextPlace(buf, at).o <= Len(buf)
<1> DEFINE o == at.o
           body == at.body
           end == RecordEnd(buf, o)
           piece == Slice(buf, o + RecordHeaderSize, end)
<1>1. o \in Nat /\ body \in Seq(Nat) /\ Len(buf) \in Nat
  BY DEF Places
<1>2. o + 5 <= Len(buf) /\ BodyThere(buf, o) /\ ~BadRecord(buf, o)
  BY DEF Stops, BodyThere, HeaderThere, RecordHeaderSize
<1> HIDE DEF o, body
<1>3. UInt16(buf, o + 3) \in Nat
  <2>1. o + 3 + 1 \in 1..Len(buf) /\ o + 3 + 1 + 1 \in 1..Len(buf)
    BY <1>1, <1>2
  <2>2. buf[o + 3 + 1] \in Nat /\ buf[o + 3 + 1 + 1] \in Nat
    BY <2>1
  <2> QED BY <2>2, SMTT(30) DEF UInt16, At
<1>4. end \in Nat /\ o + 5 < end /\ end <= Len(buf)
  <2>1. UInt16(buf, o + 3) # 0
    BY <1>2 DEF BadRecord, BodyThere
  <2>2. end = o + 5 + UInt16(buf, o + 3) /\ o + 5 + UInt16(buf, o + 3) <= Len(buf)
    BY <1>2 DEF BodyThere, RecordEnd, RecordHeaderSize
  <2> QED BY <1>1, <1>3, <2>1, <2>2
<1> HIDE DEF end
<1>5. piece \in Seq(Nat)
  <2>1. o + RecordHeaderSize \in Nat
    BY <1>1 DEF RecordHeaderSize
  <2> QED BY <1>4, <2>1, Spliced
<1>6. NextPlace(buf, at) = [o |-> end, body |-> body \o piece]
  BY Zenon DEF NextPlace, end, o, body
<1> HIDE DEF piece
<1>7. body \o piece \in Seq(Nat)
  BY <1>1, <1>5
<1> QED BY <1>4, <1>6, <1>7 DEF Places, o

LEMMA ReaderExists ==
  ASSUME NEW buf \in Seq(Nat)
  PROVE  IsReader(Reader(buf), buf)
<1> DEFINE Stop == {at \in Places : Stops(buf, at)}
           v == [at \in Places |-> Answer(buf, at)]
           next == [at \in Places |-> NextPlace(buf, at)]
           r == [at \in Places |-> IF at.o <= Len(buf) THEN Len(buf) - at.o ELSE 0]
           N == Len(buf)
<1>1. N \in Nat /\ \A at \in Places : at.o \in Nat
  BY DEF Places
<1>2. \A at \in Places : r[at] \in 0..N
  BY <1>1
<1>3. Descends(Places, Stop, next, r)
  <2> SUFFICES ASSUME NEW at \in Places, at \notin Stop
               PROVE  next[at] \in Places /\ r[next[at]] < r[at]
    BY DEF Descends
  <2> DEFINE n == NextPlace(buf, at)
  <2>1. n \in Places /\ at.o + 5 < n.o /\ n.o <= N
    BY PlaceGrows
  <2>2. next[at] = n
    OBVIOUS
  <2> HIDE DEF n, next
  <2> QED BY <1>1, <2>1, <2>2
<1>4. PICK g : IsRecursive(g, Places, Stop, v, next)
  <2> HIDE DEF Stop, v, next, r, N
  <2> QED BY <1>1, <1>2, <1>3, RecursionExists
<1>5. \A at \in Places :
        g[at] = IF at \in Stop THEN v[at] ELSE g[next[at]]
  <2> HIDE DEF Stop, v, next
  <2> QED BY <1>4 DEF IsRecursive
<1>6. ASSUME NEW at \in Places
      PROVE  g[at] = IF Enough(at.body)
                     THEN [state |-> "complete", message |-> Slice(at.body, 0, Total(at.body))]
                     ELSE IF BadRecord(buf, at.o) THEN [state |-> "malformed"]
                     ELSE IF BodyThere(buf, at.o) THEN g[NextPlace(buf, at)]
                     ELSE [state |-> "incomplete"]
  BY <1>5, Zenon DEF Answer, Stops
<1>7. g = [at \in Places |-> g[at]]
  BY <1>4, Zenon DEF IsRecursive
<1>8. IsReader(g, buf)
  BY <1>6, <1>7, Zenon DEF IsReader
<1> QED BY <1>8, Zenon DEF Reader

LEMMA ReaderAt ==
  ASSUME NEW buf \in Seq(Nat), NEW at \in Places
  PROVE  Reader(buf)[at] = IF Stops(buf, at) THEN Answer(buf, at)
                           ELSE Reader(buf)[NextPlace(buf, at)]
<1> DEFINE g == Reader(buf)
<1>1. IsReader(g, buf)
  BY ReaderExists
<1> HIDE DEF g
<1>2. g[at] = IF Enough(at.body)
              THEN [state |-> "complete", message |-> Slice(at.body, 0, Total(at.body))]
              ELSE IF BadRecord(buf, at.o) THEN [state |-> "malformed"]
              ELSE IF BodyThere(buf, at.o) THEN g[NextPlace(buf, at)]
              ELSE [state |-> "incomplete"]
  BY <1>1, Zenon DEF IsReader
<1> QED BY <1>2, Zenon DEF Stops, Answer, g

-----------------------------------------------------------------------------
(* More bytes do not change an answer.                                     *)

Continues(more, buf) ==
  /\ more \in Seq(Nat) /\ buf \in Seq(Nat) /\ Len(buf) <= Len(more)
  /\ \A i \in 1..Len(buf) : more[i] = buf[i]

LEMMA SameSlice ==
  ASSUME NEW more, NEW buf, Continues(more, buf), NEW from \in Nat, NEW to \in Nat,
         to <= Len(buf)
  PROVE  Slice(more, from, to) = Slice(buf, from, to)
<1>1. /\ more \in Seq(Nat) /\ buf \in Seq(Nat) /\ Len(buf) <= Len(more)
      /\ Len(buf) \in Nat /\ Len(more) \in Nat
      /\ \A i \in 1..Len(buf) : more[i] = buf[i]
  BY DEF Continues
<1>2. Smaller(to, Len(more)) = to /\ Smaller(to, Len(buf)) = to
  BY <1>1 DEF Smaller
<1>3. \A i \in (from + 1)..to : more[i] = buf[i] /\ buf[i] \in Nat /\ more[i] \in Nat
  BY <1>1
<1>4. from + 1 \in Int /\ to \in Int
  OBVIOUS
<1> DEFINE s == SubSeq(more, from + 1, to)
           t == SubSeq(buf, from + 1, to)
           m == to - (from + 1) + 1
<1>5. /\ s \in Seq(Nat) /\ Len(s) = IF from + 1 <= to THEN m ELSE 0
      /\ \A i \in 1..m : s[i] = more[(from + 1) + i - 1]
  BY <1>3, <1>4, SubSeqProperties
<1>6. /\ t \in Seq(Nat) /\ Len(t) = IF from + 1 <= to THEN m ELSE 0
      /\ \A i \in 1..m : t[i] = buf[(from + 1) + i - 1]
  BY <1>3, <1>4, SubSeqProperties
<1> HIDE DEF s, t
<1>7. \A i \in 1..Len(s) : s[i] = t[i]
  <2> TAKE i \in 1..Len(s)
  <2>1. i \in 1..m /\ (from + 1) + i - 1 \in (from + 1)..to
    BY <1>5
  <2> QED BY <1>3, <1>5, <1>6, <2>1
<1>8. s = t
  BY <1>5, <1>6, <1>7, SeqEqual
<1> QED BY <1>2, <1>8, Zenon DEF Slice, Smaller, s, t

LEMMA SameHeader ==
  ASSUME NEW more, NEW buf, Continues(more, buf), NEW o \in Nat, HeaderThere(buf, o)
  PROVE  /\ HeaderThere(more, o) /\ (BadRecord(more, o) <=> BadRecord(buf, o))
         /\ UInt16(more, o + 3) = UInt16(buf, o + 3) /\ UInt16(buf, o + 3) \in Nat
         /\ RecordEnd(more, o) = RecordEnd(buf, o)
<1>1. /\ Len(buf) \in Nat /\ Len(more) \in Nat /\ Len(buf) <= Len(more)
      /\ \A i \in 1..Len(buf) : more[i] = buf[i] /\ buf[i] \in Nat
  BY DEF Continues
<1>2. o + 5 <= Len(buf)
  BY DEF HeaderThere, RecordHeaderSize
<1>3. /\ o + 1 \in 1..Len(buf) /\ o + 3 + 1 \in 1..Len(buf) /\ o + 3 + 1 + 1 \in 1..Len(buf)
      /\ o + 5 <= Len(more)
  BY <1>1, <1>2
<1>4. /\ more[o + 1] = buf[o + 1] /\ more[o + 3 + 1] = buf[o + 3 + 1]
      /\ more[o + 3 + 1 + 1] = buf[o + 3 + 1 + 1]
      /\ buf[o + 3 + 1] \in Nat /\ buf[o + 3 + 1 + 1] \in Nat
  BY <1>1, <1>3
<1>5. UInt16(more, o + 3) = UInt16(buf, o + 3) /\ UInt16(buf, o + 3) \in Nat
  BY <1>4 DEF UInt16, At
<1>6. HeaderThere(more, o)
  BY <1>3 DEF HeaderThere, RecordHeaderSize
<1>7. At(more, o) = At(buf, o)
  BY <1>4 DEF At
<1> QED BY <1>5, <1>6, <1>7 DEF BadRecord, RecordEnd

LEMMA StopsAlike ==
  ASSUME NEW more, NEW buf, Continues(more, buf), NEW at \in Places, Stops(buf, at),
         Answer(buf, at).state # "incomplete"
  PROVE  Stops(more, at) /\ Answer(more, at) = Answer(buf, at)
<1>1. CASE Enough(at.body)
  BY <1>1 DEF Stops, Answer
<1>2. CASE ~Enough(at.body)
  <2>1. BadRecord(buf, at.o)
    BY <1>2 DEF Answer
  <2>2. BadRecord(more, at.o)
    BY <2>1, SameHeader DEF BadRecord, Places
  <2> QED BY <1>2, <2>1, <2>2 DEF Stops, Answer
<1> QED BY <1>1, <1>2

LEMMA GoesOnAlike ==
  ASSUME NEW more, NEW buf, Continues(more, buf), NEW at \in Places, ~Stops(buf, at)
  PROVE  ~Stops(more, at) /\ NextPlace(more, at) = NextPlace(buf, at)
<1> DEFINE o == at.o
<1>1. o \in Nat
  BY DEF Places
<1>2. ~Enough(at.body) /\ ~BadRecord(buf, o) /\ BodyThere(buf, o) /\ HeaderThere(buf, o)
  BY DEF Stops, BodyThere
<1> HIDE DEF o
<1>3. /\ HeaderThere(more, o) /\ ~BadRecord(more, o)
      /\ UInt16(more, o + 3) = UInt16(buf, o + 3) /\ UInt16(buf, o + 3) \in Nat
      /\ RecordEnd(more, o) = RecordEnd(buf, o)
  BY <1>1, <1>2, SameHeader
<1>4. Len(buf) <= Len(more) /\ Len(buf) \in Nat /\ Len(more) \in Nat
  BY DEF Continues
<1>5. RecordEnd(buf, o) <= Len(buf) /\ RecordEnd(buf, o) \in Nat
  BY <1>1, <1>2, <1>3 DEF BodyThere, RecordEnd, RecordHeaderSize
<1>6. BodyThere(more, o)
  BY <1>3, <1>4, <1>5 DEF BodyThere, RecordEnd
<1>7. Slice(more, o + RecordHeaderSize, RecordEnd(more, o)) =
        Slice(buf, o + RecordHeaderSize, RecordEnd(buf, o))
  <2>1. o + RecordHeaderSize \in Nat
    BY <1>1 DEF RecordHeaderSize
  <2> QED BY <1>3, <1>5, <2>1, SameSlice
<1>8. NextPlace(more, at) = NextPlace(buf, at)
  BY <1>3, <1>7, Zenon DEF NextPlace, o
<1> QED BY <1>2, <1>3, <1>6, <1>8 DEF Stops, o

LEMMA StableFrom ==
  ASSUME NEW more, NEW buf, Continues(more, buf), NEW place \in Places,
         Reader(buf)[place].state # "incomplete"
  PROVE  Reader(more)[place] = Reader(buf)[place]
<1> DEFINE Same(at) == Reader(buf)[at].state # "incomplete" =>
                         Reader(more)[at] = Reader(buf)[at]
           S == {n \in Nat : \A at \in Places : Len(buf) - at.o <= n => Same(at)}
<1>1. /\ buf \in Seq(Nat) /\ more \in Seq(Nat) /\ Len(buf) \in Nat
      /\ \A at \in Places : at.o \in Nat
  BY DEF Continues, Places
<1>2. ASSUME NEW at \in Places, Stops(buf, at) PROVE Same(at)
  <2>1. Reader(buf)[at] = Answer(buf, at)
    BY <1>1, <1>2, ReaderAt
  <2> SUFFICES ASSUME Answer(buf, at).state # "incomplete"
               PROVE  Reader(more)[at] = Reader(buf)[at]
    BY <2>1
  <2>2. Stops(more, at) /\ Answer(more, at) = Answer(buf, at)
    BY <1>2, StopsAlike
  <2> QED BY <1>1, <2>1, <2>2, ReaderAt
<1>3. ASSUME NEW at \in Places, ~Stops(buf, at), Same(NextPlace(buf, at)) PROVE Same(at)
  <2>1. ~Stops(more, at) /\ NextPlace(more, at) = NextPlace(buf, at)
    BY <1>3, GoesOnAlike
  <2>2. Reader(buf)[at] = Reader(buf)[NextPlace(buf, at)]
    BY <1>1, <1>3, ReaderAt
  <2>3. Reader(more)[at] = Reader(more)[NextPlace(buf, at)]
    BY <1>1, <2>1, ReaderAt
  <2> QED BY <1>3, <2>2, <2>3, Zenon
<1>4. ASSUME NEW at \in Places, ~Stops(buf, at)
      PROVE  /\ NextPlace(buf, at) \in Places
             /\ Len(buf) - NextPlace(buf, at).o < Len(buf) - at.o
             /\ Len(buf) - NextPlace(buf, at).o >= 0
  <2> DEFINE n == NextPlace(buf, at)
  <2>1. n \in Places /\ at.o + 5 < n.o /\ n.o <= Len(buf)
    BY <1>1, <1>4, PlaceGrows
  <2> HIDE DEF n
  <2>2. n.o \in Nat /\ at.o \in Nat
    BY <1>1, <2>1
  <2> QED BY <1>1, <2>1, <2>2 DEF n
<1> HIDE DEF Same
<1>5. 0 \in S
  <2> SUFFICES ASSUME NEW at \in Places, Len(buf) - at.o <= 0 PROVE Same(at)
    OBVIOUS
  <2>1. Stops(buf, at)
    <3> SUFFICES ASSUME ~Stops(buf, at) PROVE FALSE
      OBVIOUS
    <3> DEFINE k == NextPlace(buf, at).o
    <3>1. Len(buf) - k < Len(buf) - at.o /\ Len(buf) - k >= 0 /\ k \in Nat
      BY <1>1, <1>4
    <3> HIDE DEF k
    <3> QED BY <1>1, <3>1
  <2> QED BY <1>2, <2>1
<1>6. ASSUME NEW n \in Nat, n \in S PROVE n + 1 \in S
  <2> SUFFICES ASSUME NEW at \in Places, Len(buf) - at.o <= n + 1 PROVE Same(at)
    OBVIOUS
  <2>1. CASE Stops(buf, at)
    BY <1>2, <2>1
  <2>2. CASE ~Stops(buf, at)
    <3> DEFINE next == NextPlace(buf, at)
    <3>1. next \in Places /\ Len(buf) - next.o < Len(buf) - at.o
      BY <1>4, <2>2
    <3> HIDE DEF next
    <3>2. Len(buf) - next.o <= n
      <4>1. next.o \in Nat /\ at.o \in Nat
        BY <1>1, <3>1
      <4> QED BY <1>1, <3>1, <4>1
    <3>3. Same(next)
      BY <1>6, <3>1, <3>2
    <3> QED BY <1>3, <2>2, <3>3 DEF next
  <2> QED BY <2>1, <2>2
<1>7. Nat \subseteq S
  <2> HIDE DEF S
  <2> QED BY <1>5, <1>6, SetInduction
<1>8. Len(buf) \in S /\ Len(buf) - place.o <= Len(buf)
  BY <1>1, <1>7
<1>9. Same(place)
  BY <1>8
<1> QED BY <1>9 DEF Same

LEMMA AnswerKept ==
  ASSUME NEW more, NEW buf, Continues(more, buf), IsComplete(buf)
  PROVE  IsComplete(more) /\ ParseSNI(more) = ParseSNI(buf)
<1>1. At0 \in Places
  BY DEF At0, Places
<1>2. Reader(buf)[At0].state # "incomplete"
  BY ReadIsReader, Zenon DEF IsComplete
<1>3. ReadHandshake(more) = ReadHandshake(buf)
  BY <1>1, <1>2, StableFrom, ReadIsReader
<1> QED BY <1>3, Zenon DEF IsComplete, ParseSNI

LEMMA NothingRead == ~IsComplete(<<>>)
<1>1. At0 \in Places /\ <<>> \in Seq(Nat)
  BY DEF At0, Places
<1>2. ~HeaderThere(<<>>, 0)
  BY DEF HeaderThere, RecordHeaderSize
<1>3. ~Enough(At0.body) /\ At0.o = 0
  BY DEF At0, Enough, TotalKnown, HandshakeHeaderSize
<1>4. Stops(<<>>, At0) /\ Answer(<<>>, At0) = [state |-> "incomplete"]
  BY <1>2, <1>3 DEF Stops, Answer, BodyThere, BadRecord
<1>5. ReadHandshake(<<>>) = [state |-> "incomplete"]
  BY <1>1, <1>4, ReaderAt, ReadIsReader
<1> QED BY <1>5 DEF IsComplete

-----------------------------------------------------------------------------
(* The stream is made of bytes, whatever the client means.                 *)
StreamInv ==
  /\ stream \in Seq(Nat) /\ received \in 0..Len(stream)
  /\ message.kind = "none" => received = 0 /\ stream = <<>>

LEMMA Composed ==
  ASSUME Compose
  PROVE  /\ message'.kind \in {"hello", "request", "login"}
         /\ message'.kind = "hello" <=> message' \in Hellos
         /\ message'.kind = "hello" => HelloTypeOK(message')
         /\ stream' \in Seq(Nat) /\ stream' = Encode(message')
<1>1. /\ message' \in Requests \cup Logins \cup Hellos /\ stream' = Encode(message')
  BY DEF Compose
<1>2. CASE message' \in Hellos
  <2>1. message'.kind = "hello" /\ HelloTypeOK(message')
    BY <1>2, HelloType
  <2>2. EncodeHello(message') \in Seq(Nat)
    BY <2>1, HelloBytes
  <2> QED BY <1>1, <1>2, <2>1, <2>2 DEF Encode
<1>3. CASE message' \in Requests \cup Logins
  <2>1. PICK m \in Requests \cup Logins : m = message'
    BY <1>3
  <2>2. <<>> \in Seq(Nat) /\ Begins(<<>>, EncodeSocks(m))
    BY DEF Begins
  <2>3. EncodeSocks(m) \in Seq(Nat) /\ m.kind \in {"request", "login"}
    BY <2>2, SocksRead
  <2>4. message' \notin Hellos
    BY <2>1, <2>3, HelloType
  <2> QED BY <1>1, <2>1, <2>3, <2>4 DEF Encode
<1> QED BY <1>1, <1>2, <1>3

LEMMA StreamStep ==
  ASSUME StreamInv, [MessagesNext]_messageVars PROVE StreamInv'
<1>1. CASE Compose
  <2>1. received' = 0
    BY <1>1 DEF Compose, StreamInv
  <2>2. stream' \in Seq(Nat) /\ message'.kind # "none"
    BY <1>1, Composed
  <2> QED BY <2>1, <2>2 DEF StreamInv
<1>2. CASE Spoil
  <2>1. PICK i \in Spoilt \cap DOMAIN stream, byte \in {0, 255} :
          byte # stream[i] /\ stream' = [stream EXCEPT ![i] = byte]
    BY <1>2, Zenon DEF Spoil
  <2>2. stream' \in Seq(Nat) /\ Len(stream') = Len(stream)
    BY <2>1 DEF StreamInv
  <2> QED BY <1>2, <2>2 DEF StreamInv, Spoil
<1>3. CASE Receive
  BY <1>3 DEF StreamInv, Receive
<1>4. CASE Follow
  <2>1. PICK byte \in {0, 22} : stream' = Append(stream, byte)
    BY <1>4 DEF Follow, ContentTypeHandshake
  <2>2. stream' \in Seq(Nat) /\ Len(stream') = Len(stream) + 1
    BY <2>1 DEF StreamInv
  <2> QED BY <1>4, <2>2 DEF StreamInv, Follow, Whole
<1>5. CASE UNCHANGED messageVars
  BY <1>5 DEF messageVars, StreamInv
<1> QED BY <1>1, <1>2, <1>3, <1>4, <1>5 DEF MessagesNext

LEMMA PrefixIs ==
  ASSUME NEW s \in Seq(Nat), NEW n \in 0..Len(s)
  PROVE  /\ SubSeq(s, 1, n) \in Seq(Nat) /\ Len(SubSeq(s, 1, n)) = n
         /\ \A i \in 1..n : SubSeq(s, 1, n)[i] = s[i]
<1>1. \A i \in 1..n : s[i] \in Nat
  OBVIOUS
<1>2. 1 \in Int /\ n \in Int
  OBVIOUS
<1> QED BY <1>1, <1>2, SubSeqProperties

LEMMA BufferContinues ==
  ASSUME StreamInv, [MessagesNext]_messageVars, Buf # <<>>
  PROVE  Continues(SubSeq(stream', 1, received'), Buf)
<1> DEFINE more == SubSeq(stream', 1, received')
<1>0. StreamInv'
  BY StreamStep
<1>1. /\ Buf \in Seq(Nat) /\ Len(Buf) = received
      /\ \A i \in 1..received : Buf[i] = stream[i]
  BY PrefixIs DEF StreamInv, Buf
<1>2. /\ more \in Seq(Nat) /\ Len(more) = received'
      /\ \A i \in 1..received' : more[i] = stream'[i]
  BY <1>0, PrefixIs DEF StreamInv
<1>3. received # 0 /\ received \in Nat /\ received' \in Nat
  <2>1. received = 0 => Buf = <<>>
    BY <1>1
  <2> QED BY <1>0, <2>1 DEF StreamInv
<1>4. ~Compose /\ ~Spoil
  BY <1>3 DEF Compose, Spoil, StreamInv
<1>5. received <= received' /\ \A i \in 1..received : stream'[i] = stream[i]
  <2>1. CASE Receive
    BY <1>3, <2>1 DEF Receive
  <2>2. CASE Follow
    <3>1. PICK byte : stream' = Append(stream, byte)
      BY <2>2 DEF Follow
    <3>2. stream \in Seq(Nat) /\ received \in 0..Len(stream) /\ received' = received + 1
      BY <2>2 DEF StreamInv, Follow
    <3> QED BY <3>1, <3>2
  <2>3. CASE UNCHANGED messageVars
    BY <1>3, <2>3 DEF messageVars
  <2> QED BY <1>4, <2>1, <2>2, <2>3 DEF MessagesNext
<1> HIDE DEF more
<1>6. Continues(more, Buf)
  BY <1>1, <1>2, <1>3, <1>5, SMTT(30) DEF Continues
<1> QED BY <1>6 DEF more

(* sni/index.js:35-74 and 163-188.  For every ClientHello, however it is   *)
(* cut into records, malformed or not, and whatever follows it: once the   *)
(* parser needs no more bytes, more bytes change neither that nor the name.*)
THEOREM MessagesAnswerStable == MessagesSpec => AnswerStable
<1>1. MessagesInit => StreamInv
  BY DEF MessagesInit, StreamInv
<1>2. StreamInv /\ [MessagesNext]_messageVars => StreamInv'
  BY StreamStep
<1>3. StreamInv /\ [MessagesNext]_messageVars =>
        [LET more == SubSeq(stream', 1, received')
         IN  IsComplete(Buf) => /\ IsComplete(more)
                                /\ ParseSNI(more) = ParseSNI(Buf)]_messageVars
  <2> SUFFICES ASSUME StreamInv, [MessagesNext]_messageVars, IsComplete(Buf)
               PROVE  /\ IsComplete(SubSeq(stream', 1, received'))
                      /\ ParseSNI(SubSeq(stream', 1, received')) = ParseSNI(Buf)
    OBVIOUS
  <2>1. Buf # <<>>
    BY NothingRead
  <2> QED BY <2>1, BufferContinues, AnswerKept
<1> QED BY <1>1, <1>2, <1>3, PTL DEF MessagesSpec, AnswerStable

-----------------------------------------------------------------------------
(* Where the parts of a message stand.                                     *)

(* s stands in data behind the first o bytes.                              *)
Holds(data, o, s) ==
  /\ data \in Seq(Nat) /\ s \in Seq(Nat) /\ o \in Nat
  /\ o + Len(s) <= Len(data)
  /\ \A i \in 1..Len(s) : data[o + i] = s[i]

LEMMA HoldsItself ==
  ASSUME NEW s \in Seq(Nat) PROVE Holds(s, 0, s)
BY DEF Holds

LEMMA HoldsBoth ==
  ASSUME NEW data, NEW o, NEW s \in Seq(Nat), NEW t \in Seq(Nat), Holds(data, o, s \o t)
  PROVE  Holds(data, o, s) /\ Holds(data, o + Len(s), t)
<1>1. /\ Len(s \o t) = Len(s) + Len(t) /\ Len(s) \in Nat /\ Len(t) \in Nat
      /\ \A i \in 1..Len(s) : (s \o t)[i] = s[i]
      /\ \A i \in 1..Len(t) : (s \o t)[Len(s) + i] = t[i]
  BY Concatenated
<1> DEFINE u == s \o t
<1>2. /\ data \in Seq(Nat) /\ o \in Nat /\ o + Len(u) <= Len(data) /\ Len(data) \in Nat
      /\ \A i \in 1..Len(u) : data[o + i] = u[i]
  BY SMTT(30) DEF Holds
<1> HIDE DEF u
<1>3. /\ Len(u) = Len(s) + Len(t)
      /\ \A i \in 1..Len(s) : u[i] = s[i]
      /\ \A i \in 1..Len(t) : u[Len(s) + i] = t[i]
  BY <1>1 DEF u
<1>4. Holds(data, o, s)
  <2>1. \A i \in 1..Len(s) : i \in 1..Len(u)
    BY <1>1, <1>3
  <2>2. o + Len(s) <= Len(data)
    BY <1>1, <1>2, <1>3
  <2> QED BY <1>2, <1>3, <2>1, <2>2 DEF Holds
<1>5. Holds(data, o + Len(s), t)
  <2>1. \A i \in 1..Len(t) : Len(s) + i \in 1..Len(u) /\ (o + Len(s)) + i = o + (Len(s) + i)
    BY <1>1, <1>2, <1>3
  <2>2. (o + Len(s)) + Len(t) <= Len(data) /\ o + Len(s) \in Nat
    BY <1>1, <1>2, <1>3
  <2>3. \A i \in 1..Len(t) : data[(o + Len(s)) + i] = t[i]
    <3> TAKE i \in 1..Len(t)
    <3>1. data[o + (Len(s) + i)] = u[Len(s) + i]
      BY <1>2, <2>1
    <3> QED BY <1>3, <2>1, <3>1
  <2> QED BY <1>2, <2>2, <2>3 DEF Holds
<1> QED BY <1>4, <1>5

LEMMA HoldsOne ==
  ASSUME NEW data, NEW o, NEW b, Holds(data, o, <<b>>)
  PROVE  At(data, o) = b /\ o + 1 <= Len(data)
BY DEF Holds, At

LEMMA HoldsTwo ==
  ASSUME NEW data, NEW o, NEW b, NEW c, Holds(data, o, <<b, c>>)
  PROVE  /\ At(data, o) = b /\ At(data, o + 1) = c /\ UInt16(data, o) = b * 256 + c
         /\ o + 2 <= Len(data)
<1>1. data[o + 1] = b /\ data[o + 2] = c /\ o \in Nat /\ o + 2 <= Len(data)
  BY DEF Holds
<1>2. o + 1 + 1 = o + 2
  BY <1>1
<1> QED BY <1>1, <1>2 DEF At, UInt16

LEMMA HoldsShort ==
  ASSUME NEW data, NEW o, NEW s \in Seq(Nat), Holds(data, o, Prefixed8(s))
  PROVE  At(data, o) = Len(s) /\ Holds(data, o + 1, s)
<1>1. <<Len(s)>> \in Seq(Nat) /\ Len(<<Len(s)>>) = 1
  OBVIOUS
<1>2. Holds(data, o, <<Len(s)>>) /\ Holds(data, o + 1, s)
  BY <1>1, HoldsBoth DEF Prefixed8
<1> QED BY <1>2, HoldsOne

LEMMA HoldsLong ==
  ASSUME NEW data, NEW o, NEW s \in Seq(Nat), Holds(data, o, Prefixed16(s))
  PROVE  UInt16(data, o) = Len(s) /\ Holds(data, o + 2, s)
<1> DEFINE n == Len(s)
           hi == n \div 256
           lo == n % 256
<1>1. n \in Nat
  OBVIOUS
<1>2. hi \in Nat /\ lo \in Nat /\ hi * 256 + lo = n
  BY <1>1, TwoBytes
<1>3. Holds(data, o, <<hi, lo>> \o s)
  BY DEF Prefixed16, Write16
<1> HIDE DEF hi, lo
<1>4. <<hi, lo>> \in Seq(Nat) /\ Len(<<hi, lo>>) = 2
  BY <1>2
<1>5. Holds(data, o, <<hi, lo>>) /\ Holds(data, o + 2, s)
  <2> DEFINE w == <<hi, lo>>
  <2>1. w \in Seq(Nat) /\ Len(w) = 2 /\ Holds(data, o, w \o s)
    BY <1>3, <1>4
  <2> HIDE DEF w
  <2>2. Holds(data, o, w) /\ Holds(data, o + 2, s)
    BY <2>1, HoldsBoth
  <2> QED BY <2>2 DEF w
<1>6. UInt16(data, o) = hi * 256 + lo
  BY <1>5, HoldsTwo
<1> QED BY <1>2, <1>5, <1>6

LEMMA HoldsSlice ==
  ASSUME NEW data, NEW o, NEW s, Holds(data, o, s)
  PROVE  Slice(data, o, o + Len(s)) = s
BY Sliced DEF Holds

LEMMA HoldsEnds ==
  ASSUME NEW data, NEW o, NEW s, Holds(data, o, s)
  PROVE  o + Len(s) <= Len(data) /\ o \in Nat /\ Len(s) \in Nat
BY DEF Holds

(* The fields before the extensions, in the message.                       *)
SessionSize(h) == Len(h.front.session)

CiphersSize(h) == Len(h.front.ciphers)

CompressionSize(h) == Len(h.front.compression)

LEMMA OpeningHeld ==
  ASSUME NEW h, HelloTypeOK(h), NEW data, NEW o, Holds(data, o, Opening(h))
  PROVE  LET ls == SessionSize(h)
             lc == CiphersSize(h)
             lp == CompressionSize(h)
         IN  /\ ls \in Nat /\ lc \in Nat /\ lp \in Nat
             /\ Len(Opening(h)) = 38 + ls + lc + lp
             /\ At(data, o + 34) = ls
             /\ UInt16(data, o + 35 + ls) = lc
             /\ At(data, o + 37 + ls + lc) = lp
<1> DEFINE ls == SessionSize(h)
           lc == CiphersSize(h)
           lp == CompressionSize(h)
           x == h.front.session
           y == h.front.ciphers
           z == h.front.compression
           a == <<3, 3>>
           b == Bytes(32, 128)
           c == Prefixed8(x)
           d == Prefixed16(y)
           e == Prefixed8(z)
<1>1. a \in Seq(Nat) /\ Len(a) = 2
  OBVIOUS
<1>2. b \in Seq(Nat) /\ Len(b) = 32
  BY BytesSeq, ZenonT(60)
<1>3. /\ x \in Seq(Nat) /\ Len(x) = ls /\ y \in Seq(Nat) /\ Len(y) = lc
      /\ z \in Seq(Nat) /\ Len(z) = lp
  BY DEF HelloTypeOK, SessionSize, CiphersSize, CompressionSize
<1>4. Opening(h) = a \o b \o c \o d \o e
  BY DEF Opening, EncodeFront, RandomSize
<1> HIDE DEF x, y, z, ls, lc, lp
<1>5. ls \in Nat /\ lc \in Nat /\ lp \in Nat
  BY <1>3
<1>6. /\ c \in Seq(Nat) /\ Len(c) = 1 + ls /\ d \in Seq(Nat) /\ Len(d) = 2 + lc
      /\ e \in Seq(Nat) /\ Len(e) = 1 + lp
  BY <1>3, Prefixed
<1> HIDE DEF a, b, c, d, e
<1> DEFINE ab == a \o b
           abc == ab \o c
           abcd == abc \o d
<1>7. ab \in Seq(Nat) /\ Len(ab) = 34
  <2>1. Len(a \o b) = Len(a) + Len(b) /\ a \o b \in Seq(Nat)
    BY <1>1, <1>2, Concatenated
  <2> QED BY <1>1, <1>2, <2>1
<1>8. Opening(h) = abcd \o e
  BY <1>4 DEF ab, abc, abcd
<1> HIDE DEF ab
<1>9. abc \in Seq(Nat) /\ Len(abc) = 35 + ls
  <2>1. Len(ab \o c) = Len(ab) + Len(c) /\ ab \o c \in Seq(Nat)
    BY <1>6, <1>7, Concatenated
  <2> QED BY <1>5, <1>6, <1>7, <2>1
<1> HIDE DEF abc
<1>10. abcd \in Seq(Nat) /\ Len(abcd) = 37 + ls + lc
  <2>1. Len(abc \o d) = Len(abc) + Len(d) /\ abc \o d \in Seq(Nat)
    BY <1>6, <1>9, Concatenated
  <2> QED BY <1>5, <1>6, <1>9, <2>1
<1> HIDE DEF abcd
<1>11. Len(Opening(h)) = 38 + ls + lc + lp
  <2>1. Len(abcd \o e) = Len(abcd) + Len(e)
    BY <1>6, <1>10, Concatenated
  <2> QED BY <1>5, <1>6, <1>8, <1>10, <2>1
<1>12. o \in Nat
  BY DEF Holds
<1> DEFINE p == o + 34
           q == o + 35 + ls
           r == o + 37 + ls + lc
<1>13. Holds(data, o, abcd) /\ Holds(data, r, e)
  <2>1. Holds(data, o, abcd) /\ Holds(data, o + Len(abcd), e)
    BY <1>6, <1>8, <1>10, HoldsBoth
  <2>2. o + Len(abcd) = r
    BY <1>5, <1>10, <1>12
  <2> HIDE DEF r
  <2> QED BY <2>1, <2>2
<1>14. Holds(data, o, abc) /\ Holds(data, q, d)
  <2>1. Holds(data, o, abc) /\ Holds(data, o + Len(abc), d)
    BY <1>6, <1>9, <1>13, HoldsBoth DEF abcd
  <2>2. o + Len(abc) = q
    BY <1>5, <1>9, <1>12
  <2> HIDE DEF q
  <2> QED BY <2>1, <2>2
<1>15. Holds(data, p, c)
  <2>1. Holds(data, o, ab) /\ Holds(data, o + Len(ab), c)
    BY <1>6, <1>7, <1>14, HoldsBoth DEF abc
  <2>2. o + Len(ab) = p
    BY <1>7, <1>12
  <2> HIDE DEF p
  <2> QED BY <2>1, <2>2
<1> HIDE DEF p, q, r
<1>16. At(data, p) = ls /\ UInt16(data, q) = lc /\ At(data, r) = lp
  <2>1. At(data, p) = Len(x)
    BY <1>3, <1>15, HoldsShort DEF c
  <2>2. UInt16(data, q) = Len(y)
    BY <1>3, <1>14, HoldsLong DEF d
  <2>3. At(data, r) = Len(z)
    BY <1>3, <1>13, HoldsShort DEF e
  <2> QED BY <1>3, <2>1, <2>2, <2>3
<1> QED BY <1>5, <1>11, <1>16 DEF p, q, r, ls, lc, lp

(* Where the extensions stand.                                             *)
RestAt(h) == 42 + SessionSize(h) + CiphersSize(h) + CompressionSize(h)

LEMMA MessageHeld ==
  ASSUME NEW h, HelloTypeOK(h)
  PROVE  LET m == HelloMessage(h)
             ls == SessionSize(h)
             lc == CiphersSize(h)
         IN  /\ m \in Seq(Nat) /\ Len(m) \in Nat /\ Len(m) >= 42
             /\ Len(m) = RestAt(h) + Len(Rest(h)) /\ Len(Rest(h)) \in Nat
             /\ RestAt(h) \in Nat
             /\ ls \in Nat /\ lc \in Nat /\ CompressionSize(h) \in Nat
             /\ At(m, 0) = 1 /\ 4 + UInt24(m, 1) = Len(m)
             /\ At(m, 38) = ls /\ UInt16(m, 39 + ls) = lc
             /\ At(m, 41 + ls + lc) = CompressionSize(h)
             /\ Holds(m, RestAt(h), Rest(h))
<1> DEFINE m == HelloMessage(h)
           ls == SessionSize(h)
           lc == CiphersSize(h)
           lp == CompressionSize(h)
           op == Opening(h)
           body == op \o Rest(h)
           q == Prefixed16(body)
           t == <<HandshakeClientHello, 0>>
<1>1. /\ m \in Seq(Nat) /\ Len(m) = 4 + Len(op) + Len(Rest(h))
      /\ op \in Seq(Nat) /\ Rest(h) \in Seq(Nat)
  BY MessageBytes, OpeningBytes, RestBytes
<1>2. body \in Seq(Nat) /\ Len(body) = Len(op) + Len(Rest(h))
  BY <1>1, Concatenated
<1>3. t \in Seq(Nat) /\ Len(t) = 2 /\ q \in Seq(Nat)
  <2>1. q \in Seq(Nat)
    BY <1>2, Prefixed
  <2> QED BY <2>1 DEF HandshakeClientHello
<1>4. m = t \o q
  BY MessageIs, Zenon
<1> HIDE DEF m, q, t
<1>5. Holds(m, 0, t) /\ Holds(m, 2, q)
  <2>1. Holds(m, 0, t \o q)
    BY <1>1, <1>4, HoldsItself
  <2>2. Holds(m, 0, t) /\ Holds(m, 0 + Len(t), q)
    BY <1>3, <2>1, HoldsBoth
  <2> QED BY <1>3, <2>2
<1>6. At(m, 0) = 1 /\ At(m, 1) = 0
  BY <1>5, HoldsTwo DEF t, HandshakeClientHello
<1> HIDE DEF body
<1>7. UInt16(m, 2) = Len(body) /\ Holds(m, 4, body)
  BY <1>2, <1>5, HoldsLong DEF q
<1>8. Holds(m, 4, op) /\ Holds(m, 4 + Len(op), Rest(h))
  <2> HIDE DEF op
  <2> QED BY <1>1, <1>7, HoldsBoth DEF body
<1>9. /\ ls \in Nat /\ lc \in Nat /\ lp \in Nat /\ Len(op) = 38 + ls + lc + lp
      /\ At(m, 4 + 34) = ls /\ UInt16(m, 4 + 35 + ls) = lc /\ At(m, 4 + 37 + ls + lc) = lp
  BY <1>8, OpeningHeld
<1> HIDE DEF ls, lc, lp, op
<1>10. UInt24(m, 1) = Len(body)
  BY <1>6, <1>7, <1>2, <1>1 DEF UInt24
<1>11. Len(Rest(h)) \in Nat
  BY <1>1
<1>12. RestAt(h) = 4 + Len(op) /\ RestAt(h) \in Nat /\ RestAt(h) >= 42
  BY <1>9, SMTT(30) DEF RestAt, ls, lc, lp
<1>13. /\ Len(m) = RestAt(h) + Len(Rest(h)) /\ Len(m) \in Nat /\ Len(m) >= 42
       /\ 4 + UInt24(m, 1) = Len(m)
  <2> DEFINE r == Len(Rest(h))
             k == Len(op)
  <2>1. Len(m) = 4 + k + r /\ UInt24(m, 1) = k + r
    BY <1>1, <1>2, <1>10
  <2>2. RestAt(h) = 4 + k /\ RestAt(h) \in Nat /\ RestAt(h) >= 42 /\ r \in Nat
    BY <1>11, <1>12
  <2>3. k \in Nat
    BY <1>1
  <2> HIDE DEF r, k
  <2>4. Len(m) = RestAt(h) + r /\ Len(m) \in Nat /\ Len(m) >= 42 /\ 4 + UInt24(m, 1) = Len(m)
    BY <2>1, <2>2, <2>3
  <2> QED BY <2>4 DEF r
<1>14. /\ At(m, 38) = ls /\ UInt16(m, 39 + ls) = lc /\ At(m, 41 + ls + lc) = lp
  BY <1>9
<1>15. Holds(m, RestAt(h), Rest(h))
  BY <1>8, <1>12
<1> QED BY <1>1, <1>6, <1>9, <1>11, <1>12, <1>13, <1>14, <1>15 DEF m, ls, lc, lp

(* What stands in a sequence stands in one that continues it.              *)
LEMMA HoldsLonger ==
  ASSUME NEW data, NEW o, NEW s, Holds(data, o, s), NEW t \in Seq(Nat)
  PROVE  Holds(data \o t, o, s) /\ Holds(data \o t, Len(data), t)
<1>1. /\ data \in Seq(Nat) /\ s \in Seq(Nat) /\ o \in Nat /\ o + Len(s) <= Len(data)
      /\ \A i \in 1..Len(s) : data[o + i] = s[i]
      /\ Len(data) \in Nat /\ Len(s) \in Nat /\ Len(t) \in Nat
  BY DEF Holds
<1> DEFINE u == data \o t
<1>2. /\ u \in Seq(Nat) /\ Len(u) = Len(data) + Len(t)
      /\ \A i \in 1..Len(data) : u[i] = data[i]
      /\ \A i \in 1..Len(t) : u[Len(data) + i] = t[i]
  BY <1>1, Concatenated
<1> HIDE DEF u
<1>3. \A i \in 1..Len(s) : u[o + i] = s[i]
  <2> TAKE i \in 1..Len(s)
  <2>1. o + i \in 1..Len(data)
    BY <1>1
  <2> QED BY <1>1, <1>2, <2>1
<1>4. o + Len(s) <= Len(u)
  BY <1>1, <1>2
<1>5. Holds(u, o, s)
  BY <1>1, <1>2, <1>3, <1>4 DEF Holds
<1>6. Holds(u, Len(data), t)
  BY <1>1, <1>2 DEF Holds
<1> QED BY <1>5, <1>6 DEF u

(* The parts that FlattenSeq joins stand one behind the other.             *)
Laid(f, s, e) ==
  /\ f \in [0..Len(s) -> Nat] /\ f[0] = 0 /\ f[Len(s)] = Len(e)
  /\ \A k \in 1..Len(s) : f[k] = f[k - 1] + Len(s[k]) /\ Holds(e, f[k - 1], s[k])

LEMMA FlattenLaid ==
  ASSUME NEW s \in Seq(Seq(Nat))
  PROVE  \E f : Laid(f, s, FlattenSeq(s))
<1> DEFINE n == Len(s)
<1>1. PICK g : Joins(g, s, Nat) /\ FlattenSeq(s) = g[n]
  BY FlattenJoins
<1>2. n \in Nat /\ \A k \in 1..n : s[k] \in Seq(Nat)
  OBVIOUS
<1>3. /\ \A k \in 0..n : g[k] \in Seq(Nat)
      /\ g[0] = <<>> /\ \A k \in 1..n : g[k] = g[k - 1] \o s[k]
  BY <1>1 DEF Joins
<1> HIDE DEF n
<1> DEFINE S == {j \in Nat : j <= n => \A k \in 1..j : Holds(g[j], Len(g[k - 1]), s[k])}
<1>4. 0 \in S
  OBVIOUS
<1>5. ASSUME NEW j \in Nat, j \in S PROVE j + 1 \in S
  <2> SUFFICES ASSUME j + 1 <= n, NEW k \in 1..(j + 1)
               PROVE  Holds(g[j + 1], Len(g[k - 1]), s[k])
    OBVIOUS
  <2>1. /\ j + 1 \in 1..n /\ j \in 0..n /\ (j + 1) - 1 = j
    BY <1>2
  <2>2. g[j + 1] = g[j] \o s[j + 1] /\ g[j] \in Seq(Nat) /\ s[j + 1] \in Seq(Nat)
    BY <1>2, <1>3, <2>1
  <2>3. CASE k = j + 1
    <3>1. Holds(g[j], 0, g[j])
      BY <2>2, HoldsItself
    <3>2. Holds(g[j] \o s[j + 1], Len(g[j]), s[j + 1])
      BY <2>2, <3>1, HoldsLonger
    <3> QED BY <2>1, <2>2, <2>3, <3>2
  <2>4. CASE k # j + 1
    <3>1. k \in 1..j
      BY <2>4
    <3>2. Holds(g[j], Len(g[k - 1]), s[k])
      BY <1>5, <2>1, <3>1
    <3> QED BY <2>2, <3>2, HoldsLonger
  <2> QED BY <2>3, <2>4
<1>6. \A k \in 1..n : Holds(g[n], Len(g[k - 1]), s[k])
  <2>1. Nat \subseteq S
    <3> HIDE DEF S
    <3> QED BY <1>4, <1>5, SetInduction
  <2> QED BY <1>2, <2>1
<1> DEFINE f == [k \in 0..n |-> Len(g[k])]
<1>7. /\ f \in [0..n -> Nat] /\ f[0] = 0 /\ f[n] = Len(g[n])
      /\ \A k \in 0..n : f[k] = Len(g[k])
  BY <1>2, <1>3
<1> HIDE DEF f
<1>8. \A k \in 1..n : f[k] = f[k - 1] + Len(s[k]) /\ Holds(g[n], f[k - 1], s[k])
  <2> TAKE k \in 1..n
  <2>1. k \in 0..n /\ k - 1 \in 0..n
    BY <1>2
  <2>2. Len(g[k - 1] \o s[k]) = Len(g[k - 1]) + Len(s[k])
    BY <1>2, <1>3, <2>1, Concatenated
  <2> QED BY <1>3, <1>6, <1>7, <2>1, <2>2
<1>9. Laid(f, s, FlattenSeq(s))
  BY <1>1, <1>7, <1>8 DEF Laid, n
<1> QED BY <1>9

(* A record: its header, and what it carries.                              *)
EndAt(h, k) == IF k = 0 THEN 0 ELSE Ends(h)[k]

LEMMA EndsGrow ==
  ASSUME NEW h, HelloTypeOK(h)
  PROVE  LET n == Len(Ends(h)) IN
         /\ n \in Nat \ {0}
         /\ \A k \in 0..n : EndAt(h, k) \in 0..Len(HelloMessage(h))
         /\ \A k \in 0..(n - 1) : EndAt(h, k) < EndAt(h, k + 1)
         /\ EndAt(h, 0) = 0 /\ EndAt(h, n) = Len(HelloMessage(h))
<1> DEFINE n == Len(Ends(h))
           m == Len(HelloMessage(h))
<1>1. /\ n \in Nat \ {0} /\ \A k \in 1..n : Ends(h)[k] \in 1..m
      /\ \A j, k \in 1..n : j < k => Ends(h)[j] < Ends(h)[k]
      /\ Ends(h)[n] = m
  BY EndsOrdered
<1>2. m \in Nat
  BY MessageBytes
<1> HIDE DEF n, m
<1>3. \A k \in 0..n : EndAt(h, k) \in 0..m
  BY <1>1, <1>2 DEF EndAt
<1>4. \A k \in 0..(n - 1) : EndAt(h, k) < EndAt(h, k + 1)
  <2> TAKE k \in 0..(n - 1)
  <2>1. k + 1 \in 1..n /\ k + 1 # 0
    BY <1>1
  <2>2. CASE k = 0
    BY <1>1, <1>2, <2>1, <2>2 DEF EndAt
  <2>3. CASE k # 0
    <3>1. k \in 1..n
      BY <1>1, <2>3
    <3> QED BY <1>1, <2>1, <2>3, <3>1 DEF EndAt
  <2> QED BY <2>2, <2>3
<1> QED BY <1>1, <1>3, <1>4 DEF EndAt, n, m

LEMMA PieceIs ==
  ASSUME NEW h, HelloTypeOK(h), NEW i \in 1..Len(Ends(h))
  PROVE  /\ Piece(h, i) \in Seq(Nat) /\ Len(Piece(h, i)) = EndAt(h, i) - EndAt(h, i - 1)
         /\ \A j \in 1..(EndAt(h, i) - EndAt(h, i - 1)) :
              Piece(h, i)[j] = HelloMessage(h)[EndAt(h, i - 1) + j]
         /\ EndAt(h, i - 1) < EndAt(h, i) /\ EndAt(h, i - 1) \in Nat
         /\ EndAt(h, i) \in Nat /\ EndAt(h, i) <= Len(HelloMessage(h))
<1> DEFINE m == HelloMessage(h)
           from == EndAt(h, i - 1)
           to == EndAt(h, i)
           n == Len(Ends(h))
<1>1. n \in Nat /\ m \in Seq(Nat) /\ Len(m) \in Nat
  BY EndsGrow, MessageBytes
<1>2. i \in 0..n /\ i - 1 \in 0..n /\ i - 1 \in 0..(n - 1) /\ (i - 1) + 1 = i
  BY <1>1
<1>3. from \in Nat /\ to \in Nat /\ from < to /\ to <= Len(m)
  <2>1. from \in 0..Len(m) /\ to \in 0..Len(m) /\ from < to
    BY <1>2, EndsGrow
  <2> HIDE DEF from, to
  <2> QED BY <1>1, <2>1
<1>4. Piece(h, i) = Slice(m, from, to)
  <2>1. to = Ends(h)[i]
    BY <1>1 DEF EndAt
  <2>2. from = IF i = 1 THEN 0 ELSE Ends(h)[i - 1]
    BY <1>1 DEF EndAt
  <2> QED BY <2>1, <2>2, Zenon DEF Piece
<1> HIDE DEF from, to, m, n
<1> DEFINE p == SubSeq(m, from + 1, to)
<1>5. Slice(m, from, to) = p
  <2>1. (IF to < Len(m) THEN to ELSE Len(m)) = to
    BY <1>1, <1>3
  <2> QED BY <2>1, Zenon DEF Slice
<1>6. p \in Seq(Nat) /\ Len(p) = to - from /\ \A j \in 1..(to - from) : p[j] = m[from + j]
  <2>1. from + 1 \in Int /\ to \in Int /\ from + 1 <= to
        /\ \A j \in (from + 1)..to : m[j] \in Nat
    BY <1>1, <1>3
  <2>2. /\ p \in Seq(Nat)
        /\ Len(p) = IF from + 1 <= to THEN to - (from + 1) + 1 ELSE 0
        /\ \A j \in 1..(to - (from + 1) + 1) : p[j] = m[(from + 1) + j - 1]
    BY <2>1, SubSeqProperties
  <2>3. to - (from + 1) + 1 = to - from
    BY <1>3
  <2>4. \A j \in 1..(to - from) : p[j] = m[from + j]
    <3> TAKE j \in 1..(to - from)
    <3>1. j \in 1..(to - (from + 1) + 1) /\ (from + 1) + j - 1 = from + j
      BY <1>3
    <3> HIDE DEF p
    <3> QED BY <2>2, <3>1
  <2> HIDE DEF p
  <2> QED BY <2>1, <2>2, <2>3, <2>4
<1> QED BY <1>3, <1>4, <1>5, <1>6 DEF from, to, m

LEMMA RecordHeld ==
  ASSUME NEW h, HelloTypeOK(h), NEW i \in 1..Len(Ends(h))
  PROVE  /\ Record(h, i) \in Seq(Nat) /\ Len(Record(h, i)) = 5 + Len(Piece(h, i))
         /\ \A data, o : Holds(data, o, Record(h, i)) =>
              /\ At(data, o) = 22 /\ At(data, o + 1) = 3
              /\ UInt16(data, o + 3) = Len(Piece(h, i))
              /\ Holds(data, o + 5, Piece(h, i))
<1> DEFINE p == Piece(h, i)
           q == Prefixed16(p)
           t == <<22, 3, 1>>
<1>1. p \in Seq(Nat)
  BY PieceIs
<1> HIDE DEF p
<1>2. q \in Seq(Nat) /\ Len(q) = 2 + Len(p)
  BY <1>1, Prefixed
<1>3. t \in Seq(Nat) /\ Len(t) = 3
  OBVIOUS
<1>4. Record(h, i) = t \o q
  BY DEF Record, ContentTypeHandshake, p
<1> HIDE DEF q, t
<1>5. t \o q \in Seq(Nat) /\ Len(t \o q) = 5 + Len(p)
  <2>1. t \o q \in Seq(Nat) /\ Len(t \o q) = Len(t) + Len(q)
    BY <1>2, <1>3, Concatenated
  <2>2. Len(p) \in Nat
    BY <1>1
  <2> QED BY <1>2, <1>3, <2>1, <2>2
<1>6. ASSUME NEW data, NEW o, Holds(data, o, t \o q)
      PROVE  /\ At(data, o) = 22 /\ At(data, o + 1) = 3
             /\ UInt16(data, o + 3) = Len(p) /\ Holds(data, o + 5, p)
  <2>1. Holds(data, o, t) /\ Holds(data, o + 3, q)
    <3>1. Holds(data, o, t) /\ Holds(data, o + Len(t), q)
      BY <1>2, <1>3, <1>6, HoldsBoth
    <3> QED BY <1>3, <3>1
  <2>2. At(data, o) = 22 /\ At(data, o + 1) = 3
    <3>1. data[o + 1] = t[1] /\ data[o + 2] = t[2] /\ o \in Nat
      BY <1>3, <2>1 DEF Holds
    <3>2. t[1] = 22 /\ t[2] = 3 /\ o + 1 + 1 = o + 2
      BY <3>1 DEF t
    <3> QED BY <3>1, <3>2 DEF At
  <2>3. o + 3 + 2 = o + 5 /\ o \in Nat
    BY <2>1 DEF Holds
  <2> DEFINE r == o + 3
  <2>4. Holds(data, r, Prefixed16(p))
    BY <2>1 DEF q
  <2> HIDE DEF r
  <2>5. UInt16(data, r) = Len(p) /\ Holds(data, r + 2, p)
    BY <1>1, <2>4, HoldsLong
  <2> QED BY <2>2, <2>3, <2>5 DEF r
<1> QED BY <1>4, <1>5, <1>6 DEF p

RecordsAt(f, h, e) ==
  LET n == Len(Ends(h)) IN
  /\ f \in [0..n -> Nat] /\ f[0] = 0 /\ f[n] = Len(e) /\ e \in Seq(Nat)
  /\ \A k \in 1..n : /\ f[k] = f[k - 1] + 5 + Len(Piece(h, k))
                     /\ Holds(e, f[k - 1], Record(h, k))

LEMMA HelloLaid ==
  ASSUME NEW h, HelloTypeOK(h)
  PROVE  \E f : RecordsAt(f, h, EncodeHello(h))
<1> DEFINE n == Len(Ends(h))
           s == [i \in DOMAIN Ends(h) |-> Record(h, i)]
<1>1. n \in Nat /\ DOMAIN Ends(h) = 1..n
  BY EndsOrdered
<1>2. \A k \in 1..n : /\ Record(h, k) \in Seq(Nat) /\ Len(Piece(h, k)) \in Nat
                      /\ Len(Record(h, k)) = 5 + Len(Piece(h, k))
  BY RecordHeld, PieceIs
<1>3. s \in Seq(Seq(Nat)) /\ Len(s) = n /\ \A k \in 1..n : s[k] = Record(h, k)
  BY <1>1, <1>2
<1>4. EncodeHello(h) = FlattenSeq(s)
  BY EncodeIs, Zenon
<1> HIDE DEF n, s
<1>5. PICK f : Laid(f, s, FlattenSeq(s))
  BY <1>3, FlattenLaid
<1>6. /\ f \in [0..n -> Nat] /\ f[0] = 0 /\ f[n] = Len(EncodeHello(h))
      /\ \A k \in 1..n : f[k] = f[k - 1] + Len(s[k]) /\ Holds(EncodeHello(h), f[k - 1], s[k])
  BY <1>3, <1>4, <1>5 DEF Laid
<1>7. \A k \in 1..n : /\ f[k] = f[k - 1] + 5 + Len(Piece(h, k))
                      /\ Holds(EncodeHello(h), f[k - 1], Record(h, k))
  <2> TAKE k \in 1..n
  <2>1. f[k] = f[k - 1] + Len(s[k]) /\ Holds(EncodeHello(h), f[k - 1], s[k])
    BY <1>6
  <2>2. s[k] = Record(h, k) /\ Len(s[k]) = 5 + Len(Piece(h, k)) /\ Len(Piece(h, k)) \in Nat
    BY <1>2, <1>3
  <2>3. f[k - 1] \in Nat
    <3>1. k - 1 \in 0..n
      BY <1>1
    <3> QED BY <1>6, <3>1
  <2>4. f[k] = f[k - 1] + 5 + Len(Piece(h, k))
    BY <2>1, <2>2, <2>3
  <2> QED BY <2>1, <2>2, <2>4
<1>8. EncodeHello(h) \in Seq(Nat)
  BY HelloBytes
<1>9. RecordsAt(f, h, EncodeHello(h))
  BY <1>6, <1>7, <1>8 DEF RecordsAt, n
<1> QED BY <1>9

(* What the reader has collected behind k records.                         *)
Behind(f, h, k) ==
  [o |-> f[k], body |-> SubSeq(HelloMessage(h), 1, EndAt(h, k))]

LEMMA PartCollected ==
  ASSUME NEW h, HelloTypeOK(h), NEW k \in 0..Len(Ends(h))
  PROVE  LET body == SubSeq(HelloMessage(h), 1, EndAt(h, k)) IN
         /\ body \in Seq(Nat) /\ Len(body) = EndAt(h, k)
         /\ Enough(body) <=> k = Len(Ends(h))
<1> DEFINE m == HelloMessage(h)
           n == Len(Ends(h))
           size == EndAt(h, k)
           body == SubSeq(m, 1, size)
<1>1. /\ m \in Seq(Nat) /\ Len(m) \in Nat /\ Len(m) >= 42 /\ 4 + UInt24(m, 1) = Len(m)
  BY MessageHeld
<1>2. n \in Nat /\ size \in 0..Len(m) /\ (k = n => size = Len(m)) /\ (k # n => size < Len(m))
  <2>1. /\ n \in Nat /\ size \in 0..Len(m) /\ EndAt(h, n) = Len(m)
        /\ \A j \in 0..(n - 1) : EndAt(h, j) < EndAt(h, j + 1)
    BY EndsGrow
  <2>2. ASSUME k # n PROVE size < Len(m)
    <3>1. k \in 0..(n - 1) /\ k + 1 \in 0..n
      BY <2>1, <2>2
    <3>2. EndAt(h, k) < EndAt(h, k + 1) /\ EndAt(h, k + 1) \in 0..Len(m)
      BY <2>1, <3>1, EndsGrow
    <3> QED BY <1>1, <2>1, <3>2
  <2> QED BY <2>1, <2>2
<1> HIDE DEF m, n, size
<1>3. /\ body \in Seq(Nat) /\ Len(body) = size /\ \A i \in 1..size : body[i] = m[i]
  BY <1>1, <1>2, PrefixIs
<1> HIDE DEF body
<1>4. Enough(body) <=> size = Len(m)
  <2>1. CASE size >= 4
    <3>1. body[2] = m[2] /\ body[3] = m[3] /\ body[4] = m[4]
      BY <1>2, <1>3, <2>1
    <3>2. UInt24(body, 1) = UInt24(m, 1)
      BY <3>1 DEF UInt24, UInt16, At
    <3>3. Total(body) = Len(m)
      BY <1>1, <3>2 DEF Total, HandshakeHeaderSize
    <3>4. TotalKnown(body)
      BY <1>3, <2>1 DEF TotalKnown, HandshakeHeaderSize
    <3> QED BY <1>1, <1>2, <1>3, <3>3, <3>4 DEF Enough
  <2>2. CASE ~(size >= 4)
    BY <1>1, <1>2, <1>3, <2>2 DEF Enough, TotalKnown, HandshakeHeaderSize
  <2> QED BY <2>1, <2>2
<1>5. Enough(body) <=> k = n
  BY <1>1, <1>2, <1>4
<1> QED BY <1>3, <1>5 DEF body, m, n, size

LEMMA NextCollected ==
  ASSUME NEW h, HelloTypeOK(h), NEW k \in 0..(Len(Ends(h)) - 1)
  PROVE  SubSeq(HelloMessage(h), 1, EndAt(h, k)) \o Piece(h, k + 1)
           = SubSeq(HelloMessage(h), 1, EndAt(h, k + 1))
<1> DEFINE m == HelloMessage(h)
           n == Len(Ends(h))
           a == EndAt(h, k)
           b == EndAt(h, k + 1)
           s == SubSeq(m, 1, a)
           t == SubSeq(m, 1, b)
           p == Piece(h, k + 1)
<1>1. n \in Nat /\ m \in Seq(Nat) /\ Len(m) \in Nat
  BY EndsGrow, MessageBytes
<1>2. k + 1 \in 1..n /\ (k + 1) - 1 = k
  BY <1>1
<1>3. /\ p \in Seq(Nat) /\ Len(p) = b - a /\ \A j \in 1..(b - a) : p[j] = m[a + j]
      /\ a < b /\ a \in Nat /\ b \in Nat /\ b <= Len(m)
  <2>1. k + 1 \in 1..Len(Ends(h))
    BY <1>2
  <2> QED BY <1>2, <2>1, PieceIs
<1> HIDE DEF m, n, a, b, p
<1>4. /\ s \in Seq(Nat) /\ Len(s) = a /\ \A i \in 1..a : s[i] = m[i]
      /\ t \in Seq(Nat) /\ Len(t) = b /\ \A i \in 1..b : t[i] = m[i]
  <2>1. a \in 0..Len(m) /\ b \in 0..Len(m)
    BY <1>1, <1>3
  <2> QED BY <1>1, <2>1, PrefixIs
<1> HIDE DEF s, t
<1> DEFINE u == s \o p
<1>5. /\ u \in Seq(Nat) /\ Len(u) = b
      /\ \A i \in 1..a : u[i] = s[i]
      /\ \A i \in 1..(b - a) : u[a + i] = p[i]
  <2>1. /\ u \in Seq(Nat) /\ Len(u) = Len(s) + Len(p)
        /\ \A i \in 1..Len(s) : u[i] = s[i]
        /\ \A i \in 1..Len(p) : u[Len(s) + i] = p[i]
    BY <1>3, <1>4, Concatenated
  <2> HIDE DEF u
  <2> QED BY <1>3, <1>4, <2>1
<1> HIDE DEF u
<1>6. \A i \in 1..Len(u) : u[i] = t[i]
  <2> TAKE i \in 1..Len(u)
  <2>1. CASE i <= a
    <3>1. i \in 1..a /\ i \in 1..b
      BY <1>3, <1>5, <2>1
    <3> QED BY <1>4, <1>5, <3>1
  <2>2. CASE ~(i <= a)
    <3>1. i - a \in 1..(b - a) /\ a + (i - a) = i /\ i \in 1..b
      BY <1>3, <1>5, <2>2
    <3>2. u[a + (i - a)] = p[i - a] /\ p[i - a] = m[a + (i - a)]
      BY <1>3, <1>5, <3>1
    <3> QED BY <1>4, <3>1, <3>2
  <2> QED BY <2>1, <2>2
<1>7. u = t
  BY <1>4, <1>5, <1>6, SeqEqual
<1> QED BY <1>7 DEF u, s, t, p, a, b, m

(* A record's header, and its body, as far as they have arrived.           *)
LEMMA HeaderRead ==
  ASSUME NEW h, HelloTypeOK(h), NEW f, NEW e, RecordsAt(f, h, e),
         NEW k \in 1..Len(Ends(h)), NEW buf \in Seq(Nat), Begins(buf, e),
         HeaderThere(buf, f[k - 1])
  PROVE  /\ At(buf, f[k - 1]) = 22 /\ At(buf, f[k - 1] + 1) = 3
         /\ UInt16(buf, f[k - 1] + 3) = Len(Piece(h, k))
         /\ Len(Piece(h, k)) \in Nat \ {0}
         /\ ~BadRecord(buf, f[k - 1])
         /\ BodyThere(buf, f[k - 1]) <=> f[k] <= Len(buf)
         /\ RecordEnd(buf, f[k - 1]) = f[k]
<1> DEFINE o == f[k - 1]
           p == Len(Piece(h, k))
<1>1. /\ Holds(e, o, Record(h, k)) /\ f[k] = o + 5 + p
      /\ e \in Seq(Nat)
  BY DEF RecordsAt
<1>2. p \in Nat /\ p # 0
  BY PieceIs
<1>3. At(e, o) = 22 /\ At(e, o + 1) = 3 /\ UInt16(e, o + 3) = p
  BY <1>1, RecordHeld
<1>4. o \in Nat /\ o + (5 + p) <= Len(e) /\ Len(e) \in Nat /\ Len(buf) \in Nat
  <2>1. Len(Record(h, k)) = 5 + p
    BY RecordHeld
  <2>2. o + Len(Record(h, k)) <= Len(e) /\ o \in Nat
    BY <1>1, HoldsEnds
  <2>3. Len(e) \in Nat /\ Len(buf) \in Nat
    BY <1>1
  <2> HIDE DEF o, p
  <2> QED BY <2>1, <2>2, <2>3
<1>5. o + 5 <= Len(buf)
  BY DEF HeaderThere, RecordHeaderSize
<1> HIDE DEF o, p
<1>6. \A i \in 1..5 : buf[o + i] = e[o + i]
  <2> TAKE i \in 1..5
  <2>1. o + i \in 1..Len(e) /\ o + i <= Len(buf)
    BY <1>2, <1>4, <1>5
  <2> QED BY <2>1 DEF Begins
<1>7. buf[o + 1] = e[o + 1] /\ buf[o + 2] = e[o + 2] /\ buf[o + 4] = e[o + 4]
      /\ buf[o + 5] = e[o + 5]
  BY <1>6
<1>8. At(buf, o) = 22 /\ At(buf, o + 1) = 3 /\ UInt16(buf, o + 3) = p
  <2>1. o + 1 + 1 = o + 2 /\ o + 3 + 1 = o + 4 /\ o + 3 + 1 + 1 = o + 5
    BY <1>4
  <2> QED BY <1>3, <1>7, <2>1, ZenonT(60) DEF At, UInt16
<1>9. ~BadRecord(buf, o)
  BY <1>2, <1>8 DEF BadRecord, ContentTypeHandshake
<1>10. BodyThere(buf, o) <=> f[k] <= Len(buf)
  BY <1>1, <1>4, <1>5, <1>8 DEF BodyThere, HeaderThere, RecordHeaderSize
<1>11. RecordEnd(buf, o) = f[k]
  BY <1>1, <1>8 DEF RecordEnd, RecordHeaderSize
<1> QED BY <1>2, <1>8, <1>9, <1>10, <1>11 DEF o, p

LEMMA ReadOn ==
  ASSUME NEW h, HelloTypeOK(h), NEW f, NEW e, RecordsAt(f, h, e),
         NEW k \in 0..(Len(Ends(h)) - 1), NEW buf \in Seq(Nat), Begins(buf, e)
  PROVE  /\ Behind(f, h, k) \in Places
         /\ f[k + 1] <= Len(buf) =>
              /\ ~Stops(buf, Behind(f, h, k))
              /\ NextPlace(buf, Behind(f, h, k)) = Behind(f, h, k + 1)
         /\ ~(f[k + 1] <= Len(buf)) =>
              /\ Stops(buf, Behind(f, h, k))
              /\ Answer(buf, Behind(f, h, k)) = [state |-> "incomplete"]
<1> DEFINE n == Len(Ends(h))
           o == f[k]
           body == SubSeq(HelloMessage(h), 1, EndAt(h, k))
           p == Piece(h, k + 1)
<1>1. n \in Nat
  BY EndsGrow
<1>2. k \in 0..n /\ k + 1 \in 1..n /\ (k + 1) - 1 = k /\ k # n
  BY <1>1
<1>3. o \in Nat /\ f[k + 1] = o + 5 + Len(p) /\ Holds(e, o, Record(h, k + 1))
  BY <1>2 DEF RecordsAt
<1>4. body \in Seq(Nat) /\ ~Enough(body)
  BY <1>2, PartCollected
<1>5. Behind(f, h, k).o = o /\ Behind(f, h, k).body = body
  BY DEF Behind
<1>6. Behind(f, h, k) \in Places
  BY <1>3, <1>4 DEF Behind, Places
<1>7. HeaderThere(buf, o) =>
        /\ ~BadRecord(buf, o) /\ (BodyThere(buf, o) <=> f[k + 1] <= Len(buf))
        /\ RecordEnd(buf, o) = f[k + 1]
  <2> SUFFICES ASSUME HeaderThere(buf, o)
               PROVE  /\ ~BadRecord(buf, o) /\ (BodyThere(buf, o) <=> f[k + 1] <= Len(buf))
                      /\ RecordEnd(buf, o) = f[k + 1]
    OBVIOUS
  <2> DEFINE j == k + 1
  <2>1. j \in 1..Len(Ends(h)) /\ f[j - 1] = o
    BY <1>2
  <2> HIDE DEF j, o
  <2>2. HeaderThere(buf, f[j - 1])
    BY <2>1
  <2>3. /\ ~BadRecord(buf, f[j - 1])
        /\ BodyThere(buf, f[j - 1]) <=> f[j] <= Len(buf)
        /\ RecordEnd(buf, f[j - 1]) = f[j]
    BY <2>1, <2>2, HeaderRead, SMTT(30)
  <2>4. ~BadRecord(buf, o) /\ (BodyThere(buf, o) <=> f[j] <= Len(buf)) /\ RecordEnd(buf, o) = f[j]
    BY <2>1, <2>3
  <2> QED BY <2>4 DEF j
<1>8. p \in Seq(Nat) /\ Len(p) \in Nat /\ Len(buf) \in Nat
  BY <1>2, PieceIs
<1>9. ASSUME f[k + 1] <= Len(buf)
      PROVE  ~Stops(buf, Behind(f, h, k)) /\ NextPlace(buf, Behind(f, h, k)) = Behind(f, h, k + 1)
  <2>1. HeaderThere(buf, o)
    BY <1>3, <1>8, <1>9 DEF HeaderThere, RecordHeaderSize
  <2>2. ~Stops(buf, Behind(f, h, k))
    BY <1>4, <1>5, <1>7, <1>9, <2>1 DEF Stops
  <2>3. RecordEnd(buf, o) = f[k + 1]
    BY <1>7, <2>1
  <2>4. Slice(buf, o + 5, f[k + 1]) = p
    <3> DEFINE r == o + 5
               l == Len(p)
    <3>1. Holds(e, r, p)
      BY <1>2, <1>3, RecordHeld
    <3>2. r \in Nat /\ r + l = f[k + 1] /\ l \in Nat
      BY <1>3, <1>8
    <3> HIDE DEF r
    <3>3. r + l <= Len(e) /\ Len(e) \in Nat /\ \A i \in 1..l : e[r + i] = p[i]
      BY <3>1 DEF Holds
    <3> HIDE DEF l
    <3>4. r + l <= Len(buf)
      BY <1>9, <3>2
    <3>5. \A i \in 1..l : buf[r + i] = p[i]
      <4> TAKE i \in 1..l
      <4>1. r + i \in 1..Len(e) /\ r + i <= Len(buf)
        BY <1>8, <3>2, <3>3, <3>4
      <4> QED BY <3>3, <4>1 DEF Begins
    <3> HIDE DEF p, o
    <3>6. Slice(buf, r, r + l) = p
      BY <1>8, <3>2, <3>4, <3>5, Sliced DEF l
    <3> QED BY <3>2, <3>6 DEF r
  <2>5. body \o p = SubSeq(HelloMessage(h), 1, EndAt(h, k + 1))
    BY NextCollected
  <2>6. NextPlace(buf, Behind(f, h, k)) =
          [o |-> f[k + 1], body |-> body \o Slice(buf, o + 5, f[k + 1])]
    BY <1>5, <2>3, Zenon DEF NextPlace, RecordHeaderSize
  <2> QED BY <2>2, <2>4, <2>5, <2>6, Zenon DEF Behind
<1>10. ASSUME ~(f[k + 1] <= Len(buf))
       PROVE  /\ Stops(buf, Behind(f, h, k))
              /\ Answer(buf, Behind(f, h, k)) = [state |-> "incomplete"]
  <2>1. ~BodyThere(buf, o) /\ ~BadRecord(buf, o)
    <3>1. CASE HeaderThere(buf, o)
      BY <1>7, <1>10, <3>1
    <3>2. CASE ~HeaderThere(buf, o)
      BY <3>2 DEF BodyThere, BadRecord
    <3> QED BY <3>1, <3>2
  <2> QED BY <1>4, <1>5, <2>1, Zenon DEF Stops, Answer
<1> QED BY <1>6, <1>9, <1>10

(* The reader comes behind every record that is there.                     *)
LEMMA ReadUpto ==
  ASSUME NEW h, HelloTypeOK(h), NEW f, NEW e, RecordsAt(f, h, e),
         NEW buf \in Seq(Nat), Begins(buf, e),
         NEW k \in 0..Len(Ends(h)), f[k] <= Len(buf)
  PROVE  Reader(buf)[At0] = Reader(buf)[Behind(f, h, k)]
<1> DEFINE n == Len(Ends(h))
           S == {j \in Nat : j <= n /\ f[j] <= Len(buf) =>
                               Reader(buf)[At0] = Reader(buf)[Behind(f, h, j)]}
<1>1. n \in Nat
  BY EndsGrow
<1>2. 0 \in S
  <2>1. EndAt(h, 0) = 0
    BY DEF EndAt
  <2>2. SubSeq(HelloMessage(h), 1, 0) = <<>>
    BY MessageBytes
  <2>3. f[0] = 0
    BY DEF RecordsAt
  <2>4. Behind(f, h, 0) = At0
    BY <2>1, <2>2, <2>3, Zenon DEF Behind, At0
  <2> QED BY <2>4
<1>3. ASSUME NEW j \in Nat, j \in S PROVE j + 1 \in S
  <2> SUFFICES ASSUME j + 1 <= n, f[j + 1] <= Len(buf)
               PROVE  Reader(buf)[At0] = Reader(buf)[Behind(f, h, j + 1)]
    OBVIOUS
  <2>1. j \in 0..(n - 1) /\ j \in 0..n /\ j + 1 \in 1..n /\ (j + 1) - 1 = j
    BY <1>1
  <2>2. f[j] <= f[j + 1]
    <3>1. f[j + 1] = f[j] + 5 + Len(Piece(h, j + 1)) /\ f[j] \in Nat
      BY <2>1 DEF RecordsAt
    <3>2. Len(Piece(h, j + 1)) \in Nat
      BY <2>1, PieceIs
    <3> QED BY <3>1, <3>2
  <2>3. f[j] \in Nat /\ f[j + 1] \in Nat /\ Len(buf) \in Nat
    <3>1. j + 1 \in 0..n
      BY <1>1, <2>1
    <3>2. f \in [0..n -> Nat]
      BY DEF RecordsAt
    <3> HIDE DEF n
    <3> QED BY <2>1, <3>1, <3>2
  <2>4. Reader(buf)[At0] = Reader(buf)[Behind(f, h, j)]
    BY <1>3, <2>1, <2>2, <2>3
  <2>5. /\ Behind(f, h, j) \in Places /\ ~Stops(buf, Behind(f, h, j))
        /\ NextPlace(buf, Behind(f, h, j)) = Behind(f, h, j + 1)
    BY <2>1, ReadOn
  <2>6. Reader(buf)[Behind(f, h, j)] = Reader(buf)[NextPlace(buf, Behind(f, h, j))]
    BY <2>5, ReaderAt
  <2> QED BY <2>4, <2>5, <2>6
<1>4. Nat \subseteq S
  <2> HIDE DEF S
  <2> QED BY <1>2, <1>3, SetInduction
<1> QED BY <1>1, <1>4

(* A ClientHello is known by its first six bytes, incomplete without its   *)
(* last byte, and read as one message however it was cut.                  *)
LEMMA HelloRead ==
  ASSUME NEW h, HelloTypeOK(h), NEW buf \in Seq(Nat), Begins(buf, EncodeHello(h))
  PROVE  /\ Len(buf) >= Len(EncodeHello(h)) =>
              ReadHandshake(buf) = [state |-> "complete", message |-> HelloMessage(h)]
         /\ ~(Len(buf) >= Len(EncodeHello(h))) =>
              ReadHandshake(buf) = [state |-> "incomplete"]
<1> DEFINE e == EncodeHello(h)
           m == HelloMessage(h)
           n == Len(Ends(h))
<1>1. PICK f : RecordsAt(f, h, e)
  BY HelloLaid
<1>2. n \in Nat \ {0} /\ EndAt(h, n) = Len(m) /\ m \in Seq(Nat) /\ Len(m) \in Nat
  BY EndsGrow, MessageBytes
<1>3. f[n] = Len(e) /\ f \in [0..n -> Nat] /\ Len(buf) \in Nat /\ f[0] = 0
  BY <1>1 DEF RecordsAt
<1>4. Begins(buf, e)
  OBVIOUS
<1> HIDE DEF e
<1>5. ASSUME Len(buf) >= Len(e)
      PROVE  ReadHandshake(buf) = [state |-> "complete", message |-> m]
  <2> DEFINE b == Behind(f, h, n)
  <2>1. n \in 0..n
    BY <1>2
  <2>2. Reader(buf)[At0] = Reader(buf)[b]
    BY <1>1, <1>3, <1>4, <1>5, <2>1, ReadUpto
  <2>3. b.o = f[n] /\ b.body = SubSeq(m, 1, Len(m))
    BY <1>2 DEF Behind
  <2>4. SubSeq(m, 1, Len(m)) = m
    BY <1>2
  <2>5. Enough(m)
    BY <1>2, <2>1, <2>4, PartCollected, ZenonT(60)
  <2>6. Total(m) = Len(m)
    BY MessageHeld DEF Total, HandshakeHeaderSize
  <2>7. Slice(m, 0, Len(m)) = m
    <3>1. 0 + Len(m) = Len(m) /\ \A i \in 1..Len(m) : m[0 + i] = m[i]
      BY <1>2
    <3> HIDE DEF m
    <3>2. Slice(m, 0, 0 + Len(m)) = m
      BY <1>2, <3>1, Sliced
    <3> QED BY <3>1, <3>2
  <2>8. b \in Places
    <3>1. f[n] \in Nat
      BY <1>3, <2>1
    <3> HIDE DEF m
    <3> QED BY <1>2, <2>4, <3>1 DEF Behind, Places, m
  <2>9. Stops(buf, b) /\ Answer(buf, b) = [state |-> "complete", message |-> m]
    <3>1. b.body = m
      BY <2>3, <2>4
    <3> HIDE DEF b, m
    <3> QED BY <2>5, <2>6, <2>7, <3>1, Zenon DEF Stops, Answer
  <2> HIDE DEF b
  <2> QED BY <2>2, <2>8, <2>9, ReaderAt, ReadIsReader
<1>6. ASSUME ~(Len(buf) >= Len(e))
      PROVE  ReadHandshake(buf) = [state |-> "incomplete"]
  <2>1. \E k \in 0..(n - 1) : f[k] <= Len(buf) /\ ~(f[k + 1] <= Len(buf))
    <3> SUFFICES ASSUME \A k \in 0..(n - 1) : f[k] <= Len(buf) => f[k + 1] <= Len(buf)
                 PROVE  FALSE
      OBVIOUS
    <3> DEFINE S == {j \in Nat : j <= n => f[j] <= Len(buf)}
    <3>1. 0 \in S
      BY <1>3
    <3>2. ASSUME NEW j \in Nat, j \in S PROVE j + 1 \in S
      <4> SUFFICES ASSUME j + 1 <= n PROVE f[j + 1] <= Len(buf)
        OBVIOUS
      <4>1. j \in 0..(n - 1) /\ j <= n
        BY <1>2
      <4> QED BY <3>2, <4>1
    <3>3. Nat \subseteq S
      <4> HIDE DEF S
      <4> QED BY <3>1, <3>2, SetInduction
    <3>4. f[n] <= Len(buf)
      BY <1>2, <3>3
    <3>5. f[n] \in Nat
      BY <1>2, <1>3
    <3> QED BY <1>3, <1>6, <3>4, <3>5
  <2>2. PICK k \in 0..(n - 1) : f[k] <= Len(buf) /\ ~(f[k + 1] <= Len(buf))
    BY <2>1
  <2>3. k \in 0..n
    BY <1>2
  <2>4. Reader(buf)[At0] = Reader(buf)[Behind(f, h, k)]
    BY <1>1, <1>4, <2>2, <2>3, ReadUpto
  <2>5. /\ Behind(f, h, k) \in Places /\ Stops(buf, Behind(f, h, k))
        /\ Answer(buf, Behind(f, h, k)) = [state |-> "incomplete"]
    BY <1>1, <1>4, <2>2, ReadOn
  <2> QED BY <2>4, <2>5, ReaderAt, ReadIsReader
<1> QED BY <1>5, <1>6 DEF e

LEMMA HelloKnown ==
  ASSUME NEW h, HelloTypeOK(h), NEW buf \in Seq(Nat), Begins(buf, EncodeHello(h))
  PROVE  /\ Len(EncodeHello(h)) \in Nat /\ Len(EncodeHello(h)) > 5
         /\ IsClientHello(buf) <=> Len(buf) > 5
<1> DEFINE e == EncodeHello(h)
           m == HelloMessage(h)
           p == Piece(h, 1)
<1>1. PICK f : RecordsAt(f, h, e)
  BY HelloLaid
<1>2. 1 \in 1..Len(Ends(h)) /\ 1 - 1 = 0
  BY EndsGrow
<1>3. f[1 - 1] = 0 /\ Holds(e, 0, Record(h, 1)) /\ e \in Seq(Nat)
  BY <1>1, <1>2 DEF RecordsAt
<1>4. Holds(e, 0 + 5, p)
  BY <1>2, <1>3, RecordHeld
<1>5. p[1] = 1 /\ Len(p) >= 1 /\ Len(p) \in Nat
  <2>1. EndAt(h, 0) = 0
    BY DEF EndAt
  <2>2. /\ Len(p) = EndAt(h, 1) - 0 /\ 0 < EndAt(h, 1) /\ EndAt(h, 1) \in Nat
        /\ \A j \in 1..(EndAt(h, 1) - 0) : p[j] = m[0 + j]
    BY <1>2, <2>1, PieceIs
  <2>3. At(m, 0) = 1
    BY MessageHeld
  <2> HIDE DEF p, m
  <2> QED BY <2>2, <2>3 DEF At
<1> HIDE DEF p
<1>6. e[5 + 1] = 1 /\ 5 + Len(p) <= Len(e) /\ Len(e) \in Nat
  <2>1. 0 + 5 = 5
    OBVIOUS
  <2>2. Holds(e, 5, p)
    BY <1>4, <2>1
  <2>3. 1 \in 1..Len(p)
    BY <1>5
  <2> HIDE DEF e
  <2> QED BY <1>3, <1>5, <2>2, <2>3, SMTT(30) DEF Holds
<1>7. ASSUME Len(buf) > 5 PROVE At(buf, 0) = 22 /\ At(buf, 1) = 3 /\ At(buf, 5) = 1
  <2>1. HeaderThere(buf, f[1 - 1])
    BY <1>3, <1>7 DEF HeaderThere, RecordHeaderSize
  <2>2. Begins(buf, e)
    OBVIOUS
  <2> HIDE DEF e
  <2>3. At(buf, f[1 - 1]) = 22 /\ At(buf, f[1 - 1] + 1) = 3
    BY <1>1, <1>2, <2>1, <2>2, HeaderRead
  <2>4. 0 + 1 = 1
    OBVIOUS
  <2>5. 6 \in 1..Len(e) /\ 6 <= Len(buf) /\ 5 + 1 = 6
    BY <1>5, <1>6, <1>7
  <2>6. buf[6] = e[6]
    BY <2>2, <2>5 DEF Begins
  <2>7. At(buf, 5) = 1
    BY <1>6, <2>5, <2>6 DEF At
  <2> QED BY <1>3, <2>3, <2>4, <2>7
<1> QED BY <1>5, <1>6, <1>7 DEF IsClientHello, e

-----------------------------------------------------------------------------
(* parseClientHello() and parseServerNameList(): two loops over offsets,   *)
(* which grow and stop at the end.                                         *)

IsWalk(g, data, end) ==
  g = [o \in Nat |->
         IF o + 4 > end THEN Null
         ELSE IF UInt16(data, o) = ExtensionServerName
              THEN ParseServerNameList(
                     Slice(data, o + 4, Smaller(o + 4 + UInt16(data, o + 2), end)))
         ELSE g[o + 4 + UInt16(data, o + 2)]]

Walker(data, end) == CHOOSE g : IsWalk(g, data, end)

LEMMA WalkIs ==
  \A data, from, end : ServerName(data, from, end) = Walker(data, end)[from]
BY Zenon DEF ServerName, Walker, IsWalk

IsName(g, data, end) ==
  g = [o \in Nat |->
         IF o + 3 > end \/ o + 3 + UInt16(data, o + 1) > end THEN Null
         ELSE IF At(data, o) = NameTypeHostName
              THEN Found(Slice(data, o + 3, o + 3 + UInt16(data, o + 1)))
         ELSE g[o + 3 + UInt16(data, o + 1)]]

Namer(data, end) == CHOOSE g : IsName(g, data, end)

LEMMA NameIs ==
  \A data : ParseServerNameList(data) =
    IF Len(data) < 2 THEN Null
    ELSE Namer(data, Smaller(2 + UInt16(data, 0), Len(data)))[2]
BY Zenon DEF ParseServerNameList, Namer, IsName

(* A length in the data is a number.                                       *)
LEMMA LengthThere ==
  ASSUME NEW data \in Seq(Nat), NEW o \in Nat, o + 2 <= Len(data)
  PROVE  UInt16(data, o) \in Nat
<1>1. o + 1 \in 1..Len(data) /\ o + 1 + 1 \in 1..Len(data)
  OBVIOUS
<1>2. data[o + 1] \in Nat /\ data[o + 1 + 1] \in Nat
  BY <1>1
<1> QED BY <1>2 DEF UInt16, At

LEMMA WalkAt ==
  ASSUME NEW data \in Seq(Nat), NEW end \in Nat, end <= Len(data), NEW from \in Nat
  PROVE  ServerName(data, from, end) =
           IF from + 4 > end THEN Null
           ELSE IF UInt16(data, from) = ExtensionServerName
                THEN ParseServerNameList(
                       Slice(data, from + 4,
                             Smaller(from + 4 + UInt16(data, from + 2), end)))
           ELSE ServerName(data, from + 4 + UInt16(data, from + 2), end)
<1> DEFINE over(o) == o + 4 > end
           this(o) == UInt16(data, o) = ExtensionServerName
           list(o) == ParseServerNameList(
                        Slice(data, o + 4, Smaller(o + 4 + UInt16(data, o + 2), end)))
           behind(o) == o + 4 + UInt16(data, o + 2)
           Stop == {o \in Nat : over(o) \/ this(o)}
           v == [o \in Nat |-> IF over(o) THEN Null ELSE list(o)]
           next == [o \in Nat |-> behind(o)]
           r == [o \in Nat |-> IF o <= end THEN end - o ELSE 0]
<1>1. \A o \in Nat : r[o] \in 0..end
  OBVIOUS
<1>2. ASSUME NEW o \in Nat, o \notin Stop PROVE next[o] \in Nat /\ r[next[o]] < r[o]
  <2>1. o + 4 <= end
    BY <1>2
  <2>2. UInt16(data, o + 2) \in Nat
    <3>1. o + 2 \in Nat /\ o + 2 + 2 <= Len(data)
      BY <2>1
    <3> QED BY <3>1, LengthThere
  <2>3. next[o] = o + 4 + UInt16(data, o + 2)
    OBVIOUS
  <2>4. next[o] \in Nat /\ next[o] > o
    <3> HIDE DEF next, r, Stop, v
    <3> QED BY <2>2, <2>3
  <2> DEFINE y == next[o]
  <2>5. y \in Nat /\ y > o
    BY <2>4
  <2> HIDE DEF y, next, Stop, v
  <2>6. r[y] < r[o]
    BY <2>1, <2>5
  <2> QED BY <2>4, <2>6 DEF y
<1>3. Descends(Nat, Stop, next, r)
  <2> HIDE DEF Stop, next, r
  <2> QED BY <1>2 DEF Descends
<1>4. PICK g : IsRecursive(g, Nat, Stop, v, next)
  <2> HIDE DEF Stop, v, next, r
  <2> QED BY <1>1, <1>3, RecursionExists
<1> HIDE DEF r
<1>5. \A o \in Nat : g[o] = IF o \in Stop THEN v[o] ELSE g[next[o]]
  <2> HIDE DEF Stop, v, next
  <2> QED BY <1>4, Zenon DEF IsRecursive
<1>6. g = [o \in Nat |-> g[o]]
  <2> HIDE DEF Stop, v, next
  <2> QED BY <1>4, Zenon DEF IsRecursive
<1>7. ASSUME NEW o \in Nat
      PROVE  g[o] = IF over(o) THEN Null ELSE IF this(o) THEN list(o) ELSE g[behind(o)]
  <2> HIDE DEF over, this, list, behind
  <2> QED BY <1>5
<1>8. IsWalk(g, data, end)
  BY <1>6, <1>7, Zenon DEF IsWalk
<1>9. IsWalk(Walker(data, end), data, end)
  BY <1>8, Zenon DEF Walker
<1> DEFINE w == Walker(data, end)
<1>10. w[from] = IF over(from) THEN Null ELSE IF this(from) THEN list(from) ELSE w[behind(from)]
  <2> HIDE DEF w
  <2>1. IsWalk(w, data, end)
    BY <1>9 DEF w
  <2> QED BY <2>1, Zenon DEF IsWalk
<1> QED BY <1>10, WalkIs, Zenon

LEMMA NameAt ==
  ASSUME NEW data \in Seq(Nat), NEW end \in Nat, end <= Len(data), NEW from \in Nat
  PROVE  Namer(data, end)[from] =
           IF from + 3 > end \/ from + 3 + UInt16(data, from + 1) > end THEN Null
           ELSE IF At(data, from) = NameTypeHostName
                THEN Found(Slice(data, from + 3, from + 3 + UInt16(data, from + 1)))
           ELSE Namer(data, end)[from + 3 + UInt16(data, from + 1)]
<1> DEFINE over(o) == o + 3 > end \/ o + 3 + UInt16(data, o + 1) > end
           this(o) == At(data, o) = NameTypeHostName
           name(o) == Found(Slice(data, o + 3, o + 3 + UInt16(data, o + 1)))
           behind(o) == o + 3 + UInt16(data, o + 1)
           Stop == {o \in Nat : over(o) \/ this(o)}
           v == [o \in Nat |-> IF over(o) THEN Null ELSE name(o)]
           next == [o \in Nat |-> behind(o)]
           r == [o \in Nat |-> IF o <= end THEN end - o ELSE 0]
<1>1. \A o \in Nat : r[o] \in 0..end
  OBVIOUS
<1>2. ASSUME NEW o \in Nat, o \notin Stop PROVE next[o] \in Nat /\ r[next[o]] < r[o]
  <2>1. o + 3 <= end
    BY <1>2
  <2>2. UInt16(data, o + 1) \in Nat
    <3>1. o + 1 \in Nat /\ o + 1 + 2 <= Len(data)
      BY <2>1
    <3> QED BY <3>1, LengthThere
  <2>3. next[o] = o + 3 + UInt16(data, o + 1)
    OBVIOUS
  <2>4. next[o] \in Nat /\ next[o] > o
    <3> HIDE DEF next, r, Stop, v
    <3> QED BY <2>2, <2>3
  <2> DEFINE y == next[o]
  <2>5. y \in Nat /\ y > o
    BY <2>4
  <2> HIDE DEF y, next, Stop, v
  <2>6. r[y] < r[o]
    BY <2>1, <2>5
  <2> QED BY <2>4, <2>6 DEF y
<1>3. Descends(Nat, Stop, next, r)
  <2> HIDE DEF Stop, next, r
  <2> QED BY <1>2 DEF Descends
<1>4. PICK g : IsRecursive(g, Nat, Stop, v, next)
  <2> HIDE DEF Stop, v, next, r
  <2> QED BY <1>1, <1>3, RecursionExists
<1> HIDE DEF r
<1>5. \A o \in Nat : g[o] = IF o \in Stop THEN v[o] ELSE g[next[o]]
  <2> HIDE DEF Stop, v, next
  <2> QED BY <1>4, Zenon DEF IsRecursive
<1>6. g = [o \in Nat |-> g[o]]
  <2> HIDE DEF Stop, v, next
  <2> QED BY <1>4, Zenon DEF IsRecursive
<1>7. ASSUME NEW o \in Nat
      PROVE  g[o] = IF over(o) THEN Null ELSE IF this(o) THEN name(o) ELSE g[behind(o)]
  <2> HIDE DEF over, this, name, behind
  <2> QED BY <1>5
<1>8. IsName(g, data, end)
  BY <1>6, <1>7, Zenon DEF IsName
<1>9. IsName(Namer(data, end), data, end)
  BY <1>8, Zenon DEF Namer
<1> DEFINE w == Namer(data, end)
<1> HIDE DEF w
<1>10. IsName(w, data, end)
  BY <1>9 DEF w
<1>11. w[from] = IF over(from) THEN Null ELSE IF this(from) THEN name(from) ELSE w[behind(from)]
  BY <1>10, Zenon DEF IsName
<1> QED BY <1>11, Zenon DEF w

-----------------------------------------------------------------------------
(* The name in a ClientHello.                                              *)

LEMMA HoldsWithin ==
  ASSUME NEW data, NEW o, NEW s, NEW p, NEW t, Holds(data, o, s), Holds(s, p, t)
  PROVE  Holds(data, o + p, t)
<1>1. /\ data \in Seq(Nat) /\ o \in Nat /\ o + Len(s) <= Len(data) /\ Len(data) \in Nat
      /\ \A i \in 1..Len(s) : data[o + i] = s[i]
  BY DEF Holds
<1>2. /\ t \in Seq(Nat) /\ p \in Nat /\ p + Len(t) <= Len(s) /\ Len(s) \in Nat /\ Len(t) \in Nat
      /\ \A i \in 1..Len(t) : s[p + i] = t[i]
  BY DEF Holds
<1>3. o + p \in Nat /\ (o + p) + Len(t) <= Len(data)
  BY <1>1, <1>2
<1>4. ASSUME NEW i \in 1..Len(t) PROVE data[(o + p) + i] = t[i]
  <2>1. p + i \in 1..Len(s) /\ (o + p) + i = o + (p + i)
    BY <1>1, <1>2
  <2>2. data[o + (p + i)] = s[p + i] /\ s[p + i] = t[i]
    BY <1>1, <1>2, <2>1
  <2> QED BY <2>1, <2>2
<1> QED BY <1>1, <1>2, <1>3, <1>4 DEF Holds

LEMMA FirstIs ==
  ASSUME NEW s, NEW n \in Nat, DOMAIN s = 1..n, HasZero(s)
  PROVE  \E i \in 1..n : /\ FirstZero(s) = s[i] /\ s[i].type = 0
                         /\ \A j \in 1..(i - 1) : s[j].type # 0
<1> DEFINE Passed(j) == \A x \in 1..j : s[x].type # 0
           First(i) == s[i].type = 0 /\ Passed(i - 1)
<1>1. \E i \in 1..n : First(i)
  <2> SUFFICES ASSUME \A i \in 1..n : ~First(i) PROVE FALSE
    OBVIOUS
  <2> DEFINE T == {j \in Nat : j <= n => Passed(j)}
  <2>1. 0 \in T
    OBVIOUS
  <2>2. ASSUME NEW j \in Nat, j \in T PROVE j + 1 \in T
    <3> SUFFICES ASSUME j + 1 <= n PROVE Passed(j + 1)
      OBVIOUS
    <3>1. j + 1 \in 1..n /\ (j + 1) - 1 = j /\ j <= n
      OBVIOUS
    <3>2. Passed(j)
      BY <2>2, <3>1
    <3>3. s[j + 1].type # 0
      BY <3>1, <3>2
    <3>4. \A x \in 1..(j + 1) : x \in 1..j \/ x = j + 1
      OBVIOUS
    <3> QED BY <3>2, <3>3, <3>4
  <2>3. n \in T
    <3> HIDE DEF T
    <3>1. Nat \subseteq T
      BY <2>1, <2>2, SetInduction
    <3> QED BY <3>1
  <2>4. Passed(n)
    BY <2>3
  <2> QED BY <2>4 DEF HasZero
<1> DEFINE i == CHOOSE i \in DOMAIN s : First(i)
<1>2. FirstZero(s) = s[i]
  BY Zenon DEF FirstZero
<1>3. i \in 1..n /\ First(i)
  BY <1>1
<1> QED BY <1>2, <1>3

(* Both loops stop at the first part of type 0 and pass over the others:   *)
(* w[k] is what they return from behind part k on, v[k] what part k gives. *)
Scans(s, n, v, w) ==
  /\ n \in Nat /\ DOMAIN s = 1..n
  /\ \A k \in 1..n : w[k - 1] = IF s[k].type = 0 THEN v[k] ELSE w[k]

LEMMA FirstMet ==
  ASSUME NEW s, NEW n, NEW v, NEW w, Scans(s, n, v, w)
  PROVE  /\ HasZero(s) => \E i \in 1..n : FirstZero(s) = s[i] /\ w[0] = v[i]
         /\ ~HasZero(s) => w[0] = w[n]
<1> USE DEF Scans
<1> DEFINE Passed(j) == \A x \in 1..j : s[x].type # 0
           S == {j \in Nat : j <= n /\ Passed(j) => w[0] = w[j]}
<1>1. 0 \in S
  OBVIOUS
<1>2. ASSUME NEW j \in Nat, j \in S PROVE j + 1 \in S
  <2> SUFFICES ASSUME j + 1 <= n, Passed(j + 1) PROVE w[0] = w[j + 1]
    OBVIOUS
  <2>1. j + 1 \in 1..n /\ (j + 1) - 1 = j /\ j <= n /\ j + 1 \in 1..(j + 1)
    OBVIOUS
  <2>2. Passed(j) /\ s[j + 1].type # 0
    <3>1. \A x \in 1..j : x \in 1..(j + 1)
      OBVIOUS
    <3> QED BY <2>1, <3>1
  <2>3. w[(j + 1) - 1] = w[j + 1]
    BY <2>1, <2>2
  <2> QED BY <1>2, <2>1, <2>2, <2>3
<1>3. Nat \subseteq S
  <2> HIDE DEF S
  <2> QED BY <1>1, <1>2, SetInduction
<1>4. ASSUME HasZero(s) PROVE \E i \in 1..n : FirstZero(s) = s[i] /\ w[0] = v[i]
  <2>1. PICK i \in 1..n : FirstZero(s) = s[i] /\ s[i].type = 0 /\ Passed(i - 1)
    BY <1>4, FirstIs
  <2>2. w[0] = w[i - 1]
    <3>1. i - 1 \in Nat /\ i - 1 <= n
      OBVIOUS
    <3> QED BY <1>3, <2>1, <3>1
  <2>3. w[i - 1] = v[i]
    BY <2>1
  <2> QED BY <2>1, <2>2, <2>3
<1>5. ASSUME ~HasZero(s) PROVE w[0] = w[n]
  <2>1. Passed(n)
    BY <1>5 DEF HasZero
  <2> QED BY <1>3, <2>1
<1> QED BY <1>4, <1>5

(* An entry of the list is the name, or skipped.                           *)
LEMMA EntryRead ==
  ASSUME NEW data \in Seq(Nat), NEW end \in Nat, end <= Len(data), NEW o \in Nat,
         NEW entry \in Entries, Holds(data, o, EncodeEntry(entry)),
         o + 3 + Len(entry.name) <= end
  PROVE  /\ Len(EncodeEntry(entry)) = 3 + Len(entry.name) /\ Len(entry.name) \in Nat
         /\ Namer(data, end)[o] =
              IF entry.type = 0 THEN Found(entry.name)
              ELSE Namer(data, end)[o + 3 + Len(entry.name)]
<1> DEFINE t == <<entry.type>>
           name == entry.name
           q == Prefixed16(name)
           l == Len(name)
<1>1. name \in Seq(Nat) /\ entry.type \in Nat /\ l \in Nat /\ o + 3 + l <= end
  BY DEF Entries
<1>2. q \in Seq(Nat) /\ Len(q) = 2 + l /\ t \in Seq(Nat) /\ Len(t) = 1 /\ t[1] = entry.type
  <2>1. q \in Seq(Nat) /\ Len(q) = 2 + l
    <3> HIDE DEF name
    <3> QED BY <1>1, Prefixed
  <2> QED BY <1>1, <2>1
<1>3. Holds(data, o, t \o q)
  BY DEF EncodeEntry
<1> HIDE DEF t, q, name
<1>4. Len(t \o q) = 3 + l
  <2>1. Len(t \o q) = Len(t) + Len(q)
    BY <1>2, Concatenated
  <2> QED BY <1>1, <1>2, <2>1
<1>5. Holds(data, o, t) /\ Holds(data, o + 1, q)
  <2>1. Holds(data, o, t) /\ Holds(data, o + Len(t), q)
    BY <1>2, <1>3, HoldsBoth
  <2> QED BY <1>2, <2>1
<1>6. At(data, o) = entry.type
  BY <1>2, <1>5, HoldsOne DEF t
<1>7. UInt16(data, o + 1) = l /\ Holds(data, o + 3, name)
  <2> DEFINE r == o + 1
  <2>1. Holds(data, r, Prefixed16(name)) /\ r + 2 = o + 3
    BY <1>5 DEF q
  <2> HIDE DEF r
  <2>2. UInt16(data, r) = Len(name) /\ Holds(data, r + 2, name)
    BY <1>1, <2>1, HoldsLong
  <2> QED BY <2>1, <2>2 DEF r
<1>8. Slice(data, o + 3, o + 3 + l) = name
  BY <1>7, HoldsSlice
<1>9. ~(o + 3 > end) /\ ~(o + 3 + l > end)
  <2> HIDE DEF l
  <2> QED BY <1>1
<1>10. Namer(data, end)[o] =
         IF o + 3 > end \/ o + 3 + UInt16(data, o + 1) > end THEN Null
         ELSE IF At(data, o) = NameTypeHostName
              THEN Found(Slice(data, o + 3, o + 3 + UInt16(data, o + 1)))
         ELSE Namer(data, end)[o + 3 + UInt16(data, o + 1)]
  BY NameAt
<1>11. Namer(data, end)[o] = IF entry.type = 0 THEN Found(name) ELSE Namer(data, end)[o + 3 + l]
  <2> HIDE DEF l
  <2> QED BY <1>6, <1>7, <1>8, <1>9, <1>10 DEF NameTypeHostName
<1>12. Len(EncodeEntry(entry)) = 3 + l
  BY <1>4, Zenon DEF EncodeEntry, t, q, name
<1> QED BY <1>1, <1>11, <1>12 DEF name

LEMMA EncodedLength ==
  ASSUME NEW entry \in Entries
  PROVE  Len(EncodeEntry(entry)) = 3 + Len(entry.name)
<1> DEFINE t == <<entry.type>>
           q == Prefixed16(entry.name)
<1>1. entry.name \in Seq(Nat) /\ entry.type \in Nat
  BY DEF Entries
<1>2. q \in Seq(Nat) /\ Len(q) = 2 + Len(entry.name) /\ t \in Seq(Nat) /\ Len(t) = 1
  <2> DEFINE name == entry.name
  <2>1. name \in Seq(Nat)
    BY <1>1
  <2> HIDE DEF name
  <2>2. Prefixed16(name) \in Seq(Nat) /\ Len(Prefixed16(name)) = 2 + Len(name)
    BY <2>1, Prefixed
  <2> QED BY <1>1, <2>2 DEF name
<1>3. EncodeEntry(entry) = t \o q
  BY DEF EncodeEntry
<1> HIDE DEF t, q
<1>4. Len(t \o q) = Len(t) + Len(q)
  BY <1>2, Concatenated
<1>5. Len(entry.name) \in Nat
  BY <1>1
<1> QED BY <1>2, <1>3, <1>4, <1>5

(* The list a client sends.                                                *)
LEMMA ListParsed ==
  ASSUME NEW list \in Seq(Entries)
  PROVE  ParseServerNameList(Prefixed16(EncodeList(list))) =
           IF HasZero(list) THEN Found(FirstZero(list).name) ELSE Null
<1> DEFINE L == EncodeList(list)
           d == Prefixed16(L)
           end == 2 + Len(L)
           n == Len(list)
           each == [i \in DOMAIN list |-> EncodeEntry(list[i])]
<1>1. L \in Seq(Nat) /\ Len(L) \in Nat
  <2>1. L \in Seq(Nat)
    BY ListBytes
  <2> HIDE DEF L
  <2> QED BY <2>1
<1>2. L = FlattenSeq(each)
  BY Zenon DEF EncodeList
<1>3. n \in Nat /\ DOMAIN list = 1..n /\ \A k \in 1..n : list[k] \in Entries
  OBVIOUS
<1>4. /\ each \in Seq(Seq(Nat)) /\ Len(each) = n
      /\ \A k \in 1..n : each[k] = EncodeEntry(list[k])
  <2>1. \A k \in 1..n : EncodeEntry(list[k]) \in Seq(Nat)
    BY <1>3, EntryBytes
  <2> HIDE DEF n
  <2> QED BY <1>3, <2>1
<1> HIDE DEF L
<1>5. /\ d \in Seq(Nat) /\ Len(d) = end /\ UInt16(d, 0) = Len(L) /\ Holds(d, 2, L)
  <2>1. d \in Seq(Nat) /\ Len(d) = end
    BY <1>1, Prefixed
  <2>2. Holds(d, 0, d)
    BY <2>1, HoldsItself
  <2> DEFINE z == 0
  <2>3. Holds(d, z, Prefixed16(L))
    BY <2>2
  <2> HIDE DEF z, d
  <2>4. UInt16(d, z) = Len(L) /\ Holds(d, z + 2, L)
    BY <1>1, <2>3, HoldsLong
  <2>5. z + 2 = 2 /\ z = 0
    BY DEF z
  <2> QED BY <2>1, <2>4, <2>5
<1> HIDE DEF d, each, n
<1>6. end \in Nat /\ end <= Len(d)
  BY <1>1, <1>5
<1>7. ParseServerNameList(d) = Namer(d, end)[2]
  <2>1. ~(Len(d) < 2) /\ Smaller(2 + UInt16(d, 0), Len(d)) = end
    BY <1>1, <1>5 DEF Smaller
  <2> HIDE DEF end
  <2> QED BY <2>1, NameIs, Zenon
<1>8. PICK f : Laid(f, each, L)
  BY <1>2, <1>4, FlattenLaid
<1>9. /\ f \in [0..n -> Nat] /\ f[0] = 0 /\ f[n] = Len(L)
      /\ \A k \in 1..n : f[k] = f[k - 1] + Len(each[k]) /\ Holds(L, f[k - 1], each[k])
  BY <1>4, <1>8 DEF Laid
<1> DEFINE w == [k \in 0..n |-> Namer(d, end)[2 + f[k]]]
           v == [k \in 1..n |-> Found(list[k].name)]
<1>10. ASSUME NEW k \in 1..n
       PROVE  w[k - 1] = IF list[k].type = 0 THEN v[k] ELSE w[k]
  <2> DEFINE entry == list[k]
             o == 2 + f[k - 1]
             l == Len(entry.name)
  <2>1. k - 1 \in 0..n /\ k \in 0..n
    BY <1>3
  <2>2. entry \in Entries
    BY <1>3
  <2>3. f[k - 1] \in Nat /\ f[k] \in Nat /\ o \in Nat
    BY <1>9, <2>1
  <2>4. each[k] = EncodeEntry(entry) /\ Holds(L, f[k - 1], EncodeEntry(entry))
    BY <1>4, <1>9
  <2>5. Holds(d, o, EncodeEntry(entry))
    BY <1>5, <2>4, HoldsWithin
  <2>6. l \in Nat /\ Len(EncodeEntry(entry)) = 3 + l
    <3>1. entry.name \in Seq(Nat)
      BY <2>2 DEF Entries
    <3> QED BY <2>2, <3>1, EncodedLength
  <2>7. f[k] = f[k - 1] + (3 + l)
    BY <1>9, <2>4, <2>6
  <2>8. f[k] <= Len(L)
    <3>1. f[k - 1] + Len(EncodeEntry(entry)) <= Len(L)
      BY <2>4, HoldsEnds
    <3> QED BY <1>9, <2>4, <3>1
  <2> HIDE DEF entry, l
  <2>9. o + 3 + l <= end /\ o + 3 + l = 2 + f[k]
    <3> DEFINE a == f[k - 1]
               b == f[k]
               t == Len(L)
    <3>1. a \in Nat /\ b \in Nat /\ b = a + (3 + l) /\ b <= t /\ t \in Nat /\ l \in Nat
      BY <1>1, <2>3, <2>6, <2>7, <2>8
    <3> HIDE DEF a, b, t
    <3>2. (2 + a) + 3 + l <= 2 + t /\ (2 + a) + 3 + l = 2 + b
      BY <3>1
    <3> QED BY <3>2 DEF a, b, t
  <2> HIDE DEF end, o, w, v
  <2>10. Namer(d, end)[o] =
           IF entry.type = 0 THEN Found(entry.name) ELSE Namer(d, end)[o + 3 + l]
    <3>1. /\ d \in Seq(Nat) /\ end \in Nat /\ end <= Len(d) /\ o \in Nat /\ entry \in Entries
          /\ Holds(d, o, EncodeEntry(entry)) /\ o + 3 + Len(entry.name) <= end
      BY <1>5, <1>6, <2>2, <2>3, <2>5, <2>9 DEF l
    <3>2. Namer(d, end)[o] =
            IF entry.type = 0 THEN Found(entry.name)
            ELSE Namer(d, end)[o + 3 + Len(entry.name)]
      BY <3>1, EntryRead
    <3> QED BY <3>2, Zenon DEF l
  <2>11. w[k - 1] = Namer(d, end)[o] /\ w[k] = Namer(d, end)[2 + f[k]] /\ v[k] = Found(entry.name)
    BY <2>1 DEF w, v, o, entry
  <2> QED BY <2>9, <2>10, <2>11 DEF entry
<1>11. w[0] = Namer(d, end)[2] /\ w[n] = Null
  <2>1. 0 \in 0..n /\ n \in 0..n /\ 2 + f[0] = 2 /\ 2 + f[n] = end
    BY <1>3, <1>9
  <2>2. end + 3 > end
    BY <1>6
  <2> HIDE DEF end
  <2>3. Namer(d, end)[end] = Null
    BY <1>5, <1>6, <2>2, NameAt
  <2> QED BY <2>1, <2>3
<1>12. \A i \in 1..n : v[i] = Found(list[i].name)
  OBVIOUS
<1> HIDE DEF w, v, end
<1>13. /\ HasZero(list) => \E i \in 1..n : FirstZero(list) = list[i] /\ w[0] = v[i]
       /\ ~HasZero(list) => w[0] = w[n]
  <2>1. \A k \in 1..n : w[k - 1] = IF list[k].type = 0 THEN v[k] ELSE w[k]
    BY <1>10
  <2>2. Scans(list, n, v, w)
    BY <1>3, <2>1, Zenon DEF Scans
  <2> QED BY <2>2, FirstMet
<1>14. ParseServerNameList(d) = IF HasZero(list) THEN Found(FirstZero(list).name) ELSE Null
  <2>1. CASE HasZero(list)
    <3>1. PICK i \in 1..n : FirstZero(list) = list[i] /\ w[0] = v[i]
      BY <1>13, <2>1
    <3> QED BY <1>7, <1>11, <1>12, <2>1, <3>1
  <2>2. CASE ~HasZero(list)
    BY <1>7, <1>11, <1>13, <2>2
  <2> QED BY <2>1, <2>2
<1> QED BY <1>14 DEF d, L

(* An extension is the name's, or passed over.                             *)
LEMMA ExtensionRead ==
  ASSUME NEW m \in Seq(Nat), NEW o, NEW extension \in Extensions,
         Holds(m, o, EncodeExtension(extension))
  PROVE  /\ Len(EncodeExtension(extension)) \in Nat
         /\ ServerName(m, o, Len(m)) =
              IF extension.type = 0
              THEN ParseServerNameList(Prefixed16(EncodeList(extension.list)))
              ELSE ServerName(m, o + Len(EncodeExtension(extension)), Len(m))
<1> DEFINE type == extension.type
           hi == type \div 256
           lo == type % 256
           t == <<hi, lo>>
           data == IF type = ExtensionServerName
                   THEN Prefixed16(EncodeList(extension.list)) ELSE extension.data
           q == Prefixed16(data)
           l == Len(data)
<1>1. type \in Nat /\ data \in Seq(Nat)
  <2>1. CASE extension \in [type : {0}, list : Seq(Entries)]
    <3>1. type = 0 /\ extension.list \in Seq(Entries)
      BY <2>1
    <3>2. EncodeList(extension.list) \in Seq(Nat)
      BY <3>1, ListBytes
    <3>3. data = Prefixed16(EncodeList(extension.list))
      BY <3>1 DEF ExtensionServerName
    <3> HIDE DEF data
    <3> QED BY <3>1, <3>2, <3>3, Prefixed
  <2>2. CASE extension \in [type : Nat \ {0}, data : Seq(Nat)]
    BY <2>2 DEF ExtensionServerName
  <2> QED BY <2>1, <2>2 DEF Extensions
<1>2. type = 0 => data = Prefixed16(EncodeList(extension.list))
  BY DEF ExtensionServerName
<1>3. EncodeExtension(extension) = t \o q
  BY Zenon DEF EncodeExtension, Write16
<1> HIDE DEF data
<1>4. q \in Seq(Nat) /\ Len(q) = 2 + l /\ l \in Nat
  <2>1. q \in Seq(Nat) /\ Len(q) = 2 + l
    BY <1>1, Prefixed
  <2> HIDE DEF q
  <2> QED BY <1>1, <2>1
<1> HIDE DEF type
<1>5. hi \in Nat /\ lo \in Nat /\ hi * 256 + lo = type
  BY <1>1, TwoBytes
<1> HIDE DEF hi, lo
<1>6. t \in Seq(Nat) /\ Len(t) = 2
  BY <1>5
<1> HIDE DEF t, q, l
<1>7. Len(t \o q) = 4 + l
  <2>1. Len(t \o q) = Len(t) + Len(q)
    BY <1>4, <1>6, Concatenated
  <2> QED BY <1>4, <1>6, <2>1
<1>8. Holds(m, o, t) /\ Holds(m, o + 2, q)
  <2>1. Holds(m, o, t) /\ Holds(m, o + Len(t), q)
    BY <1>3, <1>4, <1>6, HoldsBoth
  <2> QED BY <1>6, <2>1
<1>9. UInt16(m, o) = type
  BY <1>5, <1>8, HoldsTwo DEF t
<1>10. o \in Nat
  BY HoldsEnds
<1>11. UInt16(m, o + 2) = l /\ Holds(m, o + 4, data)
  <2> DEFINE r == o + 2
  <2>1. Holds(m, r, Prefixed16(data)) /\ r + 2 = o + 4
    BY <1>8, <1>10 DEF q
  <2> HIDE DEF r
  <2>2. UInt16(m, r) = Len(data) /\ Holds(m, r + 2, data)
    BY <1>1, <2>1, HoldsLong
  <2> QED BY <2>1, <2>2 DEF r, l
<1>12. Slice(m, o + 4, o + 4 + l) = data
  BY <1>11, HoldsSlice DEF l
<1> DEFINE end == Len(m)
<1>13. end \in Nat /\ end <= Len(m)
  OBVIOUS
<1>14. o + 4 + l <= end
  <2>1. o + Len(t \o q) <= end
    BY <1>3, HoldsEnds
  <2> HIDE DEF end
  <2> QED BY <1>4, <1>7, <1>10, <1>13, <2>1
<1> HIDE DEF end
<1>15. ~(o + 4 > end) /\ Smaller(o + 4 + l, end) = o + 4 + l
  BY <1>4, <1>10, <1>13, <1>14 DEF Smaller
<1>16. ServerName(m, o, end) =
         IF type = 0 THEN ParseServerNameList(data) ELSE ServerName(m, o + 4 + l, end)
  <2>1. ServerName(m, o, end) =
           IF o + 4 > end THEN Null
           ELSE IF UInt16(m, o) = ExtensionServerName
                THEN ParseServerNameList(
                       Slice(m, o + 4, Smaller(o + 4 + UInt16(m, o + 2), end)))
           ELSE ServerName(m, o + 4 + UInt16(m, o + 2), end)
    BY <1>10, <1>13, WalkAt
  <2> QED BY <1>9, <1>11, <1>12, <1>15, <2>1 DEF ExtensionServerName
<1>17. o + 4 + l = o + Len(EncodeExtension(extension)) /\ Len(EncodeExtension(extension)) = 4 + l
  BY <1>3, <1>4, <1>7, <1>10
<1> QED BY <1>2, <1>4, <1>16, <1>17 DEF end, type

(* The extensions of a message are read up to the one with the name.       *)
LEMMA ExtensionsWalked ==
  ASSUME NEW m \in Seq(Nat), NEW o \in Nat, NEW x \in Seq(Extensions), NEW X,
         X = FlattenSeq([i \in DOMAIN x |-> EncodeExtension(x[i])]),
         Holds(m, o, X), Len(m) = o + Len(X)
  PROVE  ServerName(m, o, Len(m)) =
           IF HasZero(x)
           THEN ParseServerNameList(Prefixed16(EncodeList(FirstZero(x).list)))
           ELSE Null
<1> DEFINE n == Len(x)
           each == [i \in DOMAIN x |-> EncodeExtension(x[i])]
           end == Len(m)
           Listed(e) == ParseServerNameList(Prefixed16(EncodeList(e.list)))
<1>1. n \in Nat /\ DOMAIN x = 1..n /\ \A k \in 1..n : x[k] \in Extensions
  OBVIOUS
<1>2. /\ each \in Seq(Seq(Nat)) /\ Len(each) = n
      /\ \A k \in 1..n : each[k] = EncodeExtension(x[k])
  <2>1. \A k \in 1..n : EncodeExtension(x[k]) \in Seq(Nat)
    BY <1>1, ExtensionBytes
  <2> HIDE DEF n
  <2> QED BY <1>1, <2>1
<1>3. X = FlattenSeq(each)
  OBVIOUS
<1>4. end \in Nat /\ end <= Len(m) /\ Len(X) \in Nat
  <2>1. Len(X) \in Nat
    BY HoldsEnds
  <2>2. Len(m) \in Nat
    OBVIOUS
  <2> QED BY <2>1, <2>2
<1> HIDE DEF each, n
<1>5. PICK f : Laid(f, each, X)
  BY <1>2, <1>3, FlattenLaid
<1>6. /\ f \in [0..n -> Nat] /\ f[0] = 0 /\ f[n] = Len(X)
      /\ \A k \in 1..n : f[k] = f[k - 1] + Len(each[k]) /\ Holds(X, f[k - 1], each[k])
  BY <1>2, <1>5 DEF Laid
<1> DEFINE w == [k \in 0..n |-> ServerName(m, o + f[k], end)]
           v == [k \in 1..n |-> Listed(x[k])]
<1>7. ASSUME NEW k \in 1..n
      PROVE  w[k - 1] = IF x[k].type = 0 THEN v[k] ELSE w[k]
  <2> DEFINE p == o + f[k - 1]
             extension == x[k]
             l == Len(EncodeExtension(extension))
  <2>1. k - 1 \in 0..n /\ k \in 0..n
    BY <1>1
  <2>2. extension \in Extensions
    BY <1>1
  <2>3. f[k - 1] \in Nat /\ f[k] \in Nat
    BY <1>6, <2>1
  <2>4. each[k] = EncodeExtension(extension) /\ Holds(X, f[k - 1], EncodeExtension(extension))
    BY <1>2, <1>6
  <2>5. Holds(m, p, EncodeExtension(extension))
    BY <2>4, HoldsWithin
  <2>6. f[k] = f[k - 1] + l
    BY <1>6, <2>4
  <2> HIDE DEF w, v, extension, end, Listed
  <2>7. w[k - 1] = ServerName(m, p, end) /\ w[k] = ServerName(m, o + f[k], end)
        /\ v[k] = Listed(extension)
    BY <2>1 DEF w, v, extension
  <2> HIDE DEF p
  <2>8. /\ l \in Nat
        /\ ServerName(m, p, end) =
             IF extension.type = 0 THEN Listed(extension) ELSE ServerName(m, p + l, end)
    BY <2>2, <2>5, ExtensionRead DEF end, Listed
  <2> HIDE DEF l
  <2>9. p + l = o + f[k]
    <3> DEFINE a == f[k - 1]
               b == f[k]
    <3>1. a \in Nat /\ b = a + l
      BY <2>3, <2>6
    <3> HIDE DEF a, b
    <3>2. (o + a) + l = o + b
      BY <2>8, <3>1
    <3> QED BY <3>2 DEF a, b, p
  <2> QED BY <2>7, <2>8, <2>9 DEF extension
<1>8. w[0] = ServerName(m, o, end) /\ w[n] = Null
  <2>1. 0 \in 0..n /\ n \in 0..n /\ o + f[0] = o /\ o + f[n] = end
    BY <1>1, <1>6
  <2>2. end + 4 > end
    BY <1>4
  <2> HIDE DEF end
  <2>3. ServerName(m, end, end) = Null
    BY <1>4, <2>2, WalkAt
  <2> QED BY <2>1, <2>3
<1>9. \A i \in 1..n : v[i] = Listed(x[i])
  OBVIOUS
<1> HIDE DEF w, v, end, Listed
<1>10. /\ HasZero(x) => \E i \in 1..n : FirstZero(x) = x[i] /\ w[0] = v[i]
       /\ ~HasZero(x) => w[0] = w[n]
  <2>1. \A k \in 1..n : w[k - 1] = IF x[k].type = 0 THEN v[k] ELSE w[k]
    BY <1>7
  <2>2. Scans(x, n, v, w)
    BY <1>1, <2>1, Zenon DEF Scans
  <2> QED BY <2>2, FirstMet, SMTT(30)
<1>11. ServerName(m, o, end) = IF HasZero(x) THEN Listed(FirstZero(x)) ELSE Null
  <2>1. CASE HasZero(x)
    <3>1. PICK i \in 1..n : FirstZero(x) = x[i] /\ w[0] = v[i]
      BY <1>10, <2>1
    <3> QED BY <1>8, <1>9, <2>1, <3>1
  <2>2. CASE ~HasZero(x)
    BY <1>8, <1>10, <2>2
  <2> QED BY <2>1, <2>2
<1> QED BY <1>11 DEF end, Listed

(* A whole ClientHello is read as the client meant it.                     *)
LEMMA HelloParsed ==
  ASSUME NEW h, HelloTypeOK(h)
  PROVE  ParseClientHello(HelloMessage(h)) = Meant(h)
<1> DEFINE m == HelloMessage(h)
           rest == Rest(h)
           at == RestAt(h)
           ls == SessionSize(h)
           lc == CiphersSize(h)
           lp == CompressionSize(h)
           x == h.extensions
           X == FlattenSeq([i \in DOMAIN x |-> EncodeExtension(x[i])])
<1>1. /\ m \in Seq(Nat) /\ Len(m) \in Nat /\ Len(m) = at + Len(rest) /\ Len(rest) \in Nat
      /\ ls \in Nat /\ lc \in Nat /\ lp \in Nat /\ at \in Nat
      /\ At(m, 0) = 1 /\ At(m, 38) = ls /\ UInt16(m, 39 + ls) = lc /\ At(m, 41 + ls + lc) = lp
      /\ Holds(m, at, rest)
  BY MessageHeld
<1>2. x \in Seq(Extensions)
  BY DEF HelloTypeOK
<1>3. at = 42 + ls + lc + lp
  BY DEF RestAt
<1> HIDE DEF m, at, ls, lc, lp
<1>4. SessionAt = 38
  BY DEF SessionAt, HandshakeHeaderSize, RandomSize
<1>5. CiphersAt(m) = 39 + ls
  BY <1>1, <1>4 DEF CiphersAt
<1>6. CompressionAt(m) = 41 + ls + lc
  BY <1>1, <1>5 DEF CompressionAt
<1>7. ExtensionsAt(m) = at
  BY <1>1, <1>3, <1>6 DEF ExtensionsAt
<1>8. HasExtensions(m) <=> Len(rest) >= 2
  <2> DEFINE r == Len(rest)
             k == Len(m)
  <2>1. r \in Nat /\ k = at + r /\ at = 42 + ls + lc + lp /\ ls \in Nat /\ lc \in Nat /\ lp \in Nat
    BY <1>1, <1>3
  <2>2. HasExtensions(m) <=> 38 < k /\ 39 + ls + 2 <= k /\ 41 + ls + lc < k /\ at + 2 <= k
    BY <1>4, <1>5, <1>6, <1>7, Zenon DEF HasExtensions
  <2> HIDE DEF r, k
  <2>3. 38 < k /\ 39 + ls + 2 <= k /\ 41 + ls + lc < k /\ (at + 2 <= k <=> r >= 2)
    BY <2>1
  <2> QED BY <2>2, <2>3 DEF r
<1>9. ParseClientHello(m) =
        IF Len(rest) >= 2 THEN ServerName(m, at + 2, ExtensionsEnd(m, at)) ELSE Null
  BY <1>1, <1>7, <1>8 DEF ParseClientHello, HandshakeClientHello
<1>10. CASE x = <<>>
  <2>1. Len(rest) = 0
    BY <1>10 DEF Rest, EncodeExtensions
  <2>2. ~HasZero(x)
    BY <1>10 DEF HasZero
  <2>3. Meant(h) = Null
    BY <2>2 DEF Meant
  <2> HIDE DEF rest
  <2> QED BY <1>9, <2>1, <2>3 DEF m
<1>11. CASE x # <<>>
  <2>1. X \in Seq(Nat)
    <3> DEFINE each == [i \in DOMAIN x |-> EncodeExtension(x[i])]
    <3>1. each \in Seq(Seq(Nat))
      BY <1>2, ExtensionsBytes
    <3> HIDE DEF each
    <3> QED BY <3>1, FlattenSequence DEF each
  <2>2. rest = Prefixed16(X)
    BY <1>11, Zenon DEF Rest, EncodeExtensions
  <2> HIDE DEF rest, X, x
  <2>3. Len(rest) = 2 + Len(X) /\ Len(X) \in Nat
    BY <2>1, <2>2, Prefixed
  <2>4. UInt16(m, at) = Len(X) /\ Holds(m, at + 2, X)
    BY <1>1, <2>1, <2>2, HoldsLong
  <2>5. Len(m) = (at + 2) + Len(X)
    BY <1>1, <2>3
  <2>6. ExtensionsEnd(m, at) = Len(m)
    BY <1>1, <2>3, <2>4, <2>5 DEF ExtensionsEnd, Smaller
  <2>7. ParseClientHello(m) = ServerName(m, at + 2, Len(m))
    BY <1>9, <2>3, <2>6
  <2> DEFINE Listed(list) == ParseServerNameList(Prefixed16(EncodeList(list)))
  <2>8. ServerName(m, at + 2, Len(m)) = IF HasZero(x) THEN Listed(FirstZero(x).list) ELSE Null
    <3> DEFINE o == at + 2
    <3>1. o \in Nat /\ Holds(m, o, X) /\ Len(m) = o + Len(X)
      <4>1. at \in Nat
        BY <1>1
      <4> HIDE DEF Listed
      <4> QED BY <2>4, <2>5, <4>1
    <3>2. X = FlattenSeq([i \in DOMAIN x |-> EncodeExtension(x[i])])
      BY DEF X
    <3> HIDE DEF o, Listed
    <3>3. ServerName(m, o, Len(m)) = IF HasZero(x) THEN Listed(FirstZero(x).list) ELSE Null
      BY <1>1, <1>2, <3>1, <3>2, ExtensionsWalked DEF Listed
    <3> QED BY <3>3 DEF o
  <2>9. ASSUME HasZero(x)
        PROVE  Listed(FirstZero(x).list) =
                 IF HasZero(FirstZero(x).list) THEN Found(FirstZero(FirstZero(x).list).name)
                 ELSE Null
    <3> DEFINE e == FirstZero(x)
               list == e.list
    <3>1. e.type = 0 /\ e \in Extensions
      <4>1. Len(x) \in Nat /\ DOMAIN x = 1..Len(x)
        BY <1>2
      <4>2. PICK i \in 1..Len(x) : FirstZero(x) = x[i] /\ x[i].type = 0
        BY <2>9, <4>1, FirstIs
      <4>3. x[i] \in Extensions
        BY <1>2, <4>1
      <4> QED BY <4>2, <4>3
    <3> HIDE DEF e
    <3>2. list \in Seq(Entries)
      BY <3>1 DEF Extensions
    <3> HIDE DEF list
    <3>3. Listed(list) = IF HasZero(list) THEN Found(FirstZero(list).name) ELSE Null
      BY <3>2, ListParsed
    <3> QED BY <3>3 DEF list, e
  <2> HIDE DEF Listed
  <2>10. Meant(h) =
           IF HasZero(x) /\ HasZero(FirstZero(x).list)
           THEN Found(FirstZero(FirstZero(x).list).name) ELSE Null
    BY Zenon DEF Meant, x
  <2> QED BY <2>7, <2>8, <2>9, <2>10 DEF m
<1> QED BY <1>10, <1>11

(* What a TLS client sent stands at the front of the stream.               *)
HelloInv ==
  /\ StreamInv
  /\ message.kind = "hello" /\ ~malformed =>
       /\ HelloTypeOK(message)
       /\ length = Len(EncodeHello(message)) /\ length <= Len(stream)
       /\ Begins(stream, EncodeHello(message))

LEMMA HelloStep ==
  ASSUME HelloInv, [MessagesNext]_messageVars PROVE HelloInv'
<1>1. StreamInv'
  BY StreamStep DEF HelloInv
<1>2. SUFFICES ASSUME message'.kind = "hello", ~malformed'
               PROVE  /\ HelloTypeOK(message')
                      /\ length' = Len(EncodeHello(message')) /\ length' <= Len(stream')
                      /\ Begins(stream', EncodeHello(message'))
  BY <1>1 DEF HelloInv
<1>3. CASE Compose
  <2>1. HelloTypeOK(message') /\ stream' = EncodeHello(message')
    BY <1>2, <1>3, Composed DEF Encode
  <2>2. length' = Len(stream')
    BY <1>3 DEF Compose
  <2>3. stream' \in Seq(Nat)
    BY <1>1 DEF StreamInv
  <2> QED BY <2>1, <2>2, <2>3 DEF Begins
<1>4. CASE Spoil
  BY <1>2, <1>4 DEF Spoil
<1>5. CASE Receive
  BY <1>2, <1>5 DEF Receive, HelloInv
<1>6. CASE Follow
  <2>1. PICK byte \in {0, 22} : stream' = Append(stream, byte)
    BY <1>6 DEF Follow, ContentTypeHandshake
  <2> DEFINE e == EncodeHello(message)
  <2>2. /\ message' = message /\ length' = length
        /\ HelloTypeOK(message) /\ length = Len(e) /\ length <= Len(stream) /\ Begins(stream, e)
        /\ stream \in Seq(Nat)
    BY <1>2, <1>6 DEF Follow, HelloInv, StreamInv
  <2>3. Len(e) \in Nat
    BY <2>2, HelloBytes
  <2> HIDE DEF e
  <2>4. /\ Len(stream') = Len(stream) + 1 /\ Len(stream) \in Nat
        /\ \A i \in 1..Len(stream) : stream'[i] = stream[i]
    BY <2>1, <2>2
  <2>5. Begins(stream', e)
    <3> SUFFICES ASSUME NEW i \in 1..Len(e), i <= Len(stream') PROVE stream'[i] = e[i]
      BY DEF Begins
    <3>1. i \in 1..Len(stream) /\ i <= Len(stream)
      BY <2>2, <2>3, <2>4
    <3> QED BY <2>2, <2>4, <3>1 DEF Begins
  <2>6. length' <= Len(stream')
    BY <2>2, <2>3, <2>4
  <2> QED BY <2>2, <2>5, <2>6 DEF e
<1>7. CASE UNCHANGED messageVars
  BY <1>2, <1>7 DEF messageVars, HelloInv
<1> QED BY <1>3, <1>4, <1>5, <1>6, <1>7 DEF MessagesNext

LEMMA HelloMeansRead == HelloInv => NameRead
<1> SUFFICES ASSUME HelloInv, message.kind = "hello", ~malformed
             PROVE  /\ IsClientHello(Buf) <=> received > 5
                    /\ IsComplete(Buf) <=> Whole
                    /\ ParseSNI(Buf) = IF Whole THEN Meant(message) ELSE Null
  BY DEF NameRead
<1> DEFINE e == EncodeHello(message)
           b == Buf
<1>1. /\ HelloTypeOK(message) /\ length = Len(e) /\ length <= Len(stream) /\ Begins(stream, e)
      /\ stream \in Seq(Nat) /\ received \in 0..Len(stream)
  BY DEF HelloInv, StreamInv
<1>2. b \in Seq(Nat) /\ Len(b) = received /\ \A i \in 1..received : b[i] = stream[i]
  BY <1>1, PrefixIs DEF Buf
<1> HIDE DEF b
<1>3. Begins(b, e)
  <2> HIDE DEF e
  <2> SUFFICES ASSUME NEW i \in 1..Len(e), i <= Len(b) PROVE b[i] = e[i]
    BY DEF Begins
  <2>1. i \in 1..received /\ i <= Len(stream)
    BY <1>1, <1>2
  <2> QED BY <1>1, <1>2, <2>1 DEF Begins
<1>4. Whole <=> Len(b) >= Len(e)
  BY <1>1, <1>2 DEF Whole
<1>5. IsClientHello(b) <=> received > 5
  BY <1>1, <1>2, <1>3, HelloKnown
<1>6. CASE Whole
  <2>1. ReadHandshake(b) = [state |-> "complete", message |-> HelloMessage(message)]
    BY <1>1, <1>2, <1>3, <1>4, <1>6, HelloRead
  <2>2. IsComplete(b)
    BY <2>1 DEF IsComplete
  <2>3. ParseSNI(b) = Meant(message)
    <3>1. ParseClientHello(HelloMessage(message)) = Meant(message)
      BY <1>1, HelloParsed
    <3> QED BY <2>1, <3>1 DEF ParseSNI
  <2> QED BY <1>5, <1>6, <2>2, <2>3 DEF b
<1>7. CASE ~Whole
  <2>1. ReadHandshake(b) = [state |-> "incomplete"]
    BY <1>1, <1>2, <1>3, <1>4, <1>7, HelloRead
  <2>2. ~IsComplete(b) /\ ParseSNI(b) = Null
    BY <2>1 DEF IsComplete, ParseSNI
  <2> QED BY <1>5, <1>7, <2>2 DEF b
<1> QED BY <1>6, <1>7

(* sni/index.js:35-188.  For a ClientHello of any fields and extensions,   *)
(* cut into records in any way, at every prefix of it and with anything    *)
(* behind it: it is known by its first six bytes, not read before its last *)
(* one, and then the name is the first host name of its first server_name  *)
(* extension, or none if it has none.                                      *)
THEOREM MessagesNameRead == MessagesSpec => []NameRead
<1>1. MessagesInit => HelloInv
  BY DEF MessagesInit, HelloInv, StreamInv
<1>2. HelloInv /\ [MessagesNext]_messageVars => HelloInv'
  BY HelloStep
<1> QED BY <1>1, <1>2, HelloMeansRead, PTL DEF MessagesSpec
=============================================================================
