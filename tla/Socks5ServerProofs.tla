------------------------- MODULE Socks5ServerProofs -------------------------
(***************************************************************************)
(* Theorems about Socks5Server, for any set of clients, any authenticate   *)
(* option and any way the network cuts the messages.                       *)
(***************************************************************************)
EXTENDS Socks5Server, SequenceTheorems, TLAPS

(* What a socket that is past its greeting has been through.  The listener *)
(* for the request is there only after a verdict, so an emitted connection *)
(* has one.                                                                *)
Accepted(c) ==
  /\ verdict[c] = "valid"
  /\ Valid(claim[c])
  /\ auth[c] = IF claim[c] = "anonymous" THEN "undefined" ELSE claim[c]

AuthOf(c) ==
  /\ phase[c] \in {"new", "greeting", "auth", "checking"} => auth[c] = "undefined"
  /\ phase[c] = "checking" => claim[c] \in Credentials \cup {"anonymous"}
  /\ phase[c] \in {"request"} \cup Served /\ Authenticate => Accepted(c)
  /\ emitted[c] = IF phase[c] \in Served THEN 1 ELSE 0

AuthInv == \A c \in Clients : AuthOf(c)

(* The registry a socket is in follows from the listener it has.           *)
RegistryOf(c) ==
  /\ sock[c] = "none" => phase[c] = "new"
  /\ sock[c] = "open" => /\ phase[c] # "new"
                         /\ c \in connections <=> phase[c] \in Served
                         /\ c \in handshaking <=> phase[c] \notin Served
                         /\ timer[c] <=> phase[c] \notin Served
  /\ c \in handshaking \cup connections => sock[c] \in {"open", "destroyed"}
  /\ closing => sock[c] # "open"

RegistryInv == \A c \in Clients : RegistryOf(c)

Handshake == Phases \ ({"new"} \cup Served)

IInv == TypeOK /\ AuthInv /\ RegistryInv

-----------------------------------------------------------------------------
USE DEF clientVars, authVars, closeVars, registryVars

LEMMA InitInv == Init => IInv
<1> SUFFICES ASSUME Init PROVE IInv
  OBVIOUS
<1>1. TypeOK
  <2>1. /\ timer \in [Clients -> BOOLEAN]
        /\ dropped \in [Clients -> BOOLEAN]
        /\ closing \in BOOLEAN
        /\ resolved \in BOOLEAN
    BY Zenon DEF Init
  <2>2. wire \in [Clients -> Seq(Messages)]
    BY DEF Init
  <2> QED BY <2>1, <2>2 DEF Init, TypeOK, Credentials, Phases, Replies, Served
<1>2. AuthInv
  BY DEF Init, AuthInv, AuthOf, Served
<1>3. RegistryInv
  BY DEF Init, RegistryInv, RegistryOf
<1> QED BY <1>1, <1>2, <1>3 DEF IInv

(* What a 'data' event leaves on the wire is a sequence of messages.       *)
LEMMA WireType ==
  ASSUME NEW w \in Seq(Messages), w # <<>>, NEW n \in 1..Len(w)
  PROVE  /\ Head(w) \in Messages
         /\ SubSeq(w, n + 1, Len(w)) \in Seq(Messages)
         /\ <<"rest">> \o SubSeq(w, n + 1, Len(w)) \in Seq(Messages)
<1>1. SubSeq(w, n + 1, Len(w)) \in Seq(Messages)
  <2>1. \A i \in (n + 1)..Len(w) : w[i] \in Messages
    OBVIOUS
  <2> QED BY <2>1, SubSeqProperties
<1>2. <<"rest">> \in Seq(Messages)
  BY DEF Messages
<1> QED
  BY <1>1, <1>2, ConcatProperties, HeadTailProperties

(* The variables a listener may change, apart from the registries.         *)
AnswersOK ==
  /\ reply \in [Clients -> Replies]
  /\ phase \in [Clients -> Phases]
  /\ claim \in [Clients -> Credentials \cup {"none", "anonymous"}]
  /\ verdict \in [Clients -> {"none", "valid", "invalid", "rejected"}]
  /\ auth \in [Clients -> Credentials \cup {"undefined"}]

RegistriesOK ==
  /\ timer \in [Clients -> BOOLEAN]
  /\ handshaking \subseteq Clients
  /\ connections \subseteq Clients
  /\ emitted \in [Clients -> Nat]

(* A reply and the next listener are each one of those the server has.     *)
LEMMA AnswerType ==
  ASSUME TypeOK, NEW c \in Clients, NEW r \in Replies, NEW then \in Phases,
         Answer(c, r, then)
  PROVE  reply' \in [Clients -> Replies] /\ phase' \in [Clients -> Phases]
BY DEF TypeOK, Answer

LEMMA RefuseType ==
  ASSUME TypeOK, NEW c \in Clients, NEW r \in Replies, Refuse(c, r), UNCHANGED authVars
  PROVE  AnswersOK'
BY AnswerType DEF Refuse, Phases, AnswersOK, TypeOK, Served

(* authenticate() judges what it was called with.                          *)
LEMMA JudgedType ==
  ASSUME TypeOK, NEW c \in Clients, NEW who \in Credentials \cup {"anonymous"},
         Judged(c, who)
  PROVE  /\ verdict' \in [Clients -> {"none", "valid", "invalid", "rejected"}]
         /\ auth' \in [Clients -> Credentials \cup {"undefined"}]
         /\ phase' \in [Clients -> Phases]
         /\ reply' \in [Clients -> Replies]
<1>1. verdict' \in [Clients -> {"none", "valid", "invalid", "rejected"}]
  BY DEF Judged, TypeOK
<1>2. auth' \in [Clients -> Credentials \cup {"undefined"}]
  BY ZenonT(60) DEF Judged, TypeOK
<1>3. \E r \in Replies, then \in Phases : Answer(c, r, then)
  BY DEF Judged, Refuse, Replies, Phases, Served
<1> QED BY <1>1, <1>2, <1>3, AnswerType

LEMMA CheckType ==
  ASSUME TypeOK, NEW c \in Clients, NEW who \in Credentials \cup {"anonymous"},
         Check(c, who)
  PROVE  AnswersOK'
<1>0. claim' \in [Clients -> Credentials \cup {"none", "anonymous"}]
  BY DEF Check, TypeOK
<1>1. CASE who \in Slow
  <2>1. \E r \in Replies : Answer(c, r, "checking") /\ UNCHANGED <<verdict, auth>>
    BY <1>1, ZenonT(60) DEF Check, TypeOK, Replies
  <2> QED BY <1>0, <2>1, AnswerType DEF AnswersOK, TypeOK, Phases, Served
<1>2. CASE who \notin Slow
  BY <1>0, <1>2, JudgedType DEF Check, AnswersOK
<1> QED BY <1>1, <1>2

(* Each listener.                                                          *)
LEMMA GreetingType ==
  ASSUME TypeOK, NEW c \in Clients, NEW m, NEW whole, OnGreeting(c, m, whole)
  PROVE  AnswersOK' /\ RegistriesOK' /\ UNCHANGED dropped
<1>1. RegistriesOK' /\ UNCHANGED dropped
  BY DEF OnGreeting, RegistriesOK, TypeOK
<1>2. CASE m = "garbage"
  BY <1>1, <1>2, RefuseType DEF OnGreeting, TypeOK
<1>3. CASE m # "garbage"
  <2>1. PICK offered \in SUBSET methods[c] : Greet(c, offered)
    BY <1>3 DEF OnGreeting
  <2>2. CASE Check(c, "anonymous")
    BY <1>1, <2>2, CheckType
  <2>3. CASE Refuse(c, "unacceptable") /\ UNCHANGED authVars
    BY <1>1, <2>3, RefuseType DEF Replies
  <2>4. CASE \/ Answer(c, "userpass", "auth") /\ UNCHANGED authVars
             \/ Answer(c, "anonymous", "request") /\ UNCHANGED authVars
    BY <1>1, <2>4, AnswerType DEF AnswersOK, TypeOK, Replies, Phases, Served
  <2> QED BY <2>1, <2>2, <2>3, <2>4 DEF Greet
<1> QED BY <1>2, <1>3

LEMMA AuthType ==
  ASSUME TypeOK, NEW c \in Clients, NEW m, NEW whole, OnAuth(c, m, whole)
  PROVE  AnswersOK' /\ RegistriesOK' /\ UNCHANGED dropped
<1>1. RegistriesOK' /\ UNCHANGED dropped
  BY DEF OnAuth, RegistriesOK, TypeOK
<1>2. CASE \E who \in Credentials : Check(c, who)
  BY <1>1, <1>2, CheckType
<1>3. CASE Refuse(c, "denied") /\ UNCHANGED authVars
  BY <1>1, <1>3, RefuseType DEF Replies
<1> QED BY <1>2, <1>3 DEF OnAuth, Credentials

LEMMA RequestType ==
  ASSUME TypeOK, NEW c \in Clients, NEW m, NEW whole, OnRequest(c, m, whole)
  PROVE  AnswersOK' /\ RegistriesOK' /\ UNCHANGED dropped
<1>1. UNCHANGED <<authVars, dropped>>
  BY DEF OnRequest
<1>2. CASE Promote(c)
  <2>1. timer' \in [Clients -> BOOLEAN]
    BY <1>2, Zenon DEF Promote, TypeOK
  <2>2. /\ handshaking' \subseteq Clients
        /\ connections' \subseteq Clients
        /\ emitted' \in [Clients -> Nat]
    BY <1>2 DEF Promote, TypeOK
  <2>3. \E r \in Replies : Answer(c, r, "ready")
    BY <1>2 DEF Promote, TypeOK
  <2> QED BY <1>1, <2>1, <2>2, <2>3, AnswerType DEF AnswersOK, RegistriesOK, TypeOK, Phases, Served
<1>3. CASE Refuse(c, "failed") /\ UNCHANGED registryVars
  BY <1>1, <1>3, RefuseType DEF Replies, RegistriesOK, TypeOK
<1> QED BY <1>2, <1>3 DEF OnRequest

LEMMA NothingType ==
  ASSUME TypeOK, NEW c \in Clients, OnNothing(c)
  PROVE  AnswersOK' /\ RegistriesOK' /\ dropped' \in [Clients -> BOOLEAN]
<1>1. dropped' \in [Clients -> BOOLEAN]
  BY Zenon DEF OnNothing, TypeOK
<1> QED BY <1>1 DEF OnNothing, AnswersOK, RegistriesOK, TypeOK

(* A step of a client, of the server, or a stutter keeps every type.       *)
LEMMA SendsType ==
  ASSUME TypeOK, NEW c \in Clients, NEW m \in Messages,
         NEW then \in {"creds", "request", "payload", "nothing"}, Sends(c, m, then)
  PROVE  TypeOK'
<1>1. Append(wire[c], m) \in Seq(Messages)
  BY DEF TypeOK
<1>2. /\ wire' \in [Clients -> Seq(Messages)]
      /\ next' \in [Clients -> {"greeting", "creds", "request", "payload", "nothing"}]
  BY <1>1 DEF Sends, TypeOK
<1> QED BY <1>2 DEF Sends, TypeOK

LEMMA DestroyedType ==
  ASSUME TypeOK, NEW c \in Clients, Destroyed(c)
  PROVE  /\ sock' \in [Clients -> {"none", "open", "destroyed", "closed"}]
         /\ wire' \in [Clients -> Seq(Messages)]
BY DEF Destroyed, TypeOK

(* What the application does with a connection is one more answer.         *)
LEMMA AppType ==
  ASSUME TypeOK, NEW c \in Clients, AppStep(c)
  PROVE  TypeOK'
<1>1. \E r \in Replies, then \in Phases : Answer(c, r, then)
  BY ZenonT(60) DEF AppStep, AppBind, AppEnd, TypeOK, Replies, Phases, Served
<1>2. reply' \in [Clients -> Replies] /\ phase' \in [Clients -> Phases]
  BY <1>1, AnswerType
<1> QED BY <1>2 DEF AppStep, AppBind, AppEnd, TypeOK

LEMMA ClientType ==
  ASSUME TypeOK, NEW c \in Clients, ClientStep(c)
  PROVE  TypeOK'
<1>1. CASE SendGreeting(c)
  BY <1>1, SendsType DEF SendGreeting, Messages
<1>2. CASE SendCredentials(c)
  BY <1>2, SendsType DEF SendCredentials, Messages, Credentials
<1>3. CASE SendRequest(c)
  BY <1>3, SendsType DEF SendRequest, Messages
<1>4. CASE Disconnect(c)
  BY <1>4, DestroyedType DEF Disconnect, TypeOK
<1> QED BY <1>1, <1>2, <1>3, <1>4 DEF ClientStep

LEMMA DataType ==
  ASSUME TypeOK, NEW c \in Clients, Data(c)
  PROVE  TypeOK'
<1>1. PICK n \in 1..Len(wire[c]), whole \in {TRUE, c \notin Split} :
        /\ wire' = [wire EXCEPT ![c] =
                      IF whole THEN SubSeq(wire[c], n + 1, Len(wire[c]))
                      ELSE <<"rest">> \o SubSeq(wire[c], n + 1, Len(wire[c]))]
        /\ \/ OnGreeting(c, Head(wire[c]), whole)
           \/ OnAuth(c, Head(wire[c]), whole)
           \/ OnRequest(c, Head(wire[c]), whole)
           \/ OnNothing(c)
  BY Zenon DEF Data
<1>2. wire[c] \in Seq(Messages) /\ wire[c] # <<>>
  BY DEF Data, TypeOK
<1>3. wire' \in [Clients -> Seq(Messages)]
  BY <1>1, <1>2, WireType DEF TypeOK
<1>4. AnswersOK' /\ RegistriesOK' /\ dropped' \in [Clients -> BOOLEAN]
  <2>1. dropped \in [Clients -> BOOLEAN]
    BY DEF TypeOK
  <2> QED BY <1>1, <2>1, GreetingType, AuthType, RequestType, NothingType
<1> QED
  BY <1>3, <1>4 DEF Data, TypeOK, AnswersOK, RegistriesOK

LEMMA ServerType ==
  ASSUME TypeOK, AuthInv, NEW c \in Clients, ServerStep(c)
  PROVE  TypeOK'
<1>1. CASE Accept(c)
  <2>1. timer' \in [Clients -> BOOLEAN]
    BY <1>1, Zenon DEF Accept, TypeOK
  <2> QED BY <1>1, <2>1 DEF Accept, TypeOK, Phases, Served
<1>2. CASE Data(c)
  BY <1>2, DataType
<1>3. CASE Settle(c)
  <2>1. CASE Judged(c, claim[c])
    <3>1. claim[c] \in Credentials \cup {"anonymous"}
      BY <1>3 DEF Settle, AuthInv, AuthOf, Served
    <3> QED BY <1>3, <2>1, <3>1, JudgedType DEF Settle, TypeOK
  <2>2. CASE /\ Refuse(c, reply[c])
             /\ verdict' = [verdict EXCEPT ![c] = "rejected"]
             /\ UNCHANGED auth
    <3>1. /\ verdict' \in [Clients -> {"none", "valid", "invalid", "rejected"}]
          /\ reply' \in [Clients -> Replies]
          /\ phase' \in [Clients -> Phases]
      BY <2>2, AnswerType DEF Refuse, TypeOK, Phases, Served
    <3> QED BY <1>3, <2>2, <3>1 DEF Settle, TypeOK
  <2> QED BY <1>3, <2>1, <2>2 DEF Settle
<1>4. CASE Timeout(c)
  BY <1>4, DestroyedType DEF Timeout, TypeOK
<1>5. CASE Close(c)
  <2>1. timer' \in [Clients -> BOOLEAN]
    BY <1>5, Zenon DEF Close, TypeOK
  <2> QED BY <1>5, <2>1 DEF Close, TypeOK
<1> QED BY <1>1, <1>2, <1>3, <1>4, <1>5 DEF ServerStep

LEMMA TypeStep == TypeOK /\ AuthInv /\ [Next]_vars => TypeOK'
<1> SUFFICES ASSUME TypeOK, AuthInv, [Next]_vars PROVE TypeOK'
  OBVIOUS
<1>1. CASE ServerClose
  <2>1. closing' \in BOOLEAN /\ resolved' \in BOOLEAN
    BY <1>1, Zenon DEF ServerClose, TypeOK
  <2>2. sock' \in [Clients -> {"none", "open", "destroyed", "closed"}]
    BY <1>1 DEF ServerClose, TypeOK
  <2>3. wire' \in [Clients -> Seq(Messages)]
    BY <1>1 DEF ServerClose, TypeOK
  <2> QED BY <1>1, <2>1, <2>2, <2>3 DEF ServerClose, TypeOK
<1>2. CASE Resolve
  <2>1. closing' \in BOOLEAN /\ resolved' \in BOOLEAN
    BY <1>2, Zenon DEF Resolve, TypeOK
  <2> QED BY <1>2, <2>1 DEF Resolve, TypeOK
<1>3. CASE \E c \in Clients : ClientStep(c) \/ ServerStep(c) \/ AppStep(c)
  BY <1>3, ClientType, ServerType, AppType
<1>4. CASE UNCHANGED vars
  BY <1>4 DEF vars, TypeOK
<1> QED BY <1>1, <1>2, <1>3, <1>4 DEF Next

-----------------------------------------------------------------------------
(* The same, for the other two parts of IInv.  Every action disturbs one   *)
(* client only; a lemma says so, and the invariant of that client follows. *)
LEMMA AuthSame ==
  ASSUME AuthInv, UNCHANGED <<phase, authVars, emitted>>
  PROVE  AuthInv'
BY DEF AuthInv, AuthOf, Accepted

(* A verdict leads to the request only when it is the one Accepted asks    *)
(* for; every other answer refuses the client.                             *)
LEMMA AnswerOf ==
  ASSUME TypeOK, NEW c \in Clients, NEW r, NEW then, Answer(c, r, then)
  PROVE  phase'[c] = then /\ \A d \in Clients \ {c} : phase'[d] = phase[d]
BY DEF Answer, TypeOK

LEMMA JudgedOf ==
  ASSUME TypeOK, NEW c \in Clients, NEW who \in Credentials \cup {"anonymous"},
         Judged(c, who), claim'[c] = who, auth[c] = "undefined",
         claim' \in [Clients -> Credentials \cup {"none", "anonymous"}]
  PROVE  /\ phase'[c] \in {"request", "refused"}
         /\ phase'[c] = "request" => Accepted(c)'
         /\ \A d \in Clients \ {c} : /\ phase'[d] = phase[d]
                                     /\ verdict'[d] = verdict[d]
                                     /\ auth'[d] = auth[d]
<1>1. Valid(who) \in BOOLEAN
  BY Socks5Assumption DEF Valid
<1>2. Valid(who)' = Valid(who)
  BY DEF Valid
<1>3. CASE ~Valid(who)
  <2>1. phase'[c] = "refused"
    BY <1>3 DEF Judged, Refuse, Answer, TypeOK
  <2> QED BY <1>3, <2>1 DEF Judged, Refuse, Answer, TypeOK
<1>4. CASE Valid(who)
  <2>1. phase'[c] = "request" /\ verdict'[c] = "valid"
    BY <1>4 DEF Judged, Answer, TypeOK
  <2>2. auth'[c] = IF who = "anonymous" THEN "undefined" ELSE who
    BY <1>4 DEF Judged, Answer, TypeOK
  <2>3. Accepted(c)'
    BY <1>4, <2>1, <2>2 DEF Accepted, Valid
  <2> QED BY <1>4, <2>1, <2>3 DEF Judged, Answer, TypeOK
<1> QED BY <1>3, <1>4

(* What one client goes through leaves what is known of the others.        *)
LEMMA AuthOthers ==
  ASSUME AuthInv, NEW c \in Clients, AuthOf(c)',
         \A d \in Clients \ {c} : /\ phase'[d] = phase[d]
                                  /\ claim'[d] = claim[d]
                                  /\ verdict'[d] = verdict[d]
                                  /\ auth'[d] = auth[d]
                                  /\ emitted'[d] = emitted[d]
  PROVE  AuthInv'
<1>1. ASSUME NEW d \in Clients \ {c} PROVE AuthOf(d)'
  BY <1>1 DEF AuthInv, AuthOf, Accepted, Valid, Served
<1> QED BY <1>1 DEF AuthInv

LEMMA CheckAuth ==
  ASSUME TypeOK, AuthInv, NEW c \in Clients, NEW who \in Credentials \cup {"anonymous"},
         Check(c, who), phase[c] \in {"greeting", "auth"}, UNCHANGED emitted
  PROVE  AuthInv'
<1>1. auth[c] = "undefined" /\ emitted[c] = 0
  BY DEF AuthInv, AuthOf, Served
<1>2. claim' = [claim EXCEPT ![c] = who]
  BY DEF Check
<1>3. claim' \in [Clients -> Credentials \cup {"none", "anonymous"}]
  BY <1>2 DEF TypeOK
<1>4. claim'[c] = who /\ \A d \in Clients \ {c} : claim'[d] = claim[d]
  BY <1>2 DEF TypeOK
<1>5. CASE who \in Slow
  <2>1. /\ phase'[c] = "checking"
        /\ \A d \in Clients \ {c} : phase'[d] = phase[d]
        /\ UNCHANGED <<verdict, auth>>
    BY <1>5 DEF Check, Answer, TypeOK
  <2>2. AuthOf(c)'
    BY <1>1, <1>4, <2>1 DEF AuthOf, Served
  <2> QED BY <1>4, <2>1, <2>2, AuthOthers
<1>6. CASE who \notin Slow
  <2>1. Judged(c, who)
    BY <1>6 DEF Check
  <2>2. AuthOf(c)'
    BY <1>1, <1>3, <1>4, <2>1, JudgedOf DEF AuthOf, Served
  <2> QED BY <1>1, <1>3, <1>4, <2>1, <2>2, JudgedOf, AuthOthers
<1> QED BY <1>5, <1>6

LEMMA RefuseAuth ==
  ASSUME TypeOK, AuthInv, NEW c \in Clients, NEW r, Refuse(c, r), phase[c] \notin Served,
         UNCHANGED <<claim, auth, emitted>>,
         \A d \in Clients \ {c} : verdict'[d] = verdict[d]
  PROVE  AuthInv'
<1>1. phase'[c] = "refused" /\ \A d \in Clients \ {c} : phase'[d] = phase[d]
  BY AnswerOf DEF Refuse
<1>2. AuthOf(c)'
  BY <1>1 DEF AuthInv, AuthOf, Served
<1> QED BY <1>1, <1>2, AuthOthers

LEMMA GreetingAuth ==
  ASSUME TypeOK, AuthInv, NEW c \in Clients, NEW m, NEW whole, OnGreeting(c, m, whole)
  PROVE  AuthInv'
<1>1. phase[c] = "greeting" /\ UNCHANGED emitted
  BY DEF OnGreeting
<1>2. CASE \E r : Refuse(c, r) /\ UNCHANGED authVars
  BY <1>1, <1>2, RefuseAuth DEF Served
<1>3. CASE Check(c, "anonymous")
  BY <1>1, <1>3, CheckAuth
<1>4. CASE \/ Answer(c, "userpass", "auth") /\ UNCHANGED authVars
           \/ /\ ~Authenticate
              /\ Answer(c, "anonymous", "request") /\ UNCHANGED authVars
  <2>1. phase'[c] \in {"auth", "request"}
    BY <1>4, AnswerOf
  <2>2. phase'[c] = "request" => ~Authenticate
    BY <1>4, AnswerOf
  <2>3. \A d \in Clients \ {c} : phase'[d] = phase[d]
    BY <1>4, AnswerOf
  <2>4. AuthOf(c)'
    BY <1>1, <1>4, <2>1, <2>2 DEF AuthInv, AuthOf, Served
  <2> QED BY <1>1, <1>4, <2>3, <2>4, AuthOthers
<1> QED
  <2>1. CASE m = "garbage"
    BY <1>2, <2>1 DEF OnGreeting
  <2>2. CASE m # "garbage"
    <3>1. PICK offered \in SUBSET methods[c] : Greet(c, offered)
      BY <2>2 DEF OnGreeting
    <3> QED BY <3>1, <1>2, <1>3, <1>4 DEF Greet
  <2> QED BY <2>1, <2>2

LEMMA AuthAuth ==
  ASSUME TypeOK, AuthInv, NEW c \in Clients, NEW m, NEW whole, OnAuth(c, m, whole)
  PROVE  AuthInv'
<1>1. phase[c] = "auth" /\ UNCHANGED emitted
  BY DEF OnAuth
<1>2. CASE \E who \in Credentials : Check(c, who)
  BY <1>1, <1>2, CheckAuth
<1>3. CASE Refuse(c, "denied") /\ UNCHANGED authVars
  BY <1>1, <1>3, RefuseAuth DEF Served
<1> QED BY <1>2, <1>3 DEF OnAuth, Credentials

LEMMA RequestAuth ==
  ASSUME TypeOK, AuthInv, NEW c \in Clients, NEW m, NEW whole, OnRequest(c, m, whole)
  PROVE  AuthInv'
<1>1. phase[c] = "request" /\ UNCHANGED authVars
  BY DEF OnRequest
<1>2. CASE Promote(c)
  <2>1. phase'[c] = "ready" /\ \A d \in Clients \ {c} : phase'[d] = phase[d]
    BY <1>2, AnswerOf DEF Promote
  <2>2. emitted'[c] = 1 /\ \A d \in Clients \ {c} : emitted'[d] = emitted[d]
    <3>1. emitted[c] = 0
      BY <1>1 DEF AuthInv, AuthOf, Served
    <3>2. emitted' = [emitted EXCEPT ![c] = emitted[c] + 1]
      BY <1>2 DEF Promote
    <3> QED BY <3>1, <3>2 DEF TypeOK
  <2>3. AuthOf(c)'
    BY <1>1, <2>1, <2>2 DEF AuthInv, AuthOf, Accepted, Valid, Served
  <2> QED BY <1>1, <2>1, <2>2, <2>3, AuthOthers
<1>3. CASE Refuse(c, "failed") /\ UNCHANGED registryVars
  BY <1>1, <1>3, RefuseAuth DEF Served
<1> QED BY <1>2, <1>3 DEF OnRequest

LEMMA SettleAuth ==
  ASSUME TypeOK, AuthInv, NEW c \in Clients, Settle(c)
  PROVE  AuthInv'
<1>1. /\ phase[c] = "checking" /\ auth[c] = "undefined" /\ emitted[c] = 0
      /\ claim[c] \in Credentials \cup {"anonymous"}
      /\ UNCHANGED <<claim, emitted>>
  BY DEF Settle, AuthInv, AuthOf, Served
<1>2. CASE Judged(c, claim[c])
  <2>1. claim' \in [Clients -> Credentials \cup {"none", "anonymous"}]
    BY <1>1 DEF TypeOK
  <2>2. PICK who \in Credentials \cup {"anonymous"} : who = claim[c] /\ Judged(c, who)
    BY <1>1, <1>2
  <2>3. claim'[c] = who
    BY <1>1, <2>2
  <2>4. AuthOf(c)'
    BY <1>1, <2>1, <2>2, <2>3, JudgedOf DEF AuthOf, Served
  <2> QED BY <1>1, <2>1, <2>2, <2>3, <2>4, JudgedOf, AuthOthers
<1>3. CASE /\ Refuse(c, reply[c])
           /\ verdict' = [verdict EXCEPT ![c] = "rejected"]
           /\ UNCHANGED auth
  <2>1. \A d \in Clients \ {c} : verdict'[d] = verdict[d]
    BY <1>3 DEF TypeOK
  <2> QED BY <1>1, <1>3, <2>1, RefuseAuth DEF Served
<1> QED BY <1>2, <1>3 DEF Settle

LEMMA ClientAuth ==
  ASSUME AuthInv, NEW c \in Clients, ClientStep(c)
  PROVE  AuthInv'
<1>1. UNCHANGED <<phase, authVars, emitted>>
  BY DEF ClientStep, SendGreeting, SendCredentials, SendRequest, Sends, Disconnect
<1> QED BY <1>1, AuthSame

LEMMA AppAuth ==
  ASSUME TypeOK, AuthInv, NEW c \in Clients, AppStep(c)
  PROVE  AuthInv'
<1>1. phase[c] \in Served /\ UNCHANGED <<authVars, emitted>>
  BY DEF AppStep, AppBind, AppEnd, Served
<1>2. phase'[c] \in Served /\ \A d \in Clients \ {c} : phase'[d] = phase[d]
  BY AnswerOf DEF AppStep, AppBind, AppEnd, Served
<1>3. AuthOf(c)'
  BY <1>1, <1>2 DEF AuthInv, AuthOf, Accepted, Valid, Served
<1> QED BY <1>1, <1>2, <1>3, AuthOthers

LEMMA ServerAuth ==
  ASSUME TypeOK, AuthInv, RegistryInv, NEW c \in Clients, ServerStep(c)
  PROVE  AuthInv'
<1>1. CASE Accept(c)
  <2>1. phase[c] = "new"
    BY <1>1 DEF Accept, RegistryInv, RegistryOf
  <2>2. phase'[c] = "greeting" /\ \A d \in Clients \ {c} : phase'[d] = phase[d]
    BY <1>1 DEF Accept, TypeOK
  <2>3. AuthOf(c)'
    BY <1>1, <2>1, <2>2 DEF Accept, AuthInv, AuthOf, Served
  <2> QED BY <1>1, <2>2, <2>3, AuthOthers DEF Accept
<1>2. CASE Data(c)
  <2>1. PICK m, whole : \/ OnGreeting(c, m, whole) \/ OnAuth(c, m, whole)
                        \/ OnRequest(c, m, whole) \/ OnNothing(c)
    BY <1>2 DEF Data
  <2>2. CASE OnNothing(c)
    BY <2>2, AuthSame DEF OnNothing
  <2> QED BY <2>1, <2>2, GreetingAuth, AuthAuth, RequestAuth
<1>3. CASE Settle(c)
  BY <1>3, SettleAuth
<1>4. CASE Timeout(c) \/ Close(c)
  BY <1>4, AuthSame DEF Timeout, Close
<1> QED BY <1>1, <1>2, <1>3, <1>4 DEF ServerStep

LEMMA AuthStep == IInv /\ [Next]_vars => AuthInv'
<1> SUFFICES ASSUME IInv, [Next]_vars PROVE AuthInv'
  OBVIOUS
<1>1. CASE ServerClose \/ Resolve \/ UNCHANGED vars
  BY <1>1, AuthSame DEF ServerClose, Resolve, vars, IInv
<1>2. CASE \E c \in Clients : ClientStep(c) \/ ServerStep(c) \/ AppStep(c)
  BY <1>2, ClientAuth, ServerAuth, AppAuth DEF IInv
<1> QED BY <1>1, <1>2 DEF Next

-----------------------------------------------------------------------------
LEMMA RegistrySame ==
  ASSUME RegistryInv, UNCHANGED <<sock, phase, timer, handshaking, connections, closing>>
  PROVE  RegistryInv'
BY Zenon DEF RegistryInv, RegistryOf

LEMMA RegistryOthers ==
  ASSUME RegistryInv, NEW c \in Clients, RegistryOf(c)',
         \A d \in Clients \ {c} : /\ sock'[d] = sock[d]
                                  /\ phase'[d] = phase[d]
                                  /\ timer'[d] = timer[d]
                                  /\ d \in handshaking' <=> d \in handshaking
                                  /\ d \in connections' <=> d \in connections,
         UNCHANGED closing
  PROVE  RegistryInv'
<1>1. ASSUME NEW d \in Clients \ {c} PROVE RegistryOf(d)'
  BY <1>1, Zenon DEF RegistryInv, RegistryOf
<1> QED BY <1>1, Zenon DEF RegistryInv

(* A listener that leaves the registries alone stays in the handshake.     *)
LEMMA RegistryUnserved ==
  ASSUME TypeOK, RegistryInv, NEW c \in Clients, sock[c] = "open",
         phase[c] \notin Served, phase'[c] \in Handshake,
         \A d \in Clients \ {c} : phase'[d] = phase[d],
         UNCHANGED <<sock, timer, handshaking, connections, closing>>
  PROVE  RegistryInv'
<1>1. phase'[c] # "new" /\ phase'[c] \notin Served
  BY DEF Handshake
<1>2. RegistryOf(c)'
  BY <1>1, Zenon DEF RegistryInv, RegistryOf
<1> QED BY <1>2, RegistryOthers, Zenon

LEMMA AnswersUnserved ==
  ASSUME TypeOK, NEW c \in Clients,
         \/ \E r : \E then \in Handshake : Answer(c, r, then)
         \/ \E r : Refuse(c, r)
         \/ \E who : Judged(c, who)
         \/ \E who : Check(c, who)
  PROVE  /\ phase'[c] \in Handshake
         /\ \A d \in Clients \ {c} : phase'[d] = phase[d]
<1>1. ASSUME NEW r, NEW then \in Handshake, Answer(c, r, then)
      PROVE  /\ phase'[c] \in Handshake
             /\ \A d \in Clients \ {c} : phase'[d] = phase[d]
  BY <1>1, AnswerOf
<1>2. ASSUME NEW r, Refuse(c, r)
      PROVE  \E then \in Handshake : Answer(c, r, then)
  BY <1>2 DEF Refuse, Handshake, Phases, Served
<1>3. ASSUME NEW who, Judged(c, who)
      PROVE  \E r : \E then \in Handshake : Answer(c, r, then)
  BY <1>3 DEF Judged, Refuse, Handshake, Phases, Served
<1>4. ASSUME NEW who, Check(c, who)
      PROVE  \E r : \E then \in Handshake : Answer(c, r, then)
  BY <1>3, <1>4 DEF Check, Handshake, Phases, Served
<1> QED BY <1>1, <1>2, <1>3, <1>4

LEMMA RegistryDestroys ==
  ASSUME TypeOK, RegistryInv, NEW c \in Clients, sock[c] = "open",
         sock' = [sock EXCEPT ![c] = "destroyed"],
         UNCHANGED <<phase, timer, handshaking, connections, closing>>
  PROVE  RegistryInv'
<1>1. sock'[c] = "destroyed" /\ \A d \in Clients \ {c} : sock'[d] = sock[d]
  BY DEF TypeOK
<1>2. RegistryOf(c)'
  BY <1>1 DEF RegistryOf
<1> QED BY <1>1, <1>2, RegistryOthers

LEMMA RegistryAuthenticates ==
  ASSUME TypeOK, RegistryInv, NEW c \in Clients, NEW m, NEW whole, sock[c] = "open",
         \/ OnGreeting(c, m, whole) \/ OnAuth(c, m, whole)
         \/ OnRequest(c, m, whole) /\ Refuse(c, "failed") /\ UNCHANGED registryVars,
         UNCHANGED <<sock, closing>>
  PROVE  RegistryInv'
<1>1. phase[c] \notin Served /\ UNCHANGED registryVars
  BY DEF OnGreeting, OnAuth, OnRequest, Served
<1>2. \/ \E r : \E then \in Handshake : Answer(c, r, then)
      \/ \E r : Refuse(c, r)
      \/ \E who : Check(c, who)
  <2>1. CASE OnGreeting(c, m, whole) /\ m # "garbage"
    <3>1. PICK offered \in SUBSET methods[c] : Greet(c, offered)
      BY <2>1 DEF OnGreeting
    <3> QED BY <3>1 DEF Greet, Handshake, Phases, Served
  <2>2. CASE OnGreeting(c, m, whole) /\ m = "garbage"
    BY <2>2 DEF OnGreeting
  <2>3. CASE OnAuth(c, m, whole)
    BY <2>3 DEF OnAuth
  <2> QED BY <2>1, <2>2, <2>3
<1> QED BY <1>1, <1>2, AnswersUnserved, RegistryUnserved

LEMMA RegistryPromotes ==
  ASSUME TypeOK, RegistryInv, NEW c \in Clients, sock[c] = "open", Promote(c),
         UNCHANGED <<sock, closing>>
  PROVE  RegistryInv'
<1>1. /\ phase'[c] # "new" /\ phase'[c] \in Served
      /\ \A d \in Clients \ {c} : phase'[d] = phase[d]
  BY AnswerOf DEF Promote, Served
<1>2. ~timer'[c] /\ \A d \in Clients \ {c} : timer'[d] = timer[d]
  BY Zenon DEF Promote, TypeOK
<1>3. /\ c \notin handshaking' /\ c \in connections'
      /\ \A d \in Clients \ {c} : /\ d \in handshaking' <=> d \in handshaking
                                  /\ d \in connections' <=> d \in connections
  BY DEF Promote
<1>4. RegistryOf(c)'
  <2>1. "open" # "none"
    OBVIOUS
  <2> QED BY <1>1, <1>2, <1>3, <2>1, Zenon DEF RegistryInv, RegistryOf
<1> QED BY <1>1, <1>2, <1>3, <1>4, RegistryOthers, Zenon

LEMMA RegistryServes ==
  ASSUME TypeOK, RegistryInv, NEW c \in Clients, ServerStep(c)
  PROVE  RegistryInv'
<1>1. CASE Accept(c)
  <2>1. /\ sock'[c] = "open" /\ phase'[c] = "greeting"
        /\ \A d \in Clients \ {c} : sock'[d] = sock[d] /\ phase'[d] = phase[d]
    BY <1>1 DEF Accept, TypeOK
  <2>2. timer'[c] /\ \A d \in Clients \ {c} : timer'[d] = timer[d]
    BY <1>1, Zenon DEF Accept, TypeOK
  <2>3. /\ c \in handshaking'
        /\ \A d \in Clients \ {c} : d \in handshaking' <=> d \in handshaking
        /\ UNCHANGED <<connections, closing>>
    BY <1>1 DEF Accept
  <2>4. c \notin connections /\ ~closing
    BY <1>1 DEF Accept, RegistryInv, RegistryOf
  <2>5. /\ "greeting" # "new" /\ "greeting" \notin Served
        /\ "open" # "none" /\ "open" \in {"open", "destroyed"}
    BY DEF Served
  <2>6. RegistryOf(c)'
    BY <2>1, <2>2, <2>3, <2>4, <2>5, Zenon DEF RegistryOf
  <2> QED BY <2>1, <2>2, <2>3, <2>6, RegistryOthers, Zenon
<1>2. CASE Data(c)
  <2>1. sock[c] = "open" /\ UNCHANGED <<sock, closing>>
    BY <1>2 DEF Data
  <2>2. PICK m, whole : \/ OnGreeting(c, m, whole) \/ OnAuth(c, m, whole)
                        \/ OnRequest(c, m, whole) \/ OnNothing(c)
    BY <1>2 DEF Data
  <2>3. CASE OnNothing(c)
    BY <2>1, <2>3, RegistrySame DEF OnNothing
  <2>4. CASE OnRequest(c, m, whole) /\ Promote(c)
    BY <2>1, <2>4, RegistryPromotes
  <2>5. CASE OnRequest(c, m, whole) /\ Refuse(c, "failed") /\ UNCHANGED registryVars
    BY <2>1, <2>5, RegistryAuthenticates
  <2>6. CASE OnRequest(c, m, whole)
    BY <2>4, <2>5, <2>6 DEF OnRequest
  <2> QED BY <2>1, <2>2, <2>3, <2>6, RegistryAuthenticates
<1>3. CASE Settle(c)
  <2>1. phase[c] = "checking" /\ UNCHANGED <<sock, timer, handshaking, connections, closing>>
    BY <1>3 DEF Settle
  <2>2. phase'[c] \in Handshake /\ \A d \in Clients \ {c} : phase'[d] = phase[d]
    BY <1>3, AnswersUnserved DEF Settle
  <2>3. RegistryOf(c)'
    <3>1. sock[c] # "none" /\ phase[c] # "new" /\ phase[c] \notin Served
      BY <2>1 DEF RegistryInv, RegistryOf, Served
    <3>2. phase'[c] # "new" /\ phase'[c] \notin Served
      BY <2>2 DEF Handshake
    <3> QED BY <2>1, <3>1, <3>2, Zenon DEF RegistryInv, RegistryOf
  <2> QED BY <2>1, <2>2, <2>3, RegistryOthers, Zenon
<1>4. CASE Timeout(c)
  BY <1>4, RegistryDestroys DEF Timeout, Destroyed
<1>5. CASE Close(c)
  <2>1. sock'[c] = "closed" /\ \A d \in Clients \ {c} : sock'[d] = sock[d]
    BY <1>5 DEF Close, TypeOK
  <2>2. \A d \in Clients \ {c} : timer'[d] = timer[d]
    BY <1>5, Zenon DEF Close, TypeOK
  <2>3. /\ c \notin handshaking' \cup connections'
        /\ \A d \in Clients \ {c} : /\ d \in handshaking' <=> d \in handshaking
                                    /\ d \in connections' <=> d \in connections
        /\ UNCHANGED <<phase, closing>>
    BY <1>5 DEF Close
  <2>4. RegistryOf(c)'
    BY <2>1, <2>3 DEF RegistryOf
  <2> QED BY <2>1, <2>2, <2>3, <2>4, RegistryOthers, Zenon
<1> QED BY <1>1, <1>2, <1>3, <1>4, <1>5 DEF ServerStep

LEMMA RegistryApp ==
  ASSUME TypeOK, RegistryInv, NEW c \in Clients, AppStep(c)
  PROVE  RegistryInv'
<1>1. phase[c] \in Served /\ UNCHANGED <<sock, timer, handshaking, connections, closing>>
  <2>1. phase[c] = "ready"
    BY DEF AppStep, AppBind, AppEnd
  <2> QED BY <2>1 DEF AppStep, AppBind, AppEnd, Served
<1>2. /\ phase'[c] # "new" /\ phase'[c] \in Served
      /\ \A d \in Clients \ {c} : phase'[d] = phase[d]
  BY AnswerOf DEF AppStep, AppBind, AppEnd, Served
<1>3. sock[c] # "none"
  BY <1>1 DEF RegistryInv, RegistryOf, Served
<1>4. RegistryOf(c)'
  BY <1>1, <1>2, <1>3, Zenon DEF RegistryInv, RegistryOf
<1> QED BY <1>1, <1>2, <1>4, RegistryOthers, Zenon

LEMMA RegistryStep == IInv /\ [Next]_vars => RegistryInv'
<1> SUFFICES ASSUME IInv, [Next]_vars PROVE RegistryInv'
  OBVIOUS
<1>1. CASE ServerClose
  <2> SUFFICES ASSUME NEW c \in Clients PROVE RegistryOf(c)'
    BY DEF RegistryInv
  <2>1. c \notin handshaking' \cup connections' /\ UNCHANGED phase
    BY <1>1 DEF ServerClose
  <2>2. sock'[c] # "open"
    BY <1>1 DEF ServerClose, ClosedSockets, IInv, RegistryInv, RegistryOf
  <2>3. sock'[c] = "none" => sock[c] = "none"
    BY <1>1 DEF ServerClose
  <2> QED BY <2>1, <2>2, <2>3 DEF IInv, RegistryInv, RegistryOf
<1>2. CASE Resolve \/ UNCHANGED vars
  BY <1>2, RegistrySame DEF Resolve, vars, IInv
<1>3. ASSUME NEW c \in Clients, ClientStep(c)
      PROVE  RegistryInv'
  <2>1. CASE Disconnect(c)
    BY <2>1, RegistryDestroys DEF Disconnect, Destroyed, IInv
  <2>2. CASE SendGreeting(c) \/ SendCredentials(c) \/ SendRequest(c)
    BY <2>2, RegistrySame DEF SendGreeting, SendCredentials, SendRequest, Sends, IInv
  <2> QED BY <1>3, <2>1, <2>2 DEF ClientStep
<1> QED BY <1>1, <1>2, <1>3, RegistryServes, RegistryApp DEF Next, IInv

-----------------------------------------------------------------------------
(* README.md:115 and the registries of socks5/index.js, for every set of   *)
(* clients and every authenticate option.                                  *)
THEOREM Invariance == Spec => []IInv
<1>1. Init => IInv
  BY InitInv
<1>2. IInv /\ [Next]_vars => IInv'
  BY TypeStep, AuthStep, RegistryStep DEF IInv
<1> QED BY <1>1, <1>2, PTL DEF Spec

(* Every variable keeps its type.                                          *)
THEOREM TypeCorrect == Spec => []TypeOK
<1>1. IInv => TypeOK
  BY DEF IInv
<1> QED BY <1>1, Invariance, PTL

(* No connection without a verdict on what its client presented.           *)
THEOREM Authenticated == Spec => []AuthenticatedOnly
<1>1. IInv => AuthenticatedOnly
  <2> SUFFICES ASSUME IInv, NEW c \in Clients, emitted[c] > 0, Authenticate
               PROVE  Accepted(c)
    BY DEF AuthenticatedOnly, Accepted
  <2>1. phase[c] \in Served
    BY DEF IInv, AuthInv, AuthOf, Served
  <2> QED BY <2>1 DEF IInv, AuthInv, AuthOf, Served
<1> QED BY <1>1, Invariance, PTL

(* One socket is one connection.                                           *)
THEOREM Once == Spec => []EmittedOnce
<1>1. IInv => EmittedOnce
  <2> SUFFICES ASSUME IInv, NEW c \in Clients PROVE emitted[c] <= 1
    BY DEF EmittedOnce
  <2>1. emitted[c] = IF phase[c] \in Served THEN 1 ELSE 0
    BY DEF IInv, AuthInv, AuthOf, Served
  <2> QED BY <2>1
<1> QED BY <1>1, Invariance, PTL

(* Every open socket is in one registry, where close() finds it.           *)
THEOREM TrackedAlways == Spec => []Tracked
<1>1. IInv => Tracked
  BY DEF IInv, RegistryInv, RegistryOf, Tracked
<1> QED BY <1>1, Invariance, PTL

(* The handshake timer guards what is open and not served, and no more.    *)
THEOREM TimerGuards == Spec => []TimerGuardsHandshake
<1>1. IInv => TimerGuardsHandshake
  BY Zenon DEF IInv, RegistryInv, RegistryOf, TimerGuardsHandshake
<1> QED BY <1>1, Invariance, PTL

-----------------------------------------------------------------------------
(* What a client that waits for each reply, and whose messages arrive      *)
(* whole, has sent and what of it is read, once its socket is open.  One   *)
(* that authenticate() has not refused sends nothing without a listener.   *)
AllRead(c, then) == wire[c] = <<>> /\ next[c] = then

OneSent(c, messages, then) ==
  (\E m \in messages : wire[c] = <<m>>) /\ next[c] = then

AfterGreeting(c) == IF "userpass" \in methods[c] THEN "creds" ELSE "request"

TurnedAway(c) == phase[c] = "refused" /\ verdict[c] = "invalid"

(* The reply it waits for has not come.                                    *)
Quiet(c) ==
  /\ wire[c] = <<>>
  /\ \/ next[c] = "creds" /\ reply[c] # "userpass"
     \/ next[c] = "request" /\ reply[c] \notin {"anonymous", "accepted"}
     \/ next[c] = "payload" /\ reply[c] # "granted"

InTurn(c) ==
  /\ phase[c] = "greeting" =>
       /\ reply[c] = "none"
       /\ \/ AllRead(c, "greeting")
          \/ OneSent(c, {"greeting", "garbage"}, AfterGreeting(c))
  /\ phase[c] = "auth" =>
       /\ reply[c] = "userpass"
       /\ AllRead(c, "creds") \/ OneSent(c, Credentials, "request")
  /\ phase[c] = "checking" => reply[c] = "userpass" /\ AllRead(c, "request")
  /\ phase[c] = "request" =>
       /\ reply[c] \in {"anonymous", "accepted"}
       /\ AllRead(c, "request") \/ OneSent(c, {"connect", "other"}, "payload")
  /\ phase[c] = "ready" =>
       reply[c] \in {"anonymous", "accepted"} /\ AllRead(c, "payload")
  /\ phase[c] = "ended" => Quiet(c)
  /\ phase[c] = "refused" => verdict[c] = "invalid" \/ Quiet(c)

PatientOf(c) ==
  /\ dropped[c] => TurnedAway(c)
  /\ sock[c] = "none" => reply[c] = "none" /\ AllRead(c, "greeting")
  /\ sock[c] = "open" => InTurn(c)

Patient == Clients \ (Eager \cup Split)

PatientInv == \A c \in Patient : PatientOf(c)

LEMMA PatientOthers ==
  ASSUME PatientInv, NEW c \in Clients, c \in Patient => PatientOf(c)', UNCHANGED methods,
         \A d \in Clients \ {c} : /\ sock'[d] = sock[d] /\ phase'[d] = phase[d]
                                  /\ wire'[d] = wire[d] /\ next'[d] = next[d]
                                  /\ reply'[d] = reply[d] /\ dropped'[d] = dropped[d]
                                  /\ verdict'[d] = verdict[d]
  PROVE  PatientInv'
<1>1. ASSUME NEW d \in Patient, d # c PROVE PatientOf(d)'
  BY <1>1 DEF Patient, PatientInv, PatientOf, TurnedAway, InTurn, Quiet, AllRead, OneSent,
              AfterGreeting
<1> QED BY <1>1 DEF Patient, PatientInv

(* A client that waits sends one message at a time, behind a reply.        *)
LEMMA PatientSends ==
  ASSUME TypeOK, PatientInv, NEW c \in Clients,
         SendGreeting(c) \/ SendCredentials(c) \/ SendRequest(c)
  PROVE  PatientInv'
<1>1. PICK message \in {"greeting", "creds", "request", "payload"}, m \in Messages,
             then \in {"creds", "request", "payload", "nothing"} :
        /\ MaySend(c, message) /\ Sends(c, m, then)
        /\ \/ /\ message = "greeting" /\ m \in {"greeting", "garbage"}
              /\ then = AfterGreeting(c)
           \/ message = "creds" /\ m \in Credentials /\ then = "request"
           \/ message = "request" /\ m \in {"connect", "other"} /\ then = "payload"
           \/ message = "payload" /\ m \in {"connect", "other"} /\ then = "nothing"
  BY DEF SendGreeting, SendCredentials, SendRequest, Messages, Credentials, AfterGreeting
<1>2. /\ UNCHANGED <<methods, reply, sock, phase, dropped, verdict>>
      /\ wire'[c] = Append(wire[c], m) /\ next'[c] = then
      /\ \A d \in Clients \ {c} : wire'[d] = wire[d] /\ next'[d] = next[d]
      /\ wire[c] \in Seq(Messages)
  BY <1>1 DEF Sends, TypeOK
<1>3. ASSUME c \in Patient PROVE PatientOf(c)'
  <2>1. /\ sock[c] = "open" /\ next[c] = message /\ InTurn(c)
        /\ message = "creds" => reply[c] = "userpass"
        /\ message = "request" => reply[c] \in {"anonymous", "accepted"}
        /\ message = "payload" => reply[c] = "granted"
    BY <1>1, <1>3 DEF MaySend, Patient, PatientInv, PatientOf
  <2>2. wire[c] = <<>> => wire'[c] = <<m>>
    BY <1>2
  <2>3. ~Quiet(c)
    BY <1>1, <2>1 DEF Quiet
  <2>4. InTurn(c)'
    <3>1. CASE phase[c] = "greeting"
      BY <1>1, <1>2, <2>1, <2>2, <3>1 DEF InTurn, AllRead, OneSent, AfterGreeting
    <3>2. CASE phase[c] = "auth"
      BY <1>1, <1>2, <2>1, <2>2, <3>2 DEF InTurn, AllRead, OneSent
    <3>3. CASE phase[c] = "request"
      BY <1>1, <1>2, <2>1, <2>2, <3>3 DEF InTurn, AllRead, OneSent
    <3>4. /\ phase[c] \notin {"checking", "ready", "ended"}
          /\ phase[c] = "refused" => verdict[c] = "invalid"
      BY <1>1, <2>1, <2>3 DEF InTurn, AllRead
    <3> QED BY <1>2, <3>1, <3>2, <3>3, <3>4 DEF InTurn
  <2>5. dropped'[c] => TurnedAway(c)'
    BY <1>2, <1>3 DEF PatientInv, PatientOf, TurnedAway
  <2> QED BY <1>2, <2>1, <2>4, <2>5 DEF PatientOf
<1> QED BY <1>2, <1>3, PatientOthers

(* The wire behind a 'data' event that brought the one message on it.      *)
LEMMA DataWire ==
  ASSUME NEW w \in Seq(Messages), w # <<>>, NEW n \in 1..Len(w), NEW m, w = <<m>>
  PROVE  Head(w) = m /\ SubSeq(w, n + 1, Len(w)) = <<>>
OBVIOUS

(* The reply a listener writes, and the listener it leaves behind.         *)
LEMMA AnswerPair ==
  ASSUME TypeOK, NEW c \in Clients, NEW r, NEW then, Answer(c, r, then)
  PROVE  /\ reply'[c] = r /\ phase'[c] = then
         /\ \A d \in Clients \ {c} : reply'[d] = reply[d] /\ phase'[d] = phase[d]
BY DEF Answer, TypeOK

LEMMA RefusePair ==
  ASSUME TypeOK, NEW c \in Clients, NEW r, Refuse(c, r)
  PROVE  /\ phase'[c] = "refused"
         /\ \A d \in Clients \ {c} : reply'[d] = reply[d] /\ phase'[d] = phase[d]
BY AnswerPair DEF Refuse

LEMMA JudgedPair ==
  ASSUME TypeOK, NEW c \in Clients, NEW who, Judged(c, who)
  PROVE  /\ \/ phase'[c] = "refused" /\ verdict'[c] = "invalid"
            \/ phase'[c] = "request" /\ reply'[c] \in {"anonymous", "accepted"}
         /\ \A d \in Clients \ {c} : /\ reply'[d] = reply[d] /\ phase'[d] = phase[d]
                                     /\ verdict'[d] = verdict[d]
<1>1. \/ Answer(c, "accepted", "request") \/ Answer(c, "anonymous", "request")
      \/ ~Valid(who) /\ \E r : Refuse(c, r)
  BY DEF Judged
<1>2. /\ ~Valid(who) => verdict'[c] = "invalid"
      /\ \A d \in Clients \ {c} : verdict'[d] = verdict[d]
  BY DEF Judged, TypeOK
<1> QED BY <1>1, <1>2, AnswerPair, RefusePair

(* The three listeners that answer, on a socket they have to themselves.   *)
OthersKept(c) ==
  \A d \in Clients \ {c} : /\ reply'[d] = reply[d] /\ phase'[d] = phase[d]
                           /\ verdict'[d] = verdict[d]

LEMMA CheckPair ==
  ASSUME TypeOK, NEW c \in Clients, NEW who, Check(c, who)
  PROVE  /\ OthersKept(c)
         /\ \/ phase'[c] = "refused" /\ verdict'[c] = "invalid"
            \/ phase'[c] = "request" /\ reply'[c] \in {"anonymous", "accepted"}
            \/ phase'[c] = "checking" /\ who \in Slow
               /\ (who # "anonymous" => reply'[c] = reply[c])
BY AnswerPair, JudgedPair DEF Check, OthersKept

LEMMA GreetingPair ==
  ASSUME TypeOK, NEW c \in Clients, NEW m, OnGreeting(c, m, TRUE), "anonymous" \notin Slow
  PROVE  /\ OthersKept(c) /\ UNCHANGED dropped
         /\ \/ phase'[c] = "refused" /\ verdict'[c] = "invalid"
            \/ phase'[c] = "refused" /\ reply'[c] \in {reply[c], "unacceptable"}
            \/ /\ phase'[c] = "auth" /\ reply'[c] = "userpass"
               /\ "userpass" \in methods[c]
            \/ /\ phase'[c] = "request" /\ reply'[c] \in {"anonymous", "accepted"}
               /\ "userpass" \notin methods[c]
<1>1. CASE m = "garbage"
  BY <1>1, AnswerPair DEF OnGreeting, Refuse, OthersKept
<1>2. CASE m # "garbage"
  <2>1. Greet(c, methods[c])
    BY <1>2 DEF OnGreeting
  <2>2. CASE Answer(c, "userpass", "auth") /\ "userpass" \in methods[c] /\ UNCHANGED authVars
    BY <2>2, AnswerPair DEF OnGreeting, OthersKept
  <2>3. CASE Answer(c, "anonymous", "request") /\ "userpass" \notin methods[c] /\ UNCHANGED authVars
    BY <2>3, AnswerPair DEF OnGreeting, OthersKept
  <2>4. CASE Check(c, "anonymous") /\ "userpass" \notin methods[c]
    BY <2>4, CheckPair DEF OnGreeting
  <2>5. CASE Refuse(c, "unacceptable") /\ UNCHANGED authVars
    BY <2>5, AnswerPair DEF OnGreeting, Refuse, OthersKept
  <2> QED BY <2>1, <2>2, <2>3, <2>4, <2>5 DEF Greet
<1> QED BY <1>1, <1>2

LEMMA AuthPair ==
  ASSUME TypeOK, NEW c \in Clients, NEW m \in Credentials, OnAuth(c, m, TRUE)
  PROVE  /\ OthersKept(c) /\ UNCHANGED dropped
         /\ \/ phase'[c] = "refused" /\ verdict'[c] = "invalid"
            \/ phase'[c] = "request" /\ reply'[c] \in {"anonymous", "accepted"}
            \/ phase'[c] = "checking" /\ reply'[c] = reply[c]
<1>1. Check(c, m) /\ m # "anonymous" /\ UNCHANGED dropped
  BY DEF OnAuth, Credentials
<1> QED BY <1>1, CheckPair

LEMMA RequestPair ==
  ASSUME TypeOK, NEW c \in Clients, NEW m \in {"connect", "other"}, OnRequest(c, m, TRUE)
  PROVE  /\ OthersKept(c) /\ UNCHANGED dropped
         /\ \/ phase'[c] = "refused" /\ reply'[c] = "failed"
            \/ phase'[c] = "ready" /\ reply'[c] = reply[c]
<1>1. CASE Promote(c)
  BY <1>1, AnswerPair DEF OnRequest, Promote, OthersKept
<1>2. CASE Refuse(c, "failed")
  BY <1>2, AnswerPair DEF OnRequest, Refuse, OthersKept
<1> QED BY <1>1, <1>2 DEF OnRequest

(* Whatever it reads, a listener leaves the other clients alone.           *)
LEMMA ListenerOthers ==
  ASSUME TypeOK, NEW c \in Clients, NEW m, NEW whole,
         OnGreeting(c, m, whole) \/ OnAuth(c, m, whole) \/ OnRequest(c, m, whole)
  PROVE  OthersKept(c) /\ UNCHANGED dropped
<1>1. UNCHANGED dropped
  BY DEF OnGreeting, OnAuth, OnRequest
<1>2. \/ \E r, then : Answer(c, r, then) /\ UNCHANGED authVars
      \/ \E who : Check(c, who)
  <2>1. CASE OnGreeting(c, m, whole)
    BY <2>1 DEF OnGreeting, Greet, Refuse
  <2>2. CASE OnAuth(c, m, whole)
    BY <2>2 DEF OnAuth, Refuse
  <2>3. CASE OnRequest(c, m, whole)
    BY <2>3 DEF OnRequest, Refuse, Promote
  <2> QED BY <2>1, <2>2, <2>3
<1> QED BY <1>1, <1>2, AnswerPair, CheckPair DEF OthersKept

LEMMA PatientData ==
  ASSUME TypeOK, PatientInv, "anonymous" \notin Slow, NEW c \in Clients, Data(c)
  PROVE  PatientInv'
<1>1. PICK n \in 1..Len(wire[c]), whole \in {TRUE, c \notin Split} :
        /\ wire' = [wire EXCEPT ![c] =
                      IF whole THEN SubSeq(wire[c], n + 1, Len(wire[c]))
                      ELSE <<"rest">> \o SubSeq(wire[c], n + 1, Len(wire[c]))]
        /\ \/ OnGreeting(c, Head(wire[c]), whole)
           \/ OnAuth(c, Head(wire[c]), whole)
           \/ OnRequest(c, Head(wire[c]), whole)
           \/ OnNothing(c)
  BY Zenon DEF Data
<1>2. /\ wire[c] \in Seq(Messages) /\ wire[c] # <<>>
      /\ sock[c] = "open" /\ UNCHANGED <<methods, next, sock>>
  BY DEF Data, TypeOK
<1>3. \A d \in Clients \ {c} : wire'[d] = wire[d]
  BY <1>1 DEF TypeOK
<1>4. OthersKept(c) /\ \A d \in Clients \ {c} : dropped'[d] = dropped[d]
  <2>1. CASE OnNothing(c)
    BY <2>1 DEF OnNothing, OthersKept, TypeOK
  <2> QED BY <1>1, <2>1, ListenerOthers
<1>5. ASSUME c \in Patient PROVE PatientOf(c)'
  <2> DEFINE m == Head(wire[c])
  <2>1. InTurn(c) /\ (dropped[c] => TurnedAway(c)) /\ ~Quiet(c)
    BY <1>2, <1>5 DEF PatientInv, PatientOf, Quiet
  <2>2. \/ OnGreeting(c, m, TRUE) \/ OnAuth(c, m, TRUE)
        \/ OnRequest(c, m, TRUE) \/ OnNothing(c)
    BY <1>1, <1>5 DEF Patient
  <2>3. \A x : wire[c] = <<x>> => m = x /\ wire'[c] = <<>>
    <3>1. wire'[c] = SubSeq(wire[c], n + 1, Len(wire[c]))
      BY <1>1, <1>5 DEF Patient, TypeOK
    <3> QED BY <1>2, <3>1, DataWire
  <2> HIDE DEF m
  <2>4. CASE OnGreeting(c, m, TRUE)
    <3>1. phase[c] = "greeting" /\ ~dropped[c] /\ reply[c] = "none"
      BY <2>1, <2>4 DEF OnGreeting, InTurn, TurnedAway
    <3>2. wire'[c] = <<>> /\ next'[c] = AfterGreeting(c)
      BY <1>2, <2>1, <2>3, <3>1 DEF InTurn, AllRead, OneSent
    <3> QED BY <1>2, <2>4, <3>1, <3>2, GreetingPair
            DEF PatientOf, InTurn, Quiet, AllRead, AfterGreeting
  <2>5. CASE OnAuth(c, m, TRUE)
    <3>1. phase[c] = "auth" /\ ~dropped[c] /\ reply[c] = "userpass"
      BY <2>1, <2>5 DEF OnAuth, InTurn, TurnedAway
    <3>2. m \in Credentials /\ wire'[c] = <<>> /\ next'[c] = "request"
      BY <1>2, <2>1, <2>3, <3>1 DEF InTurn, AllRead, OneSent
    <3> QED BY <1>2, <2>5, <3>1, <3>2, AuthPair DEF PatientOf, InTurn, AllRead
  <2>6. CASE OnRequest(c, m, TRUE)
    <3>1. phase[c] = "request" /\ ~dropped[c] /\ reply[c] \in {"anonymous", "accepted"}
      BY <2>1, <2>6 DEF OnRequest, InTurn, TurnedAway
    <3>2. m \in {"connect", "other"} /\ wire'[c] = <<>> /\ next'[c] = "payload"
      BY <1>2, <2>1, <2>3, <3>1 DEF InTurn, AllRead, OneSent
    <3> QED BY <1>2, <2>6, <3>1, <3>2, RequestPair DEF PatientOf, InTurn, Quiet, AllRead
  <2>7. CASE OnNothing(c)
    <3>1. /\ UNCHANGED <<reply, phase, verdict>>
          /\ phase[c] \in {"checking", "refused"} \cup Served
          /\ dropped'[c] => dropped[c] \/ phase[c] # "bound"
      BY <2>7 DEF OnNothing, TypeOK
    <3>2. phase[c] = "bound" \/ TurnedAway(c)
      BY <1>2, <2>1, <3>1 DEF InTurn, AllRead, Served, TurnedAway
    <3> QED BY <1>2, <2>1, <3>1, <3>2 DEF PatientOf, InTurn, TurnedAway
  <2> QED BY <2>2, <2>4, <2>5, <2>6, <2>7
<1> QED BY <1>2, <1>3, <1>4, <1>5, PatientOthers DEF OthersKept

LEMMA PatientServer ==
  ASSUME IInv, PatientInv, "anonymous" \notin Slow, NEW c \in Clients, ServerStep(c) \/ AppStep(c)
  PROVE  PatientInv'
<1> USE DEF IInv
<1>1. CASE Accept(c)
  <2>1. /\ UNCHANGED <<methods, next, wire, reply, dropped, verdict>>
        /\ sock[c] = "none" /\ phase[c] = "new"
        /\ sock'[c] = "open" /\ phase'[c] = "greeting"
        /\ \A d \in Clients \ {c} : sock'[d] = sock[d] /\ phase'[d] = phase[d]
    BY <1>1 DEF Accept, TypeOK, RegistryInv, RegistryOf
  <2>2. ASSUME c \in Patient PROVE PatientOf(c)'
    BY <2>1, <2>2 DEF PatientInv, PatientOf, TurnedAway, InTurn, AllRead
  <2> QED BY <2>1, <2>2, PatientOthers
<1>2. CASE Data(c)
  BY <1>2, PatientData
<1>3. CASE Settle(c)
  <2>1. /\ UNCHANGED <<methods, next, wire, sock, dropped>> /\ phase[c] = "checking"
        /\ \/ phase'[c] = "refused" /\ (verdict'[c] = "invalid" \/ reply'[c] = reply[c])
           \/ phase'[c] = "request" /\ reply'[c] \in {"anonymous", "accepted"}
        /\ \A d \in Clients \ {c} : /\ reply'[d] = reply[d] /\ phase'[d] = phase[d]
                                    /\ verdict'[d] = verdict[d]
    <3>1. CASE Judged(c, claim[c])
      BY <1>3, <3>1, JudgedPair DEF Settle
    <3>2. CASE Refuse(c, reply[c]) /\ verdict' = [verdict EXCEPT ![c] = "rejected"]
      <4>1. \A d \in Clients \ {c} : verdict'[d] = verdict[d]
        BY <3>2 DEF TypeOK
      <4> QED BY <1>3, <3>2, <4>1, AnswerPair DEF Settle, Refuse
    <3> QED BY <1>3, <3>1, <3>2 DEF Settle
  <2>2. ASSUME c \in Patient PROVE PatientOf(c)'
    <3>1. sock[c] # "none"
      BY <2>1 DEF RegistryInv, RegistryOf
    <3>2. /\ ~dropped[c]
          /\ sock[c] = "open" => reply[c] = "userpass" /\ AllRead(c, "request")
      BY <2>1, <2>2 DEF PatientInv, PatientOf, TurnedAway, InTurn
    <3> QED BY <2>1, <3>1, <3>2 DEF PatientOf, InTurn, Quiet, AllRead
  <2> QED BY <2>1, <2>2, PatientOthers
<1>4. CASE Timeout(c) \/ Close(c)
  <2>1. /\ UNCHANGED <<methods, next, reply, phase, dropped, verdict>>
        /\ sock'[c] \in {"destroyed", "closed"}
        /\ \A d \in Clients \ {c} : sock'[d] = sock[d] /\ wire'[d] = wire[d]
    BY <1>4 DEF Timeout, Close, Destroyed, TypeOK
  <2>2. ASSUME c \in Patient PROVE PatientOf(c)'
    BY <2>1, <2>2 DEF PatientInv, PatientOf, TurnedAway
  <2> QED BY <2>1, <2>2, PatientOthers
<1>5. CASE AppStep(c)
  <2>1. /\ UNCHANGED <<methods, next, wire, sock, dropped, verdict>> /\ sock[c] = "open"
        /\ phase[c] = "ready"
        /\ \/ phase'[c] = "bound"
           \/ phase'[c] = "ended" /\ reply'[c] \in {"failed", reply[c]}
        /\ \A d \in Clients \ {c} : reply'[d] = reply[d] /\ phase'[d] = phase[d]
    BY <1>5, AnswerPair DEF AppStep, AppBind, AppEnd
  <2>2. ASSUME c \in Patient PROVE PatientOf(c)'
    BY <2>1, <2>2 DEF PatientInv, PatientOf, TurnedAway, InTurn, Quiet, AllRead
  <2> QED BY <2>1, <2>2, PatientOthers
<1> QED BY <1>1, <1>2, <1>3, <1>4, <1>5 DEF ServerStep

LEMMA PatientClient ==
  ASSUME IInv, PatientInv, NEW c \in Clients, ClientStep(c) PROVE PatientInv'
<1> USE DEF IInv
<1>1. CASE Disconnect(c)
  <2>1. /\ UNCHANGED <<methods, next, reply, phase, dropped, verdict>> /\ sock'[c] = "destroyed"
        /\ \A d \in Clients \ {c} : sock'[d] = sock[d] /\ wire'[d] = wire[d]
    BY <1>1 DEF Disconnect, Destroyed, TypeOK
  <2>2. ASSUME c \in Patient PROVE PatientOf(c)'
    BY <2>1, <2>2 DEF PatientInv, PatientOf, TurnedAway
  <2> QED BY <2>1, <2>2, PatientOthers
<1> QED BY <1>1, PatientSends DEF ClientStep

LEMMA PatientStep ==
  ASSUME IInv, PatientInv, "anonymous" \notin Slow, [Next]_vars PROVE PatientInv'
<1>1. CASE ServerClose
  <2>1. UNCHANGED <<methods, next, reply, phase, dropped, verdict>>
    BY <1>1 DEF ServerClose
  <2>2. ASSUME NEW d \in Patient PROVE PatientOf(d)'
    <3>1. sock'[d] = "open" => sock[d] = "open" /\ d \notin ClosedSockets
      BY <1>1, <2>2 DEF ServerClose, Patient
    <3>2. sock'[d] = "none" => sock[d] = "none"
      BY <1>1, <2>2 DEF ServerClose, Patient
    <3>3. wire'[d] = IF d \in ClosedSockets THEN <<>> ELSE wire[d]
      BY <1>1, <2>2 DEF ServerClose, Patient
    <3> QED BY <2>1, <2>2, <3>1, <3>2, <3>3
            DEF PatientInv, PatientOf, TurnedAway, InTurn, Quiet, AllRead, OneSent, AfterGreeting
  <2> QED BY <2>2 DEF PatientInv
<1>2. CASE Resolve \/ UNCHANGED vars
  <2>1. UNCHANGED <<methods, next, wire, reply, sock, phase, dropped, verdict>>
    BY <1>2 DEF Resolve, vars
  <2> QED BY <2>1 DEF PatientInv, PatientOf, TurnedAway, InTurn, Quiet, AllRead, OneSent,
                      AfterGreeting
<1> QED BY <1>1, <1>2, PatientClient, PatientServer DEF Next

(* README.md:115.  When authenticate() decides at once on a client without *)
(* credentials, a client that waits for each reply, and whose messages     *)
(* arrive whole, is heard, whatever the other clients send and however the *)
(* network cuts that: it loses a byte only after authenticate() has        *)
(* refused it.  Without the hypothesis it may lose its request: the reply  *)
(* to its greeting comes before the listener for it, and a run shows how.  *)
THEOREM PatientHeard ==
  ASSUME "anonymous" \notin Slow
  PROVE  Spec => []PatientClientHeard
<1>1. Init => PatientInv
  <2>1. ASSUME Init, NEW c \in Clients PROVE PatientOf(c)
    <3>1. sock[c] = "none" /\ reply[c] = "none" /\ wire[c] = <<>> /\ next[c] = "greeting"
      BY <2>1 DEF Init
    <3>2. ~dropped[c]
      BY <2>1, Zenon DEF Init
    <3> QED BY <3>1, <3>2 DEF PatientOf, AllRead
  <2> QED BY <2>1 DEF PatientInv, Patient
<1>2. IInv /\ PatientInv /\ [Next]_vars => PatientInv'
  BY PatientStep
<1>3. PatientInv => PatientClientHeard
  BY DEF PatientInv, Patient, PatientOf, TurnedAway, PatientClientHeard
<1> QED BY <1>1, <1>2, <1>3, Invariance, PTL DEF Spec
=============================================================================
