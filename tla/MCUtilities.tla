----------------------------- MODULE MCUtilities ----------------------------
(***************************************************************************)
(* The utilities share no state: each behaviour follows one of them, the   *)
(* subject.  Each has one initial state, so they do not multiply.          *)
(***************************************************************************)
EXTENDS Messages, Dns, Balancer, Measure

CONSTANT Subjects

VARIABLE subject

vars == <<subject, messageVars, dnsVars, balancerVars, measureVars>>

Init ==
  /\ subject \in Subjects
  /\ MessagesInit
  /\ DnsInit
  /\ BalancerInit
  /\ MeasureInit

Next ==
  /\ UNCHANGED subject
  /\ \/ /\ subject = "messages"
        /\ MessagesNext
        /\ UNCHANGED <<dnsVars, balancerVars, measureVars>>
     \/ /\ subject = "dns"
        /\ DnsNext
        /\ UNCHANGED <<messageVars, balancerVars, measureVars>>
     \/ /\ subject = "balancer"
        /\ BalancerNext
        /\ UNCHANGED <<messageVars, dnsVars, measureVars>>
     \/ /\ subject = "measure"
        /\ MeasureNext
        /\ UNCHANGED <<messageVars, dnsVars, balancerVars>>

Spec == Init /\ [][Next]_vars

FairSpec == Spec /\ DnsFairness /\ MeasureFairness

SomeFronts ==
  {[session |-> <<9, 9>>, ciphers |-> <<19, 1>>, compression |-> <<0>>],
   [session |-> <<>>, ciphers |-> <<19, 1, 19, 2>>, compression |-> <<1, 0>>]}

KeyShare == [type |-> 51, data |-> Bytes(3, 0)]

ServerNames(list) == [type |-> 0, list |-> list]

Entry(type, name) == [type |-> type, name |-> name]

Host == Bytes(4, 96)

(* The name alone, behind another kind of name, another kind only, nothing.*)
NameLists ==
  {<<>>, <<Entry(0, Host)>>, <<Entry(7, Bytes(2, 64)), Entry(0, Host)>>, <<Entry(7, Host)>>}

SomeExtensions ==
  {<<>>, <<KeyShare>>}
    \cup {<<ServerNames(list)>> : list \in NameLists}
    \cup {<<KeyShare, ServerNames(list)>> : list \in NameLists}
    \cup {<<ServerNames(<<Entry(0, Host)>>), KeyShare>>}

(* No cut, a cut inside the handshake header, and two cuts of which the    *)
(* second is behind the fields before the extensions.                      *)
SomeCuts == {{}, {1}, {3, 60}}

SomeStages == <<"speed", "slowdown", "bandwidth">>
=============================================================================
