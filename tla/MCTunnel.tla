------------------------------ MODULE MCTunnel ------------------------------
(***************************************************************************)
(* Tunnel for TLC: the setups that each run looks at.                      *)
(***************************************************************************)
EXTENDS Tunnel

Download == [client |-> 1, target |-> 2]
Upload == [client |-> 2, target |-> 1]
Single == [client |-> 1, target |-> 1]

Plain ==
  [server |-> "forward", transforms |-> {}, early |-> {"send", "fin"},
   dial |-> "direct", idleTimeout |-> FALSE, closable |-> FALSE, head |-> 0,
   chunks |-> Upload]

(* 1. Bytes and a FIN that came with the CONNECT, over a dial under way.   *)
(* 2. The reverse server's head, with idle timers.                         *)
(* 3. Both transforms, an early and inattentive client of the SOCKS5       *)
(*    server, and server.close().                                          *)
(* 4. A client that may reset before bind(), over a dial under way, and 5. *)
(*    over a socket that is connected: idle timers race both.              *)
(* 6. One transform beside a direction without, which is relied on.        *)
SomeSetups ==
  {[Plain EXCEPT !.head = 1],
   [Plain EXCEPT !.server = "reverse", !.early = {"send"}, !.dial = "tunnelled",
                 !.idleTimeout = TRUE, !.head = 1],
   [Plain EXCEPT !.server = "socks5", !.transforms = Sides, !.dial = "tunnelled",
                 !.closable = TRUE, !.chunks = Single],
   [Plain EXCEPT !.early = {"send", "fin", "reset"}, !.idleTimeout = TRUE,
                 !.chunks = Download],
   [Plain EXCEPT !.early = {"send", "fin", "reset"}, !.dial = "tunnelled",
                 !.idleTimeout = TRUE],
   [Plain EXCEPT !.transforms = {"target"}, !.chunks = Download]}

(* A throttled upload, which the client's FIN may overtake.                *)
ThrottledSetups ==
  {[Plain EXCEPT !.transforms = {"client"}, !.early = {}, !.chunks = Single]}

(* A client of the reverse server that finishes behind its head, before    *)
(* bind().                                                                 *)
EarlyFinSetups ==
  {[Plain EXCEPT !.server = "reverse", !.early = {"fin"}, !.dial = "tunnelled", !.head = 1]}
=============================================================================
