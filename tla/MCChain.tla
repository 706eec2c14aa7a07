------------------------------- MODULE MCChain -------------------------------
(***************************************************************************)
(* Chain for TLC: every chain of at most MaxHops proxies.                  *)
(***************************************************************************)
EXTENDS Chain

CONSTANT MaxHops

(* The shortest chain whose https proxy is not the first one.              *)
MixedChain == {<<"http", "https">>}

AllChains == UNION {[1..n -> Protocols] : n \in 0..MaxHops}
=============================================================================
