----------------------------- MODULE MCRpcRouter -----------------------------
(***************************************************************************)
(* Two sessions, either of which may provide, the second of them over two  *)
(* offers.  Session a and the gateway make a call each, under the same or  *)
(* another id; the gateway's names the provider node n2.  Session a may    *)
(* answer under any id, b answers what it was asked.                       *)
(***************************************************************************)
EXTENDS RpcRouter

CONSTANTS a, b, c1, c2, x, y, pub, priv, n1, n2

MCCallerOf == [c \in Calls |-> IF c = c2 THEN Http ELSE a]
MCIdsOf == [c \in Calls |-> IF c = c2 THEN {x, y} ELSE {x}]
MCPrefers == [c \in Calls |-> IF c = c2 THEN n2 ELSE NoNode]
MCNodesOf == [p \in Peers |-> IF p = a THEN {n1, n2} ELSE {n2}]
MCMaxOffers == [p \in Peers |-> IF p = b THEN 2 ELSE 1]

================================================================================
