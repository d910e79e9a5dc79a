------------------------------ MODULE MCSessions ------------------------------
(* Two websockets and room for one session; one of them makes two offers.  The *)
(* clock gives half a token at each step.                                      *)
EXTENDS Sessions

CONSTANTS a, b

MCNumOffers == [p \in {a, b} |-> IF p = a THEN 2 ELSE 0]

================================================================================
