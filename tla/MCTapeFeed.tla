------------------------------ MODULE MCTapeFeed ------------------------------
(***************************************************************************)
(* The live tape and one subscriber; the configurations give the bounds.   *)
(***************************************************************************)
EXTENDS TapeFeed

================================================================================
