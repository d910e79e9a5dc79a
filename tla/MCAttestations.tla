---------------------------- MODULE MCAttestations ----------------------------
(* Two shells sign for two collators, on clearlists 0 and 1. *)
EXTENDS Attestations

CONSTANTS s1, s2

================================================================================
