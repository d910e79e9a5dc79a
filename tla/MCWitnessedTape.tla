---------------------------- MODULE MCWitnessedTape ----------------------------
(***************************************************************************)
(* Two copies of one collator.  o2 cancels o1.  A copy may come with o1 on *)
(* a tape that no witness has seen.                                        *)
(***************************************************************************)
EXTENDS WitnessedTape

CONSTANTS o1, o2, o3, t1, t2, s1, c1, c2

MCTraderOf == [o \in Orders |-> IF o = o3 THEN t2 ELSE t1]
MCTargetOf == [o \in Orders |-> IF o = o2 THEN o1 ELSE NoTarget]
MCLegacyLogs == {<<>>, <<[order |-> o1, stamp |-> s1]>>}

================================================================================
