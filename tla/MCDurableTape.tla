----------------------------- MODULE MCDurableTape -----------------------------
(***************************************************************************)
(* Two traders; o2 cancels o1 and is the same trader's, o3 tries to cancel *)
(* o1 for the other trader, whose own order is o4.  The tape starts empty  *)
(* or with o1 on it.  The index holds one order fewer than there are.      *)
(***************************************************************************)
EXTENDS DurableTape

CONSTANTS o1, o2, o3, o4, t1, t2, s1, s2

MCTraderOf == [o \in Orders |-> IF o \in {o3, o4} THEN t2 ELSE t1]
MCTargetOf == [o \in Orders |-> IF o \in {o1, o4} THEN NoTarget ELSE o1]
MCLegacyLogs == {<<>>, <<[order |-> o1, stamp |-> s1]>>}

================================================================================
