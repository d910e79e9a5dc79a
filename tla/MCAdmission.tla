------------------------------ MODULE MCAdmission ------------------------------
(***************************************************************************)
(* o1 is gated; o2 cancels it and is of the same trader; o3 wants to       *)
(* replace it and is another trader's, who gives o4 the id of o1.  All     *)
(* come on one session.  Either the address is checked, no clearlist       *)
(* service is there and gated orders are refused; or the clearlist is      *)
(* asked, and a check that fails passes or not.                            *)
(***************************************************************************)
EXTENDS Admission

CONSTANTS o1, o2, o3, o4, i1, i2, i3, t1, t2, s1, a1

MCTraderOf  == [o \in Orders |-> IF o \in {o1, o2} THEN t1 ELSE t2]
MCIdOf      == [o \in Orders |-> CASE o = o2 -> i2 [] o = o3 -> i3 [] OTHER -> i1]
MCTargetOf  == [o \in Orders |-> IF o \in {o2, o3} THEN i1 ELSE NoId]
MCAddressOf == [s \in Sessions |-> a1]
MCConfigs   == {c \in Config : c.intel = ~c.url /\ ~(c.intel /\ c.failOpen)}

================================================================================
