------------------------------- MODULE AckedLog -------------------------------
(***************************************************************************)
(* What a durable tape promises its caller, whatever crashes: the log the  *)
(* caller has been told of is never taken back, and only an entry that was *)
(* offered since then can turn up behind it.                               *)
(***************************************************************************)
EXTENDS VerifiedReplay

VARIABLES
    settled,   \* the log of the last checkpoint a caller was given
    tried      \* entries offered since then whose fate the caller can't know

vars == <<settled, tried>>

Init ==
    /\ settled \in LegacyLogs
    /\ tried = {}

\* A caller offers the next entry.
Try(entry) ==
    /\ Admits(settled, [prev |-> settled, entry |-> entry])
    /\ tried' = tried \cup {entry}
    /\ UNCHANGED settled

\* One of the offered entries is in: acknowledged, or found by a restart.
Settle(entry) ==
    /\ entry \in tried
    /\ settled' = Append(settled, entry)
    /\ tried' = {}

\* Every offered entry is known to be gone.
GiveUp ==
    /\ tried' = {}
    /\ UNCHANGED settled

Next ==
    \/ \E entry \in Entry : Try(entry) \/ Settle(entry)
    \/ GiveUp

Spec == Init /\ [][Next]_vars

----------------------------------------------------------------------------

\* What the caller was told of stays a log the verifier accepts.
SettledVerifies == Verifies(settled)

\* The log the caller was told of only ever grows at its end.
NeverTakenBack == [][IsPrefix(settled, settled')]_vars

================================================================================
