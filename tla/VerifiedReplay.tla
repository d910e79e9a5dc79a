---------------------------- MODULE VerifiedReplay ----------------------------
(***************************************************************************)
(* The admission rule of the Rust verifier (tl-collator-wire/verify.rs):   *)
(* which signed line may follow which verified log.                        *)
(*                                                                         *)
(* A log is the sequence of its entries.  The entry hash covers the hash   *)
(* of the entry before it, so a checkpoint (last_seq, last_hash,           *)
(* seen_orders) names one log, and the model uses the log itself wherever  *)
(* the code holds a checkpoint: equal checkpoints are equal sequences.     *)
(* Signatures, canonical encoding and field syntax are abstracted: every   *)
(* line considered is well formed and correctly signed, so what is left to *)
(* refuse is a broken chain, a duplicate, a full index, or a cancel or     *)
(* replace whose target is unknown or someone else's.                      *)
(***************************************************************************)
EXTENDS Naturals, Sequences, SequencesExt

CONSTANTS
    Orders,      \* order ids: the hash of the whole signed envelope ...
    Traders,
    TraderOf,    \* ... so an id fixes who signed the order
    TargetOf,    \* ... and which order it cancels or replaces, if any
    NoTarget,
    Stamps,      \* what the collator adds: receivedTs and its own signature
    MaxEntries,  \* max_entries, the bound of the owner index
    LegacyLogs   \* histories that may exist on disk before the first open

ASSUME ReplayAssumption ==
    /\ NoTarget \notin Orders
    /\ TraderOf \in [Orders -> Traders]
    /\ TargetOf \in [Orders -> Orders \cup {NoTarget}]
    /\ MaxEntries \in Nat \ {0}

Entry == [order : Orders, stamp : Stamps]

\* The keys of the owner index after a log was replayed.
OrdersOn(log) == {log[i].order : i \in DOMAIN log}

OwnsTarget(log, order) ==
    TargetOf[order] # NoTarget =>
        /\ TargetOf[order] \in OrdersOn(log)
        /\ TraderOf[TargetOf[order]] = TraderOf[order]

\* Two plausible errors of the rule below: no look at the index for the order
\* itself, and an index one entry too long.
AdmitsDuplicate(log, line) ==
    /\ line.prev = log
    /\ Len(log) < MaxEntries
    /\ OwnsTarget(log, line.entry.order)

AdmitsOneTooMany(log, line) ==
    /\ line.prev = log
    /\ line.entry.order \notin OrdersOn(log)
    /\ Len(log) <= MaxEntries
    /\ OwnsTarget(log, line.entry.order)

\* prepare_entry: the line is chained to the log's head, its order is new,
\* the index has room, and its target, if any, belongs to the same trader.
Admits(log, line) ==
    /\ line.prev = log
    /\ line.entry.order \notin OrdersOn(log)
    /\ Len(log) < MaxEntries
    /\ OwnsTarget(log, line.entry.order)

\* A whole tape replays: every entry is admitted by the log before it.
Verifies(log) ==
    \A i \in DOMAIN log :
        LET before == SubSeq(log, 1, i - 1)
        IN  Admits(before, [prev |-> before, entry |-> log[i]])

\* A history that predates the durable writer was produced by the same rule.
ASSUME LegacyAssumption ==
    /\ LegacyLogs \subseteq Seq(Entry)
    /\ \A log \in LegacyLogs : Verifies(log)

================================================================================
