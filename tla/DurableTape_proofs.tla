-------------------------- MODULE DurableTape_proofs --------------------------
(***************************************************************************)
(* Proofs about DurableTape, for every set of orders, traders and stamps,  *)
(* every index bound and any number of faults.                             *)
(***************************************************************************)
EXTENDS DurableTape, TLAPS, SequenceTheorems

(* Logs, and the verifier's admission rule. *)

\* An appended entry changes nothing before it.
LEMMA AppendFacts ==
    ASSUME NEW S, NEW log \in Seq(S), NEW e \in S
    PROVE  /\ Append(log, e) \in Seq(S)
           /\ Len(Append(log, e)) = Len(log) + 1
           /\ Append(log, e) # log
           /\ Append(log, e)[Len(log) + 1] = e
           /\ \A i \in 1 .. Len(log) : Append(log, e)[i] = log[i]
           /\ \A n \in 0 .. Len(log) :
                 SubSeq(Append(log, e), 1, n) = SubSeq(log, 1, n)
           /\ SubSeq(log, 1, Len(log)) = log
<1> DEFINE a == Append(log, e)
<1>1. /\ a \in Seq(S)
      /\ Len(a) = Len(log) + 1
      /\ a[Len(log) + 1] = e
      /\ \A i \in 1 .. Len(log) : a[i] = log[i]
      /\ Len(log) \in Nat
  OBVIOUS
<1>2. a # log
  BY <1>1
<1>3. ASSUME NEW n \in 0 .. Len(log)
      PROVE  SubSeq(a, 1, n) = SubSeq(log, 1, n)
  <2>1. /\ SubSeq(a, 1, n) = [i \in 1 .. n |-> a[i]]
        /\ SubSeq(log, 1, n) = [i \in 1 .. n |-> log[i]]
    BY <1>1
  <2>2. \A i \in 1 .. n : a[i] = log[i]
    BY <1>1
  <2> QED
    BY <2>1, <2>2
<1>4. SubSeq(log, 1, Len(log)) = log
  BY SubSeqFull
<1> QED
  BY <1>1, <1>2, <1>3, <1>4

\* A log is a prefix of itself and of what is appended to it, and never the
\* other way round.
LEMMA PrefixFacts ==
    ASSUME NEW S, NEW log \in Seq(S), NEW e \in S
    PROVE  /\ IsPrefix(log, log)
           /\ IsPrefix(log, Append(log, e))
           /\ ~IsPrefix(Append(log, e), log)
<1>1. /\ Len(Append(log, e)) = Len(log) + 1
      /\ Len(log) \in Nat
      /\ SubSeq(Append(log, e), 1, Len(log)) = SubSeq(log, 1, Len(log))
  BY AppendFacts
<1> QED
  BY <1>1 DEF IsPrefix

\* What the verifier admits keeps the log verifiable.
LEMMA VerifiesAppend ==
    ASSUME NEW log \in Seq(Entry), NEW e \in Entry,
           Verifies(log), Admits(log, [prev |-> log, entry |-> e])
    PROVE  Verifies(Append(log, e))
<1>1. PICK a \in Seq(Entry) : a = Append(log, e)
  BY AppendFacts
<1>2. /\ DOMAIN a = 1 .. Len(log) + 1
      /\ DOMAIN log = 1 .. Len(log)
      /\ Len(log) \in Nat
      /\ a[Len(log) + 1] = e
      /\ \A k \in 1 .. Len(log) : a[k] = log[k]
      /\ \A n \in 0 .. Len(log) : SubSeq(a, 1, n) = SubSeq(log, 1, n)
      /\ SubSeq(log, 1, Len(log)) = log
  BY <1>1, AppendFacts
<1>3. ASSUME NEW i \in DOMAIN a
      PROVE  Admits(SubSeq(a, 1, i - 1),
                    [prev |-> SubSeq(a, 1, i - 1), entry |-> a[i]])
  <2>1. CASE i = Len(log) + 1
    <3>1. SubSeq(a, 1, i - 1) = log /\ a[i] = e
      BY <1>2, <2>1
    <3> QED
      BY <3>1
  <2>2. CASE i \in 1 .. Len(log)
    <3>1. SubSeq(a, 1, i - 1) = SubSeq(log, 1, i - 1) /\ a[i] = log[i]
      BY <1>2, <2>2
    <3>2. Admits(SubSeq(log, 1, i - 1),
                 [prev |-> SubSeq(log, 1, i - 1), entry |-> log[i]])
      BY <1>2, <2>2 DEF Verifies
    <3> QED
      BY <3>1, <3>2
  <2> QED
    BY <1>2, <1>3, <2>1, <2>2
<1> QED
  BY <1>1, <1>3 DEF Verifies

\* A verified log fits the owner index.
LEMMA VerifiesBound ==
    ASSUME NEW log \in Seq(Entry), Verifies(log)
    PROVE  Len(log) <= MaxEntries
<1>1. Len(log) \in Nat /\ MaxEntries \in Nat
  BY ReplayAssumption
<1>2. CASE Len(log) = 0
  BY <1>1, <1>2
<1>3. CASE Len(log) > 0
  <2>1. Len(log) \in DOMAIN log
    BY <1>1, <1>3
  <2>2. Len(SubSeq(log, 1, Len(log) - 1)) < MaxEntries
    <3>1. PICK k \in DOMAIN log : k = Len(log)
      BY <2>1
    <3>2. Len(SubSeq(log, 1, k - 1)) < MaxEntries
      BY DEF Verifies, Admits
    <3> QED
      BY <3>1, <3>2
  <2>3. Len(SubSeq(log, 1, Len(log) - 1)) = Len(log) - 1
    <3>1. PICK n \in Nat : n = Len(log) - 1
      BY <1>1, <1>3
    <3>2. \A i \in 1 .. n : log[i] \in Entry
      BY <1>1, <3>1
    <3>3. Len(SubSeq(log, 1, n)) = n
      BY <3>1, <3>2, SubSeqProperties
    <3> QED
      BY <3>1, <3>3
  <2> QED
    BY <1>1, <2>2, <2>3
<1> QED
  BY <1>1, <1>2, <1>3

\* A verified log holds an order once, and behind its own trader's target.
LEMMA VerifiesOnce ==
    ASSUME NEW log \in Seq(Entry), Verifies(log), NEW i \in DOMAIN log
    PROVE  /\ \A j \in DOMAIN log : log[j].order = log[i].order => j = i
           /\ TargetOf[log[i].order] # NoTarget =>
                 \E j \in 1 .. i - 1 :
                     /\ log[j].order = TargetOf[log[i].order]
                     /\ TraderOf[TargetOf[log[i].order]] = TraderOf[log[i].order]
<1>1. DOMAIN log = 1 .. Len(log) /\ Len(log) \in Nat
  OBVIOUS
<1>2. ASSUME NEW k \in DOMAIN log
      PROVE  OrdersOn(SubSeq(log, 1, k - 1)) = {log[j].order : j \in 1 .. k - 1}
  <2>1. SubSeq(log, 1, k - 1) = [j \in 1 .. k - 1 |-> log[j]]
    BY <1>1, <1>2
  <2>2. /\ DOMAIN SubSeq(log, 1, k - 1) = 1 .. k - 1
        /\ \A j \in 1 .. k - 1 : SubSeq(log, 1, k - 1)[j] = log[j]
    BY <2>1
  <2> QED
    BY <2>2 DEF OrdersOn
<1>3. \A k \in DOMAIN log :
          /\ log[k].order \notin {log[j].order : j \in 1 .. k - 1}
          /\ TargetOf[log[k].order] # NoTarget =>
                /\ TargetOf[log[k].order] \in {log[j].order : j \in 1 .. k - 1}
                /\ TraderOf[TargetOf[log[k].order]] = TraderOf[log[k].order]
  BY <1>2 DEF Verifies, Admits, OwnsTarget
<1>4. ASSUME NEW j \in DOMAIN log, log[j].order = log[i].order
      PROVE  j = i
  <2>1. ~(j < i) /\ ~(i < j)
    BY <1>1, <1>3, <1>4
  <2> QED
    BY <1>1, <2>1
<1> QED
  BY <1>3, <1>4

----------------------------------------------------------------------------
(* What the disk may hold. *)

\* The possible logs differ from what callers were told of by one entry.
LEMMA PossibleFacts ==
    ASSUME TypeOK, SettledInv, NEW log \in PossibleLogs
    PROVE  /\ log \in Seq(Entry)
           /\ Verifies(log)
           /\ IsPrefix(settled, log)
           /\ Len(settled) <= Len(log)
           /\ Len(log) <= Len(settled) => log = settled
           /\ SubSeq(log, 1, Len(settled)) = settled
<1>1. CASE log = settled
  <2>1. SubSeq(settled, 1, Len(settled)) = settled
    BY SubSeqFull DEF TypeOK
  <2>2. settled \in Seq(Entry) /\ Len(settled) \in Nat
    BY DEF TypeOK
  <2> QED
    BY <1>1, <2>1, <2>2 DEF SettledInv, IsPrefix
<1>2. ASSUME NEW e \in tried, log = Append(settled, e)
      PROVE  /\ log \in Seq(Entry)
             /\ Verifies(log)
             /\ IsPrefix(settled, log)
             /\ Len(log) = Len(settled) + 1
             /\ SubSeq(log, 1, Len(settled)) = settled
  <2>1. /\ settled \in Seq(Entry)
        /\ e \in Entry
        /\ Verifies(settled)
        /\ Admits(settled, [prev |-> settled, entry |-> e])
        /\ Len(settled) \in Nat
    BY DEF TypeOK, SettledInv
  <2>2. Verifies(log)
    BY <1>2, <2>1, VerifiesAppend
  <2>3. IsPrefix(settled, log)
    BY <1>2, <2>1, PrefixFacts
  <2> QED
    BY <1>2, <2>1, <2>2, <2>3, AppendFacts
<1>3. Len(settled) \in Nat
  BY DEF TypeOK
<1> QED
  BY <1>1, <1>2, <1>3 DEF PossibleLogs

----------------------------------------------------------------------------
(* What the inductive invariant says of the disk. *)

\* Every record on disk is a possible log, so it verifies and fits the index.
LEMMA DiskFacts ==
    ASSUME IInv, NEW img \in tapeDisk
    PROVE  /\ img \in Image
           /\ img.recs \in Seq(Entry)
           /\ Verifies(img.recs)
           /\ Len(img.recs) <= MaxEntries
           /\ IsPrefix(settled, img.recs)
           /\ SubSeq(img.recs, 1, Len(settled)) = settled
           /\ Len(img.recs) <= Len(settled) => img.recs = settled
<1>1. img \in Image /\ img.recs \in PossibleLogs
  BY DEF IInv, TypeOK, TapeInv
<1>2. TypeOK /\ SettledInv
  BY DEF IInv
<1> QED
  BY <1>1, <1>2, PossibleFacts, VerifiesBound

\* An image is its two fields.
LEMMA ImageFacts ==
    ASSUME NEW img \in Image
    PROVE  /\ img = [recs |-> img.recs, tail |-> img.tail]
           /\ img.recs \in Seq(Entry)
           /\ img.tail \in {"clean", "torn", "junk"}
BY DEF Image

\* An anchor that needs no catching up names the tape's records.
LEMMA AnchoredTape ==
    ASSUME IInv, ~NeedsAnchor(tape.recs)
    PROVE  /\ anchor = tape.recs
           /\ anchor # NoAnchor
           /\ \/ anchor = settled
              \/ anchor \in PossibleLogs /\ \A img \in tapeDisk : img.recs = anchor
<1>1. /\ anchor # NoAnchor
      /\ anchor \in Seq(Entry)
      /\ tape \in tapeDisk
      /\ Len(tape.recs) \in Nat
      /\ Len(anchor) \in Nat
      /\ Len(tape.recs) <= Len(anchor)
  <2>1. tape \in tapeDisk /\ anchor \in Seq(Entry) \cup {NoAnchor}
    BY DEF IInv, TypeOK, TapeInv
  <2>2. tape.recs \in Seq(Entry)
    BY <2>1, DiskFacts
  <2>3. anchor # NoAnchor /\ ~(Len(tape.recs) > Len(anchor))
    BY DEF NeedsAnchor
  <2> QED
    BY <2>1, <2>2, <2>3
<1>2. \/ anchor = settled
      \/ anchor \in PossibleLogs /\ \A img \in tapeDisk : img.recs = anchor
  BY <1>1 DEF IInv, AnchorInv
<1>3. CASE anchor = settled
  BY <1>1, <1>3, DiskFacts
<1> QED
  BY <1>1, <1>2, <1>3

\* A handle is returned whose tape its anchor names: what callers are told of
\* moves to that log, and every image on disk stays possible.
LEMMA ReturnFacts ==
    ASSUME IInv, NEW log \in PossibleLogs, Return(log),
           \/ log = settled
           \/ \A img \in tapeDisk : img.recs = log
    PROVE  /\ settled' = log
           /\ settled' \in Seq(Entry)
           /\ tried' \subseteq Entry
           /\ Len(log) <= MaxEntries
           /\ SettledInv'
           /\ \A img \in tapeDisk : img.recs \in PossibleLogs'
           /\ log \in PossibleLogs'
<1>1. TypeOK /\ SettledInv /\ TapeInv
  BY DEF IInv
<1>2. log \in Seq(Entry) /\ Verifies(log) /\ Len(log) <= MaxEntries
  BY <1>1, PossibleFacts, VerifiesBound
<1>3. /\ settled' = log
      /\ tried' = IF log = settled THEN tried ELSE {}
      /\ tried' \subseteq Entry
  BY <1>1 DEF Return, TypeOK
<1>4. SettledInv'
  <2>1. CASE log = settled
    BY <1>1, <1>3, <2>1 DEF SettledInv
  <2>2. CASE log # settled
    BY <1>2, <1>3, <2>2 DEF SettledInv
  <2> QED
    BY <2>1, <2>2
<1>5. /\ \A img \in tapeDisk : img.recs \in PossibleLogs'
      /\ log \in PossibleLogs'
  <2>1. CASE log = settled
    BY <1>1, <1>3, <2>1 DEF PossibleLogs, TapeInv
  <2>2. CASE log # settled
    BY <1>3, <2>2 DEF PossibleLogs
  <2> QED
    BY <2>1, <2>2
<1> QED
  BY <1>2, <1>3, <1>4, <1>5

----------------------------------------------------------------------------
(* Every action preserves the inductive invariant.  One lemma per action,  *)
(* one step per conjunct it can disturb.                                   *)

\* Reconcile hands the handle back or goes on to the anchor.  What it leaves
\* is the same for an open that had nothing to trim and for one that had.
LEMMA ReconcileStep ==
    ASSUME IInv, tape.tail = "clean", ~poisoned, pending = NoEntry,
           Reconcile(tape.recs),
           tape' = tape, anchor' = anchor, poisoned' = poisoned,
           pending' = pending, faults' = faults,
           verified' = tape.recs, bytes' = Len(tape.recs),
           anchorDisk' = {anchor},
           tape' \in tapeDisk', tapeDisk' \subseteq tapeDisk
    PROVE  IInv'
<1>1. /\ tape \in tapeDisk /\ tape \in Image
      /\ tape = [recs |-> tape.recs, tail |-> "clean"]
      /\ tape.recs \in Seq(Entry)
      /\ tape.recs \in PossibleLogs
      /\ Len(tape.recs) \in Nat
      /\ Len(tape.recs) <= MaxEntries
  <2>1. tape \in tapeDisk /\ tape \in Image /\ tape.recs \in PossibleLogs
    BY DEF IInv, TypeOK, TapeInv
  <2> QED
    BY <2>1, ImageFacts, DiskFacts
<1>2. CASE NeedsAnchor(tape.recs)
  <2>1. pc' = "resync" /\ settled' = settled /\ tried' = tried
    BY <1>2 DEF Reconcile
  <2>2. TypeOK'
    BY <1>1, <2>1 DEF IInv, TypeOK, Stages
  <2>3. SettledInv' /\ TapeInv'
    BY <2>1 DEF IInv, SettledInv, TapeInv, PossibleLogs
  <2>4. AnchorInv'
    BY <2>1 DEF IInv, AnchorInv, PossibleLogs
  <2>5. ClosedInv' /\ OpeningInv' /\ IdleInv' /\ AppendingInv' /\ AnchoringInv'
    BY <1>1, <2>1 DEF ClosedInv, OpeningInv, IdleInv, AppendingInv, AnchoringInv
  <2>6. HandleInv'
    BY <2>1 DEF HandleInv
  <2> QED
    BY <2>2, <2>3, <2>4, <2>5, <2>6 DEF IInv
<1>3. CASE ~NeedsAnchor(tape.recs)
  <2>1. /\ pc' = "open"
        /\ Return(tape.recs)
    BY <1>3 DEF Reconcile, Return
  <2>2. /\ anchor = tape.recs
        /\ anchor # NoAnchor
        /\ tape.recs = settled \/ \A img \in tapeDisk : img.recs = tape.recs
    BY <1>3, AnchoredTape
  <2>3. /\ settled' = tape.recs
        /\ settled' \in Seq(Entry)
        /\ tried' \subseteq Entry
        /\ SettledInv'
        /\ \A img \in tapeDisk : img.recs \in PossibleLogs'
    BY <1>1, <2>1, <2>2, ReturnFacts
  <2>4. TypeOK'
    BY <1>1, <2>1, <2>3 DEF IInv, TypeOK, Stages
  <2>5. TapeInv'
    BY <2>3 DEF IInv, TapeInv
  <2>6. AnchorInv'
    BY <2>2, <2>3 DEF AnchorInv
  <2>7. ClosedInv' /\ OpeningInv' /\ IdleInv' /\ AppendingInv' /\ AnchoringInv'
    BY <1>1, <2>1, <2>2 DEF ClosedInv, OpeningInv, IdleInv, AppendingInv, AnchoringInv
  <2>8. HandleInv'
    BY <2>1, <2>2, <2>3 DEF HandleInv
  <2> QED
    BY <2>3, <2>4, <2>5, <2>6, <2>7, <2>8 DEF IInv
<1> QED
  BY <1>2, <1>3

LEMMA OpenStep ==
    ASSUME IInv, NEW mode, Open(mode)
    PROVE  IInv'
<1>1. /\ tape \in tapeDisk /\ tape \in Image
      /\ tape.recs \in Seq(Entry)
      /\ tape.recs \in PossibleLogs
      /\ Len(tape.recs) \in Nat
      /\ Len(tape.recs) <= MaxEntries
      /\ tape.tail \in {"clean", "torn"}
  <2>1. tape \in tapeDisk /\ tape \in Image /\ tape.recs \in PossibleLogs
    BY DEF IInv, TypeOK, TapeInv
  <2>2. tape.tail \in {"clean", "torn"}
    BY <2>1, ImageFacts DEF IInv, TapeInv
  <2> QED
    BY <2>1, <2>2, ImageFacts, DiskFacts
<1>2. /\ pc = "closed" /\ pending = NoEntry /\ ~poisoned
      /\ UNCHANGED <<tape, tapeDisk, anchor, poisoned, pending, faults>>
      /\ anchorDisk' = {anchor}
  BY DEF Open, IInv, ClosedInv
<1>3. CASE UNCHANGED <<pc, verified, bytes, settled, tried>>
  <2>1. TypeOK'
    BY <1>2, <1>3 DEF IInv, TypeOK
  <2>2. SettledInv' /\ TapeInv'
    BY <1>2, <1>3 DEF IInv, SettledInv, TapeInv, PossibleLogs
  <2>3. AnchorInv'
    BY <1>2, <1>3 DEF IInv, AnchorInv, PossibleLogs
  <2>4. /\ ClosedInv' /\ OpeningInv' /\ IdleInv' /\ AppendingInv'
        /\ AnchoringInv' /\ HandleInv'
    BY <1>2, <1>3 DEF IInv, ClosedInv, OpeningInv, IdleInv, AppendingInv,
                      AnchoringInv, HandleInv
  <2> QED
    BY <2>1, <2>2, <2>3, <2>4 DEF IInv
<1>4. CASE /\ verified' = tape.recs /\ bytes' = Len(tape.recs)
           /\ tape.tail = "torn"
           /\ pc' = "trim"
           /\ UNCHANGED <<settled, tried>>
  <2>1. TypeOK'
    BY <1>1, <1>2, <1>4 DEF IInv, TypeOK, Stages
  <2>2. SettledInv' /\ TapeInv'
    BY <1>2, <1>4 DEF IInv, SettledInv, TapeInv, PossibleLogs
  <2>3. AnchorInv'
    BY <1>2, <1>4 DEF IInv, AnchorInv, PossibleLogs
  <2>4. ClosedInv' /\ OpeningInv' /\ IdleInv' /\ AppendingInv' /\ AnchoringInv'
    BY <1>2, <1>4 DEF ClosedInv, OpeningInv, IdleInv, AppendingInv, AnchoringInv
  <2>5. HandleInv'
    BY <1>2, <1>4 DEF HandleInv
  <2> QED
    BY <2>1, <2>2, <2>3, <2>4, <2>5 DEF IInv
<1>5. CASE /\ verified' = tape.recs /\ bytes' = Len(tape.recs)
           /\ tape.tail # "torn"
           /\ Reconcile(tape.recs)
  BY <1>1, <1>2, <1>5, ReconcileStep
<1> QED
  BY <1>3, <1>4, <1>5 DEF Open

LEMMA TrimStep ==
    ASSUME IInv, Trim
    PROVE  IInv'
<1>1. /\ pc = "trim" /\ pc' = "trimsync"
      /\ UNCHANGED <<anchor, anchorDisk, verified, bytes, poisoned, pending,
                     settled, tried, faults>>
      /\ pending = NoEntry /\ ~poisoned
      /\ verified = tape.recs /\ bytes = Len(verified)
      /\ anchorDisk = {anchor}
  BY DEF Trim, IInv, OpeningInv, HandleInv
<1>2. tape \in tapeDisk /\ tape.recs \in Seq(Entry) /\ tape.recs \in PossibleLogs
  BY DiskFacts DEF IInv, TapeInv
<1>3. tape' = [recs |-> tape.recs, tail |-> "clean"]
  <2>1. SubSeq(tape.recs, 1, Len(tape.recs)) = tape.recs
    BY <1>2, SubSeqFull
  <2> QED
    BY <1>1, <2>1 DEF Trim, Truncated
<1>4. tape' \in Image /\ tapeDisk' = tapeDisk \cup {tape'}
  BY <1>2, <1>3 DEF Trim, Image
<1>5. TypeOK'
  BY <1>1, <1>4 DEF IInv, TypeOK, Stages
<1>6. SettledInv' /\ TapeInv'
  BY <1>1, <1>2, <1>3, <1>4 DEF IInv, SettledInv, TapeInv, PossibleLogs
<1>7. AnchorInv'
  BY <1>1, <1>2, <1>3, <1>4 DEF IInv, AnchorInv, PossibleLogs
<1>8. ClosedInv' /\ OpeningInv' /\ IdleInv' /\ AppendingInv' /\ AnchoringInv'
  BY <1>1, <1>3 DEF ClosedInv, OpeningInv, IdleInv, AppendingInv, AnchoringInv
<1>9. HandleInv'
  BY <1>1 DEF HandleInv
<1> QED
  BY <1>5, <1>6, <1>7, <1>8, <1>9 DEF IInv

LEMMA TrimSyncStep ==
    ASSUME IInv, TrimSync
    PROVE  IInv'
<1>1. /\ pending = NoEntry /\ ~poisoned
      /\ verified = tape.recs /\ bytes = Len(verified)
      /\ tape.tail = "clean"
      /\ anchorDisk = {anchor}
      /\ tape \in tapeDisk
  BY DEF TrimSync, IInv, OpeningInv, HandleInv, TapeInv
<1> QED
  BY <1>1, ReconcileStep DEF TrimSync

LEMMA ResyncStep ==
    ASSUME IInv, Resync
    PROVE  IInv'
<1>1. /\ pc = "resync" /\ pc' = "anchor"
      /\ UNCHANGED <<tape, anchor, anchorDisk, verified, bytes, poisoned,
                     pending, settled, tried, faults>>
      /\ tapeDisk' = {tape}
      /\ pending = NoEntry /\ ~poisoned
      /\ verified = tape.recs /\ bytes = Len(verified)
      /\ tape.tail = "clean"
      /\ tape \in tapeDisk /\ tape \in Image
  BY DEF Resync, IInv, OpeningInv, HandleInv, TapeInv, TypeOK
<1>2. tape = [recs |-> Goal, tail |-> "clean"]
  BY <1>1, ImageFacts DEF Goal
<1>3. Goal' = Goal
  BY <1>1 DEF Goal
<1>4. TypeOK'
  BY <1>1 DEF IInv, TypeOK, Stages
<1>5. SettledInv' /\ TapeInv'
  BY <1>1 DEF IInv, SettledInv, TapeInv, PossibleLogs
<1>6. AnchorInv'
  BY <1>1 DEF IInv, AnchorInv, PossibleLogs
<1>7. ClosedInv' /\ OpeningInv' /\ IdleInv' /\ AppendingInv' /\ AnchoringInv'
  BY <1>1, <1>2, <1>3 DEF ClosedInv, OpeningInv, IdleInv, AppendingInv, AnchoringInv
<1>8. HandleInv'
  BY <1>1 DEF HandleInv
<1> QED
  BY <1>4, <1>5, <1>6, <1>7, <1>8 DEF IInv

\* While an append is under way nothing past what callers were told of is
\* known to the handle or anchored.
LEMMA AppendingFacts ==
    ASSUME IInv, pc \in {"write", "sync", "abort"}
    PROVE  /\ verified = settled /\ bytes = Len(settled)
           /\ settled \in Seq(Entry) /\ Len(settled) \in Nat
           /\ ~poisoned
           /\ pending \in tried /\ pending \in Entry /\ pending # NoEntry
           /\ anchor = settled /\ anchorDisk = {settled}
           /\ Append(settled, pending) \in Seq(Entry)
           /\ settled \in PossibleLogs
           /\ Append(settled, pending) \in PossibleLogs
           /\ \A img \in tapeDisk :
                 /\ Truncated(img, bytes) = [recs |-> settled, tail |-> "clean"]
                 /\ PartWritten(img, bytes) = [recs |-> settled, tail |-> "torn"]
           /\ tape \in tapeDisk
           /\ [recs |-> settled, tail |-> "clean"] \in Image
           /\ [recs |-> settled, tail |-> "torn"] \in Image
           /\ [recs |-> Append(settled, pending), tail |-> "clean"] \in Image
<1>1. /\ verified = settled /\ bytes = Len(settled)
      /\ settled \in Seq(Entry) /\ Len(settled) \in Nat
      /\ ~poisoned
      /\ pending \in tried /\ pending \in Entry
      /\ anchor = settled /\ anchorDisk = {settled}
      /\ tape \in tapeDisk
  BY DEF IInv, TypeOK, HandleInv, AppendingInv, AnchorInv, TapeInv
<1>2. pending # NoEntry
  BY <1>1, DurableAssumption
<1>3. Append(settled, pending) \in Seq(Entry)
  BY <1>1, AppendFacts
<1>4. settled \in PossibleLogs /\ Append(settled, pending) \in PossibleLogs
  BY <1>1 DEF PossibleLogs
<1>5. \A img \in tapeDisk :
          /\ Truncated(img, bytes) = [recs |-> settled, tail |-> "clean"]
          /\ PartWritten(img, bytes) = [recs |-> settled, tail |-> "torn"]
  BY <1>1, DiskFacts DEF Truncated, PartWritten
<1>6. /\ [recs |-> settled, tail |-> "clean"] \in Image
      /\ [recs |-> settled, tail |-> "torn"] \in Image
      /\ [recs |-> Append(settled, pending), tail |-> "clean"] \in Image
  BY <1>1, <1>3 DEF Image
<1> QED
  BY <1>1, <1>2, <1>3, <1>4, <1>5, <1>6

LEMMA BeginAppendStep ==
    ASSUME IInv, NEW line \in Lines, BeginAppend(line)
    PROVE  IInv'
<1>1. /\ pc = "open" /\ ~poisoned /\ pc' = "write"
      /\ UNCHANGED <<tape, tapeDisk, anchor, anchorDisk, verified, bytes,
                     poisoned, settled, faults>>
      /\ line.entry \in Entry
      /\ pending' = line.entry /\ tried' = tried \cup {line.entry}
      /\ verified = settled /\ bytes = Len(verified)
      /\ anchorDisk = {settled}
      /\ tape = [recs |-> verified, tail |-> "clean"]
  BY DEF BeginAppend, Lines, disk, IInv, IdleInv, HandleInv
<1>2. Admits(settled, [prev |-> settled, entry |-> line.entry])
  BY <1>1 DEF BeginAppend, Admits
<1>3. TypeOK'
  BY <1>1 DEF IInv, TypeOK, Stages
<1>4. SettledInv' /\ TapeInv'
  BY <1>1, <1>2 DEF IInv, SettledInv, TapeInv, PossibleLogs
<1>5. AnchorInv'
  BY <1>1 DEF IInv, AnchorInv
<1>6. ClosedInv' /\ OpeningInv' /\ IdleInv' /\ AppendingInv' /\ AnchoringInv'
  BY <1>1 DEF ClosedInv, OpeningInv, IdleInv, AppendingInv, AnchoringInv
<1>7. HandleInv'
  BY <1>1 DEF HandleInv
<1> QED
  BY <1>3, <1>4, <1>5, <1>6, <1>7 DEF IInv

LEMMA WriteTapeStep ==
    ASSUME IInv, WriteTape
    PROVE  IInv'
<1>1. /\ pc = "write" /\ pc' = "sync"
      /\ UNCHANGED <<anchor, anchorDisk, verified, bytes, poisoned, pending,
                     settled, tried, faults>>
      /\ tape = [recs |-> settled, tail |-> "clean"]
  BY AppendingFacts DEF WriteTape, IInv, AppendingInv
<1>2. tape' = [recs |-> Append(settled, pending), tail |-> "clean"]
  <2>1. /\ SubSeq(tape.recs, 1, bytes) = settled
        /\ ~(Len(tape.recs) > bytes)
        /\ tape.tail = "clean"
    BY <1>1, AppendingFacts, SubSeqFull
  <2>2. Written(tape, bytes, pending) =
            [recs : {Append(settled, pending)}, tail : {"clean"}]
    BY <2>1 DEF Written
  <2> QED
    BY <2>2 DEF WriteTape
<1>3. tapeDisk' = tapeDisk \cup {[recs |-> settled, tail |-> "torn"], tape'}
  BY <1>1, AppendingFacts DEF WriteTape
<1>4. TypeOK'
  BY <1>1, <1>2, <1>3, AppendingFacts DEF IInv, TypeOK, Stages
<1>5. SettledInv' /\ TapeInv'
  BY <1>1, <1>2, <1>3, AppendingFacts DEF IInv, SettledInv, TapeInv, PossibleLogs
<1>6. AnchorInv'
  BY <1>1, AppendingFacts DEF AnchorInv
<1>7. ClosedInv' /\ OpeningInv' /\ IdleInv' /\ AppendingInv' /\ AnchoringInv'
  BY <1>1, <1>2, AppendingFacts
  DEF ClosedInv, OpeningInv, IdleInv, AppendingInv, AnchoringInv
<1>8. HandleInv'
  BY <1>1, AppendingFacts DEF HandleInv
<1> QED
  BY <1>4, <1>5, <1>6, <1>7, <1>8 DEF IInv

LEMMA WriteTapeFailsStep ==
    ASSUME IInv, WriteTapeFails
    PROVE  IInv'
<1>1. /\ pc = "write" /\ pc' = "abort"
      /\ UNCHANGED <<anchor, anchorDisk, verified, bytes, poisoned, pending,
                     settled, tried>>
      /\ faults' \in 0 .. MaxFaults
      /\ tapeDisk' = tapeDisk \cup {tape'}
  BY DurableAssumption DEF WriteTapeFails, Fault, IInv, TypeOK
<1>2. tape' = tape \/ tape' = [recs |-> settled, tail |-> "torn"]
  BY <1>1, AppendingFacts DEF WriteTapeFails
<1>3. TypeOK'
  BY <1>1, <1>2, AppendingFacts DEF IInv, TypeOK, Stages
<1>4. SettledInv' /\ TapeInv'
  BY <1>1, <1>2, AppendingFacts DEF IInv, SettledInv, TapeInv, PossibleLogs
<1>5. AnchorInv'
  BY <1>1, AppendingFacts DEF AnchorInv
<1>6. ClosedInv' /\ OpeningInv' /\ IdleInv' /\ AppendingInv' /\ AnchoringInv'
  BY <1>1, AppendingFacts
  DEF ClosedInv, OpeningInv, IdleInv, AppendingInv, AnchoringInv
<1>7. HandleInv'
  BY <1>1, AppendingFacts DEF HandleInv
<1> QED
  BY <1>3, <1>4, <1>5, <1>6, <1>7 DEF IInv

LEMMA SyncTapeStep ==
    ASSUME IInv, SyncTape
    PROVE  IInv'
<1>1. /\ pc = "sync" /\ pc' = "anchor"
      /\ UNCHANGED <<tape, anchor, anchorDisk, verified, bytes, poisoned,
                     pending, settled, tried, faults>>
      /\ tapeDisk' = {tape}
      /\ tape = [recs |-> Append(verified, pending), tail |-> "clean"]
  BY DEF SyncTape, IInv, AppendingInv
<1>2. tape = [recs |-> Goal, tail |-> "clean"] /\ Goal' = Goal
  BY <1>1, AppendingFacts DEF Goal
<1>3. NoAnchor \notin anchorDisk
  BY <1>1, AppendingFacts, DurableAssumption
<1>4. TypeOK'
  BY <1>1 DEF IInv, TypeOK, Stages
<1>5. SettledInv' /\ TapeInv'
  BY <1>1 DEF IInv, SettledInv, TapeInv, PossibleLogs
<1>6. AnchorInv'
  BY <1>1, AppendingFacts DEF AnchorInv
<1>7. ClosedInv' /\ OpeningInv' /\ IdleInv' /\ AppendingInv' /\ AnchoringInv'
  BY <1>1, <1>2, <1>3, AppendingFacts
  DEF ClosedInv, OpeningInv, IdleInv, AppendingInv, AnchoringInv
<1>8. HandleInv'
  BY <1>1, AppendingFacts DEF HandleInv
<1> QED
  BY <1>4, <1>5, <1>6, <1>7, <1>8 DEF IInv

LEMMA SyncTapeFailsStep ==
    ASSUME IInv, SyncTapeFails
    PROVE  IInv'
<1>1. /\ pc = "sync" /\ pc' = "abort"
      /\ UNCHANGED <<tape, tapeDisk, anchor, anchorDisk, verified, bytes,
                     poisoned, pending, settled, tried>>
      /\ faults' \in 0 .. MaxFaults
  BY DurableAssumption DEF SyncTapeFails, Fault, disk, IInv, TypeOK
<1>2. TypeOK'
  BY <1>1 DEF IInv, TypeOK, Stages
<1>3. SettledInv' /\ TapeInv' /\ AnchorInv'
  BY <1>1 DEF IInv, SettledInv, TapeInv, AnchorInv, PossibleLogs
<1>4. ClosedInv' /\ OpeningInv' /\ IdleInv' /\ AppendingInv' /\ AnchoringInv'
  BY <1>1, AppendingFacts
  DEF ClosedInv, OpeningInv, IdleInv, AppendingInv, AnchoringInv
<1>5. HandleInv'
  BY <1>1, AppendingFacts DEF HandleInv
<1> QED
  BY <1>2, <1>3, <1>4, <1>5 DEF IInv

LEMMA AbortStep ==
    ASSUME IInv, Abort
    PROVE  IInv'
<1>1. /\ pc = "abort" /\ pc' = "open"
      /\ UNCHANGED <<anchor, anchorDisk, verified, bytes, poisoned, settled,
                     faults>>
      /\ pending' = NoEntry /\ tried' = {}
      /\ tape \in tapeDisk
  BY DEF Abort, IInv, TapeInv
<1>2. /\ tape' = [recs |-> settled, tail |-> "clean"]
      /\ tapeDisk' = {tape'}
  BY <1>1, AppendingFacts DEF Abort
<1>3. TypeOK'
  BY <1>1, <1>2, AppendingFacts DEF IInv, TypeOK, Stages
<1>4. SettledInv' /\ TapeInv'
  BY <1>1, <1>2, AppendingFacts DEF IInv, SettledInv, TapeInv, PossibleLogs
<1>5. AnchorInv'
  BY <1>1, AppendingFacts DEF AnchorInv
<1>6. NoAnchor \notin anchorDisk
  BY <1>1, AppendingFacts, DurableAssumption
<1>7. ClosedInv' /\ OpeningInv' /\ IdleInv' /\ AppendingInv' /\ AnchoringInv'
  BY <1>1, <1>2, <1>6, AppendingFacts
  DEF ClosedInv, OpeningInv, IdleInv, AppendingInv, AnchoringInv
<1>8. HandleInv'
  BY <1>1, AppendingFacts DEF HandleInv
<1> QED
  BY <1>3, <1>4, <1>5, <1>7, <1>8 DEF IInv

LEMMA AbortFailsStep ==
    ASSUME IInv, AbortFails
    PROVE  IInv'
<1>1. /\ pc = "abort" /\ pc' = "open"
      /\ UNCHANGED <<anchor, anchorDisk, verified, bytes, settled, tried>>
      /\ pending' = NoEntry /\ poisoned' = TRUE
      /\ faults' \in 0 .. MaxFaults
      /\ tapeDisk' = tapeDisk \cup {tape'}
  BY DurableAssumption DEF AbortFails, Fault, IInv, TypeOK
<1>2. tape' = tape \/ tape' = [recs |-> settled, tail |-> "clean"]
  BY <1>1, AppendingFacts DEF AbortFails
<1>3. TypeOK'
  BY <1>1, <1>2, AppendingFacts DEF IInv, TypeOK, Stages
<1>4. SettledInv' /\ TapeInv'
  BY <1>1, <1>2, AppendingFacts DEF IInv, SettledInv, TapeInv, PossibleLogs
<1>5. AnchorInv'
  BY <1>1, AppendingFacts DEF AnchorInv
<1>6. NoAnchor \notin anchorDisk
  BY <1>1, AppendingFacts, DurableAssumption
<1>7. ClosedInv' /\ OpeningInv' /\ IdleInv' /\ AppendingInv' /\ AnchoringInv'
  BY <1>1, <1>6
  DEF ClosedInv, OpeningInv, IdleInv, AppendingInv, AnchoringInv
<1>8. HandleInv'
  BY <1>1, AppendingFacts DEF HandleInv
<1> QED
  BY <1>3, <1>4, <1>5, <1>7, <1>8 DEF IInv

\* While the anchor is written the tape is synced: it is the goal, and the
\* only image a power loss can leave.
LEMMA AnchoringFacts ==
    ASSUME IInv, pc \in {"anchor", "dirsync"}
    PROVE  /\ tape = [recs |-> Goal, tail |-> "clean"]
           /\ tapeDisk = {tape}
           /\ Goal \in Seq(Entry) /\ Goal \in PossibleLogs
           /\ Verifies(Goal) /\ Len(Goal) <= MaxEntries
           /\ pending \in Entry \cup {NoEntry} /\ pending \in tried \cup {NoEntry}
           /\ pending # NoEntry => NoAnchor \notin anchorDisk /\ verified = settled
           /\ ~poisoned /\ bytes = Len(verified)
           /\ pc = "dirsync" => anchor = Goal
<1>1. /\ tape = [recs |-> Goal, tail |-> "clean"]
      /\ tapeDisk = {tape}
      /\ pending \in Entry \cup {NoEntry} /\ pending \in tried \cup {NoEntry}
      /\ pending # NoEntry => NoAnchor \notin anchorDisk /\ verified = settled
      /\ ~poisoned /\ bytes = Len(verified)
      /\ pc = "dirsync" => anchor = Goal
  BY DEF IInv, TypeOK, AnchoringInv, HandleInv
<1>2. Goal \in PossibleLogs
  BY <1>1 DEF IInv, TapeInv
<1>3. Goal \in Seq(Entry) /\ Verifies(Goal) /\ Len(Goal) <= MaxEntries
  BY <1>1, DiskFacts
<1> QED
  BY <1>1, <1>2, <1>3

LEMMA RenameAnchorStep ==
    ASSUME IInv, RenameAnchor
    PROVE  IInv'
<1>1. /\ pc = "anchor" /\ pc' = "dirsync"
      /\ UNCHANGED <<tape, tapeDisk, verified, bytes, poisoned, pending,
                     settled, tried, faults>>
      /\ anchor' = Goal
      /\ anchorDisk' = anchorDisk \cup {Goal}
      /\ Goal' = Goal
      /\ Goal # NoAnchor
  BY AnchoringFacts, DurableAssumption DEF RenameAnchor, Goal
<1>2. TypeOK'
  BY <1>1, AnchoringFacts DEF IInv, TypeOK, Stages
<1>3. SettledInv' /\ TapeInv'
  BY <1>1 DEF IInv, SettledInv, TapeInv, PossibleLogs
<1>4. AnchorInv'
  BY <1>1, AnchoringFacts DEF IInv, AnchorInv, PossibleLogs
<1>5. ClosedInv' /\ OpeningInv' /\ IdleInv' /\ AppendingInv' /\ AnchoringInv'
  BY <1>1, AnchoringFacts
  DEF ClosedInv, OpeningInv, IdleInv, AppendingInv, AnchoringInv
<1>6. HandleInv'
  BY <1>1, AnchoringFacts DEF HandleInv
<1> QED
  BY <1>2, <1>3, <1>4, <1>5, <1>6 DEF IInv

LEMMA SyncDirectoryStep ==
    ASSUME IInv, SyncDirectory
    PROVE  IInv'
<1>1. /\ pc = "dirsync" /\ pc' = "open"
      /\ UNCHANGED <<tape, tapeDisk, anchor, poisoned, faults>>
      /\ anchor = Goal /\ anchorDisk' = {Goal} /\ Goal # NoAnchor
      /\ verified' = Goal /\ bytes' = Len(Goal) /\ Len(Goal) \in Nat
      /\ pending' = NoEntry
      /\ Return(Goal)
  BY AnchoringFacts, DurableAssumption DEF SyncDirectory, Return
<1>2. \A img \in tapeDisk : img.recs = Goal
  BY <1>1, AnchoringFacts
<1>3. /\ settled' = Goal
      /\ settled' \in Seq(Entry)
      /\ tried' \subseteq Entry
      /\ SettledInv'
      /\ \A img \in tapeDisk : img.recs \in PossibleLogs'
  BY <1>1, <1>2, AnchoringFacts, ReturnFacts
<1>4. TypeOK'
  BY <1>1, <1>3, AnchoringFacts DEF IInv, TypeOK, Stages
<1>5. TapeInv'
  BY <1>1, <1>3 DEF IInv, TapeInv
<1>6. AnchorInv'
  BY <1>1, <1>3 DEF AnchorInv
<1>7. ClosedInv' /\ OpeningInv' /\ IdleInv' /\ AppendingInv' /\ AnchoringInv'
  BY <1>1, AnchoringFacts
  DEF ClosedInv, OpeningInv, IdleInv, AppendingInv, AnchoringInv
<1>8. HandleInv'
  BY <1>1, <1>3, AnchoringFacts DEF HandleInv
<1> QED
  BY <1>3, <1>4, <1>5, <1>6, <1>7, <1>8 DEF IInv

LEMMA AnchorFailsStep ==
    ASSUME IInv, AnchorFails
    PROVE  IInv'
<1>1. /\ pc \in {"anchor", "dirsync"} /\ pc' = "open"
      /\ UNCHANGED <<tape, tapeDisk, anchor, anchorDisk, verified, bytes,
                     settled, tried>>
      /\ pending # NoEntry /\ pending' = NoEntry /\ poisoned' = TRUE
      /\ faults' \in 0 .. MaxFaults
  BY DurableAssumption DEF AnchorFails, Fault, disk, IInv, TypeOK
<1>2. TypeOK'
  BY <1>1 DEF IInv, TypeOK, Stages
<1>3. SettledInv' /\ TapeInv' /\ AnchorInv'
  BY <1>1 DEF IInv, SettledInv, TapeInv, AnchorInv, PossibleLogs
<1>4. ClosedInv' /\ OpeningInv' /\ IdleInv' /\ AppendingInv' /\ AnchoringInv'
  BY <1>1, AnchoringFacts
  DEF ClosedInv, OpeningInv, IdleInv, AppendingInv, AnchoringInv
<1>5. HandleInv'
  BY <1>1, AnchoringFacts DEF HandleInv
<1> QED
  BY <1>2, <1>3, <1>4, <1>5 DEF IInv

\* A handle that ends with the process, or is dropped, leaves the disk alone.
LEMMA ClosedStep ==
    ASSUME IInv, Closed, UNCHANGED disk, faults' \in 0 .. MaxFaults
    PROVE  IInv'
<1>1. /\ pc' = "closed" /\ verified' = <<>> /\ bytes' = 0
      /\ poisoned' = FALSE /\ pending' = NoEntry
      /\ UNCHANGED <<settled, tried, tape, tapeDisk, anchor, anchorDisk>>
  BY DEF Closed, disk
<1>2. TypeOK'
  <2>1. Len(<<>>) <= MaxEntries /\ <<>> \in Seq(Entry)
    BY ReplayAssumption
  <2>2. verified' \in Seq(Entry) /\ Len(verified') <= MaxEntries
    BY <1>1, <2>1
  <2> QED
    BY <1>1, <2>2 DEF IInv, TypeOK, Stages
<1>3. SettledInv' /\ TapeInv' /\ AnchorInv'
  BY <1>1 DEF IInv, SettledInv, TapeInv, AnchorInv, PossibleLogs
<1>4. ClosedInv' /\ OpeningInv' /\ IdleInv' /\ AppendingInv' /\ AnchoringInv'
  BY <1>1 DEF ClosedInv, OpeningInv, IdleInv, AppendingInv, AnchoringInv
<1>5. HandleInv'
  BY <1>1 DEF HandleInv
<1> QED
  BY <1>2, <1>3, <1>4, <1>5 DEF IInv

LEMMA PowerLossStep ==
    ASSUME IInv, PowerLoss
    PROVE  IInv'
<1>1. /\ pc' = "closed" /\ verified' = <<>> /\ bytes' = 0
      /\ poisoned' = FALSE /\ pending' = NoEntry
      /\ UNCHANGED <<settled, tried>>
      /\ tape' \in tapeDisk /\ tapeDisk' = {tape'}
      /\ anchor' \in anchorDisk /\ anchorDisk' = {anchor'}
      /\ faults' \in 0 .. MaxFaults
  BY DurableAssumption DEF PowerLoss, Fault, Closed, IInv, TypeOK
<1>2. TypeOK'
  <2>1. Len(<<>>) <= MaxEntries /\ <<>> \in Seq(Entry)
    BY ReplayAssumption
  <2>2. verified' \in Seq(Entry) /\ Len(verified') <= MaxEntries
    BY <1>1, <2>1
  <2> QED
    BY <1>1, <2>2 DEF IInv, TypeOK, Stages
<1>3. SettledInv' /\ TapeInv' /\ AnchorInv'
  BY <1>1 DEF IInv, SettledInv, TapeInv, AnchorInv, PossibleLogs
<1>4. ClosedInv' /\ OpeningInv' /\ IdleInv' /\ AppendingInv' /\ AnchoringInv'
  BY <1>1 DEF ClosedInv, OpeningInv, IdleInv, AppendingInv, AnchoringInv
<1>5. HandleInv'
  BY <1>1 DEF HandleInv
<1> QED
  BY <1>2, <1>3, <1>4, <1>5 DEF IInv

----------------------------------------------------------------------------
(* The inductive invariant. *)

LEMMA InitInv == Init => IInv
<1> SUFFICES ASSUME Init PROVE IInv
  OBVIOUS
<1>1. /\ settled \in LegacyLogs /\ settled \in Seq(Entry) /\ Verifies(settled)
      /\ tape \in [recs : {settled}, tail : {"clean", "torn"}]
      /\ tapeDisk = {tape} /\ anchor = NoAnchor /\ anchorDisk = {NoAnchor}
      /\ pc = "closed" /\ verified = <<>> /\ bytes = 0 /\ poisoned = FALSE
      /\ pending = NoEntry /\ tried = {} /\ faults = 0
  BY LegacyAssumption DEF Init
<1>2. tape \in Image /\ tape.recs = settled /\ tape.tail # "junk"
  BY <1>1 DEF Image
<1>3. TypeOK
  <2>1. Len(<<>>) <= MaxEntries /\ <<>> \in Seq(Entry) /\ MaxFaults \in Nat
    BY ReplayAssumption, DurableAssumption
  <2>2. verified \in Seq(Entry) /\ Len(verified) <= MaxEntries
    BY <1>1, <2>1
  <2>3. faults \in 0 .. MaxFaults /\ bytes \in Nat
    BY <1>1, <2>1
  <2>4. pc \in Stages /\ anchorDisk \subseteq Seq(Entry) \cup {NoAnchor}
    BY <1>1 DEF Stages
  <2> QED
    BY <1>1, <1>2, <2>2, <2>3, <2>4 DEF TypeOK
<1>4. SettledInv /\ TapeInv /\ AnchorInv
  BY <1>1, <1>2 DEF SettledInv, TapeInv, AnchorInv, PossibleLogs
<1>5. ClosedInv /\ OpeningInv /\ IdleInv /\ AppendingInv /\ AnchoringInv
  BY <1>1 DEF ClosedInv, OpeningInv, IdleInv, AppendingInv, AnchoringInv
<1>6. HandleInv
  BY <1>1 DEF HandleInv
<1> QED
  BY <1>3, <1>4, <1>5, <1>6 DEF IInv

LEMMA StepInv == IInv /\ [Next]_vars => IInv'
<1> SUFFICES ASSUME IInv, [Next]_vars PROVE IInv'
  OBVIOUS
<1>1. CASE Opening
  BY <1>1, OpenStep DEF Opening
<1>2. ASSUME NEW line \in Lines, BeginAppend(line) \/ RefuseAppend(line)
      PROVE  IInv'
  <2>1. CASE BeginAppend(line)
    BY <2>1, BeginAppendStep
  <2>2. CASE UNCHANGED vars
    BY <2>2 DEF vars, disk, handle, IInv, TypeOK, SettledInv, TapeInv, AnchorInv,
                ClosedInv, OpeningInv, IdleInv, AppendingInv, AnchoringInv,
                HandleInv, PossibleLogs, Goal
  <2> QED
    BY <1>2, <2>1, <2>2 DEF RefuseAppend
<1>3. CASE Progress
  <2>1. CASE Restart
    BY <2>1, ClosedStep DEF Restart, IInv, TypeOK
  <2> QED
    BY <1>3, <2>1, TrimStep, TrimSyncStep, ResyncStep, WriteTapeStep,
       SyncTapeStep, AbortStep, RenameAnchorStep, SyncDirectoryStep DEF Progress
<1>4. CASE Failure
  <2>1. CASE Kill
    <3>1. faults' \in 0 .. MaxFaults
      BY <2>1, DurableAssumption DEF Kill, Fault, IInv, TypeOK
    <3> QED
      BY <2>1, <3>1, ClosedStep DEF Kill
  <2> QED
    BY <1>4, <2>1, WriteTapeFailsStep, SyncTapeFailsStep, AbortFailsStep,
       AnchorFailsStep, PowerLossStep DEF Failure
<1>5. CASE UNCHANGED vars
  BY <1>5 DEF vars, disk, handle, IInv, TypeOK, SettledInv, TapeInv, AnchorInv,
              ClosedInv, OpeningInv, IdleInv, AppendingInv, AnchoringInv,
              HandleInv, PossibleLogs, Goal
<1> QED
  BY <1>1, <1>2, <1>3, <1>4, <1>5 DEF Next

\* The inductive invariant holds at every step of durable.rs: every record on
\* disk verifies, and every stage of a handle agrees with the files.
THEOREM InvariantHolds == Spec => []IInv
<1>1. Init => IInv
  BY InitInv
<1>2. IInv /\ [Next]_vars => IInv'
  BY StepInv
<1> QED
  BY <1>1, <1>2, PTL DEF Spec

----------------------------------------------------------------------------
(* The properties that the runs check. *)

\* The handle and the files have their types, and the verified log never
\* outgrows the owner index.
THEOREM TypeCorrect == Spec => []TypeOK
<1>1. IInv => TypeOK
  BY DEF IInv
<1> QED
  BY <1>1, InvariantHolds, PTL

\* Whatever a power loss leaves of the tape file, acknowledged records are all
\* there, with at most one offered record behind them.
THEOREM AcknowledgedSurvives == Spec => []OnlyOfferedInDoubt
<1>1. IInv => OnlyOfferedInDoubt
  BY DEF IInv, TapeInv, OnlyOfferedInDoubt
<1> QED
  BY <1>1, InvariantHolds, PTL

\* open_inner accepts every pair of tape and anchor a crash or power loss can
\* leave: the anchor never points past the tape.
THEOREM EveryCrashRecovers == Spec => []RecoveryAccepted
<1>1. ASSUME IInv, NEW img \in tapeDisk, NEW anch \in anchorDisk
      PROVE  Accepts(img, anch)
  <2>1. img.tail # "junk" /\ Verifies(img.recs)
    BY <1>1, DiskFacts DEF IInv, TapeInv
  <2>2. CASE anch = NoAnchor
    BY <2>1, <2>2 DEF Accepts
  <2>3. CASE anch = settled
    BY <1>1, <2>1, <2>3, DiskFacts DEF Accepts
  <2>4. CASE img.recs = anch
    BY <1>1, <2>1, <2>4, DiskFacts DEF Accepts, IsPrefix
  <2> QED
    BY <1>1, <2>2, <2>3, <2>4 DEF IInv, AnchorInv
<1>2. IInv => RecoveryAccepted
  BY <1>1 DEF RecoveryAccepted
<1> QED
  BY <1>2, InvariantHolds, PTL

\* A checkpoint file a power loss can leave covers every acknowledged record,
\* and there is one whenever a handle is in its caller's hands.
THEOREM AnchorCovers == Spec => []AnchorCoversSettled
<1>1. ASSUME IInv, NEW anch \in anchorDisk, anch # NoAnchor
      PROVE  IsPrefix(settled, anch)
  <2>1. CASE anch = settled
    BY <2>1, <1>1 DEF IInv, TypeOK, IsPrefix
  <2>2. CASE anch \in PossibleLogs
    <3>1. TypeOK /\ SettledInv
      BY <1>1 DEF IInv
    <3> QED
      BY <2>2, <3>1, PossibleFacts
  <2> QED
    BY <1>1, <2>1, <2>2 DEF IInv, AnchorInv
<1>2. ASSUME IInv, NoAnchor \in anchorDisk
      PROVE  pc \notin {"open", "write", "sync", "abort"}
  <2>1. pc # "open"
    BY <1>2 DEF IInv, IdleInv
  <2>2. pc \notin {"write", "sync", "abort"}
    BY <1>2, AppendingFacts, DurableAssumption
  <2> QED
    BY <2>1, <2>2
<1>3. IInv => AnchorCoversSettled
  BY <1>1, <1>2 DEF AnchorCoversSettled
<1> QED
  BY <1>3, InvariantHolds, PTL

\* No crash, retry or recovery puts an order on the tape twice, or a cancel
\* before the order it cancels.
THEOREM NoOrderTwice == Spec => []OrdersOnce
<1>1. ASSUME IInv, NEW img \in tapeDisk
      PROVE  img.recs \in Seq(Entry) /\ Verifies(img.recs)
  BY <1>1, DiskFacts
<1>2. IInv => OrdersOnce
  BY <1>1, VerifiesOnce DEF OrdersOnce
<1> QED
  BY <1>2, InvariantHolds, PTL

----------------------------------------------------------------------------
(* The durable tape implements the acknowledged log. *)

LEMMA InitImplements == Init => Acked!Init
BY DEF Init, Acked!Init

\* Returning a handle or acknowledging an append is the abstract Settle.
LEMMA ReturnImplements ==
    ASSUME IInv, NEW log \in PossibleLogs, Return(log)
    PROVE  [Acked!Next]_<<settled, tried>>
<1>1. CASE log = settled
  BY <1>1 DEF Return
<1>2. ASSUME NEW e \in tried, log = Append(settled, e), log # settled
      PROVE  [Acked!Next]_<<settled, tried>>
  <2>1. e \in Entry
    BY DEF IInv, TypeOK
  <2>2. Acked!Settle(e)
    BY <1>2 DEF Return, Acked!Settle
  <2> QED
    BY <2>1, <2>2 DEF Acked!Next, Acked!Entry, Entry
<1> QED
  BY <1>1, <1>2 DEF PossibleLogs

LEMMA ReconcileImplements ==
    ASSUME IInv, Reconcile(tape.recs)
    PROVE  [Acked!Next]_<<settled, tried>>
<1>1. tape.recs \in PossibleLogs
  BY DEF IInv, TapeInv
<1> QED
  BY <1>1, ReturnImplements DEF Reconcile

LEMMA StepImplements ==
    IInv /\ [Next]_vars => [Acked!Next]_<<settled, tried>>
<1> SUFFICES ASSUME IInv, [Next]_vars PROVE [Acked!Next]_<<settled, tried>>
  OBVIOUS
<1>1. CASE Opening
  BY <1>1, ReconcileImplements DEF Opening, Open
<1>2. ASSUME NEW line \in Lines, BeginAppend(line)
      PROVE  [Acked!Next]_<<settled, tried>>
  <2>1. /\ line.entry \in Entry
        /\ Admits(settled, [prev |-> settled, entry |-> line.entry])
        /\ tried' = tried \cup {line.entry} /\ UNCHANGED settled
    BY <1>2 DEF BeginAppend, Lines, IInv, HandleInv, Admits
  <2>2. Acked!Try(line.entry)
    BY <2>1 DEF Acked!Try, Acked!Admits, Acked!OwnsTarget, Acked!OrdersOn,
                Admits, OwnsTarget, OrdersOn
  <2> QED
    BY <2>1, <2>2 DEF Acked!Next, Acked!Entry, Entry
<1>3. CASE TrimSync
  <2>1. verified = tape.recs
    BY <1>3 DEF TrimSync, IInv, OpeningInv
  <2> QED
    BY <1>3, <2>1, ReconcileImplements DEF TrimSync
<1>4. CASE SyncDirectory
  <2>1. Goal \in PossibleLogs
    BY <1>4, AnchoringFacts DEF SyncDirectory
  <2> QED
    BY <1>4, <2>1, ReturnImplements DEF SyncDirectory
<1>5. CASE Abort
  BY <1>5 DEF Abort, Acked!Next, Acked!GiveUp
<1>6. CASE UNCHANGED <<settled, tried>>
  BY <1>6
<1>7. \/ Opening
      \/ \E line \in Lines : BeginAppend(line)
      \/ TrimSync \/ SyncDirectory \/ Abort
      \/ UNCHANGED <<settled, tried>>
  BY DEF Next, RefuseAppend, vars, Progress, Trim, Resync, WriteTape, SyncTape,
         RenameAnchor, Restart, Failure, WriteTapeFails, SyncTapeFails,
         AbortFails, AnchorFails, Kill, PowerLoss, Closed
<1> QED
  BY <1>1, <1>2, <1>3, <1>4, <1>5, <1>6, <1>7

\* Acknowledging an append only after tape, anchor and directory are synced
\* gives the caller an append-only log, with every unacknowledged append either
\* in it or gone once the next one is acknowledged.
THEOREM Implements == Spec => ImplementsAckedLog
<1>1. Init => Acked!Init
  BY InitImplements
<1>2. IInv /\ [Next]_vars => [Acked!Next]_(Acked!vars)
  BY StepImplements DEF Acked!vars
<1> QED
  BY <1>1, <1>2, InvariantHolds, PTL DEF Spec, ImplementsAckedLog, Acked!Spec

\* What callers were told of is at every moment a log the verifier accepts:
\* no crash or recovery hands out a checkpoint of a tape that does not replay.
THEOREM LogStaysVerified == Spec => []Acked!SettledVerifies
<1>1. Verifies(settled) => Acked!SettledVerifies
  BY DEF Verifies, Admits, OwnsTarget, OrdersOn, Acked!SettledVerifies,
         Acked!Verifies, Acked!Admits, Acked!OwnsTarget, Acked!OrdersOn
<1>2. IInv => Acked!SettledVerifies
  BY <1>1 DEF IInv, SettledInv
<1> QED
  BY <1>2, InvariantHolds, PTL

\* No step, whether of a handle, a crash or a recovery, takes back or rewrites
\* an entry of the log callers were told of.
THEOREM NothingTakenBack == Spec => Acked!NeverTakenBack
<1>1. ASSUME IInv, [Next]_vars
      PROVE  [IsPrefix(settled, settled')]_<<settled, tried>>
  <2>1. settled \in Seq(Entry) /\ tried \subseteq Entry
    BY <1>1 DEF IInv, TypeOK
  <2>2. CASE settled' = settled
    <3>1. SubSeq(settled, 1, Len(settled)) = settled /\ Len(settled) \in Nat
      BY <2>1, SubSeqFull
    <3> QED
      BY <2>1, <2>2, <3>1 DEF IsPrefix
  <2>3. CASE \E entry \in Entry : settled' = Append(settled, entry)
    BY <2>1, <2>3, PrefixFacts
  <2>4. [Acked!Next]_<<settled, tried>>
    BY <1>1, StepImplements
  <2>5. settled' = settled \/ \E entry \in Entry : settled' = Append(settled, entry)
    BY <2>4 DEF Acked!Next, Acked!Try, Acked!Settle, Acked!GiveUp, Acked!Entry, Entry
  <2> QED
    BY <2>2, <2>3, <2>5
<1>2. IInv /\ [Next]_vars => [Acked!IsPrefix(settled, settled')]_(Acked!vars)
  BY <1>1 DEF Acked!vars, Acked!IsPrefix, IsPrefix
<1> QED
  BY <1>2, InvariantHolds, PTL DEF Spec, Acked!NeverTakenBack

================================================================================
