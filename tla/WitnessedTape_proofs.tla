-------------------------- MODULE WitnessedTape_proofs --------------------------
(***************************************************************************)
(* Proofs about WitnessedTape: for every set of collators, any number of   *)
(* lost, late and refused calls and crashes, and every index bound.        *)
(***************************************************************************)
EXTENDS WitnessedTape, TLAPS, SequenceTheorems

(* Logs and their prefixes, and the verifier's admission rule. *)

\* An appended entry changes nothing before it.
LEMMA AppendFacts ==
    ASSUME NEW S, NEW list \in Seq(S), NEW e \in S
    PROVE  /\ Append(list, e) \in Seq(S)
           /\ Len(Append(list, e)) = Len(list) + 1
           /\ Append(list, e) # list
           /\ Append(list, e)[Len(list) + 1] = e
           /\ \A i \in 1 .. Len(list) : Append(list, e)[i] = list[i]
           /\ \A n \in 0 .. Len(list) :
                 SubSeq(Append(list, e), 1, n) = SubSeq(list, 1, n)
           /\ SubSeq(list, 1, Len(list)) = list
<1> DEFINE a == Append(list, e)
<1>1. /\ a \in Seq(S)
      /\ Len(a) = Len(list) + 1
      /\ a[Len(list) + 1] = e
      /\ \A i \in 1 .. Len(list) : a[i] = list[i]
      /\ Len(list) \in Nat
  OBVIOUS
<1>2. a # list
  BY <1>1
<1>3. ASSUME NEW n \in 0 .. Len(list)
      PROVE  SubSeq(a, 1, n) = SubSeq(list, 1, n)
  <2>1. /\ SubSeq(a, 1, n) = [i \in 1 .. n |-> a[i]]
        /\ SubSeq(list, 1, n) = [i \in 1 .. n |-> list[i]]
    BY <1>1
  <2>2. \A i \in 1 .. n : a[i] = list[i]
    BY <1>1
  <2> QED
    BY <2>1, <2>2
<1>4. SubSeq(list, 1, Len(list)) = list
  BY SubSeqFull
<1> QED
  BY <1>1, <1>2, <1>3, <1>4

\* A log is a prefix of itself and of what is appended to it, and never the
\* other way round.
LEMMA PrefixFacts ==
    ASSUME NEW S, NEW list \in Seq(S), NEW e \in S
    PROVE  /\ IsPrefix(list, list)
           /\ IsPrefix(list, Append(list, e))
           /\ ~IsPrefix(Append(list, e), list)
<1>1. /\ Len(Append(list, e)) = Len(list) + 1
      /\ Len(list) \in Nat
      /\ SubSeq(Append(list, e), 1, Len(list)) = SubSeq(list, 1, Len(list))
  BY AppendFacts
<1> QED
  BY <1>1 DEF IsPrefix

\* What the verifier admits keeps the log verifiable.
LEMMA VerifiesAppend ==
    ASSUME NEW list \in Seq(Entry), NEW e \in Entry,
           Verifies(list), Admits(list, [prev |-> list, entry |-> e])
    PROVE  Verifies(Append(list, e))
<1>1. PICK a \in Seq(Entry) : a = Append(list, e)
  BY AppendFacts
<1>2. /\ DOMAIN a = 1 .. Len(list) + 1
      /\ DOMAIN list = 1 .. Len(list)
      /\ Len(list) \in Nat
      /\ a[Len(list) + 1] = e
      /\ \A k \in 1 .. Len(list) : a[k] = list[k]
      /\ \A n \in 0 .. Len(list) : SubSeq(a, 1, n) = SubSeq(list, 1, n)
      /\ SubSeq(list, 1, Len(list)) = list
  BY <1>1, AppendFacts
<1>3. ASSUME NEW i \in DOMAIN a
      PROVE  Admits(SubSeq(a, 1, i - 1),
                    [prev |-> SubSeq(a, 1, i - 1), entry |-> a[i]])
  <2>1. CASE i = Len(list) + 1
    <3>1. SubSeq(a, 1, i - 1) = list /\ a[i] = e
      BY <1>2, <2>1
    <3> QED
      BY <3>1
  <2>2. CASE i \in 1 .. Len(list)
    <3>1. SubSeq(a, 1, i - 1) = SubSeq(list, 1, i - 1) /\ a[i] = list[i]
      BY <1>2, <2>2
    <3>2. Admits(SubSeq(list, 1, i - 1),
                 [prev |-> SubSeq(list, 1, i - 1), entry |-> list[i]])
      BY <1>2, <2>2 DEF Verifies
    <3> QED
      BY <3>1, <3>2
  <2> QED
    BY <1>2, <1>3, <2>1, <2>2
<1> QED
  BY <1>1, <1>3 DEF Verifies

\* A verified log fits the owner index.
LEMMA VerifiesBound ==
    ASSUME NEW list \in Seq(Entry), Verifies(list)
    PROVE  Len(list) <= MaxEntries
<1>1. Len(list) \in Nat /\ MaxEntries \in Nat
  BY ReplayAssumption
<1>2. CASE Len(list) = 0
  BY <1>1, <1>2
<1>3. CASE Len(list) > 0
  <2>1. Len(list) \in DOMAIN list
    BY <1>1, <1>3
  <2>2. Len(SubSeq(list, 1, Len(list) - 1)) < MaxEntries
    <3>1. PICK k \in DOMAIN list : k = Len(list)
      BY <2>1
    <3>2. Len(SubSeq(list, 1, k - 1)) < MaxEntries
      BY DEF Verifies, Admits
    <3> QED
      BY <3>1, <3>2
  <2>3. Len(SubSeq(list, 1, Len(list) - 1)) = Len(list) - 1
    <3>1. PICK n \in Nat : n = Len(list) - 1
      BY <1>1, <1>3
    <3>2. \A i \in 1 .. n : list[i] \in Entry
      BY <1>1, <3>1
    <3>3. Len(SubSeq(list, 1, n)) = n
      BY <3>1, <3>2, SubSeqProperties
    <3> QED
      BY <3>1, <3>3
  <2> QED
    BY <1>1, <2>2, <2>3
<1> QED
  BY <1>1, <1>2, <1>3

\* A prefix of a log is the log's first entries.
LEMMA PrefixMeans ==
    ASSUME NEW S, NEW a \in Seq(S), NEW b \in Seq(S)
    PROVE  IsPrefix(a, b) <=> /\ Len(a) <= Len(b)
                              /\ \A i \in 1 .. Len(a) : a[i] = b[i]
<1>1. Len(a) \in Nat /\ Len(b) \in Nat
  OBVIOUS
<1>2. ASSUME Len(a) <= Len(b)
      PROVE  SubSeq(a, 1, Len(a)) = SubSeq(b, 1, Len(a))
                <=> \A i \in 1 .. Len(a) : a[i] = b[i]
  <2>1. /\ SubSeq(a, 1, Len(a)) = [i \in 1 .. Len(a) |-> a[i]]
        /\ SubSeq(b, 1, Len(a)) = [i \in 1 .. Len(a) |-> b[i]]
    BY <1>1, <1>2
  <2> QED
    BY <2>1
<1> QED
  BY <1>1, <1>2 DEF IsPrefix

\* A log is a prefix of itself.
LEMMA PrefixReflexive ==
    ASSUME NEW S, NEW a \in Seq(S)
    PROVE  IsPrefix(a, a)
<1>1. Len(a) \in Nat
  OBVIOUS
<1> QED
  BY <1>1 DEF IsPrefix

\* A prefix of a prefix is a prefix.
LEMMA PrefixTransitive ==
    ASSUME NEW S, NEW a \in Seq(S), NEW b \in Seq(S), NEW c \in Seq(S),
           IsPrefix(a, b), IsPrefix(b, c)
    PROVE  IsPrefix(a, c)
<1>1. /\ Len(a) <= Len(b) /\ Len(b) <= Len(c)
      /\ \A i \in 1 .. Len(a) : a[i] = b[i]
      /\ \A i \in 1 .. Len(b) : b[i] = c[i]
      /\ Len(a) \in Nat /\ Len(b) \in Nat /\ Len(c) \in Nat
  BY PrefixMeans
<1> QED
  BY <1>1, PrefixMeans

\* A prefix as long as the log is the log.
LEMMA PrefixSame ==
    ASSUME NEW S, NEW a \in Seq(S), NEW b \in Seq(S),
           IsPrefix(a, b), Len(b) <= Len(a)
    PROVE  a = b
<1>1. /\ Len(a) <= Len(b)
      /\ \A i \in 1 .. Len(a) : a[i] = b[i]
      /\ Len(a) \in Nat /\ Len(b) \in Nat
  BY PrefixMeans
<1> QED
  BY <1>1, SeqEqual

\* The empty log is a prefix of every log.
LEMMA PrefixEmpty ==
    ASSUME NEW S, NEW a \in Seq(S)
    PROVE  IsPrefix(<<>>, a)
<1>1. PICK empty \in Seq(S) : empty = <<>> /\ Len(empty) = 0
  BY EmptySeq
<1>2. Len(a) \in Nat
  OBVIOUS
<1>3. Len(empty) <= Len(a) /\ \A i \in 1 .. Len(empty) : empty[i] = a[i]
  BY <1>1, <1>2
<1> QED
  BY <1>1, <1>3, PrefixMeans

----------------------------------------------------------------------------
(* The inductive invariant. *)

\* The witness's own log replays.
WitnessInv == Verifies(witness)

\* A request somebody waits for is the one its caller planned, unanswered.
NetInv ==
    \A req \in net :
        req.live =>
            /\ pc[req.from] = "cas"
            /\ reply[req.from] = NoReply
            /\ req.expected = log[req.from]
            /\ req.entry = pending[req.from]

\* What was acknowledged is on the witness.
AckedInv(c) == IsPrefix(acked[c], witness)

\* An answer to an open names a log the witness held since the open began.
AskingInv(c) ==
    pc[c] = "asking" =>
        /\ IsPrefix(atAsk[c], witness)
        /\ reply[c] # Refused
        /\ reply[c] # NoReply =>
              IsPrefix(atAsk[c], reply[c]) /\ IsPrefix(reply[c], witness)

\* An open handle's local log is on the witness and goes on from where the
\* witness was when the open began.
OpenInv(c) ==
    pc[c] \in {"open", "cas", "local"} =>
        IsPrefix(log[c], witness) /\ IsPrefix(atAsk[c], log[c])

\* An append is about an entry the local log admits.
AppendingInv(c) ==
    pc[c] \in {"cas", "local"} =>
        pending[c] \in Entry /\ Admits(log[c], Line(log[c], pending[c]))

\* The receipt names the planned log, and the witness has it before the local
\* tape is touched.
StoredInv(c) ==
    \/ pc[c] = "cas" /\ reply[c] \notin {NoReply, Refused}
    \/ pc[c] = "local"
    => IsPrefix(Append(log[c], pending[c]), witness)

\* Only a call under way has an answer at hand.
IdleInv(c) == pc[c] \notin {"asking", "cas"} => reply[c] = NoReply

OneHandleInv(c) ==
    /\ AckedInv(c) /\ AskingInv(c) /\ OpenInv(c)
    /\ AppendingInv(c) /\ StoredInv(c) /\ IdleInv(c)

IInv ==
    /\ TypeOK
    /\ WitnessInv
    /\ NetInv
    /\ \A c \in Collators : OneHandleInv(c)

----------------------------------------------------------------------------
(* What the witness does. *)

\* Whatever the witness has, it still has when it stored one entry more.
LEMMA WitnessGrows ==
    ASSUME NEW held \in Seq(Entry), NEW entry \in Entry
    PROVE  /\ Append(held, entry) \in Seq(Entry)
           /\ \A old \in Seq(Entry) :
                 IsPrefix(old, held) => IsPrefix(old, Append(held, entry))
<1>1. Append(held, entry) \in Seq(Entry) /\ IsPrefix(held, Append(held, entry))
  BY AppendFacts, PrefixFacts
<1> QED
  BY <1>1, PrefixTransitive

\* What every part of the invariant says of one handle, and of one request.
LEMMA HandleFacts ==
    ASSUME IInv, NEW c \in Collators
    PROVE  /\ log[c] \in Seq(Entry)
           /\ acked[c] \in Seq(Entry)
           /\ atAsk[c] \in Seq(Entry)
           /\ reply[c] \in Seq(Entry) \cup {NoReply, Refused}
           /\ pending[c] \in Entry => Append(log[c], pending[c]) \in Seq(Entry)
<1>1. log[c] \in Seq(Entry)
  BY DEF IInv, TypeOK
<1> QED
  BY <1>1, AppendFacts DEF IInv, TypeOK

\* A run of the witness answers its caller, if there still is one, and adds at
\* most the requested entry.
LEMMA AnsweredStep ==
    ASSUME IInv, NEW req \in net, NEW answer, Answered(req, answer),
           \/ witness' = witness
           \/ Swaps(req) /\ witness' = Append(witness, req.entry),
           \/ answer = Refused
           \/ answer = witness' /\ Swaps(req) /\ witness' = Append(witness, req.entry),
           UNCHANGED <<log, pc, blocked, pending, acked, atAsk>>,
           faults' \in 0 .. MaxFaults
    PROVE  IInv'
<1>1. /\ req \in Request /\ req.from \in Collators /\ req.entry \in Entry
      /\ witness \in Seq(Entry)
      /\ Verifies(witness)
  BY DEF IInv, TypeOK, WitnessInv, Request
<1>2. /\ witness' \in Seq(Entry)
      /\ Verifies(witness')
      /\ \A old \in Seq(Entry) : IsPrefix(old, witness) => IsPrefix(old, witness')
  <2>1. CASE Swaps(req) /\ witness' = Append(witness, req.entry)
    <3>1. Admits(witness, [prev |-> witness, entry |-> req.entry])
      BY <2>1 DEF Swaps, Line
    <3> QED
      BY <1>1, <2>1, <3>1, VerifiesAppend, WitnessGrows
  <2> QED
    BY <1>1, <2>1
<1>3. Len(witness') <= MaxEntries
  BY <1>2, VerifiesBound
<1>4. answer \in Seq(Entry) \cup {Refused}
  BY <1>2
<1>5. /\ net' = net \ {req}
      /\ \A c \in Collators :
            reply'[c] = IF req.live /\ c = req.from THEN answer ELSE reply[c]
      /\ reply' \in [Collators -> Seq(Entry) \cup {NoReply, Refused}]
  BY <1>1, <1>4 DEF Answered, IInv, TypeOK
<1>6. req.live => /\ pc[req.from] = "cas"
                  /\ reply[req.from] = NoReply
                  /\ req.expected = log[req.from]
                  /\ req.entry = pending[req.from]
  BY DEF IInv, NetInv
<1>7. TypeOK'
  BY <1>2, <1>3, <1>5 DEF IInv, TypeOK
<1>8. WitnessInv'
  BY <1>2 DEF WitnessInv
<1>9. NetInv'
  <2> SUFFICES ASSUME NEW other \in net', other.live
               PROVE  /\ pc[other.from] = "cas"
                      /\ reply'[other.from] = NoReply
                      /\ other.expected = log[other.from]
                      /\ other.entry = pending[other.from]
    BY DEF NetInv
  <2>1. /\ other \in net /\ other # req
        /\ other \in Request /\ other.from \in Collators
    BY <1>5 DEF IInv, TypeOK, Request
  <2>2. /\ pc[other.from] = "cas"
        /\ reply[other.from] = NoReply
        /\ other.expected = log[other.from]
        /\ other.entry = pending[other.from]
    BY <2>1 DEF IInv, NetInv
  <2>3. ~(req.live /\ req.from = other.from)
    BY <1>1, <1>6, <2>1, <2>2 DEF Request
  <2> QED
    BY <1>5, <2>1, <2>2, <2>3
<1>10. ASSUME NEW c \in Collators
       PROVE  OneHandleInv(c)'
  <2>1. /\ OneHandleInv(c)
        /\ log[c] \in Seq(Entry) /\ acked[c] \in Seq(Entry) /\ atAsk[c] \in Seq(Entry)
        /\ reply[c] \in Seq(Entry) \cup {NoReply, Refused}
        /\ pending[c] \in Entry => Append(log[c], pending[c]) \in Seq(Entry)
    BY HandleFacts DEF IInv
  <2>2. pc[c] # "cas" => reply'[c] = reply[c]
    BY <1>5, <1>6
  <2>3. AckedInv(c)' /\ OpenInv(c)' /\ AppendingInv(c)'
    BY <1>2, <2>1 DEF OneHandleInv, AckedInv, OpenInv, AppendingInv
  <2>4. AskingInv(c)'
    BY <1>2, <2>1, <2>2 DEF OneHandleInv, AskingInv
  <2>5. StoredInv(c)'
    <3>1. CASE req.live /\ c = req.from /\ reply'[c] \notin {NoReply, Refused}
      <4>1. /\ witness' = Append(witness, req.entry)
            /\ witness = req.expected
        BY <1>5, <3>1 DEF Swaps
      <4>2. witness' = Append(log[c], pending[c])
        BY <1>6, <3>1, <4>1
      <4>3. IsPrefix(witness', witness')
        BY <1>2, PrefixReflexive
      <4> QED
        BY <4>2, <4>3 DEF StoredInv
    <3>2. CASE req.live /\ c = req.from /\ reply'[c] \in {NoReply, Refused}
      BY <1>6, <3>2 DEF StoredInv
    <3>3. CASE ~(req.live /\ c = req.from)
      <4>1. reply'[c] = reply[c]
        BY <1>5, <3>3
      <4> QED
        BY <1>2, <2>1, <4>1 DEF OneHandleInv, StoredInv, AppendingInv
    <3> QED
      BY <3>1, <3>2, <3>3
  <2>6. IdleInv(c)'
    BY <2>1, <2>2 DEF OneHandleInv, IdleInv
  <2> QED
    BY <2>3, <2>4, <2>5, <2>6 DEF OneHandleInv
<1> QED
  BY <1>7, <1>8, <1>9, <1>10 DEF IInv

LEMMA WitnessCasStep ==
    ASSUME IInv, NEW req \in net, WitnessCas(req)
    PROVE  IInv'
<1>1. faults' \in 0 .. MaxFaults
  BY DEF WitnessCas, IInv, TypeOK
<1>2. CASE Swaps(req)
  BY <1>1, <1>2, AnsweredStep DEF WitnessCas
<1>3. CASE ~Swaps(req)
  BY <1>1, <1>3, AnsweredStep DEF WitnessCas
<1> QED
  BY <1>2, <1>3

LEMMA WitnessFailsStep ==
    ASSUME IInv, NEW req \in net, WitnessFails(req)
    PROVE  IInv'
<1>1. faults' \in 0 .. MaxFaults
  BY WitnessedAssumption DEF WitnessFails, Fault, IInv, TypeOK
<1>2. \/ witness' = witness
      \/ Swaps(req) /\ witness' = Append(witness, req.entry)
  BY DEF WitnessFails
<1> QED
  BY <1>1, <1>2, AnsweredStep DEF WitnessFails

----------------------------------------------------------------------------
(* What a collator does leaves the witness and every other handle alone. *)

\* So only its own handle, and the requests it sent, have to be looked at.
LEMMA OwnHandle ==
    ASSUME IInv, NEW c \in Collators,
           TypeOK', OneHandleInv(c)', UNCHANGED witness,
           \A d \in Collators \ {c} :
               /\ log'[d] = log[d] /\ pc'[d] = pc[d]
               /\ pending'[d] = pending[d] /\ reply'[d] = reply[d]
               /\ acked'[d] = acked[d] /\ atAsk'[d] = atAsk[d],
           \A req \in net' :
               req.live =>
                   \/ req \in net /\ req.from # c
                   \/ /\ req.from = c
                      /\ pc'[c] = "cas"
                      /\ reply'[c] = NoReply
                      /\ req.expected = log'[c]
                      /\ req.entry = pending'[c]
    PROVE  IInv'
<1>1. WitnessInv'
  BY DEF IInv, WitnessInv
<1>2. NetInv'
  <2>1. \A req \in net : req.from \in Collators
    BY DEF IInv, TypeOK, Request
  <2> QED
    BY <2>1 DEF IInv, NetInv
<1>3. ASSUME NEW d \in Collators \ {c}
      PROVE  OneHandleInv(d)'
  BY <1>3 DEF IInv, OneHandleInv, AckedInv, AskingInv, OpenInv, AppendingInv,
              StoredInv, IdleInv
<1> QED
  BY <1>1, <1>2, <1>3 DEF IInv

\* The requests of a collator whose call is not at the witness.
LEMMA NoRequests ==
    ASSUME IInv, NEW c \in Collators, \/ pc[c] # "cas" \/ reply[c] # NoReply
    PROVE  \A req \in net : req.live => req.from # c
BY DEF IInv, NetInv

LEMMA OpenStartStep ==
    ASSUME IInv, NEW c \in Collators, OpenStart(c)
    PROVE  IInv'
<1>1. TypeOK'
  BY DEF OpenStart, IInv, TypeOK
<1>2. pc'[c] = "asking" /\ atAsk'[c] = witness /\ reply'[c] = NoReply
  BY DEF OpenStart, IInv, TypeOK, OneHandleInv, IdleInv
<1>3. IsPrefix(witness, witness)
  BY PrefixReflexive DEF IInv, TypeOK
<1>4. OneHandleInv(c)'
  BY <1>2, <1>3, WitnessedAssumption DEF OpenStart, IInv, OneHandleInv, AckedInv,
     AskingInv, OpenInv, AppendingInv, StoredInv, IdleInv
<1> QED
  BY <1>1, <1>4, NoRequests, OwnHandle DEF OpenStart, IInv, TypeOK

LEMMA AttestStep ==
    ASSUME IInv, NEW c \in Collators, Attest(c)
    PROVE  IInv'
<1>1. TypeOK'
  BY DEF Attest, IInv, TypeOK
<1>2. pc[c] = "asking" /\ reply'[c] = witness
  BY DEF Attest, IInv, TypeOK
<1>3. IsPrefix(witness, witness) /\ witness \notin {NoReply, Refused}
  BY PrefixReflexive, WitnessedAssumption DEF IInv, TypeOK
<1>4. OneHandleInv(c)'
  BY <1>2, <1>3 DEF Attest, IInv, OneHandleInv, AckedInv,
     AskingInv, OpenInv, AppendingInv, StoredInv, IdleInv
<1> QED
  BY <1>1, <1>2, <1>4, NoRequests, OwnHandle DEF Attest, IInv, TypeOK

LEMMA AskFailsStep ==
    ASSUME IInv, NEW c \in Collators, AskFails(c)
    PROVE  IInv'
<1>1. TypeOK'
  BY WitnessedAssumption DEF AskFails, Fault, IInv, TypeOK
<1>2. pc[c] = "asking" /\ pc'[c] = "closed" /\ reply'[c] = NoReply
  BY DEF AskFails, IInv, TypeOK
<1>3. OneHandleInv(c)'
  BY <1>2 DEF AskFails, IInv, OneHandleInv, AckedInv,
     AskingInv, OpenInv, AppendingInv, StoredInv, IdleInv
<1> QED
  BY <1>1, <1>2, <1>3, NoRequests, OwnHandle DEF AskFails, IInv, TypeOK

\* The answer names the local tape, which is therefore on the witness and no
\* older than the open.
LEMMA OpenLocalStep ==
    ASSUME IInv, NEW c \in Collators, OpenLocal(c)
    PROVE  IInv'
<1>1. TypeOK'
  <2>1. /\ pc' \in [Collators -> {"closed", "asking", "open", "cas", "local"}]
        /\ blocked' \in [Collators -> BOOLEAN]
        /\ acked' \in [Collators -> Seq(Entry)]
        /\ atAsk' \in [Collators -> Seq(Entry)]
    <3>1. /\ log[c] \in Seq(Entry) /\ <<>> \in Seq(Entry)
          /\ pc \in [Collators -> {"closed", "asking", "open", "cas", "local"}]
          /\ blocked \in [Collators -> BOOLEAN]
          /\ acked \in [Collators -> Seq(Entry)]
          /\ atAsk \in [Collators -> Seq(Entry)]
      BY EmptySeq DEF IInv, TypeOK
    <3>2. CASE MatchesReceipt(reply[c], log[c])
      BY <3>1, <3>2 DEF OpenLocal
    <3>3. CASE ~MatchesReceipt(reply[c], log[c])
      BY <3>1, <3>3 DEF OpenLocal
    <3> QED
      BY <3>2, <3>3
  <2> QED
    BY <2>1 DEF OpenLocal, IInv, TypeOK
<1>2. /\ pc[c] = "asking" /\ reply'[c] = NoReply
      /\ reply[c] \in Seq(Entry)
      /\ IsPrefix(atAsk[c], reply[c])
      /\ IsPrefix(reply[c], witness)
      /\ log[c] \in Seq(Entry)
  BY DEF OpenLocal, IInv, TypeOK, OneHandleInv, AskingInv
<1>3. CASE MatchesReceipt(reply[c], log[c])
  <2>1. /\ pc'[c] = "open" /\ acked'[c] = log[c] /\ atAsk'[c] = atAsk[c]
        /\ log'[c] = log[c] /\ UNCHANGED witness
    BY <1>3 DEF OpenLocal, IInv, TypeOK
  <2>2. log[c] = reply[c]
    BY <1>2, <1>3, PrefixSame DEF MatchesReceipt
  <2>3. OneHandleInv(c)'
    BY <1>2, <2>1, <2>2 DEF OneHandleInv, AckedInv,
     AskingInv, OpenInv, AppendingInv, StoredInv, IdleInv
  <2> QED
    BY <1>1, <1>2, <1>3, <2>3, NoRequests, OwnHandle DEF OpenLocal, IInv, TypeOK
<1>4. CASE ~MatchesReceipt(reply[c], log[c])
  <2>1. /\ pc'[c] = "closed" /\ acked'[c] = acked[c] /\ UNCHANGED witness
    BY <1>4 DEF OpenLocal, IInv, TypeOK
  <2>2. OneHandleInv(c)'
    BY <1>2, <2>1 DEF IInv, OneHandleInv, AckedInv,
     AskingInv, OpenInv, AppendingInv, StoredInv, IdleInv
  <2> QED
    BY <1>1, <1>2, <1>4, <2>2, NoRequests, OwnHandle DEF OpenLocal, IInv, TypeOK
<1> QED
  BY <1>3, <1>4

LEMMA AppendStartStep ==
    ASSUME IInv, NEW c \in Collators, NEW entry \in Entry, AppendStart(c, entry)
    PROVE  IInv'
<1> DEFINE sent == [from |-> c, expected |-> log[c], entry |-> entry, live |-> TRUE]
<1>1. sent \in Request /\ net' = net \cup {sent}
  BY DEF AppendStart, IInv, TypeOK, Request
<1>2. TypeOK'
  BY <1>1 DEF AppendStart, IInv, TypeOK
<1>3. /\ pc[c] = "open" /\ pc'[c] = "cas" /\ reply'[c] = NoReply
      /\ pending'[c] = entry /\ log'[c] = log[c]
      /\ Admits(log[c], Line(log[c], entry))
  BY DEF AppendStart, IInv, TypeOK, OneHandleInv, IdleInv
<1>4. OneHandleInv(c)'
  BY <1>3 DEF AppendStart, IInv, OneHandleInv, AckedInv,
     AskingInv, OpenInv, AppendingInv, StoredInv, IdleInv
<1>5. \A req \in net : req.live => req.from # c
  BY <1>3, NoRequests
<1>6. \A req \in net' :
          req.live =>
              \/ req \in net /\ req.from # c
              \/ /\ req.from = c /\ pc'[c] = "cas" /\ reply'[c] = NoReply
                 /\ req.expected = log'[c] /\ req.entry = pending'[c]
  BY <1>1, <1>3, <1>5
<1> QED
  BY <1>2, <1>4, <1>6, OwnHandle DEF AppendStart, IInv, TypeOK

\* Whether the client's request ends with its call or goes on without it, no
\* reply can reach the client any more.
LEMMA LeftBehind ==
    ASSUME IInv, NEW c \in Collators, net' \in {Dropped(c), StillOnItsWay(c)}
    PROVE  /\ net' \subseteq Request
           /\ \A req \in net' : req.live => req \in net /\ req.from # c
<1>1. net \subseteq Request
  BY DEF IInv, TypeOK
<1>2. CASE net' = Dropped(c)
  BY <1>1, <1>2 DEF Dropped
<1>3. CASE net' = StillOnItsWay(c)
  BY <1>1, <1>3 DEF StillOnItsWay, Request
<1> QED
  BY <1>2, <1>3

LEMMA TimesOutStep ==
    ASSUME IInv, NEW c \in Collators, TimesOut(c)
    PROVE  IInv'
<1>1. net' \in {Dropped(c), StillOnItsWay(c)} /\ faults' \in 0 .. MaxFaults
  BY WitnessedAssumption DEF TimesOut, GivesUp, Fault, IInv, TypeOK
<1>2. TypeOK'
  BY <1>1, LeftBehind DEF TimesOut, Block, IInv, TypeOK
<1>3. pc[c] = "cas" /\ pc'[c] = "open" /\ reply'[c] = NoReply
  BY DEF TimesOut, Block, IInv, TypeOK
<1>4. OneHandleInv(c)'
  BY <1>3 DEF TimesOut, IInv, OneHandleInv, AckedInv,
     AskingInv, OpenInv, AppendingInv, StoredInv, IdleInv
<1> QED
  BY <1>1, <1>2, <1>4, LeftBehind, OwnHandle DEF TimesOut, Block, IInv, TypeOK

LEMMA CasReplyStep ==
    ASSUME IInv, NEW c \in Collators, CasReply(c)
    PROVE  IInv'
<1>1. TypeOK'
  BY DEF CasReply, Block, IInv, TypeOK
<1>2. /\ pc[c] = "cas" /\ reply[c] # NoReply /\ reply'[c] = NoReply
      /\ log[c] \in Seq(Entry) /\ pending[c] \in Entry
  BY DEF CasReply, IInv, TypeOK, OneHandleInv, AppendingInv
<1>3. CASE reply[c] = Append(log[c], pending[c])
  <2>1. pc'[c] = "local" /\ pending'[c] = pending[c]
    BY <1>3 DEF CasReply, IInv, TypeOK
  <2>2. reply[c] \notin {NoReply, Refused}
    <3>1. PICK planned \in Seq(Entry) : planned = Append(log[c], pending[c])
      BY <1>2, AppendFacts
    <3> QED
      BY <1>3, <3>1, WitnessedAssumption
  <2>3. OneHandleInv(c)'
    BY <1>2, <2>1, <2>2 DEF CasReply, IInv, OneHandleInv, AckedInv,
     AskingInv, OpenInv, AppendingInv, StoredInv, IdleInv
  <2> QED
    BY <1>1, <1>2, <1>3, <2>3, NoRequests, OwnHandle DEF CasReply, IInv, TypeOK
<1>4. CASE reply[c] # Append(log[c], pending[c])
  <2>1. pc'[c] = "open"
    BY <1>4 DEF CasReply, Block, IInv, TypeOK
  <2>2. OneHandleInv(c)'
    BY <1>2, <2>1 DEF CasReply, IInv, OneHandleInv, AckedInv,
     AskingInv, OpenInv, AppendingInv, StoredInv, IdleInv
  <2> QED
    BY <1>1, <1>2, <1>4, <2>2, NoRequests, OwnHandle DEF CasReply, Block, IInv, TypeOK
<1> QED
  BY <1>3, <1>4

\* What a local append can leave on disk is on the witness already.
LEMMA InDoubtFacts ==
    ASSUME IInv, NEW c \in Collators, pc[c] = "local", NEW left \in InDoubt(c)
    PROVE  /\ left \in Seq(Entry)
           /\ IsPrefix(left, witness)
           /\ IsPrefix(atAsk[c], left)
<1>1. /\ log[c] \in Seq(Entry) /\ atAsk[c] \in Seq(Entry) /\ pending[c] \in Entry
      /\ IsPrefix(log[c], witness) /\ IsPrefix(atAsk[c], log[c])
      /\ IsPrefix(Append(log[c], pending[c]), witness)
  BY DEF IInv, TypeOK, OneHandleInv, OpenInv, AppendingInv, StoredInv
<1>2. CASE left = log[c]
  BY <1>1, <1>2
<1>3. CASE left = Append(log[c], pending[c])
  BY <1>1, <1>3, WitnessGrows
<1> QED
  BY <1>2, <1>3 DEF InDoubt

LEMMA LocalAppendStep ==
    ASSUME IInv, NEW c \in Collators, LocalAppend(c)
    PROVE  IInv'
<1> DEFINE left == Append(log[c], pending[c])
<1>1. /\ pc[c] = "local" /\ reply[c] = NoReply
      /\ left \in InDoubt(c)
  BY WitnessedAssumption DEF LocalAppend, IInv, OneHandleInv, IdleInv, AppendingInv, InDoubt
<1>2. left \in Seq(Entry) /\ IsPrefix(left, witness) /\ IsPrefix(atAsk[c], left)
  BY <1>1, InDoubtFacts
<1>3. /\ log' = [log EXCEPT ![c] = left]
      /\ acked' = [acked EXCEPT ![c] = left]
  BY DEF LocalAppend, IInv, TypeOK
<1>4. TypeOK'
  BY <1>2, <1>3 DEF LocalAppend, IInv, TypeOK
<1>5. /\ pc'[c] = "open" /\ reply'[c] = NoReply
      /\ log'[c] = left /\ acked'[c] = left
      /\ UNCHANGED witness /\ atAsk'[c] = atAsk[c]
  BY <1>1, <1>3 DEF LocalAppend, IInv, TypeOK
<1>6. OneHandleInv(c)'
  BY <1>2, <1>5 DEF OneHandleInv, AckedInv,
     AskingInv, OpenInv, AppendingInv, StoredInv, IdleInv
<1> QED
  BY <1>1, <1>3, <1>4, <1>6, NoRequests, OwnHandle DEF LocalAppend, IInv, TypeOK

LEMMA LocalAppendFailsStep ==
    ASSUME IInv, NEW c \in Collators, LocalAppendFails(c)
    PROVE  IInv'
<1>1. PICK left \in InDoubt(c) : log' = [log EXCEPT ![c] = left]
  BY DEF LocalAppendFails
<1>2. left \in Seq(Entry) /\ IsPrefix(left, witness) /\ IsPrefix(atAsk[c], left)
  BY InDoubtFacts DEF LocalAppendFails
<1>3. TypeOK'
  BY <1>1, <1>2, WitnessedAssumption DEF LocalAppendFails, Block, Fault, IInv, TypeOK
<1>4. /\ pc[c] = "local" /\ pc'[c] = "open" /\ reply[c] = NoReply /\ reply'[c] = NoReply
      /\ log'[c] = left /\ acked'[c] = acked[c]
      /\ UNCHANGED witness /\ atAsk'[c] = atAsk[c]
  BY <1>1 DEF LocalAppendFails, Block, IInv, TypeOK, OneHandleInv, IdleInv
<1>5. OneHandleInv(c)'
  <2>1. AckedInv(c)'
    BY <1>4 DEF IInv, OneHandleInv, AckedInv
  <2> QED
    BY <1>2, <1>4, <2>1 DEF OneHandleInv, AckedInv,
     AskingInv, OpenInv, AppendingInv, StoredInv, IdleInv
<1>6. \A d \in Collators \ {c} :
          /\ log'[d] = log[d] /\ pc'[d] = pc[d]
          /\ pending'[d] = pending[d] /\ reply'[d] = reply[d]
          /\ acked'[d] = acked[d] /\ atAsk'[d] = atAsk[d]
  BY <1>1 DEF LocalAppendFails, Block, IInv, TypeOK
<1>7. \A req \in net' : req.live => req \in net /\ req.from # c
  BY <1>4, NoRequests DEF LocalAppendFails
<1> QED
  BY <1>3, <1>4, <1>5, <1>6, <1>7, OwnHandle

\* A handle that is dropped, by its owner or with its process.
LEMMA ClosedStep ==
    ASSUME IInv, NEW c \in Collators, Closed(c), faults' \in 0 .. MaxFaults,
           NEW left \in Seq(Entry), log' = [log EXCEPT ![c] = left]
    PROVE  IInv'
<1>1. net' \in {Dropped(c), StillOnItsWay(c)}
  BY DEF Closed
<1>2. TypeOK'
  BY <1>1, LeftBehind DEF Closed, IInv, TypeOK
<1>3. pc'[c] = "closed" /\ reply'[c] = NoReply /\ acked'[c] = acked[c] /\ UNCHANGED witness
  BY DEF Closed, IInv, TypeOK
<1>4. OneHandleInv(c)'
  BY <1>3 DEF IInv, OneHandleInv, AckedInv,
     AskingInv, OpenInv, AppendingInv, StoredInv, IdleInv
<1> QED
  BY <1>1, <1>2, <1>4, LeftBehind, OwnHandle DEF Closed, IInv, TypeOK

LEMMA CrashStep ==
    ASSUME IInv, NEW c \in Collators, Crash(c)
    PROVE  IInv'
<1>1. faults' \in 0 .. MaxFaults
  BY WitnessedAssumption DEF Crash, Fault, IInv, TypeOK
<1>2. \E left \in Seq(Entry) : log' = [log EXCEPT ![c] = left]
  <2>1. CASE pc[c] = "local"
    BY <2>1, InDoubtFacts DEF Crash
  <2>2. CASE pc[c] # "local"
    BY <2>2 DEF Crash, IInv, TypeOK
  <2> QED
    BY <2>1, <2>2
<1> QED
  BY <1>1, <1>2, ClosedStep DEF Crash

LEMMA DropStep ==
    ASSUME IInv, NEW c \in Collators, Drop(c)
    PROVE  IInv'
<1>1. faults' \in 0 .. MaxFaults /\ log[c] \in Seq(Entry) /\ log' = [log EXCEPT ![c] = log[c]]
  BY DEF Drop, IInv, TypeOK
<1> QED
  BY <1>1, ClosedStep DEF Drop

----------------------------------------------------------------------------
(* The invariant holds, and what follows from it. *)

LEMMA InitEstablishes == Init => IInv
<1> SUFFICES ASSUME Init PROVE IInv
  OBVIOUS
<1>1. /\ <<>> \in Seq(Entry) /\ Len(<<>>) = 0
      /\ \A c \in Collators : log[c] \in Seq(Entry)
  BY EmptySeq, LegacyAssumption DEF Init
<1>2. TypeOK
  BY <1>1, ReplayAssumption, WitnessedAssumption, LegacyAssumption DEF Init, TypeOK
<1>3. WitnessInv
  BY DEF Init, WitnessInv, Verifies
<1>4. NetInv
  BY DEF Init, NetInv
<1>5. \A c \in Collators : OneHandleInv(c)
  BY <1>1, PrefixEmpty DEF Init, OneHandleInv, AckedInv,
     AskingInv, OpenInv, AppendingInv, StoredInv, IdleInv
<1> QED
  BY <1>2, <1>3, <1>4, <1>5 DEF IInv

LEMMA StepPreserves == IInv /\ [Next]_vars => IInv'
<1> SUFFICES ASSUME IInv, [Next]_vars PROVE IInv'
  OBVIOUS
<1>1. CASE UNCHANGED vars
  BY <1>1 DEF vars, IInv, TypeOK, WitnessInv, NetInv, OneHandleInv, AckedInv,
     AskingInv, OpenInv, AppendingInv, StoredInv, IdleInv
<1>2. ASSUME NEW c \in Collators,
             \/ OpenStart(c)
             \/ \E entry \in Entry : AppendStart(c, entry)
             \/ Handle(c) \/ Drop(c)
             \/ AskFails(c) \/ LocalAppendFails(c) \/ Crash(c)
      PROVE  IInv'
  BY <1>2, OpenStartStep, AppendStartStep, AttestStep, OpenLocalStep, CasReplyStep,
     LocalAppendStep, TimesOutStep, DropStep, AskFailsStep, LocalAppendFailsStep,
     CrashStep DEF Handle
<1>3. ASSUME NEW req \in net, WitnessCas(req) \/ WitnessFails(req)
      PROVE  IInv'
  BY <1>3, WitnessCasStep, WitnessFailsStep
<1> QED
  BY <1>1, <1>2, <1>3 DEF Next

LEMMA InvariantHolds == Spec => []IInv
<1> QED
  BY InitEstablishes, StepPreserves, PTL DEF Spec

\* The witness's store and every collator's tape, handle and requests keep
\* their types, and the witness never holds more than its index can: an
\* entry that compare_and_swap stored can always be replayed.
THEOREM TypeCorrect == Spec => []TypeOK
<1>1. IInv => TypeOK
  BY DEF IInv
<1> QED
  BY <1>1, InvariantHolds, PTL

\* The witness's store always replays from its first entry, whichever requests
\* arrive late, twice or after their caller is gone.
THEOREM WitnessReplays == Spec => []WitnessInv
<1>1. IInv => WitnessInv
  BY DEF IInv
<1> QED
  BY <1>1, InvariantHolds, PTL

\* No crash, lost reply or late request makes a collator acknowledge, or write
\* to its own tape, an entry the witness has not stored first.
THEOREM RemoteFirst == Spec => []WitnessFirst
<1>1. IInv => WitnessFirst
  BY DEF IInv, OneHandleInv, AckedInv, OpenInv, StoredInv, WitnessFirst
<1> QED
  BY <1>1, InvariantHolds, PTL

\* A tape that is behind the witness, or on another branch, is never opened.
THEOREM NoStaleHandle == Spec => []OpenNotStale
<1>1. IInv => OpenNotStale
  BY DEF IInv, OneHandleInv, OpenInv, OpenNotStale
<1> QED
  BY <1>1, InvariantHolds, PTL

----------------------------------------------------------------------------
(* One history, that nobody takes back. *)

\* Two logs that go on in the same log are one the beginning of the other.
LEMMA PrefixesOfOne ==
    ASSUME NEW S, NEW a \in Seq(S), NEW b \in Seq(S), NEW c \in Seq(S),
           IsPrefix(a, c), IsPrefix(b, c)
    PROVE  IsPrefix(a, b) \/ IsPrefix(b, a)
<1>1. /\ Len(a) <= Len(c) /\ Len(b) <= Len(c)
      /\ \A i \in 1 .. Len(a) : a[i] = c[i]
      /\ \A i \in 1 .. Len(b) : b[i] = c[i]
      /\ Len(a) \in Nat /\ Len(b) \in Nat /\ Len(c) \in Nat
  BY PrefixMeans
<1>2. CASE Len(a) <= Len(b)
  <2>1. \A i \in 1 .. Len(a) : a[i] = b[i]
    BY <1>1, <1>2
  <2> QED
    BY <1>2, <2>1, PrefixMeans
<1>3. CASE Len(b) <= Len(a)
  <2>1. \A i \in 1 .. Len(b) : b[i] = a[i]
    BY <1>1, <1>3
  <2> QED
    BY <1>3, <2>1, PrefixMeans
<1> QED
  BY <1>1, <1>2, <1>3

\* What two collators told their callers of is one history, of which one may know
\* more than the other: copies of a tape under one identity never fork.
THEOREM OneHistory ==
    Spec => [](\A c, d \in Collators : \/ IsPrefix(acked[c], acked[d])
                                       \/ IsPrefix(acked[d], acked[c]))
<1>1. ASSUME IInv, NEW c \in Collators, NEW d \in Collators
      PROVE  IsPrefix(acked[c], acked[d]) \/ IsPrefix(acked[d], acked[c])
  <2>1. /\ acked[c] \in Seq(Entry) /\ acked[d] \in Seq(Entry)
        /\ witness \in Seq(Entry)
    BY <1>1 DEF IInv, TypeOK
  <2>2. IsPrefix(acked[c], witness) /\ IsPrefix(acked[d], witness)
    BY <1>1 DEF IInv, OneHandleInv, AckedInv
  <2> QED
    BY <2>1, <2>2, PrefixesOfOne
<1>2. IInv => \A c, d \in Collators : \/ IsPrefix(acked[c], acked[d])
                                      \/ IsPrefix(acked[d], acked[c])
  BY <1>1
<1> QED
  BY <1>2, InvariantHolds, PTL

\* The witness's store only grows.
LEMMA WitnessOnlyGrows == IInv /\ [Next]_vars => IsPrefix(witness, witness')
<1> SUFFICES ASSUME IInv, [Next]_vars PROVE IsPrefix(witness, witness')
  OBVIOUS
<1>1. witness \in Seq(Entry)
  BY DEF IInv, TypeOK
<1>2. CASE witness' = witness
  BY <1>1, <1>2, PrefixReflexive
<1>3. ASSUME NEW req \in net, WitnessCas(req) \/ WitnessFails(req)
      PROVE  IsPrefix(witness, witness')
  <2>1. req.entry \in Entry
    BY DEF IInv, TypeOK, Request
  <2>2. witness' = witness \/ witness' = Append(witness, req.entry)
    BY <1>3 DEF WitnessCas, WitnessFails
  <2>3. IsPrefix(witness, Append(witness, req.entry))
    BY <1>1, <2>1, WitnessGrows, PrefixReflexive
  <2> QED
    BY <1>2, <2>2, <2>3
<1>4. CASE ~\E req \in net : WitnessCas(req) \/ WitnessFails(req)
  <2>1. witness' = witness
    BY <1>4 DEF Next, vars, Handle, OpenStart, AppendStart, Attest, OpenLocal, CasReply,
       LocalAppend, TimesOut, Drop, AskFails, LocalAppendFails, Crash, Closed
  <2> QED
    BY <1>2, <2>1
<1> QED
  BY <1>3, <1>4

\* An acknowledged log stays the beginning of the witness's for ever, whatever
\* crashes, is lost or comes late afterwards.
THEOREM AcknowledgedStays ==
    ASSUME NEW c \in Collators, NEW known \in Seq(Entry)
    PROVE  Spec => [](acked[c] = known => []IsPrefix(known, witness))
<1> DEFINE Kept == IsPrefix(known, witness)
<1>1. IInv /\ acked[c] = known => Kept
  BY DEF IInv, OneHandleInv, AckedInv
<1>2. IInv /\ IInv' /\ Kept /\ [Next]_vars => Kept'
  <2> SUFFICES ASSUME IInv, IInv', Kept, [Next]_vars PROVE Kept'
    OBVIOUS
  <2>1. witness \in Seq(Entry) /\ witness' \in Seq(Entry)
    BY DEF IInv, TypeOK
  <2> QED
    BY <2>1, WitnessOnlyGrows, PrefixTransitive
<1> HIDE DEF Kept
<1>3. Spec => [](acked[c] = known => []Kept)
  BY <1>1, <1>2, InvariantHolds, PTL DEF Spec
<1> QED
  BY <1>3 DEF Kept

\* A collator that opens asks a witness that has all it ever acknowledged, and its
\* open handle has that in its tape.
KnowsInv(c) ==
    /\ pc[c] = "asking" => IsPrefix(acked[c], atAsk[c])
    /\ pc[c] \in {"open", "cas", "local"} => IsPrefix(acked[c], log[c])

LEMMA KnowsStep ==
    ASSUME IInv, IInv', NEW c \in Collators, KnowsInv(c), [Next]_vars
    PROVE  KnowsInv(c)' /\ IsPrefix(acked[c], acked'[c])
<1>1. /\ acked[c] \in Seq(Entry) /\ log[c] \in Seq(Entry) /\ atAsk[c] \in Seq(Entry)
      /\ acked'[c] \in Seq(Entry) /\ log'[c] \in Seq(Entry)
  BY DEF IInv, TypeOK
<1>2. IsPrefix(acked[c], acked[c])
  BY <1>1, PrefixReflexive
<1>3. CASE pc'[c] = "closed" /\ acked'[c] = acked[c]
  BY <1>2, <1>3 DEF KnowsInv
<1>4. CASE /\ acked'[c] = acked[c] /\ log'[c] = log[c]
           /\ atAsk'[c] = atAsk[c] /\ pc'[c] = pc[c]
  BY <1>2, <1>4 DEF KnowsInv
<1>5. CASE /\ acked'[c] = acked[c] /\ log'[c] = log[c]
           /\ pc[c] \in {"open", "cas", "local"} /\ pc'[c] \in {"open", "cas", "local"}
  BY <1>2, <1>5 DEF KnowsInv
<1>6. CASE OpenStart(c)
  <2>1. acked'[c] = acked[c] /\ pc'[c] = "asking" /\ atAsk'[c] = witness
    BY <1>6 DEF OpenStart, IInv, TypeOK
  <2>2. IsPrefix(acked[c], witness)
    BY DEF IInv, OneHandleInv, AckedInv
  <2> QED
    BY <1>2, <2>1, <2>2 DEF KnowsInv
<1>7. CASE OpenLocal(c)
  <2>1. pc[c] = "asking"
    BY <1>7 DEF OpenLocal
  <2>2. CASE MatchesReceipt(reply[c], log[c])
    <3>1. /\ acked'[c] = log[c] /\ log'[c] = log[c] /\ pc'[c] = "open"
          /\ atAsk'[c] = atAsk[c]
      BY <1>7, <2>2 DEF OpenLocal, IInv, TypeOK
    <3>2. IsPrefix(acked[c], atAsk[c]) /\ IsPrefix(atAsk[c], log[c])
      BY <2>1, <3>1 DEF KnowsInv, IInv, OneHandleInv, OpenInv
    <3>3. IsPrefix(acked[c], log[c]) /\ IsPrefix(log[c], log[c])
      BY <1>1, <3>2, PrefixTransitive, PrefixReflexive
    <3> QED
      BY <3>1, <3>3 DEF KnowsInv
  <2>3. CASE ~MatchesReceipt(reply[c], log[c])
    <3>1. pc'[c] = "closed" /\ acked'[c] = acked[c]
      BY <1>7, <2>3 DEF OpenLocal, IInv, TypeOK
    <3> QED
      BY <1>3, <3>1
  <2> QED
    BY <2>2, <2>3
<1>8. CASE LocalAppend(c)
  <2>1. /\ pc[c] = "local" /\ pc'[c] = "open"
        /\ log'[c] = Append(log[c], pending[c]) /\ acked'[c] = log'[c]
        /\ pending[c] \in Entry
    BY <1>8 DEF LocalAppend, IInv, TypeOK, OneHandleInv, AppendingInv
  <2>2. IsPrefix(acked[c], log[c]) /\ IsPrefix(log[c], log'[c])
    BY <1>1, <2>1, PrefixFacts DEF KnowsInv
  <2>3. IsPrefix(acked[c], log'[c]) /\ IsPrefix(log'[c], log'[c])
    BY <1>1, <2>2, PrefixTransitive, PrefixReflexive
  <2> QED
    BY <2>1, <2>3 DEF KnowsInv
<1>9. CASE LocalAppendFails(c)
  <2>1. pc[c] = "local" /\ pc'[c] = "open" /\ acked'[c] = acked[c]
    BY <1>9 DEF LocalAppendFails, Block, IInv, TypeOK
  <2>2. PICK left \in InDoubt(c) : log'[c] = left
    BY <1>9 DEF LocalAppendFails, IInv, TypeOK
  <2>3. IsPrefix(acked[c], log[c]) /\ pending[c] \in Entry
    BY <2>1 DEF KnowsInv, IInv, OneHandleInv, AppendingInv
  <2>4. left = log[c] \/ left = Append(log[c], pending[c])
    BY DEF InDoubt
  <2>5. IsPrefix(log[c], log[c]) /\ IsPrefix(log[c], Append(log[c], pending[c]))
    BY <1>1, <2>3, WitnessGrows, PrefixReflexive
  <2>6. IsPrefix(acked[c], log'[c])
    BY <1>1, <2>2, <2>3, <2>4, <2>5, PrefixTransitive
  <2> QED
    BY <1>2, <2>1, <2>6 DEF KnowsInv
<1>10. CASE Crash(c) \/ Drop(c) \/ AskFails(c)
  <2>1. pc'[c] = "closed" /\ acked'[c] = acked[c]
    BY <1>10 DEF Crash, Drop, AskFails, Closed, IInv, TypeOK
  <2> QED
    BY <1>3, <2>1
<1>11. CASE \/ \E entry \in Entry : AppendStart(c, entry)
            \/ CasReply(c) \/ TimesOut(c)
  <2>1. /\ acked'[c] = acked[c] /\ log'[c] = log[c]
        /\ pc[c] \in {"open", "cas"}
    BY <1>11 DEF AppendStart, CasReply, TimesOut
  <2>2. pc'[c] \in {"open", "cas", "local"}
    BY <1>11 DEF AppendStart, CasReply, TimesOut, Block, IInv, TypeOK
  <2> QED
    BY <1>5, <2>1, <2>2
<1>12. CASE Attest(c) \/ UNCHANGED vars
  BY <1>4, <1>12 DEF Attest, vars
<1>13. ASSUME NEW req \in net, WitnessCas(req) \/ WitnessFails(req)
       PROVE  KnowsInv(c)' /\ IsPrefix(acked[c], acked'[c])
  BY <1>4, <1>13 DEF WitnessCas, WitnessFails
<1>14. ASSUME NEW d \in Collators \ {c},
              \/ OpenStart(d)
              \/ \E entry \in Entry : AppendStart(d, entry)
              \/ Handle(d) \/ Drop(d)
              \/ AskFails(d) \/ LocalAppendFails(d) \/ Crash(d)
       PROVE  KnowsInv(c)' /\ IsPrefix(acked[c], acked'[c])
  <2>1. log'[c] = log[c] /\ acked'[c] = acked[c]
    BY <1>14 DEF OpenStart, AppendStart, Handle, Attest, OpenLocal, CasReply,
       LocalAppend, TimesOut, Drop, AskFails, LocalAppendFails, Crash, Closed,
       IInv, TypeOK
  <2>2. pc'[c] = pc[c] /\ atAsk'[c] = atAsk[c]
    BY <1>14 DEF OpenStart, AppendStart, Handle, Attest, OpenLocal, CasReply,
       LocalAppend, TimesOut, Drop, AskFails, LocalAppendFails, Crash, Closed, Block,
       IInv, TypeOK
  <2> QED
    BY <1>4, <2>1, <2>2
<1> QED
  BY <1>6, <1>7, <1>8, <1>9, <1>10, <1>11, <1>12, <1>13, <1>14 DEF Next, Handle

\* What a collator told its callers of it never takes back: after a crash, a lost
\* reply or a refused open, the log it next acknowledges goes on from the last one.
THEOREM NothingTakenBack ==
    ASSUME NEW c \in Collators
    PROVE  Spec => [][IsPrefix(acked[c], acked'[c])]_vars
<1>1. Init => KnowsInv(c)
  BY DEF Init, KnowsInv
<1>2. IInv /\ IInv' /\ KnowsInv(c) /\ [Next]_vars => KnowsInv(c)'
  BY KnowsStep
<1>3. IInv /\ IInv' /\ KnowsInv(c) /\ [Next]_vars => [IsPrefix(acked[c], acked'[c])]_vars
  BY KnowsStep
<1> QED
  BY <1>1, <1>2, <1>3, InvariantHolds, PTL DEF Spec

----------------------------------------------------------------------------
(* Every collator's local tape is used as the acknowledged log allows. *)

\* What the promise of a local tape speaks of: its log and the entry that is
\* being written to it.
LocalState == <<log[Observed], IF pc[Observed] = "local" THEN {pending[Observed]} ELSE {}>>

\* A step that leaves Observed's log and handle alone, or its log while nothing is
\* being written, is a stutter.
LEMMA ElsewhereImplements ==
    ASSUME log'[Observed] = log[Observed],
           \/ /\ pc'[Observed] = pc[Observed]
              /\ pending'[Observed] = pending[Observed]
           \/ pc[Observed] # "local" /\ pc'[Observed] # "local"
    PROVE  UNCHANGED LocalState
BY DEF LocalState

\* The receipt is in: the planned entry is offered to the local tape.
LEMMA CasReplyImplements ==
    ASSUME IInv, CasReply(Observed)
    PROVE  [Local!Next]_LocalState
<1>1. /\ pc[Observed] = "cas" /\ log'[Observed] = log[Observed]
      /\ pending[Observed] \in Entry
      /\ Admits(log[Observed], Line(log[Observed], pending[Observed]))
  BY WitnessedAssumption DEF CasReply, IInv, OneHandleInv, AppendingInv
<1>2. CASE reply[Observed] = Append(log[Observed], pending[Observed])
  <2>1. pc'[Observed] = "local" /\ pending'[Observed] = pending[Observed]
    BY <1>2, WitnessedAssumption DEF CasReply, IInv, TypeOK
  <2>2. Local!Try(pending[Observed])
    BY <1>1, <2>1 DEF Local!Try, Local!Admits, Local!OwnsTarget, Local!OrdersOn,
                      Admits, OwnsTarget, OrdersOn, Line
  <2> QED
    BY <1>1, <2>2 DEF Local!Next, Local!Entry, Entry
<1>3. CASE reply[Observed] # Append(log[Observed], pending[Observed])
  <2>1. pc'[Observed] = "open"
    BY <1>3, WitnessedAssumption DEF CasReply, Block, IInv, TypeOK
  <2> QED
    BY <1>1, <2>1, ElsewhereImplements
<1> QED
  BY <1>2, <1>3

\* A local append that ends, well or badly, settles the entry or gives it up.
LEMMA OutcomeImplements ==
    ASSUME IInv, pc[Observed] = "local", pc'[Observed] # "local",
           NEW left \in InDoubt(Observed), log'[Observed] = left
    PROVE  [Local!Next]_LocalState
<1>1. pending[Observed] \in Entry
  BY WitnessedAssumption DEF IInv, OneHandleInv, AppendingInv
<1>2. CASE left = log[Observed]
  BY <1>2 DEF Local!Next, Local!GiveUp
<1>3. CASE left = Append(log[Observed], pending[Observed])
  <2>1. Local!Settle(pending[Observed])
    BY <1>3 DEF Local!Settle
  <2> QED
    BY <1>1, <2>1 DEF Local!Next, Local!Entry, Entry
<1> QED
  BY <1>2, <1>3 DEF InDoubt

LEMMA StepImplements == IInv /\ [Next]_vars => [Local!Next]_LocalState
<1> SUFFICES ASSUME IInv, [Next]_vars PROVE [Local!Next]_LocalState
  OBVIOUS
<1>1. Observed \in Collators
  BY WitnessedAssumption
<1>2. CASE UNCHANGED vars
  BY <1>2 DEF vars, LocalState
<1>3. CASE OpenStart(Observed) \/ AskFails(Observed)
  <2>1. /\ log' = log /\ pc[Observed] # "local" /\ pc'[Observed] # "local"
    BY <1>1, <1>3 DEF OpenStart, AskFails, IInv, TypeOK
  <2> QED
    BY <2>1, ElsewhereImplements
<1>4. CASE OpenLocal(Observed)
  <2>1. /\ log' = log /\ pc[Observed] # "local" /\ pc'[Observed] # "local"
    BY <1>1, <1>4 DEF OpenLocal, IInv, TypeOK
  <2> QED
    BY <2>1, ElsewhereImplements
<1>5. CASE \E entry \in Entry : AppendStart(Observed, entry)
  <2>1. /\ log' = log /\ pc[Observed] # "local" /\ pc'[Observed] # "local"
    BY <1>1, <1>5 DEF AppendStart, IInv, TypeOK
  <2> QED
    BY <2>1, ElsewhereImplements
<1>6. CASE TimesOut(Observed)
  <2>1. /\ log' = log /\ pc[Observed] # "local" /\ pc'[Observed] # "local"
    BY <1>1, <1>6 DEF TimesOut, Block, IInv, TypeOK
  <2> QED
    BY <2>1, ElsewhereImplements
<1>7. CASE Drop(Observed)
  <2>1. /\ log' = log /\ pc[Observed] # "local" /\ pc'[Observed] # "local"
    BY <1>1, <1>7 DEF Drop, Closed, IInv, TypeOK
  <2> QED
    BY <2>1, ElsewhereImplements
<1>8. CASE LocalAppend(Observed)
  <2> DEFINE left == Append(log[Observed], pending[Observed])
  <2>1. /\ pc[Observed] = "local" /\ pc'[Observed] # "local"
        /\ left \in InDoubt(Observed) /\ log'[Observed] = left
    BY <1>1, <1>8, WitnessedAssumption
       DEF LocalAppend, IInv, TypeOK, OneHandleInv, AppendingInv, InDoubt
  <2> QED
    BY <2>1, OutcomeImplements
<1>9. CASE LocalAppendFails(Observed)
  <2>1. PICK left \in InDoubt(Observed) : log'[Observed] = left
    BY <1>1, <1>9 DEF LocalAppendFails, IInv, TypeOK
  <2>2. pc[Observed] = "local" /\ pc'[Observed] # "local"
    BY <1>1, <1>9 DEF LocalAppendFails, Block, IInv, TypeOK
  <2> QED
    BY <2>1, <2>2, OutcomeImplements
<1>10. CASE Crash(Observed)
  <2>1. pc'[Observed] = "closed"
    BY <1>1, <1>10 DEF Crash, Closed, IInv, TypeOK
  <2>2. CASE pc[Observed] = "local"
    <3>1. PICK left \in InDoubt(Observed) : log'[Observed] = left
      BY <1>1, <1>10, <2>2 DEF Crash, IInv, TypeOK
    <3> QED
      BY <2>1, <2>2, <3>1, OutcomeImplements
  <2>3. CASE pc[Observed] # "local"
    BY <1>10, <2>1, <2>3, ElsewhereImplements DEF Crash
  <2> QED
    BY <2>2, <2>3
<1>11. CASE Attest(Observed)
  BY <1>11, ElsewhereImplements DEF Attest
<1>12. ASSUME NEW c \in Collators \ {Observed},
              \/ OpenStart(c)
              \/ \E entry \in Entry : AppendStart(c, entry)
              \/ Handle(c) \/ Drop(c)
              \/ AskFails(c) \/ LocalAppendFails(c) \/ Crash(c)
       PROVE  [Local!Next]_LocalState
  <2>1. log'[Observed] = log[Observed]
    BY <1>1, <1>12 DEF OpenStart, AppendStart, Handle, Attest, OpenLocal, CasReply,
       LocalAppend, TimesOut, Drop, AskFails, LocalAppendFails, Crash, IInv, TypeOK
  <2>2. /\ pc'[Observed] = pc[Observed]
        /\ pending'[Observed] = pending[Observed]
    BY <1>1, <1>12 DEF OpenStart, AppendStart, Handle, Attest, OpenLocal, CasReply,
       LocalAppend, TimesOut, Drop, AskFails, LocalAppendFails, Crash, Closed, Block,
       IInv, TypeOK
  <2> QED
    BY <2>1, <2>2, ElsewhereImplements
<1>13. ASSUME NEW req \in net, WitnessCas(req) \/ WitnessFails(req)
       PROVE  [Local!Next]_LocalState
  BY <1>13, ElsewhereImplements DEF WitnessCas, WitnessFails
<1> QED
  BY <1>2, <1>3, <1>4, <1>5, <1>6, <1>7, <1>8, <1>9, <1>10, <1>11, <1>12, <1>13,
     CasReplyImplements DEF Next, Handle

\* Any one collator's local tape, with the entry being written to it, implements
\* AckedLog: an entry is offered to it only when the tape admits it, and the tape
\* changes by nothing but the outcome of that offer.
THEOREM LocalTapeImplements == Spec => LocalContract
<1>1. Init => Local!Init
  BY WitnessedAssumption DEF Init, Local!Init
<1>2. IInv /\ [Next]_vars => [Local!Next]_(Local!vars)
  BY StepImplements DEF LocalState, Local!vars
<1> QED
  BY <1>1, <1>2, InvariantHolds, PTL DEF Spec, LocalContract, Local!Spec

================================================================================
