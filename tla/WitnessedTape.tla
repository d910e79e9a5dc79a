----------------------------- MODULE WitnessedTape -----------------------------
(***************************************************************************)
(* WitnessedTape of tl-collator-wire/durable.rs over WitnessService of     *)
(* tl-witness-service: collators that share an identity, each with a tape  *)
(* in its own directory, append only what one witness has stored first by  *)
(* compare-and-swap.                                                       *)
(*                                                                         *)
(* Both sides store their log in a DurableTape; here it is taken at its    *)
(* promise, AckedLog: an append succeeds, is undone, or is left in doubt,  *)
(* and what is in doubt is decided when it happens, since nobody can see   *)
(* the file before the next open settles it.                               *)
(*                                                                         *)
(* One transport call is one ssh process and one witnessctl run, which     *)
(* holds the store's lock from open to exit, so that a run is one step.    *)
(* The client may give up (deadline) while its request is still on the     *)
(* way: a request without a waiting caller can run at any later time.      *)
(* Challenges tie a receipt to its call, so a reply never reaches another  *)
(* call than its own.                                                      *)
(*                                                                         *)
(* MaxFaults bounds lost and late messages, failed runs and crashes.       *)
(***************************************************************************)
EXTENDS VerifiedReplay

CONSTANTS
    Collators,   \* directories with a copy of the tape
    MaxFaults,
    NoEntry,
    NoReply,     \* no answer of the witness yet
    Refused,     \* the transport call fails
    Observed     \* any one collator, whose local tape is looked at more closely

ASSUME WitnessedAssumption ==
    /\ MaxFaults \in Nat
    /\ NoEntry \notin Entry
    /\ {NoReply, Refused} \cap Seq(Entry) = {}
    /\ NoReply # Refused
    /\ Observed \in Collators

VARIABLES
    witness,   \* the witness's stored log
    log,       \* each collator's local log
    pc,        \* "closed", "asking", "open", "cas" or "local"
    blocked,
    pending,   \* the entry an append_signed call is about
    reply,     \* the witness's answer to the call under way: a receipt's log
    net,       \* compare-and-swap requests that have not run yet
    faults,
    acked,     \* history: the log of the last checkpoint a caller was given
    atAsk      \* history: what the witness held when an open began

vars == <<witness, log, pc, blocked, pending, reply, net, faults, acked, atAsk>>

Request == [from : Collators, expected : Seq(Entry), entry : Entry, live : BOOLEAN]

TypeOK ==
    /\ witness \in Seq(Entry)
    /\ Len(witness) <= MaxEntries
    /\ log \in [Collators -> Seq(Entry)]
    /\ pc \in [Collators -> {"closed", "asking", "open", "cas", "local"}]
    /\ blocked \in [Collators -> BOOLEAN]
    /\ pending \in [Collators -> Entry \cup {NoEntry}]
    /\ reply \in [Collators -> Seq(Entry) \cup {NoReply, Refused}]
    /\ net \subseteq Request
    /\ faults \in 0 .. MaxFaults
    /\ acked \in [Collators -> Seq(Entry)]
    /\ atAsk \in [Collators -> Seq(Entry)]

\* The witness's store starts empty: pin_scope refuses history without a scope.
\* A collator may come with a tape it wrote before there was a witness.
Init ==
    /\ witness = <<>>
    /\ log \in [Collators -> LegacyLogs]
    /\ pc = [c \in Collators |-> "closed"]
    /\ blocked = [c \in Collators |-> FALSE]
    /\ pending = [c \in Collators |-> NoEntry]
    /\ reply = [c \in Collators |-> NoReply]
    /\ net = {}
    /\ faults = 0
    /\ acked = [c \in Collators |-> <<>>]
    /\ atAsk = [c \in Collators |-> <<>>]

Fault ==
    /\ faults < MaxFaults
    /\ faults' = faults + 1

Line(expected, entry) == [prev |-> expected, entry |-> entry]

----------------------------------------------------------------------------
(* WitnessedTape::open: the witness is asked under the local lock, before *)
(* anything local is read or repaired.                                     *)

OpenStart(c) ==
    /\ pc[c] = "closed"
    /\ pc' = [pc EXCEPT ![c] = "asking"]
    /\ atAsk' = [atAsk EXCEPT ![c] = witness]
    /\ UNCHANGED <<witness, log, blocked, pending, reply, net, faults, acked>>

\* attest_latest: a signed receipt for the stored head.
Attest(c) ==
    /\ pc[c] = "asking"
    /\ reply[c] = NoReply
    /\ reply' = [reply EXCEPT ![c] = witness]
    /\ UNCHANGED <<witness, log, pc, blocked, pending, net, faults, acked, atAsk>>

AskFails(c) ==
    /\ pc[c] = "asking"
    /\ Fault
    /\ pc' = [pc EXCEPT ![c] = "closed"]
    /\ reply' = [reply EXCEPT ![c] = NoReply]
    /\ atAsk' = [atAsk EXCEPT ![c] = <<>>]
    /\ UNCHANGED <<witness, log, blocked, pending, net, acked>>

AcceptsRollback(receipt, local) == IsPrefix(local, receipt)

\* scan with a receipt: Rollback if the tape does not reach it, Fork if it
\* holds another entry there, AheadOfWitness if it goes on behind it.
MatchesReceipt(receipt, local) ==
    /\ IsPrefix(receipt, local)
    /\ Len(local) <= Len(receipt)

OpenLocal(c) ==
    /\ pc[c] = "asking"
    /\ reply[c] # NoReply
    /\ IF MatchesReceipt(reply[c], log[c])
       THEN /\ pc' = [pc EXCEPT ![c] = "open"]
            /\ blocked' = [blocked EXCEPT ![c] = FALSE]
            /\ acked' = [acked EXCEPT ![c] = log[c]]
            /\ UNCHANGED atAsk
       ELSE /\ pc' = [pc EXCEPT ![c] = "closed"]
            /\ atAsk' = [atAsk EXCEPT ![c] = <<>>]
            /\ UNCHANGED <<blocked, acked>>
    /\ reply' = [reply EXCEPT ![c] = NoReply]
    /\ UNCHANGED <<witness, log, pending, net, faults>>

----------------------------------------------------------------------------
(* WitnessedTape::append_signed: witness first, then the local tape. *)

\* The line is verified against the local log, then sent.
AppendStart(c, entry) ==
    /\ pc[c] = "open"
    /\ ~blocked[c]
    /\ Admits(log[c], Line(log[c], entry))
    /\ pc' = [pc EXCEPT ![c] = "cas"]
    /\ pending' = [pending EXCEPT ![c] = entry]
    /\ net' = net \cup
         {[from |-> c, expected |-> log[c], entry |-> entry, live |-> TRUE]}
    /\ UNCHANGED <<witness, log, blocked, reply, faults, acked, atAsk>>

Answered(req, answer) ==
    /\ net' = net \ {req}
    /\ reply' = IF req.live THEN [reply EXCEPT ![req.from] = answer] ELSE reply

\* compare_and_swap: the head is the expected one and the entry verifies.
Swaps(req) ==
    /\ witness = req.expected
    /\ Admits(witness, Line(req.expected, req.entry))

WitnessCas(req) ==
    /\ req \in net
    /\ IF Swaps(req)
       THEN /\ witness' = Append(witness, req.entry)
            /\ Answered(req, witness')
       ELSE /\ Answered(req, Refused)
            /\ UNCHANGED witness
    /\ UNCHANGED <<log, pc, blocked, pending, faults, acked, atAsk>>

\* The run fails (lock held, I/O error, killed): the entry may be stored or
\* not, the caller gets no receipt.
WitnessFails(req) ==
    /\ req \in net
    /\ Fault
    /\ witness' \in {witness} \cup
         (IF Swaps(req) THEN {Append(witness, req.entry)} ELSE {})
    /\ Answered(req, Refused)
    /\ UNCHANGED <<log, pc, blocked, pending, acked, atAsk>>

\* The ssh process of c's call ends with the call; its request either ends
\* with it or is on its way to the witness already.
Dropped(c) == {req \in net : ~(req.from = c /\ req.live)}

StillOnItsWay(c) ==
    {IF req.from = c THEN [req EXCEPT !.live = FALSE] ELSE req : req \in net}

GivesUp(c) ==
    \/ net' = Dropped(c) /\ UNCHANGED faults
    \/ net' = StillOnItsWay(c) /\ Dropped(c) # net /\ Fault

Block(c) ==
    /\ pc' = [pc EXCEPT ![c] = "open"]
    /\ blocked' = [blocked EXCEPT ![c] = TRUE]
    /\ pending' = [pending EXCEPT ![c] = NoEntry]

NoDeadline(c) ==
    /\ pc[c] = "cas"
    /\ reply[c] = Refused
    /\ Block(c)
    /\ UNCHANGED <<witness, log, reply, net, faults, acked, atAsk>>

\* The deadline passes without a reply, or the request or its reply is lost:
\* RemoteUncertain.
TimesOut(c) ==
    /\ pc[c] = "cas"
    /\ reply[c] = NoReply
    /\ Block(c)
    /\ GivesUp(c)
    /\ UNCHANGED <<witness, log, reply, acked, atAsk>>

FallsBackToLocal(c) ==
    /\ pc[c] = "cas"
    /\ reply[c] # NoReply
    /\ pc' = [pc EXCEPT ![c] = "local"]
    /\ reply' = [reply EXCEPT ![c] = NoReply]
    /\ UNCHANGED <<witness, log, blocked, pending, net, faults, acked, atAsk>>

\* verify_receipt and the comparison with the planned checkpoint.
CasReply(c) ==
    /\ pc[c] = "cas"
    /\ reply[c] # NoReply
    /\ IF reply[c] = Append(log[c], pending[c])
       THEN /\ pc' = [pc EXCEPT ![c] = "local"]
            /\ UNCHANGED <<blocked, pending>>
       ELSE Block(c)
    /\ reply' = [reply EXCEPT ![c] = NoReply]
    /\ UNCHANGED <<witness, log, net, faults, acked, atAsk>>

LocalAppend(c) ==
    /\ pc[c] = "local"
    /\ log' = [log EXCEPT ![c] = Append(log[c], pending[c])]
    /\ acked' = [acked EXCEPT ![c] = log'[c]]
    /\ pc' = [pc EXCEPT ![c] = "open"]
    /\ pending' = [pending EXCEPT ![c] = NoEntry]
    /\ UNCHANGED <<witness, blocked, reply, net, faults, atAsk>>

RollsBackTooFar(c) ==
    {log[c]} \cup {SubSeq(log[c], 1, n) : n \in {Len(log[c]) - 1} \ {-1}}

\* What an append that did not return Ok leaves in the local directory.
InDoubt(c) == {log[c]} \cup {Append(log[c], e) : e \in {pending[c]} \ {NoEntry}}

\* CommitUnknown: undone or in doubt, and the handle is blocked.
LocalAppendFails(c) ==
    /\ pc[c] = "local"
    /\ Fault
    /\ \E left \in InDoubt(c) : log' = [log EXCEPT ![c] = left]
    /\ Block(c)
    /\ UNCHANGED <<witness, reply, net, acked, atAsk>>

----------------------------------------------------------------------------
(* The end of a handle. *)

Closed(c) ==
    /\ pc' = [pc EXCEPT ![c] = "closed"]
    /\ blocked' = [blocked EXCEPT ![c] = FALSE]
    /\ pending' = [pending EXCEPT ![c] = NoEntry]
    /\ reply' = [reply EXCEPT ![c] = NoReply]
    /\ net' \in {Dropped(c), StillOnItsWay(c)}
    /\ atAsk' = [atAsk EXCEPT ![c] = <<>>]
    /\ UNCHANGED <<witness, acked>>

\* A blocked handle is dropped by its owner.
Drop(c) ==
    /\ pc[c] = "open"
    /\ blocked[c]
    /\ Closed(c)
    /\ UNCHANGED <<log, faults>>

\* The collator's process dies, in the middle of a local append too.
Crash(c) ==
    /\ pc[c] # "closed"
    /\ Fault
    /\ IF pc[c] = "local"
       THEN \E left \in InDoubt(c) : log' = [log EXCEPT ![c] = left]
       ELSE UNCHANGED log
    /\ Closed(c)

----------------------------------------------------------------------------

Handle(c) == Attest(c) \/ OpenLocal(c) \/ CasReply(c) \/ LocalAppend(c) \/ TimesOut(c)

Next ==
    \/ \E c \in Collators :
          \/ OpenStart(c)
          \/ \E entry \in Entry : AppendStart(c, entry)
          \/ Handle(c) \/ Drop(c)
          \/ AskFails(c) \/ LocalAppendFails(c) \/ Crash(c)
    \/ \E req \in net : WitnessCas(req) \/ WitnessFails(req)

Spec == Init /\ [][Next]_vars

\* A call under way is not abandoned: the witness answers or the deadline
\* passes, and the process goes on.
FairSpec == Spec /\ \A c \in Collators : WF_vars(Handle(c))

----------------------------------------------------------------------------
(* Properties. *)

\* What a caller of append_signed or open was told of is on the witness, whatever
\* was lost, late, refused or crashed, and so is the local tape of an open handle
\* with the entry it is about to write: two copies of the tape never acknowledge
\* different histories, and never both write one seq.
WitnessFirst ==
    \A c \in Collators :
        /\ IsPrefix(acked[c], witness)
        /\ pc[c] \in {"open", "cas"} => IsPrefix(log[c], witness)
        /\ pc[c] = "local" => IsPrefix(Append(log[c], pending[c]), witness)

\* An open handle knows every entry the witness had when the open began: a copy
\* that is behind, or on another branch, stays closed.
OpenNotStale ==
    \A c \in Collators :
        pc[c] \in {"open", "cas", "local"} => IsPrefix(atAsk[c], log[c])

\* Every call on a handle comes back.
CallsReturn ==
    \A c \in Collators :
        pc[c] \in {"asking", "cas", "local"} ~> pc[c] \in {"open", "closed"}

----------------------------------------------------------------------------
(* Each local tape is used as its promise allows: Observed is any of them. *)

Local ==
    INSTANCE AckedLog WITH
        settled <- log[Observed],
        tried <- IF pc[Observed] = "local" THEN {pending[Observed]} ELSE {}

\* The entry offered to the local tape is one it admits, and nothing but the
\* outcome of that append changes it.
LocalContract == Local!Spec

================================================================================
