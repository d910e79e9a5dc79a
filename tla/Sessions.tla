------------------------------- MODULE Sessions -------------------------------
(***************************************************************************)
(* A websocket's session in the collator (index.ts, peerSession.ts): the   *)
(* limit on sessions, the exchange of an offer for an answer, the data     *)
(* channels that come of it, and what a closed websocket leaves.           *)
(*                                                                         *)
(* The handler of an offer stops at three awaits.  The offers of a         *)
(* websocket share the variable pc and the session object, so a handler    *)
(* goes on with whatever connection pc holds by then, and every channel    *)
(* writes sess.dc.                                                         *)
(*                                                                         *)
(* External: the WebRTC library.  Each call on a connection may fail; it   *)
(* succeeds only in the states WebRTC allows, and whether a connection     *)
(* takes another one's answer is left open.                                *)
(*                                                                         *)
(* SIGNAL_HELLO and SIGNAL_ICE change nothing kept here.  What a channel   *)
(* carries is in RpcRouter, TapeFeed and Admission; here only that SUBMIT  *)
(* passes the session's rate limiter.                                      *)
(*                                                                         *)
(* Bounds: NumOffers per websocket, MaxTime of the clock.                  *)
(***************************************************************************)
EXTENDS TokenBucket, FiniteSets, FiniteSetsExt

CONSTANTS
    Sockets,    \* websockets, each opened once
    NumOffers,  \* offers a websocket carries
    ConnMax,    \* CONN_MAX
    MaxTime

ASSUME SessionAssumption ==
    /\ NumOffers \in [Sockets -> Nat]
    /\ {ConnMax, MaxTime} \subseteq Nat

VARIABLES
    ws,     \* a websocket, as the collator sees it
    peers,  \* the sessions
    pc,     \* the variable pc: the number of an offer, 0 for null
    offer,  \* per offer: its connection, handler and channel
    dc,     \* sess.dc: the number of an offer, 0 for null
    bucket, \* sess.submitBucket
    now,
    passed  \* history, per session: SUBMITs let through, and the clock meanwhile

vars == <<ws, peers, pc, offer, dc, bucket, now, passed>>

Offers(p) == 1 .. NumOffers[p]

NoOffer ==
    [conn |-> "none", step |-> "none", via |-> 0, answer |-> 0, chan |-> "none",
     during |-> {}, place |-> "none"]

\* via: the connection awaited; answer: the one that made the answer.  History:
\* the offers that came while the handler ran, and the place of the channel among
\* those of the session: the newest, the newest but with one before it closed
\* since, or an older one.
OfferRecord(p) ==
    [conn : {"none", "new", "offered", "stable", "closed"},
     step : {"none", "remote", "answer", "local", "answered", "refused", "unheard"},
     via : 0 .. NumOffers[p],
     answer : 0 .. NumOffers[p],
     chan : {"none", "open", "closing", "closed"},
     during : SUBSET Offers(p),
     place : {"none", "newest", "overtaken", "older"}]

Running(p) == {k \in Offers(p) : offer[p][k].step \in {"remote", "answer", "local"}}

\* Types; and never more than CONN_MAX sessions, each with its websocket open,
\* though an error and the close after it both clean up.
TypeOK ==
    /\ ws \in [Sockets -> {"new", "open", "failed", "gone", "busy"}]
    /\ peers = {p \in Sockets : ws[p] = "open"}
    /\ Cardinality(peers) <= ConnMax
    /\ \A p \in Sockets :
          /\ pc[p] \in 0 .. NumOffers[p] /\ dc[p] \in 0 .. NumOffers[p]
          /\ offer[p] \in [Offers(p) -> OfferRecord(p)]
          /\ bucket[p] \in Bucket
          /\ passed[p] \in [count : Nat, from : 0 .. MaxTime, high : 0 .. MaxTime]
    /\ now \in 0 .. MaxTime

Init ==
    /\ ws = [p \in Sockets |-> "new"]
    /\ peers = {}
    /\ pc = [p \in Sockets |-> 0] /\ dc = pc
    /\ offer = [p \in Sockets |-> [k \in Offers(p) |-> NoOffer]]
    /\ bucket = [p \in Sockets |-> Full(0)]
    /\ now = 0
    /\ passed = [p \in Sockets |-> [count |-> 0, from |-> 0, high |-> 0]]

----------------------------------------------------------------------------
(* The websocket. *)

\* Mutant: one session too many.
ConnectsOneMore(p) ==
    /\ ws[p] = "new"
    /\ ws' = [ws EXCEPT ![p] = "open"]
    /\ peers' = peers \cup {p}
    /\ Cardinality(peers) <= ConnMax
    /\ bucket' = [bucket EXCEPT ![p] = Full(now)]
    /\ passed' = [passed EXCEPT ![p] = [count |-> 0, from |-> now, high |-> now]]
    /\ UNCHANGED <<pc, offer, dc, now>>

Connect(p) ==
    /\ ws[p] = "new"
    /\ \/ /\ Cardinality(peers) >= ConnMax
          /\ ws' = [ws EXCEPT ![p] = "busy"]
          /\ UNCHANGED <<peers, bucket, passed>>
       \/ /\ Cardinality(peers) < ConnMax
          /\ ws' = [ws EXCEPT ![p] = "open"]
          /\ peers' = peers \cup {p}
          /\ bucket' = [bucket EXCEPT ![p] = Full(now)]
          /\ passed' = [passed EXCEPT ![p] = [count |-> 0, from |-> now, high |-> now]]
    /\ UNCHANGED <<pc, offer, dc, now>>

\* cleanup: the channel in use and the newest connection are closed.
Cleanup(p) ==
    /\ offer' = [offer EXCEPT ![p] =
          [k \in Offers(p) |->
              [offer[p][k] EXCEPT
                  !.conn = IF k = pc[p] THEN "closed" ELSE @,
                  !.chan = IF k \in {pc[p], dc[p]} /\ @ = "open" THEN "closing" ELSE @]]]
    /\ dc' = [dc EXCEPT ![p] = 0]
    /\ pc' = [pc EXCEPT ![p] = 0]
    /\ peers' = peers \ {p}

\* An error, which a close follows, or a close alone.
SocketFails(p) ==
    /\ ws[p] = "open"
    /\ ws' = [ws EXCEPT ![p] = "failed"]
    /\ Cleanup(p)
    /\ UNCHANGED <<bucket, now, passed>>

SocketCloses(p) ==
    /\ ws[p] \in {"open", "failed"}
    /\ ws' = [ws EXCEPT ![p] = "gone"]
    /\ Cleanup(p)
    /\ UNCHANGED <<bucket, now, passed>>

----------------------------------------------------------------------------
(* SIGNAL_OFFER. *)

\* What sendSignal makes of the end of a handler.
Heard(p, outcome) == IF ws[p] = "open" THEN outcome ELSE "unheard"

\* Mutant: a connection there is, is used again.
OfferReuses(p, k) ==
    /\ ws[p] = "open"
    /\ k \in Offers(p)
    /\ \A j \in Offers(p) : offer[p][j].step = "none" <=> j >= k
    /\ pc' = [pc EXCEPT ![p] = IF @ = 0 THEN k ELSE @]
    /\ offer' = [offer EXCEPT ![p][k].conn = "new", ![p][k].step = "remote", ![p][k].via = k]
    /\ UNCHANGED <<ws, peers, dc, bucket, now, passed>>

\* A new connection takes the place of the one before, which is not closed.
Offer(p, k) ==
    /\ ws[p] = "open"
    /\ \A j \in Offers(p) : offer[p][j].step = "none" <=> j >= k
    /\ pc' = [pc EXCEPT ![p] = k]
    /\ offer' = [offer EXCEPT ![p] =
          [j \in Offers(p) |->
              IF j = k
              THEN [NoOffer EXCEPT !.conn = "new", !.step = "remote", !.via = k]
              ELSE [offer[p][j] EXCEPT !.during =
                       IF j \in Running(p) THEN @ \cup {k} ELSE @]]]
    /\ UNCHANGED <<ws, peers, dc, bucket, now, passed>>

\* A call on a connection fails, or pc is null when the handler goes on.
Refuse(p, k) ==
    /\ k \in Running(p)
    /\ offer' = [offer EXCEPT ![p][k].step = Heard(p, "refused")]
    /\ UNCHANGED <<ws, peers, pc, dc, bucket, now, passed>>

\* setRemoteDescription on the offer's own connection, then createAnswer on pc.
RemoteSet(p, k) ==
    /\ offer[p][k].step = "remote"
    /\ offer[p][k].conn = "new"
    /\ pc[p] # 0
    /\ offer' = [offer EXCEPT ![p][k].conn = "offered",
                              ![p][k].step = "answer",
                              ![p][k].via = pc[p]]
    /\ UNCHANGED <<ws, peers, pc, dc, bucket, now, passed>>

\* createAnswer on the connection awaited, then setLocalDescription on pc.
AnswerMade(p, k) ==
    /\ offer[p][k].step = "answer"
    /\ offer[p][offer[p][k].via].conn \in {"offered", "stable"}
    /\ pc[p] # 0
    /\ offer' = [offer EXCEPT ![p][k].step = "local",
                              ![p][k].answer = offer[p][k].via,
                              ![p][k].via = pc[p]]
    /\ UNCHANGED <<ws, peers, pc, dc, bucket, now, passed>>

\* setLocalDescription on the connection awaited, then the answer is sent.
LocalSet(p, k) ==
    /\ offer[p][k].step = "local"
    /\ offer[p][offer[p][k].via].conn = "offered"
    /\ offer' = [offer EXCEPT ![p][offer[p][k].via].conn = "stable",
                              ![p][k].step = Heard(p, "answered")]
    /\ UNCHANGED <<ws, peers, pc, dc, bucket, now, passed>>

----------------------------------------------------------------------------
(* Channels. *)

\* The wallet has the connection's answer, and the connection is up.
Reached(p, k) ==
    /\ offer[p][k].conn = "stable"
    /\ offer[p][k].chan = "none"
    /\ \E i \in Offers(p) : offer[p][i].step = "answered" /\ offer[p][i].answer = k

Opened(p, k) ==
    offer' = [offer EXCEPT ![p] =
        [j \in Offers(p) |->
            [offer[p][j] EXCEPT !.chan = IF j = k THEN "open" ELSE @,
                                !.place = IF j = k THEN "newest"
                                          ELSE IF @ = "none" THEN @ ELSE "older"]]]

\* Mutant: the first channel of a session stays in use.
ChannelOpensUnlessOne(p, k) ==
    /\ Reached(p, k)
    /\ Opened(p, k)
    /\ dc' = [dc EXCEPT ![p] = IF @ = 0 THEN k ELSE @]
    /\ UNCHANGED <<ws, peers, pc, bucket, now, passed>>

\* ondatachannel, of whichever connection gets through, a closed session's too.
ChannelOpens(p, k) ==
    /\ Reached(p, k)
    /\ Opened(p, k)
    /\ dc' = [dc EXCEPT ![p] = k]
    /\ UNCHANGED <<ws, peers, pc, bucket, now, passed>>

\* A message above MAX_MSG_BYTES: the channel it came by is closed.
TooLarge(p, k) ==
    /\ offer[p][k].chan = "open"
    /\ offer' = [offer EXCEPT ![p][k].chan = "closing"]
    /\ UNCHANGED <<ws, peers, pc, dc, bucket, now, passed>>

\* onclose: sess.dc is null, whichever channel it was.
ChannelCloses(p, k) ==
    /\ offer[p][k].chan \in {"open", "closing"}
    /\ offer' = [offer EXCEPT ![p] =
          [j \in Offers(p) |->
              [offer[p][j] EXCEPT !.chan = IF j = k THEN "closed" ELSE @,
                                  !.place = IF j # k /\ @ = "newest" THEN "overtaken"
                                            ELSE @]]]
    /\ dc' = [dc EXCEPT ![p] = 0]
    /\ UNCHANGED <<ws, peers, pc, bucket, now, passed>>

\* A SUBMIT, by any of the session's channels.
Submit(p, k) ==
    /\ offer[p][k].chan = "open"
    /\ bucket' = [bucket EXCEPT ![p] = Allow(@, now)]
    /\ passed' = [passed EXCEPT ![p].count = @ + (IF Allows(bucket[p], now) THEN 1 ELSE 0)]
    /\ UNCHANGED <<ws, peers, pc, offer, dc, now>>

----------------------------------------------------------------------------

\* The wall clock goes on, or is set back.
Clock(t) ==
    /\ t # now
    /\ now' = t
    /\ passed' = [p \in Sockets |->
          [passed[p] EXCEPT !.high = IF ws[p] # "new" /\ t > @ THEN t ELSE @]]
    /\ UNCHANGED <<ws, peers, pc, offer, dc, bucket>>

Next ==
    \/ \E p \in Sockets : Connect(p) \/ SocketFails(p) \/ SocketCloses(p)
    \/ \E p \in Sockets : \E k \in Offers(p) :
          \/ Offer(p, k) \/ Refuse(p, k)
          \/ RemoteSet(p, k) \/ AnswerMade(p, k) \/ LocalSet(p, k)
          \/ ChannelOpens(p, k) \/ TooLarge(p, k) \/ ChannelCloses(p, k)
          \/ Submit(p, k)
    \/ \E t \in 0 .. MaxTime : Clock(t)

Spec == Init /\ [][Next]_vars

----------------------------------------------------------------------------
(* Properties. *)

\* An offer is answered by its own connection, or by that of an offer that came
\* before it was answered: the newest offer of a websocket always gets its own
\* answer, however the handlers interleave.
AnswersOwnOffer ==
    \A p \in Sockets : \A k \in Offers(p) :
        offer[p][k].step = "answered" =>
            offer[p][k].answer \in {k} \cup offer[p][k].during

\* A session answers on the channel that opened last, and on none if another has
\* closed since (onclose asks not which).  A closed websocket leaves no channel up,
\* but those of connections that a later offer had replaced, which nothing closes.
UsesNewestChannel ==
    \A p \in Sockets : \A k \in Offers(p) :
        LET o == offer[p][k] IN
        /\ ws[p] = "open" /\ o.chan = "open" /\ o.place = "newest" => dc[p] = k
        /\ dc[p] = k => o.place = "newest"
        /\ ws[p] \in {"failed", "gone"} /\ o.chan = "open" =>
              \E j \in Offers(p) : j > k /\ offer[p][j].step # "none"

\* A session lets through no more SUBMITs than SUBMIT_BURST and what
\* SUBMIT_RATE_PER_SEC adds from its start to the latest time the clock has shown:
\* not by another channel, not by fractions of a token, and not by a clock that is
\* set back and passes the same time again.
SubmitsWithinRate ==
    \A p \in Sockets :
        passed[p].count * Unit <= Capacity + Refill * (passed[p].high - passed[p].from)

================================================================================
