---------------------------- MODULE Sessions_proofs ----------------------------
(***************************************************************************)
(* Proofs about Sessions: for every set of websockets, number of offers,   *)
(* limit on sessions, rate, burst and bound of the clock.                  *)
(***************************************************************************)
EXTENDS Sessions, TLAPS, FiniteSetTheorems

(* The inductive invariant. *)

\* What TypeOK leaves open: the variables are functions of the websocket, and the
\* sessions can be counted.
ShapeInv ==
    /\ IsFiniteSet(peers)
    /\ pc \in [Sockets -> Nat] /\ dc \in [Sockets -> Nat]
    /\ offer = [p \in Sockets |-> offer[p]]
    /\ bucket \in [Sockets -> Bucket]
    /\ passed \in [Sockets -> [count : Nat, from : 0 .. MaxTime, high : 0 .. MaxTime]]

\* Without a session there is no connection to go on with, and there was no offer
\* before it.
UnopenedInv(p) ==
    /\ ws[p] # "open" => pc[p] = 0
    /\ ws[p] \in {"new", "busy"} => \A k \in Offers(p) : offer[p][k] = NoOffer

\* In a session, the variable pc holds the newest offer's connection.
NewestInv(p) ==
    ws[p] = "open" =>
        \A k \in Offers(p) : offer[p][k].step # "none" <=> k <= pc[p]

\* What was let through and what the bucket still holds came out of the burst and
\* of the time up to the last refill.
RateInv(p) ==
    /\ passed[p].from <= bucket[p].last /\ bucket[p].last <= passed[p].high
    /\ ws[p] \in {"open", "failed", "gone"} => now <= passed[p].high
    /\ passed[p].count * Unit + bucket[p].tokens
          <= Capacity + Refill * (bucket[p].last - passed[p].from)

\* A handler that goes on with another connection than its own goes on with one
\* that came while it ran.
HandlerInv(p, k) ==
    /\ offer[p][k].step = "none" => offer[p][k] = NoOffer
    /\ k \in Running(p) =>
          /\ offer[p][k].via \in {k} \cup offer[p][k].during
          /\ pc[p] \in {0, k} \cup offer[p][k].during
    /\ offer[p][k].step \in {"local", "answered"} =>
          offer[p][k].answer \in {k} \cup offer[p][k].during

\* Cleanup leaves no connection or channel up but those that were replaced.
LeftInv(p, k) ==
    ws[p] \in {"failed", "gone"}
        /\ (offer[p][k].chan = "open" \/ offer[p][k].conn \notin {"none", "closed"})
    => \E j \in Offers(p) : j > k /\ offer[p][j].step # "none"

\* One channel is the newest, and it is the one in use or it is not up.
ChannelInv(p, k) ==
    /\ ws[p] = "open" /\ offer[p][k].chan = "open" /\ offer[p][k].place = "newest"
          => dc[p] = k
    /\ dc[p] = k => offer[p][k].place = "newest"
    /\ offer[p][k].place = "newest" =>
          \A j \in Offers(p) : offer[p][j].place = "newest" => j = k

SocketInv(p) ==
    /\ UnopenedInv(p) /\ NewestInv(p) /\ RateInv(p)
    /\ \A k \in Offers(p) : HandlerInv(p, k) /\ LeftInv(p, k) /\ ChannelInv(p, k)

IInv ==
    /\ TypeOK
    /\ ShapeInv
    /\ \A p \in Sockets : SocketInv(p)

----------------------------------------------------------------------------
(* The rate limiter. *)

LEMMA ProductFacts ==
    /\ \A a, b \in Nat : a * b \in Nat
    /\ \A a, b, c \in Int : a * (b - c) = a * b - a * c
    /\ \A a, b, c \in Int : b * a = a * b
<1> QED
  OBVIOUS

\* A call on the bucket keeps its type.  What it lets through, in parts, and what
\* it leaves come out of what was in the bucket and of the time it refilled.
LEMMA AllowFacts ==
    ASSUME NEW b \in Bucket, NEW t \in Nat
    PROVE  /\ Allow(b, t) \in Bucket
           /\ b.last <= Allow(b, t).last
           /\ Allow(b, t).last \in {b.last, t}
           /\ (IF Allows(b, t) THEN Unit ELSE 0) + Allow(b, t).tokens
                 <= b.tokens + Refill * (Allow(b, t).last - b.last)
<1>1. /\ Unit \in Nat /\ Capacity \in Nat /\ Refill \in Nat
      /\ b.tokens \in Nat /\ b.tokens <= Capacity /\ b.last \in Nat
      /\ b = [tokens |-> b.tokens, last |-> b.last]
  BY BucketAssumption DEF Capacity, Refill, Bucket
<1> DEFINE r == Refilled(b, t)
<1>2. /\ r \in Bucket /\ b.last <= r.last /\ r.last \in {b.last, t}
      /\ r.tokens <= b.tokens + Refill * (r.last - b.last)
      /\ r = [tokens |-> r.tokens, last |-> r.last]
  <2>1. CASE t > b.last /\ Refill > 0
    <3> DEFINE grown == b.tokens + (t - b.last) * Refill
    <3>1. t - b.last \in Nat
      BY <1>1, <2>1
    <3>2. (t - b.last) * Refill \in Nat /\ (t - b.last) * Refill = Refill * (t - b.last)
      BY <1>1, <3>1, ProductFacts
    <3>3. r = [tokens |-> IF grown > Capacity THEN Capacity ELSE grown, last |-> t]
      BY <2>1 DEF Refilled
    <3>4. grown \in Nat
      BY <1>1, <3>2
    <3>5. r.tokens \in 0 .. Capacity /\ r.tokens <= grown /\ r.last = t
      BY <1>1, <3>3, <3>4
    <3>6. grown = b.tokens + Refill * (t - b.last)
      BY <3>2
    <3> QED
      BY <2>1, <3>3, <3>5, <3>6 DEF Bucket
  <2>2. CASE ~(t > b.last /\ Refill > 0)
    <3>1. r = b
      BY <2>2 DEF Refilled
    <3>2. Refill * (b.last - b.last) = 0
      BY <1>1
    <3> QED
      BY <1>1, <3>1, <3>2
  <2> QED
    BY <2>1, <2>2
<1>3. r.tokens \in Nat /\ r.tokens <= Capacity /\ r.last \in Nat
  BY <1>1, <1>2 DEF Bucket
<1>4. CASE Allows(b, t)
  <2>1. r.tokens >= Unit
    BY <1>4 DEF Allows
  <2>2. Allow(b, t) = [tokens |-> r.tokens - Unit, last |-> r.last]
    BY <1>2, <2>1 DEF Allow
  <2>3. /\ r.tokens - Unit \in 0 .. Capacity
        /\ Unit + (r.tokens - Unit) = r.tokens
    BY <1>1, <1>3, <2>1
  <2> QED
    BY <1>2, <1>3, <1>4, <2>2, <2>3 DEF Bucket
<1>5. CASE ~Allows(b, t)
  <2>1. ~(r.tokens >= Unit)
    BY <1>5 DEF Allows
  <2>2. Allow(b, t) = r
    BY <1>2, <2>1 DEF Allow
  <2> QED
    BY <1>2, <1>3, <1>5, <2>2
<1> QED
  BY <1>4, <1>5

----------------------------------------------------------------------------
(* A step of one websocket leaves the others alone. *)

\* What the invariant says of one websocket, with the types spelled out.
LEMMA SocketFacts ==
    ASSUME IInv, NEW p \in Sockets
    PROVE  /\ NumOffers[p] \in Nat
           /\ pc[p] \in 0 .. NumOffers[p] /\ dc[p] \in 0 .. NumOffers[p]
           /\ offer[p] \in [Offers(p) -> OfferRecord(p)]
           /\ bucket[p] \in Bucket
           /\ passed[p] \in [count : Nat, from : 0 .. MaxTime, high : 0 .. MaxTime]
           /\ SocketInv(p)
BY SessionAssumption DEF IInv, TypeOK

LEMMA OwnSocket ==
    ASSUME IInv, NEW p \in Sockets, UNCHANGED now, ShapeInv',
           ws' \in [Sockets -> {"new", "open", "failed", "gone", "busy"}],
           peers' = {q \in Sockets : ws'[q] = "open"},
           Cardinality(peers') <= ConnMax,
           \A q \in Sockets \ {p} :
               /\ ws'[q] = ws[q] /\ pc'[q] = pc[q] /\ dc'[q] = dc[q]
               /\ offer'[q] = offer[q] /\ bucket'[q] = bucket[q]
               /\ passed'[q] = passed[q],
           pc'[p] \in 0 .. NumOffers[p], dc'[p] \in 0 .. NumOffers[p],
           offer'[p] \in [Offers(p) -> OfferRecord(p)],
           SocketInv(p)'
    PROVE  IInv'
<1>1. ASSUME NEW q \in Sockets \ {p}
      PROVE  SocketInv(q)'
  <2>1. SocketInv(q)
    BY DEF IInv
  <2>2. /\ ws'[q] = ws[q] /\ pc'[q] = pc[q] /\ dc'[q] = dc[q]
        /\ offer'[q] = offer[q] /\ bucket'[q] = bucket[q]
        /\ passed'[q] = passed[q] /\ now' = now
    OBVIOUS
  <2>3. UnopenedInv(q)' /\ NewestInv(q)'
    BY <2>1, <2>2 DEF SocketInv, UnopenedInv, NewestInv
  <2>4. RateInv(q)'
    BY <2>1, <2>2 DEF SocketInv, RateInv
  <2>5. ASSUME NEW k \in Offers(q)
        PROVE  HandlerInv(q, k)' /\ LeftInv(q, k)' /\ ChannelInv(q, k)'
    BY <2>1, <2>2 DEF SocketInv, HandlerInv, LeftInv, ChannelInv, Running
  <2> QED
    BY <2>3, <2>4, <2>5 DEF SocketInv
<1>2. TypeOK'
  <2>1. \A q \in Sockets :
          /\ pc'[q] \in 0 .. NumOffers[q] /\ dc'[q] \in 0 .. NumOffers[q]
          /\ offer'[q] \in [Offers(q) -> OfferRecord(q)]
    BY DEF IInv, TypeOK
  <2>2. \A q \in Sockets :
          /\ bucket'[q] \in Bucket
          /\ passed'[q] \in [count : Nat, from : 0 .. MaxTime, high : 0 .. MaxTime]
    BY DEF ShapeInv
  <2> QED
    BY <2>1, <2>2 DEF IInv, TypeOK
<1> QED
  BY <1>1, <1>2 DEF IInv

\* A step of the handlers and channels of one session.
LEMMA OwnOffers ==
    ASSUME IInv, NEW p \in Sockets, UNCHANGED <<ws, peers, bucket, now, passed>>,
           NEW new \in [Offers(p) -> OfferRecord(p)], offer' = [offer EXCEPT ![p] = new],
           NEW newPc \in 0 .. NumOffers[p], pc' = [pc EXCEPT ![p] = newPc],
           NEW newDc \in 0 .. NumOffers[p], dc' = [dc EXCEPT ![p] = newDc],
           UnopenedInv(p)', NewestInv(p)',
           \A k \in Offers(p) : HandlerInv(p, k)' /\ LeftInv(p, k)' /\ ChannelInv(p, k)'
    PROVE  IInv'
<1>1. newPc \in Nat /\ newDc \in Nat
  BY SessionAssumption
<1>2. offer' = [q \in Sockets |-> offer'[q]] /\ offer'[p] = new
  BY DEF IInv, ShapeInv
<1>3. ShapeInv'
  BY <1>1, <1>2 DEF IInv, ShapeInv
<1>4. pc'[p] = newPc /\ dc'[p] = newDc
  BY DEF IInv, ShapeInv
<1>5. \A q \in Sockets \ {p} :
          pc'[q] = pc[q] /\ dc'[q] = dc[q] /\ offer'[q] = offer[q]
  BY DEF IInv, ShapeInv
<1>6. RateInv(p)'
  BY DEF IInv, SocketInv, RateInv
<1>7. SocketInv(p)'
  BY <1>6 DEF SocketInv
<1>8. /\ ws' \in [Sockets -> {"new", "open", "failed", "gone", "busy"}]
      /\ peers' = {q \in Sockets : ws'[q] = "open"}
      /\ Cardinality(peers') <= ConnMax
  BY DEF IInv, TypeOK
<1> QED
  BY <1>2, <1>3, <1>4, <1>5, <1>7, <1>8, OwnSocket

----------------------------------------------------------------------------
(* The handler of an offer. *)

\* A handler that runs changes its own step, and connections that are up.
LEMMA HandlerStep ==
    ASSUME IInv, NEW p \in Sockets, NEW k \in Running(p),
           UNCHANGED <<ws, peers, pc, dc, bucket, now, passed>>,
           NEW new \in [Offers(p) -> OfferRecord(p)], offer' = [offer EXCEPT ![p] = new],
           \A j \in Offers(p) :
               /\ new[j].chan = offer[p][j].chan /\ new[j].place = offer[p][j].place
               /\ new[j].during = offer[p][j].during
               /\ \/ new[j].conn = offer[p][j].conn
                  \/ offer[p][j].conn \notin {"none", "closed"},
           \A j \in Offers(p) \ {k} :
               /\ new[j].step = offer[p][j].step /\ new[j].via = offer[p][j].via
               /\ new[j].answer = offer[p][j].answer,
           new[k].step # "none",
           HandlerInv(p, k)'
    PROVE  IInv'
<1>1. /\ offer[p] \in [Offers(p) -> OfferRecord(p)]
      /\ offer'[p] = new
      /\ SocketInv(p)
      /\ k \in Offers(p) /\ offer[p][k].step # "none"
      /\ pc' = [pc EXCEPT ![p] = pc[p]] /\ dc' = [dc EXCEPT ![p] = dc[p]]
      /\ pc[p] \in 0 .. NumOffers[p] /\ dc[p] \in 0 .. NumOffers[p]
  BY SocketFacts DEF IInv, ShapeInv, Running
<1>2. \A j \in Offers(p) : new[j].step # "none" <=> offer[p][j].step # "none"
  BY <1>1
<1>3. ws[p] \notin {"new", "busy"}
  BY <1>1 DEF SocketInv, UnopenedInv, NoOffer
<1>4. UnopenedInv(p)'
  BY <1>1, <1>3 DEF SocketInv, UnopenedInv
<1>5. NewestInv(p)'
  BY <1>1, <1>2 DEF SocketInv, NewestInv
<1>6. ASSUME NEW j \in Offers(p)
      PROVE  HandlerInv(p, j)'
  <2>1. CASE j = k
    BY <2>1
  <2>2. CASE j # k
    <3>1. /\ new[j] \in OfferRecord(p) /\ offer[p][j] \in OfferRecord(p)
          /\ HandlerInv(p, j)
      BY <1>1 DEF SocketInv
    <3>2. offer[p][j].step = "none" => new[j] = NoOffer
      <4> SUFFICES ASSUME offer[p][j].step = "none"
                   PROVE  new[j] = offer[p][j]
        BY <3>1 DEF HandlerInv
      <4>1. offer[p][j].conn = "none"
        BY <3>1 DEF HandlerInv, NoOffer
      <4> QED
        BY <2>2, <3>1, <4>1 DEF OfferRecord
    <3> QED
      BY <1>1, <2>2, <3>1, <3>2 DEF HandlerInv, Running
  <2> QED
    BY <2>1, <2>2
<1>7. ASSUME NEW j \in Offers(p)
      PROVE  LeftInv(p, j)'
  BY <1>1, <1>2 DEF SocketInv, LeftInv
<1>8. ASSUME NEW j \in Offers(p)
      PROVE  ChannelInv(p, j)'
  BY <1>1 DEF SocketInv, ChannelInv
<1> QED
  BY <1>1, <1>4, <1>5, <1>6, <1>7, <1>8, OwnOffers

\* What a running handler awaits is a connection of the same websocket.
LEMMA RunningFacts ==
    ASSUME IInv, NEW p \in Sockets, NEW k \in Running(p)
    PROVE  /\ k \in Offers(p)
           /\ offer[p][k] \in OfferRecord(p)
           /\ offer[p][k].during \subseteq Offers(p)
           /\ offer[p][k].via \in Offers(p)
           /\ offer[p][k].via \in {k} \cup offer[p][k].during
           /\ pc[p] \in {0, k} \cup offer[p][k].during
<1>1. k \in Offers(p) /\ offer[p] \in [Offers(p) -> OfferRecord(p)] /\ SocketInv(p)
  BY SocketFacts DEF Running
<1>2. offer[p][k] \in OfferRecord(p) /\ HandlerInv(p, k)
  BY <1>1 DEF SocketInv
<1> QED
  BY <1>1, <1>2 DEF HandlerInv, OfferRecord

LEMMA RefuseStep ==
    ASSUME IInv, NEW p \in Sockets, NEW k \in Offers(p), Refuse(p, k)
    PROVE  IInv'
<1> DEFINE end == Heard(p, "refused")
           new == [offer[p] EXCEPT ![k] = [offer[p][k] EXCEPT !.step = end]]
<1>1. /\ k \in Running(p) /\ end \in {"refused", "unheard"}
      /\ offer[p] \in [Offers(p) -> OfferRecord(p)]
      /\ offer' = [offer EXCEPT ![p] = new]
  BY SocketFacts DEF Refuse, Heard
<1>2. new[k] = [offer[p][k] EXCEPT !.step = end]
  BY <1>1
<1>3. new[k] \in OfferRecord(p) /\ new[k].step = end
  BY <1>1, <1>2, RunningFacts DEF OfferRecord
<1>4. new \in [Offers(p) -> OfferRecord(p)]
  BY <1>1, <1>2, <1>3
<1>5. offer'[p] = new
  BY <1>1 DEF IInv, ShapeInv
<1>6. HandlerInv(p, k)'
  BY <1>1, <1>3, <1>5 DEF HandlerInv, Running
<1>7. \A j \in Offers(p) :
          /\ new[j].chan = offer[p][j].chan /\ new[j].place = offer[p][j].place
          /\ new[j].during = offer[p][j].during /\ new[j].conn = offer[p][j].conn
  BY <1>1, <1>2, RunningFacts DEF OfferRecord
<1>8. \A j \in Offers(p) \ {k} : new[j] = offer[p][j]
  BY <1>1
<1>9. UNCHANGED <<ws, peers, pc, dc, bucket, now, passed>>
  BY DEF Refuse
<1> HIDE DEF new
<1> QED
  BY <1>1, <1>3, <1>4, <1>6, <1>7, <1>8, <1>9, HandlerStep

\* The handler goes on with whatever connection pc holds by then: its own or
\* that of an offer that came meanwhile.
LEMMA RemoteSetStep ==
    ASSUME IInv, NEW p \in Sockets, NEW k \in Offers(p), RemoteSet(p, k)
    PROVE  IInv'
<1> DEFINE rec == [offer[p][k] EXCEPT !.conn = "offered", !.step = "answer", !.via = pc[p]]
           new == [offer[p] EXCEPT ![k] = rec]
<1>1. /\ k \in Running(p) /\ offer[p][k].conn = "new"
      /\ offer[p] \in [Offers(p) -> OfferRecord(p)]
      /\ pc[p] \in 0 .. NumOffers[p] /\ pc[p] # 0
  BY SocketFacts DEF RemoteSet, Running
<1>2. offer' = [offer EXCEPT ![p] = new]
  BY DEF RemoteSet
<1>3. /\ rec \in OfferRecord(p)
      /\ rec.conn = "offered" /\ rec.step = "answer" /\ rec.via = pc[p]
      /\ rec.chan = offer[p][k].chan /\ rec.place = offer[p][k].place
      /\ rec.during = offer[p][k].during
  BY ZenonT(60), <1>1, RunningFacts DEF OfferRecord
<1> HIDE DEF rec
<1>4. /\ new \in [Offers(p) -> OfferRecord(p)]
      /\ new[k] = rec
      /\ \A j \in Offers(p) \ {k} : new[j] = offer[p][j]
  BY <1>1, <1>3
<1> HIDE DEF new
<1>5. offer'[p] = new
  BY <1>2 DEF IInv, ShapeInv
<1>6. UNCHANGED <<ws, peers, pc, dc, bucket, now, passed>>
  BY DEF RemoteSet
<1>7. HandlerInv(p, k)'
  <2>1. pc[p] \in {k} \cup rec.during
    BY <1>1, <1>3, RunningFacts
  <2> QED
    BY <1>3, <1>4, <1>5, <1>6, <2>1 DEF HandlerInv
<1> QED
  BY <1>1, <1>2, <1>3, <1>4, <1>6, <1>7, HandlerStep

LEMMA AnswerMadeStep ==
    ASSUME IInv, NEW p \in Sockets, NEW k \in Offers(p), AnswerMade(p, k)
    PROVE  IInv'
<1> DEFINE via == offer[p][k].via
           rec == [offer[p][k] EXCEPT !.step = "local", !.answer = via, !.via = pc[p]]
           new == [offer[p] EXCEPT ![k] = rec]
<1>1. /\ k \in Running(p)
      /\ offer[p] \in [Offers(p) -> OfferRecord(p)]
      /\ pc[p] \in 0 .. NumOffers[p] /\ pc[p] # 0
      /\ via \in 0 .. NumOffers[p]
  BY SocketFacts DEF AnswerMade, Running, OfferRecord
<1>2. offer' = [offer EXCEPT ![p] = new]
  BY DEF AnswerMade
<1>3. via \in {k} \cup offer[p][k].during /\ pc[p] \in {k} \cup offer[p][k].during
  BY <1>1, RunningFacts
<1>4. /\ rec \in OfferRecord(p)
      /\ rec.step = "local" /\ rec.via = pc[p] /\ rec.answer = via
      /\ rec.chan = offer[p][k].chan /\ rec.place = offer[p][k].place
      /\ rec.conn = offer[p][k].conn
      /\ rec.during = offer[p][k].during
  BY ZenonT(60), <1>1, RunningFacts DEF OfferRecord
<1> HIDE DEF rec
<1>5. /\ new \in [Offers(p) -> OfferRecord(p)]
      /\ new[k] = rec
      /\ \A j \in Offers(p) \ {k} : new[j] = offer[p][j]
  BY <1>1, <1>4
<1> HIDE DEF new
<1>6. offer'[p] = new
  BY <1>2 DEF IInv, ShapeInv
<1>7. UNCHANGED <<ws, peers, pc, dc, bucket, now, passed>>
  BY DEF AnswerMade
<1>8. HandlerInv(p, k)'
  BY <1>3, <1>4, <1>5, <1>6, <1>7 DEF HandlerInv
<1> QED
  BY <1>1, <1>2, <1>4, <1>5, <1>7, <1>8, HandlerStep

\* The connection that takes the local description need not be the offer's own.
LEMMA LocalSetStep ==
    ASSUME IInv, NEW p \in Sockets, NEW k \in Offers(p), LocalSet(p, k)
    PROVE  IInv'
<1> DEFINE via == offer[p][k].via
           end == Heard(p, "answered")
           up == [offer[p][via] EXCEPT !.conn = "stable"]
           mid == [offer[p] EXCEPT ![via] = up]
           done == [mid[k] EXCEPT !.step = end]
           new == [mid EXCEPT ![k] = done]
<1>1. /\ k \in Running(p) /\ via \in Offers(p)
      /\ offer[p] \in [Offers(p) -> OfferRecord(p)]
      /\ offer[p][via].conn = "offered"
      /\ offer[p][k].step = "local"
      /\ end \in {"answered", "unheard"}
  BY SocketFacts, RunningFacts DEF LocalSet, Running, Heard
<1>2. offer' = [offer EXCEPT ![p] = new]
  <2>1. offer' = [offer EXCEPT ![p][via].conn = "stable", ![p][k].step = end]
    BY DEF LocalSet
  <2>2. [offer EXCEPT ![p][via].conn = "stable"] = [offer EXCEPT ![p] = mid]
    OBVIOUS
  <2>3. offer' = [[offer EXCEPT ![p] = mid] EXCEPT ![p][k].step = end]
    BY <2>1, <2>2
  <2> HIDE DEF mid
  <2>4. [offer EXCEPT ![p] = mid][p] = mid
    BY DEF IInv, ShapeInv
  <2>5. offer' = [[offer EXCEPT ![p] = mid] EXCEPT ![p] = new]
    BY <2>3, <2>4
  <2> HIDE DEF new
  <2> QED
    BY <2>5 DEF IInv, ShapeInv
<1>3. /\ up \in OfferRecord(p) /\ offer[p][via] \in OfferRecord(p)
      /\ up.chan = offer[p][via].chan /\ up.place = offer[p][via].place
      /\ up.during = offer[p][via].during
      /\ up.via = offer[p][via].via /\ up.answer = offer[p][via].answer
      /\ up.conn = "stable" /\ up.step = offer[p][via].step
  BY <1>1 DEF OfferRecord
<1> HIDE DEF up
<1>4. /\ mid \in [Offers(p) -> OfferRecord(p)]
      /\ \A j \in Offers(p) :
            /\ mid[j].chan = offer[p][j].chan /\ mid[j].place = offer[p][j].place
            /\ mid[j].during = offer[p][j].during
            /\ mid[j].via = offer[p][j].via /\ mid[j].answer = offer[p][j].answer
            /\ mid[j].conn = IF j = via THEN "stable" ELSE offer[p][j].conn
            /\ mid[j].step = offer[p][j].step
  BY <1>1, <1>3
<1> HIDE DEF mid
<1>5. /\ done \in OfferRecord(p)
      /\ done.chan = mid[k].chan /\ done.place = mid[k].place
      /\ done.during = mid[k].during
      /\ done.via = mid[k].via /\ done.answer = mid[k].answer
      /\ done.conn = mid[k].conn /\ done.step = end
  <2>1. mid[k] \in OfferRecord(p)
    BY <1>1, <1>4, RunningFacts
  <2> QED
    BY <1>1, <2>1 DEF OfferRecord
<1> HIDE DEF done
<1>6. /\ new \in [Offers(p) -> OfferRecord(p)]
      /\ \A j \in Offers(p) :
            /\ new[j].chan = offer[p][j].chan /\ new[j].place = offer[p][j].place
            /\ new[j].during = offer[p][j].during
            /\ new[j].via = offer[p][j].via /\ new[j].answer = offer[p][j].answer
            /\ new[j].conn = IF j = via THEN "stable" ELSE offer[p][j].conn
            /\ new[j].step = IF j = k THEN end ELSE offer[p][j].step
  BY <1>4, <1>5
<1> HIDE DEF new
<1>7. offer'[p] = new
  BY <1>2 DEF IInv, ShapeInv
<1>8. UNCHANGED <<ws, peers, pc, dc, bucket, now, passed>>
  BY DEF LocalSet
<1>9. HandlerInv(p, k)'
  <2>1. k \in Offers(p) /\ offer[p][k].answer \in {k} \cup offer[p][k].during
    BY <1>1, SocketFacts, RunningFacts DEF SocketInv, HandlerInv
  <2>2. /\ new[k].step = end /\ new[k].answer = offer[p][k].answer
        /\ new[k].during = offer[p][k].during
    BY <1>6, <2>1
  <2>3. new[k].step \notin {"none", "remote", "answer", "local"}
    BY <1>1, <2>2
  <2> QED
    BY <1>7, <2>1, <2>2, <2>3 DEF HandlerInv, Running
<1>10. /\ \A j \in Offers(p) : \/ new[j].conn = offer[p][j].conn
                               \/ offer[p][j].conn \notin {"none", "closed"}
       /\ new[k].step # "none"
  BY <1>1, <1>6, RunningFacts
<1>11. \A j \in Offers(p) \ {k} :
           /\ new[j].step = offer[p][j].step /\ new[j].via = offer[p][j].via
           /\ new[j].answer = offer[p][j].answer
  BY <1>6
<1> QED
  BY ZenonT(60), <1>1, <1>2, <1>6, <1>8, <1>9, <1>10, <1>11, HandlerStep

\* An offer takes the variable pc over, and every handler that runs is told.
LEMMA OfferStep ==
    ASSUME IInv, NEW p \in Sockets, NEW k \in Offers(p), Offer(p, k)
    PROVE  IInv'
<1> DEFINE first == [NoOffer EXCEPT !.conn = "new", !.step = "remote", !.via = k]
           told(j) == [offer[p][j] EXCEPT !.during =
                          IF j \in Running(p) THEN @ \cup {k} ELSE @]
           new == [j \in Offers(p) |-> IF j = k THEN first ELSE told(j)]
<1>1. /\ ws[p] = "open"
      /\ \A j \in Offers(p) : offer[p][j].step = "none" <=> j >= k
      /\ offer[p] \in [Offers(p) -> OfferRecord(p)]
      /\ NumOffers[p] \in Nat /\ k \in 0 .. NumOffers[p] /\ k \in Nat
      /\ dc[p] \in 0 .. NumOffers[p]
      /\ SocketInv(p)
  BY SocketFacts DEF Offer, Offers
<1>2. /\ offer' = [offer EXCEPT ![p] = new] /\ offer'[p] = new
      /\ pc' = [pc EXCEPT ![p] = k] /\ pc'[p] = k
      /\ dc' = [dc EXCEPT ![p] = dc[p]] /\ dc'[p] = dc[p]
      /\ UNCHANGED <<ws, peers, bucket, now, passed>>
  BY DEF Offer, IInv, ShapeInv
<1>3. /\ first \in OfferRecord(p)
      /\ first.step = "remote" /\ first.via = k /\ first.conn = "new"
      /\ first.chan = "none" /\ first.place = "none"
  <2>1. 0 \in 0 .. NumOffers[p]
    BY <1>1
  <2>2. /\ NoOffer \in OfferRecord(p)
        /\ NoOffer.chan = "none" /\ NoOffer.place = "none"
    BY <2>1 DEF OfferRecord, NoOffer
  <2> QED
    BY <1>1, <2>2 DEF OfferRecord
<1>4. ASSUME NEW j \in Offers(p) \ {k}
      PROVE  /\ told(j) \in OfferRecord(p)
             /\ told(j).step = offer[p][j].step /\ told(j).via = offer[p][j].via
             /\ told(j).answer = offer[p][j].answer /\ told(j).conn = offer[p][j].conn
             /\ told(j).chan = offer[p][j].chan /\ told(j).place = offer[p][j].place
             /\ offer[p][j].during \subseteq told(j).during
             /\ j \in Running(p) => k \in told(j).during
             /\ j \notin Running(p) => told(j) = offer[p][j]
  <2>1. offer[p][j] \in OfferRecord(p)
    BY <1>1
  <2> QED
    BY <2>1 DEF OfferRecord
<1> HIDE DEF first, told
<1>5. /\ new \in [Offers(p) -> OfferRecord(p)]
      /\ new[k] = first
      /\ \A j \in Offers(p) \ {k} : new[j] = told(j)
  BY <1>3, <1>4
<1> HIDE DEF new
<1>6. \A j \in Offers(p) : new[j].step # "none" <=> j <= k
  <2>1. \A j \in Offers(p) \ {k} : new[j].step # "none" <=> ~(j >= k)
    BY <1>1, <1>4, <1>5
  <2>2. new[k].step # "none"
    BY <1>3, <1>5
  <2>3. \A j \in Offers(p) : j \in Nat
    BY <1>1 DEF Offers
  <2>4. \A j \in Offers(p) \ {k} : ~(j >= k) <=> j <= k
    BY <1>1, <2>3
  <2> QED
    BY <1>1, <2>1, <2>2, <2>3, <2>4
<1>7. UnopenedInv(p)' /\ NewestInv(p)'
  BY <1>1, <1>2, <1>6 DEF UnopenedInv, NewestInv
<1>8. ASSUME NEW j \in Offers(p)
      PROVE  HandlerInv(p, j)'
  <2>1. CASE j = k
    BY <1>2, <1>3, <1>5, <2>1 DEF HandlerInv
  <2>2. CASE j # k
    <3>1. HandlerInv(p, j) /\ new[j] = told(j)
      BY <1>1, <1>5, <2>2 DEF SocketInv
    <3>2. CASE j \in Running(p)
      BY <1>2, <1>4, <2>2, <3>1, <3>2 DEF HandlerInv, Running
    <3>3. CASE j \notin Running(p)
      BY <1>2, <1>4, <2>2, <3>1, <3>3 DEF HandlerInv, Running
    <3> QED
      BY <3>2, <3>3
  <2> QED
    BY <2>1, <2>2
<1>9. \A j \in Offers(p) : LeftInv(p, j)'
  BY <1>1, <1>2 DEF LeftInv
<1>10. /\ offer[p][k].place = "none"
       /\ \A j \in Offers(p) :
             /\ new[j].place = offer[p][j].place
             /\ new[j].chan = "open" => offer[p][j].chan = "open"
  <2>1. offer[p][k] = NoOffer
    BY <1>1 DEF SocketInv, HandlerInv
  <2> QED
    BY <1>3, <1>4, <1>5, <2>1 DEF NoOffer
<1>11. \A j \in Offers(p) : ChannelInv(p, j)'
  BY <1>1, <1>2, <1>10 DEF SocketInv, ChannelInv
<1> QED
  BY <1>1, <1>2, <1>5, <1>7, <1>8, <1>9, <1>11, OwnOffers

----------------------------------------------------------------------------
(* Channels. *)

\* A step of a channel leaves the handlers of the offers alone.
LEMMA ChannelStep ==
    ASSUME IInv, NEW p \in Sockets, UNCHANGED <<ws, peers, pc, bucket, now, passed>>,
           NEW new \in [Offers(p) -> OfferRecord(p)], offer' = [offer EXCEPT ![p] = new],
           NEW newDc \in 0 .. NumOffers[p], dc' = [dc EXCEPT ![p] = newDc],
           \A j \in Offers(p) :
               /\ new[j].conn = offer[p][j].conn /\ new[j].step = offer[p][j].step
               /\ new[j].via = offer[p][j].via /\ new[j].answer = offer[p][j].answer
               /\ new[j].during = offer[p][j].during
               /\ offer[p][j] = NoOffer => new[j] = NoOffer,
           \A j \in Offers(p) : LeftInv(p, j)' /\ ChannelInv(p, j)'
    PROVE  IInv'
<1>1. /\ offer'[p] = new
      /\ SocketInv(p)
      /\ pc' = [pc EXCEPT ![p] = pc[p]]
      /\ pc[p] \in 0 .. NumOffers[p]
  BY SocketFacts DEF IInv, ShapeInv
<1>2. UnopenedInv(p)' /\ NewestInv(p)'
  BY <1>1 DEF SocketInv, UnopenedInv, NewestInv
<1>3. ASSUME NEW j \in Offers(p)
      PROVE  HandlerInv(p, j)'
  BY <1>1 DEF SocketInv, HandlerInv, Running
<1> QED
  BY <1>1, <1>2, <1>3, OwnOffers

\* The channel that opens is the newest, and the one in use.
LEMMA ChannelOpensStep ==
    ASSUME IInv, NEW p \in Sockets, NEW k \in Offers(p), ChannelOpens(p, k)
    PROVE  IInv'
<1> DEFINE rec(j) == [offer[p][j] EXCEPT
                         !.chan = IF j = k THEN "open" ELSE @,
                         !.place = IF j = k THEN "newest"
                                   ELSE IF @ = "none" THEN @ ELSE "older"]
           new == [j \in Offers(p) |-> rec(j)]
<1>1. /\ offer[p] \in [Offers(p) -> OfferRecord(p)]
      /\ offer[p][k].conn = "stable"
      /\ NumOffers[p] \in Nat /\ k \in 0 .. NumOffers[p]
      /\ SocketInv(p)
  BY SocketFacts DEF ChannelOpens, Reached, Offers
<1>2. ASSUME NEW j \in Offers(p)
      PROVE  /\ rec(j) \in OfferRecord(p)
             /\ rec(j).conn = offer[p][j].conn /\ rec(j).step = offer[p][j].step
             /\ rec(j).via = offer[p][j].via /\ rec(j).answer = offer[p][j].answer
             /\ rec(j).during = offer[p][j].during
             /\ rec(j).chan = IF j = k THEN "open" ELSE offer[p][j].chan
             /\ rec(j).place = "newest" <=> j = k
             /\ j # k /\ offer[p][j].place = "none" => rec(j) = offer[p][j]
  <2>1. offer[p][j] \in OfferRecord(p)
    BY <1>1
  <2> QED
    BY <2>1 DEF OfferRecord
<1> HIDE DEF rec
<1>3. /\ new \in [Offers(p) -> OfferRecord(p)]
      /\ \A j \in Offers(p) : new[j] = rec(j)
  BY <1>2
<1>4. offer' = [offer EXCEPT ![p] = new] /\ dc' = [dc EXCEPT ![p] = k]
  BY DEF ChannelOpens, Opened, rec
<1> HIDE DEF new
<1>5. offer'[p] = new /\ dc'[p] = k
  BY <1>4 DEF IInv, ShapeInv
<1>6. UNCHANGED <<ws, peers, pc, bucket, now, passed>>
  BY DEF ChannelOpens
<1>7. \A j \in Offers(p) :
          /\ new[j].conn = offer[p][j].conn /\ new[j].step = offer[p][j].step
          /\ new[j].via = offer[p][j].via /\ new[j].answer = offer[p][j].answer
          /\ new[j].during = offer[p][j].during
          /\ new[j].chan = IF j = k THEN "open" ELSE offer[p][j].chan
  BY <1>2, <1>3
<1>8. ASSUME NEW j \in Offers(p)
      PROVE  LeftInv(p, j)' /\ ChannelInv(p, j)'
  <2>1. LeftInv(p, j)'
    <3>1. /\ new[j].chan = "open" \/ new[j].conn \notin {"none", "closed"}
             => offer[p][j].chan = "open" \/ offer[p][j].conn \notin {"none", "closed"}
          /\ LeftInv(p, j)
      BY <1>1, <1>7 DEF SocketInv
    <3> QED
      BY <1>5, <1>6, <1>7, <3>1 DEF LeftInv
  <2>2. ChannelInv(p, j)'
    BY <1>2, <1>3, <1>5 DEF ChannelInv
  <2> QED
    BY <2>1, <2>2
<1>9. \A j \in Offers(p) : offer[p][j] = NoOffer => new[j] = NoOffer
  BY <1>1, <1>2, <1>3 DEF NoOffer
<1> QED
  BY ZenonT(60), <1>1, <1>3, <1>4, <1>6, <1>7, <1>8, <1>9, ChannelStep

LEMMA TooLargeStep ==
    ASSUME IInv, NEW p \in Sockets, NEW k \in Offers(p), TooLarge(p, k)
    PROVE  IInv'
<1> DEFINE rec == [offer[p][k] EXCEPT !.chan = "closing"]
           new == [offer[p] EXCEPT ![k] = rec]
<1>1. /\ offer[p] \in [Offers(p) -> OfferRecord(p)]
      /\ offer[p][k].chan = "open"
      /\ dc[p] \in 0 .. NumOffers[p]
      /\ SocketInv(p)
  BY SocketFacts DEF TooLarge
<1>2. /\ rec \in OfferRecord(p)
      /\ rec.conn = offer[p][k].conn /\ rec.step = offer[p][k].step
      /\ rec.via = offer[p][k].via /\ rec.answer = offer[p][k].answer
      /\ rec.during = offer[p][k].during /\ rec.place = offer[p][k].place
      /\ rec.chan = "closing"
  BY <1>1 DEF OfferRecord
<1>3. /\ offer' = [offer EXCEPT ![p] = new]
      /\ dc' = [dc EXCEPT ![p] = dc[p]] /\ dc'[p] = dc[p]
      /\ UNCHANGED <<ws, peers, pc, bucket, now, passed>>
  BY DEF TooLarge, IInv, ShapeInv
<1> HIDE DEF rec
<1>4. /\ new \in [Offers(p) -> OfferRecord(p)]
      /\ new[k] = rec
      /\ \A j \in Offers(p) \ {k} : new[j] = offer[p][j]
  BY <1>1, <1>2
<1> HIDE DEF new
<1>5. offer'[p] = new
  BY <1>3 DEF IInv, ShapeInv
<1>6. \A j \in Offers(p) :
          /\ new[j].conn = offer[p][j].conn /\ new[j].step = offer[p][j].step
          /\ new[j].via = offer[p][j].via /\ new[j].answer = offer[p][j].answer
          /\ new[j].during = offer[p][j].during /\ new[j].place = offer[p][j].place
          /\ new[j].chan = "open" => offer[p][j].chan = "open"
  BY <1>2, <1>4
<1>7. \A j \in Offers(p) : LeftInv(p, j)' /\ ChannelInv(p, j)'
  BY <1>1, <1>3, <1>5, <1>6 DEF SocketInv, LeftInv, ChannelInv
<1>8. \A j \in Offers(p) : offer[p][j] = NoOffer => new[j] = NoOffer
  BY <1>1, <1>4 DEF NoOffer
<1> QED
  BY ZenonT(60), <1>1, <1>3, <1>4, <1>6, <1>7, <1>8, ChannelStep

\* Whichever channel closes, none is in use any more, and the newest one, if it
\* is another, counts as overtaken.
LEMMA ChannelClosesStep ==
    ASSUME IInv, NEW p \in Sockets, NEW k \in Offers(p), ChannelCloses(p, k)
    PROVE  IInv'
<1> DEFINE rec(j) == [offer[p][j] EXCEPT
                         !.chan = IF j = k THEN "closed" ELSE @,
                         !.place = IF j # k /\ @ = "newest" THEN "overtaken" ELSE @]
           new == [j \in Offers(p) |-> rec(j)]
<1>1. /\ offer[p] \in [Offers(p) -> OfferRecord(p)]
      /\ offer[p][k].chan \in {"open", "closing"}
      /\ NumOffers[p] \in Nat /\ 0 \in 0 .. NumOffers[p] /\ 0 \notin Offers(p)
      /\ SocketInv(p)
  <2>1. 0 \notin Offers(p)
    BY DEF Offers
  <2>2. NumOffers[p] \in Nat
    BY SocketFacts
  <2>3. 0 \in 0 .. NumOffers[p]
    BY <2>2
  <2> QED
    BY <2>1, <2>2, <2>3, SocketFacts DEF ChannelCloses
<1>2. ASSUME NEW j \in Offers(p)
      PROVE  /\ rec(j) \in OfferRecord(p)
             /\ rec(j).conn = offer[p][j].conn /\ rec(j).step = offer[p][j].step
             /\ rec(j).via = offer[p][j].via /\ rec(j).answer = offer[p][j].answer
             /\ rec(j).during = offer[p][j].during
             /\ rec(j).chan = IF j = k THEN "closed" ELSE offer[p][j].chan
             /\ rec(j).place = "newest" => j = k
             /\ j # k /\ offer[p][j].place = "none" => rec(j) = offer[p][j]
  <2>1. offer[p][j] \in OfferRecord(p)
    BY <1>1
  <2> QED
    BY ZenonT(60), <2>1 DEF OfferRecord
<1> HIDE DEF rec
<1>3. /\ new \in [Offers(p) -> OfferRecord(p)]
      /\ \A j \in Offers(p) : new[j] = rec(j)
  BY <1>2
<1>4. offer' = [offer EXCEPT ![p] = new] /\ dc' = [dc EXCEPT ![p] = 0]
  BY DEF ChannelCloses, rec
<1> HIDE DEF new
<1>5. offer'[p] = new /\ dc'[p] = 0
  BY <1>4 DEF IInv, ShapeInv
<1>6. UNCHANGED <<ws, peers, pc, bucket, now, passed>>
  BY DEF ChannelCloses
<1>7. \A j \in Offers(p) :
          /\ new[j].conn = offer[p][j].conn /\ new[j].step = offer[p][j].step
          /\ new[j].via = offer[p][j].via /\ new[j].answer = offer[p][j].answer
          /\ new[j].during = offer[p][j].during
          /\ new[j].chan = IF j = k THEN "closed" ELSE offer[p][j].chan
  BY <1>2, <1>3
<1>8. ASSUME NEW j \in Offers(p)
      PROVE  LeftInv(p, j)' /\ ChannelInv(p, j)'
  <2>1. LeftInv(p, j)'
    <3>1. /\ new[j].chan = "open" \/ new[j].conn \notin {"none", "closed"}
             => offer[p][j].chan = "open" \/ offer[p][j].conn \notin {"none", "closed"}
          /\ LeftInv(p, j)
      BY <1>1, <1>7 DEF SocketInv
    <3> QED
      BY <1>5, <1>6, <1>7, <3>1 DEF LeftInv
  <2>2. ChannelInv(p, j)'
    BY <1>1, <1>2, <1>3, <1>5 DEF ChannelInv
  <2> QED
    BY <2>1, <2>2
<1>9. \A j \in Offers(p) : offer[p][j] = NoOffer => new[j] = NoOffer
  BY <1>1, <1>2, <1>3 DEF NoOffer
<1> QED
  BY ZenonT(60), <1>1, <1>3, <1>4, <1>6, <1>7, <1>8, <1>9, ChannelStep

LEMMA SubmitStep ==
    ASSUME IInv, NEW p \in Sockets, NEW k \in Offers(p), Submit(p, k)
    PROVE  IInv'
<1> DEFINE b == bucket[p]
           one == IF Allows(b, now) THEN 1 ELSE 0
<1>1. /\ b \in Bucket /\ now \in Nat
      /\ passed[p] \in [count : Nat, from : 0 .. MaxTime, high : 0 .. MaxTime]
      /\ pc[p] \in 0 .. NumOffers[p] /\ dc[p] \in 0 .. NumOffers[p]
      /\ offer[p] \in [Offers(p) -> OfferRecord(p)]
      /\ SocketInv(p)
      /\ Unit \in Nat /\ Refill \in Nat /\ Capacity \in Nat
  BY SocketFacts, SessionAssumption, BucketAssumption DEF IInv, TypeOK, Refill, Capacity
<1>2. /\ Allow(b, now) \in Bucket
      /\ b.last <= Allow(b, now).last
      /\ Allow(b, now).last \in {b.last, now}
      /\ (IF Allows(b, now) THEN Unit ELSE 0) + Allow(b, now).tokens
            <= b.tokens + Refill * (Allow(b, now).last - b.last)
  BY <1>1, AllowFacts
<1>3. /\ bucket'[p] = Allow(b, now)
      /\ passed'[p] = [passed[p] EXCEPT !.count = @ + one]
      /\ UNCHANGED <<ws, peers, pc, offer, dc, now>>
  BY DEF Submit, IInv, ShapeInv
<1>4. one \in Nat /\ one * Unit = IF Allows(b, now) THEN Unit ELSE 0
  BY <1>1
<1>5. /\ passed'[p] \in [count : Nat, from : 0 .. MaxTime, high : 0 .. MaxTime]
      /\ passed'[p].count = passed[p].count + one
      /\ passed'[p].from = passed[p].from /\ passed'[p].high = passed[p].high
  BY <1>1, <1>3, <1>4
<1> HIDE DEF one
<1>6. ws[p] \in {"open", "failed", "gone"}
  <2>1. offer[p][k] # NoOffer
    BY DEF Submit, NoOffer
  <2> QED
    BY <1>1, <2>1 DEF SocketInv, UnopenedInv, IInv, TypeOK
<1>7. RateInv(p)'
  <2> DEFINE f == passed[p].from
             l == b.last
             m == Allow(b, now).last
  <2>1. /\ f \in Nat /\ l \in Nat /\ m \in Nat /\ passed[p].high \in Nat
        /\ passed[p].count \in Nat /\ b.tokens \in Nat /\ Allow(b, now).tokens \in Nat
    BY <1>1, <1>2, SessionAssumption DEF Bucket, Capacity
  <2>2. /\ f <= l /\ l <= passed[p].high /\ now <= passed[p].high
        /\ passed[p].count * Unit + b.tokens <= Capacity + Refill * (l - f)
    BY <1>1, <1>6 DEF SocketInv, RateInv
  <2>3. f <= m /\ m <= passed[p].high
    BY <1>1, <1>2, <2>1, <2>2
  <2>4. (passed[p].count + one) * Unit
            = passed[p].count * Unit + (IF Allows(b, now) THEN Unit ELSE 0)
    <3>1. /\ passed[p].count \in Int /\ one \in Int /\ Unit \in Int
          /\ one * Unit = IF Allows(b, now) THEN Unit ELSE 0
      BY <1>1, <1>4, <2>1
    <3>2. \A x, y, z \in Int : (x + y) * z = x * z + y * z
      OBVIOUS
    <3>3. (passed[p].count + one) * Unit = passed[p].count * Unit + one * Unit
      BY <3>1, <3>2
    <3> QED
      BY <3>1, <3>3
  <2>5. Refill * (l - f) + Refill * (m - l) = Refill * (m - f)
    BY <1>1, <2>1, ProductFacts
  <2>6. /\ passed[p].count * Unit \in Nat
        /\ Refill * (l - f) \in Int /\ Refill * (m - l) \in Int
    BY <1>1, <2>1
  <2> HIDE DEF f, l, m
  <2>7. (passed[p].count + one) * Unit + Allow(b, now).tokens <= Capacity + Refill * (m - f)
    <3> DEFINE part == IF Allows(b, now) THEN Unit ELSE 0
    <3>1. part \in Nat /\ part + Allow(b, now).tokens <= b.tokens + Refill * (m - l)
      BY <1>1, <1>2 DEF l, m
    <3> HIDE DEF part
    <3>2. (passed[p].count + one) * Unit = passed[p].count * Unit + part
      BY <2>4 DEF part
    <3> QED
      BY <1>1, <2>1, <2>2, <2>5, <2>6, <3>1, <3>2
  <2> QED
    BY <1>3, <1>5, <2>2, <2>3, <2>7 DEF RateInv, f, m
<1>8. ASSUME NEW j \in Offers(p)
      PROVE  HandlerInv(p, j)' /\ LeftInv(p, j)' /\ ChannelInv(p, j)'
  BY <1>1, <1>3 DEF SocketInv, HandlerInv, LeftInv, ChannelInv, Running
<1>9. SocketInv(p)'
  BY <1>1, <1>3, <1>7, <1>8 DEF SocketInv, UnopenedInv, NewestInv
<1>10. /\ bucket' \in [Sockets -> Bucket]
       /\ passed' \in [Sockets -> [count : Nat, from : 0 .. MaxTime, high : 0 .. MaxTime]]
  <2>1. /\ bucket' = [bucket EXCEPT ![p] = Allow(b, now)]
        /\ passed' = [passed EXCEPT ![p] = passed'[p]]
    BY <1>3 DEF Submit, IInv, ShapeInv
  <2> QED
    BY <1>2, <1>5, <2>1 DEF IInv, ShapeInv
<1>11. ShapeInv'
  BY <1>3, <1>10 DEF IInv, ShapeInv
<1>12. \A q \in Sockets \ {p} : bucket'[q] = bucket[q] /\ passed'[q] = passed[q]
  BY DEF Submit, IInv, ShapeInv
<1> QED
  BY <1>1, <1>3, <1>9, <1>11, <1>12, OwnSocket DEF IInv, TypeOK

----------------------------------------------------------------------------
(* The websocket and the clock. *)

LEMMA ConnectStep ==
    ASSUME IInv, NEW p \in Sockets, Connect(p)
    PROVE  IInv'
<1>1. /\ ws[p] = "new" /\ UNCHANGED <<pc, offer, dc, now>>
      /\ pc[p] \in 0 .. NumOffers[p] /\ dc[p] \in 0 .. NumOffers[p]
      /\ offer[p] \in [Offers(p) -> OfferRecord(p)]
      /\ SocketInv(p)
      /\ pc[p] = 0 /\ \A k \in Offers(p) : offer[p][k] = NoOffer
      /\ peers = {q \in Sockets : ws[q] = "open"} /\ IsFiniteSet(peers)
      /\ Cardinality(peers) <= ConnMax /\ Cardinality(peers) \in Nat
      /\ now \in 0 .. MaxTime /\ now \in Nat
      /\ NumOffers[p] \in Nat
  <2>1. /\ ws[p] = "new" /\ UNCHANGED <<pc, offer, dc, now>>
    BY DEF Connect
  <2>2. /\ pc[p] \in 0 .. NumOffers[p] /\ dc[p] \in 0 .. NumOffers[p]
        /\ offer[p] \in [Offers(p) -> OfferRecord(p)]
        /\ SocketInv(p)
    BY SocketFacts
  <2>3. pc[p] = 0 /\ \A k \in Offers(p) : offer[p][k] = NoOffer
    BY <2>1, <2>2 DEF SocketInv, UnopenedInv
  <2>4. /\ peers = {q \in Sockets : ws[q] = "open"} /\ IsFiniteSet(peers)
        /\ Cardinality(peers) <= ConnMax /\ now \in 0 .. MaxTime
    BY DEF IInv, TypeOK, ShapeInv
  <2> QED
    BY <2>1, <2>2, <2>3, <2>4, FS_CardinalityType, SessionAssumption
<1>2. \A q \in Sockets \ {p} :
          ws'[q] = ws[q] /\ bucket'[q] = bucket[q] /\ passed'[q] = passed[q]
  BY DEF Connect, IInv, TypeOK, ShapeInv
<1>3. ASSUME NEW k \in Offers(p)
      PROVE  HandlerInv(p, k)' /\ LeftInv(p, k)' /\ ChannelInv(p, k)'
  <2>1. offer'[p][k] = NoOffer /\ offer[p][k] = NoOffer /\ ChannelInv(p, k)
    BY <1>1 DEF SocketInv
  <2>2. HandlerInv(p, k)'
    BY <2>1 DEF HandlerInv, Running, NoOffer
  <2>3. LeftInv(p, k)'
    BY <2>1 DEF LeftInv, NoOffer
  <2>4. ChannelInv(p, k)'
    BY <1>1, <2>1 DEF ChannelInv, NoOffer
  <2> QED
    BY <2>2, <2>3, <2>4
<1>4. NewestInv(p)'
  <2>1. \A k \in Offers(p) : offer'[p][k].step = "none" /\ ~(k <= pc'[p])
    BY <1>1 DEF NoOffer, Offers
  <2> QED
    BY <2>1 DEF NewestInv
<1>5. UnopenedInv(p)'
  BY <1>1 DEF UnopenedInv
<1>6. CASE /\ Cardinality(peers) >= ConnMax
           /\ ws' = [ws EXCEPT ![p] = "busy"]
           /\ UNCHANGED <<peers, bucket, passed>>
  <2>1. /\ ws' \in [Sockets -> {"new", "open", "failed", "gone", "busy"}]
        /\ ws'[p] = "busy"
    BY <1>6 DEF IInv, TypeOK
  <2>2. peers' = {q \in Sockets : ws'[q] = "open"}
    BY <1>1, <1>2, <1>6, <2>1
  <2>3. RateInv(p)'
    BY <1>1, <1>6, <2>1 DEF SocketInv, RateInv
  <2>4. SocketInv(p)'
    BY <1>3, <1>4, <1>5, <2>3 DEF SocketInv
  <2>5. ShapeInv'
    BY <1>1, <1>6 DEF IInv, ShapeInv
  <2> QED
    BY <1>1, <1>2, <1>6, <2>1, <2>2, <2>4, <2>5, OwnSocket
<1>7. CASE /\ Cardinality(peers) < ConnMax
           /\ ws' = [ws EXCEPT ![p] = "open"]
           /\ peers' = peers \cup {p}
           /\ bucket' = [bucket EXCEPT ![p] = Full(now)]
           /\ passed' = [passed EXCEPT ![p] = [count |-> 0, from |-> now, high |-> now]]
  <2>1. /\ ws' \in [Sockets -> {"new", "open", "failed", "gone", "busy"}]
        /\ ws'[p] = "open"
    BY <1>7 DEF IInv, TypeOK
  <2>2. peers' = {q \in Sockets : ws'[q] = "open"}
    BY <1>1, <1>2, <1>7, <2>1
  <2>3. IsFiniteSet(peers') /\ Cardinality(peers') <= ConnMax
    <3>1. p \notin peers /\ ConnMax \in Nat
      BY <1>1, SessionAssumption
    <3>2. IsFiniteSet(peers') /\ Cardinality(peers') = Cardinality(peers) + 1
      BY <1>1, <1>7, <3>1, FS_AddElement
    <3> QED
      BY <1>1, <1>7, <3>1, <3>2
  <2>4. /\ Unit \in Nat /\ Capacity \in Nat /\ Refill \in Nat
    BY BucketAssumption DEF Capacity, Refill
  <2>5. Full(now) \in Bucket /\ Full(now) = [tokens |-> Capacity, last |-> now]
    BY <1>1, <2>4 DEF Full, Bucket
  <2>6. /\ bucket' \in [Sockets -> Bucket]
        /\ passed' \in [Sockets -> [count : Nat, from : 0 .. MaxTime, high : 0 .. MaxTime]]
        /\ bucket'[p] = [tokens |-> Capacity, last |-> now]
        /\ passed'[p] = [count |-> 0, from |-> now, high |-> now]
    BY <1>1, <1>7, <2>5 DEF IInv, ShapeInv
  <2>7. RateInv(p)'
    BY <1>1, <2>4, <2>6 DEF RateInv
  <2>8. SocketInv(p)'
    BY <1>3, <1>4, <1>5, <2>7 DEF SocketInv
  <2>9. ShapeInv'
    BY <1>1, <2>3, <2>6 DEF IInv, ShapeInv
  <2> QED
    BY <1>1, <1>2, <1>7, <2>1, <2>2, <2>3, <2>8, <2>9, OwnSocket
<1> QED
  BY <1>6, <1>7 DEF Connect

\* A websocket that fails or closes takes its session, the newest connection and
\* the channel in use with it; what else is up belongs to replaced connections.
LEMMA CleanupStep ==
    ASSUME IInv, NEW p \in Sockets, Cleanup(p), ws[p] \in {"open", "failed"},
           NEW end \in {"failed", "gone"}, ws' = [ws EXCEPT ![p] = end],
           UNCHANGED <<bucket, now, passed>>
    PROVE  IInv'
<1> DEFINE rec(j) == [offer[p][j] EXCEPT
                         !.conn = IF j = pc[p] THEN "closed" ELSE @,
                         !.chan = IF j \in {pc[p], dc[p]} /\ @ = "open" THEN "closing"
                                  ELSE @]
           new == [j \in Offers(p) |-> rec(j)]
<1>1. /\ offer[p] \in [Offers(p) -> OfferRecord(p)]
      /\ pc[p] \in 0 .. NumOffers[p] /\ dc[p] \in 0 .. NumOffers[p]
      /\ NumOffers[p] \in Nat
      /\ SocketInv(p)
      /\ peers = {q \in Sockets : ws[q] = "open"} /\ IsFiniteSet(peers)
      /\ Cardinality(peers) <= ConnMax /\ Cardinality(peers) \in Nat
  BY SocketFacts, FS_CardinalityType DEF IInv, TypeOK, ShapeInv
<1>2. ASSUME NEW j \in Offers(p)
      PROVE  /\ rec(j) \in OfferRecord(p)
             /\ rec(j).conn = IF j = pc[p] THEN "closed" ELSE offer[p][j].conn
             /\ rec(j).step = offer[p][j].step
             /\ rec(j).via = offer[p][j].via /\ rec(j).answer = offer[p][j].answer
             /\ rec(j).during = offer[p][j].during
             /\ rec(j).place = offer[p][j].place
             /\ rec(j).chan = "open" => offer[p][j].chan = "open"
             /\ j = pc[p] => rec(j).chan # "open"
             /\ j \notin {pc[p], dc[p]} => rec(j) = offer[p][j]
  <2>1. offer[p][j] \in OfferRecord(p)
    BY <1>1
  <2> QED
    BY ZenonT(60), <2>1 DEF OfferRecord
<1>3. offer' = [offer EXCEPT ![p] = new]
  BY DEF Cleanup
<1> HIDE DEF rec
<1>4. /\ new \in [Offers(p) -> OfferRecord(p)]
      /\ \A j \in Offers(p) : new[j] = rec(j)
  BY <1>2
<1> HIDE DEF new
<1>5. /\ offer' = [q \in Sockets |-> offer'[q]] /\ offer'[p] = new
      /\ pc' = [pc EXCEPT ![p] = 0] /\ pc'[p] = 0
      /\ dc' = [dc EXCEPT ![p] = 0] /\ dc'[p] = 0
      /\ ws'[p] = end
  BY <1>3 DEF Cleanup, IInv, ShapeInv, TypeOK
<1>6. \A j \in Offers(p) :
          /\ new[j].conn = IF j = pc[p] THEN "closed" ELSE offer[p][j].conn
          /\ new[j].step = offer[p][j].step
          /\ new[j].via = offer[p][j].via /\ new[j].answer = offer[p][j].answer
          /\ new[j].during = offer[p][j].during /\ new[j].place = offer[p][j].place
          /\ new[j].chan = "open" => offer[p][j].chan = "open" /\ j # pc[p]
  BY <1>2, <1>4
<1>7. ASSUME NEW j \in Offers(p)
      PROVE  HandlerInv(p, j)'
  <2>1. /\ HandlerInv(p, j)
        /\ j \in Running(p)' => j \in Running(p)
    BY <1>1, <1>5, <1>6 DEF SocketInv, Running
  <2>2. offer[p][j].step = "none" => new[j] = offer[p][j]
    <3> SUFFICES ASSUME offer[p][j].step = "none"
                 PROVE  j \notin {pc[p], dc[p]}
      BY <1>2, <1>4
    <3>1. offer[p][j] = NoOffer
      BY <2>1 DEF HandlerInv
    <3>2. dc[p] # j
      BY <1>1, <3>1 DEF SocketInv, ChannelInv, NoOffer
    <3>3. pc[p] # j
      <4>1. CASE ws[p] = "open"
        BY <1>1, <4>1 DEF SocketInv, NewestInv, Offers
      <4>2. CASE ws[p] = "failed"
        BY <1>1, <4>2 DEF SocketInv, UnopenedInv, Offers
      <4> QED
        BY <4>1, <4>2
    <3> QED
      BY <3>2, <3>3
  <2> QED
    BY <1>5, <1>6, <2>1, <2>2 DEF HandlerInv
<1>8. ASSUME NEW j \in Offers(p)
      PROVE  LeftInv(p, j)'
  <2> SUFFICES ASSUME new[j].chan = "open" \/ new[j].conn \notin {"none", "closed"}
               PROVE  \E i \in Offers(p) : i > j /\ offer[p][i].step # "none"
    BY <1>5, <1>6 DEF LeftInv
  <2>1. /\ j # pc[p]
        /\ offer[p][j].chan = "open" \/ offer[p][j].conn \notin {"none", "closed"}
    BY <1>6
  <2>2. CASE ws[p] = "open"
    <3>1. offer[p][j].step # "none"
      BY <1>1, <2>1 DEF SocketInv, HandlerInv, NoOffer
    <3>2. j <= pc[p]
      BY <1>1, <2>2, <3>1 DEF SocketInv, NewestInv
    <3>3. pc[p] \in Offers(p) /\ pc[p] > j /\ pc[p] <= pc[p]
      BY <1>1, <2>1, <3>2 DEF Offers
    <3> QED
      BY <1>1, <2>2, <3>3 DEF SocketInv, NewestInv
  <2>3. CASE ws[p] = "failed"
    BY <1>1, <2>1, <2>3 DEF SocketInv, LeftInv
  <2> QED
    BY <2>2, <2>3
<1>9. ASSUME NEW j \in Offers(p)
      PROVE  ChannelInv(p, j)'
  <2>1. dc'[p] # j
    BY <1>5 DEF Offers
  <2> QED
    BY <1>1, <1>5, <1>6, <2>1 DEF SocketInv, ChannelInv
<1>10. UnopenedInv(p)' /\ NewestInv(p)'
  BY <1>5 DEF UnopenedInv, NewestInv
<1>11. RateInv(p)'
  BY <1>1 DEF SocketInv, RateInv
<1>12. SocketInv(p)'
  BY <1>7, <1>8, <1>9, <1>10, <1>11 DEF SocketInv
<1>13. /\ ws' \in [Sockets -> {"new", "open", "failed", "gone", "busy"}]
       /\ peers' = {q \in Sockets : ws'[q] = "open"}
  <2>1. ws' \in [Sockets -> {"new", "open", "failed", "gone", "busy"}]
    BY DEF IInv, TypeOK
  <2>2. \A q \in Sockets \ {p} : ws'[q] = ws[q]
    BY DEF IInv, TypeOK
  <2> QED
    BY <1>1, <1>5, <2>1, <2>2 DEF Cleanup
<1>14. IsFiniteSet(peers') /\ Cardinality(peers') <= ConnMax
  <2>1. peers' = peers \ {p}
    BY DEF Cleanup
  <2>2. IsFiniteSet(peers') /\ Cardinality(peers') <= Cardinality(peers)
    BY <1>1, <2>1, FS_Subset
  <2>3. Cardinality(peers') \in Nat /\ ConnMax \in Nat
    BY <2>2, FS_CardinalityType, SessionAssumption
  <2> QED
    BY <1>1, <2>2, <2>3
<1>15. ShapeInv'
  BY <1>5, <1>14 DEF IInv, ShapeInv
<1>16. \A q \in Sockets \ {p} :
           /\ ws'[q] = ws[q] /\ pc'[q] = pc[q] /\ dc'[q] = dc[q] /\ offer'[q] = offer[q]
  BY <1>3, <1>5 DEF IInv, ShapeInv, TypeOK
<1>17. pc'[p] \in 0 .. NumOffers[p] /\ dc'[p] \in 0 .. NumOffers[p]
  BY <1>1, <1>5
<1> QED
  BY <1>4, <1>5, <1>12, <1>13, <1>14, <1>15, <1>16, <1>17, OwnSocket

LEMMA ClockStep ==
    ASSUME IInv, NEW t \in 0 .. MaxTime, Clock(t)
    PROVE  IInv'
<1>1. /\ now' = t /\ t \in Nat
      /\ UNCHANGED <<ws, peers, pc, offer, dc, bucket>>
  BY SessionAssumption DEF Clock
<1>2. ASSUME NEW p \in Sockets
      PROVE  /\ passed'[p] \in [count : Nat, from : 0 .. MaxTime, high : 0 .. MaxTime]
             /\ passed'[p].count = passed[p].count /\ passed'[p].from = passed[p].from
             /\ passed[p].high <= passed'[p].high
             /\ ws[p] # "new" => t <= passed'[p].high
  <2>1. passed[p] \in [count : Nat, from : 0 .. MaxTime, high : 0 .. MaxTime]
    BY SocketFacts
  <2>2. passed'[p] = [passed[p] EXCEPT !.high = IF ws[p] # "new" /\ t > @ THEN t ELSE @]
    BY DEF Clock
  <2>3. MaxTime \in Nat
    BY SessionAssumption
  <2> QED
    BY <1>1, <2>1, <2>2, <2>3
<1>3. ShapeInv'
  <2>1. passed' = [p \in Sockets |-> passed'[p]]
    BY DEF Clock
  <2>2. passed' \in [Sockets -> [count : Nat, from : 0 .. MaxTime, high : 0 .. MaxTime]]
    BY <1>2, <2>1
  <2> QED
    BY <1>1, <2>2 DEF IInv, ShapeInv
<1>4. TypeOK'
  BY <1>1, <1>2 DEF IInv, TypeOK
<1>5. ASSUME NEW p \in Sockets
      PROVE  SocketInv(p)'
  <2>1. SocketInv(p) /\ bucket[p] \in Bucket
        /\ passed[p] \in [count : Nat, from : 0 .. MaxTime, high : 0 .. MaxTime]
    BY SocketFacts
  <2>2. RateInv(p)'
    <3>1. /\ passed[p].from \in Nat /\ passed[p].high \in Nat
          /\ passed'[p].high \in Nat /\ bucket[p].last \in Nat
      BY <1>2, <2>1, SessionAssumption DEF Bucket
    <3>2. bucket[p].last <= passed'[p].high
      BY <1>2, <2>1, <3>1 DEF SocketInv, RateInv
    <3>3. ws[p] \in {"open", "failed", "gone"} => now' <= passed'[p].high
      BY <1>1, <1>2
    <3>4. passed'[p].from = passed[p].from /\ passed'[p].count = passed[p].count
      BY <1>2
    <3> QED
      BY <1>1, <2>1, <3>2, <3>3, <3>4 DEF SocketInv, RateInv
  <2>3. UnopenedInv(p)' /\ NewestInv(p)'
    BY <1>1, <2>1 DEF SocketInv, UnopenedInv, NewestInv
  <2>4. \A k \in Offers(p) : HandlerInv(p, k)' /\ LeftInv(p, k)' /\ ChannelInv(p, k)'
    BY <1>1, <2>1 DEF SocketInv, HandlerInv, LeftInv, ChannelInv, Running
  <2> QED
    BY <2>2, <2>3, <2>4 DEF SocketInv
<1> QED
  BY <1>3, <1>4, <1>5 DEF IInv

----------------------------------------------------------------------------
(* The invariant holds, and what follows from it. *)

LEMMA InitEstablishes == Init => IInv
<1> SUFFICES ASSUME Init PROVE IInv
  OBVIOUS
<1>1. /\ Unit \in Nat /\ Capacity \in Nat /\ Refill \in Nat /\ MaxTime \in Nat
      /\ ConnMax \in Nat
  BY BucketAssumption, SessionAssumption DEF Capacity, Refill
<1>2. /\ IsFiniteSet(peers) /\ Cardinality(peers) = 0
      /\ peers = {p \in Sockets : ws[p] = "open"}
  BY FS_EmptySet DEF Init
<1>3. Full(0) \in Bucket /\ Full(0) = [tokens |-> Capacity, last |-> 0]
  BY <1>1 DEF Full, Bucket
<1>4. \A p \in Sockets :
          /\ ws[p] = "new" /\ pc[p] = 0 /\ dc[p] = 0
          /\ offer[p] = [k \in Offers(p) |-> NoOffer]
          /\ bucket[p] = [tokens |-> Capacity, last |-> 0]
          /\ passed[p] = [count |-> 0, from |-> 0, high |-> 0]
  BY <1>3 DEF Init
<1>5. ASSUME NEW p \in Sockets
      PROVE  NumOffers[p] \in Nat /\ 0 \in 0 .. NumOffers[p] /\ NoOffer \in OfferRecord(p)
  <2>1. NumOffers[p] \in Nat
    BY SessionAssumption
  <2>2. 0 \in 0 .. NumOffers[p]
    BY <2>1
  <2> QED
    BY <2>1, <2>2 DEF NoOffer, OfferRecord
<1>6. ShapeInv
  BY <1>1, <1>2, <1>3 DEF Init, ShapeInv
<1>7. TypeOK
  <2>1. \A p \in Sockets :
          /\ pc[p] \in 0 .. NumOffers[p] /\ dc[p] \in 0 .. NumOffers[p]
          /\ offer[p] \in [Offers(p) -> OfferRecord(p)]
    BY <1>4, <1>5
  <2>2. \A p \in Sockets :
          /\ bucket[p] \in Bucket
          /\ passed[p] \in [count : Nat, from : 0 .. MaxTime, high : 0 .. MaxTime]
    BY <1>6 DEF ShapeInv
  <2>3. /\ ws \in [Sockets -> {"new", "open", "failed", "gone", "busy"}]
        /\ now \in 0 .. MaxTime
    BY <1>1 DEF Init
  <2> QED
    BY <1>1, <1>2, <2>1, <2>2, <2>3 DEF TypeOK
<1>8. ASSUME NEW p \in Sockets
      PROVE  SocketInv(p)
  <2>1. \A k \in Offers(p) : offer[p][k] = NoOffer
    BY <1>4
  <2>2. UnopenedInv(p) /\ NewestInv(p)
    BY <1>4, <2>1 DEF UnopenedInv, NewestInv
  <2>3. RateInv(p)
    <3>1. /\ bucket[p].tokens = Capacity /\ bucket[p].last = 0
          /\ passed[p].count = 0 /\ passed[p].from = 0 /\ passed[p].high = 0
          /\ ws[p] = "new"
      <4>1. /\ bucket[p] = [tokens |-> Capacity, last |-> 0]
            /\ passed[p] = [count |-> 0, from |-> 0, high |-> 0]
            /\ ws[p] = "new"
        BY <1>4
      <4> QED
        BY <4>1
    <3>2. 0 * Unit = 0 /\ Refill * (0 - 0) = 0
      BY <1>1
    <3> QED
      BY <1>1, <3>1, <3>2 DEF RateInv
  <2>4. ASSUME NEW k \in Offers(p)
        PROVE  HandlerInv(p, k) /\ LeftInv(p, k) /\ ChannelInv(p, k)
    <3>1. /\ offer[p][k] = NoOffer
          /\ NoOffer.step = "none" /\ NoOffer.chan = "none" /\ NoOffer.place = "none"
          /\ k \notin Running(p)
      BY <2>1 DEF NoOffer, Running
    <3>2. HandlerInv(p, k) /\ LeftInv(p, k)
      BY <1>4, <3>1 DEF HandlerInv, LeftInv
    <3>3. dc[p] # k
      <4>1. dc[p] = 0 /\ NumOffers[p] \in Nat
        BY <1>4, <1>5
      <4> QED
        BY <4>1 DEF Offers
    <3> QED
      BY <3>1, <3>2, <3>3 DEF ChannelInv
  <2> QED
    BY <2>2, <2>3, <2>4 DEF SocketInv
<1> QED
  BY <1>6, <1>7, <1>8 DEF IInv

LEMMA StepPreserves == IInv /\ [Next]_vars => IInv'
<1> SUFFICES ASSUME IInv, [Next]_vars PROVE IInv'
  OBVIOUS
<1>1. CASE UNCHANGED vars
  BY <1>1 DEF vars, IInv, TypeOK, ShapeInv, SocketInv, UnopenedInv, NewestInv,
              RateInv, HandlerInv, LeftInv, ChannelInv, Running
<1>2. ASSUME NEW p \in Sockets, Connect(p) \/ SocketFails(p) \/ SocketCloses(p)
      PROVE  IInv'
  BY <1>2, ConnectStep, CleanupStep DEF SocketFails, SocketCloses
<1>3. ASSUME NEW p \in Sockets, NEW k \in Offers(p),
             \/ Offer(p, k) \/ Refuse(p, k)
             \/ RemoteSet(p, k) \/ AnswerMade(p, k) \/ LocalSet(p, k)
             \/ ChannelOpens(p, k) \/ TooLarge(p, k) \/ ChannelCloses(p, k)
             \/ Submit(p, k)
      PROVE  IInv'
  BY <1>3, OfferStep, RefuseStep, RemoteSetStep, AnswerMadeStep, LocalSetStep,
     ChannelOpensStep, TooLargeStep, ChannelClosesStep, SubmitStep
<1>4. ASSUME NEW t \in 0 .. MaxTime, Clock(t)
      PROVE  IInv'
  BY <1>4, ClockStep
<1> QED
  BY <1>1, <1>2, <1>3, <1>4 DEF Next

LEMMA InvariantHolds == Spec => []IInv
<1> QED
  BY InitEstablishes, StepPreserves, PTL DEF Spec

\* Types; and never more than CONN_MAX sessions, however websockets open, fail
\* and close.
THEOREM TypeCorrect == Spec => []TypeOK
<1>1. IInv => TypeOK
  BY DEF IInv
<1> QED
  BY <1>1, InvariantHolds, PTL

\* However the handlers of a websocket's offers interleave at their awaits, an
\* offer is answered by its own connection or by that of a later one that came
\* before the answer was sent.
THEOREM OffersGetTheirAnswer == Spec => []AnswersOwnOffer
<1>1. IInv => AnswersOwnOffer
  BY DEF IInv, SocketInv, HandlerInv, AnswersOwnOffer
<1> QED
  BY <1>1, InvariantHolds, PTL

\* A session sends on the channel that opened last or on none, and a websocket
\* that is gone leaves up only channels of connections that were replaced.
THEOREM ChannelInUseIsNewest == Spec => []UsesNewestChannel
<1>1. ASSUME IInv
      PROVE  UsesNewestChannel
  <2> SUFFICES ASSUME NEW p \in Sockets, NEW k \in Offers(p)
               PROVE  /\ ws[p] = "open" /\ offer[p][k].chan = "open"
                            /\ offer[p][k].place = "newest" => dc[p] = k
                      /\ dc[p] = k => offer[p][k].place = "newest"
                      /\ ws[p] \in {"failed", "gone"} /\ offer[p][k].chan = "open" =>
                            \E j \in Offers(p) : j > k /\ offer[p][j].step # "none"
    BY DEF UsesNewestChannel
  <2>1. LeftInv(p, k) /\ ChannelInv(p, k)
    BY <1>1 DEF IInv, SocketInv
  <2> QED
    BY <2>1 DEF LeftInv, ChannelInv
<1> QED
  BY <1>1, InvariantHolds, PTL

\* For any burst, rate and width of a token, whichever channels are used and
\* however the clock is set, a session lets through no more SUBMITs than the
\* burst and the refill up to the latest time shown allow.
THEOREM RateIsBounded == Spec => []SubmitsWithinRate
<1>1. ASSUME IInv, NEW p \in Sockets
      PROVE  passed[p].count * Unit
                <= Capacity + Refill * (passed[p].high - passed[p].from)
  <2> DEFINE f == passed[p].from
             l == bucket[p].last
             h == passed[p].high
             used == passed[p].count * Unit
  <2>1. /\ f \in Nat /\ l \in Nat /\ h \in Nat /\ f <= l /\ l <= h
        /\ passed[p].count \in Nat /\ bucket[p].tokens \in Nat
        /\ Unit \in Nat /\ Capacity \in Nat /\ Refill \in Nat
        /\ used + bucket[p].tokens <= Capacity + Refill * (l - f)
    BY <1>1, SocketFacts, SessionAssumption, BucketAssumption
       DEF SocketInv, RateInv, Bucket, Capacity, Refill
  <2>2. used \in Nat
    BY <2>1, ProductFacts
  <2>3. /\ Refill * (l - f) = Refill * l - Refill * f
        /\ Refill * (h - f) = Refill * h - Refill * f
        /\ Refill * (h - l) = Refill * h - Refill * l
    BY <2>1, ProductFacts
  <2>4. h - l \in Nat
    BY <2>1
  <2>5. Refill * (h - l) \in Nat
    BY <2>1, <2>4, ProductFacts
  <2>6. Refill * l \in Nat /\ Refill * f \in Nat /\ Refill * h \in Nat
    BY <2>1, ProductFacts
  <2> HIDE DEF f, l, h, used
  <2>7. used <= Capacity + Refill * (h - f)
    BY <2>1, <2>2, <2>3, <2>5, <2>6
  <2> QED
    BY <2>7 DEF f, h, used
<1>2. IInv => SubmitsWithinRate
  BY <1>1 DEF SubmitsWithinRate
<1> QED
  BY <1>2, InvariantHolds, PTL

\* A session that is under way is disturbed by no other one: its bucket and its
\* count change by its own SUBMITs alone.
LEMMA OnlySubmitCounts ==
    ASSUME IInv, [Next]_vars, NEW p \in Sockets, ws[p] \in {"open", "failed", "gone"}
    PROVE  /\ ws'[p] \in {"open", "failed", "gone"}
           /\ \/ bucket'[p] = bucket[p] /\ passed'[p].count = passed[p].count
              \/ \E k \in Offers(p) : Submit(p, k)
<1>1. /\ \A q \in Sockets \ {p} : p \in Sockets \ {q}
      /\ ws \in [Sockets -> {"new", "open", "failed", "gone", "busy"}]
      /\ ShapeInv
  BY DEF IInv, TypeOK
<1>2. CASE UNCHANGED vars
  BY <1>2 DEF vars
<1>3. ASSUME NEW q \in Sockets, Connect(q)
      PROVE  ws'[p] = ws[p] /\ bucket'[p] = bucket[p] /\ passed'[p] = passed[p]
  <2>1. ws[q] = "new" /\ q # p
    BY <1>3 DEF Connect
  <2> QED
    BY <1>1, <1>3, <2>1 DEF Connect, ShapeInv
<1>4. ASSUME NEW q \in Sockets, SocketFails(q) \/ SocketCloses(q)
      PROVE  /\ ws'[p] \in {"open", "failed", "gone"}
             /\ bucket'[p] = bucket[p] /\ passed'[p] = passed[p]
  BY <1>1, <1>4 DEF SocketFails, SocketCloses
<1>5. ASSUME NEW q \in Sockets, NEW k \in Offers(q),
             \/ Offer(q, k) \/ Refuse(q, k)
             \/ RemoteSet(q, k) \/ AnswerMade(q, k) \/ LocalSet(q, k)
             \/ ChannelOpens(q, k) \/ TooLarge(q, k) \/ ChannelCloses(q, k)
      PROVE  UNCHANGED <<ws, bucket, passed>>
  BY <1>5 DEF Offer, Refuse, RemoteSet, AnswerMade, LocalSet, ChannelOpens, TooLarge,
              ChannelCloses
<1>6. ASSUME NEW q \in Sockets, NEW k \in Offers(q), Submit(q, k), q # p
      PROVE  ws'[p] = ws[p] /\ bucket'[p] = bucket[p] /\ passed'[p] = passed[p]
  BY <1>1, <1>6 DEF Submit, ShapeInv
<1>7. ASSUME NEW t \in 0 .. MaxTime, Clock(t)
      PROVE  /\ ws'[p] = ws[p] /\ bucket'[p] = bucket[p]
             /\ passed'[p].count = passed[p].count
  BY <1>1, <1>7 DEF Clock, ShapeInv
<1>8. CASE \E q \in Sockets : Connect(q) \/ SocketFails(q) \/ SocketCloses(q)
  BY <1>3, <1>4, <1>8
<1>9. CASE \E q \in Sockets : \E k \in Offers(q) :
          \/ Offer(q, k) \/ Refuse(q, k)
          \/ RemoteSet(q, k) \/ AnswerMade(q, k) \/ LocalSet(q, k)
          \/ ChannelOpens(q, k) \/ TooLarge(q, k) \/ ChannelCloses(q, k)
          \/ Submit(q, k)
  <2>0. PICK q \in Sockets : \E k \in Offers(q) :
          \/ Offer(q, k) \/ Refuse(q, k)
          \/ RemoteSet(q, k) \/ AnswerMade(q, k) \/ LocalSet(q, k)
          \/ ChannelOpens(q, k) \/ TooLarge(q, k) \/ ChannelCloses(q, k)
          \/ Submit(q, k)
    BY <1>9
  <2>1. PICK k \in Offers(q) :
          \/ Offer(q, k) \/ Refuse(q, k)
          \/ RemoteSet(q, k) \/ AnswerMade(q, k) \/ LocalSet(q, k)
          \/ ChannelOpens(q, k) \/ TooLarge(q, k) \/ ChannelCloses(q, k)
          \/ Submit(q, k)
    BY <2>0
  <2>2. CASE Submit(q, k)
    <3>1. CASE q = p
      BY <2>2, <3>1 DEF Submit
    <3>2. CASE q # p
      BY <1>6, <2>2, <3>2
    <3> QED
      BY <3>1, <3>2
  <2> QED
    BY <1>5, <2>1, <2>2
<1>10. CASE \E t \in 0 .. MaxTime : Clock(t)
  BY <1>7, <1>10
<1> QED
  BY <1>2, <1>8, <1>9, <1>10 DEF Next

\* What a session under way has let through since its count was count0 and its
\* bucket's last refill was at last0, in parts, with what is left in the bucket.
Since(p, count0, last0) ==
    /\ ws[p] \in {"open", "failed", "gone"}
    /\ last0 <= bucket[p].last
    /\ (passed[p].count - count0) * Unit + bucket[p].tokens
          <= Capacity + Refill * (bucket[p].last - last0)

LEMMA SinceStep ==
    ASSUME IInv, NEW p \in Sockets, NEW count0 \in Nat, NEW last0 \in Nat,
           Since(p, count0, last0), [Next]_vars
    PROVE  Since(p, count0, last0)'
<1> USE DEF Since
<1>1. CASE bucket'[p] = bucket[p] /\ passed'[p].count = passed[p].count
  BY <1>1, OnlySubmitCounts
<1>2. ASSUME NEW k \in Offers(p), Submit(p, k)
      PROVE  Since(p, count0, last0)'
  <2> DEFINE b == bucket[p]
             l == b.last
             m == Allow(b, now).last
             left == Allow(b, now).tokens
             n == passed[p].count
             part == IF Allows(b, now) THEN Unit ELSE 0
             one == IF Allows(b, now) THEN 1 ELSE 0
  <2>1. /\ b \in Bucket /\ now \in Nat /\ n \in Nat
        /\ passed[p] \in [count : Nat, from : 0 .. MaxTime, high : 0 .. MaxTime]
        /\ Unit \in Nat /\ Refill \in Nat /\ Capacity \in Nat
    BY SocketFacts, SessionAssumption, BucketAssumption DEF IInv, TypeOK, Refill, Capacity
  <2>2. /\ Allow(b, now) \in Bucket /\ l <= m
        /\ part + left <= b.tokens + Refill * (m - l)
    BY <2>1, AllowFacts
  <2>3. /\ bucket'[p] = Allow(b, now)
        /\ passed'[p].count = n + one
        /\ ws'[p] = ws[p]
    <3>1. /\ bucket'[p] = Allow(b, now)
          /\ passed'[p] = [passed[p] EXCEPT !.count = @ + one]
          /\ ws' = ws
      BY <1>2 DEF Submit, IInv, ShapeInv
    <3> QED
      BY <2>1, <3>1
  <2>4. /\ l \in Nat /\ m \in Nat /\ b.tokens \in Nat /\ left \in Nat
        /\ one \in Nat /\ part \in Nat /\ one * Unit = part
        /\ last0 <= l /\ (n - count0) * Unit + b.tokens <= Capacity + Refill * (l - last0)
    BY <2>1, <2>2 DEF Bucket, Capacity
  <2> HIDE DEF b, l, m, left, n, part, one
  <2>5. (n + one - count0) * Unit = (n - count0) * Unit + part
    <3>1. \A x, y, z \in Int : (x + y) * z = x * z + y * z
      OBVIOUS
    <3>2. /\ n - count0 \in Int /\ one \in Int /\ Unit \in Int
          /\ n + one - count0 = (n - count0) + one
      BY <2>1, <2>4
    <3>3. ((n - count0) + one) * Unit = (n - count0) * Unit + one * Unit
      BY <3>1, <3>2
    <3> QED
      BY <2>4, <3>2, <3>3
  <2>6. Refill * (l - last0) + Refill * (m - l) = Refill * (m - last0)
    BY <2>1, <2>4, ProductFacts
  <2>7. /\ (n - count0) * Unit \in Int
        /\ Refill * (l - last0) \in Int /\ Refill * (m - l) \in Int
    BY <2>1, <2>4
  <2>8. /\ last0 <= m
        /\ (n + one - count0) * Unit + left <= Capacity + Refill * (m - last0)
    BY <2>1, <2>2, <2>4, <2>5, <2>6, <2>7
  <2>9. bucket'[p].last = m /\ bucket'[p].tokens = left
    BY <2>3 DEF m, left
  <2>10. passed'[p].count \in Nat /\ bucket'[p].last \in Nat
    BY <2>1, <2>3, <2>4, <2>9
  <2> QED
    BY <2>1, <2>3, <2>4, <2>8, <2>9, <2>10
<1> QED
  BY <1>1, <1>2, OnlySubmitCounts

\* Not from its start alone: from any moment on, a session under way lets through
\* no more SUBMITs than the burst and what the refill adds since the bucket was
\* last filled, so a quiet spell saves up no more than one burst.
THEOREM RateFromAnyMoment ==
    ASSUME NEW p \in Sockets, NEW count0 \in Nat, NEW last0 \in Nat
    PROVE  Spec => [](/\ ws[p] \in {"open", "failed", "gone"}
                      /\ passed[p].count = count0 /\ bucket[p].last = last0
                      => []((passed[p].count - count0) * Unit
                            <= Capacity + Refill * (passed[p].high - last0)))
<1> DEFINE Moment == /\ ws[p] \in {"open", "failed", "gone"}
                     /\ passed[p].count = count0 /\ bucket[p].last = last0
           Within == (passed[p].count - count0) * Unit
                        <= Capacity + Refill * (passed[p].high - last0)
           Window == Since(p, count0, last0)
<1>1. IInv /\ Moment => Window
  <2> SUFFICES ASSUME IInv, Moment PROVE Window
    OBVIOUS
  <2>1. /\ bucket[p].tokens \in 0 .. Capacity /\ bucket[p].last \in Nat
        /\ Unit \in Nat /\ Capacity \in Nat /\ Refill \in Nat
    BY SocketFacts, BucketAssumption DEF Bucket, Capacity, Refill
  <2>2. /\ passed[p].count - count0 = 0 /\ bucket[p].last - last0 = 0
        /\ 0 * Unit = 0 /\ Refill * 0 = 0
    BY <2>1
  <2> QED
    BY <2>1, <2>2 DEF Since
<1>2. IInv /\ Window /\ [Next]_vars => Window'
  BY SinceStep
<1>3. IInv /\ Window => Within
  <2> SUFFICES ASSUME IInv, Window PROVE Within
    OBVIOUS
  <2> DEFINE l == bucket[p].last
             h == passed[p].high
             used == (passed[p].count - count0) * Unit
  <2>1. /\ l \in Nat /\ h \in Nat /\ l <= h /\ last0 <= l
        /\ passed[p].count \in Nat /\ bucket[p].tokens \in Nat
        /\ Unit \in Nat /\ Capacity \in Nat /\ Refill \in Nat
        /\ used + bucket[p].tokens <= Capacity + Refill * (l - last0)
    BY SocketFacts, SessionAssumption, BucketAssumption
       DEF SocketInv, RateInv, Bucket, Capacity, Refill, Since
  <2>2. used \in Int /\ h - l \in Nat
    BY <2>1
  <2>3. Refill * (h - l) \in Nat
    BY <2>1, <2>2, ProductFacts
  <2>4. /\ Refill * (l - last0) + Refill * (h - l) = Refill * (h - last0)
        /\ Refill * (l - last0) \in Int
    BY <2>1, ProductFacts
  <2> HIDE DEF l, h, used
  <2>5. used <= Capacity + Refill * (h - last0)
    BY <2>1, <2>2, <2>3, <2>4
  <2> QED
    BY <2>5 DEF h, used
<1> HIDE DEF Moment, Within, Window
<1>4. Spec => [](Moment => []Within)
  BY <1>1, <1>2, <1>3, InvariantHolds, PTL DEF Spec
<1> QED
  BY <1>4 DEF Moment, Within

================================================================================
