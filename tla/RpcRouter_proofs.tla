--------------------------- MODULE RpcRouter_proofs ---------------------------
(***************************************************************************)
(* Proofs about RpcRouter: for every set of sessions, calls, ids, methods  *)
(* and nodes, and any number of offers a websocket carries.                *)
(***************************************************************************)
EXTENDS RpcRouter, TLAPS, SequenceTheorems

(* The inductive invariant. *)

\* What TypeOK leaves open.
ShapeInv ==
    /\ chan = [p \in Peers |-> chan[p]]
    /\ dc \in [Peers -> Nat]
    /\ asked \subseteq [call : made, sess : Peers, via : Nat]
    /\ \A q \in asked : q.via \in 1 .. MaxOffers[q.sess]

\* An entry is found under the id of its call.
PendingInv == \A id \in Ids : pending[id] # NoCall => idOf[pending[id]] = id

\* A closed websocket that carried one offer has no channel.
GoneInv ==
    \A p \in Peers : ws[p] = "gone" /\ Offers(p) = {1} => chan[p][1] = "down"

\* Until its timer is stopped, a call that was forwarded has no reply.
OpenInv(c) ==
    /\ c \notin made \/ c \in timers => got[c] = <<>>
    /\ c \in timers => c \in made /\ route[c] \in Route

\* RepliedOnce, of one call.
OnceInv(c) ==
    \/ Len(got[c]) <= 1
    \/ /\ CallerOf[c] # Http
       /\ got[c] = Closure(c)
       /\ route[c] \in Route
       /\ ws[route[c].sess] = "gone"

\* AnswersOwnCall, of one call.
AnswerInv(c) ==
    \A i \in DOMAIN got[c] :
        got[c][i].code = "answer" =>
            /\ got[c][i].node = route[c].node
            /\ \/ got[c][i].by \in Stray
               \/ got[c][i].of = c /\ got[c][i].by = route[c].sess
               \/ got[c][i].of \in made \ {c} /\ idOf[got[c][i].of] = idOf[c]

CallInv(c) == OpenInv(c) /\ OnceInv(c) /\ AnswerInv(c)

\* The advertisements, as TypeOK has them.
TableInv ==
    /\ DOMAIN adverts \subseteq Peers
    /\ \A p \in DOMAIN adverts : adverts[p] \in Advert
    /\ before \subseteq (DOMAIN adverts) \X (DOMAIN adverts)
    /\ \A p, q \in DOMAIN adverts :
          /\ p # q => (<<p, q>> \in before <=> <<q, p>> \notin before)
          /\ \A r \in DOMAIN adverts :
                <<p, q>> \in before /\ <<q, r>> \in before => <<p, r>> \in before

IInv ==
    /\ TypeOK /\ ShapeInv /\ PendingInv /\ GoneInv /\ NoneWaitsOnGone
    /\ \A c \in Calls : CallInv(c)

----------------------------------------------------------------------------
(* Advertisements. *)

LEMMA TableKept ==
    ASSUME IInv, adverts' = adverts, before' = before
    PROVE  TableInv'
<1>1. TableInv
  BY DEF IInv, TypeOK, TableInv
<1>2. DOMAIN adverts' = DOMAIN adverts /\ \A p \in DOMAIN adverts : adverts'[p] = adverts[p]
  OBVIOUS
<1>3. ASSUME NEW p \in DOMAIN adverts', NEW q \in DOMAIN adverts',
             NEW r \in DOMAIN adverts', <<p, q>> \in before', <<q, r>> \in before'
      PROVE  <<p, r>> \in before'
  <2>1. \A u, v, w \in DOMAIN adverts :
           <<u, v>> \in before /\ <<v, w>> \in before => <<u, w>> \in before
    BY <1>1 DEF TableInv
  <2> QED
    BY <1>2, <1>3, <2>1
<1>4. /\ DOMAIN adverts' \subseteq Peers
      /\ \A p \in DOMAIN adverts' : adverts'[p] \in Advert
      /\ before' \subseteq (DOMAIN adverts') \X (DOMAIN adverts')
  BY <1>1, <1>2 DEF TableInv
<1>5. \A p, q \in DOMAIN adverts' :
         p # q => (<<p, q>> \in before' <=> <<q, p>> \notin before')
  BY <1>1, <1>2 DEF TableInv
<1>6. \A p, q \in DOMAIN adverts' :
         /\ p # q => (<<p, q>> \in before' <=> <<q, p>> \notin before')
         /\ \A r \in DOMAIN adverts' :
               <<p, q>> \in before' /\ <<q, r>> \in before' => <<p, r>> \in before'
  <2> SUFFICES ASSUME NEW p \in DOMAIN adverts', NEW q \in DOMAIN adverts'
               PROVE  /\ p # q => (<<p, q>> \in before' <=> <<q, p>> \notin before')
                      /\ \A r \in DOMAIN adverts' :
                            <<p, q>> \in before' /\ <<q, r>> \in before'
                            => <<p, r>> \in before'
    OBVIOUS
  <2> QED
    BY <1>3, <1>5
<1> QED
  BY <1>4, <1>6 DEF TableInv

\* What is left of the table when some sessions are kept has an order again.
LEMMA KeepTable ==
    ASSUME TypeOK, NEW S \in SUBSET DOMAIN adverts, Keep(S)
    PROVE  TableInv'
<1>1. /\ DOMAIN adverts' = S
      /\ \A p \in S : adverts'[p] = adverts[p]
      /\ before' = before \cap (S \X S)
  BY DEF Keep, Restrict
<1>2. TableInv
  BY DEF TypeOK, TableInv
<1> QED
  BY <1>1, <1>2 DEF TableInv

LEMMA DropTable ==
    ASSUME TypeOK, NEW S, Drop(S)
    PROVE  TableInv'
<1>1. (DOMAIN adverts \ S) \in SUBSET DOMAIN adverts
  OBVIOUS
<1> QED
  BY <1>1, KeepTable DEF Drop

\* A heartbeat adds the session at the end of the order, or leaves it where it is.
LEMMA AdvertiseTable ==
    ASSUME TypeOK, NEW p \in Peers, NEW node \in Nodes, NEW kinds \in SUBSET Kinds,
           Advertise(p, node, kinds)
    PROVE  TableInv'
<1> DEFINE accepted == kinds \cap PublicKinds
           advert == [node |-> node, kinds |-> accepted, fresh |-> TRUE]
<1>1. TableInv
  BY DEF TypeOK, TableInv
<1>2. CASE accepted = {}
  BY <1>2, DropTable DEF Advertise
<1>3. CASE accepted # {}
  <2>1. advert \in Advert
    BY DEF Advert
  <2>2. /\ adverts' = [q \in DOMAIN adverts \cup {p} |->
                          IF q = p THEN advert ELSE adverts[q]]
        /\ before' = IF p \in DOMAIN adverts THEN before
                     ELSE before \cup ((DOMAIN adverts) \X {p})
    BY <1>3 DEF Advertise
  <2> HIDE DEF advert
  <2>3. /\ DOMAIN adverts' = DOMAIN adverts \cup {p}
        /\ adverts'[p] = advert
        /\ \A q \in DOMAIN adverts \ {p} : adverts'[q] = adverts[q]
    BY <2>2
  <2>4. CASE p \in DOMAIN adverts
    <3>1. before' = before /\ DOMAIN adverts' = DOMAIN adverts
      BY <2>2, <2>3, <2>4
    <3> QED
      BY <1>1, <2>1, <2>3, <3>1 DEF TableInv
  <2>5. CASE p \notin DOMAIN adverts
    <3>1. before' = before \cup ((DOMAIN adverts) \X {p})
      BY <2>2, <2>5
    <3>2. \A q, r \in DOMAIN adverts' :
             <<q, r>> \in before' <=>
                \/ q \in DOMAIN adverts /\ r \in DOMAIN adverts /\ <<q, r>> \in before
                \/ q \in DOMAIN adverts /\ r = p
      BY <1>1, <2>3, <2>5, <3>1 DEF TableInv
    <3>3. before' \subseteq (DOMAIN adverts') \X (DOMAIN adverts')
      BY <1>1, <2>3, <3>1 DEF TableInv
    <3> QED
      BY <1>1, <2>1, <2>3, <2>5, <3>2, <3>3 DEF TableInv
  <2> QED
    BY <2>4, <2>5
<1> QED
  BY <1>2, <1>3

\* A step of the table alone keeps the rest.
LEMMA TableStep ==
    ASSUME IInv, TableInv', UNCHANGED <<peers, pending, timers, asked, history>>
    PROVE  IInv'
<1>1. TypeOK'
  BY DEF IInv, TypeOK, TableInv, peers, history, made
<1>2. ShapeInv' /\ PendingInv' /\ GoneInv' /\ NoneWaitsOnGone'
  BY DEF IInv, ShapeInv, PendingInv, GoneInv, NoneWaitsOnGone, peers, history, made,
         OpenCalls, Offers
<1>3. ASSUME NEW c \in Calls
      PROVE  CallInv(c)'
  BY DEF IInv, CallInv, OpenInv, OnceInv, AnswerInv, peers, history, made, Closure
<1> QED
  BY <1>1, <1>2, <1>3 DEF IInv

LEMMA AdvertsStep ==
    ASSUME IInv,
           \/ ListProviders
           \/ \E p \in Peers :
                 \/ GoesStale(p)
                 \/ \E node \in NodesOf[p], kinds \in SUBSET Kinds :
                       Advertise(p, node, kinds)
    PROVE  IInv'
<1>1. CASE ListProviders
  <2>1. Pruned \in SUBSET DOMAIN adverts
    BY DEF Pruned
  <2>2. TableInv'
    BY <1>1, <2>1, KeepTable DEF ListProviders, IInv
  <2> QED
    BY <1>1, <2>2, TableStep DEF ListProviders
<1>2. ASSUME NEW p \in Peers, GoesStale(p)
      PROVE  IInv'
  <2>1. TableInv
    BY DEF IInv, TypeOK, TableInv
  <2>2. /\ DOMAIN adverts' = DOMAIN adverts /\ before' = before
        /\ \A q \in DOMAIN adverts \ {p} : adverts'[q] = adverts[q]
        /\ adverts'[p] = [adverts[p] EXCEPT !.fresh = FALSE]
    BY <1>2 DEF GoesStale
  <2>3. adverts'[p] \in Advert
    <3>1. adverts[p] \in [node : Nodes, kinds : SUBSET PublicKinds, fresh : BOOLEAN]
      BY <1>2, <2>1 DEF GoesStale, TableInv, Advert
    <3> QED
      BY <2>2, <3>1 DEF Advert
  <2>4. TableInv'
    BY <2>1, <2>2, <2>3 DEF TableInv
  <2> QED
    BY <1>2, <2>4, TableStep DEF GoesStale
<1>3. ASSUME NEW p \in Peers, NEW node \in NodesOf[p], NEW kinds \in SUBSET Kinds,
             Advertise(p, node, kinds)
      PROVE  IInv'
  <2>1. node \in Nodes
    BY RouterAssumption
  <2>2. TableInv'
    BY <1>3, <2>1, AdvertiseTable DEF IInv
  <2> QED
    BY <1>3, <2>2, TableStep DEF Advertise
<1> QED
  BY <1>1, <1>2, <1>3

----------------------------------------------------------------------------
(* Sessions and their channels. *)

\* A step of one session and its channels.
LEMMA PeerStep ==
    ASSUME IInv, NEW p \in Peers,
           UNCHANGED <<table, pending, timers, history>>,
           ws' \in [Peers -> {"new", "open", "gone"}],
           chan' = [q \in Peers |-> chan'[q]],
           dc' \in [Peers -> Nat],
           \A q \in Peers \ {p} : ws'[q] = ws[q] /\ chan'[q] = chan[q] /\ dc'[q] = dc[q],
           chan'[p] \in [1 .. MaxOffers[p] -> {"none", "offered", "up", "down"}],
           dc'[p] \in 0 .. MaxOffers[p],
           dc'[p] # 0 => chan'[p][dc'[p]] = "up",
           asked' \subseteq asked,
           \A q \in asked' : q.sess = p => chan'[p][q.via] = "up",
           ws[p] = "gone" <=> ws'[p] = "gone",
           ws[p] = "gone" => Offers(p)' = Offers(p),
           ws[p] = "gone" /\ Offers(p) = {1} => chan'[p][1] = "down"
    PROVE  IInv'
<1>1. /\ idOf' = idOf /\ route' = route /\ got' = got /\ dropped' = dropped
      /\ timers' = timers /\ pending' = pending
      /\ adverts' = adverts /\ before' = before /\ made' = made
  BY DEF table, history, made
<1>2. TypeOK'
  <2>1. ASSUME NEW q \in Peers
        PROVE  /\ chan'[q] \in [1 .. MaxOffers[q] -> {"none", "offered", "up", "down"}]
               /\ dc'[q] \in 0 .. MaxOffers[q]
               /\ dc'[q] # 0 => chan'[q][dc'[q]] = "up"
    <3>1. CASE q = p
      BY <3>1
    <3>2. CASE q # p
      <4>1. chan'[q] = chan[q] /\ dc'[q] = dc[q]
        BY <3>2
      <4> QED
        BY <4>1 DEF IInv, TypeOK
    <3> QED
      BY <3>1, <3>2
  <2>2. ASSUME NEW q \in asked'
        PROVE  route'[q.call].sess = q.sess /\ chan'[q.sess][q.via] = "up"
    <3>1. q \in asked /\ q.sess \in Peers
      BY DEF IInv, ShapeInv
    <3>2. route[q.call].sess = q.sess /\ chan[q.sess][q.via] = "up"
      BY <3>1 DEF IInv, TypeOK
    <3>3. CASE q.sess = p
      BY <1>1, <3>2, <3>3
    <3>4. CASE q.sess # p
      BY <1>1, <3>1, <3>2, <3>4
    <3> QED
      BY <3>3, <3>4
  <2>3. dropped' \subseteq made'
    BY <1>1 DEF IInv, TypeOK
  <2>4. TableInv'
    BY <1>1, TableKept
  <2> QED
    BY ZenonT(60), <1>1, <2>1, <2>2, <2>3, <2>4 DEF IInv, TypeOK, TableInv
<1>3. ShapeInv' /\ PendingInv'
  <2>1. asked' \subseteq [call : made', sess : Peers, via : Nat]
    BY <1>1 DEF IInv, ShapeInv
  <2>2. \A q \in asked' : q.via \in 1 .. MaxOffers[q.sess]
    BY DEF IInv, ShapeInv
  <2>3. PendingInv'
    BY <1>1 DEF IInv, PendingInv
  <2> QED
    BY <2>1, <2>2, <2>3 DEF ShapeInv
<1>4. \A q \in Peers : ws'[q] = "gone" => ws[q] = "gone" /\ Offers(q)' = Offers(q)
  <2> SUFFICES ASSUME NEW q \in Peers, ws'[q] = "gone"
               PROVE  ws[q] = "gone" /\ Offers(q)' = Offers(q)
    OBVIOUS
  <2>1. CASE q = p
    BY <2>1
  <2>2. CASE q # p
    <3>1. chan'[q] = chan[q] /\ ws'[q] = ws[q]
      BY <2>2
    <3> QED
      BY <3>1 DEF Offers
  <2> QED
    BY <2>1, <2>2
<1>5. GoneInv'
  <2> SUFFICES ASSUME NEW q \in Peers, ws'[q] = "gone", Offers(q)' = {1}
               PROVE  chan'[q][1] = "down"
    BY DEF GoneInv
  <2>1. ws[q] = "gone" /\ Offers(q) = {1}
    BY <1>4
  <2>2. CASE q = p
    BY <2>1, <2>2
  <2>3. CASE q # p
    <3>1. chan'[q] = chan[q]
      BY <2>3
    <3> QED
      BY <2>1, <3>1 DEF IInv, GoneInv
  <2> QED
    BY <2>2, <2>3
<1>6. NoneWaitsOnGone'
  <2> SUFFICES ASSUME NEW c \in OpenCalls, ws'[route[c].sess] = "gone"
               PROVE  Offers(route[c].sess)' # {1}
    BY <1>1 DEF NoneWaitsOnGone, OpenCalls
  <2>1. c \in timers /\ c \in Calls
    BY DEF OpenCalls, IInv, TypeOK
  <2>2. route[c].sess \in Peers
    BY <2>1 DEF IInv, CallInv, OpenInv, Route
  <2>3. ws[route[c].sess] = "gone" /\ Offers(route[c].sess)' = Offers(route[c].sess)
    <3> DEFINE p1 == route[c].sess
    <3>1. p1 \in Peers /\ ws'[p1] = "gone" /\ p1' = p1
      BY <1>1, <2>2
    <3> QED
      BY <1>4, <3>1
  <2>4. Offers(route[c].sess) # {1}
    BY <2>3 DEF IInv, NoneWaitsOnGone
  <2> QED
    BY <2>3, <2>4
<1>7. ASSUME NEW c \in Calls
      PROVE  CallInv(c)'
  <2>1. CallInv(c)
    BY DEF IInv
  <2>2. route[c] \in Route => route[c].sess \in Peers
    BY DEF Route
  <2>3. OnceInv(c)'
    BY <1>1, <2>1, <2>2 DEF CallInv, OnceInv, Closure, Error
  <2> QED
    BY <1>1, <2>1, <2>3 DEF CallInv, OpenInv, AnswerInv
<1> QED
  BY <1>2, <1>3, <1>5, <1>6, <1>7 DEF IInv

\* A step of one channel.
LEMMA ChannelStep ==
    ASSUME IInv, NEW p \in Peers, NEW k \in 1 .. MaxOffers[p],
           NEW x \in {"offered", "up", "down"}, NEW d \in 0 .. MaxOffers[p],
           UNCHANGED <<ws, table, pending, timers, history>>,
           chan' = [chan EXCEPT ![p][k] = x],
           dc' = [dc EXCEPT ![p] = d],
           d # 0 => chan'[p][d] = "up",
           chan[p][k] # "none" \/ ws[p] # "gone",
           x = "down" \/ chan[p][k] \in {"none", "offered"},
           asked' = {q \in asked : x # "down" \/ q.sess # p \/ q.via # k}
    PROVE  IInv'
<1> DEFINE new == [chan[p] EXCEPT ![k] = x]
<1>1. /\ MaxOffers[p] \in Nat
      /\ chan[p] \in [1 .. MaxOffers[p] -> {"none", "offered", "up", "down"}]
      /\ chan = [q \in Peers |-> chan[q]]
      /\ dc \in [Peers -> Nat] /\ d \in Nat
      /\ ws \in [Peers -> {"new", "open", "gone"}]
  BY RouterAssumption DEF IInv, TypeOK, ShapeInv
<1>2. /\ chan' = [q \in Peers |-> chan'[q]]
      /\ chan'[p] = new
      /\ \A q \in Peers \ {p} : chan'[q] = chan[q]
  BY <1>1
<1>3. /\ new \in [1 .. MaxOffers[p] -> {"none", "offered", "up", "down"}]
      /\ new[k] = x
      /\ \A j \in (1 .. MaxOffers[p]) \ {k} : new[j] = chan[p][j]
  BY <1>1
<1> HIDE DEF new
<1>4. dc' \in [Peers -> Nat] /\ dc'[p] = d /\ \A q \in Peers \ {p} : dc'[q] = dc[q]
  BY <1>1
<1>5. ASSUME NEW q \in asked', q.sess = p
      PROVE  chan'[p][q.via] = "up"
  <2>1. q \in asked /\ q.via \in 1 .. MaxOffers[p] /\ chan[p][q.via] = "up"
    BY <1>5 DEF IInv, ShapeInv, TypeOK
  <2>2. q.via # k
    BY <1>5, <2>1
  <2> QED
    BY <1>2, <1>3, <2>1, <2>2
<1>6. ws[p] = "gone" => Offers(p)' = Offers(p)
  BY <1>2, <1>3 DEF Offers
<1>7. ASSUME ws[p] = "gone", Offers(p) = {1}
      PROVE  chan'[p][1] = "down"
  <2>1. chan[p][1] = "down"
    BY <1>7 DEF IInv, GoneInv
  <2>2. 1 \in 1 .. MaxOffers[p]
    BY <1>7 DEF Offers
  <2>3. k # 1 \/ x = "down"
    BY <2>1
  <2> QED
    BY <1>2, <1>3, <2>1, <2>2, <2>3
<1>8. /\ ws' \in [Peers -> {"new", "open", "gone"}]
      /\ \A q \in Peers \ {p} : ws'[q] = ws[q] /\ chan'[q] = chan[q] /\ dc'[q] = dc[q]
      /\ ws[p] = "gone" <=> ws'[p] = "gone"
      /\ asked' \subseteq asked
      /\ UNCHANGED <<table, pending, timers, history>>
  BY <1>1, <1>2, <1>4
<1>9. dc'[p] \in 0 .. MaxOffers[p] /\ (dc'[p] # 0 => chan'[p][dc'[p]] = "up")
  BY <1>4
<1> QED
  BY <1>2, <1>3, <1>4, <1>5, <1>6, <1>7, <1>8, <1>9, PeerStep

LEMMA SessionStep ==
    ASSUME IInv, NEW p \in Peers, NEW k \in 1 .. MaxOffers[p],
           \/ Connect(p) \/ Offer(p, k) \/ ChannelOpens(p, k) \/ ChannelCloses(p, k)
    PROVE  IInv'
<1>1. /\ dc = [dc EXCEPT ![p] = dc[p]] /\ dc[p] \in 0 .. MaxOffers[p]
      /\ dc[p] # 0 => dc[p] \in 1 .. MaxOffers[p] /\ chan[p][dc[p]] = "up"
      /\ MaxOffers[p] \in Nat /\ k \in Nat
      /\ chan[p] \in [1 .. MaxOffers[p] -> {"none", "offered", "up", "down"}]
      /\ chan = [q \in Peers |-> chan[q]]
      /\ ws \in [Peers -> {"new", "open", "gone"}]
      /\ dc \in [Peers -> Nat]
  BY RouterAssumption DEF IInv, TypeOK, ShapeInv
<1>2. CASE Connect(p)
  <2>1. /\ ws' \in [Peers -> {"new", "open", "gone"}]
        /\ ws'[p] = "open" /\ ws[p] = "new"
        /\ \A q \in Peers \ {p} : ws'[q] = ws[q]
        /\ UNCHANGED <<chan, dc, table, pending, timers, asked, history>>
    BY <1>1, <1>2 DEF Connect
  <2>2. \A q \in asked : q.sess = p => chan[p][q.via] = "up"
    BY DEF IInv, TypeOK
  <2> QED
    BY <1>1, <2>1, <2>2, PeerStep
<1>3. CASE Offer(p, k)
  <2>1. chan[p][k] = "none" /\ ws[p] = "open"
    BY <1>1, <1>3 DEF Offer, Offers
  <2>2. dc' = [dc EXCEPT ![p] = dc[p]] /\ chan' = [chan EXCEPT ![p][k] = "offered"]
    BY <1>1, <1>3 DEF Offer
  <2>3. dc[p] # 0 => chan'[p][dc[p]] = "up"
    BY <1>1, <2>1, <2>2
  <2>4. asked' = {q \in asked : "offered" # "down" \/ q.sess # p \/ q.via # k}
    BY <1>3 DEF Offer
  <2>5. UNCHANGED <<ws, table, pending, timers, history>>
    BY <1>3 DEF Offer
  <2> QED
    BY <1>1, <2>1, <2>2, <2>3, <2>4, <2>5, ChannelStep
<1>4. CASE ChannelOpens(p, k)
  <2>1. chan[p][k] = "offered" /\ chan' = [chan EXCEPT ![p][k] = "up"]
    BY <1>4 DEF ChannelOpens
  <2>2. chan'[p][k] = "up"
    BY <1>1, <2>1
  <2>3. asked' = {q \in asked : "up" # "down" \/ q.sess # p \/ q.via # k}
    BY <1>4 DEF ChannelOpens
  <2>4. UNCHANGED <<ws, table, pending, timers, history>>
        /\ dc' = [dc EXCEPT ![p] = k] /\ k \in 0 .. MaxOffers[p]
    BY <1>1, <1>4 DEF ChannelOpens
  <2> QED
    BY <2>1, <2>2, <2>3, <2>4, ChannelStep
<1>5. CASE ChannelCloses(p, k)
  <2>1. chan[p][k] = "up" /\ chan' = [chan EXCEPT ![p][k] = "down"]
    BY <1>5 DEF ChannelCloses
  <2>2. asked' = {q \in asked : "down" # "down" \/ q.sess # p \/ q.via # k}
    BY <1>5 DEF ChannelCloses
  <2>3. UNCHANGED <<ws, table, pending, timers, history>>
        /\ dc' = [dc EXCEPT ![p] = 0] /\ 0 \in 0 .. MaxOffers[p]
    BY <1>1, <1>5 DEF ChannelCloses
  <2> QED
    BY <2>1, <2>2, <2>3, ChannelStep
<1> QED
  BY <1>2, <1>3, <1>4, <1>5

----------------------------------------------------------------------------
(* Calls. *)

\* What the invariant says of a call whose entry is in the table, or whose timer
\* runs.
LEMMA OpenCallFacts ==
    ASSUME IInv
    PROVE  /\ OpenCalls \subseteq timers /\ timers \subseteq made /\ made \subseteq Calls
           /\ \A c \in timers : /\ got[c] = <<>> /\ idOf[c] \in Ids
                                /\ route[c] \in Route /\ route[c].sess \in Peers
           /\ \A c \in Calls \ made : got[c] = <<>>
           /\ \A id \in Ids : pending[id] # NoCall =>
                 pending[id] \in timers /\ idOf[pending[id]] = id
<1>1. made \subseteq Calls /\ OpenCalls \subseteq timers /\ timers \subseteq Calls
  BY DEF IInv, TypeOK, made, OpenCalls
<1>2. \A c \in Calls : OpenInv(c)
  BY DEF IInv, CallInv
<1>3. timers \subseteq made
  BY <1>1, <1>2 DEF OpenInv
<1>4. \A c \in made : idOf[c] \in Ids
  BY DEF IInv, TypeOK, made
<1>5. \A r \in Route : r.sess \in Peers
  BY DEF Route
<1>6. \A id \in Ids : pending[id] # NoCall =>
         pending[id] \in timers /\ idOf[pending[id]] = id
  BY DEF IInv, TypeOK, PendingInv
<1> QED
  BY <1>1, <1>2, <1>3, <1>4, <1>5, <1>6 DEF OpenInv

LEMMA OneReply ==
    ASSUME NEW r \in Reply
    PROVE  /\ <<>> \o <<r>> = <<r>> /\ <<r>> \in Seq(Reply)
           /\ Len(<<r>>) = 1 /\ DOMAIN <<r>> = {1} /\ <<r>>[1] = r
OBVIOUS

\* The first reply to a call, before which it had none, stops its timer.
LEMMA ReplyStep ==
    ASSUME IInv, TableInv', UNCHANGED <<peers, route>>,
           NEW c \in Calls, NEW id \in Ids, NEW r \in Reply,
           got[c] = <<>>,
           c \in made => idOf[c] = id,
           idOf' = [idOf EXCEPT ![c] = id],
           timers' = timers \ {c},
           asked' \subseteq asked,
           \/ pending' = [pending EXCEPT ![id] = NoCall]
           \/ pending' = pending /\ c \notin made,
           got' = [d \in Calls |-> got'[d]],
           \A d \in Calls \ {c} : got'[d] = got[d],
           got'[c] \in {<<>>, <<r>>},
           dropped' \subseteq dropped \cup {c},
           r.code = "answer" =>
               /\ r.node = route[c].node
               /\ \/ r.by \in Stray
                  \/ r.of = c /\ r.by = route[c].sess
                  \/ r.of \in made \ {c} /\ idOf[r.of] = id
    PROVE  IInv'
<1>1. ws' = ws /\ chan' = chan /\ dc' = dc /\ route' = route
  BY DEF peers
<1>2. /\ idOf \in [Calls -> Ids \cup {NoId}] /\ NoId \notin Ids
      /\ idOf'[c] = id
      /\ \A d \in Calls \ {c} : idOf'[d] = idOf[d]
  BY RouterAssumption DEF IInv, TypeOK
<1>3. made' = made \cup {c} /\ \A d \in made : idOf'[d] = idOf[d]
  BY <1>2 DEF made
<1>4. /\ got \in [Calls -> Seq(Reply)]
      /\ <<r>> \in Seq(Reply) /\ <<>> \in Seq(Reply)
  BY EmptySeq, OneReply DEF IInv, TypeOK
<1>5. \A j \in Ids : pending'[j] # NoCall =>
         /\ pending'[j] = pending[j] /\ pending[j] \in timers'
         /\ idOf'[pending[j]] = j
  <2> SUFFICES ASSUME NEW j \in Ids, pending'[j] # NoCall
               PROVE  /\ pending'[j] = pending[j] /\ pending[j] \in timers'
                      /\ idOf'[pending[j]] = j
    OBVIOUS
  <2>1. pending'[j] = pending[j] /\ (c \in made => j # id)
    BY DEF IInv, TypeOK
  <2>2. pending[j] \in timers /\ idOf[pending[j]] = j /\ pending[j] \in made
    BY <2>1, OpenCallFacts
  <2>3. pending[j] # c
    BY <2>1, <2>2
  <2> QED
    BY <1>3, <2>1, <2>2, <2>3
<1>6. TypeOK'
  <2>1. pending' \in [Ids -> Calls \cup {NoCall}]
    BY DEF IInv, TypeOK
  <2>2. idOf' \in [Calls -> Ids \cup {NoId}]
    BY <1>2
  <2>3. dropped' \subseteq made' /\ timers' \subseteq Calls
    BY <1>3 DEF IInv, TypeOK
  <2>4. got' \in [Calls -> Seq(Reply)]
    <3>1. \A d \in Calls : got'[d] \in Seq(Reply)
      BY <1>4
    <3> QED
      BY <3>1
  <2>5. \A q \in asked' : route'[q.call].sess = q.sess /\ chan'[q.sess][q.via] = "up"
    BY <1>1 DEF IInv, TypeOK
  <2>6. route' \in [Calls -> Route \cup {NoRoute}]
    BY <1>1 DEF IInv, TypeOK
  <2>7. /\ ws' \in [Peers -> {"new", "open", "gone"}]
        /\ \A p \in Peers :
              /\ chan'[p] \in [1 .. MaxOffers[p] -> {"none", "offered", "up", "down"}]
              /\ dc'[p] \in 0 .. MaxOffers[p]
              /\ dc'[p] # 0 => chan'[p][dc'[p]] = "up"
    BY <1>1 DEF IInv, TypeOK
  <2> QED
    BY <1>5, <2>1, <2>2, <2>3, <2>4, <2>5, <2>6, <2>7 DEF TypeOK, TableInv
<1>7. ShapeInv' /\ PendingInv' /\ GoneInv'
  <2>1. asked' \subseteq [call : made', sess : Peers, via : Nat]
    <3>1. ASSUME NEW q \in asked'
          PROVE  q \in [call : made', sess : Peers, via : Nat]
      BY <1>3 DEF IInv, ShapeInv
    <3> QED
      BY <3>1
  <2>2. /\ chan' = [p \in Peers |-> chan'[p]] /\ dc' \in [Peers -> Nat]
        /\ \A q \in asked' : q.via \in 1 .. MaxOffers[q.sess]
    BY <1>1 DEF IInv, ShapeInv
  <2>3. GoneInv'
    BY <1>1 DEF IInv, GoneInv, Offers
  <2>4. PendingInv'
    BY <1>5 DEF PendingInv
  <2> QED
    BY <2>1, <2>2, <2>3, <2>4 DEF ShapeInv
<1>8. NoneWaitsOnGone'
  <2>1. OpenCalls' \subseteq OpenCalls
    BY <1>5 DEF OpenCalls
  <2> QED
    BY <1>1, <2>1 DEF IInv, NoneWaitsOnGone, Offers
<1>9. CallInv(c)'
  <2>1. OpenInv(c)' /\ OnceInv(c)'
    <3>1. Len(got'[c]) <= 1
      BY EmptySeq, OneReply
    <3> QED
      BY <1>3, <3>1 DEF OpenInv, OnceInv
  <2>2. AnswerInv(c)'
    <3> SUFFICES ASSUME NEW i \in DOMAIN got'[c], got'[c][i].code = "answer"
                 PROVE  /\ got'[c][i].node = route'[c].node
                        /\ \/ got'[c][i].by \in Stray
                           \/ got'[c][i].of = c /\ got'[c][i].by = route'[c].sess
                           \/ /\ got'[c][i].of \in made' \ {c}
                              /\ idOf'[got'[c][i].of] = idOf'[c]
      BY DEF AnswerInv
    <3>1. got'[c] = <<r>> /\ got'[c][i] = r
      BY OneReply
    <3> QED
      BY <1>1, <1>2, <1>3, <3>1
  <2> QED
    BY <2>1, <2>2 DEF CallInv
<1>10. ASSUME NEW d \in Calls \ {c}
       PROVE  CallInv(d)'
  <2>1. got'[d] = got[d] /\ idOf'[d] = idOf[d] /\ CallInv(d)
    BY <1>2 DEF IInv
  <2>2. OpenInv(d)'
    BY <1>1, <1>3, <2>1 DEF CallInv, OpenInv
  <2>3. OnceInv(d)'
    BY <1>1, <2>1 DEF CallInv, OnceInv, Closure, Error
  <2>4. AnswerInv(d)'
    BY <1>1, <1>3, <2>1 DEF CallInv, AnswerInv
  <2> QED
    BY <2>2, <2>3, <2>4 DEF CallInv
<1> QED
  BY <1>6, <1>7, <1>8, <1>9, <1>10 DEF IInv

\* A call that goes nowhere is replied to and leaves no entry.
LEMMA TurnedDownStep ==
    ASSUME IInv, NEW c \in Calls, NEW id \in IdsOf[c], NEW kind \in Kinds,
           c \notin made, idOf' = [idOf EXCEPT ![c] = id], UNCHANGED peers,
           Refuse(c, kind) \/ FindNoProvider(c, kind)
    PROVE  IInv'
<1>1. PICK code \in {"forbidden", "no_provider"} :
          Deliver({c}, LAMBDA d : <<Error(code, d)>>, dc)
  BY DEF Refuse, FindNoProvider
<1> DEFINE r == Error(code, c)
<1>2. r \in Reply /\ r.code # "answer"
  BY DEF Error, Reply, Codes
<1>3. got[c] = <<>> /\ c \notin timers /\ id \in Ids
  BY OpenCallFacts, RouterAssumption
<1>4. /\ got' = [d \in Calls |-> got'[d]]
      /\ \A d \in Calls \ {c} : got'[d] = got[d]
      /\ got'[c] = got[c] \o <<r>> \/ got'[c] = got[c]
      /\ dropped' \subseteq dropped \cup {c}
  BY <1>1 DEF Deliver
<1>5. got'[c] \in {<<>>, <<r>>}
  BY <1>2, <1>3, <1>4, OneReply
<1>6. TableInv'
  <2>1. CASE Refuse(c, kind)
    BY <2>1, TableKept DEF Refuse, table
  <2>2. CASE FindNoProvider(c, kind)
    <3>1. Pruned \in SUBSET DOMAIN adverts
      BY DEF Pruned
    <3> QED
      BY <2>2, <3>1, KeepTable DEF FindNoProvider, IInv
  <2> QED
    BY <2>1, <2>2
<1>7. /\ pending' = pending /\ timers' = timers /\ asked' = asked /\ route' = route
      /\ timers = timers \ {c}
  BY <1>3 DEF Refuse, FindNoProvider
<1> HIDE DEF r
<1> QED
  BY <1>2, <1>3, <1>4, <1>5, <1>6, <1>7, ReplyStep

\* An answer that finds no entry is forgotten.
LEMMA LateAnswerStep ==
    ASSUME IInv, NEW p \in Peers, asked' \subseteq asked,
           UNCHANGED <<peers, table, pending, timers, history>>
    PROVE  IInv'
<1>1. ws' = ws /\ chan' = chan /\ dc' = dc
  BY DEF peers
<1>2. /\ ws \in [Peers -> {"new", "open", "gone"}]
      /\ chan = [q \in Peers |-> chan[q]]
      /\ dc \in [Peers -> Nat]
      /\ chan[p] \in [1 .. MaxOffers[p] -> {"none", "offered", "up", "down"}]
      /\ dc[p] \in 0 .. MaxOffers[p]
      /\ dc[p] # 0 => chan[p][dc[p]] = "up"
      /\ \A q \in asked : q.sess = p => chan[p][q.via] = "up"
      /\ ws[p] = "gone" /\ Offers(p) = {1} => chan[p][1] = "down"
  BY DEF IInv, TypeOK, ShapeInv, GoneInv
<1>3. Offers(p)' = Offers(p)
  BY <1>1 DEF Offers
<1> QED
  BY ZenonT(60), <1>1, <1>2, <1>3, PeerStep

\* What is asked of an answer: a call the session was sent, under that call's id.
OfAsked(id, of, by) ==
    of \in made /\ idOf[of] = id /\ by = route[of].sess

LEMMA SettleStep ==
    ASSUME IInv, NEW id \in Ids, NEW of \in Calls \cup {NoCall}, NEW by \in Peers,
           by \in Stray \/ OfAsked(id, of, by),
           SettleRpcResponse(id, of, by),
           asked' \subseteq asked, UNCHANGED <<peers, table, idOf, route>>
    PROVE  IInv'
<1> DEFINE c == Settles(id)
           r == [code |-> "answer", of |-> of, by |-> by, node |-> route[c].node]
<1>1. CASE c = NoCall
  <2>1. UNCHANGED <<pending, timers, got, dropped>>
    BY <1>1 DEF SettleRpcResponse
  <2> QED
    BY <2>1, LateAnswerStep DEF history
<1>2. CASE c # NoCall
  <2>1. /\ c \in timers /\ c \in made /\ c \in Calls
        /\ idOf[c] = id
        /\ got[c] = <<>> /\ route[c] \in Route
    BY <1>2, OpenCallFacts DEF Settles
  <2>2. /\ pending' = [pending EXCEPT ![id] = NoCall]
        /\ timers' = timers \ {c}
        /\ Deliver({c}, LAMBDA d : <<[code |-> "answer", of |-> of, by |-> by,
                                      node |-> route[d].node]>>, dc)
    BY <1>2 DEF SettleRpcResponse
  <2>3. /\ r \in Reply /\ r.code = "answer" /\ r.of = of /\ r.by = by
        /\ r.node = route[c].node
    BY <2>1 DEF Reply, Codes, Route
  <2> HIDE DEF c
  <2>4. /\ got' = [d \in Calls |-> got'[d]]
        /\ \A d \in Calls \ {c} : got'[d] = got[d]
        /\ got'[c] = got[c] \o <<r>> \/ got'[c] = got[c]
        /\ dropped' \subseteq dropped \cup {c}
    BY <2>1, <2>2 DEF Deliver
  <2> HIDE DEF r
  <2>5. got'[c] \in {<<>>, <<r>>}
    BY <2>1, <2>3, <2>4, OneReply
  <2>6. TableInv' /\ idOf' = [idOf EXCEPT ![c] = id]
    BY <2>1, TableKept DEF table, IInv, TypeOK
  <2>7. asked' \subseteq asked /\ UNCHANGED <<peers, route>>
    OBVIOUS
  <2>8. \/ r.by \in Stray
        \/ r.of = c /\ r.by = route[c].sess
        \/ r.of \in made \ {c} /\ idOf[r.of] = id
    BY <2>1, <2>3 DEF OfAsked
  <2> QED
    BY <2>1, <2>2, <2>3, <2>4, <2>5, <2>6, <2>7, <2>8, ReplyStep
<1> QED
  BY <1>1, <1>2

LEMMA AnswerStep ==
    ASSUME IInv, NEW q \in asked, Answer(q)
    PROVE  IInv'
<1>1. /\ q.call \in made /\ q.call \in Calls /\ idOf[q.call] \in Ids
      /\ q.sess \in Peers /\ route[q.call].sess = q.sess
  BY DEF IInv, ShapeInv, TypeOK, made
<1>2. /\ SettleRpcResponse(idOf[q.call], q.call, q.sess)
      /\ asked' \subseteq asked /\ UNCHANGED <<peers, table, idOf, route>>
  BY DEF Answer
<1>3. OfAsked(idOf[q.call], q.call, q.sess)
  BY <1>1 DEF OfAsked
<1> QED
  BY <1>1, <1>2, <1>3, SettleStep

LEMMA StrayAnswerStep ==
    ASSUME IInv, NEW p \in Peers, NEW id \in Ids, StrayAnswer(p, id)
    PROVE  IInv'
<1>1. /\ SettleRpcResponse(id, NoCall, p) /\ p \in Stray
      /\ asked' \subseteq asked /\ UNCHANGED <<peers, table, idOf, route>>
  BY DEF StrayAnswer
<1> QED
  BY <1>1, SettleStep

\* The timer may take out the entry of another call, which then has its own.
LEMMA TimeoutStep ==
    ASSUME IInv, NEW c \in Calls, Timeout(c)
    PROVE  IInv'
<1> DEFINE r == Error("timeout", c)
<1>1. /\ c \in timers /\ c \in made /\ idOf[c] \in Ids /\ got[c] = <<>>
  BY OpenCallFacts DEF Timeout
<1>2. r \in Reply /\ r.code # "answer"
  BY DEF Error, Reply, Codes
<1>3. /\ got' = [d \in Calls |-> got'[d]]
      /\ \A d \in Calls \ {c} : got'[d] = got[d]
      /\ got'[c] = got[c] \o <<r>> \/ got'[c] = got[c]
      /\ dropped' \subseteq dropped \cup {c}
  BY DEF Timeout, Deliver
<1> HIDE DEF r
<1>4. got'[c] \in {<<>>, <<r>>}
  BY <1>1, <1>2, <1>3, OneReply
<1>5. TableInv'
  BY DropTable DEF Timeout, IInv
<1>6. /\ pending' = [pending EXCEPT ![idOf[c]] = NoCall]
      /\ timers' = timers \ {c} /\ asked' = asked
      /\ UNCHANGED <<peers, route>> /\ idOf' = idOf
  BY DEF Timeout
<1>7. idOf' = [idOf EXCEPT ![c] = idOf[c]]
  BY <1>6 DEF IInv, TypeOK
<1> QED
  BY <1>1, <1>2, <1>3, <1>4, <1>5, <1>6, <1>7, ReplyStep

\* The provider a call is forwarded to has its channel up.
LEMMA ForwardStep ==
    ASSUME IInv, NEW c \in Calls, NEW id \in IdsOf[c], NEW kind \in Kinds,
           c \notin made, idOf' = [idOf EXCEPT ![c] = id], UNCHANGED peers,
           Forward(c, id, kind)
    PROVE  IInv'
<1>1. PICK p \in Providers(c, kind) :
          /\ Keep(Pruned)
          /\ pending' = [pending EXCEPT ![id] = c]
          /\ timers' = timers \cup {c}
          /\ asked' = asked \cup {[call |-> c, sess |-> p, via |-> dc[p]]}
          /\ route' = [route EXCEPT ![c] = [sess |-> p, node |-> adverts[p].node]]
          /\ UNCHANGED <<got, dropped>>
  BY DEF Forward
<1> DEFINE to == [sess |-> p, node |-> adverts[p].node]
<1>2. /\ p \in Peers /\ dc[p] # 0 /\ to \in Route /\ to.sess = p
      /\ dc[p] \in 1 .. MaxOffers[p] /\ chan[p][dc[p]] = "up"
      /\ id \in Ids
  <2>1. p \in DOMAIN adverts /\ dc[p] # 0
    BY DEF Providers, Pruned
  <2>2. p \in Peers /\ adverts[p].node \in Nodes
    BY <2>1 DEF IInv, TypeOK, Advert
  <2>3. MaxOffers[p] \in Nat /\ id \in Ids
    BY <2>2, RouterAssumption
  <2>4. dc[p] \in 0 .. MaxOffers[p] /\ chan[p][dc[p]] = "up"
    BY <2>1, <2>2 DEF IInv, TypeOK
  <2>5. to \in Route /\ to.sess = p
    BY <2>2 DEF Route
  <2> QED
    BY <2>1, <2>2, <2>3, <2>4, <2>5
<1> HIDE DEF to
<1>3. /\ ws' = ws /\ chan' = chan /\ dc' = dc /\ got' = got /\ dropped' = dropped
      /\ \A d \in Calls \ {c} : idOf'[d] = idOf[d] /\ route'[d] = route[d]
      /\ idOf'[c] = id /\ route'[c] = to
      /\ c \notin timers /\ got[c] = <<>> /\ NoId \notin Ids
  BY <1>1, OpenCallFacts, RouterAssumption DEF peers, to, IInv, TypeOK
<1>4. /\ made' = made \cup {c}
      /\ \A d \in made : d # c /\ idOf'[d] = idOf[d] /\ route'[d] = route[d]
  BY <1>2, <1>3 DEF made
<1>5. \A j \in Ids : pending'[j] # NoCall =>
         \/ pending'[j] = c /\ j = id
         \/ /\ pending'[j] = pending[j] /\ pending[j] \in timers
            /\ pending[j] \in made /\ idOf[pending[j]] = j
  BY <1>1, OpenCallFacts DEF IInv, TypeOK
<1>6. TypeOK'
  <2>1. pending' \in [Ids -> Calls \cup {NoCall}] /\ timers' \subseteq Calls
    BY <1>1 DEF IInv, TypeOK
  <2>2. /\ idOf' \in [Calls -> Ids \cup {NoId}]
        /\ route' \in [Calls -> Route \cup {NoRoute}]
    BY <1>1, <1>2 DEF IInv, TypeOK, to
  <2>3. dropped' \subseteq made' /\ got' \in [Calls -> Seq(Reply)]
    BY <1>3, <1>4 DEF IInv, TypeOK
  <2>4. ASSUME NEW q \in asked'
        PROVE  route'[q.call].sess = q.sess /\ chan'[q.sess][q.via] = "up"
    <3>1. CASE q \in asked
      <4>1. q.call \in made
        BY <3>1 DEF IInv, ShapeInv
      <4> QED
        BY <1>3, <1>4, <3>1, <4>1 DEF IInv, TypeOK
    <3>2. CASE q = [call |-> c, sess |-> p, via |-> dc[p]]
      BY <1>2, <1>3, <3>2
    <3> QED
      BY <1>1, <3>1, <3>2
  <2>5. /\ ws' \in [Peers -> {"new", "open", "gone"}]
        /\ \A q \in Peers :
              /\ chan'[q] \in [1 .. MaxOffers[q] -> {"none", "offered", "up", "down"}]
              /\ dc'[q] \in 0 .. MaxOffers[q]
              /\ dc'[q] # 0 => chan'[q][dc'[q]] = "up"
    BY <1>3 DEF IInv, TypeOK
  <2>6. \A j \in Ids : pending'[j] # NoCall => pending'[j] \in timers'
    BY <1>1, <1>5
  <2>7. TableInv'
    <3>1. Pruned \in SUBSET DOMAIN adverts
      BY DEF Pruned
    <3> QED
      BY <1>1, <3>1, KeepTable DEF IInv
  <2> QED
    BY <2>1, <2>2, <2>3, <2>4, <2>5, <2>6, <2>7 DEF TypeOK, TableInv
<1>7. ShapeInv' /\ PendingInv' /\ GoneInv'
  <2>1. /\ chan' = [q \in Peers |-> chan'[q]] /\ dc' \in [Peers -> Nat]
        /\ GoneInv'
    BY <1>3 DEF IInv, ShapeInv, GoneInv, Offers
  <2>2. ASSUME NEW q \in asked'
        PROVE  /\ q \in [call : made', sess : Peers, via : Nat]
               /\ q.via \in 1 .. MaxOffers[q.sess]
    <3>1. CASE q \in asked
      BY <1>4, <3>1 DEF IInv, ShapeInv
    <3>2. CASE q = [call |-> c, sess |-> p, via |-> dc[p]]
      <4>1. dc[p] \in Nat
        BY <1>2 DEF IInv, ShapeInv
      <4> QED
        BY <1>2, <1>4, <3>2, <4>1
    <3> QED
      BY <1>1, <3>1, <3>2
  <2>3. PendingInv'
    BY <1>3, <1>4, <1>5 DEF PendingInv
  <2> QED
    BY <2>1, <2>2, <2>3 DEF ShapeInv
<1>8. NoneWaitsOnGone'
  <2> SUFFICES ASSUME NEW d \in OpenCalls', ws'[route'[d].sess] = "gone"
               PROVE  Offers(route[d].sess)' # {1}
    BY DEF NoneWaitsOnGone
  <2>1. CASE d = c
    <3>1. route'[d].sess = p
      BY <1>2, <1>3, <2>1
    <3>2. CASE Offers(p) = {1}
      <4>1. chan[p][1] = "down"
        BY <1>2, <1>3, <2>1, <3>1, <3>2 DEF IInv, GoneInv
      <4>2. dc[p] \in Offers(p)
        BY <1>2 DEF Offers
      <4> QED
        BY <1>2, <3>2, <4>1, <4>2
    <3>3. CASE Offers(p) # {1}
      BY <1>3, <3>1, <3>3 DEF Offers
    <3> QED
      BY <3>2, <3>3
  <2>2. CASE d # c
    <3>1. d \in OpenCalls /\ d \in made
      BY <1>5, <2>2 DEF OpenCalls
    <3>2. route'[d] = route[d]
      BY <1>4, <3>1
    <3>3. Offers(route[d].sess) # {1}
      BY <1>3, <3>1, <3>2 DEF IInv, NoneWaitsOnGone
    <3> QED
      BY <1>3, <3>2, <3>3 DEF Offers
  <2> QED
    BY <2>1, <2>2
<1>9. CallInv(c)'
  <2>1. OpenInv(c)'
    BY <1>2, <1>3, <1>4 DEF OpenInv
  <2>2. Len(got'[c]) <= 1 /\ DOMAIN got'[c] = {}
    BY <1>3, EmptySeq
  <2>3. OnceInv(c)' /\ AnswerInv(c)'
    BY <2>2 DEF OnceInv, AnswerInv
  <2> QED
    BY <2>1, <2>3 DEF CallInv
<1>10. ASSUME NEW d \in Calls \ {c}
       PROVE  CallInv(d)'
  <2>1. /\ got'[d] = got[d] /\ idOf'[d] = idOf[d] /\ route'[d] = route[d]
        /\ CallInv(d)
    BY <1>3 DEF IInv
  <2>2. OpenInv(d)'
    BY <1>1, <1>4, <2>1 DEF CallInv, OpenInv
  <2>3. OnceInv(d)'
    BY <1>3, <2>1 DEF CallInv, OnceInv, Closure, Error
  <2>4. AnswerInv(d)'
    BY <1>4, <2>1 DEF CallInv, AnswerInv
  <2> QED
    BY <2>2, <2>3, <2>4 DEF CallInv
<1> QED
  BY <1>6, <1>7, <1>8, <1>9, <1>10 DEF IInv

LEMMA RouteStep ==
    ASSUME IInv, NEW c \in Calls, NEW id \in IdsOf[c], NEW kind \in Kinds,
           RpcReq(c, id, kind) \/ RpcRoute(c, id, kind)
    PROVE  IInv'
BY TurnedDownStep, ForwardStep DEF RpcReq, RpcRoute, RouteRpcRequest

----------------------------------------------------------------------------
(* The end of a session. *)

\* What cleanup tells a caller.
LEMMA ClosureFacts ==
    ASSUME NEW c \in Calls
    PROVE  /\ <<>> \o Closure(c) = Closure(c) /\ Closure(c) \in Seq(Reply)
           /\ CallerOf[c] = Http => Len(Closure(c)) = 1
           /\ \A i \in DOMAIN Closure(c) : Closure(c)[i].code # "answer"
<1> DEFINE r == Error("peer_closed", c)
           e == Error("error", c)
<1>1. /\ r \in Reply /\ r.code # "answer"
      /\ e \in Reply /\ e.code # "answer"
  BY DEF Error, Reply, Codes
<1>2. Closure(c) = IF CallerOf[c] = Http THEN <<e>> ELSE <<r, e>>
  BY DEF Closure
<1> HIDE DEF r, e
<1>3. CASE CallerOf[c] = Http
  <2>1. Closure(c) = <<e>>
    BY <1>2, <1>3
  <2> QED
    BY <1>1, <2>1, OneReply
<1>4. CASE CallerOf[c] # Http
  <2>1. Closure(c) = <<r, e>>
    BY <1>2, <1>4
  <2>2. <<r, e>> \in Seq(Reply) /\ DOMAIN <<r, e>> = {1, 2}
    BY <1>1
  <2>3. <<>> \o <<r, e>> = <<r, e>>
    BY <2>2, ConcatEmptySeq
  <2> QED
    BY <1>1, <1>4, <2>1, <2>2, <2>3
<1> QED
  BY <1>3, <1>4

\* Cleanup closes the channels of a session that had one offer, ends every call
\* it made or served, and tells only callers with a channel.
LEMMA CleanupStep ==
    ASSUME IInv, NEW p \in Peers, Cleanup(p)
    PROVE  IInv'
<1> DEFINE shut == {dc[p]} \cup {k \in Offers(p) : k + 1 \notin Offers(p)}
           closed == EndsWith(p)
           new == [k \in 1 .. MaxOffers[p] |-> IF k \in shut THEN "down" ELSE chan[p][k]]
<1>1. /\ MaxOffers[p] \in Nat
      /\ chan[p] \in [1 .. MaxOffers[p] -> {"none", "offered", "up", "down"}]
      /\ chan = [q \in Peers |-> chan[q]]
      /\ dc \in [Peers -> Nat]
      /\ dc[p] \in 0 .. MaxOffers[p]
      /\ dc[p] # 0 => chan[p][dc[p]] = "up"
      /\ ws \in [Peers -> {"new", "open", "gone"}]
  BY RouterAssumption DEF IInv, TypeOK, ShapeInv
<1>2. /\ ws[p] = "open"
      /\ ws' = [ws EXCEPT ![p] = "gone"]
      /\ chan' = [chan EXCEPT ![p] = new]
      /\ dc' = [dc EXCEPT ![p] = 0]
      /\ Drop({p})
      /\ pending' = [id \in Ids |-> IF pending[id] \in closed THEN NoCall
                                    ELSE pending[id]]
      /\ timers' = timers \ closed
      /\ asked' = {q \in asked : q.sess # p \/ q.via \notin shut}
      /\ Deliver(closed, Closure, dc')
      /\ UNCHANGED <<idOf, route>>
  BY <1>1 DEF Cleanup
<1> HIDE DEF shut
<1>3. /\ new \in [1 .. MaxOffers[p] -> {"none", "offered", "up", "down"}]
      /\ \A k \in 1 .. MaxOffers[p] :
            new[k] = IF k \in shut THEN "down" ELSE chan[p][k]
  BY <1>1
<1> HIDE DEF new
<1>4. /\ \A q \in Peers \ {p} : ws'[q] = ws[q] /\ chan'[q] = chan[q] /\ dc'[q] = dc[q]
      /\ ws'[p] = "gone" /\ chan'[p] = new /\ dc'[p] = 0
      /\ chan' = [q \in Peers |-> chan'[q]]
      /\ dc' \in [Peers -> Nat]
      /\ ws' \in [Peers -> {"new", "open", "gone"}]
      /\ idOf' = idOf /\ route' = route /\ made' = made
  BY <1>1, <1>2 DEF made
<1>5. Offers(p)' = Offers(p) /\ \A q \in Peers : Offers(q)' = Offers(q)
  <2>1. \A k \in 1 .. MaxOffers[p] : new[k] = "none" <=> chan[p][k] = "none"
    BY <1>1, <1>3 DEF shut, Offers
  <2>2. Offers(p)' = Offers(p)
    BY <1>4, <2>1 DEF Offers
  <2>3. ASSUME NEW q \in Peers, q # p
        PROVE  Offers(q)' = Offers(q)
    <3>1. chan'[q] = chan[q]
      BY <1>4, <2>3
    <3> QED
      BY <3>1 DEF Offers
  <2> QED
    BY <2>2, <2>3
<1>6. /\ closed \subseteq OpenCalls /\ closed \subseteq timers /\ closed \subseteq Calls
      /\ closed \subseteq made
      /\ \A c \in closed : /\ got[c] = <<>> /\ route[c] \in Route
                           /\ CallerOf[c] = p \/ route[c].sess = p
  BY OpenCallFacts DEF EndsWith
<1>7. /\ got' = [c \in Calls |-> got'[c]]
      /\ \A c \in Calls \ closed : got'[c] = got[c]
      /\ \A c \in closed :
            \/ got'[c] = got[c]
            \/ /\ got'[c] = got[c] \o Closure(c)
               /\ CallerOf[c] = Http \/ dc'[CallerOf[c]] # 0
      /\ dropped' \subseteq dropped \cup closed
  BY <1>2, <1>6 DEF Deliver
<1>8. \A id \in Ids : pending'[id] # NoCall =>
         /\ pending'[id] = pending[id] /\ pending[id] \in timers'
         /\ pending[id] \in OpenCalls
         /\ CallerOf[pending[id]] # p /\ route[pending[id]].sess # p
  <2> SUFFICES ASSUME NEW id \in Ids, pending'[id] # NoCall
               PROVE  /\ pending'[id] = pending[id] /\ pending[id] \in timers'
                      /\ pending[id] \in OpenCalls
                      /\ CallerOf[pending[id]] # p /\ route[pending[id]].sess # p
    OBVIOUS
  <2>1. pending[id] \notin closed /\ pending'[id] = pending[id]
    BY <1>2
  <2>2. pending[id] \in OpenCalls /\ pending[id] \in timers
    BY <2>1, OpenCallFacts DEF OpenCalls
  <2> QED
    BY <1>2, <2>1, <2>2 DEF EndsWith
<1> HIDE DEF closed
<1>9. TypeOK'
  <2>1. ASSUME NEW q \in Peers
        PROVE  /\ chan'[q] \in [1 .. MaxOffers[q] -> {"none", "offered", "up", "down"}]
               /\ dc'[q] \in 0 .. MaxOffers[q]
               /\ dc'[q] # 0 => chan'[q][dc'[q]] = "up"
    <3>1. CASE q = p
      BY <1>1, <1>3, <1>4, <3>1
    <3>2. CASE q # p
      <4>1. chan'[q] = chan[q] /\ dc'[q] = dc[q]
        BY <1>4, <3>2
      <4> QED
        BY <4>1 DEF IInv, TypeOK
    <3> QED
      BY <3>1, <3>2
  <2>2. pending' \in [Ids -> Calls \cup {NoCall}]
    BY <1>2 DEF IInv, TypeOK
  <2>3. ASSUME NEW q \in asked'
        PROVE  route'[q.call].sess = q.sess /\ chan'[q.sess][q.via] = "up"
    <3>1. /\ q \in asked /\ q.sess \in Peers
          /\ q.via \in 1 .. MaxOffers[q.sess]
          /\ route[q.call].sess = q.sess /\ chan[q.sess][q.via] = "up"
      BY <1>2 DEF IInv, ShapeInv, TypeOK
    <3>2. CASE q.sess = p
      <4>1. q.via \notin shut
        BY <1>2, <3>2
      <4> QED
        BY <1>3, <1>4, <3>1, <3>2, <4>1
    <3>3. CASE q.sess # p
      BY <1>4, <3>1, <3>3
    <3> QED
      BY <3>2, <3>3
  <2>4. got' \in [Calls -> Seq(Reply)]
    <3>1. \A c \in Calls : got[c] \in Seq(Reply)
      BY DEF IInv, TypeOK
    <3>2. \A c \in closed : got'[c] \in Seq(Reply)
      <4> SUFFICES ASSUME NEW c \in closed
                   PROVE  got'[c] \in Seq(Reply)
        OBVIOUS
      <4>1. c \in Calls /\ got[c] = <<>> /\ got'[c] \in {got[c], got[c] \o Closure(c)}
        BY <1>6, <1>7
      <4>2. got'[c] \in {<<>>, Closure(c)}
        BY <4>1, ClosureFacts
      <4> QED
        BY <4>1, <4>2, EmptySeq, ClosureFacts
    <3>3. \A c \in Calls : got'[c] \in Seq(Reply)
      BY <1>7, <3>1, <3>2
    <3> QED
      BY <1>7, <3>3
  <2>5. dropped' \subseteq made' /\ timers' \subseteq Calls
    BY <1>2, <1>4, <1>6, <1>7 DEF IInv, TypeOK
  <2>6. /\ idOf' \in [Calls -> Ids \cup {NoId}]
        /\ route' \in [Calls -> Route \cup {NoRoute}]
    BY <1>4 DEF IInv, TypeOK
  <2>7. TableInv'
    BY <1>2, DropTable DEF IInv
  <2> QED
    BY <1>4, <1>8, <2>1, <2>2, <2>3, <2>4, <2>5, <2>6, <2>7 DEF TypeOK, TableInv
<1>10. ShapeInv' /\ PendingInv'
  <2>1. asked' \subseteq asked
    BY <1>2
  <2>2. /\ asked' \subseteq [call : made', sess : Peers, via : Nat]
        /\ \A q \in asked' : q.via \in 1 .. MaxOffers[q.sess]
    BY <1>4, <2>1 DEF IInv, ShapeInv
  <2>3. PendingInv'
    BY <1>4, <1>8 DEF IInv, PendingInv
  <2> QED
    BY <1>4, <2>2, <2>3 DEF ShapeInv
<1>11. GoneInv'
  <2> SUFFICES ASSUME NEW q \in Peers, ws'[q] = "gone", Offers(q)' = {1}
               PROVE  chan'[q][1] = "down"
    BY DEF GoneInv
  <2>1. Offers(q) = {1}
    BY <1>5
  <2>2. CASE q = p
    <3>1. 1 \in 1 .. MaxOffers[p] /\ 1 \in shut
      BY <2>1, <2>2 DEF shut, Offers
    <3> QED
      BY <1>3, <1>4, <2>2, <3>1
  <2>3. CASE q # p
    BY <1>4, <2>1, <2>3 DEF IInv, GoneInv
  <2> QED
    BY <2>2, <2>3
<1>12. NoneWaitsOnGone'
  <2> SUFFICES ASSUME NEW c \in OpenCalls', ws'[route'[c].sess] = "gone"
               PROVE  Offers(route[c].sess)' # {1}
    BY DEF NoneWaitsOnGone
  <2>1. c \in OpenCalls /\ route[c].sess # p /\ c \in timers
    BY <1>2, <1>8 DEF OpenCalls
  <2>2. route[c].sess \in Peers
    BY <2>1, OpenCallFacts
  <2>3. ws[route[c].sess] = "gone"
    BY <1>4, <2>1, <2>2
  <2>4. Offers(route[c].sess) # {1}
    BY <2>1, <2>3 DEF IInv, NoneWaitsOnGone
  <2> DEFINE s == route[c].sess
  <2>5. s' = s /\ s \in Peers /\ Offers(s)' = Offers(s)
    BY <1>4, <1>5, <2>2 DEF Offers
  <2> QED
    BY <2>4, <2>5
<1>13. ASSUME NEW c \in Calls \ closed
       PROVE  CallInv(c)'
  <2>1. /\ got'[c] = got[c] /\ idOf'[c] = idOf[c] /\ route'[c] = route[c]
        /\ CallInv(c)
        /\ c \in timers' => c \in timers
    BY <1>2, <1>4, <1>7 DEF IInv
  <2>2. OpenInv(c)' /\ AnswerInv(c)'
    BY <1>4, <2>1 DEF CallInv, OpenInv, AnswerInv
  <2>3. OnceInv(c)'
    <3>1. route[c] \in Route => route[c].sess \in Peers
      BY DEF Route
    <3> QED
      BY <1>4, <2>1, <3>1 DEF CallInv, OnceInv, Closure, Error
  <2> QED
    BY <2>2, <2>3 DEF CallInv
<1>14. ASSUME NEW c \in closed
       PROVE  CallInv(c)'
  <2>1. c \in Calls /\ c \in made /\ c \notin timers'
    BY <1>2, <1>6
  <2>2. OpenInv(c)'
    BY <1>4, <2>1 DEF OpenInv
  <2>3. got'[c] \in {<<>>, Closure(c)}
    BY <1>6, <1>7, <2>1, ClosureFacts
  <2>4. AnswerInv(c)'
    BY <2>1, <2>3, EmptySeq, ClosureFacts DEF AnswerInv
  <2>5. OnceInv(c)'
    <3>1. CASE got'[c] = <<>>
      <4>1. Len(got'[c]) <= 1
        BY <3>1, EmptySeq
      <4> QED
        BY <4>1 DEF OnceInv
    <3>2. CASE got'[c] # <<>>
      <4>1. got'[c] = Closure(c) /\ (CallerOf[c] = Http \/ dc'[CallerOf[c]] # 0)
        BY <1>6, <1>7, <2>3, <3>2
      <4>2. CASE CallerOf[c] = Http
        <5>1. Len(got'[c]) <= 1
          BY <2>1, <4>1, <4>2, ClosureFacts
        <5> QED
          BY <5>1 DEF OnceInv
      <4>3. CASE CallerOf[c] # Http
        <5>1. route'[c] \in Route /\ ws'[route'[c].sess] = "gone"
          BY <1>4, <1>6, <4>1, <4>3
        <5>2. got'[c] = Closure(c)'
          BY <4>1 DEF Closure, Error
        <5> QED
          BY <4>3, <5>1, <5>2 DEF OnceInv
      <4> QED
        BY <4>2, <4>3
    <3> QED
      BY <3>1, <3>2
  <2> QED
    BY <2>2, <2>4, <2>5 DEF CallInv
<1> QED
  BY <1>9, <1>10, <1>11, <1>12, <1>13, <1>14 DEF IInv

----------------------------------------------------------------------------
(* The theorems. *)

LEMMA InitInv == Init => IInv
<1> SUFFICES ASSUME Init
             PROVE  IInv
  OBVIOUS
<1>1. /\ DOMAIN adverts = {} /\ before = {} /\ asked = {} /\ timers = {}
      /\ dropped = {} /\ made = {}
      /\ \A id \in Ids : pending[id] = NoCall
      /\ \A c \in Calls : idOf[c] = NoId /\ got[c] = <<>>
      /\ \A p \in Peers : ws[p] = "new" /\ dc[p] = 0
      /\ OpenCalls = {}
  BY RouterAssumption DEF Init, made, OpenCalls
<1>2. TypeOK
  <2>1. ASSUME NEW p \in Peers
        PROVE  /\ chan[p] \in [1 .. MaxOffers[p] -> {"none", "offered", "up", "down"}]
               /\ dc[p] \in 0 .. MaxOffers[p] /\ dc[p] = 0
    <3>1. MaxOffers[p] \in Nat
      BY RouterAssumption
    <3> QED
      BY <3>1 DEF Init
  <2>2. got \in [Calls -> Seq(Reply)]
    BY EmptySeq DEF Init
  <2>3. /\ ws \in [Peers -> {"new", "open", "gone"}]
        /\ pending \in [Ids -> Calls \cup {NoCall}]
        /\ idOf \in [Calls -> Ids \cup {NoId}]
        /\ route \in [Calls -> Route \cup {NoRoute}]
    BY DEF Init
  <2> QED
    BY <1>1, <2>1, <2>2, <2>3 DEF TypeOK
<1>3. ShapeInv /\ PendingInv /\ GoneInv /\ NoneWaitsOnGone
  BY <1>1 DEF Init, ShapeInv, PendingInv, GoneInv, NoneWaitsOnGone
<1>4. ASSUME NEW c \in Calls
      PROVE  CallInv(c)
  <2>1. Len(got[c]) <= 1 /\ DOMAIN got[c] = {}
    BY <1>1, EmptySeq
  <2> QED
    BY <1>1, <2>1 DEF CallInv, OpenInv, OnceInv, AnswerInv
<1> QED
  BY <1>2, <1>3, <1>4 DEF IInv

LEMMA NextInv ==
    ASSUME IInv, [Next]_vars
    PROVE  IInv'
<1>1. ASSUME NEW p \in Peers, Connect(p)
      PROVE  IInv'
  <2>1. 1 \in 1 .. MaxOffers[p]
    BY RouterAssumption
  <2> QED
    BY <1>1, <2>1, SessionStep
<1>2. ASSUME NEW p \in Peers, NEW k \in 1 .. MaxOffers[p],
             Offer(p, k) \/ ChannelOpens(p, k) \/ ChannelCloses(p, k)
      PROVE  IInv'
  BY <1>2, SessionStep
<1>3. ASSUME NEW p \in Peers,
             \/ GoesStale(p)
             \/ \E node \in NodesOf[p], kinds \in SUBSET Kinds : Advertise(p, node, kinds)
      PROVE  IInv'
  BY <1>3, AdvertsStep
<1>4. ASSUME NEW p \in Peers, Cleanup(p)
      PROVE  IInv'
  BY <1>4, CleanupStep
<1>5. CASE ListProviders
  BY <1>5, AdvertsStep
<1>6. ASSUME NEW c \in Calls,
             \/ \E id \in IdsOf[c], kind \in Kinds :
                   RpcReq(c, id, kind) \/ RpcRoute(c, id, kind)
             \/ Timeout(c)
      PROVE  IInv'
  BY <1>6, RouteStep, TimeoutStep
<1>7. ASSUME NEW q \in asked, Answer(q)
      PROVE  IInv'
  BY <1>7, AnswerStep
<1>8. ASSUME NEW p \in Peers, NEW id \in Ids, StrayAnswer(p, id)
      PROVE  IInv'
  BY <1>8, StrayAnswerStep
<1>9. CASE UNCHANGED vars
  <2>1. UNCHANGED <<peers, table, pending, timers, asked, history>>
    BY <1>9 DEF vars
  <2>2. TableInv'
    BY <2>1, TableKept DEF table
  <2> QED
    BY <2>1, <2>2, TableStep
<1> QED
  BY <1>1, <1>2, <1>3, <1>4, <1>5, <1>6, <1>7, <1>8, <1>9 DEF Next

LEMMA Invariance == Spec => []IInv
<1>1. Init => IInv
  BY InitInv
<1>2. IInv /\ [Next]_vars => IInv'
  BY NextInv
<1> QED
  BY <1>1, <1>2, PTL DEF Spec

\* The table of open calls, their timers, the advertisements and the channels keep
\* their shape: no entry of the table is without its timer, and the order of the
\* advertisements is total.
THEOREM TypeCorrect == Spec => []TypeOK
<1>1. IInv => TypeOK
  BY DEF IInv
<1> QED
  BY <1>1, Invariance, PTL

\* One reply ends a call, or the two errors that cleanup sends to a caller on a
\* data channel: no timer, late answer or closing replies to it after that.
THEOREM OneReplyEndsACall == Spec => []RepliedOnce
<1>1. IInv => RepliedOnce
  BY DEF IInv, CallInv, OnceInv, RepliedOnce
<1> QED
  BY <1>1, Invariance, PTL

\* A session that answers only what it was asked ends the call it was asked, or one
\* that took the same id; whoever answers, the caller reads the node that was asked.
THEOREM AnswersMatchCalls == Spec => []AnswersOwnCall
<1>1. IInv => AnswersOwnCall
  BY DEF IInv, CallInv, AnswerInv, AnswersOwnCall
<1> QED
  BY <1>1, Invariance, PTL

\* When a provider's only offer is gone with its websocket, no entry of the table
\* waits for it.
THEOREM ClosingEndsCalls == Spec => []NoneWaitsOnGone
<1>1. IInv => NoneWaitsOnGone
  BY DEF IInv
<1> QED
  BY <1>1, Invariance, PTL

----------------------------------------------------------------------------
(* No call is forgotten. *)

\* A call has been replied to, or its caller had no channel then.
Ended(c) == got[c] # <<>> \/ c \in dropped

\* Until then its timer runs.
KeptInv(c) == c \in made => c \in timers \/ Ended(c)

\* The entry that an answer will look for is its own, unless another call took its id.
OwnInv(c) ==
    c \in timers => pending[idOf[c]] = c \/ \E d \in made \ {c} : idOf[d] = idOf[c]

LEMMA MoreReplies ==
    ASSUME NEW old \in Seq(Reply), NEW more \in Seq(Reply), old # <<>> \/ more # <<>>
    PROVE  old \o more # <<>>
<1>1. Len(old \o more) = Len(old) + Len(more) /\ Len(old) \in Nat /\ Len(more) \in Nat
  BY ConcatProperties, LenProperties
<1>2. Len(old) # 0 \/ Len(more) # 0
  BY EmptySeq
<1>3. Len(old \o more) # 0
  BY <1>1, <1>2
<1> QED
  BY <1>3, EmptySeq

\* A step that ends some calls, and takes no entry out but under the id of one of them.
LEMMA EndingStep ==
    ASSUME IInv, \A c \in Calls : KeptInv(c) /\ OwnInv(c),
           NEW ended \in SUBSET made,
           idOf' = idOf, timers' = timers \ ended,
           \A id \in Ids : \/ pending'[id] = pending[id]
                           \/ \E e \in ended : idOf[e] = id,
           \A c \in ended : Ended(c)',
           \A c \in Calls : Ended(c) => Ended(c)'
    PROVE  \A c \in Calls : KeptInv(c)' /\ OwnInv(c)'
<1>1. made' = made /\ timers \subseteq made
  BY OpenCallFacts DEF made
<1>2. ASSUME NEW c \in Calls PROVE KeptInv(c)'
  BY <1>1 DEF KeptInv
<1>3. ASSUME NEW c \in Calls PROVE OwnInv(c)'
  <2> SUFFICES ASSUME c \in timers'
               PROVE  pending'[idOf'[c]] = c \/ \E d \in made' \ {c} : idOf'[d] = idOf'[c]
    BY DEF OwnInv
  <2>1. c \in timers /\ c \notin ended /\ idOf[c] \in Ids
    BY OpenCallFacts
  <2>2. CASE \E d \in made \ {c} : idOf[d] = idOf[c]
    BY <1>1, <2>2
  <2>3. CASE pending[idOf[c]] = c
    <3>1. CASE pending'[idOf[c]] = pending[idOf[c]]
      BY <2>3, <3>1
    <3>2. CASE \E e \in ended : idOf[e] = idOf[c]
      BY <1>1, <2>1, <3>2
    <3> QED
      BY <2>1, <3>1, <3>2
  <2> QED
    BY <2>1, <2>2, <2>3 DEF OwnInv
<1> QED
  BY <1>2, <1>3

\* A step that ends one call.
LEMMA OneEnds ==
    ASSUME IInv, \A d \in Calls : KeptInv(d) /\ OwnInv(d),
           NEW c \in made,
           idOf' = idOf, timers' = timers \ {c},
           \A id \in Ids : pending'[id] = pending[id] \/ idOf[c] = id,
           Ended(c)',
           \A d \in Calls : Ended(d) => Ended(d)'
    PROVE  \A d \in Calls : KeptInv(d)' /\ OwnInv(d)'
<1>1. PICK ended \in SUBSET made : ended = {c}
  OBVIOUS
<1>2. \A id \in Ids : pending'[id] = pending[id] \/ \E e \in ended : idOf[e] = id
  BY <1>1
<1>3. \A d \in ended : Ended(d)'
  BY <1>1
<1>4. timers' = timers \ ended
  BY <1>1
<1> QED
  BY <1>2, <1>3, <1>4, EndingStep

\* A step that is about no call.
LEMMA NoneEnds ==
    ASSUME IInv, \A c \in Calls : KeptInv(c) /\ OwnInv(c),
           UNCHANGED <<pending, timers, idOf, got, dropped>>
    PROVE  \A c \in Calls : KeptInv(c)' /\ OwnInv(c)'
BY DEF KeptInv, OwnInv, Ended, made

\* A reply to one call, as Deliver sends it.
LEMMA DeliveredOne ==
    ASSUME IInv, NEW c \in Calls, NEW r \in Reply,
           got'[c] = got[c] \o <<r>> \/ (got'[c] = got[c] /\ c \in dropped'),
           \A d \in Calls \ {c} : got'[d] = got[d],
           dropped \subseteq dropped'
    PROVE  Ended(c)' /\ \A d \in Calls : Ended(d) => Ended(d)'
<1>1. got[c] \o <<r>> # <<>>
  <2>1. <<r>> \in Seq(Reply) /\ <<r>> # <<>> /\ got[c] \in Seq(Reply)
    BY DEF IInv, TypeOK
  <2> QED
    BY <2>1, MoreReplies
<1> QED
  BY <1>1 DEF Ended

\* A new call is ended at once, or its timer runs and its id leads to it.
LEMMA NewCallKept ==
    ASSUME IInv, \A d \in Calls : KeptInv(d) /\ OwnInv(d),
           NEW c \in Calls, NEW id \in IdsOf[c], NEW kind \in Kinds,
           RpcReq(c, id, kind) \/ RpcRoute(c, id, kind)
    PROVE  \A d \in Calls : KeptInv(d)' /\ OwnInv(d)'
<1>1. /\ c \notin made /\ idOf' = [idOf EXCEPT ![c] = id]
      /\ Refuse(c, kind) \/ FindNoProvider(c, kind) \/ Forward(c, id, kind)
  BY DEF RpcReq, RpcRoute, RouteRpcRequest
<1>2. /\ id \in Ids /\ id # NoId /\ idOf \in [Calls -> Ids \cup {NoId}]
      /\ timers \subseteq made /\ made \subseteq Calls
  <2>1. id \in Ids /\ id # NoId
    BY RouterAssumption
  <2>2. idOf \in [Calls -> Ids \cup {NoId}]
    BY DEF IInv, TypeOK
  <2> QED
    BY <2>1, <2>2, OpenCallFacts
<1>3. /\ made' = made \cup {c} /\ idOf'[c] = id
      /\ \A d \in Calls \ {c} : idOf'[d] = idOf[d]
  BY <1>1, <1>2 DEF made
<1>4. CASE Refuse(c, kind) \/ FindNoProvider(c, kind)
  <2>1. PICK code \in {"forbidden", "no_provider"} :
            Deliver({c}, LAMBDA d : <<Error(code, d)>>, dc)
    BY <1>4 DEF Refuse, FindNoProvider
  <2> DEFINE r == Error(code, c)
  <2>2. r \in Reply
    BY DEF Error, Reply, Codes
  <2>3. /\ got'[c] = got[c] \o <<r>> \/ (got'[c] = got[c] /\ c \in dropped')
        /\ \A d \in Calls \ {c} : got'[d] = got[d]
        /\ dropped \subseteq dropped'
    BY <2>1 DEF Deliver
  <2> HIDE DEF r
  <2>4. Ended(c)' /\ \A d \in Calls : Ended(d) => Ended(d)'
    BY <2>2, <2>3, DeliveredOne
  <2>5. UNCHANGED <<pending, timers>>
    BY <1>4 DEF Refuse, FindNoProvider
  <2> QED
    BY <1>1, <1>2, <1>3, <2>4, <2>5 DEF KeptInv, OwnInv
<1>5. CASE Forward(c, id, kind)
  <2>1. /\ pending' = [pending EXCEPT ![id] = c]
        /\ timers' = timers \cup {c}
        /\ UNCHANGED <<got, dropped>>
    BY <1>5 DEF Forward
  <2>2. /\ pending'[id] = c
        /\ \A other \in Ids \ {id} : pending'[other] = pending[other]
    BY <1>2, <2>1 DEF IInv, TypeOK
  <2>3. ASSUME NEW d \in Calls PROVE KeptInv(d)'
    BY <1>3, <2>1 DEF KeptInv, Ended
  <2>4. ASSUME NEW d \in Calls, d \in timers'
        PROVE  pending'[idOf'[d]] = d \/ \E e \in made' \ {d} : idOf'[e] = idOf'[d]
    <3>1. CASE d = c
      BY <1>3, <2>2, <3>1
    <3>2. CASE d # c
      <4>1. d \in timers /\ d \in made /\ idOf'[d] = idOf[d] /\ idOf[d] \in Ids
        BY <1>3, <2>1, <2>4, <3>2, OpenCallFacts
      <4>2. CASE idOf[d] = id
        BY <1>3, <3>2, <4>1, <4>2
      <4>3. CASE idOf[d] # id
        <5>1. pending[idOf[d]] = d \/ \E e \in made \ {d} : idOf[e] = idOf[d]
          BY <4>1 DEF OwnInv
        <5>2. \A e \in made : idOf'[e] = idOf[e] /\ e \in made'
          BY <1>1, <1>2, <1>3
        <5> QED
          BY <2>2, <4>1, <4>3, <5>1, <5>2
      <4> QED
        BY <4>2, <4>3
    <3> QED
      BY <3>1, <3>2
  <2> QED
    BY <2>3, <2>4 DEF OwnInv
<1> QED
  BY <1>1, <1>4, <1>5

\* A timer that runs out ends its call, and may take another's entry.
LEMMA TimeoutKept ==
    ASSUME IInv, \A d \in Calls : KeptInv(d) /\ OwnInv(d),
           NEW c \in Calls, Timeout(c)
    PROVE  \A d \in Calls : KeptInv(d)' /\ OwnInv(d)'
<1> DEFINE r == Error("timeout", c)
<1>1. c \in made /\ idOf[c] \in Ids
  BY OpenCallFacts DEF Timeout
<1>2. r \in Reply
  BY DEF Error, Reply, Codes
<1>3. /\ got'[c] = got[c] \o <<r>> \/ (got'[c] = got[c] /\ c \in dropped')
      /\ \A d \in Calls \ {c} : got'[d] = got[d]
      /\ dropped \subseteq dropped'
  BY DEF Timeout, Deliver
<1> HIDE DEF r
<1>4. Ended(c)' /\ \A d \in Calls : Ended(d) => Ended(d)'
  BY <1>2, <1>3, DeliveredOne
<1>5. /\ idOf' = idOf /\ timers' = timers \ {c}
      /\ pending' = [pending EXCEPT ![idOf[c]] = NoCall]
  BY DEF Timeout
<1>6. \A id \in Ids : pending'[id] = pending[id] \/ idOf[c] = id
  <2>1. pending \in [Ids -> Calls \cup {NoCall}]
    BY DEF IInv, TypeOK
  <2> QED
    BY <1>5, <2>1
<1> QED
  BY <1>1, <1>4, <1>5, <1>6, OneEnds

\* An answer ends the call whose entry it finds.
LEMMA SettleKept ==
    ASSUME IInv, \A d \in Calls : KeptInv(d) /\ OwnInv(d),
           NEW id \in Ids, NEW of \in Calls \cup {NoCall}, NEW by \in Peers,
           SettleRpcResponse(id, of, by), idOf' = idOf
    PROVE  \A d \in Calls : KeptInv(d)' /\ OwnInv(d)'
<1>1. CASE Settles(id) = NoCall
  <2>1. UNCHANGED <<pending, timers, got, dropped>>
    BY <1>1 DEF SettleRpcResponse
  <2> QED
    BY <2>1, NoneEnds
<1>2. CASE Settles(id) # NoCall
  <2>1. /\ Settles(id) \in timers /\ Settles(id) \in made /\ Settles(id) \in Calls
        /\ route[Settles(id)] \in Route /\ idOf[Settles(id)] = id
    BY <1>2, OpenCallFacts DEF Settles
  <2>2. PICK c \in Calls : c = Settles(id)
    BY <2>1
  <2>3. PICK r : r = [code |-> "answer", of |-> of, by |-> by, node |-> route[c].node]
    OBVIOUS
  <2>4. /\ pending' = [pending EXCEPT ![id] = NoCall]
        /\ timers' = timers \ {c}
        /\ Deliver({c}, LAMBDA d : <<[code |-> "answer", of |-> of, by |-> by,
                                      node |-> route[d].node]>>, dc)
    BY <1>2, <2>2 DEF SettleRpcResponse
  <2>5. r \in Reply
    BY <2>1, <2>2, <2>3 DEF Reply, Codes, Route
  <2>6. /\ got'[c] = got[c] \o <<r>> \/ (got'[c] = got[c] /\ c \in dropped')
        /\ \A d \in Calls \ {c} : got'[d] = got[d]
        /\ dropped \subseteq dropped'
    BY <2>3, <2>4 DEF Deliver
  <2>7. Ended(c)' /\ \A d \in Calls : Ended(d) => Ended(d)'
    BY <2>5, <2>6, DeliveredOne
  <2>8. \A other \in Ids : pending'[other] = pending[other] \/ idOf[c] = other
    <3>1. pending \in [Ids -> Calls \cup {NoCall}]
      BY DEF IInv, TypeOK
    <3> QED
      BY <2>1, <2>2, <2>4, <3>1
  <2> QED
    BY <2>1, <2>2, <2>4, <2>7, <2>8, OneEnds
<1> QED
  BY <1>1, <1>2

LEMMA AnswerKept ==
    ASSUME IInv, \A d \in Calls : KeptInv(d) /\ OwnInv(d),
           NEW q \in asked, Answer(q)
    PROVE  \A d \in Calls : KeptInv(d)' /\ OwnInv(d)'
<1>1. q.call \in Calls /\ idOf[q.call] \in Ids /\ q.sess \in Peers
  BY DEF IInv, ShapeInv, TypeOK, made
<1>2. SettleRpcResponse(idOf[q.call], q.call, q.sess) /\ idOf' = idOf
  BY DEF Answer
<1> QED
  BY <1>1, <1>2, SettleKept

\* A closed session ends the calls it made or served.
LEMMA CleanupKept ==
    ASSUME IInv, \A d \in Calls : KeptInv(d) /\ OwnInv(d),
           NEW p \in Peers, Cleanup(p)
    PROVE  \A d \in Calls : KeptInv(d)' /\ OwnInv(d)'
<1> DEFINE closed == EndsWith(p)
<1>1. /\ idOf' = idOf /\ timers' = timers \ closed
      /\ pending' = [id \in Ids |-> IF pending[id] \in closed THEN NoCall ELSE pending[id]]
      /\ Deliver(closed, Closure, dc')
  BY DEF Cleanup
<1>2. /\ closed \subseteq made /\ made \subseteq Calls
      /\ \A id \in Ids : pending[id] \in closed => idOf[pending[id]] = id
  BY OpenCallFacts, RouterAssumption DEF EndsWith, OpenCalls
<1> HIDE DEF closed
<1>3. /\ \A d \in closed :
            got'[d] = got[d] \o Closure(d) \/ (got'[d] = got[d] /\ d \in dropped')
      /\ \A d \in Calls \ closed : got'[d] = got[d]
      /\ dropped \subseteq dropped'
  <2> DEFINE Reached(d) == CallerOf[d] = Http \/ dc'[CallerOf[d]] # 0
             more == [d \in Calls |-> got[d] \o Closure(d)]
  <2>1. /\ got' = [d \in Calls |-> IF d \in closed /\ Reached(d)
                                   THEN got[d] \o Closure(d) ELSE got[d]]
        /\ dropped' = dropped \cup {d \in closed : ~Reached(d)}
    BY <1>1 DEF Deliver
  <2>2. /\ got' = [d \in Calls |-> IF d \in closed /\ Reached(d) THEN more[d] ELSE got[d]]
        /\ \A d \in Calls : more[d] = got[d] \o Closure(d)
    BY <2>1
  <2> HIDE DEF Reached, more
  <2>3. \A d \in closed : d \in Calls
    BY <1>2
  <2>4. ASSUME NEW d \in closed
        PROVE  got'[d] = more[d] \/ (got'[d] = got[d] /\ d \in dropped')
    BY <2>1, <2>2, <2>3
  <2> QED
    BY <2>1, <2>2, <2>3, <2>4
<1>4. ASSUME NEW d \in Calls PROVE got[d] \o Closure(d) # <<>>
  <2>1. got[d] \in Seq(Reply) /\ Closure(d) \in Seq(Reply)
    BY ClosureFacts DEF IInv, TypeOK
  <2>2. Closure(d) # <<>>
    BY DEF Closure
  <2> QED
    BY <2>1, <2>2, MoreReplies
<1>5. \A d \in closed : Ended(d)'
  BY <1>2, <1>3, <1>4 DEF Ended
<1>6. \A d \in Calls : Ended(d) => Ended(d)'
  BY <1>3, <1>4 DEF Ended
<1>7. \A id \in Ids : pending'[id] = pending[id] \/ \E e \in closed : idOf[e] = id
  BY <1>1, <1>2
<1> QED
  BY <1>1, <1>2, <1>5, <1>6, <1>7, EndingStep

LEMMA KeptStep ==
    ASSUME IInv, \A d \in Calls : KeptInv(d) /\ OwnInv(d), [Next]_vars
    PROVE  \A d \in Calls : KeptInv(d)' /\ OwnInv(d)'
<1>1. ASSUME NEW p \in Peers,
             \/ Connect(p) \/ GoesStale(p)
             \/ \E k \in 1 .. MaxOffers[p] :
                   Offer(p, k) \/ ChannelOpens(p, k) \/ ChannelCloses(p, k)
             \/ \E node \in NodesOf[p], kinds \in SUBSET Kinds : Advertise(p, node, kinds)
      PROVE  \A d \in Calls : KeptInv(d)' /\ OwnInv(d)'
  BY <1>1, NoneEnds DEF Connect, GoesStale, Offer, ChannelOpens, ChannelCloses,
                        Advertise, history
<1>2. CASE ListProviders \/ UNCHANGED vars
  BY <1>2, NoneEnds DEF ListProviders, vars, history
<1>3. ASSUME NEW p \in Peers, Cleanup(p)
      PROVE  \A d \in Calls : KeptInv(d)' /\ OwnInv(d)'
  BY <1>3, CleanupKept
<1>4. ASSUME NEW c \in Calls,
             \/ \E id \in IdsOf[c], kind \in Kinds :
                   RpcReq(c, id, kind) \/ RpcRoute(c, id, kind)
             \/ Timeout(c)
      PROVE  \A d \in Calls : KeptInv(d)' /\ OwnInv(d)'
  BY <1>4, NewCallKept, TimeoutKept
<1>5. ASSUME NEW q \in asked, Answer(q)
      PROVE  \A d \in Calls : KeptInv(d)' /\ OwnInv(d)'
  BY <1>5, AnswerKept
<1>6. ASSUME NEW p \in Peers, NEW id \in Ids, StrayAnswer(p, id)
      PROVE  \A d \in Calls : KeptInv(d)' /\ OwnInv(d)'
  <2>1. SettleRpcResponse(id, NoCall, p) /\ idOf' = idOf
    BY <1>6 DEF StrayAnswer
  <2> QED
    BY <2>1, SettleKept
<1> QED
  BY <1>1, <1>2, <1>3, <1>4, <1>5, <1>6 DEF Next

LEMMA CallsKept == Spec => [](\A c \in Calls : KeptInv(c) /\ OwnInv(c))
<1> DEFINE Kept == \A c \in Calls : KeptInv(c) /\ OwnInv(c)
<1>1. Init => Kept
  BY DEF Init, KeptInv, OwnInv, made
<1>2. IInv /\ Kept /\ [Next]_vars => Kept'
  BY KeptStep
<1> HIDE DEF Kept
<1>3. Spec => []Kept
  BY <1>1, <1>2, Invariance, PTL DEF Spec
<1> QED
  BY <1>3 DEF Kept

\* No call is forgotten: until it is replied to, or its caller missed the reply, its
\* timer runs.  With timers that run out, EveryCallReplied rests on this.
THEOREM NoCallForgotten ==
    Spec => [](\A c \in made : c \in timers \/ got[c] # <<>> \/ c \in dropped)
<1>1. IInv /\ (\A c \in Calls : KeptInv(c) /\ OwnInv(c))
         => \A c \in made : c \in timers \/ got[c] # <<>> \/ c \in dropped
  BY OpenCallFacts DEF KeptInv, Ended
<1> QED
  BY <1>1, CallsKept, Invariance, PTL

\* A call whose id no other call has keeps its entry as long as it is open, and of
\* the sessions that answer only what they were asked none ends it but the one it
\* went to: the table mixes up calls that share an id, and only them.
THEOREM UnsharedIdFindsItsCall ==
    Spec => [](\A c \in Calls :
                   (\A d \in made \ {c} : idOf[d] # idOf[c]) =>
                       /\ c \in timers => pending[idOf[c]] = c
                       /\ \A i \in DOMAIN got[c] :
                             got[c][i].code = "answer" /\ got[c][i].by \notin Stray =>
                                 got[c][i].of = c /\ got[c][i].by = route[c].sess)
<1>1. ASSUME IInv, \A c \in Calls : KeptInv(c) /\ OwnInv(c), NEW c \in Calls,
             \A d \in made \ {c} : idOf[d] # idOf[c]
      PROVE  /\ c \in timers => pending[idOf[c]] = c
             /\ \A i \in DOMAIN got[c] :
                   got[c][i].code = "answer" /\ got[c][i].by \notin Stray =>
                       got[c][i].of = c /\ got[c][i].by = route[c].sess
  BY <1>1 DEF OwnInv, IInv, CallInv, AnswerInv
<1>2. IInv /\ (\A c \in Calls : KeptInv(c) /\ OwnInv(c))
         => \A c \in Calls :
               (\A d \in made \ {c} : idOf[d] # idOf[c]) =>
                   /\ c \in timers => pending[idOf[c]] = c
                   /\ \A i \in DOMAIN got[c] :
                         got[c][i].code = "answer" /\ got[c][i].by \notin Stray =>
                             got[c][i].of = c /\ got[c][i].by = route[c].sess
  BY <1>1
<1> QED
  BY <1>2, CallsKept, Invariance, PTL

================================================================================
