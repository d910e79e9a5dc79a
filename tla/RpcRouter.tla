------------------------------ MODULE RpcRouter ------------------------------
(***************************************************************************)
(* Routed RPC in the collator (index.ts): providers advertise over their   *)
(* data channel, a call from a session or from the HTTP gateway goes to    *)
(* the first provider that fits, and the answer, a timer or a closed       *)
(* session ends it.  The table of open calls is keyed by the id the caller *)
(* chose, so calls may share one.  An answer is taken by its id alone,     *)
(* whichever session sends it: the full-node script answers what it was    *)
(* asked, and nothing in the collator holds another session to that.       *)
(*                                                                         *)
(* One action per callback: Node runs each to its end, and the reactions   *)
(* to a promise it rejects right behind it.  Service, network and method   *)
(* of a call are one value, its kind.  There is no clock: a timer may run  *)
(* out and an advertisement may become stale at any time, since neither    *)
(* period is longer than the other by configuration.                       *)
(*                                                                         *)
(* A websocket may carry several offers.  Each makes a peer connection     *)
(* with a channel of its own, and all of them share the session object.    *)
(***************************************************************************)
EXTENDS Naturals, Sequences, SequencesExt

CONSTANTS
    Peers,       \* sessions, one per websocket
    Http,        \* the caller of a call that came through the gateway
    Calls,
    CallerOf,    \* who makes a call
    Prefers,     \* the provider node it names, or NoNode
    Ids,
    IdsOf,       \* the ids a caller may give its call
    Kinds,
    PublicKinds, \* PUBLIC_RPC_METHODS of the one public service
    Nodes,
    NodesOf,     \* the nodes a session advertises
    Stray,       \* sessions that may answer under ids they were not asked
    NoPeer,
    NoId,
    NoNode,
    NoCall,
    MaxOffers    \* bound on the offers a websocket carries

ASSUME RouterAssumption ==
    /\ Http \notin Peers
    /\ NoNode \notin Nodes
    /\ NoCall \notin Calls
    /\ NoId \notin Ids
    /\ Stray \subseteq Peers
    /\ NoPeer \notin Peers
    /\ IdsOf \in [Calls -> SUBSET Ids]
    /\ CallerOf \in [Calls -> Peers \cup {Http}]
    /\ Prefers \in [Calls -> Nodes \cup {NoNode}]
    /\ PublicKinds \subseteq Kinds
    /\ NodesOf \in [Peers -> SUBSET Nodes]
    /\ MaxOffers \in [Peers -> Nat \ {0}]

VARIABLES
    ws,       \* the websocket of a session
    chan,     \* the data channel behind each of its offers
    dc,       \* sess.dc: the number of a channel, 0 for null
    adverts,  \* rpcAdvertisements, a Map: per session that has one ...
    before,   \* ... and which session's was inserted before which
    pending,  \* pendingRpc: by id, the call whose entry is in the table
    timers,   \* calls whose timeout is running
    asked,    \* RPC_REQs at a provider, with the channel they came by
    idOf,     \* the id a caller gave its call; NoId before the call
    route, got, dropped   \* history, per call

peers == <<ws, chan, dc>>
history == <<idOf, route, got, dropped>>
table == <<adverts, before>>
vars == <<peers, table, pending, timers, asked, history>>

made == {c \in Calls : idOf[c] # NoId}
Codes == {"answer", "forbidden", "no_provider", "timeout", "peer_closed", "error"}
Route == [sess : Peers, node : Nodes]
\* A reply to a call: for an answer, who gave it and to which call it was asked.
Reply == [code : Codes, of : Calls \cup {NoCall}, by : Peers \cup {NoPeer},
          node : Nodes \cup {NoNode}]
NoRoute == [node |-> NoNode]

Advert == [node : Nodes, kinds : SUBSET PublicKinds, fresh : BOOLEAN]

\* Every two advertisements have an order, and there is no call with an entry but
\* no timer.
TypeOK ==
    /\ ws \in [Peers -> {"new", "open", "gone"}]
    /\ \A p \in Peers :
          /\ chan[p] \in [1 .. MaxOffers[p] -> {"none", "offered", "up", "down"}]
          /\ dc[p] \in 0 .. MaxOffers[p]
          /\ dc[p] # 0 => chan[p][dc[p]] = "up"
    /\ DOMAIN adverts \subseteq Peers
    /\ \A p \in DOMAIN adverts : adverts[p] \in Advert
    /\ before \subseteq (DOMAIN adverts) \X (DOMAIN adverts)
    /\ \A p, q \in DOMAIN adverts :
          /\ p # q => (<<p, q>> \in before <=> <<q, p>> \notin before)
          /\ \A r \in DOMAIN adverts :
                <<p, q>> \in before /\ <<q, r>> \in before => <<p, r>> \in before
    /\ pending \in [Ids -> Calls \cup {NoCall}]
    /\ timers \subseteq Calls
    /\ \A id \in Ids : pending[id] # NoCall => pending[id] \in timers
    /\ \A q \in asked : route[q.call].sess = q.sess /\ chan[q.sess][q.via] = "up"
    /\ idOf \in [Calls -> Ids \cup {NoId}]
    /\ dropped \subseteq made
    /\ route \in [Calls -> Route \cup {NoRoute}]
    /\ got \in [Calls -> Seq(Reply)]

Init ==
    /\ ws = [p \in Peers |-> "new"]
    /\ chan = [p \in Peers |-> [k \in 1 .. MaxOffers[p] |-> "none"]]
    /\ dc = [p \in Peers |-> 0]
    /\ adverts = <<>> /\ before = {}
    /\ pending = [id \in Ids |-> NoCall]
    /\ timers = {}
    /\ asked = {}
    /\ idOf = [c \in Calls |-> NoId]
    /\ route = [c \in Calls |-> NoRoute]
    /\ got = [c \in Calls |-> <<>>]
    /\ dropped = {}

----------------------------------------------------------------------------
(* Sessions and their channels. *)

Offers(p) == {k \in 1 .. MaxOffers[p] : chan[p][k] # "none"}

Connect(p) ==
    /\ ws[p] = "new"
    /\ ws' = [ws EXCEPT ![p] = "open"]
    /\ UNCHANGED <<chan, dc, table, pending, timers, asked, history>>

\* A new peer connection replaces the one before it, which stays alive.
Offer(p, k) ==
    /\ ws[p] = "open"
    /\ Offers(p) = 1 .. k - 1
    /\ chan' = [chan EXCEPT ![p][k] = "offered"]
    /\ UNCHANGED <<ws, dc, table, pending, timers, asked, history>>

\* ondatachannel, of whichever peer connection gets through.
ChannelOpens(p, k) ==
    /\ chan[p][k] = "offered"
    /\ chan' = [chan EXCEPT ![p][k] = "up"]
    /\ dc' = [dc EXCEPT ![p] = k]
    /\ UNCHANGED <<ws, table, pending, timers, asked, history>>

\* dc.onclose forgets the session's channel, whether it is this one or not.
ChannelCloses(p, k) ==
    /\ chan[p][k] = "up"
    /\ chan' = [chan EXCEPT ![p][k] = "down"]
    /\ dc' = [dc EXCEPT ![p] = 0]
    /\ asked' = {q \in asked : q.sess # p \/ q.via # k}
    /\ UNCHANGED <<ws, table, pending, timers, history>>

Hears(p) == \E k \in 1 .. MaxOffers[p] : chan[p][k] = "up"

----------------------------------------------------------------------------
(* Advertisements. *)

Keep(sessions) ==
    /\ adverts' = Restrict(adverts, sessions)
    /\ before' = before \cap (sessions \X sessions)

Drop(sessions) == Keep(DOMAIN adverts \ sessions)

\* RPC_ADVERTISE: only public methods count, and without one the session is no
\* provider any more.  A Map keeps the place of a key it has.
Advertise(p, node, kinds) ==
    LET accepted == kinds \cap PublicKinds
        advert == [node |-> node, kinds |-> accepted, fresh |-> TRUE]
    IN  /\ Hears(p)
        /\ IF accepted = {} THEN Drop({p})
           ELSE /\ adverts' = [q \in DOMAIN adverts \cup {p} |->
                                  IF q = p THEN advert ELSE adverts[q]]
                /\ before' = IF p \in DOMAIN adverts THEN before
                             ELSE before \cup ((DOMAIN adverts) \X {p})
        /\ UNCHANGED <<peers, pending, timers, asked, history>>

\* More than TL_COLLATOR_RPC_ADVERT_TTL_MS pass without a heartbeat.
GoesStale(p) ==
    /\ p \in DOMAIN adverts
    /\ adverts[p].fresh
    /\ adverts' = [adverts EXCEPT ![p].fresh = FALSE]
    /\ UNCHANGED <<peers, before, pending, timers, asked, history>>

\* What pruneRpcAdvertisements keeps: an open channel and a recent heartbeat.
Pruned == {p \in DOMAIN adverts : dc[p] # 0 /\ adverts[p].fresh}

\* GET /rpc/providers.
ListProviders ==
    /\ Keep(Pruned)
    /\ UNCHANGED <<peers, pending, timers, asked, history>>

----------------------------------------------------------------------------
(* Routing a call. *)

\* sendDc to the callers of cs, or the promise the gateway awaits: a session
\* without a channel misses its replies.
Deliver(cs, replies(_), channel) ==
    LET Reached(c) == CallerOf[c] = Http \/ channel[CallerOf[c]] # 0
    IN  /\ got' = [c \in Calls |-> IF c \in cs /\ Reached(c)
                                   THEN got[c] \o replies(c) ELSE got[c]]
        /\ dropped' = dropped \cup {c \in cs : ~Reached(c)}

Error(code, c) == [code |-> code, of |-> c, by |-> NoPeer, node |-> NoNode]

\* normalizeRpcRequest copies every field of a request but this one.
PreferredProviderNodeId(c) == NoNode

\* findRpcProvider's filter, after the pruning.
Fits(p, c, kind) ==
    /\ p # CallerOf[c]
    /\ PreferredProviderNodeId(c) \in {NoNode, adverts[p].node}
    /\ kind \in adverts[p].kinds

Providers(c, kind) == {p \in Pruned : Fits(p, c, kind)}

\* routeRpcRequest: refused, without a provider, or on its way to one.
Refuse(c, kind) ==
    /\ kind \notin PublicKinds
    /\ Deliver({c}, LAMBDA d : <<Error("forbidden", d)>>, dc)
    /\ UNCHANGED <<table, pending, timers, asked, route>>

FindNoProvider(c, kind) ==
    /\ kind \in PublicKinds
    /\ Providers(c, kind) = {}
    /\ Keep(Pruned)
    /\ Deliver({c}, LAMBDA d : <<Error("no_provider", d)>>, dc)
    /\ UNCHANGED <<pending, timers, asked, route>>

\* To the first provider that fits.  The entry goes under the id of the call, over
\* one that may be there.
Forward(c, id, kind) ==
    \E p \in Providers(c, kind) :
        /\ kind \in PublicKinds
        /\ \A q \in Providers(c, kind) \ {p} : <<p, q>> \in before
        /\ Keep(Pruned)
        /\ pending' = [pending EXCEPT ![id] = c]
        /\ timers' = timers \cup {c}
        /\ asked' = asked \cup {[call |-> c, sess |-> p, via |-> dc[p]]}
        /\ route' = [route EXCEPT ![c] = [sess |-> p, node |-> adverts[p].node]]
        /\ UNCHANGED <<got, dropped>>

RouteRpcRequest(c, id, kind) ==
    /\ c \notin made
    /\ idOf' = [idOf EXCEPT ![c] = id]
    /\ Refuse(c, kind) \/ FindNoProvider(c, kind) \/ Forward(c, id, kind)
    /\ UNCHANGED peers

\* RPC_REQ, over any channel of the session that is up.
RpcReq(c, id, kind) ==
    /\ CallerOf[c] \in Peers
    /\ Hears(CallerOf[c])
    /\ RouteRpcRequest(c, id, kind)

\* POST /rpc/route, and the relayer routes that make a request of their own.
RpcRoute(c, id, kind) ==
    /\ CallerOf[c] = Http
    /\ RouteRpcRequest(c, id, kind)

----------------------------------------------------------------------------
(* The end of a call. *)

OpenCalls == {pending[id] : id \in Ids} \ {NoCall}

SettlesAny(id) == IF OpenCalls = {} THEN NoCall ELSE CHOOSE c \in OpenCalls : TRUE

\* The entry an answer finds in the table.
Settles(id) == pending[id]

\* Whoever sent it, the answer ends the call it finds, under the name of the node
\* that call went to.
SettleRpcResponse(id, of, by) ==
    LET c == Settles(id)
    IN  IF c = NoCall
        THEN UNCHANGED <<pending, timers, got, dropped>>
        ELSE /\ pending' = [pending EXCEPT ![id] = NoCall]
             /\ timers' = timers \ {c}
             /\ Deliver({c}, LAMBDA d : <<[code |-> "answer", of |-> of, by |-> by,
                                           node |-> route[d].node]>>, dc)

\* RPC_RES to a request the session was sent: a result, or an error of its
\* upstream, once (scripts/fullnode-rpc-peer.cjs).
Answer(q) ==
    /\ q \in asked
    /\ asked' = asked \ {q}
    /\ SettleRpcResponse(idOf[q.call], q.call, q.sess)
    /\ UNCHANGED <<peers, table, idOf, route>>

\* RPC_RES to anything else: the handler asks only that the id be in the table.
StrayAnswer(p, id) ==
    /\ p \in Stray
    /\ Hears(p)
    /\ SettleRpcResponse(id, NoCall, p)
    /\ UNCHANGED <<peers, table, asked, idOf, route>>

\* The provider of a call, if it still advertises the node the call went to.
Advertised(c) ==
    {p \in DOMAIN adverts : p = route[c].sess /\ adverts[p].node = route[c].node}

TimeoutOfOwnEntry(c) ==
    /\ c \in timers
    /\ timers' = timers \ {c}
    /\ IF pending[idOf[c]] = c
       THEN /\ pending' = [pending EXCEPT ![idOf[c]] = NoCall]
            /\ Deliver({c}, LAMBDA d : <<Error("timeout", d)>>, dc)
       ELSE UNCHANGED <<pending, got, dropped>>
    /\ Drop(Advertised(c))
    /\ UNCHANGED <<peers, asked, idOf, route>>

TimeoutKeepsEntry(c) ==
    /\ c \in timers
    /\ timers' = timers \ {c}
    /\ Drop(Advertised(c))
    /\ Deliver({c}, LAMBDA d : <<Error("timeout", d)>>, dc)
    /\ UNCHANGED <<peers, pending, asked, idOf, route>>

\* The timer takes out whatever entry has the id now, and the advertisement of
\* the provider that did not answer.
Timeout(c) ==
    /\ c \in timers
    /\ timers' = timers \ {c}
    /\ pending' = [pending EXCEPT ![idOf[c]] = NoCall]
    /\ Drop(Advertised(c))
    /\ Deliver({c}, LAMBDA d : <<Error("timeout", d)>>, dc)
    /\ UNCHANGED <<peers, asked, idOf, route>>

EndsOwnCalls(p) == {c \in OpenCalls : CallerOf[c] = p}

\* The calls a closing session leaves behind, as caller or as provider.
EndsWith(p) == {c \in OpenCalls : CallerOf[c] = p \/ route[c].sess = p}

\* What cleanup tells a caller: a session gets the closing itself and the
\* rejected promise, the gateway only the latter.
Closure(c) ==
    IF CallerOf[c] = Http THEN <<Error("error", c)>>
    ELSE <<Error("peer_closed", c), Error("error", c)>>

\* The websocket closes: cleanup.  It closes the newest peer connection and the
\* channel in use; an older one that is neither stays up.
Cleanup(p) ==
    LET shut == {dc[p]} \cup {k \in Offers(p) : k + 1 \notin Offers(p)}
        closed == EndsWith(p)
    IN  /\ ws[p] = "open"
        /\ ws' = [ws EXCEPT ![p] = "gone"]
        /\ chan' = [chan EXCEPT ![p] = [k \in DOMAIN @ |->
                                           IF k \in shut THEN "down" ELSE @[k]]]
        /\ dc' = [dc EXCEPT ![p] = 0]
        /\ Drop({p})
        /\ pending' = [id \in Ids |-> IF pending[id] \in closed THEN NoCall
                                      ELSE pending[id]]
        /\ timers' = timers \ closed
        /\ asked' = {q \in asked : q.sess # p \/ q.via \notin shut}
        /\ Deliver(closed, Closure, dc')
        /\ UNCHANGED <<idOf, route>>

----------------------------------------------------------------------------

Next ==
    \/ \E p \in Peers :
          \/ Connect(p) \/ GoesStale(p) \/ Cleanup(p)
          \/ \E id \in Ids : StrayAnswer(p, id)
          \/ \E k \in 1 .. MaxOffers[p] :
                Offer(p, k) \/ ChannelOpens(p, k) \/ ChannelCloses(p, k)
          \/ \E node \in NodesOf[p], kinds \in SUBSET Kinds : Advertise(p, node, kinds)
    \/ ListProviders
    \/ \E c \in Calls :
          \/ \E id \in IdsOf[c], kind \in Kinds :
                RpcReq(c, id, kind) \/ RpcRoute(c, id, kind)
          \/ Timeout(c)
    \/ \E q \in asked : Answer(q)

Spec == Init /\ [][Next]_vars

\* Node runs its timers.  Providers owe no answer, and peers nothing at all.
FairSpec == Spec /\ \A c \in Calls : WF_vars(Timeout(c))

----------------------------------------------------------------------------
(* Properties. *)

\* Every call is replied to, whatever its provider does and whoever else uses
\* its id, unless its caller had no channel when the reply was sent.
EveryCallReplied ==
    \A c \in Calls : c \in made ~> (got[c] # <<>> \/ c \in dropped)

\* One reply ends a call: no timer, late answer or closing comes after it.
\* Only when the provider's session closed does a caller on a data channel get
\* two, both of them errors.
RepliedOnce ==
    \A c \in Calls :
        \/ Len(got[c]) <= 1
        \/ /\ CallerOf[c] # Http
           /\ got[c] = Closure(c)
           /\ ws[route[c].sess] = "gone"

\* The answer a caller gets names the node its call went to.  A session that
\* answers only what it was asked ends no call but the one it was asked, or one that
\* took the same id: late answers, re-used ids and replaced channels do not mix up
\* calls.  Nothing holds another session to that, as Stray allows.
AnswersOwnCall ==
    \A c \in Calls : \A i \in DOMAIN got[c] :
        LET reply == got[c][i]
        IN  reply.code = "answer" =>
                /\ reply.node = route[c].node
                /\ \/ reply.by \in Stray
                   \/ reply.of = c /\ reply.by = route[c].sess
                   \/ reply.of \in made \ {c} /\ idOf[reply.of] = idOf[c]

\* No call in the table waits for a provider whose session is gone: its caller
\* learns of the closing at once and not from its timer.  Only a session whose
\* websocket carried more than one offer may serve on after it.
NoneWaitsOnGone ==
    \A c \in OpenCalls :
        ws[route[c].sess] = "gone" => Offers(route[c].sess) # {1}

\* A request that names its provider node is routed to that node or to none.
PreferenceHonoured ==
    \A c \in Calls :
        route[c] # NoRoute /\ Prefers[c] # NoNode => route[c].node = Prefers[c]

================================================================================
