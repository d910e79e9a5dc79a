---------------------------- MODULE Gateway_proofs ----------------------------
(***************************************************************************)
(* Proofs about Gateway: for every set of peers and the methods they       *)
(* offer, every set of requests, and every list of public methods without  *)
(* the two that spend.                                                     *)
(***************************************************************************)
EXTENDS Gateway, TLAPS

Handler == [name : DOMAIN Routes \cup {"none"}, method : Methods \cup {"none"},
            stage : Waiting \cup {"new", "replied"},
            reply : {"none", "ok", "denied", "error"},
            id : Ids \cup Requests \cup {NoId}]

CallState == [peer : Peers \cup {NoPeer}, at : {"none", "asked", "ok", "error", "replied"}]

(* The inductive invariant. *)

\* The request's methods: the one it names and the one its route stands for.
MethodsAsked(q) == {q.method, Routes[q.name].next}

\* How far a handler is says how often its request can have been executed.
StageInv(q, k, byRelayer) ==
    /\ q.stage # "new" => q.name \in DOMAIN Routes
    /\ q.stage # "replied" => q.reply = "none"
    /\ q.stage \in {"new", "body", "relayer"} => byRelayer = 0
    /\ q.stage \in {"new", "body", "relayer", "proxied", "lookup"} => k.at = "none"
    /\ q.stage = "relayer" => Routes[q.name].relayed
    /\ q.stage = "lookup" => q.name \in Own
    /\ q.stage = "proxied" /\ q.name \notin Lookups => byRelayer = 0

\* A peer executes a call once, before it has an answer; what both a peer and the
\* relayer are asked for changes nothing.
CallInv(q, k, byRelayer, byPeer) ==
    /\ byRelayer \in 0 .. 1 \/ q.name \in Lookups
    /\ byPeer \in 0 .. 1
    /\ k.at \in {"none", "asked"} => byPeer = 0
    /\ k.at = "ok" => byPeer = 1
    /\ k.at # "none" =>
          /\ k.peer \in Peers
          /\ MethodsAsked(q) \cap PublicMethods # {}
          /\ q.name \notin Lookups => byRelayer = 0

\* Only what a relayer executed whose answer was lost is denied.
DeniedInv(q, k, byRelayer) ==
    q.reply = "denied" =>
        /\ k.at = "none"
        /\ byRelayer > 0 => Routes[q.name].relayed /\ Routes[q.name].next # "pass"

RequestInv(q, k, byRelayer, byPeer) ==
    /\ StageInv(q, k, byRelayer)
    /\ CallInv(q, k, byRelayer, byPeer)
    /\ DeniedInv(q, k, byRelayer)

\* A call has an id from when it is sent on: its own, or one that came by /rpc/route.
IdInv(r, q, k) ==
    /\ q.id = NoId <=> k.at = "none"
    /\ q.id \in {NoId, r} \cup Ids
    /\ q.id \in Ids => q.name = "rpc_route"
    /\ q.stage = "routed" => k.at # "none"

IInv ==
    /\ TypeOK
    /\ \A p \in Peers : proc[p] \in {"new", "dialing"} => link[p] = "none"
    /\ \A r \in Requests : RequestInv(req[r], call[r], relayed[r], ran[r])
    /\ \A r \in Requests : IdInv(r, req[r], call[r])
    /\ \A r \in Requests : req[r].reply = "ok" => Done(r)

----------------------------------------------------------------------------
(* The routes. *)

LEMMA SystemRoutesAre ==
    /\ DOMAIN SystemRoutes = {"attestation_ip", "tl_get", "tl_post", "tl_bitvmStatus"}
    /\ SystemRoutes["attestation_ip"] = Route(FALSE, TRUE, "lookup")
    /\ SystemRoutes["tl_get"] = Route(FALSE, TRUE, "pass")
    /\ SystemRoutes["tl_post"] = Route(TRUE, TRUE, "pass")
    /\ SystemRoutes["tl_bitvmStatus"] = Route(TRUE, FALSE, "report")
BY DEF SystemRoutes

LEMMA RpcRoutesAre ==
    /\ DOMAIN RpcRoutes = {"rpc_method", "rpc_route"}
    /\ RpcRoutes["rpc_method"] = Route(TRUE, FALSE, "asked")
    /\ RpcRoutes["rpc_route"] = Route(TRUE, FALSE, "asked")
BY DEF RpcRoutes

LEMMA AddressRoutesAre ==
    /\ DOMAIN AddressRoutes = {"chain_info", "address_validate", "address_balance",
                               "address_faucet", "address_utxo"}
    /\ AddressRoutes["chain_info"] = Route(FALSE, TRUE, "getblockchaininfo")
    /\ AddressRoutes["address_validate"] = Route(FALSE, TRUE, "validateaddress")
    /\ AddressRoutes["address_balance"] =
          Route(FALSE, TRUE, "tl_getallbalancesforaddress")
    /\ AddressRoutes["address_faucet"] = Route(FALSE, TRUE, "sendtoaddress")
    /\ AddressRoutes["address_utxo"] = Route(TRUE, TRUE, "listunspent")
BY DEF AddressRoutes

LEMMA TxAndTokenRoutesAre ==
    /\ DOMAIN TxAndTokenRoutes = {"tx", "token_list", "tx_decode", "tx_sendTx",
                                  "tx_build", "token"}
    /\ TxAndTokenRoutes["tx"] = Route(FALSE, TRUE, "tl_gettransaction")
    /\ TxAndTokenRoutes["token_list"] = Route(FALSE, TRUE, "tl_listproperties")
    /\ TxAndTokenRoutes["tx_decode"] = Route(TRUE, TRUE, "decoderawtransaction")
    /\ TxAndTokenRoutes["tx_sendTx"] = Route(TRUE, TRUE, "sendrawtransaction")
    /\ TxAndTokenRoutes["tx_build"] = Route(TRUE, TRUE, "not_found")
    /\ TxAndTokenRoutes["token"] = Route(FALSE, TRUE, "tl_getproperty")
BY DEF TxAndTokenRoutes

\* What every route has in common.
RouteInv(name, route) ==
    /\ route.body \in BOOLEAN /\ route.relayed \in BOOLEAN
    /\ ~route.body => route.relayed
    /\ route.next = "pass" <=> name \in {"tl_get", "tl_post"}
    /\ route.next = "lookup" => name \in Own
    /\ route.next \in PublicMethods => name \in Lookups
    /\ name \in {"tl_get", "tl_post"} \cup Lookups => route.relayed

LEMMA RouteFacts ==
    ASSUME NEW name \in DOMAIN Routes
    PROVE  RouteInv(name, Routes[name]) /\ name \notin {"none"}
<1> DEFINE A == Either(SystemRoutes, RpcRoutes)
           B == Either(AddressRoutes, TxAndTokenRoutes)
<1>1. /\ "pass" \notin PublicMethods /\ "lookup" \notin PublicMethods
      /\ "report" \notin PublicMethods /\ "asked" \notin PublicMethods
      /\ "not_found" \notin PublicMethods /\ "sendtoaddress" \notin PublicMethods
      /\ "sendrawtransaction" \notin PublicMethods
  <2>1. PublicMethods \subseteq Methods
    BY PeerAssumption
  <2>2. /\ {"pass", "lookup", "report", "asked", "not_found"} \cap Methods = {}
        /\ {"sendtoaddress", "sendrawtransaction"} \cap PublicMethods = {}
    BY GatewayAssumption
  <2> QED
    BY <2>1, <2>2
<1>2. ASSUME NEW x \in DOMAIN SystemRoutes
      PROVE  RouteInv(x, SystemRoutes[x]) /\ x # "none"
  <2>1. RouteInv("attestation_ip", SystemRoutes["attestation_ip"])
    BY <1>1, SystemRoutesAre DEF RouteInv, Route, Lookups, Own
  <2>2. RouteInv("tl_get", SystemRoutes["tl_get"])
    BY <1>1, SystemRoutesAre DEF RouteInv, Route, Lookups, Own
  <2>3. RouteInv("tl_post", SystemRoutes["tl_post"])
    BY <1>1, SystemRoutesAre DEF RouteInv, Route, Lookups, Own
  <2>4. RouteInv("tl_bitvmStatus", SystemRoutes["tl_bitvmStatus"])
    BY <1>1, SystemRoutesAre DEF RouteInv, Route, Lookups, Own
  <2> QED
    BY <2>1, <2>2, <2>3, <2>4, SystemRoutesAre
<1>3. ASSUME NEW x \in DOMAIN RpcRoutes
      PROVE  RouteInv(x, RpcRoutes[x]) /\ x # "none"
  <2>1. RouteInv("rpc_method", RpcRoutes["rpc_method"])
    BY <1>1, RpcRoutesAre DEF RouteInv, Route, Lookups, Own
  <2>2. RouteInv("rpc_route", RpcRoutes["rpc_route"])
    BY <1>1, RpcRoutesAre DEF RouteInv, Route, Lookups, Own
  <2> QED
    BY <2>1, <2>2, RpcRoutesAre
<1>4. ASSUME NEW x \in DOMAIN AddressRoutes
      PROVE  RouteInv(x, AddressRoutes[x]) /\ x # "none"
  <2>1. RouteInv("chain_info", AddressRoutes["chain_info"])
    BY <1>1, AddressRoutesAre DEF RouteInv, Route, Lookups, Own
  <2>2. RouteInv("address_validate", AddressRoutes["address_validate"])
    BY <1>1, AddressRoutesAre DEF RouteInv, Route, Lookups, Own
  <2>3. RouteInv("address_balance", AddressRoutes["address_balance"])
    BY <1>1, AddressRoutesAre DEF RouteInv, Route, Lookups, Own
  <2>4. RouteInv("address_faucet", AddressRoutes["address_faucet"])
    BY <1>1, AddressRoutesAre DEF RouteInv, Route, Lookups, Own
  <2>5. RouteInv("address_utxo", AddressRoutes["address_utxo"])
    BY <1>1, AddressRoutesAre DEF RouteInv, Route, Lookups, Own
  <2> QED
    BY <2>1, <2>2, <2>3, <2>4, <2>5, AddressRoutesAre
<1>5. ASSUME NEW x \in DOMAIN TxAndTokenRoutes
      PROVE  RouteInv(x, TxAndTokenRoutes[x]) /\ x # "none"
  <2>1. RouteInv("tx", TxAndTokenRoutes["tx"])
    BY <1>1, TxAndTokenRoutesAre DEF RouteInv, Route, Lookups, Own
  <2>2. RouteInv("token_list", TxAndTokenRoutes["token_list"])
    BY <1>1, TxAndTokenRoutesAre DEF RouteInv, Route, Lookups, Own
  <2>3. RouteInv("tx_decode", TxAndTokenRoutes["tx_decode"])
    BY <1>1, TxAndTokenRoutesAre DEF RouteInv, Route, Lookups, Own
  <2>4. RouteInv("tx_sendTx", TxAndTokenRoutes["tx_sendTx"])
    BY <1>1, TxAndTokenRoutesAre DEF RouteInv, Route, Lookups, Own
  <2>5. RouteInv("tx_build", TxAndTokenRoutes["tx_build"])
    BY <1>1, TxAndTokenRoutesAre DEF RouteInv, Route, Lookups, Own
  <2>6. RouteInv("token", TxAndTokenRoutes["token"])
    BY <1>1, TxAndTokenRoutesAre DEF RouteInv, Route, Lookups, Own
  <2> QED
    BY <2>1, <2>2, <2>3, <2>4, <2>5, <2>6, TxAndTokenRoutesAre
<1>6. \A x \in DOMAIN A : RouteInv(x, A[x]) /\ x # "none"
  BY <1>2, <1>3 DEF Either
<1>7. \A x \in DOMAIN B : RouteInv(x, B[x]) /\ x # "none"
  BY <1>4, <1>5 DEF Either
<1> HIDE DEF A, B
<1>8. Routes = Either(A, B)
  BY DEF Routes, A, B
<1> QED
  BY <1>6, <1>7, <1>8 DEF Either

----------------------------------------------------------------------------
(* The shape of a step. *)

LEMMA Types ==
    ASSUME IInv
    PROVE  /\ req \in [Requests -> Handler]
           /\ call \in [Requests -> CallState]
           /\ relayed \in [Requests -> Nat] /\ ran \in [Requests -> Nat]
           /\ proc \in [Peers -> {"new", "dialing", "opening", "serving", "exited"}]
           /\ link \in [Peers -> {"none", "signaling", "up", "deaf", "gone"}]
           /\ advert \in [Peers -> {"none", "fresh", "stale"}]
           /\ legacyTl \in LegacyTl
           /\ pending \subseteq Requests
BY DEF IInv, TypeOK, PeerTypeOK, Handler, CallState, Requests

\* A step of a handler may close a channel and take peers off the list.
LinksKept ==
    /\ proc' = proc /\ legacyTl' = legacyTl
    /\ link' \in [Peers -> {"none", "signaling", "up", "deaf", "gone"}]
    /\ advert' \in [Peers -> {"none", "fresh", "stale"}]
    /\ \A p \in Peers : link'[p] = link[p] \/ (link[p] = "up" /\ link'[p] = "deaf")
    /\ \A p \in Peers : advert'[p] # "none" => advert[p] # "none"

\* What an "ok" rests on is not taken back.
DoneStays(r) ==
    /\ req'[r].name = req[r].name /\ req'[r].method = req[r].method
    /\ req'[r].id = req[r].id
    /\ relayed'[r] >= relayed[r]

LEMMA DoneKept ==
    ASSUME IInv, NEW r \in Requests, Done(r), DoneStays(r),
           relayed' \in [Requests -> Nat], ran' \in [Requests -> Nat],
           \A d \in Requests : ran'[d] >= ran[d],
           \A d \in Requests : req[d].id # NoId => req'[d].id = req[d].id
    PROVE  Done(r)'
<1>1. /\ relayed \in [Requests -> Nat] /\ ran \in [Requests -> Nat]
      /\ Executions(r) = relayed[r] + ran[r] /\ Executions(r)' = relayed'[r] + ran'[r]
  BY Types DEF Executions
<1>2. CASE Executions(r) >= 1
  <2>1. relayed[r] \in Nat /\ ran[r] \in Nat /\ relayed'[r] \in Nat /\ ran'[r] \in Nat
    BY <1>1
  <2>2. relayed'[r] >= relayed[r] /\ ran'[r] >= ran[r]
    BY DEF DoneStays
  <2> QED
    BY <1>1, <1>2, <2>1, <2>2 DEF Done
<1>3. CASE \/ req[r].name \in Own
           \/ req[r].name = "rpc_method" /\ req[r].method = "tl_bitvmstatus"
  BY <1>3 DEF Done, DoneStays
<1>4. CASE /\ req[r].name = "rpc_route" /\ req[r].id \in Ids
           /\ \E s \in Requests \ {r} : req[s].id = req[r].id /\ ran[s] >= 1
  <2>1. PICK s \in Requests \ {r} : req[s].id = req[r].id /\ ran[s] >= 1
    BY <1>4
  <2>2. req[s].id # NoId
    BY <1>4, <2>1, GatewayAssumption
  <2>3. req'[s].id = req'[r].id
    BY <2>1, <2>2 DEF DoneStays
  <2>4. ran[s] \in Nat /\ ran'[s] \in Nat /\ ran'[s] >= ran[s]
    BY <1>1
  <2> QED
    BY <1>4, <2>1, <2>3, <2>4 DEF Done, DoneStays
<1> QED
  BY <1>2, <1>3, <1>4 DEF Done

\* A step of one handler.
LEMMA HandlerStep ==
    ASSUME IInv, NEW r \in Requests,
           req' \in [Requests -> Handler], call' \in [Requests -> CallState],
           relayed' \in [Requests -> Nat], ran' \in [Requests -> Nat],
           \A d \in Requests \ {r} : /\ req'[d] = req[d] /\ call'[d] = call[d]
                                     /\ relayed'[d] = relayed[d] /\ ran'[d] = ran[d],
           RequestInv(req'[r], call'[r], relayed'[r], ran'[r]),
           IdInv(r, req'[r], call'[r]),
           ran'[r] >= ran[r],
           req[r].id # NoId => req'[r].id = req[r].id,
           req'[r].reply = "ok" => Done(r)' \/ (req[r].reply = "ok" /\ DoneStays(r)),
           pending' \subseteq pending \cup {r},
           r \in pending' =>
               /\ req'[r].stage = "routed"
               /\ link[call'[r].peer] \in {"up", "deaf"}
               /\ \A s \in pending' \ {r} : req[s].id # req'[r].id,
           LinksKept
    PROVE  IInv'
<1>1. \A d \in Requests : /\ RequestInv(req'[d], call'[d], relayed'[d], ran'[d])
                          /\ IdInv(d, req'[d], call'[d])
  <2> SUFFICES ASSUME NEW d \in Requests
               PROVE  /\ RequestInv(req'[d], call'[d], relayed'[d], ran'[d])
                      /\ IdInv(d, req'[d], call'[d])
    OBVIOUS
  <2>1. CASE d = r
    BY <2>1
  <2>2. CASE d # r
    BY <2>2 DEF IInv
  <2> QED
    BY <2>1, <2>2
<1>2. ASSUME NEW d \in Requests, req'[d].stage = "routed"
      PROVE  call'[d].at \in {"asked", "ok", "error", "replied"}
  <2>1. call'[d] \in CallState
    OBVIOUS
  <2>2. call'[d].at # "none"
    BY <1>1, <1>2 DEF IdInv
  <2> QED
    BY <2>1, <2>2 DEF CallState
<1>3. \A p \in Peers : advert'[p] # "none" => link'[p] \in {"up", "deaf"}
  BY DEF LinksKept, IInv, TypeOK
<1>4. \A p \in Peers : proc'[p] \in {"new", "dialing"} => link'[p] = "none"
  BY DEF LinksKept, IInv
<1>5. pending' \subseteq Requests
  BY Types
<1>6. ASSUME NEW d \in pending'
      PROVE  /\ req'[d].stage = "routed"
             /\ link'[call'[d].peer] \in {"up", "deaf"}
             /\ \A s \in pending' \ {d} : req'[s].id # req'[d].id
  <2>1. d \in Requests
    BY <1>5
  <2>2. CASE d = r
    <3>1. /\ req'[r].stage = "routed" /\ link[call'[r].peer] \in {"up", "deaf"}
          /\ \A s \in pending' \ {r} : req'[s].id # req'[r].id
      BY <1>5, <1>6, <2>2
    <3>2. call'[r].peer \in Peers
      BY <1>1, <1>2, <3>1 DEF RequestInv, CallInv
    <3> QED
      BY <2>2, <3>1, <3>2 DEF LinksKept
  <2>3. CASE d # r
    <3>1. /\ d \in pending /\ req'[d] = req[d] /\ call'[d] = call[d]
      BY <1>6, <2>1, <2>3
    <3>2. /\ req[d].stage = "routed" /\ link[call[d].peer] \in {"up", "deaf"}
          /\ \A s \in pending \ {d} : req[s].id # req[d].id
      BY <3>1 DEF IInv, TypeOK
    <3>3. call[d].peer \in Peers
      BY <1>1, <1>2, <2>1, <3>1, <3>2 DEF RequestInv, CallInv
    <3>4. ASSUME NEW s \in pending' \ {d}
          PROVE  req'[s].id # req'[d].id
      <4>1. CASE s = r
        BY <1>6, <2>3, <3>1, <3>4, <4>1
      <4>2. CASE s # r
        BY <1>5, <3>1, <3>2, <3>4, <4>2
      <4> QED
        BY <4>1, <4>2
    <3> QED
      BY <3>1, <3>2, <3>3, <3>4 DEF LinksKept
  <2> QED
    BY <2>2, <2>3
<1>7. TypeOK'
  BY <1>2, <1>3, <1>5, <1>6, Types
  DEF LinksKept, TypeOK, PeerTypeOK, Handler, CallState, Requests
<1>8. ASSUME NEW d \in Requests, req'[d].reply = "ok"
      PROVE  Done(d)'
  <2>1. /\ \A e \in Requests : ran'[e] >= ran[e]
        /\ \A e \in Requests : req[e].id # NoId => req'[e].id = req[e].id
    <3>1. ran \in [Requests -> Nat]
      BY Types
    <3> QED
      BY <3>1
  <2>2. CASE d = r
    <3>1. CASE Done(r)'
      BY <2>2, <3>1
    <3>2. CASE req[r].reply = "ok" /\ DoneStays(r)
      <4>1. Done(r)
        BY <3>2 DEF IInv
      <4> QED
        BY <2>1, <2>2, <3>2, <4>1, DoneKept
    <3> QED
      BY <1>8, <2>2, <3>1, <3>2
  <2>3. CASE d # r
    <3>1. req'[d] = req[d] /\ relayed'[d] = relayed[d] /\ relayed[d] \in Nat
      BY <2>3, Types
    <3>2. Done(d) /\ DoneStays(d)
      BY <1>8, <3>1 DEF IInv, DoneStays
    <3> QED
      BY <2>1, <3>2, DoneKept
  <2> QED
    BY <2>2, <2>3
<1> QED
  BY <1>1, <1>4, <1>7, <1>8 DEF IInv

\* A step of a peer, or of its link, that no handler takes part in.
LEMMA LinkStep ==
    ASSUME IInv, UNCHANGED <<req, call, relayed, ran, legacyTl, pending>>,
           proc' \in [Peers -> {"new", "dialing", "opening", "serving", "exited"}],
           link' \in [Peers -> {"none", "signaling", "up", "deaf", "gone"}],
           advert' \in [Peers -> {"none", "fresh", "stale"}],
           \A p \in Peers : link[p] \in {"up", "deaf"} => link'[p] \in {"up", "deaf"},
           \A p \in Peers : advert'[p] # "none" => link'[p] \in {"up", "deaf"},
           \A p \in Peers : proc'[p] \in {"new", "dialing"} => link'[p] = "none"
    PROVE  IInv'
<1>1. /\ req' = req /\ call' = call /\ relayed' = relayed /\ ran' = ran
      /\ legacyTl' = legacyTl /\ pending' = pending
  OBVIOUS
<1>2. ASSUME NEW d \in pending
      PROVE  link'[call[d].peer] \in {"up", "deaf"}
  <2>1. /\ d \in Requests /\ req[d].stage = "routed"
        /\ link[call[d].peer] \in {"up", "deaf"}
    BY <1>2 DEF IInv, TypeOK
  <2>2. call[d].peer \in Peers
    BY <2>1 DEF IInv, RequestInv, CallInv, IdInv
  <2> QED
    BY <2>1, <2>2
<1>3. TypeOK'
  BY <1>1, <1>2 DEF IInv, TypeOK, PeerTypeOK
<1>4. \A d \in Requests : RequestInv(req[d], call[d], relayed[d], ran[d])'
  BY <1>1 DEF IInv
<1>5. \A d \in Requests : IdInv(d, req[d], call[d])'
  BY <1>1 DEF IInv
<1>6. ASSUME NEW d \in Requests, req'[d].reply = "ok"
      PROVE  Done(d)'
  <2>1. Done(d)
    BY <1>1, <1>6 DEF IInv
  <2>2. /\ req'[d] = req[d] /\ relayed'[d] = relayed[d]
        /\ \A s \in Requests : req'[s] = req[s] /\ ran'[s] = ran[s]
    BY <1>1
  <2>3. ran'[d] = ran[d]
    BY <1>1
  <2> QED
    BY <2>1, <2>2, <2>3 DEF Done, Executions
<1> QED
  BY <1>3, <1>4, <1>5, <1>6 DEF IInv

----------------------------------------------------------------------------
(* What a handler does. *)

Replied(q, reply) == [q EXCEPT !.stage = "replied", !.reply = reply]
At(q, stage) == [q EXCEPT !.stage = stage]

LEMMA RepliedFacts ==
    ASSUME NEW q \in Handler, NEW reply \in {"ok", "denied", "error"}
    PROVE  /\ Replied(q, reply) \in Handler
           /\ Replied(q, reply).name = q.name /\ Replied(q, reply).method = q.method
           /\ Replied(q, reply).stage = "replied" /\ Replied(q, reply).reply = reply
           /\ Replied(q, reply).id = q.id
BY DEF Replied, Handler

LEMMA AtFacts ==
    ASSUME NEW q \in Handler, NEW stage \in Waiting
    PROVE  /\ At(q, stage) \in Handler
           /\ At(q, stage).name = q.name /\ At(q, stage).method = q.method
           /\ At(q, stage).stage = stage /\ At(q, stage).reply = q.reply
           /\ At(q, stage).id = q.id
BY DEF At, Handler, Waiting

\* What a handler that has been told "ok" can say for itself.
Earned(q, byRelayer, byPeer) ==
    \/ byRelayer + byPeer >= 1
    \/ q.name \in Own
    \/ q.name = "rpc_method" /\ q.method = "tl_bitvmstatus"

\* A handler that waits replies.
LEMMA ReplyStep ==
    ASSUME IInv, NEW r \in Requests, NEW reply \in {"ok", "denied", "error"},
           req[r].stage \in Waiting, Reply(r, reply),
           pending' \subseteq pending \ {r}, call' = call, ran' = ran,
           relayed' \in [Requests -> Nat],
           \A d \in Requests \ {r} : relayed'[d] = relayed[d],
           CallInv(req[r], call[r], relayed'[r], ran[r]),
           DeniedInv(Replied(req[r], reply), call[r], relayed'[r]),
           reply = "ok" => Earned(req[r], relayed'[r], ran[r]),
           LinksKept
    PROVE  IInv'
<1>1. req \in [Requests -> Handler] /\ req[r] \in Handler
  BY Types
<1> DEFINE q == Replied(req[r], reply)
<1>2. req' = [req EXCEPT ![r] = q]
  BY <1>1 DEF Reply, Replied
<1>3. /\ q \in Handler /\ q.name = req[r].name /\ q.method = req[r].method
      /\ q.stage = "replied" /\ q.reply = reply /\ q.id = req[r].id
  BY <1>1, RepliedFacts
<1>4. DeniedInv(q, call'[r], relayed'[r])
  OBVIOUS
<1> HIDE DEF q
<1>5. req' \in [Requests -> Handler] /\ req'[r] = q /\ \A d \in Requests \ {r} : req'[d] = req[d]
  BY <1>1, <1>2, <1>3
<1>6. q.name \in DOMAIN Routes
  BY <1>3 DEF IInv, RequestInv, StageInv, Waiting
<1>7. StageInv(q, call'[r], relayed'[r])
  BY <1>3, <1>6 DEF StageInv
<1>8. CallInv(q, call'[r], relayed'[r], ran'[r])
  BY <1>3 DEF CallInv, MethodsAsked
<1>9. RequestInv(q, call'[r], relayed'[r], ran'[r])
  BY <1>4, <1>7, <1>8 DEF RequestInv
<1>10. IdInv(r, q, call'[r])
  BY <1>3 DEF IInv, IdInv
<1>11. reply = "ok" => Done(r)'
  <2>1. Executions(r)' = relayed'[r] + ran[r]
    BY DEF Executions
  <2> QED
    BY <1>3, <1>5, <2>1 DEF Done, Earned
<1>12. ran' \in [Requests -> Nat] /\ ran'[r] >= ran[r] /\ call' \in [Requests -> CallState]
  BY Types
<1>13. r \notin pending' /\ pending' \subseteq pending \cup {r}
  OBVIOUS
<1> QED
  BY <1>3, <1>5, <1>9, <1>10, <1>11, <1>12, <1>13, HandlerStep

\* A handler goes on to another await.
LEMMA AwaitStep ==
    ASSUME IInv, NEW r \in Requests, NEW stage \in {"relayer", "proxied", "lookup"},
           req[r].stage \in Waiting, Await(r, stage),
           pending' \subseteq pending \ {r}, call' = call, ran' = ran,
           relayed' \in [Requests -> Nat],
           \A d \in Requests \ {r} : relayed'[d] = relayed[d],
           CallInv(req[r], call[r], relayed'[r], ran[r]),
           StageInv(At(req[r], stage), call[r], relayed'[r]),
           LinksKept
    PROVE  IInv'
<1>1. req \in [Requests -> Handler] /\ req[r] \in Handler
  BY Types
<1> DEFINE q == At(req[r], stage)
<1>2. req' = [req EXCEPT ![r] = q]
  BY <1>1 DEF Await, At
<1>3. /\ q \in Handler /\ q.name = req[r].name /\ q.method = req[r].method
      /\ q.stage = stage /\ q.reply = req[r].reply /\ q.id = req[r].id
  BY <1>1, AtFacts DEF Waiting
<1>4. StageInv(q, call'[r], relayed'[r])
  OBVIOUS
<1> HIDE DEF q
<1>5. req' \in [Requests -> Handler] /\ req'[r] = q /\ \A d \in Requests \ {r} : req'[d] = req[d]
  BY <1>1, <1>2, <1>3
<1>6. q.reply = "none"
  BY <1>3 DEF IInv, RequestInv, StageInv, Waiting
<1>7. CallInv(q, call'[r], relayed'[r], ran'[r])
  BY <1>3 DEF CallInv, MethodsAsked
<1>8. RequestInv(q, call'[r], relayed'[r], ran'[r])
  BY <1>4, <1>6, <1>7 DEF RequestInv, DeniedInv
<1>9. IdInv(r, q, call'[r])
  BY <1>3 DEF IInv, IdInv
<1>10. ran' \in [Requests -> Nat] /\ ran'[r] >= ran[r] /\ call' \in [Requests -> CallState]
  BY Types
<1>11. r \notin pending' /\ pending' \subseteq pending \cup {r}
  OBVIOUS
<1> QED
  BY <1>3, <1>5, <1>6, <1>8, <1>9, <1>10, <1>11, HandlerStep

\* What is known of a request before it has been sent to a peer.
LEMMA NotSent ==
    ASSUME IInv, NEW r \in Requests,
           req[r].stage \in {"body", "relayer", "proxied", "lookup"}
    PROVE  /\ call[r].at = "none" /\ ran[r] = 0 /\ relayed[r] \in Nat
           /\ req[r].name \in DOMAIN Routes /\ req[r].reply = "none"
           /\ req[r].stage \in {"body", "relayer"} => relayed[r] = 0
           /\ req[r].stage \in Waiting /\ req[r].id = NoId
           /\ r \notin pending /\ pending \subseteq pending \ {r}
BY Types DEF IInv, TypeOK, RequestInv, StageInv, CallInv, IdInv, Waiting

LEMMA PrunedKept ==
    ASSUME IInv, advert' = Pruned, UNCHANGED <<proc, link, legacyTl>>
    PROVE  LinksKept
<1>1. advert' \in [Peers -> {"none", "fresh", "stale"}]
  BY DEF Pruned
<1>2. \A p \in Peers : advert'[p] # "none" => advert[p] # "none"
  BY DEF Pruned
<1> QED
  BY <1>1, <1>2, Types DEF LinksKept

\* A request is sent to a peer, after the relayer could not or without it.
LEMMA RouteStep ==
    ASSUME IInv, NEW r \in Requests, req[r].stage \in {"body", "relayer"},
           NEW method \in MethodsAsked(req[r]), IsPublic(method),
           RouteRpcRequest(r, method),
           UNCHANGED <<proc, link, ran, legacyTl>>,
           relayed' \in [Requests -> Nat],
           \A d \in Requests \ {r} : relayed'[d] = relayed[d],
           relayed'[r] \in 0 .. 1,
           req[r].name \notin Lookups => relayed'[r] = 0
    PROVE  IInv'
<1>1. PICK p \in Providers(method) : \E id \in IdFor(r) :
          /\ call' = [call EXCEPT ![r] = [peer |-> p, at |-> "asked"]]
          /\ advert' = Pruned
          /\ req' = [req EXCEPT ![r].stage = "routed", ![r].id = id]
          /\ pending' = (pending \ Entry(id)) \cup {r}
  BY DEF RouteRpcRequest
<1>2. PICK id \in IdFor(r) :
          /\ call' = [call EXCEPT ![r] = [peer |-> p, at |-> "asked"]]
          /\ advert' = Pruned
          /\ req' = [req EXCEPT ![r].stage = "routed", ![r].id = id]
          /\ pending' = (pending \ Entry(id)) \cup {r}
  BY <1>1
<1>3. p \in Peers /\ link[p] = "up"
  BY DEF Providers, Pruned
<1>4. /\ id \in Ids \cup {r} /\ id \in Ids \cup Requests /\ id # NoId
      /\ id \in Ids => req[r].name = "rpc_route"
  BY GatewayAssumption DEF IdFor
<1>5. /\ call' \in [Requests -> CallState]
      /\ call'[r].peer = p /\ call'[r].at = "asked"
      /\ \A d \in Requests \ {r} : call'[d] = call[d]
  BY <1>2, <1>3, Types DEF CallState
<1>6. LinksKept
  BY <1>2, PrunedKept
<1> DEFINE q == [req[r] EXCEPT !.stage = "routed", !.id = id]
<1>7. req[r] \in Handler /\ req \in [Requests -> Handler]
  BY Types
<1>8. /\ q \in Handler /\ q.name = req[r].name /\ q.method = req[r].method
      /\ q.stage = "routed" /\ q.reply = "none" /\ q.id = id
  BY <1>4, <1>7, NotSent DEF Handler, Waiting
<1>9. /\ req' \in [Requests -> Handler] /\ req'[r] = q
      /\ \A d \in Requests \ {r} : req'[d] = req[d]
  BY <1>2, <1>7, <1>8
<1> HIDE DEF q
<1>10. CallInv(q, call'[r], relayed'[r], ran[r])
  BY <1>3, <1>5, <1>8, NotSent DEF CallInv, IsPublic, MethodsAsked
<1>11. StageInv(q, call'[r], relayed'[r])
  BY <1>8, NotSent DEF StageInv
<1>12. RequestInv(q, call'[r], relayed'[r], ran'[r])
  BY <1>8, <1>10, <1>11 DEF RequestInv, DeniedInv
<1>13. IdInv(r, q, call'[r])
  BY <1>4, <1>5, <1>8, GatewayAssumption DEF IdInv
<1>14. \A s \in pending' \ {r} : req[s].id # id
  BY <1>2 DEF Entry
<1>15. pending' \subseteq pending \cup {r}
  BY <1>2
<1>16. ran' \in [Requests -> Nat] /\ ran'[r] >= ran[r] /\ req[r].id = NoId
  BY Types, NotSent
<1> QED
  BY <1>3, <1>5, <1>6, <1>8, <1>9, <1>12, <1>13, <1>14, <1>15, <1>16, HandlerStep

LEMMA CompatStep ==
    ASSUME IInv, NEW r \in Requests, req[r].stage \in {"body", "relayer"},
           NEW method \in MethodsAsked(req[r]),
           RouteCompatRpcRequest(r, method),
           UNCHANGED <<proc, link, ran, legacyTl>>,
           relayed' \in [Requests -> Nat],
           \A d \in Requests \ {r} : relayed'[d] = relayed[d],
           relayed'[r] \in 0 .. 1,
           IsPublic(method) /\ req[r].name \notin Lookups => relayed'[r] = 0,
           relayed'[r] > 0 =>
               Routes[req[r].name].relayed /\ Routes[req[r].name].next # "pass"
    PROVE  IInv'
<1>1. req[r] \in Handler /\ req[r].stage \in Waiting
  BY Types, NotSent
<1>2. CASE Reply(r, "denied") /\ UNCHANGED <<call, advert, pending>>
  <2>1. call' = call /\ ran' = ran /\ LinksKept /\ pending' \subseteq pending \ {r}
    BY <1>2, Types, NotSent DEF LinksKept
  <2>2. CallInv(req[r], call[r], relayed'[r], ran[r])
    BY NotSent DEF CallInv
  <2>3. DeniedInv(Replied(req[r], "denied"), call[r], relayed'[r])
    BY <1>1, RepliedFacts, NotSent DEF DeniedInv
  <2> QED
    BY <1>1, <1>2, <2>1, <2>2, <2>3, Types, ReplyStep
<1>3. CASE IsPublic(method) /\ RouteRpcRequest(r, method)
  BY <1>3, RouteStep
<1>4. CASE /\ IsPublic(method)
           /\ advert' = Pruned
           /\ Await(r, "proxied")
           /\ UNCHANGED <<call, pending>>
  <2>1. call' = call /\ ran' = ran /\ LinksKept /\ pending' \subseteq pending \ {r}
    BY <1>4, PrunedKept, NotSent
  <2>2. CallInv(req[r], call[r], relayed'[r], ran[r])
    BY NotSent DEF CallInv
  <2>3. StageInv(At(req[r], "proxied"), call[r], relayed'[r])
    <3>1. "proxied" \in Waiting
      BY DEF Waiting
    <3> QED
      BY <1>1, <1>4, <3>1, AtFacts, NotSent DEF StageInv
  <2> QED
    BY <1>1, <1>4, <2>1, <2>2, <2>3, Types, AwaitStep
<1> QED
  BY <1>2, <1>3, <1>4 DEF RouteCompatRpcRequest

----------------------------------------------------------------------------
(* The actions. *)

LEMMA ReceiveStep ==
    ASSUME IInv, NEW r \in Requests, NEW name \in DOMAIN Routes,
           NEW method \in Methods \cup {"none"}, Receive(r, name, method)
    PROVE  IInv'
<1>1. /\ req[r].stage = "new" /\ call' = call /\ relayed' = relayed /\ ran' = ran
      /\ proc' = proc /\ link' = link /\ advert' = advert /\ legacyTl' = legacyTl
      /\ pending' = pending
  BY DEF Receive, peerVars
<1>2. PICK stage \in {"replied", "body", "relayer"}, reply \in {"none", "denied"} :
          /\ req' = [req EXCEPT ![r] = [name |-> name, method |-> method,
                                        stage |-> stage, reply |-> reply, id |-> NoId]]
          /\ reply = "denied" <=> stage = "replied"
          /\ stage = "relayer" => ~Routes[name].body
  <2>1. ("replied" # "body") /\ ("replied" # "relayer") /\ ("none" # "denied")
    OBVIOUS
  <2> QED
    BY <2>1 DEF Receive
<1>3. /\ req' \in [Requests -> Handler]
      /\ req'[r].name = name /\ req'[r].method = method
      /\ req'[r].stage = stage /\ req'[r].reply = reply /\ req'[r].id = NoId
      /\ \A d \in Requests \ {r} : req'[d] = req[d]
  BY <1>2, Types DEF Handler, Waiting
<1>4. /\ relayed[r] = 0 /\ call[r].at = "none" /\ ran[r] = 0
      /\ req[r].id = NoId /\ r \notin pending
  <2>1. RequestInv(req[r], call[r], relayed[r], ran[r]) /\ IdInv(r, req[r], call[r])
    BY DEF IInv
  <2>2. call[r].at = "none"
    BY <1>1, <2>1 DEF RequestInv, StageInv
  <2> QED
    BY <1>1, <2>1, <2>2 DEF RequestInv, StageInv, CallInv, IdInv, IInv, TypeOK
<1>5. Routes[name].relayed \/ stage # "relayer"
  BY <1>2, RouteFacts DEF RouteInv
<1>6. RequestInv(req'[r], call'[r], relayed'[r], ran'[r])
  BY <1>1, <1>2, <1>3, <1>4, <1>5 DEF RequestInv, StageInv, CallInv, DeniedInv
<1>7. LinksKept
  BY <1>1, Types DEF LinksKept
<1>8. IdInv(r, req'[r], call'[r])
  BY <1>1, <1>3, <1>4, GatewayAssumption DEF IdInv
<1>9. r \notin pending' /\ pending' \subseteq pending \cup {r} /\ req'[r].reply # "ok"
  BY <1>1, <1>3, <1>4
<1>10. ran' \in [Requests -> Nat] /\ ran'[r] >= ran[r]
  BY <1>1, Types
<1> QED
  BY <1>1, <1>3, <1>4, <1>6, <1>7, <1>8, <1>9, <1>10, Types, HandlerStep

LEMMA BodyReadStep ==
    ASSUME IInv, NEW r \in Requests, BodyRead(r)
    PROVE  IInv'
<1>1. /\ req[r].stage = "body" /\ relayed' = relayed /\ ran' = ran
      /\ proc' = proc /\ link' = link /\ legacyTl' = legacyTl
      /\ UNCHANGED <<proc, link, ran, legacyTl>>
  BY DEF BodyRead
<1>2. /\ req[r] \in Handler /\ req[r].stage \in Waiting
      /\ call[r].at = "none" /\ ran[r] = 0 /\ relayed[r] = 0
      /\ req[r].name \in DOMAIN Routes /\ req[r].reply = "none"
      /\ pending \subseteq pending \ {r}
  BY <1>1, Types, NotSent
<1>3. req[r].method \in MethodsAsked(req[r])
  BY DEF MethodsAsked
<1>4. ASSUME NEW reply \in {"ok", "denied", "error"}, Reply(r, reply),
             call' = call, pending' = pending, LinksKept,
             reply = "ok" => \/ req[r].name \in Own
                             \/ req[r].name = "rpc_method" /\ req[r].method = "tl_bitvmstatus"
      PROVE  IInv'
  <2>1. CallInv(req[r], call[r], relayed'[r], ran[r])
    BY <1>1, <1>4 DEF IInv, RequestInv
  <2>2. DeniedInv(Replied(req[r], reply), call[r], relayed'[r])
    BY <1>1, <1>2, <1>4, RepliedFacts DEF DeniedInv
  <2>3. relayed' \in [Requests -> Nat] /\ pending' \subseteq pending \ {r}
    BY <1>1, <1>2, <1>4, Types
  <2>4. reply = "ok" => Earned(req[r], relayed'[r], ran[r])
    BY <1>4 DEF Earned
  <2> QED
    BY <1>1, <1>2, <1>4, <2>1, <2>2, <2>3, <2>4, ReplyStep
<1>5. advert' = advert \/ advert' = Pruned => LinksKept
  BY <1>1, Types, PrunedKept DEF LinksKept
<1>6. CASE Reply(r, "error") /\ UNCHANGED <<call, advert, pending>>
  BY <1>4, <1>5, <1>6
<1>7. CASE /\ \/ req[r].name = "tl_bitvmStatus"
              \/ req[r].name = "rpc_method" /\ req[r].method = "tl_bitvmstatus"
           /\ Reply(r, "ok")
           /\ UNCHANGED <<call, advert, pending>>
  BY <1>4, <1>5, <1>7 DEF Own
<1>8. CASE RouteCompatRpcRequest(r, req[r].method)
  BY <1>1, <1>2, <1>3, <1>8, Types, CompatStep
<1>9. CASE Reply(r, "denied") /\ UNCHANGED <<call, advert, pending>>
  BY <1>4, <1>5, <1>9
<1>10. CASE IsPublic(req[r].method) /\ RouteRpcRequest(r, req[r].method)
  BY <1>1, <1>2, <1>3, <1>10, Types, RouteStep
<1>11. CASE Reply(r, "error") /\ advert' = Pruned /\ UNCHANGED <<call, pending>>
  BY <1>4, <1>5, <1>11
<1>12. CASE Routes[req[r].name].relayed /\ Await(r, "relayer") /\ UNCHANGED <<call, advert, pending>>
  <2>1. CallInv(req[r], call[r], relayed[r], ran[r])
    BY DEF IInv, RequestInv
  <2>2. "relayer" \in Waiting
    BY DEF Waiting
  <2>3. StageInv(At(req[r], "relayer"), call[r], relayed[r])
    BY <1>2, <1>12, <2>2, AtFacts DEF StageInv
  <2> QED
    BY <1>1, <1>2, <1>5, <1>12, <2>1, <2>3, Types, AwaitStep
<1> QED
  BY <1>6, <1>7, <1>8, <1>9, <1>10, <1>11, <1>12 DEF BodyRead

LEMMA RelayedFacts ==
    ASSUME IInv, NEW r \in Requests, NEW result \in Result, Relayed(r, result)
    PROVE  /\ relayed' \in [Requests -> Nat]
           /\ \A d \in Requests \ {r} : relayed'[d] = relayed[d]
           /\ relayed'[r] \in {relayed[r], relayed[r] + 1}
           /\ result = "ok" => relayed'[r] = relayed[r] + 1
           /\ result = "denied" => relayed'[r] = relayed[r]
<1> DEFINE more == [relayed EXCEPT ![r] = @ + 1]
<1>1. /\ relayed \in [Requests -> Nat] /\ more \in [Requests -> Nat]
      /\ more[r] = relayed[r] + 1 /\ \A d \in Requests \ {r} : more[d] = relayed[d]
  BY Types
<1>2. /\ relayed' = relayed \/ relayed' = more
      /\ result = "ok" => relayed' = more
      /\ result = "denied" => relayed' = relayed
  BY DEF Relayed, Result
<1> HIDE DEF more
<1> QED
  BY <1>1, <1>2

LEMMA RelayerReturnsStep ==
    ASSUME IInv, NEW r \in Requests, NEW result \in Result, RelayerReturns(r, result)
    PROVE  IInv'
<1>1. /\ req[r].stage = "relayer" /\ Relayed(r, result)
      /\ UNCHANGED <<proc, link, ran, legacyTl>>
  BY DEF RelayerReturns
<1>2. /\ req[r] \in Handler /\ req[r].stage \in Waiting
      /\ call[r].at = "none" /\ ran[r] = 0 /\ relayed[r] = 0
      /\ req[r].name \in DOMAIN Routes /\ req[r].reply = "none"
      /\ Routes[req[r].name].relayed /\ pending \subseteq pending \ {r}
  BY <1>1, Types, NotSent DEF IInv, RequestInv, StageInv
<1>3. /\ relayed' \in [Requests -> Nat]
      /\ \A d \in Requests \ {r} : relayed'[d] = relayed[d]
      /\ relayed'[r] \in 0 .. 1
      /\ result = "ok" => relayed'[r] = 1
      /\ result = "denied" => relayed'[r] = 0
  BY <1>1, <1>2, RelayedFacts
<1>4. CallInv(req[r], call[r], relayed'[r], ran[r])
  BY <1>2, <1>3 DEF CallInv
<1> DEFINE next == Routes[req[r].name].next
<1>5. UNCHANGED <<call, advert, pending>> =>
         LinksKept /\ call' = call /\ pending' \subseteq pending \ {r}
  BY <1>1, <1>2, Types DEF LinksKept
<1>6. ASSUME NEW reply \in {"ok", "denied", "error"}, Reply(r, reply),
             UNCHANGED <<call, advert, pending>>,
             reply = "ok" => relayed'[r] = 1,
             reply = "denied" => relayed'[r] = 0 \/ next # "pass"
      PROVE  IInv'
  <2>1. call' = call /\ ran' = ran /\ LinksKept
    BY <1>1, <1>5, <1>6
  <2>2. DeniedInv(Replied(req[r], reply), call[r], relayed'[r])
    BY <1>2, <1>3, <1>6, RepliedFacts DEF DeniedInv
  <2>3. reply = "ok" => Earned(req[r], relayed'[r], ran[r])
    BY <1>2, <1>6 DEF Earned
  <2> QED
    BY <1>2, <1>3, <1>4, <1>5, <1>6, <2>1, <2>2, <2>3, ReplyStep
<1>7. CASE result # "error" /\ Reply(r, result) /\ UNCHANGED <<call, advert, pending>>
  BY <1>3, <1>6, <1>7 DEF Result
<1>8. CASE next = "not_found" /\ Reply(r, "denied") /\ UNCHANGED <<call, advert, pending>>
  BY <1>6, <1>8
<1>9. CASE next = "pass" /\ Reply(r, "error") /\ UNCHANGED <<call, advert, pending>>
  BY <1>6, <1>9
<1>10. CASE next = "lookup" /\ Await(r, "lookup") /\ UNCHANGED <<call, advert, pending>>
  <2>1. req[r].name \in Own
    BY <1>2, <1>10, RouteFacts DEF RouteInv
  <2>2. "lookup" \in Waiting
    BY DEF Waiting
  <2>3. StageInv(At(req[r], "lookup"), call[r], relayed'[r])
    BY <1>2, <1>10, <2>1, <2>2, AtFacts DEF StageInv
  <2>4. ran' = ran
    BY <1>1
  <2> QED
    BY <1>2, <1>3, <1>4, <1>5, <1>10, <2>3, <2>4, AwaitStep
<1>11. CASE next \in Methods /\ RouteCompatRpcRequest(r, next)
  <2>1. next # "pass"
    BY <1>11, GatewayAssumption
  <2>2. IsPublic(next) => req[r].name \in Lookups
    BY <1>2, RouteFacts DEF RouteInv, IsPublic
  <2>3. next \in MethodsAsked(req[r])
    BY DEF MethodsAsked
  <2> QED
    BY <1>1, <1>2, <1>3, <1>11, <2>1, <2>2, <2>3, CompatStep
<1> QED
  BY <1>7, <1>8, <1>9, <1>10, <1>11 DEF RelayerReturns, FallBack

LEMMA ProxyReturnsStep ==
    ASSUME IInv, NEW r \in Requests, NEW result \in Result, ProxyReturns(r, result)
    PROVE  IInv'
<1>1. /\ req[r].stage = "proxied" /\ Relayed(r, result) /\ Reply(r, result)
      /\ call' = call /\ ran' = ran /\ proc' = proc /\ link' = link
      /\ advert' = advert /\ legacyTl' = legacyTl /\ pending' = pending
  BY DEF ProxyReturns, peerVars
<1>2. /\ req[r] \in Handler /\ req[r].stage \in Waiting
      /\ call[r].at = "none" /\ ran[r] = 0 /\ relayed[r] \in Nat
      /\ req[r].name \in DOMAIN Routes
      /\ req[r].name \notin Lookups => relayed[r] = 0
      /\ pending \subseteq pending \ {r}
  BY <1>1, Types, NotSent DEF IInv, RequestInv, StageInv
<1>3. /\ relayed' \in [Requests -> Nat]
      /\ \A d \in Requests \ {r} : relayed'[d] = relayed[d]
      /\ relayed'[r] \in {relayed[r], relayed[r] + 1}
      /\ result = "ok" => relayed'[r] = relayed[r] + 1
      /\ result = "denied" => relayed'[r] = relayed[r]
  BY <1>1, RelayedFacts
<1>4. CallInv(req[r], call[r], relayed'[r], ran[r])
  BY <1>2, <1>3 DEF CallInv
<1>5. req[r].name \in Lookups =>
         Routes[req[r].name].relayed /\ Routes[req[r].name].next # "pass"
  <2>1. RouteInv(req[r].name, Routes[req[r].name])
    BY <1>2, RouteFacts
  <2>2. "tl_get" \notin Lookups /\ "tl_post" \notin Lookups
    BY DEF Lookups
  <2> QED
    BY <2>1, <2>2 DEF RouteInv
<1>6. DeniedInv(Replied(req[r], result), call[r], relayed'[r])
  BY <1>2, <1>3, <1>5, RepliedFacts DEF DeniedInv, Result
<1>7. LinksKept /\ pending' \subseteq pending \ {r}
  BY <1>1, <1>2, Types DEF LinksKept
<1>8. result = "ok" => Earned(req[r], relayed'[r], ran[r])
  BY <1>2, <1>3 DEF Earned
<1> QED
  BY <1>1, <1>2, <1>3, <1>4, <1>6, <1>7, <1>8, ReplyStep DEF Result

LEMMA LookupReturnsStep ==
    ASSUME IInv, NEW r \in Requests, LookupReturns(r)
    PROVE  IInv'
<1>1. /\ req[r].stage = "lookup" /\ Reply(r, "ok") /\ relayed' = relayed
      /\ call' = call /\ ran' = ran /\ proc' = proc /\ link' = link
      /\ advert' = advert /\ legacyTl' = legacyTl /\ pending' = pending
  BY DEF LookupReturns, peerVars
<1>2. /\ req[r] \in Handler /\ req[r].stage \in Waiting /\ req[r].name \in Own
      /\ pending \subseteq pending \ {r}
  BY <1>1, Types, NotSent DEF IInv, RequestInv, StageInv
<1>3. CallInv(req[r], call[r], relayed'[r], ran[r])
  BY <1>1 DEF IInv, RequestInv
<1>4. DeniedInv(Replied(req[r], "ok"), call[r], relayed'[r])
  BY <1>2, RepliedFacts DEF DeniedInv
<1>5. LinksKept /\ pending' \subseteq pending \ {r}
  BY <1>1, <1>2, Types DEF LinksKept
<1>6. relayed' \in [Requests -> Nat] /\ Earned(req[r], relayed'[r], ran[r])
  BY <1>1, <1>2, Types DEF Earned
<1> QED
  BY <1>1, <1>2, <1>3, <1>4, <1>5, <1>6, ReplyStep

\* The peer sends its reply, whatever the collator does with it.
LEMMA RepliesFacts ==
    ASSUME IInv, NEW r \in Requests, Replies(r)
    PROVE  /\ call' \in [Requests -> CallState]
           /\ call[r].at \in {"ok", "error"} /\ call'[r].at = "replied"
           /\ call'[r].peer = call[r].peer /\ call[r].peer \in Peers
           /\ \A d \in Requests \ {r} : call'[d] = call[d]
           /\ link[call[r].peer] = "up"
           /\ proc' = proc /\ advert' = advert /\ ran' = ran
           /\ CallInv(req[r], call'[r], relayed[r], ran[r])
           /\ RequestInv(req[r], call'[r], relayed[r], ran[r])
           /\ IdInv(r, req[r], call[r]) /\ IdInv(r, req[r], call'[r])
<1>1. /\ call' = [call EXCEPT ![r].at = "replied"]
      /\ call[r].at \in {"ok", "error"}
      /\ link[call[r].peer] = "up"
      /\ proc' = proc /\ advert' = advert /\ ran' = ran
  BY DEF Replies
<1>2. /\ call' \in [Requests -> CallState]
      /\ call'[r].at = "replied" /\ call'[r].peer = call[r].peer
      /\ \A d \in Requests \ {r} : call'[d] = call[d]
  BY <1>1, Types DEF CallState
<1>3. RequestInv(req[r], call[r], relayed[r], ran[r])
  BY DEF IInv
<1>4. call[r].peer \in Peers
  BY <1>1, <1>3 DEF RequestInv, CallInv
<1>5. CallInv(req[r], call'[r], relayed[r], ran[r])
  BY <1>1, <1>2, <1>3 DEF RequestInv, CallInv
<1>6. RequestInv(req[r], call'[r], relayed[r], ran[r])
  BY <1>1, <1>2, <1>3, <1>5 DEF RequestInv, StageInv, DeniedInv
<1>7. IdInv(r, req[r], call[r]) /\ IdInv(r, req[r], call'[r])
  BY <1>1, <1>2 DEF IInv, IdInv
<1> QED
  BY <1>1, <1>2, <1>4, <1>5, <1>6, <1>7

\* Calls of the table end, by an answer or with the link of their peer.
LEMMA EndedStep ==
    ASSUME IInv, NEW S \in SUBSET pending, NEW reply \in {"ok", "error"}, Ended(S, reply),
           call' \in [Requests -> CallState],
           \A d \in Requests : /\ RequestInv(req[d], call'[d], relayed[d], ran[d])
                              /\ IdInv(d, req[d], call'[d])
                              /\ call'[d].peer = call[d].peer,
           relayed' = relayed, ran' = ran, proc' = proc, legacyTl' = legacyTl,
           link' \in [Peers -> {"none", "signaling", "up", "deaf", "gone"}],
           advert' \in [Peers -> {"none", "fresh", "stale"}],
           \A p \in Peers : advert'[p] # "none" => link'[p] \in {"up", "deaf"},
           \A p \in Peers : proc[p] \in {"new", "dialing"} => link'[p] = "none",
           \A d \in pending \ S : link'[call[d].peer] = link[call[d].peer],
           reply = "ok" => \A d \in S : Done(d)
    PROVE  IInv'
<1>1. /\ req' = [d \in Requests |-> IF d \in S
                                    THEN [req[d] EXCEPT !.stage = "replied", !.reply = reply]
                                    ELSE req[d]]
      /\ pending' = pending \ S
  BY DEF Ended
<1>2. /\ \A d \in Requests : d \in S => req'[d] = Replied(req[d], reply)
      /\ \A d \in Requests : d \notin S => req'[d] = req[d]
  BY <1>1 DEF Replied
<1>3. \A d \in S : d \in Requests /\ req[d].stage = "routed"
  BY DEF IInv, TypeOK
<1>4. ASSUME NEW d \in Requests
      PROVE  /\ req'[d] \in Handler
             /\ req'[d].name = req[d].name /\ req'[d].method = req[d].method
             /\ req'[d].id = req[d].id
             /\ d \in S => req'[d].stage = "replied" /\ req'[d].reply = reply
             /\ d \notin S => req'[d] = req[d]
  BY <1>2, Types, RepliedFacts
<1>5. req' \in [Requests -> Handler]
  BY <1>1, <1>4
<1>6. ASSUME NEW d \in Requests
      PROVE  /\ RequestInv(req'[d], call'[d], relayed[d], ran[d])
             /\ IdInv(d, req'[d], call'[d])
  <2>1. RequestInv(req[d], call'[d], relayed[d], ran[d]) /\ IdInv(d, req[d], call'[d])
    OBVIOUS
  <2>2. CASE d \in S
    <3> DEFINE q == req'[d]
    <3>1. /\ q.name = req[d].name /\ q.method = req[d].method /\ q.id = req[d].id
          /\ q.stage = "replied" /\ q.reply \in {"ok", "error"}
          /\ req[d].stage = "routed"
      BY <1>3, <1>4, <2>2
    <3> HIDE DEF q
    <3>2. StageInv(q, call'[d], relayed[d])
      BY <2>1, <3>1 DEF RequestInv, StageInv
    <3>3. CallInv(q, call'[d], relayed[d], ran[d])
      BY <2>1, <3>1 DEF RequestInv, CallInv, MethodsAsked
    <3>4. DeniedInv(q, call'[d], relayed[d])
      BY <3>1 DEF DeniedInv
    <3>5. IdInv(d, q, call'[d])
      BY <2>1, <3>1 DEF IdInv
    <3> QED
      BY <3>2, <3>3, <3>4, <3>5 DEF RequestInv, q
  <2>3. CASE d \notin S
    BY <1>4, <2>1, <2>3
  <2> QED
    BY <2>2, <2>3
<1>7. ASSUME NEW d \in Requests, req'[d].stage = "routed"
      PROVE  call'[d].at \in {"asked", "ok", "error", "replied"}
  <2>1. call'[d] \in CallState /\ call'[d].at # "none"
    BY <1>6, <1>7 DEF IdInv
  <2> QED
    BY <2>1 DEF CallState
<1>8. ASSUME NEW d \in pending'
      PROVE  /\ req'[d].stage = "routed"
             /\ link'[call'[d].peer] \in {"up", "deaf"}
             /\ \A s \in pending' \ {d} : req'[s].id # req'[d].id
  <2>1. d \in pending /\ d \in Requests /\ d \notin S
    BY <1>1, Types
  <2>2. /\ req[d].stage = "routed" /\ link[call[d].peer] \in {"up", "deaf"}
        /\ \A s \in pending \ {d} : req[s].id # req[d].id
    BY <2>1 DEF IInv, TypeOK
  <2>3. \A s \in pending' : s \in pending /\ s \in Requests
    BY <1>1, Types
  <2> QED
    BY <1>4, <2>1, <2>2, <2>3
<1>9. TypeOK'
  BY <1>1, <1>5, <1>7, <1>8, Types
  DEF TypeOK, PeerTypeOK, Handler, CallState, Requests
<1>10. ASSUME NEW d \in Requests, req'[d].reply = "ok"
       PROVE  Done(d)'
  <2>1. Done(d)
    <3>1. CASE d \in S
      BY <1>4, <1>10, <3>1
    <3>2. CASE d \notin S
      BY <1>4, <1>10, <3>2 DEF IInv
    <3> QED
      BY <3>1, <3>2
  <2>2. /\ relayed' \in [Requests -> Nat] /\ ran' \in [Requests -> Nat]
        /\ \A e \in Requests : ran'[e] >= ran[e]
        /\ relayed'[d] >= relayed[d]
    BY Types
  <2>3. DoneStays(d)
    BY <1>4, <2>2 DEF DoneStays
  <2>4. \A e \in Requests : req[e].id # NoId => req'[e].id = req[e].id
    BY <1>4
  <2> QED
    BY <2>1, <2>2, <2>3, <2>4, DoneKept
<1> QED
  BY <1>6, <1>9, <1>10 DEF IInv

LEMMA SettleStep ==
    ASSUME IInv, NEW r \in Requests, Settle(r)
    PROVE  IInv'
<1> DEFINE S == Entry(req[r].id)
<1>1. /\ Replies(r) /\ Ended(S, call[r].at)
      /\ link' = link /\ legacyTl' = legacyTl /\ relayed' = relayed
  BY DEF Settle
<1>2. /\ call' \in [Requests -> CallState] /\ call[r].at \in {"ok", "error"}
      /\ call'[r].peer = call[r].peer
      /\ \A d \in Requests \ {r} : call'[d] = call[d]
      /\ proc' = proc /\ advert' = advert /\ ran' = ran
      /\ RequestInv(req[r], call'[r], relayed[r], ran[r])
      /\ IdInv(r, req[r], call[r]) /\ IdInv(r, req[r], call'[r])
  BY <1>1, RepliesFacts
<1>3. S \subseteq pending /\ \A d \in S : d \in Requests /\ req[d].id = req[r].id
  BY Types DEF Entry
<1>4. ASSUME NEW d \in Requests
      PROVE  /\ RequestInv(req[d], call'[d], relayed[d], ran[d])
             /\ IdInv(d, req[d], call'[d])
             /\ call'[d].peer = call[d].peer
  <2>1. CASE d = r
    BY <1>2, <2>1
  <2>2. CASE d # r
    BY <1>2, <2>2 DEF IInv
  <2> QED
    BY <2>1, <2>2
<1>5. ASSUME call[r].at = "ok", NEW d \in S
      PROVE  Done(d)
  <2>1. ran[r] = 1 /\ relayed[r] \in Nat /\ req[r].id # NoId
    BY <1>2, <1>5, Types DEF IInv, RequestInv, CallInv, IdInv
  <2>2. CASE d = r
    <3>1. Executions(d) >= 1
      BY <2>1, <2>2 DEF Executions
    <3> QED
      BY <3>1 DEF Done
  <2>3. CASE d # r
    <3>1. IdInv(d, req[d], call[d]) /\ req[d].id = req[r].id
      BY <1>3 DEF IInv
    <3>2. req[d].id \in {d} \cup Ids /\ req[d].id \in {r} \cup Ids
      BY <1>2, <2>1, <3>1 DEF IdInv
    <3>3. req[d].id \in Ids
      BY <2>3, <3>2
    <3>4. req[d].name = "rpc_route"
      BY <3>1, <3>3 DEF IdInv
    <3> QED
      BY <2>1, <2>3, <3>1, <3>3, <3>4 DEF Done
  <2> QED
    BY <2>2, <2>3
<1>6. /\ \A p \in Peers : advert'[p] # "none" => link'[p] \in {"up", "deaf"}
      /\ \A p \in Peers : proc[p] \in {"new", "dialing"} => link'[p] = "none"
      /\ link' \in [Peers -> {"none", "signaling", "up", "deaf", "gone"}]
      /\ advert' \in [Peers -> {"none", "fresh", "stale"}]
  BY <1>1, <1>2, Types DEF IInv, TypeOK
<1>7. \A d \in pending \ S : link'[call[d].peer] = link[call[d].peer]
  BY <1>1
<1> HIDE DEF S
<1> QED
  BY <1>1, <1>2, <1>3, <1>4, <1>5, <1>6, <1>7, EndedStep

LEMMA TooLargeStep ==
    ASSUME IInv, NEW r \in Requests, TooLarge(r)
    PROVE  IInv'
<1>1. /\ Replies(r) /\ link' = [link EXCEPT ![call[r].peer] = "deaf"]
      /\ legacyTl' = legacyTl /\ relayed' = relayed /\ req' = req /\ pending' = pending
  BY DEF TooLarge
<1>2. LinksKept
  BY <1>1, Types, RepliesFacts DEF LinksKept
<1>3. ran' = ran /\ ran \in [Requests -> Nat] /\ call'[r].peer = call[r].peer
  BY <1>1, Types, RepliesFacts
<1>4. r \in pending =>
         /\ req[r].stage = "routed" /\ link[call[r].peer] \in {"up", "deaf"}
         /\ \A s \in pending \ {r} : req[s].id # req[r].id
  BY DEF IInv, TypeOK
<1>5. ran'[r] >= ran[r] /\ DoneStays(r)
  BY <1>1, <1>3, Types DEF DoneStays
<1>6. RequestInv(req'[r], call'[r], relayed'[r], ran'[r]) /\ IdInv(r, req'[r], call'[r])
  BY <1>1, <1>3, RepliesFacts
<1>7. req'[r].reply = "ok" => req[r].reply = "ok" /\ DoneStays(r)
  BY <1>1, <1>5
<1>8. /\ call' \in [Requests -> CallState] /\ \A d \in Requests \ {r} : call'[d] = call[d]
  BY <1>1, RepliesFacts
<1> QED
  BY <1>1, <1>2, <1>3, <1>4, <1>5, <1>6, <1>7, <1>8, Types, HandlerStep

LEMMA TimeoutStep ==
    ASSUME IInv, NEW r \in Requests, Timeout(r)
    PROVE  IInv'
<1>1. /\ req[r].stage = "routed" /\ Reply(r, "error")
      /\ advert' = [advert EXCEPT ![call[r].peer] = "none"]
      /\ pending' = pending \ Entry(req[r].id)
      /\ proc' = proc /\ link' = link /\ call' = call /\ ran' = ran
      /\ legacyTl' = legacyTl /\ relayed' = relayed
  BY DEF Timeout
<1>2. LinksKept
  BY <1>1, Types DEF LinksKept
<1>3. req[r] \in Handler /\ req[r].stage \in Waiting
  BY <1>1, Types DEF Waiting
<1>4. CallInv(req[r], call[r], relayed'[r], ran[r])
  BY <1>1 DEF IInv, RequestInv
<1>5. DeniedInv(Replied(req[r], "error"), call[r], relayed'[r])
  BY <1>3, RepliedFacts DEF DeniedInv
<1>6. relayed' \in [Requests -> Nat] /\ pending' \subseteq pending \ {r}
  BY <1>1, Types DEF Entry
<1> QED
  BY <1>1, <1>2, <1>3, <1>4, <1>5, <1>6, ReplyStep

LEMMA ServedStep ==
    ASSUME IInv, NEW r \in Requests, Served(r)
    PROVE  IInv'
<1>1. /\ call[r].at = "asked" /\ (Posted(r, "ok") \/ Posted(r, "error"))
      /\ proc' = proc /\ link' = link /\ advert' = advert
      /\ legacyTl' = legacyTl /\ req' = req /\ relayed' = relayed /\ pending' = pending
  BY DEF Served, CallUpstream
<1>2. ran[r] = 0 /\ ran \in [Requests -> Nat] /\ call \in [Requests -> CallState]
  BY <1>1, Types DEF IInv, RequestInv, CallInv
<1>3. PICK at \in {"ok", "error"} :
          /\ call' = [call EXCEPT ![r].at = at]
          /\ ran' = [ran EXCEPT ![r] = @ + 1] \/ (at = "error" /\ ran' = ran)
  BY <1>1 DEF Posted
<1>4. /\ call' \in [Requests -> CallState]
      /\ call'[r].at = at /\ call'[r].peer = call[r].peer
      /\ \A d \in Requests \ {r} : call'[d] = call[d]
  BY <1>2, <1>3 DEF CallState
<1>5. /\ ran' \in [Requests -> Nat]
      /\ ran'[r] \in 0 .. 1 /\ (at = "ok" => ran'[r] = 1)
      /\ \A d \in Requests \ {r} : ran'[d] = ran[d]
  BY <1>2, <1>3
<1>6. RequestInv(req[r], call[r], relayed[r], ran[r])
  BY DEF IInv
<1>7. relayed[r] \in Nat
  BY Types
<1>8. CallInv(req[r], call'[r], relayed[r], ran'[r])
  BY <1>1, <1>4, <1>5, <1>6 DEF RequestInv, CallInv
<1>9. DeniedInv(req[r], call'[r], relayed[r])
  BY <1>1, <1>6 DEF RequestInv, DeniedInv
<1>10. StageInv(req[r], call'[r], relayed[r])
  BY <1>1, <1>6 DEF RequestInv, StageInv
<1>11. RequestInv(req'[r], call'[r], relayed'[r], ran'[r])
  BY <1>1, <1>8, <1>9, <1>10 DEF RequestInv
<1>12. IdInv(r, req'[r], call'[r])
  BY <1>1, <1>4 DEF IInv, IdInv
<1>13. LinksKept
  BY <1>1, Types DEF LinksKept
<1>14. r \in pending' =>
          /\ req'[r].stage = "routed" /\ link[call'[r].peer] \in {"up", "deaf"}
          /\ \A s \in pending' \ {r} : req[s].id # req'[r].id
  BY <1>1, <1>4 DEF IInv, TypeOK
<1>15. ran'[r] >= ran[r] /\ pending' \subseteq pending \cup {r}
  BY <1>1, <1>2, <1>5
<1>16. req'[r].reply = "ok" => req[r].reply = "ok" /\ DoneStays(r)
  BY <1>1, <1>7 DEF DoneStays
<1>17. relayed' \in [Requests -> Nat] /\ req' \in [Requests -> Handler]
  BY <1>1, Types
<1> QED
  BY <1>1, <1>4, <1>5, <1>11, <1>12, <1>13, <1>14, <1>15, <1>16, <1>17, HandlerStep

LEMMA SocketLostStep ==
    ASSUME IInv, NEW p \in Peers, SocketLost(p)
    PROVE  IInv'
<1> DEFINE S == CallsAt(p)
<1>1. /\ link[p] \in {"signaling", "up", "deaf"}
      /\ link' = [link EXCEPT ![p] = "gone"]
      /\ advert' = [advert EXCEPT ![p] = "none"]
      /\ Ended(S, "error")
      /\ proc' = proc /\ call' = call /\ ran' = ran
      /\ legacyTl' = legacyTl /\ relayed' = relayed
  BY DEF SocketLost
<1>2. S \in SUBSET pending
  BY DEF CallsAt
<1>3. ASSUME NEW d \in pending \ S
      PROVE  link'[call[d].peer] = link[call[d].peer]
  <2>1. call[d].peer # p
    BY <1>3 DEF CallsAt
  <2>2. d \in Requests /\ call[d].peer \in Peers
    BY <1>3, Types DEF IInv, TypeOK, RequestInv, CallInv, IdInv
  <2> QED
    BY <1>1, <2>1, <2>2, Types
<1>4. /\ link' \in [Peers -> {"none", "signaling", "up", "deaf", "gone"}]
      /\ advert' \in [Peers -> {"none", "fresh", "stale"}]
      /\ \A x \in Peers : advert'[x] # "none" => link'[x] \in {"up", "deaf"}
      /\ \A x \in Peers : proc[x] \in {"new", "dialing"} => link'[x] = "none"
  BY <1>1, Types DEF IInv, TypeOK
<1>5. /\ call' \in [Requests -> CallState]
      /\ \A d \in Requests : /\ RequestInv(req[d], call'[d], relayed[d], ran[d])
                             /\ IdInv(d, req[d], call'[d])
                             /\ call'[d].peer = call[d].peer
  BY <1>1, Types DEF IInv
<1> HIDE DEF S
<1> QED
  BY <1>1, <1>2, <1>3, <1>4, <1>5, EndedStep

LEMMA PeerSteps ==
    ASSUME IInv, NEW p \in Peers, PeerStep(p)
    PROVE  IInv'
<1>1. UNCHANGED <<req, call, relayed, ran, legacyTl, pending>>
  BY DEF PeerStep, Launch, Dialed, ChannelOpens, Heartbeat, GivesUp, Shutdown, Dies,
         GoesStale, ChannelLost
<1>2. /\ \A x \in Peers : proc[x] \in {"new", "dialing"} => link[x] = "none"
      /\ \A x \in Peers : advert[x] # "none" => link[x] \in {"up", "deaf"}
  BY DEF IInv, TypeOK
<1>3. CASE Launch(p)
  BY <1>1, <1>2, <1>3, Types, LinkStep DEF Launch
<1>4. CASE Dialed(p)
  BY <1>1, <1>2, <1>4, Types, LinkStep DEF Dialed
<1>5. CASE ChannelOpens(p)
  BY <1>1, <1>2, <1>5, Types, LinkStep DEF ChannelOpens, Advertised
<1>6. CASE Heartbeat(p)
  BY <1>1, <1>2, <1>6, Types, LinkStep DEF Heartbeat, Advertised
<1>7. CASE GivesUp(p) \/ Shutdown(p) \/ Dies(p)
  BY <1>1, <1>2, <1>7, Types, LinkStep DEF GivesUp, Shutdown, Dies
<1>8. CASE GoesStale(p)
  BY <1>1, <1>2, <1>8, Types, LinkStep DEF GoesStale
<1>9. CASE ChannelLost(p)
  BY <1>1, <1>2, <1>9, Types, LinkStep DEF ChannelLost
<1> QED
  BY <1>3, <1>4, <1>5, <1>6, <1>7, <1>8, <1>9 DEF PeerStep

LEMMA ListedStep ==
    ASSUME IInv, Listed
    PROVE  IInv'
<1>1. /\ advert' = Pruned /\ UNCHANGED <<proc, link, legacyTl>>
      /\ UNCHANGED <<req, call, relayed, ran, legacyTl, pending>>
      /\ proc' = proc /\ link' = link
  BY DEF Listed, ListProviders
<1>2. LinksKept
  BY <1>1, PrunedKept
<1> QED
  BY <1>1, <1>2, Types, LinkStep DEF LinksKept, IInv, TypeOK

----------------------------------------------------------------------------
(* The invariant. *)

LEMMA InitInv == Init => IInv
<1> SUFFICES ASSUME Init
             PROVE  IInv
  OBVIOUS
<1>1. /\ proc = [p \in Peers |-> "new"] /\ link = [p \in Peers |-> "none"]
      /\ advert = [p \in Peers |-> "none"]
      /\ call = [c \in Requests |-> [peer |-> NoPeer, at |-> "none"]]
      /\ ran = [c \in Requests |-> 0]
      /\ legacyTl \in LegacyTl
      /\ req = [r \in Requests |-> NoRequest]
      /\ relayed = [r \in Requests |-> 0] /\ pending = {}
  BY DEF Init, PeerInit, Requests
<1>2. NoRequest \in Handler
  BY DEF NoRequest, Handler
<1>3. [peer |-> NoPeer, at |-> "none"] \in CallState
  BY DEF CallState
<1>4. /\ req \in [Requests -> Handler] /\ call \in [Requests -> CallState]
      /\ relayed \in [Requests -> Nat] /\ ran \in [Requests -> Nat]
  BY <1>1, <1>2, <1>3
<1>5. NoRequest.stage = "new" /\ NoRequest.reply = "none" /\ NoRequest.id = NoId
  BY DEF NoRequest
<1>6. TypeOK
  BY <1>1, <1>4, <1>5 DEF TypeOK, PeerTypeOK, Handler, CallState, Requests
<1>7. ASSUME NEW r \in Requests
      PROVE  RequestInv(req[r], call[r], relayed[r], ran[r])
  <2>1. /\ req[r] = NoRequest /\ call[r].at = "none" /\ relayed[r] = 0 /\ ran[r] = 0
    BY <1>1
  <2> QED
    BY <1>5, <2>1 DEF RequestInv, StageInv, CallInv, DeniedInv
<1>8. ASSUME NEW r \in Requests
      PROVE  IdInv(r, req[r], call[r]) /\ req[r].reply # "ok"
  <2>1. req[r] = NoRequest /\ call[r].at = "none"
    BY <1>1
  <2> QED
    BY <1>5, <2>1, GatewayAssumption DEF IdInv
<1> QED
  BY <1>1, <1>6, <1>7, <1>8 DEF IInv

LEMMA NextInv == IInv /\ [Next]_vars => IInv'
<1> SUFFICES ASSUME IInv, [Next]_vars
             PROVE  IInv'
  OBVIOUS
<1>1. ASSUME NEW p \in Peers, PeerStep(p)
      PROVE  IInv'
  BY <1>1, PeerSteps
<1>2. ASSUME NEW p \in Peers, SocketLost(p)
      PROVE  IInv'
  BY <1>2, SocketLostStep
<1>3. ASSUME NEW r \in Requests, Asks(r)
      PROVE  IInv'
  <2>1. PICK name \in NamesOf[r], method \in AskedOf[r] \cup {"none"} :
            Receive(r, name, method)
    BY <1>3 DEF Asks
  <2>2. name \in DOMAIN Routes /\ method \in Methods \cup {"none"}
    BY GatewayAssumption
  <2> QED
    BY <2>1, <2>2, ReceiveStep
<1>4. ASSUME NEW r \in Requests, Returns(r)
      PROVE  IInv'
  BY <1>4, BodyReadStep, LookupReturnsStep, TimeoutStep, RelayerReturnsStep,
     ProxyReturnsStep DEF Returns
<1>5. ASSUME NEW r \in Requests, Served(r) \/ Settle(r) \/ TooLarge(r)
      PROVE  IInv'
  BY <1>5, ServedStep, SettleStep, TooLargeStep
<1>6. CASE Listed
  BY <1>6, ListedStep
<1>7. CASE UNCHANGED vars
  <2>1. /\ UNCHANGED <<req, call, relayed, ran, legacyTl, pending>>
        /\ proc' = proc /\ link' = link /\ advert' = advert
    BY <1>7 DEF vars, peerVars
  <2> QED
    BY <2>1, Types, LinkStep DEF IInv, TypeOK
<1> QED
  BY <1>1, <1>2, <1>3, <1>4, <1>5, <1>6, <1>7 DEF Next

LEMMA Invariance == Spec => []IInv
BY InitInv, NextInv, PTL DEF Spec

\* Every state variable of a reachable state has its type; an id finds at most one
\* call, which waits at a peer whose websocket is open; and only such peers are listed.
THEOREM TypeCorrect == Spec => []TypeOK
BY Invariance, PTL DEF IInv

\* Whoever of the relayer and the peers is lost, at whatever await, and whatever ids
\* come by /rpc/route: "ok" means that the request was executed, or another of those
\* that brought its id; one that is told "denied" was executed at most by a relayer
\* whose answer was lost, on a route that ends behind it; a request that changes
\* something is executed at most once; and no peer executes a method that is not public.
THEOREM RepliesTellTheTruth == Spec => []ExecutedAsTold
<1>1. IInv => ExecutedAsTold
  <2> SUFFICES ASSUME IInv, NEW r \in Requests
               PROVE  LET name == req[r].name IN
                      /\ req[r].reply = "ok" => Done(r)
                      /\ Executions(r) <= 1 \/ name \in Lookups
                      /\ ran[r] > 0 =>
                            {req[r].method, Routes[name].next} \cap PublicMethods # {}
                      /\ req[r].reply = "denied" /\ Executions(r) > 0
                             => Routes[name].relayed /\ Routes[name].next # "pass"
    BY DEF ExecutedAsTold
  <2>1. /\ relayed[r] \in Nat /\ ran[r] \in Nat
        /\ CallInv(req[r], call[r], relayed[r], ran[r])
        /\ DeniedInv(req[r], call[r], relayed[r])
    BY Types DEF IInv, RequestInv
  <2>2. /\ call[r].at = "none" => ran[r] = 0
        /\ call[r].at # "none" /\ req[r].name \notin Lookups => relayed[r] = 0
        /\ ran[r] <= 1 /\ (relayed[r] <= 1 \/ req[r].name \in Lookups)
    BY <2>1 DEF CallInv
  <2>3. Executions(r) <= 1 \/ req[r].name \in Lookups
    BY <2>1, <2>2 DEF Executions
  <2>4. ran[r] > 0 => MethodsAsked(req[r]) \cap PublicMethods # {}
    BY <2>1, <2>2 DEF CallInv
  <2>5. req[r].reply = "denied" /\ Executions(r) > 0
           => Routes[req[r].name].relayed /\ Routes[req[r].name].next # "pass"
    BY <2>1, <2>2 DEF DeniedInv, Executions
  <2>6. req[r].reply = "ok" => Done(r)
    BY DEF IInv
  <2> QED
    BY <2>3, <2>4, <2>5, <2>6 DEF MethodsAsked
<1> QED
  BY <1>1, Invariance, PTL

================================================================================
