-------------------------------- MODULE Gateway --------------------------------
(***************************************************************************)
(* The HTTP gateway of the collator (index.ts): a request goes to the      *)
(* legacy relayer, to a provider of routed RPC, or to one after the other, *)
(* and its reply says what came of it.                                     *)
(*                                                                         *)
(* A handler stops at its awaits: the request's body, a call of the        *)
(* relayer, a routed call, an IP lookup.  Requests share the providers and *)
(* the table of open calls, where a call is found by its id: a random one, *)
(* but /rpc/route keeps the id in the client's body, and two requests may  *)
(* bring the same.                                                         *)
(*                                                                         *)
(* Every session here is a process of FullNodePeer, which answers what it  *)
(* is asked.  Sessions that make calls, or answer under ids of others, are *)
(* RpcRouter's subject.                                                    *)
(*                                                                         *)
(* External: the relayer executes what it is sent, or not, and its answer  *)
(* may be lost; fetch gives up after a time of its own.                    *)
(*                                                                         *)
(* A reply is "ok" below 400, "denied" below 500, or "error".  A path      *)
(* without its parameter, headers and CORS are left out.                   *)
(***************************************************************************)
EXTENDS FullNodePeer

CONSTANTS
    NamesOf,       \* the routes a request may ask for
    AskedOf,       \* the methods it may name to the RPC routes
    LegacyTl,      \* the possible settings of TL_COLLATOR_ENABLE_LEGACY_TL_PROXY
    Ids,           \* ids a client may give in the body of /rpc/route, ...
    IdsOf,         \* ... which of them a request may have, or itself for a random id
    NoId

Requests == Calls

\* What a route does: whether it reads a body, whether it asks the relayer, and
\* what follows if the relayer cannot: a method of routed RPC, or an end.
Route(body, relayed, next) == [body |-> body, relayed |-> relayed, next |-> next]

SystemRoutes ==
    [attestation_ip |-> Route(FALSE, TRUE, "lookup"),
     tl_get         |-> Route(FALSE, TRUE, "pass"),
     tl_post        |-> Route(TRUE, TRUE, "pass"),
     tl_bitvmStatus |-> Route(TRUE, FALSE, "report")]

RpcRoutes ==
    [rpc_method |-> Route(TRUE, FALSE, "asked"),
     rpc_route  |-> Route(TRUE, FALSE, "asked")]

AddressRoutes ==
    [chain_info       |-> Route(FALSE, TRUE, "getblockchaininfo"),
     address_validate |-> Route(FALSE, TRUE, "validateaddress"),
     address_balance  |-> Route(FALSE, TRUE, "tl_getallbalancesforaddress"),
     address_faucet   |-> Route(FALSE, TRUE, "sendtoaddress"),
     address_utxo     |-> Route(TRUE, TRUE, "listunspent")]

\* tx_build: buildTx and its other names, multisig, buildTradeTx, buildLTCTradeTx
\* and finalizePsbt, which fall through to the "not found" behind every route.
TxAndTokenRoutes ==
    [tx         |-> Route(FALSE, TRUE, "tl_gettransaction"),
     token_list |-> Route(FALSE, TRUE, "tl_listproperties"),
     tx_decode  |-> Route(TRUE, TRUE, "decoderawtransaction"),
     tx_sendTx  |-> Route(TRUE, TRUE, "sendrawtransaction"),
     tx_build   |-> Route(TRUE, TRUE, "not_found"),
     token      |-> Route(FALSE, TRUE, "tl_getproperty")]

Either(f, g) ==
    [x \in DOMAIN f \cup DOMAIN g |-> IF x \in DOMAIN f THEN f[x] ELSE g[x]]

Routes ==
    Either(Either(SystemRoutes, RpcRoutes), Either(AddressRoutes, TxAndTokenRoutes))

\* The routes by which nothing is changed, however often they are executed.
Lookups == {"chain_info", "address_validate", "address_balance", "tx", "tx_decode",
            "address_utxo", "token_list", "token"}

\* Answered without anybody else, or whatever the others say.
Own == {"attestation_ip", "tl_bitvmStatus"}

ASSUME GatewayAssumption ==
    /\ NamesOf \in [Requests -> SUBSET DOMAIN Routes]
    /\ AskedOf \in [Requests -> SUBSET Methods]
    /\ LegacyTl \subseteq BOOLEAN
    /\ Ids \cap Requests = {}
    /\ NoId \notin Ids \cup Requests
    /\ IdsOf \in [Requests -> SUBSET (Ids \cup Requests)]
    /\ \A r \in Requests : IdsOf[r] \subseteq Ids \cup {r}
    /\ "tl_bitvmstatus" \in PublicMethods
    \* What follows is no method, and a wallet's method is not public.
    /\ {"pass", "lookup", "report", "asked", "not_found"} \cap Methods = {}
    /\ {"sendtoaddress", "sendrawtransaction"} \cap PublicMethods = {}

VARIABLES
    legacyTl, \* whether the /tl_* routes are proxied; never changes
    req,      \* the handler of a request
    pending,  \* pendingRpc: requests whose call has its entry in the table
    relayed   \* history: executions of a request by the relayer

vars == <<peerVars, legacyTl, req, pending, relayed>>

NoRequest ==
    [name |-> "none", method |-> "none", stage |-> "new", reply |-> "none", id |-> NoId]
Waiting == {"body", "relayer", "routed", "proxied", "lookup"}

\* An id finds one entry, an entry belongs to a request that waits, at a peer whose
\* websocket is open, and so does an advertisement.
TypeOK ==
    /\ PeerTypeOK
    /\ legacyTl \in LegacyTl
    /\ req \in [Requests -> [name : DOMAIN Routes \cup {"none"},
                             method : Methods \cup {"none"},
                             stage : Waiting \cup {"new", "replied"},
                             reply : {"none", "ok", "denied", "error"},
                             id : Ids \cup Requests \cup {NoId}]]
    /\ pending \subseteq Requests
    /\ relayed \in [Requests -> Nat]
    /\ \A r \in Requests :
          req[r].stage = "routed" => call[r].at \in {"asked", "ok", "error", "replied"}
    /\ \A r \in pending :
          /\ req[r].stage = "routed"
          /\ link[call[r].peer] \in {"up", "deaf"}
          /\ \A s \in pending \ {r} : req[s].id # req[r].id
    /\ \A p \in Peers : advert[p] # "none" => link[p] \in {"up", "deaf"}

Init ==
    /\ PeerInit
    /\ legacyTl \in LegacyTl
    /\ req = [r \in Requests |-> NoRequest]
    /\ pending = {}
    /\ relayed = [r \in Requests |-> 0]

----------------------------------------------------------------------------
(* Steps of a handler. *)

Await(r, stage) == req' = [req EXCEPT ![r].stage = stage]

Reply(r, reply) == req' = [req EXCEPT ![r].stage = "replied", ![r].reply = reply]

\* The entry an id finds in the table.
Entry(id) == {r \in pending : req[r].id = id}

\* The id of a call: /rpc/route takes the one in the body, if there is one.
IdFor(r) == IF req[r].name = "rpc_route" THEN IdsOf[r] ELSE {r}

\* routeRpcRequest, with a provider: the call is sent and its timer set.  Its entry
\* goes over one that has the id.
RouteRpcRequest(r, method) ==
    \E p \in Providers(method), id \in IdFor(r) :
        /\ call' = [call EXCEPT ![r] = [peer |-> p, at |-> "asked"]]
        /\ advert' = Pruned
        /\ req' = [req EXCEPT ![r].stage = "routed", ![r].id = id]
        /\ pending' = (pending \ Entry(id)) \cup {r}

\* routeCompatRpcRequest: without a provider the relayer is asked for the method.
RouteCompatRpcRequest(r, method) ==
    \/ /\ ~IsPublic(method)
       /\ Reply(r, "denied")
       /\ UNCHANGED <<call, advert, pending>>
    \/ /\ IsPublic(method)
       /\ RouteRpcRequest(r, method)
    \/ /\ IsPublic(method)
       /\ Providers(method) = {}
       /\ advert' = Pruned
       /\ Await(r, "proxied")
       /\ UNCHANGED <<call, pending>>

\* Up to the first await.
Receive(r, name, method) ==
    LET route == Routes[name]
    IN  /\ req[r].stage = "new"
        /\ \/ /\ \/ name \in {"tl_get", "tl_post"} /\ ~legacyTl
                 \/ name = "rpc_method" /\ ~IsPublic(method)
              /\ req' = [req EXCEPT ![r] = [name |-> name, method |-> method,
                                            stage |-> "replied", reply |-> "denied",
                                            id |-> NoId]]
           \/ /\ name \in {"tl_get", "tl_post"} => legacyTl
              /\ name = "rpc_method" => IsPublic(method)
              /\ req' = [req EXCEPT ![r] = [name |-> name, method |-> method,
                                            stage |-> IF route.body THEN "body" ELSE "relayer",
                                            reply |-> "none", id |-> NoId]]
        /\ UNCHANGED <<peerVars, legacyTl, pending, relayed>>

\* readHttpJson, and on to the next await or the end.  A body that is no JSON is
\* null, which /rpc/route alone minds.
BodyRead(r) ==
    LET name == req[r].name
        method == req[r].method
    IN  /\ req[r].stage = "body"
        /\ \/ /\ Reply(r, "error")  \* too large, or the connection is lost
              /\ UNCHANGED <<call, advert, pending>>
           \/ /\ name = "tl_bitvmStatus" \/ (name = "rpc_method" /\ method = "tl_bitvmstatus")
              /\ Reply(r, "ok")
              /\ UNCHANGED <<call, advert, pending>>
           \/ /\ name = "rpc_method" /\ method # "tl_bitvmstatus"
              /\ RouteCompatRpcRequest(r, method)
           \/ /\ name = "rpc_route"
              /\ Reply(r, "denied")  \* malformed, another service, not public
              /\ UNCHANGED <<call, advert, pending>>
           \/ /\ name = "rpc_route" /\ IsPublic(method)
              /\ RouteRpcRequest(r, method)
           \/ /\ name = "rpc_route" /\ IsPublic(method) /\ Providers(method) = {}
              /\ Reply(r, "error")
              /\ advert' = Pruned
              /\ UNCHANGED <<call, pending>>
           \/ /\ Routes[name].relayed
              /\ Await(r, "relayer")
              /\ UNCHANGED <<call, advert, pending>>
        /\ UNCHANGED <<proc, link, ran, legacyTl, relayed>>

\* proxyLegacyJson: what the relayer executes, and what fetch makes of it.
Relayed(r, result) ==
    relayed' \in CASE result = "ok"     -> {[relayed EXCEPT ![r] = @ + 1]}
                   [] result = "denied" -> {relayed}
                   [] result = "error"  -> {relayed, [relayed EXCEPT ![r] = @ + 1]}

\* The relayer could not, or its answer was lost: what the route does instead.
FallBack(r) ==
    LET next == Routes[req[r].name].next
    IN  \/ next \in Methods /\ RouteCompatRpcRequest(r, next)
        \/ /\ \/ next = "not_found" /\ Reply(r, "denied")
              \/ next = "pass" /\ Reply(r, "error")
              \/ next = "lookup" /\ Await(r, "lookup")
           /\ UNCHANGED <<call, advert, pending>>

\* The routes of the relayer, when the fetch is over.
RelayerReturns(r, result) ==
    /\ req[r].stage = "relayer"
    /\ Relayed(r, result)
    /\ \/ result # "error" /\ Reply(r, result) /\ UNCHANGED <<call, advert, pending>>
       \/ result = "error" /\ FallBack(r)
    /\ UNCHANGED <<proc, link, ran, legacyTl>>

\* POST /rpc/:method at the relayer, for want of a provider: its answer is the reply.
ProxyReturns(r, result) ==
    /\ req[r].stage = "proxied"
    /\ Relayed(r, result)
    /\ Reply(r, result)
    /\ UNCHANGED <<peerVars, legacyTl, pending>>

\* ipIntel.lookup: either way the reply is 200.
LookupReturns(r) ==
    /\ req[r].stage = "lookup"
    /\ Reply(r, "ok")
    /\ UNCHANGED <<peerVars, legacyTl, pending, relayed>>

----------------------------------------------------------------------------
(* The end of a routed call. *)

Ended(requests, reply) ==
    /\ req' = [r \in Requests |->
                  IF r \in requests
                  THEN [req[r] EXCEPT !.stage = "replied", !.reply = reply]
                  ELSE req[r]]
    /\ pending' = pending \ requests

\* Mutant: any error of a provider sends the call to the relayer as well.
SettleOrAskRelayer(r) ==
    LET settled == Entry(req[r].id)
    IN  /\ Replies(r)
        /\ UNCHANGED <<link, legacyTl, relayed>>
        /\ \/ call[r].at = "ok" /\ Ended(settled, "ok")
           \/ /\ call[r].at = "error"
              /\ req' = [s \in Requests |->
                            IF s \in settled THEN [req[s] EXCEPT !.stage = "proxied"]
                            ELSE req[s]]
              /\ pending' = pending \ settled

\* settleRpcResponse: the answer ends whichever request has the id by now, or none.
Settle(r) ==
    /\ Replies(r)
    /\ Ended(Entry(req[r].id), call[r].at)
    /\ UNCHANGED <<link, legacyTl, relayed>>

\* A reply above MAX_MSG_BYTES: the channel is closed and the call stays open.
TooLarge(r) ==
    /\ Replies(r)
    /\ link' = [link EXCEPT ![call[r].peer] = "deaf"]
    /\ UNCHANGED <<legacyTl, req, pending, relayed>>

\* Mutant: the provider is dropped, and the promise not rejected.
TimeoutEvictsOnly(r) ==
    /\ req[r].stage = "routed"
    /\ advert[call[r].peer] # "none"
    /\ advert' = [advert EXCEPT ![call[r].peer] = "none"]
    /\ pending' = pending \ Entry(req[r].id)
    /\ UNCHANGED <<proc, link, call, ran, legacyTl, req, relayed>>

\* The timer of a routed call: whatever entry has its id goes, the provider is
\* dropped from the list, and the promise rejected, which nothing but the request
\* handler's catch sees.
Timeout(r) ==
    /\ req[r].stage = "routed"
    /\ pending' = pending \ Entry(req[r].id)
    /\ advert' = [advert EXCEPT ![call[r].peer] = "none"]
    /\ Reply(r, "error")
    /\ UNCHANGED <<proc, link, call, ran, legacyTl, relayed>>

CallsAt(p) == {r \in pending : call[r].peer = p}

\* Mutant: a closed session stays on the list of providers.
SocketLostKeepsAdvert(p) ==
    /\ link[p] \in {"signaling", "up", "deaf"}
    /\ link' = [link EXCEPT ![p] = "gone"]
    /\ Ended(CallsAt(p), "error")
    /\ UNCHANGED <<proc, advert, call, ran, legacyTl, relayed>>

\* cleanup: the promises of the peer's calls in the table are rejected.  A call that
\* lost its entry to another with its id waits on for its timer.
SocketLost(p) ==
    /\ link[p] \in {"signaling", "up", "deaf"}
    /\ link' = [link EXCEPT ![p] = "gone"]
    /\ advert' = [advert EXCEPT ![p] = "none"]
    /\ Ended(CallsAt(p), "error")
    /\ UNCHANGED <<proc, call, ran, legacyTl, relayed>>

----------------------------------------------------------------------------

\* What the peers do while the gateway stands still.
PeerStep(p) ==
    /\ \/ Launch(p) \/ Dialed(p) \/ ChannelOpens(p) \/ Heartbeat(p)
       \/ GivesUp(p) \/ Shutdown(p) \/ Dies(p) \/ GoesStale(p) \/ ChannelLost(p)
    /\ UNCHANGED <<legacyTl, req, pending, relayed>>

Served(c) == CallUpstream(c) /\ UNCHANGED <<legacyTl, req, pending, relayed>>
Listed == ListProviders /\ UNCHANGED <<legacyTl, req, pending, relayed>>

Result == {"ok", "denied", "error"}

\* A handler goes on from its await.
Returns(r) ==
    \/ BodyRead(r) \/ LookupReturns(r) \/ Timeout(r)
    \/ \E result \in Result : RelayerReturns(r, result)
    \/ \E result \in Result : ProxyReturns(r, result)

\* The routes of a request, and for the RPC routes the method it names.
Asks(r) ==
    \E name \in NamesOf[r], method \in AskedOf[r] \cup {"none"} :
        /\ method = "none" <=> Routes[name].next # "asked"
        /\ Receive(r, name, method)

Next ==
    \/ \E p \in Peers : PeerStep(p) \/ SocketLost(p)
    \/ \E r \in Requests :
          \/ Asks(r) \/ Returns(r)
          \/ Served(r) \/ Settle(r) \/ TooLarge(r)
    \/ Listed

Spec == Init /\ [][Next]_vars

\* Node ends a body that does not come, fetch a call without an answer and a timer
\* a routed call.  A process dials, opens and beats by timers of its own, and
\* learns in the end of a link that is lost.
FairSpec ==
    /\ Spec
    /\ \A r \in Requests : WF_vars(Returns(r))
    /\ \A p \in Peers :
          /\ WF_vars(GivesUp(p) /\ UNCHANGED <<legacyTl, req, pending, relayed>>)
          /\ WF_vars(Heartbeat(p) /\ UNCHANGED <<legacyTl, req, pending, relayed>>)
          /\ WF_vars(Shutdown(p) /\ UNCHANGED <<legacyTl, req, pending, relayed>>)

----------------------------------------------------------------------------
(* Properties. *)

Executions(r) == relayed[r] + ran[r]

\* What "ok" rests on: the request was executed, or has an answer of the collator's
\* own, or took its id from its body and got the answer to another that brought it.
Done(r) ==
    LET name == req[r].name
    IN  \/ Executions(r) >= 1
        \/ name \in Own
        \/ name = "rpc_method" /\ req[r].method = "tl_bitvmstatus"
        \/ /\ name = "rpc_route" /\ req[r].id \in Ids
           /\ \E s \in Requests \ {r} : req[s].id = req[r].id /\ ran[s] >= 1

\* Who is told "ok" had the request done; one that changes something is executed at
\* most once, by the relayer or by a provider, whichever of them was lost on the way;
\* no provider executes a method that is not public; and only a relayer route that
\* ends behind the relayer says "denied" of what was executed.
ExecutedAsTold ==
    \A r \in Requests :
        LET name == req[r].name IN
        /\ req[r].reply = "ok" => Done(r)
        /\ Executions(r) <= 1 \/ name \in Lookups
        /\ ran[r] > 0 => {req[r].method, Routes[name].next} \cap PublicMethods # {}
        /\ req[r].reply = "denied" /\ Executions(r) > 0
               => Routes[name].relayed /\ Routes[name].next # "pass"

\* Every request is replied to: whatever the body, the relayer, the provider and
\* its link do, some timer or closing ends each await.
RequestsAnswered ==
    \A r \in Requests : req[r].stage \in Waiting ~> req[r].stage = "replied"

\* A process that is started serves or exits: it does not hang in its start, and
\* if it was dropped from the list by a timeout or for want of heartbeats it is on
\* it again, unless it has lost its link.
PeersServe ==
    \A p \in Peers :
        proc[p] # "new" /\ MethodsOf[p] \cap PublicMethods # {}
            ~> proc[p] = "exited" \/ (proc[p] = "serving" /\ advert[p] = "fresh")

================================================================================
