----------------------------- MODULE FullNodePeer -----------------------------
(***************************************************************************)
(* A provider of routed RPC, scripts/fullnode-rpc-peer.cjs, and what the   *)
(* collator (index.ts) holds of it: the link and the advertisement.        *)
(*                                                                         *)
(* A process connects once, serves until its link is lost and exits; a     *)
(* restart is another process.  It makes one call upstream for a request,  *)
(* with no timeout, and sends one reply.                                   *)
(*                                                                         *)
(* External: the network, which loses a link at any time, and the full     *)
(* node.  The two ends of a link learn of its loss at different times.     *)
(*                                                                         *)
(* A call is named for the gateway's request it belongs to.  Its method    *)
(* decides only whether it is public: the paths and parameters of the full *)
(* node's API are left out.                                                *)
(***************************************************************************)
EXTENDS Naturals, FiniteSets

CONSTANTS
    Peers,         \* processes
    Calls,
    Methods,
    PublicMethods, \* PUBLIC_RPC_METHODS
    MethodsOf,     \* RPC_METHODS_JSON of a process
    NoPeer

ASSUME PeerAssumption ==
    /\ PublicMethods \subseteq Methods
    /\ MethodsOf \in [Peers -> SUBSET Methods]
    /\ NoPeer \notin Peers

VARIABLES
    proc,   \* a process
    link,   \* its session at the collator; deaf without a channel
    advert, \* its advertisement at the collator
    call,   \* a call: the peer asked, and how it stands there
    ran     \* history: executions of a call by a peer's full node

peerVars == <<proc, link, advert, call, ran>>

PeerTypeOK ==
    /\ proc \in [Peers -> {"new", "dialing", "opening", "serving", "exited"}]
    /\ link \in [Peers -> {"none", "signaling", "up", "deaf", "gone"}]
    /\ advert \in [Peers -> {"none", "fresh", "stale"}]
    /\ call \in [Calls -> [peer : Peers \cup {NoPeer},
                           at : {"none", "asked", "ok", "error", "replied"}]]
    /\ ran \in [Calls -> Nat]

PeerInit ==
    /\ proc = [p \in Peers |-> "new"]
    /\ link = [p \in Peers |-> "none"]
    /\ advert = [p \in Peers |-> "none"]
    /\ call = [c \in Calls |-> [peer |-> NoPeer, at |-> "none"]]
    /\ ran = [c \in Calls |-> 0]

----------------------------------------------------------------------------
(* The life of a process. *)

Launch(p) ==
    /\ proc[p] = "new"
    /\ proc' = [proc EXCEPT ![p] = "dialing"]
    /\ UNCHANGED <<link, advert, call, ran>>

\* The websocket opens: SIGNAL_HELLO and the offer are sent.
Dialed(p) ==
    /\ proc[p] = "dialing"
    /\ proc' = [proc EXCEPT ![p] = "opening"]
    /\ link' = [link EXCEPT ![p] = "signaling"]
    /\ UNCHANGED <<advert, call, ran>>

IsPublic(method) == method \in PublicMethods

\* RPC_ADVERTISE at the collator, which takes the public methods and refuses an
\* advertisement without any.
Advertised(p) ==
    advert' = [advert EXCEPT ![p] =
                  IF \E m \in MethodsOf[p] : IsPublic(m) THEN "fresh" ELSE "none"]

\* The channel opens: HELLO and the first advertisement are sent.
ChannelOpens(p) ==
    /\ proc[p] = "opening"
    /\ link[p] = "signaling"
    /\ proc' = [proc EXCEPT ![p] = "serving"]
    /\ link' = [link EXCEPT ![p] = "up"]
    /\ Advertised(p)
    /\ UNCHANGED <<call, ran>>

\* Mutant: what was dropped from the list is not advertised again.
HeartbeatOfListed(p) ==
    /\ proc[p] = "serving"
    /\ link[p] = "up"
    /\ advert[p] # "none"
    /\ Advertised(p)
    /\ UNCHANGED <<proc, link, call, ran>>

\* RPC_ADVERTISE_INTERVAL_MS.
Heartbeat(p) ==
    /\ proc[p] = "serving"
    /\ link[p] = "up"
    /\ Advertised(p)
    /\ UNCHANGED <<proc, link, call, ran>>

\* An error of the websocket or the channel before they are open, the timer of
\* either, or a signal: the process exits.
GivesUp(p) ==
    /\ proc[p] \in {"dialing", "opening"}
    /\ proc' = [proc EXCEPT ![p] = "exited"]
    /\ UNCHANGED <<link, advert, call, ran>>

\* shutdown: the process learns that its websocket or its channel is lost.
Shutdown(p) ==
    /\ proc[p] \in {"opening", "serving"}
    /\ link[p] \in {"deaf", "gone"}
    /\ proc' = [proc EXCEPT ![p] = "exited"]
    /\ UNCHANGED <<link, advert, call, ran>>

\* It is stopped, sees the loss first, or dies of an exception nothing catches (a
\* reply to a channel that has closed).
Dies(p) ==
    /\ proc[p] = "serving"
    /\ proc' = [proc EXCEPT ![p] = "exited"]
    /\ UNCHANGED <<link, advert, call, ran>>

----------------------------------------------------------------------------
(* A call. *)

\* postJson and requestJson: the full node executes the request or not.  Any answer
\* but JSON with a status of success is an error, and so is none.
Posted(c, at) ==
    /\ call' = [call EXCEPT ![c].at = at]
    /\ ran' \in {[ran EXCEPT ![c] = @ + 1]} \cup (IF at = "ok" THEN {} ELSE {ran})

\* dc.onmessage, up to the reply: one request, whatever the method is mapped to.
CallUpstream(c) ==
    /\ call[c].at = "asked"
    /\ proc[call[c].peer] = "serving"
    /\ Posted(c, "ok") \/ Posted(c, "error")
    /\ UNCHANGED <<proc, link, advert>>

\* The reply is on its way.
Replies(c) ==
    /\ call[c].at \in {"ok", "error"}
    /\ proc[call[c].peer] = "serving"
    /\ link[call[c].peer] = "up"
    /\ call' = [call EXCEPT ![c].at = "replied"]
    /\ UNCHANGED <<proc, advert, ran>>

----------------------------------------------------------------------------
(* The collator's end. *)

\* TL_COLLATOR_RPC_ADVERT_TTL_MS pass without a heartbeat.
GoesStale(p) ==
    /\ advert[p] = "fresh"
    /\ advert' = [advert EXCEPT ![p] = "stale"]
    /\ UNCHANGED <<proc, link, call, ran>>

\* pruneRpcAdvertisements
Pruned ==
    [p \in Peers |-> IF advert[p] = "fresh" /\ link[p] = "up" THEN "fresh" ELSE "none"]

\* GET /health and GET /rpc/providers.
ListProviders ==
    /\ advert' = Pruned
    /\ UNCHANGED <<proc, link, call, ran>>

\* dc.onclose: the session stays, and calls at the peer stay open.
ChannelLost(p) ==
    /\ link[p] = "up"
    /\ link' = [link EXCEPT ![p] = "deaf"]
    /\ UNCHANGED <<proc, advert, call, ran>>

\* findRpcProvider
Providers(method) ==
    {p \in Peers : Pruned[p] = "fresh" /\ IsPublic(method) /\ method \in MethodsOf[p]}

================================================================================
