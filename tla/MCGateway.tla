------------------------------ MODULE MCGateway ------------------------------
(***************************************************************************)
(* One provider that offers wallet methods too, a request by any route and *)
(* one by /rpc/route.  What comes by /rpc/route may bring the id x, or an  *)
(* id of its own, as the calls of the other routes have.                   *)
(***************************************************************************)
EXTENDS Gateway

CONSTANTS p1, r1, r2, x

MCPublicMethods ==
    {"tl_getallbalancesforaddress", "tl_gettransaction", "tl_listproperties",
     "tl_getproperty", "tl_bitvmstatus"}

MCMethods ==
    MCPublicMethods \cup
    {"getblockchaininfo", "validateaddress", "sendtoaddress", "listunspent",
     "decoderawtransaction", "sendrawtransaction"}

MCMethodsOf == [p \in Peers |-> {"tl_gettransaction", "sendtoaddress"}]

\* A method the provider has, one it has not, one that is not public, and the
\* collator's own.
MCAskedOf ==
    [r \in Requests |->
        IF r = r1
        THEN {"tl_gettransaction", "tl_listproperties", "sendtoaddress", "tl_bitvmstatus"}
        ELSE {"tl_gettransaction"}]

MCNamesOf == [r \in Requests |-> IF r = r1 THEN DOMAIN Routes ELSE {"rpc_route"}]

MCIdsOf == [r \in Requests |-> {r, x}]

================================================================================
