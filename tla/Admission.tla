------------------------------- MODULE Admission -------------------------------
(***************************************************************************)
(* SUBMIT (index.ts): from a trader's order to the collator's tape.        *)
(*                                                                         *)
(* The handler of a message runs alone up to an await, of the IP lookup or *)
(* of the clearlist check, and other handlers, of the same session too,    *)
(* run in between.  What it checked before may no longer hold after.       *)
(*                                                                         *)
(* External: the two services.  Each answers with what is true when it     *)
(* looks, or fails, and the IP service may have nothing to say.  What is   *)
(* true of an address or a trader changes.  Neither call has a timeout.    *)
(*                                                                         *)
(* An order's id is the sender's choice: a signature binds it to a trader, *)
(* not to what the order says, and two orders may have one id.             *)
(*                                                                         *)
(* A SUBMIT the rate limiter, the schema or the signature check turns away *)
(* changes nothing here and is left out; so is the broadcast, which is in  *)
(* TapeFeed.  A closed connection stops no handler.                        *)
(*                                                                         *)
(* Bounds: NumCalls SUBMITs, MaxTime of the clock, MaxRestarts.            *)
(***************************************************************************)
EXTENDS Integers, Sequences, FiniteSets, SequencesExt

CONSTANTS
    Orders, Traders, TraderOf,
    Ids, IdOf,            \* of the orders
    TargetOf,             \* the id an order cancels or replaces, or NoId
    NoOrder, NoSession, NoId, NoTrader,
    Gated,                \* orders with visibility CLEARLIST or DARK
    Sessions,
    Addresses, AddressOf, \* of the sessions
    NumCalls,             \* SUBMIT messages, numbered as they arrive
    Configs,
    SeenMax,              \* SEEN_ORDERIDS_MAX
    TTL,                  \* of a cached clearlist answer
    IntelTTL,             \* of a cached answer of the IP service
    MaxTime, MaxRestarts

\* Which checks are on: of the address (VPN_FILTER_MODE or ASN_BLOCK_MODE is
\* reject), and of the clearlist (with CLEARLIST_URL or without, and whether
\* CLEARLIST_FAIL_MODE is open).
Config == [intel : BOOLEAN, url : BOOLEAN, failOpen : BOOLEAN]

ASSUME AdmissionAssumption ==
    /\ TraderOf \in [Orders -> Traders] /\ NoTrader \notin Traders
    /\ IdOf \in [Orders -> Ids]
    /\ TargetOf \in [Orders -> Ids \cup {NoId}]
    /\ Gated \subseteq Orders
    /\ AddressOf \in [Sessions -> Addresses]
    /\ {SeenMax, TTL} \subseteq Nat \ {0}
    /\ {IntelTTL, NumCalls, MaxTime, MaxRestarts} \subseteq Nat
    /\ Configs \subseteq Config

VARIABLES
    cfg,       \* the configuration, which never changes
    tape,      \* the orders written; checkedAt and epoch are history
    owner,     \* traderByOrderId
    seen,      \* LruSet of order ids: the most recent last
    vpn,       \* meta.vpn of the sessions, or that meta.asn is a blocked one
    ipCache,   \* of the IP client
    cache,     \* of the clearlist client
    call,      \* the handlers
    now, epoch,
    listed,    \* external: the traders on the clearlist
    lastListed,\* history: when a trader was last on it
    vpns,      \* external: the addresses the IP service flags
    lastClean, \* history: when an address was last none of them
    suspects   \* history: the sessions the last answer to come back spoke against

vars == <<cfg, tape, owner, seen, vpn, ipCache, cache, call, now, epoch,
          listed, lastListed, vpns, lastClean, suspects>>
ledger == <<tape, owner, seen>>
known == <<vpn, ipCache, suspects>>
world == <<cfg, now, epoch, listed, lastListed, vpns, lastClean>>

Ended == {"appended", "refused", "lost"}
LookingUp == {"intel", "looked", "cached"}
Waiting == LookingUp \cup {"asked", "replied", "hit"}
Verdict == {"vpn", "clean", "none"}
Answer == {"yes", "no", "fail"}

Calls == 1 .. NumCalls

NoCall ==
    [pc |-> "idle", order |-> NoOrder, sess |-> NoSession, checkedAt |-> 0,
     flagged |-> FALSE, asked |-> 0, answer |-> "fail"]

Call ==
    [pc : Ended \cup Waiting \cup {"idle"}, order : Orders \cup {NoOrder},
     sess : Sessions \cup {NoSession}, checkedAt : Nat, flagged : BOOLEAN,
     asked : 0 .. MaxTime, answer : Answer \cup Verdict]

\* How a write ended: with its newline, with all of its JSON but no newline, with
\* less.
Ending == {"line", "open", "half"}

Entry == [order : Orders, checkedAt : Nat, epoch : 0 .. MaxRestarts, end : Ending]

\* The traders the clearlist is asked about.
Members == {TraderOf[o] : o \in Gated}

TypeOK ==
    /\ cfg \in Configs
    /\ tape \in Seq(Entry)
    /\ owner \in [Ids -> Traders \cup {NoTrader}]
    /\ seen \in Seq(Ids) /\ IsInjective(seen) /\ Len(seen) <= SeenMax
    /\ vpn \in [Sessions -> BOOLEAN] /\ suspects \subseteq Sessions
    /\ ipCache \in [Addresses -> [exp : Nat, verdict : Verdict]]
    /\ cache \in [Members -> [exp : Nat, allowed : BOOLEAN]]
    /\ call \in [Calls -> Call]
    /\ now \in 0 .. MaxTime /\ epoch \in 0 .. MaxRestarts
    /\ listed \subseteq Members
    /\ lastListed \in [Members -> -1 .. MaxTime]
    /\ vpns \subseteq Addresses
    /\ lastClean \in [Addresses -> -1 .. MaxTime]

Init ==
    /\ cfg \in Configs
    /\ tape = <<>> /\ seen = <<>>
    /\ owner = [id \in Ids |-> NoTrader]
    /\ vpn = [s \in Sessions |-> FALSE] /\ suspects = {}
    /\ ipCache = [a \in Addresses |-> [exp |-> 0, verdict |-> "none"]]
    /\ cache = [t \in Members |-> [exp |-> 0, allowed |-> FALSE]]
    /\ call = [c \in Calls |-> NoCall]
    /\ now = 0 /\ epoch = 0
    /\ listed \in SUBSET Members /\ (cfg.url \/ listed = {})
    /\ lastListed = [t \in Members |-> IF t \in listed THEN 0 ELSE -1]
    /\ vpns \in SUBSET Addresses /\ (cfg.intel \/ vpns = {})
    /\ lastClean = [a \in Addresses |-> IF a \in vpns THEN -1 ELSE 0]

----------------------------------------------------------------------------
(* Helpers. *)

\* A reader splits the tape into lines: an entry is read when its line is its own
\* and holds all of it.
Readable(t, i) ==
    /\ i = 1 \/ t[i - 1].end = "line"
    /\ t[i].end = "line" \/ (t[i].end = "open" /\ i = Len(t))

\* The process of this epoch wrote the entry on the line another left open, or wrote
\* the next one on the line of this entry.
JoinedIn(t, i, e) ==
    \/ i > 1 /\ t[i - 1].end # "line" /\ t[i].epoch = e
    \/ i < Len(t) /\ t[i].end # "line" /\ t[i + 1].epoch = e

\* loadFromDisk: the last entry read of an id says whose it is.
ReadOf(t, id) == {i \in DOMAIN t : Readable(t, i) /\ IdOf[t[i].order] = id}

Loaded(t) ==
    [id \in Ids |->
        IF ReadOf(t, id) = {} THEN NoTrader
        ELSE TraderOf[t[CHOOSE i \in ReadOf(t, id) :
                            \A j \in ReadOf(t, id) : j <= i].order]]

\* Mutant: a session's trader may cancel anybody's order.
TargetExists(o) == TargetOf[o] # NoId => owner[TargetOf[o]] # NoTrader

OwnsTarget(o) == TargetOf[o] # NoId => owner[TargetOf[o]] = TraderOf[o]

\* LruSet.add of an id it has.
Refreshed(s, id) == Append(RemoveAt(s, CHOOSE i \in DOMAIN s : s[i] = id), id)

\* Mutants: one eviction too early; none.
EvictsAtMax(s, id) ==
    IF id \in ToSet(s) THEN Refreshed(s, id)
    ELSE IF Len(s) + 1 < SeenMax THEN Append(s, id) ELSE Tail(Append(s, id))

NeverEvicts(s, id) == IF id \in ToSet(s) THEN Refreshed(s, id) ELSE Append(s, id)

\* LruSet.add
SeenAdd(s, id) ==
    IF id \in ToSet(s) THEN Refreshed(s, id)
    ELSE IF Len(s) < SeenMax THEN Append(s, id) ELSE Tail(Append(s, id))

\* Of a handler that has ended only how, and the history, is kept.
End(k, pc) == [NoCall EXCEPT !.pc = pc, !.flagged = k.flagged]

Refuse(c, k) ==
    /\ call' = [call EXCEPT ![c] = End(k, "refused")]
    /\ UNCHANGED ledger

\* tape.append and seen.add, with nothing between them.
Admit(c, k) ==
    /\ call' = [call EXCEPT ![c] = End(k, "appended")]
    /\ tape' = Append(tape, [order     |-> k.order,
                             checkedAt |-> k.checkedAt,
                             epoch     |-> epoch,
                             end       |-> "line"])
    /\ owner' = [owner EXCEPT ![IdOf[k.order]] = TraderOf[k.order]]
    /\ seen' = SeenAdd(seen, IdOf[k.order])

\* After the IP lookup, with the session's flag as it is then: the VPN check, then
\* up to the await of clearlist.check, which looks in its cache first, or to the
\* end if there is nothing to check.
GoOn(c, k, flag) ==
    LET t    == TraderOf[k.order]
        hit  == cache[t].exp > now
    IN  \/ /\ cfg.intel /\ flag
           /\ Refuse(c, k)
        \/ /\ ~(cfg.intel /\ flag)
           /\ k.order \in Gated /\ ~cfg.url /\ ~cfg.failOpen
           /\ Refuse(c, k)
        \/ /\ ~(cfg.intel /\ flag)
           /\ k.order \notin Gated \/ (~cfg.url /\ cfg.failOpen)
           /\ Admit(c, k)
        \/ /\ ~(cfg.intel /\ flag)
           /\ k.order \in Gated /\ cfg.url
           /\ call' = [call EXCEPT ![c] =
                  [k EXCEPT !.pc = IF hit THEN "hit" ELSE "asked",
                            !.asked = now,
                            !.answer = IF hit /\ cache[t].allowed THEN "yes"
                                       ELSE IF hit THEN "no" ELSE "fail"]]
           /\ UNCHANGED ledger

----------------------------------------------------------------------------
(* The handler. *)

\* Up to the first await, of ipIntel.lookup, which looks in its cache first.
Receive(c, o, s) ==
    LET k   == [NoCall EXCEPT !.order = o, !.sess = s, !.checkedAt = Len(tape)]
        kept == ipCache[AddressOf[s]]
    IN  /\ call[c].pc = "idle"
        /\ \A d \in 1 .. c - 1 : call[d].pc # "idle"
        /\ \/ /\ IdOf[o] \in ToSet(seen) \/ ~OwnsTarget(o)
              /\ Refuse(c, k)
           \/ /\ IdOf[o] \notin ToSet(seen) /\ OwnsTarget(o)
              /\ cfg.intel
              /\ call' = [call EXCEPT ![c] =
                     IF kept.exp > now
                     THEN [k EXCEPT !.pc = "cached", !.asked = now, !.answer = kept.verdict]
                     ELSE [k EXCEPT !.pc = "intel", !.asked = now]]
              /\ UNCHANGED ledger
           \/ /\ IdOf[o] \notin ToSet(seen) /\ OwnsTarget(o)
              /\ ~cfg.intel
              /\ GoOn(c, k, FALSE)
        /\ UNCHANGED <<known, cache, world>>

\* External: the IP service looks, and says what is true then or nothing, or fails.
IntelAnswers(c, answer) ==
    LET a == AddressOf[call[c].sess]
    IN  /\ call[c].pc = "intel"
        /\ answer \in {"none", "fail", IF a \in vpns THEN "vpn" ELSE "clean"}
        /\ call' = [call EXCEPT ![c].pc = "looked", ![c].answer = answer]
        /\ UNCHANGED <<ledger, known, cache, world>>

\* Mutant: an answer of the IP service is kept for IntelTTL from when it came.
KeepIntelFromNow(c) ==
    IF call[c].pc = "looked" /\ call[c].answer # "fail"
    THEN [ipCache EXCEPT ![AddressOf[call[c].sess]] =
              [exp |-> now + IntelTTL, verdict |-> call[c].answer]]
    ELSE ipCache

\* An answer of the IP service is kept for IntelTTL from when it was asked for.
KeepIntel(c) ==
    IF call[c].pc = "looked" /\ call[c].answer # "fail"
    THEN [ipCache EXCEPT ![AddressOf[call[c].sess]] =
              [exp |-> call[c].asked + IntelTTL, verdict |-> call[c].answer]]
    ELSE ipCache

\* The address was clean less than IntelTTL before the lookup was asked for, or later.
WasClean(k) ==
    \/ lastClean[AddressOf[k.sess]] >= k.asked
    \/ lastClean[AddressOf[k.sess]] > k.asked - IntelTTL

Suspects(c) ==
    LET k == call[c]
    IN  IF k.answer = "vpn" THEN suspects \cup {k.sess}
        ELSE IF k.answer = "clean" /\ WasClean(k) THEN suspects \ {k.sess}
        ELSE suspects

\* The lookup comes back, from the cache or from the service, and what it says is
\* kept in the session, whatever a lookup asked for later said before; a failure is
\* ignored, and so is an answer that says nothing.
LookupReturns(c) ==
    LET s == call[c].sess
    IN  /\ call[c].pc \in {"looked", "cached"}
        /\ vpn' = CASE call[c].answer = "vpn"   -> [vpn EXCEPT ![s] = TRUE]
                     [] call[c].answer = "clean" -> [vpn EXCEPT ![s] = FALSE]
                     [] OTHER                    -> vpn
        /\ ipCache' = KeepIntel(c)
        /\ suspects' = Suspects(c)
        /\ GoOn(c, [call[c] EXCEPT !.flagged = s \in suspects'], vpn'[s])
        /\ UNCHANGED <<cache, world>>

\* External: the clearlist service looks, or fails.
ServiceAnswers(c, fails) ==
    /\ call[c].pc = "asked"
    /\ call' = [call EXCEPT ![c].pc = "replied",
                            ![c].answer = IF fails THEN "fail"
                                          ELSE IF TraderOf[call[c].order] \in listed
                                          THEN "yes" ELSE "no"]
    /\ UNCHANGED <<ledger, known, cache, world>>

\* Mutant: an answer is kept for TTL from when it came.
KeepFromNow(c) ==
    IF call[c].pc = "replied" /\ call[c].answer # "fail"
    THEN [cache EXCEPT ![TraderOf[call[c].order]] =
              [exp |-> now + TTL, allowed |-> call[c].answer = "yes"]]
    ELSE cache

\* An answer is kept for TTL from when it was asked for.
Keep(c) ==
    IF call[c].pc = "replied" /\ call[c].answer # "fail"
    THEN [cache EXCEPT ![TraderOf[call[c].order]] =
              [exp |-> call[c].asked + TTL, allowed |-> call[c].answer = "yes"]]
    ELSE cache

\* Mutant: a failed check is repeated instead of being decided.
CheckRepeats(c) ==
    /\ call[c].pc \in {"replied", "hit"}
    /\ cache' = Keep(c)
    /\ \/ call[c].answer = "yes" /\ Admit(c, call[c])
       \/ call[c].answer = "no" /\ Refuse(c, call[c])
       \/ /\ call[c].answer = "fail"
          /\ call' = [call EXCEPT ![c].pc = "asked"]
          /\ UNCHANGED ledger
    /\ UNCHANGED <<known, world>>

\* clearlist.check returns or throws, and the handler runs to its end.
CheckReturns(c) ==
    /\ call[c].pc \in {"replied", "hit"}
    /\ cache' = Keep(c)
    /\ \/ /\ call[c].answer = "yes" \/ (call[c].answer = "fail" /\ cfg.failOpen)
          /\ Admit(c, call[c])
       \/ /\ call[c].answer = "no" \/ (call[c].answer = "fail" /\ ~cfg.failOpen)
          /\ Refuse(c, call[c])
    /\ UNCHANGED <<known, world>>

----------------------------------------------------------------------------
(* The world around it. *)

\* The process dies and comes back: seen, the sessions, the caches and every
\* handler are gone, and what of the tape can be read says whose the ids are.  The
\* tape was never synced and may have lost its end, within an entry too: so it is
\* after a write the process did not survive.
Restart ==
    /\ epoch < MaxRestarts
    /\ epoch' = epoch + 1
    /\ \E n \in 0 .. Len(tape), end \in Ending :
          \/ tape' = SubSeq(tape, 1, n)
          \/ /\ n > 0 /\ tape[n].end # "half"
             /\ tape[n].end = "open" => end = "half"
             /\ tape' = [SubSeq(tape, 1, n) EXCEPT ![n].end = end]
    /\ owner' = Loaded(tape')
    /\ seen' = <<>>
    /\ vpn' = [s \in Sessions |-> FALSE] /\ suspects' = {}
    /\ ipCache' = [a \in Addresses |-> [exp |-> 0, verdict |-> "none"]]
    /\ cache' = [t \in Members |-> [exp |-> 0, allowed |-> FALSE]]
    /\ call' = [c \in Calls |-> IF call[c].pc \in Waiting
                                THEN End(call[c], "lost") ELSE call[c]]
    /\ UNCHANGED <<cfg, now, listed, lastListed, vpns, lastClean>>

Tick ==
    /\ now < MaxTime
    /\ now' = now + 1
    /\ lastListed' = [t \in Members |-> IF t \in listed THEN now + 1 ELSE lastListed[t]]
    /\ lastClean' = [a \in Addresses |-> IF a \in vpns THEN lastClean[a] ELSE now + 1]
    /\ UNCHANGED <<cfg, ledger, known, cache, call, epoch, listed, vpns>>

\* External: a trader joins or leaves the clearlist, if there is one.
Relist(t) ==
    /\ cfg.url
    /\ listed' = IF t \in listed THEN listed \ {t} ELSE listed \cup {t}
    /\ lastListed' = [lastListed EXCEPT ![t] = now]
    /\ UNCHANGED <<cfg, ledger, known, cache, call, now, epoch, vpns, lastClean>>

\* External: an address becomes one of a VPN, or is one no more, if anybody asks.
Reassign(a) ==
    /\ cfg.intel
    /\ vpns' = IF a \in vpns THEN vpns \ {a} ELSE vpns \cup {a}
    /\ lastClean' = [lastClean EXCEPT ![a] = now]
    /\ UNCHANGED <<cfg, ledger, known, cache, call, now, epoch, listed, lastListed>>

\* What a handler waits for comes, and it goes on.
Advance(c) ==
    \/ \E answer \in Verdict \cup {"fail"} : IntelAnswers(c, answer)
    \/ LookupReturns(c)
    \/ \E fails \in BOOLEAN : ServiceAnswers(c, fails)
    \/ CheckReturns(c)

Next ==
    \/ \E c \in Calls, o \in Orders, s \in Sessions : Receive(c, o, s)
    \/ \E c \in Calls : Advance(c)
    \/ Restart
    \/ Tick
    \/ \E t \in Members : Relist(t)
    \/ \E a \in Addresses : Reassign(a)

Spec == Init /\ [][Next]_vars

\* The event loop runs what is ready, and the services answer or fail.
FairSpec == Spec /\ \A c \in Calls : WF_vars(Advance(c))

----------------------------------------------------------------------------
(* Properties. *)

\* A cancel or replace on the tape comes after an order of the id it names and of
\* its own trader, one that a reader of the tape finds, through awaits, restarts and
\* writes cut short.  One case is left: the process that took the cancel had itself
\* joined that order to a line left open, and knew of it from memory.
CancelsFollowTargets ==
    \A i \in DOMAIN tape :
        TargetOf[tape[i].order] # NoId =>
            \E j \in 1 .. i - 1 :
                /\ IdOf[tape[j].order] = TargetOf[tape[i].order]
                /\ TraderOf[tape[j].order] = TraderOf[tape[i].order]
                /\ Readable(tape, j) \/ JoinedIn(tape, j, tape[i].epoch)

\* An id is on the tape twice only if the process was restarted in between, or the
\* second SUBMIT passed seen.has before the first was appended, or SeenMax other ids
\* had come in between.
DuplicatesAreRaces ==
    \A i, j \in DOMAIN tape :
        i < j /\ IdOf[tape[i].order] = IdOf[tape[j].order] =>
            \/ tape[i].epoch # tape[j].epoch
            \/ tape[j].checkedAt < i
            \/ Cardinality({IdOf[tape[n].order] : n \in i + 1 .. tape[j].checkedAt})
                  >= SeenMax

\* A SUBMIT is not admitted if, of the lookups that had come back on its session when
\* it was let past the VPN check, the last to say anything spoke against the address.
\* One that cleared it counts only if the address was clean less than IntelTTL before
\* it was asked for, or later: neither a failure, nor an answer that says nothing,
\* nor one from the cache that has run out, lets a flagged session back in.
FlaggedStaysOut ==
    \A c \in Calls : call[c].flagged => call[c].pc # "appended"

\* In fail mode closed a gated order is appended only if its trader was on the
\* clearlist less than TTL before the handler asked, or later: whatever the cache
\* holds and however late answers arrive.
ClearedRecently ==
    [][\A c \in Calls :
           /\ call[c].pc # "appended" /\ call'[c].pc = "appended"
           /\ Last(tape').order \in Gated /\ ~cfg.failOpen
           => /\ call[c].pc \in {"hit", "replied"}
              /\ lastListed[TraderOf[call[c].order]] > call[c].asked - TTL]_vars

\* Every SUBMIT received is decided, or the process dies first.
CallsEnd == \A c \in Calls : call[c].pc \in Waiting ~> call[c].pc \in Ended

\* index.ts:1114-1116, "orderId already seen": as long as the process lives and no
\* order has been evicted, an order is appended once.
DuplicateRefused ==
    \A i, j \in DOMAIN tape :
        i < j /\ tape[i].epoch = tape[j].epoch /\ j <= SeenMax
            => IdOf[tape[i].order] # IdOf[tape[j].order]

================================================================================
