# Verification of tl-collator

TLA+ models of the TradeLayer collator, TLC runs that check them on small
instances, and TLAPS proofs about each of them. Paths are relative to the
repository root, mounted here as `src/`; so `src/src/index.ts` is the
repository's `src/index.ts`.

A collator takes signed orders from wallets over WebRTC data channels, gives
each a sequence number, chains it by hash to the one before, signs it, appends it
to a tape file and broadcasts it. The repository holds two bodies of code:

* the **Node server** (`src/src/*.ts`), which runs today: signaling, sessions,
  admission of orders, the tape with its index and replay, and an RPC router
  between wallets and full-node peers;
* the **Rust crates** (`src/rust/*`), which are not yet wired to it: a verifier of
  the same tape format, a crash-safe writer, and a witness service that a
  collator must ask before it appends.

## 1. Inventory

| Component | State | Operations | Talks to |
| --- | --- | --- | --- |
| Verifier, `verify.rs` | checkpoint (seq, hash, count), owner of every order | prepare, commit, replay | DurableTape, witness |
| DurableTape, `durable.rs` | tape file, checkpoint file ("anchor"), handle with a poison flag | open (scan, repair, re-anchor), append, abort | file system |
| WitnessedTape, `durable.rs` | a DurableTape, a blocked flag | open under a fresh receipt, append after remote compare-and-swap | witness over a transport |
| WitnessService, `lib.rs`, `witnessctl.rs` | a DurableTape, a pinned scope | attest, compare-and-swap | one process per request |
| SSH transport, `ssh.rs` | one child process | run with deadline | witnessctl |
| TapeStore, `tape.ts`, `tapeIndex.ts` | tape file, index file, lastSeq, lastHash, owners, index in memory | load, append, replay in batches | SUBMIT, TAPE_SUB |
| SUBMIT admission, `index.ts` | seen set, owner of every order id, session metadata, caches of IP lookups and of the clearlist | one async handler per message | IP service, clearlist service, TapeStore |
| Tape feed, `index.ts`, `peerSession.ts` | wantsTape and channel of each session | TAPE_SUB, broadcast, TAPE_END | TapeStore |
| RPC router, `index.ts` | advertisements by session, open calls by id, timers | advertise, route, settle, time out, clean up | sessions, HTTP gateway |
| Signaling, `index.ts` | sessions, peer connection of a websocket, channel of a session | connect, offer, ICE, close | wallets, RPC peers |
| Token bucket, `ratelimit.ts` | tokens and a time, per session | allow | SUBMIT |
| HTTP gateway, `index.ts` | a handler per request | some 20 routes; relayer first or routed RPC first | relayer, RPC router |
| Full-node RPC peer, `fullnode-rpc-peer.cjs` | one link, one advertisement | dial, advertise again and again, call upstream, exit | collator, full node |
| Attestations, `sign-infra-attestation.cjs`, `manifest.ts` | a JSON file; a manifest per process | sign and upsert; build once at start | admins' shells, collators |
| LruMap, config, schemas, crypto, BitVM status, audit log | little or none | pure functions, caches | the above |

Which of these are modelled, in part or not, is listed with reasons in
`PROJECT.json` under `components`.

What is hard here, and what makes each part correct:

* **Crashes between system calls** (`durable.rs`). An append is a write, a sync,
  a temporary file, a rename and a directory sync; any of them may fail or be the
  last. Correct: what was acknowledged is never lost, what was not is kept or
  dropped whole, and no crash leaves files the next open refuses.
* **A witness that may have stored what the caller was not told of.** Correct: no
  two copies of a collator acknowledge different histories.
* **No sync and no repair in the Node tape.** Correct, at best: the damage of a
  torn write is bounded, and a reader can see it.
* **A replay that yields to new entries.** Correct: TAPE_END is true, nothing
  comes twice or out of order.
* **Handlers with awaits.** What SUBMIT checked before an await may be false after
  it. Correct: cancels have targets, filters and the clearlist are obeyed by what
  was known at the time.
* **A table keyed by ids that callers choose**, timers, late answers, closing
  sessions, and answers that are taken by their id from whoever sends them. Correct:
  each call is replied to, once; and by an answer of its own, or what stands in for it
  is known.
* **Offers that share a variable.** The handlers of a websocket's offers wait three
  times each and go on with whatever connection `pc` holds. Correct: the newest
  offer gets its own answer, and the newest channel is the one in use.
* **A request that goes to one party after another.** The relayer may have executed
  what it did not answer. Correct: no change is made twice, and "ok" is true.
* **A file without a lock**, read, changed and written by several shells. Correct:
  an approval is lost only to a run that died or overlapped.

`PROJECT.json` lists these hazards line by line under `hazards`, with the
properties that cover each.

## 2. Modules

```
VerifiedReplay          AckedLog                 TapeFile      TokenBucket
   |      \___________ (abstract) ______            |              |
DurableTape  -- implements --^          \        TapeFeed       Sessions
                                         |
                          WitnessedTape --uses as contract

FullNodePeer
   |
Gateway                   RpcRouter              Admission     Attestations
```

`x_proofs` extends module `x` with its theorems and their proofs. What is proved of
a module without one (FullNodePeer, VerifiedReplay, TapeFile, TokenBucket) is proved
with the module that uses it.

Each `MCx` extends module `x` and gives TLC the functions among its constants.
Some operators stand before another of the same parameters and are used by
nothing: they are plausible errors of that operator (a dropped sync, an eviction
too early), kept beside it to show that the properties notice; `PROJECT.json`
pairs them with the properties under `mutants`.

**VerifiedReplay** is the rule of `prepare_entry`: which line may follow which
log. The hash of an entry covers the hash before it, so a checkpoint names one
log, and logs stand wherever the code holds a checkpoint.

**AckedLog** is the abstract specification: a caller knows a log, `settled`;
offers entries, `tried`; and one of them may turn up behind the log, or none.

**DurableTape** is `DurableTape` of `durable.rs`, one action per system call.
`tape` and `anchor` are what the process reads back; `tapeDisk` and `anchorDisk`
are the sets of contents a power loss may leave. A write adds to the set and a
sync leaves one element. `pc` walks the stages of `open_inner` (trim, trimsync,
resync, anchor, dirsync) and `append_inner` (write, sync, abort, anchor,
dirsync). A successful sync is taken to be durable, and a failed one to decide
nothing. `ImplementsAckedLog` is the refinement.

**WitnessedTape** composes collators that share an identity, each with a tape in its own
directory, with one witness. Each local tape is used at its promise: an append succeeds,
is undone or is left in doubt, and the doubt is decided when it arises, since nobody
sees the file before the next open settles it. That the module keeps to that promise is
itself checked (`LocalContract`: an instance of AckedLog whose log is that of
`Observed`, a constant that may be any collator). A run of `witnessctl` holds the
store's lock from open to exit, so it is one step. A client that gives up leaves a
request that may run at any later time. A witness ahead of a local tape, or behind it,
is refused by the code and needs an operator (an open gate of `SSH_TRANSPORT.md:49`), so
no claim is made that appends go on after such a loss.

**TapeFile** has the pure functions of the Node tape: a file is a sequence of
pieces (two to an entry's text, one to a newline), so a torn write, a joined line, a chunk
that ends inside a line, and an offset are what they are in bytes. A wide entry has
a third piece, with half of a character of two bytes: a replay that reads the two
halves in different chunks sends the entry garbled (`tape.ts:159`), which
EndComplete allows for such entries and no others. A line is named by its offset:
`Offsets` are the offsets of the lines that parse, `Terminated` of those that end in
a newline too. `buildIndex` lists offsets in the order of the file, so `BuildIndex`
is a set, and `offsets[block]` is the one with `block` others before it
(`FindStartOffset`). `NewestEntry` is what `loadFromDisk` ends with.

**TapeFeed** is the server around that file: append whole or torn, kill, power loss, the
lazily rebuilt index, and one subscriber's replay with its locals. Neither file is ever
synced: a power loss leaves any prefix of the tape and, of the index, any version saved
since the last power loss (`oldIndexes`). `text` is what `replayFromSeq` has read and
not handled, `parts` and `carry` in one: a line is taken from its front while it holds a
newline, and more is read when it holds none. The event loop runs a handler up to an
await: while the replay is in state "run" nothing else happens; at "yield" orders are
appended and broadcast. One TAPE_SUB per connection.

What this comes to where the code takes no care:

* `loadFromDisk` counts an entry whose line is whole but for its newline
  (`tape.ts:48-61`); a replay keeps such a line in `carry` and never sends it
  (`tape.ts:161`), and TAPE_END may name it. EndComplete speaks of every entry
  `loadFromDisk` counts, and lets that one alone be missing (`LeftUnended`).
* TAPE_END names `lastSeq`, which may be of an entry that is not on the tape: one the
  process joined to a torn line.
* `dc.onclose` only empties `sess.dc` (`index.ts:1236`). The replay and `wantsTape` live
  on, a new offer on the same websocket opens another channel, and what was sent in
  between is gone (`SendDc`). TAPE_END then comes after a gap. `dropped` has these
  entries, and EndComplete says that nothing else is missing.
* An index is taken for fresh by the size of the tape alone (`tapeIndex.ts:29`). One
  power loss does no harm: an older index that comes back is shorter or longer than the
  tape, or was built from what is left of it, and the next start replaces one that is
  longer. The replaced one can come back in a second power loss, over another tape that
  has grown to its size. IndexExact, EndComplete and ReplayedOnceInOrder are stated for
  fewer than two power losses (`cuts < 2`). Without that bound TLC refutes IndexExact
  within these constants; for the other two it would take a longer tape than the run
  has.

**Admission** is the SUBMIT handler, split at its awaits, with several calls at a
time. Both services answer with what is true when they look, or fail, and the IP
service may have nothing to say; what is true of an address or a trader changes;
neither call has a timeout. Both clients look in a cache first, whose entries expire
by when they were asked for. An answer of the IP service is kept in the session
(`vpn`) in the order the answers arrive, and the handler decides by what the session
holds then: that of another handler, if its own lookup failed. `suspects` is history:
the sessions of which the last answer to arrive was a bad one. A clean answer takes a
session out only if it was true less than the TTL before it was asked for, or later.

An id is what the sender writes: the signature binds it to a trader, not to the order
(`crypto.ts`), so after a restart or an eviction another trader may use it again and
`traderByOrderId` (`owner`) passes to that trader. Targets are named by id. `seen` is a
sequence from the oldest id to the newest: `add` moves an id it has to the end
(`Refreshed`) and evicts the first when it is full.

A restart keeps any prefix of the tape, and its last line may be torn: without its
newline (`open`) or without more (`half`). What the next process appends is joined to
that line, and `Readable` says which entries a reader finds. `Loaded` is what
`loadFromDisk` makes of them. A process knows the owner of an order it has joined to
such a line itself, so a cancel of it is admitted although no reader finds its target:
CancelsFollowTargets leaves out that case and no other (`JoinedIn`). After a restart
the joined order is unknown and its cancel refused.

What it does not show, since the code does otherwise: an answer that arrives late
overwrites a newer one, so a session is let in by the last answer to arrive and not by
the last to be asked for; the flag of a session that comes up while the clearlist is
awaited is not looked at again; and the owner of an id may change while a cancel waits
(what it saw stays on the tape). Left out: refusals by schema and signature, which read
nothing shared; the rate limit, which is in Sessions; a session without an address,
which is not looked up; eviction from the cache of IP lookups at its maximum. One flag
stands for the VPN and the blocked ASN of a session, which come with one answer.

**RpcRouter** is the router: one action per callback. Service, network and method
are one value, the call's kind. There is no clock: timers and staleness come at
any time. Ids are chosen by callers and may collide. An answer is taken by its id from any
session: nothing compares the sender with the provider the call went to, and the
caller is told the node it went to whoever answered (`index.ts:428-442`). `Answer` is a
session that answers what it was asked, `StrayAnswer` one of `Stray` under any id; a
reply has in `by` who gave it. A websocket may carry
several offers, whose channels share the session object; `dc.onclose` of any of
them empties `sess.dc`, and cleanup closes the newest connection and the current
channel only, as in the code. A reply to a session without a channel is dropped.
When no provider fits, a relayer route falls back to an upstream proxy, which is
in Gateway. `rpcAdvertisements`, a Map, is a function from sessions to their
advertisements with the order of insertion beside it, `before`: a Map keeps a key's
place when its value is replaced, and the first provider that fits is asked.

**TokenBucket** is `TokenBucket.allow` as functions on a bucket. Tokens are counted
in parts of a token, so a refill may give less than one. The clock is the wall
clock: it may stand or be set back, and a call that adds nothing does not move the
bucket's time.

**Sessions** is a websocket's session: the connection limit, `SIGNAL_OFFER` split at
its three awaits, the channels that come of it, `cleanup`, and the bucket a SUBMIT
takes from. An offer's record holds its connection, where its handler stands, which
connection it awaits and which made the answer. A second offer overwrites `pc`
while the first is awaiting, so the first may go on with the second's connection:
`createAnswer` on one and `setLocalDescription` on the other, as the code would.
The WebRTC library is external: calls on a connection fail at any time and succeed
only in the states WebRTC allows.

**FullNodePeer** is `fullnode-rpc-peer.cjs` and what the collator holds of it. A
process dials once, opens, serves and exits. The two ends of a link learn of its
loss at different times: `link` is the collator's end, `proc` the process's. The
upstream executes a call or not, and answers or not; the paths it is asked by are
left out.

**Gateway** composes it with the HTTP handler. `Routes` is the table of the routes, put
together from groups of them: does it read a body, does it ask the relayer, and what
does it do if the relayer cannot (a method of routed RPC, pass the error on, look the IP
up, or fall through to "not found"). A request goes through the awaits its route names.
A method without a provider goes to the relayer too (`routeCompatRpcRequest`). The id of
a call is random, but POST /rpc/route keeps the one in the body (`index.ts:130`, `606`),
so two requests may bring the same. `pending` is the table: the second takes over the
first one's entry, the next answer to either ends whoever has the entry, and the one
without waits for its timer even when its provider's session closes. So "ok" can be the
answer to the other request with the id (`Done`), and a caller that wants more must
choose ids nobody else does. The sessions here are processes of the script, which answer
what they are asked; others are in RpcRouter. Of the fallbacks, `getblockchaininfo`,
`validateaddress`, `sendtoaddress`, `listunspent`, `decoderawtransaction` and
`sendrawtransaction` are not in `PUBLIC_RPC_METHODS`, so after a failure of the relayer
these routes always reply 403, whatever the relayer did: ExecutedAsTold states what a
caller may conclude.

**Attestations** is the script that signs an approval into a shared file, in the
steps read, truncate and write, and the collator that reads the file at its start.
The script takes a file that does not parse for an empty one. Its key of an entry
on file has `b.clearlistId || ''` (`sign-infra-attestation.cjs:162`), which never
equals the key of a new approval for clearlist 0: these pile up, though the
README has approvals upserted to avoid duplicates. TypeOK says so. `Array.filter` is
`Kept`, by the places of the items that stay: the n-th of the result is the item at
the n-th of these places. So it takes no recursion, and can be reasoned about.

## 3. Runs

| Run | Question | Bounds | Distinct states |
| --- | --- | --- | --- |
| durable_tape | is anything acknowledged lost, any crash fatal, any order twice? | 4 orders of 2 traders (a cancel, a foreign cancel), 2 stamps, index of 2, empty or imported start, 5 faults | 15 000 |
| witnessed_tape | do copies ever acknowledge forks? do calls return? | 2 copies, 3 orders, index of 2, 3 faults | 252 000 |
| tape_feed | what survives on the Node tape, and what does a subscriber get? | 4 appends, 2 faults, stride 2, a yield after every entry, chunks of 4 pieces, the third append wide, from seq 1 or 3 | 340 000 |
| tape_chain | is the tape a hash chain? **no** | 3 appends, 1 fault, from seq 1 to 3 | |
| tape_replay | does a replay start where it should? **no** | 4 appends, 1 fault, from seq 1 to 3 | |
| admission | what do checks before an await guarantee after it? | 3 calls, 4 orders of 2 traders under 3 ids, 1 session, seen set of 1, both TTLs 1, clock 0 to 1, 1 restart; either the address is checked or the clearlist | 215 000 |
| admission_duplicate | is a second SUBMIT of an order refused? **no** | seen set of 3, no restart | |
| rpc_router | is every call replied to, once, and by whose answer? | 2 sessions, one of which answers under any id, 3 channels, 2 calls, 2 ids, 2 nodes | 371 000 |
| rpc_preference | is a named provider node honoured? **no** | as above | |
| sessions | whose answer, which channel, how many sessions and SUBMITs? | 2 websockets, room for 1, 2 offers, 1.5 tokens burst, half a token a step, clock 0 to 2 | 508 000 |
| gateway | is every request replied to, and truly? | 1 provider, a request by any route, one by /rpc/route, whose id is random or shared, both settings of the `/tl_*` proxy | 142 000 |
| attestations | which approvals does a collator offer? | 2 shells, 2 places, clearlists 0 and 1, 4 approvals, 2 in a manifest | 1 052 000 |

Why the bounds are enough for what they are asked:

* durable_tape: 5 faults let a failed write be followed by a failed rollback, a
  power loss in the reopen and another in the reopen after it. An index of 2 with 4
  orders reaches the capacity refusal. The safety part holds for every value of
  the bounds by proof, so the run's own weight is on liveness.
* witnessed_tape: 3 faults cover a late request of each copy and a crash. Two
  copies are what a fork needs.
* tape_feed: 4 appends give two blocks of the index, whose first entries the
  subscriber asks for, and a tear before, at and after a block's start; chunks of 4 pieces end inside lines of 3, and
  between the halves of the wide entry's character. 2 faults are a tear or a loss and
  another after it; two losses leave the index properties to the exception above.
* admission: 3 overlapping calls are needed for one to pass, one to evict and one
  to repeat; a seen set of 1 makes eviction happen. The fourth order has the id of the
  first and is another trader's. A session may be flagged and cleared by lookups that
  overlap in 3 calls; TTLs of 1 let an answer run out while a call waits. The run has
  two kinds of configuration, the address checked or the clearlist; no check at all is
  part of each, and both together are covered by the proofs alone.
* rpc_router: 2 calls under 1 id give every order of answer, timer and takeover.
  Session b has 2 offers, session a 1, so both cases of cleanup occur. Session a answers
  under either id at any time, b what it was asked, so both halves of AnswersOwnCall do.
* sessions: 2 offers give every order of their six awaits; the websocket without
  offers is there to be refused, or to take the room of one that failed. The clock
  goes back and forth over half tokens, so a step may add nothing.
* gateway: the two requests meet at the provider: one times out and drops it while
  the other waits. The methods asked for are one the provider has, one it has not,
  that is not public and the collator's own. Both may bring the id x or keep an id
  of their own.
* attestations: 4 approvals are an overlap of two runs, a run after it, and one
  that replaces; a manifest of 2 cuts off.

What the passing runs show is stated with each property in its module. In short:

* **durable_tape**: OnlyOfferedInDoubt, RecoveryAccepted, AnchorCoversSettled,
  OrdersOnce, ImplementsAckedLog; with fairness EventuallyWritable.
* **witnessed_tape**: WitnessFirst (what is acknowledged, and what an open copy
  starts from, is a prefix of the witness's log, so no two copies acknowledge
  different histories), OpenNotStale, LocalContract; CallsReturn thanks to the
  deadline.
* **tape_feed**: seqs on the tape increase and a broken chain shows as a missing
  number (BreaksShowAsGaps), one torn write costs at most
  one acknowledged entry (LossBounded), an index accepted by size is the right
  one after one power loss (IndexExact), TAPE_END is true on a tape without gaps but for
  what a closed channel dropped and one line without its newline (EndComplete), no
  entry comes twice or out of order (ReplayedOnceInOrder), and the replay ends.
* **admission**: CancelsFollowTargets, FlaggedStaysOut, ClearedRecently, CallsEnd;
  and DuplicatesAreRaces, which says exactly when an id can be on the tape
  twice: a restart, an eviction, or two overlapping handlers. FlaggedStaysOut: neither a
  failed lookup, nor an empty answer, nor one kept beyond its TTL lets a session in that
  the last answer spoke against.
* **rpc_router**: EveryCallReplied, RepliedOnce, AnswersOwnCall, NoneWaitsOnGone,
  with the exceptions the code makes written into them (two error replies when a
  provider's session closes; calls that share an id; a session that answers what it was
  not asked).
* **sessions**: never more than CONN_MAX sessions, each with its websocket open
  (TypeOK); an offer is answered by its own connection or that of a later offer
  (AnswersOwnOffer), which says when the first of two offers gets a wrong answer;
  the session uses the channel that opened last, or none if any other closed after
  it, and a closed websocket leaves up only channels of connections a later offer
  had replaced (UsesNewestChannel); SubmitsWithinRate.
* **gateway**: ExecutedAsTold (of a request with an id of its own, "ok" is true; of one
  that shares its id, it is true of one of them), RequestsAnswered and PeersServe: a
  process that is started serves or exits, and gets back on the list a timeout took it
  from.
* **attestations**: NewestServed, with the cases written into it in which an
  approval is lost: a run that died in its write or overlapped another, a start in
  the middle of a write, the 128 entries of a manifest.

The runs that find a violation are the findings of `PROJECT.json`:

1. A write that stops half way leaves a line without its end; the next entry is
   joined to it and lost to every reader although it was acknowledged, and the
   entry after that is chained to it (`tape.ts:129`).
2. After such a loss the offsets, stored by position, no longer fit the block
   numbers they are read by; a replay leaves out entries (`tapeIndex.ts:82`).
3. Two overlapping SUBMITs of one order both pass the duplicate check
   (`index.ts:1114`, `1210`).
4. `preferredProviderNodeId` is lost in `normalizeRpcRequest` (`index.ts:130`).

### Fairness

* DurableTape: weak fairness of opening and of each next system call, since the
  process runs the call it is in and an operator replaces a closed or poisoned
  handle. No fairness on appends; failures are bounded, so "eventually writable"
  means when they stop.
* WitnessedTape: weak fairness of the collator's own steps: a running call goes
  on, and `ssh.rs` gives up at its deadline. The answer to the question an open asks
  is one of these steps (that call, too, ends by its deadline, `AskFails`); a
  compare-and-swap at the witness is not.
* TapeFeed: weak fairness of the replay, which `setImmediate` brings back.
* Admission: the event loop runs what is ready, and the services answer or fail.
  The latter rests on the default timeouts of Node's `fetch`: the code sets none.
* RpcRouter: timers fire. Providers owe nothing.
* Gateway: weak fairness of a handler's return from its await. Node's HTTP server
  ends a body that does not come, Node's `fetch` ends a call by default, and a routed
  call has its timer. A process's own timers (15 s to dial, 20 s to open, the
  heartbeat) run, and it learns in the end of a link that is lost. That a
  provider calls upstream or replies is not assumed.
* Sessions and Attestations state safety only.

Deadlock is checked in every run.

## 4. Proofs

TLC checks the instances of section 3; the theorems hold for every value of the
constants that meets the assumptions below. Every safety property of the passing
runs is proved: each invariant, each action property and the refinement. So are some
that no run checks; the table words them, and the others it names.

| Module | Theorem | States |
| --- | --- | --- |
| DurableTape_proofs | InvariantHolds | `Spec => []IInv` |
| | TypeCorrect | `[]TypeOK` |
| | AcknowledgedSurvives | `[]OnlyOfferedInDoubt` |
| | EveryCrashRecovers | `[]RecoveryAccepted` |
| | AnchorCovers | `[]AnchorCoversSettled` |
| | NoOrderTwice | `[]OrdersOnce` |
| | Implements | `ImplementsAckedLog`, the refinement of AckedLog |
| | LogStaysVerified | the acknowledged log is always one the verifier accepts |
| | NothingTakenBack | no step removes or rewrites an acknowledged entry |
| WitnessedTape_proofs | TypeCorrect | `[]TypeOK` |
| | WitnessReplays | the witness's log is always one the verifier accepts |
| | RemoteFirst | `[]WitnessFirst` |
| | NoStaleHandle | `[]OpenNotStale` |
| | LocalTapeImplements | `LocalContract`: any one copy's tape is used as AckedLog allows |
| | OneHistory | of any two collators' acknowledged logs one is a prefix of the other |
| | AcknowledgedStays | a log once acknowledged is a prefix of the witness's ever after |
| | NothingTakenBack | each log a collator acknowledges extends the one before |
| TapeFeed_proofs | InvariantHolds | `Spec => []IInv` |
| | TypeCorrect | `[]TypeOK` |
| | OrderHolds | `[]BreaksShowAsGaps` |
| | FewAreLost | `[]LossBounded` |
| | IndexHolds | `[]IndexExact` |
| | EndMeansComplete | `[]EndComplete`, with its lines left unended and dropped messages |
| | ReplayInOrder | `[]ReplayedOnceInOrder` |
| | LinesStay | no step but a power loss takes a complete line from the tape |
| | ReturnedIsWritten | an entry `append` returns is on a complete line, unless the line before was torn |
| | NothingLostUntorn | with no torn write and no power loss, every entry returned is on the tape |
| | ReplayAdvances | each step of a replay brings it nearer its end, and no other step takes it back |
| Admission_proofs | TypeCorrect | `[]TypeOK` |
| | CancelsStayValid | `[]CancelsFollowTargets` |
| | DuplicatesExplained | `[]DuplicatesAreRaces` |
| | FlaggedNotAdmitted | `[]FlaggedStaysOut` |
| | GatedOrdersCleared | `ClearedRecently`, of every step |
| RpcRouter_proofs | TypeCorrect | `[]TypeOK` |
| | OneReplyEndsACall | `[]RepliedOnce` |
| | AnswersMatchCalls | `[]AnswersOwnCall` |
| | ClosingEndsCalls | `[]NoneWaitsOnGone` |
| | NoCallForgotten | a call has its timer, or its reply, or its caller's channel was gone at its reply |
| | UnsharedIdFindsItsCall | a call whose id no other call has keeps its entry, and of the sessions outside `Stray` only the one it went to answers it |
| Sessions_proofs | TypeCorrect | `[]TypeOK` |
| | OffersGetTheirAnswer | `[]AnswersOwnOffer` |
| | ChannelInUseIsNewest | `[]UsesNewestChannel` |
| | RateIsBounded | `[]SubmitsWithinRate` |
| | RateFromAnyMoment | the same account from any moment of a session on |
| Gateway_proofs | TypeCorrect | `[]TypeOK` |
| | RepliesTellTheTruth | `[]ExecutedAsTold` |
| Attestations_proofs | TypeCorrect | `[]TypeOK` |
| | NewestAreServed | `[]NewestServed` |

In every module the argument has one shape. Hardly any property is inductive, so `IInv`
says more: what is true at each stage of a handler, a call or a file. There is a lemma
per action, split by the parts of `IInv` the action can disturb; the lemma `StepInv`,
`NextInv` or `StepPreserves` puts them together, and each property follows from `IInv`
in a few lines. Before it was proved, each `IInv` was checked by TLC as an invariant of
its component's run, with the bounds of section 3.

### Assumptions

All are named, in the module that declares the constants, and TLC evaluates each
in the run of its module.

* `ReplayAssumption`: every order has a trader and a target or none, and the index
  has room for one. `LegacyAssumption`: a history from before the first open was
  produced by the same rule. `DurableAssumption`, `WitnessedAssumption`: the absent
  values are no entries, no logs and no answers; `Observed` is a collator.
* `FeedAssumption`: stride, batch and size of a read are positive, and so is the number
  a subscriber asks from; the absent index is no index.
* `AdmissionAssumption`: every order has a trader, an id and a target or none, every
  session an address; the seen set and the clearlist's TTL are positive, the IP client's
  may be 0.
* `RouterAssumption`: the absent call, node, id and session, and the caller that stands for
  HTTP, are none of the real ones; ids and preferences are functions of the call. `Stray`
  may be any set of sessions: with all of them the theorems say what the code promises of
  anybody, with none what it does among sessions that answer what they are asked.
* `BucketAssumption`, `SessionAssumption`: the width of a token is positive; burst
  and rate are integers of either sign, the bounds natural numbers.
* `PeerAssumption`, `GatewayAssumption`: a peer has a set of methods, some methods are
  public, a request has routes and methods it may be for, and an id of its own or one that
  clients may choose, which no random id equals. About the fixed list of
  `index.ts:22-49` two facts are used: `tl_bitvmstatus` is on it, and the methods that
  spend (`sendtoaddress`, `sendrawtransaction`) are not. With another list ExecutedAsTold
  would be false: a relayer that spent without answering would be followed by a peer.
* `AttestationAssumption`: clearlist ids are natural numbers, 0 possible; a manifest
  holds at least one approval.

### The durable tape

That no power loss takes a record back needs that the stage before the
acknowledgement has synced the tape, and that recovery is accepted needs that an
anchor ahead of the acknowledged log is only possible when the tape on disk is
exactly that long. `IInv` has:

* `SettledInv`: the acknowledged log verifies and every entry in doubt is one it
  admits, so either outcome of a crash verifies;
* `TapeInv`: every image of the tape is the acknowledged log or one doubtful
  entry longer, with no complete line that fails to parse;
* `AnchorInv`: an anchor on disk is absent, is the acknowledged log, or is ahead
  of it and then names every image of the tape;
* `ClosedInv`, `OpeningInv`, `IdleInv`, `AppendingInv`, `AnchoringInv`: what each
  stage has done to the tape; the last one carries the argument: before the
  rename the tape on disk is one synced image;
* `HandleInv`: a handle without poison knows what its callers know.

Lemmas say what sets of disk images do under a write or a sync (`DiskFacts`,
`ImageFacts`) and what verified logs are (`VerifiesAppend`, `PossibleFacts`,
`VerifiesOnce`). `Implements` reuses the invariant:
opening and acknowledging settle an entry, aborting and a clean reopen give up, every
other step stutters.

### The witness

WitnessFirst speaks of what is acknowledged; between that and the witness's log stand
requests that may be answered late, refused, or run after their caller is gone. `NetInv`:
a request somebody still waits for is the one its caller planned, on the log it has.
`AskingInv`: an answer to an open names a log the witness held since the open began.
`OpenInv`: an open copy's log is on the witness and goes on from where the witness was
then. `StoredInv`: the witness has the entry before the local tape is touched.
`WitnessInv`, `AckedInv`, `AppendingInv`, `IdleInv` complete it. The witness only grows
(`WitnessGrows`), so what is a prefix of it stays one; a request nobody waits for may
still make it grow, and disturbs no other part.

Two prefixes of one log are one a prefix of the other, so OneHistory follows: two
collators that never speak to each other acknowledge no two histories. NothingTakenBack needs
`KnowsInv` besides: a collator that opens asks a witness that has all it ever
acknowledged, and opens only a tape that goes on from there.

### The Node tape and its feed

* The file. `Shaped`: it is made of pieces of entry texts, each after the piece before it
  in its text. `OrderInv` is BreaksShowAsGaps of **every prefix** of the file. The
  property alone is not inductive: an entry joined to a torn line is no entry, but a
  power loss may cut the file where the torn line, or the joined one, becomes a line
  that parses again. `LastInv`: nothing on the tape is ahead of the process.
* Loss. `LossInv` counts a line that is torn and has cost nothing yet: the next entry
  will be lost on it.
* The index. `IndexInv`: until the first power loss every index that may be on disk was
  built from the file as it was when it had that size, and that part of the file is still
  there. After it, this holds of the saved one if it is not longer than the tape; a
  running server has saved one that is not, so an append goes to a file no shorter.
  Accepting it by size is therefore right, until a second power loss.
* The line without its newline. `UnendedInv`: it is what a fault left, and the entry on it,
  if it is whole, is the newest the process knows of and none was appended since.
* The replay. `Handled(off)`: the text read and not handled mirrors the file from the
  start of a line, `off`; every complete line before it that was asked for has been
  sent, and nothing of the tape as it was at TAPE_SUB that was sent has a number as
  great as what follows. Sent means received or dropped. `Mirrors` allows for the halves
  of a character that two reads replaced. `ReplayInv`: such an `off` exists, and what
  stands beyond the size the tape had is sent by the broadcast. `DoneInv` is what is
  left of this at the end. The lemmas: what appending does to the offsets of a file
  (`GrownOffset`, `GrownKeeps`, `GrownOrdered`); a read (`MirrorsMore`); a line that is
  taken (`LineSent`, `LineRead`, `LineDone`); the end (`ReadToTheEnd`).
* The start. `StartFacts`: when no number is missing on the tape, `findStartOffset` skips
  no entry that was asked for. Offsets are looked up by position: with none missing, the
  block starts before the one at hand are at least as many as the blocks before it, a
  count of one finite set against another. Without the condition this is false, which
  is the finding of tape_replay.

* What stays. LinesStay and ReturnedIsWritten are about steps, and need of `IInv` only
  that the file is made of pieces; NothingLostUntorn is LossBounded with no fault, and
  `CutInv`, that a cut is a fault.
* The end of a replay. ReplayEnds is for TLC; what it rests on but the fairness is
  proved. A step reads on, and only below the size the tape had when the replay began
  (`ReadMoves`); or it shortens what was read and is to be handled; or it comes back
  from a yield; and appends move neither.

### SUBMIT

`WaitingInv` says of a handler that waits that what it checked before is still true: an
order of its target's id and its own trader is on the tape (`Written`: where a reader
finds it, or joined by this process), it saw the copies of its id that were not evicted,
its session was no suspect, a clean answer of the IP service and a yes of the clearlist
are of a time since it asked or, from a cache, of less than the TTL before. `OwnerInv`:
whoever an id belongs to wrote an order of it that is on the tape in that sense. What
`Written` says is not lost by an append, since a readable line is ended or is the last
and then joined by the process that runs (`WrittenKept`); and a restart takes the owners
from what can be read (`LoadedFacts`), while the cancels that stay have their targets
before them (`CutTape`). `SeenInv` relates the LRU set to the tape: what is seen more
recently than an id of this process came after it on the tape, and an id that is no longer
seen has at least as many other ids after it as the set holds. `SeenAfter` and `IdsIn` are
sets, and the lemmas on `LruSet.add` say what moves in them when an id is refreshed or
evicted. `TapeInv` numbers the restarts. `WorldInv`: the cached answers were true less
than a TTL before they run out, and every suspect is flagged.

### RPC routing

`OpenInv`: until its timer is stopped, a forwarded call has no reply; `OnceInv` and
`AnswerInv` are RepliedOnce and AnswersOwnCall of one call. `PendingInv` and `GoneInv`
tie the table to the ids and the channels: an entry is found under the id of its call,
and a closed websocket that carried one offer has no channel. An answer of a stray
session is settled like any other (`SettleStep`); what AnswersOwnCall says of the others
follows from `AnswerInv`. `TableInv` is the order of the advertisements, which
inserting, replacing and removing one keep total.

For NoCallForgotten and UnsharedIdFindsItsCall, `KeptInv` and `OwnInv` of one call are
carried beside `IInv`. The table is indexed by ids that come from callers, and a second
call with an id takes the place of the first, whose timer still ends it. The theorem says
that nothing else can go wrong there: ids that differ keep their calls apart.

### Sessions and the rate limiter

`RateInv` is the account of a bucket: what was let through and what it still holds came
out of the burst and of the time up to its last refill, which lies between the session's start
and the latest time its clock has shown. It is proved for any width of a token and any
moves of the clock, and needs a few facts on products (`ProductFacts`). `NewestInv`,
`HandlerInv`, `LeftInv` and `ChannelInv` say which connection each of the interleaved
handlers can go on with, and which channels a closed session leaves.

SubmitsWithinRate counts from a session's start, and would allow one that was quiet for
an hour to send an hour's worth at once. RateFromAnyMoment excludes that: `Since` is the
account of the bucket from any moment on, and the bucket then held at most one burst.

### Gateway

`StageInv`, `CallInv` and `ReplyInv` count: how far a handler is bounds how often the
relayer and a peer can have executed its request. They hold of one request alone, so a
step needs looking at for the request it moves only. `IdInv` says which ids a request
can have; that an answer found by its id is of a request with that id, and executed,
gives `Done` (`SettleStep`), which nothing takes back (`DoneKept`). That the table has
one entry to an id is in TypeOK: a call that comes with an id takes the entry's place.
The table of routes enters by lemmas that read off what the routes have in common: who
falls back to which method, and that none of these is a public method that spends.

### Attestations

What must be on file (`expected`) is on file whenever nobody writes (`ServedInv`). A run
that is alone is the only one under way, and nobody writes into its file (`AloneInv`), so
nothing changes between its read and its write: what it will write keeps what must be on
file of every other subject (`KeepsInv`), and has its own approval last (`OutInv`). A file
that does not parse has no items (`FileInv`), so the manifest and the next run make the
same of it. The lemmas are about the filter: `Nth` counts places in order (`NthFacts`: by
the pigeonhole, each rank is taken once), so `Kept` has each item that stays once and in
its order, and an upsert keeps one approval of a subject, clearlist 0 excepted.

### Only model-checked

* Liveness (EventuallyWritable, CallsReturn, ReplayEnds, CallsEnd, EveryCallReplied,
  RequestsAnswered, PeersServe): fairness and ENABLED are out of the prover's reach.
* What TapeFile's and TokenBucket's functions return was not proved against a second
  definition: the modules have one each, without recursion, and the lemmas used above are
  about that one.

## 5. Not modelled

* Bytes, signatures, canonical JSON and schemas: pure functions on data, abstracted
  to identities.
* File permissions, symlinks and ssh options; a file system that lies about syncs
  (`DURABLE_TAPE.md:69-71` excludes it too); rewriting of local files by somebody
  else; the OS lock itself.
* Status codes, parameters, headers and CORS of the HTTP server, and the paths by
  which a peer asks its full node: Gateway keeps whether a request was executed, and
  whether its reply is good, a refusal or an error.
* ICE candidates, which change nothing the collator keeps; what the WebRTC library
  does inside.
* Eviction from the cache of IP lookups at its maximum (`LruMap`), a session without an
  address, and ASN and VPN as two flags: Admission has the cache without a maximum.
  BitVM status (a report made of files), the audit log (written, never read) and the
  smoke scripts (clients that run a scenario) keep no state another part depends on.
* A second TAPE_SUB on the same session: TapeFeed has one replay per connection.
* How DurableTape's file system orders unsynced writes within a file: what a power loss
  leaves of one is a prefix.

Three things the code does that the properties leave out rather than hide: the late
close of an older channel that makes a session deaf (`index.ts:1236`; the exception in
UsesNewestChannel), approvals of clearlist 0 that pile up (TypeOK and NewestServed of
Attestations), and an index that comes back in a second power loss (`cuts < 2`). Nothing
in `PROJECT.json` counts them as covered.

## 6. Plan

Done, in this order: VerifiedReplay, AckedLog, DurableTape with its proofs;
WitnessedTape; TapeFile and TapeFeed; Admission; RpcRouter; TokenBucket and
Sessions; FullNodePeer and Gateway; Attestations. Then the proofs: WitnessedTape,
Sessions, RpcRouter, Admission, Gateway, TapeFeed, Attestations; and, from the
invariants that were there, the further theorems of section 4.

Open:

1. **Composition**: Gateway's calls under random ids meet the hypothesis of
   UnsharedIdFindsItsCall of RpcRouter, those of /rpc/route that share one do not, and
   the sessions of RpcRouter that answer under any id are not in Gateway. The two
   modules abstract a call differently, so to put them together takes a third module
   with both.
2. **Liveness**: NoCallForgotten and ReplayAdvances are the safety half of
   EveryCallReplied and, but for ENABLED, of ReplayEnds. The same half of EventuallyWritable,
   CallsReturn, CallsEnd and RequestsAnswered is not stated as a theorem.
