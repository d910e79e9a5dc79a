------------------------------- MODULE TapeFeed -------------------------------
(***************************************************************************)
(* The live collator's tape (tape.ts) and one subscriber's feed of it      *)
(* (TAPE_SUB and the broadcast of index.ts).                               *)
(*                                                                         *)
(* The server is one event loop: a handler runs without interruption up to *)
(* its next await.  A replay awaits only after replayBatch entries, so     *)
(* while its state is "run" nothing else happens; at "yield" orders are    *)
(* appended and broadcast, to this subscriber too.                         *)
(*                                                                         *)
(* append writes with appendFileSync and never syncs.  The process may die *)
(* between two handlers or inside a write.  A power loss keeps any prefix  *)
(* of the file, and any index saveIndex has written since the last one.    *)
(*                                                                         *)
(* The subscriber's data channel may close and a new offer on the same     *)
(* websocket open another: the session and its replay live on, and what is *)
(* sent in between is dropped.                                             *)
(*                                                                         *)
(* Bounds: MaxAppends calls of append, MaxFaults deaths and power losses.  *)
(***************************************************************************)
EXTENDS TapeFile, FiniteSetsExt

CONSTANTS
    Stride,       \* idxStride
    ReplayBatch,  \* replayBatch
    Chunk,        \* the size of a read
    FromSeqs,     \* what a subscriber asks for
    MaxAppends, MaxFaults,
    Wide,         \* of the appends: orders with a character of two bytes
    NoIndex

Index == [size : Nat, offsets : SUBSET Nat]

ASSUME FeedAssumption ==
    /\ {Stride, ReplayBatch, Chunk} \subseteq Nat \ {0}
    /\ FromSeqs \subseteq Nat \ {0}
    /\ {MaxAppends, MaxFaults} \subseteq Nat
    /\ Wide \subseteq Nat
    /\ NoIndex \notin Index

VARIABLES
    file, savedIndex,   \* the files: the tape and its index
    oldIndexes,         \* what a power loss may leave of the index
    up,                 \* the server runs
    last,               \* lastSeq and lastHash: the entry append chains to
    index,              \* idx, or NoIndex
    wantsTape, dcOpen,  \* of the subscriber's session; sess.dc is open
    sub,                \* its replay: "none", "run", "yield", "done"
    from, size, pos, sent, lastSent,   \* locals of replayFromSeq
    text,               \* its parts that are not handled yet, and its carry
    ended,              \* lastSeq of the TAPE_END it was sent, or -1
    appends, faults,
    told,               \* history: the entries append has returned
    got,                \* history: the entries sent to the subscriber
    dropped,            \* history: the entries sent while no channel was open
    lastAtSub,          \* history: lastSeq when it subscribed
    cuts                \* history: power losses

saved == <<savedIndex, oldIndexes>>
disk == <<file, saved>>
replay == <<sub, from, size, pos, text, sent, lastSent, ended>>
channel == <<wantsTape, dcOpen>>
heard == <<got, dropped>>
session == <<channel, replay, heard, lastAtSub>>
vars == <<disk, up, last, index, session, appends, faults, told, cuts>>

Hashes == 0 .. MaxAppends
Entry == [seq : Nat, hash : Hashes, prev : Hashes, wide : BOOLEAN]
Message == [seq : Nat, hash : Hashes \cup {-1}, prev : Hashes, wide : BOOLEAN]
Piece == [entry : Entry, piece : 0 .. 3 \cup {Replaced}]

TypeOK ==
    /\ file \in Seq(Piece)
    /\ savedIndex \in Index \cup {NoIndex}
    /\ oldIndexes \subseteq Index \cup {NoIndex}
    /\ up \in BOOLEAN
    /\ last \in Entry
    /\ index \in Index \cup {NoIndex}
    /\ wantsTape \in BOOLEAN /\ dcOpen \in BOOLEAN
    /\ sub \in {"none", "run", "yield", "done"}
    /\ {from, size, pos, sent, lastSent} \subseteq Nat
    /\ text \in Seq(Piece)
    /\ sent < ReplayBatch
    /\ ended \in Nat \cup {-1}
    /\ appends \in 0 .. MaxAppends /\ faults \in 0 .. MaxFaults
    /\ told \subseteq Entry
    /\ got \in Seq(Message) /\ dropped \subseteq Message
    /\ lastAtSub \in Nat
    /\ cuts \in Nat

NoReplay ==
    /\ sub = "none" /\ from = 0 /\ size = 0 /\ pos = 0
    /\ text = <<>> /\ sent = 0 /\ lastSent = 0 /\ ended = -1

Init ==
    /\ file = <<>> /\ savedIndex = NoIndex /\ oldIndexes = {NoIndex}
    /\ up = FALSE
    /\ last = Genesis
    /\ index = NoIndex
    /\ wantsTape = FALSE /\ dcOpen = TRUE
    /\ NoReplay
    /\ appends = 0 /\ faults = 0
    /\ told = {} /\ got = <<>> /\ dropped = {} /\ lastAtSub = 0
    /\ cuts = 0

\* The subscriber's connection is gone, and its session with it; the next one
\* has a channel of its own.
EndSession ==
    /\ wantsTape' = FALSE /\ dcOpen' = TRUE
    /\ sub' = "none"
    /\ from' = 0 /\ size' = 0 /\ pos' = 0
    /\ text' = <<>>
    /\ sent' = 0 /\ lastSent' = 0 /\ ended' = -1
    /\ got' = <<>> /\ dropped' = {} /\ lastAtSub' = 0

----------------------------------------------------------------------------
(* The store. *)

\* Mutant: an append-only tape's older index will do.
FreshIfNotLonger == savedIndex # NoIndex /\ savedIndex.size <= Len(file)

\* loadOrBuildIndex: the saved index counts as fresh if it was built from a
\* file of this size; otherwise it is rebuilt and saved.
Fresh == savedIndex # NoIndex /\ savedIndex.size = Len(file)

LoadOrBuildIndex ==
    /\ index' = IF Fresh THEN savedIndex ELSE BuildIndex(file, Stride)
    /\ savedIndex' = index'
    /\ oldIndexes' = oldIndexes \cup {index'}

\* The constructor: loadFromDisk, then the index.
Start ==
    /\ ~up
    /\ up' = TRUE
    /\ last' = NewestEntry(file)
    /\ LoadOrBuildIndex
    /\ UNCHANGED <<file, session, appends, faults, told, cuts>>

\* The handlers of a replay run alone until it yields.
Idle == up /\ sub # "run" /\ appends < MaxAppends

NextEntry ==
    [seq |-> last.seq + 1, hash |-> appends + 1, prev |-> last.hash,
     wide |-> appends + 1 \in Wide]

\* sendDc: without an open channel a message is dropped.
SendDc(e) ==
    /\ got' = IF dcOpen THEN Append(got, e) ELSE got
    /\ dropped' = IF dcOpen THEN dropped ELSE dropped \cup {e}

\* append, then the broadcast: the SUBMIT handler after its last await.
AppendOrder ==
    /\ Idle
    /\ appends' = appends + 1
    /\ file' = file \o Written(NextEntry)
    /\ last' = NextEntry
    /\ index' = NoIndex
    /\ told' = told \cup {NextEntry}
    /\ IF wantsTape THEN SendDc(NextEntry) ELSE UNCHANGED heard
    /\ UNCHANGED <<saved, up, channel, replay, lastAtSub, faults, cuts>>

\* What a dead process forgets: its memory and its sessions.
Forget ==
    /\ up' = FALSE
    /\ last' = Genesis
    /\ index' = NoIndex
    /\ EndSession

\* Mutant: the entry is returned before its write has ended.
ReturnsBeforeWritten(k) ==
    /\ Idle /\ faults < MaxFaults
    /\ faults' = faults + 1
    /\ appends' = appends + 1
    /\ file' = file \o SubSeq(Written(NextEntry), 1, k)
    /\ told' = told \cup {NextEntry}
    /\ Forget
    /\ UNCHANGED <<saved, cuts>>

\* The process dies in appendFileSync, or the write fails half-way: append
\* throws in a handler nobody catches, which ends the process too.
TornAppend(k) ==
    /\ Idle /\ faults < MaxFaults
    /\ faults' = faults + 1
    /\ appends' = appends + 1
    /\ file' = file \o SubSeq(Written(NextEntry), 1, k)
    /\ Forget
    /\ UNCHANGED <<saved, told, cuts>>

Kill ==
    /\ up
    /\ Forget
    /\ UNCHANGED <<disk, appends, faults, told, cuts>>

\* Nothing was synced: any prefix of the tape is left, and an index that was
\* saved since the last power loss, or one that cannot be read.  What is left
\* of the index then is on disk.
PowerLoss ==
    /\ faults < MaxFaults
    /\ faults' = faults + 1
    /\ cuts' = cuts + 1
    /\ \E n \in 0 .. Len(file) : file' = SubSeq(file, 1, n)
    /\ savedIndex' \in oldIndexes \cup {NoIndex}
    /\ oldIndexes' = {savedIndex'}
    /\ Forget
    /\ UNCHANGED <<appends, told>>

----------------------------------------------------------------------------
(* The subscriber. *)

\* Its websocket closes.  (A replay under way goes on and sends nothing.)
Disconnect ==
    /\ up /\ sub # "run"
    /\ wantsTape
    /\ EndSession
    /\ UNCHANGED <<disk, up, last, index, appends, faults, told, cuts>>

\* dc.onclose: its session and its replay live on without a channel.
ChannelLost ==
    /\ up /\ sub # "run"
    /\ wantsTape /\ dcOpen
    /\ dcOpen' = FALSE
    /\ UNCHANGED <<disk, up, last, index, wantsTape, replay, heard, lastAtSub,
                   appends, faults, told, cuts>>

\* A new offer on the same websocket, and its channel opens.
ChannelBack ==
    /\ up /\ sub # "run"
    /\ ~dcOpen
    /\ dcOpen' = TRUE
    /\ UNCHANGED <<disk, up, last, index, wantsTape, replay, heard, lastAtSub,
                   appends, faults, told, cuts>>

\* Mutant: the session wants the tape only once its replay is over.
SubscribesAfterReplay(f) ==
    /\ up /\ sub = "none" /\ file # <<>>
    /\ lastAtSub' = last.seq
    /\ from' = f
    /\ size' = Len(file)
    /\ sub' = "run"
    /\ IF index = NoIndex THEN LoadOrBuildIndex ELSE UNCHANGED <<saved, index>>
    /\ pos' = FindStartOffset(index', Stride, f)
    /\ UNCHANGED <<file, up, last, channel, text, sent, lastSent, ended,
                   heard, appends, faults, told, cuts>>

\* TAPE_SUB, as far as the first read: the entries broadcast from here on are
\* the subscriber's too.  Without a tape file TAPE_END follows at once.
Subscribe(f) ==
    /\ up /\ sub = "none"
    /\ wantsTape' = TRUE
    /\ lastAtSub' = last.seq
    /\ from' = f
    /\ size' = Len(file)
    /\ IF file = <<>>
       THEN /\ sub' = "done" /\ ended' = last.seq
            /\ UNCHANGED <<saved, index, pos>>
       ELSE /\ sub' = "run" /\ UNCHANGED ended
            /\ IF index = NoIndex THEN LoadOrBuildIndex
                                  ELSE UNCHANGED <<saved, index>>
            /\ pos' = FindStartOffset(index', Stride, f)
    /\ UNCHANGED <<file, up, last, dcOpen, text, sent, lastSent, heard, appends,
                   faults, told, cuts>>

\* Lines are handled before more is read.
NoLine == \A i \in DOMAIN text : text[i] # NL

\* Mutant: the unfinished last line stays among the lines to handle.
LastPartNotPopped ==
    /\ sub = "run" /\ NoLine /\ pos < size
    /\ pos' = Min({pos + Chunk, Len(file)})
    /\ LET read == text \o Decoded(SubSeq(file, pos + 1, pos'))
           carry == CHOOSE n \in 1 .. Len(read) + 1 :
                       /\ n = 1 \/ read[n - 1] = NL
                       /\ \A i \in n .. Len(read) : read[i] # NL
       IN  text' = read \o <<NL>> \o SubSeq(read, carry, Len(read))
    /\ UNCHANGED <<disk, up, last, index, channel, sub, from, size, sent,
                   lastSent, ended, heard, lastAtSub, appends, faults, told, cuts>>

\* The next Chunk pieces, which may lie beyond size when the tape has grown.
ReadChunk ==
    /\ sub = "run" /\ NoLine /\ pos < size
    /\ pos' = Min({pos + Chunk, Len(file)})
    /\ text' = text \o Decoded(SubSeq(file, pos + 1, pos'))
    /\ UNCHANGED <<disk, up, last, index, channel, sub, from, size, sent,
                   lastSent, ended, heard, lastAtSub, appends, faults, told, cuts>>

Wanted(line) == Parses(line) /\ line[1].entry.seq >= from

\* The line of n pieces that is next.
Take(n) ==
    /\ sub = "run"
    /\ FirstLine(text, SubSeq(text, 1, n))
    /\ text' = SubSeq(text, n + 2, Len(text))

SkipLine(n) ==
    /\ Take(n)
    /\ ~Wanted(SubSeq(text, 1, n))
    /\ UNCHANGED <<disk, up, last, index, channel, sub, from, size, pos,
                   sent, lastSent, ended, heard, lastAtSub, appends, faults, told, cuts>>

Send(n) ==
    LET line == SubSeq(text, 1, n)
    IN  /\ Take(n)
        /\ Wanted(line)
        /\ SendDc(Parsed(line))
        /\ lastSent' = line[1].entry.seq

\* Mutant: the batch is one entry too long.
BatchOffByOne(n) ==
    /\ Send(n)
    /\ sent' = sent + 1
    /\ sub' = IF sent >= ReplayBatch THEN "yield" ELSE sub
    /\ UNCHANGED <<disk, up, last, index, channel, from, size, pos,
                   ended, lastAtSub, appends, faults, told, cuts>>

\* onEntry; after replayBatch of them the loop is yielded to.
SendLine(n) ==
    /\ Send(n)
    /\ IF sent + 1 >= ReplayBatch
       THEN sent' = 0 /\ sub' = "yield"
       ELSE sent' = sent + 1 /\ UNCHANGED sub
    /\ UNCHANGED <<disk, up, last, index, channel, from, size, pos,
                   ended, lastAtSub, appends, faults, told, cuts>>

Resume ==
    /\ sub = "yield"
    /\ sub' = "run"
    /\ UNCHANGED <<disk, up, last, index, channel, from, size, pos, text,
                   sent, lastSent, ended, heard, lastAtSub, appends, faults, told, cuts>>

\* Mutant: the end is looked for at exactly the size the tape had.
EndsAtExactSize ==
    /\ sub = "run" /\ NoLine /\ pos = size
    /\ sub' = "done"
    /\ ended' = IF dcOpen THEN Max({lastSent, last.seq}) ELSE -1
    /\ UNCHANGED <<disk, up, last, index, channel, from, size, pos, text,
                   sent, lastSent, heard, lastAtSub, appends, faults, told, cuts>>

\* The tape has been read as far as size: TAPE_END, if a channel is open.
Finish ==
    /\ sub = "run" /\ NoLine /\ pos >= size
    /\ sub' = "done"
    /\ ended' = IF dcOpen THEN Max({lastSent, last.seq}) ELSE -1
    /\ UNCHANGED <<disk, up, last, index, channel, from, size, pos, text,
                   sent, lastSent, heard, lastAtSub, appends, faults, told, cuts>>

Replay ==
    \/ ReadChunk
    \/ \E n \in 0 .. Len(text) - 1 : SkipLine(n) \/ SendLine(n)
    \/ Resume
    \/ Finish

Next ==
    \/ Start
    \/ AppendOrder
    \/ \E k \in DOMAIN Written(NextEntry) : TornAppend(k)
    \/ Kill
    \/ PowerLoss
    \/ Disconnect
    \/ ChannelLost
    \/ ChannelBack
    \/ \E f \in FromSeqs : Subscribe(f)
    \/ Replay

Spec == Init /\ [][Next]_vars

\* The loop comes back to a handler that awaits setImmediate.
FairSpec == Spec /\ WF_vars(Replay)

----------------------------------------------------------------------------
(* Properties. *)

\* The entries every reader finds.
CompleteEntries == {EntryAt(file, off) : off \in Terminated(file)}

\* The lines of the tape stand in the order of their sequence numbers, no two claim
\* one, and two with consecutive numbers are linked by prevHash: where the chain on
\* disk is broken, a number is missing, whatever tears, deaths and power losses the
\* file has been through (append numbers from what loadFromDisk found).
BreaksShowAsGaps ==
    \A p, q \in Offsets(file) :
        LET d == EntryAt(file, p)
            e == EntryAt(file, q)
        IN  p < q => /\ d.seq < e.seq
                     /\ e.seq = d.seq + 1 => e.prev = d.hash

\* A torn write costs at most one entry that append has returned: the next one,
\* which lands on the torn line.
LossBounded ==
    cuts = 0 => Cardinality(told \ Entries(file)) <= faults

\* The index a replay starts from is the one a scan of the tape would build, and
\* so is a saved one that isIndexFresh would accept: equal sizes mean equal tapes,
\* even when a power loss has cut the tape and brought an older index back, since
\* the next start replaces one that is longer than the tape.  (The replaced one
\* may come back in a second power loss, when the tape has grown to its size.)
IndexExact ==
    cuts < 2 =>
        /\ index # NoIndex => index = BuildIndex(file, Stride)
        /\ (savedIndex # NoIndex /\ savedIndex.size = Len(file))
               => savedIndex = BuildIndex(file, Stride)

\* No number is missing on the tape.
NoneMissing ==
    \A e \in CompleteEntries :
        \A s \in 1 .. e.seq : \E d \in CompleteEntries : d.seq = s

Received == {got[i] : i \in DOMAIN got}
Sent == Received \cup dropped

\* When a line without a newline is all that a fault left of a write, loadFromDisk
\* counts its entry and no replay sends it.
LeftUnended(e) ==
    /\ e \notin CompleteEntries
    /\ faults > 0 /\ e.seq = lastAtSub

\* A subscriber that has TAPE_END was sent every entry of the tape from fromSeq up
\* to the lastSeq it names, the ones appended while the replay yielded
\* included, when no number is missing on the tape.  It lacks those alone that
\* were sent while its channel was closed, and at most the one that was the newest
\* when it asked, if a fault left its line without a newline.  One with a character
\* that is not a single byte may come garbled: each read is decoded on its own.
\* (A second power loss may bring back the index of another tape: IndexExact.)
EndComplete ==
    sub = "done" /\ NoneMissing /\ cuts < 2
        => \A e \in Entries(file) :
               e.seq \in from .. ended =>
                   \/ e \in Sent
                   \/ e.wide /\ Garbled(e) \in Sent
                   \/ LeftUnended(e)

\* What was on the tape when TAPE_SUB came is sent once and in order, however the
\* replay and the broadcast interleave.  (From the index of another tape, which a
\* second power loss may bring back, a replay can begin inside a line.)
ReplayedOnceInOrder ==
    cuts < 2 =>
        \A i, j \in DOMAIN got :
            i < j /\ got[i].seq <= lastAtSub /\ got[j].seq <= lastAtSub
                => got[i].seq < got[j].seq

\* A replay ends in TAPE_END (or with the connection; a closed channel does not stop
\* it): it reads no further than the size the tape had, however fast orders arrive.
ReplayEnds == sub \in {"run", "yield"} ~> sub \in {"none", "done"}

\* src/README.md:7: "Append-only tape (NDJSON) with hash-chain".
TapeIsHashChain ==
    \A q \in Offsets(file) :
        LET earlier == Before(Offsets(file), q)
        IN  EntryAt(file, q).prev =
                IF earlier = {} THEN 0 ELSE EntryAt(file, Max(earlier)).hash

\* test/tape.test.js:14: "TapeStore builds index and replays entries >= fromSeq",
\* for the entries that were on the tape when the subscriber asked.
ReplaysFromSeq ==
    sub = "done" => \A e \in CompleteEntries :
                        e.seq \in from .. lastAtSub =>
                            \E g \in Received : g.seq = e.seq

================================================================================
