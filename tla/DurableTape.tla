------------------------------ MODULE DurableTape ------------------------------
(***************************************************************************)
(* The single-writer durable tape of tl-collator-wire/durable.rs: a tape   *)
(* file, a checkpoint file ("anchor") that names a prefix of it, and a     *)
(* handle that appends one verified line at a time.  One action per system *)
(* call whose failure or interruption leaves a different disk.             *)
(*                                                                         *)
(* Disk.  tape and anchor are what a running process reads back; tapeDisk  *)
(* and anchorDisk are the sets of contents a power loss may leave instead. *)
(* A write or a rename adds outcomes, a successful sync leaves exactly     *)
(* one.  An image is the records that verify plus what follows them:       *)
(* nothing, an unterminated line, or a complete line that does not parse.  *)
(* The anchor's temporary file is synced before the rename, so an anchor   *)
(* is never half written.                                                  *)
(*                                                                         *)
(* Every system call may fail, the process may be killed between any two,  *)
(* and power may be lost; MaxFaults bounds how often in one behaviour.     *)
(***************************************************************************)
EXTENDS VerifiedReplay

CONSTANTS
    MaxFaults,   \* bound on I/O errors, kills and power losses
    NoEntry,
    NoAnchor     \* no checkpoint file in the directory

ASSUME DurableAssumption ==
    /\ MaxFaults \in Nat
    /\ NoEntry \notin Entry
    /\ NoAnchor \notin Seq(Entry)

VARIABLES
    tape, tapeDisk,       \* the tape file: as read back, and after power loss
    anchor, anchorDisk,   \* the checkpoint file, likewise
    pc,                   \* where the handle is; "closed": there is none
    verified,             \* VerifiedReplay of the handle
    bytes,                \* length of the verified tape, in records
    poisoned,
    pending,              \* the entry append_inner is writing; NoEntry in open
    settled, tried,       \* history: what callers were told, see AckedLog
    faults

disk == <<tape, tapeDisk, anchor, anchorDisk>>
handle == <<pc, verified, bytes, poisoned, pending>>
vars == <<disk, handle, settled, tried, faults>>

Image == [recs : Seq(Entry), tail : {"clean", "torn", "junk"}]

Stages == {"closed", "trim", "trimsync", "resync", "open",
           "write", "sync", "abort", "anchor", "dirsync"}

\* The whole log fits the owner index, at every stage of an open handle.
TypeOK ==
    /\ tape \in Image
    /\ tapeDisk \subseteq Image
    /\ anchor \in Seq(Entry) \cup {NoAnchor}
    /\ anchorDisk \subseteq Seq(Entry) \cup {NoAnchor}
    /\ pc \in Stages
    /\ verified \in Seq(Entry)
    /\ Len(verified) <= MaxEntries
    /\ bytes \in Nat
    /\ poisoned \in BOOLEAN
    /\ pending \in Entry \cup {NoEntry}
    /\ settled \in Seq(Entry)
    /\ tried \subseteq Entry
    /\ faults \in 0 .. MaxFaults

Init ==
    /\ settled \in LegacyLogs
    /\ tape \in [recs : {settled}, tail : {"clean", "torn"}]
    /\ tapeDisk = {tape}
    /\ anchor = NoAnchor
    /\ anchorDisk = {NoAnchor}
    /\ pc = "closed"
    /\ verified = <<>>
    /\ bytes = 0
    /\ poisoned = FALSE
    /\ pending = NoEntry
    /\ tried = {}
    /\ faults = 0

Fault ==
    /\ faults < MaxFaults
    /\ faults' = faults + 1

----------------------------------------------------------------------------
(* What a write leaves in the file. *)

Truncated(img, n) == [recs |-> SubSeq(img.recs, 1, n), tail |-> "clean"]

\* A whole line written at offset n of a file that may be longer: the rest of
\* an overwritten line stays unless the new one covers it.
Written(img, n, entry) ==
    [recs : {Append(SubSeq(img.recs, 1, n), entry)},
     tail : {"clean", img.tail} \cup (IF Len(img.recs) > n THEN {"junk"} ELSE {})]

\* Some of its bytes: no newline yet.
PartWritten(img, n) == [recs |-> SubSeq(img.recs, 1, n), tail |-> "torn"]

----------------------------------------------------------------------------
(* Opening: lock, scan, repair, catch the anchor up. *)

\* scan: every complete record verifies and the anchored prefix is there.
\* An unterminated last record is not an error here.
Accepts(img, anch) ==
    /\ img.tail # "junk"
    /\ Verifies(img.recs)
    /\ anch # NoAnchor => IsPrefix(anch, img.recs)

MayImport(img, anch, mode) ==
    anch = NoAnchor /\ img.recs # <<>> => mode = "ExplicitVerifiedImport"

OnlyFirstAnchor(log) == anchor = NoAnchor

NeedsAnchor(log) == anchor = NoAnchor \/ Len(log) > Len(anchor)

\* The handle is returned: its checkpoint is what the caller now knows.
Return(log) ==
    /\ pc' = "open"
    /\ settled' = log
    /\ tried' = IF log = settled THEN tried ELSE {}

\* A tape that is ahead of its anchor is synced and anchored first.
Reconcile(log) ==
    IF NeedsAnchor(log)
    THEN pc' = "resync" /\ UNCHANGED <<settled, tried>>
    ELSE Return(log)

RefusesTorn(mode) ==
    /\ pc = "closed"
    /\ anchorDisk' = {anchor}
    /\ IF Accepts(tape, anchor) /\ MayImport(tape, anchor, mode) /\ tape.tail # "torn"
       THEN /\ verified' = tape.recs
            /\ bytes' = Len(tape.recs)
            /\ Reconcile(tape.recs)
       ELSE UNCHANGED <<pc, verified, bytes, settled, tried>>
    /\ UNCHANGED <<tape, tapeDisk, anchor, poisoned, pending, faults>>

\* open_inner up to its first write.  Refusing (a bad line, an anchor the tape
\* does not reach, unanchored history) leaves the files as they are, but the
\* directory has been synced before the anchor was read.
Open(mode) ==
    /\ pc = "closed"
    /\ anchorDisk' = {anchor}
    /\ IF Accepts(tape, anchor) /\ MayImport(tape, anchor, mode)
       THEN /\ verified' = tape.recs
            /\ bytes' = Len(tape.recs)
            /\ \/ /\ tape.tail = "torn"
                  /\ pc' = "trim"
                  /\ UNCHANGED <<settled, tried>>
               \/ /\ tape.tail # "torn"
                  /\ Reconcile(tape.recs)
       ELSE UNCHANGED <<pc, verified, bytes, settled, tried>>
    /\ UNCHANGED <<tape, tapeDisk, anchor, poisoned, pending, faults>>

\* set_len: only the unterminated suffix goes.
Trim ==
    /\ pc = "trim"
    /\ tape' = Truncated(tape, bytes)
    /\ tapeDisk' = tapeDisk \cup {tape'}
    /\ pc' = "trimsync"
    /\ UNCHANGED <<anchor, anchorDisk, verified, bytes, poisoned, pending,
                   settled, tried, faults>>

\* The sync after the trim, and the one before the anchor is caught up.
TrimSync ==
    /\ pc = "trimsync"
    /\ tapeDisk' = {tape}
    /\ Reconcile(verified)
    /\ UNCHANGED <<tape, anchor, anchorDisk, verified, bytes, poisoned, pending,
                   faults>>

Resync ==
    /\ pc = "resync"
    /\ tapeDisk' = {tape}
    /\ pc' = "anchor"
    /\ UNCHANGED <<tape, anchor, anchorDisk, verified, bytes, poisoned, pending,
                   settled, tried, faults>>

----------------------------------------------------------------------------
(* Appending. *)

\* append_inner up to its first write: the line is verified against the index.
BeginAppend(line) ==
    /\ pc = "open"
    /\ ~poisoned
    /\ Admits(verified, line)
    /\ pending' = line.entry
    /\ tried' = tried \cup {line.entry}
    /\ pc' = "write"
    /\ UNCHANGED <<disk, verified, bytes, poisoned, settled, faults>>

\* NeedsRecovery, or a line the verifier refuses: nothing changes.
RefuseAppend(line) ==
    /\ pc = "open"
    /\ poisoned \/ ~Admits(verified, line)
    /\ UNCHANGED vars

WriteTape ==
    /\ pc = "write"
    /\ tape' \in Written(tape, bytes, pending)
    /\ tapeDisk' = tapeDisk \cup {PartWritten(tape, bytes), tape'}
    /\ pc' = "sync"
    /\ UNCHANGED <<anchor, anchorDisk, verified, bytes, poisoned, pending,
                   settled, tried, faults>>

WriteTapeFails ==
    /\ pc = "write"
    /\ Fault
    /\ tape' \in {tape, PartWritten(tape, bytes)}
    /\ tapeDisk' = tapeDisk \cup {tape'}
    /\ pc' = "abort"
    /\ UNCHANGED <<anchor, anchorDisk, verified, bytes, poisoned, pending,
                   settled, tried>>

SyncTapeSkipped ==
    /\ pc = "sync"
    /\ pc' = "anchor"
    /\ UNCHANGED <<disk, verified, bytes, poisoned, pending, settled, tried,
                   faults>>

SyncTape ==
    /\ pc = "sync"
    /\ tapeDisk' = {tape}
    /\ pc' = "anchor"
    /\ UNCHANGED <<tape, anchor, anchorDisk, verified, bytes, poisoned, pending,
                   settled, tried, faults>>

SyncTapeFails ==
    /\ pc = "sync"
    /\ Fault
    /\ pc' = "abort"
    /\ UNCHANGED <<disk, verified, bytes, poisoned, pending, settled, tried>>

\* abort_partial: back to the old length, synced; the caller gets the I/O error.
Abort ==
    /\ pc = "abort"
    /\ tape' = Truncated(tape, bytes)
    /\ tapeDisk' = {tape'}
    /\ pc' = "open"
    /\ pending' = NoEntry
    /\ tried' = {}
    /\ UNCHANGED <<anchor, anchorDisk, verified, bytes, poisoned, settled, faults>>

\* set_len or its sync fails: no more writes through this handle.
AbortFails ==
    /\ pc = "abort"
    /\ Fault
    /\ tape' \in {tape, Truncated(tape, bytes)}
    /\ tapeDisk' = tapeDisk \cup {tape'}
    /\ poisoned' = TRUE
    /\ pc' = "open"
    /\ pending' = NoEntry
    /\ UNCHANGED <<anchor, anchorDisk, verified, bytes, settled, tried>>

----------------------------------------------------------------------------
(* write_anchor, for an append and at the end of an open. *)

Goal == IF pending = NoEntry THEN verified ELSE Append(verified, pending)

RenameAnchor ==
    /\ pc = "anchor"
    /\ anchor' = Goal
    /\ anchorDisk' = anchorDisk \cup {Goal}
    /\ pc' = "dirsync"
    /\ UNCHANGED <<tape, tapeDisk, verified, bytes, poisoned, pending, settled,
                   tried, faults>>

SyncDirectorySkipped ==
    /\ pc = "dirsync"
    /\ verified' = Goal
    /\ bytes' = Len(Goal)
    /\ pending' = NoEntry
    /\ Return(Goal)
    /\ UNCHANGED <<disk, poisoned, faults>>

\* The directory is synced: the append is acknowledged, or the handle returned.
SyncDirectory ==
    /\ pc = "dirsync"
    /\ anchorDisk' = {anchor}
    /\ verified' = Goal
    /\ bytes' = Len(Goal)
    /\ pending' = NoEntry
    /\ Return(Goal)
    /\ UNCHANGED <<tape, tapeDisk, anchor, poisoned, faults>>

RollsBackAnchorFailure ==
    /\ pc \in {"anchor", "dirsync"}
    /\ pending # NoEntry
    /\ Fault
    /\ pc' = "abort"
    /\ UNCHANGED <<disk, verified, bytes, poisoned, pending, settled, tried>>

\* CommitUnknown: the anchor may or may not have been renamed, so the tape is
\* not rolled back and the handle is poisoned.
AnchorFails ==
    /\ pc \in {"anchor", "dirsync"}
    /\ pending # NoEntry
    /\ Fault
    /\ poisoned' = TRUE
    /\ pc' = "open"
    /\ pending' = NoEntry
    /\ UNCHANGED <<disk, verified, bytes, settled, tried>>

----------------------------------------------------------------------------
(* The end of a handle. *)

Closed ==
    /\ pc' = "closed"
    /\ verified' = <<>>
    /\ bytes' = 0
    /\ poisoned' = FALSE
    /\ pending' = NoEntry
    /\ UNCHANGED <<settled, tried>>

\* A poisoned handle is dropped by its owner, to be opened again.
Restart ==
    /\ pc = "open"
    /\ poisoned
    /\ Closed
    /\ UNCHANGED <<disk, faults>>

\* The process is killed, or an I/O error makes open return early: the lock is
\* released and the files stay as they are.
Kill ==
    /\ pc # "closed"
    /\ Fault
    /\ Closed
    /\ UNCHANGED disk

PowerLoss ==
    /\ Fault
    /\ Closed
    /\ tape' \in tapeDisk
    /\ tapeDisk' = {tape'}
    /\ anchor' \in anchorDisk
    /\ anchorDisk' = {anchor'}

----------------------------------------------------------------------------

ImportModes == {"RequireAnchor", "ExplicitVerifiedImport"}

\* The caller's lines: chained to the current head, or to an older one.
Lines == [prev : {verified, <<>>}, entry : Entry]

Opening == \E mode \in ImportModes : Open(mode)

Progress ==
    \/ Trim \/ TrimSync \/ Resync
    \/ WriteTape \/ SyncTape \/ Abort
    \/ RenameAnchor \/ SyncDirectory
    \/ Restart

Failure ==
    \/ WriteTapeFails \/ SyncTapeFails \/ AbortFails \/ AnchorFails
    \/ Kill \/ PowerLoss

Next ==
    \/ Opening
    \/ \E line \in Lines : BeginAppend(line) \/ RefuseAppend(line)
    \/ Progress
    \/ Failure

Spec == Init /\ [][Next]_vars

\* The process runs the call it is in to its end, and an operator opens a
\* closed tape and replaces a poisoned handle.
FairSpec == Spec /\ WF_vars(Opening) /\ WF_vars(Progress)

----------------------------------------------------------------------------
(* Properties. *)

\* What the complete records of the tape may be: the log callers were told of,
\* or one entry more.
PossibleLogs == {settled} \cup {Append(settled, entry) : entry \in tried}

\* No power loss takes back a record of the log a caller was told of, and at
\* most one record, one that was offered since, can appear behind it: the claim
\* of the append protocol that an entry is acknowledged only when the tape, the
\* anchor and the directory are synced.
OnlyOfferedInDoubt == \A img \in tapeDisk : img.recs \in PossibleLogs

\* Whatever pair of tape and anchor a power loss leaves, the next open accepts
\* it: no crash, I/O error or failed rollback leaves an anchor that points past
\* the tape or a tape that does not verify.
RecoveryAccepted ==
    \A img \in tapeDisk, anch \in anchorDisk : Accepts(img, anch)

\* A checkpoint file on disk covers everything callers were told of, and there
\* is one whenever a handle was returned, so a tape cut back behind an
\* acknowledged record, or replaced, does not pass the next open's scan.
AnchorCoversSettled ==
    \A anch \in anchorDisk :
        IF anch = NoAnchor
        THEN pc \notin {"open", "write", "sync", "abort"}
        ELSE IsPrefix(settled, anch)

\* An order is on the tape at most once, and a cancel or replace only behind
\* its target, whatever crashed in between: a retry after an append whose fate
\* the caller could not know is refused if the first attempt survived.
OrdersOnce ==
    \A img \in tapeDisk : \A i \in DOMAIN img.recs :
        LET order == img.recs[i].order
        IN  /\ \A j \in DOMAIN img.recs : img.recs[j].order = order => j = i
            /\ TargetOf[order] # NoTarget =>
                  \E j \in 1 .. i - 1 :
                      /\ img.recs[j].order = TargetOf[order]
                      /\ TraderOf[TargetOf[order]] = TraderOf[order]

----------------------------------------------------------------------------
(* The inductive invariant behind the properties above. *)

SettledInv ==
    /\ Verifies(settled)
    /\ \A entry \in tried : Admits(settled, [prev |-> settled, entry |-> entry])

TapeInv ==
    /\ tape \in tapeDisk
    /\ \A img \in tapeDisk : img.recs \in PossibleLogs /\ img.tail # "junk"

\* An anchor ahead of what callers were told of names the only possible tape.
AnchorInv ==
    /\ anchor \in anchorDisk
    /\ \A anch \in anchorDisk :
           \/ anch = NoAnchor
           \/ anch = settled
           \/ anch \in PossibleLogs /\ \A img \in tapeDisk : img.recs = anch

\* What holds at each stage of a handle.
ClosedInv == pc = "closed" => verified = <<>> /\ pending = NoEntry /\ ~poisoned

OpeningInv ==
    pc \in {"trim", "trimsync", "resync"} =>
        /\ pending = NoEntry
        /\ verified = tape.recs
        /\ anchorDisk = {anchor}
        /\ pc # "trim" => tape.tail = "clean"

IdleInv ==
    pc = "open" =>
        /\ pending = NoEntry
        /\ NoAnchor \notin anchorDisk
        /\ ~poisoned => tape = [recs |-> verified, tail |-> "clean"]

AppendingInv ==
    pc \in {"write", "sync", "abort"} =>
        /\ pending \in tried
        /\ pc = "write" => tape = [recs |-> verified, tail |-> "clean"]
        /\ pc = "sync" =>
               tape = [recs |-> Append(verified, pending), tail |-> "clean"]

AnchoringInv ==
    pc \in {"anchor", "dirsync"} =>
        /\ pending \in tried \cup {NoEntry}
        /\ pending # NoEntry => NoAnchor \notin anchorDisk
        /\ tape = [recs |-> Goal, tail |-> "clean"]
        /\ tapeDisk = {tape}
        /\ pc = "dirsync" => anchor = Goal

\* An unpoisoned handle between open and acknowledgement knows exactly what
\* callers were told, and no anchor is ahead of it.
HandleInv ==
    /\ pc # "closed" => bytes = Len(verified) /\ (pc # "open" => ~poisoned)
    /\ pc \in {"open", "write", "sync", "abort"} => verified = settled
    /\ pending # NoEntry => verified = settled
    /\ pc \in {"write", "sync", "abort"} => anchorDisk = {settled}
    /\ pc = "open" /\ ~poisoned => anchorDisk = {settled}

IInv ==
    /\ TypeOK /\ SettledInv /\ TapeInv /\ AnchorInv
    /\ ClosedInv /\ OpeningInv /\ IdleInv /\ AppendingInv /\ AnchoringInv
    /\ HandleInv

----------------------------------------------------------------------------
(* Refinement and liveness. *)

Acked == INSTANCE AckedLog

\* The durable tape implements the acknowledged log.
ImplementsAckedLog == Acked!Spec

\* When failures stop, the tape becomes writable again and stays so, except
\* while an append is under way.
EventuallyWritable == []<>(pc = "open" /\ ~poisoned)

================================================================================
