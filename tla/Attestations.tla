----------------------------- MODULE Attestations -----------------------------
(***************************************************************************)
(* Approvals of a collator by a protocol admin: the script that signs them *)
(* into a shared file (scripts/sign-infra-attestation.cjs) and the         *)
(* collator that puts the file into its manifest, once, when it starts     *)
(* (manifest.ts).                                                          *)
(*                                                                         *)
(* A run of the script reads the file, replaces or adds one approval and   *)
(* writes the file anew; nothing locks it.  writeFileSync truncates first, *)
(* so a run that is killed, or a reader in between, meets a file that does *)
(* not parse.                                                              *)
(*                                                                         *)
(* Signatures, keys and dates are those of a well-formed call; an approval *)
(* is its subject and a number for the time it was signed.  The file is    *)
(* the one source of approvals (INFRA_ATTESTATIONS_JSON is not set).       *)
(*                                                                         *)
(* Bounds: MaxSigned runs of the script.                                   *)
(***************************************************************************)
EXTENDS Naturals, Sequences, SequencesExt, FiniteSets

CONSTANTS
    Places,      \* a ws URL and an infraId
    Clearlists,  \* clearlist ids, 0 among the legal ones
    Signers,     \* shells in which the script is run
    MaxListed,   \* approvals a manifest holds at most: 128
    MaxSigned

Subject == [place : Places, clearlist : Clearlists]

ASSUME AttestationAssumption ==
    /\ Clearlists \subseteq Nat
    /\ MaxListed \in Nat \ {0}
    /\ MaxSigned \in Nat

VARIABLES
    file,      \* infra-attestations.json
    run,       \* the script, per shell
    manifest,  \* of the collator, while it is up
    signed,    \* number of approvals signed
    expected   \* history: by subject, the approval that must be on file, or 0

vars == <<file, run, manifest, signed, expected>>

\* An entry written by hand that the manifest will not take.
Foreign == [subject |-> [place |-> "", clearlist |-> 0], no |-> 0]
Approval == [subject : Subject, no : 1 .. MaxSigned]
Item == Approval \cup {Foreign}

Idle == [at |-> "idle", out |-> <<>>, alone |-> TRUE, mixed |-> FALSE]
Active == {s \in Signers : run[s].at # "idle"}
Writing == {s \in Signers : run[s].at = "writing"}
Nothing == [s \in Subject |-> 0]
Down == [up |-> FALSE, list |-> <<>>, owed |-> Nothing]

Init ==
    /\ file \in {[text |-> "absent", list |-> <<>>],
                 [text |-> "whole", list |-> <<Foreign>>]}
    /\ run = [s \in Signers |-> Idle]
    /\ manifest = Down
    /\ signed = 0
    /\ expected = Nothing

----------------------------------------------------------------------------
(* The script. *)

\* An entry's key: `b.clearlistId || ''` makes nothing of clearlist 0.
ItemKey(item) == <<item.subject.place, {item.subject.clearlist} \ {0}>>

\* A missing file, and one that does not parse, count as empty.
Read == IF file.text = "whole" THEN file.list ELSE <<>>

\* What Array.filter leaves: the items at these places, in their order.
Nth(places, n) == CHOOSE i \in places : Cardinality({j \in places : j < i}) = n - 1

Kept(list, places) == [n \in 1 .. Cardinality(places) |-> list[Nth(places, n)]]

AppendsOnly(list, approval) == Append(list, approval)

UpsertsByPlace(list, approval) ==
    LET place == approval.subject.place
    IN  Append(Kept(list, {i \in DOMAIN list : list[i].subject.place # place}), approval)

Upsert(list, approval) ==
    LET key == <<approval.subject.place, {approval.subject.clearlist}>>
    IN  Append(Kept(list, {i \in DOMAIN list : ItemKey(list[i]) # key}), approval)

Sign(s, subject) ==
    /\ run[s].at = "idle"
    /\ signed < MaxSigned
    /\ signed' = signed + 1
    /\ run' = [r \in Signers |->
                  IF r = s
                  THEN [at |-> "signed", alone |-> Active = {}, mixed |-> FALSE,
                        out |-> Upsert(Read, [subject |-> subject, no |-> signed'])]
                  ELSE [run[r] EXCEPT !.alone = FALSE]]
    /\ UNCHANGED <<file, manifest, expected>>

Write(s) ==
    /\ run[s].at = "signed"
    /\ run' = [r \in Signers |->
                  IF r \in Writing \cup {s}
                  THEN [run[r] EXCEPT !.at = "writing", !.mixed = Writing # {}]
                  ELSE run[r]]
    /\ file' = [text |-> "torn", list |-> <<>>]
    /\ UNCHANGED <<manifest, signed, expected>>

\* The file is what this run wrote; two that write at once may mix.  A run that
\* was not alone answers for its own approval only.
Finish(s) ==
    LET mine == Last(run[s].out)
    IN  /\ run[s].at = "writing"
        /\ run' = [run EXCEPT ![s] = Idle]
        /\ \/ file' = [text |-> "whole", list |-> run[s].out]
           \/ run[s].mixed /\ file' = [text |-> "torn", list |-> <<>>]
        /\ expected' =
              [(IF run[s].alone THEN expected ELSE Nothing)
                  EXCEPT ![mine.subject] = IF file'.text = "whole" THEN mine.no ELSE 0]
        /\ UNCHANGED <<manifest, signed>>

\* A run that dies in its write leaves a file that the next run takes for empty.
Killed(s) ==
    /\ run[s].at # "idle"
    /\ run' = [run EXCEPT ![s] = Idle]
    /\ expected' = IF run[s].at = "writing" THEN Nothing ELSE expected
    /\ UNCHANGED <<file, manifest, signed>>

----------------------------------------------------------------------------
(* The collator. *)

\* loadInfraAttestations: the first MaxListed entries that are well formed.
Listed ==
    LET valid == Kept(Read, {i \in DOMAIN Read : Read[i] # Foreign})
    IN  SubSeq(valid, 1, IF Len(valid) < MaxListed THEN Len(valid) ELSE MaxListed)

\* buildManifest, at the start of the process and never again.
Start ==
    /\ ~manifest.up
    /\ manifest' = [up |-> TRUE, list |-> Listed,
                    owed |-> IF Writing = {} THEN expected ELSE Nothing]
    /\ UNCHANGED <<file, run, signed, expected>>

Stop ==
    /\ manifest.up
    /\ manifest' = Down
    /\ UNCHANGED <<file, run, signed, expected>>

Next ==
    \/ \E s \in Signers :
          \/ \E subject \in Subject : Sign(s, subject)
          \/ Write(s) \/ Finish(s) \/ Killed(s)
    \/ Start \/ Stop

Spec == Init /\ [][Next]_vars

----------------------------------------------------------------------------
(* Properties. *)

\* Types; and README.md's upsert: one approval of a subject on file, except for
\* clearlist 0, whose approvals pile up.
TypeOK ==
    /\ file \in [text : {"absent", "whole", "torn"}, list : Seq(Item)]
    /\ run \in [Signers -> [at : {"idle", "signed", "writing"}, out : Seq(Item),
                            alone : BOOLEAN, mixed : BOOLEAN]]
    /\ manifest \in [up : BOOLEAN, list : Seq(Approval), owed : [Subject -> Nat]]
    /\ signed \in 0 .. MaxSigned
    /\ expected \in [Subject -> 0 .. signed]
    /\ \A i, j \in DOMAIN file.list :
          file.list[i].subject = file.list[j].subject
              => i = j \/ file.list[i].subject.clearlist = 0

\* A collator offers of every subject the newest approval there was when it
\* started, though runs die and overlap around it: an approval is lost only to a
\* run that died in its write or overlapped another (Killed, Finish), or a
\* start in the middle of a write, or is cut off behind MaxListed others.
NewestServed ==
    \A s \in Subject :
        manifest.owed[s] # 0 =>
            \/ [subject |-> s, no |-> manifest.owed[s]] \in ToSet(manifest.list)
            \/ Len(manifest.list) = MaxListed

================================================================================
