-------------------------- MODULE Attestations_proofs --------------------------
(***************************************************************************)
(* Proofs about Attestations: for every set of places, clearlists and      *)
(* shells, every length of a manifest, and any number of runs of the       *)
(* script.                                                                 *)
(***************************************************************************)
EXTENDS Attestations, TLAPS, FiniteSetTheorems, SequenceTheorems

(* The inductive invariant. *)

\* One approval of a subject, except for clearlist 0.
OneEach(list) ==
    \A i, j \in DOMAIN list :
        list[i].subject = list[j].subject => i = j \/ list[i].subject.clearlist = 0

FileInv ==
    /\ OneEach(file.list)
    /\ file.text # "whole" => file.list = <<>>

\* A run under way is to write its own approval last.
OutInv(s) ==
    run[s].at # "idle" =>
        /\ OneEach(run[s].out)
        /\ run[s].out # <<>>
        /\ Last(run[s].out) \in Approval
        /\ Last(run[s].out).no <= signed

\* A run that is said to be alone is: nobody writes with it.
AloneInv(s) ==
    run[s].at # "idle" /\ run[s].alone => Active = {s} /\ ~run[s].mixed

Has(list, subject, no) == [subject |-> subject, no |-> no] \in ToSet(list)

\* What a run that is alone will write still has what must be on file of the others.
KeepsInv(s) ==
    run[s].at # "idle" /\ run[s].alone =>
        \A t \in Subject \ {Last(run[s].out).subject} :
            expected[t] # 0 => Has(run[s].out, t, expected[t])

\* While nobody writes, what must be on file is.
ServedInv ==
    Writing = {} => \A t \in Subject : expected[t] # 0 => Has(file.list, t, expected[t])

IInv ==
    /\ TypeOK /\ FileInv /\ ServedInv /\ NewestServed
    /\ \A s \in Signers : OutInv(s) /\ AloneInv(s) /\ KeepsInv(s)

----------------------------------------------------------------------------
(* What a filter leaves. *)

\* A place's rank among places is how many come before it: each rank below their
\* number is taken, by one place, and a later place has a greater one.
LEMMA NthFacts ==
    ASSUME NEW places \in SUBSET Nat, IsFiniteSet(places)
    PROVE  /\ Cardinality(places) \in Nat
           /\ \A n \in 1 .. Cardinality(places) : Nth(places, n) \in places
           /\ \A m, n \in 1 .. Cardinality(places) :
                 m < n => Nth(places, m) < Nth(places, n)
           /\ \A i \in places : \E n \in 1 .. Cardinality(places) : Nth(places, n) = i
<1> DEFINE Below(i) == {j \in places : j < i}
           size == Cardinality(places)
           Ranks == 0 .. size - 1
           rank == [i \in places |-> Cardinality(Below(i))]
<1>1. size \in Nat
  BY FS_CardinalityType
<1>2. ASSUME NEW i \in places
      PROVE  /\ IsFiniteSet(Below(i)) /\ rank[i] = Cardinality(Below(i))
             /\ rank[i] \in Ranks
  <2>1. IsFiniteSet(places \ {i}) /\ Cardinality(places \ {i}) = size - 1
    BY FS_RemoveElement
  <2>2. Below(i) \in SUBSET (places \ {i})
    OBVIOUS
  <2>3. /\ IsFiniteSet(Below(i)) /\ Cardinality(Below(i)) <= size - 1
    BY <2>1, <2>2, FS_Subset
  <2>4. Cardinality(Below(i)) \in Nat
    BY <2>3, FS_CardinalityType
  <2> QED
    BY <1>1, <2>3, <2>4
<1>3. ASSUME NEW i \in places, NEW j \in places, i < j
      PROVE  rank[i] < rank[j]
  <2>1. Below(i) \in SUBSET Below(j) /\ i \in Below(j) /\ i \notin Below(i)
    <3>1. \A k \in places : k \in Nat
      OBVIOUS
    <3>2. \A k \in places : k < i => k < j
      BY <1>3, <3>1
    <3>3. ~(i < i)
      BY <3>1
    <3> QED
      BY <1>3, <3>2, <3>3
  <2>2. Cardinality(Below(i)) <= Cardinality(Below(j)) /\ Below(i) # Below(j)
    BY <1>2, <2>1, FS_Subset
  <2>3. Cardinality(Below(i)) # Cardinality(Below(j))
    BY <1>2, <2>1, <2>2, FS_Subset
  <2>4. Cardinality(Below(i)) \in Nat /\ Cardinality(Below(j)) \in Nat
    BY <1>2, FS_CardinalityType
  <2> QED
    BY <1>2, <2>2, <2>3, <2>4
<1>4. \A i, j \in places : rank[i] = rank[j] => i = j
  <2> SUFFICES ASSUME NEW i \in places, NEW j \in places, rank[i] = rank[j]
               PROVE  i = j
    OBVIOUS
  <2>1. i \in Nat /\ j \in Nat /\ rank[i] \in Nat /\ rank[j] \in Nat
    BY <1>1, <1>2
  <2>2. (i < j => rank[i] < rank[j]) /\ (j < i => rank[j] < rank[i])
    BY <1>3
  <2>3. ~(rank[i] < rank[j]) /\ ~(rank[j] < rank[i])
    <3> HIDE DEF rank
    <3> QED
      BY <2>1
  <2>4. ~(i < j) /\ ~(j < i)
    BY <2>2, <2>3
  <2>5. i \in Nat /\ j \in Nat
    BY <2>1
  <2> HIDE DEF rank
  <2> QED
    BY <2>4, <2>5
<1>5. IsFiniteSet(Ranks) /\ Cardinality(Ranks) = size
  <2>1. PICK b \in Int : b = size - 1
    BY <1>1
  <2>2. /\ IsFiniteSet(0 .. b)
        /\ Cardinality(0 .. b) = IF 0 > b THEN 0 ELSE b - 0 + 1
    BY FS_Interval
  <2> HIDE DEF size
  <2> QED
    BY <1>1, <2>1, <2>2
<1>6. rank \in Injection(places, Ranks)
  <2>1. rank \in [places -> Ranks]
    BY <1>2
  <2> HIDE DEF rank, Ranks
  <2> QED
    BY <1>4, <2>1 DEF Injection, IsInjective
<1>7. rank \in Surjection(places, Ranks)
  BY <1>5, <1>6, FS_Injection
<1>8. \A r \in Ranks : \E i \in places : rank[i] = r
  <2> HIDE DEF rank, Ranks
  <2> QED
    BY <1>7 DEF Surjection
<1>9. ASSUME NEW n \in 1 .. size
      PROVE  Nth(places, n) \in places /\ rank[Nth(places, n)] = n - 1
  <2>1. n - 1 \in Ranks
    BY <1>1
  <2>2. PICK i \in places : rank[i] = n - 1
    BY <1>8, <2>1
  <2>3. Cardinality({j \in places : j < i}) = n - 1
    BY <1>2, <2>2
  <2>4. /\ Nth(places, n) \in places
        /\ Cardinality({j \in places : j < Nth(places, n)}) = n - 1
    BY <2>3 DEF Nth
  <2> QED
    BY <2>4
<1>10. ASSUME NEW m \in 1 .. size, NEW n \in 1 .. size, m < n
       PROVE  Nth(places, m) < Nth(places, n)
  <2> DEFINE i == Nth(places, m)
             j == Nth(places, n)
  <2>1. /\ i \in places /\ rank[i] = m - 1 /\ i \in Nat
        /\ j \in places /\ rank[j] = n - 1 /\ j \in Nat
    BY <1>9
  <2>2. j < i => rank[j] < rank[i]
    BY <1>3, <2>1
  <2> HIDE DEF i, j, rank
  <2>3. i < j
    BY <1>1, <1>10, <2>1, <2>2
  <2> QED
    BY <2>3 DEF i, j
<1>11. ASSUME NEW i \in places
       PROVE  \E n \in 1 .. size : Nth(places, n) = i
  <2> DEFINE n == rank[i] + 1
  <2>1. n \in 1 .. size /\ n - 1 = rank[i]
    BY <1>1, <1>2
  <2>2. Nth(places, n) \in places /\ rank[Nth(places, n)] = rank[i]
    BY <1>9, <2>1
  <2>3. Nth(places, n) = i
    BY <1>4, <2>2
  <2> QED
    BY <2>1, <2>3
<1> QED
  BY <1>1, <1>9, <1>10, <1>11

\* Kept is a list of the items at these places, each once and in their order.
LEMMA KeptFacts ==
    ASSUME NEW S, NEW list \in Seq(S), NEW places \in SUBSET DOMAIN list
    PROVE  /\ Kept(list, places) \in Seq({list[i] : i \in places})
           /\ \A n \in DOMAIN Kept(list, places) :
                 /\ Nth(places, n) \in places
                 /\ Kept(list, places)[n] = list[Nth(places, n)]
           /\ \A m, n \in DOMAIN Kept(list, places) :
                 Nth(places, m) = Nth(places, n) => m = n
           /\ \A i \in places :
                 \E n \in DOMAIN Kept(list, places) : Kept(list, places)[n] = list[i]
<1> DEFINE size == Cardinality(places)
           k == Kept(list, places)
<1>1. places \in SUBSET Nat /\ IsFiniteSet(places)
  <2>1. DOMAIN list = 1 .. Len(list) /\ Len(list) \in Nat
    BY LenProperties
  <2>2. IsFiniteSet(1 .. Len(list))
    BY <2>1, FS_Interval
  <2> QED
    BY <2>1, <2>2, FS_Subset
<1>2. /\ size \in Nat
      /\ \A n \in 1 .. size : Nth(places, n) \in places
      /\ \A m, n \in 1 .. size : m < n => Nth(places, m) < Nth(places, n)
      /\ \A i \in places : \E n \in 1 .. size : Nth(places, n) = i
  BY <1>1, NthFacts
<1>3. k = [n \in 1 .. size |-> list[Nth(places, n)]]
  BY DEF Kept
<1> HIDE DEF size, k
<1>4. DOMAIN k = 1 .. size /\ \A n \in 1 .. size : k[n] = list[Nth(places, n)]
  BY <1>3
<1>5. k \in Seq({list[i] : i \in places})
  <2>1. \A n \in 1 .. size : k[n] \in {list[i] : i \in places}
    BY <1>2, <1>4
  <2> QED
    BY <1>2, <1>3, <2>1, SeqDef
<1>6. \A m, n \in 1 .. size : Nth(places, m) = Nth(places, n) => m = n
  <2>1. \A n \in 1 .. size : Nth(places, n) \in Nat
    BY <1>1, <1>2
  <2> QED
    BY <1>2, <2>1
<1> QED
  BY <1>2, <1>4, <1>5, <1>6 DEF k

----------------------------------------------------------------------------
(* The script and the manifest. *)

LEMMA ItemsAre ==
    ASSUME NEW x \in Item
    PROVE  x = Foreign \/ (x.subject \in Subject /\ x.no \in 1 .. MaxSigned)
BY DEF Item, Approval

\* Two keys of approvals are the same for one subject only.
LEMMA KeyFacts ==
    ASSUME NEW x \in Item, NEW approval \in Approval,
           ItemKey(x) = <<approval.subject.place, {approval.subject.clearlist}>>
    PROVE  x.subject = approval.subject
<1>1. x.subject = [place |-> x.subject.place, clearlist |-> x.subject.clearlist]
  <2>1. CASE x = Foreign
    BY <2>1 DEF Foreign
  <2>2. CASE x.subject \in Subject
    BY <2>2 DEF Subject
  <2> QED
    BY <2>1, <2>2, ItemsAre
<1>2. /\ x.subject.place = approval.subject.place
      /\ {x.subject.clearlist} \ {0} = {approval.subject.clearlist}
  BY DEF ItemKey
<1>3. x.subject.clearlist = approval.subject.clearlist
  BY <1>2
<1> QED
  BY <1>1, <1>2, <1>3 DEF Approval, Subject

\* The script replaces the approval of the same subject, if any, and no other; of
\* clearlist 0, none.
LEMMA UpsertFacts ==
    ASSUME NEW list \in Seq(Item), OneEach(list), NEW approval \in Approval
    PROVE  LET r == Upsert(list, approval)
           IN  /\ r \in Seq(Item) /\ r # <<>> /\ Last(r) = approval
               /\ OneEach(r)
               /\ \A t \in Subject, no \in Nat :
                     t # approval.subject /\ Has(list, t, no) => Has(r, t, no)
<1> DEFINE key == <<approval.subject.place, {approval.subject.clearlist}>>
           places == {i \in DOMAIN list : ItemKey(list[i]) # key}
           k == Kept(list, places)
           r == Upsert(list, approval)
<1>1. r = Append(k, approval)
  BY DEF Upsert
<1>2. /\ k \in Seq({list[i] : i \in places})
      /\ \A n \in DOMAIN k :
            /\ Nth(places, n) \in places
            /\ k[n] = list[Nth(places, n)]
      /\ \A m, n \in DOMAIN k : Nth(places, m) = Nth(places, n) => m = n
      /\ \A i \in places : \E n \in DOMAIN k : k[n] = list[i]
  <2>1. places \in SUBSET DOMAIN list
    OBVIOUS
  <2> HIDE DEF places
  <2> QED
    BY <2>1, KeptFacts
<1>3. \A i \in DOMAIN list : list[i] \in Item
  BY ElementOfSeq, LenProperties
<1>4. k \in Seq(Item)
  BY <1>2, <1>3
<1>5. approval \in Item
  BY DEF Item
<1> HIDE DEF places, k
<1>6. /\ r \in Seq(Item) /\ Len(r) = Len(k) + 1 /\ Len(k) \in Nat
      /\ DOMAIN k = 1 .. Len(k) /\ DOMAIN r = 1 .. Len(k) + 1
      /\ r[Len(k) + 1] = approval
      /\ \A n \in DOMAIN k : r[n] = k[n]
  BY <1>1, <1>4, <1>5, AppendProperties
<1>7. r # <<>> /\ Last(r) = approval
  BY <1>6 DEF Last
<1>8. ASSUME NEW i \in DOMAIN list, list[i].subject = approval.subject, i \in places
      PROVE  approval.subject.clearlist = 0
  <2>1. ItemKey(list[i]) # key
    BY <1>8 DEF places
  <2>2. {approval.subject.clearlist} \ {0} # {approval.subject.clearlist}
    BY <1>8, <2>1 DEF ItemKey
  <2> QED
    BY <2>2
<1>9. OneEach(r)
  <2> SUFFICES ASSUME NEW m \in DOMAIN r, NEW n \in DOMAIN r,
                      r[m].subject = r[n].subject, m # n
               PROVE  r[m].subject.clearlist = 0
    BY DEF OneEach
  <2>1. CASE m \in DOMAIN k /\ n \in DOMAIN k
    <3>1. /\ Nth(places, m) \in DOMAIN list /\ Nth(places, n) \in DOMAIN list
          /\ Nth(places, m) # Nth(places, n)
          /\ r[m] = list[Nth(places, m)] /\ r[n] = list[Nth(places, n)]
      BY <1>2, <1>6, <2>1 DEF places
    <3> QED
      BY <3>1 DEF OneEach
  <2>2. CASE m \notin DOMAIN k \/ n \notin DOMAIN k
    <3>1. PICK l \in DOMAIN k : {m, n} = {l, Len(k) + 1}
      BY <1>6, <2>2
    <3>2. r[l].subject = approval.subject /\ r[m].subject = approval.subject
      BY <1>6, <3>1
    <3>3. Nth(places, l) \in places /\ Nth(places, l) \in DOMAIN list
          /\ r[l] = list[Nth(places, l)]
      BY <1>2, <1>6 DEF places
    <3> QED
      BY <1>8, <3>2, <3>3
  <2> QED
    BY <2>1, <2>2
<1>10. ASSUME NEW t \in Subject, NEW no \in Nat, t # approval.subject, Has(list, t, no)
       PROVE  Has(r, t, no)
  <2> DEFINE x == [subject |-> t, no |-> no]
  <2>1. PICK i \in DOMAIN list : list[i] = x
    BY <1>10 DEF Has, ToSet
  <2>2. ItemKey(list[i]) # key
    <3>1. list[i] \in Item /\ list[i].subject = t
      BY <1>3, <2>1
    <3> QED
      BY <1>10, <3>1, KeyFacts
  <2>3. PICK n \in DOMAIN k : k[n] = x
    BY <1>2, <2>1, <2>2 DEF places
  <2>4. n \in DOMAIN r /\ r[n] = x
    BY <1>6, <2>3
  <2> QED
    BY <2>4 DEF Has, ToSet
<1> HIDE DEF r
<1> QED
  BY <1>6, <1>7, <1>9, <1>10 DEF r

\* The manifest lists approvals, each that is on file unless it is full of others.
LEMMA ListedFacts ==
    ASSUME TypeOK
    PROVE  /\ Listed \in Seq(Approval)
           /\ \A t \in Subject, no \in Nat \ {0} :
                 Has(Read, t, no) => Has(Listed, t, no) \/ Len(Listed) = MaxListed
<1> DEFINE places == {i \in DOMAIN Read : Read[i] # Foreign}
           valid == Kept(Read, places)
           n == IF Len(valid) < MaxListed THEN Len(valid) ELSE MaxListed
<1>1. Read \in Seq(Item) /\ \A i \in DOMAIN Read : Read[i] \in Item
  <2>1. Read \in Seq(Item)
    BY DEF Read, TypeOK
  <2> QED
    BY <2>1, ElementOfSeq, LenProperties
<1>2. /\ valid \in Seq({Read[i] : i \in places})
      /\ \A i \in places : \E m \in DOMAIN valid : valid[m] = Read[i]
  <2>1. places \in SUBSET DOMAIN Read
    OBVIOUS
  <2> HIDE DEF places
  <2> QED
    BY <1>1, <2>1, KeptFacts
<1>3. {Read[i] : i \in places} \subseteq Approval
  BY <1>1 DEF Item
<1>4. valid \in Seq(Approval)
  BY <1>2, <1>3
<1>5. Listed = SubSeq(valid, 1, n)
  BY DEF Listed
<1> HIDE DEF valid, places
<1>6. /\ Len(valid) \in Nat /\ n \in Nat /\ n <= Len(valid) /\ n <= MaxListed
      /\ n = Len(valid) \/ n = MaxListed
      /\ DOMAIN valid = 1 .. Len(valid)
  BY <1>4, AttestationAssumption, LenProperties
<1>7. /\ Listed \in Seq(Approval) /\ Len(Listed) = n /\ DOMAIN Listed = 1 .. n
      /\ \A m \in 1 .. n : Listed[m] = valid[m]
  <2>1. \A i \in 1 .. n : valid[i] \in Approval
    BY <1>4, <1>6, ElementOfSeq
  <2>2. PICK c \in Nat : c = n
    BY <1>6
  <2>3. /\ SubSeq(valid, 1, c) \in Seq(Approval)
        /\ Len(SubSeq(valid, 1, c)) = IF 1 <= c THEN c - 1 + 1 ELSE 0
        /\ \A m \in 1 .. c - 1 + 1 : SubSeq(valid, 1, c)[m] = valid[1 + m - 1]
    BY <2>1, <2>2, SubSeqProperties
  <2> HIDE DEF n
  <2> QED
    BY <1>5, <2>2, <2>3, LenProperties
<1>8. ASSUME NEW t \in Subject, NEW no \in Nat \ {0}, Has(Read, t, no),
             Len(Listed) # MaxListed
      PROVE  Has(Listed, t, no)
  <2> DEFINE x == [subject |-> t, no |-> no]
  <2>1. PICK i \in DOMAIN Read : Read[i] = x
    BY <1>8 DEF Has, ToSet
  <2>2. x # Foreign
    BY DEF Foreign
  <2>3. PICK m \in DOMAIN valid : valid[m] = x
    BY <1>2, <2>1, <2>2 DEF places
  <2>4. m \in DOMAIN Listed /\ Listed[m] = x
    BY <1>6, <1>7, <1>8, <2>3
  <2> QED
    BY <2>4 DEF Has, ToSet
<1> QED
  BY <1>7, <1>8

----------------------------------------------------------------------------
(* The steps. *)

\* What TypeOK says of a run.
LEMMA RunIs ==
    ASSUME TypeOK, NEW s \in Signers
    PROVE  /\ run[s].at \in {"idle", "signed", "writing"}
           /\ run[s].out \in Seq(Item)
           /\ run[s].alone \in BOOLEAN /\ run[s].mixed \in BOOLEAN
           /\ signed \in Nat /\ signed <= MaxSigned
BY AttestationAssumption DEF TypeOK

\* TypeOK's last conjunct, of a file.
LEMMA TypeParts ==
    TypeOK <=>
        /\ file \in [text : {"absent", "whole", "torn"}, list : Seq(Item)]
        /\ run \in [Signers -> [at : {"idle", "signed", "writing"}, out : Seq(Item),
                                alone : BOOLEAN, mixed : BOOLEAN]]
        /\ manifest \in [up : BOOLEAN, list : Seq(Approval), owed : [Subject -> Nat]]
        /\ signed \in 0 .. MaxSigned
        /\ expected \in [Subject -> 0 .. signed]
        /\ OneEach(file.list)
BY DEF TypeOK, OneEach

\* A step that leaves the file and the manifest leaves what is said of them.
LEMMA Untouched ==
    ASSUME FileInv, ServedInv, NewestServed,
           UNCHANGED <<file, manifest, expected>>, Writing' = Writing
    PROVE  FileInv' /\ ServedInv' /\ NewestServed'
<1>1. FileInv'
  BY DEF FileInv
<1>2. ServedInv'
  BY DEF ServedInv
<1>3. NewestServed'
  BY DEF NewestServed
<1> QED
  BY <1>1, <1>2, <1>3

\* A list that nothing is in.
LEMMA EmptyLists ==
    /\ <<>> \in Seq(Item) /\ <<>> \in Seq(Approval)
    /\ OneEach(<<>>)
BY DEF OneEach

LEMMA InitStep == Init => IInv
<1> SUFFICES ASSUME Init PROVE IInv
  OBVIOUS
<1>1. file.list \in {<<>>, <<Foreign>>} /\ file.text \in {"absent", "whole"}
      /\ file = [text |-> file.text, list |-> file.list]
      /\ (file.text # "whole" => file.list = <<>>)
  BY DEF Init
<1>2. <<Foreign>> \in Seq(Item) /\ OneEach(<<Foreign>>)
  BY DEF Item, OneEach
<1>3. TypeOK
  <2>1. signed \in 0 .. MaxSigned /\ expected \in [Subject -> 0 .. signed]
    BY AttestationAssumption DEF Init, Nothing
  <2>2. manifest \in [up : BOOLEAN, list : Seq(Approval), owed : [Subject -> Nat]]
    BY EmptyLists DEF Init, Down, Nothing
  <2>3. run \in [Signers -> [at : {"idle", "signed", "writing"}, out : Seq(Item),
                             alone : BOOLEAN, mixed : BOOLEAN]]
    BY EmptyLists DEF Init, Idle
  <2>4. /\ file \in [text : {"absent", "whole", "torn"}, list : Seq(Item)]
        /\ OneEach(file.list)
    BY <1>1, <1>2, EmptyLists
  <2> QED
    BY <2>1, <2>2, <2>3, <2>4, TypeParts
<1>4. \A t \in Subject : expected[t] = 0 /\ manifest.owed[t] = 0
  BY DEF Init, Nothing, Down
<1>5. \A s \in Signers : run[s].at = "idle"
  BY DEF Init, Idle
<1> QED
  BY <1>1, <1>2, <1>3, <1>4, <1>5, EmptyLists
     DEF IInv, FileInv, ServedInv, NewestServed, OutInv, AloneInv, KeepsInv

LEMMA SignStep ==
    ASSUME IInv, NEW s \in Signers, NEW subject \in Subject, Sign(s, subject)
    PROVE  IInv'
<1> DEFINE approval == [subject |-> subject, no |-> signed']
           out == Upsert(Read, approval)
<1>1. /\ signed' \in 0 .. MaxSigned /\ signed' = signed + 1 /\ signed \in Nat
      /\ approval \in Approval
  BY AttestationAssumption DEF Sign, IInv, TypeOK, Approval
<1>2. Read \in Seq(Item) /\ OneEach(Read)
  BY EmptyLists DEF IInv, TypeOK, FileInv, Read
<1>3. /\ out \in Seq(Item) /\ out # <<>> /\ Last(out) = approval /\ OneEach(out)
      /\ \A t \in Subject, no \in Nat :
            t # subject /\ Has(Read, t, no) => Has(out, t, no)
  <2> HIDE DEF approval
  <2>1. approval.subject = subject
    BY DEF approval
  <2> QED
    BY <1>1, <1>2, <2>1, UpsertFacts
<1>4. /\ run[s].at = "idle" /\ UNCHANGED <<file, manifest, expected>>
      /\ run' = [r \in Signers |->
                    IF r = s
                    THEN [at |-> "signed", alone |-> Active = {}, mixed |-> FALSE,
                          out |-> out]
                    ELSE [run[r] EXCEPT !.alone = FALSE]]
  BY DEF Sign
<1> HIDE DEF out
<1>5. /\ run'[s].at = "signed" /\ run'[s].out = out /\ run'[s].mixed = FALSE
      /\ run'[s].alone <=> Active = {}
  BY <1>4
<1>6. \A r \in Signers \ {s} :
          /\ run'[r].at = run[r].at /\ run'[r].out = run[r].out
          /\ run'[r].mixed = run[r].mixed /\ run'[r].alone = FALSE
  BY <1>4 DEF IInv, TypeOK
<1>7. Writing' = Writing /\ Active' = Active \cup {s}
  BY <1>4, <1>5, <1>6 DEF Writing, Active
<1>8. TypeOK'
  <2>1. run' \in [Signers -> [at : {"idle", "signed", "writing"}, out : Seq(Item),
                              alone : BOOLEAN, mixed : BOOLEAN]]
    BY <1>3, <1>4 DEF IInv, TypeOK
  <2>2. expected' \in [Subject -> 0 .. signed']
    BY <1>1, <1>4 DEF IInv, TypeOK
  <2> QED
    BY <1>1, <1>4, <2>1, <2>2 DEF IInv, TypeOK
<1>9. FileInv' /\ ServedInv' /\ NewestServed'
  BY <1>4, <1>7, Untouched DEF IInv
<1>10. ASSUME NEW r \in Signers PROVE OutInv(r)'
  <2>1. CASE r = s
    <3>1. Last(out).no <= signed'
      BY <1>1, <1>3
    <3> QED
      BY <1>1, <1>3, <1>5, <2>1, <3>1 DEF OutInv
  <2>2. CASE r # s
    <3>1. run'[r].at = run[r].at /\ run'[r].out = run[r].out
      BY <1>6, <2>2
    <3>2. ASSUME run[r].at # "idle"
          PROVE  /\ OneEach(run[r].out) /\ run[r].out # <<>>
                 /\ Last(run[r].out) \in Approval /\ Last(run[r].out).no <= signed'
      <4>1. /\ OneEach(run[r].out) /\ run[r].out # <<>>
            /\ Last(run[r].out) \in Approval /\ Last(run[r].out).no <= signed
        BY <3>2 DEF IInv, OutInv
      <4>2. Last(run[r].out).no \in Nat
        BY <4>1 DEF Approval
      <4> QED
        BY <1>1, <4>1, <4>2
    <3> QED
      BY <3>1, <3>2 DEF OutInv
  <2> QED
    BY <2>1, <2>2
<1>11. \A r \in Signers : AloneInv(r)'
  BY <1>5, <1>6, <1>7 DEF AloneInv
<1>12. ASSUME Active = {}, NEW t \in Subject \ {subject}, expected[t] # 0
       PROVE  Has(out, t, expected[t])
  <2>1. Writing = {}
    BY <1>12 DEF Active, Writing
  <2>2. Has(file.list, t, expected[t])
    BY <1>12, <2>1 DEF IInv, ServedInv
  <2>3. file.text = "whole"
    BY <2>2 DEF IInv, FileInv, Has, ToSet
  <2>4. expected[t] \in Nat
    BY <1>1 DEF IInv, TypeOK
  <2> QED
    BY <1>3, <2>2, <2>3, <2>4 DEF Read
<1>13. \A r \in Signers : KeepsInv(r)'
  <2>1. Last(out).subject = subject
    BY <1>3
  <2> QED
    BY <1>4, <1>5, <1>6, <1>12, <2>1 DEF KeepsInv
<1> QED
  BY <1>8, <1>9, <1>10, <1>11, <1>13 DEF IInv

LEMMA WriteStep ==
    ASSUME IInv, NEW s \in Signers, Write(s)
    PROVE  IInv'
<1>1. /\ run[s].at = "signed" /\ UNCHANGED <<manifest, signed, expected>>
      /\ run' = [r \in Signers |->
                    IF r \in Writing \cup {s}
                    THEN [run[r] EXCEPT !.at = "writing", !.mixed = Writing # {}]
                    ELSE run[r]]
      /\ file' = [text |-> "torn", list |-> <<>>]
  BY DEF Write
<1>2. \A r \in Signers :
          /\ run'[r].out = run[r].out /\ run'[r].alone = run[r].alone
          /\ run'[r].at = IF r = s THEN "writing" ELSE run[r].at
          /\ run'[r].mixed = IF r \in Writing \cup {s} THEN Writing # {} ELSE run[r].mixed
  BY <1>1 DEF IInv, TypeOK, Writing
<1>3. ASSUME NEW r \in Signers
      PROVE  /\ run'[r].at = "idle" <=> run[r].at = "idle"
             /\ run'[r].out = run[r].out /\ run'[r].alone = run[r].alone
  <2>1. CASE r = s
    <3>1. run[r].at = "signed" /\ run'[r].at = "writing"
      BY <1>1, <1>2, <2>1
    <3> QED
      BY <1>2, <3>1
  <2>2. CASE r # s
    BY <1>2, <2>2
  <2> QED
    BY <2>1, <2>2
<1>active. Active' = Active /\ s \in Writing'
  BY <1>2, <1>3 DEF Active, Writing
<1>4. TypeOK'
  <2>1. run' \in [Signers -> [at : {"idle", "signed", "writing"}, out : Seq(Item),
                              alone : BOOLEAN, mixed : BOOLEAN]]
    <3> DEFINE both == Writing # {}
               Run == [at : {"idle", "signed", "writing"}, out : Seq(Item),
                       alone : BOOLEAN, mixed : BOOLEAN]
    <3>1. \A r \in Signers : run[r] \in Run
      BY DEF IInv, TypeOK
    <3>2. both \in BOOLEAN
      OBVIOUS
    <3> HIDE DEF both
    <3>3. \A r \in Signers : [run[r] EXCEPT !.at = "writing", !.mixed = both] \in Run
      BY <3>1, <3>2
    <3>4. run' = [r \in Signers |->
                     IF r \in Writing \cup {s}
                     THEN [run[r] EXCEPT !.at = "writing", !.mixed = both]
                     ELSE run[r]]
      BY <1>1 DEF both
    <3> QED
      BY <3>1, <3>3, <3>4
  <2>2. file' \in [text : {"absent", "whole", "torn"}, list : Seq(Item)]
        /\ OneEach(file'.list)
    BY <1>1, EmptyLists
  <2>3. /\ manifest' \in [up : BOOLEAN, list : Seq(Approval), owed : [Subject -> Nat]]
        /\ signed' \in 0 .. MaxSigned
        /\ expected' \in [Subject -> 0 .. signed']
    BY <1>1 DEF IInv, TypeOK
  <2> QED
    BY <2>1, <2>2, <2>3 DEF TypeOK, OneEach
<1>5. FileInv' /\ ServedInv' /\ NewestServed'
  <2>1. FileInv'
    BY <1>1, EmptyLists DEF FileInv
  <2>2. ServedInv'
    BY <1>active DEF ServedInv
  <2>3. NewestServed'
    BY <1>1 DEF IInv, NewestServed
  <2> QED
    BY <2>1, <2>2, <2>3
<1>6. ASSUME NEW r \in Signers PROVE OutInv(r)' /\ KeepsInv(r)'
  <2>1. OutInv(r) /\ KeepsInv(r)
    BY DEF IInv
  <2>2. OutInv(r)'
    BY <1>1, <1>3, <2>1 DEF OutInv
  <2>3. KeepsInv(r)'
    BY <1>1, <1>3, <2>1 DEF KeepsInv
  <2> QED
    BY <2>2, <2>3
<1>7. ASSUME NEW r \in Signers, run'[r].at # "idle", run'[r].alone
      PROVE  Active' = {r} /\ ~run'[r].mixed
  <2>1. Active = {r}
    BY <1>3, <1>7 DEF IInv, AloneInv
  <2>2. r = s
    BY <1>1, <2>1 DEF Active
  <2>3. Writing = {}
    BY <1>1, <2>1, <2>2 DEF Active, Writing
  <2> QED
    BY <1>2, <1>active, <2>1, <2>2, <2>3
<1> QED
  BY <1>4, <1>5, <1>6, <1>7 DEF IInv, AloneInv

LEMMA FinishStep ==
    ASSUME IInv, NEW s \in Signers, Finish(s)
    PROVE  IInv'
<1> DEFINE out == run[s].out
           mine == Last(out)
<1>file. \/ file' = [text |-> "whole", list |-> out]
         \/ run[s].mixed /\ file' = [text |-> "torn", list |-> <<>>]
  BY DEF Finish
<1>1. /\ run[s].at = "writing" /\ run' = [run EXCEPT ![s] = Idle]
      /\ expected' = [(IF run[s].alone THEN expected ELSE Nothing)
                         EXCEPT ![mine.subject] =
                             IF file'.text = "whole" THEN mine.no ELSE 0]
      /\ UNCHANGED <<manifest, signed>>
  BY DEF Finish
<1>whole. /\ \/ file'.text = "whole" /\ file'.list = out
             \/ run[s].mixed /\ file'.text = "torn" /\ file'.list = <<>>
          /\ file' = [text |-> file'.text, list |-> file'.list]
  BY <1>file
<1>2. /\ out \in Seq(Item) /\ out # <<>> /\ OneEach(out)
      /\ mine \in Approval /\ mine.no <= signed
      /\ mine.subject \in Subject /\ mine.no \in Nat /\ signed \in Nat
  <2>1. OneEach(out) /\ out # <<>> /\ mine \in Approval /\ mine.no <= signed
    BY <1>1 DEF IInv, OutInv
  <2>2. out \in Seq(Item) /\ signed \in Nat
    BY RunIs DEF IInv
  <2>3. mine.subject \in Subject /\ mine.no \in Nat
    BY <2>1 DEF Approval
  <2> QED
    BY <2>1, <2>2, <2>3
<1>3. mine \in ToSet(out) /\ mine = [subject |-> mine.subject, no |-> mine.no]
  <2>1. Len(out) \in DOMAIN out
    BY <1>2, EmptySeq, LenProperties
  <2>2. mine = out[Len(out)]
    BY DEF Last
  <2>3. mine = [subject |-> mine.subject, no |-> mine.no]
    BY <1>2 DEF Approval
  <2> QED
    BY <2>1, <2>2, <2>3 DEF ToSet
<1>4. /\ run'[s].at = "idle"
      /\ \A r \in Signers \ {s} : run'[r] = run[r]
  BY <1>1 DEF IInv, TypeOK, Idle
<1>5. /\ expected' \in [Subject -> 0 .. signed]
      /\ expected'[mine.subject] = IF file'.text = "whole" THEN mine.no ELSE 0
      /\ \A t \in Subject \ {mine.subject} :
            expected'[t] = IF run[s].alone THEN expected[t] ELSE 0
  <2> DEFINE old == IF run[s].alone THEN expected ELSE Nothing
             new == IF file'.text = "whole" THEN mine.no ELSE 0
  <2>1. old \in [Subject -> 0 .. signed]
    BY <1>2 DEF IInv, TypeOK, Nothing
  <2>2. new \in 0 .. signed
    BY <1>2
  <2>3. \A t \in Subject : old[t] = IF run[s].alone THEN expected[t] ELSE 0
    BY DEF Nothing
  <2>4. expected' = [old EXCEPT ![mine.subject] = new]
    BY <1>1
  <2> HIDE DEF old, new, mine
  <2>5. /\ expected' \in [Subject -> 0 .. signed]
        /\ expected'[mine.subject] = new
        /\ \A t \in Subject \ {mine.subject} : expected'[t] = old[t]
    BY <1>2, <2>1, <2>2, <2>4
  <2> QED
    BY <2>3, <2>5 DEF new
<1> HIDE DEF out, mine
<1>6. file'.list \in Seq(Item) /\ OneEach(file'.list)
  BY <1>whole, <1>2, EmptyLists
<1>7. TypeOK'
  <2>1. run' \in [Signers -> [at : {"idle", "signed", "writing"}, out : Seq(Item),
                              alone : BOOLEAN, mixed : BOOLEAN]]
    <3>1. Idle \in [at : {"idle", "signed", "writing"}, out : Seq(Item),
                    alone : BOOLEAN, mixed : BOOLEAN]
      BY EmptyLists DEF Idle
    <3> HIDE DEF Idle
    <3> QED
      BY <1>1, <3>1 DEF IInv, TypeOK
  <2>2. file' \in [text : {"absent", "whole", "torn"}, list : Seq(Item)]
    BY <1>whole, <1>6
  <2>3. /\ manifest' \in [up : BOOLEAN, list : Seq(Approval), owed : [Subject -> Nat]]
        /\ signed' \in 0 .. MaxSigned
        /\ expected' \in [Subject -> 0 .. signed']
    BY <1>1, <1>5 DEF IInv, TypeOK
  <2> QED
    BY <1>6, <2>1, <2>2, <2>3 DEF TypeOK, OneEach
<1>8. FileInv' /\ NewestServed'
  <2>1. FileInv'
    BY <1>whole, <1>6 DEF FileInv
  <2>2. NewestServed'
    BY <1>1 DEF IInv, NewestServed
  <2> QED
    BY <2>1, <2>2
<1>9. ASSUME Writing' = {}, NEW t \in Subject, expected'[t] # 0
      PROVE  Has(file'.list, t, expected'[t])
  <2>1. file'.text = "whole" /\ file'.list = out
    <3>1. CASE t = mine.subject
      BY <1>whole, <1>5, <1>9, <3>1
    <3>2. CASE t # mine.subject
      <4>1. run[s].alone
        BY <1>5, <1>9, <3>2
      <4>2. ~run[s].mixed
        BY <1>1, <4>1 DEF IInv, AloneInv
      <4> QED
        BY <1>whole, <4>2
    <3> QED
      BY <3>1, <3>2
  <2>2. CASE t = mine.subject
    BY <1>3, <1>5, <2>1, <2>2 DEF Has
  <2>3. CASE t # mine.subject
    <3>1. run[s].alone /\ expected'[t] = expected[t] /\ expected[t] # 0
      BY <1>5, <1>9, <2>3
    <3>2. Has(out, t, expected[t])
      BY <1>1, <2>3, <3>1 DEF IInv, KeepsInv, out, mine
    <3> QED
      BY <2>1, <3>1, <3>2
  <2> QED
    BY <2>2, <2>3
<1>10. ASSUME NEW r \in Signers
       PROVE  OutInv(r)' /\ AloneInv(r)' /\ KeepsInv(r)'
  <2>1. CASE r = s
    BY <1>4, <2>1 DEF OutInv, AloneInv, KeepsInv
  <2>2. CASE r # s
    <3>1. run'[r] = run[r] /\ OutInv(r) /\ AloneInv(r)
      BY <1>4, <2>2 DEF IInv
    <3>2. OutInv(r)'
      BY <1>1, <3>1 DEF OutInv
    <3>3. ~(run[r].at # "idle" /\ run[r].alone)
      BY <1>1, <2>2, <3>1 DEF AloneInv, Active
    <3> QED
      BY <3>1, <3>2, <3>3 DEF AloneInv, KeepsInv
  <2> QED
    BY <2>1, <2>2
<1>11. ServedInv'
  BY <1>9 DEF ServedInv
<1> QED
  BY <1>7, <1>8, <1>10, <1>11 DEF IInv

LEMMA KilledStep ==
    ASSUME IInv, NEW s \in Signers, Killed(s)
    PROVE  IInv'
<1>1. /\ run[s].at # "idle" /\ run' = [run EXCEPT ![s] = Idle]
      /\ expected' = IF run[s].at = "writing" THEN Nothing ELSE expected
      /\ UNCHANGED <<file, manifest, signed>>
  BY DEF Killed
<1>2. /\ run'[s].at = "idle"
      /\ \A r \in Signers \ {s} : run'[r] = run[r]
  BY <1>1 DEF IInv, TypeOK, Idle
<1>3. TypeOK'
  <2>1. run' \in [Signers -> [at : {"idle", "signed", "writing"}, out : Seq(Item),
                              alone : BOOLEAN, mixed : BOOLEAN]]
    <3>1. Idle \in [at : {"idle", "signed", "writing"}, out : Seq(Item),
                    alone : BOOLEAN, mixed : BOOLEAN]
      BY EmptyLists DEF Idle
    <3> HIDE DEF Idle
    <3> QED
      BY <1>1, <3>1 DEF IInv, TypeOK
  <2>2. expected' \in [Subject -> 0 .. signed']
    BY <1>1, RunIs DEF IInv, TypeOK, Nothing
  <2> QED
    BY <1>1, <2>1, <2>2 DEF IInv, TypeOK
<1>4. FileInv' /\ NewestServed'
  BY <1>1 DEF IInv, FileInv, NewestServed
<1>5. ServedInv'
  <2>1. CASE run[s].at = "writing"
    BY <1>1, <2>1 DEF ServedInv, Nothing
  <2>2. CASE run[s].at # "writing"
    <3>1. Writing' = Writing
      BY <1>2, <2>2 DEF Writing
    <3> QED
      BY <1>1, <2>2, <3>1 DEF IInv, ServedInv
  <2> QED
    BY <2>1, <2>2
<1>6. ASSUME NEW r \in Signers
      PROVE  OutInv(r)' /\ AloneInv(r)' /\ KeepsInv(r)'
  <2>1. CASE r = s
    BY <1>2, <2>1 DEF OutInv, AloneInv, KeepsInv
  <2>2. CASE r # s
    <3>1. run'[r] = run[r] /\ OutInv(r) /\ AloneInv(r)
      BY <1>2, <2>2 DEF IInv
    <3>2. OutInv(r)'
      BY <1>1, <3>1 DEF OutInv
    <3>3. ~(run[r].at # "idle" /\ run[r].alone)
      BY <1>1, <2>2, <3>1 DEF AloneInv, Active
    <3> QED
      BY <3>1, <3>2, <3>3 DEF AloneInv, KeepsInv
  <2> QED
    BY <2>1, <2>2
<1> QED
  BY <1>3, <1>4, <1>5, <1>6 DEF IInv

LEMMA StartStep ==
    ASSUME IInv, Start
    PROVE  IInv'
<1>1. /\ UNCHANGED <<file, run, signed, expected>>
      /\ manifest' = [up |-> TRUE, list |-> Listed,
                      owed |-> IF Writing = {} THEN expected ELSE Nothing]
  BY DEF Start
<1>2. /\ Listed \in Seq(Approval)
      /\ \A t \in Subject, no \in Nat \ {0} :
            Has(Read, t, no) => Has(Listed, t, no) \/ Len(Listed) = MaxListed
  BY ListedFacts DEF IInv
<1>3. expected \in [Subject -> 0 .. signed] /\ signed \in Nat
  BY AttestationAssumption DEF IInv, TypeOK
<1>4. TypeOK'
  <2>1. (IF Writing = {} THEN expected ELSE Nothing) \in [Subject -> Nat]
    BY <1>3 DEF Nothing
  <2>2. manifest' \in [up : BOOLEAN, list : Seq(Approval), owed : [Subject -> Nat]]
    BY <1>1, <1>2, <2>1
  <2> QED
    BY <1>1, <2>2 DEF IInv, TypeOK
<1>5. ASSUME NEW t \in Subject, manifest'.owed[t] # 0
      PROVE  \/ Has(manifest'.list, t, manifest'.owed[t])
             \/ Len(manifest'.list) = MaxListed
  <2>1. Writing = {} /\ manifest'.owed[t] = expected[t] /\ expected[t] # 0
    BY <1>1, <1>5 DEF Nothing
  <2>2. Has(file.list, t, expected[t])
    BY <2>1 DEF IInv, ServedInv
  <2>3. file.text = "whole"
    BY <2>2 DEF IInv, FileInv, Has, ToSet
  <2>4. Has(Read, t, expected[t]) /\ expected[t] \in Nat \ {0}
    BY <1>3, <2>1, <2>2, <2>3 DEF Read
  <2>5. Has(Listed, t, expected[t]) \/ Len(Listed) = MaxListed
    BY <1>2, <2>4
  <2>6. manifest'.list = Listed
    BY <1>1
  <2> QED
    BY <2>1, <2>5, <2>6
<1>6. NewestServed'
  BY <1>5 DEF NewestServed, Has
<1>7. /\ FileInv' /\ ServedInv'
      /\ \A r \in Signers : OutInv(r)' /\ AloneInv(r)' /\ KeepsInv(r)'
  BY <1>1 DEF IInv, FileInv, ServedInv, Writing, OutInv, AloneInv, KeepsInv, Active
<1> QED
  BY <1>4, <1>6, <1>7 DEF IInv

LEMMA StopStep ==
    ASSUME IInv, Stop
    PROVE  IInv'
<1>1. UNCHANGED <<file, run, signed, expected>> /\ manifest' = Down
  BY DEF Stop
<1>2. Down \in [up : BOOLEAN, list : Seq(Approval), owed : [Subject -> Nat]]
  BY EmptyLists DEF Down, Nothing
<1>3. TypeOK'
  BY <1>1, <1>2 DEF IInv, TypeOK
<1>4. NewestServed'
  BY <1>1 DEF NewestServed, Down, Nothing
<1>5. /\ FileInv' /\ ServedInv'
      /\ \A r \in Signers : OutInv(r)' /\ AloneInv(r)' /\ KeepsInv(r)'
  BY <1>1 DEF IInv, FileInv, ServedInv, Writing, OutInv, AloneInv, KeepsInv, Active
<1> QED
  BY <1>3, <1>4, <1>5 DEF IInv

LEMMA StutterStep ==
    ASSUME IInv, UNCHANGED vars
    PROVE  IInv'
<1>1. UNCHANGED <<file, run, manifest, signed, expected>>
  BY DEF vars
<1>2. TypeOK' /\ NewestServed'
  BY <1>1 DEF IInv, TypeOK, NewestServed
<1>3. /\ FileInv' /\ ServedInv'
      /\ \A r \in Signers : OutInv(r)' /\ AloneInv(r)' /\ KeepsInv(r)'
  BY <1>1 DEF IInv, FileInv, ServedInv, Writing, OutInv, AloneInv, KeepsInv, Active
<1> QED
  BY <1>2, <1>3 DEF IInv

----------------------------------------------------------------------------
(* The theorems. *)

LEMMA InvariantHolds == Spec => []IInv
<1>1. ASSUME IInv, [Next]_vars PROVE IInv'
  <2>1. CASE \E s \in Signers : \E subject \in Subject : Sign(s, subject)
    BY <1>1, <2>1, SignStep
  <2>2. CASE \E s \in Signers : Write(s)
    BY <1>1, <2>2, WriteStep
  <2>3. CASE \E s \in Signers : Finish(s)
    BY <1>1, <2>3, FinishStep
  <2>4. CASE \E s \in Signers : Killed(s)
    BY <1>1, <2>4, KilledStep
  <2>5. CASE Start
    BY <1>1, <2>5, StartStep
  <2>6. CASE Stop
    BY <1>1, <2>6, StopStep
  <2>7. CASE UNCHANGED vars
    BY <1>1, <2>7, StutterStep
  <2> QED
    BY <1>1, <2>1, <2>2, <2>3, <2>4, <2>5, <2>6, <2>7 DEF Next
<1> QED
  BY <1>1, InitStep, PTL DEF Spec

\* Types, and one approval of a subject on file whatever runs die, overlap or
\* follow one another, clearlist 0 excepted (sign-infra-attestation.cjs's upsert).
THEOREM TypeCorrect == Spec => []TypeOK
<1>1. IInv => TypeOK
  BY DEF IInv
<1> QED
  BY <1>1, InvariantHolds, PTL

\* A manifest has of every subject the newest approval there was, or it is full, for
\* any number of shells that sign: an approval is lost only to a run killed in its
\* write or overlapping another, or to a start in the middle of a write.
THEOREM NewestAreServed == Spec => []NewestServed
<1>1. IInv => NewestServed
  BY DEF IInv
<1> QED
  BY <1>1, InvariantHolds, PTL

================================================================================
