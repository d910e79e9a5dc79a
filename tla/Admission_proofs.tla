--------------------------- MODULE Admission_proofs ---------------------------
(***************************************************************************)
(* Proofs about Admission: for every set of orders, ids, traders, sessions *)
(* and addresses, every configuration, every size of the set of seen ids,  *)
(* every TTL, and any number of SUBMITs, ticks and restarts.               *)
(***************************************************************************)
EXTENDS Admission, TLAPS, SequenceTheorems, FiniteSetTheorems, WellFoundedInduction

(* The inductive invariant. *)

\* The ids appended from place a to place b.
IdsIn(a, b) == {IdOf[tape[n].order] : n \in a .. b}

\* The ids seen more recently than id.
SeenAfter(s, id) == {s[q] : q \in {q \in DOMAIN s : \E p \in 1 .. q - 1 : s[p] = id}}

\* What is seen more recently than an id of this process came after it on the tape,
\* and an id is evicted only when SeenMax others did.
SeenInv ==
    \A i \in DOMAIN tape : tape[i].epoch = epoch =>
        IF IdOf[tape[i].order] \in ToSet(seen)
        THEN SeenAfter(seen, IdOf[tape[i].order]) \subseteq IdsIn(i + 1, Len(tape))
        ELSE Cardinality(IdsIn(i + 1, Len(tape))) >= SeenMax

\* An entry of the tape is of this process or an earlier one, and its handler looked
\* at what came before it.
TapeInv ==
    \A i \in DOMAIN tape : tape[i].epoch <= epoch /\ tape[i].checkedAt < i

\* An order of this id and trader is on the tape, where a reader finds it or this
\* process joined it to a line left open.
Written(id, t) ==
    \E j \in DOMAIN tape :
        /\ IdOf[tape[j].order] = id
        /\ TraderOf[tape[j].order] = t
        /\ Readable(tape, j) \/ JoinedIn(tape, j, epoch)

\* Whoever traderByOrderId says an id belongs to wrote an order of that id.
OwnerInv == \A id \in Ids : owner[id] # NoTrader => Written(id, owner[id])

\* What is outside the tape and the handlers has its type.
WorldType ==
    /\ cfg \in Configs /\ now \in 0 .. MaxTime
    /\ vpn \in [Sessions -> BOOLEAN] /\ suspects \subseteq Sessions
    /\ ipCache \in [Addresses -> [exp : Nat, verdict : Verdict]]
    /\ cache \in [Members -> [exp : Nat, allowed : BOOLEAN]]
    /\ listed \subseteq Members /\ lastListed \in [Members -> -1 .. MaxTime]
    /\ vpns \subseteq Addresses /\ lastClean \in [Addresses -> -1 .. MaxTime]

\* The cached answers of both services were true ones, and a session that the last
\* answer spoke against is flagged.
WorldInv ==
    /\ \A t \in Members :
          /\ lastListed[t] <= now
          /\ t \in listed => lastListed[t] = now
          /\ cache[t].allowed => lastListed[t] >= cache[t].exp - TTL
    /\ \A a \in Addresses :
          /\ lastClean[a] <= now
          /\ a \notin vpns => lastClean[a] = now
          /\ ipCache[a].verdict = "clean" => lastClean[a] >= ipCache[a].exp - IntelTTL
    /\ \A s \in suspects : vpn[s]

\* What the check of seen told a handler: each copy of its id on the tape by then
\* had been evicted.
NotSeen(k) ==
    \A i \in 1 .. k.checkedAt :
        IdOf[tape[i].order] = IdOf[k.order] /\ tape[i].epoch = epoch =>
            Cardinality(IdsIn(i + 1, k.checkedAt)) >= SeenMax

\* The owner of an id may change while a handler waits; the order it saw stays.
HasTarget(o) == TargetOf[o] # NoId => Written(TargetOf[o], TraderOf[o])

\* What a handler that waits found out before is still true.
WaitingInv(k) ==
    /\ k.order \in Orders /\ k.sess \in Sessions
    /\ k.checkedAt <= Len(tape) /\ NotSeen(k)
    /\ HasTarget(k.order)
    /\ ~k.flagged /\ k.asked <= now
    /\ IF k.pc \in LookingUp THEN cfg.intel ELSE k.order \in Gated
    /\ k.pc = "looked" => k.answer \in Verdict \cup {"fail"}
    /\ k.pc = "looked" /\ k.answer = "clean" => lastClean[AddressOf[k.sess]] >= k.asked
    /\ k.pc = "cached" /\ k.answer = "clean" =>
          lastClean[AddressOf[k.sess]] > k.asked - IntelTTL
    /\ k.pc = "replied" /\ k.answer = "yes" => lastListed[TraderOf[k.order]] >= k.asked
    /\ k.pc = "hit" /\ k.answer = "yes" => lastListed[TraderOf[k.order]] > k.asked - TTL

HandlerInv(k) ==
    /\ k.pc \in Waiting => WaitingInv(k)
    /\ k.flagged => k.pc # "appended"

IInv ==
    /\ TypeOK /\ TapeInv /\ SeenInv /\ OwnerInv /\ WorldInv
    /\ CancelsFollowTargets /\ DuplicatesAreRaces
    /\ \A c \in Calls : HandlerInv(call[c])

----------------------------------------------------------------------------
(* LruSet. *)

\* r is s with o last: without the one at place i, or all of it and longer by one.
Moved(s, r, o, i, n) ==
    /\ Len(r) = n /\ r[n] = o
    /\ \A q \in 1 .. n - 1 : r[q] = IF q < i THEN s[q] ELSE s[q + 1]
    /\ \/ i = Len(s) + 1 /\ n = Len(s) + 1 /\ n <= SeenMax /\ o \notin ToSet(s)
       \/ i <= Len(s) /\ n = Len(s) /\ s[i] = o
       \/ i = 1 /\ n = Len(s) /\ n = SeenMax /\ o \notin ToSet(s)

LEMMA AppendIs ==
    ASSUME NEW S, NEW s \in Seq(S), NEW e \in S
    PROVE  /\ Append(s, e) \in Seq(S) /\ Append(s, e) # <<>>
           /\ Len(Append(s, e)) = Len(s) + 1
           /\ Append(s, e)[Len(s) + 1] = e
           /\ \A q \in 1 .. Len(s) : Append(s, e)[q] = s[q]
OBVIOUS

LEMMA RemoveAtIs ==
    ASSUME NEW S, NEW s \in Seq(S), NEW i \in 1 .. Len(s)
    PROVE  /\ RemoveAt(s, i) \in Seq(S)
           /\ Len(RemoveAt(s, i)) = Len(s) - 1
           /\ \A q \in 1 .. Len(s) - 1 :
                 RemoveAt(s, i)[q] = IF q < i THEN s[q] ELSE s[q + 1]
<1> DEFINE n == Len(s)
           u == SubSeq(s, 1, i - 1)
           v == SubSeq(s, i + 1, n)
<1>1. n \in Nat /\ i \in Nat /\ 1 <= i /\ i <= n /\ \A q \in 1 .. n : s[q] \in S
  BY LenProperties
<1>2. /\ u \in Seq(S)
      /\ Len(u) = IF 1 <= i - 1 THEN i - 1 - 1 + 1 ELSE 0
      /\ \A q \in 1 .. i - 1 - 1 + 1 : u[q] = s[1 + q - 1]
  <2>1. (\A q \in 1 .. i - 1 : s[q] \in S) /\ 1 \in Int /\ i - 1 \in Int
    BY <1>1
  <2> QED
    BY <2>1, SubSeqProperties
<1>3. /\ v \in Seq(S)
      /\ Len(v) = IF i + 1 <= n THEN n - (i + 1) + 1 ELSE 0
      /\ \A q \in 1 .. n - (i + 1) + 1 : v[q] = s[i + 1 + q - 1]
  <2>1. (\A q \in i + 1 .. n : s[q] \in S) /\ i + 1 \in Int /\ n \in Int
    BY <1>1
  <2> QED
    BY <2>1, SubSeqProperties
<1>4. RemoveAt(s, i) = u \o v
  BY DEF RemoveAt
<1> HIDE DEF u, v, n
<1>5. Len(u) = i - 1 /\ \A q \in 1 .. i - 1 : u[q] = s[q]
  BY <1>1, <1>2
<1>6. Len(v) = n - i /\ \A q \in 1 .. n - i : v[q] = s[i + q]
  BY <1>1, <1>3
<1>7. /\ u \o v \in Seq(S) /\ Len(u \o v) = Len(u) + Len(v)
      /\ \A q \in 1 .. Len(u) + Len(v) :
            (u \o v)[q] = IF q <= Len(u) THEN u[q] ELSE v[q - Len(u)]
  BY <1>2, <1>3, ConcatProperties
<1>8. Len(u) + Len(v) = n - 1
  BY <1>1, <1>5, <1>6
<1>9. ASSUME NEW q \in 1 .. n - 1
      PROVE  (u \o v)[q] = IF q < i THEN s[q] ELSE s[q + 1]
  <2>1. (u \o v)[q] = IF q <= Len(u) THEN u[q] ELSE v[q - Len(u)]
    BY <1>7, <1>8
  <2>2. CASE q < i
    BY <1>1, <1>5, <2>1, <2>2
  <2>3. CASE ~(q < i)
    <3>1. (u \o v)[q] = v[q - (i - 1)] /\ q - (i - 1) \in 1 .. n - i
      BY <1>1, <1>5, <2>1, <2>3
    <3>2. i + (q - (i - 1)) = q + 1
      BY <1>1
    <3> QED
      BY <1>6, <2>3, <3>1, <3>2
  <2> QED
    BY <2>2, <2>3
<1> QED
  BY <1>4, <1>7, <1>8, <1>9 DEF n

\* An added id comes last; the one that was there before, or the oldest of a
\* full set, is gone.
LEMMA SeenAddIs ==
    ASSUME NEW s \in Seq(Ids), Len(s) <= SeenMax, NEW o \in Ids
    PROVE  /\ SeenAdd(s, o) \in Seq(Ids)
           /\ \E i, n \in 1 .. Len(s) + 1 : Moved(s, SeenAdd(s, o), o, i, n)
<1>1. /\ Len(s) \in Nat /\ SeenMax \in Nat /\ SeenMax >= 1
      /\ Len(s) + 1 \in 1 .. Len(s) + 1
  BY LenProperties, AdmissionAssumption
<1>2. CASE o \in ToSet(s)
  <2> DEFINE i == CHOOSE i \in DOMAIN s : s[i] = o
             t == RemoveAt(s, i)
  <2>1. i \in 1 .. Len(s) /\ s[i] = o
    BY <1>2, LenProperties DEF ToSet
  <2>2. SeenAdd(s, o) = Append(t, o)
    BY <1>2 DEF SeenAdd, Refreshed
  <2> HIDE DEF i
  <2>3. /\ t \in Seq(Ids) /\ Len(t) = Len(s) - 1
        /\ \A q \in 1 .. Len(s) - 1 : t[q] = IF q < i THEN s[q] ELSE s[q + 1]
    BY <2>1, RemoveAtIs
  <2> HIDE DEF t
  <2>4. Len(t) + 1 = Len(s)
    BY <1>1, <2>3
  <2>5. /\ SeenAdd(s, o) \in Seq(Ids) /\ Len(SeenAdd(s, o)) = Len(s)
        /\ SeenAdd(s, o)[Len(s)] = o
        /\ \A q \in 1 .. Len(s) - 1 : SeenAdd(s, o)[q] = t[q]
    BY <2>2, <2>3, <2>4, AppendIs
  <2>6. Moved(s, SeenAdd(s, o), o, i, Len(s))
    BY <1>1, <2>1, <2>3, <2>5 DEF Moved
  <2>7. i \in 1 .. Len(s) + 1 /\ Len(s) \in 1 .. Len(s) + 1
    BY <1>1, <2>1
  <2> QED
    BY <2>5, <2>6, <2>7
<1>3. CASE o \notin ToSet(s) /\ Len(s) < SeenMax
  <2>1. SeenAdd(s, o) = Append(s, o)
    BY <1>3 DEF SeenAdd
  <2> DEFINE r == SeenAdd(s, o)
  <2>2. /\ r \in Seq(Ids) /\ Len(r) = Len(s) + 1 /\ r[Len(s) + 1] = o
        /\ \A q \in 1 .. Len(s) : r[q] = s[q]
    BY <2>1, AppendIs
  <2> HIDE DEF r
  <2>3. Len(s) + 1 <= SeenMax /\ \A q \in 1 .. (Len(s) + 1) - 1 : q \in 1 .. Len(s) /\ q < Len(s) + 1
    BY <1>1, <1>3
  <2>4. Moved(s, r, o, Len(s) + 1, Len(s) + 1)
    BY <1>3, <2>2, <2>3 DEF Moved
  <2> QED
    BY <1>1, <2>2, <2>4 DEF r
<1>4. CASE o \notin ToSet(s) /\ ~(Len(s) < SeenMax)
  <2>1. SeenAdd(s, o) = Tail(Append(s, o))
    BY <1>4 DEF SeenAdd
  <2> DEFINE t == Append(s, o)
             r == Tail(t)
  <2>2. /\ t \in Seq(Ids) /\ Len(t) = Len(s) + 1 /\ t[Len(s) + 1] = o /\ t # <<>>
        /\ \A q \in 1 .. Len(s) : t[q] = s[q]
    BY AppendIs
  <2> HIDE DEF t
  <2>3. r \in Seq(Ids) /\ Len(r) = Len(t) - 1 /\ \A q \in 1 .. Len(r) : r[q] = t[q + 1]
    BY <2>2, HeadTailProperties
  <2> HIDE DEF r
  <2>4. Len(s) = SeenMax
    BY <1>1, <1>4
  <2>5. Len(r) = Len(s) /\ 1 \in 1 .. Len(s) + 1 /\ Len(s) \in 1 .. Len(s) + 1
    BY <1>1, <2>2, <2>3, <2>4
  <2>6. r[Len(s)] = o /\ \A q \in 1 .. Len(s) - 1 : r[q] = s[q + 1]
    BY <1>1, <2>2, <2>3, <2>4, <2>5
  <2>7. Moved(s, r, o, 1, Len(s))
    BY <1>1, <1>4, <2>4, <2>5, <2>6 DEF Moved
  <2> QED
    BY <2>1, <2>3, <2>5, <2>7 DEF r, t
<1> QED
  BY <1>2, <1>3, <1>4

LEMMA SeenAddFacts ==
    ASSUME NEW s \in Seq(Ids), IsInjective(s), Len(s) <= SeenMax, NEW o \in Ids
    PROVE  LET r == SeenAdd(s, o)
           IN  /\ r \in Seq(Ids) /\ IsInjective(r) /\ Len(r) <= SeenMax
               /\ o \in ToSet(r) /\ SeenAfter(r, o) = {}
               /\ \A x \in ToSet(r) \ {o} :
                     x \in ToSet(s) /\ SeenAfter(r, x) \subseteq SeenAfter(s, x) \cup {o}
               /\ \A x \in ToSet(s) \ ToSet(r) :
                     Len(r) = SeenMax /\ ToSet(r) \subseteq SeenAfter(s, x) \cup {o}
<1> DEFINE r == SeenAdd(s, o)
<1>1. r \in Seq(Ids)
  BY SeenAddIs
<1>2. PICK i, n \in 1 .. Len(s) + 1 : Moved(s, r, o, i, n)
  BY SeenAddIs
<1> HIDE DEF r
<1>3. /\ Len(s) \in Nat /\ SeenMax \in Nat
      /\ n \in Nat /\ 1 <= n /\ i \in Nat /\ 1 <= i
      /\ \A q : q \in DOMAIN s <=> q \in Nat /\ 1 <= q /\ q <= Len(s)
      /\ \A q : q \in DOMAIN r <=> q \in Nat /\ 1 <= q /\ q <= n
      /\ Len(r) = n /\ r[n] = o /\ n <= SeenMax
      /\ \/ i = n /\ n = Len(s) + 1
         \/ i <= n /\ n = Len(s)
  BY <1>1, <1>2, LenProperties, AdmissionAssumption DEF Moved
\* The place in s of what is at place q of r.
<1> DEFINE at(q) == IF q < i THEN q ELSE q + 1
<1>4. /\ \A q \in 1 .. n - 1 : at(q) \in 1 .. Len(s) /\ r[q] = s[at(q)] /\ at(q) # i
      /\ \A p, q \in 1 .. n - 1 : p < q <=> at(p) < at(q)
  <2>1. \A q \in 1 .. n - 1 : at(q) \in 1 .. Len(s) /\ at(q) # i
    BY <1>3
  <2>2. \A q \in 1 .. n - 1 : r[q] = s[at(q)]
    BY <1>2 DEF Moved
  <2>3. \A p, q \in 1 .. n - 1 : p < q <=> at(p) < at(q)
    BY <1>3
  <2> QED
    BY <2>1, <2>2, <2>3
<1>5. \A q \in 1 .. n - 1 : r[q] # o
  <2>1. o \notin ToSet(s) \/ (s[i] = o /\ i \in 1 .. Len(s))
    BY <1>2, <1>3 DEF Moved
  <2> SUFFICES ASSUME NEW q \in 1 .. n - 1, r[q] = o
               PROVE  FALSE
    OBVIOUS
  <2> DEFINE a == at(q)
  <2>2. a \in DOMAIN s /\ s[a] = o /\ a # i
    BY <1>3, <1>4
  <2> HIDE DEF a
  <2> QED
    BY <1>3, <2>1, <2>2 DEF IsInjective, ToSet
<1>6. IsInjective(r)
  <2> SUFFICES ASSUME NEW p \in 1 .. n, NEW q \in 1 .. n, r[p] = r[q]
               PROVE  p = q
    BY <1>3 DEF IsInjective
  <2>1. CASE p = n \/ q = n
    BY <1>3, <1>5, <2>1
  <2>2. CASE p # n /\ q # n
    <3>1. p \in 1 .. n - 1 /\ q \in 1 .. n - 1
      BY <1>3, <2>2
    <3>2. at(p) = at(q)
      <4>1. /\ at(p) \in DOMAIN s /\ at(q) \in DOMAIN s
            /\ s[at(p)] = s[at(q)]
        BY <1>3, <1>4, <3>1
      <4> QED
        BY <4>1 DEF IsInjective
    <3> QED
      BY <1>3, <3>2
  <2> QED
    BY <2>1, <2>2
<1>7. Len(r) <= SeenMax
  BY <1>2, <1>3
<1>8. o \in ToSet(r) /\ SeenAfter(r, o) = {}
  <2>1. n \in DOMAIN r
    BY <1>3
  <2>2. ASSUME NEW q \in DOMAIN r, NEW p \in 1 .. q - 1
        PROVE  r[p] # o
    BY <1>3, <1>5
  <2> QED
    BY <1>3, <2>1, <2>2 DEF ToSet, SeenAfter
<1>9. ASSUME NEW x \in ToSet(r) \ {o}
      PROVE  x \in ToSet(s) /\ SeenAfter(r, x) \subseteq SeenAfter(s, x) \cup {o}
  <2>1. PICK p \in 1 .. n - 1 : r[p] = x
    BY <1>3 DEF ToSet
  <2>2. x \in ToSet(s)
    BY <1>3, <1>4, <2>1 DEF ToSet
  <2>3. ASSUME NEW q \in 1 .. n, NEW u \in 1 .. q - 1, r[u] = x
        PROVE  r[q] \in SeenAfter(s, x) \cup {o}
    <3>1. CASE q = n
      BY <1>3, <3>1
    <3>2. CASE q # n
      <4>1. q \in 1 .. n - 1 /\ u \in 1 .. n - 1 /\ u < q
        BY <1>3, <3>2
      <4> DEFINE a == at(q)
                 b == at(u)
      <4>2. a \in 1 .. Len(s) /\ b \in 1 .. Len(s) /\ b < a /\ s[b] = x /\ r[q] = s[a]
        BY <1>4, <2>3, <4>1
      <4> HIDE DEF a, b
      <4>3. a \in DOMAIN s /\ b \in 1 .. a - 1
        BY <1>3, <4>2
      <4> QED
        BY <4>2, <4>3 DEF SeenAfter
    <3> QED
      BY <3>1, <3>2
  <2> QED
    BY <1>3, <2>2, <2>3 DEF SeenAfter
<1>10. ASSUME NEW x \in ToSet(s) \ ToSet(r)
       PROVE  Len(r) = SeenMax /\ ToSet(r) \subseteq SeenAfter(s, x) \cup {o}
  <2>1. PICK p \in 1 .. Len(s) : s[p] = x
    BY <1>3 DEF ToSet
  <2>2. p = i
    <3> SUFFICES ASSUME p # i
                 PROVE  FALSE
      OBVIOUS
    <3> DEFINE q == IF p < i THEN p ELSE p - 1
    <3>1. q \in 1 .. n - 1 /\ at(q) = p
      BY <1>3
    <3>2. r[q] = x /\ q \in DOMAIN r
      BY <1>3, <1>4, <2>1, <3>1
    <3> QED
      BY <3>2 DEF ToSet
  <2>3. x # o
    BY <1>8
  <2>4. i = 1 /\ n = SeenMax /\ n = Len(s)
    BY <1>2, <1>3, <2>1, <2>2, <2>3 DEF Moved
  <2>5. ASSUME NEW q \in 1 .. n
        PROVE  r[q] \in SeenAfter(s, x) \cup {o}
    <3>1. CASE q = n
      BY <1>3, <3>1
    <3>2. CASE q # n
      <4>1. q \in 1 .. n - 1 /\ r[q] = s[q + 1] /\ q + 1 \in 1 .. Len(s)
        BY <1>3, <1>4, <2>4, <3>2
      <4>2. q + 1 \in DOMAIN s /\ 1 \in 1 .. (q + 1) - 1 /\ s[1] = x
        BY <1>3, <2>1, <2>2, <2>4, <4>1
      <4> QED
        BY <4>1, <4>2 DEF SeenAfter
    <3> QED
      BY <3>1, <3>2
  <2> QED
    BY <1>2, <1>3, <2>4, <2>5 DEF ToSet
<1> QED
  BY <1>1, <1>6, <1>7, <1>8, <1>9, <1>10 DEF r

----------------------------------------------------------------------------
(* The tape. *)

\* What the invariant says of the tape, its sizes and the clock.
LEMMA Facts ==
    ASSUME IInv
    PROVE  /\ tape \in Seq(Entry)
           /\ Len(tape) \in Nat /\ epoch \in Nat /\ now \in Nat /\ TTL \in Nat /\ TTL >= 1
           /\ SeenMax \in Nat /\ MaxTime \in Nat /\ MaxRestarts \in Nat /\ now <= MaxTime
           /\ IntelTTL \in Nat
           /\ \A i : i \in DOMAIN tape <=> i \in Nat /\ 1 <= i /\ i <= Len(tape)
           /\ \A i \in DOMAIN tape : /\ tape[i].order \in Orders
                                     /\ tape[i].checkedAt \in Nat
                                     /\ tape[i].epoch \in 0 .. MaxRestarts
                                     /\ tape[i].epoch \in Nat
                                     /\ tape[i].end \in Ending
           /\ \A t \in Members : lastListed[t] \in Int
           /\ \A a \in Addresses : lastClean[a] \in Int
<1>1. /\ TTL \in Nat /\ TTL >= 1 /\ SeenMax \in Nat /\ MaxTime \in Nat
      /\ MaxRestarts \in Nat /\ IntelTTL \in Nat
  BY AdmissionAssumption
<1>2. /\ tape \in Seq(Entry)
      /\ epoch \in Nat /\ now \in Nat /\ now <= MaxTime
      /\ \A t \in Members : lastListed[t] \in Int
      /\ \A a \in Addresses : lastClean[a] \in Int
  BY <1>1 DEF IInv, TypeOK
<1>3. /\ Len(tape) \in Nat
      /\ \A i : i \in DOMAIN tape <=> i \in Nat /\ 1 <= i /\ i <= Len(tape)
      /\ \A i \in DOMAIN tape : tape[i] \in Entry
  <2>1. Len(tape) \in Nat /\ tape \in [1 .. Len(tape) -> Entry] /\ DOMAIN tape = 1 .. Len(tape)
    BY <1>2, LenProperties
  <2> QED
    BY <2>1
<1>4. \A i \in DOMAIN tape : /\ tape[i].order \in Orders
                             /\ tape[i].checkedAt \in Nat
                             /\ tape[i].epoch \in 0 .. MaxRestarts
                             /\ tape[i].end \in Ending
  BY <1>3 DEF Entry
<1> QED
  BY <1>1, <1>2, <1>3, <1>4

LEMMA Numbers ==
    ASSUME IInv
    PROVE  /\ now \in Nat /\ TTL \in Nat /\ TTL >= 1 /\ IntelTTL \in Nat
           /\ \A t \in Members : lastListed[t] \in Int
           /\ \A a \in Addresses : lastClean[a] \in Int
BY Facts

LEMMA NoCallFacts ==
    /\ NoCall \in Call /\ NoCall.pc = "idle" /\ ~NoCall.flagged
    /\ NoCall.asked = 0 /\ NoCall.answer = "fail"
<1>1. 0 \in 0 .. MaxTime /\ 0 \in Nat
  BY AdmissionAssumption
<1> QED
  BY <1>1 DEF NoCall, Call, Answer

LEMMA EndFacts ==
    ASSUME NEW k \in Call, NEW pc \in Ended
    PROVE  End(k, pc) \in Call /\ End(k, pc).pc = pc /\ End(k, pc).flagged = k.flagged
<1>1. NoCall \in Call
  BY NoCallFacts
<1>2. k.flagged \in BOOLEAN
  BY DEF Call
<1> HIDE DEF NoCall
<1> QED
  BY <1>1, <1>2 DEF Call, End

LEMMA IdsFinite ==
    ASSUME NEW a \in Int, NEW b \in Int
    PROVE  IsFiniteSet(IdsIn(a, b)) /\ Cardinality(IdsIn(a, b)) \in Nat
<1> DEFINE f == [n \in a .. b |-> IdOf[tape[n].order]]
<1>1. f \in Surjection(a .. b, IdsIn(a, b))
  BY DEF Surjection, IdsIn
<1>2. IsFiniteSet(a .. b)
  BY FS_Interval
<1> HIDE DEF f
<1>3. IsFiniteSet(IdsIn(a, b))
  BY <1>1, <1>2, FS_Surjection
<1> QED
  BY <1>3, FS_CardinalityType

LEMMA MoreIds ==
    ASSUME NEW S, NEW T, IsFiniteSet(T), S \subseteq T
    PROVE  /\ IsFiniteSet(S) /\ Cardinality(S) \in Nat /\ Cardinality(T) \in Nat
           /\ Cardinality(S) <= Cardinality(T)
BY FS_Subset, FS_CardinalityType

LEMMA SeqCard ==
    ASSUME NEW s \in Seq(Ids), IsInjective(s)
    PROVE  IsFiniteSet(ToSet(s)) /\ Cardinality(ToSet(s)) = Len(s)
<1> DEFINE D == 1 .. Len(s)
<1>1. Len(s) \in Nat /\ DOMAIN s = D /\ s \in [D -> ToSet(s)]
  BY LenProperties DEF ToSet
<1>2. s \in Surjection(D, ToSet(s)) /\ s \in Injection(D, ToSet(s))
  BY <1>1 DEF Surjection, Injection, ToSet
<1>3. IsFiniteSet(D) /\ Cardinality(D) = Len(s)
  <2>1. Cardinality(D) = IF 1 > Len(s) THEN 0 ELSE Len(s) - 1 + 1
    BY SMTT(30), <1>1, FS_Interval
  <2> HIDE DEF D
  <2>2. Cardinality(D) = Len(s)
    BY <1>1, <2>1
  <2> QED
    BY <1>1, <2>2, FS_Interval DEF D
<1> HIDE DEF D
<1> QED
  BY <1>2, <1>3, FS_Surjection

\* An order that a reader finds, or that this process joined to an open line, stays
\* so while this process appends: what it writes on an open line, it joins.
LEMMA WrittenKept ==
    ASSUME IInv, NEW id, NEW t, Written(id, t), epoch' = epoch,
           Len(tape') \in Nat, Len(tape) <= Len(tape'),
           \A i : i \in DOMAIN tape' <=> i \in Nat /\ 1 <= i /\ i <= Len(tape'),
           \A i \in 1 .. Len(tape) : tape'[i] = tape[i],
           \A i \in DOMAIN tape' : i > Len(tape) => tape'[i].epoch = epoch
    PROVE  Written(id, t)'
<1>1. PICK j \in DOMAIN tape :
          /\ IdOf[tape[j].order] = id
          /\ TraderOf[tape[j].order] = t
          /\ Readable(tape, j) \/ JoinedIn(tape, j, epoch)
  BY DEF Written
<1>2. /\ j \in Nat /\ 1 <= j /\ j <= Len(tape) /\ Len(tape) \in Nat
      /\ tape'[j] = tape[j] /\ j \in DOMAIN tape'
  BY Facts
<1>3. j > 1 => tape'[j - 1] = tape[j - 1]
  <2>1. j > 1 => j - 1 \in 1 .. Len(tape)
    BY <1>2
  <2> QED
    BY <2>1
<1>4. j < Len(tape) => tape'[j + 1] = tape[j + 1]
  <2>1. j < Len(tape) => j + 1 \in 1 .. Len(tape)
    BY <1>2
  <2> QED
    BY <2>1
<1>5. Readable(tape', j) \/ JoinedIn(tape', j, epoch')
  <2>1. CASE JoinedIn(tape, j, epoch)
    <3>1. j < Len(tape) => j < Len(tape')
      BY <1>2
    <3> QED
      BY <1>2, <1>3, <1>4, <2>1, <3>1 DEF JoinedIn
  <2>2. CASE Readable(tape, j) /\ (tape[j].end = "line" \/ Len(tape') = Len(tape))
    BY <1>2, <1>3, <2>2 DEF Readable
  <2>3. CASE Readable(tape, j) /\ ~(tape[j].end = "line" \/ Len(tape') = Len(tape))
    <3>1. j = Len(tape) /\ tape[j].end # "line" /\ j < Len(tape')
      BY <1>2, <2>3 DEF Readable
    <3>2. j + 1 \in DOMAIN tape' /\ j + 1 > Len(tape)
      BY <1>2, <3>1
    <3>3. tape'[j + 1].epoch = epoch
      BY <3>2
    <3>4. j < Len(tape') /\ tape'[j].end # "line" /\ tape'[j + 1].epoch = epoch'
      BY <1>2, <3>1, <3>3
    <3>5. JoinedIn(tape', j, epoch')
      BY <3>4, Zenon DEF JoinedIn
    <3> QED
      BY <3>5
  <2> QED
    BY <1>1, <2>1, <2>2, <2>3
<1> QED
  BY <1>1, <1>2, <1>5 DEF Written

\* What was checked stays true while the process lives: the tape grows, and the
\* clock and the times when traders were listed and addresses clean go one way.
LEMMA WaitingKept ==
    ASSUME IInv, NEW k \in Call, WaitingInv(k), k.pc \in Waiting,
           Len(tape') \in Nat, Len(tape) <= Len(tape'),
           \A i : i \in DOMAIN tape' <=> i \in Nat /\ 1 <= i /\ i <= Len(tape'),
           \A i \in 1 .. Len(tape) : tape'[i] = tape[i],
           \A i \in DOMAIN tape' : i > Len(tape) => tape'[i].epoch = epoch,
           epoch' = epoch, cfg' = cfg,
           now' \in Nat, now <= now',
           \A t \in Members : lastListed'[t] \in Int /\ lastListed[t] <= lastListed'[t],
           \A a \in Addresses : lastClean'[a] \in Int /\ lastClean[a] <= lastClean'[a]
    PROVE  WaitingInv(k)'
<1>1. /\ k.checkedAt \in Nat /\ k.asked \in Nat /\ k.checkedAt <= Len(tape)
      /\ k.order \in Orders /\ k.sess \in Sessions
  BY Facts DEF Call, WaitingInv
<1>2. NotSeen(k)'
  <2> SUFFICES ASSUME NEW i \in 1 .. k.checkedAt,
                      IdOf[tape'[i].order] = IdOf[k.order], tape'[i].epoch = epoch'
               PROVE  Cardinality(IdsIn(i + 1, k.checkedAt)') >= SeenMax
    BY DEF NotSeen
  <2>1. i \in 1 .. Len(tape) /\ i \in Nat
    BY <1>1, Facts
  <2>2. IdOf[tape[i].order] = IdOf[k.order] /\ tape[i].epoch = epoch
    BY <2>1
  <2>3. \A n \in i + 1 .. k.checkedAt : tape'[n] = tape[n]
    <3> SUFFICES ASSUME NEW n \in i + 1 .. k.checkedAt
                 PROVE  tape'[n] = tape[n]
      OBVIOUS
    <3>1. n \in 1 .. Len(tape)
      BY SMTT(20), <1>1, <2>1, Facts
    <3> QED
      BY <3>1
  <2>4. IdsIn(i + 1, k.checkedAt)' = IdsIn(i + 1, k.checkedAt)
    BY <2>3 DEF IdsIn
  <2> QED
    BY <2>2, <2>4 DEF WaitingInv, NotSeen
<1>3. HasTarget(k.order)'
  <2>1. TargetOf[k.order] # NoId => Written(TargetOf[k.order], TraderOf[k.order])
    BY DEF WaitingInv, HasTarget
  <2>2. TargetOf[k.order] # NoId => Written(TargetOf[k.order], TraderOf[k.order])'
    BY <2>1, WrittenKept
  <2> QED
    BY <2>2 DEF HasTarget
<1>4. k.checkedAt <= Len(tape') /\ k.asked <= now'
  BY <1>1, Facts DEF WaitingInv
<1>5. k.pc \in {"replied", "hit"} => TraderOf[k.order] \in Members
  BY DEF WaitingInv, Members, LookingUp
<1>6. /\ k.pc = "replied" /\ k.answer = "yes" => lastListed'[TraderOf[k.order]] >= k.asked
      /\ k.pc = "hit" /\ k.answer = "yes" =>
            lastListed'[TraderOf[k.order]] > k.asked - TTL
  <2> DEFINE t == TraderOf[k.order]
  <2>1. k.pc \in {"replied", "hit"} =>
           /\ lastListed[t] \in Int /\ lastListed'[t] \in Int
           /\ lastListed[t] <= lastListed'[t]
    BY <1>5, Facts
  <2>2. /\ k.pc = "replied" /\ k.answer = "yes" => lastListed[t] >= k.asked
        /\ k.pc = "hit" /\ k.answer = "yes" => lastListed[t] > k.asked - TTL
    BY DEF WaitingInv
  <2> HIDE DEF t
  <2>3. /\ k.pc = "replied" /\ k.answer = "yes" => lastListed'[t] >= k.asked
        /\ k.pc = "hit" /\ k.answer = "yes" => lastListed'[t] > k.asked - TTL
    BY <1>1, <2>1, <2>2, Numbers
  <2> QED
    BY <2>3 DEF t
<1>7. /\ k.pc = "looked" /\ k.answer = "clean" => lastClean'[AddressOf[k.sess]] >= k.asked
      /\ k.pc = "cached" /\ k.answer = "clean" =>
            lastClean'[AddressOf[k.sess]] > k.asked - IntelTTL
  <2> DEFINE a == AddressOf[k.sess]
  <2>1. a \in Addresses
    BY <1>1, AdmissionAssumption
  <2>2. lastClean[a] \in Int /\ lastClean'[a] \in Int /\ lastClean[a] <= lastClean'[a]
    BY <2>1, Facts
  <2>3. /\ k.pc = "looked" /\ k.answer = "clean" => lastClean[a] >= k.asked
        /\ k.pc = "cached" /\ k.answer = "clean" => lastClean[a] > k.asked - IntelTTL
    BY DEF WaitingInv
  <2> HIDE DEF a
  <2>4. /\ k.pc = "looked" /\ k.answer = "clean" => lastClean'[a] >= k.asked
        /\ k.pc = "cached" /\ k.answer = "clean" => lastClean'[a] > k.asked - IntelTTL
    BY <1>1, <2>2, <2>3, Numbers
  <2> QED
    BY <2>4 DEF a
<1> QED
  BY <1>1, <1>2, <1>3, <1>4, <1>6, <1>7 DEF WaitingInv

----------------------------------------------------------------------------
(* An order goes on the tape. *)

\* A handler whose findings still hold appends its order.
LEMMA AdmitStep ==
    ASSUME IInv, NEW c \in Calls, NEW k \in Call,
           k.order \in Orders, k.checkedAt <= Len(tape), NotSeen(k),
           HasTarget(k.order), ~k.flagged,
           Admit(c, k),
           UNCHANGED world, WorldType', WorldInv'
    PROVE  IInv'
<1> DEFINE entry == [order |-> k.order, checkedAt |-> k.checkedAt, epoch |-> epoch,
                     end |-> "line"]
           len == Len(tape)
           o == IdOf[k.order]
<1>1. /\ call' = [call EXCEPT ![c] = End(k, "appended")]
      /\ tape' = Append(tape, entry)
      /\ seen' = SeenAdd(seen, o)
      /\ owner' = [owner EXCEPT ![o] = TraderOf[k.order]]
      /\ cfg' = cfg /\ now' = now /\ epoch' = epoch /\ listed' = listed
      /\ lastListed' = lastListed /\ lastClean' = lastClean
  BY DEF Admit, world
<1>2. /\ entry \in Entry
      /\ entry.order = k.order /\ entry.checkedAt = k.checkedAt /\ entry.epoch = epoch
      /\ entry.end = "line"
      /\ k.checkedAt \in Nat /\ o \in Ids /\ TraderOf[k.order] \in Traders
  BY AdmissionAssumption DEF Call, IInv, TypeOK, Entry, Ending
<1> HIDE DEF entry
<1>3. /\ tape' \in Seq(Entry)
      /\ Len(tape') = len + 1 /\ tape'[len + 1] = entry
      /\ \A i \in 1 .. len : tape'[i] = tape[i]
  BY <1>1, <1>2, Facts, AppendIs
<1>4. /\ \A i : i \in DOMAIN tape' <=> i \in Nat /\ 1 <= i /\ i <= len + 1
      /\ len \in Nat
      /\ \A i \in DOMAIN tape' : i = len + 1 \/ i \in DOMAIN tape
      /\ \A i \in DOMAIN tape : i \in DOMAIN tape' /\ tape'[i] = tape[i] /\ i <= len
  BY SMTT(20), <1>3, Facts, LenProperties
<1>5. /\ seen \in Seq(Ids) /\ IsInjective(seen) /\ Len(seen) <= SeenMax
      /\ seen' \in Seq(Ids) /\ IsInjective(seen') /\ Len(seen') <= SeenMax
      /\ o \in ToSet(seen') /\ SeenAfter(seen', o) = {}
      /\ \A x \in ToSet(seen') \ {o} :
            x \in ToSet(seen) /\ SeenAfter(seen', x) \subseteq SeenAfter(seen, x) \cup {o}
      /\ \A x \in ToSet(seen) \ ToSet(seen') :
            Len(seen') = SeenMax /\ ToSet(seen') \subseteq SeenAfter(seen, x) \cup {o}
  <2>1. seen \in Seq(Ids) /\ IsInjective(seen) /\ Len(seen) <= SeenMax
    BY DEF IInv, TypeOK
  <2> HIDE DEF o
  <2> QED
    BY <1>1, <1>2, <2>1, SeenAddFacts
<1>6. TypeOK'
  <2>1. End(k, "appended") \in Call
    BY EndFacts DEF Ended
  <2>2. call' \in [Calls -> Call]
    BY <1>1, <2>1 DEF IInv, TypeOK
  <2>3. owner' \in [Ids -> Traders \cup {NoTrader}]
    BY <1>1, <1>2 DEF IInv, TypeOK
  <2>4. epoch' \in 0 .. MaxRestarts
    BY <1>1 DEF IInv, TypeOK
  <2> QED
    BY <1>3, <1>5, <2>2, <2>3, <2>4 DEF WorldType, TypeOK
<1>7. TapeInv'
  <2> SUFFICES ASSUME NEW i \in DOMAIN tape'
               PROVE  tape'[i].epoch <= epoch' /\ tape'[i].checkedAt < i
    BY DEF TapeInv
  <2>1. CASE i = len + 1
    BY <1>1, <1>2, <1>3, <1>4, <2>1, Facts
  <2>2. CASE i \in DOMAIN tape
    BY <1>1, <1>4, <2>2 DEF IInv, TapeInv
  <2> QED
    BY <1>4, <2>1, <2>2
<1>8. /\ Len(tape') \in Nat /\ Len(tape) <= Len(tape')
      /\ \A i : i \in DOMAIN tape' <=> i \in Nat /\ 1 <= i /\ i <= Len(tape')
      /\ \A i \in DOMAIN tape' : i > Len(tape) => tape'[i].epoch = epoch
  BY <1>2, <1>3, <1>4
<1>9. \A a \in Nat, b \in 0 .. len : a >= 1 => IdsIn(a, b)' = IdsIn(a, b)
  <2> SUFFICES ASSUME NEW a \in Nat, NEW b \in 0 .. len, a >= 1
               PROVE  IdsIn(a, b)' = IdsIn(a, b)
    OBVIOUS
  <2>1. \A n \in a .. b : tape'[n] = tape[n]
    BY <1>3, <1>4
  <2> QED
    BY <2>1 DEF IdsIn
<1>10. \A i \in DOMAIN tape :
          IdsIn(i + 1, Len(tape))' = IdsIn(i + 1, len) \cup {o}
  <2> SUFFICES ASSUME NEW i \in DOMAIN tape
               PROVE  IdsIn(i + 1, Len(tape))' = IdsIn(i + 1, len) \cup {o}
    OBVIOUS
  <2>1. i \in Nat /\ 1 <= i /\ i <= len
    BY Facts
  <2>2. /\ \A n \in i + 1 .. len : tape'[n] = tape[n] /\ n \in i + 1 .. len + 1
        /\ \A n \in i + 1 .. len + 1 : n = len + 1 \/ n \in i + 1 .. len
        /\ len + 1 \in i + 1 .. len + 1 /\ IdOf[tape'[len + 1].order] = o
    BY SMTT(20), <1>2, <1>3, <1>4, <2>1
  <2> QED
    BY <1>3, <2>2 DEF IdsIn
<1>11. SeenInv'
  <2> SUFFICES ASSUME NEW i \in DOMAIN tape', tape'[i].epoch = epoch'
               PROVE  IF IdOf[tape'[i].order] \in ToSet(seen')
                      THEN SeenAfter(seen', IdOf[tape'[i].order])
                              \subseteq IdsIn(i + 1, Len(tape))'
                      ELSE Cardinality(IdsIn(i + 1, Len(tape))') >= SeenMax
    BY DEF SeenInv
  <2> DEFINE x == IdOf[tape'[i].order]
  <2>1. CASE x = o
    BY <1>5, <2>1
  <2>2. CASE x # o
    <3>1. i \in DOMAIN tape /\ tape'[i] = tape[i] /\ tape[i].epoch = epoch
      BY <1>1, <1>2, <1>3, <1>4, <2>2
    <3>2. /\ x \in ToSet(seen) => SeenAfter(seen, x) \subseteq IdsIn(i + 1, len)
          /\ x \notin ToSet(seen) => Cardinality(IdsIn(i + 1, len)) >= SeenMax
      BY <3>1 DEF IInv, SeenInv
    <3> DEFINE old == IdsIn(i + 1, len)
               new == IdsIn(i + 1, Len(tape))'
    <3>3. new = old \cup {o} /\ IsFiniteSet(old) /\ IsFiniteSet(new)
      <4>1. new = old \cup {o}
        BY <1>3, <1>10, <3>1
      <4>2. i + 1 \in Int /\ len \in Int
        BY <1>4, <3>1
      <4>3. IsFiniteSet(old)
        BY <4>2, IdsFinite
      <4> HIDE DEF old, new
      <4>4. IsFiniteSet(old \cup {o})
        BY <4>3, FS_AddElement
      <4> QED
        BY <4>1, <4>3, <4>4
    <3> HIDE DEF x, old, new
    <3>4. CASE x \in ToSet(seen')
      <4>1. SeenAfter(seen', x) \subseteq new
        BY <1>5, <2>2, <3>2, <3>3, <3>4 DEF old
      <4> QED
        BY <3>4, <4>1 DEF x, new
    <3>5. CASE x \notin ToSet(seen')
      <4>1. CASE x \in ToSet(seen)
        <5>1. Len(seen') = SeenMax /\ ToSet(seen') \subseteq new
          BY <1>5, <3>2, <3>3, <3>5, <4>1 DEF old
        <5>2. Cardinality(ToSet(seen')) = SeenMax
          BY <1>5, <5>1, SeqCard
        <5>3. Cardinality(new) \in Nat /\ Cardinality(ToSet(seen')) <= Cardinality(new)
          BY <3>3, <5>1, MoreIds
        <5>4. Cardinality(new) >= SeenMax
          BY <5>2, <5>3, Facts
        <5> QED
          BY <3>5, <5>4 DEF x, new
      <4>2. CASE x \notin ToSet(seen)
        <5>1. Cardinality(old) >= SeenMax
          BY <3>2, <4>2 DEF old
        <5>2. /\ Cardinality(old) \in Nat /\ Cardinality(new) \in Nat
              /\ Cardinality(old) <= Cardinality(new)
          BY <3>3, MoreIds
        <5>3. Cardinality(new) >= SeenMax
          BY <5>1, <5>2, Facts
        <5> QED
          BY <3>5, <5>3 DEF x, new
      <4> QED
        BY <4>1, <4>2
    <3> QED
      BY <3>4, <3>5
  <2> QED
    BY <2>1, <2>2
\* The new entry is read, or this process joined it to an open line.
<1>12. OwnerInv'
  <2> SUFFICES ASSUME NEW id \in Ids, owner'[id] # NoTrader
               PROVE  Written(id, owner[id])'
    BY DEF OwnerInv
  <2>1. CASE id = o
    <3>1. owner'[id] = TraderOf[k.order]
      BY <1>1, <2>1 DEF IInv, TypeOK
    <3>2. len + 1 \in DOMAIN tape'
      BY <1>4
    <3>3. (len + 1) - 1 = len
      BY <1>4
    <3>4. len > 0 => tape'[len] = tape[len]
      BY <1>3, <1>4
    <3>5. Readable(tape', len + 1) \/ JoinedIn(tape', len + 1, epoch')
      <4>1. CASE len = 0 \/ tape'[len].end = "line"
        BY <1>2, <1>3, <3>3, <4>1 DEF Readable
      <4>2. CASE len # 0 /\ tape'[len].end # "line"
        <5>1. len + 1 > 1
          BY <1>4, <4>2
        <5> QED
          BY <1>1, <1>2, <1>3, <3>3, <4>2, <5>1 DEF JoinedIn
      <4> QED
        BY <4>1, <4>2
    <3>6. IdOf[tape'[len + 1].order] = id /\ TraderOf[tape'[len + 1].order] = owner'[id]
      BY <1>2, <1>3, <2>1, <3>1
    <3> HIDE DEF o, len
    <3> QED
      BY <3>2, <3>5, <3>6 DEF Written
  <2>2. CASE id # o
    <3>1. owner'[id] = owner[id]
      BY <1>1, <2>2 DEF IInv, TypeOK
    <3>2. PICK t : t = owner[id]
      OBVIOUS
    <3>3. Written(id, t)
      BY <3>1, <3>2 DEF IInv, OwnerInv
    <3>4. Written(id, t)'
      BY <1>1, <1>3, <1>8, <3>3, WrittenKept
    <3> QED
      BY <3>1, <3>2, <3>4 DEF Written
  <2> QED
    BY <2>1, <2>2
<1>13. CancelsFollowTargets'
  <2> SUFFICES ASSUME NEW i \in DOMAIN tape', TargetOf[tape'[i].order] # NoId
               PROVE  \E j \in 1 .. i - 1 :
                         /\ IdOf[tape'[j].order] = TargetOf[tape'[i].order]
                         /\ TraderOf[tape'[j].order] = TraderOf[tape'[i].order]
                         /\ \/ Readable(tape', j)
                            \/ JoinedIn(tape', j, tape'[i].epoch)
    BY DEF CancelsFollowTargets
  <2>1. CASE i = len + 1
    <3>1. tape'[i].order = k.order /\ tape'[i].epoch = epoch'
      BY <1>1, <1>2, <1>3, <2>1
    <3>2. Written(TargetOf[k.order], TraderOf[k.order])
      BY <2>1, <3>1 DEF HasTarget
    <3>3. PICK id, t : id = TargetOf[k.order] /\ t = TraderOf[k.order]
      OBVIOUS
    <3>4. Written(id, t)'
      BY <1>1, <1>3, <1>8, <3>2, <3>3, WrittenKept
    <3>5. PICK j \in DOMAIN tape :
              /\ IdOf[tape[j].order] = id /\ TraderOf[tape[j].order] = t
              /\ Readable(tape, j) \/ JoinedIn(tape, j, epoch)
      BY <3>2, <3>3 DEF Written
    <3>6. j \in Nat /\ 1 <= j /\ j <= len /\ tape'[j] = tape[j] /\ j \in DOMAIN tape'
      BY <1>4, Facts
    <3>7. Readable(tape', j) \/ JoinedIn(tape', j, epoch')
      <4>1. j > 1 => tape'[j - 1] = tape[j - 1]
        <5>1. j > 1 => j - 1 \in 1 .. len
          BY <1>4, <3>6
        <5> QED
          BY <1>3, <5>1
      <4>2. j < len => tape'[j + 1] = tape[j + 1]
        <5>1. j < len => j + 1 \in 1 .. len
          BY <1>4, <3>6
        <5> QED
          BY <1>3, <5>1
      <4>3. CASE JoinedIn(tape, j, epoch)
        <5>1. j < len => j < Len(tape')
          BY <1>3, <1>4, <3>6
        <5> QED
          BY <1>1, <3>6, <4>1, <4>2, <4>3, <5>1 DEF JoinedIn
      <4>4. CASE Readable(tape, j) /\ tape[j].end = "line"
        BY <3>6, <4>1, <4>4 DEF Readable
      <4>5. CASE Readable(tape, j) /\ tape[j].end # "line"
        <5>1. j = len
          BY <4>5 DEF Readable
        <5>2. j < Len(tape') /\ tape'[j + 1].epoch = epoch'
          BY <1>1, <1>2, <1>3, <1>4, <5>1
        <5>3. j < Len(tape') /\ tape'[j].end # "line" /\ tape'[j + 1].epoch = epoch'
          BY <3>6, <4>5, <5>2
        <5>4. JoinedIn(tape', j, epoch')
          BY <5>3, Zenon DEF JoinedIn
        <5> QED
          BY <5>4
      <4> QED
        BY <3>5, <4>3, <4>4, <4>5
    <3>8. j \in 1 .. i - 1
      BY <1>4, <2>1, <3>6
    <3> QED
      BY <3>1, <3>3, <3>5, <3>6, <3>7, <3>8
  <2>2. CASE i \in DOMAIN tape
    <3>1. PICK j \in 1 .. i - 1 :
              /\ IdOf[tape[j].order] = TargetOf[tape[i].order]
              /\ TraderOf[tape[j].order] = TraderOf[tape[i].order]
              /\ Readable(tape, j) \/ JoinedIn(tape, j, tape[i].epoch)
      BY <1>4, <2>2 DEF IInv, CancelsFollowTargets
    <3>2. /\ i \in Nat /\ i <= len /\ j \in Nat /\ 1 <= j /\ j < i /\ j < len
          /\ len \in Nat
      BY <2>2, Facts
    <3>3. j \in 1 .. len /\ j + 1 \in 1 .. len /\ (j > 1 => j - 1 \in 1 .. len)
      BY <3>2
    <3>4. /\ tape'[j] = tape[j] /\ tape'[j + 1] = tape[j + 1] /\ tape'[i] = tape[i]
          /\ j > 1 => tape'[j - 1] = tape[j - 1]
      BY <1>3, <1>4, <2>2, <3>3
    <3>5. j < Len(tape') /\ j # Len(tape) /\ j # Len(tape')
      BY <1>3, <3>2
    <3>6. Readable(tape, j) => Readable(tape', j)
      BY <3>4, <3>5, <3>2 DEF Readable
    <3>7. JoinedIn(tape, j, tape[i].epoch) => JoinedIn(tape', j, tape'[i].epoch)
      BY <3>4, <3>5 DEF JoinedIn
    <3> QED
      BY <3>1, <3>4, <3>6, <3>7
  <2> QED
    BY <1>4, <2>1, <2>2
<1>14. DuplicatesAreRaces'
  <2> SUFFICES ASSUME NEW i \in DOMAIN tape', NEW j \in DOMAIN tape',
                      i < j, IdOf[tape'[i].order] = IdOf[tape'[j].order],
                      tape'[i].epoch = tape'[j].epoch, ~(tape'[j].checkedAt < i)
               PROVE  Cardinality({IdOf[tape'[n].order] : n \in i + 1 .. tape'[j].checkedAt})
                         >= SeenMax
    BY DEF DuplicatesAreRaces
  <2> DEFINE m == tape'[j].checkedAt
  <2>1. i \in DOMAIN tape /\ tape'[i] = tape[i] /\ i \in Nat /\ 1 <= i /\ i <= len
    <3>1. i \in Nat /\ j \in Nat /\ 1 <= i /\ j <= len + 1
      BY <1>4
    <3>2. i # len + 1
      BY <1>4, <3>1
    <3> QED
      BY <1>4, <3>1, <3>2
  <2>2. m \in Nat /\ i <= m /\ m <= len
    <3>1. CASE j = len + 1
      BY <1>2, <1>3, <2>1, <3>1
    <3>2. CASE j \in DOMAIN tape
      <4>1. m = tape[j].checkedAt /\ m \in Nat /\ m < j /\ j <= len /\ j \in Nat
        BY <1>4, <3>2, Facts DEF IInv, TapeInv
      <4> HIDE DEF m
      <4> QED
        BY <1>4, <2>1, <4>1 DEF m
    <3> QED
      BY <1>4, <3>1, <3>2
  <2>3. \A n \in i + 1 .. m : tape'[n] = tape[n]
    <3> HIDE DEF m
    <3>1. \A n \in i + 1 .. m : n \in 1 .. len
      BY <1>4, <2>1, <2>2
    <3> QED
      BY <1>3, <3>1
  <2>4. {IdOf[tape'[n].order] : n \in i + 1 .. m} = IdsIn(i + 1, m)
    BY <2>3 DEF IdsIn
  <2>5. Cardinality(IdsIn(i + 1, m)) >= SeenMax
    <3>1. CASE j = len + 1
      <4>1. m = k.checkedAt /\ IdOf[tape[i].order] = IdOf[k.order] /\ tape[i].epoch = epoch
        BY <1>2, <1>3, <2>1, <3>1
      <4> HIDE DEF m
      <4>2. i \in 1 .. k.checkedAt
        BY <2>1, <2>2, <4>1
      <4> QED
        BY <4>1, <4>2 DEF NotSeen
    <3>2. CASE j \in DOMAIN tape
      <4>1. tape'[j] = tape[j]
        BY <1>4, <3>2
      <4> QED
        BY <2>1, <3>2, <4>1 DEF IInv, DuplicatesAreRaces, IdsIn
    <3> QED
      BY <1>4, <3>1, <3>2
  <2> QED
    BY <2>4, <2>5
<1>15. ASSUME NEW d \in Calls
       PROVE  HandlerInv(call[d])'
  <2>1. CASE d = c
    <3>1. call'[d] = End(k, "appended")
      BY <1>1, <2>1 DEF IInv, TypeOK
    <3>2. call'[d].pc = "appended" /\ call'[d].flagged = k.flagged
      BY <3>1, EndFacts DEF Ended
    <3> QED
      BY <3>2 DEF HandlerInv, Waiting, LookingUp
  <2>2. CASE d # c
    <3>1. call'[d] = call[d] /\ call[d] \in Call /\ HandlerInv(call[d])
      BY <1>1, <2>2 DEF IInv, TypeOK
    <3>2. /\ \A t \in Members : lastListed'[t] \in Int /\ lastListed[t] <= lastListed'[t]
          /\ \A a \in Addresses : lastClean'[a] \in Int /\ lastClean[a] <= lastClean'[a]
          /\ now' \in Nat /\ now <= now'
      BY <1>1, Facts
    <3>3. call[d].pc \in Waiting /\ WaitingInv(call[d]) => WaitingInv(call[d])'
      BY <1>1, <1>3, <1>8, <3>1, <3>2, WaitingKept
    <3> QED
      BY <3>1, <3>3 DEF HandlerInv
  <2> QED
    BY <2>1, <2>2
<1> QED
  BY <1>6, <1>7, <1>11, <1>12, <1>13, <1>14, <1>15 DEF IInv

----------------------------------------------------------------------------
(* The handler. *)

\* A step that leaves the tape alone: of one handler, or of none.
LEMMA QuietStep ==
    ASSUME IInv, UNCHANGED <<ledger, epoch, cfg>>,
           call' \in [Calls -> Call],
           \A d \in Calls : call'[d] = call[d] \/ HandlerInv(call[d])',
           WorldType', WorldInv',
           now <= now',
           \A t \in Members : lastListed[t] <= lastListed'[t],
           \A a \in Addresses : lastClean[a] <= lastClean'[a]
    PROVE  IInv'
<1>1. tape' = tape /\ seen' = seen /\ owner' = owner /\ epoch' = epoch /\ cfg' = cfg
  BY DEF ledger
<1>2. TypeOK'
  BY <1>1 DEF IInv, TypeOK, WorldType
<1>3. /\ TapeInv' /\ CancelsFollowTargets' /\ DuplicatesAreRaces'
  <2>1. TapeInv'
    BY <1>1 DEF IInv, TapeInv
  <2>2. CancelsFollowTargets'
    BY <1>1 DEF IInv, CancelsFollowTargets
  <2>3. DuplicatesAreRaces'
    BY <1>1 DEF IInv, DuplicatesAreRaces
  <2> QED
    BY <2>1, <2>2, <2>3
<1>4. SeenInv' /\ OwnerInv'
  <2>1. \A a, b : IdsIn(a, b)' = IdsIn(a, b)
    BY <1>1 DEF IdsIn
  <2>2. \A i : IdsIn(i + 1, Len(tape))' = IdsIn(i + 1, Len(tape))
    BY <1>1, <2>1
  <2>3. SeenInv'
    BY <1>1, <2>2 DEF IInv, SeenInv
  <2>4. OwnerInv'
    BY <1>1 DEF IInv, OwnerInv, Written
  <2> QED
    BY <2>3, <2>4
<1>5. /\ now' \in Nat
      /\ \A t \in Members : lastListed'[t] \in Int
      /\ \A a \in Addresses : lastClean'[a] \in Int
  BY Facts DEF WorldType
<1>6. ASSUME NEW d \in Calls
      PROVE  HandlerInv(call[d])'
  <2>1. CASE call'[d] = call[d]
    <3>1. call[d] \in Call /\ HandlerInv(call[d])
      BY DEF IInv, TypeOK
    <3>2. /\ Len(tape') \in Nat /\ Len(tape) <= Len(tape')
          /\ \A i : i \in DOMAIN tape' <=> i \in Nat /\ 1 <= i /\ i <= Len(tape')
          /\ \A i \in 1 .. Len(tape) : tape'[i] = tape[i]
          /\ \A i \in DOMAIN tape' : i > Len(tape) => tape'[i].epoch = epoch
      BY <1>1, Facts
    <3>3. call[d].pc \in Waiting /\ WaitingInv(call[d]) => WaitingInv(call[d])'
      BY <1>1, <1>5, <2>1, <3>1, <3>2, WaitingKept
    <3> QED
      BY <2>1, <3>1, <3>3 DEF HandlerInv
  <2>2. CASE HandlerInv(call[d])'
    BY <2>2
  <2> QED
    BY <2>1, <2>2
<1> QED
  BY <1>2, <1>3, <1>4, <1>6 DEF IInv

\* A step of one handler that leaves the tape alone.
LEMMA CallStep ==
    ASSUME IInv, UNCHANGED <<ledger, world>>,
           NEW c \in Calls, NEW new \in Call,
           call' = [call EXCEPT ![c] = new],
           HandlerInv(new)',
           WorldType', WorldInv'
    PROVE  IInv'
<1>1. /\ cfg' = cfg /\ now' = now /\ epoch' = epoch
      /\ lastListed' = lastListed /\ lastClean' = lastClean /\ UNCHANGED ledger
  BY DEF world
<1>2. call' \in [Calls -> Call]
  BY DEF IInv, TypeOK
<1>3. \A d \in Calls : call'[d] = call[d] \/ HandlerInv(call[d])'
  <2> SUFFICES ASSUME NEW d \in Calls
               PROVE  call'[d] = call[d] \/ HandlerInv(call[d])'
    OBVIOUS
  <2>1. call'[d] = IF d = c THEN new ELSE call[d]
    BY DEF IInv, TypeOK
  <2> QED
    BY <2>1
<1>4. /\ now <= now'
      /\ \A t \in Members : lastListed[t] <= lastListed'[t]
      /\ \A a \in Addresses : lastClean[a] <= lastClean'[a]
  BY <1>1, Facts
<1> QED
  BY <1>1, <1>2, <1>3, <1>4, QuietStep

LEMMA RefuseStep ==
    ASSUME IInv, NEW c \in Calls, NEW k \in Call, Refuse(c, k),
           UNCHANGED world, WorldType', WorldInv'
    PROVE  IInv'
<1> DEFINE new == End(k, "refused")
<1>1. new \in Call /\ new.pc = "refused"
  BY EndFacts DEF Ended
<1>2. call' = [call EXCEPT ![c] = new] /\ UNCHANGED ledger
  BY DEF Refuse
<1> HIDE DEF new
<1>3. HandlerInv(new)'
  BY <1>1 DEF HandlerInv, Waiting, LookingUp, new, End
<1> QED
  BY <1>1, <1>2, <1>3, CallStep

\* What neither a service nor a session has to do with keeps its type and stays true.
LEMMA WorldKept ==
    ASSUME IInv, UNCHANGED <<known, cache, world>>
    PROVE  WorldType' /\ WorldInv'
<1>1. WorldType /\ WorldInv
  BY DEF IInv, TypeOK, WorldType
<1> QED
  BY <1>1 DEF WorldType, WorldInv, known, world

\* After the lookup: refused, admitted, or on to the clearlist, with what was found
\* out before.
LEMMA GoOnStep ==
    ASSUME IInv, NEW c \in Calls, NEW k \in Call, NEW flag \in BOOLEAN,
           k.order \in Orders, k.sess \in Sessions,
           k.checkedAt <= Len(tape), NotSeen(k), HasTarget(k.order),
           k.flagged => cfg.intel /\ flag,
           GoOn(c, k, flag),
           UNCHANGED <<cache, world>>, WorldType', WorldInv'
    PROVE  IInv'
<1>1. UNCHANGED world
  OBVIOUS
<1>2. CASE Refuse(c, k)
  BY <1>1, <1>2, RefuseStep
<1>3. CASE ~(cfg.intel /\ flag) /\ Admit(c, k)
  BY <1>1, <1>3, AdmitStep
<1> DEFINE t == TraderOf[k.order]
           hit == cache[t].exp > now
           new == [k EXCEPT !.pc = IF hit THEN "hit" ELSE "asked",
                            !.asked = now,
                            !.answer = IF hit /\ cache[t].allowed THEN "yes"
                                       ELSE IF hit THEN "no" ELSE "fail"]
<1>4. CASE /\ ~(cfg.intel /\ flag) /\ k.order \in Gated
           /\ call' = [call EXCEPT ![c] = new]
           /\ UNCHANGED ledger
  <2>1. PICK n \in Call : n = new
    <3>1. new \in Call
      <4> DEFINE pc == IF hit THEN "hit" ELSE "asked"
                 answer == IF hit /\ cache[t].allowed THEN "yes"
                           ELSE IF hit THEN "no" ELSE "fail"
      <4>1. pc \in {"hit", "asked"} /\ answer \in {"yes", "no", "fail"}
        OBVIOUS
      <4>2. now \in 0 .. MaxTime
        BY DEF IInv, TypeOK
      <4>3. new = [k EXCEPT !.pc = pc, !.asked = now, !.answer = answer]
        OBVIOUS
      <4> HIDE DEF pc, answer, hit, new
      <4> QED
        BY <4>1, <4>2, <4>3 DEF Call, Waiting, Answer
    <3> HIDE DEF new
    <3> QED
      BY <3>1
  <2>2. /\ n.pc \in {"hit", "asked"} /\ n.order = k.order /\ n.sess = k.sess
        /\ n.checkedAt = k.checkedAt /\ n.flagged = k.flagged /\ n.asked = now
        /\ n.pc = "hit" /\ n.answer = "yes" => hit /\ cache[t].allowed
    <3> DEFINE pc == IF hit THEN "hit" ELSE "asked"
               answer == IF hit /\ cache[t].allowed THEN "yes"
                         ELSE IF hit THEN "no" ELSE "fail"
    <3>1. /\ pc \in {"hit", "asked"} /\ answer \in {"yes", "no", "fail"}
          /\ answer = "yes" => hit /\ cache[t].allowed
      OBVIOUS
    <3>2. n = [k EXCEPT !.pc = pc, !.asked = now, !.answer = answer]
      BY <2>1
    <3> HIDE DEF pc, answer, hit, new
    <3> QED
      BY <3>1, <3>2 DEF Call
  <2>3. call' = [call EXCEPT ![c] = n]
    BY <1>4, <2>1
  <2> HIDE DEF new
  <2>4. n.pc = "hit" /\ n.answer = "yes" => lastListed[t] > n.asked - TTL
    <3> SUFFICES ASSUME n.pc = "hit", n.answer = "yes"
                 PROVE  lastListed[t] > n.asked - TTL
      OBVIOUS
    <3>1. t \in Members /\ cache[t].exp > now /\ cache[t].allowed
      BY <1>4, <2>2 DEF Members
    <3>2. /\ lastListed[t] >= cache[t].exp - TTL
          /\ lastListed[t] \in Int /\ cache[t].exp \in Nat
      BY <3>1, Facts DEF IInv, TypeOK, WorldInv
    <3> QED
      BY <2>2, <3>1, <3>2, Numbers
  <2>5. ~k.flagged
    BY <1>4
  <2>6. /\ tape' = tape /\ epoch' = epoch /\ lastListed' = lastListed /\ now' = now
        /\ cfg' = cfg
    BY <1>1, <1>4 DEF world, ledger
  <2>7. NotSeen(n)'
    <3>1. NotSeen(n)
      BY <2>2 DEF NotSeen
    <3> QED
      BY <2>6, <3>1 DEF NotSeen, IdsIn
  <2>8. HasTarget(n.order)'
    BY <2>2, <2>6 DEF HasTarget, Written
  <2>9. HandlerInv(n)'
    <3>1. n.checkedAt <= Len(tape') /\ n.asked <= now'
      BY <2>2, <2>6, Facts
    <3>2. /\ n.pc \notin LookingUp /\ n.pc \notin {"looked", "cached"}
          /\ n.pc # "replied" /\ n.pc # "appended"
      BY <2>2 DEF LookingUp
    <3>3. n.pc = "hit" /\ n.answer = "yes" =>
              lastListed'[TraderOf[n.order]] > n.asked - TTL
      BY <2>2, <2>4, <2>6
    <3>4. n.order \in Orders /\ n.sess \in Sessions /\ n.order \in Gated /\ ~n.flagged
      BY <1>4, <2>2, <2>5
    <3> QED
      BY <2>7, <2>8, <3>1, <3>2, <3>3, <3>4 DEF HandlerInv, WaitingInv
  <2> QED
    BY <1>1, <1>4, <2>3, <2>9, CallStep
<1>5. \/ Refuse(c, k)
      \/ ~(cfg.intel /\ flag) /\ Admit(c, k)
      \/ /\ ~(cfg.intel /\ flag) /\ k.order \in Gated
         /\ call' = [call EXCEPT ![c] = new]
         /\ UNCHANGED ledger
  BY DEF GoOn
<1> QED
  BY <1>2, <1>3, <1>4, <1>5

LEMMA ReceiveStep ==
    ASSUME IInv, NEW c \in Calls, NEW o \in Orders, NEW s \in Sessions, Receive(c, o, s)
    PROVE  IInv'
<1> DEFINE kept == ipCache[AddressOf[s]]
           asking == [NoCall EXCEPT !.order = o, !.sess = s, !.checkedAt = Len(tape)]
<1>1. PICK k \in Call : k = asking
  <2>1. NoCall \in Call /\ Len(tape) \in Nat
    BY NoCallFacts, Facts
  <2> HIDE DEF NoCall
  <2> QED
    BY <2>1 DEF Call
<1>2. /\ k.order = o /\ k.sess = s /\ k.checkedAt = Len(tape) /\ ~k.flagged
      /\ k.pc = "idle" /\ k.asked = 0 /\ k.answer = "fail"
  BY <1>1 DEF NoCall
<1>3. \/ Refuse(c, k)
      \/ /\ IdOf[o] \notin ToSet(seen) /\ OwnsTarget(o) /\ cfg.intel
         /\ call' = [call EXCEPT ![c] =
                IF kept.exp > now
                THEN [k EXCEPT !.pc = "cached", !.asked = now, !.answer = kept.verdict]
                ELSE [k EXCEPT !.pc = "intel", !.asked = now]]
         /\ UNCHANGED ledger
      \/ IdOf[o] \notin ToSet(seen) /\ OwnsTarget(o) /\ ~cfg.intel /\ GoOn(c, k, FALSE)
  BY <1>1, Zenon DEF Receive
<1> HIDE DEF asking
<1>4. UNCHANGED <<known, cache, world>> /\ WorldType' /\ WorldInv'
  <2>1. UNCHANGED <<known, cache, world>>
    BY DEF Receive
  <2> QED
    BY <2>1, WorldKept
<1>5. UNCHANGED world /\ UNCHANGED <<cache, world>>
  BY <1>4
<1>6. CASE Refuse(c, k)
  BY <1>4, <1>5, <1>6, RefuseStep
<1>7. ASSUME IdOf[o] \notin ToSet(seen)
      PROVE  NotSeen(k)
  <2> SUFFICES ASSUME NEW i \in 1 .. k.checkedAt, IdOf[tape[i].order] = IdOf[k.order],
                      tape[i].epoch = epoch
               PROVE  Cardinality(IdsIn(i + 1, k.checkedAt)) >= SeenMax
    BY DEF NotSeen
  <2>1. i \in DOMAIN tape
    BY <1>2, Facts
  <2> QED
    BY <1>2, <1>7, <2>1 DEF IInv, SeenInv
<1>8. ASSUME OwnsTarget(o)
      PROVE  HasTarget(o)
  <2> SUFFICES ASSUME TargetOf[o] # NoId
               PROVE  Written(TargetOf[o], TraderOf[o])
    BY DEF HasTarget
  <2>1. TargetOf[o] \in Ids /\ TraderOf[o] \in Traders /\ TraderOf[o] # NoTrader
    BY AdmissionAssumption
  <2>2. owner[TargetOf[o]] = TraderOf[o]
    BY <1>8 DEF OwnsTarget
  <2> QED
    BY <2>1, <2>2 DEF IInv, OwnerInv
<1>9. CASE /\ IdOf[o] \notin ToSet(seen) /\ OwnsTarget(o) /\ cfg.intel
           /\ call' = [call EXCEPT ![c] =
                  IF kept.exp > now
                  THEN [k EXCEPT !.pc = "cached", !.asked = now, !.answer = kept.verdict]
                  ELSE [k EXCEPT !.pc = "intel", !.asked = now]]
           /\ UNCHANGED ledger
  <2>1. /\ AddressOf[s] \in Addresses /\ now \in 0 .. MaxTime
        /\ kept.exp \in Nat /\ kept.verdict \in Verdict
    BY AdmissionAssumption DEF IInv, TypeOK
  <2>2. kept.verdict = "clean" => lastClean[AddressOf[s]] >= kept.exp - IntelTTL
    BY <2>1 DEF IInv, WorldInv
  <2> HIDE DEF kept
  <2>3. PICK n \in Call :
            /\ call' = [call EXCEPT ![c] = n]
            /\ n.order = o /\ n.sess = s /\ n.checkedAt = Len(tape) /\ ~n.flagged
            /\ n.asked = now /\ n.pc \in {"cached", "intel"}
            /\ n.pc = "cached" => kept.exp > now /\ n.answer = kept.verdict
    <3>1. CASE kept.exp > now
      <4>1. PICK n \in Call :
                n = [k EXCEPT !.pc = "cached", !.asked = now, !.answer = kept.verdict]
        BY <2>1 DEF Call, Waiting, LookingUp
      <4>2. /\ n.order = o /\ n.sess = s /\ n.checkedAt = Len(tape) /\ ~n.flagged
            /\ n.asked = now /\ n.pc = "cached" /\ n.answer = kept.verdict
        BY <1>2, <4>1 DEF Call
      <4>3. call' = [call EXCEPT ![c] = n]
        BY <1>9, <3>1, <4>1
      <4> QED
        BY <3>1, <4>2, <4>3
    <3>2. CASE ~(kept.exp > now)
      <4>1. PICK n \in Call : n = [k EXCEPT !.pc = "intel", !.asked = now]
        BY <2>1 DEF Call, Waiting, LookingUp
      <4>2. /\ n.order = o /\ n.sess = s /\ n.checkedAt = Len(tape) /\ ~n.flagged
            /\ n.asked = now /\ n.pc = "intel"
        BY <1>2, <4>1 DEF Call
      <4>3. call' = [call EXCEPT ![c] = n]
        BY <1>9, <3>2, <4>1
      <4> QED
        BY <4>2, <4>3
    <3> QED
      BY <3>1, <3>2
  <2>4. /\ tape' = tape /\ epoch' = epoch /\ cfg' = cfg /\ now' = now
        /\ lastListed' = lastListed /\ lastClean' = lastClean
    BY <1>4, <1>9 DEF world, ledger
  <2>5. NotSeen(n)'
    <3>1. NotSeen(n)
      BY <1>2, <1>7, <1>9, <2>3 DEF NotSeen
    <3> QED
      BY <2>4, <3>1 DEF NotSeen, IdsIn
  <2>6. HasTarget(n.order)'
    BY <1>8, <1>9, <2>3, <2>4 DEF HasTarget, Written
  <2>7. n.checkedAt <= Len(tape') /\ n.asked <= now'
    BY <2>3, <2>4, Facts
  <2>8. n.pc = "cached" /\ n.answer = "clean" =>
            lastClean'[AddressOf[n.sess]] > n.asked - IntelTTL
    <3> SUFFICES ASSUME n.pc = "cached", n.answer = "clean"
                 PROVE  lastClean'[AddressOf[n.sess]] > n.asked - IntelTTL
      OBVIOUS
    <3> DEFINE a == AddressOf[s]
    <3>1. lastClean[a] >= kept.exp - IntelTTL /\ kept.exp > n.asked
      BY <2>2, <2>3
    <3>2. lastClean[a] \in Int /\ n.asked \in Nat
      BY <2>1, <2>3, Numbers
    <3> HIDE DEF a
    <3>3. lastClean[a] > n.asked - IntelTTL
      BY <2>1, <3>1, <3>2, Numbers
    <3> QED
      BY <2>3, <2>4, <3>3 DEF a
  <2>9. HandlerInv(n)'
    <3>1. n.pc \in LookingUp /\ n.pc \notin {"looked", "replied", "hit", "appended"}
      BY <2>3 DEF LookingUp
    <3>2. n.order \in Orders /\ n.sess \in Sessions /\ ~n.flagged /\ cfg'.intel
      BY <1>9, <2>3, <2>4
    <3> QED
      BY <2>5, <2>6, <2>7, <2>8, <3>1, <3>2 DEF HandlerInv, WaitingInv
  <2> QED
    BY <1>4, <1>5, <1>9, <2>3, <2>9, CallStep
<1>10. CASE IdOf[o] \notin ToSet(seen) /\ OwnsTarget(o) /\ ~cfg.intel /\ GoOn(c, k, FALSE)
  <2>1. k.checkedAt <= Len(tape) /\ NotSeen(k) /\ HasTarget(k.order)
    BY <1>2, <1>7, <1>8, <1>10, Facts
  <2> QED
    BY <1>2, <1>4, <1>5, <1>10, <2>1, GoOnStep
<1> QED
  BY <1>3, <1>6, <1>9, <1>10

LEMMA IntelAnswersStep ==
    ASSUME IInv, NEW c \in Calls, NEW answer \in Verdict \cup {"fail"},
           IntelAnswers(c, answer)
    PROVE  IInv'
<1>1. PICK k \in Call : k = call[c]
  BY DEF IInv, TypeOK
<1>2. k.pc = "intel" /\ WaitingInv(k) /\ HandlerInv(k) /\ cfg.intel /\ ~k.flagged
  BY <1>1 DEF IntelAnswers, IInv, HandlerInv, WaitingInv, Waiting, LookingUp
<1>3. k.sess \in Sessions /\ AddressOf[k.sess] \in Addresses /\ k.order \in Orders
  BY <1>2, AdmissionAssumption DEF WaitingInv
<1>4. PICK n \in Call : n = [k EXCEPT !.pc = "looked", !.answer = answer]
  BY DEF Call, Waiting, LookingUp, Answer
<1>5. /\ n.pc = "looked" /\ n.answer = answer /\ n.order = k.order
      /\ n.sess = k.sess /\ n.checkedAt = k.checkedAt /\ n.flagged = k.flagged
      /\ n.asked = k.asked
  BY <1>4 DEF Call
<1>6. call' = [call EXCEPT ![c] = n]
  BY <1>1, <1>4 DEF IntelAnswers, IInv, TypeOK
<1>7. UNCHANGED <<ledger, known, cache, world>>
  BY DEF IntelAnswers
<1>8. WorldType' /\ WorldInv'
  BY <1>7, WorldKept
<1>9. /\ tape' = tape /\ epoch' = epoch /\ cfg' = cfg /\ now' = now
      /\ lastListed' = lastListed /\ lastClean' = lastClean
  BY <1>7 DEF world, ledger
<1>10. n.answer = "clean" => lastClean'[AddressOf[n.sess]] >= n.asked
  <2> SUFFICES ASSUME answer = "clean"
               PROVE  lastClean'[AddressOf[n.sess]] >= n.asked
    BY <1>5
  <2> DEFINE a == AddressOf[k.sess]
  <2>1. a \notin vpns
    BY <1>1 DEF IntelAnswers
  <2>2. lastClean[a] = now
    BY <1>3, <2>1 DEF IInv, WorldInv
  <2>3. k.asked <= now /\ k.asked \in Nat
    BY <1>2 DEF WaitingInv, Call
  <2>4. lastClean[a] >= n.asked
    BY <1>5, <2>2, <2>3, Numbers
  <2> QED
    BY <1>5, <1>9, <2>4
<1>11. HandlerInv(n)'
  <2>1. NotSeen(n)'
    <3>1. NotSeen(n)
      BY <1>2, <1>5 DEF WaitingInv, NotSeen
    <3> QED
      BY <1>9, <3>1 DEF NotSeen, IdsIn
  <2>2. HasTarget(n.order)'
    BY <1>2, <1>5, <1>9 DEF WaitingInv, HasTarget, Written
  <2>3. /\ n.order \in Orders /\ n.sess \in Sessions /\ ~n.flagged /\ cfg'.intel
        /\ n.checkedAt <= Len(tape') /\ n.asked <= now'
    BY <1>2, <1>5, <1>9 DEF WaitingInv
  <2>4. n.pc \in LookingUp /\ n.answer \in Verdict \cup {"fail"}
    BY <1>5 DEF LookingUp
  <2> QED
    BY <1>5, <1>10, <2>1, <2>2, <2>3, <2>4 DEF HandlerInv, WaitingInv
<1> QED
  BY <1>6, <1>7, <1>8, <1>11, CallStep

\* The session's flag follows the last answer that says anything, and a clean answer
\* is never too old to count.
LEMMA FlagStep ==
    ASSUME IInv, NEW c \in Calls, LookupReturns(c)
    PROVE  /\ call[c].sess \in Sessions
           /\ vpn' \in [Sessions -> BOOLEAN] /\ suspects' \subseteq Sessions
           /\ \A s \in suspects' : vpn'[s]
<1>1. PICK k \in Call : k = call[c]
  BY DEF IInv, TypeOK
<1>2. k.pc \in {"looked", "cached"} /\ WaitingInv(k) /\ k.sess \in Sessions
  BY <1>1 DEF LookupReturns, IInv, HandlerInv, WaitingInv, Waiting, LookingUp
<1>3. /\ vpn \in [Sessions -> BOOLEAN] /\ suspects \subseteq Sessions
      /\ \A s \in suspects : vpn[s]
  BY DEF IInv, TypeOK, WorldInv
<1>4. CASE k.answer = "vpn"
  <2>1. vpn' = [vpn EXCEPT ![k.sess] = TRUE] /\ suspects' = suspects \cup {k.sess}
    BY <1>1, <1>4 DEF LookupReturns, Suspects
  <2> QED
    BY <1>1, <1>2, <1>3, <2>1
<1>5. CASE k.answer = "clean"
  <2>1. WasClean(k)
    BY <1>2, <1>5 DEF WaitingInv, WasClean
  <2>2. vpn' = [vpn EXCEPT ![k.sess] = FALSE] /\ suspects' = suspects \ {k.sess}
    BY <1>1, <1>5, <2>1 DEF LookupReturns, Suspects
  <2> QED
    BY <1>1, <1>2, <1>3, <2>2
<1>6. CASE k.answer \notin {"vpn", "clean"}
  <2>1. vpn' = vpn /\ suspects' = suspects
    BY <1>1, <1>6 DEF LookupReturns, Suspects
  <2> QED
    BY <1>1, <1>2, <1>3, <2>1
<1> QED
  BY <1>4, <1>5, <1>6

LEMMA LookupReturnsStep ==
    ASSUME IInv, NEW c \in Calls, LookupReturns(c)
    PROVE  IInv'
<1>1. PICK k \in Call : k = call[c]
  BY DEF IInv, TypeOK
<1>2. k.pc \in {"looked", "cached"} /\ WaitingInv(k) /\ cfg.intel
  BY <1>1 DEF LookupReturns, IInv, HandlerInv, WaitingInv, Waiting, LookingUp
<1>3. k.sess \in Sessions /\ k.order \in Orders /\ AddressOf[k.sess] \in Addresses
  BY <1>2, AdmissionAssumption DEF WaitingInv
<1>4. /\ vpn' \in [Sessions -> BOOLEAN] /\ suspects' \subseteq Sessions
      /\ \A s \in suspects' : vpn'[s]
  BY FlagStep
<1>5. UNCHANGED <<cache, world>> /\ ipCache' = KeepIntel(c)
  BY DEF LookupReturns
<1> DEFINE a == AddressOf[k.sess]
<1>6. /\ ipCache' \in [Addresses -> [exp : Nat, verdict : Verdict]]
      /\ \A b \in Addresses :
            ipCache'[b].verdict = "clean" => lastClean[b] >= ipCache'[b].exp - IntelTTL
  <2>1. /\ ipCache \in [Addresses -> [exp : Nat, verdict : Verdict]]
        /\ \A b \in Addresses :
              ipCache[b].verdict = "clean" => lastClean[b] >= ipCache[b].exp - IntelTTL
    BY DEF IInv, TypeOK, WorldInv
  <2>2. CASE k.pc = "looked" /\ k.answer # "fail"
    <3>1. PICK e \in [exp : Nat, verdict : Verdict] :
              e.exp = k.asked + IntelTTL /\ e.verdict = k.answer
                /\ ipCache' = [ipCache EXCEPT ![a] = e]
      <4>1. k.asked + IntelTTL \in Nat
        BY Numbers DEF Call
      <4>2. k.answer \in Verdict
        BY <1>2, <2>2 DEF WaitingInv
      <4>3. [exp |-> k.asked + IntelTTL, verdict |-> k.answer] \in [exp : Nat, verdict : Verdict]
        BY <4>1, <4>2
      <4>4. ipCache' = [ipCache EXCEPT ![a] = [exp |-> k.asked + IntelTTL,
                                               verdict |-> k.answer]]
        BY <1>1, <1>5, <2>2 DEF KeepIntel
      <4> QED
        BY <4>3, <4>4
    <3>2. k.answer = "clean" => lastClean[a] >= (k.asked + IntelTTL) - IntelTTL
      <4> SUFFICES ASSUME k.answer = "clean"
                   PROVE  lastClean[a] >= (k.asked + IntelTTL) - IntelTTL
        OBVIOUS
      <4>1. lastClean[a] >= k.asked
        BY <1>2, <2>2 DEF WaitingInv
      <4>2. k.asked \in Nat /\ lastClean[a] \in Int /\ IntelTTL \in Nat
        BY <1>3, Numbers DEF Call
      <4> HIDE DEF a
      <4> QED
        BY <4>1, <4>2
    <3> HIDE DEF a
    <3> QED
      BY <2>1, <3>1, <3>2
  <2>3. CASE ~(k.pc = "looked" /\ k.answer # "fail")
    BY <1>1, <1>5, <2>1, <2>3 DEF KeepIntel
  <2> QED
    BY <2>2, <2>3
<1>7. WorldType' /\ WorldInv'
  <2>1. /\ cfg' = cfg /\ now' = now /\ listed' = listed /\ lastListed' = lastListed
        /\ vpns' = vpns /\ lastClean' = lastClean /\ cache' = cache
    BY <1>5 DEF world
  <2>2. WorldType'
    BY <1>4, <1>6, <2>1 DEF IInv, TypeOK, WorldType
  <2>3. WorldInv'
    BY <1>4, <1>6, <2>1 DEF IInv, WorldInv
  <2> QED
    BY <2>2, <2>3
<1>8. PICK flag \in BOOLEAN : flag = vpn'[k.sess]
  BY <1>3, <1>4
<1>9. PICK n \in Call : n = [k EXCEPT !.flagged = k.sess \in suspects']
  <2>1. (k.sess \in suspects') \in BOOLEAN
    OBVIOUS
  <2> QED
    BY <2>1 DEF Call
<1>10. /\ n.order = k.order /\ n.sess = k.sess /\ n.checkedAt = k.checkedAt
       /\ n.flagged => flag
  <2>1. n.flagged = (k.sess \in suspects')
    BY <1>9 DEF Call
  <2> QED
    BY <1>4, <1>8, <1>9, <2>1 DEF Call
<1>11. GoOn(c, n, flag)
  BY <1>1, <1>8, <1>9, Zenon DEF LookupReturns
<1>12. n.checkedAt <= Len(tape) /\ NotSeen(n) /\ HasTarget(n.order)
  BY <1>2, <1>10 DEF WaitingInv, NotSeen
<1> QED
  BY <1>2, <1>3, <1>5, <1>7, <1>10, <1>11, <1>12, GoOnStep

----------------------------------------------------------------------------
(* The clearlist. *)

LEMMA ServiceAnswersStep ==
    ASSUME IInv, NEW c \in Calls, NEW fails \in BOOLEAN, ServiceAnswers(c, fails)
    PROVE  IInv'
<1>1. PICK k \in Call : k = call[c]
  BY DEF IInv, TypeOK
<1>2. /\ k.pc = "asked" /\ k.pc \in Waiting /\ WaitingInv(k) /\ HandlerInv(k)
      /\ k.order \in Gated /\ ~k.flagged
  BY <1>1 DEF ServiceAnswers, IInv, HandlerInv, WaitingInv, Waiting, LookingUp
<1>3. PICK answer \in Answer :
          answer = IF fails THEN "fail"
                   ELSE IF TraderOf[k.order] \in listed THEN "yes" ELSE "no"
  BY DEF Answer
<1>4. PICK n \in Call : n = [k EXCEPT !.pc = "replied", !.answer = answer]
  BY DEF Call, Waiting
<1>5. /\ n.pc = "replied" /\ n.answer = answer /\ n.order = k.order
      /\ n.sess = k.sess /\ n.checkedAt = k.checkedAt /\ n.flagged = k.flagged
      /\ n.asked = k.asked
  BY <1>4 DEF Call
<1>6. call' = [call EXCEPT ![c] = n]
  BY <1>1, <1>3, <1>4 DEF ServiceAnswers, IInv, TypeOK
<1>7. UNCHANGED <<ledger, known, cache, world>>
  BY DEF ServiceAnswers
<1>8. WorldType' /\ WorldInv'
  BY <1>7, WorldKept
<1>9. n.answer = "yes" => lastListed[TraderOf[k.order]] >= k.asked
  <2> DEFINE t == TraderOf[k.order]
  <2> SUFFICES ASSUME n.answer = "yes"
               PROVE  lastListed[t] >= k.asked
    OBVIOUS
  <2>1. t \in listed /\ t \in Members
    BY <1>2, <1>3, <1>5 DEF Members
  <2>2. lastListed[t] = now
    BY <2>1 DEF IInv, WorldInv
  <2>3. k.asked <= now /\ k.asked \in Nat
    BY <1>2, Facts DEF WaitingInv, Call
  <2> HIDE DEF t
  <2> QED
    BY <2>2, <2>3, Facts
<1>10. HandlerInv(n)'
  <2>1. /\ tape' = tape /\ epoch' = epoch /\ now' = now /\ lastListed' = lastListed
    BY <1>7 DEF world, ledger
  <2>2. NotSeen(n)'
    <3>1. NotSeen(n)
      BY <1>2, <1>5 DEF WaitingInv, NotSeen
    <3> QED
      BY <2>1, <3>1 DEF NotSeen, IdsIn
  <2>3. HasTarget(n.order)'
    BY <1>2, <1>5, <2>1 DEF WaitingInv, HasTarget, Written
  <2>4. /\ n.order \in Orders /\ n.sess \in Sessions /\ n.order \in Gated /\ ~n.flagged
        /\ n.checkedAt <= Len(tape') /\ n.asked <= now'
    BY <1>2, <1>5, <2>1 DEF WaitingInv
  <2>5. n.pc \notin LookingUp
    BY <1>5 DEF LookingUp
  <2> QED
    BY <1>5, <1>9, <2>1, <2>2, <2>3, <2>4, <2>5 DEF HandlerInv, WaitingInv
<1> QED
  BY <1>6, <1>7, <1>8, <1>10, CallStep

LEMMA CheckReturnsStep ==
    ASSUME IInv, NEW c \in Calls, CheckReturns(c)
    PROVE  IInv'
<1>1. PICK k \in Call : k = call[c]
  BY DEF IInv, TypeOK
<1>2. /\ k.pc \in {"replied", "hit"} /\ WaitingInv(k) /\ k.order \in Gated /\ ~k.flagged
      /\ cache' = Keep(c) /\ UNCHANGED <<known, world>>
      /\ Admit(c, k) \/ Refuse(c, k)
  BY <1>1 DEF CheckReturns, IInv, HandlerInv, WaitingInv, Waiting, LookingUp
<1> DEFINE t == TraderOf[k.order]
<1>3. /\ cache' \in [Members -> [exp : Nat, allowed : BOOLEAN]]
      /\ \A u \in Members : cache'[u].allowed => lastListed[u] >= cache'[u].exp - TTL
  <2>1. /\ cache \in [Members -> [exp : Nat, allowed : BOOLEAN]]
        /\ \A u \in Members : cache[u].allowed => lastListed[u] >= cache[u].exp - TTL
    BY DEF IInv, TypeOK, WorldInv
  <2>2. CASE k.pc = "replied" /\ k.answer # "fail"
    <3>1. PICK e \in [exp : Nat, allowed : BOOLEAN] :
              e.exp = k.asked + TTL /\ e.allowed = (k.answer = "yes")
                /\ cache' = [cache EXCEPT ![t] = e]
      <4>1. k.asked + TTL \in Nat
        BY Facts DEF Call
      <4>2. [exp |-> k.asked + TTL, allowed |-> k.answer = "yes"]
               \in [exp : Nat, allowed : BOOLEAN]
        BY <4>1
      <4>3. cache' = [cache EXCEPT ![t] = [exp |-> k.asked + TTL,
                                           allowed |-> k.answer = "yes"]]
        BY <1>1, <1>2, <2>2 DEF Keep
      <4> QED
        BY <4>2, <4>3
    <3>2. k.answer = "yes" => lastListed[t] >= (k.asked + TTL) - TTL
      <4>1. k.answer = "yes" => lastListed[t] >= k.asked
        BY <1>2, <2>2 DEF WaitingInv
      <4>2. t \in Members
        BY <1>2 DEF Members
      <4>3. k.asked \in Nat /\ lastListed[t] \in Int /\ TTL \in Nat
        BY <4>2, Facts DEF Call
      <4> HIDE DEF t
      <4> QED
        BY <4>1, <4>3
    <3> HIDE DEF t
    <3> QED
      BY <2>1, <3>1, <3>2
  <2>3. CASE ~(k.pc = "replied" /\ k.answer # "fail")
    BY <1>1, <1>2, <2>1, <2>3 DEF Keep
  <2> QED
    BY <2>2, <2>3
<1>4. WorldType' /\ WorldInv'
  <2>1. UNCHANGED <<vpn, ipCache, suspects, cfg, now, listed, lastListed, vpns, lastClean>>
    BY <1>2 DEF known, world
  <2>2. WorldType'
    BY <1>3, <2>1 DEF IInv, TypeOK, WorldType
  <2>3. WorldInv'
    BY <1>3, <2>1 DEF IInv, WorldInv
  <2> QED
    BY <2>2, <2>3
<1>5. CASE Refuse(c, k)
  BY <1>2, <1>4, <1>5, RefuseStep
<1>6. CASE Admit(c, k)
  <2>1. /\ k.order \in Orders /\ k.checkedAt <= Len(tape) /\ NotSeen(k)
        /\ HasTarget(k.order)
    BY <1>2 DEF WaitingInv
  <2> QED
    BY <1>2, <1>4, <1>6, <2>1, AdmitStep
<1> QED
  BY <1>2, <1>5, <1>6

----------------------------------------------------------------------------
(* The world around it. *)

\* Among the places where a reader finds an id, one is the last.
LEMMA LastRead ==
    ASSUME NEW t \in Seq(Entry), NEW id, ReadOf(t, id) # {}
    PROVE  \E m \in ReadOf(t, id) : \A j \in ReadOf(t, id) : j <= m
<1>1. Len(t) \in Nat /\ \A j \in ReadOf(t, id) : j \in Nat /\ 1 <= j /\ j <= Len(t)
  BY LenProperties DEF ReadOf
<1> DEFINE R == ReadOf(t, id)
           T == {x \in Nat : \E j \in R : x = Len(t) - j}
<1>2. T \subseteq Nat /\ T # {}
  BY <1>1
<1>3. \E x \in T : \A y \in T : ~ (<<y, x>> \in OpToRel(<, Nat))
  BY <1>2, NatLessThanWellFounded, WFMin, Zenon
<1>4. \A x, y \in T : y < x => <<y, x>> \in OpToRel(<, Nat)
  BY <1>2, Zenon DEF OpToRel
<1>5. PICK x \in T : \A y \in T : ~(y < x)
  BY <1>3, <1>4, Zenon
<1>6. PICK m \in R : x = Len(t) - m
  BY <1>5
<1>7. ASSUME NEW j \in R
      PROVE  j <= m
  <2>1. Len(t) - j \in T
    BY <1>1
  <2> QED
    BY <1>1, <1>5, <1>6, <2>1
<1> QED
  BY <1>7

\* loadFromDisk: an id has an owner only if the owner's order of that id is read.
LEMMA LoadedFacts ==
    ASSUME NEW t \in Seq(Entry)
    PROVE  /\ Loaded(t) \in [Ids -> Traders \cup {NoTrader}]
           /\ \A id \in Ids : Loaded(t)[id] # NoTrader =>
                 \E j \in DOMAIN t : /\ IdOf[t[j].order] = id
                                     /\ TraderOf[t[j].order] = Loaded(t)[id]
                                     /\ Readable(t, j)
<1>1. ASSUME NEW id \in Ids
      PROVE  \/ Loaded(t)[id] = NoTrader
             \/ \E j \in ReadOf(t, id) : Loaded(t)[id] = TraderOf[t[j].order]
  <2>1. CASE ReadOf(t, id) = {}
    BY <2>1 DEF Loaded
  <2>2. CASE ReadOf(t, id) # {}
    <3> DEFINE m == CHOOSE i \in ReadOf(t, id) : \A j \in ReadOf(t, id) : j <= i
    <3>1. m \in ReadOf(t, id)
      BY <2>2, LastRead
    <3>2. Loaded(t)[id] = TraderOf[t[m].order]
      BY <2>2 DEF Loaded
    <3> HIDE DEF m
    <3> QED
      BY <3>1, <3>2
  <2> QED
    BY <2>1, <2>2
<1>2. \A j \in DOMAIN t : t[j] \in Entry /\ t[j].order \in Orders
  <2>1. \A j \in DOMAIN t : t[j] \in Entry
    BY LenProperties
  <2> QED
    BY <2>1 DEF Entry
<1>3. \A id \in Ids : \A j \in ReadOf(t, id) :
         j \in DOMAIN t /\ Readable(t, j) /\ IdOf[t[j].order] = id
  BY DEF ReadOf
<1>4. ASSUME NEW id \in Ids
      PROVE  Loaded(t)[id] \in Traders \cup {NoTrader}
  <2>1. CASE Loaded(t)[id] = NoTrader
    BY <2>1
  <2>2. CASE Loaded(t)[id] # NoTrader
    <3>1. PICK j \in ReadOf(t, id) : Loaded(t)[id] = TraderOf[t[j].order]
      BY <1>1, <2>2
    <3>2. j \in DOMAIN t
      BY <1>3
    <3>3. TraderOf[t[j].order] \in Traders
      BY <1>2, <3>2, AdmissionAssumption
    <3> QED
      BY <3>1, <3>3
  <2> QED
    BY <2>1, <2>2
<1>5. Loaded(t) \in [Ids -> Traders \cup {NoTrader}]
  <2> DEFINE whose(id) ==
                 IF ReadOf(t, id) = {} THEN NoTrader
                 ELSE TraderOf[t[CHOOSE i \in ReadOf(t, id) :
                                     \A j \in ReadOf(t, id) : j <= i].order]
  <2>1. Loaded(t) = [id \in Ids |-> whose(id)]
    BY DEF Loaded
  <2> HIDE DEF whose
  <2>2. \A id \in Ids : whose(id) \in Traders \cup {NoTrader}
    BY <1>4, <2>1
  <2> QED
    BY <2>1, <2>2
<1>6. ASSUME NEW id \in Ids, Loaded(t)[id] # NoTrader
      PROVE  \E j \in DOMAIN t : /\ IdOf[t[j].order] = id
                                 /\ TraderOf[t[j].order] = Loaded(t)[id]
                                 /\ Readable(t, j)
  <2>1. PICK j \in ReadOf(t, id) : Loaded(t)[id] = TraderOf[t[j].order]
    BY <1>1, <1>6
  <2> QED
    BY <1>3, <2>1
<1> QED
  BY <1>5, <1>6

\* What a restart leaves of the tape: its first entries, the last perhaps cut short.
LEMMA CutTape ==
    ASSUME IInv, Restart
    PROVE  /\ tape' \in Seq(Entry)
           /\ \E n \in 0 .. Len(tape) :
                 /\ Len(tape') = n
                 /\ \A i \in 1 .. n : /\ tape'[i].order = tape[i].order
                                      /\ tape'[i].checkedAt = tape[i].checkedAt
                                      /\ tape'[i].epoch = tape[i].epoch
                                      /\ i < n => tape'[i].end = tape[i].end
<1>1. /\ tape \in Seq(Entry) /\ Len(tape) \in Nat
      /\ \A i \in 1 .. Len(tape) : tape[i] \in Entry
  BY Facts, LenProperties
<1>2. PICK n \in 0 .. Len(tape), end \in Ending :
          \/ tape' = SubSeq(tape, 1, n)
          \/ n > 0 /\ tape' = [SubSeq(tape, 1, n) EXCEPT ![n].end = end]
  BY DEF Restart
<1>3. PICK s : s = SubSeq(tape, 1, n)
  OBVIOUS
<1>4. /\ s \in Seq(Entry) /\ Len(s) = n /\ n \in Nat /\ n <= Len(tape)
      /\ DOMAIN s = 1 .. n
      /\ \A i \in 1 .. n : s[i] = tape[i] /\ tape[i] \in Entry
  <2>1. n \in Nat /\ n <= Len(tape)
    BY <1>1
  <2>2. \A i \in 1 .. n : tape[i] \in Entry
    BY <1>1, <2>1
  <2>3. 1 \in Int /\ n \in Int
    BY <2>1
  <2>4. /\ SubSeq(tape, 1, n) \in Seq(Entry)
        /\ Len(SubSeq(tape, 1, n)) = IF 1 <= n THEN n - 1 + 1 ELSE 0
        /\ \A i \in 1 .. n - 1 + 1 : SubSeq(tape, 1, n)[i] = tape[1 + i - 1]
    BY <2>2, <2>3, SubSeqProperties
  <2>5. s \in Seq(Entry) /\ Len(s) = n /\ \A i \in 1 .. n : s[i] = tape[i]
    BY <1>3, <2>1, <2>4
  <2> QED
    BY <2>1, <2>2, <2>5, LenProperties
<1>5. CASE tape' = s
  BY <1>4, <1>5
<1>6. CASE n > 0 /\ tape' = [s EXCEPT ![n].end = end]
  <2>1. n \in 1 .. n /\ s[n] \in Entry /\ tape[n] = s[n]
    BY <1>4, <1>6
  <2>2. PICK e \in Entry : /\ e = [s[n] EXCEPT !.end = end]
                           /\ e.order = s[n].order /\ e.checkedAt = s[n].checkedAt
                           /\ e.epoch = s[n].epoch
    <3>1. [s[n] EXCEPT !.end = end] \in Entry
      BY <2>1 DEF Entry
    <3> QED
      BY <2>1, <3>1 DEF Entry
  <2>3. tape' = [s EXCEPT ![n] = e]
    BY <1>6, <2>2
  <2>4. tape' \in Seq(Entry) /\ Len(tape') = n
    BY <1>4, <2>1, <2>3, ExceptSeq
  <2>5. tape'[n] = e /\ \A i \in 1 .. n : i # n => tape'[i] = tape[i]
    BY <1>4, <2>1, <2>3
  <2>6. ASSUME NEW i \in 1 .. n
        PROVE  /\ tape'[i].order = tape[i].order
               /\ tape'[i].checkedAt = tape[i].checkedAt
               /\ tape'[i].epoch = tape[i].epoch
               /\ i < n => tape'[i].end = tape[i].end
    <3>1. CASE i = n
      <4>1. tape'[i] = e /\ s[n] = tape[i] /\ ~(i < n)
        BY <1>4, <2>1, <2>5, <3>1
      <4> QED
        BY <2>2, <4>1
    <3>2. CASE i # n
      BY <2>5, <3>2
    <3> QED
      BY <3>1, <3>2
  <2>7. n \in 0 .. Len(tape)
    OBVIOUS
  <2> QED
    BY <2>4, <2>6, <2>7
<1> QED
  BY <1>2, <1>3, <1>5, <1>6

LEMMA RestartStep ==
    ASSUME IInv, Restart
    PROVE  IInv'
<1>1. /\ cfg' = cfg /\ now' = now /\ listed' = listed /\ lastListed' = lastListed
      /\ vpns' = vpns /\ lastClean' = lastClean
      /\ epoch' = epoch + 1 /\ epoch < MaxRestarts /\ seen' = <<>>
      /\ owner' = Loaded(tape')
      /\ vpn' = [s \in Sessions |-> FALSE] /\ suspects' = {}
      /\ ipCache' = [a \in Addresses |-> [exp |-> 0, verdict |-> "none"]]
      /\ cache' = [t \in Members |-> [exp |-> 0, allowed |-> FALSE]]
      /\ call' = [c \in Calls |-> IF call[c].pc \in Waiting
                                  THEN End(call[c], "lost") ELSE call[c]]
  BY DEF Restart
<1>2. tape' \in Seq(Entry)
  BY CutTape
<1>3. PICK n \in 0 .. Len(tape) :
          /\ Len(tape') = n
          /\ \A i \in 1 .. n : /\ tape'[i].order = tape[i].order
                               /\ tape'[i].checkedAt = tape[i].checkedAt
                               /\ tape'[i].epoch = tape[i].epoch
                               /\ i < n => tape'[i].end = tape[i].end
  BY CutTape
<1>4. /\ n \in Nat /\ n <= Len(tape) /\ Len(tape) \in Nat
      /\ \A i : i \in DOMAIN tape' <=> i \in Nat /\ 1 <= i /\ i <= n
      /\ \A i \in DOMAIN tape' : i \in DOMAIN tape /\ i \in 1 .. n
  <2>1. n \in Nat /\ n <= Len(tape) /\ Len(tape) \in Nat
    BY Facts
  <2>2. \A i : i \in DOMAIN tape' <=> i \in Nat /\ 1 <= i /\ i <= n
    BY <1>2, <1>3, LenProperties
  <2>3. ASSUME NEW i \in DOMAIN tape'
        PROVE  i \in DOMAIN tape /\ i \in 1 .. n
    <3>1. i \in Nat /\ 1 <= i /\ i <= n
      BY <2>2
    <3>2. i <= Len(tape)
      BY <2>1, <3>1
    <3> QED
      BY <2>1, <3>1, <3>2, Facts
  <2> QED
    BY <2>1, <2>2, <2>3
<1>5. \A c \in Calls : /\ call'[c] \in Call
                       /\ call'[c].pc \notin Waiting
                       /\ call'[c].flagged => call'[c].pc # "appended"
  <2> SUFFICES ASSUME NEW c \in Calls
               PROVE  /\ call'[c] \in Call
                      /\ call'[c].pc \notin Waiting
                      /\ call'[c].flagged => call'[c].pc # "appended"
    OBVIOUS
  <2>1. call[c] \in Call /\ HandlerInv(call[c])
    BY DEF IInv, TypeOK
  <2>2. CASE call[c].pc \in Waiting
    <3>1. call'[c] = End(call[c], "lost")
      BY <1>1, <2>2
    <3>2. call'[c] \in Call /\ call'[c].pc = "lost"
      BY <2>1, <3>1, EndFacts DEF Ended
    <3> QED
      BY <3>2 DEF Waiting, LookingUp
  <2>3. CASE call[c].pc \notin Waiting
    BY <1>1, <2>1, <2>3 DEF HandlerInv
  <2> QED
    BY <2>2, <2>3
<1>6. WorldType' /\ WorldInv'
  <2>1. WorldType'
    BY <1>1 DEF IInv, TypeOK, WorldType, Verdict
  <2>2. WorldInv'
    BY <1>1 DEF IInv, TypeOK, WorldInv
  <2> QED
    BY <2>1, <2>2
<1>7. TypeOK'
  <2>1. epoch' \in 0 .. MaxRestarts
    BY <1>1, Facts
  <2>2. seen' \in Seq(Ids) /\ IsInjective(seen') /\ Len(seen') <= SeenMax
    BY <1>1, Facts, EmptySeq DEF IsInjective
  <2>3. owner' \in [Ids -> Traders \cup {NoTrader}]
    BY <1>1, <1>2, LoadedFacts
  <2>4. call' \in [Calls -> Call]
    BY <1>1, <1>5
  <2> QED
    BY <1>2, <1>6, <2>1, <2>2, <2>3, <2>4 DEF WorldType, TypeOK
<1>8. \A i \in DOMAIN tape' : tape'[i].epoch < epoch' /\ tape'[i].checkedAt < i
  <2> SUFFICES ASSUME NEW i \in DOMAIN tape'
               PROVE  tape'[i].epoch < epoch' /\ tape'[i].checkedAt < i
    OBVIOUS
  <2>1. /\ i \in DOMAIN tape
        /\ tape'[i].epoch = tape[i].epoch /\ tape'[i].checkedAt = tape[i].checkedAt
    BY <1>3, <1>4
  <2>2. tape[i].epoch <= epoch /\ tape[i].checkedAt < i
    BY <2>1 DEF IInv, TapeInv
  <2>3. tape[i].epoch \in Nat /\ epoch \in Nat
    BY <2>1, Facts
  <2>4. epoch' = epoch + 1
    BY <1>1
  <2> QED
    BY <2>1, <2>2, <2>3, <2>4
<1>9. TapeInv' /\ SeenInv'
  <2>1. \A i \in DOMAIN tape' : tape'[i].epoch <= epoch' /\ tape'[i].epoch # epoch'
    <3> SUFFICES ASSUME NEW i \in DOMAIN tape'
                 PROVE  tape'[i].epoch <= epoch' /\ tape'[i].epoch # epoch'
      OBVIOUS
    <3>1. tape'[i].epoch = tape[i].epoch /\ tape[i].epoch \in Nat /\ epoch \in Nat
      BY <1>3, <1>4, Facts
    <3>2. tape'[i].epoch < epoch' /\ epoch' = epoch + 1
      BY <1>1, <1>8
    <3> QED
      BY <3>1, <3>2
  <2> QED
    BY <1>8, <2>1 DEF TapeInv, SeenInv
<1>10. OwnerInv'
  <2> SUFFICES ASSUME NEW id \in Ids, owner'[id] # NoTrader
               PROVE  Written(id, owner[id])'
    BY DEF OwnerInv
  <2>1. PICK j \in DOMAIN tape' : /\ IdOf[tape'[j].order] = id
                                  /\ TraderOf[tape'[j].order] = owner'[id]
                                  /\ Readable(tape', j)
    BY <1>1, <1>2, LoadedFacts
  <2> QED
    BY <2>1 DEF Written
\* The target of an entry that is left comes before it, and is left as it was.
<1>11. CancelsFollowTargets'
  <2> SUFFICES ASSUME NEW i \in DOMAIN tape', TargetOf[tape'[i].order] # NoId
               PROVE  \E j \in 1 .. i - 1 :
                         /\ IdOf[tape'[j].order] = TargetOf[tape'[i].order]
                         /\ TraderOf[tape'[j].order] = TraderOf[tape'[i].order]
                         /\ \/ Readable(tape', j)
                            \/ JoinedIn(tape', j, tape'[i].epoch)
    BY DEF CancelsFollowTargets
  <2>1. /\ i \in DOMAIN tape /\ i \in 1 .. n
        /\ tape'[i].order = tape[i].order /\ tape'[i].epoch = tape[i].epoch
    BY <1>3, <1>4
  <2>2. PICK j \in 1 .. i - 1 :
            /\ IdOf[tape[j].order] = TargetOf[tape[i].order]
            /\ TraderOf[tape[j].order] = TraderOf[tape[i].order]
            /\ Readable(tape, j) \/ JoinedIn(tape, j, tape[i].epoch)
    BY <2>1 DEF IInv, CancelsFollowTargets
  <2>3. j \in Nat /\ 1 <= j /\ j < i /\ i \in Nat /\ i <= n /\ j < n /\ j < Len(tape)
    BY <1>4, <2>1
  <2>4. j \in 1 .. n /\ j + 1 \in 1 .. n /\ (j > 1 => j - 1 \in 1 .. n /\ j - 1 < n)
    BY <2>3, <1>4
  <2>5. /\ tape'[j].order = tape[j].order /\ tape'[j].epoch = tape[j].epoch
        /\ tape'[j].end = tape[j].end /\ tape'[j + 1].epoch = tape[j + 1].epoch
        /\ j > 1 => tape'[j - 1].end = tape[j - 1].end
    BY <1>3, <2>3, <2>4
  <2>6. j # Len(tape) /\ j # Len(tape') /\ j < Len(tape')
    BY <1>3, <1>4, <2>3
  <2>7. Readable(tape, j) => Readable(tape', j)
    BY <2>3, <2>5, <2>6 DEF Readable
  <2>8. JoinedIn(tape, j, tape[i].epoch) => JoinedIn(tape', j, tape'[i].epoch)
    BY <2>1, <2>5, <2>6 DEF JoinedIn
  <2> QED
    BY <2>1, <2>2, <2>5, <2>7, <2>8
<1>12. DuplicatesAreRaces'
  <2> SUFFICES ASSUME NEW i \in DOMAIN tape', NEW j \in DOMAIN tape',
                      i < j, IdOf[tape'[i].order] = IdOf[tape'[j].order],
                      tape'[i].epoch = tape'[j].epoch, ~(tape'[j].checkedAt < i)
               PROVE  Cardinality({IdOf[tape'[m].order] : m \in i + 1 .. tape'[j].checkedAt})
                         >= SeenMax
    BY DEF DuplicatesAreRaces
  <2>1. /\ i \in DOMAIN tape /\ j \in DOMAIN tape /\ j \in 1 .. n
        /\ tape'[i].order = tape[i].order /\ tape'[i].epoch = tape[i].epoch
        /\ tape'[j].order = tape[j].order /\ tape'[j].epoch = tape[j].epoch
        /\ tape'[j].checkedAt = tape[j].checkedAt
    BY <1>3, <1>4
  <2>2. tape[j].checkedAt < j /\ tape[j].checkedAt \in Nat
    BY <2>1, Facts DEF IInv, TapeInv
  <2>3. Cardinality({IdOf[tape[m].order] : m \in i + 1 .. tape[j].checkedAt}) >= SeenMax
    BY <2>1 DEF IInv, DuplicatesAreRaces
  <2>4. \A m \in i + 1 .. tape[j].checkedAt : tape'[m].order = tape[m].order
    <3>1. i \in Nat /\ 1 <= i /\ j \in Nat /\ j <= n
      BY <1>4, <2>1
    <3>2. \A m \in i + 1 .. tape[j].checkedAt : m \in 1 .. n
      BY SMTT(20), <1>4, <2>2, <3>1
    <3> QED
      BY <1>3, <3>2
  <2>5. {IdOf[tape'[m].order] : m \in i + 1 .. tape'[j].checkedAt}
           = {IdOf[tape[m].order] : m \in i + 1 .. tape[j].checkedAt}
    BY <2>1, <2>4
  <2> QED
    BY <2>3, <2>5
<1>13. \A c \in Calls : HandlerInv(call[c])'
  BY <1>5 DEF HandlerInv
<1> QED
  BY <1>6, <1>7, <1>9, <1>10, <1>11, <1>12, <1>13 DEF IInv


\* Time passes and the world changes: what the answers kept said was true of a time
\* that only recedes when it is not now.
LEMMA WorldMovesStep ==
    ASSUME IInv, UNCHANGED <<cfg, ledger, known, cache, call, epoch>>,
           now' \in 0 .. MaxTime, now <= now',
           listed' \subseteq Members, vpns' \subseteq Addresses,
           lastListed' \in [Members -> -1 .. MaxTime],
           lastClean' \in [Addresses -> -1 .. MaxTime],
           \A t \in Members : /\ lastListed[t] <= lastListed'[t]
                              /\ lastListed'[t] <= now'
                              /\ t \in listed' => lastListed'[t] = now',
           \A a \in Addresses : /\ lastClean[a] <= lastClean'[a]
                                /\ lastClean'[a] <= now'
                                /\ a \notin vpns' => lastClean'[a] = now'
    PROVE  IInv'
<1>1. /\ UNCHANGED <<ledger, epoch, cfg>>
      /\ cfg' = cfg /\ vpn' = vpn /\ ipCache' = ipCache /\ suspects' = suspects
      /\ cache' = cache /\ call' = call
  BY DEF known
<1>2. WorldType'
  BY <1>1 DEF IInv, TypeOK, WorldType
<1>3. ASSUME NEW t \in Members, cache[t].allowed
      PROVE  lastListed'[t] >= cache[t].exp - TTL
  <2>1. /\ lastListed[t] >= cache[t].exp - TTL /\ lastListed[t] \in Int
        /\ cache[t].exp \in Nat /\ lastListed'[t] \in Int
    BY <1>3, Facts DEF IInv, TypeOK, WorldInv
  <2> QED
    BY <2>1, Numbers
<1>4. ASSUME NEW a \in Addresses, ipCache[a].verdict = "clean"
      PROVE  lastClean'[a] >= ipCache[a].exp - IntelTTL
  <2>1. /\ lastClean[a] >= ipCache[a].exp - IntelTTL /\ lastClean[a] \in Int
        /\ ipCache[a].exp \in Nat /\ lastClean'[a] \in Int
    BY <1>4, Facts DEF IInv, TypeOK, WorldInv
  <2> QED
    BY <2>1, Numbers
<1>5. WorldInv'
  <2>1. \A s \in suspects' : vpn'[s]
    BY <1>1 DEF IInv, WorldInv
  <2> QED
    BY <1>1, <1>3, <1>4, <2>1 DEF WorldInv
<1>6. call' \in [Calls -> Call] /\ \A d \in Calls : call'[d] = call[d]
  BY <1>1 DEF IInv, TypeOK
<1> QED
  BY <1>1, <1>2, <1>5, <1>6, QuietStep

LEMMA TickStep ==
    ASSUME IInv, Tick
    PROVE  IInv'
<1>1. /\ now < MaxTime /\ now' = now + 1
      /\ lastListed' = [t \in Members |-> IF t \in listed THEN now + 1 ELSE lastListed[t]]
      /\ lastClean' = [a \in Addresses |-> IF a \in vpns THEN lastClean[a] ELSE now + 1]
      /\ listed' = listed /\ vpns' = vpns
      /\ UNCHANGED <<cfg, ledger, known, cache, call, epoch>>
  BY DEF Tick
<1>2. now' \in 0 .. MaxTime /\ now <= now' /\ now' \in Nat /\ now \in Nat /\ MaxTime \in Nat
  BY <1>1, Facts
<1>3. ASSUME NEW t \in Members
      PROVE  /\ lastListed'[t] \in -1 .. MaxTime
             /\ lastListed[t] <= lastListed'[t] /\ lastListed'[t] <= now'
             /\ t \in listed' => lastListed'[t] = now'
  <2>1. /\ lastListed[t] \in -1 .. MaxTime /\ lastListed[t] \in Int
        /\ lastListed[t] <= now
    BY Facts DEF IInv, TypeOK, WorldInv
  <2>2. lastListed'[t] = IF t \in listed THEN now + 1 ELSE lastListed[t]
    BY <1>1
  <2> QED
    BY <1>1, <1>2, <2>1, <2>2
<1>4. ASSUME NEW a \in Addresses
      PROVE  /\ lastClean'[a] \in -1 .. MaxTime
             /\ lastClean[a] <= lastClean'[a] /\ lastClean'[a] <= now'
             /\ a \notin vpns' => lastClean'[a] = now'
  <2>1. /\ lastClean[a] \in -1 .. MaxTime /\ lastClean[a] \in Int
        /\ lastClean[a] <= now
    BY Facts DEF IInv, TypeOK, WorldInv
  <2>2. lastClean'[a] = IF a \in vpns THEN lastClean[a] ELSE now + 1
    BY <1>1
  <2> QED
    BY <1>1, <1>2, <2>1, <2>2
<1>5. /\ lastListed' \in [Members -> -1 .. MaxTime]
      /\ lastClean' \in [Addresses -> -1 .. MaxTime]
  BY <1>1, <1>3, <1>4
<1>6. listed' \subseteq Members /\ vpns' \subseteq Addresses
  BY <1>1 DEF IInv, TypeOK
<1> QED
  BY <1>1, <1>2, <1>3, <1>4, <1>5, <1>6, WorldMovesStep

\* The world as it stands meets the terms on which it may move.
LEMMA WorldStands ==
    ASSUME IInv
    PROVE  /\ now \in 0 .. MaxTime /\ now <= now /\ now \in -1 .. MaxTime
           /\ listed \subseteq Members /\ vpns \subseteq Addresses
           /\ lastListed \in [Members -> -1 .. MaxTime]
           /\ lastClean \in [Addresses -> -1 .. MaxTime]
           /\ \A t \in Members : /\ lastListed[t] <= lastListed[t]
                                 /\ lastListed[t] <= now
                                 /\ t \in listed => lastListed[t] = now
           /\ \A a \in Addresses : /\ lastClean[a] <= lastClean[a]
                                   /\ lastClean[a] <= now
                                   /\ a \notin vpns => lastClean[a] = now
<1>1. /\ now \in 0 .. MaxTime /\ now <= now /\ now \in -1 .. MaxTime
      /\ listed \subseteq Members /\ vpns \subseteq Addresses
      /\ lastListed \in [Members -> -1 .. MaxTime]
      /\ lastClean \in [Addresses -> -1 .. MaxTime]
  BY Facts DEF IInv, TypeOK
<1>2. /\ \A t \in Members : lastListed[t] <= lastListed[t]
      /\ \A a \in Addresses : lastClean[a] <= lastClean[a]
  BY Facts
<1> QED
  BY <1>1, <1>2 DEF IInv, WorldInv

LEMMA RelistStep ==
    ASSUME IInv, NEW u \in Members, Relist(u)
    PROVE  IInv'
<1>1. /\ listed' = (IF u \in listed THEN listed \ {u} ELSE listed \cup {u})
      /\ lastListed' = [lastListed EXCEPT ![u] = now]
      /\ now' = now /\ vpns' = vpns /\ lastClean' = lastClean
      /\ UNCHANGED <<cfg, ledger, known, cache, call, epoch>>
  BY DEF Relist
<1>2. ASSUME NEW t \in Members
      PROVE  /\ lastListed[t] <= lastListed'[t] /\ lastListed'[t] <= now'
             /\ t \in listed' => lastListed'[t] = now'
  <2>1. lastListed'[t] = IF t = u THEN now ELSE lastListed[t]
    BY <1>1 DEF IInv, TypeOK
  <2>2. t # u /\ t \in listed' => t \in listed
    BY <1>1
  <2> QED
    BY <1>1, <2>1, <2>2, WorldStands
<1>3. lastListed' \in [Members -> -1 .. MaxTime] /\ listed' \subseteq Members
  BY <1>1, WorldStands
<1>4. /\ now' \in 0 .. MaxTime /\ now <= now' /\ vpns' \subseteq Addresses
      /\ lastClean' \in [Addresses -> -1 .. MaxTime]
      /\ \A a \in Addresses : /\ lastClean[a] <= lastClean'[a]
                              /\ lastClean'[a] <= now'
                              /\ a \notin vpns' => lastClean'[a] = now'
  BY <1>1, WorldStands
<1> QED
  BY <1>1, <1>2, <1>3, <1>4, WorldMovesStep

LEMMA ReassignStep ==
    ASSUME IInv, NEW b \in Addresses, Reassign(b)
    PROVE  IInv'
<1>1. /\ vpns' = (IF b \in vpns THEN vpns \ {b} ELSE vpns \cup {b})
      /\ lastClean' = [lastClean EXCEPT ![b] = now]
      /\ now' = now /\ listed' = listed /\ lastListed' = lastListed
      /\ UNCHANGED <<cfg, ledger, known, cache, call, epoch>>
  BY DEF Reassign
<1>2. ASSUME NEW a \in Addresses
      PROVE  /\ lastClean[a] <= lastClean'[a] /\ lastClean'[a] <= now'
             /\ a \notin vpns' => lastClean'[a] = now'
  <2>1. lastClean'[a] = IF a = b THEN now ELSE lastClean[a]
    BY <1>1 DEF IInv, TypeOK
  <2>2. a # b /\ a \notin vpns' => a \notin vpns
    BY <1>1
  <2> QED
    BY <1>1, <2>1, <2>2, WorldStands
<1>3. lastClean' \in [Addresses -> -1 .. MaxTime] /\ vpns' \subseteq Addresses
  BY <1>1, WorldStands
<1>4. /\ now' \in 0 .. MaxTime /\ now <= now' /\ listed' \subseteq Members
      /\ lastListed' \in [Members -> -1 .. MaxTime]
      /\ \A t \in Members : /\ lastListed[t] <= lastListed'[t]
                            /\ lastListed'[t] <= now'
                            /\ t \in listed' => lastListed'[t] = now'
  BY <1>1, WorldStands
<1> QED
  BY <1>1, <1>2, <1>3, <1>4, WorldMovesStep

----------------------------------------------------------------------------
(* The invariant. *)

LEMMA InitInv == Init => IInv
<1> SUFFICES ASSUME Init
             PROVE  IInv
  OBVIOUS
<1>1. /\ tape = <<>> /\ seen = <<>> /\ now = 0 /\ epoch = 0 /\ cfg \in Configs
      /\ owner = [id \in Ids |-> NoTrader]
      /\ vpn = [s \in Sessions |-> FALSE] /\ suspects = {}
      /\ ipCache = [a \in Addresses |-> [exp |-> 0, verdict |-> "none"]]
      /\ cache = [t \in Members |-> [exp |-> 0, allowed |-> FALSE]]
      /\ call = [c \in Calls |-> NoCall]
      /\ listed \subseteq Members /\ vpns \subseteq Addresses
      /\ lastListed = [t \in Members |-> IF t \in listed THEN 0 ELSE -1]
      /\ lastClean = [a \in Addresses |-> IF a \in vpns THEN -1 ELSE 0]
  BY DEF Init
<1>2. /\ MaxTime \in Nat /\ MaxRestarts \in Nat /\ SeenMax \in Nat /\ TTL \in Nat
      /\ 0 \in 0 .. MaxTime /\ 0 \in 0 .. MaxRestarts /\ 0 \in Nat
      /\ 0 \in -1 .. MaxTime /\ -1 \in -1 .. MaxTime
  BY AdmissionAssumption
<1>3. TypeOK
  <2>1. tape \in Seq(Entry) /\ seen \in Seq(Ids) /\ IsInjective(seen) /\ Len(seen) <= SeenMax
    BY <1>1, <1>2, EmptySeq DEF IsInjective
  <2>2. call \in [Calls -> Call]
    BY <1>1, NoCallFacts
  <2>3. /\ lastListed \in [Members -> -1 .. MaxTime]
        /\ lastClean \in [Addresses -> -1 .. MaxTime]
    BY <1>1, <1>2
  <2>4. /\ cache \in [Members -> [exp : Nat, allowed : BOOLEAN]]
        /\ ipCache \in [Addresses -> [exp : Nat, verdict : Verdict]]
        /\ vpn \in [Sessions -> BOOLEAN] /\ suspects \subseteq Sessions
        /\ owner \in [Ids -> Traders \cup {NoTrader}]
    BY <1>1, <1>2 DEF Verdict
  <2> QED
    BY <1>1, <1>2, <2>1, <2>2, <2>3, <2>4 DEF TypeOK
<1>4. \A i : i \notin DOMAIN tape
  BY <1>1
<1>5. TapeInv /\ SeenInv /\ CancelsFollowTargets /\ DuplicatesAreRaces
  BY <1>4 DEF TapeInv, SeenInv, CancelsFollowTargets, DuplicatesAreRaces
<1>6. OwnerInv
  BY <1>1 DEF OwnerInv
<1>7. WorldInv
  BY <1>1 DEF WorldInv
<1>8. \A c \in Calls : HandlerInv(call[c])
  <2>1. \A c \in Calls : call[c] = NoCall
    BY <1>1
  <2>2. NoCall.pc \notin Waiting
    BY NoCallFacts DEF Waiting, LookingUp
  <2> QED
    BY <2>1, <2>2, NoCallFacts DEF HandlerInv
<1> QED
  BY <1>3, <1>5, <1>6, <1>7, <1>8 DEF IInv

LEMMA NextInv == IInv /\ [Next]_vars => IInv'
<1> SUFFICES ASSUME IInv, [Next]_vars
             PROVE  IInv'
  OBVIOUS
<1>1. ASSUME NEW c \in Calls, NEW o \in Orders, NEW s \in Sessions, Receive(c, o, s)
      PROVE  IInv'
  BY <1>1, ReceiveStep
<1>2. ASSUME NEW c \in Calls, NEW answer \in Verdict \cup {"fail"}, IntelAnswers(c, answer)
      PROVE  IInv'
  BY <1>2, IntelAnswersStep
<1>3. ASSUME NEW c \in Calls, LookupReturns(c)
      PROVE  IInv'
  BY <1>3, LookupReturnsStep
<1>4. ASSUME NEW c \in Calls, NEW fails \in BOOLEAN, ServiceAnswers(c, fails)
      PROVE  IInv'
  BY <1>4, ServiceAnswersStep
<1>5. ASSUME NEW c \in Calls, CheckReturns(c)
      PROVE  IInv'
  BY <1>5, CheckReturnsStep
<1>6. CASE Restart
  BY <1>6, RestartStep
<1>7. CASE Tick
  BY <1>7, TickStep
<1>8. ASSUME NEW t \in Members, Relist(t)
      PROVE  IInv'
  BY <1>8, RelistStep
<1>9. ASSUME NEW a \in Addresses, Reassign(a)
      PROVE  IInv'
  BY <1>9, ReassignStep
<1>10. CASE UNCHANGED vars
  <2>1. /\ UNCHANGED <<cfg, ledger, known, cache, call, epoch>>
        /\ now' = now /\ listed' = listed /\ lastListed' = lastListed
        /\ vpns' = vpns /\ lastClean' = lastClean
    BY <1>10 DEF vars, ledger, known
  <2> QED
    BY <2>1, WorldStands, WorldMovesStep
<1> QED
  BY <1>1, <1>2, <1>3, <1>4, <1>5, <1>6, <1>7, <1>8, <1>9, <1>10 DEF Next, Advance

LEMMA Invariance == Spec => []IInv
BY InitInv, NextInv, PTL DEF Spec

\* Every state variable of a reachable state has its type.
THEOREM TypeCorrect == Spec => []TypeOK
BY Invariance, PTL DEF IInv

\* A cancel or replace on the tape comes after an order of the id it names and of its
\* trader, and a reader finds that order: no await between the check of the target
\* and the append, no restart that loses the end of the tape and no line cut short
\* parts the two, but for an order the same process had joined to an open line.
THEOREM CancelsStayValid == Spec => []CancelsFollowTargets
BY Invariance, PTL DEF IInv

\* An id is twice on the tape only across a restart, or because the second SUBMIT was
\* checked before the first was appended, or because as many other ids as the set of
\* seen ids holds had come in between: the set forgets nothing sooner.
THEOREM DuplicatesExplained == Spec => []DuplicatesAreRaces
BY Invariance, PTL DEF IInv

\* A SUBMIT is never admitted while the last answer on its session speaks against the
\* address, if only the clean answers that were true less than IntelTTL before they
\* were asked for, or later, may take that back: whichever handlers overlap, however
\* late the answers come and whatever becomes of the address in the meantime.
THEOREM FlaggedNotAdmitted == Spec => []FlaggedStaysOut
<1>1. IInv => FlaggedStaysOut
  BY DEF IInv, HandlerInv, FlaggedStaysOut
<1> QED
  BY <1>1, Invariance, PTL

----------------------------------------------------------------------------
(* What the clearlist said of an appended order. *)

\* An order on a handler that passed no clearlist check is not a gated one.
LEMMA GoOnAppends ==
    ASSUME IInv, NEW c \in Calls, NEW k \in Call, NEW flag \in BOOLEAN,
           GoOn(c, k, flag), call'[c].pc = "appended", k.order \in Orders,
           ~cfg.failOpen
    PROVE  Last(tape').order \notin Gated
<1>1. call \in [Calls -> Call]
  BY DEF IInv, TypeOK
<1>2. ~Refuse(c, k)
  <2>1. End(k, "refused").pc = "refused"
    BY EndFacts DEF Ended
  <2> QED
    BY <1>1, <2>1 DEF Refuse
<1>3. Admit(c, k) /\ k.order \notin Gated
  <2> DEFINE t == TraderOf[k.order]
             hit == cache[t].exp > now
             new == [k EXCEPT !.pc = IF hit THEN "hit" ELSE "asked",
                              !.asked = now,
                              !.answer = IF hit /\ cache[t].allowed THEN "yes"
                                         ELSE IF hit THEN "no" ELSE "fail"]
  <2>1. new.pc \in {"hit", "asked"}
    BY DEF Call
  <2>2. call' # [call EXCEPT ![c] = new]
    <3> HIDE DEF new
    <3> QED
      BY <1>1, <2>1
  <2> HIDE DEF new
  <2> QED
    BY <1>2, <2>2 DEF GoOn, new
<1>4. Last(tape').order = k.order
  <2> DEFINE entry == [order |-> k.order, checkedAt |-> k.checkedAt, epoch |-> epoch,
                       end |-> "line"]
  <2>1. tape' = Append(tape, entry)
    BY <1>3 DEF Admit
  <2>2. entry \in Entry /\ entry.order = k.order
    BY DEF Call, IInv, TypeOK, Entry, Ending
  <2> HIDE DEF entry
  <2>3. Len(tape') = Len(tape) + 1 /\ tape'[Len(tape) + 1] = entry
    BY <2>1, <2>2, Facts, AppendIs
  <2> QED
    BY <2>2, <2>3 DEF Last
<1> QED
  BY <1>3, <1>4

\* What follows the lookup is about one handler.
LEMMA GoOnIsAlone ==
    ASSUME IInv, NEW d \in Calls, NEW k, NEW flag, GoOn(d, k, flag)
    PROVE  \A e \in Calls : e # d => call'[e] = call[e]
BY DEF IInv, TypeOK, GoOn, Refuse, Admit

LEMMA ClearedStep ==
    ASSUME IInv, Next, NEW c \in Calls,
           call[c].pc # "appended", call'[c].pc = "appended",
           Last(tape').order \in Gated, ~cfg.failOpen
    PROVE  /\ call[c].pc \in {"hit", "replied"}
           /\ lastListed[TraderOf[call[c].order]] > call[c].asked - TTL
<1>1. call \in [Calls -> Call]
  BY DEF IInv, TypeOK
<1>2. ASSUME NEW d \in Calls, NEW o \in Orders, NEW s \in Sessions, Receive(d, o, s)
      PROVE  FALSE
  <2> DEFINE kept == ipCache[AddressOf[s]]
             asking == [NoCall EXCEPT !.order = o, !.sess = s, !.checkedAt = Len(tape)]
  <2>1. PICK k \in Call : k = asking
    <3>1. NoCall \in Call /\ Len(tape) \in Nat
      BY NoCallFacts, Facts
    <3> HIDE DEF NoCall
    <3> QED
      BY <3>1 DEF Call
  <2>2. k.order = o
    BY <2>1 DEF NoCall
  <2>3. \/ Refuse(d, k)
        \/ call' = [call EXCEPT ![d] =
               IF kept.exp > now
               THEN [k EXCEPT !.pc = "cached", !.asked = now, !.answer = kept.verdict]
               ELSE [k EXCEPT !.pc = "intel", !.asked = now]]
        \/ GoOn(d, k, FALSE)
    BY <1>2, <2>1, Zenon DEF Receive
  <2> HIDE DEF asking
  <2>4. CASE Refuse(d, k)
    <3>1. End(k, "refused").pc = "refused"
      BY EndFacts DEF Ended
    <3> QED
      BY <1>1, <2>4, <3>1 DEF Refuse
  <2>5. CASE call' = [call EXCEPT ![d] =
                 IF kept.exp > now
                 THEN [k EXCEPT !.pc = "cached", !.asked = now, !.answer = kept.verdict]
                 ELSE [k EXCEPT !.pc = "intel", !.asked = now]]
    <3> HIDE DEF kept
    <3> DEFINE new == IF kept.exp > now
                      THEN [k EXCEPT !.pc = "cached", !.asked = now, !.answer = kept.verdict]
                      ELSE [k EXCEPT !.pc = "intel", !.asked = now]
    <3>1. new.pc \in {"cached", "intel"}
      BY DEF Call
    <3>2. call' = [call EXCEPT ![d] = new]
      BY <2>5
    <3> HIDE DEF new
    <3> QED
      BY <1>1, <3>1, <3>2
  <2>6. CASE GoOn(d, k, FALSE)
    <3>1. c = d
      BY <2>6, GoOnIsAlone
    <3> QED
      BY <2>2, <2>6, <3>1, GoOnAppends
  <2> QED
    BY <2>3, <2>4, <2>5, <2>6
<1>3. ASSUME NEW d \in Calls, NEW answer, IntelAnswers(d, answer)
      PROVE  FALSE
  <2>1. call'[d].pc = "looked" /\ \A e \in Calls : e # d => call'[e] = call[e]
    BY <1>1, <1>3 DEF IntelAnswers, Call
  <2> QED
    BY <2>1
<1>4. ASSUME NEW d \in Calls, LookupReturns(d)
      PROVE  FALSE
  <2>1. PICK k \in Call : k = call[d]
    BY <1>1
  <2>2. k.pc \in {"looked", "cached"} /\ WaitingInv(k) /\ k.order \in Orders
    BY <1>4, <2>1 DEF LookupReturns, IInv, HandlerInv, WaitingInv, Waiting, LookingUp
  <2>3. PICK flag \in BOOLEAN : flag = vpn'[k.sess]
    BY <1>4, <2>1, FlagStep
  <2>4. PICK n \in Call : n = [k EXCEPT !.flagged = k.sess \in suspects']
    <3>1. (k.sess \in suspects') \in BOOLEAN
      OBVIOUS
    <3> QED
      BY <3>1 DEF Call
  <2>5. n.order = k.order
    BY <2>4 DEF Call
  <2>6. GoOn(d, n, flag)
    BY <1>4, <2>1, <2>3, <2>4, Zenon DEF LookupReturns
  <2>7. c = d
    BY <2>6, GoOnIsAlone
  <2> QED
    BY <2>2, <2>5, <2>6, <2>7, GoOnAppends
<1>5. ASSUME NEW d \in Calls, NEW fails \in BOOLEAN, ServiceAnswers(d, fails)
      PROVE  FALSE
  <2>1. call'[d].pc = "replied" /\ \A e \in Calls : e # d => call'[e] = call[e]
    BY <1>1, <1>5 DEF ServiceAnswers, Call
  <2> QED
    BY <2>1
<1>6. ASSUME NEW d \in Calls, CheckReturns(d)
      PROVE  /\ call[c].pc \in {"hit", "replied"}
             /\ lastListed[TraderOf[call[c].order]] > call[c].asked - TTL
  <2>1. PICK k \in Call : k = call[d]
    BY <1>1
  <2>2. /\ k.pc \in {"replied", "hit"} /\ WaitingInv(k) /\ k.order \in Gated
        /\ \/ k.answer = "yes" /\ Admit(d, k)
           \/ Refuse(d, k)
    BY <1>6, <2>1 DEF CheckReturns, IInv, HandlerInv, WaitingInv, Waiting, LookingUp
  <2>3. \A e \in Calls : e # d => call'[e] = call[e]
    BY <1>1, <2>2 DEF Refuse, Admit
  <2>4. c = d
    BY <2>3
  <2>5. ~Refuse(d, k)
    <3>1. End(k, "refused").pc = "refused"
      BY EndFacts DEF Ended
    <3> QED
      BY <1>1, <2>4, <3>1 DEF Refuse
  <2>6. k.answer = "yes"
    BY <2>2, <2>5
  <2> DEFINE t == TraderOf[k.order]
  <2>7. t \in Members
    BY <2>2 DEF Members
  <2>8. lastListed[t] >= k.asked \/ lastListed[t] > k.asked - TTL
    BY <2>2, <2>6 DEF WaitingInv
  <2>9. lastListed[t] \in Int /\ k.asked \in Nat /\ TTL \in Nat /\ TTL >= 1
    BY <2>7, Facts DEF Call
  <2> HIDE DEF t
  <2>10. lastListed[t] > k.asked - TTL
    BY <2>8, <2>9
  <2> QED
    BY <2>1, <2>2, <2>4, <2>10 DEF t
<1>7. CASE Restart
  <2>1. call'[c] = IF call[c].pc \in Waiting THEN End(call[c], "lost") ELSE call[c]
    BY <1>7 DEF Restart
  <2>2. End(call[c], "lost").pc = "lost"
    BY <1>1, EndFacts DEF Ended
  <2> QED
    BY <2>1, <2>2
<1>8. CASE Tick
  BY <1>8 DEF Tick
<1>9. ASSUME NEW t \in Members, Relist(t)
      PROVE  FALSE
  BY <1>9 DEF Relist
<1>10. ASSUME NEW a \in Addresses, Reassign(a)
       PROVE  FALSE
  BY <1>10 DEF Reassign
<1> QED
  BY <1>2, <1>3, <1>4, <1>5, <1>6, <1>7, <1>8, <1>9, <1>10 DEF Next, Advance

\* In fail mode closed, an order that needs the clearlist goes on the tape only for a
\* trader that was listed less than TTL before the handler asked, or later, however
\* old the cached answer and however late the service's.
THEOREM GatedOrdersCleared == Spec => ClearedRecently
<1> DEFINE Cleared ==
        \A c \in Calls :
           /\ call[c].pc # "appended" /\ call'[c].pc = "appended"
           /\ Last(tape').order \in Gated /\ ~cfg.failOpen
           => /\ call[c].pc \in {"hit", "replied"}
              /\ lastListed[TraderOf[call[c].order]] > call[c].asked - TTL
<1>1. IInv /\ [Next]_vars => [Cleared]_vars
  BY ClearedStep
<1>2. ClearedRecently <=> [][Cleared]_vars
  BY DEF ClearedRecently
<1> HIDE DEF Cleared
<1> QED
  BY <1>1, <1>2, Invariance, PTL DEF Spec

================================================================================
