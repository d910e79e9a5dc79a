---------------------------- MODULE TapeFeed_proofs ----------------------------
(***************************************************************************)
(* Proofs about TapeFeed: for every stride, batch, size of a read, set of  *)
(* orders with wide characters and of numbers to subscribe from, and any   *)
(* number of appends, deaths and power losses.                             *)
(***************************************************************************)
EXTENDS TapeFeed, TLAPS, FiniteSetTheorems, SequenceTheorems, WellFoundedInduction

(* The inductive invariant. *)

\* What append writes is one piece after another of an entry's text, from the first.
Shaped(f) ==
    \A i \in DOMAIN f :
        f[i] # NL =>
            /\ f[i].piece \in DOMAIN Json(f[i].entry)
            /\ f[i].entry.seq >= 1
            /\ f[i].piece > 1 =>
                  i > 1 /\ f[i - 1] = [f[i] EXCEPT !.piece = f[i].piece - 1]

\* BreaksShowAsGaps, of a file.
Ordered(f) ==
    \A p, q \in Offsets(f) :
        p < q => /\ EntryAt(f, p).seq < EntryAt(f, q).seq
                 /\ EntryAt(f, q).seq = EntryAt(f, p).seq + 1
                       => EntryAt(f, q).prev = EntryAt(f, p).hash

\* It holds of whatever a power loss may leave: a cut can end a line where the
\* text of an entry that was joined to another ends, and make it parse again.
OrderInv == \A n \in 0 .. Len(file) : Ordered(SubSeq(file, 1, n))

\* Nothing on the tape is ahead of the process, or beside what it chains to.
LastInv ==
    up => \A p \in Offsets(file) :
              EntryAt(file, p).seq < last.seq \/ EntryAt(file, p) = last

Clean(f) == f = <<>> \/ f[Len(f)] = NL

\* CompleteEntries, of a file.
Complete(f) == {EntryAt(f, p) : p \in Terminated(f)}

\* A torn line has cost nothing yet: the next entry will be lost on it.
LossInv ==
    /\ IsFiniteSet(told)
    /\ cuts = 0 => Cardinality(told \ Complete(file)) + (IF Clean(file) THEN 0 ELSE 1)
                   <= faults

\* An index built from the file as it was when it had that size.
BuiltFrom(f, i) == i.size <= Len(f) /\ i = BuildIndex(SubSeq(f, 1, i.size), Stride)

\* A running process has saved an index that is not longer than the tape.  Until the
\* first power loss every index that may be on disk was built from what is on the tape
\* yet; after it, the saved one if it is not longer than the tape, since a start
\* replaces it if it is; after the second, nothing is known of it.
IndexInv ==
    /\ up => savedIndex # NoIndex /\ savedIndex.size <= Len(file)
    /\ cuts = 0 => \A i \in oldIndexes \ {NoIndex} : BuiltFrom(file, i)
    /\ cuts < 2 /\ savedIndex # NoIndex /\ savedIndex.size <= Len(file)
          => BuiltFrom(file, savedIndex)
    /\ index # NoIndex => up /\ (cuts < 2 => index = BuildIndex(file, Stride))

\* A line without a newline is what a fault left.  A process that runs since then has
\* appended nothing: the entry on it, if it is whole, is the newest it knows of.
UnendedInv ==
    /\ faults = 0 => Clean(file)
    /\ up => \A p \in Offsets(file) \ Terminated(file) : EntryAt(file, p) = last
    /\ sub # "none" /\ ~Clean(file) => lastAtSub = last.seq

\* NoneMissing, of a file: no number is missing among the complete lines of a file.
Whole(f) ==
    \A p \in Terminated(f) : \A s \in 1 .. EntryAt(f, p).seq :
        \E q \in Terminated(f) : EntryAt(f, q).seq = s

\* The subscriber was sent the entry, or what a read made of it.
Got(e) == e \in Sent \/ (e.wide /\ Garbled(e) \in Sent)

\* The i-th piece of a text is what follows an offset of a file, but for characters that
\* ended one read and began the next: both halves are replaced.
Shows(t, f, off, i) ==
    LET here == f[off + i]
    IN  /\ \/ t[i] = here
           \/ /\ here.entry.wide /\ here.piece \in {2, 3}
              /\ t[i] = [here EXCEPT !.piece = Replaced]
        /\ here.entry.wide /\ here.piece = 2 =>
              IF i = Len(t) THEN t[i].piece = Replaced
              ELSE f[off + i + 1].piece = 3 =>
                      (t[i].piece = Replaced <=> t[i + 1].piece = Replaced)

Mirrors(t, f, off) ==
    /\ off + Len(t) <= Len(f)
    /\ \A i \in 1 .. Len(t) : Shows(t, f, off, i)

\* The lines before an offset have been handled, and no other.
Handled(off) ==
    /\ off = 0 \/ file[off] = NL
    /\ Len(text) = pos - off /\ Mirrors(text, file, off)
    /\ \A i \in DOMAIN got : \A p \in Offsets(file) :
          got[i].seq <= lastAtSub /\ p >= off => got[i].seq < EntryAt(file, p).seq
    /\ Whole(file) =>
          \A p \in Terminated(file) :
              p < off /\ EntryAt(file, p).seq >= from => Got(EntryAt(file, p))

\* As long as the index can be relied on: while a replay runs, what is appended comes by
\* the broadcast, and begins at the size the tape had.
ReplayInv ==
    cuts < 2 /\ sub \in {"run", "yield"} =>
        /\ pos <= Len(file)
        /\ size < Len(file) => file[size + 1].piece = 1
        /\ \A p \in Terminated(file) : p >= size => EntryAt(file, p) \in Sent
        /\ \E off \in 0 .. pos : Handled(off)

DoneInv ==
    cuts < 2 /\ sub = "done" /\ Whole(file) =>
        \A p \in Terminated(file) : EntryAt(file, p).seq >= from => Got(EntryAt(file, p))

SessionInv ==
    IF sub = "none" THEN ~wantsTape /\ got = <<>> /\ NoReplay
    ELSE up /\ wantsTape /\ lastAtSub <= last.seq /\ size <= Len(file)

IInv ==
    /\ TypeOK
    /\ Shaped(file) /\ OrderInv /\ LastInv /\ LossInv /\ IndexInv /\ UnendedInv
    /\ SessionInv /\ ReplayInv /\ DoneInv /\ ReplayedOnceInOrder

----------------------------------------------------------------------------
(* What is written, and the lines of the file after it. *)

\* The text of an entry is its pieces, none of which is a newline.
LEMMA JsonFacts ==
    ASSUME NEW e \in Entry
    PROVE  /\ Json(e) \in Seq(Piece)
           /\ Len(Json(e)) = IF e.wide THEN 3 ELSE 2
           /\ DOMAIN Json(e) = 1 .. Len(Json(e))
           /\ \A i \in DOMAIN Json(e) :
                 /\ Json(e)[i] = [entry |-> e, piece |-> i]
                 /\ Json(e)[i] # NL
<1> DEFINE n == IF e.wide THEN 3 ELSE 2
<1>1. n \in Nat /\ n \in 2 .. 3
  BY DEF Entry
<1>2. \A i \in 1 .. n : [entry |-> e, piece |-> i] \in Piece
  BY <1>1 DEF Piece
<1>3. Json(e) = [i \in 1 .. n |-> [entry |-> e, piece |-> i]]
  BY DEF Json
<1>4. Json(e) \in Seq(Piece) /\ Len(Json(e)) = n /\ DOMAIN Json(e) = 1 .. n
  BY <1>1, <1>2, <1>3
<1> QED
  BY <1>1, <1>3, <1>4 DEF NL

\* Genesis is an entry, and a newline a piece.
LEMMA NewlineFacts == Genesis \in Entry /\ NL \in Piece
BY FeedAssumption DEF Genesis, NL, Entry, Piece, Hashes

\* A write is the text and a newline.
LEMMA WrittenFacts ==
    ASSUME NEW e \in Entry
    PROVE  /\ Written(e) \in Seq(Piece)
           /\ Len(Written(e)) = Len(Json(e)) + 1
           /\ DOMAIN Written(e) = 1 .. Len(Json(e)) + 1
           /\ \A i \in 1 .. Len(Json(e)) : Written(e)[i] = [entry |-> e, piece |-> i]
           /\ \A i \in DOMAIN Written(e) : Written(e)[i] = NL <=> i = Len(Json(e)) + 1
<1>1. Written(e) = Append(Json(e), NL)
  BY DEF Written
<1>2. Written(e) \in Seq(Piece) /\ Len(Written(e)) = Len(Json(e)) + 1
  BY <1>1, JsonFacts, NewlineFacts
<1>3. Written(e)[Len(Json(e)) + 1] = NL
  BY <1>1, JsonFacts, NewlineFacts
<1>4. \A i \in 1 .. Len(Json(e)) : Written(e)[i] = Json(e)[i]
  BY <1>1, JsonFacts, NewlineFacts
<1> QED
  BY <1>2, <1>3, <1>4, JsonFacts

\* What a whole or torn append leaves.
Grown(f, e, k) == f \o SubSeq(Written(e), 1, k)

\* The pieces of the file after a write: the old ones, then those of the write.
LEMMA GrownFacts ==
    ASSUME NEW f \in Seq(Piece), NEW e \in Entry, NEW k \in DOMAIN Written(e)
    PROVE  /\ Grown(f, e, k) \in Seq(Piece)
           /\ Len(Grown(f, e, k)) = Len(f) + k
           /\ \A i \in 1 .. Len(f) : Grown(f, e, k)[i] = f[i]
           /\ \A i \in 1 .. k : Grown(f, e, k)[Len(f) + i] = Written(e)[i]
           /\ Grown(f, e, k)[Len(f) + 1] = [entry |-> e, piece |-> 1]
<1> DEFINE s == SubSeq(Written(e), 1, k)
<1>1. k \in 1 .. Len(Written(e)) /\ k \in Nat
  BY WrittenFacts
<1>2. s \in Seq(Piece) /\ Len(s) = k /\ \A i \in 1 .. k : s[i] = Written(e)[i]
  BY <1>1, WrittenFacts
<1>3. Grown(f, e, k) = f \o s
  BY DEF Grown
<1>4. Written(e)[1] = [entry |-> e, piece |-> 1]
  BY WrittenFacts, JsonFacts
<1> HIDE DEF s
<1>5. /\ Grown(f, e, k) \in Seq(Piece)
      /\ Len(Grown(f, e, k)) = Len(f) + k
      /\ \A i \in 1 .. Len(f) : Grown(f, e, k)[i] = f[i]
      /\ \A i \in 1 .. k : Grown(f, e, k)[Len(f) + i] = s[i]
  <2>1. Len(f) \in Nat
    BY LenProperties
  <2>2. /\ f \o s \in Seq(Piece)
        /\ Len(f \o s) = Len(f) + Len(s)
        /\ \A i \in 1 .. Len(f) + Len(s) :
              (f \o s)[i] = IF i <= Len(f) THEN f[i] ELSE s[i - Len(f)]
    BY <1>2, ConcatProperties
  <2>3. \A i \in 1 .. Len(f) : i \in 1 .. Len(f) + k /\ i <= Len(f)
    BY <1>1, <2>1
  <2>4. \A i \in 1 .. k : /\ Len(f) + i \in 1 .. Len(f) + k
                           /\ ~(Len(f) + i <= Len(f)) /\ Len(f) + i - Len(f) = i
    BY <1>1, <2>1
  <2> QED
    BY <1>2, <1>3, <2>2, <2>3, <2>4
<1> QED
  BY <1>1, <1>2, <1>4, <1>5

Width(e) == Len(Json(e))

\* A text has two or three pieces, and a newline ends its write.
LEMMA WidthFacts ==
    ASSUME NEW e \in Entry
    PROVE  /\ Width(e) \in 2 .. 3 /\ Width(e) \in Nat /\ Width(e) >= 2
           /\ Len(Written(e)) = Width(e) + 1
           /\ DOMAIN Written(e) = 1 .. Width(e) + 1
           /\ \A i \in 1 .. Width(e) :
                 Written(e)[i] = [entry |-> e, piece |-> i] /\ Written(e)[i] # NL
           /\ Written(e)[Width(e) + 1] = NL
<1>1. Width(e) \in 2 .. 3
  BY JsonFacts DEF Width
<1>2. 1 <= Width(e) + 1 /\ Width(e) + 1 \in 1 .. Width(e) + 1
  BY <1>1
<1>3. \A i \in 1 .. Width(e) : i \in 1 .. Width(e) + 1 /\ i # Width(e) + 1
  BY <1>1
<1>4. /\ Len(Written(e)) = Width(e) + 1
      /\ DOMAIN Written(e) = 1 .. Width(e) + 1
      /\ \A i \in 1 .. Width(e) : Written(e)[i] = [entry |-> e, piece |-> i]
      /\ \A i \in DOMAIN Written(e) : Written(e)[i] = NL <=> i = Width(e) + 1
  BY WrittenFacts DEF Width
<1> QED
  BY <1>1, <1>2, <1>3, <1>4

\* A line that parses is the text of its first piece's entry.
LEMMA OffsetMeans ==
    ASSUME NEW f \in Seq(Piece), NEW p \in Offsets(f)
    PROVE  /\ p \in Nat /\ Len(f) \in Nat /\ p < Len(f)
           /\ EntryAt(f, p) \in Entry
           /\ Width(EntryAt(f, p)) \in 2 .. 3
           /\ p = 0 \/ f[p] = NL
           /\ p + Width(EntryAt(f, p)) <= Len(f)
           /\ \A i \in 1 .. Width(EntryAt(f, p)) :
                 f[p + i] = [entry |-> EntryAt(f, p), piece |-> i]
           /\ p + Width(EntryAt(f, p)) # Len(f) => f[p + Width(EntryAt(f, p)) + 1] = NL
<1> DEFINE e == EntryAt(f, p)
<1>1. p \in 0 .. Len(f) - 1 /\ IsLine(f, p, Json(e)) /\ Len(f) \in Nat
  BY LenProperties DEF Offsets
<1>2. e \in Entry
  <2>1. p + 1 \in 1 .. Len(f)
    BY <1>1
  <2>2. f[p + 1] \in Piece
    BY <2>1, LenProperties
  <2> QED
    BY <2>2 DEF EntryAt, Piece
<1> HIDE DEF e
<1>3. /\ Width(e) \in 2 .. 3 /\ DOMAIN Json(e) = 1 .. Width(e)
      /\ \A i \in 1 .. Width(e) : Json(e)[i] = [entry |-> e, piece |-> i]
  BY <1>2, JsonFacts DEF Width
<1>4. /\ p = 0 \/ f[p] = NL
      /\ p + Width(e) <= Len(f)
      /\ \A i \in 1 .. Width(e) : f[p + i] = [entry |-> e, piece |-> i]
      /\ p + Width(e) # Len(f) => f[p + Width(e) + 1] = NL
  BY <1>1, <1>3 DEF IsLine, Width
<1> QED
  BY <1>1, <1>2, <1>3, <1>4 DEF e

\* The text of an entry between newlines is a line that parses.
LEMMA OffsetIs ==
    ASSUME NEW f \in Seq(Piece), NEW p \in Nat, NEW e \in Entry,
           p = 0 \/ f[p] = NL,
           p + Width(e) <= Len(f),
           \A i \in 1 .. Width(e) : f[p + i] = [entry |-> e, piece |-> i],
           p + Width(e) # Len(f) => f[p + Width(e) + 1] = NL
    PROVE  p \in Offsets(f) /\ EntryAt(f, p) = e
<1>1. /\ Width(e) \in 2 .. 3 /\ DOMAIN Json(e) = 1 .. Width(e) /\ Len(f) \in Nat
      /\ \A i \in 1 .. Width(e) : Json(e)[i] = [entry |-> e, piece |-> i]
  BY JsonFacts, LenProperties DEF Width
<1>2. EntryAt(f, p) = e
  <2>1. f[p + 1] = [entry |-> e, piece |-> 1]
    BY <1>1
  <2> QED
    BY <2>1 DEF EntryAt
<1>3. IsLine(f, p, Json(e))
  BY <1>1 DEF IsLine, Width
<1>4. p \in 0 .. Len(f) - 1
  BY <1>1
<1> QED
  BY <1>2, <1>3, <1>4 DEF Offsets

\* Terminated lines are those with a newline behind them.
LEMMA TerminatedIs ==
    ASSUME NEW f \in Seq(Piece), NEW p
    PROVE  p \in Terminated(f) <=>
              p \in Offsets(f) /\ p + Width(EntryAt(f, p)) < Len(f)
BY DEF Terminated, Width

\* A line of the longer file was a complete one, or it is what was written: a line
\* that was not complete never parses again.
LEMMA GrownOffset ==
    ASSUME NEW f \in Seq(Piece), NEW e \in Entry, NEW k \in DOMAIN Written(e),
           NEW p \in Offsets(Grown(f, e, k))
    PROVE  \/ /\ p \in Terminated(f) /\ p \in Offsets(f) /\ p < Len(f)
              /\ EntryAt(Grown(f, e, k), p) = EntryAt(f, p)
           \/ /\ p = Len(f)
              /\ EntryAt(Grown(f, e, k), p) = e
<1> DEFINE g == Grown(f, e, k)
           d == EntryAt(g, p)
           n == Width(d)
<1>1. /\ g \in Seq(Piece) /\ Len(g) = Len(f) + k /\ Len(f) \in Nat /\ k \in Nat
      /\ k \in 1 .. Width(e) + 1 /\ Width(e) \in 2 .. 3
      /\ \A i \in 1 .. Len(f) : g[i] = f[i]
      /\ \A i \in 1 .. k : g[Len(f) + i] = Written(e)[i]
      /\ g[Len(f) + 1] = [entry |-> e, piece |-> 1]
  <2>1. k \in 1 .. Width(e) + 1 /\ Width(e) \in 2 .. 3
    BY WidthFacts
  <2>2. Len(f) \in Nat /\ k \in Nat
    BY <2>1, LenProperties
  <2> QED
    BY <2>1, <2>2, GrownFacts
<1>2. \A i \in 1 .. Width(e) : Written(e)[i] # NL
  BY WidthFacts
<1>3. /\ p \in Nat /\ p < Len(g) /\ d \in Entry /\ n \in 2 .. 3
      /\ p = 0 \/ g[p] = NL
      /\ p + n <= Len(g)
      /\ \A i \in 1 .. n : g[p + i] = [entry |-> d, piece |-> i]
      /\ p + n # Len(g) => g[p + n + 1] = NL
  BY <1>1, OffsetMeans
<1>4. d = g[p + 1].entry
  BY DEF EntryAt
<1> HIDE DEF g, d, n
<1>5. CASE p > Len(f)
  <2>1. p - Len(f) \in 1 .. k /\ p - Len(f) \in 1 .. Width(e) /\ p = Len(f) + (p - Len(f))
    BY <1>1, <1>3, <1>5
  <2>2. g[p] = Written(e)[p - Len(f)]
    BY <1>1, <2>1
  <2> QED
    BY <1>1, <1>2, <1>3, <1>5, <2>1, <2>2
<1>6. CASE p = Len(f)
  BY <1>1, <1>4, <1>6 DEF g, d
<1>7. CASE p < Len(f)
  <2>1. p + n <= Len(f)
    <3> SUFFICES ASSUME p + n > Len(f)
                 PROVE  FALSE
      BY <1>1, <1>3 DEF n
    <3>1. Len(f) + 1 - p \in 2 .. n /\ Len(f) + 1 - p \in 1 .. n
      BY <1>1, <1>3, <1>7
    <3>2. g[p + (Len(f) + 1 - p)] = [entry |-> d, piece |-> Len(f) + 1 - p]
      BY <1>3, <3>1
    <3>3. p + (Len(f) + 1 - p) = Len(f) + 1
      BY <1>1, <1>3
    <3> QED
      BY <1>1, <3>1, <3>2, <3>3
  <2>2. p + n # Len(f)
    BY <1>1, <1>3 DEF NL
  <2>3. \A i \in 1 .. n : p + i \in 1 .. Len(f) /\ f[p + i] = [entry |-> d, piece |-> i]
    BY <1>1, <1>3, <2>1
  <2>4. p = 0 \/ f[p] = NL
    BY <1>1, <1>3, <1>7
  <2>5. p + n + 1 \in 1 .. Len(f) /\ f[p + n + 1] = NL
    BY <1>1, <1>3, <2>1, <2>2
  <2>6. p \in Offsets(f) /\ EntryAt(f, p) = d
    BY <1>3, <2>1, <2>3, <2>4, <2>5, OffsetIs DEF n
  <2>7. p \in Terminated(f)
    BY <1>1, <1>3, <2>1, <2>2, <2>6, TerminatedIs DEF n
  <2> QED
    BY <1>7, <2>6, <2>7 DEF d, g
<1> QED
  BY <1>1, <1>3, <1>5, <1>6, <1>7

\* Complete lines stay as they are.
LEMMA GrownKeeps ==
    ASSUME NEW f \in Seq(Piece), NEW e \in Entry, NEW k \in DOMAIN Written(e),
           NEW p \in Terminated(f)
    PROVE  /\ p \in Terminated(Grown(f, e, k))
           /\ EntryAt(Grown(f, e, k), p) = EntryAt(f, p)
<1> DEFINE g == Grown(f, e, k)
           d == EntryAt(f, p)
           n == Width(d)
<1>1. /\ g \in Seq(Piece) /\ Len(g) = Len(f) + k /\ Len(f) \in Nat /\ k \in Nat
      /\ k >= 1
      /\ \A i \in 1 .. Len(f) : g[i] = f[i]
  <2>1. k \in 1 .. Width(e) + 1 /\ Width(e) \in Nat
    BY WidthFacts
  <2>2. Len(f) \in Nat /\ k \in Nat /\ k >= 1
    BY <2>1, LenProperties
  <2> QED
    BY <2>1, <2>2, GrownFacts
<1>2. p \in Offsets(f) /\ p + n < Len(f)
  BY TerminatedIs
<1>3. /\ p \in Nat /\ d \in Entry /\ n \in 2 .. 3
      /\ p = 0 \/ f[p] = NL
      /\ \A i \in 1 .. n : f[p + i] = [entry |-> d, piece |-> i]
      /\ p + n # Len(f) => f[p + n + 1] = NL
  BY <1>2, OffsetMeans
<1> HIDE DEF g, d, n
<1>4. /\ p = 0 \/ g[p] = NL
      /\ \A i \in 1 .. n : g[p + i] = [entry |-> d, piece |-> i]
      /\ g[p + n + 1] = NL
      /\ p + n < Len(g)
  <2>1. /\ p # 0 => p \in 1 .. Len(f)
        /\ \A i \in 1 .. n : p + i \in 1 .. Len(f)
        /\ p + n + 1 \in 1 .. Len(f) /\ p + n # Len(f)
    BY <1>1, <1>2, <1>3
  <2>2. p + n < Len(g)
    BY <1>1, <1>2, <1>3
  <2>3. p = 0 \/ g[p] = NL
    BY <1>1, <1>3, <2>1
  <2>4. ASSUME NEW i \in 1 .. n
        PROVE  g[p + i] = [entry |-> d, piece |-> i]
    BY <1>1, <1>3, <2>1
  <2>5. g[p + n + 1] = NL
    BY <1>1, <1>3, <2>1
  <2> QED
    BY <2>2, <2>3, <2>4, <2>5
<1>5. p \in Offsets(g) /\ EntryAt(g, p) = d
  <2>1. /\ g \in Seq(Piece) /\ p \in Nat /\ d \in Entry
        /\ p + n <= Len(g)
        /\ p = 0 \/ g[p] = NL
        /\ \A i \in 1 .. n : g[p + i] = [entry |-> d, piece |-> i]
        /\ p + n # Len(g) => g[p + n + 1] = NL
    BY <1>1, <1>3, <1>4
  <2> QED
    BY <2>1, OffsetIs, Zenon DEF n
<1> QED
  BY <1>1, <1>4, <1>5, TerminatedIs DEF n, g, d

\* On a clean file, a whole write is a complete line.
LEMMA GrownAdds ==
    ASSUME NEW f \in Seq(Piece), NEW e \in Entry, Clean(f)
    PROVE  /\ Len(f) \in Terminated(Grown(f, e, Len(Written(e))))
           /\ EntryAt(Grown(f, e, Len(Written(e))), Len(f)) = e
<1> DEFINE k == Len(Written(e))
           g == Grown(f, e, k)
<1>1. k \in DOMAIN Written(e) /\ k = Width(e) + 1 /\ Width(e) \in 2 .. 3
  <2>1. k = Width(e) + 1 /\ DOMAIN Written(e) = 1 .. Width(e) + 1 /\ Width(e) \in 2 .. 3
    BY WidthFacts
  <2> QED
    BY <2>1
<1>2. /\ g \in Seq(Piece) /\ Len(g) = Len(f) + k /\ Len(f) \in Nat
      /\ \A i \in 1 .. Len(f) : g[i] = f[i]
      /\ \A i \in 1 .. k : g[Len(f) + i] = Written(e)[i]
  BY <1>1, GrownFacts, LenProperties
<1>3. /\ \A i \in 1 .. Width(e) : Written(e)[i] = [entry |-> e, piece |-> i]
      /\ Written(e)[Width(e) + 1] = NL
  BY WidthFacts
<1>4. Len(f) = 0 \/ f[Len(f)] = NL
  BY EmptySeq DEF Clean
<1> HIDE DEF k, g
<1>5. /\ Len(f) = 0 \/ g[Len(f)] = NL
      /\ \A i \in 1 .. Width(e) : g[Len(f) + i] = [entry |-> e, piece |-> i]
      /\ g[Len(f) + Width(e) + 1] = NL
      /\ Len(f) + Width(e) < Len(g)
  <2>1. /\ Len(f) # 0 => Len(f) \in 1 .. Len(f)
        /\ \A i \in 1 .. Width(e) : i \in 1 .. k
        /\ Width(e) + 1 \in 1 .. k
        /\ Len(f) + Width(e) < Len(g)
        /\ Len(f) + Width(e) + 1 = Len(f) + (Width(e) + 1)
    BY <1>1, <1>2
  <2>2. Len(f) = 0 \/ g[Len(f)] = NL
    BY <1>2, <1>4, <2>1
  <2>3. ASSUME NEW i \in 1 .. Width(e)
        PROVE  g[Len(f) + i] = [entry |-> e, piece |-> i]
    BY <1>2, <1>3, <2>1
  <2>4. g[Len(f) + Width(e) + 1] = NL
    BY <1>2, <1>3, <2>1
  <2> QED
    BY <2>1, <2>2, <2>3, <2>4
<1>6. Len(f) \in Offsets(g) /\ EntryAt(g, Len(f)) = e
  <2>1. /\ Len(f) + Width(e) <= Len(g)
        /\ Len(f) + Width(e) # Len(g) => g[Len(f) + Width(e) + 1] = NL
    BY <1>1, <1>2, <1>5
  <2> QED
    BY <1>2, <1>5, <2>1, OffsetIs, Zenon
<1> QED
  BY <1>2, <1>5, <1>6, TerminatedIs DEF g, k

\* The first n pieces of a file.
LEMMA PrefixFacts ==
    ASSUME NEW f \in Seq(Piece), NEW n \in 0 .. Len(f)
    PROVE  /\ SubSeq(f, 1, n) \in Seq(Piece)
           /\ Len(SubSeq(f, 1, n)) = n
           /\ \A i \in 1 .. n : SubSeq(f, 1, n)[i] = f[i]
<1>1. Len(f) \in Nat /\ n \in Nat /\ n \in Int /\ 1 \in Int
  BY LenProperties
<1>2. \A i \in 1 .. n : f[i] \in Piece
  BY <1>1, ElementOfSeq
<1>3. /\ SubSeq(f, 1, n) \in Seq(Piece)
      /\ Len(SubSeq(f, 1, n)) = IF 1 <= n THEN n - 1 + 1 ELSE 0
      /\ \A i \in 1 .. n - 1 + 1 : SubSeq(f, 1, n)[i] = f[1 + i - 1]
  BY <1>1, <1>2, SubSeqProperties
<1>4. n - 1 + 1 = n /\ (1 <= n \/ n = 0) /\ \A i \in 1 .. n : 1 + i - 1 = i
  BY <1>1
<1> QED
  BY <1>3, <1>4

\* A prefix of a prefix is a prefix, and the longest is the file.
LEMMA PrefixOfPrefix ==
    ASSUME NEW f \in Seq(Piece), NEW n \in 0 .. Len(f), NEW m \in 0 .. n
    PROVE  SubSeq(SubSeq(f, 1, n), 1, m) = SubSeq(f, 1, m)
<1> DEFINE g == SubSeq(f, 1, n)
<1>1. /\ Len(f) \in Nat /\ n \in Nat /\ m \in 0 .. Len(f)
      /\ g \in Seq(Piece) /\ Len(g) = n /\ m \in 0 .. Len(g)
      /\ \A i \in 1 .. n : g[i] = f[i]
  <2>1. Len(f) \in Nat /\ n \in Nat /\ m \in 0 .. Len(f)
    BY LenProperties
  <2> QED
    BY <2>1, PrefixFacts
<1> HIDE DEF g
<1>2. /\ SubSeq(g, 1, m) \in Seq(Piece) /\ Len(SubSeq(g, 1, m)) = m
      /\ \A i \in 1 .. m : SubSeq(g, 1, m)[i] = g[i]
  BY <1>1, PrefixFacts
<1>3. /\ SubSeq(f, 1, m) \in Seq(Piece) /\ Len(SubSeq(f, 1, m)) = m
      /\ \A i \in 1 .. m : SubSeq(f, 1, m)[i] = f[i]
  BY <1>1, PrefixFacts
<1>4. \A i \in 1 .. m : i \in 1 .. n
  BY <1>1
<1>5. SubSeq(g, 1, m) = SubSeq(f, 1, m)
  BY <1>1, <1>2, <1>3, <1>4, SeqEqual
<1> QED
  BY <1>5 DEF g

\* A whole file is a prefix of itself.
LEMMA WholePrefix ==
    ASSUME NEW f \in Seq(Piece)
    PROVE  SubSeq(f, 1, Len(f)) = f /\ Len(f) \in 0 .. Len(f)
<1>1. Len(f) \in Nat /\ Len(f) \in 0 .. Len(f)
  BY LenProperties
<1> QED
  BY <1>1, PrefixFacts, SeqEqual

\* What a power loss leaves of a grown file: a part of the old one, or the old one
\* and a part of the write.
LEMMA PrefixOfGrown ==
    ASSUME NEW f \in Seq(Piece), NEW e \in Entry, NEW k \in DOMAIN Written(e),
           NEW n \in 0 .. Len(Grown(f, e, k))
    PROVE  \/ n \in 0 .. Len(f) /\ SubSeq(Grown(f, e, k), 1, n) = SubSeq(f, 1, n)
           \/ \E j \in DOMAIN Written(e) : SubSeq(Grown(f, e, k), 1, n) = Grown(f, e, j)
<1> DEFINE g == Grown(f, e, k)
<1>1. /\ g \in Seq(Piece) /\ Len(g) = Len(f) + k
      /\ \A i \in 1 .. Len(f) : g[i] = f[i]
      /\ \A i \in 1 .. k : g[Len(f) + i] = Written(e)[i]
  BY GrownFacts
<1>2. Len(f) \in Nat /\ k \in 1 .. Width(e) + 1 /\ Width(e) \in Nat
      /\ DOMAIN Written(e) = 1 .. Width(e) + 1
  BY WidthFacts, LenProperties
<1>3. n \in 0 .. Len(g)
  OBVIOUS
<1> HIDE DEF g
<1>4. /\ SubSeq(g, 1, n) \in Seq(Piece) /\ Len(SubSeq(g, 1, n)) = n
      /\ \A i \in 1 .. n : SubSeq(g, 1, n)[i] = g[i]
  BY <1>1, <1>3, PrefixFacts
<1>5. CASE n <= Len(f)
  <2>1. n \in 0 .. Len(f) /\ \A i \in 1 .. n : i \in 1 .. Len(f)
    BY <1>1, <1>2, <1>3, <1>5
  <2>2. /\ SubSeq(f, 1, n) \in Seq(Piece) /\ Len(SubSeq(f, 1, n)) = n
        /\ \A i \in 1 .. n : SubSeq(f, 1, n)[i] = f[i]
    BY <2>1, PrefixFacts
  <2>3. SubSeq(g, 1, n) = SubSeq(f, 1, n)
    BY <1>1, <1>4, <2>1, <2>2, SeqEqual
  <2> QED
    BY <2>1, <2>3 DEF g
<1>6. CASE n > Len(f)
  <2> DEFINE j == n - Len(f)
  <2>1. j \in 1 .. k /\ j \in DOMAIN Written(e) /\ n = Len(f) + j /\ n \in Nat
    BY <1>1, <1>2, <1>3, <1>6
  <2>2. /\ Grown(f, e, j) \in Seq(Piece) /\ Len(Grown(f, e, j)) = n
        /\ \A i \in 1 .. Len(f) : Grown(f, e, j)[i] = f[i]
        /\ \A i \in 1 .. j : Grown(f, e, j)[Len(f) + i] = Written(e)[i]
    BY <2>1, GrownFacts
  <2> HIDE DEF j
  <2>3. \A i \in 1 .. n : g[i] = Grown(f, e, j)[i]
    <3> SUFFICES ASSUME NEW i \in 1 .. n
                 PROVE  g[i] = Grown(f, e, j)[i]
      OBVIOUS
    <3>1. CASE i <= Len(f)
      BY <1>1, <1>2, <2>1, <2>2, <3>1
    <3>2. CASE i > Len(f)
      <4>1. i - Len(f) \in 1 .. j /\ i - Len(f) \in 1 .. k /\ i = Len(f) + (i - Len(f))
        BY <1>2, <2>1, <3>2
      <4> QED
        BY <1>1, <2>2, <4>1
    <3> QED
      BY <1>2, <2>1, <3>1, <3>2
  <2>4. SubSeq(g, 1, n) = Grown(f, e, j)
    BY <1>4, <2>2, <2>3, SeqEqual
  <2> QED
    BY <2>1, <2>4 DEF g
<1> QED
  BY <1>2, <1>3, <1>5, <1>6

----------------------------------------------------------------------------
(* The order of the tape. *)

\* Nothing on a file is ahead of an entry, or beside it.
Behind(f, e) ==
    \A p \in Offsets(f) : EntryAt(f, p).seq < e.seq \/ EntryAt(f, p) = e

Follows(e, d) == e.seq = d.seq + 1 /\ e.prev = d.hash

\* Writing the follower of the newest entry, wholly or in part, keeps the order.
LEMMA GrownOrdered ==
    ASSUME NEW f \in Seq(Piece), NEW d \in Entry, NEW e \in Entry,
           NEW k \in DOMAIN Written(e),
           Ordered(f), Behind(f, d), Follows(e, d)
    PROVE  Ordered(Grown(f, e, k)) /\ Behind(Grown(f, e, k), e)
<1> DEFINE g == Grown(f, e, k)
<1>1. g \in Seq(Piece) /\ Len(f) \in Nat
  BY GrownFacts, LenProperties
<1>2. d.seq \in Nat /\ e.seq = d.seq + 1 /\ e.prev = d.hash
  BY DEF Entry, Follows
<1>3. ASSUME NEW p \in Offsets(g)
      PROVE  /\ p \in Nat
             /\ \/ p \in Offsets(f) /\ p < Len(f) /\ EntryAt(g, p) = EntryAt(f, p)
                \/ p = Len(f) /\ EntryAt(g, p) = e
  BY <1>1, GrownOffset, OffsetMeans
<1>4. ASSUME NEW p \in Offsets(f)
      PROVE  EntryAt(f, p).seq \in Nat /\ (EntryAt(f, p).seq < d.seq \/ EntryAt(f, p) = d)
  <2>1. EntryAt(f, p) \in Entry
    BY OffsetMeans
  <2> QED
    BY <2>1 DEF Behind, Entry
<1> HIDE DEF g
<1>5. Ordered(g)
  <2> SUFFICES ASSUME NEW p \in Offsets(g), NEW q \in Offsets(g), p < q
               PROVE  /\ EntryAt(g, p).seq < EntryAt(g, q).seq
                      /\ EntryAt(g, q).seq = EntryAt(g, p).seq + 1
                            => EntryAt(g, q).prev = EntryAt(g, p).hash
    BY DEF Ordered
  <2>1. p \in Offsets(f) /\ EntryAt(g, p) = EntryAt(f, p)
    BY <1>1, <1>3
  <2>2. CASE q \in Offsets(f) /\ EntryAt(g, q) = EntryAt(f, q)
    BY <2>1, <2>2 DEF Ordered
  <2>3. CASE EntryAt(g, q) = e
    BY <1>2, <1>4, <2>1, <2>3
  <2> QED
    BY <1>3, <2>2, <2>3
<1>6. Behind(g, e)
  <2> SUFFICES ASSUME NEW p \in Offsets(g)
               PROVE  EntryAt(g, p).seq < e.seq \/ EntryAt(g, p) = e
    BY DEF Behind
  <2> QED
    BY <1>2, <1>3, <1>4
<1> QED
  BY <1>5, <1>6 DEF g

\* Among the lines that parse, one is the last.
LEMMA LastOffset ==
    ASSUME NEW f \in Seq(Piece), Offsets(f) # {}
    PROVE  \E m \in Offsets(f) : \A p \in Offsets(f) : p <= m
<1>1. Len(f) \in Nat /\ \A p \in Offsets(f) : p \in Nat /\ p < Len(f)
  BY LenProperties, OffsetMeans
<1> DEFINE T == {x \in Nat : \E p \in Offsets(f) : x = Len(f) - p}
<1>2. T \subseteq Nat /\ T # {}
  BY <1>1
<1>3. \E x \in T : \A y \in T : ~ (<<y, x>> \in OpToRel(<, Nat))
  BY <1>2, NatLessThanWellFounded, WFMin, Zenon
<1>4. \A x, y \in T : y < x => <<y, x>> \in OpToRel(<, Nat)
  BY <1>2, Zenon DEF OpToRel
<1>5. PICK x \in T : \A y \in T : ~(y < x)
  BY <1>3, <1>4, Zenon
<1>6. PICK m \in Offsets(f) : x = Len(f) - m
  BY <1>5
<1>7. ASSUME NEW p \in Offsets(f)
      PROVE  p <= m
  <2>1. Len(f) - p \in T
    BY <1>1
  <2> QED
    BY <1>1, <1>5, <1>6, <2>1
<1> QED
  BY <1>7

\* loadFromDisk finds what nothing on an ordered tape is ahead of.
LEMMA NewestFacts ==
    ASSUME NEW f \in Seq(Piece), Ordered(f)
    PROVE  /\ NewestEntry(f) \in Entry /\ Behind(f, NewestEntry(f))
           /\ NewestEntry(f) = Genesis \/ \E q \in Offsets(f) : NewestEntry(f) = EntryAt(f, q)
<1>1. CASE Offsets(f) = {}
  BY <1>1, NewlineFacts DEF NewestEntry, Behind
<1>2. CASE Offsets(f) # {}
  <2>1. \A p \in Offsets(f) : p \in Nat /\ EntryAt(f, p) \in Entry
    BY OffsetMeans
  <2> DEFINE IsNewest(off) ==
          \A p \in Offsets(f) :
              \/ EntryAt(f, p).seq < EntryAt(f, off).seq
              \/ EntryAt(f, p).seq = EntryAt(f, off).seq /\ p <= off
  <2>2. \E off \in Offsets(f) : IsNewest(off)
    <3>1. PICK m \in Offsets(f) : \A p \in Offsets(f) : p <= m
      BY <1>2, LastOffset
    <3>2. ASSUME NEW p \in Offsets(f)
          PROVE  \/ EntryAt(f, p).seq < EntryAt(f, m).seq
                 \/ EntryAt(f, p).seq = EntryAt(f, m).seq /\ p <= m
      <4>1. CASE p = m
        BY <3>1, <4>1
      <4>2. CASE p < m
        BY <4>2 DEF Ordered
      <4> QED
        BY <2>1, <3>1, <4>1, <4>2
    <3> QED
      BY <3>2
  <2>3. Newest(f) \in Offsets(f) /\ IsNewest(Newest(f))
    BY <2>2 DEF Newest
  <2>4. NewestEntry(f) = EntryAt(f, Newest(f))
    BY <1>2 DEF NewestEntry
  <2>5. ASSUME NEW p \in Offsets(f)
        PROVE  EntryAt(f, p).seq < NewestEntry(f).seq \/ EntryAt(f, p) = NewestEntry(f)
    <3>1. CASE EntryAt(f, p).seq < EntryAt(f, Newest(f)).seq
      BY <2>4, <3>1
    <3>2. CASE EntryAt(f, p).seq = EntryAt(f, Newest(f)).seq /\ p <= Newest(f)
      <4>1. CASE p < Newest(f)
        <5>1. EntryAt(f, p).seq < EntryAt(f, Newest(f)).seq
          BY <2>3, <4>1 DEF Ordered
        <5> QED
          BY <2>4, <5>1
      <4>2. CASE p = Newest(f)
        BY <2>4, <4>2
      <4> QED
        BY <2>1, <2>3, <3>2, <4>1, <4>2
    <3> QED
      BY <2>3, <3>1, <3>2
  <2> QED
    BY <2>1, <2>3, <2>4, <2>5 DEF Behind
<1> QED
  BY <1>1, <1>2

----------------------------------------------------------------------------
(* The index. *)

\* buildIndex makes an index of the file's size.
LEMMA IndexFacts ==
    ASSUME NEW f \in Seq(Piece), NEW stride
    PROVE  /\ BuildIndex(f, stride) \in Index
           /\ BuildIndex(f, stride) # NoIndex
           /\ BuildIndex(f, stride).size = Len(f)
           /\ BuildIndex(f, stride).offsets =
                 {off \in Offsets(f) : (EntryAt(f, off).seq - 1) % stride = 0}
<1>1. Len(f) \in Nat /\ \A p \in Offsets(f) : p \in Nat
  BY LenProperties, OffsetMeans
<1> QED
  BY <1>1, FeedAssumption DEF BuildIndex, Index

\* Blocks of s numbers.
LEMMA BlockFacts ==
    ASSUME NEW s \in Nat \ {0}, NEW n \in Nat
    PROVE  /\ n \div s \in Nat
           /\ \A k \in 0 .. (n \div s) :
                 k * s \in Nat /\ k * s <= n /\ (k * s) % s = 0
           /\ \A j, k \in 0 .. (n \div s) : j * s = k * s => j = k
<1> DEFINE b == n \div s
<1>1. n = s * b + (n % s) /\ n % s \in 0 .. s - 1 /\ b \in Nat
  OBVIOUS
<1> HIDE DEF b
<1>2. b * s <= n
  BY <1>1
<1>3. ASSUME NEW k \in 0 .. b
      PROVE  k * s \in Nat /\ k * s <= n /\ (k * s) % s = 0
  <2>1. k \in Nat /\ k <= b
    BY <1>1
  <2>2. k * s <= b * s /\ k * s \in Nat
    BY <1>1, <2>1
  <2> DEFINE m == k * s
  <2>3. m = s * (m \div s) + (m % s) /\ m % s \in 0 .. s - 1 /\ m \div s \in Int
    BY <2>2
  <2>4. m % s = 0
    BY <2>1, <2>3
  <2> QED
    BY <1>1, <1>2, <2>2, <2>4
<1>4. ASSUME NEW j \in 0 .. b, NEW k \in 0 .. b, j * s = k * s
      PROVE  j = k
  <2>1. j \in Nat /\ k \in Nat
    BY <1>1
  <2> QED
    BY <1>4, <2>1
<1> QED
  BY <1>1, <1>3, <1>4 DEF b

\* A replay starts at a line's start, and no wanted entry is before it: when no number is
\* missing, the first entries of the blocks stand where findStartOffset looks.
LEMMA StartFacts ==
    ASSUME NEW f \in Seq(Piece), NEW from0 \in Nat \ {0}, Ordered(f), NEW off,
           off = FindStartOffset(BuildIndex(f, Stride), Stride, from0)
    PROVE  /\ off \in 0 .. Len(f)
           /\ off = 0 \/ f[off] = NL
           /\ Whole(f) => \A p \in Terminated(f) : p < off => EntryAt(f, p).seq < from0
<1> DEFINE block == (from0 - 1) \div Stride
           offsets == BuildIndex(f, Stride).offsets
           found == {o \in offsets : Cardinality(Before(offsets, o)) = block}
<1>1. Len(f) \in Nat /\ Stride \in Nat \ {0} /\ from0 - 1 \in Nat
  BY LenProperties, FeedAssumption
<1>2. /\ block \in Nat
      /\ \A k \in 0 .. block :
            k * Stride \in Nat /\ k * Stride <= from0 - 1 /\ (k * Stride) % Stride = 0
      /\ \A j, k \in 0 .. block : j * Stride = k * Stride => j = k
  BY <1>1, BlockFacts
<1>3. offsets = {o \in Offsets(f) : (EntryAt(f, o).seq - 1) % Stride = 0}
  BY IndexFacts
<1>4. \A o \in Offsets(f) :
          /\ o \in Nat /\ o < Len(f) /\ EntryAt(f, o).seq \in Nat
          /\ o = 0 \/ f[o] = NL
  BY OffsetMeans DEF Entry
<1>5. off = 0 \/ off \in found
  BY DEF FindStartOffset
<1> HIDE DEF block, offsets
<1>6. off \in 0 .. Len(f) /\ (off = 0 \/ f[off] = NL)
  BY <1>1, <1>3, <1>4, <1>5
<1>7. ASSUME Whole(f), NEW p \in Terminated(f), p < off, ~(EntryAt(f, p).seq < from0)
      PROVE  FALSE
  <2> DEFINE B == Before(offsets, off)
  <2>1. p \in Offsets(f) /\ p \in Nat /\ EntryAt(f, p).seq \in Nat
    BY <1>4, TerminatedIs
  <2>2. off \in found /\ off \in Nat
    BY <1>4, <1>5, <1>6, <1>7, <2>1
  <2>3. Cardinality(B) = block /\ IsFiniteSet(B)
    <3>1. B \subseteq 0 .. Len(f)
      BY <1>1, <1>3, <1>4 DEF Before
    <3>2. IsFiniteSet(0 .. Len(f))
      BY <1>1, FS_Interval
    <3>3. IsFiniteSet(B)
      BY <3>1, <3>2, FS_Subset
    <3> QED
      BY <2>2, <3>3
  <2>4. ASSUME NEW k \in 0 .. block
        PROVE  \E q \in B : EntryAt(f, q).seq = k * Stride + 1
    <3>1. k * Stride + 1 \in 1 .. EntryAt(f, p).seq /\ k * Stride \in Int
      BY <1>1, <1>2, <1>7, <2>1
    <3>2. PICK q \in Terminated(f) : EntryAt(f, q).seq = k * Stride + 1
      BY <1>7, <3>1 DEF Whole
    <3>3. q \in Offsets(f) /\ q \in Nat
      BY <1>4, TerminatedIs
    <3>4. EntryAt(f, q).seq - 1 = k * Stride
      BY <3>1, <3>2
    <3>5. q \in offsets
      BY <1>2, <1>3, <3>3, <3>4
    <3>6. q <= p
      <4>1. p < q => EntryAt(f, p).seq < EntryAt(f, q).seq
        BY <2>1, <3>3 DEF Ordered
      <4> QED
        BY <2>1, <3>1, <3>2, <3>3, <4>1
    <3>7. q < off
      BY <1>7, <2>1, <2>2, <3>3, <3>6
    <3> QED
      BY <3>2, <3>5, <3>7 DEF Before
  <2> HIDE DEF B
  <2> DEFINE g == [k \in 0 .. block |-> CHOOSE q \in B : EntryAt(f, q).seq = k * Stride + 1]
  <2>5. ASSUME NEW k \in 0 .. block
        PROVE  g[k] \in B /\ EntryAt(f, g[k]).seq = k * Stride + 1
    BY <2>4
  <2>6. g \in [0 .. block -> B]
    BY <2>5
  <2> HIDE DEF g
  <2>7. ASSUME NEW j \in 0 .. block, NEW k \in 0 .. block, g[j] = g[k]
        PROVE  j = k
    <3>1. j * Stride + 1 = k * Stride + 1
      BY <2>5, <2>7
    <3>2. j * Stride \in Nat /\ k * Stride \in Nat
      BY <1>2
    <3>3. j * Stride = k * Stride
      BY <3>1, <3>2
    <3> QED
      BY <1>2, <3>3
  <2>8. IsFiniteSet(0 .. block) /\ Cardinality(0 .. block) = block + 1
    BY <1>2, FS_Interval
  <2>9. Cardinality(B) < Cardinality(0 .. block)
    BY <1>2, <2>3, <2>8
  <2> QED
    BY <2>3, <2>6, <2>7, <2>8, <2>9, FS_PigeonHole
<1> QED
  BY <1>6, <1>7

----------------------------------------------------------------------------
(* More on what a write does to the file. *)

\* A write begins with the first piece of a text, so the pieces keep their order.
LEMMA GrownShaped ==
    ASSUME NEW f \in Seq(Piece), NEW e \in Entry, NEW k \in DOMAIN Written(e),
           Shaped(f), e.seq >= 1
    PROVE  Shaped(Grown(f, e, k))
<1> DEFINE g == Grown(f, e, k)
<1>1. /\ g \in Seq(Piece) /\ Len(g) = Len(f) + k /\ DOMAIN g = 1 .. Len(g)
      /\ Len(f) \in Nat /\ DOMAIN f = 1 .. Len(f) /\ k \in Nat
      /\ k \in 1 .. Width(e) + 1 /\ Width(e) \in 2 .. 3
      /\ \A i \in 1 .. Len(f) : g[i] = f[i]
      /\ \A i \in 1 .. k : g[Len(f) + i] = Written(e)[i]
  <2>1. k \in 1 .. Width(e) + 1 /\ Width(e) \in 2 .. 3
    BY WidthFacts
  <2>2. Len(f) \in Nat /\ DOMAIN f = 1 .. Len(f) /\ k \in Nat
    BY <2>1, LenProperties
  <2>3. g \in Seq(Piece) /\ Len(g) = Len(f) + k /\ DOMAIN g = 1 .. Len(g)
    BY GrownFacts, LenProperties
  <2> QED
    BY <2>1, <2>2, <2>3, GrownFacts
<1>2. /\ \A i \in 1 .. Width(e) : Written(e)[i] = [entry |-> e, piece |-> i]
      /\ Written(e)[Width(e) + 1] = NL
      /\ DOMAIN Json(e) = 1 .. Width(e)
  BY WidthFacts, JsonFacts DEF Width
<1> HIDE DEF g
<1> SUFFICES ASSUME NEW i \in 1 .. Len(g), g[i] # NL
             PROVE  /\ g[i].piece \in DOMAIN Json(g[i].entry)
                    /\ g[i].entry.seq >= 1
                    /\ g[i].piece > 1 =>
                          i > 1 /\ g[i - 1] = [g[i] EXCEPT !.piece = g[i].piece - 1]
  BY <1>1 DEF Shaped, g
<1>3. CASE i <= Len(f)
  <2>1. i \in 1 .. Len(f) /\ g[i] = f[i]
    BY <1>1, <1>3
  <2>2. /\ f[i].piece \in DOMAIN Json(f[i].entry)
        /\ f[i].entry.seq >= 1
        /\ f[i].piece > 1 =>
              i > 1 /\ f[i - 1] = [f[i] EXCEPT !.piece = f[i].piece - 1]
    BY <1>1, <2>1 DEF Shaped
  <2>3. i > 1 => g[i - 1] = f[i - 1]
    <3>1. i > 1 => i - 1 \in 1 .. Len(f)
      BY <1>1, <2>1
    <3> QED
      BY <1>1, <3>1
  <2> QED
    BY <2>1, <2>2, <2>3
<1>4. CASE i > Len(f)
  <2> DEFINE j == i - Len(f)
  <2>1. j \in 1 .. k /\ i = Len(f) + j
    BY <1>1, <1>4
  <2>2. g[i] = Written(e)[j] /\ j \in 1 .. Width(e)
    <3>1. g[i] = Written(e)[j]
      BY <1>1, <2>1
    <3>2. j # Width(e) + 1
      BY <1>2, <3>1
    <3>3. j \in 1 .. Width(e)
      BY <1>1, <2>1, <3>2
    <3> QED
      BY <3>1, <3>3
  <2>3. g[i] = [entry |-> e, piece |-> j]
    BY <1>2, <2>2
  <2>4. ASSUME j > 1
        PROVE  i > 1 /\ g[i - 1] = [entry |-> e, piece |-> j - 1]
    <3>1. j - 1 \in 1 .. k /\ j - 1 \in 1 .. Width(e) /\ i - 1 = Len(f) + (j - 1) /\ i > 1
      BY <1>1, <2>1, <2>2, <2>4
    <3> QED
      BY <1>1, <1>2, <3>1
  <2> HIDE DEF j
  <2> QED
    BY <1>2, <2>2, <2>3, <2>4
<1> QED
  BY <1>1, <1>3, <1>4

\* So they do when power is lost.
LEMMA PrefixShaped ==
    ASSUME NEW f \in Seq(Piece), NEW n \in 0 .. Len(f), Shaped(f)
    PROVE  Shaped(SubSeq(f, 1, n))
<1> DEFINE g == SubSeq(f, 1, n)
<1>1. /\ g \in Seq(Piece) /\ Len(g) = n /\ DOMAIN g = 1 .. n
      /\ \A i \in 1 .. n : g[i] = f[i]
      /\ n \in Nat /\ Len(f) \in Nat /\ DOMAIN f = 1 .. Len(f)
  BY PrefixFacts, LenProperties
<1>2. \A i \in 1 .. n : i \in DOMAIN f /\ (i > 1 => i - 1 \in 1 .. n)
  BY <1>1
<1> HIDE DEF g
<1>3. Shaped(g)
  BY <1>1, <1>2 DEF Shaped
<1> QED
  BY <1>3 DEF g

\* A number that is missing stays missing.
LEMMA GrownWhole ==
    ASSUME NEW f \in Seq(Piece), NEW d \in Entry, NEW e \in Entry,
           NEW k \in DOMAIN Written(e),
           Behind(f, d), Follows(e, d), Whole(Grown(f, e, k))
    PROVE  Whole(f)
<1> DEFINE g == Grown(f, e, k)
<1>1. g \in Seq(Piece)
  BY GrownFacts
<1>2. d.seq \in Nat /\ e.seq = d.seq + 1
  BY DEF Entry, Follows
<1> SUFFICES ASSUME NEW p \in Terminated(f), NEW s \in 1 .. EntryAt(f, p).seq
             PROVE  \E q \in Terminated(f) : EntryAt(f, q).seq = s
  BY DEF Whole
<1>3. p \in Offsets(f) /\ EntryAt(f, p).seq \in Nat /\ EntryAt(f, p).seq <= d.seq
  <2>1. p \in Offsets(f)
    BY TerminatedIs
  <2>2. EntryAt(f, p).seq \in Nat
    BY <2>1, OffsetMeans DEF Entry
  <2> QED
    BY <1>2, <2>1, <2>2 DEF Behind
<1>4. p \in Terminated(g) /\ EntryAt(g, p) = EntryAt(f, p)
  BY GrownKeeps
<1>5. PICK q \in Terminated(g) : EntryAt(g, q).seq = s
  BY <1>4 DEF Whole
<1>6. q \in Offsets(g)
  BY <1>1, TerminatedIs
<1>7. EntryAt(g, q) # e
  BY <1>2, <1>3, <1>5
<1>8. q \in Terminated(f) /\ EntryAt(g, q) = EntryAt(f, q)
  BY <1>6, <1>7, GrownOffset
<1> QED
  BY <1>5, <1>8

\* Lines do not overlap: another starts behind this one's newline.
LEMMA Apart ==
    ASSUME NEW f \in Seq(Piece), NEW p \in Offsets(f)
    PROVE  /\ \A i \in 1 .. Width(EntryAt(f, p)) : f[p + i] # NL
           /\ \A q \in Offsets(f) : p < q => p + Width(EntryAt(f, p)) < q
<1> DEFINE d == EntryAt(f, p)
<1>1. /\ p \in Nat /\ Width(d) \in 2 .. 3
      /\ \A i \in 1 .. Width(d) : f[p + i] = [entry |-> d, piece |-> i]
  BY OffsetMeans
<1>2. \A i \in 1 .. Width(d) : f[p + i] # NL
  <2>1. ASSUME NEW i \in 1 .. Width(d)
        PROVE  f[p + i].piece = i /\ i # 0
    <3>1. f[p + i] = [entry |-> d, piece |-> i]
      BY <1>1
    <3>2. f[p + i].piece = i
      BY <3>1
    <3>3. i # 0
      BY <1>1
    <3> QED
      BY <3>2, <3>3
  <2>2. NL.piece = 0
    BY DEF NL
  <2> QED
    BY <2>1, <2>2
<1>3. ASSUME NEW q \in Offsets(f), p < q
      PROVE  p + Width(d) < q
  <2>1. q \in Nat /\ (q = 0 \/ f[q] = NL)
    BY OffsetMeans
  <2>2. ~(q - p \in 1 .. Width(d))
    <3> SUFFICES ASSUME q - p \in 1 .. Width(d)
                 PROVE  FALSE
      OBVIOUS
    <3>1. q = p + (q - p) /\ q # 0
      BY <1>1, <1>3, <2>1
    <3> QED
      BY <1>2, <2>1, <3>1
  <2> QED
    BY <1>1, <1>3, <2>1, <2>2
<1> QED
  BY <1>2, <1>3

\* A longer file begins as the shorter one did.
LEMMA GrownPrefix ==
    ASSUME NEW f \in Seq(Piece), NEW e \in Entry, NEW k \in DOMAIN Written(e),
           NEW n \in 0 .. Len(f)
    PROVE  SubSeq(Grown(f, e, k), 1, n) = SubSeq(f, 1, n)
<1> DEFINE g == Grown(f, e, k)
<1>1. /\ g \in Seq(Piece) /\ Len(g) = Len(f) + k
      /\ \A i \in 1 .. Len(f) : g[i] = f[i]
  BY GrownFacts
<1>2. Len(f) \in Nat /\ k \in Nat
  <2>1. k \in 1 .. Width(e) + 1 /\ Width(e) \in Nat
    BY WidthFacts
  <2> QED
    BY <2>1, LenProperties
<1> HIDE DEF g
<1>3. n \in 0 .. Len(g) /\ \A i \in 1 .. n : i \in 1 .. Len(f)
  BY <1>1, <1>2
<1>4. /\ SubSeq(g, 1, n) \in Seq(Piece) /\ Len(SubSeq(g, 1, n)) = n
      /\ \A i \in 1 .. n : SubSeq(g, 1, n)[i] = g[i]
  BY <1>1, <1>3, PrefixFacts
<1>5. /\ SubSeq(f, 1, n) \in Seq(Piece) /\ Len(SubSeq(f, 1, n)) = n
      /\ \A i \in 1 .. n : SubSeq(f, 1, n)[i] = f[i]
  BY PrefixFacts
<1>6. SubSeq(g, 1, n) = SubSeq(f, 1, n)
  BY <1>1, <1>3, <1>4, <1>5, SeqEqual
<1> QED
  BY <1>6 DEF g

\* A whole write on a clean file loses nothing, and any write at most what it writes.
LEMMA LossFacts ==
    ASSUME NEW f \in Seq(Piece), NEW e \in Entry, NEW k \in DOMAIN Written(e),
           NEW T, IsFiniteSet(T)
    PROVE  /\ Cardinality(T \ Complete(f)) \in Nat
           /\ Cardinality(T \ Complete(Grown(f, e, k))) \in Nat
           /\ Cardinality((T \cup {e}) \ Complete(Grown(f, e, k))) \in Nat
           /\ Cardinality(T \ Complete(Grown(f, e, k))) <= Cardinality(T \ Complete(f))
           /\ Cardinality((T \cup {e}) \ Complete(Grown(f, e, k)))
                 <= Cardinality(T \ Complete(f)) + 1
           /\ Clean(f) /\ k = Len(Written(e)) =>
                 Cardinality((T \cup {e}) \ Complete(Grown(f, e, k)))
                    <= Cardinality(T \ Complete(f))
           /\ k = Len(Written(e)) => Clean(Grown(f, e, k))
<1> DEFINE g == Grown(f, e, k)
           L == T \ Complete(f)
<1>1. Complete(f) \subseteq Complete(g)
  BY GrownKeeps DEF Complete
<1>2. IsFiniteSet(L) /\ IsFiniteSet(L \cup {e}) /\ Cardinality(L \cup {e}) <= Cardinality(L) + 1
      /\ Cardinality(L) \in Nat /\ Cardinality(L \cup {e}) \in Nat
  <2>1. IsFiniteSet(L)
    BY FS_Subset
  <2> HIDE DEF L
  <2>2. IsFiniteSet(L \cup {e})
        /\ Cardinality(L \cup {e}) = IF e \in L THEN Cardinality(L) ELSE Cardinality(L) + 1
    BY <2>1, FS_AddElement
  <2>3. Cardinality(L) \in Nat /\ Cardinality(L \cup {e}) \in Nat
    BY <2>1, <2>2, FS_CardinalityType
  <2> QED
    BY <2>1, <2>2, <2>3
<1>3. /\ T \ Complete(g) \in SUBSET L
      /\ (T \cup {e}) \ Complete(g) \in SUBSET (L \cup {e})
  BY <1>1
<1>4. /\ Cardinality(T \ Complete(g)) \in Nat
      /\ Cardinality(T \ Complete(g)) <= Cardinality(L)
  <2>1. IsFiniteSet(T \ Complete(g)) /\ Cardinality(T \ Complete(g)) <= Cardinality(L)
    BY <1>2, <1>3, FS_Subset
  <2> QED
    BY <2>1, FS_CardinalityType
<1>5. /\ Cardinality((T \cup {e}) \ Complete(g)) \in Nat
      /\ Cardinality((T \cup {e}) \ Complete(g)) <= Cardinality(L) + 1
  <2>1. /\ IsFiniteSet((T \cup {e}) \ Complete(g))
        /\ Cardinality((T \cup {e}) \ Complete(g)) <= Cardinality(L \cup {e})
    BY <1>2, <1>3, FS_Subset
  <2>2. Cardinality((T \cup {e}) \ Complete(g)) \in Nat
    BY <2>1, FS_CardinalityType
  <2> QED
    BY <1>2, <2>1, <2>2
<1>6. ASSUME Clean(f), k = Len(Written(e))
      PROVE  Cardinality((T \cup {e}) \ Complete(g)) <= Cardinality(L)
  <2>1. e \in Complete(g)
    BY <1>6, GrownAdds DEF Complete
  <2>2. (T \cup {e}) \ Complete(g) = T \ Complete(g)
    BY <2>1
  <2> QED
    BY <1>4, <2>2
<1>7. ASSUME k = Len(Written(e))
      PROVE  Clean(g)
  <2>1. k = Width(e) + 1 /\ Width(e) \in Nat /\ Written(e)[k] = NL
    BY <1>7, WidthFacts
  <2>2. Len(g) = Len(f) + k /\ g[Len(f) + k] = Written(e)[k]
    <3>1. k \in 1 .. k
      BY <2>1
    <3> QED
      BY <3>1, GrownFacts
  <2> QED
    BY <2>1, <2>2 DEF Clean
<1> QED
  BY <1>2, <1>4, <1>5, <1>6, <1>7

----------------------------------------------------------------------------
(* The steps. *)

\* A file with nothing in it has no lines.
LEMMA NoFile ==
    Offsets(<<>>) = {} /\ Terminated(<<>>) = {} /\ SubSeq(<<>>, 1, 0) = <<>>
    /\ <<>> \in Seq(Piece) /\ Len(<<>>) = 0 /\ Clean(<<>>)
<1>1. <<>> \in Seq(Piece) /\ Len(<<>>) = 0
  BY EmptySeq
<1>2. Offsets(<<>>) = {}
  BY <1>1 DEF Offsets
<1>3. Terminated(<<>>) = {}
  BY <1>2 DEF Terminated
<1>4. SubSeq(<<>>, 1, 0) = <<>>
  BY <1>1, WholePrefix
<1> QED
  BY <1>1, <1>2, <1>3, <1>4 DEF Clean

\* A line without a newline is the last of the file.
LEMMA UnendedIs ==
    ASSUME NEW f \in Seq(Piece), NEW p \in Offsets(f) \ Terminated(f)
    PROVE  ~Clean(f) /\ \A q \in Offsets(f) : q <= p
<1> DEFINE w == Width(EntryAt(f, p))
<1>1. /\ p \in Nat /\ Len(f) \in Nat /\ p < Len(f) /\ w \in 2 .. 3 /\ p + w <= Len(f)
      /\ \A i \in 1 .. w : f[p + i] = [entry |-> EntryAt(f, p), piece |-> i]
  BY OffsetMeans
<1>2. p + w = Len(f)
  <2>1. ~(p + w < Len(f))
    BY TerminatedIs
  <2> HIDE DEF w
  <2> QED
    BY <1>1, <2>1
<1> HIDE DEF w
<1>3. \A i \in 1 .. w : f[p + i] # NL
  <2> SUFFICES ASSUME NEW i \in 1 .. w
               PROVE  f[p + i] # NL
    OBVIOUS
  <2>1. i # 0
    BY <1>1
  <2>2. f[p + i] = [entry |-> EntryAt(f, p), piece |-> i]
    BY <1>1
  <2>3. f[p + i].piece = i
    BY <2>2
  <2> QED
    BY <2>1, <2>3 DEF NL
<1>4. ~Clean(f)
  <2>1. w \in 1 .. w
    BY <1>1
  <2>2. f[Len(f)] # NL
    BY <1>2, <1>3, <2>1
  <2> QED
    BY <1>1, <2>2, NoFile DEF Clean
<1>5. ASSUME NEW q \in Offsets(f), ~(q <= p)
      PROVE  FALSE
  <2>1. q \in Nat /\ q < Len(f) /\ (q = 0 \/ f[q] = NL)
    BY OffsetMeans
  <2>2. PICK i \in 1 .. w : q = p + i
    <3>1. q - p \in 1 .. w /\ q = p + (q - p)
      BY <1>1, <1>2, <1>5, <2>1
    <3> QED
      BY <3>1
  <2>3. q # 0
    BY <1>1, <1>5, <2>1
  <2> QED
    BY <1>3, <2>1, <2>2, <2>3
<1> QED
  BY <1>4, <1>5

\* A file that ends in a newline has none.
LEMMA NoneUnended ==
    ASSUME NEW f \in Seq(Piece), Clean(f)
    PROVE  Offsets(f) \ Terminated(f) = {}
BY UnendedIs

\* On an ordered tape it is what loadFromDisk finds.
LEMMA UnendedNewest ==
    ASSUME NEW f \in Seq(Piece), Ordered(f), NEW p \in Offsets(f) \ Terminated(f)
    PROVE  /\ EntryAt(f, p) = NewestEntry(f)
           /\ \A q \in Terminated(f) : EntryAt(f, q).seq < EntryAt(f, p).seq
<1>1. /\ NewestEntry(f) \in Entry /\ Behind(f, NewestEntry(f))
      /\ NewestEntry(f) = Genesis \/ \E q \in Offsets(f) : NewestEntry(f) = EntryAt(f, q)
  BY NewestFacts
<1>2. \A q \in Offsets(f) : q <= p /\ q \in Nat /\ EntryAt(f, q) \in Entry
  BY UnendedIs, OffsetMeans
<1>3. \A q \in Offsets(f) : q # p => EntryAt(f, q).seq < EntryAt(f, p).seq
  BY <1>2 DEF Ordered
<1>4. \A q \in Offsets(f) : EntryAt(f, q).seq \in Nat
  BY <1>2 DEF Entry
<1>5. EntryAt(f, p) = NewestEntry(f)
  <2>1. EntryAt(f, p).seq < NewestEntry(f).seq \/ EntryAt(f, p) = NewestEntry(f)
    BY <1>1 DEF Behind
  <2>2. CASE NewestEntry(f) = Genesis
    <3>1. NewestEntry(f).seq = 0
      BY <2>2 DEF Genesis
    <3> QED
      BY <1>4, <2>1, <3>1
  <2>3. CASE \E q \in Offsets(f) : NewestEntry(f) = EntryAt(f, q)
    BY <1>3, <1>4, <2>1, <2>3
  <2> QED
    BY <1>1, <2>2, <2>3
<1>6. \A q \in Terminated(f) : q \in Offsets(f) /\ q # p
  BY TerminatedIs
<1> QED
  BY <1>3, <1>5, <1>6

\* The counters are numbers within their bounds.
LEMMA Counters ==
    ASSUME TypeOK
    PROVE  /\ MaxAppends \in Nat /\ appends \in Nat /\ appends <= MaxAppends
           /\ MaxFaults \in Nat /\ faults \in Nat /\ faults <= MaxFaults
           /\ ReplayBatch \in Nat /\ ReplayBatch > 0 /\ Chunk \in Nat /\ Chunk > 0
           /\ sent \in Nat /\ pos \in Nat /\ size \in Nat
           /\ last \in Entry /\ last.seq \in Nat /\ last.hash \in Hashes
<1>1. /\ MaxAppends \in Nat /\ MaxFaults \in Nat
      /\ ReplayBatch \in Nat \ {0} /\ Chunk \in Nat \ {0}
  BY FeedAssumption
<1>2. appends \in 0 .. MaxAppends /\ faults \in 0 .. MaxFaults /\ last \in Entry
  BY DEF TypeOK
<1>3. sent \in Nat /\ pos \in Nat /\ size \in Nat
  BY DEF TypeOK
<1>4. last.seq \in Nat /\ last.hash \in Hashes
  BY <1>2 DEF Entry
<1> QED
  BY <1>1, <1>2, <1>3, <1>4

\* A session that ends leaves nothing to keep.
LEMMA SessionOver ==
    ASSUME EndSession
    PROVE  SessionInv' /\ ReplayInv' /\ DoneInv' /\ ReplayedOnceInOrder'
BY DEF EndSession, SessionInv, NoReplay, ReplayInv, DoneInv, ReplayedOnceInOrder

\* A write, whole or torn, by a running process.
LEMMA Grows ==
    ASSUME IInv, Idle, NEW k \in DOMAIN Written(NextEntry),
           file' = file \o SubSeq(Written(NextEntry), 1, k)
    PROVE  /\ NextEntry \in Entry /\ file \in Seq(Piece)
           /\ Follows(NextEntry, last) /\ NextEntry.seq = last.seq + 1 /\ last.seq \in Nat
           /\ file' = Grown(file, NextEntry, k)
           /\ file' \in Seq(Piece)
           /\ Ordered(file) /\ Behind(file, last)
           /\ Shaped(file') /\ OrderInv' /\ Behind(file', NextEntry)
           /\ savedIndex # NoIndex /\ savedIndex.size <= Len(file) /\ Len(file) <= Len(file')
           /\ \A i \in Index : BuiltFrom(file, i) => BuiltFrom(file', i)
<1> DEFINE e == NextEntry
<1>1. file \in Seq(Piece) /\ last \in Entry /\ up /\ appends \in Nat /\ appends < MaxAppends
      /\ MaxAppends \in Nat
  BY FeedAssumption DEF IInv, TypeOK, Idle
<1>2. e \in Entry /\ e.seq = last.seq + 1 /\ e.prev = last.hash /\ last.seq \in Nat
  BY <1>1 DEF NextEntry, Entry, Hashes
<1>3. Follows(e, last) /\ e.seq >= 1
  BY <1>2 DEF Follows
<1>4. file' = Grown(file, e, k)
  BY DEF Grown
<1>5. Len(file) \in Nat /\ file' \in Seq(Piece) /\ Len(file') = Len(file) + k /\ k \in Nat
  <2>1. k \in 1 .. Width(e) + 1 /\ Width(e) \in Nat
    BY <1>2, WidthFacts
  <2>2. Len(file) \in Nat /\ k \in Nat
    BY <1>1, <2>1, LenProperties
  <2>3. Grown(file, e, k) \in Seq(Piece) /\ Len(Grown(file, e, k)) = Len(file) + k
    BY <1>1, <1>2, GrownFacts
  <2> QED
    BY <1>4, <2>2, <2>3
<1> HIDE DEF e
<1>6. /\ \A n \in 0 .. Len(file) : Ordered(SubSeq(file, 1, n))
      /\ Ordered(file) /\ Behind(file, last)
  BY <1>1, WholePrefix DEF IInv, OrderInv, LastInv, Behind
<1>7. Shaped(file')
  BY <1>1, <1>2, <1>3, <1>4, GrownShaped DEF IInv, e
<1>8. Behind(file', e)
  BY <1>1, <1>2, <1>3, <1>4, <1>6, GrownOrdered DEF e
<1>9. ASSUME NEW n \in 0 .. Len(file')
      PROVE  Ordered(SubSeq(file', 1, n))
  <2>1. \A j \in DOMAIN Written(e) : Ordered(Grown(file, e, j))
    BY <1>1, <1>2, <1>3, <1>6, GrownOrdered
  <2>2. k \in DOMAIN Written(e) /\ n \in 0 .. Len(Grown(file, e, k))
    BY <1>4 DEF e
  <2>3. \/ n \in 0 .. Len(file)
           /\ SubSeq(Grown(file, e, k), 1, n) = SubSeq(file, 1, n)
        \/ \E j \in DOMAIN Written(e) :
              SubSeq(Grown(file, e, k), 1, n) = Grown(file, e, j)
    BY <1>1, <1>2, <2>2, PrefixOfGrown
  <2> QED
    BY <1>4, <1>6, <2>1, <2>3
<1>10. savedIndex # NoIndex /\ savedIndex.size <= Len(file) /\ Len(file) <= Len(file')
  BY <1>1, <1>5 DEF IInv, IndexInv
<1>11. ASSUME NEW i \in Index, BuiltFrom(file, i)
       PROVE  BuiltFrom(file', i)
  <2>1. i.size \in Nat /\ i.size <= Len(file)
    BY <1>11 DEF Index, BuiltFrom
  <2>2. i.size \in 0 .. Len(file) /\ i.size <= Len(file')
    BY <1>5, <2>1
  <2>3. SubSeq(file', 1, i.size) = SubSeq(file, 1, i.size)
    BY <1>1, <1>2, <1>4, <2>2, GrownPrefix DEF e
  <2> QED
    BY <1>11, <2>2, <2>3 DEF BuiltFrom
<1> QED
  BY <1>1, <1>2, <1>3, <1>4, <1>5, <1>6, <1>7, <1>8, <1>9, <1>10, <1>11 DEF OrderInv, e

\* It is sent entries, garbled or not.
LEMMA SentFacts ==
    ASSUME NEW e \in Entry
    PROVE  /\ e \in Message /\ Garbled(e) \in Message
           /\ Garbled(e).seq = e.seq
BY DEF Entry, Message, Garbled

\* More is sent, to an open channel or to none.
LEMMA SentGrows ==
    ASSUME NEW e \in Message, got \in Seq(Message), dropped \subseteq Message, SendDc(e)
    PROVE  /\ got' \in Seq(Message) /\ dropped' \subseteq Message
           /\ \A i \in DOMAIN got : i \in DOMAIN got' /\ got'[i] = got[i]
           /\ \A i \in DOMAIN got' :
                 \/ i \in DOMAIN got /\ got'[i] = got[i]
                 \/ got'[i] = e /\ \A j \in DOMAIN got : j < i
           /\ \A i, j \in DOMAIN got' : i < j => i \in DOMAIN got
           /\ Sent' = Sent \cup {e}
           /\ \A d : Got(d) => Got(d)'
<1>1. Len(got) \in Nat /\ DOMAIN got = 1 .. Len(got)
  BY LenProperties
<1>2. CASE dcOpen
  <2>1. got' = Append(got, e) /\ dropped' = dropped
    BY <1>2 DEF SendDc
  <2>2. /\ got' \in Seq(Message)
        /\ DOMAIN got' = 1 .. Len(got) + 1
        /\ \A i \in 1 .. Len(got) : got'[i] = got[i]
        /\ got'[Len(got) + 1] = e
    BY <1>1, <2>1
  <2>3. Sent' = Sent \cup {e}
    BY <1>1, <2>1, <2>2 DEF Sent, Received
  <2>4. ASSUME NEW i \in DOMAIN got'
        PROVE  \/ i \in DOMAIN got /\ got'[i] = got[i]
               \/ got'[i] = e /\ \A j \in DOMAIN got : j < i
    BY <1>1, <2>2
  <2>5. \A i \in DOMAIN got : i \in DOMAIN got' /\ got'[i] = got[i]
    BY <1>1, <2>2
  <2>6. \A i, j \in DOMAIN got' : i < j => i \in DOMAIN got
    BY <1>1, <2>2
  <2> QED
    BY <2>1, <2>2, <2>3, <2>4, <2>5, <2>6 DEF Got
<1>3. CASE ~dcOpen
  <2>1. got' = got /\ dropped' = dropped \cup {e}
    BY <1>3 DEF SendDc
  <2>2. Sent' = Sent \cup {e}
    BY <2>1 DEF Sent, Received
  <2> QED
    BY <2>1, <2>2 DEF Got
<1> QED
  BY <1>2, <1>3

\* An entry behind all that was there when the replay began stands in no order.
LEMMA OrderKept ==
    ASSUME NEW e \in Message, got \in Seq(Message), dropped \subseteq Message, SendDc(e),
           lastAtSub' = lastAtSub, cuts' = cuts, ReplayedOnceInOrder,
           cuts < 2 /\ e.seq <= lastAtSub =>
              \A i \in DOMAIN got : got[i].seq <= lastAtSub => got[i].seq < e.seq
    PROVE  ReplayedOnceInOrder'
<1>1. /\ \A i \in DOMAIN got' :
            \/ i \in DOMAIN got /\ got'[i] = got[i]
            \/ got'[i] = e /\ \A j \in DOMAIN got : j < i
      /\ \A i, j \in DOMAIN got' : i < j => i \in DOMAIN got
      /\ \A i \in DOMAIN got : i \in DOMAIN got' /\ got'[i] = got[i]
  BY SentGrows
<1> SUFFICES ASSUME cuts < 2, NEW i \in DOMAIN got', NEW j \in DOMAIN got', i < j,
                    got'[i].seq <= lastAtSub, got'[j].seq <= lastAtSub
             PROVE  got'[i].seq < got'[j].seq
  BY DEF ReplayedOnceInOrder
<1>2. i \in DOMAIN got /\ got'[i] = got[i]
  BY <1>1
<1>3. CASE j \in DOMAIN got
  BY <1>1, <1>2, <1>3 DEF ReplayedOnceInOrder
<1>4. CASE got'[j] = e
  BY <1>1, <1>2, <1>4
<1> QED
  BY <1>1, <1>3, <1>4

\* A whole write, and its broadcast.
LEMMA AppendStep ==
    ASSUME IInv, AppendOrder
    PROVE  IInv'
<1> DEFINE e == NextEntry
           k == Len(Written(e))
<1>1. TypeOK /\ Idle /\ up /\ up' = up /\ sub # "run"
  BY DEF IInv, AppendOrder, Idle
<1>2. /\ appends' = appends + 1 /\ last' = e /\ index' = NoIndex /\ told' = told \cup {e}
      /\ IF wantsTape THEN SendDc(e) ELSE UNCHANGED heard
      /\ UNCHANGED <<savedIndex, oldIndexes, wantsTape, dcOpen, replay, lastAtSub, faults, cuts>>
  BY DEF AppendOrder, saved, channel
<1>3. e \in Entry
  <2>1. /\ MaxAppends \in Nat /\ appends \in Nat /\ appends < MaxAppends
        /\ last.seq \in Nat /\ last.hash \in Hashes
    BY <1>1, Counters DEF Idle
  <2>2. last.seq + 1 \in Nat /\ appends + 1 \in Hashes
    BY <2>1 DEF Hashes
  <2> QED
    BY <2>1, <2>2 DEF NextEntry, Entry
<1>4. k \in DOMAIN Written(e) /\ file' = file \o SubSeq(Written(e), 1, k)
  <2>1. Written(e) \in Seq(Piece) /\ k = Width(e) + 1 /\ Width(e) \in Nat
        /\ DOMAIN Written(e) = 1 .. Width(e) + 1
    BY <1>3, WrittenFacts, WidthFacts
  <2>2. SubSeq(Written(e), 1, k) = Written(e)
    BY <2>1, SubSeqFull
  <2>3. k \in DOMAIN Written(e)
    BY <2>1
  <2> QED
    BY <2>2, <2>3 DEF AppendOrder
<1>5. /\ file \in Seq(Piece)
      /\ Follows(e, last) /\ e.seq = last.seq + 1 /\ last.seq \in Nat
      /\ file' = Grown(file, e, k) /\ file' \in Seq(Piece)
      /\ Ordered(file) /\ Behind(file, last)
      /\ Shaped(file') /\ OrderInv' /\ Behind(file', e)
      /\ savedIndex # NoIndex /\ savedIndex.size <= Len(file) /\ Len(file) <= Len(file')
      /\ \A i \in Index : BuiltFrom(file, i) => BuiltFrom(file', i)
  BY <1>1, <1>4, Grows
<1>6. /\ Len(file) \in Nat /\ k \in Nat /\ Len(file') = Len(file) + k
      /\ \A i \in 1 .. Len(file) : file'[i] = file[i]
      /\ file'[Len(file) + 1] = [entry |-> e, piece |-> 1]
  <2>1. k = Width(e) + 1 /\ Width(e) \in Nat
    BY <1>3, WidthFacts
  <2>2. file \in Seq(Piece) /\ k \in DOMAIN Written(e) /\ file' = Grown(file, e, k)
    BY <1>4, <1>5
  <2>3. Len(file) \in Nat /\ k \in Nat
    BY <2>1, <2>2, LenProperties
  <2> HIDE DEF e, k
  <2>4. /\ Len(Grown(file, e, k)) = Len(file) + k
        /\ \A i \in 1 .. Len(file) : Grown(file, e, k)[i] = file[i]
        /\ \A i \in 1 .. k : Grown(file, e, k)[Len(file) + i] = Written(e)[i]
    BY <1>3, <2>2, GrownFacts
  <2>5. Written(e)[1] = [entry |-> e, piece |-> 1] /\ 1 \in 1 .. k /\ Width(e) \in 2 .. 3
    BY <1>3, <2>1, WidthFacts
  <2> QED
    BY <2>2, <2>3, <2>4, <2>5
<1> HIDE DEF e, k
<1>7. /\ got \in Seq(Message) /\ dropped \subseteq Message /\ e \in Message /\ lastAtSub \in Nat
      /\ size \in Nat /\ pos \in Nat
      /\ sub \in {"none", "run", "yield", "done"}
  BY <1>1, <1>3, SentFacts DEF TypeOK
<1>8. ASSUME NEW p \in Offsets(file')
      PROVE  /\ p \in Nat
             /\ \/ p \in Terminated(file) /\ p \in Offsets(file) /\ p < Len(file)
                   /\ EntryAt(file', p) = EntryAt(file, p)
                \/ p = Len(file) /\ EntryAt(file', p) = e
  <2>1. p \in Nat
    BY <1>5, OffsetMeans
  <2>2. p \in Offsets(Grown(file, e, k))
    BY <1>5
  <2>3. \/ /\ p \in Terminated(file) /\ p \in Offsets(file) /\ p < Len(file)
           /\ EntryAt(Grown(file, e, k), p) = EntryAt(file, p)
        \/ /\ p = Len(file)
           /\ EntryAt(Grown(file, e, k), p) = e
    BY <1>3, <1>4, <1>5, <2>2, GrownOffset
  <2> QED
    BY <1>5, <2>1, <2>3
<1>9. \A p : p \in Terminated(file') => p \in Offsets(file')
  BY <1>5, TerminatedIs
<1>10. Whole(file') => Whole(file)
  BY <1>3, <1>4, <1>5, GrownWhole DEF IInv, TypeOK
<1>11. wantsTape => sub # "none" /\ lastAtSub <= last.seq
  BY DEF IInv, SessionInv
<1>12. sub # "none" => wantsTape /\ up /\ lastAtSub <= last.seq /\ size <= Len(file)
  BY DEF IInv, SessionInv
<1>13. TypeOK'
  <2>1. got' \in Seq(Message) /\ dropped' \subseteq Message
    BY <1>2, <1>7, SentGrows DEF heard
  <2>2. appends' \in 0 .. MaxAppends
    <3>1. MaxAppends \in Nat /\ appends \in Nat /\ appends < MaxAppends
      BY <1>1, Counters DEF Idle
    <3> QED
      BY <1>2, <3>1
  <2>3. told' \subseteq Entry /\ last' \in Entry
    BY <1>1, <1>2, <1>3 DEF TypeOK
  <2> QED
    BY <1>1, <1>2, <1>5, <2>1, <2>2, <2>3 DEF TypeOK, replay
<1>14. LastInv'
  BY <1>2, <1>5 DEF LastInv, Behind
<1>15. LossInv'
  <2>1. IsFiniteSet(told) /\ IsFiniteSet(told')
    BY <1>2, FS_AddElement DEF IInv, LossInv
  <2>2. /\ Cardinality(told \ Complete(file)) \in Nat
        /\ Cardinality(told' \ Complete(file')) \in Nat
        /\ Cardinality(told' \ Complete(file')) <= Cardinality(told \ Complete(file)) + 1
        /\ Clean(file) =>
              Cardinality(told' \ Complete(file')) <= Cardinality(told \ Complete(file))
        /\ Clean(file')
    BY <1>2, <1>3, <1>4, <1>5, <2>1, LossFacts DEF k
  <2>3. cuts = 0 => Cardinality(told \ Complete(file)) + (IF Clean(file) THEN 0 ELSE 1) <= faults
    BY DEF IInv, LossInv
  <2>4. faults \in Nat /\ faults' = faults /\ cuts' = cuts
    BY <1>1, <1>2, FeedAssumption DEF TypeOK
  <2> QED
    BY <2>1, <2>2, <2>3, <2>4 DEF LossInv
<1>16. IndexInv'
  <2>1. oldIndexes \subseteq Index \cup {NoIndex} /\ savedIndex \in Index
    BY <1>1, <1>5 DEF TypeOK
  <2>2. savedIndex.size \in Nat /\ Len(file) \in Nat /\ Len(file') \in Nat
    BY <1>5, <2>1, LenProperties DEF Index
  <2>3. savedIndex.size <= Len(file')
    BY <1>5, <2>2
  <2>4. cuts = 0 => \A i \in oldIndexes \ {NoIndex} : BuiltFrom(file', i)
    BY <1>5, <2>1 DEF IInv, IndexInv
  <2>5. cuts < 2 => BuiltFrom(file', savedIndex)
    BY <1>5, <2>1 DEF IInv, IndexInv
  <2> QED
    BY <1>2, <1>5, <2>3, <2>4, <2>5 DEF IndexInv
<1>17. SessionInv'
  <2>1. CASE sub = "none"
    BY <1>2, <2>1 DEF IInv, SessionInv, NoReplay, replay, heard
  <2>2. CASE sub # "none"
    <3>1. size <= Len(file')
      BY <1>5, <1>6, <1>7, <1>12, <2>2
    <3> QED
      BY <1>1, <1>2, <1>5, <1>7, <1>12, <2>2, <3>1 DEF SessionInv, replay
  <2> QED
    BY <2>1, <2>2
<1>18. ASSUME sub # "none"
       PROVE  /\ \A i \in DOMAIN got' : (i \in DOMAIN got /\ got'[i] = got[i]) \/ got'[i] = e
              /\ Sent' = Sent \cup {e}
              /\ \A d : Got(d) => Got(d)'
              /\ e.seq > lastAtSub /\ lastAtSub' = lastAtSub
  <2>1. SendDc(e) /\ lastAtSub' = lastAtSub
    BY <1>2, <1>12, <1>18
  <2>2. e.seq > lastAtSub
    BY <1>5, <1>7, <1>12, <1>18
  <2> QED
    BY <1>7, <2>1, <2>2, SentGrows
<1>19. ReplayInv'
  <2> SUFFICES ASSUME cuts < 2, sub = "yield"
               PROVE  /\ pos <= Len(file')
                      /\ size < Len(file') => file'[size + 1].piece = 1
                      /\ \A p \in Terminated(file') : p >= size => EntryAt(file', p) \in Sent'
                      /\ \E off \in 0 .. pos : Handled(off)'
    BY <1>1, <1>2 DEF ReplayInv, replay
  <2>1. /\ size <= Len(file) /\ pos <= Len(file)
        /\ size < Len(file) => file[size + 1].piece = 1
        /\ \A p \in Terminated(file) : p >= size => EntryAt(file, p) \in Sent
        /\ \E off \in 0 .. pos : Handled(off)
    BY <1>12 DEF IInv, ReplayInv
  <2>2. size <= Len(file') /\ pos <= Len(file')
    BY <1>6, <1>7, <2>1
  <2>3. file'[size + 1].piece = 1
    <3>1. CASE size < Len(file)
      <4>1. size + 1 \in 1 .. Len(file)
        BY <1>6, <1>7, <3>1
      <4> QED
        BY <1>6, <2>1, <3>1, <4>1
    <3>2. CASE size = Len(file)
      BY <1>6, <3>2
    <3> QED
      BY <1>6, <1>7, <2>1, <3>1, <3>2
  <2>4. ASSUME NEW p \in Terminated(file'), p >= size
        PROVE  EntryAt(file', p) \in Sent'
    BY <1>8, <1>9, <1>18, <2>1, <2>4
  <2>5. PICK off \in 0 .. pos : Handled(off)
    BY <2>1
  <2>6. Handled(off)'
    <3>1. off \in Nat /\ off <= Len(file) /\ off <= pos
      BY <1>6, <1>7, <2>1
    <3>2. off = 0 \/ file'[off] = NL
      BY <1>6, <2>5, <3>1 DEF Handled
    <3>3. Len(text') = pos' - off /\ Mirrors(text', file', off)
      <4>1. text' = text /\ pos' = pos /\ text \in Seq(Piece)
        BY <1>1, <1>2 DEF replay, TypeOK
      <4>2. Len(text) \in Nat /\ DOMAIN text = 1 .. Len(text)
        BY <4>1, LenProperties
      <4>3. Mirrors(text, file, off) /\ Len(text) = pos - off
        BY <2>5 DEF Handled
      <4>4. /\ off + Len(text) = pos /\ pos <= Len(file')
            /\ pos <= Len(file) /\ Len(file) \in Nat /\ off \in Nat
        BY <1>6, <1>7, <2>1, <2>2, <3>1, <4>2, <4>3
      <4>5. ASSUME NEW i \in 1 .. Len(text)
            PROVE  /\ file'[off + i] = file[off + i]
                   /\ i # Len(text) => file'[off + i + 1] = file[off + i + 1]
        <5>1. off + i \in 1 .. Len(file)
          BY <4>2, <4>4
        <5>2. i # Len(text) => off + i + 1 \in 1 .. Len(file)
          <6> SUFFICES ASSUME i # Len(text)
                       PROVE  off + i + 1 \in 1 .. Len(file)
            OBVIOUS
          <6>0. Len(text) \in Nat
            BY <4>2
          <6>1. i \in Nat
            BY <6>0
          <6>2. i <= Len(text)
            BY <6>0
          <6>3. i + 1 <= Len(text)
            BY <6>0, <6>1, <6>2
          <6>4. off + i + 1 <= Len(file)
            BY <4>4, <6>0, <6>1, <6>3
          <6> QED
            BY <4>4, <6>1, <6>4
        <5> QED
          BY <1>6, <5>1, <5>2
      <4>6. Mirrors(text, file', off)
        <5>1. ASSUME NEW i \in 1 .. Len(text)
              PROVE  Shows(text, file', off, i)
          <6>1. Shows(text, file, off, i)
            BY <4>3 DEF Mirrors
          <6> QED
            BY <4>5, <6>1 DEF Shows
        <5> QED
          BY <4>4, <5>1 DEF Mirrors
      <4> QED
        BY <4>1, <4>3, <4>6
    <3>4. ASSUME NEW i \in DOMAIN got', NEW p \in Offsets(file'),
                 got'[i].seq <= lastAtSub', p >= off
          PROVE  got'[i].seq < EntryAt(file', p).seq
      <4>1. i \in DOMAIN got /\ got'[i] = got[i] /\ got[i].seq \in Nat
        <5>1. got'[i] # e
          BY <1>5, <1>7, <1>18, <3>4
        <5>2. i \in DOMAIN got /\ got'[i] = got[i]
          BY <1>18, <5>1
        <5>3. got[i] \in Message
          BY <1>7, <5>2, LenProperties, ElementOfSeq
        <5> QED
          BY <5>2, <5>3 DEF Message
      <4>2. got[i].seq <= lastAtSub
        BY <1>18, <3>4, <4>1
      <4>3. CASE p \in Offsets(file) /\ EntryAt(file', p) = EntryAt(file, p)
        BY <2>5, <3>4, <4>1, <4>2, <4>3 DEF Handled
      <4>4. CASE EntryAt(file', p) = e
        BY <1>5, <1>7, <1>18, <4>1, <4>2, <4>4
      <4> QED
        BY <1>8, <4>3, <4>4
    <3>5. ASSUME Whole(file'), NEW p \in Terminated(file'), p < off,
                 EntryAt(file', p).seq >= from
          PROVE  Got(EntryAt(file, p))'
      <4>1. p # Len(file) /\ p \in Terminated(file) /\ EntryAt(file', p) = EntryAt(file, p)
        BY <1>6, <1>8, <1>9, <3>1, <3>5
      <4>2. Got(EntryAt(file, p))
        BY <1>10, <2>5, <3>5, <4>1 DEF Handled
      <4> QED
        BY <1>18, <4>1, <4>2 DEF Got
    <3>6. from' = from
      BY <1>2 DEF replay
    <3> QED
      BY <3>2, <3>3, <3>4, <3>5, <3>6 DEF Handled
  <2> QED
    BY <2>2, <2>3, <2>4, <2>5, <2>6
<1>20. DoneInv'
  <2> SUFFICES ASSUME cuts < 2, sub = "done", Whole(file'), NEW p \in Terminated(file'),
                      EntryAt(file', p).seq >= from
               PROVE  Got(EntryAt(file, p))'
    BY <1>2 DEF DoneInv, replay
  <2>1. CASE p \in Terminated(file) /\ EntryAt(file', p) = EntryAt(file, p)
    <3>1. Got(EntryAt(file, p))
      BY <1>10, <2>1 DEF IInv, DoneInv
    <3> QED
      BY <1>18, <2>1, <3>1 DEF Got
  <2>2. CASE EntryAt(file', p) = e
    <3>1. e \in Sent'
      BY <1>18
    <3> QED
      BY <2>2, <3>1 DEF Got
  <2> QED
    BY <1>8, <1>9, <2>1, <2>2
<1>21. ReplayedOnceInOrder'
  <2>1. CASE wantsTape
    <3>1. SendDc(e) /\ lastAtSub' = lastAtSub /\ ~(e.seq <= lastAtSub) /\ cuts' = cuts
      BY <1>2, <1>5, <1>7, <1>11, <2>1
    <3> QED
      BY <1>7, <3>1, OrderKept DEF IInv
  <2>2. CASE ~wantsTape
    BY <1>2, <2>2 DEF IInv, ReplayedOnceInOrder, heard
  <2> QED
    BY <2>1, <2>2
<1>22. UnendedInv'
  <2>1. Clean(file')
    <3>1. k = Width(e) + 1 /\ Width(e) \in Nat /\ Written(e)[k] = NL /\ k \in 1 .. k
      BY <1>3, WidthFacts DEF k
    <3>2. file'[Len(file) + k] = Written(e)[k]
      <4>1. \A i \in 1 .. k : Grown(file, e, k)[Len(file) + i] = Written(e)[i]
        BY <1>3, <1>4, <1>5, GrownFacts
      <4> QED
        BY <1>5, <3>1, <4>1
    <3>3. file'[Len(file')] = NL
      BY <1>6, <3>1, <3>2
    <3> QED
      BY <3>3 DEF Clean
  <2> QED
    BY <1>2, <1>5, <2>1, NoneUnended DEF UnendedInv
<1> QED
  BY <1>5, <1>13, <1>14, <1>15, <1>16, <1>17, <1>19, <1>20, <1>21, <1>22 DEF IInv

\* What every death and every closed connection leaves.
LEMMA OverTypes ==
    ASSUME EndSession
    PROVE  /\ wantsTape' \in BOOLEAN /\ dcOpen' \in BOOLEAN
           /\ sub' \in {"none", "run", "yield", "done"}
           /\ {from', size', pos', sent', lastSent'} \subseteq Nat
           /\ text' \in Seq(Piece) /\ sent' < ReplayBatch
           /\ ended' \in Nat \cup {-1}
           /\ got' \in Seq(Message) /\ dropped' \subseteq Message
           /\ lastAtSub' \in Nat
<1>1. 0 < ReplayBatch
  BY FeedAssumption
<1>2. /\ <<>> \in Seq(Piece)
      /\ <<>> \in Seq(Message)
  BY EmptySeq
<1>3. text' = <<>> /\ got' = <<>> /\ dropped' = {} /\ sent' = 0
  BY DEF EndSession
<1>4. wantsTape' \in BOOLEAN /\ dcOpen' \in BOOLEAN /\ sub' \in {"none", "run", "yield", "done"}
  BY DEF EndSession
<1>5. {from', size', pos', sent', lastSent'} \subseteq Nat
  BY DEF EndSession
<1>6. ended' \in Nat \cup {-1} /\ lastAtSub' \in Nat
  BY DEF EndSession
<1> QED
  BY <1>1, <1>2, <1>3, <1>4, <1>5, <1>6

\* A write that ends half-way, in the death of the process.
LEMMA TornStep ==
    ASSUME IInv, NEW k \in DOMAIN Written(NextEntry), TornAppend(k)
    PROVE  IInv'
<1> DEFINE e == NextEntry
<1>1. TypeOK /\ Idle /\ up
  BY DEF IInv, TornAppend, Idle
<1>2. /\ faults < MaxFaults /\ faults' = faults + 1 /\ appends' = appends + 1
      /\ file' = file \o SubSeq(Written(e), 1, k)
      /\ up' = FALSE /\ last' = Genesis /\ index' = NoIndex /\ EndSession
      /\ UNCHANGED <<savedIndex, oldIndexes, told, cuts>>
  BY DEF TornAppend, Forget, saved
<1>3. /\ e \in Entry /\ file \in Seq(Piece)
      /\ file' = Grown(file, e, k) /\ file' \in Seq(Piece)
      /\ Shaped(file') /\ OrderInv'
      /\ savedIndex # NoIndex /\ savedIndex.size <= Len(file) /\ Len(file) <= Len(file')
      /\ \A i \in Index : BuiltFrom(file, i) => BuiltFrom(file', i)
  BY <1>1, <1>2, Grows
<1> HIDE DEF e
<1>4. k \in DOMAIN Written(e)
  BY DEF e
<1>5. TypeOK'
  <2>1. appends' \in 0 .. MaxAppends
    <3>1. MaxAppends \in Nat /\ appends \in Nat /\ appends < MaxAppends
      BY <1>1, Counters DEF Idle
    <3> QED
      BY <1>2, <3>1
  <2>2. faults' \in 0 .. MaxFaults
    <3>1. faults \in 0 .. MaxFaults /\ MaxFaults \in Nat
      BY <1>1, FeedAssumption DEF TypeOK
    <3> QED
      BY <1>2, <3>1
  <2> QED
    BY <1>1, <1>2, <1>3, <2>1, <2>2, OverTypes, NewlineFacts DEF TypeOK
<1>6. LossInv'
  <2>1. IsFiniteSet(told)
    BY DEF IInv, LossInv
  <2>2. /\ Cardinality(told \ Complete(file)) \in Nat
        /\ Cardinality(told \ Complete(file')) \in Nat
        /\ Cardinality(told \ Complete(file')) <= Cardinality(told \ Complete(file))
    BY <1>3, <1>4, <2>1, LossFacts
  <2>3. cuts = 0 => Cardinality(told \ Complete(file)) + (IF Clean(file) THEN 0 ELSE 1) <= faults
    BY DEF IInv, LossInv
  <2>4. faults \in Nat
    BY <1>1, FeedAssumption DEF TypeOK
  <2> QED
    BY <1>2, <2>1, <2>2, <2>3, <2>4 DEF LossInv
<1>7. IndexInv'
  <2>1. oldIndexes \subseteq Index \cup {NoIndex} /\ savedIndex \in Index
    BY <1>1, <1>3 DEF TypeOK
  <2>2. cuts = 0 => \A i \in oldIndexes \ {NoIndex} : BuiltFrom(file', i)
    BY <1>3, <2>1 DEF IInv, IndexInv
  <2>3. cuts < 2 => BuiltFrom(file', savedIndex)
    BY <1>3, <2>1 DEF IInv, IndexInv
  <2> QED
    BY <1>2, <2>2, <2>3 DEF IndexInv
<1>8. LastInv'
  BY <1>2 DEF LastInv
<1>9. UnendedInv'
  <2>1. faults' # 0
    BY <1>1, <1>2, Counters
  <2> QED
    BY <1>2, <2>1 DEF UnendedInv, EndSession
<1> QED
  BY <1>2, <1>3, <1>5, <1>6, <1>7, <1>8, <1>9, SessionOver DEF IInv

\* A death between two handlers leaves the disk as it is.
LEMMA KillStep ==
    ASSUME IInv, Kill
    PROVE  IInv'
<1>1. /\ up' = FALSE /\ last' = Genesis /\ index' = NoIndex /\ EndSession
      /\ UNCHANGED <<file, savedIndex, oldIndexes, appends, faults, told, cuts>>
  BY DEF Kill, Forget, disk, saved
<1>2. TypeOK'
  BY <1>1, OverTypes, NewlineFacts DEF IInv, TypeOK
<1>3. OrderInv' /\ Shaped(file') /\ LossInv' /\ IndexInv' /\ LastInv' /\ UnendedInv'
  BY <1>1 DEF IInv, OrderInv, LossInv, IndexInv, LastInv, UnendedInv, EndSession
<1> QED
  BY <1>1, <1>2, <1>3, SessionOver DEF IInv

\* A prefix of the tape keeps its order, and its index, if that was not built later.
LEMMA PowerLossStep ==
    ASSUME IInv, PowerLoss
    PROVE  IInv'
<1>1. /\ faults < MaxFaults /\ faults' = faults + 1 /\ cuts' = cuts + 1
      /\ savedIndex' \in oldIndexes \cup {NoIndex} /\ oldIndexes' = {savedIndex'}
      /\ up' = FALSE /\ last' = Genesis /\ index' = NoIndex /\ EndSession
      /\ UNCHANGED <<appends, told>>
  BY DEF PowerLoss, Forget
<1>2. PICK n \in 0 .. Len(file) : file' = SubSeq(file, 1, n)
  BY DEF PowerLoss
<1>3. file \in Seq(Piece) /\ Len(file) \in Nat /\ TypeOK
  BY LenProperties DEF IInv, TypeOK
<1>4. file' \in Seq(Piece) /\ Len(file') = n /\ n \in Nat /\ n <= Len(file)
  BY <1>2, <1>3, PrefixFacts
<1>5. \A m \in 0 .. n : SubSeq(file', 1, m) = SubSeq(file, 1, m)
  BY <1>2, <1>3, PrefixOfPrefix
<1>6. TypeOK'
  <2>1. faults' \in 0 .. MaxFaults
    <3>1. MaxFaults \in Nat /\ faults \in Nat
      BY <1>3, Counters
    <3> QED
      BY <1>1, <3>1
  <2> QED
    <3>1. cuts' \in Nat /\ savedIndex' \in Index \cup {NoIndex}
      BY <1>1, <1>3 DEF TypeOK
    <3> QED
      BY <1>1, <1>3, <1>4, <2>1, <3>1, OverTypes, NewlineFacts DEF TypeOK
<1>7. Shaped(file')
  BY <1>2, <1>3, PrefixShaped DEF IInv
<1>8. OrderInv'
  <2>1. ASSUME NEW m \in 0 .. Len(file')
        PROVE  Ordered(SubSeq(file', 1, m))
    <3>1. m \in 0 .. n /\ m \in 0 .. Len(file)
      BY <1>3, <1>4
    <3> QED
      BY <1>5, <3>1 DEF IInv, OrderInv
  <2> QED
    BY <2>1 DEF OrderInv
<1>9. LossInv' /\ LastInv' /\ UnendedInv'
  <2>1. cuts' # 0 /\ faults' # 0
    <3>1. cuts \in Nat /\ faults \in Nat
      BY <1>3, Counters DEF TypeOK
    <3> QED
      BY <1>1, <3>1
  <2> QED
    BY <1>1, <2>1 DEF IInv, LossInv, LastInv, UnendedInv, EndSession
<1>10. IndexInv'
  <2>1. cuts' # 0 /\ (cuts' < 2 => cuts = 0)
    BY <1>1, <1>3 DEF TypeOK
  <2>2. ASSUME cuts = 0, savedIndex' # NoIndex, savedIndex'.size <= Len(file')
        PROVE  BuiltFrom(file', savedIndex')
    <3>1. savedIndex' \in oldIndexes \ {NoIndex} /\ savedIndex' \in Index
      BY <1>1, <1>3, <2>2 DEF TypeOK
    <3>2. BuiltFrom(file, savedIndex')
      BY <2>2, <3>1 DEF IInv, IndexInv
    <3>3. savedIndex'.size \in 0 .. n
      BY <1>4, <2>2, <3>1 DEF Index
    <3> QED
      BY <1>5, <2>2, <3>2, <3>3 DEF BuiltFrom
  <2> QED
    BY <1>1, <2>1, <2>2 DEF IndexInv
<1> QED
  BY <1>1, <1>6, <1>7, <1>8, <1>9, <1>10, SessionOver DEF IInv

\* A closed connection leaves the tape alone.
LEMMA DisconnectStep ==
    ASSUME IInv, Disconnect
    PROVE  IInv'
<1>1. EndSession /\ UNCHANGED <<file, savedIndex, oldIndexes, up, last, index, appends, faults, told, cuts>>
  BY DEF Disconnect, disk, saved
<1>2. TypeOK'
  BY <1>1, OverTypes DEF IInv, TypeOK
<1>3. OrderInv' /\ Shaped(file') /\ LossInv' /\ IndexInv' /\ LastInv' /\ UnendedInv'
  BY <1>1 DEF IInv, OrderInv, LossInv, IndexInv, LastInv, UnendedInv, EndSession
<1> QED
  BY <1>1, <1>2, <1>3, SessionOver DEF IInv

\* loadOrBuildIndex leaves the index that a scan would build, saved.
LEMMA Indexed ==
    ASSUME IInv, LoadOrBuildIndex, up' = TRUE, file' = file, cuts' = cuts
    PROVE  /\ index' \in Index /\ index' # NoIndex /\ index'.size = Len(file)
           /\ savedIndex' = index' /\ oldIndexes' \subseteq Index \cup {NoIndex}
           /\ cuts < 2 => index' = BuildIndex(file, Stride)
           /\ IndexInv'
<1>1. file \in Seq(Piece) /\ Len(file) \in Nat /\ SubSeq(file, 1, Len(file)) = file
  BY WholePrefix, LenProperties DEF IInv, TypeOK
<1>2. /\ BuildIndex(file, Stride) \in Index /\ BuildIndex(file, Stride) # NoIndex
      /\ BuildIndex(file, Stride).size = Len(file)
  BY <1>1, IndexFacts
<1>3. BuiltFrom(file, BuildIndex(file, Stride))
  <2>1. PICK b : b = BuildIndex(file, Stride)
    OBVIOUS
  <2>2. PICK s \in Nat : s = Len(file)
    BY <1>1
  <2>3. b.size = s /\ SubSeq(file, 1, s) = file
    BY <1>1, <1>2, <2>1, <2>2
  <2>4. BuildIndex(SubSeq(file, 1, s), Stride) = b
    BY <2>1, <2>3, Zenon
  <2>5. BuildIndex(SubSeq(file, 1, b.size), Stride) = b
    BY <2>3, <2>4, Zenon
  <2>6. b.size <= Len(file)
    BY <2>2, <2>3
  <2> QED
    BY <2>1, <2>5, <2>6, Zenon DEF BuiltFrom
<1>4. ASSUME Fresh, cuts < 2
      PROVE  savedIndex = BuildIndex(file, Stride)
  <2>1. savedIndex # NoIndex /\ savedIndex.size = Len(file)
    BY <1>4 DEF Fresh
  <2>2. BuiltFrom(file, savedIndex)
    BY <1>1, <1>4, <2>1 DEF IInv, IndexInv
  <2> QED
    BY <1>1, <2>1, <2>2 DEF BuiltFrom
<1>5. /\ index' \in Index /\ index' # NoIndex /\ index'.size = Len(file)
      /\ savedIndex' = index' /\ oldIndexes' = oldIndexes \cup {index'}
      /\ cuts < 2 => index' = BuildIndex(file, Stride)
  <2>1. CASE Fresh
    <3>1. index' = savedIndex /\ savedIndex # NoIndex /\ savedIndex.size = Len(file)
      BY <2>1 DEF Fresh, LoadOrBuildIndex
    <3>2. savedIndex \in Index
      BY <3>1 DEF IInv, TypeOK
    <3> QED
      BY <1>4, <2>1, <3>1, <3>2 DEF LoadOrBuildIndex
  <2>2. CASE ~Fresh
    BY <1>2, <2>2 DEF LoadOrBuildIndex
  <2> QED
    BY <2>1, <2>2
<1>6. cuts = 0 => \A i \in oldIndexes' \ {NoIndex} : BuiltFrom(file, i)
  BY <1>3, <1>5 DEF IInv, IndexInv
<1>7. oldIndexes' \subseteq Index \cup {NoIndex}
  BY <1>5 DEF IInv, TypeOK
<1>8. IndexInv'
  BY <1>1, <1>3, <1>5, <1>6 DEF IndexInv
<1> QED
  BY <1>5, <1>7, <1>8

\* loadFromDisk finds what the tape chains to, and the index is exact.
LEMMA StartStep ==
    ASSUME IInv, Start
    PROVE  IInv'
<1>1. /\ ~up /\ up' = TRUE /\ last' = NewestEntry(file) /\ LoadOrBuildIndex
      /\ UNCHANGED <<file, session, appends, faults, told, cuts>>
  BY DEF Start
<1>2. /\ index' \in Index /\ savedIndex' = index'
      /\ oldIndexes' \subseteq Index \cup {NoIndex} /\ IndexInv'
  BY <1>1, Indexed
<1>3. file \in Seq(Piece) /\ Len(file) \in Nat /\ SubSeq(file, 1, Len(file)) = file
      /\ Len(file) \in 0 .. Len(file)
  BY WholePrefix, LenProperties DEF IInv, TypeOK
<1>4. Ordered(file)
  BY <1>3 DEF IInv, OrderInv
<1>5. last' \in Entry /\ Behind(file, last')
  BY <1>1, <1>3, <1>4, NewestFacts
<1>6. TypeOK'
  BY <1>1, <1>2, <1>5 DEF IInv, TypeOK, session, replay, channel, heard
<1>7. OrderInv' /\ Shaped(file') /\ LossInv'
  BY <1>1 DEF IInv, OrderInv, LossInv
<1>8. UnendedInv'
  <2>1. \A p \in Offsets(file) \ Terminated(file) : EntryAt(file, p) = NewestEntry(file)
    BY <1>3, <1>4, UnendedNewest
  <2>2. sub' = "none"
    BY <1>1 DEF IInv, SessionInv, session, replay
  <2> QED
    BY <1>1, <2>1, <2>2 DEF IInv, UnendedInv
<1>9. LastInv'
  BY <1>1, <1>5 DEF LastInv, Behind
<1>10. SessionInv' /\ ReplayInv' /\ DoneInv' /\ ReplayedOnceInOrder'
  <2>1. sub = "none"
    BY <1>1 DEF IInv, SessionInv
  <2> QED
    BY <1>1, <2>1 DEF IInv, SessionInv, NoReplay, ReplayInv, DoneInv, ReplayedOnceInOrder,
       session, replay, channel, heard
<1> QED
  BY <1>2, <1>6, <1>7, <1>8, <1>9, <1>10 DEF IInv

----------------------------------------------------------------------------
(* What is read. *)

\* The last piece of a wide text stands behind the one before it.
LEMMA ThirdPiece ==
    ASSUME NEW f \in Seq(Piece), Shaped(f), NEW i \in DOMAIN f, f[i].piece = 3
    PROVE  /\ f[i].entry.wide /\ i > 1 /\ i \in Nat
           /\ f[i] = [entry |-> f[i].entry, piece |-> 3]
           /\ f[i - 1] = [entry |-> f[i].entry, piece |-> 2]
<1>1. f[i] \in Piece /\ i \in Nat
  BY LenProperties
<1>2. f[i] = [entry |-> f[i].entry, piece |-> 3] /\ f[i].entry \in Entry
  BY <1>1 DEF Piece
<1>3. f[i] # NL
  BY DEF NL
<1>4. /\ 3 \in DOMAIN Json(f[i].entry)
      /\ i > 1 /\ f[i - 1] = [f[i] EXCEPT !.piece = 3 - 1]
  BY <1>3 DEF Shaped
<1>5. f[i].entry.wide
  BY <1>2, <1>4, JsonFacts
<1>6. f[i - 1] = [entry |-> f[i].entry, piece |-> 2]
  BY <1>2, <1>4
<1> QED
  BY <1>1, <1>2, <1>4, <1>5, <1>6

\* Decoding replaces halves of characters and nothing else.
LEMMA DecodedFacts ==
    ASSUME NEW r \in Seq(Piece)
    PROVE  /\ Decoded(r) \in Seq(Piece) /\ Len(Decoded(r)) = Len(r)
           /\ \A i \in 1 .. Len(r) :
                 /\ Decoded(r)[i] = IF Half(r, i) THEN [r[i] EXCEPT !.piece = Replaced]
                                                  ELSE r[i]
                 /\ r[i] \in Piece
                 /\ Decoded(r)[i].piece = Replaced /\ r[i].piece # Replaced => Half(r, i)
                 /\ Half(r, i) => /\ r[i].entry.wide /\ r[i].piece \in {2, 3}
                                  /\ Decoded(r)[i].piece = Replaced
<1>1. Len(r) \in Nat /\ DOMAIN r = 1 .. Len(r) /\ \A i \in 1 .. Len(r) : r[i] \in Piece
  BY LenProperties
<1>2. Decoded(r) = [i \in 1 .. Len(r) |-> IF Half(r, i) THEN [r[i] EXCEPT !.piece = Replaced]
                                                        ELSE r[i]]
  BY <1>1 DEF Decoded
<1>3. \A i \in 1 .. Len(r) : [r[i] EXCEPT !.piece = Replaced] \in Piece
                             /\ [r[i] EXCEPT !.piece = Replaced].piece = Replaced
  BY <1>1 DEF Piece
<1>4. Decoded(r) \in Seq(Piece) /\ Len(Decoded(r)) = Len(r)
  BY <1>1, <1>2, <1>3
<1>5. \A i \in 1 .. Len(r) : Half(r, i) => r[i].entry.wide /\ r[i].piece \in {2, 3}
  BY DEF Half
<1> QED
  BY <1>1, <1>2, <1>3, <1>4, <1>5

\* A part of a file.
LEMMA PartFacts ==
    ASSUME NEW f \in Seq(Piece), NEW a \in Nat, NEW b \in Nat, a <= b, b <= Len(f)
    PROVE  /\ SubSeq(f, a + 1, b) \in Seq(Piece)
           /\ Len(SubSeq(f, a + 1, b)) = b - a
           /\ DOMAIN SubSeq(f, a + 1, b) = 1 .. b - a
           /\ \A i \in 1 .. b - a : SubSeq(f, a + 1, b)[i] = f[a + i]
<1>1. Len(f) \in Nat
  BY LenProperties
<1>2. \A i \in a + 1 .. b : f[i] \in Piece
  <2>1. \A i \in a + 1 .. b : i \in 1 .. Len(f)
    BY <1>1
  <2> QED
    BY <2>1, ElementOfSeq
<1>3. /\ SubSeq(f, a + 1, b) \in Seq(Piece)
      /\ Len(SubSeq(f, a + 1, b)) = IF a + 1 <= b THEN b - (a + 1) + 1 ELSE 0
      /\ \A i \in 1 .. b - (a + 1) + 1 : SubSeq(f, a + 1, b)[i] = f[a + 1 + i - 1]
  <2>1. a + 1 \in Int /\ b \in Int
    OBVIOUS
  <2> QED
    BY <1>2, <2>1, SubSeqProperties
<1>4. b - (a + 1) + 1 = b - a /\ (a + 1 <= b \/ b - a = 0) /\ \A i \in Int : a + 1 + i - 1 = a + i
  OBVIOUS
<1>5. Len(SubSeq(f, a + 1, b)) = b - a
  BY <1>3, <1>4
<1> QED
  BY <1>3, <1>4, <1>5, LenProperties

\* A text is another, which mirrors a file, and what is read of the file behind it, as
\* far as b.
ReadOn(u, t, f, off, b) ==
    /\ Mirrors(t, f, off) /\ off + Len(t) < b /\ b <= Len(f)
    /\ u = t \o Decoded(SubSeq(f, off + Len(t) + 1, b))

MirrorsUpTo(u, f, off, b) == u \in Seq(Piece) /\ Mirrors(u, f, off) /\ off + Len(u) = b

\* A text goes on mirroring the file when more of the file is read.
LEMMA MirrorsMore ==
    ASSUME NEW f \in Seq(Piece), NEW t \in Seq(Piece), NEW off \in Nat, NEW b \in Nat,
           Shaped(f), NEW u, ReadOn(u, t, f, off, b)
    PROVE  MirrorsUpTo(u, f, off, b)
<1> DEFINE L == Len(t)
           a == off + L
           n == b - a
           r == SubSeq(f, a + 1, b)
           d == Decoded(r)
<1>1. /\ Len(f) \in Nat /\ DOMAIN f = 1 .. Len(f) /\ L \in Nat /\ DOMAIN t = 1 .. L
      /\ a \in Nat /\ n \in Nat /\ n >= 1 /\ a < b
  <2>1. Len(f) \in Nat /\ DOMAIN f = 1 .. Len(f) /\ L \in Nat /\ DOMAIN t = 1 .. L
    BY LenProperties
  <2>2. off + L < b
    BY DEF ReadOn
  <2> HIDE DEF L
  <2> QED
    BY <2>1, <2>2
<1>2. u = t \o d /\ b <= Len(f) /\ Mirrors(t, f, off)
  BY DEF ReadOn
<1> HIDE DEF L
<1>3. a = off + L /\ n = b - a /\ a + n = b
  BY <1>1
<1> HIDE DEF a
<1>4. /\ r \in Seq(Piece) /\ Len(r) = n /\ DOMAIN r = 1 .. n
      /\ \A j \in 1 .. n : r[j] = f[a + j]
  <2>1. a <= b /\ b <= Len(f)
    BY <1>1, <1>2
  <2> QED
    BY <1>1, <2>1, PartFacts
<1> HIDE DEF n, r
<1>5. /\ d \in Seq(Piece) /\ Len(d) = n
      /\ \A i \in 1 .. n :
            /\ d[i] = IF Half(r, i) THEN [r[i] EXCEPT !.piece = Replaced] ELSE r[i]
            /\ r[i] \in Piece
            /\ d[i].piece = Replaced /\ r[i].piece # Replaced => Half(r, i)
            /\ Half(r, i) => /\ r[i].entry.wide /\ r[i].piece \in {2, 3}
                             /\ d[i].piece = Replaced
  BY <1>4, DecodedFacts
<1> HIDE DEF d
<1>6. /\ u \in Seq(Piece) /\ Len(u) = L + n /\ DOMAIN u = 1 .. L + n
      /\ \A i \in 1 .. L : u[i] = t[i]
      /\ \A j \in 1 .. n : u[L + j] = d[j]
  <2>1. /\ u \in Seq(Piece) /\ Len(u) = Len(t) + Len(d)
        /\ \A i \in 1 .. Len(t) + Len(d) : u[i] = IF i <= Len(t) THEN t[i] ELSE d[i - Len(t)]
    <3>1. d \in Seq(Piece)
      BY <1>5
    <3>2. /\ t \o d \in Seq(Piece) /\ Len(t \o d) = Len(t) + Len(d)
          /\ \A i \in 1 .. Len(t) + Len(d) :
                (t \o d)[i] = IF i <= Len(t) THEN t[i] ELSE d[i - Len(t)]
      BY <3>1, ConcatProperties
    <3> QED
      BY <1>2, <3>2
  <2>2. /\ Len(u) = L + n
        /\ \A i \in 1 .. L + n : u[i] = IF i <= L THEN t[i] ELSE d[i - L]
    BY <1>5, <2>1 DEF L
  <2>3. DOMAIN u = 1 .. L + n
    BY <2>1, <2>2, LenProperties
  <2>4. \A i \in 1 .. L : i \in 1 .. L + n /\ i <= L
    BY <1>1
  <2>5. ASSUME NEW j \in 1 .. n
        PROVE  u[L + j] = d[j]
    <3>1. PICK i \in 1 .. L + n : i = L + j
      BY <1>1
    <3>2. ~(i <= L) /\ i - L = j
      BY <1>1, <3>1
    <3>3. u[i] = IF i <= L THEN t[i] ELSE d[i - L]
      BY <2>2
    <3> QED
      BY <3>1, <3>2, <3>3
  <2> QED
    BY <2>1, <2>2, <2>3, <2>4, <2>5
<1>7. off + Len(u) = b /\ off + Len(u) <= Len(f)
  BY <1>1, <1>2, <1>3, <1>6
<1>8. ASSUME NEW i \in 1 .. L + n
      PROVE  Shows(u, f, off, i)
  <2>1. CASE i \in 1 .. L
    <3>1. u[i] = t[i] /\ i # L + n /\ i \in DOMAIN t
      BY <1>1, <1>6, <2>1
    <3>2. Shows(t, f, off, i)
      BY <1>2, <2>1 DEF Mirrors, L
    <3>3. ASSUME i # L
          PROVE  u[i + 1] = t[i + 1]
      <4>1. i + 1 \in 1 .. L
        BY <1>1, <2>1, <3>3
      <4> QED
        BY <1>6, <4>1
    <3>4. ASSUME i = L, f[off + i + 1].piece = 3
          PROVE  u[i + 1].piece = Replaced
      <4>1. 1 \in 1 .. n /\ i + 1 = L + 1 /\ off + i + 1 = a + 1
        BY <1>1, <1>3, <3>4
      <4>2. u[i + 1] = d[1]
        BY <1>6, <4>1
      <4>3. r[1] = f[a + 1] /\ r[1].piece = 3 /\ f[a + 1].piece = 3
        BY <1>4, <3>4, <4>1
      <4>4. a + 1 \in DOMAIN f
        BY <1>1, <1>2, <1>3
      <4>5. r[1].entry.wide
        BY <4>3, <4>4, ThirdPiece
      <4>6. ~Has(r, 1 - 1, r[1].entry, 2)
        BY <1>1, <1>4 DEF Has
      <4>7. Half(r, 1)
        BY <4>3, <4>5, <4>6 DEF Half
      <4> QED
        BY <1>5, <4>1, <4>2, <4>7
    <3> QED
      BY <1>6, <3>1, <3>2, <3>3, <3>4 DEF Shows, L
  <2>2. CASE ~(i \in 1 .. L)
    <3>1. PICK j \in 1 .. n : i = L + j
      <4>1. i - L \in 1 .. n /\ i = L + (i - L)
        BY <1>1, <2>2
      <4> QED
        BY <4>1
    <3>2. off + i = a + j /\ (i = L + n <=> j = n) /\ j \in Nat
      BY <1>1, <1>3, <3>1
    <3>3. u[i] = d[j] /\ f[off + i] = r[j] /\ r[j] \in Piece
      BY <1>4, <1>5, <1>6, <3>1, <3>2
    <3>4. \/ u[i] = r[j]
          \/ /\ r[j].entry.wide /\ r[j].piece \in {2, 3}
             /\ u[i] = [r[j] EXCEPT !.piece = Replaced]
      BY <1>5, <3>1, <3>3
    <3>5. ASSUME r[j].entry.wide, r[j].piece = 2, j = n
          PROVE  u[i].piece = Replaced
      <4>1. ~Has(r, j + 1, r[j].entry, 3)
        BY <1>1, <1>4, <3>5 DEF Has
      <4>2. Half(r, j)
        BY <3>5, <4>1 DEF Half
      <4> QED
        BY <1>5, <3>1, <3>3, <4>2
    <3>6. ASSUME r[j].entry.wide, r[j].piece = 2, j # n, f[off + i + 1].piece = 3
          PROVE  u[i].piece # Replaced /\ u[i + 1].piece # Replaced
      <4>1. /\ j + 1 \in 1 .. n /\ i + 1 = L + (j + 1)
            /\ off + i + 1 = a + (j + 1) /\ a + (j + 1) - 1 = a + j
        BY <1>1, <1>3, <3>1, <3>2, <3>6
      <4>2. u[i + 1] = d[j + 1]
        BY <1>6, <4>1
      <4>3. PICK m \in DOMAIN f : m = a + (j + 1)
        BY <1>1, <1>2, <1>3, <4>1
      <4>4. r[j + 1] = f[m] /\ r[j + 1].piece = 3 /\ f[m].piece = 3 /\ f[m - 1] = f[a + j]
        <5>1. r[j + 1] = f[m]
          BY <1>4, <4>1, <4>3
        <5>2. f[m].piece = 3
          BY <3>6, <4>1, <4>3
        <5>3. m - 1 = a + j
          BY <1>1, <3>2, <4>3
        <5> QED
          BY <5>1, <5>2, <5>3
      <4>5. /\ r[j + 1] = [entry |-> r[j + 1].entry, piece |-> 3]
            /\ f[m - 1] = [entry |-> r[j + 1].entry, piece |-> 2]
        <5>1. /\ f[m] = [entry |-> f[m].entry, piece |-> 3]
              /\ f[m - 1] = [entry |-> f[m].entry, piece |-> 2]
          BY <4>4, ThirdPiece
        <5> QED
          BY <4>4, <5>1
      <4>6. r[j] = [entry |-> r[j + 1].entry, piece |-> 2]
        BY <3>2, <3>3, <4>4, <4>5
      <4>7. Has(r, j + 1, r[j].entry, 3) /\ Has(r, (j + 1) - 1, r[j + 1].entry, 2)
        <5>1. (j + 1) - 1 = j /\ j \in DOMAIN r /\ j + 1 \in DOMAIN r
          BY <1>4, <3>1, <3>2, <4>1
        <5>2. r[j].entry = r[j + 1].entry
          BY <4>6
        <5> QED
          BY <4>5, <4>6, <5>1, <5>2 DEF Has
      <4>8. ~Half(r, j) /\ ~Half(r, j + 1)
        BY <3>6, <4>4, <4>7 DEF Half
      <4>9. d[j] = r[j] /\ d[j + 1] = r[j + 1]
        BY <1>5, <3>1, <4>1, <4>8
      <4>10. u[i].piece = 2 /\ u[i + 1].piece = 3
        BY <3>3, <3>6, <4>2, <4>4, <4>9
      <4>11. Replaced # 2 /\ Replaced # 3
        BY DEF Replaced
      <4> QED
        BY <4>10, <4>11
    <3> QED
      BY <1>6, <3>1, <3>2, <3>3, <3>4, <3>5, <3>6 DEF Shows
  <2> QED
    BY <2>1, <2>2
<1>9. Mirrors(u, f, off)
  BY <1>6, <1>7, <1>8 DEF Mirrors
<1> QED
  BY <1>6, <1>7, <1>9 DEF MirrorsUpTo

----------------------------------------------------------------------------
(* The lines of what is read. *)

\* A piece of a text that was written stands behind the one before it.
LEMMA PieceFacts ==
    ASSUME NEW f \in Seq(Piece), Shaped(f), NEW i \in DOMAIN f
    PROVE  /\ f[i] \in Piece /\ i \in Nat /\ i <= Len(f) /\ Len(f) \in Nat
           /\ f[i] = [entry |-> f[i].entry, piece |-> f[i].piece] /\ f[i].entry \in Entry
           /\ f[i].piece \in Nat /\ f[i].piece # Replaced
           /\ f[i].piece = 2 => i > 1 /\ f[i - 1].piece = 1
           /\ f[i].piece = 3 => i > 1 /\ f[i - 1].piece = 2 /\ f[i].entry.wide
<1>1. f[i] \in Piece /\ i \in Nat /\ i <= Len(f) /\ Len(f) \in Nat
  BY LenProperties
<1>2. /\ f[i] = [entry |-> f[i].entry, piece |-> f[i].piece]
      /\ f[i].entry \in Entry /\ f[i].piece \in 0 .. 3 \cup {Replaced}
  BY <1>1 DEF Piece
<1>3. f[i].piece \in Nat
  BY <1>2 DEF Replaced
<1>4. f[i].piece # Replaced
  <2>1. CASE f[i] = NL
    BY <2>1 DEF NL, Replaced
  <2>2. CASE f[i] # NL
    <3>1. f[i].piece \in DOMAIN Json(f[i].entry)
      BY <2>2 DEF Shaped
    <3>2. DOMAIN Json(f[i].entry) = 1 .. Width(f[i].entry) /\ Width(f[i].entry) \in 2 .. 3
      BY <1>2, JsonFacts, WidthFacts DEF Width
    <3> QED
      BY <3>1, <3>2 DEF Replaced
  <2> QED
    BY <2>1, <2>2
<1>5. ASSUME f[i].piece = 2
      PROVE  i > 1 /\ f[i - 1].piece = 1
  <2>1. f[i] # NL
    BY <1>5 DEF NL
  <2>2. i > 1 /\ f[i - 1] = [f[i] EXCEPT !.piece = 2 - 1]
    BY <1>5, <2>1 DEF Shaped
  <2> QED
    BY <1>2, <2>2
<1>6. ASSUME f[i].piece = 3
      PROVE  i > 1 /\ f[i - 1].piece = 2 /\ f[i].entry.wide
  <2>1. /\ f[i].entry.wide /\ i > 1
        /\ f[i - 1] = [entry |-> f[i].entry, piece |-> 2]
    BY <1>6, ThirdPiece
  <2> QED
    BY <2>1
<1> QED
  BY <1>1, <1>2, <1>3, <1>4, <1>5, <1>6

\* Newlines are read as they are, and a piece that is not replaced is too.
LEMMA MirrorFacts ==
    ASSUME NEW f \in Seq(Piece), NEW t \in Seq(Piece), NEW off \in Nat, Shaped(f),
           Mirrors(t, f, off), NEW i \in 1 .. Len(t)
    PROVE  /\ off + i \in DOMAIN f
           /\ t[i] = NL <=> f[off + i] = NL
           /\ t[i].piece # Replaced => f[off + i] = t[i]
           /\ t[i].piece = Replaced =>
                 /\ f[off + i].entry = t[i].entry
                 /\ f[off + i].piece \in {2, 3}
                 /\ f[off + i] = [entry |-> t[i].entry, piece |-> f[off + i].piece]
<1>1. Len(t) \in Nat /\ Len(f) \in Nat /\ DOMAIN f = 1 .. Len(f) /\ off + Len(t) <= Len(f)
  BY LenProperties DEF Mirrors
<1>2. PICK m \in DOMAIN f : m = off + i
  BY <1>1
<1>3. /\ f[m] = [entry |-> f[m].entry, piece |-> f[m].piece]
      /\ f[m].piece # Replaced
  BY PieceFacts
<1>4. \/ t[i] = f[m]
      \/ /\ f[m].entry.wide /\ f[m].piece \in {2, 3}
         /\ t[i] = [f[m] EXCEPT !.piece = Replaced]
  <2>1. Shows(t, f, off, i)
    BY DEF Mirrors
  <2> QED
    BY <1>2, <2>1 DEF Shows
<1>5. CASE t[i] = f[m]
  BY <1>2, <1>3, <1>5
<1>6. CASE f[m].piece \in {2, 3} /\ t[i] = [f[m] EXCEPT !.piece = Replaced]
  <2>1. t[i].piece = Replaced /\ t[i].entry = f[m].entry
    BY <1>3, <1>6
  <2>2. f[m] # NL /\ t[i] # NL
    BY <1>6, <2>1 DEF NL, Replaced
  <2> QED
    BY <1>2, <1>3, <1>6, <2>1, <2>2
<1> QED
  BY <1>4, <1>5, <1>6

\* The first line of a text.
LEMMA FirstLineFacts ==
    ASSUME NEW t \in Seq(Piece), NEW n \in 0 .. Len(t) - 1, FirstLine(t, SubSeq(t, 1, n))
    PROVE  /\ n \in Nat /\ Len(t) \in Nat /\ n < Len(t)
           /\ SubSeq(t, 1, n) \in Seq(Piece) /\ Len(SubSeq(t, 1, n)) = n
           /\ DOMAIN SubSeq(t, 1, n) = 1 .. n
           /\ \A i \in 1 .. n : SubSeq(t, 1, n)[i] = t[i] /\ t[i] # NL
           /\ t[n + 1] = NL
<1>1. n \in Nat /\ Len(t) \in Nat /\ n < Len(t) /\ n \in 0 .. Len(t)
  BY LenProperties
<1>2. /\ SubSeq(t, 1, n) \in Seq(Piece) /\ Len(SubSeq(t, 1, n)) = n
      /\ \A i \in 1 .. n : SubSeq(t, 1, n)[i] = t[i]
  BY <1>1, PrefixFacts
<1>3. DOMAIN SubSeq(t, 1, n) = 1 .. n
  BY <1>2, LenProperties
<1> QED
  BY <1>1, <1>2, <1>3 DEF FirstLine

\* A line that parses has the pieces of one entry, the later ones replaced or not.
LEMMA ParsesMeans ==
    ASSUME NEW line \in Seq(Piece), Parses(line)
    PROVE  LET e == line[1].entry
           IN  /\ e \in Entry /\ Len(line) = Width(e)
               /\ line[1] = [entry |-> e, piece |-> 1]
               /\ \A i \in 1 .. Width(e) :
                     \/ line[i] = [entry |-> e, piece |-> i]
                     \/ e.wide /\ i > 1 /\ line[i] = [entry |-> e, piece |-> Replaced]
               /\ Parsed(line) = e \/ (e.wide /\ Parsed(line) = Garbled(e))
<1> DEFINE e == line[1].entry
<1>1. Len(line) \in Nat /\ DOMAIN line = 1 .. Len(line) /\ line # <<>> /\ line \in Texts(e)
  BY LenProperties DEF Parses
<1>2. e \in Entry
  <2>1. 1 \in 1 .. Len(line)
    BY <1>1, EmptySeq
  <2>2. line[1] \in Piece
    BY <2>1, ElementOfSeq
  <2> QED
    BY <2>2 DEF Piece
<1> HIDE DEF e
<1>3. /\ DOMAIN Json(e) = 1 .. Width(e) /\ Width(e) \in 2 .. 3 /\ Len(Json(e)) = Width(e)
      /\ \A i \in 1 .. Width(e) : Json(e)[i] = [entry |-> e, piece |-> i]
  BY <1>2, JsonFacts, WidthFacts DEF Width
<1> DEFINE Shape ==
        /\ Len(line) = Width(e) /\ line[1] = [entry |-> e, piece |-> 1]
        /\ \A i \in 1 .. Width(e) :
              \/ line[i] = [entry |-> e, piece |-> i]
              \/ e.wide /\ i > 1 /\ line[i] = [entry |-> e, piece |-> Replaced]
           Value == Parsed(line) = e \/ (e.wide /\ Parsed(line) = Garbled(e))
<1>4. ASSUME line = Json(e)
      PROVE  Shape /\ Value
  <2>1. 1 \in 1 .. Width(e)
    BY <1>3
  <2>2. Parsed(line) = e
    BY <1>4 DEF Parsed, e
  <2>3. Shape
    BY <1>3, <1>4, <2>1
  <2>4. Value
    BY <2>2
  <2> HIDE DEF Shape, Value
  <2> QED
    BY <2>3, <2>4
<1>5. ASSUME line = [i \in 1 .. Width(e) |->
                       IF e.wide /\ i > 1 THEN [entry |-> e, piece |-> Replaced] ELSE Json(e)[i]],
             line # Json(e)
      PROVE  Shape /\ Value
  <2>1. DOMAIN line = 1 .. Width(e)
    BY <1>5
  <2>2. Len(line) = Width(e)
    BY <1>1, <1>3, <2>1
  <2>3. ASSUME NEW i \in 1 .. Width(e)
        PROVE  line[i] = IF e.wide /\ i > 1 THEN [entry |-> e, piece |-> Replaced]
                         ELSE [entry |-> e, piece |-> i]
    BY <1>3, <1>5
  <2>4. e.wide
    <3> SUFFICES ASSUME ~e.wide
                 PROVE  line = Json(e)
      BY <1>5
    <3>1. \A i \in 1 .. Width(e) : line[i] = Json(e)[i]
      BY <1>3, <2>3
    <3>2. Json(e) \in Seq(Piece)
      BY <1>2, JsonFacts
    <3> QED
      BY <1>3, <2>2, <3>1, <3>2, SeqEqual
  <2>5. 1 \in 1 .. Width(e) /\ line[1] = [entry |-> e, piece |-> 1]
    BY <1>3, <2>3
  <2>6. Parsed(line) = Garbled(e)
    BY <1>5 DEF Parsed, e
  <2>7. Shape
    BY <2>2, <2>3, <2>4, <2>5
  <2>8. Value
    BY <2>4, <2>6
  <2> HIDE DEF Shape, Value
  <2> QED
    BY <2>7, <2>8
<1>6. Shape /\ Value
  BY <1>1, <1>3, <1>4, <1>5 DEF Texts
<1> QED
  BY <1>2, <1>6 DEF e

\* The next line of a text that mirrors a file from an offset where a line starts.
LineNext(t, f, off, n) ==
    /\ Mirrors(t, f, off)
    /\ off = 0 \/ f[off] = NL
    /\ n \in 0 .. Len(t) - 1 /\ FirstLine(t, SubSeq(t, 1, n))

\* It is a complete line of the file, parsed to its entry or to what a read made of it.
IsComplete(line, f, off) ==
    LET e == line[1].entry
    IN  /\ off \in Terminated(f) /\ EntryAt(f, off) = e /\ e \in Entry
        /\ Len(line) = Width(e)
        /\ Parsed(line) = e \/ (e.wide /\ Parsed(line) = Garbled(e))

\* A line that is sent is a complete line of the tape, at the offset the text is at.
LEMMA LineSent ==
    ASSUME NEW f \in Seq(Piece), NEW t \in Seq(Piece), NEW off \in Nat, Shaped(f), NEW n,
           LineNext(t, f, off, n), Parses(SubSeq(t, 1, n))
    PROVE  IsComplete(SubSeq(t, 1, n), f, off)
<1> DEFINE line == SubSeq(t, 1, n)
           e == line[1].entry
<1> USE DEF LineNext
<1>1. /\ n \in Nat /\ Len(t) \in Nat /\ n < Len(t) /\ line \in Seq(Piece) /\ Len(line) = n
      /\ \A i \in 1 .. n : line[i] = t[i] /\ t[i] # NL
      /\ t[n + 1] = NL
  BY FirstLineFacts
<1> HIDE DEF line
<1>2. /\ e \in Entry /\ n = Width(e)
      /\ line[1] = [entry |-> e, piece |-> 1]
      /\ \A i \in 1 .. Width(e) :
            \/ line[i] = [entry |-> e, piece |-> i]
            \/ e.wide /\ i > 1 /\ line[i] = [entry |-> e, piece |-> Replaced]
      /\ Parsed(line) = e \/ (e.wide /\ Parsed(line) = Garbled(e))
  <2>1. Parses(line)
    BY DEF line
  <2> QED
    BY <1>1, <2>1, ParsesMeans
<1> HIDE DEF e
<1>3. Width(e) \in 2 .. 3 /\ Len(f) \in Nat /\ off + Len(t) <= Len(f)
  BY <1>2, WidthFacts, LenProperties DEF Mirrors
<1>4. ASSUME NEW i \in 1 .. Width(e)
      PROVE  /\ off + i \in DOMAIN f
             /\ f[off + i].entry = e
             /\ f[off + i] = [entry |-> e, piece |-> i] \/ f[off + i].piece \in {2, 3}
             /\ f[off + i] = [entry |-> e, piece |-> f[off + i].piece]
  <2>1. i \in 1 .. Len(t) /\ i \in 1 .. n /\ i \in 1 .. 3
    BY <1>1, <1>2, <1>3
  <2>2. line[i] = t[i]
    BY <1>1, <2>1
  <2>3. off + i \in DOMAIN f
    BY <2>1, MirrorFacts
  <2>4. CASE t[i] = [entry |-> e, piece |-> i]
    <3>1. t[i].piece # Replaced
      BY <2>1, <2>4 DEF Replaced
    <3>2. f[off + i] = [entry |-> e, piece |-> i]
      BY <2>1, <2>4, <3>1, MirrorFacts
    <3> QED
      BY <2>3, <3>2
  <2>5. CASE t[i] = [entry |-> e, piece |-> Replaced]
    <3>1. t[i].piece = Replaced /\ t[i].entry = e
      BY <2>5
    <3>2. /\ f[off + i].entry = e /\ f[off + i].piece \in {2, 3}
          /\ f[off + i] = [entry |-> e, piece |-> f[off + i].piece]
      BY <2>1, <3>1, MirrorFacts
    <3> QED
      BY <2>3, <3>2
  <2> QED
    BY <1>2, <2>2, <2>4, <2>5
<1>5. f[off + 1] = [entry |-> e, piece |-> 1]
  <2>1. 1 \in 1 .. Width(e) /\ 1 \in 1 .. n /\ 1 \in 1 .. Len(t)
    BY <1>1, <1>2, <1>3
  <2>2. t[1] = [entry |-> e, piece |-> 1]
    BY <1>1, <1>2, <2>1
  <2>3. t[1].piece # Replaced
    BY <2>2 DEF Replaced
  <2> QED
    BY <2>1, <2>2, <2>3, MirrorFacts
<1>6. f[off + 2] = [entry |-> e, piece |-> 2]
  <2>1. 2 \in 1 .. Width(e)
    BY <1>3
  <2>2. /\ off + 2 \in DOMAIN f
        /\ f[off + 2] = [entry |-> e, piece |-> 2] \/ f[off + 2].piece \in {2, 3}
        /\ f[off + 2] = [entry |-> e, piece |-> f[off + 2].piece]
    BY <1>4, <2>1
  <2>3. PICK m \in DOMAIN f : m = off + 2
    BY <2>2
  <2>4. m - 1 = off + 1
    BY <2>3
  <2>5. f[m].piece # 3
    <3>1. f[m].piece = 3 => f[m - 1].piece = 2
      BY PieceFacts
    <3>2. f[m - 1].piece = 1
      BY <1>5, <2>4
    <3> QED
      BY <3>1, <3>2
  <2> QED
    BY <2>2, <2>3, <2>5
<1>7. ASSUME Width(e) = 3
      PROVE  f[off + 3] = [entry |-> e, piece |-> 3]
  <2>1. 3 \in 1 .. Width(e)
    BY <1>7
  <2>2. /\ off + 3 \in DOMAIN f
        /\ f[off + 3] = [entry |-> e, piece |-> 3] \/ f[off + 3].piece \in {2, 3}
        /\ f[off + 3] = [entry |-> e, piece |-> f[off + 3].piece]
    BY <1>4, <2>1
  <2>3. PICK m \in DOMAIN f : m = off + 3
    BY <2>2
  <2>4. m - 1 = off + 2
    BY <2>3
  <2>5. f[m].piece # 2
    <3>1. f[m].piece = 2 => f[m - 1].piece = 1
      BY PieceFacts
    <3>2. f[m - 1].piece = 2
      BY <1>6, <2>4
    <3> QED
      BY <3>1, <3>2
  <2> QED
    BY <2>2, <2>3, <2>5
<1>8. \A i \in 1 .. Width(e) : f[off + i] = [entry |-> e, piece |-> i]
  <2> SUFFICES ASSUME NEW i \in 1 .. Width(e)
               PROVE  f[off + i] = [entry |-> e, piece |-> i]
    OBVIOUS
  <2>1. i = 1 \/ i = 2 \/ (i = 3 /\ Width(e) = 3)
    BY <1>3
  <2> QED
    BY <1>5, <1>6, <1>7, <2>1
<1>9. f[off + Width(e) + 1] = NL /\ off + Width(e) < Len(f)
  <2>1. PICK i \in 1 .. Len(t) : i = Width(e) + 1
    BY <1>1, <1>2, <1>3
  <2>2. t[i] = NL
    BY <1>1, <1>2, <2>1
  <2>3. f[off + i] = NL
    BY <2>2, MirrorFacts
  <2>4. off + i = off + Width(e) + 1 /\ off + Width(e) < Len(f)
    BY <1>1, <1>2, <1>3, <2>1
  <2> QED
    BY <2>3, <2>4
<1>10. off \in Offsets(f) /\ EntryAt(f, off) = e
  <2>1. off + Width(e) <= Len(f)
    BY <1>3, <1>9
  <2> QED
    BY <1>2, <1>8, <1>9, <2>1, OffsetIs, Zenon
<1>11. off \in Terminated(f)
  BY <1>9, <1>10, TerminatedIs
<1> QED
  BY <1>1, <1>2, <1>10, <1>11 DEF IsComplete, e, line

\* A complete line of the tape is what is next in the text, and parses.
LEMMA LineRead ==
    ASSUME NEW f \in Seq(Piece), NEW t \in Seq(Piece), NEW off \in Nat, Shaped(f),
           Mirrors(t, f, off), off \in Terminated(f),
           NEW n \in 0 .. Len(t) - 1, FirstLine(t, SubSeq(t, 1, n))
    PROVE  /\ n = Width(EntryAt(f, off))
           /\ Parses(SubSeq(t, 1, n))
           /\ SubSeq(t, 1, n)[1].entry = EntryAt(f, off)
<1> DEFINE line == SubSeq(t, 1, n)
           e == EntryAt(f, off)
<1>1. /\ n \in Nat /\ Len(t) \in Nat /\ n < Len(t) /\ line \in Seq(Piece) /\ Len(line) = n
      /\ DOMAIN line = 1 .. n
      /\ \A i \in 1 .. n : line[i] = t[i] /\ t[i] # NL
      /\ t[n + 1] = NL
  BY FirstLineFacts
<1> HIDE DEF line
<1>2. off \in Offsets(f) /\ off + Width(e) < Len(f) /\ Len(f) \in Nat
  BY TerminatedIs, LenProperties
<1>3. /\ e \in Entry /\ Width(e) \in 2 .. 3
      /\ \A i \in 1 .. Width(e) : f[off + i] = [entry |-> e, piece |-> i] /\ f[off + i] # NL
      /\ f[off + Width(e) + 1] = NL
  BY <1>2, OffsetMeans, Apart
<1> HIDE DEF e
<1>4. n = Width(e)
  <2>1. ~(n < Width(e))
    <3> SUFFICES ASSUME n < Width(e)
                 PROVE  FALSE
      OBVIOUS
    <3>1. PICK i \in 1 .. Len(t) : i = n + 1 /\ i \in 1 .. Width(e)
      BY <1>1, <1>3
    <3>2. t[i] = NL
      BY <1>1, <3>1
    <3>3. f[off + i] = NL
      BY <3>2, MirrorFacts
    <3> QED
      BY <1>3, <3>1, <3>3
  <2>2. ~(n > Width(e))
    <3> SUFFICES ASSUME n > Width(e)
                 PROVE  FALSE
      OBVIOUS
    <3>0. n \in Nat /\ Len(t) \in Nat /\ n < Len(t) /\ Width(e) \in Nat
      BY <1>1, <1>3
    <3>1. PICK i \in 1 .. Len(t) : i = Width(e) + 1 /\ i \in 1 .. n
      BY <3>0
    <3>2. off + i = off + Width(e) + 1
      BY <1>3, <3>1
    <3>3. f[off + i] = NL
      BY <1>3, <3>2
    <3>4. t[i] = NL
      BY <3>3, MirrorFacts
    <3> QED
      BY <1>1, <3>1, <3>4
  <2> QED
    BY <1>1, <1>3, <2>1, <2>2
<1>5. ASSUME NEW i \in 1 .. Width(e)
      PROVE  /\ i \in 1 .. Len(t) /\ line[i] = t[i] /\ Shows(t, f, off, i)
             /\ f[off + i] = [entry |-> e, piece |-> i] /\ i \in Nat /\ i # Len(t)
  <2>1. i \in 1 .. Len(t) /\ i \in 1 .. n /\ i \in Nat /\ i # Len(t)
    BY <1>1, <1>4
  <2> QED
    BY <1>1, <1>3, <2>1 DEF Mirrors
<1>6. ASSUME NEW i \in 1 .. Width(e)
      PROVE  \/ line[i] = [entry |-> e, piece |-> i]
             \/ e.wide /\ i \in {2, 3} /\ line[i] = [entry |-> e, piece |-> Replaced]
  <2>1. f[off + i] = [entry |-> e, piece |-> i] /\ line[i] = t[i] /\ Shows(t, f, off, i)
    BY <1>5
  <2>2. /\ f[off + i].entry = e /\ f[off + i].piece = i
        /\ [f[off + i] EXCEPT !.piece = Replaced] = [entry |-> e, piece |-> Replaced]
    BY <2>1
  <2>3. \/ t[i] = f[off + i]
        \/ /\ f[off + i].entry.wide /\ f[off + i].piece \in {2, 3}
           /\ t[i] = [f[off + i] EXCEPT !.piece = Replaced]
    BY <2>1 DEF Shows
  <2> QED
    BY <2>1, <2>2, <2>3, Zenon
<1>7. 1 \in 1 .. Width(e) /\ 2 \in 1 .. Width(e) /\ (e.wide => 3 \in 1 .. Width(e))
      /\ (e.wide <=> Width(e) = 3)
  <2>1. Width(e) = IF e.wide THEN 3 ELSE 2
    BY <1>3, JsonFacts DEF Width
  <2>2. CASE e.wide
    BY <2>1, <2>2
  <2>3. CASE ~e.wide
    BY <2>1, <2>3
  <2> QED
    BY <2>2, <2>3
<1>8. line[1] = [entry |-> e, piece |-> 1]
  BY <1>6, <1>7
<1>9. ASSUME e.wide
      PROVE  line[2].piece = Replaced <=> line[3].piece = Replaced
  <2>1. f[off + 2].entry.wide /\ f[off + 2].piece = 2
    <3>1. f[off + 2] = [entry |-> e, piece |-> 2]
      BY <1>5, <1>7
    <3> QED
      BY <1>9, <3>1
  <2>2. f[off + 2 + 1].piece = 3
    <3>1. f[off + 3] = [entry |-> e, piece |-> 3] /\ off + 2 + 1 = off + 3
      BY <1>5, <1>7, <1>9
    <3> QED
      BY <3>1
  <2>3. Shows(t, f, off, 2) /\ 2 # Len(t)
    BY <1>5, <1>7
  <2>4. t[2].piece = Replaced <=> t[2 + 1].piece = Replaced
    <3>1. f[off + 2].entry.wide /\ f[off + 2].piece = 2 =>
              IF 2 = Len(t) THEN t[2].piece = Replaced
              ELSE f[off + 2 + 1].piece = 3 =>
                      (t[2].piece = Replaced <=> t[2 + 1].piece = Replaced)
      BY <2>3, Zenon DEF Shows
    <3> QED
      BY <2>1, <2>2, <2>3, <3>1
  <2>5. line[2] = t[2] /\ line[3] = t[3]
    <3>1. 2 \in 1 .. Width(e) /\ 3 \in 1 .. Width(e)
      BY <1>7, <1>9
    <3> QED
      BY <1>5, <3>1
  <2> QED
    BY <2>4, <2>5
<1>10. /\ Json(e) \in Seq(Piece) /\ Len(Json(e)) = Width(e) /\ DOMAIN Json(e) = 1 .. Width(e)
       /\ \A i \in 1 .. Width(e) : Json(e)[i] = [entry |-> e, piece |-> i]
  BY <1>3, JsonFacts DEF Width
<1>11. line \in Texts(e)
  <2>1. CASE \A i \in 1 .. Width(e) : line[i] = [entry |-> e, piece |-> i]
    <3>1. /\ line \in Seq(Piece) /\ Len(line) = Width(e)
          /\ \A i \in 1 .. Width(e) : line[i] = Json(e)[i]
      BY <1>1, <1>4, <1>10, <2>1
    <3>2. line = Json(e)
      BY <1>10, <3>1, SeqEqual
    <3> QED
      BY <3>2 DEF Texts
  <2>2. CASE \E i \in 1 .. Width(e) : line[i] # [entry |-> e, piece |-> i]
    <3> DEFINE u == [i \in 1 .. Width(e) |->
                       IF e.wide /\ i > 1 THEN [entry |-> e, piece |-> Replaced] ELSE Json(e)[i]]
    <3>1. PICK k \in 1 .. Width(e) :
              e.wide /\ k \in {2, 3} /\ line[k] = [entry |-> e, piece |-> Replaced]
      BY <1>6, <2>2
    <3>2. line[2].piece = Replaced /\ line[3].piece = Replaced
      <4>1. line[k].piece = Replaced
        BY <3>1
      <4> QED
        BY <1>9, <3>1, <4>1
    <3>3. line[2] = [entry |-> e, piece |-> Replaced] /\ line[3] = [entry |-> e, piece |-> Replaced]
      <4>1. Replaced # 2 /\ Replaced # 3
        BY DEF Replaced
      <4>2. /\ line[2] = [entry |-> e, piece |-> 2] \/ line[2] = [entry |-> e, piece |-> Replaced]
            /\ line[3] = [entry |-> e, piece |-> 3] \/ line[3] = [entry |-> e, piece |-> Replaced]
        BY <1>6, <1>7, <3>1
      <4> QED
        BY <3>2, <4>1, <4>2
    <3>4. Width(e) = 3
      BY <1>7, <3>1
    <3>5. \A i \in 1 .. 3 : u[i] = IF i > 1 THEN [entry |-> e, piece |-> Replaced] ELSE Json(e)[i]
      BY <3>1, <3>4
    <3>6. Json(e)[1] = [entry |-> e, piece |-> 1]
      BY <1>7, <1>10
    <3>7. u[1] = line[1] /\ u[2] = line[2] /\ u[3] = line[3]
      BY <1>8, <3>3, <3>5, <3>6
    <3>8. u \in Seq(Piece) /\ Len(u) = 3
      <4>1. [entry |-> e, piece |-> Replaced] \in Piece
        BY <1>3 DEF Piece
      <4>2. Json(e)[1] \in Piece
        BY <1>7, <1>10, ElementOfSeq
      <4>3. \A i \in 1 .. 3 : u[i] \in Piece
        <5>1. \A i \in 1 .. 3 : i > 1 \/ i = 1
          OBVIOUS
        <5> QED
          BY <3>5, <4>1, <4>2, <5>1
      <4>4. u = [i \in 1 .. 3 |-> u[i]]
        BY <3>4
      <4> HIDE DEF u
      <4> QED
        BY <4>3, <4>4
    <3>9. line = u
      <4>1. Len(line) = 3
        BY <1>1, <1>4, <3>4
      <4>2. \A i \in 1 .. 3 : line[i] = u[i]
        <5>1. \A i \in 1 .. 3 : i = 1 \/ i = 2 \/ i = 3
          OBVIOUS
        <5> HIDE DEF u
        <5> QED
          BY <3>7, <5>1
      <4> HIDE DEF u
      <4> QED
        BY <1>1, <3>8, <4>1, <4>2, SeqEqual
    <3> QED
      BY <1>10, <3>9 DEF Texts
  <2> QED
    BY <2>1, <2>2
<1>12. line # <<>> /\ line[1].entry = e
  <2>1. Len(line) # 0
    BY <1>1, <1>3, <1>4
  <2> QED
    BY <1>8, <2>1, EmptySeq
<1>13. Parses(line)
  BY <1>11, <1>12 DEF Parses
<1> QED
  BY <1>4, <1>12, <1>13 DEF e, line

\* When a line has been handled the rest of the text mirrors the file from its end, and
\* no other line that parses has been passed.
LEMMA LineDone ==
    ASSUME NEW f \in Seq(Piece), NEW t \in Seq(Piece), NEW off \in Nat, Shaped(f),
           Mirrors(t, f, off),
           NEW n \in 0 .. Len(t) - 1, FirstLine(t, SubSeq(t, 1, n))
    PROVE  /\ SubSeq(t, n + 2, Len(t)) \in Seq(Piece)
           /\ Len(SubSeq(t, n + 2, Len(t))) = Len(t) - (n + 1)
           /\ Mirrors(SubSeq(t, n + 2, Len(t)), f, off + n + 1)
           /\ f[off + n + 1] = NL
           /\ \A p \in Offsets(f) : p < off + n + 1 => p <= off
<1> DEFINE u == SubSeq(t, n + 2, Len(t))
           a == n + 1
<1>1. /\ n \in Nat /\ Len(t) \in Nat /\ n < Len(t)
      /\ \A i \in 1 .. n : t[i] # NL
      /\ t[n + 1] = NL
  BY FirstLineFacts
<1>2. a \in Nat /\ a = n + 1 /\ a <= Len(t) /\ a + 1 = n + 2 /\ off + n + 1 = off + a
      /\ a \in 1 .. Len(t) /\ off + Len(t) <= Len(f) /\ Len(f) \in Nat
  BY <1>1, LenProperties DEF Mirrors
<1>3. /\ u \in Seq(Piece) /\ Len(u) = Len(t) - a
      /\ \A i \in 1 .. Len(t) - a : u[i] = t[a + i]
  <2>1. u = SubSeq(t, a + 1, Len(t))
    BY <1>2
  <2> HIDE DEF u, a
  <2> QED
    BY <1>1, <1>2, <2>1, PartFacts
<1>4. f[off + a] = NL
  <2>1. t[a] = NL
    BY <1>1
  <2> HIDE DEF a
  <2>2. a \in 1 .. Len(t)
    BY <1>2
  <2> QED
    BY <2>1, <2>2, MirrorFacts
<1> HIDE DEF u, a
<1> DEFINE L == Len(t)
           m == Len(u)
<1>5. L \in Nat /\ m \in Nat /\ a + m = L
  <2>1. a \in Nat /\ a <= L /\ L \in Nat
    BY <1>1, <1>2
  <2>2. m = L - a
    BY <1>3
  <2> HIDE DEF L, m
  <2> QED
    BY <2>1, <2>2
<1>51. \A i \in 1 .. m : u[i] = t[a + i]
  BY <1>1, <1>2, <1>3
<1>52. \A k \in 1 .. L : Shows(t, f, off, k)
  BY DEF Mirrors
<1>53. ASSUME NEW i \in 1 .. m
       PROVE  Shows(u, f, off + a, i)
  <2> HIDE DEF L, m
  <2>1. /\ i \in Nat /\ a + i \in 1 .. L
        /\ off + a + i = off + (a + i) /\ off + a + i + 1 = off + (a + i) + 1
        /\ i = m <=> a + i = L
    BY <1>2, <1>5
  <2>2. PICK k \in 1 .. L : k = a + i
    BY <2>1
  <2>3. Shows(t, f, off, k)
    BY <1>52
  <2>4. u[i] = t[k]
    BY <1>51, <2>2
  <2>5. ASSUME i # m
        PROVE  u[i + 1] = t[k + 1]
    <3>1. i + 1 \in 1 .. m /\ a + (i + 1) = a + i + 1
      BY <1>2, <1>5, <2>1, <2>5
    <3> QED
      BY <1>51, <2>2, <3>1
  <2> QED
    BY <2>1, <2>2, <2>3, <2>4, <2>5 DEF Shows, L, m
<1>6. Mirrors(u, f, off + a)
  <2>1. off + a + Len(u) <= Len(f)
    BY <1>2, <1>5
  <2> QED
    BY <1>53, <2>1 DEF Mirrors
<1>7. ASSUME NEW p \in Offsets(f), p < off + a
      PROVE  p <= off
  <2>1. p \in Nat /\ (p = 0 \/ f[p] = NL)
    BY OffsetMeans
  <2> SUFFICES ASSUME p > off
               PROVE  FALSE
    BY <2>1
  <2>2. PICK i \in 1 .. n : p = off + i
    <3>1. n \in Nat /\ a = n + 1 /\ p < off + a /\ p > off /\ p \in Nat
      BY <1>1, <1>2, <1>7, <2>1
    <3>2. p - off \in 1 .. n /\ p = off + (p - off)
      BY <3>1
    <3> QED
      BY <3>2
  <2>3. t[i] # NL /\ i \in 1 .. Len(t) /\ p # 0
    BY <1>1, <2>1, <2>2
  <2> QED
    BY <2>1, <2>2, <2>3, MirrorFacts
<1> QED
  BY <1>2, <1>3, <1>4, <1>6, <1>7 DEF u

----------------------------------------------------------------------------
(* The steps of a replay. *)

\* What is left of the text behind a line is text.
LEMMA RestOfText ==
    ASSUME NEW t \in Seq(Piece), NEW n \in 0 .. Len(t) - 1
    PROVE  SubSeq(t, n + 2, Len(t)) \in Seq(Piece)
<1>1. Len(t) \in Nat /\ n \in Nat
  BY LenProperties
<1>2. PICK a \in Nat : a = n + 2
  BY <1>1
<1>3. \A i \in a .. Len(t) : t[i] \in Piece
  BY <1>1, <1>2, ElementOfSeq
<1>4. SubSeq(t, a, Len(t)) \in Seq(Piece)
  BY <1>1, <1>2, <1>3, SubSeqProperties
<1> QED
  BY <1>2, <1>4

\* So is what a read adds.
LEMMA DecodedPart ==
    ASSUME NEW f \in Seq(Piece), NEW t \in Seq(Piece), NEW a \in Nat, NEW b \in Nat,
           a < b, b <= Len(f)
    PROVE  t \o Decoded(SubSeq(f, a + 1, b)) \in Seq(Piece)
<1>1. Len(f) \in Nat
  BY LenProperties
<1>2. SubSeq(f, a + 1, b) \in Seq(Piece)
  BY <1>1, PartFacts
<1>3. Decoded(SubSeq(f, a + 1, b)) \in Seq(Piece)
  BY <1>2, DecodedFacts
<1> QED
  BY <1>3, ConcatProperties

\* They leave the tape and what is known of it alone.
LEMMA StoreKept ==
    ASSUME IInv, UNCHANGED <<disk, up, last, index, appends, faults, told, cuts>>
    PROVE  /\ Shaped(file') /\ OrderInv' /\ LastInv' /\ LossInv' /\ IndexInv'
           /\ (sub' # "none" => sub # "none") /\ lastAtSub' = lastAtSub => UnendedInv'
BY DEF disk, saved, IInv, OrderInv, LastInv, LossInv, IndexInv, UnendedInv

\* What a running replay knows.
LEMMA Replaying ==
    ASSUME IInv, cuts < 2, sub \in {"run", "yield"}
    PROVE  /\ file \in Seq(Piece) /\ Len(file) \in Nat /\ Shaped(file) /\ Ordered(file)
           /\ text \in Seq(Piece) /\ Len(text) \in Nat
           /\ {from, size, pos, lastAtSub} \subseteq Nat
           /\ got \in Seq(Message) /\ dropped \subseteq Message
           /\ up /\ wantsTape /\ lastAtSub <= last.seq
           /\ size <= Len(file) /\ pos <= Len(file)
           /\ size < Len(file) => file[size + 1].piece = 1
           /\ \A p \in Terminated(file) : p >= size => EntryAt(file, p) \in Sent
           /\ \E off \in 0 .. pos :
                 Handled(off) /\ off \in Nat /\ off <= pos /\ off + Len(text) = pos
<1>1. /\ file \in Seq(Piece) /\ Len(file) \in Nat /\ text \in Seq(Piece) /\ Len(text) \in Nat
      /\ {from, size, pos, lastAtSub} \subseteq Nat
      /\ got \in Seq(Message) /\ dropped \subseteq Message
  BY LenProperties DEF IInv, TypeOK
<1>2. Ordered(file) /\ Shaped(file)
  BY <1>1, WholePrefix DEF IInv, OrderInv
<1>3. up /\ wantsTape /\ lastAtSub <= last.seq /\ size <= Len(file)
  BY DEF IInv, SessionInv
<1>4. /\ pos <= Len(file)
      /\ size < Len(file) => file[size + 1].piece = 1
      /\ \A p \in Terminated(file) : p >= size => EntryAt(file, p) \in Sent
      /\ \E off \in 0 .. pos : Handled(off)
  BY DEF IInv, ReplayInv
<1>5. PICK off \in 0 .. pos : Handled(off)
  BY <1>4
<1>6. off \in Nat /\ off <= pos /\ off + Len(text) = pos
  BY <1>1, <1>5 DEF Handled
<1> QED
  BY <1>1, <1>2, <1>3, <1>4, <1>5, <1>6

\* Coming back from setImmediate changes nothing that was read or sent.
LEMMA ResumeStep ==
    ASSUME IInv, Resume
    PROVE  IInv'
<1>1. /\ sub = "yield" /\ sub' = "run"
      /\ UNCHANGED <<disk, up, last, index, channel, from, size, pos, text,
                     sent, lastSent, ended, heard, lastAtSub, appends, faults, told, cuts>>
  BY DEF Resume
<1>2. Shaped(file') /\ OrderInv' /\ LastInv' /\ LossInv' /\ IndexInv' /\ UnendedInv'
  BY <1>1, StoreKept
<1>3. TypeOK'
  BY <1>1 DEF IInv, TypeOK, disk, saved, channel, heard
<1>4. SessionInv' /\ DoneInv' /\ ReplayedOnceInOrder'
  BY <1>1 DEF IInv, SessionInv, DoneInv, ReplayedOnceInOrder, disk, channel, heard
<1>5. ReplayInv'
  BY <1>1 DEF IInv, ReplayInv, Handled, Got, Sent, Received, disk, heard
<1> QED
  BY <1>2, <1>3, <1>4, <1>5 DEF IInv

\* A step of a replay that reads or handles lines: it goes on if the session's part of
\* the invariant does, from some offset.
LEMMA ReplayGoesOn ==
    ASSUME IInv, sub = "run", sub' \in {"run", "yield"},
           UNCHANGED <<disk, up, last, index, channel, from, size, ended, lastAtSub,
                       appends, faults, told, cuts>>,
           text' \in Seq(Piece), pos' \in Nat,
           sent' \in Nat, sent' < ReplayBatch, lastSent' \in Nat,
           got' \in Seq(Message), dropped' \subseteq Message, Sent \subseteq Sent',
           ReplayedOnceInOrder',
           cuts < 2 => pos' <= Len(file) /\ \E off \in 0 .. pos' : Handled(off)'
    PROVE  IInv'
<1>1. file' = file /\ UNCHANGED <<savedIndex, oldIndexes, wantsTape, dcOpen, from, size, lastAtSub>>
  BY DEF disk, saved, channel
<1>2. Shaped(file') /\ OrderInv' /\ LastInv' /\ LossInv' /\ IndexInv' /\ UnendedInv'
  BY StoreKept
<1>3. TypeOK'
  BY <1>1 DEF IInv, TypeOK
<1>4. SessionInv' /\ DoneInv'
  BY <1>1 DEF IInv, SessionInv, DoneInv
<1>5. ReplayInv'
  <2> SUFFICES ASSUME cuts < 2
               PROVE  ReplayInv'
    BY DEF ReplayInv
  <2>1. /\ size < Len(file) => file[size + 1].piece = 1
        /\ \A p \in Terminated(file) : p >= size => EntryAt(file, p) \in Sent
    BY Replaying
  <2>2. \A p \in Terminated(file) : p >= size => EntryAt(file, p) \in Sent'
    BY <2>1
  <2> QED
    BY <1>1, <2>1, <2>2 DEF ReplayInv
<1> QED
  BY <1>2, <1>3, <1>4, <1>5 DEF IInv

\* A read moves the position on, within the file.
LEMMA ReadMoves ==
    ASSUME IInv, ReadChunk
    PROVE  pos' \in Nat /\ pos < pos' /\ pos' <= Len(file)
<1>1. /\ pos \in Nat /\ size \in Nat /\ Len(file) \in Nat /\ pos < size /\ size <= Len(file)
      /\ Chunk \in Nat /\ Chunk > 0
      /\ pos' = Min({pos + Chunk, Len(file)})
  BY FeedAssumption, LenProperties DEF ReadChunk, IInv, TypeOK, SessionInv
<1>2. pos + Chunk \in Nat /\ pos + Chunk > pos /\ Len(file) > pos
  BY <1>1
<1>3. pos' \in {pos + Chunk, Len(file)} /\ pos' <= Len(file)
  <2> DEFINE S == {pos + Chunk, Len(file)}
  <2>1. \E x \in S : \A y \in S : x <= y
    BY <1>1, <1>2
  <2>2. Min(S) \in S /\ \A y \in S : Min(S) <= y
    BY <2>1 DEF Min
  <2> QED
    BY <1>1, <2>2
<1> QED
  BY <1>1, <1>2, <1>3

\* Reading on: the text mirrors more of the file from the same offset.
LEMMA ReadStep ==
    ASSUME IInv, cuts < 2, ReadChunk
    PROVE  IInv'
<1>1. /\ sub = "run" /\ sub' = sub /\ pos < size
      /\ pos' = Min({pos + Chunk, Len(file)})
      /\ text' = text \o Decoded(SubSeq(file, pos + 1, pos'))
      /\ UNCHANGED <<disk, up, last, index, channel, from, size, sent, lastSent, ended,
                     heard, lastAtSub, appends, faults, told, cuts>>
  BY DEF ReadChunk
<1>2. /\ file \in Seq(Piece) /\ Len(file) \in Nat /\ Shaped(file)
      /\ text \in Seq(Piece) /\ Len(text) \in Nat
      /\ {from, size, pos, lastAtSub} \subseteq Nat /\ got \in Seq(Message) /\ dropped \subseteq Message
      /\ size <= Len(file) /\ pos <= Len(file)
      /\ \E off \in 0 .. pos :
            Handled(off) /\ off \in Nat /\ off <= pos /\ off + Len(text) = pos
  BY <1>1, Replaying
<1>3. PICK off \in 0 .. pos :
          Handled(off) /\ off \in Nat /\ off <= pos /\ off + Len(text) = pos
  BY <1>2
<1>4. pos' \in Nat /\ pos < pos' /\ pos' <= Len(file)
  BY ReadMoves
<1>5. Mirrors(text', file, off) /\ text' \in Seq(Piece) /\ Len(text') = pos' - off
  <2>1. Mirrors(text, file, off)
    BY <1>3 DEF Handled
  <2>2. /\ off + Len(text) < pos' /\ pos' \in Nat /\ pos' <= Len(file) /\ off \in Nat
        /\ text' = text \o Decoded(SubSeq(file, off + Len(text) + 1, pos'))
    BY <1>1, <1>3, <1>4
  <2>3. file \in Seq(Piece) /\ text \in Seq(Piece) /\ Shaped(file)
    BY <1>2
  <2>4. ReadOn(text', text, file, off, pos')
    BY <2>1, <2>2 DEF ReadOn
  <2>5. MirrorsUpTo(text', file, off, pos')
    BY <2>2, <2>3, <2>4, MirrorsMore
  <2>6. text' \in Seq(Piece) /\ Mirrors(text', file, off) /\ off + Len(text') = pos'
    BY <2>5 DEF MirrorsUpTo
  <2>7. Len(text') \in Nat
    BY <2>6, LenProperties
  <2> QED
    BY <2>2, <2>6, <2>7
<1>6. off \in 0 .. pos'
  BY <1>2, <1>3, <1>4
<1>7. Handled(off)'
  <2>1. file' = file /\ got' = got /\ lastAtSub' = lastAtSub /\ from' = from
    BY <1>1 DEF disk, heard
  <2>2. Sent' = Sent
    BY <1>1, <2>1 DEF Sent, Received, heard
  <2> QED
    BY <1>3, <1>5, <2>1, <2>2 DEF Handled, Got
<1>8. ReplayedOnceInOrder'
  BY <1>1 DEF IInv, ReplayedOnceInOrder, heard
<1>9. sent' \in Nat /\ sent' < ReplayBatch /\ lastSent' \in Nat /\ got' \in Seq(Message)
      /\ dropped' \subseteq Message /\ Sent \subseteq Sent'
  BY <1>1, <1>2 DEF IInv, TypeOK, Sent, Received, heard
<1> QED
  BY <1>1, <1>4, <1>5, <1>6, <1>7, <1>8, <1>9, ReplayGoesOn

\* A line that is not sent is not a complete line from fromSeq up.
LEMMA SkipStep ==
    ASSUME IInv, cuts < 2, NEW n \in 0 .. Len(text) - 1, SkipLine(n)
    PROVE  IInv'
<1> DEFINE line == SubSeq(text, 1, n)
<1>1. /\ sub = "run" /\ sub' = sub /\ FirstLine(text, line)
      /\ text' = SubSeq(text, n + 2, Len(text)) /\ ~Wanted(line)
      /\ UNCHANGED <<disk, up, last, index, channel, from, size, pos, sent, lastSent,
                     ended, heard, lastAtSub, appends, faults, told, cuts>>
  BY DEF SkipLine, Take
<1>2. /\ file \in Seq(Piece) /\ Len(file) \in Nat /\ Shaped(file)
      /\ text \in Seq(Piece) /\ Len(text) \in Nat
      /\ {from, size, pos, lastAtSub} \subseteq Nat /\ got \in Seq(Message)
      /\ pos <= Len(file)
      /\ \E off \in 0 .. pos :
            Handled(off) /\ off \in Nat /\ off <= pos /\ off + Len(text) = pos
  BY <1>1, Replaying
<1>3. PICK off \in 0 .. pos :
          Handled(off) /\ off \in Nat /\ off <= pos /\ off + Len(text) = pos
  BY <1>2
<1>4. Mirrors(text, file, off)
  BY <1>3 DEF Handled
<1>5. PICK o \in Nat : o = off + n + 1
  BY <1>2, <1>3
<1>6. /\ text' \in Seq(Piece) /\ Len(text') = Len(text) - (n + 1)
      /\ Mirrors(text', file, o) /\ file[o] = NL
      /\ \A p \in Offsets(file) : p < o => p <= off
  <2>1. /\ file \in Seq(Piece) /\ text \in Seq(Piece) /\ off \in Nat /\ Shaped(file)
        /\ FirstLine(text, SubSeq(text, 1, n))
    BY <1>1, <1>2, <1>3
  <2>2. /\ SubSeq(text, n + 2, Len(text)) \in Seq(Piece)
        /\ Len(SubSeq(text, n + 2, Len(text))) = Len(text) - (n + 1)
        /\ Mirrors(SubSeq(text, n + 2, Len(text)), file, off + n + 1)
        /\ file[off + n + 1] = NL
        /\ \A p \in Offsets(file) : p < off + n + 1 => p <= off
    BY <1>4, <2>1, LineDone
  <2> QED
    BY <1>1, <1>5, <2>2
<1>7. o \in 0 .. pos' /\ Len(text') = pos' - o /\ off < o
  <2>1. /\ n \in Nat /\ n < Len(text) /\ Len(text) \in Nat /\ off \in Nat
        /\ off + Len(text) = pos /\ pos' = pos
    BY <1>1, <1>2, <1>3
  <2> QED
    BY <1>5, <1>6, <2>1
<1>8. ~(off \in Terminated(file) /\ EntryAt(file, off).seq >= from)
  <2> SUFFICES ASSUME off \in Terminated(file), EntryAt(file, off).seq >= from
               PROVE  FALSE
    OBVIOUS
  <2>1. Parses(line) /\ line[1].entry = EntryAt(file, off)
    BY <1>1, <1>2, <1>3, <1>4, LineRead
  <2> QED
    BY <1>1, <2>1 DEF Wanted
<1>9. Handled(o)'
  <2>1. file' = file /\ got' = got /\ lastAtSub' = lastAtSub /\ from' = from
    BY <1>1 DEF disk, heard
  <2>2. Sent' = Sent
    BY <1>1, <2>1 DEF Sent, Received, heard
  <2>3. ASSUME NEW i \in DOMAIN got, NEW p \in Offsets(file), got[i].seq <= lastAtSub, p >= o
        PROVE  got[i].seq < EntryAt(file, p).seq
    <3>1. p \in Nat
      BY <1>2, OffsetMeans
    <3>2. p >= off
      BY <1>3, <1>7, <2>3, <3>1
    <3> QED
      BY <1>3, <2>3, <3>2 DEF Handled
  <2>4. ASSUME Whole(file), NEW p \in Terminated(file), p < o, EntryAt(file, p).seq >= from
        PROVE  Got(EntryAt(file, p))
    <3>1. p \in Offsets(file) /\ p \in Nat
      BY <1>2, TerminatedIs, OffsetMeans
    <3>2. p < off
      BY <1>3, <1>6, <1>8, <2>4, <3>1
    <3> QED
      BY <1>3, <2>4, <3>2 DEF Handled
  <2> QED
    BY <1>6, <1>7, <2>1, <2>2, <2>3, <2>4 DEF Handled, Got
<1>10. ReplayedOnceInOrder'
  BY <1>1 DEF IInv, ReplayedOnceInOrder, heard
<1>11. /\ sent' \in Nat /\ sent' < ReplayBatch /\ lastSent' \in Nat /\ got' \in Seq(Message)
       /\ dropped' \subseteq Message /\ Sent \subseteq Sent' /\ pos' \in Nat /\ pos' <= Len(file)
  BY <1>1, <1>2 DEF IInv, TypeOK, Sent, Received, heard
<1>12. sub' \in {"run", "yield"}
  BY <1>1
<1> QED
  BY <1>1, <1>6, <1>7, <1>9, <1>10, <1>11, <1>12, ReplayGoesOn

\* The entry sent is the tape's at that offset, behind all that were sent before it.
LEMMA SendStep ==
    ASSUME IInv, cuts < 2, NEW n \in 0 .. Len(text) - 1, SendLine(n)
    PROVE  IInv'
<1> DEFINE line == SubSeq(text, 1, n)
           x == Parsed(line)
<1>1. /\ sub = "run" /\ FirstLine(text, line)
      /\ text' = SubSeq(text, n + 2, Len(text)) /\ Wanted(line)
      /\ SendDc(x) /\ lastSent' = line[1].entry.seq
      /\ UNCHANGED <<disk, up, last, index, channel, from, size, pos, ended, lastAtSub,
                     appends, faults, told, cuts>>
  BY DEF SendLine, Send, Take
<1>2. sub' \in {"run", "yield"} /\ sent' \in Nat /\ sent' < ReplayBatch
  <2>1. sent \in Nat /\ ReplayBatch \in Nat /\ ReplayBatch > 0
    BY Counters DEF IInv
  <2>2. CASE sent + 1 >= ReplayBatch
    BY <2>1, <2>2 DEF SendLine
  <2>3. CASE ~(sent + 1 >= ReplayBatch)
    BY <1>1, <2>1, <2>3 DEF SendLine
  <2> QED
    BY <2>2, <2>3
<1>3. /\ file \in Seq(Piece) /\ Len(file) \in Nat /\ Shaped(file) /\ Ordered(file)
      /\ text \in Seq(Piece) /\ Len(text) \in Nat
      /\ from \in Nat /\ size \in Nat /\ pos \in Nat /\ lastAtSub \in Nat
      /\ got \in Seq(Message) /\ dropped \subseteq Message /\ pos <= Len(file)
      /\ \E off \in 0 .. pos :
            Handled(off) /\ off \in Nat /\ off <= pos /\ off + Len(text) = pos
  BY <1>1, Replaying
<1>4. PICK off \in 0 .. pos :
          Handled(off) /\ off \in Nat /\ off <= pos /\ off + Len(text) = pos
  BY <1>3
<1>5. Mirrors(text, file, off) /\ (off = 0 \/ file[off] = NL)
  BY <1>4 DEF Handled
<1>6. PICK o \in Nat : o = off + n + 1
  BY <1>3, <1>4
<1>7. /\ text' \in Seq(Piece) /\ Len(text') = Len(text) - (n + 1)
      /\ Mirrors(text', file, o) /\ file[o] = NL
      /\ \A p \in Offsets(file) : p < o => p <= off
  <2>1. /\ SubSeq(text, n + 2, Len(text)) \in Seq(Piece)
        /\ Len(SubSeq(text, n + 2, Len(text))) = Len(text) - (n + 1)
        /\ Mirrors(SubSeq(text, n + 2, Len(text)), file, off + n + 1)
        /\ file[off + n + 1] = NL
        /\ \A p \in Offsets(file) : p < off + n + 1 => p <= off
    BY <1>1, <1>3, <1>4, <1>5, LineDone
  <2> QED
    BY <1>1, <1>6, <2>1
<1>8. o \in 0 .. pos' /\ Len(text') = pos' - o /\ off < o /\ pos' = pos
  <2>1. /\ n \in Nat /\ n < Len(text) /\ Len(text) \in Nat /\ off \in Nat
        /\ off + Len(text) = pos /\ pos' = pos
    BY <1>1, <1>3, <1>4
  <2> QED
    BY <1>6, <1>7, <2>1
<1> DEFINE e == line[1].entry
<1>9. /\ e \in Entry /\ off \in Terminated(file) /\ EntryAt(file, off) = e
      /\ x = e \/ (e.wide /\ x = Garbled(e))
  <2>1. Parses(SubSeq(text, 1, n)) /\ FirstLine(text, SubSeq(text, 1, n))
    BY <1>1 DEF Wanted
  <2>2. file \in Seq(Piece) /\ text \in Seq(Piece) /\ off \in Nat /\ Shaped(file)
    BY <1>3, <1>4
  <2>3. LineNext(text, file, off, n)
    BY <1>5, <2>1 DEF LineNext
  <2>4. IsComplete(SubSeq(text, 1, n), file, off)
    BY <2>1, <2>2, <2>3, LineSent
  <2> QED
    BY <2>4 DEF IsComplete
<1>10. /\ x \in Message /\ x.seq = e.seq /\ e.seq \in Nat /\ e.seq >= from
       /\ off \in Offsets(file)
  <2>1. x \in Message /\ x.seq = e.seq
    BY <1>9, SentFacts
  <2>2. e.seq \in Nat /\ e.seq >= from
    BY <1>1, <1>9 DEF Wanted, Entry
  <2>3. off \in Offsets(file)
    BY <1>3, <1>9, TerminatedIs
  <2> QED
    BY <2>1, <2>2, <2>3
<1> HIDE DEF x, line, e
<1>11. /\ got' \in Seq(Message) /\ dropped' \subseteq Message
       /\ \A i \in DOMAIN got' : (i \in DOMAIN got /\ got'[i] = got[i]) \/ got'[i] = x
       /\ Sent' = Sent \cup {x}
       /\ \A d : Got(d) => Got(d)'
  BY <1>1, <1>3, <1>10, SentGrows
<1>12. file' = file /\ lastAtSub' = lastAtSub /\ from' = from
  BY <1>1 DEF disk
<1>13. \A i \in DOMAIN got : got[i].seq <= lastAtSub => got[i].seq < e.seq
  BY <1>3, <1>4, <1>9, <1>10 DEF Handled
<1>14. ASSUME NEW i \in DOMAIN got', NEW p \in Offsets(file), got'[i].seq <= lastAtSub, p >= o
       PROVE  got'[i].seq < EntryAt(file, p).seq
  <2>1. p \in Nat /\ p >= off /\ off < p
    <3>1. p \in Nat
      BY <1>3, OffsetMeans
    <3> QED
      BY <1>4, <1>6, <1>8, <1>14, <3>1
  <2>2. CASE i \in DOMAIN got /\ got'[i] = got[i]
    BY <1>4, <1>14, <2>1, <2>2 DEF Handled
  <2>3. CASE got'[i] = x
    <3>2. EntryAt(file, off).seq < EntryAt(file, p).seq
      BY <1>3, <1>10, <2>1 DEF Ordered
    <3> QED
      BY <1>9, <1>10, <2>3, <3>2
  <2> QED
    BY <1>11, <2>2, <2>3
<1>15. ASSUME Whole(file), NEW p \in Terminated(file), p < o, EntryAt(file, p).seq >= from
       PROVE  Got(EntryAt(file, p))'
  <2>1. p \in Offsets(file) /\ p \in Nat /\ p <= off
    BY <1>3, <1>7, <1>15, TerminatedIs, OffsetMeans
  <2>2. CASE p < off
    <3>1. Got(EntryAt(file, p))
      BY <1>4, <1>15, <2>2 DEF Handled
    <3> QED
      BY <1>11, <1>12, <3>1 DEF Got
  <2>3. CASE p = off
    <3>1. EntryAt(file, p) = e /\ x \in Sent'
      BY <1>9, <1>11, <2>3
    <3> QED
      BY <1>9, <1>12, <3>1 DEF Got
  <2> QED
    BY <1>4, <2>1, <2>2, <2>3
<1>16. Handled(o)'
  BY <1>7, <1>8, <1>12, <1>14, <1>15 DEF Handled
<1>17. ReplayedOnceInOrder'
  <2>1. ReplayedOnceInOrder
    BY DEF IInv
  <2>2. x.seq <= lastAtSub => \A i \in DOMAIN got : got[i].seq <= lastAtSub => got[i].seq < x.seq
    BY <1>10, <1>13
  <2> QED
    BY <1>1, <1>3, <1>10, <1>12, <2>1, <2>2, OrderKept
<1>18. lastSent' \in Nat /\ Sent \subseteq Sent' /\ pos' \in Nat /\ pos' <= Len(file)
  BY <1>1, <1>3, <1>8, <1>10, <1>11 DEF e
<1> QED
  BY <1>1, <1>2, <1>7, <1>8, <1>11, <1>16, <1>17, <1>18, ReplayGoesOn

\* No more lines, and the tape read as far as the size it had: what is not handled
\* begins at that size, where the first of the later writes begins.
LEMMA ReadToTheEnd ==
    ASSUME NEW f \in Seq(Piece), NEW t \in Seq(Piece), NEW off \in Nat, NEW sz \in Nat,
           Shaped(f), Mirrors(t, f, off), \A i \in 1 .. Len(t) : t[i] # NL,
           sz <= off + Len(t), sz < Len(f) => f[sz + 1].piece = 1,
           NEW p \in Terminated(f), p >= off
    PROVE  p >= sz
<1> DEFINE w == Width(EntryAt(f, p))
           e == EntryAt(f, p)
<1>1. p \in Offsets(f) /\ p + w < Len(f)
  BY TerminatedIs
<1>2. /\ p \in Nat /\ Len(f) \in Nat /\ w \in 2 .. 3
      /\ \A i \in 1 .. w : f[p + i] = [entry |-> e, piece |-> i]
      /\ p + w # Len(f) => f[p + w + 1] = NL
  BY <1>1, OffsetMeans
<1> HIDE DEF w, e
<1>3. f[p + w + 1] = NL /\ Len(t) \in Nat
  BY <1>1, <1>2, LenProperties
<1>4. ~(p + w + 1 <= off + Len(t))
  <2> SUFFICES ASSUME p + w + 1 <= off + Len(t)
               PROVE  FALSE
    OBVIOUS
  <2>1. PICK i \in 1 .. Len(t) : off + i = p + w + 1
    <3>1. p + w + 1 - off \in 1 .. Len(t) /\ off + (p + w + 1 - off) = p + w + 1
      BY <1>2, <1>3
    <3> QED
      BY <3>1
  <2>2. t[i] = NL
    BY <1>3, <2>1, MirrorFacts
  <2> QED
    BY <2>2
<1> SUFFICES ASSUME p < sz
             PROVE  FALSE
  BY <1>2
<1>5. PICK k \in Nat : sz + 1 = p + k
  <2>1. sz + 1 - p \in Nat /\ sz + 1 = p + (sz + 1 - p)
    BY <1>2
  <2> QED
    BY <2>1
<1>6. k > 1 /\ k <= w + 1 /\ sz < Len(f)
  BY <1>1, <1>2, <1>3, <1>4, <1>5
<1>7. f[p + k].piece = 1
  BY <1>5, <1>6
<1>8. CASE k \in 1 .. w
  <2>1. f[p + k] = [entry |-> e, piece |-> k]
    BY <1>2, <1>8
  <2>2. f[p + k].piece = k
    BY <2>1
  <2> QED
    BY <1>6, <1>7, <2>2
<1>9. CASE k = w + 1
  <2>1. p + k = p + w + 1
    BY <1>2, <1>9
  <2> QED
    BY <1>3, <1>7, <2>1 DEF NL
<1> QED
  BY <1>2, <1>6, <1>8, <1>9

\* lastSeq of TAPE_END, if it is sent.
LEMMA EndIsNumber ==
    ASSUME IInv
    PROVE  (IF dcOpen THEN Max({lastSent, last.seq}) ELSE -1) \in Nat \cup {-1}
<1>1. lastSent \in Nat /\ last.seq \in Nat
  BY DEF IInv, TypeOK, Entry
<1> DEFINE S == {lastSent, last.seq}
<1>2. \E x \in S : \A y \in S : x >= y
  BY <1>1
<1>3. Max(S) \in S
  BY <1>2 DEF Max
<1> QED
  BY <1>1, <1>3

\* At the end the lines before size have been handled, and the others broadcast.
LEMMA FinishStep ==
    ASSUME IInv, cuts < 2, Finish
    PROVE  IInv'
<1>1. /\ sub = "run" /\ sub' = "done" /\ NoLine /\ pos >= size
      /\ ended' = IF dcOpen THEN Max({lastSent, last.seq}) ELSE -1
      /\ UNCHANGED <<disk, up, last, index, channel, from, size, pos, text, sent, lastSent,
                     heard, lastAtSub, appends, faults, told, cuts>>
  BY DEF Finish
<1>2. /\ file \in Seq(Piece) /\ Len(file) \in Nat /\ Shaped(file)
      /\ text \in Seq(Piece) /\ Len(text) \in Nat
      /\ from \in Nat /\ size \in Nat /\ pos \in Nat
      /\ size < Len(file) => file[size + 1].piece = 1
      /\ \A p \in Terminated(file) : p >= size => EntryAt(file, p) \in Sent
      /\ \E off \in 0 .. pos :
            Handled(off) /\ off \in Nat /\ off <= pos /\ off + Len(text) = pos
  BY <1>1, Replaying
<1>3. PICK off \in 0 .. pos :
          Handled(off) /\ off \in Nat /\ off <= pos /\ off + Len(text) = pos
  BY <1>2
<1>4. /\ file' = file /\ from' = from
      /\ UNCHANGED <<savedIndex, oldIndexes, wantsTape, dcOpen, got, dropped>>
  BY <1>1 DEF disk, saved, channel, heard
<1>5. ended' \in Nat \cup {-1}
  BY <1>1, EndIsNumber
<1>6. Shaped(file') /\ OrderInv' /\ LastInv' /\ LossInv' /\ IndexInv' /\ UnendedInv'
  BY <1>1, StoreKept
<1>7. TypeOK'
  BY <1>1, <1>4, <1>5 DEF IInv, TypeOK
<1>8. SessionInv' /\ ReplayInv' /\ ReplayedOnceInOrder'
  BY <1>1, <1>4 DEF IInv, SessionInv, ReplayInv, ReplayedOnceInOrder
<1>9. DoneInv'
  <2> SUFFICES ASSUME Whole(file), NEW p \in Terminated(file), EntryAt(file, p).seq >= from
               PROVE  Got(EntryAt(file, p))
    BY <1>1, <1>4 DEF DoneInv, Got, Sent, Received
  <2>1. p \in Nat
    BY <1>2, TerminatedIs, OffsetMeans
  <2>2. CASE p < off
    BY <1>3, <2>2 DEF Handled
  <2>3. CASE p >= off
    <3>1. Mirrors(text, file, off)
      BY <1>3 DEF Handled
    <3>2. \A i \in 1 .. Len(text) : text[i] # NL
      BY <1>1, <1>2, LenProperties DEF NoLine
    <3>3. size <= off + Len(text) /\ off \in Nat
      BY <1>1, <1>2, <1>3
    <3>4. p >= size
      BY <1>2, <2>3, <3>1, <3>2, <3>3, ReadToTheEnd
    <3> QED
      BY <1>2, <3>4 DEF Got
  <2> QED
    BY <1>3, <2>1, <2>2, <2>3
<1> QED
  BY <1>4, <1>6, <1>7, <1>8, <1>9 DEF IInv

\* After the second power loss a replay may start anywhere: it still reads, sends and
\* ends as its variables' types and the size it took demand.
LEMMA StaleStep ==
    ASSUME IInv, ~(cuts < 2),
           \/ ReadChunk
           \/ \E n \in 0 .. Len(text) - 1 : SkipLine(n) \/ SendLine(n)
           \/ Finish
    PROVE  IInv'
<1>1. /\ text \in Seq(Piece) /\ file \in Seq(Piece) /\ Len(file) \in Nat /\ Len(text) \in Nat
      /\ got \in Seq(Message) /\ dropped \subseteq Message /\ {pos, sent, lastSent} \subseteq Nat
      /\ sent < ReplayBatch /\ ReplayBatch \in Nat
  BY LenProperties, Counters DEF IInv, TypeOK
<1>2. CASE ReadChunk
  <2>1. /\ sub = "run" /\ text' = text \o Decoded(SubSeq(file, pos + 1, pos'))
        /\ UNCHANGED <<disk, up, last, index, channel, sub, from, size, sent, lastSent, ended,
                       heard, lastAtSub, appends, faults, told, cuts>>
    BY <1>2 DEF ReadChunk
  <2>2. pos' \in Nat /\ pos < pos' /\ pos' <= Len(file)
    BY <1>2, ReadMoves
  <2>3. text' \in Seq(Piece)
    BY <1>1, <2>1, <2>2, DecodedPart
  <2>4. got' = got /\ dropped' = dropped /\ Sent' = Sent
    BY <2>1 DEF heard, Sent, Received
  <2>5. ReplayedOnceInOrder'
    BY <2>1 DEF ReplayedOnceInOrder
  <2> QED
    BY <1>1, <2>1, <2>2, <2>3, <2>4, <2>5, ReplayGoesOn
<1>3. ASSUME NEW n \in 0 .. Len(text) - 1, SkipLine(n)
      PROVE  IInv'
  <2>1. /\ sub = "run" /\ text' = SubSeq(text, n + 2, Len(text))
        /\ UNCHANGED <<disk, up, last, index, channel, sub, from, size, pos, sent, lastSent,
                       ended, heard, lastAtSub, appends, faults, told, cuts>>
    BY <1>3 DEF SkipLine, Take
  <2>2. text' \in Seq(Piece)
    BY <1>1, <2>1, RestOfText
  <2>3. got' = got /\ dropped' = dropped /\ Sent' = Sent
    BY <2>1 DEF heard, Sent, Received
  <2>4. ReplayedOnceInOrder'
    BY <2>1 DEF ReplayedOnceInOrder
  <2> QED
    BY <1>1, <2>1, <2>2, <2>3, <2>4, ReplayGoesOn
<1>4. ASSUME NEW n \in 0 .. Len(text) - 1, SendLine(n)
      PROVE  IInv'
  <2> DEFINE line == SubSeq(text, 1, n)
             x == Parsed(line)
  <2>1. /\ sub = "run" /\ FirstLine(text, line) /\ text' = SubSeq(text, n + 2, Len(text))
        /\ Parses(line) /\ SendDc(x) /\ lastSent' = line[1].entry.seq
        /\ UNCHANGED <<disk, up, last, index, channel, from, size, pos, ended, lastAtSub,
                       appends, faults, told, cuts>>
        /\ sub' \in {"run", "yield"}
        /\ sent' = 0 \/ (sent' = sent + 1 /\ ~(sent + 1 >= ReplayBatch))
    BY <1>4 DEF SendLine, Send, Take, Wanted
  <2>2. text' \in Seq(Piece)
    BY <1>1, <2>1, RestOfText
  <2>3. line[1].entry \in Entry
    <3>1. n \in 0 .. Len(text)
      BY <1>1
    <3>2. line \in Seq(Piece)
      BY <1>1, <3>1, PrefixFacts
    <3>3. line # <<>>
      BY <2>1 DEF Parses
    <3> HIDE DEF line
    <3>4. line[1] \in Piece
      BY <3>2, <3>3, EmptySeq, LenProperties, ElementOfSeq
    <3> QED
      BY <3>4 DEF Piece
  <2>4. x \in Message /\ lastSent' \in Nat
    <3>1. x = line[1].entry \/ x = Garbled(line[1].entry)
      BY DEF Parsed
    <3>2. line[1].entry.seq \in Nat
      BY <2>3 DEF Entry
    <3> HIDE DEF x, line
    <3> QED
      BY <2>1, <2>3, <3>1, <3>2, SentFacts
  <2> HIDE DEF x, line
  <2>5. got' \in Seq(Message) /\ dropped' \subseteq Message /\ Sent \subseteq Sent'
    BY <1>1, <2>1, <2>4, SentGrows
  <2>6. ReplayedOnceInOrder'
    BY <2>1 DEF ReplayedOnceInOrder
  <2>7. sent' \in Nat /\ sent' < ReplayBatch /\ pos' \in Nat
    <3>1. 0 < ReplayBatch
      BY Counters DEF IInv
    <3> QED
      BY <1>1, <2>1, <3>1
  <2> QED
    BY <2>1, <2>2, <2>4, <2>5, <2>6, <2>7, ReplayGoesOn
<1>5. CASE Finish
  <2>1. /\ sub = "run" /\ sub' = "done"
        /\ ended' = IF dcOpen THEN Max({lastSent, last.seq}) ELSE -1
        /\ UNCHANGED <<disk, up, last, index, channel, from, size, pos, text, sent, lastSent,
                       heard, lastAtSub, appends, faults, told, cuts>>
    BY <1>5 DEF Finish
  <2>2. Shaped(file') /\ OrderInv' /\ LastInv' /\ LossInv' /\ IndexInv' /\ UnendedInv'
    BY <2>1, StoreKept
  <2>3. file' = file /\ UNCHANGED <<savedIndex, oldIndexes, wantsTape, dcOpen, got, dropped>>
    BY <2>1 DEF disk, saved, channel, heard
  <2>4. TypeOK'
    BY <2>1, <2>3, EndIsNumber DEF IInv, TypeOK
  <2>5. SessionInv' /\ ReplayInv' /\ DoneInv' /\ ReplayedOnceInOrder'
    BY <2>1, <2>3 DEF IInv, SessionInv, ReplayInv, DoneInv, ReplayedOnceInOrder
  <2> QED
    BY <2>2, <2>3, <2>4, <2>5 DEF IInv
<1> QED
  BY <1>2, <1>3, <1>4, <1>5

\* A channel that closes or opens leaves what was sent and what is left to send.
LEMMA ChannelStep ==
    ASSUME IInv, ChannelLost \/ ChannelBack
    PROVE  IInv'
<1>1. /\ dcOpen' \in BOOLEAN
      /\ UNCHANGED <<disk, up, last, index, wantsTape, replay, heard, lastAtSub,
                     appends, faults, told, cuts>>
  BY DEF ChannelLost, ChannelBack
<1>2. UNCHANGED <<file, savedIndex, oldIndexes, wantsTape, sub, from, size, pos, text, sent,
                  lastSent, ended, got, dropped, lastAtSub>>
  BY <1>1 DEF disk, saved, replay, heard
<1>3. Shaped(file') /\ OrderInv' /\ LastInv' /\ LossInv' /\ IndexInv' /\ UnendedInv'
  BY <1>1, <1>2, StoreKept
<1>4. TypeOK'
  BY <1>1, <1>2 DEF IInv, TypeOK
<1>5. SessionInv' /\ DoneInv' /\ ReplayedOnceInOrder'
  BY <1>1, <1>2 DEF IInv, SessionInv, NoReplay, DoneInv, ReplayedOnceInOrder, Got, Sent, Received
<1>6. ReplayInv'
  BY <1>1, <1>2 DEF IInv, ReplayInv, Handled, Got, Sent, Received
<1> QED
  BY <1>2, <1>3, <1>4, <1>5, <1>6 DEF IInv

\* Nothing has been sent yet, so a replay may start wherever the index says.
LEMMA HandledAtFirst ==
    ASSUME IInv, sub = "none", up, NEW f \in FromSeqs,
           file' = file, from' = f, text' = text, got' = got,
           pos' = FindStartOffset(BuildIndex(file, Stride), Stride, f)
    PROVE  pos' \in 0 .. Len(file) /\ \E off \in 0 .. pos' : Handled(off)'
<1>1. /\ file \in Seq(Piece) /\ Len(file) \in Nat /\ Ordered(file)
      /\ f \in Nat \ {0}
  <2>1. file \in Seq(Piece) /\ Len(file) \in Nat
    BY LenProperties DEF IInv, TypeOK
  <2> QED
    BY <2>1, WholePrefix, FeedAssumption DEF IInv, OrderInv
<1>2. PICK off : off = FindStartOffset(BuildIndex(file, Stride), Stride, f)
  OBVIOUS
<1>3. /\ off \in 0 .. Len(file)
      /\ off = 0 \/ file[off] = NL
      /\ Whole(file) => \A p \in Terminated(file) : p < off => EntryAt(file, p).seq < f
  BY <1>1, <1>2, StartFacts
<1>4. pos' = off /\ off \in 0 .. pos'
  BY <1>1, <1>2, <1>3
<1>5. text' = <<>> /\ got' = <<>> /\ Len(<<>>) = 0
  BY NoFile DEF IInv, SessionInv, NoReplay
<1>6. Len(text') = pos' - off /\ Mirrors(text', file, off)
  BY <1>1, <1>3, <1>4, <1>5 DEF Mirrors
<1>7. ASSUME Whole(file), NEW p \in Terminated(file), p < off, EntryAt(file, p).seq >= f
      PROVE  FALSE
  <2>1. EntryAt(file, p).seq \in Nat
    BY <1>1, TerminatedIs, OffsetMeans DEF Entry
  <2> QED
    BY <1>1, <1>3, <1>7, <2>1
<1>8. DOMAIN got' = {}
  BY <1>5
<1>9. Handled(off)'
  BY <1>3, <1>6, <1>7, <1>8 DEF Handled
<1> QED
  BY <1>3, <1>4, <1>9

\* Whatever the index holds, findStartOffset finds a number in it.
LEMMA StartIsOffset ==
    ASSUME NEW i \in Index, NEW f
    PROVE  FindStartOffset(i, Stride, f) \in Nat
<1> DEFINE found == {off \in i.offsets :
                        Cardinality(Before(i.offsets, off)) = (f - 1) \div Stride}
<1>1. found \subseteq Nat
  BY DEF Index
<1>2. FindStartOffset(i, Stride, f) \in found \cup {0}
  BY DEF FindStartOffset
<1> QED
  BY <1>1, <1>2

\* TAPE_SUB: the index says where to start, and no wanted entry is before that.
LEMMA SubscribeStep ==
    ASSUME IInv, NEW f \in FromSeqs, Subscribe(f)
    PROVE  IInv'
<1>1. /\ up /\ sub = "none" /\ wantsTape' = TRUE /\ lastAtSub' = last.seq /\ from' = f
      /\ size' = Len(file)
      /\ UNCHANGED <<file, up, last, text, sent, lastSent, dcOpen, got, dropped,
                     appends, faults, told, cuts>>
  BY DEF Subscribe, heard
<1>2. /\ f \in Nat /\ last.seq \in Nat /\ file \in Seq(Piece) /\ Len(file) \in Nat /\ TypeOK
      /\ text = <<>> /\ got = <<>> /\ pos = 0 /\ ended = -1
  BY <1>1, FeedAssumption, LenProperties DEF IInv, TypeOK, Entry, SessionInv, NoReplay
<1>3. Shaped(file') /\ OrderInv' /\ LastInv' /\ LossInv' /\ UnendedInv'
  BY <1>1 DEF IInv, OrderInv, LastInv, LossInv, UnendedInv
<1>4. SessionInv' <=> sub' # "none"
  <2>1. lastAtSub' <= last'.seq /\ size' <= Len(file')
    BY <1>1, <1>2
  <2> QED
    BY <1>1, <2>1 DEF SessionInv
<1>5. ReplayedOnceInOrder'
  BY <1>1, <1>2 DEF ReplayedOnceInOrder
<1>6. CASE file = <<>>
  <2>1. /\ sub' = "done" /\ ended' = last.seq
        /\ UNCHANGED <<savedIndex, oldIndexes, index, pos>>
    BY <1>6 DEF Subscribe, saved
  <2>2. TypeOK'
    BY <1>1, <1>2, <2>1 DEF TypeOK
  <2>3. IndexInv'
    BY <1>1, <2>1 DEF IInv, IndexInv
  <2>4. ReplayInv' /\ DoneInv'
    <3>1. Terminated(file') = {}
      BY <1>1, <1>6, NoFile
    <3> QED
      BY <2>1, <3>1 DEF ReplayInv, DoneInv
  <2> QED
    BY <1>3, <1>4, <1>5, <2>1, <2>2, <2>3, <2>4 DEF IInv
<1>7. CASE file # <<>>
  <2>1. /\ sub' = "run" /\ ended' = ended
        /\ IF index = NoIndex THEN LoadOrBuildIndex ELSE UNCHANGED <<savedIndex, oldIndexes, index>>
        /\ pos' = FindStartOffset(index', Stride, f)
    BY <1>7 DEF Subscribe, saved
  <2>2. /\ index' \in Index /\ savedIndex' \in Index /\ oldIndexes' \subseteq Index \cup {NoIndex}
        /\ cuts < 2 => index' = BuildIndex(file, Stride)
        /\ IndexInv'
    <3>1. CASE index = NoIndex
      BY <1>1, <2>1, <3>1, Indexed
    <3>2. CASE index # NoIndex
      <4>1. UNCHANGED <<savedIndex, oldIndexes, index>>
        BY <2>1, <3>2
      <4>2. up /\ savedIndex # NoIndex /\ (cuts < 2 => index = BuildIndex(file, Stride))
        BY <1>1, <3>2 DEF IInv, IndexInv
      <4> QED
        BY <1>1, <1>2, <3>2, <4>1, <4>2 DEF IInv, IndexInv, TypeOK
    <3> QED
      BY <3>1, <3>2
  <2>3. /\ pos' \in Nat
        /\ cuts < 2 => pos' \in 0 .. Len(file) /\ \E off \in 0 .. pos' : Handled(off)'
    <3>1. pos' \in Nat
      BY <2>1, <2>2, StartIsOffset
    <3>2. ASSUME cuts < 2
          PROVE  pos' \in 0 .. Len(file) /\ \E off \in 0 .. pos' : Handled(off)'
      <4>1. pos' = FindStartOffset(BuildIndex(file, Stride), Stride, f)
        BY <2>1, <2>2, <3>2
      <4> QED
        BY <1>1, <4>1, HandledAtFirst
    <3> QED
      BY <3>1, <3>2
  <2>4. TypeOK'
    BY <1>1, <1>2, <2>1, <2>2, <2>3 DEF TypeOK
  <2>5. ReplayInv'
    <3>1. (cuts < 2 => pos' <= Len(file')) /\ ~(size' < Len(file'))
      BY <1>1, <1>2, <2>3
    <3>2. ASSUME NEW p \in Terminated(file), p >= Len(file)
          PROVE  FALSE
      BY <1>2, <3>2, TerminatedIs, OffsetMeans
    <3> QED
      BY <1>1, <2>3, <3>1, <3>2 DEF ReplayInv
  <2>6. DoneInv'
    BY <2>1 DEF DoneInv
  <2> QED
    BY <1>3, <1>4, <1>5, <2>1, <2>2, <2>4, <2>5, <2>6 DEF IInv
<1> QED
  BY <1>6, <1>7

----------------------------------------------------------------------------
(* The theorems. *)

\* There is no tape yet, and nobody asks for it.
LEMMA InitInv == Init => IInv
<1> SUFFICES ASSUME Init
             PROVE  IInv
  OBVIOUS
<1>1. /\ file = <<>> /\ savedIndex = NoIndex /\ up = FALSE /\ last = Genesis /\ index = NoIndex
      /\ wantsTape = FALSE /\ NoReplay /\ appends = 0 /\ faults = 0 /\ told = {} /\ got = <<>>
      /\ lastAtSub = 0 /\ cuts = 0 /\ oldIndexes = {NoIndex} /\ dcOpen = TRUE /\ dropped = {}
  BY DEF Init
<1>2. TypeOK
  <2>1. 0 < ReplayBatch /\ 0 \in 0 .. MaxAppends /\ 0 \in 0 .. MaxFaults
    BY FeedAssumption
  <2> QED
    <3>1. /\ file \in Seq(Piece) /\ text \in Seq(Piece) /\ last \in Entry
          /\ told \subseteq Entry /\ got \in Seq(Message) /\ dropped \subseteq Message
          /\ oldIndexes \subseteq Index \cup {NoIndex}
      BY <1>1, NoFile, NewlineFacts, EmptySeq DEF NoReplay
    <3>2. /\ savedIndex \in Index \cup {NoIndex} /\ index \in Index \cup {NoIndex}
          /\ up \in BOOLEAN /\ wantsTape \in BOOLEAN /\ dcOpen \in BOOLEAN /\ cuts \in Nat
          /\ sub \in {"none", "run", "yield", "done"}
      BY <1>1 DEF NoReplay
    <3>3. /\ {from, size, pos, sent, lastSent} \subseteq Nat /\ sent < ReplayBatch
          /\ ended \in Nat \cup {-1} /\ lastAtSub \in Nat
          /\ appends \in 0 .. MaxAppends /\ faults \in 0 .. MaxFaults
      BY <1>1, <2>1 DEF NoReplay
    <3> QED
      BY <3>1, <3>2, <3>3 DEF TypeOK
<1>3. Shaped(file) /\ LastInv /\ IndexInv /\ UnendedInv
  BY <1>1 DEF Shaped, LastInv, IndexInv, UnendedInv, Clean, NoReplay
<1>4. OrderInv
  <2> SUFFICES ASSUME NEW n \in 0 .. Len(file)
               PROVE  Ordered(SubSeq(file, 1, n))
    BY DEF OrderInv
  <2>1. n = 0
    BY <1>1, NoFile
  <2>2. Offsets(SubSeq(file, 1, n)) = {}
    BY <1>1, <2>1, NoFile
  <2> QED
    BY <2>2 DEF Ordered
<1>5. LossInv
  <2>1. told \ Complete(file) = {}
    BY <1>1
  <2> QED
    BY <1>1, <2>1, NoFile, FS_EmptySet DEF LossInv
<1>6. SessionInv /\ ReplayInv /\ DoneInv /\ ReplayedOnceInOrder
  BY <1>1 DEF NoReplay, SessionInv, ReplayInv, DoneInv, ReplayedOnceInOrder
<1> QED
  BY <1>2, <1>3, <1>4, <1>5, <1>6 DEF IInv

\* Every step preserves the invariant.
LEMMA StepInv ==
    ASSUME IInv, [Next]_vars
    PROVE  IInv'
<1>1. CASE Start
  BY <1>1, StartStep
<1>2. CASE AppendOrder
  BY <1>2, AppendStep
<1>3. CASE \E k \in DOMAIN Written(NextEntry) : TornAppend(k)
  BY <1>3, TornStep
<1>4. CASE Kill
  BY <1>4, KillStep
<1>5. CASE PowerLoss
  BY <1>5, PowerLossStep
<1>6. CASE Disconnect
  BY <1>6, DisconnectStep
<1>7. CASE \E f \in FromSeqs : Subscribe(f)
  BY <1>7, SubscribeStep
<1>8. CASE ReadChunk
  BY <1>8, ReadStep, StaleStep
<1>9. CASE \E n \in 0 .. Len(text) - 1 : SkipLine(n) \/ SendLine(n)
  <2>1. CASE cuts < 2
    BY <1>9, <2>1, SkipStep, SendStep
  <2>2. CASE ~(cuts < 2)
    BY <1>9, <2>2, StaleStep
  <2> QED
    BY <2>1, <2>2
<1>10. CASE Resume
  BY <1>10, ResumeStep
<1>11. CASE Finish
  BY <1>11, FinishStep, StaleStep
<1>12. CASE UNCHANGED vars
  <2>1. UNCHANGED <<file, savedIndex, oldIndexes, up, last, index, wantsTape, dcOpen, sub, from, size,
                    pos, text, sent, lastSent, ended, got, dropped, lastAtSub, appends, faults, told, cuts>>
    BY <1>12 DEF vars, disk, saved, session, channel, heard, replay
  <2>2. TypeOK'
    BY <2>1 DEF IInv, TypeOK
  <2>3. Shaped(file') /\ OrderInv' /\ LastInv' /\ LossInv' /\ IndexInv' /\ UnendedInv'
    BY <2>1 DEF IInv, OrderInv, LastInv, LossInv, IndexInv, UnendedInv
  <2>4. SessionInv' /\ DoneInv' /\ ReplayedOnceInOrder'
    BY <2>1 DEF IInv, SessionInv, NoReplay, DoneInv, ReplayedOnceInOrder, Got, Sent, Received
  <2>5. ReplayInv'
    BY <2>1 DEF IInv, ReplayInv, Handled, Got, Sent, Received
  <2> QED
    BY <2>2, <2>3, <2>4, <2>5 DEF IInv
<1>13. CASE ChannelLost \/ ChannelBack
  BY <1>13, ChannelStep
<1> QED
  BY <1>1, <1>2, <1>3, <1>4, <1>5, <1>6, <1>7, <1>8, <1>9, <1>10, <1>11, <1>12, <1>13
     DEF Next, Replay

\* The invariant holds at every step.
THEOREM InvariantHolds == Spec => []IInv
BY InitInv, StepInv, PTL DEF Spec

\* Every variable keeps its type.
THEOREM TypeCorrect == Spec => []TypeOK
<1>1. IInv => TypeOK
  BY DEF IInv
<1> QED
  BY <1>1, InvariantHolds, PTL

\* The lines of the tape stand in the order of their numbers and are linked where the
\* numbers follow, whatever append, torn writes and power losses left (tape.ts append
\* numbers and chains from what loadFromDisk found).
THEOREM OrderHolds == Spec => []BreaksShowAsGaps
<1>1. IInv => BreaksShowAsGaps
  <2> SUFFICES ASSUME IInv
               PROVE  BreaksShowAsGaps
    OBVIOUS
  <2>1. file \in Seq(Piece)
    BY DEF IInv, TypeOK
  <2>2. Ordered(file)
    BY <2>1, WholePrefix DEF IInv, OrderInv
  <2> QED
    BY <2>2 DEF BreaksShowAsGaps, Ordered
<1> QED
  BY <1>1, InvariantHolds, PTL

\* Of the entries append has returned, no more are lost than writes were torn, while
\* the power lasts (append's missing fsync, and the line it joins to a torn one).
THEOREM FewAreLost == Spec => []LossBounded
<1>1. IInv => LossBounded
  <2> SUFFICES ASSUME IInv, cuts = 0
               PROVE  Cardinality(told \ Entries(file)) <= faults
    BY DEF LossBounded
  <2>1. IsFiniteSet(told \ Complete(file))
    BY FS_Subset DEF IInv, LossInv
  <2>2. told \ Entries(file) \in SUBSET (told \ Complete(file))
    <3>1. Complete(file) \subseteq Entries(file)
      BY DEF Complete, Entries, Terminated
    <3> QED
      BY <3>1
  <2>3. /\ Cardinality(told \ Entries(file)) <= Cardinality(told \ Complete(file))
        /\ IsFiniteSet(told \ Entries(file))
    BY <2>1, <2>2, FS_Subset
  <2>4. /\ Cardinality(told \ Entries(file)) \in Nat
        /\ Cardinality(told \ Complete(file)) \in Nat
    BY <2>1, <2>3, FS_CardinalityType
  <2>5. Cardinality(told \ Complete(file)) + (IF Clean(file) THEN 0 ELSE 1) <= faults
    BY DEF IInv, LossInv
  <2>6. faults \in Nat
    BY FeedAssumption DEF IInv, TypeOK
  <2> QED
    BY <2>3, <2>4, <2>5, <2>6
<1> QED
  BY <1>1, InvariantHolds, PTL

\* The index in memory, and the saved one that isIndexFresh accepts by its size alone, is
\* what buildIndex would make of the tape now, though no write of it is synced and a
\* power loss may have brought an older one back; a second power loss is too much.
THEOREM IndexHolds == Spec => []IndexExact
<1>1. IInv => IndexExact
  <2> SUFFICES ASSUME IInv, cuts < 2
               PROVE  /\ index # NoIndex => index = BuildIndex(file, Stride)
                      /\ (savedIndex # NoIndex /\ savedIndex.size = Len(file))
                            => savedIndex = BuildIndex(file, Stride)
    BY DEF IndexExact
  <2>1. file \in Seq(Piece) /\ Len(file) \in Nat
    BY LenProperties DEF IInv, TypeOK
  <2>2. ASSUME savedIndex # NoIndex, savedIndex.size = Len(file)
        PROVE  savedIndex = BuildIndex(file, Stride)
    <3>1. BuiltFrom(file, savedIndex)
      BY <2>1, <2>2 DEF IInv, IndexInv
    <3> QED
      BY <2>1, <2>2, <3>1, WholePrefix DEF BuiltFrom
  <2> QED
    BY <2>2 DEF IInv, IndexInv
<1> QED
  BY <1>1, InvariantHolds, PTL

\* After TAPE_END no entry of a tape without gaps was left out between fromSeq and the
\* lastSeq it names (replayFromSeq, and the broadcast that goes on beside it), but the one
\* that was the newest at TAPE_SUB if a fault took its newline; what did not arrive was
\* sent while the channel was closed.
THEOREM EndMeansComplete == Spec => []EndComplete
<1>1. IInv => EndComplete
  <2> SUFFICES ASSUME IInv, sub = "done", NoneMissing, cuts < 2,
                      NEW e \in Entries(file), e.seq \in from .. ended
               PROVE  e \in Sent \/ (e.wide /\ Garbled(e) \in Sent) \/ LeftUnended(e)
    BY DEF EndComplete
  <2>1. Whole(file) /\ file \in Seq(Piece)
    BY DEF NoneMissing, CompleteEntries, Whole, IInv, TypeOK
  <2>2. PICK p \in Offsets(file) : e = EntryAt(file, p)
    BY DEF Entries
  <2>3. e.seq >= from
    <3>1. from \in Nat /\ ended \in Int
      BY DEF IInv, TypeOK
    <3> QED
      BY <3>1
  <2>4. CASE p \in Terminated(file)
    <3>1. Got(EntryAt(file, p))
      BY <2>1, <2>2, <2>3, <2>4 DEF IInv, DoneInv
    <3> QED
      BY <2>2, <3>1 DEF Got
  <2>5. CASE p \notin Terminated(file)
    <3>1. ~Clean(file) /\ Ordered(file) /\ up
      BY <2>1, <2>5, UnendedIs, WholePrefix DEF IInv, OrderInv, SessionInv
    <3>2. EntryAt(file, p) = last /\ lastAtSub = last.seq /\ faults # 0
      BY <2>5, <3>1 DEF IInv, UnendedInv
    <3>3. faults > 0 /\ e.seq = lastAtSub
      BY <2>2, <3>2, Counters DEF IInv
    <3>4. e \notin CompleteEntries
      <4>1. \A q \in Terminated(file) : EntryAt(file, q).seq < e.seq
        BY <2>1, <2>2, <2>5, <3>1, UnendedNewest
      <4>2. e.seq \in Nat
        BY <2>2, <3>2, Counters DEF IInv
      <4> QED
        BY <4>1, <4>2 DEF CompleteEntries
    <3> QED
      BY <3>3, <3>4 DEF LeftUnended
  <2> QED
    BY <2>4, <2>5
<1> QED
  BY <1>1, InvariantHolds, PTL

\* What was on the tape at TAPE_SUB is sent once and in order, however the handlers of
\* SUBMIT come between the batches of a replay.
THEOREM ReplayInOrder == Spec => []ReplayedOnceInOrder
<1>1. IInv => ReplayedOnceInOrder
  BY DEF IInv
<1> QED
  BY <1>1, InvariantHolds, PTL

----------------------------------------------------------------------------
(* What a step may do to the lines on the tape. *)

\* What append would write is an entry.
LEMMA NextEntryIs ==
    ASSUME IInv, Idle
    PROVE  NextEntry \in Entry /\ file \in Seq(Piece)
<1>1. TypeOK
  BY DEF IInv
<1>2. /\ appends \in Nat /\ MaxAppends \in Nat /\ appends < MaxAppends
      /\ last.seq \in Nat /\ last.hash \in Hashes
  BY <1>1, Counters DEF Idle
<1>3. last.seq + 1 \in Nat /\ appends + 1 \in Hashes
  BY <1>2 DEF Hashes
<1> QED
  BY <1>1, <1>2, <1>3 DEF NextEntry, Entry, TypeOK

\* append writes behind what there is, the whole line or, dying, a part of it.
LEMMA WriteKeeps ==
    ASSUME IInv, Idle, NEW k \in DOMAIN Written(NextEntry),
           file' = file \o SubSeq(Written(NextEntry), 1, k)
    PROVE  CompleteEntries \subseteq CompleteEntries'
<1>1. file \in Seq(Piece) /\ NextEntry \in Entry
  BY NextEntryIs
<1>2. file' = Grown(file, NextEntry, k)
  BY DEF Grown
<1>3. ASSUME NEW p \in Terminated(file)
      PROVE  p \in Terminated(file') /\ EntryAt(file', p) = EntryAt(file, p)
  BY <1>1, <1>2, GrownKeeps
<1> QED
  BY <1>3 DEF CompleteEntries

\* Other steps do not write the tape.
LEMMA FileKept ==
    ASSUME file' = file
    PROVE  CompleteEntries \subseteq CompleteEntries'
BY DEF CompleteEntries

\* A whole write.
LEMMA AppendWrites ==
    ASSUME IInv, AppendOrder
    PROVE  /\ Len(Written(NextEntry)) \in DOMAIN Written(NextEntry)
           /\ NextEntry \in Entry /\ file \in Seq(Piece)
           /\ file' = file \o SubSeq(Written(NextEntry), 1, Len(Written(NextEntry)))
<1>1. Idle
  BY DEF AppendOrder
<1>2. NextEntry \in Entry /\ file \in Seq(Piece)
  BY <1>1, NextEntryIs
<1>3. /\ Written(NextEntry) \in Seq(Piece)
      /\ Len(Written(NextEntry)) = Width(NextEntry) + 1
      /\ DOMAIN Written(NextEntry) = 1 .. Width(NextEntry) + 1
      /\ Width(NextEntry) \in Nat
  BY <1>2, WrittenFacts, WidthFacts
<1>4. Len(Written(NextEntry)) \in DOMAIN Written(NextEntry)
  BY <1>3
<1>5. SubSeq(Written(NextEntry), 1, Len(Written(NextEntry))) = Written(NextEntry)
  BY <1>3, SubSeqFull
<1> QED
  BY <1>1, <1>2, <1>4, <1>5 DEF AppendOrder

\* A complete line stays on the tape, whatever is appended, torn or killed after it:
\* a power loss alone takes lines back.
THEOREM LinesStay == Spec => [][PowerLoss \/ CompleteEntries \subseteq CompleteEntries']_vars
<1>1. ASSUME IInv, Next
      PROVE  PowerLoss \/ CompleteEntries \subseteq CompleteEntries'
  <2>1. CASE AppendOrder
    <3>1. Idle
      BY <2>1 DEF AppendOrder
    <3> QED
      BY <1>1, <2>1, <3>1, AppendWrites, WriteKeeps
  <2>2. CASE \E k \in DOMAIN Written(NextEntry) : TornAppend(k)
    BY <1>1, <2>2, WriteKeeps DEF TornAppend
  <2>3. CASE \/ Start \/ Kill \/ Disconnect \/ ChannelLost \/ ChannelBack
             \/ \E f \in FromSeqs : Subscribe(f)
    BY <2>3, FileKept DEF Start, Kill, Disconnect, ChannelLost, ChannelBack, Subscribe, disk
  <2>4. CASE Replay
    BY <2>4, FileKept DEF Replay, ReadChunk, SkipLine, SendLine, Resume, Finish, disk
  <2> QED
    BY <1>1, <2>1, <2>2, <2>3, <2>4 DEF Next
<1>2. IInv /\ [Next]_vars => [PowerLoss \/ CompleteEntries \subseteq CompleteEntries']_vars
  BY <1>1
<1> QED
  BY <1>2, InvariantHolds, PTL DEF Spec

\* An entry that append returns is on a complete line, unless the line before it was
\* torn: append itself cannot tell, since it never looks at the end of the file.
THEOREM ReturnedIsWritten ==
    Spec => [][AppendOrder => NextEntry \in CompleteEntries' \/ ~Clean(file)]_vars
<1>1. ASSUME IInv, AppendOrder, Clean(file)
      PROVE  NextEntry \in CompleteEntries'
  <2> DEFINE k == Len(Written(NextEntry))
  <2>1. /\ NextEntry \in Entry /\ file \in Seq(Piece)
        /\ file' = Grown(file, NextEntry, k)
    BY <1>1, AppendWrites DEF Grown
  <2>2. /\ Len(file) \in Terminated(file')
        /\ EntryAt(file', Len(file)) = NextEntry
    BY <1>1, <2>1, GrownAdds
  <2> QED
    BY <2>2 DEF CompleteEntries
<1>2. IInv /\ [Next]_vars
         => [AppendOrder => NextEntry \in CompleteEntries' \/ ~Clean(file)]_vars
  BY <1>1
<1> QED
  BY <1>2, InvariantHolds, PTL DEF Spec

\* As long as no process died in a write and the power lasted, every entry that append
\* has returned is on a complete line, however often the server was killed elsewhere.
THEOREM NothingLostUntorn == Spec => [](faults = 0 => told \subseteq CompleteEntries)
<1> DEFINE CutInv == cuts # 0 => faults > 0
<1>1. Init => CutInv
  BY DEF Init
<1>2. IInv /\ CutInv /\ [Next]_vars => CutInv'
  <2> SUFFICES ASSUME IInv, CutInv, [Next]_vars PROVE CutInv'
    OBVIOUS
  <2>1. faults \in Nat
    BY FeedAssumption DEF IInv, TypeOK
  <2>2. CASE faults' = faults + 1
    BY <2>1, <2>2
  <2>3. CASE UNCHANGED <<cuts, faults>>
    BY <2>3
  <2>4. CASE Replay
    BY <2>3, <2>4 DEF Replay, ReadChunk, SkipLine, SendLine, Resume, Finish
  <2>5. CASE \/ Start \/ AppendOrder \/ Kill \/ Disconnect \/ ChannelLost \/ ChannelBack
             \/ \E f \in FromSeqs : Subscribe(f)
             \/ UNCHANGED vars
    BY <2>3, <2>5 DEF Start, AppendOrder, Kill, Disconnect, ChannelLost, ChannelBack,
       Subscribe, vars
  <2>6. CASE PowerLoss \/ \E k \in DOMAIN Written(NextEntry) : TornAppend(k)
    BY <2>2, <2>6 DEF PowerLoss, TornAppend
  <2> QED
    BY <2>4, <2>5, <2>6 DEF Next
<1>3. IInv /\ CutInv => (faults = 0 => told \subseteq CompleteEntries)
  <2> SUFFICES ASSUME IInv, CutInv, faults = 0 PROVE told \subseteq CompleteEntries
    OBVIOUS
  <2>1. cuts = 0
    BY DEF CutInv
  <2>2. /\ Cardinality(told \ Complete(file)) + (IF Clean(file) THEN 0 ELSE 1) <= 0
        /\ IsFiniteSet(told)
    BY <2>1 DEF IInv, LossInv
  <2>3. /\ IsFiniteSet(told \ Complete(file))
        /\ Cardinality(told \ Complete(file)) \in Nat
    BY <2>2, FS_Subset, FS_CardinalityType
  <2>4. Cardinality(told \ Complete(file)) = 0
    BY <2>2, <2>3
  <2>5. told \ Complete(file) = {}
    BY <2>3, <2>4, FS_EmptySet
  <2> QED
    BY <2>5 DEF Complete, CompleteEntries
<1> HIDE DEF CutInv
<1> QED
  BY <1>1, <1>2, <1>3, InvariantHolds, PTL DEF Spec

\* Each step of a replay under way brings it nearer its end: it reads on, and only
\* below the size the tape had when it began, or has less left to handle of what it
\* read, or comes back from its yield, or ends.  No step of anyone else moves that
\* size, what was read or what is left, unless it ends the session.
THEOREM ReplayAdvances ==
    Spec => [][/\ Replay => \/ pos < size /\ pos < pos' /\ size' = size
                            \/ pos' = pos /\ size' = size /\ Len(text') < Len(text)
                            \/ sub = "yield" /\ sub' = "run" /\ UNCHANGED <<size, pos, text>>
                            \/ sub' = "done"
               /\ ~Replay /\ sub \in {"run", "yield"} =>
                      sub' = "none" \/ UNCHANGED <<sub, size, pos, text>>]_vars
<1>1. ASSUME IInv, ReadChunk
      PROVE  pos < size /\ pos < pos' /\ size' = size
  BY <1>1, ReadMoves DEF ReadChunk
<1>2. ASSUME IInv, NEW n \in 0 .. Len(text) - 1, SkipLine(n) \/ SendLine(n)
      PROVE  pos' = pos /\ size' = size /\ Len(text') < Len(text)
  <2>1. /\ text \in Seq(Piece) /\ sub = "run" /\ FirstLine(text, SubSeq(text, 1, n))
        /\ text' = SubSeq(text, n + 2, Len(text))
        /\ pos' = pos /\ size' = size
    BY <1>2 DEF SkipLine, SendLine, Send, Take, IInv, TypeOK
  <2>2. n \in Nat /\ Len(text) \in Nat /\ n < Len(text)
    BY <2>1, FirstLineFacts
  <2>3. PICK a \in Nat : a = n + 2
    BY <2>2
  <2>4. Len(SubSeq(text, a, Len(text))) = IF a <= Len(text) THEN Len(text) - a + 1 ELSE 0
    <3>1. \A i \in a .. Len(text) : text[i] \in Piece
      BY <2>1, <2>2, <2>3, ElementOfSeq
    <3> QED
      BY <2>2, <2>3, <3>1, SubSeqProperties
  <2> QED
    BY <2>1, <2>2, <2>3, <2>4
<1>3. ASSUME IInv, Next, ~Replay, sub \in {"run", "yield"}
      PROVE  sub' = "none" \/ UNCHANGED <<sub, size, pos, text>>
  <2>1. up
    BY <1>3 DEF IInv, SessionInv
  <2>2. CASE AppendOrder
    BY <2>2 DEF AppendOrder, replay
  <2>4. CASE ChannelLost \/ ChannelBack
    BY <2>4 DEF ChannelLost, ChannelBack, replay
  <2>3. CASE \/ Kill \/ PowerLoss \/ Disconnect
             \/ \E k \in DOMAIN Written(NextEntry) : TornAppend(k)
    BY <2>3 DEF Kill, PowerLoss, Disconnect, TornAppend, Forget, EndSession
  <2> QED
    BY <1>3, <2>1, <2>2, <2>3, <2>4 DEF Next, Start, Subscribe
<1>4. ASSUME IInv, [Next]_vars
      PROVE  [/\ Replay => \/ pos < size /\ pos < pos' /\ size' = size
                           \/ pos' = pos /\ size' = size /\ Len(text') < Len(text)
                           \/ sub = "yield" /\ sub' = "run" /\ UNCHANGED <<size, pos, text>>
                           \/ sub' = "done"
              /\ ~Replay /\ sub \in {"run", "yield"} =>
                     sub' = "none" \/ UNCHANGED <<sub, size, pos, text>>]_vars
  <2>1. CASE Replay
    BY <1>1, <1>2, <1>4, <2>1 DEF Replay, Resume, Finish
  <2>2. CASE ~Replay
    BY <1>3, <1>4, <2>2
  <2> QED
    BY <2>1, <2>2
<1> QED
  BY <1>4, InvariantHolds, PTL DEF Spec

================================================================================
