------------------------------- MODULE TapeFile -------------------------------
(***************************************************************************)
(* The bytes of the collator's tape file, as tape.ts and tapeIndex.ts read *)
(* them.  An entry's JSON text is two pieces here, so that a write can end *)
(* in the middle of it, and a line is the pieces up to a newline; a line   *)
(* parses iff it is the pieces of one entry and nothing else.  A wide      *)
(* entry's text has a third piece, which holds the second half of a        *)
(* character that the second piece ends in.  Offsets count pieces.         *)
(***************************************************************************)
EXTENDS Integers, Sequences, FiniteSets

Genesis == [seq |-> 0, hash |-> 0, prev |-> 0, wide |-> FALSE]

NL == [entry |-> Genesis, piece |-> 0]

Json(e) == [i \in 1 .. (IF e.wide THEN 3 ELSE 2) |-> [entry |-> e, piece |-> i]]

\* What append writes.
Written(e) == Append(Json(e), NL)

\* What toString makes of the bytes of one read: half a character is replaced.
Replaced == 9

Has(bytes, i, e, k) == i \in DOMAIN bytes /\ bytes[i] = [entry |-> e, piece |-> k]

Half(bytes, i) ==
    LET e == bytes[i].entry
    IN  \/ e.wide /\ bytes[i].piece = 2 /\ ~Has(bytes, i + 1, e, 3)
        \/ e.wide /\ bytes[i].piece = 3 /\ ~Has(bytes, i - 1, e, 2)

Decoded(bytes) ==
    [i \in DOMAIN bytes |->
        IF Half(bytes, i) THEN [bytes[i] EXCEPT !.piece = Replaced] ELSE bytes[i]]

\* An entry that is not what its hash was made of.
Garbled(e) == [e EXCEPT !.hash = -1]

\* JSON.parse: replaced characters are inside a string, and no error.
Texts(e) ==
    {Json(e), [i \in DOMAIN Json(e) |->
                  IF e.wide /\ i > 1 THEN [entry |-> e, piece |-> Replaced] ELSE Json(e)[i]]}

Parses(line) == line # <<>> /\ line \in Texts(line[1].entry)

Parsed(line) == IF line = Json(line[1].entry) THEN line[1].entry ELSE Garbled(line[1].entry)

\* The text up to its first newline is a line.
FirstLine(text, line) ==
    /\ Len(line) < Len(text)
    /\ text[Len(line) + 1] = NL
    /\ \A i \in DOMAIN line : text[i] = line[i] /\ text[i] # NL

\* The line that starts at an offset is this one; the last may have no newline.
IsLine(file, off, line) ==
    /\ off = 0 \/ file[off] = NL
    /\ off + Len(line) <= Len(file)
    /\ \A i \in DOMAIN line : file[off + i] = line[i]
    /\ off + Len(line) = Len(file) \/ file[off + Len(line) + 1] = NL

EntryAt(file, off) == file[off + 1].entry

\* The offsets of the lines that parse, and of those that end in a newline.
Offsets(file) ==
    {off \in 0 .. Len(file) - 1 : IsLine(file, off, Json(EntryAt(file, off)))}

Terminated(file) ==
    {off \in Offsets(file) : off + Len(Json(EntryAt(file, off))) < Len(file)}

Entries(file) == {EntryAt(file, off) : off \in Offsets(file)}

----------------------------------------------------------------------------
(* loadFromDisk and tapeIndex.ts. *)

\* The entry with the greatest seq, the last of them in the file.
Newest(file) ==
    CHOOSE off \in Offsets(file) :
        \A p \in Offsets(file) :
            \/ EntryAt(file, p).seq < EntryAt(file, off).seq
            \/ EntryAt(file, p).seq = EntryAt(file, off).seq /\ p <= off

\* Mutant: numbering without chaining.
ForgetsHash(file) ==
    IF Offsets(file) = {} THEN Genesis
    ELSE [EntryAt(file, Newest(file)) EXCEPT !.hash = 0]

NewestEntry(file) ==
    IF Offsets(file) = {} THEN Genesis ELSE EntryAt(file, Newest(file))

\* buildIndex: the offset of every line whose entry starts a block of stride.  The
\* list is in the order of the file, so it is a set here.
BuildIndex(file, stride) ==
    [size    |-> Len(file),
     offsets |-> {off \in Offsets(file) : (EntryAt(file, off).seq - 1) % stride = 0}]

Before(offsets, off) == {p \in offsets : p < off}

\* findStartOffset: offsets are looked up by block number.
FindStartOffset(index, stride, fromSeq) ==
    LET block == (fromSeq - 1) \div stride
        found == {off \in index.offsets :
                     Cardinality(Before(index.offsets, off)) = block}
    IN  IF fromSeq > 1 /\ found # {} THEN CHOOSE off \in found : TRUE ELSE 0

================================================================================
