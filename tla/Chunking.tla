------------------------------ MODULE Chunking ------------------------------
(***************************************************************************)
(* knowledge_pipeline/chunker.py: split_text, which the pipeline's worker  *)
(* calls on the text of every document.  A text is a sequence of characters*)
(* <<kind, position>>, so that a chunk shows where its characters are from;*)
(* a separator put back between two parts has position 0.                  *)
(***************************************************************************)
EXTENDS Integers, Sequences, Functions, FiniteSets, Ranks

CONSTANTS
    chunk_size,
    chunk_overlap,
    separators,   \* SEPARATORS without the last, empty one: kinds, each one character
    Blanks,       \* the kinds that strip() removes
    Letter,       \* the kind that is no separator
    MaxText       \* bound on the length of a text

\* Without an overlap below the size _fixed_size_split does not end.
ASSUME ChunkingAssumption ==
    /\ chunk_size \in Nat /\ chunk_overlap \in Nat /\ chunk_overlap < chunk_size
    /\ separators \in Seq(Range(separators))
    /\ Letter \notin Range(separators) \cup Blanks
    /\ MaxText \in Nat

VARIABLES text, chunks

chunkingVars == <<text, chunks>>

Characters == (Range(separators) \cup {Letter}) \X Nat

Kind(c) == c[1]

Blank(t) == \A i \in DOMAIN t : Kind(t[i]) \in Blanks

\* strip().
Strip(t) ==
    LET solid == {i \in DOMAIN t : Kind(t[i]) \notin Blanks}
    IN  IF solid = {} THEN <<>>
        ELSE SubSeq(t, CHOOSE i \in solid : \A j \in solid : i <= j,
                       CHOOSE i \in solid : \A j \in solid : i >= j)

\* _fixed_size_split: the pieces start at 0, step, 2 * step, ...
FixedSplit(t) ==
    LET step   == chunk_size - chunk_overlap
        starts == InOrder({i \in 0..(Len(t) - 1) : \E k \in 0..i : i = k * step})
        pieces == [n \in DOMAIN starts |->
                      SubSeq(t, starts[n] + 1, AtMost(starts[n] + chunk_size, Len(t)))]
    IN  Picked(pieces, {n \in DOMAIN pieces : ~Blank(pieces[n])})

\* text.split(sep).
Parts(t, sep) ==
    LET cuts == InOrder({0, Len(t) + 1} \cup {i \in DOMAIN t : Kind(t[i]) = sep})
    IN  [n \in 1..(Len(cuts) - 1) |-> SubSeq(t, cuts[n] + 1, cuts[n + 1] - 1)]

\* Mutant: an oversize part is dropped instead of split further.
Oversize_Dropped(deeper) == <<>>

Oversize(deeper) == deeper

(***************************************************************************)
(* The loop over the parts: they are joined as long as they fit; one too   *)
(* long by itself is split by the finer separators, and what was being     *)
(* built before it stays current, although it has been appended.           *)
(***************************************************************************)
Put(acc, part, sep, finer) ==
    LET candidate == IF acc.current = <<>> THEN part
                     ELSE acc.current \o <<<<sep, 0>>>> \o part
        flushed   == IF acc.current = <<>> THEN acc.chunks
                     ELSE Append(acc.chunks, acc.current)
    IN  IF Len(candidate) <= chunk_size THEN [chunks |-> acc.chunks, current |-> candidate]
        ELSE IF Len(part) > chunk_size
        THEN [chunks |-> flushed \o Oversize(finer[part]), current |-> acc.current]
        ELSE [chunks |-> flushed, current |-> part]

Built(parts, sep, finer) ==
    LET built[n \in 0..Len(parts)] ==
            IF n = 0 THEN [chunks |-> <<>>, current |-> <<>>]
            ELSE Put(built[n - 1], parts[n], sep, finer)
    IN  built

Join(parts, sep, finer) ==
    LET end == Built(parts, sep, finer)[Len(parts)]
    IN  IF end.current = <<>> THEN end.chunks ELSE Append(end.chunks, end.current)

Has(t, sep) == \E i \in DOMAIN t : Kind(t[i]) = sep

\* The first of the last k separators.
Separator(k) == separators[Len(separators) - k + 1]

\* _recursive_split by the last k separators; finer are the splits by one less.
SplitBy(t, k, finer) ==
    IF Len(t) <= chunk_size THEN IF Blank(t) THEN <<>> ELSE <<t>>
    ELSE IF k = 0 THEN FixedSplit(t)
    ELSE IF Has(t, Separator(k)) THEN Join(Parts(t, Separator(k)), Separator(k), finer)
    ELSE finer[t]

RecursiveSplit[k \in 0..Len(separators)] ==
    [t \in Seq(Characters) |-> SplitBy(t, k, RecursiveSplit[k - 1])]

\* split_text: blank chunks are dropped; if none is left, one prefix.
SplitText(t) ==
    LET whole    == Strip(t)
        split    == RecursiveSplit[Len(separators)][whole]
        stripped == [n \in DOMAIN split |-> Strip(split[n])]
        kept     == Picked(stripped, {n \in DOMAIN stripped : stripped[n] # <<>>})
    IN  IF whole = <<>> THEN <<>>
        ELSE IF kept = <<>> THEN <<SubSeq(whole, 1, AtMost(chunk_size, Len(whole)))>>
        ELSE kept

ChunkingInit == text = <<>> /\ chunks = <<>>

\* A document arrives, character by character, and is split anew each time.
Split ==
    /\ Len(text) < MaxText
    /\ \E k \in Range(separators) \cup {Letter} : text' = Append(text, <<k, Len(text) + 1>>)
    /\ chunks' = SplitText(text')

ChunkingSpec == ChunkingInit /\ [][Split]_chunkingVars

-----------------------------------------------------------------------------
\* The letters of a chunk, by their positions in the text.
Letters(c) == {c[i][2] : i \in {j \in DOMAIN c : Kind(c[j]) = Letter}}

\* A chunk has its letters in the order of the text, and none twice.
InOrderOfText(c) ==
    \A i, j \in DOMAIN c : i < j /\ Kind(c[i]) = Letter /\ Kind(c[j]) = Letter => c[i][2] < c[j][2]

\* The parts of the first separator found fit, so that nothing is split further.
Fits(t) ==
    \/ Len(t) <= chunk_size
    \/ \E n \in DOMAIN separators :
          /\ Has(t, separators[n])
          /\ \A m \in 1..(n - 1) : ~Has(t, separators[m])
          /\ \A i \in DOMAIN Parts(t, separators[n]) : Len(Parts(t, separators[n])[i]) <= chunk_size

(***************************************************************************)
(* Every text but a blank one has a chunk; no chunk is empty or longer     *)
(* than chunk_size; every letter of the text is in some chunk, in order;   *)
(* and, unless a part was too long by itself, in one chunk only, the       *)
(* chunks following each other as in the text.                             *)
(***************************************************************************)
ChunksInv ==
    /\ chunks = <<>> <=> Blank(text)
    /\ \A n \in DOMAIN chunks : Len(chunks[n]) \in 1..chunk_size /\ InOrderOfText(chunks[n])
    /\ UNION {Letters(chunks[n]) : n \in DOMAIN chunks} = Letters(text)
    /\ Fits(Strip(text)) =>
          \A m, n \in DOMAIN chunks :
              m < n => \A x \in Letters(chunks[m]), y \in Letters(chunks[n]) : x < y
=============================================================================
