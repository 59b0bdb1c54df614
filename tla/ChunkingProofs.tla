--------------------------- MODULE ChunkingProofs ---------------------------
(***************************************************************************)
(* Proofs about Chunking, for texts of any length, any chunk size and      *)
(* overlap, and any separators: what the recursive split does with the     *)
(* letters of a text.                                                      *)
(***************************************************************************)
EXTENDS Chunking, RanksProofs, SequenceTheorems, FiniteSetTheorems, TLAPS

Texts == Seq(Characters)

Lists == Seq(Texts)

-----------------------------------------------------------------------------
\* Texts and their letters.

\* A separator put back between two parts is a character, and no letter.
LEMMA SeparatorsAre ==
    /\ \A c \in Characters : c[2] \in Nat
    /\ \A sep \in Range(separators) : /\ sep # Letter
                                      /\ <<sep, 0>> \in Characters
                                      /\ Kind(<<sep, 0>>) = sep
BY ChunkingAssumption DEF Characters, Kind

\* What a text is, element by element.
LEMMA TextIs ==
    ASSUME NEW t \in Texts
    PROVE  /\ Len(t) \in Nat /\ DOMAIN t = 1..Len(t)
           /\ \A i \in 1..Len(t) : t[i] \in Characters /\ t[i][2] \in Nat
           /\ \A x : x \in Letters(t) <=> \E i \in 1..Len(t) : Kind(t[i]) = Letter /\ x = t[i][2]
           /\ Letters(t) \in SUBSET Nat
           /\ InOrderOfText(t) <=>
                \A i, j \in 1..Len(t) :
                    i < j /\ Kind(t[i]) = Letter /\ Kind(t[j]) = Letter => t[i][2] < t[j][2]
<1>1. Len(t) \in Nat /\ DOMAIN t = 1..Len(t) /\ \A i \in 1..Len(t) : t[i] \in Characters
  BY DEF Texts
<1>2. \A i \in 1..Len(t) : t[i][2] \in Nat
  BY <1>1, SeparatorsAre
<1>3. \A x : x \in Letters(t) <=> \E i \in 1..Len(t) : Kind(t[i]) = Letter /\ x = t[i][2]
  BY <1>1 DEF Letters
<1>4. QED
  BY <1>1, <1>2, <1>3 DEF InOrderOfText

\* A part of a text has its letters, in their order.
LEMMA SubText ==
    ASSUME NEW t \in Texts, NEW i \in 1..(Len(t) + 1), NEW j \in 0..Len(t)
    PROVE  /\ SubSeq(t, i, j) \in Texts
           /\ Len(SubSeq(t, i, j)) = IF i <= j THEN (j - i) + 1 ELSE 0
           /\ \A k \in 1..Len(SubSeq(t, i, j)) : SubSeq(t, i, j)[k] = t[(i + k) - 1]
           /\ \A x : x \in Letters(SubSeq(t, i, j)) <=>
                        \E k \in i..j : Kind(t[k]) = Letter /\ x = t[k][2]
           /\ InOrderOfText(t) => InOrderOfText(SubSeq(t, i, j))
<1> DEFINE s == SubSeq(t, i, j)
           l == Len(s)
<1>1. Len(t) \in Nat /\ \A k \in 1..Len(t) : t[k] \in Characters
  BY TextIs
<1>2. /\ s \in Texts
      /\ l = IF i <= j THEN (j - i) + 1 ELSE 0
      /\ \A k \in 1..l : s[k] = t[(i + k) - 1]
  <2>1. i <= j + 1 => s \in Texts /\ l = (j - i) + 1 /\ \A k \in 1..l : s[k] = t[(i + k) - 1]
    <3>1. SUFFICES ASSUME i <= j + 1
                   PROVE  s \in Texts /\ l = (j - i) + 1 /\ \A k \in 1..l : s[k] = t[(i + k) - 1]
      OBVIOUS
    <3>2. \A k \in 1..((j - i) + 1) : (i + k) - 1 \in 1..Len(t)
      BY <1>1, <3>1
    <3>3. s = [k \in 1..((j - i) + 1) |-> t[(i + k) - 1]] /\ (j - i) + 1 \in Nat
      BY <1>1, <3>1
    <3>4. s \in [1..((j - i) + 1) -> Characters]
      BY <1>1, <3>2, <3>3
    <3>5. s \in Texts /\ l = (j - i) + 1
      <4> HIDE DEF s
      <4>1. QED
        BY <3>3, <3>4, SeqDef DEF Texts
    <3>6. QED
      BY <3>3, <3>5
  <2>2. i > j => s = <<>>
    BY <1>1
  <2>3. <<>> \in Texts /\ Len(<<>>) = 0
    BY DEF Texts
  <2> HIDE DEF s
  <2>4. QED
    BY <2>1, <2>2, <2>3
<1> HIDE DEF s
<1>3. \A k \in 1..l : (i + k) - 1 \in i..j
  BY <1>1, <1>2
<1>4. \A k \in i..j : (k - i) + 1 \in 1..l /\ s[(k - i) + 1] = t[k]
  BY <1>1, <1>2
<1>5. \A x : x \in Letters(s) <=> \E k \in i..j : Kind(t[k]) = Letter /\ x = t[k][2]
  <2>1. \A x : x \in Letters(s) <=> \E k \in 1..l : Kind(s[k]) = Letter /\ x = s[k][2]
    BY <1>2, TextIs
  <2> HIDE DEF l
  <2>2. QED
    BY <1>2, <1>3, <1>4, <2>1
<1>6. InOrderOfText(t) => InOrderOfText(s)
  <2>1. SUFFICES ASSUME InOrderOfText(t)
                 PROVE  InOrderOfText(s)
    OBVIOUS
  <2>2. \A k, m \in 1..l :
            k < m /\ Kind(s[k]) = Letter /\ Kind(s[m]) = Letter => s[k][2] < s[m][2]
    <3>1. \A k, m \in 1..Len(t) :
              k < m /\ Kind(t[k]) = Letter /\ Kind(t[m]) = Letter => t[k][2] < t[m][2]
      BY <2>1, TextIs
    <3>2. \A k \in 1..l : (i + k) - 1 \in 1..Len(t) /\ s[k] = t[(i + k) - 1] /\ k \in Int
      BY <1>1, <1>2, <1>3
    <3> HIDE DEF l
    <3>3. QED
      BY <3>1, <3>2
  <2>3. QED
    BY <1>2, <2>2, TextIs
<1>7. QED
  BY <1>2, <1>5, <1>6 DEF s

\* A text put behind another one has the letters of both.
LEMMA JoinedText ==
    ASSUME NEW a \in Texts, NEW b \in Texts
    PROVE  /\ a \o b \in Texts
           /\ Len(a \o b) = Len(a) + Len(b)
           /\ Letters(a \o b) = Letters(a) \cup Letters(b)
           /\ InOrderOfText(a) /\ InOrderOfText(b) /\ (\A x \in Letters(a), y \in Letters(b) : x < y)
                => InOrderOfText(a \o b)
<1> DEFINE t == a \o b
           m == Len(a)
           n == Len(b)
<1>1. /\ m \in Nat /\ n \in Nat /\ t \in Texts /\ Len(t) = m + n
      /\ \A i \in 1..m : t[i] = a[i] /\ i \in 1..(m + n)
      /\ \A i \in 1..n : t[m + i] = b[i] /\ m + i \in 1..(m + n)
      /\ \A i \in 1..(m + n) : i \in 1..m \/ (i - m \in 1..n /\ t[i] = b[i - m])
  BY DEF Texts
<1> HIDE DEF t
<1>2. /\ \A x : x \in Letters(t) <=> \E i \in 1..(m + n) : Kind(t[i]) = Letter /\ x = t[i][2]
      /\ \A x : x \in Letters(a) <=> \E i \in 1..m : Kind(a[i]) = Letter /\ x = a[i][2]
      /\ \A x : x \in Letters(b) <=> \E i \in 1..n : Kind(b[i]) = Letter /\ x = b[i][2]
  <2>1. \A x : x \in Letters(t) <=> \E i \in 1..Len(t) : Kind(t[i]) = Letter /\ x = t[i][2]
    BY <1>1, TextIs
  <2>2. QED
    BY <1>1, <2>1, TextIs
<1> HIDE DEF m, n
<1>3. Letters(t) = Letters(a) \cup Letters(b)
  <2>1. \A x : x \in Letters(t) => x \in Letters(a) \/ x \in Letters(b)
    BY <1>1, <1>2
  <2>2. \A x : x \in Letters(a) => x \in Letters(t)
    BY <1>1, <1>2
  <2>3. \A x : x \in Letters(b) => x \in Letters(t)
    BY <1>1, <1>2
  <2>4. QED
    BY <2>1, <2>2, <2>3
<1>4. ASSUME InOrderOfText(a), InOrderOfText(b), \A x \in Letters(a), y \in Letters(b) : x < y
      PROVE  InOrderOfText(t)
  <2>1. /\ \A i, j \in 1..m :
               i < j /\ Kind(a[i]) = Letter /\ Kind(a[j]) = Letter => a[i][2] < a[j][2]
        /\ \A i, j \in 1..n :
               i < j /\ Kind(b[i]) = Letter /\ Kind(b[j]) = Letter => b[i][2] < b[j][2]
    BY <1>4, TextIs DEF m, n
  <2>2. ASSUME NEW i \in 1..(m + n), NEW j \in 1..(m + n), i < j,
               Kind(t[i]) = Letter, Kind(t[j]) = Letter
        PROVE  t[i][2] < t[j][2]
    <3>1. CASE j \in 1..m
      BY <1>1, <2>1, <2>2, <3>1
    <3>2. CASE i \in 1..m /\ j - m \in 1..n /\ t[j] = b[j - m]
      <4>1. t[i][2] \in Letters(a) /\ t[j][2] \in Letters(b)
        BY <1>1, <1>2, <2>2, <3>2
      <4>2. QED
        BY <4>1, <1>4
    <3>3. CASE i - m \in 1..n /\ j - m \in 1..n /\ t[i] = b[i - m] /\ t[j] = b[j - m]
      <4>1. i - m < j - m
        BY <1>1, <2>2
      <4>2. QED
        BY <2>1, <2>2, <3>3, <4>1
    <3>4. QED
      BY <1>1, <2>2, <3>1, <3>2, <3>3
  <2>3. QED
    <3>1. \A i, j \in 1..Len(t) :
              i < j /\ Kind(t[i]) = Letter /\ Kind(t[j]) = Letter => t[i][2] < t[j][2]
      BY <1>1, <2>2
    <3>2. QED
      BY <1>1, <3>1, TextIs
<1>5. QED
  BY <1>1, <1>3, <1>4 DEF t, m, n

-----------------------------------------------------------------------------
\* Lists of chunks.

\* A chunk is not too long and has its letters in order.
Chunk(c) == c \in Texts /\ Len(c) <= chunk_size /\ InOrderOfText(c)

\* The letters of the chunks of a list.
LettersOf(cs) == UNION {Letters(cs[n]) : n \in DOMAIN cs}

\* The chunks follow each other as in the text.
Precede(X, Y) == \A x \in X, y \in Y : x < y

Follow(cs) == \A m, n \in DOMAIN cs : m < n => Precede(Letters(cs[m]), Letters(cs[n]))

\* A list of chunks, with the letters of the text t.
Sound(cs, t) ==
    /\ cs \in Lists
    /\ \A n \in 1..Len(cs) : Chunk(cs[n])
    /\ LettersOf(cs) = Letters(t)

\* What a list is, chunk by chunk.
LEMMA ListIs ==
    ASSUME NEW cs \in Lists
    PROVE  /\ Len(cs) \in Nat /\ DOMAIN cs = 1..Len(cs)
           /\ \A n \in 1..Len(cs) : cs[n] \in Texts
           /\ \A x : x \in LettersOf(cs) <=> \E n \in 1..Len(cs) : x \in Letters(cs[n])
BY DEF Lists, LettersOf

\* The empty text and the empty list have no letters.
LEMMA NoText ==
    /\ <<>> \in Texts /\ Len(<<>>) = 0 /\ Letters(<<>>) = {} /\ InOrderOfText(<<>>)
    /\ <<>> \in Lists /\ LettersOf(<<>>) = {}
<1>1. <<>> \in Texts /\ <<>> \in Lists /\ Len(<<>>) = 0
  BY DEF Texts, Lists
<1>2. \A x : x \notin Letters(<<>>)
  BY <1>1, TextIs
<1>3. \A x : x \notin LettersOf(<<>>)
  BY <1>1, ListIs
<1>4. InOrderOfText(<<>>)
  BY <1>1, TextIs
<1>5. QED
  BY <1>1, <1>2, <1>3, <1>4

\* A list with one chunk more.
LEMMA AddedChunk ==
    ASSUME NEW cs \in Lists, NEW c \in Texts
    PROVE  /\ Append(cs, c) \in Lists
           /\ LettersOf(Append(cs, c)) = LettersOf(cs) \cup Letters(c)
           /\ Chunk(c) /\ (\A n \in 1..Len(cs) : Chunk(cs[n]))
                => \A n \in 1..Len(Append(cs, c)) : Chunk(Append(cs, c)[n])
           /\ Follow(cs) /\ Precede(LettersOf(cs), Letters(c)) => Follow(Append(cs, c))
<1> DEFINE ds == Append(cs, c)
           m == Len(cs)
<1>1. /\ m \in Nat /\ ds \in Lists /\ Len(ds) = m + 1 /\ ds[m + 1] = c
      /\ \A n \in 1..m : ds[n] = cs[n] /\ n \in 1..(m + 1)
      /\ \A n \in 1..(m + 1) : n \in 1..m \/ n = m + 1
      /\ m + 1 \in 1..(m + 1)
  BY DEF Lists
<1>2. /\ \A x : x \in LettersOf(cs) <=> \E n \in 1..m : x \in Letters(cs[n])
      /\ DOMAIN cs = 1..m
  BY ListIs
<1> HIDE DEF ds, m
<1>3. /\ \A x : x \in LettersOf(ds) <=> \E n \in 1..(m + 1) : x \in Letters(ds[n])
      /\ DOMAIN ds = 1..(m + 1)
  <2>1. /\ \A x : x \in LettersOf(ds) <=> \E n \in 1..Len(ds) : x \in Letters(ds[n])
        /\ DOMAIN ds = 1..Len(ds)
    BY <1>1, ListIs
  <2>2. QED
    BY <1>1, <2>1
<1>4. LettersOf(ds) = LettersOf(cs) \cup Letters(c)
  <2>1. \A x : x \in LettersOf(ds) => x \in LettersOf(cs) \/ x \in Letters(c)
    BY <1>1, <1>2, <1>3
  <2>2. \A x : x \in LettersOf(cs) \/ x \in Letters(c) => x \in LettersOf(ds)
    BY <1>1, <1>2, <1>3
  <2>3. QED
    BY <2>1, <2>2
<1>5. Chunk(c) /\ (\A n \in 1..m : Chunk(cs[n])) => \A n \in 1..Len(ds) : Chunk(ds[n])
  BY <1>1
<1>6. ASSUME Follow(cs), Precede(LettersOf(cs), Letters(c))
      PROVE  Follow(ds)
  <2>1. ASSUME NEW i \in 1..(m + 1), NEW j \in 1..(m + 1), i < j
        PROVE  Precede(Letters(ds[i]), Letters(ds[j]))
    <3>1. CASE j \in 1..m
      <4>1. i \in 1..m
        BY <1>1, <2>1, <3>1
      <4>2. ds[i] = cs[i] /\ ds[j] = cs[j] /\ Precede(Letters(cs[i]), Letters(cs[j]))
        BY <1>1, <1>2, <1>6, <2>1, <3>1, <4>1 DEF Follow
      <4>3. QED
        BY <4>2
    <3>2. CASE j = m + 1
      <4>1. i \in 1..m
        BY <1>1, <2>1, <3>2
      <4>2. ds[i] = cs[i] /\ ds[j] = c /\ \A x \in Letters(cs[i]) : x \in LettersOf(cs)
        BY <1>1, <1>2, <3>2, <4>1
      <4>3. QED
        BY <4>2, <1>6 DEF Precede
    <3>3. QED
      BY <1>1, <3>1, <3>2
  <2>2. QED
    BY <1>3, <2>1 DEF Follow
<1>7. QED
  BY <1>1, <1>4, <1>5, <1>6 DEF ds, m

\* A list with the chunks of another one behind it.
LEMMA AddedChunks ==
    ASSUME NEW cs \in Lists, NEW ds \in Lists
    PROVE  /\ cs \o ds \in Lists
           /\ LettersOf(cs \o ds) = LettersOf(cs) \cup LettersOf(ds)
           /\ (\A n \in 1..Len(cs) : Chunk(cs[n])) /\ (\A n \in 1..Len(ds) : Chunk(ds[n]))
                => \A n \in 1..Len(cs \o ds) : Chunk((cs \o ds)[n])
<1> DEFINE es == cs \o ds
           m == Len(cs)
           n == Len(ds)
<1>1. /\ m \in Nat /\ n \in Nat /\ es \in Lists /\ Len(es) = m + n
      /\ \A i \in 1..m : es[i] = cs[i] /\ i \in 1..(m + n)
      /\ \A i \in 1..n : es[m + i] = ds[i] /\ m + i \in 1..(m + n)
      /\ \A i \in 1..(m + n) : i \in 1..m \/ (i - m \in 1..n /\ es[i] = ds[i - m])
  BY DEF Lists
<1>2. /\ \A x : x \in LettersOf(cs) <=> \E i \in 1..m : x \in Letters(cs[i])
      /\ \A x : x \in LettersOf(ds) <=> \E i \in 1..n : x \in Letters(ds[i])
  BY ListIs
<1> HIDE DEF es, m, n
<1>3. \A x : x \in LettersOf(es) <=> \E i \in 1..(m + n) : x \in Letters(es[i])
  <2>1. \A x : x \in LettersOf(es) <=> \E i \in 1..Len(es) : x \in Letters(es[i])
    BY <1>1, ListIs
  <2>2. QED
    BY <1>1, <2>1
<1>4. LettersOf(es) = LettersOf(cs) \cup LettersOf(ds)
  <2>1. \A x : x \in LettersOf(es) => x \in LettersOf(cs) \/ x \in LettersOf(ds)
    BY <1>1, <1>2, <1>3
  <2>2. \A x : x \in LettersOf(cs) => x \in LettersOf(es)
    BY <1>1, <1>2, <1>3
  <2>3. \A x : x \in LettersOf(ds) => x \in LettersOf(es)
    BY <1>1, <1>2, <1>3
  <2>4. QED
    BY <2>1, <2>2, <2>3
<1>5. (\A i \in 1..m : Chunk(cs[i])) /\ (\A i \in 1..n : Chunk(ds[i]))
        => \A i \in 1..Len(es) : Chunk(es[i])
  BY <1>1
<1>6. QED
  BY <1>1, <1>4, <1>5 DEF es, m, n

\* Some of the chunks of a list, in their order.
LEMMA PickedChunks ==
    ASSUME NEW cs \in Lists, NEW S \in SUBSET (DOMAIN cs)
    PROVE  /\ Picked(cs, S) \in Lists
           /\ LettersOf(Picked(cs, S)) \subseteq LettersOf(cs)
           /\ (\A i \in DOMAIN cs \ S : Letters(cs[i]) = {}) => LettersOf(Picked(cs, S)) = LettersOf(cs)
           /\ \A k \in 1..Len(Picked(cs, S)) : \E i \in S : Picked(cs, S)[k] = cs[i]
           /\ \A i \in S : \E k \in 1..Len(Picked(cs, S)) : Picked(cs, S)[k] = cs[i]
           /\ Follow(cs) => Follow(Picked(cs, S))
<1> DEFINE ds == Picked(cs, S)
           p == InOrder(S)
           c == Cardinality(S)
<1>1. cs \in Seq(Texts)
  BY DEF Lists
<1>2. /\ c \in Nat /\ \A k \in 1..c : p[k] \in S /\ ds[k] = cs[p[k]]
      /\ \A i \in S : \E k \in 1..c : p[k] = i
      /\ \A j, k \in 1..c : j < k <=> p[j] < p[k]
      /\ ds \in Lists /\ Len(ds) = c /\ DOMAIN ds = 1..c
  <2>1. p \in [1..c -> S]
    BY <1>1, PickedInOrder
  <2>2. \A k \in 1..c : p[k] \in S
    BY <2>1
  <2>3. QED
    BY <1>1, <2>2, PickedInOrder DEF Lists
<1> HIDE DEF ds, p, c
<1>3. /\ DOMAIN cs = 1..Len(cs)
      /\ \A x : x \in LettersOf(cs) <=> \E n \in 1..Len(cs) : x \in Letters(cs[n])
      /\ \A x : x \in LettersOf(ds) <=> \E n \in 1..Len(ds) : x \in Letters(ds[n])
  BY <1>2, ListIs
<1>4. \A x : x \in LettersOf(ds) => x \in LettersOf(cs)
  <2>1. \A k \in 1..c : p[k] \in 1..Len(cs)
    BY <1>2, <1>3
  <2>2. QED
    BY <1>2, <1>3, <2>1
<1>5. ASSUME \A i \in DOMAIN cs \ S : Letters(cs[i]) = {}
      PROVE  \A x : x \in LettersOf(cs) => x \in LettersOf(ds)
  <2>1. ASSUME NEW x, x \in LettersOf(cs)
        PROVE  x \in LettersOf(ds)
    <3>1. PICK n \in 1..Len(cs) : x \in Letters(cs[n])
      BY <1>3, <2>1
    <3>2. n \in S
      BY <1>3, <1>5, <3>1
    <3>3. PICK k \in 1..c : p[k] = n
      BY <1>2, <3>2
    <3>4. QED
      BY <1>2, <1>3, <3>1, <3>3
  <2>2. QED
    BY <2>1
<1>6. ASSUME Follow(cs)
      PROVE  Follow(ds)
  <2>1. ASSUME NEW j \in 1..c, NEW k \in 1..c, j < k
        PROVE  Precede(Letters(ds[j]), Letters(ds[k]))
    <3>1. p[j] < p[k] /\ p[j] \in DOMAIN cs /\ p[k] \in DOMAIN cs
      BY <1>2, <2>1
    <3>2. Precede(Letters(cs[p[j]]), Letters(cs[p[k]]))
      BY <1>6, <3>1 DEF Follow
    <3>3. QED
      BY <1>2, <3>2
  <2>2. QED
    BY <1>2, <2>1 DEF Follow
<1>7. \A i \in S : \E k \in 1..Len(ds) : ds[k] = cs[i]
  BY <1>2
<1>8. \A k \in 1..Len(ds) : \E i \in S : ds[k] = cs[i]
  BY <1>2
<1>9. QED
  BY <1>2, <1>4, <1>5, <1>6, <1>7, <1>8 DEF ds

-----------------------------------------------------------------------------
\* The parts between separators, stripping, and pieces of a fixed size.

\* The parts between the separators have the letters of the text and follow each other.
LEMMA PartsFollow ==
    ASSUME NEW t \in Texts, NEW sep \in Range(separators)
    PROVE  /\ Parts(t, sep) \in Lists
           /\ LettersOf(Parts(t, sep)) = Letters(t)
           /\ InOrderOfText(t) =>
                /\ \A n \in 1..Len(Parts(t, sep)) : InOrderOfText(Parts(t, sep)[n])
                /\ Follow(Parts(t, sep))
<1> DEFINE l == Len(t)
           C == {0, l + 1} \cup {i \in DOMAIN t : Kind(t[i]) = sep}
           N == Cardinality(C)
           cuts == InOrder(C)
           ps == Parts(t, sep)
<1>1. /\ l \in Nat /\ DOMAIN t = 1..l
      /\ \A i \in 1..l : t[i][2] \in Nat
      /\ InOrderOfText(t) =>
            \A i, j \in 1..l :
               i < j /\ Kind(t[i]) = Letter /\ Kind(t[j]) = Letter => t[i][2] < t[j][2]
      /\ \A x : x \in Letters(t) <=> \E i \in 1..l : Kind(t[i]) = Letter /\ x = t[i][2]
  BY TextIs
<1>2. /\ C \in SUBSET (0..(l + 1)) /\ 0 \in C /\ l + 1 \in C
      /\ \A i \in 1..l : Kind(t[i]) = Letter => i \notin C
  <2>1. sep # Letter
    BY SeparatorsAre
  <2>2. QED
    BY <1>1, <2>1
<1>3. /\ N \in Nat /\ Len(cuts) = N
      /\ \A i \in C : \E k \in 1..N : cuts[k] = i
      /\ \A j, k \in 1..N : j < k <=> cuts[j] < cuts[k]
      /\ \A k \in 1..N : cuts[k] \in C /\ cuts[k] \in 0..(l + 1)
  <2> HIDE DEF C
  <2>1. IsFiniteSet(0..(l + 1))
    <3>1. 0 \in Int /\ l + 1 \in Int
      BY <1>1
    <3> HIDE DEF l
    <3>2. QED
      BY <3>1, FS_Interval
  <2>2. IsFiniteSet(C) /\ C \in SUBSET Int
    <3>1. \A x \in C : x \in Int
      BY <1>1, <1>2
    <3>2. QED
      BY <1>2, <2>1, <3>1, FS_Subset
  <2>3. N \in Nat
    BY <2>2, FS_CardinalityType
  <2>4. QED
    BY <1>2, <2>2, <2>3, Ordered
<1>4. ps = [n \in 1..(N - 1) |-> SubSeq(t, cuts[n] + 1, cuts[n + 1] - 1)]
  <2>1. ps = [n \in 1..(Len(cuts) - 1) |-> SubSeq(t, cuts[n] + 1, cuts[n + 1] - 1)]
    BY DEF Parts
  <2>2. Len(cuts) = N
    BY <1>3
  <2> HIDE DEF cuts, N, ps
  <2>3. QED
    BY <2>1, <2>2
<1> HIDE DEF C, N, cuts, ps, l
<1>5. N - 1 \in Nat
  <2>1. PICK k \in 1..N : cuts[k] = 0
    BY <1>2, <1>3
  <2>2. QED
    BY <1>3, <2>1
<1>6. ASSUME NEW n \in 1..(N - 1)
      PROVE  /\ ps[n] \in Texts
             /\ InOrderOfText(t) => InOrderOfText(ps[n])
             /\ \A x : x \in Letters(ps[n]) <=>
                  \E k \in 1..l : cuts[n] < k /\ k < cuts[n + 1] /\ Kind(t[k]) = Letter /\ x = t[k][2]
  <2>1. /\ n \in 1..N /\ n + 1 \in 1..N /\ n < n + 1
        /\ cuts[n] \in 0..(l + 1) /\ cuts[n + 1] \in 0..(l + 1) /\ cuts[n] < cuts[n + 1]
    BY <1>3, <1>5
  <2> DEFINE i == cuts[n] + 1
             j == cuts[n + 1] - 1
  <2>2. i \in 1..(l + 1) /\ j \in 0..l /\ ps[n] = SubSeq(t, i, j)
    <3>1. i \in 1..(l + 1) /\ j \in 0..l
      BY <1>1, <2>1
    <3>2. ps[n] = SubSeq(t, i, j)
      BY <1>4, Zenon
    <3>3. QED
      BY <3>1, <3>2
  <2>3. \A k : k \in i..j <=> k \in 1..l /\ cuts[n] < k /\ k < cuts[n + 1]
    BY <1>1, <2>1
  <2> HIDE DEF i, j
  <2>4. /\ SubSeq(t, i, j) \in Texts
        /\ InOrderOfText(t) => InOrderOfText(SubSeq(t, i, j))
        /\ \A x : x \in Letters(SubSeq(t, i, j)) <=>
                     \E k \in i..j : Kind(t[k]) = Letter /\ x = t[k][2]
    BY <2>2, SubText DEF l
  <2>5. QED
    BY <2>2, <2>3, <2>4
<1>7. ps \in Lists /\ Len(ps) = N - 1
  <2>1. ps \in [1..(N - 1) -> Texts]
    BY <1>4, <1>6
  <2>2. QED
    BY <1>5, <2>1, SeqDef DEF Lists
<1>8. /\ \A x : x \in LettersOf(ps) <=> \E n \in 1..(N - 1) : x \in Letters(ps[n])
      /\ DOMAIN ps = 1..(N - 1)
  <2>1. /\ \A x : x \in LettersOf(ps) <=> \E n \in 1..Len(ps) : x \in Letters(ps[n])
        /\ DOMAIN ps = 1..Len(ps)
    BY <1>7, ListIs
  <2>2. QED
    BY <1>7, <2>1
\* A letter is between the last separator before it and the next one.
<1>9. ASSUME NEW k \in 1..l, Kind(t[k]) = Letter
      PROVE  \E n \in 1..(N - 1) : cuts[n] < k /\ k < cuts[n + 1]
  <2> DEFINE U == {m \in 1..N : k < cuts[m]}
  <2>1. U \in SUBSET Nat /\ U # {}
    <3>1. PICK m \in 1..N : cuts[m] = l + 1
      BY <1>2, <1>3
    <3>2. m \in U
      BY <1>1, <3>1
    <3>3. QED
      BY <3>2
  <2>2. PICK m \in U : \A i \in U : m <= i
    <3> HIDE DEF U
    <3>1. QED
      BY <2>1, LeastNumber
  <2>3. PICK z \in 1..N : cuts[z] = 0
    BY <1>2, <1>3
  <2>4. m \in 1..N /\ k < cuts[m] /\ cuts[m] \in 0..(l + 1)
    BY <1>3, <2>2
  <2>5. z < m
    <3>1. cuts[z] < cuts[m]
      BY <1>1, <2>3, <2>4
    <3>2. QED
      BY <1>3, <2>3, <2>4, <3>1
  <2>6. m - 1 \in 1..(N - 1) /\ m - 1 \in 1..N /\ (m - 1) + 1 = m
    BY <1>3, <2>3, <2>4, <2>5
  <2>7. ~(k < cuts[m - 1])
    <3>1. m - 1 \notin U
      BY <2>2, <2>4
    <3>2. QED
      BY <2>6, <3>1
  <2>8. cuts[m - 1] \in C /\ cuts[m - 1] \in 0..(l + 1)
    BY <1>3, <2>6
  <2>9. cuts[m - 1] # k
    BY <1>2, <1>9, <2>8
  <2>10. cuts[m - 1] < k
    BY <1>1, <2>7, <2>8, <2>9
  <2>11. QED
    BY <2>4, <2>6, <2>10
<1>10. LettersOf(ps) = Letters(t)
  <2>1. \A x : x \in LettersOf(ps) => x \in Letters(t)
    BY <1>1, <1>6, <1>8
  <2>2. ASSUME NEW x, x \in Letters(t)
        PROVE  x \in LettersOf(ps)
    <3>1. PICK k \in 1..l : Kind(t[k]) = Letter /\ x = t[k][2]
      BY <1>1, <2>2
    <3>2. PICK n \in 1..(N - 1) : cuts[n] < k /\ k < cuts[n + 1]
      BY <1>9, <3>1
    <3>3. x \in Letters(ps[n])
      BY <1>6, <3>1, <3>2
    <3>4. QED
      BY <1>8, <3>3
  <2>3. QED
    BY <2>1, <2>2
<1>11. ASSUME InOrderOfText(t)
       PROVE  Follow(ps)
  <2>1. ASSUME NEW m \in 1..(N - 1), NEW n \in 1..(N - 1), m < n,
               NEW x \in Letters(ps[m]), NEW y \in Letters(ps[n])
        PROVE  x < y
    <3>1. PICK i \in 1..l : i < cuts[m + 1] /\ Kind(t[i]) = Letter /\ x = t[i][2]
      BY <1>6, <2>1
    <3>2. PICK j \in 1..l : cuts[n] < j /\ Kind(t[j]) = Letter /\ y = t[j][2]
      BY <1>6, <2>1
    <3>3. /\ m + 1 \in 1..N /\ n \in 1..N /\ (m + 1 < n \/ m + 1 = n)
          /\ cuts[m + 1] \in 0..(l + 1) /\ cuts[n] \in 0..(l + 1)
      BY <1>3, <1>5, <2>1
    <3>4. cuts[m + 1] < cuts[n] \/ cuts[m + 1] = cuts[n]
      BY <1>3, <3>3
    <3>5. i < j
      BY <1>1, <3>1, <3>2, <3>3, <3>4
    <3>6. QED
      BY <1>1, <1>11, <3>1, <3>2, <3>5
  <2>2. QED
    BY <1>8, <2>1 DEF Follow, Precede
<1>12. InOrderOfText(t) => \A n \in 1..Len(ps) : InOrderOfText(ps[n])
  BY <1>6, <1>7
<1>13. QED
  BY <1>7, <1>10, <1>11, <1>12 DEF ps

\* Stripping takes no letter, and all of a blank text.
LEMMA Stripped ==
    ASSUME NEW t \in Texts
    PROVE  /\ Strip(t) \in Texts
           /\ Len(Strip(t)) <= Len(t)
           /\ Letters(Strip(t)) = Letters(t)
           /\ InOrderOfText(t) => InOrderOfText(Strip(t))
           /\ Strip(t) = <<>> <=> Blank(t)
           /\ Blank(t) => Letters(t) = {}
<1> DEFINE l == Len(t)
           solid == {i \in DOMAIN t : Kind(t[i]) \notin Blanks}
           s == Strip(t)
<1>1. /\ l \in Nat /\ DOMAIN t = 1..l
      /\ \A x : x \in Letters(t) <=> \E i \in 1..l : Kind(t[i]) = Letter /\ x = t[i][2]
      /\ Letter \notin Blanks
  BY TextIs, ChunkingAssumption
<1>2. Blank(t) <=> solid = {}
  BY DEF Blank
<1>3. /\ \A i \in solid : i \in 1..l
      /\ \A i \in 1..l : Kind(t[i]) = Letter => i \in solid
  BY <1>1
<1>4. Blank(t) => Letters(t) = {}
  BY <1>1, <1>2, <1>3
<1>5. CASE solid = {}
  <2>1. s = <<>>
    BY <1>5 DEF Strip
  <2>2. Letters(t) = {}
    BY <1>2, <1>4, <1>5
  <2> HIDE DEF s, solid
  <2>3. QED
    BY <1>1, <1>2, <1>4, <1>5, <2>1, <2>2, NoText DEF s
<1>6. CASE solid # {}
  <2> DEFINE i == CHOOSE a \in solid : \A b \in solid : a <= b
             j == CHOOSE a \in solid : \A b \in solid : a >= b
  <2>1. s = SubSeq(t, i, j)
    BY <1>6 DEF Strip
  <2>2. i \in solid /\ \A k \in solid : i <= k
    <3> HIDE DEF solid
    <3>1. solid \in SUBSET Nat
      BY <1>3
    <3>2. \E k \in solid : \A m \in solid : k <= m
      BY <1>6, <3>1, LeastNumber
    <3>3. QED
      BY <3>2
  <2>3. j \in solid /\ \A k \in solid : j >= k
    <3> DEFINE U == {l - k : k \in solid}
    <3> HIDE DEF solid
    <3>1. U \in SUBSET Nat /\ U # {}
      BY <1>1, <1>3, <1>6
    <3>2. PICK u \in U : \A m \in U : u <= m
      <4> HIDE DEF U
      <4>1. QED
        BY <3>1, LeastNumber
    <3>3. PICK k \in solid : u = l - k
      BY <3>2
    <3>4. ASSUME NEW m \in solid
          PROVE  k >= m
      <4>1. l - k <= l - m
        BY <3>2, <3>3
      <4>2. k \in 1..l /\ m \in 1..l
        BY <1>3
      <4>3. QED
        BY <1>1, <4>1, <4>2
    <3>5. \E k1 \in solid : \A m \in solid : k1 >= m
      BY <3>4
    <3>6. QED
      BY <3>5
  <2> HIDE DEF i, j, solid, s, l
  <2>4. i \in 1..l /\ j \in 1..l /\ i <= j
    BY <1>3, <2>2, <2>3
  <2>5. /\ s \in Texts /\ Len(s) = (j - i) + 1
        /\ \A x : x \in Letters(s) <=> \E k \in i..j : Kind(t[k]) = Letter /\ x = t[k][2]
        /\ InOrderOfText(t) => InOrderOfText(s)
    <3>1. i \in 1..(Len(t) + 1) /\ j \in 0..Len(t)
      BY <1>1, <2>4 DEF l
    <3>2. QED
      BY <2>1, <2>4, <3>1, SubText
  <2>6. \A k \in 1..l : Kind(t[k]) = Letter => k \in i..j
    BY <1>1, <1>3, <2>2, <2>3, <2>4
  <2>7. \A k \in i..j : k \in 1..l
    BY <1>1, <2>4
  <2>8. Letters(s) = Letters(t)
    <3>1. \A x : x \in Letters(s) => x \in Letters(t)
      BY <1>1, <2>5, <2>7
    <3>2. \A x : x \in Letters(t) => x \in Letters(s)
      BY <1>1, <2>5, <2>6
    <3>3. QED
      BY <3>1, <3>2
  <2>9. Len(s) <= l /\ s # <<>>
    <3>1. Len(s) <= l /\ Len(s) # 0
      BY <1>1, <2>4, <2>5
    <3>2. QED
      BY <3>1
  <2>10. QED
    BY <1>2, <1>4, <1>6, <2>5, <2>8, <2>9 DEF s, l
<1>7. QED
  BY <1>5, <1>6

\* Every number is in one of the steps that start at the multiples of step.
LEMMA StepOf ==
    ASSUME NEW step \in Nat \ {0}
    PROVE  \A x \in Nat : \E m \in 0..x : (\E k \in 0..m : m = k * step) /\ x < m + step
<1> DEFINE Multiple(m) == \E k \in 0..m : m = k * step
           T == {x \in Nat : \E m \in 0..x : Multiple(m) /\ x < m + step}
<1>1. Multiple(0)
  <2>1. 0 \in 0..0 /\ 0 = 0 * step
    OBVIOUS
  <2>2. QED
    BY <2>1
<1>2. ASSUME NEW m \in Nat, Multiple(m)
      PROVE  Multiple(m + step)
  <2>1. PICK k \in 0..m : m = k * step
    BY <1>2
  <2>2. (k + 1) * step = k * step + step
    OBVIOUS
  <2>3. m + step = (k + 1) * step
    BY <2>1, <2>2
  <2>4. k + 1 \in 0..(m + step)
    OBVIOUS
  <2>5. QED
    BY <2>3, <2>4
<1> HIDE DEF Multiple
<1>3. 0 \in T
  BY <1>1
<1>4. ASSUME NEW x \in T
      PROVE  x + 1 \in T
  <2>1. PICK m \in 0..x : Multiple(m) /\ x < m + step
    OBVIOUS
  <2>2. CASE x + 1 < m + step
    BY <2>1, <2>2
  <2>3. CASE ~(x + 1 < m + step)
    <3>1. m \in Nat /\ m + step \in 0..(x + 1) /\ x + 1 < (m + step) + step
      BY <2>1, <2>3
    <3>2. QED
      BY <1>2, <2>1, <3>1
  <2>4. QED
    BY <2>2, <2>3
<1>5. T = Nat
  <2>1. T \in SUBSET Nat /\ \A x \in T : x + 1 \in T
    BY <1>4
  <2> HIDE DEF T
  <2>2. QED
    BY <1>3, <2>1, Induction
<1>6. QED
  BY <1>5 DEF Multiple

\* The pieces of a fixed size are chunks with all letters of the text: each starts no more
\* than its size behind the one before, and one with a letter is not dropped.
LEMMA FixedSplitIsSound ==
    ASSUME NEW t \in Texts
    PROVE  /\ FixedSplit(t) \in Lists
           /\ InOrderOfText(t) => Sound(FixedSplit(t), t)
<1> DEFINE l == Len(t)
           step == chunk_size - chunk_overlap
           S == {i \in 0..(l - 1) : \E k \in 0..i : i = k * step}
           N == Cardinality(S)
           starts == InOrder(S)
           pieces == [n \in DOMAIN starts |->
                         SubSeq(t, starts[n] + 1, AtMost(starts[n] + chunk_size, l))]
           K == {n \in DOMAIN pieces : ~Blank(pieces[n])}
<1>1. /\ l \in Nat /\ DOMAIN t = 1..l
      /\ \A x : x \in Letters(t) <=> \E i \in 1..l : Kind(t[i]) = Letter /\ x = t[i][2]
  BY TextIs
<1>2. chunk_size \in Nat \ {0} /\ step \in Nat \ {0} /\ step <= chunk_size /\ Letter \notin Blanks
  BY ChunkingAssumption
<1>3. FixedSplit(t) = Picked(pieces, K)
  BY DEF FixedSplit
<1>4. \A i \in S : i \in 0..(l - 1)
  OBVIOUS
<1>5. \A x \in 0..(l - 1) : \E i \in S : i <= x /\ x < i + chunk_size
  <2> HIDE DEF l, step
  <2>1. ASSUME NEW x \in 0..(l - 1)
        PROVE  \E i \in S : i <= x /\ x < i + chunk_size
    <3>1. PICK m \in 0..x : (\E k \in 0..m : m = k * step) /\ x < m + step
      <4>1. x \in Nat
        BY <1>1
      <4>2. \A y \in Nat : \E m \in 0..y : (\E k \in 0..m : m = k * step) /\ y < m + step
        BY <1>2, StepOf, Zenon
      <4>3. QED
        BY <4>1, <4>2, Zenon
    <3>2. m \in 0..(l - 1)
      BY <1>1
    <3>3. m \in S
      BY <3>1, <3>2
    <3> HIDE DEF S
    <3>4. QED
      BY <1>1, <1>2, <3>1, <3>3
  <2>2. QED
    BY <2>1
<1> HIDE DEF l, step, S
<1>6. /\ N \in Nat /\ DOMAIN starts = 1..N
      /\ \A i \in S : \E k \in 1..N : starts[k] = i
      /\ \A k \in 1..N : starts[k] \in S /\ starts[k] \in 0..(l - 1)
  <2>1. IsFiniteSet(0..(l - 1))
    <3>1. 0 \in Int /\ l - 1 \in Int
      BY <1>1
    <3>2. QED
      BY <3>1, FS_Interval
  <2>2. IsFiniteSet(S) /\ S \in SUBSET Int
    <3>1. S \subseteq 0..(l - 1)
      BY <1>4
    <3>2. \A x \in S : x \in Int
      BY <1>4
    <3>3. QED
      BY <2>1, <3>1, <3>2, FS_Subset
  <2>3. N \in Nat
    BY <2>2, FS_CardinalityType
  <2>4. QED
    BY <1>4, <2>2, <2>3, Ordered
<1> HIDE DEF starts, N
<1>7. ASSUME NEW n \in 1..N
      PROVE  /\ pieces[n] \in Texts /\ Len(pieces[n]) <= chunk_size
             /\ InOrderOfText(t) => InOrderOfText(pieces[n])
             /\ \A x : x \in Letters(pieces[n]) <=>
                  \E k \in 1..l : /\ starts[n] < k /\ k <= starts[n] + chunk_size
                                  /\ Kind(t[k]) = Letter /\ x = t[k][2]
  <2> DEFINE a == starts[n]
             b == AtMost(a + chunk_size, l)
  <2>1. a \in 0..(l - 1)
    BY <1>6
  <2>2. pieces[n] = SubSeq(t, a + 1, b)
    BY <1>6
  <2> HIDE DEF a, pieces
  <2>3. b \in 0..l /\ a + 1 \in 1..(l + 1) /\ a + 1 <= b /\ b <= a + chunk_size
    BY <1>1, <1>2, <2>1 DEF AtMost
  <2>4. \A k : k \in (a + 1)..b <=> k \in 1..l /\ a < k /\ k <= a + chunk_size
    BY <1>1, <1>2, <2>1 DEF AtMost
  <2> HIDE DEF b
  <2>5. /\ pieces[n] \in Texts
        /\ Len(pieces[n]) = (b - (a + 1)) + 1
        /\ InOrderOfText(t) => InOrderOfText(pieces[n])
        /\ \A x : x \in Letters(pieces[n]) <=>
              \E k \in (a + 1)..b : Kind(t[k]) = Letter /\ x = t[k][2]
    <3>1. a + 1 \in 1..(Len(t) + 1) /\ b \in 0..Len(t)
      BY <2>3 DEF l
    <3>2. QED
      BY <2>2, <2>3, <3>1, SubText
  <2>6. Len(pieces[n]) <= chunk_size
    BY <1>1, <1>2, <2>1, <2>3, <2>5
  <2>7. \A x : x \in Letters(pieces[n]) <=>
              \E k \in 1..l : a < k /\ k <= a + chunk_size /\ Kind(t[k]) = Letter /\ x = t[k][2]
    BY <2>4, <2>5
  <2>8. QED
    BY <2>5, <2>6, <2>7 DEF a
<1>8. pieces \in Lists /\ Len(pieces) = N /\ DOMAIN pieces = 1..N
  <2>1. DOMAIN pieces = 1..N
    BY <1>6
  <2>2. pieces = [n \in 1..N |-> pieces[n]]
    BY <1>6
  <2> HIDE DEF pieces
  <2>3. pieces \in [1..N -> Texts]
    BY <1>7, <2>2
  <2>4. QED
    BY <1>6, <2>1, <2>3, SeqDef DEF Lists
<1> DEFINE cs == Picked(pieces, K)
<1>9. K \in SUBSET (DOMAIN pieces)
  OBVIOUS
<1> HIDE DEF pieces
<1>10. /\ cs \in Lists
       /\ (\A i \in DOMAIN pieces \ K : Letters(pieces[i]) = {}) => LettersOf(cs) = LettersOf(pieces)
       /\ \A k \in 1..Len(cs) : \E i \in K : cs[k] = pieces[i]
  <2> HIDE DEF K
  <2>1. QED
    BY <1>8, <1>9, PickedChunks
<1>11. LettersOf(cs) = LettersOf(pieces)
  <2>1. \A i \in DOMAIN pieces \ K : Letters(pieces[i]) = {}
    <3>1. \A i \in DOMAIN pieces \ K : Blank(pieces[i]) /\ i \in 1..N
      BY <1>8
    <3>2. QED
      BY <1>7, <3>1, Stripped
  <2>2. QED
    BY <1>10, <2>1
<1> HIDE DEF cs, K
<1>12. LettersOf(pieces) = Letters(t)
  <2>1. \A x : x \in LettersOf(pieces) <=> \E n \in 1..N : x \in Letters(pieces[n])
    <3>1. \A x : x \in LettersOf(pieces) <=> \E n \in 1..Len(pieces) : x \in Letters(pieces[n])
      BY <1>8, ListIs
    <3>2. QED
      BY <1>8, <3>1
  <2>2. \A x : x \in LettersOf(pieces) => x \in Letters(t)
    BY <1>1, <1>7, <2>1
  <2>3. ASSUME NEW x, x \in Letters(t)
        PROVE  x \in LettersOf(pieces)
    <3>1. PICK k \in 1..l : Kind(t[k]) = Letter /\ x = t[k][2]
      BY <1>1, <2>3
    <3>2. k - 1 \in 0..(l - 1)
      BY <1>1, <3>1
    <3>3. PICK i \in S : i <= k - 1 /\ k - 1 < i + chunk_size
      BY <1>5, <3>2
    <3>4. PICK n \in 1..N : starts[n] = i
      BY <1>6, <3>3
    <3>5. starts[n] < k /\ k <= starts[n] + chunk_size
      <4>1. i \in 0..(l - 1) /\ k \in 1..l
        BY <1>4, <3>1, <3>3
      <4>2. QED
        BY <1>1, <1>2, <3>3, <3>4, <4>1
    <3>6. x \in Letters(pieces[n])
      BY <1>7, <3>1, <3>5
    <3>7. QED
      BY <2>1, <3>6
  <2>4. QED
    BY <2>2, <2>3
<1>13. InOrderOfText(t) => \A k \in 1..Len(cs) : Chunk(cs[k])
  <2>1. InOrderOfText(t) => \A n \in 1..N : Chunk(pieces[n])
    BY <1>7 DEF Chunk
  <2>2. \A i \in K : i \in 1..N
    BY <1>8, <1>9
  <2>3. QED
    BY <1>10, <2>1, <2>2
<1>14. cs = FixedSplit(t)
  BY <1>3 DEF cs
<1>15. QED
  BY <1>10, <1>11, <1>12, <1>13, <1>14 DEF Sound

-----------------------------------------------------------------------------
\* The loop over the parts.

\* What the loop carries along.
Accs == [chunks : Lists, current : Texts]

LEMMA PutType ==
    ASSUME NEW acc \in Accs, NEW part \in Texts, NEW sep \in Range(separators),
           NEW finer \in [Texts -> Lists]
    PROVE  Put(acc, part, sep, finer) \in Accs
<1> DEFINE candidate == IF acc.current = <<>> THEN part
                        ELSE acc.current \o <<<<sep, 0>>>> \o part
           flushed == IF acc.current = <<>> THEN acc.chunks ELSE Append(acc.chunks, acc.current)
           long == flushed \o finer[part]
           p == Put(acc, part, sep, finer)
<1>1. acc.chunks \in Lists /\ acc.current \in Texts
  BY DEF Accs
<1>2. candidate \in Texts
  <2>1. <<<<sep, 0>>>> \in Texts
    <3>1. <<sep, 0>> \in Characters
      BY SeparatorsAre
    <3>2. QED
      BY <3>1 DEF Texts
  <2>2. acc.current \o <<<<sep, 0>>>> \in Texts
    BY <1>1, <2>1, JoinedText
  <2>3. acc.current \o <<<<sep, 0>>>> \o part \in Texts
    BY <2>2, JoinedText
  <2>4. QED
    BY <2>3
<1>3. flushed \in Lists
  <2>1. Append(acc.chunks, acc.current) \in Lists
    BY <1>1, AddedChunk
  <2>2. QED
    BY <1>1, <2>1
<1>4. long \in Lists
  <2> HIDE DEF flushed
  <2>1. finer[part] \in Lists
    OBVIOUS
  <2>2. QED
    BY <1>3, <2>1, AddedChunks
<1>5. \/ p = [chunks |-> acc.chunks, current |-> candidate]
      \/ p = [chunks |-> long, current |-> acc.current]
      \/ p = [chunks |-> flushed, current |-> part]
  BY Zenon DEF Put, Oversize
<1> HIDE DEF candidate, flushed, long, p
<1>6. p \in Accs
  BY <1>1, <1>2, <1>3, <1>4, <1>5 DEF Accs
<1>7. QED
  BY <1>6 DEF p

\* The recursion that defines Built.
LEMMA BuiltIs ==
    ASSUME NEW parts \in Lists, NEW sep \in Range(separators), NEW finer \in [Texts -> Lists]
    PROVE  /\ Built(parts, sep, finer) \in [0..Len(parts) -> Accs]
           /\ Built(parts, sep, finer)[0] = [chunks |-> <<>>, current |-> <<>>]
           /\ \A n \in 1..Len(parts) : Built(parts, sep, finer)[n]
                 = Put(Built(parts, sep, finer)[n - 1], parts[n], sep, finer)
<1> DEFINE l == Len(parts)
           first == [chunks |-> <<>>, current |-> <<>>]
           step == [n \in 1..l |-> [acc \in Accs |-> Put(acc, parts[n], sep, finer)]]
           B == Built(parts, sep, finer)
<1>1. l \in Nat /\ \A n \in 1..l : parts[n] \in Texts
  BY ListIs
<1>2. first \in Accs
  BY NoText DEF Accs
<1> HIDE DEF l
<1>3. step \in [1..l -> [Accs -> Accs]]
  <2>1. \A n \in 1..l : [acc \in Accs |-> Put(acc, parts[n], sep, finer)] \in [Accs -> Accs]
    <3>1. \A n \in 1..l, acc \in Accs : Put(acc, parts[n], sep, finer) \in Accs
      BY <1>1, PutType
    <3>2. QED
      BY <3>1
  <2>2. QED
    BY <2>1
<1> HIDE DEF step, first
<1>4. PICK f \in [0..l -> Accs] : f[0] = first /\ \A k \in 1..l : f[k] = step[k][f[k - 1]]
  <2>1. \E f \in [0..l -> Accs] : Iterates(f, first, step, l)
    BY <1>1, <1>2, <1>3, Recursion
  <2>2. QED
    BY <2>1 DEF Iterates
<1>5. \A k \in 1..l : k - 1 \in 0..l /\ k \in 0..l
  BY <1>1
<1>6. \A k \in 1..l : f[k] = Put(f[k - 1], parts[k], sep, finer)
  <2> TAKE k \in 1..l
  <2>1. f[k - 1] \in Accs
    BY <1>4, <1>5
  <2>2. step[k] = [acc \in Accs |-> Put(acc, parts[k], sep, finer)]
    BY DEF step
  <2>3. step[k][f[k - 1]] = Put(f[k - 1], parts[k], sep, finer)
    BY <2>1, <2>2
  <2>4. QED
    BY <1>4, <2>3
<1>7. f = [n \in 0..l |-> IF n = 0 THEN [chunks |-> <<>>, current |-> <<>>]
                          ELSE Put(f[n - 1], parts[n], sep, finer)]
  <2>1. f = [n \in 0..l |-> f[n]]
    BY <1>4
  <2>2. \A n \in 0..l : f[n] = IF n = 0 THEN [chunks |-> <<>>, current |-> <<>>]
                               ELSE Put(f[n - 1], parts[n], sep, finer)
    <3>1. \A n \in 0..l : n = 0 \/ n \in 1..l
      BY <1>1
    <3>2. f[0] = [chunks |-> <<>>, current |-> <<>>]
      BY <1>4 DEF first
    <3>3. QED
      BY <1>6, <3>1, <3>2, Zenon
  <2>3. QED
    BY <2>1, <2>2
<1>8. B = CHOOSE b : b = [n \in 0..l |-> IF n = 0 THEN [chunks |-> <<>>, current |-> <<>>]
                                         ELSE Put(b[n - 1], parts[n], sep, finer)]
  BY Zenon DEF Built, l, B
<1> HIDE DEF B
<1>9. B = [n \in 0..l |-> IF n = 0 THEN [chunks |-> <<>>, current |-> <<>>]
                          ELSE Put(B[n - 1], parts[n], sep, finer)]
  BY <1>7, <1>8, Zenon
<1>10. B[0] = first /\ \A n \in 1..l : B[n] = Put(B[n - 1], parts[n], sep, finer)
  <2>1. 0 \in 0..l
    BY <1>1
  <2>2. \A n \in 1..l : n # 0
    OBVIOUS
  <2>3. \A n \in 0..l : B[n] = IF n = 0 THEN [chunks |-> <<>>, current |-> <<>>]
                               ELSE Put(B[n - 1], parts[n], sep, finer)
    BY <1>9
  <2>4. B[0] = first
    BY <2>1, <2>3, Zenon DEF first
  <2>5. QED
    BY <1>5, <2>2, <2>3, <2>4
<1>11. \A n \in 0..l : B[n] \in Accs
  <2> DEFINE U == {n \in Nat : n <= l => B[n] \in Accs}
  <2>1. 0 \in U
    BY <1>2, <1>10
  <2>2. ASSUME NEW n \in U
        PROVE  n + 1 \in U
    <3>1. CASE n + 1 <= l
      <4>1. n + 1 \in 1..l /\ (n + 1) - 1 = n /\ B[n] \in Accs
        BY <1>1, <3>1
      <4>2. B[n + 1] = Put(B[n], parts[n + 1], sep, finer)
        BY <1>10, <4>1
      <4>3. B[n + 1] \in Accs
        BY <1>1, <4>1, <4>2, PutType
      <4>4. QED
        BY <4>3
    <3>2. CASE ~(n + 1 <= l)
      BY <3>2
    <3>3. QED
      BY <3>1, <3>2
  <2>3. U = Nat
    <3>1. U \in SUBSET Nat /\ \A n \in U : n + 1 \in U
      BY <2>2
    <3> HIDE DEF U
    <3>2. QED
      BY <2>1, <3>1, Induction
  <2>4. QED
    BY <1>1, <2>3
<1>12. B \in [0..l -> Accs]
  <2>1. B = [n \in 0..l |-> B[n]]
    BY <1>9
  <2>2. QED
    BY <1>11, <2>1
<1>13. QED
  BY <1>10, <1>12 DEF B, l, first

\* Parts that follow each other, and whose splits by the finer separators are right.
Splittable(parts, finer) ==
    /\ parts \in Lists
    /\ finer \in [Texts -> Lists]
    /\ Follow(parts)
    /\ \A n \in 1..Len(parts) : InOrderOfText(parts[n]) /\ Sound(finer[parts[n]], parts[n])

AllFit(parts) == \A n \in 1..Len(parts) : Len(parts[n]) <= chunk_size

\* After n parts, the chunks and the text being built have their letters; unless a part was
\* too long, the chunks follow each other and come before what is being built.
Carried(acc, n, parts) ==
    /\ acc \in Accs
    /\ \A k \in 1..Len(acc.chunks) : Chunk(acc.chunks[k])
    /\ Chunk(acc.current)
    /\ \A x : x \in LettersOf(acc.chunks) \/ x \in Letters(acc.current)
                <=> \E m \in 1..n : x \in Letters(parts[m])
    /\ AllFit(parts) => /\ Follow(acc.chunks)
                        /\ Precede(LettersOf(acc.chunks), Letters(acc.current))

\* The next part is put to the text being built, or behind it.
LEMMA PutCarries ==
    ASSUME NEW parts, NEW finer, Splittable(parts, finer), NEW sep \in Range(separators),
           NEW n \in 1..Len(parts), NEW acc, Carried(acc, n - 1, parts)
    PROVE  Carried(Put(acc, parts[n], sep, finer), n, parts)
<1> DEFINE cur == acc.current
           cs == acc.chunks
           part == parts[n]
           glue == <<<<sep, 0>>>>
           candidate == IF cur = <<>> THEN part ELSE cur \o glue \o part
           flushed == IF cur = <<>> THEN cs ELSE Append(cs, cur)
           long == flushed \o finer[part]
           p == Put(acc, part, sep, finer)
<1>1. /\ cs \in Lists /\ cur \in Texts /\ Chunk(cur)
      /\ \A k \in 1..Len(cs) : Chunk(cs[k])
      /\ \A x : x \in LettersOf(cs) \/ x \in Letters(cur) <=> \E m \in 1..(n - 1) : x \in Letters(parts[m])
      /\ AllFit(parts) => Follow(cs) /\ Precede(LettersOf(cs), Letters(cur))
  BY DEF Carried, Accs
<1>2. /\ parts \in Lists /\ Len(parts) \in Nat /\ DOMAIN parts = 1..Len(parts)
      /\ part \in Texts /\ InOrderOfText(part) /\ Sound(finer[part], part)
  BY ListIs DEF Splittable
<1>3. p \in Accs
  BY <1>2, PutType DEF Splittable, Carried
<1>4. /\ \A m \in 1..(n - 1) : m \in 1..n
      /\ \A m \in 1..n : m \in 1..(n - 1) \/ m = n
      /\ n \in 1..n
  OBVIOUS
\* What is there already comes before the part.
<1>5. Precede(LettersOf(cs), Letters(part)) /\ Precede(Letters(cur), Letters(part))
  <2>1. ASSUME NEW x, NEW m \in 1..(n - 1), x \in Letters(parts[m]), NEW y \in Letters(part)
        PROVE  x < y
    <3>1. m \in DOMAIN parts /\ n \in DOMAIN parts /\ m < n
      BY <1>2
    <3>2. Precede(Letters(parts[m]), Letters(parts[n]))
      BY <3>1 DEF Splittable, Follow
    <3>3. QED
      BY <2>1, <3>2 DEF Precede
  <2> HIDE DEF cs, cur, part
  <2>2. QED
    BY <1>1, <2>1 DEF Precede
<1>6. /\ glue \in Texts /\ Len(glue) = 1 /\ Letters(glue) = {} /\ InOrderOfText(glue)
  <2>1. <<sep, 0>> \in Characters /\ Kind(<<sep, 0>>) # Letter
    BY SeparatorsAre
  <2>2. glue \in Texts /\ Len(glue) = 1 /\ glue[1] = <<sep, 0>>
    BY <2>1 DEF Texts
  <2> HIDE DEF glue
  <2>3. \A i \in 1..Len(glue) : Kind(glue[i]) # Letter
    BY <2>1, <2>2
  <2>4. \A x : x \notin Letters(glue)
    BY <2>2, <2>3, TextIs
  <2>5. InOrderOfText(glue)
    BY <2>2, <2>3, TextIs
  <2>6. QED
    BY <2>2, <2>4, <2>5
<1> HIDE DEF cs, cur, part, glue
<1>7. /\ candidate \in Texts /\ InOrderOfText(candidate)
      /\ \A x : x \in Letters(candidate) <=> x \in Letters(cur) \/ x \in Letters(part)
  <2>1. CASE cur = <<>>
    <3>1. Letters(cur) = {}
      BY <2>1, NoText
    <3>2. QED
      BY <1>2, <2>1, <3>1
  <2>2. CASE cur # <<>>
    <3> DEFINE a == cur \o glue
    <3>1. InOrderOfText(cur)
      BY <1>1 DEF Chunk
    <3>2. a \in Texts /\ Letters(a) = Letters(cur) /\ InOrderOfText(a)
      <4>1. a \in Texts /\ Letters(a) = Letters(cur) \cup Letters(glue)
        BY <1>1, <1>6, JoinedText
      <4>2. \A x \in Letters(cur), y \in Letters(glue) : x < y
        BY <1>6
      <4>3. InOrderOfText(a)
        BY <1>1, <1>6, <3>1, <4>2, JoinedText
      <4>4. QED
        BY <1>6, <4>1, <4>3
    <3>3. candidate = a \o part
      BY <2>2
    <3> HIDE DEF a, candidate
    <3>4. a \o part \in Texts /\ Letters(a \o part) = Letters(a) \cup Letters(part)
      BY <1>2, <3>2, JoinedText
    <3>5. InOrderOfText(a \o part)
      <4>1. \A x \in Letters(a), y \in Letters(part) : x < y
        BY <1>5, <3>2 DEF Precede
      <4>2. QED
        BY <1>2, <3>2, <4>1, JoinedText
    <3>6. QED
      BY <3>2, <3>3, <3>4, <3>5
  <2>3. QED
    BY <2>1, <2>2
<1>8. /\ flushed \in Lists
      /\ \A x : x \in LettersOf(flushed) <=> x \in LettersOf(cs) \/ x \in Letters(cur)
      /\ \A k \in 1..Len(flushed) : Chunk(flushed[k])
      /\ AllFit(parts) => Follow(flushed)
  <2>1. CASE cur = <<>>
    <3>1. Letters(cur) = {}
      BY <2>1, NoText
    <3>2. flushed = cs
      BY <2>1
    <3> HIDE DEF flushed
    <3>3. QED
      BY <1>1, <3>1, <3>2
  <2>2. CASE cur # <<>>
    <3>1. flushed = Append(cs, cur)
      BY <2>2
    <3> HIDE DEF flushed
    <3>2. /\ Append(cs, cur) \in Lists
          /\ LettersOf(Append(cs, cur)) = LettersOf(cs) \cup Letters(cur)
          /\ \A k \in 1..Len(Append(cs, cur)) : Chunk(Append(cs, cur)[k])
          /\ AllFit(parts) => Follow(Append(cs, cur))
      BY <1>1, AddedChunk
    <3>3. QED
      BY <3>1, <3>2
  <2>3. QED
    BY <2>1, <2>2
<1>9. \/ p = [chunks |-> cs, current |-> candidate] /\ Len(candidate) <= chunk_size
      \/ p = [chunks |-> long, current |-> cur] /\ Len(part) > chunk_size
      \/ p = [chunks |-> flushed, current |-> part] /\ ~(Len(part) > chunk_size)
  BY Zenon DEF Put, Oversize, cs, cur, part, glue
<1> HIDE DEF candidate, flushed, p
<1> SUFFICES Carried(p, n, parts)
  BY DEF p, part
\* All the letters so far.
<1>10. \A x : (\E m \in 1..n : x \in Letters(parts[m]))
                <=> x \in LettersOf(cs) \/ x \in Letters(cur) \/ x \in Letters(part)
  <2>1. \A x : (\E m \in 1..n : x \in Letters(parts[m]))
                 <=> (\E m \in 1..(n - 1) : x \in Letters(parts[m])) \/ x \in Letters(parts[n])
    BY <1>4, Zenon
  <2>2. QED
    BY <1>1, <2>1 DEF part
<1>11. CASE p = [chunks |-> cs, current |-> candidate] /\ Len(candidate) <= chunk_size
  <2>1. p.chunks = cs /\ p.current = candidate
    BY <1>11
  <2>2. Chunk(candidate)
    BY <1>7, <1>11 DEF Chunk
  <2>3. AllFit(parts) => Follow(cs) /\ Precede(LettersOf(cs), Letters(candidate))
    BY <1>1, <1>5, <1>7 DEF Precede
  <2>4. \A x : x \in LettersOf(cs) \/ x \in Letters(candidate) <=> \E m \in 1..n : x \in Letters(parts[m])
    BY <1>7, <1>10
  <2>5. QED
    BY <1>1, <1>3, <2>1, <2>2, <2>3, <2>4, Zenon DEF Carried
<1>12. CASE p = [chunks |-> long, current |-> cur] /\ Len(part) > chunk_size
  <2>1. p.chunks = long /\ p.current = cur
    BY <1>12
  <2>2. finer[part] \in Lists /\ LettersOf(finer[part]) = Letters(part)
        /\ \A k \in 1..Len(finer[part]) : Chunk(finer[part][k])
    BY <1>2 DEF Sound
  <2>3. /\ LettersOf(long) = LettersOf(flushed) \cup Letters(part)
        /\ \A k \in 1..Len(long) : Chunk(long[k])
    BY <1>8, <2>2, AddedChunks
  <2> HIDE DEF long
  <2>4. ~AllFit(parts)
    <3>1. part = parts[n] /\ part \in Texts
      BY <1>2 DEF part
    <3>2. Len(part) \in Nat /\ chunk_size \in Nat
      BY <3>1, TextIs, ChunkingAssumption
    <3>3. ~(Len(parts[n]) <= chunk_size)
      BY <1>12, <3>1, <3>2
    <3>4. QED
      BY <3>3 DEF AllFit
  <2>5. \A x : x \in LettersOf(long) \/ x \in Letters(cur) <=> \E m \in 1..n : x \in Letters(parts[m])
    BY <1>8, <1>10, <2>3
  <2>6. QED
    BY <1>1, <1>3, <2>1, <2>3, <2>4, <2>5, Zenon DEF Carried
<1>13. CASE p = [chunks |-> flushed, current |-> part] /\ ~(Len(part) > chunk_size)
  <2>1. p.chunks = flushed /\ p.current = part
    BY <1>13
  <2>2. Chunk(part)
    <3>1. Len(part) \in Nat /\ chunk_size \in Nat
      BY <1>2, TextIs, ChunkingAssumption
    <3>2. Len(part) <= chunk_size
      BY <1>13, <3>1
    <3>3. QED
      BY <1>2, <3>2 DEF Chunk
  <2>3. Precede(LettersOf(flushed), Letters(part))
    BY <1>5, <1>8 DEF Precede
  <2>4. \A x : x \in LettersOf(flushed) \/ x \in Letters(part) <=> \E m \in 1..n : x \in Letters(parts[m])
    BY <1>8, <1>10
  <2>5. QED
    BY <1>3, <1>8, <2>1, <2>2, <2>3, <2>4, Zenon DEF Carried
<1>14. QED
  BY <1>9, <1>11, <1>12, <1>13

\* What is still being built after the last part is a chunk as well.
LEMMA JoinType ==
    ASSUME NEW parts \in Lists, NEW sep \in Range(separators), NEW finer \in [Texts -> Lists]
    PROVE  Join(parts, sep, finer) \in Lists
<1> DEFINE end == Built(parts, sep, finer)[Len(parts)]
<1>1. end \in Accs
  <2>1. Len(parts) \in 0..Len(parts)
    BY ListIs
  <2>2. Built(parts, sep, finer) \in [0..Len(parts) -> Accs]
    BY BuiltIs
  <2>3. QED
    BY <2>1, <2>2
<1>2. Join(parts, sep, finer) = IF end.current = <<>> THEN end.chunks
                                ELSE Append(end.chunks, end.current)
  BY Zenon DEF Join
<1> HIDE DEF end
<1>3. end.chunks \in Lists /\ end.current \in Texts
  BY <1>1 DEF Accs
<1>4. Append(end.chunks, end.current) \in Lists
  BY <1>3, AddedChunk
<1>5. QED
  BY <1>2, <1>3, <1>4

LEMMA JoinIsSound ==
    ASSUME NEW parts, NEW finer, Splittable(parts, finer), NEW sep \in Range(separators)
    PROVE  /\ \A n \in 1..Len(Join(parts, sep, finer)) : Chunk(Join(parts, sep, finer)[n])
           /\ LettersOf(Join(parts, sep, finer)) = LettersOf(parts)
           /\ AllFit(parts) => Follow(Join(parts, sep, finer))
<1> DEFINE l == Len(parts)
           B == Built(parts, sep, finer)
           end == B[l]
           cs == Join(parts, sep, finer)
           T == {n \in Nat : n <= l => Carried(B[n], n, parts)}
<1>1. /\ parts \in Lists /\ l \in Nat
      /\ \A x : x \in LettersOf(parts) <=> \E n \in 1..l : x \in Letters(parts[n])
      /\ finer \in [Texts -> Lists]
  BY ListIs DEF Splittable
<1>2. /\ B[0] = [chunks |-> <<>>, current |-> <<>>]
      /\ \A n \in 1..l : B[n] = Put(B[n - 1], parts[n], sep, finer)
  BY <1>1, BuiltIs
<1>3. cs = IF end.current = <<>> THEN end.chunks ELSE Append(end.chunks, end.current)
  BY Zenon DEF Join
<1> HIDE DEF B, cs
<1>4. 0 \in T
  <2>1. B[0].chunks = <<>> /\ B[0].current = <<>> /\ B[0] \in Accs
    BY <1>2, NoText DEF Accs
  <2>2. Chunk(<<>>)
    BY NoText, ChunkingAssumption DEF Chunk
  <2>3. \A k \in 1..Len(B[0].chunks) : Chunk(B[0].chunks[k])
    BY <2>1
  <2>4. LettersOf(B[0].chunks) = {} /\ Letters(B[0].current) = {}
    BY <2>1, NoText
  <2>5. Follow(B[0].chunks)
    BY <2>1 DEF Follow
  <2>6. \A x : x \in LettersOf(B[0].chunks) \/ x \in Letters(B[0].current)
                 <=> \E m \in 1..0 : x \in Letters(parts[m])
    BY <2>4
  <2>7. Precede(LettersOf(B[0].chunks), Letters(B[0].current))
    BY <2>4 DEF Precede
  <2>8. Chunk(B[0].current)
    BY <2>1, <2>2
  <2>9. Carried(B[0], 0, parts)
    BY <2>1, <2>3, <2>5, <2>6, <2>7, <2>8, Zenon DEF Carried
  <2>10. QED
    BY <2>9
<1>5. ASSUME NEW n \in T
      PROVE  n + 1 \in T
  <2>1. CASE n + 1 <= l
    <3>1. n + 1 \in 1..l /\ (n + 1) - 1 = n /\ Carried(B[n], n, parts)
      BY <1>1, <2>1
    <3>2. B[n + 1] = Put(B[n], parts[n + 1], sep, finer)
      BY <1>2, <3>1
    <3>3. Carried(Put(B[n], parts[n + 1], sep, finer), n + 1, parts)
      BY <3>1, PutCarries
    <3>4. QED
      BY <3>2, <3>3
  <2>2. CASE ~(n + 1 <= l)
    BY <2>2
  <2>3. QED
    BY <2>1, <2>2
<1>6. T = Nat
  <2>1. T \in SUBSET Nat /\ \A n \in T : n + 1 \in T
    BY <1>5
  <2> HIDE DEF T
  <2>2. QED
    BY <1>4, <2>1, Induction
<1>7. Carried(end, l, parts)
  BY <1>1, <1>6
<1> HIDE DEF end, T
<1>8. /\ end.chunks \in Lists /\ end.current \in Texts /\ Chunk(end.current)
      /\ \A k \in 1..Len(end.chunks) : Chunk(end.chunks[k])
      /\ \A x : x \in LettersOf(end.chunks) \/ x \in Letters(end.current) <=> x \in LettersOf(parts)
      /\ AllFit(parts) => Follow(end.chunks) /\ Precede(LettersOf(end.chunks), Letters(end.current))
  <2>1. \A x : x \in LettersOf(end.chunks) \/ x \in Letters(end.current)
                 <=> \E m \in 1..l : x \in Letters(parts[m])
    BY <1>7, Zenon DEF Carried
  <2>2. end \in Accs
    BY <1>7 DEF Carried
  <2>3. QED
    BY <1>1, <1>7, <2>1, <2>2 DEF Carried, Accs
<1>9. CASE end.current = <<>>
  <2>1. cs = end.chunks /\ Letters(end.current) = {}
    BY <1>3, <1>9, NoText
  <2>2. LettersOf(cs) = LettersOf(parts)
    BY <1>8, <2>1
  <2>3. QED
    BY <1>8, <2>1, <2>2 DEF cs
<1>10. CASE end.current # <<>>
  <2> DEFINE ds == Append(end.chunks, end.current)
  <2>1. cs = ds
    BY <1>3, <1>10
  <2>2. /\ LettersOf(ds) = LettersOf(end.chunks) \cup Letters(end.current)
        /\ \A n \in 1..Len(ds) : Chunk(ds[n])
        /\ AllFit(parts) => Follow(ds)
    BY <1>8, AddedChunk
  <2> HIDE DEF ds
  <2>3. LettersOf(ds) = LettersOf(parts)
    BY <1>8, <2>2
  <2>4. QED
    BY <2>1, <2>2, <2>3 DEF cs
<1>11. QED
  BY <1>9, <1>10

-----------------------------------------------------------------------------
\* The recursion over the separators.

Splits == [Texts -> Lists]

LEMMA SeparatorIs ==
    /\ Len(separators) \in Nat
    /\ \A k \in 1..Len(separators) : Separator(k) \in Range(separators)
<1>1. Len(separators) \in Nat /\ \A i \in 1..Len(separators) : separators[i] \in Range(separators)
  BY ChunkingAssumption
<1>2. \A k \in 1..Len(separators) : (Len(separators) - k) + 1 \in 1..Len(separators)
  BY <1>1
<1>3. QED
  BY <1>1, <1>2 DEF Separator

\* A text that fits is one chunk, if it is not blank.
LEMMA Whole ==
    ASSUME NEW t \in Texts
    PROVE  LET cs == IF Blank(t) THEN <<>> ELSE <<t>>
           IN  /\ cs \in Lists
               /\ Len(t) <= chunk_size /\ InOrderOfText(t) => Sound(cs, t)
               /\ Follow(cs)
<1> DEFINE cs == IF Blank(t) THEN <<>> ELSE <<t>>
<1>1. CASE Blank(t)
  <2>1. cs = <<>> /\ Letters(t) = {}
    BY <1>1, Stripped
  <2>2. Follow(<<>>)
    BY DEF Follow
  <2> HIDE DEF cs
  <2>3. Sound(<<>>, t)
    BY <2>1, NoText DEF Sound
  <2>4. QED
    BY <2>1, <2>2, <2>3, NoText DEF cs
<1>2. CASE ~Blank(t)
  <2>1. cs = <<t>>
    BY <1>2
  <2> HIDE DEF cs
  <2>2. cs \in Lists /\ Len(cs) = 1 /\ cs[1] = t
    BY <2>1 DEF Lists
  <2>3. LettersOf(cs) = Letters(t)
    <3>1. \A x : x \in LettersOf(cs) <=> x \in Letters(t)
      BY <2>2, ListIs
    <3>2. QED
      BY <3>1
  <2>4. Follow(cs)
    BY <2>2, ListIs DEF Follow
  <2>5. Len(t) <= chunk_size /\ InOrderOfText(t) => Sound(cs, t)
    BY <2>2, <2>3 DEF Sound, Chunk
  <2>6. QED
    BY <2>2, <2>4, <2>5 DEF cs
<1>3. QED
  BY <1>1, <1>2

LEMMA SplitByType ==
    ASSUME NEW t \in Texts, NEW k \in 0..Len(separators), NEW finer, k = 0 \/ finer \in Splits
    PROVE  SplitBy(t, k, finer) \in Lists
<1>1. (IF Blank(t) THEN <<>> ELSE <<t>>) \in Lists
  BY Whole
<1>2. FixedSplit(t) \in Lists
  BY FixedSplitIsSound
<1>3. ASSUME k # 0
      PROVE  finer[t] \in Lists /\ Separator(k) \in Range(separators)
  <2>1. k \in 1..Len(separators)
    BY <1>3, SeparatorIs
  <2>2. QED
    BY <1>3, <2>1, SeparatorIs DEF Splits
<1>4. ASSUME k # 0
      PROVE  Join(Parts(t, Separator(k)), Separator(k), finer) \in Lists
  <2>1. Parts(t, Separator(k)) \in Lists
    BY <1>3, <1>4, PartsFollow
  <2>2. QED
    BY <1>3, <1>4, <2>1, JoinType DEF Splits
<1>5. QED
  BY <1>1, <1>2, <1>3, <1>4 DEF SplitBy

\* Without separators there is nothing finer.
LEMMA NoFiner ==
    ASSUME NEW t, NEW f, NEW g
    PROVE  SplitBy(t, 0, f) = SplitBy(t, 0, g)
BY DEF SplitBy

\* The recursion that defines RecursiveSplit.
LEMMA RecursiveSplitIs ==
    /\ RecursiveSplit \in [0..Len(separators) -> Splits]
    /\ \A t \in Texts : RecursiveSplit[0][t] = SplitBy(t, 0, <<>>)
    /\ \A k \in 1..Len(separators), t \in Texts :
          RecursiveSplit[k][t] = SplitBy(t, k, RecursiveSplit[k - 1])
<1> DEFINE l == Len(separators)
           first == [t \in Texts |-> SplitBy(t, 0, <<>>)]
           step == [k \in 1..l |-> [g \in Splits |-> [t \in Texts |-> SplitBy(t, k, g)]]]
           R == RecursiveSplit
<1>1. l \in Nat /\ 0 \in 0..l /\ \A k \in 1..l : k - 1 \in 0..l /\ k \in 0..l /\ k # 0
  BY SeparatorIs
<1>2. first \in Splits
  <2>1. \A t \in Texts : SplitBy(t, 0, <<>>) \in Lists
    BY <1>1, SplitByType
  <2>2. QED
    BY <2>1 DEF Splits
<1>3. \A k \in 1..l, g \in Splits : [t \in Texts |-> SplitBy(t, k, g)] \in Splits
  <2> TAKE k \in 1..l, g \in Splits
  <2>1. \A t \in Texts : SplitBy(t, k, g) \in Lists
    BY <1>1, SplitByType
  <2>2. QED
    BY <2>1 DEF Splits
<1>4. step \in [1..l -> [Splits -> Splits]]
  <2>1. \A k \in 1..l : [g \in Splits |-> [t \in Texts |-> SplitBy(t, k, g)]] \in [Splits -> Splits]
    BY <1>3
  <2>2. QED
    BY <2>1
<1> HIDE DEF l, first, step, R
<1>5. PICK f \in [0..l -> Splits] : f[0] = first /\ \A k \in 1..l : f[k] = step[k][f[k - 1]]
  <2>1. \E f \in [0..l -> Splits] : Iterates(f, first, step, l)
    BY <1>1, <1>2, <1>4, Recursion
  <2>2. QED
    BY <2>1 DEF Iterates
<1>6. f[0] = [t \in Texts |-> SplitBy(t, 0, f[0 - 1])]
  <2>1. \A t \in Texts : SplitBy(t, 0, <<>>) = SplitBy(t, 0, f[0 - 1])
    BY NoFiner
  <2>2. QED
    BY <1>5, <2>1 DEF first
<1>7. ASSUME NEW k \in 1..l
      PROVE  f[k] = [t \in Texts |-> SplitBy(t, k, f[k - 1])]
  <2>1. f[k - 1] \in Splits
    BY <1>1, <1>5
  <2>2. step[k] = [g \in Splits |-> [t \in Texts |-> SplitBy(t, k, g)]]
    BY DEF step
  <2>3. step[k][f[k - 1]] = [t \in Texts |-> SplitBy(t, k, f[k - 1])]
    BY <2>1, <2>2
  <2>4. QED
    BY <1>5, <2>3
<1>8. f = [k \in 0..l |-> [t \in Texts |-> SplitBy(t, k, f[k - 1])]]
  <2>1. \A k \in 0..l : f[k] = [t \in Texts |-> SplitBy(t, k, f[k - 1])]
    <3>1. \A k \in 0..l : k = 0 \/ k \in 1..l
      BY <1>1
    <3>2. QED
      BY <1>6, <1>7, <3>1, Zenon
  <2>2. f = [k \in 0..l |-> f[k]]
    BY <1>5
  <2>3. QED
    BY <2>1, <2>2, Zenon
<1>9. R = CHOOSE r : r = [k \in 0..l |-> [t \in Texts |-> SplitBy(t, k, r[k - 1])]]
  BY Zenon DEF RecursiveSplit, R, l, Texts
<1>10. R = [k \in 0..l |-> [t \in Texts |-> SplitBy(t, k, R[k - 1])]]
  BY <1>8, <1>9, Zenon
<1>11. \A k \in 0..l : R[k] = [t \in Texts |-> SplitBy(t, k, R[k - 1])]
  BY <1>10, Zenon
<1>12. \A t \in Texts : R[0][t] = SplitBy(t, 0, <<>>)
  <2>1. R[0] = [t \in Texts |-> SplitBy(t, 0, R[0 - 1])]
    BY <1>1, <1>11
  <2>2. \A t \in Texts : R[0][t] = SplitBy(t, 0, R[0 - 1])
    BY <2>1, Zenon
  <2>3. QED
    BY <2>2, NoFiner
<1>13. \A k \in 1..l, t \in Texts : R[k][t] = SplitBy(t, k, R[k - 1])
  <2> TAKE k \in 1..l, t \in Texts
  <2>1. R[k] = [u \in Texts |-> SplitBy(u, k, R[k - 1])]
    BY <1>1, <1>11
  <2>2. QED
    BY <2>1, Zenon
<1>14. \A k \in 0..l : R[k] \in Splits
  <2> DEFINE U == {k \in Nat : k <= l => R[k] \in Splits}
  <2>1. 0 \in U
    <3>1. R[0] = [t \in Texts |-> SplitBy(t, 0, R[0 - 1])]
      BY <1>1, <1>11
    <3>2. \A t \in Texts : SplitBy(t, 0, R[0 - 1]) \in Lists
      BY <1>1, SplitByType DEF l
    <3>3. R[0] \in Splits
      BY <3>1, <3>2 DEF Splits
    <3>4. QED
      BY <3>3
  <2>2. ASSUME NEW k \in U
        PROVE  k + 1 \in U
    <3>1. CASE k + 1 <= l
      <4>1. k + 1 \in 1..l /\ k + 1 \in 0..l /\ (k + 1) - 1 = k /\ R[k] \in Splits
        BY <1>1, <3>1
      <4>2. R[k + 1] = [t \in Texts |-> SplitBy(t, k + 1, R[k])]
        BY <1>11, <4>1
      <4>3. R[k + 1] \in Splits
        BY <1>3, <4>1, <4>2
      <4>4. QED
        BY <4>3
    <3>2. CASE ~(k + 1 <= l)
      BY <3>2
    <3>3. QED
      BY <3>1, <3>2
  <2>3. U = Nat
    <3>1. U \in SUBSET Nat /\ \A k \in U : k + 1 \in U
      BY <2>2
    <3> HIDE DEF U
    <3>2. QED
      BY <2>1, <3>1, Induction
  <2>4. QED
    BY <1>1, <2>3
<1>15. R \in [0..l -> Splits]
  <2>1. R = [k \in 0..l |-> R[k]]
    BY <1>10
  <2>2. QED
    BY <1>14, <2>1
<1>16. QED
  BY <1>12, <1>13, <1>15 DEF R, l

\* A split that is right for every text.
Right(finer) ==
    /\ finer \in Splits
    /\ \A u \in Texts : InOrderOfText(u) => Sound(finer[u], u)

\* The parts of a text can be split by what is right for every text.
LEMMA PartsAreSplittable ==
    ASSUME NEW t \in Texts, InOrderOfText(t), NEW sep \in Range(separators), NEW finer, Right(finer)
    PROVE  Splittable(Parts(t, sep), finer)
<1>1. /\ Parts(t, sep) \in Lists /\ Follow(Parts(t, sep))
      /\ \A n \in 1..Len(Parts(t, sep)) : InOrderOfText(Parts(t, sep)[n])
  BY PartsFollow
<1>2. \A n \in 1..Len(Parts(t, sep)) : Parts(t, sep)[n] \in Texts
  BY <1>1, ListIs
<1>3. \A n \in 1..Len(Parts(t, sep)) : Sound(finer[Parts(t, sep)[n]], Parts(t, sep)[n])
  BY <1>1, <1>2 DEF Right
<1>4. QED
  BY <1>1, <1>3 DEF Splittable, Right, Splits

\* What one level makes of a text is right, if the finer one is.
LEMMA SplitByIsSound ==
    ASSUME NEW t \in Texts, InOrderOfText(t), NEW k \in 0..Len(separators), NEW finer,
           k = 0 \/ Right(finer)
    PROVE  Sound(SplitBy(t, k, finer), t)
<1> DEFINE sep == Separator(k)
           cs == Join(Parts(t, sep), sep, finer)
<1>1. Len(t) <= chunk_size => Sound(IF Blank(t) THEN <<>> ELSE <<t>>, t)
  BY Whole
<1>2. Sound(FixedSplit(t), t)
  BY FixedSplitIsSound
<1>3. k # 0 => Sound(finer[t], t)
  BY DEF Right
<1>4. ASSUME k # 0
      PROVE  Sound(cs, t)
  <2>1. sep \in Range(separators)
    <3>1. k \in 1..Len(separators)
      BY <1>4, SeparatorIs
    <3>2. QED
      BY <3>1, SeparatorIs
  <2> HIDE DEF sep
  <2>2. Splittable(Parts(t, sep), finer)
    BY <1>4, <2>1, PartsAreSplittable
  <2>3. /\ \A n \in 1..Len(cs) : Chunk(cs[n])
        /\ LettersOf(cs) = LettersOf(Parts(t, sep))
    BY <2>1, <2>2, JoinIsSound
  <2>4. LettersOf(Parts(t, sep)) = Letters(t) /\ Parts(t, sep) \in Lists
    BY <2>1, PartsFollow
  <2>5. cs \in Lists
    BY <1>4, <2>1, <2>4, JoinType DEF Right, Splits
  <2> HIDE DEF cs
  <2>6. QED
    BY <2>3, <2>4, <2>5 DEF Sound
<1>5. QED
  BY <1>1, <1>2, <1>3, <1>4 DEF SplitBy

\* The split is right for every text, whatever separators are left.
LEMMA RecursiveSplitIsRight ==
    \A k \in 0..Len(separators) : Right(RecursiveSplit[k])
<1> DEFINE l == Len(separators)
           R == RecursiveSplit
           U == {k \in Nat : k <= l => Right(R[k])}
<1>1. /\ R \in [0..l -> Splits]
      /\ \A t \in Texts : R[0][t] = SplitBy(t, 0, <<>>)
      /\ \A k \in 1..l, t \in Texts : R[k][t] = SplitBy(t, k, R[k - 1])
  BY RecursiveSplitIs
<1>2. l \in Nat
  BY SeparatorIs
<1> HIDE DEF R
<1>3. 0 \in U
  <2>1. 0 \in 0..l /\ R[0] \in Splits
    BY <1>1, <1>2
  <2>2. \A t \in Texts : InOrderOfText(t) => Sound(SplitBy(t, 0, <<>>), t)
    BY <2>1, SplitByIsSound
  <2>3. Right(R[0])
    BY <1>1, <2>1, <2>2 DEF Right
  <2>4. QED
    BY <2>3
<1>4. ASSUME NEW k \in U
      PROVE  k + 1 \in U
  <2>1. CASE k + 1 <= l
    <3>1. k + 1 \in 1..l /\ k + 1 \in 0..l /\ (k + 1) - 1 = k /\ Right(R[k])
      BY <1>2, <2>1
    <3>2. \A t \in Texts : InOrderOfText(t) => Sound(SplitBy(t, k + 1, R[k]), t)
      BY <3>1, SplitByIsSound
    <3>3. \A t \in Texts : R[k + 1][t] = SplitBy(t, k + 1, R[k])
      BY <1>1, <3>1
    <3>4. R[k + 1] \in Splits
      BY <1>1, <3>1
    <3>5. Right(R[k + 1])
      BY <3>2, <3>3, <3>4 DEF Right
    <3>6. QED
      BY <3>5
  <2>2. CASE ~(k + 1 <= l)
    BY <2>2
  <2>3. QED
    BY <2>1, <2>2
<1>5. U = Nat
  <2>1. U \in SUBSET Nat /\ \A k \in U : k + 1 \in U
    BY <1>4
  <2> HIDE DEF U
  <2>2. QED
    BY <1>3, <2>1, Induction
<1>6. QED
  BY <1>2, <1>5 DEF R

\* Unless a part is too long by itself, the chunks of a text follow each other.
LEMMA FittingSplitFollows ==
    ASSUME NEW t \in Texts, InOrderOfText(t), Fits(t)
    PROVE  Follow(RecursiveSplit[Len(separators)][t])
<1> DEFINE l == Len(separators)
           R == RecursiveSplit
<1>1. /\ R \in [0..l -> Splits]
      /\ \A u \in Texts : R[0][u] = SplitBy(u, 0, <<>>)
      /\ \A k \in 1..l, u \in Texts : R[k][u] = SplitBy(u, k, R[k - 1])
  BY RecursiveSplitIs
<1>2. /\ l \in Nat /\ DOMAIN separators = 1..l
      /\ \A k \in 1..l : Separator(k) \in Range(separators)
      /\ \A k \in 0..l : Right(R[k])
  BY SeparatorIs, RecursiveSplitIsRight, ChunkingAssumption
<1> HIDE DEF R
<1>3. CASE Len(t) <= chunk_size
  <2>1. PICK f : R[l][t] = SplitBy(t, l, f)
    <3>1. CASE l = 0
      BY <1>1, <3>1
    <3>2. CASE l # 0
      <4>1. l \in 1..l
        BY <1>2, <3>2
      <4>2. QED
        BY <1>1, <4>1
    <3>3. QED
      BY <3>1, <3>2
  <2>2. R[l][t] = IF Blank(t) THEN <<>> ELSE <<t>>
    BY <1>3, <2>1 DEF SplitBy
  <2>3. QED
    BY <2>2, Whole DEF R
<1>4. CASE ~(Len(t) <= chunk_size)
  <2> DEFINE ps(n) == Parts(t, separators[n])
  <2>1. PICK n \in 1..l : /\ Has(t, separators[n])
                          /\ \A m \in 1..(n - 1) : ~Has(t, separators[m])
                          /\ \A i \in DOMAIN ps(n) : Len(ps(n)[i]) <= chunk_size
    BY <1>2, <1>4 DEF Fits
  <2> DEFINE K == (l - n) + 1
             sep == separators[n]
             cs == Join(Parts(t, sep), sep, R[K - 1])
  <2>2. K \in 1..l /\ K - 1 \in 0..l /\ Separator(K) = sep /\ sep \in Range(separators) /\ K # 0
    <3>1. K \in 1..l /\ K - 1 \in 0..l /\ (l - K) + 1 = n /\ K # 0
      BY <1>2
    <3>2. Separator(K) = sep
      BY <3>1 DEF Separator
    <3>3. QED
      BY <1>2, <3>1, <3>2
  <2> HIDE DEF K
  <2>3. R[K][t] = cs
    <3>1. R[K][t] = SplitBy(t, K, R[K - 1])
      BY <1>1, <2>2
    <3>2. SplitBy(t, K, R[K - 1]) = cs
      BY <1>4, <2>1, <2>2 DEF SplitBy
    <3>3. QED
      BY <3>1, <3>2
  <2>4. Follow(cs)
    <3>1. Splittable(Parts(t, sep), R[K - 1])
      BY <1>2, <2>2, PartsAreSplittable
    <3>2. AllFit(Parts(t, sep))
      <4>1. Parts(t, sep) \in Lists
        BY <2>2, PartsFollow
      <4>2. QED
        BY <2>1, <4>1, ListIs DEF AllFit
    <3> HIDE DEF sep
    <3>3. QED
      BY <2>2, <3>1, <3>2, JoinIsSound
  <2> HIDE DEF cs
\* The separators before it are not in the text.
  <2> DEFINE U == {j \in Nat : K + j <= l => R[K + j][t] = cs}
  <2>5. 0 \in U
    <3>1. K + 0 = K
      BY <1>2, <2>2
    <3>2. QED
      BY <2>3, <3>1
  <2>6. ASSUME NEW j \in U
        PROVE  j + 1 \in U
    <3>1. CASE K + (j + 1) <= l
      <4> DEFINE k == K + (j + 1)
      <4>1. k \in 1..l /\ k - 1 = K + j /\ k # 0 /\ R[K + j][t] = cs
        BY <1>2, <2>2, <3>1
      <4>2. (l - k) + 1 \in 1..(n - 1)
        <5>1. (l - k) + 1 = n - (j + 1)
          BY <1>2, <2>2 DEF K
        <5>2. (l - k) + 1 >= 1 /\ j \in Nat /\ n \in Nat
          BY <1>2, <4>1
        <5>3. QED
          BY <1>2, <4>1, <5>1, <5>2
      <4> HIDE DEF k
      <4>3. ~Has(t, Separator(k))
        BY <2>1, <4>2 DEF Separator
      <4>4. R[k][t] = R[k - 1][t]
        <5>1. R[k][t] = SplitBy(t, k, R[k - 1])
          BY <1>1, <4>1
        <5>2. SplitBy(t, k, R[k - 1]) = R[k - 1][t]
          BY <1>4, <4>1, <4>3 DEF SplitBy
        <5>3. QED
          BY <5>1, <5>2
      <4>5. R[k][t] = cs
        BY <4>1, <4>4
      <4>6. QED
        BY <4>5 DEF k
    <3>2. CASE ~(K + (j + 1) <= l)
      BY <3>2
    <3>3. QED
      BY <3>1, <3>2
  <2>7. U = Nat
    <3>1. U \in SUBSET Nat /\ \A j \in U : j + 1 \in U
      BY <2>6
    <3> HIDE DEF U
    <3>2. QED
      BY <2>5, <3>1, Induction
  <2>8. R[l][t] = cs
    <3>1. l - K \in Nat /\ K + (l - K) = l
      BY <1>2, <2>2
    <3>2. l - K \in U
      BY <2>7, <3>1
    <3>3. QED
      BY <1>2, <3>1, <3>2
  <2>9. QED
    BY <2>4, <2>8 DEF R
<1>5. QED
  BY <1>3, <1>4

-----------------------------------------------------------------------------
\* The chunks of a text.

\* What ChunksInv says of the chunks cs of the text t.
ChunksOf(cs, t) ==
    /\ cs = <<>> <=> Blank(t)
    /\ \A n \in DOMAIN cs : Len(cs[n]) \in 1..chunk_size /\ InOrderOfText(cs[n])
    /\ UNION {Letters(cs[n]) : n \in DOMAIN cs} = Letters(t)
    /\ Fits(Strip(t)) =>
          \A m, n \in DOMAIN cs : m < n => \A x \in Letters(cs[m]), y \in Letters(cs[n]) : x < y

LEMMA ChunksAre ==
    ASSUME NEW cs \in Lists, NEW t,
           cs = <<>> <=> Blank(t),
           \A n \in 1..Len(cs) : Chunk(cs[n]) /\ cs[n] # <<>>,
           LettersOf(cs) = Letters(t),
           Fits(Strip(t)) => Follow(cs)
    PROVE  ChunksOf(cs, t)
<1>1. DOMAIN cs = 1..Len(cs) /\ \A n \in 1..Len(cs) : cs[n] \in Texts
  BY ListIs
<1>2. \A n \in DOMAIN cs : Len(cs[n]) \in 1..chunk_size /\ InOrderOfText(cs[n])
  <2> TAKE n \in DOMAIN cs
  <2>1. cs[n] \in Texts /\ cs[n] # <<>> /\ Len(cs[n]) <= chunk_size /\ InOrderOfText(cs[n])
    BY <1>1 DEF Chunk
  <2>2. Len(cs[n]) \in Nat /\ Len(cs[n]) # 0
    BY <2>1 DEF Texts
  <2>3. QED
    BY <2>1, <2>2, ChunkingAssumption
<1>3. UNION {Letters(cs[n]) : n \in DOMAIN cs} = Letters(t)
  BY Zenon DEF LettersOf
<1>4. Fits(Strip(t)) =>
          \A m, n \in DOMAIN cs : m < n => \A x \in Letters(cs[m]), y \in Letters(cs[n]) : x < y
  BY DEF Follow, Precede
<1>5. QED
  BY <1>2, <1>3, <1>4 DEF ChunksOf

\* Stripping the chunks and dropping the blank ones loses no letter and keeps their order.
LEMMA SplitTextIs ==
    ASSUME NEW t \in Texts, InOrderOfText(t)
    PROVE  ChunksOf(SplitText(t), t)
<1> DEFINE whole == Strip(t)
           split == RecursiveSplit[Len(separators)][whole]
           stripped == [n \in DOMAIN split |-> Strip(split[n])]
           S == {n \in DOMAIN stripped : stripped[n] # <<>>}
           kept == Picked(stripped, S)
           prefix == SubSeq(whole, 1, AtMost(chunk_size, Len(whole)))
           cs == SplitText(t)
<1>1. /\ whole \in Texts /\ InOrderOfText(whole) /\ Letters(whole) = Letters(t)
      /\ whole = <<>> <=> Blank(t)
      /\ Blank(t) => Letters(t) = {}
  BY Stripped
<1>2. cs = IF whole = <<>> THEN <<>> ELSE IF kept = <<>> THEN <<prefix>> ELSE kept
  BY Zenon DEF SplitText
<1>3. /\ split \in Lists /\ \A n \in 1..Len(split) : Chunk(split[n])
      /\ LettersOf(split) = Letters(t)
      /\ Fits(whole) => Follow(split)
  <2>1. Len(separators) \in 0..Len(separators)
    BY SeparatorIs
  <2>2. Sound(split, whole)
    BY <1>1, <2>1, RecursiveSplitIsRight DEF Right
  <2>3. QED
    BY <1>1, <2>2, FittingSplitFollows DEF Sound
<1> HIDE DEF whole, split, cs
<1>4. /\ Len(split) \in Nat /\ DOMAIN split = 1..Len(split)
      /\ \A n \in 1..Len(split) : split[n] \in Texts
      /\ \A x : x \in LettersOf(split) <=> \E n \in 1..Len(split) : x \in Letters(split[n])
  BY <1>3, ListIs
<1>5. \A n \in 1..Len(split) : /\ stripped[n] \in Texts
                               /\ Chunk(stripped[n])
                               /\ Letters(stripped[n]) = Letters(split[n])
  <2> TAKE n \in 1..Len(split)
  <2>1. stripped[n] = Strip(split[n]) /\ split[n] \in Texts /\ Chunk(split[n])
    BY <1>3, <1>4
  <2> HIDE DEF stripped
  <2>2. /\ Strip(split[n]) \in Texts /\ Len(Strip(split[n])) <= Len(split[n])
        /\ Letters(Strip(split[n])) = Letters(split[n]) /\ InOrderOfText(Strip(split[n]))
    BY <2>1, Stripped DEF Chunk
  <2>3. Len(Strip(split[n])) <= chunk_size
    <3>1. Len(split[n]) <= chunk_size /\ Len(split[n]) \in Nat /\ Len(Strip(split[n])) \in Nat
      BY <2>1, <2>2, TextIs DEF Chunk
    <3>2. QED
      BY <2>2, <3>1, ChunkingAssumption
  <2>4. QED
    BY <2>1, <2>2, <2>3 DEF Chunk
<1>6. stripped \in Lists /\ Len(stripped) = Len(split) /\ DOMAIN stripped = 1..Len(split)
  <2>1. DOMAIN stripped = 1..Len(split)
    BY <1>4
  <2>2. stripped = [n \in 1..Len(split) |-> stripped[n]]
    BY <1>4
  <2> HIDE DEF stripped
  <2>3. stripped \in [1..Len(split) -> Texts]
    BY <1>5, <2>2
  <2>4. QED
    BY <1>4, <2>1, <2>3, SeqDef DEF Lists
<1> HIDE DEF stripped
<1>7. LettersOf(stripped) = Letters(t)
  <2>1. \A x : x \in LettersOf(stripped) <=> \E n \in 1..Len(split) : x \in Letters(stripped[n])
    <3>1. \A x : x \in LettersOf(stripped) <=> \E n \in 1..Len(stripped) : x \in Letters(stripped[n])
      BY <1>6, ListIs
    <3>2. QED
      BY <1>6, <3>1
  <2>2. \A x : x \in LettersOf(stripped) <=> x \in LettersOf(split)
    BY <1>4, <1>5, <2>1
  <2>3. QED
    BY <1>3, <2>2
<1>8. Fits(whole) => Follow(stripped)
  <2>1. SUFFICES ASSUME Fits(whole), NEW m \in 1..Len(split), NEW n \in 1..Len(split), m < n
                 PROVE  Precede(Letters(stripped[m]), Letters(stripped[n]))
    BY <1>6 DEF Follow
  <2>2. Precede(Letters(split[m]), Letters(split[n]))
    BY <1>3, <1>4, <2>1 DEF Follow
  <2>3. QED
    BY <1>5, <2>2
<1>9. S \in SUBSET (DOMAIN stripped) /\ \A i \in S : i \in 1..Len(split) /\ stripped[i] # <<>>
  BY <1>6
<1>10. \A i \in DOMAIN stripped \ S : Letters(stripped[i]) = {}
  <2>1. \A i \in DOMAIN stripped \ S : stripped[i] = <<>>
    OBVIOUS
  <2>2. QED
    BY <2>1, NoText
<1> HIDE DEF S
<1>11. /\ kept \in Lists /\ LettersOf(kept) = Letters(t)
       /\ \A k \in 1..Len(kept) : \E i \in S : kept[k] = stripped[i]
       /\ Fits(whole) => Follow(kept)
  BY <1>6, <1>7, <1>8, <1>9, <1>10, PickedChunks
<1> HIDE DEF kept
<1>12. CASE whole = <<>>
  <2>1. cs = <<>> /\ Blank(t) /\ Letters(t) = {}
    BY <1>1, <1>2, <1>12
  <2>2. Follow(<<>>)
    BY DEF Follow
  <2>3. ChunksOf(<<>>, t)
    <3>1. \A n \in 1..Len(<<>>) : Chunk(<<>>[n]) /\ <<>>[n] # <<>>
      OBVIOUS
    <3>2. <<>> \in Lists /\ LettersOf(<<>>) = Letters(t)
      BY <2>1, NoText
    <3> HIDE DEF prefix
    <3>3. QED
      BY <2>1, <2>2, <3>1, <3>2, ChunksAre
  <2>4. QED
    BY <2>1, <2>3 DEF cs
<1>13. CASE whole # <<>> /\ kept = <<>>
  <2> DEFINE e == AtMost(chunk_size, Len(whole))
  <2>1. cs = <<prefix>>
    BY <1>2, <1>13
  <2>2. /\ Len(whole) \in Nat /\ Len(whole) # 0
    BY <1>1, <1>13 DEF Texts
  <2>3. e \in 1..Len(whole) /\ e <= chunk_size
    BY <2>2, ChunkingAssumption DEF AtMost
  <2> HIDE DEF e
  <2>4. /\ prefix \in Texts /\ Len(prefix) = e /\ InOrderOfText(prefix)
        /\ \A x : x \in Letters(prefix) => x \in Letters(whole)
    <3>1. 1 \in 1..(Len(whole) + 1) /\ e \in 0..Len(whole) /\ 1 <= e
      BY <2>2, <2>3
    <3>2. /\ prefix \in Texts /\ InOrderOfText(prefix)
          /\ Len(prefix) = (e - 1) + 1
          /\ \A x : x \in Letters(prefix) <=>
                \E k \in 1..e : Kind(whole[k]) = Letter /\ x = whole[k][2]
      BY <1>1, <3>1, SubText DEF e
    <3>3. \A k \in 1..e : k \in 1..Len(whole)
      BY <2>2, <2>3
    <3>4. \A x : x \in Letters(prefix) => x \in Letters(whole)
      BY <1>1, <3>2, <3>3, TextIs
    <3>5. (e - 1) + 1 = e
      BY <2>2, <2>3
    <3> HIDE DEF prefix
    <3>6. QED
      BY <3>2, <3>4, <3>5
  <2>5. Letters(t) = {}
    BY <1>11, <1>13, NoText
  <2> HIDE DEF prefix
  <2>6. cs \in Lists /\ Len(cs) = 1 /\ cs[1] = prefix /\ cs # <<>>
    BY <2>1, <2>4 DEF Lists
  <2>7. LettersOf(cs) = Letters(t)
    <3>1. \A x : x \notin Letters(prefix)
      BY <1>1, <2>4, <2>5
    <3>2. \A x : x \notin LettersOf(cs)
      BY <2>6, <3>1, ListIs
    <3>3. QED
      BY <2>5, <3>2
  <2>8. Chunk(prefix) /\ prefix # <<>>
    BY <2>3, <2>4, NoText DEF Chunk
  <2>9. Follow(cs)
    BY <2>6, ListIs DEF Follow
  <2>10. QED
    BY <1>1, <1>13, <2>6, <2>7, <2>8, <2>9, ChunksAre DEF cs
<1>14. CASE whole # <<>> /\ kept # <<>>
  <2>1. cs = kept /\ ~Blank(t)
    BY <1>1, <1>2, <1>14
  <2>2. \A k \in 1..Len(kept) : Chunk(kept[k]) /\ kept[k] # <<>>
    BY <1>5, <1>9, <1>11
  <2>3. ChunksOf(kept, t)
    BY <1>11, <1>14, <2>1, <2>2, ChunksAre DEF whole
  <2>4. QED
    BY <2>1, <2>3 DEF cs
<1>15. QED
  BY <1>12, <1>13, <1>14

-----------------------------------------------------------------------------
\* The specification.

\* Every character of the text knows its place, and the chunks are those of the text.
ChunkingInductive ==
    /\ text \in Texts
    /\ \A i \in 1..Len(text) : text[i][2] = i
    /\ chunks = SplitText(text)

LEMMA ChunkingStarts == ChunkingInit => ChunkingInductive
<1>1. SUFFICES ASSUME ChunkingInit
               PROVE  ChunkingInductive
  OBVIOUS
<1>2. text = <<>> /\ chunks = <<>>
  BY <1>1 DEF ChunkingInit
<1>3. Strip(<<>>) = <<>>
  BY DEF Strip
<1>4. SplitText(<<>>) = <<>>
  BY <1>3 DEF SplitText
<1>5. QED
  BY <1>2, <1>4, NoText DEF ChunkingInductive

LEMMA ChunkingSteps == ChunkingInductive /\ [Split]_chunkingVars => ChunkingInductive'
<1>1. SUFFICES ASSUME ChunkingInductive, [Split]_chunkingVars
               PROVE  ChunkingInductive'
  OBVIOUS
<1>2. CASE Split
  <2>1. PICK k \in Range(separators) \cup {Letter} : text' = Append(text, <<k, Len(text) + 1>>)
    BY <1>2 DEF Split
  <2>2. /\ Len(text) \in Nat /\ text \in Seq(Characters)
        /\ \A i \in 1..Len(text) : text[i][2] = i
    BY <1>1 DEF ChunkingInductive, Texts
  <2>3. <<k, Len(text) + 1>> \in Characters
    BY <2>2 DEF Characters
  <2>4. text' \in Texts /\ Len(text') = Len(text) + 1
    BY <2>1, <2>2, <2>3 DEF Texts
  <2>5. \A i \in 1..Len(text') : text'[i][2] = i
    BY <2>1, <2>2, <2>4
  <2>6. chunks' = SplitText(text')
    BY <1>2 DEF Split
  <2>7. QED
    BY <2>4, <2>5, <2>6 DEF ChunkingInductive
<1>3. CASE UNCHANGED chunkingVars
  BY <1>1, <1>3 DEF ChunkingInductive, chunkingVars
<1>4. QED
  BY <1>1, <1>2, <1>3

LEMMA ChunkingInductiveShows == ChunkingInductive => ChunksInv
<1>1. SUFFICES ASSUME ChunkingInductive
               PROVE  ChunksInv
  OBVIOUS
<1>2. text \in Texts /\ InOrderOfText(text)
  BY <1>1, TextIs DEF ChunkingInductive
<1>3. ChunksOf(chunks, text)
  BY <1>1, <1>2, SplitTextIs DEF ChunkingInductive
<1>4. QED
  BY <1>3, Zenon DEF ChunksOf, ChunksInv

\* Whatever the text, its length, the separators and the sizes: every text but a blank one
\* has a chunk, no chunk is empty or too long, every letter is in some chunk and in order,
\* and the chunks follow each other unless a part was too long by itself.
THEOREM ChunksInvariant == ChunkingSpec => []ChunksInv
<1>1. ChunkingInit => ChunkingInductive
  BY ChunkingStarts
<1>2. ChunkingInductive /\ [Split]_chunkingVars => ChunkingInductive'
  BY ChunkingSteps
<1>3. ChunkingInductive => ChunksInv
  BY ChunkingInductiveShows
<1>4. QED
  BY <1>1, <1>2, <1>3, PTL DEF ChunkingSpec
=============================================================================
