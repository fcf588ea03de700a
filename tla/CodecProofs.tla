---------------------------- MODULE CodecProofs -----------------------------
(***************************************************************************)
(* Batch compression keeps every chunk: what compress_samples builds is a  *)
(* layout of the chunks of the input over the splits, each pair with an ID *)
(* under which its base is, and the deviation of the width of its split.   *)
(* From such a layout all samples, one sample or one bit are read back.    *)
(***************************************************************************)
EXTENDS Codec, OperatorProofs, FiniteSetTheorems

(* A split, in memory: its widths and its pairs.                           *)
Split == [l_id : Nat, l_d : 0..ChunkBitLen, pairs : Seq(Pair)]

(* B are the persisted bases: the pair stands for the chunk.  That the     *)
(* base is one the encoder would have made is not asked: a collector that  *)
(* missed packets puts bases and deviations together as they come.         *)
Encodes(pair, l_d, chunk, B) ==
  /\ pair.base_id < Len(B)
  /\ Restores(B, pair, l_d, chunk)

(* The pairs of a split stand for the chunks between two places of C.      *)
HoldsChunks(split, first, next, B, C) ==
  /\ next = first + Len(split.pairs)
  /\ \A i \in 1..Len(split.pairs) : Encodes(split.pairs[i], split.l_d, C[first + i], B)

(* The splits hold the first n chunks, and `before` says how many of them  *)
(* come before each split.                                                 *)
LaidOut(splits, before, n, B, C) ==
  /\ splits \in Seq(Split)
  /\ n \in 0..Len(C)
  /\ before \in [1..(Len(splits) + 1) -> 0..n]
  /\ before[1] = 0 /\ before[Len(splits) + 1] = n
  /\ \A s \in 1..Len(splits) : HoldsChunks(splits[s], before[s], before[s + 1], B, C)

(* ... for some such places.                                               *)
Layout(splits, n, B, C) == \E before : LaidOut(splits, before, n, B, C)

(* More bases never change what a pair stands for.                         *)
LEMMA EncodesOn ==
  ASSUME NEW pair \in Pair, NEW l_d, NEW chunk,
         NEW B \in Seq(PackedBase), NEW B2 \in Seq(PackedBase), Continues(B, B2),
         Encodes(pair, l_d, chunk, B)
  PROVE  Encodes(pair, l_d, chunk, B2)
<1>1. pair.base_id \in Nat /\ Len(B) \in Nat /\ Len(B2) \in Nat
  BY DEF Pair
<1>2. pair.base_id + 1 \in 1..Len(B) /\ pair.base_id < Len(B2)
  BY <1>1 DEF Encodes, Continues
<1>3. B2[pair.base_id + 1] = B[pair.base_id + 1]
  BY <1>2 DEF Continues
<1> QED BY <1>2, <1>3 DEF Encodes, Restores

(* A new split, still without pairs, leaves the layout as it is.           *)
LEMMA LayoutNewSplit ==
  ASSUME NEW splits, NEW n, NEW B, NEW C, Layout(splits, n, B, C),
         NEW split \in Split, split.pairs = <<>>
  PROVE  Layout(Append(splits, split), n, B, C)
<1>1. PICK before : LaidOut(splits, before, n, B, C)
  BY DEF Layout
<1> DEFINE m == Len(splits)
           more == Append(splits, split)
           after == [s \in 1..(m + 2) |-> IF s = m + 2 THEN n ELSE before[s]]
<1>2. /\ splits \in Seq(Split) /\ m \in Nat
      /\ n \in 0..Len(C)
      /\ before \in [1..(m + 1) -> 0..n] /\ before[1] = 0 /\ before[m + 1] = n
      /\ \A s \in 1..m : HoldsChunks(splits[s], before[s], before[s + 1], B, C)
  BY <1>1 DEF LaidOut
<1>3. /\ more \in Seq(Split) /\ Len(more) = m + 1
      /\ \A s \in 1..m : more[s] = splits[s]
      /\ more[m + 1] = split
  BY <1>2
<1>4. n \in 0..n
  BY <1>2
<1>5. /\ after \in [1..(m + 2) -> 0..n] /\ after[1] = 0 /\ after[m + 2] = n
      /\ \A s \in 1..(m + 1) : after[s] = before[s]
  <2>1. ASSUME NEW s \in 1..(m + 2) PROVE after[s] \in 0..n
    <3>1. CASE s = m + 2
      BY <3>1, <1>4
    <3>2. CASE s # m + 2
      <4>1. s \in 1..(m + 1)
        BY <1>2, <3>2
      <4> QED BY <1>2, <3>2, <4>1
    <3> QED BY <3>1, <3>2
  <2>2. after \in [1..(m + 2) -> 0..n]
    BY <2>1
  <2> QED BY <1>2, <2>2
<1> HIDE DEF after, more, m
<1>6. ASSUME NEW s \in 1..(m + 1)
      PROVE  HoldsChunks(more[s], after[s], after[s + 1], B, C)
  <2>1. CASE s = m + 1
    <3>1. more[s] = split /\ after[s] = n /\ after[s + 1] = n
      BY <1>2, <1>3, <1>5, <2>1
    <3>2. Len(split.pairs) = 0 /\ n = n + 0
      BY <1>2
    <3> QED BY <3>1, <3>2 DEF HoldsChunks
  <2>2. CASE s # m + 1
    <3>1. s \in 1..m /\ s + 1 \in 1..(m + 1)
      BY <1>2, <2>2
    <3> QED BY <1>2, <1>3, <1>5, <3>1
  <2> QED BY <2>1, <2>2
<1>7. LaidOut(more, after, n, B, C)
  <2>1. (m + 1) + 1 = m + 2
    BY <1>2
  <2> QED BY <1>2, <1>3, <1>5, <1>6, <2>1 DEF LaidOut
<1> QED BY <1>7 DEF Layout, more

(* A last split that got no pair can be left out.                          *)
LEMMA LayoutWithoutLast ==
  ASSUME NEW splits \in Seq(Split), NEW split \in Split, split.pairs = <<>>,
         NEW n, NEW B, NEW C, Layout(Append(splits, split), n, B, C)
  PROVE  Layout(splits, n, B, C)
<1> DEFINE m == Len(splits)
           more == Append(splits, split)
<1>1. PICK after : LaidOut(more, after, n, B, C)
  BY DEF Layout
<1> DEFINE before == [s \in 1..(m + 1) |-> after[s]]
<1>2. /\ m \in Nat /\ Len(more) = m + 1
      /\ \A s \in 1..m : more[s] = splits[s]
      /\ more[m + 1] = split
  OBVIOUS
<1>3. /\ n \in 0..Len(C)
      /\ after \in [1..((m + 1) + 1) -> 0..n] /\ after[1] = 0 /\ after[(m + 1) + 1] = n
      /\ \A s \in 1..(m + 1) : HoldsChunks(more[s], after[s], after[s + 1], B, C)
  BY <1>1, <1>2 DEF LaidOut
<1> HIDE DEF more, m
<1>4. after[m + 1] = n
  <2>1. m + 1 \in 1..(m + 1) /\ after[m + 1] \in 0..n
    BY <1>2, <1>3
  <2>2. after[(m + 1) + 1] = after[m + 1] + Len(split.pairs)
    BY <1>2, <1>3, <2>1 DEF HoldsChunks
  <2>3. Len(split.pairs) = 0
    OBVIOUS
  <2> QED BY <1>3, <2>1, <2>2, <2>3
<1>5. before \in [1..(m + 1) -> 0..n] /\ before[1] = 0 /\ before[m + 1] = n
  BY <1>2, <1>3, <1>4
<1>6. ASSUME NEW s \in 1..m
      PROVE  HoldsChunks(splits[s], before[s], before[s + 1], B, C)
  <2>1. s \in 1..(m + 1) /\ s + 1 \in 1..(m + 1)
    BY <1>2
  <2> QED BY <1>2, <1>3, <2>1
<1> HIDE DEF before
<1>7. LaidOut(splits, before, n, B, C)
  BY <1>3, <1>5, <1>6 DEF LaidOut, m
<1> QED BY <1>7 DEF Layout

(* Pairs for the next chunks go to the last split, with bases that may be  *)
(* more.                                                                   *)
LEMMA LayoutMore ==
  ASSUME NEW splits \in Seq(Split), NEW split \in Split, NEW longer \in Split,
         NEW pairs \in Seq(Pair),
         longer.l_d = split.l_d, longer.pairs = split.pairs \o pairs,
         NEW n, NEW C, NEW C2, n + Len(pairs) <= Len(C2), Len(C2) \in Nat, Continues(C, C2),
         NEW B \in Seq(PackedBase), NEW B2 \in Seq(PackedBase), Continues(B, B2),
         Layout(Append(splits, split), n, B, C),
         \A i \in 1..Len(pairs) : Encodes(pairs[i], split.l_d, C2[n + i], B2)
  PROVE  Layout(Append(splits, longer), n + Len(pairs), B2, C2)
<1> DEFINE m == Len(splits)
           old == Append(splits, split)
           new == Append(splits, longer)
           k == Len(split.pairs)
           j == Len(pairs)
<1>1. PICK before : LaidOut(old, before, n, B, C)
  BY DEF Layout
<1> DEFINE after == [s \in 1..(m + 2) |-> IF s = m + 2 THEN n + j ELSE before[s]]
<1>2. /\ m \in Nat /\ Len(old) = m + 1 /\ Len(new) = m + 1
      /\ new \in Seq(Split)
      /\ \A s \in 1..m : old[s] = splits[s] /\ new[s] = splits[s] /\ splits[s] \in Split
      /\ old[m + 1] = split /\ new[m + 1] = longer
  OBVIOUS
<1>3. /\ split.pairs \in Seq(Pair) /\ k \in Nat /\ j \in Nat
      /\ Len(longer.pairs) = k + j
      /\ \A i \in 1..j : longer.pairs[k + i] = pairs[i]
      /\ \A i \in 1..k : longer.pairs[i] = split.pairs[i]
  <2>1. split.pairs \in Seq(Pair)
    BY DEF Split
  <2> QED BY <2>1, ConcatProperties
<1>4. /\ n \in 0..Len(C)
      /\ before \in [1..((m + 1) + 1) -> 0..n] /\ before[1] = 0 /\ before[(m + 1) + 1] = n
      /\ \A s \in 1..(m + 1) : HoldsChunks(old[s], before[s], before[s + 1], B, C)
  BY <1>1, <1>2 DEF LaidOut
<1> HIDE DEF old, new, m, k, j
<1>5. (m + 1) + 1 = m + 2 /\ n \in Nat /\ n + j \in 0..Len(C2)
  BY <1>2, <1>3, <1>4 DEF j
<1>6. before[m + 1] \in Nat /\ n = before[m + 1] + k
  <2>1. m + 1 \in 1..(m + 1) /\ m + 1 \in 1..(m + 2)
    BY <1>2
  <2>2. HoldsChunks(split, before[m + 1], before[(m + 1) + 1], B, C)
    BY <1>2, <1>4, <2>1
  <2>3. before[m + 1] \in 0..n
    BY <1>4, <1>5, <2>1
  <2> QED BY <1>4, <1>5, <2>2, <2>3 DEF HoldsChunks, k
<1>7. /\ after \in [1..(m + 2) -> 0..(n + j)] /\ after[1] = 0 /\ after[m + 2] = n + j
      /\ \A s \in 1..(m + 1) : after[s] = before[s]
  <2>1. ASSUME NEW s \in 1..(m + 2) PROVE after[s] \in 0..(n + j)
    <3>1. CASE s = m + 2
      BY <1>3, <1>5, <3>1
    <3>2. CASE s # m + 2
      <4>1. before[s] \in 0..n
        BY <1>4, <1>5
      <4> QED BY <1>3, <1>5, <3>2, <4>1
    <3> QED BY <3>1, <3>2
  <2>2. after \in [1..(m + 2) -> 0..(n + j)]
    BY <2>1
  <2> QED BY <1>2, <1>4, <2>2
<1> HIDE DEF after
<1>8. ASSUME NEW pair \in Pair, NEW l_d, NEW i \in Nat \ {0}, i <= n,
             Encodes(pair, l_d, C[i], B)
      PROVE  Encodes(pair, l_d, C2[i], B2)
  <2>1. i \in 1..Len(C)
    BY <1>4, <1>5, <1>8
  <2>2. C2[i] = C[i]
    BY <2>1 DEF Continues
  <2> QED BY <1>8, <2>2, EncodesOn
<1>9. ASSUME NEW s \in 1..m
      PROVE  HoldsChunks(new[s], after[s], after[s + 1], B2, C2)
  <2>1. s \in 1..(m + 1) /\ s + 1 \in 1..(m + 1) /\ s + 1 \in 1..((m + 1) + 1)
        /\ s \in 1..((m + 1) + 1)
    BY <1>2
  <2>2. HoldsChunks(splits[s], before[s], before[s + 1], B, C)
    BY <1>2, <1>4, <2>1
  <2>3. splits[s].pairs \in Seq(Pair)
    BY <1>2 DEF Split
  <2>4. before[s] \in Nat /\ before[s + 1] \in 0..n
    <3> DEFINE S == 1..((m + 1) + 1)
    <3>1. before \in [S -> 0..n] /\ s \in S /\ s + 1 \in S
      BY ONLY <1>4, <2>1
    <3> HIDE DEF S
    <3>2. before[s] \in 0..n /\ before[s + 1] \in 0..n
      BY ONLY <3>1
    <3> QED BY ONLY <3>2
  <2>5. ASSUME NEW i \in 1..Len(splits[s].pairs)
        PROVE  Encodes(splits[s].pairs[i], splits[s].l_d, C2[before[s] + i], B2)
    <3>1. before[s] + i \in Nat \ {0} /\ before[s] + i <= n
      <4>1. before[s + 1] = before[s] + Len(splits[s].pairs)
        BY <2>2 DEF HoldsChunks
      <4>2. Len(splits[s].pairs) \in Nat /\ i \in 1..Len(splits[s].pairs)
        BY <2>3
      <4> DEFINE a == before[s]
                 b == before[s + 1]
                 l == Len(splits[s].pairs)
      <4>3. a \in Nat /\ b \in 0..n /\ b = a + l /\ l \in Nat /\ i \in 1..l /\ n \in Nat
        BY <1>5, <2>4, <4>1, <4>2
      <4> HIDE DEF a, b, l
      <4>4. a + i \in Nat \ {0} /\ a + i <= n
        BY ONLY <4>3
      <4> QED BY <4>4 DEF a
    <3>2. splits[s].pairs[i] \in Pair
      BY <2>3
    <3>3. Encodes(splits[s].pairs[i], splits[s].l_d, C[before[s] + i], B)
      BY <2>2 DEF HoldsChunks
    <3> QED BY <1>8, <3>1, <3>2, <3>3
  <2>6. after[s] = before[s] /\ after[s + 1] = before[s + 1]
    BY <1>7, <2>1
  <2> QED BY <1>2, <2>2, <2>5, <2>6 DEF HoldsChunks
<1>10. HoldsChunks(longer, after[m + 1], after[m + 2], B2, C2)
  <2>1. m + 1 \in 1..(m + 1)
    BY <1>2
  <2>2. HoldsChunks(split, before[m + 1], n, B, C)
    BY <1>2, <1>4, <2>1
  <2>3. after[m + 1] = before[m + 1] /\ after[m + 2] = n + j
    BY <1>7, <2>1
  <2>4. after[m + 2] = after[m + 1] + Len(longer.pairs)
    BY <1>3, <1>6, <2>3
  <2>5. ASSUME NEW i \in 1..Len(longer.pairs)
        PROVE  Encodes(longer.pairs[i], longer.l_d, C2[after[m + 1] + i], B2)
    <3>1. CASE i > k
      <4> DEFINE a == i - k
      <4>1. a \in 1..j /\ i = k + a /\ after[m + 1] + i = n + a
        <5>1. i \in 1..Len(longer.pairs) /\ Len(longer.pairs) = k + j
          BY ONLY <1>3, i \in 1..Len(longer.pairs)
        <5>2. after[m + 1] + k = n /\ after[m + 1] \in Nat /\ k \in Nat /\ j \in Nat
          BY ONLY <1>3, <1>6, <2>3
        <5> QED BY ONLY <3>1, <5>1, <5>2
      <4> HIDE DEF a
      <4>2. longer.pairs[i] = pairs[a]
        BY <1>3, <4>1
      <4> QED BY <4>1, <4>2 DEF j
    <3>2. CASE ~ (i > k)
      <4>1. i \in 1..k
        BY <1>3, <3>2
      <4>2. Encodes(split.pairs[i], split.l_d, C[before[m + 1] + i], B)
        BY <2>2, <4>1 DEF HoldsChunks, k
      <4>3. split.pairs[i] \in Pair
        BY <1>3, <4>1 DEF k
      <4>4. before[m + 1] + i \in Nat \ {0} /\ before[m + 1] + i <= n
        BY ONLY <1>3, <1>6, <4>1
      <4>5. Encodes(split.pairs[i], split.l_d, C2[before[m + 1] + i], B2)
        BY <1>8, <4>2, <4>3, <4>4
      <4> QED BY <1>3, <2>3, <4>1, <4>5
    <3> QED BY <3>1, <3>2
  <2> QED BY <2>4, <2>5 DEF HoldsChunks
<1>11. ASSUME NEW s \in 1..(m + 1)
       PROVE  HoldsChunks(new[s], after[s], after[s + 1], B2, C2)
  <2>1. CASE s = m + 1
    BY <1>2, <1>5, <1>10, <2>1
  <2>2. CASE s # m + 1
    <3>1. s \in 1..m
      BY <1>2, <2>2
    <3> QED BY <1>9, <3>1
  <2> QED BY <2>1, <2>2
<1>12. LaidOut(new, after, n + j, B2, C2)
  BY <1>2, <1>5, <1>7, <1>11 DEF LaidOut
<1> QED BY <1>12 DEF Layout, new, j

(* A pair for the next chunk goes to the last split, with bases that may   *)
(* be one more.                                                            *)
LEMMA LayoutOneMore ==
  ASSUME NEW splits \in Seq(Split), NEW split \in Split, NEW longer \in Split,
         NEW pair \in Pair,
         longer.l_d = split.l_d, longer.pairs = Append(split.pairs, pair),
         NEW n, NEW C, n < Len(C), Len(C) \in Nat,
         NEW B \in Seq(PackedBase), NEW B2 \in Seq(PackedBase), Continues(B, B2),
         Layout(Append(splits, split), n, B, C),
         Encodes(pair, split.l_d, C[n + 1], B2)
  PROVE  Layout(Append(splits, longer), n + 1, B2, C)
<1> DEFINE pairs == <<pair>>
<1>1. /\ pairs \in Seq(Pair) /\ Len(pairs) = 1 /\ pairs[1] = pair
      /\ longer.pairs = split.pairs \o pairs
  <2>1. split.pairs \in Seq(Pair)
    BY DEF Split
  <2> QED BY <2>1
<1>2. n \in Nat /\ Continues(C, C)
  BY DEF Layout, LaidOut, Continues
<1> HIDE DEF pairs
<1>3. n + Len(pairs) <= Len(C)
  BY <1>1, <1>2
<1>4. \A i \in 1..Len(pairs) : Encodes(pairs[i], split.l_d, C[n + i], B2)
  BY <1>1
<1>5. Layout(Append(splits, longer), n + Len(pairs), B2, C)
  BY <1>1, <1>2, <1>3, <1>4, LayoutMore
<1> QED BY <1>1, <1>5

----------------------------------------------------------------------------
(* compress_samples.                                                       *)

(* The state of the compression, of the right types.                       *)
Compression == [dictionary : DictionaryState,
                persisted_bases : Seq(PackedBase),
                splits : Seq(Split),
                current_split : Split,
                old_base_count : Nat,
                panicked : BOOLEAN]

(* After n chunks, none of which ran out of IDs.                           *)
Keeps(c, n, C) ==
  /\ c \in Compression
  /\ ~ c.panicked
  /\ ActiveIdsAssigned(c.dictionary)
  /\ ActiveAre(c.dictionary, c.persisted_bases)
  /\ Len(c.persisted_bases) = c.dictionary.next_id
  /\ c.dictionary.next_id <= n
  /\ Layout(Append(c.splits, c.current_split), n, c.persisted_bases, C)

(* Nothing is compressed yet.                                              *)
LEMMA NothingIsKept ==
  ASSUME NEW C \in Seq(Chunk)
  PROVE  Keeps(NewCompression, 0, C)
<1> DEFINE split == NewSplit(InitialLId, InitialLD)
           none == <<>>
<1>1. split \in Split /\ split.pairs = <<>>
  <2>1. InitialLId \in Nat
    BY CeilLog2Bound, ConfigConstants DEF InitialLId
  <2>2. InitialLD \in 0..ChunkBitLen
    BY Geometry DEF InitialLD
  <2> QED BY <2>1, <2>2 DEF NewSplit, Split
<1>2. Layout(none, 0, <<>>, C)
  <2> DEFINE before == [s \in 1..1 |-> 0]
  <2>1. LaidOut(none, before, 0, <<>>, C)
    BY DEF LaidOut
  <2> QED BY <2>1 DEF Layout
<1>3. Layout(Append(none, split), 0, <<>>, C)
  BY <1>1, <1>2, LayoutNewSplit
<1>4. NewDictionary \in DictionaryState
  BY MaxIdType DEF NewDictionary, DictionaryState
<1> HIDE DEF split
<1>5. NewCompression \in Compression
  BY <1>1, <1>4 DEF NewCompression, Compression, split
<1> QED BY <1>1, <1>3, <1>5
        DEF Keeps, NewCompression, NewDictionary, ActiveIdsAssigned, ActiveAre, split

(* A new split: the widths change, nothing else does.                      *)
LEMMA NextSplitKeeps ==
  ASSUME NEW C, NEW n \in Nat, NEW c, Keeps(c, n, C)
  PROVE  Keeps(NextSplit(c), n, C)
<1> DEFINE next == NextSplit(c)
           global_len == c.dictionary.next_id
           widths == c.current_split
           split == NewSplit(UpdateLId(global_len, widths.l_id),
                             UpdateLD(global_len, c.old_base_count, widths.l_d))
<1>1. /\ c \in Compression /\ widths \in Split /\ global_len \in Nat
      /\ widths.l_id \in Nat /\ widths.l_d \in 0..ChunkBitLen
  <2>1. c \in Compression
    BY DEF Keeps
  <2>2. c.current_split \in Split /\ c.dictionary \in DictionaryState
    BY <2>1 DEF Compression
  <2>3. global_len \in Nat
    BY <2>2, MaxIdType DEF DictionaryState
  <2> QED BY <2>1, <2>2, <2>3 DEF Split
<1>2. split \in Split /\ split.pairs = <<>>
  <2>1. UpdateLD(global_len, c.old_base_count, widths.l_d) \in 0..ChunkBitLen
    BY <1>1, LDType
  <2>2. UpdateLId(global_len, widths.l_id) \in Nat
    BY <1>1 DEF UpdateLId
  <2> QED BY <2>1, <2>2 DEF NewSplit, Split
<1>3. next = [c EXCEPT !.splits = Append(c.splits, c.current_split),
                       !.current_split = split,
                       !.old_base_count = global_len]
  BY DEF NextSplit
<1> HIDE DEF next, split
<1>4. /\ next \in Compression /\ ~ next.panicked
      /\ next.dictionary = c.dictionary /\ next.persisted_bases = c.persisted_bases
      /\ next.splits = Append(c.splits, c.current_split)
      /\ next.current_split = split
  <2>1. Append(c.splits, c.current_split) \in Seq(Split)
    BY <1>1 DEF Compression
  <2>2. ~ c.panicked
    BY DEF Keeps
  <2> QED BY <1>1, <1>2, <1>3, <2>1, <2>2 DEF Compression
<1>5. Layout(Append(next.splits, next.current_split), n, next.persisted_bases, C)
  <2>1. Layout(next.splits, n, next.persisted_bases, C)
    BY <1>4 DEF Keeps
  <2> QED BY <1>2, <1>4, <2>1, LayoutNewSplit
<1> QED BY <1>4, <1>5 DEF Keeps, next

(* The bases after a look-up are those before, with the new one appended.  *)
LEMMA BasesAfter ==
  ASSUME NEW B \in Seq(PackedBase), NEW B2 \in Seq(PackedBase), NEW base \in PackedBase,
         NEW is_new \in BOOLEAN, AddsBase(B, B2, base, is_new)
  PROVE  B2 = IF is_new THEN Append(B, base) ELSE B
<1>1. CASE ~ is_new
  BY <1>1 DEF AddsBase
<1>2. CASE is_new
  <2> DEFINE more == Append(B, base)
  <2>1. more \in Seq(PackedBase) /\ Len(more) = Len(B) + 1
    OBVIOUS
  <2>2. ASSUME NEW i \in 1..(Len(B) + 1) PROVE more[i] = B2[i]
    <3>1. CASE i = Len(B) + 1
      BY <1>2, <3>1 DEF AddsBase
    <3>2. CASE i # Len(B) + 1
      <4>1. i \in 1..Len(B)
        BY <3>2
      <4> QED BY <4>1 DEF AddsBase, Continues
    <3> QED BY <3>1, <3>2
  <2>3. Len(B2) = Len(B) + 1
    BY <1>2 DEF AddsBase
  <2> HIDE DEF more
  <2>4. more = B2
    BY <2>1, <2>2, <2>3
  <2> QED BY <1>2, <2>4 DEF more
<1> QED BY <1>1, <1>2

(* One chunk more is kept, unless the IDs are used up: then there are as   *)
(* many bases as IDs, and so at least as many chunks.                      *)
LEMMA CompressChunkKeeps ==
  ASSUME NEW C \in Seq(Chunk), NEW n \in Nat, n < Len(C), NEW c, Keeps(c, n, C)
  PROVE  LET after == CompressChunk(c, C[n + 1])
         IN  \/ after.panicked /\ MaxId <= n
             \/ Keeps(after, n + 1, C)
<1> DEFINE chunk == C[n + 1]
           current == IF Len(c.current_split.pairs) = ChunksPerSplit THEN NextSplit(c) ELSE c
           l_d == current.current_split.l_d
           base == PackSamples(BaseSamples(chunk, l_d))
           deviation_bits == DeviationBits(chunk, l_d)
           got == GetOrInsert(current.dictionary, base)
           pair == [base_id |-> got.id, deviation_bits |-> deviation_bits]
           bases == current.persisted_bases
           more == IF got.is_new THEN Append(bases, base) ELSE bases
           split == current.current_split
           longer == [split EXCEPT !.pairs = Append(split.pairs, pair)]
           after == CompressChunk(c, chunk)
<1>1. Keeps(current, n, C)
  BY NextSplitKeeps
<1>2. after = IF IdsExhausted(current.dictionary, base)
              THEN [current EXCEPT !.panicked = TRUE]
              ELSE [current EXCEPT !.dictionary = got.dictionary,
                                   !.persisted_bases = more,
                                   !.current_split.pairs =
                                      Append(current.current_split.pairs, pair)]
  BY DEF CompressChunk, TransformChunk
<1> HIDE DEF current, after
<1>3. /\ current \in Compression
      /\ current.dictionary \in DictionaryState
      /\ bases \in Seq(PackedBase)
      /\ current.splits \in Seq(Split)
      /\ split \in Split
      /\ split.pairs \in Seq(Pair) /\ l_d \in 0..ChunkBitLen
  <2>1. current \in Compression
    BY <1>1 DEF Keeps
  <2>2. split \in Split
    BY <2>1 DEF Compression
  <2> QED BY <2>1, <2>2 DEF Compression, Split
<1>4. chunk \in Chunk /\ Len(C) \in Nat
  <2>1. n + 1 \in 1..Len(C)
    OBVIOUS
  <2> QED BY <2>1
<1>5. base \in PackedBase /\ deviation_bits \in Seq(Bit)
  <2>1. BaseSamples(chunk, l_d) \in Chunk /\ deviation_bits \in BitString(l_d)
    BY <1>3, <1>4, TransformType
  <2>2. base \in PackedBase
    BY <2>1, PackType
  <2>3. l_d \in Nat
    BY <1>3, Geometry
  <2> QED BY <2>1, <2>2, <2>3, FunctionIsSequence DEF BitString
<1>6. CASE IdsExhausted(current.dictionary, base)
  <2>1. current.dictionary.next_id = MaxId /\ current.dictionary.next_id <= n
    BY <1>1, <1>6 DEF Keeps, IdsExhausted
  <2>2. after.panicked
    BY <1>2, <1>3, <1>6 DEF Compression
  <2> QED BY <2>1, <2>2 DEF after
<1>7. CASE ~ IdsExhausted(current.dictionary, base)
  <2>1. /\ got.dictionary \in DictionaryState
        /\ ActiveIdsAssigned(got.dictionary)
        /\ got.id \in Nat /\ got.is_new \in BOOLEAN
        /\ got.dictionary.next_id <= current.dictionary.next_id + 1
    <3>1. /\ current.dictionary \in DictionaryState /\ ActiveIdsAssigned(current.dictionary)
          /\ base \in PackedBase /\ ~ IdsExhausted(current.dictionary, base)
      BY ONLY <1>1, <1>3, <1>5, <1>7 DEF Keeps
    <3> QED BY ONLY <3>1, GetOrInsertSound
  <2>2. PICK B2 \in Seq(PackedBase) : Answers(got, base, bases, B2)
    BY <1>1, <1>3, <1>5, GetOrInsertMeans DEF Keeps
  <2>3. B2 = more
    BY <1>3, <1>5, <2>1, <2>2, BasesAfter DEF Answers
  <2> HIDE DEF got, more, base, deviation_bits
  <2>4. /\ Continues(bases, more) /\ Len(more) = got.dictionary.next_id
        /\ ActiveAre(got.dictionary, more)
        /\ got.id < Len(more) /\ more[got.id + 1] = base
        /\ more \in Seq(PackedBase)
    BY <2>2, <2>3 DEF Answers, AddsBase
  <2>5. pair \in Pair /\ Encodes(pair, l_d, chunk, more)
    <3>1. pair \in Pair /\ pair.base_id < Len(more)
      BY <1>5, <2>1, <2>4 DEF Pair
    <3>2. /\ more[pair.base_id + 1] = PackSamples(BaseSamples(chunk, l_d))
          /\ pair.deviation_bits = DeviationBits(chunk, l_d)
      BY <2>4 DEF base, deviation_bits
    <3>3. l_d \in 0..ChunkBitLen /\ chunk \in Chunk
      BY <1>3, <1>5 DEF Split
    <3> HIDE DEF pair
    <3> QED BY <3>1, <3>2, <3>3, PairRestores DEF Encodes
  <2> HIDE DEF pair
  <2>6. /\ longer \in Split /\ longer.l_d = split.l_d
        /\ longer.pairs = Append(split.pairs, pair)
    <3>1. split \in Split /\ Append(split.pairs, pair) \in Seq(Pair)
      BY <1>3, <2>5
    <3> HIDE DEF split
    <3> QED BY <3>1 DEF Split
  <2>7. Layout(Append(current.splits, longer), n + 1, more, C)
    <3>1. Layout(Append(current.splits, split), n, bases, C)
      BY <1>1 DEF Keeps
    <3> HIDE DEF longer, split, bases, chunk
    <3>2. Encodes(pair, split.l_d, C[n + 1], more)
      BY <2>5 DEF split, chunk
    <3> QED BY <1>3, <1>4, <2>4, <2>5, <2>6, <3>1, <3>2, LayoutOneMore
  <2>8. after = [current EXCEPT !.dictionary = got.dictionary,
                                !.persisted_bases = more,
                                !.current_split = longer]
    BY <1>2, <1>3, <1>7 DEF Compression, Split
  <2>9. /\ after \in Compression /\ after.panicked = current.panicked
        /\ after.dictionary = got.dictionary /\ after.persisted_bases = more
        /\ after.splits = current.splits /\ after.current_split = longer
    <3> HIDE DEF longer, split, bases, after
    <3> QED BY <1>3, <2>1, <2>4, <2>6, <2>8 DEF Compression
  <2>10. got.dictionary.next_id <= n + 1
    <3>1. current.dictionary.next_id <= n /\ current.dictionary.next_id \in Nat
      BY <1>1, <1>3, MaxIdType DEF Keeps, DictionaryState
    <3>2. got.dictionary.next_id \in Nat
      BY <2>1, MaxIdType DEF DictionaryState
    <3> QED BY <2>1, <3>1, <3>2
  <2>11. ~ after.panicked
    BY <1>1, <2>9 DEF Keeps
  <2> HIDE DEF longer, after, bases
  <2>12. Keeps(after, n + 1, C)
    BY <2>1, <2>4, <2>7, <2>9, <2>10, <2>11 DEF Keeps
  <2> QED BY <2>12 DEF after
<1> QED BY <1>6, <1>7

(* What compress_samples has after each chunk: the rest is skipped once it *)
(* has panicked.                                                           *)
CompressNext(c, chunk) == IF c.panicked THEN c ELSE CompressChunk(c, chunk)

(* The states it goes through.                                             *)
Compresses(after, C, n) ==
  after = [i \in 0..n |-> IF i = 0 THEN NewCompression
                          ELSE CompressNext(after[i - 1], C[i])]

(* There is such a function for each number of chunks.                     *)
LEMMA CompressionExists ==
  ASSUME NEW C
  PROVE  \A n \in Nat : \E after : Compresses(after, C, n)
<1> DEFINE Bad == {n \in Nat : ~ \E after : Compresses(after, C, n)}
<1>1. SUFFICES ASSUME Bad # {} PROVE FALSE
  OBVIOUS
<1>2. PICK n \in Bad : \A k \in Bad : n <= k
  BY <1>1, LeastElement
<1>3. n \in Nat /\ \A after : ~ Compresses(after, C, n)
  OBVIOUS
<1>4. CASE n = 0
  <2>1. Compresses([i \in 0..0 |-> NewCompression], C, 0)
    BY DEF Compresses
  <2> QED BY <2>1, <1>3, <1>4
<1>5. CASE n # 0
  <2>1. n - 1 \in Nat /\ n - 1 \notin Bad
    BY <1>2, <1>3, <1>5
  <2>2. PICK g : Compresses(g, C, n - 1)
    BY <2>1
  <2> DEFINE h == [i \in 0..n |-> IF i = n THEN CompressNext(g[n - 1], C[n]) ELSE g[i]]
  <2>3. \A i \in 0..(n - 1) : g[i] = IF i = 0 THEN NewCompression
                                     ELSE CompressNext(g[i - 1], C[i])
    BY <2>2 DEF Compresses
  <2>4. ASSUME NEW i \in 0..n
        PROVE  h[i] = IF i = 0 THEN NewCompression ELSE CompressNext(h[i - 1], C[i])
    <3>1. CASE i = n
      <4>1. n - 1 \in 0..n /\ n - 1 # n
        BY <2>1
      <4>2. h[n - 1] = g[n - 1]
        BY <4>1
      <4> QED BY <1>5, <3>1, <4>2
    <3>2. CASE i # n
      <4>1. i \in 0..(n - 1)
        BY <1>3, <3>2
      <4>2. CASE i = 0
        BY <2>3, <3>2, <4>1, <4>2
      <4>3. CASE i # 0
        <5>1. i - 1 \in 0..n /\ i - 1 # n
          BY <4>1, <4>3
        <5>2. h[i - 1] = g[i - 1] /\ h[i] = g[i]
          BY <3>2, <5>1
        <5> HIDE DEF h
        <5> QED BY <2>3, <4>1, <4>3, <5>2
      <4> QED BY <4>2, <4>3
    <3> QED BY <3>1, <3>2
  <2>5. h = [i \in 0..n |-> h[i]]
    OBVIOUS
  <2> HIDE DEF h
  <2>6. Compresses(h, C, n)
    BY <2>4, <2>5 DEF Compresses
  <2> QED BY <2>6, <1>3
<1> QED BY <1>4, <1>5

(* After any number of chunks they are all kept, or the IDs were used up.  *)
LEMMA CompressesKeeps ==
  ASSUME NEW C \in Seq(Chunk), NEW after, Compresses(after, C, Len(C)),
         NEW n \in 0..Len(C)
  PROVE  \/ after[n].panicked /\ MaxId < Len(C)
         \/ Keeps(after[n], n, C)
<1> DEFINE Right(k) == \/ after[k].panicked /\ MaxId < Len(C)
                       \/ Keeps(after[k], k, C)
           Bad == {k \in Nat : k <= Len(C) /\ ~ Right(k)}
<1>1. /\ Len(C) \in Nat
      /\ \A i \in 0..Len(C) : after[i] = IF i = 0 THEN NewCompression
                                         ELSE CompressNext(after[i - 1], C[i])
  BY DEF Compresses
<1>2. Bad = {}
  <2>1. SUFFICES ASSUME Bad # {} PROVE FALSE
    OBVIOUS
  <2>2. PICK k \in Bad : \A j \in Bad : k <= j
    <3> HIDE DEF Right
    <3> QED BY <2>1, LeastElement
  <2>3. k \in Nat /\ k <= Len(C) /\ ~ Right(k)
    BY <2>2
  <2>4. CASE k = 0
    <3>1. after[0] = NewCompression
      BY <1>1
    <3> QED BY <2>3, <2>4, <3>1, NothingIsKept
  <2>5. CASE k # 0
    <3>1. k - 1 \in Nat /\ k - 1 < Len(C) /\ k - 1 \notin Bad
      BY <1>1, <2>2, <2>3, <2>5
    <3>2. Right(k - 1)
      BY <1>1, <3>1
    <3>3. after[k] = CompressNext(after[k - 1], C[k])
      BY <1>1, <2>3, <2>5
    <3>4. (k - 1) + 1 = k
      BY <2>3
    <3>5. CASE after[k - 1].panicked /\ MaxId < Len(C)
      BY <2>3, <3>3, <3>5 DEF CompressNext
    <3>6. CASE Keeps(after[k - 1], k - 1, C)
      <4>1. after[k] = CompressChunk(after[k - 1], C[k])
        BY <3>3, <3>6 DEF CompressNext, Keeps
      <4>2. \/ after[k].panicked /\ MaxId <= k - 1
            \/ Keeps(after[k], k, C)
        BY <3>1, <3>4, <3>6, <4>1, CompressChunkKeeps
      <4>3. MaxId <= k - 1 => MaxId < Len(C)
        BY <1>1, <3>1, MaxIdType
      <4> QED BY <2>3, <4>2, <4>3
    <3> QED BY <3>2, <3>5, <3>6
  <2> QED BY <2>4, <2>5
<1>3. n \in Nat /\ n <= Len(C)
  BY <1>1
<1> QED BY <1>2, <1>3

----------------------------------------------------------------------------
(* The chunks of the input.                                                *)

(* A place in the input, and the chunk it lies in.                         *)
LEMMA PlaceInChunks ==
  ASSUME NEW w \in Nat \ {0}, NEW n \in Nat, NEW k \in 1..n
  PROVE  /\ FieldOf(k, w) \in 1..CeilDiv(n, w) /\ PlaceOfBit(k, w) \in 1..w
         /\ k = (FieldOf(k, w) - 1) * w + PlaceOfBit(k, w)
         /\ CeilDiv(n, w) \in Nat /\ n <= CeilDiv(n, w) * w
<1> DEFINE q == (k - 1) \div w
           r == (k - 1) % w
           c == (n + w - 1) \div w
           d == (n + w - 1) % w
<1>1. /\ q \in Nat /\ r \in 0..(w - 1) /\ k - 1 = w * q + r
      /\ c \in Nat /\ d \in 0..(w - 1) /\ n + w - 1 = w * c + d
  OBVIOUS
<1> HIDE DEF q, r, c, d
<1>2. n <= w * c
  BY <1>1
<1>3. q < c
  <2>1. SUFFICES ASSUME c <= q PROVE FALSE
    BY <1>1
  <2>2. w * c <= w * q
    BY <1>1, <2>1
  <2>3. w * q \in Nat /\ w * c \in Nat
    BY <1>1
  <2> QED BY <1>1, <1>2, <2>2, <2>3
<1>4. w * c = c * w /\ w * q = q * w /\ (q + 1) - 1 = q
  BY <1>1
<1>5. FieldOf(k, w) = q + 1 /\ PlaceOfBit(k, w) = r + 1 /\ CeilDiv(n, w) = c
  BY DEF FieldOf, PlaceOfBit, CeilDiv, q, r, c
<1>6. k = q * w + (r + 1) /\ q * w \in Nat
  BY <1>1, <1>4
<1> QED BY <1>1, <1>2, <1>3, <1>4, <1>5, <1>6

(* The chunks of a sequence of samples hold each sample in its place.      *)
LEMMA ChunksHoldSamples ==
  ASSUME NEW samples \in Seq(Sample)
  PROVE  LET C == ChunkSamples(samples)
         IN  /\ C \in Seq(Chunk)
             /\ Len(samples) <= Len(C) * SamplesPerChunk
             /\ \A k \in 1..Len(samples) :
                  /\ FieldOf(k, SamplesPerChunk) \in 1..Len(C)
                  /\ PlaceOfBit(k, SamplesPerChunk) \in 1..SamplesPerChunk
                  /\ C[FieldOf(k, SamplesPerChunk)][PlaceOfBit(k, SamplesPerChunk)] = samples[k]
<1> DEFINE w == SamplesPerChunk
           n == Len(samples)
           m == CeilDiv(n, w)
           C == ChunkSamples(samples)
           Last(c) == IF c * w <= n THEN c * w ELSE n
           Part(c) == SubSeq(samples, (c - 1) * w + 1, Last(c))
<1>1. w \in Nat \ {0} /\ n \in Nat /\ m \in Nat /\ n <= m * w
  <2>1. w \in Nat \ {0} /\ n \in Nat
    BY Geometry
  <2>2. CASE n = 0
    <3>1. CeilDiv(0, w) = 0
      BY <2>1 DEF CeilDiv
    <3> QED BY <2>1, <2>2, <3>1
  <2>3. CASE n # 0
    <3>1. n \in 1..n
      BY <2>1, <2>3
    <3> QED BY <2>1, <3>1, PlaceInChunks
  <2> QED BY <2>1, <2>2, <2>3
<1>2. C = [c \in 1..m |-> PadChunk(Part(c))]
  BY DEF ChunkSamples
<1>3. ASSUME NEW c \in 1..m
      PROVE  /\ Part(c) \in Seq(Sample)
             /\ (c - 1) * w \in Nat /\ Last(c) <= n /\ Last(c) \in Nat
             /\ Len(Part(c)) = IF (c - 1) * w + 1 <= Last(c) THEN Last(c) - (c - 1) * w ELSE 0
             /\ \A i \in 1..Len(Part(c)) : Part(c)[i] = samples[(c - 1) * w + i]
  <2> DEFINE first == (c - 1) * w
             last == Last(c)
  <2>1. first \in Nat /\ c * w \in Nat
    BY <1>1
  <2>2. last \in Nat /\ last <= n
    BY <1>1, <2>1
  <2> HIDE DEF first, last, n
  <2>3. /\ SubSeq(samples, first + 1, last) \in Seq(Sample)
        /\ Len(SubSeq(samples, first + 1, last))
             = IF first + 1 <= last THEN last - first ELSE 0
    <3>1. \A i \in (first + 1)..last : samples[i] \in Sample
      BY <2>1, <2>2 DEF n
    <3> QED BY <2>1, <2>2, <3>1
  <2>4. \A i \in 1..Len(SubSeq(samples, first + 1, last)) :
           SubSeq(samples, first + 1, last)[i] = samples[first + i]
    BY <2>1, <2>2, <2>3
  <2> QED BY <2>1, <2>2, <2>3, <2>4 DEF first, last
<1> HIDE DEF Part, C, m
<1>4. C \in Seq(Chunk) /\ Len(C) = m
  <2>1. C \in [1..m -> Chunk]
    BY <1>2, <1>3, PadChunkType
  <2> QED BY <1>1, <2>1, FunctionIsSequence
<1>5. ASSUME NEW k \in 1..n
      PROVE  /\ FieldOf(k, w) \in 1..m /\ PlaceOfBit(k, w) \in 1..w
             /\ C[FieldOf(k, w)][PlaceOfBit(k, w)] = samples[k]
  <2> DEFINE c == FieldOf(k, w)
             i == PlaceOfBit(k, w)
  <2>1. c \in 1..m /\ i \in 1..w /\ k = (c - 1) * w + i
    BY <1>1, PlaceInChunks DEF m
  <2>2. c * w = (c - 1) * w + w
    BY <1>1, <2>1
  <2> HIDE DEF c, i
  <2>3. /\ (c - 1) * w \in Nat /\ Last(c) \in Nat
        /\ Len(Part(c)) = IF (c - 1) * w + 1 <= Last(c) THEN Last(c) - (c - 1) * w ELSE 0
        /\ \A j \in 1..Len(Part(c)) : Part(c)[j] = samples[(c - 1) * w + j]
    BY <1>3, <2>1
  <2> DEFINE before == (c - 1) * w
  <2>4. before + i <= Last(c)
    BY <1>1, <2>1, <2>2, <2>3
  <2> HIDE DEF before, Last
  <2>5. i \in 1..Len(Part(c))
    BY <1>1, <2>1, <2>3, <2>4 DEF before
  <2>6. Part(c)[i] = samples[k]
    BY <2>1, <2>3, <2>5
  <2>7. C[c] = PadChunk(Part(c))
    BY <1>2, <2>1
  <2>8. C[c][i] = Part(c)[i]
    BY <2>1, <2>5, <2>7 DEF PadChunk
  <2> QED BY <2>1, <2>6, <2>8 DEF c, i
<1> QED BY <1>1, <1>4, <1>5 DEF C

(* A container has three fields.                                           *)
IsContainer(container) ==
  container = [original_sample_count |-> container.original_sample_count,
               dictionary |-> container.dictionary,
               splits |-> container.splits]

(* What compress_samples returns holds the chunks of the input; it returns *)
(* nothing only if they are more than there are IDs.                       *)
LEMMA CompressedIsLaidOut ==
  ASSUME NEW samples \in Seq(Sample)
  PROVE  LET C == ChunkSamples(samples)
             compressed == CompressSamples(samples)
         IN  /\ compressed = <<>> => MaxId < Len(C)
             /\ compressed # <<>> =>
                  /\ IsContainer(compressed[1])
                  /\ compressed[1].original_sample_count = Len(samples)
                  /\ compressed[1].dictionary \in Seq(PackedBase)
                  /\ Layout(compressed[1].splits, Len(C), compressed[1].dictionary, C)
<1> DEFINE C == ChunkSamples(samples)
           compressed == CompressSamples(samples)
           after == CHOOSE f : Compresses(f, C, Len(C))
           done == after[Len(C)]
           splits == IF done.current_split.pairs = <<>> THEN done.splits
                     ELSE Append(done.splits, done.current_split)
           container == [original_sample_count |-> Len(samples),
                         dictionary |-> done.persisted_bases,
                         splits |-> splits]
<1>1. C \in Seq(Chunk) /\ Len(C) \in Nat
  BY ChunksHoldSamples
<1>2. compressed = IF done.panicked THEN <<>> ELSE <<container>>
  BY DEF CompressSamples, Compresses, CompressNext
<1>3. Compresses(after, C, Len(C))
  BY <1>1, CompressionExists
<1> HIDE DEF after, C, compressed
<1>4. \/ done.panicked /\ MaxId < Len(C)
      \/ Keeps(done, Len(C), C)
  BY <1>1, <1>3, CompressesKeeps
<1>5. CASE done.panicked
  BY <1>2, <1>4, <1>5 DEF Keeps, C, compressed
<1>6. CASE ~ done.panicked
  <2>1. Keeps(done, Len(C), C)
    BY <1>4, <1>6
  <2>2. /\ done.persisted_bases \in Seq(PackedBase)
        /\ done.splits \in Seq(Split) /\ done.current_split \in Split
        /\ Layout(Append(done.splits, done.current_split), Len(C), done.persisted_bases, C)
    BY <2>1 DEF Keeps, Compression
  <2>3. Layout(splits, Len(C), done.persisted_bases, C)
    BY <2>2, LayoutWithoutLast
  <2>4. compressed = <<container>>
    BY <1>2, <1>6
  <2>5. IsContainer(container)
    BY DEF IsContainer
  <2> HIDE DEF splits, done
  <2> QED BY <2>2, <2>3, <2>4, <2>5 DEF C, compressed
<1> QED BY <1>5, <1>6

----------------------------------------------------------------------------
(* Reading the whole container.                                            *)

(* C are the chunks the container holds.                                   *)
ContainsChunks(container, before, C) ==
  /\ C \in Seq(Chunk)
  /\ container.dictionary \in Seq(PackedBase)
  /\ LaidOut(container.splits, before, Len(C), container.dictionary, C)

(* The pairs of a split are those of the chunks that begin at before[s].   *)
LEMMA PairOfSplit ==
  ASSUME NEW container, NEW before, NEW C, ContainsChunks(container, before, C),
         NEW s \in 1..Len(container.splits),
         NEW i \in 1..Len(container.splits[s].pairs)
  PROVE  LET split == container.splits[s]
         IN  /\ split.l_id \in Nat /\ split.l_d \in 0..ChunkBitLen /\ split.pairs[i] \in Pair
             /\ before[s] \in Nat /\ before[s] + i \in 1..Len(C) /\ C[before[s] + i] \in Chunk
             /\ Encodes(split.pairs[i], split.l_d, C[before[s] + i], container.dictionary)
<1> DEFINE splits == container.splits
           split == splits[s]
<1>1. /\ C \in Seq(Chunk) /\ Len(C) \in Nat
      /\ splits \in Seq(Split) /\ Len(splits) \in Nat
      /\ before \in [1..(Len(splits) + 1) -> 0..Len(C)]
      /\ HoldsChunks(split, before[s], before[s + 1], container.dictionary, C)
  BY DEF ContainsChunks, LaidOut
<1>2. split \in Split
  BY <1>1
<1>3. split.l_id \in Nat /\ split.l_d \in 0..ChunkBitLen /\ split.pairs \in Seq(Pair)
  BY <1>2 DEF Split
<1>4. before[s] \in 0..Len(C) /\ before[s + 1] \in 0..Len(C)
  <2>1. s \in 1..(Len(splits) + 1) /\ s + 1 \in 1..(Len(splits) + 1)
    BY <1>1
  <2> QED BY <1>1, <2>1
<1> HIDE DEF splits, split
<1>5. i \in 1..Len(split.pairs)
  BY DEF split, splits
<1>6. split.pairs[i] \in Pair /\ Len(split.pairs) \in Nat
  BY <1>3, <1>5
<1>7. before[s] + i \in 1..Len(C)
  BY <1>1, <1>4, <1>5, <1>6 DEF HoldsChunks
<1>8. Encodes(split.pairs[i], split.l_d, C[before[s] + i], container.dictionary)
  BY <1>1, <1>5 DEF HoldsChunks
<1> QED BY <1>1, <1>3, <1>4, <1>6, <1>7, <1>8 DEF split, splits

(* A pair's chunk is restored from the container.                          *)
LEMMA ChunkIsRestored ==
  ASSUME NEW container, NEW pair \in Pair, NEW l_d \in 0..ChunkBitLen, NEW chunk \in Chunk,
         Encodes(pair, l_d, chunk, container.dictionary)
  PROVE  /\ HasBase(container, pair)
         /\ ReconstructChunk(container, pair, l_d) = <<chunk>>
<1>1. Restores(container.dictionary, pair, l_d, chunk)
  BY DEF Encodes
<1>2. HasBase(container, pair)
  BY DEF Encodes, HasBase
<1> QED BY <1>1, <1>2 DEF ReconstructChunk, BaseOf, Restores

(* No base is missing.                                                     *)
LEMMA AllBasesAreThere ==
  ASSUME NEW container, NEW before, NEW C, ContainsChunks(container, before, C)
  PROVE  HasAllBases(container)
BY PairOfSplit, ChunkIsRestored DEF HasAllBases

(* The chunks up to the end of a split are those before it and its own.    *)
LEMMA ChunksOfSplit ==
  ASSUME NEW C \in Seq(Chunk), NEW a \in 0..Len(C), NEW n \in Nat, a + n <= Len(C),
         NEW chunks, chunks = [i \in 1..n |-> C[a + i]]
  PROVE  LET First(k) == [q \in 1..k |-> C[q]]
         IN  /\ First(a) \in Seq(Chunk) /\ chunks \in Seq(Chunk) /\ Len(chunks) = n
             /\ First(a + n) = First(a) \o chunks
<1> DEFINE First(k) == [q \in 1..k |-> C[q]]
           all == First(a) \o chunks
<1>1. /\ a \in Nat /\ First(a) \in [1..a -> Chunk] /\ chunks \in [1..n -> Chunk]
      /\ \A q \in 1..(a + n) : C[q] \in Chunk
  <2>1. \A q \in 1..(a + n) : C[q] \in Chunk
    OBVIOUS
  <2>2. \A i \in 1..n : a + i \in 1..(a + n)
    OBVIOUS
  <2>3. \A q \in 1..a : q \in 1..(a + n)
    OBVIOUS
  <2> QED BY <2>1, <2>2, <2>3
<1>2. /\ First(a) \in Seq(Chunk) /\ Len(First(a)) = a
      /\ chunks \in Seq(Chunk) /\ Len(chunks) = n
  BY <1>1, FunctionIsSequence
<1>3. /\ all \in Seq(Chunk) /\ Len(all) = a + n
      /\ \A q \in 1..a : all[q] = First(a)[q]
      /\ \A i \in 1..n : all[a + i] = chunks[i]
  BY <1>2, ConcatPlaces
<1>4. \A q \in 1..a : First(a)[q] = C[q]
  OBVIOUS
<1> HIDE DEF all, First
<1>5. ASSUME NEW q \in 1..(a + n) PROVE all[q] = C[q]
  <2>1. CASE q <= a
    BY <1>1, <1>3, <1>4, <2>1
  <2>2. CASE q > a
    <3>1. q - a \in 1..n /\ a + (q - a) = q
      BY <1>1, <2>2
    <3>2. all[q] = chunks[q - a] /\ chunks[q - a] = C[a + (q - a)]
      BY <1>3, <3>1
    <3> QED BY <3>1, <3>2
  <2> QED BY <1>1, <2>1, <2>2
<1>6. all = [q \in 1..(a + n) |-> all[q]]
  BY <1>3
<1>7. First(a + n) = all
  BY <1>5, <1>6 DEF First
<1> QED BY <1>2, <1>7 DEF First, all

(* Reading split after split gives the samples of all chunks.              *)
LEMMA AllIsRead ==
  ASSUME NEW container, NEW before, NEW C, ContainsChunks(container, before, C)
  PROVE  EncodedSamples(container) = Join(C, SamplesPerChunk)
<1> DEFINE w == SamplesPerChunk
           splits == container.splits
           m == Len(splits)
           SamplesOf(split) ==
             Join([i \in 1..Len(split.pairs) |->
                     ReconstructChunk(container, split.pairs[i], split.l_d)[1]], w)
           First(k) == [q \in 1..k |-> C[q]]
           Reads(f) == f = [s \in 0..m |-> IF s = 0 THEN <<>>
                                           ELSE f[s - 1] \o SamplesOf(splits[s])]
           g == [s \in 0..m |-> Join(First(before[s + 1]), w)]
           read == CHOOSE f : Reads(f)
<1>1. EncodedSamples(container) = read[m]
  BY DEF EncodedSamples
<1>2. /\ C \in Seq(Chunk) /\ Len(C) \in Nat /\ m \in Nat
      /\ splits \in Seq(Split)
      /\ before \in [1..(m + 1) -> 0..Len(C)]
      /\ before[1] = 0 /\ before[m + 1] = Len(C)
      /\ \A s \in 1..m : HoldsChunks(splits[s], before[s], before[s + 1],
                                     container.dictionary, C)
  BY DEF ContainsChunks, LaidOut
<1>3. w \in Nat /\ Chunk = [1..w -> Sample]
  BY Geometry DEF Chunk
<1>4. ASSUME NEW s \in 1..m
      PROVE  Join(First(before[s + 1]), w) = Join(First(before[s]), w) \o SamplesOf(splits[s])
  <2> DEFINE n == Len(splits[s].pairs)
             chunks == [i \in 1..n |-> C[before[s] + i]]
             a == before[s]
  <2>1. /\ a \in 0..Len(C) /\ before[s + 1] \in 0..Len(C)
        /\ n \in Nat /\ before[s + 1] = a + n
    <3>1. s \in 1..(m + 1) /\ s + 1 \in 1..(m + 1)
      BY <1>2
    <3>2. n \in Nat
      <4>1. splits[s] \in Split
        BY <1>2
      <4>2. splits[s].pairs \in Seq(Pair)
        BY <4>1 DEF Split
      <4> QED BY <4>2
    <3>3. before[s + 1] = a + n
      BY <1>2 DEF HoldsChunks
    <3>4. a \in 0..Len(C) /\ before[s + 1] \in 0..Len(C)
      BY <1>2, <3>1
    <3> QED BY <3>2, <3>3, <3>4
  <2>2. SamplesOf(splits[s]) = Join(chunks, w)
    <3>1. ASSUME NEW i \in 1..n
          PROVE  ReconstructChunk(container, splits[s].pairs[i], splits[s].l_d)[1]
                   = C[before[s] + i]
      <4> DEFINE pair == splits[s].pairs[i]
                 chunk == C[before[s] + i]
      <4>1. /\ splits[s].l_d \in 0..ChunkBitLen /\ pair \in Pair /\ chunk \in Chunk
            /\ Encodes(pair, splits[s].l_d, chunk, container.dictionary)
        BY PairOfSplit
      <4> HIDE DEF pair, chunk
      <4>2. ReconstructChunk(container, pair, splits[s].l_d) = <<chunk>>
        BY <4>1, ChunkIsRestored
      <4> QED BY <4>2 DEF pair, chunk
    <3> QED BY <3>1
  <2> HIDE DEF SamplesOf, n, a
  <2>3. a + n <= Len(C)
    BY <1>2, <2>1
  <2>4. /\ First(a) \in Seq(Chunk) /\ chunks \in Seq(Chunk)
        /\ First(a + n) = First(a) \o chunks
    <3>1. chunks = [i \in 1..n |-> C[a + i]]
      BY DEF a
    <3>2. C \in Seq(Chunk) /\ a \in 0..Len(C) /\ n \in Nat /\ a + n <= Len(C)
      BY <1>2, <2>1, <2>3
    <3> HIDE DEF chunks
    <3>3. First(a) \in Seq(Chunk) /\ chunks \in Seq(Chunk)
      BY ONLY <3>1, <3>2, ChunksOfSplit DEF First
    <3>4. First(a + n) = First(a) \o chunks
      BY ONLY <3>1, <3>2, ChunksOfSplit DEF First
    <3> QED BY ONLY <3>3, <3>4
  <2> HIDE DEF chunks
  <2> HIDE DEF First
  <2>5. Join(First(a) \o chunks, w) = Join(First(a), w) \o Join(chunks, w)
    BY <1>3, <2>4, JoinConcat
  <2> QED BY <2>1, <2>2, <2>4, <2>5 DEF a
<1>5. Join(First(before[1]), w) = <<>>
  <2>1. First(before[1]) = <<>>
    BY <1>2
  <2>2. Len(<<>>) * w = 0
    BY <1>3
  <2>3. Join(<<>>, w) = <<>>
    BY <2>2 DEF Join
  <2> HIDE DEF First
  <2> QED BY <2>1, <2>3
<1>6. First(before[m + 1]) = C
  BY <1>2
<1> HIDE DEF SamplesOf, First, w, splits
<1>7. \A s \in 0..m : g[s] = Join(First(before[s + 1]), w)
  OBVIOUS
<1>8. g[0] = <<>>
  BY <1>2, <1>5, <1>7
<1>9. ASSUME NEW s \in 1..m PROVE g[s] = g[s - 1] \o SamplesOf(splits[s])
  <2>1. s \in 0..m /\ s - 1 \in 0..m /\ (s - 1) + 1 = s
    BY <1>2
  <2> QED BY <1>4, <1>7, <2>1
<1>10. g[m] = Join(C, w)
  <2>1. m \in 0..m
    BY <1>2
  <2> QED BY <1>6, <1>7, <2>1
<1>11. g = [s \in 0..m |-> g[s]]
  OBVIOUS
<1> HIDE DEF g
<1>12. Reads(g)
  <2>1. \A s \in 0..m : g[s] = IF s = 0 THEN <<>> ELSE g[s - 1] \o SamplesOf(splits[s])
    <3>1. ASSUME NEW s \in 0..m, s # 0 PROVE s \in 1..m
      BY <1>2, <3>1
    <3> HIDE DEF m
    <3> QED BY <1>8, <1>9, <3>1
  <2> QED BY <1>11, <2>1
<1>13. Reads(read)
  BY <1>12, Zenon
<1> HIDE DEF read
<1>14. \A s \in 0..m : read[s] = IF s = 0 THEN <<>>
                                 ELSE read[s - 1] \o SamplesOf(splits[s])
  BY <1>13
<1> HIDE DEF Reads, m
<1> DEFINE Bad == {s \in Nat : s \in 0..m /\ read[s] # g[s]}
<1>15. Bad = {}
  <2>1. SUFFICES ASSUME Bad # {} PROVE FALSE
    OBVIOUS
  <2>2. PICK s \in Bad : \A k \in Bad : s <= k
    BY <2>1, LeastElement
  <2>3. s \in 0..m /\ s \in Nat /\ read[s] # g[s]
    BY <2>2
  <2>4. s # 0
    <3>1. 0 \in 0..m
      BY <1>2
    <3> QED BY <1>8, <1>14, <2>3, <3>1
  <2>5. s \in 1..m /\ s - 1 \in 0..m /\ s - 1 \in Nat /\ s - 1 \notin Bad
    BY <1>2, <2>2, <2>3, <2>4
  <2>6. read[s - 1] = g[s - 1]
    BY <2>5
  <2> QED BY <1>9, <1>14, <2>3, <2>4, <2>5, <2>6
<1>16. read[m] = g[m]
  <2>1. m \in 0..m
    BY <1>2
  <2> QED BY <1>2, <1>15, <2>1
<1> QED BY <1>1, <1>10, <1>16 DEF w

(* The samples of the chunks of an input are the input and the padding.    *)
LEMMA JoinedChunks ==
  ASSUME NEW samples \in Seq(Sample)
  PROVE  LET all == Join(ChunkSamples(samples), SamplesPerChunk)
         IN  /\ all \in Seq(Sample) /\ Len(samples) <= Len(all)
             /\ \A k \in 1..Len(samples) : all[k] = samples[k]
<1> DEFINE C == ChunkSamples(samples)
           w == SamplesPerChunk
           all == Join(C, w)
<1>1. /\ C \in Seq(Chunk) /\ Len(samples) <= Len(C) * w /\ Len(samples) \in Nat
      /\ \A k \in 1..Len(samples) : C[FieldOf(k, w)][PlaceOfBit(k, w)] = samples[k]
  BY ChunksHoldSamples
<1> HIDE DEF C
<1>2. all \in Seq(Sample) /\ Len(all) = Len(C) * w /\ Len(all) \in Nat
  <2>1. w \in Nat /\ C \in Seq([1..w -> Sample])
    BY <1>1, Geometry DEF Chunk
  <2> QED BY <2>1, JoinOfSeq
<1>3. \A k \in 1..(Len(C) * w) : all[k] = C[FieldOf(k, w)][PlaceOfBit(k, w)]
  BY DEF Join
<1> HIDE DEF all, w
<1>4. \A k \in 1..Len(samples) : k \in 1..(Len(C) * w)
  BY <1>1, <1>2
<1> QED BY <1>1, <1>2, <1>3, <1>4 DEF all, w, C

(* A container of the chunks of an input decompresses to the input.        *)
LEMMA DecompressesToInput ==
  ASSUME NEW samples \in Seq(Sample), NEW container, NEW before,
         ContainsChunks(container, before, ChunkSamples(samples)),
         container.original_sample_count = Len(samples)
  PROVE  DecompressSamples(container) = <<samples>>
<1> DEFINE all == EncodedSamples(container)
           n == Len(samples)
<1>1. /\ all \in Seq(Sample) /\ n <= Len(all) /\ n \in Nat /\ Len(all) \in Nat
      /\ \A k \in 1..n : all[k] = samples[k]
  BY AllIsRead, JoinedChunks
<1>2. DecompressSamples(container) = <<SubSeq(all, 1, n)>>
  BY <1>1, AllBasesAreThere DEF DecompressSamples
<1> HIDE DEF all
<1>3. SubSeq(all, 1, n) = samples
  <2>1. /\ SubSeq(all, 1, n) \in Seq(Sample) /\ Len(SubSeq(all, 1, n)) = n
        /\ \A k \in 1..n : SubSeq(all, 1, n)[k] = samples[k]
    BY <1>1
  <2> QED BY <2>1
<1> QED BY <1>2, <1>3

----------------------------------------------------------------------------
(* Reading one sample or one bit.                                          *)

(* The loop of split_for_chunk: the pairs of one split after the other are *)
(* subtracted.                                                             *)
Subtracts(remaining, splits, q) ==
  remaining = [s \in 1..(Len(splits) + 1) |->
                 IF s = 1 THEN q ELSE remaining[s - 1] - Len(splits[s - 1].pairs)]

(* This gives the place of a chunk after those before the split.           *)
LEMMA RemainingPairs ==
  ASSUME NEW container, NEW before, NEW C, ContainsChunks(container, before, C), NEW q \in Nat
  PROVE  LET splits == container.splits
         IN  /\ \E f : Subtracts(f, splits, q)
             /\ \A f : Subtracts(f, splits, q) =>
                  \A s \in 1..(Len(splits) + 1) : f[s] = q - before[s]
<1> DEFINE splits == container.splits
           m == Len(splits)
           g == [s \in 1..(m + 1) |-> q - before[s]]
<1>1. /\ m \in Nat /\ Len(C) \in Nat
      /\ before \in [1..(m + 1) -> 0..Len(C)] /\ before[1] = 0
      /\ \A s \in 1..m : before[s + 1] = before[s] + Len(splits[s].pairs)
      /\ \A s \in 1..m : Len(splits[s].pairs) \in Nat
  <2>1. splits \in Seq(Split) /\ C \in Seq(Chunk)
    BY DEF ContainsChunks, LaidOut
  <2>2. ASSUME NEW s \in 1..m PROVE Len(splits[s].pairs) \in Nat
    <3>1. splits[s] \in Split
      BY <2>1
    <3>2. splits[s].pairs \in Seq(Pair)
      BY <3>1 DEF Split
    <3> QED BY <3>2
  <2> QED BY <2>1, <2>2 DEF ContainsChunks, LaidOut, HoldsChunks
<1>2. ASSUME NEW s \in 1..(m + 1), s # 1
      PROVE  /\ s - 1 \in 1..m /\ s - 1 \in 1..(m + 1)
             /\ q - before[s] = (q - before[s - 1]) - Len(splits[s - 1].pairs)
  <2>1. s - 1 \in 1..m /\ s - 1 \in 1..(m + 1) /\ (s - 1) + 1 = s
    BY <1>1, <1>2
  <2>2. before[s] = before[s - 1] + Len(splits[s - 1].pairs)
    BY <1>1, <2>1
  <2>3. Len(splits[s - 1].pairs) \in Nat
    BY <1>1, <2>1
  <2>4. before[s - 1] \in Nat
    <3> HIDE DEF m, splits
    <3> QED BY <1>1, <2>1
  <2> QED BY <2>1, <2>2, <2>3, <2>4
<1>3. Subtracts(g, splits, q)
  <2>1. ASSUME NEW s \in 1..(m + 1)
        PROVE  g[s] = IF s = 1 THEN q ELSE g[s - 1] - Len(splits[s - 1].pairs)
    BY <1>1, <1>2
  <2>2. g = [s \in 1..(m + 1) |-> g[s]]
    OBVIOUS
  <2> HIDE DEF g
  <2> QED BY <2>1, <2>2 DEF Subtracts
<1>4. SUFFICES ASSUME NEW remaining, Subtracts(remaining, splits, q)
               PROVE  \A s \in 1..(m + 1) : remaining[s] = q - before[s]
  <2> HIDE DEF g
  <2> QED BY <1>3
<1>5. \A s \in 1..(m + 1) : remaining[s] = IF s = 1 THEN q
                                          ELSE remaining[s - 1] - Len(splits[s - 1].pairs)
  BY <1>4 DEF Subtracts
<1> HIDE DEF g, splits, m
<1> DEFINE Bad == {s \in Nat : s \in 1..(m + 1) /\ remaining[s] # q - before[s]}
<1>7. Bad = {}
  <2>1. SUFFICES ASSUME Bad # {} PROVE FALSE
    OBVIOUS
  <2>2. PICK s \in Bad : \A k \in Bad : s <= k
    BY <2>1, LeastElement
  <2>3. s \in 1..(m + 1) /\ s \in Nat /\ remaining[s] # q - before[s]
    BY <2>2
  <2>4. s # 1
    BY <1>1, <1>5, <2>3
  <2>5. /\ s - 1 \in 1..m /\ s - 1 \in 1..(m + 1) /\ s - 1 \in Nat
        /\ ~ (s <= s - 1)
    BY <1>1, <2>3, <2>4
  <2>6. remaining[s - 1] = q - before[s - 1]
    BY <2>2, <2>5
  <2> QED BY <1>2, <1>5, <2>3, <2>4, <2>6
<1>8. \A s \in 1..(m + 1) : s \in Nat
  BY <1>1
<1> QED BY <1>7, <1>8

(* A chunk that the container holds is found at its place in its split.    *)
LEMMA ChunkHasSplit ==
  ASSUME NEW container, NEW before, NEW C, ContainsChunks(container, before, C),
         NEW q \in Nat, q < Len(C)
  PROVE  \E s \in 1..Len(container.splits) : \E i \in 1..Len(container.splits[s].pairs) :
           /\ SplitForChunk(container, q) = <<container.splits[s], i>>
           /\ before[s] + i = q + 1 /\ before[s] <= q /\ q < before[s + 1]
<1> DEFINE splits == container.splits
           m == Len(splits)
           remaining == CHOOSE f : Subtracts(f, splits, q)
           Holds(s) == remaining[s] < Len(splits[s].pairs)
           First(s) == Holds(s) /\ \A u \in 1..(s - 1) : ~ Holds(u)
           found == CHOOSE s \in 1..m : First(s)
<1>1. SplitForChunk(container, q)
        = IF \E s \in 1..m : Holds(s) THEN <<splits[found], remaining[found] + 1>> ELSE <<>>
  BY DEF SplitForChunk, Subtracts
<1>2. /\ m \in Nat /\ Len(C) \in Nat
      /\ before \in [1..(m + 1) -> 0..Len(C)] /\ before[1] = 0 /\ before[m + 1] = Len(C)
      /\ \A s \in 1..m : before[s + 1] = before[s] + Len(splits[s].pairs)
      /\ \A s \in 1..m : Len(splits[s].pairs) \in Nat
  <2>1. splits \in Seq(Split) /\ C \in Seq(Chunk)
    BY DEF ContainsChunks, LaidOut
  <2>2. ASSUME NEW s \in 1..m PROVE Len(splits[s].pairs) \in Nat
    <3>1. splits[s] \in Split
      BY <2>1
    <3>2. splits[s].pairs \in Seq(Pair)
      BY <3>1 DEF Split
    <3> QED BY <3>2
  <2> QED BY <2>1, <2>2 DEF ContainsChunks, LaidOut, HoldsChunks
<1>3. \A s \in 1..(m + 1) : remaining[s] = q - before[s]
  <2>1. Subtracts(remaining, splits, q)
    BY RemainingPairs
  <2> HIDE DEF remaining
  <2> QED BY <2>1, RemainingPairs
<1> HIDE DEF remaining, splits, m
<1>4. ASSUME NEW s \in 1..m PROVE Holds(s) <=> q < before[s + 1]
  <2>1. s \in 1..(m + 1) /\ s + 1 \in 1..(m + 1)
    BY <1>2
  <2>2. /\ remaining[s] = q - before[s]
        /\ before[s + 1] = before[s] + Len(splits[s].pairs)
        /\ Len(splits[s].pairs) \in Nat /\ before[s] \in Nat
    BY <1>2, <1>3, <2>1
  <2> QED BY <2>2
<1> HIDE DEF Holds
<1>5. Holds(m) /\ m \in 1..m
  <2>1. m # 0
    BY <1>2
  <2> QED BY <1>2, <1>4, <2>1
<1>6. \E s \in 1..m : First(s)
  <2> DEFINE T == {s \in Nat : s \in 1..m /\ Holds(s)}
  <2>1. T # {}
    BY <1>2, <1>5
  <2>2. PICK s \in T : \A t \in T : s <= t
    BY <2>1, LeastElement
  <2>3. s \in 1..m /\ Holds(s) /\ s \in Nat
    BY <2>2
  <2>4. ASSUME NEW u \in 1..(s - 1) PROVE ~ Holds(u)
    <3>1. u \in Nat /\ u \in 1..m /\ ~ (s <= u)
      BY <1>2, <2>3
    <3> QED BY <2>2, <3>1
  <2> QED BY <2>3, <2>4
<1>7. found \in 1..m /\ First(found)
  BY <1>6
<1> HIDE DEF found
<1>8. /\ found \in 1..(m + 1) /\ before[found] \in Nat /\ before[found] <= q
      /\ q < before[found] + Len(splits[found].pairs)
      /\ Len(splits[found].pairs) \in Nat
  <2>1. found \in 1..(m + 1) /\ before[found] \in Nat /\ Len(splits[found].pairs) \in Nat
    BY <1>2, <1>7
  <2>2. q < before[found] + Len(splits[found].pairs)
    BY <1>2, <1>4, <1>7
  <2>3. CASE found = 1
    BY <1>2, <2>1, <2>2, <2>3
  <2>4. CASE found # 1
    <3>1. found - 1 \in 1..m /\ found - 1 \in 1..(found - 1) /\ (found - 1) + 1 = found
      BY <1>2, <1>7, <2>4
    <3>2. ~ Holds(found - 1)
      BY <1>7, <3>1
    <3>3. ~ (q < before[found])
      BY <1>4, <3>1, <3>2
    <3> QED BY <2>1, <2>2, <3>3
  <2> QED BY <2>3, <2>4
<1> DEFINE i == remaining[found] + 1
           split == splits[found]
<1>9. /\ i \in 1..Len(split.pairs) /\ before[found] + i = q + 1
  <2>1. remaining[found] = q - before[found]
    BY <1>3, <1>8
  <2> QED BY <1>8, <2>1
<1>10. SplitForChunk(container, q) = <<split, i>>
  BY <1>1, <1>5
<1> HIDE DEF i
<1>11. before[found] <= q /\ q < before[found + 1]
  BY <1>2, <1>7, <1>8
<1> QED BY <1>7, <1>9, <1>10, <1>11 DEF splits, m

(* ... with the pair that stands for it.                                   *)
LEMMA ChunkIsFound ==
  ASSUME NEW container, NEW before, NEW C, ContainsChunks(container, before, C),
         NEW q \in Nat, q < Len(C)
  PROVE  \E split, i :
           /\ SplitForChunk(container, q) = <<split, i>>
           /\ split.l_id \in Nat /\ split.l_d \in 0..ChunkBitLen /\ split.pairs[i] \in Pair
           /\ C[q + 1] \in Chunk
           /\ Encodes(split.pairs[i], split.l_d, C[q + 1], container.dictionary)
<1>1. PICK s \in 1..Len(container.splits) : \E i \in 1..Len(container.splits[s].pairs) :
        SplitForChunk(container, q) = <<container.splits[s], i>> /\ before[s] + i = q + 1
  BY ChunkHasSplit
<1>2. PICK i \in 1..Len(container.splits[s].pairs) :
        SplitForChunk(container, q) = <<container.splits[s], i>> /\ before[s] + i = q + 1
  BY <1>1
<1> DEFINE split == container.splits[s]
<1>3. /\ split.l_id \in Nat /\ split.l_d \in 0..ChunkBitLen /\ split.pairs[i] \in Pair
      /\ C[before[s] + i] \in Chunk
      /\ Encodes(split.pairs[i], split.l_d, C[before[s] + i], container.dictionary)
  BY PairOfSplit
<1> HIDE DEF split
<1>4. SplitForChunk(container, q) = <<split, i>> /\ before[s] + i = q + 1
  BY <1>2 DEF split
<1> QED BY <1>3, <1>4

(* A sample is read from its chunk alone.                                  *)
LEMMA SampleIsRead ==
  ASSUME NEW samples \in Seq(Sample), NEW container, NEW before,
         ContainsChunks(container, before, ChunkSamples(samples)),
         container.original_sample_count = Len(samples),
         NEW index \in Nat, index < Len(samples)
  PROVE  GetBySampleIndex(container, index) = <<samples[index + 1]>>
<1> DEFINE C == ChunkSamples(samples)
           w == SamplesPerChunk
           q == index \div w
           r == index % w
           k == index + 1
<1>1. /\ q \in Nat /\ q < Len(C) /\ C[q + 1][r + 1] = samples[k]
  <2>1. k \in 1..Len(samples) /\ k - 1 = index /\ w \in Nat \ {0}
    BY Geometry
  <2>2. FieldOf(k, w) = q + 1 /\ PlaceOfBit(k, w) = r + 1
    BY <2>1 DEF FieldOf, PlaceOfBit
  <2>3. q \in Nat
    BY <2>1
  <2>4. /\ C \in Seq(Chunk) /\ FieldOf(k, w) \in 1..Len(C)
        /\ C[FieldOf(k, w)][PlaceOfBit(k, w)] = samples[k]
    BY <2>1, ChunksHoldSamples
  <2> HIDE DEF q, r, k, C
  <2> QED BY <2>2, <2>3, <2>4
<1>2. PICK split, i :
        /\ SplitForChunk(container, q) = <<split, i>>
        /\ split.l_d \in 0..ChunkBitLen /\ split.pairs[i] \in Pair
        /\ C[q + 1] \in Chunk
        /\ Encodes(split.pairs[i], split.l_d, C[q + 1], container.dictionary)
  <2> HIDE DEF q, C
  <2>1. ContainsChunks(container, before, C)
    BY DEF C
  <2> QED BY <1>1, <2>1, ChunkIsFound
<1>3. ReconstructChunk(container, split.pairs[i], split.l_d) = <<C[q + 1]>>
  BY <1>2, ChunkIsRestored
<1>4. ~ (index >= container.original_sample_count)
  OBVIOUS
<1> HIDE DEF C
<1>5. GetBySampleIndex(container, index) = <<C[q + 1][r + 1]>>
  <2> DEFINE found == SplitForChunk(container, q)
             restored == ReconstructChunk(container, split.pairs[i], split.l_d)
             sample == C[q + 1][r + 1]
  <2>1. found # <<>> /\ found[1] = split /\ found[2] = i
    BY ONLY <1>2
  <2>2. restored # <<>> /\ restored[1][r + 1] = sample
    BY ONLY <1>3
  <2>3. GetBySampleIndex(container, index)
          = IF index >= container.original_sample_count \/ found = <<>> THEN <<>>
            ELSE IF ReconstructChunk(container, found[1].pairs[found[2]], found[1].l_d) = <<>>
                 THEN <<>>
                 ELSE <<ReconstructChunk(container, found[1].pairs[found[2]],
                                         found[1].l_d)[1][r + 1]>>
    BY ONLY Zenon DEF GetBySampleIndex
  <2>4. restored = ReconstructChunk(container, found[1].pairs[found[2]], found[1].l_d)
    BY ONLY <2>1, Zenon
  <2> HIDE DEF found, restored, r, sample
  <2>5. GetBySampleIndex(container, index) = <<sample>>
    BY ONLY <1>4, <2>1, <2>2, <2>3, <2>4, Zenon
  <2> QED BY ONLY <2>5 DEF sample, r
<1> QED BY <1>1, <1>5

(* A bit is read from the deviation or from the base, whichever has it.    *)
LEMMA BitOfPair ==
  ASSUME NEW pair \in Pair, NEW l_d \in 0..ChunkBitLen, NEW chunk \in Chunk,
         NEW B \in Seq(PackedBase), Encodes(pair, l_d, chunk, B),
         NEW s \in 1..SamplesPerChunk, NEW b \in 1..BitsPerSample
  PROVE  IF IsDeviationPosition(l_d, s, b)
         THEN pair.deviation_bits[DeviationBitOffset(l_d, s, b)] = chunk[s][b]
         ELSE B[pair.base_id + 1][BitAt(s, b, BitsPerSample)] = chunk[s][b]
<1> DEFINE base == B[pair.base_id + 1]
<1>1. chunk[s][b] = IF IsDeviationPosition(l_d, s, b)
                    THEN pair.deviation_bits[DeviationBitOffset(l_d, s, b)]
                    ELSE UnpackSamples(base)[s][b]
  BY DEF Encodes, Restores, InverseTransformChunk
<1>2. base \in PackedBase
  BY DEF Encodes, Pair
<1> HIDE DEF base
<1>3. UnpackSamples(base)[s][b] = base[BitAt(s, b, BitsPerSample)]
  BY <1>2, UnpackedBits
<1> QED BY <1>1, <1>3 DEF base

(* A bit is read without its chunk, or even its sample, being restored.    *)
LEMMA BitIsRead ==
  ASSUME NEW samples \in Seq(Sample), NEW container, NEW before,
         ContainsChunks(container, before, ChunkSamples(samples)),
         container.original_sample_count = Len(samples),
         NEW bit_index \in Nat, bit_index < Len(samples) * BitsPerSample
  PROVE  GetByBitIndex(container, bit_index)
           = <<samples[(bit_index \div BitsPerSample) + 1][(bit_index % BitsPerSample) + 1]>>
<1> DEFINE C == ChunkSamples(samples)
           w == SamplesPerChunk
           index == bit_index \div BitsPerSample
           b == (bit_index % BitsPerSample) + 1
           q == index \div w
           s == (index % w) + 1
           k == index + 1
           n == Len(samples)
<1>1. index \in Nat /\ index < n /\ b \in 1..BitsPerSample /\ n \in Nat
  <2> DEFINE a == bit_index + 1
  <2>1. a \in 1..(n * BitsPerSample) /\ a - 1 = bit_index /\ n \in Nat
        /\ BitsPerSample \in Nat
    BY Geometry
  <2>2. FieldOf(a, BitsPerSample) \in 1..n /\ PlaceOfBit(a, BitsPerSample) \in 1..BitsPerSample
    BY <2>1, FieldBounds
  <2>3. FieldOf(a, BitsPerSample) = index + 1 /\ PlaceOfBit(a, BitsPerSample) = b
    BY <2>1 DEF FieldOf, PlaceOfBit
  <2>4. index \in Int
    BY Geometry
  <2> HIDE DEF a, index, b, n
  <2> QED BY <2>1, <2>2, <2>3, <2>4
<1> HIDE DEF index, b
<1>2. /\ q \in Nat /\ q < Len(C) /\ s \in 1..w /\ C[q + 1][s] = samples[k]
  <2>1. k \in 1..n /\ k - 1 = index /\ w \in Nat \ {0}
    BY <1>1, Geometry
  <2>2. FieldOf(k, w) = q + 1 /\ PlaceOfBit(k, w) = s
    BY <2>1 DEF FieldOf, PlaceOfBit
  <2>3. q \in Nat
    BY <1>1, <2>1
  <2>4. /\ C \in Seq(Chunk) /\ FieldOf(k, w) \in 1..Len(C) /\ PlaceOfBit(k, w) \in 1..w
        /\ C[FieldOf(k, w)][PlaceOfBit(k, w)] = samples[k]
    BY <2>1, ChunksHoldSamples
  <2> HIDE DEF q, s, k, C, w
  <2> QED BY <2>2, <2>3, <2>4
<1> HIDE DEF C, q, s, w
<1>3. PICK split, i :
        /\ SplitForChunk(container, q) = <<split, i>>
        /\ split.l_d \in 0..ChunkBitLen /\ split.pairs[i] \in Pair
        /\ C[q + 1] \in Chunk
        /\ Encodes(split.pairs[i], split.l_d, C[q + 1], container.dictionary)
  <2>1. ContainsChunks(container, before, C)
    BY DEF C
  <2> QED BY <1>2, <2>1, ChunkIsFound
<1> DEFINE pair == split.pairs[i]
<1>4. HasBase(container, pair)
  BY <1>3, ChunkIsRestored
<1>5. IF IsDeviationPosition(split.l_d, s, b)
      THEN pair.deviation_bits[DeviationBitOffset(split.l_d, s, b)] = C[q + 1][s][b]
      ELSE container.dictionary[pair.base_id + 1][BitAt(s, b, BitsPerSample)] = C[q + 1][s][b]
  <2>1. s \in 1..SamplesPerChunk
    BY <1>2 DEF w
  <2> HIDE DEF pair
  <2>2. pair \in Pair /\ Encodes(pair, split.l_d, C[q + 1], container.dictionary)
    BY <1>3 DEF pair
  <2>3. container.dictionary \in Seq(PackedBase)
    BY DEF ContainsChunks
  <2> QED BY <1>1, <1>3, <2>1, <2>2, <2>3, BitOfPair
<1>6. ~ (bit_index >= container.original_sample_count * BitsPerSample)
  <2>1. n * BitsPerSample \in Nat
    BY <1>1, Geometry
  <2> QED BY <2>1
<1>7. GetByBitIndex(container, bit_index)
        = IF IsDeviationPosition(split.l_d, s, b)
          THEN <<pair.deviation_bits[DeviationBitOffset(split.l_d, s, b)]>>
          ELSE <<container.dictionary[pair.base_id + 1][BitAt(s, b, BitsPerSample)]>>
  <2> DEFINE found == SplitForChunk(container, q)
  <2>1. GetByBitIndex(container, bit_index)
          = IF bit_index >= container.original_sample_count * BitsPerSample \/ found = <<>>
            THEN <<>>
            ELSE IF IsDeviationPosition(found[1].l_d, s, b)
                 THEN <<found[1].pairs[found[2]].deviation_bits
                          [DeviationBitOffset(found[1].l_d, s, b)]>>
                 ELSE IF HasBase(container, found[1].pairs[found[2]])
                      THEN <<BaseOf(container, found[1].pairs[found[2]])
                               [BitAt(s, b, BitsPerSample)]>>
                      ELSE <<>>
    BY DEF GetByBitIndex, index, b, q, s, w
  <2> HIDE DEF found
  <2>2. found # <<>> /\ found[1] = split /\ found[2] = i
    BY <1>3 DEF found
  <2> QED BY <1>4, <1>6, <2>1, <2>2 DEF BaseOf
<1>8. GetByBitIndex(container, bit_index) = <<samples[k][b]>>
  BY <1>2, <1>5, <1>7
<1> QED BY <1>8 DEF index, b

(* A range is its samples one by one.                                      *)
LEMMA RangeIsRead ==
  ASSUME NEW samples \in Seq(Sample), NEW container, NEW before,
         ContainsChunks(container, before, ChunkSamples(samples)),
         container.original_sample_count = Len(samples),
         NEW start \in Nat, NEW len \in Nat \ {0}, start + len <= Len(samples)
  PROVE  GetRange(container, start, len) = <<SubSeq(samples, start + 1, start + len)>>
<1> DEFINE read == [i \in 1..len |-> GetBySampleIndex(container, start + i - 1)]
           part == SubSeq(samples, start + 1, start + len)
<1>1. ASSUME NEW i \in 1..len PROVE read[i] = <<samples[start + i]>>
  <2>1. start + i - 1 \in Nat /\ start + i - 1 < Len(samples)
        /\ (start + i - 1) + 1 = start + i
    OBVIOUS
  <2>2. GetBySampleIndex(container, start + i - 1) = <<samples[(start + i - 1) + 1]>>
    BY <2>1, SampleIsRead
  <2> QED BY <2>1, <2>2
<1>2. GetRange(container, start, len)
        = IF \E i \in 1..len : read[i] = <<>> THEN <<>>
          ELSE <<[i \in 1..len |-> read[i][1]]>>
  BY DEF GetRange
<1> HIDE DEF read
<1>3. GetRange(container, start, len) = <<[i \in 1..len |-> samples[start + i]]>>
  <2>1. \A i \in 1..len : read[i] # <<>> /\ read[i][1] = samples[start + i]
    BY <1>1
  <2>2. [i \in 1..len |-> read[i][1]] = [i \in 1..len |-> samples[start + i]]
    BY <2>1
  <2> QED BY <1>2, <2>1, <2>2
<1>4. part = [i \in 1..len |-> samples[start + i]]
  <2>1. /\ part \in Seq(Sample) /\ Len(part) = len
        /\ \A i \in 1..len : part[i] = samples[start + i]
    OBVIOUS
  <2>2. part = [i \in 1..len |-> part[i]]
    BY <2>1
  <2> HIDE DEF part
  <2> QED BY <2>1, <2>2
<1> QED BY <1>3, <1>4

----------------------------------------------------------------------------
(* What compress_samples returns.                                          *)

(* What is compressed holds the chunks of the input.                       *)
LEMMA CompressedContains ==
  ASSUME NEW samples \in Seq(Sample), CompressSamples(samples) # <<>>
  PROVE  LET container == CompressSamples(samples)[1]
         IN  /\ IsContainer(container)
             /\ container.original_sample_count = Len(samples)
             /\ \E before : ContainsChunks(container, before, ChunkSamples(samples))
BY CompressedIsLaidOut, ChunksHoldSamples DEF ContainsChunks, Layout

(* Batch compression does not fail (its only way to is the panic for want  *)
(* of IDs) while the input has no more chunks than there are IDs, however  *)
(* often evicted bases come back and take a second one.                    *)
THEOREM CompressionIsTotal ==
  ASSUME NEW samples \in Seq(Sample), Len(ChunkSamples(samples)) <= MaxId
  PROVE  CompressSamples(samples) # <<>>
<1>1. Len(ChunkSamples(samples)) \in Nat
  BY ChunksHoldSamples
<1> QED BY <1>1, CompressedIsLaidOut, MaxIdType

----------------------------------------------------------------------------
(* Sums over finite sets.                                                  *)

(* Sums element by element, as MapThenSumSet takes them from the set.      *)
SumsUp(total, g, S) ==
  total = [s \in SUBSET S |->
             IF s = {} THEN 0
             ELSE g[CHOOSE x \in s : TRUE] + total[s \ {CHOOSE x \in s : TRUE}]]

(* G[s] is what all elements of s make together, in any order.             *)
Additive(G, g, S) ==
  /\ DOMAIN G = SUBSET S /\ G[{}] = 0
  /\ \A s \in SUBSET S : \A x \in s : G[s] = g[x] + G[s \ {x}]

(* The sum of g over S is v, whatever order the elements come in.          *)
SumIs(v, g, S) ==
  /\ \E total : SumsUp(total, g, S)
  /\ \A total : SumsUp(total, g, S) => total[S] = v

(* A sum that does not depend on the order is the sum.                     *)
LEMMA AdditiveIsSum ==
  ASSUME NEW n \in Nat, NEW S \in SUBSET (0..n), NEW g, NEW G, Additive(G, g, S)
  PROVE  SumIs(G[S], g, S)
<1> DEFINE made == [s \in SUBSET S |-> G[s]]
           one(s) == CHOOSE x \in s : TRUE
<1>1. IsFiniteSet(S)
  <2>1. IsFiniteSet(0..n)
    BY FS_Interval
  <2> QED BY <2>1, FS_Subset
<1>2. \A s \in SUBSET S : s # {} => one(s) \in s
  OBVIOUS
<1>3. SumsUp(made, g, S)
  <2>1. ASSUME NEW s \in SUBSET S
        PROVE  made[s] = IF s = {} THEN 0 ELSE g[one(s)] + made[s \ {one(s)}]
    <3>1. s # {} => G[s] = g[one(s)] + G[s \ {one(s)}] /\ s \ {one(s)} \in SUBSET S
      BY <1>2 DEF Additive
    <3>2. G[{}] = 0
      BY DEF Additive
    <3> QED BY <3>1, <3>2
  <2>2. made = [s \in SUBSET S |-> made[s]]
    OBVIOUS
  <2> HIDE DEF made
  <2> QED BY <2>1, <2>2 DEF SumsUp
<1>4. ASSUME NEW total, SumsUp(total, g, S)
      PROVE  total[S] = G[S]
  <2>1. \A s \in SUBSET S : total[s] = IF s = {} THEN 0 ELSE g[one(s)] + total[s \ {one(s)}]
    BY <1>4 DEF SumsUp
  <2> DEFINE Bad == {m \in Nat : \E s \in SUBSET S : Cardinality(s) = m /\ total[s] # G[s]}
  <2>2. Bad = {}
    <3>1. SUFFICES ASSUME Bad # {} PROVE FALSE
      OBVIOUS
    <3>2. PICK m \in Bad : \A k \in Bad : m <= k
      BY <3>1, LeastElement
    <3>3. PICK s \in SUBSET S : Cardinality(s) = m /\ total[s] # G[s]
      OBVIOUS
    <3>4. total[s] = IF s = {} THEN 0 ELSE g[one(s)] + total[s \ {one(s)}]
      BY <2>1
    <3>5. s # {}
      BY <3>3, <3>4 DEF Additive
    <3> DEFINE x == one(s)
               rest == s \ {x}
    <3>6. x \in s
      BY <1>2, <3>5
    <3> HIDE DEF x
    <3>7. IsFiniteSet(s)
      BY <1>1, FS_Subset
    <3>8. IsFiniteSet(rest) /\ Cardinality(rest) = Cardinality(s) - 1
      BY <3>6, <3>7, FS_RemoveElement
    <3>9. rest \in SUBSET S
      OBVIOUS
    <3>10. Cardinality(rest) \in Nat
      BY <3>8, FS_CardinalityType
    <3>11. total[rest] = G[rest]
      <4>1. Cardinality(rest) < m
        BY <3>3, <3>8, <3>10
      <4> HIDE DEF rest
      <4>2. Cardinality(rest) \notin Bad
        <5>1. m \in Nat
          OBVIOUS
        <5> HIDE DEF Bad
        <5> QED BY <3>2, <3>10, <4>1, <5>1
      <4> QED BY <3>9, <3>10, <4>2
    <3>12. G[s] = g[x] + G[rest]
      BY <3>6 DEF Additive
    <3> QED BY <3>3, <3>4, <3>5, <3>11, <3>12 DEF x
  <2>3. Cardinality(S) \in Nat
    BY <1>1, FS_CardinalityType
  <2> QED BY <2>2, <2>3
<1> HIDE DEF made
<1> QED BY <1>3, <1>4 DEF SumIs

(* The sum over 0..n of what is low below k, and one more from k on.       *)
LEMMA SumOfLevels ==
  ASSUME NEW n \in Nat, NEW low \in Nat, NEW k \in Nat, k <= n + 1, NEW g,
         \A b \in 0..n : g[b] = IF b < k THEN low ELSE low + 1
  PROVE  SumIs(low * (n + 1) + (n + 1 - k), g, 0..n)
<1> DEFINE S == 0..n
           high(s) == {b \in s : ~ (b < k)}
           G == [s \in SUBSET S |-> low * Cardinality(s) + Cardinality(high(s))]
<1>1. IsFiniteSet(S) /\ Cardinality(S) = n + 1
  BY FS_Interval
<1>2. ASSUME NEW s \in SUBSET S
      PROVE  IsFiniteSet(s) /\ IsFiniteSet(high(s)) /\ high(s) \in SUBSET S
             /\ Cardinality(s) \in Nat /\ Cardinality(high(s)) \in Nat
  <2>1. s \in SUBSET S /\ high(s) \in SUBSET S
    OBVIOUS
  <2> HIDE DEF S, high
  <2>2. IsFiniteSet(s) /\ IsFiniteSet(high(s))
    BY <1>1, <2>1, FS_Subset
  <2> QED BY <2>1, <2>2, FS_CardinalityType
<1>3. G[{}] = 0
  <2>1. high({}) = {}
    OBVIOUS
  <2>2. G[{}] = low * Cardinality({}) + Cardinality({})
    BY <2>1
  <2>3. Cardinality({}) = 0
    BY FS_EmptySet
  <2> HIDE DEF G
  <2> QED BY <2>2, <2>3
<1>4. ASSUME NEW s \in SUBSET S, NEW x \in s
      PROVE  G[s] = g[x] + G[s \ {x}]
  <2> DEFINE c == Cardinality(s)
             h == Cardinality(high(s))
  <2>1. s \ {x} \in SUBSET S /\ x \in S
    OBVIOUS
  <2>2. Cardinality(s \ {x}) = c - 1 /\ c \in Nat /\ h \in Nat
    <3> HIDE DEF high, S
    <3> QED BY <1>2, FS_RemoveElement
  <2>3. high(s \ {x}) = high(s) \ {x}
    OBVIOUS
  <2>4. Cardinality(high(s) \ {x}) = IF x \in high(s) THEN h - 1 ELSE h
    <3> HIDE DEF high, S
    <3> QED BY <1>2, FS_RemoveElement
  <2>5. G[s] = low * c + h /\ G[s \ {x}] = low * (c - 1) + Cardinality(high(s) \ {x})
    BY <2>1, <2>2, <2>3
  <2>6. low * (c - 1) = low * c - low /\ low * c \in Nat
    <3> HIDE DEF c
    <3> QED BY <2>2
  <2>7. x \in high(s) <=> ~ (x < k)
    OBVIOUS
  <2>8. g[x] = IF x < k THEN low ELSE low + 1
    BY <2>1
  <2> HIDE DEF G, high, h
  <2> DEFINE prod == low * c
  <2>9. G[s] = prod + h /\ G[s \ {x}] = (prod - low) + Cardinality(high(s) \ {x}) /\ prod \in Nat
    BY <2>5, <2>6
  <2> HIDE DEF prod, c
  <2> QED BY <2>2, <2>4, <2>7, <2>8, <2>9
<1>5. Additive(G, g, S)
  <2>1. DOMAIN G = SUBSET S
    OBVIOUS
  <2> HIDE DEF G
  <2> QED BY <1>3, <1>4, <2>1 DEF Additive
<1>6. G[S] = low * (n + 1) + (n + 1 - k)
  <2>1. high(S) = k..n
    OBVIOUS
  <2>2. Cardinality(k..n) = n + 1 - k
    <3>1. Cardinality(k..n) = IF k > n THEN 0 ELSE n - k + 1
      BY FS_Interval
    <3> QED BY <3>1
  <2>3. G[S] = low * Cardinality(S) + Cardinality(high(S))
    OBVIOUS
  <2> HIDE DEF G, high, S
  <2> QED BY <1>1, <2>1, <2>2, <2>3
<1> HIDE DEF G
<1>7. S \in SUBSET (0..n)
  OBVIOUS
<1>8. SumIs(G[S], g, S)
  <2> HIDE DEF S
  <2> QED BY <1>5, <1>7, AdditiveIsSum
<1> QED BY <1>6, <1>8

----------------------------------------------------------------------------
(* Quotients.                                                              *)

(* The quotient is the multiple below.                                     *)
LEMMA QuotientBelow ==
  ASSUME NEW w \in Nat \ {0}, NEW x \in Nat
  PROVE  /\ x \div w \in Nat /\ (x \div w) * w \in Nat
         /\ (x \div w) * w <= x /\ x < (x \div w) * w + w
<1> DEFINE q == x \div w
           r == x % w
<1>1. q \in Nat /\ r \in 0..(w - 1) /\ x = w * q + r
  OBVIOUS
<1> HIDE DEF q, r
<1>2. w * q = q * w /\ q * w \in Nat
  BY <1>1
<1> QED BY <1>1, <1>2 DEF q

(* ... and the only one.                                                   *)
LEMMA QuotientIs ==
  ASSUME NEW w \in Nat \ {0}, NEW q \in Nat, NEW x \in Nat, q * w <= x, x < q * w + w
  PROVE  x \div w = q
<1> DEFINE p == x \div w
<1>1. p \in Nat /\ p * w \in Nat /\ p * w <= x /\ x < p * w + w
  BY QuotientBelow
<1> HIDE DEF p
<1>2. q * w \in Nat
  OBVIOUS
<1>3. CASE p < q
  <2>1. (p + 1) * w <= q * w
    BY <1>1, <1>3
  <2>2. (p + 1) * w = p * w + w
    BY <1>1
  <2> QED BY <1>1, <1>2, <2>1, <2>2
<1>4. CASE q < p
  <2>1. (q + 1) * w <= p * w
    BY <1>1, <1>4
  <2>2. (q + 1) * w = q * w + w
    OBVIOUS
  <2> QED BY <1>1, <1>2, <2>1, <2>2
<1> QED BY <1>1, <1>3, <1>4 DEF p

(* A number is below a multiple exactly if its quotient is smaller.        *)
LEMMA QuotientLess ==
  ASSUME NEW w \in Nat \ {0}, NEW x \in Nat, NEW k \in Nat
  PROVE  x < k * w <=> x \div w < k
<1> DEFINE p == x \div w
<1>1. p \in Nat /\ p * w \in Nat /\ p * w <= x /\ x < p * w + w
  BY QuotientBelow
<1> HIDE DEF p
<1>2. k * w \in Nat
  OBVIOUS
<1>3. CASE p < k
  <2>1. (p + 1) * w <= k * w
    BY <1>1, <1>3
  <2>2. (p + 1) * w = p * w + w
    BY <1>1
  <2> QED BY <1>1, <1>2, <1>3, <2>1, <2>2 DEF p
<1>4. CASE k <= p
  <2>1. k * w <= p * w
    BY <1>1, <1>4
  <2> QED BY <1>1, <1>2, <1>4, <2>1 DEF p
<1> QED BY <1>1, <1>3, <1>4

(* The quotients of an interval are an interval.                           *)
Quotients(w, a, b) == {x \div w : x \in a..b} = (a \div w)..(b \div w)

(* ... from the first quotient to the last.                                *)
LEMMA QuotientsOfInterval ==
  ASSUME NEW w \in Nat \ {0}, NEW a \in Nat, NEW b \in Nat, a <= b
  PROVE  /\ Quotients(w, a, b)
         /\ a \div w \in Nat /\ b \div w \in Nat /\ a \div w <= b \div w
<1> DEFINE p == a \div w
           q == b \div w
           Q(x) == x \div w
<1>1. /\ p \in Nat /\ p * w \in Nat /\ p * w <= a /\ a < p * w + w
      /\ q \in Nat /\ q * w \in Nat /\ q * w <= b /\ b < q * w + w
  BY QuotientBelow
<1>2. ASSUME NEW x \in Nat, NEW y \in Nat, x <= y
      PROVE  Q(x) <= Q(y) /\ Q(x) \in Nat /\ Q(y) \in Nat
  <2>1. Q(x) \in Nat /\ Q(x) * w <= x /\ Q(x) * w \in Nat /\ Q(y) \in Nat
    BY QuotientBelow
  <2>2. ~ (y < Q(x) * w)
    BY <1>2, <2>1
  <2>3. ~ (Q(y) < Q(x))
    <3> HIDE DEF Q
    <3> QED BY <2>1, <2>2, QuotientLess DEF Q
  <2> HIDE DEF Q
  <2> QED BY <2>1, <2>3
<1> HIDE DEF p, q, Q
<1>3. ASSUME NEW x \in a..b PROVE Q(x) \in p..q
  <2>1. x \in Nat /\ a <= x /\ x <= b
    OBVIOUS
  <2>2. p <= Q(x) /\ Q(x) <= q /\ Q(x) \in Nat
    BY <1>2, <2>1 DEF p, q, Q
  <2> QED BY <1>1, <2>2
<1>4. ASSUME NEW k \in p..q PROVE \E x \in a..b : Q(x) = k
  <2>1. k \in Nat /\ p <= k /\ k <= q
    BY <1>1
  <2>2. CASE k = p
    <3>1. a \in a..b /\ Q(a) = p
      BY DEF Q, p
    <3> QED BY <2>2, <3>1
  <2>3. CASE k # p
    <3>1. k * w \in Nat /\ (p + 1) * w <= k * w /\ k * w <= q * w
      BY <1>1, <2>1, <2>3
    <3>2. (p + 1) * w = p * w + w
      BY <1>1
    <3>3. k * w \in a..b
      BY <1>1, <3>1, <3>2
    <3>4. Q(k * w) = k
      <4> DEFINE x == k * w
      <4>1. x \in Nat /\ x <= x /\ x < x + w
        BY <3>1
      <4>2. x \div w = k
        BY <2>1, <4>1, QuotientIs
      <4> QED BY <4>2 DEF Q
    <3> QED BY <3>3, <3>4
  <2> QED BY <2>2, <2>3
<1>5. {Q(x) : x \in a..b} = p..q
  BY <1>3, <1>4
<1>6. p <= q
  BY <1>2 DEF p, q, Q
<1> QED BY <1>1, <1>5, <1>6 DEF p, q, Q, Quotients

----------------------------------------------------------------------------
(* Sums in the order of the numbers.                                       *)

(* What an element adds.                                                   *)
Share(g, s, x) == IF x \in s THEN g[x] ELSE 0

(* The sums of g over the elements of s among the first i numbers.         *)
PartSums(p, g, s, n) ==
  p = [i \in 0..n |-> IF i = 0 THEN 0 ELSE p[i - 1] + Share(g, s, i - 1)]

(* There are such sums.                                                    *)
LEMMA PartSumsExist ==
  ASSUME NEW g, NEW s
  PROVE  \A n \in Nat : \E p : PartSums(p, g, s, n)
<1> DEFINE Bad == {n \in Nat : ~ \E p : PartSums(p, g, s, n)}
<1>1. SUFFICES ASSUME Bad # {} PROVE FALSE
  OBVIOUS
<1>2. PICK n \in Bad : \A k \in Bad : n <= k
  BY <1>1, LeastElement
<1>3. n \in Nat /\ \A p : ~ PartSums(p, g, s, n)
  OBVIOUS
<1>4. CASE n = 0
  <2>1. PartSums([i \in 0..0 |-> 0], g, s, 0)
    BY DEF PartSums
  <2> QED BY <2>1, <1>3, <1>4
<1>5. CASE n # 0
  <2>1. n - 1 \in Nat /\ n - 1 \notin Bad
    BY <1>2, <1>3, <1>5
  <2>2. PICK p : PartSums(p, g, s, n - 1)
    BY <2>1
  <2> DEFINE r == [i \in 0..n |-> IF i = n THEN p[n - 1] + Share(g, s, n - 1) ELSE p[i]]
  <2>3. \A i \in 0..(n - 1) : p[i] = IF i = 0 THEN 0 ELSE p[i - 1] + Share(g, s, i - 1)
    BY <2>2 DEF PartSums
  <2>4. ASSUME NEW i \in 0..n
        PROVE  r[i] = IF i = 0 THEN 0 ELSE r[i - 1] + Share(g, s, i - 1)
    <3>1. CASE i = n
      <4>1. n - 1 \in 0..n /\ n - 1 # n
        BY <2>1
      <4>2. r[n - 1] = p[n - 1]
        BY <4>1
      <4> QED BY <1>5, <3>1, <4>2
    <3>2. CASE i # n
      <4>1. i \in 0..(n - 1)
        BY <1>3, <3>2
      <4>2. CASE i = 0
        BY <2>3, <3>2, <4>1, <4>2
      <4>3. CASE i # 0
        <5>1. i - 1 \in 0..n /\ i - 1 # n
          BY <4>1, <4>3
        <5>2. r[i - 1] = p[i - 1] /\ r[i] = p[i]
          BY <3>2, <5>1
        <5> HIDE DEF r
        <5> QED BY <2>3, <4>1, <4>3, <5>2
      <4> QED BY <4>2, <4>3
    <3> QED BY <3>1, <3>2
  <2>5. r = [i \in 0..n |-> r[i]]
    OBVIOUS
  <2> HIDE DEF r
  <2>6. PartSums(r, g, s, n)
    BY <2>4, <2>5 DEF PartSums
  <2> QED BY <2>6, <1>3
<1> QED BY <1>4, <1>5

(* g has a number for each of the first n.                                 *)
Numbers(g, n) == \A i \in 0..(n - 1) : g[i] \in Int

(* x makes the difference between the sums of the first i numbers.         *)
DifferBy(p, r, g, s, x, i) ==
  /\ p[i] \in Int /\ r[i] \in Int
  /\ p[i] = r[i] + (IF x \in 0..(i - 1) THEN Share(g, s, x) ELSE 0)

(* An element more or less changes the sums after it, and no others.       *)
LEMMA PartSumsWithout ==
  ASSUME NEW n \in Nat, NEW g, Numbers(g, n), NEW s, NEW x,
         NEW p, PartSums(p, g, s, n), NEW r, PartSums(r, g, s \ {x}, n)
  PROVE  \A i \in 0..n : DifferBy(p, r, g, s, x, i)
<1> DEFINE Right(i) == /\ p[i] \in Int /\ r[i] \in Int
                       /\ p[i] = r[i] + (IF x \in 0..(i - 1) THEN Share(g, s, x) ELSE 0)
           Bad == {i \in Nat : i <= n /\ ~ Right(i)}
<1>1. \A i \in 0..n : /\ p[i] = IF i = 0 THEN 0 ELSE p[i - 1] + Share(g, s, i - 1)
                      /\ r[i] = IF i = 0 THEN 0 ELSE r[i - 1] + Share(g, s \ {x}, i - 1)
  BY DEF PartSums
<1>2. Bad = {}
  <2>1. SUFFICES ASSUME Bad # {} PROVE FALSE
    OBVIOUS
  <2>2. PICK i \in Bad : \A j \in Bad : i <= j
    <3> HIDE DEF Right
    <3> QED BY <2>1, LeastElement
  <2>3. i \in Nat /\ i <= n /\ ~ Right(i)
    BY <2>2
  <2>4. CASE i = 0
    <3>1. p[0] = 0 /\ r[0] = 0 /\ x \notin 0..(0 - 1)
      BY <1>1
    <3> QED BY <2>3, <2>4, <3>1
  <2>5. CASE i # 0
    <3> DEFINE k == i - 1
    <3>1. k \in Nat /\ k <= n /\ ~ (i <= k) /\ k + 1 = i /\ k \in 0..(n - 1) /\ i \in 0..n
      BY <2>3, <2>5
    <3>2. Right(k)
      BY <2>2, <3>1
    <3>3. p[i] = p[k] + Share(g, s, k) /\ r[i] = r[k] + Share(g, s \ {x}, k)
      BY <1>1, <2>5, <3>1
    <3>4. g[k] \in Int
      BY <3>1 DEF Numbers
    <3> HIDE DEF k
    <3>5. Share(g, s, k) \in Int /\ Share(g, s \ {x}, k) \in Int
      BY <3>4 DEF Share
    <3>6. CASE x = k
      <4>1. Share(g, s \ {x}, k) = 0
        BY <3>6 DEF Share
      <4>2. x \in 0..(i - 1) /\ x \notin 0..(k - 1)
        BY <3>1, <3>6
      <4>3. p[k] = r[k] /\ p[k] \in Int /\ r[k] \in Int
        BY <3>2, <4>2
      <4>4. p[i] = r[i] + Share(g, s, x) /\ p[i] \in Int /\ r[i] \in Int
        BY <3>3, <3>5, <3>6, <4>1, <4>3
      <4> QED BY <2>3, <4>2, <4>4
    <3>7. CASE x # k
      <4>1. Share(g, s \ {x}, k) = Share(g, s, k)
        BY <3>7 DEF Share
      <4>2. x \in 0..(i - 1) <=> x \in 0..(k - 1)
        BY <3>1, <3>7
      <4>3. CASE x \in 0..(k - 1)
        <5>1. g[x] \in Int
          BY <3>1, <4>3 DEF Numbers
        <5>2. Share(g, s, x) \in Int
          BY <5>1 DEF Share
        <5>3. p[k] = r[k] + Share(g, s, x) /\ p[k] \in Int /\ r[k] \in Int
          BY <3>2, <4>3
        <5>4. p[i] = r[i] + Share(g, s, x) /\ p[i] \in Int /\ r[i] \in Int
          BY <3>3, <3>5, <4>1, <5>2, <5>3
        <5> QED BY <2>3, <4>2, <4>3, <5>4
      <4>4. CASE x \notin 0..(k - 1)
        <5>1. p[k] = r[k] /\ p[k] \in Int /\ r[k] \in Int
          BY <3>2, <4>4
        <5>2. p[i] = r[i] + 0 /\ p[i] \in Int /\ r[i] \in Int
          BY <3>3, <3>5, <4>1, <5>1
        <5> QED BY <2>3, <4>2, <4>4, <5>2
      <4> QED BY <4>3, <4>4
    <3> QED BY <3>6, <3>7
  <2> QED BY <2>4, <2>5
<1>3. ASSUME NEW i \in 0..n PROVE Right(i)
  <2>1. i \in Nat /\ i <= n /\ i \notin Bad
    BY <1>2
  <2> HIDE DEF Right
  <2> QED BY <2>1
<1> HIDE DEF Right
<1>4. \A i \in 0..n : Right(i) <=> DifferBy(p, r, g, s, x, i)
  BY DEF Right, DifferBy
<1> QED BY <1>3, <1>4

(* How many of the numbers from a to b - 1 are between lo and hi.          *)
Within(lo, hi, a, b) ==
  LET first == IF lo < a THEN a ELSE lo
      next == IF hi + 1 < b THEN hi + 1 ELSE b
  IN  IF first < next THEN next - first ELSE 0

(* One number more, b, counts if it is between them.                       *)
CountsOneMore(lo, hi, a, b) ==
  /\ lo <= b /\ b <= hi => Within(lo, hi, a, b + 1) = Within(lo, hi, a, b) + 1
  /\ ~ (lo <= b /\ b <= hi) => Within(lo, hi, a, b + 1) = Within(lo, hi, a, b)
  /\ Within(lo, hi, a, a) = 0 /\ Within(lo, hi, a, b) \in Nat

(* That is how they are counted.                                           *)
LEMMA WithinOneMore ==
  ASSUME NEW lo \in Int, NEW hi \in Int, NEW a \in Int, NEW b \in Int, a <= b
  PROVE  CountsOneMore(lo, hi, a, b)
BY DEF CountsOneMore, Within

(* From a to b - 1, each of the elements of s, those between lo and hi,    *)
(* adds v.                                                                 *)
AddsEach(g, s, lo, hi, v, a, b) ==
  \A i \in a..(b - 1) : (i \in s <=> lo <= i /\ i <= hi) /\ (i \in s => g[i] = v)

(* Over a stretch where all elements of s add the same, the sum is how     *)
(* many there are times what each adds.                                    *)
LEMMA SumOfStretch ==
  ASSUME NEW n \in Nat, NEW g, Numbers(g, n), NEW s, NEW p, PartSums(p, g, s, n),
         NEW lo \in Int, NEW hi \in Int, NEW v \in Int,
         NEW a \in 0..n, NEW b \in 0..n, a <= b,
         AddsEach(g, s, lo, hi, v, a, b)
  PROVE  p[b] = p[a] + v * Within(lo, hi, a, b)
<1> DEFINE Right(i) == p[i] = p[a] + v * Within(lo, hi, a, i)
           Bad == {i \in Nat : a <= i /\ i <= b /\ ~ Right(i)}
<1>1. \A i \in 0..n : p[i] = IF i = 0 THEN 0 ELSE p[i - 1] + Share(g, s, i - 1)
  BY DEF PartSums
<1>2. p[a] \in Int
  <2>1. PICK r : PartSums(r, g, s \ {a}, n)
    BY PartSumsExist
  <2>2. DifferBy(p, r, g, s, a, a)
    BY <2>1, PartSumsWithout
  <2> QED BY <2>2 DEF DifferBy
<1>3. Bad = {}
  <2>1. SUFFICES ASSUME Bad # {} PROVE FALSE
    OBVIOUS
  <2>2. PICK i \in Bad : \A j \in Bad : i <= j
    <3> HIDE DEF Right
    <3> QED BY <2>1, LeastElement
  <2>3. i \in Nat /\ a <= i /\ i <= b /\ ~ Right(i)
    BY <2>2
  <2>4. CASE i = a
    <3>1. Within(lo, hi, a, a) = 0
      <4>1. a \in Int /\ a <= a
        OBVIOUS
      <4>2. CountsOneMore(lo, hi, a, a)
        BY <4>1, WithinOneMore
      <4> QED BY <4>2 DEF CountsOneMore
    <3>2. v * 0 = 0 /\ p[a] + 0 = p[a]
      BY <1>2
    <3> QED BY <2>3, <2>4, <3>1, <3>2
  <2>5. CASE i # a
    <3> DEFINE k == i - 1
               w == Within(lo, hi, a, k)
    <3>1. /\ k \in Nat /\ a <= k /\ k <= b /\ ~ (i <= k) /\ k + 1 = i
          /\ k \in a..(b - 1) /\ i \in 0..n /\ i # 0
      BY <2>3, <2>5
    <3>2. p[k] = p[a] + v * w
      BY <2>2, <3>1
    <3>3. p[i] = p[k] + Share(g, s, k)
      BY <1>1, <3>1
    <3>4. /\ lo <= k /\ k <= hi => Within(lo, hi, a, i) = w + 1
          /\ ~ (lo <= k /\ k <= hi) => Within(lo, hi, a, i) = w
          /\ w \in Nat
      <4> HIDE DEF k
      <4>1. k \in Int /\ a \in Int
        BY <3>1
      <4>2. /\ lo <= k /\ k <= hi => Within(lo, hi, a, k + 1) = w + 1
            /\ ~ (lo <= k /\ k <= hi) => Within(lo, hi, a, k + 1) = w
            /\ w \in Nat
        <5>1. CountsOneMore(lo, hi, a, k)
          BY <3>1, <4>1, WithinOneMore
        <5> QED BY <5>1 DEF CountsOneMore
      <4> QED BY <3>1, <4>2
    <3>5. Share(g, s, k) = IF lo <= k /\ k <= hi THEN v ELSE 0
      <4> HIDE DEF k
      <4> QED BY <3>1 DEF Share, AddsEach
    <3> HIDE DEF w, k
    <3>6. v * (w + 1) = v * w + v /\ v * w \in Int
      BY <3>4
    <3> DEFINE prod == v * w
    <3>7. CASE lo <= k /\ k <= hi
      <4>1. Within(lo, hi, a, i) = w + 1 /\ Share(g, s, k) = v
        BY <3>4, <3>5, <3>7
      <4>2. v * Within(lo, hi, a, i) = prod + v
        BY <3>6, <4>1
      <4>3. p[i] = (p[a] + prod) + v /\ prod \in Int
        BY <3>2, <3>3, <3>6, <4>1
      <4> HIDE DEF prod
      <4>4. p[i] = p[a] + (prod + v)
        BY <1>2, <4>3
      <4> QED BY <2>3, <4>2, <4>4
    <3>8. CASE ~ (lo <= k /\ k <= hi)
      <4>1. Within(lo, hi, a, i) = w /\ Share(g, s, k) = 0
        BY <3>4, <3>5, <3>8
      <4>2. v * Within(lo, hi, a, i) = prod
        BY <3>6, <4>1
      <4>3. p[i] = (p[a] + prod) + 0 /\ prod \in Int
        BY <3>2, <3>3, <3>6, <4>1
      <4> HIDE DEF prod
      <4>4. p[i] = p[a] + prod
        BY <1>2, <4>3
      <4> QED BY <2>3, <4>2, <4>4
    <3> QED BY <3>7, <3>8
  <2> QED BY <2>4, <2>5
<1>4. b \in Nat /\ a <= b /\ b \notin Bad
  BY <1>3
<1>5. Right(b)
  <2> HIDE DEF Right
  <2> QED BY <1>4
<1> QED BY <1>5

(* The last of these sums is the sum, in any other order too.              *)
LEMMA PartSumsMakeSum ==
  ASSUME NEW n \in Nat, NEW g, Numbers(g, n), NEW S \in SUBSET (0..(n - 1)),
         NEW p, PartSums(p, g, S, n)
  PROVE  SumIs(p[n], g, S)
<1> DEFINE Of(s) == CHOOSE r : PartSums(r, g, s, n)
           G == [s \in SUBSET S |-> Of(s)[n]]
<1>1. \A s : PartSums(Of(s), g, s, n)
  BY PartSumsExist
<1> HIDE DEF Of
<1>2. n \in 0..n
  OBVIOUS
<1>3. Of({})[n] = 0
  <2> DEFINE r == Of({})
  <2>1. PartSums(r, g, {}, n)
    BY <1>1
  <2> HIDE DEF r
  <2>2. r[0] = 0
    BY <2>1 DEF PartSums
  <2>3. 0 \in 0..n /\ 0 <= n /\ 0 \in Int /\ 1 \in Int
    OBVIOUS
  <2>4. AddsEach(g, {}, 1, 0, 0, 0, n)
    BY DEF AddsEach
  <2>5. r[n] = r[0] + 0 * Within(1, 0, 0, n)
    BY <1>2, <2>1, <2>3, <2>4, SumOfStretch
  <2>6. Within(1, 0, 0, n) \in Nat
    BY <2>3 DEF Within
  <2>7. 0 * Within(1, 0, 0, n) = 0
    BY <2>6
  <2> QED BY <2>2, <2>5, <2>7 DEF r
<1>4. ASSUME NEW s \in SUBSET S, NEW x \in s
      PROVE  Of(s)[n] = g[x] + Of(s \ {x})[n]
  <2>1. PartSums(Of(s), g, s, n) /\ PartSums(Of(s \ {x}), g, s \ {x}, n)
    BY <1>1
  <2>2. x \in 0..(n - 1) /\ Share(g, s, x) = g[x]
    BY DEF Share
  <2>3. /\ Of(s \ {x})[n] \in Int
        /\ Of(s)[n] = Of(s \ {x})[n] + Share(g, s, x)
    <3>1. DifferBy(Of(s), Of(s \ {x}), g, s, x, n)
      BY <1>2, <2>1, PartSumsWithout
    <3> QED BY <2>2, <3>1 DEF DifferBy
  <2>4. g[x] \in Int
    BY <2>2 DEF Numbers
  <2> QED BY <2>2, <2>3, <2>4
<1>5. Additive(G, g, S)
  BY <1>3, <1>4 DEF Additive
<1>6. S \in SUBSET (0..n)
  OBVIOUS
<1>7. SumIs(G[S], g, S)
  <2> HIDE DEF G
  <2> QED BY <1>5, <1>6, AdditiveIsSum
<1>8. p[n] = Of(S)[n]
  <2>1. PartSums(Of(S), g, S \ {n}, n)
    <3>1. S \ {n} = S
      OBVIOUS
    <3> QED BY <1>1, <3>1
  <2> DEFINE r == Of(S)
  <2>2. PartSums(r, g, S \ {n}, n)
    BY <2>1
  <2> HIDE DEF r
  <2>3. DifferBy(p, r, g, S, n, n)
    BY <1>2, <2>2, PartSumsWithout
  <2>4. n \notin 0..(n - 1)
    OBVIOUS
  <2> QED BY <2>3, <2>4 DEF r, DifferBy
<1> QED BY <1>7, <1>8

=============================================================================
