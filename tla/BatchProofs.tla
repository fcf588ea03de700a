---------------------------- MODULE BatchProofs -----------------------------
(***************************************************************************)
(* Batch compression is lossless, in memory and through a file: random     *)
(* access and the indexed reader agree with it, and a file that is cut     *)
(* off is never misread, for every configuration and inputs of any length. *)
(* What accesses cost is bracketed by the bounds computed beforehand.      *)
(***************************************************************************)
EXTENDS CodecProofs, MCMetrics, MCContainer, MCRawBytes

(* The input is a sequence of samples.                                     *)
LEMMA InputType == Spec => [](samples \in Seq(Sample))
<1>1. Init => samples \in Seq(Sample)
  BY DEF Init
<1>2. samples \in Seq(Sample) /\ [Next]_samples => (samples \in Seq(Sample))'
  BY DEF Next
<1> QED BY <1>1, <1>2, PTL DEF Spec

(* Decompressing what was compressed gives the samples back, in every      *)
(* configuration: whatever the dictionary's cap evicts, however the widths *)
(* change from split to split, however full the last chunk is              *)
(* (compress_samples, decompress_samples).                                 *)
THEOREM DecompressionUndoesCompression == Spec => []BatchIsLossless
<1>1. samples \in Seq(Sample) => BatchIsLossless
  <2> SUFFICES ASSUME samples \in Seq(Sample), Compressed # <<>>
               PROVE  DecompressSamples(Compressed[1]) = <<samples>>
    BY DEF BatchIsLossless
  <2>1. CompressSamples(samples) # <<>>
    BY DEF Compressed
  <2>2. /\ Compressed[1].original_sample_count = Len(samples)
        /\ \E before : ContainsChunks(Compressed[1], before, ChunkSamples(samples))
    BY <2>1, CompressedContains DEF Compressed
  <2> QED BY <2>2, DecompressesToInput
<1> QED BY <1>1, InputType, PTL

(* Each sample, each bit and each range read on its own is the one that    *)
(* was compressed, and one past the end is refused (get_by_sample_index,   *)
(* get_by_bit_index, get_range_by_sample_index).                           *)
THEOREM RandomAccessIsRight == Spec => []RandomAccessAgrees
<1>1. samples \in Seq(Sample) => RandomAccessAgrees
  <2> DEFINE made == Compressed[1]
             count == Len(samples)
  <2> SUFFICES ASSUME samples \in Seq(Sample), Compressed # <<>>
               PROVE  /\ \A i \in 0..count :
                           GetBySampleIndex(made, i) =
                             IF i = count THEN <<>> ELSE <<samples[i + 1]>>
                      /\ \A i \in 0..(count * BitsPerSample) :
                           GetByBitIndex(made, i) =
                             IF i = count * BitsPerSample THEN <<>>
                             ELSE <<samples[(i \div BitsPerSample) + 1]
                                           [(i % BitsPerSample) + 1]>>
                      /\ \A i \in 0..count : \A len \in 1..(count + 1) :
                           GetRange(made, i, len) =
                             IF i + len > count THEN <<>>
                             ELSE <<SubSeq(samples, i + 1, i + len)>>
    BY DEF RandomAccessAgrees
  <2>1. CompressSamples(samples) # <<>>
    BY DEF Compressed
  <2>2. /\ made.original_sample_count = count
        /\ \E before : ContainsChunks(made, before, ChunkSamples(samples))
    BY <2>1, CompressedContains DEF Compressed
  <2> HIDE DEF made
  <2>3. PICK before : ContainsChunks(made, before, ChunkSamples(samples))
    BY <2>2
  <2>4. count \in Nat /\ count * BitsPerSample \in Nat
    BY Geometry
  <2>5. ASSUME NEW i \in 0..count
        PROVE  GetBySampleIndex(made, i) =
                 IF i = count THEN <<>> ELSE <<samples[i + 1]>>
    <3>1. CASE i = count
      BY <2>2, <2>4, <3>1 DEF GetBySampleIndex
    <3>2. CASE i # count
      <4>1. i \in Nat /\ i < count
        BY <2>4, <3>2
      <4> QED BY <2>2, <2>3, <3>2, <4>1, SampleIsRead
    <3> QED BY <3>1, <3>2
  <2>6. ASSUME NEW i \in 0..(count * BitsPerSample)
        PROVE  GetByBitIndex(made, i) =
                 IF i = count * BitsPerSample THEN <<>>
                 ELSE <<samples[(i \div BitsPerSample) + 1][(i % BitsPerSample) + 1]>>
    <3>1. CASE i = count * BitsPerSample
      BY <2>2, <2>4, <3>1 DEF GetByBitIndex
    <3>2. CASE i # count * BitsPerSample
      <4>1. i \in Nat /\ i < count * BitsPerSample
        BY <2>4, <3>2
      <4> QED BY <2>2, <2>3, <3>2, <4>1, BitIsRead
    <3> QED BY <3>1, <3>2
  <2>7. ASSUME NEW i \in 0..count, NEW len \in 1..(count + 1)
        PROVE  GetRange(made, i, len) =
                 IF i + len > count THEN <<>> ELSE <<SubSeq(samples, i + 1, i + len)>>
    <3>1. CASE i + len > count
      <4>1. len # 0
        BY <2>4
      <4> QED BY <2>2, <3>1, <4>1 DEF GetRange
    <3>2. CASE ~ (i + len > count)
      <4>1. i \in Nat /\ len \in Nat \ {0} /\ i + len <= count
        BY <2>4, <3>2
      <4> QED BY <2>2, <2>3, <3>2, <4>1, RangeIsRead
    <3> QED BY <3>1, <3>2
  <2> QED BY <2>5, <2>6, <2>7
<1> QED BY <1>1, InputType, PTL

----------------------------------------------------------------------------
(* The cost of an access.                                                  *)

(* Where a bit is in its chunk, counted over the chunk's bits or over its  *)
(* samples (bit_access_cost, get_by_bit_index).                            *)
LEMMA DivisionByTwo ==
  ASSUME NEW a \in Nat, NEW u \in Nat \ {0}, NEW v \in Nat \ {0}
  PROVE  /\ a \div (u * v) = (a \div v) \div u
         /\ (a % (u * v)) \div v = (a \div v) % u
<1> DEFINE d == a \div v
           r == a % v
           p == d \div u
           t == d % u
           w == u * v
           i == BitAt(t + 1, r + 1, v)
<1>1. d \in Nat /\ r \in 0..(v - 1) /\ a = d * v + r
  OBVIOUS
<1> HIDE DEF d, r
<1>2. p \in Nat /\ t \in 0..(u - 1) /\ d = p * u + t
  BY <1>1
<1> HIDE DEF p, t
<1>3. t + 1 \in 1..u /\ r + 1 \in 1..v /\ w \in Nat
  BY <1>1, <1>2
<1>4. i \in 1..w /\ FieldOf(i, v) = t + 1
  BY <1>3, BitAtField DEF w
<1>5. i = t * v + r + 1
  BY <1>1, <1>2 DEF BitAt
<1>6. a + 1 = BitAt(p + 1, i, w)
  <2>1. d * v = p * w + t * v
    BY <1>2 DEF w
  <2>2. p * w \in Nat /\ t * v \in Nat
    BY <1>2, <1>3
  <2>3. BitAt(p + 1, i, w) = p * w + i
    BY <1>2 DEF BitAt
  <2> HIDE DEF w, i
  <2> QED BY <1>1, <1>5, <2>1, <2>2, <2>3
<1> HIDE DEF i, w
<1>7. FieldOf(a + 1, w) = p + 1 /\ PlaceOfBit(a + 1, w) = i
  <2> DEFINE m == p + 1
  <2>1. m \in 1..m /\ m \in Nat /\ w \in Nat /\ i \in 1..w
    BY <1>2, <1>3, <1>4
  <2> HIDE DEF m
  <2>2. FieldOf(BitAt(m, i, w), w) = m /\ PlaceOfBit(BitAt(m, i, w), w) = i
    BY ONLY <2>1, BitAtField
  <2> QED BY <1>6, <2>2 DEF m
<1>8. w \in Nat \ {0}
  BY <1>3, <1>4
<1>9. a \div w = p
  <2>1. a \div w \in Nat /\ (a + 1) - 1 = a
    BY <1>8
  <2> QED BY <1>2, <1>7, <2>1 DEF FieldOf
<1>10. (a % w) \div v = t
  <2>1. a % w \in Nat /\ (a + 1) - 1 = a
    BY <1>8
  <2>2. a % w = i - 1
    BY <1>4, <1>7, <2>1 DEF PlaceOfBit
  <2>3. (i - 1) \div v \in Int
    BY <1>3, <1>4
  <2> QED BY <1>2, <1>4, <2>2, <2>3 DEF FieldOf
<1> QED BY <1>9, <1>10 DEF w, d, p, t

(* What a bit of the data costs, and whether it can be read if there are   *)
(* no bases.                                                               *)
LEMMA BitCost ==
  ASSUME NEW input \in Seq(Sample), NEW made, NEW before,
         IsContainer(made),
         ContainsChunks(made, before, ChunkSamples(input)),
         made.original_sample_count = Len(input),
         NEW bit \in Nat, bit < Len(input) * BitsPerSample
  PROVE  LET split == SplitForChunk(made, bit \div ChunkBitLen)[1]
             needs_base == GetByBitIndex([made EXCEPT !.dictionary = <<>>], bit) = <<>>
             cost == <<ParameterBits + (IF needs_base THEN split.l_id ELSE 0) + 1>>
         IN  /\ BitAccessCost(made, bit) = cost
             /\ cost[1] <= SampleAccessCost(made, bit \div BitsPerSample)[1]
<1> DEFINE C == ChunkSamples(input)
           index == bit \div BitsPerSample
           b == (bit % BitsPerSample) + 1
           q == index \div SamplesPerChunk
           s == (index % SamplesPerChunk) + 1
           n == Len(input)
           empty == [made EXCEPT !.dictionary = <<>>]
           found == SplitForChunk(made, q)
<1>1. index \in Nat /\ index < n /\ n \in Nat
  <2> DEFINE a == bit + 1
  <2>1. a \in 1..(n * BitsPerSample) /\ a - 1 = bit /\ n \in Nat /\ BitsPerSample \in Nat
    BY Geometry
  <2>2. FieldOf(a, BitsPerSample) \in 1..n
    BY <2>1, FieldBounds
  <2>3. FieldOf(a, BitsPerSample) = index + 1
    BY <2>1 DEF FieldOf
  <2>4. index \in Int
    BY Geometry
  <2> HIDE DEF a, index, n
  <2> QED BY <2>1, <2>2, <2>3, <2>4
<1>2. /\ bit \div ChunkBitLen = q
      /\ (bit % ChunkBitLen) \div BitsPerSample + 1 = s
  BY Geometry, DivisionByTwo
<1> HIDE DEF index
<1>3. q \in Nat /\ q < Len(C)
  <2> DEFINE k == index + 1
             w == SamplesPerChunk
  <2>1. k \in 1..n /\ k - 1 = index /\ w \in Nat \ {0}
    BY <1>1, Geometry
  <2>2. FieldOf(k, w) = q + 1
    BY <2>1 DEF FieldOf
  <2>3. q \in Nat
    BY <1>1, <2>1
  <2>4. C \in Seq(Chunk) /\ FieldOf(k, w) \in 1..Len(C)
    BY <2>1, ChunksHoldSamples
  <2> HIDE DEF q, k, C, w
  <2> QED BY <2>2, <2>3, <2>4
<1> HIDE DEF C, q, s, b
<1>4. PICK split, i :
        /\ SplitForChunk(made, q) = <<split, i>>
        /\ split.l_id \in Nat /\ split.l_d \in 0..ChunkBitLen /\ split.pairs[i] \in Pair
  <2>1. ContainsChunks(made, before, C)
    BY DEF C
  <2> QED BY <1>3, <2>1, ChunkIsFound
<1> HIDE DEF found
<1>5. found # <<>> /\ found[1] = split /\ found[2] = i
  BY <1>4 DEF found
<1>6. empty.splits = made.splits /\ empty.dictionary = <<>>
      /\ empty.original_sample_count = made.original_sample_count
  BY DEF IsContainer
<1>7. SplitForChunk(empty, q) = found
  <2> HIDE DEF empty
  <2> QED BY <1>6 DEF SplitForChunk, found
<1>8. ~ (bit >= made.original_sample_count * BitsPerSample)
  <2>1. n * BitsPerSample \in Nat
    BY <1>1, Geometry
  <2> QED BY <2>1
<1>9. ~ HasBase(empty, split.pairs[i])
  <2>1. split.pairs[i].base_id \in Nat
    BY <1>4 DEF Pair
  <2>2. Len(empty.dictionary) = 0
    BY <1>6
  <2> QED BY <2>1, <2>2 DEF HasBase
<1>10. (GetByBitIndex(empty, bit) = <<>>) = ~ IsDeviationPosition(split.l_d, s, b)
  <2> HIDE DEF empty
  <2>1. GetByBitIndex(empty, bit)
          = IF bit >= empty.original_sample_count * BitsPerSample
                 \/ SplitForChunk(empty, q) = <<>>
            THEN <<>>
            ELSE IF IsDeviationPosition(SplitForChunk(empty, q)[1].l_d, s, b)
                 THEN <<SplitForChunk(empty, q)[1].pairs[SplitForChunk(empty, q)[2]].deviation_bits
                          [DeviationBitOffset(SplitForChunk(empty, q)[1].l_d, s, b)]>>
                 ELSE IF HasBase(empty, SplitForChunk(empty, q)[1].pairs
                                          [SplitForChunk(empty, q)[2]])
                      THEN <<BaseOf(empty, SplitForChunk(empty, q)[1].pairs
                                             [SplitForChunk(empty, q)[2]])
                               [BitAt(s, b, BitsPerSample)]>>
                      ELSE <<>>
    BY DEF GetByBitIndex, index, b, q, s
  <2>2. GetByBitIndex(empty, bit)
          = IF IsDeviationPosition(split.l_d, s, b)
            THEN <<split.pairs[i].deviation_bits[DeviationBitOffset(split.l_d, s, b)]>>
            ELSE <<>>
    BY <1>5, <1>6, <1>7, <1>8, <1>9, <2>1
  <2> QED BY <2>2
<1>11. BitAccessCost(made, bit)
         = <<ParameterBits + (IF IsDeviationPosition(split.l_d, s, b) THEN 0 ELSE split.l_id) + 1>>
  <2>1. BitAccessCost(made, bit)
          = IF bit >= made.original_sample_count * BitsPerSample \/ found = <<>>
            THEN <<>>
            ELSE <<ParameterBits
                     + (IF IsDeviationPosition(found[1].l_d, s, b) THEN 0 ELSE found[1].l_id) + 1>>
    BY <1>2 DEF BitAccessCost, found, b
  <2> QED BY <1>5, <1>8, <2>1
<1>12. SampleAccessCost(made, index) = <<ParameterBits + split.l_id + BitsPerSample>>
  <2>1. ~ (index >= made.original_sample_count)
    BY <1>1
  <2> QED BY <1>5, <2>1 DEF SampleAccessCost, found, q
<1>13. ASSUME NEW z \in {0, split.l_id}
       PROVE  ParameterBits + z + 1 <= ParameterBits + split.l_id + BitsPerSample
  BY <1>4, Geometry DEF ParameterBits
<1> HIDE DEF empty
<1>14. SplitForChunk(made, bit \div ChunkBitLen)[1] = split
  BY <1>2, <1>5 DEF found
<1> QED BY <1>10, <1>11, <1>12, <1>13, <1>14 DEF empty, index

(* The ID of a base is charged to a bit exactly if reading it needs a      *)
(* base, and no bit costs more than its sample, in every container that    *)
(* compression makes (bit_access_cost, sample_access_cost).                *)
THEOREM CostIsWhatIsRead == Spec => []BitCostIsWhatIsRead
<1>1. samples \in Seq(Sample) => BitCostIsWhatIsRead
  <2> DEFINE made == Compressed[1]
             count == Len(samples)
             split(bit) == SplitForChunk(made, bit \div ChunkBitLen)[1]
             needs_base(bit) ==
               GetByBitIndex([made EXCEPT !.dictionary = <<>>], bit) = <<>>
  <2> SUFFICES ASSUME samples \in Seq(Sample), Compressed # <<>>,
                      NEW bit \in 0..(count * BitsPerSample)
               PROVE  IF GetByBitIndex(made, bit) = <<>>
                      THEN BitAccessCost(made, bit) = <<>>
                      ELSE /\ BitAccessCost(made, bit)
                                = <<ParameterBits
                                      + (IF needs_base(bit) THEN split(bit).l_id ELSE 0) + 1>>
                           /\ BitAccessCost(made, bit)[1]
                                <= SampleAccessCost(made, bit \div BitsPerSample)[1]
    BY DEF BitCostIsWhatIsRead, TotalBits
  <2>1. CompressSamples(samples) # <<>>
    BY DEF Compressed
  <2>2. /\ IsContainer(made) /\ made.original_sample_count = count
        /\ \E before : ContainsChunks(made, before, ChunkSamples(samples))
    BY <2>1, CompressedContains DEF Compressed
  <2> HIDE DEF made
  <2>3. PICK before : ContainsChunks(made, before, ChunkSamples(samples))
    BY <2>2
  <2>4. count \in Nat /\ count * BitsPerSample \in Nat
    BY Geometry
  <2>5. CASE bit = count * BitsPerSample
    <3>1. bit >= made.original_sample_count * BitsPerSample
      BY <2>2, <2>4, <2>5
    <3> QED BY <3>1 DEF GetByBitIndex, BitAccessCost
  <2>6. CASE bit # count * BitsPerSample
    <3>1. bit \in Nat /\ bit < count * BitsPerSample
      BY <2>4, <2>6
    <3>2. GetByBitIndex(made, bit) # <<>>
      <4> DEFINE place == (bit % BitsPerSample) + 1
                 value == samples[(bit \div BitsPerSample) + 1][place]
      <4>1. GetByBitIndex(made, bit) = <<value>>
        BY <2>2, <2>3, <3>1, BitIsRead
      <4> HIDE DEF value
      <4> QED BY <4>1
    <3> DEFINE cost == <<ParameterBits
                           + (IF needs_base(bit) THEN split(bit).l_id ELSE 0) + 1>>
    <3>3. /\ BitAccessCost(made, bit) = cost
          /\ cost[1] <= SampleAccessCost(made, bit \div BitsPerSample)[1]
      BY <2>2, <2>3, <3>1, BitCost
    <3> HIDE DEF cost
    <3>4. /\ BitAccessCost(made, bit) = cost
          /\ BitAccessCost(made, bit)[1]
               <= SampleAccessCost(made, bit \div BitsPerSample)[1]
      BY <3>3
    <3> QED BY <3>2, <3>4 DEF cost
  <2> QED BY <2>5, <2>6
<1> QED BY <1>1, InputType, PTL

----------------------------------------------------------------------------
(* The widths of the splits.                                               *)

(* Nothing of the pair is lost if it is written with the split's widths.   *)
PairFits(pair, split) ==
  pair.base_id < Pow2[split.l_id] /\ pair.deviation_bits \in BitString(split.l_d)

(* ... of all of its pairs.                                                *)
SplitFits(split) == \A i \in 1..Len(split.pairs) : PairFits(split.pairs[i], split)

(* The base IDs are too many for the width of IDs.                         *)
ManyIds(next_id) == Pow2[IdBits] <= next_id + ChunksPerSplit

(* There are IDs left for the pairs that are missing in the split.         *)
HasRoom(next_id, split) ==
  /\ Len(split.pairs) <= ChunksPerSplit
  /\ next_id + (ChunksPerSplit - Len(split.pairs)) <= Pow2[split.l_id]
  /\ ChunksPerSplit <= Pow2[split.l_id]

(* No pair is cut off, and IDs are wider than configured only when they are *)
(* many.                                                                   *)
SplitIsGood(split, next_id) ==
  /\ SplitFits(split)
  /\ split.l_id <= IdBits \/ ManyIds(next_id)

(* All splits are good, and the current one has room for what it lacks.    *)
WidthsFit(c) ==
  /\ HasRoom(c.dictionary.next_id, c.current_split)
  /\ SplitIsGood(c.current_split, c.dictionary.next_id)
  /\ \A s \in 1..Len(c.splits) : SplitIsGood(c.splits[s], c.dictionary.next_id)

(* More IDs are no fewer.                                                  *)
LEMMA ManyIdsStay ==
  ASSUME NEW m \in Nat, NEW n \in Nat, m <= n, NEW split, SplitIsGood(split, m)
  PROVE  SplitIsGood(split, n)
<1>1. Pow2[IdBits] \in Nat /\ ChunksPerSplit \in Nat
  BY ConfigConstants, Pow2Above
<1> QED BY <1>1 DEF SplitIsGood, ManyIds

(* The first split.                                                        *)
LEMMA FirstWidthsFit == WidthsFit(NewCompression)
<1> DEFINE split == NewSplit(InitialLId, InitialLD)
<1>1. split.pairs = <<>> /\ split.l_id = InitialLId
  BY DEF NewSplit
<1>2. /\ InitialLId \in Nat /\ ChunksPerSplit <= Pow2[InitialLId]
      /\ ChunksPerSplit \in Nat /\ IdBits \in Nat
  BY CeilLog2Bound, ConfigConstants DEF InitialLId
<1>3. Pow2[InitialLId] \in Nat /\ Pow2[IdBits] \in Nat
  BY <1>2, Pow2Above
<1>4. ChunksPerSplit <= Pow2[IdBits] => InitialLId <= IdBits
  BY <1>2, CeilLog2Least DEF InitialLId
<1> HIDE DEF split
<1>5. HasRoom(0, split)
  BY <1>1, <1>2, <1>3 DEF HasRoom
<1>6. SplitIsGood(split, 0)
  <2>1. SplitFits(split)
    BY <1>1 DEF SplitFits
  <2>2. split.l_id <= IdBits \/ ManyIds(0)
    BY <1>1, <1>2, <1>3, <1>4 DEF ManyIds
  <2> QED BY <2>1, <2>2 DEF SplitIsGood
<1>7. /\ NewCompression.dictionary.next_id = 0 /\ NewCompression.current_split = split
      /\ NewCompression.splits = <<>>
  BY DEF NewCompression, NewDictionary, split
<1> QED BY <1>5, <1>6, <1>7 DEF WidthsFit

(* The next split is as wide as its IDs need.                              *)
LEMMA NextWidthsFit ==
  ASSUME NEW C, NEW n \in Nat, NEW c, Keeps(c, n, C), WidthsFit(c),
         Len(c.current_split.pairs) = ChunksPerSplit
  PROVE  WidthsFit(NextSplit(c))
<1> DEFINE next == NextSplit(c)
           id == c.dictionary.next_id
           widths == c.current_split
           new_l_id == UpdateLId(id, widths.l_id)
           split == NewSplit(new_l_id, UpdateLD(id, c.old_base_count, widths.l_d))
<1>1. /\ c \in Compression /\ widths \in Split /\ id \in Nat /\ id <= MaxId
      /\ widths.l_id \in Nat /\ widths.pairs \in Seq(Pair) /\ c.splits \in Seq(Split)
  <2>1. c \in Compression
    BY DEF Keeps
  <2>2. c.current_split \in Split /\ c.dictionary \in DictionaryState
    BY <2>1 DEF Compression
  <2>3. id \in Nat /\ id <= MaxId
    BY <2>2, MaxIdType DEF DictionaryState
  <2> QED BY <2>1, <2>2, <2>3 DEF Split, Compression
<1>2. next = [c EXCEPT !.splits = Append(c.splits, widths),
                       !.current_split = split,
                       !.old_base_count = id]
  BY DEF NextSplit
<1>3. split.pairs = <<>> /\ split.l_id = new_l_id
  BY DEF NewSplit
<1> HIDE DEF next, split
<1>4. /\ next.dictionary.next_id = id /\ next.current_split = split
      /\ next.splits = Append(c.splits, widths)
  BY <1>1, <1>2 DEF Compression
<1>5. /\ ChunksPerSplit \in Nat /\ IdBits \in Nat
      /\ Pow2[widths.l_id] \in Nat /\ Pow2[IdBits] \in Nat
  BY <1>1, ConfigConstants, Pow2Above
<1>6. id <= Pow2[widths.l_id] /\ ChunksPerSplit <= Pow2[widths.l_id]
  BY <1>1, <1>5 DEF WidthsFit, HasRoom
<1>7. /\ new_l_id \in Nat
      /\ id + ChunksPerSplit <= Pow2[new_l_id]
      /\ ChunksPerSplit <= Pow2[new_l_id]
      /\ \/ new_l_id = widths.l_id
         \/ new_l_id = widths.l_id + 1 /\ id + ChunksPerSplit >= Pow2[widths.l_id]
  BY <1>1, <1>6, LIdHasRoom
<1> HIDE DEF new_l_id
<1>8. HasRoom(id, split)
  BY <1>3, <1>5, <1>7 DEF HasRoom
<1>9. new_l_id <= IdBits \/ ManyIds(id)
  <2>1. CASE new_l_id = widths.l_id
    BY <2>1 DEF WidthsFit, SplitIsGood
  <2>2. CASE new_l_id # widths.l_id /\ widths.l_id < IdBits
    BY <1>1, <1>5, <1>7, <2>2
  <2>3. CASE new_l_id # widths.l_id /\ IdBits <= widths.l_id
    <3>1. Pow2[IdBits] <= Pow2[widths.l_id]
      BY <1>1, <1>5, <2>3, Pow2Monotone
    <3> QED BY <1>1, <1>5, <1>7, <2>3, <3>1 DEF ManyIds
  <2> QED BY <1>1, <1>5, <2>1, <2>2, <2>3
<1>10. SplitIsGood(split, id)
  BY <1>3, <1>9 DEF SplitIsGood, SplitFits
<1>11. \A s \in 1..Len(next.splits) : SplitIsGood(next.splits[s], id)
  <2>1. ASSUME NEW s \in 1..(Len(c.splits) + 1)
        PROVE  SplitIsGood(Append(c.splits, widths)[s], id)
    <3>1. CASE s = Len(c.splits) + 1
      BY <1>1, <3>1 DEF WidthsFit
    <3>2. CASE s # Len(c.splits) + 1
      <4>1. s \in 1..Len(c.splits)
        BY <1>1, <3>2
      <4> QED BY <1>1, <4>1 DEF WidthsFit
    <3> QED BY <3>1, <3>2
  <2> QED BY <1>1, <1>4, <2>1
<1> QED BY <1>4, <1>8, <1>10, <1>11 DEF WidthsFit, next

(* One chunk more.                                                         *)
LEMMA ChunkWidthsFit ==
  ASSUME NEW C \in Seq(Chunk), NEW n \in Nat, n < Len(C), NEW c, Keeps(c, n, C),
         WidthsFit(c)
  PROVE  LET after == CompressChunk(c, C[n + 1])
         IN  after.panicked \/ WidthsFit(after)
<1> DEFINE chunk == C[n + 1]
           current == IF Len(c.current_split.pairs) = ChunksPerSplit THEN NextSplit(c) ELSE c
           split == current.current_split
           l_d == split.l_d
           base == PackSamples(BaseSamples(chunk, l_d))
           deviation_bits == DeviationBits(chunk, l_d)
           got == GetOrInsert(current.dictionary, base)
           pair == [base_id |-> got.id, deviation_bits |-> deviation_bits]
           bases == current.persisted_bases
           more == IF got.is_new THEN Append(bases, base) ELSE bases
           longer == [split EXCEPT !.pairs = Append(split.pairs, pair)]
           after == CompressChunk(c, chunk)
           id == current.dictionary.next_id
           id2 == got.dictionary.next_id
<1>1. Keeps(current, n, C) /\ WidthsFit(current)
  BY NextSplitKeeps, NextWidthsFit
<1>2. after = IF IdsExhausted(current.dictionary, base)
              THEN [current EXCEPT !.panicked = TRUE]
              ELSE [current EXCEPT !.dictionary = got.dictionary,
                                   !.persisted_bases = more,
                                   !.current_split.pairs =
                                      Append(current.current_split.pairs, pair)]
  BY DEF CompressChunk, TransformChunk
<1>3. Len(split.pairs) # ChunksPerSplit
  <2>1. CASE Len(c.current_split.pairs) = ChunksPerSplit
    <3>1. current = NextSplit(c)
      BY <2>1
    <3>2. c \in Compression
      BY DEF Keeps
    <3>3. NextSplit(c).current_split.pairs = <<>>
      BY <3>2 DEF NextSplit, NewSplit, Compression
    <3> QED BY <3>1, <3>3, ConfigConstants
  <2>2. CASE Len(c.current_split.pairs) # ChunksPerSplit
    BY <2>2
  <2> QED BY <2>1, <2>2
<1> HIDE DEF current, after
<1>4. /\ current \in Compression
      /\ current.dictionary \in DictionaryState
      /\ current.splits \in Seq(Split)
      /\ split \in Split
      /\ split.pairs \in Seq(Pair) /\ l_d \in 0..ChunkBitLen /\ split.l_id \in Nat
  <2>1. current \in Compression
    BY <1>1 DEF Keeps
  <2>2. split \in Split
    BY <2>1 DEF Compression
  <2> QED BY <2>1, <2>2 DEF Compression, Split
<1>5. chunk \in Chunk
  <2>1. n + 1 \in 1..Len(C)
    OBVIOUS
  <2> QED BY <2>1
<1>6. base \in PackedBase /\ deviation_bits \in BitString(l_d)
  BY <1>4, <1>5, TransformType, PackType
<1>7. CASE IdsExhausted(current.dictionary, base)
  BY <1>2, <1>4, <1>7 DEF Compression, after
<1>8. CASE ~ IdsExhausted(current.dictionary, base)
  <2>1. /\ got.dictionary \in DictionaryState
        /\ got.id \in Nat /\ got.id < id2 /\ id <= id2 /\ id2 <= id + 1
    BY <1>1, <1>4, <1>6, <1>8, GetOrInsertSound DEF Keeps
  <2> HIDE DEF got, base, split
  <2>2. id \in Nat /\ id2 \in Nat
    BY <1>4, <2>1, MaxIdType DEF DictionaryState
  <2>15. ChunksPerSplit \in Nat /\ Pow2[split.l_id] \in Nat /\ Len(split.pairs) \in Nat
    BY <1>4, ConfigConstants, Pow2Above
  <2>16. pair \in Pair
    <3>1. l_d \in Nat
      BY <1>4, Geometry
    <3>2. deviation_bits \in Seq(Bit)
      BY <1>6, <3>1, FunctionIsSequence DEF BitString
    <3> QED BY <2>1, <3>2 DEF Pair
  <2> HIDE DEF deviation_bits
  <2>3. after = [current EXCEPT !.dictionary = got.dictionary,
                                !.persisted_bases = more,
                                !.current_split = longer]
    BY <1>2, <1>4, <1>8 DEF Compression, Split, split
  <2>4. /\ longer.pairs = Append(split.pairs, pair)
        /\ longer.l_id = split.l_id /\ longer.l_d = split.l_d
    <3> HIDE DEF split, pair
    <3> QED BY <1>4 DEF Split
  <2> HIDE DEF longer, split, more
  <2>5. /\ after.dictionary = got.dictionary /\ after.current_split = longer
        /\ after.splits = current.splits
    BY <1>4, <2>3 DEF Compression
  <2>6. HasRoom(id, split) /\ SplitIsGood(split, id)
        /\ \A s \in 1..Len(current.splits) : SplitIsGood(current.splits[s], id)
    BY <1>1 DEF WidthsFit, split
  <2> HIDE DEF id, id2, pair
  <2>7. Len(longer.pairs) = Len(split.pairs) + 1
    BY <1>4, <2>4, <2>16
  <2> DEFINE m == Len(split.pairs)
             room == Pow2[split.l_id]
  <2>17. m <= ChunksPerSplit /\ id + (ChunksPerSplit - m) <= room /\ ChunksPerSplit <= room
    BY <2>6 DEF HasRoom
  <2>18. m # ChunksPerSplit /\ ChunksPerSplit \in Nat /\ room \in Nat /\ m \in Nat
    BY <1>3, <2>15
  <2>19. Len(longer.pairs) = m + 1 /\ Pow2[longer.l_id] = room
    BY <2>4, <2>7
  <2> HIDE DEF m, room
  <2>20. /\ m + 1 <= ChunksPerSplit /\ id2 + (ChunksPerSplit - (m + 1)) <= room
         /\ id2 <= room
    BY <2>1, <2>2, <2>17, <2>18
  <2>8. HasRoom(id2, longer)
    BY <2>17, <2>19, <2>20 DEF HasRoom
  <2>9. id2 <= Pow2[longer.l_id]
    BY <2>19, <2>20
  <2>10. PairFits(pair, longer)
    <3>1. pair.base_id = got.id /\ pair.deviation_bits = deviation_bits
      BY DEF pair
    <3> QED BY <1>6, <2>1, <2>2, <2>4, <2>9, <2>15, <3>1 DEF PairFits
  <2>11. SplitFits(longer)
    <3>1. ASSUME NEW i \in 1..(Len(split.pairs) + 1) PROVE PairFits(longer.pairs[i], longer)
      <4>1. CASE i = Len(split.pairs) + 1
        BY <1>4, <2>4, <2>10, <2>16, <4>1
      <4>2. CASE i # Len(split.pairs) + 1
        <5>1. i \in 1..Len(split.pairs) /\ longer.pairs[i] = split.pairs[i]
          BY <1>4, <2>4, <2>15, <2>16, <4>2
        <5> QED BY <2>4, <2>6, <5>1 DEF SplitIsGood, SplitFits, PairFits
      <4> QED BY <4>1, <4>2
    <3> QED BY <2>7, <3>1 DEF SplitFits
  <2>12. SplitIsGood(longer, id2)
    <3>1. SplitIsGood(split, id2)
      BY <2>1, <2>2, <2>6, ManyIdsStay
    <3> QED BY <2>4, <2>11, <3>1 DEF SplitIsGood
  <2>13. \A s \in 1..Len(current.splits) : SplitIsGood(current.splits[s], id2)
    BY <2>1, <2>2, <2>6, ManyIdsStay
  <2>14. after.dictionary.next_id = id2
    BY <2>5 DEF id2
  <2> QED BY <2>5, <2>8, <2>12, <2>13, <2>14 DEF WidthsFit, after
<1> QED BY <1>7, <1>8

----------------------------------------------------------------------------
(* After any number of chunks.                                             *)
LEMMA CompressesFits ==
  ASSUME NEW C \in Seq(Chunk), NEW after, Compresses(after, C, Len(C)),
         NEW n \in 0..Len(C)
  PROVE  after[n].panicked \/ WidthsFit(after[n])
<1> DEFINE Right(k) == after[k].panicked \/ WidthsFit(after[k])
           Bad == {k \in Nat : k <= Len(C) /\ ~ Right(k)}
<1>1. /\ Len(C) \in Nat
      /\ \A i \in 0..Len(C) : after[i] = IF i = 0 THEN NewCompression
                                         ELSE CompressNext(after[i - 1], C[i])
  BY DEF Compresses
<1>2. Bad = {}
  <2>1. SUFFICES ASSUME Bad # {} PROVE FALSE
    OBVIOUS
  <2>2. PICK k \in Bad : \A j \in Bad : k <= j
    <3> HIDE DEF Right
    <3> QED BY <2>1, LeastElement
  <2>3. k \in Nat /\ k <= Len(C) /\ ~ Right(k)
    BY <2>2
  <2>4. CASE k = 0
    <3>1. after[0] = NewCompression
      BY <1>1
    <3> QED BY <2>3, <2>4, <3>1, FirstWidthsFit
  <2>5. CASE k # 0
    <3>1. k - 1 \in Nat /\ k - 1 < Len(C) /\ k - 1 \notin Bad /\ k - 1 \in 0..Len(C)
      BY <1>1, <2>2, <2>3, <2>5
    <3>2. Right(k - 1)
      BY <1>1, <3>1
    <3>3. after[k] = CompressNext(after[k - 1], C[k])
      BY <1>1, <2>3, <2>5
    <3>4. (k - 1) + 1 = k
      BY <2>3
    <3>5. CASE after[k - 1].panicked
      BY <2>3, <3>3, <3>5 DEF CompressNext
    <3>6. CASE ~ after[k - 1].panicked
      <4>1. WidthsFit(after[k - 1])
        BY <3>2, <3>6
      <4>2. Keeps(after[k - 1], k - 1, C)
        BY <3>1, <3>6, CompressesKeeps
      <4>3. after[k] = CompressChunk(after[k - 1], C[k])
        BY <3>3, <3>6 DEF CompressNext
      <4>4. after[k].panicked \/ WidthsFit(after[k])
        BY <3>1, <3>4, <4>1, <4>2, <4>3, ChunkWidthsFit
      <4> QED BY <2>3, <4>4
    <3> QED BY <3>5, <3>6
  <2> QED BY <2>4, <2>5
<1>3. n \in Nat /\ n <= Len(C)
  BY <1>1
<1> QED BY <1>2, <1>3

(* What can be written: every field has its type, and no pair is cut off.  *)
Writable(made) ==
  /\ IsContainer(made)
  /\ made.original_sample_count \in Nat
  /\ made.dictionary \in Seq(PackedBase)
  /\ made.splits \in Seq(Split)
  /\ \A s \in 1..Len(made.splits) : SplitFits(made.splits[s])

(* No base ID is wider than a reader accepts.                              *)
NarrowIds(made) == \A s \in 1..Len(made.splits) : made.splits[s].l_id <= IdBits

(* What compress_samples returns can be written, and read while its bases  *)
(* leave IDs for one split more.                                           *)
LEMMA CompressedFits ==
  ASSUME NEW input \in Seq(Sample), CompressSamples(input) # <<>>
  PROVE  /\ Writable(CompressSamples(input)[1])
         /\ Len(CompressSamples(input)[1].dictionary) + ChunksPerSplit < Pow2[IdBits]
              => NarrowIds(CompressSamples(input)[1])
<1> DEFINE C == ChunkSamples(input)
           compressed == CompressSamples(input)
           after == CHOOSE f : Compresses(f, C, Len(C))
           done == after[Len(C)]
           splits == IF done.current_split.pairs = <<>> THEN done.splits
                     ELSE Append(done.splits, done.current_split)
           made == [original_sample_count |-> Len(input),
                         dictionary |-> done.persisted_bases,
                         splits |-> splits]
<1>1. C \in Seq(Chunk) /\ Len(C) \in Nat
  BY ChunksHoldSamples
<1>2. compressed = IF done.panicked THEN <<>> ELSE <<made>>
  BY DEF CompressSamples, Compresses, CompressNext
<1>3. Compresses(after, C, Len(C))
  BY <1>1, CompressionExists
<1>4. compressed # <<>>
  OBVIOUS
<1> HIDE DEF after, C, compressed
<1>5. ~ done.panicked /\ compressed = <<made>>
  BY <1>2, <1>4
<1>6. Len(C) \in 0..Len(C)
  BY <1>1
<1>7. Keeps(done, Len(C), C) /\ WidthsFit(done)
  BY <1>1, <1>3, <1>5, <1>6, CompressesKeeps, CompressesFits
<1> DEFINE id == done.dictionary.next_id
<1>8. /\ done.persisted_bases \in Seq(PackedBase) /\ Len(done.persisted_bases) = id
      /\ done.splits \in Seq(Split) /\ done.current_split \in Split
      /\ Len(done.splits) \in Nat
  BY <1>7 DEF Keeps, Compression
<1>9. /\ SplitIsGood(done.current_split, id)
      /\ \A s \in 1..Len(done.splits) : SplitIsGood(done.splits[s], id)
  BY <1>7 DEF WidthsFit
<1>10. Len(input) \in Nat
  OBVIOUS
<1> HIDE DEF done
<1>11. splits \in Seq(Split) /\ \A s \in 1..Len(splits) : SplitIsGood(splits[s], id)
  <2>1. CASE done.current_split.pairs = <<>>
    BY <1>8, <1>9, <2>1
  <2>2. CASE done.current_split.pairs # <<>>
    <3> DEFINE more == Append(done.splits, done.current_split)
    <3>1. /\ more \in Seq(Split) /\ Len(more) = Len(done.splits) + 1
          /\ more[Len(done.splits) + 1] = done.current_split
          /\ \A s \in 1..Len(done.splits) : more[s] = done.splits[s]
      BY <1>8, AppendProperties
    <3>2. splits = more
      BY <2>2
    <3> HIDE DEF more, splits, id
    <3>3. ASSUME NEW s \in 1..Len(more) PROVE SplitIsGood(more[s], id)
      <4>1. CASE s = Len(done.splits) + 1
        BY <1>9, <3>1, <4>1
      <4>2. CASE s # Len(done.splits) + 1
        <5>1. s \in 1..Len(done.splits)
          BY <1>8, <3>1, <4>2
        <5> QED BY <1>9, <3>1, <5>1
      <4> QED BY <4>1, <4>2
    <3> QED BY <3>1, <3>2, <3>3
  <2> QED BY <2>1, <2>2
<1> HIDE DEF splits
<1>12. /\ made.original_sample_count = Len(input)
       /\ made.dictionary = done.persisted_bases
       /\ made.splits = splits
       /\ IsContainer(made)
  BY DEF IsContainer
<1> HIDE DEF made
<1>13. Writable(made)
  BY <1>8, <1>10, <1>11, <1>12 DEF Writable, SplitIsGood
<1>14. Len(made.dictionary) + ChunksPerSplit < Pow2[IdBits] => NarrowIds(made)
  <2>1. id \in Nat /\ ChunksPerSplit \in Nat /\ Pow2[IdBits] \in Nat
    <3>1. Len(done.persisted_bases) \in Nat
      BY <1>8
    <3> QED BY <1>8, <3>1, ConfigConstants, Pow2Above
  <2> SUFFICES ASSUME id + ChunksPerSplit < Pow2[IdBits], NEW s \in 1..Len(splits)
               PROVE  splits[s].l_id <= IdBits
    BY <1>8, <1>12 DEF NarrowIds
  <2>2. ~ ManyIds(id)
    BY <2>1 DEF ManyIds
  <2> QED BY <1>11, <2>2 DEF SplitIsGood
<1>15. compressed[1] = made
  BY <1>5
<1> QED BY <1>13, <1>14, <1>15 DEF compressed

----------------------------------------------------------------------------
(* Pieces of a file.                                                       *)

(* What is flattened lies in the result, in order.                         *)
LEMMA FlatPieces ==
  ASSUME NEW S, NEW q \in Seq(Seq(S))
  PROVE  FlattenSeq(q) \in Seq(S) /\ \E starts : LaysOut(FlattenSeq(q), q, starts)
<1>1. CASE Len(q) # 0
  <2> DEFINE f == CHOOSE flat : Flattens(q, Len(q), flat)
  <2>1. FlattenSeq(q) = f[Len(q)]
    BY <1>1 DEF FlattenSeq, Flattens
  <2>2. Flattens(q, Len(q), f)
    BY LenProperties, FlatteningExists
  <2> HIDE DEF f
  <2>3. f[Len(q)] \in Seq(S) /\ \E starts : LaysOut(f[Len(q)], q, starts)
    BY <1>1, <2>2, FlattenedLies
  <2> QED BY <2>1, <2>3
<1>2. CASE Len(q) = 0
  <2>1. FlattenSeq(q) = <<>>
    BY <1>2 DEF FlattenSeq
  <2> DEFINE starts == [i \in 1..1 |-> 0]
  <2>2. LaysOut(<<>>, q, starts)
    BY <1>2 DEF LaysOut, Placed
  <2>3. <<>> \in Seq(S)
    OBVIOUS
  <2> HIDE DEF starts
  <2> QED BY <2>1, <2>2, <2>3
<1> QED BY <1>1, <1>2

(* A piece of a piece.                                                     *)
LEMMA LiesInside ==
  ASSUME NEW bytes, NEW whole, Len(whole) \in Nat, NEW at \in Nat, LiesAt(bytes, at, whole),
         NEW piece, Len(piece) \in Nat, NEW place \in Nat, LiesAt(whole, place, piece),
         Len(bytes) \in Nat
  PROVE  LiesAt(bytes, at + place, piece)
<1> DEFINE n == Len(piece)
           m == Len(whole)
           l == Len(bytes)
<1>1. place + n <= m /\ at + m <= l
  BY DEF LiesAt
<1>2. n \in Nat /\ m \in Nat /\ l \in Nat
  OBVIOUS
<1>3. /\ \A j \in 1..n : whole[place + j] = piece[j]
      /\ \A j \in 1..m : bytes[at + j] = whole[j]
  BY DEF LiesAt
<1> HIDE DEF n, m, l
<1>4. ASSUME NEW j \in 1..n PROVE bytes[(at + place) + j] = piece[j]
  <2>1. place + j \in 1..m /\ at + (place + j) = (at + place) + j
    BY <1>1, <1>2
  <2>2. bytes[at + (place + j)] = whole[place + j]
    BY <1>3, <2>1
  <2> QED BY <1>3, <2>1, <2>2
<1>5. (at + place) + n <= l
  BY <1>1, <1>2
<1> QED BY <1>4, <1>5 DEF LiesAt, n, l

(* A sequence lies in itself.                                              *)
LEMMA LiesInItself ==
  ASSUME NEW S, NEW s \in Seq(S)
  PROVE  LiesAt(s, 0, s)
BY DEF LiesAt

(* The sum of the widths before a field.                                   *)
LEMMA StartOfNext ==
  ASSUME NEW i \in Nat \ {0}, NEW w \in Nat
  PROVE  /\ (i - 1) * w \in Nat /\ i * w \in Nat /\ ((i + 1) - 1) * w = (i - 1) * w + w
<1> DEFINE k == i - 1
<1>1. k \in Nat /\ i = k + 1 /\ (i + 1) - 1 = k + 1
  OBVIOUS
<1> HIDE DEF k
<1>2. (k + 1) * w = k * w + w /\ k * w \in Nat
  BY <1>1
<1> QED BY <1>1, <1>2 DEF k

(* n pieces of one length start side by side.                              *)
Evenly(starts, n, w) == \A i \in 1..(n + 1) : starts[i] = (i - 1) * w

(* Pieces of one length lie side by side.                                  *)
LEMMA EvenStarts ==
  ASSUME NEW flat, NEW q, NEW starts, LaysOut(flat, q, starts), Len(q) \in Nat,
         NEW w \in Nat, \A i \in 1..Len(q) : Len(q[i]) = w
  PROVE  Evenly(starts, Len(q), w)
<1> DEFINE Bad == {i \in Nat : i \in 1..(Len(q) + 1) /\ starts[i] # (i - 1) * w}
<1>1. Bad = {}
  <2>1. SUFFICES ASSUME Bad # {} PROVE FALSE
    OBVIOUS
  <2>2. PICK i \in Bad : \A j \in Bad : i <= j
    BY <2>1, LeastElement
  <2>3. i \in 1..(Len(q) + 1) /\ starts[i] # (i - 1) * w /\ i \in Nat
    BY <2>2
  <2>4. CASE i = 1
    <3>1. starts[1] = 0 /\ (1 - 1) * w = 0
      BY DEF LaysOut
    <3> QED BY <2>3, <2>4, <3>1
  <2>5. CASE i # 1
    <3> DEFINE k == i - 1
    <3>1. k \in Nat \ {0} /\ k \in 1..Len(q) /\ i = k + 1 /\ k < i
      BY <2>3, <2>5
    <3> HIDE DEF k
    <3>2. k \notin Bad
      BY <2>2, <2>3, <3>1
    <3>3. starts[k] = (k - 1) * w
      BY <3>1, <3>2
    <3>4. starts[k + 1] = starts[k] + w
      BY <3>1 DEF LaysOut, Placed
    <3>5. ((k + 1) - 1) * w = (k - 1) * w + w
      BY <3>1, StartOfNext
    <3> QED BY <2>3, <3>1, <3>3, <3>4, <3>5
  <2> QED BY <2>4, <2>5
<1>2. ASSUME NEW n \in 1..(Len(q) + 1) PROVE starts[n] = (n - 1) * w
  <2>1. n \in Nat
    OBVIOUS
  <2> QED BY <1>1, <2>1
<1> QED BY <1>2 DEF Evenly

(* So does each of them in what they are flattened to.                     *)
LEMMA EvenPieces ==
  ASSUME NEW S, NEW q \in Seq(Seq(S)), NEW w \in Nat,
         \A i \in 1..Len(q) : Len(q[i]) = w
  PROVE  /\ FlattenSeq(q) \in Seq(S)
         /\ Len(FlattenSeq(q)) = Len(q) * w
         /\ \A i \in 1..Len(q) : LiesAt(FlattenSeq(q), (i - 1) * w, q[i])
<1> DEFINE flat == FlattenSeq(q)
           n == Len(q)
<1>1. flat \in Seq(S) /\ \E starts : LaysOut(flat, q, starts)
  BY FlatPieces
<1>2. PICK starts : LaysOut(flat, q, starts)
  BY <1>1
<1>3. n \in Nat
  OBVIOUS
<1> HIDE DEF flat, n
<1>4. \A i \in 1..(n + 1) : starts[i] = (i - 1) * w
  <2>1. Len(q) \in Nat
    BY <1>3 DEF n
  <2>2. Evenly(starts, Len(q), w)
    BY <1>2, <2>1, EvenStarts
  <2> QED BY <2>2 DEF n, Evenly
<1>5. Len(flat) = starts[n + 1]
  BY <1>2 DEF LaysOut, Placed, n
<1>6. n + 1 \in 1..(n + 1) /\ (n + 1) - 1 = n
  BY <1>3
<1>7. Len(flat) = n * w
  BY <1>4, <1>5, <1>6
<1>8. ASSUME NEW i \in 1..n PROVE LiesAt(flat, (i - 1) * w, q[i])
  <2>1. i \in 1..(n + 1)
    BY <1>3
  <2>2. LiesAt(flat, starts[i], q[i])
    BY <1>2, PiecesLie DEF n
  <2> QED BY <1>4, <2>1, <2>2
<1> QED BY <1>1, <1>7, <1>8 DEF flat, n

(* One piece, then the other.                                              *)
Follows(both, x, y, S) ==
  /\ both \in Seq(S) /\ Len(both) = Len(x) + Len(y)
  /\ LiesAt(both, 0, x) /\ LiesAt(both, Len(x), y)

(* So do two pieces in what they are joined to.                            *)
LEMMA TwoPieces ==
  ASSUME NEW S, NEW x \in Seq(S), NEW y \in Seq(S)
  PROVE  Follows(x \o y, x, y, S)
<1> DEFINE both == x \o y
<1>1. both \in Seq(S) /\ Len(both) = Len(x) + Len(y)
  BY ConcatPlaces
<1>2. Len(both) \in Nat /\ 0 \in Nat
  BY <1>1
<1>3. LiesAt(both, 0, both)
  BY <1>1, LiesInItself
<1>4. LiesAt(both, 0, x) /\ LiesAt(both, 0 + Len(x), y)
  BY <1>2, <1>3, BothLie
<1>5. 0 + Len(x) = Len(x)
  OBVIOUS
<1> QED BY <1>1, <1>4, <1>5 DEF Follows

----------------------------------------------------------------------------
(* A split record.                                                         *)

(* The bits of a pair in the payload.                                      *)
PairField(split, i) ==
  WriteValue(split.pairs[i].base_id, split.l_id) \o split.pairs[i].deviation_bits

(* The width of a pair.                                                    *)
PairWidth(split) == split.l_id + split.l_d

(* The fields of a split.                                                  *)
LEMMA SplitFields ==
  ASSUME NEW split \in Split
  PROVE  /\ split.l_id \in Nat /\ split.l_d \in Nat /\ split.l_d \in 0..ChunkBitLen
         /\ split.pairs \in Seq(Pair) /\ Len(split.pairs) \in Nat
         /\ PairWidth(split) \in Nat
         /\ split = [l_id |-> split.l_id, l_d |-> split.l_d, pairs |-> split.pairs]
<1>1. /\ split.l_id \in Nat /\ split.l_d \in 0..ChunkBitLen /\ split.pairs \in Seq(Pair)
      /\ split = [l_id |-> split.l_id, l_d |-> split.l_d, pairs |-> split.pairs]
  BY DEF Split
<1>2. split.l_d \in Nat
  BY <1>1, Geometry
<1> QED BY <1>1, <1>2 DEF PairWidth

(* A pair is got back from its bits.                                       *)
LEMMA PairFieldHolds ==
  ASSUME NEW split \in Split, NEW i \in 1..Len(split.pairs), PairFits(split.pairs[i], split)
  PROVE  /\ PairField(split, i) \in Seq(Bit)
         /\ Len(PairField(split, i)) = PairWidth(split)
         /\ ReadValue(SubSeq(PairField(split, i), 1, split.l_id)) = split.pairs[i].base_id
         /\ SubSeq(PairField(split, i), split.l_id + 1, split.l_id + split.l_d)
              = split.pairs[i].deviation_bits
<1> DEFINE a == split.l_id
           d == split.l_d
           pair == split.pairs[i]
           x == WriteValue(pair.base_id, a)
           y == pair.deviation_bits
           f == PairField(split, i)
<1>1. a \in Nat /\ d \in Nat /\ split.pairs \in Seq(Pair)
  BY SplitFields
<1>2. pair \in Pair
  BY <1>1
<1>3. pair.base_id \in Nat /\ pair.base_id < Pow2[a] /\ y \in BitString(d)
  BY <1>2 DEF Pair, PairFits
<1>4. f = x \o y
  BY DEF PairField
<1> HIDE DEF pair, a, d, f
<1>5. x \in BitString(a) /\ ReadValue(x) = pair.base_id
  BY <1>1, <1>3, WriteValueType, ReadOfWrite
<1> HIDE DEF x, y
<1>6. x \in Seq(Bit) /\ Len(x) = a /\ y \in Seq(Bit) /\ Len(y) = d
  BY <1>1, <1>3, <1>5, FunctionIsSequence DEF BitString
<1>7. /\ f \in Seq(Bit) /\ Len(f) = a + d
      /\ \A k \in 1..a : f[k] = x[k]
      /\ \A k \in 1..d : f[a + k] = y[k]
  BY <1>4, <1>6, ConcatPlaces
<1>8. SubSeq(f, 1, a) = x
  BY <1>4, <1>6, FirstOfTwo
<1>9. SubSeq(f, a + 1, a + d) = y
  <2>1. SubSeq(f, a + 1, a + d) = [k \in 1..d |-> f[a + k]]
    <3>1. f \in Seq(Bit) /\ a \in Nat /\ d \in Nat /\ a + d <= Len(f)
      BY ONLY <1>1, <1>7
    <3> QED BY ONLY <3>1, MiddlePlaces
  <2>2. y = [k \in 1..d |-> y[k]]
    BY <1>3 DEF BitString
  <2> QED BY <1>7, <2>1, <2>2
<1>10. a + d = PairWidth(split)
  BY DEF a, d, PairWidth
<1> QED BY <1>5, <1>7, <1>8, <1>9, <1>10 DEF a, d, f, pair, x, y

(* The number of payload bytes of a split.                                 *)
PayloadLen(split) == Len(PairBytes(split)) \div 8

(* The pairs lie side by side in the payload.                              *)
LEMMA PairBytesHold ==
  ASSUME NEW split \in Split, SplitFits(split)
  PROVE  /\ PairBytes(split) \in Seq(Bit)
         /\ PayloadLen(split) \in Nat /\ Len(PairBytes(split)) = 8 * PayloadLen(split)
         /\ \A i \in 1..Len(split.pairs) :
              LiesAt(PairBytes(split), (i - 1) * PairWidth(split), PairField(split, i))
<1> DEFINE n == Len(split.pairs)
           w == PairWidth(split)
           q == [i \in 1..n |-> PairField(split, i)]
           flat == FlattenSeq(q)
           bits == PairBytes(split)
<1>1. n \in Nat /\ w \in Nat
  BY SplitFields
<1>2. bits = PadToByte(flat)
  BY DEF PairBytes, PairField
<1> HIDE DEF w
<1>3. ASSUME NEW i \in 1..n
      PROVE  PairField(split, i) \in Seq(Bit) /\ Len(PairField(split, i)) = w
  <2>1. PairFits(split.pairs[i], split)
    BY DEF SplitFits
  <2> QED BY <2>1, PairFieldHolds DEF w
<1>4. /\ q \in [1..n -> Seq(Bit)] /\ \A i \in 1..n : q[i] = PairField(split, i)
  BY <1>3
<1> HIDE DEF n, q
<1>5. q \in Seq(Seq(Bit)) /\ Len(q) = n
  BY <1>1, <1>4, FunctionIsSequence
<1>6. \A i \in 1..Len(q) : Len(q[i]) = w
  BY <1>3, <1>4, <1>5
<1>7. /\ flat \in Seq(Bit)
      /\ \A i \in 1..n : LiesAt(flat, (i - 1) * w, q[i])
  BY <1>1, <1>5, <1>6, EvenPieces
<1> HIDE DEF flat, bits
<1>8. /\ bits \in Seq(Bit)
      /\ \E m \in Nat : Len(bits) = 8 * m
      /\ Len(flat) <= Len(bits)
      /\ \A a \in 1..Len(flat) : bits[a] = flat[a]
  BY <1>2, <1>7, PadToByteLen
<1>9. LiesAt(bits, 0, flat)
  <2>1. Len(flat) \in Nat
    BY <1>7
  <2>2. ASSUME NEW j \in 1..Len(flat) PROVE bits[0 + j] = flat[j]
    <3>1. 0 + j = j
      BY <2>1
    <3> QED BY <1>8, <3>1
  <2> QED BY <1>8, <2>1, <2>2 DEF LiesAt
<1>10. ASSUME NEW i \in 1..n PROVE LiesAt(bits, (i - 1) * w, PairField(split, i))
  <2> DEFINE p == (i - 1) * w
  <2>1. p \in Nat
    <3>1. i \in Nat \ {0}
      BY <1>1
    <3> QED BY <1>1, <3>1, StartOfNext
  <2>2. LiesAt(flat, p, q[i])
    BY <1>7
  <2> HIDE DEF p
  <2>3. Len(q[i]) \in Nat /\ Len(flat) \in Nat /\ Len(bits) \in Nat /\ 0 \in Nat
    BY <1>1, <1>5, <1>6, <1>7, <1>8
  <2>4. LiesAt(bits, 0 + p, q[i])
    BY ONLY <1>9, <2>1, <2>2, <2>3, LiesInside
  <2>5. LiesAt(bits, p, PairField(split, i))
    BY <1>4, <2>1, <2>4
  <2> QED BY <2>5 DEF p
<1>11. PayloadLen(split) \in Nat /\ Len(bits) = 8 * PayloadLen(split)
  <2>1. PayloadLen(split) = Len(bits) \div 8
    BY DEF PayloadLen, bits
  <2> QED BY <1>8, <2>1
<1> QED BY <1>8, <1>10, <1>11 DEF bits, n, w

(* The split is got back from its payload.                                 *)
LEMMA PairsAreCutBack ==
  ASSUME NEW split \in Split, SplitFits(split)
  PROVE  LET fields == Cut(PairBytes(split), 0, Len(split.pairs), PairWidth(split))
         IN  fields = [i \in 1..Len(split.pairs) |-> PairField(split, i)]
<1> DEFINE n == Len(split.pairs)
           w == PairWidth(split)
           bits == PairBytes(split)
<1>1. n \in Nat /\ w \in Nat
  BY SplitFields
<1>2. ASSUME NEW i \in 1..n
      PROVE  [k \in 1..w |-> bits[0 + BitAt(i, k, w)]] = PairField(split, i)
  <2> DEFINE p == (i - 1) * w
             f == PairField(split, i)
  <2>1. PairFits(split.pairs[i], split)
    BY DEF SplitFits
  <2>2. f \in Seq(Bit) /\ Len(f) = w
    BY <2>1, PairFieldHolds
  <2>3. LiesAt(bits, p, f)
    BY PairBytesHold
  <2>4. p \in Nat
    <3>1. i \in Nat \ {0}
      BY <1>1
    <3> HIDE DEF w
    <3> QED BY <1>1, <3>1, StartOfNext
  <2>5. ASSUME NEW k \in 1..w PROVE bits[0 + BitAt(i, k, w)] = f[k]
    <3>1. BitAt(i, k, w) = p + k
      BY DEF BitAt
    <3> HIDE DEF p, f, w, bits
    <3>2. 0 + (p + k) = p + k
      BY <1>1, <2>4
    <3>3. bits[p + k] = f[k]
      BY <2>2, <2>3 DEF LiesAt
    <3> QED BY <3>1, <3>2, <3>3
  <2>6. f = [k \in 1..w |-> f[k]]
    BY <2>2
  <2> HIDE DEF f, w, bits
  <2> QED BY <2>5, <2>6 DEF f
<1> QED BY <1>2 DEF Cut

----------------------------------------------------------------------------
(* Where the parts of a split record are.                                  *)
RecordHolds(bytes, at, split) ==
  /\ LiesAt(bytes, at, Uint(split.l_id, 1))
  /\ LiesAt(bytes, at + 1, Uint(split.l_d, 1))
  /\ LiesAt(bytes, at + 2, Uint(Len(split.pairs), 2))
  /\ LiesAt(bytes, at + 4, Uint(PayloadLen(split), 4))
  /\ LiesAt(bytes, at + 8, Packed(PairBytes(split)))

(* What an integer field may hold.                                         *)
FieldValue == {"TSTR", "TCHY", Unlimited} \cup Nat

(* The field is there and holds the value.                                 *)
FieldReads(bytes, at, width, value) == HasUint(bytes, at, width) /\ UintAt(bytes, at) = value

(* A field is read where it lies.                                          *)
LEMMA FieldIsRead ==
  ASSUME NEW value \in FieldValue, NEW width \in Nat \ {0},
         NEW bytes, NEW at, LiesAt(bytes, at, Uint(value, width))
  PROVE  FieldReads(bytes, at, width, value)
<1>1. value \in {"TSTR", "TCHY", Unlimited} \cup Nat
  BY DEF FieldValue
<1>2. UintAt(bytes, at) = value /\ HasUint(bytes, at, width)
  BY ONLY <1>1, width \in Nat \ {0}, LiesAt(bytes, at, Uint(value, width)), UintIsRead, Zenon
<1> QED BY <1>2 DEF FieldReads

(* The payload's bytes.                                                    *)
LEMMA PayloadBytes ==
  ASSUME NEW split \in Split, SplitFits(split)
  PROVE  /\ Packed(PairBytes(split)) \in Seq(FileByte)
         /\ Len(Packed(PairBytes(split))) = PayloadLen(split)
         /\ \A k \in 1..PayloadLen(split) : Packed(PairBytes(split))[k] \in [bits : Seq(Bit)]
         /\ Join([k \in 1..PayloadLen(split) |-> Packed(PairBytes(split))[k].bits], 8)
              = PairBytes(split)
<1> DEFINE m == PayloadLen(split)
           bits == PairBytes(split)
<1>1. bits \in Seq(Bit) /\ m \in Nat /\ Len(bits) = 8 * m
  BY PairBytesHold
<1>2. Len(bits) \div 8 = m
  BY <1>1
<1> HIDE DEF m, bits
<1>3. /\ Packed(bits) \in Seq(FileByte) /\ Len(Packed(bits)) = m
      /\ Join([k \in 1..m |-> Packed(bits)[k].bits], 8) = bits
  BY <1>1, PackedBytes
<1>4. ASSUME NEW k \in 1..m PROVE Packed(bits)[k] \in [bits : Seq(Bit)]
  <2>1. Packed(bits)[k] = [bits |-> SubSeq(bits, 8 * k - 7, 8 * k)]
    BY <1>2 DEF Packed
  <2> DEFINE a == 8 * k - 7
             b == 8 * k
  <2>2. a \in 1..Len(bits) /\ b \in 1..Len(bits) /\ a <= b
    BY <1>1
  <2> HIDE DEF a, b
  <2>3. SubSeq(bits, a, b) \in Seq(Bit)
    BY <1>1, <2>2, SubSeqProperties
  <2> QED BY <2>1, <2>3 DEF a, b
<1> QED BY <1>3, <1>4 DEF m, bits

(* The record begins with its four fields; the payload follows them.       *)
LEMMA RecordParts ==
  ASSUME NEW split \in Split, SplitFits(split)
  PROVE  /\ SplitRecord(split) \in Seq(FileByte)
         /\ Len(SplitRecord(split)) = 8 + PayloadLen(split) /\ PayloadLen(split) \in Nat
         /\ RecordHolds(SplitRecord(split), 0, split)
<1> DEFINE a == Uint(split.l_id, 1)
           b == Uint(split.l_d, 1)
           c == Uint(Len(split.pairs), 2)
           d == Uint(PayloadLen(split), 4)
           e == Packed(PairBytes(split))
           q == <<a, b, c, d, e>>
           record == SplitRecord(split)
           m == PayloadLen(split)
<1>1. /\ split.l_id \in Nat /\ split.l_d \in Nat /\ Len(split.pairs) \in Nat /\ m \in Nat
  BY SplitFields, PairBytesHold
<1>2. a \in Seq(FileByte) /\ Len(a) = 1
  BY <1>1, UintBytes
<1>3. b \in Seq(FileByte) /\ Len(b) = 1
  BY <1>1, UintBytes
<1>4. c \in Seq(FileByte) /\ Len(c) = 2
  BY <1>1, UintBytes
<1>5. d \in Seq(FileByte) /\ Len(d) = 4
  BY <1>1, UintBytes
<1>6. e \in Seq(FileByte) /\ Len(e) = m
  BY PayloadBytes
<1>7. record = FlattenSeq(q)
  BY DEF SplitRecord, PayloadLen
<1> HIDE DEF a, b, c, d, e, m, record
<1>8. /\ q \in Seq(Seq(FileByte)) /\ Len(q) = 5
      /\ q[1] = a /\ q[2] = b /\ q[3] = c /\ q[4] = d /\ q[5] = e
  BY <1>2, <1>3, <1>4, <1>5, <1>6
<1> HIDE DEF q
<1>9. record \in Seq(FileByte) /\ \E starts : LaysOut(record, q, starts)
  BY <1>7, <1>8, FlatPieces
<1>10. PICK starts : LaysOut(record, q, starts)
  BY <1>9
<1>11. \A i \in 1..5 : LiesAt(record, starts[i], q[i]) /\ starts[i + 1] = starts[i] + Len(q[i])
  <2>1. \A i \in 1..Len(q) :
          LiesAt(record, starts[i], q[i]) /\ starts[i + 1] = starts[i] + Len(q[i])
    BY <1>10, PiecesLie
  <2> QED BY <1>8, <2>1
<1>12. starts[1] = 0 /\ Len(record) = starts[6]
  BY <1>8, <1>10 DEF LaysOut, Placed
<1>13. /\ starts[2] = starts[1] + Len(q[1]) /\ starts[3] = starts[2] + Len(q[2])
       /\ starts[4] = starts[3] + Len(q[3]) /\ starts[5] = starts[4] + Len(q[4])
       /\ starts[6] = starts[5] + Len(q[5])
  BY <1>11
<1>14. starts[2] = 1 /\ starts[3] = 2 /\ starts[4] = 4 /\ starts[5] = 8 /\ starts[6] = 8 + m
  BY <1>1, <1>2, <1>3, <1>4, <1>5, <1>6, <1>8, <1>12, <1>13 DEF m
<1>15. /\ LiesAt(record, 0, a) /\ LiesAt(record, 1, b) /\ LiesAt(record, 2, c)
       /\ LiesAt(record, 4, d) /\ LiesAt(record, 8, e)
  <2>1. LiesAt(record, starts[1], q[1]) /\ LiesAt(record, starts[2], q[2])
    BY ONLY <1>11
  <2>2. LiesAt(record, starts[3], q[3]) /\ LiesAt(record, starts[4], q[4])
    BY ONLY <1>11
  <2>3. LiesAt(record, starts[5], q[5])
    BY ONLY <1>11
  <2> QED BY ONLY <1>8, <1>12, <1>14, <2>1, <2>2, <2>3
<1>16. 0 + 1 = 1 /\ 0 + 2 = 2 /\ 0 + 4 = 4 /\ 0 + 8 = 8
  OBVIOUS
<1>17. RecordHolds(record, 0, split)
  BY <1>15, <1>16 DEF RecordHolds, a, b, c, d, e
<1> QED BY <1>1, <1>9, <1>12, <1>14, <1>17 DEF record, m

(* Where a record lies, its parts do.                                      *)
LEMMA RecordInFile ==
  ASSUME NEW split \in Split, SplitFits(split),
         NEW bytes, Len(bytes) \in Nat, NEW at \in Nat, LiesAt(bytes, at, SplitRecord(split))
  PROVE  RecordHolds(bytes, at, split)
<1> DEFINE record == SplitRecord(split)
           a == Uint(split.l_id, 1)
           b == Uint(split.l_d, 1)
           c == Uint(Len(split.pairs), 2)
           d == Uint(PayloadLen(split), 4)
           e == Packed(PairBytes(split))
<1>1. /\ split.l_id \in Nat /\ split.l_d \in Nat /\ Len(split.pairs) \in Nat
      /\ PayloadLen(split) \in Nat
  BY SplitFields, PairBytesHold
<1>2. Len(a) \in Nat /\ Len(b) \in Nat /\ Len(c) \in Nat /\ Len(d) \in Nat /\ Len(e) \in Nat
  <2>1. Len(a) = 1 /\ Len(b) = 1 /\ Len(c) = 2 /\ Len(d) = 4
    BY <1>1, UintBytes
  <2>2. Len(e) \in Nat
    BY <1>1, PayloadBytes
  <2> QED BY <2>1, <2>2
<1>3. Len(record) \in Nat /\ RecordHolds(record, 0, split)
  BY RecordParts
<1>4. /\ LiesAt(record, 0, a) /\ LiesAt(record, 1, b) /\ LiesAt(record, 2, c)
      /\ LiesAt(record, 4, d) /\ LiesAt(record, 8, e)
  <2>1. 0 + 1 = 1 /\ 0 + 2 = 2 /\ 0 + 4 = 4 /\ 0 + 8 = 8
    OBVIOUS
  <2> QED BY <1>3, <2>1 DEF RecordHolds
<1>5. LiesAt(bytes, at, record) /\ Len(bytes) \in Nat /\ at \in Nat
  OBVIOUS
<1> HIDE DEF record, a, b, c, d, e
<1>6. 0 \in Nat /\ 1 \in Nat /\ 2 \in Nat /\ 4 \in Nat /\ 8 \in Nat /\ at + 0 = at
  BY <1>5
<1>7. LiesAt(bytes, at + 0, a)
  BY ONLY <1>2, <1>3, <1>4, <1>5, <1>6, LiesInside
<1>8. LiesAt(bytes, at + 1, b)
  BY ONLY <1>2, <1>3, <1>4, <1>5, <1>6, LiesInside
<1>9. LiesAt(bytes, at + 2, c)
  BY ONLY <1>2, <1>3, <1>4, <1>5, <1>6, LiesInside
<1>10. LiesAt(bytes, at + 4, d)
  BY ONLY <1>2, <1>3, <1>4, <1>5, <1>6, LiesInside
<1>11. LiesAt(bytes, at + 8, e)
  BY ONLY <1>2, <1>3, <1>4, <1>5, <1>6, LiesInside
<1> QED BY <1>6, <1>7, <1>8, <1>9, <1>10, <1>11 DEF RecordHolds, a, b, c, d, e

(* What is read of a record.                                               *)
RecordReads(bytes, at, split) ==
  /\ FieldReads(bytes, at, 1, split.l_id)
  /\ FieldReads(bytes, at + 1, 1, split.l_d)
  /\ FieldReads(bytes, at + 2, 2, Len(split.pairs))
  /\ FieldReads(bytes, at + 4, 4, PayloadLen(split))
  /\ HasPacked(bytes, at + 8, PayloadLen(split))
  /\ PackedAt(bytes, at + 8, PayloadLen(split)) = PairBytes(split)

(* All of it is what was written.                                          *)
LEMMA RecordIsRead ==
  ASSUME NEW split \in Split, SplitFits(split), NEW bytes, NEW at \in Nat,
         RecordHolds(bytes, at, split)
  PROVE  RecordReads(bytes, at, split)
<1> DEFINE m == PayloadLen(split)
           e == Packed(PairBytes(split))
           p == at + 8
<1>1. /\ split.l_id \in FieldValue /\ split.l_d \in FieldValue
      /\ Len(split.pairs) \in FieldValue /\ m \in FieldValue /\ m \in Nat
  BY SplitFields, PairBytesHold DEF FieldValue
<1>2. 1 \in Nat \ {0} /\ 2 \in Nat \ {0} /\ 4 \in Nat \ {0}
  OBVIOUS
<1>3. /\ LiesAt(bytes, at, Uint(split.l_id, 1))
      /\ LiesAt(bytes, at + 1, Uint(split.l_d, 1))
      /\ LiesAt(bytes, at + 2, Uint(Len(split.pairs), 2))
      /\ LiesAt(bytes, at + 4, Uint(m, 4))
      /\ LiesAt(bytes, p, e)
  BY DEF RecordHolds
<1>4. /\ Len(e) = m
      /\ \A k \in 1..m : e[k] \in [bits : Seq(Bit)]
      /\ Join([k \in 1..m |-> e[k].bits], 8) = PairBytes(split)
  BY PayloadBytes
<1> HIDE DEF m, e, p
<1>5. FieldReads(bytes, at, 1, split.l_id)
  BY <1>1, <1>2, <1>3, FieldIsRead
<1>6. FieldReads(bytes, at + 1, 1, split.l_d)
  BY <1>1, <1>2, <1>3, FieldIsRead
<1>7. FieldReads(bytes, at + 2, 2, Len(split.pairs))
  BY <1>1, <1>2, <1>3, FieldIsRead
<1>8. FieldReads(bytes, at + 4, 4, m)
  BY <1>1, <1>2, <1>3, FieldIsRead
<1>9. p + m <= Len(bytes) /\ \A k \in 1..m : bytes[p + k] = e[k]
  BY <1>3, <1>4 DEF LiesAt
<1>10. HasPacked(bytes, p, m)
  <2>1. ASSUME NEW k \in 1..m PROVE "bits" \in DOMAIN bytes[p + k]
    <3>1. e[k] \in [bits : Seq(Bit)]
      BY <1>4
    <3>2. "bits" \in DOMAIN e[k]
      BY <3>1
    <3> QED BY <1>9, <3>2
  <2> QED BY <1>9, <2>1 DEF HasPacked
<1>11. PackedAt(bytes, p, m) = PairBytes(split)
  <2>1. [k \in 1..m |-> bytes[p + k].bits] = [k \in 1..m |-> e[k].bits]
    BY <1>9
  <2> QED BY <1>4, <2>1, Zenon DEF PackedAt
<1> QED BY <1>5, <1>6, <1>7, <1>8, <1>10, <1>11 DEF RecordReads, m, p

----------------------------------------------------------------------------
(* So the split is read back.                                              *)
LEMMA SplitIsReadBack ==
  ASSUME NEW split \in Split, SplitFits(split), NEW bytes, NEW at,
         RecordReads(bytes, at, split)
  PROVE  SplitAt(bytes, at) = split
<1> DEFINE n == Len(split.pairs)
           a == split.l_id
           d == split.l_d
           payload == PackedAt(bytes, at + RecordHeaderLen, UintAt(bytes, at + 4))
           fields == Cut(payload, 0, UintAt(bytes, at + 2),
                         UintAt(bytes, at) + UintAt(bytes, at + 1))
           pairs == [i \in DOMAIN fields |->
                       [base_id |-> ReadValue(SubSeq(fields[i], 1, a)),
                        deviation_bits |-> SubSeq(fields[i], a + 1, a + d)]]
<1>1. /\ UintAt(bytes, at) = a /\ UintAt(bytes, at + 1) = d
      /\ UintAt(bytes, at + 2) = n /\ UintAt(bytes, at + 4) = PayloadLen(split)
      /\ PackedAt(bytes, at + 8, PayloadLen(split)) = PairBytes(split)
  BY DEF RecordReads, FieldReads
<1>2. SplitAt(bytes, at) = [NewSplit(a, d) EXCEPT !.pairs = pairs]
  BY <1>1 DEF SplitAt
<1>3. payload = PairBytes(split)
  BY <1>1 DEF RecordHeaderLen
<1>4. fields = [i \in 1..n |-> PairField(split, i)]
  <2>1. fields = Cut(PairBytes(split), 0, n, PairWidth(split))
    BY <1>1, <1>3 DEF PairWidth
  <2> HIDE DEF fields
  <2> QED BY <2>1, PairsAreCutBack
<1> HIDE DEF payload, fields
<1>5. split.pairs \in Seq(Pair) /\ split = [l_id |-> a, l_d |-> d, pairs |-> split.pairs]
  BY SplitFields
<1>6. ASSUME NEW i \in 1..n
      PROVE  [base_id |-> ReadValue(SubSeq(fields[i], 1, a)),
              deviation_bits |-> SubSeq(fields[i], a + 1, a + d)] = split.pairs[i]
  <2>1. fields[i] = PairField(split, i)
    BY <1>4
  <2>2. PairFits(split.pairs[i], split)
    BY DEF SplitFits
  <2>3. /\ ReadValue(SubSeq(fields[i], 1, a)) = split.pairs[i].base_id
        /\ SubSeq(fields[i], a + 1, a + d) = split.pairs[i].deviation_bits
    BY <2>1, <2>2, PairFieldHolds
  <2>4. split.pairs[i] \in Pair
    BY <1>5
  <2>5. split.pairs[i] = [base_id |-> split.pairs[i].base_id,
                          deviation_bits |-> split.pairs[i].deviation_bits]
    BY <2>4 DEF Pair
  <2> QED BY <2>3, <2>5
<1>7. pairs = split.pairs
  <2>1. DOMAIN fields = 1..n
    BY <1>4
  <2>2. split.pairs = [i \in 1..n |-> split.pairs[i]]
    BY <1>5
  <2> HIDE DEF a, d, n
  <2> QED BY <1>6, <2>1, <2>2
<1> HIDE DEF pairs, a, d
<1>8. [NewSplit(a, d) EXCEPT !.pairs = pairs] = [l_id |-> a, l_d |-> d, pairs |-> pairs]
  BY DEF NewSplit
<1> QED BY <1>2, <1>5, <1>7, <1>8

(* In a file that may be cut off, what a reader takes for the record is    *)
(* the whole of it.                                                        *)
LEMMA RecordIsWhole ==
  ASSUME NEW split \in Split, SplitFits(split),
         NEW file_bytes, NEW bytes, Len(bytes) \in Nat, Len(file_bytes) \in Nat,
         BeginningOf(bytes, file_bytes),
         NEW at \in Nat, LiesAt(file_bytes, at, SplitRecord(split)),
         HasUint(bytes, at + 4, 4), HasPacked(bytes, at + 8, UintAt(bytes, at + 4))
  PROVE  LiesAt(bytes, at, SplitRecord(split))
<1> DEFINE record == SplitRecord(split)
           m == PayloadLen(split)
<1>1. m \in Nat /\ Len(record) = 8 + m
  BY RecordParts
<1>2. FieldReads(file_bytes, at + 4, 4, m)
  <2>1. RecordHolds(file_bytes, at, split)
    BY RecordInFile
  <2> QED BY <2>1, RecordIsRead DEF RecordReads
<1> HIDE DEF m, record
<1>3. (at + 4) + 4 <= Len(bytes)
  BY DEF HasUint
<1>4. UintAt(bytes, at + 4) = m
  <2>1. (at + 4) + 1 \in 1..Len(bytes)
    BY <1>3
  <2>2. bytes[(at + 4) + 1] = file_bytes[(at + 4) + 1]
    BY <2>1 DEF BeginningOf
  <2> QED BY <1>2, <2>2 DEF FieldReads, UintAt
<1>5. (at + 8) + m <= Len(bytes)
  BY <1>4 DEF HasPacked
<1>6. at + Len(record) <= Len(bytes) /\ Len(record) \in Nat
  BY <1>1, <1>5
<1>7. LiesAt(file_bytes, at, record)
  BY DEF record
<1>8. LiesAt(bytes, at, record)
  BY <1>6, <1>7, LiesInBeginning
<1> QED BY <1>8 DEF record

----------------------------------------------------------------------------
(* The header.                                                             *)

(* The values of its fields.                                               *)
HeaderValues(made, order) ==
  <<"TCHY", 2, BitsPerSample, SamplesPerChunk, EndianTag(order), ChunksPerSplit,
    NewBaseThresholdPpm, MaxActiveDictionaryBytes, made.original_sample_count,
    Len(made.dictionary), Len(made.splits)>>

(* The fields as written.                                                  *)
HeaderPieces(made, order) ==
  <<Uint("TCHY", 4), Uint(2, 1),
    Uint(BitsPerSample, 1), Uint(SamplesPerChunk, 1), Uint(EndianTag(order), 1),
    Uint(ChunksPerSplit, 2), Uint(NewBaseThresholdPpm, 4),
    Uint(MaxActiveDictionaryBytes, 8),
    Uint(made.original_sample_count, 8),
    Uint(Len(made.dictionary), 4), Uint(Len(made.splits), 4)>>

(* What a field holds is one of the eleven cases.                          *)
LEMMA ElevenFields ==
  ASSUME NEW f \in 1..11
  PROVE  \/ f = 1 \/ f = 2 \/ f = 3 \/ f = 4 \/ f = 5 \/ f = 6
         \/ f = 7 \/ f = 8 \/ f = 9 \/ f = 10 \/ f = 11
OBVIOUS

(* Values, widths and pieces belong together.                              *)
LEMMA HeaderPiece ==
  ASSUME NEW made, Writable(made), NEW order, NEW f \in 1..11
  PROVE  /\ HeaderValues(made, order)[f] \in FieldValue
         /\ HeaderWidths[f] \in Nat \ {0}
         /\ HeaderPieces(made, order)[f] = Uint(HeaderValues(made, order)[f], HeaderWidths[f])
         /\ HeaderPieces(made, order)[f] \in Seq(FileByte)
         /\ Len(HeaderPieces(made, order)[f]) = HeaderWidths[f]
<1> DEFINE v == HeaderValues(made, order)
           w == HeaderWidths
           q == HeaderPieces(made, order)
<1>1. /\ made.original_sample_count \in Nat /\ Len(made.dictionary) \in Nat
      /\ Len(made.splits) \in Nat
  BY DEF Writable
<1>2. /\ BitsPerSample \in FieldValue /\ SamplesPerChunk \in FieldValue
      /\ ChunksPerSplit \in FieldValue /\ NewBaseThresholdPpm \in FieldValue
      /\ MaxActiveDictionaryBytes \in FieldValue
  BY ConfigAssumption DEF FieldValue
<1>3. "TCHY" \in FieldValue /\ 2 \in FieldValue /\ EndianTag(order) \in FieldValue
  BY DEF FieldValue, EndianTag
<1>4. /\ v[1] = "TCHY" /\ v[2] = 2 /\ v[3] = BitsPerSample /\ v[4] = SamplesPerChunk
      /\ v[5] = EndianTag(order) /\ v[6] = ChunksPerSplit /\ v[7] = NewBaseThresholdPpm
      /\ v[8] = MaxActiveDictionaryBytes /\ v[9] = made.original_sample_count
      /\ v[10] = Len(made.dictionary) /\ v[11] = Len(made.splits)
  BY DEF HeaderValues
<1>5. /\ w[1] = 4 /\ w[2] = 1 /\ w[3] = 1 /\ w[4] = 1 /\ w[5] = 1 /\ w[6] = 2
      /\ w[7] = 4 /\ w[8] = 8 /\ w[9] = 8 /\ w[10] = 4 /\ w[11] = 4
  BY DEF HeaderWidths
<1>6. /\ q[1] = Uint("TCHY", 4) /\ q[2] = Uint(2, 1)
      /\ q[3] = Uint(BitsPerSample, 1) /\ q[4] = Uint(SamplesPerChunk, 1)
      /\ q[5] = Uint(EndianTag(order), 1) /\ q[6] = Uint(ChunksPerSplit, 2)
      /\ q[7] = Uint(NewBaseThresholdPpm, 4) /\ q[8] = Uint(MaxActiveDictionaryBytes, 8)
      /\ q[9] = Uint(made.original_sample_count, 8)
      /\ q[10] = Uint(Len(made.dictionary), 4) /\ q[11] = Uint(Len(made.splits), 4)
  BY DEF HeaderPieces
<1> HIDE DEF v, w, q
<1>7. /\ made.original_sample_count \in FieldValue /\ Len(made.dictionary) \in FieldValue
      /\ Len(made.splits) \in FieldValue
  BY <1>1 DEF FieldValue
<1>8. v[f] \in FieldValue
  BY <1>2, <1>3, <1>4, <1>7, ElevenFields
<1>9. w[f] \in Nat \ {0}
  BY <1>5, ElevenFields
<1>10. q[f] = Uint(v[f], w[f])
  BY <1>4, <1>5, <1>6, ElevenFields, Zenon
<1>11. Uint(v[f], w[f]) \in Seq(FileByte) /\ Len(Uint(v[f], w[f])) = w[f]
  BY <1>8, <1>9, UintBytes DEF FieldValue
<1> QED BY <1>8, <1>9, <1>10, <1>11 DEF v, w, q

(* The fields lie where from_bytes and open read them.                     *)
LEMMA HeaderLies ==
  ASSUME NEW made, Writable(made), NEW order
  PROVE  /\ Header(made, order) \in Seq(FileByte) /\ Len(Header(made, order)) = 38
         /\ \A f \in 1..11 :
              LiesAt(Header(made, order), HeaderFields[f],
                     Uint(HeaderValues(made, order)[f], HeaderWidths[f]))
<1> DEFINE q == HeaderPieces(made, order)
           header == Header(made, order)
           x(f) == Uint(HeaderValues(made, order)[f], HeaderWidths[f])
<1>1. header = FlattenSeq(q)
  BY DEF Header, HeaderPieces
<1>2. q = [f \in 1..11 |-> q[f]] /\ Len(q) = 11
  BY DEF HeaderPieces
<1>3. \A f \in 1..11 : /\ q[f] = x(f) /\ q[f] \in Seq(FileByte) /\ Len(q[f]) = HeaderWidths[f]
  BY HeaderPiece
<1> HIDE DEF q, header, x
<1>4. q \in Seq(Seq(FileByte))
  <2>1. q \in [1..11 -> Seq(FileByte)] /\ 11 \in Nat
    BY <1>2, <1>3
  <2> QED BY <2>1, FunctionIsSequence
<1>5. header \in Seq(FileByte) /\ \E starts : LaysOut(header, q, starts)
  BY <1>1, <1>4, FlatPieces
<1>6. PICK starts : LaysOut(header, q, starts)
  BY <1>5
<1>7. \A i \in 1..11 : LiesAt(header, starts[i], q[i]) /\ starts[i + 1] = starts[i] + Len(q[i])
  <2>1. \A i \in 1..Len(q) :
          LiesAt(header, starts[i], q[i]) /\ starts[i + 1] = starts[i] + Len(q[i])
    BY <1>6, PiecesLie
  <2> QED BY <1>2, <2>1
<1>8. starts[1] = 0 /\ Len(header) = starts[12]
  BY <1>2, <1>6 DEF LaysOut, Placed
<1>9. /\ Len(q[1]) = 4 /\ Len(q[2]) = 1 /\ Len(q[3]) = 1 /\ Len(q[4]) = 1 /\ Len(q[5]) = 1
      /\ Len(q[6]) = 2 /\ Len(q[7]) = 4 /\ Len(q[8]) = 8 /\ Len(q[9]) = 8 /\ Len(q[10]) = 4
      /\ Len(q[11]) = 4
  BY <1>3 DEF HeaderWidths
<1>10. /\ starts[2] = starts[1] + Len(q[1]) /\ starts[3] = starts[2] + Len(q[2])
       /\ starts[4] = starts[3] + Len(q[3]) /\ starts[5] = starts[4] + Len(q[4])
       /\ starts[6] = starts[5] + Len(q[5]) /\ starts[7] = starts[6] + Len(q[6])
       /\ starts[8] = starts[7] + Len(q[7]) /\ starts[9] = starts[8] + Len(q[8])
       /\ starts[10] = starts[9] + Len(q[9]) /\ starts[11] = starts[10] + Len(q[10])
       /\ starts[12] = starts[11] + Len(q[11])
  BY <1>7
<1>11. /\ starts[1] = 0 /\ starts[2] = 4 /\ starts[3] = 5 /\ starts[4] = 6 /\ starts[5] = 7
       /\ starts[6] = 8 /\ starts[7] = 10 /\ starts[8] = 14 /\ starts[9] = 22
       /\ starts[10] = 30 /\ starts[11] = 34 /\ starts[12] = 38
  BY <1>8, <1>9, <1>10
<1>12. ASSUME NEW f \in 1..11 PROVE starts[f] = HeaderFields[f]
  <2>1. /\ HeaderFields[1] = 0 /\ HeaderFields[2] = 4 /\ HeaderFields[3] = 5
        /\ HeaderFields[4] = 6 /\ HeaderFields[5] = 7 /\ HeaderFields[6] = 8
        /\ HeaderFields[7] = 10 /\ HeaderFields[8] = 14 /\ HeaderFields[9] = 22
        /\ HeaderFields[10] = 30 /\ HeaderFields[11] = 34
    BY DEF HeaderFields
  <2> QED BY ONLY <1>11, <2>1, ElevenFields, f \in 1..11
<1>13. \A f \in 1..11 : LiesAt(header, HeaderFields[f], x(f))
  BY <1>3, <1>7, <1>12
<1> QED BY <1>5, <1>8, <1>11, <1>13 DEF header, x

----------------------------------------------------------------------------
(* The index and the dictionary.                                           *)

(* Two sums that start and grow alike are alike.                           *)
LEMMA SumsAgree ==
  ASSUME NEW n \in Nat, NEW f, NEW g, NEW w, f[1] = g[1],
         \A s \in 1..n : f[s + 1] = f[s] + w[s] /\ g[s + 1] = g[s] + w[s]
  PROVE  \A s \in 1..(n + 1) : f[s] = g[s]
<1> DEFINE Bad == {s \in Nat : s \in 1..(n + 1) /\ f[s] # g[s]}
<1>1. Bad = {}
  <2>1. SUFFICES ASSUME Bad # {} PROVE FALSE
    OBVIOUS
  <2>2. PICK s \in Bad : \A j \in Bad : s <= j
    BY <2>1, LeastElement
  <2>3. s \in Nat /\ s \in 1..(n + 1) /\ f[s] # g[s] /\ s # 1
    BY <2>2
  <2>4. s - 1 \in Nat /\ s - 1 \in 1..n /\ s - 1 \in 1..(n + 1) /\ (s - 1) + 1 = s
    BY <2>3
  <2>5. s - 1 \notin Bad
    BY <2>2, <2>3
  <2>6. f[s - 1] = g[s - 1]
    BY <2>4, <2>5
  <2>7. f[(s - 1) + 1] = g[(s - 1) + 1]
    BY <2>4, <2>6
  <2> QED BY <2>3, <2>4, <2>7
<1>2. ASSUME NEW s \in 1..(n + 1) PROVE f[s] = g[s]
  <2>1. s \in Nat
    OBVIOUS
  <2> QED BY <1>1, <2>1
<1> QED BY <1>2

(* Where each of the things in q begins, if the first begins at `first`.   *)
Adds(sums, q, first) ==
  /\ sums \in [1..(Len(q) + 1) -> Nat]
  /\ sums[1] = first
  /\ \A s \in 1..Len(q) : sums[s + 1] = sums[s] + Len(q[s])

(* The chunks before each split.                                           *)
PairsOf(made) == [s \in 1..Len(made.splits) |-> made.splits[s].pairs]

(* The numbers that to_bytes writes as chunk_start.                        *)
StartsAre(f, made, n) ==
  f = [t \in 1..n |-> IF t = 1 THEN 0 ELSE f[t - 1] + Len(made.splits[t - 1].pairs)]

(* chunk_start is the number of chunks before the split.                   *)
LEMMA ChunkStartIsSum ==
  ASSUME NEW made, Len(made.splits) \in Nat, NEW sums, Adds(sums, PairsOf(made), 0),
         NEW s \in 1..Len(made.splits)
  PROVE  ChunkStart(made, s) = sums[s] /\ sums[s] \in Nat
<1> DEFINE n == Len(made.splits)
           f == CHOOSE g : StartsAre(g, made, s)
           w == [t \in 1..n |-> Len(made.splits[t].pairs)]
<1>1. ChunkStart(made, s) = f[s]
  BY DEF ChunkStart, StartsAre
<1>2. n \in Nat /\ Len(PairsOf(made)) = n /\ \A t \in 1..n : Len(PairsOf(made)[t]) = w[t]
  BY DEF PairsOf
<1>3. s \in 1..n /\ s \in Nat \ {0} /\ s <= n
  BY <1>2
<1>4. /\ sums \in [1..(n + 1) -> Nat] /\ sums[1] = 0
      /\ \A t \in 1..n : sums[t + 1] = sums[t] + w[t]
  BY <1>2 DEF Adds
<1>5. \A t \in 1..n : Len(made.splits[t].pairs) = w[t]
  OBVIOUS
<1> HIDE DEF n, w
<1>6. StartsAre([t \in 1..s |-> sums[t]], made, s)
  <2> DEFINE g == [t \in 1..s |-> sums[t]]
  <2>1. ASSUME NEW t \in 1..s
        PROVE  g[t] = IF t = 1 THEN 0 ELSE g[t - 1] + Len(made.splits[t - 1].pairs)
    <3>1. CASE t = 1
      BY <1>4, <3>1
    <3>2. CASE t # 1
      <4>1. t - 1 \in 1..s /\ t - 1 \in 1..n /\ (t - 1) + 1 = t
        BY <1>2, <1>3, <3>2
      <4>2. sums[t] = sums[t - 1] + w[t - 1]
        BY <1>4, <4>1
      <4> QED BY <1>5, <3>2, <4>1, <4>2
    <3> QED BY <3>1, <3>2
  <2>2. g = [t \in 1..s |-> g[t]]
    OBVIOUS
  <2> HIDE DEF g
  <2>3. g = [t \in 1..s |-> IF t = 1 THEN 0 ELSE g[t - 1] + Len(made.splits[t - 1].pairs)]
    BY <2>1, <2>2
  <2> QED BY <2>3 DEF StartsAre, g
<1>7. StartsAre(f, made, s)
  BY <1>6
<1> HIDE DEF f
<1>8. \A t \in 1..s : f[t] = IF t = 1 THEN 0 ELSE f[t - 1] + Len(made.splits[t - 1].pairs)
  BY <1>7 DEF StartsAre
<1>9. f[1] = sums[1]
  BY <1>3, <1>4, <1>8
<1> DEFINE m == s - 1
<1>10. m \in Nat /\ m + 1 = s
  BY <1>3
<1> HIDE DEF m
<1>11. ASSUME NEW t \in 1..m PROVE f[t + 1] = f[t] + w[t] /\ sums[t + 1] = sums[t] + w[t]
  <2>1. t \in 1..n /\ t + 1 \in 1..s /\ t + 1 # 1 /\ (t + 1) - 1 = t
    BY <1>2, <1>3, <1>10
  <2> QED BY <1>4, <1>5, <1>8, <2>1
<1>12. \A t \in 1..(m + 1) : f[t] = sums[t]
  BY <1>9, <1>10, <1>11, SumsAgree
<1>13. s \in 1..(m + 1)
  BY <1>3, <1>10
<1>14. sums[s] \in Nat
  BY <1>2, <1>3, <1>4
<1> QED BY <1>1, <1>12, <1>13, <1>14

(* The numbers that to_bytes writes as split_offset.                       *)
OffsetsAre(f, made, records) ==
  f = [s \in 1..Len(records) |->
         IF s = 1 THEN HeaderLen + IndexEntryLen * Len(records)
                         + ChunkByteLen * Len(made.dictionary)
         ELSE f[s - 1] + Len(records[s - 1])]

(* split_offset is where the record begins.                                *)
LEMMA OffsetIsSum ==
  ASSUME NEW made, NEW records, Len(records) \in Nat, NEW sums,
         Adds(sums, records, HeaderLen + IndexEntryLen * Len(records)
                               + ChunkByteLen * Len(made.dictionary)),
         NEW f, f = CHOOSE g : OffsetsAre(g, made, records)
  PROVE  \A s \in 1..Len(records) : f[s] = sums[s]
<1> DEFINE n == Len(records)
           w == [t \in 1..n |-> Len(records[t])]
           first == HeaderLen + IndexEntryLen * Len(records) + ChunkByteLen * Len(made.dictionary)
<1>1. n \in Nat /\ \A t \in 1..n : Len(records[t]) = w[t]
  OBVIOUS
<1>2. /\ sums \in [1..(n + 1) -> Nat] /\ sums[1] = first
      /\ \A t \in 1..n : sums[t + 1] = sums[t] + w[t]
  BY DEF Adds
<1>3. \A g : OffsetsAre(g, made, records) <=>
               g = [s \in 1..n |-> IF s = 1 THEN first ELSE g[s - 1] + Len(records[s - 1])]
  BY DEF OffsetsAre
<1> HIDE DEF n, w, first
<1>4. OffsetsAre([t \in 1..n |-> sums[t]], made, records)
  <2> DEFINE g == [t \in 1..n |-> sums[t]]
  <2>1. ASSUME NEW t \in 1..n
        PROVE  g[t] = IF t = 1 THEN first ELSE g[t - 1] + Len(records[t - 1])
    <3>1. CASE t = 1
      BY <1>2, <3>1
    <3>2. CASE t # 1
      <4>1. t - 1 \in 1..n /\ (t - 1) + 1 = t
        BY <1>1, <3>2
      <4>2. sums[t] = sums[t - 1] + w[t - 1]
        BY <1>2, <4>1
      <4> QED BY <1>1, <3>2, <4>1, <4>2
    <3> QED BY <3>1, <3>2
  <2>2. g = [t \in 1..n |-> g[t]]
    OBVIOUS
  <2> HIDE DEF g
  <2>3. g = [t \in 1..n |-> IF t = 1 THEN first ELSE g[t - 1] + Len(records[t - 1])]
    BY <2>1, <2>2
  <2> QED BY <1>3, <2>3 DEF g
<1>5. OffsetsAre(f, made, records)
  BY <1>4
<1>6. f = [s \in 1..n |-> IF s = 1 THEN first ELSE f[s - 1] + Len(records[s - 1])]
  BY <1>3, <1>5
<1>7. \A s \in 1..n : f[s] = IF s = 1 THEN first ELSE f[s - 1] + Len(records[s - 1])
  BY <1>6
<1>8. CASE n = 0
  BY <1>8 DEF n
<1>9. CASE n # 0
  <2> DEFINE m == n - 1
  <2>1. m \in Nat /\ m + 1 = n
    BY <1>1, <1>9
  <2> HIDE DEF m
  <2>2. f[1] = sums[1]
    BY <1>1, <1>2, <1>7, <1>9
  <2>3. ASSUME NEW t \in 1..m PROVE f[t + 1] = f[t] + w[t] /\ sums[t + 1] = sums[t] + w[t]
    <3>1. t \in 1..n /\ t + 1 \in 1..n /\ t + 1 # 1 /\ (t + 1) - 1 = t
      BY <1>1, <2>1
    <3>2. f[t + 1] = f[t] + Len(records[t])
      BY <1>7, <3>1
    <3> QED BY <1>1, <1>2, <3>1, <3>2
  <2>4. \A t \in 1..(m + 1) : f[t] = sums[t]
    BY ONLY <2>1, <2>2, <2>3, SumsAgree
  <2> QED BY <2>1, <2>4 DEF n
<1> QED BY <1>8, <1>9

----------------------------------------------------------------------------
(* Packed bytes hold bits only.                                            *)
LEMMA PackedHoldsBits ==
  ASSUME NEW bits \in Seq(Bit), NEW m \in Nat, Len(bits) = 8 * m
  PROVE  Packed(bits) \in Seq([bits : Seq(Bit)]) /\ Len(Packed(bits)) = m
<1>1. Len(bits) \div 8 = m
  OBVIOUS
<1>2. ASSUME NEW k \in 1..m PROVE Packed(bits)[k] \in [bits : Seq(Bit)]
  <2>1. Packed(bits)[k] = [bits |-> SubSeq(bits, 8 * k - 7, 8 * k)]
    BY <1>1 DEF Packed
  <2> DEFINE a == 8 * k - 7
             b == 8 * k
  <2>2. a \in 1..Len(bits) /\ b \in 1..Len(bits) /\ a <= b
    OBVIOUS
  <2> HIDE DEF a, b
  <2>3. SubSeq(bits, a, b) \in Seq(Bit)
    BY <2>2, SubSeqProperties
  <2> QED BY <2>1, <2>3 DEF a, b
<1>3. Packed(bits) = [k \in 1..m |-> Packed(bits)[k]]
  BY <1>1 DEF Packed
<1>4. Packed(bits) \in [1..m -> [bits : Seq(Bit)]]
  BY <1>2, <1>3
<1> QED BY <1>4, FunctionIsSequence

(* They are read where they lie.                                           *)
LEMMA PackedIsRead ==
  ASSUME NEW bits \in Seq(Bit), NEW m \in Nat, Len(bits) = 8 * m,
         NEW bytes, NEW at \in Nat, LiesAt(bytes, at, Packed(bits))
  PROVE  HasPacked(bytes, at, m) /\ PackedAt(bytes, at, m) = bits
<1> DEFINE e == Packed(bits)
<1>1. e \in Seq([bits : Seq(Bit)]) /\ Len(e) = m
  BY PackedHoldsBits
<1>2. Join([k \in 1..m |-> e[k].bits], 8) = bits
  BY PackedBytes
<1> HIDE DEF e
<1>3. at + m <= Len(bytes) /\ \A k \in 1..m : bytes[at + k] = e[k]
  BY <1>1 DEF LiesAt, e
<1>4. HasPacked(bytes, at, m)
  <2>1. ASSUME NEW k \in 1..m PROVE "bits" \in DOMAIN bytes[at + k]
    <3>1. e[k] \in [bits : Seq(Bit)]
      BY <1>1, LenProperties
    <3>2. "bits" \in DOMAIN e[k]
      BY <3>1
    <3> QED BY <1>3, <3>2
  <2> QED BY <1>3, <2>1 DEF HasPacked
<1>5. PackedAt(bytes, at, m) = bits
  <2>1. [k \in 1..m |-> bytes[at + k].bits] = [k \in 1..m |-> e[k].bits]
    BY <1>3
  <2> QED BY <1>2, <2>1, Zenon DEF PackedAt
<1> QED BY <1>4, <1>5

(* A base takes as many bytes as to_bytes gives it, and is read without    *)
(* the padding.                                                            *)
LEMMA PaddedBase ==
  ASSUME NEW base \in PackedBase
  PROVE  /\ ChunkByteLen \in Nat /\ PadToByte(base) \in Seq(Bit)
         /\ Len(PadToByte(base)) = 8 * ChunkByteLen
         /\ SubSeq(PadToByte(base), 1, ChunkBitLen) = base
<1>1. ChunkBitLen \in Nat \ {0}
  BY Geometry
<1>2. base \in Seq(Bit) /\ Len(base) = ChunkBitLen
  BY <1>1, FunctionIsSequence DEF PackedBase, BitString
<1> DEFINE padded == PadToByte(base)
<1>3. /\ padded \in Seq(Bit)
      /\ \E count \in Nat : Len(padded) = 8 * count /\ 8 * count < Len(base) + 8
      /\ Len(base) <= Len(padded)
      /\ \A a \in 1..Len(base) : padded[a] = base[a]
  BY <1>2, PadToByteLen
<1>4. PICK count \in Nat : Len(padded) = 8 * count /\ 8 * count < Len(base) + 8
  BY <1>3
<1> HIDE DEF padded
<1>5. ChunkByteLen = count
  <2>1. ChunkBitLen <= 8 * count /\ 8 * count < ChunkBitLen + 8
    BY <1>2, <1>3, <1>4
  <2> QED BY <1>1, <2>1 DEF ChunkByteLen, CeilDiv
<1>6. SubSeq(padded, 1, ChunkBitLen) = base
  <2>1. /\ SubSeq(padded, 1, ChunkBitLen) \in Seq(Bit)
        /\ Len(SubSeq(padded, 1, ChunkBitLen)) = ChunkBitLen
        /\ \A i \in 1..ChunkBitLen : SubSeq(padded, 1, ChunkBitLen)[i] = padded[i]
    BY <1>1, <1>2, <1>3, PrefixPlaces
  <2> QED BY <1>2, <1>3, <2>1, SeqEqual
<1> QED BY <1>3, <1>4, <1>5, <1>6 DEF padded

(* What to_bytes writes for the bases.                                     *)
Bases(made) == [i \in 1..Len(made.dictionary) |-> Packed(PadToByte(made.dictionary[i]))]

(* The bytes of the dictionary.                                            *)
DictionaryBytes(made) == FlattenSeq(Bases(made))

(* They lie side by side, and there is nothing else among them.            *)
LEMMA BasesLie ==
  ASSUME NEW made, Writable(made)
  PROVE  /\ DictionaryBytes(made) \in Seq([bits : Seq(Bit)])
         /\ Len(DictionaryBytes(made)) = Len(made.dictionary) * ChunkByteLen
         /\ \A i \in 1..Len(made.dictionary) :
              LiesAt(DictionaryBytes(made), (i - 1) * ChunkByteLen,
                     Packed(PadToByte(made.dictionary[i])))
<1> DEFINE q == Bases(made)
           n == Len(made.dictionary)
           dictionary == made.dictionary
<1>1. dictionary \in Seq(PackedBase) /\ n \in Nat
  BY DEF Writable
<1>2. q = [i \in 1..n |-> Packed(PadToByte(dictionary[i]))]
  BY DEF Bases
<1> HIDE DEF q
<1>3. ASSUME NEW i \in 1..n
      PROVE  /\ q[i] = Packed(PadToByte(dictionary[i]))
             /\ q[i] \in Seq([bits : Seq(Bit)]) /\ Len(q[i]) = ChunkByteLen
  <2>1. dictionary[i] \in PackedBase
    BY <1>1
  <2> QED BY <1>2, <2>1, PaddedBase, PackedHoldsBits
<1>4. q \in Seq(Seq([bits : Seq(Bit)])) /\ Len(q) = n
  <2>1. q = [i \in 1..n |-> q[i]]
    BY <1>2
  <2>2. q \in [1..n -> Seq([bits : Seq(Bit)])]
    BY <1>3, <2>1
  <2> QED BY <1>1, <2>2, FunctionIsSequence
<1>5. ChunkByteLen \in Nat
  BY Geometry DEF ChunkByteLen, CeilDiv
<1> HIDE DEF n
<1>6. /\ FlattenSeq(q) \in Seq([bits : Seq(Bit)])
      /\ Len(FlattenSeq(q)) = Len(q) * ChunkByteLen
      /\ \A i \in 1..Len(q) : LiesAt(FlattenSeq(q), (i - 1) * ChunkByteLen, q[i])
  BY <1>3, <1>4, <1>5, EvenPieces
<1>7. \A i \in 1..n : LiesAt(FlattenSeq(q), (i - 1) * ChunkByteLen,
                             Packed(PadToByte(dictionary[i])))
  BY <1>3, <1>4, <1>6
<1> QED BY <1>4, <1>6, <1>7 DEF DictionaryBytes, q, n

(* The four fields of an index entry.                                      *)
EntryHolds(bytes, at, start, count, offset, len) ==
  /\ LiesAt(bytes, at, Uint(start, 8))
  /\ LiesAt(bytes, at + 8, Uint(count, 4))
  /\ LiesAt(bytes, at + 12, Uint(offset, 8))
  /\ LiesAt(bytes, at + 20, Uint(len, 4))

(* They take 24 bytes.                                                     *)
LEMMA EntryParts ==
  ASSUME NEW start \in Nat, NEW count \in Nat, NEW offset \in Nat, NEW len \in Nat, NEW entry,
         entry = FlattenSeq(<<Uint(start, 8), Uint(count, 4), Uint(offset, 8), Uint(len, 4)>>)
  PROVE  /\ entry \in Seq(FileByte) /\ Len(entry) = 24
         /\ EntryHolds(entry, 0, start, count, offset, len)
<1> DEFINE a == Uint(start, 8)
           b == Uint(count, 4)
           c == Uint(offset, 8)
           d == Uint(len, 4)
           q == <<a, b, c, d>>
<1>1. /\ a \in Seq(FileByte) /\ Len(a) = 8 /\ b \in Seq(FileByte) /\ Len(b) = 4
      /\ c \in Seq(FileByte) /\ Len(c) = 8 /\ d \in Seq(FileByte) /\ Len(d) = 4
  <2>1. a \in Seq(FileByte) /\ Len(a) = 8
    BY NumberBytes
  <2>2. b \in Seq(FileByte) /\ Len(b) = 4
    BY NumberBytes
  <2>3. c \in Seq(FileByte) /\ Len(c) = 8
    BY NumberBytes
  <2>4. d \in Seq(FileByte) /\ Len(d) = 4
    BY NumberBytes
  <2> QED BY ONLY <2>1, <2>2, <2>3, <2>4
<1>2. entry = FlattenSeq(q)
  OBVIOUS
<1> HIDE DEF a, b, c, d
<1>3. q \in Seq(Seq(FileByte)) /\ Len(q) = 4 /\ q[1] = a /\ q[2] = b /\ q[3] = c /\ q[4] = d
  BY <1>1
<1> HIDE DEF q
<1>4. entry \in Seq(FileByte) /\ \E starts : LaysOut(entry, q, starts)
  BY <1>2, <1>3, FlatPieces
<1>5. PICK starts : LaysOut(entry, q, starts)
  BY <1>4
<1>6. \A i \in 1..4 : LiesAt(entry, starts[i], q[i]) /\ starts[i + 1] = starts[i] + Len(q[i])
  <2>1. \A i \in 1..Len(q) :
          LiesAt(entry, starts[i], q[i]) /\ starts[i + 1] = starts[i] + Len(q[i])
    BY <1>5, PiecesLie
  <2> QED BY <1>3, <2>1
<1>7. starts[1] = 0 /\ Len(entry) = starts[5]
  BY <1>3, <1>5 DEF LaysOut, Placed
<1>8. /\ starts[2] = starts[1] + Len(q[1]) /\ starts[3] = starts[2] + Len(q[2])
      /\ starts[4] = starts[3] + Len(q[3]) /\ starts[5] = starts[4] + Len(q[4])
  BY <1>6
<1>9. starts[2] = 8 /\ starts[3] = 12 /\ starts[4] = 20 /\ starts[5] = 24
  BY <1>1, <1>3, <1>7, <1>8
<1>10. /\ LiesAt(entry, 0, a) /\ LiesAt(entry, 8, b) /\ LiesAt(entry, 12, c)
       /\ LiesAt(entry, 20, d)
  <2>1. /\ LiesAt(entry, starts[1], q[1]) /\ LiesAt(entry, starts[2], q[2])
        /\ LiesAt(entry, starts[3], q[3]) /\ LiesAt(entry, starts[4], q[4])
    BY <1>6
  <2> QED BY <1>3, <1>7, <1>9, <2>1
<1>11. 0 + 8 = 8 /\ 0 + 12 = 12 /\ 0 + 20 = 20
  OBVIOUS
<1> QED BY <1>4, <1>7, <1>9, <1>10, <1>11 DEF EntryHolds, a, b, c, d

(* They lie wherever the entry does.                                       *)
LEMMA EntryInFile ==
  ASSUME NEW start \in Nat, NEW count \in Nat, NEW offset \in Nat, NEW len \in Nat, NEW entry,
         NEW place \in Nat, Len(entry) \in Nat,
         EntryHolds(entry, place, start, count, offset, len),
         NEW bytes, Len(bytes) \in Nat, NEW at \in Nat, LiesAt(bytes, at, entry)
  PROVE  EntryHolds(bytes, at + place, start, count, offset, len)
<1> DEFINE a == Uint(start, 8)
           b == Uint(count, 4)
           c == Uint(offset, 8)
           d == Uint(len, 4)
<1>1. Len(a) \in Nat /\ Len(b) \in Nat /\ Len(c) \in Nat /\ Len(d) \in Nat
  <2>1. Len(a) = 8 /\ Len(b) = 4
    BY NumberBytes
  <2>2. Len(c) = 8 /\ Len(d) = 4
    BY NumberBytes
  <2> QED BY ONLY <2>1, <2>2
<1>2. /\ LiesAt(entry, place, a) /\ LiesAt(entry, place + 8, b)
      /\ LiesAt(entry, place + 12, c) /\ LiesAt(entry, place + 20, d)
  BY DEF EntryHolds
<1> HIDE DEF a, b, c, d
<1>3. /\ place \in Nat /\ place + 8 \in Nat /\ place + 12 \in Nat /\ place + 20 \in Nat
      /\ at \in Nat /\ Len(bytes) \in Nat /\ Len(entry) \in Nat /\ LiesAt(bytes, at, entry)
  OBVIOUS
<1>4. LiesAt(bytes, at + place, a)
  BY ONLY <1>1, <1>2, <1>3, LiesInside
<1>5. LiesAt(bytes, at + (place + 8), b)
  BY ONLY <1>1, <1>2, <1>3, LiesInside
<1>6. LiesAt(bytes, at + (place + 12), c)
  BY ONLY <1>1, <1>2, <1>3, LiesInside
<1>7. LiesAt(bytes, at + (place + 20), d)
  BY ONLY <1>1, <1>2, <1>3, LiesInside
<1>8. /\ at + (place + 8) = (at + place) + 8 /\ at + (place + 12) = (at + place) + 12
      /\ at + (place + 20) = (at + place) + 20
  OBVIOUS
<1> QED BY <1>4, <1>5, <1>6, <1>7, <1>8 DEF EntryHolds, a, b, c, d

----------------------------------------------------------------------------
(* The file.                                                               *)

(* Where things lie one behind the other there are such sums.              *)
LEMMA SumsExist ==
  ASSUME NEW S, NEW q \in Seq(Seq(S)), NEW starts, LaysOut(FlattenSeq(q), q, starts),
         NEW first \in Nat
  PROVE  Adds([s \in 1..(Len(q) + 1) |-> first + starts[s]], q, first)
<1> DEFINE n == Len(q)
           sums == [s \in 1..(n + 1) |-> first + starts[s]]
<1>1. /\ n \in Nat /\ starts \in [1..(n + 1) -> Nat] /\ starts[1] = 0
      /\ \A s \in 1..n : starts[s + 1] = starts[s] + Len(q[s]) /\ Len(q[s]) \in Nat
  BY DEF LaysOut, Placed
<1> HIDE DEF n
<1>2. sums \in [1..(n + 1) -> Nat] /\ sums[1] = first
  BY <1>1
<1>3. ASSUME NEW s \in 1..n PROVE sums[s + 1] = sums[s] + Len(q[s])
  <2>1. s \in 1..(n + 1) /\ s + 1 \in 1..(n + 1)
    BY <1>1
  <2>2. starts[s] \in Nat /\ starts[s + 1] = starts[s] + Len(q[s]) /\ Len(q[s]) \in Nat
    BY <1>1, <2>1
  <2>3. sums[s] = first + starts[s] /\ sums[s + 1] = first + starts[s + 1]
    BY <2>1
  <2> HIDE DEF sums
  <2> QED BY <2>2, <2>3
<1> HIDE DEF sums
<1> QED BY <1>2, <1>3 DEF Adds, n, sums

(* The split records.                                                      *)
Records(made) == [s \in 1..Len(made.splits) |-> SplitRecord(made.splits[s])]

(* Where the first one begins.                                             *)
FirstRecord(made) ==
  HeaderLen + IndexEntryLen * Len(made.splits) + ChunkByteLen * Len(made.dictionary)

(* They are sequences of bytes.                                            *)
LEMMA RecordsType ==
  ASSUME NEW made, Writable(made)
  PROVE  /\ Records(made) \in Seq(Seq(FileByte)) /\ Len(Records(made)) = Len(made.splits)
         /\ \A s \in 1..Len(made.splits) : /\ Records(made)[s] = SplitRecord(made.splits[s])
                                           /\ Len(Records(made)[s]) \in Nat
                                           /\ Len(made.splits[s].pairs) \in Nat
<1> DEFINE q == Records(made)
           n == Len(made.splits)
<1>1. made.splits \in Seq(Split) /\ n \in Nat
  BY DEF Writable
<1>2. q = [s \in 1..n |-> SplitRecord(made.splits[s])]
  BY DEF Records
<1> HIDE DEF q
<1>3. ASSUME NEW s \in 1..n
      PROVE  /\ q[s] = SplitRecord(made.splits[s]) /\ q[s] \in Seq(FileByte)
             /\ Len(q[s]) \in Nat /\ Len(made.splits[s].pairs) \in Nat
  <2>1. made.splits[s] \in Split /\ SplitFits(made.splits[s])
    BY <1>1 DEF Writable
  <2> QED BY <1>2, <2>1, RecordParts, SplitFields
<1>4. q = [s \in 1..n |-> q[s]]
  BY <1>2
<1>5. q \in [1..n -> Seq(FileByte)]
  BY <1>3, <1>4
<1>6. q \in Seq(Seq(FileByte)) /\ Len(q) = n
  BY <1>1, <1>5, FunctionIsSequence
<1> QED BY <1>3, <1>6 DEF q, n

(* The index.                                                              *)
LEMMA IndexLies ==
  ASSUME NEW made, Writable(made), NEW sums, Adds(sums, PairsOf(made), 0),
         NEW offs, Adds(offs, Records(made), FirstRecord(made))
  PROVE  /\ SplitIndex(made, Records(made)) \in Seq(FileByte)
         /\ Len(SplitIndex(made, Records(made))) = Len(made.splits) * 24
         /\ \A s \in 1..Len(made.splits) :
              EntryHolds(SplitIndex(made, Records(made)), (s - 1) * 24, sums[s],
                         Len(made.splits[s].pairs), offs[s], Len(Records(made)[s]))
<1> DEFINE records == Records(made)
           n == Len(made.splits)
           f == CHOOSE g : OffsetsAre(g, made, records)
           index == SplitIndex(made, records)
           q == [s \in 1..Len(records) |->
                  FlattenSeq(<<Uint(ChunkStart(made, s), 8), Uint(Len(made.splits[s].pairs), 4),
                               Uint(f[s], 8), Uint(Len(records[s]), 4)>>)]
<1>1. /\ n \in Nat /\ Len(records) = n
      /\ \A s \in 1..n : Len(records[s]) \in Nat /\ Len(made.splits[s].pairs) \in Nat
  <2>1. made.splits \in Seq(Split)
    BY DEF Writable
  <2> QED BY <2>1, RecordsType
<1>2. index = FlattenSeq(q)
  BY DEF SplitIndex, OffsetsAre
<1>3. \A s \in 1..n : f[s] = offs[s]
  <2>1. Len(records) \in Nat
    BY <1>1
  <2>2. Adds(offs, records, HeaderLen + IndexEntryLen * Len(records)
                              + ChunkByteLen * Len(made.dictionary))
    BY <1>1 DEF FirstRecord
  <2> HIDE DEF f, records
  <2>3. \A s \in 1..Len(records) : f[s] = offs[s]
    BY <2>1, <2>2, OffsetIsSum DEF f
  <2> QED BY <1>1, <2>3
<1>4. \A s \in 1..n : ChunkStart(made, s) = sums[s] /\ sums[s] \in Nat
  BY <1>1, ChunkStartIsSum
<1>5. \A s \in 1..n : offs[s] \in Nat
  <2>1. offs \in [1..(n + 1) -> Nat] /\ n \in Nat
    BY <1>1 DEF Adds
  <2> HIDE DEF n
  <2> QED BY ONLY <2>1
<1> HIDE DEF f, records, index
<1>6. /\ q = [s \in 1..n |-> q[s]]
      /\ \A s \in 1..n :
           q[s] = FlattenSeq(<<Uint(ChunkStart(made, s), 8), Uint(Len(made.splits[s].pairs), 4),
                               Uint(f[s], 8), Uint(Len(records[s]), 4)>>)
  BY <1>1
<1> HIDE DEF q
<1>7. ASSUME NEW s \in 1..n
      PROVE  /\ q[s] \in Seq(FileByte) /\ Len(q[s]) = 24
             /\ EntryHolds(q[s], 0, sums[s], Len(made.splits[s].pairs), offs[s], Len(records[s]))
  <2>1. q[s] = FlattenSeq(<<Uint(sums[s], 8), Uint(Len(made.splits[s].pairs), 4),
                            Uint(offs[s], 8), Uint(Len(records[s]), 4)>>)
    BY <1>3, <1>4, <1>6
  <2>2. /\ sums[s] \in Nat /\ Len(made.splits[s].pairs) \in Nat /\ offs[s] \in Nat
        /\ Len(records[s]) \in Nat
    BY <1>1, <1>4, <1>5
  <2> QED BY ONLY <2>1, <2>2, EntryParts
<1>8. q \in Seq(Seq(FileByte)) /\ Len(q) = n
  <2>1. q \in [1..n -> Seq(FileByte)]
    BY <1>6, <1>7
  <2> QED BY <1>1, <2>1, FunctionIsSequence
<1> DEFINE w == 24
<1>9. w \in Nat /\ \A s \in 1..Len(q) : Len(q[s]) = w
  BY <1>7, <1>8
<1> HIDE DEF w
<1>10. /\ index \in Seq(FileByte) /\ Len(index) = Len(q) * w
       /\ \A s \in 1..Len(q) : LiesAt(index, (s - 1) * w, q[s])
  BY <1>2, <1>8, <1>9, EvenPieces
<1>11. ASSUME NEW s \in 1..n
       PROVE  EntryHolds(index, (s - 1) * 24, sums[s], Len(made.splits[s].pairs), offs[s],
                         Len(records[s]))
  <2> DEFINE at == (s - 1) * w
             entry == q[s]
             count == Len(made.splits[s].pairs)
             len == Len(records[s])
             start == sums[s]
             offset == offs[s]
  <2>1. at \in Nat /\ at + 0 = at
    <3>1. s \in Nat \ {0}
      OBVIOUS
    <3>2. (s - 1) * w \in Nat
      BY <1>9, <3>1, StartOfNext
    <3> QED BY <3>2
  <2>2. LiesAt(index, at, entry) /\ Len(index) \in Nat /\ Len(entry) \in Nat
    BY <1>7, <1>8, <1>10
  <2>3. EntryHolds(entry, 0, start, count, offset, len)
    BY <1>7
  <2>4. start \in Nat /\ count \in Nat /\ offset \in Nat /\ len \in Nat /\ 0 \in Nat
    BY <1>1, <1>4, <1>5
  <2> HIDE DEF at, entry, count, len, start, offset
  <2>5. EntryHolds(index, at + 0, start, count, offset, len)
    BY ONLY <2>1, <2>2, <2>3, <2>4, EntryInFile
  <2> QED BY <2>1, <2>5 DEF at, count, len, start, offset, w
<1> QED BY <1>8, <1>10, <1>11 DEF index, records, n, w

(* What a file holds, part by part.                                        *)
HeaderIn(bytes, made, order) ==
  \A f \in 1..11 :
     LiesAt(bytes, HeaderFields[f], Uint(HeaderValues(made, order)[f], HeaderWidths[f]))

(* The entries of the index.                                               *)
IndexIn(bytes, made, sums, offs) ==
  \A s \in 1..Len(made.splits) :
     EntryHolds(bytes, 38 + 24 * (s - 1), sums[s], Len(made.splits[s].pairs), offs[s],
                Len(SplitRecord(made.splits[s])))

(* The bases.                                                              *)
DictionaryIn(bytes, made) ==
  LiesAt(bytes, 38 + 24 * Len(made.splits), DictionaryBytes(made))

(* The records, which end the file.                                        *)
RecordsIn(bytes, made, offs) ==
  /\ Adds(offs, Records(made), FirstRecord(made))
  /\ Len(bytes) = offs[Len(made.splits) + 1]
  /\ \A s \in 1..Len(made.splits) : LiesAt(bytes, offs[s], SplitRecord(made.splits[s]))

(* All of them, where sums counts the pairs before each split and offs says *)
(* where its record is.                                                    *)
FileHolds(bytes, made, order, sums, offs) ==
  /\ bytes \in Seq(FileByte)
  /\ HeaderIn(bytes, made, order)
  /\ IndexIn(bytes, made, sums, offs)
  /\ DictionaryIn(bytes, made)
  /\ RecordsIn(bytes, made, offs)

(* to_bytes writes just that.                                              *)
LEMMA FileIsLaidOut ==
  ASSUME NEW made, Writable(made), NEW order, NEW sums, Adds(sums, PairsOf(made), 0)
  PROVE  \E offs : FileHolds(ToBytes(made, order), made, order, sums, offs)
<1> DEFINE n == Len(made.splits)
           d == Len(made.dictionary)
           records == Records(made)
           first == FirstRecord(made)
           header == Header(made, order)
           index == SplitIndex(made, records)
           bases == DictionaryBytes(made)
           tail == FlattenSeq(records)
           x == header \o index
           y == x \o bases
           bytes == ToBytes(made, order)
<1>1. n \in Nat /\ d \in Nat /\ ChunkByteLen \in Nat
  BY Geometry DEF Writable, ChunkByteLen, CeilDiv
<1>2. /\ records \in Seq(Seq(FileByte)) /\ Len(records) = n
      /\ \A s \in 1..n : records[s] = SplitRecord(made.splits[s]) /\ Len(records[s]) \in Nat
  BY RecordsType
<1>3. tail \in Seq(FileByte) /\ \E starts : LaysOut(tail, records, starts)
  BY <1>2, FlatPieces
<1>4. PICK starts : LaysOut(tail, records, starts)
  BY <1>3
<1> DEFINE offs == [s \in 1..(Len(records) + 1) |-> first + starts[s]]
<1>5. first = 38 + 24 * n + d * ChunkByteLen /\ first \in Nat
  <2>1. first = 38 + 24 * n + ChunkByteLen * d
    BY DEF FirstRecord, HeaderLen, IndexEntryLen
  <2> HIDE DEF n, d, first
  <2>2. ChunkByteLen * d = d * ChunkByteLen /\ d * ChunkByteLen \in Nat
    BY <1>1
  <2> QED BY <1>1, <2>1, <2>2
<1>6. Adds(offs, records, first)
  <2> HIDE DEF records, first
  <2> QED BY <1>2, <1>4, <1>5, SumsExist
<1>7. /\ header \in Seq(FileByte) /\ Len(header) = 38
      /\ HeaderIn(header, made, order)
  BY HeaderLies DEF HeaderIn
<1>8. /\ index \in Seq(FileByte) /\ Len(index) = n * 24
      /\ \A s \in 1..n : EntryHolds(index, (s - 1) * 24, sums[s], Len(made.splits[s].pairs),
                                    offs[s], Len(records[s]))
  <2> HIDE DEF offs
  <2> QED BY <1>6, IndexLies
<1>9. bases \in Seq(FileByte) /\ Len(bases) = d * ChunkByteLen
  <2>1. [bits : Seq(Bit)] \subseteq FileByte
    BY DEF FileByte
  <2>2. bases \in Seq([bits : Seq(Bit)]) /\ Len(bases) = d * ChunkByteLen
    BY BasesLie
  <2> HIDE DEF bases
  <2>3. \A i \in 1..Len(bases) : bases[i] \in FileByte
    <3>1. \A i \in 1..Len(bases) : bases[i] \in [bits : Seq(Bit)]
      BY <2>2, ElementOfSeq
    <3> QED BY <2>1, <3>1
  <2>4. bases = [i \in 1..Len(bases) |-> bases[i]] /\ Len(bases) \in Nat
    BY <2>2
  <2>5. bases \in [1..Len(bases) -> FileByte]
    BY <2>3, <2>4
  <2>6. bases \in Seq(FileByte)
    BY <2>4, <2>5, FunctionIsSequence
  <2> QED BY <2>2, <2>6
<1>10. bytes = y \o tail
  BY DEF ToBytes, Records, DictionaryBytes, Bases
<1>11. /\ HeaderFields \in [1..11 -> Nat]
       /\ \A f \in 1..11 : Len(Uint(HeaderValues(made, order)[f], HeaderWidths[f])) \in Nat
  <2>1. HeaderFields \in [1..11 -> Nat]
    BY DEF HeaderFields
  <2>2. ASSUME NEW f \in 1..11
        PROVE  Len(Uint(HeaderValues(made, order)[f], HeaderWidths[f])) \in Nat
    BY HeaderPiece
  <2> QED BY <2>1, <2>2
<1>12. /\ \A s \in 1..n : sums[s] \in Nat /\ offs[s] \in Nat /\ Len(records[s]) \in Nat
                         /\ Len(made.splits[s].pairs) \in Nat
  <2>1. Len(PairsOf(made)) = n
    BY <1>1 DEF PairsOf
  <2>2. \A s \in 1..n : s \in 1..(n + 1)
    BY <1>1
  <2> HIDE DEF offs
  <2>3. \A s \in 1..n : sums[s] \in Nat /\ offs[s] \in Nat
    BY <1>2, <1>6, <2>1, <2>2 DEF Adds
  <2> QED BY <2>3, RecordsType
<1> HIDE DEF header, index, bases, tail, bytes, records, first, offs, n, d
<1>13. x \in Seq(FileByte) /\ Len(x) = 38 + n * 24 /\ LiesAt(x, 0, header) /\ LiesAt(x, 38, index)
  <2>1. x = header \o index
    OBVIOUS
  <2> HIDE DEF x
  <2>2. /\ x \in Seq(FileByte) /\ Len(x) = Len(header) + Len(index)
        /\ LiesAt(x, 0, header) /\ LiesAt(x, Len(header), index)
    <3>1. header \in Seq(FileByte) /\ index \in Seq(FileByte)
      BY <1>7, <1>8
    <3>2. Follows(header \o index, header, index, FileByte)
      BY ONLY <3>1, TwoPieces
    <3> QED BY <2>1, <3>2 DEF Follows
  <2> QED BY <1>7, <1>8, <2>2
<1> HIDE DEF x
<1>14. /\ y \in Seq(FileByte) /\ Len(y) = 38 + n * 24 + d * ChunkByteLen
       /\ LiesAt(y, 0, x) /\ LiesAt(y, 38 + n * 24, bases)
  <2>1. y = x \o bases
    OBVIOUS
  <2> HIDE DEF y
  <2>2. /\ y \in Seq(FileByte) /\ Len(y) = Len(x) + Len(bases)
        /\ LiesAt(y, 0, x) /\ LiesAt(y, Len(x), bases)
    <3>1. x \in Seq(FileByte) /\ bases \in Seq(FileByte)
      BY <1>9, <1>13
    <3>2. Follows(x \o bases, x, bases, FileByte)
      BY ONLY <3>1, TwoPieces
    <3> QED BY <2>1, <3>2 DEF Follows
  <2> QED BY <1>9, <1>13, <2>2
<1> HIDE DEF y
<1>15. /\ bytes \in Seq(FileByte) /\ Len(bytes) = Len(y) + Len(tail)
       /\ LiesAt(bytes, 0, y) /\ LiesAt(bytes, Len(y), tail)
  <2>1. y \in Seq(FileByte) /\ tail \in Seq(FileByte)
    BY <1>3, <1>14
  <2>2. Follows(y \o tail, y, tail, FileByte)
    BY ONLY <2>1, TwoPieces
  <2> QED BY <1>10, <2>2 DEF Follows
<1>16. Len(y) = first /\ n * 24 = 24 * n
  BY <1>1, <1>5, <1>14
<1>17. LiesAt(bytes, 0, x) /\ LiesAt(bytes, 38 + 24 * n, bases)
  <2>1. /\ Len(bytes) \in Nat /\ Len(y) \in Nat /\ Len(x) \in Nat /\ Len(bases) \in Nat
        /\ 0 \in Nat /\ 38 + n * 24 \in Nat /\ 0 + 0 = 0 /\ 0 + (38 + n * 24) = 38 + 24 * n
    BY <1>1, <1>9, <1>13, <1>14, <1>15
  <2>2. LiesAt(bytes, 0 + 0, x)
    BY ONLY <1>14, <1>15, <2>1, LiesInside
  <2>3. LiesAt(bytes, 0 + (38 + n * 24), bases)
    BY ONLY <1>14, <1>15, <2>1, LiesInside
  <2> QED BY <2>1, <2>2, <2>3
<1>18. LiesAt(bytes, 0, header) /\ LiesAt(bytes, 38, index)
  <2>1. /\ Len(bytes) \in Nat /\ Len(header) \in Nat /\ Len(x) \in Nat /\ Len(index) \in Nat
        /\ 0 \in Nat /\ 38 \in Nat /\ 0 + 0 = 0 /\ 0 + 38 = 38
    BY <1>7, <1>8, <1>13, <1>15
  <2>2. LiesAt(bytes, 0 + 0, header)
    BY ONLY <1>13, <1>17, <2>1, LiesInside
  <2>3. LiesAt(bytes, 0 + 38, index)
    BY ONLY <1>13, <1>17, <2>1, LiesInside
  <2> QED BY <2>1, <2>2, <2>3
<1>19. HeaderIn(bytes, made, order)
  <2> DEFINE piece(f) == Uint(HeaderValues(made, order)[f], HeaderWidths[f])
  <2>1. ASSUME NEW f \in 1..11 PROVE LiesAt(bytes, HeaderFields[f], piece(f))
    <3> DEFINE one == piece(f)
               place == HeaderFields[f]
    <3>1. /\ Len(one) \in Nat /\ place \in Nat /\ LiesAt(header, place, one)
          /\ Len(bytes) \in Nat /\ Len(header) \in Nat /\ 0 \in Nat
      <4>1. LiesAt(header, place, one)
        BY <1>7 DEF HeaderIn
      <4>2. Len(one) \in Nat /\ place \in Nat
        BY <1>11
      <4> QED BY <1>7, <1>15, <4>1, <4>2
    <3> HIDE DEF one, place
    <3>2. LiesAt(bytes, 0 + place, one)
      BY ONLY <1>18, <3>1, LiesInside
    <3>3. 0 + place = place
      BY <3>1
    <3> QED BY <3>2, <3>3 DEF one, place
  <2> QED BY <2>1 DEF HeaderIn
<1>20. IndexIn(bytes, made, sums, offs)
  <2>1. ASSUME NEW s \in 1..n
        PROVE  EntryHolds(bytes, 38 + 24 * (s - 1), sums[s], Len(made.splits[s].pairs), offs[s],
                          Len(records[s]))
    <3> DEFINE place == (s - 1) * 24
               count == Len(made.splits[s].pairs)
               len == Len(records[s])
               start == sums[s]
               offset == offs[s]
    <3>1. place \in Nat /\ 38 + place = 38 + 24 * (s - 1) /\ 38 \in Nat
      BY <1>1
    <3>2. EntryHolds(index, place, start, count, offset, len)
      BY <1>8
    <3>3. start \in Nat /\ count \in Nat /\ offset \in Nat /\ len \in Nat
      BY <1>12
    <3>4. Len(bytes) \in Nat /\ Len(index) \in Nat
      BY <1>8, <1>15
    <3> HIDE DEF place, count, len, start, offset
    <3>5. EntryHolds(bytes, 38 + place, start, count, offset, len)
      BY ONLY <1>18, <3>1, <3>2, <3>3, <3>4, EntryInFile
    <3> QED BY <3>1, <3>5 DEF count, len, start, offset
  <2> QED BY <1>2, <2>1 DEF IndexIn, n
<1>21. DictionaryIn(bytes, made)
  BY <1>17 DEF DictionaryIn, bases, n
<1>22. RecordsIn(bytes, made, offs)
  <2>1. /\ starts \in [1..(n + 1) -> Nat] /\ Len(tail) = starts[n + 1]
        /\ \A s \in 1..n : LiesAt(tail, starts[s], records[s])
    <3>1. \A s \in 1..Len(records) : LiesAt(tail, starts[s], records[s])
      BY <1>4, PiecesLie
    <3>2. starts \in [1..(Len(records) + 1) -> Nat] /\ Len(tail) = starts[Len(records) + 1]
      BY <1>4 DEF LaysOut, Placed
    <3> QED BY <1>2, <3>1, <3>2
  <2>2. \A s \in 1..(n + 1) : offs[s] = first + starts[s] /\ starts[s] \in Nat
    BY <1>2, <2>1 DEF offs
  <2>3. Len(bytes) = offs[n + 1]
    <3>1. n + 1 \in 1..(n + 1)
      BY <1>1
    <3> QED BY <1>15, <1>16, <2>1, <2>2, <3>1
  <2>4. ASSUME NEW s \in 1..n PROVE LiesAt(bytes, offs[s], records[s])
    <3> DEFINE place == starts[s]
               record == records[s]
    <3>1. s \in 1..(n + 1)
      BY <1>1
    <3>2. offs[s] = first + place /\ place \in Nat /\ LiesAt(tail, place, record)
      BY <2>1, <2>2, <3>1
    <3>3. /\ Len(record) \in Nat /\ Len(bytes) \in Nat /\ Len(tail) \in Nat
          /\ LiesAt(bytes, first, tail)
      BY <1>2, <1>3, <1>15, <1>16
    <3> HIDE DEF place, record
    <3>4. LiesAt(bytes, first + place, record)
      BY ONLY <1>5, <3>2, <3>3, LiesInside
    <3> QED BY <3>2, <3>4 DEF record
  <2>5. \A s \in 1..n : LiesAt(bytes, offs[s], SplitRecord(made.splits[s]))
    BY <1>2, <2>4
  <2> QED BY <1>6, <2>3, <2>5 DEF RecordsIn, n, records, first
<1>23. FileHolds(bytes, made, order, sums, offs)
  BY <1>15, <1>19, <1>20, <1>21, <1>22 DEF FileHolds
<1> QED BY <1>23 DEF bytes

----------------------------------------------------------------------------
(* Reading it.                                                             *)

(* What a reader of the header sees.                                       *)
HeaderReads(bytes, made, order) ==
  /\ HasHeader(bytes)
  /\ HeaderConfig(bytes) =
       [bits_per_sample |-> BitsPerSample, samples_per_chunk |-> SamplesPerChunk,
        chunks_per_split |-> ChunksPerSplit, threshold_ppm |-> NewBaseThresholdPpm,
        max_active |-> MaxActiveDictionaryBytes, endian |-> order]
  /\ UintAt(bytes, 22) = made.original_sample_count
  /\ UintAt(bytes, 30) = Len(made.dictionary)
  /\ UintAt(bytes, 34) = Len(made.splits)

(* It is what was written.                                                 *)
LEMMA HeaderIsRead ==
  ASSUME NEW made, Writable(made), NEW order \in {"little", "big"},
         NEW bytes, HeaderIn(bytes, made, order)
  PROVE  HeaderReads(bytes, made, order)
<1> DEFINE v == HeaderValues(made, order)
           w == HeaderWidths
           p == HeaderFields
<1>1. ASSUME NEW f \in 1..11 PROVE FieldReads(bytes, p[f], w[f], v[f])
  <2>1. v[f] \in FieldValue /\ w[f] \in Nat \ {0}
    BY HeaderPiece
  <2>2. LiesAt(bytes, p[f], Uint(v[f], w[f]))
    BY DEF HeaderIn
  <2> HIDE DEF v, w, p
  <2> QED BY ONLY <2>1, <2>2, FieldIsRead
<1>2. /\ v[1] = "TCHY" /\ v[2] = 2 /\ v[3] = BitsPerSample /\ v[4] = SamplesPerChunk
      /\ v[5] = EndianTag(order) /\ v[6] = ChunksPerSplit /\ v[7] = NewBaseThresholdPpm
      /\ v[8] = MaxActiveDictionaryBytes /\ v[9] = made.original_sample_count
      /\ v[10] = Len(made.dictionary) /\ v[11] = Len(made.splits)
  BY DEF HeaderValues
<1>3. /\ p[1] = 0 /\ p[2] = 4 /\ p[3] = 5 /\ p[4] = 6 /\ p[5] = 7 /\ p[6] = 8
      /\ p[7] = 10 /\ p[8] = 14 /\ p[9] = 22 /\ p[10] = 30 /\ p[11] = 34
  BY DEF HeaderFields
<1>4. Len(p) = 11
  BY DEF HeaderFields
<1> HIDE DEF v, w, p
<1>5. \A f \in 1..11 : HasUint(bytes, p[f], w[f]) /\ UintAt(bytes, p[f]) = v[f]
  BY <1>1 DEF FieldReads
<1>6. /\ UintAt(bytes, p[1]) = v[1] /\ UintAt(bytes, p[2]) = v[2] /\ UintAt(bytes, p[3]) = v[3]
      /\ UintAt(bytes, p[4]) = v[4] /\ UintAt(bytes, p[5]) = v[5] /\ UintAt(bytes, p[6]) = v[6]
      /\ UintAt(bytes, p[7]) = v[7] /\ UintAt(bytes, p[8]) = v[8] /\ UintAt(bytes, p[9]) = v[9]
      /\ UintAt(bytes, p[10]) = v[10] /\ UintAt(bytes, p[11]) = v[11]
  BY <1>5
<1>7. /\ UintAt(bytes, 0) = "TCHY" /\ UintAt(bytes, 4) = 2
      /\ UintAt(bytes, 5) = BitsPerSample /\ UintAt(bytes, 6) = SamplesPerChunk
      /\ UintAt(bytes, 7) = EndianTag(order) /\ UintAt(bytes, 8) = ChunksPerSplit
      /\ UintAt(bytes, 10) = NewBaseThresholdPpm
      /\ UintAt(bytes, 14) = MaxActiveDictionaryBytes
      /\ UintAt(bytes, 22) = made.original_sample_count
      /\ UintAt(bytes, 30) = Len(made.dictionary) /\ UintAt(bytes, 34) = Len(made.splits)
  BY <1>2, <1>3, <1>6
<1>8. ValidConfig(BitsPerSample, SamplesPerChunk, ChunksPerSplit)
  BY ConfigAssumption DEF ValidConfig
<1>9. /\ EndianTag(order) \in {0, 1}
      /\ (IF EndianTag(order) = 0 THEN "little" ELSE "big") = order
  BY DEF EndianTag
<1>10. \A f \in 1..Len(HeaderFields) : HasUint(bytes, HeaderFields[f], HeaderWidths[f])
  BY <1>4, <1>5 DEF p, w
<1>11. HasHeader(bytes)
  BY <1>7, <1>8, <1>9, <1>10, Zenon DEF HasHeader
<1>12. HeaderConfig(bytes) =
         [bits_per_sample |-> BitsPerSample, samples_per_chunk |-> SamplesPerChunk,
          chunks_per_split |-> ChunksPerSplit, threshold_ppm |-> NewBaseThresholdPpm,
          max_active |-> MaxActiveDictionaryBytes, endian |-> order]
  BY <1>7, <1>9 DEF HeaderConfig
<1> QED BY <1>7, <1>11, <1>12 DEF HeaderReads

(* No field of the header reaches beyond byte 38.                          *)
LEMMA HeaderEnds ==
  ASSUME NEW f \in 1..11
  PROVE  /\ HeaderFields[f] \in Nat /\ HeaderWidths[f] \in Nat
         /\ HeaderFields[f] + HeaderWidths[f] <= 38
<1>1. /\ HeaderFields[1] = 0 /\ HeaderFields[2] = 4 /\ HeaderFields[3] = 5
      /\ HeaderFields[4] = 6 /\ HeaderFields[5] = 7 /\ HeaderFields[6] = 8
      /\ HeaderFields[7] = 10 /\ HeaderFields[8] = 14 /\ HeaderFields[9] = 22
      /\ HeaderFields[10] = 30 /\ HeaderFields[11] = 34
  BY DEF HeaderFields
<1>2. /\ HeaderWidths[1] = 4 /\ HeaderWidths[2] = 1 /\ HeaderWidths[3] = 1
      /\ HeaderWidths[4] = 1 /\ HeaderWidths[5] = 1 /\ HeaderWidths[6] = 2
      /\ HeaderWidths[7] = 4 /\ HeaderWidths[8] = 8 /\ HeaderWidths[9] = 8
      /\ HeaderWidths[10] = 4 /\ HeaderWidths[11] = 4
  BY DEF HeaderWidths
<1> QED BY <1>1, <1>2, ElevenFields

(* A header is whole, or none is seen.                                     *)
LEMMA HeaderOfBeginning ==
  ASSUME NEW made, Writable(made), NEW order \in {"little", "big"},
         NEW file_bytes, HeaderIn(file_bytes, made, order),
         NEW bytes, Len(bytes) \in Nat, BeginningOf(bytes, file_bytes),
         HasHeader(bytes)
  PROVE  HeaderReads(bytes, made, order)
<1>1. 38 <= Len(bytes)
  <2>1. Len(HeaderFields) = 11 /\ HeaderFields[11] = 34 /\ HeaderWidths[11] = 4
    BY DEF HeaderFields, HeaderWidths
  <2>2. \A f \in 1..Len(HeaderFields) : HasUint(bytes, HeaderFields[f], HeaderWidths[f])
    BY DEF HasHeader
  <2>3. HasUint(bytes, 34, 4)
    BY <2>1, <2>2
  <2> QED BY <2>3 DEF HasUint
<1>2. ASSUME NEW f \in 1..11
      PROVE  LiesAt(bytes, HeaderFields[f], Uint(HeaderValues(made, order)[f], HeaderWidths[f]))
  <2> DEFINE piece == Uint(HeaderValues(made, order)[f], HeaderWidths[f])
             at == HeaderFields[f]
             w == HeaderWidths[f]
  <2>1. Len(piece) = w
    BY HeaderPiece, UintBytes DEF FieldValue
  <2>2. at \in Nat /\ w \in Nat /\ at + w <= 38
    BY HeaderEnds
  <2>3. LiesAt(file_bytes, at, piece)
    BY DEF HeaderIn
  <2> HIDE DEF piece, at, w
  <2>4. at + Len(piece) <= Len(bytes) /\ Len(piece) \in Nat
    BY <1>1, <2>1, <2>2
  <2>5. LiesAt(bytes, at, piece)
    BY ONLY <2>2, <2>3, <2>4, LiesInBeginning, Len(bytes) \in Nat, BeginningOf(bytes, file_bytes)
  <2> QED BY <2>5 DEF piece, at, w
<1>3. HeaderIn(bytes, made, order)
  BY <1>2 DEF HeaderIn
<1> QED BY <1>3, HeaderIsRead

(* The splits read up to the s-th record, as ReadSplits reads them.        *)
ReadStart(bytes) ==
  [ok |-> TRUE, splits |-> <<>>,
   offset |-> DictionaryOffset(bytes) + ChunkByteLen * UintAt(bytes, 30)]

(* One record more: nothing more once one is missing.                      *)
ReadNext(bytes, r) ==
  IF ~ r.ok \/ ~ RecordIsThere(bytes, r.offset)
  THEN [r EXCEPT !.ok = FALSE]
  ELSE [ok |-> TRUE,
        splits |-> Append(r.splits, SplitAt(bytes, r.offset)),
        offset |-> r.offset + RecordHeaderLen + UintAt(bytes, r.offset + 4)]

(* Record after record.                                                    *)
Reads(read, bytes, n) ==
  read = [s \in 0..n |-> IF s = 0 THEN ReadStart(bytes) ELSE ReadNext(bytes, read[s - 1])]

(* There is such a function for each number of records.                    *)
LEMMA ReadingExists ==
  ASSUME NEW bytes
  PROVE  \A n \in Nat : \E read : Reads(read, bytes, n)
<1> DEFINE Bad == {n \in Nat : ~ \E read : Reads(read, bytes, n)}
<1>1. SUFFICES ASSUME Bad # {} PROVE FALSE
  OBVIOUS
<1>2. PICK n \in Bad : \A k \in Bad : n <= k
  BY <1>1, LeastElement
<1>3. n \in Nat /\ \A read : ~ Reads(read, bytes, n)
  OBVIOUS
<1>4. CASE n = 0
  <2>1. Reads([i \in 0..0 |-> ReadStart(bytes)], bytes, 0)
    BY DEF Reads
  <2> QED BY <2>1, <1>3, <1>4
<1>5. CASE n # 0
  <2>1. n - 1 \in Nat /\ n - 1 \notin Bad
    BY <1>2, <1>3, <1>5
  <2>2. PICK g : Reads(g, bytes, n - 1)
    BY <2>1
  <2> DEFINE h == [i \in 0..n |-> IF i = n THEN ReadNext(bytes, g[n - 1]) ELSE g[i]]
  <2>3. \A i \in 0..(n - 1) : g[i] = IF i = 0 THEN ReadStart(bytes)
                                     ELSE ReadNext(bytes, g[i - 1])
    BY <2>2 DEF Reads
  <2>4. ASSUME NEW i \in 0..n
        PROVE  h[i] = IF i = 0 THEN ReadStart(bytes) ELSE ReadNext(bytes, h[i - 1])
    <3>1. CASE i = n
      <4>1. n - 1 \in 0..n /\ n - 1 # n
        BY <2>1
      <4>2. h[n - 1] = g[n - 1]
        BY <4>1
      <4> QED BY <1>5, <3>1, <4>2
    <3>2. CASE i # n
      <4>1. i \in 0..(n - 1)
        BY <1>3, <3>2
      <4>2. CASE i = 0
        BY <2>3, <3>2, <4>1, <4>2
      <4>3. CASE i # 0
        <5>1. i - 1 \in 0..n /\ i - 1 # n
          BY <4>1, <4>3
        <5>2. h[i - 1] = g[i - 1] /\ h[i] = g[i]
          BY <3>2, <5>1
        <5> HIDE DEF h
        <5> QED BY <2>3, <4>1, <4>3, <5>2
      <4> QED BY <4>2, <4>3
    <3> QED BY <3>1, <3>2
  <2>5. h = [i \in 0..n |-> h[i]]
    OBVIOUS
  <2> HIDE DEF h
  <2>6. Reads(h, bytes, n)
    BY <2>4, <2>5 DEF Reads
  <2> QED BY <2>6, <1>3
<1> QED BY <1>4, <1>5

----------------------------------------------------------------------------
(* The record of a split, where its bytes are.                             *)
RecordWhole(bytes, made, offs, s) ==
  /\ RecordReads(bytes, offs[s], made.splits[s])
  /\ offs[s] \in Nat /\ PayloadLen(made.splits[s]) \in Nat
  /\ offs[s + 1] = offs[s] + 8 + PayloadLen(made.splits[s])
  /\ offs[s + 1] <= Len(bytes)

(* Where all of the record lies, it is read.                               *)
LEMMA LyingRecord ==
  ASSUME NEW made, Writable(made), NEW offs, Adds(offs, Records(made), FirstRecord(made)),
         NEW s \in 1..Len(made.splits), NEW bytes, Len(bytes) \in Nat,
         LiesAt(bytes, offs[s], SplitRecord(made.splits[s]))
  PROVE  RecordWhole(bytes, made, offs, s)
<1> DEFINE split == made.splits[s]
           at == offs[s]
           record == SplitRecord(split)
           m == PayloadLen(split)
<1>1. split \in Split /\ SplitFits(split)
  BY DEF Writable
<1>2. Len(Records(made)) = Len(made.splits) /\ Records(made)[s] = record
  BY RecordsType
<1>3. at \in Nat /\ offs[s + 1] = at + Len(record)
  <2>1. s \in 1..(Len(made.splits) + 1)
    BY DEF Writable
  <2> QED BY <1>2, <2>1 DEF Adds
<1>4. Len(record) = 8 + m /\ m \in Nat
  BY <1>1, RecordParts
<1>5. LiesAt(bytes, at, record)
  OBVIOUS
<1> HIDE DEF split, at, record, m
<1>6. RecordHolds(bytes, at, split)
  BY <1>1, <1>3, <1>5, RecordInFile DEF record
<1>7. RecordReads(bytes, at, split)
  BY ONLY <1>1, <1>3, <1>6, RecordIsRead
<1>8. at + Len(record) <= Len(bytes)
  BY <1>5 DEF LiesAt
<1>9. offs[s + 1] = at + 8 + m /\ offs[s + 1] <= Len(bytes)
  BY <1>3, <1>4, <1>8
<1> QED BY <1>3, <1>4, <1>7, <1>9 DEF RecordWhole, split, at, m

(* What a reader takes for the record is the record.                       *)
LEMMA SeenRecord ==
  ASSUME NEW made, Writable(made), NEW offs, NEW file_bytes, Len(file_bytes) \in Nat,
         RecordsIn(file_bytes, made, offs),
         NEW bytes, Len(bytes) \in Nat, BeginningOf(bytes, file_bytes),
         NEW s \in 1..Len(made.splits),
         HasUint(bytes, offs[s] + 4, 4),
         HasPacked(bytes, offs[s] + 8, UintAt(bytes, offs[s] + 4))
  PROVE  RecordWhole(bytes, made, offs, s)
<1> DEFINE split == made.splits[s]
           at == offs[s]
<1>1. split \in Split /\ SplitFits(split)
  BY DEF Writable
<1>2. at \in Nat
  <2>1. s \in 1..(Len(made.splits) + 1) /\ Len(Records(made)) = Len(made.splits)
    BY RecordsType DEF Writable
  <2> QED BY <2>1 DEF RecordsIn, Adds
<1>3. LiesAt(file_bytes, at, SplitRecord(split))
  BY DEF RecordsIn
<1> HIDE DEF split, at
<1>4. HasUint(bytes, at + 4, 4) /\ HasPacked(bytes, at + 8, UintAt(bytes, at + 4))
  BY DEF at
<1>5. LiesAt(bytes, at, SplitRecord(split))
  BY ONLY <1>1, <1>2, <1>3, <1>4, RecordIsWhole, Len(bytes) \in Nat, Len(file_bytes) \in Nat,
          BeginningOf(bytes, file_bytes)
<1>6. LiesAt(bytes, offs[s], SplitRecord(made.splits[s]))
  BY <1>5 DEF split, at
<1>7. Adds(offs, Records(made), FirstRecord(made))
  BY DEF RecordsIn
<1> HIDE DEF split, at
<1> QED BY <1>6, <1>7, LyingRecord

(* What ReadSplits has after s records.                                    *)
ReadSoFar(r, s, made, offs, bytes) ==
  r.ok => /\ r.splits \in Seq(Split) /\ Len(r.splits) = s
          /\ \A i \in 1..s : r.splits[i] = made.splits[i]
          /\ r.offset = offs[s + 1]
          /\ offs[s + 1] <= Len(bytes)

(* One record more.                                                        *)
LEMMA ReadOneMore ==
  ASSUME NEW made, Writable(made), NEW offs, NEW file_bytes, Len(file_bytes) \in Nat,
         RecordsIn(file_bytes, made, offs),
         NEW bytes, Len(bytes) \in Nat, BeginningOf(bytes, file_bytes),
         NEW s \in 1..Len(made.splits), NEW r, ReadSoFar(r, s - 1, made, offs, bytes)
  PROVE  ReadSoFar(ReadNext(bytes, r), s, made, offs, bytes)
<1> DEFINE at == offs[s]
           split == made.splits[s]
           next == ReadNext(bytes, r)
           m == PayloadLen(split)
<1>1. CASE ~ r.ok \/ ~ RecordIsThere(bytes, r.offset)
  <2>1. next = [r EXCEPT !.ok = FALSE]
    BY <1>1 DEF ReadNext
  <2>2. next.ok => FALSE
    <3>1. CASE "ok" \in DOMAIN r
      BY <2>1, <3>1
    <3>2. CASE "ok" \notin DOMAIN r
      BY <2>1, <3>2
    <3> QED BY <3>1, <3>2
  <2> QED BY <2>2 DEF ReadSoFar
<1>2. CASE r.ok /\ RecordIsThere(bytes, r.offset)
  <2>1. /\ r.splits \in Seq(Split) /\ Len(r.splits) = s - 1
        /\ \A i \in 1..(s - 1) : r.splits[i] = made.splits[i]
        /\ r.offset = at
    BY <1>2 DEF ReadSoFar
  <2>2. HasUint(bytes, at + 4, 4) /\ HasPacked(bytes, at + 8, UintAt(bytes, at + 4))
    BY <1>2, <2>1 DEF RecordIsThere, RecordHeaderLen
  <2>3. RecordWhole(bytes, made, offs, s)
    BY <2>2, SeenRecord
  <2>4. split \in Split /\ SplitFits(split)
    BY DEF Writable
  <2>5. /\ RecordReads(bytes, at, split) /\ at \in Nat /\ m \in Nat
        /\ offs[s + 1] = at + 8 + m /\ offs[s + 1] <= Len(bytes)
    BY <2>3 DEF RecordWhole
  <2>6. SplitAt(bytes, at) = split
    BY <2>4, <2>5, SplitIsReadBack
  <2>7. UintAt(bytes, at + 4) = m
    BY <2>5 DEF RecordReads, FieldReads
  <2>8. next = [ok |-> TRUE, splits |-> Append(r.splits, split), offset |-> at + 8 + m]
    BY <1>2, <2>1, <2>6, <2>7 DEF ReadNext, RecordHeaderLen
  <2>9. s \in Nat /\ \A i \in 1..s : split = made.splits[s]
    OBVIOUS
  <2> DEFINE splits == Append(r.splits, split)
  <2>10. /\ splits \in Seq(Split) /\ Len(splits) = (s - 1) + 1
         /\ splits[(s - 1) + 1] = split
         /\ \A i \in 1..(s - 1) : splits[i] = r.splits[i]
    BY <2>1, <2>4, AppendProperties
  <2>11. split = made.splits[s]
    OBVIOUS
  <2> HIDE DEF splits, split, next, at, m
  <2>12. ASSUME NEW i \in 1..s PROVE splits[i] = made.splits[i]
    <3>1. CASE i = s
      BY <2>9, <2>10, <2>11, <3>1
    <3>2. CASE i # s
      <4>1. i \in 1..(s - 1)
        BY <2>9, <3>2
      <4> QED BY <2>1, <2>10, <4>1
    <3> QED BY <3>1, <3>2
  <2>13. next.splits = splits /\ next.offset = offs[s + 1]
    BY <2>5, <2>8 DEF splits
  <2> QED BY <2>5, <2>9, <2>10, <2>12, <2>13 DEF ReadSoFar, next
<1> QED BY <1>1, <1>2

(* All of them, if the first is where from_bytes looks for it.             *)
LEMMA RecordsAreRead ==
  ASSUME NEW made, Writable(made), NEW offs, NEW file_bytes, Len(file_bytes) \in Nat,
         RecordsIn(file_bytes, made, offs),
         NEW bytes, Len(bytes) \in Nat, BeginningOf(bytes, file_bytes),
         ReadStart(bytes).offset = offs[1], offs[1] <= Len(bytes),
         NEW read, Reads(read, bytes, Len(made.splits)),
         NEW n \in 0..Len(made.splits)
  PROVE  ReadSoFar(read[n], n, made, offs, bytes)
<1> DEFINE Right(s) == ReadSoFar(read[s], s, made, offs, bytes)
           Bad == {s \in Nat : s <= Len(made.splits) /\ ~ Right(s)}
<1>1. /\ Len(made.splits) \in Nat
      /\ \A s \in 0..Len(made.splits) :
           read[s] = IF s = 0 THEN ReadStart(bytes) ELSE ReadNext(bytes, read[s - 1])
  <2> DEFINE len == Len(made.splits)
  <2>1. len \in Nat
    BY DEF Writable
  <2> HIDE DEF len
  <2>2. \A s \in 0..len :
          read[s] = IF s = 0 THEN ReadStart(bytes) ELSE ReadNext(bytes, read[s - 1])
    <3>1. Reads(read, bytes, len)
      BY DEF len
    <3> QED BY ONLY <3>1 DEF Reads
  <2> QED BY ONLY <2>1, <2>2 DEF len
<1>2. Bad = {}
  <2>1. SUFFICES ASSUME Bad # {} PROVE FALSE
    OBVIOUS
  <2>2. PICK s \in Bad : \A j \in Bad : s <= j
    <3> HIDE DEF Right
    <3> QED BY <2>1, LeastElement
  <2>3. s \in Nat /\ s <= Len(made.splits) /\ ~ Right(s)
    BY <2>2
  <2>4. CASE s = 0
    <3>1. read[0] = ReadStart(bytes)
      BY <1>1
    <3>2. ReadStart(bytes).splits = <<>>
      BY DEF ReadStart
    <3>3. ReadSoFar(read[0], 0, made, offs, bytes)
      BY <3>1, <3>2 DEF ReadSoFar
    <3> QED BY <2>3, <2>4, <3>3
  <2>5. CASE s # 0
    <3>1. /\ s - 1 \in Nat /\ s - 1 <= Len(made.splits) /\ s - 1 \notin Bad
          /\ s \in 1..Len(made.splits)
      BY <1>1, <2>2, <2>3, <2>5
    <3>2. Right(s - 1)
      BY <3>1
    <3>3. read[s] = ReadNext(bytes, read[s - 1])
      BY <1>1, <2>3, <2>5
    <3>4. ReadSoFar(ReadNext(bytes, read[s - 1]), s, made, offs, bytes)
      BY <3>1, <3>2, ReadOneMore
    <3> QED BY <2>3, <3>3, <3>4
  <2> QED BY <2>4, <2>5
<1>3. n \in Nat /\ n <= Len(made.splits)
  BY <1>1
<1> QED BY <1>2, <1>3

(* In the whole file every record is there, unless base IDs are too wide.  *)
LEMMA RecordIsAccepted ==
  ASSUME NEW made, Writable(made), NarrowIds(made), NEW s \in 1..Len(made.splits),
         NEW bytes, NEW offs, RecordWhole(bytes, made, offs, s)
  PROVE  RecordIsThere(bytes, offs[s])
<1> DEFINE split == made.splits[s]
           at == offs[s]
<1>1. split \in Split /\ split.l_id <= IdBits
  BY DEF Writable, NarrowIds
<1>2. split.l_d <= ChunkBitLen
  BY <1>1, SplitFields, Geometry DEF Split
<1>3. RecordReads(bytes, at, split)
  BY DEF RecordWhole
<1> HIDE DEF split, at
<1>4. RecordIsThere(bytes, at)
  BY <1>1, <1>2, <1>3 DEF RecordIsThere, RecordReads, FieldReads, RecordHeaderLen
<1> QED BY <1>4 DEF at

----------------------------------------------------------------------------
(* Each base lies where a reader looks for it.                             *)
LEMMA BaseLies ==
  ASSUME NEW made, Writable(made), NEW bytes, Len(bytes) \in Nat, DictionaryIn(bytes, made),
         NEW i \in 1..Len(made.dictionary)
  PROVE  /\ made.dictionary[i] \in PackedBase
         /\ 38 + 24 * Len(made.splits) + (i - 1) * ChunkByteLen \in Nat
         /\ LiesAt(bytes, 38 + 24 * Len(made.splits) + (i - 1) * ChunkByteLen,
                   Packed(PadToByte(made.dictionary[i])))
<1> DEFINE at == 38 + 24 * Len(made.splits)
           place == (i - 1) * ChunkByteLen
           whole == DictionaryBytes(made)
           piece == Packed(PadToByte(made.dictionary[i]))
<1>1. made.dictionary[i] \in PackedBase
  BY DEF Writable
<1>2. ChunkByteLen \in Nat /\ Len(piece) \in Nat
  BY <1>1, PaddedBase, PackedHoldsBits
<1>3. i \in Nat \ {0}
  OBVIOUS
<1>4. place \in Nat
  BY <1>2, <1>3, StartOfNext
<1>5. at \in Nat
  <2>1. Len(made.splits) \in Nat
    BY DEF Writable
  <2> QED BY <2>1
<1>6. LiesAt(whole, place, piece) /\ Len(whole) \in Nat
  BY BasesLie
<1>7. LiesAt(bytes, at, whole)
  BY DEF DictionaryIn
<1>8. Len(bytes) \in Nat
  OBVIOUS
<1> HIDE DEF at, place, whole, piece
<1>9. LiesAt(bytes, at + place, piece) /\ at + place \in Nat
  BY ONLY <1>2, <1>4, <1>5, <1>6, <1>7, <1>8, LiesInside
<1> QED BY <1>1, <1>9 DEF at, place, piece

(* All places of the dictionary and the first record, as read.             *)
LEMMA PlacesAreRead ==
  ASSUME NEW made, Writable(made), NEW order, NEW bytes, HeaderReads(bytes, made, order)
  PROVE  /\ DictionaryOffset(bytes) = 38 + 24 * Len(made.splits)
         /\ DictionaryOffset(bytes) + ChunkByteLen * Len(made.dictionary) = FirstRecord(made)
         /\ ReadStart(bytes).offset = FirstRecord(made)
         /\ Len(DictionaryBytes(made)) = ChunkByteLen * Len(made.dictionary)
         /\ FirstRecord(made) \in Nat
         /\ 38 + 24 * Len(made.splits) \in Nat
<1> DEFINE n == Len(made.splits)
           d == Len(made.dictionary)
           w == ChunkByteLen
<1>1. n \in Nat /\ d \in Nat /\ w \in Nat
  BY Geometry DEF Writable, ChunkByteLen, CeilDiv
<1>2. UintAt(bytes, 34) = n /\ UintAt(bytes, 30) = d
  BY DEF HeaderReads
<1>3. Len(DictionaryBytes(made)) = d * w
  BY BasesLie
<1>4. FirstRecord(made) = 38 + 24 * n + w * d /\ DictionaryOffset(bytes) = 38 + 24 * n
  BY <1>2 DEF FirstRecord, DictionaryOffset, HeaderLen, IndexEntryLen
<1>5. ReadStart(bytes).offset = DictionaryOffset(bytes) + w * d
  BY <1>2 DEF ReadStart
<1> HIDE DEF n, d, w
<1>6. d * w = w * d /\ w * d \in Nat
  BY <1>1
<1> DEFINE prod == w * d
<1>7. prod \in Nat /\ Len(DictionaryBytes(made)) = prod
  BY <1>3, <1>6
<1>8. /\ FirstRecord(made) = 38 + 24 * n + prod
      /\ ReadStart(bytes).offset = DictionaryOffset(bytes) + prod
  BY <1>4, <1>5
<1> HIDE DEF prod
<1>9. /\ DictionaryOffset(bytes) + prod = FirstRecord(made)
      /\ ReadStart(bytes).offset = FirstRecord(made)
      /\ FirstRecord(made) \in Nat /\ 38 + 24 * n \in Nat
  BY <1>1, <1>4, <1>7, <1>8
<1> QED BY <1>4, <1>7, <1>9 DEF prod, n, d, w

(* from_bytes reads the container that to_bytes was given, and the whole   *)
(* file, or nothing.                                                       *)
LEMMA FileIsRead ==
  ASSUME NEW made, Writable(made), NEW order \in {"little", "big"}, NEW sums, NEW offs,
         NEW file_bytes, FileHolds(file_bytes, made, order, sums, offs),
         NEW bytes, Len(bytes) \in Nat, BeginningOf(bytes, file_bytes),
         FromBytes(bytes) # <<>>
  PROVE  /\ FromBytes(bytes) = <<made>> /\ HeaderReads(bytes, made, order)
         /\ Len(bytes) = Len(file_bytes)
<1> DEFINE n == Len(made.splits)
           d == Len(made.dictionary)
           w == ChunkByteLen
           at == DictionaryOffset(bytes)
           read == CHOOSE f : Reads(f, bytes, n)
<1>1. /\ HasHeader(bytes) /\ DictionaryIsThere(bytes)
      /\ ReadSplits(bytes, UintAt(bytes, 34)).ok
      /\ FromBytes(bytes) = <<FromBytesParts(bytes, ReadSplits(bytes, UintAt(bytes, 34)).splits)>>
  BY DEF FromBytes
<1>2. /\ Len(file_bytes) \in Nat /\ HeaderIn(file_bytes, made, order)
      /\ DictionaryIn(file_bytes, made) /\ RecordsIn(file_bytes, made, offs)
  BY DEF FileHolds
<1>3. HeaderReads(bytes, made, order)
  BY <1>1, <1>2, HeaderOfBeginning
<1>4. /\ UintAt(bytes, 34) = n /\ UintAt(bytes, 30) = d
      /\ UintAt(bytes, 22) = made.original_sample_count
  BY <1>3 DEF HeaderReads
<1>5. n \in Nat /\ d \in Nat /\ w \in Nat
  BY Geometry DEF Writable, ChunkByteLen, CeilDiv
<1>6. /\ at = 38 + 24 * n /\ at + w * d = FirstRecord(made)
      /\ ReadStart(bytes).offset = FirstRecord(made)
      /\ Len(DictionaryBytes(made)) = w * d /\ at \in Nat
  BY <1>3, PlacesAreRead
<1>7. ReadSplits(bytes, n) = read[n]
  BY DEF ReadSplits, Reads, ReadStart, ReadNext
<1>8. Reads(read, bytes, n)
  BY <1>5, ReadingExists
<1>9. offs[1] = FirstRecord(made) /\ Len(file_bytes) = offs[n + 1]
  BY <1>2 DEF RecordsIn, Adds
<1>10. at + w * d <= Len(bytes)
  BY <1>1, <1>4 DEF DictionaryIsThere, HasPacked
<1> HIDE DEF read, at, w
<1>11. ReadSoFar(read[n], n, made, offs, bytes)
  <2>1. ReadStart(bytes).offset = offs[1] /\ offs[1] <= Len(bytes)
    BY <1>6, <1>9, <1>10
  <2>2. n \in 0..Len(made.splits)
    BY <1>5
  <2> QED BY <1>2, <1>8, <2>1, <2>2, RecordsAreRead
<1>12. /\ read[n].splits \in Seq(Split) /\ Len(read[n].splits) = n
       /\ \A i \in 1..n : read[n].splits[i] = made.splits[i]
       /\ offs[n + 1] <= Len(bytes)
  BY <1>1, <1>4, <1>7, <1>11 DEF ReadSoFar
<1>13. Len(bytes) = Len(file_bytes)
  BY <1>2, <1>9, <1>12 DEF BeginningOf
<1>14. read[n].splits = made.splits
  <2>1. made.splits \in Seq(Split)
    BY DEF Writable
  <2> QED BY <1>12, <2>1, SeqEqual
<1>15. DictionaryIn(bytes, made)
  <2> DEFINE piece == DictionaryBytes(made)
             start == 38 + 24 * n
  <2>1. LiesAt(file_bytes, start, piece)
    BY <1>2 DEF DictionaryIn
  <2>2. start + Len(piece) <= Len(bytes) /\ start \in Nat
    BY <1>6, <1>10
  <2>3. Len(piece) \in Nat
    BY BasesLie
  <2> HIDE DEF piece, start
  <2>4. LiesAt(bytes, start, piece)
    BY ONLY <2>1, <2>2, <2>3, LiesInBeginning, Len(bytes) \in Nat, BeginningOf(bytes, file_bytes)
  <2> QED BY <2>4 DEF DictionaryIn, piece, start
<1>16. ASSUME NEW i \in 1..d
       PROVE  SubSeq(PackedAt(bytes, at + w * (i - 1), w), 1, ChunkBitLen) = made.dictionary[i]
  <2> DEFINE base == made.dictionary[i]
             place == 38 + 24 * n + (i - 1) * w
  <2>1. base \in PackedBase /\ place \in Nat /\ LiesAt(bytes, place, Packed(PadToByte(base)))
    BY <1>15, BaseLies DEF w
  <2>2. place = at + w * (i - 1)
    <3> DEFINE k == i - 1
    <3>1. k \in Nat
      OBVIOUS
    <3> HIDE DEF k
    <3>2. k * w = w * k
      BY <1>5, <3>1 DEF w
    <3> QED BY <1>5, <1>6, <3>2 DEF k
  <2> HIDE DEF base, place
  <2>3. /\ PadToByte(base) \in Seq(Bit) /\ w \in Nat /\ Len(PadToByte(base)) = 8 * w
        /\ SubSeq(PadToByte(base), 1, ChunkBitLen) = base
    BY <2>1, PaddedBase DEF w
  <2>4. PackedAt(bytes, place, w) = PadToByte(base)
    BY <2>1, <2>3, PackedIsRead
  <2> QED BY <2>2, <2>3, <2>4 DEF base
<1>17. FromBytesParts(bytes, made.splits) = made
  <2> DEFINE dictionary == [i \in 1..d |->
                              SubSeq(PackedAt(bytes, at + w * (i - 1), w), 1, ChunkBitLen)]
  <2>1. dictionary = made.dictionary
    <3>1. dictionary = [i \in 1..d |-> made.dictionary[i]]
      BY <1>16
    <3>2. made.dictionary = [i \in 1..d |-> made.dictionary[i]]
      BY DEF Writable
    <3> HIDE DEF dictionary, d
    <3> QED BY <3>1, <3>2
  <2>2. FromBytesParts(bytes, made.splits) =
          [original_sample_count |-> made.original_sample_count,
           dictionary |-> dictionary, splits |-> made.splits]
    BY <1>4 DEF FromBytesParts, at, w
  <2>3. made = [original_sample_count |-> made.original_sample_count,
                dictionary |-> made.dictionary, splits |-> made.splits]
    BY DEF Writable, IsContainer
  <2> HIDE DEF dictionary
  <2> QED BY <2>1, <2>2, <2>3
<1> QED BY <1>1, <1>3, <1>4, <1>7, <1>13, <1>14, <1>17

(* The whole file is read, unless base IDs are too wide.                   *)
LEMMA WholeFileIsRead ==
  ASSUME NEW made, Writable(made), NarrowIds(made), NEW order \in {"little", "big"},
         NEW sums, Adds(sums, PairsOf(made), 0), NEW offs,
         NEW bytes, FileHolds(bytes, made, order, sums, offs)
  PROVE  FromBytes(bytes) # <<>>
<1> DEFINE n == Len(made.splits)
           d == Len(made.dictionary)
           w == ChunkByteLen
           at == DictionaryOffset(bytes)
           read == CHOOSE f : Reads(f, bytes, n)
<1>1. /\ Len(bytes) \in Nat /\ HeaderIn(bytes, made, order) /\ IndexIn(bytes, made, sums, offs)
      /\ DictionaryIn(bytes, made) /\ RecordsIn(bytes, made, offs)
  BY DEF FileHolds
<1>2. HeaderReads(bytes, made, order)
  BY <1>1, HeaderIsRead
<1>3. UintAt(bytes, 34) = n /\ UintAt(bytes, 30) = d /\ HasHeader(bytes)
  BY <1>2 DEF HeaderReads
<1>4. n \in Nat /\ d \in Nat /\ w \in Nat
  BY Geometry DEF Writable, ChunkByteLen, CeilDiv
<1>5. /\ at = 38 + 24 * n /\ at + w * d = FirstRecord(made)
      /\ ReadStart(bytes).offset = FirstRecord(made)
      /\ Len(DictionaryBytes(made)) = w * d /\ at \in Nat
  BY <1>2, PlacesAreRead
<1>6. BeginningOf(bytes, bytes)
  BY <1>1 DEF BeginningOf
<1>7. \A s \in 1..n : /\ offs[s] \in Nat /\ sums[s] \in Nat /\ Len(made.splits[s].pairs) \in Nat
                     /\ Len(SplitRecord(made.splits[s])) \in Nat
  <2>1. /\ Len(Records(made)) = n /\ Len(PairsOf(made)) = n
        /\ \A s \in 1..n : /\ Len(made.splits[s].pairs) \in Nat
                           /\ Len(SplitRecord(made.splits[s])) \in Nat
    BY <1>4, RecordsType DEF PairsOf
  <2>2. \A s \in 1..n : s \in 1..(n + 1)
    BY <1>4
  <2>3. offs \in [1..(n + 1) -> Nat] /\ sums \in [1..(n + 1) -> Nat]
    BY <1>1, <2>1 DEF RecordsIn, Adds
  <2> QED BY <2>1, <2>2, <2>3
<1>8. IndexIsThere(bytes)
  <2> SUFFICES ASSUME NEW s \in 1..n
               PROVE  /\ HasUint(bytes, 38 + 24 * (s - 1), 8)
                      /\ HasUint(bytes, 38 + 24 * (s - 1) + 8, 4)
                      /\ HasUint(bytes, 38 + 24 * (s - 1) + 12, 8)
                      /\ HasUint(bytes, 38 + 24 * (s - 1) + 20, 4)
    BY <1>3 DEF IndexIsThere, HeaderLen, IndexEntryLen
  <2> DEFINE entry == 38 + 24 * (s - 1)
             a == sums[s]
             b == Len(made.splits[s].pairs)
             c == offs[s]
             e == Len(SplitRecord(made.splits[s]))
  <2>1. EntryHolds(bytes, entry, a, b, c, e)
    BY <1>1 DEF IndexIn
  <2>2. a \in FieldValue /\ b \in FieldValue /\ c \in FieldValue /\ e \in FieldValue
    BY <1>7 DEF FieldValue
  <2> HIDE DEF entry, a, b, c, e
  <2>3. /\ LiesAt(bytes, entry, Uint(a, 8)) /\ LiesAt(bytes, entry + 8, Uint(b, 4))
        /\ LiesAt(bytes, entry + 12, Uint(c, 8)) /\ LiesAt(bytes, entry + 20, Uint(e, 4))
    BY <2>1 DEF EntryHolds
  <2>4. 4 \in Nat \ {0} /\ 8 \in Nat \ {0}
    OBVIOUS
  <2>5. /\ FieldReads(bytes, entry, 8, a) /\ FieldReads(bytes, entry + 8, 4, b)
        /\ FieldReads(bytes, entry + 12, 8, c) /\ FieldReads(bytes, entry + 20, 4, e)
    BY ONLY <2>2, <2>3, <2>4, FieldIsRead
  <2> QED BY <2>5 DEF FieldReads, entry
<1>9. DictionaryIsThere(bytes)
  <2> DEFINE whole == DictionaryBytes(made)
  <2>1. whole \in Seq([bits : Seq(Bit)]) /\ Len(whole) = w * d
    BY <1>5, BasesLie
  <2>2. LiesAt(bytes, at, whole)
    BY <1>1, <1>5 DEF DictionaryIn
  <2> HIDE DEF whole, at, w, d
  <2>3. at + w * d <= Len(bytes) /\ \A k \in 1..(w * d) : bytes[at + k] = whole[k]
    BY <2>1, <2>2 DEF LiesAt
  <2>4. ASSUME NEW k \in 1..(w * d) PROVE "bits" \in DOMAIN bytes[at + k]
    <3>1. whole[k] \in [bits : Seq(Bit)]
      BY <2>1, ElementOfSeq
    <3>2. "bits" \in DOMAIN whole[k]
      BY <3>1
    <3> QED BY <2>3, <3>2
  <2>5. HasPacked(bytes, at, w * d)
    BY <2>3, <2>4 DEF HasPacked
  <2> QED BY <1>3, <2>5 DEF DictionaryIsThere, at, w, d
<1>10. ReadSplits(bytes, n) = read[n]
  BY DEF ReadSplits, Reads, ReadStart, ReadNext
<1>11. Reads(read, bytes, n)
  BY <1>4, ReadingExists
<1>12. offs[1] = FirstRecord(made)
  BY <1>1 DEF RecordsIn, Adds
<1>13. at + w * d <= Len(bytes)
  BY <1>3, <1>9 DEF DictionaryIsThere, HasPacked
<1> HIDE DEF read, at, w
<1>14. \A s \in 0..n : ReadSoFar(read[s], s, made, offs, bytes)
  <2>1. ReadStart(bytes).offset = offs[1] /\ offs[1] <= Len(bytes)
    BY <1>5, <1>12, <1>13
  <2> QED BY <1>1, <1>6, <1>11, <2>1, RecordsAreRead
<1> DEFINE Bad == {s \in Nat : s <= n /\ ~ read[s].ok}
<1>15. Bad = {}
  <2>1. SUFFICES ASSUME Bad # {} PROVE FALSE
    OBVIOUS
  <2>2. PICK s \in Bad : \A j \in Bad : s <= j
    BY <2>1, LeastElement
  <2>3. s \in Nat /\ s <= n /\ ~ read[s].ok
    BY <2>2
  <2>4. \A i \in 0..n :
          read[i] = IF i = 0 THEN ReadStart(bytes) ELSE ReadNext(bytes, read[i - 1])
    BY <1>11 DEF Reads
  <2>5. CASE s = 0
    <3>1. read[0] = ReadStart(bytes)
      BY <1>4, <2>4
    <3>2. read[0].ok
      BY <3>1 DEF ReadStart
    <3> QED BY <2>3, <2>5, <3>2
  <2>6. CASE s # 0
    <3>1. s - 1 \in Nat /\ s - 1 <= n /\ s - 1 \notin Bad /\ s \in 1..n /\ s - 1 \in 0..n
          /\ (s - 1) + 1 = s /\ s \in 0..n
      BY <1>4, <2>2, <2>3, <2>6
    <3>2. read[s - 1].ok
      BY <3>1
    <3>3. read[s - 1].offset = offs[s]
      <4>1. ReadSoFar(read[s - 1], s - 1, made, offs, bytes)
        BY <1>14, <3>1
      <4> QED BY <3>1, <3>2, <4>1 DEF ReadSoFar
    <3>4. RecordIsThere(bytes, offs[s])
      <4>1. RecordWhole(bytes, made, offs, s)
        <5>1. /\ Adds(offs, Records(made), FirstRecord(made))
              /\ LiesAt(bytes, offs[s], SplitRecord(made.splits[s]))
          BY <1>1, <3>1 DEF RecordsIn
        <5> QED BY <1>1, <3>1, <5>1, LyingRecord
      <4> QED BY <3>1, <4>1, RecordIsAccepted
    <3>5. read[s] = ReadNext(bytes, read[s - 1])
      BY <2>4, <2>6, <3>1
    <3>6. read[s].ok
      BY <3>2, <3>3, <3>4, <3>5 DEF ReadNext
    <3> QED BY <2>3, <3>6
  <2> QED BY <2>5, <2>6
<1>16. read[n].ok
  BY <1>4, <1>15
<1> QED BY <1>3, <1>8, <1>9, <1>10, <1>16 DEF FromBytes

----------------------------------------------------------------------------
(* The indexed reader.                                                     *)

(* What it keeps of the index.                                             *)
EntryFor(made, before, offs, s) ==
  [chunk_start |-> before[s], chunk_count |-> Len(made.splits[s].pairs),
   split_offset |-> offs[s], split_len |-> 8 + PayloadLen(made.splits[s])]

(* What it keeps of the file.                                              *)
ReaderIs(reader, bytes, made, before, offs) ==
  /\ reader.file = bytes
  /\ reader.original_sample_count = made.original_sample_count
  /\ reader.dictionary_len = Len(made.dictionary)
  /\ reader.dictionary_offset = 38 + 24 * Len(made.splits)
  /\ DOMAIN reader.splits = 1..Len(made.splits)
  /\ \A s \in 1..Len(made.splits) : reader.splits[s] = EntryFor(made, before, offs, s)

(* The index entries, the types of what they hold.                         *)
LEMMA EntryTypes ==
  ASSUME NEW made, Writable(made), NEW before, Adds(before, PairsOf(made), 0),
         NEW offs, Adds(offs, Records(made), FirstRecord(made)),
         NEW s \in 1..Len(made.splits)
  PROVE  /\ before[s] \in Nat /\ Len(made.splits[s].pairs) \in Nat /\ offs[s] \in Nat
         /\ PayloadLen(made.splits[s]) \in Nat
         /\ Len(SplitRecord(made.splits[s])) = 8 + PayloadLen(made.splits[s])
         /\ offs[s + 1] = offs[s] + (8 + PayloadLen(made.splits[s]))
         /\ 38 + 24 * (s - 1) \in Nat
<1>1. made.splits[s] \in Split /\ SplitFits(made.splits[s]) /\ Len(made.splits) \in Nat
  BY DEF Writable
<1>2. /\ Len(Records(made)) = Len(made.splits) /\ Len(PairsOf(made)) = Len(made.splits)
      /\ Records(made)[s] = SplitRecord(made.splits[s]) /\ Len(made.splits[s].pairs) \in Nat
  <2>1. made.splits[s].pairs \in Seq(Pair)
    BY <1>1 DEF Split
  <2>2. Len(made.splits[s].pairs) \in Nat
    BY <2>1
  <2>3. Len(Records(made)) = Len(made.splits) /\ Records(made)[s] = SplitRecord(made.splits[s])
    BY <1>1, RecordsType
  <2>4. Len(PairsOf(made)) = Len(made.splits)
    BY <1>1 DEF PairsOf
  <2> QED BY <2>2, <2>3, <2>4
<1>3. s \in 1..(Len(made.splits) + 1) /\ 38 + 24 * (s - 1) \in Nat
  BY <1>1
<1>4. before[s] \in Nat /\ offs[s] \in Nat /\ offs[s + 1] = offs[s] + Len(Records(made)[s])
  BY <1>2, <1>3 DEF Adds
<1>5. /\ PayloadLen(made.splits[s]) \in Nat
      /\ Len(SplitRecord(made.splits[s])) = 8 + PayloadLen(made.splits[s])
  BY <1>1, RecordParts
<1> QED BY <1>2, <1>3, <1>4, <1>5

(* A field that is there is the one that was written there.                *)
LEMMA FieldOfBeginning ==
  ASSUME NEW value \in FieldValue, NEW width \in Nat \ {0}, NEW at \in Nat,
         NEW file_bytes, FieldReads(file_bytes, at, width, value),
         NEW bytes, Len(bytes) \in Nat, BeginningOf(bytes, file_bytes),
         HasUint(bytes, at, width)
  PROVE  FieldReads(bytes, at, width, value)
<1>1. at + width <= Len(bytes)
  BY DEF HasUint
<1>2. at + 1 \in 1..Len(bytes)
  BY <1>1
<1>3. bytes[at + 1] = file_bytes[at + 1]
  BY <1>2 DEF BeginningOf
<1> QED BY <1>3 DEF FieldReads, UintAt

(* The fields of an index entry, as they are read.                         *)
EntryReads(bytes, at, entry) ==
  /\ FieldReads(bytes, at, 8, entry.chunk_start)
  /\ FieldReads(bytes, at + 8, 4, entry.chunk_count)
  /\ FieldReads(bytes, at + 12, 8, entry.split_offset)
  /\ FieldReads(bytes, at + 20, 4, entry.split_len)

(* In the file they are those of the split.                                *)
LEMMA EntryIsRead ==
  ASSUME NEW made, Writable(made), NEW before, Adds(before, PairsOf(made), 0),
         NEW offs, Adds(offs, Records(made), FirstRecord(made)),
         NEW file_bytes, IndexIn(file_bytes, made, before, offs),
         NEW s \in 1..Len(made.splits)
  PROVE  EntryReads(file_bytes, 38 + 24 * (s - 1), EntryFor(made, before, offs, s))
<1> DEFINE at == 38 + 24 * (s - 1)
           a == before[s]
           b == Len(made.splits[s].pairs)
           c == offs[s]
           e == 8 + PayloadLen(made.splits[s])
           entry == EntryFor(made, before, offs, s)
<1>1. a \in Nat /\ b \in Nat /\ c \in Nat /\ e \in Nat /\ Len(SplitRecord(made.splits[s])) = e
  BY EntryTypes
<1>2. EntryHolds(file_bytes, at, a, b, c, e)
  BY <1>1 DEF IndexIn
<1>3. /\ entry.chunk_start = a /\ entry.chunk_count = b /\ entry.split_offset = c
      /\ entry.split_len = e
  BY DEF EntryFor
<1> HIDE DEF at, a, b, c, e, entry
<1>4. a \in FieldValue /\ b \in FieldValue /\ c \in FieldValue /\ e \in FieldValue
  BY <1>1 DEF FieldValue
<1>5. /\ LiesAt(file_bytes, at, Uint(a, 8)) /\ LiesAt(file_bytes, at + 8, Uint(b, 4))
      /\ LiesAt(file_bytes, at + 12, Uint(c, 8)) /\ LiesAt(file_bytes, at + 20, Uint(e, 4))
  BY <1>2 DEF EntryHolds
<1>6. 4 \in Nat \ {0} /\ 8 \in Nat \ {0}
  OBVIOUS
<1>7. /\ FieldReads(file_bytes, at, 8, a) /\ FieldReads(file_bytes, at + 8, 4, b)
      /\ FieldReads(file_bytes, at + 12, 8, c) /\ FieldReads(file_bytes, at + 20, 4, e)
  BY ONLY <1>4, <1>5, <1>6, FieldIsRead
<1>8. EntryReads(file_bytes, at, entry)
  BY <1>3, <1>7 DEF EntryReads
<1> QED BY <1>8 DEF at, entry

(* open keeps of the index what to_bytes put there.                        *)
LEMMA EntryIsKept ==
  ASSUME NEW made, Writable(made), NEW before, Adds(before, PairsOf(made), 0),
         NEW offs, Adds(offs, Records(made), FirstRecord(made)),
         NEW file_bytes, IndexIn(file_bytes, made, before, offs),
         NEW bytes, Len(bytes) \in Nat, BeginningOf(bytes, file_bytes),
         IndexIsThere(bytes), UintAt(bytes, 34) = Len(made.splits),
         NEW s \in 1..Len(made.splits)
  PROVE  IndexEntry(bytes, s) = EntryFor(made, before, offs, s)
<1> DEFINE at == 38 + 24 * (s - 1)
           entry == EntryFor(made, before, offs, s)
           a == entry.chunk_start
           b == entry.chunk_count
           c == entry.split_offset
           e == entry.split_len
<1>1. EntryReads(file_bytes, at, entry)
  BY EntryIsRead
<1>2. /\ HasUint(bytes, at, 8) /\ HasUint(bytes, at + 8, 4)
      /\ HasUint(bytes, at + 12, 8) /\ HasUint(bytes, at + 20, 4)
  BY DEF IndexIsThere, HeaderLen, IndexEntryLen
<1>3. /\ a \in FieldValue /\ b \in FieldValue /\ c \in FieldValue /\ e \in FieldValue
      /\ entry = [chunk_start |-> a, chunk_count |-> b, split_offset |-> c, split_len |-> e]
      /\ at \in Nat
  <2>1. /\ a = before[s] /\ b = Len(made.splits[s].pairs) /\ c = offs[s]
        /\ e = 8 + PayloadLen(made.splits[s])
        /\ entry = [chunk_start |-> a, chunk_count |-> b, split_offset |-> c, split_len |-> e]
    BY DEF EntryFor
  <2>2. a \in Nat /\ b \in Nat /\ c \in Nat /\ e \in Nat /\ at \in Nat
    <3>1. /\ before[s] \in Nat /\ Len(made.splits[s].pairs) \in Nat /\ offs[s] \in Nat
          /\ PayloadLen(made.splits[s]) \in Nat /\ at \in Nat
      BY EntryTypes
    <3> HIDE DEF a, b, c, e
    <3> QED BY <2>1, <3>1
  <2> QED BY <2>1, <2>2 DEF FieldValue
<1>4. IndexEntry(bytes, s) =
        [chunk_start |-> UintAt(bytes, at), chunk_count |-> UintAt(bytes, at + 8),
         split_offset |-> UintAt(bytes, at + 12), split_len |-> UintAt(bytes, at + 20)]
  BY DEF IndexEntry, HeaderLen, IndexEntryLen
<1>5. /\ FieldReads(file_bytes, at, 8, a) /\ FieldReads(file_bytes, at + 8, 4, b)
      /\ FieldReads(file_bytes, at + 12, 8, c) /\ FieldReads(file_bytes, at + 20, 4, e)
  BY <1>1 DEF EntryReads
<1> HIDE DEF at, entry, a, b, c, e
<1>6. /\ 4 \in Nat \ {0} /\ 8 \in Nat \ {0} /\ Len(bytes) \in Nat
      /\ at + 8 \in Nat /\ at + 12 \in Nat /\ at + 20 \in Nat /\ BeginningOf(bytes, file_bytes)
  BY <1>3
<1>7. FieldReads(bytes, at, 8, a)
  BY ONLY <1>2, <1>3, <1>5, <1>6, FieldOfBeginning
<1>8. FieldReads(bytes, at + 8, 4, b)
  BY ONLY <1>2, <1>3, <1>5, <1>6, FieldOfBeginning
<1>9. FieldReads(bytes, at + 12, 8, c)
  BY ONLY <1>2, <1>3, <1>5, <1>6, FieldOfBeginning
<1>10. FieldReads(bytes, at + 20, 4, e)
  BY ONLY <1>2, <1>3, <1>5, <1>6, FieldOfBeginning
<1> QED BY <1>3, <1>4, <1>7, <1>8, <1>9, <1>10 DEF FieldReads, entry

(* The reader of a file, or of the beginning of one.                       *)
LEMMA OpenedReader ==
  ASSUME NEW made, Writable(made), NEW order \in {"little", "big"},
         NEW before, Adds(before, PairsOf(made), 0), NEW offs,
         NEW file_bytes, FileHolds(file_bytes, made, order, before, offs),
         NEW bytes, Len(bytes) \in Nat, BeginningOf(bytes, file_bytes),
         OpenReader(bytes) # <<>>
  PROVE  ReaderIs(OpenReader(bytes)[1], bytes, made, before, offs)
<1> DEFINE splits == [s \in 1..UintAt(bytes, 34) |-> IndexEntry(bytes, s)]
           opened == [file |-> bytes,
                      original_sample_count |-> UintAt(bytes, 22),
                      dictionary_len |-> UintAt(bytes, 30),
                      dictionary_offset |-> DictionaryOffset(bytes),
                      splits |-> splits]
<1>1. HasHeader(bytes) /\ IndexIsThere(bytes) /\ OpenReader(bytes) = <<opened>>
  BY DEF OpenReader
<1>2. /\ Len(file_bytes) \in Nat /\ HeaderIn(file_bytes, made, order)
      /\ IndexIn(file_bytes, made, before, offs)
      /\ Adds(offs, Records(made), FirstRecord(made))
  BY DEF FileHolds, RecordsIn
<1>3. HeaderReads(bytes, made, order)
  BY <1>1, <1>2, HeaderOfBeginning
<1>4. /\ UintAt(bytes, 34) = Len(made.splits) /\ UintAt(bytes, 30) = Len(made.dictionary)
      /\ UintAt(bytes, 22) = made.original_sample_count
      /\ DictionaryOffset(bytes) = 38 + 24 * Len(made.splits)
  BY <1>3, PlacesAreRead DEF HeaderReads
<1>5. /\ DOMAIN splits = 1..Len(made.splits)
      /\ \A s \in 1..Len(made.splits) : splits[s] = EntryFor(made, before, offs, s)
  BY <1>1, <1>2, <1>4, EntryIsKept
<1> HIDE DEF splits
<1>6. OpenReader(bytes)[1] = opened
  BY <1>1
<1> QED BY <1>4, <1>5, <1>6 DEF ReaderIs

(* Sums only grow.                                                         *)
LEMMA SumsGrow ==
  ASSUME NEW q, Len(q) \in Nat, \A s \in 1..Len(q) : Len(q[s]) \in Nat,
         NEW first \in Nat, NEW sums, Adds(sums, q, first), NEW s \in 1..(Len(q) + 1)
  PROVE  first <= sums[s]
<1> DEFINE Bad == {t \in Nat : t \in 1..(Len(q) + 1) /\ ~ (first <= sums[t])}
<1>1. /\ sums \in [1..(Len(q) + 1) -> Nat] /\ sums[1] = first
      /\ \A t \in 1..Len(q) : sums[t + 1] = sums[t] + Len(q[t])
  BY DEF Adds
<1>2. Bad = {}
  <2>1. SUFFICES ASSUME Bad # {} PROVE FALSE
    OBVIOUS
  <2>2. PICK t \in Bad : \A j \in Bad : t <= j
    BY <2>1, LeastElement
  <2>3. t \in Nat /\ t \in 1..(Len(q) + 1) /\ ~ (first <= sums[t]) /\ t # 1
    BY <1>1, <2>2
  <2>4. t - 1 \in Nat /\ t - 1 \in 1..Len(q) /\ t - 1 \in 1..(Len(q) + 1) /\ (t - 1) + 1 = t
    BY <2>3
  <2>5. t - 1 \notin Bad
    BY <2>2, <2>3
  <2>6. first <= sums[t - 1] /\ sums[t] = sums[t - 1] + Len(q[t - 1])
    BY <1>1, <2>4, <2>5
  <2>7. sums[t - 1] \in Nat /\ Len(q[t - 1]) \in Nat
    BY <1>1, <2>4
  <2> QED BY <2>3, <2>6, <2>7
<1>3. s \in Nat
  OBVIOUS
<1> QED BY <1>2, <1>3

(* The whole file is opened.                                               *)
LEMMA WholeFileOpens ==
  ASSUME NEW made, Writable(made), NEW order \in {"little", "big"},
         NEW before, Adds(before, PairsOf(made), 0), NEW offs,
         NEW bytes, FileHolds(bytes, made, order, before, offs)
  PROVE  OpenReader(bytes) # <<>>
<1> DEFINE n == Len(made.splits)
           splits == [s \in 1..UintAt(bytes, 34) |-> IndexEntry(bytes, s)]
           dictionary_end == DictionaryOffset(bytes) + ChunkByteLen * UintAt(bytes, 30)
<1>1. /\ Len(bytes) \in Nat /\ HeaderIn(bytes, made, order)
      /\ IndexIn(bytes, made, before, offs)
      /\ Adds(offs, Records(made), FirstRecord(made))
  BY DEF FileHolds, RecordsIn
<1>2. HeaderReads(bytes, made, order)
  BY <1>1, HeaderIsRead
<1>3. /\ HasHeader(bytes) /\ UintAt(bytes, 34) = n /\ dictionary_end = FirstRecord(made)
      /\ FirstRecord(made) \in Nat
  BY <1>2, PlacesAreRead DEF HeaderReads
<1>4. IndexIsThere(bytes)
  <2> SUFFICES ASSUME NEW s \in 1..n
               PROVE  /\ HasUint(bytes, 38 + 24 * (s - 1), 8)
                      /\ HasUint(bytes, 38 + 24 * (s - 1) + 8, 4)
                      /\ HasUint(bytes, 38 + 24 * (s - 1) + 12, 8)
                      /\ HasUint(bytes, 38 + 24 * (s - 1) + 20, 4)
    BY <1>3 DEF IndexIsThere, HeaderLen, IndexEntryLen
  <2>1. EntryReads(bytes, 38 + 24 * (s - 1), EntryFor(made, before, offs, s))
    BY <1>1, EntryIsRead
  <2> QED BY <2>1 DEF EntryReads, FieldReads
<1>5. BeginningOf(bytes, bytes)
  BY <1>1 DEF BeginningOf
<1>6. ASSUME NEW s \in 1..n
      PROVE  ~ (splits[s].split_offset < dictionary_end \/ splits[s].split_len < RecordHeaderLen)
  <2>1. splits[s] = EntryFor(made, before, offs, s)
    BY <1>1, <1>3, <1>4, <1>5, EntryIsKept
  <2>2. PayloadLen(made.splits[s]) \in Nat /\ offs[s] \in Nat
    BY <1>1, EntryTypes
  <2>3. FirstRecord(made) <= offs[s]
    <3>1. /\ Len(Records(made)) = n /\ n \in Nat
          /\ \A t \in 1..Len(Records(made)) : Len(Records(made)[t]) \in Nat
      BY RecordsType DEF Writable
    <3>2. s \in 1..(Len(Records(made)) + 1)
      BY <3>1
    <3>3. FirstRecord(made) \in Nat
      BY <1>3
    <3> QED BY <1>1, <3>1, <3>2, <3>3, SumsGrow
  <2>4. splits[s].split_offset = offs[s] /\ splits[s].split_len = 8 + PayloadLen(made.splits[s])
    BY <2>1 DEF EntryFor
  <2> HIDE DEF splits, dictionary_end
  <2> QED BY <1>3, <2>2, <2>3, <2>4 DEF RecordHeaderLen
<1>7. DOMAIN splits = 1..n
  BY <1>3
<1>8. ~ \E s \in DOMAIN splits :
          splits[s].split_offset < dictionary_end \/ splits[s].split_len < RecordHeaderLen
  BY <1>6, <1>7
<1> QED BY <1>3, <1>4, <1>8 DEF OpenReader

----------------------------------------------------------------------------
(* m bytes from byte j on, of bits that were packed.                       *)
SliceOf(got, bits, j, m) ==
  /\ got = <<got[1]>>
  /\ got[1] \in Seq(Bit) /\ Len(got[1]) = 8 * m
  /\ \A a \in 1..(8 * m) : got[1][a] = bits[8 * j + a]

(* Bytes from the middle of packed data are the bits there.                *)
LEMMA SliceIsRead ==
  ASSUME NEW bits \in Seq(Bit), NEW whole \in Nat, Len(bits) = 8 * whole,
         NEW j \in Nat, NEW m \in Nat, j + m <= whole, NEW bytes, NEW at,
         \A k \in 1..m : bytes[at + k] = Packed(bits)[j + k]
  PROVE  SliceOf(<<PackedAt(bytes, at, m)>>, bits, j, m)
<1> DEFINE fields == [k \in 1..m |-> bytes[at + k].bits]
<1>1. Len(bits) \div 8 = whole
  OBVIOUS
<1>2. ASSUME NEW k \in 1..m
      PROVE  /\ fields[k] \in Seq(Bit) /\ Len(fields[k]) = 8
             /\ \A i \in 1..8 : fields[k][i] = bits[8 * j + (8 * k - 8 + i)]
  <2> DEFINE a == 8 * (j + k) - 7
             b == 8 * (j + k)
  <2>1. j + k \in 1..whole
    OBVIOUS
  <2>2. Packed(bits)[j + k] = [bits |-> SubSeq(bits, a, b)]
    BY <1>1, <2>1 DEF Packed
  <2>3. fields[k] = SubSeq(bits, a, b)
    BY <2>2
  <2>4. a \in 1..Len(bits) /\ b \in 1..Len(bits) /\ a <= b /\ b - a + 1 = 8
    BY <2>1
  <2>5. \A i \in 1..8 : a + i - 1 = 8 * j + (8 * k - 8 + i)
    BY <2>1
  <2> HIDE DEF a, b, fields
  <2>6. SubSeq(bits, a, b) \in Seq(Bit) /\ Len(SubSeq(bits, a, b)) = 8
    BY <2>4, SubSeqProperties
  <2>7. \A i \in 1..8 : SubSeq(bits, a, b)[i] = bits[a + i - 1]
    BY <2>4, SubSeqProperties
  <2> QED BY <2>3, <2>5, <2>6, <2>7
<1>3. PackedAt(bytes, at, m) = Join(fields, 8)
  BY DEF PackedAt
<1>4. fields = [k \in 1..m |-> fields[k]] /\ Len(fields) = m
  OBVIOUS
<1> HIDE DEF fields
<1>5. Join(fields, 8) = [a \in 1..(m * 8) |-> fields[FieldOf(a, 8)][PlaceOfBit(a, 8)]]
  BY <1>4 DEF Join
<1>6. ASSUME NEW a \in 1..(m * 8)
      PROVE  /\ fields[FieldOf(a, 8)][PlaceOfBit(a, 8)] = bits[8 * j + a]
             /\ fields[FieldOf(a, 8)][PlaceOfBit(a, 8)] \in Bit
  <2> DEFINE k == FieldOf(a, 8)
             i == PlaceOfBit(a, 8)
  <2>1. k \in 1..m /\ i \in 1..8 /\ 8 * k - 8 + i = a
    BY DEF FieldOf, PlaceOfBit
  <2> HIDE DEF k, i
  <2>2. fields[k][i] = bits[8 * j + (8 * k - 8 + i)]
    BY <1>2, <2>1
  <2>3. fields[k] \in Seq(Bit) /\ i \in 1..Len(fields[k])
    BY <1>2, <2>1
  <2>4. fields[k][i] \in Bit
    BY <2>3
  <2> QED BY <2>1, <2>2, <2>4 DEF k, i
<1> DEFINE got == PackedAt(bytes, at, m)
<1>7. got \in [1..(m * 8) -> Bit] /\ \A a \in 1..(m * 8) : got[a] = bits[8 * j + a]
  BY <1>3, <1>5, <1>6
<1>8. m * 8 \in Nat /\ m * 8 = 8 * m
  OBVIOUS
<1> HIDE DEF got
<1>9. got \in Seq(Bit) /\ Len(got) = 8 * m /\ \A a \in 1..(8 * m) : got[a] = bits[8 * j + a]
  BY <1>7, <1>8, FunctionIsSequence
<1>10. SliceOf(<<got>>, bits, j, m)
  BY <1>9 DEF SliceOf
<1> QED BY <1>10 DEF got

(* What the reader gets when it seeks into packed data: the bits there, or *)
(* an error if the file is cut off before.                                 *)
LEMMA SeekAndRead ==
  ASSUME NEW bits \in Seq(Bit), NEW whole \in Nat, Len(bits) = 8 * whole,
         NEW place \in Nat, NEW file_bytes, LiesAt(file_bytes, place, Packed(bits)),
         NEW bytes, Len(bytes) \in Nat, BeginningOf(bytes, file_bytes),
         NEW j \in Nat, NEW m \in Nat, j + m <= whole
  PROVE  /\ ReadPacked(bytes, place + j, m) # <<>>
              => SliceOf(ReadPacked(bytes, place + j, m), bits, j, m)
         /\ Len(bytes) = Len(file_bytes) => ReadPacked(bytes, place + j, m) # <<>>
<1> DEFINE at == place + j
           e == Packed(bits)
<1>1. e \in Seq([bits : Seq(Bit)]) /\ Len(e) = whole
  BY PackedHoldsBits
<1>2. place + whole <= Len(file_bytes) /\ \A k \in 1..whole : file_bytes[place + k] = e[k]
  BY <1>1 DEF LiesAt
<1>3. \A k \in 1..Len(bytes) : bytes[k] = file_bytes[k]
  BY DEF BeginningOf
<1> HIDE DEF e
<1>4. ASSUME at + m <= Len(bytes), NEW k \in 1..m
      PROVE  bytes[at + k] = e[j + k] /\ e[j + k] \in [bits : Seq(Bit)]
  <2>1. at + k \in 1..Len(bytes) /\ j + k \in 1..whole /\ at + k = place + (j + k)
    BY <1>4
  <2>2. e[j + k] \in [bits : Seq(Bit)]
    BY <1>1, <2>1, ElementOfSeq
  <2> HIDE DEF at
  <2> QED BY <1>2, <1>3, <2>1, <2>2
<1>5. ReadPacked(bytes, at, m) # <<>> => SliceOf(ReadPacked(bytes, at, m), bits, j, m)
  <2> SUFFICES ASSUME HasPacked(bytes, at, m)
               PROVE  SliceOf(<<PackedAt(bytes, at, m)>>, bits, j, m)
    BY DEF ReadPacked
  <2>1. at + m <= Len(bytes)
    BY DEF HasPacked
  <2>2. \A k \in 1..m : bytes[at + k] = Packed(bits)[j + k]
    BY <1>4, <2>1 DEF e
  <2> HIDE DEF at
  <2> QED BY <2>2, SliceIsRead
<1>6. ASSUME Len(bytes) = Len(file_bytes) PROVE ReadPacked(bytes, at, m) # <<>>
  <2>1. at + m <= Len(bytes)
    BY <1>2, <1>6
  <2>2. ASSUME NEW k \in 1..m PROVE "bits" \in DOMAIN bytes[at + k]
    <3>1. bytes[at + k] = e[j + k] /\ e[j + k] \in [bits : Seq(Bit)]
      BY <1>4, <2>1
    <3>2. "bits" \in DOMAIN e[j + k]
      BY <3>1
    <3> QED BY <3>1, <3>2
  <2>3. HasPacked(bytes, at, m)
    BY <2>1, <2>2 DEF HasPacked
  <2> QED BY <2>3 DEF ReadPacked
<1> QED BY <1>5, <1>6 DEF at

(* The bits a + 1 to a + l.                                                *)
BitsFrom(bits, a, l) == [i \in 1..l |-> bits[a + i]]

(* The bytes around l bits, of which the first `leading` are left out.     *)
LEMMA BytesAround ==
  ASSUME NEW whole \in Nat, NEW a \in Nat, NEW l \in Nat, a + l <= whole * 8
  PROVE  LET leading == a % 8
             j == a \div 8
             m == CeilDiv(leading + l, 8)
         IN  /\ leading \in Nat /\ j \in Nat /\ m \in Nat /\ j + m <= whole
             /\ 8 * j + leading = a /\ leading + l <= 8 * m
<1> DEFINE leading == a % 8
           j == a \div 8
           m == CeilDiv(leading + l, 8)
<1>1. leading \in Nat /\ leading < 8 /\ j \in Nat /\ 8 * j + leading = a
  OBVIOUS
<1>2. m = (leading + l + 7) \div 8
  BY <1>1 DEF CeilDiv
<1> HIDE DEF leading, j, m
<1>3. m \in Nat /\ 8 * m <= leading + l + 7 /\ leading + l <= 8 * m
  BY <1>1, <1>2
<1>4. j + m <= whole
  BY <1>1, <1>3
<1> QED BY <1>1, <1>3, <1>4 DEF leading, j, m

(* What is left of a slice without its first bits is what is asked for.    *)
IsAsked(got, leading, l, bits, a) ==
  SubSeq(got[1], leading + 1, leading + l) = BitsFrom(bits, a, l)

(* The bits of a slice that are asked for.                                 *)
LEMMA BitsOfSlice ==
  ASSUME NEW bits, NEW j \in Nat, NEW m \in Nat, NEW got, SliceOf(got, bits, j, m),
         NEW leading \in Nat, NEW l \in Nat, leading + l <= 8 * m, NEW a, a = 8 * j + leading
  PROVE  IsAsked(got, leading, l, bits, a)
<1> DEFINE s == got[1]
<1>1. s \in Seq(Bit) /\ Len(s) = 8 * m /\ \A i \in 1..(8 * m) : s[i] = bits[8 * j + i]
  BY DEF SliceOf
<1> HIDE DEF s
<1>2. SubSeq(s, leading + 1, leading + l) = [i \in 1..l |-> s[leading + i]]
  BY <1>1, MiddlePlaces
<1>3. ASSUME NEW i \in 1..l PROVE s[leading + i] = bits[a + i]
  <2>1. leading + i \in 1..(8 * m) /\ 8 * j + (leading + i) = a + i
    OBVIOUS
  <2> QED BY <1>1, <2>1
<1>4. SubSeq(s, leading + 1, leading + l) = [i \in 1..l |-> bits[a + i]]
  BY <1>2, <1>3
<1> QED BY <1>4 DEF BitsFrom, IsAsked, s

(* An answer is the right one, and there is one if nothing is cut off.     *)
IsAnswered(got, value, bytes, file_bytes) ==
  /\ got # <<>> => got = <<value>>
  /\ Len(bytes) = Len(file_bytes) => got # <<>>

(* What read_payload_value gives: the bits, or an error if the file is cut *)
(* off.                                                                    *)
LEMMA PayloadIsRead ==
  ASSUME NEW split \in Split, SplitFits(split), NEW at \in Nat,
         NEW file_bytes, LiesAt(file_bytes, at + 8, Packed(PairBytes(split))),
         NEW bytes, Len(bytes) \in Nat, BeginningOf(bytes, file_bytes),
         NEW reader, reader.file = bytes, NEW entry, entry.split_offset = at,
         UintAt(bytes, at + 4) = PayloadLen(split),
         NEW a \in Nat, NEW l \in Nat, a + l <= 8 * PayloadLen(split)
  PROVE  IsAnswered(PayloadBits(reader, entry, a, l), BitsFrom(PairBytes(split), a, l),
                 bytes, file_bytes)
<1> DEFINE leading == a % 8
           j == a \div 8
           m == CeilDiv(leading + l, 8)
           bits == PairBytes(split)
           whole == PayloadLen(split)
           place == at + 8
           got == ReadPacked(bytes, place + j, m)
           result == PayloadBits(reader, entry, a, l)
<1>1. bits \in Seq(Bit) /\ whole \in Nat /\ Len(bits) = 8 * whole
  BY PairBytesHold
<1>2. a + l <= whole * 8
  <2> HIDE DEF whole
  <2>1. 8 * whole = whole * 8
    BY <1>1
  <2> QED BY <2>1 DEF whole
<1>3. /\ leading \in Nat /\ j \in Nat /\ m \in Nat /\ j + m <= whole
      /\ 8 * j + leading = a /\ leading + l <= 8 * m
  <2> HIDE DEF whole
  <2> QED BY <1>1, <1>2, BytesAround
<1>4. result = IF a + l > whole * 8 THEN <<>>
               ELSE IF l = 0 THEN << <<>> >>
               ELSE IF got = <<>> THEN <<>>
               ELSE <<SubSeq(got[1], leading + 1, leading + l)>>
  BY DEF PayloadBits, RecordHeaderLen
<1>5. LiesAt(file_bytes, place, Packed(bits)) /\ place \in Nat
  OBVIOUS
<1> HIDE DEF bits, whole, place, leading, j, m
<1>6. got # <<>> => SliceOf(got, bits, j, m)
  BY <1>1, <1>3, <1>5, SeekAndRead
<1>7. Len(bytes) = Len(file_bytes) => got # <<>>
  BY <1>1, <1>3, <1>5, SeekAndRead
<1> HIDE DEF got, result
<1>8. ~ (a + l > whole * 8)
  BY <1>1, <1>2
<1>9. CASE l = 0
  <2>1. result = << <<>> >>
    BY <1>4, <1>8, <1>9
  <2>2. BitsFrom(bits, a, l) = <<>>
    BY <1>9 DEF BitsFrom
  <2>3. IsAnswered(result, BitsFrom(bits, a, l), bytes, file_bytes)
    BY <2>1, <2>2 DEF IsAnswered
  <2> QED BY <2>3 DEF result, bits
<1>10. CASE l # 0
  <2>1. result = IF got = <<>> THEN <<>> ELSE <<SubSeq(got[1], leading + 1, leading + l)>>
    BY <1>4, <1>8, <1>10
  <2>2. got # <<>> => result = <<BitsFrom(bits, a, l)>>
    <3> SUFFICES ASSUME got # <<>> PROVE result = <<BitsFrom(bits, a, l)>>
      OBVIOUS
    <3>1. SliceOf(got, bits, j, m)
      BY <1>6
    <3>2. /\ leading \in Nat /\ j \in Nat /\ m \in Nat /\ l \in Nat
          /\ leading + l <= 8 * m /\ a = 8 * j + leading
      BY <1>3
    <3>3. IsAsked(got, leading, l, bits, a)
      BY <3>1, <3>2, BitsOfSlice
    <3> QED BY <2>1, <3>3 DEF IsAsked
  <2>3. result # <<>> => result = <<BitsFrom(bits, a, l)>>
    BY <2>1, <2>2
  <2>4. Len(bytes) = Len(file_bytes) => result # <<>>
    <3> SUFFICES ASSUME Len(bytes) = Len(file_bytes) PROVE result # <<>>
      OBVIOUS
    <3>1. result = <<BitsFrom(bits, a, l)>>
      BY <1>7, <2>2
    <3> QED BY ONLY <3>1
  <2>5. IsAnswered(result, BitsFrom(bits, a, l), bytes, file_bytes)
    BY <2>3, <2>4 DEF IsAnswered
  <2> QED BY <2>5 DEF result, bits
<1> QED BY <1>9, <1>10

(* The bytes of a base.                                                    *)
LEMMA BaseIsFetched ==
  ASSUME NEW made, Writable(made), NEW file_bytes, Len(file_bytes) \in Nat,
         DictionaryIn(file_bytes, made),
         NEW bytes, Len(bytes) \in Nat, BeginningOf(bytes, file_bytes),
         NEW before, NEW offs, NEW reader, ReaderIs(reader, bytes, made, before, offs),
         NEW id \in Nat, id < Len(made.dictionary),
         NEW j \in Nat, NEW m \in Nat, j + m <= ChunkByteLen
  PROVE  /\ BaseBytes(reader, id, j, m) # <<>>
              => SliceOf(BaseBytes(reader, id, j, m), PadToByte(made.dictionary[id + 1]), j, m)
         /\ Len(bytes) = Len(file_bytes) => BaseBytes(reader, id, j, m) # <<>>
<1> DEFINE base == made.dictionary[id + 1]
           w == ChunkByteLen
           place == 38 + 24 * Len(made.splits) + ((id + 1) - 1) * w
           bits == PadToByte(base)
<1>1. id + 1 \in 1..Len(made.dictionary) /\ (id + 1) - 1 = id
  BY DEF Writable
<1>2. base \in PackedBase /\ place \in Nat /\ LiesAt(file_bytes, place, Packed(bits))
  BY <1>1, BaseLies
<1>3. w \in Nat /\ bits \in Seq(Bit) /\ Len(bits) = 8 * w
  BY <1>2, PaddedBase
<1>4. place = 38 + 24 * Len(made.splits) + id * w
  BY <1>1
<1>5. BaseBytes(reader, id, j, m) = ReadPacked(bytes, place + j, m)
  <2>1. ~ (id >= reader.dictionary_len)
    BY DEF ReaderIs, Writable
  <2>2. reader.dictionary_offset = 38 + 24 * Len(made.splits) /\ reader.file = bytes
    BY DEF ReaderIs
  <2> HIDE DEF place
  <2> QED BY <1>4, <2>1, <2>2 DEF BaseBytes
<1>6. j + m <= w
  OBVIOUS
<1> HIDE DEF base, w, place, bits
<1>7. /\ ReadPacked(bytes, place + j, m) # <<>>
           => SliceOf(ReadPacked(bytes, place + j, m), bits, j, m)
      /\ Len(bytes) = Len(file_bytes) => ReadPacked(bytes, place + j, m) # <<>>
  BY <1>2, <1>3, <1>6, SeekAndRead
<1> QED BY <1>5, <1>7 DEF bits, base

----------------------------------------------------------------------------
(* Reading by the index.                                                   *)

(* An open reader of a file that holds the chunks C, or of the beginning   *)
(* of one.                                                                 *)
OpenOn(reader, bytes, file_bytes, made, before, offs, C) ==
  /\ Writable(made) /\ ContainsChunks(made, before, C)
  /\ Adds(before, PairsOf(made), 0)
  /\ Len(file_bytes) \in Nat /\ DictionaryIn(file_bytes, made)
  /\ RecordsIn(file_bytes, made, offs)
  /\ Len(bytes) \in Nat /\ BeginningOf(bytes, file_bytes)
  /\ ReaderIs(reader, bytes, made, before, offs)

(* All of the file is there.                                               *)
IsWhole(bytes, file_bytes, made) == Len(bytes) = Len(file_bytes) /\ NarrowIds(made)

(* Chunk q is the i-th of split s.                                         *)
IsAt(q, s, i, made, before) ==
  /\ s \in 1..Len(made.splits) /\ i \in 1..Len(made.splits[s].pairs)
  /\ before[s] \in Nat /\ q + 1 = before[s] + i

(* The chunks before the splits add up.                                    *)
LEMMA ChunksAddUp ==
  ASSUME NEW made, NEW before, NEW C, ContainsChunks(made, before, C)
  PROVE  Adds(before, PairsOf(made), 0) /\ before[Len(made.splits) + 1] = Len(C)
<1> DEFINE n == Len(made.splits)
           q == PairsOf(made)
<1>1. LaidOut(made.splits, before, Len(C), made.dictionary, C) /\ C \in Seq(Chunk)
  BY DEF ContainsChunks
<1>2. n \in Nat /\ Len(q) = n /\ \A s \in 1..n : q[s] = made.splits[s].pairs
  BY <1>1 DEF LaidOut, PairsOf
<1>3. /\ before \in [1..(n + 1) -> 0..Len(C)] /\ before[1] = 0 /\ before[n + 1] = Len(C)
      /\ \A s \in 1..n : before[s + 1] = before[s] + Len(made.splits[s].pairs)
  BY <1>1 DEF LaidOut, HoldsChunks
<1>4. \A k \in 0..Len(C) : k \in Nat
  OBVIOUS
<1> HIDE DEF q, n
<1>5. before \in [1..(n + 1) -> Nat]
  BY <1>3, <1>4
<1> QED BY <1>2, <1>3, <1>5 DEF Adds, q, n

(* Every chunk is in a split.                                              *)
LEMMA ChunkHasAPlace ==
  ASSUME NEW made, NEW before, NEW C, ContainsChunks(made, before, C),
         NEW q \in Nat, q < Len(C)
  PROVE  \E s \in 1..Len(made.splits) : before[s] <= q /\ q < before[s + 1]
<1> DEFINE n == Len(made.splits)
           After == {t \in Nat : t \in 1..(n + 1) /\ q < before[t]}
<1>1. /\ before \in [1..(n + 1) -> Nat] /\ before[1] = 0 /\ before[n + 1] = Len(C)
      /\ n \in Nat
  <2>1. Adds(before, PairsOf(made), 0) /\ before[n + 1] = Len(C) /\ made.splits \in Seq(Split)
    BY ChunksAddUp DEF ContainsChunks, LaidOut
  <2>2. n \in Nat /\ Len(PairsOf(made)) = n
    BY <2>1 DEF PairsOf
  <2> QED BY <2>1, <2>2 DEF Adds
<1>2. After # {}
  <2>1. n + 1 \in After
    BY <1>1
  <2> QED BY <2>1
<1>3. PICK t \in After : \A j \in After : t <= j
  BY <1>2, LeastElement
<1>4. t \in Nat /\ t \in 1..(n + 1) /\ q < before[t] /\ t # 1
  BY <1>1, <1>3
<1>5. t - 1 \in Nat /\ t - 1 \in 1..n /\ t - 1 \in 1..(n + 1) /\ (t - 1) + 1 = t
  BY <1>1, <1>4
<1>6. t - 1 \notin After
  BY <1>3, <1>4
<1>7. ~ (q < before[t - 1]) /\ before[t - 1] \in Nat
  BY <1>1, <1>5, <1>6
<1>8. before[t - 1] <= q /\ q < before[(t - 1) + 1]
  BY <1>4, <1>5, <1>7
<1> QED BY <1>5, <1>8

(* split_for_chunk finds the chunk's place by the index.                   *)
LEMMA EntryIsFound ==
  ASSUME NEW reader, NEW bytes, NEW file_bytes, NEW made, NEW before, NEW offs, NEW C,
         OpenOn(reader, bytes, file_bytes, made, before, offs, C),
         NEW q \in Nat, q < Len(C)
  PROVE  \E s, i : /\ IsAt(q, s, i, made, before)
                   /\ IndexedSplit(reader, q) = <<EntryFor(made, before, offs, s)>>
<1> DEFINE n == Len(made.splits)
           covering == {s \in DOMAIN reader.splits : Covers(reader.splits[s], q)}
           Size(s) == Len(made.splits[s].pairs)
<1>1. /\ ContainsChunks(made, before, C) /\ ReaderIs(reader, bytes, made, before, offs)
      /\ Adds(before, PairsOf(made), 0) /\ made.splits \in Seq(Split)
  BY DEF OpenOn, Writable
<1>2. /\ DOMAIN reader.splits = 1..n
      /\ \A s \in 1..n : reader.splits[s] = EntryFor(made, before, offs, s)
  BY <1>1 DEF ReaderIs
<1>3. n \in Nat /\ \A s \in 1..n : Size(s) \in Nat /\ before[s] \in Nat
                                    /\ before[s + 1] = before[s] + Size(s)
  <2>1. /\ n \in Nat /\ Len(PairsOf(made)) = n
        /\ \A s \in 1..n : PairsOf(made)[s] = made.splits[s].pairs
    BY <1>1 DEF PairsOf
  <2>2. \A s \in 1..n : Size(s) \in Nat
    BY <1>1, SplitFields
  <2>3. \A s \in 1..n : s \in 1..(n + 1)
    BY <2>1
  <2> QED BY <1>1, <2>1, <2>2, <2>3 DEF Adds
<1>4. \A s \in 1..n : Covers(reader.splits[s], q) <=> before[s] <= q /\ q < before[s] + Size(s)
  <2> SUFFICES ASSUME NEW s \in 1..n
               PROVE  Covers(reader.splits[s], q)
                        <=> before[s] <= q /\ q < before[s] + Size(s)
    OBVIOUS
  <2>1. reader.splits[s] = EntryFor(made, before, offs, s)
    BY <1>2
  <2>2. reader.splits[s].chunk_start = before[s] /\ reader.splits[s].chunk_count = Size(s)
    BY <2>1 DEF EntryFor
  <2> HIDE DEF Size
  <2> QED BY <2>2 DEF Covers
<1>5. PICK s \in 1..n : before[s] <= q /\ q < before[s + 1]
  BY <1>1, ChunkHasAPlace
<1>6. s \in covering /\ covering \subseteq Nat
  BY <1>2, <1>3, <1>4, <1>5
<1>7. \E t \in covering : \A u \in covering : t <= u
  BY <1>6, LeastElement
<1> DEFINE t == CHOOSE x \in covering : \A u \in covering : x <= u
<1>8. t \in covering
  BY <1>7
<1>9. IndexedSplit(reader, q) = <<reader.splits[t]>>
  BY <1>6 DEF IndexedSplit
<1> HIDE DEF t
<1>10. t \in 1..n /\ before[t] <= q /\ q < before[t] + Size(t)
  BY <1>2, <1>4, <1>8
<1> DEFINE i == q + 1 - before[t]
<1>11. i \in 1..Size(t) /\ q + 1 = before[t] + i
  <2>1. Size(t) \in Nat /\ before[t] \in Nat
    BY <1>3, <1>10
  <2> HIDE DEF Size
  <2> QED BY <1>10, <2>1
<1>12. IsAt(q, t, i, made, before)
  BY <1>3, <1>10, <1>11 DEF IsAt
<1>13. IndexedSplit(reader, q) = <<EntryFor(made, before, offs, t)>>
  BY <1>2, <1>9, <1>10
<1> QED BY <1>12, <1>13

----------------------------------------------------------------------------
(* What a reader has seen in the header of a split record.                 *)
SplitSeen(bytes, at, split) ==
  /\ UintAt(bytes, at) = split.l_id /\ UintAt(bytes, at + 1) = split.l_d
  /\ UintAt(bytes, at + 4) = PayloadLen(split)

(* The parts of the file that one split takes.                             *)
LEMMA SplitInFile ==
  ASSUME NEW reader, NEW bytes, NEW file_bytes, NEW made, NEW before, NEW offs, NEW C,
         OpenOn(reader, bytes, file_bytes, made, before, offs, C),
         NEW q, NEW s, NEW i, IsAt(q, s, i, made, before)
  PROVE  /\ made.splits[s] \in Split /\ SplitFits(made.splits[s]) /\ offs[s] \in Nat
         /\ PayloadLen(made.splits[s]) \in Nat
         /\ RecordHolds(file_bytes, offs[s], made.splits[s])
<1> DEFINE split == made.splits[s]
           at == offs[s]
<1>1. /\ Writable(made) /\ Len(file_bytes) \in Nat /\ RecordsIn(file_bytes, made, offs)
      /\ s \in 1..Len(made.splits)
  BY DEF OpenOn, IsAt
<1>2. split \in Split /\ SplitFits(split)
  BY <1>1 DEF Writable
<1>3. at \in Nat
  <2>1. s \in 1..(Len(made.splits) + 1) /\ Len(Records(made)) = Len(made.splits)
    BY <1>1, RecordsType DEF Writable
  <2> QED BY <1>1, <2>1 DEF RecordsIn, Adds
<1>4. LiesAt(file_bytes, at, SplitRecord(split))
  BY <1>1 DEF RecordsIn
<1> HIDE DEF split, at
<1>5. RecordHolds(file_bytes, at, split) /\ PayloadLen(split) \in Nat
  BY <1>1, <1>2, <1>3, <1>4, RecordInFile, RecordParts
<1> QED BY <1>2, <1>3, <1>5 DEF split, at

(* A field of a file is in all copies of it.                               *)
LEMMA UintStays ==
  ASSUME NEW file_bytes, NEW bytes, Len(bytes) \in Nat, Len(bytes) = Len(file_bytes),
         BeginningOf(bytes, file_bytes), NEW at \in Nat, NEW width \in Nat,
         HasUint(file_bytes, at, width)
  PROVE  HasUint(bytes, at, width)
<1>1. at + width <= Len(bytes)
  BY DEF HasUint
<1>2. ASSUME NEW k \in 1..width PROVE bytes[at + k] = file_bytes[at + k]
  <2>1. at + k \in 1..Len(bytes)
    BY <1>1
  <2> QED BY <2>1 DEF BeginningOf
<1> QED BY <1>1, <1>2 DEF HasUint

(* A record that passes is the split's; in the whole file, every one does. *)
LEMMA RecordPasses ==
  ASSUME NEW reader, NEW bytes, NEW file_bytes, NEW made, NEW before, NEW offs, NEW C,
         OpenOn(reader, bytes, file_bytes, made, before, offs, C),
         NEW q, NEW s, NEW i, IsAt(q, s, i, made, before)
  PROVE  LET entry == EntryFor(made, before, offs, s)
         IN  /\ RecordMatches(reader, entry, i - 1)
                  => SplitSeen(bytes, offs[s], made.splits[s])
             /\ IsWhole(bytes, file_bytes, made) => RecordMatches(reader, entry, i - 1)
<1> DEFINE split == made.splits[s]
           at == offs[s]
           entry == EntryFor(made, before, offs, s)
           m == PayloadLen(split)
           k == Len(split.pairs)
<1>1. /\ split \in Split /\ SplitFits(split) /\ at \in Nat /\ m \in Nat
      /\ RecordHolds(file_bytes, at, split)
  BY SplitInFile
<1>2. /\ Len(bytes) \in Nat /\ BeginningOf(bytes, file_bytes) /\ reader.file = bytes
      /\ s \in 1..Len(made.splits) /\ i \in 1..Len(split.pairs) /\ Len(file_bytes) \in Nat
  BY DEF OpenOn, IsAt, ReaderIs
<1>3. /\ entry.split_offset = at /\ entry.chunk_count = k /\ entry.split_len = 8 + m
  BY DEF EntryFor
<1> HIDE DEF split, at, entry, m, k
<1>4. RecordReads(file_bytes, at, split)
  BY <1>1, RecordIsRead
<1>5. /\ FieldReads(file_bytes, at, 1, split.l_id) /\ FieldReads(file_bytes, at + 1, 1, split.l_d)
      /\ FieldReads(file_bytes, at + 2, 2, k) /\ FieldReads(file_bytes, at + 4, 4, m)
  BY <1>4 DEF RecordReads, k, m
<1>6. /\ split.l_id \in FieldValue /\ split.l_d \in FieldValue /\ k \in FieldValue
      /\ m \in FieldValue /\ split.l_d <= ChunkBitLen /\ k \in Nat
  BY <1>1, SplitFields DEF FieldValue, k
<1>7. /\ 1 \in Nat \ {0} /\ 2 \in Nat \ {0} /\ 4 \in Nat \ {0}
      /\ at + 1 \in Nat /\ at + 2 \in Nat /\ at + 4 \in Nat
  BY <1>1
<1>8. /\ HasUint(bytes, at, 1) => FieldReads(bytes, at, 1, split.l_id)
      /\ HasUint(bytes, at + 1, 1) => FieldReads(bytes, at + 1, 1, split.l_d)
      /\ HasUint(bytes, at + 2, 2) => FieldReads(bytes, at + 2, 2, k)
      /\ HasUint(bytes, at + 4, 4) => FieldReads(bytes, at + 4, 4, m)
  <2>1. HasUint(bytes, at, 1) => FieldReads(bytes, at, 1, split.l_id)
    BY ONLY <1>1, <1>2, <1>5, <1>6, <1>7, FieldOfBeginning
  <2>2. HasUint(bytes, at + 1, 1) => FieldReads(bytes, at + 1, 1, split.l_d)
    BY ONLY <1>2, <1>5, <1>6, <1>7, FieldOfBeginning
  <2>3. HasUint(bytes, at + 2, 2) => FieldReads(bytes, at + 2, 2, k)
    BY ONLY <1>2, <1>5, <1>6, <1>7, FieldOfBeginning
  <2>4. HasUint(bytes, at + 4, 4) => FieldReads(bytes, at + 4, 4, m)
    BY ONLY <1>2, <1>5, <1>6, <1>7, FieldOfBeginning
  <2> QED BY <2>1, <2>2, <2>3, <2>4
<1>9. RecordMatches(reader, entry, i - 1) => SplitSeen(bytes, at, split)
  <2> SUFFICES ASSUME RecordMatches(reader, entry, i - 1) PROVE SplitSeen(bytes, at, split)
    OBVIOUS
  <2>1. HasUint(bytes, at, 1) /\ HasUint(bytes, at + 1, 1) /\ HasUint(bytes, at + 4, 4)
    BY <1>2, <1>3 DEF RecordMatches
  <2> QED BY <1>8, <2>1 DEF SplitSeen, FieldReads, m
<1>10. IsWhole(bytes, file_bytes, made) => RecordMatches(reader, entry, i - 1)
  <2> SUFFICES ASSUME IsWhole(bytes, file_bytes, made) PROVE RecordMatches(reader, entry, i - 1)
    OBVIOUS
  <2>1. /\ HasUint(file_bytes, at, 1) /\ HasUint(file_bytes, at + 1, 1)
        /\ HasUint(file_bytes, at + 2, 2) /\ HasUint(file_bytes, at + 4, 4)
    BY <1>5 DEF FieldReads
  <2>2. Len(bytes) = Len(file_bytes)
    BY DEF IsWhole
  <2>3. HasUint(bytes, at, 1)
    BY ONLY <1>1, <1>2, <1>7, <2>1, <2>2, UintStays
  <2>4. HasUint(bytes, at + 1, 1)
    BY ONLY <1>1, <1>2, <1>7, <2>1, <2>2, UintStays
  <2>5. HasUint(bytes, at + 2, 2)
    BY ONLY <1>1, <1>2, <1>7, <2>1, <2>2, UintStays
  <2>6. HasUint(bytes, at + 4, 4)
    BY ONLY <1>1, <1>2, <1>7, <2>1, <2>2, UintStays
  <2>7. /\ UintAt(bytes, at) = split.l_id /\ UintAt(bytes, at + 1) = split.l_d
        /\ UintAt(bytes, at + 2) = k /\ UintAt(bytes, at + 4) = m
    BY <1>8, <2>3, <2>4, <2>5, <2>6 DEF FieldReads
  <2>8. split.l_id <= IdBits
    BY <1>2 DEF IsWhole, NarrowIds, split
  <2>9. i - 1 < k /\ m + 8 <= 8 + m
    BY <1>1, <1>2, <1>6 DEF k
  <2> QED BY <1>2, <1>3, <1>6, <2>3, <2>4, <2>5, <2>6, <2>7, <2>8, <2>9
          DEF RecordMatches, RecordHeaderLen
<1> QED BY <1>9, <1>10 DEF at, split, entry

----------------------------------------------------------------------------
(* Bits of a field, where the field is.                                    *)
SameBits(bits, start, field, off, l) == BitsFrom(bits, start + off, l) = BitsFrom(field, off, l)

(* l bits from the middle of a pair.                                       *)
LEMMA BitsOfField ==
  ASSUME NEW bits, NEW start \in Nat, NEW field, Len(field) \in Nat, LiesAt(bits, start, field),
         NEW off \in Nat, NEW l \in Nat, off + l <= Len(field)
  PROVE  SameBits(bits, start, field, off, l)
<1>1. ASSUME NEW k \in 1..l PROVE bits[(start + off) + k] = field[off + k]
  <2>1. off + k \in 1..Len(field) /\ (start + off) + k = start + (off + k)
    OBVIOUS
  <2> QED BY <2>1 DEF LiesAt
<1> QED BY <1>1 DEF BitsFrom, SameBits

(* The bits of a pair as they are read.                                    *)
LEMMA PairIsFetched ==
  ASSUME NEW reader, NEW bytes, NEW file_bytes, NEW made, NEW before, NEW offs, NEW C,
         OpenOn(reader, bytes, file_bytes, made, before, offs, C),
         NEW q, NEW s, NEW i, IsAt(q, s, i, made, before),
         SplitSeen(bytes, offs[s], made.splits[s]),
         NEW off \in Nat, NEW l \in Nat, off + l <= PairWidth(made.splits[s])
  PROVE  LET split == made.splits[s]
             result == PayloadBits(reader, EntryFor(made, before, offs, s),
                                   (i - 1) * PairWidth(split) + off, l)
         IN  IsAnswered(result, BitsFrom(PairField(split, i), off, l), bytes, file_bytes)
<1> DEFINE split == made.splits[s]
           at == offs[s]
           entry == EntryFor(made, before, offs, s)
           m == PayloadLen(split)
           w == PairWidth(split)
           bits == PairBytes(split)
           field == PairField(split, i)
           start == (i - 1) * w
           result == PayloadBits(reader, entry, start + off, l)
<1>1. /\ split \in Split /\ SplitFits(split) /\ at \in Nat /\ m \in Nat
      /\ RecordHolds(file_bytes, at, split)
  BY SplitInFile
<1>2. /\ Len(bytes) \in Nat /\ BeginningOf(bytes, file_bytes) /\ reader.file = bytes
      /\ i \in 1..Len(split.pairs) /\ Len(file_bytes) \in Nat
  BY DEF OpenOn, IsAt, ReaderIs
<1>3. entry.split_offset = at
  BY DEF EntryFor
<1>4. LiesAt(file_bytes, at + 8, Packed(bits)) /\ UintAt(bytes, at + 4) = m
  BY <1>1 DEF RecordHolds, SplitSeen
<1>5. off + l <= w /\ w \in Nat
  BY <1>1, SplitFields
<1> HIDE DEF split, at, entry
<1>6. LiesAt(bits, start, field) /\ Len(bits) = 8 * m
  BY <1>1, <1>2, PairBytesHold
<1>7. Len(field) = w
  BY <1>1, <1>2, PairFieldHolds DEF SplitFits
<1>8. start \in Nat
  <2>1. i \in Nat \ {0}
    BY <1>1, <1>2, SplitFields
  <2> HIDE DEF w
  <2> QED BY <1>5, <2>1, StartOfNext
<1> DEFINE a == start + off
<1> HIDE DEF m, w, field, start, result
<1>9. a + l <= 8 * m /\ a \in Nat
  BY <1>1, <1>5, <1>6, <1>7, <1>8 DEF LiesAt
<1> HIDE DEF a
<1>10. IsAnswered(result, BitsFrom(bits, a, l), bytes, file_bytes)
  <2>1. a + l <= 8 * PayloadLen(split) /\ UintAt(bytes, at + 4) = PayloadLen(split)
    BY <1>4, <1>9 DEF m
  <2>2. LiesAt(file_bytes, at + 8, Packed(PairBytes(split)))
    BY <1>4
  <2>3. result = PayloadBits(reader, entry, a, l) /\ bits = PairBytes(split)
    BY DEF result, a
  <2> HIDE DEF bits
  <2>4. IsAnswered(PayloadBits(reader, entry, a, l), BitsFrom(PairBytes(split), a, l),
                bytes, file_bytes)
    BY ONLY <1>1, <1>2, <1>3, <1>9, <2>1, <2>2, l \in Nat, PayloadIsRead
  <2> QED BY <2>3, <2>4
<1>11. BitsFrom(bits, a, l) = BitsFrom(field, off, l)
  <2>1. Len(field) \in Nat /\ off + l <= Len(field)
    BY <1>5, <1>7
  <2> HIDE DEF bits
  <2>2. SameBits(bits, start, field, off, l)
    BY <1>6, <1>8, <2>1, BitsOfField
  <2> QED BY <2>2 DEF SameBits, a
<1> QED BY <1>10, <1>11 DEF split, entry, w, field, start, result

(* All bits of a pair are the pair.                                        *)
LEMMA WholeField ==
  ASSUME NEW field \in Seq(Bit), NEW w \in Nat, Len(field) = w
  PROVE  BitsFrom(field, 0, w) = field
<1>1. \A k \in 1..w : 0 + k = k
  OBVIOUS
<1>2. field = [k \in 1..w |-> field[k]]
  OBVIOUS
<1> QED BY <1>1, <1>2 DEF BitsFrom

(* The first bits of a pair, as a sequence.                                *)
LEMMA FirstBits ==
  ASSUME NEW field \in Seq(Bit), NEW n \in Nat, n <= Len(field)
  PROVE  BitsFrom(field, 0, n) = SubSeq(field, 1, n)
<1>1. SubSeq(field, 0 + 1, 0 + n) = [k \in 1..n |-> field[0 + k]]
  BY MiddlePlaces
<1> QED BY <1>1 DEF BitsFrom

----------------------------------------------------------------------------
(* A base that is read whole.                                              *)
BaseIsGot(got, base, bytes, file_bytes) ==
  /\ got # <<>> => SubSeq(got[1], 1, ChunkBitLen) = base
  /\ Len(bytes) = Len(file_bytes) => got # <<>>

(* All bytes of a base are the base.                                       *)
LEMMA WholeBaseIsFetched ==
  ASSUME NEW reader, NEW bytes, NEW file_bytes, NEW made, NEW before, NEW offs, NEW C,
         OpenOn(reader, bytes, file_bytes, made, before, offs, C),
         NEW id \in Nat, id < Len(made.dictionary)
  PROVE  BaseIsGot(BaseBytes(reader, id, 0, ChunkByteLen), made.dictionary[id + 1],
                   bytes, file_bytes)
<1> DEFINE got == BaseBytes(reader, id, 0, ChunkByteLen)
           base == made.dictionary[id + 1]
           padded == PadToByte(base)
           w == ChunkByteLen
<1>1. /\ Writable(made) /\ Len(file_bytes) \in Nat /\ DictionaryIn(file_bytes, made)
      /\ Len(bytes) \in Nat /\ BeginningOf(bytes, file_bytes)
      /\ ReaderIs(reader, bytes, made, before, offs)
  BY DEF OpenOn
<1>2. base \in PackedBase
  <2>1. made.dictionary \in Seq(PackedBase) /\ id + 1 \in 1..Len(made.dictionary)
    BY <1>1 DEF Writable
  <2> QED BY <2>1
<1>3. /\ w \in Nat /\ padded \in Seq(Bit) /\ Len(padded) = 8 * w
      /\ SubSeq(padded, 1, ChunkBitLen) = base
  BY <1>2, PaddedBase
<1>4. 0 \in Nat /\ 0 + w <= w
  BY <1>3
<1>5. /\ got # <<>> => SliceOf(got, padded, 0, w)
      /\ Len(bytes) = Len(file_bytes) => got # <<>>
  <2>1. 0 + ChunkByteLen <= ChunkByteLen /\ ChunkByteLen \in Nat
    BY <1>3, <1>4
  <2> QED BY <1>1, <1>4, <2>1, BaseIsFetched
<1> HIDE DEF got, base, padded, w
<1>6. ASSUME SliceOf(got, padded, 0, w) PROVE got[1] = padded
  <2>1. got[1] \in Seq(Bit) /\ Len(got[1]) = 8 * w
    BY <1>6 DEF SliceOf
  <2>2. \A a \in 1..(8 * w) : got[1][a] = padded[8 * 0 + a]
    BY <1>6 DEF SliceOf
  <2>3. \A a \in 1..(8 * w) : 8 * 0 + a = a
    OBVIOUS
  <2>4. \A a \in 1..(8 * w) : got[1][a] = padded[a]
    BY <2>2, <2>3
  <2> QED BY <1>3, <2>1, <2>4, SeqEqual
<1>7. got # <<>> => SubSeq(got[1], 1, ChunkBitLen) = base
  BY <1>3, <1>5, <1>6
<1>8. BaseIsGot(got, base, bytes, file_bytes)
  BY <1>5, <1>7 DEF BaseIsGot
<1> QED BY <1>8 DEF got, base, w

(* An answer of the reader is the right one, and of a whole file there is  *)
(* one.                                                                    *)
IsServed(got, value, bytes, file_bytes, made) ==
  /\ got # <<>> => got = <<value>>
  /\ IsWhole(bytes, file_bytes, made) => got # <<>>

(* A pair in its split, and the bits that hold it.                         *)
PairPlaced(made, s, i, q, before, C) ==
  LET split == made.splits[s]
      pair == split.pairs[i]
      field == PairField(split, i)
  IN  /\ split \in Split /\ split.l_id \in Nat /\ split.l_d \in 0..ChunkBitLen
      /\ split.l_d \in Nat /\ PairWidth(split) = split.l_id + split.l_d
      /\ (i - 1) * PairWidth(split) \in Nat
      /\ pair \in Pair /\ pair.base_id \in Nat /\ pair.base_id < Len(made.dictionary)
      /\ C[q + 1] \in Chunk
      /\ Encodes(pair, split.l_d, C[q + 1], made.dictionary)
      /\ made.dictionary \in Seq(PackedBase)
      /\ field \in Seq(Bit) /\ Len(field) = PairWidth(split)
      /\ ReadValue(SubSeq(field, 1, split.l_id)) = pair.base_id
      /\ SubSeq(field, split.l_id + 1, split.l_id + split.l_d) = pair.deviation_bits
      /\ q - before[s] = i - 1

(* What the place of a chunk says of its pair.                             *)
LEMMA PairAtPlace ==
  ASSUME NEW reader, NEW bytes, NEW file_bytes, NEW made, NEW before, NEW offs, NEW C,
         OpenOn(reader, bytes, file_bytes, made, before, offs, C),
         NEW q, NEW s, NEW i, IsAt(q, s, i, made, before), q \in Nat
  PROVE  PairPlaced(made, s, i, q, before, C)
<1> DEFINE split == made.splits[s]
           pair == split.pairs[i]
           field == PairField(split, i)
           w == PairWidth(split)
<1>1. /\ Writable(made) /\ ContainsChunks(made, before, C) /\ s \in 1..Len(made.splits)
      /\ i \in 1..Len(split.pairs) /\ before[s] \in Nat /\ q + 1 = before[s] + i
  BY DEF OpenOn, IsAt
<1>2. split \in Split /\ PairFits(pair, split) /\ made.dictionary \in Seq(PackedBase)
  BY <1>1 DEF Writable, SplitFits
<1>3. /\ split.l_id \in Nat /\ split.l_d \in Nat /\ w \in Nat /\ split.l_d \in 0..ChunkBitLen
      /\ Len(split.pairs) \in Nat
  BY <1>2, SplitFields
<1>4. /\ pair \in Pair /\ C[before[s] + i] \in Chunk
      /\ Encodes(pair, split.l_d, C[before[s] + i], made.dictionary)
  BY <1>1, PairOfSplit
<1>5. pair.base_id \in Nat /\ pair.base_id < Len(made.dictionary)
  BY <1>4 DEF Encodes, Pair
<1>6. /\ field \in Seq(Bit) /\ Len(field) = w
      /\ ReadValue(SubSeq(field, 1, split.l_id)) = pair.base_id
      /\ SubSeq(field, split.l_id + 1, split.l_id + split.l_d) = pair.deviation_bits
  BY <1>1, <1>2, PairFieldHolds
<1>7. i \in Nat \ {0}
  BY <1>1, <1>3
<1>8. (i - 1) * w \in Nat
  <2> HIDE DEF w
  <2> QED BY <1>3, <1>7, StartOfNext
<1>9. w = split.l_id + split.l_d
  BY DEF PairWidth
<1> HIDE DEF split, w, field, pair
<1>10. q - before[s] = i - 1
  BY <1>1, <1>7
<1>11. /\ C[q + 1] \in Chunk /\ Encodes(pair, split.l_d, C[q + 1], made.dictionary)
  BY <1>1, <1>4
<1> QED BY <1>2, <1>3, <1>4, <1>5, <1>6, <1>8, <1>9, <1>10, <1>11
         DEF PairPlaced, split, pair, field, w

----------------------------------------------------------------------------
(* read_chunk gives the chunk that was compressed.                         *)
LEMMA ChunkIsServed ==
  ASSUME NEW reader, NEW bytes, NEW file_bytes, NEW made, NEW before, NEW offs, NEW C,
         OpenOn(reader, bytes, file_bytes, made, before, offs, C),
         NEW q \in Nat, q < Len(C)
  PROVE  IsServed(ReadChunk(reader, q), C[q + 1], bytes, file_bytes, made)
<1>1. PICK s, i : /\ IsAt(q, s, i, made, before)
                  /\ IndexedSplit(reader, q) = <<EntryFor(made, before, offs, s)>>
  BY EntryIsFound
<1> DEFINE split == made.splits[s]
           pair == split.pairs[i]
           entry == EntryFor(made, before, offs, s)
           field == PairField(split, i)
           l_id == UintAt(bytes, offs[s])
           l_d == UintAt(bytes, offs[s] + 1)
           got == PayloadBits(reader, entry, (i - 1) * (l_id + l_d), l_id + l_d)
           base == BaseBytes(reader, ReadValue(SubSeq(got[1], 1, l_id)), 0, ChunkByteLen)
           result == ReadChunk(reader, q)
           inverse == InverseTransformChunk(UnpackSamples(SubSeq(base[1], 1, ChunkBitLen)),
                                             SubSeq(got[1], l_id + 1, l_id + l_d), l_d)
<1>2. /\ split \in Split /\ split.l_id \in Nat /\ split.l_d \in Nat
      /\ PairWidth(split) = split.l_id + split.l_d
      /\ (i - 1) * PairWidth(split) \in Nat
      /\ pair.base_id \in Nat /\ pair.base_id < Len(made.dictionary)
      /\ Encodes(pair, split.l_d, C[q + 1], made.dictionary)
      /\ field \in Seq(Bit) /\ Len(field) = PairWidth(split)
      /\ ReadValue(SubSeq(field, 1, split.l_id)) = pair.base_id
      /\ SubSeq(field, split.l_id + 1, split.l_id + split.l_d) = pair.deviation_bits
      /\ q - before[s] = i - 1
  <2>1. PairPlaced(made, s, i, q, before, C)
    BY <1>1, PairAtPlace
  <2> QED BY ONLY <2>1 DEF PairPlaced
<1>3. reader.file = bytes /\ entry.split_offset = offs[s] /\ entry.chunk_start = before[s]
  BY DEF OpenOn, ReaderIs, EntryFor
<1>4. result = IF ~ RecordMatches(reader, entry, i - 1) THEN <<>>
               ELSE IF got = <<>> THEN <<>>
               ELSE IF base = <<>> THEN <<>>
               ELSE <<inverse>>
  <2> HIDE DEF entry
  <2>1. IndexedSplit(reader, q) = <<entry>>
    BY <1>1 DEF entry
  <2>2. IndexedSplit(reader, q)[1] = entry /\ IndexedSplit(reader, q) # <<>>
    BY <2>1
  <2>3. q - entry.chunk_start = i - 1
    BY <1>2, <1>3
  <2> QED BY <1>3, <2>2, <2>3 DEF ReadChunk
<1>5. /\ RecordMatches(reader, entry, i - 1) => SplitSeen(bytes, offs[s], split)
      /\ IsWhole(bytes, file_bytes, made) => RecordMatches(reader, entry, i - 1)
  BY <1>1, RecordPasses
<1>6. ASSUME RecordMatches(reader, entry, i - 1)
      PROVE  /\ l_id = split.l_id /\ l_d = split.l_d
             /\ IsAnswered(got, field, bytes, file_bytes)
  <2>1. SplitSeen(bytes, offs[s], split)
    BY <1>5, <1>6
  <2>2. l_id = split.l_id /\ l_d = split.l_d
    BY <2>1 DEF SplitSeen
  <2> DEFINE w == PairWidth(split)
             start == (i - 1) * w
  <2>3. 0 \in Nat /\ w \in Nat /\ 0 + w <= w
    <3> DEFINE a == split.l_id
               d == split.l_d
    <3>1. a \in Nat /\ d \in Nat /\ w = a + d
      BY ONLY <1>2
    <3> HIDE DEF a, d, w
    <3> QED BY ONLY <3>1
  <2>4. IsAnswered(PayloadBits(reader, entry, start + 0, w), BitsFrom(field, 0, w),
                   bytes, file_bytes)
    BY <1>1, <2>1, <2>3, PairIsFetched
  <2>5. BitsFrom(field, 0, w) = field
    <3>1. field \in Seq(Bit) /\ Len(field) = w
      BY ONLY <1>2
    <3> HIDE DEF field, w
    <3> QED BY ONLY <2>3, <3>1, WholeField
  <2>6. start + 0 = start /\ w = l_id + l_d
    <3>1. start \in Nat /\ w = split.l_id + split.l_d
      BY ONLY <1>2
    <3> HIDE DEF w, split, l_id, l_d
    <3>2. w = l_id + l_d
      BY ONLY <2>2, <3>1
    <3> HIDE DEF start
    <3>3. start + 0 = start
      BY ONLY <3>1
    <3> QED BY ONLY <3>2, <3>3
  <2>7. IsAnswered(PayloadBits(reader, entry, start, w), field, bytes, file_bytes)
    <3>1. start + 0 = start
      BY ONLY <2>6
    <3> HIDE DEF field, w, start, entry
    <3> QED BY ONLY <2>4, <2>5, <3>1, Zenon
  <2> QED BY <2>2, <2>6, <2>7
<1> HIDE DEF split, pair, entry, field, l_id, l_d, got, base, result, inverse
<1>7. ASSUME RecordMatches(reader, entry, i - 1), got # <<>>
      PROVE  /\ base # <<>> => inverse = C[q + 1]
             /\ Len(bytes) = Len(file_bytes) => base # <<>>
  <2>1. got[1] = field /\ l_id = split.l_id /\ l_d = split.l_d
    <3>1. got = <<field>>
      BY <1>6, <1>7 DEF IsAnswered
    <3> QED BY <1>6, <1>7, <3>1
  <2>2. ReadValue(SubSeq(got[1], 1, l_id)) = pair.base_id
    BY <1>2, <2>1
  <2>3. base = BaseBytes(reader, pair.base_id, 0, ChunkByteLen)
    BY <2>2 DEF base
  <2>4. BaseIsGot(base, made.dictionary[pair.base_id + 1], bytes, file_bytes)
    BY <1>2, <2>3, WholeBaseIsFetched
  <2>5. ASSUME base # <<>> PROVE inverse = C[q + 1]
    <3>1. SubSeq(base[1], 1, ChunkBitLen) = made.dictionary[pair.base_id + 1]
      BY <2>4, <2>5 DEF BaseIsGot
    <3>2. SubSeq(got[1], l_id + 1, l_id + l_d) = pair.deviation_bits
      BY <1>2, <2>1
    <3>3. inverse = InverseTransformChunk(UnpackSamples(made.dictionary[pair.base_id + 1]),
                                           pair.deviation_bits, split.l_d)
      BY <2>1, <3>1, <3>2 DEF inverse
    <3> QED BY <1>2, <3>3 DEF Encodes, Restores
  <2> QED BY <2>4, <2>5 DEF BaseIsGot
<1>8. result # <<>> => result = <<C[q + 1]>>
  BY <1>4, <1>7
<1>9. IsWhole(bytes, file_bytes, made) => result # <<>>
  <2> SUFFICES ASSUME IsWhole(bytes, file_bytes, made) PROVE result # <<>>
    OBVIOUS
  <2>1. RecordMatches(reader, entry, i - 1) /\ Len(bytes) = Len(file_bytes)
    BY <1>5 DEF IsWhole
  <2>2. got # <<>>
    BY <1>6, <2>1 DEF IsAnswered
  <2>3. base # <<>>
    BY <1>7, <2>1, <2>2
  <2>4. result = <<inverse>>
    BY <1>4, <2>1, <2>2, <2>3
  <2> QED BY <2>4
<1>10. IsServed(result, C[q + 1], bytes, file_bytes, made)
  BY <1>8, <1>9 DEF IsServed
<1> QED BY <1>10 DEF result

----------------------------------------------------------------------------
(* One bit that is read with others.                                       *)
BitIsGot(got, place, bit, bytes, file_bytes) ==
  /\ got # <<>> => got[1][place] = bit
  /\ Len(bytes) = Len(file_bytes) => got # <<>>

(* A bit of a base is in its byte.                                         *)
LEMMA BaseBitIsFetched ==
  ASSUME NEW reader, NEW bytes, NEW file_bytes, NEW made, NEW before, NEW offs, NEW C,
         OpenOn(reader, bytes, file_bytes, made, before, offs, C),
         NEW id \in Nat, id < Len(made.dictionary), NEW k \in 1..ChunkBitLen
  PROVE  BitIsGot(BaseBytes(reader, id, (k - 1) \div 8, 1), ((k - 1) % 8) + 1,
                  made.dictionary[id + 1][k], bytes, file_bytes)
<1> DEFINE base == made.dictionary[id + 1]
           padded == PadToByte(base)
           w == ChunkByteLen
           j == (k - 1) \div 8
           p == ((k - 1) % 8) + 1
           got == BaseBytes(reader, id, j, 1)
<1>1. /\ Writable(made) /\ Len(file_bytes) \in Nat /\ DictionaryIn(file_bytes, made)
      /\ Len(bytes) \in Nat /\ BeginningOf(bytes, file_bytes)
      /\ ReaderIs(reader, bytes, made, before, offs)
  BY DEF OpenOn
<1>2. base \in PackedBase
  <2>1. made.dictionary \in Seq(PackedBase) /\ id + 1 \in 1..Len(made.dictionary)
    BY <1>1 DEF Writable
  <2> QED BY <2>1
<1>3. /\ w \in Nat /\ padded \in Seq(Bit) /\ Len(padded) = 8 * w
      /\ SubSeq(padded, 1, ChunkBitLen) = base
  BY <1>2, PaddedBase
<1>4. ChunkBitLen \in Nat /\ k \in Nat \ {0} /\ k <= ChunkBitLen
  BY Geometry
<1>5. ChunkBitLen <= 8 * w
  <2>1. w = (ChunkBitLen + 7) \div 8
    BY <1>4 DEF ChunkByteLen, CeilDiv
  <2> HIDE DEF w
  <2> QED BY <1>4, <2>1
<1>6. j \in Nat /\ p \in 1..8 /\ 8 * j + p = k
  BY <1>4
<1> HIDE DEF base, padded, w, j, p
<1>7. j + 1 <= w
  BY <1>3, <1>4, <1>5, <1>6
<1>8. padded[k] = base[k]
  BY <1>3, <1>4, <1>5, PrefixPlaces
<1>9. /\ got # <<>> => SliceOf(got, padded, j, 1)
      /\ Len(bytes) = Len(file_bytes) => got # <<>>
  <2>1. j + 1 <= ChunkByteLen /\ 1 \in Nat
    BY <1>7 DEF w
  <2> QED BY <1>1, <1>6, <2>1, BaseIsFetched DEF padded, base
<1> HIDE DEF got
<1>10. ASSUME got # <<>> PROVE got[1][p] = base[k]
  <2>1. p \in 1..(8 * 1)
    BY <1>6
  <2>2. got[1][p] = padded[8 * j + p]
    BY <1>9, <1>10, <2>1 DEF SliceOf
  <2> QED BY <1>6, <1>8, <2>2
<1>11. BitIsGot(got, p, base[k], bytes, file_bytes)
  BY <1>9, <1>10 DEF BitIsGot
<1> QED BY <1>11 DEF got, p, base, j

(* A bit of the deviation.                                                 *)
LEMMA DeviationBitIsFetched ==
  ASSUME NEW reader, NEW bytes, NEW file_bytes, NEW made, NEW before, NEW offs, NEW C,
         OpenOn(reader, bytes, file_bytes, made, before, offs, C),
         NEW q \in Nat, NEW s, NEW i, IsAt(q, s, i, made, before),
         SplitSeen(bytes, offs[s], made.splits[s]),
         NEW k \in 1..made.splits[s].l_d
  PROVE  LET split == made.splits[s]
             start == (i - 1) * PairWidth(split)
         IN  BitIsGot(PayloadBits(reader, EntryFor(made, before, offs, s),
                                  start + split.l_id + k - 1, 1),
                      1, split.pairs[i].deviation_bits[k], bytes, file_bytes)
<1> DEFINE split == made.splits[s]
           field == PairField(split, i)
           start == (i - 1) * PairWidth(split)
           off == split.l_id + k - 1
           w == PairWidth(split)
           a == split.l_id
           d == split.l_d
           bit == split.pairs[i].deviation_bits[k]
           entry == EntryFor(made, before, offs, s)
<1>1. /\ a \in Nat /\ d \in Nat /\ w = a + d /\ start \in Nat
      /\ field \in Seq(Bit) /\ Len(field) = w
      /\ SubSeq(field, a + 1, a + d) = split.pairs[i].deviation_bits
  <2>1. PairPlaced(made, s, i, q, before, C)
    BY PairAtPlace
  <2> QED BY ONLY <2>1 DEF PairPlaced
<1>2. k \in 1..d
  OBVIOUS
<1> HIDE DEF split, field, w, a, d, start, entry
<1>3. off = a + k - 1
  BY DEF off, a
<1> HIDE DEF off
<1>4. off \in Nat /\ 1 \in Nat /\ off + 1 <= w /\ off + 1 = a + k
  BY <1>1, <1>2, <1>3
<1>5. BitsFrom(field, off, 1)[1] = field[a + k]
  BY <1>4 DEF BitsFrom
<1>6. split.pairs[i].deviation_bits = [m \in 1..d |-> field[a + m]]
  <2>1. SubSeq(field, a + 1, a + d) = [m \in 1..d |-> field[a + m]]
    BY <1>1, MiddlePlaces
  <2> QED BY <1>1, <2>1
<1>7. bit = field[a + k]
  BY <1>2, <1>6 DEF bit
<1> HIDE DEF bit
<1>8. IsAnswered(PayloadBits(reader, entry, start + off, 1), BitsFrom(field, off, 1),
                 bytes, file_bytes)
  <2>1. off + 1 <= PairWidth(made.splits[s])
    BY <1>4 DEF w, split
  <2> QED BY <1>4, <2>1, PairIsFetched DEF start, split, entry, field
<1>9. start + off = start + a + k - 1
  BY <1>1, <1>2, <1>3
<1> DEFINE got == PayloadBits(reader, entry, start + a + k - 1, 1)
<1>10. IsAnswered(got, BitsFrom(field, off, 1), bytes, file_bytes)
  BY <1>8, <1>9
<1> HIDE DEF got
<1>11. BitIsGot(got, 1, bit, bytes, file_bytes)
  BY <1>5, <1>7, <1>10 DEF IsAnswered, BitIsGot
<1> QED BY <1>11 DEF got, entry, start, a, bit, split

----------------------------------------------------------------------------
(* The base ID of a pair, and its bits.                                    *)
LEMMA IdIsFetched ==
  ASSUME NEW reader, NEW bytes, NEW file_bytes, NEW made, NEW before, NEW offs, NEW C,
         OpenOn(reader, bytes, file_bytes, made, before, offs, C),
         NEW q \in Nat, NEW s, NEW i, IsAt(q, s, i, made, before),
         SplitSeen(bytes, offs[s], made.splits[s])
  PROVE  LET split == made.splits[s]
             got == PayloadBits(reader, EntryFor(made, before, offs, s),
                                (i - 1) * PairWidth(split), split.l_id)
         IN  /\ got # <<>> => ReadValue(got[1]) = split.pairs[i].base_id
             /\ Len(bytes) = Len(file_bytes) => got # <<>>
<1> DEFINE split == made.splits[s]
           field == PairField(split, i)
           start == (i - 1) * PairWidth(split)
           w == PairWidth(split)
           a == split.l_id
           d == split.l_d
           id == split.pairs[i].base_id
           entry == EntryFor(made, before, offs, s)
           got == PayloadBits(reader, entry, start, a)
<1>1. /\ a \in Nat /\ d \in Nat /\ w = a + d /\ start \in Nat
      /\ field \in Seq(Bit) /\ Len(field) = w
      /\ ReadValue(SubSeq(field, 1, a)) = id
  <2>1. PairPlaced(made, s, i, q, before, C)
    BY PairAtPlace
  <2> QED BY ONLY <2>1 DEF PairPlaced
<1> HIDE DEF split, field, w, a, d, start, entry, id
<1>2. 0 \in Nat /\ 0 + a <= w /\ start + 0 = start
  BY <1>1
<1>3. IsAnswered(PayloadBits(reader, entry, start + 0, a), BitsFrom(field, 0, a),
                 bytes, file_bytes)
  <2>1. 0 + a <= PairWidth(made.splits[s])
    BY <1>2 DEF w, split
  <2> QED BY <1>1, <1>2, <2>1, PairIsFetched DEF start, split, entry, field
<1>4. IsAnswered(got, BitsFrom(field, 0, a), bytes, file_bytes)
  BY <1>2, <1>3
<1>5. BitsFrom(field, 0, a) = SubSeq(field, 1, a)
  BY <1>1, <1>2, FirstBits
<1> HIDE DEF got
<1>6. got # <<>> => got[1] = SubSeq(field, 1, a)
  BY <1>4, <1>5 DEF IsAnswered
<1>7. /\ got # <<>> => ReadValue(got[1]) = id
      /\ Len(bytes) = Len(file_bytes) => got # <<>>
  BY <1>1, <1>4, <1>6 DEF IsAnswered
<1> QED BY <1>7 DEF got, entry, start, a, id, split

(* An open reader of a file that holds what was made of the input.         *)
ReadsInput(reader, bytes, file_bytes, made, before, offs, input) ==
  /\ input \in Seq(Sample)
  /\ OpenOn(reader, bytes, file_bytes, made, before, offs, ChunkSamples(input))
  /\ made.original_sample_count = Len(input)
  /\ reader.original_sample_count = Len(input)

(* Where a sample is.                                                      *)
LEMMA SamplePlace ==
  ASSUME NEW input \in Seq(Sample), NEW index \in Nat, index < Len(input)
  PROVE  LET C == ChunkSamples(input)
             q == index \div SamplesPerChunk
             r == index % SamplesPerChunk
         IN  /\ q \in Nat /\ q < Len(C) /\ r + 1 \in 1..SamplesPerChunk
             /\ C[q + 1][r + 1] = input[index + 1]
<1> DEFINE C == ChunkSamples(input)
           w == SamplesPerChunk
           q == index \div w
           r == index % w
           k == index + 1
<1>1. k \in 1..Len(input) /\ k - 1 = index /\ w \in Nat \ {0}
  BY Geometry
<1>2. FieldOf(k, w) = q + 1 /\ PlaceOfBit(k, w) = r + 1
  BY <1>1 DEF FieldOf, PlaceOfBit
<1>3. q \in Nat
  BY <1>1
<1>4. /\ C \in Seq(Chunk) /\ FieldOf(k, w) \in 1..Len(C) /\ PlaceOfBit(k, w) \in 1..w
      /\ C[FieldOf(k, w)][PlaceOfBit(k, w)] = input[k]
  BY <1>1, ChunksHoldSamples
<1> HIDE DEF q, r, k, C, w
<1>5. /\ q \in Nat /\ q < Len(C) /\ r + 1 \in 1..w /\ C[q + 1][r + 1] = input[k]
  BY <1>2, <1>3, <1>4
<1> QED BY <1>5 DEF q, r, k, C, w

(* get by the index: a sample.                                             *)
LEMMA SampleIsServed ==
  ASSUME NEW reader, NEW bytes, NEW file_bytes, NEW made, NEW before, NEW offs, NEW input,
         ReadsInput(reader, bytes, file_bytes, made, before, offs, input),
         NEW index \in Nat, index < Len(input)
  PROVE  IsServed(IndexedSample(reader, index), input[index + 1], bytes, file_bytes, made)
<1> DEFINE C == ChunkSamples(input)
           q == index \div SamplesPerChunk
           r == index % SamplesPerChunk
           got == ReadChunk(reader, q)
           result == IndexedSample(reader, index)
<1>1. /\ input \in Seq(Sample) /\ reader.original_sample_count = Len(input)
      /\ OpenOn(reader, bytes, file_bytes, made, before, offs, C)
  BY DEF ReadsInput
<1>2. q \in Nat /\ q < Len(C) /\ C[q + 1][r + 1] = input[index + 1]
  BY <1>1, SamplePlace
<1>3. IsServed(got, C[q + 1], bytes, file_bytes, made)
  <2> HIDE DEF C, q
  <2> QED BY <1>1, <1>2, ChunkIsServed
<1>4. result = IF got = <<>> THEN <<>> ELSE <<got[1][r + 1]>>
  <2>1. ~ (index >= reader.original_sample_count)
    BY <1>1
  <2> HIDE DEF q, r
  <2> QED BY <2>1 DEF IndexedSample, q, r
<1> HIDE DEF C, q, r, got, result
<1>5. got # <<>> => result = <<input[index + 1]>>
  BY <1>2, <1>3, <1>4 DEF IsServed
<1>6. result # <<>> => result = <<input[index + 1]>>
  BY <1>4, <1>5
<1>7. IsWhole(bytes, file_bytes, made) => result # <<>>
  <2> SUFFICES ASSUME IsWhole(bytes, file_bytes, made) PROVE result # <<>>
    OBVIOUS
  <2>1. result = <<input[index + 1]>>
    BY <1>3, <1>5 DEF IsServed
  <2> QED BY <2>1
<1>8. IsServed(result, input[index + 1], bytes, file_bytes, made)
  BY <1>6, <1>7 DEF IsServed
<1> QED BY <1>8 DEF result

----------------------------------------------------------------------------
(* The chunks that a range touches, and its samples in them.               *)
LEMMA RangeChunks ==
  ASSUME NEW w \in Nat \ {0}, NEW start \in Nat, NEW len \in Nat \ {0}
  PROVE  LET first == start \div w
             last == (start + len - 1) \div w
             m == last - first + 1
             offset == start - first * w
         IN  /\ first \in Nat /\ m \in Nat /\ offset \in Nat
             /\ offset + len <= m * w /\ m * w \in Nat
             /\ \A k \in 1..len : /\ FieldOf(start + k, w) = first + FieldOf(offset + k, w)
                                  /\ PlaceOfBit(start + k, w) = PlaceOfBit(offset + k, w)
<1> DEFINE first == start \div w
           last == (start + len - 1) \div w
           m == last - first + 1
           offset == start - first * w
           p == first * w
           z == last * w
           r == start % w
           e == (start + len - 1) % w
<1>1. first \in Nat /\ r \in 0..(w - 1) /\ start = w * first + r
  BY SMT
<1>2. last \in Nat /\ e \in 0..(w - 1) /\ start + len - 1 = w * last + e
  <2> DEFINE x == start + len - 1
  <2>1. x \in Nat
    OBVIOUS
  <2> HIDE DEF x
  <2>2. x \div w \in Nat /\ x % w \in 0..(w - 1) /\ x = w * (x \div w) + (x % w)
    BY <2>1, SMT
  <2> QED BY <2>2 DEF x
<1> HIDE DEF first, last, r, e
<1>3. first <= last
  <2> SUFFICES ASSUME last + 1 <= first PROVE FALSE
    BY <1>1, <1>2
  <2>1. PICK g \in Nat : first = last + 1 + g
    <3>1. first - (last + 1) \in Nat /\ first = last + 1 + (first - (last + 1))
      BY <1>1, <1>2
    <3> QED BY <3>1
  <2>2. w * first = w * last + w + w * g /\ w * g \in Nat /\ w * last \in Nat
    BY <1>2, <2>1
  <2> DEFINE a == w * first
             b == w * last
             c == w * g
  <2>3. a = b + w + c /\ c \in Nat /\ b \in Nat /\ start = a + r /\ start + len - 1 = b + e
    BY <1>1, <1>2, <2>2
  <2> HIDE DEF a, b, c
  <2> QED BY <1>1, <1>2, <2>3
<1>4. m \in Nat /\ m * w = last * w - first * w + w /\ first * w \in Nat /\ last * w \in Nat
  <2>1. m \in Nat /\ last + 1 = first + m
    BY <1>1, <1>2, <1>3
  <2> HIDE DEF m
  <2>2. (last + 1) * w = last * w + w /\ (first + m) * w = first * w + m * w
    BY <1>1, <1>2, <2>1
  <2>3. first * w \in Nat /\ last * w \in Nat /\ m * w \in Nat
    BY <1>1, <1>2, <2>1
  <2>4. last * w + w = first * w + m * w
    BY <2>1, <2>2
  <2> DEFINE c == m * w
  <2>5. z + w = p + c /\ p \in Nat /\ z \in Nat /\ c \in Nat
    BY <2>3, <2>4
  <2> HIDE DEF p, z, c
  <2>6. c = z - p + w
    BY <2>5
  <2> QED BY <2>1, <2>3, <2>6 DEF p, z, c
<1>5. start = p + r /\ start + len - 1 = z + e /\ p \in Nat /\ z \in Nat /\ offset = start - p
  <2>1. w * first = first * w /\ w * last = last * w
    BY <1>1, <1>2
  <2> QED BY <1>1, <1>2, <1>4, <2>1
<1> DEFINE c == m * w
<1>6. c = z - p + w
  BY <1>4
<1> HIDE DEF p, z, m, offset, c
<1>7. offset \in Nat /\ offset + len <= c /\ c \in Nat /\ p + offset = start
  BY <1>1, <1>2, <1>5, <1>6
<1>8. ASSUME NEW k \in 1..len
      PROVE  /\ FieldOf(start + k, w) = first + FieldOf(offset + k, w)
             /\ PlaceOfBit(start + k, w) = PlaceOfBit(offset + k, w)
  <2> DEFINE a == offset + k
  <2>1. a \in Nat \ {0} /\ p + a = start + k
    BY <1>5, <1>7
  <2> HIDE DEF a
  <2>2. /\ FieldOf(first * w + a, w) = first + FieldOf(a, w)
        /\ PlaceOfBit(first * w + a, w) = PlaceOfBit(a, w)
    BY <1>1, <2>1, FieldShift
  <2>3. first * w + a = start + k
    BY <2>1 DEF p
  <2> QED BY <2>2, <2>3 DEF a
<1>9. m \in Nat /\ first \in Nat
  BY <1>1, <1>4 DEF m
<1> QED BY <1>7, <1>8, <1>9 DEF first, last, m, offset, c

(* range by the index: the chunks that the range touches, one by one.      *)
LEMMA RangeIsServed ==
  ASSUME NEW reader, NEW bytes, NEW file_bytes, NEW made, NEW before, NEW offs, NEW input,
         ReadsInput(reader, bytes, file_bytes, made, before, offs, input),
         NEW start \in Nat, NEW len \in Nat \ {0}, start + len <= Len(input)
  PROVE  IsServed(IndexedRange(reader, start, len), SubSeq(input, start + 1, start + len),
                  bytes, file_bytes, made)
<1> DEFINE C == ChunkSamples(input)
           w == SamplesPerChunk
           first == start \div w
           last == (start + len - 1) \div w
           m == last - first + 1
           offset == start - first * w
           chunks == [c \in 1..m |-> ReadChunk(reader, first + c - 1)]
           joined == Join([c \in DOMAIN chunks |-> chunks[c][1]], w)
           result == IndexedRange(reader, start, len)
           part == SubSeq(input, start + 1, start + len)
<1>1. /\ input \in Seq(Sample) /\ reader.original_sample_count = Len(input)
      /\ OpenOn(reader, bytes, file_bytes, made, before, offs, C)
  BY DEF ReadsInput
<1>2. w \in Nat \ {0}
  BY Geometry
<1>3. /\ first \in Nat /\ m \in Nat /\ offset \in Nat
      /\ offset + len <= m * w /\ m * w \in Nat
      /\ \A k \in 1..len : /\ FieldOf(start + k, w) = first + FieldOf(offset + k, w)
                           /\ PlaceOfBit(start + k, w) = PlaceOfBit(offset + k, w)
  <2> HIDE DEF w
  <2> QED BY <1>2, RangeChunks
<1>4. last < Len(C) /\ first + m - 1 = last
  <2> DEFINE x == start + len - 1
  <2>1. x \in Nat /\ x < Len(input)
    BY <1>1
  <2> HIDE DEF C, x
  <2>2. x \div w \in Nat /\ x \div w < Len(C)
    BY <1>1, <2>1, SamplePlace DEF C
  <2>3. last = x \div w
    BY DEF x
  <2> HIDE DEF first, last, w
  <2>4. first \in Nat /\ last \in Nat /\ last < Len(C)
    BY ONLY <1>3, <2>2, <2>3
  <2> HIDE DEF offset
  <2> QED BY ONLY <2>4
<1>5. result = IF \E c \in DOMAIN chunks : chunks[c] = <<>> THEN <<>>
               ELSE <<SubSeq(joined, offset + 1, offset + len)>>
  <2>1. ~ (start + len > reader.original_sample_count) /\ len # 0
    BY <1>1
  <2> QED BY <2>1 DEF IndexedRange
<1>6. part = [k \in 1..len |-> input[start + k]]
  BY <1>1, MiddlePlaces
<1>7. C \in Seq(Chunk) /\ Len(C) \in Nat
  BY <1>1, ChunksHoldSamples
<1> HIDE DEF C, first, last, m, offset, result, part, w
<1>8. ASSUME NEW c \in 1..m
      PROVE  /\ IsServed(chunks[c], C[first + c], bytes, file_bytes, made)
             /\ C[first + c] \in Chunk
  <2> DEFINE q == first + c - 1
  <2>1. q \in Nat /\ q < Len(C) /\ q + 1 = first + c
    BY <1>3, <1>4, <1>7
  <2> HIDE DEF q
  <2>2. IsServed(ReadChunk(reader, q), C[q + 1], bytes, file_bytes, made)
    BY <1>1, <2>1, ChunkIsServed DEF C
  <2>3. C[q + 1] \in Chunk
    BY <1>7, <2>1
  <2>4. chunks[c] = ReadChunk(reader, q)
    BY DEF q
  <2> HIDE DEF chunks
  <2> QED BY <2>1, <2>2, <2>3, <2>4
<1> DEFINE fields == [c \in DOMAIN chunks |-> chunks[c][1]]
<1>9. DOMAIN chunks = 1..m /\ fields = [c \in 1..m |-> chunks[c][1]] /\ joined = Join(fields, w)
  OBVIOUS
<1> HIDE DEF chunks, joined
<1>10. ASSUME \A c \in 1..m : chunks[c] # <<>>
       PROVE  SubSeq(joined, offset + 1, offset + len) = part
  <2>1. fields = [c \in 1..m |-> C[first + c]]
    BY <1>8, <1>9, <1>10 DEF IsServed
  <2> HIDE DEF fields
  <2>2. fields \in [1..m -> [1..w -> Sample]] /\ Len(fields) = m
    <3>1. \A c \in 1..m : C[first + c] \in [1..w -> Sample]
      BY <1>8 DEF Chunk, w
    <3> QED BY <1>3, <2>1, <3>1, FunctionIsSequence
  <2>3. joined \in [1..(m * w) -> Sample]
    BY <1>2, <1>3, <1>9, <2>2, JoinType
  <2>4. joined = [a \in 1..(m * w) |-> fields[FieldOf(a, w)][PlaceOfBit(a, w)]]
    BY <1>9, <2>2 DEF Join
  <2> DEFINE all == m * w
  <2>5. all \in Nat /\ offset + len <= all
    BY <1>3
  <2>6. ASSUME NEW k \in 1..len PROVE joined[offset + k] = input[start + k]
    <3> DEFINE a == offset + k
               f == FieldOf(a, w)
               g == FieldOf(start + k, w)
               x == PlaceOfBit(a, w)
    <3>1. a \in 1..(m * w)
      <4> HIDE DEF all
      <4>1. a \in 1..all
        BY <1>3, <2>5
      <4> QED BY <4>1 DEF all
    <3>2. f \in 1..m
      <4> HIDE DEF a
      <4> QED BY <1>2, <1>3, <3>1, FieldBounds
    <3>3. joined[a] = fields[f][x]
      BY <2>4, <3>1
    <3>4. g = first + f /\ PlaceOfBit(start + k, w) = x
      BY <1>3
    <3>5. C[g][PlaceOfBit(start + k, w)] = input[start + k]
      <4>1. start + k \in 1..Len(input)
        BY <1>1
      <4> QED BY <1>1, <4>1, ChunksHoldSamples DEF C, w
    <3>6. fields[f] = C[first + f]
      <4> HIDE DEF f
      <4> QED BY <2>1, <3>2
    <3> HIDE DEF f, g, x
    <3>7. joined[a] = input[start + k]
      BY <3>3, <3>4, <3>5, <3>6
    <3> QED BY <3>7 DEF a
  <2>7. joined \in Seq(Sample) /\ Len(joined) = all
    <3> HIDE DEF all
    <3>1. joined \in [1..all -> Sample]
      BY <2>3 DEF all
    <3> QED BY <2>5, <3>1, FunctionIsSequence
  <2> HIDE DEF all
  <2>8. SubSeq(joined, offset + 1, offset + len) = [k \in 1..len |-> joined[offset + k]]
    BY <1>3, <2>5, <2>7, MiddlePlaces
  <2>9. [k \in 1..len |-> joined[offset + k]] = [k \in 1..len |-> input[start + k]]
    BY <2>6
  <2> QED BY <1>6, <2>8, <2>9
<1>11. result # <<>> => result = <<part>>
  BY <1>5, <1>9, <1>10
<1>12. IsWhole(bytes, file_bytes, made) => result # <<>>
  <2> SUFFICES ASSUME IsWhole(bytes, file_bytes, made) PROVE result # <<>>
    OBVIOUS
  <2>1. \A c \in 1..m : chunks[c] # <<>>
    BY <1>8 DEF IsServed
  <2>2. result = <<SubSeq(joined, offset + 1, offset + len)>>
    BY <1>5, <1>9, <2>1
  <2> QED BY <2>2
<1>13. IsServed(result, part, bytes, file_bytes, made)
  BY <1>11, <1>12 DEF IsServed
<1> QED BY <1>13 DEF result, part

----------------------------------------------------------------------------
(* Where a bit is.                                                         *)
LEMMA BitPlace ==
  ASSUME NEW n \in Nat, NEW bit_index \in Nat, bit_index < n * BitsPerSample
  PROVE  /\ bit_index \div BitsPerSample \in Nat /\ bit_index \div BitsPerSample < n
         /\ (bit_index % BitsPerSample) + 1 \in 1..BitsPerSample
<1> DEFINE a == bit_index + 1
           index == bit_index \div BitsPerSample
           b == (bit_index % BitsPerSample) + 1
<1>1. a \in 1..(n * BitsPerSample) /\ a - 1 = bit_index /\ BitsPerSample \in Nat
  BY Geometry
<1>2. FieldOf(a, BitsPerSample) \in 1..n /\ PlaceOfBit(a, BitsPerSample) \in 1..BitsPerSample
  BY <1>1, FieldBounds
<1>3. FieldOf(a, BitsPerSample) = index + 1 /\ PlaceOfBit(a, BitsPerSample) = b
  BY <1>1 DEF FieldOf, PlaceOfBit
<1>4. index \in Int
  BY Geometry
<1> HIDE DEF a, index, b
<1>5. index \in Nat /\ index < n /\ b \in 1..BitsPerSample
  BY <1>2, <1>3, <1>4
<1> QED BY <1>5 DEF index, b

(* A bit of a chunk, as its place in the file gives it.                    *)
BitRead(reader, entry, l_id, l_d, i, sample, bit) ==
  LET pair_start == (i - 1) * (l_id + l_d)
      deviation == PayloadBits(reader, entry,
                     pair_start + l_id + DeviationBitOffset(l_d, sample, bit) - 1, 1)
      id == PayloadBits(reader, entry, pair_start, l_id)
      base_bit == BitAt(sample, bit, BitsPerSample) - 1
      byte == BaseBytes(reader, ReadValue(id[1]), base_bit \div 8, 1)
  IN  IF IsDeviationPosition(l_d, sample, bit)
      THEN IF deviation = <<>> THEN <<>> ELSE <<deviation[1][1]>>
      ELSE IF id = <<>> THEN <<>>
      ELSE IF byte = <<>> THEN <<>>
      ELSE <<byte[1][(base_bit % 8) + 1]>>

(* It is the bit of the chunk that was compressed.                         *)
LEMMA BitIsFetched ==
  ASSUME NEW reader, NEW bytes, NEW file_bytes, NEW made, NEW before, NEW offs, NEW C,
         OpenOn(reader, bytes, file_bytes, made, before, offs, C),
         NEW q \in Nat, NEW s, NEW i, IsAt(q, s, i, made, before),
         SplitSeen(bytes, offs[s], made.splits[s]),
         NEW x \in 1..SamplesPerChunk, NEW b \in 1..BitsPerSample
  PROVE  IsAnswered(BitRead(reader, EntryFor(made, before, offs, s), made.splits[s].l_id,
                            made.splits[s].l_d, i, x, b),
                    C[q + 1][x][b], bytes, file_bytes)
<1> DEFINE split == made.splits[s]
           pair == split.pairs[i]
           a == split.l_id
           d == split.l_d
           w == PairWidth(split)
           start == (i - 1) * w
           entry == EntryFor(made, before, offs, s)
           place == DeviationBitOffset(d, x, b)
           deviation == PayloadBits(reader, entry, start + a + place - 1, 1)
           id == PayloadBits(reader, entry, start, a)
           k == BitAt(x, b, BitsPerSample)
           byte == BaseBytes(reader, ReadValue(id[1]), (k - 1) \div 8, 1)
           y == ((k - 1) % 8) + 1
           value == C[q + 1][x][b]
           result == BitRead(reader, entry, a, d, i, x, b)
<1>1. /\ a \in Nat /\ d \in 0..ChunkBitLen /\ w = a + d
      /\ pair \in Pair /\ pair.base_id \in Nat /\ pair.base_id < Len(made.dictionary)
      /\ C[q + 1] \in Chunk /\ Encodes(pair, d, C[q + 1], made.dictionary)
      /\ made.dictionary \in Seq(PackedBase)
  <2>1. PairPlaced(made, s, i, q, before, C)
    BY PairAtPlace
  <2> QED BY ONLY <2>1 DEF PairPlaced
<1>2. IF IsDeviationPosition(d, x, b)
      THEN pair.deviation_bits[place] = value
      ELSE made.dictionary[pair.base_id + 1][k] = value
  <2> HIDE DEF pair, d
  <2> DEFINE chunk == C[q + 1]
  <2>1. /\ pair \in Pair /\ d \in 0..ChunkBitLen /\ chunk \in Chunk
        /\ made.dictionary \in Seq(PackedBase) /\ Encodes(pair, d, chunk, made.dictionary)
        /\ x \in 1..SamplesPerChunk /\ b \in 1..BitsPerSample
    BY ONLY <1>1, x \in 1..SamplesPerChunk, b \in 1..BitsPerSample
  <2> HIDE DEF chunk
  <2>2. IF IsDeviationPosition(d, x, b)
        THEN pair.deviation_bits[DeviationBitOffset(d, x, b)] = chunk[x][b]
        ELSE made.dictionary[pair.base_id + 1][BitAt(x, b, BitsPerSample)] = chunk[x][b]
    BY ONLY <2>1, BitOfPair
  <2> QED BY ONLY <2>2, Zenon DEF chunk, place, k, value
<1>3. result = IF IsDeviationPosition(d, x, b)
               THEN IF deviation = <<>> THEN <<>> ELSE <<deviation[1][1]>>
               ELSE IF id = <<>> THEN <<>>
               ELSE IF byte = <<>> THEN <<>>
               ELSE <<byte[1][y]>>
  <2>1. (i - 1) * (a + d) = start
    BY <1>1
  <2> HIDE DEF start, entry, split
  <2> QED BY <2>1 DEF BitRead, a, d
<1>4. ASSUME IsDeviationPosition(d, x, b)
      PROVE  BitIsGot(deviation, 1, value, bytes, file_bytes)
  <2>1. place \in 1..made.splits[s].l_d
    <3> HIDE DEF d
    <3>1. DeviationBitOffset(d, x, b) \in 1..d
      BY <1>1, <1>4, DeviationOffsetIsPlace
    <3> QED BY <3>1 DEF d
  <2>2. pair.deviation_bits[place] = value
    BY <1>2, <1>4
  <2> HIDE DEF place, value
  <2>3. BitIsGot(deviation, 1, pair.deviation_bits[place], bytes, file_bytes)
    BY <2>1, DeviationBitIsFetched
  <2> QED BY <2>2, <2>3
<1>5. /\ id # <<>> => ReadValue(id[1]) = pair.base_id
      /\ Len(bytes) = Len(file_bytes) => id # <<>>
  BY IdIsFetched
<1>6. ASSUME ~ IsDeviationPosition(d, x, b), id # <<>>
      PROVE  BitIsGot(byte, y, value, bytes, file_bytes)
  <2>1. k \in 1..ChunkBitLen
    BY BitAtField, Geometry
  <2>2. made.dictionary[pair.base_id + 1][k] = value
    BY <1>2, <1>6
  <2>3. byte = BaseBytes(reader, pair.base_id, (k - 1) \div 8, 1)
    BY <1>5, <1>6
  <2> HIDE DEF k, value, pair, byte
  <2>4. BitIsGot(BaseBytes(reader, pair.base_id, (k - 1) \div 8, 1), ((k - 1) % 8) + 1,
                 made.dictionary[pair.base_id + 1][k], bytes, file_bytes)
    BY <1>1, <2>1, BaseBitIsFetched
  <2> QED BY <2>2, <2>3, <2>4
<1> HIDE DEF deviation, id, byte, y, value, result, d
<1>7. result # <<>> => result = <<value>>
  BY <1>3, <1>4, <1>6 DEF BitIsGot
<1>8. Len(bytes) = Len(file_bytes) => result # <<>>
  <2> SUFFICES ASSUME Len(bytes) = Len(file_bytes) PROVE result # <<>>
    OBVIOUS
  <2>1. CASE IsDeviationPosition(d, x, b)
    <3>1. deviation # <<>>
      BY <1>4, <2>1 DEF BitIsGot
    <3>2. result = <<deviation[1][1]>>
      BY <1>3, <2>1, <3>1
    <3> QED BY <3>2
  <2>2. CASE ~ IsDeviationPosition(d, x, b)
    <3>1. id # <<>>
      BY <1>5
    <3>2. byte # <<>>
      BY <1>6, <2>2, <3>1 DEF BitIsGot
    <3>3. result = <<byte[1][y]>>
      BY <1>3, <2>2, <3>1, <3>2
    <3> QED BY <3>3
  <2> QED BY <2>1, <2>2
<1>9. IsAnswered(result, value, bytes, file_bytes)
  BY <1>7, <1>8 DEF IsAnswered
<1> QED BY <1>9 DEF result, value, entry, a, d, split

(* get-bit by the index.                                                   *)
LEMMA BitIsServed ==
  ASSUME NEW reader, NEW bytes, NEW file_bytes, NEW made, NEW before, NEW offs, NEW input,
         ReadsInput(reader, bytes, file_bytes, made, before, offs, input),
         NEW bit_index \in Nat, bit_index < Len(input) * BitsPerSample
  PROVE  IsServed(IndexedBit(reader, bit_index),
                  input[(bit_index \div BitsPerSample) + 1][(bit_index % BitsPerSample) + 1],
                  bytes, file_bytes, made)
<1> DEFINE C == ChunkSamples(input)
           index == bit_index \div BitsPerSample
           b == (bit_index % BitsPerSample) + 1
           q == index \div SamplesPerChunk
           x == (index % SamplesPerChunk) + 1
           value == input[index + 1][b]
           result == IndexedBit(reader, bit_index)
<1>1. /\ input \in Seq(Sample) /\ reader.original_sample_count = Len(input)
      /\ OpenOn(reader, bytes, file_bytes, made, before, offs, C)
      /\ Len(input) \in Nat
  BY DEF ReadsInput
<1>2. index \in Nat /\ index < Len(input) /\ b \in 1..BitsPerSample
  BY <1>1, BitPlace
<1> HIDE DEF index, b
<1>3. q \in Nat /\ q < Len(C) /\ x \in 1..SamplesPerChunk /\ C[q + 1][x] = input[index + 1]
  BY <1>1, <1>2, SamplePlace
<1> HIDE DEF C, q, x
<1>4. PICK s, i : /\ IsAt(q, s, i, made, before)
                  /\ IndexedSplit(reader, q) = <<EntryFor(made, before, offs, s)>>
  BY <1>1, <1>3, EntryIsFound
<1> DEFINE split == made.splits[s]
           entry == EntryFor(made, before, offs, s)
           l_id == UintAt(bytes, offs[s])
           l_d == UintAt(bytes, offs[s] + 1)
           got == BitRead(reader, entry, l_id, l_d, i, x, b)
<1>5. reader.file = bytes /\ entry.split_offset = offs[s] /\ entry.chunk_start = before[s]
  BY <1>1 DEF OpenOn, ReaderIs, EntryFor
<1>6. q - before[s] = i - 1
  <2>1. PairPlaced(made, s, i, q, before, C)
    BY <1>1, <1>3, <1>4, PairAtPlace
  <2> QED BY ONLY <2>1 DEF PairPlaced
<1>7. /\ RecordMatches(reader, entry, i - 1) => SplitSeen(bytes, offs[s], split)
      /\ IsWhole(bytes, file_bytes, made) => RecordMatches(reader, entry, i - 1)
  BY <1>1, <1>4, RecordPasses
<1>8. result = IF ~ RecordMatches(reader, entry, i - 1) THEN <<>> ELSE got
  <2> HIDE DEF entry
  <2>1. IndexedSplit(reader, q)[1] = entry /\ IndexedSplit(reader, q) # <<>>
    BY <1>4 DEF entry
  <2>2. q - entry.chunk_start = i - 1
    BY <1>5, <1>6
  <2>3. ~ (bit_index >= reader.original_sample_count * BitsPerSample)
    <3>1. Len(input) * BitsPerSample \in Nat
      BY <1>1, Geometry
    <3> QED BY <1>1, <3>1
  <2> QED BY <1>5, <2>1, <2>2, <2>3 DEF IndexedBit, BitRead, q, x, b, index
<1>9. ASSUME RecordMatches(reader, entry, i - 1)
      PROVE  IsAnswered(got, value, bytes, file_bytes)
  <2>1. SplitSeen(bytes, offs[s], split)
    BY <1>7, <1>9
  <2>2. l_id = split.l_id /\ l_d = split.l_d
    BY <2>1 DEF SplitSeen
  <2> HIDE DEF l_id, l_d, value
  <2>3. IsAnswered(BitRead(reader, entry, split.l_id, split.l_d, i, x, b),
                   C[q + 1][x][b], bytes, file_bytes)
    BY <1>1, <1>2, <1>3, <1>4, <2>1, BitIsFetched
  <2>4. C[q + 1][x][b] = value
    BY <1>3 DEF value
  <2> QED BY <2>2, <2>3, <2>4
<1> HIDE DEF result, got, value, entry
<1>10. result # <<>> => result = <<value>>
  BY <1>8, <1>9 DEF IsAnswered
<1>11. IsWhole(bytes, file_bytes, made) => result # <<>>
  BY <1>7, <1>8, <1>9 DEF IsAnswered, IsWhole
<1>12. IsServed(result, value, bytes, file_bytes, made)
  BY <1>10, <1>11 DEF IsServed
<1> QED BY <1>12 DEF result, value, index, b

----------------------------------------------------------------------------
(* The file of the compress command.                                       *)

(* A reader of the file of a compressed input.                             *)
LEMMA InputIsWritten ==
  ASSUME NEW input \in Seq(Sample), CompressSamples(input) # <<>>,
         NEW order \in {"little", "big"}
  PROVE  LET made == CompressSamples(input)[1]
             whole == ToBytes(made, order)
         IN  \E before, offs :
               /\ Writable(made) /\ made.original_sample_count = Len(input)
               /\ ContainsChunks(made, before, ChunkSamples(input))
               /\ Adds(before, PairsOf(made), 0)
               /\ FileHolds(whole, made, order, before, offs)
               /\ whole \in Seq(FileByte) /\ Len(whole) \in Nat
<1> DEFINE made == CompressSamples(input)[1]
           whole == ToBytes(made, order)
<1>1. Writable(made) /\ made.original_sample_count = Len(input)
  BY CompressedFits, CompressedContains
<1>2. PICK before : ContainsChunks(made, before, ChunkSamples(input))
  BY CompressedContains
<1> HIDE DEF made
<1>3. Adds(before, PairsOf(made), 0)
  BY <1>2, ChunksAddUp
<1>4. PICK offs : FileHolds(whole, made, order, before, offs)
  BY <1>1, <1>3, FileIsLaidOut
<1>5. whole \in Seq(FileByte)
  BY <1>4 DEF FileHolds
<1> HIDE DEF whole
<1>6. Len(whole) \in Nat
  BY <1>5
<1> QED BY <1>1, <1>2, <1>3, <1>4, <1>5, <1>6 DEF made, whole

(* from_bytes gives the container that was written, under the header it    *)
(* was written with, or refuses; a file cut short it refuses, and a whole  *)
(* one only if an ID is wider than a reader accepts.                       *)
LEMMA WrittenIsRead ==
  ASSUME NEW input \in Seq(Sample), CompressSamples(input) # <<>>,
         NEW order \in {"little", "big"}
  PROVE  LET made == CompressSamples(input)[1]
             whole == ToBytes(made, order)
         IN  /\ FromBytes(whole) # <<>> =>
                  FromBytes(whole) = <<made>> /\ HeaderReads(whole, made, order)
             /\ NarrowIds(made) => FromBytes(whole) # <<>>
<1> DEFINE made == CompressSamples(input)[1]
           whole == ToBytes(made, order)
<1>1. PICK before, offs :
        /\ Writable(made) /\ Adds(before, PairsOf(made), 0)
        /\ FileHolds(whole, made, order, before, offs)
        /\ Len(whole) \in Nat
  BY InputIsWritten
<1> HIDE DEF made, whole
<1>2. BeginningOf(whole, whole)
  BY <1>1 DEF BeginningOf
<1>3. FromBytes(whole) # <<>> => FromBytes(whole) = <<made>> /\ HeaderReads(whole, made, order)
  BY <1>1, <1>2, FileIsRead
<1>4. NarrowIds(made) => FromBytes(whole) # <<>>
  BY <1>1, <1>2, WholeFileIsRead
<1> QED BY <1>3, <1>4 DEF made, whole

(* What the indexed reader answers is what the container in memory does.   *)
AnswersAgree(bytes, file_bytes, made, input) ==
  LET reader == OpenReader(bytes)[1]
      count == Len(input)
  IN  /\ \A index \in Nat : index < count =>
           IsServed(IndexedSample(reader, index), input[index + 1], bytes, file_bytes, made)
      /\ \A index \in Nat : index < count * BitsPerSample =>
           IsServed(IndexedBit(reader, index),
                    input[(index \div BitsPerSample) + 1][(index % BitsPerSample) + 1],
                    bytes, file_bytes, made)
      /\ \A start \in Nat : \A len \in Nat \ {0} : start + len <= count =>
           IsServed(IndexedRange(reader, start, len), SubSeq(input, start + 1, start + len),
                    bytes, file_bytes, made)
      /\ reader.original_sample_count = count

(* So it does on the beginning of a file that compress wrote, and on the   *)
(* whole file it can be opened.                                            *)
LEMMA WrittenIsServed ==
  ASSUME NEW input \in Seq(Sample), CompressSamples(input) # <<>>,
         NEW order \in {"little", "big"},
         NEW bytes, Len(bytes) \in Nat,
         BeginningOf(bytes, ToBytes(CompressSamples(input)[1], order))
  PROVE  LET made == CompressSamples(input)[1]
             whole == ToBytes(made, order)
         IN  /\ OpenReader(bytes) # <<>> => AnswersAgree(bytes, whole, made, input)
             /\ bytes = whole => OpenReader(bytes) # <<>>
<1> DEFINE made == CompressSamples(input)[1]
           whole == ToBytes(made, order)
           reader == OpenReader(bytes)[1]
<1>1. PICK before, offs :
        /\ Writable(made) /\ made.original_sample_count = Len(input)
        /\ ContainsChunks(made, before, ChunkSamples(input))
        /\ Adds(before, PairsOf(made), 0)
        /\ FileHolds(whole, made, order, before, offs)
        /\ Len(whole) \in Nat
  BY InputIsWritten
<1>2. BeginningOf(bytes, whole)
  OBVIOUS
<1> HIDE DEF made, whole
<1>3. bytes = whole => OpenReader(bytes) # <<>>
  BY <1>1, WholeFileOpens
<1>4. ASSUME OpenReader(bytes) # <<>>
      PROVE  AnswersAgree(bytes, whole, made, input)
  <2>1. ReaderIs(reader, bytes, made, before, offs)
    BY <1>1, <1>2, <1>4, OpenedReader
  <2> HIDE DEF reader
  <2>2. DictionaryIn(whole, made) /\ RecordsIn(whole, made, offs)
    BY <1>1 DEF FileHolds
  <2>3. OpenOn(reader, bytes, whole, made, before, offs, ChunkSamples(input))
    BY <1>1, <1>2, <2>1, <2>2 DEF OpenOn
  <2>4. reader.original_sample_count = Len(input)
    BY <1>1, <2>1 DEF ReaderIs
  <2>5. ReadsInput(reader, bytes, whole, made, before, offs, input)
    BY <1>1, <2>3, <2>4 DEF ReadsInput
  <2>6. ASSUME NEW index \in Nat, index < Len(input)
        PROVE  IsServed(IndexedSample(reader, index), input[index + 1], bytes, whole, made)
    BY <2>5, <2>6, SampleIsServed
  <2>7. ASSUME NEW index \in Nat, index < Len(input) * BitsPerSample
        PROVE  IsServed(IndexedBit(reader, index),
                        input[(index \div BitsPerSample) + 1][(index % BitsPerSample) + 1],
                        bytes, whole, made)
    BY <2>5, <2>7, BitIsServed
  <2>8. ASSUME NEW start \in Nat, NEW len \in Nat \ {0}, start + len <= Len(input)
        PROVE  IsServed(IndexedRange(reader, start, len), SubSeq(input, start + 1, start + len),
                        bytes, whole, made)
    BY <2>5, <2>8, RangeIsServed
  <2> QED BY <2>4, <2>6, <2>7, <2>8 DEF AnswersAgree, reader
<1> QED BY <1>3, <1>4 DEF made, whole

----------------------------------------------------------------------------
(* The base IDs leave room for those of one split more.  Where they do     *)
(* not, compress writes wider IDs than from_bytes accepts (the run         *)
(* MCIdWidthLimit).                                                        *)
IdsAreLeft == container # <<>> => Len(container[1].dictionary) + ChunksPerSplit < Pow2[IdBits]

(* What is on disk is the beginning of what the container becomes.         *)
FileState ==
  /\ samples \in Seq(Sample)
  /\ container = <<>> => file = <<>>
  /\ container # <<>> =>
       /\ container = CompressSamples(samples)
       /\ Len(file) \in Nat /\ BeginningOf(file, ToBytes(container[1], "little"))
       /\ Len(file) = Len(ToBytes(container[1], "little"))
            => file = ToBytes(container[1], "little")

(* The beginning of a sequence is one.                                     *)
LEMMA FirstBytes ==
  ASSUME NEW S, NEW whole \in Seq(S), NEW n \in Nat, n < Len(whole)
  PROVE  /\ Len(SubSeq(whole, 1, n)) = n /\ BeginningOf(SubSeq(whole, 1, n), whole)
<1>1. Len(SubSeq(whole, 1, n)) = n /\ \A i \in 1..n : SubSeq(whole, 1, n)[i] = whole[i]
  BY PrefixPlaces
<1> QED BY <1>1 DEF BeginningOf

(* The file only ever holds what was compressed.                           *)
LEMMA FileStateHolds == FileSpec => []FileState
<1>1. FileInit => FileState
  BY DEF FileInit, Init, FileState
<1>2. FileState /\ [FileNext]_fileVars => FileState'
  <2> SUFFICES ASSUME FileState, [FileNext]_fileVars PROVE FileState'
    OBVIOUS
  <2> DEFINE whole == ToBytes(container[1], "little")
  <2>1. CASE ReadInput
    <3>1. samples' \in Seq(Sample)
      BY <2>1 DEF ReadInput, Next, FileState
    <3>2. container' = <<>> /\ file' = <<>>
      BY <2>1 DEF ReadInput, FileState
    <3> QED BY <3>1, <3>2 DEF FileState
  <2>2. CASE Compress
    <3>1. /\ samples' = samples /\ file' = <<>> /\ container' = CompressSamples(samples)
          /\ container' # <<>>
      BY <2>2 DEF Compress, FileState
    <3> DEFINE made == container'[1]
    <3>2. PICK before, offs : /\ FileHolds(ToBytes(made, "little"), made, "little", before, offs)
                              /\ Len(ToBytes(made, "little")) \in Nat
      <4>1. samples \in Seq(Sample) /\ CompressSamples(samples) # <<>>
            /\ "little" \in {"little", "big"}
        BY <3>1 DEF FileState
      <4>2. made = CompressSamples(samples)[1]
        BY <3>1
      <4> QED BY <4>1, <4>2, InputIsWritten
    <3>3. BeginningOf(<<>>, ToBytes(made, "little"))
      BY <3>2 DEF BeginningOf
    <3>4. Len(<<>>) = Len(ToBytes(made, "little")) => <<>> = ToBytes(made, "little")
      <4>1. ToBytes(made, "little") \in Seq(FileByte)
        BY <3>2 DEF FileHolds
      <4> HIDE DEF made
      <4> QED BY <4>1
    <3>5. Len(<<>>) \in Nat
      OBVIOUS
    <3> QED BY <3>1, <3>3, <3>4, <3>5 DEF FileState
  <2>3. CASE WriteFile
    <3>1. samples' = samples /\ container' = container /\ container # <<>> /\ file' = whole
      BY <2>3 DEF WriteFile
    <3>2. container = CompressSamples(samples) /\ samples \in Seq(Sample)
      BY <3>1 DEF FileState
    <3>3. Len(whole) \in Nat
      <4>1. samples \in Seq(Sample) /\ CompressSamples(samples) # <<>>
            /\ "little" \in {"little", "big"}
        BY <3>1, <3>2
      <4> QED BY <3>2, <4>1, InputIsWritten
    <3>4. BeginningOf(whole, whole)
      BY <3>3 DEF BeginningOf
    <3> QED BY <3>1, <3>2, <3>3, <3>4 DEF FileState
  <2>4. CASE WriteIsInterrupted
    <3>1. /\ samples' = samples /\ container' = container /\ container # <<>>
          /\ \E n \in 1..(Len(whole) - 1) : file' = SubSeq(whole, 1, n)
      BY <2>4 DEF WriteIsInterrupted
    <3>2. container = CompressSamples(samples) /\ samples \in Seq(Sample)
      BY <3>1 DEF FileState
    <3>3. whole \in Seq(FileByte) /\ Len(whole) \in Nat
      <4>1. samples \in Seq(Sample) /\ CompressSamples(samples) # <<>>
            /\ "little" \in {"little", "big"}
        BY <3>1, <3>2
      <4> QED BY <3>2, <4>1, InputIsWritten
    <3>4. PICK n \in 1..(Len(whole) - 1) : file' = SubSeq(whole, 1, n)
      BY <3>1
    <3> HIDE DEF whole
    <3>5. n \in Nat /\ n < Len(whole)
      BY <3>3
    <3>6. Len(file') = n /\ BeginningOf(file', whole)
      BY <3>3, <3>4, <3>5, FirstBytes
    <3>7. ~ (Len(file') = Len(whole)) /\ Len(file') \in Nat
      BY <3>5, <3>6
    <3> QED BY <3>1, <3>2, <3>6, <3>7 DEF FileState, whole
  <2>5. CASE UNCHANGED fileVars
    BY <2>5 DEF fileVars, FileState
  <2> QED BY <2>1, <2>2, <2>3, <2>4, <2>5 DEF FileNext
<1> QED BY <1>1, <1>2, PTL DEF FileSpec

(* compress_samples returns one container or none.                         *)
LEMMA CompressedIsOne ==
  ASSUME NEW input, CompressSamples(input) # <<>>
  PROVE  CompressSamples(input) = <<CompressSamples(input)[1]>>
<1> DEFINE C == ChunkSamples(input)
           after == CHOOSE f : Compresses(f, C, Len(C))
           done == after[Len(C)]
           made == [original_sample_count |-> Len(input),
                    dictionary |-> done.persisted_bases,
                    splits |-> IF done.current_split.pairs = <<>> THEN done.splits
                               ELSE Append(done.splits, done.current_split)]
<1>1. CompressSamples(input) = IF done.panicked THEN <<>> ELSE <<made>>
  BY DEF CompressSamples, Compresses, CompressNext
<1> HIDE DEF done, made
<1> QED BY <1>1

(* A container file gives back the container and the configuration it was  *)
(* written from, whatever they are, as long as there are IDs left          *)
(* (to_bytes, from_bytes): the records, found by walking over what         *)
(* precedes them, are where they were written, and no width, count or      *)
(* length is lost or misread.                                              *)
THEOREM FilesRoundTrip == FileSpec => [](IdsAreLeft => FileRoundTrips)
<1>1. FileState => (IdsAreLeft => FileRoundTrips)
  <2> SUFFICES ASSUME FileState, IdsAreLeft, Complete
               PROVE  /\ FromBytes(file) = container
                      /\ HeaderConfig(file) =
                           [bits_per_sample |-> BitsPerSample,
                            samples_per_chunk |-> SamplesPerChunk,
                            chunks_per_split |-> ChunksPerSplit,
                            threshold_ppm |-> NewBaseThresholdPpm,
                            max_active |-> MaxActiveDictionaryBytes, endian |-> "little"]
    BY DEF FileRoundTrips
  <2> DEFINE made == CompressSamples(samples)[1]
             whole == ToBytes(made, "little")
  <2>1. /\ samples \in Seq(Sample) /\ container = CompressSamples(samples)
        /\ CompressSamples(samples) # <<>> /\ file = whole
        /\ Len(made.dictionary) + ChunksPerSplit < Pow2[IdBits]
    BY DEF FileState, Complete, IdsAreLeft
  <2>2. NarrowIds(made)
    BY <2>1, CompressedFits
  <2>3. FromBytes(whole) = <<made>> /\ HeaderReads(whole, made, "little")
    <3>1. "little" \in {"little", "big"}
      OBVIOUS
    <3> QED BY <2>1, <2>2, <3>1, WrittenIsRead
  <2>4. container = <<made>>
    BY <2>1, CompressedIsOne
  <2> QED BY <2>1, <2>3, <2>4 DEF HeaderReads
<1> QED BY <1>1, FileStateHolds, PTL

----------------------------------------------------------------------------
(* The open reader of a file on disk, and what it answers.                 *)
LEMMA ReaderOfFile ==
  ASSUME FileState, container # <<>>, OpenReader(file) # <<>>
  PROVE  LET made == container[1]
             whole == ToBytes(made, "little")
         IN  /\ samples \in Seq(Sample) /\ Len(samples) \in Nat
             /\ made.original_sample_count = Len(samples)
             /\ \E before : ContainsChunks(made, before, ChunkSamples(samples))
             /\ AnswersAgree(file, whole, made, samples)
<1> DEFINE made == CompressSamples(samples)[1]
           whole == ToBytes(made, "little")
<1>1. /\ samples \in Seq(Sample) /\ container = CompressSamples(samples)
      /\ CompressSamples(samples) # <<>> /\ "little" \in {"little", "big"}
      /\ Len(file) \in Nat /\ BeginningOf(file, whole)
  BY DEF FileState
<1>2. AnswersAgree(file, whole, made, samples)
  BY <1>1, WrittenIsServed
<1>3. /\ made.original_sample_count = Len(samples)
      /\ \E before : ContainsChunks(made, before, ChunkSamples(samples))
  BY <1>1, CompressedContains
<1>4. made = container[1] /\ Len(samples) \in Nat
  BY <1>1
<1> HIDE DEF made
<1> QED BY <1>1, <1>2, <1>3, <1>4

(* Nothing past the end is answered, by the index or in memory.            *)
LEMMA PastTheEnd ==
  ASSUME NEW reader, NEW made, NEW count \in Nat,
         reader.original_sample_count = count, made.original_sample_count = count,
         NEW index \in Nat
  PROVE  /\ index >= count => /\ IndexedSample(reader, index) = <<>>
                              /\ GetBySampleIndex(made, index) = <<>>
         /\ index >= count * BitsPerSample => /\ IndexedBit(reader, index) = <<>>
                                              /\ GetByBitIndex(made, index) = <<>>
         /\ \A len \in Nat \ {0} : index + len > count =>
              /\ IndexedRange(reader, index, len) = <<>>
              /\ GetRange(made, index, len) = <<>>
<1>1. index >= count => IndexedSample(reader, index) = <<>>
  BY DEF IndexedSample
<1>2. index >= count => GetBySampleIndex(made, index) = <<>>
  BY DEF GetBySampleIndex
<1>3. index >= count * BitsPerSample => IndexedBit(reader, index) = <<>>
  BY DEF IndexedBit
<1>4. index >= count * BitsPerSample => GetByBitIndex(made, index) = <<>>
  BY DEF GetByBitIndex
<1>5. ASSUME NEW len \in Nat \ {0}, index + len > count
      PROVE  IndexedRange(reader, index, len) = <<>> /\ GetRange(made, index, len) = <<>>
  BY <1>5 DEF IndexedRange, GetRange
<1> QED BY <1>1, <1>2, <1>3, <1>4, <1>5

(* What the container in memory answers.                                   *)
LEMMA InMemory ==
  ASSUME NEW made, NEW input \in Seq(Sample),
         \E before : ContainsChunks(made, before, ChunkSamples(input)),
         made.original_sample_count = Len(input)
  PROVE  /\ \A index \in Nat : index < Len(input) =>
              GetBySampleIndex(made, index) = <<input[index + 1]>>
         /\ \A index \in Nat : index < Len(input) * BitsPerSample =>
              GetByBitIndex(made, index)
                = <<input[(index \div BitsPerSample) + 1][(index % BitsPerSample) + 1]>>
         /\ \A start \in Nat : \A len \in Nat \ {0} : start + len <= Len(input) =>
              GetRange(made, start, len) = <<SubSeq(input, start + 1, start + len)>>
<1>1. PICK before : ContainsChunks(made, before, ChunkSamples(input))
  OBVIOUS
<1>2. ASSUME NEW index \in Nat, index < Len(input)
      PROVE  GetBySampleIndex(made, index) = <<input[index + 1]>>
  BY <1>1, <1>2, SampleIsRead
<1>3. ASSUME NEW index \in Nat, index < Len(input) * BitsPerSample
      PROVE  GetByBitIndex(made, index)
               = <<input[(index \div BitsPerSample) + 1][(index % BitsPerSample) + 1]>>
  BY <1>1, <1>3, BitIsRead
<1>4. ASSUME NEW start \in Nat, NEW len \in Nat \ {0}, start + len <= Len(input)
      PROVE  GetRange(made, start, len) = <<SubSeq(input, start + 1, start + len)>>
  BY <1>1, <1>4, RangeIsRead
<1> QED BY <1>2, <1>3, <1>4

(* A file that is cut off anywhere, in the middle of a field or between    *)
(* two records, is refused by decompress; the indexed reader, which opens  *)
(* one whose header and index are all there, gives the right answer or an  *)
(* error, to every request (fs::write is not atomic; from_bytes, open,     *)
(* get_by_sample_index, get_by_bit_index).                                 *)
THEOREM CutOffFilesAreNotMisread == FileSpec => []PartialFileIsNeverMisread
<1>1. FileState => PartialFileIsNeverMisread
  <2> SUFFICES ASSUME FileState, Partial
               PROVE  /\ FromBytes(file) = <<>>
                      /\ Reader # <<>> =>
                           /\ \A i \in Indices : IndexedSample(Reader[1], i)
                                \in {<<>>, GetBySampleIndex(container[1], i)}
                           /\ \A i \in BitIndices : IndexedBit(Reader[1], i)
                                \in {<<>>, GetByBitIndex(container[1], i)}
    BY DEF PartialFileIsNeverMisread
  <2>1. /\ samples \in Seq(Sample) /\ container = CompressSamples(samples)
        /\ CompressSamples(samples) # <<>> /\ "little" \in {"little", "big"}
        /\ Len(file) \in Nat /\ BeginningOf(file, ToBytes(container[1], "little"))
        /\ Len(file) # Len(ToBytes(container[1], "little"))
    BY DEF FileState, Partial, Complete
  <2>2. FromBytes(file) = <<>>
    <3> SUFFICES ASSUME FromBytes(file) # <<>> PROVE FALSE
      OBVIOUS
    <3> DEFINE made == container[1]
               whole == ToBytes(made, "little")
    <3>1. PICK before, offs : /\ Writable(made)
                              /\ FileHolds(whole, made, "little", before, offs)
      BY <2>1, InputIsWritten
    <3> HIDE DEF made, whole
    <3>2. BeginningOf(file, whole) /\ Len(file) # Len(whole)
      BY <2>1 DEF whole, made
    <3>3. Len(file) = Len(whole)
      BY <2>1, <3>1, <3>2, FileIsRead
    <3> QED BY <3>2, <3>3
  <2>3. ASSUME Reader # <<>>
        PROVE  /\ \A i \in Indices : IndexedSample(Reader[1], i)
                    \in {<<>>, GetBySampleIndex(container[1], i)}
               /\ \A i \in BitIndices : IndexedBit(Reader[1], i)
                    \in {<<>>, GetByBitIndex(container[1], i)}
    <3> DEFINE made == container[1]
               whole == ToBytes(made, "little")
               reader == OpenReader(file)[1]
               count == Len(samples)
    <3>1. /\ count \in Nat /\ made.original_sample_count = count /\ samples \in Seq(Sample)
          /\ \E before : ContainsChunks(made, before, ChunkSamples(samples))
          /\ AnswersAgree(file, whole, made, samples)
      BY <2>1, <2>3, ReaderOfFile DEF Reader
    <3>2. reader.original_sample_count = count
      BY <3>1 DEF AnswersAgree
    <3> HIDE DEF made, whole, reader
    <3>3. ASSUME NEW i \in Indices
          PROVE  IndexedSample(reader, i) \in {<<>>, GetBySampleIndex(made, i)}
      <4>1. i \in Nat
        BY <3>1 DEF Indices
      <4>2. CASE i < count
        <5>1. IsServed(IndexedSample(reader, i), samples[i + 1], file, whole, made)
          BY <3>1, <4>1, <4>2 DEF AnswersAgree, reader
        <5>2. GetBySampleIndex(made, i) = <<samples[i + 1]>>
          BY <3>1, <4>1, <4>2, InMemory
        <5> QED BY <5>1, <5>2 DEF IsServed
      <4>3. CASE i >= count
        BY <3>1, <3>2, <4>1, <4>3, PastTheEnd
      <4> QED BY <3>1, <4>1, <4>2, <4>3
    <3>4. ASSUME NEW i \in BitIndices
          PROVE  IndexedBit(reader, i) \in {<<>>, GetByBitIndex(made, i)}
      <4> DEFINE total == count * BitsPerSample
                 value == samples[(i \div BitsPerSample) + 1][(i % BitsPerSample) + 1]
      <4>1. total \in Nat /\ i \in Nat
        <5>1. total \in Nat
          BY <3>1, Geometry
        <5> QED BY <5>1 DEF BitIndices
      <4>2. CASE i < total
        <5>1. IsServed(IndexedBit(reader, i), value, file, whole, made)
          BY <3>1, <4>1, <4>2 DEF AnswersAgree, reader
        <5>2. GetByBitIndex(made, i) = <<value>>
          BY <3>1, <4>1, <4>2, InMemory
        <5> HIDE DEF value
        <5> QED BY <5>1, <5>2 DEF IsServed
      <4>3. CASE i >= total
        BY <3>1, <3>2, <4>1, <4>3, PastTheEnd
      <4> HIDE DEF total
      <4> QED BY <4>1, <4>2, <4>3
    <3> QED BY <3>3, <3>4 DEF Reader, reader, made
  <2> QED BY <2>2, <2>3
<1> QED BY <1>1, FileStateHolds, PTL

(* On a whole file the indexed reader answers every request as the         *)
(* container in memory does: what it finds by the offsets of the index,    *)
(* with one seek for the pair and one for the base, is what from_bytes     *)
(* reads in order (IndexedTitchyReader, random_access.rs).                 *)
THEOREM IndexedReaderIsRight == FileSpec => [](IdsAreLeft => IndexedReaderAgrees)
<1>1. FileState => (IdsAreLeft => IndexedReaderAgrees)
  <2> SUFFICES ASSUME FileState, IdsAreLeft, Complete
               PROVE  /\ Reader # <<>>
                      /\ \A i \in Indices :
                           IndexedSample(Reader[1], i) = GetBySampleIndex(container[1], i)
                      /\ \A i \in BitIndices :
                           IndexedBit(Reader[1], i) = GetByBitIndex(container[1], i)
                      /\ \A i \in Indices : \A len \in 0..(Len(samples) + 1) :
                           IndexedRange(Reader[1], i, len) = GetRange(container[1], i, len)
    BY DEF IndexedReaderAgrees
  <2> DEFINE made == container[1]
             whole == ToBytes(made, "little")
             reader == OpenReader(file)[1]
             count == Len(samples)
             total == count * BitsPerSample
  <2>1. /\ samples \in Seq(Sample) /\ container = CompressSamples(samples)
        /\ CompressSamples(samples) # <<>> /\ "little" \in {"little", "big"}
        /\ Len(file) \in Nat /\ BeginningOf(file, whole) /\ file = whole
        /\ container # <<>> /\ Len(made.dictionary) + ChunksPerSplit < Pow2[IdBits]
    BY DEF FileState, Complete, IdsAreLeft
  <2>2. OpenReader(file) # <<>>
    BY <2>1, WrittenIsServed
  <2>3. /\ count \in Nat /\ made.original_sample_count = count
        /\ \E before : ContainsChunks(made, before, ChunkSamples(samples))
        /\ AnswersAgree(file, whole, made, samples)
    BY <2>1, <2>2, ReaderOfFile
  <2>4. IsWhole(file, whole, made)
    <3>1. NarrowIds(made)
      BY <2>1, CompressedFits
    <3> QED BY <2>1, <3>1 DEF IsWhole
  <2>5. reader.original_sample_count = count
    BY <2>3 DEF AnswersAgree
  <2> HIDE DEF made, whole, reader
  <2>6. total \in Nat
    BY <2>3, Geometry
  <2>7. ASSUME NEW i \in Indices
        PROVE  IndexedSample(reader, i) = GetBySampleIndex(made, i)
    <3>1. i \in Nat
      BY <2>3 DEF Indices
    <3>2. CASE i < count
      <4>1. IsServed(IndexedSample(reader, i), samples[i + 1], file, whole, made)
        BY <2>3, <3>1, <3>2 DEF AnswersAgree, reader
      <4>2. GetBySampleIndex(made, i) = <<samples[i + 1]>>
        BY <2>1, <2>3, <3>1, <3>2, InMemory
      <4> QED BY <2>4, <4>1, <4>2 DEF IsServed
    <3>3. CASE i >= count
      BY <2>3, <2>5, <3>1, <3>3, PastTheEnd
    <3> QED BY <2>3, <3>1, <3>2, <3>3
  <2>8. ASSUME NEW i \in BitIndices
        PROVE  IndexedBit(reader, i) = GetByBitIndex(made, i)
    <3> DEFINE value == samples[(i \div BitsPerSample) + 1][(i % BitsPerSample) + 1]
    <3>1. i \in Nat
      BY <2>6 DEF BitIndices
    <3>2. CASE i < total
      <4>1. IsServed(IndexedBit(reader, i), value, file, whole, made)
        BY <2>3, <3>1, <3>2 DEF AnswersAgree, reader
      <4>2. GetByBitIndex(made, i) = <<value>>
        BY <2>1, <2>3, <3>1, <3>2, InMemory
      <4> HIDE DEF value
      <4> QED BY <2>4, <4>1, <4>2 DEF IsServed
    <3>3. CASE i >= total
      BY <2>3, <2>5, <3>1, <3>3, PastTheEnd
    <3> HIDE DEF total
    <3> QED BY <2>6, <3>1, <3>2, <3>3
  <2>9. ASSUME NEW i \in Indices, NEW len \in 0..(count + 1)
        PROVE  IndexedRange(reader, i, len) = GetRange(made, i, len)
    <3>1. i \in Nat /\ len \in Nat
      BY <2>3 DEF Indices
    <3>2. CASE len = 0
      BY <3>2 DEF IndexedRange, GetRange
    <3>3. CASE len # 0 /\ i + len > count
      <4>1. len \in Nat \ {0}
        BY <3>1, <3>3
      <4> QED BY <2>3, <2>5, <3>1, <3>3, <4>1, PastTheEnd
    <3>4. CASE len # 0 /\ i + len <= count
      <4> DEFINE part == SubSeq(samples, i + 1, i + len)
      <4>1. len \in Nat \ {0}
        BY <3>1, <3>4
      <4>2. IsServed(IndexedRange(reader, i, len), part, file, whole, made)
        BY <2>3, <3>1, <3>4, <4>1 DEF AnswersAgree, reader
      <4>3. GetRange(made, i, len) = <<part>>
        BY <2>1, <2>3, <3>1, <3>4, <4>1, InMemory
      <4> HIDE DEF part
      <4> QED BY <2>4, <4>2, <4>3 DEF IsServed
    <3> QED BY <2>3, <3>1, <3>2, <3>3, <3>4
  <2> QED BY <2>2, <2>7, <2>8, <2>9 DEF Reader, reader, made
<1> QED BY <1>1, FileStateHolds, PTL

----------------------------------------------------------------------------
(* Raw bytes.                                                              *)

(* A sample is a whole number of bytes.                                    *)
LEMMA BytesOfASample ==
  ASSUME BitsPerSample % 8 = 0
  PROVE  SampleBytes \in Nat \ {0} /\ SampleBytes * 8 = BitsPerSample
BY ConfigAssumption DEF ConfigAssumption, SampleBytes

(* Turning the bytes around twice is nothing.                              *)
LEMMA OrderTwice ==
  ASSUME NEW S, NEW n \in Nat, NEW bytes \in [1..n -> S], NEW order
  PROVE  /\ InOrder(bytes, order) \in [1..n -> S]
         /\ InOrder(InOrder(bytes, order), order) = bytes
<1> DEFINE back == [i \in 1..n |-> bytes[n - i + 1]]
<1>1. Len(bytes) = n
  BY FunctionIsSequence
<1>2. back \in [1..n -> S]
  OBVIOUS
<1>3. Reverse(bytes) = back
  BY <1>1 DEF Reverse
<1>4. Len(back) = n
  BY <1>2, FunctionIsSequence
<1>5. Reverse(back) = bytes
  <2>1. Reverse(back) = [i \in 1..n |-> back[n - i + 1]]
    BY <1>4 DEF Reverse
  <2>2. \A i \in 1..n : n - i + 1 \in 1..n /\ n - (n - i + 1) + 1 = i
    OBVIOUS
  <2>3. \A i \in 1..n : back[n - i + 1] = bytes[i]
    BY <2>2
  <2> HIDE DEF back
  <2>4. bytes = [i \in 1..n |-> bytes[i]]
    OBVIOUS
  <2> QED BY <2>1, <2>3, <2>4
<1> HIDE DEF back
<1> QED BY <1>2, <1>3, <1>5 DEF InOrder

(* The bytes of the sample made of bytes are those.                        *)
LEMMA BytesComeBack ==
  ASSUME BitsPerSample % 8 = 0, NEW order,
         NEW bytes \in [1..SampleBytes -> BitString(8)]
  PROVE  /\ SampleOfBytes(bytes, order) \in Sample
         /\ BytesOfSample(SampleOfBytes(bytes, order), order) = bytes
<1> DEFINE ordered == InOrder(bytes, order)
<1>1. SampleBytes \in Nat /\ SampleBytes * 8 = BitsPerSample
  BY BytesOfASample
<1>2. ordered \in [1..SampleBytes -> BitString(8)] /\ InOrder(ordered, order) = bytes
  BY <1>1, OrderTwice
<1> HIDE DEF ordered
<1>3. ordered \in [1..SampleBytes -> [1..8 -> Bit]]
  BY <1>2 DEF BitString
<1>4. Join(ordered, 8) \in [1..(SampleBytes * 8) -> Bit]
  BY <1>1, <1>3, JoinType
<1>5. Cut(Join(ordered, 8), 0, SampleBytes, 8) = ordered
  BY <1>1, <1>3, CutOfJoin
<1> QED BY <1>1, <1>2, <1>4, <1>5 DEF ordered, SampleOfBytes, BytesOfSample, Sample, BitString

(* The i-th w bytes.                                                       *)
Part(bytes, i, w) == SubSeq(bytes, (i - 1) * w + 1, i * w)

(* The places of its bytes.                                                *)
IsPart(part, bytes, i, w) == \A k \in 1..w : part[k] = bytes[BitAt(i, k, w)]

(* They are w bytes of the sequence.                                       *)
LEMMA PartPlaces ==
  ASSUME NEW S, NEW bytes \in Seq(S), NEW w \in Nat, NEW n \in Nat, Len(bytes) = n * w,
         NEW i \in 1..n
  PROVE  /\ Part(bytes, i, w) \in [1..w -> S]
         /\ IsPart(Part(bytes, i, w), bytes, i, w)
<1> DEFINE m == (i - 1) * w
<1>1. m \in Nat /\ i * w = m + w /\ m + w <= Len(bytes)
  <2>1. i - 1 \in Nat /\ n - i \in Nat
    OBVIOUS
  <2>2. (i - 1) * w \in Nat /\ (n - i) * w \in Nat
    BY <2>1
  <2>3. i * w = (i - 1) * w + w /\ n * w = (i - 1) * w + w + (n - i) * w
    BY <2>1
  <2> QED BY <2>2, <2>3
<1>2. Part(bytes, i, w) = SubSeq(bytes, m + 1, m + w)
  BY <1>1 DEF Part
<1>3. \A k \in 1..w : BitAt(i, k, w) = m + k
  BY DEF BitAt
<1> HIDE DEF m
<1>4. SubSeq(bytes, m + 1, m + w) = [k \in 1..w |-> bytes[m + k]]
  BY <1>1, MiddlePlaces
<1>5. \A k \in 1..w : bytes[m + k] \in S
  BY <1>1
<1> QED BY <1>2, <1>3, <1>4, <1>5 DEF IsPart

(* All parts side by side are the whole.                                   *)
LEMMA PartsMakeWhole ==
  ASSUME NEW S, NEW bytes \in Seq(S), NEW w \in Nat \ {0}, NEW n \in Nat,
         Len(bytes) = n * w
  PROVE  Join([i \in 1..n |-> Part(bytes, i, w)], w) = bytes
<1> DEFINE parts == [i \in 1..n |-> Part(bytes, i, w)]
           len == n * w
<1>1. \A i \in 1..n : parts[i] = Part(bytes, i, w)
  OBVIOUS
<1>2. parts \in [1..n -> [1..w -> S]]
  BY PartPlaces
<1>3. \A i \in 1..n : IsPart(Part(bytes, i, w), bytes, i, w)
  BY PartPlaces
<1> HIDE DEF parts
<1>4. Len(parts) = n
  BY <1>2, FunctionIsSequence
<1>5. ASSUME NEW a \in 1..len
      PROVE  parts[FieldOf(a, w)][PlaceOfBit(a, w)] = bytes[a]
  <2>1. FieldOf(a, w) \in 1..n /\ PlaceOfBit(a, w) \in 1..w
    BY FieldBounds
  <2>2. BitAt(FieldOf(a, w), PlaceOfBit(a, w), w) = a
    <3> DEFINE q == (a - 1) \div w
               r == (a - 1) % w
               prod == q * w
    <3>1. a - 1 \in Nat
      OBVIOUS
    <3>2. a - 1 = q * w + r /\ q \in Nat /\ r \in Nat /\ prod \in Nat
      BY <3>1
    <3>3. FieldOf(a, w) - 1 = q /\ PlaceOfBit(a, w) = r + 1
      BY <3>2 DEF FieldOf, PlaceOfBit
    <3> HIDE DEF q, r
    <3>4. BitAt(FieldOf(a, w), PlaceOfBit(a, w), w) = prod + (r + 1)
      BY <3>3 DEF BitAt
    <3>5. a - 1 = prod + r
      BY <3>2
    <3> HIDE DEF prod
    <3> QED BY <3>2, <3>4, <3>5
  <2>3. parts[FieldOf(a, w)] = Part(bytes, FieldOf(a, w), w)
    BY <1>1, <2>1
  <2>4. \A k \in 1..w :
          Part(bytes, FieldOf(a, w), w)[k] = bytes[BitAt(FieldOf(a, w), k, w)]
    BY <1>3, <2>1 DEF IsPart
  <2> QED BY <2>1, <2>2, <2>3, <2>4
<1>6. Join(parts, w) = [a \in 1..len |-> parts[FieldOf(a, w)][PlaceOfBit(a, w)]]
  BY <1>4 DEF Join
<1> HIDE DEF len
<1>7. bytes = [a \in 1..len |-> bytes[a]]
  BY DEF len
<1> QED BY <1>5, <1>6, <1>7 DEF parts

(* The samples that raw bytes are.                                         *)
RawSamples(bytes, order) ==
  [i \in 1..(Len(bytes) \div SampleBytes) |->
     SampleOfBytes(SubSeq(bytes, (i - 1) * SampleBytes + 1, i * SampleBytes), order)]

(* Written as bytes one after the other they are the raw bytes again.      *)
LEMMA RawSamplesComeBack ==
  ASSUME BitsPerSample % 8 = 0, NEW order, NEW bytes \in Seq(BitString(8)),
         Len(bytes) % SampleBytes = 0
  PROVE  LET input == RawSamples(bytes, order)
         IN  /\ input \in Seq(Sample)
             /\ Join([i \in 1..Len(input) |-> BytesOfSample(input[i], order)], SampleBytes)
                  = bytes
<1> DEFINE w == SampleBytes
           n == Len(bytes) \div w
           input == RawSamples(bytes, order)
<1>1. w \in Nat \ {0}
  BY BytesOfASample
<1>2. n \in Nat /\ Len(bytes) = n * w
  <2>1. Len(bytes) \in Nat /\ Len(bytes) % w = 0
    OBVIOUS
  <2> HIDE DEF w
  <2> QED BY <1>1, <2>1
<1> HIDE DEF n
<1>3. ASSUME NEW i \in 1..n
      PROVE  /\ SampleOfBytes(Part(bytes, i, w), order) \in Sample
             /\ BytesOfSample(SampleOfBytes(Part(bytes, i, w), order), order) = Part(bytes, i, w)
  <2>1. w \in Nat
    BY <1>1
  <2>2. Part(bytes, i, w) \in [1..w -> BitString(8)]
    BY <1>2, <2>1, PartPlaces
  <2> QED BY <2>2, BytesComeBack
<1>4. input = [i \in 1..n |-> SampleOfBytes(Part(bytes, i, w), order)]
  BY DEF RawSamples, Part, n
<1> HIDE DEF input
<1>5. input \in [1..n -> Sample]
  BY <1>3, <1>4
<1>6. input \in Seq(Sample) /\ Len(input) = n
  BY <1>2, <1>5, FunctionIsSequence
<1>7. \A i \in 1..n : BytesOfSample(input[i], order) = Part(bytes, i, w)
  BY <1>3, <1>4
<1>8. [i \in 1..n |-> BytesOfSample(input[i], order)] = [i \in 1..n |-> Part(bytes, i, w)]
  BY <1>7
<1>9. Join([i \in 1..n |-> Part(bytes, i, w)], w) = bytes
  BY <1>1, <1>2, PartsMakeWhole
<1> QED BY <1>6, <1>8, <1>9 DEF input

(* What compress_raw made of the bytes, decompress_raw makes bytes of      *)
(* again, in the same order.                                               *)
LEMMA RawComesBack ==
  ASSUME NEW order, NEW bytes \in Seq(BitString(8)),
         CompressRawBytes(bytes, order) # <<>>
  PROVE  /\ RawSamples(bytes, order) \in Seq(Sample)
         /\ CompressRawBytes(bytes, order) = CompressSamples(RawSamples(bytes, order))
         /\ DecompressRawBytes(CompressRawBytes(bytes, order)[1], order) = <<bytes>>
<1> DEFINE input == RawSamples(bytes, order)
           made == CompressSamples(input)[1]
<1>1. /\ BitsPerSample % 8 = 0 /\ Len(bytes) % SampleBytes = 0
      /\ CompressRawBytes(bytes, order) = CompressSamples(input)
  BY DEF CompressRawBytes, RawSamples
<1>2. input \in Seq(Sample)
  BY <1>1, RawSamplesComeBack
<1>3. Join([i \in 1..Len(input) |-> BytesOfSample(input[i], order)], SampleBytes) = bytes
  BY <1>1, RawSamplesComeBack
<1> HIDE DEF input
<1>4. CompressSamples(input) # <<>>
  BY <1>1
<1>5. /\ made.original_sample_count = Len(input)
      /\ \E before : ContainsChunks(made, before, ChunkSamples(input))
  BY <1>2, <1>4, CompressedContains
<1> HIDE DEF made
<1>6. DecompressSamples(made) = <<input>>
  BY <1>2, <1>5, DecompressesToInput
<1>7. <<input>> # <<>> /\ <<input>>[1] = input
  OBVIOUS
<1>8. DecompressRawBytes(made, order) = <<bytes>>
  BY <1>1, <1>3, <1>6, <1>7 DEF DecompressRawBytes
<1> QED BY <1>1, <1>2, <1>8 DEF input, made

(* What the container file was made of, once there is one.                 *)
RawState ==
  /\ endian \in {"little", "big"} /\ raw \in Seq(BitString(8))
  /\ packed_file # <<>> =>
       /\ CompressRawBytes(raw, endian) # <<>>
       /\ packed_file = ToBytes(CompressRawBytes(raw, endian)[1], endian)
  /\ restored # <<>> => packed_file # <<>> /\ restored = <<raw>>

(* The reader takes the byte order from the file.                          *)
LEMMA RestoredIsRaw ==
  ASSUME RawState, packed_file # <<>>, FromBytes(packed_file) # <<>>
  PROVE  DecompressRawBytes(FromBytes(packed_file)[1], HeaderConfig(packed_file).endian)
           = <<raw>>
<1> DEFINE input == RawSamples(raw, endian)
           made == CompressSamples(input)[1]
<1>1. /\ endian \in {"little", "big"} /\ raw \in Seq(BitString(8))
      /\ CompressRawBytes(raw, endian) # <<>>
      /\ packed_file = ToBytes(CompressRawBytes(raw, endian)[1], endian)
  BY DEF RawState
<1>2. /\ input \in Seq(Sample) /\ CompressRawBytes(raw, endian) = CompressSamples(input)
      /\ DecompressRawBytes(CompressRawBytes(raw, endian)[1], endian) = <<raw>>
  BY <1>1, RawComesBack
<1> HIDE DEF input
<1>3. packed_file = ToBytes(made, endian) /\ CompressSamples(input) # <<>>
  BY <1>1, <1>2
<1>4. FromBytes(packed_file) = <<made>> /\ HeaderReads(packed_file, made, endian)
  BY <1>1, <1>2, <1>3, WrittenIsRead
<1>5. HeaderConfig(packed_file).endian = endian
  BY <1>4 DEF HeaderReads
<1>6. FromBytes(packed_file)[1] = made
  BY <1>4
<1> QED BY <1>2, <1>5, <1>6

(* compress-raw and decompress-raw keep that.                              *)
LEMMA RawStateHolds == RawSpec => []RawState
<1>1. RawInit => RawState
  BY DEF RawInit, RawState
<1>2. RawState /\ [RawNext]_rawVars => RawState'
  <2> SUFFICES ASSUME RawState, [RawNext]_rawVars PROVE RawState'
    OBVIOUS
  <2>1. CASE ReadBytes
    <3>1. PICK byte \in InputByte : raw' = Append(raw, byte)
      BY <2>1 DEF ReadBytes
    <3>2. byte \in BitString(8)
      BY <3>1, WriteValueType DEF InputByte
    <3>3. raw' \in Seq(BitString(8))
      BY <3>1, <3>2 DEF RawState
    <3>4. packed_file' = <<>> /\ endian' = endian /\ restored' = <<>>
      BY <2>1 DEF ReadBytes, RawState
    <3> QED BY <3>3, <3>4 DEF RawState
  <2>2. CASE CompressRaw
    BY <2>2 DEF CompressRaw, RawState
  <2>3. CASE DecompressRaw
    <3>1. restored' = <<raw>>
      BY <2>3, RestoredIsRaw DEF DecompressRaw
    <3> QED BY <2>3, <3>1 DEF DecompressRaw, RawState
  <2>4. CASE UNCHANGED rawVars
    BY <2>4 DEF rawVars, RawState
  <2> QED BY <2>1, <2>2, <2>3, <2>4 DEF RawNext
<1> QED BY <1>1, <1>2, PTL DEF RawSpec

(* Raw bytes come back as they went in, byte for byte, in either byte      *)
(* order, for every configuration and inputs of any length                 *)
(* (compress_raw_bytes, decompress_raw_bytes and the endian tag of the     *)
(* header), whenever from_bytes takes the file.                            *)
THEOREM RawRoundTrip == RawSpec => []RawRoundTrips
<1>1. RawState => RawRoundTrips
  BY DEF RawState, RawRoundTrips
<1> QED BY <1>1, RawStateHolds, PTL

----------------------------------------------------------------------------
(* Samples as the numbers of their bytes.                                  *)

(* Eight bits more: 256 times as much.                                     *)
LEMMA Pow2OfByte == \A n \in Nat : Pow2[n + 8] = 256 * Pow2[n] /\ Pow2[n] \in Nat
<1> SUFFICES ASSUME NEW n \in Nat PROVE Pow2[n + 8] = 256 * Pow2[n] /\ Pow2[n] \in Nat
  OBVIOUS
<1>1. /\ Pow2[n] \in Nat
      /\ Pow2[n + 1] = 2 * Pow2[n]
      /\ Pow2[(n + 1) + 1] = 2 * Pow2[n + 1]
      /\ Pow2[(n + 2) + 1] = 2 * Pow2[n + 2]
      /\ Pow2[(n + 3) + 1] = 2 * Pow2[n + 3]
      /\ Pow2[(n + 4) + 1] = 2 * Pow2[n + 4]
      /\ Pow2[(n + 5) + 1] = 2 * Pow2[n + 5]
      /\ Pow2[(n + 6) + 1] = 2 * Pow2[n + 6]
      /\ Pow2[(n + 7) + 1] = 2 * Pow2[n + 7]
  BY Pow2Step, Pow2Above
<1>2. /\ (n + 1) + 1 = n + 2 /\ (n + 2) + 1 = n + 3 /\ (n + 3) + 1 = n + 4
      /\ (n + 4) + 1 = n + 5 /\ (n + 5) + 1 = n + 6 /\ (n + 6) + 1 = n + 7
      /\ (n + 7) + 1 = n + 8
  OBVIOUS
<1> QED BY <1>1, <1>2

(* The byte behind the first m bits.                                       *)
ByteAt(bits, m, byte) == byte \in BitString(8) /\ \A j \in 1..8 : byte[j] = bits[m + j]

(* The values before and after it.                                         *)
ByteAdds(value, m, byte) ==
  value[m + 8] = 256 * value[m] + ReadValue(byte) /\ value[m + 8] \in Nat

(* Reading a byte more.                                                    *)
LEMMA ReadByteMore ==
  ASSUME NEW w \in Nat, NEW bits \in BitString(w), NEW value, ValuesRead(bits, w, value),
         NEW m \in Nat, m + 8 <= w, value[m] \in Nat,
         NEW byte, ByteAt(bits, m, byte)
  PROVE  ByteAdds(value, m, byte)
<1> DEFINE u == CHOOSE u : ValuesRead(byte, 8, u)
<1>1. Len(byte) = 8 /\ \A j \in 1..8 : byte[j] \in Bit
  BY FunctionIsSequence DEF BitString, ByteAt
<1>2. ReadValue(byte) = u[8]
  BY <1>1 DEF ReadValue, ValuesRead
<1>3. ValuesRead(byte, 8, u)
  BY <1>1, ValuesExist
<1> HIDE DEF u
<1>4. \A j \in 0..8 : u[j] = IF j = 0 THEN 0 ELSE 2 * u[j - 1] + byte[j]
  BY <1>3 DEF ValuesRead
<1>5. /\ u[0] = 0 /\ u[1] = 2 * u[0] + byte[1] /\ u[2] = 2 * u[1] + byte[2]
      /\ u[3] = 2 * u[2] + byte[3] /\ u[4] = 2 * u[3] + byte[4]
      /\ u[5] = 2 * u[4] + byte[5] /\ u[6] = 2 * u[5] + byte[6]
      /\ u[7] = 2 * u[6] + byte[7] /\ u[8] = 2 * u[7] + byte[8]
  BY <1>4
<1>6. \A j \in 1..8 : value[m + j] = 2 * value[m + (j - 1)] + byte[j]
  <2> SUFFICES ASSUME NEW j \in 1..8
               PROVE  value[m + j] = 2 * value[m + (j - 1)] + byte[j]
    OBVIOUS
  <2>1. m + j \in 0..w /\ m + j # 0 /\ (m + j) - 1 = m + (j - 1)
    OBVIOUS
  <2>2. value[m + j] = 2 * value[(m + j) - 1] + bits[m + j]
    BY <2>1 DEF ValuesRead
  <2>3. byte[j] = bits[m + j]
    BY DEF ByteAt
  <2> QED BY <2>1, <2>2, <2>3
<1>7. /\ value[m + 1] = 2 * value[m + 0] + byte[1] /\ value[m + 2] = 2 * value[m + 1] + byte[2]
      /\ value[m + 3] = 2 * value[m + 2] + byte[3] /\ value[m + 4] = 2 * value[m + 3] + byte[4]
      /\ value[m + 5] = 2 * value[m + 4] + byte[5] /\ value[m + 6] = 2 * value[m + 5] + byte[6]
      /\ value[m + 7] = 2 * value[m + 6] + byte[7] /\ value[m + 8] = 2 * value[m + 7] + byte[8]
  BY <1>6
<1>8. /\ byte[1] \in Nat /\ byte[2] \in Nat /\ byte[3] \in Nat /\ byte[4] \in Nat
      /\ byte[5] \in Nat /\ byte[6] \in Nat /\ byte[7] \in Nat /\ byte[8] \in Nat
  BY <1>1 DEF Bit
<1>9. m + 0 = m
  OBVIOUS
<1>10. u[1] \in Nat /\ value[m + 1] \in Nat /\ value[m + 1] = 2 * value[m] + u[1]
  BY <1>5, <1>7, <1>8, <1>9
<1>11. u[2] \in Nat /\ value[m + 2] \in Nat /\ value[m + 2] = 4 * value[m] + u[2]
  BY <1>5, <1>7, <1>8, <1>10
<1>12. u[3] \in Nat /\ value[m + 3] \in Nat /\ value[m + 3] = 8 * value[m] + u[3]
  BY <1>5, <1>7, <1>8, <1>11
<1>13. u[4] \in Nat /\ value[m + 4] \in Nat /\ value[m + 4] = 16 * value[m] + u[4]
  BY <1>5, <1>7, <1>8, <1>12
<1>14. u[5] \in Nat /\ value[m + 5] \in Nat /\ value[m + 5] = 32 * value[m] + u[5]
  BY <1>5, <1>7, <1>8, <1>13
<1>15. u[6] \in Nat /\ value[m + 6] \in Nat /\ value[m + 6] = 64 * value[m] + u[6]
  BY <1>5, <1>7, <1>8, <1>14
<1>16. u[7] \in Nat /\ value[m + 7] \in Nat /\ value[m + 7] = 128 * value[m] + u[7]
  BY <1>5, <1>7, <1>8, <1>15
<1>17. u[8] \in Nat /\ value[m + 8] \in Nat /\ value[m + 8] = 256 * value[m] + u[8]
  <2>1. value[m + 8] = 2 * value[m + 7] + byte[8] /\ u[8] = 2 * u[7] + byte[8] /\ byte[8] \in Nat
    BY <1>5, <1>7, <1>8
  <2> QED BY ONLY <1>16, <2>1, value[m] \in Nat
<1> QED BY <1>2, <1>17 DEF ByteAdds

(* What SamplesAreTheirBytes adds up: the bytes with their weights.        *)
SumsBytes(bytes, at, order, value) ==
  value = [k \in 0..SampleBytes |->
             IF k = 0 THEN 0
             ELSE value[k - 1]
                    + ReadValue(bytes[at + k])
                        * Pow2[8 * (IF order = "little" THEN k - 1 ELSE SampleBytes - k)]]

(* It adds up to one thing.                                                *)
LEMMA OneSum ==
  ASSUME SampleBytes \in Nat, NEW bytes, NEW at, NEW order, NEW f, NEW g,
         SumsBytes(bytes, at, order, f), SumsBytes(bytes, at, order, g)
  PROVE  f[SampleBytes] = g[SampleBytes]
<1> DEFINE Bad == {k \in 0..SampleBytes : f[k] # g[k]}
           add(k) == ReadValue(bytes[at + k])
                       * Pow2[8 * (IF order = "little" THEN k - 1 ELSE SampleBytes - k)]
<1>1. \A k \in 0..SampleBytes : /\ f[k] = IF k = 0 THEN 0 ELSE f[k - 1] + add(k)
                                /\ g[k] = IF k = 0 THEN 0 ELSE g[k - 1] + add(k)
  BY DEF SumsBytes
<1> HIDE DEF add
<1>2. Bad = {}
  <2>1. SUFFICES ASSUME Bad # {} PROVE FALSE
    OBVIOUS
  <2>2. PICK k \in Bad : \A j \in Bad : k <= j
    <3>1. Bad \subseteq Nat
      OBVIOUS
    <3> QED BY <2>1, <3>1, LeastElement
  <2>3. k # 0
    BY <1>1
  <2>4. k \in 0..SampleBytes /\ k - 1 \in 0..SampleBytes /\ k - 1 \notin Bad
    BY <2>2, <2>3
  <2>5. f[k - 1] = g[k - 1]
    BY <2>4
  <2>6. f[k] = g[k]
    BY <1>1, <2>3, <2>4, <2>5
  <2> QED BY <2>2, <2>6
<1> QED BY <1>2

(* The two ways to add a byte: below what is there ...                     *)
LowByte(a, b, p) == (256 * a + b) * p = a * (256 * p) + b * p

(* ... and above it, as what is left of a total.                           *)
HighByte(t, a, b, p) == t - a * (256 * p) = (t - (256 * a + b) * p) + b * p

(* Both are what distributivity says.                                      *)
LEMMA AddLowByte ==
  ASSUME NEW a \in Nat, NEW b \in Nat, NEW p \in Nat
  PROVE  LowByte(a, b, p)
BY DEF LowByte

(* So it does for the byte above.                                          *)
LEMMA AddHighByte ==
  ASSUME NEW t \in Nat, NEW a \in Nat, NEW b \in Nat, NEW p \in Nat
  PROVE  HighByte(t, a, b, p)
<1>1. (256 * a + b) * p = a * (256 * p) + b * p
  BY AddLowByte DEF LowByte
<1>2. a * (256 * p) \in Nat /\ b * p \in Nat
  OBVIOUS
<1> QED BY <1>1, <1>2 DEF HighByte

(* A sample read as a number is the sum of its bytes with the weights they *)
(* have in the order.                                                      *)
LEMMA SampleIsItsBytes ==
  ASSUME BitsPerSample % 8 = 0, NEW order \in {"little", "big"},
         NEW bytes, NEW at \in Nat, NEW part \in [1..SampleBytes -> BitString(8)],
         \A k \in 1..SampleBytes : part[k] = bytes[at + k]
  PROVE  LET value == CHOOSE value : SumsBytes(bytes, at, order, value)
         IN  ReadValue(SampleOfBytes(part, order)) = value[SampleBytes]
<1> DEFINE w == SampleBytes
           n == w * 8
           o == InOrder(part, order)
           s == Join(o, 8)
           v == CHOOSE v : ValuesRead(s, n, v)
           Byte(j) == ReadValue(o[j])
<1>1. w \in Nat \ {0} /\ n \in Nat
  BY BytesOfASample
<1>2. o \in [1..w -> BitString(8)]
  BY <1>1, OrderTwice
<1>3. \A j \in 1..w : o[j] = IF order = "big" THEN part[j] ELSE part[w - j + 1]
  <2>1. Len(part) = w
    BY <1>1, FunctionIsSequence
  <2> QED BY <2>1 DEF InOrder, Reverse
<1> HIDE DEF o
<1>4. o \in [1..w -> [1..8 -> Bit]]
  BY <1>2 DEF BitString
<1>5. s \in BitString(n)
  BY <1>1, <1>4, JoinType DEF BitString
<1>6. ASSUME NEW j \in 1..w, NEW i \in 1..8
      PROVE  s[(j - 1) * 8 + i] = o[j][i]
  <2>1. /\ BitAt(j, i, 8) \in 1..(w * 8)
        /\ FieldOf(BitAt(j, i, 8), 8) = j /\ PlaceOfBit(BitAt(j, i, 8), 8) = i
    <3> DEFINE eight == 8
    <3>1. eight \in Nat /\ i \in 1..eight /\ w \in Nat
      BY <1>1
    <3> HIDE DEF eight
    <3>2. /\ BitAt(j, i, eight) \in 1..(w * eight)
          /\ FieldOf(BitAt(j, i, eight), eight) = j /\ PlaceOfBit(BitAt(j, i, eight), eight) = i
      BY ONLY <3>1, BitAtField, j \in 1..w
    <3> QED BY ONLY <3>2 DEF eight
  <2>2. Len(o) = w
    BY <1>1, <1>2, FunctionIsSequence
  <2>3. s[BitAt(j, i, 8)] = o[j][i]
    BY <2>1, <2>2 DEF Join
  <2> QED BY <2>3 DEF BitAt
<1>7. Len(s) = n /\ \A i \in 1..n : s[i] \in Bit
  BY <1>1, <1>5, FunctionIsSequence DEF BitString
<1>8. ReadValue(s) = v[n]
  BY <1>7 DEF ReadValue, ValuesRead
<1>9. ValuesRead(s, n, v)
  BY <1>1, <1>7, ValuesExist
<1> HIDE DEF s, v
<1> DEFINE h == [j \in 0..w |-> v[8 * j]]
<1>10. \A j \in 1..w : Byte(j) \in Nat
  BY <1>2, ReadValueFits
<1>11. \A j \in 1..w : h[j - 1] \in Nat => h[j] = 256 * h[j - 1] + Byte(j) /\ h[j] \in Nat
  <2> SUFFICES ASSUME NEW j \in 1..w, h[j - 1] \in Nat
               PROVE  h[j] = 256 * h[j - 1] + Byte(j) /\ h[j] \in Nat
    OBVIOUS
  <2> DEFINE m == 8 * (j - 1)
  <2>1. /\ m \in Nat /\ m + 8 <= n /\ j - 1 \in 0..w /\ j \in 0..w
        /\ 8 * j = m + 8 /\ (j - 1) * 8 = m
    BY <1>1
  <2>2. h[j - 1] = v[m] /\ h[j] = v[m + 8]
    BY <2>1
  <2>3. ByteAt(s, m, o[j])
    <3>1. \A i \in 1..8 : s[(j - 1) * 8 + i] = o[j][i]
      BY <1>6
    <3> HIDE DEF m
    <3>2. \A i \in 1..8 : s[m + i] = o[j][i]
      BY <2>1, <3>1
    <3>3. o[j] \in BitString(8)
      BY <1>2
    <3> QED BY <3>2, <3>3 DEF ByteAt
  <2> HIDE DEF m, n, h
  <2>4. n \in Nat /\ s \in BitString(n) /\ ValuesRead(s, n, v)
    BY <1>1, <1>5, <1>9
  <2>5. m \in Nat /\ m + 8 <= n /\ v[m] \in Nat
    BY <2>1, <2>2
  <2>6. ByteAdds(v, m, o[j])
    BY ONLY <2>3, <2>4, <2>5, ReadByteMore
  <2> QED BY <2>2, <2>6 DEF ByteAdds
<1>12. h[0] = 0
  <2>1. v[0] = 0
    BY <1>1, <1>9 DEF ValuesRead
  <2> QED BY <1>1, <2>1
<1>13. h[w] = v[n]
  <2>1. 8 * w = n /\ w \in 0..w
    BY <1>1
  <2> QED BY <2>1
<1> HIDE DEF n, h, Byte
<1>14. \A j \in 0..w : h[j] \in Nat
  <2> DEFINE Bad == {j \in 0..w : h[j] \notin Nat}
  <2>1. SUFFICES ASSUME Bad # {} PROVE FALSE
    OBVIOUS
  <2>2. PICK j \in Bad : \A k \in Bad : j <= k
    <3>1. Bad \subseteq Nat
      OBVIOUS
    <3> QED BY <2>1, <3>1, LeastElement
  <2>3. j # 0
    BY <1>12
  <2>4. j \in 1..w /\ j - 1 \in 0..w /\ j - 1 \notin Bad
    BY <1>1, <2>2, <2>3
  <2> QED BY <1>11, <2>2, <2>4
<1>15. \A j \in 1..w : h[j] = 256 * h[j - 1] + Byte(j)
  BY <1>1, <1>11, <1>14
<1> DEFINE p == [k \in 0..w |-> Pow2[8 * k]]
<1>16. \A k \in 0..w : p[k] \in Nat
  BY <1>1, Pow2Above
<1>17. p[0] = 1 /\ \A k \in 1..w : p[k] = 256 * p[k - 1]
  <2>1. p[0] = 1
    BY <1>1, Pow2Step
  <2>2. ASSUME NEW k \in 1..w PROVE p[k] = 256 * p[k - 1]
    <3>1. k \in 0..w /\ k - 1 \in 0..w /\ 8 * (k - 1) \in Nat /\ 8 * k = 8 * (k - 1) + 8
      BY <1>1
    <3> QED BY <3>1, Pow2OfByte
  <2> QED BY <2>1, <2>2
<1> DEFINE big == [k \in 0..w |-> h[k] * p[w - k]]
           little == [k \in 0..w |-> h[w] - h[w - k] * p[k]]
           sum == IF order = "little" THEN little ELSE big
<1>18. sum[w] = h[w]
  <2>1. w \in 0..w /\ w - w = 0 /\ h[w] \in Nat
    BY <1>1, <1>14
  <2>2. big[w] = h[w] * p[0] /\ little[w] = h[w] - h[0] * p[w]
    BY <2>1
  <2>3. h[w] * p[0] = h[w]
    BY <1>17, <2>1
  <2>4. p[w] \in Nat
    BY <1>16, <2>1
  <2>5. h[w] - h[0] * p[w] = h[w]
    BY <1>12, <2>1, <2>4
  <2> QED BY <2>2, <2>3, <2>5
<1>19. SumsBytes(bytes, at, order, sum)
  <2> DEFINE Weight(k) == IF order = "little" THEN k - 1 ELSE w - k
  <2>1. sum[0] = 0
    <3>1. 0 \in 0..w /\ w \in 0..w /\ w - 0 = w /\ h[w] \in Nat /\ p[w] \in Nat
      BY <1>1, <1>14, <1>16
    <3>2. big[0] = h[0] * p[w] /\ little[0] = h[w] - h[w] * p[0]
      BY <3>1
    <3>3. h[0] * p[w] = 0
      BY <1>12, <3>1
    <3>4. h[w] - h[w] * p[0] = 0
      BY <1>17, <3>1
    <3> QED BY <3>2, <3>3, <3>4
  <2>2. ASSUME NEW k \in 1..w
        PROVE  sum[k] = sum[k - 1] + ReadValue(bytes[at + k]) * Pow2[8 * Weight(k)]
    <3>1. /\ k \in 0..w /\ k - 1 \in 0..w /\ w - k \in 0..w /\ w - (k - 1) \in 1..w
          /\ w - (k - 1) \in 0..w
          /\ w - (k - 1) - 1 = w - k /\ w - k + 1 = w - (k - 1) /\ w \in 0..w
      BY <1>1
    <3>2. /\ h[w] \in Nat /\ h[k - 1] \in Nat /\ h[w - k] \in Nat
          /\ p[w - k] \in Nat /\ p[k - 1] \in Nat
      BY <1>14, <1>16, <3>1
    <3>3. CASE order = "little"
      <4> DEFINE b == Byte(w - (k - 1))
      <4>1. h[w - (k - 1)] = 256 * h[w - k] + b /\ b \in Nat
        BY ONLY <1>10, <1>15, <3>1
      <4>2. b = ReadValue(bytes[at + k])
        <5>1. o[w - (k - 1)] = part[w - (w - (k - 1)) + 1]
          BY <1>3, <3>1, <3>3
        <5>2. w - (w - (k - 1)) + 1 = k
          BY <1>1
        <5> QED BY <5>1, <5>2 DEF Byte
      <4>3. p[k] = 256 * p[k - 1] /\ p[k - 1] = Pow2[8 * Weight(k)]
        BY <1>17, <3>1, <3>3
      <4> HIDE DEF b, Weight
      <4>4. HighByte(h[w], h[w - k], b, p[k - 1])
        BY <3>2, <4>1, AddHighByte
      <4>5. little[k] = h[w] - h[w - k] * (256 * p[k - 1])
        BY <3>1, <4>3
      <4>6. little[k - 1] = h[w] - (256 * h[w - k] + b) * p[k - 1]
        BY <3>1, <4>1
      <4> HIDE DEF little
      <4>7. little[k] = little[k - 1] + b * p[k - 1]
        BY ONLY <4>4, <4>5, <4>6 DEF HighByte
      <4> QED BY <3>3, <4>2, <4>3, <4>7
    <3>4. CASE order = "big"
      <4> DEFINE b == Byte(k)
      <4>1. h[k] = 256 * h[k - 1] + b /\ b \in Nat
        BY <1>10, <1>15
      <4>2. b = ReadValue(bytes[at + k])
        BY <1>3, <3>4 DEF Byte
      <4>3. p[w - (k - 1)] = 256 * p[w - k] /\ p[w - k] = Pow2[8 * Weight(k)]
        <5>1. w - (k - 1) \in 1..w /\ w - (k - 1) - 1 = w - k
          BY ONLY <3>1
        <5>2. p[w - k] = Pow2[8 * (w - k)]
          BY ONLY <3>1
        <5>3. Weight(k) = w - k
          BY ONLY <3>4
        <5> HIDE DEF p
        <5>4. p[w - (k - 1)] = 256 * p[w - (k - 1) - 1]
          BY ONLY <1>17, <5>1
        <5> QED BY ONLY <5>1, <5>2, <5>3, <5>4
      <4> HIDE DEF b, Weight
      <4>4. LowByte(h[k - 1], b, p[w - k])
        BY <3>2, <4>1, AddLowByte
      <4>5. big[k] = (256 * h[k - 1] + b) * p[w - k]
        BY <3>1, <4>1
      <4>6. big[k - 1] = h[k - 1] * (256 * p[w - k])
        BY <3>1, <4>3
      <4> HIDE DEF big
      <4>7. big[k] = big[k - 1] + b * p[w - k]
        BY ONLY <4>4, <4>5, <4>6 DEF LowByte
      <4> QED BY <3>4, <4>2, <4>3, <4>7
    <3> QED BY <3>3, <3>4
  <2>3. sum = [k \in 0..w |-> sum[k]]
    <3>1. big = [k \in 0..w |-> big[k]] /\ little = [k \in 0..w |-> little[k]]
      OBVIOUS
    <3>2. sum = little \/ sum = big
      OBVIOUS
    <3> HIDE DEF little, big, sum
    <3> QED BY <3>1, <3>2
  <2> HIDE DEF sum
  <2>4. \A k \in 0..w :
          sum[k] = IF k = 0 THEN 0
                   ELSE sum[k - 1] + ReadValue(bytes[at + k]) * Pow2[8 * Weight(k)]
    <3>1. \A k \in 0..w : k = 0 \/ k \in 1..w
      BY <1>1
    <3> HIDE DEF Weight
    <3> QED BY <2>1, <2>2, <3>1
  <2> QED BY <2>3, <2>4 DEF SumsBytes
<1> HIDE DEF sum, p
<1> DEFINE value == CHOOSE value : SumsBytes(bytes, at, order, value)
<1>20. SumsBytes(bytes, at, order, value)
  BY <1>19
<1> HIDE DEF value
<1>21. value[w] = h[w]
  BY <1>1, <1>18, <1>19, <1>20, OneSum
<1>22. ReadValue(s) = value[w]
  BY <1>8, <1>13, <1>21
<1> QED BY <1>22 DEF value, s, o, SampleOfBytes

----------------------------------------------------------------------------
(* The same as IdsAreLeft, for the container made of the raw bytes.        *)
RawIdsAreLeft ==
  packed_file # <<>> =>
    Len(CompressRawBytes(raw, endian)[1].dictionary) + ChunksPerSplit < Pow2[IdBits]

(* What the indexed reader finds in the file of compress-raw.              *)
LEMMA RawSampleIsServed ==
  ASSUME RawState, RawIdsAreLeft, packed_file # <<>>,
         NEW i \in 1..(Len(raw) \div SampleBytes)
  PROVE  /\ BitsPerSample % 8 = 0
         /\ Part(raw, i, SampleBytes) \in [1..SampleBytes -> BitString(8)]
         /\ IsPart(Part(raw, i, SampleBytes), raw, i, SampleBytes)
         /\ IndexedSample(OpenReader(packed_file)[1], i - 1)
              = <<SampleOfBytes(Part(raw, i, SampleBytes), endian)>>
<1> DEFINE input == RawSamples(raw, endian)
           made == CompressSamples(input)[1]
           whole == ToBytes(made, endian)
           w == SampleBytes
           n == Len(raw) \div w
<1>1. /\ endian \in {"little", "big"} /\ raw \in Seq(BitString(8))
      /\ CompressRawBytes(raw, endian) # <<>>
      /\ packed_file = ToBytes(CompressRawBytes(raw, endian)[1], endian)
  BY DEF RawState
<1>2. BitsPerSample % 8 = 0 /\ Len(raw) % w = 0
  BY <1>1 DEF CompressRawBytes
<1>3. w \in Nat /\ w \in Nat \ {0}
  BY <1>2, BytesOfASample
<1>4. n \in Nat /\ Len(raw) = n * w
  <2>1. Len(raw) \in Nat /\ Len(raw) % w = 0
    BY <1>1, <1>2
  <2> HIDE DEF w
  <2> QED BY <1>3, <2>1
<1>5. i \in 1..n
  OBVIOUS
<1> HIDE DEF n
<1>6. /\ Part(raw, i, w) \in [1..w -> BitString(8)]
      /\ IsPart(Part(raw, i, w), raw, i, w)
  BY <1>1, <1>3, <1>4, <1>5, PartPlaces
<1>7. /\ input \in Seq(Sample) /\ CompressRawBytes(raw, endian) = CompressSamples(input)
  BY <1>1, RawComesBack
<1>8. Len(input) = n /\ input[i] = SampleOfBytes(Part(raw, i, w), endian)
  <2>1. input = [k \in 1..n |-> SampleOfBytes(Part(raw, k, w), endian)]
    BY DEF RawSamples, Part, n
  <2>2. input[i] = SampleOfBytes(Part(raw, i, w), endian)
    BY <1>5, <2>1
  <2>3. DOMAIN input = 1..n
    BY <2>1
  <2> HIDE DEF input
  <2>4. Len(input) = n
    BY <1>4, <1>7, <2>3
  <2> QED BY <2>2, <2>4
<1> HIDE DEF input
<1>9. packed_file = whole /\ CompressSamples(input) # <<>>
  BY <1>1, <1>7
<1>10. Len(whole) \in Nat /\ BeginningOf(whole, whole)
  <2>1. Len(whole) \in Nat
    BY <1>1, <1>7, <1>9, InputIsWritten
  <2> HIDE DEF whole
  <2> QED BY <2>1 DEF BeginningOf
<1>11. /\ OpenReader(whole) # <<>>
       /\ AnswersAgree(whole, whole, made, input)
  BY <1>1, <1>7, <1>9, <1>10, WrittenIsServed
<1>12. NarrowIds(made)
  <2>1. Len(made.dictionary) + ChunksPerSplit < Pow2[IdBits]
    BY <1>7 DEF RawIdsAreLeft
  <2> QED BY <1>7, <1>9, <2>1, CompressedFits
<1> HIDE DEF made, whole
<1>13. IsWhole(whole, whole, made)
  BY <1>12 DEF IsWhole
<1>14. IsServed(IndexedSample(OpenReader(whole)[1], i - 1), input[(i - 1) + 1],
                whole, whole, made)
  <2>1. i - 1 \in Nat /\ i - 1 < Len(input)
    BY <1>4, <1>5, <1>8
  <2> QED BY <1>11, <2>1 DEF AnswersAgree
<1>15. (i - 1) + 1 = i
  BY <1>4, <1>5
<1>16. IndexedSample(OpenReader(whole)[1], i - 1) = <<input[i]>>
  BY <1>13, <1>14, <1>15 DEF IsServed
<1> QED BY <1>2, <1>6, <1>8, <1>9, <1>16

(* The samples in the container are the numbers that the raw bytes stand   *)
(* for in their order, read one at a time from the file by index, for      *)
(* every configuration and inputs of any length, while the container's     *)
(* base IDs leave room for one more split (compress_raw_bytes,             *)
(* IndexedTitchyReader).                                                   *)
THEOREM SamplesAreNumbers == RawSpec => [](RawIdsAreLeft => SamplesAreTheirBytes)
<1>1. RawState => (RawIdsAreLeft => SamplesAreTheirBytes)
  <2> SUFFICES ASSUME RawState, RawIdsAreLeft, packed_file # <<>>,
                      NEW i \in 1..(Len(raw) \div SampleBytes)
               PROVE  LET value == CHOOSE value :
                                     SumsBytes(raw, (i - 1) * SampleBytes, endian, value)
                      IN  ReadValue(IndexedSample(OpenReader(packed_file)[1], i - 1)[1])
                            = value[SampleBytes]
    BY DEF SamplesAreTheirBytes, SumsBytes
  <2> DEFINE w == SampleBytes
             part == Part(raw, i, w)
             at == (i - 1) * w
             got == IndexedSample(OpenReader(packed_file)[1], i - 1)
  <2>1. /\ BitsPerSample % 8 = 0 /\ part \in [1..w -> BitString(8)]
        /\ IsPart(part, raw, i, w) /\ got = <<SampleOfBytes(part, endian)>>
    BY RawSampleIsServed
  <2>2. endian \in {"little", "big"}
    BY DEF RawState
  <2>3. at \in Nat
    <3>1. w \in Nat
      BY <2>1, BytesOfASample
    <3>2. i - 1 \in Nat
      OBVIOUS
    <3> QED BY <3>1, <3>2
  <2>4. \A k \in 1..w : part[k] = raw[at + k]
    BY <2>1 DEF IsPart, BitAt
  <2> HIDE DEF part, at, got
  <2> DEFINE value == CHOOSE value : SumsBytes(raw, at, endian, value)
  <2>5. ReadValue(SampleOfBytes(part, endian)) = value[w]
    BY <2>1, <2>2, <2>3, <2>4, SampleIsItsBytes
  <2>6. got[1] = SampleOfBytes(part, endian)
    BY <2>1
  <2> QED BY <2>5, <2>6 DEF got, at
<1> QED BY <1>1, RawStateHolds, PTL

----------------------------------------------------------------------------
(* Blocks of size n + 1 that a request of r bits touches, by where in a    *)
(* block it begins: one more in the last places.                           *)
LEMMA BlocksByPlace ==
  ASSUME NEW n \in Nat, NEW r \in Nat \ {0}
  PROVE  LET size == n + 1
             low == CeilDiv(r, size)
             m == (r - 1) % size
         IN  /\ low \in Nat /\ m \in 0..n
             /\ \A b \in 0..n : CeilDiv(b + r, size) = IF b < size - m THEN low ELSE low + 1
<1> DEFINE size == n + 1
           q == (r - 1) \div size
           m == (r - 1) % size
           prod == q * size
<1>1. size \in Nat \ {0} /\ r - 1 \in Nat
  OBVIOUS
<1>2. q \in Nat /\ m \in 0..n /\ r - 1 = prod + m /\ prod \in Nat
  <2>1. q \in Nat /\ m \in 0..(size - 1) /\ r - 1 = q * size + m
    <3> HIDE DEF size
    <3> QED BY <1>1
  <2>2. prod \in Nat
    <3> HIDE DEF q
    <3> QED BY <1>1, <2>1
  <2> QED BY <2>1, <2>2
<1>3. ASSUME NEW a \in Int, NEW t \in Nat, 0 <= a - t * size, a - t * size < size
      PROVE  a \div size = t
  <2> HIDE DEF size
  <2> QED BY <1>1, <1>3
<1>4. (q + 1) * size = prod + size /\ (q + 2) * size = prod + 2 * size
  <2> HIDE DEF q, size
  <2> QED BY <1>1, <1>2
<1> HIDE DEF q, m, prod
<1>5. CeilDiv(r, size) = q + 1
  <2>1. 0 <= (r + size - 1) - (q + 1) * size /\ (r + size - 1) - (q + 1) * size < size
    <3> HIDE DEF size
    <3>1. r + size - 1 = prod + m + size /\ m < size
      <4>1. m < size
        BY <1>2 DEF size
      <4> QED BY <1>1, <1>2, <4>1
    <3> QED BY <1>1, <1>2, <1>4, <3>1
  <2>2. r + size - 1 \in Int /\ q + 1 \in Nat
    BY <1>1, <1>2
  <2> HIDE DEF size
  <2> QED BY <1>3, <2>1, <2>2 DEF CeilDiv
<1>6. ASSUME NEW b \in 0..n
      PROVE  CeilDiv(b + r, size) = IF b < size - m THEN q + 1 ELSE q + 2
  <2>1. m < size /\ b < size /\ b \in Nat
    BY <1>2 DEF size
  <2> HIDE DEF size
  <2>2. (b + r) + size - 1 = prod + m + b + size
    BY <1>1, <1>2, <2>1
  <2>3. (b + r) + size - 1 \in Int /\ q + 1 \in Nat /\ q + 2 \in Nat
    BY <1>1, <1>2, <2>1
  <2>4. CASE b < size - m
    <3>1. /\ 0 <= ((b + r) + size - 1) - (q + 1) * size
          /\ ((b + r) + size - 1) - (q + 1) * size < size
      BY <1>1, <1>2, <1>4, <2>1, <2>2, <2>4
    <3> QED BY <1>3, <2>3, <2>4, <3>1 DEF CeilDiv
  <2>5. CASE ~ (b < size - m)
    <3>1. /\ 0 <= ((b + r) + size - 1) - (q + 2) * size
          /\ ((b + r) + size - 1) - (q + 2) * size < size
      BY <1>1, <1>2, <1>4, <2>1, <2>2, <2>5
    <3> QED BY <1>3, <2>3, <2>5, <3>1 DEF CeilDiv
  <2> QED BY <2>4, <2>5
<1>7. (q + 1) + 1 = q + 2 /\ q + 1 \in Nat
  BY <1>2
<1> QED BY <1>2, <1>5, <1>6, <1>7 DEF m, size

(* expected_block_count, a ceiling and a remainder, is the mean number of  *)
(* blocks over all places in a block where a request can begin, for every  *)
(* size of block and request (metrics.rs).                                 *)
THEOREM ExpectedBlocksAreTheMean == Spec => []ExpectedBlocksIsTheMean
<1>1. ExpectedBlocksIsTheMean
  <2> SUFFICES ASSUME NEW size \in 1..MaxBlock, NEW r \in 1..(TotalBits + 1)
               PROVE  LET total == CHOOSE total :
                                     total = [s \in SUBSET (0..(size - 1)) |->
                                       IF s = {} THEN 0
                                       ELSE CeilDiv((CHOOSE x \in s : TRUE) + r, size)
                                              + total[s \ {CHOOSE x \in s : TRUE}]]
                      IN  ExpectedBlocks(r, size) = total[0..(size - 1)]
    BY DEF ExpectedBlocksIsTheMean, MapThenSumSet, MapThenFoldSet
  <2> DEFINE n == size - 1
             g == [b \in 0..n |-> CeilDiv(b + r, size)]
             low == CeilDiv(r, size)
             m == (r - 1) % size
             k == size - m
             total == CHOOSE total :
                        total = [s \in SUBSET (0..n) |->
                                   IF s = {} THEN 0
                                   ELSE CeilDiv((CHOOSE x \in s : TRUE) + r, size)
                                          + total[s \ {CHOOSE x \in s : TRUE}]]
  <2>1. size \in Nat \ {0} /\ r \in Nat \ {0} /\ n \in Nat /\ n + 1 = size
    OBVIOUS
  <2>2. /\ low \in Nat /\ m \in 0..n
        /\ \A b \in 0..n : CeilDiv(b + r, size) = IF b < k THEN low ELSE low + 1
    <3> HIDE DEF n
    <3> QED BY <2>1, BlocksByPlace
  <2>3. \A b \in 0..n : g[b] = IF b < k THEN low ELSE low + 1
    BY <2>2
  <2>4. k \in Nat /\ k <= n + 1 /\ n + 1 - k = m
    <3> HIDE DEF m
    <3> QED BY <2>1, <2>2
  <2>5. SumIs(low * (n + 1) + (n + 1 - k), g, 0..n)
    <3> HIDE DEF n, g, low, m, k
    <3> QED BY <2>1, <2>2, <2>3, <2>4, SumOfLevels
  <2>6. ExpectedBlocks(r, size) = low * (n + 1) + (n + 1 - k)
    <3> HIDE DEF n, k
    <3> QED BY <2>1, <2>4 DEF ExpectedBlocks
  <2>7. ASSUME NEW t
        PROVE  SumsUp(t, g, 0..n)
                 <=> t = [s \in SUBSET (0..n) |->
                            IF s = {} THEN 0
                            ELSE CeilDiv((CHOOSE x \in s : TRUE) + r, size)
                                   + t[s \ {CHOOSE x \in s : TRUE}]]
    <3>1. \A s \in SUBSET (0..n) : s # {} => (CHOOSE x \in s : TRUE) \in 0..n
      OBVIOUS
    <3> QED BY <3>1 DEF SumsUp
  <2>8. SumsUp(total, g, 0..n)
    <3>1. PICK t : SumsUp(t, g, 0..n)
      BY <2>5 DEF SumIs
    <3>2. t = [s \in SUBSET (0..n) |->
                 IF s = {} THEN 0
                 ELSE CeilDiv((CHOOSE x \in s : TRUE) + r, size)
                        + t[s \ {CHOOSE x \in s : TRUE}]]
      BY <2>7, <3>1
    <3>3. total = [s \in SUBSET (0..n) |->
                     IF s = {} THEN 0
                     ELSE CeilDiv((CHOOSE x \in s : TRUE) + r, size)
                            + total[s \ {CHOOSE x \in s : TRUE}]]
      BY <3>2
    <3> HIDE DEF total, n, g
    <3> QED BY <2>7, <3>3
  <2>9. total[0..n] = ExpectedBlocks(r, size)
    <3> HIDE DEF total, g, n, low, k
    <3> QED BY <2>5, <2>6, <2>8 DEF SumIs
  <2> QED BY <2>9
<1> QED BY <1>1, PTL

----------------------------------------------------------------------------
(* How many pairs the splits have, and how many bases there are.           *)

(* All splits but the current one are full, and no chunk brought more than *)
(* one base.                                                               *)
CountsAre(c, n) ==
  /\ \A s \in 1..Len(c.splits) : Len(c.splits[s].pairs) = ChunksPerSplit
  /\ Len(c.current_split.pairs) <= ChunksPerSplit
  /\ Len(c.persisted_bases) <= n

(* A split that is put away is full.                                       *)
LEMMA NextSplitCounts ==
  ASSUME NEW C, NEW n \in Nat, NEW c, Keeps(c, n, C), CountsAre(c, n),
         Len(c.current_split.pairs) = ChunksPerSplit
  PROVE  CountsAre(NextSplit(c), n) /\ NextSplit(c).current_split.pairs = <<>>
<1> DEFINE next == NextSplit(c)
           widths == c.current_split
           split == NewSplit(UpdateLId(c.dictionary.next_id, widths.l_id),
                             UpdateLD(c.dictionary.next_id, c.old_base_count, widths.l_d))
<1>1. c \in Compression /\ c.splits \in Seq(Split) /\ widths \in Split
  BY DEF Keeps, Compression
<1>2. next = [c EXCEPT !.splits = Append(c.splits, widths),
                       !.current_split = split,
                       !.old_base_count = c.dictionary.next_id]
  BY DEF NextSplit
<1>3. split.pairs = <<>>
  BY DEF NewSplit
<1> HIDE DEF next, split
<1>4. /\ next.splits = Append(c.splits, widths) /\ next.current_split = split
      /\ next.persisted_bases = c.persisted_bases
  BY <1>1, <1>2 DEF Compression
<1>5. ASSUME NEW s \in 1..Len(next.splits)
      PROVE  Len(next.splits[s].pairs) = ChunksPerSplit
  <2>1. s \in 1..(Len(c.splits) + 1) /\ Len(c.splits) \in Nat
    BY <1>1, <1>4
  <2>2. CASE s = Len(c.splits) + 1
    BY <1>1, <1>4, <2>2
  <2>3. CASE s # Len(c.splits) + 1
    <3>1. s \in 1..Len(c.splits)
      BY <2>1, <2>3
    <3> QED BY <1>1, <1>4, <3>1 DEF CountsAre
  <2> QED BY <2>2, <2>3
<1>6. Len(next.current_split.pairs) <= ChunksPerSplit
  BY <1>3, <1>4, ConfigConstants
<1> QED BY <1>3, <1>4, <1>5, <1>6 DEF CountsAre, next

(* One chunk more.                                                         *)
LEMMA ChunkCounts ==
  ASSUME NEW C \in Seq(Chunk), NEW n \in Nat, n < Len(C), NEW c, Keeps(c, n, C),
         CountsAre(c, n)
  PROVE  LET after == CompressChunk(c, C[n + 1])
         IN  after.panicked \/ CountsAre(after, n + 1)
<1> DEFINE chunk == C[n + 1]
           current == IF Len(c.current_split.pairs) = ChunksPerSplit THEN NextSplit(c) ELSE c
           split == current.current_split
           base == PackSamples(BaseSamples(chunk, split.l_d))
           got == GetOrInsert(current.dictionary, base)
           pair == [base_id |-> got.id, deviation_bits |-> DeviationBits(chunk, split.l_d)]
           bases == current.persisted_bases
           more == IF got.is_new THEN Append(bases, base) ELSE bases
           longer == [split EXCEPT !.pairs = Append(split.pairs, pair)]
           after == CompressChunk(c, chunk)
<1>1. Keeps(current, n, C) /\ CountsAre(current, n)
  BY NextSplitKeeps, NextSplitCounts
<1>2. after = IF IdsExhausted(current.dictionary, base)
              THEN [current EXCEPT !.panicked = TRUE]
              ELSE [current EXCEPT !.dictionary = got.dictionary,
                                   !.persisted_bases = more,
                                   !.current_split.pairs =
                                      Append(current.current_split.pairs, pair)]
  BY DEF CompressChunk, TransformChunk
<1>3. Len(split.pairs) # ChunksPerSplit
  <2>1. CASE Len(c.current_split.pairs) = ChunksPerSplit
    <3>1. split.pairs = <<>>
      BY <2>1, NextSplitCounts
    <3> QED BY <3>1, ConfigConstants
  <2>2. CASE Len(c.current_split.pairs) # ChunksPerSplit
    BY <2>2
  <2> QED BY <2>1, <2>2
<1> HIDE DEF current, after
<1>4. /\ current \in Compression /\ current.splits \in Seq(Split)
      /\ split \in Split /\ split.pairs \in Seq(Pair)
      /\ bases \in Seq(PackedBase)
  <2>1. current \in Compression
    BY <1>1 DEF Keeps
  <2>2. split \in Split
    BY <2>1 DEF Compression
  <2> QED BY <2>1, <2>2 DEF Compression, Split
<1>5. CASE IdsExhausted(current.dictionary, base)
  BY <1>2, <1>4, <1>5 DEF Compression, after
<1>6. CASE ~ IdsExhausted(current.dictionary, base)
  <2> HIDE DEF got, base, pair, split
  <2>1. after = [current EXCEPT !.dictionary = got.dictionary,
                                !.persisted_bases = more,
                                !.current_split = longer]
    BY <1>2, <1>4, <1>6 DEF Compression, Split, split
  <2>2. longer.pairs = Append(split.pairs, pair)
    BY <1>4 DEF Split
  <2>3. Len(Append(split.pairs, pair)) = Len(split.pairs) + 1 /\ Len(split.pairs) \in Nat
    BY <1>4
  <2>4. Len(more) <= Len(bases) + 1 /\ Len(bases) \in Nat
    BY <1>4
  <2> HIDE DEF longer, more
  <2>5. /\ after.splits = current.splits /\ after.current_split = longer
        /\ after.persisted_bases = more
    BY <1>4, <2>1 DEF Compression
  <2>6. Len(split.pairs) <= ChunksPerSplit /\ Len(bases) <= n
    BY <1>1 DEF CountsAre, split
  <2>7. Len(longer.pairs) <= ChunksPerSplit
    BY <1>3, <2>2, <2>3, <2>6, ConfigConstants
  <2>8. more \in Seq(PackedBase) => Len(more) \in Nat
    OBVIOUS
  <2>9. Len(more) \in Nat
    BY <1>4 DEF more
  <2>10. Len(more) <= n + 1
    BY <2>4, <2>6, <2>9
  <2> QED BY <1>1, <2>5, <2>7, <2>10 DEF CountsAre, after
<1> QED BY <1>5, <1>6

(* ... and any number of chunks.                                           *)
LEMMA CompressesCounts ==
  ASSUME NEW C \in Seq(Chunk), NEW after, Compresses(after, C, Len(C)),
         NEW n \in 0..Len(C)
  PROVE  after[n].panicked \/ CountsAre(after[n], n)
<1> DEFINE Right(k) == after[k].panicked \/ CountsAre(after[k], k)
           Bad == {k \in Nat : k <= Len(C) /\ ~ Right(k)}
<1>1. /\ Len(C) \in Nat
      /\ \A i \in 0..Len(C) : after[i] = IF i = 0 THEN NewCompression
                                         ELSE CompressNext(after[i - 1], C[i])
  BY DEF Compresses
<1>2. Bad = {}
  <2>1. SUFFICES ASSUME Bad # {} PROVE FALSE
    OBVIOUS
  <2>2. PICK k \in Bad : \A j \in Bad : k <= j
    <3> HIDE DEF Right
    <3> QED BY <2>1, LeastElement
  <2>3. k \in Nat /\ k <= Len(C) /\ ~ Right(k)
    BY <2>2
  <2>4. CASE k = 0
    <3>1. after[0] = NewCompression
      BY <1>1
    <3>2. CountsAre(NewCompression, 0)
      BY ConfigConstants DEF CountsAre, NewCompression, NewSplit
    <3> QED BY <2>3, <2>4, <3>1, <3>2
  <2>5. CASE k # 0
    <3>1. k - 1 \in Nat /\ k - 1 < Len(C) /\ k - 1 \notin Bad /\ k - 1 \in 0..Len(C)
      BY <1>1, <2>2, <2>3, <2>5
    <3>2. Right(k - 1)
      BY <1>1, <3>1
    <3>3. after[k] = CompressNext(after[k - 1], C[k])
      BY <1>1, <2>3, <2>5
    <3>4. (k - 1) + 1 = k
      BY <2>3
    <3>5. CASE after[k - 1].panicked
      BY <2>3, <3>3, <3>5 DEF CompressNext
    <3>6. CASE ~ after[k - 1].panicked
      <4>1. CountsAre(after[k - 1], k - 1)
        BY <3>2, <3>6
      <4>2. Keeps(after[k - 1], k - 1, C)
        BY <3>1, <3>6, CompressesKeeps
      <4>3. after[k] = CompressChunk(after[k - 1], C[k])
        BY <3>3, <3>6 DEF CompressNext
      <4>4. after[k].panicked \/ CountsAre(after[k], k)
        BY <3>1, <3>4, <4>1, <4>2, <4>3, ChunkCounts
      <4> QED BY <2>3, <4>4
    <3> QED BY <3>5, <3>6
  <2> QED BY <2>4, <2>5
<1>3. n \in Nat /\ n <= Len(C)
  BY <1>1
<1> QED BY <1>2, <1>3

(* Every split of a container has pairs, all but the last are full, and    *)
(* there are no more bases than chunks.                                    *)
EvenlySplit(made, n) ==
  /\ \A s \in 1..Len(made.splits) :
       /\ Len(made.splits[s].pairs) \in 1..ChunksPerSplit
       /\ s < Len(made.splits) => Len(made.splits[s].pairs) = ChunksPerSplit
  /\ Len(made.dictionary) <= n

(* ... in every one that compress_samples returns.                         *)
LEMMA CompressedIsEven ==
  ASSUME NEW input \in Seq(Sample), CompressSamples(input) # <<>>
  PROVE  EvenlySplit(CompressSamples(input)[1], Len(ChunkSamples(input)))
<1> DEFINE C == ChunkSamples(input)
           compressed == CompressSamples(input)
           after == CHOOSE f : Compresses(f, C, Len(C))
           done == after[Len(C)]
           splits == IF done.current_split.pairs = <<>> THEN done.splits
                     ELSE Append(done.splits, done.current_split)
           made == [original_sample_count |-> Len(input),
                    dictionary |-> done.persisted_bases,
                    splits |-> splits]
<1>1. C \in Seq(Chunk) /\ Len(C) \in Nat
  BY ChunksHoldSamples
<1>2. compressed = IF done.panicked THEN <<>> ELSE <<made>>
  BY DEF CompressSamples, Compresses, CompressNext
<1>3. Compresses(after, C, Len(C))
  BY <1>1, CompressionExists
<1>4. compressed # <<>>
  OBVIOUS
<1> HIDE DEF after, C, compressed
<1>5. ~ done.panicked /\ compressed = <<made>>
  BY <1>2, <1>4
<1>6. Len(C) \in 0..Len(C)
  BY <1>1
<1>7. Keeps(done, Len(C), C) /\ CountsAre(done, Len(C))
  BY <1>1, <1>3, <1>5, <1>6, CompressesKeeps, CompressesCounts
<1>8. /\ done.splits \in Seq(Split) /\ Len(done.splits) \in Nat
      /\ done.current_split \in Split
      /\ done.current_split.pairs \in Seq(Pair)
  BY <1>7 DEF Keeps, Compression, Split
<1>9. /\ Len(done.current_split.pairs) <= ChunksPerSplit
      /\ \A s \in 1..Len(done.splits) : Len(done.splits[s].pairs) = ChunksPerSplit
      /\ Len(done.persisted_bases) <= Len(C)
  BY <1>7 DEF CountsAre
<1>10. ChunksPerSplit \in Nat \ {0}
  BY ConfigConstants
<1> HIDE DEF done
<1>11. \A s \in 1..Len(splits) :
         /\ Len(splits[s].pairs) \in 1..ChunksPerSplit
         /\ s < Len(splits) => Len(splits[s].pairs) = ChunksPerSplit
  <2>1. CASE done.current_split.pairs = <<>>
    <3>1. splits = done.splits
      BY <2>1
    <3> QED BY <1>9, <1>10, <3>1
  <2>2. CASE done.current_split.pairs # <<>>
    <3> DEFINE more == Append(done.splits, done.current_split)
    <3>1. /\ Len(more) = Len(done.splits) + 1
          /\ more[Len(done.splits) + 1] = done.current_split
          /\ \A s \in 1..Len(done.splits) : more[s] = done.splits[s]
      BY <1>8, AppendProperties
    <3>2. splits = more
      BY <2>2
    <3>3. Len(done.current_split.pairs) \in 1..ChunksPerSplit
      BY <1>8, <1>9, <1>10, <2>2
    <3> HIDE DEF more, splits
    <3>4. ASSUME NEW s \in 1..Len(more)
          PROVE  /\ Len(more[s].pairs) \in 1..ChunksPerSplit
                 /\ s < Len(more) => Len(more[s].pairs) = ChunksPerSplit
      <4>1. CASE s = Len(done.splits) + 1
        BY <1>8, <3>1, <3>3, <4>1
      <4>2. CASE s # Len(done.splits) + 1
        <5>1. s \in 1..Len(done.splits)
          BY <1>8, <3>1, <4>2
        <5>2. more[s] = done.splits[s]
          BY ONLY <3>1, <5>1
        <5>3. Len(done.splits[s].pairs) = ChunksPerSplit
          BY ONLY <1>9, <5>1
        <5> QED BY ONLY <1>10, <5>2, <5>3
      <4> QED BY <4>1, <4>2
    <3> QED BY <3>2, <3>4
  <2> QED BY <2>1, <2>2
<1> HIDE DEF splits
<1>12. made.dictionary = done.persisted_bases /\ made.splits = splits /\ compressed[1] = made
  BY <1>5
<1> HIDE DEF made
<1> QED BY <1>9, <1>11, <1>12 DEF EvenlySplit, compressed, C

----------------------------------------------------------------------------
(* Where the splits begin, when all but the last are full.                 *)
BeginsAt(before, m, n) ==
  /\ before \in [1..(m + 1) -> 0..n] /\ before[m + 1] = n
  /\ \A s \in 1..m : before[s] = (s - 1) * ChunksPerSplit /\ before[s] < before[s + 1]
  /\ n <= m * ChunksPerSplit

(* In an evenly split container they begin so.                             *)
LEMMA EvenBeginnings ==
  ASSUME NEW made, NEW before, NEW C, ContainsChunks(made, before, C),
         EvenlySplit(made, Len(C))
  PROVE  BeginsAt(before, Len(made.splits), Len(C))
<1> DEFINE splits == made.splits
           m == Len(splits)
           n == Len(C)
           K == ChunksPerSplit
<1>1. /\ m \in Nat /\ n \in Nat /\ K \in Nat \ {0}
      /\ before \in [1..(m + 1) -> 0..n] /\ before[1] = 0 /\ before[m + 1] = n
      /\ \A s \in 1..m : before[s + 1] = before[s] + Len(splits[s].pairs)
  <2>1. splits \in Seq(Split) /\ C \in Seq(Chunk)
    BY DEF ContainsChunks, LaidOut
  <2> QED BY <2>1, ConfigConstants DEF ContainsChunks, LaidOut, HoldsChunks
<1>2. \A s \in 1..m : Len(splits[s].pairs) \in 1..K /\ (s < m => Len(splits[s].pairs) = K)
  BY DEF EvenlySplit
<1> HIDE DEF splits, m, n, K
<1>3. \A s \in 1..m : before[s] \in Nat /\ before[s + 1] \in Nat
  BY <1>1
<1> DEFINE Bad == {s \in Nat : s \in 1..m /\ before[s] # (s - 1) * K}
<1>4. Bad = {}
  <2>1. SUFFICES ASSUME Bad # {} PROVE FALSE
    OBVIOUS
  <2>2. PICK s \in Bad : \A k \in Bad : s <= k
    BY <2>1, LeastElement
  <2>3. s \in 1..m /\ s \in Nat /\ before[s] # (s - 1) * K
    BY <2>2
  <2>4. s # 1
    <3>1. (1 - 1) * K = 0
      BY <1>1
    <3> QED BY <1>1, <2>3, <3>1
  <2>5. s - 1 \in 1..m /\ s - 1 \in Nat /\ ~ (s <= s - 1) /\ (s - 1) + 1 = s /\ s - 1 < m
    BY <1>1, <2>3, <2>4
  <2>6. before[s - 1] = ((s - 1) - 1) * K
    BY <2>2, <2>5
  <2>7. before[s] = before[s - 1] + Len(splits[s - 1].pairs)
    BY <1>1, <2>5
  <2>8. Len(splits[s - 1].pairs) = K
    BY <1>2, <2>5
  <2>9. ((s - 1) - 1) * K + K = (s - 1) * K
    BY <1>1, <2>5
  <2> QED BY <2>3, <2>6, <2>7, <2>8, <2>9
<1>5. ASSUME NEW s \in 1..m
      PROVE  before[s] = (s - 1) * K /\ before[s] < before[s + 1]
  <2>1. before[s] = (s - 1) * K
    <3>1. s \in Nat
      BY <1>1
    <3>2. s \notin Bad
      BY <1>4
    <3> QED BY <3>1, <3>2
  <2>2. before[s + 1] = before[s] + Len(splits[s].pairs) /\ Len(splits[s].pairs) \in 1..K
    BY <1>1, <1>2
  <2>3. before[s] < before[s + 1]
    BY <1>1, <1>3, <2>2
  <2> QED BY <2>1, <2>3
<1>6. n <= m * K
  <2>1. CASE m = 0
    BY <1>1, <2>1
  <2>2. CASE m # 0
    <3>1. m \in 1..m
      BY <1>1, <2>2
    <3>2. before[m] = (m - 1) * K
      BY <1>5, <3>1
    <3>3. n = before[m] + Len(splits[m].pairs) /\ Len(splits[m].pairs) \in 1..K
      BY <1>1, <1>2, <3>1
    <3>4. m - 1 \in Nat
      BY <1>1, <3>1
    <3>5. (m - 1) * K + K = m * K /\ (m - 1) * K \in Nat
      <4> DEFINE k == m - 1
      <4>1. k \in Nat /\ m = k + 1
        BY <1>1, <3>4
      <4> HIDE DEF k
      <4>2. (k + 1) * K = k * K + K /\ k * K \in Nat
        BY <1>1, <4>1
      <4> QED BY <4>1, <4>2 DEF k
    <3> DEFINE prod == (m - 1) * K
               all == m * K
               pairs == Len(splits[m].pairs)
    <3>6. /\ before[m] = prod /\ n = before[m] + pairs /\ pairs \in 1..K
          /\ prod + K = all /\ prod \in Nat /\ K \in Nat
      BY <1>1, <3>2, <3>3, <3>5
    <3> HIDE DEF prod, all, pairs
    <3>7. n <= all
      BY ONLY <3>6
    <3> QED BY <3>7 DEF all
  <2> QED BY <2>1, <2>2
<1> QED BY <1>1, <1>5, <1>6 DEF BeginsAt, K, m, n, splits

(* So whether a chunk comes before, in or after a split is found by        *)
(* dividing its number.                                                    *)
LiesBy(q, s, m, before) ==
  /\ before[s] <= q <=> s - 1 <= q \div ChunksPerSplit
  /\ q < before[s + 1] <=> q \div ChunksPerSplit < s
  /\ q \div ChunksPerSplit \in 0..(m - 1)

(* ... for every chunk and every split.                                    *)
LEMMA SplitByDivision ==
  ASSUME NEW m \in Nat, NEW n \in Nat, NEW before, BeginsAt(before, m, n),
         NEW s \in 1..m, NEW q \in Nat, q < n
  PROVE  LiesBy(q, s, m, before)
<1> DEFINE K == ChunksPerSplit
           p == q \div K
<1>1. /\ K \in Nat \ {0} /\ p \in Nat /\ p * K \in Nat /\ p * K <= q /\ q < p * K + K
  BY ConfigConstants, QuotientBelow
<1>2. p < m
  <2>1. m * K \in Nat
    BY <1>1
  <2>2. q < m * K
    BY <1>1, <2>1 DEF BeginsAt
  <2> QED BY <1>1, <2>2, QuotientLess
<1> HIDE DEF p
<1>3. /\ s - 1 \in Nat /\ before[s] = (s - 1) * K /\ (s - 1) * K \in Nat
      /\ s < m => before[s + 1] = s * K
      /\ s = m => before[s + 1] = n
  <2>1. s - 1 \in Nat
    OBVIOUS
  <2>2. (s - 1) * K \in Nat
    BY <1>1, <2>1
  <2>3. s < m => s + 1 \in 1..m /\ (s + 1) - 1 = s
    OBVIOUS
  <2> QED BY <2>1, <2>2, <2>3 DEF BeginsAt, K
<1>4. (s - 1) * K + K = s * K
  BY <1>1
<1>5. before[s] <= q <=> s - 1 <= p
  <2>1. q < (s - 1) * K <=> p < s - 1
    BY <1>1, <1>3, QuotientLess DEF p
  <2> HIDE DEF K
  <2> QED BY <1>1, <1>3, <2>1
<1>6. q < before[s + 1] <=> p < s
  <2>1. q < s * K <=> p < s
    BY <1>1, QuotientLess DEF p
  <2>2. CASE s < m
    BY <1>3, <2>1, <2>2
  <2>3. CASE s = m
    BY <1>2, <1>3, <2>3
  <2> QED BY <2>2, <2>3
<1>7. p \in 0..(m - 1)
  BY <1>1, <1>2
<1> QED BY <1>5, <1>6, <1>7 DEF LiesBy, p, K

----------------------------------------------------------------------------
(* The loop of titchy_access_bounds: where each split ends.                *)
Ends(f, splits) ==
  f = [s \in 0..Len(splits) |-> IF s = 0 THEN 0 ELSE f[s - 1] + Len(splits[s].pairs)]

(* It ends where the next one begins.                                      *)
LEMMA SplitEnds ==
  ASSUME NEW made, NEW before, NEW C, ContainsChunks(made, before, C)
  PROVE  /\ \E f : Ends(f, made.splits)
         /\ \A f : Ends(f, made.splits) =>
              \A s \in 0..Len(made.splits) : f[s] = before[s + 1]
<1> DEFINE splits == made.splits
           m == Len(splits)
           r == [s \in 0..m |-> before[s + 1]]
<1>1. /\ m \in Nat /\ before[1] = 0
      /\ \A s \in 1..m : before[s + 1] = before[s] + Len(splits[s].pairs)
  <2>1. splits \in Seq(Split)
    BY DEF ContainsChunks, LaidOut
  <2> QED BY <2>1 DEF ContainsChunks, LaidOut, HoldsChunks
<1> HIDE DEF splits, m
<1>2. ASSUME NEW s \in 0..m, s # 0
      PROVE  /\ s \in 1..m /\ s - 1 \in 0..m /\ (s - 1) + 1 = s
             /\ before[s + 1] = before[s] + Len(splits[s].pairs)
  <2>1. s \in 1..m /\ s - 1 \in 0..m /\ (s - 1) + 1 = s
    BY <1>1, <1>2
  <2> QED BY <1>1, <2>1
<1>3. Ends(r, splits)
  <2>1. ASSUME NEW s \in 0..m
        PROVE  r[s] = IF s = 0 THEN 0 ELSE r[s - 1] + Len(splits[s].pairs)
    BY <1>1, <1>2
  <2>2. r = [s \in 0..m |-> r[s]]
    OBVIOUS
  <2> HIDE DEF r
  <2> QED BY <2>1, <2>2 DEF Ends, m
<1> HIDE DEF r
<1>4. ASSUME NEW f, Ends(f, splits), NEW s \in 0..m PROVE f[s] = before[s + 1]
  <2> DEFINE Bad == {t \in Nat : t \in 0..m /\ f[t] # before[t + 1]}
  <2>1. \A t \in 0..m : f[t] = IF t = 0 THEN 0 ELSE f[t - 1] + Len(splits[t].pairs)
    BY <1>4 DEF Ends, m
  <2>2. Bad = {}
    <3>1. SUFFICES ASSUME Bad # {} PROVE FALSE
      OBVIOUS
    <3>2. PICK t \in Bad : \A k \in Bad : t <= k
      BY <3>1, LeastElement
    <3>3. t \in 0..m /\ t \in Nat /\ f[t] # before[t + 1]
      BY <3>2
    <3>4. CASE t = 0
      BY <1>1, <2>1, <3>3, <3>4
    <3>5. CASE t # 0
      <4>1. t - 1 \in 0..m /\ t - 1 \in Nat /\ ~ (t <= t - 1) /\ (t - 1) + 1 = t
        BY <1>1, <3>3, <3>5
      <4>2. f[t - 1] = before[t]
        BY <3>2, <4>1
      <4> QED BY <1>2, <2>1, <3>3, <3>5, <4>2
    <3> QED BY <3>4, <3>5
  <2>3. s \in Nat
    BY <1>1
  <2> QED BY <2>2, <2>3
<1>5. /\ \E f : Ends(f, splits)
      /\ \A f : Ends(f, splits) => \A s \in 0..m : f[s] = before[s + 1]
  BY <1>3, <1>4
<1> QED BY <1>5 DEF splits, m

(* The least and the greatest of two numbers.                              *)
LEMMA LeastOfTwo ==
  ASSUME NEW a \in Int, NEW b \in Int
  PROVE  /\ Min({a, b}) = IF a <= b THEN a ELSE b
         /\ Max({a, b}) = IF a <= b THEN b ELSE a
<1>1. Min({a, b}) = IF a <= b THEN a ELSE b
  BY DEF Min
<1>2. Max({a, b}) = IF a <= b THEN b ELSE a
  BY DEF Max
<1> QED BY <1>1, <1>2

(* The chunks from lo to hi in those of a split from a to b - 1, as        *)
(* titchy_access_bounds counts them.                                       *)
Overlap(lo, hi, a, b) == Min({hi + 1, b}) - Max({lo, a})

(* A positive overlap is how many numbers lie in both.                     *)
OverlapIsWithin(lo, hi, a, b) ==
  /\ Overlap(lo, hi, a, b) \in Int
  /\ Overlap(lo, hi, a, b) > 0 => Within(lo, hi, a, b) = Overlap(lo, hi, a, b)
  /\ ~ (Overlap(lo, hi, a, b) > 0) => Within(lo, hi, a, b) = 0
  /\ Overlap(lo, hi, a, b) > 0 <=> lo < b /\ a <= hi

(* ... of two intervals that are not empty.                                *)
LEMMA OverlapCounts ==
  ASSUME NEW lo \in Int, NEW hi \in Int, NEW a \in Int, NEW b \in Int, lo <= hi, a < b
  PROVE  OverlapIsWithin(lo, hi, a, b)
<1>1. Overlap(lo, hi, a, b)
        = (IF hi + 1 <= b THEN hi + 1 ELSE b) - (IF lo <= a THEN a ELSE lo)
  <2>1. Min({hi + 1, b}) = IF hi + 1 <= b THEN hi + 1 ELSE b
    BY LeastOfTwo
  <2>2. Max({lo, a}) = IF lo <= a THEN a ELSE lo
    BY LeastOfTwo
  <2> QED BY <2>1, <2>2 DEF Overlap
<1> DEFINE over == Overlap(lo, hi, a, b)
<1>2. over = (IF hi + 1 <= b THEN hi + 1 ELSE b) - (IF lo <= a THEN a ELSE lo)
  BY <1>1
<1> HIDE DEF over
<1>3. /\ over \in Int
      /\ over > 0 => Within(lo, hi, a, b) = over
      /\ ~ (over > 0) => Within(lo, hi, a, b) = 0
      /\ over > 0 <=> lo < b /\ a <= hi
  BY <1>2 DEF Within
<1> QED BY <1>3 DEF OverlapIsWithin, over

----------------------------------------------------------------------------
(* The two accounts of a request, by split and by chunk.                   *)

(* What one chunk costs in a split, and what each split costs.             *)
ChunkCosts(made, n) ==
  [q \in 0..(n - 1) |-> PairWidth(made.splits[q \div ChunksPerSplit + 1])]

(* A split costs its widths and the pairs that the request takes from it.  *)
SplitCosts(made, before, lo, hi) ==
  [s \in 0..Len(made.splits) |->
     IF s = 0 THEN 0
     ELSE ParameterBits + Overlap(lo, hi, before[s], before[s + 1]) * PairWidth(made.splits[s])]

(* The splits that a request of the chunks from lo to hi touches.          *)
TouchedSplits(made, before, lo, hi) ==
  {s \in 1..Len(made.splits) : Overlap(lo, hi, before[s], before[s + 1]) > 0}

(* They are those from the first chunk's to the last's.                    *)
LEMMA TouchedSplitsAre ==
  ASSUME NEW made, NEW before, NEW n \in Nat, Len(made.splits) \in Nat,
         BeginsAt(before, Len(made.splits), n),
         NEW lo \in Nat, NEW hi \in Nat, lo <= hi, hi < n
  PROVE  /\ TouchedSplits(made, before, lo, hi)
              = (lo \div ChunksPerSplit + 1)..(hi \div ChunksPerSplit + 1)
         /\ lo \div ChunksPerSplit \in Nat
         /\ hi \div ChunksPerSplit \in 0..(Len(made.splits) - 1)
         /\ lo \div ChunksPerSplit <= hi \div ChunksPerSplit
<1> DEFINE m == Len(made.splits)
           first == lo \div ChunksPerSplit
           last == hi \div ChunksPerSplit
           touched == TouchedSplits(made, before, lo, hi)
<1>1. m # 0
  <2>1. BeginsAt(before, m, n) /\ ChunksPerSplit \in Nat
    BY ConfigConstants
  <2> HIDE DEF m
  <2>2. m = 0 => n <= 0
    <3>1. 0 * ChunksPerSplit = 0
      BY <2>1
    <3> QED BY <2>1, <3>1 DEF BeginsAt
  <2> QED BY <2>2
<1>2. ASSUME NEW s \in 1..m PROVE LiesBy(lo, s, m, before) /\ LiesBy(hi, s, m, before)
  BY <1>2, SplitByDivision
<1>3. first \in 0..(m - 1) /\ last \in 0..(m - 1)
  <2>1. 1 \in 1..m
    BY <1>1
  <2>2. LiesBy(lo, 1, m, before) /\ LiesBy(hi, 1, m, before)
    BY <1>2, <2>1
  <2> QED BY <2>2 DEF LiesBy
<1>4. first <= last
  BY QuotientsOfInterval, ConfigConstants
<1> HIDE DEF first, last
<1>5. ASSUME NEW s \in 1..m
      PROVE  Overlap(lo, hi, before[s], before[s + 1]) > 0 <=> first + 1 <= s /\ s <= last + 1
  <2>1. /\ before[s] \in Int /\ before[s + 1] \in Int /\ before[s] < before[s + 1]
        /\ lo \in Int /\ hi \in Int
    <3>1. BeginsAt(before, m, n) /\ m \in Nat
      OBVIOUS
    <3> HIDE DEF m
    <3>2. s \in 1..(m + 1) /\ s + 1 \in 1..(m + 1)
      BY <3>1
    <3>3. before[s] \in 0..n /\ before[s + 1] \in 0..n
      BY <3>1, <3>2 DEF BeginsAt
    <3> QED BY <3>1, <3>3 DEF BeginsAt
  <2>2. OverlapIsWithin(lo, hi, before[s], before[s + 1])
    BY <2>1, OverlapCounts
  <2>3. lo < before[s + 1] <=> first < s
    BY <1>2 DEF LiesBy, first
  <2>4. before[s] <= hi <=> s - 1 <= last
    BY <1>2 DEF LiesBy, last
  <2>5. Overlap(lo, hi, before[s], before[s + 1]) > 0
          <=> lo < before[s + 1] /\ before[s] <= hi
    BY <2>2 DEF OverlapIsWithin
  <2>6. first < s /\ s - 1 <= last <=> first + 1 <= s /\ s <= last + 1
    BY <1>3
  <2> QED BY <2>3, <2>4, <2>5, <2>6
<1>6. touched = (first + 1)..(last + 1)
  <2>1. ASSUME NEW s \in 1..m PROVE s \in touched <=> s \in (first + 1)..(last + 1)
    BY <1>3, <1>5 DEF TouchedSplits
  <2>2. touched \subseteq 1..m
    BY DEF TouchedSplits
  <2>3. (first + 1)..(last + 1) \subseteq 1..m
    BY <1>3
  <2> HIDE DEF touched, m
  <2> QED BY <2>1, <2>2, <2>3
<1> QED BY <1>3, <1>4, <1>6 DEF first, last, touched, m

(* The sum by split is the sum by chunk, and the widths of every split     *)
(* once.                                                                   *)
LEMMA AccountsAgree ==
  ASSUME NEW made, made.splits \in Seq(Split), NEW before, NEW n \in Nat,
         BeginsAt(before, Len(made.splits), n), before[1] = 0,
         NEW lo \in Nat, NEW hi \in Nat, lo <= hi, hi < n
  PROVE  \E cost \in Int :
           /\ SumIs(cost, ChunkCosts(made, n), lo..hi)
           /\ SumIs(ParameterBits * (hi \div ChunksPerSplit - lo \div ChunksPerSplit + 1) + cost,
                    SplitCosts(made, before, lo, hi), TouchedSplits(made, before, lo, hi))
<1> DEFINE m == Len(made.splits)
           first == lo \div ChunksPerSplit + 1
           last == hi \div ChunksPerSplit + 1
           touched == TouchedSplits(made, before, lo, hi)
           chunks == lo..hi
           gc == ChunkCosts(made, n)
           gs == SplitCosts(made, before, lo, hi)
           width(s) == PairWidth(made.splits[s])
           over(s) == Overlap(lo, hi, before[s], before[s + 1])
<1>1. /\ m \in Nat /\ touched = first..last
      /\ first \in Nat /\ last \in 1..m /\ 1 <= first /\ first <= last
  <2>1. m \in Nat
    OBVIOUS
  <2>2. /\ touched = first..last /\ lo \div ChunksPerSplit \in Nat
        /\ hi \div ChunksPerSplit \in 0..(m - 1)
        /\ lo \div ChunksPerSplit <= hi \div ChunksPerSplit
    BY <2>1, TouchedSplitsAre
  <2> QED BY <2>1, <2>2
<1>2. \A s \in 1..m : width(s) \in Nat
  <2>1. ASSUME NEW s \in 1..m PROVE width(s) \in Nat
    <3>1. made.splits[s] \in Split
      OBVIOUS
    <3> QED BY ONLY <3>1, SplitFields
  <2> QED BY <2>1
<1>3. ASSUME NEW s \in 1..m, NEW q \in 0..(n - 1)
      PROVE  LiesBy(q, s, m, before)
  BY <1>1, SplitByDivision
<1>4. ASSUME NEW s \in 1..m
      PROVE  /\ before[s] \in 0..n /\ before[s + 1] \in 0..n /\ before[s] < before[s + 1]
             /\ OverlapIsWithin(lo, hi, before[s], before[s + 1])
  <2>1. before[s] \in 0..n /\ before[s + 1] \in 0..n /\ before[s] < before[s + 1]
    <3>1. BeginsAt(before, m, n) /\ m \in Nat
      OBVIOUS
    <3> HIDE DEF m
    <3>2. s \in 1..(m + 1) /\ s + 1 \in 1..(m + 1)
      BY <3>1
    <3>3. before[s] \in 0..n /\ before[s + 1] \in 0..n
      BY <3>1, <3>2 DEF BeginsAt
    <3> QED BY <3>1, <3>3 DEF BeginsAt
  <2>2. before[s] \in Int /\ before[s + 1] \in Int /\ lo \in Int /\ hi \in Int
    BY <2>1
  <2> QED BY <2>1, <2>2, OverlapCounts
<1>5. Numbers(gc, n)
  <2>1. ASSUME NEW q \in 0..(n - 1) PROVE gc[q] \in Int
    <3>1. 1 \in 1..m
      BY <1>1
    <3>2. q \div ChunksPerSplit \in 0..(m - 1)
      BY <1>3, <3>1 DEF LiesBy
    <3>3. q \div ChunksPerSplit + 1 \in 1..m
      BY <1>1, <3>2
    <3> QED BY <1>2, <3>3 DEF ChunkCosts
  <2> QED BY <2>1 DEF Numbers
<1>6. gs[0] = 0 /\ \A s \in 1..m : gs[s] = ParameterBits + over(s) * width(s)
  BY <1>1 DEF SplitCosts
<1>7. Numbers(gs, m + 1)
  <2>1. ASSUME NEW s \in 0..((m + 1) - 1) PROVE gs[s] \in Int
    <3>1. CASE s = 0
      BY <1>6, <3>1
    <3>2. CASE s # 0
      <4>1. s \in 1..m
        BY <1>1, <3>2
      <4>2. over(s) \in Int /\ width(s) \in Int
        BY <1>2, <1>4, <4>1 DEF OverlapIsWithin
      <4>3. gs[s] = ParameterBits + over(s) * width(s)
        BY <1>6, <4>1
      <4> HIDE DEF over, width
      <4>4. over(s) * width(s) \in Int
        BY <4>2
      <4> QED BY <4>3, <4>4 DEF ParameterBits
    <3> QED BY <3>1, <3>2
  <2> QED BY <2>1 DEF Numbers
<1>8. PICK pc : PartSums(pc, gc, chunks, n)
  BY PartSumsExist
<1>9. m + 1 \in Nat /\ m + 1 \in 0..(m + 1) /\ n \in 0..n
  BY <1>1
<1>10. PICK ps : PartSums(ps, gs, touched, m + 1)
  BY <1>9, PartSumsExist
<1>11. SumIs(pc[n], gc, chunks)
  <2>1. chunks \in SUBSET (0..(n - 1))
    OBVIOUS
  <2> HIDE DEF gc, chunks
  <2> QED BY <1>5, <1>8, <2>1, PartSumsMakeSum
<1>12. SumIs(ps[m + 1], gs, touched)
  <2>1. touched \in SUBSET (0..((m + 1) - 1))
    BY <1>1
  <2> HIDE DEF gs, touched, m
  <2> QED BY <1>7, <1>9, <1>10, <2>1, PartSumsMakeSum
<1>13. /\ \A i \in 0..n : pc[i] \in Int
       /\ pc[0] = 0
  <2>1. PICK r : PartSums(r, gc, chunks \ {0}, n)
    BY PartSumsExist
  <2>2. \A i \in 0..n : DifferBy(pc, r, gc, chunks, 0, i)
    <3> HIDE DEF gc, chunks
    <3> QED BY <1>5, <1>8, <2>1, PartSumsWithout
  <2>3. pc[0] = 0
    BY <1>8 DEF PartSums
  <2> QED BY <2>2, <2>3 DEF DifferBy
<1>14. \A i \in 0..(m + 1) : ps[i] = IF i = 0 THEN 0 ELSE ps[i - 1] + Share(gs, touched, i - 1)
  BY <1>10 DEF PartSums
<1>15. ASSUME NEW s \in 1..m
       PROVE  pc[before[s + 1]]
                = pc[before[s]] + width(s) * Within(lo, hi, before[s], before[s + 1])
  <2> DEFINE a == before[s]
             b == before[s + 1]
             v == width(s)
  <2>1. /\ a \in 0..n /\ b \in 0..n /\ a <= b /\ v \in Int /\ lo \in Int /\ hi \in Int
    BY <1>2, <1>4
  <2>2. ASSUME NEW q \in a..(b - 1)
        PROVE  (q \in chunks <=> lo <= q /\ q <= hi) /\ (q \in chunks => gc[q] = v)
    <3>1. q \in 0..(n - 1) /\ a <= q /\ q < b /\ q \in Int
      <4> HIDE DEF a, b
      <4> QED BY <2>1
    <3>2. q \div ChunksPerSplit + 1 = s
      <4>1. /\ s - 1 <= q \div ChunksPerSplit /\ q \div ChunksPerSplit < s
            /\ q \div ChunksPerSplit \in 0..(m - 1)
        BY <1>3, <3>1 DEF LiesBy
      <4> QED BY <4>1
    <3>3. gc[q] = v
      BY <3>1, <3>2 DEF ChunkCosts
    <3> QED BY <3>1, <3>3
  <2> HIDE DEF a, b, v, gc, chunks
  <2>3. AddsEach(gc, chunks, lo, hi, v, a, b)
    BY <2>2 DEF AddsEach
  <2>4. pc[b] = pc[a] + v * Within(lo, hi, a, b)
    BY <1>5, <1>8, <2>1, <2>3, SumOfStretch
  <2> QED BY <2>4 DEF a, b, v
<1> DEFINE Right(t) == ps[t + 1] = ParameterBits * Within(first, last, 1, t + 1) + pc[before[t + 1]]
           Bad == {t \in Nat : t <= m /\ ~ Right(t)}
<1>16. Bad = {}
  <2>1. SUFFICES ASSUME Bad # {} PROVE FALSE
    OBVIOUS
  <2>2. PICK s \in Bad : \A j \in Bad : s <= j
    <3> HIDE DEF Right
    <3> QED BY <2>1, LeastElement
  <2>3. s \in Nat /\ s <= m /\ ~ Right(s)
    BY <2>2
  <2>4. CASE s = 0
    <3>1. ps[1] = 0
      <4>1. 0 \in 0..(m + 1) /\ 1 \in 0..(m + 1) /\ 1 - 1 = 0
        BY <1>1
      <4>2. ps[0] = 0
        BY <1>14, <4>1
      <4>3. ps[1] = ps[0] + Share(gs, touched, 0)
        BY <1>14, <4>1
      <4>4. Share(gs, touched, 0) = 0
        BY <1>1 DEF Share
      <4> QED BY <4>2, <4>3, <4>4
    <3>2. Within(first, last, 1, 0 + 1) = 0
      BY <1>1 DEF Within
    <3>3. ParameterBits * 0 = 0
      BY DEF ParameterBits
    <3>4. pc[before[0 + 1]] = 0
      BY <1>13
    <3> HIDE DEF first, last
    <3> QED BY <2>3, <2>4, <3>1, <3>2, <3>3, <3>4
  <2>5. CASE s # 0
    <3>1. /\ s \in 1..m /\ s - 1 \in Nat /\ s - 1 <= m /\ ~ (s <= s - 1) /\ (s - 1) + 1 = s
          /\ s + 1 \in 0..(m + 1) /\ s + 1 # 0 /\ (s + 1) - 1 = s
      BY <1>1, <2>3, <2>5
    <3>2. Right(s - 1)
      BY <2>2, <3>1
    <3>3. ps[s] = ParameterBits * Within(first, last, 1, s) + pc[before[s]]
      <4>1. ps[(s - 1) + 1] = ParameterBits * Within(first, last, 1, (s - 1) + 1)
                                + pc[before[(s - 1) + 1]]
        BY <3>2
      <4> HIDE DEF first, last
      <4> QED BY ONLY <3>1, <4>1
    <3>4. ps[s + 1] = ps[s] + Share(gs, touched, s)
      BY <1>14, <3>1
    <3>5. /\ before[s] \in 0..n /\ before[s + 1] \in 0..n
          /\ OverlapIsWithin(lo, hi, before[s], before[s + 1])
          /\ width(s) \in Nat
      BY <1>2, <1>4, <3>1
    <3>6. pc[before[s]] \in Int /\ pc[before[s + 1]] \in Int
      BY <1>13, <3>5
    <3>7. pc[before[s + 1]]
            = pc[before[s]] + width(s) * Within(lo, hi, before[s], before[s + 1])
      BY <1>15, <3>1
    <3>8. CountsOneMore(first, last, 1, s)
      <4>1. first \in Int /\ last \in Int /\ 1 \in Int /\ s \in Int /\ 1 <= s
        BY <1>1, <3>1
      <4> HIDE DEF first, last
      <4> QED BY <4>1, WithinOneMore
    <3>9. s \in touched <=> first <= s /\ s <= last
      BY <1>1, <3>1
    <3>10. s \in touched <=> over(s) > 0
      BY <3>1 DEF TouchedSplits
    <3> DEFINE w == Within(first, last, 1, s)
               wide == Within(first, last, 1, s + 1)
               inside == Within(lo, hi, before[s], before[s + 1])
               from == pc[before[s]]
               to == pc[before[s + 1]]
    <3>11. w \in Nat
      BY <3>8 DEF CountsOneMore
    <3>12. CASE s \in touched
      <4>1. wide = w + 1
        BY <3>8, <3>9, <3>12 DEF CountsOneMore
      <4>2. inside = over(s) /\ over(s) \in Int
        BY <3>5, <3>10, <3>12 DEF OverlapIsWithin
      <4>3. gs[s] = ParameterBits + over(s) * width(s)
        BY <1>6, <3>1
      <4>4. ps[s + 1] = ps[s] + gs[s]
        BY <3>4, <3>12 DEF Share
      <4> HIDE DEF w, wide, inside, from, to, gs, touched, over, width
      <4>5. width(s) * over(s) = over(s) * width(s) /\ over(s) * width(s) \in Int
        BY <3>5, <4>2
      <4> DEFINE prod == over(s) * width(s)
                 param == ParameterBits * w
      <4>6. ParameterBits * wide = param + ParameterBits
        BY <3>11, <4>1 DEF ParameterBits
      <4>7. param \in Int /\ ParameterBits \in Int
        BY <3>11 DEF ParameterBits
      <4>8. to = from + prod /\ prod \in Int /\ from \in Int
        BY <3>6, <3>7, <4>2, <4>5 DEF from, to, inside
      <4>9. ps[s + 1] = (param + from) + (ParameterBits + prod)
        BY <3>3, <4>3, <4>4 DEF w, from
      <4> HIDE DEF prod, param
      <4>10. ps[s + 1] = (param + ParameterBits) + to
        BY ONLY <4>7, <4>8, <4>9
      <4>11. ps[s + 1] = ParameterBits * wide + to
        BY <4>6, <4>10
      <4> QED BY <2>3, <4>11 DEF wide, to
    <3>13. CASE s \notin touched
      <4>1. wide = w
        BY <3>8, <3>9, <3>13 DEF CountsOneMore
      <4>2. inside = 0
        BY <3>5, <3>10, <3>13 DEF OverlapIsWithin
      <4>4. ps[s + 1] = ps[s] + 0
        BY <3>4, <3>13 DEF Share
      <4> HIDE DEF w, wide, inside, from, to, gs, touched, over, width
      <4>5. width(s) * 0 = 0
        BY <3>5
      <4> DEFINE param == ParameterBits * w
      <4>7. param \in Int
        BY <3>11 DEF ParameterBits
      <4>8. to = from /\ from \in Int
        BY <3>6, <3>7, <4>2, <4>5 DEF from, to, inside
      <4>9. ps[s + 1] = (param + from) + 0
        BY <3>3, <4>4 DEF w, from
      <4>10. ps[s + 1] = param + to
        <5> HIDE DEF param
        <5> QED BY ONLY <4>7, <4>8, <4>9
      <4> QED BY <2>3, <4>1, <4>10 DEF wide, to
    <3> QED BY <3>12, <3>13
  <2> QED BY <2>4, <2>5
<1>17. ps[m + 1] = ParameterBits * Within(first, last, 1, m + 1) + pc[before[m + 1]]
  <2>1. m \in Nat /\ m <= m /\ m \notin Bad
    BY <1>1, <1>16
  <2>2. Right(m)
    <3> HIDE DEF Right
    <3> QED BY <2>1
  <2> QED BY <2>2
<1>18. Within(first, last, 1, m + 1) = hi \div ChunksPerSplit - lo \div ChunksPerSplit + 1
  <2>1. Within(first, last, 1, m + 1) = last - first + 1
    <3> HIDE DEF first, last, m
    <3> QED BY <1>1 DEF Within
  <2>2. last - first = hi \div ChunksPerSplit - lo \div ChunksPerSplit
    <3>1. lo \div ChunksPerSplit \in Nat /\ hi \div ChunksPerSplit \in Nat
      BY QuotientBelow, ConfigConstants
    <3> QED BY <3>1
  <2> QED BY <2>1, <2>2
<1>19. before[m + 1] = n
  BY DEF BeginsAt
<1>20. SumIs(ParameterBits * (hi \div ChunksPerSplit - lo \div ChunksPerSplit + 1) + pc[n],
             gs, touched)
  BY <1>12, <1>17, <1>18, <1>19
<1>21. pc[n] \in Int
  BY <1>9, <1>13
<1> QED BY <1>11, <1>20, <1>21

----------------------------------------------------------------------------
(* The chunks of a request.                                                *)

(* There are as many chunks as it takes for all samples.                   *)
LEMMA ChunkCount ==
  ASSUME NEW input \in Seq(Sample), input # <<>>
  PROVE  LET n == Len(ChunkSamples(input))
         IN  /\ n \in Nat \ {0}
             /\ Len(input) <= n * SamplesPerChunk
             /\ (n - 1) * SamplesPerChunk < Len(input)
<1> DEFINE n == Len(ChunkSamples(input))
           k == Len(input)
           w == SamplesPerChunk
<1>1. w \in Nat \ {0} /\ k \in Nat \ {0}
  BY Geometry
<1>2. n = CeilDiv(k, w) /\ CeilDiv(k, w) \in Nat
  <2> DEFINE c == CeilDiv(k, w)
  <2>1. c \in Nat
    <3>1. 1 \in 1..k
      BY <1>1
    <3> QED BY <1>1, <3>1, PlaceInChunks
  <2>2. DOMAIN ChunkSamples(input) = 1..c
    BY DEF ChunkSamples
  <2>3. ChunkSamples(input) \in Seq(Chunk)
    BY ChunksHoldSamples
  <2> HIDE DEF c
  <2> QED BY <2>1, <2>2, <2>3 DEF c
<1>3. k <= n * w
  BY ChunksHoldSamples
<1> DEFINE x == k + w - 1
<1>4. x \in Nat /\ n = x \div w
  BY <1>1, <1>2 DEF CeilDiv
<1> HIDE DEF n, k, w
<1>5. n * w \in Nat /\ n * w <= x /\ n \in Nat
  <2> HIDE DEF x
  <2> QED BY <1>1, <1>4, QuotientBelow
<1>6. n # 0
  <2>1. 0 * w = 0
    BY <1>1
  <2> QED BY <1>1, <1>3, <2>1
<1>7. (n - 1) * w < k
  <2> DEFINE p == n - 1
  <2>1. p \in Nat /\ n = p + 1
    BY <1>5, <1>6
  <2> HIDE DEF p
  <2>2. (p + 1) * w = p * w + w /\ p * w \in Nat
    BY <1>1, <2>1
  <2>3. n * w = p * w + w
    BY <2>1, <2>2
  <2> DEFINE all == n * w
             less == p * w
  <2>4. all = less + w /\ all <= x /\ less \in Nat
    BY <1>5, <2>2, <2>3
  <2> HIDE DEF all, less
  <2>5. less < k
    BY <1>1, <2>4
  <2> QED BY <2>5 DEF less, p
<1> QED BY <1>3, <1>5, <1>6, <1>7 DEF n, k, w

(* A request within the data is within the chunks; all of the data is all  *)
(* of the chunks.                                                          *)
AreChunksOf(lo, hi, n) == lo \in Nat /\ hi \in Nat /\ lo <= hi /\ hi < n /\ n \in Nat \ {0}

(* ... with the chunks found bit by bit, and by dividing the ends.         *)
LEMMA RequestedChunks ==
  ASSUME NEW input \in Seq(Sample), NEW a \in Nat, NEW r \in Nat \ {0},
         a + r <= Len(input) * BitsPerSample
  PROVE  LET n == Len(ChunkSamples(input))
             lo == a \div ChunkBitLen
             hi == LastChunk(a, r)
         IN  /\ AreChunksOf(lo, hi, n)
             /\ a = 0 /\ r = Len(input) * BitsPerSample => lo = 0 /\ hi = n - 1
             /\ {bit \div ChunkBitLen : bit \in a..(a + r - 1)} = lo..hi
<1> DEFINE n == Len(ChunkSamples(input))
           k == Len(input)
           w == SamplesPerChunk
           b == BitsPerSample
           lo == a \div ChunkBitLen
           hi == (a + r - 1) \div ChunkBitLen
<1>1. /\ k \in Nat /\ w \in Nat \ {0} /\ b \in Nat \ {0} /\ ChunkBitLen \in Nat \ {0}
      /\ ChunkBitLen = w * b /\ a + r <= k * b
  BY Geometry
<1> HIDE DEF k, w, b
<1>2. k # 0
  <2>1. 0 * b = 0
    BY <1>1
  <2> QED BY <1>1, <2>1
<1>3. input # <<>>
  BY <1>2 DEF k
<1>4. n \in Nat \ {0} /\ k <= n * w /\ (n - 1) * w < k
  BY <1>3, ChunkCount DEF k, w
<1> HIDE DEF n
<1> DEFINE p == n - 1
           bits == k * b
<1>5. p \in Nat /\ n = p + 1
  BY <1>4
<1>6. bits \in Nat /\ a + r <= bits
  BY <1>1
<1> HIDE DEF p
<1>7. bits <= n * ChunkBitLen
  <2>1. n * w \in Nat
    BY <1>1, <1>4
  <2> DEFINE nw == n * w
  <2>2. nw \in Nat /\ k <= nw
    BY <1>4, <2>1
  <2> HIDE DEF nw
  <2>3. k * b <= nw * b
    BY <1>1, <2>2
  <2>4. (n * w) * b = n * (w * b)
    BY <1>1, <1>4
  <2> QED BY <1>1, <2>3, <2>4 DEF nw
<1>8. p * ChunkBitLen + b <= bits /\ p * ChunkBitLen \in Nat
  <2> DEFINE pw == p * w
  <2>1. pw \in Nat /\ pw < k
    BY <1>1, <1>4, <1>5 DEF p
  <2> HIDE DEF pw
  <2>2. (pw + 1) * b <= k * b
    BY <1>1, <2>1
  <2>3. (pw + 1) * b = pw * b + b
    BY <1>1, <2>1
  <2>4. (p * w) * b = p * (w * b)
    BY <1>1, <1>5
  <2>5. pw * b = p * ChunkBitLen
    BY <1>1, <2>4 DEF pw
  <2>6. p * ChunkBitLen \in Nat
    BY <1>1, <1>5
  <2> QED BY <2>2, <2>3, <2>5, <2>6
<1> HIDE DEF bits
<1>9. /\ a <= a + r - 1 /\ a + r - 1 \in Nat
      /\ a + r - 1 < bits
  BY <1>6
<1>10. /\ {bit \div ChunkBitLen : bit \in a..(a + r - 1)} = lo..hi
       /\ lo \in Nat /\ hi \in Nat /\ lo <= hi
  <2> DEFINE last == a + r - 1
  <2>1. last \in Nat /\ a <= last
    BY <1>9
  <2> HIDE DEF last
  <2>2. /\ Quotients(ChunkBitLen, a, last)
        /\ a \div ChunkBitLen \in Nat /\ last \div ChunkBitLen \in Nat
        /\ a \div ChunkBitLen <= last \div ChunkBitLen
    BY <1>1, <2>1, QuotientsOfInterval
  <2> QED BY <2>2 DEF last, Quotients
<1>11. hi < n
  <2> DEFINE last == a + r - 1
             all == n * ChunkBitLen
  <2>1. last \in Nat /\ last < bits /\ bits <= all /\ all \in Nat
    BY <1>1, <1>4, <1>7, <1>9
  <2> HIDE DEF last, all
  <2>2. last < all
    BY <1>6, <2>1
  <2>3. last \div ChunkBitLen < n
    BY <1>1, <1>4, <2>1, <2>2, QuotientLess DEF all
  <2> QED BY <2>3 DEF last
<1>12. ASSUME a = 0, r = bits
       PROVE  lo = 0 /\ hi = n - 1
  <2>1. lo = 0
    <3>1. 0 * ChunkBitLen = 0 /\ 0 < ChunkBitLen
      BY <1>1
    <3>2. 0 \div ChunkBitLen = 0
      BY <1>1, <3>1
    <3> QED BY <1>12, <3>2
  <2> DEFINE last == a + r - 1
             less == p * ChunkBitLen
  <2>2. last \in Nat /\ last = bits - 1 /\ less + b <= bits /\ less \in Nat
    BY <1>6, <1>8, <1>9, <1>12
  <2> HIDE DEF last, less
  <2>3. ~ (last < less)
    BY <1>1, <1>6, <2>2
  <2>4. ~ (last \div ChunkBitLen < p)
    BY <1>1, <1>5, <2>2, <2>3, QuotientLess DEF less
  <2>5. last \div ChunkBitLen < n /\ last \div ChunkBitLen \in Nat
    BY <1>10, <1>11 DEF last
  <2>6. last \div ChunkBitLen = n - 1
    BY <1>4, <1>5, <2>4, <2>5
  <2> QED BY <2>1, <2>6 DEF last
<1>13. LastChunk(a, r) = hi
  BY DEF LastChunk
<1> HIDE DEF lo, hi
<1>14. AreChunksOf(lo, hi, n)
  BY <1>4, <1>10, <1>11 DEF AreChunksOf
<1> QED BY <1>10, <1>12, <1>13, <1>14 DEF lo, hi, n, k, b, bits

(* The bases that the pairs of the chunks from lo to hi need: one at       *)
(* least, no more than there are chunks or bases.                          *)
BaseIds(made, chunks) ==
  {SplitForChunk(made, q)[1].pairs[SplitForChunk(made, q)[2]].base_id : q \in chunks}

(* At least one base is read.                                              *)
LEMMA BasesRead ==
  ASSUME NEW made, NEW before, NEW C, ContainsChunks(made, before, C),
         NEW lo, NEW hi, AreChunksOf(lo, hi, Len(C))
  PROVE  LET count == Cardinality(BaseIds(made, lo..hi))
         IN  /\ count \in Nat \ {0} /\ count <= hi - lo + 1
             /\ count <= Len(made.dictionary) /\ Len(made.dictionary) \in Nat
<1> DEFINE chunks == lo..hi
           base_id == [q \in chunks |-> SplitForChunk(made, q)[1].pairs
                                          [SplitForChunk(made, q)[2]].base_id]
           ids == BaseIds(made, chunks)
           bases == Len(made.dictionary)
           all == 0..(bases - 1)
<1>1. lo \in Nat /\ hi \in Nat /\ lo <= hi /\ hi < Len(C) /\ Len(C) \in Nat
  BY DEF AreChunksOf
<1>2. bases \in Nat
  <2>1. made.dictionary \in Seq(PackedBase)
    BY DEF ContainsChunks
  <2> QED BY <2>1
<1>3. ASSUME NEW q \in chunks PROVE base_id[q] \in all
  <2>1. q \in Nat /\ q < Len(C)
    BY <1>1
  <2>2. PICK split, i : /\ SplitForChunk(made, q) = <<split, i>>
                        /\ split.pairs[i] \in Pair
                        /\ Encodes(split.pairs[i], split.l_d, C[q + 1], made.dictionary)
    BY <2>1, ChunkIsFound
  <2> DEFINE pair == split.pairs[i]
  <2>3. pair \in Pair /\ pair.base_id < bases
    BY <2>2 DEF Encodes
  <2>4. pair.base_id \in Nat
    BY <2>3 DEF Pair
  <2>5. base_id[q] = pair.base_id
    BY <2>2
  <2> HIDE DEF pair, bases, base_id
  <2> QED BY <1>2, <2>3, <2>4, <2>5
<1>4. ids = {base_id[q] : q \in chunks}
  BY DEF BaseIds
<1>5. IsFiniteSet(chunks) /\ Cardinality(chunks) = hi - lo + 1
  BY <1>1, FS_Interval
<1>6. IsFiniteSet(all) /\ Cardinality(all) = bases
  <2>1. 0 \in Int /\ bases - 1 \in Int
    BY <1>2
  <2>2. Cardinality(all) = IF 0 > bases - 1 THEN 0 ELSE (bases - 1) - 0 + 1
    BY <2>1, FS_Interval
  <2>3. IsFiniteSet(all)
    BY <2>1, FS_Interval
  <2> HIDE DEF bases
  <2> QED BY <1>2, <2>2, <2>3
<1> HIDE DEF base_id, ids, bases
<1>7. ids \in SUBSET all /\ ids # {}
  <2>1. lo \in chunks
    BY <1>1
  <2> QED BY <1>3, <1>4, <2>1
<1>8. base_id \in Surjection(chunks, ids)
  <2>1. base_id = [q \in chunks |-> base_id[q]]
    BY DEF base_id
  <2> HIDE DEF chunks
  <2> QED BY <1>4, <2>1 DEF Surjection
<1> HIDE DEF chunks, all
<1>9. IsFiniteSet(ids) /\ Cardinality(ids) <= bases
  BY <1>6, <1>7, FS_Subset
<1>10. Cardinality(ids) <= hi - lo + 1
  BY <1>5, <1>8, <1>9, FS_Surjection
<1>11. Cardinality(ids) \in Nat /\ Cardinality(ids) # 0
  <2>1. Cardinality(ids) \in Nat
    BY <1>9, FS_CardinalityType
  <2>2. Cardinality(ids) # 0
    BY <1>7, <1>9, FS_EmptySet
  <2> QED BY <2>1, <2>2
<1> QED BY <1>2, <1>9, <1>10, <1>11 DEF ids, chunks, bases

----------------------------------------------------------------------------
(* The bounds and the bits read, as sums over splits and over chunks.      *)

(* What the loop of titchy_access_bounds computes, each split's share      *)
(* found by where the split begins.                                        *)
BoundsAre(bounds, v, touched, count, bases) ==
  bounds = <<[best_case_bits  |-> ChunkBitLen + v,
              worst_case_bits |-> ChunkBitLen * Min({count, bases}) + v,
              chunk_count     |-> count,
              split_count     |-> Cardinality(touched)]>>

(* The sum by split is what the loop adds up.                              *)
LEMMA BoundsAreSums ==
  ASSUME NEW made, NEW before, NEW C, ContainsChunks(made, before, C),
         NEW a \in Nat, NEW r \in Nat \ {0},
         ~ (a + r > made.original_sample_count * BitsPerSample), NEW v,
         SumIs(v, SplitCosts(made, before, a \div ChunkBitLen, LastChunk(a, r)),
               TouchedSplits(made, before, a \div ChunkBitLen, LastChunk(a, r)))
  PROVE  BoundsAre(AccessBounds(made, a, r), v,
                   TouchedSplits(made, before, a \div ChunkBitLen, LastChunk(a, r)),
                   LastChunk(a, r) - a \div ChunkBitLen + 1, Len(made.dictionary))
<1> DEFINE lo == a \div ChunkBitLen
           hi == LastChunk(a, r)
           splits == made.splits
           m == Len(splits)
           split_end == CHOOSE f : f = [s \in 0..Len(splits) |->
                          IF s = 0 THEN 0 ELSE f[s - 1] + Len(splits[s].pairs)]
           overlap(s) == Min({hi + 1, split_end[s]}) - Max({lo, split_end[s - 1]})
           touched == {s \in 1..Len(splits) : overlap(s) > 0}
           total == CHOOSE total :
                        total = [s \in SUBSET touched |->
                                   IF s = {} THEN 0
                                   ELSE (LET x == CHOOSE x \in s : TRUE IN
                                        (ParameterBits
                                           + overlap(x) * (splits[x].l_id + splits[x].l_d))
                                          + total[s \ {x}])]
           gs == SplitCosts(made, before, lo, hi)
           T == TouchedSplits(made, before, lo, hi)
<1>1. AccessBounds(made, a, r)
        = <<[best_case_bits  |-> ChunkBitLen + total[touched],
             worst_case_bits |-> ChunkBitLen * Min({hi - lo + 1, Len(made.dictionary)})
                                   + total[touched],
             chunk_count     |-> hi - lo + 1,
             split_count     |-> Cardinality(touched)]>>
  BY DEF AccessBounds, MapThenSumSet, MapThenFoldSet
<1>2. m \in Nat
  <2>1. splits \in Seq(Split)
    BY DEF ContainsChunks, LaidOut
  <2> QED BY <2>1
<1>3. \A s \in 0..m : split_end[s] = before[s + 1]
  <2>1. \E f : Ends(f, splits)
    BY SplitEnds
  <2>2. split_end = CHOOSE f : Ends(f, splits)
    BY DEF Ends
  <2>3. Ends(split_end, splits)
    <3> HIDE DEF splits, split_end
    <3> QED BY <2>1, <2>2
  <2> HIDE DEF split_end
  <2> QED BY <2>3, SplitEnds
<1> HIDE DEF split_end
<1>4. ASSUME NEW s \in 1..m
      PROVE  overlap(s) = Overlap(lo, hi, before[s], before[s + 1])
  <2>1. s \in 0..m /\ s - 1 \in 0..m /\ (s - 1) + 1 = s
    BY <1>2
  <2>2. split_end[s] = before[s + 1] /\ split_end[s - 1] = before[s]
    <3>1. split_end[s] = before[s + 1] /\ split_end[s - 1] = before[(s - 1) + 1]
      BY <1>3, <2>1
    <3> QED BY <2>1, <3>1
  <2> HIDE DEF lo, hi
  <2> QED BY <2>2 DEF Overlap
<1>5. touched = T
  <2> HIDE DEF lo, hi, overlap
  <2> QED BY <1>4 DEF TouchedSplits
<1>6. ASSUME NEW x \in touched
      PROVE  gs[x] = ParameterBits + overlap(x) * (splits[x].l_id + splits[x].l_d)
  <2>1. x \in 1..m /\ x \in 0..m /\ x # 0
    BY <1>2
  <2>2. gs[x] = ParameterBits + Overlap(lo, hi, before[x], before[x + 1]) * PairWidth(splits[x])
    <3> HIDE DEF lo, hi
    <3> QED BY <2>1 DEF SplitCosts
  <2> HIDE DEF overlap, lo, hi, gs
  <2> QED BY <1>4, <2>1, <2>2 DEF PairWidth
<1> DEFINE FoldsUp(t) ==
             t = [s \in SUBSET touched |->
                    IF s = {} THEN 0
                    ELSE (ParameterBits
                            + overlap(CHOOSE x \in s : TRUE)
                                * (splits[CHOOSE x \in s : TRUE].l_id
                                     + splits[CHOOSE x \in s : TRUE].l_d))
                           + t[s \ {CHOOSE x \in s : TRUE}]]
<1>7. ASSUME NEW t PROVE SumsUp(t, gs, touched) <=> FoldsUp(t)
  <2>1. \A s \in SUBSET touched : s # {} => (CHOOSE x \in s : TRUE) \in touched
    OBVIOUS
  <2> HIDE DEF touched, gs, overlap, splits
  <2> QED BY <1>6, <2>1 DEF SumsUp
<1>8. SumIs(v, gs, touched)
  BY <1>5
<1>9. total = CHOOSE t : FoldsUp(t)
  OBVIOUS
<1>10. \E t : FoldsUp(t)
  <2> HIDE DEF FoldsUp, touched, gs
  <2> QED BY <1>7, <1>8 DEF SumIs
<1>11. FoldsUp(total)
  <2> HIDE DEF FoldsUp, total
  <2> QED BY <1>9, <1>10
<1>12. total[touched] = v
  <2> HIDE DEF FoldsUp, total, touched, gs
  <2> QED BY <1>7, <1>8, <1>11 DEF SumIs
<1> HIDE DEF total, touched, T, lo, hi
<1>13. BoundsAre(AccessBounds(made, a, r), v, T, hi - lo + 1, Len(made.dictionary))
  BY <1>1, <1>5, <1>12 DEF BoundsAre
<1> QED BY <1>13 DEF T, lo, hi

(* What is read for the chunks from lo to hi.                              *)
LEMMA ReadIsSum ==
  ASSUME NEW made, NEW before, NEW C, ContainsChunks(made, before, C),
         BeginsAt(before, Len(made.splits), Len(C)),
         NEW lo, NEW hi, AreChunksOf(lo, hi, Len(C)), NEW cost,
         SumIs(cost, ChunkCosts(made, Len(C)), lo..hi)
  PROVE  BitsRead(made, lo..hi)
           = ChunkBitLen * Cardinality(BaseIds(made, lo..hi))
               + ParameterBits * (hi \div ChunksPerSplit - lo \div ChunksPerSplit + 1) + cost
<1> DEFINE chunks == lo..hi
           n == Len(C)
           gc == ChunkCosts(made, n)
           found(q) == SplitForChunk(made, q)[1]
           total == CHOOSE total :
                        total = [s \in SUBSET chunks |->
                                   IF s = {} THEN 0
                                   ELSE (found(CHOOSE x \in s : TRUE).l_id
                                           + found(CHOOSE x \in s : TRUE).l_d)
                                          + total[s \ {CHOOSE x \in s : TRUE}]]
           FoldsUp(t) == t = [s \in SUBSET chunks |->
                             IF s = {} THEN 0
                             ELSE (found(CHOOSE x \in s : TRUE).l_id
                                     + found(CHOOSE x \in s : TRUE).l_d)
                                    + t[s \ {CHOOSE x \in s : TRUE}]]
           first == lo \div ChunksPerSplit
           last == hi \div ChunksPerSplit
           ids == BaseIds(made, chunks)
<1>1. BitsRead(made, chunks)
        = ChunkBitLen * Cardinality(ids)
            + ParameterBits * Cardinality({SplitNumber(c) : c \in chunks}) + total[chunks]
  BY DEF BitsRead, MapThenSumSet, MapThenFoldSet, BaseIds
<1>2. /\ lo \in Nat /\ hi \in Nat /\ lo <= hi /\ hi < n /\ n \in Nat
  BY DEF AreChunksOf
<1>3. Cardinality({SplitNumber(c) : c \in chunks}) = last - first + 1
  <2>1. Quotients(ChunksPerSplit, lo, hi) /\ first \in Nat /\ last \in Nat /\ first <= last
    <3>1. ChunksPerSplit \in Nat \ {0}
      BY ConfigConstants
    <3> QED BY ONLY <1>2, <3>1, QuotientsOfInterval DEF first, last
  <2>2. {SplitNumber(c) : c \in chunks} = first..last
    BY <2>1 DEF Quotients, SplitNumber
  <2> HIDE DEF first, last
  <2>3. Cardinality(first..last) = last - first + 1
    BY <2>1, FS_Interval
  <2> QED BY <2>2, <2>3
<1>4. ASSUME NEW q \in chunks PROVE gc[q] = found(q).l_id + found(q).l_d
  <2>1. q \in Nat /\ q < n /\ q \in 0..(n - 1)
    BY <1>2
  <2>2. PICK s \in 1..Len(made.splits) :
          \E i \in 1..Len(made.splits[s].pairs) :
             /\ SplitForChunk(made, q) = <<made.splits[s], i>>
             /\ before[s] + i = q + 1 /\ before[s] <= q /\ q < before[s + 1]
    BY <2>1, ChunkHasSplit
  <2>3. Len(made.splits) \in Nat
    <3>1. made.splits \in Seq(Split)
      BY DEF ContainsChunks, LaidOut
    <3> QED BY <3>1
  <2>4. LiesBy(q, s, Len(made.splits), before)
    BY <1>2, <2>1, <2>3, SplitByDivision
  <2>5. q \div ChunksPerSplit + 1 = s
    <3>1. /\ s - 1 <= q \div ChunksPerSplit /\ q \div ChunksPerSplit < s
          /\ q \div ChunksPerSplit \in 0..(Len(made.splits) - 1) /\ s \in Nat
      BY <2>2, <2>3, <2>4 DEF LiesBy
    <3> QED BY <2>3, <3>1
  <2>6. found(q) = made.splits[s]
    BY <2>2
  <2>7. gc[q] = PairWidth(made.splits[s])
    BY <2>1, <2>5 DEF ChunkCosts
  <2> HIDE DEF found
  <2> QED BY <2>6, <2>7 DEF PairWidth
<1>5. ASSUME NEW t PROVE SumsUp(t, gc, chunks) <=> FoldsUp(t)
  <2>1. \A s \in SUBSET chunks : s # {} => (CHOOSE x \in s : TRUE) \in chunks
    OBVIOUS
  <2> HIDE DEF chunks, gc, found
  <2> QED BY <1>4, <2>1 DEF SumsUp
<1>6. total = CHOOSE t : FoldsUp(t)
  OBVIOUS
<1>7. \E t : FoldsUp(t)
  <2> HIDE DEF FoldsUp, chunks, gc
  <2> QED BY <1>5 DEF SumIs, chunks, gc
<1>8. FoldsUp(total)
  <2> HIDE DEF FoldsUp, total
  <2> QED BY <1>6, <1>7
<1>9. total[chunks] = cost
  <2>1. SumsUp(total, gc, chunks)
    <3> HIDE DEF FoldsUp, total, chunks, gc
    <3> QED BY <1>5, <1>8
  <2> HIDE DEF total
  <2> QED BY <2>1 DEF SumIs
<1> HIDE DEF total, first, last, ids
<1> QED BY <1>1, <1>3, <1>9 DEF ids, first, last

----------------------------------------------------------------------------
(* A request of everything touches every split, and takes all its pairs.   *)
LEMMA SizeIsSum ==
  ASSUME NEW made, NEW before, NEW C, ContainsChunks(made, before, C),
         BeginsAt(before, Len(made.splits), Len(C)), Len(C) # 0, NEW v,
         SumIs(v, SplitCosts(made, before, 0, Len(C) - 1),
               TouchedSplits(made, before, 0, Len(C) - 1))
  PROVE  PaperCompressedBitLen(made) = Len(made.dictionary) * ChunkBitLen + v
<1> DEFINE splits == made.splits
           m == Len(splits)
           n == Len(C)
           gs == SplitCosts(made, before, 0, n - 1)
           all == 1..m
           cost(s) == ParameterBits + Len(splits[s].pairs) * (splits[s].l_id + splits[s].l_d)
           total == CHOOSE total :
                        total = [s \in SUBSET all |->
                                   IF s = {} THEN 0
                                   ELSE cost(CHOOSE x \in s : TRUE)
                                          + total[s \ {CHOOSE x \in s : TRUE}]]
           FoldsUp(t) == t = [s \in SUBSET all |->
                                IF s = {} THEN 0
                                ELSE cost(CHOOSE x \in s : TRUE)
                                       + t[s \ {CHOOSE x \in s : TRUE}]]
<1>1. PaperCompressedBitLen(made) = Len(made.dictionary) * ChunkBitLen + total[all]
  BY DEF PaperCompressedBitLen, MapThenSumSet, MapThenFoldSet
<1>2. /\ m \in Nat /\ n \in Nat /\ n # 0 /\ BeginsAt(before, m, n)
      /\ \A s \in 1..m : before[s + 1] = before[s] + Len(splits[s].pairs) /\ splits[s] \in Split
  <2>1. splits \in Seq(Split) /\ C \in Seq(Chunk)
    BY DEF ContainsChunks, LaidOut
  <2>2. \A s \in 1..m : before[s + 1] = before[s] + Len(splits[s].pairs)
    BY DEF ContainsChunks, LaidOut, HoldsChunks
  <2>3. \A s \in 1..m : splits[s] \in Split
    BY <2>1
  <2>4. m \in Nat /\ n \in Nat
    BY <2>1
  <2> HIDE DEF splits, m, n
  <2>5. n # 0 /\ BeginsAt(before, m, n)
    BY DEF n, m, splits
  <2> QED BY <2>2, <2>3, <2>4, <2>5
<1>3. ASSUME NEW s \in 1..m
      PROVE  /\ Overlap(0, n - 1, before[s], before[s + 1]) = Len(splits[s].pairs)
             /\ Overlap(0, n - 1, before[s], before[s + 1]) > 0
  <2> HIDE DEF m, n
  <2>1. s \in 1..(m + 1) /\ s + 1 \in 1..(m + 1)
    BY <1>2
  <2>2. before[s] \in 0..n /\ before[s + 1] \in 0..n /\ before[s] < before[s + 1]
    BY <1>2, <2>1 DEF BeginsAt
  <2>3. before[s + 1] = before[s] + Len(splits[s].pairs) /\ Len(splits[s].pairs) \in Nat
    <3>1. splits[s].pairs \in Seq(Pair)
      BY <1>2 DEF Split
    <3> QED BY <1>2, <3>1
  <2>4. (n - 1) + 1 = n
    BY <1>2
  <2> DEFINE b == before[s]
             e == before[s + 1]
             len == Len(splits[s].pairs)
  <2>5. /\ b \in Nat /\ e \in Nat /\ b < e /\ e <= n /\ e = b + len /\ len \in Nat /\ n \in Int
    BY <1>2, <2>2, <2>3
  <2> HIDE DEF b, e, len, splits
  <2>6. Min({n, e}) = e
    <3>1. Min({n, e}) = IF n <= e THEN n ELSE e
      BY <2>5, LeastOfTwo
    <3> QED BY <2>5, <3>1
  <2>7. Max({0, b}) = b
    <3>1. Max({0, b}) = IF 0 <= b THEN b ELSE 0
      <4>1. 0 \in Int /\ b \in Int
        BY <2>5
      <4> QED BY ONLY <4>1, LeastOfTwo
    <3> QED BY <2>5, <3>1
  <2>8. Overlap(0, n - 1, b, e) = e - b
    BY <2>4, <2>6, <2>7 DEF Overlap
  <2>9. e - b = len /\ e - b > 0
    BY <2>5
  <2> QED BY <2>8, <2>9 DEF b, e, len
<1>4. TouchedSplits(made, before, 0, n - 1) = all
  BY <1>3 DEF TouchedSplits
<1>5. ASSUME NEW x \in all PROVE gs[x] = cost(x)
  <2>1. x \in 0..m /\ x # 0
    BY <1>2
  <2>2. gs[x] = ParameterBits + Overlap(0, n - 1, before[x], before[x + 1]) * PairWidth(splits[x])
    BY <2>1 DEF SplitCosts
  <2>3. gs[x] = ParameterBits + Len(splits[x].pairs) * PairWidth(splits[x])
    <3> HIDE DEF gs
    <3> QED BY <1>3, <2>2
  <2> HIDE DEF gs
  <2> QED BY <2>3 DEF PairWidth
<1>6. ASSUME NEW t PROVE SumsUp(t, gs, all) <=> FoldsUp(t)
  <2>1. \A s \in SUBSET all : s # {} => (CHOOSE x \in s : TRUE) \in all
    OBVIOUS
  <2> HIDE DEF all, gs, cost
  <2> QED BY <1>5, <2>1 DEF SumsUp
<1>7. total = CHOOSE t : FoldsUp(t)
  OBVIOUS
<1>8. SumIs(v, gs, all)
  BY <1>4
<1>9. \E t : FoldsUp(t)
  <2> HIDE DEF FoldsUp, all, gs
  <2> QED BY <1>6, <1>8 DEF SumIs
<1>10. FoldsUp(total)
  <2> HIDE DEF FoldsUp, total
  <2> QED BY <1>7, <1>9
<1>11. total[all] = v
  <2> HIDE DEF FoldsUp, total, all, gs
  <2> QED BY <1>6, <1>8, <1>10 DEF SumIs
<1> HIDE DEF total, all
<1> QED BY <1>1, <1>11

(* A product grows with its second factor.                                 *)
LEMMA ProductGrows ==
  ASSUME NEW w \in Nat, NEW a \in Nat, NEW b \in Nat, a <= b
  PROVE  w * a <= w * b /\ w * a \in Nat /\ w * b \in Nat
OBVIOUS

(* No request reads fewer bits than titchy_access_bounds' best case or     *)
(* more than its worst, chunks and splits are counted right, and the worst *)
(* case of everything is the size that the compression ratio is computed   *)
(* from, for every configuration and input (metrics.rs).                   *)
THEOREM BoundsBracket == Spec => []BoundsBracketTheCost
<1>1. samples \in Seq(Sample) => BoundsBracketTheCost
  <2> DEFINE made == Compressed[1]
             C == ChunkSamples(samples)
             n == Len(C)
  <2> SUFFICES ASSUME samples \in Seq(Sample), Compressed # <<>>, NEW request \in Requests
               PROVE  LET bounds == AccessBounds(made, request[1], request[2])[1]
                          read == BitsRead(made, TouchedChunks(request))
                      IN  /\ bounds.best_case_bits <= read /\ read <= bounds.worst_case_bits
                          /\ bounds.chunk_count = Cardinality(TouchedChunks(request))
                          /\ bounds.split_count
                               = Cardinality({SplitNumber(c) : c \in TouchedChunks(request)})
                          /\ request = <<0, TotalBits>> =>
                               bounds.worst_case_bits = PaperCompressedBitLen(made)
    BY DEF BoundsBracketTheCost
  <2>1. CompressSamples(samples) # <<>>
    BY DEF Compressed
  <2>2. /\ made.original_sample_count = Len(samples)
        /\ \E before : ContainsChunks(made, before, C)
        /\ EvenlySplit(made, n)
    BY <2>1, CompressedContains, CompressedIsEven DEF Compressed
  <2> DEFINE a == request[1]
             r == request[2]
             lo == a \div ChunkBitLen
             hi == LastChunk(a, r)
             m == Len(made.splits)
             D == Len(made.dictionary)
             count == hi - lo + 1
             first == lo \div ChunksPerSplit
             last == hi \div ChunksPerSplit
  <2> HIDE DEF made
  <2>3. PICK before : ContainsChunks(made, before, C)
    BY <2>2
  <2>4. BeginsAt(before, m, n)
    BY <2>2, <2>3, EvenBeginnings
  <2>5. /\ a \in Nat /\ r \in Nat \ {0} /\ a + r <= Len(samples) * BitsPerSample
        /\ request = <<0, TotalBits>> => a = 0 /\ r = Len(samples) * BitsPerSample
    <3>1. Len(samples) * BitsPerSample \in Nat
      BY Geometry
    <3> QED BY <3>1 DEF Requests, TotalBits
  <2>6. /\ AreChunksOf(lo, hi, n)
        /\ a = 0 /\ r = Len(samples) * BitsPerSample => lo = 0 /\ hi = n - 1
        /\ TouchedChunks(request) = lo..hi
    <3>1. LET k == Len(ChunkSamples(samples))
              l == a \div ChunkBitLen
              h == LastChunk(a, r)
          IN  /\ AreChunksOf(l, h, k)
              /\ a = 0 /\ r = Len(samples) * BitsPerSample => l = 0 /\ h = k - 1
              /\ {bit \div ChunkBitLen : bit \in a..(a + r - 1)} = l..h
      <4> HIDE DEF a, r
      <4> QED BY <2>5, RequestedChunks
    <3> QED BY <3>1 DEF TouchedChunks
  <2> HIDE DEF C, a, r, n, lo, hi, m, D, count, first, last
  <2>7. /\ lo \in Nat /\ hi \in Nat /\ lo <= hi /\ hi < n /\ n \in Nat \ {0}
        /\ count \in Nat
    <3>1. lo \in Nat /\ hi \in Nat /\ lo <= hi /\ hi < n /\ n \in Nat \ {0}
      BY <2>6 DEF AreChunksOf
    <3> QED BY <3>1 DEF count
  <2>8. made.splits \in Seq(Split) /\ m \in Nat /\ before[1] = 0
    <3>1. made.splits \in Seq(Split) /\ before[1] = 0
      BY <2>3 DEF ContainsChunks, LaidOut, HoldsChunks
    <3> QED BY <3>1 DEF m
  <2> DEFINE T == TouchedSplits(made, before, lo, hi)
  <2>9. PICK cost \in Int :
          /\ SumIs(cost, ChunkCosts(made, n), lo..hi)
          /\ SumIs(ParameterBits * (last - first + 1) + cost, SplitCosts(made, before, lo, hi), T)
    <3>1. BeginsAt(before, Len(made.splits), n)
      BY <2>4 DEF m
    <3> QED BY <2>7, <2>8, <3>1, AccountsAgree DEF first, last
  <2> DEFINE v == ParameterBits * (last - first + 1) + cost
             bounds == AccessBounds(made, a, r)[1]
             read == BitsRead(made, lo..hi)
             ids == Cardinality(BaseIds(made, lo..hi))
  <2>10. T = (first + 1)..(last + 1) /\ first \in Nat /\ last \in Nat /\ first <= last
    <3>1. /\ TouchedSplits(made, before, lo, hi)
               = (lo \div ChunksPerSplit + 1)..(hi \div ChunksPerSplit + 1)
          /\ lo \div ChunksPerSplit \in Nat
          /\ hi \div ChunksPerSplit \in 0..(Len(made.splits) - 1)
          /\ lo \div ChunksPerSplit <= hi \div ChunksPerSplit
      BY <2>4, <2>7, <2>8, TouchedSplitsAre DEF m
    <3> QED BY <3>1 DEF first, last
  <2>11. v \in Int
    <3>1. ParameterBits * (last - first + 1) \in Int
      BY <2>10 DEF ParameterBits
    <3> QED BY <3>1
  <2>12. Cardinality(T) = last - first + 1
    <3>1. first + 1 \in Int /\ last + 1 \in Int /\ ~ (first + 1 > last + 1)
      BY <2>10
    <3>2. Cardinality((first + 1)..(last + 1)) = (last + 1) - (first + 1) + 1
      BY <3>1, FS_Interval
    <3> QED BY <2>10, <3>2
  <2> HIDE DEF T
  <2>13. SumIs(v, SplitCosts(made, before, lo, hi), T)
    BY <2>9
  <2>14. BoundsAre(AccessBounds(made, a, r), v, T, count, D)
    <3>1. ~ (a + r > made.original_sample_count * BitsPerSample)
      <4>1. Len(samples) * BitsPerSample \in Nat
        BY Geometry
      <4> QED BY <2>2, <2>5, <4>1
    <3> HIDE DEF v
    <3> QED BY <2>3, <2>5, <2>13, <3>1, BoundsAreSums DEF T, lo, hi, count, D
  <2>15. /\ bounds.best_case_bits = ChunkBitLen + v
         /\ bounds.worst_case_bits = ChunkBitLen * Min({count, D}) + v
         /\ bounds.chunk_count = count
         /\ bounds.split_count = Cardinality(T)
    <3> HIDE DEF v, bounds
    <3> QED BY <2>14 DEF BoundsAre, bounds
  <2>16. read = ChunkBitLen * ids + v /\ ChunkBitLen \in Nat \ {0}
    <3>1. BeginsAt(before, Len(made.splits), Len(C)) /\ AreChunksOf(lo, hi, Len(C))
      BY <2>4, <2>6 DEF m, n
    <3>2. SumIs(cost, ChunkCosts(made, Len(C)), lo..hi)
      BY <2>9 DEF n
    <3>3. read = ChunkBitLen * ids
                   + ParameterBits * (hi \div ChunksPerSplit - lo \div ChunksPerSplit + 1) + cost
      BY <2>3, <3>1, <3>2, ReadIsSum
    <3>4. ids \in Nat
      BY <2>3, <3>1, BasesRead
    <3>5. ChunkBitLen \in Nat \ {0}
      BY Geometry
    <3> DEFINE p == ParameterBits * (last - first + 1)
               base == ChunkBitLen * ids
    <3>6. p \in Int /\ base \in Int
      <4>1. p \in Int
        BY <2>10 DEF ParameterBits
      <4>2. base \in Int
        <5> HIDE DEF ids
        <5> QED BY <3>4, <3>5
      <4> QED BY <4>1, <4>2
    <3>7. read = base + p + cost /\ v = p + cost
      BY <3>3 DEF first, last
    <3> HIDE DEF p, base, read, v
    <3>8. read = base + v
      BY ONLY <3>6, <3>7, <2>9
    <3> QED BY <3>5, <3>8 DEF base
  <2>17. ids \in Nat \ {0} /\ ids <= count /\ ids <= D /\ D \in Nat
    <3>1. AreChunksOf(lo, hi, Len(C))
      BY <2>6 DEF n
    <3> QED BY <2>3, <3>1, BasesRead DEF count, D
  <2> HIDE DEF v, bounds, read, ids
  <2> DEFINE least == Min({count, D})
  <2>18. least = (IF count <= D THEN count ELSE D) /\ least \in Nat /\ ids <= least
    <3>1. least = IF count <= D THEN count ELSE D
      BY <2>7, <2>17, LeastOfTwo
    <3> HIDE DEF least
    <3> QED BY <2>7, <2>17, <3>1
  <2> HIDE DEF least
  <2>19. bounds.best_case_bits <= read /\ read <= bounds.worst_case_bits
    <3>1. ChunkBitLen * 1 <= ChunkBitLen * ids /\ ChunkBitLen * 1 = ChunkBitLen
      BY <2>16, <2>17
    <3>2. ChunkBitLen * ids <= ChunkBitLen * least
      BY <2>16, <2>17, <2>18
    <3> DEFINE low == ChunkBitLen * ids
               high == ChunkBitLen * least
    <3>3. low \in Nat /\ high \in Nat
      BY <2>16, <2>17, <2>18
    <3>4. /\ bounds.best_case_bits = ChunkBitLen + v /\ read = low + v
          /\ bounds.worst_case_bits = high + v
          /\ ChunkBitLen <= low /\ low <= high
      BY <2>15, <2>16, <3>1, <3>2 DEF least
    <3> HIDE DEF low, high
    <3> QED BY <2>11, <2>16, <3>3, <3>4
  <2>20. bounds.chunk_count = Cardinality(lo..hi)
    <3>1. Cardinality(lo..hi) = hi - lo + 1
      BY <2>7, FS_Interval
    <3> QED BY <2>15, <3>1 DEF count
  <2>21. bounds.split_count = Cardinality({SplitNumber(c) : c \in lo..hi})
    <3>1. Quotients(ChunksPerSplit, lo, hi)
      <4>1. ChunksPerSplit \in Nat \ {0}
        BY ConfigConstants
      <4> QED BY ONLY <2>7, <4>1, QuotientsOfInterval
    <3>2. {SplitNumber(c) : c \in lo..hi} = first..last
      BY <3>1 DEF Quotients, SplitNumber, first, last
    <3>3. Cardinality(first..last) = last - first + 1
      BY <2>10, FS_Interval
    <3> QED BY <2>12, <2>15, <3>2, <3>3
  <2>22. ASSUME request = <<0, TotalBits>>
         PROVE  bounds.worst_case_bits = PaperCompressedBitLen(made)
    <3>1. lo = 0 /\ hi = n - 1
      BY <2>5, <2>6, <2>22
    <3>2. count = n
      BY <2>7, <3>1 DEF count
    <3>3. D <= n
      BY <2>2 DEF EvenlySplit, D
    <3>4. least = D
      BY <2>7, <2>17, <2>18, <3>2, <3>3
    <3>5. PaperCompressedBitLen(made) = Len(made.dictionary) * ChunkBitLen + v
      <4>1. BeginsAt(before, Len(made.splits), Len(C)) /\ Len(C) # 0
        BY <2>4, <2>7 DEF m, n
      <4>2. SumIs(v, SplitCosts(made, before, 0, Len(C) - 1),
                  TouchedSplits(made, before, 0, Len(C) - 1))
        BY <2>13, <3>1 DEF T, n
      <4> QED BY <2>3, <4>1, <4>2, SizeIsSum
    <3>6. ChunkBitLen * D = D * ChunkBitLen
      BY <2>16, <2>17
    <3> QED BY <2>15, <3>4, <3>5, <3>6 DEF D, least
  <2> QED BY <2>6, <2>19, <2>20, <2>21, <2>22 DEF bounds, read, a, r
<1> QED BY <1>1, InputType, PTL

=============================================================================
