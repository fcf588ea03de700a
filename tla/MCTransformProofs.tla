-------------------------- MODULE MCTransformProofs -------------------------
(***************************************************************************)
(* The round trip of a chunk through transform, packing and decoding, as   *)
(* an invariant of MCTransform's behaviours in every geometry.             *)
(***************************************************************************)
EXTENDS MCTransform, OperatorProofs

RoundTripInv ==
  /\ samples \in Chunk
  /\ l_d \in 0..ChunkBitLen
  /\ stage # "raw" => /\ base = PackSamples(BaseSamples(samples, l_d))
                      /\ deviation = DeviationBits(samples, l_d)
  /\ stage = "restored" => restored = samples

(* What the variables hold at each stage.                                  *)
LEMMA RoundTripInvHolds == Spec => []RoundTripInv
<1>1. Init => RoundTripInv
  BY DEF Init, RoundTripInv
<1>2. RoundTripInv /\ [Next]_vars => RoundTripInv'
  <2> SUFFICES ASSUME RoundTripInv, [Next]_vars PROVE RoundTripInv'
    OBVIOUS
  <2>1. CASE Encode
    BY <2>1 DEF Encode, RoundTripInv, TransformChunk
  <2>2. CASE Decode
    <3>1. /\ stage = "transformed" /\ stage' = "restored"
          /\ UNCHANGED <<samples, l_d, base, deviation>>
          /\ restored' = InverseTransformChunk(UnpackSamples(base), deviation, l_d)
      BY <2>2 DEF Decode
    <3>2. /\ samples \in Chunk /\ l_d \in 0..ChunkBitLen
          /\ base = PackSamples(BaseSamples(samples, l_d))
          /\ deviation = DeviationBits(samples, l_d)
      BY <3>1 DEF RoundTripInv
    <3>3. UnpackSamples(base) = BaseSamples(samples, l_d)
      BY <3>2, TransformType, UnpackOfPack
    <3>4. restored' = samples
      BY <3>1, <3>2, <3>3, InverseOfTransform
    <3> QED BY <3>1, <3>2, <3>4 DEF RoundTripInv
  <2>3. CASE UNCHANGED vars
    BY <2>3 DEF vars, RoundTripInv
  <2> QED BY <2>1, <2>2, <2>3 DEF Next
<1> QED BY <1>1, <1>2, PTL DEF Spec

(* Decoding a packed base and its deviation gives back the chunk, for      *)
(* every geometry, chunk and deviation width.                              *)
THEOREM RoundTripHolds == Spec => []RoundTrip
<1>1. RoundTripInv => RoundTrip
  BY DEF RoundTripInv, RoundTrip
<1> QED BY <1>1, RoundTripInvHolds, PTL

(* A single bit is read without decoding the chunk, from the deviation or  *)
(* from the packed base as its position says, for every geometry.          *)
THEOREM BitAccessIsRight == Spec => []BitAccessAgrees
<1>1. ASSUME RoundTripInv, stage = "transformed",
             NEW s \in 1..SamplesPerChunk, NEW b \in 1..BitsPerSample
      PROVE  samples[s][b] = IF IsDeviationPosition(l_d, s, b)
                             THEN deviation[DeviationBitOffset(l_d, s, b)]
                             ELSE base[BitAt(s, b, BitsPerSample)]
  <2>1. /\ samples \in Chunk /\ l_d \in 0..ChunkBitLen
        /\ base = PackSamples(BaseSamples(samples, l_d))
        /\ deviation = DeviationBits(samples, l_d)
    BY <1>1 DEF RoundTripInv
  <2>2. CASE IsDeviationPosition(l_d, s, b)
    BY <2>1, <2>2, DeviationBitIsThere
  <2>3. CASE ~ IsDeviationPosition(l_d, s, b)
    <3>1. base[BitAt(s, b, BitsPerSample)] = BaseSamples(samples, l_d)[s][b]
      BY <2>1, TransformType, BitOfPackedChunk
    <3> QED BY <2>3, <3>1 DEF BaseSamples
  <2> QED BY <2>2, <2>3
<1>2. RoundTripInv => BitAccessAgrees
  BY <1>1 DEF BitAccessAgrees
<1> QED BY <1>2, RoundTripInvHolds, PTL

(* Chunks that share a base at one width share it at every larger width,   *)
(* for every geometry: widening l_d never splits a base.                   *)
THEOREM WideningMerges == Spec => []WideningOnlyMerges
<1>1. ASSUME RoundTripInv, stage = "transformed", NEW other \in Chunk,
             PackSamples(BaseSamples(other, l_d)) = base, NEW wider \in l_d..ChunkBitLen
      PROVE  BaseSamples(other, wider) = BaseSamples(samples, wider)
  <2>1. /\ samples \in Chunk /\ l_d \in 0..ChunkBitLen
        /\ base = PackSamples(BaseSamples(samples, l_d))
    BY <1>1 DEF RoundTripInv
  <2>2. /\ UnpackSamples(base) = BaseSamples(samples, l_d)
        /\ UnpackSamples(base) = BaseSamples(other, l_d)
    BY <1>1, <2>1, TransformType, UnpackOfPack
  <2>3. BaseSamples(other, l_d) = BaseSamples(samples, l_d)
    BY ONLY <2>2
  <2> QED BY ONLY <2>1, <2>3, SharedBasesStayShared, other \in Chunk,
                  wider \in l_d..ChunkBitLen
<1>2. RoundTripInv => WideningOnlyMerges
  BY <1>1 DEF WideningOnlyMerges
<1> QED BY <1>2, RoundTripInvHolds, PTL

----------------------------------------------------------------------------
(* The closed form of the positions is what the nested loops push.         *)

(* How many positions have been pushed after `i` were visited: all of the  *)
(* levels that the width fills, of the next one those past the samples     *)
(* that are skipped, and no more.                                          *)
Pushed(width, i) ==
  LET whole == SamplesPerChunk * (width \div SamplesPerChunk)
      skipped == SamplesPerChunk - (width % SamplesPerChunk)
  IN  IF i <= whole THEN i
      ELSE IF i <= whole + skipped THEN whole
      ELSE IF i <= whole + SamplesPerChunk THEN i - skipped
      ELSE width

Counts(width, p) == BitsPerSample - p[2] + 1 <= PerSample(width)[p[1]]

(* One visit: the position is pushed exactly if it is the next of the      *)
(* closed form, and skipped exactly if the count stays.                    *)
LEMMA VisitPushes ==
  ASSUME NEW width \in 0..ChunkBitLen, NEW i \in 1..ChunkBitLen
  PROVE  /\ Pushed(width, i - 1) \in Nat
         /\ IF Counts(width, Visited(i))
            THEN /\ Pushed(width, i) = Pushed(width, i - 1) + 1
                 /\ Pushed(width, i) \in 1..width
                 /\ DeviationPositions(width)[Pushed(width, i)] = Visited(i)
            ELSE Pushed(width, i) = Pushed(width, i - 1)
<1> DEFINE S == SamplesPerChunk
           m == width \div S
           e == width % S
           level == (i - 1) \div S
           rest == (i - 1) % S
           whole == S * m
           start == S * level
<1>1. /\ S \in Nat \ {0} /\ BitsPerSample \in Nat \ {0}
      /\ m \in Nat /\ e \in 0..(S - 1) /\ width = whole + e
      /\ level \in Nat /\ rest \in 0..(S - 1) /\ i - 1 = start + rest
  <2>1. width \in Nat /\ i - 1 \in Nat
    BY Geometry
  <2> QED BY <2>1, LevelsAndRest, Geometry
<1>2. whole \in Nat /\ start \in Nat
  BY <1>1
<1>3. Visited(i) = <<rest + 1, BitsPerSample - level>>
  BY DEF Visited
<1>4. Counts(width, Visited(i)) <=> level + 1 <= m + (IF rest + 1 > S - e THEN 1 ELSE 0)
  <2>1. rest + 1 \in 1..S
    BY <1>1
  <2>2. PerSample(width)[rest + 1] = m + (IF rest + 1 > S - e THEN 1 ELSE 0)
    BY <2>1 DEF PerSample
  <2>3. BitsPerSample - (BitsPerSample - level) + 1 = level + 1
    BY <1>1
  <2> HIDE DEF m, e, level, rest
  <2> QED BY <1>3, <2>2, <2>3 DEF Counts
<1>5. \A j \in Int : Pushed(width, j) = IF j <= whole THEN j
                                        ELSE IF j <= whole + (S - e) THEN whole
                                        ELSE IF j <= whole + S THEN j - (S - e)
                                        ELSE width
  BY DEF Pushed
<1>6. ASSUME NEW q \in Nat, NEW r \in 0..(S - 1), S * q + r + 1 \in 1..width
      PROVE  DeviationPositions(width)[S * q + r + 1]
               = <<(IF q < m THEN 0 ELSE S - e) + (r + 1), BitsPerSample - q>>
  <2>1. (S * q + r + 1) - 1 = S * q + r
    BY <1>1
  <2>2. (S * q + r) \div S = q /\ (S * q + r) % S = r
    BY <1>1
  <2> QED BY <1>6, <2>1, <2>2 DEF DeviationPositions
<1> HIDE DEF m, e, level, rest
<1>7. level < m => start + S <= whole
  BY <1>1, LevelsGrow
<1>8. m < level => whole + S <= start
  BY <1>1, LevelsGrow
<1>9. level = m => start = whole
  OBVIOUS
<1>10. CASE level < m
  <2>1. Counts(width, Visited(i))
    BY <1>1, <1>4, <1>10
  <2>2. i \in 1..width /\ i <= whole /\ i = start + rest + 1
    BY <1>1, <1>2, <1>7, <1>10
  <2>3. Pushed(width, i) = i /\ Pushed(width, i - 1) = i - 1
    BY <1>2, <1>5, <2>2
  <2>4. DeviationPositions(width)[i] = Visited(i)
    BY <1>1, <1>3, <1>6, <1>10, <2>2
  <2> QED BY <2>1, <2>2, <2>3, <2>4
<1>11. CASE level = m
  <2>1. i = whole + rest + 1
    BY <1>1, <1>9, <1>11
  <2>2. CASE rest + 1 > S - e
    <3>1. Counts(width, Visited(i))
      BY <1>1, <1>4, <1>11, <2>2
    <3>2. e # 0 /\ rest - (S - e) \in 0..(S - 1)
      BY <1>1, <2>2
    <3>3. Pushed(width, i) = i - (S - e) /\ Pushed(width, i - 1) = i - 1 - (S - e)
      <4> HIDE DEF whole
      <4>1. Pushed(width, i) = i - (S - e)
        BY <1>1, <1>2, <1>5, <2>1, <2>2
      <4>2. Pushed(width, i - 1) = i - 1 - (S - e)
        BY <1>1, <1>2, <1>5, <2>1, <2>2
      <4> QED BY <4>1, <4>2
    <3>4. i - (S - e) \in 1..width /\ i - 1 - (S - e) \in Nat
      BY <1>1, <1>2, <2>1, <2>2
    <3>5. i - (S - e) = S * m + (rest - (S - e)) + 1
      BY <1>1, <1>2, <2>1
    <3>6. DeviationPositions(width)[i - (S - e)]
            = <<(S - e) + ((rest - (S - e)) + 1), BitsPerSample - m>>
      <4> HIDE DEF whole
      <4>1. ~ (m < m)
        BY <1>1
      <4> QED BY <1>1, <1>6, <3>2, <3>4, <3>5, <4>1
    <3>7. DeviationPositions(width)[i - (S - e)] = Visited(i)
      BY <1>1, <1>3, <1>11, <3>6
    <3>8. Pushed(width, i) = Pushed(width, i - 1) + 1
      BY <1>1, <1>2, <2>1, <3>3
    <3> QED BY <3>1, <3>3, <3>4, <3>7, <3>8
  <2>3. CASE ~ (rest + 1 > S - e)
    <3>1. ~ Counts(width, Visited(i))
      BY <1>1, <1>4, <1>11, <2>3
    <3>2. Pushed(width, i) = whole /\ Pushed(width, i - 1) = whole
      <4> HIDE DEF whole
      <4> QED BY <1>1, <1>2, <1>5, <2>1, <2>3
    <3> QED BY <1>2, <3>1, <3>2
  <2> QED BY <2>2, <2>3
<1>12. CASE m < level
  <2>1. ~ Counts(width, Visited(i))
    BY <1>1, <1>4, <1>12
  <2>2. i - 1 >= whole + S
    BY <1>1, <1>2, <1>8, <1>12
  <2>3. Pushed(width, i) = width /\ Pushed(width, i - 1) = width
    <3> HIDE DEF whole
    <3> QED BY <1>1, <1>2, <1>5, <2>2
  <2> QED BY <1>1, <1>2, <2>1, <2>3
<1> QED BY <1>1, <1>10, <1>11, <1>12

(* All visits push all of the closed form.                                 *)
LEMMA AllPushed ==
  ASSUME NEW width \in 0..ChunkBitLen
  PROVE  Pushed(width, 0) = 0 /\ Pushed(width, ChunkBitLen) = width
<1> DEFINE S == SamplesPerChunk
           m == width \div S
           e == width % S
           whole == S * m
<1>1. /\ S \in Nat \ {0} /\ BitsPerSample \in Nat \ {0}
      /\ m \in Nat /\ e \in 0..(S - 1) /\ width = whole + e
      /\ ChunkBitLen = S * BitsPerSample /\ ChunkBitLen \in Nat /\ width <= ChunkBitLen
  <2>1. width \in Nat
    BY Geometry
  <2> QED BY <2>1, LevelsAndRest, Geometry
<1>2. \A j \in Int : Pushed(width, j) = IF j <= whole THEN j
                                        ELSE IF j <= whole + (S - e) THEN whole
                                        ELSE IF j <= whole + S THEN j - (S - e)
                                        ELSE width
  BY DEF Pushed
<1> HIDE DEF m, e
<1>3. whole \in Nat
  BY <1>1
<1>4. Pushed(width, 0) = 0
  BY <1>2, <1>3
<1>5. m < BitsPerSample => whole + S <= ChunkBitLen
  BY <1>1, LevelsGrow
<1>6. BitsPerSample < m => ChunkBitLen + S <= whole
  BY <1>1, LevelsGrow
<1>7. m = BitsPerSample => whole = ChunkBitLen
  BY <1>1
<1> HIDE DEF whole
<1>8. Pushed(width, ChunkBitLen) = width
  BY <1>1, <1>2, <1>3, <1>5, <1>6, <1>7
<1> QED BY <1>4, <1>8

(* The function that the loops compute, visit by visit.                    *)
LEMMA LoopsFollow ==
  ASSUME NEW width \in 0..ChunkBitLen
  PROVE  LoopPositions(width) = DeviationPositions(width)
<1> DEFINE n == ChunkBitLen
           D == DeviationPositions(width)
           First(k) == [j \in 1..k |-> D[j]]
           g == [i \in 0..n |-> First(Pushed(width, i))]
           Loops(f) == f = [i \in 0..n |->
                              IF i = 0 THEN <<>>
                              ELSE IF Counts(width, Visited(i)) THEN Append(f[i - 1], Visited(i))
                              ELSE f[i - 1]]
           pushed == CHOOSE f : Loops(f)
<1>1. LoopPositions(width) = pushed[n]
  BY DEF LoopPositions, Counts
<1>2. n \in Nat /\ width \in Nat
  BY Geometry
<1>3. D \in [1..width -> Position]
  BY DeviationPositionsType
<1> HIDE DEF D, n
<1>4. ASSUME NEW k \in 1..width
      PROVE  Append(First(k - 1), D[k]) = First(k)
  <2>1. k - 1 \in Nat /\ k \in Nat
    BY <1>2
  <2>2. First(k - 1) \in [1..(k - 1) -> Position] /\ D[k] \in Position
    BY <1>2, <1>3
  <2>3. First(k - 1) \in Seq(Position) /\ Len(First(k - 1)) = k - 1
    BY <2>1, <2>2, FunctionIsSequence
  <2>4. \A j \in 1..(k - 1) : First(k - 1)[j] = D[j]
    OBVIOUS
  <2> DEFINE before == First(k - 1)
             more == Append(before, D[k])
  <2> HIDE DEF before
  <2>5. more \in Seq(Position) /\ Len(more) = k
    BY <2>1, <2>2, <2>3 DEF before
  <2>6. \A j \in 1..k : more[j] = D[j]
    BY <2>1, <2>2, <2>3, <2>4 DEF before
  <2>7. more = [j \in 1..k |-> more[j]]
    BY <2>5
  <2> HIDE DEF more
  <2>8. more = First(k)
    BY <2>6, <2>7
  <2> QED BY <2>8 DEF more, before
<1>5. ASSUME NEW i \in 1..n
      PROVE  First(Pushed(width, i))
               = IF Counts(width, Visited(i)) THEN Append(First(Pushed(width, i - 1)), Visited(i))
                 ELSE First(Pushed(width, i - 1))
  <2>1. /\ Pushed(width, i - 1) \in Nat
        /\ IF Counts(width, Visited(i))
           THEN /\ Pushed(width, i) = Pushed(width, i - 1) + 1
                /\ Pushed(width, i) \in 1..width
                /\ D[Pushed(width, i)] = Visited(i)
           ELSE Pushed(width, i) = Pushed(width, i - 1)
    BY VisitPushes DEF D, n
  <2>2. CASE Counts(width, Visited(i))
    <3>1. Pushed(width, i) - 1 = Pushed(width, i - 1)
      BY <2>1, <2>2
    <3>2. Append(First(Pushed(width, i) - 1), D[Pushed(width, i)]) = First(Pushed(width, i))
      BY <1>4, <2>1, <2>2
    <3> HIDE DEF First
    <3> QED BY <2>1, <2>2, <3>1, <3>2
  <2>3. CASE ~ Counts(width, Visited(i))
    <3> HIDE DEF First
    <3> QED BY <2>1, <2>3
  <2> QED BY <2>2, <2>3
<1>6. First(Pushed(width, 0)) = <<>>
  <2>1. Pushed(width, 0) = 0
    BY AllPushed
  <2>2. First(0) = <<>>
    OBVIOUS
  <2> QED BY <2>1, <2>2, Zenon
<1> HIDE DEF First
<1>7. Loops(g)
  <2>1. ASSUME NEW i \in 0..n
        PROVE  g[i] = IF i = 0 THEN <<>>
                      ELSE IF Counts(width, Visited(i)) THEN Append(g[i - 1], Visited(i))
                      ELSE g[i - 1]
    <3>1. CASE i = 0
      BY <1>6, <3>1
    <3>2. CASE i # 0
      <4>1. i \in 1..n /\ i - 1 \in 0..n
        BY <1>2, <3>2
      <4>2. g[i] = First(Pushed(width, i)) /\ g[i - 1] = First(Pushed(width, i - 1))
        BY <4>1
      <4> HIDE DEF g
      <4> QED BY <1>5, <3>2, <4>1, <4>2
    <3> QED BY <3>1, <3>2
  <2>2. g = [i \in 0..n |-> g[i]]
    OBVIOUS
  <2> HIDE DEF g
  <2> QED BY <2>1, <2>2
<1>8. Loops(pushed)
  BY <1>7, Zenon
<1> HIDE DEF pushed
<1>9. \A i \in 0..n : pushed[i] = IF i = 0 THEN <<>>
                                  ELSE IF Counts(width, Visited(i))
                                       THEN Append(pushed[i - 1], Visited(i))
                                       ELSE pushed[i - 1]
  BY <1>8
<1>10. \A i \in 0..n : g[i] = First(Pushed(width, i))
  OBVIOUS
<1> HIDE DEF Loops, g
<1> DEFINE Bad == {i \in Nat : i \in 0..n /\ pushed[i] # First(Pushed(width, i))}
<1>11. Bad = {}
  <2>1. SUFFICES ASSUME Bad # {} PROVE FALSE
    OBVIOUS
  <2>2. PICK i \in Bad : \A k \in Bad : i <= k
    BY <2>1, LeastElement
  <2>3. i \in 0..n /\ i \in Nat
    BY <2>2
  <2>4. i # 0
    <3>1. 0 \in 0..n
      BY <1>2
    <3> QED BY <1>6, <1>9, <2>2, <3>1
  <2>5. i \in 1..n /\ i - 1 \in 0..n /\ i - 1 \in Nat /\ i - 1 \notin Bad
    BY <1>2, <2>2, <2>3, <2>4
  <2>6. pushed[i - 1] = First(Pushed(width, i - 1))
    BY <2>5
  <2>7. pushed[i] = IF Counts(width, Visited(i)) THEN Append(pushed[i - 1], Visited(i))
                    ELSE pushed[i - 1]
    BY <1>9, <2>3, <2>4
  <2>8. pushed[i] = First(Pushed(width, i))
    BY <1>5, <2>5, <2>6, <2>7
  <2> QED BY <2>2, <2>8
<1>12. pushed[n] = First(Pushed(width, n))
  <2>1. n \in Nat /\ n \in 0..n
    BY <1>2
  <2> QED BY <1>11, <2>1
<1>13. Pushed(width, n) = width
  BY AllPushed DEF n
<1>14. First(width) = D
  BY <1>3 DEF First
<1> QED BY <1>1, <1>12, <1>13, <1>14, Zenon DEF D

(* The positions that encoder, decoder and bit access rely on are those    *)
(* that the nested loops of deviation_positions push, in their order, for  *)
(* every geometry and width.                                               *)
THEOREM PositionsAreTheLoops == Spec => []PositionsFollowLoops
<1>1. RoundTripInv => PositionsFollowLoops
  BY LoopsFollow DEF RoundTripInv, PositionsFollowLoops
<1> QED BY <1>1, RoundTripInvHolds, PTL

=============================================================================
