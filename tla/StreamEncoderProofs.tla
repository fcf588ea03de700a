------------------------ MODULE StreamEncoderProofs -------------------------
(***************************************************************************)
(* The safety of StreamEncoder for every configuration: its types, the     *)
(* room the ID width leaves, the pending packet's fit, the error path that *)
(* is never taken, the backlog that never builds up, and what its packets  *)
(* add up to and mean.                                                     *)
(***************************************************************************)
EXTENDS PacketTransport, OperatorProofs

(* The parts of the inductive invariant, about one value of the struct.    *)

(* Pending pairs have assigned IDs and deviations of the current width.    *)
PairsFit(e) ==
  \A i \in 1..Len(e.pending.pairs) :
     /\ e.pending.pairs[i].base_id < e.dictionary.next_id
     /\ e.pending.pairs[i].deviation_bits \in BitString(e.l_d)

(* The ID width has room for the rest of the split, and for a split at     *)
(* all; beyond its initial value it is not a bit wider than needed.        *)
HasRoom(e) ==
  e.dictionary.next_id + (ChunksPerSplit - e.current_split_chunks) <= Pow2[e.l_id]

WidthFits(e) ==
  /\ ChunksPerSplit <= Pow2[e.l_id]
  /\ e.l_id > InitialLId =>
       e.dictionary.next_id + ChunksPerSplit >= Pow2[e.l_id - 1]

Sound(e) ==
  /\ e \in Encoder
  /\ ActiveIdsAssigned(e.dictionary)
  /\ PairsFit(e)
  /\ HasRoom(e)
  /\ WidthFits(e)
  /\ e.pending.pairs = <<>> => e.pending.new_bases = <<>>

(* Between calls the pending packet is below both of its limits.           *)
BelowLimits(e) ==
  /\ Len(e.pending.pairs) < ChunksPerPacket
  /\ Len(e.pending.new_bases) < NewBaseLimit

----------------------------------------------------------------------------
(* Constants.                                                              *)

(* The types of the constants and of the numbers made from them.           *)
LEMMA Constants ==
  /\ ChunksPerSplit \in Nat \ {0} /\ ChunksPerSplit <= 65535
  /\ IdBits \in Nat \ {0} /\ IdBits <= 32
  /\ ChunksPerPacket \in Nat \ {0}
  /\ NewBaseLimit \in Nat \ {0, 1} /\ NewBaseLimit <= 127
  /\ MaxSamples \in Nat
BY ConfigConstants, StreamAssumption

----------------------------------------------------------------------------
(* Packets.                                                                *)

(* Fields put behind one another are as long as they are together.         *)
LEMMA ConcatOfBits ==
  ASSUME NEW m \in Nat, NEW n \in Nat, NEW s \in BitString(m), NEW t \in BitString(n)
  PROVE  s \o t \in BitString(m + n)
<1>1. s \in Seq(Bit) /\ Len(s) = m /\ t \in Seq(Bit) /\ Len(t) = n
  BY FunctionIsSequence DEF BitString
<1>2. s \o t \in Seq(Bit) /\ Len(s \o t) = m + n
  BY <1>1
<1>3. s \o t \in [1..Len(s \o t) -> Bit]
  BY <1>2, LenProperties
<1> QED BY <1>2, <1>3 DEF BitString

(* Padding adds bits.                                                      *)
LEMMA PadToByteType ==
  ASSUME NEW bits \in Seq(Bit)
  PROVE  PadToByte(bits) \in Seq(Bit)
<1>1. (8 - (Len(bits) % 8)) % 8 \in Nat
  OBVIOUS
<1>2. ZeroBits((8 - (Len(bits) % 8)) % 8) \in Seq(Bit)
  BY <1>1, FunctionIsSequence DEF ZeroBits, Bit
<1> QED BY <1>2 DEF PadToByte

(* The packet made from pending pairs that fit is a stream packet, if the  *)
(* header can count its new bases.                                         *)
LEMMA PacketType ==
  ASSUME NEW e \in Encoder, PairsFit(e), Len(e.pending.new_bases) <= NewBaseLimit
  PROVE  Packet(e.pending, e.l_id, e.l_d) \in StreamPacket
<1> DEFINE pending == e.pending
           l_id == e.l_id
           l_d == e.l_d
           Field(i) == WriteValue(pending.pairs[i].base_id, l_id)
                         \o pending.pairs[i].deviation_bits
           fields == [i \in 1..Len(pending.pairs) |-> Field(i)]
<1>1. /\ pending.parameters_present \in BOOLEAN
      /\ pending.new_bases \in Seq(PackedBase)
      /\ pending.pairs \in Seq(Pair)
      /\ l_id \in Nat /\ l_d \in Nat
  <2>1. pending \in Pending /\ l_id \in Nat /\ l_d \in 0..ChunkBitLen
    BY DEF Encoder
  <2> HIDE DEF pending
  <2> QED BY <2>1, Geometry DEF Pending
<1>2. pending.new_bases \in [1..Len(pending.new_bases) -> [1..ChunkBitLen -> Bit]]
  BY <1>1 DEF PackedBase, BitString
<1>3. Join(pending.new_bases, ChunkBitLen) \in Seq(Bit)
  <2>1. Len(pending.new_bases) \in Nat /\ ChunkBitLen \in Nat
    BY <1>1, Geometry
  <2>2. Join(pending.new_bases, ChunkBitLen)
          \in [1..(Len(pending.new_bases) * ChunkBitLen) -> Bit]
    BY <1>2, <2>1, JoinType
  <2>3. Len(pending.new_bases) * ChunkBitLen \in Nat
    BY <2>1
  <2> QED BY <2>2, <2>3, FunctionIsSequence
<1>4. ASSUME NEW i \in 1..Len(pending.pairs)
      PROVE  Field(i) \in [1..(l_id + l_d) -> Bit]
  <2>1. pending.pairs[i].base_id \in Nat /\ pending.pairs[i].deviation_bits \in BitString(l_d)
    <3>1. pending.pairs[i] \in Pair
      BY <1>1
    <3>2. pending.pairs[i].base_id \in Nat
      BY <3>1 DEF Pair
    <3> QED BY <3>2 DEF PairsFit
  <2>2. WriteValue(pending.pairs[i].base_id, l_id) \in BitString(l_id)
    BY <1>1, <2>1, WriteValueType
  <2>3. Field(i) \in BitString(l_id + l_d)
    BY <1>1, <2>1, <2>2, ConcatOfBits
  <2> QED BY <2>3 DEF BitString
<1> HIDE DEF Field
<1>5. fields \in [1..Len(pending.pairs) -> [1..(l_id + l_d) -> Bit]]
  BY <1>4
<1> HIDE DEF fields
<1>6. Join(fields, l_id + l_d) \in Seq(Bit)
  <2>1. Len(pending.pairs) \in Nat /\ l_id + l_d \in Nat
    BY <1>1
  <2>2. Join(fields, l_id + l_d) \in [1..(Len(pending.pairs) * (l_id + l_d)) -> Bit]
    BY <1>5, <2>1, JoinType
  <2>3. Len(pending.pairs) * (l_id + l_d) \in Nat
    BY <2>1
  <2> QED BY <2>2, <2>3, FunctionIsSequence
<1>7. Payload(pending, l_id, l_d) \in Seq(Bit)
  <2>1. Join(pending.new_bases, ChunkBitLen) \o Join(fields, l_id + l_d) \in Seq(Bit)
    BY <1>3, <1>6
  <2>2. Payload(pending, l_id, l_d)
          = PadToByte(Join(pending.new_bases, ChunkBitLen) \o Join(fields, l_id + l_d))
    BY DEF Payload, fields, Field
  <2> QED BY <2>1, <2>2, PadToByteType
<1>8. (IF pending.parameters_present THEN <<l_id, l_d>> ELSE <<>>) \in Seq(Nat)
  BY <1>1
<1>9. Len(pending.new_bases) \in 0..NewBaseLimit /\ Len(pending.pairs) \in Nat
  BY <1>1, Constants
<1> HIDE DEF pending, l_id, l_d
<1>10. Packet(pending, l_id, l_d) \in StreamPacket
  BY <1>1, <1>7, <1>8, <1>9 DEF Packet, StreamPacket
<1> QED BY <1>10 DEF pending, l_id, l_d

----------------------------------------------------------------------------
(* The methods.                                                            *)

(* The fields of a struct of the type, one by one.                         *)
LEMMA EncoderFields ==
  ASSUME NEW e \in Encoder
  PROVE  /\ e.dictionary \in DictionaryState
         /\ e.dictionary.next_id \in Nat /\ e.dictionary.next_id <= MaxId
         /\ e.sample_buffer \in Seq(Sample)
         /\ e.current_split_chunks \in Nat /\ e.current_split_chunks <= ChunksPerSplit
         /\ e.old_base_count \in Nat
         /\ e.l_id \in Nat
         /\ e.l_d \in 0..ChunkBitLen
         /\ e.pending \in Pending
         /\ e.pending.new_bases \in Seq(PackedBase)
         /\ e.pending.pairs \in Seq(Pair)
         /\ e.ready \in Seq(StreamPacket)
<1>1. /\ e.dictionary \in DictionaryState
      /\ e.current_split_chunks \in 0..ChunksPerSplit
      /\ e.pending \in Pending
  BY DEF Encoder
<1>2. e.dictionary.next_id \in 0..MaxId
  BY <1>1 DEF DictionaryState
<1>3. e.pending.new_bases \in Seq(PackedBase) /\ e.pending.pairs \in Seq(Pair)
  BY <1>1 DEF Pending
<1>4. /\ e.sample_buffer \in Seq(Sample)
      /\ e.old_base_count \in Nat
      /\ e.l_id \in Nat
      /\ e.l_d \in 0..ChunkBitLen
      /\ e.ready \in Seq(StreamPacket)
  BY DEF Encoder
<1>5. /\ e.dictionary.next_id \in Nat /\ e.dictionary.next_id <= MaxId
      /\ e.current_split_chunks \in Nat /\ e.current_split_chunks <= ChunksPerSplit
  BY <1>1, <1>2, MaxIdType, Constants
<1> QED BY <1>1, <1>3, <1>4, <1>5

(* flush_pending succeeds while the header can count the new bases, and    *)
(* moves what was pending, if anything, to the end of `ready`.             *)
LEMMA FlushSound ==
  ASSUME NEW e, Sound(e), e.status = "ok", Len(e.pending.new_bases) <= NewBaseLimit
  PROVE  LET flushed == FlushPending(e)
         IN  /\ Sound(flushed)
             /\ flushed.status = "ok"
             /\ flushed.pending.pairs = <<>>
             /\ flushed.sample_buffer = e.sample_buffer
             /\ flushed.current_split_chunks = e.current_split_chunks
             /\ flushed.l_d = e.l_d
             /\ \/ e.pending.pairs = <<>> /\ flushed = e
                \/ /\ e.pending.pairs # <<>>
                   /\ Len(flushed.ready) = Len(e.ready) + 1
<1> DEFINE packet == Packet(e.pending, e.l_id, e.l_d)
           flushed == FlushPending(e)
<1>1. CASE e.pending.pairs = <<>>
  BY <1>1, Zenon DEF FlushPending
<1>2. CASE e.pending.pairs # <<>>
  <2>1. e \in Encoder /\ PairsFit(e)
    BY DEF Sound
  <2>2. packet \in StreamPacket
    BY <2>1, PacketType
  <2> HIDE DEF packet
  <2>3. ~ (Len(e.pending.new_bases) > NewBaseLimit)
    BY <2>1, EncoderFields, Constants
  <2>4. flushed = [e EXCEPT !.pending = EmptyPending, !.ready = Append(@, packet)]
    BY <1>2, <2>3 DEF FlushPending, packet
  <2>5. EmptyPending \in Pending
    BY DEF EmptyPending, Pending
  <2>6. Append(e.ready, packet) \in Seq(StreamPacket) /\ Len(Append(e.ready, packet)) = Len(e.ready) + 1
    BY <2>1, <2>2, EncoderFields
  <2> HIDE DEF flushed
  <2>7. /\ flushed \in Encoder
        /\ flushed.pending = EmptyPending
        /\ flushed.ready = Append(e.ready, packet)
        /\ flushed.dictionary = e.dictionary
        /\ flushed.status = e.status
        /\ flushed.sample_buffer = e.sample_buffer
        /\ flushed.current_split_chunks = e.current_split_chunks
        /\ flushed.l_id = e.l_id
        /\ flushed.l_d = e.l_d
    BY <2>1, <2>4, <2>5, <2>6 DEF Encoder
  <2>8. flushed.pending.pairs = <<>> /\ flushed.pending.new_bases = <<>>
    BY <2>7 DEF EmptyPending
  <2>9. PairsFit(flushed)
    BY <2>8 DEF PairsFit
  <2>10. Sound(flushed)
    BY <2>7, <2>8, <2>9 DEF Sound, ActiveIdsAssigned, HasRoom, WidthFits
  <2> QED BY <1>2, <2>6, <2>7, <2>8, <2>10 DEF flushed
<1> QED BY <1>1, <1>2

(* update_parameters at the end of a split, with nothing pending.          *)
LEMMA UpdateSound ==
  ASSUME NEW e, Sound(e), e.pending.pairs = <<>>,
         e.current_split_chunks = ChunksPerSplit
  PROVE  LET updated == UpdateParameters(e)
         IN  /\ Sound(updated)
             /\ updated.current_split_chunks = 0
             /\ updated.pending.pairs = <<>>
             /\ updated.status = e.status
             /\ updated.ready = e.ready
             /\ updated.sample_buffer = e.sample_buffer
<1> DEFINE updated == UpdateParameters(e)
           next_id == e.dictionary.next_id
           l_id == UpdateLId(next_id, e.l_id)
           l_d == UpdateLD(next_id, e.old_base_count, e.l_d)
           pending == [e.pending EXCEPT !.parameters_present = TRUE]
<1>1. e \in Encoder /\ ActiveIdsAssigned(e.dictionary) /\ HasRoom(e) /\ WidthFits(e)
  BY DEF Sound
<1>2. /\ next_id \in Nat /\ next_id <= MaxId /\ e.l_id \in Nat
      /\ e.l_d \in 0..ChunkBitLen /\ e.pending \in Pending
      /\ e.dictionary \in DictionaryState
  BY <1>1, EncoderFields
<1>3. updated = [e EXCEPT !.l_id = l_id, !.l_d = l_d, !.old_base_count = next_id,
                          !.current_split_chunks = 0, !.pending = pending]
  BY <1>1 DEF UpdateParameters, Encoder
<1>4. l_d \in 0..ChunkBitLen
  BY <1>2, LDType
<1>5. /\ l_id \in Nat
      /\ next_id + ChunksPerSplit <= Pow2[l_id]
      /\ ChunksPerSplit <= Pow2[l_id]
      /\ \/ l_id = e.l_id
         \/ l_id = e.l_id + 1 /\ next_id + ChunksPerSplit >= Pow2[e.l_id]
  <2>1. Pow2[e.l_id] \in Nat
    BY <1>2, Pow2Above
  <2>2. next_id <= Pow2[e.l_id] /\ ChunksPerSplit <= Pow2[e.l_id]
    BY <1>1, <1>2, <2>1, Constants DEF HasRoom, WidthFits
  <2> QED BY <1>2, <2>2, LIdHasRoom, Zenon
<1>6. /\ pending \in Pending /\ pending.pairs = <<>>
      /\ pending.new_bases = e.pending.new_bases
  BY <1>2 DEF Pending
<1>7. e.pending.new_bases = <<>>
  BY DEF Sound
<1> HIDE DEF updated, l_id, l_d, pending
<1>8. /\ updated \in Encoder
      /\ updated.dictionary = e.dictionary
      /\ updated.l_id = l_id
      /\ updated.current_split_chunks = 0
      /\ updated.pending = pending
      /\ updated.status = e.status
      /\ updated.ready = e.ready
      /\ updated.sample_buffer = e.sample_buffer
  <2>1. 0 \in 0..ChunksPerSplit /\ l_id \in Nat /\ l_d \in 0..ChunkBitLen
        /\ next_id \in Nat /\ pending \in Pending
    BY <1>2, <1>4, <1>5, <1>6, Constants
  <2> HIDE DEF next_id
  <2>2. updated \in Encoder
    BY <1>1, <1>3, <2>1 DEF Encoder
  <2>3. /\ updated.dictionary = e.dictionary
        /\ updated.l_id = l_id
        /\ updated.current_split_chunks = 0
        /\ updated.pending = pending
    BY <1>1, <1>3 DEF Encoder
  <2>4. /\ updated.status = e.status
        /\ updated.ready = e.ready
        /\ updated.sample_buffer = e.sample_buffer
    BY <1>1, <1>3 DEF Encoder
  <2> QED BY <2>2, <2>3, <2>4
<1>9. PairsFit(updated)
  BY <1>6, <1>8 DEF PairsFit
<1>10. HasRoom(updated)
  BY <1>2, <1>5, <1>8, Constants DEF HasRoom
<1>11. WidthFits(updated)
  <2>1. (l_id + 1) - 1 = l_id /\ (e.l_id + 1) - 1 = e.l_id
    BY <1>2, <1>5
  <2> QED BY <1>1, <1>5, <1>8, <2>1 DEF WidthFits
<1> QED BY <1>1, <1>6, <1>7, <1>8, <1>9, <1>10, <1>11 DEF Sound, updated

(* Soundness is about five fields; the others only have to be typed.       *)
LEMMA SoundElsewhere ==
  ASSUME NEW e, Sound(e), NEW f \in Encoder,
         f.dictionary = e.dictionary, f.pending = e.pending,
         f.current_split_chunks = e.current_split_chunks,
         f.l_id = e.l_id, f.l_d = e.l_d
  PROVE  Sound(f) /\ (BelowLimits(e) => BelowLimits(f))
BY Zenon DEF Sound, PairsFit, HasRoom, WidthFits, BelowLimits

(* One more pair: it uses up the room of one chunk of the split, and takes *)
(* at most one ID.                                                         *)
LEMMA AddPairSound ==
  ASSUME NEW e, Sound(e), e.current_split_chunks < ChunksPerSplit,
         NEW base \in PackedBase, NEW deviation_bits \in BitString(e.l_d),
         ~ IdsExhausted(e.dictionary, base)
  PROVE  LET added == AddPair(e, base, deviation_bits)
         IN  /\ Sound(added)
             /\ Len(added.pending.pairs) = Len(e.pending.pairs) + 1
             /\ Len(added.pending.new_bases) <= Len(e.pending.new_bases) + 1
             /\ added.status = e.status
             /\ added.ready = e.ready
             /\ added.sample_buffer = e.sample_buffer
<1> DEFINE got == GetOrInsert(e.dictionary, base)
           pair == [base_id |-> got.id, deviation_bits |-> deviation_bits]
           new_bases == IF got.is_new THEN Append(e.pending.new_bases, base)
                        ELSE e.pending.new_bases
           pairs == Append(e.pending.pairs, pair)
           pending == [e.pending EXCEPT !.new_bases = new_bases, !.pairs = pairs]
           added == AddPair(e, base, deviation_bits)
<1>1. /\ e \in Encoder /\ ActiveIdsAssigned(e.dictionary)
      /\ PairsFit(e) /\ HasRoom(e) /\ WidthFits(e)
  BY DEF Sound
<1>2. /\ e.dictionary \in DictionaryState
      /\ e.dictionary.next_id \in Nat
      /\ e.current_split_chunks \in Nat
      /\ e.l_id \in Nat /\ e.l_d \in Nat
      /\ e.pending \in Pending
      /\ e.pending.new_bases \in Seq(PackedBase)
      /\ e.pending.pairs \in Seq(Pair)
  BY <1>1, EncoderFields, Geometry
<1>3. /\ got.dictionary \in DictionaryState
      /\ ActiveIdsAssigned(got.dictionary)
      /\ got.id \in Nat /\ got.id < got.dictionary.next_id
      /\ e.dictionary.next_id <= got.dictionary.next_id
      /\ got.dictionary.next_id <= e.dictionary.next_id + 1
  BY <1>1, <1>2, GetOrInsertSound, Zenon
<1>4. got.dictionary.next_id \in Nat
  BY <1>3, MaxIdType DEF DictionaryState
<1> HIDE DEF got
<1>5. deviation_bits \in Seq(Bit)
  BY <1>2, FunctionIsSequence DEF BitString
<1>6. pair \in Pair
  BY <1>3, <1>5 DEF Pair
<1>7. /\ new_bases \in Seq(PackedBase)
      /\ Len(new_bases) <= Len(e.pending.new_bases) + 1
  <2>1. CASE got.is_new
    BY <1>2, <2>1
  <2>2. CASE ~ got.is_new
    BY <1>2, <2>2
  <2> QED BY <2>1, <2>2
<1> HIDE DEF pair
<1>8. pairs \in Seq(Pair) /\ Len(pairs) = Len(e.pending.pairs) + 1 /\ pairs # <<>>
  <2>1. pairs \in Seq(Pair) /\ Len(pairs) = Len(e.pending.pairs) + 1
    BY <1>2, <1>6
  <2>2. Len(e.pending.pairs) \in Nat
    BY <1>2
  <2> HIDE DEF pairs
  <2> QED BY <2>1, <2>2
<1>9. added = [e EXCEPT !.dictionary = got.dictionary, !.pending = pending,
                        !.current_split_chunks = @ + 1]
  BY <1>1, <1>2 DEF AddPair, got, pair, Encoder, Pending
<1> HIDE DEF new_bases
<1>10. \A i \in 1..Len(pairs) :
          \/ i = Len(pairs) /\ pairs[i] = pair
          \/ i \in 1..Len(e.pending.pairs) /\ pairs[i] = e.pending.pairs[i]
  BY <1>2, <1>6
<1>11. \A i \in 1..Len(pairs) :
          /\ pairs[i].base_id < got.dictionary.next_id
          /\ pairs[i].deviation_bits \in BitString(e.l_d)
  <2> SUFFICES ASSUME NEW i \in 1..Len(pairs)
               PROVE  /\ pairs[i].base_id < got.dictionary.next_id
                      /\ pairs[i].deviation_bits \in BitString(e.l_d)
    OBVIOUS
  <2> HIDE DEF pairs
  <2>1. CASE pairs[i] = pair
    <3>1. pair.base_id = got.id /\ pair.deviation_bits = deviation_bits
      BY DEF pair
    <3> QED BY <1>3, <2>1, <3>1
  <2>2. CASE i \in 1..Len(e.pending.pairs) /\ pairs[i] = e.pending.pairs[i]
    <3>1. pairs[i].base_id < e.dictionary.next_id
          /\ pairs[i].deviation_bits \in BitString(e.l_d)
      BY <1>1, <2>2 DEF PairsFit
    <3>2. pairs[i] \in Pair
      BY <1>2, <2>2
    <3>3. pairs[i].base_id \in Nat
      BY <3>2 DEF Pair
    <3> QED BY <1>2, <1>3, <1>4, <3>1, <3>3
  <2> QED BY <1>10, <2>1, <2>2
<1> HIDE DEF pairs
<1>12. pending \in Pending /\ pending.pairs = pairs /\ pending.new_bases = new_bases
  BY <1>2, <1>7, <1>8 DEF Pending
<1>13. e.current_split_chunks + 1 \in 0..ChunksPerSplit
  BY <1>2, Constants
<1> HIDE DEF pending, added
<1>14. /\ added \in Encoder
       /\ added.dictionary = got.dictionary
       /\ added.pending = pending
       /\ added.current_split_chunks = e.current_split_chunks + 1
       /\ added.l_id = e.l_id /\ added.l_d = e.l_d
       /\ added.status = e.status /\ added.ready = e.ready
       /\ added.sample_buffer = e.sample_buffer
  BY <1>1, <1>3, <1>9, <1>12, <1>13 DEF Encoder
<1>15. PairsFit(added)
  BY <1>11, <1>12, <1>14 DEF PairsFit
<1>16. HasRoom(added)
  <2>1. Pow2[e.l_id] \in Nat
    BY <1>2, Pow2Above
  <2>2. e.dictionary.next_id + (ChunksPerSplit - e.current_split_chunks) <= Pow2[e.l_id]
    BY <1>1 DEF HasRoom
  <2>3. got.dictionary.next_id + (ChunksPerSplit - (e.current_split_chunks + 1)) <= Pow2[e.l_id]
    <3>1. ASSUME NEW m \in Nat, NEW n \in Nat, NEW c \in Nat, NEW room \in Nat,
                 n <= m + 1, m + (ChunksPerSplit - c) <= room
          PROVE  n + (ChunksPerSplit - (c + 1)) <= room
      BY <3>1, Constants
    <3> QED BY <1>2, <1>3, <1>4, <2>1, <2>2, <3>1
  <2> QED BY <1>14, <2>3 DEF HasRoom
<1>17. WidthFits(added)
  <2>1. ASSUME e.l_id > InitialLId
        PROVE  got.dictionary.next_id + ChunksPerSplit >= Pow2[e.l_id - 1]
    <3>1. InitialLId \in Nat
      BY CeilLog2Bound, Constants DEF InitialLId
    <3>2. e.l_id - 1 \in Nat
      BY <1>2, <2>1, <3>1
    <3>3. Pow2[e.l_id - 1] \in Nat
      BY <3>2, Pow2Above
    <3>4. e.dictionary.next_id + ChunksPerSplit >= Pow2[e.l_id - 1]
      BY <1>1, <2>1 DEF WidthFits
    <3>5. ASSUME NEW m \in Nat, NEW n \in Nat, m <= n, NEW room \in Nat,
                 m + ChunksPerSplit >= room
          PROVE  n + ChunksPerSplit >= room
      BY <3>5, Constants
    <3> QED BY <1>2, <1>3, <1>4, <3>3, <3>4, <3>5
  <2> QED BY <1>1, <1>14, <2>1 DEF WidthFits
<1>18. Sound(added)
  BY <1>3, <1>8, <1>12, <1>14, <1>15, <1>16, <1>17 DEF Sound
<1> QED BY <1>7, <1>8, <1>12, <1>14, <1>18 DEF added

(* One more chunk of the current split: IDs run out, or the chunk is       *)
(* pending, or it filled the packet, which is then flushed.                *)
LEMMA AddChunkSound ==
  ASSUME NEW e, Sound(e), e.status = "ok", BelowLimits(e),
         e.current_split_chunks < ChunksPerSplit, NEW chunk \in Chunk
  PROVE  LET after == AddChunk(e, chunk)
         IN  \/ after.status = "ids exhausted"
             \/ /\ Sound(after) /\ after.status = "ok" /\ BelowLimits(after)
                /\ after.sample_buffer = e.sample_buffer
                /\ \/ after.ready = e.ready
                   \/ /\ Len(after.ready) = Len(e.ready) + 1
                      /\ \/ Len(e.pending.pairs) + 1 >= ChunksPerPacket
                         \/ Len(e.pending.new_bases) + 1 >= NewBaseLimit
<1> DEFINE base == PackSamples(BaseSamples(chunk, e.l_d))
           deviation_bits == DeviationBits(chunk, e.l_d)
           added == AddPair(e, base, deviation_bits)
           after == AddChunk(e, chunk)
<1>1. /\ e \in Encoder /\ e.l_d \in 0..ChunkBitLen
      /\ Len(e.pending.pairs) \in Nat /\ Len(e.pending.new_bases) \in Nat
  <2>1. e \in Encoder
    BY DEF Sound
  <2>2. e.pending.pairs \in Seq(Pair) /\ e.pending.new_bases \in Seq(PackedBase)
    BY <2>1, EncoderFields
  <2> QED BY <2>1, <2>2, EncoderFields
<1>2. base \in PackedBase /\ deviation_bits \in BitString(e.l_d)
  BY <1>1, TransformType, PackType
<1>3. after = IF IdsExhausted(e.dictionary, base)
              THEN [e EXCEPT !.status = "ids exhausted"]
              ELSE IF PacketIsFull(added.pending) THEN FlushPending(added) ELSE added
  BY DEF AddChunk, TransformChunk
<1> HIDE DEF base, deviation_bits, after
<1>4. CASE IdsExhausted(e.dictionary, base)
  <2>1. after.status = "ids exhausted"
    BY <1>1, <1>3, <1>4 DEF Encoder
  <2> QED BY <2>1 DEF after
<1>5. CASE ~ IdsExhausted(e.dictionary, base)
  <2>1. /\ Sound(added)
        /\ Len(added.pending.pairs) = Len(e.pending.pairs) + 1
        /\ Len(added.pending.new_bases) <= Len(e.pending.new_bases) + 1
        /\ added.status = e.status
        /\ added.ready = e.ready
        /\ added.sample_buffer = e.sample_buffer
    BY <1>2, <1>5, AddPairSound, Zenon
  <2>2. Len(added.pending.new_bases) \in Nat
    BY <2>1, EncoderFields DEF Sound
  <2>3. after = IF PacketIsFull(added.pending) THEN FlushPending(added) ELSE added
    BY <1>3, <1>5
  <2> HIDE DEF added
  <2>4. CASE PacketIsFull(added.pending)
    <3>1. /\ Len(added.pending.new_bases) <= NewBaseLimit
          /\ \/ Len(e.pending.pairs) + 1 >= ChunksPerPacket
             \/ Len(e.pending.new_bases) + 1 >= NewBaseLimit
      BY <1>1, <2>1, <2>2, <2>4, Constants DEF BelowLimits, PacketIsFull
    <3>2. added.pending.pairs # <<>>
      BY <1>1, <2>1
    <3>3. /\ Sound(after) /\ after.status = "ok" /\ after.pending.pairs = <<>>
          /\ after.sample_buffer = added.sample_buffer
          /\ Len(after.ready) = Len(added.ready) + 1
      BY <2>1, <2>3, <2>4, <3>1, <3>2, FlushSound, Zenon
    <3>4. BelowLimits(after)
      <4>1. after.pending.pairs = <<>> /\ after.pending.new_bases = <<>>
        BY <3>3 DEF Sound
      <4> QED BY <4>1, Constants DEF BelowLimits
    <3> QED BY <2>1, <3>1, <3>3, <3>4 DEF after
  <2>5. CASE ~ PacketIsFull(added.pending)
    <3>1. after = added
      BY <2>3, <2>5
    <3>2. BelowLimits(added)
      <4> DEFINE pairs == Len(added.pending.pairs)
                 bases == Len(added.pending.new_bases)
      <4>1. pairs # ChunksPerPacket /\ bases # NewBaseLimit
        BY <2>5 DEF PacketIsFull
      <4>2. Len(e.pending.pairs) < ChunksPerPacket /\ Len(e.pending.new_bases) < NewBaseLimit
        BY DEF BelowLimits
      <4>3. ChunksPerPacket \in Nat /\ NewBaseLimit \in Nat
        BY Constants
      <4>4. pairs = Len(e.pending.pairs) + 1 /\ bases <= Len(e.pending.new_bases) + 1
        BY <2>1
      <4> HIDE DEF pairs, bases
      <4>5. bases \in Nat
        BY <2>2 DEF bases
      <4>6. pairs < ChunksPerPacket /\ bases < NewBaseLimit
        BY ONLY <1>1, <4>1, <4>2, <4>3, <4>4, <4>5
      <4> QED BY <4>6 DEF BelowLimits, pairs, bases
    <3> QED BY <2>1, <3>1, <3>2 DEF after
  <2> QED BY <2>4, <2>5
<1> QED BY <1>4, <1>5

(* A chunk, with the split boundary it may cross: at most one packet.  A   *)
(* chunk after a boundary cannot fill a packet when the boundary flushed   *)
(* one, since the flushed one had a pair and was not full.                 *)
LEMMA EncodeChunkSound ==
  ASSUME NEW e, Sound(e), e.status = "ok", BelowLimits(e), e.ready = <<>>,
         NEW chunk \in Chunk
  PROVE  LET after == EncodeChunk(e, chunk)
         IN  \/ after.status = "ids exhausted"
             \/ /\ Sound(after) /\ after.status = "ok" /\ BelowLimits(after)
                /\ after.sample_buffer = e.sample_buffer
                /\ (Len(after.ready) = 0 \/ Len(after.ready) = 1)
<1> DEFINE after == EncodeChunk(e, chunk)
           flushed == FlushPending(e)
           begun == UpdateParameters(flushed)
<1>1. /\ e \in Encoder /\ Len(e.ready) = 0
      /\ e.current_split_chunks \in Nat /\ e.current_split_chunks <= ChunksPerSplit
      /\ Len(e.pending.pairs) \in Nat /\ Len(e.pending.new_bases) \in Nat
  <2>1. e \in Encoder
    BY DEF Sound
  <2>2. e.pending.pairs \in Seq(Pair) /\ e.pending.new_bases \in Seq(PackedBase)
    BY <2>1, EncoderFields
  <2> QED BY <2>1, <2>2, EncoderFields
<1>2. CASE e.current_split_chunks # ChunksPerSplit
  <2>1. after = AddChunk(e, chunk)
    BY <1>2 DEF EncodeChunk
  <2>2. e.current_split_chunks < ChunksPerSplit
    BY <1>1, <1>2, Constants
  <2> HIDE DEF after
  <2>3. \/ after.status = "ids exhausted"
        \/ /\ Sound(after) /\ after.status = "ok" /\ BelowLimits(after)
           /\ after.sample_buffer = e.sample_buffer
           /\ after.ready = e.ready \/ Len(after.ready) = Len(e.ready) + 1
    BY <2>1, <2>2, AddChunkSound, Zenon
  <2>4. 0 + 1 = 1
    OBVIOUS
  <2>5. after.ready = e.ready \/ Len(after.ready) = Len(e.ready) + 1
        => Len(after.ready) = 0 \/ Len(after.ready) = 1
    BY <1>1, <2>4, Zenon
  <2> QED BY <2>3, <2>5, Zenon DEF after
<1>3. CASE e.current_split_chunks = ChunksPerSplit
  <2>1. Len(e.pending.new_bases) <= NewBaseLimit
    BY <1>1, Constants DEF BelowLimits
  <2>2. /\ Sound(flushed) /\ flushed.status = "ok" /\ flushed.pending.pairs = <<>>
        /\ flushed.sample_buffer = e.sample_buffer
        /\ flushed.current_split_chunks = e.current_split_chunks
        /\ \/ flushed = e
           \/ e.pending.pairs # <<>> /\ Len(flushed.ready) = Len(e.ready) + 1
    BY <2>1, FlushSound, Zenon
  <2>3. after = AddChunk(begun, chunk)
    <3>1. BeginSplit(e) = begun
      BY <2>2 DEF BeginSplit
    <3>2. EncodeChunk(e, chunk)
            = IF BeginSplit(e).status = "ok" THEN AddChunk(BeginSplit(e), chunk)
              ELSE BeginSplit(e)
      BY <1>3 DEF EncodeChunk
    <3>3. begun.status = "ok"
      BY <1>3, <2>2, UpdateSound, Zenon
    <3> QED BY <3>1, <3>2, <3>3
  <2> HIDE DEF flushed
  <2>4. /\ Sound(begun) /\ begun.current_split_chunks = 0
        /\ begun.pending.pairs = <<>> /\ begun.status = "ok"
        /\ begun.ready = flushed.ready /\ begun.sample_buffer = e.sample_buffer
    BY <1>3, <2>2, UpdateSound, Zenon
  <2>5. begun.pending.new_bases = <<>>
    BY <2>4 DEF Sound
  <2> HIDE DEF begun, after
  <2>6. BelowLimits(begun)
    BY <2>4, <2>5, Constants DEF BelowLimits
  <2>7. begun.current_split_chunks < ChunksPerSplit
    BY <2>4, Constants
  <2>8. \/ after.status = "ids exhausted"
        \/ /\ Sound(after) /\ after.status = "ok" /\ BelowLimits(after)
           /\ after.sample_buffer = begun.sample_buffer
           /\ \/ after.ready = begun.ready
              \/ /\ Len(after.ready) = Len(begun.ready) + 1
                 /\ \/ Len(begun.pending.pairs) + 1 >= ChunksPerPacket
                    \/ Len(begun.pending.new_bases) + 1 >= NewBaseLimit
    BY <2>3, <2>4, <2>6, <2>7, AddChunkSound, Zenon
  <2>9. Len(begun.ready) = 0 \/ (Len(begun.ready) = 1 /\ ChunksPerPacket > 1)
    <3>1. e.pending.pairs # <<>> => ChunksPerPacket > 1
      <4>1. e.pending.pairs \in Seq(Pair)
        BY <1>1, EncoderFields
      <4>2. e.pending.pairs # <<>> => Len(e.pending.pairs) >= 1
        BY <4>1
      <4> QED BY <1>1, <4>2, Constants DEF BelowLimits
    <3> QED BY <1>1, <2>2, <2>4, <3>1
  <2>10. Len(begun.pending.pairs) = 0 /\ Len(begun.pending.new_bases) = 0
    BY <2>4, <2>5
  <2>11. \/ after.status = "ids exhausted"
         \/ /\ Sound(after) /\ after.status = "ok" /\ BelowLimits(after)
            /\ after.sample_buffer = e.sample_buffer
            /\ (Len(after.ready) = 0 \/ Len(after.ready) = 1)
    <3> DEFINE fills == \/ Len(begun.pending.pairs) + 1 >= ChunksPerPacket
                        \/ Len(begun.pending.new_bases) + 1 >= NewBaseLimit
    <3>1. ChunksPerPacket > 1 => ~ fills
      BY <2>10, Constants
    <3> HIDE DEF fills
    <3>2. \/ after.ready = begun.ready
          \/ Len(after.ready) = Len(begun.ready) + 1 /\ fills
          => Len(after.ready) = 0 \/ Len(after.ready) = 1
      <4>1. 0 + 1 = 1
        OBVIOUS
      <4> QED BY <2>9, <3>1, <4>1, Zenon
    <3> QED BY <2>4, <2>8, <3>2, Zenon DEF fills
  <2> QED BY <2>11, Zenon DEF after
<1> QED BY <1>2, <1>3

(* What push_sample finds and leaves.                                      *)
Between(e) == /\ Sound(e)
              /\ BelowLimits(e)
              /\ e.ready = <<>>
              /\ Len(e.sample_buffer) < SamplesPerChunk

(* What is sound stays sound with other samples in the buffer.             *)
LEMMA EmptiedBuffer ==
  ASSUME NEW e, Sound(e), BelowLimits(e), NEW buffer \in Seq(Sample)
  PROVE  LET f == [e EXCEPT !.sample_buffer = buffer]
         IN  /\ Sound(f) /\ BelowLimits(f)
             /\ f.status = e.status /\ f.ready = e.ready
             /\ f.sample_buffer = buffer
<1> DEFINE f == [e EXCEPT !.sample_buffer = buffer]
<1>1. e \in Encoder
  BY DEF Sound
<1>2. /\ f \in Encoder /\ f.dictionary = e.dictionary /\ f.pending = e.pending
      /\ f.current_split_chunks = e.current_split_chunks
      /\ f.l_id = e.l_id /\ f.l_d = e.l_d
      /\ f.status = e.status /\ f.ready = e.ready
      /\ f.sample_buffer = buffer
  BY <1>1 DEF Encoder
<1> HIDE DEF f
<1>3. Sound(f) /\ BelowLimits(f)
  BY <1>2, SoundElsewhere, Zenon
<1> QED BY <1>2, <1>3 DEF f

(* push_sample leaves a sound encoder, or one that is out of IDs.          *)
LEMMA BufferedSound ==
  ASSUME NEW e, Between(e), e.status = "ok", NEW sample \in Sample
  PROVE  LET after == Buffered(e, sample)
         IN  \/ after.status = "ids exhausted"
             \/ /\ Sound(after) /\ after.status = "ok" /\ BelowLimits(after)
                /\ Len(after.sample_buffer) < SamplesPerChunk
                /\ (Len(after.ready) = 0 \/ Len(after.ready) = 1)
<1> DEFINE buffer == Append(e.sample_buffer, sample)
           emptied == [e EXCEPT !.sample_buffer = <<>>]
           filled == [e EXCEPT !.sample_buffer = buffer]
           after == Buffered(e, sample)
<1>1. /\ e.sample_buffer \in Seq(Sample) /\ Len(e.sample_buffer) < SamplesPerChunk
      /\ e.ready = <<>> /\ Sound(e) /\ BelowLimits(e)
  BY EncoderFields DEF Between, Sound
<1>2. /\ buffer \in Seq(Sample) /\ Len(buffer) \in Nat /\ Len(buffer) <= SamplesPerChunk
  <2>1. buffer \in Seq(Sample) /\ Len(buffer) = Len(e.sample_buffer) + 1
        /\ Len(e.sample_buffer) \in Nat
    BY <1>1
  <2> QED BY <1>1, <2>1, Geometry
<1> HIDE DEF buffer
<1>3. CASE Len(buffer) = SamplesPerChunk
  <2>1. buffer \in Chunk
    BY <1>2, <1>3 DEF Chunk
  <2>2. <<>> \in Seq(Sample)
    OBVIOUS
  <2>3. /\ Sound(emptied) /\ BelowLimits(emptied) /\ emptied.status = "ok"
        /\ emptied.ready = <<>> /\ emptied.sample_buffer = <<>>
    BY <1>1, <2>2, EmptiedBuffer, Zenon
  <2>4. after = EncodeChunk(emptied, buffer)
    BY <1>3 DEF Buffered, buffer
  <2> HIDE DEF emptied, after
  <2>5. \/ after.status = "ids exhausted"
        \/ /\ Sound(after) /\ after.status = "ok" /\ BelowLimits(after)
           /\ after.sample_buffer = emptied.sample_buffer
           /\ (Len(after.ready) = 0 \/ Len(after.ready) = 1)
    BY <2>1, <2>3, <2>4, EncodeChunkSound, Zenon
  <2>6. after.sample_buffer = <<>> => Len(after.sample_buffer) < SamplesPerChunk
    BY Geometry
  <2> QED BY <2>3, <2>5, <2>6, Zenon DEF after
<1>4. CASE Len(buffer) # SamplesPerChunk
  <2>1. after = filled
    BY <1>4 DEF Buffered, buffer
  <2>2. /\ Sound(filled) /\ BelowLimits(filled) /\ filled.status = "ok"
        /\ filled.ready = <<>> /\ filled.sample_buffer = buffer
    BY <1>1, <1>2, EmptiedBuffer, Zenon
  <2>3. Len(buffer) < SamplesPerChunk
    BY <1>2, <1>4, Geometry
  <2>4. Len(filled.ready) = 0
    <3> HIDE DEF filled
    <3> QED BY <2>2
  <2> QED BY <2>1, <2>2, <2>3, <2>4, Zenon
<1> QED BY <1>3, <1>4

(* finish does too, and nothing is buffered or pending after it.           *)
LEMMA DrainedSound ==
  ASSUME NEW e, Between(e), e.status = "ok"
  PROVE  LET after == Drained(e)
         IN  \/ after.status = "ids exhausted"
             \/ /\ Sound(after) /\ after.status = "ok" /\ BelowLimits(after)
                /\ after.sample_buffer = <<>>
                /\ after.pending.pairs = <<>>
<1> DEFINE emptied == [e EXCEPT !.sample_buffer = <<>>]
           padded == IF e.sample_buffer = <<>> THEN e
                     ELSE EncodeChunk(emptied, PadChunk(e.sample_buffer))
           after == Drained(e)
<1>1. /\ e.sample_buffer \in Seq(Sample)
      /\ e.ready = <<>> /\ Sound(e) /\ BelowLimits(e)
  BY EncoderFields DEF Between, Sound
<1>2. \/ padded.status = "ids exhausted"
      \/ /\ Sound(padded) /\ padded.status = "ok" /\ BelowLimits(padded)
         /\ padded.sample_buffer = <<>>
  <2>1. CASE e.sample_buffer = <<>>
    BY <1>1, <2>1
  <2>2. CASE e.sample_buffer # <<>>
    <3>1. <<>> \in Seq(Sample) /\ PadChunk(e.sample_buffer) \in Chunk
      BY <1>1, PadChunkType
    <3>2. /\ Sound(emptied) /\ BelowLimits(emptied) /\ emptied.status = "ok"
          /\ emptied.ready = <<>> /\ emptied.sample_buffer = <<>>
      BY <1>1, <3>1, EmptiedBuffer, Zenon
    <3>3. padded = EncodeChunk(emptied, PadChunk(e.sample_buffer))
      BY <2>2
    <3> HIDE DEF emptied, padded
    <3> QED BY <3>1, <3>2, <3>3, EncodeChunkSound, Zenon
  <2> QED BY <2>1, <2>2
<1>3. after = IF padded.status = "ok" THEN FlushPending(padded) ELSE padded
  BY DEF Drained
<1> HIDE DEF padded, after
<1>4. CASE padded.status = "ids exhausted"
  BY <1>3, <1>4 DEF after
<1>5. CASE /\ Sound(padded) /\ padded.status = "ok" /\ BelowLimits(padded)
           /\ padded.sample_buffer = <<>>
  <2>1. Len(padded.pending.new_bases) <= NewBaseLimit
    <3>1. padded.pending.new_bases \in Seq(PackedBase)
      BY <1>5, EncoderFields DEF Sound
    <3>2. Len(padded.pending.new_bases) \in Nat
      BY <3>1
    <3> QED BY <1>5, <3>2, Constants DEF BelowLimits
  <2>2. /\ Sound(after) /\ after.status = "ok" /\ after.pending.pairs = <<>>
        /\ after.sample_buffer = <<>>
    BY <1>3, <1>5, <2>1, FlushSound, Zenon
  <2>3. after.pending.new_bases = <<>>
    BY <2>2 DEF Sound
  <2>4. BelowLimits(after)
    BY <2>2, <2>3, Constants DEF BelowLimits
  <2> QED BY <2>2, <2>4 DEF after
<1> QED BY <1>2, <1>4, <1>5

----------------------------------------------------------------------------
(* The inductive invariant of the encoder.                                 *)
EncoderInv ==
  /\ Between(encoder)
  /\ phase \in {"open", "finished"}
  /\ pushed \in Seq(Sample)
  /\ emitted \in Seq(StreamPacket)
  /\ encoder.status # "too many new bases"
  /\ phase = "finished" =>
       encoder.pending.pairs = <<>> /\ encoder.sample_buffer = <<>>

(* A new encoder has the invariant, ...                                    *)
LEMMA InitEstablishes == EncoderInit => EncoderInv
<1> SUFFICES ASSUME EncoderInit PROVE EncoderInv
  OBVIOUS
<1> DEFINE pending == [EmptyPending EXCEPT !.parameters_present = TRUE]
<1>1. /\ InitialLId \in Nat /\ ChunksPerSplit <= Pow2[InitialLId]
      /\ InitialLD \in 0..ChunkBitLen
  BY CeilLog2Bound, Constants, Geometry DEF InitialLId, InitialLD
<1>2. NewDictionary \in DictionaryState
  BY MaxIdType DEF NewDictionary, DictionaryState
<1>3. pending \in Pending /\ pending.pairs = <<>> /\ pending.new_bases = <<>>
  <2>1. EmptyPending \in [parameters_present : BOOLEAN, new_bases : {<<>>}, pairs : {<<>>}]
    BY DEF EmptyPending
  <2>2. pending \in [parameters_present : BOOLEAN, new_bases : {<<>>}, pairs : {<<>>}]
    BY <2>1
  <2>3. <<>> \in Seq(PackedBase) /\ <<>> \in Seq(Pair)
    OBVIOUS
  <2> HIDE DEF pending
  <2> QED BY <2>2, <2>3 DEF Pending
<1> HIDE DEF pending
<1>4. encoder = [dictionary |-> NewDictionary, sample_buffer |-> <<>>,
                 current_split_chunks |-> 0, old_base_count |-> 0,
                 l_id |-> InitialLId, l_d |-> InitialLD,
                 pending |-> pending, ready |-> <<>>, status |-> "ok"]
  BY DEF EncoderInit, NewEncoder, pending
<1>5. encoder \in Encoder
  <2>1. 0 \in 0..ChunksPerSplit
    BY Constants
  <2> QED BY <1>1, <1>2, <1>3, <1>4, <2>1 DEF Encoder
<1>6. NewDictionary.active = <<>> /\ NewDictionary.next_id = 0
  BY DEF NewDictionary
<1>7. ActiveIdsAssigned(encoder.dictionary) /\ PairsFit(encoder)
  BY <1>3, <1>4, <1>6 DEF ActiveIdsAssigned, PairsFit
<1>8. HasRoom(encoder) /\ WidthFits(encoder)
  BY <1>1, <1>4, <1>6, Constants DEF HasRoom, WidthFits
<1>9. Sound(encoder)
  BY <1>3, <1>4, <1>5, <1>7, <1>8 DEF Sound
<1>10. BelowLimits(encoder) /\ Len(encoder.sample_buffer) < SamplesPerChunk
  BY <1>3, <1>4, Constants, Geometry DEF BelowLimits
<1>11. /\ encoder.ready = <<>> /\ encoder.status # "too many new bases"
       /\ encoder.sample_buffer = <<>> /\ encoder.pending.pairs = <<>>
  BY <1>3, <1>4
<1>12. phase = "open" /\ pushed = <<>> /\ emitted = <<>>
  BY DEF EncoderInit
<1>13. pushed \in Seq(Sample) /\ emitted \in Seq(StreamPacket)
  BY <1>12
<1>14. phase \in {"open", "finished"} /\ phase # "finished"
  BY <1>12
<1> QED BY <1>9, <1>10, <1>11, <1>13, <1>14 DEF EncoderInv, Between

(* Taking the only packet of the queue leaves it empty.                    *)
LEMMA SingletonSequence ==
  ASSUME NEW S, NEW s \in Seq(S), Len(s) = 1
  PROVE  Head(s) \in S /\ Tail(s) = <<>> /\ Tail(s) \in Seq(S)
<1>1. s # <<>>
  OBVIOUS
<1>2. Head(s) \in S /\ Tail(s) \in Seq(S) /\ Len(Tail(s)) = Len(s) - 1
  BY <1>1, HeadTailProperties
<1>3. Len(Tail(s)) = 0
  BY <1>2
<1> QED BY <1>2, <1>3, EmptySeq

(* A call that fails leaves everything but the status.                     *)
LEMMA FailurePreserves ==
  ASSUME EncoderInv, NEW status, status = "ids exhausted",
         encoder' = [encoder EXCEPT !.status = status],
         UNCHANGED <<phase, pushed, emitted>>
  PROVE  EncoderInv'
<1>1. Sound(encoder) /\ encoder \in Encoder
  BY DEF EncoderInv, Between, Sound
<1>2. /\ encoder' \in Encoder /\ encoder'.dictionary = encoder.dictionary
      /\ encoder'.pending = encoder.pending
      /\ encoder'.current_split_chunks = encoder.current_split_chunks
      /\ encoder'.l_id = encoder.l_id /\ encoder'.l_d = encoder.l_d
      /\ encoder'.status = "ids exhausted" /\ encoder'.ready = encoder.ready
      /\ encoder'.sample_buffer = encoder.sample_buffer
  BY <1>1 DEF Encoder
<1>3. Sound(encoder') /\ BelowLimits(encoder')
  BY <1>1, <1>2, SoundElsewhere, Zenon DEF EncoderInv, Between
<1> QED BY <1>2, <1>3 DEF EncoderInv, Between

(* ... and so has one that a sample was pushed into ...                    *)
LEMMA PushPreserves ==
  ASSUME EncoderInv, NEW sample \in Sample, PushSample(sample)
  PROVE  EncoderInv'
<1> DEFINE after == Buffered(encoder, sample)
<1>1. Between(encoder) /\ encoder.status = "ok" /\ phase = "open"
  BY DEF EncoderInv, PushSample, Running
<1>2. /\ Sound(after) /\ after.status = "ok" /\ BelowLimits(after)
      /\ Len(after.sample_buffer) < SamplesPerChunk
      /\ (Len(after.ready) = 0 \/ Len(after.ready) = 1)
  <2>1. after.status = "ok"
    BY DEF PushSample
  <2>2. after.status # "ids exhausted"
    BY <2>1
  <2> HIDE DEF after
  <2>3. \/ after.status = "ids exhausted"
        \/ /\ Sound(after) /\ after.status = "ok" /\ BelowLimits(after)
           /\ Len(after.sample_buffer) < SamplesPerChunk
           /\ (Len(after.ready) = 0 \/ Len(after.ready) = 1)
    BY <1>1, BufferedSound, Zenon DEF after
  <2> QED BY <2>2, <2>3
<1>3. /\ pushed' = Append(pushed, sample) /\ phase' = phase
      /\ \/ after.ready = <<>> /\ encoder' = after /\ emitted' = emitted
         \/ /\ after.ready # <<>>
            /\ encoder' = [after EXCEPT !.ready = Tail(@)]
            /\ emitted' = Append(emitted, Head(after.ready))
  BY DEF PushSample
<1> HIDE DEF after
<1>4. after \in Encoder /\ after.ready \in Seq(StreamPacket)
  BY <1>2, EncoderFields DEF Sound
<1>5. pushed' \in Seq(Sample) /\ phase' \in {"open", "finished"} /\ phase' # "finished"
  BY <1>1, <1>3 DEF EncoderInv
<1>6. CASE after.ready = <<>>
  <2>1. encoder' = after /\ emitted' = emitted
    BY <1>3, <1>6
  <2> QED BY <1>2, <1>5, <1>6, <2>1 DEF EncoderInv, Between
<1>7. CASE after.ready # <<>>
  <2>1. Len(after.ready) = 1
    BY <1>2, <1>4, <1>7
  <2>2. /\ Head(after.ready) \in StreamPacket /\ Tail(after.ready) = <<>>
        /\ Tail(after.ready) \in Seq(StreamPacket)
    BY <1>4, <2>1, SingletonSequence, Zenon
  <2>3. emitted' \in Seq(StreamPacket)
    <3>1. emitted \in Seq(StreamPacket) /\ emitted' = Append(emitted, Head(after.ready))
      BY <1>3, <1>7 DEF EncoderInv
    <3> QED BY <2>2, <3>1, AppendProperties, Zenon
  <2>4. /\ encoder' \in Encoder /\ encoder'.dictionary = after.dictionary
        /\ encoder'.pending = after.pending
        /\ encoder'.current_split_chunks = after.current_split_chunks
        /\ encoder'.l_id = after.l_id /\ encoder'.l_d = after.l_d
        /\ encoder'.status = after.status /\ encoder'.ready = <<>>
        /\ encoder'.sample_buffer = after.sample_buffer
    BY <1>3, <1>4, <1>7, <2>2 DEF Encoder
  <2>5. Sound(encoder') /\ BelowLimits(encoder')
    BY <1>2, <2>4, SoundElsewhere, Zenon
  <2> QED BY <1>2, <1>5, <2>3, <2>4, <2>5 DEF EncoderInv, Between
<1> QED BY <1>6, <1>7

(* ... or that was finished.                                               *)
LEMMA FinishPreserves ==
  ASSUME EncoderInv, Finish
  PROVE  EncoderInv'
<1> DEFINE after == Drained(encoder)
<1>1. Between(encoder) /\ encoder.status = "ok"
  BY DEF EncoderInv, Finish, Running
<1>2. /\ Sound(after) /\ after.status = "ok" /\ BelowLimits(after)
      /\ after.sample_buffer = <<>> /\ after.pending.pairs = <<>>
  <2>1. after.status = "ok"
    BY DEF Finish
  <2>2. after.status # "ids exhausted"
    BY <2>1
  <2> QED BY <1>1, <2>2, DrainedSound, Zenon
<1>3. /\ encoder' = [after EXCEPT !.ready = <<>>]
      /\ emitted' = emitted \o after.ready
      /\ phase' = "finished" /\ pushed' = pushed
  BY DEF Finish
<1> HIDE DEF after
<1>4. after \in Encoder /\ after.ready \in Seq(StreamPacket)
  BY <1>2, EncoderFields DEF Sound
<1>5. emitted' \in Seq(StreamPacket) /\ pushed' \in Seq(Sample)
  <2>1. emitted \in Seq(StreamPacket) /\ pushed \in Seq(Sample)
    BY DEF EncoderInv
  <2> QED BY <1>3, <1>4, <2>1, ConcatProperties, Zenon
<1>6. /\ encoder' \in Encoder /\ encoder'.dictionary = after.dictionary
      /\ encoder'.pending = after.pending
      /\ encoder'.current_split_chunks = after.current_split_chunks
      /\ encoder'.l_id = after.l_id /\ encoder'.l_d = after.l_d
      /\ encoder'.status = after.status /\ encoder'.ready = <<>>
      /\ encoder'.sample_buffer = after.sample_buffer
  <2>1. <<>> \in Seq(StreamPacket)
    OBVIOUS
  <2> QED BY <1>3, <1>4, <2>1 DEF Encoder
<1>7. Sound(encoder') /\ BelowLimits(encoder')
  BY <1>2, <1>6, SoundElsewhere, Zenon
<1>8. Len(encoder'.sample_buffer) < SamplesPerChunk
  BY <1>2, <1>6, Geometry
<1> QED BY <1>2, <1>3, <1>5, <1>6, <1>7, <1>8 DEF EncoderInv, Between

(* Every step of the encoder preserves the invariant.                      *)
LEMMA NextPreserves == EncoderInv /\ [EncoderNext]_encoderVars => EncoderInv'
<1> SUFFICES ASSUME EncoderInv, [EncoderNext]_encoderVars PROVE EncoderInv'
  OBVIOUS
<1>1. ASSUME NEW sample \in Sample, PushSample(sample) PROVE EncoderInv'
  BY <1>1, PushPreserves
<1>2. ASSUME NEW sample \in Sample, PushFails(sample) PROVE EncoderInv'
  <2> DEFINE status == Buffered(encoder, sample).status
  <2>1. Between(encoder) /\ encoder.status = "ok"
    BY <1>2 DEF EncoderInv, PushFails, Running
  <2>2. status # "ok" /\ encoder' = [encoder EXCEPT !.status = status]
        /\ UNCHANGED <<phase, pushed, emitted>>
    BY <1>2 DEF PushFails
  <2>3. status = "ids exhausted"
    BY <2>1, <2>2, BufferedSound, Zenon
  <2> HIDE DEF status
  <2> QED BY <2>2, <2>3, FailurePreserves
<1>3. CASE Finish
  BY <1>3, FinishPreserves
<1>4. CASE FinishFails
  <2> DEFINE status == Drained(encoder).status
  <2>1. Between(encoder) /\ encoder.status = "ok"
    BY <1>4 DEF EncoderInv, FinishFails, Running
  <2>2. status # "ok" /\ encoder' = [encoder EXCEPT !.status = status]
        /\ UNCHANGED <<phase, pushed, emitted>>
    BY <1>4 DEF FinishFails
  <2>3. status = "ids exhausted"
    BY <2>1, <2>2, DrainedSound, Zenon
  <2> HIDE DEF status
  <2> QED BY <2>2, <2>3, FailurePreserves
<1>5. CASE UNCHANGED encoderVars
  BY <1>5 DEF encoderVars, EncoderInv
<1> QED BY <1>1, <1>2, <1>3, <1>4, <1>5 DEF EncoderNext

(* The invariant holds in every behaviour.                                 *)
THEOREM EncoderInvariant == EncoderSpec => []EncoderInv
<1>1. EncoderInit => EncoderInv
  BY InitEstablishes
<1>2. EncoderInv /\ [EncoderNext]_encoderVars => EncoderInv'
  BY NextPreserves
<1> QED BY <1>1, <1>2, PTL DEF EncoderSpec

(* The encoder keeps its types: the fields of the struct, the packets it   *)
(* has returned.                                                           *)
THEOREM EncoderTypeCorrect == EncoderSpec => []EncoderTypeOK
<1>1. EncoderInv => EncoderTypeOK
  BY DEF EncoderInv, Between, Sound, EncoderTypeOK
<1> QED BY <1>1, EncoderInvariant, PTL

(* update_parameters keeps room for a whole split of new bases, in every   *)
(* configuration and at any number of splits.                              *)
THEOREM IdWidthHasRoom == EncoderSpec => []RoomForIds
<1>1. EncoderInv => RoomForIds
  BY DEF EncoderInv, Between, Sound, HasRoom, RoomForIds
<1> QED BY <1>1, EncoderInvariant, PTL

(* flush_pending never drops a bit of an ID, and never writes a deviation  *)
(* of another width than the packet's.                                     *)
THEOREM PendingAlwaysFits == EncoderSpec => []PendingFitsWidths
<1>1. EncoderInv => PendingFitsWidths
  <2> SUFFICES ASSUME EncoderInv, NEW i \in 1..Len(encoder.pending.pairs)
               PROVE  /\ encoder.pending.pairs[i].base_id < Pow2[encoder.l_id]
                      /\ Len(encoder.pending.pairs[i].deviation_bits) = encoder.l_d
    BY DEF PendingFitsWidths
  <2> DEFINE pair == encoder.pending.pairs[i]
             next_id == encoder.dictionary.next_id
             left == ChunksPerSplit - encoder.current_split_chunks
  <2>1. encoder \in Encoder /\ PairsFit(encoder) /\ HasRoom(encoder)
    BY DEF EncoderInv, Between, Sound
  <2>2. /\ next_id \in Nat /\ left \in Nat
        /\ encoder.l_id \in Nat /\ encoder.l_d \in Nat
        /\ encoder.pending.pairs \in Seq(Pair)
    BY <2>1, EncoderFields, Constants, Geometry
  <2>3. pair \in Pair
    BY <2>2
  <2>4. pair.base_id \in Nat
    BY <2>3 DEF Pair
  <2>5. pair.base_id < next_id /\ pair.deviation_bits \in BitString(encoder.l_d)
    BY <2>1 DEF PairsFit
  <2>6. next_id + left <= Pow2[encoder.l_id]
    BY <2>1 DEF HasRoom
  <2>7. Len(pair.deviation_bits) = encoder.l_d
    BY <2>2, <2>5, FunctionIsSequence DEF BitString
  <2>8. Pow2[encoder.l_id] \in Nat
    BY <2>2, Pow2Above
  <2> HIDE DEF pair, next_id, left
  <2>9. pair.base_id < Pow2[encoder.l_id]
    BY <2>2, <2>4, <2>5, <2>6, <2>8
  <2> QED BY <2>7, <2>9 DEF pair
<1> QED BY <1>1, EncoderInvariant, PTL

(* The error path of flush_pending is dead code.                           *)
THEOREM FlushIsInfallible == EncoderSpec => []FlushNeverFails
<1>1. EncoderInv => FlushNeverFails
  BY DEF EncoderInv, FlushNeverFails
<1> QED BY <1>1, EncoderInvariant, PTL

(* push_sample returns the only packet there is, and finish leaves nothing *)
(* behind.                                                                 *)
THEOREM BacklogStaysEmpty == EncoderSpec => []NoBacklog
<1>1. EncoderInv => NoBacklog
  BY DEF EncoderInv, Between, NoBacklog
<1> QED BY <1>1, EncoderInvariant, PTL

(* The ID width stays within a bit of what the IDs need.                   *)
THEOREM IdWidthStaysTight == EncoderSpec => []IdWidthNotWasteful
<1>1. EncoderInv => IdWidthNotWasteful
  BY DEF EncoderInv, Between, Sound, WidthFits, IdWidthNotWasteful
<1> QED BY <1>1, EncoderInvariant, PTL

----------------------------------------------------------------------------
(* What the packets add up to: the new bases of all packets and of the     *)
(* pending one are the IDs assigned, and the chunks of all packets tile    *)
(* the splits.                                                             *)
(*                                                                         *)
(* The argument is bookkeeping.  A ledger of a sequence of packets counts  *)
(* bases and chunks before each of them; each of the encoder's methods     *)
(* keeps the ledger of the packets returned or ready in balance with the   *)
(* counters of the struct.                                                 *)

(* Running totals, which BasesBefore and ChunksBefore are.                 *)

TotalsUpTo(counts, n, g) ==
  /\ g[0] = 0
  /\ \A k \in 0..n : g[k] = IF k <= 1 THEN 0 ELSE g[k - 1] + counts[k - 1]

(* There is a table of the totals up to any place.                         *)
LEMMA TotalsExist ==
  ASSUME NEW counts
  PROVE  \A n \in Nat : \E g : TotalsUpTo(counts, n, g)
<1> DEFINE Bad == {n \in Nat : ~ \E g : TotalsUpTo(counts, n, g)}
<1>1. SUFFICES ASSUME Bad # {} PROVE FALSE
  OBVIOUS
<1>2. PICK m \in Bad : \A k \in Bad : m <= k
  BY <1>1, LeastElement
<1>3. m \in Nat /\ \A g : ~ TotalsUpTo(counts, m, g)
  OBVIOUS
<1>4. CASE m = 0
  <2>1. TotalsUpTo(counts, 0, [k \in 0..0 |-> 0])
    BY DEF TotalsUpTo
  <2> QED BY <2>1, <1>3, <1>4
<1>5. CASE m # 0
  <2>1. m - 1 \in Nat /\ m - 1 \notin Bad
    BY <1>2, <1>3, <1>5
  <2>2. PICK g : TotalsUpTo(counts, m - 1, g)
    BY <2>1
  <2> DEFINE h == [k \in 0..m |-> IF k <= 1 THEN 0 ELSE g[k - 1] + counts[k - 1]]
  <2>3. ASSUME NEW k \in 0..m
        PROVE  h[k] = IF k <= 1 THEN 0 ELSE h[k - 1] + counts[k - 1]
    <3>1. CASE k <= 1
      BY <3>1
    <3>2. CASE k > 1
      <4>1. k - 1 \in 0..m /\ k - 1 \in 0..(m - 1)
        BY <3>2
      <4>2. g[k - 1] = h[k - 1]
        BY <4>1, <2>2 DEF TotalsUpTo
      <4> QED BY <3>2, <4>2
    <3> QED BY <3>1, <3>2
  <2>4. h[0] = 0
    BY <1>3
  <2> HIDE DEF h
  <2>5. TotalsUpTo(counts, m, h)
    BY <2>3, <2>4 DEF TotalsUpTo
  <2> QED BY <2>5, <1>3
<1> QED BY <1>4, <1>5

(* Two such tables agree where both are defined.                           *)
LEMMA TotalsAgree ==
  ASSUME NEW counts, NEW m \in Nat, NEW n \in Nat, NEW g, NEW h,
         TotalsUpTo(counts, m, g), TotalsUpTo(counts, n, h),
         NEW i \in 0..m, i <= n
  PROVE  g[i] = h[i]
<1> DEFINE Bad == {k \in Nat : k <= m /\ k <= n /\ g[k] # h[k]}
<1>1. SUFFICES ASSUME Bad # {} PROVE FALSE
  OBVIOUS
<1>2. PICK k \in Bad : \A j \in Bad : k <= j
  <2>1. Bad \subseteq Nat
    OBVIOUS
  <2> QED BY <1>1, <2>1, LeastElement
<1>3. k > 1
  BY DEF TotalsUpTo
<1>4. k - 1 \in Nat /\ k - 1 \notin Bad
  BY <1>2, <1>3
<1>5. g[k - 1] = h[k - 1]
  BY <1>4
<1>6. k \in 0..m /\ k \in 0..n /\ ~ (k <= 1)
  BY <1>3
<1>7. g[k] = g[k - 1] + counts[k - 1] /\ h[k] = h[k - 1] + counts[k - 1]
  BY <1>6 DEF TotalsUpTo
<1> QED BY <1>5, <1>7

(* So the recursive definition of a running total has a solution.          *)
LEMMA TotalsRecursive ==
  ASSUME NEW counts
  PROVE  \E f : f = [i \in Nat |-> IF i <= 1 THEN 0 ELSE f[i - 1] + counts[i - 1]]
<1> DEFINE Table(n) == CHOOSE g : TotalsUpTo(counts, n, g)
<1> DEFINE F == [n \in Nat |-> Table(n)[n]]
<1>1. \A n \in Nat : TotalsUpTo(counts, n, Table(n))
  BY TotalsExist
<1> HIDE DEF Table
<1>2. ASSUME NEW n \in Nat
      PROVE  F[n] = IF n <= 1 THEN 0 ELSE F[n - 1] + counts[n - 1]
  <2>1. CASE n <= 1
    BY <2>1, <1>1 DEF TotalsUpTo
  <2>2. CASE n > 1
    <3>1. n - 1 \in Nat /\ n - 1 \in 0..(n - 1) /\ n - 1 \in 0..n /\ n - 1 <= n
      BY <2>2
    <3>2. Table(n)[n] = Table(n)[n - 1] + counts[n - 1]
      BY <2>2, <1>1 DEF TotalsUpTo
    <3>3. Table(n)[n - 1] = Table(n - 1)[n - 1]
      BY <3>1, <1>1, TotalsAgree
    <3> QED BY <3>1, <3>2, <3>3, <2>2
  <2> QED BY <2>1, <2>2
<1> HIDE DEF F
<1>3. F = [n \in Nat |-> IF n <= 1 THEN 0 ELSE F[n - 1] + counts[n - 1]]
  BY <1>2 DEF F
<1> QED BY <1>3

----------------------------------------------------------------------------
(* The ledger of the packets of a stream.                                  *)

(* A packet that begins after `before` chunks fits its split, and carries  *)
(* parameters exactly if it begins it.                                     *)
Tiles(packet, before) ==
  LET first == before % ChunksPerSplit
  IN  /\ packet.parameters_present <=> first = 0
      /\ first + packet.chunk_count <= ChunksPerSplit

(* b and c are the bases and chunks before each packet.                    *)
Balances(packets, b, c) ==
  /\ b \in [1..(Len(packets) + 1) -> Nat] /\ c \in [1..(Len(packets) + 1) -> Nat]
  /\ b[1] = 0 /\ c[1] = 0
  /\ \A k \in 1..Len(packets) :
       /\ b[k + 1] = b[k] + packets[k].new_base_count
       /\ c[k + 1] = c[k] + packets[k].chunk_count
       /\ Tiles(packets[k], c[k])

Ledger(packets, bases, chunks) ==
  \E b, c : /\ Balances(packets, b, c)
            /\ b[Len(packets) + 1] = bases /\ c[Len(packets) + 1] = chunks

(* Before the first packet nothing is on the books.                        *)
LEMMA EmptyLedger == Ledger(<<>>, 0, 0)
<1> DEFINE b == [k \in 1..1 |-> 0]
<1>1. b \in [1..(0 + 1) -> Nat] /\ b[1] = 0 /\ Len(<<>>) = 0 /\ b[0 + 1] = 0
  OBVIOUS
<1> HIDE DEF b
<1>2. Balances(<<>>, b, b)
  BY <1>1 DEF Balances
<1> QED BY <1>1, <1>2 DEF Ledger

(* A packet that begins where the last one ended, and tiles its split,     *)
(* adds its own counts to the totals.                                      *)
LEMMA AppendToLedger ==
  ASSUME NEW packets \in Seq(StreamPacket), NEW bases \in Nat, NEW chunks \in Nat,
         Ledger(packets, bases, chunks),
         NEW packet \in StreamPacket, Tiles(packet, chunks)
  PROVE  Ledger(Append(packets, packet),
                bases + packet.new_base_count, chunks + packet.chunk_count)
<1> DEFINE n == Len(packets)
           longer == Append(packets, packet)
<1>1. PICK b, c : /\ Balances(packets, b, c)
                  /\ b[n + 1] = bases /\ c[n + 1] = chunks
  BY DEF Ledger
<1> DEFINE b2 == [k \in 1..(n + 2) |-> IF k = n + 2 THEN bases + packet.new_base_count ELSE b[k]]
           c2 == [k \in 1..(n + 2) |-> IF k = n + 2 THEN chunks + packet.chunk_count ELSE c[k]]
<1>2. /\ n \in Nat /\ Len(longer) = n + 1
      /\ \A k \in 1..n : longer[k] = packets[k]
      /\ longer[n + 1] = packet
  BY AppendProperties
<1>3. packet.new_base_count \in Nat /\ packet.chunk_count \in Nat
  BY Constants DEF StreamPacket
<1>4. /\ b \in [1..(n + 1) -> Nat] /\ c \in [1..(n + 1) -> Nat]
      /\ b[1] = 0 /\ c[1] = 0
      /\ \A k \in 1..n : /\ b[k + 1] = b[k] + packets[k].new_base_count
                        /\ c[k + 1] = c[k] + packets[k].chunk_count
                        /\ Tiles(packets[k], c[k])
  BY <1>1 DEF Balances
<1>5. /\ b2 \in [1..(n + 2) -> Nat] /\ c2 \in [1..(n + 2) -> Nat]
      /\ \A k \in 1..(n + 1) : b2[k] = b[k] /\ c2[k] = c[k]
      /\ b2[n + 2] = bases + packet.new_base_count
      /\ c2[n + 2] = chunks + packet.chunk_count
  BY <1>2, <1>3, <1>4
<1> HIDE DEF longer, n, b2, c2
<1>6. ASSUME NEW k \in 1..(n + 1)
      PROVE  /\ b2[k + 1] = b2[k] + longer[k].new_base_count
             /\ c2[k + 1] = c2[k] + longer[k].chunk_count
             /\ Tiles(longer[k], c2[k])
  <2>1. CASE k = n + 1
    <3>1. k + 1 = n + 2 /\ b2[k] = bases /\ c2[k] = chunks /\ longer[k] = packet
      BY <1>1, <1>2, <1>5, <2>1
    <3> QED BY <1>5, <3>1
  <2>2. CASE k # n + 1
    <3>1. k \in 1..n /\ k + 1 \in 1..(n + 1) /\ longer[k] = packets[k]
      BY <1>2, <2>2
    <3>2. b2[k] = b[k] /\ c2[k] = c[k] /\ b2[k + 1] = b[k + 1] /\ c2[k + 1] = c[k + 1]
      BY <1>5, <3>1
    <3> QED BY <1>4, <3>1, <3>2
  <2> QED BY <2>1, <2>2
<1>7. (n + 1) + 1 = n + 2 /\ 1 \in 1..(n + 1)
  BY <1>2
<1>8. b2[1] = 0 /\ c2[1] = 0
  BY <1>4, <1>5, <1>7
<1>9. Balances(longer, b2, c2)
  BY <1>2, <1>5, <1>6, <1>7, <1>8 DEF Balances
<1>10. Ledger(longer, bases + packet.new_base_count, chunks + packet.chunk_count)
  BY <1>2, <1>5, <1>7, <1>9 DEF Ledger
<1> QED BY <1>10 DEF longer

----------------------------------------------------------------------------
(* The counters of the struct balance the packets sent and those ready:    *)
(* IDs are the bases sent and pending; the chunks sent and pending are     *)
(* whole splits and those of the current one; parameters are due exactly   *)
(* if all chunks of the current split are still pending.                   *)
InBalance(sent, e) ==
  \E chunks, splits \in Nat :
    /\ Len(e.pending.new_bases) <= e.dictionary.next_id
    /\ Ledger(sent \o e.ready, e.dictionary.next_id - Len(e.pending.new_bases), chunks)
    /\ chunks + Len(e.pending.pairs) = ChunksPerSplit * splits + e.current_split_chunks
    /\ Len(e.pending.pairs) <= e.current_split_chunks
    /\ e.pending.parameters_present <=> e.current_split_chunks = Len(e.pending.pairs)

(* The balance is about four fields.                                       *)
LEMMA BalanceElsewhere ==
  ASSUME NEW sent, NEW e, NEW f, InBalance(sent, e),
         f.dictionary = e.dictionary, f.pending = e.pending, f.ready = e.ready,
         f.current_split_chunks = e.current_split_chunks
  PROVE  InBalance(sent, f)
BY Zenon DEF InBalance

(* flush_pending moves what is pending to a packet that tiles its split.   *)
LEMMA FlushBalances ==
  ASSUME NEW sent \in Seq(StreamPacket), NEW e, Sound(e),
         Len(e.pending.new_bases) <= NewBaseLimit, InBalance(sent, e)
  PROVE  InBalance(sent, FlushPending(e))
<1> DEFINE packet == Packet(e.pending, e.l_id, e.l_d)
           flushed == FlushPending(e)
<1>1. CASE e.pending.pairs = <<>>
  BY <1>1, Zenon DEF FlushPending
<1>2. CASE e.pending.pairs # <<>>
  <2>1. /\ e \in Encoder /\ PairsFit(e)
        /\ e.dictionary.next_id \in Nat
        /\ e.current_split_chunks \in Nat /\ e.current_split_chunks <= ChunksPerSplit
        /\ e.ready \in Seq(StreamPacket)
        /\ e.pending.new_bases \in Seq(PackedBase) /\ e.pending.pairs \in Seq(Pair)
    BY EncoderFields DEF Sound
  <2>2. /\ Len(e.pending.new_bases) \in Nat
        /\ Len(e.pending.pairs) \in Nat /\ Len(e.pending.pairs) # 0
    BY <1>2, <2>1
  <2>3. packet \in StreamPacket
    BY <2>1, PacketType
  <2>4. /\ packet.new_base_count = Len(e.pending.new_bases)
        /\ packet.chunk_count = Len(e.pending.pairs)
        /\ packet.parameters_present = e.pending.parameters_present
    BY DEF Packet
  <2> HIDE DEF packet
  <2>5. ~ (Len(e.pending.new_bases) > NewBaseLimit)
    BY <2>2, Constants
  <2>6. flushed = [e EXCEPT !.pending = EmptyPending, !.ready = Append(@, packet)]
    BY <1>2, <2>5 DEF FlushPending, packet
  <2> HIDE DEF flushed
  <2>7. /\ flushed.pending = EmptyPending
        /\ flushed.ready = Append(e.ready, packet)
        /\ flushed.dictionary = e.dictionary
        /\ flushed.current_split_chunks = e.current_split_chunks
    BY <2>1, <2>6 DEF Encoder
  <2>8. /\ Len(flushed.pending.pairs) = 0 /\ Len(flushed.pending.new_bases) = 0
        /\ flushed.pending.parameters_present = FALSE
    BY <2>7 DEF EmptyPending
  <2>9. PICK chunks \in Nat, splits \in Nat :
          /\ Len(e.pending.new_bases) <= e.dictionary.next_id
          /\ Ledger(sent \o e.ready, e.dictionary.next_id - Len(e.pending.new_bases), chunks)
          /\ chunks + Len(e.pending.pairs) = ChunksPerSplit * splits + e.current_split_chunks
          /\ Len(e.pending.pairs) <= e.current_split_chunks
          /\ e.pending.parameters_present <=> e.current_split_chunks = Len(e.pending.pairs)
    BY DEF InBalance
  <2>10. chunks % ChunksPerSplit = e.current_split_chunks - Len(e.pending.pairs)
    <3> DEFINE current == e.current_split_chunks
               pending == Len(e.pending.pairs)
               place == current - pending
    <3>1. /\ current \in Nat /\ current <= ChunksPerSplit
          /\ pending \in Nat /\ pending # 0 /\ pending <= current
          /\ chunks + pending = ChunksPerSplit * splits + current
      BY <2>1, <2>2, <2>9, Zenon
    <3>2. ChunksPerSplit \in Nat \ {0}
      BY Constants
    <3> HIDE DEF current, pending
    <3>3. place \in 0..(ChunksPerSplit - 1) /\ chunks = splits * ChunksPerSplit + place
      BY <3>1, <3>2
    <3> HIDE DEF place
    <3>4. (splits * ChunksPerSplit + place) % ChunksPerSplit = place
      BY <3>2, <3>3, RestOfDivision, Zenon
    <3>5. chunks % ChunksPerSplit = place
      BY <3>3, <3>4, Zenon
    <3> QED BY <3>5 DEF place, current, pending
  <2>11. Tiles(packet, chunks)
    <3>1. e.current_split_chunks = Len(e.pending.pairs) <=> chunks % ChunksPerSplit = 0
      BY <2>1, <2>2, <2>10
    <3>2. (chunks % ChunksPerSplit) + Len(e.pending.pairs) <= ChunksPerSplit
      BY <2>1, <2>2, <2>10, Constants
    <3> QED BY <2>4, <2>9, <3>1, <3>2, Zenon DEF Tiles
  <2>12. sent \o e.ready \in Seq(StreamPacket)
    BY <2>1, ConcatProperties
  <2>13. e.dictionary.next_id - Len(e.pending.new_bases) \in Nat
    BY <2>1, <2>2, <2>9
  <2>14. Ledger(Append(sent \o e.ready, packet),
                (e.dictionary.next_id - Len(e.pending.new_bases)) + packet.new_base_count,
                chunks + packet.chunk_count)
    BY <2>3, <2>9, <2>11, <2>12, <2>13, AppendToLedger
  <2>15. sent \o Append(e.ready, packet) = Append(sent \o e.ready, packet)
    <3>1. <<packet>> \in Seq(StreamPacket)
      BY <2>3
    <3> QED BY <2>1, <2>3, <2>12, <3>1, AppendIsConcat, ConcatAssociative
  <2>16. (e.dictionary.next_id - Len(e.pending.new_bases)) + packet.new_base_count
           = flushed.dictionary.next_id - Len(flushed.pending.new_bases)
    BY <2>1, <2>2, <2>4, <2>7, <2>8
  <2>17. Ledger(sent \o flushed.ready,
                flushed.dictionary.next_id - Len(flushed.pending.new_bases),
                chunks + packet.chunk_count)
    BY <2>7, <2>14, <2>15, <2>16
  <2>18. /\ chunks + packet.chunk_count \in Nat
         /\ (chunks + packet.chunk_count) + Len(flushed.pending.pairs)
              = ChunksPerSplit * splits + flushed.current_split_chunks
    BY <2>2, <2>4, <2>7, <2>8, <2>9
  <2>19. /\ Len(flushed.pending.new_bases) <= flushed.dictionary.next_id
         /\ Len(flushed.pending.pairs) <= flushed.current_split_chunks
         /\ flushed.current_split_chunks # Len(flushed.pending.pairs)
    BY <2>1, <2>2, <2>7, <2>8, <2>9
  <2> DEFINE after == chunks + packet.chunk_count
  <2> HIDE DEF after
  <2>20. InBalance(sent, flushed)
    BY <2>8, <2>9, <2>17, <2>18, <2>19, Zenon DEF InBalance, after
  <2> QED BY <2>20 DEF flushed
<1> QED BY <1>1, <1>2

(* update_parameters begins a split, with nothing pending from the last.   *)
LEMMA UpdateBalances ==
  ASSUME NEW sent, NEW e, Sound(e), e.pending.pairs = <<>>,
         e.current_split_chunks = ChunksPerSplit, InBalance(sent, e)
  PROVE  InBalance(sent, UpdateParameters(e))
<1> DEFINE updated == UpdateParameters(e)
           pending == [e.pending EXCEPT !.parameters_present = TRUE]
<1>1. e \in Encoder /\ e.pending \in Pending
  BY EncoderFields DEF Sound
<1>2. /\ pending.pairs = <<>> /\ pending.new_bases = e.pending.new_bases
      /\ pending.parameters_present = TRUE
  BY <1>1 DEF Pending
<1>3. updated = [e EXCEPT !.l_id = UpdateLId(e.dictionary.next_id, e.l_id),
                          !.l_d = UpdateLD(e.dictionary.next_id, e.old_base_count, e.l_d),
                          !.old_base_count = e.dictionary.next_id,
                          !.current_split_chunks = 0, !.pending = pending]
  BY <1>1 DEF UpdateParameters, Encoder
<1> HIDE DEF updated, pending
<1>4. /\ updated.pending = pending /\ updated.ready = e.ready
      /\ updated.dictionary = e.dictionary /\ updated.current_split_chunks = 0
  BY <1>1, <1>3 DEF Encoder
<1>5. PICK chunks \in Nat, splits \in Nat :
        /\ Len(e.pending.new_bases) <= e.dictionary.next_id
        /\ Ledger(sent \o e.ready, e.dictionary.next_id - Len(e.pending.new_bases), chunks)
        /\ chunks + Len(e.pending.pairs) = ChunksPerSplit * splits + e.current_split_chunks
  BY DEF InBalance
<1>6. splits + 1 \in Nat /\ Len(pending.pairs) = 0
      /\ chunks + Len(pending.pairs) = ChunksPerSplit * (splits + 1) + 0
  BY <1>2, <1>5, Constants
<1>7. Len(pending.pairs) <= 0 /\ 0 = Len(pending.pairs)
  BY <1>6
<1>8. InBalance(sent, updated)
  <2>1. /\ Len(updated.pending.new_bases) <= updated.dictionary.next_id
        /\ Ledger(sent \o updated.ready,
                  updated.dictionary.next_id - Len(updated.pending.new_bases), chunks)
    BY <1>2, <1>4, <1>5, Zenon
  <2>2. /\ chunks + Len(updated.pending.pairs)
             = ChunksPerSplit * (splits + 1) + updated.current_split_chunks
        /\ Len(updated.pending.pairs) <= updated.current_split_chunks
        /\ updated.pending.parameters_present
             <=> updated.current_split_chunks = Len(updated.pending.pairs)
    BY <1>2, <1>4, <1>6, <1>7, Zenon
  <2> QED BY <1>6, <2>1, <2>2, Zenon DEF InBalance
<1> QED BY <1>8 DEF updated

(* get_or_insert and the pair it adds: a new base takes an ID and a place  *)
(* in the packet.                                                          *)
LEMMA AddPairBalances ==
  ASSUME NEW sent, NEW e, Sound(e), NEW base \in PackedBase, NEW deviation_bits,
         InBalance(sent, e)
  PROVE  InBalance(sent, AddPair(e, base, deviation_bits))
<1> DEFINE got == GetOrInsert(e.dictionary, base)
           pair == [base_id |-> got.id, deviation_bits |-> deviation_bits]
           new_bases == IF got.is_new THEN Append(e.pending.new_bases, base)
                        ELSE e.pending.new_bases
           pairs == Append(e.pending.pairs, pair)
           pending == [e.pending EXCEPT !.new_bases = new_bases, !.pairs = pairs]
           added == AddPair(e, base, deviation_bits)
<1>1. /\ e \in Encoder /\ e.pending \in Pending
      /\ e.dictionary.next_id \in Nat /\ e.current_split_chunks \in Nat
      /\ e.pending.new_bases \in Seq(PackedBase) /\ e.pending.pairs \in Seq(Pair)
  BY EncoderFields DEF Sound
<1>2. /\ got.is_new \in BOOLEAN
      /\ got.dictionary.next_id
           = IF got.is_new THEN e.dictionary.next_id + 1 ELSE e.dictionary.next_id
  BY NewBaseTakesAnId
<1>3. added = [e EXCEPT !.dictionary = got.dictionary, !.pending = pending,
                        !.current_split_chunks = @ + 1]
  BY <1>1 DEF AddPair, Encoder, Pending
<1>4. /\ pending.pairs = pairs /\ pending.new_bases = new_bases
      /\ pending.parameters_present = e.pending.parameters_present
  BY <1>1 DEF Pending
<1>5. Len(pairs) = Len(e.pending.pairs) + 1 /\ Len(e.pending.pairs) \in Nat
  BY <1>1
<1>6. /\ Len(e.pending.new_bases) \in Nat /\ Len(new_bases) \in Nat
      /\ got.dictionary.next_id - Len(new_bases)
           = e.dictionary.next_id - Len(e.pending.new_bases)
      /\ Len(e.pending.new_bases) <= e.dictionary.next_id
           => Len(new_bases) <= got.dictionary.next_id
  <2>1. CASE got.is_new
    <3>1. Len(new_bases) = Len(e.pending.new_bases) + 1 /\ Len(e.pending.new_bases) \in Nat
      BY <1>1, <2>1
    <3>2. got.dictionary.next_id = e.dictionary.next_id + 1
      BY <1>2, <2>1
    <3>3. ASSUME NEW l \in Nat, NEW m \in Nat
          PROVE  (m + 1) - (l + 1) = m - l /\ (l <= m => l + 1 <= m + 1) /\ l + 1 \in Nat
      OBVIOUS
    <3> HIDE DEF new_bases, got
    <3> QED BY <1>1, <3>1, <3>2, <3>3, Zenon
  <2>2. CASE ~ got.is_new
    BY <1>1, <1>2, <2>2
  <2> QED BY <2>1, <2>2
<1> HIDE DEF got, pair, new_bases, pairs, pending, added
<1>7. /\ added.dictionary = got.dictionary /\ added.pending = pending
      /\ added.ready = e.ready
      /\ added.current_split_chunks = e.current_split_chunks + 1
  BY <1>1, <1>3 DEF Encoder
<1>8. PICK chunks \in Nat, splits \in Nat :
        /\ Len(e.pending.new_bases) <= e.dictionary.next_id
        /\ Ledger(sent \o e.ready, e.dictionary.next_id - Len(e.pending.new_bases), chunks)
        /\ chunks + Len(e.pending.pairs) = ChunksPerSplit * splits + e.current_split_chunks
        /\ Len(e.pending.pairs) <= e.current_split_chunks
        /\ e.pending.parameters_present <=> e.current_split_chunks = Len(e.pending.pairs)
  BY DEF InBalance
<1>9. /\ chunks + Len(added.pending.pairs) = ChunksPerSplit * splits + added.current_split_chunks
      /\ Len(added.pending.pairs) <= added.current_split_chunks
      /\ e.current_split_chunks = Len(e.pending.pairs)
           <=> added.current_split_chunks = Len(added.pending.pairs)
  <2>1. /\ Len(added.pending.pairs) = Len(e.pending.pairs) + 1
        /\ ChunksPerSplit * splits \in Nat
    BY <1>4, <1>5, <1>7, Constants
  <2>2. ASSUME NEW l \in Nat, NEW m \in Nat, NEW whole \in Nat, chunks + l = whole + m, l <= m
        PROVE  chunks + (l + 1) = whole + (m + 1) /\ l + 1 <= m + 1 /\ (m = l <=> m + 1 = l + 1)
    BY <2>2
  <2>3. /\ chunks + (Len(e.pending.pairs) + 1)
             = ChunksPerSplit * splits + (e.current_split_chunks + 1)
        /\ Len(e.pending.pairs) + 1 <= e.current_split_chunks + 1
        /\ e.current_split_chunks = Len(e.pending.pairs)
             <=> e.current_split_chunks + 1 = Len(e.pending.pairs) + 1
    <3> DEFINE l == Len(e.pending.pairs)
               m == e.current_split_chunks
               whole == ChunksPerSplit * splits
    <3>1. l \in Nat /\ m \in Nat /\ whole \in Nat /\ chunks + l = whole + m /\ l <= m
      BY <1>1, <1>5, <1>8, <2>1, Zenon
    <3> HIDE DEF l, m, whole
    <3>2. chunks + (l + 1) = whole + (m + 1) /\ l + 1 <= m + 1 /\ (m = l <=> m + 1 = l + 1)
      BY <2>2, <3>1
    <3> QED BY <3>2 DEF l, m, whole
  <2>4. added.current_split_chunks = e.current_split_chunks + 1
    BY <1>7
  <2> QED BY <2>1, <2>3, <2>4, Zenon
<1>10. /\ Len(added.pending.new_bases) <= added.dictionary.next_id
       /\ Ledger(sent \o added.ready,
                 added.dictionary.next_id - Len(added.pending.new_bases), chunks)
       /\ added.pending.parameters_present = e.pending.parameters_present
  BY <1>4, <1>6, <1>7, <1>8
<1>11. InBalance(sent, added)
  BY <1>8, <1>9, <1>10, Zenon DEF InBalance
<1> QED BY <1>11 DEF added

(* The pair of a chunk, and the flush of a packet that it fills.           *)
LEMMA AddChunkBalances ==
  ASSUME NEW sent \in Seq(StreamPacket), NEW e, Sound(e), BelowLimits(e),
         e.current_split_chunks < ChunksPerSplit, NEW chunk \in Chunk,
         InBalance(sent, e)
  PROVE  \/ AddChunk(e, chunk).status = "ids exhausted"
         \/ InBalance(sent, AddChunk(e, chunk))
<1> DEFINE base == PackSamples(BaseSamples(chunk, e.l_d))
           deviation_bits == DeviationBits(chunk, e.l_d)
           added == AddPair(e, base, deviation_bits)
           after == AddChunk(e, chunk)
<1>1. /\ e \in Encoder /\ e.l_d \in 0..ChunkBitLen
      /\ Len(e.pending.new_bases) \in Nat
  <2>1. e \in Encoder
    BY DEF Sound
  <2>2. e.pending.new_bases \in Seq(PackedBase)
    BY <2>1, EncoderFields
  <2> QED BY <2>1, <2>2, EncoderFields
<1>2. base \in PackedBase /\ deviation_bits \in BitString(e.l_d)
  BY <1>1, TransformType, PackType
<1>3. after = IF IdsExhausted(e.dictionary, base)
              THEN [e EXCEPT !.status = "ids exhausted"]
              ELSE IF PacketIsFull(added.pending) THEN FlushPending(added) ELSE added
  BY DEF AddChunk, TransformChunk
<1> HIDE DEF base, deviation_bits, after
<1> SUFFICES ASSUME ~ IdsExhausted(e.dictionary, base) PROVE InBalance(sent, after)
  <2>1. IdsExhausted(e.dictionary, base) => after.status = "ids exhausted"
    BY <1>1, <1>3 DEF Encoder
  <2> QED BY <2>1 DEF after
<1>4. InBalance(sent, added)
  BY <1>2, AddPairBalances
<1>5. /\ Sound(added)
      /\ Len(added.pending.new_bases) <= Len(e.pending.new_bases) + 1
  BY <1>2, AddPairSound, Zenon
<1>6. after = IF PacketIsFull(added.pending) THEN FlushPending(added) ELSE added
  BY <1>3
<1> HIDE DEF added
<1>7. Len(added.pending.new_bases) <= NewBaseLimit
  <2>1. added.pending.new_bases \in Seq(PackedBase)
    BY <1>5, EncoderFields DEF Sound
  <2>2. Len(added.pending.new_bases) \in Nat
    BY <2>1
  <2> QED BY <1>1, <1>5, <2>2, Constants DEF BelowLimits
<1>8. InBalance(sent, FlushPending(added))
  BY <1>4, <1>5, <1>7, FlushBalances
<1> QED BY <1>4, <1>6, <1>8

(* encode_chunk, the split boundary before it included.                    *)
LEMMA EncodeChunkBalances ==
  ASSUME NEW sent \in Seq(StreamPacket), NEW e, Sound(e), e.status = "ok", BelowLimits(e),
         NEW chunk \in Chunk, InBalance(sent, e)
  PROVE  \/ EncodeChunk(e, chunk).status = "ids exhausted"
         \/ InBalance(sent, EncodeChunk(e, chunk))
<1> DEFINE after == EncodeChunk(e, chunk)
           flushed == FlushPending(e)
           begun == UpdateParameters(flushed)
<1>1. /\ e \in Encoder
      /\ e.current_split_chunks \in Nat /\ e.current_split_chunks <= ChunksPerSplit
      /\ Len(e.pending.new_bases) \in Nat
  <2>1. e \in Encoder
    BY DEF Sound
  <2>2. e.pending.new_bases \in Seq(PackedBase)
    BY <2>1, EncoderFields
  <2> QED BY <2>1, <2>2, EncoderFields
<1>2. CASE e.current_split_chunks # ChunksPerSplit
  <2>1. after = AddChunk(e, chunk)
    BY <1>2 DEF EncodeChunk
  <2>2. e.current_split_chunks < ChunksPerSplit
    BY <1>1, <1>2, Constants
  <2> QED BY <2>1, <2>2, AddChunkBalances
<1>3. CASE e.current_split_chunks = ChunksPerSplit
  <2>1. Len(e.pending.new_bases) <= NewBaseLimit
    BY <1>1, Constants DEF BelowLimits
  <2>2. /\ Sound(flushed) /\ flushed.status = "ok" /\ flushed.pending.pairs = <<>>
        /\ flushed.current_split_chunks = e.current_split_chunks
    BY <2>1, FlushSound, Zenon
  <2>3. InBalance(sent, flushed)
    BY <2>1, FlushBalances
  <2>4. /\ Sound(begun) /\ begun.current_split_chunks = 0
        /\ begun.pending.pairs = <<>> /\ begun.status = flushed.status
    BY <1>3, <2>2, UpdateSound, Zenon
  <2>5. InBalance(sent, begun)
    BY <1>3, <2>2, <2>3, UpdateBalances
  <2>6. after = AddChunk(begun, chunk)
    <3>1. BeginSplit(e) = begun
      BY <2>2 DEF BeginSplit
    <3>2. after = IF BeginSplit(e).status = "ok" THEN AddChunk(BeginSplit(e), chunk)
                  ELSE BeginSplit(e)
      BY <1>3 DEF EncodeChunk
    <3> QED BY <2>2, <2>4, <3>1, <3>2
  <2> HIDE DEF flushed, begun
  <2>7. begun.pending.new_bases = <<>>
    BY <2>4 DEF Sound
  <2>8. BelowLimits(begun) /\ begun.current_split_chunks < ChunksPerSplit
    BY <2>4, <2>7, Constants DEF BelowLimits
  <2> QED BY <2>4, <2>5, <2>6, <2>8, AddChunkBalances
<1> QED BY <1>2, <1>3

(* Filling and emptying the sample buffer does not touch the books.        *)
LEMMA BufferBalances ==
  ASSUME NEW sent, NEW e \in Encoder, InBalance(sent, e), NEW buffer
  PROVE  InBalance(sent, [e EXCEPT !.sample_buffer = buffer])
<1> DEFINE f == [e EXCEPT !.sample_buffer = buffer]
<1>1. /\ f.dictionary = e.dictionary /\ f.pending = e.pending /\ f.ready = e.ready
      /\ f.current_split_chunks = e.current_split_chunks
  BY DEF Encoder
<1> HIDE DEF f
<1>2. InBalance(sent, f)
  BY <1>1, BalanceElsewhere
<1> QED BY <1>2 DEF f

(* push_sample up to the packet it returns.                                *)
LEMMA BufferedBalances ==
  ASSUME NEW sent \in Seq(StreamPacket), NEW e, Between(e), e.status = "ok",
         NEW sample \in Sample, InBalance(sent, e)
  PROVE  \/ Buffered(e, sample).status = "ids exhausted"
         \/ InBalance(sent, Buffered(e, sample))
<1> DEFINE buffer == Append(e.sample_buffer, sample)
           emptied == [e EXCEPT !.sample_buffer = <<>>]
           after == Buffered(e, sample)
<1>1. /\ e \in Encoder /\ e.sample_buffer \in Seq(Sample)
      /\ Sound(e) /\ BelowLimits(e)
  BY EncoderFields DEF Between, Sound
<1>2. buffer \in Seq(Sample)
  BY <1>1
<1> HIDE DEF buffer
<1>3. CASE Len(buffer) = SamplesPerChunk
  <2>1. buffer \in Chunk
    BY <1>2, <1>3 DEF Chunk
  <2>2. <<>> \in Seq(Sample)
    OBVIOUS
  <2>3. Sound(emptied) /\ BelowLimits(emptied) /\ emptied.status = "ok"
    BY <1>1, <2>2, EmptiedBuffer, Zenon
  <2>4. InBalance(sent, emptied)
    BY <1>1, BufferBalances
  <2>5. after = EncodeChunk(emptied, buffer)
    BY <1>3 DEF Buffered, buffer
  <2> HIDE DEF emptied
  <2> QED BY <2>1, <2>3, <2>4, <2>5, EncodeChunkBalances
<1>4. CASE Len(buffer) # SamplesPerChunk
  <2>1. after = [e EXCEPT !.sample_buffer = buffer]
    BY <1>4 DEF Buffered, buffer
  <2>2. InBalance(sent, [e EXCEPT !.sample_buffer = buffer])
    BY <1>1, BufferBalances
  <2> QED BY <2>1, <2>2, Zenon
<1> QED BY <1>3, <1>4

(* finish up to the packets it returns.                                    *)
LEMMA DrainedBalances ==
  ASSUME NEW sent \in Seq(StreamPacket), NEW e, Between(e), e.status = "ok",
         InBalance(sent, e)
  PROVE  \/ Drained(e).status = "ids exhausted"
         \/ InBalance(sent, Drained(e))
<1> DEFINE emptied == [e EXCEPT !.sample_buffer = <<>>]
           padded == IF e.sample_buffer = <<>> THEN e
                     ELSE EncodeChunk(emptied, PadChunk(e.sample_buffer))
           after == Drained(e)
<1>1. /\ e \in Encoder /\ e.sample_buffer \in Seq(Sample)
      /\ e.ready = <<>> /\ Sound(e) /\ BelowLimits(e)
  BY EncoderFields DEF Between, Sound
<1>2. after = IF padded.status = "ok" THEN FlushPending(padded) ELSE padded
  BY DEF Drained
<1>3. SUFFICES ASSUME padded.status # "ids exhausted" PROVE InBalance(sent, after)
  <2> HIDE DEF padded, after
  <2>1. padded.status = "ids exhausted" => after = padded
    BY <1>2
  <2> QED BY <2>1 DEF after
<1>4. /\ InBalance(sent, padded) /\ Sound(padded) /\ BelowLimits(padded)
      /\ padded.status = "ok"
  <2>1. CASE e.sample_buffer = <<>>
    BY <1>1, <2>1
  <2>2. CASE e.sample_buffer # <<>>
    <3>1. <<>> \in Seq(Sample) /\ PadChunk(e.sample_buffer) \in Chunk
      BY <1>1, PadChunkType
    <3>2. /\ Sound(emptied) /\ BelowLimits(emptied) /\ emptied.status = "ok"
          /\ emptied.ready = <<>>
      BY <1>1, <3>1, EmptiedBuffer, Zenon
    <3>3. InBalance(sent, emptied)
      BY <1>1, BufferBalances
    <3>4. padded = EncodeChunk(emptied, PadChunk(e.sample_buffer))
      BY <2>2
    <3> HIDE DEF emptied, padded
    <3>5. Sound(padded) /\ BelowLimits(padded) /\ padded.status = "ok"
      BY <1>3, <3>1, <3>2, <3>4, EncodeChunkSound, Zenon
    <3>6. InBalance(sent, padded)
      BY <1>3, <3>1, <3>2, <3>3, <3>4, EncodeChunkBalances
    <3> QED BY <3>5, <3>6
  <2> QED BY <2>1, <2>2
<1> HIDE DEF padded
<1>5. Len(padded.pending.new_bases) <= NewBaseLimit
  <2>1. padded.pending.new_bases \in Seq(PackedBase)
    BY <1>4, EncoderFields DEF Sound
  <2>2. Len(padded.pending.new_bases) \in Nat
    BY <2>1
  <2> QED BY <1>4, <2>2, Constants DEF BelowLimits
<1>6. InBalance(sent, FlushPending(padded))
  BY <1>4, <1>5, FlushBalances
<1> QED BY <1>2, <1>4, <1>6

----------------------------------------------------------------------------
(* The inductive invariant: between two calls nothing is ready, and the    *)
(* struct balances the packets returned.                                   *)
LedgerInv == EncoderInv /\ InBalance(emitted, encoder)

(* A new encoder has sent nothing and assigned nothing.                    *)
LEMMA InitBalances == EncoderInit => InBalance(emitted, encoder)
<1> SUFFICES ASSUME EncoderInit PROVE InBalance(emitted, encoder)
  OBVIOUS
<1>1. /\ encoder.dictionary.next_id = 0 /\ encoder.ready = <<>>
      /\ encoder.current_split_chunks = 0
      /\ encoder.pending.parameters_present = TRUE
      /\ encoder.pending.new_bases = <<>> /\ encoder.pending.pairs = <<>>
      /\ emitted = <<>>
  BY DEF EncoderInit, NewEncoder, NewDictionary, EmptyPending
<1>2. emitted \o encoder.ready = <<>>
  BY <1>1
<1>3. /\ Len(encoder.pending.new_bases) = 0 /\ Len(encoder.pending.pairs) = 0
      /\ encoder.dictionary.next_id - Len(encoder.pending.new_bases) = 0
      /\ 0 + 0 = ChunksPerSplit * 0 + 0 /\ 0 \in Nat /\ 0 <= 0
  <2>1. 0 + 0 = ChunksPerSplit * 0 + 0 /\ 0 \in Nat /\ 0 <= 0
    BY Constants
  <2>2. Len(<<>>) = 0 /\ 0 - 0 = 0
    OBVIOUS
  <2> QED BY <1>1, <2>1, <2>2, Zenon
<1> QED BY <1>1, <1>2, <1>3, EmptyLedger, Zenon DEF InBalance

(* Packets that are returned move from `ready` to `emitted`, which keeps   *)
(* the balance.                                                            *)
LEMMA ReturnBalances ==
  ASSUME NEW e, NEW sent \in Seq(StreamPacket), InBalance(sent, e), e \in Encoder,
         NEW f, f = [e EXCEPT !.ready = <<>>],
         NEW returned, returned = sent \o e.ready
  PROVE  InBalance(returned, f)
<1>1. /\ f.dictionary = e.dictionary /\ f.pending = e.pending /\ f.ready = <<>>
      /\ f.current_split_chunks = e.current_split_chunks
  BY DEF Encoder
<1>2. returned \o <<>> = returned
  <2>1. returned \in Seq(StreamPacket)
    BY EncoderFields, ConcatProperties
  <2> QED BY <2>1, ConcatEmptySeq
<1>3. returned \o f.ready = sent \o e.ready
  BY <1>1, <1>2
<1> QED BY <1>1, <1>3, Zenon DEF InBalance

(* push_sample, with the packet it returns, keeps the balance.             *)
LEMMA PushBalances ==
  ASSUME LedgerInv, NEW sample \in Sample, PushSample(sample)
  PROVE  InBalance(emitted, encoder)'
<1> DEFINE after == Buffered(encoder, sample)
<1>1. /\ Between(encoder) /\ encoder.status = "ok" /\ emitted \in Seq(StreamPacket)
      /\ InBalance(emitted, encoder)
  BY DEF LedgerInv, EncoderInv, PushSample, Running
<1>2. /\ after.status = "ok"
      /\ \/ after.ready = <<>> /\ encoder' = after /\ emitted' = emitted
         \/ /\ after.ready # <<>>
            /\ encoder' = [after EXCEPT !.ready = Tail(@)]
            /\ emitted' = Append(emitted, Head(after.ready))
  BY DEF PushSample
<1>3. after.status # "ids exhausted"
  BY <1>2
<1>4. Sound(after) /\ (Len(after.ready) = 0 \/ Len(after.ready) = 1)
  BY <1>1, <1>3, BufferedSound, Zenon
<1>5. InBalance(emitted, after)
  BY <1>1, <1>3, BufferedBalances
<1> HIDE DEF after
<1>6. after \in Encoder /\ after.ready \in Seq(StreamPacket)
  BY <1>4, EncoderFields DEF Sound
<1>7. CASE after.ready = <<>>
  BY <1>2, <1>5, <1>7
<1>8. CASE after.ready # <<>>
  <2>1. Len(after.ready) = 1
    BY <1>4, <1>6, <1>8
  <2>2. Tail(after.ready) = <<>> /\ Head(after.ready) \in StreamPacket
    BY <1>6, <2>1, SingletonSequence, Zenon
  <2>3. encoder' = [after EXCEPT !.ready = <<>>]
    BY <1>2, <1>6, <1>8, <2>2 DEF Encoder
  <2>4. after.ready = <<Head(after.ready)>>
    BY <1>6, <2>1
  <2>5. emitted' = emitted \o after.ready
    BY <1>1, <1>2, <1>8, <2>2, <2>4, AppendIsConcat
  <2> QED BY <1>1, <1>5, <1>6, <2>3, <2>5, ReturnBalances
<1> QED BY <1>7, <1>8

(* finish, with the packets it returns, keeps the balance.                 *)
LEMMA FinishBalances ==
  ASSUME LedgerInv, Finish
  PROVE  InBalance(emitted, encoder)'
<1> DEFINE after == Drained(encoder)
<1>1. /\ Between(encoder) /\ encoder.status = "ok" /\ emitted \in Seq(StreamPacket)
      /\ InBalance(emitted, encoder)
  BY DEF LedgerInv, EncoderInv, Finish, Running
<1>2. /\ after.status = "ok"
      /\ encoder' = [after EXCEPT !.ready = <<>>]
      /\ emitted' = emitted \o after.ready
  BY DEF Finish
<1>3. after.status # "ids exhausted"
  BY <1>2
<1>4. Sound(after)
  BY <1>1, <1>3, DrainedSound, Zenon
<1>5. InBalance(emitted, after)
  BY <1>1, <1>3, DrainedBalances
<1> HIDE DEF after
<1>6. after \in Encoder
  BY <1>4 DEF Sound
<1> QED BY <1>1, <1>2, <1>5, <1>6, ReturnBalances

(* A call that fails changes nothing but the status.                       *)
LEMMA FailureBalances ==
  ASSUME LedgerInv, NEW status, encoder' = [encoder EXCEPT !.status = status],
         UNCHANGED emitted
  PROVE  InBalance(emitted, encoder)'
<1>1. encoder \in Encoder /\ InBalance(emitted, encoder)
  BY DEF LedgerInv, EncoderInv, Between, Sound
<1>2. /\ encoder'.dictionary = encoder.dictionary /\ encoder'.pending = encoder.pending
      /\ encoder'.ready = encoder.ready
      /\ encoder'.current_split_chunks = encoder.current_split_chunks
  BY <1>1 DEF Encoder
<1>3. InBalance(emitted, encoder')
  BY <1>1, <1>2, BalanceElsewhere
<1> QED BY <1>3

(* Every step of the encoder keeps the balance.                            *)
LEMMA NextBalances == LedgerInv /\ [EncoderNext]_encoderVars => LedgerInv'
<1> SUFFICES ASSUME LedgerInv, [EncoderNext]_encoderVars PROVE LedgerInv'
  OBVIOUS
<1>1. EncoderInv'
  BY NextPreserves DEF LedgerInv
<1>2. ASSUME NEW sample \in Sample, PushSample(sample) PROVE InBalance(emitted, encoder)'
  BY <1>2, PushBalances
<1>3. ASSUME NEW sample \in Sample, PushFails(sample) PROVE InBalance(emitted, encoder)'
  BY <1>3, FailureBalances DEF PushFails
<1>4. ASSUME Finish PROVE InBalance(emitted, encoder)'
  BY <1>4, FinishBalances
<1>5. ASSUME FinishFails PROVE InBalance(emitted, encoder)'
  BY <1>5, FailureBalances DEF FinishFails
<1>6. ASSUME UNCHANGED encoderVars PROVE InBalance(emitted, encoder)'
  BY <1>6 DEF encoderVars, LedgerInv
<1>7. InBalance(emitted, encoder)'
  BY <1>2, <1>3, <1>4, <1>5, <1>6 DEF EncoderNext
<1> QED BY <1>1, <1>7 DEF LedgerInv

(* The books of the encoder are in balance in every reachable state.       *)
THEOREM BooksBalance == EncoderSpec => []LedgerInv
<1>1. EncoderInit => LedgerInv
  BY InitEstablishes, InitBalances DEF LedgerInv
<1>2. LedgerInv /\ [EncoderNext]_encoderVars => LedgerInv'
  BY NextBalances
<1> QED BY <1>1, <1>2, PTL DEF EncoderSpec

----------------------------------------------------------------------------
(* What the ledger says of the packets.                                    *)

(* BasesBefore meets its own defining equation.                            *)
LEMMA BasesBeforeRecursive ==
  \A i \in Nat : BasesBefore[i] =
    IF i <= 1 THEN 0 ELSE BasesBefore[i - 1] + emitted[i - 1].new_base_count
<1> DEFINE counts == [j \in Nat |-> emitted[j].new_base_count]
<1>1. PICK f : f = [i \in Nat |-> IF i <= 1 THEN 0 ELSE f[i - 1] + counts[i - 1]]
  BY TotalsRecursive
<1>2. f = [i \in Nat |-> IF i <= 1 THEN 0 ELSE f[i - 1] + emitted[i - 1].new_base_count]
  <2>1. \A i \in Nat : f[i] = IF i <= 1 THEN 0 ELSE f[i - 1] + emitted[i - 1].new_base_count
    BY <1>1
  <2>2. f = [i \in Nat |-> f[i]]
    BY <1>1
  <2> QED BY <2>1, <2>2
<1>3. BasesBefore = [i \in Nat |-> IF i <= 1 THEN 0
                                   ELSE BasesBefore[i - 1] + emitted[i - 1].new_base_count]
  BY <1>2 DEF BasesBefore
<1> HIDE DEF counts
<1> QED BY <1>3

(* ChunksBefore meets its own defining equation.                           *)
LEMMA ChunksBeforeRecursive ==
  \A i \in Nat : ChunksBefore[i] =
    IF i <= 1 THEN 0 ELSE ChunksBefore[i - 1] + emitted[i - 1].chunk_count
<1> DEFINE counts == [j \in Nat |-> emitted[j].chunk_count]
<1>1. PICK f : f = [i \in Nat |-> IF i <= 1 THEN 0 ELSE f[i - 1] + counts[i - 1]]
  BY TotalsRecursive
<1>2. f = [i \in Nat |-> IF i <= 1 THEN 0 ELSE f[i - 1] + emitted[i - 1].chunk_count]
  <2>1. \A i \in Nat : f[i] = IF i <= 1 THEN 0 ELSE f[i - 1] + emitted[i - 1].chunk_count
    BY <1>1
  <2>2. f = [i \in Nat |-> f[i]]
    BY <1>1
  <2> QED BY <2>1, <2>2
<1>3. ChunksBefore = [i \in Nat |-> IF i <= 1 THEN 0
                                    ELSE ChunksBefore[i - 1] + emitted[i - 1].chunk_count]
  BY <1>2 DEF ChunksBefore
<1> HIDE DEF counts
<1> QED BY <1>3

(* The two totals are those of any balance of the packets.                 *)
LEMMA TotalsAreBalances ==
  ASSUME NEW b, NEW c, Balances(emitted, b, c), emitted \in Seq(StreamPacket),
         NEW i \in 1..(Len(emitted) + 1)
  PROVE  BasesBefore[i] = b[i] /\ ChunksBefore[i] = c[i]
<1> DEFINE n == Len(emitted)
           Bad == {k \in Nat : k \in 1..(n + 1)
                               /\ ~ (BasesBefore[k] = b[k] /\ ChunksBefore[k] = c[k])}
<1>1. n \in Nat
  OBVIOUS
<1>2. SUFFICES ASSUME Bad # {} PROVE FALSE
  BY <1>1
<1>3. PICK k \in Bad : \A j \in Bad : k <= j
  <2>1. Bad \subseteq Nat
    OBVIOUS
  <2> QED BY <1>2, <2>1, LeastElement
<1>4. k # 1
  BY BasesBeforeRecursive, ChunksBeforeRecursive DEF Balances
<1>5. k - 1 \in 1..n /\ k - 1 \notin Bad /\ k - 1 \in 1..(n + 1) /\ (k - 1) + 1 = k
  BY <1>1, <1>3, <1>4
<1>6. BasesBefore[k - 1] = b[k - 1] /\ ChunksBefore[k - 1] = c[k - 1]
  BY <1>5
<1>7. /\ b[k] = b[k - 1] + emitted[k - 1].new_base_count
      /\ c[k] = c[k - 1] + emitted[k - 1].chunk_count
  BY <1>5 DEF Balances
<1>8. /\ BasesBefore[k] = BasesBefore[k - 1] + emitted[k - 1].new_base_count
      /\ ChunksBefore[k] = ChunksBefore[k - 1] + emitted[k - 1].chunk_count
  <2>1. k \in Nat /\ ~ (k <= 1)
    BY <1>4
  <2> QED BY <2>1, BasesBeforeRecursive, ChunksBeforeRecursive
<1> QED BY <1>6, <1>7, <1>8

(* In balance, every packet tiles its split and every base has its ID.     *)
LEMMA BooksSayIt ==
  LedgerInv => PacketsTileSplits /\ OneIdPerBase
<1> SUFFICES ASSUME LedgerInv PROVE PacketsTileSplits /\ OneIdPerBase
  OBVIOUS
<1>1. /\ emitted \in Seq(StreamPacket) /\ Len(emitted) \in Nat
      /\ encoder.ready = <<>> /\ encoder \in Encoder
  <2>1. emitted \in Seq(StreamPacket) /\ encoder.ready = <<>> /\ encoder \in Encoder
    BY Zenon DEF LedgerInv, EncoderInv, Between, Sound
  <2> QED BY <2>1, LenProperties
<1>2. emitted \o encoder.ready = emitted
  BY <1>1, ConcatEmptySeq
<1>3. PICK chunks \in Nat :
        /\ Len(encoder.pending.new_bases) <= encoder.dictionary.next_id
        /\ Ledger(emitted, encoder.dictionary.next_id - Len(encoder.pending.new_bases), chunks)
  BY <1>2 DEF LedgerInv, InBalance
<1>4. PICK b, c :
        /\ Balances(emitted, b, c)
        /\ b[Len(emitted) + 1]
             = encoder.dictionary.next_id - Len(encoder.pending.new_bases)
  BY <1>3 DEF Ledger
<1>5. PacketsTileSplits
  <2> SUFFICES ASSUME NEW i \in 1..Len(emitted) PROVE Tiles(emitted[i], ChunksBefore[i])
    BY DEF PacketsTileSplits, Tiles
  <2>1. i \in 1..(Len(emitted) + 1)
    BY <1>1
  <2>2. ChunksBefore[i] = c[i]
    BY <1>1, <1>4, <2>1, TotalsAreBalances
  <2> QED BY <1>4, <2>2 DEF Balances
<1>6. OneIdPerBase
  <2>1. Len(emitted) + 1 \in 1..(Len(emitted) + 1)
    BY <1>1
  <2>2. BasesBefore[Len(emitted) + 1]
          = encoder.dictionary.next_id - Len(encoder.pending.new_bases)
    BY <1>1, <1>4, <2>1, TotalsAreBalances
  <2>3. /\ encoder.dictionary.next_id \in Nat /\ encoder.dictionary.next_id <= MaxId
        /\ Len(encoder.pending.new_bases) \in Nat
    <3>1. encoder.pending.new_bases \in Seq(PackedBase)
      BY <1>1, EncoderFields
    <3> QED BY <1>1, <3>1, EncoderFields
  <2>4. ASSUME NEW m \in Nat, NEW l \in Nat PROVE (m - l) + l = m
    OBVIOUS
  <2> QED BY <2>2, <2>3, <2>4 DEF OneIdPerBase
<1> QED BY <1>5, <1>6

(* A packet carries parameters exactly if it begins a split, and reaches   *)
(* no further than its split, in every configuration and for every stream. *)
THEOREM PacketsAlwaysTile == EncoderSpec => []PacketsTileSplits
BY BooksBalance, BooksSayIt, PTL

(* Every ID stands for exactly one base that was sent or is pending, and   *)
(* IDs stay within their width, for every cap, the cap of zero included.   *)
THEOREM EveryIdHasItsBase == EncoderSpec => []OneIdPerBase
BY BooksBalance, BooksSayIt, PTL

----------------------------------------------------------------------------
(* What the encoder's packets mean: a receiver that has had the packets    *)
(* before one, and no others, finds in it the bases and the chunks that    *)
(* the encoder put there.                                                  *)
(*                                                                         *)
(* B is the sequence of all bases assigned an ID so far, C that of all     *)
(* chunks encoded so far; a row says how much of them the packets before a *)
(* place carry, and which parameters a receiver has there.                 *)

(* The payload of a packet, field by field.                                *)

FieldsFit(pending, l_id, l_d) ==
  \A i \in 1..Len(pending.pairs) :
     /\ pending.pairs[i].base_id < Pow2[l_id]
     /\ pending.pairs[i].deviation_bits \in BitString(l_d)

PairBits(pending, l_id) ==
  [i \in 1..Len(pending.pairs) |->
     WriteValue(pending.pairs[i].base_id, l_id) \o pending.pairs[i].deviation_bits]

(* The fields of the pairs, all of one width.                              *)
LEMMA PairBitsType ==
  ASSUME NEW pending \in Pending, NEW l_id \in Nat, NEW l_d \in 0..ChunkBitLen,
         FieldsFit(pending, l_id, l_d)
  PROVE  /\ PairBits(pending, l_id) \in Seq([1..(l_id + l_d) -> Bit])
         /\ Len(PairBits(pending, l_id)) = Len(pending.pairs)
         /\ Len(pending.pairs) \in Nat
<1>1. pending.pairs \in Seq(Pair)
  BY DEF Pending
<1>2. Len(pending.pairs) \in Nat
  BY <1>1
<1>3. l_d \in Nat
  BY Geometry
<1>4. ASSUME NEW i \in 1..Len(pending.pairs)
      PROVE  WriteValue(pending.pairs[i].base_id, l_id) \o pending.pairs[i].deviation_bits
               \in [1..(l_id + l_d) -> Bit]
  <2>1. pending.pairs[i].base_id \in Nat /\ pending.pairs[i].deviation_bits \in BitString(l_d)
    <3>1. pending.pairs[i] \in Pair
      BY <1>1
    <3>2. pending.pairs[i].base_id \in Nat
      BY <3>1 DEF Pair
    <3> QED BY <3>2 DEF FieldsFit
  <2>2. WriteValue(pending.pairs[i].base_id, l_id) \in BitString(l_id)
    BY <2>1, WriteValueType
  <2> QED BY <1>3, <2>1, <2>2, ConcatOfBits DEF BitString
<1>5. PairBits(pending, l_id) \in [1..Len(pending.pairs) -> [1..(l_id + l_d) -> Bit]]
  BY <1>4 DEF PairBits
<1> QED BY <1>2, <1>5, FunctionIsSequence

(* The bases and the pairs are where a receiver looks for them, and the    *)
(* last byte of the payload is needed.                                     *)
LEMMA PayloadLayout ==
  ASSUME NEW pending \in Pending, NEW l_id \in Nat, NEW l_d \in 0..ChunkBitLen,
         FieldsFit(pending, l_id, l_d)
  PROVE  LET payload == Payload(pending, l_id, l_d)
             bases == Len(pending.new_bases)
             pairs == Len(pending.pairs)
             need == bases * ChunkBitLen + pairs * (l_id + l_d)
         IN  /\ payload \in Seq(Bit)
             /\ bases * ChunkBitLen \in Nat /\ pairs * (l_id + l_d) \in Nat
             /\ Cut(payload, 0, bases, ChunkBitLen) = pending.new_bases
             /\ Cut(payload, bases * ChunkBitLen, pairs, l_id + l_d)
                  = PairBits(pending, l_id)
             /\ need <= Len(payload)
             /\ \E bytes \in Nat : Len(payload) = 8 * bytes /\ 8 * bytes < need + 8
<1> DEFINE new_bases == pending.new_bases
           pair_bits == PairBits(pending, l_id)
           width == l_id + l_d
           before == Join(new_bases, ChunkBitLen)
           behind == Join(pair_bits, width)
           bits == before \o behind
           start == Len(new_bases) * ChunkBitLen
           rest == Len(pair_bits) * width
           payload == Payload(pending, l_id, l_d)
<1>1. /\ pair_bits \in Seq([1..width -> Bit]) /\ Len(pair_bits) = Len(pending.pairs)
      /\ new_bases \in Seq([1..ChunkBitLen -> Bit])
      /\ ChunkBitLen \in Nat /\ width \in Nat
  <2>1. pending.new_bases \in Seq(PackedBase)
    BY DEF Pending
  <2>2. pair_bits \in Seq([1..width -> Bit]) /\ Len(pair_bits) = Len(pending.pairs)
    BY PairBitsType, Zenon
  <2>3. ChunkBitLen \in Nat /\ width \in Nat
    BY Geometry
  <2> QED BY <2>1, <2>2, <2>3, Zenon DEF PackedBase, BitString
<1>2. payload = PadToByte(bits)
  BY DEF Payload, PairBits
<1> HIDE DEF pair_bits, new_bases, width
<1>3. /\ before \in Seq(Bit) /\ Len(before) = start /\ start \in Nat
      /\ behind \in Seq(Bit) /\ Len(behind) = rest /\ rest \in Nat
  BY <1>1, JoinOfSeq
<1> HIDE DEF before, behind, start, rest
<1>4. /\ bits \in Seq(Bit) /\ Len(bits) = start + rest
      /\ \A a \in 1..start : bits[a] = before[a]
      /\ \A a \in 1..rest : bits[start + a] = behind[a]
  BY <1>3, ConcatPlaces
<1> HIDE DEF bits, payload
<1>5. /\ payload \in Seq(Bit)
      /\ \E bytes \in Nat : Len(payload) = 8 * bytes /\ 8 * bytes < (start + rest) + 8
      /\ start + rest <= Len(payload)
      /\ \A a \in 1..(start + rest) : payload[a] = bits[a]
  BY <1>2, <1>4, PadToByteLen
<1>6. Cut(payload, 0, Len(new_bases), ChunkBitLen) = new_bases
  <2>1. ASSUME NEW a \in 1..start PROVE payload[0 + a] = before[a]
    <3>1. 0 + a = a /\ a \in 1..(start + rest)
      BY <1>3
    <3> QED BY <1>4, <1>5, <3>1
  <2>2. \A a \in 1..(Len(new_bases) * ChunkBitLen) :
           payload[0 + a] = Join(new_bases, ChunkBitLen)[a]
    BY <2>1 DEF start, before
  <2> QED BY <1>1, <2>2, CutInside
<1>7. Cut(payload, start, Len(pair_bits), width) = pair_bits
  <2>1. ASSUME NEW a \in 1..rest PROVE payload[start + a] = behind[a]
    <3>1. start + a \in 1..(start + rest)
      BY <1>3
    <3> QED BY <1>4, <1>5, <3>1
  <2>2. \A a \in 1..(Len(pair_bits) * width) :
           payload[start + a] = Join(pair_bits, width)[a]
    BY <2>1 DEF rest, behind
  <2>3. width \in Nat /\ pair_bits \in Seq([1..width -> Bit]) /\ start \in Nat
    BY <1>1, <1>3
  <2> QED BY ONLY <2>2, <2>3, CutInside
<1> QED BY <1>1, <1>3, <1>5, <1>6, <1>7 DEF payload, start, rest, new_bases, pair_bits, width

(* A pair is read back.                                                    *)
ReadsAs(bits, base_id, l_id, deviation_bits, l_d) ==
  /\ ReadValue(SubSeq(bits, 1, l_id)) = base_id
  /\ SubSeq(bits, l_id + 1, l_id + l_d) = deviation_bits

(* A pair whose ID fits is read back from its field.                       *)
LEMMA PairReadsBack ==
  ASSUME NEW base_id \in Nat, NEW l_id \in Nat, base_id < Pow2[l_id],
         NEW l_d \in Nat, NEW deviation_bits \in BitString(l_d)
  PROVE  ReadsAs(WriteValue(base_id, l_id) \o deviation_bits, base_id, l_id,
                 deviation_bits, l_d)
<1> DEFINE id_bits == WriteValue(base_id, l_id)
           bits == id_bits \o deviation_bits
<1>1. id_bits \in BitString(l_id)
  BY WriteValueType
<1>2. /\ id_bits \in Seq(Bit) /\ Len(id_bits) = l_id
      /\ deviation_bits \in Seq(Bit) /\ Len(deviation_bits) = l_d
  BY <1>1, FunctionIsSequence DEF BitString
<1> HIDE DEF id_bits
<1>3. SubSeq(bits, 1, l_id) = id_bits
  BY <1>2
<1>4. SubSeq(bits, l_id + 1, l_id + l_d) = deviation_bits
  BY <1>2
<1>5. ReadValue(id_bits) = base_id
  BY ReadOfWrite DEF id_bits
<1> QED BY <1>3, <1>4, <1>5 DEF id_bits, ReadsAs

----------------------------------------------------------------------------
(* What packets mean.                                                      *)

(* New bases and pairs, written with these widths, carry on B and C after  *)
(* so many bases and chunks.                                               *)
Means(pending, l_id, l_d, bases, chunks, B, C) ==
  /\ bases + Len(pending.new_bases) <= Len(B)
  /\ chunks + Len(pending.pairs) <= Len(C)
  /\ \A i \in 1..Len(pending.new_bases) : B[bases + i] = pending.new_bases[i]
  /\ \A i \in 1..Len(pending.pairs) :
       /\ pending.pairs[i].base_id < bases + Len(pending.new_bases)
       /\ Restores(B, pending.pairs[i], l_d, C[chunks + i])
  /\ FieldsFit(pending, l_id, l_d)

(* What has been told before a packet: so many bases, so many chunks, and  *)
(* the parameters of the packet before.                                    *)
Row == [bases : Nat, chunks : Nat, parameters : Seq(Nat)]

FirstRow == [bases |-> 0, chunks |-> 0, parameters |-> <<>>]

RowAfter(row, pending, l_id, l_d) ==
  [bases |-> row.bases + Len(pending.new_bases),
   chunks |-> row.chunks + Len(pending.pairs),
   parameters |-> <<l_id, l_d>>]

Carries(packet, row, after, B, C) ==
  \E pending \in Pending, l_id \in Nat, l_d \in 0..ChunkBitLen :
    /\ packet = Packet(pending, l_id, l_d)
    /\ Means(pending, l_id, l_d, row.bases, row.chunks, B, C)
    /\ after = RowAfter(row, pending, l_id, l_d)
    /\ pending.parameters_present \/ row.parameters = <<l_id, l_d>>
    /\ pending.pairs # <<>>

Story(packets, rows, B, C) ==
  /\ rows \in Seq(Row) /\ Len(rows) = Len(packets) + 1
  /\ rows[1] = FirstRow
  /\ \A k \in 1..Len(packets) : Carries(packets[k], rows[k], rows[k + 1], B, C)

(* The struct goes on where the packets end.                               *)
GoesOn(e, row, B, C) ==
  /\ Means(e.pending, e.l_id, e.l_d, row.bases, row.chunks, B, C)
  /\ Len(B) = row.bases + Len(e.pending.new_bases)
  /\ Len(C) = row.chunks + Len(e.pending.pairs)
  /\ Len(B) = e.dictionary.next_id
  /\ ActiveAre(e.dictionary, B)
  /\ e.pending.parameters_present \/ row.parameters = <<e.l_id, e.l_d>>

Tells(sent, e, rows, B, C) ==
  LET packets == sent \o e.ready
  IN  /\ B \in Seq(PackedBase) /\ C \in Seq(Chunk)
      /\ Story(packets, rows, B, C)
      /\ GoesOn(e, rows[Len(rows)], B, C)
      /\ \A k \in 2..Len(rows) : rows[k].parameters[1] <= e.l_id

(* What was told stays told.                                               *)
LEMMA MeansContinues ==
  ASSUME NEW pending \in Pending, NEW l_id, NEW l_d,
         NEW bases \in Nat, NEW chunks \in Nat,
         NEW B \in Seq(PackedBase), NEW C \in Seq(Chunk),
         NEW B2 \in Seq(PackedBase), NEW C2 \in Seq(Chunk),
         Continues(B, B2), Continues(C, C2),
         Means(pending, l_id, l_d, bases, chunks, B, C)
  PROVE  Means(pending, l_id, l_d, bases, chunks, B2, C2)
<1> DEFINE n == Len(pending.new_bases)
           m == Len(pending.pairs)
<1>1. /\ n \in Nat /\ m \in Nat
      /\ \A i \in 1..m : pending.pairs[i].base_id \in Nat
  <2>1. pending.new_bases \in Seq(PackedBase) /\ pending.pairs \in Seq(Pair)
    BY DEF Pending
  <2>2. \A i \in 1..m : pending.pairs[i] \in Pair
    BY <2>1
  <2> QED BY ONLY <2>1, <2>2 DEF Pair
<1>2. /\ Len(B) \in Nat /\ Len(B2) \in Nat /\ Len(C) \in Nat /\ Len(C2) \in Nat
      /\ Len(B) <= Len(B2) /\ \A i \in 1..Len(B) : B2[i] = B[i]
      /\ Len(C) <= Len(C2) /\ \A i \in 1..Len(C) : C2[i] = C[i]
  BY DEF Continues
<1>3. /\ bases + n <= Len(B) /\ chunks + m <= Len(C)
      /\ \A i \in 1..n : B[bases + i] = pending.new_bases[i]
      /\ \A i \in 1..m : /\ pending.pairs[i].base_id < bases + n
                         /\ Restores(B, pending.pairs[i], l_d, C[chunks + i])
      /\ FieldsFit(pending, l_id, l_d)
  BY DEF Means
<1> HIDE DEF n, m
<1>4. bases + n <= Len(B2) /\ chunks + m <= Len(C2)
  BY <1>1, <1>2, <1>3
<1>5. ASSUME NEW i \in 1..n PROVE B2[bases + i] = pending.new_bases[i]
  <2>1. bases + i \in 1..Len(B)
    BY <1>1, <1>2, <1>3
  <2> QED BY <1>2, <1>3, <2>1
<1>6. ASSUME NEW i \in 1..m
      PROVE  /\ pending.pairs[i].base_id < bases + n
             /\ Restores(B2, pending.pairs[i], l_d, C2[chunks + i])
  <2> DEFINE id == pending.pairs[i].base_id
  <2>1. chunks + i \in 1..Len(C) /\ id + 1 \in 1..Len(B)
    <3>1. id \in Nat /\ id < bases + n
      BY <1>1, <1>3
    <3> HIDE DEF id
    <3>2. chunks + i \in 1..Len(C)
      BY <1>1, <1>2, <1>3
    <3> QED BY <1>1, <1>2, <1>3, <3>1, <3>2
  <2>2. C2[chunks + i] = C[chunks + i]
        /\ B2[pending.pairs[i].base_id + 1] = B[pending.pairs[i].base_id + 1]
    BY <1>2, <2>1
  <2> QED BY <1>3, <2>2 DEF Restores
<1> QED BY <1>3, <1>4, <1>5, <1>6 DEF Means, n, m

(* Packets go on meaning what they meant when more bases and chunks are    *)
(* told.                                                                   *)
LEMMA StoryContinues ==
  ASSUME NEW packets \in Seq(StreamPacket), NEW rows,
         NEW B \in Seq(PackedBase), NEW C \in Seq(Chunk),
         NEW B2 \in Seq(PackedBase), NEW C2 \in Seq(Chunk),
         Continues(B, B2), Continues(C, C2),
         Story(packets, rows, B, C)
  PROVE  Story(packets, rows, B2, C2)
<1>1. ASSUME NEW k \in 1..Len(packets)
      PROVE  Carries(packets[k], rows[k], rows[k + 1], B2, C2)
  <2>1. PICK pending \in Pending, l_id \in Nat, l_d \in 0..ChunkBitLen :
          /\ packets[k] = Packet(pending, l_id, l_d)
          /\ Means(pending, l_id, l_d, rows[k].bases, rows[k].chunks, B, C)
          /\ rows[k + 1] = RowAfter(rows[k], pending, l_id, l_d)
          /\ pending.parameters_present \/ rows[k].parameters = <<l_id, l_d>>
          /\ pending.pairs # <<>>
    BY DEF Story, Carries
  <2>2. rows[k].bases \in Nat /\ rows[k].chunks \in Nat
    <3>1. rows \in Seq(Row) /\ Len(rows) = Len(packets) + 1 /\ Len(packets) \in Nat
      BY DEF Story
    <3>2. rows[k] \in Row
      BY <3>1
    <3> QED BY <3>2 DEF Row
  <2>3. Means(pending, l_id, l_d, rows[k].bases, rows[k].chunks, B2, C2)
    BY <2>1, <2>2, MeansContinues
  <2> QED BY <2>1, <2>3, Zenon DEF Carries
<1> QED BY <1>1 DEF Story

(* One more packet.                                                        *)
LEMMA StoryGrows ==
  ASSUME NEW packets \in Seq(StreamPacket), NEW rows, NEW B, NEW C,
         Story(packets, rows, B, C),
         NEW packet \in StreamPacket, NEW row \in Row,
         Carries(packet, rows[Len(rows)], row, B, C)
  PROVE  /\ Story(Append(packets, packet), Append(rows, row), B, C)
         /\ Continues(rows, Append(rows, row))
         /\ Len(Append(rows, row)) = Len(rows) + 1
         /\ Append(rows, row)[Len(rows) + 1] = row
<1> DEFINE n == Len(packets)
           longer == Append(packets, packet)
           rows2 == Append(rows, row)
<1>1. /\ rows \in Seq(Row) /\ Len(rows) = n + 1 /\ n \in Nat /\ rows[1] = FirstRow
      /\ \A k \in 1..n : Carries(packets[k], rows[k], rows[k + 1], B, C)
  BY DEF Story
<1>2. /\ Len(longer) = n + 1 /\ longer[n + 1] = packet
      /\ \A k \in 1..n : longer[k] = packets[k]
  BY AppendProperties
<1>3. /\ rows2 \in Seq(Row) /\ Len(rows2) = (n + 1) + 1 /\ rows2[(n + 1) + 1] = row
      /\ \A k \in 1..(n + 1) : rows2[k] = rows[k]
  BY <1>1, AppendProperties
<1> HIDE DEF n, longer, rows2
<1>4. ASSUME NEW k \in 1..(n + 1)
      PROVE  Carries(longer[k], rows2[k], rows2[k + 1], B, C)
  <2>1. CASE k = n + 1
    BY <1>1, <1>2, <1>3, <2>1
  <2>2. CASE k # n + 1
    <3>1. k \in 1..n /\ k + 1 \in 1..(n + 1)
      BY <1>1, <2>2
    <3> QED BY <1>1, <1>2, <1>3, <3>1
  <2> QED BY <2>1, <2>2
<1>5. rows2[1] = FirstRow
  BY <1>1, <1>3
<1>6. Story(longer, rows2, B, C)
  BY <1>2, <1>3, <1>4, <1>5 DEF Story
<1>7. Continues(rows, rows2)
  BY <1>1, <1>3 DEF Continues
<1> QED BY <1>1, <1>3, <1>6, <1>7 DEF longer, rows2

(* Every row is within the bases and the chunks there are.                 *)
LEMMA RowsOfStory ==
  ASSUME NEW packets \in Seq(StreamPacket), NEW rows,
         NEW B \in Seq(PackedBase), NEW C \in Seq(Chunk), Story(packets, rows, B, C)
  PROVE  /\ Len(packets) \in Nat /\ Len(rows) = Len(packets) + 1
         /\ \A k \in 1..Len(rows) :
              /\ rows[k].bases \in Nat /\ rows[k].bases <= Len(B)
              /\ rows[k].chunks \in Nat /\ rows[k].chunks <= Len(C)
         /\ \A k \in 2..Len(rows) : rows[k].parameters[1] \in Nat
<1>1. /\ Len(packets) \in Nat /\ rows \in Seq(Row) /\ Len(rows) = Len(packets) + 1
      /\ rows[1] = FirstRow
      /\ \A k \in 1..Len(packets) : Carries(packets[k], rows[k], rows[k + 1], B, C)
      /\ Len(B) \in Nat /\ Len(C) \in Nat
  BY DEF Story
<1>2. ASSUME NEW k \in 1..Len(rows) PROVE rows[k].bases \in Nat /\ rows[k].chunks \in Nat
  <2>1. rows[k] \in Row
    BY <1>1
  <2> QED BY <2>1 DEF Row
<1>3. rows[1].bases = 0 /\ rows[1].chunks = 0
  BY <1>1 DEF FirstRow
<1>4. ASSUME NEW k \in 2..Len(rows)
      PROVE  /\ rows[k].bases <= Len(B) /\ rows[k].chunks <= Len(C)
             /\ rows[k].parameters[1] \in Nat
  <2> DEFINE j == k - 1
  <2>1. j \in 1..Len(packets) /\ j \in 1..Len(rows) /\ j + 1 = k
    BY <1>1
  <2> HIDE DEF j
  <2>2. Carries(packets[j], rows[j], rows[k], B, C)
    BY <1>1, <2>1
  <2>3. PICK pending \in Pending, l_id \in Nat, l_d \in 0..ChunkBitLen :
          /\ Means(pending, l_id, l_d, rows[j].bases, rows[j].chunks, B, C)
          /\ rows[k] = RowAfter(rows[j], pending, l_id, l_d)
    BY <2>2 DEF Carries
  <2>4. /\ rows[k].bases = rows[j].bases + Len(pending.new_bases)
        /\ rows[k].chunks = rows[j].chunks + Len(pending.pairs)
        /\ rows[k].parameters = <<l_id, l_d>>
    BY <2>3 DEF RowAfter
  <2>5. /\ rows[j].bases + Len(pending.new_bases) <= Len(B)
        /\ rows[j].chunks + Len(pending.pairs) <= Len(C)
    BY <2>3 DEF Means
  <2>6. rows[k].parameters[1] = l_id
    BY <2>4
  <2> QED BY <2>4, <2>5, <2>6
<1>5. ASSUME NEW k \in 1..Len(rows) PROVE rows[k].bases <= Len(B) /\ rows[k].chunks <= Len(C)
  <2>1. CASE k = 1
    BY <1>1, <1>3, <2>1
  <2>2. CASE k # 1
    <3>1. k \in 2..Len(rows)
      BY <1>1, <2>2
    <3> QED BY <1>4, <3>1
  <2> QED BY <2>1, <2>2
<1> QED BY <1>1, <1>2, <1>4, <1>5

----------------------------------------------------------------------------
(* The encoder's methods go on telling.                                    *)

(* Everything told so far, and perhaps more.                               *)
Continued(sent, f, rows, B, C) ==
  \E rows2, B2 : /\ Continues(rows, rows2) /\ Continues(B, B2)
                 /\ Tells(sent, f, rows2, B2, C)

(* Rows and bases are sequences.                                           *)
LEMMA TellsLengths ==
  ASSUME NEW sent, NEW e, NEW rows, NEW B, NEW C, Tells(sent, e, rows, B, C)
  PROVE  /\ Len(rows) \in Nat /\ Len(B) \in Nat /\ Len(C) \in Nat
         /\ B \in Seq(PackedBase) /\ C \in Seq(Chunk) /\ rows \in Seq(Row)
<1>1. B \in Seq(PackedBase) /\ C \in Seq(Chunk) /\ rows \in Seq(Row)
  BY Zenon DEF Tells, Story
<1> QED BY <1>1, LenProperties

(* Nothing more is more, ...                                               *)
LEMMA ContinuedByItself ==
  ASSUME NEW sent, NEW e, NEW rows, NEW B, NEW C, Tells(sent, e, rows, B, C)
  PROVE  Continued(sent, e, rows, B, C)
<1>1. Len(rows) \in Nat /\ Len(B) \in Nat
  BY TellsLengths
<1> QED BY <1>1, ContinuesItself, Zenon DEF Continued

(* ... and so is more of more.                                             *)
LEMMA ContinuedFurther ==
  ASSUME NEW sent, NEW f, NEW rows, NEW B, NEW C, NEW rows1, NEW B1,
         Len(rows) \in Nat, Len(B) \in Nat, Len(rows1) \in Nat, Len(B1) \in Nat,
         Continues(rows, rows1), Continues(B, B1), Continued(sent, f, rows1, B1, C)
  PROVE  Continued(sent, f, rows, B, C)
<1>1. PICK rows2, B2 : /\ Continues(rows1, rows2) /\ Continues(B1, B2)
                       /\ Tells(sent, f, rows2, B2, C)
  BY DEF Continued
<1>2. Len(rows2) \in Nat /\ Len(B2) \in Nat
  BY <1>1, TellsLengths, Zenon
<1>3. Continues(rows, rows2) /\ Continues(B, B2)
  BY <1>1, <1>2, ContinuesOn
<1> QED BY <1>1, <1>3, Zenon DEF Continued

(* Only these fields matter.                                               *)
LEMMA TellsElsewhere ==
  ASSUME NEW sent, NEW e, NEW f, NEW rows, NEW B, NEW C, Tells(sent, e, rows, B, C),
         f.dictionary = e.dictionary, f.pending = e.pending, f.ready = e.ready,
         f.l_id = e.l_id, f.l_d = e.l_d
  PROVE  Tells(sent, f, rows, B, C)
BY Zenon DEF Tells, GoesOn

(* With nothing pending, nothing is meant.                                 *)
LEMMA NothingIsMeant ==
  ASSUME NEW pending, pending.new_bases = <<>>, pending.pairs = <<>>,
         NEW l_id, NEW l_d, NEW bases \in Nat, NEW chunks \in Nat, NEW B, NEW C,
         bases <= Len(B), chunks <= Len(C)
  PROVE  Means(pending, l_id, l_d, bases, chunks, B, C)
BY DEF Means, FieldsFit

(* flush_pending: the next row, and nothing pending after it.              *)
LEMMA FlushMeans ==
  ASSUME NEW sent \in Seq(StreamPacket), NEW e, Sound(e),
         Len(e.pending.new_bases) <= NewBaseLimit,
         NEW rows, NEW B, NEW C, Tells(sent, e, rows, B, C)
  PROVE  Continued(sent, FlushPending(e), rows, B, C)
<1> DEFINE packet == Packet(e.pending, e.l_id, e.l_d)
           flushed == FlushPending(e)
           packets == sent \o e.ready
           last == rows[Len(rows)]
           row == RowAfter(last, e.pending, e.l_id, e.l_d)
           rows2 == Append(rows, row)
<1>1. CASE e.pending.pairs = <<>>
  BY <1>1, ContinuedByItself, Zenon DEF FlushPending
<1>2. CASE e.pending.pairs # <<>>
  <2>1. /\ e \in Encoder /\ PairsFit(e)
        /\ e.l_id \in Nat /\ e.l_d \in 0..ChunkBitLen /\ e.l_d \in Nat
        /\ e.ready \in Seq(StreamPacket) /\ e.pending \in Pending
        /\ e.pending.new_bases \in Seq(PackedBase) /\ e.pending.pairs \in Seq(Pair)
    BY EncoderFields, Geometry DEF Sound
  <2>2. Len(e.pending.new_bases) \in Nat /\ Len(e.pending.pairs) \in Nat
    BY <2>1
  <2>3. packet \in StreamPacket
    BY <2>1, PacketType
  <2> HIDE DEF packet
  <2>4. ~ (Len(e.pending.new_bases) > NewBaseLimit)
    BY <2>2, Constants
  <2>5. flushed = [e EXCEPT !.pending = EmptyPending, !.ready = Append(@, packet)]
    BY <1>2, <2>4 DEF FlushPending, packet
  <2> HIDE DEF flushed
  <2>6. /\ flushed.pending = EmptyPending
        /\ flushed.ready = Append(e.ready, packet)
        /\ flushed.dictionary = e.dictionary
        /\ flushed.l_id = e.l_id /\ flushed.l_d = e.l_d
    BY <2>1, <2>5 DEF Encoder
  <2>7. packets \in Seq(StreamPacket)
    BY <2>1, ConcatProperties
  <2>8. sent \o flushed.ready = Append(packets, packet)
    <3> DEFINE ready == e.ready
    <3>1. sent \in Seq(StreamPacket) /\ ready \in Seq(StreamPacket)
      BY <2>1
    <3> HIDE DEF ready
    <3>2. sent \o Append(ready, packet) = Append(sent \o ready, packet)
      BY <2>3, <3>1, AppendAtTheEnd
    <3> QED BY <2>6, <3>2 DEF ready
  <2>9. /\ Story(packets, rows, B, C) /\ GoesOn(e, last, B, C)
        /\ B \in Seq(PackedBase) /\ C \in Seq(Chunk)
        /\ \A k \in 2..Len(rows) : rows[k].parameters[1] <= e.l_id
    BY Zenon DEF Tells
  <2>10. /\ rows \in Seq(Row) /\ Len(rows) \in Nat \ {0} /\ last \in Row
         /\ last.bases \in Nat /\ last.chunks \in Nat
    <3>1. rows \in Seq(Row) /\ Len(rows) = Len(packets) + 1 /\ Len(packets) \in Nat
      BY <2>7, <2>9 DEF Story
    <3>2. last \in Row
      BY <3>1
    <3>3. last.bases \in Nat /\ last.chunks \in Nat
      BY <3>2 DEF Row
    <3> QED BY <3>1, <3>2, <3>3
  <2> HIDE DEF packets, last
  <2>11. /\ row \in Row /\ row.parameters = <<e.l_id, e.l_d>>
         /\ row.bases = last.bases + Len(e.pending.new_bases)
         /\ row.chunks = last.chunks + Len(e.pending.pairs)
    <3>1. /\ last.bases + Len(e.pending.new_bases) \in Nat
          /\ last.chunks + Len(e.pending.pairs) \in Nat
      BY <2>2, <2>10
    <3>2. <<e.l_id, e.l_d>> \in Seq(Nat)
      BY <2>1
    <3> QED BY <3>1, <3>2, Zenon DEF RowAfter, Row
  <2>12. Carries(packet, last, row, B, C)
    <3>1. /\ Means(e.pending, e.l_id, e.l_d, last.bases, last.chunks, B, C)
          /\ e.pending.parameters_present \/ last.parameters = <<e.l_id, e.l_d>>
      BY <2>9, Zenon DEF GoesOn
    <3> HIDE DEF row
    <3>2. packet = Packet(e.pending, e.l_id, e.l_d)
          /\ row = RowAfter(last, e.pending, e.l_id, e.l_d)
      BY DEF packet, row
    <3> QED BY <1>2, <2>1, <3>1, <3>2, Zenon DEF Carries
  <2> HIDE DEF row
  <2>13. /\ Story(Append(packets, packet), rows2, B, C)
         /\ Continues(rows, rows2) /\ Len(rows2) = Len(rows) + 1
         /\ rows2[Len(rows) + 1] = row
    BY <2>3, <2>7, <2>9, <2>11, <2>12, StoryGrows DEF last
  <2> HIDE DEF rows2
  <2>14. rows2[Len(rows2)] = row
    BY <2>13
  <2>15. GoesOn(flushed, row, B, C)
    <3>1. /\ flushed.pending.new_bases = <<>> /\ flushed.pending.pairs = <<>>
          /\ Len(flushed.pending.new_bases) = 0 /\ Len(flushed.pending.pairs) = 0
      BY <2>6 DEF EmptyPending
    <3>2. /\ Len(B) = last.bases + Len(e.pending.new_bases)
          /\ Len(C) = last.chunks + Len(e.pending.pairs)
          /\ Len(B) = e.dictionary.next_id /\ ActiveAre(e.dictionary, B)
      BY <2>9, Zenon DEF GoesOn
    <3>3. /\ row.bases \in Nat /\ row.chunks \in Nat
          /\ row.bases = Len(B) /\ row.chunks = Len(C)
          /\ Len(B) = row.bases + 0 /\ Len(C) = row.chunks + 0
          /\ row.bases <= Len(B) /\ row.chunks <= Len(C)
      BY <2>2, <2>10, <2>11, <3>2
    <3>4. Means(flushed.pending, flushed.l_id, flushed.l_d, row.bases, row.chunks, B, C)
      BY <3>1, <3>3, NothingIsMeant
    <3> QED BY <2>6, <2>11, <3>1, <3>2, <3>3, <3>4, Zenon DEF GoesOn
  <2>16. ASSUME NEW k \in 2..Len(rows2) PROVE rows2[k].parameters[1] <= flushed.l_id
    <3>1. CASE k = Len(rows) + 1
      <4>1. rows2[k].parameters = <<e.l_id, e.l_d>>
        BY <2>11, <2>13, <3>1
      <4> QED BY <2>1, <2>6, <4>1
    <3>2. CASE k # Len(rows) + 1
      <4>1. k \in 2..Len(rows) /\ k \in 1..Len(rows)
        BY <2>10, <2>13, <3>2
      <4>2. rows2[k] = rows[k]
        BY <2>13, <4>1 DEF Continues
      <4> QED BY <2>6, <2>9, <4>1, <4>2
    <3> QED BY <3>1, <3>2
  <2>17. Tells(sent, flushed, rows2, B, C)
    BY <2>8, <2>9, <2>13, <2>14, <2>15, <2>16, Zenon DEF Tells
  <2>18. Continues(B, B)
    BY TellsLengths, ContinuesItself
  <2>19. Continued(sent, flushed, rows, B, C)
    BY <2>13, <2>17, <2>18, Zenon DEF Continued
  <2> QED BY <2>19 DEF flushed
<1> QED BY <1>1, <1>2

(* update_parameters: nothing is pending, and what comes next brings the   *)
(* new parameters.                                                         *)
LEMMA UpdateMeans ==
  ASSUME NEW sent \in Seq(StreamPacket), NEW e, Sound(e), e.pending.pairs = <<>>,
         e.current_split_chunks = ChunksPerSplit,
         NEW rows, NEW B, NEW C, Tells(sent, e, rows, B, C)
  PROVE  Tells(sent, UpdateParameters(e), rows, B, C)
<1> DEFINE updated == UpdateParameters(e)
           pending == [e.pending EXCEPT !.parameters_present = TRUE]
           l_id == UpdateLId(e.dictionary.next_id, e.l_id)
           last == rows[Len(rows)]
<1>1. e \in Encoder /\ e.pending \in Pending /\ e.l_id \in Nat
  BY EncoderFields DEF Sound
<1>2. e.pending.new_bases = <<>>
  BY DEF Sound
<1>3. /\ pending.pairs = <<>> /\ pending.new_bases = <<>>
      /\ pending.parameters_present = TRUE
  BY <1>1, <1>2 DEF Pending
<1>4. updated = [e EXCEPT !.l_id = l_id,
                          !.l_d = UpdateLD(e.dictionary.next_id, e.old_base_count, e.l_d),
                          !.old_base_count = e.dictionary.next_id,
                          !.current_split_chunks = 0, !.pending = pending]
  BY <1>1 DEF UpdateParameters, Encoder
<1> HIDE DEF updated, pending
<1>5. l_id \in Nat /\ e.l_id <= l_id
  <2>1. l_id = e.l_id \/ l_id = e.l_id + 1
    BY DEF UpdateLId
  <2> HIDE DEF l_id
  <2> QED BY <1>1, <2>1
<1> HIDE DEF l_id
<1>6. /\ updated.pending = pending /\ updated.ready = e.ready
      /\ updated.dictionary = e.dictionary /\ updated.l_id = l_id
  BY <1>1, <1>4 DEF Encoder
<1>7. /\ Story(sent \o e.ready, rows, B, C) /\ GoesOn(e, last, B, C)
      /\ B \in Seq(PackedBase) /\ C \in Seq(Chunk)
      /\ \A k \in 2..Len(rows) : rows[k].parameters[1] <= e.l_id
  BY Zenon DEF Tells
<1>8. /\ Len(rows) \in Nat \ {0} /\ last.bases \in Nat /\ last.chunks \in Nat
      /\ last.bases <= Len(B) /\ last.chunks <= Len(C)
      /\ \A k \in 2..Len(rows) : rows[k].parameters[1] \in Nat
  <2> DEFINE packets == sent \o e.ready
  <2>1. packets \in Seq(StreamPacket)
    BY <1>1, EncoderFields, ConcatProperties
  <2>2. Story(packets, rows, B, C)
    BY <1>7
  <2> HIDE DEF packets
  <2>3. /\ Len(packets) \in Nat /\ Len(rows) = Len(packets) + 1
        /\ \A k \in 1..Len(rows) :
             /\ rows[k].bases \in Nat /\ rows[k].bases <= Len(B)
             /\ rows[k].chunks \in Nat /\ rows[k].chunks <= Len(C)
        /\ \A k \in 2..Len(rows) : rows[k].parameters[1] \in Nat
    BY <1>7, <2>1, <2>2, RowsOfStory
  <2>4. Len(rows) \in Nat \ {0} /\ Len(rows) \in 1..Len(rows)
    BY <2>3
  <2> QED BY <2>3, <2>4
<1>9. \A k \in 2..Len(rows) : rows[k].parameters[1] <= l_id
  <2> SUFFICES ASSUME NEW k \in 2..Len(rows) PROVE rows[k].parameters[1] <= l_id
    OBVIOUS
  <2> DEFINE before == rows[k].parameters[1]
  <2>1. before \in Nat /\ before <= e.l_id
    BY <1>7, <1>8
  <2> HIDE DEF before
  <2>2. before <= l_id
    BY <1>1, <1>5, <2>1
  <2> QED BY <2>2 DEF before
<1>10. GoesOn(updated, last, B, C)
  <2>1. /\ Len(B) = last.bases + Len(e.pending.new_bases)
        /\ Len(C) = last.chunks + Len(e.pending.pairs)
        /\ Len(B) = e.dictionary.next_id /\ ActiveAre(e.dictionary, B)
    BY <1>7, Zenon DEF GoesOn
  <2>2. Means(pending, updated.l_id, updated.l_d, last.bases, last.chunks, B, C)
    BY <1>3, <1>8, NothingIsMeant
  <2> QED BY <1>2, <1>3, <1>6, <2>1, <2>2, Zenon DEF GoesOn
<1>11. Tells(sent, updated, rows, B, C)
  BY <1>6, <1>7, <1>9, <1>10, Zenon DEF Tells
<1> QED BY <1>11 DEF updated

(* Pending pairs fit the width they will be written with.                  *)
LEMMA SoundFieldsFit ==
  ASSUME NEW e, Sound(e)
  PROVE  FieldsFit(e.pending, e.l_id, e.l_d)
<1> SUFFICES ASSUME NEW i \in 1..Len(e.pending.pairs)
             PROVE  /\ e.pending.pairs[i].base_id < Pow2[e.l_id]
                    /\ e.pending.pairs[i].deviation_bits \in BitString(e.l_d)
  BY DEF FieldsFit
<1> DEFINE id == e.pending.pairs[i].base_id
           next_id == e.dictionary.next_id
           left == ChunksPerSplit - e.current_split_chunks
           room == Pow2[e.l_id]
<1>1. e \in Encoder /\ PairsFit(e) /\ HasRoom(e)
  BY DEF Sound
<1>2. next_id \in Nat /\ left \in Nat /\ e.l_id \in Nat /\ e.pending.pairs \in Seq(Pair)
  BY <1>1, EncoderFields, Constants
<1>3. room \in Nat
  BY <1>2, Pow2Above
<1>4. e.pending.pairs[i] \in Pair
  BY <1>2
<1>5. id \in Nat
  BY <1>4 DEF Pair
<1>6. id < next_id /\ e.pending.pairs[i].deviation_bits \in BitString(e.l_d)
  BY <1>1 DEF PairsFit
<1>7. next_id + left <= room
  BY <1>1 DEF HasRoom
<1> HIDE DEF id, next_id, left, room
<1>8. id < room
  BY <1>2, <1>3, <1>5, <1>6, <1>7
<1> QED BY <1>6, <1>8 DEF id, room

(* What is pending means what follows so many bases and chunks, to the end.*)
MeansTheRest(pending, l_id, l_d, bases, chunks, B, C) ==
  /\ Means(pending, l_id, l_d, bases, chunks, B, C)
  /\ Len(B) = bases + Len(pending.new_bases)
  /\ Len(C) = chunks + Len(pending.pairs)

AddsPair(pending, more, base, is_new, pair) ==
  /\ is_new => more.new_bases = Append(pending.new_bases, base)
  /\ ~ is_new => more.new_bases = pending.new_bases
  /\ more.pairs = Append(pending.pairs, pair)

(* One more pair, and its base if it is new.                               *)
LEMMA OneMorePair ==
  ASSUME NEW pending \in Pending, NEW more \in Pending,
         NEW base \in PackedBase, NEW is_new \in BOOLEAN, NEW pair \in Pair,
         AddsPair(pending, more, base, is_new, pair),
         NEW l_id, NEW l_d, NEW bases \in Nat, NEW chunks \in Nat,
         NEW B \in Seq(PackedBase), NEW C \in Seq(Chunk), NEW chunk \in Chunk,
         NEW B2 \in Seq(PackedBase), AddsBase(B, B2, base, is_new),
         MeansTheRest(pending, l_id, l_d, bases, chunks, B, C),
         pair.base_id < Len(B2), Restores(B2, pair, l_d, chunk),
         FieldsFit(more, l_id, l_d)
  PROVE  MeansTheRest(more, l_id, l_d, bases, chunks, B2, Append(C, chunk))
<1>0. /\ Continues(B, B2)
      /\ is_new => Len(B2) = Len(B) + 1 /\ B2[Len(B) + 1] = base
      /\ ~ is_new => B2 = B
      /\ is_new => more.new_bases = Append(pending.new_bases, base)
      /\ ~ is_new => more.new_bases = pending.new_bases
      /\ more.pairs = Append(pending.pairs, pair)
      /\ Means(pending, l_id, l_d, bases, chunks, B, C)
      /\ Len(B) = bases + Len(pending.new_bases)
      /\ Len(C) = chunks + Len(pending.pairs)
  BY Zenon DEF AddsBase, AddsPair, MeansTheRest

<1> DEFINE C2 == Append(C, chunk)
           old_bases == pending.new_bases
           new_bases == more.new_bases
           old_pairs == pending.pairs
           new_pairs == more.pairs
           n == Len(old_bases)
           m == Len(old_pairs)
<1>1. /\ old_bases \in Seq(PackedBase) /\ old_pairs \in Seq(Pair)
      /\ n \in Nat /\ m \in Nat
  BY DEF Pending
<1>2. /\ C2 \in Seq(Chunk) /\ Continues(C, C2)
      /\ Len(C2) = Len(C) + 1 /\ C2[Len(C) + 1] = chunk
  BY ContinuesByOne, AppendProperties
<1>3. Means(pending, l_id, l_d, bases, chunks, B2, C2)
  BY <1>0, <1>2, MeansContinues
<1>4. /\ \A i \in 1..n : B2[bases + i] = old_bases[i]
      /\ \A i \in 1..m : /\ old_pairs[i].base_id < bases + n
                         /\ Restores(B2, old_pairs[i], l_d, C2[chunks + i])
  BY <1>3 DEF Means
<1>5. /\ Len(new_pairs) = m + 1 /\ new_pairs[m + 1] = pair
      /\ \A i \in 1..m : new_pairs[i] = old_pairs[i]
  <2> HIDE DEF old_pairs, m
  <2>1. new_pairs = Append(old_pairs, pair)
    BY <1>0 DEF old_pairs
  <2> HIDE DEF new_pairs
  <2> QED BY <1>1, <2>1, AppendProperties DEF m
<1>6. /\ Len(B2) = bases + Len(new_bases) /\ Len(new_bases) \in Nat
      /\ bases + n <= Len(B2)
      /\ \A i \in 1..Len(new_bases) : B2[bases + i] = new_bases[i]
  <2>1. CASE is_new
    <3>1. new_bases = Append(old_bases, base)
      BY <1>0, <2>1
    <3> HIDE DEF new_bases, old_bases, n
    <3>2. /\ Len(new_bases) = n + 1 /\ new_bases[n + 1] = base
          /\ \A i \in 1..n : new_bases[i] = old_bases[i]
      BY <1>1, <3>1, AppendProperties DEF n
    <3>3. Len(B2) = Len(B) + 1 /\ B2[Len(B) + 1] = base /\ Len(B) = bases + n
      <4>1. Len(B) = bases + n
        BY <1>0 DEF n, old_bases
      <4>2. Len(B2) = Len(B) + 1 /\ B2[Len(B) + 1] = base
        BY <1>0, <2>1
      <4> QED BY <4>1, <4>2, Zenon
    <3>4. Len(B2) = bases + Len(new_bases) /\ Len(new_bases) \in Nat /\ bases + n <= Len(B2)
      BY <1>1, <3>2, <3>3
    <3>5. ASSUME NEW i \in 1..Len(new_bases) PROVE B2[bases + i] = new_bases[i]
      <4>1. CASE i = n + 1
        <5>1. bases + i = Len(B) + 1
          BY <1>1, <3>3, <4>1, NextPlace, Zenon
        <5> QED BY <3>2, <3>3, <4>1, <5>1
      <4>2. CASE i # n + 1
        <5>1. i \in 1..n
          BY <1>1, <3>2, <4>2, LastOrBefore, Zenon
        <5> QED BY <1>4, <3>2, <5>1
      <4> QED BY <4>1, <4>2
    <3> QED BY <3>4, <3>5
  <2>2. CASE ~ is_new
    <3>1. new_bases = old_bases /\ B2 = B
      BY <1>0, <2>2
    <3>2. Len(B) = bases + n
      BY <1>0
    <3> HIDE DEF new_bases, old_bases
    <3> QED BY <1>1, <1>4, <3>1, <3>2
  <2> QED BY <2>1, <2>2
<1>7. Len(C) = chunks + m
  BY <1>0
<1> HIDE DEF C2, old_bases, new_bases, old_pairs, new_pairs, n, m
<1>8. Len(C2) = chunks + Len(new_pairs) /\ chunks + Len(new_pairs) <= Len(C2)
  <2>1. Len(C2) = (chunks + m) + 1 /\ Len(new_pairs) = m + 1
    BY <1>2, <1>5, <1>7, Zenon
  <2>2. (chunks + m) + 1 = chunks + (m + 1) /\ chunks + (m + 1) <= (chunks + m) + 1
    BY <1>1
  <2> QED BY <2>1, <2>2, Zenon
<1>9. ASSUME NEW i \in 1..Len(new_pairs)
      PROVE  /\ new_pairs[i].base_id < bases + Len(new_bases)
             /\ Restores(B2, new_pairs[i], l_d, C2[chunks + i])
  <2>1. CASE i = m + 1
    <3>1. chunks + i = Len(C) + 1
      BY <1>1, <1>7, <2>1, NextPlace, Zenon
    <3> QED BY <1>2, <1>5, <1>6, <2>1, <3>1
  <2>2. CASE i # m + 1
    <3>1. i \in 1..m
      BY <1>1, <1>5, <2>2
    <3> DEFINE id == old_pairs[i].base_id
    <3>2. id \in Nat /\ id < bases + n
      <4>1. old_pairs[i] \in Pair
        BY <1>1, <3>1 DEF m
      <4>2. id \in Nat
        BY <4>1 DEF Pair
      <4> QED BY <1>4, <3>1, <4>2
    <3> HIDE DEF id
    <3>3. id < bases + Len(new_bases)
      BY <1>1, <1>6, <3>2
    <3> QED BY <1>4, <1>5, <3>1, <3>3 DEF id
  <2> QED BY <2>1, <2>2
<1>10. Means(more, l_id, l_d, bases, chunks, B2, C2)
  <2>1. bases + Len(new_bases) <= Len(B2)
    BY <1>6
  <2> QED BY <1>6, <1>8, <1>9, <2>1 DEF Means, new_bases, new_pairs
<1> QED BY <1>6, <1>8, <1>10, Zenon DEF MeansTheRest, C2, new_bases, new_pairs

(* get_or_insert and the pair it adds: one more chunk is told.             *)
LEMMA AddPairMeans ==
  ASSUME NEW sent \in Seq(StreamPacket), NEW e, Sound(e),
         e.current_split_chunks < ChunksPerSplit, NEW chunk \in Chunk,
         NEW base, base = PackSamples(BaseSamples(chunk, e.l_d)),
         NEW deviation_bits, deviation_bits = DeviationBits(chunk, e.l_d),
         ~ IdsExhausted(e.dictionary, base),
         NEW rows, NEW B, NEW C, Tells(sent, e, rows, B, C)
  PROVE  Continued(sent, AddPair(e, base, deviation_bits), rows, B, Append(C, chunk))
<1> DEFINE dictionary == e.dictionary
           got == GetOrInsert(dictionary, base)
           pair == [base_id |-> got.id, deviation_bits |-> deviation_bits]
           new_bases == IF got.is_new THEN Append(e.pending.new_bases, base)
                        ELSE e.pending.new_bases
           pairs == Append(e.pending.pairs, pair)
           pending == [e.pending EXCEPT !.new_bases = new_bases, !.pairs = pairs]
           added == AddPair(e, base, deviation_bits)
           C2 == Append(C, chunk)
           last == rows[Len(rows)]
           packets == sent \o e.ready
<1>1. /\ e \in Encoder /\ e.pending \in Pending /\ e.dictionary \in DictionaryState
      /\ ActiveIdsAssigned(e.dictionary)
      /\ e.l_d \in 0..ChunkBitLen /\ e.l_d \in Nat /\ e.ready \in Seq(StreamPacket)
      /\ e.pending.new_bases \in Seq(PackedBase) /\ e.pending.pairs \in Seq(Pair)
  BY EncoderFields, Geometry DEF Sound
<1>2. base \in PackedBase /\ deviation_bits \in BitString(e.l_d)
  BY <1>1, TransformType, PackType
<1>3. /\ Story(packets, rows, B, C) /\ GoesOn(e, last, B, C)
      /\ B \in Seq(PackedBase) /\ C \in Seq(Chunk)
      /\ \A k \in 2..Len(rows) : rows[k].parameters[1] <= e.l_id
  BY Zenon DEF Tells
<1>4. /\ Means(e.pending, e.l_id, e.l_d, last.bases, last.chunks, B, C)
      /\ Len(B) = last.bases + Len(e.pending.new_bases)
      /\ Len(C) = last.chunks + Len(e.pending.pairs)
      /\ Len(B) = e.dictionary.next_id /\ ActiveAre(e.dictionary, B)
      /\ e.pending.parameters_present \/ last.parameters = <<e.l_id, e.l_d>>
  BY <1>3, Zenon DEF GoesOn
<1>55. PICK B2 \in Seq(PackedBase) : Answers(got, base, B, B2)
  <2>1. /\ dictionary \in DictionaryState /\ ActiveIdsAssigned(dictionary)
        /\ base \in PackedBase /\ B \in Seq(PackedBase)
        /\ Len(B) = dictionary.next_id /\ ActiveAre(dictionary, B)
    BY <1>1, <1>2, <1>3, <1>4
  <2> HIDE DEF dictionary, last, packets, added, pending, pairs, new_bases, pair, C2
  <2> QED BY <2>1, GetOrInsertMeans, Zenon
<1>5. /\ AddsBase(B, B2, base, got.is_new) /\ Continues(B, B2)
      /\ Len(B2) = got.dictionary.next_id /\ ActiveAre(got.dictionary, B2)
      /\ got.id \in Nat /\ got.id < Len(B2) /\ B2[got.id + 1] = base
  <2> HIDE DEF got
  <2> QED BY <1>55, Zenon DEF Answers, AddsBase
<1>6. got.is_new \in BOOLEAN
  BY <1>1, <1>2, GetOrInsertSound, Zenon
<1>7. packets \in Seq(StreamPacket)
  BY <1>1, ConcatProperties
<1>8. last.bases \in Nat /\ last.chunks \in Nat
  <2> HIDE DEF packets
  <2>1. /\ Len(packets) \in Nat /\ Len(rows) = Len(packets) + 1
        /\ \A k \in 1..Len(rows) : rows[k].bases \in Nat /\ rows[k].chunks \in Nat
    BY <1>3, <1>7, RowsOfStory
  <2>2. Len(rows) \in 1..Len(rows)
    BY <2>1
  <2> QED BY <2>1, <2>2
<1>9. added = [e EXCEPT !.dictionary = got.dictionary, !.pending = pending,
                        !.current_split_chunks = @ + 1]
  BY <1>1 DEF AddPair, Encoder, Pending
<1>10. /\ pending.pairs = pairs /\ pending.new_bases = new_bases
       /\ pending.parameters_present = e.pending.parameters_present
  BY <1>1 DEF Pending
<1> HIDE DEF got
<1>11. deviation_bits \in Seq(Bit)
  BY <1>1, <1>2, FunctionIsSequence DEF BitString
<1>12. /\ pair \in Pair /\ pair.base_id = got.id /\ pair.deviation_bits = deviation_bits
  BY <1>5, <1>11 DEF Pair
<1>13. /\ got.is_new => new_bases = Append(e.pending.new_bases, base)
       /\ ~ got.is_new => new_bases = e.pending.new_bases
  OBVIOUS

<1>15. C2 \in Seq(Chunk) /\ Continues(C, C2)
  BY <1>3, ContinuesByOne
<1>16. pairs = Append(e.pending.pairs, pair)
  OBVIOUS
<1> HIDE DEF added, pending, pair, new_bases, pairs, last, packets
<1>17. /\ added.dictionary = got.dictionary /\ added.pending = pending
       /\ added.ready = e.ready /\ added.l_id = e.l_id /\ added.l_d = e.l_d
  BY <1>1, <1>9 DEF Encoder
<1>18. Sound(added)
  BY <1>1, <1>2, AddPairSound, Zenon DEF added, dictionary
<1>19. pending \in Pending /\ FieldsFit(pending, e.l_id, e.l_d)
  <2>1. added.pending \in Pending
    BY <1>18, EncoderFields DEF Sound
  <2> QED BY <1>17, <1>18, <2>1, SoundFieldsFit
<1>20. Restores(B2, pair, e.l_d, chunk)
  BY <1>1, <1>5, <1>12, PairRestores
<1>21. /\ Means(pending, e.l_id, e.l_d, last.bases, last.chunks, B2, C2)
       /\ Len(B2) = last.bases + Len(pending.new_bases)
       /\ Len(C2) = last.chunks + Len(pending.pairs)
  <2>1. pair.base_id < Len(B2)
    BY <1>5, <1>12
  <2>2. /\ pending.pairs = Append(e.pending.pairs, pair)
        /\ got.is_new => pending.new_bases = Append(e.pending.new_bases, base)
        /\ ~ got.is_new => pending.new_bases = e.pending.new_bases
    BY <1>10, <1>13, <1>16
  <2> DEFINE old == e.pending
             l_id == e.l_id
             l_d == e.l_d
             bases == last.bases
             chunks == last.chunks
             is_new == got.is_new
  <2>3. /\ old \in Pending /\ pending \in Pending /\ base \in PackedBase
        /\ is_new \in BOOLEAN /\ pair \in Pair
        /\ AddsPair(old, pending, base, is_new, pair)
        /\ bases \in Nat /\ chunks \in Nat
    BY <1>1, <1>2, <1>6, <1>8, <1>12, <1>19, <2>2, Zenon DEF AddsPair
  <2>4. /\ B \in Seq(PackedBase) /\ C \in Seq(Chunk) /\ chunk \in Chunk
        /\ B2 \in Seq(PackedBase) /\ AddsBase(B, B2, base, is_new)
        /\ MeansTheRest(old, l_id, l_d, bases, chunks, B, C)
        /\ Restores(B2, pair, l_d, chunk)
        /\ FieldsFit(pending, l_id, l_d)
    BY <1>3, <1>4, <1>5, <1>19, <1>20, Zenon DEF MeansTheRest
  <2> HIDE DEF old, l_id, l_d, bases, chunks, is_new
  <2>5. MeansTheRest(pending, l_id, l_d, bases, chunks, B2, Append(C, chunk))
    BY <2>1, <2>3, <2>4, OneMorePair, Zenon
  <2> QED BY <2>5, Zenon DEF MeansTheRest, l_id, l_d, bases, chunks
<1> HIDE DEF C2
<1>22. Story(packets, rows, B2, C2)
  BY <1>3, <1>5, <1>7, <1>15, StoryContinues
<1>23. GoesOn(added, last, B2, C2)
  BY <1>4, <1>5, <1>10, <1>17, <1>21, Zenon DEF GoesOn
<1>24. Tells(sent, added, rows, B2, C2)
  BY <1>3, <1>5, <1>15, <1>17, <1>22, <1>23, Zenon DEF Tells, packets, last
<1>25. Continues(rows, rows)
  BY TellsLengths, ContinuesItself
<1>26. Continued(sent, added, rows, B, C2)
  BY <1>5, <1>24, <1>25, Zenon DEF Continued
<1> QED BY <1>26 DEF added, C2

(* Flushing what was already continued.                                    *)
LEMMA FlushContinues ==
  ASSUME NEW sent \in Seq(StreamPacket), NEW e, Sound(e),
         Len(e.pending.new_bases) <= NewBaseLimit,
         NEW rows, NEW B, NEW C, Len(rows) \in Nat, Len(B) \in Nat,
         Continued(sent, e, rows, B, C)
  PROVE  Continued(sent, FlushPending(e), rows, B, C)
<1>1. PICK rows1, B1 : /\ Continues(rows, rows1) /\ Continues(B, B1)
                       /\ Tells(sent, e, rows1, B1, C)
  BY DEF Continued
<1>2. Len(rows1) \in Nat /\ Len(B1) \in Nat
  BY <1>1, TellsLengths, Zenon
<1>3. Continued(sent, FlushPending(e), rows1, B1, C)
  BY <1>1, FlushMeans
<1> QED BY <1>1, <1>2, <1>3, ContinuedFurther

(* One more chunk of the current split.                                    *)
LEMMA AddChunkMeans ==
  ASSUME NEW sent \in Seq(StreamPacket), NEW e, Sound(e), BelowLimits(e),
         e.current_split_chunks < ChunksPerSplit, NEW chunk \in Chunk,
         NEW rows, NEW B, NEW C, Tells(sent, e, rows, B, C)
  PROVE  \/ AddChunk(e, chunk).status = "ids exhausted"
         \/ Continued(sent, AddChunk(e, chunk), rows, B, Append(C, chunk))
<1> DEFINE base == PackSamples(BaseSamples(chunk, e.l_d))
           deviation_bits == DeviationBits(chunk, e.l_d)
           added == AddPair(e, base, deviation_bits)
           after == AddChunk(e, chunk)
<1>1. /\ e \in Encoder /\ e.l_d \in 0..ChunkBitLen
      /\ Len(e.pending.new_bases) \in Nat
      /\ Len(rows) \in Nat /\ Len(B) \in Nat
  <2>1. e \in Encoder
    BY DEF Sound
  <2>2. e.pending.new_bases \in Seq(PackedBase) /\ e.l_d \in 0..ChunkBitLen
    BY <2>1, EncoderFields
  <2>3. Len(rows) \in Nat /\ Len(B) \in Nat
    BY TellsLengths, Zenon
  <2> QED BY <2>1, <2>2, <2>3
<1>2. base \in PackedBase /\ deviation_bits \in BitString(e.l_d)
  BY <1>1, TransformType, PackType
<1>3. after = IF IdsExhausted(e.dictionary, base)
              THEN [e EXCEPT !.status = "ids exhausted"]
              ELSE IF PacketIsFull(added.pending) THEN FlushPending(added) ELSE added
  BY DEF AddChunk, TransformChunk
<1>4. CASE IdsExhausted(e.dictionary, base)
  <2> HIDE DEF base, after
  <2>1. after.status = "ids exhausted"
    BY <1>1, <1>3, <1>4 DEF Encoder
  <2> QED BY <2>1 DEF after
<1>5. CASE ~ IdsExhausted(e.dictionary, base)
  <2>1. Continued(sent, added, rows, B, Append(C, chunk))
    BY <1>5, AddPairMeans, Zenon
  <2>2. /\ Sound(added)
        /\ Len(added.pending.new_bases) <= Len(e.pending.new_bases) + 1
    BY <1>2, <1>5, AddPairSound, Zenon
  <2> HIDE DEF base, deviation_bits, added, after
  <2>3. Len(added.pending.new_bases) <= NewBaseLimit
    <3>1. added.pending.new_bases \in Seq(PackedBase)
      BY <2>2, EncoderFields DEF Sound
    <3>2. Len(added.pending.new_bases) \in Nat
      BY <3>1
    <3> QED BY <1>1, <2>2, <3>2, Constants DEF BelowLimits
  <2>4. Continued(sent, FlushPending(added), rows, B, Append(C, chunk))
    BY <1>1, <2>1, <2>2, <2>3, FlushContinues
  <2>5. after = FlushPending(added) \/ after = added
    BY <1>3, <1>5
  <2> QED BY <2>1, <2>4, <2>5, Zenon DEF after
<1> QED BY <1>4, <1>5

(* A chunk, with the split boundary it may cross.                          *)
LEMMA EncodeChunkMeans ==
  ASSUME NEW sent \in Seq(StreamPacket), NEW e, Sound(e), e.status = "ok",
         BelowLimits(e), NEW chunk \in Chunk,
         NEW rows, NEW B, NEW C, Tells(sent, e, rows, B, C)
  PROVE  \/ EncodeChunk(e, chunk).status = "ids exhausted"
         \/ Continued(sent, EncodeChunk(e, chunk), rows, B, Append(C, chunk))
<1> DEFINE after == EncodeChunk(e, chunk)
           flushed == FlushPending(e)
           begun == UpdateParameters(flushed)
<1>1. /\ e \in Encoder
      /\ e.current_split_chunks \in Nat /\ e.current_split_chunks <= ChunksPerSplit
      /\ Len(e.pending.new_bases) \in Nat /\ Len(rows) \in Nat /\ Len(B) \in Nat
  <2>1. e \in Encoder
    BY DEF Sound
  <2>2. e.pending.new_bases \in Seq(PackedBase)
    BY <2>1, EncoderFields
  <2>3. Len(rows) \in Nat /\ Len(B) \in Nat
    BY TellsLengths, Zenon
  <2> QED BY <2>1, <2>2, <2>3, EncoderFields
<1>2. CASE e.current_split_chunks # ChunksPerSplit
  <2>1. after = AddChunk(e, chunk)
    BY <1>2 DEF EncodeChunk
  <2>2. e.current_split_chunks < ChunksPerSplit
    BY <1>1, <1>2, Constants
  <2> HIDE DEF after
  <2>3. \/ after.status = "ids exhausted"
        \/ Continued(sent, after, rows, B, Append(C, chunk))
    BY <2>1, <2>2, AddChunkMeans, Zenon
  <2> QED BY <2>3 DEF after
<1>3. CASE e.current_split_chunks = ChunksPerSplit
  <2>1. Len(e.pending.new_bases) <= NewBaseLimit
    BY <1>1, Constants DEF BelowLimits
  <2>2. /\ Sound(flushed) /\ flushed.status = "ok" /\ flushed.pending.pairs = <<>>
        /\ flushed.current_split_chunks = e.current_split_chunks
    BY <2>1, FlushSound, Zenon
  <2>3. Continued(sent, flushed, rows, B, C)
    BY <2>1, FlushMeans
  <2>4. /\ Sound(begun) /\ begun.current_split_chunks = 0
        /\ begun.pending.pairs = <<>> /\ begun.status = flushed.status
    BY <1>3, <2>2, UpdateSound, Zenon
  <2>5. after = AddChunk(begun, chunk)
    <3>1. BeginSplit(e) = begun
      BY <2>2 DEF BeginSplit
    <3>2. after = IF BeginSplit(e).status = "ok" THEN AddChunk(BeginSplit(e), chunk)
                  ELSE BeginSplit(e)
      BY <1>3 DEF EncodeChunk
    <3> QED BY <2>2, <2>4, <3>1, <3>2
  <2>6. PICK rows1, B1 : /\ Continues(rows, rows1) /\ Continues(B, B1)
                         /\ Tells(sent, flushed, rows1, B1, C)
    BY <2>3, Zenon DEF Continued
  <2>7. Tells(sent, begun, rows1, B1, C)
    BY <1>3, <2>2, <2>6, UpdateMeans, Zenon
  <2> HIDE DEF flushed, begun, after
  <2>8. begun.pending.new_bases = <<>>
    BY <2>4 DEF Sound
  <2>9. BelowLimits(begun) /\ begun.current_split_chunks < ChunksPerSplit
    BY <2>4, <2>8, Constants DEF BelowLimits
  <2>10. Len(rows1) \in Nat /\ Len(B1) \in Nat
    BY <2>7, TellsLengths, Zenon
  <2>11. \/ after.status = "ids exhausted"
         \/ Continued(sent, after, rows1, B1, Append(C, chunk))
    BY <2>4, <2>5, <2>7, <2>9, AddChunkMeans, Zenon
  <2>12. \/ after.status = "ids exhausted"
         \/ Continued(sent, after, rows, B, Append(C, chunk))
    BY <1>1, <2>6, <2>10, <2>11, ContinuedFurther, Zenon
  <2> QED BY <2>12 DEF after
<1> QED BY <1>2, <1>3

(* Filling and emptying the sample buffer tells nothing.                   *)
LEMMA BufferMeans ==
  ASSUME NEW sent, NEW e \in Encoder, NEW buffer,
         NEW rows, NEW B, NEW C, Tells(sent, e, rows, B, C)
  PROVE  Tells(sent, [e EXCEPT !.sample_buffer = buffer], rows, B, C)
<1> DEFINE f == [e EXCEPT !.sample_buffer = buffer]
<1>1. /\ f.dictionary = e.dictionary /\ f.pending = e.pending /\ f.ready = e.ready
      /\ f.l_id = e.l_id /\ f.l_d = e.l_d
  BY DEF Encoder
<1> HIDE DEF f
<1>2. Tells(sent, f, rows, B, C)
  BY <1>1, TellsElsewhere
<1> QED BY <1>2 DEF f

----------------------------------------------------------------------------
(* The samples behind the chunks.                                          *)

(* finish fills the last chunk with zeros, up to a whole chunk.            *)
Filled(samples) ==
  samples \o [i \in 1..((SamplesPerChunk - (Len(samples) % SamplesPerChunk)) % SamplesPerChunk)
                |-> ZeroSample]

(* What is missing to whole chunks: nothing, or a chunk less the remainder.*)
LEMMA PaddingCount ==
  ASSUME NEW w \in Nat \ {0}, NEW q \in Nat, NEW r \in 0..(w - 1)
  PROVE  /\ r = 0 => (w - ((q * w + r) % w)) % w = 0
         /\ r # 0 => (w - ((q * w + r) % w)) % w = w - r
<1>1. (q * w + r) % w = r
  OBVIOUS
<1>2. r = 0 => (w - r) % w = 0
  OBVIOUS
<1>3. r # 0 => (w - r) % w = w - r
  OBVIOUS
<1> QED BY <1>1, <1>2, <1>3, Zenon

(* Whole chunks and what is left of the samples, which is shorter.         *)
LEMMA FilledIsPadded ==
  ASSUME NEW C \in Seq(Chunk), NEW buffer \in Seq(Sample),
         Len(buffer) < SamplesPerChunk,
         NEW samples, samples = Join(C, SamplesPerChunk) \o buffer
  PROVE  /\ buffer = <<>> => Filled(samples) = Join(C, SamplesPerChunk)
         /\ buffer # <<>> =>
              Filled(samples) = Join(Append(C, PadChunk(buffer)), SamplesPerChunk)
<1> DEFINE w == SamplesPerChunk
           n == Len(buffer)
           whole == Join(C, SamplesPerChunk)
           count == (w - (Len(samples) % w)) % w
           zeros == [i \in 1..count |-> ZeroSample]
<1>1. w \in Nat \ {0} /\ n \in 0..(w - 1) /\ Len(C) \in Nat /\ n \in Nat
  BY Geometry
<1>2. PadChunk(buffer) \in Chunk
  BY PadChunkType
<1>3. /\ whole \in Seq(Sample) /\ Len(whole) = Len(C) * w
      /\ Join(Append(C, PadChunk(buffer)), w) = whole \o PadChunk(buffer)
      /\ PadChunk(buffer) \in Seq(Sample) /\ Len(PadChunk(buffer)) = w
  BY <1>2, JoinOneMore
<1> HIDE DEF whole
<1>4. samples \in Seq(Sample) /\ Len(samples) = Len(C) * w + n
  BY <1>3, ConcatProperties DEF whole
<1>5. (n = 0 => count = 0) /\ (n # 0 => count = w - n)
  <2> DEFINE total == Len(samples)
             q == Len(C)
  <2>1. w \in Nat \ {0} /\ q \in Nat /\ n \in 0..(w - 1) /\ total = q * w + n
    BY <1>1, <1>4
  <2> HIDE DEF n, total, q, w
  <2>2. /\ n = 0 => (w - ((q * w + n) % w)) % w = 0
        /\ n # 0 => (w - ((q * w + n) % w)) % w = w - n
    BY <2>1, PaddingCount, Zenon
  <2>3. count = (w - (total % w)) % w
    BY DEF total, w
  <2> QED BY <2>1, <2>2, <2>3, Zenon
<1>6. Filled(samples) = samples \o zeros
  BY DEF Filled
<1> HIDE DEF count
<1>7. ZeroSample \in Sample
  BY DEF ZeroSample, ZeroBits, Sample, BitString, Bit
<1>8. count \in Nat /\ zeros \in Seq(Sample) /\ Len(zeros) = count
  <2>1. count \in Nat
    BY <1>1, <1>5
  <2> QED BY <1>7, <2>1, FunctionIsSequence
<1>9. CASE buffer = <<>>
  <2>1. count = 0
    BY <1>1, <1>5, <1>9
  <2>2. zeros = <<>>
    BY <2>1
  <2>3. samples = whole
    BY <1>3, <1>9, ConcatEmptySeq DEF whole
  <2>4. samples \o <<>> = samples
    BY <1>4, ConcatEmptySeq
  <2> QED BY <1>6, <1>9, <2>2, <2>3, <2>4, Zenon DEF whole
<1>10. CASE buffer # <<>>
  <2>1. n # 0 /\ count = w - n
    BY <1>1, <1>5, <1>10
  <2>2. PadChunk(buffer) = buffer \o zeros
    <3>1. /\ buffer \o zeros \in Seq(Sample) /\ Len(buffer \o zeros) = w
      BY <1>1, <1>8, <2>1, ConcatProperties
    <3>2. ASSUME NEW s \in 1..w PROVE PadChunk(buffer)[s] = (buffer \o zeros)[s]
      <4>1. PadChunk(buffer)[s] = IF s <= n THEN buffer[s] ELSE ZeroSample
        BY DEF PadChunk
      <4>2. CASE s <= n
        <5>1. s \in 1..n
          BY <1>1, <4>2
        <5> QED BY <1>8, <4>1, <4>2, <5>1, ConcatProperties
      <4>3. CASE ~ (s <= n)
        <5>1. s - n \in 1..count /\ s \in 1..(n + count)
          BY <1>1, <1>8, <2>1, <4>3
        <5>2. (buffer \o zeros)[s] = zeros[s - n]
          BY <1>8, <4>3, <5>1, ConcatProperties
        <5> QED BY <4>1, <4>3, <5>1, <5>2
      <4> QED BY <4>2, <4>3
    <3> DEFINE padded == PadChunk(buffer)
               appended == buffer \o zeros
    <3>3. /\ padded \in Seq(Sample) /\ appended \in Seq(Sample)
          /\ Len(padded) = Len(appended) /\ Len(padded) = w
          /\ \A s \in 1..w : padded[s] = appended[s]
      BY <1>3, <3>1, <3>2
    <3> HIDE DEF padded, appended
    <3>4. padded = appended
      BY <3>3, SeqEqual
    <3> QED BY <3>4 DEF padded, appended
  <2> HIDE DEF zeros
  <2>3. samples \o zeros = whole \o (buffer \o zeros)
    <3>1. whole \in Seq(Sample) /\ buffer \in Seq(Sample) /\ zeros \in Seq(Sample)
      BY <1>3, <1>8 DEF whole
    <3>2. samples = whole \o buffer
      BY <1>3 DEF whole
    <3> HIDE DEF whole
    <3>3. \A x, y, z \in Seq(Sample) : (x \o y) \o z = x \o (y \o z)
      BY ONLY ConcatThrice, SMT
    <3>4. (whole \o buffer) \o zeros = whole \o (buffer \o zeros)
      BY ONLY <3>1, <3>3, Zenon
    <3> QED BY ONLY <3>2, <3>4, Zenon
  <2> QED BY <1>3, <1>6, <1>10, <2>2, <2>3 DEF whole
<1> QED BY <1>9, <1>10 DEF whole

(* The push failed: there was no ID for a new base.                        *)
OutOfIds(e) == e.status = "ids exhausted"

(* The samples are those of the chunks, and those that wait for a chunk.   *)
AreSamples(samples, C, buffer) == samples = Join(C, SamplesPerChunk) \o buffer

(* The samples, with the zeros of finish, are those of the chunks.         *)
FillChunks(samples, C) == Filled(samples) = Join(C, SamplesPerChunk)

(* What a call of push_sample or finish leaves: the chunks it adds, if any,*)
(* are told, and nothing told before is changed.                           *)
Added(sent, after, rows, B, C, C2) ==
  /\ C2 \in Seq(Chunk) /\ Continues(C, C2)
  /\ Continued(sent, after, rows, B, C2)

(* push_sample up to the packet it returns: the sample waits for its chunk *)
(* or completes it.                                                        *)
LEMMA BufferedMeans ==
  ASSUME NEW sent \in Seq(StreamPacket), NEW e, Between(e), e.status = "ok",
         NEW sample \in Sample,
         NEW rows, NEW B, NEW C, Tells(sent, e, rows, B, C),
         NEW samples, AreSamples(samples, C, e.sample_buffer),
         ~ OutOfIds(Buffered(e, sample))
  PROVE  \E C2 : /\ Added(sent, Buffered(e, sample), rows, B, C, C2)
                 /\ AreSamples(Append(samples, sample), C2, Buffered(e, sample).sample_buffer)
<1> DEFINE old == e.sample_buffer
           buffer == Append(old, sample)
           emptied == [e EXCEPT !.sample_buffer = <<>>]
           filled == [e EXCEPT !.sample_buffer = buffer]
           after == Buffered(e, sample)
           whole == Join(C, SamplesPerChunk)
<1>1. /\ e \in Encoder /\ old \in Seq(Sample) /\ e.ready = <<>>
      /\ Sound(e) /\ BelowLimits(e)
      /\ B \in Seq(PackedBase) /\ C \in Seq(Chunk)
      /\ Len(rows) \in Nat /\ Len(B) \in Nat /\ Len(C) \in Nat
  <2>1. /\ B \in Seq(PackedBase) /\ C \in Seq(Chunk)
        /\ Len(rows) \in Nat /\ Len(B) \in Nat /\ Len(C) \in Nat
    BY TellsLengths, Zenon
  <2>2. e \in Encoder /\ Sound(e) /\ BelowLimits(e) /\ e.ready = <<>>
    BY DEF Between, Sound
  <2>3. old \in Seq(Sample)
    BY <2>2, EncoderFields
  <2> QED BY <2>1, <2>2, <2>3, Zenon
<1> HIDE DEF old
<1>2. buffer \in Seq(Sample)
  BY <1>1
<1>3. whole \in Seq(Sample)
  <2>1. ZeroSample \in Sample /\ <<>> \in Seq(Sample)
    BY DEF ZeroSample, ZeroBits, Sample, BitString, Bit
  <2>2. PadChunk(<<>>) \in Chunk
    BY <2>1, PadChunkType
  <2> QED BY <1>1, <2>2, JoinOneMore
<1> HIDE DEF whole
<1>4. Append(samples, sample) = whole \o buffer
  <2>1. samples = whole \o old
    BY DEF AreSamples, whole, old
  <2>2. whole \o Append(old, sample) = Append(whole \o old, sample)
    BY <1>1, <1>3, AppendAtTheEnd
  <2> QED BY <2>1, <2>2, Zenon
<1> HIDE DEF buffer
<1>5. CASE Len(buffer) = SamplesPerChunk
  <2>1. buffer \in Chunk
    BY <1>2, <1>5 DEF Chunk
  <2>2. <<>> \in Seq(Sample)
    OBVIOUS
  <2>3. /\ Sound(emptied) /\ BelowLimits(emptied) /\ emptied.status = "ok"
        /\ emptied.ready = <<>> /\ emptied.sample_buffer = <<>>
    BY <1>1, <2>2, EmptiedBuffer, Zenon
  <2>4. Tells(sent, emptied, rows, B, C)
    BY <1>1, BufferMeans
  <2>5. after = EncodeChunk(emptied, buffer)
    BY <1>5 DEF Buffered, buffer, old
  <2> HIDE DEF emptied, after
  <2>6. ~ OutOfIds(after)
    BY DEF after
  <2>7. Continued(sent, after, rows, B, Append(C, buffer))
    BY <2>1, <2>3, <2>4, <2>5, <2>6, EncodeChunkMeans, Zenon DEF OutOfIds
  <2>8. after.sample_buffer = <<>>
    BY <2>1, <2>3, <2>5, <2>6, EncodeChunkSound, Zenon DEF OutOfIds
  <2>9. Append(C, buffer) \in Seq(Chunk) /\ Continues(C, Append(C, buffer))
    BY <1>1, <2>1, ContinuesByOne
  <2>10. Join(Append(C, buffer), SamplesPerChunk) = whole \o buffer
         /\ whole \o buffer \in Seq(Sample)
    BY <1>1, <1>2, <1>3, <2>1, JoinOneMore, ConcatProperties DEF whole
  <2>11. Append(samples, sample)
           = Join(Append(C, buffer), SamplesPerChunk) \o after.sample_buffer
    BY <1>4, <2>8, <2>10, ConcatEmptySeq
  <2> QED BY <2>7, <2>9, <2>11, Zenon DEF after, Added, AreSamples
<1>6. CASE Len(buffer) # SamplesPerChunk
  <2>1. after = filled
    BY <1>6 DEF Buffered, buffer, old
  <2>2. Tells(sent, filled, rows, B, C)
    BY <1>1, BufferMeans
  <2>3. filled.sample_buffer = buffer
    BY <1>1 DEF Encoder
  <2> HIDE DEF filled, after
  <2>4. Continued(sent, after, rows, B, C)
    BY <2>1, <2>2, ContinuedByItself
  <2>5. Continues(C, C)
    BY <1>1, ContinuesItself
  <2>6. Append(samples, sample) = Join(C, SamplesPerChunk) \o after.sample_buffer
    BY <1>4, <2>1, <2>3 DEF whole
  <2> QED BY <1>1, <2>4, <2>5, <2>6, Zenon DEF after, Added, AreSamples
<1> QED BY <1>5, <1>6

(* finish up to the packets it returns: the samples that wait make a chunk,*)
(* with zeros in the place of what is missing.                             *)
LEMMA DrainedMeans ==
  ASSUME NEW sent \in Seq(StreamPacket), NEW e, Between(e), e.status = "ok",
         NEW rows, NEW B, NEW C, Tells(sent, e, rows, B, C),
         NEW samples, AreSamples(samples, C, e.sample_buffer),
         ~ OutOfIds(Drained(e))
  PROVE  \E C2 : /\ Added(sent, Drained(e), rows, B, C, C2)
                 /\ FillChunks(samples, C2)
<1> DEFINE buffer == e.sample_buffer
           emptied == [e EXCEPT !.sample_buffer = <<>>]
           padded == IF buffer = <<>> THEN e ELSE EncodeChunk(emptied, PadChunk(buffer))
           after == Drained(e)
<1>1. /\ e \in Encoder /\ buffer \in Seq(Sample) /\ e.ready = <<>>
      /\ Sound(e) /\ BelowLimits(e) /\ Len(buffer) < SamplesPerChunk
      /\ B \in Seq(PackedBase) /\ C \in Seq(Chunk)
      /\ Len(rows) \in Nat /\ Len(B) \in Nat /\ Len(C) \in Nat
  <2>1. /\ B \in Seq(PackedBase) /\ C \in Seq(Chunk)
        /\ Len(rows) \in Nat /\ Len(B) \in Nat /\ Len(C) \in Nat
    BY TellsLengths, Zenon
  <2>2. /\ e \in Encoder /\ Sound(e) /\ BelowLimits(e) /\ e.ready = <<>>
        /\ Len(buffer) < SamplesPerChunk
    BY DEF Between, Sound
  <2>3. buffer \in Seq(Sample)
    BY <2>2, EncoderFields
  <2> QED BY <2>1, <2>2, <2>3, Zenon
<1>2. after = IF padded.status = "ok" THEN FlushPending(padded) ELSE padded
  BY DEF Drained
<1>3. ~ OutOfIds(padded)
  <2> HIDE DEF padded, after
  <2>1. OutOfIds(padded) => after = padded
    BY <1>2 DEF OutOfIds
  <2>2. ~ OutOfIds(after)
    BY DEF after
  <2> QED BY <2>1, <2>2, Zenon
<1>4. samples = Join(C, SamplesPerChunk) \o buffer
  BY DEF AreSamples
<1> HIDE DEF after, buffer
<1>5. /\ buffer = <<>> => Filled(samples) = Join(C, SamplesPerChunk)
      /\ buffer # <<>> =>
           Filled(samples) = Join(Append(C, PadChunk(buffer)), SamplesPerChunk)
  BY <1>1, <1>4, FilledIsPadded
<1>6. \E C2 : /\ C2 \in Seq(Chunk) /\ Continues(C, C2)
              /\ Continued(sent, padded, rows, B, C2)
              /\ Filled(samples) = Join(C2, SamplesPerChunk)
              /\ Sound(padded) /\ BelowLimits(padded) /\ padded.status = "ok"
  <2>1. CASE buffer = <<>>
    <3>1. padded = e
      BY <2>1
    <3>2. Continues(C, C) /\ Continued(sent, e, rows, B, C)
      BY <1>1, ContinuesItself, ContinuedByItself
    <3> HIDE DEF padded
    <3> QED BY <1>1, <1>5, <2>1, <3>1, <3>2, Zenon
  <2>2. CASE buffer # <<>>
    <3> DEFINE C2 == Append(C, PadChunk(buffer))
    <3>1. <<>> \in Seq(Sample) /\ PadChunk(buffer) \in Chunk
      BY <1>1, PadChunkType
    <3>2. /\ Sound(emptied) /\ BelowLimits(emptied) /\ emptied.status = "ok"
          /\ emptied.ready = <<>>
      BY <1>1, <3>1, EmptiedBuffer, Zenon
    <3>3. Tells(sent, emptied, rows, B, C)
      BY <1>1, BufferMeans
    <3>4. padded = EncodeChunk(emptied, PadChunk(buffer))
      BY <2>2
    <3> HIDE DEF emptied, padded
    <3>5. Sound(padded) /\ BelowLimits(padded) /\ padded.status = "ok"
      BY <1>3, <3>1, <3>2, <3>4, EncodeChunkSound, Zenon DEF OutOfIds
    <3>6. Continued(sent, padded, rows, B, C2)
      BY <1>3, <3>1, <3>2, <3>3, <3>4, EncodeChunkMeans, Zenon DEF OutOfIds
    <3>7. C2 \in Seq(Chunk) /\ Continues(C, C2)
      BY <1>1, <3>1, ContinuesByOne
    <3>8. Filled(samples) = Join(C2, SamplesPerChunk)
      BY <1>5, <2>2
    <3> QED BY <3>5, <3>6, <3>7, <3>8, Zenon
  <2> QED BY <2>1, <2>2
<1> HIDE DEF padded
<1>7. PICK C2 : /\ C2 \in Seq(Chunk) /\ Continues(C, C2)
                /\ Continued(sent, padded, rows, B, C2)
                /\ Filled(samples) = Join(C2, SamplesPerChunk)
                /\ Sound(padded) /\ BelowLimits(padded) /\ padded.status = "ok"
  BY <1>6
<1>8. Len(padded.pending.new_bases) <= NewBaseLimit
  <2>1. padded.pending.new_bases \in Seq(PackedBase)
    BY <1>7, EncoderFields DEF Sound
  <2>2. Len(padded.pending.new_bases) \in Nat
    BY <2>1
  <2> QED BY <1>7, <2>2, Constants DEF BelowLimits
<1>9. Continued(sent, FlushPending(padded), rows, B, C2)
  BY <1>1, <1>7, <1>8, FlushContinues
<1>10. after = FlushPending(padded)
  BY <1>2, <1>7
<1> QED BY <1>7, <1>9, <1>10, Zenon DEF after, Added, FillChunks

----------------------------------------------------------------------------
(* The steps of the encoder.                                               *)

(* Where the samples pushed are.                                           *)
Accounts(C) ==
  /\ phase = "open" => AreSamples(pushed, C, encoder.sample_buffer)
  /\ phase = "finished" => FillChunks(pushed, C)

Telling(rows, B, C) == Tells(emitted, encoder, rows, B, C) /\ Accounts(C)

(* A new encoder has told nothing.                                         *)
LEMMA InitTells == EncoderInit => Telling(<<FirstRow>>, <<>>, <<>>)
<1> SUFFICES ASSUME EncoderInit PROVE Telling(<<FirstRow>>, <<>>, <<>>)
  OBVIOUS
<1> DEFINE rows == <<FirstRow>>
<1>1. /\ encoder.dictionary.next_id = 0 /\ encoder.dictionary.active = <<>>
      /\ encoder.ready = <<>> /\ encoder.sample_buffer = <<>>
      /\ encoder.pending.parameters_present = TRUE
      /\ encoder.pending.new_bases = <<>> /\ encoder.pending.pairs = <<>>
      /\ emitted = <<>> /\ pushed = <<>> /\ phase = "open"
  BY DEF EncoderInit, NewEncoder, NewDictionary, EmptyPending
<1>2. emitted \o encoder.ready = <<>>
  BY <1>1
<1>3. /\ FirstRow \in Row /\ FirstRow.bases = 0 /\ FirstRow.chunks = 0
      /\ <<>> \in Seq(PackedBase) /\ <<>> \in Seq(Chunk) /\ 0 \in Nat /\ 0 <= 0 + 0
  BY DEF FirstRow, Row
<1>4. rows \in Seq(Row) /\ Len(rows) = 1 /\ rows[1] = FirstRow
  BY <1>3
<1> HIDE DEF rows
<1>5. Story(<<>>, rows, <<>>, <<>>)
  BY <1>4 DEF Story
<1>6. Means(encoder.pending, encoder.l_id, encoder.l_d, 0, 0, <<>>, <<>>)
  BY <1>1, NothingIsMeant
<1>7. ActiveAre(encoder.dictionary, <<>>)
  BY <1>1 DEF ActiveAre
<1>8. Len(<<>>) = 0 + Len(<<>>) /\ Len(<<>>) = 0
  OBVIOUS
<1>9. GoesOn(encoder, rows[Len(rows)], <<>>, <<>>)
  BY <1>1, <1>3, <1>4, <1>6, <1>7, <1>8, Zenon DEF GoesOn
<1>10. \A k \in 2..Len(rows) : rows[k].parameters[1] <= encoder.l_id
  BY <1>4
<1>11. Tells(emitted, encoder, rows, <<>>, <<>>)
  BY <1>2, <1>3, <1>5, <1>9, <1>10, Zenon DEF Tells
<1>12. Join(<<>>, SamplesPerChunk) \o <<>> = <<>>
  <2>1. Len(<<>>) * SamplesPerChunk = 0
    BY Geometry
  <2>2. Join(<<>>, SamplesPerChunk) = <<>>
    BY <2>1 DEF Join
  <2> QED BY <2>2
<1>13. phase # "finished"
  BY <1>1
<1> QED BY <1>1, <1>11, <1>12, <1>13, Zenon DEF Telling, Accounts, AreSamples, rows

(* Packets that are returned move from `ready` to `emitted`.               *)
LEMMA ReturnTells ==
  ASSUME NEW e, NEW sent \in Seq(StreamPacket), e \in Encoder,
         NEW rows, NEW B, NEW C, Tells(sent, e, rows, B, C),
         NEW f, f = [e EXCEPT !.ready = <<>>],
         NEW returned, returned = sent \o e.ready
  PROVE  /\ Tells(returned, f, rows, B, C)
         /\ returned \in Seq(StreamPacket) /\ Continues(sent, returned)
         /\ f.sample_buffer = e.sample_buffer
<1>1. /\ f.dictionary = e.dictionary /\ f.pending = e.pending /\ f.ready = <<>>
      /\ f.l_id = e.l_id /\ f.l_d = e.l_d /\ f.sample_buffer = e.sample_buffer
  BY DEF Encoder
<1>2. returned \in Seq(StreamPacket) /\ Continues(sent, returned)
  <2> DEFINE ready == e.ready
  <2>1. ready \in Seq(StreamPacket)
    BY EncoderFields
  <2> HIDE DEF ready
  <2>2. sent \o ready \in Seq(StreamPacket) /\ Continues(sent, sent \o ready)
    BY <2>1, ConcatProperties DEF Continues
  <2> QED BY <2>2 DEF ready
<1>3. returned \o f.ready = sent \o e.ready
  BY <1>1, <1>2, ConcatEmptySeq
<1> QED BY <1>1, <1>2, <1>3, Zenon DEF Tells, GoesOn

(* What a step of the encoder leaves: more of the same.                    *)
MoreTold(rows, B, C, rows2, B2, C2) ==
  Continues(rows, rows2) /\ Continues(B, B2) /\ Continues(C, C2)

(* push_sample.                                                            *)
LEMMA PushTells ==
  ASSUME EncoderInv, NEW rows, NEW B, NEW C, Telling(rows, B, C),
         NEW sample \in Sample, PushSample(sample)
  PROVE  /\ Continues(emitted, emitted')
         /\ \E rows2, B2, C2 : /\ MoreTold(rows, B, C, rows2, B2, C2)
                               /\ Telling(rows2, B2, C2)'
<1> DEFINE after == Buffered(encoder, sample)
           buffer == after.sample_buffer
<1>1. /\ Between(encoder) /\ encoder.status = "ok" /\ phase = "open"
      /\ emitted \in Seq(StreamPacket) /\ Len(emitted) \in Nat
      /\ Tells(emitted, encoder, rows, B, C)
      /\ AreSamples(pushed, C, encoder.sample_buffer)
  <2>1. /\ Between(encoder) /\ encoder.status = "ok" /\ phase = "open"
        /\ emitted \in Seq(StreamPacket)
    BY DEF EncoderInv, PushSample, Running
  <2>2. Tells(emitted, encoder, rows, B, C) /\ Accounts(C)
    BY Zenon DEF Telling
  <2> QED BY <2>1, <2>2, LenProperties, Zenon DEF Accounts
<1>2. /\ after.status = "ok" /\ pushed' = Append(pushed, sample) /\ phase' = phase
      /\ \/ after.ready = <<>> /\ encoder' = after /\ emitted' = emitted
         \/ /\ after.ready # <<>>
            /\ encoder' = [after EXCEPT !.ready = Tail(@)]
            /\ emitted' = Append(emitted, Head(after.ready))
  BY DEF PushSample
<1>3. ~ OutOfIds(after)
  BY <1>2 DEF OutOfIds
<1>4. Sound(after) /\ (Len(after.ready) = 0 \/ Len(after.ready) = 1)
  BY <1>1, <1>3, BufferedSound, Zenon DEF OutOfIds
<1>5. PICK C2 : Added(emitted, after, rows, B, C, C2)
                /\ AreSamples(Append(pushed, sample), C2, buffer)
  BY <1>1, <1>3, BufferedMeans, Zenon
<1> HIDE DEF after
<1>6. PICK rows2, B2 : Tells(emitted, after, rows2, B2, C2)
                       /\ MoreTold(rows, B, C, rows2, B2, C2)
  BY <1>5, Zenon DEF Added, Continued, MoreTold
<1>7. after \in Encoder /\ after.ready \in Seq(StreamPacket)
  BY <1>4, EncoderFields DEF Sound
<1>8. /\ Tells(emitted', encoder', rows2, B2, C2)
      /\ Continues(emitted, emitted') /\ encoder'.sample_buffer = buffer
  <2>1. CASE after.ready = <<>>
    <3>1. encoder' = after /\ emitted' = emitted
      BY <1>2, <2>1
    <3>2. Continues(emitted, emitted)
      BY <1>1, ContinuesItself
    <3> QED BY <1>6, <3>1, <3>2, Zenon
  <2>2. CASE after.ready # <<>>
    <3>1. Len(after.ready) = 1
      BY <1>4, <1>7, <2>2
    <3>2. Tail(after.ready) = <<>> /\ Head(after.ready) \in StreamPacket
      BY <1>7, <3>1, SingletonSequence, Zenon
    <3>3. encoder' = [after EXCEPT !.ready = <<>>]
      BY <1>2, <1>7, <2>2, <3>2 DEF Encoder
    <3>4. after.ready = <<Head(after.ready)>>
      BY <1>7, <3>1
    <3>5. emitted' = emitted \o after.ready
      BY <1>1, <1>2, <2>2, <3>2, <3>4, AppendIsConcat
    <3> QED BY <1>1, <1>6, <1>7, <3>3, <3>5, ReturnTells
  <2> QED BY <2>1, <2>2
<1>9. phase' = "open" /\ phase' # "finished"
  BY <1>1, <1>2
<1>10. Telling(rows2, B2, C2)'
  BY <1>2, <1>5, <1>8, <1>9, Zenon DEF Telling, Accounts
<1> QED BY <1>6, <1>8, <1>10, Zenon

(* finish.                                                                 *)
LEMMA FinishTells ==
  ASSUME EncoderInv, NEW rows, NEW B, NEW C, Telling(rows, B, C), Finish
  PROVE  /\ Continues(emitted, emitted')
         /\ \E rows2, B2, C2 : /\ MoreTold(rows, B, C, rows2, B2, C2)
                               /\ Telling(rows2, B2, C2)'
<1> DEFINE after == Drained(encoder)
<1>1. /\ Between(encoder) /\ encoder.status = "ok" /\ phase = "open"
      /\ emitted \in Seq(StreamPacket)
      /\ Tells(emitted, encoder, rows, B, C)
      /\ AreSamples(pushed, C, encoder.sample_buffer)
  <2>1. /\ Between(encoder) /\ encoder.status = "ok" /\ phase = "open"
        /\ emitted \in Seq(StreamPacket)
    BY DEF EncoderInv, Finish, Running
  <2>2. Tells(emitted, encoder, rows, B, C) /\ Accounts(C)
    BY Zenon DEF Telling
  <2> QED BY <2>1, <2>2, Zenon DEF Accounts
<1>2. /\ after.status = "ok" /\ pushed' = pushed /\ phase' = "finished"
      /\ encoder' = [after EXCEPT !.ready = <<>>] /\ emitted' = emitted \o after.ready
  BY DEF Finish
<1>3. ~ OutOfIds(after)
  BY <1>2 DEF OutOfIds
<1>4. Sound(after)
  BY <1>1, <1>3, DrainedSound, Zenon DEF OutOfIds
<1>5. PICK C2 : Added(emitted, after, rows, B, C, C2)
                /\ FillChunks(pushed, C2)
  BY <1>1, <1>3, DrainedMeans, Zenon
<1> HIDE DEF after
<1>6. PICK rows2, B2 : Tells(emitted, after, rows2, B2, C2)
                       /\ MoreTold(rows, B, C, rows2, B2, C2)
  BY <1>5, Zenon DEF Added, Continued, MoreTold
<1>7. after \in Encoder
  BY <1>4 DEF Sound
<1>8. Tells(emitted', encoder', rows2, B2, C2) /\ Continues(emitted, emitted')
  <2>1. Tells(emitted, after, rows2, B2, C2) /\ emitted \in Seq(StreamPacket)
    BY ONLY <1>1, <1>6
  <2>2. encoder' = [after EXCEPT !.ready = <<>>] /\ emitted' = emitted \o after.ready
    BY ONLY <1>2
  <2>3. \A f, returned :
          f = [after EXCEPT !.ready = <<>>] /\ returned = emitted \o after.ready
            => Tells(returned, f, rows2, B2, C2) /\ Continues(emitted, returned)
    BY ONLY <2>1, <1>7, ReturnTells
  <2> QED BY ONLY <2>2, <2>3, Zenon
<1>9. phase' # "open"
  BY <1>2
<1>10. FillChunks(pushed, C2)'
  BY <1>2, <1>5, Zenon
<1>11. Telling(rows2, B2, C2)'
  BY <1>8, <1>9, <1>10, Zenon DEF Telling, Accounts
<1> QED BY <1>6, <1>8, <1>11, Zenon

(* A call that fails tells nothing, and forgets nothing.                   *)
LEMMA FailureTells ==
  ASSUME EncoderInv, NEW rows, NEW B, NEW C, Telling(rows, B, C),
         NEW status, encoder' = [encoder EXCEPT !.status = status],
         UNCHANGED <<phase, pushed, emitted>>
  PROVE  Telling(rows, B, C)'
<1>1. encoder \in Encoder
  BY DEF EncoderInv, Between, Sound
<1>2. /\ encoder'.dictionary = encoder.dictionary /\ encoder'.pending = encoder.pending
      /\ encoder'.ready = encoder.ready /\ encoder'.sample_buffer = encoder.sample_buffer
      /\ encoder'.l_id = encoder.l_id /\ encoder'.l_d = encoder.l_d
  BY <1>1 DEF Encoder
<1>3. emitted' = emitted /\ pushed' = pushed /\ phase' = phase
  OBVIOUS
<1>4. Tells(emitted, encoder, rows, B, C) /\ Accounts(C)
  BY Zenon DEF Telling
<1>5. Tells(emitted, encoder', rows, B, C)
  BY <1>2, <1>4, TellsElsewhere
<1>6. Accounts(C)'
  BY <1>2, <1>3, <1>4, Zenon DEF Accounts
<1> QED BY <1>3, <1>5, <1>6, Zenon DEF Telling

(* Every step of the encoder goes on with what was told before.            *)
LEMMA NextTells ==
  ASSUME EncoderInv, NEW rows, NEW B, NEW C, Telling(rows, B, C),
         [EncoderNext]_encoderVars
  PROVE  /\ Continues(emitted, emitted')
         /\ \E rows2, B2, C2 : /\ MoreTold(rows, B, C, rows2, B2, C2)
                               /\ Telling(rows2, B2, C2)'
<1> DEFINE More == /\ Continues(emitted, emitted')
                   /\ \E rows2, B2, C2 : /\ MoreTold(rows, B, C, rows2, B2, C2)
                                         /\ Telling(rows2, B2, C2)'
<1>1. /\ Continues(emitted, emitted) /\ MoreTold(rows, B, C, rows, B, C)
  <2>1. Len(rows) \in Nat /\ Len(B) \in Nat /\ Len(C) \in Nat
    <3>1. Tells(emitted, encoder, rows, B, C)
      BY Zenon DEF Telling
    <3> QED BY <3>1, TellsLengths, Zenon
  <2>2. Len(emitted) \in Nat
    BY LenProperties DEF EncoderInv
  <2> QED BY <2>1, <2>2, ContinuesItself, Zenon DEF MoreTold
<1>2. ASSUME NEW sample \in Sample, PushSample(sample) PROVE More
  BY <1>2, PushTells
<1>3. ASSUME NEW sample \in Sample, PushFails(sample) PROVE More
  <2>1. Telling(rows, B, C)' /\ emitted' = emitted
    BY <1>3, FailureTells DEF PushFails
  <2> QED BY <1>1, <2>1, Zenon
<1>4. ASSUME Finish PROVE More
  BY <1>4, FinishTells
<1>5. ASSUME FinishFails PROVE More
  <2>1. Telling(rows, B, C)' /\ emitted' = emitted
    BY <1>5, FailureTells DEF FinishFails
  <2> QED BY <1>1, <2>1, Zenon
<1>6. ASSUME UNCHANGED encoderVars PROVE More
  <2>1. emitted' = emitted /\ encoder' = encoder /\ pushed' = pushed /\ phase' = phase
    BY <1>6 DEF encoderVars
  <2>2. Telling(rows, B, C)'
    BY <2>1, Zenon DEF Telling, Accounts
  <2> QED BY <1>1, <2>1, <2>2, Zenon
<1> HIDE DEF More
<1>7. More
  BY <1>2, <1>3, <1>4, <1>5, <1>6 DEF EncoderNext
<1> QED BY <1>7 DEF More

(* At every moment there are bases and chunks that the packets returned,   *)
(* with what is still pending, tell in full: every chunk of the samples    *)
(* pushed can be restored from the bases told before it.                   *)
TellsEverything == EncoderInv /\ \E rows, B, C : Telling(rows, B, C)

(* Every step of the encoder leaves everything told.                       *)
LEMMA NextTellsEverything == TellsEverything /\ [EncoderNext]_encoderVars => TellsEverything'
<1> SUFFICES ASSUME TellsEverything, [EncoderNext]_encoderVars PROVE TellsEverything'
  OBVIOUS
<1>1. EncoderInv
  BY Zenon DEF TellsEverything
<1>2. PICK rows, B, C : Telling(rows, B, C)
  BY Zenon DEF TellsEverything
<1>3. EncoderInv'
  BY <1>1, NextPreserves, Zenon
<1>4. \E rows2, B2, C2 : Telling(rows2, B2, C2)'
  BY <1>1, <1>2, NextTells, Zenon
<1> QED BY <1>3, <1>4, Zenon DEF TellsEverything

(* In every reachable state of the encoder, for every configuration and    *)
(* every input, there are bases and chunks that the packets returned and   *)
(* pending tell in full, and the chunks restored from the bases are those  *)
(* of the samples pushed (push_sample, finish and all they call).          *)
THEOREM PacketsTellTheSamples == EncoderSpec => []TellsEverything
<1>1. EncoderInit => TellsEverything
  BY InitEstablishes, InitTells, Zenon DEF TellsEverything
<1> QED BY <1>1, NextTellsEverything, PTL DEF EncoderSpec

----------------------------------------------------------------------------
(* Packets, whole and cut short.                                           *)

(* How a packet's fields follow from what was pending.                     *)
LEMMA PacketFields ==
  ASSUME NEW pending, NEW l_id, NEW l_d
  PROVE  /\ Packet(pending, l_id, l_d).parameters_present = pending.parameters_present
         /\ Packet(pending, l_id, l_d).new_base_count = Len(pending.new_bases)
         /\ Packet(pending, l_id, l_d).chunk_count = Len(pending.pairs)
         /\ Packet(pending, l_id, l_d).payload = Payload(pending, l_id, l_d)
<1> DEFINE payload == Payload(pending, l_id, l_d)
           parameters == IF pending.parameters_present THEN <<l_id, l_d>> ELSE <<>>
<1> HIDE DEF payload, parameters
<1>1. /\ Packet(pending, l_id, l_d).parameters_present = pending.parameters_present
      /\ Packet(pending, l_id, l_d).new_base_count = Len(pending.new_bases)
      /\ Packet(pending, l_id, l_d).chunk_count = Len(pending.pairs)
      /\ Packet(pending, l_id, l_d).payload = payload
  BY Zenon DEF Packet, payload, parameters
<1> QED BY <1>1, Zenon DEF payload

(* The parameters a packet carries, if it does.                            *)
LEMMA PacketParameters ==
  ASSUME NEW pending, NEW l_id, NEW l_d
  PROVE  /\ pending.parameters_present =>
              Packet(pending, l_id, l_d).parameters = <<l_id, l_d>>
         /\ ~ pending.parameters_present =>
              Packet(pending, l_id, l_d).parameters = <<>>
<1> DEFINE payload == Payload(pending, l_id, l_d)
           parameters == IF pending.parameters_present THEN <<l_id, l_d>> ELSE <<>>
<1> HIDE DEF payload, parameters
<1>1. Packet(pending, l_id, l_d).parameters = parameters
  BY Zenon DEF Packet, payload, parameters
<1> QED BY <1>1, Zenon DEF parameters

(* A payload is never shorter than its packet says.                        *)
LongEnough(payload, need) ==
  /\ need \in Nat /\ Len(payload) \in Nat /\ need <= Len(payload)
  /\ \E bytes \in Nat : Len(payload) = 8 * bytes /\ 8 * bytes < need + 8

(* A payload written by flush_pending holds what its header counts, and    *)
(* less than a byte more.                                                  *)
LEMMA PayloadIsLongEnough ==
  ASSUME NEW pending \in Pending, NEW l_id \in Nat, NEW l_d \in 0..ChunkBitLen,
         FieldsFit(pending, l_id, l_d)
  PROVE  LongEnough(Payload(pending, l_id, l_d),
                    Len(pending.new_bases) * ChunkBitLen + Len(pending.pairs) * (l_id + l_d))
<1> DEFINE payload == Payload(pending, l_id, l_d)
           first == Len(pending.new_bases) * ChunkBitLen
           second == Len(pending.pairs) * (l_id + l_d)
<1>1. /\ payload \in Seq(Bit) /\ first \in Nat /\ second \in Nat
      /\ first + second <= Len(payload)
      /\ \E bytes \in Nat : Len(payload) = 8 * bytes /\ 8 * bytes < (first + second) + 8
  BY PayloadLayout, Zenon
<1> HIDE DEF payload, first, second
<1>2. LongEnough(payload, first + second)
  BY <1>1 DEF LongEnough
<1> QED BY <1>2 DEF payload, first, second

(* Less than a whole number of bytes is missing from a whole payload.      *)
LEMMA OneByteLess ==
  ASSUME NEW bytes \in Nat, NEW kept \in Nat, kept < bytes, NEW need \in Nat,
         8 * bytes < need + 8
  PROVE  8 * kept \in Nat /\ 8 * kept <= 8 * bytes /\ 8 * kept < need
OBVIOUS

(* A copy keeps the flags and the counts.                                  *)
LEMMA ShortCopyFields ==
  ASSUME NEW packet \in StreamPacket, NEW length
  PROVE  LET fields == IF length - 1 < Len(packet.parameters)
                       THEN length - 1 ELSE Len(packet.parameters)
             copy == CutShort(packet, length)
         IN  /\ copy.parameters_present = packet.parameters_present
             /\ copy.new_base_count = packet.new_base_count
             /\ copy.chunk_count = packet.chunk_count
             /\ copy.parameters = SubSeq(packet.parameters, 1, fields)
             /\ copy.payload = SubSeq(packet.payload, 1, 8 * (length - 1 - fields))
<1> DEFINE fields == IF length - 1 < Len(packet.parameters)
                     THEN length - 1 ELSE Len(packet.parameters)
           p == SubSeq(packet.parameters, 1, fields)
           q == SubSeq(packet.payload, 1, 8 * (length - 1 - fields))
<1>1. CutShort(packet, length) = [packet EXCEPT !.parameters = p, !.payload = q]
  BY Zenon DEF CutShort
<1> HIDE DEF p, q
<1>2. packet \in [parameters_present : BOOLEAN, new_base_count : Nat, parameters : Seq(Nat),
                  payload : Seq(Bit), chunk_count : Nat]
  BY DEF StreamPacket
<1> QED BY <1>1, <1>2 DEF p, q

(* A copy that lost parameters lost some of its two; one that did not lost *)
(* a part of its payload that the packet cannot do without.                *)
LEMMA WhatIsCutShort ==
  ASSUME NEW packet \in StreamPacket, NEW need, LongEnough(packet.payload, need),
         NEW length \in 1..(PacketLen(packet) - 1),
         NEW copy, copy = CutShort(packet, length)
  PROVE  \/ Len(copy.parameters) < Len(packet.parameters)
         \/ copy.parameters = packet.parameters /\ Len(copy.payload) < need
<1> DEFINE parameters == packet.parameters
           payload == packet.payload
           k == Len(parameters)
           fields == IF length - 1 < k THEN length - 1 ELSE k
<1>1. /\ parameters \in Seq(Nat) /\ payload \in Seq(Bit)
      /\ k \in Nat /\ length \in Nat \ {0} /\ fields \in Nat
  BY DEF StreamPacket
<1>2. /\ copy.parameters = SubSeq(parameters, 1, fields)
      /\ copy.payload = SubSeq(payload, 1, 8 * (length - 1 - fields))
  BY ShortCopyFields
<1>3. PICK bytes \in Nat : Len(payload) = 8 * bytes /\ 8 * bytes < need + 8
  BY DEF LongEnough
<1>4. need \in Nat
  BY DEF LongEnough
<1>5. length <= k + bytes
  <2>1. (8 * bytes) \div 8 = bytes
    OBVIOUS
  <2>2. PacketLen(packet) = 1 + k + bytes
    BY <1>3, <2>1 DEF PacketLen
  <2> QED BY <1>1, <2>2
<1> HIDE DEF parameters, payload, k
<1>6. CASE length - 1 < k
  <2>1. fields = length - 1 /\ fields \in Nat /\ fields < k
    BY <1>1, <1>6
  <2>2. Len(SubSeq(parameters, 1, fields)) = fields
    <3> HIDE DEF fields
    <3> QED BY <1>1, <2>1, PrefixPlaces DEF k
  <2> QED BY <1>2, <2>1, <2>2 DEF parameters, k
<1>7. CASE ~ (length - 1 < k)
  <2> DEFINE kept == length - 1 - fields
  <2>1. fields = k /\ kept \in Nat /\ kept < bytes
    BY <1>1, <1>5, <1>7
  <2> HIDE DEF kept, fields
  <2>2. 8 * kept \in Nat /\ 8 * kept <= 8 * bytes /\ 8 * kept < need
    BY <1>3, <1>4, <2>1, OneByteLess
  <2>3. Len(SubSeq(payload, 1, 8 * kept)) = 8 * kept
    BY <1>1, <1>3, <2>2, PrefixPlaces
  <2>4. SubSeq(parameters, 1, k) = parameters
    BY <1>1 DEF k
  <2> QED BY <1>2, <2>1, <2>2, <2>3, <2>4 DEF kept, parameters
<1> QED BY <1>6, <1>7

----------------------------------------------------------------------------
(* The widths that packets announce.                                       *)

(* No packet announces an ID width beyond that of the encoder.             *)
LEMMA AnnouncedWidths ==
  ASSUME TellsEverything, NEW k \in 1..Len(emitted),
         NEW pending, NEW l_id, NEW l_d, emitted[k] = Packet(pending, l_id, l_d),
         pending.parameters_present
  PROVE  l_id <= encoder.l_id
<1>1. EncoderInv
  BY Zenon DEF TellsEverything
<1>2. PICK rows, B, C : Telling(rows, B, C)
  BY Zenon DEF TellsEverything
<1>3. emitted \in Seq(StreamPacket) /\ encoder.ready = <<>>
  BY <1>1, Zenon DEF EncoderInv, Between
<1>4. emitted \o encoder.ready = emitted /\ Len(emitted) \in Nat
  BY <1>3, ConcatEmptySeq, LenProperties
<1>5. Tells(emitted, encoder, rows, B, C)
  BY <1>2, Zenon DEF Telling
<1>6. /\ Story(emitted, rows, B, C)
      /\ \A j \in 2..Len(rows) : rows[j].parameters[1] <= encoder.l_id
  BY <1>4, <1>5, Zenon DEF Tells
<1>7. Len(rows) = Len(emitted) + 1 /\ Carries(emitted[k], rows[k], rows[k + 1], B, C)
  BY <1>6, Zenon DEF Story
<1>8. k + 1 \in 2..Len(rows)
  BY <1>4, <1>7
<1> DEFINE row == rows[k]
           after == rows[k + 1]
           packet == emitted[k]
<1> HIDE DEF row, after, packet
<1>9. PICK pending2 \in Pending, l_id2 \in Nat, l_d2 \in 0..ChunkBitLen :
        /\ packet = Packet(pending2, l_id2, l_d2)
        /\ after = RowAfter(row, pending2, l_id2, l_d2)
  BY <1>7, Zenon DEF Carries, row, after, packet
<1>10. after.parameters = <<l_id2, l_d2>>
  BY <1>9, Zenon DEF RowAfter
<1>11. after.parameters[1] = l_id2
  BY <1>10
<1>12. after.parameters[1] <= encoder.l_id
  BY <1>6, <1>8, Zenon DEF after
<1>13. packet = Packet(pending, l_id, l_d)
  BY DEF packet
<1>14. packet.parameters = <<l_id, l_d>> /\ packet.parameters_present
  <2>1. packet.parameters = <<l_id, l_d>>
    BY <1>13, PacketParameters, Zenon
  <2>2. packet.parameters_present = pending.parameters_present
    BY <1>13, PacketFields, Zenon
  <2> QED BY <2>1, <2>2
<1>15. packet.parameters_present = pending2.parameters_present
  BY <1>9, PacketFields, Zenon
<1>16. pending2.parameters_present
  BY <1>14, <1>15
<1>17. packet.parameters = <<l_id2, l_d2>>
  BY <1>9, <1>16, PacketParameters, Zenon
<1>18. l_id = l_id2
  <2>1. <<l_id, l_d>>[1] = l_id /\ <<l_id2, l_d2>>[1] = l_id2
    OBVIOUS
  <2> QED BY <1>14, <1>17, <2>1, Zenon
<1> QED BY <1>11, <1>12, <1>18, Zenon

(* As long as a split beyond the bases assigned would still fit the IDs,   *)
(* the width is one that decoders accept.                                  *)
IdsSuffice == encoder.dictionary.next_id + ChunksPerSplit < Pow2[IdBits]

(* The ID width stays narrow while a split's worth of IDs is left.         *)
LEMMA NarrowWhileIdsSuffice ==
  ASSUME EncoderInv, IdsSuffice
  PROVE  encoder.l_id <= IdBits
<1>1. /\ encoder.l_id \in Nat /\ encoder.dictionary.next_id \in Nat
      /\ WidthFits(encoder)
  BY EncoderFields DEF EncoderInv, Between, Sound
<1>2. /\ ChunksPerSplit \in Nat /\ IdBits \in Nat /\ Pow2[IdBits] \in Nat
  BY Constants, Pow2Above
<1>3. ChunksPerSplit <= Pow2[IdBits]
  BY <1>1, <1>2 DEF IdsSuffice
<1>4. InitialLId <= IdBits /\ InitialLId \in Nat
  BY <1>2, <1>3, CeilLog2Least, CeilLog2Bound DEF InitialLId
<1>5. ASSUME encoder.l_id > IdBits PROVE FALSE
  <2> DEFINE k == encoder.l_id - 1
  <2>1. k \in Nat /\ IdBits <= k /\ encoder.l_id > InitialLId
    BY <1>1, <1>2, <1>4, <1>5
  <2>2. encoder.dictionary.next_id + ChunksPerSplit >= Pow2[k]
    BY <1>1, <2>1 DEF WidthFits
  <2> HIDE DEF k
  <2>3. Pow2[IdBits] <= Pow2[k] /\ Pow2[k] \in Nat
    BY <1>2, <2>1, Pow2Monotone, Pow2Above
  <2> QED BY <1>1, <1>2, <2>2, <2>3 DEF IdsSuffice
<1> QED BY <1>1, <1>2, <1>5

(* Nothing happens after finish.                                           *)
LEMMA FinishedIsLast ==
  phase = "finished" /\ [EncoderNext]_encoderVars => UNCHANGED encoderVars
BY DEF EncoderNext, PushSample, PushFails, FinishFails, Finish, Running, encoderVars

=============================================================================
