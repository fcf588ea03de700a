------------------------ MODULE StreamPipelineProofs ------------------------
(***************************************************************************)
(* The pipeline of encoder, transport and decoder is lossless, for every   *)
(* configuration, every stream and every transport that loses only the     *)
(* ends of packets.                                                        *)
(*                                                                         *)
(* The story that the encoder's packets tell (StreamEncoderProofs) has a   *)
(* row before every packet: the decoder is at the row of the packet it     *)
(* waits for.                                                              *)
(*                                                                         *)
(* The same holds when the packets come from a stream archive that was     *)
(* written, perhaps in part and more than once: the second part of the     *)
(* module follows stream-encode and stream-decode.                         *)
(*                                                                         *)
(* The third part is about transports that lose, repeat and reorder whole  *)
(* packets (TransportFaults): which packets the decoder still reads right. *)
(***************************************************************************)
EXTENDS StreamPipeline, StreamArchive, TransportFaults, StreamEncoderProofs

LOCAL INSTANCE SequencesExt

----------------------------------------------------------------------------
(* Chunks in order.                                                        *)

(* The samples of the first chunks are the first samples.                  *)
LEMMA SamplesOfPrefix ==
  ASSUME NEW C \in Seq(Chunk), NEW m \in Nat, m <= Len(C)
  PROVE  /\ Samples(SubSeq(C, 1, m)) = SubSeq(Samples(C), 1, m * SamplesPerChunk)
         /\ Samples(C) \in Seq(Sample) /\ Len(Samples(C)) = Len(C) * SamplesPerChunk
         /\ m * SamplesPerChunk \in Nat
         /\ m * SamplesPerChunk <= Len(C) * SamplesPerChunk
<1> DEFINE w == SamplesPerChunk
           field == [1..w -> Sample]
           before == SubSeq(C, 1, m)
           rest == SubSeq(C, m + 1, Len(C))
<1>1. w \in Nat /\ Chunk = field
  BY Geometry DEF Chunk
<1> HIDE DEF field
<1>2. C \in Seq(field)
  BY <1>1
<1>3. InTwo(C, field, m, before, rest)
  BY <1>2, SplitInTwo, Zenon
<1> HIDE DEF before, rest
<1> DEFINE x == Join(before, w)
           y == Join(rest, w)
<1>5. Join(before \o rest, w) = x \o y
  <2>1. before \in Seq(field) /\ rest \in Seq(field)
    BY <1>3 DEF InTwo
  <2> QED BY <1>1, <2>1, JoinConcat DEF field
<1>6. x \in Seq(Sample) /\ Len(x) = m * w
  <2>1. before \in Seq(field) /\ Len(before) = m
    BY <1>3 DEF InTwo
  <2> QED BY <1>1, <2>1, JoinOfSeq DEF field
<1>7. y \in Seq(Sample)
  <2>1. rest \in Seq(field)
    BY <1>3 DEF InTwo
  <2> QED BY <1>1, <2>1, JoinOfSeq DEF field
<1>8. Join(C, w) \in Seq(Sample) /\ Len(Join(C, w)) = Len(C) * w
  BY <1>1, <1>2, JoinOfSeq DEF field
<1>9. m * w \in Nat /\ m * w <= Len(C) * w
  <2>1. Len(rest) \in Nat /\ Len(C) = m + Len(rest)
    BY <1>3 DEF InTwo
  <2> QED BY <1>1, <2>1, MoreFields
<1> HIDE DEF x, y
<1>10. SubSeq(x \o y, 1, Len(x)) = x
  BY <1>6, <1>7, FirstOfTwo
<1>11. C = before \o rest
  BY <1>3, Zenon DEF InTwo
<1> QED BY <1>5, <1>6, <1>8, <1>9, <1>10, <1>11, Zenon DEF Samples, x, before

----------------------------------------------------------------------------
(* One packet in the decoder.                                              *)

(* A decoder that was told so many of the bases.                           *)
At(B, bases, parameters) ==
  [dictionary |-> SubSeq(B, 1, bases), parameters |-> parameters]

(* Pushing bases leaves the decoder's parameters, ...                      *)
LEMMA DictionaryGrows ==
  ASSUME NEW dictionary, NEW parameters, NEW grown
  PROVE  [[dictionary |-> dictionary, parameters |-> parameters] EXCEPT !.dictionary = grown]
           = [dictionary |-> grown, parameters |-> parameters]
OBVIOUS

(* ... and adopting parameters leaves its bases.                           *)
LEMMA ParametersChange ==
  ASSUME NEW dictionary, NEW parameters, NEW adopted
  PROVE  [[dictionary |-> dictionary, parameters |-> parameters] EXCEPT !.parameters = adopted]
           = [dictionary |-> dictionary, parameters |-> adopted]
OBVIOUS

(* The bits of a pair lead to its chunk.                                   *)
RestoresBits(known, bits, l_id, l_d, chunk) ==
  /\ ReadValue(SubSeq(bits, 1, l_id)) + 1 <= Len(known)
  /\ InverseTransformChunk(UnpackSamples(known[ReadValue(SubSeq(bits, 1, l_id)) + 1]),
                           SubSeq(bits, l_id + 1, l_id + l_d), l_d) = chunk

(* A pair restores its chunk also after more bases are told.               *)
LEMMA PairDecodes ==
  ASSUME NEW pending \in Pending, NEW l_id \in Nat, NEW l_d \in 0..ChunkBitLen,
         NEW bases \in Nat, NEW chunks \in Nat,
         NEW B \in Seq(PackedBase), NEW C \in Seq(Chunk),
         Means(pending, l_id, l_d, bases, chunks, B, C),
         NEW i \in 1..Len(pending.pairs)
  PROVE  RestoresBits(SubSeq(B, 1, bases + Len(pending.new_bases)),
                      PairBits(pending, l_id)[i], l_id, l_d, C[chunks + i])
<1> DEFINE pair == pending.pairs[i]
           id == pair.base_id
           deviation == pair.deviation_bits
           bits == PairBits(pending, l_id)[i]
           total == bases + Len(pending.new_bases)
           known == SubSeq(B, 1, total)
<1>1. pending.pairs \in Seq(Pair) /\ pending.new_bases \in Seq(PackedBase)
  BY DEF Pending
<1>2. total \in Nat
  BY <1>1
<1>3. id \in Nat
  <2>1. pair \in Pair
    BY <1>1
  <2> QED BY <2>1 DEF Pair
<1>4. /\ total <= Len(B) /\ id < total
      /\ InverseTransformChunk(UnpackSamples(B[id + 1]), deviation, l_d) = C[chunks + i]
      /\ id < Pow2[l_id] /\ deviation \in BitString(l_d)
  BY DEF Means, Restores, FieldsFit
<1>5. bits = WriteValue(id, l_id) \o deviation
  BY DEF PairBits
<1> HIDE DEF id, deviation, total, bits
<1>6. ReadValue(SubSeq(bits, 1, l_id)) = id /\ SubSeq(bits, l_id + 1, l_id + l_d) = deviation
  <2>1. l_d \in Nat
    BY Geometry
  <2>2. ReadsAs(WriteValue(id, l_id) \o deviation, id, l_id, deviation, l_d)
    BY <1>3, <1>4, <2>1, PairReadsBack, Zenon
  <2> QED BY <1>5, <2>2, Zenon DEF ReadsAs
<1>7. Len(known) = total /\ known[id + 1] = B[id + 1]
  <2>1. id + 1 \in 1..total
    BY <1>2, <1>3, <1>4
  <2> QED BY <1>2, <1>4, <2>1, PrefixPlaces
<1> HIDE DEF known
<1>8. id + 1 <= Len(known)
  BY <1>2, <1>3, <1>4, <1>7
<1>9. RestoresBits(known, bits, l_id, l_d, C[chunks + i])
  BY <1>4, <1>6, <1>7, <1>8 DEF RestoresBits
<1> QED BY <1>9 DEF known, bits, total

(* The result of a packet that brings m bases and n chunks.                *)
Understood(B, C, bases, m, chunks, n, parameters) ==
  [decoder |-> At(B, bases + m, parameters),
   samples |-> Samples(SubSeq(C, chunks + 1, chunks + n)),
   ok      |-> TRUE]

(* A payload is decoded to the chunks that it means.                       *)
PayloadMeans(pending, l_id, l_d, bases, chunks, B, C) ==
  DecodePayload(At(B, bases, <<l_id, l_d>>), Packet(pending, l_id, l_d))
    = Understood(B, C, bases, Len(pending.new_bases), chunks, Len(pending.pairs), <<l_id, l_d>>)

(* decode_packet's reading of a payload written by flush_pending.          *)
LEMMA PayloadDecodes ==
  ASSUME NEW pending \in Pending, NEW l_id \in Nat, NEW l_d \in 0..ChunkBitLen,
         NEW bases \in Nat, NEW chunks \in Nat,
         NEW B \in Seq(PackedBase), NEW C \in Seq(Chunk),
         Means(pending, l_id, l_d, bases, chunks, B, C)
  PROVE  PayloadMeans(pending, l_id, l_d, bases, chunks, B, C)
<1> DEFINE m == Len(pending.new_bases)
           n == Len(pending.pairs)
           d == At(B, bases, <<l_id, l_d>>)
           payload == Payload(pending, l_id, l_d)
           packet == Packet(pending, l_id, l_d)
           pairs == PairBits(pending, l_id)
           known == SubSeq(B, 1, bases + m)
           middle == SubSeq(C, chunks + 1, chunks + n)
           Base(pair) == ReadValue(SubSeq(pair, 1, l_id)) + 1
           Restored(pair) ==
             InverseTransformChunk(UnpackSamples(known[Base(pair)]),
                                   SubSeq(pair, l_id + 1, l_id + l_d), l_d)
<1>1. /\ pending.new_bases \in Seq(PackedBase) /\ m \in Nat
      /\ n \in Nat /\ bases + m <= Len(B) /\ chunks + n <= Len(C)
      /\ \A i \in 1..m : B[bases + i] = pending.new_bases[i]
      /\ FieldsFit(pending, l_id, l_d)
  <2>1. pending.pairs \in Seq(Pair) /\ pending.new_bases \in Seq(PackedBase)
    BY DEF Pending
  <2> QED BY <2>1 DEF Means
<1>2. d.dictionary \o pending.new_bases = known
  <2>1. SubSeq(B, 1, bases) \o pending.new_bases = SubSeq(B, 1, bases + m)
    BY <1>1, PrefixGrows
  <2> QED BY <2>1 DEF At
<1>3. middle = [i \in 1..n |-> C[chunks + i]]
  BY <1>1, MiddlePlaces
<1>4. \A i \in 1..n : RestoresBits(known, pairs[i], l_id, l_d, C[chunks + i])
  BY PairDecodes
<1>5. /\ Cut(payload, 0, m, ChunkBitLen) = pending.new_bases
      /\ Cut(payload, m * ChunkBitLen, n, l_id + l_d) = pairs
  BY <1>1, PayloadLayout
<1>6. /\ packet.payload = payload /\ packet.new_base_count = m /\ packet.chunk_count = n
      /\ d.parameters[1] = l_id /\ d.parameters[2] = l_d
      /\ [d EXCEPT !.dictionary = known] = At(B, bases + m, <<l_id, l_d>>)
  <2>1. packet.payload = payload /\ packet.new_base_count = m /\ packet.chunk_count = n
    <3> HIDE DEF m, n, payload
    <3> QED BY Zenon DEF Packet, m, n, payload
  <2>2. d.parameters[1] = l_id /\ d.parameters[2] = l_d
    BY DEF At
  <2>3. [d EXCEPT !.dictionary = known] = At(B, bases + m, <<l_id, l_d>>)
    <3> HIDE DEF known
    <3> DEFINE before == SubSeq(B, 1, bases)
               parameters == <<l_id, l_d>>
    <3>1. d = [dictionary |-> before, parameters |-> parameters]
      BY Zenon DEF At
    <3>2. At(B, bases + m, <<l_id, l_d>>) = [dictionary |-> known, parameters |-> parameters]
      BY Zenon DEF At, known
    <3> HIDE DEF d, before, parameters
    <3>3. [d EXCEPT !.dictionary = known] = [dictionary |-> known, parameters |-> parameters]
      BY ONLY <3>1
    <3> QED BY ONLY <3>2, <3>3, Zenon
  <2> QED BY <2>1, <2>2, <2>3
<1> HIDE DEF m, n, d, payload, packet, pairs, known, middle
<1>7. \A i \in 1..n : Base(pairs[i]) <= Len(known)
  BY <1>4 DEF RestoresBits
<1>8. \A i \in 1..n : Restored(pairs[i]) = C[chunks + i]
  BY <1>4 DEF RestoresBits
<1>9. [i \in 1..n |-> Restored(pairs[i])] = middle
  BY <1>3, <1>8
<1>10. DecodePayload(d, packet)
         = IF \A i \in 1..n : Base(pairs[i]) <= Len(known)
           THEN [decoder |-> [d EXCEPT !.dictionary = known],
                 samples |-> Samples([i \in 1..n |-> Restored(pairs[i])]),
                 ok |-> TRUE]
           ELSE Rejected([d EXCEPT !.dictionary = known])
  BY <1>2, <1>5, <1>6, Zenon DEF DecodePayload
<1>11. DecodePayload(d, packet) = Understood(B, C, bases, m, chunks, n, <<l_id, l_d>>)
  BY <1>6, <1>7, <1>9, <1>10, Zenon DEF Understood, middle
<1> QED BY <1>11, Zenon DEF PayloadMeans, d, packet, m, n

(* What decode_packet does once the parameters are settled.                *)
Settled(d, packet, l_id, l_d) ==
  IF Len(packet.payload)
       < packet.new_base_count * ChunkBitLen + packet.chunk_count * (l_id + l_d)
  THEN Rejected([d EXCEPT !.parameters = <<l_id, l_d>>])
  ELSE DecodePayload([d EXCEPT !.parameters = <<l_id, l_d>>], packet)

(* A decoder adopts a packet's parameters, unless the ID width is one it   *)
(* refuses.                                                                *)
LEMMA AdoptsOrRefuses ==
  ASSUME NEW dictionary, NEW parameters, NEW packet,
         NEW l_id \in Nat, NEW l_d \in 0..ChunkBitLen,
         packet.parameters_present, packet.parameters = <<l_id, l_d>>
  PROVE  LET d == [dictionary |-> dictionary, parameters |-> parameters]
         IN  DecodePacket(d, packet)
               = IF l_id > IdBits THEN Rejected(d) ELSE Settled(d, packet, l_id, l_d)
<1> DEFINE d == [dictionary |-> dictionary, parameters |-> parameters]
           adopted == [d EXCEPT !.parameters = packet.parameters]
<1>1. /\ Len(packet.parameters) = 2 /\ packet.parameters # <<>>
      /\ packet.parameters[1] = l_id /\ packet.parameters[2] = l_d
  OBVIOUS
<1>2. ChunkBitLen \in Nat /\ l_d <= ChunkBitLen
  BY Geometry
<1>3. adopted = [d EXCEPT !.parameters = <<l_id, l_d>>] /\ adopted.parameters = packet.parameters
  OBVIOUS
<1> HIDE DEF adopted, d
<1>4. DecodePacket(d, packet)
        = IF Len(packet.parameters) < 2
             \/ (packet.parameters[1] > IdBits \/ packet.parameters[2] > ChunkBitLen)
             \/ adopted.parameters = <<>>
          THEN Rejected(d)
          ELSE IF Len(packet.payload)
                    < packet.new_base_count * ChunkBitLen
                        + packet.chunk_count * (adopted.parameters[1] + adopted.parameters[2])
               THEN Rejected(adopted) ELSE DecodePayload(adopted, packet)
  BY Zenon DEF DecodePacket, adopted
<1>5. (\/ Len(packet.parameters) < 2
       \/ (packet.parameters[1] > IdBits \/ packet.parameters[2] > ChunkBitLen)
       \/ adopted.parameters = <<>>)
      <=> l_id > IdBits
  BY <1>1, <1>2, <1>3
<1>6. Settled(d, packet, l_id, l_d)
        = IF Len(packet.payload)
                < packet.new_base_count * ChunkBitLen
                    + packet.chunk_count * (adopted.parameters[1] + adopted.parameters[2])
          THEN Rejected(adopted) ELSE DecodePayload(adopted, packet)
  BY <1>1, <1>3, Zenon DEF Settled
<1>7. DecodePacket(d, packet)
        = IF l_id > IdBits THEN Rejected(d) ELSE Settled(d, packet, l_id, l_d)
  BY <1>4, <1>5, <1>6, Zenon
<1> QED BY <1>7 DEF d

(* A decoder keeps its parameters when a packet has none.                  *)
LEMMA KeepsParameters ==
  ASSUME NEW dictionary, NEW packet, NEW l_id, NEW l_d,
         ~ packet.parameters_present
  PROVE  LET d == [dictionary |-> dictionary, parameters |-> <<l_id, l_d>>]
         IN  DecodePacket(d, packet) = Settled(d, packet, l_id, l_d)
<1> DEFINE d == [dictionary |-> dictionary, parameters |-> <<l_id, l_d>>]
<1>1. /\ d.parameters # <<>> /\ d.parameters[1] = l_id /\ d.parameters[2] = l_d
      /\ [d EXCEPT !.parameters = <<l_id, l_d>>] = d
  BY ParametersChange
<1> HIDE DEF d
<1>2. DecodePacket(d, packet)
        = IF d.parameters = <<>>
          THEN Rejected(d)
          ELSE IF Len(packet.payload)
                    < packet.new_base_count * ChunkBitLen
                        + packet.chunk_count * (d.parameters[1] + d.parameters[2])
               THEN Rejected(d) ELSE DecodePayload(d, packet)
  BY Zenon DEF DecodePacket
<1>3. DecodePacket(d, packet) = Settled(d, packet, l_id, l_d)
  BY <1>1, <1>2, Zenon DEF Settled
<1> QED BY <1>3 DEF d

(* A whole packet is understood, unless the IDs are too wide.              *)
PacketMeans(pending, l_id, l_d, bases, chunks, B, C, parameters) ==
  DecodePacket(At(B, bases, parameters), Packet(pending, l_id, l_d))
    = IF pending.parameters_present /\ l_id > IdBits
      THEN Rejected(At(B, bases, parameters))
      ELSE Understood(B, C, bases, Len(pending.new_bases), chunks, Len(pending.pairs),
                      <<l_id, l_d>>)

(* A whole packet is decoded to what it means, or refused for its ID width *)
(* and nothing else.                                                       *)
LEMMA WholeDecodes ==
  ASSUME NEW pending \in Pending, NEW l_id \in Nat, NEW l_d \in 0..ChunkBitLen,
         NEW bases \in Nat, NEW chunks \in Nat,
         NEW B \in Seq(PackedBase), NEW C \in Seq(Chunk),
         Means(pending, l_id, l_d, bases, chunks, B, C),
         NEW parameters, pending.parameters_present \/ parameters = <<l_id, l_d>>
  PROVE  PacketMeans(pending, l_id, l_d, bases, chunks, B, C, parameters)
<1> DEFINE d == At(B, bases, parameters)
           current == At(B, bases, <<l_id, l_d>>)
           packet == Packet(pending, l_id, l_d)
           result == Understood(B, C, bases, Len(pending.new_bases), chunks,
                                Len(pending.pairs), <<l_id, l_d>>)
           need == Len(pending.new_bases) * ChunkBitLen + Len(pending.pairs) * (l_id + l_d)
<1>1. FieldsFit(pending, l_id, l_d)
  BY DEF Means
<1>2. LongEnough(Payload(pending, l_id, l_d), need)
  BY <1>1, PayloadIsLongEnough, Zenon
<1>3. DecodePayload(current, packet) = result
  <2>1. PayloadMeans(pending, l_id, l_d, bases, chunks, B, C)
    BY PayloadDecodes, Zenon
  <2> QED BY <2>1, Zenon DEF PayloadMeans
<1>4. [d EXCEPT !.parameters = <<l_id, l_d>>] = current
  BY ParametersChange, Zenon DEF At
<1> HIDE DEF need
<1>5. ~ (Len(Payload(pending, l_id, l_d)) < need)
  BY <1>2 DEF LongEnough
<1>6. Settled(d, packet, l_id, l_d) = result
  <2>1. Settled(d, packet, l_id, l_d)
          = IF Len(Payload(pending, l_id, l_d)) < need
            THEN Rejected(current) ELSE DecodePayload(current, packet)
    <3> HIDE DEF d, current
    <3> QED BY <1>4, PacketFields, Zenon DEF Settled, need
  <2> HIDE DEF d, current, packet, result
  <2> QED BY <1>3, <1>5, <2>1, Zenon
<1>7. CASE pending.parameters_present
  <2>1. packet.parameters_present /\ packet.parameters = <<l_id, l_d>>
    BY <1>7, PacketFields, PacketParameters, Zenon
  <2> HIDE DEF packet, result
  <2>2. DecodePacket(d, packet) = IF l_id > IdBits THEN Rejected(d)
                                  ELSE Settled(d, packet, l_id, l_d)
    BY <2>1, AdoptsOrRefuses, Zenon DEF At
  <2> HIDE DEF d
  <2>3. DecodePacket(d, packet) = IF pending.parameters_present /\ l_id > IdBits
                                  THEN Rejected(d) ELSE result
    BY <1>6, <1>7, <2>2, Zenon
  <2> QED BY <2>3, Zenon DEF PacketMeans, d, packet, result
<1>8. CASE ~ pending.parameters_present
  <2>1. ~ packet.parameters_present /\ d = current
    <3>1. parameters = <<l_id, l_d>>
      BY <1>8
    <3>2. d = current
      BY <3>1, Zenon
    <3>3. packet.parameters_present = pending.parameters_present
      BY PacketFields, Zenon
    <3> HIDE DEF packet
    <3>4. ~ packet.parameters_present
      BY <1>8, <3>3
    <3> HIDE DEF d, current
    <3> QED BY <3>2, <3>4, Zenon DEF packet
  <2> HIDE DEF packet, result
  <2>2. DecodePacket(current, packet) = Settled(current, packet, l_id, l_d)
    BY ONLY <2>1, KeepsParameters DEF At
  <2> HIDE DEF d, current
  <2>3. DecodePacket(d, packet) = IF pending.parameters_present /\ l_id > IdBits
                                  THEN Rejected(d) ELSE result
    BY <1>6, <1>8, <2>1, <2>2, Zenon
  <2> QED BY <2>3, Zenon DEF PacketMeans, d, packet, result
<1> QED BY <1>7, <1>8

(* A packet with one parameter, or none where there should be two.         *)
LEMMA FieldsCutShort ==
  ASSUME NEW d, NEW packet, packet.parameters_present, Len(packet.parameters) < 2
  PROVE  DecodePacket(d, packet) = Rejected(d)
BY Zenon DEF DecodePacket

(* A copy cut short is refused; it leaves at most its parameters behind.   *)
CopyMeans(copy, pending, l_id, l_d, B, bases, parameters) ==
  \/ DecodePacket(At(B, bases, parameters), copy) = Rejected(At(B, bases, parameters))
  \/ /\ pending.parameters_present
     /\ DecodePacket(At(B, bases, parameters), copy) = Rejected(At(B, bases, <<l_id, l_d>>))

(* A copy of a packet cut short is refused, and leaves no trace but the    *)
(* parameters of that packet.                                              *)
LEMMA ShortDecodes ==
  ASSUME NEW pending \in Pending, NEW l_id \in Nat, NEW l_d \in 0..ChunkBitLen,
         FieldsFit(pending, l_id, l_d),
         Packet(pending, l_id, l_d) \in StreamPacket,
         NEW B, NEW bases, NEW parameters,
         pending.parameters_present \/ parameters = <<l_id, l_d>>,
         NEW copy \in ShortCopies(Packet(pending, l_id, l_d))
  PROVE  CopyMeans(copy, pending, l_id, l_d, B, bases, parameters)
<1> DEFINE d == At(B, bases, parameters)
           current == At(B, bases, <<l_id, l_d>>)
           packet == Packet(pending, l_id, l_d)
           need == Len(pending.new_bases) * ChunkBitLen + Len(pending.pairs) * (l_id + l_d)
<1>1. LongEnough(packet.payload, need)
  BY PayloadIsLongEnough, PacketFields, Zenon
<1>2. PICK length \in 1..(PacketLen(packet) - 1) : copy = CutShort(packet, length)
  BY DEF ShortCopies
<1>3. /\ copy.parameters_present = packet.parameters_present
      /\ copy.new_base_count = packet.new_base_count
      /\ copy.chunk_count = packet.chunk_count
  BY <1>2, ShortCopyFields, Zenon
<1>4. /\ packet.parameters_present = pending.parameters_present
      /\ packet.new_base_count = Len(pending.new_bases)
      /\ packet.chunk_count = Len(pending.pairs)
  BY PacketFields, Zenon
<1>5. pending.parameters_present => packet.parameters = <<l_id, l_d>>
  BY PacketParameters, Zenon
<1>6. ~ pending.parameters_present => packet.parameters = <<>>
  BY PacketParameters, Zenon
<1>7. [d EXCEPT !.parameters = <<l_id, l_d>>] = current
  BY ParametersChange, Zenon DEF At
<1>8. copy.parameters \in Seq(Nat)
  <2>1. copy.parameters
          = SubSeq(packet.parameters, 1, IF length - 1 < Len(packet.parameters)
                                         THEN length - 1 ELSE Len(packet.parameters))
    BY <1>2, ShortCopyFields, Zenon
  <2>2. packet.parameters \in Seq(Nat)
    BY DEF StreamPacket
  <2> HIDE DEF packet
  <2> QED BY <1>2, <2>1, <2>2
<1> HIDE DEF packet, need
<1>9. \/ Len(copy.parameters) < Len(packet.parameters)
      \/ copy.parameters = packet.parameters /\ Len(copy.payload) < need
  BY <1>1, <1>2, WhatIsCutShort DEF packet
<1>10. Len(copy.payload) < need => Settled(d, copy, l_id, l_d) = Rejected(current)
  <2> HIDE DEF d, current
  <2> QED BY <1>3, <1>4, <1>7, Zenon DEF Settled, need
<1>11. CASE pending.parameters_present
  <2>1. copy.parameters_present
    BY <1>3, <1>4, <1>11
  <2>2. CASE Len(copy.parameters) < Len(packet.parameters)
    <3>1. Len(copy.parameters) < 2
      BY <1>5, <1>11, <2>2
    <3>2. DecodePacket(d, copy) = Rejected(d)
      BY <2>1, <3>1, FieldsCutShort, Zenon
    <3> QED BY <3>2, Zenon DEF CopyMeans, d
  <2>3. CASE copy.parameters = packet.parameters /\ Len(copy.payload) < need
    <3>1. copy.parameters = <<l_id, l_d>>
      BY <1>5, <1>11, <2>3
    <3>2. DecodePacket(d, copy) = IF l_id > IdBits THEN Rejected(d)
                                  ELSE Settled(d, copy, l_id, l_d)
      BY <2>1, <3>1, AdoptsOrRefuses, Zenon DEF At
    <3> HIDE DEF d, current
    <3>3. DecodePacket(d, copy) = Rejected(d) \/ DecodePacket(d, copy) = Rejected(current)
      BY <1>10, <2>3, <3>2, Zenon
    <3> QED BY <1>11, <3>3, Zenon DEF CopyMeans, d, current
  <2> QED BY <1>9, <2>2, <2>3
<1>12. CASE ~ pending.parameters_present
  <2>1. ~ copy.parameters_present
    BY <1>3, <1>4, <1>12
  <2>2. parameters = <<l_id, l_d>>
    BY <1>12
  <2>3. d = current
    BY <2>2, Zenon
  <2>4. Len(copy.payload) < need
    <3>1. Len(packet.parameters) = 0 /\ Len(copy.parameters) \in Nat
      BY <1>6, <1>8, <1>12
    <3> QED BY <1>9, <3>1
  <2>5. DecodePacket(current, copy) = Settled(current, copy, l_id, l_d)
    BY ONLY <2>1, KeepsParameters DEF At
  <2> HIDE DEF d, current
  <2>6. DecodePacket(d, copy) = Rejected(d)
    BY <1>10, <2>3, <2>4, <2>5, Zenon
  <2> QED BY <2>6, Zenon DEF CopyMeans, d
<1> QED BY <1>11, <1>12

----------------------------------------------------------------------------
(* The decoder is where the packets it accepted end.                       *)

(* It has the bases and has returned the samples of the packets accepted,  *)
(* and has their parameters, or those of the next packet: a copy that lost *)
(* a part of its payload leaves its parameters behind.                     *)
Receiving(rows, B, C) ==
  LET row == rows[delivered + 1]
  IN  /\ decoded = Samples(SubSeq(C, 1, row.chunks))
      /\ \/ decoder = At(B, row.bases, row.parameters)
         \/ /\ InFlight /\ NextPacket.parameters_present
            /\ decoder = At(B, row.bases, NextPacket.parameters)

PipelineInv ==
  /\ EncoderInv
  /\ delivered \in 0..Len(emitted)
  /\ \E rows, B, C : Telling(rows, B, C) /\ Receiving(rows, B, C)

(* The story of the packets emitted, as the proofs need it.                *)
LEMMA StoryOfEmitted ==
  ASSUME EncoderInv, NEW rows, NEW B, NEW C, Telling(rows, B, C)
  PROVE  /\ emitted \in Seq(StreamPacket) /\ Len(emitted) \in Nat
         /\ Story(emitted, rows, B, C)
         /\ rows \in Seq(Row) /\ Len(rows) = Len(emitted) + 1
         /\ B \in Seq(PackedBase) /\ C \in Seq(Chunk)
<1>1. emitted \in Seq(StreamPacket) /\ encoder.ready = <<>>
  BY Zenon DEF EncoderInv, Between
<1>2. emitted \o encoder.ready = emitted /\ Len(emitted) \in Nat
  BY <1>1, ConcatEmptySeq, LenProperties
<1>3. Tells(emitted, encoder, rows, B, C)
  BY Zenon DEF Telling
<1>4. Story(emitted, rows, B, C) /\ B \in Seq(PackedBase) /\ C \in Seq(Chunk)
  BY <1>2, <1>3, Zenon DEF Tells
<1>5. rows \in Seq(Row) /\ Len(rows) = Len(emitted) + 1
  BY <1>4, Zenon DEF Story
<1> QED BY <1>1, <1>2, <1>4, <1>5

(* The row the decoder is at.                                              *)
LEMMA RowReached ==
  ASSUME EncoderInv, NEW rows, NEW B, NEW C, Telling(rows, B, C),
         delivered \in 0..Len(emitted)
  PROVE  /\ delivered + 1 \in 1..Len(rows)
         /\ rows[delivered + 1].bases \in Nat /\ rows[delivered + 1].bases <= Len(B)
         /\ rows[delivered + 1].chunks \in Nat /\ rows[delivered + 1].chunks <= Len(C)
<1>1. /\ emitted \in Seq(StreamPacket) /\ Len(emitted) \in Nat
      /\ Story(emitted, rows, B, C) /\ Len(rows) = Len(emitted) + 1
      /\ B \in Seq(PackedBase) /\ C \in Seq(Chunk)
  BY StoryOfEmitted
<1>2. delivered + 1 \in 1..Len(rows)
  BY <1>1
<1> QED BY <1>1, <1>2, RowsOfStory

(* What the next packet carries.                                           *)
LEMMA NextIsCarried ==
  ASSUME EncoderInv, NEW rows, NEW B, NEW C, Telling(rows, B, C),
         delivered \in 0..Len(emitted), InFlight
  PROVE  /\ NextPacket \in StreamPacket
         /\ Carries(NextPacket, rows[delivered + 1], rows[(delivered + 1) + 1], B, C)
<1>1. /\ emitted \in Seq(StreamPacket) /\ Len(emitted) \in Nat
      /\ Story(emitted, rows, B, C)
  BY StoryOfEmitted
<1>2. delivered + 1 \in 1..Len(emitted)
  BY <1>1 DEF InFlight
<1>3. emitted[delivered + 1] \in StreamPacket
  BY <1>1, <1>2
<1>4. Carries(emitted[delivered + 1], rows[delivered + 1], rows[(delivered + 1) + 1], B, C)
  BY <1>1, <1>2 DEF Story
<1> QED BY <1>3, <1>4 DEF NextPacket

(* The samples of chunks that follow one another.                          *)
LEMMA SamplesGrow ==
  ASSUME NEW C \in Seq(Chunk), NEW m \in Nat, NEW n \in Nat, m + n <= Len(C)
  PROVE  Samples(SubSeq(C, 1, m)) \o Samples(SubSeq(C, m + 1, m + n))
           = Samples(SubSeq(C, 1, m + n))
<1> DEFINE w == SamplesPerChunk
           field == [1..w -> Sample]
           before == SubSeq(C, 1, m)
           next == SubSeq(C, m + 1, m + n)
<1>1. w \in Nat /\ Chunk = field
  BY Geometry DEF Chunk
<1> HIDE DEF field
<1>2. C \in Seq(field) /\ m <= Len(C)
  BY <1>1
<1>3. before \in Seq(field)
  BY <1>2, PrefixPlaces
<1>4. next \in Seq(field) /\ Len(next) = n /\ next = [i \in 1..n |-> C[m + i]]
  BY <1>2, MiddlePlaces
<1>5. before \o next = SubSeq(C, 1, m + n)
  <2> HIDE DEF next
  <2>1. m + Len(next) <= Len(C) /\ \A i \in 1..Len(next) : C[m + i] = next[i]
    BY <1>4
  <2>2. SubSeq(C, 1, m) \o next = SubSeq(C, 1, m + Len(next))
    BY <1>2, <1>4, <2>1, PrefixGrows
  <2> QED BY <1>4, <2>2
<1> HIDE DEF before, next
<1>6. Join(before \o next, w) = Join(before, w) \o Join(next, w)
  <2>1. next \in Seq(field)
    BY <1>4
  <2> QED BY <1>1, <1>3, <2>1, JoinConcat DEF field
<1> QED BY <1>5, <1>6, Zenon DEF Samples, before, next

(* The packet after a row, given to a decoder at that row, is refused for  *)
(* its ID width alone, and then changes nothing; otherwise the decoder is  *)
(* at the next row.                                                        *)
Arrives(d, received, packet, after, B, C) ==
  LET result == DecodePacket(d, packet)
  IN  \/ result = Rejected(d) /\ after.parameters[1] > IdBits
      \/ /\ result.decoder = At(B, after.bases, after.parameters)
         /\ received \o result.samples = Samples(SubSeq(C, 1, after.chunks))
         /\ result.ok = TRUE

(* It is so for whatever the packet carries; a packet with parameters does *)
(* not need those of the row.                                              *)
LEMMA CarriedArrives ==
  ASSUME NEW B \in Seq(PackedBase), NEW C \in Seq(Chunk), NEW packet, NEW row, NEW after,
         row.bases \in Nat, row.chunks \in Nat,
         Carries(packet, row, after, B, C),
         NEW parameters, packet.parameters_present \/ parameters = row.parameters,
         NEW d, d = At(B, row.bases, parameters),
         NEW received, received = Samples(SubSeq(C, 1, row.chunks))
  PROVE  Arrives(d, received, packet, after, B, C)
<1> DEFINE result == DecodePacket(d, packet)
<1>1. PICK pending \in Pending, l_id \in Nat, l_d \in 0..ChunkBitLen :
        /\ packet = Packet(pending, l_id, l_d)
        /\ Means(pending, l_id, l_d, row.bases, row.chunks, B, C)
        /\ after = RowAfter(row, pending, l_id, l_d)
        /\ pending.parameters_present \/ row.parameters = <<l_id, l_d>>
  BY Zenon DEF Carries
<1> DEFINE m == Len(pending.new_bases)
           n == Len(pending.pairs)
<1>2. /\ after.bases = row.bases + m /\ after.chunks = row.chunks + n
      /\ after.parameters = <<l_id, l_d>>
  BY <1>1, Zenon DEF RowAfter
<1>3. after.parameters[1] = l_id
  BY <1>2
<1>4. n \in Nat /\ row.chunks + n <= Len(C)
  <2>1. pending.pairs \in Seq(Pair)
    BY DEF Pending
  <2> QED BY <1>1, <2>1 DEF Means
<1>5. pending.parameters_present \/ parameters = <<l_id, l_d>>
  <2>1. packet.parameters_present = pending.parameters_present
    BY <1>1, PacketFields, Zenon
  <2>2. packet.parameters_present => pending.parameters_present
    BY <2>1
  <2> QED BY <1>1, <2>2, Zenon
<1>6. result = IF pending.parameters_present /\ l_id > IdBits THEN Rejected(d)
               ELSE Understood(B, C, row.bases, m, row.chunks, n, <<l_id, l_d>>)
  <2>1. PacketMeans(pending, l_id, l_d, row.bases, row.chunks, B, C, parameters)
    BY <1>1, <1>5, WholeDecodes, Zenon
  <2> QED BY <1>1, <2>1, Zenon DEF PacketMeans
<1> HIDE DEF result, m, n
<1>7. CASE pending.parameters_present /\ l_id > IdBits
  BY <1>3, <1>6, <1>7, Zenon DEF result, Arrives
<1>8. CASE ~ (pending.parameters_present /\ l_id > IdBits)
  <2> DEFINE fresh == Samples(SubSeq(C, row.chunks + 1, row.chunks + n))
             all == Samples(SubSeq(C, 1, row.chunks + n))
             next == At(B, row.bases + m, <<l_id, l_d>>)
  <2>1. result = Understood(B, C, row.bases, m, row.chunks, n, <<l_id, l_d>>)
    BY <1>6, <1>8, Zenon
  <2>2. received \o fresh = all
    BY <1>4, SamplesGrow, Zenon
  <2>3. next = At(B, after.bases, after.parameters) /\ all = Samples(SubSeq(C, 1, after.chunks))
    BY <1>2, Zenon
  <2>4. result = [decoder |-> next, samples |-> fresh, ok |-> TRUE]
    BY <2>1, Zenon DEF Understood
  <2> HIDE DEF fresh, all, next
  <2>5. result.decoder = next /\ result.samples = fresh /\ result.ok = TRUE
    BY <2>4
  <2> QED BY <2>2, <2>3, <2>5, Zenon DEF result, Arrives
<1> QED BY <1>7, <1>8

(* So it is for the packet in flight.                                      *)
LEMMA WholeArrives ==
  ASSUME EncoderInv, NEW rows, NEW B, NEW C, Telling(rows, B, C), Receiving(rows, B, C),
         delivered \in 0..Len(emitted), InFlight
  PROVE  Arrives(decoder, decoded, NextPacket, rows[(delivered + 1) + 1], B, C)
<1> DEFINE row == rows[delivered + 1]
           after == rows[(delivered + 1) + 1]
<1>1. /\ B \in Seq(PackedBase) /\ C \in Seq(Chunk)
      /\ row.bases \in Nat /\ row.chunks \in Nat
  BY StoryOfEmitted, RowReached, Zenon
<1>2. Carries(NextPacket, row, after, B, C)
  BY NextIsCarried, Zenon
<1>3. decoded = Samples(SubSeq(C, 1, row.chunks))
  BY Zenon DEF Receiving
<1>4. PICK parameters : /\ decoder = At(B, row.bases, parameters)
                        /\ NextPacket.parameters_present \/ parameters = row.parameters
  <2>1. \/ decoder = At(B, row.bases, row.parameters)
        \/ /\ NextPacket.parameters_present
           /\ decoder = At(B, row.bases, NextPacket.parameters)
    BY Zenon DEF Receiving
  <2> QED BY <2>1, Zenon
<1> HIDE DEF row, after
<1>5. Arrives(decoder, decoded, NextPacket, after, B, C)
  BY <1>1, <1>2, <1>3, <1>4, CarriedArrives, Zenon
<1> QED BY <1>5, Zenon DEF after

(* What has been decoded is a sequence of samples.                         *)
LEMMA DecodedType ==
  ASSUME EncoderInv, NEW rows, NEW B, NEW C, Telling(rows, B, C), Receiving(rows, B, C),
         delivered \in 0..Len(emitted)
  PROVE  decoded \in Seq(Sample) /\ decoded \o <<>> = decoded
<1> DEFINE n == rows[delivered + 1].chunks
           first == SubSeq(C, 1, n)
<1>1. C \in Seq(Chunk) /\ n \in Nat /\ n <= Len(C)
  BY StoryOfEmitted, RowReached, Zenon
<1>2. decoded = Samples(first)
  BY Zenon DEF Receiving
<1> HIDE DEF n
<1>3. first \in Seq(Chunk) /\ Len(first) \in Nat
  BY <1>1, PrefixPlaces
<1> HIDE DEF first
<1>4. Samples(first) \in Seq(Sample)
  BY <1>3, SamplesOfPrefix
<1> QED BY <1>2, <1>4, ConcatEmptySeq

(* What a refusal changes.                                                 *)
LEMMA Refusal ==
  ASSUME NEW d, NEW packet, Receive(packet), DecodePacket(decoder, packet) = Rejected(d),
         decoded \o <<>> = decoded
  PROVE  decoder' = d /\ decoded' = decoded /\ accepted' = FALSE
<1>1. Rejected(d).decoder = d /\ Rejected(d).samples = <<>> /\ Rejected(d).ok = FALSE
  BY DEF Rejected
<1> QED BY <1>1, Zenon DEF Receive

(* Deliveries leave the encoder alone.                                     *)
LEMMA EncoderStays ==
  ASSUME EncoderInv, NEW rows, NEW B, NEW C, Telling(rows, B, C), UNCHANGED encoderVars
  PROVE  EncoderInv' /\ Telling(rows, B, C)' /\ emitted' = emitted
<1>1. encoder' = encoder /\ phase' = phase /\ pushed' = pushed /\ emitted' = emitted
  BY DEF encoderVars
<1>2. EncoderInv'
  BY <1>1, Zenon DEF EncoderInv
<1>3. Telling(rows, B, C)'
  BY <1>1, Zenon DEF Telling, Accounts
<1> QED BY <1>1, <1>2, <1>3

(* A step of the decoder: nothing, or the next row.                        *)
Advances(rows, B, C) ==
  /\ Receiving(rows, B, C)'
  /\ delivered' \in {delivered, delivered + 1}
  /\ delivered' = delivered => decoded' = decoded
  /\ delivered' \in 0..Len(emitted)

(* Delivering a packet keeps the decoder at a row of the books.            *)
LEMMA DeliverAdvances ==
  ASSUME EncoderInv, NEW rows, NEW B, NEW C, Telling(rows, B, C), Receiving(rows, B, C),
         delivered \in 0..Len(emitted), Deliver
  PROVE  Advances(rows, B, C)
<1> DEFINE after == rows[(delivered + 1) + 1]
           result == DecodePacket(decoder, NextPacket)
<1>1. /\ InFlight /\ Receive(NextPacket) /\ UNCHANGED encoderVars
      /\ delivered' = IF accepted' THEN delivered + 1 ELSE delivered
  BY DEF Deliver
<1>2. emitted' = emitted /\ Len(emitted) \in Nat
  BY StoryOfEmitted, Zenon, <1>1 DEF encoderVars
<1>3. \/ result = Rejected(decoder) /\ after.parameters[1] > IdBits
      \/ /\ result.decoder = At(B, after.bases, after.parameters)
         /\ decoded \o result.samples = Samples(SubSeq(C, 1, after.chunks))
         /\ result.ok = TRUE
  BY <1>1, WholeArrives, Zenon DEF Arrives
<1> HIDE DEF after
<1>4. CASE result = Rejected(decoder)
  <2>1. decoded \o <<>> = decoded
    BY DecodedType, Zenon
  <2>2. decoder' = decoder /\ decoded' = decoded /\ accepted' = FALSE
    BY <1>1, <1>4, <2>1, Refusal, Zenon
  <2>3. delivered' = delivered
    BY <1>1, <2>2
  <2>4. Receiving(rows, B, C)'
    BY <1>2, <2>2, <2>3, Zenon DEF Receiving, InFlight, NextPacket
  <2> QED BY <2>2, <2>3, <2>4, Zenon DEF Advances
<1>5. CASE /\ result.decoder = At(B, after.bases, after.parameters)
           /\ decoded \o result.samples = Samples(SubSeq(C, 1, after.chunks))
           /\ result.ok = TRUE
  <2>1. /\ decoder' = At(B, after.bases, after.parameters)
        /\ decoded' = Samples(SubSeq(C, 1, after.chunks)) /\ accepted' = TRUE
    BY <1>1, <1>5, Zenon DEF Receive
  <2>2. delivered' = delivered + 1
    BY <1>1, <2>1
  <2>3. Receiving(rows, B, C)'
    BY <2>1, <2>2, Zenon DEF Receiving, after
  <2>4. delivered' \in 0..Len(emitted) /\ delivered' # delivered
    BY <1>1, <1>2, <2>2 DEF InFlight
  <2> QED BY <2>2, <2>3, <2>4, Zenon DEF Advances
<1> QED BY <1>3, <1>4, <1>5

(* So does delivering a copy cut short, which does not count as delivered. *)
LEMMA DeliverShortAdvances ==
  ASSUME EncoderInv, NEW rows, NEW B, NEW C, Telling(rows, B, C), Receiving(rows, B, C),
         delivered \in 0..Len(emitted), DeliverShort
  PROVE  Advances(rows, B, C) /\ accepted' = FALSE
<1> DEFINE row == rows[delivered + 1]
<1>1. /\ InFlight /\ UNCHANGED encoderVars
      /\ delivered' = IF accepted' THEN delivered + 1 ELSE delivered
  BY DEF DeliverShort
<1>2. PICK copy \in ShortCopies(NextPacket) : Receive(copy)
  BY DEF DeliverShort
<1>3. emitted' = emitted /\ decoded \o <<>> = decoded
  BY <1>1, DecodedType, Zenon DEF encoderVars
<1>4. /\ NextPacket \in StreamPacket
      /\ Carries(NextPacket, row, rows[(delivered + 1) + 1], B, C)
  BY <1>1, NextIsCarried, Zenon
<1> HIDE DEF row
<1>5. PICK pending \in Pending, l_id \in Nat, l_d \in 0..ChunkBitLen :
        /\ NextPacket = Packet(pending, l_id, l_d)
        /\ Means(pending, l_id, l_d, row.bases, row.chunks, B, C)
        /\ pending.parameters_present \/ row.parameters = <<l_id, l_d>>
  BY <1>4, Zenon DEF Carries
<1>6. FieldsFit(pending, l_id, l_d)
  BY <1>5, Zenon DEF Means
<1>7. pending.parameters_present =>
        NextPacket.parameters = <<l_id, l_d>> /\ NextPacket.parameters_present
  <2>1. NextPacket.parameters_present = pending.parameters_present
    BY <1>5, PacketFields, Zenon
  <2>2. pending.parameters_present => NextPacket.parameters_present
    BY <2>1
  <2>3. pending.parameters_present => NextPacket.parameters = <<l_id, l_d>>
    BY <1>5, PacketParameters, Zenon
  <2> QED BY <2>2, <2>3, Zenon
<1>8. PICK parameters :
        /\ decoder = At(B, row.bases, parameters)
        /\ pending.parameters_present \/ parameters = <<l_id, l_d>>
  <2>1. \/ decoder = At(B, row.bases, row.parameters)
        \/ /\ NextPacket.parameters_present
           /\ decoder = At(B, row.bases, NextPacket.parameters)
    BY Zenon DEF Receiving, row
  <2>2. NextPacket.parameters_present = pending.parameters_present
    BY <1>5, PacketFields, Zenon
  <2>3. NextPacket.parameters_present => pending.parameters_present
    BY <2>2
  <2> QED BY <1>5, <2>1, <2>3, Zenon
<1>9. \/ DecodePacket(decoder, copy) = Rejected(decoder)
      \/ /\ pending.parameters_present
         /\ DecodePacket(decoder, copy) = Rejected(At(B, row.bases, <<l_id, l_d>>))
  <2>1. /\ Packet(pending, l_id, l_d) \in StreamPacket
        /\ copy \in ShortCopies(Packet(pending, l_id, l_d))
    BY <1>2, <1>4, <1>5, Zenon
  <2>2. CopyMeans(copy, pending, l_id, l_d, B, row.bases, parameters)
    BY <1>6, <1>8, <2>1, ShortDecodes, Zenon
  <2> QED BY <1>8, <2>2, Zenon DEF CopyMeans
<1>10. accepted' = FALSE /\ decoded' = decoded
  BY <1>2, <1>3, <1>9, Refusal, Zenon
<1>11. \/ decoder' = decoder
       \/ /\ NextPacket.parameters_present
          /\ decoder' = At(B, row.bases, NextPacket.parameters)
  <2>1. \/ decoder' = decoder
        \/ pending.parameters_present /\ decoder' = At(B, row.bases, <<l_id, l_d>>)
    BY <1>2, <1>3, <1>9, Refusal, Zenon
  <2> QED BY <1>7, <2>1, Zenon
<1>12. delivered' = delivered
  BY <1>1, <1>10
<1>13. Receiving(rows, B, C)'
  BY <1>1, <1>3, <1>10, <1>11, <1>12, Zenon DEF Receiving, InFlight, NextPacket, row
<1> QED BY <1>10, <1>12, <1>13, Zenon DEF Advances

(* Where the decoder is does not change when the encoder goes on.          *)
LEMMA EncodeKeeps ==
  ASSUME EncoderInv, NEW rows, NEW B, NEW C, Telling(rows, B, C), Receiving(rows, B, C),
         delivered \in 0..Len(emitted), Encode
  PROVE  /\ EncoderInv' /\ delivered' \in 0..Len(emitted')
         /\ \E rows2, B2, C2 : Telling(rows2, B2, C2)' /\ Receiving(rows2, B2, C2)'
<1> DEFINE row == rows[delivered + 1]
<1>1. /\ EncoderNext /\ decoder' = decoder /\ decoded' = decoded
      /\ delivered' = delivered
  BY DEF Encode, decoderVars
<1>2. EncoderInv'
  BY <1>1, NextPreserves
<1>3. /\ Continues(emitted, emitted')
      /\ \E rows2, B2, C2 : /\ MoreTold(rows, B, C, rows2, B2, C2)
                            /\ Telling(rows2, B2, C2)'
  BY <1>1, NextTells
<1>4. PICK rows2, B2, C2 : /\ MoreTold(rows, B, C, rows2, B2, C2)
                           /\ Telling(rows2, B2, C2)'
  BY <1>3, Zenon
<1>5. /\ Continues(rows, rows2) /\ Continues(B, B2) /\ Continues(C, C2)
  BY <1>4, Zenon DEF MoreTold
<1>6. /\ emitted \in Seq(StreamPacket) /\ Len(emitted) \in Nat
      /\ B \in Seq(PackedBase) /\ C \in Seq(Chunk)
      /\ delivered + 1 \in 1..Len(rows)
      /\ row.bases \in Nat /\ row.bases <= Len(B)
      /\ row.chunks \in Nat /\ row.chunks <= Len(C)
  BY StoryOfEmitted, RowReached, Zenon
<1>7. /\ Len(emitted') \in Nat /\ B2 \in Seq(PackedBase) /\ C2 \in Seq(Chunk)
  <2>1. EncoderInv => emitted \in Seq(StreamPacket)
    BY Zenon DEF EncoderInv
  <2>2. emitted' \in Seq(StreamPacket)
    BY <1>2, Zenon DEF EncoderInv
  <2>3. Tells(emitted', encoder', rows2, B2, C2)
    BY <1>4, Zenon DEF Telling
  <2>4. B2 \in Seq(PackedBase) /\ C2 \in Seq(Chunk)
    BY <2>3, TellsLengths, Zenon
  <2> QED BY <2>2, <2>4, LenProperties
<1>8. rows2[delivered + 1] = row
  BY <1>5, <1>6 DEF Continues
<1> HIDE DEF row
<1>9. SubSeq(B2, 1, row.bases) = SubSeq(B, 1, row.bases)
  BY <1>5, <1>6, <1>7, PrefixStays
<1>10. SubSeq(C2, 1, row.chunks) = SubSeq(C, 1, row.chunks)
  BY <1>5, <1>6, <1>7, PrefixStays
<1>11. /\ delivered \in 0..Len(emitted')
       /\ InFlight => delivered < Len(emitted') /\ emitted'[delivered + 1] = NextPacket
  BY <1>3, <1>6, <1>7 DEF Continues, InFlight, NextPacket
<1>12. Receiving(rows, B, C)
  OBVIOUS
<1>13. /\ decoded = Samples(SubSeq(C, 1, row.chunks))
       /\ \/ decoder = At(B, row.bases, row.parameters)
          \/ /\ InFlight /\ NextPacket.parameters_present
             /\ decoder = At(B, row.bases, NextPacket.parameters)
  BY Zenon DEF Receiving, row
<1>14. /\ decoded = Samples(SubSeq(C2, 1, row.chunks))
       /\ \/ decoder = At(B2, row.bases, row.parameters)
          \/ /\ InFlight /\ NextPacket.parameters_present
             /\ decoder = At(B2, row.bases, NextPacket.parameters)
  BY <1>9, <1>10, <1>13, Zenon DEF At
<1>15. Receiving(rows2, B2, C2)'
  <2>1. InFlight => InFlight' /\ NextPacket' = NextPacket
    BY <1>1, <1>11, Zenon DEF InFlight, NextPacket
  <2> HIDE DEF InFlight, NextPacket
  <2> QED BY <1>1, <1>8, <1>14, <2>1, Zenon DEF Receiving
<1> QED BY <1>1, <1>2, <1>4, <1>11, <1>15, Zenon

(* At first the decoder has been told nothing.                             *)
LEMMA InitReceives == Init => PipelineInv
<1> SUFFICES ASSUME Init PROVE PipelineInv
  OBVIOUS
<1> DEFINE rows == <<FirstRow>>
<1>1. EncoderInit /\ DecoderInit /\ delivered = 0 /\ emitted = <<>>
  BY DEF Init, EncoderInit
<1>2. EncoderInv /\ Telling(rows, <<>>, <<>>)
  BY <1>1, InitEstablishes, InitTells, Zenon
<1>3. delivered \in 0..Len(emitted)
  BY <1>1
<1>4. /\ rows[delivered + 1] = FirstRow
      /\ FirstRow.bases = 0 /\ FirstRow.chunks = 0 /\ FirstRow.parameters = <<>>
  BY <1>1 DEF FirstRow
<1> HIDE DEF rows
<1>5. SubSeq(<<>>, 1, 0) = <<>>
  OBVIOUS
<1>6. Samples(<<>>) = <<>>
  <2>1. Len(<<>>) * SamplesPerChunk = 0
    BY Geometry
  <2> QED BY <2>1 DEF Samples, Join
<1>7. decoder = At(<<>>, 0, <<>>) /\ decoded = <<>>
  BY <1>1, <1>5, Zenon DEF DecoderInit, NewDecoder, At
<1>8. Receiving(rows, <<>>, <<>>)
  BY <1>4, <1>5, <1>6, <1>7, Zenon DEF Receiving
<1> QED BY <1>2, <1>3, <1>8, Zenon DEF PipelineInv

(* Every step of the pipeline preserves the invariant.                     *)
LEMMA PipelineNextPreserves == PipelineInv /\ [Next]_vars => PipelineInv'
<1> SUFFICES ASSUME PipelineInv, [Next]_vars PROVE PipelineInv'
  OBVIOUS
<1>1. EncoderInv /\ delivered \in 0..Len(emitted)
  BY Zenon DEF PipelineInv
<1>2. PICK rows, B, C : Telling(rows, B, C) /\ Receiving(rows, B, C)
  BY Zenon DEF PipelineInv
<1>3. CASE Encode
  BY <1>1, <1>2, <1>3, EncodeKeeps, Zenon DEF PipelineInv
<1>4. CASE Deliver \/ DeliverShort
  <2>1. Advances(rows, B, C)
    BY <1>1, <1>2, <1>4, DeliverAdvances, DeliverShortAdvances, Zenon
  <2>2. UNCHANGED encoderVars
    BY <1>4 DEF Deliver, DeliverShort
  <2>3. EncoderInv' /\ Telling(rows, B, C)' /\ emitted' = emitted
    BY <1>1, <1>2, <2>2, EncoderStays, Zenon
  <2> QED BY <2>1, <2>3, Zenon DEF PipelineInv, Advances
<1>5. CASE UNCHANGED vars
  <2>1. /\ UNCHANGED encoderVars /\ decoder' = decoder /\ decoded' = decoded
        /\ delivered' = delivered
    BY <1>5 DEF vars, decoderVars
  <2>2. EncoderInv' /\ Telling(rows, B, C)' /\ emitted' = emitted
    BY <1>1, <1>2, <2>1, EncoderStays, Zenon
  <2>3. Receiving(rows, B, C)'
    BY <1>2, <2>1, <2>2, Zenon DEF Receiving, InFlight, NextPacket
  <2> QED BY <1>1, <2>1, <2>2, <2>3, Zenon DEF PipelineInv
<1> QED BY <1>3, <1>4, <1>5 DEF Next

(* The decoder is always where the packets it accepted end.                *)
THEOREM DecoderFollowsEncoder == Spec => []PipelineInv
BY InitReceives, PipelineNextPreserves, PTL DEF Spec

----------------------------------------------------------------------------
(* The pipeline implements the lossless channel.                           *)

(* Samples that nobody pushed are zeros at the end.                        *)
LEMMA PaddedPushed ==
  ASSUME EncoderInv
  PROVE  /\ Channel!Padded(pushed) = Filled(pushed)
         /\ pushed \in Seq(Sample)
         /\ \E zeros \in Seq(Sample) : Channel!Padded(pushed) = pushed \o zeros
<1> DEFINE w == SamplesPerChunk
           count == (w - (Len(pushed) % w)) % w
           zeros == [i \in 1..count |-> ZeroSample]
<1>1. pushed \in Seq(Sample) /\ Len(pushed) \in Nat /\ w \in Nat \ {0}
  BY LenProperties, Geometry DEF EncoderInv
<1>2. count \in Nat
  <2> DEFINE n == Len(pushed)
  <2>1. n \in Nat /\ w \in Nat \ {0}
    BY <1>1
  <2> HIDE DEF n, w
  <2>2. n % w \in 0..(w - 1)
    BY <2>1
  <2>3. (w - (n % w)) \in Nat
    BY <2>1, <2>2
  <2>4. (w - (n % w)) % w \in Nat
    BY <2>1, <2>3
  <2> QED BY <2>4 DEF n, w
<1>3. ZeroSample \in Sample
  BY DEF ZeroSample, Sample, BitString, ZeroBits, Bit
<1>4. zeros \in Seq(Sample)
  <2> HIDE DEF count
  <2>1. zeros \in [1..count -> Sample]
    BY <1>3
  <2> QED BY <1>2, <2>1, FunctionIsSequence
<1>5. Channel!Padded(pushed) = pushed \o zeros
  BY Zenon DEF Channel!Padded
<1>6. Filled(pushed) = pushed \o zeros
  BY Zenon DEF Filled
<1> QED BY <1>1, <1>4, <1>5, <1>6, Zenon

(* What the channel has for its receiver begins with the chunks encoded.   *)
LEMMA ChunksComeFirst ==
  ASSUME EncoderInv, NEW rows, NEW B, NEW C, Telling(rows, B, C)
  PROVE  /\ Samples(C) \in Seq(Sample)
         /\ \E rest \in Seq(Sample) : Channel!ToReceive = Samples(C) \o rest
<1> DEFINE x == Samples(C)
           buffer == encoder.sample_buffer
<1>1. x \in Seq(Sample)
  <2>1. C \in Seq(Chunk)
    BY StoryOfEmitted, Zenon
  <2>2. 0 \in Nat /\ 0 <= Len(C)
    BY <2>1
  <2> QED BY <2>1, <2>2, SamplesOfPrefix
<1>2. buffer \in Seq(Sample) /\ phase \in {"open", "finished"}
  BY EncoderFields DEF EncoderInv, Between, Sound
<1>3. PICK zeros \in Seq(Sample) : Channel!Padded(pushed) = pushed \o zeros
  BY PaddedPushed, Zenon
<1>4. phase = "open" => pushed = x \o buffer
  BY Zenon DEF Telling, Accounts, AreSamples, Samples
<1>5. phase = "finished" => Channel!Padded(pushed) = x
  BY PaddedPushed, Zenon DEF Telling, Accounts, FillChunks, Samples
<1>6. phase = "finished" => ~ Running
  BY DEF Running
<1> HIDE DEF x, buffer
<1>7. CASE phase = "finished"
  <2>1. Channel!ToReceive = x
    BY <1>5, <1>6, <1>7, Zenon DEF Channel!ToReceive
  <2>2. x = x \o <<>> /\ <<>> \in Seq(Sample)
    BY <1>1, ConcatEmptySeq
  <2> QED BY <1>1, <2>1, <2>2, Zenon DEF x
<1>8. CASE phase = "open" /\ Running
  <2>1. Channel!ToReceive = x \o buffer
    BY <1>4, <1>8, Zenon DEF Channel!ToReceive
  <2> QED BY <1>1, <1>2, <2>1, Zenon DEF x
<1>9. CASE phase = "open" /\ ~ Running
  <2>1. Channel!ToReceive = (x \o buffer) \o zeros
    BY <1>3, <1>4, <1>9, Zenon DEF Channel!ToReceive
  <2>2. (x \o buffer) \o zeros = x \o (buffer \o zeros)
    <3>1. \A s, t, u \in Seq(Sample) : (s \o t) \o u = s \o (t \o u)
      BY ONLY ConcatThrice, SMT
    <3> QED BY <1>1, <1>2, <3>1, Zenon
  <2>3. buffer \o zeros \in Seq(Sample)
    BY <1>2, ConcatProperties, Zenon
  <2> QED BY <1>1, <2>1, <2>2, <2>3, Zenon DEF x
<1> QED BY <1>2, <1>7, <1>8, <1>9

(* So the samples of the first chunks are the first the receiver gets.     *)
AreTheFirst(samples, k) ==
  /\ k \in Nat /\ Len(Channel!ToReceive) \in Nat /\ k <= Len(Channel!ToReceive)
  /\ samples = SubSeq(Channel!ToReceive, 1, k) /\ Len(samples) = k

(* The chunks told are the samples to receive, as far as they go.          *)
LEMMA FirstChunksReceived ==
  ASSUME EncoderInv, NEW rows, NEW B, NEW C, Telling(rows, B, C),
         NEW n \in Nat, n <= Len(C)
  PROVE  AreTheFirst(Samples(SubSeq(C, 1, n)), n * SamplesPerChunk)
<1> DEFINE x == Samples(C)
           k == n * SamplesPerChunk
           all == Channel!ToReceive
           first == Samples(SubSeq(C, 1, n))
<1>1. /\ first = SubSeq(x, 1, k) /\ Len(x) = Len(C) * SamplesPerChunk
      /\ k \in Nat /\ k <= Len(C) * SamplesPerChunk
  <2>1. C \in Seq(Chunk)
    BY StoryOfEmitted, Zenon
  <2> QED BY <2>1, SamplesOfPrefix
<1>2. x \in Seq(Sample)
  BY ChunksComeFirst, Zenon
<1>3. PICK rest \in Seq(Sample) : all = x \o rest
  BY ChunksComeFirst, Zenon
<1> HIDE DEF x, k, all, first
<1>4. k <= Len(x) /\ Len(x) \in Nat
  BY <1>1, <1>2
<1>5. /\ all \in Seq(Sample) /\ Len(all) = Len(x) + Len(rest) /\ Len(rest) \in Nat
      /\ \A i \in 1..Len(x) : all[i] = x[i]
  <2>1. Len(rest) \in Nat
    OBVIOUS
  <2>2. /\ x \o rest \in Seq(Sample) /\ Len(x \o rest) = Len(x) + Len(rest)
        /\ \A i \in 1..Len(x) : (x \o rest)[i] = x[i]
    BY <1>2, ConcatPlaces
  <2> QED BY <1>3, <2>1, <2>2, Zenon
<1>6. Continues(x, all)
  BY <1>4, <1>5 DEF Continues
<1>7. SubSeq(all, 1, k) = SubSeq(x, 1, k)
  BY <1>1, <1>2, <1>4, <1>5, <1>6, PrefixStays
<1>8. Len(first) = k
  BY <1>1, <1>2, <1>4, PrefixPlaces
<1>9. k <= Len(all) /\ Len(all) \in Nat
  BY <1>1, <1>4, <1>5
<1> QED BY <1>1, <1>7, <1>8, <1>9, Zenon DEF AreTheFirst, k, all, first

(* The encoder's steps send, or close the channel.                         *)
LEMMA EncodeSends ==
  ASSUME EncoderInv, Encode
  PROVE  Channel!Send \/ Channel!Close
<1>1. EncoderNext /\ decoded' = decoded
  BY DEF Encode, decoderVars
<1>2. ASSUME NEW sample \in Sample, PushSample(sample) PROVE Channel!Send
  <2>1. Running /\ phase' = phase /\ pushed' = Append(pushed, sample)
    BY <1>2 DEF PushSample
  <2>2. encoder'.status = "ok"
    <3> DEFINE after == Buffered(encoder, sample)
    <3>1. Between(encoder) /\ encoder.status = "ok"
      BY <2>1 DEF EncoderInv, Running
    <3>2. after.status = "ok"
      BY <1>2 DEF PushSample
    <3>3. encoder' = after \/ encoder' = [after EXCEPT !.ready = Tail(@)]
      BY <1>2 DEF PushSample
    <3>4. after \in Encoder
      BY <3>1, <3>2, BufferedSound DEF Sound
    <3> HIDE DEF after
    <3> QED BY <3>2, <3>3, <3>4 DEF Encoder
  <2>3. Running'
    BY <2>1, <2>2 DEF Running
  <2>4. (~ Running)' = (~ Running)
    BY <2>1, <2>3
  <2> QED BY <1>1, <2>1, <2>4, Zenon DEF Channel!Send
<1>3. ASSUME Running, ~ Running', pushed' = pushed PROVE Channel!Close
  <2>1. (~ Running)' = TRUE
    BY <1>3
  <2> QED BY <1>1, <1>3, <2>1, Zenon DEF Channel!Close
<1>4. encoder \in Encoder
  BY DEF EncoderInv, Between, Sound
<1>5. ASSUME NEW sample \in Sample, PushFails(sample) PROVE Channel!Close
  <2> DEFINE status == Buffered(encoder, sample).status
  <2>1. Running /\ pushed' = pushed /\ status # "ok"
        /\ encoder' = [encoder EXCEPT !.status = status]
    BY <1>5 DEF PushFails
  <2> HIDE DEF status
  <2>2. encoder'.status = status
    BY <1>4, <2>1 DEF Encoder
  <2>3. ~ Running'
    BY <2>1, <2>2, Zenon DEF Running
  <2> QED BY <1>3, <2>1, <2>3, Zenon
<1>6. ASSUME FinishFails PROVE Channel!Close
  <2> DEFINE status == Drained(encoder).status
  <2>1. Running /\ pushed' = pushed /\ status # "ok"
        /\ encoder' = [encoder EXCEPT !.status = status]
    BY <1>6 DEF FinishFails
  <2> HIDE DEF status
  <2>2. encoder'.status = status
    BY <1>4, <2>1 DEF Encoder
  <2>3. ~ Running'
    BY <2>1, <2>2, Zenon DEF Running
  <2> QED BY <1>3, <2>1, <2>3, Zenon
<1>7. ASSUME Finish PROVE Channel!Close
  <2>1. Running /\ pushed' = pushed /\ phase' = "finished"
    BY <1>7 DEF Finish
  <2>2. ~ Running'
    BY <2>1 DEF Running
  <2> QED BY <1>3, <2>1, <2>2, Zenon
<1> QED BY <1>1, <1>2, <1>5, <1>6, <1>7, Zenon DEF EncoderNext

(* Chunks do not get fewer from row to row.                                *)
LEMMA ChunksGrow ==
  ASSUME NEW packet, NEW row, NEW after, NEW B, NEW C, row.chunks \in Nat,
         Carries(packet, row, after, B, C)
  PROVE  row.chunks <= after.chunks
<1>1. PICK pending \in Pending, l_id \in Nat, l_d \in 0..ChunkBitLen :
        after = RowAfter(row, pending, l_id, l_d)
  BY Zenon DEF Carries
<1>2. after.chunks = row.chunks + Len(pending.pairs)
  BY <1>1, Zenon DEF RowAfter
<1>3. Len(pending.pairs) \in Nat
  <2>1. pending.pairs \in Seq(Pair)
    BY DEF Pending
  <2> QED BY <2>1, LenProperties
<1> QED BY <1>2, <1>3

(* A delivery hands over samples, or changes nothing the channel sees.     *)
LEMMA AdvanceReceives ==
  ASSUME EncoderInv, NEW rows, NEW B, NEW C, Telling(rows, B, C), Receiving(rows, B, C),
         delivered \in 0..Len(emitted), InFlight,
         UNCHANGED encoderVars, Advances(rows, B, C)
  PROVE  Channel!ReceiveSome \/ UNCHANGED Channel!channelVars
<1> DEFINE w == SamplesPerChunk
           m == rows[delivered + 1].chunks
           n == rows[(delivered + 1) + 1].chunks
           all == Channel!ToReceive
<1>1. pushed' = pushed /\ (~ Running)' = (~ Running)
  BY DEF encoderVars, Running
<1>2. CASE delivered' = delivered
  <2>1. decoded' = decoded
    BY <1>2, Zenon DEF Advances
  <2> QED BY <1>1, <2>1, Zenon DEF Channel!channelVars
<1>3. CASE delivered' = delivered + 1
  <2>1. /\ m \in Nat /\ m <= Len(C) /\ n \in Nat /\ n <= Len(C) /\ m <= n
    <3>1. /\ C \in Seq(Chunk) /\ B \in Seq(PackedBase) /\ Len(emitted) \in Nat
          /\ emitted \in Seq(StreamPacket)
          /\ Story(emitted, rows, B, C) /\ Len(rows) = Len(emitted) + 1
      BY StoryOfEmitted, Zenon
    <3>2. delivered + 1 \in 1..Len(rows) /\ (delivered + 1) + 1 \in 1..Len(rows)
      BY <3>1 DEF InFlight
    <3>3. m \in Nat /\ m <= Len(C) /\ n \in Nat /\ n <= Len(C)
      BY <3>1, <3>2, RowsOfStory
    <3>4. Carries(NextPacket, rows[delivered + 1], rows[(delivered + 1) + 1], B, C)
      BY NextIsCarried, Zenon
    <3>5. m <= n
      BY <3>3, <3>4, ChunksGrow, Zenon
    <3> QED BY <3>3, <3>5
  <2>2. decoded = Samples(SubSeq(C, 1, m))
    BY Zenon DEF Receiving
  <2>3. decoded' = Samples(SubSeq(C, 1, n))
    BY <1>3, Zenon DEF Advances, Receiving
  <2> HIDE DEF m, n
  <2>4. /\ m * w \in Nat /\ decoded = SubSeq(all, 1, m * w) /\ Len(decoded) = m * w
    <3>1. AreTheFirst(decoded, m * w)
      BY <2>1, <2>2, FirstChunksReceived, Zenon
    <3> QED BY <3>1, Zenon DEF AreTheFirst
  <2>5. /\ n * w \in Nat /\ n * w <= Len(all) /\ Len(all) \in Nat
        /\ decoded' = SubSeq(all, 1, n * w)
    <3>1. AreTheFirst(Samples(SubSeq(C, 1, n)), n * w)
      BY <2>1, FirstChunksReceived, Zenon
    <3> QED BY <2>3, <3>1, Zenon DEF AreTheFirst
  <2>6. m * w <= n * w
    <3>1. n - m \in Nat /\ m + (n - m) = n
      BY <2>1
    <3>2. w \in Nat
      BY Geometry
    <3> HIDE DEF w
    <3>3. m * w <= (m + (n - m)) * w
      BY <2>1, <3>1, <3>2, MoreFields, Zenon
    <3> QED BY <3>1, <3>3, Zenon
  <2> HIDE DEF all, w
  <2>7. CASE m * w = n * w
    <3>1. decoded' = decoded
      BY <2>4, <2>5, <2>7, Zenon
    <3> QED BY <1>1, <3>1, Zenon DEF Channel!channelVars
  <2>8. CASE m * w # n * w
    <3>1. n * w \in (Len(decoded) + 1)..Len(all)
      <4> DEFINE j == m * w
                 k == n * w
      <4>1. /\ j \in Nat /\ k \in Nat /\ j <= k /\ j # k /\ k <= Len(all) /\ Len(decoded) = j
            /\ Len(all) \in Nat
        BY <2>4, <2>5, <2>6, <2>8
      <4> HIDE DEF j, k
      <4>2. k \in (Len(decoded) + 1)..Len(all)
        BY <4>1
      <4> QED BY <4>2 DEF k
    <3> QED BY <1>1, <2>5, <3>1, Zenon DEF Channel!ReceiveSome, all
  <2> QED BY <2>7, <2>8
<1> QED BY <1>2, <1>3 DEF Advances

(* Initially nothing is sent, nothing received, and the channel is open.   *)
LEMMA InitIsChannelInit == Init => Channel!ChannelInit
<1> SUFFICES ASSUME Init PROVE Channel!ChannelInit
  OBVIOUS
<1>1. pushed = <<>> /\ decoded = <<>>
  BY DEF Init, EncoderInit, DecoderInit
<1>2. Running
  BY DEF Init, EncoderInit, NewEncoder, Running
<1>3. (~ Running) = FALSE
  BY <1>2
<1> QED BY <1>1, <1>3, Zenon DEF Channel!ChannelInit

(* Every step of the pipeline is a step of the channel or leaves it as it  *)
(* is.                                                                     *)
LEMMA NextIsChannelNext ==
  PipelineInv /\ [Next]_vars => [Channel!ChannelNext]_(Channel!channelVars)
<1> SUFFICES ASSUME PipelineInv, [Next]_vars
             PROVE  [Channel!ChannelNext]_(Channel!channelVars)
  OBVIOUS
<1>1. EncoderInv /\ delivered \in 0..Len(emitted)
  BY Zenon DEF PipelineInv
<1>2. PICK rows, B, C : Telling(rows, B, C) /\ Receiving(rows, B, C)
  BY Zenon DEF PipelineInv
<1>3. CASE Encode
  BY <1>1, <1>3, EncodeSends, Zenon DEF Channel!ChannelNext
<1>4. CASE Deliver \/ DeliverShort
  <2>1. Advances(rows, B, C)
    BY <1>1, <1>2, <1>4, DeliverAdvances, DeliverShortAdvances, Zenon
  <2>2. InFlight /\ UNCHANGED encoderVars
    BY <1>4 DEF Deliver, DeliverShort
  <2> QED BY <1>1, <1>2, <2>1, <2>2, AdvanceReceives, Zenon DEF Channel!ChannelNext
<1>5. CASE UNCHANGED vars
  <2>1. UNCHANGED encoderVars /\ decoded' = decoded
    BY <1>5 DEF vars, decoderVars
  <2>2. pushed' = pushed /\ (~ Running)' = (~ Running)
    BY <2>1 DEF encoderVars, Running
  <2> QED BY <2>1, <2>2, Zenon DEF Channel!channelVars
<1> QED BY <1>3, <1>4, <1>5 DEF Next

(* For every configuration, every stream, and every way in which packets   *)
(* arrive cut short, encoder, transport and decoder implement the channel: *)
(* what comes out of decode_packet is what went into push_sample, in       *)
(* order, nothing lost, changed or made up.                                *)
THEOREM PipelineIsLossless == Spec => Lossless
<1>1. PipelineInv /\ [Next]_vars => [Channel!ChannelNext]_(Channel!channelVars)
  BY NextIsChannelNext
<1> QED BY <1>1, InitIsChannelInit, DecoderFollowsEncoder, PTL
        DEF Spec, Lossless, Channel!ChannelSpec

----------------------------------------------------------------------------
(* The other promises of the pipeline.                                     *)

(* No step accepts a short copy.                                           *)
LEMMA ShortStepsAreRefused ==
  PipelineInv /\ [Next]_vars => [DeliverShort => accepted' = FALSE]_vars
<1> SUFFICES ASSUME PipelineInv, DeliverShort PROVE accepted' = FALSE
  OBVIOUS
<1>1. EncoderInv /\ delivered \in 0..Len(emitted)
  BY Zenon DEF PipelineInv
<1>2. PICK rows, B, C : Telling(rows, B, C) /\ Receiving(rows, B, C)
  BY Zenon DEF PipelineInv
<1> QED BY <1>1, <1>2, DeliverShortAdvances, Zenon

(* decode_packet refuses every copy of a packet that lost bytes at its     *)
(* end: the chunk count tells how much there must be, and no packet has a  *)
(* byte to spare.                                                          *)
THEOREM ShortCopiesNeverPass == Spec => ShortCopiesAreRefused
<1>1. PipelineInv /\ [Next]_vars => [DeliverShort => accepted' = FALSE]_vars
  BY ShortStepsAreRefused
<1> QED BY <1>1, DecoderFollowsEncoder, PTL DEF Spec, ShortCopiesAreRefused

(* What a decoder knows is what was assigned.                              *)
LEMMA DictionariesAgreeNow == PipelineInv => DictionariesAgree
<1> SUFFICES ASSUME PipelineInv,
                    NEW i \in 1..Len(encoder.dictionary.active),
                    encoder.dictionary.active[i].id < Len(decoder.dictionary)
             PROVE  decoder.dictionary[encoder.dictionary.active[i].id + 1]
                      = encoder.dictionary.active[i].base
  BY Zenon DEF DictionariesAgree
<1> DEFINE entry == encoder.dictionary.active[i]
           id == entry.id
<1>1. EncoderInv /\ delivered \in 0..Len(emitted)
  BY Zenon DEF PipelineInv
<1>2. PICK rows, B, C : Telling(rows, B, C) /\ Receiving(rows, B, C)
  BY Zenon DEF PipelineInv
<1> DEFINE n == rows[delivered + 1].bases
<1>3. n \in Nat /\ n <= Len(B) /\ B \in Seq(PackedBase)
  BY <1>1, <1>2, StoryOfEmitted, RowReached, Zenon
<1>4. PICK parameters : decoder = At(B, n, parameters)
  BY <1>2, Zenon DEF Receiving
<1>5. decoder.dictionary = SubSeq(B, 1, n)
  BY <1>4 DEF At
<1>6. B[id + 1] = entry.base
  <2>1. Tells(emitted, encoder, rows, B, C)
    BY <1>2, Zenon DEF Telling
  <2>2. ActiveAre(encoder.dictionary, B)
    BY <2>1, Zenon DEF Tells, GoesOn
  <2> QED BY <2>2, Zenon DEF ActiveAre
<1>7. id \in Nat
  <2>1. encoder.dictionary \in DictionaryState
    BY <1>1, EncoderFields DEF EncoderInv, Between, Sound
  <2>2. encoder.dictionary.active \in Seq(Entry)
    BY <2>1 DEF DictionaryState
  <2>3. entry \in Entry
    BY <2>2
  <2> HIDE DEF entry
  <2> QED BY <2>3 DEF Entry
<1> HIDE DEF n, id, entry
<1>8. /\ Len(decoder.dictionary) = n
      /\ \A j \in 1..n : decoder.dictionary[j] = B[j]
  BY <1>3, <1>5, PrefixPlaces
<1>9. id < n
  BY <1>8 DEF id, entry
<1>10. decoder.dictionary[id + 1] = entry.base
  BY <1>3, <1>6, <1>7, <1>8, <1>9
<1> QED BY <1>10 DEF id, entry

(* Whatever the encoder's dictionary evicts, an active base that the       *)
(* decoder has been told about is under its ID in the decoder.             *)
THEOREM DictionariesAlwaysAgree == Spec => []DictionariesAgree
BY DictionariesAgreeNow, DecoderFollowsEncoder, PTL

(* The width of the packets in flight is at most that of the encoder.      *)
LEMMA NarrowEnough ==
  ASSUME EncoderInv, NEW rows, NEW B, NEW C, Telling(rows, B, C),
         delivered \in 0..Len(emitted), InFlight
  PROVE  /\ rows[(delivered + 1) + 1].parameters[1] \in Nat
         /\ rows[(delivered + 1) + 1].parameters[1] <= encoder.l_id
         /\ encoder.l_id \in Nat
<1>1. /\ emitted \in Seq(StreamPacket) /\ Len(emitted) \in Nat
      /\ Story(emitted, rows, B, C) /\ Len(rows) = Len(emitted) + 1
      /\ B \in Seq(PackedBase) /\ C \in Seq(Chunk)
  BY StoryOfEmitted
<1>2. (delivered + 1) + 1 \in 2..Len(rows)
  BY <1>1 DEF InFlight
<1>3. \A k \in 2..Len(rows) : rows[k].parameters[1] <= encoder.l_id
  BY Zenon DEF Telling, Tells
<1>4. \A k \in 2..Len(rows) : rows[k].parameters[1] \in Nat
  BY <1>1, RowsOfStory
<1>5. encoder.l_id \in Nat
  BY EncoderFields DEF EncoderInv, Between, Sound
<1> QED BY <1>2, <1>3, <1>4, <1>5

(* The packet in flight is accepted if its ID width is one decoders know.  *)
LEMMA AcceptedWhileNarrow ==
  ASSUME PipelineInv, encoder.l_id <= IdBits
  PROVE  WholePacketsAreAccepted
<1> SUFFICES ASSUME InFlight PROVE DecodePacket(decoder, NextPacket).ok
  BY DEF WholePacketsAreAccepted
<1>1. EncoderInv /\ delivered \in 0..Len(emitted)
  BY Zenon DEF PipelineInv
<1>2. PICK rows, B, C : Telling(rows, B, C) /\ Receiving(rows, B, C)
  BY Zenon DEF PipelineInv
<1> DEFINE l_id == rows[(delivered + 1) + 1].parameters[1]
<1>3. l_id \in Nat /\ l_id <= encoder.l_id /\ encoder.l_id \in Nat
  BY <1>1, <1>2, NarrowEnough
<1>4. ~ (l_id > IdBits)
  <2> HIDE DEF l_id
  <2> QED BY <1>3, Constants
<1>5. \/ l_id > IdBits
      \/ DecodePacket(decoder, NextPacket).ok = TRUE
  BY <1>1, <1>2, WholeArrives, Zenon DEF Arrives
<1> QED BY <1>4, <1>5

(* So the packet in flight is accepted while IDs suffice.                  *)
LEMMA AcceptedNow == PipelineInv => (IdsSuffice => WholePacketsAreAccepted)
<1> SUFFICES ASSUME PipelineInv, IdsSuffice PROVE WholePacketsAreAccepted
  OBVIOUS
<1>1. EncoderInv
  BY Zenon DEF PipelineInv
<1>2. encoder.l_id <= IdBits
  BY <1>1, NarrowWhileIdsSuffice, Zenon
<1> QED BY <1>2, AcceptedWhileNarrow, Zenon

(* No packet that an encoder returned is refused when it arrives whole,    *)
(* also after copies of it cut short, as long as the IDs suffice.  Beyond  *)
(* that the encoder announces a width that decoders refuse.                *)
THEOREM WholePacketsPass == Spec => [](IdsSuffice => WholePacketsAreAccepted)
BY AcceptedNow, DecoderFollowsEncoder, PTL

----------------------------------------------------------------------------
(* A packet in the file.                                                   *)

(* What every packet is: its parameters are two bytes or none, its payload *)
(* whole bytes.                                                            *)
WellFormed(packet, l_id, l_d, bytes) ==
  /\ packet = [parameters_present |-> packet.parameters_present,
               new_base_count |-> packet.new_base_count,
               parameters |-> IF packet.parameters_present THEN <<l_id, l_d>> ELSE <<>>,
               payload |-> packet.payload,
               chunk_count |-> packet.chunk_count]
  /\ packet.parameters_present \in BOOLEAN
  /\ packet.new_base_count \in 0..127
  /\ l_id \in Nat /\ l_d \in Nat
  /\ packet.payload \in Seq(Bit) /\ bytes \in Nat /\ Len(packet.payload) = 8 * bytes
  /\ packet.chunk_count \in Nat \ {0}

(* A packet that carries something is well formed.                         *)
LEMMA CarriedIsWellFormed ==
  ASSUME NEW packet \in StreamPacket, NEW row, NEW after, NEW B, NEW C,
         Carries(packet, row, after, B, C)
  PROVE  \E l_id, l_d, bytes : WellFormed(packet, l_id, l_d, bytes)
<1>1. PICK pending \in Pending, l_id \in Nat, l_d \in 0..ChunkBitLen :
        /\ packet = Packet(pending, l_id, l_d)
        /\ FieldsFit(pending, l_id, l_d)
        /\ pending.pairs # <<>>
  BY DEF Carries, Means
<1>2. PICK bytes \in Nat : Len(Payload(pending, l_id, l_d)) = 8 * bytes
  BY <1>1, PayloadLayout
<1>3. packet = [parameters_present |-> pending.parameters_present,
                new_base_count     |-> Len(pending.new_bases),
                parameters         |-> IF pending.parameters_present THEN <<l_id, l_d>> ELSE <<>>,
                payload            |-> Payload(pending, l_id, l_d),
                chunk_count        |-> Len(pending.pairs)]
  BY <1>1 DEF Packet
<1>4. /\ packet.parameters_present \in BOOLEAN
      /\ packet.new_base_count \in 0..NewBaseLimit
      /\ packet.payload \in Seq(Bit)
      /\ packet.chunk_count \in Nat
  BY DEF StreamPacket
<1>5. packet.new_base_count \in 0..127
  <2> DEFINE n == packet.new_base_count
  <2> HIDE DEF n
  <2>1. \A i \in 0..NewBaseLimit : i \in 0..127
    BY ONLY Constants
  <2>2. n \in 0..NewBaseLimit
    BY <1>4 DEF n
  <2>3. n \in 0..127
    BY ONLY <2>1, <2>2, Zenon
  <2> QED BY <2>3 DEF n
<1>6. l_d \in Nat
  BY Geometry
<1>7. /\ packet.parameters_present = pending.parameters_present
      /\ packet.new_base_count = Len(pending.new_bases)
      /\ packet.payload = Payload(pending, l_id, l_d)
      /\ packet.chunk_count = Len(pending.pairs)
  BY <1>3
<1>8. packet.chunk_count \in Nat \ {0}
  <2>1. pending.pairs \in Seq(Pair)
    BY DEF Pending
  <2> QED BY <1>1, <1>7, <2>1
<1>9. WellFormed(packet, l_id, l_d, bytes)
  BY <1>2, <1>3, <1>4, <1>5, <1>6, <1>7, <1>8 DEF WellFormed
<1> QED BY <1>9

(* What SequencesExt flattens lies in the result, in order.                *)
LEMMA Flattened ==
  ASSUME NEW S, NEW q \in Seq(Seq(S)), Len(q) # 0
  PROVE  FlattenSeq(q) \in Seq(S) /\ \E starts : LaysOut(FlattenSeq(q), q, starts)
<1> DEFINE f == CHOOSE flat : Flattens(q, Len(q), flat)
<1>1. FlattenSeq(q) = f[Len(q)]
  <2>1. Len(q) # 0
    OBVIOUS
  <2> QED BY <2>1 DEF FlattenSeq, Flattens
<1>2. Flattens(q, Len(q), f)
  BY LenProperties, FlatteningExists
<1> HIDE DEF f
<1>3. f[Len(q)] \in Seq(S) /\ \E starts : LaysOut(f[Len(q)], q, starts)
  BY <1>2, FlattenedLies
<1> QED BY <1>1, <1>3

(* The parameter bytes of a packet.                                        *)
ParameterBytes(packet) ==
  FlattenSeq([k \in DOMAIN packet.parameters |-> Uint(packet.parameters[k], 1)])

(* There are two of them or none.                                          *)
LEMMA ParametersWritten ==
  ASSUME NEW packet, NEW l_id, NEW l_d, NEW bytes, WellFormed(packet, l_id, l_d, bytes)
  PROVE  /\ ParameterBytes(packet) \in Seq(FileByte)
         /\ packet.parameters_present =>
              /\ Len(ParameterBytes(packet)) = 2
              /\ ParameterBytes(packet)[1].uint = l_id
              /\ ParameterBytes(packet)[2].uint = l_d
         /\ ~ packet.parameters_present => ParameterBytes(packet) = <<>>
<1> DEFINE q == [k \in DOMAIN packet.parameters |-> Uint(packet.parameters[k], 1)]
<1>1. CASE ~ packet.parameters_present
  <2>1. packet.parameters = <<>>
    BY <1>1 DEF WellFormed
  <2>2. q = <<>>
    BY <2>1
  <2>3. Len(q) = 0
    BY <2>2
  <2> HIDE DEF q
  <2>4. FlattenSeq(q) = <<>>
    BY <2>2, <2>3 DEF FlattenSeq
  <2> QED BY <1>1, <2>4 DEF ParameterBytes, q
<1>2. CASE packet.parameters_present
  <2>1. packet.parameters = <<l_id, l_d>> /\ l_id \in Nat /\ l_d \in Nat
    BY <1>2 DEF WellFormed
  <2> DEFINE x == Uint(l_id, 1)
             y == Uint(l_d, 1)
  <2>2. /\ x \in Seq(FileByte) /\ Len(x) = 1 /\ x[1].uint = l_id
        /\ y \in Seq(FileByte) /\ Len(y) = 1 /\ y[1].uint = l_d
    BY <2>1, ByteIsWritten
  <2>3. q = [k \in 1..2 |-> IF k = 1 THEN x ELSE y]
    BY <2>1
  <2> HIDE DEF x, y
  <2>4. q \in [1..2 -> Seq(FileByte)] /\ q[1] = x /\ q[2] = y
    BY <2>2, <2>3
  <2> HIDE DEF q
  <2>5. q \in Seq(Seq(FileByte)) /\ Len(q) = 2
    BY <2>4, FunctionIsSequence
  <2> DEFINE flat == FlattenSeq(q)
  <2>6. PICK starts : LaysOut(flat, q, starts)
    BY <2>5, Flattened
  <2>7. flat \in Seq(FileByte)
    BY <2>5, Flattened
  <2>8. /\ starts[1] = 0 /\ Len(flat) = starts[2 + 1]
        /\ \A k \in 1..2 :
             /\ starts[k + 1] = starts[k] + Len(q[k])
             /\ \A j \in 1..Len(q[k]) : flat[starts[k] + j] = q[k][j]
    BY <2>5, <2>6 DEF LaysOut, Placed
  <2> HIDE DEF flat
  <2>9. starts[2] = 1 /\ flat[1] = x[1]
    <3>1. 1 \in 1..2 /\ 1 \in 1..Len(q[1]) /\ Len(q[1]) = 1
      BY ONLY <2>2, <2>4
    <3>2. starts[1 + 1] = starts[1] + Len(q[1]) /\ flat[starts[1] + 1] = q[1][1]
      BY <2>8, <3>1
    <3> QED BY <2>4, <2>8, <3>1, <3>2
  <2>10. starts[3] = 2 /\ flat[2] = y[1]
    <3>1. 2 \in 1..2 /\ 1 \in 1..Len(q[2]) /\ Len(q[2]) = 1
      BY ONLY <2>2, <2>4
    <3>2. starts[2 + 1] = starts[2] + Len(q[2]) /\ flat[starts[2] + 1] = q[2][1]
      BY <2>8, <3>1
    <3> QED BY <2>4, <2>9, <3>1, <3>2
  <2>11. Len(flat) = 2
    BY <2>8, <2>10
  <2> QED BY <1>2, <2>2, <2>7, <2>9, <2>10, <2>11 DEF ParameterBytes, q, flat
<1> QED BY <1>1, <1>2 DEF WellFormed

(* The bytes of a packet, in three pieces.                                 *)
LEMMA PacketInPieces ==
  ASSUME NEW packet, NEW l_id, NEW l_d, NEW bytes, WellFormed(packet, l_id, l_d, bytes),
         NEW header, header = (IF packet.parameters_present THEN 128 ELSE 0)
                                + packet.new_base_count
  PROVE  /\ header \in Nat
         /\ Uint(header, 1) \in Seq(FileByte) /\ Len(Uint(header, 1)) = 1
         /\ Uint(header, 1)[1].uint = header
         /\ ParameterBytes(packet) \in Seq(FileByte)
         /\ Len(ParameterBytes(packet)) = IF packet.parameters_present THEN 2 ELSE 0
         /\ Packed(packet.payload) \in Seq(FileByte) /\ Len(Packed(packet.payload)) = bytes
         /\ Uint(header, 1) \o ParameterBytes(packet) \in Seq(FileByte)
         /\ PacketBytes(packet)
              = (Uint(header, 1) \o ParameterBytes(packet)) \o Packed(packet.payload)
         /\ PacketBytes(packet) \in Seq(FileByte)
         /\ Len(PacketBytes(packet))
              = (1 + (IF packet.parameters_present THEN 2 ELSE 0)) + bytes
<1> DEFINE wanted == IF packet.parameters_present THEN 2 ELSE 0
           x == Uint(header, 1)
           y == ParameterBytes(packet)
           z == Packed(packet.payload)
<1>1. header \in Nat
  <2>1. packet.new_base_count \in 0..127
    BY Zenon DEF WellFormed
  <2> QED BY <2>1
<1>2. x \in Seq(FileByte) /\ Len(x) = 1 /\ x[1].uint = header
  BY <1>1, ByteIsWritten
<1>3. y \in Seq(FileByte) /\ Len(y) = wanted
  <2>1. Len(<<>>) = 0
    OBVIOUS
  <2> QED BY <2>1, ParametersWritten
<1>4. z \in Seq(FileByte) /\ Len(z) = bytes /\ bytes \in Nat
  BY PackedBytes DEF WellFormed
<1>5. PacketBytes(packet) = (x \o y) \o z
  BY DEF PacketBytes, ParameterBytes
<1>6. wanted \in Nat
  OBVIOUS
<1> HIDE DEF x, y, z, wanted
<1>7. x \o y \in Seq(FileByte) /\ Len(x \o y) = 1 + wanted
  BY <1>2, <1>3, <1>6, ConcatProperties
<1>8. (x \o y) \o z \in Seq(FileByte) /\ Len((x \o y) \o z) = (1 + wanted) + bytes
  BY <1>4, <1>6, <1>7, ConcatProperties
<1> QED BY <1>1, <1>2, <1>3, <1>4, <1>5, <1>7, <1>8 DEF x, y, z, wanted

(* A packet is taken apart to what it was.                                 *)
LEMMA PacketTakenApart ==
  ASSUME NEW packet, NEW l_id, NEW l_d, NEW bytes, WellFormed(packet, l_id, l_d, bytes),
         NEW file, Len(file) \in Nat, NEW first \in Nat,
         LiesAt(file, first, PacketBytes(packet))
  PROVE  PacketAt(file, first, Len(PacketBytes(packet)), packet.chunk_count) = packet
<1> DEFINE present == packet.parameters_present
           wanted == IF present THEN 2 ELSE 0
           count == packet.new_base_count
           header == (IF present THEN 128 ELSE 0) + count
           x == Uint(header, 1)
           y == ParameterBytes(packet)
           z == Packed(packet.payload)
           len == Len(PacketBytes(packet))
<1>1. /\ header \in Nat
      /\ x \in Seq(FileByte) /\ Len(x) = 1 /\ x[1].uint = header
      /\ y \in Seq(FileByte) /\ Len(y) = wanted
      /\ z \in Seq(FileByte) /\ Len(z) = bytes
      /\ x \o y \in Seq(FileByte) /\ PacketBytes(packet) = (x \o y) \o z
      /\ len = (1 + wanted) + bytes
  BY PacketInPieces
<1>2. /\ present \in BOOLEAN /\ count \in 0..127 /\ bytes \in Nat
      /\ packet.payload \in Seq(Bit) /\ Len(packet.payload) = 8 * bytes
      /\ wanted \in Nat
  BY DEF WellFormed
<1>3. (header >= 128 <=> present) /\ header % 128 = count
  <2> HIDE DEF present, count
  <2>1. CASE present
    <3>1. header = 128 + count
      BY <2>1
    <3> HIDE DEF header
    <3> QED BY <1>2, <2>1, <3>1
  <2>2. CASE ~ present
    <3>1. header = count
      BY <1>2, <2>2
    <3> HIDE DEF header
    <3> QED BY <1>2, <2>2, <3>1
  <2> QED BY <2>1, <2>2
<1> HIDE DEF header, x, y, z, len, wanted, count, present
<1>4. LiesAt(file, first, x \o y) /\ LiesAt(file, first + Len(x \o y), z)
  BY <1>1, BothLie
<1>5. LiesAt(file, first, x) /\ LiesAt(file, first + Len(x), y)
  BY <1>1, <1>4, BothLie
<1>6. Len(x \o y) = 1 + wanted
  <2>1. x \in Seq(FileByte) /\ y \in Seq(FileByte)
    BY <1>1
  <2>2. Len(x \o y) = Len(x) + Len(y)
    BY ONLY <2>1, ConcatProperties
  <2> QED BY <1>1, <2>2
<1>7. UintAt(file, first) = header
  <2>1. 1 \in 1..Len(x)
    BY <1>1
  <2>2. file[first + 1] = x[1]
    BY <1>5, <2>1 DEF LiesAt
  <2> QED BY <1>1, <2>2 DEF UintAt
<1> DEFINE fields == IF len - 1 < wanted THEN len - 1 ELSE wanted
<1>8. fields = wanted /\ len - 1 - wanted = bytes
  BY <1>1, <1>2
<1>9. [k \in 1..wanted |-> UintAt(file, first + k)]
        = IF present THEN <<l_id, l_d>> ELSE <<>>
  <2>1. CASE present
    <3>1. /\ wanted = 2 /\ Len(y) = 2
          /\ y[1].uint = l_id /\ y[2].uint = l_d
      BY <1>1, <2>1, ParametersWritten DEF wanted, present, y
    <3>2. \A j \in 1..2 : file[(first + 1) + j] = y[j]
      BY <1>1, <1>5, <3>1 DEF LiesAt
    <3>3. \A k \in 1..2 : UintAt(file, first + k) = y[k].uint
      <4>1. \A k \in 1..2 : (first + k) + 1 = (first + 1) + k
        OBVIOUS
      <4> QED BY <3>2, <4>1 DEF UintAt
    <3>4. [k \in 1..2 |-> UintAt(file, first + k)] = <<l_id, l_d>>
      BY <3>1, <3>3
    <3> QED BY <2>1, <3>1, <3>4
  <2>2. CASE ~ present
    <3>1. wanted = 0
      BY <2>2 DEF wanted
    <3>2. [k \in 1..0 |-> UintAt(file, first + k)] = <<>>
      OBVIOUS
    <3> QED BY <2>2, <3>1, <3>2
  <2> QED BY <2>1, <2>2
<1>10. PackedAt(file, first + 1 + wanted, bytes) = packet.payload
  <2>1. Join([k \in 1..bytes |-> z[k].bits], 8) = packet.payload
    BY <1>2, PackedBytes DEF z
  <2>2. \A k \in 1..bytes : file[first + 1 + wanted + k] = z[k]
    <3>1. first + (1 + wanted) = first + 1 + wanted
      BY <1>2
    <3>2. \A k \in 1..Len(z) : file[(first + (1 + wanted)) + k] = z[k]
      BY <1>4, <1>6 DEF LiesAt
    <3> QED BY <1>1, <3>1, <3>2
  <2>3. [k \in 1..bytes |-> file[first + 1 + wanted + k].bits] = [k \in 1..bytes |-> z[k].bits]
    BY <2>2
  <2> QED BY <2>1, <2>3 DEF PackedAt
<1>11. PacketAt(file, first, len, packet.chunk_count)
         = [parameters_present |-> header >= 128,
            new_base_count     |-> header % 128,
            parameters         |-> [k \in 1..fields |-> UintAt(file, first + k)],
            payload            |-> PackedAt(file, first + 1 + fields, len - 1 - fields),
            chunk_count        |-> packet.chunk_count]
  <2>1. (IF header >= 128 THEN 2 ELSE 0) = wanted
    BY <1>3, <1>2 DEF wanted
  <2> QED BY <1>7, <2>1 DEF PacketAt
<1>12. (header >= 128) = present
  <2>1. (header >= 128) \in BOOLEAN
    OBVIOUS
  <2> QED BY <1>2, <1>3, <2>1, Zenon
<1> HIDE DEF fields
<1> DEFINE read == PacketAt(file, first, len, packet.chunk_count)
           parameters == [k \in 1..fields |-> UintAt(file, first + k)]
           payload == PackedAt(file, first + 1 + fields, len - 1 - fields)
<1>14. /\ parameters = IF present THEN <<l_id, l_d>> ELSE <<>>
       /\ payload = packet.payload
  BY <1>8, <1>9, <1>10
<1>15. read = [parameters_present |-> present,
               new_base_count     |-> count,
               parameters         |-> parameters,
               payload            |-> payload,
               chunk_count        |-> packet.chunk_count]
  BY ONLY <1>3, <1>11, <1>12, Zenon DEF read, parameters, payload
<1> HIDE DEF read, parameters, payload
<1>13. PacketAt(file, first, len, packet.chunk_count)
         = [parameters_present |-> present,
            new_base_count     |-> count,
            parameters         |-> IF present THEN <<l_id, l_d>> ELSE <<>>,
            payload            |-> packet.payload,
            chunk_count        |-> packet.chunk_count]
  BY ONLY <1>14, <1>15, Zenon DEF read
<1> QED BY <1>13 DEF WellFormed, present, count, len

(* The bytes of a frame are bytes.                                         *)
LEMMA FrameBytes ==
  ASSUME NEW packet, NEW l_id, NEW l_d, NEW bytes, WellFormed(packet, l_id, l_d, bytes)
  PROVE  /\ Frame(packet) \in Seq(FileByte)
         /\ Len(PacketBytes(packet)) \in Nat \ {0}
         /\ Len(Frame(packet)) = FrameHeaderLen + Len(PacketBytes(packet))
         /\ packet.chunk_count \in Nat \ {0}
         /\ Uint(packet.chunk_count, 2) \in Seq(FileByte)
         /\ Len(Uint(packet.chunk_count, 2)) = 2
         /\ Uint(Len(PacketBytes(packet)), 4) \in Seq(FileByte)
         /\ Len(Uint(Len(PacketBytes(packet)), 4)) = 4
         /\ Uint(packet.chunk_count, 2) \o Uint(Len(PacketBytes(packet)), 4)
              \in Seq(FileByte)
         /\ PacketBytes(packet) \in Seq(FileByte)
<1> DEFINE z == PacketBytes(packet)
           x == Uint(packet.chunk_count, 2)
           y == Uint(Len(z), 4)
<1>1. z \in Seq(FileByte) /\ Len(z) \in Nat \ {0}
  <2>1. bytes \in Nat
    BY Zenon DEF WellFormed
  <2>2. /\ PacketBytes(packet) \in Seq(FileByte)
        /\ Len(PacketBytes(packet))
             = (1 + (IF packet.parameters_present THEN 2 ELSE 0)) + bytes
    BY PacketInPieces
  <2> QED BY <2>1, <2>2
<1>2. packet.chunk_count \in Nat \ {0}
  BY Zenon DEF WellFormed
<1> HIDE DEF z
<1>3. x \in Seq(FileByte) /\ Len(x) = 2 /\ y \in Seq(FileByte) /\ Len(y) = 4
  <2>1. 2 \in Nat /\ 4 \in Nat
    OBVIOUS
  <2> QED BY <1>1, <1>2, <2>1, UintBytes
<1> HIDE DEF x, y
<1>4. x \o y \in Seq(FileByte) /\ Len(x \o y) = 6
  <2>1. x \o y \in Seq(FileByte) /\ Len(x \o y) = Len(x) + Len(y)
    BY ONLY <1>3, ConcatProperties
  <2> QED BY <1>3, <2>1
<1>5. (x \o y) \o z \in Seq(FileByte) /\ Len((x \o y) \o z) = 6 + Len(z)
  <2> DEFINE xy == x \o y
  <2>1. xy \in Seq(FileByte) /\ Len(xy) = 6
    BY <1>4
  <2> HIDE DEF xy
  <2>2. xy \o z \in Seq(FileByte) /\ Len(xy \o z) = Len(xy) + Len(z)
    BY ONLY <1>1, <2>1, ConcatProperties
  <2> QED BY <2>1, <2>2 DEF xy
<1>6. Frame(packet) = (x \o y) \o z
  BY DEF Frame, x, y, z
<1> QED BY <1>1, <1>2, <1>3, <1>4, <1>5, <1>6 DEF x, y, z, FrameHeaderLen

(* What a frame says, and what is read of it if it is all there.           *)
ReadsFrame(bytes, pos, packet) ==
  /\ UintAt(bytes, pos) = packet.chunk_count
  /\ UintAt(bytes, pos + 2) = Len(PacketBytes(packet))
  /\ PacketAt(bytes, pos + FrameHeaderLen, UintAt(bytes, pos + 2), UintAt(bytes, pos)) = packet
  /\ pos + FrameHeaderLen + UintAt(bytes, pos + 2) = pos + Len(Frame(packet))

(* The frame of a packet is read as that packet.                           *)
LEMMA FrameIsRead ==
  ASSUME NEW packet, NEW l_id, NEW l_d, NEW m, WellFormed(packet, l_id, l_d, m),
         NEW file, Len(file) \in Nat, NEW bytes, Len(bytes) \in Nat,
         BeginningOf(bytes, file),
         NEW pos \in Nat, LiesAt(file, pos, Frame(packet)), FrameIsThere(bytes, pos)
  PROVE  ReadsFrame(bytes, pos, packet)
<1> DEFINE z == PacketBytes(packet)
           x == Uint(packet.chunk_count, 2)
           y == Uint(Len(z), 4)
           head == x \o y
           len == Len(z)
<1>1. /\ Frame(packet) = head \o z /\ head \in Seq(FileByte) /\ z \in Seq(FileByte)
      /\ x \in Seq(FileByte) /\ y \in Seq(FileByte) /\ Len(x) = 2 /\ Len(y) = 4
      /\ len \in Nat /\ packet.chunk_count \in Nat
      /\ Len(Frame(packet)) = 6 + len
  BY FrameBytes DEF Frame, FrameHeaderLen
<1>2. /\ pos + 2 <= Len(bytes) /\ (pos + 2) + 4 <= Len(bytes)
      /\ pos + 6 + UintAt(bytes, pos + 2) <= Len(bytes)
  BY DEF FrameIsThere, HasUint, FrameHeaderLen
<1>3. LiesAt(file, pos, head) /\ LiesAt(file, pos + Len(head), z)
  BY <1>1, BothLie
<1>4. LiesAt(file, pos, x) /\ LiesAt(file, pos + 2, y)
  BY <1>1, <1>3, BothLie
<1>5. Len(head) = 6
  <2> HIDE DEF x, y
  <2>1. Len(x \o y) = 6
    BY ONLY <1>1, ConcatPlaces
  <2> QED BY <2>1
<1> HIDE DEF head, z, len
<1>6. UintAt(bytes, pos) = packet.chunk_count
  <2> HIDE DEF x
  <2>1. Len(x) \in Nat /\ pos + Len(x) <= Len(bytes)
    BY <1>1, <1>2
  <2>2. LiesAt(bytes, pos, x)
    BY ONLY <1>4, <2>1, LiesInBeginning, Len(bytes) \in Nat, BeginningOf(bytes, file), pos \in Nat
  <2>3. 2 \in Nat \ {0} /\ packet.chunk_count \in {"TSTR", "TCHY", Unlimited} \cup Nat
    BY <1>1
  <2>4. LiesAt(bytes, pos, Uint(packet.chunk_count, 2))
    BY <2>2 DEF x
  <2>5. UintAt(bytes, pos) = packet.chunk_count /\ HasUint(bytes, pos, 2)
    BY ONLY <2>3, <2>4, UintIsRead
  <2> QED BY <2>5
<1>7. UintAt(bytes, pos + 2) = len
  <2> HIDE DEF y
  <2>1. Len(y) \in Nat /\ (pos + 2) + Len(y) <= Len(bytes) /\ pos + 2 \in Nat
    BY <1>1, <1>2
  <2>3. LiesAt(bytes, pos + 2, y)
    BY ONLY <1>4, <2>1, LiesInBeginning, Len(bytes) \in Nat, BeginningOf(bytes, file)
  <2>2. 4 \in Nat \ {0} /\ Len(z) \in {"TSTR", "TCHY", Unlimited} \cup Nat
    BY <1>1 DEF len
  <2>4. LiesAt(bytes, pos + 2, Uint(Len(z), 4))
    BY <2>3 DEF y
  <2>5. UintAt(bytes, pos + 2) = Len(z) /\ HasUint(bytes, pos + 2, 4)
    BY ONLY <2>2, <2>4, UintIsRead
  <2> QED BY <2>5 DEF len
<1>8. LiesAt(bytes, pos + 6, z)
  BY <1>1, <1>2, <1>3, <1>5, <1>7, LiesInBeginning DEF len
<1>9. PacketAt(bytes, pos + 6, len, packet.chunk_count) = packet
  <2>1. pos + 6 \in Nat
    OBVIOUS
  <2> QED BY <1>8, <2>1, PacketTakenApart DEF z, len
<1>10. pos + FrameHeaderLen + len = pos + Len(Frame(packet))
  BY <1>1 DEF FrameHeaderLen
<1>11. pos + FrameHeaderLen = pos + 6
  BY DEF FrameHeaderLen
<1> QED BY <1>6, <1>7, <1>9, <1>10, <1>11, Zenon DEF ReadsFrame, len, z

----------------------------------------------------------------------------
(* The archive in memory.                                                  *)

(* The fields of the header.                                               *)
HeaderFields(sample_count, packet_count) ==
  <<Uint("TSTR", 4), Uint(1, 1),
    Uint(BitsPerSample, 1), Uint(SamplesPerChunk, 1), Uint(ChunksPerSplit, 2),
    Uint(sample_count, 8), Uint(packet_count, 4)>>

HeaderValues(sample_count, packet_count) ==
  <<"TSTR", 1, BitsPerSample, SamplesPerChunk, ChunksPerSplit, sample_count, packet_count>>

(* A field of the header is its value, in the width that is read.          *)
FieldAgrees(count, n, f) ==
  /\ HeaderFields(count, n)[f] = Uint(HeaderValues(count, n)[f], ArchiveWidths[f])
  /\ HeaderValues(count, n)[f] \in {"TSTR", "TCHY", Unlimited} \cup Nat
  /\ ArchiveWidths[f] \in Nat \ {0}
  /\ HeaderFields(count, n)[f] \in Seq(FileByte)
  /\ Len(HeaderFields(count, n)[f]) = ArchiveWidths[f]

(* The widths that stream-decode reads are those that were written.        *)
LEMMA WidthsAgree ==
  ASSUME NEW count \in Nat, NEW n \in Nat, NEW f \in 1..7
  PROVE  FieldAgrees(count, n, f)
<1> DEFINE v == HeaderValues(count, n)
<1>1. f = 1 \/ f = 2 \/ f = 3 \/ f = 4 \/ f = 5 \/ f = 6 \/ f = 7
  OBVIOUS
<1>2. /\ HeaderFields(count, n)[1] = Uint(v[1], ArchiveWidths[1])
      /\ HeaderFields(count, n)[2] = Uint(v[2], ArchiveWidths[2])
      /\ HeaderFields(count, n)[3] = Uint(v[3], ArchiveWidths[3])
      /\ HeaderFields(count, n)[4] = Uint(v[4], ArchiveWidths[4])
      /\ HeaderFields(count, n)[5] = Uint(v[5], ArchiveWidths[5])
      /\ HeaderFields(count, n)[6] = Uint(v[6], ArchiveWidths[6])
      /\ HeaderFields(count, n)[7] = Uint(v[7], ArchiveWidths[7])
  BY DEF HeaderFields, HeaderValues, ArchiveWidths
<1>3. /\ v[1] \in {"TSTR"} /\ v[2] \in Nat /\ v[3] \in Nat /\ v[4] \in Nat /\ v[5] \in Nat
      /\ v[6] \in Nat /\ v[7] \in Nat
  <2>1. /\ v[1] = "TSTR" /\ v[2] = 1 /\ v[3] = BitsPerSample /\ v[4] = SamplesPerChunk
        /\ v[5] = ChunksPerSplit /\ v[6] = count /\ v[7] = n
    BY DEF HeaderValues
  <2> HIDE DEF v
  <2>2. BitsPerSample \in Nat /\ SamplesPerChunk \in Nat /\ ChunksPerSplit \in Nat /\ 1 \in Nat
    BY ConfigAssumption
  <2> QED BY ONLY <2>1, <2>2, count \in Nat, n \in Nat
<1>4. /\ ArchiveWidths[1] \in Nat \ {0} /\ ArchiveWidths[2] \in Nat \ {0}
      /\ ArchiveWidths[3] \in Nat \ {0} /\ ArchiveWidths[4] \in Nat \ {0}
      /\ ArchiveWidths[5] \in Nat \ {0} /\ ArchiveWidths[6] \in Nat \ {0}
      /\ ArchiveWidths[7] \in Nat \ {0}
  BY DEF ArchiveWidths
<1> HIDE DEF v
<1>5. HeaderFields(count, n)[f] = Uint(v[f], ArchiveWidths[f])
  BY <1>1, <1>2, Zenon
<1>6. v[f] \in {"TSTR", "TCHY", Unlimited} \cup Nat /\ ArchiveWidths[f] \in Nat \ {0}
  BY <1>1, <1>3, <1>4
<1>7. /\ Uint(v[f], ArchiveWidths[f]) \in Seq(FileByte)
      /\ Len(Uint(v[f], ArchiveWidths[f])) = ArchiveWidths[f]
  BY <1>6, UintBytes
<1> QED BY <1>5, <1>6, <1>7, Zenon DEF FieldAgrees, v

(* The offsets that stream-decode reads at are those where the fields are. *)
LEMMA OffsetsAgree ==
  ASSUME NEW starts, starts[1] = 0,
         \A f \in 1..7 : starts[f + 1] = starts[f] + ArchiveWidths[f]
  PROVE  /\ \A f \in 1..7 : starts[f] = ArchiveFields[f]
         /\ starts[8] = ArchiveHeaderLen
<1>1. /\ starts[1 + 1] = starts[1] + 4 /\ starts[2 + 1] = starts[2] + 1
      /\ starts[3 + 1] = starts[3] + 1 /\ starts[4 + 1] = starts[4] + 1
      /\ starts[5 + 1] = starts[5] + 2 /\ starts[6 + 1] = starts[6] + 8
      /\ starts[7 + 1] = starts[7] + 4
  <2>1. 1 \in 1..7 /\ 2 \in 1..7 /\ 3 \in 1..7 /\ 4 \in 1..7
        /\ 5 \in 1..7 /\ 6 \in 1..7 /\ 7 \in 1..7
    OBVIOUS
  <2>2. /\ ArchiveWidths[1] = 4 /\ ArchiveWidths[2] = 1 /\ ArchiveWidths[3] = 1
        /\ ArchiveWidths[4] = 1 /\ ArchiveWidths[5] = 2 /\ ArchiveWidths[6] = 8
        /\ ArchiveWidths[7] = 4
    BY DEF ArchiveWidths
  <2> QED BY <2>1, <2>2
<1>2. /\ starts[1] = 0 /\ starts[2] = 4 /\ starts[3] = 5 /\ starts[4] = 6 /\ starts[5] = 7
      /\ starts[6] = 9 /\ starts[7] = 17 /\ starts[8] = 21
  BY <1>1
<1>3. ASSUME NEW f \in 1..7 PROVE starts[f] = ArchiveFields[f]
  <2>1. f = 1 \/ f = 2 \/ f = 3 \/ f = 4 \/ f = 5 \/ f = 6 \/ f = 7
    OBVIOUS
  <2>2. /\ ArchiveFields[1] = 0 /\ ArchiveFields[2] = 4 /\ ArchiveFields[3] = 5
        /\ ArchiveFields[4] = 6 /\ ArchiveFields[5] = 7 /\ ArchiveFields[6] = 9
        /\ ArchiveFields[7] = 17
    BY DEF ArchiveFields
  <2> QED BY <1>2, <2>1, <2>2
<1> QED BY <1>2, <1>3 DEF ArchiveHeaderLen

(* Where the packets lie in an archive, and what its header says.          *)
ArchiveHolds(file, packets, count, pos) ==
  /\ file \in Seq(FileByte)
  /\ pos \in [1..(Len(packets) + 1) -> Nat] /\ pos[1] = ArchiveHeaderLen
  /\ ArchiveHeaderLen <= Len(file)
  /\ \A f \in 1..7 : LiesAt(file, ArchiveFields[f], HeaderFields(count, Len(packets))[f])
  /\ \A k \in 1..Len(packets) :
       /\ LiesAt(file, pos[k], Frame(packets[k]))
       /\ pos[k + 1] = pos[k] + Len(Frame(packets[k]))

(* So it is in the archive that stream-encode builds.                      *)
LEMMA ArchiveIsHeld ==
  ASSUME NEW packets, Len(packets) \in Nat, DOMAIN packets = 1..Len(packets),
         \A k \in 1..Len(packets) : Frame(packets[k]) \in Seq(FileByte),
         NEW count \in Nat
  PROVE  \E pos : ArchiveHolds(ArchiveOf(packets, count), packets, count, pos)
<1> DEFINE n == Len(packets)
           h == HeaderFields(count, n)
           frames == [i \in DOMAIN packets |-> Frame(packets[i])]
           q == h \o frames
           file == ArchiveOf(packets, count)
<1>18. \A f \in 1..7 : FieldAgrees(count, n, f)
  <2>1. n \in Nat
    OBVIOUS
  <2> HIDE DEF n
  <2> QED BY ONLY <2>1, WidthsAgree, count \in Nat
<1>1. h \in Seq(Seq(FileByte)) /\ Len(h) = 7
  <2>1. DOMAIN h = 1..7 /\ h = [f \in 1..7 |-> h[f]]
    BY DEF HeaderFields
  <2>2. \A f \in 1..7 : h[f] \in Seq(FileByte)
    BY <1>18 DEF FieldAgrees
  <2> HIDE DEF h
  <2>3. h \in [1..7 -> Seq(FileByte)] /\ 7 \in Nat
    BY <2>1, <2>2
  <2> QED BY ONLY <2>3, FunctionIsSequence
<1>2. /\ frames \in Seq(Seq(FileByte)) /\ Len(frames) = n
      /\ \A k \in 1..n : frames[k] = Frame(packets[k])
  <2>1. frames \in [1..n -> Seq(FileByte)]
    OBVIOUS
  <2> QED BY <2>1, FunctionIsSequence
<1>3. file = FlattenSeq(q)
  BY DEF ArchiveOf, HeaderFields
<1>16. \A f \in 1..7 : Len(h[f]) = ArchiveWidths[f] /\ ArchiveWidths[f] \in Nat
  <2> HIDE DEF n
  <2> QED BY ONLY <1>18 DEF FieldAgrees, h
<1> HIDE DEF h, frames, file
<1>4. /\ q \in Seq(Seq(FileByte)) /\ Len(q) = 7 + n
      /\ \A i \in 1..7 : q[i] = h[i]
      /\ \A k \in 1..n : q[7 + k] = frames[k]
  <2>1. q = h \o frames
    OBVIOUS
  <2> HIDE DEF q, n
  <2>2. /\ q \in Seq(Seq(FileByte)) /\ Len(q) = Len(h) + Len(frames)
        /\ \A i \in 1..Len(h) : q[i] = h[i]
        /\ \A k \in 1..Len(frames) : q[Len(h) + k] = frames[k]
    <3>1. h \in Seq(Seq(FileByte)) /\ frames \in Seq(Seq(FileByte))
      BY <1>1, <1>2
    <3> QED BY ONLY <2>1, <3>1, PiecesOfTwo
  <2> QED BY ONLY <1>1, <1>2, <2>2
<1> HIDE DEF q, n
<1>5. n \in Nat
  BY DEF n
<1>6. PICK starts : LaysOut(file, q, starts)
  <2>1. Len(q) # 0
    BY <1>4, <1>5
  <2> QED BY <1>3, <1>4, <2>1, Flattened
<1>7. file \in Seq(FileByte)
  <2>1. Len(q) # 0
    BY <1>4, <1>5
  <2> QED BY <1>3, <1>4, <2>1, Flattened
<1>8. \A i \in 1..(7 + n) :
        LiesAt(file, starts[i], q[i]) /\ starts[i + 1] = starts[i] + Len(q[i])
  <2>1. \A i \in 1..Len(q) :
          LiesAt(file, starts[i], q[i]) /\ starts[i + 1] = starts[i] + Len(q[i])
    BY ONLY <1>6, PiecesLie
  <2> QED BY <1>4, <2>1
<1>9. starts \in [1..((7 + n) + 1) -> Nat] /\ starts[1] = 0
  BY <1>4, <1>6 DEF LaysOut
<1>10. ASSUME NEW f \in 1..7
       PROVE  LiesAt(file, starts[f], h[f]) /\ starts[f + 1] = starts[f] + ArchiveWidths[f]
  <2>1. f \in 1..(7 + n)
    BY <1>5
  <2>2. LiesAt(file, starts[f], q[f]) /\ starts[f + 1] = starts[f] + Len(q[f])
    BY <1>8, <2>1
  <2>3. q[f] = h[f]
    BY <1>4
  <2>4. Len(h[f]) = ArchiveWidths[f]
    BY <1>16
  <2> QED BY ONLY <2>2, <2>3, <2>4
<1>11. (\A f \in 1..7 : starts[f] = ArchiveFields[f]) /\ starts[8] = ArchiveHeaderLen
  BY ONLY <1>9, <1>10, OffsetsAgree
<1>12. \A f \in 1..7 : LiesAt(file, ArchiveFields[f], h[f])
  BY <1>10, <1>11
<1>17. ArchiveHeaderLen <= Len(file)
  <2>1. LiesAt(file, ArchiveFields[7], h[7]) /\ Len(h[7]) = ArchiveWidths[7]
    <3>1. 7 \in 1..7
      OBVIOUS
    <3> QED BY <1>16, <1>12, <3>1
  <2>2. ArchiveFields[7] = 17 /\ ArchiveWidths[7] = 4
    BY DEF ArchiveFields, ArchiveWidths
  <2>3. 17 + 4 <= Len(file)
    BY <2>1, <2>2 DEF LiesAt
  <2> QED BY <2>3 DEF ArchiveHeaderLen
<1> DEFINE pos == [k \in 1..(n + 1) |-> starts[7 + k]]
<1>13. pos \in [1..(n + 1) -> Nat] /\ pos[1] = ArchiveHeaderLen
  <2>1. \A k \in 1..(n + 1) : 7 + k \in 1..((7 + n) + 1)
    BY <1>5
  <2>2. 1 \in 1..(n + 1)
    BY <1>5
  <2>3. pos[1] = starts[8]
    BY <2>2
  <2> QED BY <1>9, <1>11, <2>1, <2>3
<1>14. ASSUME NEW k \in 1..n
       PROVE  LiesAt(file, pos[k], Frame(packets[k]))
              /\ pos[k + 1] = pos[k] + Len(Frame(packets[k]))
  <2>1. /\ 7 + k \in 1..(7 + n) /\ k \in 1..(n + 1) /\ k + 1 \in 1..(n + 1)
        /\ (7 + k) + 1 = 7 + (k + 1)
    BY <1>5
  <2>2. q[7 + k] = Frame(packets[k])
    BY <1>2, <1>4
  <2>3. pos[k] = starts[7 + k] /\ pos[k + 1] = starts[(7 + k) + 1]
    BY <2>1
  <2> HIDE DEF pos
  <2> QED BY <1>8, <2>1, <2>2, <2>3
<1> HIDE DEF pos
<1>15. ArchiveHolds(file, packets, count, pos)
  BY <1>7, <1>12, <1>17, <1>13, <1>14 DEF ArchiveHolds, n, h
<1> QED BY <1>15 DEF file

(* The header is read as it was written.                                   *)
LEMMA HeaderIsRead ==
  ASSUME NEW file, NEW packets, NEW count \in Nat, NEW pos,
         ArchiveHolds(file, packets, count, pos), Len(packets) \in Nat,
         NEW bytes, Len(bytes) \in Nat, BeginningOf(bytes, file),
         ArchiveHeaderLen <= Len(bytes),
         NEW f \in 1..7
  PROVE  /\ HasUint(bytes, ArchiveFields[f], ArchiveWidths[f])
         /\ UintAt(bytes, ArchiveFields[f]) = HeaderValues(count, Len(packets))[f]
<1> DEFINE n == Len(packets)
           v == HeaderValues(count, n)[f]
           w == ArchiveWidths[f]
           at == ArchiveFields[f]
           x == Uint(v, w)
<1>1. /\ HeaderFields(count, n)[f] = x
      /\ v \in {"TSTR", "TCHY", Unlimited} \cup Nat /\ w \in Nat \ {0} /\ Len(x) = w
  <2>1. n \in Nat
    OBVIOUS
  <2> HIDE DEF n
  <2>2. FieldAgrees(count, n, f)
    BY ONLY <2>1, WidthsAgree, count \in Nat, f \in 1..7
  <2>3. /\ HeaderFields(count, n)[f] = x /\ ArchiveWidths[f] \in Nat \ {0}
        /\ HeaderValues(count, n)[f] \in {"TSTR", "TCHY", Unlimited} \cup Nat
        /\ Len(HeaderFields(count, n)[f]) = ArchiveWidths[f]
    BY ONLY <2>2, Zenon DEF FieldAgrees
  <2> QED BY ONLY <2>3
<1>2. LiesAt(file, at, x)
  BY <1>1 DEF ArchiveHolds
<1>3. at \in Nat /\ at + w <= 21
  BY DEF ArchiveFields, ArchiveWidths
<1> HIDE DEF n, v, w, at, x
<1>4. at + Len(x) <= Len(bytes) /\ Len(x) \in Nat
  BY <1>1, <1>3 DEF ArchiveHeaderLen
<1>5. LiesAt(bytes, at, x)
  BY ONLY <1>2, <1>3, <1>4, LiesInBeginning, Len(bytes) \in Nat, BeginningOf(bytes, file)
<1>6. UintAt(bytes, at) = v /\ HasUint(bytes, at, w)
  BY ONLY <1>1, <1>5, UintIsRead DEF x
<1> QED BY <1>6, Zenon DEF n, v, w, at

(* The sample count and the packet count.                                  *)
LEMMA CountsAreRead ==
  ASSUME NEW file, NEW packets, NEW count \in Nat, NEW pos,
         ArchiveHolds(file, packets, count, pos), Len(packets) \in Nat,
         NEW bytes, Len(bytes) \in Nat, BeginningOf(bytes, file),
         ArchiveHeaderLen <= Len(bytes)
  PROVE  UintAt(bytes, 9) = count /\ UintAt(bytes, 17) = Len(packets)
<1>1. 6 \in 1..7 /\ 7 \in 1..7
  OBVIOUS
<1>2. ASSUME NEW f \in 1..7
      PROVE  UintAt(bytes, ArchiveFields[f]) = HeaderValues(count, Len(packets))[f]
  <2>1. /\ HasUint(bytes, ArchiveFields[f], ArchiveWidths[f])
        /\ UintAt(bytes, ArchiveFields[f]) = HeaderValues(count, Len(packets))[f]
    BY HeaderIsRead
  <2> QED BY <2>1
<1>3. /\ ArchiveFields[6] = 9 /\ HeaderValues(count, Len(packets))[6] = count
      /\ ArchiveFields[7] = 17 /\ HeaderValues(count, Len(packets))[7] = Len(packets)
  BY DEF ArchiveFields, HeaderValues
<1> QED BY <1>1, <1>2, <1>3, Zenon

----------------------------------------------------------------------------
(* The commands.                                                           *)

(* The decoder has been given the first k packets.                         *)
AtRow(rows, B, C, k) ==
  /\ decoder = At(B, rows[k + 1].bases, rows[k + 1].parameters)
  /\ decoded = Samples(SubSeq(C, 1, rows[k + 1].chunks))

(* stream-decode at work has read a beginning of the archive that holds    *)
(* its header, and stands behind the packets its decoder has been given.   *)
Reading(rows, B, C) ==
  /\ BeginningOf(command.bytes, built)
  /\ ArchiveHeaderLen <= Len(command.bytes)
  /\ \E pos : \E k \in 0..Len(emitted) :
       /\ ArchiveHolds(built, emitted, Len(pushed), pos)
       /\ command.pos = pos[k + 1]
       /\ command.packets_left = Len(emitted) - k
       /\ AtRow(rows, B, C, k)

(* What is running, and its cursor.                                        *)
Cursor == [status : {"none", "decoding", "refused", "done"}, bytes : Seq(FileByte),
           pos : Nat, packets_left : Int]

(* What has been built is the archive of a finished stream, what is on     *)
(* disk its beginning, what is being read a beginning of it too, and what  *)
(* was written the samples.                                                *)
ArchiveInv ==
  /\ EncoderInv
  /\ built \in Seq(FileByte) /\ archive \in Seq(FileByte) /\ command \in Cursor
  /\ built # <<>> => phase = "finished" /\ built = ArchiveOf(emitted, Len(pushed))
  /\ BeginningOf(archive, built)
  /\ \E rows, B, C : /\ Telling(rows, B, C)
                     /\ command.status = "decoding" => built # <<>> /\ Reading(rows, B, C)
  /\ output # <<>> => phase = "finished" /\ output = <<pushed>>

(* A command that is not at work says nothing.                             *)
LEMMA EndedType ==
  ASSUME NEW status \in {"none", "refused", "done"}
  PROVE  Ended(status) \in Cursor /\ Ended(status).status # "decoding"
<1>1. <<>> \in Seq(FileByte)
  OBVIOUS
<1> QED BY <1>1 DEF Ended, Cursor

(* A packet the encoder has returned is well formed.                       *)
LEMMA EmittedWellFormed ==
  ASSUME EncoderInv, NEW rows, NEW B, NEW C, Telling(rows, B, C), NEW k \in 1..Len(emitted)
  PROVE  /\ emitted[k] \in StreamPacket
         /\ Carries(emitted[k], rows[k], rows[k + 1], B, C)
         /\ \E l_id, l_d, bytes : WellFormed(emitted[k], l_id, l_d, bytes)
<1>1. emitted \in Seq(StreamPacket) /\ Story(emitted, rows, B, C)
  BY StoryOfEmitted
<1>2. emitted[k] \in StreamPacket /\ Carries(emitted[k], rows[k], rows[k + 1], B, C)
  BY <1>1 DEF Story
<1> DEFINE packet == emitted[k]
<1> HIDE DEF packet
<1>3. packet \in StreamPacket /\ Carries(packet, rows[k], rows[k + 1], B, C)
  BY <1>2 DEF packet
<1>4. \E l_id, l_d, bytes : WellFormed(packet, l_id, l_d, bytes)
  BY <1>3, CarriedIsWellFormed, Zenon
<1> QED BY <1>2, <1>4 DEF packet

(* The archive holds the packets, one behind the other.                    *)
LEMMA BuiltHolds ==
  ASSUME EncoderInv, NEW rows, NEW B, NEW C, Telling(rows, B, C)
  PROVE  /\ Len(pushed) \in Nat
         /\ \E pos : ArchiveHolds(ArchiveOf(emitted, Len(pushed)), emitted, Len(pushed), pos)
<1>1. emitted \in Seq(StreamPacket) /\ Len(emitted) \in Nat /\ DOMAIN emitted = 1..Len(emitted)
  BY StoryOfEmitted, LenProperties
<1>2. Len(pushed) \in Nat
  BY LenProperties DEF EncoderInv
<1>3. ASSUME NEW k \in 1..Len(emitted) PROVE Frame(emitted[k]) \in Seq(FileByte)
  <2> DEFINE packet == emitted[k]
  <2>1. \E l_id, l_d, bytes : WellFormed(packet, l_id, l_d, bytes)
    BY EmittedWellFormed
  <2> HIDE DEF packet
  <2>2. Frame(packet) \in Seq(FileByte)
    BY <2>1, FrameBytes
  <2> QED BY <2>2 DEF packet
<1> QED BY <1>1, <1>2, <1>3, ArchiveIsHeld

(* What a step that leaves the encoder and the archive built alone needs.  *)
LEMMA EncoderAndArchiveStay ==
  ASSUME ArchiveInv, UNCHANGED <<encoderVars, built>>
  PROVE  /\ EncoderInv' /\ emitted' = emitted /\ pushed' = pushed /\ phase' = phase
         /\ built' = built /\ built' \in Seq(FileByte)
         /\ built' # <<>> => phase' = "finished" /\ built' = ArchiveOf(emitted', Len(pushed'))
         /\ \A rows, B, C : Telling(rows, B, C) => Telling(rows, B, C)'
<1>1. UNCHANGED encoderVars /\ built' = built
  OBVIOUS
<1>2. /\ EncoderInv /\ built \in Seq(FileByte)
      /\ built # <<>> => phase = "finished" /\ built = ArchiveOf(emitted, Len(pushed))
  BY Zenon DEF ArchiveInv
<1>3. PICK rows, B, C : Telling(rows, B, C)
  BY Zenon DEF ArchiveInv
<1>4. EncoderInv'
  BY <1>1, <1>2, <1>3, EncoderStays, Zenon
<1>5. emitted' = emitted /\ pushed' = pushed /\ phase' = phase
  BY <1>1 DEF encoderVars
<1>6. ASSUME NEW r, NEW b, NEW c, Telling(r, b, c) PROVE Telling(r, b, c)'
  BY <1>1, <1>2, <1>6, EncoderStays, Zenon
<1> QED BY <1>1, <1>2, <1>4, <1>5, <1>6, Zenon

(* The file on disk changes, and is still the beginning of the archive.    *)
LEMMA FileChanges ==
  ASSUME ArchiveInv, UNCHANGED <<encoderVars, built, commandVars>>,
         archive' \in Seq(FileByte), BeginningOf(archive', built)
  PROVE  ArchiveInv'
<1>1. /\ EncoderInv' /\ emitted' = emitted /\ pushed' = pushed /\ phase' = phase
      /\ built' = built /\ built' \in Seq(FileByte)
      /\ built' # <<>> => phase' = "finished" /\ built' = ArchiveOf(emitted', Len(pushed'))
      /\ \A rows, B, C : Telling(rows, B, C) => Telling(rows, B, C)'
  BY EncoderAndArchiveStay
<1>2. command' = command /\ output' = output /\ decoder' = decoder /\ decoded' = decoded
  BY DEF commandVars, decoderVars
<1>3. PICK rows, B, C : /\ Telling(rows, B, C)
                        /\ command.status = "decoding" => built # <<>> /\ Reading(rows, B, C)
  BY Zenon DEF ArchiveInv
<1>4. Reading(rows, B, C) => Reading(rows, B, C)'
  BY <1>1, <1>2, Zenon DEF Reading, AtRow
<1>5. command \in Cursor /\ (output # <<>> => phase = "finished" /\ output = <<pushed>>)
  BY Zenon DEF ArchiveInv
<1> QED BY <1>1, <1>2, <1>3, <1>4, <1>5, Zenon DEF ArchiveInv

(* A command that is not, or no longer, at work.                           *)
LEMMA CommandEnds ==
  ASSUME ArchiveInv, UNCHANGED <<encoderVars, built, archive>>,
         command' \in Cursor, command'.status # "decoding",
         output' # <<>> => phase = "finished" /\ output' = <<pushed>>
  PROVE  ArchiveInv'
<1>1. /\ EncoderInv' /\ emitted' = emitted /\ pushed' = pushed /\ phase' = phase
      /\ built' = built /\ built' \in Seq(FileByte)
      /\ built' # <<>> => phase' = "finished" /\ built' = ArchiveOf(emitted', Len(pushed'))
      /\ \A rows, B, C : Telling(rows, B, C) => Telling(rows, B, C)'
  BY EncoderAndArchiveStay
<1>2. archive' = archive
  OBVIOUS
<1>3. PICK rows, B, C : Telling(rows, B, C)
  BY Zenon DEF ArchiveInv
<1>4. archive \in Seq(FileByte) /\ BeginningOf(archive, built)
  BY Zenon DEF ArchiveInv
<1> QED BY <1>1, <1>2, <1>3, <1>4, Zenon DEF ArchiveInv

(* A command at work.                                                      *)
LEMMA CommandReads ==
  ASSUME ArchiveInv, UNCHANGED <<encoderVars, built, archive, output>>,
         NEW rows, NEW B, NEW C, Telling(rows, B, C), built # <<>>,
         command' \in Cursor, Reading(rows, B, C)'
  PROVE  ArchiveInv'
<1>1. /\ EncoderInv' /\ emitted' = emitted /\ pushed' = pushed /\ phase' = phase
      /\ built' = built /\ built' \in Seq(FileByte)
      /\ built' # <<>> => phase' = "finished" /\ built' = ArchiveOf(emitted', Len(pushed'))
      /\ Telling(rows, B, C)'
  BY EncoderAndArchiveStay
<1>2. archive' = archive /\ output' = output
  OBVIOUS
<1>3. /\ archive \in Seq(FileByte) /\ BeginningOf(archive, built)
      /\ output # <<>> => phase = "finished" /\ output = <<pushed>>
  BY Zenon DEF ArchiveInv
<1> QED BY <1>1, <1>2, <1>3, Zenon DEF ArchiveInv

(* At first there is nothing.                                              *)
LEMMA InitHasNoArchive == ArchiveInit => ArchiveInv
<1> SUFFICES ASSUME ArchiveInit PROVE ArchiveInv
  OBVIOUS
<1>1. /\ EncoderInit /\ built = <<>> /\ archive = <<>> /\ command = Ended("none")
      /\ output = <<>>
  BY DEF ArchiveInit
<1>2. EncoderInv /\ Telling(<<FirstRow>>, <<>>, <<>>)
  BY <1>1, InitEstablishes, InitTells, Zenon
<1>3. command \in Cursor /\ command.status # "decoding"
  BY <1>1, EndedType
<1>4. <<>> \in Seq(FileByte) /\ BeginningOf(<<>>, <<>>)
  BY DEF BeginningOf
<1> QED BY <1>1, <1>2, <1>3, <1>4, Zenon DEF ArchiveInv

(* The encoder works before the archive is built.                          *)
LEMMA EncodeKeepsArchive ==
  ASSUME ArchiveInv, EncodeSamples
  PROVE  ArchiveInv'
<1>1. /\ EncoderNext /\ built' = built /\ archive' = archive /\ command' = command
      /\ output' = output
  BY DEF EncodeSamples, commandVars
<1>2. phase = "open"
  BY <1>1 DEF EncoderNext, PushSample, PushFails, Finish, FinishFails, Running
<1>3. /\ EncoderInv /\ built = <<>> /\ output = <<>> /\ command.status # "decoding"
      /\ built \in Seq(FileByte) /\ archive \in Seq(FileByte) /\ command \in Cursor
      /\ BeginningOf(archive, built)
  BY <1>2 DEF ArchiveInv
<1>4. PICK rows, B, C : Telling(rows, B, C)
  BY Zenon DEF ArchiveInv
<1>5. EncoderInv'
  BY <1>1, <1>3, NextPreserves
<1>6. \E rows2, B2, C2 : Telling(rows2, B2, C2)'
  BY <1>1, <1>3, <1>4, NextTells, Zenon
<1> QED BY <1>1, <1>3, <1>5, <1>6, Zenon DEF ArchiveInv

(* The archive is built.                                                   *)
LEMMA BuildKeepsArchive ==
  ASSUME ArchiveInv, BuildArchive
  PROVE  ArchiveInv'
<1>1. /\ phase = "finished" /\ built = <<>> /\ built' = ArchiveOf(emitted, Len(pushed))
      /\ UNCHANGED encoderVars /\ archive' = archive /\ command' = command
      /\ output' = output
  BY DEF BuildArchive, commandVars
<1>2. PICK rows, B, C : /\ Telling(rows, B, C)
                        /\ command.status = "decoding" => built # <<>> /\ Reading(rows, B, C)
  BY Zenon DEF ArchiveInv
<1>3. /\ EncoderInv /\ archive \in Seq(FileByte) /\ command \in Cursor
      /\ BeginningOf(archive, built)
      /\ output # <<>> => phase = "finished" /\ output = <<pushed>>
  BY Zenon DEF ArchiveInv
<1>4. EncoderInv' /\ Telling(rows, B, C)'
  BY <1>1, <1>2, <1>3, EncoderStays, Zenon
<1>5. emitted' = emitted /\ pushed' = pushed /\ phase' = phase
  BY <1>1 DEF encoderVars
<1>6. built' \in Seq(FileByte)
  <2>1. \E pos : ArchiveHolds(ArchiveOf(emitted, Len(pushed)), emitted, Len(pushed), pos)
    BY <1>2, <1>3, BuiltHolds, Zenon
  <2> QED BY <1>1, <2>1, Zenon DEF ArchiveHolds
<1>7. BeginningOf(archive', built')
  <2>1. Len(archive) = 0
    BY <1>1, <1>3 DEF BeginningOf
  <2> QED BY <1>1, <1>6, <2>1 DEF BeginningOf
<1> QED BY <1>1, <1>2, <1>3, <1>4, <1>5, <1>6, <1>7, Zenon DEF ArchiveInv

(* It is written, or a part of it.                                         *)
LEMMA WriteKeepsArchive ==
  ASSUME ArchiveInv, WriteArchive \/ WriteIsInterrupted
  PROVE  ArchiveInv'
<1>1. UNCHANGED <<encoderVars, built, commandVars>>
  BY DEF WriteArchive, WriteIsInterrupted
<1>2. /\ built \in Seq(FileByte) /\ Len(built) \in Nat
      /\ archive \in Seq(FileByte) /\ BeginningOf(archive, built)
  BY LenProperties DEF ArchiveInv
<1>3. archive' \in Seq(FileByte) /\ BeginningOf(archive', built)
  <2>1. CASE WriteArchive
    BY <1>2, <2>1 DEF WriteArchive, BeginningOf
  <2>2. CASE WriteIsInterrupted
    <3>1. PICK n \in 0..(Len(built) - 1) : archive' = SubSeq(built, 1, n)
      BY <2>2 DEF WriteIsInterrupted
    <3>2. n \in Nat /\ n <= Len(built)
      BY <1>2
    <3> DEFINE part == SubSeq(built, 1, n)
    <3>3. part \in Seq(FileByte) /\ Len(part) = n /\ \A i \in 1..n : part[i] = built[i]
      BY <1>2, <3>2, PrefixPlaces
    <3> HIDE DEF part
    <3> QED BY <3>1, <3>2, <3>3 DEF BeginningOf, part
  <2> QED BY <2>1, <2>2
<1> QED BY <1>1, <1>3, FileChanges

(* A file with a header is as long as one.                                 *)
LEMMA HeaderIsLong ==
  ASSUME NEW bytes, HasArchiveHeader(bytes)
  PROVE  ArchiveHeaderLen <= Len(bytes)
<1>1. HasUint(bytes, 17, 4)
  <2>1. 7 \in DOMAIN ArchiveFields /\ ArchiveFields[7] = 17 /\ ArchiveWidths[7] = 4
    BY DEF ArchiveFields, ArchiveWidths
  <2>2. \A f \in DOMAIN ArchiveFields : HasUint(bytes, ArchiveFields[f], ArchiveWidths[f])
    BY Zenon DEF HasArchiveHeader
  <2>3. HasUint(bytes, ArchiveFields[7], ArchiveWidths[7])
    BY <2>1, <2>2, Zenon
  <2> QED BY <2>1, <2>3, Zenon
<1>2. 17 + 4 <= Len(bytes)
  BY <1>1, Zenon DEF HasUint
<1> QED BY <1>2 DEF ArchiveHeaderLen

(* stream-decode opens a file with a header: it stands before the first    *)
(* packet.                                                                 *)
LEMMA OpenKeepsArchive ==
  ASSUME ArchiveInv, Open
  PROVE  ArchiveInv'
<1>1. /\ UNCHANGED <<encoderVars, built, archive, output>>
      /\ decoder' = NewDecoder /\ decoded' = <<>>
      /\ command' = IF HasArchiveHeader(archive)
                    THEN [status |-> "decoding", bytes |-> archive,
                          pos |-> ArchiveHeaderLen, packets_left |-> UintAt(archive, 17)]
                    ELSE Ended("refused")
  BY DEF Open
<1>2. /\ EncoderInv /\ built \in Seq(FileByte) /\ archive \in Seq(FileByte)
      /\ BeginningOf(archive, built)
      /\ built # <<>> => built = ArchiveOf(emitted, Len(pushed))
      /\ output # <<>> => phase = "finished" /\ output = <<pushed>>
  BY Zenon DEF ArchiveInv
<1>3. PICK rows, B, C : Telling(rows, B, C)
  BY Zenon DEF ArchiveInv
<1>4. CASE ~ HasArchiveHeader(archive)
  <2>1. command' = Ended("refused") /\ UNCHANGED <<encoderVars, built, archive>> /\ output' = output
    BY <1>1, <1>4
  <2>2. command' \in Cursor /\ command'.status # "decoding"
    BY <2>1, EndedType
  <2>3. output' # <<>> => phase = "finished" /\ output' = <<pushed>>
    BY <1>2, <2>1, Zenon
  <2> QED BY <2>1, <2>2, <2>3, CommandEnds
<1>5. CASE HasArchiveHeader(archive)
  <2>1. /\ ArchiveHeaderLen <= Len(archive) /\ Len(archive) \in Nat /\ Len(built) \in Nat
        /\ Len(archive) <= Len(built)
    BY <1>2, <1>5, HeaderIsLong DEF BeginningOf
  <2>2. built # <<>>
    BY <2>1 DEF ArchiveHeaderLen
  <2>3. PICK pos : ArchiveHolds(built, emitted, Len(pushed), pos)
    BY <1>2, <1>3, <2>2, BuiltHolds, Zenon
  <2>4. Len(emitted) \in Nat /\ Len(pushed) \in Nat
    BY <1>2, LenProperties DEF EncoderInv
  <2>5. UintAt(archive, 17) = Len(emitted)
    BY <1>2, <2>1, <2>3, <2>4, CountsAreRead, Zenon
  <2>6. command' = [status |-> "decoding", bytes |-> archive,
                    pos |-> ArchiveHeaderLen, packets_left |-> Len(emitted)]
    BY <1>1, <1>5, <2>5, Zenon
  <2>7. /\ command'.bytes = archive /\ command'.pos = ArchiveHeaderLen
        /\ command'.packets_left = Len(emitted)
    BY <2>6
  <2>8. command' \in Cursor
    BY <1>2, <2>4, <2>6 DEF Cursor, ArchiveHeaderLen
  <2>9. /\ emitted' = emitted /\ pushed' = pushed /\ built' = built
    BY <1>1 DEF encoderVars
  <2>10. 0 \in 0..Len(emitted) /\ pos[0 + 1] = ArchiveHeaderLen /\ Len(emitted) - 0 = Len(emitted)
    BY <2>3, <2>4 DEF ArchiveHolds
  <2>11. AtRow(rows, B, C, 0)'
    <3>1. /\ rows[0 + 1] = FirstRow /\ B \in Seq(PackedBase) /\ C \in Seq(Chunk)
      BY <1>2, <1>3, StoryOfEmitted DEF Story
    <3>2. FirstRow.bases = 0 /\ FirstRow.chunks = 0 /\ FirstRow.parameters = <<>>
      BY DEF FirstRow
    <3>3. SubSeq(B, 1, 0) = <<>> /\ SubSeq(C, 1, 0) = <<>>
      BY <3>1
    <3>4. Samples(<<>>) = <<>>
      <4>1. Len(<<>>) * SamplesPerChunk = 0
        BY Geometry
      <4> QED BY <4>1 DEF Samples, Join
    <3>5. NewDecoder = At(B, 0, <<>>)
      BY <3>3, Zenon DEF NewDecoder, At
    <3> QED BY <1>1, <3>1, <3>2, <3>3, <3>4, <3>5, Zenon DEF AtRow
  <2>12. Reading(rows, B, C)'
    <3>1. BeginningOf(command'.bytes, built') /\ ArchiveHeaderLen <= Len(command'.bytes)
      BY <1>2, <2>1, <2>7, <2>9, Zenon
    <3>2. /\ ArchiveHolds(built', emitted', Len(pushed'), pos)
          /\ 0 \in 0..Len(emitted') /\ command'.pos = pos[0 + 1]
          /\ command'.packets_left = Len(emitted') - 0
      BY <2>3, <2>7, <2>9, <2>10, Zenon
    <3> QED BY <2>11, <3>1, <3>2, Zenon DEF Reading
  <2>13. UNCHANGED <<encoderVars, built, archive, output>>
    BY <1>1
  <2> QED BY <1>3, <2>2, <2>8, <2>12, <2>13, CommandReads
<1> QED BY <1>4, <1>5

(* It gives up.                                                            *)
LEMMA RefuseKeepsArchive ==
  ASSUME ArchiveInv, RefuseArchive
  PROVE  ArchiveInv'
<1>1. UNCHANGED <<encoderVars, built, archive>> /\ output' = output /\ command' = Ended("refused")
  BY DEF RefuseArchive
<1>2. command' \in Cursor /\ command'.status # "decoding"
  BY <1>1, EndedType
<1>3. output' # <<>> => phase = "finished" /\ output' = <<pushed>>
  BY <1>1, Zenon DEF ArchiveInv
<1> QED BY <1>1, <1>2, <1>3, CommandEnds

(* The packet at the cursor is the next one the encoder returned.          *)
LEMMA NextFrameIsRead ==
  ASSUME EncoderInv, NEW rows, NEW B, NEW C, Telling(rows, B, C),
         NEW pos, ArchiveHolds(built, emitted, Len(pushed), pos),
         NEW bytes \in Seq(FileByte), BeginningOf(bytes, built),
         NEW k \in 0..(Len(emitted) - 1), FrameIsThere(bytes, pos[k + 1])
  PROVE  /\ pos[k + 1] \in Nat
         /\ PacketAt(bytes, pos[k + 1] + FrameHeaderLen, UintAt(bytes, pos[k + 1] + 2),
                     UintAt(bytes, pos[k + 1])) = emitted[k + 1]
         /\ pos[k + 1] + FrameHeaderLen + UintAt(bytes, pos[k + 1] + 2) = pos[(k + 1) + 1]
         /\ pos[(k + 1) + 1] \in Nat
         /\ k + 1 \in 1..Len(emitted)
<1> DEFINE packet == emitted[k + 1]
           at == pos[k + 1]
           end == pos[(k + 1) + 1]
<1>1. Len(emitted) \in Nat /\ k \in Nat /\ k + 1 \in 1..Len(emitted)
      /\ k + 1 \in 1..(Len(emitted) + 1) /\ (k + 1) + 1 \in 1..(Len(emitted) + 1)
  <2>1. Len(emitted) \in Nat
    BY LenProperties DEF EncoderInv
  <2> QED BY <2>1
<1>2. \E l_id, l_d, m : WellFormed(packet, l_id, l_d, m)
  BY <1>1, EmittedWellFormed
<1>3. /\ built \in Seq(FileByte) /\ at \in Nat /\ end \in Nat
      /\ LiesAt(built, at, Frame(packet)) /\ end = at + Len(Frame(packet))
  BY <1>1 DEF ArchiveHolds
<1>4. Len(built) \in Nat /\ Len(bytes) \in Nat
  BY <1>3, LenProperties
<1>5. FrameIsThere(bytes, at)
  OBVIOUS
<1> HIDE DEF packet, at, end
<1>6. ReadsFrame(bytes, at, packet)
  BY <1>2, <1>3, <1>4, <1>5, FrameIsRead, Zenon
<1>7. /\ PacketAt(bytes, at + FrameHeaderLen, UintAt(bytes, at + 2), UintAt(bytes, at)) = packet
      /\ at + FrameHeaderLen + UintAt(bytes, at + 2) = end
  BY <1>3, <1>6, Zenon DEF ReadsFrame
<1> QED BY <1>1, <1>3, <1>7, Zenon DEF packet, at, end

(* While IDs suffice every packet's ID width is one that decoders know.    *)
LEMMA RowsStayNarrow ==
  ASSUME EncoderInv, IdsSuffice, NEW rows, NEW B, NEW C, Telling(rows, B, C),
         NEW k \in Nat, k + 1 \in 1..Len(emitted)
  PROVE  /\ rows[(k + 1) + 1].parameters[1] \in Nat
         /\ rows[(k + 1) + 1].parameters[1] <= IdBits
<1>1. /\ emitted \in Seq(StreamPacket) /\ Len(emitted) \in Nat
      /\ Story(emitted, rows, B, C) /\ Len(rows) = Len(emitted) + 1
      /\ B \in Seq(PackedBase) /\ C \in Seq(Chunk)
  BY StoryOfEmitted
<1>2. (k + 1) + 1 \in 2..Len(rows)
  BY <1>1
<1>3. rows[(k + 1) + 1].parameters[1] <= encoder.l_id
  BY <1>2, Zenon DEF Telling, Tells
<1>4. rows[(k + 1) + 1].parameters[1] \in Nat
  BY <1>1, <1>2, RowsOfStory
<1>5. encoder.l_id \in Nat /\ encoder.l_id <= IdBits
  BY EncoderFields, NarrowWhileIdsSuffice DEF EncoderInv, Between, Sound
<1>6. IdBits \in Nat
  BY Constants
<1> DEFINE l_id == rows[(k + 1) + 1].parameters[1]
<1> HIDE DEF l_id
<1>7. l_id \in Nat /\ l_id <= encoder.l_id
  BY <1>3, <1>4 DEF l_id
<1>8. l_id <= IdBits
  BY <1>5, <1>6, <1>7
<1> QED BY <1>7, <1>8 DEF l_id

(* stream-decode reads a packet: its decoder is at the next row, or it     *)
(* refuses the archive, which it does not do while IDs suffice.            *)
LEMMA ReadKeepsArchive ==
  ASSUME ArchiveInv, ReadPacket
  PROVE  ArchiveInv' /\ (IdsSuffice => accepted' = TRUE)
<1> DEFINE bytes == command.bytes
           at == command.pos
           len == UintAt(bytes, at + 2)
           packet == PacketAt(bytes, at + FrameHeaderLen, len, UintAt(bytes, at))
           result == DecodePacket(decoder, packet)
<1>1. /\ UNCHANGED <<encoderVars, built, archive, output>>
      /\ command.status = "decoding" /\ MorePackets(command) /\ FrameIsThere(bytes, at)
      /\ Receive(packet)
      /\ command' = IF accepted'
                    THEN [command EXCEPT !.pos = at + FrameHeaderLen + len,
                                         !.packets_left = @ - 1]
                    ELSE Ended("refused")
  BY DEF ReadPacket
<1>2. /\ decoder' = result.decoder /\ decoded' = decoded \o result.samples
      /\ accepted' = result.ok
  BY <1>1, Zenon DEF Receive
<1>3. /\ EncoderInv /\ command \in Cursor
      /\ output # <<>> => phase = "finished" /\ output = <<pushed>>
  BY Zenon DEF ArchiveInv
<1>4. PICK rows, B, C : Telling(rows, B, C) /\ built # <<>> /\ Reading(rows, B, C)
  BY <1>1, Zenon DEF ArchiveInv
<1>5. BeginningOf(bytes, built) /\ ArchiveHeaderLen <= Len(bytes)
  BY <1>4, Zenon DEF Reading
<1>6. PICK pos : \E k \in 0..Len(emitted) :
        /\ ArchiveHolds(built, emitted, Len(pushed), pos)
        /\ at = pos[k + 1]
        /\ command.packets_left = Len(emitted) - k
        /\ AtRow(rows, B, C, k)
  BY <1>4, Zenon DEF Reading
<1>7. PICK k \in 0..Len(emitted) :
        /\ ArchiveHolds(built, emitted, Len(pushed), pos)
        /\ at = pos[k + 1]
        /\ command.packets_left = Len(emitted) - k
        /\ AtRow(rows, B, C, k)
  BY <1>6, Zenon
<1>8. bytes \in Seq(FileByte) /\ at \in Nat
  BY <1>3 DEF Cursor
<1> DEFINE next == emitted[k + 1]
           row == rows[k + 1]
           after == rows[(k + 1) + 1]
           end == pos[(k + 1) + 1]
<1>9. /\ Len(emitted) \in Nat /\ k \in 0..(Len(emitted) - 1) /\ k \in Nat
      /\ k + 1 \in 1..Len(emitted) /\ k + 1 \in 0..Len(emitted)
      /\ (Len(emitted) - k) - 1 = Len(emitted) - (k + 1)
  <2>1. Len(emitted) \in Nat
    BY <1>3, LenProperties DEF EncoderInv
  <2>2. Len(emitted) - k > 0
    BY <1>1, <1>7 DEF MorePackets
  <2> QED BY <2>1, <2>2
<1>10. packet = next /\ at + FrameHeaderLen + len = end /\ end \in Nat
  <2>1. FrameIsThere(bytes, pos[k + 1])
    BY <1>1, <1>7, Zenon
  <2> HIDE DEF bytes
  <2>2. /\ PacketAt(bytes, pos[k + 1] + FrameHeaderLen, UintAt(bytes, pos[k + 1] + 2),
                    UintAt(bytes, pos[k + 1])) = emitted[k + 1]
        /\ pos[k + 1] + FrameHeaderLen + UintAt(bytes, pos[k + 1] + 2) = pos[(k + 1) + 1]
        /\ pos[(k + 1) + 1] \in Nat
    BY <1>3, <1>4, <1>5, <1>7, <1>8, <1>9, <2>1, NextFrameIsRead, Zenon
  <2> QED BY <1>7, <2>2, Zenon
<1>11. Carries(next, row, after, B, C)
  BY <1>3, <1>4, <1>9, EmittedWellFormed
<1>12. /\ B \in Seq(PackedBase) /\ C \in Seq(Chunk)
       /\ row.bases \in Nat /\ row.chunks \in Nat
  <2>1. /\ emitted \in Seq(StreamPacket) /\ Story(emitted, rows, B, C)
        /\ B \in Seq(PackedBase) /\ C \in Seq(Chunk) /\ Len(rows) = Len(emitted) + 1
    BY <1>3, <1>4, StoryOfEmitted, Zenon
  <2>2. k + 1 \in 1..Len(rows)
    BY <1>9, <2>1
  <2> QED BY <2>1, <2>2, RowsOfStory
<1>13. /\ decoder = At(B, row.bases, row.parameters)
       /\ decoded = Samples(SubSeq(C, 1, row.chunks))
  BY <1>7, Zenon DEF AtRow
<1> HIDE DEF next, row, after
<1>14. Arrives(decoder, decoded, next, after, B, C)
  BY <1>11, <1>12, <1>13, CarriedArrives, Zenon
<1>15. result = DecodePacket(decoder, next)
  BY <1>10, Zenon
<1> HIDE DEF bytes, len, packet, at, end
<1>16. ASSUME accepted' = FALSE PROVE ArchiveInv'
  <2>1. UNCHANGED <<encoderVars, built, archive>> /\ output' = output
        /\ command' = Ended("refused")
    BY <1>1, <1>16
  <2>2. command' \in Cursor /\ command'.status # "decoding"
    BY <2>1, EndedType
  <2>3. output' # <<>> => phase = "finished" /\ output' = <<pushed>>
    BY <1>3, <2>1, Zenon
  <2> QED BY <2>1, <2>2, <2>3, CommandEnds
<1>17. ASSUME ~ (accepted' = FALSE) PROVE ArchiveInv'
  <2>1. result # Rejected(decoder)
    <3>1. Rejected(decoder).ok = FALSE
      BY DEF Rejected
    <3> QED BY <1>2, <1>17, <3>1, Zenon
  <2>2. /\ result.decoder = At(B, after.bases, after.parameters)
        /\ decoded \o result.samples = Samples(SubSeq(C, 1, after.chunks))
        /\ result.ok = TRUE
    BY <1>14, <1>15, <2>1, Zenon DEF Arrives
  <2>3. command' = [command EXCEPT !.pos = end, !.packets_left = @ - 1]
    BY <1>1, <1>2, <1>10, <2>2, Zenon
  <2>4. /\ command'.bytes = bytes /\ command'.pos = end
        /\ command'.packets_left = Len(emitted) - (k + 1)
        /\ command' \in Cursor
    <3> DEFINE left == command.packets_left
    <3>1. command \in [status : {"none", "decoding", "refused", "done"},
                       bytes : Seq(FileByte), pos : Nat, packets_left : Int]
      BY <1>3 DEF Cursor
    <3>2. left = Len(emitted) - k
      BY <1>7, Zenon
    <3>3. left - 1 = Len(emitted) - (k + 1) /\ left - 1 \in Int
      BY <1>9, <3>2
    <3>4. /\ command'.bytes = command.bytes /\ command'.pos = end
          /\ command'.packets_left = left - 1
      BY <2>3, <3>1
    <3>5. command' \in [status : {"none", "decoding", "refused", "done"},
                        bytes : Seq(FileByte), pos : Nat, packets_left : Int]
      <4>1. end \in Nat
        BY <1>10
      <4> QED BY <2>3, <3>1, <3>3, <4>1
    <3> QED BY <3>3, <3>4, <3>5 DEF Cursor, bytes
  <2>5. emitted' = emitted /\ pushed' = pushed /\ built' = built
    BY <1>1 DEF encoderVars
  <2>6. AtRow(rows, B, C, k + 1)'
    BY <1>2, <2>2, Zenon DEF AtRow, after
  <2>7. Reading(rows, B, C)'
    <3>1. BeginningOf(command'.bytes, built') /\ ArchiveHeaderLen <= Len(command'.bytes)
      BY <1>5, <2>4, <2>5, Zenon
    <3>2. /\ ArchiveHolds(built', emitted', Len(pushed'), pos)
          /\ k + 1 \in 0..Len(emitted') /\ command'.pos = pos[(k + 1) + 1]
          /\ command'.packets_left = Len(emitted') - (k + 1)
      BY <1>7, <1>9, <2>4, <2>5, Zenon DEF end
    <3> QED BY <2>6, <3>1, <3>2, Zenon DEF Reading
  <2> QED BY <1>1, <1>4, <2>4, <2>7, CommandReads
<1>18. ASSUME IdsSuffice PROVE accepted' = TRUE
  <2>1. after.parameters[1] \in Nat /\ after.parameters[1] <= IdBits
    BY <1>3, <1>4, <1>9, <1>18, RowsStayNarrow DEF after
  <2>2. ~ (after.parameters[1] > IdBits)
    <3>1. IdBits \in Nat
      BY Constants
    <3> QED BY <2>1, <3>1
  <2> QED BY <1>2, <1>14, <1>15, <2>2, Zenon DEF Arrives
<1> QED BY <1>16, <1>17, <1>18

(* The chunks of a finished stream are the samples, and zeros.             *)
LEMMA LastRowHasAll ==
  ASSUME EncoderInv, NEW rows, NEW B, NEW C, Telling(rows, B, C), phase = "finished",
         AtRow(rows, B, C, Len(emitted))
  PROVE  decoded = Filled(pushed)
<1> DEFINE row == rows[Len(emitted) + 1]
<1>1. /\ Len(rows) = Len(emitted) + 1 /\ C \in Seq(Chunk)
  BY StoryOfEmitted, Zenon
<1>2. Tells(emitted, encoder, rows, B, C) /\ FillChunks(pushed, C)
  BY Zenon DEF Telling, Accounts
<1>3. GoesOn(encoder, row, B, C)
  BY <1>1, <1>2, Zenon DEF Tells
<1>4. encoder.pending.pairs = <<>>
  BY DEF EncoderInv
<1>5. Len(C) = row.chunks + Len(encoder.pending.pairs)
  BY <1>3, Zenon DEF GoesOn
<1>6. row.chunks \in Nat
  <2>1. /\ emitted \in Seq(StreamPacket) /\ Len(emitted) \in Nat
        /\ Story(emitted, rows, B, C) /\ B \in Seq(PackedBase)
    BY StoryOfEmitted, Zenon
  <2>2. Len(emitted) + 1 \in 1..Len(rows)
    BY <1>1, <2>1
  <2> QED BY <1>1, <2>1, <2>2, RowsOfStory
<1>7. Len(C) = row.chunks
  BY <1>4, <1>5, <1>6
<1>8. SubSeq(C, 1, Len(C)) = C
  <2>1. Len(C) \in Nat /\ Len(C) <= Len(C)
    BY <1>1, LenProperties
  <2> QED BY <1>1, <2>1
<1>9. decoded = Samples(C)
  BY <1>7, <1>8, Zenon DEF AtRow
<1> QED BY <1>2, <1>9, Zenon DEF FillChunks, Samples

(* What stream-decode writes are the samples.                              *)
LEMMA OutputKeepsArchive ==
  ASSUME ArchiveInv, WriteSamples
  PROVE  ArchiveInv'
<1> DEFINE bytes == command.bytes
<1>1. /\ UNCHANGED <<encoderVars, built, archive>> /\ command.status = "decoding"
      /\ ~ MorePackets(command) /\ command' = Ended("done")
      /\ output' = <<Truncated(decoded, UintAt(bytes, 9))>>
  BY DEF WriteSamples
<1>2. /\ EncoderInv /\ command \in Cursor
      /\ built # <<>> => phase = "finished"
  BY Zenon DEF ArchiveInv
<1>3. PICK rows, B, C : Telling(rows, B, C) /\ built # <<>> /\ Reading(rows, B, C)
  BY <1>1, Zenon DEF ArchiveInv
<1>4. phase = "finished"
  BY <1>2, <1>3
<1>5. BeginningOf(bytes, built) /\ ArchiveHeaderLen <= Len(bytes)
  BY <1>3, Zenon DEF Reading
<1>6. PICK pos : \E k \in 0..Len(emitted) :
        /\ ArchiveHolds(built, emitted, Len(pushed), pos)
        /\ command.packets_left = Len(emitted) - k
        /\ AtRow(rows, B, C, k)
  BY <1>3, Zenon DEF Reading
<1>7. PICK k \in 0..Len(emitted) :
        /\ ArchiveHolds(built, emitted, Len(pushed), pos)
        /\ command.packets_left = Len(emitted) - k
        /\ AtRow(rows, B, C, k)
  BY <1>6, Zenon
<1>8. Len(emitted) \in Nat /\ Len(pushed) \in Nat /\ pushed \in Seq(Sample)
  BY <1>2, LenProperties DEF EncoderInv
<1>9. k = Len(emitted)
  BY <1>1, <1>7, <1>8 DEF MorePackets
<1>10. decoded = Filled(pushed)
  BY <1>2, <1>3, <1>4, <1>7, <1>9, LastRowHasAll, Zenon
<1>11. UintAt(bytes, 9) = Len(pushed)
  <2>1. bytes \in Seq(FileByte)
    BY <1>2 DEF Cursor
  <2>2. Len(bytes) \in Nat
    BY <2>1, LenProperties
  <2> HIDE DEF bytes
  <2>3. ArchiveHolds(built, emitted, Len(pushed), pos)
    BY <1>7
  <2>4. UintAt(bytes, 9) = Len(pushed) /\ UintAt(bytes, 17) = Len(emitted)
    BY ONLY <1>5, <1>8, <2>2, <2>3, CountsAreRead
  <2> QED BY <2>4
<1>12. PICK zeros \in Seq(Sample) : decoded = pushed \o zeros
  BY <1>2, <1>10, PaddedPushed, Zenon
<1>13. Truncated(decoded, Len(pushed)) = pushed
  <2>1. Len(decoded) = Len(pushed) + Len(zeros) /\ Len(zeros) \in Nat
    BY <1>8, <1>12
  <2>2. ~ (Len(decoded) < Len(pushed))
    BY <1>8, <2>1
  <2>3. Truncated(decoded, Len(pushed)) = SubSeq(decoded, 1, Len(pushed))
    BY <2>2, Zenon DEF Truncated
  <2>4. SubSeq(pushed \o zeros, 1, Len(pushed)) = pushed
    BY <1>8, FirstOfTwo
  <2> QED BY <1>12, <2>3, <2>4, Zenon
<1>14. output' = <<pushed>>
  BY <1>1, <1>11, <1>13, Zenon
<1>15. command' \in Cursor /\ command'.status # "decoding"
  BY <1>1, EndedType
<1> QED BY <1>1, <1>4, <1>14, <1>15, CommandEnds

(* Every step of the commands preserves the invariant.                     *)
LEMMA ArchiveNextPreserves == ArchiveInv /\ [ArchiveNext]_archiveVars => ArchiveInv'
<1> SUFFICES ASSUME ArchiveInv, [ArchiveNext]_archiveVars PROVE ArchiveInv'
  OBVIOUS
<1>1. CASE EncodeSamples
  BY <1>1, EncodeKeepsArchive
<1>2. CASE BuildArchive
  BY <1>2, BuildKeepsArchive
<1>3. CASE WriteArchive \/ WriteIsInterrupted
  BY <1>3, WriteKeepsArchive
<1>4. CASE Open
  BY <1>4, OpenKeepsArchive
<1>5. CASE ReadPacket
  BY <1>5, ReadKeepsArchive
<1>6. CASE RefuseArchive
  BY <1>6, RefuseKeepsArchive
<1>7. CASE WriteSamples
  BY <1>7, OutputKeepsArchive
<1>8. CASE UNCHANGED archiveVars
  <2>1. UNCHANGED <<encoderVars, built, commandVars>> /\ archive' = archive
    BY <1>8 DEF archiveVars
  <2>2. archive' \in Seq(FileByte) /\ BeginningOf(archive', built)
    BY <2>1, Zenon DEF ArchiveInv
  <2> QED BY <2>1, <2>2, FileChanges
<1> QED BY <1>1, <1>2, <1>3, <1>4, <1>5, <1>6, <1>7, <1>8, Zenon DEF ArchiveNext, Decode

(* What is built, on disk, being read and written is always what the       *)
(* encoder was given.                                                      *)
THEOREM ArchiveFollowsEncoder == ArchiveSpec => []ArchiveInv
BY InitHasNoArchive, ArchiveNextPreserves, PTL DEF ArchiveSpec

(* Whatever stream-encode wrote and died in, and stream-decode read and    *)
(* refused before, the samples that stream-decode writes are those that    *)
(* stream-encode was given.                                                *)
THEOREM ArchiveNeverLies == ArchiveSpec => []ArchiveIsLossless
<1>1. ArchiveInv => ArchiveIsLossless
  BY Zenon DEF ArchiveInv, ArchiveIsLossless
<1> QED BY <1>1, ArchiveFollowsEncoder, PTL

----------------------------------------------------------------------------
(* A whole archive is accepted.                                            *)

(* The header of a whole archive is one, and describes the stream.         *)
LEMMA ArchiveHasHeader ==
  ASSUME NEW file, NEW packets, NEW count \in Nat, NEW pos,
         ArchiveHolds(file, packets, count, pos), Len(packets) \in Nat,
         NEW bytes \in Seq(FileByte), BeginningOf(bytes, file),
         ArchiveHeaderLen <= Len(bytes)
  PROVE  /\ HasArchiveHeader(bytes)
         /\ UintAt(bytes, 5) = BitsPerSample /\ UintAt(bytes, 6) = SamplesPerChunk
         /\ UintAt(bytes, 7) = ChunksPerSplit
<1> DEFINE v == HeaderValues(count, Len(packets))
<1>1. Len(bytes) \in Nat
  BY LenProperties
<1>2. ASSUME NEW f \in 1..7
      PROVE  /\ HasUint(bytes, ArchiveFields[f], ArchiveWidths[f])
             /\ UintAt(bytes, ArchiveFields[f]) = v[f]
  BY <1>1, HeaderIsRead
<1>3. /\ v[1] = "TSTR" /\ v[2] = 1 /\ v[3] = BitsPerSample /\ v[4] = SamplesPerChunk
      /\ v[5] = ChunksPerSplit
  BY DEF HeaderValues
<1>4. /\ ArchiveFields[1] = 0 /\ ArchiveFields[2] = 4 /\ ArchiveFields[3] = 5
      /\ ArchiveFields[4] = 6 /\ ArchiveFields[5] = 7 /\ DOMAIN ArchiveFields = 1..7
  BY DEF ArchiveFields
<1> HIDE DEF v
<1>5. /\ UintAt(bytes, 0) = "TSTR" /\ UintAt(bytes, 4) = 1 /\ UintAt(bytes, 5) = BitsPerSample
      /\ UintAt(bytes, 6) = SamplesPerChunk /\ UintAt(bytes, 7) = ChunksPerSplit
  <2>1. 1 \in 1..7 /\ 2 \in 1..7 /\ 3 \in 1..7 /\ 4 \in 1..7 /\ 5 \in 1..7
    OBVIOUS
  <2> QED BY <1>2, <1>3, <1>4, <2>1, Zenon
<1>6. ValidConfig(BitsPerSample, SamplesPerChunk, ChunksPerSplit)
  BY ConfigAssumption DEF ValidConfig
<1> QED BY <1>2, <1>4, <1>5, <1>6, Zenon DEF HasArchiveHeader

(* Every packet in a whole archive is there.                               *)
LEMMA FrameIsWhole ==
  ASSUME NEW packet, NEW l_id, NEW l_d, NEW m, WellFormed(packet, l_id, l_d, m),
         NEW file \in Seq(FileByte), NEW pos \in Nat, LiesAt(file, pos, Frame(packet))
  PROVE  FrameIsThere(file, pos)
<1> DEFINE z == PacketBytes(packet)
           n == packet.chunk_count
           x == Uint(n, 2)
           y == Uint(Len(z), 4)
           head == x \o y
<1>1. /\ Frame(packet) = head \o z /\ head \in Seq(FileByte) /\ z \in Seq(FileByte)
      /\ x \in Seq(FileByte) /\ y \in Seq(FileByte) /\ Len(x) = 2 /\ Len(y) = 4
      /\ Len(z) \in Nat \ {0} /\ n \in Nat \ {0} /\ Len(Frame(packet)) = 6 + Len(z)
  BY FrameBytes DEF Frame, FrameHeaderLen
<1>2. Len(file) \in Nat
  BY LenProperties
<1>3. LiesAt(file, pos, x) /\ LiesAt(file, pos + 2, y)
  <2>1. LiesAt(file, pos, head)
    BY <1>1, <1>2, BothLie
  <2> QED BY <1>1, <1>2, <2>1, BothLie
<1>4. pos + (6 + Len(z)) <= Len(file)
  BY <1>1 DEF LiesAt
<1> HIDE DEF z, n, x, y
<1>5. UintAt(file, pos) = n /\ HasUint(file, pos, 2)
  <2>1. LiesAt(file, pos, Uint(n, 2)) /\ n \in {"TSTR", "TCHY", Unlimited} \cup Nat /\ 2 \in Nat \ {0}
    BY <1>1, <1>3 DEF x
  <2> QED BY ONLY <2>1, UintIsRead
<1>6. UintAt(file, pos + 2) = Len(z) /\ HasUint(file, pos + 2, 4)
  <2>1. /\ LiesAt(file, pos + 2, Uint(Len(z), 4)) /\ Len(z) \in {"TSTR", "TCHY", Unlimited} \cup Nat
        /\ 4 \in Nat \ {0}
    BY <1>1, <1>3 DEF y
  <2> QED BY ONLY <2>1, UintIsRead
<1>7. pos + FrameHeaderLen + UintAt(file, pos + 2) <= Len(file)
  BY <1>1, <1>4, <1>6 DEF FrameHeaderLen
<1>8. UintAt(file, pos + 2) > 0 /\ UintAt(file, pos) > 0
  BY <1>1, <1>5, <1>6
<1> QED BY <1>5, <1>6, <1>7, <1>8, Zenon DEF FrameIsThere

(* A whole archive has a header.                                           *)
LEMMA BuiltHasHeader ==
  ASSUME ArchiveInv, built # <<>>
  PROVE  HasArchiveHeader(built)
<1>1. /\ EncoderInv /\ built \in Seq(FileByte) /\ built = ArchiveOf(emitted, Len(pushed))
  BY Zenon DEF ArchiveInv
<1>2. PICK rows, B, C : Telling(rows, B, C)
  BY Zenon DEF ArchiveInv
<1>3. PICK pos : ArchiveHolds(built, emitted, Len(pushed), pos)
  BY <1>1, <1>2, BuiltHolds, Zenon
<1>4. Len(emitted) \in Nat /\ Len(pushed) \in Nat /\ Len(built) \in Nat
  BY <1>1, LenProperties DEF EncoderInv
<1>5. BeginningOf(built, built) /\ ArchiveHeaderLen <= Len(built)
  BY <1>3, <1>4 DEF BeginningOf, ArchiveHolds
<1> QED BY <1>1, <1>3, <1>4, <1>5, ArchiveHasHeader

(* What is being read describes the stream, and nothing is missing if it   *)
(* is a whole archive.                                                     *)
LEMMA ReadingTells ==
  ASSUME ArchiveInv, command.status = "decoding"
  PROVE  /\ UintAt(command.bytes, 5) = BitsPerSample
         /\ UintAt(command.bytes, 6) = SamplesPerChunk
         /\ UintAt(command.bytes, 7) = ChunksPerSplit
         /\ command.bytes = built /\ MorePackets(command)
              => FrameIsThere(command.bytes, command.pos)
<1> DEFINE bytes == command.bytes
<1>1. /\ EncoderInv /\ command \in Cursor /\ built \in Seq(FileByte)
  BY Zenon DEF ArchiveInv
<1>2. PICK rows, B, C : Telling(rows, B, C) /\ Reading(rows, B, C)
  BY Zenon DEF ArchiveInv
<1>3. BeginningOf(bytes, built) /\ ArchiveHeaderLen <= Len(bytes)
  BY <1>2, Zenon DEF Reading
<1>4. PICK pos : \E k \in 0..Len(emitted) :
        /\ ArchiveHolds(built, emitted, Len(pushed), pos)
        /\ command.pos = pos[k + 1]
        /\ command.packets_left = Len(emitted) - k
  BY <1>2, Zenon DEF Reading
<1>5. PICK k \in 0..Len(emitted) :
        /\ ArchiveHolds(built, emitted, Len(pushed), pos)
        /\ command.pos = pos[k + 1]
        /\ command.packets_left = Len(emitted) - k
  BY <1>4, Zenon
<1>6. Len(emitted) \in Nat /\ Len(pushed) \in Nat /\ bytes \in Seq(FileByte)
  BY <1>1, LenProperties DEF EncoderInv, Cursor
<1>7. /\ UintAt(bytes, 5) = BitsPerSample /\ UintAt(bytes, 6) = SamplesPerChunk
      /\ UintAt(bytes, 7) = ChunksPerSplit
  <2> HIDE DEF bytes
  <2>1. ArchiveHolds(built, emitted, Len(pushed), pos)
    BY <1>5
  <2>2. /\ HasArchiveHeader(bytes)
        /\ UintAt(bytes, 5) = BitsPerSample /\ UintAt(bytes, 6) = SamplesPerChunk
        /\ UintAt(bytes, 7) = ChunksPerSplit
    BY ONLY <1>3, <1>6, <2>1, ArchiveHasHeader
  <2> QED BY <2>2
<1>8. ASSUME MorePackets(command) PROVE FrameIsThere(built, command.pos)
  <2> DEFINE packet == emitted[k + 1]
             at == pos[k + 1]
  <2>1. k + 1 \in 1..Len(emitted) /\ k + 1 \in 1..(Len(emitted) + 1)
    BY <1>5, <1>6, <1>8 DEF MorePackets
  <2>2. \E l_id, l_d, m : WellFormed(packet, l_id, l_d, m)
    BY <1>1, <1>2, <2>1, EmittedWellFormed
  <2>3. at \in Nat /\ LiesAt(built, at, Frame(packet))
    BY <1>5, <2>1 DEF ArchiveHolds
  <2> HIDE DEF packet, at
  <2>4. FrameIsThere(built, at)
    BY <1>1, <2>2, <2>3, FrameIsWhole, Zenon
  <2> QED BY <1>5, <2>4, Zenon DEF at
<1> QED BY <1>7, <1>8

(* No step refuses a whole archive while IDs suffice, and none ends with   *)
(* another configuration than the stream's.                                *)
LEMMA ArchiveStepsAccept ==
  ASSUME ArchiveInv, IdsSuffice, [ArchiveNext]_archiveVars, command' # command
  PROVE  /\ command'.status = "refused" /\ built # <<>> => BytesRead # built
         /\ command'.status = "done" =>
              /\ UintAt(command.bytes, 5) = BitsPerSample
              /\ UintAt(command.bytes, 6) = SamplesPerChunk
              /\ UintAt(command.bytes, 7) = ChunksPerSplit
<1>1. Decode
  BY DEF ArchiveNext, archiveVars, commandVars, EncodeSamples, BuildArchive, WriteArchive,
         WriteIsInterrupted
<1>2. CASE Open
  <2>1. /\ command.status # "decoding"
        /\ command' = IF HasArchiveHeader(archive)
                      THEN [status |-> "decoding", bytes |-> archive,
                            pos |-> ArchiveHeaderLen, packets_left |-> UintAt(archive, 17)]
                      ELSE Ended("refused")
    BY <1>2 DEF Open
  <2>2. command'.status \in {"decoding", "refused"}
    BY <2>1 DEF Ended
  <2>3. command'.status = "refused" => ~ HasArchiveHeader(archive)
    BY <2>1
  <2>4. BytesRead = archive
    BY <2>1 DEF BytesRead
  <2> QED BY <2>2, <2>3, <2>4, BuiltHasHeader
<1>3. CASE ReadPacket
  <2>1. accepted' = TRUE
    BY <1>3, ReadKeepsArchive
  <2>2. command'.status = command.status /\ command.status = "decoding"
    <3>1. command \in Cursor
      BY Zenon DEF ArchiveInv
    <3> QED BY <1>3, <2>1, <3>1 DEF ReadPacket, Cursor
  <2> QED BY <2>2
<1>4. CASE RefuseArchive
  <2>1. /\ command.status = "decoding" /\ MorePackets(command)
        /\ ~ FrameIsThere(command.bytes, command.pos)
        /\ command' = Ended("refused")
    BY <1>4 DEF RefuseArchive
  <2>2. command'.status = "refused" /\ BytesRead = command.bytes
    BY <2>1 DEF Ended, BytesRead
  <2> QED BY <2>1, <2>2, ReadingTells
<1>5. CASE WriteSamples
  <2>1. command.status = "decoding" /\ command'.status = "done"
    BY <1>5 DEF WriteSamples, Ended
  <2> QED BY <2>1, ReadingTells
<1> QED BY <1>1, <1>2, <1>3, <1>4, <1>5 DEF Decode

(* A whole archive is never refused, and its header describes the stream   *)
(* to a decoder that knows nothing else of it, as long as the IDs suffice. *)
THEOREM WholeArchivesPass == ArchiveSpec /\ []IdsSuffice => WholeArchiveIsAccepted
<1>1. ArchiveInv /\ IdsSuffice /\ [ArchiveNext]_archiveVars =>
        [/\ command'.status = "refused" /\ built # <<>> => BytesRead # built
         /\ command'.status = "done" =>
              /\ UintAt(command.bytes, 5) = BitsPerSample
              /\ UintAt(command.bytes, 6) = SamplesPerChunk
              /\ UintAt(command.bytes, 7) = ChunksPerSplit]_command
  BY ArchiveStepsAccept
<1> QED BY <1>1, ArchiveFollowsEncoder, PTL DEF ArchiveSpec, WholeArchiveIsAccepted

----------------------------------------------------------------------------
(* Packets that arrive in any order (TransportFaults).  A packet without   *)
(* parameters and bases leaves the decoder where it is, so the decoder is  *)
(* at the row behind the last packet that came in step.                    *)

(* What a packet adds to its row.                                          *)
LEMMA RowGrows ==
  ASSUME NEW packet, NEW row, NEW after, NEW B, NEW C, Carries(packet, row, after, B, C)
  PROVE  /\ after.bases = row.bases + packet.new_base_count
         /\ after.chunks = row.chunks + packet.chunk_count
         /\ ~ packet.parameters_present => after.parameters = row.parameters
         /\ packet.new_base_count \in Nat /\ packet.chunk_count \in Nat
<1>1. PICK pending \in Pending, l_id \in Nat, l_d \in 0..ChunkBitLen :
        /\ packet = Packet(pending, l_id, l_d)
        /\ after = RowAfter(row, pending, l_id, l_d)
        /\ pending.parameters_present \/ row.parameters = <<l_id, l_d>>
  BY Zenon DEF Carries
<1> DEFINE n == Len(pending.new_bases)
           m == Len(pending.pairs)
           sent == Packet(pending, l_id, l_d)
<1>2. n \in Nat /\ m \in Nat
  <2>1. pending.new_bases \in Seq(PackedBase) /\ pending.pairs \in Seq(Pair)
    BY DEF Pending
  <2> QED BY <2>1
<1>3. /\ sent.parameters_present = pending.parameters_present
      /\ sent.new_base_count = n /\ sent.chunk_count = m
  BY PacketFields, Zenon
<1> HIDE DEF n, m, sent
<1>4. packet = sent
  BY <1>1 DEF sent
<1>5. /\ after.bases = row.bases + n /\ after.chunks = row.chunks + m
      /\ after.parameters = <<l_id, l_d>>
  BY <1>1 DEF RowAfter, n, m
<1>6. ~ packet.parameters_present => row.parameters = <<l_id, l_d>>
  <2>1. packet.parameters_present = pending.parameters_present
    BY <1>3, <1>4
  <2> QED BY <1>1, <2>1
<1> QED BY <1>2, <1>3, <1>4, <1>5, <1>6

(* The rows before and behind a packet.                                    *)
LEMMA PacketHasRows ==
  ASSUME EncoderInv, NEW rows, NEW B, NEW C, Telling(rows, B, C), NEW k \in 1..Len(emitted)
  PROVE  /\ emitted[k] \in StreamPacket
         /\ Carries(emitted[k], rows[k], rows[k + 1], B, C)
         /\ k \in 1..Len(rows) /\ k + 1 \in 1..Len(rows) /\ k + 1 \in 2..Len(rows)
         /\ rows[k + 1].bases = rows[k].bases + emitted[k].new_base_count
         /\ rows[k + 1].chunks = rows[k].chunks + emitted[k].chunk_count
         /\ ~ emitted[k].parameters_present => rows[k + 1].parameters = rows[k].parameters
         /\ emitted[k].new_base_count \in Nat /\ emitted[k].chunk_count \in Nat
<1>1. /\ emitted \in Seq(StreamPacket) /\ Len(emitted) \in Nat
      /\ Story(emitted, rows, B, C) /\ Len(rows) = Len(emitted) + 1
  BY StoryOfEmitted
<1>2. emitted[k] \in StreamPacket
  BY <1>1
<1>3. Carries(emitted[k], rows[k], rows[k + 1], B, C)
  BY <1>1 DEF Story
<1>4. k \in 1..Len(rows) /\ k + 1 \in 1..Len(rows) /\ k + 1 \in 2..Len(rows)
  BY <1>1
<1>5. /\ rows[k + 1].bases = rows[k].bases + emitted[k].new_base_count
      /\ rows[k + 1].chunks = rows[k].chunks + emitted[k].chunk_count
      /\ ~ emitted[k].parameters_present => rows[k + 1].parameters = rows[k].parameters
      /\ emitted[k].new_base_count \in Nat /\ emitted[k].chunk_count \in Nat
  BY <1>3, RowGrows
<1> QED BY <1>2, <1>3, <1>4, <1>5

(* The rows and what they count.                                           *)
LEMMA RowCounts ==
  ASSUME EncoderInv, NEW rows, NEW B, NEW C, Telling(rows, B, C),
         NEW k \in 1..(Len(emitted) + 1)
  PROVE  /\ rows[k].bases \in Nat /\ rows[k].bases <= Len(B)
         /\ rows[k].chunks \in Nat /\ rows[k].chunks <= Len(C)
<1>1. /\ emitted \in Seq(StreamPacket) /\ Len(emitted) \in Nat
      /\ Story(emitted, rows, B, C) /\ Len(rows) = Len(emitted) + 1
      /\ B \in Seq(PackedBase) /\ C \in Seq(Chunk)
  BY StoryOfEmitted
<1> QED BY <1>1, RowsOfStory

(* From one row to a later one: bases become more, parameters stay unless  *)
(* a packet brings others, and both stay unless a packet brings something. *)
Along(rows, k, l) ==
  /\ rows[k].bases <= rows[l].bases
  /\ (\A j \in k..(l - 1) : ~ emitted[j].parameters_present) =>
       rows[l].parameters = rows[k].parameters
  /\ (\A j \in k..(l - 1) : ~ CarriesState(j)) => rows[l].bases = rows[k].bases

LEMMA AlongOneMore ==
  ASSUME EncoderInv, NEW rows, NEW B, NEW C, Telling(rows, B, C),
         NEW k \in 1..Len(emitted), NEW l \in 1..Len(emitted), k <= l, Along(rows, k, l)
  PROVE  Along(rows, k, l + 1)
<1>1. /\ rows[l + 1].bases = rows[l].bases + emitted[l].new_base_count
      /\ ~ emitted[l].parameters_present => rows[l + 1].parameters = rows[l].parameters
      /\ emitted[l].new_base_count \in Nat
  BY PacketHasRows
<1>2. rows[k].bases \in Nat /\ rows[l].bases \in Nat
  <2>1. Len(emitted) \in Nat
    BY StoryOfEmitted
  <2>2. k \in 1..(Len(emitted) + 1) /\ l \in 1..(Len(emitted) + 1)
    BY <2>1
  <2> QED BY <2>2, RowCounts
<1>3. rows[k].bases <= rows[l + 1].bases
  <2>1. rows[k].bases <= rows[l].bases
    BY DEF Along
  <2> QED BY <1>1, <1>2, <2>1
<1>4. \A j \in k..(l - 1) : j \in k..((l + 1) - 1)
  OBVIOUS
<1>5. l \in k..((l + 1) - 1)
  OBVIOUS
<1>6. ASSUME \A j \in k..((l + 1) - 1) : ~ emitted[j].parameters_present
      PROVE  rows[l + 1].parameters = rows[k].parameters
  <2>1. \A j \in k..(l - 1) : ~ emitted[j].parameters_present
    BY <1>4, <1>6, Zenon
  <2>2. ~ emitted[l].parameters_present
    BY <1>5, <1>6, Zenon
  <2> QED BY <1>1, <2>1, <2>2, Zenon DEF Along
<1>7. ASSUME \A j \in k..((l + 1) - 1) : ~ CarriesState(j)
      PROVE  rows[l + 1].bases = rows[k].bases
  <2>1. \A j \in k..(l - 1) : ~ CarriesState(j)
    BY <1>4, <1>7, Zenon
  <2>2. ~ CarriesState(l)
    BY <1>5, <1>7, Zenon
  <2>3. emitted[l].new_base_count = 0
    BY <1>1, <2>2 DEF CarriesState
  <2>4. rows[l].bases = rows[k].bases
    BY <2>1, Zenon DEF Along
  <2> QED BY <1>1, <1>2, <2>3, <2>4
<1> QED BY <1>3, <1>6, <1>7, Zenon DEF Along

LEMMA AlongTheRows ==
  ASSUME EncoderInv, NEW rows, NEW B, NEW C, Telling(rows, B, C),
         NEW k \in 1..(Len(emitted) + 1), NEW l \in 1..(Len(emitted) + 1), k <= l
  PROVE  Along(rows, k, l)
<1> DEFINE n == Len(emitted)
           bad == {d \in Nat : k + d <= n + 1 /\ ~ Along(rows, k, k + d)}
<1>1. n \in Nat /\ k \in Nat /\ l \in Nat
  BY StoryOfEmitted
<1>2. bad = {}
  <2> SUFFICES ASSUME bad # {} PROVE FALSE
    OBVIOUS
  <2>1. PICK d \in bad : \A e \in bad : d <= e
    <3>1. bad \subseteq Nat
      OBVIOUS
    <3> HIDE DEF bad
    <3> QED BY <3>1, LeastElement
  <2>2. d \in Nat /\ k + d <= n + 1 /\ ~ Along(rows, k, k + d)
    BY <2>1
  <2>3. Along(rows, k, k)
    <3>1. rows[k].bases \in Nat
      BY RowCounts
    <3>2. rows[k].bases <= rows[k].bases
      BY <3>1
    <3> QED BY <3>2 DEF Along
  <2>4. d # 0
    <3>1. k + 0 = k
      BY <1>1
    <3> QED BY <2>2, <2>3, <3>1
  <2>5. /\ d - 1 \in Nat /\ ~ (d <= d - 1) /\ k + (d - 1) <= n + 1
        /\ k + (d - 1) \in 1..n /\ k \in 1..n /\ k <= k + (d - 1)
        /\ (k + (d - 1)) + 1 = k + d
    BY <1>1, <2>2, <2>4
  <2>6. Along(rows, k, k + (d - 1))
    <3>1. d - 1 \notin bad
      <4> HIDE DEF bad
      <4> QED BY <2>1, <2>5
    <3> QED BY <2>5, <3>1
  <2>7. Along(rows, k, (k + (d - 1)) + 1)
    <3> DEFINE e == k + (d - 1)
    <3>1. e \in 1..Len(emitted) /\ k \in 1..Len(emitted) /\ k <= e /\ Along(rows, k, e)
      BY <2>5, <2>6
    <3> HIDE DEF e
    <3>2. Along(rows, k, e + 1)
      BY <3>1, AlongOneMore, Zenon
    <3> QED BY <3>2 DEF e
  <2> QED BY <2>2, <2>5, <2>7
<1>3. l - k \in Nat /\ k + (l - k) <= n + 1 /\ k + (l - k) = l
  BY <1>1
<1>4. Along(rows, k, k + (l - k))
  BY <1>2, <1>3
<1> QED BY <1>3, <1>4

(* A packet without parameters and bases leaves a decoder as it is,        *)
(* whether it is decoded or refused.                                       *)
LEMMA PlainLeavesDecoder ==
  ASSUME NEW packet, ~ packet.parameters_present, packet.new_base_count = 0,
         NEW B \in Seq(PackedBase), NEW bases \in Nat, bases <= Len(B), NEW parameters
  PROVE  DecodePacket(At(B, bases, parameters), packet).decoder = At(B, bases, parameters)
<1> DEFINE dictionary == SubSeq(B, 1, bases)
           d == At(B, bases, parameters)
           none == Cut(packet.payload, 0, packet.new_base_count, ChunkBitLen)
<1>1. dictionary \in Seq(PackedBase)
  BY PrefixPlaces
<1>2. none = <<>>
  BY DEF Cut
<1>3. dictionary \o none = dictionary
  <2> HIDE DEF dictionary, none
  <2> QED BY <1>1, <1>2, ConcatEmptySeq
<1>4. d = [dictionary |-> dictionary, parameters |-> parameters] /\ d.dictionary = dictionary
  BY DEF At
<1>5. [d EXCEPT !.dictionary = d.dictionary \o none] = d
  <2> HIDE DEF dictionary, none, d
  <2>1. [[dictionary |-> dictionary, parameters |-> parameters] EXCEPT !.dictionary = dictionary]
          = [dictionary |-> dictionary, parameters |-> parameters]
    BY DictionaryGrows
  <2> QED BY <1>3, <1>4, <2>1, Zenon
<1>6. \A e : Rejected(e).decoder = e
  BY DEF Rejected
<1>7. DecodePayload(d, packet).decoder = d
  <2>1. \/ DecodePayload(d, packet) = Rejected([d EXCEPT !.dictionary = d.dictionary \o none])
        \/ \E samples : DecodePayload(d, packet)
             = [decoder |-> [d EXCEPT !.dictionary = d.dictionary \o none],
                samples |-> samples, ok |-> TRUE]
    <3> HIDE DEF d
    <3> QED BY Zenon DEF DecodePayload
  <2> DEFINE e == [d EXCEPT !.dictionary = d.dictionary \o none]
  <2>2. e = d
    BY <1>5
  <2> HIDE DEF e
  <2>3. CASE DecodePayload(d, packet) = Rejected(e)
    BY <1>6, <2>2, <2>3
  <2>4. CASE \E samples : DecodePayload(d, packet)
               = [decoder |-> e, samples |-> samples, ok |-> TRUE]
    <3>1. PICK samples : DecodePayload(d, packet)
               = [decoder |-> e, samples |-> samples, ok |-> TRUE]
      BY <2>4
    <3> HIDE DEF d
    <3> QED BY <2>2, <3>1
  <2> QED BY <2>1, <2>3, <2>4 DEF e
<1> HIDE DEF d
<1>8. DecodePacket(d, packet) \in {Rejected(d), DecodePayload(d, packet)}
  BY Zenon DEF DecodePacket
<1>9. DecodePacket(d, packet).decoder = d
  BY <1>6, <1>7, <1>8
<1> QED BY <1>9 DEF d

(* The packet of a row is decoded at that row, and at any later one with   *)
(* the same parameters if it brings no bases.                              *)
ReadAs(d, packet, after, first, last, bases, B, C) ==
  /\ DecodePacket(d, packet).ok = TRUE
  /\ DecodePacket(d, packet).samples = Samples(SubSeq(C, first + 1, last))
  /\ DecodePacket(d, packet).decoder = At(B, bases + packet.new_base_count, after.parameters)

LEMMA ReadAtRow ==
  ASSUME NEW B \in Seq(PackedBase), NEW C \in Seq(Chunk), NEW packet, NEW row, NEW after,
         row.bases \in Nat, row.chunks \in Nat,
         Carries(packet, row, after, B, C), ~ (after.parameters[1] > IdBits),
         NEW bases \in Nat,
         \/ bases = row.bases
         \/ packet.new_base_count = 0 /\ row.bases <= bases /\ bases <= Len(B)
  PROVE  ReadAs(At(B, bases, row.parameters), packet, after, row.chunks, after.chunks,
                bases, B, C)
<1>1. PICK pending \in Pending, l_id \in Nat, l_d \in 0..ChunkBitLen :
        /\ packet = Packet(pending, l_id, l_d)
        /\ Means(pending, l_id, l_d, row.bases, row.chunks, B, C)
        /\ after = RowAfter(row, pending, l_id, l_d)
        /\ pending.parameters_present \/ row.parameters = <<l_id, l_d>>
  BY Zenon DEF Carries
<1> DEFINE m == Len(pending.new_bases)
           n == Len(pending.pairs)
           d == At(B, bases, row.parameters)
           result == DecodePacket(d, packet)
<1>2. m \in Nat /\ n \in Nat /\ \A i \in 1..n : pending.pairs[i].base_id \in Nat
  <2>1. pending.new_bases \in Seq(PackedBase) /\ pending.pairs \in Seq(Pair)
    BY DEF Pending
  <2>2. \A i \in 1..n : pending.pairs[i] \in Pair
    BY <2>1
  <2>3. ASSUME NEW i \in 1..n PROVE pending.pairs[i].base_id \in Nat
    <3> DEFINE pair == pending.pairs[i]
    <3>1. pair \in Pair
      BY <2>2
    <3> HIDE DEF pair
    <3>2. pair.base_id \in Nat
      BY <3>1 DEF Pair
    <3> QED BY <3>2 DEF pair
  <2>4. m \in Nat /\ n \in Nat
    BY <2>1
  <2> QED BY <2>3, <2>4
<1>3. packet.new_base_count = m
  BY <1>1, PacketFields
<1>4. after.chunks = row.chunks + n /\ after.parameters = <<l_id, l_d>>
      /\ after.parameters[1] = l_id
  <2>1. after.chunks = row.chunks + n /\ after.parameters = <<l_id, l_d>>
    BY <1>1, Zenon DEF RowAfter
  <2> QED BY <2>1
<1>5. Means(pending, l_id, l_d, bases, row.chunks, B, C)
  <2>1. CASE bases = row.bases
    BY <1>1, <2>1
  <2>2. CASE packet.new_base_count = 0 /\ row.bases <= bases /\ bases <= Len(B)
    <3>1. m = 0
      BY <1>3, <2>2
    <3>2. /\ row.chunks + n <= Len(C)
          /\ \A i \in 1..n : /\ pending.pairs[i].base_id < row.bases + m
                             /\ Restores(B, pending.pairs[i], l_d, C[row.chunks + i])
          /\ FieldsFit(pending, l_id, l_d)
      BY <1>1 DEF Means
    <3> HIDE DEF m, n
    <3>3. bases + m <= Len(B)
      BY <2>2, <3>1
    <3>4. \A i \in 1..m : B[bases + i] = pending.new_bases[i]
      BY <3>1
    <3>5. ASSUME NEW i \in 1..n
          PROVE  /\ pending.pairs[i].base_id < bases + m
                 /\ Restores(B, pending.pairs[i], l_d, C[row.chunks + i])
      <4> DEFINE id == pending.pairs[i].base_id
      <4>1. id \in Nat /\ id < row.bases + m
        BY <1>2, <3>2
      <4> HIDE DEF id
      <4>2. id < bases + m
        BY <1>2, <2>2, <4>1
      <4> QED BY <3>2, <4>2 DEF id
    <3> QED BY <3>2, <3>3, <3>4, <3>5, Zenon DEF Means, m, n
  <2> QED BY <2>1, <2>2
<1>6. result = Understood(B, C, bases, m, row.chunks, n, <<l_id, l_d>>)
  <2>1. PacketMeans(pending, l_id, l_d, bases, row.chunks, B, C, row.parameters)
    BY <1>1, <1>5, WholeDecodes, Zenon
  <2>2. ~ (l_id > IdBits)
    BY <1>4
  <2> QED BY <1>1, <2>1, <2>2, Zenon DEF PacketMeans
<1> DEFINE samples == Samples(SubSeq(C, row.chunks + 1, row.chunks + n))
           next == At(B, bases + m, <<l_id, l_d>>)
<1>7. result = [decoder |-> next, samples |-> samples, ok |-> TRUE]
  BY <1>6, Zenon DEF Understood
<1> HIDE DEF samples, next, result
<1>8. result.decoder = next /\ result.samples = samples /\ result.ok = TRUE
  BY <1>7
<1>9. next = At(B, bases + packet.new_base_count, after.parameters)
  BY <1>3, <1>4 DEF next
<1>10. samples = Samples(SubSeq(C, row.chunks + 1, after.chunks))
  BY <1>4 DEF samples
<1> QED BY <1>8, <1>9, <1>10, Zenon DEF ReadAs, result

(* The samples of the chunks are those pushed, and zeros after finish.     *)
LEMMA SamplesArePushed ==
  ASSUME EncoderInv, NEW rows, NEW B, NEW C, Telling(rows, B, C),
         NEW q \in 1..(Len(C) * SamplesPerChunk)
  PROVE  Samples(C)[q] = IF q <= Len(pushed) THEN pushed[q] ELSE ZeroSample
<1> DEFINE x == Samples(C)
           w == SamplesPerChunk
           m == Len(C) * w
           n == Len(pushed)
           count == (w - (n % w)) % w
           zeros == [i \in 1..count |-> ZeroSample]
<1>1. /\ C \in Seq(Chunk) /\ x \in Seq(Sample) /\ Len(x) = m /\ m \in Nat
  <2>1. C \in Seq(Chunk)
    BY StoryOfEmitted, Zenon
  <2>2. 0 \in Nat /\ 0 <= Len(C) /\ Len(C) \in Nat /\ w \in Nat
    BY <2>1, Geometry
  <2>3. x \in Seq(Sample) /\ Len(x) = Len(C) * w
    BY <2>1, <2>2, SamplesOfPrefix
  <2>4. m \in Nat
    <3> HIDE DEF w
    <3> QED BY <2>2
  <2> QED BY <2>1, <2>3, <2>4
<1>2. /\ pushed \in Seq(Sample) /\ n \in Nat /\ phase \in {"open", "finished"}
      /\ encoder.sample_buffer \in Seq(Sample)
  <2>1. /\ encoder \in Encoder /\ pushed \in Seq(Sample)
        /\ phase \in {"open", "finished"}
    BY Zenon DEF EncoderInv, Between, Sound
  <2>2. encoder.sample_buffer \in Seq(Sample)
    BY <2>1, EncoderFields
  <2> QED BY <2>1, <2>2
<1>3. CASE phase = "open"
  <2> DEFINE buffer == encoder.sample_buffer
  <2>1. pushed = x \o buffer
    BY <1>3, Zenon DEF Telling, Accounts, AreSamples, Samples
  <2>2. q \in 1..m /\ buffer \in Seq(Sample)
    BY <1>2
  <2> HIDE DEF x, m, n, buffer
  <2>3. q \in 1..Len(x)
    BY <1>1, <2>2
  <2>4. /\ Len(pushed) = Len(x) + Len(buffer) /\ pushed[q] = x[q] /\ Len(buffer) \in Nat
    <3>1. /\ Len(x \o buffer) = Len(x) + Len(buffer)
          /\ (x \o buffer)[q] = x[q]
      <4>1. /\ Len(x \o buffer) = Len(x) + Len(buffer)
            /\ \A k \in 1..(Len(x) + Len(buffer)) :
                 (x \o buffer)[k] = IF k <= Len(x) THEN x[k] ELSE buffer[k - Len(x)]
        BY <1>1, <2>2, ConcatProperties
      <4>2. q \in 1..(Len(x) + Len(buffer)) /\ q <= Len(x)
        BY <1>1, <2>2, <2>3
      <4> QED BY <4>1, <4>2
    <3>2. Len(buffer) \in Nat
      BY <2>2
    <3> QED BY <2>1, <3>1, <3>2, Zenon
  <2>5. q <= Len(pushed)
    BY <1>1, <2>2, <2>4
  <2> QED BY <2>4, <2>5 DEF x
<1>4. CASE phase = "finished"
  <2>1. pushed \o zeros = x
    BY <1>4, Zenon DEF Telling, Accounts, FillChunks, Filled, Samples
  <2>2. count \in Nat
    <3>1. w \in Nat \ {0}
      BY Geometry
    <3> HIDE DEF w, n
    <3>2. n % w \in 0..(w - 1)
      BY <1>2, <3>1
    <3> QED BY <3>1, <3>2
  <2>3. zeros \in Seq(Sample) /\ Len(zeros) = count
        /\ \A i \in 1..count : zeros[i] = ZeroSample
    <3> HIDE DEF count
    <3>1. ZeroSample \in Sample
      BY DEF ZeroSample, Sample, BitString, Bit, ZeroBits
    <3> QED BY <2>2, <3>1
  <2> HIDE DEF zeros, count
  <2>4. CASE q <= n
    <3>1. (pushed \o zeros)[q] = pushed[q]
      BY <1>2, <2>3, <2>4
    <3> QED BY <2>1, <2>4, <3>1
  <2>5. CASE ~ (q <= n)
    <3>1. Len(x) = n + count
      <4>1. Len(pushed \o zeros) = Len(pushed) + Len(zeros)
        BY <1>2, <2>3, ConcatProperties
      <4> QED BY <2>1, <2>3, <4>1
    <3>2. q - n \in 1..count
      <4> HIDE DEF n, x, m
      <4>1. q \in 1..m
        BY DEF m, w
      <4> QED BY <1>1, <1>2, <2>2, <2>5, <3>1, <4>1
    <3>3. (pushed \o zeros)[q] = zeros[q - n]
      BY <1>2, <2>2, <2>3, <2>5, <3>2
    <3>4. x[q] = ZeroSample
      BY <2>1, <2>3, <3>2, <3>3
    <3> QED BY <2>5, <3>4
  <2> QED BY <2>4, <2>5
<1> QED BY <1>2, <1>3, <1>4

(* The samples of some chunks in the middle.                               *)
LEMMA SamplesOfMiddle ==
  ASSUME NEW C \in Seq(Chunk), NEW a \in Nat, NEW n \in Nat, a + n <= Len(C)
  PROVE  /\ Samples(SubSeq(C, a + 1, a + n)) \in Seq(Sample)
         /\ Len(Samples(SubSeq(C, a + 1, a + n))) = n * SamplesPerChunk
         /\ a * SamplesPerChunk \in Nat /\ n * SamplesPerChunk \in Nat
         /\ a * SamplesPerChunk + n * SamplesPerChunk <= Len(C) * SamplesPerChunk
         /\ \A k \in 1..(n * SamplesPerChunk) :
              Samples(SubSeq(C, a + 1, a + n))[k] = Samples(C)[a * SamplesPerChunk + k]
<1> DEFINE w == SamplesPerChunk
           D == SubSeq(C, a + 1, a + n)
           middle == Samples(D)
           before == Samples(SubSeq(C, 1, a))
           upto == Samples(SubSeq(C, 1, a + n))
           whole == Samples(C)
           x == a * w
           y == n * w
           z == (a + n) * w
           l == Len(C) * w
<1>1. w \in Nat /\ Len(C) \in Nat /\ a <= Len(C) /\ a + n \in Nat
  BY Geometry
<1>2. D \in Seq(Chunk) /\ Len(D) = n
  BY <1>1, MiddlePlaces
<1>3. middle \in Seq(Sample) /\ Len(middle) = y
  <2> HIDE DEF D
  <2>1. 0 \in Nat /\ 0 <= Len(D)
    BY <1>2
  <2>2. middle \in Seq(Sample) /\ Len(middle) = Len(D) * w
    BY <1>2, <2>1, SamplesOfPrefix
  <2> QED BY <1>2, <2>2
<1>4. /\ before = SubSeq(whole, 1, x) /\ whole \in Seq(Sample) /\ Len(whole) = l
      /\ x \in Nat /\ x <= l
  BY <1>1, SamplesOfPrefix
<1>5. upto = SubSeq(whole, 1, z) /\ z \in Nat /\ z <= l
  BY <1>1, SamplesOfPrefix
<1>6. z = x + y /\ y \in Nat
  <2> HIDE DEF w
  <2> QED BY <1>1
<1>7. before \o middle = upto
  BY SamplesGrow, Zenon
<1> HIDE DEF x, y, z, l, w, D, middle, before, upto, whole
<1>8. before \in Seq(Sample) /\ Len(before) = x
  BY <1>4
<1>9. ASSUME NEW k \in 1..y PROVE middle[k] = whole[x + k]
  <2>1. x + k \in 1..z
    BY <1>4, <1>5, <1>6
  <2>2. upto[x + k] = whole[x + k]
    BY <1>4, <1>5, <2>1
  <2>3. (before \o middle)[x + k] = middle[k]
    <3>1. k \in 1..Len(middle) /\ x + k = Len(before) + k
      BY <1>3, <1>8
    <3> QED BY <1>3, <1>8, <3>1, ConcatProperties
  <2> QED BY <1>7, <2>2, <2>3
<1>10. x + y <= l
  BY <1>5, <1>6
<1> QED BY <1>3, <1>4, <1>6, <1>9, <1>10 DEF middle, x, y, l, w, D, whole

(* The chunks before a packet.                                             *)
LEMMA ChunksBeforePacket ==
  ASSUME EncoderInv, NEW rows, NEW B, NEW C, Telling(rows, B, C),
         NEW k \in 1..(Len(emitted) + 1)
  PROVE  ChunksBefore[k] = rows[k].chunks
<1> DEFINE n == Len(emitted)
           bad == {i \in Nat : i \in 1..(n + 1) /\ ChunksBefore[i] # rows[i].chunks}
<1>1. n \in Nat /\ Story(emitted, rows, B, C)
  BY StoryOfEmitted
<1>2. SUFFICES ASSUME bad # {} PROVE FALSE
  BY <1>1
<1>3. PICK i \in bad : \A j \in bad : i <= j
  <2>1. bad \subseteq Nat
    OBVIOUS
  <2> HIDE DEF bad
  <2> QED BY <1>2, <2>1, LeastElement
<1>4. i \in 1..(n + 1) /\ ChunksBefore[i] # rows[i].chunks /\ i \in Nat
  BY <1>3
<1>5. i # 1
  <2>1. rows[1].chunks = 0
    BY <1>1 DEF Story, FirstRow
  <2>2. ChunksBefore[1] = 0
    BY ChunksBeforeRecursive
  <2> QED BY <1>4, <2>1, <2>2
<1>6. i - 1 \in 1..n /\ i - 1 \in 1..(n + 1) /\ (i - 1) + 1 = i /\ ~ (i <= i - 1) /\ i - 1 \in Nat
  BY <1>1, <1>4, <1>5
<1>7. ChunksBefore[i - 1] = rows[i - 1].chunks
  <2>1. i - 1 \notin bad
    <3> HIDE DEF bad
    <3> QED BY <1>3, <1>6
  <2> QED BY <1>6, <2>1
<1>8. rows[i].chunks = rows[i - 1].chunks + emitted[i - 1].chunk_count
  <2> DEFINE j == i - 1
  <2>1. j \in 1..Len(emitted)
    BY <1>6
  <2> HIDE DEF j
  <2>2. rows[j + 1].chunks = rows[j].chunks + emitted[j].chunk_count
    BY <2>1, PacketHasRows
  <2> QED BY <1>6, <2>2 DEF j
<1>9. ChunksBefore[i] = ChunksBefore[i - 1] + emitted[i - 1].chunk_count
  <2>1. ~ (i <= 1)
    BY <1>4, <1>5
  <2> QED BY <1>4, <2>1, ChunksBeforeRecursive
<1> QED BY <1>4, <1>7, <1>8, <1>9

(* What is read from the chunks of a packet is what was put there.         *)
LEMMA PacketReadsAsPushed ==
  ASSUME EncoderInv, NEW rows, NEW B, NEW C, Telling(rows, B, C), NEW i \in 1..Len(emitted)
  PROVE  Samples(SubSeq(C, rows[i].chunks + 1, rows[i + 1].chunks)) = SamplesOf(i)
<1> DEFINE a == rows[i].chunks
           n == emitted[i].chunk_count
           w == SamplesPerChunk
           middle == Samples(SubSeq(C, a + 1, a + n))
           x == a * w
           y == n * w
           l == Len(C) * w
<1>1. /\ C \in Seq(Chunk) /\ a \in Nat /\ n \in Nat /\ rows[i + 1].chunks = a + n
      /\ a + n <= Len(C) /\ ChunksBefore[i] = a
  <2>1. C \in Seq(Chunk) /\ Len(emitted) \in Nat
    BY StoryOfEmitted, Zenon
  <2>2. i \in 1..(Len(emitted) + 1) /\ i + 1 \in 1..(Len(emitted) + 1)
    BY <2>1
  <2>3. rows[i + 1].chunks = a + n /\ n \in Nat
    BY PacketHasRows
  <2> QED BY <2>1, <2>2, <2>3, RowCounts, ChunksBeforePacket
<1>2. /\ middle \in Seq(Sample) /\ Len(middle) = y
      /\ x \in Nat /\ y \in Nat /\ x + y <= l
      /\ \A k \in 1..y : middle[k] = Samples(C)[x + k]
  <2> HIDE DEF a, n
  <2>1. C \in Seq(Chunk) /\ a \in Nat /\ n \in Nat /\ a + n <= Len(C)
    BY <1>1
  <2>2. middle \in Seq(Sample) /\ Len(middle) = y
    BY <2>1, SamplesOfMiddle, Zenon
  <2>3. x \in Nat /\ y \in Nat /\ x + y <= l
    BY <2>1, SamplesOfMiddle, Zenon
  <2>4. \A k \in 1..y : middle[k] = Samples(C)[x + k]
    BY <2>1, SamplesOfMiddle, Zenon
  <2> QED BY <2>2, <2>3, <2>4
<1>3. l \in Nat
  <2>1. w \in Nat /\ Len(C) \in Nat
    BY <1>1, Geometry
  <2> HIDE DEF w
  <2> QED BY <2>1
<1>4. SamplesOf(i) = [k \in 1..y |-> IF x + k <= Len(pushed) THEN pushed[x + k] ELSE ZeroSample]
  BY <1>1 DEF SamplesOf
<1> HIDE DEF a, n, w, x, y, middle
<1>5. ASSUME NEW k \in 1..y
      PROVE  middle[k] = IF x + k <= Len(pushed) THEN pushed[x + k] ELSE ZeroSample
  <2> DEFINE q == x + k
  <2>1. q \in 1..l
    <3> HIDE DEF l
    <3> QED BY <1>2, <1>3
  <2> HIDE DEF q
  <2>2. Samples(C)[q] = IF q <= Len(pushed) THEN pushed[q] ELSE ZeroSample
    <3>1. q \in 1..(Len(C) * SamplesPerChunk)
      BY <2>1 DEF l, w
    <3> QED BY <3>1, SamplesArePushed, Zenon
  <2> QED BY <1>2, <2>2 DEF q
<1>6. middle = [k \in 1..y |-> middle[k]]
  BY <1>2
<1>7. middle = SamplesOf(i)
  BY <1>4, <1>5, <1>6
<1>8. middle = Samples(SubSeq(C, rows[i].chunks + 1, rows[i + 1].chunks))
  BY <1>1 DEF middle, a
<1> QED BY <1>7, <1>8

(* The decoder is at the row behind what has come in step.                 *)
IsInStep(rows, B) ==
  \A known \in 0..Len(emitted) : InStep(known) =>
    decoder = At(B, rows[known + 1].bases, rows[known + 1].parameters)

InStepInv ==
  /\ TellsEverything
  /\ arrivals \in Seq(1..Len(emitted))
  /\ arrivals # <<>> => phase = "finished"
  /\ arrivals = <<>> => decoder = NewDecoder
  /\ IdsSuffice => \A rows, B, C : Telling(rows, B, C) => IsInStep(rows, B)

(* What comes in step is all there was to come behind it.                  *)
LEMMA NothingBehind ==
  ASSUME EncoderInv, NEW rows, NEW B, NEW C, Telling(rows, B, C),
         NEW known \in 0..Len(emitted), NEW i \in 0..known,
         \A j \in (i + 1)..known : ~ CarriesState(j)
  PROVE  /\ rows[known + 1].bases = rows[i + 1].bases
         /\ rows[known + 1].parameters = rows[i + 1].parameters
<1>1. Len(emitted) \in Nat
  BY StoryOfEmitted
<1> DEFINE k == i + 1
           l == known + 1
<1>2. /\ k \in 1..(Len(emitted) + 1) /\ l \in 1..(Len(emitted) + 1) /\ k <= l
      /\ \A j \in k..(l - 1) : j \in (i + 1)..known
  BY <1>1
<1> HIDE DEF k, l
<1>3. Along(rows, k, l)
  BY <1>2, AlongTheRows, Zenon
<1>4. \A j \in k..(l - 1) : ~ CarriesState(j) /\ ~ emitted[j].parameters_present
  BY <1>2 DEF CarriesState
<1>5. rows[l].bases = rows[k].bases /\ rows[l].parameters = rows[k].parameters
  BY <1>3, <1>4, Zenon DEF Along
<1> QED BY <1>5 DEF k, l

(* Nothing has come.                                                       *)
LEMMA NothingCame ==
  ASSUME EncoderInv, NEW rows, NEW B, NEW C, Telling(rows, B, C),
         arrivals = <<>>, decoder = NewDecoder
  PROVE  IsInStep(rows, B)
<1> SUFFICES ASSUME NEW known \in 0..Len(emitted), InStep(known)
             PROVE  decoder = At(B, rows[known + 1].bases, rows[known + 1].parameters)
  BY DEF IsInStep
<1>1. Len(emitted) \in Nat /\ Story(emitted, rows, B, C) /\ B \in Seq(PackedBase)
  BY StoryOfEmitted
<1>2. \A j \in (0 + 1)..known : ~ CarriesState(j)
  BY DEF InStep
<1>3. 0 \in 0..known
  BY <1>1
<1>4. /\ rows[known + 1].bases = rows[0 + 1].bases
      /\ rows[known + 1].parameters = rows[0 + 1].parameters
  BY <1>2, <1>3, NothingBehind, Zenon
<1>5. rows[0 + 1].bases = 0 /\ rows[0 + 1].parameters = <<>>
  BY <1>1 DEF Story, FirstRow
<1>6. SubSeq(B, 1, 0) = <<>>
  BY <1>1
<1> QED BY <1>4, <1>5, <1>6 DEF At, NewDecoder

(* ... which is so in every state, the next one included.                  *)
NothingIsInStep ==
  \A rows, B, C :
    EncoderInv /\ Telling(rows, B, C) /\ arrivals = <<>> /\ decoder = NewDecoder
      => IsInStep(rows, B)

LEMMA NothingCameNext == NothingIsInStep'
<1>1. NothingIsInStep
  BY NothingCame, Zenon DEF NothingIsInStep
<1> QED BY <1>1, PTL

(* One packet more has come.                                               *)
LEMMA InStepBefore ==
  ASSUME NEW i \in 1..Len(emitted), arrivals \in Seq(1..Len(emitted)),
         Len(emitted) \in Nat, arrivals' = Append(arrivals, i), emitted' = emitted,
         NEW known \in 0..Len(emitted), InStep(known)'
  PROVE  /\ ~ CarriesState(i) => InStep(known)
         /\ CarriesState(i) =>
              /\ i - 1 \in 0..Len(emitted) /\ InStep(i - 1) /\ i \in 0..known
              /\ \A j \in (i + 1)..known : ~ CarriesState(j)
<1> DEFINE n == Len(arrivals)
           more == Append(arrivals, i)
<1>1. /\ n \in Nat /\ DOMAIN arrivals = 1..n /\ DOMAIN more = 1..(n + 1)
      /\ \A j \in 1..n : more[j] = arrivals[j] /\ arrivals[j] \in 1..Len(emitted)
      /\ more[n + 1] = i
  OBVIOUS
<1>2. /\ \A c \in 1..known : CarriesState(c) => \E j \in 1..(n + 1) : more[j] = c
      /\ \A j \in 1..(n + 1) : CarriesState(more[j]) => more[j] <= known
      /\ \A j, l \in 1..(n + 1) :
           j < l /\ CarriesState(more[j]) /\ CarriesState(more[l]) => more[j] < more[l]
      /\ known < Len(emitted) => CarriesState(known + 1)
  BY <1>1 DEF InStep, CarriesState
<1> HIDE DEF n, more
<1>3. \A j, l \in 1..n : /\ j \in 1..(n + 1) /\ l \in 1..(n + 1)
                         /\ j < l /\ CarriesState(arrivals[j]) /\ CarriesState(arrivals[l])
                         => arrivals[j] < arrivals[l]
  BY <1>1, <1>2
<1>4. ASSUME ~ CarriesState(i) PROVE InStep(known)
  <2>1. ASSUME NEW c \in 1..known, CarriesState(c) PROVE \E j \in 1..n : arrivals[j] = c
    <3>1. PICK j \in 1..(n + 1) : more[j] = c
      BY <1>2, <2>1
    <3>2. j # n + 1
      BY <1>1, <1>4, <2>1, <3>1
    <3>3. j \in 1..n
      BY <1>1, <3>2
    <3> QED BY <1>1, <3>1, <3>3
  <2>2. ASSUME NEW j \in 1..n, CarriesState(arrivals[j]) PROVE arrivals[j] <= known
    BY <1>1, <1>2, <2>2
  <2>3. \A j, l \in 1..n : /\ j < l /\ CarriesState(arrivals[j]) /\ CarriesState(arrivals[l])
                           => arrivals[j] < arrivals[l]
    BY <1>1, <1>3
  <2> QED BY <1>1, <1>2, <2>1, <2>2, <2>3 DEF InStep
<1>5. ASSUME CarriesState(i)
      PROVE  /\ i - 1 \in 0..Len(emitted) /\ InStep(i - 1) /\ i \in 0..known
             /\ \A j \in (i + 1)..known : ~ CarriesState(j)
  <2>1. i <= known /\ i \in 0..known /\ i - 1 \in 0..Len(emitted)
    BY <1>1, <1>2, <1>5
  <2>2. ASSUME NEW j \in 1..n, CarriesState(arrivals[j]) PROVE arrivals[j] < i
    <3>1. j \in 1..(n + 1) /\ n + 1 \in 1..(n + 1) /\ j < n + 1
      BY <1>1
    <3>2. more[j] = arrivals[j] /\ more[n + 1] = i
      BY <1>1
    <3> QED BY <1>2, <1>5, <2>2, <3>1, <3>2
  <2>3. ASSUME NEW c \in (i + 1)..known PROVE ~ CarriesState(c)
    <3> SUFFICES ASSUME CarriesState(c) PROVE FALSE
      OBVIOUS
    <3>1. c \in 1..known /\ c # i /\ i < c
      BY <2>1
    <3>2. PICK j \in 1..(n + 1) : more[j] = c
      BY <1>2, <3>1
    <3>3. j \in 1..n
      BY <1>1, <3>1, <3>2
    <3>4. arrivals[j] = c
      BY <1>1, <3>2, <3>3
    <3>5. c < i
      BY <2>2, <3>3, <3>4
    <3> QED BY <3>1, <3>5
  <2>4. InStep(i - 1)
    <3>1. ASSUME NEW c \in 1..(i - 1), CarriesState(c) PROVE \E j \in 1..n : arrivals[j] = c
      <4>1. c \in 1..known /\ c # i
        BY <2>1
      <4>2. PICK j \in 1..(n + 1) : more[j] = c
        BY <1>2, <3>1, <4>1
      <4>3. j \in 1..n
        BY <1>1, <4>1, <4>2
      <4> QED BY <1>1, <4>2, <4>3
    <3>2. ASSUME NEW j \in 1..n, CarriesState(arrivals[j]) PROVE arrivals[j] <= i - 1
      <4>1. arrivals[j] < i /\ arrivals[j] \in Nat
        BY <1>1, <2>2, <3>2
      <4> QED BY <4>1
    <3>3. \A j, l \in 1..n : /\ j < l /\ CarriesState(arrivals[j]) /\ CarriesState(arrivals[l])
                             => arrivals[j] < arrivals[l]
      BY <1>1, <1>3
    <3>4. CarriesState((i - 1) + 1)
      <4>1. (i - 1) + 1 = i
        OBVIOUS
      <4> QED BY <1>5, <4>1
    <3> QED BY <1>1, <3>1, <3>2, <3>3, <3>4 DEF InStep
  <2> QED BY <2>1, <2>3, <2>4
<1> QED BY <1>4, <1>5

(* The ID widths of the rows are known to the decoder while IDs suffice.   *)
LEMMA RowsAreNarrow ==
  ASSUME EncoderInv, IdsSuffice, NEW rows, NEW B, NEW C, Telling(rows, B, C),
         NEW i \in 1..Len(emitted)
  PROVE  ~ (rows[i + 1].parameters[1] > IdBits)
<1>1. /\ emitted \in Seq(StreamPacket) /\ Story(emitted, rows, B, C)
      /\ B \in Seq(PackedBase) /\ C \in Seq(Chunk)
  BY StoryOfEmitted
<1>2. i + 1 \in 2..Len(rows)
  BY PacketHasRows
<1> DEFINE l_id == rows[i + 1].parameters[1]
<1>3. l_id <= encoder.l_id /\ l_id \in Nat
  <2>1. \A k \in 2..Len(rows) : rows[k].parameters[1] <= encoder.l_id
    BY Zenon DEF Telling, Tells
  <2> QED BY <1>1, <1>2, <2>1, RowsOfStory
<1>4. encoder.l_id <= IdBits /\ encoder.l_id \in Nat
  BY NarrowWhileIdsSuffice, EncoderFields DEF EncoderInv, Between, Sound
<1> HIDE DEF l_id
<1>5. ~ (l_id > IdBits)
  BY <1>3, <1>4, Constants
<1> QED BY <1>5 DEF l_id

(* A packet that comes leaves the decoder in step, or out of it.           *)
LEMMA ArriveStaysInStep ==
  ASSUME EncoderInv, IdsSuffice, NEW rows, NEW B, NEW C, Telling(rows, B, C),
         arrivals \in Seq(1..Len(emitted)), IsInStep(rows, B),
         NEW i \in 1..Len(emitted), Arrive(i)
  PROVE  IsInStep(rows, B)'
<1>1. /\ arrivals' = Append(arrivals, i) /\ emitted' = emitted
      /\ decoder' = DecodePacket(decoder, emitted[i]).decoder
  BY DEF Arrive, Receive, encoderVars
<1> SUFFICES ASSUME NEW known \in 0..Len(emitted), InStep(known)'
             PROVE  decoder' = At(B, rows[known + 1].bases, rows[known + 1].parameters)
  BY <1>1 DEF IsInStep
<1>2. Len(emitted) \in Nat /\ B \in Seq(PackedBase) /\ C \in Seq(Chunk)
  BY StoryOfEmitted
<1>3. CASE ~ CarriesState(i)
  <2>1. InStep(known)
    BY <1>1, <1>2, <1>3, InStepBefore, Zenon
  <2> DEFINE bases == rows[known + 1].bases
             parameters == rows[known + 1].parameters
  <2>2. decoder = At(B, bases, parameters)
    BY <2>1, Zenon DEF IsInStep
  <2>3. known + 1 \in 1..(Len(emitted) + 1)
    BY <1>2
  <2>4. bases \in Nat /\ bases <= Len(B)
    BY <2>3, RowCounts
  <2>5. ~ emitted[i].parameters_present /\ emitted[i].new_base_count = 0
    <3>1. emitted[i].new_base_count \in Nat
      BY PacketHasRows
    <3> QED BY <1>3, <3>1 DEF CarriesState
  <2> HIDE DEF bases, parameters
  <2>6. DecodePacket(At(B, bases, parameters), emitted[i]).decoder = At(B, bases, parameters)
    BY <1>2, <2>4, <2>5, PlainLeavesDecoder, Zenon
  <2> QED BY <1>1, <2>2, <2>6 DEF bases, parameters
<1>4. CASE CarriesState(i)
  <2>1. /\ i - 1 \in 0..Len(emitted) /\ InStep(i - 1) /\ i \in 0..known
        /\ \A j \in (i + 1)..known : ~ CarriesState(j)
    BY <1>1, <1>2, <1>4, InStepBefore, Zenon
  <2>2. /\ rows[known + 1].bases = rows[i + 1].bases
        /\ rows[known + 1].parameters = rows[i + 1].parameters
    BY <2>1, NothingBehind, Zenon
  <2>3. decoder = At(B, rows[i].bases, rows[i].parameters)
    <3>1. decoder = At(B, rows[(i - 1) + 1].bases, rows[(i - 1) + 1].parameters)
      BY <2>1, Zenon DEF IsInStep
    <3>2. (i - 1) + 1 = i
      OBVIOUS
    <3> QED BY <3>1, <3>2
  <2>4. /\ Carries(emitted[i], rows[i], rows[i + 1], B, C)
        /\ rows[i + 1].bases = rows[i].bases + emitted[i].new_base_count
    BY PacketHasRows
  <2>5. rows[i].bases \in Nat /\ rows[i].chunks \in Nat
    <3>1. i \in 1..(Len(emitted) + 1)
      BY <1>2
    <3> QED BY <3>1, RowCounts
  <2>6. ~ (rows[i + 1].parameters[1] > IdBits)
    BY RowsAreNarrow
  <2>7. ReadAs(At(B, rows[i].bases, rows[i].parameters), emitted[i], rows[i + 1],
               rows[i].chunks, rows[i + 1].chunks, rows[i].bases, B, C)
    BY <1>2, <2>4, <2>5, <2>6, ReadAtRow, Zenon
  <2>8. decoder' = At(B, rows[i].bases + emitted[i].new_base_count, rows[i + 1].parameters)
    BY <1>1, <2>3, <2>7, Zenon DEF ReadAs
  <2> QED BY <2>2, <2>4, <2>8
<1> QED BY <1>3, <1>4

(* Nothing has come, ...                                                   *)
LEMMA InitIsInStep == FaultsInit => InStepInv
<1> SUFFICES ASSUME FaultsInit PROVE InStepInv
  OBVIOUS
<1>1. EncoderInit /\ decoder = NewDecoder /\ arrivals = <<>>
  BY DEF FaultsInit, DecoderInit
<1>2. TellsEverything
  BY <1>1, InitEstablishes, InitTells, Zenon DEF TellsEverything
<1>3. \A rows, B, C : Telling(rows, B, C) => IsInStep(rows, B)
  BY <1>1, <1>2, NothingCame, Zenon DEF TellsEverything
<1>4. arrivals \in Seq(1..Len(emitted))
  BY <1>1
<1> QED BY <1>1, <1>2, <1>3, <1>4, Zenon DEF InStepInv

(* ... and whatever comes, every step leaves it so.                        *)
LEMMA NextStaysInStep == InStepInv /\ [FaultsNext]_faultVars => InStepInv'
<1> SUFFICES ASSUME InStepInv, [FaultsNext]_faultVars PROVE InStepInv'
  OBVIOUS
<1>1. /\ TellsEverything /\ EncoderInv
      /\ arrivals \in Seq(1..Len(emitted))
      /\ arrivals # <<>> => phase = "finished"
  BY Zenon DEF InStepInv, TellsEverything
<1>2. ASSUME NEW i \in 1..Len(emitted), Arrive(i) PROVE InStepInv'
  <2>1. UNCHANGED encoderVars /\ phase = "finished" /\ arrivals' = Append(arrivals, i)
    BY <1>2 DEF Arrive
  <2>2. TellsEverything' /\ EncoderInv'
    BY <1>1, <2>1, NextTellsEverything, Zenon DEF TellsEverything
  <2>3. UNCHANGED <<encoder, phase, pushed, emitted>>
    BY <2>1 DEF encoderVars
  <2>4. /\ arrivals' \in Seq(1..Len(emitted')) /\ arrivals' # <<>> /\ phase' = "finished"
    <3>1. Append(arrivals, i) \in Seq(1..Len(emitted))
      BY <1>1
    <3>2. Append(arrivals, i) # <<>>
      BY <1>1
    <3> QED BY <2>1, <2>3, <3>1, <3>2
  <2>5. ASSUME IdsSuffice', NEW rows, NEW B, NEW C, Telling(rows, B, C)'
        PROVE  IsInStep(rows, B)'
    <3>1. IdsSuffice
      BY <2>3, <2>5 DEF IdsSuffice
    <3>2. Telling(rows, B, C)
      BY <2>3, <2>5 DEF Telling, Accounts
    <3>3. IsInStep(rows, B)
      BY <3>1, <3>2, Zenon DEF InStepInv
    <3> QED BY <1>1, <1>2, <3>1, <3>2, <3>3, ArriveStaysInStep, Zenon
  <2> QED BY <2>2, <2>4, <2>5, Zenon DEF InStepInv
<1>3. ASSUME [EncoderNext]_encoderVars, UNCHANGED <<decoder, arrivals>> PROVE InStepInv'
  <2>1. TellsEverything' /\ EncoderInv'
    BY <1>1, <1>3, NextTellsEverything, Zenon DEF TellsEverything
  <2>2. CASE arrivals = <<>>
    <3>1. arrivals' = <<>> /\ decoder' = NewDecoder
      BY <1>3, <2>2 DEF InStepInv
    <3>2. \A rows, B, C : Telling(rows, B, C)' => IsInStep(rows, B)'
      BY <2>1, <3>1, NothingCameNext, Zenon DEF NothingIsInStep
    <3>3. arrivals' \in Seq(1..Len(emitted'))
      BY <3>1
    <3> QED BY <2>1, <3>1, <3>2, <3>3, Zenon DEF InStepInv
  <2>3. CASE arrivals # <<>>
    <3>1. UNCHANGED encoderVars
      BY <1>1, <1>3, <2>3, FinishedIsLast
    <3>2. UNCHANGED <<encoder, phase, pushed, emitted, decoder, arrivals>>
      BY <1>3, <3>1 DEF encoderVars
    <3> QED BY <2>1, <3>2 DEF InStepInv, IsInStep, InStep, CarriesState, IdsSuffice, Telling, Accounts
  <2> QED BY <2>2, <2>3
<1>4. UNCHANGED <<decoder, arrivals>> /\ [EncoderNext]_encoderVars => InStepInv'
  BY <1>3
<1>5. ASSUME EncodeFirst \/ UNCHANGED faultVars
      PROVE  UNCHANGED <<decoder, arrivals>> /\ [EncoderNext]_encoderVars
  BY <1>5 DEF EncodeFirst, faultVars, decoderVars
<1> QED BY <1>2, <1>4, <1>5, Zenon DEF FaultsNext

THEOREM StaysInStep == FaultsSpec => []InStepInv
BY InitIsInStep, NextStaysInStep, PTL DEF FaultsSpec

(* A packet whose bases and parameters are known is read as it was meant.  *)
LEMMA PlainAreIndependentNow == InStepInv => (IdsSuffice => PlainPacketsAreIndependent)
<1> SUFFICES ASSUME InStepInv, IdsSuffice,
                    NEW known \in 0..Len(emitted), InStep(known),
                    NEW i \in 1..Len(emitted), IsReadable(i, known)
             PROVE  LET result == DecodePacket(decoder, emitted[i])
                    IN  result.ok /\ result.samples = SamplesOf(i)
  BY DEF PlainPacketsAreIndependent, Packets
<1>1. EncoderInv
  BY Zenon DEF InStepInv, TellsEverything
<1>2. PICK rows, B, C : Telling(rows, B, C)
  BY Zenon DEF InStepInv, TellsEverything
<1>3. /\ Len(emitted) \in Nat /\ B \in Seq(PackedBase) /\ C \in Seq(Chunk)
      /\ Carries(emitted[i], rows[i], rows[i + 1], B, C)
  BY <1>1, <1>2, StoryOfEmitted, PacketHasRows, Zenon
<1> DEFINE bases == rows[known + 1].bases
<1>4. decoder = At(B, bases, rows[known + 1].parameters)
  BY <1>2, Zenon DEF InStepInv, IsInStep
<1>5. /\ i \in 1..(Len(emitted) + 1) /\ i + 1 \in 1..(Len(emitted) + 1)
      /\ known + 1 \in 1..(Len(emitted) + 1) /\ known \in Nat /\ i \in Nat
  BY <1>3
<1>6. /\ rows[i].bases \in Nat /\ rows[i].chunks \in Nat
      /\ bases \in Nat /\ bases <= Len(B)
  BY <1>1, <1>2, <1>5, RowCounts
<1>7. ~ (rows[i + 1].parameters[1] > IdBits)
  BY <1>1, <1>2, RowsAreNarrow, Zenon
<1>8. /\ rows[known + 1].parameters = rows[i].parameters
      /\ \/ bases = rows[i].bases
         \/ emitted[i].new_base_count = 0 /\ rows[i].bases <= bases /\ bases <= Len(B)
  <2>1. CASE i = known + 1
    BY <2>1
  <2>2. CASE /\ ~ CarriesState(i) /\ i <= known
             /\ \A j \in (i + 1)..known : ~ emitted[j].parameters_present
    <3> DEFINE l == known + 1
    <3>1. i <= l /\ \A j \in i..(l - 1) : j = i \/ j \in (i + 1)..known
      BY <1>5, <2>2
    <3> HIDE DEF l
    <3>2. l \in 1..(Len(emitted) + 1)
      BY <1>5 DEF l
    <3>3. Along(rows, i, l)
      BY <1>1, <1>2, <1>5, <3>1, <3>2, AlongTheRows, Zenon
    <3>4. ~ emitted[i].parameters_present /\ emitted[i].new_base_count = 0
      <4>1. emitted[i].new_base_count \in Nat
        BY <1>1, <1>2, PacketHasRows
      <4> QED BY <2>2, <4>1 DEF CarriesState
    <3>5. \A j \in i..(l - 1) : ~ emitted[j].parameters_present
      BY <2>2, <3>1, <3>4
    <3>6. rows[i].bases <= rows[l].bases /\ rows[l].parameters = rows[i].parameters
      BY <3>3, <3>5, Zenon DEF Along
    <3> QED BY <1>6, <3>4, <3>6 DEF l
  <2> QED BY <2>1, <2>2 DEF IsReadable
<1> HIDE DEF bases
<1>9. ReadAs(At(B, bases, rows[i].parameters), emitted[i], rows[i + 1],
             rows[i].chunks, rows[i + 1].chunks, bases, B, C)
  BY <1>3, <1>6, <1>7, <1>8, ReadAtRow, Zenon
<1>10. /\ DecodePacket(decoder, emitted[i]).ok = TRUE
       /\ DecodePacket(decoder, emitted[i]).samples
            = Samples(SubSeq(C, rows[i].chunks + 1, rows[i + 1].chunks))
  BY <1>4, <1>8, <1>9, Zenon DEF ReadAs
<1>11. Samples(SubSeq(C, rows[i].chunks + 1, rows[i + 1].chunks)) = SamplesOf(i)
  BY <1>1, <1>2, PacketReadsAsPushed, Zenon
<1> QED BY <1>10, <1>11

(* Packets that carry neither parameters nor bases may be lost, repeated   *)
(* and reordered: none of it keeps any packet whose bases and parameters   *)
(* have come, or the next that brings some, from being decoded into the    *)
(* samples that were pushed, as long as the IDs suffice.                   *)
THEOREM PlainPacketsStayIndependent ==
  FaultsSpec => [](IdsSuffice => PlainPacketsAreIndependent)
BY StaysInStep, PlainAreIndependentNow, PTL

=============================================================================
