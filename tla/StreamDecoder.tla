--------------------------- MODULE StreamDecoder ----------------------------
(***************************************************************************)
(* StreamDecoder (streaming.rs): packets go in one at a time, samples come *)
(* out.  A packet is what StreamEncoder's Packet builds, or what a         *)
(* transport makes of it: the decoder trusts nothing but the chunk count.  *)
(***************************************************************************)
EXTENDS Transform

VARIABLES
  decoder,                 \* the struct: its dictionary and its parameters
  decoded,                 \* history: the samples decode_packet returned
  accepted                 \* whether the last decode_packet returned Ok

decoderVars == <<decoder, decoded, accepted>>

(* The samples of whole chunks, one after the other.                       *)
Samples(chunks) == Join(chunks, SamplesPerChunk)

NewDecoder == [dictionary |-> <<>>, parameters |-> <<>>]

Rejected(d) == [decoder |-> d, samples |-> <<>>, ok |-> FALSE]

(* The chunks of a packet whose payload is long enough.  The new bases are *)
(* in the dictionary before the first pair is looked at, and stay there if *)
(* a pair's base ID turns out to be unavailable.                           *)
DecodePayload(d, packet) ==
  LET l_id == d.parameters[1]
      l_d  == d.parameters[2]
      bases == Cut(packet.payload, 0, packet.new_base_count, ChunkBitLen)
      pairs == Cut(packet.payload, packet.new_base_count * ChunkBitLen,
                   packet.chunk_count, l_id + l_d)
      known == d.dictionary \o bases
      Base(pair) == ReadValue(SubSeq(pair, 1, l_id)) + 1
      Restored(pair) ==
        InverseTransformChunk(UnpackSamples(known[Base(pair)]),
                              SubSeq(pair, l_id + 1, l_id + l_d), l_d)
      grown == [d EXCEPT !.dictionary = known]
  IN  IF \A i \in 1..packet.chunk_count : Base(pairs[i]) <= Len(known)
      THEN [decoder |-> grown,
            samples |-> Samples([i \in 1..packet.chunk_count |-> Restored(pairs[i])]),
            ok |-> TRUE]
      ELSE Rejected(grown)

(* Faulty variant: bases are stored as they are read, and the packet is    *)
(* found to be truncated afterwards.                                       *)
DecodeThenCheck(d, packet) ==
  LET current == IF packet.parameters_present /\ Len(packet.parameters) = 2
                 THEN [d EXCEPT !.parameters = packet.parameters] ELSE d
      whole == Len(packet.payload) \div ChunkBitLen
      count == IF whole < packet.new_base_count THEN whole ELSE packet.new_base_count
  IN  IF current.parameters = <<>>
      THEN Rejected(d)
      ELSE IF Len(packet.payload) <
                packet.new_base_count * ChunkBitLen
                  + packet.chunk_count * (current.parameters[1] + current.parameters[2])
           THEN Rejected([current EXCEPT
                            !.dictionary = @ \o Cut(packet.payload, 0, count, ChunkBitLen)])
           ELSE DecodePayload(current, packet)

(* Invalid parameters are refused before they are adopted; valid ones are  *)
(* kept even if the payload then proves to be truncated.                   *)
DecodePacket(d, packet) ==
  LET truncated_fields == packet.parameters_present /\ Len(packet.parameters) < 2
      invalid == /\ packet.parameters_present
                 /\ packet.parameters[1] > IdBits \/ packet.parameters[2] > ChunkBitLen
      current == IF packet.parameters_present
                 THEN [d EXCEPT !.parameters = packet.parameters] ELSE d
      payload_bit_len ==
        packet.new_base_count * ChunkBitLen
          + packet.chunk_count * (current.parameters[1] + current.parameters[2])
  IN  IF truncated_fields \/ invalid \/ current.parameters = <<>>
      THEN Rejected(d)
      ELSE IF Len(packet.payload) < payload_bit_len
           THEN Rejected(current)
           ELSE DecodePayload(current, packet)

DecoderInit ==
  /\ decoder = NewDecoder
  /\ decoded = <<>>
  /\ accepted = TRUE

(* Faulty variant: a new decoder for every packet.                         *)
ReceiveAfresh(packet) ==
  LET result == DecodePacket(NewDecoder, packet)
  IN  /\ decoder' = result.decoder
      /\ decoded' = decoded \o result.samples
      /\ accepted' = result.ok

Receive(packet) ==
  LET result == DecodePacket(decoder, packet)
  IN  /\ decoder' = result.decoder
      /\ decoded' = decoded \o result.samples
      /\ accepted' = result.ok

=============================================================================
