-------------------------- MODULE StreamCollector ---------------------------
(***************************************************************************)
(* StreamCollector (streaming.rs): packets are gathered into a container   *)
(* without decoding any sample.                                            *)
(*                                                                         *)
(* The variable `collector` is the struct; `current_split` is <<>> for     *)
(* None and <<split>> for Some.  As for the decoder, nothing about a       *)
(* packet is trusted but its chunk count.                                  *)
(***************************************************************************)
EXTENDS Codec

VARIABLES
  collector,
  ingested       \* whether the last ingest_packet returned Ok

collectorVars == <<collector, ingested>>

NewCollector == [dictionary |-> <<>>, splits |-> <<>>, current_split |-> <<>>]

Ingested(c) == [collector |-> c, ok |-> TRUE]

Refused(c) == [collector |-> c, ok |-> FALSE]

HasPairs(c) == c.current_split # <<>> /\ c.current_split[1].pairs # <<>>

(* Faulty variant: an empty split counts as incomplete.                    *)
MidSplitOrEmpty(c) ==
  c.current_split # <<>> /\ Len(c.current_split[1].pairs) # ChunksPerSplit

(* Faulty variant: parameters are taken whenever they come.                *)
MidSplitNever(c) == FALSE

(* Parameters may come before the first pair of a split or after its last. *)
MidSplit(c) ==
  HasPairs(c) /\ Len(c.current_split[1].pairs) # ChunksPerSplit

(* A finished split is put away; an empty one stays.                       *)
CloseSplit(c) ==
  IF HasPairs(c)
  THEN [c EXCEPT !.splits = @ \o c.current_split, !.current_split = <<>>]
  ELSE c

(* Faulty variant: a base ID is not looked up.                             *)
AnyIsAvailable(dictionary, base_id) == TRUE

IsAvailable(dictionary, base_id) == base_id < Len(dictionary)

(* The bases and pairs of a packet whose payload is long enough.  Pairs    *)
(* are added until one names a base that is not available.                 *)
IngestPayload(c, packet) ==
  LET split == c.current_split[1]
      bases == Cut(packet.payload, 0, packet.new_base_count, ChunkBitLen)
      cut == Cut(packet.payload, packet.new_base_count * ChunkBitLen,
                 packet.chunk_count, split.l_id + split.l_d)
      known == c.dictionary \o bases
      pairs == [i \in 1..packet.chunk_count |->
                  [base_id |-> ReadValue(SubSeq(cut[i], 1, split.l_id)),
                   deviation_bits |-> SubSeq(cut[i], split.l_id + 1, split.l_id + split.l_d)]]
      good == {n \in 0..packet.chunk_count :
                 \A i \in 1..n : IsAvailable(known, pairs[i].base_id)}
      taken == CHOOSE n \in good : \A m \in good : m <= n
      grown == [c EXCEPT !.dictionary = known,
                         !.current_split[1].pairs = @ \o SubSeq(pairs, 1, taken)]
  IN  IF taken = packet.chunk_count THEN Ingested(grown) ELSE Refused(grown)

(* ingest_packet: a packet with parameters closes the current split before *)
(* its parameters are looked at; a refusal after that leaves it closed.    *)
IngestPacket(c, packet) ==
  LET present == packet.parameters_present
      closed == IF present THEN CloseSplit(c) ELSE c
      invalid == /\ present
                 /\ packet.parameters[1] > IdBits \/ packet.parameters[2] > ChunkBitLen
      current == IF present
                 THEN [closed EXCEPT !.current_split =
                         <<NewSplit(packet.parameters[1], packet.parameters[2])>>]
                 ELSE closed
      split == current.current_split[1]
      payload_bit_len == packet.new_base_count * ChunkBitLen
                           + packet.chunk_count * (split.l_id + split.l_d)
  IN  IF present /\ (Len(packet.parameters) < 2 \/ MidSplit(c)) THEN Refused(c)
      ELSE IF invalid \/ current.current_split = <<>> THEN Refused(closed)
      ELSE IF \/ Len(split.pairs) + packet.chunk_count > ChunksPerSplit
              \/ Len(packet.payload) < payload_bit_len
           THEN Refused(current)
      ELSE IngestPayload(current, packet)

(* Faulty variant: the last chunk may be missing.                          *)
CountIsCovered(original_sample_count, encoded_samples) ==
  original_sample_count <= encoded_samples + SamplesPerChunk

(* The sample count must lie within the last chunk.                        *)
CountFits(original_sample_count, encoded_samples) ==
  /\ original_sample_count <= encoded_samples
  /\ encoded_samples > 0 => original_sample_count > encoded_samples - SamplesPerChunk

(* finish: <<container>>, or <<>> for an error.                            *)
FinishCollector(c, original_sample_count) ==
  LET splits == CloseSplit(c).splits
      chunks[s \in 0..Len(splits)] ==
        IF s = 0 THEN 0 ELSE chunks[s - 1] + Len(splits[s].pairs)
  IN  IF CountFits(original_sample_count, chunks[Len(splits)] * SamplesPerChunk)
      THEN <<[original_sample_count |-> original_sample_count,
              dictionary |-> c.dictionary,
              splits |-> splits]>>
      ELSE <<>>

CollectorInit == collector = NewCollector /\ ingested = TRUE

Ingest(packet) ==
  LET result == IngestPacket(collector, packet)
  IN  collector' = result.collector /\ ingested' = result.ok

=============================================================================
