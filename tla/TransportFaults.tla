-------------------------- MODULE TransportFaults ---------------------------
(***************************************************************************)
(* Decoder and collector behind a transport that loses, repeats and        *)
(* reorders packets.  A packet carries no number (docs/file-format.md,     *)
(* "Streaming Packet Payload"), so what they notice of it, and what they   *)
(* get right in spite of it, follows from the packets alone.               *)
(*                                                                         *)
(* The same packets arrive at both.  A lost packet never arrives, a        *)
(* repeated one arrives again, and they arrive in any order.  Nothing      *)
(* flows back to the encoder, so it is enough that they arrive after it    *)
(* has finished.                                                           *)
(***************************************************************************)
EXTENDS StreamEncoder, StreamDecoder, StreamCollector

CONSTANT MaxArrivals      \* a bound on the packets that arrive

VARIABLES
  arrivals,      \* history: which of the emitted packets arrived
  collected,     \* history: those of them that ingest_packet accepted
  undecoded      \* history: whether decode_packet ever returned an error

faultVars == <<encoderVars, decoderVars, collectorVars, arrivals, collected, undecoded>>

FaultsInit ==
  /\ EncoderInit /\ DecoderInit /\ CollectorInit
  /\ arrivals = <<>> /\ collected = <<>> /\ undecoded = FALSE

EncodeFirst ==
  /\ EncoderNext
  /\ UNCHANGED <<decoderVars, collectorVars, arrivals, collected, undecoded>>

Arrive(i) ==
  /\ phase = "finished"
  /\ Len(arrivals) < MaxArrivals
  /\ Receive(emitted[i])
  /\ Ingest(emitted[i])
  /\ arrivals' = Append(arrivals, i)
  /\ collected' = IF ingested' THEN Append(collected, i) ELSE collected
  /\ undecoded' = (undecoded \/ ~ accepted')
  /\ UNCHANGED encoderVars

FaultsNext == EncodeFirst \/ \E i \in 1..Len(emitted) : Arrive(i)

FaultsSpec == FaultsInit /\ [][FaultsNext]_faultVars

----------------------------------------------------------------------------
(* The decoder.                                                            *)

Packets == 1..Len(emitted)

(* A packet that changes what the decoder knows.                           *)
CarriesState(i) == emitted[i].parameters_present \/ emitted[i].new_base_count > 0

(* Of these packets, the ones up to `known` have arrived, in order and     *)
(* each once, and no other; `known` is as large as that allows.            *)
InStep(known) ==
  /\ \A i \in 1..known : CarriesState(i) => \E j \in DOMAIN arrivals : arrivals[j] = i
  /\ \A j \in DOMAIN arrivals : CarriesState(arrivals[j]) => arrivals[j] <= known
  /\ \A j, l \in DOMAIN arrivals :
       /\ j < l /\ CarriesState(arrivals[j]) /\ CarriesState(arrivals[l])
       => arrivals[j] < arrivals[l]
  /\ known < Len(emitted) => CarriesState(known + 1)

(* A packet that needs no more than is known, and whose widths are still   *)
(* in force; or the next one that brings something.                        *)
IsReadable(i, known) ==
  \/ /\ ~ CarriesState(i) /\ i <= known
     /\ \A j \in (i + 1)..known : ~ emitted[j].parameters_present
  \/ i = known + 1

(* What the encoder put into a packet.                                     *)
SamplesOf(i) ==
  LET first == ChunksBefore[i] * SamplesPerChunk
      count == emitted[i].chunk_count * SamplesPerChunk
  IN  [k \in 1..count |-> IF first + k <= Len(pushed) THEN pushed[first + k] ELSE ZeroSample]

(* Packets that carry neither parameters nor bases may be lost, repeated   *)
(* and reordered within their split: none of it keeps any other packet, or *)
(* a later copy of them, from being decoded into the samples the encoder   *)
(* put there (decode_packet).                                              *)
PlainPacketsAreIndependent ==
  \A known \in 0..Len(emitted) : InStep(known) =>
    \A i \in Packets : IsReadable(i, known) =>
      LET result == DecodePacket(decoder, emitted[i])
      IN  result.ok /\ result.samples = SamplesOf(i)

----------------------------------------------------------------------------
(* The collector.                                                          *)

NeverRepeated(sequence) == \A i, j \in DOMAIN sequence : sequence[i] = sequence[j] => i = j

Everything == Packets \subseteq {collected[k] : k \in DOMAIN collected}

(* If no packet comes twice, the collector accepts a stream's sample count *)
(* only if it has accepted every packet; if none is missing, it refuses    *)
(* the count as soon as one was accepted twice (ingest_packet, finish).  A *)
(* loss made up for by a repetition is not noticed.                        *)
LossOrRepetitionIsNoticed ==
  phase = "finished" /\ FinishCollector(collector, Len(pushed)) # <<>> =>
    /\ NeverRepeated(arrivals) => Everything
    /\ Everything => NeverRepeated(collected)

(* Whatever arrives, and whatever of it was refused, a container that      *)
(* finish returns is one that can be read: every split but the last is     *)
(* full, every base is there, every pair has its split's widths, and the   *)
(* two ways to read a sample agree.                                        *)
CollectedIsReadable ==
  LET all == collector.splits \o collector.current_split
      chunks[s \in 0..Len(all)] == IF s = 0 THEN 0 ELSE chunks[s - 1] + Len(all[s].pairs)
      count == chunks[Len(all)] * SamplesPerChunk
      container == FinishCollector(collector, count)[1]
  IN  /\ FinishCollector(collector, count) # <<>>
      /\ \A s \in 1..Len(container.splits) :
           LET split == container.splits[s]
           IN  /\ s < Len(container.splits) => Len(split.pairs) = ChunksPerSplit
               /\ Len(split.pairs) \in 1..ChunksPerSplit
               /\ \A p \in 1..Len(split.pairs) :
                    /\ split.pairs[p].base_id < Pow2[split.l_id]
                    /\ Len(split.pairs[p].deviation_bits) = split.l_d
      /\ HasAllBases(container)
      /\ \A i \in 1..count :
           GetBySampleIndex(container, i - 1) = <<DecompressSamples(container)[1][i]>>

(* As long as the collector has accepted every packet that arrived, so has *)
(* the decoder, and what was collected reads as what was decoded, however  *)
(* wrong both may be.                                                      *)
ReceiversAgree ==
  collected = arrivals =>
    /\ ~ undecoded
    /\ LET container == FinishCollector(collector, Len(decoded))
       IN  container # <<>> /\ DecompressSamples(container[1]) = <<decoded>>

(* "Validates and appends one packet": a collector that has accepted each  *)
(* packet of a stream once and in order has what batch compression would   *)
(* have made of the samples, whatever it has refused in between.           *)
AcceptedPacketsMakeTheBatch ==
  phase = "finished" /\ collected = [i \in Packets |-> i] =>
    FinishCollector(collector, Len(pushed)) = CompressSamples(pushed)

=============================================================================
