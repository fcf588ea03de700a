--------------------------- MODULE StreamEncoder ----------------------------
(***************************************************************************)
(* StreamEncoder (streaming.rs): samples are pushed one at a time, grouped *)
(* into chunks, split into base and deviation with the current parameters, *)
(* and gathered in a pending packet until a flush boundary is reached.     *)
(*                                                                         *)
(* The variable `encoder` is the struct, field by field; the operators     *)
(* are its methods, taking and returning the struct.  `status` is not a    *)
(* field of the code: it records that a method returned an error or        *)
(* panicked, after which nothing more is done.                             *)
(***************************************************************************)
EXTENDS Transform, ActiveLru

CONSTANTS
  ChunksPerPacket,   \* StreamEncoder::new, chunks_per_packet
  NewBaseLimit,      \* 127: what the seven low bits of a header can count
  MaxSamples         \* a bound on the samples pushed (the code has none)

ASSUME StreamAssumption ==
  /\ ChunksPerPacket \in Nat \ {0}
  /\ NewBaseLimit \in 2..127
  /\ MaxSamples \in Nat

VARIABLES
  encoder,
  phase,       \* "open", or "finished" once finish() consumed the encoder
  pushed,      \* history: the samples push_sample accepted
  emitted      \* history: the packets push_sample and finish returned

encoderVars == <<encoder, phase, pushed, emitted>>

----------------------------------------------------------------------------
(* PendingPacket::default().                                               *)
EmptyPending ==
  [parameters_present |-> FALSE, new_bases |-> <<>>, pairs |-> <<>>]

(* Faulty variant: a first packet without parameters.                      *)
NewEncoderWithoutParameters ==
  [dictionary           |-> NewDictionary,
   sample_buffer        |-> <<>>,
   current_split_chunks |-> 0,
   old_base_count       |-> 0,
   l_id                 |-> InitialLId,
   l_d                  |-> InitialLD,
   pending              |-> EmptyPending,
   ready                |-> <<>>,
   status               |-> "ok"]

NewEncoder ==
  [dictionary           |-> NewDictionary,
   sample_buffer        |-> <<>>,
   current_split_chunks |-> 0,
   old_base_count       |-> 0,
   l_id                 |-> InitialLId,
   l_d                  |-> InitialLD,
   pending              |-> [EmptyPending EXCEPT !.parameters_present = TRUE],
   ready                |-> <<>>,
   status               |-> "ok"]

(* The bitstream of a packet: its new bases, then its pairs, all of one    *)
(* width, then zeros up to a whole byte.                                   *)
Payload(pending, l_id, l_d) ==
  PadToByte(Join(pending.new_bases, ChunkBitLen)
            \o Join([i \in 1..Len(pending.pairs) |->
                       WriteValue(pending.pairs[i].base_id, l_id)
                         \o pending.pairs[i].deviation_bits],
                    l_id + l_d))

(* A packet's header byte (its flag and its count), its parameter bytes,   *)
(* its payload bits, and the chunk count the transport carries beside it.  *)
Packet(pending, l_id, l_d) ==
  [parameters_present |-> pending.parameters_present,
   new_base_count     |-> Len(pending.new_bases),
   parameters         |-> IF pending.parameters_present THEN <<l_id, l_d>> ELSE <<>>,
   payload            |-> Payload(pending, l_id, l_d),
   chunk_count        |-> Len(pending.pairs)]

(* Faulty variant: the flag is not taken out with the rest of the packet.  *)
FlushKeepsFlag(e) ==
  IF e.pending.pairs = <<>>
  THEN e
  ELSE [e EXCEPT !.pending.new_bases = <<>>,
                 !.pending.pairs = <<>>,
                 !.ready = Append(@, Packet(e.pending, e.l_id, e.l_d))]

FlushPending(e) ==
  IF e.pending.pairs = <<>>
  THEN e
  ELSE IF Len(e.pending.new_bases) > NewBaseLimit
       THEN [e EXCEPT !.pending = EmptyPending, !.status = "too many new bases"]
       ELSE [e EXCEPT !.pending = EmptyPending,
                      !.ready = Append(@, Packet(e.pending, e.l_id, e.l_d))]

(* Faulty variant: the chunk count of the split is not reset.              *)
UpdateKeepsCount(e) ==
  [e EXCEPT !.l_id = UpdateLId(e.dictionary.next_id, e.l_id),
            !.l_d = UpdateLD(e.dictionary.next_id, e.old_base_count, e.l_d),
            !.old_base_count = e.dictionary.next_id,
            !.pending.parameters_present = TRUE]

(* update_parameters, and what encode_chunk resets at a split boundary.    *)
UpdateParameters(e) ==
  [e EXCEPT !.l_id = UpdateLId(e.dictionary.next_id, e.l_id),
            !.l_d = UpdateLD(e.dictionary.next_id, e.old_base_count, e.l_d),
            !.old_base_count = e.dictionary.next_id,
            !.current_split_chunks = 0,
            !.pending.parameters_present = TRUE]

BeginSplit(e) ==
  LET flushed == FlushPending(e)
  IN  IF flushed.status = "ok" THEN UpdateParameters(flushed) ELSE flushed

(* One chunk becomes a pair of the pending packet, and its base one of the *)
(* packet's new bases if the dictionary did not have it.                   *)
AddPair(e, base, deviation_bits) ==
  LET got == GetOrInsert(e.dictionary, base)
  IN  [e EXCEPT
         !.dictionary = got.dictionary,
         !.pending.new_bases = IF got.is_new THEN Append(@, base) ELSE @,
         !.pending.pairs = Append(@, [base_id |-> got.id,
                                      deviation_bits |-> deviation_bits]),
         !.current_split_chunks = @ + 1]

(* Faulty variant: new bases are not counted.                              *)
PacketHasAllChunks(pending) == Len(pending.pairs) = ChunksPerPacket

PacketIsFull(pending) ==
  \/ Len(pending.pairs) = ChunksPerPacket
  \/ Len(pending.new_bases) = NewBaseLimit

AddChunk(e, chunk) ==
  LET transformed == TransformChunk(chunk, e.l_d)
      base == PackSamples(transformed.base_samples)
      added == AddPair(e, base, transformed.deviation_bits)
  IN  IF IdsExhausted(e.dictionary, base)
      THEN [e EXCEPT !.status = "ids exhausted"]
      ELSE IF PacketIsFull(added.pending) THEN FlushPending(added) ELSE added

EncodeChunk(e, chunk) ==
  LET current == IF e.current_split_chunks = ChunksPerSplit THEN BeginSplit(e) ELSE e
  IN  IF current.status = "ok" THEN AddChunk(current, chunk) ELSE current

(* push_sample up to the packet it returns.                                *)
Buffered(e, sample) ==
  LET buffer == Append(e.sample_buffer, sample)
  IN  IF Len(buffer) = SamplesPerChunk
      THEN EncodeChunk([e EXCEPT !.sample_buffer = <<>>], buffer)
      ELSE [e EXCEPT !.sample_buffer = buffer]

(* Faulty variant: the pending packet is not flushed at the end.           *)
DrainedWithoutFlush(e) ==
  IF e.sample_buffer = <<>> THEN e
  ELSE EncodeChunk([e EXCEPT !.sample_buffer = <<>>], PadChunk(e.sample_buffer))

(* finish up to the packets it returns.                                    *)
Drained(e) ==
  LET padded == IF e.sample_buffer = <<>> THEN e
                ELSE EncodeChunk([e EXCEPT !.sample_buffer = <<>>],
                                 PadChunk(e.sample_buffer))
  IN  IF padded.status = "ok" THEN FlushPending(padded) ELSE padded

----------------------------------------------------------------------------
Running == phase = "open" /\ encoder.status = "ok"

EncoderInit ==
  /\ encoder = NewEncoder
  /\ phase = "open"
  /\ pushed = <<>>
  /\ emitted = <<>>

(* push_sample returns at most one packet, the oldest that is ready.       *)
PushSample(sample) ==
  /\ Running
  /\ Len(pushed) < MaxSamples
  /\ LET after == Buffered(encoder, sample)
     IN  /\ after.status = "ok"
         /\ pushed' = Append(pushed, sample)
         /\ IF after.ready = <<>>
            THEN encoder' = after /\ UNCHANGED emitted
            ELSE /\ encoder' = [after EXCEPT !.ready = Tail(@)]
                 /\ emitted' = Append(emitted, Head(after.ready))
  /\ UNCHANGED phase

(* push_sample or finish fails.  Only the status is kept of the encoder:   *)
(* no method is called on it again.                                        *)
PushFails(sample) ==
  /\ Running
  /\ Len(pushed) < MaxSamples
  /\ Buffered(encoder, sample).status # "ok"
  /\ encoder' = [encoder EXCEPT !.status = Buffered(encoder, sample).status]
  /\ UNCHANGED <<phase, pushed, emitted>>

FinishFails ==
  /\ Running
  /\ Drained(encoder).status # "ok"
  /\ encoder' = [encoder EXCEPT !.status = Drained(encoder).status]
  /\ UNCHANGED <<phase, pushed, emitted>>

(* finish consumes the encoder and returns everything that is left.        *)
Finish ==
  /\ Running
  /\ Drained(encoder).status = "ok"
  /\ encoder' = [Drained(encoder) EXCEPT !.ready = <<>>]
  /\ emitted' = emitted \o Drained(encoder).ready
  /\ phase' = "finished"
  /\ UNCHANGED pushed

EncoderNext ==
  \/ \E sample \in Sample : PushSample(sample) \/ PushFails(sample)
  \/ Finish
  \/ FinishFails

EncoderSpec == EncoderInit /\ [][EncoderNext]_encoderVars

----------------------------------------------------------------------------
(* Types.                                                                  *)

Pending == [parameters_present : BOOLEAN,
            new_bases : Seq(PackedBase),
            pairs : Seq(Pair)]

StreamPacket == [parameters_present : BOOLEAN,
                 new_base_count : 0..NewBaseLimit,
                 parameters : Seq(Nat),
                 payload : Seq(Bit),
                 chunk_count : Nat]

Encoder == [dictionary : DictionaryState,
            sample_buffer : Seq(Sample),
            current_split_chunks : 0..ChunksPerSplit,
            old_base_count : Nat,
            l_id : Nat,
            l_d : 0..ChunkBitLen,
            pending : Pending,
            ready : Seq(StreamPacket),
            status : {"ok", "too many new bases", "ids exhausted"}]

EncoderTypeOK ==
  /\ encoder \in Encoder
  /\ phase \in {"open", "finished"}
  /\ pushed \in Seq(Sample)
  /\ emitted \in Seq(StreamPacket)

----------------------------------------------------------------------------
(* The correctness of the encoder on its own.                              *)

(* Every pair that waits in the pending packet can be written with the     *)
(* widths the packet will be written with: flush_pending uses the l_id of  *)
(* the moment it runs, and writes no deviation length.  push_value would   *)
(* drop high ID bits without a word.                                       *)
PendingFitsWidths ==
  \A i \in 1..Len(encoder.pending.pairs) :
     /\ encoder.pending.pairs[i].base_id < Pow2[encoder.l_id]
     /\ Len(encoder.pending.pairs[i].deviation_bits) = encoder.l_d

(* Why it can: the ID width is fixed for a whole split, and leaves room    *)
(* for every remaining chunk of the split to bring a new base.  The width  *)
(* grows by one bit at a split boundary, whatever the split added.         *)
RoomForIds ==
  encoder.dictionary.next_id + (ChunksPerSplit - encoder.current_split_chunks)
    <= Pow2[encoder.l_id]

(* The error path of flush_pending (more than 127 new bases, which the     *)
(* header could not count) is never taken.                                 *)
FlushNeverFails == encoder.status # "too many new bases"

(* One call of push_sample never leaves a packet behind in `ready`: it     *)
(* returns at most one, although one chunk may cross a split boundary      *)
(* (a flush) and fill a packet (another flush).  finish then returns what  *)
(* is left, and leaves nothing pending.                                    *)
NoBacklog ==
  /\ encoder.ready = <<>>
  /\ phase = "finished" => encoder.pending.pairs = <<>> /\ encoder.sample_buffer = <<>>

(* The ID width is not wasteful either: beyond its initial value it is     *)
(* never more than one bit wider than the IDs the split may reach need.    *)
IdWidthNotWasteful ==
  encoder.l_id > InitialLId =>
    encoder.dictionary.next_id + ChunksPerSplit >= Pow2[encoder.l_id - 1]

(* Packets tile the splits: a packet that carries parameters starts a      *)
(* split, every split starts with one, and no packet reaches from one      *)
(* split into the next (StreamCollector rejects all three otherwise).      *)
ChunksBefore[i \in Nat] ==
  IF i <= 1 THEN 0 ELSE ChunksBefore[i - 1] + emitted[i - 1].chunk_count

PacketsTileSplits ==
  \A i \in 1..Len(emitted) :
     LET first == ChunksBefore[i] % ChunksPerSplit
     IN  /\ emitted[i].parameters_present <=> first = 0
         /\ first + emitted[i].chunk_count <= ChunksPerSplit

(* Every ID goes with exactly one base that is or will be sent, and IDs    *)
(* run out before they wrap: an ID that came back would resolve to the     *)
(* wrong base in every decoder.                                            *)
BasesBefore[i \in Nat] ==
  IF i <= 1 THEN 0 ELSE BasesBefore[i - 1] + emitted[i - 1].new_base_count

OneIdPerBase ==
  /\ BasesBefore[Len(emitted) + 1] + Len(encoder.pending.new_bases)
       = encoder.dictionary.next_id
  /\ encoder.dictionary.next_id <= MaxId

=============================================================================
