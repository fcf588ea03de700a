# Titchy-rs in TLA+

TLA+ modules, TLC configurations and TLAPS proofs for Titchy-rs, a lossless
compressor for fixed-width sensor samples (Rust, `src/src/`). Samples are
grouped into chunks; each chunk is split into *deviation bits* (its low bits)
and a *base* (the rest); bases are deduplicated through a dictionary that
assigns permanent 32-bit IDs; the widths of IDs (`l_id`) and of deviations
(`l_d`) are fixed for a *split* (a fixed number of chunks) and adapt at each
split boundary. The same scheme is used at once on a whole input (batch) and
sample by sample (streaming packets).

## 1. Inventory

| Component | Source | State | Operations | Module |
|---|---|---|---|---|
| Bit I/O, packed bits | `bitio.rs`, `packed_bits.rs` | a bit buffer, a read position | push/read bits and values | `Bits` |
| Configuration, adaptive widths | `params.rs`, `codec.rs:423-457` | none | `validate`, `update_parameters`, `capacity_needed` | `Params` |
| Sample packing | `sample_stream.rs` | none | `pack_samples`, `unpack_samples`, padding | `SampleStream` |
| Transform | `transform.rs` | none | `transform_chunk`, its inverse, position queries | `Transform` |
| Dictionary | `dictionary.rs` | two maps, a linked LRU list, `next_id` | `get_or_insert` (touch, insert, evict, panic) | `ActiveLru`, `LruDictionary`, `Dictionary` |
| Stream encoder | `streaming.rs:13-190` | dictionary, sample buffer, split position, widths, pending packet, ready queue | `push_sample`, `finish` | `StreamEncoder` |
| Stream decoder | `streaming.rs:194-198, 334-400` | persisted bases, current widths | `decode_packet` | `StreamDecoder` |
| Stream collector | `streaming.rs:200-332` | persisted bases, finished splits, current split | `ingest_packet`, `finish` | `StreamCollector` |
| Batch compression | `codec.rs:257-363` | an in-memory container | `compress_samples`, `decompress_samples` | `Codec` |
| Random access | `random_access.rs` | none (reads a container) | by sample, by bit, by range | `Codec` |
| Container format | `codec.rs:100-251, 278-295` | bytes | `to_bytes`, `from_bytes` | `Container` |
| Indexed reader | `indexed.rs` | bytes, split index read at open | `open`; sample, bit, range | `IndexedReader` |
| Access-cost metrics | `metrics.rs`, `codec.rs:245-251` | none (reads a container) | cost of a sample, of a bit, bounds of a request, mean block count, paper size | `Metrics` |
| Raw bytes | `codec.rs:365-421` | none | `compress_raw_bytes`, `decompress_raw_bytes` | `RawBytes` |
| Stream archive (TSTR) | `bin/titchy.rs:468-560` | a file, a cursor into it | `stream-encode`, `stream-decode` | `StreamArchive` |
| Command line, the rest | `bin/titchy.rs` | files | `compress`, `compress-raw`, `decompress-raw` and others | the files of these three, in `MCContainer` and `MCRawBytes` |
| Synthetic data, errors | `synthetic.rs`, `error.rs` | none | sample generator, messages | not modelled |

How they interact: everything is single-threaded and by direct call. Parties
run apart in two places. A file (a container, or an archive of packets) outlives the
program that wrote it, may have been cut off while it was written, and
is read by another program; a container by two readers that find their way in it
differently. And in the stream an
encoder runs in one program, a decoder or a collector in another, with packets in
between, which say nothing of their order. They share no state,
yet the decoder must resolve an ID to the base the encoder meant, with the
widths the encoder used, although only the encoder evicts, only the encoder
runs `update_parameters`, and a packet says nothing about its own place in the
stream. What makes this code hard is in that: long legal call sequences
(split boundaries inside packets, evictions, IDs growing past their width),
limits (127 new bases in a header, 2^32 IDs, a cap of zero bases), and
operations that fail after they have changed something (`decode_packet` and
`ingest_packet` on a truncated packet, or on one that comes too early). `PROJECT.json` lists these hazards at
their lines, each with the properties that watch it.

What makes each component correct:

* transform: decoding undoes encoding for every chunk and width; positions are
  enumerated in one order by encoder, decoder and bit access;
* dictionary: a plain LRU list with permanent IDs, however links are kept;
* encoder: an ID always fits the width it will be written with, packets tile
  splits, nothing stays behind, the error path of a flush is unreachable;
* stream: what is pushed comes out, in order and unchanged;
* collector: the container is the one batch compression would have made;
* random access: each sample, bit and range is the one that was compressed;
* container: reading the file back gives the container, and the reader that seeks
  agrees with the one that walks; a file cut short never yields a wrong sample;
* archive: a part of it never passes for a shorter stream, and repeating the
  commands gets the samples through;
* receivers behind an unreliable transport: what is right in spite of a lost,
  repeated or reordered packet stays right, decoder and collector agree, and what is
  collected can be read;
* metrics: the costs are those of the accesses they stand for;
* raw bytes: the byte order is the same on both sides of a file, and the right one.

## 2. Modules

```
Bits -- Params -- SampleStream -- Transform ----+-- StreamDecoder -------------------+
  |             \                               |                                    |
  |              ActiveLru ---------------------+-- StreamEncoder                    |
  |               |                             |      |   |                         |
  |               LruDictionary                 |      |   PacketTransport --+-- StreamPipeline
  |                ^ implemented by             |      |                     |     implements LosslessChannel
  |               Dictionary                    |      |                     |
  |                                             +-- Codec -- StreamCollector +-- CollectorPipeline
  |                                                  |  |
  |                                                  |  MCCodec, Metrics -- MCMetrics
  |                                                  |
  Files -------------------------------------------- Container -- IndexedReader -- MCContainer
                                                                          |
                                                                          RawBytes -- MCRawBytes

StreamEncoder, StreamDecoder, StreamCollector -- TransportFaults
StreamEncoder, StreamDecoder, Files           -- StreamArchive
```

A line is EXTENDS. `MC*` modules instantiate these for TLC, `*Proofs` modules
hold theorems.

* **`Bits`**: bit strings as sequences of 0/1, most significant bit first.
  `WriteValue` keeps only the low bits, as `push_value` does, so an ID that is
  too wide is silently truncated in the model as in the code. `Join`/`Cut` write
  and read adjacent fields; `PadToByte` is the zero fill of `into_bytes`.
* **`Params`**: the constants are the fields of `TitchyConfig`;
  `ConfigAssumption` is `validate` with the ranges of the field types. The
  threshold is in parts per million: fractions are compared exactly, the
  rounding of one `f64` division is left out. `IdBits` is 32 in the code; it is a
  constant only so that small instances can run out of IDs.
* **`SampleStream`, `Transform`**: a sample is a bit string of the configured
  width, so a value that does not fit (refused before any state changes) does not
  occur. Positions are counted from 1.
* **`ActiveLru`**: what the dictionary promises: a list of active entries, most
  recent first, and the next ID. **`Dictionary`** is the code, method by method:
  `AttachFront`, `Detach`, `Touch`, `EnforceCap`, `Insert` over the two maps and
  the links. `LruDictionary` is the abstract state machine that `Dictionary`
  implements, so the encoder model may be built on `ActiveLru`.
* **`StreamEncoder`**: the variable `encoder` is the struct field by field
  (plus `status`, which records an error or a panic); `EncodeChunk`,
  `BeginSplit`, `AddChunk`, `FlushPending` are its private methods in the code's
  order. One action per public call and outcome: `PushSample`, `PushFails`,
  `Finish`, `FinishFails`. `pushed` and `emitted` are histories.
* **`StreamDecoder`**: `DecodePacket` with every refusal where the code has it,
  and what had changed by then. Packets are records of header fields and payload
  bits; nothing in a packet is trusted but its chunk count, which the code also
  receives by other means (`StreamPacket::from_bytes`).
* **`PacketTransport`**: the transport is not in `src/` as a library part; its
  contract is taken from the loop of `stream_decode_command`: in order, with
  chunk counts. It may also hand over the first bytes of a packet instead of all of
  them, any number of times, and the caller then asks again.
* **`StreamPipeline`**: encoder, transport, decoder; implements
  **`LosslessChannel`**, a FIFO of samples.
* **`Codec`**: batch compression as a loop over chunks with the locals of
  `compress_samples` as a record, and the three ways to read a container.
* **`StreamCollector`, `CollectorPipeline`**: `ingest_packet`, `finish`, and the
  collector in the decoder's place.
* **`TransportFaults`**: a transport that loses, repeats and reorders whole packets,
  with a decoder and a collector behind it to which the same packets arrive. Since
  nothing flows back, packets arrive after the encoder has finished. `collected` and
  `undecoded` are histories of what was accepted. What may still be expected is said in
  terms of the packets: `IsReadable` is a packet that needs no more than has arrived in
  order.
* **`Files`**: a file is a sequence of bytes. A byte is one of the bytes of
  an integer field (the integer, which byte of it, how wide the field is) or eight
  packed bits, so every offset and length is the code's. Byte order and the value of
  a single byte of an integer are left out; a read that is not aligned with what was
  written finds no integer and counts as an error, where the code would go on with
  a wrong number.
* **`StreamArchive`**: `stream-encode` builds the archive in memory and writes it at
  once, which may leave any prefix of it; `stream-decode` reads whatever is there, packet
  by packet, and either fails or writes its samples. Both commands may be run again.
  The variable `command` is a running `stream-decode`: the bytes it has read and its
  `SliceCursor`. A packet is taken apart byte by byte (`PacketAt`), so the frames, the
  header byte and the parameter bytes are the code's.
* **`Container`**: `ToBytes` and `FromBytes` are the two conversions; `HeaderConfig` is
  the configuration the header gives back, with the endian tag, and with the threshold
  as the parts per million that are stored.
* **`IndexedReader`**: `open` and the three accesses, with every check the code makes
  before a read and every read that may hit the end of the file. A reader's state is the
  index read at `open`; accesses seek before they read, so there is no other.
* **`MCContainer`**: the `compress` command: input, `compress_samples`, one
  `fs::write`, which may leave any prefix of the file.
* **`RawBytes`, `MCRawBytes`**: the conversion between bytes and samples in both byte
  orders, and `compress-raw` and `decompress-raw` with a container file between them.
* **`Metrics`, `MCMetrics`**: the formulas of `metrics.rs` as operators on a container,
  and, in the MC module, what they are compared with: `TouchedChunks` finds the chunks
  of a request bit by bit, `BitsRead` counts what an access reads. The one float,
  `expected_block_count`, is a fraction with a known denominator and is compared exactly.

Some definitions have a twin marked *faulty variant*: a plausible bug, used to
confirm that a property notices it. No specification uses one.

## 3. Runs

| Run | Instance | What it asks |
|---|---|---|
| `transform` | one chunk of 3 two-bit samples, all 64 chunks, `l_d` 0..6 | lossless; closed-form positions equal the code's nested loops; single bits readable from base or deviation; widening only merges bases |
| `dictionary` | 4 bases, cap 3, 3-bit IDs | maps and links agree after any sequence of calls; active = most recently asked for; IDs permanent; implements `LruDictionary`; up to the panic |
| `stream_encoder` | chunks of 2 one-bit samples, splits of 4, packets of 3 chunks or 2 new bases, cap 1, 3-bit IDs, 17 samples | the encoder's invariants, up to the panic in `push_sample` and in `finish` |
| `stream_pipeline` | chunks of 3 one-bit samples, splits of 3, packets of 2, cap 1, 10 samples, truncated copies, fairness | lossless channel; dictionaries agree; short copies refused, whole packets never; everything arrives |
| `batch` | chunks of 2 two-bit samples, splits of 2, cap 1, up to 6 samples; requests and blocks of all sizes up to the input's, or 5 bits | batch compression lossless; every sample, bit and range reads back; out of range refused; access costs are those of what is read |
| `collector` | chunks of 2 one-bit samples, splits of 3, packets of 2 (with parameters and without), 13 samples, truncated copies | the collected container *equals* `CompressSamples(pushed)`; whole packets are never refused |
| `container` | chunks of 2 five-bit samples (a base takes two bytes, pairs straddle bytes), splits of 2, cap 1, up to 5 samples, files cut at any byte | `from_bytes` undoes `to_bytes`; the indexed reader agrees with the container in memory on every sample, bit and range; a partial file is refused by `from_bytes` and never misread by the indexed reader |
| `raw_bytes` | chunks of 2 sixteen-bit samples, splits of 1, up to 6 bytes, both byte orders | the bytes come back from the file alone; the samples are the numbers they stand for |
| `stream_archive` | chunks of 2 one-bit samples, splits of 2, packets of 1, 5 samples, archives cut at any byte, commands repeated, fairness | a part never passes for a stream; the whole is never refused; decoded in the end |
| `transport_faults` | one-bit samples, a chunk each, splits of 3, packets of 2, cap 1, up to 6 samples; any 5 arrivals | what stays right, what is noticed, whether the receivers agree, whether what is collected can be read |
| `id_width_limit` | 3-bit IDs, splits of 2 | a violation, see section 6 |
| `refused_packet` | three-bit samples, a chunk and a packet each, splits of 3, 3 samples; any 4 arrivals | a violation, see section 6 |

Bounds. `MaxSamples`, in the batch modules `MaxInput`, bounds the input (the code has no
bound); it is chosen so that each run over a stream of samples crosses at least one split
boundary with another packet after it, and two in `stream_encoder` and `collector`: the
second is the first at which `old_base_count` is not zero and a width has already changed. `IdBits` stands for 32 and is small only where a
run is about running out. `NewBaseLimit` stands for 127; 2 or 3 makes the limit
bind before `ChunksPerPacket` in some packets and after it in others.
Configurations are chosen so that caps evict (room for 0, 1 or 3 bases) except
where a base must come back under its old ID after a long time. The runs cover
partial last chunks (all but `transport_faults`, where a chunk is one sample), packets
that end within a split, and packets that its boundary cuts short (`stream_encoder`,
`stream_pipeline`, `collector`), and equal bases in several splits. A packet limit larger
than a split only makes every packet end at the boundary; the proofs hold for any limit.
The cap that has no room for a single base (every chunk's base is evicted as soon as it
is inserted) is in `raw_bytes`, and the encoder's proofs hold for any cap. `container` takes
only samples whose bits, but for
the last, are equal (`InputSample`): four of 32, enough for bases to repeat and differ
and for deviations to be told apart; `raw_bytes` three values of a byte (`InputByte`), so
that the two bytes of a sample differ in weight and a bit at either end of one shows.
Five arrivals (`MaxArrivals`) of at most four packets are enough for every packet once
and one of them twice, in any order, and for any of them to be missing.
Deadlock is not checked where the input is bounded: every such system stops when
the input has been used up.

Fairness is used in `stream_pipeline` and `stream_archive`. `CallerFinishes`: the
caller's input ends, so the encoder is finished or has failed; `stream_encode_command`
loops over a finite vector and then calls `finish`. `WF_vars(Deliver)` in
`stream_pipeline`: a packet in flight is in the end delivered whole;
`stream_decode_command` reads every packet of the archive, and a transport that
truncates forever cannot be asked to deliver. No fairness is assumed of a truncated
delivery. In `stream_archive` the archive is built and `stream-decode` goes on (a
program that runs does the next step, and whoever wants the samples runs the command
again after an error): `WF_archiveVars(BuildArchive)`, `WF_archiveVars(Decode)`. Writing is strongly
fair: it waits while a decoder reads, is possible again after every failed attempt, and
whoever repeats an interrupted command is in the end not interrupted. Nothing is assumed
of `WriteIsInterrupted`, which may happen any number of times.

Every passing run's properties are each broken by a mutant listed in
`PROJECT.json`. Where a plausible bug needs an operator of its own, it stands in the
module as a *faulty variant*. `WholePacketsAreAccepted` and `WholePacketsAreCollected` are
invariants about the packet in flight rather than action properties: a second
refusal of the same packet would change nothing, and a step that changes nothing
violates no action property.

What `transport_faults` shows is a boundary, not a guarantee of delivery, which the code
does not claim. A packet without parameters and without new bases may be lost, repeated
or moved within its split and harms only its own samples
(`PlainPacketsAreIndependent`); the collector's sample count catches every loss, and
every repetition if nothing was lost, but not one made up for by the other
(`LossOrRepetitionIsNoticed`); everything else may decode silently to wrong samples, but
the decoder and the collector are then wrong alike (`ReceiversAgree`).

## 4. Proofs

Everything below holds for every value of the constants that satisfies
`ConfigAssumption` (in `Params`) and `StreamAssumption` (in `StreamEncoder`:
packets hold at least one chunk, as `StreamEncoder::new` demands; a header counts
at least two bases and, with seven bits for them, at most 127; `MaxSamples` is any natural number); what is said of `Dictionary`
alone needs instead of the second only `NoneAssumption`, that `None` is not an ID. TLC
evaluates these assumptions in the runs.

* **`OperatorProofs`**: the lemmas about operators that the other proofs use: powers of
  two (`Pow2Step`, `Pow2Monotone`, `Pow2Above`), `CeilLog2Bound`, fields of a bit string
  (`CutOfJoin`, `JoinConcat`, and `ReadOfWrite`, that `ReadValue` undoes `WriteValue` of a
  value that fits), sequences, the parameters and the dictionary's look-up. Natural-number
  inductions are done by least counterexample (`LeastElement`). Its theorem is
  `TransformIsLossless`: for every chunk, geometry and
  `l_d`, inverting the transform of the unpacked packed base gives the chunk. The
  argument: a position is a deviation position or not; if it is, its bit is in
  the deviation at the place `DeviationBitOffset` gives, and positions are distinct;
  if not, it is untouched in the base; `UnpackOfPack` covers the packing.
  `DeviationPositionIff` gives a position's level: bits are taken from the low end, one
  from each sample per level, and the samples of the last, incomplete level are the last
  ones. So the positions of a width are among those of a larger one
  (`DeviationPositionsGrow`), and chunks that share a base go on sharing it
  (`SharedBasesStayShared`).
  **`MCTransformProofs`** concludes, from the one invariant `RoundTripInv` of what the
  variables hold at each stage, `RoundTripHolds`, `BitAccessIsRight` and
  `WideningMerges`: the run's `RoundTrip`, `BitAccessAgrees` and `WideningOnlyMerges` in
  every geometry. `PositionsAreTheLoops` adds `PositionsFollowLoops`: `Pushed` counts what
  the two loops have pushed after any number of visits, `VisitPushes` shows that the next
  visit pushes the next position of the closed form or none, and least counterexample
  that the loops therefore compute it.
* **`StreamEncoderProofs`**: `EncoderInvariant`: `EncoderSpec => []EncoderInv`,
  from which follow `EncoderTypeCorrect`, `IdWidthHasRoom`, `PendingAlwaysFits`,
  `FlushIsInfallible`, `BacklogStaysEmpty` and `IdWidthStaysTight`, each a
  property that `stream_encoder` checks.
  Its second part is `BooksBalance`, and from it `PacketsAlwaysTile` and
  `EveryIdHasItsBase`: the properties `PacketsTileSplits` and `OneIdPerBase` of
  `stream_encoder`, for every configuration, a dictionary cap of zero included. They
  speak of running totals over all packets returned. A ledger (`Ledger`) is a table of
  the bases and the chunks before each packet; `InBalance` relates its last row to the
  counters of the struct: the IDs assigned are the bases sent and those pending, the
  chunks sent and pending are the whole splits and the current one so far, and
  parameters are due exactly while all chunks of the split are still pending. One lemma
  for each method shows that it keeps the balance, `ready` counted with the packets sent
  while a call runs. Last, `BasesBefore` and `ChunksBefore` are shown to be such tables:
  their recursive equations have a solution (`TotalsRecursive`), which a `CHOOSE` alone
  does not grant.
  Its third part is `PacketsTellTheSamples`, what packets mean. `B` is the
  sequence of all bases assigned an ID so far, `C` that of all chunks encoded so far, and
  a story is a table with a row before every packet: how much of `B` and `C` the packets
  before it carry, and which parameters a receiver has there. Between two rows the packet
  carries the bases and the pairs in between, a pair's ID leading to a base told before it
  or with it (`Restores`). The lemmas again follow the calls of the encoder: each leaves a
  story that goes on from the one before, since more bases never change what an ID meant.
* **`StreamPipelineProofs`**: `DecoderFollowsEncoder`: the decoder is always at a row of
  the story, the one of the packet it waits for, in bases, parameters and samples. So a
  whole packet is decoded to what it means, or refused because its ID width is more than
  `IdBits`, and then nothing changes (`WholeDecodes`); a copy cut short is refused and leaves at
  most its parameters behind, which are those of the packet that comes again
  (`ShortDecodes`). From it follow `PipelineIsLossless` (every step is one of `LosslessChannel` or
  a stutter), `DictionariesAlwaysAgree`, `ShortCopiesNeverPass`, and `WholePacketsPass`:
  whole packets are accepted while the IDs left suffice for a split of new bases
  (`IdsSuffice`). Without that condition it is false, as `id_width_limit` shows; in the
  run `stream_pipeline` the condition holds throughout.
  Its second part is the stream archive: `ArchiveNeverLies` (`ArchiveIsLossless`) and
  `WholeArchivesPass` (`WholeArchiveIsAccepted`, while `IdsSuffice`). `Flattened`
  (`OperatorProofs`) says that sequences put one behind the other lie in the result at the
  sums of their lengths, `ArchiveIsHeld` that so the header's fields lie where
  `stream-decode` reads them, and the frames of the packets behind it. A frame that is
  there is read as its packet, byte by byte (`FrameIsRead`), also from a file cut off
  behind it (`LiesInBeginning`). The invariant, `ArchiveFollowsEncoder`, says that the file
  on disk and the one being read are beginnings of the archive of the finished stream, and
  that the cursor stands at the frame of the row where the decoder is (`Reading`). It
  shares `Arrives` and the row of the story with the pipeline: what a packet does to a
  decoder at its row does not depend on how it came. The last row has the samples and the
  zeros behind them (`LastRowHasAll`), and the sample count in the header takes those off.
  Its third part is what the decoder makes of faulty transports: `StaysInStep`. A packet
  without parameters and bases leaves the decoder where it is (`PlainLeavesDecoder`), so
  while those that carry some have come in order, each once, the decoder is at the row
  behind the last of them (`InStepInv`), whatever came in between, early, late, twice or
  not at all. From there a packet is read as from its own row if the parameters are the
  same and no base it needs is missing (`ReadAtRow`), since more bases never change what
  an ID means; and what is read is the stretch of `pushed` the packet was made of, with
  zeros where `finish` filled up (`PacketReadsAsPushed`). This is
  `PlainPacketsStayIndependent` (`PlainPacketsAreIndependent`, while `IdsSuffice`).
* **`DictionaryProofs`**: `LinksStandForAList`: at every moment the two maps and the
  links stand for one list (`StandsFor`), with distinct IDs and bases, no longer than the
  cap. In the middle of a call that is not so: between `detach` and `attach_front`, and
  between `detach` and the two removals of `enforce_cap`, an entry is in the maps and not
  in the list, which is what `StandsApart` says; each method has a lemma from one to the
  other. The loop of `enforce_cap` is shown to settle after one turn (`LoopSettles`), as a
  list is at most one over the cap. From the invariant follow `ListAlwaysAgrees`
  (`ListAndMapsAgree`) and `DictionaryIsLru`: `Dictionary` implements `LruDictionary`,
  for every set of bases and every cap, none and zero included; so what is proved of the
  encoder with `ActiveLru` holds of the encoder with the linked list. With the histories
  of `MCDictionary` the list is what has been asked for most recently
  (`ListIsItsHistory`), from which follow `IdsAlwaysDenoteBases` and
  `ActiveIsAlwaysRecent`.

* **`CodecProofs`, `BatchProofs`**: `DecompressionUndoesCompression` and
  `RandomAccessIsRight`, the properties `BatchIsLossless` and `RandomAccessAgrees` of
  `batch` for inputs of any length. A layout (`LaidOut`) says which chunks of the input each
  split holds, every pair having an ID under which its base is (`Encodes`); `Keeps` says
  that the locals of `compress_samples` after `n` chunks are a layout of the first `n`,
  and `CompressChunkKeeps` that one more turn of the loop makes it one of `n + 1`, the widths
  changing only at a new split (`NextSplitKeeps`). `CompressionExists` is the recursive
  equation of the loop. From a layout everything is read back: all chunks in order
  (`DecompressesToInput`), one chunk by counting off the splits before it
  (`ChunkIsFound`), then a sample, a bit from base or deviation, or a range
  (`SampleIsRead`, `BitIsRead`, `RangeIsRead`). `CompressionIsTotal` says that none of this
  is empty: compression fails only when there are more chunks than IDs. The second module
  holds the theorems of the run, among them `CostIsWhatIsRead` (`BitCostIsWhatIsRead`): the
  position query says of every bit what the access to it reads (`BitCost`), since the base
  of a chunk is looked up exactly if the bit is not in the deviation.

  The rest of `BatchProofs` is the container file. What compression makes can be written
  (`Writable`, `CompressedFits`): no ID or deviation is wider than its split says
  (`WidthsFit`, an invariant of the loop like `RoomForIds` of the encoder) and no count
  too large for its field. What `ToBytes` writes lies side by side (`FileHolds`): the
  header's fields, the index, whose sums and offsets are those of the splits before
  (`IndexIn`), the bases, and the records up to the end of the file. From there both
  readers are followed. `FromBytes` walks: what it takes for the s-th record is where the
  s-th record was written, as long as the file goes on, since each record says how long it
  is (`RecordsAreRead`); so it gives back what was written, or refuses (`FileIsRead`).
  The indexed reader seeks: its index is the one written (`OpenedReader`), and each access
  reads only bytes that are in the file and are those of the chunk, the pair or the base
  it is about (`ChunkIsServed`, `SampleIsServed`, `BitIsServed`, `RangeIsServed`), a bit
  of a base by the one byte it is in. All this is proved of a beginning of the file
  (`BeginningOf`), which the whole file is too. `IsServed` says of an answer that it is the
  right one or, if the file is cut off, an error. The theorems are `FilesRoundTrip`,
  `IndexedReaderIsRight` and `CutOffFilesAreNotMisread`, the three properties of
  `container`. The first two are stated while the container's base IDs leave room for one
  more split (`IdsAreLeft`): beyond that `compress_samples` writes an ID width that both
  readers refuse, for the same reason as in `id_width_limit`; in the run the condition
  holds throughout. The third needs no such condition, and neither does the following.
  With the lemmas on bytes of a sample (`BytesComeBack`, `PartsMakeWhole`) and the endian
  tag of the header (`HeaderReads`) follows `RawRoundTrip` (`RawRoundTrips`): whatever file
  `from_bytes` takes gives back the raw bytes, in either order. And `SamplesAreNumbers`
  (`SamplesAreTheirBytes`): what the indexed reader answers for a sample of that file is
  the number its bytes stand for in that order (`SampleIsItsBytes`), again while IDs are
  left (`RawIdsAreLeft`).

  The last part is the cost of accesses. The model adds up over sets with a fold, whose
  result depends on an order nobody names; `AdditiveIsSum` says that a function on sets
  that grows by `g[x]` with every element `x` is that fold, in any order. From it follows
  the mean number of blocks, `ExpectedBlocksAreTheMean` (`ExpectedBlocksIsTheMean`): the
  number a request touches is the same at all places of a block up to one, and one more
  from there on (`BlocksByPlace`, `SumOfLevels`). `BoundsBracket`
  (`BoundsBracketTheCost`) compares two accounts of one request. `titchy_access_bounds`
  counts split by split how many chunks of the request lie in each; what is read is counted
  chunk by chunk. They differ only by the widths of the splits touched (`AccountsAgree`),
  which is proved along the sums of the first numbers, split after split (`PartSums`,
  `SumOfStretch`), since all chunks of one split cost the same. It needs that a chunk's
  split is found by dividing its number (`SplitByDivision`), as every split but the last is
  full (`CompressedIsEven`, from the loop of `compress_samples`). What remains between best
  and worst case is how many bases a request reads: one at least, no more than it has chunks
  and no more than there are (`BasesRead`).
* **`CollectorPipelineProofs`**: `CollectorMakesTheBatch` and `WholePacketsAreTaken`, the
  properties `CollectsTheBatch` of `collector`, and `WholePacketsAreCollected` as long as
  `IdsSuffice`. A log (`Log`) is a table of what a collector holds before each packet; the
  packet leads from one row to the next (`LeadsTo`), `Grown` by its bases and pairs. Two
  facts are kept together along the calls of the encoder (`Gathers`): the last row, with
  what is still pending, is what the locals of `compress_samples` are (`Amounts`), and
  those locals are what its loop makes of the chunks encoded so far (`CompressedTo`). So
  the encoder and `compress_samples`, which decide on their own when a split ends and how
  wide the next one is, are shown to decide alike (`UpdateAmounts`, `EncodeChunkAmounts`).
  `CollectorFollowsEncoder` says that the collector is at a row of the log, or, after a
  copy cut short has closed or opened a split, as good as there (`AsGood`: the same bases,
  the same splits once the current one is put away). A whole packet takes it to the next
  row (`WholeIngests`); a copy cut short leaves it as good (`ShortIngests`). At the end
  `finish` counts as many chunks as `compress_samples` laid out (`PairsAreCounted`), so the
  sample count fits and both containers are the same.

  Its second part is what a collector makes of faulty transports, in any order and with
  anything missing or twice (`FaultsInvariant`). After every packet, taken or refused, the
  collector has whole chunks `C` in a layout with the bases they need (`HasCollected`):
  `IngestTakes` follows `ingest_packet` through each of its early returns and says how much
  of the packet was kept (`Took`: all of its pairs if it was accepted, fewer if not). A
  pair read from bits has the width of its split whatever packet it came from
  (`FitsWidths`), so what was collected can be read (`CollectedStaysReadable`). While
  nothing was refused, the decoder is beside the collector (`DecoderBeside`): the same
  bases, the same widths, and the samples of the same chunks (`AcceptedIsDecoded`), which is
  `FaultyStreamsReadTheSame`. For `LossesAreNoticed` the chunks of the stream are numbered;
  each packet has its own (`ChunksCover`), so the numbers that arrived (`Covered`) are as
  many as those of the packets that differ. `Noticed` bounds the chunks collected by them:
  from above if no packet came twice, less one for each packet refused; from below in any
  case, and strictly as soon as one was taken twice. `finish` accepts a sample count for
  one number of chunks only (`CountDecides`), and the stream's is that of all its packets
  (`AllChunksAreSent`).

Why an inductive invariant is needed: that a pending pair's ID fits `l_id` is
not preserved by itself. `RoomForIds` (IDs assigned so far plus the chunks left in
the split fit the width) makes it so inside a split, if IDs of active entries
are below `next_id` (`ActiveIdsAssigned`); at a boundary the room comes from
`capacity_needed`, which adds one bit at most, so that one bit must suffice:
it does because a split is never longer than `2^l_id` (`WidthFits`), true from
`ceil_log2` on. That no flush fails and no packet is left in `ready` rests on
`BelowLimits`: between two calls the pending packet has fewer than
`ChunksPerPacket` pairs and fewer new bases than the header can count, so one chunk
fills it at most, and a split-boundary flush before that chunk leaves it with one pair.
If such a packet is full at once (`ChunksPerPacket = 1`), nothing was pending at the
boundary, so there was only one flush.
`EncoderInv` collects these parts with the typing; the lemmas follow the
code's calls (`FlushSound`, `UpdateSound`, `AddPairSound`, `AddChunkSound`,
`EncodeChunkSound`, `BufferedSound`, `DrainedSound`), and `NextPreserves` has one
step per action. `EncoderInv` itself was checked with TLC before it was proved.

Only model-checked: liveness. `EverythingArrives` and `DecodedInTheEnd`, under fairness, are
out of the prover's reach; every safety property of the passing runs is the subject of a
theorem. What a recursive function computes is proved here by giving the function it
equals and comparing the two by least counterexample (`LoopsFollow`, `WalkIs`,
`LoopSettles`, `TotalsRecursive`, `CompressionExists`, `FlatteningExists`,
`PairsAreCounted`, `ChunksRise`, `ReadingExists`); library theorems with an operator
parameter cannot be cited.

## 5. Not modelled

* Container files other than those `to_bytes` writes and their prefixes: a file with
  altered bytes is not an input of any run. Of the checks on the header, the magic, the
  version and the presence of the fields are modelled; `validate` on what was read
  back cannot fail on a written file.
* `universal_access_cost`: the product of a block size and `expected_block_count`, two
  floats; the second factor is modelled. The access bounds are those of whole chunks: the
  best case of a request of one bit is larger than `bit_access_cost` of that bit, which
  is what the two are meant to be.
* The commands that measure or demonstrate (`bench`, `sweep`, `demo`, `benchmark`,
  `access-cost`), and of all commands the parsing of options and numbers and the printing.
  Of `compress` and `decompress` the text formats of samples are left out; `get` and
  `range` are the accesses of `IndexedReader`.
* A stream archive that changes while it is read: `fs::read` is one step.
* Synthetic data, error texts: without state, or only wording.
* Machine arithmetic: `usize` products of lengths (at most 2^16 chunks of 511 bits
  per packet) do not overflow; `l_id` and `l_d` keep their one-byte caps; IDs keep
  their width. Memory exhaustion is left out.
* Packets with altered bits. Lost, repeated, reordered and truncated ones are modelled.

## 6. Disagreements with the documentation

`id_width_limit`: the README calls Titchy lossless, and the only limit the code
states is the panic when all `u32` IDs are used. `capacity_needed`
(`codec.rs:444-449`) widens `l_id` as soon as bases plus a split's chunks *reach*
`2^l_id`. Within one split of the last ID that makes `l_id` one more than 32,
although every ID still fits and nothing has panicked; `decode_packet`,
`ingest_packet`, `from_bytes` and the indexed reader refuse `l_id > 32`. The run shows it
with 3-bit IDs: a packet the encoder returned is refused by the decoder for good.

`refused_packet`: `ingest_packet` (`streaming.rs:220`) "Validates and appends one
packet." It appends first: the packet's new bases (280-284), and the pairs before the
offending one, are in the collector when a base ID is found unavailable (287-289), and
they stay there when the error is returned. Of three packets that arrive as 1, 3, 2, 3
the third is refused when it comes early, because it refers to a base of the second, and
accepted when it comes again in order. By then its bases are in the dictionary twice and
the IDs after them are off: `finish` returns a container that decompresses, without an
error, to other samples. `decode_packet` (376-391) keeps the bases of a refused packet in
the same way. A truncated packet is refused before anything of its payload is appended
(`collector`, `stream_pipeline`: short copies do no harm).

## 7. Plan

Done: every component of section 1 but synthetic data and error texts, with the files and
the faulty transports (sections 2 to 4), and the proofs of section 4. Left is liveness
(`EverythingArrives`, `DecodedInTheEnd`), which stays with TLC.
