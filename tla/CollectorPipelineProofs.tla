---------------------- MODULE CollectorPipelineProofs -----------------------
(***************************************************************************)
(* The collector gathers what batch compression makes of the same samples, *)
(* for every configuration, every stream and every transport that loses    *)
(* only the ends of packets.                                               *)
(*                                                                         *)
(* A row is what a collector has after some packets, all of them whole.    *)
(* The last row and what the encoder has pending are, at every moment, the *)
(* locals of compress_samples after the same chunks.                       *)
(*                                                                         *)
(* The second part is about transports that lose, repeat and reorder whole *)
(* packets (TransportFaults): what the collector then has, when the        *)
(* decoder agrees with it, and when finish notices.                        *)
(***************************************************************************)
EXTENDS CollectorPipeline, TransportFaults, StreamEncoderProofs, CodecProofs,
        FiniteSetTheorems

----------------------------------------------------------------------------
(* What a collector has.                                                   *)

Collected == [dictionary : Seq(PackedBase),
              splits : Seq(Split),
              current_split : {<<>>} \cup {<<split>> : split \in Split}]

(* Parameters are expected: no split is begun and not yet full.            *)
MayBegin(R) ==
  \/ R.current_split = <<>>
  \/ R.current_split[1].pairs = <<>>
  \/ Len(R.current_split[1].pairs) = ChunksPerSplit

(* The split that pending pairs belong to, ...                             *)
SplitOf(R, pending, l_id, l_d) ==
  IF pending.parameters_present THEN NewSplit(l_id, l_d) ELSE R.current_split[1]

(* ... and the splits before it.                                           *)
SplitsBefore(R, pending) ==
  IF pending.parameters_present THEN CloseSplit(R).splits ELSE R.splits

WithMore(split, pairs) ==
  [l_id |-> split.l_id, l_d |-> split.l_d, pairs |-> split.pairs \o pairs]

(* A row with what is pending.                                             *)
Grown(R, pending, l_id, l_d) ==
  [dictionary    |-> R.dictionary \o pending.new_bases,
   splits        |-> SplitsBefore(R, pending),
   current_split |-> <<WithMore(SplitOf(R, pending, l_id, l_d), pending.pairs)>>]

(* What is pending goes on where a row ends.                               *)
GoesWith(R, pending, l_id, l_d) ==
  /\ R \in Collected
  /\ pending.parameters_present => MayBegin(R)
  /\ ~ pending.parameters_present =>
       /\ R.current_split # <<>>
       /\ R.current_split[1].l_id = l_id /\ R.current_split[1].l_d = l_d

(* It can be read there, without a refusal.                                *)
Fits(R, pending, l_id, l_d) ==
  /\ GoesWith(R, pending, l_id, l_d)
  /\ Len(SplitOf(R, pending, l_id, l_d).pairs) + Len(pending.pairs) <= ChunksPerSplit
  /\ \A i \in 1..Len(pending.pairs) :
       pending.pairs[i].base_id < Len(R.dictionary) + Len(pending.new_bases)
  /\ FieldsFit(pending, l_id, l_d)

(* A packet leads from a row to the next.                                  *)
LeadsTo(packet, R, R2) ==
  \E pending \in Pending, l_id \in Nat, l_d \in 0..ChunkBitLen :
    /\ packet = Packet(pending, l_id, l_d)
    /\ Fits(R, pending, l_id, l_d)
    /\ R2 = Grown(R, pending, l_id, l_d)

(* One row before every packet, and one behind the last.                   *)
Log(packets, rows) ==
  /\ rows \in Seq(Collected) /\ Len(rows) = Len(packets) + 1
  /\ rows[1] = NewCollector
  /\ \A k \in 1..Len(packets) : LeadsTo(packets[k], rows[k], rows[k + 1])

(* The encoder goes on where a row ends.                                   *)
Follows(e, R) ==
  /\ GoesWith(R, e.pending, e.l_id, e.l_d)
  /\ Len(R.dictionary) + Len(e.pending.new_bases) = e.dictionary.next_id
  /\ Len(SplitOf(R, e.pending, e.l_id, e.l_d).pairs) + Len(e.pending.pairs)
       = e.current_split_chunks

(* The locals of compress_samples after the same chunks.                   *)
CompressionOf(e, R) ==
  LET grown == Grown(R, e.pending, e.l_id, e.l_d)
  IN  [dictionary      |-> e.dictionary,
       persisted_bases |-> grown.dictionary,
       splits          |-> grown.splits,
       current_split   |-> grown.current_split[1],
       old_base_count  |-> e.old_base_count,
       panicked        |-> FALSE]

(* The packets sent and `ready` have such rows, and c is what they and the *)
(* pending packet amount to.                                               *)
Amounts(sent, e, rows, c) ==
  /\ Log(sent \o e.ready, rows)
  /\ Follows(e, rows[Len(rows)])
  /\ c = CompressionOf(e, rows[Len(rows)])

(* It comes to so much with the packets of a call.                         *)
AmountsTo(sent, e, rows, c) ==
  \E rows2 : Continues(rows, rows2) /\ Amounts(sent, e, rows2, c)

----------------------------------------------------------------------------
(* Rows.                                                                   *)

(* The parts of a row.                                                     *)
LEMMA CollectedFields ==
  ASSUME NEW R \in Collected
  PROVE  /\ R.dictionary \in Seq(PackedBase) /\ R.splits \in Seq(Split)
         /\ R.current_split # <<>> =>
              /\ R.current_split[1] \in Split
              /\ R.current_split = <<R.current_split[1]>>
         /\ R = [dictionary |-> R.dictionary, splits |-> R.splits,
                 current_split |-> R.current_split]
<1>1. R.current_split \in {<<>>} \cup {<<split>> : split \in Split}
  BY DEF Collected
<1>2. ASSUME R.current_split # <<>>
      PROVE  R.current_split[1] \in Split /\ R.current_split = <<R.current_split[1]>>
  <2>1. PICK split \in Split : R.current_split = <<split>>
    BY <1>1, <1>2
  <2> QED BY <2>1
<1> QED BY <1>2 DEF Collected

(* A row is made of its parts.                                             *)
LEMMA CollectedFrom ==
  ASSUME NEW dictionary \in Seq(PackedBase), NEW splits \in Seq(Split), NEW split \in Split
  PROVE  /\ [dictionary |-> dictionary, splits |-> splits, current_split |-> <<>>]
              \in Collected
         /\ [dictionary |-> dictionary, splits |-> splits, current_split |-> <<split>>]
              \in Collected
<1>1. <<split>> \in {<<s>> : s \in Split}
  OBVIOUS
<1> QED BY <1>1 DEF Collected

(* The parts of a split.                                                   *)
LEMMA SplitFields ==
  ASSUME NEW split \in Split
  PROVE  /\ split.l_id \in Nat /\ split.l_d \in 0..ChunkBitLen
         /\ split.pairs \in Seq(Pair) /\ Len(split.pairs) \in Nat
         /\ split = [l_id |-> split.l_id, l_d |-> split.l_d, pairs |-> split.pairs]
<1>1. split.pairs \in Seq(Pair)
  BY DEF Split
<1> QED BY <1>1 DEF Split

(* A new split.                                                            *)
LEMMA NewSplitType ==
  ASSUME NEW l_id \in Nat, NEW l_d \in 0..ChunkBitLen
  PROVE  /\ NewSplit(l_id, l_d) \in Split
         /\ NewSplit(l_id, l_d).l_id = l_id /\ NewSplit(l_id, l_d).l_d = l_d
         /\ NewSplit(l_id, l_d).pairs = <<>> /\ Len(NewSplit(l_id, l_d).pairs) = 0
BY DEF NewSplit, Split

(* More pairs in a split.                                                  *)
LEMMA WithMoreType ==
  ASSUME NEW split \in Split, NEW pairs \in Seq(Pair)
  PROVE  /\ WithMore(split, pairs) \in Split
         /\ WithMore(split, pairs).l_id = split.l_id
         /\ WithMore(split, pairs).l_d = split.l_d
         /\ WithMore(split, pairs).pairs = split.pairs \o pairs
         /\ Len(WithMore(split, pairs).pairs) = Len(split.pairs) + Len(pairs)
         /\ Len(split.pairs) \in Nat /\ Len(pairs) \in Nat
         /\ [split EXCEPT !.pairs = @ \o pairs] = WithMore(split, pairs)
<1> DEFINE both == split.pairs \o pairs
<1>1. /\ split \in [l_id : Nat, l_d : 0..ChunkBitLen, pairs : Seq(Pair)]
      /\ split.pairs \in Seq(Pair)
  BY DEF Split
<1>2. /\ both \in Seq(Pair) /\ Len(both) = Len(split.pairs) + Len(pairs)
      /\ Len(split.pairs) \in Nat /\ Len(pairs) \in Nat
  BY <1>1, ConcatProperties, LenProperties
<1> HIDE DEF both
<1>3. WithMore(split, pairs) = [l_id |-> split.l_id, l_d |-> split.l_d, pairs |-> both]
  BY Zenon DEF WithMore, both
<1>4. [split EXCEPT !.pairs = both] = [l_id |-> split.l_id, l_d |-> split.l_d, pairs |-> both]
  BY <1>1
<1>5. [split EXCEPT !.pairs = @ \o pairs] = [split EXCEPT !.pairs = both]
  BY DEF both
<1> QED BY <1>1, <1>2, <1>3, <1>4, <1>5 DEF Split, both

(* Closing a split that is full, or none.                                  *)
LEMMA ClosedSplits ==
  ASSUME NEW R \in Collected
  PROVE  /\ CloseSplit(R).splits \in Seq(Split)
         /\ CloseSplit(R).dictionary = R.dictionary
         /\ CloseSplit(R) \in Collected
         /\ HasPairs(R) => /\ CloseSplit(R).splits = Append(R.splits, R.current_split[1])
                           /\ CloseSplit(R).current_split = <<>>
         /\ ~ HasPairs(R) => CloseSplit(R) = R
         /\ ~ HasPairs(CloseSplit(R))
<1>1. /\ R.splits \in Seq(Split) /\ R.dictionary \in Seq(PackedBase)
      /\ R.current_split # <<>> => R.current_split[1] \in Split
                                   /\ R.current_split = <<R.current_split[1]>>
  BY CollectedFields
<1>2. CASE HasPairs(R)
  <2> DEFINE split == R.current_split[1]
             splits == R.splits \o R.current_split
  <2>1. split \in Split /\ R.current_split = <<split>>
    BY <1>1, <1>2 DEF HasPairs
  <2> HIDE DEF split
  <2>2. splits = Append(R.splits, split) /\ splits \in Seq(Split)
    BY <1>1, <2>1
  <2>3. CloseSplit(R) = [R EXCEPT !.splits = splits, !.current_split = <<>>]
    BY <1>2 DEF CloseSplit
  <2> HIDE DEF splits
  <2>4. /\ CloseSplit(R).splits = splits /\ CloseSplit(R).current_split = <<>>
        /\ CloseSplit(R).dictionary = R.dictionary
        /\ CloseSplit(R) = [dictionary |-> R.dictionary, splits |-> splits,
                            current_split |-> <<>>]
    BY <2>3 DEF Collected
  <2>5. CloseSplit(R) \in Collected
    BY <1>1, <2>1, <2>2, <2>4, CollectedFrom
  <2> QED BY <1>2, <2>2, <2>4, <2>5 DEF HasPairs, split
<1>3. CASE ~ HasPairs(R)
  BY <1>1, <1>3 DEF CloseSplit
<1> QED BY <1>2, <1>3

(* The split and the splits before it that pending pairs belong to.        *)
LEMMA WhereItGoes ==
  ASSUME NEW R, NEW pending \in Pending, NEW l_id \in Nat, NEW l_d \in 0..ChunkBitLen,
         GoesWith(R, pending, l_id, l_d)
  PROVE  /\ R \in Collected
         /\ SplitOf(R, pending, l_id, l_d) \in Split
         /\ SplitOf(R, pending, l_id, l_d).l_id = l_id
         /\ SplitOf(R, pending, l_id, l_d).l_d = l_d
         /\ SplitsBefore(R, pending) \in Seq(Split)
<1>1. R \in Collected
  BY DEF GoesWith
<1>2. CASE pending.parameters_present
  BY <1>1, <1>2, NewSplitType, ClosedSplits DEF SplitOf, SplitsBefore
<1>3. CASE ~ pending.parameters_present
  BY <1>1, <1>3, CollectedFields DEF SplitOf, SplitsBefore, GoesWith
<1> QED BY <1>1, <1>2, <1>3

(* A row with what is pending is a row, with its split begun.              *)
LEMMA GrownType ==
  ASSUME NEW R, NEW pending \in Pending, NEW l_id \in Nat, NEW l_d \in 0..ChunkBitLen,
         GoesWith(R, pending, l_id, l_d)
  PROVE  LET grown == Grown(R, pending, l_id, l_d)
         IN  /\ grown \in Collected /\ grown.current_split # <<>>
             /\ Len(grown.dictionary) = Len(R.dictionary) + Len(pending.new_bases)
             /\ Len(grown.current_split[1].pairs)
                  = Len(SplitOf(R, pending, l_id, l_d).pairs) + Len(pending.pairs)
<1> DEFINE grown == Grown(R, pending, l_id, l_d)
           split == SplitOf(R, pending, l_id, l_d)
           splits == SplitsBefore(R, pending)
           more == WithMore(split, pending.pairs)
           dictionary == R.dictionary \o pending.new_bases
<1>1. /\ R \in Collected /\ split \in Split /\ splits \in Seq(Split)
      /\ split.l_id = l_id /\ split.l_d = l_d
  BY WhereItGoes
<1>2. pending.new_bases \in Seq(PackedBase) /\ pending.pairs \in Seq(Pair)
  BY DEF Pending
<1>3. R.dictionary \in Seq(PackedBase)
  BY <1>1, CollectedFields
<1>4. /\ dictionary \in Seq(PackedBase)
      /\ Len(dictionary) = Len(R.dictionary) + Len(pending.new_bases)
  BY <1>2, <1>3, ConcatProperties
<1>5. /\ more \in Split /\ more.l_id = l_id /\ more.l_d = l_d
      /\ Len(more.pairs) = Len(split.pairs) + Len(pending.pairs)
  BY <1>1, <1>2, WithMoreType
<1>6. grown = [dictionary |-> dictionary, splits |-> splits, current_split |-> <<more>>]
  BY Zenon DEF Grown
<1> HIDE DEF grown, split, splits, more, dictionary
<1>7. grown \in Collected
  BY <1>1, <1>4, <1>5, <1>6, CollectedFrom
<1>8. /\ grown.dictionary = dictionary /\ grown.splits = splits
      /\ grown.current_split = <<more>> /\ grown.current_split[1] = more
      /\ grown.current_split # <<>>
  BY <1>6
<1> QED BY <1>4, <1>5, <1>7, <1>8 DEF grown, split, splits, more, dictionary

(* It has the widths of what is pending.                                   *)
LEMMA GrownWidths ==
  ASSUME NEW R, NEW pending \in Pending, NEW l_id \in Nat, NEW l_d \in 0..ChunkBitLen,
         GoesWith(R, pending, l_id, l_d)
  PROVE  LET split == Grown(R, pending, l_id, l_d).current_split[1]
         IN  split.l_id = l_id /\ split.l_d = l_d
<1> DEFINE split == SplitOf(R, pending, l_id, l_d)
           more == WithMore(split, pending.pairs)
<1>1. /\ R \in Collected /\ split \in Split /\ SplitsBefore(R, pending) \in Seq(Split)
      /\ split.l_id = l_id /\ split.l_d = l_d
  BY WhereItGoes
<1> HIDE DEF split
<1>2. more.l_id = l_id /\ more.l_d = l_d
  BY <1>1 DEF WithMore
<1> HIDE DEF more
<1>3. Grown(R, pending, l_id, l_d).current_split = <<more>>
  BY Zenon DEF Grown, more, split
<1> QED BY <1>2, <1>3

(* With nothing more pending a row stays as it is.                         *)
LEMMA GrownByNothing ==
  ASSUME NEW R \in Collected, R.current_split # <<>>,
         NEW pending \in Pending, ~ pending.parameters_present,
         pending.new_bases = <<>>, pending.pairs = <<>>,
         NEW l_id, NEW l_d
  PROVE  Grown(R, pending, l_id, l_d) = R
<1> DEFINE split == R.current_split[1]
<1>1. /\ R.dictionary \in Seq(PackedBase) /\ split \in Split
      /\ R.current_split = <<split>>
      /\ R = [dictionary |-> R.dictionary, splits |-> R.splits,
              current_split |-> R.current_split]
  BY CollectedFields
<1>2. /\ split.pairs \in Seq(Pair)
      /\ split = [l_id |-> split.l_id, l_d |-> split.l_d, pairs |-> split.pairs]
  BY <1>1, SplitFields
<1>3. R.dictionary \o <<>> = R.dictionary /\ split.pairs \o <<>> = split.pairs
  BY <1>1, <1>2, ConcatEmptySeq
<1>4. WithMore(split, pending.pairs) = split
  BY <1>2, <1>3, Zenon DEF WithMore
<1>5. SplitOf(R, pending, l_id, l_d) = split /\ SplitsBefore(R, pending) = R.splits
  BY Zenon DEF SplitOf, SplitsBefore
<1> HIDE DEF split
<1> QED BY <1>1, <1>3, <1>4, <1>5, Zenon DEF Grown

----------------------------------------------------------------------------
(* The calls of the encoder.                                               *)

(* What a sound encoder has pending can be read where it goes on.          *)
LEMMA FollowsFits ==
  ASSUME NEW e, Sound(e), NEW R, Follows(e, R)
  PROVE  Fits(R, e.pending, e.l_id, e.l_d)
<1>1. e \in Encoder /\ PairsFit(e) /\ FieldsFit(e.pending, e.l_id, e.l_d)
  BY SoundFieldsFit DEF Sound
<1>2. e.current_split_chunks <= ChunksPerSplit
  BY <1>1, EncoderFields
<1> QED BY <1>1, <1>2, Zenon DEF Fits, Follows, PairsFit

(* One packet more.                                                        *)
LEMMA LogGrows ==
  ASSUME NEW packets \in Seq(StreamPacket), NEW rows, Log(packets, rows),
         NEW packet \in StreamPacket, NEW R \in Collected,
         LeadsTo(packet, rows[Len(rows)], R)
  PROVE  /\ Log(Append(packets, packet), Append(rows, R))
         /\ Continues(rows, Append(rows, R))
         /\ Append(rows, R)[Len(Append(rows, R))] = R
<1> DEFINE n == Len(packets)
           longer == Append(packets, packet)
           rows2 == Append(rows, R)
<1>1. /\ rows \in Seq(Collected) /\ Len(rows) = n + 1 /\ n \in Nat
      /\ rows[1] = NewCollector
      /\ \A k \in 1..n : LeadsTo(packets[k], rows[k], rows[k + 1])
  BY DEF Log
<1>2. /\ Len(longer) = n + 1 /\ longer[n + 1] = packet
      /\ \A k \in 1..n : longer[k] = packets[k]
  BY AppendProperties
<1>3. /\ rows2 \in Seq(Collected) /\ Len(rows2) = (n + 1) + 1 /\ rows2[(n + 1) + 1] = R
      /\ \A k \in 1..(n + 1) : rows2[k] = rows[k]
  BY <1>1, AppendProperties
<1> HIDE DEF n, longer, rows2
<1>4. ASSUME NEW k \in 1..(n + 1)
      PROVE  LeadsTo(longer[k], rows2[k], rows2[k + 1])
  <2>1. CASE k = n + 1
    BY <1>1, <1>2, <1>3, <2>1
  <2>2. CASE k # n + 1
    <3>1. k \in 1..n /\ k + 1 \in 1..(n + 1)
      BY <1>1, <2>2
    <3> QED BY <1>1, <1>2, <1>3, <3>1
  <2> QED BY <2>1, <2>2
<1>5. rows2[1] = NewCollector
  BY <1>1, <1>3
<1>6. Log(longer, rows2)
  BY <1>2, <1>3, <1>4, <1>5 DEF Log
<1>7. Continues(rows, rows2)
  BY <1>1, <1>3 DEF Continues
<1> QED BY <1>3, <1>6, <1>7 DEF longer, rows2

(* The last row is one.                                                    *)
LEMMA LastRow ==
  ASSUME NEW sent \in Seq(StreamPacket), NEW e \in Encoder, NEW rows, NEW c,
         Amounts(sent, e, rows, c)
  PROVE  /\ sent \o e.ready \in Seq(StreamPacket)
         /\ rows \in Seq(Collected) /\ Len(rows) \in Nat \ {0}
         /\ rows[Len(rows)] \in Collected
<1> DEFINE packets == sent \o e.ready
<1>1. packets \in Seq(StreamPacket)
  BY EncoderFields, ConcatProperties
<1>2. Log(packets, rows)
  BY DEF Amounts
<1> HIDE DEF packets
<1>3. rows \in Seq(Collected) /\ Len(rows) \in Nat \ {0}
  BY <1>1, <1>2 DEF Log
<1> QED BY <1>1, <1>3 DEF packets

(* Nothing more is needed for what there is.                               *)
LEMMA AmountsAlready ==
  ASSUME NEW sent \in Seq(StreamPacket), NEW e \in Encoder, NEW rows, NEW c,
         Amounts(sent, e, rows, c)
  PROVE  AmountsTo(sent, e, rows, c)
<1>1. Continues(rows, rows)
  BY LastRow, ContinuesItself
<1> QED BY <1>1 DEF AmountsTo

(* It depends on few fields of the struct.                                 *)
LEMMA AmountsElsewhere ==
  ASSUME NEW sent, NEW e, NEW rows, NEW c, Amounts(sent, e, rows, c),
         NEW f, f.dictionary = e.dictionary, f.pending = e.pending,
         f.ready = e.ready, f.l_id = e.l_id, f.l_d = e.l_d,
         f.old_base_count = e.old_base_count,
         f.current_split_chunks = e.current_split_chunks
  PROVE  Amounts(sent, f, rows, c)
BY Zenon DEF Amounts, Follows, CompressionOf

(* flush_pending moves what is pending to a packet of its own: together    *)
(* they amount to the same.                                                *)
LEMMA FlushAmounts ==
  ASSUME NEW sent \in Seq(StreamPacket), NEW e, Sound(e),
         Len(e.pending.new_bases) <= NewBaseLimit,
         NEW rows, NEW c, Amounts(sent, e, rows, c)
  PROVE  AmountsTo(sent, FlushPending(e), rows, c)
<1> DEFINE packet == Packet(e.pending, e.l_id, e.l_d)
           flushed == FlushPending(e)
           packets == sent \o e.ready
           last == rows[Len(rows)]
           grown == Grown(last, e.pending, e.l_id, e.l_d)
           rows2 == Append(rows, grown)
<1>1. e \in Encoder /\ PairsFit(e)
  BY DEF Sound
<1>2. CASE e.pending.pairs = <<>>
  BY <1>1, <1>2, AmountsAlready, Zenon DEF FlushPending
<1>3. CASE e.pending.pairs # <<>>
  <2>1. /\ e.l_id \in Nat /\ e.l_d \in 0..ChunkBitLen
        /\ e.ready \in Seq(StreamPacket) /\ e.pending \in Pending
        /\ e.pending.new_bases \in Seq(PackedBase) /\ e.pending.pairs \in Seq(Pair)
    BY <1>1, EncoderFields
  <2>2. Len(e.pending.new_bases) \in Nat
    BY <2>1
  <2>3. packet \in StreamPacket
    BY <1>1, PacketType
  <2> HIDE DEF packet
  <2>4. ~ (Len(e.pending.new_bases) > NewBaseLimit)
    BY <2>2, Constants
  <2>5. flushed = [e EXCEPT !.pending = EmptyPending, !.ready = Append(@, packet)]
    BY <1>3, <2>4 DEF FlushPending, packet
  <2> HIDE DEF flushed
  <2>6. /\ flushed.pending = EmptyPending
        /\ flushed.ready = Append(e.ready, packet)
        /\ flushed.dictionary = e.dictionary
        /\ flushed.l_id = e.l_id /\ flushed.l_d = e.l_d
        /\ flushed.old_base_count = e.old_base_count
        /\ flushed.current_split_chunks = e.current_split_chunks
    BY <1>1, <2>5 DEF Encoder
  <2>7. packets \in Seq(StreamPacket) /\ last \in Collected
    BY <1>1, LastRow
  <2>8. sent \o flushed.ready = Append(packets, packet)
    <3> DEFINE ready == e.ready
    <3>1. sent \in Seq(StreamPacket) /\ ready \in Seq(StreamPacket)
      BY <2>1
    <3> HIDE DEF ready
    <3>2. sent \o Append(ready, packet) = Append(sent \o ready, packet)
      BY <2>3, <3>1, AppendAtTheEnd
    <3> QED BY <2>6, <3>2 DEF ready
  <2>9. Log(packets, rows) /\ Follows(e, last) /\ c = CompressionOf(e, last)
    BY Zenon DEF Amounts
  <2> HIDE DEF packets, last
  <2>10. Fits(last, e.pending, e.l_id, e.l_d)
    BY <2>9, FollowsFits
  <2>11. LeadsTo(packet, last, grown)
    <3> HIDE DEF grown
    <3>1. /\ packet = Packet(e.pending, e.l_id, e.l_d)
          /\ grown = Grown(last, e.pending, e.l_id, e.l_d)
      BY DEF packet, grown
    <3> QED BY <2>1, <2>10, <3>1, Zenon DEF LeadsTo
  <2>12. /\ GoesWith(last, e.pending, e.l_id, e.l_d)
         /\ Len(last.dictionary) + Len(e.pending.new_bases) = e.dictionary.next_id
         /\ Len(SplitOf(last, e.pending, e.l_id, e.l_d).pairs) + Len(e.pending.pairs)
              = e.current_split_chunks
    BY <2>9, Zenon DEF Follows
  <2>13. /\ grown \in Collected /\ grown.current_split # <<>>
         /\ Len(grown.dictionary) = e.dictionary.next_id
         /\ grown.current_split[1].l_id = e.l_id /\ grown.current_split[1].l_d = e.l_d
         /\ Len(grown.current_split[1].pairs) = e.current_split_chunks
    <3> DEFINE waiting == e.pending
               w1 == e.l_id
               w2 == e.l_d
               made == Grown(last, waiting, w1, w2)
    <3>1. /\ waiting \in Pending /\ w1 \in Nat /\ w2 \in 0..ChunkBitLen
          /\ GoesWith(last, waiting, w1, w2)
      BY <2>1, <2>12
    <3> HIDE DEF waiting, w1, w2
    <3>2. /\ made \in Collected /\ made.current_split # <<>>
          /\ Len(made.dictionary) = Len(last.dictionary) + Len(waiting.new_bases)
          /\ Len(made.current_split[1].pairs)
               = Len(SplitOf(last, waiting, w1, w2).pairs) + Len(waiting.pairs)
      BY ONLY <3>1, GrownType
    <3>3. made.current_split[1].l_id = w1 /\ made.current_split[1].l_d = w2
      BY ONLY <3>1, GrownWidths
    <3> QED BY <2>12, <3>2, <3>3, Zenon DEF waiting, w1, w2
  <2> HIDE DEF grown
  <2>14. /\ Log(Append(packets, packet), rows2)
         /\ Continues(rows, rows2) /\ rows2[Len(rows2)] = grown
    <3>1. LeadsTo(packet, rows[Len(rows)], grown)
      BY <2>11 DEF last
    <3> QED BY <2>3, <2>7, <2>9, <2>13, <3>1, LogGrows
  <2> HIDE DEF rows2
  <2>15. /\ EmptyPending \in Pending /\ EmptyPending.parameters_present = FALSE
         /\ EmptyPending.new_bases = <<>> /\ EmptyPending.pairs = <<>>
    BY DEF EmptyPending, Pending
  <2>16. Follows(flushed, grown)
    <3>1. GoesWith(grown, EmptyPending, e.l_id, e.l_d)
      BY <2>13, <2>15, Zenon DEF GoesWith
    <3>2. SplitOf(grown, EmptyPending, e.l_id, e.l_d) = grown.current_split[1]
      BY <2>15, Zenon DEF SplitOf
    <3>3. Len(<<>>) = 0
      OBVIOUS
    <3>4. /\ Len(grown.dictionary) + 0 = e.dictionary.next_id
          /\ Len(grown.current_split[1].pairs) + 0 = e.current_split_chunks
      BY <1>1, <2>13, EncoderFields
    <3> QED BY <2>6, <2>15, <3>1, <3>2, <3>3, <3>4, Zenon DEF Follows
  <2>17. CompressionOf(flushed, grown) = CompressionOf(e, last)
    <3>1. Grown(grown, EmptyPending, e.l_id, e.l_d) = grown
      BY <2>13, <2>15, GrownByNothing
    <3>2. grown = Grown(last, e.pending, e.l_id, e.l_d)
      BY DEF grown
    <3> QED BY <2>6, <3>1, <3>2, Zenon DEF CompressionOf
  <2>18. Amounts(sent, flushed, rows2, c)
    BY <2>8, <2>9, <2>14, <2>16, <2>17, Zenon DEF Amounts
  <2> QED BY <2>14, <2>18 DEF AmountsTo, flushed
<1> QED BY <1>2, <1>3

(* The locals are those of a row with what is pending.                     *)
LEMMA CompressionFields ==
  ASSUME NEW e, NEW R, NEW grown, grown = Grown(R, e.pending, e.l_id, e.l_d)
  PROVE  CompressionOf(e, R) =
           [dictionary |-> e.dictionary, persisted_bases |-> grown.dictionary,
            splits |-> grown.splits, current_split |-> grown.current_split[1],
            old_base_count |-> e.old_base_count, panicked |-> FALSE]
BY Zenon DEF CompressionOf

(* A full split that nothing is pending for is the last row's.             *)
LEMMA FullSplit ==
  ASSUME NEW e \in Encoder, e.pending.pairs = <<>>, e.pending.new_bases = <<>>,
         e.current_split_chunks = ChunksPerSplit, NEW R, Follows(e, R)
  PROVE  /\ R \in Collected /\ R.current_split # <<>>
         /\ Len(R.current_split[1].pairs) = ChunksPerSplit
         /\ R.current_split[1].l_id = e.l_id /\ R.current_split[1].l_d = e.l_d
         /\ Len(R.dictionary) = e.dictionary.next_id
         /\ Grown(R, e.pending, e.l_id, e.l_d) = R
<1>1. /\ GoesWith(R, e.pending, e.l_id, e.l_d)
      /\ Len(R.dictionary) + Len(e.pending.new_bases) = e.dictionary.next_id
      /\ Len(SplitOf(R, e.pending, e.l_id, e.l_d).pairs) + Len(e.pending.pairs)
           = ChunksPerSplit
  BY Zenon DEF Follows
<1>2. R \in Collected /\ e.pending \in Pending
  BY <1>1, EncoderFields DEF GoesWith
<1>3. ~ e.pending.parameters_present
  <2>1. CASE e.pending.parameters_present
    <3>1. SplitOf(R, e.pending, e.l_id, e.l_d).pairs = <<>>
      BY <2>1, Zenon DEF SplitOf, NewSplit
    <3>2. Len(<<>>) + Len(<<>>) = ChunksPerSplit
      BY <1>1, <3>1
    <3> QED BY <3>2, Constants
  <2> QED BY <2>1
<1>4. /\ R.current_split # <<>>
      /\ R.current_split[1].l_id = e.l_id /\ R.current_split[1].l_d = e.l_d
  BY <1>1, <1>3, Zenon DEF GoesWith
<1>5. SplitOf(R, e.pending, e.l_id, e.l_d) = R.current_split[1]
  BY <1>3, Zenon DEF SplitOf
<1>6. /\ Len(R.dictionary) \in Nat
      /\ Len(R.current_split[1].pairs) \in Nat
  BY <1>2, <1>4, CollectedFields, SplitFields
<1>7. /\ Len(R.dictionary) = e.dictionary.next_id
      /\ Len(R.current_split[1].pairs) = ChunksPerSplit
  <2>1. /\ Len(R.dictionary) + Len(<<>>) = e.dictionary.next_id
        /\ Len(R.current_split[1].pairs) + Len(<<>>) = ChunksPerSplit
    BY <1>1, <1>5
  <2>2. Len(<<>>) = 0
    OBVIOUS
  <2> QED BY <1>6, <2>1, <2>2
<1> QED BY <1>2, <1>3, <1>4, <1>7, GrownByNothing

(* A row and the parameters of the next split.                             *)
LEMMA GrownByParameters ==
  ASSUME NEW R \in Collected, R.current_split # <<>>,
         Len(R.current_split[1].pairs) = ChunksPerSplit,
         NEW pending \in Pending, pending.parameters_present,
         pending.new_bases = <<>>, pending.pairs = <<>>,
         NEW l_id \in Nat, NEW l_d \in 0..ChunkBitLen
  PROVE  Grown(R, pending, l_id, l_d) =
           [dictionary |-> R.dictionary,
            splits |-> Append(R.splits, R.current_split[1]),
            current_split |-> <<NewSplit(l_id, l_d)>>]
<1> DEFINE split == NewSplit(l_id, l_d)
<1>1. /\ R.dictionary \in Seq(PackedBase)
      /\ R.current_split[1].pairs \in Seq(Pair)
  BY CollectedFields, SplitFields
<1>2. HasPairs(R)
  <2>1. R.current_split[1].pairs # <<>>
    BY <1>1, Constants
  <2> QED BY <2>1 DEF HasPairs
<1>3. CloseSplit(R).splits = Append(R.splits, R.current_split[1])
  BY <1>2, ClosedSplits
<1>4. split = [l_id |-> l_id, l_d |-> l_d, pairs |-> <<>>]
  BY Zenon DEF NewSplit
<1>5. R.dictionary \o <<>> = R.dictionary
  BY <1>1, ConcatEmptySeq
<1>6. WithMore(split, <<>>) = split
  <2>1. <<>> \o <<>> = <<>>
    OBVIOUS
  <2>2. split.l_id = l_id /\ split.l_d = l_d /\ split.pairs = <<>>
    BY <1>4
  <2> QED BY <1>4, <2>1, <2>2, Zenon DEF WithMore
<1>7. SplitOf(R, pending, l_id, l_d) = split
  BY Zenon DEF SplitOf
<1> HIDE DEF split
<1>8. SplitsBefore(R, pending) = Append(R.splits, R.current_split[1])
  BY <1>3, Zenon DEF SplitsBefore
<1> QED BY <1>5, <1>6, <1>7, <1>8, Zenon DEF Grown, split

(* New widths begin a new split, as they do in compress_samples.           *)
LEMMA UpdateAmounts ==
  ASSUME NEW sent \in Seq(StreamPacket), NEW e, Sound(e), e.pending.pairs = <<>>,
         e.current_split_chunks = ChunksPerSplit,
         NEW rows, NEW c, Amounts(sent, e, rows, c)
  PROVE  /\ Amounts(sent, UpdateParameters(e), rows, NextSplit(c))
         /\ Len(c.current_split.pairs) = ChunksPerSplit
<1> DEFINE updated == UpdateParameters(e)
           next_id == e.dictionary.next_id
           l_id == UpdateLId(next_id, e.l_id)
           l_d == UpdateLD(next_id, e.old_base_count, e.l_d)
           pending == [e.pending EXCEPT !.parameters_present = TRUE]
           last == rows[Len(rows)]
           split == last.current_split[1]
<1>1. /\ e \in Encoder /\ e.pending \in Pending /\ next_id \in Nat
      /\ e.pending.new_bases = <<>>
  BY EncoderFields DEF Sound
<1>2. /\ pending \in Pending /\ pending.pairs = <<>> /\ pending.new_bases = <<>>
      /\ pending.parameters_present = TRUE
  BY <1>1 DEF Pending
<1>3. updated = [e EXCEPT !.l_id = l_id, !.l_d = l_d, !.old_base_count = next_id,
                          !.current_split_chunks = 0, !.pending = pending]
  BY <1>1 DEF UpdateParameters, Encoder
<1>4. updated \in Encoder
  BY UpdateSound DEF Sound
<1> HIDE DEF updated, l_id, l_d, pending
<1>5. /\ updated.dictionary = e.dictionary /\ updated.pending = pending
      /\ updated.l_id = l_id /\ updated.l_d = l_d
      /\ updated.old_base_count = next_id /\ updated.ready = e.ready
      /\ updated.current_split_chunks = 0
  BY <1>1, <1>3 DEF Encoder
<1>6. l_id \in Nat /\ l_d \in 0..ChunkBitLen
  BY <1>4, <1>5, EncoderFields
<1>7. Log(sent \o e.ready, rows) /\ Follows(e, last) /\ c = CompressionOf(e, last)
  BY Zenon DEF Amounts
<1> HIDE DEF last
<1>8. /\ last \in Collected /\ last.current_split # <<>>
      /\ Len(split.pairs) = ChunksPerSplit
      /\ split.l_id = e.l_id /\ split.l_d = e.l_d
      /\ Len(last.dictionary) = next_id
      /\ Grown(last, e.pending, e.l_id, e.l_d) = last
  BY <1>1, <1>7, FullSplit
<1> DEFINE grown == Grown(last, pending, l_id, l_d)
           splits == Append(last.splits, split)
<1>9. grown = [dictionary |-> last.dictionary, splits |-> splits,
               current_split |-> <<NewSplit(l_id, l_d)>>]
  BY <1>2, <1>6, <1>8, GrownByParameters
<1>10. c = [dictionary |-> e.dictionary, persisted_bases |-> last.dictionary,
            splits |-> last.splits, current_split |-> split,
            old_base_count |-> e.old_base_count, panicked |-> FALSE]
  BY <1>7, <1>8, CompressionFields, Zenon
<1> HIDE DEF split, splits, grown
<1>11. CompressionOf(updated, last) =
         [dictionary |-> e.dictionary, persisted_bases |-> last.dictionary,
          splits |-> splits, current_split |-> NewSplit(l_id, l_d),
          old_base_count |-> next_id, panicked |-> FALSE]
  <2>1. grown = Grown(last, updated.pending, updated.l_id, updated.l_d)
    BY <1>5, Zenon DEF grown
  <2>2. CompressionOf(updated, last) =
          [dictionary |-> updated.dictionary, persisted_bases |-> grown.dictionary,
           splits |-> grown.splits, current_split |-> grown.current_split[1],
           old_base_count |-> updated.old_base_count, panicked |-> FALSE]
    BY <2>1, CompressionFields, Zenon
  <2>3. /\ grown.dictionary = last.dictionary /\ grown.splits = splits
        /\ grown.current_split[1] = NewSplit(l_id, l_d)
    BY <1>9
  <2> QED BY <1>5, <2>2, <2>3, Zenon
<1>12. NextSplit(c) = CompressionOf(updated, last)
  <2>1. /\ c.dictionary = e.dictionary /\ c.current_split = split
        /\ c.splits = last.splits /\ c.old_base_count = e.old_base_count
    BY <1>10
  <2>2. /\ l_id = UpdateLId(c.dictionary.next_id, c.current_split.l_id)
        /\ l_d = UpdateLD(c.dictionary.next_id, c.old_base_count, c.current_split.l_d)
    BY <1>8, <2>1 DEF l_id, l_d, split
  <2>3. NextSplit(c) =
          [c EXCEPT !.splits = splits, !.current_split = NewSplit(l_id, l_d),
                    !.old_base_count = next_id]
    <3>1. Append(c.splits, c.current_split) = splits
      BY <2>1 DEF splits
    <3> QED BY <1>10, <2>1, <2>2, <3>1 DEF NextSplit
  <2> QED BY <1>10, <1>11, <2>3
<1>13. Follows(updated, last)
  <2>1. MayBegin(last)
    BY <1>8 DEF MayBegin, split
  <2>2. GoesWith(last, pending, l_id, l_d)
    BY <1>2, <1>8, <2>1, Zenon DEF GoesWith
  <2>3. SplitOf(last, pending, l_id, l_d).pairs = <<>>
    BY <1>2, Zenon DEF SplitOf, NewSplit
  <2>4. Len(<<>>) = 0 /\ 0 + 0 = 0 /\ next_id + 0 = next_id
    BY <1>1
  <2> QED BY <1>2, <1>5, <1>8, <2>2, <2>3, <2>4, Zenon DEF Follows
<1>14. Amounts(sent, updated, rows, NextSplit(c))
  BY <1>5, <1>7, <1>12, <1>13, Zenon DEF Amounts, last
<1>15. Len(c.current_split.pairs) = ChunksPerSplit
  <2>1. c.current_split = split
    BY <1>10
  <2> QED BY <1>8, <2>1 DEF split
<1> QED BY <1>14, <1>15 DEF updated

(* A row, and the same one with one more pair.                             *)
HasPairMore(grown, grown2, base, is_new, pair) ==
  /\ grown2.dictionary = IF is_new THEN Append(grown.dictionary, base)
                         ELSE grown.dictionary
  /\ grown2.splits = grown.splits
  /\ grown2.current_split[1] = [grown.current_split[1] EXCEPT !.pairs = Append(@, pair)]

(* One more pending pair is one more pair of the split a row grows by.     *)
LEMMA GrownByPair ==
  ASSUME NEW R, NEW pending \in Pending, NEW more \in Pending,
         NEW base \in PackedBase, NEW is_new \in BOOLEAN, NEW pair \in Pair,
         AddsPair(pending, more, base, is_new, pair),
         more.parameters_present = pending.parameters_present,
         NEW l_id \in Nat, NEW l_d \in 0..ChunkBitLen, GoesWith(R, pending, l_id, l_d)
  PROVE  HasPairMore(Grown(R, pending, l_id, l_d), Grown(R, more, l_id, l_d),
                     base, is_new, pair)
<1> DEFINE grown == Grown(R, pending, l_id, l_d)
           grown2 == Grown(R, more, l_id, l_d)
           split == SplitOf(R, pending, l_id, l_d)
           splits == SplitsBefore(R, pending)
           dictionary == R.dictionary
           new_bases == pending.new_bases
           pairs == pending.pairs
<1>1. R \in Collected /\ split \in Split /\ splits \in Seq(Split)
  BY WhereItGoes
<1>2. new_bases \in Seq(PackedBase) /\ pairs \in Seq(Pair)
  BY DEF Pending
<1>3. dictionary \in Seq(PackedBase) /\ split.pairs \in Seq(Pair)
  BY <1>1, CollectedFields, SplitFields
<1>4. SplitOf(R, more, l_id, l_d) = split /\ SplitsBefore(R, more) = splits
  BY Zenon DEF SplitOf, SplitsBefore
<1>5. /\ is_new => more.new_bases = Append(new_bases, base)
      /\ ~ is_new => more.new_bases = new_bases
      /\ more.pairs = Append(pairs, pair)
  BY DEF AddsPair
<1>6. /\ grown.dictionary = dictionary \o new_bases
      /\ grown2.dictionary = dictionary \o more.new_bases
      /\ grown.splits = splits /\ grown2.splits = splits
      /\ grown.current_split = <<WithMore(split, pairs)>>
      /\ grown2.current_split = <<WithMore(split, Append(pairs, pair))>>
  BY <1>4, <1>5 DEF Grown
<1> HIDE DEF grown, grown2, split, splits, dictionary, new_bases, pairs
<1>7. grown2.dictionary = IF is_new THEN Append(grown.dictionary, base)
                          ELSE grown.dictionary
  <2>1. dictionary \o Append(new_bases, base) = Append(dictionary \o new_bases, base)
    BY <1>2, <1>3, AppendAtTheEnd
  <2> QED BY <1>5, <1>6, <2>1, Zenon
<1>8. WithMore(split, Append(pairs, pair)) =
        [WithMore(split, pairs) EXCEPT !.pairs = Append(@, pair)]
  <2> DEFINE old == split.pairs
             both == old \o pairs
  <2>1. old \in Seq(Pair)
    BY <1>3
  <2> HIDE DEF old
  <2>2. old \o Append(pairs, pair) = Append(both, pair)
    BY <1>2, <2>1, AppendAtTheEnd
  <2> HIDE DEF both
  <2>3. /\ WithMore(split, pairs) = [l_id |-> split.l_id, l_d |-> split.l_d, pairs |-> both]
        /\ WithMore(split, Append(pairs, pair)) =
             [l_id |-> split.l_id, l_d |-> split.l_d, pairs |-> Append(both, pair)]
    BY <2>2, Zenon DEF WithMore, both, old
  <2> DEFINE before == WithMore(split, pairs)
             after == WithMore(split, Append(pairs, pair))
             longer == Append(both, pair)
  <2>4. before.pairs = both
    BY <2>3
  <2>5. [before EXCEPT !.pairs = Append(@, pair)] = [before EXCEPT !.pairs = longer]
    BY <2>4
  <2> HIDE DEF longer, before, after
  <2>6. /\ before = [l_id |-> split.l_id, l_d |-> split.l_d, pairs |-> both]
        /\ after = [l_id |-> split.l_id, l_d |-> split.l_d, pairs |-> longer]
    BY <2>3 DEF longer, before, after
  <2>7. after = [before EXCEPT !.pairs = longer]
    BY <2>6
  <2> QED BY <2>5, <2>7 DEF before, after
<1>9. grown2.current_split[1] = [grown.current_split[1] EXCEPT !.pairs = Append(@, pair)]
  <2>1. /\ grown.current_split[1] = WithMore(split, pairs)
        /\ grown2.current_split[1] = WithMore(split, Append(pairs, pair))
    BY <1>6
  <2> QED BY <1>8, <2>1
<1>10. HasPairMore(grown, grown2, base, is_new, pair)
  BY <1>6, <1>7, <1>9 DEF HasPairMore
<1> QED BY <1>10 DEF grown, grown2

(* compress_samples with one more pair.                                    *)
WithPair(c, base, deviation_bits) ==
  LET got == GetOrInsert(c.dictionary, base)
  IN  [c EXCEPT
         !.dictionary = got.dictionary,
         !.persisted_bases = IF got.is_new THEN Append(@, base) ELSE @,
         !.current_split.pairs = Append(@, [base_id |-> got.id,
                                            deviation_bits |-> deviation_bits])]

(* One more pair, on both sides.                                           *)
LEMMA AddPairAmounts ==
  ASSUME NEW sent, NEW e, Sound(e), e.current_split_chunks < ChunksPerSplit,
         NEW base \in PackedBase, NEW deviation_bits \in BitString(e.l_d),
         ~ IdsExhausted(e.dictionary, base),
         NEW rows, NEW c, Amounts(sent, e, rows, c)
  PROVE  Amounts(sent, AddPair(e, base, deviation_bits), rows,
                 WithPair(c, base, deviation_bits))
<1> DEFINE got == GetOrInsert(e.dictionary, base)
           pair == [base_id |-> got.id, deviation_bits |-> deviation_bits]
           new_bases == IF got.is_new THEN Append(e.pending.new_bases, base)
                        ELSE e.pending.new_bases
           pairs == Append(e.pending.pairs, pair)
           more == [e.pending EXCEPT !.new_bases = new_bases, !.pairs = pairs]
           added == AddPair(e, base, deviation_bits)
           last == rows[Len(rows)]
           old == e.pending
           l_id == e.l_id
           l_d == e.l_d
<1>1. /\ e \in Encoder /\ old \in Pending /\ l_id \in Nat /\ l_d \in 0..ChunkBitLen
      /\ e.dictionary \in DictionaryState /\ ActiveIdsAssigned(e.dictionary)
      /\ old.new_bases \in Seq(PackedBase) /\ old.pairs \in Seq(Pair)
      /\ e.dictionary.next_id \in Nat /\ e.current_split_chunks \in Nat
  BY EncoderFields DEF Sound
<1>2. l_d \in Nat
  BY <1>1, Geometry
<1>3. got.id \in Nat
  BY <1>1, GetOrInsertSound, Zenon
<1>4. /\ got.is_new \in BOOLEAN
      /\ got.dictionary.next_id
           = IF got.is_new THEN e.dictionary.next_id + 1 ELSE e.dictionary.next_id
  BY NewBaseTakesAnId, Zenon
<1>5. added = [e EXCEPT !.dictionary = got.dictionary, !.pending = more,
                        !.current_split_chunks = @ + 1]
  BY <1>1 DEF AddPair, Encoder, Pending
<1>6. Sound(added)
  BY <1>1, AddPairSound, Zenon
<1>7. /\ more.pairs = pairs /\ more.new_bases = new_bases
      /\ more.parameters_present = old.parameters_present
  BY <1>1 DEF Pending
<1> HIDE DEF got
<1>8. pair \in Pair
  <2>1. deviation_bits \in Seq(Bit)
    BY <1>2, FunctionIsSequence DEF BitString
  <2> QED BY <1>3, <2>1 DEF Pair
<1>9. AddsPair(old, more, base, got.is_new, pair)
  BY <1>7 DEF AddsPair
<1> HIDE DEF added, more, pair, last
<1>10. /\ added.dictionary = got.dictionary /\ added.pending = more
       /\ added.ready = e.ready /\ added.l_id = l_id /\ added.l_d = l_d
       /\ added.old_base_count = e.old_base_count
       /\ added.current_split_chunks = e.current_split_chunks + 1
  BY <1>1, <1>5 DEF Encoder
<1>11. more \in Pending
  BY <1>6, <1>10, EncoderFields DEF Sound
<1>12. Log(sent \o e.ready, rows) /\ Follows(e, last) /\ c = CompressionOf(e, last)
  BY Zenon DEF Amounts, last
<1>13. /\ GoesWith(last, old, l_id, l_d)
       /\ Len(last.dictionary) + Len(old.new_bases) = e.dictionary.next_id
       /\ Len(SplitOf(last, old, l_id, l_d).pairs) + Len(old.pairs)
            = e.current_split_chunks
  BY <1>12, Zenon DEF Follows
<1> DEFINE grown == Grown(last, old, l_id, l_d)
           grown2 == Grown(last, more, l_id, l_d)
<1>14. HasPairMore(grown, grown2, base, got.is_new, pair)
  <2> DEFINE is_new == got.is_new
  <2>1. is_new \in BOOLEAN /\ AddsPair(old, more, base, is_new, pair)
    BY <1>4, <1>9
  <2>2. /\ old \in Pending /\ l_id \in Nat /\ l_d \in 0..ChunkBitLen
        /\ GoesWith(last, old, l_id, l_d)
        /\ more.parameters_present = old.parameters_present
    BY <1>1, <1>7, <1>13
  <2> HIDE DEF old, l_id, l_d, is_new
  <2>3. HasPairMore(grown, grown2, base, is_new, pair)
    BY <1>8, <1>11, <2>1, <2>2, GrownByPair, Zenon
  <2> QED BY <2>3 DEF is_new
<1>15. c = [dictionary |-> e.dictionary, persisted_bases |-> grown.dictionary,
            splits |-> grown.splits, current_split |-> grown.current_split[1],
            old_base_count |-> e.old_base_count, panicked |-> FALSE]
  BY <1>12, CompressionFields, Zenon
<1>16. CompressionOf(added, last) =
         [dictionary |-> got.dictionary, persisted_bases |-> grown2.dictionary,
          splits |-> grown2.splits, current_split |-> grown2.current_split[1],
          old_base_count |-> e.old_base_count, panicked |-> FALSE]
  <2>1. grown2 = Grown(last, added.pending, added.l_id, added.l_d)
    BY <1>10, Zenon
  <2> QED BY <1>10, <2>1, CompressionFields, Zenon
<1> HIDE DEF grown, grown2
<1>17. WithPair(c, base, deviation_bits) = CompressionOf(added, last)
  <2>1. c.dictionary = e.dictionary
    BY <1>15
  <2>2. WithPair(c, base, deviation_bits) =
          [c EXCEPT !.dictionary = got.dictionary,
                    !.persisted_bases = IF got.is_new THEN Append(@, base) ELSE @,
                    !.current_split.pairs = Append(@, pair)]
    BY <2>1 DEF WithPair, got, pair
  <2>3. /\ grown2.dictionary = IF got.is_new THEN Append(grown.dictionary, base)
                               ELSE grown.dictionary
        /\ grown2.splits = grown.splits
        /\ grown2.current_split[1] =
             [grown.current_split[1] EXCEPT !.pairs = Append(@, pair)]
    BY <1>14 DEF HasPairMore
  <2> QED BY <1>15, <1>16, <2>2, <2>3
<1>18. Follows(added, last)
  <2>1. GoesWith(last, more, l_id, l_d)
    BY <1>7, <1>13, Zenon DEF GoesWith
  <2>2. SplitOf(last, more, l_id, l_d) = SplitOf(last, old, l_id, l_d)
    BY <1>7, Zenon DEF SplitOf
  <2>3. Len(last.dictionary) + Len(more.new_bases) = added.dictionary.next_id
    <3>1. /\ Len(last.dictionary) \in Nat /\ Len(old.new_bases) \in Nat
      BY <1>1, <1>13, CollectedFields DEF GoesWith
    <3>2. Len(more.new_bases) = IF got.is_new THEN Len(old.new_bases) + 1
                                ELSE Len(old.new_bases)
      BY <1>1, <1>7
    <3> DEFINE m == Len(last.dictionary)
               n == Len(old.new_bases)
               n2 == Len(more.new_bases)
               next_id == e.dictionary.next_id
               next_id2 == got.dictionary.next_id
    <3>3. /\ m \in Nat /\ n \in Nat /\ next_id \in Nat /\ m + n = next_id
          /\ got.is_new \in BOOLEAN
          /\ n2 = (IF got.is_new THEN n + 1 ELSE n)
          /\ next_id2 = (IF got.is_new THEN next_id + 1 ELSE next_id)
      BY <1>1, <1>4, <1>13, <3>1, <3>2
    <3> HIDE DEF m, n, n2, next_id, next_id2
    <3>4. m + n2 = next_id2
      BY <3>3
    <3> QED BY <1>10, <3>4 DEF m, n2, next_id2
  <2>4. Len(SplitOf(last, more, l_id, l_d).pairs) + Len(more.pairs)
          = added.current_split_chunks
    <3> DEFINE split == SplitOf(last, old, l_id, l_d)
    <3>1. Len(split.pairs) \in Nat /\ Len(old.pairs) \in Nat
      BY <1>1, <1>13, WhereItGoes, SplitFields
    <3>2. Len(more.pairs) = Len(old.pairs) + 1
      BY <1>1, <1>7, <1>8
    <3>3. Len(split.pairs) + Len(old.pairs) = e.current_split_chunks
      BY <1>13
    <3> DEFINE m == Len(split.pairs)
               n == Len(old.pairs)
               n2 == Len(more.pairs)
               chunks == e.current_split_chunks
    <3>4. /\ m \in Nat /\ n \in Nat /\ m + n = chunks /\ n2 = n + 1
      BY <3>1, <3>2, <3>3
    <3>5. m + n2 = Len(SplitOf(last, more, l_id, l_d).pairs) + Len(more.pairs)
      BY <2>2
    <3> HIDE DEF m, n, n2, chunks
    <3>6. m + n2 = chunks + 1
      BY <3>4
    <3> QED BY <1>10, <3>5, <3>6 DEF chunks
  <2> QED BY <1>10, <2>1, <2>3, <2>4, Zenon DEF Follows
<1>19. Amounts(sent, added, rows, WithPair(c, base, deviation_bits))
  BY <1>10, <1>12, <1>17, <1>18, Zenon DEF Amounts, last
<1> QED BY <1>19 DEF added

(* The locals agree with the fields of the struct.                         *)
LEMMA SameParameters ==
  ASSUME NEW sent, NEW e, Sound(e), NEW rows, NEW c, Amounts(sent, e, rows, c)
  PROVE  /\ c.dictionary = e.dictionary /\ c.current_split.l_d = e.l_d
         /\ Len(c.current_split.pairs) = e.current_split_chunks
<1> DEFINE last == rows[Len(rows)]
           old == e.pending
           l_id == e.l_id
           l_d == e.l_d
           grown == Grown(last, old, l_id, l_d)
<1>1. old \in Pending /\ l_id \in Nat /\ l_d \in 0..ChunkBitLen
  BY EncoderFields DEF Sound
<1>2. Follows(e, last) /\ c = CompressionOf(e, last)
  BY Zenon DEF Amounts
<1>3. /\ GoesWith(last, old, l_id, l_d)
      /\ Len(SplitOf(last, old, l_id, l_d).pairs) + Len(old.pairs)
           = e.current_split_chunks
  BY <1>2, Zenon DEF Follows
<1>4. c = [dictionary |-> e.dictionary, persisted_bases |-> grown.dictionary,
           splits |-> grown.splits, current_split |-> grown.current_split[1],
           old_base_count |-> e.old_base_count, panicked |-> FALSE]
  BY <1>2, CompressionFields, Zenon
<1>5. /\ grown.current_split[1].l_d = l_d
      /\ Len(grown.current_split[1].pairs) = e.current_split_chunks
  <2> HIDE DEF old, l_id, l_d
  <2>1. grown.current_split[1].l_d = l_d
    BY ONLY <1>1, <1>3, GrownWidths
  <2>2. Len(grown.current_split[1].pairs)
          = Len(SplitOf(last, old, l_id, l_d).pairs) + Len(old.pairs)
    BY ONLY <1>1, <1>3, GrownType
  <2> QED BY <1>3, <2>1, <2>2, Zenon
<1> HIDE DEF grown
<1>6. c.dictionary = e.dictionary /\ c.current_split = grown.current_split[1]
  BY <1>4
<1> QED BY <1>5, <1>6

(* A chunk in the current split of compress_samples.                       *)
WithChunk(c, chunk) ==
  LET l_d == c.current_split.l_d
      base == PackSamples(BaseSamples(chunk, l_d))
  IN  IF IdsExhausted(c.dictionary, base)
      THEN [c EXCEPT !.panicked = TRUE]
      ELSE WithPair(c, base, DeviationBits(chunk, l_d))

(* CompressChunk adds to the current split or to the next one.             *)
LEMMA ChunkGoesToSplit ==
  ASSUME NEW c, NEW chunk
  PROVE  /\ Len(c.current_split.pairs) # ChunksPerSplit =>
              CompressChunk(c, chunk) = WithChunk(c, chunk)
         /\ Len(c.current_split.pairs) = ChunksPerSplit =>
              CompressChunk(c, chunk) = WithChunk(NextSplit(c), chunk)
BY DEF CompressChunk, WithChunk, WithPair, TransformChunk

(* There is a number of rows.                                              *)
LEMMA RowsLength ==
  ASSUME NEW sent, NEW e, NEW rows, NEW c, Amounts(sent, e, rows, c)
  PROVE  Len(rows) \in Nat
<1>1. Log(sent \o e.ready, rows)
  BY Zenon DEF Amounts
<1>2. rows \in Seq(Collected)
  BY <1>1, Zenon DEF Log
<1> QED BY <1>2

(* More rows of more rows are more rows.                                   *)
LEMMA AmountsFurther ==
  ASSUME NEW sent, NEW e, NEW rows, NEW rows1, NEW c, Len(rows) \in Nat,
         Len(rows1) \in Nat, Continues(rows, rows1), AmountsTo(sent, e, rows1, c)
  PROVE  AmountsTo(sent, e, rows, c)
<1>1. PICK rows2 : Continues(rows1, rows2) /\ Amounts(sent, e, rows2, c)
  BY DEF AmountsTo
<1>2. Len(rows2) \in Nat
  BY <1>1, RowsLength, Zenon
<1>3. Continues(rows, rows2)
  BY <1>1, <1>2, ContinuesOn
<1> QED BY <1>1, <1>3 DEF AmountsTo

(* One more chunk of the current split.                                    *)
LEMMA AddChunkAmounts ==
  ASSUME NEW sent \in Seq(StreamPacket), NEW e, Sound(e), BelowLimits(e),
         e.current_split_chunks < ChunksPerSplit, NEW chunk \in Chunk,
         NEW rows, NEW c, Amounts(sent, e, rows, c)
  PROVE  \/ AddChunk(e, chunk).status = "ids exhausted"
         \/ AmountsTo(sent, AddChunk(e, chunk), rows, WithChunk(c, chunk))
<1> DEFINE base == PackSamples(BaseSamples(chunk, e.l_d))
           deviation_bits == DeviationBits(chunk, e.l_d)
           added == AddPair(e, base, deviation_bits)
           after == AddChunk(e, chunk)
           c2 == WithPair(c, base, deviation_bits)
<1>1. /\ e \in Encoder /\ e.l_d \in 0..ChunkBitLen
      /\ Len(e.pending.new_bases) \in Nat
  <2>1. e \in Encoder
    BY DEF Sound
  <2>2. e.pending.new_bases \in Seq(PackedBase) /\ e.l_d \in 0..ChunkBitLen
    BY <2>1, EncoderFields
  <2> QED BY <2>1, <2>2
<1>2. base \in PackedBase /\ deviation_bits \in BitString(e.l_d)
  BY <1>1, TransformType, PackType
<1>3. after = IF IdsExhausted(e.dictionary, base)
              THEN [e EXCEPT !.status = "ids exhausted"]
              ELSE IF PacketIsFull(added.pending) THEN FlushPending(added) ELSE added
  BY DEF AddChunk, TransformChunk
<1>4. CASE IdsExhausted(e.dictionary, base)
  <2> HIDE DEF base, after
  <2>1. after.status = "ids exhausted"
    BY <1>1, <1>3, <1>4 DEF Encoder
  <2> QED BY <2>1 DEF after
<1>5. CASE ~ IdsExhausted(e.dictionary, base)
  <2>1. Amounts(sent, added, rows, c2)
    BY <1>2, <1>5, AddPairAmounts, Zenon
  <2>2. /\ Sound(added)
        /\ Len(added.pending.new_bases) <= Len(e.pending.new_bases) + 1
    BY <1>2, <1>5, AddPairSound, Zenon
  <2>3. WithChunk(c, chunk) = c2
    <3>1. c.dictionary = e.dictionary /\ c.current_split.l_d = e.l_d
      BY SameParameters
    <3> QED BY <1>5, <3>1, Zenon DEF WithChunk
  <2> HIDE DEF base, deviation_bits, added, after, c2
  <2>4. Len(added.pending.new_bases) <= NewBaseLimit
    <3>1. added.pending.new_bases \in Seq(PackedBase)
      BY <2>2, EncoderFields DEF Sound
    <3>2. Len(added.pending.new_bases) \in Nat
      BY <3>1
    <3> QED BY <1>1, <2>2, <3>2, Constants DEF BelowLimits
  <2>5. AmountsTo(sent, FlushPending(added), rows, c2)
    BY <2>1, <2>2, <2>4, FlushAmounts
  <2>6. AmountsTo(sent, added, rows, c2)
    BY <2>1, <2>2, AmountsAlready DEF Sound
  <2>7. after = FlushPending(added) \/ after = added
    BY <1>3, <1>5
  <2> QED BY <2>3, <2>5, <2>6, <2>7, Zenon DEF after
<1> QED BY <1>4, <1>5

(* A chunk, with the split boundary it may cross: the encoder and          *)
(* compress_samples reach it together.                                     *)
LEMMA EncodeChunkAmounts ==
  ASSUME NEW sent \in Seq(StreamPacket), NEW e, Sound(e), e.status = "ok",
         BelowLimits(e), NEW chunk \in Chunk,
         NEW rows, NEW c, Amounts(sent, e, rows, c)
  PROVE  \/ EncodeChunk(e, chunk).status = "ids exhausted"
         \/ AmountsTo(sent, EncodeChunk(e, chunk), rows, CompressChunk(c, chunk))
<1> DEFINE after == EncodeChunk(e, chunk)
           flushed == FlushPending(e)
           begun == UpdateParameters(flushed)
           c2 == CompressChunk(c, chunk)
<1>1. /\ e \in Encoder
      /\ e.current_split_chunks \in Nat /\ e.current_split_chunks <= ChunksPerSplit
      /\ Len(e.pending.new_bases) \in Nat /\ Len(rows) \in Nat
  <2>1. e \in Encoder
    BY DEF Sound
  <2>2. e.pending.new_bases \in Seq(PackedBase)
    BY <2>1, EncoderFields
  <2>3. Len(rows) \in Nat
    BY RowsLength, Zenon
  <2> QED BY <2>1, <2>2, <2>3, EncoderFields
<1>2. CASE e.current_split_chunks # ChunksPerSplit
  <2>1. after = AddChunk(e, chunk)
    BY <1>2 DEF EncodeChunk
  <2>2. e.current_split_chunks < ChunksPerSplit
    BY <1>1, <1>2, Constants
  <2>3. c2 = WithChunk(c, chunk)
    <3>1. Len(c.current_split.pairs) # ChunksPerSplit
      BY <1>2, SameParameters
    <3> QED BY <3>1, ChunkGoesToSplit, Zenon
  <2> HIDE DEF after, c2
  <2>4. \/ after.status = "ids exhausted"
        \/ AmountsTo(sent, after, rows, c2)
    BY <2>1, <2>2, <2>3, AddChunkAmounts, Zenon
  <2> QED BY <2>4 DEF after, c2
<1>3. CASE e.current_split_chunks = ChunksPerSplit
  <2>1. Len(e.pending.new_bases) <= NewBaseLimit
    BY <1>1, Constants DEF BelowLimits
  <2>2. /\ Sound(flushed) /\ flushed.status = "ok" /\ flushed.pending.pairs = <<>>
        /\ flushed.current_split_chunks = e.current_split_chunks
    BY <2>1, FlushSound, Zenon
  <2>3. AmountsTo(sent, flushed, rows, c)
    BY <2>1, FlushAmounts
  <2>4. /\ Sound(begun) /\ begun.current_split_chunks = 0
        /\ begun.pending.pairs = <<>> /\ begun.status = flushed.status
    BY <1>3, <2>2, UpdateSound, Zenon
  <2>5. after = AddChunk(begun, chunk)
    <3>1. BeginSplit(e) = begun
      BY <2>2 DEF BeginSplit
    <3>2. after = IF BeginSplit(e).status = "ok" THEN AddChunk(BeginSplit(e), chunk)
                  ELSE BeginSplit(e)
      BY <1>3 DEF EncodeChunk
    <3> QED BY <2>2, <2>4, <3>1, <3>2
  <2>6. PICK rows1 : Continues(rows, rows1) /\ Amounts(sent, flushed, rows1, c)
    BY <2>3, Zenon DEF AmountsTo
  <2>7. /\ Amounts(sent, begun, rows1, NextSplit(c))
        /\ Len(c.current_split.pairs) = ChunksPerSplit
    BY <1>3, <2>2, <2>6, UpdateAmounts, Zenon
  <2>8. c2 = WithChunk(NextSplit(c), chunk)
    BY <2>7, ChunkGoesToSplit, Zenon
  <2> HIDE DEF flushed, begun, after, c2
  <2>9. begun.pending.new_bases = <<>>
    BY <2>4 DEF Sound
  <2>10. BelowLimits(begun) /\ begun.current_split_chunks < ChunksPerSplit
    BY <2>4, <2>9, Constants DEF BelowLimits
  <2>11. Len(rows1) \in Nat
    BY <2>7, RowsLength, Zenon
  <2>12. \/ after.status = "ids exhausted"
         \/ AmountsTo(sent, after, rows1, c2)
    BY <2>4, <2>5, <2>7, <2>8, <2>10, AddChunkAmounts, Zenon
  <2>13. \/ after.status = "ids exhausted"
         \/ AmountsTo(sent, after, rows, c2)
    BY <1>1, <2>6, <2>11, <2>12, AmountsFurther, Zenon
  <2> QED BY <2>13 DEF after, c2
<1> QED BY <1>2, <1>3

----------------------------------------------------------------------------
(* compress_samples, chunk by chunk.                                       *)

(* The locals of compress_samples after the chunks of C.                   *)
CompressedTo(c, C) ==
  /\ C \in Seq(Chunk)
  /\ \E after : Compresses(after, C, Len(C)) /\ c = after[Len(C)]

(* Both hold the same from the first place to the last one of f.           *)
SameUpTo(f, g, last) == \A i \in 0..last : g[i] = f[i]

(* They depend on nothing else.                                            *)
LEMMA CompressionAgrees ==
  ASSUME NEW C, NEW C2, NEW m \in Nat, NEW n \in Nat, m <= n,
         \A i \in 1..m : C2[i] = C[i],
         NEW f, NEW g, Compresses(f, C, m), Compresses(g, C2, n)
  PROVE  SameUpTo(f, g, m)
<1> DEFINE Bad == {k \in Nat : k <= m /\ g[k] # f[k]}
<1>1. /\ \A i \in 0..m : f[i] = IF i = 0 THEN NewCompression
                                ELSE CompressNext(f[i - 1], C[i])
      /\ \A i \in 0..n : g[i] = IF i = 0 THEN NewCompression
                                ELSE CompressNext(g[i - 1], C2[i])
  BY DEF Compresses
<1>2. Bad = {}
  <2>1. SUFFICES ASSUME Bad # {} PROVE FALSE
    OBVIOUS
  <2>2. PICK k \in Bad : \A j \in Bad : k <= j
    BY <2>1, LeastElement
  <2>3. k # 0
    BY <1>1
  <2>4. k - 1 \in Nat /\ k - 1 \notin Bad
    BY <2>2, <2>3
  <2>5. k \in 0..m /\ k \in 0..n /\ k \in 1..m
    BY <2>3
  <2>6. f[k - 1] = g[k - 1]
    BY <2>4, <2>5
  <2>7. /\ f[k] = CompressNext(f[k - 1], C[k])
        /\ g[k] = CompressNext(g[k - 1], C2[k])
    BY <1>1, <2>3, <2>5
  <2> QED BY <2>5, <2>6, <2>7
<1> QED BY <1>2 DEF SameUpTo

(* Before the first chunk.                                                 *)
LEMMA CompressedToNothing == CompressedTo(NewCompression, <<>>)
<1>1. PICK after : Compresses(after, <<>>, 0)
  BY CompressionExists
<1>2. after[0] = NewCompression
  BY <1>1 DEF Compresses
<1>3. Len(<<>>) = 0 /\ <<>> \in Seq(Chunk)
  OBVIOUS
<1> QED BY <1>1, <1>2, <1>3 DEF CompressedTo

(* One chunk more.                                                         *)
LEMMA CompressedToOneMore ==
  ASSUME NEW c, NEW C, CompressedTo(c, C), ~ c.panicked, NEW chunk \in Chunk
  PROVE  CompressedTo(CompressChunk(c, chunk), Append(C, chunk))
<1> DEFINE C2 == Append(C, chunk)
           n == Len(C)
<1>1. C \in Seq(Chunk) /\ n \in Nat
  BY DEF CompressedTo
<1>2. PICK f : Compresses(f, C, n) /\ c = f[n]
  BY DEF CompressedTo
<1>3. PICK g : Compresses(g, C2, n + 1)
  <2> HIDE DEF C2, n
  <2>1. n + 1 \in Nat
    BY <1>1
  <2> QED BY <2>1, CompressionExists, Zenon
<1>4. /\ C2 \in Seq(Chunk) /\ Len(C2) = n + 1 /\ C2[n + 1] = chunk
      /\ \A i \in 1..n : C2[i] = C[i]
  BY <1>1
<1> HIDE DEF C2, n
<1>5. g[n] = c
  <2>1. n \in Nat /\ n + 1 \in Nat /\ n <= n + 1 /\ n \in 0..n
    BY <1>1
  <2>2. SameUpTo(f, g, n)
    <3> DEFINE k == n + 1
    <3>1. n \in Nat /\ k \in Nat /\ n <= k /\ Compresses(g, C2, k)
      BY <1>3, <2>1
    <3>2. Compresses(f, C, n) /\ \A i \in 1..n : C2[i] = C[i]
      BY <1>2, <1>4
    <3> HIDE DEF k
    <3> QED BY ONLY <3>1, <3>2, CompressionAgrees, Zenon
  <2> QED BY <1>2, <2>1, <2>2 DEF SameUpTo
<1>6. g[n + 1] = CompressNext(g[n], C2[n + 1])
  <2>1. n + 1 \in 0..(n + 1) /\ n + 1 # 0 /\ (n + 1) - 1 = n
    BY <1>1
  <2>2. g = [i \in 0..(n + 1) |-> IF i = 0 THEN NewCompression
                                  ELSE CompressNext(g[i - 1], C2[i])]
    BY <1>3 DEF Compresses
  <2> QED BY <2>1, <2>2
<1>7. g[n + 1] = CompressChunk(c, chunk)
  BY <1>4, <1>5, <1>6 DEF CompressNext
<1>8. CompressedTo(CompressChunk(c, chunk), C2)
  BY <1>3, <1>4, <1>7 DEF CompressedTo
<1> QED BY <1>8 DEF C2

(* compress_samples makes a container of what the locals are at the end.   *)
ContainerOf(c, count) ==
  [original_sample_count |-> count,
   dictionary            |-> c.persisted_bases,
   splits                |-> IF c.current_split.pairs = <<>> THEN c.splits
                             ELSE Append(c.splits, c.current_split)]

(* If IDs did not run out.                                                 *)
LEMMA CompressesToContainer ==
  ASSUME NEW samples \in Seq(Sample), NEW c, ~ c.panicked,
         CompressedTo(c, ChunkSamples(samples))
  PROVE  CompressSamples(samples) = <<ContainerOf(c, Len(samples))>>
<1> DEFINE C == ChunkSamples(samples)
           n == Len(C)
           after == CHOOSE f : Compresses(f, C, n)
           done == after[n]
<1>1. CompressSamples(samples) =
        IF done.panicked THEN <<>> ELSE <<ContainerOf(done, Len(samples))>>
  BY DEF CompressSamples, Compresses, CompressNext, ContainerOf
<1>2. C \in Seq(Chunk) /\ n \in Nat
  BY DEF CompressedTo
<1>3. PICK g : Compresses(g, C, n) /\ c = g[n]
  BY DEF CompressedTo
<1>4. Compresses(after, C, n)
  BY <1>2, CompressionExists
<1> HIDE DEF after, n, C
<1>5. after[n] = g[n]
  <2>1. n <= n /\ n \in 0..n
    BY <1>2
  <2>2. SameUpTo(g, after, n)
    BY <1>2, <1>3, <1>4, <2>1, CompressionAgrees
  <2> QED BY <2>1, <2>2 DEF SameUpTo
<1> QED BY <1>1, <1>3, <1>5

----------------------------------------------------------------------------
(* The encoder's calls, beside compress_samples.                           *)

(* The rows and the pending packet are what compress_samples makes of C.   *)
Gathers(sent, e, rows, C) ==
  \E c : Amounts(sent, e, rows, c) /\ CompressedTo(c, C)

GathersOn(sent, e, rows, C) ==
  \E rows2 : Continues(rows, rows2) /\ Gathers(sent, e, rows2, C)

(* C is a sequence of chunks, and there is a number of rows.               *)
LEMMA GathersLengths ==
  ASSUME NEW sent, NEW e, NEW rows, NEW C, Gathers(sent, e, rows, C)
  PROVE  Len(rows) \in Nat /\ C \in Seq(Chunk) /\ Len(C) \in Nat
<1>1. PICK c : Amounts(sent, e, rows, c) /\ CompressedTo(c, C)
  BY Zenon DEF Gathers
<1>2. Len(rows) \in Nat
  BY <1>1, RowsLength, Zenon
<1>3. C \in Seq(Chunk)
  BY <1>1, Zenon DEF CompressedTo
<1> QED BY <1>2, <1>3, LenProperties, Zenon

(* It depends on few fields of the struct.                                 *)
LEMMA GathersElsewhere ==
  ASSUME NEW sent, NEW e, NEW rows, NEW C, Gathers(sent, e, rows, C),
         NEW f, f.dictionary = e.dictionary, f.pending = e.pending,
         f.ready = e.ready, f.l_id = e.l_id, f.l_d = e.l_d,
         f.old_base_count = e.old_base_count,
         f.current_split_chunks = e.current_split_chunks
  PROVE  Gathers(sent, f, rows, C)
BY AmountsElsewhere, Zenon DEF Gathers

(* No more rows are more rows.                                             *)
LEMMA GathersAlready ==
  ASSUME NEW sent, NEW e, NEW rows, NEW C, Gathers(sent, e, rows, C)
  PROVE  GathersOn(sent, e, rows, C)
<1>1. Continues(rows, rows)
  BY GathersLengths, ContinuesItself
<1> QED BY <1>1, Zenon DEF GathersOn

(* The sample buffer makes no difference.                                  *)
LEMMA BufferGathers ==
  ASSUME NEW sent, NEW e \in Encoder, NEW buffer,
         NEW rows, NEW C, Gathers(sent, e, rows, C)
  PROVE  Gathers(sent, [e EXCEPT !.sample_buffer = buffer], rows, C)
<1> DEFINE f == [e EXCEPT !.sample_buffer = buffer]
<1>1. /\ f.dictionary = e.dictionary /\ f.pending = e.pending /\ f.ready = e.ready
      /\ f.l_id = e.l_id /\ f.l_d = e.l_d /\ f.old_base_count = e.old_base_count
      /\ f.current_split_chunks = e.current_split_chunks
  BY DEF Encoder
<1> HIDE DEF f
<1>2. Gathers(sent, f, rows, C)
  BY <1>1, GathersElsewhere
<1> QED BY <1>2 DEF f

(* Nor does a flush.                                                       *)
LEMMA FlushGathers ==
  ASSUME NEW sent \in Seq(StreamPacket), NEW e, Sound(e),
         Len(e.pending.new_bases) <= NewBaseLimit,
         NEW rows, Len(rows) \in Nat, NEW C, GathersOn(sent, e, rows, C)
  PROVE  GathersOn(sent, FlushPending(e), rows, C)
<1> DEFINE flushed == FlushPending(e)
<1>1. PICK rows1 : Continues(rows, rows1) /\ Gathers(sent, e, rows1, C)
  BY Zenon DEF GathersOn
<1>2. PICK c : Amounts(sent, e, rows1, c) /\ CompressedTo(c, C)
  BY <1>1, Zenon DEF Gathers
<1>3. AmountsTo(sent, flushed, rows1, c)
  BY <1>2, FlushAmounts
<1> HIDE DEF flushed
<1>4. PICK rows2 : Continues(rows1, rows2) /\ Amounts(sent, flushed, rows2, c)
  BY <1>3, Zenon DEF AmountsTo
<1>5. Len(rows1) \in Nat /\ Len(rows2) \in Nat
  BY <1>2, <1>4, RowsLength, Zenon
<1>6. Continues(rows, rows2)
  BY <1>1, <1>4, <1>5, ContinuesOn
<1> QED BY <1>2, <1>4, <1>6, Zenon DEF GathersOn, Gathers, flushed

(* A chunk.                                                                *)
LEMMA EncodeChunkGathers ==
  ASSUME NEW sent \in Seq(StreamPacket), NEW e, Sound(e), e.status = "ok",
         BelowLimits(e), NEW chunk \in Chunk, NEW rows, NEW C, Gathers(sent, e, rows, C)
  PROVE  \/ EncodeChunk(e, chunk).status = "ids exhausted"
         \/ GathersOn(sent, EncodeChunk(e, chunk), rows, Append(C, chunk))
<1> DEFINE after == EncodeChunk(e, chunk)
           C2 == Append(C, chunk)
<1>1. PICK c : Amounts(sent, e, rows, c) /\ CompressedTo(c, C)
  BY Zenon DEF Gathers
<1>2. \/ after.status = "ids exhausted"
      \/ AmountsTo(sent, after, rows, CompressChunk(c, chunk))
  BY <1>1, EncodeChunkAmounts, Zenon
<1>3. ~ c.panicked
  <2>1. c = CompressionOf(e, rows[Len(rows)])
    BY <1>1, Zenon DEF Amounts
  <2>2. c.panicked = FALSE
    BY <2>1 DEF CompressionOf
  <2> QED BY <2>2
<1>4. CompressedTo(CompressChunk(c, chunk), C2)
  BY <1>1, <1>3, CompressedToOneMore, Zenon
<1> HIDE DEF after, C2
<1>5. AmountsTo(sent, after, rows, CompressChunk(c, chunk)) => GathersOn(sent, after, rows, C2)
  BY <1>4, Zenon DEF AmountsTo, GathersOn, Gathers
<1> QED BY <1>2, <1>5, Zenon DEF after, C2

(* push_sample up to the packet it returns: the sample waits for its chunk *)
(* or completes it.                                                        *)
LEMMA BufferedGathers ==
  ASSUME NEW sent \in Seq(StreamPacket), NEW e, Between(e), e.status = "ok",
         NEW sample \in Sample,
         NEW rows, NEW C, Gathers(sent, e, rows, C),
         NEW samples, AreSamples(samples, C, e.sample_buffer),
         ~ OutOfIds(Buffered(e, sample))
  PROVE  \E C2 : /\ GathersOn(sent, Buffered(e, sample), rows, C2)
                 /\ AreSamples(Append(samples, sample), C2, Buffered(e, sample).sample_buffer)
<1> DEFINE old == e.sample_buffer
           buffer == Append(old, sample)
           emptied == [e EXCEPT !.sample_buffer = <<>>]
           filled == [e EXCEPT !.sample_buffer = buffer]
           after == Buffered(e, sample)
           whole == Join(C, SamplesPerChunk)
<1>1. /\ e \in Encoder /\ old \in Seq(Sample) /\ e.ready = <<>>
      /\ Sound(e) /\ BelowLimits(e)
      /\ C \in Seq(Chunk)
      /\ Len(rows) \in Nat /\ Len(C) \in Nat
  <2>1. /\ C \in Seq(Chunk)
        /\ Len(rows) \in Nat /\ Len(C) \in Nat
    BY GathersLengths, Zenon
  <2>2. e \in Encoder /\ Sound(e) /\ BelowLimits(e) /\ e.ready = <<>>
    BY DEF Between, Sound
  <2>3. old \in Seq(Sample)
    BY <2>2, EncoderFields
  <2> QED BY <2>1, <2>2, <2>3, Zenon
<1> HIDE DEF old
<1>2. buffer \in Seq(Sample)
  BY <1>1
<1>3. whole \in Seq(Sample)
  <2>1. ZeroSample \in Sample /\ <<>> \in Seq(Sample)
    BY DEF ZeroSample, ZeroBits, Sample, BitString, Bit
  <2>2. PadChunk(<<>>) \in Chunk
    BY <2>1, PadChunkType
  <2> QED BY <1>1, <2>2, JoinOneMore
<1> HIDE DEF whole
<1>4. Append(samples, sample) = whole \o buffer
  <2>1. samples = whole \o old
    BY DEF AreSamples, whole, old
  <2>2. whole \o Append(old, sample) = Append(whole \o old, sample)
    BY <1>1, <1>3, AppendAtTheEnd
  <2> QED BY <2>1, <2>2, Zenon
<1> HIDE DEF buffer
<1>5. CASE Len(buffer) = SamplesPerChunk
  <2>1. buffer \in Chunk
    BY <1>2, <1>5 DEF Chunk
  <2>2. <<>> \in Seq(Sample)
    OBVIOUS
  <2>3. /\ Sound(emptied) /\ BelowLimits(emptied) /\ emptied.status = "ok"
        /\ emptied.ready = <<>> /\ emptied.sample_buffer = <<>>
    BY <1>1, <2>2, EmptiedBuffer, Zenon
  <2>4. Gathers(sent, emptied, rows, C)
    BY <1>1, BufferGathers
  <2>5. after = EncodeChunk(emptied, buffer)
    BY <1>5 DEF Buffered, buffer, old
  <2> HIDE DEF emptied, after
  <2>6. ~ OutOfIds(after)
    BY DEF after
  <2>7. GathersOn(sent, after, rows, Append(C, buffer))
    BY <2>1, <2>3, <2>4, <2>5, <2>6, EncodeChunkGathers, Zenon DEF OutOfIds
  <2>8. after.sample_buffer = <<>>
    BY <2>1, <2>3, <2>5, <2>6, EncodeChunkSound, Zenon DEF OutOfIds
  <2>9. Append(C, buffer) \in Seq(Chunk) /\ Continues(C, Append(C, buffer))
    BY <1>1, <2>1, ContinuesByOne
  <2>10. Join(Append(C, buffer), SamplesPerChunk) = whole \o buffer
         /\ whole \o buffer \in Seq(Sample)
    BY <1>1, <1>2, <1>3, <2>1, JoinOneMore, ConcatProperties DEF whole
  <2>11. Append(samples, sample)
           = Join(Append(C, buffer), SamplesPerChunk) \o after.sample_buffer
    BY <1>4, <2>8, <2>10, ConcatEmptySeq
  <2> QED BY <2>7, <2>9, <2>11, Zenon DEF after, AreSamples
<1>6. CASE Len(buffer) # SamplesPerChunk
  <2>1. after = filled
    BY <1>6 DEF Buffered, buffer, old
  <2>2. Gathers(sent, filled, rows, C)
    BY <1>1, BufferGathers
  <2>3. filled.sample_buffer = buffer
    BY <1>1 DEF Encoder
  <2> HIDE DEF filled, after
  <2>4. GathersOn(sent, after, rows, C)
    BY <2>1, <2>2, GathersAlready
  <2>5. Continues(C, C)
    BY <1>1, ContinuesItself
  <2>6. Append(samples, sample) = Join(C, SamplesPerChunk) \o after.sample_buffer
    BY <1>4, <2>1, <2>3 DEF whole
  <2> QED BY <1>1, <2>4, <2>5, <2>6, Zenon DEF after, AreSamples
<1> QED BY <1>5, <1>6

(* finish up to the packets it returns: the samples that wait make a chunk,*)
(* with zeros in the place of what is missing.                             *)
LEMMA DrainedGathers ==
  ASSUME NEW sent \in Seq(StreamPacket), NEW e, Between(e), e.status = "ok",
         NEW rows, NEW C, Gathers(sent, e, rows, C),
         NEW samples, AreSamples(samples, C, e.sample_buffer),
         ~ OutOfIds(Drained(e))
  PROVE  \E C2 : /\ GathersOn(sent, Drained(e), rows, C2)
                 /\ FillChunks(samples, C2)
<1> DEFINE buffer == e.sample_buffer
           emptied == [e EXCEPT !.sample_buffer = <<>>]
           padded == IF buffer = <<>> THEN e ELSE EncodeChunk(emptied, PadChunk(buffer))
           after == Drained(e)
<1>1. /\ e \in Encoder /\ buffer \in Seq(Sample) /\ e.ready = <<>>
      /\ Sound(e) /\ BelowLimits(e) /\ Len(buffer) < SamplesPerChunk
      /\ C \in Seq(Chunk)
      /\ Len(rows) \in Nat /\ Len(C) \in Nat
  <2>1. /\ C \in Seq(Chunk)
        /\ Len(rows) \in Nat /\ Len(C) \in Nat
    BY GathersLengths, Zenon
  <2>2. /\ e \in Encoder /\ Sound(e) /\ BelowLimits(e) /\ e.ready = <<>>
        /\ Len(buffer) < SamplesPerChunk
    BY DEF Between, Sound
  <2>3. buffer \in Seq(Sample)
    BY <2>2, EncoderFields
  <2> QED BY <2>1, <2>2, <2>3, Zenon
<1>2. after = IF padded.status = "ok" THEN FlushPending(padded) ELSE padded
  BY DEF Drained
<1>3. ~ OutOfIds(padded)
  <2> HIDE DEF padded, after
  <2>1. OutOfIds(padded) => after = padded
    BY <1>2 DEF OutOfIds
  <2>2. ~ OutOfIds(after)
    BY DEF after
  <2> QED BY <2>1, <2>2, Zenon
<1>4. samples = Join(C, SamplesPerChunk) \o buffer
  BY DEF AreSamples
<1> HIDE DEF after, buffer
<1>5. /\ buffer = <<>> => Filled(samples) = Join(C, SamplesPerChunk)
      /\ buffer # <<>> =>
           Filled(samples) = Join(Append(C, PadChunk(buffer)), SamplesPerChunk)
  BY <1>1, <1>4, FilledIsPadded
<1>6. \E C2 : /\ C2 \in Seq(Chunk) /\ Continues(C, C2)
              /\ GathersOn(sent, padded, rows, C2)
              /\ Filled(samples) = Join(C2, SamplesPerChunk)
              /\ Sound(padded) /\ BelowLimits(padded) /\ padded.status = "ok"
  <2>1. CASE buffer = <<>>
    <3>1. padded = e
      BY <2>1
    <3>2. Continues(C, C) /\ GathersOn(sent, e, rows, C)
      BY <1>1, ContinuesItself, GathersAlready
    <3> HIDE DEF padded
    <3> QED BY <1>1, <1>5, <2>1, <3>1, <3>2, Zenon
  <2>2. CASE buffer # <<>>
    <3> DEFINE C2 == Append(C, PadChunk(buffer))
    <3>1. <<>> \in Seq(Sample) /\ PadChunk(buffer) \in Chunk
      BY <1>1, PadChunkType
    <3>2. /\ Sound(emptied) /\ BelowLimits(emptied) /\ emptied.status = "ok"
          /\ emptied.ready = <<>>
      BY <1>1, <3>1, EmptiedBuffer, Zenon
    <3>3. Gathers(sent, emptied, rows, C)
      BY <1>1, BufferGathers
    <3>4. padded = EncodeChunk(emptied, PadChunk(buffer))
      BY <2>2
    <3> HIDE DEF emptied, padded
    <3>5. Sound(padded) /\ BelowLimits(padded) /\ padded.status = "ok"
      BY <1>3, <3>1, <3>2, <3>4, EncodeChunkSound, Zenon DEF OutOfIds
    <3>6. GathersOn(sent, padded, rows, C2)
      BY <1>3, <3>1, <3>2, <3>3, <3>4, EncodeChunkGathers, Zenon DEF OutOfIds
    <3>7. C2 \in Seq(Chunk) /\ Continues(C, C2)
      BY <1>1, <3>1, ContinuesByOne
    <3>8. Filled(samples) = Join(C2, SamplesPerChunk)
      BY <1>5, <2>2
    <3> QED BY <3>5, <3>6, <3>7, <3>8, Zenon
  <2> QED BY <2>1, <2>2
<1> HIDE DEF padded
<1>7. PICK C2 : /\ C2 \in Seq(Chunk) /\ Continues(C, C2)
                /\ GathersOn(sent, padded, rows, C2)
                /\ Filled(samples) = Join(C2, SamplesPerChunk)
                /\ Sound(padded) /\ BelowLimits(padded) /\ padded.status = "ok"
  BY <1>6
<1>8. Len(padded.pending.new_bases) <= NewBaseLimit
  <2>1. padded.pending.new_bases \in Seq(PackedBase)
    BY <1>7, EncoderFields DEF Sound
  <2>2. Len(padded.pending.new_bases) \in Nat
    BY <2>1
  <2> QED BY <1>7, <2>2, Constants DEF BelowLimits
<1>9. GathersOn(sent, FlushPending(padded), rows, C2)
  BY <1>1, <1>7, <1>8, FlushGathers
<1>10. after = FlushPending(padded)
  BY <1>2, <1>7
<1> QED BY <1>7, <1>9, <1>10, Zenon DEF after, FillChunks

----------------------------------------------------------------------------
(* The steps of the encoder.                                               *)

(* The chunks of compress_samples hold the samples pushed.                 *)
Gathering(rows, C) == Gathers(emitted, encoder, rows, C) /\ Accounts(C)

(* A new encoder, with a new collector, is at the start of                 *)
(* compress_samples.                                                       *)
LEMMA InitGathers == EncoderInit => Gathering(<<NewCollector>>, <<>>)
<1> SUFFICES ASSUME EncoderInit PROVE Gathering(<<NewCollector>>, <<>>)
  OBVIOUS
<1> DEFINE R == NewCollector
           pending == encoder.pending
           split == NewSplit(InitialLId, InitialLD)
<1>1. /\ encoder.dictionary = NewDictionary /\ encoder.dictionary.next_id = 0
      /\ encoder.ready = <<>> /\ encoder.sample_buffer = <<>>
      /\ pending.parameters_present = TRUE
      /\ pending.new_bases = <<>> /\ pending.pairs = <<>>
      /\ encoder.l_id = InitialLId /\ encoder.l_d = InitialLD
      /\ encoder.old_base_count = 0 /\ encoder.current_split_chunks = 0
      /\ emitted = <<>> /\ pushed = <<>> /\ phase = "open"
  BY DEF EncoderInit, NewEncoder, NewDictionary, EmptyPending
<1>2. /\ R.dictionary = <<>> /\ R.splits = <<>> /\ R.current_split = <<>>
      /\ R \in Collected
  BY DEF NewCollector, Collected
<1>3. ~ HasPairs(R) /\ CloseSplit(R) = R
  BY <1>2 DEF HasPairs, CloseSplit
<1> HIDE DEF pending
<1>4. GoesWith(R, pending, encoder.l_id, encoder.l_d)
  <2> HIDE DEF R
  <2> QED BY <1>1, <1>2 DEF GoesWith, MayBegin
<1>5. SplitOf(R, pending, encoder.l_id, encoder.l_d) = split /\ SplitsBefore(R, pending) = <<>>
  <2> HIDE DEF R
  <2> QED BY <1>1, <1>2, <1>3, Zenon DEF SplitOf, SplitsBefore
<1>6. /\ split.pairs = <<>> /\ split.l_id = InitialLId /\ split.l_d = InitialLD
      /\ split = [l_id |-> InitialLId, l_d |-> InitialLD, pairs |-> <<>>]
  BY DEF NewSplit
<1> HIDE DEF R, split
<1>7. Follows(encoder, R)
  <2>1. Len(R.dictionary) + Len(pending.new_bases) = 0
    BY <1>1, <1>2
  <2>2. Len(split.pairs) + Len(pending.pairs) = 0
    BY <1>1, <1>6
  <2> QED BY <1>1, <1>4, <1>5, <2>1, <2>2, Zenon DEF Follows, pending
<1>8. WithMore(split, pending.pairs) = split
  <2>1. <<>> \o <<>> = <<>>
    OBVIOUS
  <2> QED BY <1>1, <1>6, <2>1, Zenon DEF WithMore
<1>9. Grown(R, pending, encoder.l_id, encoder.l_d)
        = [dictionary |-> <<>>, splits |-> <<>>, current_split |-> <<split>>]
  <2>1. <<>> \o <<>> = <<>>
    OBVIOUS
  <2> QED BY <1>1, <1>2, <1>5, <1>8, <2>1, Zenon DEF Grown
<1>10. CompressionOf(encoder, R) = NewCompression
  BY <1>1, <1>9 DEF CompressionOf, NewCompression, pending, split
<1>11. Log(emitted \o encoder.ready, <<R>>)
  <2>1. emitted \o encoder.ready = <<>>
    BY <1>1
  <2>2. Log(<<>>, <<R>>)
    BY <1>2 DEF Log, R
  <2> QED BY <2>1, <2>2
<1>12. Amounts(emitted, encoder, <<R>>, NewCompression)
  <2>1. <<R>>[Len(<<R>>)] = R
    OBVIOUS
  <2> QED BY <1>7, <1>10, <1>11, <2>1, Zenon DEF Amounts
<1>13. Join(<<>>, SamplesPerChunk) \o <<>> = <<>>
  <2>1. Len(<<>>) * SamplesPerChunk = 0
    BY Geometry
  <2>2. Join(<<>>, SamplesPerChunk) = <<>>
    BY <2>1 DEF Join
  <2> QED BY <2>2
<1>14. Accounts(<<>>)
  <2>1. phase # "finished"
    BY <1>1
  <2> QED BY <1>1, <1>13, <2>1, Zenon DEF Accounts, AreSamples
<1>15. Gathers(emitted, encoder, <<R>>, <<>>)
  BY <1>12, CompressedToNothing, Zenon DEF Gathers
<1> QED BY <1>14, <1>15, Zenon DEF Gathering, R

(* Packets that are returned stay the packets there are.                   *)
LEMMA ReturnAmounts ==
  ASSUME NEW sent, NEW returned, NEW e, NEW f, NEW rows, NEW c, Amounts(sent, e, rows, c),
         returned \o f.ready = sent \o e.ready,
         f.dictionary = e.dictionary, f.pending = e.pending,
         f.l_id = e.l_id, f.l_d = e.l_d,
         f.old_base_count = e.old_base_count,
         f.current_split_chunks = e.current_split_chunks
  PROVE  Amounts(returned, f, rows, c)
<1>1. /\ Log(returned \o f.ready, rows) /\ Follows(f, rows[Len(rows)])
  BY Zenon DEF Amounts, Follows
<1>2. CompressionOf(f, rows[Len(rows)]) = CompressionOf(e, rows[Len(rows)])
  BY Zenon DEF CompressionOf
<1> QED BY <1>1, <1>2, Zenon DEF Amounts

(* Packets that are returned move from `ready` to `emitted`.               *)
LEMMA ReturnGathers ==
  ASSUME NEW e, NEW sent \in Seq(StreamPacket), e \in Encoder,
         NEW rows, NEW C, Gathers(sent, e, rows, C),
         NEW f, f = [e EXCEPT !.ready = <<>>],
         NEW returned, returned = sent \o e.ready
  PROVE  /\ Gathers(returned, f, rows, C)
         /\ returned \in Seq(StreamPacket) /\ Continues(sent, returned)
         /\ f.sample_buffer = e.sample_buffer
<1>1. /\ f.dictionary = e.dictionary /\ f.pending = e.pending /\ f.ready = <<>>
      /\ f.l_id = e.l_id /\ f.l_d = e.l_d /\ f.sample_buffer = e.sample_buffer
      /\ f.old_base_count = e.old_base_count
      /\ f.current_split_chunks = e.current_split_chunks
  BY DEF Encoder
<1>2. returned \in Seq(StreamPacket) /\ Continues(sent, returned)
  <2> DEFINE ready == e.ready
  <2>1. ready \in Seq(StreamPacket)
    BY EncoderFields
  <2> HIDE DEF ready
  <2>2. sent \o ready \in Seq(StreamPacket) /\ Continues(sent, sent \o ready)
    BY <2>1, ConcatProperties DEF Continues
  <2> QED BY <2>2 DEF ready
<1>3. returned \o f.ready = sent \o e.ready
  BY <1>1, <1>2, ConcatEmptySeq
<1> QED BY <1>1, <1>2, <1>3, ReturnAmounts, Zenon DEF Gathers

(* push_sample.                                                            *)
LEMMA PushGathers ==
  ASSUME EncoderInv, NEW rows, NEW C, Gathering(rows, C),
         NEW sample \in Sample, PushSample(sample)
  PROVE  /\ Continues(emitted, emitted')
         /\ \E rows2, C2 : Continues(rows, rows2) /\ Gathering(rows2, C2)'
<1> DEFINE after == Buffered(encoder, sample)
           buffer == after.sample_buffer
<1>1. /\ Between(encoder) /\ encoder.status = "ok" /\ phase = "open"
      /\ emitted \in Seq(StreamPacket) /\ Len(emitted) \in Nat
      /\ Gathers(emitted, encoder, rows, C)
      /\ AreSamples(pushed, C, encoder.sample_buffer)
  <2>1. /\ Between(encoder) /\ encoder.status = "ok" /\ phase = "open"
        /\ emitted \in Seq(StreamPacket)
    BY DEF EncoderInv, PushSample, Running
  <2>2. Gathers(emitted, encoder, rows, C) /\ Accounts(C)
    BY Zenon DEF Gathering
  <2> QED BY <2>1, <2>2, LenProperties, Zenon DEF Accounts
<1>2. /\ after.status = "ok" /\ pushed' = Append(pushed, sample) /\ phase' = phase
      /\ \/ after.ready = <<>> /\ encoder' = after /\ emitted' = emitted
         \/ /\ after.ready # <<>>
            /\ encoder' = [after EXCEPT !.ready = Tail(@)]
            /\ emitted' = Append(emitted, Head(after.ready))
  BY DEF PushSample
<1>3. ~ OutOfIds(after)
  BY <1>2 DEF OutOfIds
<1>4. Sound(after) /\ (Len(after.ready) = 0 \/ Len(after.ready) = 1)
  BY <1>1, <1>3, BufferedSound, Zenon DEF OutOfIds
<1>5. PICK C2 : GathersOn(emitted, after, rows, C2)
                /\ AreSamples(Append(pushed, sample), C2, buffer)
  BY <1>1, <1>3, BufferedGathers, Zenon
<1> HIDE DEF after
<1>6. PICK rows2 : Gathers(emitted, after, rows2, C2)
                   /\ Continues(rows, rows2)
  BY <1>5, Zenon DEF GathersOn
<1>7. after \in Encoder /\ after.ready \in Seq(StreamPacket)
  BY <1>4, EncoderFields DEF Sound
<1>8. /\ Gathers(emitted', encoder', rows2, C2)
      /\ Continues(emitted, emitted') /\ encoder'.sample_buffer = buffer
  <2>1. CASE after.ready = <<>>
    <3>1. encoder' = after /\ emitted' = emitted
      BY <1>2, <2>1
    <3>2. Continues(emitted, emitted)
      BY <1>1, ContinuesItself
    <3> QED BY <1>6, <3>1, <3>2, Zenon
  <2>2. CASE after.ready # <<>>
    <3>1. Len(after.ready) = 1
      BY <1>4, <1>7, <2>2
    <3>2. Tail(after.ready) = <<>> /\ Head(after.ready) \in StreamPacket
      BY <1>7, <3>1, SingletonSequence, Zenon
    <3>3. encoder' = [after EXCEPT !.ready = <<>>]
      BY <1>2, <1>7, <2>2, <3>2 DEF Encoder
    <3>4. after.ready = <<Head(after.ready)>>
      BY <1>7, <3>1
    <3>5. emitted' = emitted \o after.ready
      BY <1>1, <1>2, <2>2, <3>2, <3>4, AppendIsConcat
    <3> QED BY <1>1, <1>6, <1>7, <3>3, <3>5, ReturnGathers
  <2> QED BY <2>1, <2>2
<1>9. phase' = "open" /\ phase' # "finished"
  BY <1>1, <1>2
<1>10. Gathering(rows2, C2)'
  BY <1>2, <1>5, <1>8, <1>9, Zenon DEF Gathering, Accounts
<1> QED BY <1>6, <1>8, <1>10, Zenon

(* finish.                                                                 *)
LEMMA FinishGathers ==
  ASSUME EncoderInv, NEW rows, NEW C, Gathering(rows, C), Finish
  PROVE  /\ Continues(emitted, emitted')
         /\ \E rows2, C2 : Continues(rows, rows2) /\ Gathering(rows2, C2)'
<1> DEFINE after == Drained(encoder)
<1>1. /\ Between(encoder) /\ encoder.status = "ok" /\ phase = "open"
      /\ emitted \in Seq(StreamPacket)
      /\ Gathers(emitted, encoder, rows, C)
      /\ AreSamples(pushed, C, encoder.sample_buffer)
  <2>1. /\ Between(encoder) /\ encoder.status = "ok" /\ phase = "open"
        /\ emitted \in Seq(StreamPacket)
    BY DEF EncoderInv, Finish, Running
  <2>2. Gathers(emitted, encoder, rows, C) /\ Accounts(C)
    BY Zenon DEF Gathering
  <2> QED BY <2>1, <2>2, Zenon DEF Accounts
<1>2. /\ after.status = "ok" /\ pushed' = pushed /\ phase' = "finished"
      /\ encoder' = [after EXCEPT !.ready = <<>>] /\ emitted' = emitted \o after.ready
  BY DEF Finish
<1>3. ~ OutOfIds(after)
  BY <1>2 DEF OutOfIds
<1>4. Sound(after)
  BY <1>1, <1>3, DrainedSound, Zenon DEF OutOfIds
<1>5. PICK C2 : GathersOn(emitted, after, rows, C2)
                /\ FillChunks(pushed, C2)
  BY <1>1, <1>3, DrainedGathers, Zenon
<1> HIDE DEF after
<1>6. PICK rows2 : Gathers(emitted, after, rows2, C2)
                   /\ Continues(rows, rows2)
  BY <1>5, Zenon DEF GathersOn
<1>7. after \in Encoder
  BY <1>4 DEF Sound
<1>8. Gathers(emitted', encoder', rows2, C2) /\ Continues(emitted, emitted')
  BY <1>1, <1>2, <1>6, <1>7, ReturnGathers
<1>9. phase' # "open"
  BY <1>2
<1>10. FillChunks(pushed, C2)'
  BY <1>2, <1>5, Zenon
<1>11. Gathering(rows2, C2)'
  BY <1>8, <1>9, <1>10, Zenon DEF Gathering, Accounts
<1> QED BY <1>6, <1>8, <1>11, Zenon

(* A call that fails adds nothing, and loses nothing.                      *)
LEMMA FailureGathers ==
  ASSUME EncoderInv, NEW rows, NEW C, Gathering(rows, C),
         NEW status, encoder' = [encoder EXCEPT !.status = status],
         UNCHANGED <<phase, pushed, emitted>>
  PROVE  Gathering(rows, C)'
<1>1. encoder \in Encoder
  BY DEF EncoderInv, Between, Sound
<1>2. /\ encoder'.dictionary = encoder.dictionary /\ encoder'.pending = encoder.pending
      /\ encoder'.ready = encoder.ready /\ encoder'.sample_buffer = encoder.sample_buffer
      /\ encoder'.l_id = encoder.l_id /\ encoder'.l_d = encoder.l_d
      /\ encoder'.old_base_count = encoder.old_base_count
      /\ encoder'.current_split_chunks = encoder.current_split_chunks
  BY <1>1 DEF Encoder
<1>3. emitted' = emitted /\ pushed' = pushed /\ phase' = phase
  OBVIOUS
<1>4. Gathers(emitted, encoder, rows, C) /\ Accounts(C)
  BY Zenon DEF Gathering
<1>5. Gathers(emitted, encoder', rows, C)
  BY <1>2, <1>4, GathersElsewhere
<1>6. Accounts(C)'
  BY <1>2, <1>3, <1>4, Zenon DEF Accounts
<1> QED BY <1>3, <1>5, <1>6, Zenon DEF Gathering

(* Every step of the encoder goes on with the rows there were.             *)
LEMMA NextGathers ==
  ASSUME EncoderInv, NEW rows, NEW C, Gathering(rows, C),
         [EncoderNext]_encoderVars
  PROVE  /\ Continues(emitted, emitted')
         /\ \E rows2, C2 : Continues(rows, rows2) /\ Gathering(rows2, C2)'
<1> DEFINE More == /\ Continues(emitted, emitted')
                   /\ \E rows2, C2 : Continues(rows, rows2) /\ Gathering(rows2, C2)'
<1>1. /\ Continues(emitted, emitted) /\ Continues(rows, rows)
  <2>1. Len(rows) \in Nat /\ Len(C) \in Nat
    <3>1. Gathers(emitted, encoder, rows, C)
      BY Zenon DEF Gathering
    <3> QED BY <3>1, GathersLengths, Zenon
  <2>2. Len(emitted) \in Nat
    BY LenProperties DEF EncoderInv
  <2> QED BY <2>1, <2>2, ContinuesItself, Zenon
<1>2. ASSUME NEW sample \in Sample, PushSample(sample) PROVE More
  BY <1>2, PushGathers
<1>3. ASSUME NEW sample \in Sample, PushFails(sample) PROVE More
  <2>1. Gathering(rows, C)' /\ emitted' = emitted
    BY <1>3, FailureGathers DEF PushFails
  <2> QED BY <1>1, <2>1, Zenon
<1>4. ASSUME Finish PROVE More
  BY <1>4, FinishGathers
<1>5. ASSUME FinishFails PROVE More
  <2>1. Gathering(rows, C)' /\ emitted' = emitted
    BY <1>5, FailureGathers DEF FinishFails
  <2> QED BY <1>1, <2>1, Zenon
<1>6. ASSUME UNCHANGED encoderVars PROVE More
  <2>1. emitted' = emitted /\ encoder' = encoder /\ pushed' = pushed /\ phase' = phase
    BY <1>6 DEF encoderVars
  <2>2. Gathering(rows, C)'
    BY <2>1, Zenon DEF Gathering, Accounts
  <2> QED BY <1>1, <2>1, <2>2, Zenon
<1> HIDE DEF More
<1>7. More
  BY <1>2, <1>3, <1>4, <1>5, <1>6 DEF EncoderNext
<1> QED BY <1>7 DEF More

----------------------------------------------------------------------------
(* The chunks of compress_samples.                                         *)

(* A quotient rounded up, of what lacks less than the divisor.             *)
LEMMA CeilOfWhole ==
  ASSUME NEW w \in Nat \ {0}, NEW n \in Nat, NEW m \in Nat, NEW count \in 0..(w - 1),
         m * w = n + count
  PROVE  CeilDiv(n, w) = m
<1> DEFINE r == w - 1 - count
<1>1. r \in 0..(w - 1) /\ n + w - 1 = m * w + r
  BY SMT
<1> HIDE DEF r
<1>2. (m * w + r) \div w = m
  BY <1>1
<1> QED BY <1>1, <1>2 DEF CeilDiv

(* The samples from a place to another.                                    *)
LEMMA PartOfSamples ==
  ASSUME NEW S, NEW s \in Seq(S), NEW first \in Nat, NEW last \in Nat, last <= Len(s),
         NEW i \in Nat \ {0}
  PROVE  /\ SubSeq(s, first + 1, last) \in Seq(S)
         /\ i <= Len(SubSeq(s, first + 1, last)) <=> first + i <= last
         /\ first + i <= last => SubSeq(s, first + 1, last)[i] = s[first + i]
<1>1. \A k \in (first + 1)..last : s[k] \in S
  OBVIOUS
<1>2. /\ SubSeq(s, first + 1, last) \in Seq(S)
      /\ Len(SubSeq(s, first + 1, last)) = IF first + 1 <= last THEN last - first ELSE 0
  BY <1>1
<1> QED BY <1>2

(* The samples, filled with zeros up to whole chunks, are those of         *)
(* chunk_samples: the chunks of the encoder are the chunks of              *)
(* compress_samples.                                                       *)
LEMMA FilledChunks ==
  ASSUME NEW samples \in Seq(Sample), NEW C \in Seq(Chunk), FillChunks(samples, C)
  PROVE  /\ C = ChunkSamples(samples)
         /\ Len(samples) <= Len(C) * SamplesPerChunk
         /\ Len(C) * SamplesPerChunk < Len(samples) + SamplesPerChunk
<1> DEFINE w == SamplesPerChunk
           n == Len(samples)
           m == Len(C)
           whole == Join(C, w)
           count == (w - (n % w)) % w
           zeros == [i \in 1..count |-> ZeroSample]
           Last(c) == IF c * w <= n THEN c * w ELSE n
           Part(c) == SubSeq(samples, (c - 1) * w + 1, Last(c))
<1>1. w \in Nat \ {0} /\ n \in Nat /\ m \in Nat
  BY Geometry
<1>2. count \in 0..(w - 1)
  <2> HIDE DEF n, w
  <2>1. w - (n % w) \in Int
    BY <1>1
  <2> DEFINE d == w - (n % w)
  <2> HIDE DEF d
  <2>2. d % w \in 0..(w - 1)
    BY <1>1, <2>1 DEF d
  <2> QED BY <2>2 DEF d
<1>3. whole = samples \o zeros
  BY DEF FillChunks, Filled
<1>4. whole \in Seq(Sample) /\ Len(whole) = m * w
  <2>1. w \in Nat /\ C \in Seq([1..w -> Sample])
    BY <1>1 DEF Chunk
  <2> QED BY <2>1, JoinOfSeq
<1> HIDE DEF whole, count
<1>5. zeros \in Seq(Sample) /\ Len(zeros) = count
  <2>1. ZeroSample \in Sample
    BY DEF ZeroSample, ZeroBits, Sample, BitString, Bit
  <2> QED BY <1>2, <2>1, FunctionIsSequence
<1>6. /\ m * w = n + count
      /\ \A k \in 1..(m * w) : whole[k] = IF k <= n THEN samples[k] ELSE ZeroSample
  <2>1. Len(samples \o zeros) = n + count
    BY <1>5, ConcatProperties
  <2>2. ASSUME NEW k \in 1..(n + count)
        PROVE  (samples \o zeros)[k] = IF k <= n THEN samples[k] ELSE ZeroSample
    <3>1. CASE k <= n
      BY <1>1, <1>2, <1>5, <3>1, ConcatProperties
    <3>2. CASE ~ (k <= n)
      <4>1. k - n \in 1..count
        BY <1>1, <1>2, <3>2
      <4>2. (samples \o zeros)[k] = zeros[k - n]
        BY <1>1, <1>2, <1>5, <3>2, ConcatProperties
      <4> QED BY <3>2, <4>1, <4>2
    <3> QED BY <3>1, <3>2
  <2> QED BY <1>3, <1>4, <2>1, <2>2
<1> HIDE DEF zeros
<1>7. CeilDiv(n, w) = m
  <2> HIDE DEF n, m, w
  <2> QED BY <1>1, <1>2, <1>6, CeilOfWhole
<1>8. ChunkSamples(samples) = [c \in 1..m |-> PadChunk(Part(c))]
  BY <1>7 DEF ChunkSamples
<1> HIDE DEF Part
<1>9. ASSUME NEW c \in 1..m PROVE C[c] = PadChunk(Part(c))
  <2> DEFINE first == (c - 1) * w
             last == Last(c)
  <2>1. first \in Nat /\ c * w \in Nat /\ c * w = first + w
    BY <1>1
  <2>2. last \in Nat /\ last <= n /\ last = IF first + w <= n THEN first + w ELSE n
    BY <1>1, <2>1
  <2>3. Part(c) = SubSeq(samples, first + 1, last)
    BY DEF Part
  <2> HIDE DEF first, last, Last
  <2>4. ASSUME NEW i \in 1..w PROVE C[c][i] = PadChunk(Part(c))[i]
    <3> DEFINE k == first + i
    <3>1. /\ BitAt(c, i, w) \in 1..(m * w)
          /\ FieldOf(BitAt(c, i, w), w) = c /\ PlaceOfBit(BitAt(c, i, w), w) = i
      BY <1>1, BitAtField
    <3>2. BitAt(c, i, w) = k
      BY DEF BitAt, first
    <3>3. whole[k] = C[c][i]
      BY <3>1, <3>2 DEF Join, whole
    <3>4. C[c][i] = IF k <= n THEN samples[k] ELSE ZeroSample
      BY <1>6, <3>1, <3>2, <3>3
    <3>5. /\ i <= Len(Part(c)) <=> first + i <= last
          /\ first + i <= last => Part(c)[i] = samples[first + i]
      <4>1. i \in Nat \ {0}
        OBVIOUS
      <4>2. first \in Nat /\ last \in Nat /\ last <= Len(samples) /\ samples \in Seq(Sample)
        BY <2>1, <2>2
      <4> DEFINE part == SubSeq(samples, first + 1, last)
      <4>3. /\ i <= Len(part) <=> first + i <= last
            /\ first + i <= last => part[i] = samples[first + i]
        BY ONLY <4>1, <4>2, PartOfSamples
      <4> HIDE DEF part
      <4> QED BY ONLY <2>3, <4>3 DEF part
    <3>6. first + i <= last <=> k <= n
      BY <1>1, <2>1, <2>2
    <3>7. PadChunk(Part(c))[i] = IF i <= Len(Part(c)) THEN Part(c)[i] ELSE ZeroSample
      BY DEF PadChunk
    <3> QED BY <3>4, <3>5, <3>6, <3>7
  <2>5. Part(c) \in Seq(Sample)
    <3>1. 1 \in Nat \ {0}
      OBVIOUS
    <3> HIDE DEF n
    <3> QED BY <2>1, <2>2, <2>3, <3>1, PartOfSamples DEF n
  <2>6. C[c] \in [1..w -> Sample] /\ PadChunk(Part(c)) \in [1..w -> Sample]
    BY <2>5, PadChunkType DEF Chunk
  <2> DEFINE f == C[c]
             g == PadChunk(Part(c))
  <2>7. /\ f = [i \in 1..w |-> f[i]] /\ g = [i \in 1..w |-> g[i]]
        /\ \A i \in 1..w : f[i] = g[i]
    BY <2>4, <2>6
  <2> HIDE DEF f, g
  <2>8. f = g
    BY <2>7
  <2> QED BY <2>8 DEF f, g
<1>10. C = [c \in 1..m |-> PadChunk(Part(c))]
  <2>1. C = [c \in 1..m |-> C[c]]
    OBVIOUS
  <2> QED BY <1>9, <2>1
<1> QED BY <1>1, <1>2, <1>6, <1>8, <1>10

----------------------------------------------------------------------------
(* What ingest_packet does with a packet of the encoder.                   *)

(* A row with its split begun, before the packet is read.                  *)
Begun(R, pending, l_id, l_d) ==
  [dictionary    |-> R.dictionary,
   splits        |-> SplitsBefore(R, pending),
   current_split |-> <<SplitOf(R, pending, l_id, l_d)>>]

(* The bases known, and the pairs added to the current split.              *)
WithRead(c, known, pairs) ==
  [c EXCEPT !.dictionary = known, !.current_split[1].pairs = @ \o pairs]

(* ingest_packet, with the bases and pairs that it reads.                  *)
Taken(c, known, pairs, n) ==
  LET good == {k \in 0..n : \A i \in 1..k : IsAvailable(known, pairs[i].base_id)}
      taken == CHOOSE k \in good : \A m \in good : m <= k
      grown == WithRead(c, known, SubSeq(pairs, 1, taken))
  IN  IF taken = n THEN Ingested(grown) ELSE Refused(grown)

(* What is read is added to the split begun.                               *)
LEMMA AddedInPlace ==
  ASSUME NEW c, NEW dictionary, NEW splits, NEW split \in Split,
         c = [dictionary |-> dictionary, splits |-> splits, current_split |-> <<split>>],
         NEW known, NEW pairs \in Seq(Pair)
  PROVE  WithRead(c, known, pairs)
           = [dictionary |-> known, splits |-> splits,
              current_split |-> <<WithMore(split, pairs)>>]
<1> DEFINE longer == split.pairs \o pairs
           more == [split EXCEPT !.pairs = longer]
<1>1. more = WithMore(split, pairs)
  BY WithMoreType
<1>2. c.current_split[1].pairs \o pairs = longer
  OBVIOUS
<1> HIDE DEF longer
<1>3. [c EXCEPT !.dictionary = known, !.current_split[1].pairs = longer]
        = [dictionary |-> known, splits |-> splits, current_split |-> <<more>>]
  <2> DEFINE d == [c EXCEPT !.dictionary = known]
             one == <<split>>
  <2>1. [one EXCEPT ![1] = more] = <<more>> /\ one[1] = split
    <3> HIDE DEF more
    <3> QED OBVIOUS
  <2> HIDE DEF one
  <2>2. c = [dictionary |-> dictionary, splits |-> splits, current_split |-> one]
    BY DEF one
  <2>3. d = [dictionary |-> known, splits |-> splits, current_split |-> one]
    BY <2>2
  <2>4. [c EXCEPT !.dictionary = known, !.current_split[1].pairs = longer]
          = [d EXCEPT !.current_split[1].pairs = longer]
    OBVIOUS
  <2> HIDE DEF d
  <2>5. d.current_split = one /\ d.current_split[1] = split
    BY <2>1, <2>3
  <2>6. [d EXCEPT !.current_split[1].pairs = longer]
          = [d EXCEPT !.current_split = [one EXCEPT ![1] = more]]
    BY <2>5, Zenon
  <2>7. [d EXCEPT !.current_split = <<more>>]
          = [dictionary |-> known, splits |-> splits, current_split |-> <<more>>]
    <3> HIDE DEF more
    <3> QED BY <2>3
  <2> QED BY <2>1, <2>4, <2>6, <2>7, Zenon
<1>4. WithRead(c, known, pairs)
        = [c EXCEPT !.dictionary = known, !.current_split[1].pairs = longer]
  <2>1. WithRead(c, known, pairs)
          = [c EXCEPT !.dictionary = known,
                      !.current_split[1].pairs = c.current_split[1].pairs \o pairs]
    BY Zenon DEF WithRead
  <2> QED BY <1>2, <2>1, Zenon
<1> QED BY <1>1, <1>3, <1>4, Zenon

(* Pairs are taken until one names a base that is not there: all of them.  *)
LEMMA AllAreTaken ==
  ASSUME NEW n \in Nat, NEW good, good \in SUBSET (0..n), n \in good
  PROVE  (CHOOSE k \in good : \A m \in good : m <= k) = n
<1>1. \A m \in good : m <= n
  OBVIOUS
<1>2. \A k \in good : (\A m \in good : m <= k) => k = n
  <2>1. SUFFICES ASSUME NEW k \in good, \A m \in good : m <= k PROVE k = n
    OBVIOUS
  <2>2. k \in 0..n /\ n <= k
    BY <2>1
  <2> QED BY <2>2
<1>3. \E k \in good : \A m \in good : m <= k
  BY <1>1
<1> QED BY <1>2, <1>3

(* The pairs that are read are those that were pending.                    *)
LEMMA PairsAreRead ==
  ASSUME NEW pending \in Pending, NEW l_id \in Nat, NEW l_d \in 0..ChunkBitLen,
         FieldsFit(pending, l_id, l_d)
  PROVE  [i \in 1..Len(pending.pairs) |->
            [base_id |-> ReadValue(SubSeq(PairBits(pending, l_id)[i], 1, l_id)),
             deviation_bits |-> SubSeq(PairBits(pending, l_id)[i], l_id + 1, l_id + l_d)]]
           = pending.pairs
<1> DEFINE n == Len(pending.pairs)
           pairs == pending.pairs
           bits == PairBits(pending, l_id)
<1>1. pairs \in Seq(Pair) /\ n \in Nat /\ l_d \in Nat
  BY Geometry DEF Pending
<1>2. ASSUME NEW i \in 1..n
      PROVE  [base_id |-> ReadValue(SubSeq(bits[i], 1, l_id)),
              deviation_bits |-> SubSeq(bits[i], l_id + 1, l_id + l_d)] = pairs[i]
  <2> DEFINE pair == pairs[i]
             base_id == pair.base_id
             deviation_bits == pair.deviation_bits
  <2>1. pair \in Pair
    BY <1>1
  <2>2. /\ base_id \in Nat /\ base_id < Pow2[l_id] /\ deviation_bits \in BitString(l_d)
        /\ pair = [base_id |-> base_id, deviation_bits |-> deviation_bits]
    <3> HIDE DEF pair
    <3>1. base_id \in Nat /\ pair = [base_id |-> base_id, deviation_bits |-> deviation_bits]
      BY <2>1 DEF Pair
    <3> QED BY <3>1 DEF FieldsFit, pair
  <2>3. bits[i] = WriteValue(base_id, l_id) \o deviation_bits
    BY DEF PairBits
  <2> HIDE DEF base_id, deviation_bits, bits, pair
  <2>4. ReadsAs(bits[i], base_id, l_id, deviation_bits, l_d)
    BY <1>1, <2>2, <2>3, PairReadsBack
  <2> QED BY <2>2, <2>4, Zenon DEF ReadsAs, pair
<1> HIDE DEF bits
<1>3. [i \in 1..n |-> [base_id |-> ReadValue(SubSeq(bits[i], 1, l_id)),
                       deviation_bits |-> SubSeq(bits[i], l_id + 1, l_id + l_d)]]
        = [i \in 1..n |-> pairs[i]]
  BY <1>2
<1>4. [i \in 1..n |-> pairs[i]] = pairs
  BY <1>1
<1> QED BY <1>3, <1>4 DEF bits

(* The bases and pairs of the payload are those that were pending.         *)
LEMMA PayloadIsIngested ==
  ASSUME NEW R, NEW pending \in Pending, NEW l_id \in Nat, NEW l_d \in 0..ChunkBitLen,
         Fits(R, pending, l_id, l_d)
  PROVE  IngestPayload(Begun(R, pending, l_id, l_d), Packet(pending, l_id, l_d))
           = Ingested(Grown(R, pending, l_id, l_d))
<1> DEFINE c == Begun(R, pending, l_id, l_d)
           packet == Packet(pending, l_id, l_d)
           split == SplitOf(R, pending, l_id, l_d)
           splits == SplitsBefore(R, pending)
           m == Len(pending.new_bases)
           n == Len(pending.pairs)
           bits == PairBits(pending, l_id)
           known == R.dictionary \o pending.new_bases
           pairs == pending.pairs
           good == {k \in 0..n : \A i \in 1..k : IsAvailable(known, pairs[i].base_id)}
           grown == WithRead(c, known, pairs)
           read == Cut(packet.payload, packet.new_base_count * ChunkBitLen,
                       packet.chunk_count, c.current_split[1].l_id + c.current_split[1].l_d)
<1>1. /\ GoesWith(R, pending, l_id, l_d) /\ FieldsFit(pending, l_id, l_d)
      /\ \A i \in 1..n : pairs[i].base_id < Len(R.dictionary) + m
  BY Zenon DEF Fits
<1>2. /\ split \in Split /\ split.l_id = l_id /\ split.l_d = l_d
      /\ R \in Collected
  <2>1. GoesWith(R, pending, l_id, l_d)
    BY <1>1
  <2>2. R \in Collected
    BY <2>1, Zenon DEF GoesWith
  <2>3. split \in Split
    BY <2>1, WhereItGoes
  <2>4. split.l_id = l_id /\ split.l_d = l_d
    BY <2>1 DEF SplitOf, NewSplit, GoesWith
  <2> QED BY <2>2, <2>3, <2>4, Zenon
<1>3. /\ pairs \in Seq(Pair) /\ n \in Nat /\ pending.new_bases \in Seq(PackedBase)
      /\ R.dictionary \in Seq(PackedBase)
  BY <1>2, CollectedFields DEF Pending
<1>4. Len(known) = Len(R.dictionary) + m
  BY <1>3, ConcatProperties
<1>5. /\ Cut(Payload(pending, l_id, l_d), 0, m, ChunkBitLen) = pending.new_bases
      /\ Cut(Payload(pending, l_id, l_d), m * ChunkBitLen, n, l_id + l_d) = bits
  BY <1>1, PayloadLayout, Zenon
<1>6. /\ packet.payload = Payload(pending, l_id, l_d)
      /\ packet.new_base_count = m /\ packet.chunk_count = n
  BY PacketFields, Zenon
<1>7. [i \in 1..n |-> [base_id |-> ReadValue(SubSeq(bits[i], 1, l_id)),
                       deviation_bits |-> SubSeq(bits[i], l_id + 1, l_id + l_d)]]
        = pairs
  BY <1>1, PairsAreRead
<1> HIDE DEF split, splits, packet, bits, pairs, n, m
<1>8. /\ c = [dictionary |-> R.dictionary, splits |-> splits, current_split |-> <<split>>]
      /\ c.dictionary = R.dictionary /\ c.current_split[1] = split
  BY DEF Begun, split, splits
<1> HIDE DEF c, known
<1>9. n \in good
  BY <1>1, <1>3, <1>4 DEF IsAvailable
<1>10. (CHOOSE k \in good : \A j \in good : j <= k) = n
  <2>1. good \in SUBSET (0..n)
    OBVIOUS
  <2> HIDE DEF good
  <2> QED BY <1>3, <1>9, <2>1, AllAreTaken
<1> HIDE DEF good
<1>11. SubSeq(pairs, 1, n) = pairs
  BY <1>3 DEF n, pairs
<1> HIDE DEF grown
<1>12. IngestPayload(c, packet) = Ingested(grown)
  <2>1. IngestPayload(c, packet)
          = Taken(c, c.dictionary \o Cut(packet.payload, 0, packet.new_base_count, ChunkBitLen),
                  [i \in 1..packet.chunk_count |->
                     [base_id |-> ReadValue(SubSeq(read[i], 1, c.current_split[1].l_id)),
                      deviation_bits |->
                        SubSeq(read[i], c.current_split[1].l_id + 1,
                               c.current_split[1].l_id + c.current_split[1].l_d)]],
                  packet.chunk_count)
    BY Zenon DEF IngestPayload, Taken, WithRead
  <2>2. read = bits /\ c.current_split[1].l_id = l_id /\ c.current_split[1].l_d = l_d
    BY <1>2, <1>5, <1>6, <1>8
  <2>3. c.dictionary \o Cut(packet.payload, 0, packet.new_base_count, ChunkBitLen) = known
    BY <1>5, <1>6, <1>8 DEF known
  <2> HIDE DEF read
  <2>4. [i \in 1..packet.chunk_count |->
           [base_id |-> ReadValue(SubSeq(read[i], 1, c.current_split[1].l_id)),
            deviation_bits |->
              SubSeq(read[i], c.current_split[1].l_id + 1,
                     c.current_split[1].l_id + c.current_split[1].l_d)]]
          = pairs
    BY <1>6, <1>7, <2>2
  <2>5. IngestPayload(c, packet) = Taken(c, known, pairs, n)
    BY <1>6, <2>1, <2>3, <2>4, Zenon
  <2> QED BY <1>10, <1>11, <2>5, Zenon DEF grown, Taken, good
<1>13. grown = [dictionary |-> known, splits |-> splits,
                current_split |-> <<WithMore(split, pairs)>>]
  BY <1>2, <1>3, <1>8, AddedInPlace DEF grown
<1>14. grown = Grown(R, pending, l_id, l_d)
  BY <1>13, Zenon DEF Grown, known, splits, split, pairs
<1> QED BY <1>12, <1>14, Zenon DEF c, packet

(* A row with a split begun that has these widths.                         *)
Opened(R, l_id, l_d) ==
  [dictionary    |-> R.dictionary,
   splits        |-> CloseSplit(R).splits,
   current_split |-> <<NewSplit(l_id, l_d)>>]

(* Parameters are expected by c, and lead where they lead from R.          *)
AsGood(c, R) ==
  /\ c \in Collected /\ ~ MidSplit(c)
  /\ c.dictionary = R.dictionary
  /\ CloseSplit(c).splits = CloseSplit(R).splits

(* They do from R itself, if it expects parameters.                        *)
LEMMA AsGoodAsItself ==
  ASSUME NEW R \in Collected, MayBegin(R)
  PROVE  AsGood(R, R)
<1>1. ~ MidSplit(R)
  BY DEF MidSplit, HasPairs, MayBegin
<1> QED BY <1>1, Zenon DEF AsGood

(* With its split put away.                                                *)
LEMMA AsGoodWhenClosed ==
  ASSUME NEW c, NEW R, AsGood(c, R)
  PROVE  AsGood(CloseSplit(c), R)
<1> DEFINE closed == CloseSplit(c)
<1>1. c \in Collected /\ c.dictionary = R.dictionary
      /\ CloseSplit(c).splits = CloseSplit(R).splits
  BY Zenon DEF AsGood
<1>2. closed \in Collected /\ closed.dictionary = c.dictionary /\ ~ HasPairs(closed)
  BY <1>1, ClosedSplits, Zenon
<1> HIDE DEF closed
<1>3. CloseSplit(closed) = closed
  BY <1>2, ClosedSplits, Zenon
<1>4. ~ MidSplit(closed)
  BY <1>2, Zenon DEF MidSplit
<1>5. closed.splits = CloseSplit(R).splits
  BY <1>1 DEF closed
<1>6. AsGood(closed, R)
  BY <1>1, <1>2, <1>3, <1>4, <1>5, Zenon DEF AsGood
<1> QED BY <1>6 DEF closed

(* With another split begun.                                               *)
LEMMA AsGoodWhenOpened ==
  ASSUME NEW R \in Collected, NEW l_id \in Nat, NEW l_d \in 0..ChunkBitLen
  PROVE  AsGood(Opened(R, l_id, l_d), R)
<1> DEFINE opened == Opened(R, l_id, l_d)
           split == NewSplit(l_id, l_d)
           splits == CloseSplit(R).splits
<1>1. split \in Split /\ split.pairs = <<>>
  BY NewSplitType, Zenon
<1>2. splits \in Seq(Split)
  BY ClosedSplits, Zenon
<1>3. R.dictionary \in Seq(PackedBase)
  BY CollectedFields, Zenon
<1> HIDE DEF split, splits
<1>4. opened = [dictionary |-> R.dictionary, splits |-> splits, current_split |-> <<split>>]
  BY DEF Opened, split, splits
<1> HIDE DEF opened
<1>5. opened \in Collected
  BY <1>1, <1>2, <1>3, <1>4, CollectedFrom
<1>6. /\ opened.dictionary = R.dictionary /\ opened.splits = splits
      /\ opened.current_split[1] = split
  BY <1>4
<1>7. ~ HasPairs(opened)
  BY <1>1, <1>6, Zenon DEF HasPairs
<1>8. CloseSplit(opened) = opened /\ ~ MidSplit(opened)
  BY <1>5, <1>7, ClosedSplits, Zenon DEF MidSplit
<1> QED BY <1>5, <1>6, <1>8, Zenon DEF AsGood, opened, splits

(* What ingest_packet does once the split is begun.                        *)
Filling(c, packet) ==
  LET split == c.current_split[1]
  IN  IF \/ Len(split.pairs) + packet.chunk_count > ChunksPerSplit
         \/ Len(packet.payload)
              < packet.new_base_count * ChunkBitLen
                  + packet.chunk_count * (split.l_id + split.l_d)
      THEN Refused(c)
      ELSE IngestPayload(c, packet)

(* A collector begins a split with a packet's parameters, unless the ID    *)
(* width is one it refuses.                                                *)
LEMMA BeginsOrRefuses ==
  ASSUME NEW R \in Collected, NEW c, AsGood(c, R), NEW packet,
         NEW l_id \in Nat, NEW l_d \in 0..ChunkBitLen,
         packet.parameters_present, packet.parameters = <<l_id, l_d>>
  PROVE  \/ IngestPacket(c, packet) = Refused(CloseSplit(c)) /\ l_id > IdBits
         \/ IngestPacket(c, packet) = Filling(Opened(R, l_id, l_d), packet) /\ ~ (l_id > IdBits)
<1> DEFINE closed == CloseSplit(c)
           split == NewSplit(l_id, l_d)
           opened == Opened(R, l_id, l_d)
           current == [closed EXCEPT !.current_split
                         = <<NewSplit(packet.parameters[1], packet.parameters[2])>>]
<1>1. /\ Len(packet.parameters) = 2
      /\ packet.parameters[1] = l_id /\ packet.parameters[2] = l_d
  OBVIOUS
<1>2. ~ (l_d > ChunkBitLen)
  BY Geometry
<1>3. /\ c \in Collected /\ ~ MidSplit(c) /\ c.dictionary = R.dictionary
      /\ closed.splits = CloseSplit(R).splits
  BY Zenon DEF AsGood
<1>4. closed \in Collected /\ closed.dictionary = R.dictionary
  BY <1>3, ClosedSplits, Zenon
<1> HIDE DEF closed, split
<1>5. current = opened
  <2>1. closed = [dictionary |-> closed.dictionary, splits |-> closed.splits,
                  current_split |-> closed.current_split]
    BY <1>4, CollectedFields
  <2>2. current = [closed EXCEPT !.current_split = <<split>>]
    BY <1>1 DEF split
  <2>3. [closed EXCEPT !.current_split = <<split>>]
          = [dictionary |-> closed.dictionary, splits |-> closed.splits,
             current_split |-> <<split>>]
    BY <2>1
  <2> QED BY <1>3, <1>4, <2>2, <2>3, Zenon DEF Opened, split
<1>6. current.current_split # <<>>
  BY <1>5 DEF Opened
<1> HIDE DEF opened, current
<1>7. IngestPacket(c, packet)
        = IF Len(packet.parameters) < 2 \/ MidSplit(c) THEN Refused(c)
          ELSE IF (packet.parameters[1] > IdBits \/ packet.parameters[2] > ChunkBitLen)
                  \/ current.current_split = <<>>
               THEN Refused(closed)
               ELSE Filling(current, packet)
  BY Zenon DEF IngestPacket, Filling, closed, current
<1>8. ~ (Len(packet.parameters) < 2)
  BY <1>1
<1>9. IngestPacket(c, packet)
        = IF l_id > IdBits THEN Refused(closed) ELSE Filling(opened, packet)
  BY <1>1, <1>2, <1>3, <1>5, <1>6, <1>7, <1>8, Zenon
<1> QED BY <1>9, Zenon DEF closed, opened

(* A packet without parameters goes on with the split there is.            *)
LEMMA GoesOnOrRefuses ==
  ASSUME NEW c, c.current_split # <<>>, NEW packet, ~ packet.parameters_present
  PROVE  IngestPacket(c, packet) = Filling(c, packet)
BY Zenon DEF IngestPacket, Filling

(* A packet without both its parameters changes nothing.                   *)
LEMMA ParametersCutShort ==
  ASSUME NEW c, NEW packet, packet.parameters_present, Len(packet.parameters) < 2
  PROVE  IngestPacket(c, packet) = Refused(c)
BY Zenon DEF IngestPacket

(* Where the split of what is pending begins.                              *)
LEMMA BegunFrom ==
  ASSUME NEW R, NEW pending \in Pending, NEW l_id \in Nat, NEW l_d \in 0..ChunkBitLen,
         GoesWith(R, pending, l_id, l_d)
  PROVE  /\ pending.parameters_present =>
              Begun(R, pending, l_id, l_d) = Opened(R, l_id, l_d)
         /\ ~ pending.parameters_present =>
              Begun(R, pending, l_id, l_d) = R /\ R.current_split # <<>>
<1>1. R \in Collected
  BY Zenon DEF GoesWith
<1>2. CASE pending.parameters_present
  BY <1>2, Zenon DEF Begun, Opened, SplitOf, SplitsBefore
<1>3. CASE ~ pending.parameters_present
  <2> DEFINE split == R.current_split[1]
  <2>1. R.current_split # <<>>
    BY <1>3, Zenon DEF GoesWith
  <2>2. /\ R.current_split = <<split>>
        /\ R = [dictionary |-> R.dictionary, splits |-> R.splits,
                current_split |-> R.current_split]
    BY <1>1, <2>1, CollectedFields, Zenon
  <2>3. SplitOf(R, pending, l_id, l_d) = split /\ SplitsBefore(R, pending) = R.splits
    BY <1>3, Zenon DEF SplitOf, SplitsBefore
  <2> HIDE DEF split
  <2>4. Begun(R, pending, l_id, l_d) = R
    BY <2>2, <2>3, Zenon DEF Begun
  <2> QED BY <1>3, <2>1, <2>4, Zenon
<1> QED BY <1>2, <1>3

(* The bits that the fields of a packet take.                              *)
BitsOf(pending, l_id, l_d) ==
  Len(pending.new_bases) * ChunkBitLen + Len(pending.pairs) * (l_id + l_d)

(* The split begun is filled by a packet that is whole, and left as it is  *)
(* by one that is too short.                                               *)
LEMMA FillsOrLeaves ==
  ASSUME NEW R, NEW pending \in Pending, NEW l_id \in Nat, NEW l_d \in 0..ChunkBitLen,
         Fits(R, pending, l_id, l_d), NEW packet,
         packet.new_base_count = Len(pending.new_bases),
         packet.chunk_count = Len(pending.pairs)
  PROVE  /\ packet = Packet(pending, l_id, l_d) =>
              Filling(Begun(R, pending, l_id, l_d), packet)
                = Ingested(Grown(R, pending, l_id, l_d))
         /\ Len(packet.payload) < BitsOf(pending, l_id, l_d) =>
              Filling(Begun(R, pending, l_id, l_d), packet)
                = Refused(Begun(R, pending, l_id, l_d))
<1> DEFINE c == Begun(R, pending, l_id, l_d)
           split == SplitOf(R, pending, l_id, l_d)
           need == BitsOf(pending, l_id, l_d)
           m == Len(pending.new_bases)
           n == Len(pending.pairs)
<1>1. /\ GoesWith(R, pending, l_id, l_d) /\ FieldsFit(pending, l_id, l_d)
      /\ Len(split.pairs) + n <= ChunksPerSplit
  BY Zenon DEF Fits
<1>2. split \in Split
  BY <1>1, WhereItGoes
<1>3. split.l_id = l_id /\ split.l_d = l_d
  BY <1>1 DEF SplitOf, NewSplit, GoesWith
<1>4. Len(split.pairs) \in Nat /\ n \in Nat
  <2>1. split.pairs \in Seq(Pair) /\ pending.pairs \in Seq(Pair)
    BY <1>2, SplitFields, Zenon DEF Pending
  <2> QED BY <2>1, LenProperties, Zenon
<1> HIDE DEF split
<1>5. c.current_split[1] = split
  BY DEF Begun, split
<1>6. ~ (Len(split.pairs) + n > ChunksPerSplit)
  <2> DEFINE k == Len(split.pairs)
  <2>1. k \in Nat /\ n \in Nat /\ k + n <= ChunksPerSplit
    BY <1>1, <1>4
  <2> HIDE DEF k, n
  <2>2. ~ (k + n > ChunksPerSplit)
    BY <2>1, Constants
  <2> QED BY <2>2 DEF k
<1>7. need = m * ChunkBitLen + n * (split.l_id + split.l_d)
  BY <1>3, Zenon DEF BitsOf
<1> HIDE DEF need, m, n
<1> HIDE DEF c
<1>8. packet.new_base_count = m /\ packet.chunk_count = n
  BY DEF m, n
<1>9. Filling(c, packet) = IF Len(packet.payload) < need THEN Refused(c)
                           ELSE IngestPayload(c, packet)
  BY <1>5, <1>6, <1>7, <1>8, Zenon DEF Filling
<1>10. ASSUME packet = Packet(pending, l_id, l_d)
       PROVE  Filling(c, packet) = Ingested(Grown(R, pending, l_id, l_d))
  <2>1. LongEnough(Payload(pending, l_id, l_d), need)
    BY <1>1, PayloadIsLongEnough, Zenon DEF need, BitsOf
  <2>2. packet.payload = Payload(pending, l_id, l_d)
    BY <1>10, PacketFields, Zenon
  <2>3. ~ (Len(packet.payload) < need)
    BY <2>1, <2>2 DEF LongEnough
  <2>4. IngestPayload(c, packet) = Ingested(Grown(R, pending, l_id, l_d))
    BY <1>10, PayloadIsIngested, Zenon DEF c
  <2> QED BY <1>9, <2>3, <2>4, Zenon
<1>11. Len(packet.payload) < need => Filling(c, packet) = Refused(c)
  BY <1>9, Zenon
<1> QED BY <1>10, <1>11, Zenon DEF c, need

(* The collector is where it can take the next packet.                     *)
Waits(c, R, present) == IF present THEN AsGood(c, R) ELSE c = R

(* A whole packet is gathered, or refused for its ID width and nothing     *)
(* else.                                                                   *)
LEMMA WholeIngests ==
  ASSUME NEW R, NEW pending \in Pending, NEW l_id \in Nat, NEW l_d \in 0..ChunkBitLen,
         Fits(R, pending, l_id, l_d),
         NEW c, Waits(c, R, pending.parameters_present),
         NEW packet, packet = Packet(pending, l_id, l_d)
  PROVE  \/ IngestPacket(c, packet) = Ingested(Grown(R, pending, l_id, l_d))
         \/ /\ IngestPacket(c, packet) = Refused(CloseSplit(c))
            /\ pending.parameters_present /\ l_id > IdBits
<1>1. GoesWith(R, pending, l_id, l_d) /\ R \in Collected
  BY Zenon DEF Fits, GoesWith
<1>2. /\ packet.parameters_present = pending.parameters_present
      /\ packet.new_base_count = Len(pending.new_bases)
      /\ packet.chunk_count = Len(pending.pairs)
  BY PacketFields, Zenon
<1>3. Filling(Begun(R, pending, l_id, l_d), packet) = Ingested(Grown(R, pending, l_id, l_d))
  BY <1>2, FillsOrLeaves, Zenon
<1>4. CASE pending.parameters_present
  <2>1. AsGood(c, R)
    BY <1>4, Zenon DEF Waits
  <2>2. packet.parameters = <<l_id, l_d>> /\ packet.parameters_present
    BY <1>2, <1>4, PacketParameters, Zenon
  <2>3. Begun(R, pending, l_id, l_d) = Opened(R, l_id, l_d)
    BY <1>1, <1>4, BegunFrom, Zenon
  <2>4. \/ IngestPacket(c, packet) = Refused(CloseSplit(c)) /\ l_id > IdBits
        \/ IngestPacket(c, packet) = Filling(Opened(R, l_id, l_d), packet)
    BY <1>1, <2>1, <2>2, BeginsOrRefuses, Zenon
  <2> QED BY <1>3, <1>4, <2>3, <2>4, Zenon
<1>5. CASE ~ pending.parameters_present
  <2>1. Begun(R, pending, l_id, l_d) = R /\ R.current_split # <<>>
    BY <1>1, <1>5, BegunFrom, Zenon
  <2>2. c = R /\ ~ packet.parameters_present
    BY <1>2, <1>5, Zenon DEF Waits
  <2>3. IngestPacket(c, packet) = Filling(c, packet)
    BY <2>1, <2>2, GoesOnOrRefuses, Zenon
  <2> QED BY <1>3, <2>1, <2>2, <2>3, Zenon
<1> QED BY <1>4, <1>5

(* A copy cut short is refused, and the collector can still take the whole *)
(* packet.                                                                 *)
LEMMA ShortIngests ==
  ASSUME NEW R, NEW pending \in Pending, NEW l_id \in Nat, NEW l_d \in 0..ChunkBitLen,
         Fits(R, pending, l_id, l_d), Packet(pending, l_id, l_d) \in StreamPacket,
         NEW c, Waits(c, R, pending.parameters_present),
         NEW copy \in ShortCopies(Packet(pending, l_id, l_d))
  PROVE  \E after : /\ IngestPacket(c, copy) = Refused(after)
                    /\ Waits(after, R, pending.parameters_present)
<1> DEFINE packet == Packet(pending, l_id, l_d)
           need == BitsOf(pending, l_id, l_d)
           begun == Begun(R, pending, l_id, l_d)
<1>1. GoesWith(R, pending, l_id, l_d) /\ R \in Collected /\ FieldsFit(pending, l_id, l_d)
  BY Zenon DEF Fits, GoesWith
<1>2. LongEnough(packet.payload, need)
  BY <1>1, PayloadIsLongEnough, PacketFields, Zenon DEF BitsOf
<1>3. PICK length \in 1..(PacketLen(packet) - 1) : copy = CutShort(packet, length)
  BY DEF ShortCopies
<1>4. /\ copy.parameters_present = packet.parameters_present
      /\ copy.new_base_count = packet.new_base_count
      /\ copy.chunk_count = packet.chunk_count
  BY <1>3, ShortCopyFields, Zenon
<1>5. /\ packet.parameters_present = pending.parameters_present
      /\ packet.new_base_count = Len(pending.new_bases)
      /\ packet.chunk_count = Len(pending.pairs)
  BY PacketFields, Zenon
<1>6. /\ pending.parameters_present => packet.parameters = <<l_id, l_d>>
      /\ ~ pending.parameters_present => packet.parameters = <<>>
  BY PacketParameters, Zenon
<1>7. copy.parameters \in Seq(Nat)
  <2>1. copy.parameters
          = SubSeq(packet.parameters, 1, IF length - 1 < Len(packet.parameters)
                                         THEN length - 1 ELSE Len(packet.parameters))
    BY <1>3, ShortCopyFields, Zenon
  <2>2. packet.parameters \in Seq(Nat)
    BY DEF StreamPacket
  <2> HIDE DEF packet
  <2> QED BY <1>3, <2>1, <2>2
<1> HIDE DEF packet
<1>8. \/ Len(copy.parameters) < Len(packet.parameters)
      \/ copy.parameters = packet.parameters /\ Len(copy.payload) < need
  <2> HIDE DEF need
  <2> QED BY <1>2, <1>3, WhatIsCutShort DEF packet
<1>9. Len(copy.payload) < need => Filling(begun, copy) = Refused(begun)
  BY <1>4, <1>5, FillsOrLeaves, Zenon
<1> HIDE DEF need, begun
<1>10. CASE pending.parameters_present
  <2>1. copy.parameters_present /\ AsGood(c, R)
    BY <1>4, <1>5, <1>10, Zenon DEF Waits
  <2>2. CASE Len(copy.parameters) < Len(packet.parameters)
    <3>1. Len(copy.parameters) < 2
      BY <1>6, <1>10, <2>2
    <3>2. IngestPacket(c, copy) = Refused(c)
      BY <2>1, <3>1, ParametersCutShort, Zenon
    <3> QED BY <3>2, Zenon
  <2>3. CASE copy.parameters = packet.parameters /\ Len(copy.payload) < need
    <3>1. copy.parameters = <<l_id, l_d>>
      BY <1>6, <1>10, <2>3
    <3>2. \/ IngestPacket(c, copy) = Refused(CloseSplit(c)) /\ l_id > IdBits
          \/ IngestPacket(c, copy) = Filling(Opened(R, l_id, l_d), copy)
      BY <1>1, <2>1, <3>1, BeginsOrRefuses, Zenon
    <3>3. begun = Opened(R, l_id, l_d)
      BY <1>1, <1>10, BegunFrom, Zenon DEF begun
    <3>4. AsGood(CloseSplit(c), R) /\ AsGood(begun, R)
      BY <1>1, <2>1, <3>3, AsGoodWhenClosed, AsGoodWhenOpened, Zenon
    <3> QED BY <1>9, <1>10, <2>3, <3>2, <3>3, <3>4, Zenon DEF Waits
  <2> QED BY <1>8, <2>2, <2>3
<1>11. CASE ~ pending.parameters_present
  <2>1. ~ copy.parameters_present
    BY <1>4, <1>5, <1>11
  <2>2. begun = R /\ R.current_split # <<>>
    BY <1>1, <1>11, BegunFrom, Zenon DEF begun
  <2>3. c = R
    BY <1>11, Zenon DEF Waits
  <2>4. Len(copy.payload) < need
    <3>1. Len(packet.parameters) = 0 /\ Len(copy.parameters) \in Nat
      BY <1>6, <1>7, <1>11
    <3> QED BY <1>8, <3>1
  <2>5. IngestPacket(c, copy) = Filling(c, copy)
    BY <2>1, <2>2, <2>3, GoesOnOrRefuses, Zenon
  <2>6. IngestPacket(c, copy) = Refused(c)
    BY <1>9, <2>2, <2>3, <2>4, <2>5, Zenon
  <2> QED BY <2>6, Zenon
<1> QED BY <1>10, <1>11

----------------------------------------------------------------------------
(* Steps of the collector and its encoder.                                 *)

(* The collector is at the row that follows the packets it ingested, or,   *)
(* after a copy cut short of a packet with parameters, as good as there.   *)
Collecting(rows) ==
  \/ collector = rows[delivered + 1]
  \/ /\ InFlight /\ NextPacket.parameters_present
     /\ AsGood(collector, rows[delivered + 1])

CollectorInv ==
  /\ EncoderInv /\ delivered \in 0..Len(emitted)
  /\ \E rows, C : Gathering(rows, C) /\ Collecting(rows)

(* The log of what has been returned, while nothing waits to be returned.  *)
LEMMA LogOfEmitted ==
  ASSUME EncoderInv, NEW rows, NEW C, Gathering(rows, C)
  PROVE  /\ emitted \in Seq(StreamPacket) /\ Len(emitted) \in Nat
         /\ Log(emitted, rows) /\ Follows(encoder, rows[Len(rows)])
         /\ rows \in Seq(Collected) /\ Len(rows) = Len(emitted) + 1
<1>1. emitted \in Seq(StreamPacket) /\ encoder.ready = <<>>
  BY Zenon DEF EncoderInv, Between
<1>2. emitted \o encoder.ready = emitted /\ Len(emitted) \in Nat
  BY <1>1, ConcatEmptySeq, LenProperties
<1>3. PICK c : Amounts(emitted, encoder, rows, c)
  BY Zenon DEF Gathering, Gathers
<1>4. Log(emitted, rows) /\ Follows(encoder, rows[Len(rows)])
  BY <1>2, <1>3, Zenon DEF Amounts
<1>5. rows \in Seq(Collected) /\ Len(rows) = Len(emitted) + 1
  BY <1>4, Zenon DEF Log
<1> QED BY <1>1, <1>2, <1>4, <1>5

(* What the next packet is made of, and how the collector awaits it.       *)
Awaits(rows, pending, l_id, l_d) ==
  /\ NextPacket = Packet(pending, l_id, l_d)
  /\ NextPacket.parameters_present = pending.parameters_present
  /\ Fits(rows[delivered + 1], pending, l_id, l_d)
  /\ rows[(delivered + 1) + 1] = Grown(rows[delivered + 1], pending, l_id, l_d)
  /\ Waits(collector, rows[delivered + 1], pending.parameters_present)

LEMMA NextIsAwaited ==
  ASSUME EncoderInv, NEW rows, NEW C, Gathering(rows, C), Collecting(rows),
         delivered \in 0..Len(emitted), InFlight
  PROVE  /\ NextPacket \in StreamPacket
         /\ \E pending \in Pending, l_id \in Nat, l_d \in 0..ChunkBitLen :
              Awaits(rows, pending, l_id, l_d)
<1> DEFINE R == rows[delivered + 1]
<1>1. emitted \in Seq(StreamPacket) /\ Len(emitted) \in Nat /\ Log(emitted, rows)
  BY LogOfEmitted, Zenon
<1>2. delivered + 1 \in 1..Len(emitted)
  BY <1>1 DEF InFlight
<1>3. NextPacket \in StreamPacket
  BY <1>1, <1>2 DEF NextPacket
<1>4. LeadsTo(NextPacket, R, rows[(delivered + 1) + 1])
  BY <1>1, <1>2, Zenon DEF Log, NextPacket
<1> HIDE DEF R
<1>5. PICK pending \in Pending, l_id \in Nat, l_d \in 0..ChunkBitLen :
        /\ NextPacket = Packet(pending, l_id, l_d)
        /\ Fits(R, pending, l_id, l_d)
        /\ rows[(delivered + 1) + 1] = Grown(R, pending, l_id, l_d)
  BY <1>4, Zenon DEF LeadsTo
<1>6. NextPacket.parameters_present = pending.parameters_present
  BY <1>5, PacketFields, Zenon
<1>7. R \in Collected /\ (pending.parameters_present => MayBegin(R))
  BY <1>5, Zenon DEF Fits, GoesWith
<1>8. \/ collector = R
      \/ NextPacket.parameters_present /\ AsGood(collector, R)
  BY Zenon DEF Collecting, R
<1>9. Waits(collector, R, pending.parameters_present)
  <2>1. CASE pending.parameters_present
    <3>1. AsGood(R, R)
      BY <1>7, <2>1, AsGoodAsItself, Zenon
    <3>2. AsGood(collector, R)
      BY <1>8, <3>1, Zenon
    <3> QED BY <2>1, <3>2, Zenon DEF Waits
  <2>2. CASE ~ pending.parameters_present
    <3>1. ~ NextPacket.parameters_present
      BY <1>6, <2>2
    <3> QED BY <1>8, <2>2, <3>1, Zenon DEF Waits
  <2> QED BY <2>1, <2>2
<1>10. Awaits(rows, pending, l_id, l_d)
  BY <1>5, <1>6, <1>9, Zenon DEF Awaits, R
<1> QED BY <1>3, <1>10, Zenon

(* A step of the collector: it waits for the same packet, or for the next. *)
Collects(rows) ==
  /\ Collecting(rows)'
  /\ delivered' \in 0..Len(emitted)

(* What ingesting a packet does to the variables.                          *)
LEMMA IngestSets ==
  ASSUME NEW packet, Ingest(packet), NEW c, NEW ok, IngestPacket(collector, packet)
           = [collector |-> c, ok |-> ok]
  PROVE  collector' = c /\ ingested' = ok
<1>1. IngestPacket(collector, packet).collector = c /\ IngestPacket(collector, packet).ok = ok
  <2> DEFINE result == IngestPacket(collector, packet)
  <2> HIDE DEF result
  <2>1. result = [collector |-> c, ok |-> ok]
    BY Zenon DEF result
  <2>2. result.collector = c /\ result.ok = ok
    BY <2>1
  <2> QED BY <2>2, Zenon DEF result
<1> QED BY <1>1, Zenon DEF Ingest

(* The collector that waits on after a refusal.                            *)
LEMMA StillWaits ==
  ASSUME NEW rows, NEW pending \in Pending, NEW l_id, NEW l_d, InFlight,
         NextPacket.parameters_present = pending.parameters_present,
         delivered' = delivered, emitted' = emitted,
         Waits(collector', rows[delivered + 1], pending.parameters_present)
  PROVE  Collecting(rows)'
<1>1. CASE pending.parameters_present
  <2>1. NextPacket.parameters_present /\ AsGood(collector', rows[delivered + 1])
    BY <1>1, Zenon DEF Waits
  <2> QED BY <2>1, Zenon DEF Collecting, InFlight, NextPacket
<1>2. CASE ~ pending.parameters_present
  <2>1. collector' = rows[delivered + 1]
    BY <1>2, Zenon DEF Waits
  <2> QED BY <2>1, Zenon DEF Collecting
<1> QED BY <1>1, <1>2

(* Delivering a packet takes the collector to the next row, or it waits.   *)
LEMMA DeliverCollects ==
  ASSUME EncoderInv, NEW rows, NEW C, Gathering(rows, C), Collecting(rows),
         delivered \in 0..Len(emitted), Deliver
  PROVE  Collects(rows)
<1> DEFINE R == rows[delivered + 1]
<1>1. /\ InFlight /\ Ingest(NextPacket) /\ UNCHANGED encoderVars
      /\ delivered' = IF ingested' THEN delivered + 1 ELSE delivered
  BY DEF Deliver
<1>2. emitted' = emitted /\ Len(emitted) \in Nat
  BY <1>1, LogOfEmitted, Zenon DEF encoderVars
<1>3. PICK pending \in Pending, l_id \in Nat, l_d \in 0..ChunkBitLen :
        Awaits(rows, pending, l_id, l_d)
  BY <1>1, NextIsAwaited, Zenon
<1>4. /\ NextPacket = Packet(pending, l_id, l_d)
      /\ NextPacket.parameters_present = pending.parameters_present
      /\ Fits(R, pending, l_id, l_d)
      /\ rows[(delivered + 1) + 1] = Grown(R, pending, l_id, l_d)
      /\ Waits(collector, R, pending.parameters_present)
  BY <1>3, Zenon DEF Awaits
<1> HIDE DEF R
<1>5. \/ IngestPacket(collector, NextPacket) = Ingested(Grown(R, pending, l_id, l_d))
      \/ /\ IngestPacket(collector, NextPacket) = Refused(CloseSplit(collector))
         /\ pending.parameters_present
  BY <1>4, WholeIngests
<1>6. CASE IngestPacket(collector, NextPacket) = Ingested(Grown(R, pending, l_id, l_d))
  <2>1. collector' = Grown(R, pending, l_id, l_d) /\ ingested' = TRUE
    BY <1>1, <1>6, IngestSets, Zenon DEF Ingested
  <2>2. delivered' = delivered + 1
    BY <1>1, <2>1
  <2>3. Collecting(rows)'
    BY <1>4, <2>1, <2>2, Zenon DEF Collecting
  <2>4. delivered' \in 0..Len(emitted)
    BY <1>1, <1>2, <2>2 DEF InFlight
  <2> QED BY <2>3, <2>4, Zenon DEF Collects
<1>7. CASE /\ IngestPacket(collector, NextPacket) = Refused(CloseSplit(collector))
           /\ pending.parameters_present
  <2>1. collector' = CloseSplit(collector) /\ ingested' = FALSE
    BY <1>1, <1>7, IngestSets, Zenon DEF Refused
  <2>2. delivered' = delivered
    BY <1>1, <2>1
  <2>3. AsGood(CloseSplit(collector), R)
    BY <1>4, <1>7, AsGoodWhenClosed, Zenon DEF Waits
  <2>4. Waits(collector', R, pending.parameters_present)
    BY <1>7, <2>1, <2>3, Zenon DEF Waits
  <2>5. Collecting(rows)'
    BY <1>1, <1>2, <1>4, <2>2, <2>4, StillWaits, Zenon DEF R
  <2> QED BY <2>2, <2>5, Zenon DEF Collects
<1> QED BY <1>5, <1>6, <1>7

(* A copy cut short leaves it waiting.                                     *)
LEMMA DeliverShortCollects ==
  ASSUME EncoderInv, NEW rows, NEW C, Gathering(rows, C), Collecting(rows),
         delivered \in 0..Len(emitted), DeliverShort
  PROVE  Collects(rows)
<1> DEFINE R == rows[delivered + 1]
<1>1. /\ InFlight /\ UNCHANGED encoderVars
      /\ delivered' = IF ingested' THEN delivered + 1 ELSE delivered
  BY DEF DeliverShort
<1>2. PICK copy \in ShortCopies(NextPacket) : Ingest(copy)
  BY DEF DeliverShort
<1>3. emitted' = emitted
  BY <1>1, Zenon DEF encoderVars
<1>4. PICK pending \in Pending, l_id \in Nat, l_d \in 0..ChunkBitLen :
        Awaits(rows, pending, l_id, l_d)
  BY <1>1, NextIsAwaited, Zenon
<1>5. /\ NextPacket = Packet(pending, l_id, l_d)
      /\ NextPacket.parameters_present = pending.parameters_present
      /\ Fits(R, pending, l_id, l_d)
      /\ Waits(collector, R, pending.parameters_present)
  BY <1>4, Zenon DEF Awaits
<1>6. /\ Packet(pending, l_id, l_d) \in StreamPacket
      /\ copy \in ShortCopies(Packet(pending, l_id, l_d))
  BY <1>1, <1>2, <1>5, NextIsAwaited, Zenon
<1> HIDE DEF R
<1>7. PICK after : /\ IngestPacket(collector, copy) = Refused(after)
                   /\ Waits(after, R, pending.parameters_present)
  BY <1>5, <1>6, ShortIngests
<1>8. collector' = after /\ ingested' = FALSE
  BY <1>2, <1>7, IngestSets, Zenon DEF Refused
<1>9. delivered' = delivered
  BY <1>1, <1>8
<1>10. Collecting(rows)'
  BY <1>1, <1>3, <1>5, <1>7, <1>8, <1>9, StillWaits, Zenon DEF R
<1> QED BY <1>9, <1>10, Zenon DEF Collects

(* Deliveries leave the encoder and its log alone.                         *)
LEMMA EncoderIsLeft ==
  ASSUME EncoderInv, NEW rows, NEW C, Gathering(rows, C), UNCHANGED encoderVars
  PROVE  EncoderInv' /\ Gathering(rows, C)' /\ emitted' = emitted
<1>1. encoder' = encoder /\ phase' = phase /\ pushed' = pushed /\ emitted' = emitted
  BY DEF encoderVars
<1>2. EncoderInv'
  BY <1>1, Zenon DEF EncoderInv
<1>3. Gathering(rows, C)'
  BY <1>1, Zenon DEF Gathering, Accounts
<1> QED BY <1>1, <1>2, <1>3

(* Where the collector is does not change when the encoder goes on.        *)
LEMMA EncodeLeavesCollector ==
  ASSUME EncoderInv, NEW rows, NEW C, Gathering(rows, C), Collecting(rows),
         delivered \in 0..Len(emitted), Encode
  PROVE  CollectorInv'
<1> DEFINE R == rows[delivered + 1]
<1>1. /\ EncoderNext /\ collector' = collector /\ delivered' = delivered
  BY DEF Encode, collectorVars
<1>2. EncoderInv'
  BY <1>1, NextPreserves
<1>3. /\ Continues(emitted, emitted')
      /\ \E rows2, C2 : Continues(rows, rows2) /\ Gathering(rows2, C2)'
  BY <1>1, NextGathers, Zenon
<1>4. PICK rows2, C2 : Continues(rows, rows2) /\ Gathering(rows2, C2)'
  BY <1>3, Zenon
<1>5. /\ Len(emitted) \in Nat /\ Len(rows) = Len(emitted) + 1
  BY LogOfEmitted, Zenon
<1>6. Len(emitted') \in Nat
  <2>1. emitted' \in Seq(StreamPacket)
    BY <1>2, Zenon DEF EncoderInv
  <2> QED BY <2>1, LenProperties
<1>7. rows2[delivered + 1] = R
  BY <1>4, <1>5 DEF Continues
<1> HIDE DEF R
<1>8. /\ delivered \in 0..Len(emitted')
      /\ InFlight => delivered < Len(emitted') /\ emitted'[delivered + 1] = NextPacket
  BY <1>3, <1>5, <1>6 DEF Continues, InFlight, NextPacket
<1>9. InFlight => InFlight' /\ NextPacket' = NextPacket
  BY <1>1, <1>8, Zenon DEF InFlight, NextPacket
<1>10. \/ collector = R
       \/ InFlight /\ NextPacket.parameters_present /\ AsGood(collector, R)
  BY Zenon DEF Collecting, R
<1>11. Collecting(rows2)'
  <2> HIDE DEF InFlight, NextPacket
  <2> QED BY <1>1, <1>7, <1>9, <1>10, Zenon DEF Collecting
<1> QED BY <1>1, <1>2, <1>4, <1>8, <1>11, Zenon DEF CollectorInv

(* At first there is nothing to collect.                                   *)
LEMMA InitCollects == Init => CollectorInv
<1> SUFFICES ASSUME Init PROVE CollectorInv
  OBVIOUS
<1> DEFINE rows == <<NewCollector>>
<1>1. EncoderInit /\ CollectorInit /\ delivered = 0 /\ emitted = <<>>
  BY DEF Init, EncoderInit
<1>2. EncoderInv /\ Gathering(rows, <<>>)
  BY <1>1, InitEstablishes, InitGathers, Zenon
<1>3. delivered \in 0..Len(emitted) /\ rows[delivered + 1] = NewCollector
  BY <1>1
<1> HIDE DEF rows
<1>4. Collecting(rows)
  BY <1>1, <1>3, Zenon DEF Collecting, CollectorInit
<1> QED BY <1>2, <1>3, <1>4, Zenon DEF CollectorInv

(* Every step preserves the invariant.                                     *)
LEMMA CollectorNextPreserves == CollectorInv /\ [Next]_vars => CollectorInv'
<1> SUFFICES ASSUME CollectorInv, [Next]_vars PROVE CollectorInv'
  OBVIOUS
<1>1. EncoderInv /\ delivered \in 0..Len(emitted)
  BY Zenon DEF CollectorInv
<1>2. PICK rows, C : Gathering(rows, C) /\ Collecting(rows)
  BY Zenon DEF CollectorInv
<1>3. CASE Encode
  BY <1>1, <1>2, <1>3, EncodeLeavesCollector, Zenon
<1>4. CASE Deliver \/ DeliverShort
  <2>1. Collects(rows)
    BY <1>1, <1>2, <1>4, DeliverCollects, DeliverShortCollects, Zenon
  <2>2. UNCHANGED encoderVars
    BY <1>4 DEF Deliver, DeliverShort
  <2>3. EncoderInv' /\ Gathering(rows, C)' /\ emitted' = emitted
    BY <1>1, <1>2, <2>2, EncoderIsLeft, Zenon
  <2> QED BY <2>1, <2>3, Zenon DEF CollectorInv, Collects
<1>5. CASE UNCHANGED vars
  <2>1. UNCHANGED encoderVars /\ collector' = collector /\ delivered' = delivered
    BY <1>5 DEF vars, collectorVars
  <2>2. EncoderInv' /\ Gathering(rows, C)' /\ emitted' = emitted
    BY <1>1, <1>2, <2>1, EncoderIsLeft, Zenon
  <2>3. Collecting(rows)'
    BY <1>2, <2>1, <2>2, Zenon DEF Collecting, InFlight, NextPacket
  <2> QED BY <1>1, <2>1, <2>2, <2>3, Zenon DEF CollectorInv
<1> QED BY <1>3, <1>4, <1>5 DEF Next

(* The collector is always where the packets it ingested end, or as good   *)
(* as there for the packet it waits for.                                   *)
THEOREM CollectorFollowsEncoder == Spec => []CollectorInv
BY InitCollects, CollectorNextPreserves, PTL DEF Spec

----------------------------------------------------------------------------
(* Whole packets.                                                          *)

(* The packets keep telling what was pushed.                               *)
LEMMA StepTellsEverything == TellsEverything /\ [Next]_vars => TellsEverything'
<1> SUFFICES ASSUME TellsEverything, [Next]_vars PROVE TellsEverything'
  OBVIOUS
<1>1. [EncoderNext]_encoderVars
  BY DEF Next, vars, Encode, Deliver, DeliverShort
<1> QED BY <1>1, NextTellsEverything, Zenon

(* The packet in flight is ingested if its ID width is one collectors know. *)
LEMMA CollectedNow ==
  CollectorInv /\ TellsEverything => (IdsSuffice => WholePacketsAreCollected)
<1> SUFFICES ASSUME CollectorInv, TellsEverything, IdsSuffice, InFlight
             PROVE  IngestPacket(collector, NextPacket).ok
  BY DEF WholePacketsAreCollected
<1>1. EncoderInv /\ delivered \in 0..Len(emitted)
  BY Zenon DEF CollectorInv
<1>2. PICK rows, C : Gathering(rows, C) /\ Collecting(rows)
  BY Zenon DEF CollectorInv
<1>3. PICK pending \in Pending, l_id \in Nat, l_d \in 0..ChunkBitLen :
        Awaits(rows, pending, l_id, l_d)
  BY <1>1, <1>2, NextIsAwaited, Zenon
<1> DEFINE R == rows[delivered + 1]
<1>4. /\ NextPacket = Packet(pending, l_id, l_d)
      /\ Fits(R, pending, l_id, l_d)
      /\ Waits(collector, R, pending.parameters_present)
  BY <1>3, Zenon DEF Awaits
<1> HIDE DEF R
<1>5. \/ IngestPacket(collector, NextPacket) = Ingested(Grown(R, pending, l_id, l_d))
      \/ pending.parameters_present /\ l_id > IdBits
  BY <1>4, WholeIngests
<1>6. ASSUME pending.parameters_present, l_id > IdBits PROVE FALSE
  <2>1. Len(emitted) \in Nat
    BY <1>1, <1>2, LogOfEmitted, Zenon
  <2>2. delivered + 1 \in 1..Len(emitted)
    BY <1>1, <2>1 DEF InFlight
  <2>3. emitted[delivered + 1] = Packet(pending, l_id, l_d)
    BY <1>4 DEF NextPacket
  <2>4. l_id <= encoder.l_id
    BY <1>6, <2>2, <2>3, AnnouncedWidths, Zenon
  <2>5. encoder.l_id <= IdBits
    BY <1>1, NarrowWhileIdsSuffice, Zenon
  <2>6. encoder.l_id \in Nat /\ IdBits \in Nat
    <3>1. encoder \in Encoder
      BY <1>1, Zenon DEF EncoderInv, Between, Sound
    <3>2. encoder.l_id \in Nat
      BY <3>1, EncoderFields, Zenon
    <3> QED BY <3>2, Constants
  <2> QED BY <1>6, <2>4, <2>5, <2>6
<1>7. IngestPacket(collector, NextPacket) = Ingested(Grown(R, pending, l_id, l_d))
  BY <1>5, <1>6
<1>8. IngestPacket(collector, NextPacket).ok = TRUE
  <2> DEFINE grown == Grown(R, pending, l_id, l_d)
  <2> HIDE DEF grown
  <2>1. IngestPacket(collector, NextPacket) = [collector |-> grown, ok |-> TRUE]
    BY <1>7, Zenon DEF Ingested, grown
  <2> QED BY <2>1
<1> QED BY <1>8

(* No packet that an encoder returned is refused when it arrives whole,    *)
(* also after copies of it cut short, as long as the IDs suffice.  Beyond  *)
(* that the encoder announces a width that collectors refuse.              *)
THEOREM WholePacketsAreTaken == Spec => [](IdsSuffice => WholePacketsAreCollected)
<1>1. Init => TellsEverything
  BY InitEstablishes, InitTells, Zenon DEF Init, TellsEverything
<1> QED BY <1>1, StepTellsEverything, CollectedNow, CollectorFollowsEncoder, PTL DEF Spec

----------------------------------------------------------------------------
(* The container.                                                          *)

(* Nothing is pending, so the container of compress_samples has the bases  *)
(* and splits of the last row.                                             *)
LEMMA ContainerOfRow ==
  ASSUME NEW e \in Encoder, e.pending.pairs = <<>>, e.pending.new_bases = <<>>,
         NEW R, Follows(e, R), NEW count
  PROVE  ContainerOf(CompressionOf(e, R), count)
           = [original_sample_count |-> count,
              dictionary            |-> R.dictionary,
              splits                |-> CloseSplit(R).splits]
<1> DEFINE grown == Grown(R, e.pending, e.l_id, e.l_d)
           c == CompressionOf(e, R)
           split == SplitOf(R, e.pending, e.l_id, e.l_d)
           before == SplitsBefore(R, e.pending)
           closed == CloseSplit(R).splits
<1>1. /\ e.pending \in Pending /\ e.l_id \in Nat /\ e.l_d \in 0..ChunkBitLen
      /\ GoesWith(R, e.pending, e.l_id, e.l_d)
  BY EncoderFields, Zenon DEF Follows
<1>2. R \in Collected /\ split \in Split /\ before \in Seq(Split)
  BY <1>1, WhereItGoes, Zenon
<1>3. R.dictionary \in Seq(PackedBase) /\ R.splits \in Seq(Split)
  BY <1>2, CollectedFields, Zenon
<1>4. R.dictionary \o <<>> = R.dictionary
  BY <1>3, ConcatEmptySeq
<1>5. WithMore(split, <<>>) = split
  <2>1. split.pairs \in Seq(Pair)
        /\ split = [l_id |-> split.l_id, l_d |-> split.l_d, pairs |-> split.pairs]
    BY <1>2, SplitFields, Zenon
  <2> HIDE DEF split
  <2>2. split.pairs \o <<>> = split.pairs
    BY <2>1, ConcatEmptySeq
  <2> QED BY <2>1, <2>2, Zenon DEF WithMore
<1>6. grown = [dictionary |-> R.dictionary, splits |-> before, current_split |-> <<split>>]
  BY <1>4, <1>5, Zenon DEF Grown
<1>7. /\ c.persisted_bases = grown.dictionary /\ c.splits = grown.splits
      /\ c.current_split = grown.current_split[1]
  <2> HIDE DEF grown
  <2>1. c = [dictionary |-> e.dictionary, persisted_bases |-> grown.dictionary,
             splits |-> grown.splits, current_split |-> grown.current_split[1],
             old_base_count |-> e.old_base_count, panicked |-> FALSE]
    BY CompressionFields, Zenon DEF grown
  <2> HIDE DEF c
  <2> QED BY <2>1
<1>8. CASE e.pending.parameters_present
  <2>1. split.pairs = <<>> /\ before = closed
    BY <1>1, <1>8, NewSplitType, Zenon DEF SplitOf, SplitsBefore
  <2> HIDE DEF grown, c, split, before, closed
  <2>2. c.persisted_bases = R.dictionary /\ c.splits = before /\ c.current_split = split
    BY <1>6, <1>7
  <2>3. ContainerOf(c, count) = [original_sample_count |-> count,
                                 dictionary |-> R.dictionary, splits |-> before]
    BY <2>1, <2>2, Zenon DEF ContainerOf
  <2> QED BY <2>1, <2>3, Zenon DEF c, closed
<1>9. CASE ~ e.pending.parameters_present
  <2>1. split = R.current_split[1] /\ before = R.splits /\ R.current_split # <<>>
    BY <1>1, <1>9, Zenon DEF SplitOf, SplitsBefore, GoesWith
  <2>2. /\ HasPairs(R) => closed = Append(R.splits, R.current_split[1])
        /\ ~ HasPairs(R) => closed = R.splits
    BY <1>2, ClosedSplits, Zenon
  <2>3. closed = IF split.pairs = <<>> THEN before ELSE Append(before, split)
    BY <2>1, <2>2, Zenon DEF HasPairs
  <2> HIDE DEF grown, c, split, before, closed
  <2>4. c.persisted_bases = R.dictionary /\ c.splits = before /\ c.current_split = split
    BY <1>6, <1>7
  <2>5. ContainerOf(c, count) = [original_sample_count |-> count,
                                 dictionary |-> R.dictionary, splits |-> closed]
    BY <2>3, <2>4, Zenon DEF ContainerOf
  <2> QED BY <2>5, Zenon DEF c, closed
<1> QED BY <1>8, <1>9

(* The pairs of one split after the other are counted.                     *)
Counts(chunks, splits) ==
  chunks = [s \in 0..Len(splits) |-> IF s = 0 THEN 0
                                     ELSE chunks[s - 1] + Len(splits[s].pairs)]

(* As many chunks are counted as the splits were laid out for.             *)
LEMMA PairsAreCounted ==
  ASSUME NEW splits, NEW n \in Nat, NEW B, NEW C, Len(C) = n, Layout(splits, n, B, C)
  PROVE  (CHOOSE f : Counts(f, splits))[Len(splits)] = n
<1> DEFINE m == Len(splits)
           counted == CHOOSE f : Counts(f, splits)
<1>1. PICK before : LaidOut(splits, before, n, B, C)
  BY DEF Layout
<1>2. /\ m \in Nat /\ before \in [1..(m + 1) -> 0..n]
      /\ before[1] = 0 /\ before[m + 1] = n
      /\ \A s \in 1..m : before[s + 1] = before[s] + Len(splits[s].pairs)
      /\ \A s \in 1..m : Len(splits[s].pairs) \in Nat
  <2>1. splits \in Seq(Split)
    BY <1>1 DEF LaidOut
  <2>2. ASSUME NEW s \in 1..m PROVE Len(splits[s].pairs) \in Nat
    <3>1. splits[s] \in Split
      BY <2>1
    <3>2. splits[s].pairs \in Seq(Pair)
      BY <3>1 DEF Split
    <3> QED BY <3>2
  <2> QED BY <1>1, <2>1, <2>2 DEF LaidOut, HoldsChunks
<1> DEFINE g == [s \in 0..m |-> before[s + 1]]
<1>3. Counts(g, splits)
  <2> HIDE DEF m
  <2>1. ASSUME NEW s \in 0..m
        PROVE  g[s] = IF s = 0 THEN 0 ELSE g[s - 1] + Len(splits[s].pairs)
    <3>1. CASE s = 0
      BY <1>2, <3>1
    <3>2. CASE s # 0
      <4>1. s \in 1..m /\ s - 1 \in 0..m /\ (s - 1) + 1 = s
        BY <1>2, <3>2
      <4>2. g[s - 1] = before[s] /\ g[s] = before[s + 1]
        BY <4>1
      <4> QED BY <1>2, <3>2, <4>1, <4>2
    <3> QED BY <3>1, <3>2
  <2>2. g = [s \in 0..m |-> g[s]]
    OBVIOUS
  <2> HIDE DEF g
  <2> QED BY <2>1, <2>2 DEF Counts, m
<1>4. Counts(counted, splits)
  <2> HIDE DEF g
  <2> QED BY <1>3
<1>5. \A s \in 0..m : counted[s] = IF s = 0 THEN 0
                                   ELSE counted[s - 1] + Len(splits[s].pairs)
  <2> HIDE DEF counted
  <2> QED BY <1>4 DEF Counts
<1> HIDE DEF g, counted, m
<1> DEFINE Bad == {s \in Nat : s \in 0..m /\ counted[s] # before[s + 1]}
<1>6. Bad = {}
  <2>1. SUFFICES ASSUME Bad # {} PROVE FALSE
    OBVIOUS
  <2>2. PICK s \in Bad : \A k \in Bad : s <= k
    BY <2>1, LeastElement
  <2>3. s \in 0..m /\ s \in Nat /\ counted[s] # before[s + 1]
    BY <2>2
  <2>4. s # 0
    BY <1>2, <1>5, <2>3
  <2>5. /\ s \in 1..m /\ s - 1 \in 0..m /\ s - 1 \in Nat /\ (s - 1) + 1 = s
        /\ ~ (s <= s - 1)
    BY <1>2, <2>3, <2>4
  <2>6. counted[s - 1] = before[s]
    BY <2>2, <2>5
  <2> QED BY <1>2, <1>5, <2>3, <2>4, <2>5, <2>6
<1>7. m \in 0..m /\ m \in Nat
  BY <1>2
<1>8. counted[m] = before[m + 1]
  BY <1>6, <1>7
<1> QED BY <1>2, <1>8 DEF counted, m

(* The last chunk may be less than full, and none is missing.              *)
LEMMA CountIsRight ==
  ASSUME NEW count \in Nat, NEW n \in Nat, NEW w \in Nat,
         count <= n * w, n * w < count + w, w = SamplesPerChunk
  PROVE  CountFits(count, n * w)
<1> DEFINE all == n * w
<1>1. all \in Nat
  OBVIOUS
<1> HIDE DEF all
<1> QED BY <1>1 DEF CountFits, all

(* What finish makes of a collector that has everything.                   *)
LEMMA CollectorFinishes ==
  ASSUME NEW c, NEW count \in Nat, NEW n \in Nat, NEW B, NEW C, Len(C) = n,
         Layout(CloseSplit(c).splits, n, B, C),
         count <= n * SamplesPerChunk, n * SamplesPerChunk < count + SamplesPerChunk
  PROVE  FinishCollector(c, count) = <<[original_sample_count |-> count,
                                        dictionary |-> c.dictionary,
                                        splits |-> CloseSplit(c).splits]>>
<1> DEFINE splits == CloseSplit(c).splits
           counted == CHOOSE f : Counts(f, splits)
           container == [original_sample_count |-> count,
                         dictionary |-> c.dictionary, splits |-> splits]
<1>1. FinishCollector(c, count) =
        IF CountFits(count, counted[Len(splits)] * SamplesPerChunk)
        THEN <<container>> ELSE <<>>
  BY DEF FinishCollector, Counts
<1> HIDE DEF splits, container
<1>2. counted[Len(splits)] = n
  BY PairsAreCounted, Zenon DEF splits
<1>3. CountFits(count, n * SamplesPerChunk)
  BY CountIsRight, Geometry
<1> HIDE DEF counted
<1>4. FinishCollector(c, count) = <<container>>
  BY <1>1, <1>2, <1>3, Zenon
<1> QED BY <1>4, Zenon DEF container, splits

(* A collector that ingested all packets of a finished stream ends with    *)
(* what compress_samples makes of the samples.                             *)
LEMMA CollectsTheBatchNow == CollectorInv => CollectsTheBatch
<1> SUFFICES ASSUME CollectorInv, Finished, AllDelivered
             PROVE  FinishCollector(collector, Len(pushed)) = CompressSamples(pushed)
  BY DEF CollectsTheBatch
<1>1. EncoderInv /\ delivered \in 0..Len(emitted)
  BY Zenon DEF CollectorInv
<1>2. PICK rows, C : Gathering(rows, C) /\ Collecting(rows)
  BY Zenon DEF CollectorInv
<1> DEFINE R == rows[Len(rows)]
           count == Len(pushed)
           c == CompressionOf(encoder, R)
<1>3. /\ Len(emitted) \in Nat /\ Len(rows) = Len(emitted) + 1
      /\ Follows(encoder, R)
  BY <1>1, <1>2, LogOfEmitted, Zenon
<1>4. collector = R
  <2>1. ~ InFlight /\ delivered + 1 = Len(rows)
    BY <1>3 DEF AllDelivered, InFlight
  <2> QED BY <1>2, <2>1, Zenon DEF Collecting
<1>5. encoder \in Encoder /\ encoder.pending.pairs = <<>> /\ encoder.pending.new_bases = <<>>
  BY <1>1, Zenon DEF EncoderInv, Between, Sound, Finished
<1>6. pushed \in Seq(Sample) /\ count \in Nat
  <2>1. pushed \in Seq(Sample)
    BY <1>1, Zenon DEF EncoderInv
  <2> QED BY <2>1, LenProperties
<1>7. C \in Seq(Chunk) /\ Len(C) \in Nat /\ FillChunks(pushed, C)
  <2>1. Gathers(emitted, encoder, rows, C) /\ Accounts(C)
    BY <1>2, Zenon DEF Gathering
  <2> QED BY <2>1, GathersLengths, Zenon DEF Accounts, Finished
<1>8. /\ C = ChunkSamples(pushed)
      /\ count <= Len(C) * SamplesPerChunk
      /\ Len(C) * SamplesPerChunk < count + SamplesPerChunk
  BY <1>6, <1>7, FilledChunks, Zenon
<1>9. CompressedTo(c, ChunkSamples(pushed))
  <2>1. PICK d : Amounts(emitted, encoder, rows, d) /\ CompressedTo(d, C)
    BY <1>2, Zenon DEF Gathering, Gathers
  <2>2. d = c
    BY <2>1, Zenon DEF Amounts
  <2> QED BY <1>8, <2>1, <2>2, Zenon
<1>10. ~ c.panicked
  <2> DEFINE grown == Grown(R, encoder.pending, encoder.l_id, encoder.l_d)
  <2> HIDE DEF grown, R
  <2>1. c = [dictionary |-> encoder.dictionary, persisted_bases |-> grown.dictionary,
             splits |-> grown.splits, current_split |-> grown.current_split[1],
             old_base_count |-> encoder.old_base_count, panicked |-> FALSE]
    BY CompressionFields, Zenon DEF grown
  <2> HIDE DEF c
  <2> QED BY <2>1
<1> DEFINE container == [original_sample_count |-> count, dictionary |-> R.dictionary,
                         splits |-> CloseSplit(R).splits]
<1>11. CompressSamples(pushed) = <<container>>
  <2>1. CompressSamples(pushed) = <<ContainerOf(c, count)>>
    BY <1>6, <1>9, <1>10, CompressesToContainer, Zenon
  <2>2. ContainerOf(c, count) = container
    BY <1>3, <1>5, ContainerOfRow, Zenon
  <2> QED BY <2>1, <2>2, Zenon
<1>12. \E B : Layout(CloseSplit(R).splits, Len(C), B, C)
  <2> DEFINE compressed == CompressSamples(pushed)
             closed == CloseSplit(R).splits
  <2> HIDE DEF R
  <2>1. compressed # <<>> => Layout(compressed[1].splits, Len(C), compressed[1].dictionary, C)
    BY <1>6, <1>8, CompressedIsLaidOut, Zenon
  <2> HIDE DEF compressed, closed
  <2>2. compressed # <<>> /\ compressed[1] = container
    BY <1>11 DEF compressed
  <2>3. container.splits = CloseSplit(R).splits
    BY DEF closed
  <2> HIDE DEF container
  <2>4. Layout(CloseSplit(R).splits, Len(C), compressed[1].dictionary, C)
    BY <2>1, <2>2, <2>3, Zenon
  <2> QED BY <2>4, Zenon
<1>13. PICK B : Layout(CloseSplit(R).splits, Len(C), B, C)
  BY <1>12, Zenon
<1> HIDE DEF c
<1>14. FinishCollector(R, count) = <<container>>
  BY <1>6, <1>7, <1>8, <1>13, CollectorFinishes, Zenon
<1> QED BY <1>4, <1>11, <1>14, Zenon

(* Whatever the size of the packets and however often one arrived cut      *)
(* short, the container gathered from packets is the one compress_samples  *)
(* makes of the samples pushed (ingest_packet and finish of the collector  *)
(* against compress_samples).                                              *)
THEOREM CollectorMakesTheBatch == Spec => []CollectsTheBatch
BY CollectsTheBatchNow, CollectorFollowsEncoder, PTL

----------------------------------------------------------------------------
(* What is read from a packet, whatever it is a packet of.                 *)

(* The bases and the pairs of a payload, read with some widths.            *)
BasesIn(packet) == Cut(packet.payload, 0, packet.new_base_count, ChunkBitLen)

PairsIn(packet, l_id, l_d) ==
  LET cut == Cut(packet.payload, packet.new_base_count * ChunkBitLen,
                 packet.chunk_count, l_id + l_d)
  IN  [i \in 1..packet.chunk_count |->
         [base_id |-> ReadValue(SubSeq(cut[i], 1, l_id)),
          deviation_bits |-> SubSeq(cut[i], l_id + 1, l_id + l_d)]]

(* The payload is long enough for what the packet announces.               *)
IsLongEnough(packet, l_id, l_d) ==
  packet.new_base_count * ChunkBitLen + packet.chunk_count * (l_id + l_d)
    <= Len(packet.payload)

(* A pair that fits the widths of its split.                               *)
FitsWidths(pair, l_id, l_d) ==
  pair.base_id < Pow2[l_id] /\ pair.deviation_bits \in BitString(l_d)

(* Bits taken apart in two.                                                *)
LEMMA TwoFields ==
  ASSUME NEW l_id \in Nat, NEW l_d \in Nat, NEW bits \in BitString(l_id + l_d)
  PROVE  /\ SubSeq(bits, 1, l_id) \in BitString(l_id)
         /\ SubSeq(bits, l_id + 1, l_id + l_d) \in BitString(l_d)
<1>1. bits \in Seq(Bit) /\ Len(bits) = l_id + l_d
  BY FunctionIsSequence DEF BitString
<1> DEFINE n == l_id + l_d
           first == SubSeq(bits, 1, l_id)
           rest == SubSeq(bits, l_id + 1, n)
<1>2. first \in [1..l_id -> Bit]
  <2>1. first \in Seq(Bit) /\ Len(first) = l_id
    BY <1>1, SubSeqProperties
  <2> HIDE DEF first
  <2> QED BY <2>1, LenProperties
<1>3. rest \in [1..l_d -> Bit]
  <2>1. l_id + 1 \in 1..(Len(bits) + 1) /\ n \in l_id..Len(bits) /\ n - (l_id + 1) + 1 = l_d
    BY <1>1
  <2>2. rest \in Seq(Bit) /\ Len(rest) = n - (l_id + 1) + 1
    <3> HIDE DEF n
    <3> QED BY <1>1, <2>1, SubSeqProperties
  <2>3. Len(rest) = l_d
    BY <2>1, <2>2
  <2> HIDE DEF rest
  <2> QED BY <2>2, <2>3, LenProperties
<1> QED BY <1>2, <1>3 DEF BitString

(* Bases and pairs are read, of the right widths.                          *)
LEMMA PacketIsRead ==
  ASSUME NEW packet \in StreamPacket, NEW l_id \in Nat, NEW l_d \in 0..ChunkBitLen,
         IsLongEnough(packet, l_id, l_d)
  PROVE  LET pairs == PairsIn(packet, l_id, l_d)
         IN  /\ BasesIn(packet) \in Seq(PackedBase)
             /\ pairs \in Seq(Pair) /\ Len(pairs) = packet.chunk_count
             /\ \A i \in 1..packet.chunk_count : FitsWidths(pairs[i], l_id, l_d)
<1> DEFINE m == packet.new_base_count
           n == packet.chunk_count
           payload == packet.payload
           w == l_id + l_d
           cut == Cut(payload, m * ChunkBitLen, n, w)
           pairs == PairsIn(packet, l_id, l_d)
<1>1. payload \in Seq(Bit) /\ m \in Nat /\ n \in Nat /\ w \in Nat /\ l_d \in Nat
  BY Geometry DEF StreamPacket
<1>2. m * ChunkBitLen \in Nat /\ n * w \in Nat /\ Len(payload) \in Nat
  BY <1>1, Geometry
<1>3. m * ChunkBitLen + n * w <= Len(payload)
  BY DEF IsLongEnough
<1> HIDE DEF m, n, payload, w
<1>4. BasesIn(packet) \in Seq(PackedBase)
  <2>1. 0 + m * ChunkBitLen <= Len(payload)
    BY <1>2, <1>3
  <2>2. Cut(payload, 0, m, ChunkBitLen) \in Seq(BitString(ChunkBitLen))
    BY <1>1, <2>1, CutType, Geometry
  <2> QED BY <2>2 DEF BasesIn, PackedBase, m, payload
<1>5. \A i \in 1..n : cut[i] \in BitString(w)
  BY <1>1, <1>2, <1>3, CutType
<1> HIDE DEF cut
<1>6. pairs = [i \in 1..n |-> [base_id |-> ReadValue(SubSeq(cut[i], 1, l_id)),
                               deviation_bits |-> SubSeq(cut[i], l_id + 1, l_id + l_d)]]
  BY Zenon DEF PairsIn, cut, m, n, payload, w
<1> HIDE DEF pairs
<1>7. ASSUME NEW i \in 1..n
      PROVE  pairs[i] \in Pair /\ FitsWidths(pairs[i], l_id, l_d)
  <2> DEFINE first == SubSeq(cut[i], 1, l_id)
             rest == SubSeq(cut[i], l_id + 1, l_id + l_d)
  <2>1. first \in BitString(l_id) /\ rest \in BitString(l_d)
    BY <1>1, <1>5, TwoFields DEF w
  <2>2. pairs[i] = [base_id |-> ReadValue(first), deviation_bits |-> rest]
    BY <1>6
  <2> HIDE DEF first, rest
  <2>3. ReadValue(first) \in Nat /\ ReadValue(first) < Pow2[l_id]
    BY <2>1, ReadValueFits
  <2>4. rest \in Seq(Bit)
    BY <1>1, <2>1, FunctionIsSequence DEF BitString
  <2> QED BY <2>1, <2>2, <2>3, <2>4 DEF Pair, FitsWidths
<1>8. pairs \in [1..n -> Pair]
  BY <1>6, <1>7
<1>9. pairs \in Seq(Pair) /\ Len(pairs) = n
  BY <1>1, <1>8, FunctionIsSequence
<1> QED BY <1>4, <1>7, <1>9 DEF pairs, n

(* The chunk that a pair makes with the bases that are there.              *)
ChunkFrom(B, pair, l_d) ==
  InverseTransformChunk(UnpackSamples(B[pair.base_id + 1]), pair.deviation_bits, l_d)

ChunksFrom(B, pairs, n, l_d) == [i \in 1..n |-> ChunkFrom(B, pairs[i], l_d)]

(* A base and a deviation make a chunk, whether they belong together or    *)
(* not.                                                                    *)
LEMMA ChunksAreMade ==
  ASSUME NEW B \in Seq(PackedBase), NEW pairs \in Seq(Pair), NEW n \in 0..Len(pairs),
         NEW l_id \in Nat, NEW l_d \in 0..ChunkBitLen,
         \A i \in 1..n : pairs[i].base_id < Len(B) /\ FitsWidths(pairs[i], l_id, l_d)
  PROVE  LET chunks == ChunksFrom(B, pairs, n, l_d)
         IN  /\ chunks \in Seq(Chunk) /\ Len(chunks) = n
             /\ \A i \in 1..n : Encodes(pairs[i], l_d, chunks[i], B)
<1> DEFINE chunks == ChunksFrom(B, pairs, n, l_d)
<1>1. n \in Nat /\ \A i \in 1..n : pairs[i] \in Pair
  OBVIOUS
<1>2. ASSUME NEW i \in 1..n PROVE ChunkFrom(B, pairs[i], l_d) \in Chunk
  <2> DEFINE pair == pairs[i]
  <2>1. pair.base_id \in Nat /\ pair.base_id < Len(B)
    BY <1>1 DEF Pair
  <2>2. B[pair.base_id + 1] \in PackedBase
    BY <2>1
  <2>3. pair.deviation_bits \in BitString(l_d)
    BY DEF FitsWidths
  <2> HIDE DEF pair
  <2>4. ChunkFrom(B, pair, l_d) \in Chunk
    BY <2>2, <2>3, InverseIsChunk DEF ChunkFrom
  <2> QED BY <2>4 DEF pair
<1>3. chunks \in [1..n -> Chunk]
  BY <1>2 DEF ChunksFrom
<1>4. chunks \in Seq(Chunk) /\ Len(chunks) = n
  BY <1>1, <1>3, FunctionIsSequence
<1>5. \A i \in 1..n : Encodes(pairs[i], l_d, chunks[i], B)
  BY DEF Encodes, Restores, ChunkFrom, ChunksFrom
<1> QED BY <1>4, <1>5 DEF chunks

----------------------------------------------------------------------------
(* What a collector has, whatever arrived.                                 *)

(* The pairs of a split have the widths of the split.                      *)
HasItsWidths(split) ==
  \A i \in 1..Len(split.pairs) : FitsWidths(split.pairs[i], split.l_id, split.l_d)

(* The chunks C are what the collector's pairs stand for, with the bases   *)
(* that it has; its splits are full, but for the current one.              *)
HasCollected(c, C) ==
  /\ c \in Collected /\ C \in Seq(Chunk)
  /\ Layout(c.splits \o c.current_split, Len(C), c.dictionary, C)
  /\ \A s \in 1..Len(c.splits) :
       HasItsWidths(c.splits[s]) /\ Len(c.splits[s].pairs) = ChunksPerSplit
  /\ c.current_split # <<>> =>
       /\ HasItsWidths(c.current_split[1])
       /\ Len(c.current_split[1].pairs) <= ChunksPerSplit

(* The largest of numbers that are bounded.                                *)
LEMMA LargestIsThere ==
  ASSUME NEW n \in Nat, NEW good, good \in SUBSET (0..n), 0 \in good
  PROVE  \E k \in good : \A j \in good : j <= k
<1> DEFINE rest == {r \in 0..n : n - r \in good}
<1>1. rest \subseteq Nat /\ n \in rest
  OBVIOUS
<1>2. PICK r \in rest : \A k \in rest : r <= k
  <2> HIDE DEF rest
  <2> QED BY <1>1, LeastElement
<1>3. ASSUME NEW j \in good PROVE j <= n - r
  <2>1. n - j \in rest
    <3>1. j \in 0..n
      OBVIOUS
    <3>2. n - j \in 0..n /\ n - (n - j) = j
      BY <3>1
    <3> QED BY <3>2
  <2>2. r <= n - j /\ r \in 0..n /\ j \in 0..n
    BY <1>2, <2>1
  <2> QED BY <2>2
<1> QED BY <1>2, <1>3

(* A collector that has not begun has nothing.                             *)
LEMMA NothingCollected == HasCollected(NewCollector, <<>>)
<1> DEFINE before == [s \in 1..1 |-> 0]
<1>1. NewCollector \in Collected /\ <<>> \in Seq(Chunk)
  BY DEF NewCollector, Collected
<1>2. /\ NewCollector.splits = <<>> /\ NewCollector.current_split = <<>>
      /\ NewCollector.splits \o NewCollector.current_split = <<>>
  BY DEF NewCollector
<1>3. LaidOut(<<>>, before, 0, NewCollector.dictionary, <<>>)
  BY DEF LaidOut
<1>4. Layout(<<>>, 0, NewCollector.dictionary, <<>>)
  BY <1>3 DEF Layout
<1> QED BY <1>1, <1>2, <1>4 DEF HasCollected

(* What a collector has, in its parts.                                     *)
LEMMA PartsCollected ==
  ASSUME NEW c, NEW C, HasCollected(c, C)
  PROVE  /\ c.dictionary \in Seq(PackedBase) /\ c.splits \in Seq(Split)
         /\ C \in Seq(Chunk) /\ Len(C) \in Nat /\ Len(c.splits) \in Nat
         /\ c.current_split = <<>> => Layout(c.splits, Len(C), c.dictionary, C)
         /\ c.current_split # <<>> =>
              /\ c.current_split[1] \in Split
              /\ c.current_split = <<c.current_split[1]>>
              /\ HasItsWidths(c.current_split[1])
              /\ Len(c.current_split[1].pairs) <= ChunksPerSplit
              /\ Layout(Append(c.splits, c.current_split[1]), Len(C), c.dictionary, C)
         /\ c = [dictionary |-> c.dictionary, splits |-> c.splits,
                 current_split |-> c.current_split]
<1>1. c \in Collected /\ C \in Seq(Chunk)
  BY DEF HasCollected
<1>2. /\ c.dictionary \in Seq(PackedBase) /\ c.splits \in Seq(Split)
      /\ c.current_split # <<>> =>
           c.current_split[1] \in Split /\ c.current_split = <<c.current_split[1]>>
      /\ c = [dictionary |-> c.dictionary, splits |-> c.splits,
              current_split |-> c.current_split]
  BY <1>1, CollectedFields
<1>3. Len(C) \in Nat /\ Len(c.splits) \in Nat
  BY <1>1, <1>2
<1>4. Layout(c.splits \o c.current_split, Len(C), c.dictionary, C)
  BY DEF HasCollected
<1>5. ASSUME c.current_split = <<>>
      PROVE  Layout(c.splits, Len(C), c.dictionary, C)
  <2>1. c.splits \o c.current_split = c.splits
    BY <1>2, <1>5
  <2> QED BY <1>4, <2>1
<1>6. ASSUME c.current_split # <<>>
      PROVE  /\ HasItsWidths(c.current_split[1])
             /\ Len(c.current_split[1].pairs) <= ChunksPerSplit
             /\ Layout(Append(c.splits, c.current_split[1]), Len(C), c.dictionary, C)
  <2> DEFINE split == c.current_split[1]
             splits == c.splits
  <2>1. c.current_split = <<split>> /\ split \in Split /\ splits \in Seq(Split)
    BY <1>2, <1>6
  <2> HIDE DEF split, splits
  <2>2. splits \o <<split>> = Append(splits, split)
    BY <2>1
  <2>3. c.splits \o c.current_split = Append(splits, split)
    BY <2>1, <2>2 DEF splits
  <2>4. Layout(Append(splits, split), Len(C), c.dictionary, C)
    BY <1>4, <2>3
  <2> QED BY <1>6, <2>4 DEF HasCollected, split, splits
<1> QED BY <1>1, <1>2, <1>3, <1>5, <1>6

(* A collector is made of its parts.                                       *)
LEMMA CollectedAgain ==
  ASSUME NEW dictionary \in Seq(PackedBase), NEW splits \in Seq(Split),
         NEW C \in Seq(Chunk),
         \A s \in 1..Len(splits) :
           HasItsWidths(splits[s]) /\ Len(splits[s].pairs) = ChunksPerSplit
  PROVE  /\ Layout(splits, Len(C), dictionary, C) =>
              HasCollected([dictionary |-> dictionary, splits |-> splits,
                            current_split |-> <<>>], C)
         /\ \A split \in Split :
              /\ HasItsWidths(split) /\ Len(split.pairs) <= ChunksPerSplit
              /\ Layout(Append(splits, split), Len(C), dictionary, C)
              => HasCollected([dictionary |-> dictionary, splits |-> splits,
                               current_split |-> <<split>>], C)
<1>1. ASSUME Layout(splits, Len(C), dictionary, C)
      PROVE  HasCollected([dictionary |-> dictionary, splits |-> splits,
                           current_split |-> <<>>], C)
  <2> DEFINE c == [dictionary |-> dictionary, splits |-> splits, current_split |-> <<>>]
  <2>1. c \in Collected
    BY DEF Collected
  <2>2. /\ c.dictionary = dictionary /\ c.splits = splits /\ c.current_split = <<>>
    OBVIOUS
  <2>3. splits \o <<>> = splits
    OBVIOUS
  <2> HIDE DEF c
  <2>4. HasCollected(c, C)
    BY <1>1, <2>1, <2>2, <2>3 DEF HasCollected
  <2> QED BY <2>4 DEF c
<1>2. ASSUME NEW split \in Split,
             HasItsWidths(split), Len(split.pairs) <= ChunksPerSplit,
             Layout(Append(splits, split), Len(C), dictionary, C)
      PROVE  HasCollected([dictionary |-> dictionary, splits |-> splits,
                           current_split |-> <<split>>], C)
  <2> DEFINE c == [dictionary |-> dictionary, splits |-> splits, current_split |-> <<split>>]
  <2>1. c \in Collected
    BY CollectedFrom
  <2>2. /\ c.dictionary = dictionary /\ c.splits = splits /\ c.current_split = <<split>>
        /\ c.current_split[1] = split
    OBVIOUS
  <2>3. splits \o <<split>> = Append(splits, split)
    OBVIOUS
  <2> HIDE DEF c
  <2>4. HasCollected(c, C)
    BY <1>2, <2>1, <2>2, <2>3 DEF HasCollected
  <2> QED BY <2>4 DEF c
<1> QED BY <1>1, <1>2

(* Nothing is lost by closing a split.                                     *)
LEMMA ClosedHasCollected ==
  ASSUME NEW c, NEW C, HasCollected(c, C)
  PROVE  /\ Layout(CloseSplit(c).splits, Len(C), c.dictionary, C)
         /\ ~ MidSplit(c) => HasCollected(CloseSplit(c), C)
<1> DEFINE closed == CloseSplit(c)
           split == c.current_split[1]
           splits == c.splits
<1>1. /\ c.dictionary \in Seq(PackedBase) /\ splits \in Seq(Split) /\ C \in Seq(Chunk)
      /\ c = [dictionary |-> c.dictionary, splits |-> splits,
              current_split |-> c.current_split]
  BY PartsCollected
<1>2. CASE HasPairs(c)
  <2>1. c.current_split # <<>> /\ split.pairs # <<>>
    BY <1>2 DEF HasPairs
  <2>2. /\ split \in Split /\ c.current_split = <<split>>
        /\ HasItsWidths(split) /\ Len(split.pairs) <= ChunksPerSplit
        /\ Layout(Append(splits, split), Len(C), c.dictionary, C)
    BY <2>1, PartsCollected
  <2> DEFINE more == Append(splits, split)
  <2> HIDE DEF split, splits
  <2>3. splits \o <<split>> = more
    BY <1>1, <2>2
  <2>4. closed = [dictionary |-> c.dictionary, splits |-> more, current_split |-> <<>>]
    <3>1. closed = [c EXCEPT !.splits = splits \o c.current_split, !.current_split = <<>>]
      BY <1>2 DEF CloseSplit, splits
    <3>2. closed = [c EXCEPT !.splits = more, !.current_split = <<>>]
      BY <2>2, <2>3, <3>1
    <3> HIDE DEF more
    <3> QED BY <1>1, <3>2
  <2>5. Layout(closed.splits, Len(C), c.dictionary, C)
    BY <2>2, <2>4
  <2>6. ASSUME ~ MidSplit(c) PROVE HasCollected(closed, C)
    <3>1. Len(split.pairs) = ChunksPerSplit
      BY <1>2, <2>6 DEF MidSplit, split
    <3>2. \A s \in 1..Len(splits) :
             HasItsWidths(splits[s]) /\ Len(splits[s].pairs) = ChunksPerSplit
      BY DEF HasCollected, splits
    <3>3. more \in Seq(Split) /\ Len(more) = Len(splits) + 1 /\ Len(splits) \in Nat
          /\ more[Len(splits) + 1] = split
          /\ \A s \in 1..Len(splits) : more[s] = splits[s]
      BY <1>1, <2>2
    <3> HIDE DEF more
    <3>4. ASSUME NEW s \in 1..Len(more)
          PROVE  HasItsWidths(more[s]) /\ Len(more[s].pairs) = ChunksPerSplit
      <4>1. CASE s = Len(splits) + 1
        BY <2>2, <3>1, <3>3, <4>1
      <4>2. CASE s # Len(splits) + 1
        <5>1. s \in 1..Len(splits)
          BY <3>3, <4>2
        <5> QED BY <3>2, <3>3, <5>1
      <4> QED BY <4>1, <4>2
    <3>5. Layout(more, Len(C), c.dictionary, C)
      BY <2>2 DEF more
    <3>6. HasCollected([dictionary |-> c.dictionary, splits |-> more,
                        current_split |-> <<>>], C)
      BY <1>1, <3>3, <3>4, <3>5, CollectedAgain
    <3> QED BY <2>4, <3>6
  <2> QED BY <2>5, <2>6
<1>3. CASE ~ HasPairs(c)
  <2>1. closed = c
    BY <1>3 DEF CloseSplit
  <2>2. Layout(splits, Len(C), c.dictionary, C)
    <3>1. CASE c.current_split = <<>>
      BY <3>1, PartsCollected
    <3>2. CASE c.current_split # <<>>
      <4>1. /\ split \in Split /\ split.pairs = <<>>
            /\ Layout(Append(splits, split), Len(C), c.dictionary, C)
        BY <1>3, <3>2, PartsCollected DEF HasPairs
      <4> QED BY <1>1, <4>1, LayoutWithoutLast
    <3> QED BY <3>1, <3>2
  <2> QED BY <2>1, <2>2
<1> QED BY <1>2, <1>3

(* Nor by beginning another.                                               *)
LEMMA OpenedHasCollected ==
  ASSUME NEW c, NEW C, HasCollected(c, C), ~ MidSplit(c),
         NEW l_id \in Nat, NEW l_d \in 0..ChunkBitLen
  PROVE  /\ HasCollected(Opened(c, l_id, l_d), C)
         /\ Opened(c, l_id, l_d).dictionary = c.dictionary
         /\ Opened(c, l_id, l_d).current_split # <<>>
         /\ Opened(c, l_id, l_d).current_split[1].l_id = l_id
         /\ Opened(c, l_id, l_d).current_split[1].l_d = l_d
<1> DEFINE split == NewSplit(l_id, l_d)
           splits == CloseSplit(c).splits
<1>1. /\ split \in Split /\ split.l_id = l_id /\ split.l_d = l_d
      /\ split.pairs = <<>> /\ Len(split.pairs) = 0
  BY NewSplitType
<1>2. /\ Layout(splits, Len(C), c.dictionary, C) /\ HasCollected(CloseSplit(c), C)
  BY ClosedHasCollected
<1>3. c.dictionary \in Seq(PackedBase) /\ C \in Seq(Chunk)
  BY PartsCollected
<1>4. splits \in Seq(Split) /\ CloseSplit(c).dictionary = c.dictionary
  <2>1. c \in Collected
    BY DEF HasCollected
  <2> QED BY <2>1, ClosedSplits, Zenon
<1>5. \A s \in 1..Len(splits) :
         HasItsWidths(splits[s]) /\ Len(splits[s].pairs) = ChunksPerSplit
  BY <1>2 DEF HasCollected
<1> HIDE DEF split, splits
<1>6. Layout(Append(splits, split), Len(C), c.dictionary, C)
  BY <1>1, <1>2, LayoutNewSplit
<1>7. HasItsWidths(split) /\ Len(split.pairs) <= ChunksPerSplit
  BY <1>1, ConfigConstants DEF HasItsWidths
<1>8. Opened(c, l_id, l_d) = [dictionary |-> c.dictionary, splits |-> splits,
                              current_split |-> <<split>>]
  BY DEF Opened, split, splits
<1>9. HasCollected([dictionary |-> c.dictionary, splits |-> splits,
                    current_split |-> <<split>>], C)
  BY <1>1, <1>3, <1>4, <1>5, <1>6, <1>7, CollectedAgain
<1> QED BY <1>1, <1>8, <1>9

(* What comes of a packet's bases and pairs: the first of the pairs, and   *)
(* all of them if every one names a base that is there.                    *)
PayloadTaken(c, packet, taken, c2) ==
  LET split == c.current_split[1]
      known == c.dictionary \o BasesIn(packet)
      pairs == PairsIn(packet, split.l_id, split.l_d)
  IN  /\ IngestPayload(c, packet) = [collector |-> c2, ok |-> (taken = packet.chunk_count)]
      /\ \A i \in 1..taken : pairs[i].base_id < Len(known)
      /\ c2.dictionary = known
      /\ c2.current_split # <<>>
      /\ c2.current_split[1].l_id = split.l_id
      /\ c2.current_split[1].l_d = split.l_d

ChunksTaken(c, packet, taken) ==
  LET split == c.current_split[1]
  IN  ChunksFrom(c.dictionary \o BasesIn(packet), PairsIn(packet, split.l_id, split.l_d),
                 taken, split.l_d)

(* The payload adds the chunks that its pairs stand for.                   *)
LEMMA PayloadAdds ==
  ASSUME NEW c, NEW C, HasCollected(c, C), c.current_split # <<>>,
         NEW packet \in StreamPacket,
         IsLongEnough(packet, c.current_split[1].l_id, c.current_split[1].l_d),
         Len(c.current_split[1].pairs) + packet.chunk_count <= ChunksPerSplit
  PROVE  \E taken, c2 :
           /\ taken \in 0..packet.chunk_count
           /\ PayloadTaken(c, packet, taken, c2)
           /\ ChunksTaken(c, packet, taken) \in Seq(Chunk)
           /\ Len(ChunksTaken(c, packet, taken)) = taken
           /\ HasCollected(c2, C \o ChunksTaken(c, packet, taken))
<1> DEFINE split == c.current_split[1]
           splits == c.splits
           l_id == split.l_id
           l_d == split.l_d
           n == packet.chunk_count
           bases == BasesIn(packet)
           known == c.dictionary \o bases
           pairs == PairsIn(packet, l_id, l_d)
           good == {k \in 0..n : \A i \in 1..k : IsAvailable(known, pairs[i].base_id)}
           taken == CHOOSE k \in good : \A j \in good : j <= k
           more == SubSeq(pairs, 1, taken)
           longer == WithMore(split, more)
           c2 == [dictionary |-> known, splits |-> splits, current_split |-> <<longer>>]
           chunks == ChunksTaken(c, packet, taken)
<1>1. /\ split \in Split /\ splits \in Seq(Split) /\ c.dictionary \in Seq(PackedBase)
      /\ C \in Seq(Chunk) /\ Len(C) \in Nat
      /\ c = [dictionary |-> c.dictionary, splits |-> splits, current_split |-> <<split>>]
      /\ HasItsWidths(split)
      /\ Layout(Append(splits, split), Len(C), c.dictionary, C)
  BY PartsCollected
<1>2. l_id \in Nat /\ l_d \in 0..ChunkBitLen /\ split.pairs \in Seq(Pair)
  BY <1>1, SplitFields
<1>3. n \in Nat
  BY DEF StreamPacket
<1>4. /\ bases \in Seq(PackedBase) /\ pairs \in Seq(Pair) /\ Len(pairs) = n
      /\ \A i \in 1..n : FitsWidths(pairs[i], l_id, l_d)
  BY <1>2, PacketIsRead
<1>5. known \in Seq(PackedBase) /\ Continues(c.dictionary, known)
  BY <1>1, <1>4, ConcatProperties DEF Continues
<1>6. taken \in good
  <2>1. good \in SUBSET (0..n) /\ 0 \in good
    BY <1>3
  <2> HIDE DEF good
  <2> QED BY <1>3, <2>1, LargestIsThere
<1>7. taken \in 0..n /\ \A i \in 1..taken : pairs[i].base_id < Len(known)
  BY <1>6 DEF IsAvailable
<1>8. IngestPayload(c, packet) = Taken(c, known, pairs, n)
  BY Zenon DEF IngestPayload, Taken, WithRead, BasesIn, PairsIn
<1>9. Taken(c, known, pairs, n)
        = IF taken = n THEN Ingested(WithRead(c, known, more))
                       ELSE Refused(WithRead(c, known, more))
  BY Zenon DEF Taken
<1> HIDE DEF known, pairs, bases, n, good, taken, l_id, l_d, split, splits
<1>10. /\ more \in Seq(Pair) /\ Len(more) = taken /\ taken \in Nat
       /\ \A i \in 1..taken : more[i] = pairs[i]
  <2>1. taken \in Nat /\ taken <= Len(pairs)
    BY <1>3, <1>4, <1>7
  <2> QED BY <1>4, <2>1, PrefixPlaces
<1> HIDE DEF more
<1>11. WithRead(c, known, more) = c2
  BY <1>1, <1>10, AddedInPlace
<1>12. /\ longer \in Split /\ longer.l_id = l_id /\ longer.l_d = l_d
       /\ longer.pairs = split.pairs \o more
       /\ Len(longer.pairs) = Len(split.pairs) + taken
       /\ Len(split.pairs) \in Nat
  BY <1>1, <1>10, WithMoreType DEF l_id, l_d
<1> HIDE DEF longer
<1>13. PayloadTaken(c, packet, taken, c2)
  <2>1. IngestPayload(c, packet) = [collector |-> c2, ok |-> (taken = n)]
    <3>1. IngestPayload(c, packet) = IF taken = n THEN Ingested(c2) ELSE Refused(c2)
      BY <1>8, <1>9, <1>11, Zenon
    <3> HIDE DEF c2
    <3> QED BY <3>1 DEF Ingested, Refused
  <2>2. /\ c2.dictionary = known /\ c2.current_split # <<>> /\ c2.current_split[1] = longer
    OBVIOUS
  <2> HIDE DEF c2
  <2> QED BY <1>7, <1>12, <2>1, <2>2, Zenon
          DEF PayloadTaken, known, bases, pairs, n, l_id, l_d, split
<1> HIDE DEF c2
<1>14. chunks = ChunksFrom(known, pairs, taken, l_d)
  BY Zenon DEF ChunksTaken, known, bases, pairs, l_id, l_d, split
<1> HIDE DEF chunks
<1>15. /\ chunks \in Seq(Chunk) /\ Len(chunks) = taken
       /\ \A i \in 1..taken : Encodes(pairs[i], l_d, chunks[i], known)
  <2>1. taken \in 0..Len(pairs)
    BY <1>4, <1>7
  <2>2. \A i \in 1..taken : pairs[i].base_id < Len(known) /\ FitsWidths(pairs[i], l_id, l_d)
    BY <1>3, <1>4, <1>7
  <2> DEFINE made == ChunksFrom(known, pairs, taken, l_d)
  <2>3. /\ made \in Seq(Chunk) /\ Len(made) = taken
        /\ \A i \in 1..taken : Encodes(pairs[i], l_d, made[i], known)
    BY ONLY <1>2, <1>4, <1>5, <2>1, <2>2, ChunksAreMade
  <2> QED BY <1>14, <2>3
<1> DEFINE all == C \o chunks
<1>16. /\ all \in Seq(Chunk) /\ Len(all) = Len(C) + taken /\ Len(all) \in Nat
       /\ Continues(C, all)
       /\ \A i \in 1..taken : all[Len(C) + i] = chunks[i]
  <2>1. C \in Seq(Chunk) /\ chunks \in Seq(Chunk) /\ Len(chunks) = taken
    BY <1>1, <1>15
  <2>2. all \in Seq(Chunk) /\ Len(C) \in Nat /\ taken \in Nat /\ Len(all) = Len(C) + taken
    BY ONLY <2>1, ConcatPlaces
  <2>3. /\ \A i \in 1..Len(C) : all[i] = C[i]
        /\ \A i \in 1..taken : all[Len(C) + i] = chunks[i]
    BY ONLY <2>1, ConcatPlaces
  <2> QED BY <2>2, <2>3 DEF Continues
<1> HIDE DEF all
<1>17. Layout(Append(splits, longer), Len(all), known, all)
  <2>1. \A i \in 1..Len(more) : Encodes(more[i], split.l_d, all[Len(C) + i], known)
    BY <1>10, <1>15, <1>16 DEF l_d
  <2>2. longer.l_d = split.l_d
    BY <1>12 DEF l_d
  <2>3. Len(C) + Len(more) <= Len(all)
    BY <1>1, <1>10, <1>16
  <2>4. Layout(Append(splits, longer), Len(C) + Len(more), known, all)
    BY <1>1, <1>5, <1>10, <1>12, <1>16, <2>1, <2>2, <2>3, LayoutMore
  <2> QED BY <1>10, <1>16, <2>4
<1>18. HasItsWidths(longer)
  <2> DEFINE k == Len(split.pairs)
  <2>1. /\ k \in Nat
        /\ \A i \in 1..k : longer.pairs[i] = split.pairs[i]
        /\ \A i \in 1..taken : longer.pairs[k + i] = more[i]
    BY <1>2, <1>10, <1>12, ConcatProperties
  <2>2. ASSUME NEW i \in 1..Len(longer.pairs)
        PROVE  FitsWidths(longer.pairs[i], l_id, l_d)
    <3>1. CASE i <= k
      <4>1. i \in 1..k
        BY <1>12, <2>1, <3>1
      <4> QED BY <1>1, <2>1, <4>1 DEF HasItsWidths, l_id, l_d
    <3>2. CASE ~ (i <= k)
      <4> DEFINE j == i - k
      <4>1. j \in 1..taken /\ j \in 1..n /\ k + j = i
        BY <1>3, <1>7, <1>10, <1>12, <2>1, <3>2
      <4> HIDE DEF j
      <4> QED BY <1>4, <1>10, <2>1, <4>1
    <3> QED BY <3>1, <3>2
  <2> QED BY <1>12, <2>2 DEF HasItsWidths
<1>19. Len(longer.pairs) <= ChunksPerSplit
  <2>1. Len(split.pairs) + n <= ChunksPerSplit
    BY DEF split, n
  <2> QED BY <1>3, <1>7, <1>12, <2>1, ConfigConstants
<1>20. HasCollected(c2, all)
  <2>1. \A s \in 1..Len(splits) :
           HasItsWidths(splits[s]) /\ Len(splits[s].pairs) = ChunksPerSplit
    BY DEF HasCollected, splits
  <2> QED BY <1>1, <1>5, <1>12, <1>16, <1>17, <1>18, <1>19, <2>1, CollectedAgain DEF c2
<1> QED BY <1>7, <1>13, <1>15, <1>20 DEF all, chunks, n

----------------------------------------------------------------------------
(* A packet that an encoder made, arriving at any time.                    *)

(* What can be said of every packet that an encoder returned.              *)
WellSent(packet) ==
  /\ packet \in StreamPacket /\ packet.chunk_count >= 1
  /\ packet.parameters_present =>
       \E l_id \in Nat, l_d \in 0..ChunkBitLen : packet.parameters = <<l_id, l_d>>

(* A packet brings the collector from the chunks C to C2, or part of it    *)
(* does: then it is refused.                                               *)
Took(c2, ok, packet, C, C2) ==
  /\ HasCollected(c2, C2) /\ Continues(C, C2) /\ ok \in BOOLEAN
  /\ Len(C2) \in Len(C)..(Len(C) + packet.chunk_count)
  /\ ok <=> Len(C2) = Len(C) + packet.chunk_count

(* All of a packet's pairs are read into the split that it finds.          *)
ReadsInto(begun, packet, c2, C, C2) ==
  LET split == begun.current_split[1]
  IN  /\ begun.current_split # <<>>
      /\ HasCollected(begun, C)
      /\ IsLongEnough(packet, split.l_id, split.l_d)
      /\ PayloadTaken(begun, packet, packet.chunk_count, c2)
      /\ C2 = C \o ChunksTaken(begun, packet, packet.chunk_count)

(* The collector that has begun the split into which a packet goes.        *)
StartsFrom(c, packet, begun) ==
  /\ begun.dictionary = c.dictionary
  /\ packet.parameters_present =>
       /\ packet.parameters[1] <= IdBits
       /\ packet.parameters
            = <<begun.current_split[1].l_id, begun.current_split[1].l_d>>
  /\ ~ packet.parameters_present => begun = c

(* What comes of filling a packet into the current split, and of taking it *)
(* wherever it belongs.                                                    *)
Fills(c, packet, c2, ok, C, C2) ==
  /\ Filling(c, packet) = [collector |-> c2, ok |-> ok]
  /\ Took(c2, ok, packet, C, C2)
  /\ ok => ReadsInto(c, packet, c2, C, C2)

Takes(c, packet, c2, ok, C, C2) ==
  /\ IngestPacket(c, packet) = [collector |-> c2, ok |-> ok]
  /\ Took(c2, ok, packet, C, C2)
  /\ ok => \E begun : StartsFrom(c, packet, begun) /\ ReadsInto(begun, packet, c2, C, C2)

(* A refused packet need not leave anything.                               *)
LEMMA TookNothing ==
  ASSUME NEW c2, NEW packet, WellSent(packet), NEW C, HasCollected(c2, C)
  PROVE  Took(c2, FALSE, packet, C, C)
<1>1. Len(C) \in Nat
  BY PartsCollected
<1>2. packet.chunk_count \in Nat /\ packet.chunk_count >= 1
  BY DEF WellSent, StreamPacket
<1>3. Continues(C, C)
  BY <1>1, ContinuesItself
<1> QED BY <1>1, <1>2, <1>3 DEF Took

(* What a packet fills into the current split.                             *)
LEMMA FillingTakes ==
  ASSUME NEW c, NEW C, HasCollected(c, C), c.current_split # <<>>,
         NEW packet, WellSent(packet)
  PROVE  \E c2, ok, C2 : Fills(c, packet, c2, ok, C, C2)
<1> DEFINE split == c.current_split[1]
           n == packet.chunk_count
<1>1. packet \in StreamPacket /\ n \in Nat /\ n >= 1
  BY DEF WellSent, StreamPacket
<1>2. /\ Len(split.pairs) \in Nat /\ C \in Seq(Chunk) /\ Len(C) \in Nat
      /\ split.l_id \in Nat /\ split.l_d \in 0..ChunkBitLen
  <2>1. split \in Split /\ C \in Seq(Chunk) /\ Len(C) \in Nat
    BY PartsCollected
  <2> QED BY <2>1, SplitFields
<1> DEFINE m == packet.new_base_count * ChunkBitLen
           w == split.l_id + split.l_d
           k == n * w
           have == Len(packet.payload)
<1>20. /\ m \in Nat /\ k \in Nat /\ have \in Nat
       /\ IsLongEnough(packet, split.l_id, split.l_d) <=> m + k <= have
  <2>1. packet.new_base_count \in Nat /\ have \in Nat
    BY <1>1 DEF StreamPacket
  <2>2. m \in Nat
    BY <2>1, Geometry
  <2>3. w \in Nat
    BY <1>2
  <2>4. k \in Nat
    <3> HIDE DEF w
    <3> QED BY <1>1, <2>3
  <2> QED BY <2>1, <2>2, <2>4 DEF IsLongEnough
<1>21. Filling(c, packet) = IF Len(split.pairs) + n > ChunksPerSplit \/ have < m + k
                            THEN Refused(c) ELSE IngestPayload(c, packet)
  BY Zenon DEF Filling
<1> HIDE DEF m, k, have, n
<1>3. CASE /\ IsLongEnough(packet, split.l_id, split.l_d)
           /\ Len(split.pairs) + n <= ChunksPerSplit
  <2>1. PICK taken, c2 :
          /\ taken \in 0..n
          /\ PayloadTaken(c, packet, taken, c2)
          /\ ChunksTaken(c, packet, taken) \in Seq(Chunk)
          /\ Len(ChunksTaken(c, packet, taken)) = taken
          /\ HasCollected(c2, C \o ChunksTaken(c, packet, taken))
    BY <1>1, <1>3, PayloadAdds, Zenon DEF n
  <2> DEFINE more == ChunksTaken(c, packet, taken)
             all == C \o more
             ok == (taken = n)
  <2>2. IngestPayload(c, packet) = [collector |-> c2, ok |-> ok]
    BY <2>1, Zenon DEF PayloadTaken, n
  <2>3. Filling(c, packet) = IngestPayload(c, packet)
    <3>1. ~ (Len(split.pairs) + n > ChunksPerSplit)
      BY <1>1, <1>2, <1>3, ConfigConstants
    <3>2. ~ (have < m + k)
      BY <1>3, <1>20
    <3> QED BY <1>21, <3>1, <3>2, Zenon
  <2>4. /\ all \in Seq(Chunk) /\ Len(all) = Len(C) + taken
        /\ Continues(C, all)
    <3>1. C \in Seq(Chunk) /\ more \in Seq(Chunk) /\ Len(more) = taken
      BY <1>2, <2>1
    <3> HIDE DEF more
    <3>2. all \in Seq(Chunk) /\ Len(C) \in Nat /\ taken \in Nat /\ Len(all) = Len(C) + taken
      BY ONLY <3>1, ConcatPlaces
    <3>3. \A i \in 1..Len(C) : all[i] = C[i]
      BY ONLY <3>1, ConcatPlaces
    <3> QED BY <3>2, <3>3 DEF Continues
  <2> HIDE DEF more
  <2>5. Took(c2, ok, packet, C, all)
    <3>1. HasCollected(c2, all)
      BY <2>1, Zenon DEF more
    <3> HIDE DEF all
    <3>2. ok \in BOOLEAN /\ taken \in Nat /\ taken <= n
      BY <1>1, <2>1
    <3>3. Len(all) \in Len(C)..(Len(C) + n) /\ (ok <=> Len(all) = Len(C) + n)
      BY <1>1, <1>2, <2>1, <2>4
    <3> HIDE DEF ok
    <3> QED BY <2>4, <3>1, <3>2, <3>3, Zenon DEF Took, n
  <2>6. ASSUME ok PROVE ReadsInto(c, packet, c2, C, all)
    BY <1>3, <2>1, <2>6, Zenon DEF ReadsInto, more, n
  <2> HIDE DEF all, ok
  <2>7. Fills(c, packet, c2, ok, C, all)
    BY <2>2, <2>3, <2>5, <2>6, Zenon DEF Fills
  <2> QED BY <2>7
<1>4. CASE ~ /\ IsLongEnough(packet, split.l_id, split.l_d)
             /\ Len(split.pairs) + n <= ChunksPerSplit
  <2>1. Filling(c, packet) = Refused(c)
    <3>1. Len(split.pairs) + n > ChunksPerSplit \/ have < m + k
      BY <1>1, <1>2, <1>4, <1>20, ConfigConstants
    <3> QED BY <1>21, <3>1, Zenon
  <2>2. Took(c, FALSE, packet, C, C)
    BY TookNothing
  <2>3. Fills(c, packet, c, FALSE, C, C)
    BY <2>1, <2>2, Zenon DEF Fills, Refused
  <2> QED BY <2>3
<1> QED BY <1>3, <1>4

(* What the collector makes of it.                                         *)
LEMMA IngestTakes ==
  ASSUME NEW c, NEW C, HasCollected(c, C), NEW packet, WellSent(packet)
  PROVE  \E c2, ok, C2 : Takes(c, packet, c2, ok, C, C2)
<1>1. c \in Collected
  BY DEF HasCollected
<1>2. ASSUME NEW c2, HasCollected(c2, C), IngestPacket(c, packet) = Refused(c2)
      PROVE  \E c3, ok, C2 : Takes(c, packet, c3, ok, C, C2)
  <2>1. Took(c2, FALSE, packet, C, C)
    BY <1>2, TookNothing
  <2>2. Takes(c, packet, c2, FALSE, C, C)
    BY <1>2, <2>1, Zenon DEF Takes, Refused
  <2> QED BY <2>2
<1>3. CASE ~ packet.parameters_present /\ c.current_split = <<>>
  <2>1. IngestPacket(c, packet) = Refused(c)
    BY <1>3, Zenon DEF IngestPacket
  <2> QED BY <1>2, <2>1, Zenon
<1>4. CASE ~ packet.parameters_present /\ c.current_split # <<>>
  <2>1. IngestPacket(c, packet) = Filling(c, packet)
    BY <1>4, GoesOnOrRefuses
  <2>2. StartsFrom(c, packet, c)
    BY <1>4 DEF StartsFrom
  <2>3. PICK c2, ok, C2 : Fills(c, packet, c2, ok, C, C2)
    BY <1>4, FillingTakes
  <2>4. Takes(c, packet, c2, ok, C, C2)
    BY <2>1, <2>2, <2>3, Zenon DEF Takes, Fills
  <2> QED BY <2>4
<1>5. CASE packet.parameters_present /\ MidSplit(c)
  <2>1. IngestPacket(c, packet) = Refused(c)
    BY <1>5, Zenon DEF IngestPacket
  <2> QED BY <1>2, <2>1, Zenon
<1>6. CASE packet.parameters_present /\ ~ MidSplit(c)
  <2>1. PICK l_id \in Nat, l_d \in 0..ChunkBitLen : packet.parameters = <<l_id, l_d>>
    BY <1>6, Zenon DEF WellSent
  <2> DEFINE begun == Opened(c, l_id, l_d)
  <2>2. AsGood(c, c)
    BY <1>1, <1>6, Zenon DEF AsGood
  <2>3. \/ IngestPacket(c, packet) = Refused(CloseSplit(c))
        \/ IngestPacket(c, packet) = Filling(begun, packet) /\ l_id <= IdBits
    <3>1. \/ IngestPacket(c, packet) = Refused(CloseSplit(c))
          \/ IngestPacket(c, packet) = Filling(begun, packet) /\ ~ (l_id > IdBits)
      BY <1>1, <1>6, <2>1, <2>2, BeginsOrRefuses, Zenon
    <3>2. ~ (l_id > IdBits) => l_id <= IdBits
      BY Constants
    <3> QED BY <3>1, <3>2, Zenon
  <2>4. /\ HasCollected(begun, C)
        /\ begun.dictionary = c.dictionary
        /\ begun.current_split # <<>>
        /\ begun.current_split[1].l_id = l_id
        /\ begun.current_split[1].l_d = l_d
    <3>1. ~ MidSplit(c)
      BY <1>6
    <3> QED BY <3>1, OpenedHasCollected
  <2> HIDE DEF begun
  <2>5. CASE IngestPacket(c, packet) = Refused(CloseSplit(c))
    <3>1. HasCollected(CloseSplit(c), C)
      BY <1>6, ClosedHasCollected, Zenon
    <3> QED BY <1>2, <2>5, <3>1, Zenon
  <2>6. CASE IngestPacket(c, packet) = Filling(begun, packet) /\ l_id <= IdBits
    <3>1. StartsFrom(c, packet, begun)
      <4>1. packet.parameters[1] = l_id
        BY <2>1
      <4> QED BY <1>6, <2>1, <2>4, <2>6, <4>1, Zenon DEF StartsFrom
    <3>2. PICK c2, ok, C2 : Fills(begun, packet, c2, ok, C, C2)
      BY <2>4, FillingTakes
    <3>3. Takes(c, packet, c2, ok, C, C2)
      BY <2>6, <3>1, <3>2, Zenon DEF Takes, Fills
    <3> QED BY <3>3
  <2> QED BY <2>3, <2>5, <2>6
<1> QED BY <1>3, <1>4, <1>5, <1>6

----------------------------------------------------------------------------
(* The decoder beside the collector.                                       *)

(* A decoder that knows what the collector does.                           *)
DecoderBeside(c) ==
  [dictionary |-> c.dictionary,
   parameters |-> IF c.current_split = <<>> THEN <<>>
                  ELSE <<c.current_split[1].l_id, c.current_split[1].l_d>>]

(* A packet that the collector accepts is decoded into the chunks that the *)
(* collector's pairs stand for.                                            *)
LEMMA AcceptedIsDecoded ==
  ASSUME NEW c, NEW packet, WellSent(packet), NEW begun, StartsFrom(c, packet, begun),
         NEW c2, NEW C, NEW C2, ReadsInto(begun, packet, c2, C, C2)
  PROVE  DecodePacket(DecoderBeside(c), packet)
           = [decoder |-> DecoderBeside(c2),
              samples |-> Samples(ChunksTaken(begun, packet, packet.chunk_count)),
              ok      |-> TRUE]
<1> DEFINE split == begun.current_split[1]
           l_id == split.l_id
           l_d == split.l_d
           n == packet.chunk_count
           m == packet.new_base_count
           known == c.dictionary \o BasesIn(packet)
           pairs == PairsIn(packet, l_id, l_d)
           cut == Cut(packet.payload, m * ChunkBitLen, n, l_id + l_d)
           chunks == ChunksTaken(begun, packet, n)
           widths == <<l_id, l_d>>
           d == DecoderBeside(c)
           current == [dictionary |-> c.dictionary, parameters |-> widths]
<1>1. /\ packet \in StreamPacket /\ n \in Nat /\ m \in Nat /\ Len(packet.payload) \in Nat
  BY DEF WellSent, StreamPacket
<1>2. /\ begun.current_split # <<>> /\ HasCollected(begun, C)
      /\ IsLongEnough(packet, l_id, l_d)
      /\ begun.dictionary = c.dictionary
  BY Zenon DEF ReadsInto, StartsFrom
<1>3. l_id \in Nat /\ l_d \in 0..ChunkBitLen /\ l_d <= ChunkBitLen
  <2>1. split \in Split
    BY <1>2, PartsCollected
  <2>2. l_id \in Nat /\ l_d \in 0..ChunkBitLen
    BY <2>1, SplitFields
  <2> QED BY <2>2, Geometry
<1>4. /\ \A i \in 1..n : pairs[i].base_id < Len(known)
      /\ c2.dictionary = known /\ c2.current_split # <<>>
      /\ c2.current_split[1].l_id = l_id /\ c2.current_split[1].l_d = l_d
  <2>1. PayloadTaken(begun, packet, n, c2)
    BY Zenon DEF ReadsInto
  <2> QED BY <1>2, <2>1, Zenon DEF PayloadTaken
<1>5. (IF packet.parameters_present THEN [d EXCEPT !.parameters = packet.parameters]
       ELSE d) = current
  <2>1. CASE packet.parameters_present
    <3>1. packet.parameters = widths
      BY <2>1, Zenon DEF StartsFrom
    <3> HIDE DEF widths
    <3> QED BY <2>1, <3>1 DEF DecoderBeside
  <2>2. CASE ~ packet.parameters_present
    <3>1. begun = c
      BY <2>2, Zenon DEF StartsFrom
    <3> QED BY <1>2, <2>2, <3>1, Zenon DEF DecoderBeside
  <2> QED BY <2>1, <2>2
<1>6. current.parameters # <<>> /\ current.parameters[1] = l_id /\ current.parameters[2] = l_d
      /\ current.dictionary = c.dictionary
  OBVIOUS
<1>7. /\ ~ (packet.parameters_present /\ Len(packet.parameters) < 2)
      /\ ~ (packet.parameters_present
            /\ (packet.parameters[1] > IdBits \/ packet.parameters[2] > ChunkBitLen))
  <2> SUFFICES ASSUME packet.parameters_present
               PROVE  /\ ~ (Len(packet.parameters) < 2)
                      /\ ~ (packet.parameters[1] > IdBits)
                      /\ ~ (packet.parameters[2] > ChunkBitLen)
    OBVIOUS
  <2>1. packet.parameters = widths /\ packet.parameters[1] <= IdBits
    BY Zenon DEF StartsFrom
  <2>2. Len(packet.parameters) = 2 /\ packet.parameters[1] = l_id /\ packet.parameters[2] = l_d
    BY <2>1
  <2> HIDE DEF l_id, l_d
  <2> QED BY <1>3, <2>1, <2>2, Constants, Geometry
<1> HIDE DEF current, known, pairs, cut, chunks, d
<1>8. ~ (Len(packet.payload) < m * ChunkBitLen + n * (l_id + l_d))
  <2> DEFINE x == m * ChunkBitLen
             w == l_id + l_d
             y == n * w
  <2>1. x \in Nat
    <3>1. ChunkBitLen \in Nat
      BY Geometry
    <3> HIDE DEF m
    <3> QED BY ONLY <1>1, <3>1
  <2>2. w \in Nat /\ y \in Nat
    <3> HIDE DEF l_id, l_d, n
    <3>1. w \in Nat
      BY <1>3
    <3> HIDE DEF w
    <3> QED BY <1>1, <3>1
  <2>3. x + y <= Len(packet.payload)
    BY <1>2, Zenon DEF IsLongEnough
  <2> HIDE DEF x, y
  <2>4. ~ (Len(packet.payload) < x + y)
    BY <1>1, <2>1, <2>2, <2>3
  <2> QED BY <2>4 DEF x, y, w
<1> DEFINE truncated_fields == packet.parameters_present /\ Len(packet.parameters) < 2
           invalid == packet.parameters_present
             /\ (packet.parameters[1] > IdBits \/ packet.parameters[2] > ChunkBitLen)
           now == IF packet.parameters_present
                  THEN [d EXCEPT !.parameters = packet.parameters] ELSE d
<1>9. DecodePacket(d, packet)
        = IF truncated_fields \/ invalid \/ now.parameters = <<>>
          THEN Rejected(d)
          ELSE IF Len(packet.payload)
                    < m * ChunkBitLen + n * (now.parameters[1] + now.parameters[2])
               THEN Rejected(now)
               ELSE DecodePayload(now, packet)
  BY Zenon DEF DecodePacket
<1>10. DecodePacket(d, packet) = DecodePayload(current, packet)
  <2>1. ~ truncated_fields /\ ~ invalid
    BY <1>7
  <2>2. now = current
    BY <1>5
  <2> HIDE DEF truncated_fields, invalid, now, d, m, n, l_id, l_d
  <2> QED BY <1>6, <1>8, <1>9, <2>1, <2>2, Zenon
<1> DEFINE Base(pair) == ReadValue(SubSeq(pair, 1, l_id)) + 1
           Restored(pair) ==
             InverseTransformChunk(UnpackSamples(known[Base(pair)]),
                                   SubSeq(pair, l_id + 1, l_id + l_d), l_d)
           grown == [current EXCEPT !.dictionary = known]
<1>11. DecodePayload(current, packet)
         = IF \A i \in 1..n : Base(cut[i]) <= Len(known)
           THEN [decoder |-> grown, samples |-> Samples([i \in 1..n |-> Restored(cut[i])]),
                 ok |-> TRUE]
           ELSE Rejected(grown)
  BY <1>6, Zenon DEF DecodePayload, BasesIn, known, cut
<1>12. ASSUME NEW i \in 1..n
       PROVE  /\ pairs[i].base_id = ReadValue(SubSeq(cut[i], 1, l_id))
              /\ pairs[i].deviation_bits = SubSeq(cut[i], l_id + 1, l_id + l_d)
  <2> DEFINE id == ReadValue(SubSeq(cut[i], 1, l_id))
             bits == SubSeq(cut[i], l_id + 1, l_id + l_d)
  <2>1. pairs[i] = [base_id |-> id, deviation_bits |-> bits]
    BY DEF PairsIn, pairs, cut
  <2> HIDE DEF id, bits
  <2>2. pairs[i].base_id = id /\ pairs[i].deviation_bits = bits
    BY <2>1
  <2> QED BY <2>2 DEF id, bits
<1>13. \A i \in 1..n : Base(cut[i]) <= Len(known)
  <2> SUFFICES ASSUME NEW i \in 1..n PROVE Base(cut[i]) <= Len(known)
    OBVIOUS
  <2>1. pairs[i].base_id < Len(known) /\ pairs[i].base_id \in Nat
    <3>1. \A k \in 1..n : pairs[k] \in Pair
      <4>1. pairs \in Seq(Pair) /\ Len(pairs) = n
        BY <1>1, <1>2, <1>3, PacketIsRead DEF pairs
      <4> QED BY <4>1
    <3> QED BY <1>4, <3>1 DEF Pair
  <2>2. Base(cut[i]) = pairs[i].base_id + 1
    BY <1>12, Zenon
  <2>3. Len(known) \in Nat
    <3>1. c.dictionary \in Seq(PackedBase)
      BY <1>2, PartsCollected
    <3>2. BasesIn(packet) \in Seq(PackedBase)
      BY <1>1, <1>2, <1>3, PacketIsRead
    <3>3. known \in Seq(PackedBase)
      BY <3>1, <3>2 DEF known
    <3> QED BY <3>3
  <2> HIDE DEF Base
  <2> QED BY <2>1, <2>2, <2>3
<1>14. [i \in 1..n |-> Restored(cut[i])] = chunks
  <2>1. chunks = ChunksFrom(known, pairs, n, l_d)
    BY <1>2, Zenon DEF ChunksTaken, chunks, known, pairs
  <2>2. \A i \in 1..n : Restored(cut[i]) = ChunkFrom(known, pairs[i], l_d)
    BY <1>12, Zenon DEF ChunkFrom
  <2> HIDE DEF Restored
  <2> QED BY <2>1, <2>2 DEF ChunksFrom
<1>15. grown = DecoderBeside(c2)
  <2>1. grown = [dictionary |-> known, parameters |-> widths]
    <3> HIDE DEF widths
    <3> QED BY DEF current
  <2> QED BY <1>4, <2>1, Zenon DEF DecoderBeside
<1> HIDE DEF grown, Base, Restored
<1>16. DecodePayload(current, packet)
         = [decoder |-> grown, samples |-> Samples(chunks), ok |-> TRUE]
  BY <1>11, <1>13, <1>14, Zenon
<1> QED BY <1>10, <1>15, <1>16, Zenon DEF chunks, d

(* The chunks of a packet that is accepted.                                *)
LEMMA TakenAreChunks ==
  ASSUME NEW packet, WellSent(packet), NEW begun,
         NEW c2, NEW C, NEW C2, ReadsInto(begun, packet, c2, C, C2)
  PROVE  ChunksTaken(begun, packet, packet.chunk_count) \in Seq(Chunk)
<1> DEFINE split == begun.current_split[1]
           l_id == split.l_id
           l_d == split.l_d
           n == packet.chunk_count
           known == begun.dictionary \o BasesIn(packet)
           pairs == PairsIn(packet, l_id, l_d)
<1>1. packet \in StreamPacket /\ n \in Nat
  BY DEF WellSent, StreamPacket
<1>2. begun.current_split # <<>> /\ HasCollected(begun, C) /\ IsLongEnough(packet, l_id, l_d)
  BY Zenon DEF ReadsInto
<1>3. l_id \in Nat /\ l_d \in 0..ChunkBitLen /\ begun.dictionary \in Seq(PackedBase)
  <2>1. split \in Split /\ begun.dictionary \in Seq(PackedBase)
    BY <1>2, PartsCollected
  <2> QED BY <2>1, SplitFields
<1>4. /\ BasesIn(packet) \in Seq(PackedBase) /\ pairs \in Seq(Pair) /\ Len(pairs) = n
      /\ \A i \in 1..n : FitsWidths(pairs[i], l_id, l_d)
  BY <1>1, <1>2, <1>3, PacketIsRead
<1>5. known \in Seq(PackedBase)
  BY <1>3, <1>4
<1>6. \A i \in 1..n : pairs[i].base_id < Len(known)
  BY Zenon DEF ReadsInto, PayloadTaken
<1> HIDE DEF known, pairs, l_id, l_d, n
<1> DEFINE chunks == ChunksFrom(known, pairs, n, l_d)
<1>7. n \in 0..Len(pairs)
  BY <1>1, <1>4
<1>8. chunks \in Seq(Chunk)
  BY ONLY <1>3, <1>4, <1>5, <1>6, <1>7, ChunksAreMade
<1> QED BY <1>8, Zenon DEF ChunksTaken, known, pairs, l_id, l_d, n

----------------------------------------------------------------------------
(* Decoder and collector behind a transport that loses, repeats and        *)
(* reorders packets.                                                       *)

(* Every packet that is returned is one that was made.                     *)
LEMMA EmittedIsWellSent ==
  ASSUME TellsEverything, NEW k \in 1..Len(emitted)
  PROVE  WellSent(emitted[k])
<1>1. EncoderInv
  BY Zenon DEF TellsEverything
<1>2. PICK rows, B, C : Telling(rows, B, C)
  BY Zenon DEF TellsEverything
<1>3. emitted \in Seq(StreamPacket) /\ encoder.ready = <<>>
  BY <1>1, Zenon DEF EncoderInv, Between
<1>4. emitted \o encoder.ready = emitted
  BY <1>3, ConcatEmptySeq
<1>5. Story(emitted, rows, B, C)
  BY <1>2, <1>4, Zenon DEF Telling, Tells
<1> DEFINE packet == emitted[k]
<1>6. packet \in StreamPacket
  BY <1>3
<1>7. PICK pending \in Pending, l_id \in Nat, l_d \in 0..ChunkBitLen :
        packet = Packet(pending, l_id, l_d) /\ pending.pairs # <<>>
  BY <1>5, Zenon DEF Story, Carries
<1> HIDE DEF packet
<1>8. packet.chunk_count >= 1
  <2>1. packet.chunk_count = Len(pending.pairs)
    BY <1>7, PacketFields, Zenon
  <2>2. pending.pairs \in Seq(Pair) /\ pending.pairs # <<>>
    BY <1>7 DEF Pending
  <2>3. Len(pending.pairs) >= 1
    BY <2>2
  <2> QED BY <2>1, <2>3
<1>9. packet.parameters_present => packet.parameters = <<l_id, l_d>>
  <2>1. packet.parameters_present = pending.parameters_present
    BY <1>7, PacketFields, Zenon
  <2>2. pending.parameters_present => packet.parameters = <<l_id, l_d>>
    BY <1>7, PacketParameters, Zenon
  <2> QED BY <2>1, <2>2
<1>10. WellSent(packet)
  BY <1>6, <1>8, <1>9 DEF WellSent
<1> QED BY <1>10 DEF packet


----------------------------------------------------------------------------
(* Which of the chunks of a stream have arrived.                           *)

(* Before each of the packets so many chunks were sent.                    *)
ChunksSent(starts) ==
  /\ starts \in [1..(Len(emitted) + 1) -> Nat] /\ starts[1] = 0
  /\ \A k \in 1..Len(emitted) : starts[k + 1] = starts[k] + emitted[k].chunk_count

(* The numbers of a packet's chunks, and those of some packets.            *)
Cover(starts, k) == (starts[k] + 1)..starts[k + 1]

Covered(starts, sequence) == UNION {Cover(starts, sequence[j]) : j \in 1..Len(sequence)}

(* So many chunks are in a packet, and before it.                          *)
LEMMA ChunkCounts ==
  ASSUME NEW starts, ChunksSent(starts), emitted \in Seq(StreamPacket)
  PROVE  LET n == Len(emitted)
         IN  /\ n \in Nat /\ \A j \in 1..(n + 1) : starts[j] \in Nat
             /\ \A j \in 1..n : starts[j + 1] = starts[j] + emitted[j].chunk_count
             /\ \A j \in 1..n : emitted[j].chunk_count \in Nat
<1> DEFINE n == Len(emitted)
<1>1. n \in Nat /\ \A j \in 1..n : emitted[j] \in StreamPacket
  OBVIOUS
<1>2. \A j \in 1..n : emitted[j].chunk_count \in Nat
  BY <1>1 DEF StreamPacket
<1>3. /\ starts \in [1..(n + 1) -> Nat]
      /\ \A j \in 1..n : starts[j + 1] = starts[j] + emitted[j].chunk_count
  BY DEF ChunksSent
<1> HIDE DEF n
<1>4. \A j \in 1..(n + 1) : starts[j] \in Nat
  BY <1>3
<1> QED BY <1>1, <1>2, <1>3, <1>4 DEF n

(* Chunks are numbered upwards.                                            *)
LEMMA ChunksRise ==
  ASSUME NEW starts, ChunksSent(starts), emitted \in Seq(StreamPacket),
         NEW k \in 1..(Len(emitted) + 1), NEW l \in 1..(Len(emitted) + 1), k <= l
  PROVE  starts[k] <= starts[l]
<1> DEFINE n == Len(emitted)
           bad == {d \in Nat : k + d <= n + 1 /\ ~ (starts[k] <= starts[k + d])}
<1>1. /\ n \in Nat /\ \A j \in 1..(n + 1) : starts[j] \in Nat
      /\ \A j \in 1..n : starts[j + 1] = starts[j] + emitted[j].chunk_count
      /\ \A j \in 1..n : emitted[j].chunk_count \in Nat
  BY ChunkCounts
<1> HIDE DEF n
<1>2. bad = {}
  <2> SUFFICES ASSUME bad # {} PROVE FALSE
    OBVIOUS
  <2>1. PICK d \in bad : \A e \in bad : d <= e
    <3>1. bad \subseteq Nat
      OBVIOUS
    <3> HIDE DEF bad
    <3> QED BY <3>1, LeastElement
  <2>2. d \in Nat /\ k \in Nat /\ k + d <= n + 1 /\ ~ (starts[k] <= starts[k + d])
    BY <1>1, <2>1 DEF n
  <2>3. d # 0
    <3>1. starts[k] \in Nat
      BY <1>1 DEF n
    <3> QED BY <2>2, <3>1
  <2>4. d - 1 \in Nat /\ ~ (d <= d - 1) /\ k + (d - 1) \in 1..n /\ k + (d - 1) <= n + 1
        /\ (k + (d - 1)) + 1 = k + d
    BY <1>1, <2>2, <2>3
  <2>5. starts[k] <= starts[k + (d - 1)]
    BY <2>1, <2>4
  <2>6. starts[k + d] = starts[k + (d - 1)] + emitted[k + (d - 1)].chunk_count
    BY <1>1, <2>4
  <2>7. starts[k] \in Nat /\ starts[k + (d - 1)] \in Nat
        /\ emitted[k + (d - 1)].chunk_count \in Nat
    BY <1>1, <2>4 DEF n
  <2> DEFINE a == starts[k]
             b == starts[k + (d - 1)]
             c == starts[k + d]
             m == emitted[k + (d - 1)].chunk_count
  <2>8. a \in Nat /\ b \in Nat /\ m \in Nat /\ a <= b /\ c = b + m /\ ~ (a <= c)
    BY <2>2, <2>5, <2>6, <2>7
  <2> HIDE DEF a, b, c, m
  <2> QED BY <2>8
<1>3. l - k \in Nat /\ k + (l - k) = l /\ l <= n + 1
  BY <1>1 DEF n
<1> QED BY <1>2, <1>3

(* Each packet has its own.                                                *)
LEMMA ChunksCover ==
  ASSUME NEW starts, ChunksSent(starts), emitted \in Seq(StreamPacket)
  PROVE  /\ \A k \in 1..Len(emitted) :
              /\ Cover(starts, k) \subseteq 1..starts[Len(emitted) + 1]
              /\ IsFiniteSet(Cover(starts, k))
              /\ Cardinality(Cover(starts, k)) = emitted[k].chunk_count
         /\ \A k, l \in 1..Len(emitted) :
              k # l => Cover(starts, k) \cap Cover(starts, l) = {}
<1> DEFINE n == Len(emitted)
<1>1. /\ n \in Nat /\ \A j \in 1..(n + 1) : starts[j] \in Nat
      /\ \A j \in 1..n : starts[j + 1] = starts[j] + emitted[j].chunk_count
      /\ \A j \in 1..n : emitted[j].chunk_count \in Nat
  BY ChunkCounts
<1>2. ASSUME NEW k \in 1..n
      PROVE  /\ Cover(starts, k) \subseteq 1..starts[n + 1]
             /\ IsFiniteSet(Cover(starts, k))
             /\ Cardinality(Cover(starts, k)) = emitted[k].chunk_count
  <2> DEFINE a == starts[k]
             b == starts[k + 1]
             c == starts[n + 1]
             m == emitted[k].chunk_count
  <2>1. k \in 1..(n + 1) /\ k + 1 \in 1..(n + 1) /\ n + 1 \in 1..(n + 1) /\ k + 1 <= n + 1
    BY <1>1
  <2>2. b <= c
    BY <2>1, ChunksRise
  <2>3. a \in Nat /\ b \in Nat /\ c \in Nat /\ m \in Nat /\ b = a + m
    BY <1>1, <2>1
  <2>4. Cover(starts, k) = (a + 1)..b
    BY DEF Cover
  <2> HIDE DEF a, b, c, m
  <2>5. (a + 1)..b \subseteq 1..c
    BY <2>2, <2>3
  <2>6. /\ IsFiniteSet((a + 1)..b)
        /\ Cardinality((a + 1)..b) = IF a + 1 > b THEN 0 ELSE b - (a + 1) + 1
    <3>1. a + 1 \in Int /\ b \in Int
      BY <2>3
    <3> QED BY <3>1, FS_Interval, Zenon
  <2>7. Cardinality((a + 1)..b) = m
    BY <2>3, <2>6
  <2> QED BY <2>4, <2>5, <2>6, <2>7 DEF c, m
<1>3. ASSUME NEW k \in 1..n, NEW l \in 1..n, k < l
      PROVE  Cover(starts, k) \cap Cover(starts, l) = {}
  <2>1. k + 1 \in 1..(n + 1) /\ l \in 1..(n + 1) /\ k + 1 <= l
        /\ k \in 1..(n + 1) /\ l + 1 \in 1..(n + 1)
    BY <1>1, <1>3
  <2> DEFINE a == starts[k]
             b == starts[k + 1]
             c == starts[l]
             d == starts[l + 1]
  <2>2. b <= c
    BY <2>1, ChunksRise
  <2>3. a \in Nat /\ b \in Nat /\ c \in Nat /\ d \in Nat
    BY <1>1, <2>1
  <2>4. Cover(starts, k) = (a + 1)..b /\ Cover(starts, l) = (c + 1)..d
    BY DEF Cover
  <2> HIDE DEF a, b, c, d
  <2>5. ((a + 1)..b) \cap ((c + 1)..d) = {}
    BY <2>2, <2>3
  <2> QED BY <2>4, <2>5
<1>4. ASSUME NEW k \in 1..n, NEW l \in 1..n, k # l
      PROVE  Cover(starts, k) \cap Cover(starts, l) = {}
  <2>1. k < l \/ l < k
    BY <1>1, <1>4
  <2> QED BY <1>3, <2>1
<1> QED BY <1>2, <1>4

(* One of the packets, more or again.                                      *)
LEMMA CoveredOneMore ==
  ASSUME NEW starts, ChunksSent(starts), emitted \in Seq(StreamPacket),
         NEW sequence \in Seq(1..Len(emitted)), NEW i \in 1..Len(emitted)
  PROVE  LET before == Covered(starts, sequence)
             after == Covered(starts, Append(sequence, i))
             again == \E j \in 1..Len(sequence) : sequence[j] = i
         IN  /\ Cardinality(before) \in Nat
             /\ again => Cardinality(after) = Cardinality(before)
             /\ ~ again => Cardinality(after) = Cardinality(before) + emitted[i].chunk_count
<1> DEFINE n == Len(sequence)
           more == Append(sequence, i)
           own == Cover(starts, i)
           before == Covered(starts, sequence)
           after == Covered(starts, more)
           all == 1..starts[Len(emitted) + 1]
<1>1. /\ n \in Nat /\ Len(more) = n + 1 /\ more[n + 1] = i
      /\ \A j \in 1..n : more[j] = sequence[j] /\ sequence[j] \in 1..Len(emitted)
  OBVIOUS
<1>2. after = before \cup own
  <2> HIDE DEF more, own
  <2>1. \A x \in after : x \in before \cup own
    <3> SUFFICES ASSUME NEW x \in after PROVE x \in before \cup own
      OBVIOUS
    <3>1. PICK j \in 1..(n + 1) : x \in Cover(starts, more[j])
      BY <1>1 DEF Covered
    <3>2. CASE j = n + 1
      BY <1>1, <3>1, <3>2 DEF own
    <3>3. CASE j # n + 1
      <4>1. j \in 1..n
        BY <1>1, <3>3
      <4>2. x \in Cover(starts, sequence[j])
        BY <1>1, <3>1, <4>1
      <4> QED BY <4>1, <4>2 DEF Covered
    <3> QED BY <3>2, <3>3
  <2>2. \A x \in before : x \in after
    <3> SUFFICES ASSUME NEW x \in before PROVE x \in after
      OBVIOUS
    <3>1. PICK j \in 1..n : x \in Cover(starts, sequence[j])
      BY DEF Covered
    <3>2. j \in 1..Len(more) /\ x \in Cover(starts, more[j])
      BY <1>1, <3>1
    <3> QED BY <3>2 DEF Covered
  <2>3. \A x \in own : x \in after
    <3> SUFFICES ASSUME NEW x \in own PROVE x \in after
      OBVIOUS
    <3>1. n + 1 \in 1..Len(more) /\ x \in Cover(starts, more[n + 1])
      BY <1>1 DEF own
    <3> QED BY <3>1 DEF Covered
  <2> HIDE DEF before, after
  <2> QED BY <2>1, <2>2, <2>3
<1>3. /\ \A k \in 1..Len(emitted) : Cover(starts, k) \subseteq all
      /\ IsFiniteSet(own) /\ Cardinality(own) = emitted[i].chunk_count
      /\ \A k \in 1..Len(emitted) : k # i => Cover(starts, k) \cap own = {}
  BY ChunksCover, Z3
<1>4. IsFiniteSet(all)
  <2>1. starts[Len(emitted) + 1] \in Nat
    <3> DEFINE len == Len(emitted)
    <3>1. len \in Nat /\ starts \in [1..(len + 1) -> Nat]
      BY DEF ChunksSent
    <3> HIDE DEF len
    <3>2. starts[len + 1] \in Nat
      BY ONLY <3>1
    <3> QED BY ONLY <3>2 DEF len
  <2>2. 1 \in Int /\ starts[Len(emitted) + 1] \in Int
    BY <2>1
  <2> QED BY <2>2, FS_Interval, Zenon
<1> HIDE DEF all, own
<1>5. before \subseteq all
  BY <1>1, <1>3 DEF Covered
<1>6. IsFiniteSet(before) /\ Cardinality(before) \in Nat
  <2>1. before \in SUBSET all
    BY <1>5
  <2> HIDE DEF before
  <2>2. IsFiniteSet(before)
    BY <1>4, <2>1, FS_Subset, Zenon
  <2> QED BY <2>2, FS_CardinalityType, Zenon
<1>7. ASSUME NEW j \in 1..n, sequence[j] = i PROVE after = before
  <2>1. own \subseteq before
    BY <1>7 DEF Covered, own
  <2> HIDE DEF before, after
  <2> QED BY <1>2, <2>1
<1>8. ASSUME ~ \E j \in 1..n : sequence[j] = i
      PROVE  Cardinality(after) = Cardinality(before) + emitted[i].chunk_count
  <2>1. before \cap own = {}
    <3> SUFFICES ASSUME NEW x \in before, x \in own PROVE FALSE
      OBVIOUS
    <3>1. PICK j \in 1..n : x \in Cover(starts, sequence[j])
      BY DEF Covered
    <3>2. sequence[j] # i /\ sequence[j] \in 1..Len(emitted)
      BY <1>1, <1>8, <3>1
    <3> QED BY <1>3, <3>1, <3>2
  <2>2. emitted[i].chunk_count \in Nat
    BY ChunkCounts
  <2> HIDE DEF before, after
  <2>3. Cardinality(before \cup own)
          = Cardinality(before) + Cardinality(own) - Cardinality(before \cap own)
    BY <1>3, <1>6, FS_Union, Zenon
  <2>4. Cardinality(before \cap own) = 0
    BY <2>1, FS_EmptySet, Zenon
  <2> QED BY <1>2, <1>3, <1>6, <2>2, <2>3, <2>4
<1> QED BY <1>6, <1>7, <1>8

(* Every chunk is one of a packet.                                         *)
LEMMA ChunksAreAllSent ==
  ASSUME NEW starts, ChunksSent(starts), emitted \in Seq(StreamPacket),
         NEW c \in 1..starts[Len(emitted) + 1]
  PROVE  \E k \in 1..Len(emitted) : c \in Cover(starts, k)
<1> DEFINE n == Len(emitted)
           later == {k \in 1..(n + 1) : c <= starts[k]}
<1>1. n \in Nat /\ \A j \in 1..(n + 1) : starts[j] \in Nat
  BY ChunkCounts
<1>2. starts[1] = 0 /\ c \in Nat /\ c >= 1 /\ c <= starts[n + 1]
  <2>1. starts[n + 1] \in Nat
    BY <1>1
  <2> QED BY <2>1 DEF ChunksSent
<1> HIDE DEF n
<1>3. n + 1 \in later /\ later \subseteq Nat
  BY <1>1, <1>2
<1>4. PICK k \in later : \A j \in later : k <= j
  <2> HIDE DEF later
  <2> QED BY <1>3, LeastElement
<1>5. k \in 1..(n + 1) /\ c <= starts[k]
  BY <1>4
<1>6. k # 1
  BY <1>2, <1>5
<1> DEFINE m == k - 1
<1>7. m \in 1..n /\ m \in 1..(n + 1) /\ m + 1 = k /\ ~ (k <= m)
  BY <1>1, <1>5, <1>6
<1>8. ~ (c <= starts[m])
  BY <1>4, <1>7
<1>9. starts[m] \in Nat /\ starts[m + 1] \in Nat /\ c <= starts[m + 1]
  BY <1>1, <1>5, <1>7
<1> HIDE DEF m
<1>10. c \in (starts[m] + 1)..starts[m + 1]
  BY <1>2, <1>8, <1>9
<1> QED BY <1>7, <1>10 DEF Cover, n

(* A sequence without repetitions, one longer.                             *)
LEMMA NeverRepeatedOneMore ==
  ASSUME NEW S, NEW sequence \in Seq(S), NEW x \in S
  PROVE  NeverRepeated(Append(sequence, x))
           <=> NeverRepeated(sequence) /\ ~ \E j \in 1..Len(sequence) : sequence[j] = x
<1> DEFINE n == Len(sequence)
           more == Append(sequence, x)
<1>1. /\ n \in Nat /\ DOMAIN sequence = 1..n /\ DOMAIN more = 1..(n + 1)
      /\ more[n + 1] = x /\ \A j \in 1..n : more[j] = sequence[j]
  OBVIOUS
<1> HIDE DEF n, more
<1>2. ASSUME NeverRepeated(more)
      PROVE  NeverRepeated(sequence) /\ ~ \E j \in 1..n : sequence[j] = x
  <2>1. \A i, j \in 1..(n + 1) : more[i] = more[j] => i = j
    BY <1>1, <1>2 DEF NeverRepeated
  <2>2. \A i, j \in 1..n : sequence[i] = sequence[j] => i = j
    BY <1>1, <2>1
  <2>3. ASSUME NEW j \in 1..n, sequence[j] = x PROVE FALSE
    <3>1. j \in 1..(n + 1) /\ n + 1 \in 1..(n + 1) /\ j # n + 1
      BY <1>1
    <3> QED BY <1>1, <2>1, <2>3, <3>1
  <2> QED BY <1>1, <2>2, <2>3 DEF NeverRepeated
<1>3. ASSUME NeverRepeated(sequence), ~ \E j \in 1..n : sequence[j] = x
      PROVE  NeverRepeated(more)
  <2>1. \A i, j \in 1..n : sequence[i] = sequence[j] => i = j
    BY <1>1, <1>3 DEF NeverRepeated
  <2>2. ASSUME NEW i \in 1..(n + 1), NEW j \in 1..(n + 1), more[i] = more[j]
        PROVE  i = j
    <3>1. CASE i \in 1..n /\ j \in 1..n
      BY <1>1, <2>1, <2>2, <3>1
    <3>2. CASE i = n + 1 /\ j \in 1..n
      BY <1>1, <1>3, <2>2, <3>2
    <3>3. CASE i \in 1..n /\ j = n + 1
      BY <1>1, <1>3, <2>2, <3>3
    <3>4. CASE i = n + 1 /\ j = n + 1
      BY <3>4
    <3>5. (i \in 1..n \/ i = n + 1) /\ (j \in 1..n \/ j = n + 1)
      BY <1>1
    <3> QED BY <3>1, <3>2, <3>3, <3>4, <3>5
  <2> QED BY <1>1, <2>2 DEF NeverRepeated
<1> QED BY <1>2, <1>3 DEF n, more

(* Of the packets seen, those taken gave the collector all their chunks,   *)
(* and the others not all of theirs.                                       *)
Noticed(starts, seen, taken, C) ==
  /\ NeverRepeated(seen) =>
       Len(C) + (Len(seen) - Len(taken)) <= Cardinality(Covered(starts, seen))
  /\ Cardinality(Covered(starts, taken)) <= Len(C)
  /\ NeverRepeated(taken) \/ Cardinality(Covered(starts, taken)) < Len(C)

(* Before any was seen.                                                    *)
LEMMA NoneNoticed == ASSUME NEW starts PROVE Noticed(starts, <<>>, <<>>, <<>>)
<1>1. Covered(starts, <<>>) = {}
  BY DEF Covered
<1>2. Cardinality(Covered(starts, <<>>)) = 0
  BY <1>1, FS_EmptySet, Zenon
<1>3. NeverRepeated(<<>>) /\ Len(<<>>) = 0
  BY DEF NeverRepeated
<1> DEFINE k == Cardinality(Covered(starts, <<>>))
<1> HIDE DEF k
<1>4. k = 0
  BY <1>2 DEF k
<1>5. Noticed(starts, <<>>, <<>>, <<>>)
        <=> /\ NeverRepeated(<<>>) => Len(<<>>) + (Len(<<>>) - Len(<<>>)) <= k
            /\ k <= Len(<<>>)
            /\ NeverRepeated(<<>>) \/ k < Len(<<>>)
  BY Zenon DEF Noticed, k
<1> QED BY <1>3, <1>4, <1>5

(* One more is seen, and taken or not.                                     *)
LEMMA NoticedOneMore ==
  ASSUME NEW starts, ChunksSent(starts), emitted \in Seq(StreamPacket),
         NEW seen \in Seq(1..Len(emitted)), NEW taken \in Seq(1..Len(emitted)),
         NEW i \in 1..Len(emitted), emitted[i].chunk_count >= 1,
         NEW c2, NEW ok, NEW C, Len(C) \in Nat, NEW C2,
         Took(c2, ok, emitted[i], C, C2), Noticed(starts, seen, taken, C)
  PROVE  Noticed(starts, Append(seen, i), IF ok THEN Append(taken, i) ELSE taken, C2)
<1> DEFINE n == emitted[i].chunk_count
           more == Append(seen, i)
           kept == IF ok THEN Append(taken, i) ELSE taken
           a == Cardinality(Covered(starts, seen))
           b == Cardinality(Covered(starts, taken))
           a2 == Cardinality(Covered(starts, more))
           b2 == Cardinality(Covered(starts, kept))
           t2 == Append(taken, i)
           again == \E j \in 1..Len(seen) : seen[j] = i
           retaken == \E j \in 1..Len(taken) : taken[j] = i
<1>1. n \in Nat /\ n >= 1
  BY ChunkCounts
<1>2. /\ Len(C2) \in Nat /\ Len(C) <= Len(C2) /\ Len(C2) <= Len(C) + n
      /\ ok <=> Len(C2) = Len(C) + n
  BY <1>1 DEF Took
<1>3. /\ Len(seen) \in Nat /\ Len(taken) \in Nat
      /\ Len(more) = Len(seen) + 1
      /\ Len(t2) = Len(taken) + 1
  OBVIOUS
<1>4. /\ NeverRepeated(more) <=> NeverRepeated(seen) /\ ~ again
      /\ NeverRepeated(t2) <=> NeverRepeated(taken) /\ ~ retaken
  BY NeverRepeatedOneMore
<1>5. /\ a \in Nat /\ b \in Nat
      /\ again => a2 = a
      /\ ~ again => a2 = a + n
      /\ retaken => Cardinality(Covered(starts, t2)) = b
      /\ ~ retaken => Cardinality(Covered(starts, t2)) = b + n
  BY CoveredOneMore
<1>6. /\ NeverRepeated(seen) => Len(C) + (Len(seen) - Len(taken)) <= a
      /\ b <= Len(C) /\ (NeverRepeated(taken) \/ b < Len(C))
  BY Zenon DEF Noticed
<1>7. /\ ok => kept = t2
      /\ ~ ok => kept = taken
  OBVIOUS
<1>8. Noticed(starts, more, kept, C2)
        <=> /\ NeverRepeated(more) => Len(C2) + (Len(more) - Len(kept)) <= a2
            /\ b2 <= Len(C2)
            /\ NeverRepeated(kept) \/ b2 < Len(C2)
  BY Zenon DEF Noticed
<1>9. (ok => b2 = Cardinality(Covered(starts, t2))) /\ (~ ok => b2 = b)
  BY <1>7
<1> HIDE DEF n, more, kept, t2, a, b, a2, b2, again, retaken
<1>10. CASE ok
  <2>1. kept = t2 /\ Len(kept) = Len(taken) + 1 /\ Len(C2) = Len(C) + n
    BY <1>2, <1>3, <1>7, <1>10
  <2>2. NeverRepeated(more) => Len(C2) + (Len(more) - Len(kept)) <= a2
    BY <1>1, <1>3, <1>4, <1>5, <1>6, <2>1
  <2>3. b2 <= Len(C2) /\ (NeverRepeated(kept) \/ b2 < Len(C2))
    BY <1>1, <1>4, <1>5, <1>6, <1>9, <1>10, <2>1
  <2> QED BY <1>8, <2>2, <2>3 DEF more, kept, t2
<1>11. CASE ~ ok
  <2>1. kept = taken /\ b2 = b /\ Len(C2) < Len(C) + n
    BY <1>1, <1>2, <1>7, <1>9, <1>11
  <2>2. NeverRepeated(more) => Len(C2) + (Len(more) - Len(kept)) <= a2
    BY <1>1, <1>2, <1>3, <1>4, <1>5, <1>6, <2>1
  <2>3. b2 <= Len(C2) /\ (NeverRepeated(kept) \/ b2 < Len(C2))
    BY <1>1, <1>2, <1>5, <1>6, <2>1
  <2> QED BY <1>8, <2>2, <2>3 DEF more, kept, t2
<1> QED BY <1>10, <1>11

(* A sample count is accepted for one number of chunks only.               *)
LEMMA CountDecides ==
  ASSUME NEW p \in Nat, NEW l \in Nat, NEW m \in Nat, NEW w \in Nat \ {0},
         w = SamplesPerChunk, CountFits(p, l * w), p <= m * w, m * w < p + w
  PROVE  l = m
<1>1. p <= l * w /\ (l * w > 0 => p > l * w - w)
  BY DEF CountFits
<1>2. ASSUME l < m PROVE FALSE
  <2>1. (l + 1) * w <= m * w
    <3>1. l + 1 <= m /\ l + 1 \in Nat
      BY <1>2
    <3> DEFINE a == l + 1
               d == m - a
    <3>2. d \in Nat /\ m = a + d /\ a \in Nat
      BY <3>1
    <3> HIDE DEF a, d
    <3>3. m * w = a * w + d * w /\ d * w \in Nat /\ a * w \in Nat
      BY <3>2
    <3>4. a * w <= m * w
      <4> DEFINE x == a * w
                 y == d * w
      <4> HIDE DEF x, y
      <4>1. x \in Nat /\ y \in Nat /\ m * w = x + y
        BY <3>3 DEF x, y
      <4>2. x <= m * w
        BY <4>1
      <4> QED BY <4>2 DEF x
    <3> QED BY <3>4 DEF a
  <2>2. (l + 1) * w = l * w + w
    OBVIOUS
  <2> DEFINE x == l * w
             y == m * w
  <2>3. x \in Nat /\ y \in Nat /\ x + w <= y /\ p <= x /\ y < p + w
    BY <1>1, <2>1, <2>2
  <2> HIDE DEF x, y
  <2> QED BY <2>3
<1>3. ASSUME m < l PROVE FALSE
  <2>1. (m + 1) * w <= l * w
    <3>1. m + 1 <= l /\ m + 1 \in Nat
      BY <1>3
    <3> DEFINE a == m + 1
               d == l - a
    <3>2. d \in Nat /\ l = a + d /\ a \in Nat
      BY <3>1
    <3> HIDE DEF a, d
    <3>3. l * w = a * w + d * w /\ d * w \in Nat /\ a * w \in Nat
      BY <3>2
    <3>4. a * w <= l * w
      <4> DEFINE x == a * w
                 y == d * w
      <4> HIDE DEF x, y
      <4>1. x \in Nat /\ y \in Nat /\ l * w = x + y
        BY <3>3 DEF x, y
      <4>2. x <= l * w
        BY <4>1
      <4> QED BY <4>2 DEF x
    <3> QED BY <3>4 DEF a
  <2>2. (m + 1) * w = m * w + w
    OBVIOUS
  <2> DEFINE x == l * w
             y == m * w
  <2>3. x \in Nat /\ y \in Nat /\ y + w <= x /\ p <= y /\ (x > 0 => p > x - w)
    BY <1>1, <2>1, <2>2
  <2> HIDE DEF x, y
  <2> QED BY <2>3
<1> QED BY <1>2, <1>3

(* No chunk arrives that was not sent.                                     *)
LEMMA CoveredIsSent ==
  ASSUME NEW starts, ChunksSent(starts), emitted \in Seq(StreamPacket),
         NEW sequence \in Seq(1..Len(emitted))
  PROVE  Covered(starts, sequence) \subseteq 1..starts[Len(emitted) + 1]
<1>1. SUFFICES ASSUME NEW c \in Covered(starts, sequence)
               PROVE  c \in 1..starts[Len(emitted) + 1]
  OBVIOUS
<1>2. PICK j \in 1..Len(sequence) : c \in Cover(starts, sequence[j])
  BY Zenon DEF Covered
<1>3. sequence[j] \in 1..Len(emitted)
  OBVIOUS
<1>4. Cover(starts, sequence[j]) \subseteq 1..starts[Len(emitted) + 1]
  BY <1>3, ChunksCover, Zenon
<1> QED BY <1>2, <1>4

(* So many numbers there are from 1.                                       *)
LEMMA IntervalCardinality ==
  ASSUME NEW n \in Nat
  PROVE  IsFiniteSet(1..n) /\ Cardinality(1..n) = n
<1>1. 1 \in Int /\ n \in Int
  OBVIOUS
<1>2. IsFiniteSet(1..n) /\ Cardinality(1..n) = IF 1 > n THEN 0 ELSE n - 1 + 1
  BY <1>1, FS_Interval, Zenon
<1> QED BY <1>2
----------------------------------------------------------------------------
(* What holds of faulty transports.                                        *)

(* Of what arrived, this much was taken.                                   *)
History ==
  /\ arrivals \in Seq(1..Len(emitted)) /\ collected \in Seq(1..Len(emitted))
  /\ Len(collected) <= Len(arrivals)
  /\ Len(collected) = Len(arrivals) => collected = arrivals
  /\ arrivals # <<>> => phase = "finished"

(* How many chunks that gave, for each way to number those of the packets. *)
Counted(C) ==
  /\ arrivals = <<>> => C = <<>>
  /\ \A starts : ChunksSent(starts) => Noticed(starts, arrivals, collected, C)

(* The chunks C are what the collector has; and, as long as it refused     *)
(* nothing, what was decoded.                                              *)
Kept(C) ==
  /\ HasCollected(collector, C)
  /\ collected = arrivals =>
       ~ undecoded /\ decoder = DecoderBeside(collector) /\ decoded = Samples(C)
  /\ Counted(C)

FaultsInv ==
  /\ TellsEverything
  /\ History
  /\ \E C : Kept(C)

(* The samples of some chunks.                                             *)
LEMMA SamplesOfChunks ==
  ASSUME NEW C \in Seq(Chunk)
  PROVE  /\ Samples(C) \in Seq(Sample)
         /\ Len(Samples(C)) = Len(C) * SamplesPerChunk
         /\ Len(C) * SamplesPerChunk \in Nat
<1>1. SamplesPerChunk \in Nat
  BY Geometry
<1> QED BY <1>1, JoinOfSeq DEF Samples, Chunk

(* Nothing has arrived.                                                    *)
LEMMA InitFaults == FaultsInit => FaultsInv
<1> SUFFICES ASSUME FaultsInit PROVE FaultsInv
  OBVIOUS
<1>1. EncoderInit /\ DecoderInit /\ CollectorInit
      /\ arrivals = <<>> /\ collected = <<>> /\ undecoded = FALSE
  BY DEF FaultsInit
<1>2. TellsEverything
  BY <1>1, InitEstablishes, InitTells, Zenon DEF TellsEverything
<1>3. HasCollected(collector, <<>>)
  BY <1>1, NothingCollected, Zenon DEF CollectorInit
<1>4. decoder = DecoderBeside(collector)
  BY <1>1, Zenon DEF DecoderInit, CollectorInit, NewDecoder, NewCollector, DecoderBeside
<1>5. decoded = Samples(<<>>)
  <2>1. <<>> \in Seq(Chunk) /\ Len(<<>>) = 0
    OBVIOUS
  <2>2. Samples(<<>>) \in Seq(Sample) /\ Len(Samples(<<>>)) = 0
    <3>1. Samples(<<>>) \in Seq(Sample) /\ Len(Samples(<<>>)) = Len(<<>>) * SamplesPerChunk
      BY <2>1, SamplesOfChunks, Zenon
    <3> QED BY <2>1, <3>1, Geometry
  <2>3. Samples(<<>>) = <<>>
    BY <2>2
  <2> QED BY <1>1, <2>3 DEF DecoderInit
<1>6. Counted(<<>>)
  BY <1>1, NoneNoticed, Zenon DEF Counted
<1>7. Kept(<<>>)
  BY <1>1, <1>3, <1>4, <1>5, <1>6, Zenon DEF Kept
<1>8. History
  BY <1>1 DEF History
<1> QED BY <1>2, <1>7, <1>8, Zenon DEF FaultsInv

(* The samples of more chunks.                                             *)
LEMMA SamplesOfMore ==
  ASSUME NEW C \in Seq(Chunk), NEW more \in Seq(Chunk)
  PROVE  Samples(C \o more) = Samples(C) \o Samples(more)
<1>1. SamplesPerChunk \in Nat
  BY Geometry
<1> QED BY <1>1, JoinConcat DEF Samples, Chunk

(* Whatever arrives, the collector keeps having whole chunks, and the      *)
(* decoder keeps up with it.                                               *)
LEMMA ArriveKeeps ==
  ASSUME FaultsInv, NEW i \in 1..Len(emitted), Arrive(i)
  PROVE  FaultsInv'
<1> DEFINE packet == emitted[i]
           n == packet.chunk_count
           decode == DecodePacket(decoder, packet)
<1>1. TellsEverything /\ WellSent(packet)
  <2>1. TellsEverything
    BY Zenon DEF FaultsInv
  <2> QED BY <2>1, EmittedIsWellSent
<1>2. TellsEverything'
  <2>1. UNCHANGED encoderVars
    BY Zenon DEF Arrive
  <2> QED BY <1>1, <2>1, NextTellsEverything, Zenon
<1>3. PICK C : Kept(C)
  BY Zenon DEF FaultsInv
<1>4. HasCollected(collector, C)
  BY <1>3, Zenon DEF Kept
<1>5. PICK c2, ok, C2 : Takes(collector, packet, c2, ok, C, C2)
  BY <1>1, <1>4, IngestTakes
<1>6. /\ IngestPacket(collector, packet) = [collector |-> c2, ok |-> ok]
      /\ HasCollected(c2, C2)
      /\ ok => \E begun : StartsFrom(collector, packet, begun)
                          /\ ReadsInto(begun, packet, c2, C, C2)
  BY <1>5, Zenon DEF Takes, Took
<1>7. collector' = c2 /\ ingested' = ok
  <2>1. Ingest(packet)
    BY Zenon DEF Arrive
  <2> QED BY <1>6, <2>1, IngestSets, Zenon
<1>8. /\ decoder' = decode.decoder /\ decoded' = decoded \o decode.samples
      /\ accepted' = decode.ok
      /\ arrivals' = Append(arrivals, i)
      /\ collected' = IF ingested' THEN Append(collected, i) ELSE collected
      /\ undecoded' = (undecoded \/ ~ accepted')
  BY Zenon DEF Arrive, Receive
<1>9. /\ arrivals \in Seq(Packets) /\ collected \in Seq(Packets)
      /\ Len(collected) <= Len(arrivals)
      /\ Len(collected) = Len(arrivals) => collected = arrivals
  BY Zenon DEF FaultsInv, History, Packets
<1>10. i \in Packets
  BY DEF Packets
<1>11. /\ arrivals' \in Seq(Packets) /\ collected' \in Seq(Packets)
       /\ Len(collected') <= Len(arrivals')
       /\ Len(collected') = Len(arrivals') => collected' = arrivals'
       /\ collected' = arrivals' => ok /\ collected = arrivals
       /\ arrivals' # <<>>
  <2>1. /\ Append(arrivals, i) \in Seq(Packets) /\ Append(collected, i) \in Seq(Packets)
        /\ Len(Append(arrivals, i)) = Len(arrivals) + 1
        /\ Len(Append(collected, i)) = Len(collected) + 1
        /\ Len(collected) \in Nat /\ Len(arrivals) \in Nat
    BY <1>9, <1>10
  <2>2. Append(arrivals, i) # <<>>
    BY <2>1
  <2>3. CASE ok
    <3>1. arrivals' = Append(arrivals, i) /\ collected' = Append(collected, i)
      BY <1>7, <1>8, <2>3
    <3>2. Append(collected, i) = Append(arrivals, i) => collected = arrivals
      BY <1>9, <1>10
    <3> QED BY <1>9, <2>1, <2>2, <2>3, <3>1, <3>2
  <2>4. CASE ~ ok
    <3>1. arrivals' = Append(arrivals, i) /\ collected' = collected
      BY <1>7, <1>8, <2>4
    <3>2. Len(collected) # Len(Append(arrivals, i))
      BY <1>9, <2>1
    <3> QED BY <1>9, <2>1, <2>2, <3>1, <3>2
  <2> QED BY <2>3, <2>4
<1> HIDE DEF decode, packet
<1>12. ASSUME collected' = arrivals'
       PROVE  ~ undecoded' /\ decoder' = DecoderBeside(collector') /\ decoded' = Samples(C2)
  <2>1. ok /\ ~ undecoded /\ decoder = DecoderBeside(collector) /\ decoded = Samples(C)
    BY <1>3, <1>11, <1>12, Zenon DEF Kept
  <2>2. PICK begun : StartsFrom(collector, packet, begun)
                     /\ ReadsInto(begun, packet, c2, C, C2)
    BY <1>6, <2>1
  <2> DEFINE more == ChunksTaken(begun, packet, n)
  <2>3. decode = [decoder |-> DecoderBeside(c2), samples |-> Samples(more), ok |-> TRUE]
    BY <1>1, <2>1, <2>2, AcceptedIsDecoded DEF decode
  <2>4. decode.decoder = DecoderBeside(c2) /\ decode.samples = Samples(more) /\ decode.ok = TRUE
    <3> HIDE DEF more
    <3> DEFINE x == DecoderBeside(c2)
               y == Samples(more)
    <3> HIDE DEF x, y
    <3>1. decode = [decoder |-> x, samples |-> y, ok |-> TRUE]
      BY <2>3 DEF x, y
    <3>2. decode.decoder = x /\ decode.samples = y /\ decode.ok = TRUE
      BY <3>1
    <3> QED BY <3>2 DEF x, y
  <2>5. C \in Seq(Chunk) /\ more \in Seq(Chunk) /\ C2 = C \o more
    <3>1. C2 = C \o more /\ C \in Seq(Chunk)
      BY <2>2, <1>4, Zenon DEF ReadsInto, HasCollected
    <3>2. more \in Seq(Chunk)
      BY <1>1, <2>2, TakenAreChunks
    <3> QED BY <3>1, <3>2
  <2> HIDE DEF more
  <2>6. decoded' = Samples(C2)
    <3>1. Samples(C \o more) = Samples(C) \o Samples(more)
      BY ONLY <2>5, SamplesOfMore
    <3>2. decoded' = decoded \o decode.samples
      BY ONLY <1>8, <2>4
    <3> QED BY ONLY <2>1, <2>4, <2>5, <3>1, <3>2, Zenon
  <2>7. accepted' = TRUE /\ decoder' = DecoderBeside(collector')
    BY <1>7, <1>8, <2>4, Zenon
  <2>8. ~ undecoded'
    BY <1>8, <2>1, <2>7, Zenon
  <2> QED BY <2>6, <2>7, <2>8
<1>13. UNCHANGED <<emitted, phase>> /\ phase = "finished"
  BY DEF Arrive, encoderVars
<1>14. Counted(C2)'
  <2>1. \A starts : ChunksSent(starts)' => Noticed(starts, arrivals', collected', C2)
    <3>1. SUFFICES ASSUME NEW starts, ChunksSent(starts)'
                   PROVE  Noticed(starts, arrivals', collected', C2)
      OBVIOUS
    <3>2. ChunksSent(starts)
      BY <1>13, <3>1 DEF ChunksSent
    <3>3. Noticed(starts, arrivals, collected, C)
      BY <1>3, <3>2, Zenon DEF Kept, Counted
    <3>4. Took(c2, ok, packet, C, C2)
      BY <1>5, Zenon DEF Takes
    <3>5. packet = emitted[i] /\ emitted[i].chunk_count >= 1
      BY <1>1 DEF packet, WellSent
    <3>6. emitted \in Seq(StreamPacket)
      BY <1>1, Zenon DEF TellsEverything, EncoderInv
    <3>7. Len(C) \in Nat
      BY <1>4, PartsCollected, Zenon
    <3>8. collected' = IF ok THEN Append(collected, i) ELSE collected
      BY <1>7, <1>8, Zenon
    <3>9. Took(c2, ok, emitted[i], C, C2)
      BY <3>4, <3>5
    <3>10. Noticed(starts, Append(arrivals, i),
                   IF ok THEN Append(collected, i) ELSE collected, C2)
      BY <1>9, <3>2, <3>3, <3>5, <3>6, <3>7, <3>9, NoticedOneMore, Zenon DEF Packets
    <3> QED BY <1>8, <3>8, <3>10, Zenon
  <2> QED BY <1>11, <2>1, Zenon DEF Counted, Noticed, NeverRepeated, Covered
<1>15. Kept(C2)'
  <2>1. HasCollected(collector', C2)
    BY <1>6, <1>7, Zenon
  <2> QED BY <1>12, <1>14, <2>1, Zenon DEF Kept
<1>16. History'
  <2>1. Packets' = Packets /\ phase' = "finished"
    BY <1>13 DEF Packets
  <2> QED BY <1>11, <2>1, Zenon DEF History, Packets
<1> QED BY <1>2, <1>15, <1>16, Zenon DEF FaultsInv

(* ... and through all of it.                                              *)
LEMMA FaultsNextKeeps == FaultsInv /\ [FaultsNext]_faultVars => FaultsInv'
<1> SUFFICES ASSUME FaultsInv, [FaultsNext]_faultVars PROVE FaultsInv'
  OBVIOUS
<1>1. ASSUME NEW i \in 1..Len(emitted), Arrive(i) PROVE FaultsInv'
  BY <1>1, ArriveKeeps
<1>2. ASSUME [EncoderNext]_encoderVars,
             UNCHANGED <<decoderVars, collectorVars, arrivals, collected, undecoded>>
      PROVE  FaultsInv'
  <2>1. TellsEverything'
    BY <1>2, NextTellsEverything, Zenon DEF FaultsInv
  <2>2. UNCHANGED <<decoder, decoded, collector, arrivals, collected, undecoded>>
    BY <1>2 DEF decoderVars, collectorVars
  <2>3. PICK C : Kept(C)
    BY Zenon DEF FaultsInv
  <2>4. Counted(C)' /\ History'
    <3>1. History /\ Counted(C)
      BY <2>3, Zenon DEF FaultsInv, Kept
    <3>2. CASE arrivals = <<>>
      <4>1. arrivals' = <<>> /\ collected' = <<>> /\ C = <<>>
        BY <2>2, <3>1, <3>2 DEF History, Counted
      <4>2. History'
        BY <4>1 DEF History
      <4>3. Counted(C)'
        BY <4>1, NoneNoticed, Zenon DEF Counted
      <4> QED BY <4>2, <4>3
    <3>3. CASE arrivals # <<>>
      <4>1. UNCHANGED <<emitted, phase>>
        BY <1>2, <3>1, <3>3, FinishedIsLast DEF History, encoderVars
      <4> QED BY <2>2, <3>1, <4>1 DEF History, Counted, ChunksSent
    <3> QED BY <3>2, <3>3
  <2>5. Kept(C)'
    BY <2>2, <2>3, <2>4 DEF Kept
  <2> QED BY <2>1, <2>4, <2>5, Zenon DEF FaultsInv
<1> QED BY <1>1, <1>2 DEF FaultsNext, EncodeFirst, faultVars

(* Whatever is lost, repeated or reordered, the collector has whole chunks *)
(* with the bases that they need; and as long as it accepts everything,    *)
(* the decoder does.                                                       *)
THEOREM FaultsInvariant == FaultsSpec => []FaultsInv
BY InitFaults, FaultsNextKeeps, PTL DEF FaultsSpec

(* What is read from whole chunks fills them.                              *)
LEMMA WholeChunks ==
  ASSUME NEW C \in Seq(Chunk)
  PROVE  C = ChunkSamples(Samples(C))
<1> DEFINE samples == Samples(C)
           w == SamplesPerChunk
           m == Len(C)
<1>1. samples \in Seq(Sample) /\ Len(samples) = m * w /\ m * w \in Nat
  BY SamplesOfChunks
<1>2. w \in Nat \ {0} /\ m \in Nat
  BY Geometry
<1>3. (w - (Len(samples) % w)) % w = 0
  <2>1. 0 \in 0..(w - 1)
    BY <1>2
  <2>2. (w - ((m * w + 0) % w)) % w = 0
    <3> HIDE DEF m, w
    <3> QED BY <1>2, <2>1, PaddingCount
  <2>3. m * w + 0 = m * w
    <3> HIDE DEF m, w
    <3> QED BY <1>1
  <2> QED BY <1>1, <2>2, <2>3
<1>4. Filled(samples) = samples
  <2> DEFINE zeros == [i \in 1..((w - (Len(samples) % w)) % w) |-> ZeroSample]
  <2>1. zeros = <<>>
    BY <1>3
  <2>2. Filled(samples) = samples \o zeros
    BY Zenon DEF Filled
  <2> HIDE DEF zeros, samples
  <2> QED BY <1>1, <2>1, <2>2, ConcatEmptySeq
<1>5. FillChunks(samples, C)
  BY <1>4, Zenon DEF FillChunks, Samples
<1> HIDE DEF samples
<1>6. C = ChunkSamples(samples)
  BY <1>1, <1>5, FilledChunks
<1> QED BY <1>6 DEF samples

(* The container of what was collected, with the samples of all of it.     *)
ContainerFrom(c, C) ==
  [original_sample_count |-> Len(C) * SamplesPerChunk,
   dictionary            |-> c.dictionary,
   splits                |-> CloseSplit(c).splits]

(* What a collector has can be finished, and read.                         *)
LEMMA CollectedFinishes ==
  ASSUME NEW c, NEW C, HasCollected(c, C)
  PROVE  LET container == ContainerFrom(c, C)
             samples == Samples(C)
         IN  /\ FinishCollector(c, Len(C) * SamplesPerChunk) = <<container>>
             /\ samples \in Seq(Sample) /\ Len(samples) = Len(C) * SamplesPerChunk
             /\ container.original_sample_count = Len(samples)
             /\ \E before : ContainsChunks(container, before, ChunkSamples(samples))
<1> DEFINE container == ContainerFrom(c, C)
           samples == Samples(C)
           n == Len(C)
           count == n * SamplesPerChunk
<1>1. /\ C \in Seq(Chunk) /\ n \in Nat /\ c.dictionary \in Seq(PackedBase)
      /\ Layout(CloseSplit(c).splits, n, c.dictionary, C)
  BY PartsCollected, ClosedHasCollected
<1>2. samples \in Seq(Sample) /\ Len(samples) = count /\ count \in Nat
  BY <1>1, SamplesOfChunks
<1>3. C = ChunkSamples(samples)
  BY <1>1, WholeChunks
<1>4. SamplesPerChunk \in Nat \ {0}
  BY Geometry
<1>5. count <= n * SamplesPerChunk /\ n * SamplesPerChunk < count + SamplesPerChunk
  <2>1. count = n * SamplesPerChunk
    OBVIOUS
  <2> HIDE DEF count
  <2> QED BY <1>2, <1>4, <2>1
<1>6. FinishCollector(c, count) = <<container>>
  <2> HIDE DEF count, n
  <2>1. Len(C) = n
    BY DEF n
  <2>2. FinishCollector(c, count) = <<[original_sample_count |-> count,
                                       dictionary |-> c.dictionary,
                                       splits |-> CloseSplit(c).splits]>>
    BY <1>1, <1>2, <1>5, <2>1, CollectorFinishes, Zenon
  <2> QED BY <2>2, Zenon DEF ContainerFrom, count, n
<1>7. /\ container.original_sample_count = count /\ container.dictionary = c.dictionary
      /\ container.splits = CloseSplit(c).splits
  BY DEF ContainerFrom
<1>8. PICK before : LaidOut(CloseSplit(c).splits, before, n, c.dictionary, C)
  BY <1>1, Zenon DEF Layout
<1>9. ContainsChunks(container, before, C)
  BY <1>1, <1>7, <1>8, Zenon DEF ContainsChunks
<1> QED BY <1>2, <1>3, <1>6, <1>7, <1>9, Zenon

(* Every split put away is full, but for the last, and none is empty.      *)
LEMMA ClosedAreFull ==
  ASSUME NEW c, NEW C, HasCollected(c, C), NEW splits, splits = CloseSplit(c).splits,
         NEW s \in 1..Len(splits)
  PROVE  /\ s < Len(splits) => Len(splits[s].pairs) = ChunksPerSplit
         /\ Len(splits[s].pairs) \in 1..ChunksPerSplit
         /\ HasItsWidths(splits[s])
         /\ splits[s] \in Split
<1> DEFINE put == c.splits
           split == c.current_split[1]
<1>1. put \in Seq(Split) /\ Len(put) \in Nat /\ ChunksPerSplit \in Nat \ {0}
  BY PartsCollected, ConfigConstants
<1>2. \A k \in 1..Len(put) : HasItsWidths(put[k]) /\ Len(put[k].pairs) = ChunksPerSplit
  BY DEF HasCollected
<1>3. CASE HasPairs(c)
  <2>1. c.current_split # <<>> /\ split.pairs # <<>>
    BY <1>3 DEF HasPairs
  <2>2. split \in Split /\ HasItsWidths(split) /\ Len(split.pairs) <= ChunksPerSplit
    BY <2>1, PartsCollected
  <2>3. Len(split.pairs) \in 1..ChunksPerSplit
    <3>1. split.pairs \in Seq(Pair)
      BY <2>2, SplitFields
    <3>2. Len(split.pairs) \in Nat /\ Len(split.pairs) # 0
      BY <2>1, <3>1
    <3> QED BY <1>1, <2>2, <3>2
  <2>4. splits = Append(put, split)
    <3>1. c \in Collected
      BY DEF HasCollected
    <3> QED BY <1>3, <3>1, ClosedSplits, Zenon
  <2> HIDE DEF put, split
  <2>5. /\ Len(splits) = Len(put) + 1 /\ splits[Len(put) + 1] = split
        /\ \A k \in 1..Len(put) : splits[k] = put[k]
    BY <1>1, <2>2, <2>4
  <2>6. CASE s = Len(put) + 1
    BY <1>1, <2>2, <2>3, <2>5, <2>6
  <2>7. CASE s # Len(put) + 1
    <3>1. s \in 1..Len(put)
      BY <1>1, <2>5, <2>7
    <3>2. splits[s] = put[s] /\ put[s] \in Split
      BY <1>1, <2>5, <3>1
    <3>3. HasItsWidths(splits[s]) /\ Len(splits[s].pairs) = ChunksPerSplit
      BY <1>2, <3>1, <3>2
    <3> QED BY <1>1, <3>2, <3>3
  <2> QED BY <2>6, <2>7
<1>4. CASE ~ HasPairs(c)
  <2>1. splits = put
    BY <1>4 DEF CloseSplit
  <2> QED BY <1>1, <1>2, <2>1
<1> QED BY <1>3, <1>4

(* The two receivers of the packets agree, ...                             *)
LEMMA ReceiversAgreeNow == FaultsInv => ReceiversAgree
<1> SUFFICES ASSUME FaultsInv, collected = arrivals
             PROVE  /\ ~ undecoded
                    /\ FinishCollector(collector, Len(decoded)) # <<>>
                    /\ DecompressSamples(FinishCollector(collector, Len(decoded))[1])
                         = <<decoded>>
  BY Zenon DEF ReceiversAgree
<1>1. PICK C : Kept(C)
  BY Zenon DEF FaultsInv
<1>2. HasCollected(collector, C) /\ ~ undecoded /\ decoded = Samples(C)
  BY <1>1, Zenon DEF Kept
<1> DEFINE container == ContainerFrom(collector, C)
           finished == FinishCollector(collector, Len(decoded))
<1>3. /\ finished = <<container>> /\ decoded \in Seq(Sample)
      /\ container.original_sample_count = Len(decoded)
      /\ \E before : ContainsChunks(container, before, ChunkSamples(decoded))
  BY <1>2, CollectedFinishes
<1>4. DecompressSamples(container) = <<decoded>>
  BY <1>3, DecompressesToInput, Zenon
<1> HIDE DEF container, finished
<1>5. finished # <<>> /\ finished[1] = container
  BY <1>3
<1> QED BY <1>2, <1>4, <1>5, Zenon DEF finished

(* ... and what is collected can be read.                                  *)
LEMMA CollectedIsReadableNow == FaultsInv => CollectedIsReadable
<1> SUFFICES ASSUME FaultsInv PROVE CollectedIsReadable
  OBVIOUS
<1>1. PICK C : Kept(C)
  BY Zenon DEF FaultsInv
<1>2. HasCollected(collector, C)
  BY <1>1, Zenon DEF Kept
<1> DEFINE all == collector.splits \o collector.current_split
           counted == CHOOSE f : Counts(f, all)
           n == Len(C)
           count == n * SamplesPerChunk
           samples == Samples(C)
           container == ContainerFrom(collector, C)
           finished == FinishCollector(collector, count)
<1>3. counted[Len(all)] = n
  <2>1. Layout(all, n, collector.dictionary, C) /\ n \in Nat
    BY <1>2, PartsCollected DEF HasCollected
  <2> HIDE DEF all, n
  <2>2. Len(C) = n
    BY DEF n
  <2> QED BY <2>1, <2>2, PairsAreCounted, Zenon
<1>4. /\ finished = <<container>> /\ samples \in Seq(Sample) /\ Len(samples) = count
      /\ container.original_sample_count = Len(samples)
      /\ \E before : ContainsChunks(container, before, ChunkSamples(samples))
  BY <1>2, CollectedFinishes
<1>5. PICK before : ContainsChunks(container, before, ChunkSamples(samples))
  BY <1>4, Zenon
<1>6. container.splits = CloseSplit(collector).splits
  BY DEF ContainerFrom
<1> HIDE DEF container, finished
<1>7. finished # <<>> /\ finished[1] = container
  BY <1>4
<1>8. ASSUME NEW s \in 1..Len(container.splits)
      PROVE  LET split == container.splits[s]
             IN  /\ s < Len(container.splits) => Len(split.pairs) = ChunksPerSplit
                 /\ Len(split.pairs) \in 1..ChunksPerSplit
                 /\ \A p \in 1..Len(split.pairs) :
                      /\ split.pairs[p].base_id < Pow2[split.l_id]
                      /\ Len(split.pairs[p].deviation_bits) = split.l_d
  <2> DEFINE split == container.splits[s]
  <2>1. /\ s < Len(container.splits) => Len(split.pairs) = ChunksPerSplit
        /\ Len(split.pairs) \in 1..ChunksPerSplit
        /\ HasItsWidths(split) /\ split \in Split
    BY <1>2, <1>6, ClosedAreFull
  <2> HIDE DEF split
  <2>2. split.l_d \in Nat
    BY <2>1, SplitFields, Geometry
  <2>3. ASSUME NEW p \in 1..Len(split.pairs)
        PROVE  /\ split.pairs[p].base_id < Pow2[split.l_id]
               /\ Len(split.pairs[p].deviation_bits) = split.l_d
    <3>1. FitsWidths(split.pairs[p], split.l_id, split.l_d)
      BY <2>1 DEF HasItsWidths
    <3>2. split.pairs[p].deviation_bits \in [1..split.l_d -> Bit]
      BY <3>1 DEF FitsWidths, BitString
    <3>3. Len(split.pairs[p].deviation_bits) = split.l_d
      BY <2>2, <3>2, FunctionIsSequence
    <3> QED BY <3>1, <3>3 DEF FitsWidths
  <2> QED BY <2>1, <2>3 DEF split
<1>9. HasAllBases(container)
  BY <1>5, AllBasesAreThere
<1>10. ASSUME NEW i \in 1..count
       PROVE  GetBySampleIndex(container, i - 1) = <<DecompressSamples(container)[1][i]>>
  <2>1. count \in Nat
    BY <1>4
  <2>2. i - 1 \in Nat /\ i - 1 < Len(samples) /\ (i - 1) + 1 = i
    BY <1>4, <2>1
  <2> HIDE DEF samples, count
  <2>3. GetBySampleIndex(container, i - 1) = <<samples[(i - 1) + 1]>>
    BY <1>4, <1>5, <2>2, SampleIsRead, Zenon
  <2>4. DecompressSamples(container) = <<samples>>
    BY <1>4, <1>5, DecompressesToInput, Zenon
  <2>5. <<samples>>[1] = samples
    OBVIOUS
  <2> QED BY <2>2, <2>3, <2>4, <2>5, Zenon
<1>11. CollectedIsReadable
         = LET held == FinishCollector(collector, counted[Len(all)] * SamplesPerChunk)
           IN  /\ held # <<>>
               /\ \A s \in 1..Len(held[1].splits) :
                    LET split == held[1].splits[s]
                    IN  /\ s < Len(held[1].splits) => Len(split.pairs) = ChunksPerSplit
                        /\ Len(split.pairs) \in 1..ChunksPerSplit
                        /\ \A p \in 1..Len(split.pairs) :
                             /\ split.pairs[p].base_id < Pow2[split.l_id]
                             /\ Len(split.pairs[p].deviation_bits) = split.l_d
               /\ HasAllBases(held[1])
               /\ \A i \in 1..(counted[Len(all)] * SamplesPerChunk) :
                    GetBySampleIndex(held[1], i - 1) = <<DecompressSamples(held[1])[1][i]>>
  BY DEF CollectedIsReadable, Counts
<1> HIDE DEF counted, all, n
<1> QED BY <1>3, <1>7, <1>8, <1>9, <1>10, <1>11, Zenon DEF finished

(* As long as the collector refuses nothing, the decoder does not either,  *)
(* and the container that finish returns decompresses to the samples that  *)
(* decode_packet returned, whatever was lost, repeated or reordered.       *)
THEOREM FaultyStreamsReadTheSame == FaultsSpec => []ReceiversAgree
BY FaultsInvariant, ReceiversAgreeNow, PTL

(* Whatever arrives, what the collector has is a container that is laid    *)
(* out as one of compress_samples is, and that can be read throughout.     *)
THEOREM CollectedStaysReadable == FaultsSpec => []CollectedIsReadable
BY FaultsInvariant, CollectedIsReadableNow, PTL

(* The packets' chunks are those of the samples, however they are counted. *)
LEMMA AllChunksAreSent ==
  ASSUME TellsEverything, phase = "finished"
  PROVE  \E starts : /\ ChunksSent(starts)
                     /\ Len(pushed) <= starts[Len(emitted) + 1] * SamplesPerChunk
                     /\ starts[Len(emitted) + 1] * SamplesPerChunk < Len(pushed) + SamplesPerChunk
<1>1. EncoderInv
  BY Zenon DEF TellsEverything
<1>2. PICK rows, B, C : Telling(rows, B, C)
  BY Zenon DEF TellsEverything
<1>3. /\ emitted \in Seq(StreamPacket) /\ encoder.ready = <<>>
      /\ pushed \in Seq(Sample) /\ encoder.pending.pairs = <<>>
  BY <1>1, Zenon DEF EncoderInv, Between
<1>4. emitted \o encoder.ready = emitted
  BY <1>3, ConcatEmptySeq
<1>5. /\ Story(emitted, rows, B, C) /\ GoesOn(encoder, rows[Len(rows)], B, C)
      /\ C \in Seq(Chunk) /\ FillChunks(pushed, C)
  BY <1>2, <1>4, Zenon DEF Telling, Tells, Accounts
<1> DEFINE n == Len(emitted)
           starts == [k \in 1..(n + 1) |-> rows[k].chunks]
<1>6. /\ n \in Nat /\ rows \in Seq(Row) /\ Len(rows) = n + 1 /\ rows[1] = FirstRow
      /\ \A k \in 1..n : Carries(emitted[k], rows[k], rows[k + 1], B, C)
  BY <1>3, <1>5 DEF Story
<1>7. ASSUME NEW k \in 1..(n + 1) PROVE rows[k] \in Row /\ rows[k].chunks \in Nat
  <2>1. rows[k] \in Row
    <3> HIDE DEF n
    <3> QED BY <1>6
  <2> QED BY <2>1 DEF Row
<1>8. starts[n + 1] = Len(C)
  <2>1. Len(C) = rows[n + 1].chunks + Len(encoder.pending.pairs)
    BY <1>5, <1>6, Zenon DEF GoesOn
  <2>2. Len(encoder.pending.pairs) = 0
    BY <1>3
  <2>3. n + 1 \in 1..(n + 1)
    BY <1>6
  <2> QED BY <1>7, <2>1, <2>2, <2>3
<1>9. ASSUME NEW k \in 1..n PROVE rows[k + 1].chunks = rows[k].chunks + emitted[k].chunk_count
  <2>1. PICK pending \in Pending, l_id \in Nat, l_d \in 0..ChunkBitLen :
               /\ emitted[k] = Packet(pending, l_id, l_d)
               /\ rows[k + 1] = RowAfter(rows[k], pending, l_id, l_d)
    BY <1>6, Zenon DEF Carries
  <2>2. emitted[k].chunk_count = Len(pending.pairs)
    <3>1. Packet(pending, l_id, l_d).chunk_count = Len(pending.pairs)
      BY PacketFields, Zenon
    <3> QED BY <2>1, <3>1
  <2>3. rows[k + 1].chunks = rows[k].chunks + Len(pending.pairs)
    BY <2>1 DEF RowAfter
  <2> QED BY <2>2, <2>3
<1>10. ChunksSent(starts)
  <2>1. starts \in [1..(n + 1) -> Nat]
    BY <1>7
  <2>2. starts[1] = 0
    BY <1>6 DEF FirstRow
  <2>3. ASSUME NEW k \in 1..n PROVE starts[k + 1] = starts[k] + emitted[k].chunk_count
    <3>1. k \in 1..(n + 1) /\ k + 1 \in 1..(n + 1)
      BY <1>6
    <3> QED BY <1>9, <3>1
  <2> HIDE DEF starts
  <2> QED BY <2>1, <2>2, <2>3 DEF ChunksSent
<1>11. /\ Len(pushed) <= Len(C) * SamplesPerChunk
       /\ Len(C) * SamplesPerChunk < Len(pushed) + SamplesPerChunk
  BY <1>3, <1>5, FilledChunks, Zenon
<1> HIDE DEF starts
<1> QED BY <1>8, <1>10, <1>11, Zenon DEF n

(* A count that finish accepts is one of the chunks collected.             *)
LEMMA AcceptedCountFits ==
  ASSUME NEW c, NEW C, HasCollected(c, C), NEW count, FinishCollector(c, count) # <<>>
  PROVE  CountFits(count, Len(C) * SamplesPerChunk)
<1> DEFINE closed == CloseSplit(c).splits
           counted == CHOOSE f : Counts(f, closed)
           n == Len(C)
<1>1. n \in Nat /\ Layout(closed, n, c.dictionary, C)
  BY PartsCollected, ClosedHasCollected
<1>2. FinishCollector(c, count) =
        IF CountFits(count, counted[Len(closed)] * SamplesPerChunk)
        THEN <<[original_sample_count |-> count, dictionary |-> c.dictionary,
                splits |-> closed]>>
        ELSE <<>>
  BY DEF FinishCollector, Counts
<1> HIDE DEF closed, n
<1>3. Len(C) = n
  BY DEF n
<1>4. counted[Len(closed)] = n
  BY <1>1, <1>3, PairsAreCounted, Zenon
<1> HIDE DEF counted
<1>5. CountFits(count, n * SamplesPerChunk)
  BY <1>2, <1>4, Zenon
<1> QED BY <1>5 DEF n

(* What was collected has the chunks of every packet: each packet is there.*)
LEMMA AllCoveredIsEverything ==
  ASSUME NEW starts, ChunksSent(starts), emitted \in Seq(StreamPacket),
         \A k \in 1..Len(emitted) : emitted[k].chunk_count >= 1,
         collected \in Seq(1..Len(emitted)),
         Covered(starts, collected) = 1..starts[Len(emitted) + 1]
  PROVE  Everything
<1>1. SUFFICES ASSUME NEW k \in 1..Len(emitted)
               PROVE  \E j \in 1..Len(collected) : collected[j] = k
  <2>1. DOMAIN collected = 1..Len(collected)
    OBVIOUS
  <2> QED BY <1>1, <2>1 DEF Everything, Packets
<1>2. starts[k] + 1 \in Cover(starts, k)
  <2>1. /\ starts[k] \in Nat /\ starts[k + 1] = starts[k] + emitted[k].chunk_count
        /\ emitted[k].chunk_count \in Nat /\ emitted[k].chunk_count >= 1
    BY ChunkCounts
  <2> QED BY <2>1 DEF Cover
<1>3. starts[k] + 1 \in Covered(starts, collected)
  BY <1>2, ChunksCover, Zenon
<1>4. PICK j \in 1..Len(collected) : starts[k] + 1 \in Cover(starts, collected[j])
  BY <1>3, Zenon DEF Covered
<1>5. collected[j] \in 1..Len(emitted)
  OBVIOUS
<1>6. ~ Cover(starts, k) \cap Cover(starts, collected[j]) = {}
  BY <1>2, <1>4
<1>7. collected[j] = k
  BY <1>5, <1>6, ChunksCover, Zenon
<1> QED BY <1>7

(* ... and the other way round.                                            *)
LEMMA EverythingIsAllCovered ==
  ASSUME NEW starts, ChunksSent(starts), emitted \in Seq(StreamPacket),
         collected \in Seq(1..Len(emitted)), Everything
  PROVE  Covered(starts, collected) = 1..starts[Len(emitted) + 1]
<1>1. Covered(starts, collected) \subseteq 1..starts[Len(emitted) + 1]
  BY CoveredIsSent
<1>2. ASSUME NEW c \in 1..starts[Len(emitted) + 1] PROVE c \in Covered(starts, collected)
  <2>1. PICK k \in 1..Len(emitted) : c \in Cover(starts, k)
    BY ChunksAreAllSent
  <2>2. PICK j \in DOMAIN collected : collected[j] = k
    BY DEF Everything, Packets
  <2>3. j \in 1..Len(collected)
    OBVIOUS
  <2> QED BY <2>1, <2>2, <2>3 DEF Covered
<1> QED BY <1>1, <1>2

(* A stream's sample count is accepted for as many chunks as were sent.    *)
LEMMA LossIsNoticedNow == FaultsInv => LossOrRepetitionIsNoticed
<1> SUFFICES ASSUME FaultsInv, phase = "finished",
                    FinishCollector(collector, Len(pushed)) # <<>>
             PROVE  /\ NeverRepeated(arrivals) => Everything
                    /\ Everything => NeverRepeated(collected)
  BY DEF LossOrRepetitionIsNoticed
<1> DEFINE n == Len(emitted)
<1>1. PICK C : Kept(C)
  BY Zenon DEF FaultsInv
<1>2. HasCollected(collector, C) /\ Counted(C) /\ TellsEverything /\ History
  BY <1>1, Zenon DEF FaultsInv, Kept
<1>3. PICK starts : /\ ChunksSent(starts)
                    /\ Len(pushed) <= starts[n + 1] * SamplesPerChunk
                    /\ starts[n + 1] * SamplesPerChunk < Len(pushed) + SamplesPerChunk
  BY <1>2, AllChunksAreSent
<1>4. Noticed(starts, arrivals, collected, C)
  BY <1>2, <1>3, Zenon DEF Counted
<1>5. emitted \in Seq(StreamPacket) /\ pushed \in Seq(Sample)
  BY <1>2, Zenon DEF TellsEverything, EncoderInv
<1>6. \A k \in 1..n : emitted[k].chunk_count >= 1
  BY <1>2, EmittedIsWellSent DEF WellSent
<1>7. /\ arrivals \in Seq(1..n) /\ collected \in Seq(1..n)
      /\ Len(collected) = Len(arrivals) => collected = arrivals
      /\ Len(collected) \in Nat /\ Len(arrivals) \in Nat
      /\ Len(collected) <= Len(arrivals)
  BY <1>2 DEF History
<1>8. starts[n + 1] \in Nat /\ Len(C) \in Nat /\ Len(pushed) \in Nat
  <2>1. starts[n + 1] \in Nat
    <3>1. n + 1 \in 1..(n + 1)
      BY <1>5
    <3> QED BY <1>3, <1>5, <3>1, ChunkCounts
  <2> QED BY <1>2, <1>5, <2>1, PartsCollected
<1>9. Len(C) = starts[n + 1]
  <2>1. CountFits(Len(pushed), Len(C) * SamplesPerChunk)
    BY <1>2, AcceptedCountFits, Zenon
  <2>2. SamplesPerChunk \in Nat \ {0}
    BY Geometry
  <2> QED BY <1>3, <1>8, <2>1, <2>2, CountDecides, Zenon
<1>10. /\ Covered(starts, arrivals) \subseteq 1..starts[n + 1]
       /\ Covered(starts, collected) \subseteq 1..starts[n + 1]
  BY <1>3, <1>5, <1>7, CoveredIsSent, Zenon
<1>11. IsFiniteSet(1..starts[n + 1]) /\ Cardinality(1..starts[n + 1]) = starts[n + 1]
  BY <1>8, IntervalCardinality
<1>12. ASSUME NeverRepeated(arrivals) PROVE Everything
  <2>1. Cardinality(Covered(starts, arrivals)) <= starts[n + 1]
    BY <1>10, <1>11, FS_Subset, Zenon
  <2>2. Cardinality(Covered(starts, arrivals)) \in Nat
    BY <1>10, <1>11, FS_Subset, FS_CardinalityType, Zenon
  <2>3. Len(C) + (Len(arrivals) - Len(collected)) <= Cardinality(Covered(starts, arrivals))
    BY <1>4, <1>12, Zenon DEF Noticed
  <2> DEFINE x == Cardinality(Covered(starts, arrivals))
  <2> HIDE DEF x
  <2>4. x \in Nat /\ x <= starts[n + 1] /\ Len(C) + (Len(arrivals) - Len(collected)) <= x
    BY <2>1, <2>2, <2>3 DEF x
  <2>5. collected = arrivals /\ x = starts[n + 1]
    BY <1>7, <1>8, <1>9, <2>4
  <2>6. Covered(starts, collected) = 1..starts[n + 1]
    <3>1. Cardinality(Covered(starts, arrivals)) = Cardinality(1..starts[n + 1])
      BY <1>11, <2>5 DEF x
    <3>2. Covered(starts, arrivals) = 1..starts[n + 1]
      BY <1>10, <1>11, <3>1, FS_Subset, Zenon
    <3> QED BY <2>5, <3>2
  <2> QED BY <1>3, <1>5, <1>6, <1>7, <2>6, AllCoveredIsEverything, Zenon DEF n
<1>13. ASSUME Everything PROVE NeverRepeated(collected)
  <2>1. Covered(starts, collected) = 1..starts[n + 1]
    BY <1>3, <1>5, <1>7, <1>13, EverythingIsAllCovered, Zenon DEF n
  <2>2. Cardinality(Covered(starts, collected)) = Len(C)
    BY <1>9, <1>11, <2>1
  <2>3. ~ Cardinality(Covered(starts, collected)) < Len(C)
    BY <1>8, <2>2
  <2> QED BY <1>4, <2>3, Zenon DEF Noticed
<1> QED BY <1>12, <1>13

(* What is lost or taken twice changes how many chunks the collector has,  *)
(* so finish refuses the stream's sample count: if no packet came twice,   *)
(* unless all of them were taken; if all of them were, unless none was     *)
(* taken twice.                                                            *)
THEOREM LossesAreNoticed == FaultsSpec => []LossOrRepetitionIsNoticed
BY FaultsInvariant, LossIsNoticedNow, PTL

=============================================================================
