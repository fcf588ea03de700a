----------------------------- MODULE MCMetrics ------------------------------
(***************************************************************************)
(* The access costs of every container that MCCodec's inputs compress to,  *)
(* compared with what the accesses of random_access.rs look at.            *)
(***************************************************************************)
EXTENDS MCCodec, Metrics

CONSTANT MaxBlock     \* bound: the sizes of blocks and requests compared

TotalBits == Len(samples) * BitsPerSample

Requests == {request \in (0..TotalBits) \X (1..TotalBits) : request[1] + request[2] <= TotalBits}

(* The chunks a request intersects, found bit by bit.                      *)
TouchedChunks(request) ==
  {bit \div ChunkBitLen : bit \in request[1]..(request[1] + request[2] - 1)}

SplitNumber(chunk_index) == chunk_index \div ChunksPerSplit

(* What a request reads if every base it needs is read once, every pair    *)
(* once and the widths of every split once.                                *)
BitsRead(container, chunks) ==
  LET Split(c) == SplitForChunk(container, c)[1]
      PairOf(c) == Split(c).pairs[SplitForChunk(container, c)[2]]
  IN  ChunkBitLen * Cardinality({PairOf(c).base_id : c \in chunks})
        + ParameterBits * Cardinality({SplitNumber(c) : c \in chunks})
        + MapThenSumSet(LAMBDA c : Split(c).l_id + Split(c).l_d, chunks)

(* The two bounds hold what they promise: no request reads fewer bits than *)
(* the best case or more than the worst, wherever it falls on the splits   *)
(* and whatever bases it shares; chunks and splits are counted right       *)
(* (titchy_access_bounds).  The worst case of all there is is the size the *)
(* compression ratio is computed from: the two accounts of a container,    *)
(* one by request and one split by split, do not drift apart               *)
(* (paper_compressed_bit_len).                                             *)
BoundsBracketTheCost ==
  Compressed # <<>> =>
    \A request \in Requests :
      LET container == Compressed[1]
          chunks == TouchedChunks(request)
          bounds == AccessBounds(container, request[1], request[2])[1]
          read == BitsRead(container, chunks)
      IN  /\ bounds.best_case_bits <= read /\ read <= bounds.worst_case_bits
          /\ bounds.chunk_count = Cardinality(chunks)
          /\ bounds.split_count = Cardinality({SplitNumber(c) : c \in chunks})
          /\ request = <<0, TotalBits>> =>
               bounds.worst_case_bits = PaperCompressedBitLen(container)

(* The ID of a base is charged to a bit exactly if reading the bit needs a *)
(* base, that is, if it cannot be read without the dictionary; no bit      *)
(* costs more than its sample, and a bit that cannot be read at all has no *)
(* cost (bit_access_cost, sample_access_cost).                             *)
BitCostIsWhatIsRead ==
  Compressed # <<>> =>
    \A bit \in 0..TotalBits :
      LET container == Compressed[1]
          cost == BitAccessCost(container, bit)
          needs_base == GetByBitIndex([container EXCEPT !.dictionary = <<>>], bit) = <<>>
          split == SplitForChunk(container, bit \div ChunkBitLen)[1]
      IN  IF GetByBitIndex(container, bit) = <<>>
          THEN cost = <<>>
          ELSE /\ cost = <<ParameterBits + (IF needs_base THEN split.l_id ELSE 0) + 1>>
               /\ cost[1] <= SampleAccessCost(container, bit \div BitsPerSample)[1]

(* expected_block_count is the mean number of blocks a request touches,    *)
(* over all places in a block where it may begin.                          *)
ExpectedBlocksIsTheMean ==
  \A block_bits \in 1..MaxBlock : \A requested_bits \in 1..(TotalBits + 1) :
    ExpectedBlocks(requested_bits, block_bits) =
      MapThenSumSet(LAMBDA begin : CeilDiv(begin + requested_bits, block_bits),
                    0..(block_bits - 1))

=============================================================================
