--------------------------- MODULE StreamArchive ----------------------------
(***************************************************************************)
(* The stream archive (TSTR) of the command line: stream-encode writes all *)
(* packets of a stream into a file, each with its chunk count and its      *)
(* length, and stream-decode reads them back in another process            *)
(* (bin/titchy.rs).                                                        *)
(*                                                                         *)
(* fs::write is not atomic: a command that dies leaves the beginning of an *)
(* archive, and its user may run it again; the samples are the same, so it *)
(* writes the same archive.  stream-decode may run before and after.  It   *)
(* reads the file at once: what is written while it works does not reach   *)
(* it, and is left out.                                                    *)
(***************************************************************************)
EXTENDS StreamEncoder, StreamDecoder, Files

LOCAL INSTANCE SequencesExt

VARIABLES
  built,       \* the archive in memory, <<>> until the stream is finished
  archive,     \* the bytes on disk (none is the same as no file)
  command,     \* the last stream-decode: its status, what it read and its
               \* SliceCursor, with the packets it has still to read
  output       \* <<>> until write_samples, then <<samples>>

commandVars == <<decoderVars, command, output>>

archiveVars == <<encoderVars, built, archive, commandVars>>

----------------------------------------------------------------------------
(* stream_encode_command.  Its error for more chunks than a u16 counts     *)
(* cannot occur: ChunksPerSplit is a u16.                                  *)

ArchiveHeaderLen == 21

FrameHeaderLen == 6

PacketBytes(packet) ==
  Uint((IF packet.parameters_present THEN 128 ELSE 0) + packet.new_base_count, 1)
    \o FlattenSeq([k \in DOMAIN packet.parameters |-> Uint(packet.parameters[k], 1)])
    \o Packed(packet.payload)

Frame(packet) ==
  Uint(packet.chunk_count, 2) \o Uint(Len(PacketBytes(packet)), 4) \o PacketBytes(packet)

(* The offsets of the header's fields are 0, 4, 5, 6, 7, 9 and 17.         *)
ArchiveOf(packets, sample_count) ==
  FlattenSeq(<<Uint("TSTR", 4), Uint(1, 1),
               Uint(BitsPerSample, 1), Uint(SamplesPerChunk, 1), Uint(ChunksPerSplit, 2),
               Uint(sample_count, 8), Uint(Len(packets), 4)>>
             \o [i \in DOMAIN packets |-> Frame(packets[i])])

----------------------------------------------------------------------------
(* stream_decode_command.                                                  *)

ArchiveFields == <<0, 4, 5, 6, 7, 9, 17>>

ArchiveWidths == <<4, 1, 1, 1, 2, 8, 4>>

HasArchiveHeader(bytes) ==
  /\ \A f \in DOMAIN ArchiveFields : HasUint(bytes, ArchiveFields[f], ArchiveWidths[f])
  /\ UintAt(bytes, 0) = "TSTR" /\ UintAt(bytes, 4) = 1
  /\ ValidConfig(UintAt(bytes, 5), UintAt(bytes, 6), UintAt(bytes, 7))

(* Faulty variant: the last byte of a file counts as past its end.         *)
FrameIsBeforeTheEnd(bytes, pos) ==
  /\ HasUint(bytes, pos, 2) /\ HasUint(bytes, pos + 2, 4)
  /\ pos + FrameHeaderLen + UintAt(bytes, pos + 2) < Len(bytes)
  /\ UintAt(bytes, pos + 2) > 0 /\ UintAt(bytes, pos) > 0

(* The frame at the cursor is there, and StreamPacket::from_bytes takes it *)
(* for a packet: neither it nor its chunk count is zero.                   *)
FrameIsThere(bytes, pos) ==
  /\ HasUint(bytes, pos, 2) /\ HasUint(bytes, pos + 2, 4)
  /\ pos + FrameHeaderLen + UintAt(bytes, pos + 2) <= Len(bytes)
  /\ UintAt(bytes, pos + 2) > 0 /\ UintAt(bytes, pos) > 0

(* The packet of `len` bytes from byte `first` on, taken apart as the      *)
(* decoder does it.                                                        *)
PacketAt(bytes, first, len, chunk_count) ==
  LET header == UintAt(bytes, first)
      wanted == IF header >= 128 THEN 2 ELSE 0
      fields == IF len - 1 < wanted THEN len - 1 ELSE wanted
  IN  [parameters_present |-> header >= 128,
       new_base_count     |-> header % 128,
       parameters         |-> [k \in 1..fields |-> UintAt(bytes, first + k)],
       payload            |-> PackedAt(bytes, first + 1 + fields, len - 1 - fields),
       chunk_count        |-> chunk_count]

(* Faulty variant: packets are read until the archive ends.                *)
MorePacketsByLength(cursor) == cursor.pos < Len(cursor.bytes)

MorePackets(cursor) == cursor.packets_left > 0

Truncated(samples, original_sample_count) ==
  SubSeq(samples, 1, IF Len(samples) < original_sample_count
                     THEN Len(samples) ELSE original_sample_count)

----------------------------------------------------------------------------
(* A command that is not at work.                                          *)
Ended(status) == [status |-> status, bytes |-> <<>>, pos |-> 0, packets_left |-> 0]

ArchiveInit ==
  /\ EncoderInit /\ DecoderInit
  /\ built = <<>> /\ archive = <<>>
  /\ command = Ended("none")
  /\ output = <<>>

EncodeSamples == EncoderNext /\ UNCHANGED <<built, archive, commandVars>>

BuildArchive ==
  /\ phase = "finished" /\ built = <<>>
  /\ built' = ArchiveOf(emitted, Len(pushed))
  /\ UNCHANGED <<encoderVars, archive, commandVars>>

WriteArchive ==
  /\ archive # built
  /\ command.status # "decoding"
  /\ archive' = built
  /\ UNCHANGED <<encoderVars, built, commandVars>>

WriteIsInterrupted ==
  /\ archive # built
  /\ command.status # "decoding"
  /\ \E n \in 0..(Len(built) - 1) : archive' = SubSeq(built, 1, n)
  /\ UNCHANGED <<encoderVars, built, commandVars>>

(* stream-decode is started, again if it failed before, and looks at the   *)
(* header.                                                                 *)
Open ==
  /\ command.status \in {"none", "refused"}
  /\ command' = IF HasArchiveHeader(archive)
                THEN [status |-> "decoding", bytes |-> archive,
                      pos |-> ArchiveHeaderLen, packets_left |-> UintAt(archive, 17)]
                ELSE Ended("refused")
  /\ decoder' = NewDecoder /\ decoded' = <<>> /\ accepted' = TRUE
  /\ UNCHANGED <<encoderVars, built, archive, output>>

ReadPacket ==
  /\ command.status = "decoding" /\ MorePackets(command)
  /\ FrameIsThere(command.bytes, command.pos)
  /\ LET chunk_count == UintAt(command.bytes, command.pos)
         len == UintAt(command.bytes, command.pos + 2)
         first == command.pos + FrameHeaderLen
     IN  /\ Receive(PacketAt(command.bytes, first, len, chunk_count))
         /\ command' = IF accepted'
                       THEN [command EXCEPT !.pos = first + len, !.packets_left = @ - 1]
                       ELSE Ended("refused")
  /\ UNCHANGED <<encoderVars, built, archive, output>>

RefuseArchive ==
  /\ command.status = "decoding" /\ MorePackets(command)
  /\ ~ FrameIsThere(command.bytes, command.pos)
  /\ command' = Ended("refused")
  /\ UNCHANGED <<encoderVars, built, archive, decoderVars, output>>

WriteSamples ==
  /\ command.status = "decoding" /\ ~ MorePackets(command)
  /\ output' = <<Truncated(decoded, UintAt(command.bytes, 9))>>
  /\ command' = Ended("done")
  /\ UNCHANGED <<encoderVars, built, archive, decoderVars>>

Decode == Open \/ ReadPacket \/ RefuseArchive \/ WriteSamples

ArchiveNext == EncodeSamples \/ BuildArchive \/ WriteArchive \/ WriteIsInterrupted \/ Decode

ArchiveSpec == ArchiveInit /\ [][ArchiveNext]_archiveVars

(* stream-decode runs to its end, and its user repeats one that failed;    *)
(* stream-encode is repeated too, between two attempts to decode.          *)
ArchiveFairness ==
  WF_archiveVars(BuildArchive) /\ SF_archiveVars(WriteArchive) /\ WF_archiveVars(Decode)

FairArchiveSpec == ArchiveSpec /\ ArchiveFairness

----------------------------------------------------------------------------
(* Whatever was written, cut off, read and refused before: samples that    *)
(* stream-decode writes are those that stream-encode was given.            *)
ArchiveIsLossless == output # <<>> => phase = "finished" /\ output = <<pushed>>

(* What the command has read.                                              *)
BytesRead == IF command.status = "decoding" THEN command.bytes ELSE archive

(* A whole archive is never refused, and its header describes the stream   *)
(* to a decoder that knows nothing else of it.                             *)
WholeArchiveIsAccepted ==
  [][/\ command'.status = "refused" /\ built # <<>> => BytesRead # built
     /\ command'.status = "done" =>
          /\ UintAt(command.bytes, 5) = BitsPerSample
          /\ UintAt(command.bytes, 6) = SamplesPerChunk
          /\ UintAt(command.bytes, 7) = ChunksPerSplit]_command

(* However often the writing is cut off and decoding fails, the samples of *)
(* a finished stream are in the end written.                               *)
DecodedInTheEnd == phase = "finished" ~> output = <<pushed>>

=============================================================================
