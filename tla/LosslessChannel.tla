-------------------------- MODULE LosslessChannel ---------------------------
(***************************************************************************)
(* What an encoder, a transport and a decoder promise together: the        *)
(* samples that come out are the samples that went in, in order, nothing   *)
(* lost, changed or made up.  The only samples that come out without       *)
(* having gone in are the zeros that fill the last chunk once the sender   *)
(* has closed; the receiver learns the original count by other means.      *)
(***************************************************************************)
EXTENDS Integers, Sequences

CONSTANTS SampleValue, Zero, Block    \* Block: samples in a chunk

VARIABLES sent, received, closed

channelVars == <<sent, received, closed>>

(* A closed sender's samples, with zeros up to a whole block.              *)
Padded(samples) ==
  samples \o [i \in 1..((Block - (Len(samples) % Block)) % Block) |-> Zero]

ToReceive == IF closed THEN Padded(sent) ELSE sent

ChannelInit == sent = <<>> /\ received = <<>> /\ closed = FALSE

Send == /\ ~ closed
        /\ \E sample \in SampleValue : sent' = Append(sent, sample)
        /\ UNCHANGED <<received, closed>>

Close == /\ ~ closed
         /\ closed' = TRUE
         /\ UNCHANGED <<sent, received>>

ReceiveSome == /\ \E n \in (Len(received) + 1)..Len(ToReceive) :
                    received' = SubSeq(ToReceive, 1, n)
               /\ UNCHANGED <<sent, closed>>

ChannelNext == Send \/ Close \/ ReceiveSome

ChannelSpec == ChannelInit /\ [][ChannelNext]_channelVars

=============================================================================
