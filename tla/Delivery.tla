------------------------------ MODULE Delivery ------------------------------
(***************************************************************************)
(* What happens to a packet once it is decrypted: the lanes on which the   *)
(* mesh hands it to the TUN, and the limit on the ICMP errors sent for the *)
(* ones it refuses.  They share no state.  MCNetstack runs them and        *)
(* InboundProofs proves what they promise.                                 *)
(***************************************************************************)
EXTENDS Integers, Sequences, FiniteSets

CONSTANTS Deliverers, Lanes, LaneCap, WriteBatch, Deliveries, Answerers, Burst, Horizon, Packets

VARIABLES
    deliverer, queue, writer, written, closing, inside, inCloser,
    clock, filled, tokens, answerer, answered, raced, seen

Inbound == INSTANCE MeshInbound WITH QueueCap <- LaneCap, closer <- inCloser

Bucket == INSTANCE IcmpBucket WITH receiver <- answerer, Receivers <- Answerers

-----------------------------------------------------------------------------
\* The packets of a flow are written in the order they were decrypted, and nobody
\* puts one on a lane whose writer has gone.
FlowInOrder == Inbound!TypeOK /\ Inbound!FlowInOrder /\ Inbound!NothingAfterTheWriter

\* The ICMP errors sent by any moment are at most the burst and one for every
\* refill interval since the start, and one burst more for every token that a
\* receive goroutine took on a count which another had not stored yet, or had
\* stored since.
RateHeld == Bucket!TypeOK /\ Bucket!RateHeld
=============================================================================
