----------------------------- MODULE MeshInbound -----------------------------
(***************************************************************************)
(* The mesh's inbound half (internal/netstack/mesh.go): the receive        *)
(* goroutines of the peers deliver decrypted packets to the writer lane of *)
(* their flow, a writer per lane merges what is queued, and Close ends all *)
(* of it while deliveries are under way.                                   *)
(*                                                                         *)
(* A delivery is the set of lanes its packets hash to.  A packet is the    *)
(* number of the delivery it came with, counted per deliverer; a flow has  *)
(* one deliverer and one lane.                                             *)
(***************************************************************************)
EXTENDS Integers, FiniteSets, FiniteSetsExt, Sequences

CONSTANTS
    Deliverers,  \* receive goroutines
    Lanes,       \* TUN queues, numbers
    QueueCap,    \* inboundWriteQueueSize
    WriteBatch,  \* inboundWriteBatchSize
    Deliveries   \* bound: deliveries of one deliverer

InboundAssumption ==
    /\ IsFiniteSet(Deliverers) /\ IsFiniteSet(Lanes) /\ Lanes \subseteq Nat
    /\ QueueCap \in Nat \ {0} /\ WriteBatch \in Nat \ {0} /\ Deliveries \in Nat

VARIABLES
    deliverer,   \* the lanes each one has left to send to, and its count
    queue,       \* m.inboundWriters
    writer,      \* what each writer has collected, and where it stands
    written,     \* history: what each lane's device took
    closing,     \* m.closing and m.closed, set together under deliveryMu
    inside,      \* the count of deliveryWG
    closer       \* where Close stands

vars == <<deliverer, queue, writer, written, closing, inside, closer>>

Outside == [left |-> {}, n |-> 0, in |-> FALSE]

Init ==
    /\ deliverer = [d \in Deliverers |-> Outside]
    /\ queue = [l \in Lanes |-> <<>>]
    /\ writer = [l \in Lanes |-> [at |-> "wait", pending |-> <<>>]]
    /\ written = [l \in Lanes |-> <<>>]
    /\ closing = FALSE /\ inside = 0 /\ closer = "open"

-----------------------------------------------------------------------------
(* DeliverInboundBatch.                                                    *)

\* A closing mesh turns the delivery away; else it is registered.
Enter(d, lanes) ==
    /\ ~deliverer[d].in /\ deliverer[d].n < Deliveries
    /\ deliverer' = IF closing THEN [deliverer EXCEPT ![d].n = @ + 1]
                    ELSE [deliverer EXCEPT ![d] = [left |-> lanes, n |-> @.n + 1, in |-> TRUE]]
    /\ inside' = IF closing THEN inside ELSE inside + 1
    /\ UNCHANGED <<queue, writer, written, closing, closer>>

Put(d, l) ==
    Len(queue[l]) < QueueCap /\ queue' = [queue EXCEPT ![l] = Append(@, <<d, deliverer[d].n>>)]

\* Mutant: a delivery waits for room only.
SendBlocks(d) ==
    /\ deliverer[d].left # {} /\ Put(d, Min(deliverer[d].left))
    /\ deliverer' = [deliverer EXCEPT ![d].left = @ \ {Min(@)}]
    /\ UNCHANGED <<writer, written, closing, inside, closer>>

\* The lanes are served in order.  The select waits for room or for the close,
\* and takes either when both are there.
Send(d) ==
    /\ deliverer[d].left # {}
    /\ Put(d, Min(deliverer[d].left)) \/ (closing /\ UNCHANGED queue)
    /\ deliverer' = [deliverer EXCEPT ![d].left = @ \ {Min(@)}]
    /\ UNCHANGED <<writer, written, closing, inside, closer>>

Exit(d) ==
    /\ deliverer[d].in /\ deliverer[d].left = {}
    /\ deliverer' = [deliverer EXCEPT ![d].in = FALSE]
    /\ inside' = IF inside = 0 THEN 0 ELSE inside - 1
    /\ UNCHANGED <<queue, writer, written, closing, closer>>

-----------------------------------------------------------------------------
(* The writer of a lane.                                                   *)

\* Mutant: what is collected later is put first.
CollectPrepends(l) ==
    /\ writer[l].at \in {"wait", "collect"} /\ queue[l] # <<>>
    /\ Len(writer[l].pending) < WriteBatch
    /\ writer' = [writer EXCEPT ![l] = [at |-> "collect", pending |-> <<Head(queue[l])>> \o @.pending]]
    /\ queue' = [queue EXCEPT ![l] = Tail(@)]
    /\ UNCHANGED <<deliverer, written, closing, inside, closer>>

\* collectReadyInbound: one entry is waited for, more are taken while the
\* batch has room.
Collect(l) ==
    /\ writer[l].at \in {"wait", "collect"} /\ queue[l] # <<>>
    /\ Len(writer[l].pending) < WriteBatch
    /\ writer' = [writer EXCEPT ![l] = [at |-> "collect", pending |-> Append(@.pending, Head(queue[l]))]]
    /\ queue' = [queue EXCEPT ![l] = Tail(@)]
    /\ UNCHANGED <<deliverer, written, closing, inside, closer>>

Write(l) ==
    /\ writer[l].at = "collect"
    /\ queue[l] = <<>> \/ Len(writer[l].pending) >= WriteBatch
    /\ written' = [written EXCEPT ![l] = @ \o writer[l].pending]
    /\ writer' = [writer EXCEPT ![l] = [at |-> "wait", pending |-> <<>>]]
    /\ UNCHANGED <<deliverer, queue, closing, inside, closer>>

\* The select may see the close although the queue holds something.
Stop(l) ==
    /\ writer[l].at = "wait" /\ closing
    /\ writer' = [writer EXCEPT ![l].at = "stop"]
    /\ UNCHANGED <<deliverer, queue, written, closing, inside, closer>>

\* deliveryWG.Wait.
Leave(l) ==
    /\ writer[l].at = "stop" /\ inside = 0
    /\ writer' = [writer EXCEPT ![l].at = "gone"]
    /\ UNCHANGED <<deliverer, queue, written, closing, inside, closer>>

-----------------------------------------------------------------------------
(* Close.                                                                  *)

Close ==
    /\ closer = "open" /\ closer' = "waits" /\ closing' = TRUE
    /\ UNCHANGED <<deliverer, queue, writer, written, inside>>

CloseReturns ==
    /\ closer = "waits" /\ inside = 0 /\ \A l \in Lanes : writer[l].at = "gone"
    /\ closer' = "closed"
    /\ UNCHANGED <<deliverer, queue, writer, written, closing, inside>>

-----------------------------------------------------------------------------
Delivering(d) == Send(d) \/ Exit(d)
Writing(l) == Collect(l) \/ Write(l) \/ Stop(l) \/ Leave(l)

Next ==
    \/ \E d \in Deliverers : Delivering(d) \/ \E lanes \in (SUBSET Lanes) \ {{}} : Enter(d, lanes)
    \/ \E l \in Lanes : Writing(l)
    \/ Close \/ CloseReturns
    \/ closing /\ UNCHANGED vars     \* that Close gets through is MCTunnels!MeshMoves

Spec == Init /\ [][Next]_vars

-----------------------------------------------------------------------------
(* Properties.                                                             *)

TypeOK ==
    /\ \A d \in Deliverers :
           deliverer[d] \in [left : SUBSET Lanes, n : 0..Deliveries, in : BOOLEAN]
    /\ \A l \in Lanes : /\ Len(queue[l]) <= QueueCap
                        /\ Len(writer[l].pending) <= WriteBatch
                        /\ writer[l].at \in {"wait", "collect", "stop", "gone"}
    /\ closing \in BOOLEAN /\ inside = Cardinality({d \in Deliverers : deliverer[d].in})
    /\ closer \in {"open", "waits", "closed"}

\* The packets of a flow are written in the order they were decrypted.
FlowInOrder ==
    \A l \in Lanes : \A i, j \in DOMAIN written[l] :
        (i < j /\ written[l][i][1] = written[l][j][1]) => written[l][i][2] < written[l][j][2]

\* Nobody puts a packet on a lane whose writer has gone.
NothingAfterTheWriter ==
    \A l \in Lanes : writer[l].at = "gone" => \A d \in Deliverers : l \notin deliverer[d].left
=============================================================================
