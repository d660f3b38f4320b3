----------------------------- MODULE PeerSender ------------------------------
(***************************************************************************)
(* The ordered sender of a peer (internal/netstack/peer.go): batches take  *)
(* a slot and a ticket, are sealed in parallel, and one goroutine hands    *)
(* them to the transport in ticket order.  Close stops it at any moment.   *)
(*                                                                         *)
(* A batch is carried by the goroutine that reserved it until enqueue, and *)
(* by the sender from then on.  Data batches come from the mesh's crypto   *)
(* workers; a control batch is one Babel packet, whose place may be taken  *)
(* long before it is sent and whose owner is told when it is lost.  The    *)
(* queue is a set: the sender files what it reads by ticket.               *)
(***************************************************************************)
EXTENDS Integers, FiniteSets, FiniteSetsExt, Sequences

CONSTANTS
    Data, Control,   \* the batches offered over the peer's life
    Size,            \* packets in a data batch; a control batch holds one
    Slots,           \* cap(p.slots) and cap(p.controlSlots), by kind
    MaxRun           \* packets handed to the transport in one call, 128

Batches == Data \cup Control

SenderAssumption ==
    /\ IsFiniteSet(Batches) /\ Data \cap Control = {}
    /\ Size \in Nat \ {0} /\ MaxRun \in Nat \ {0}
    /\ Slots.data \in Nat \ {0} /\ Slots.control \in Nat \ {0}

VARIABLES
    at,          \* how far each batch has come
    ticket,      \* peerBatch.ticket, None before it is taken
    err,         \* peerBatch.err: which step failed
    counted,     \* peerBatch.counted
    hasSlot,     \* peerBatch.hasSlot
    informed,    \* history: how often a control batch's owner heard that it is lost
    reserved,    \* Peer.reserved
    slots,       \* slots in use, by kind
    dropped, sendFailed,     \* Peer.dropped, Peer.sendFailed
    sent,        \* history: packets the transport took
    wire,        \* history: the tickets of each call of the transport
    stop,        \* Peer.stop is closed
    queueClosed, \* Peer.queueClosed
    sender,      \* where senderLoop stands
    next,        \* senderLoop's next
    closer       \* where the caller of Close stands

batchVars == <<at, ticket, err, counted, hasSlot, informed>>
counters == <<dropped, sendFailed, sent>>
loopVars == <<sender, next, wire>>
senderVars == <<batchVars, reserved, slots, counters, stop, queueClosed, loopVars, closer>>

NoTicket == -1
Kind(b) == IF b \in Data THEN "data" ELSE "control"
Count(b) == IF b \in Data THEN Size ELSE 1
Total(bs) == Size * Cardinality(bs \cap Data) + Cardinality(bs \ Data)   \* their packets
In(state) == {b \in Batches : at[b] = state}
To(b, state) == at' = [at EXCEPT ![b] = state]

SenderInit ==
    /\ at = [b \in Batches |-> "new"]
    /\ ticket = [b \in Batches |-> NoTicket] /\ err = [b \in Batches |-> "none"]
    /\ counted = [b \in Batches |-> FALSE] /\ hasSlot = [b \in Batches |-> FALSE]
    /\ informed = [b \in Batches |-> 0]
    /\ reserved = 0 /\ slots = [k \in {"data", "control"} |-> 0]
    /\ dropped = 0 /\ sendFailed = 0 /\ sent = 0 /\ wire = <<>>
    /\ stop = FALSE /\ queueClosed = FALSE
    /\ sender = "wait" /\ next = 0 /\ closer = "open"

-----------------------------------------------------------------------------
(* The goroutine that offers a batch.                                      *)

\* A caller told that it gets no place.
RefuseBatch(b) ==
    /\ To(b, "done")
    /\ dropped' = dropped + Count(b)
    /\ informed' = [informed EXCEPT ![b] = IF b \in Control THEN @ + 1 ELSE @]
    /\ UNCHANGED <<hasSlot, slots>>

\* reserveNow looks at stop ...
OfferBatch(b) ==
    /\ at[b] = "new"
    /\ IF stop THEN RefuseBatch(b) ELSE To(b, "offered") /\ UNCHANGED <<dropped, informed, hasSlot, slots>>
    /\ UNCHANGED <<ticket, err, counted, reserved, sendFailed, sent, stop, queueClosed, loopVars, closer>>

\* ... and then for a slot; with both ready the select takes either.
TakeSlot(b) ==
    /\ at[b] = "offered"
    /\ \/ /\ slots[Kind(b)] < Slots[Kind(b)]
          /\ To(b, "slotted")
          /\ slots' = [slots EXCEPT ![Kind(b)] = @ + 1]
          /\ hasSlot' = [hasSlot EXCEPT ![b] = TRUE]
          /\ UNCHANGED <<dropped, informed>>
       \/ (stop \/ slots[Kind(b)] = Slots[Kind(b)]) /\ RefuseBatch(b)
    /\ UNCHANGED <<ticket, err, counted, reserved, sendFailed, sent, stop, queueClosed, loopVars, closer>>

\* reserveBatchWithSlot: a ticket and, unless the SA refuses, a sequence range
\* in one critical section.  ReserveRawOrDrop returns a refusal to its caller.
Reserve(b, failed) ==
    /\ at[b] = "slotted"
    /\ To(b, "reserved")
    /\ ticket' = [ticket EXCEPT ![b] = reserved] /\ reserved' = reserved + 1
    /\ err' = [err EXCEPT ![b] = IF failed THEN "reserve" ELSE "none"]
    /\ counted' = [counted EXCEPT ![b] = failed]
    /\ dropped' = IF failed THEN dropped + Count(b) ELSE dropped
    /\ informed' = [informed EXCEPT ![b] = IF failed /\ b \in Control THEN @ + 1 ELSE @]
    /\ UNCHANGED <<hasSlot, slots, sendFailed, sent, stop, queueClosed, loopVars, closer>>

\* encrypt: the sealer returns the whole batch or an error and nothing.
Encrypt(b, failed) ==
    /\ at[b] = "reserved" /\ (failed => err[b] = "none")
    /\ To(b, "sealed")
    /\ err' = [err EXCEPT ![b] = IF failed THEN "seal" ELSE @]
    /\ UNCHANGED <<ticket, counted, hasSlot, informed, reserved, slots, counters, stop, queueClosed, loopVars, closer>>

Sealed(b) == err[b] \notin {"reserve", "seal"}

\* fail: a callback is registered, which Babel does for the places it is given.
Hears(b) == b \in Control /\ err[b] # "reserve"

-----------------------------------------------------------------------------
(* Giving batches back.                                                    *)

\* releaseSlot, for every batch of a set that holds one.
Released(bs) ==
    [k \in DOMAIN slots |-> slots[k] - Cardinality({b \in bs : Kind(b) = k /\ hasSlot[b]})]

\* What abandon does to every batch of a set.
AbandonAll(bs) ==
    /\ at' = [b \in Batches |-> IF b \in bs THEN "done" ELSE at[b]]
    /\ dropped' = dropped + Total({b \in bs : ~counted[b]})
    /\ counted' = [b \in Batches |-> counted[b] \/ b \in bs]
    /\ hasSlot' = [b \in Batches |-> hasSlot[b] /\ b \notin bs]
    /\ slots' = Released(bs)
    /\ informed' = [b \in Batches |-> IF b \in bs /\ Hears(b) THEN informed[b] + 1 ELSE informed[b]]

\* enqueue: into the queue, or given back once the queue is closed.
Enqueue(b) ==
    /\ at[b] = "sealed"
    /\ IF queueClosed THEN AbandonAll({b})
       ELSE To(b, "queued") /\ UNCHANGED <<counted, hasSlot, slots, informed, dropped>>
    /\ UNCHANGED <<ticket, err, reserved, sendFailed, sent, stop, queueClosed, loopVars, closer>>

-----------------------------------------------------------------------------
(* senderLoop.                                                             *)

Pending(t) == {b \in In("pending") : ticket[b] = t}

\* One batch is read from the queue and filed, also while nothing is missing.
Drain(b) ==
    /\ sender \in {"wait", "discard"} /\ at[b] = "queued"
    /\ To(b, "pending")
    /\ UNCHANGED <<ticket, err, counted, hasSlot, informed, reserved, slots, counters, stop, queueClosed, loopVars, closer>>

Filed == {ticket[b] : b \in In("pending")}
PacketsOf(bs) == Total({b \in bs : Sealed(b)})

\* Mutant: what is filed goes out although an earlier ticket is missing.
CollectsAny(t) == t \in Filed

\* Ticket t goes out with this call: all from next to it are there, and the
\* ones before it leave room.
Collects(t) ==
    /\ t >= next /\ next .. t \subseteq Filed
    /\ PacketsOf({b \in In("pending") : ticket[b] \in next .. t - 1}) < MaxRun

CollectReady ==
    /\ sender = "wait"
    /\ LET ready == {b \in In("pending") : Collects(ticket[b])}
       IN  /\ ready # {}
           /\ at' = [b \in Batches |-> IF b \in ready THEN "ready" ELSE at[b]]
           /\ next' = Max({ticket[b] : b \in ready}) + 1
           /\ sender' = IF \A b \in ready : ~Sealed(b) THEN "finish" ELSE "transmit"
    /\ UNCHANGED <<ticket, err, counted, hasSlot, informed, reserved, slots, counters, wire, stop, queueClosed, closer>>

\* The transport returns; an error covers every packet of the call.
Transmitted(failed) ==
    /\ sender = "transmit" /\ sender' = "finish"
    /\ LET out == {b \in In("ready") : Sealed(b)}
       IN  /\ err' = [b \in Batches |-> IF failed /\ b \in out THEN "send" ELSE err[b]]
           /\ wire' = Append(wire, {ticket[b] : b \in out})
           /\ sent' = IF failed THEN sent ELSE sent + PacketsOf(out)
    /\ UNCHANGED <<at, ticket, counted, hasSlot, informed, reserved, slots, dropped, sendFailed, next, stop, queueClosed, closer>>

\* The batches of the call are finished with, one after the other.
Finish(b) ==
    /\ sender = "finish" /\ at[b] = "ready"
    /\ \A c \in In("ready") : ticket[b] <= ticket[c]
    /\ To(b, "done")
    /\ LET new == err[b] # "none" /\ ~counted[b]
       IN  /\ dropped' = IF new /\ ~Sealed(b) THEN dropped + Count(b) ELSE dropped
           /\ sendFailed' = IF new /\ Sealed(b) THEN sendFailed + Count(b) ELSE sendFailed
           /\ counted' = [counted EXCEPT ![b] = @ \/ new]
    /\ hasSlot' = [hasSlot EXCEPT ![b] = FALSE]
    /\ slots' = Released({b})
    /\ informed' = [informed EXCEPT ![b] = IF err[b] # "none" /\ Hears(b) THEN @ + 1 ELSE @]
    /\ UNCHANGED <<ticket, err, reserved, sent, stop, queueClosed, loopVars, closer>>

Again ==
    /\ sender = "finish" /\ In("ready") = {}
    /\ sender' = "wait"
    /\ UNCHANGED <<batchVars, reserved, slots, counters, next, wire, stop, queueClosed, closer>>

\* With the next batch missing the select may see the stop.  discardQueued
\* closes the queue first.
Discard ==
    /\ sender = "wait" /\ stop /\ Pending(next) = {}
    /\ sender' = "discard" /\ queueClosed' = TRUE
    /\ UNCHANGED <<batchVars, reserved, slots, counters, next, wire, stop, closer>>

\* With the queue empty everything filed is given back.
Discarded ==
    /\ sender = "discard" /\ In("queued") = {}
    /\ AbandonAll(In("pending"))
    /\ sender' = "stopped"
    /\ UNCHANGED <<ticket, err, reserved, sendFailed, sent, next, wire, stop, queueClosed, closer>>

-----------------------------------------------------------------------------
(* Close.                                                                  *)

Close ==
    /\ closer = "open"
    /\ stop' = TRUE /\ closer' = "waits"
    /\ UNCHANGED <<batchVars, reserved, slots, counters, queueClosed, loopVars>>

\* The sender is done or the grace is over.
CloseReturns ==
    /\ closer = "waits" /\ closer' = "returned"
    /\ UNCHANGED <<batchVars, reserved, slots, counters, stop, queueClosed, loopVars>>

\* Nothing more happens; MCTunnels!TrafficMoves shows that no batch is left.
Done == sender = "stopped" /\ closer = "returned" /\ In("new") = {}

-----------------------------------------------------------------------------
Carry(b) ==
    \/ OfferBatch(b) \/ TakeSlot(b) \/ Enqueue(b)
    \/ \E failed \in BOOLEAN : Reserve(b, failed) \/ Encrypt(b, failed)

Loop == CollectReady \/ Again \/ Discard \/ Discarded \/ \E b \in Batches : Drain(b) \/ Finish(b)

SenderNext ==
    \/ \E b \in Batches : Carry(b)
    \/ Loop \/ Close \/ CloseReturns
    \/ \E failed \in BOOLEAN : Transmitted(failed)
    \/ Done /\ UNCHANGED senderVars

SenderSpec == SenderInit /\ [][SenderNext]_senderVars

-----------------------------------------------------------------------------
(* Properties.                                                             *)

SenderTypeOK ==
    /\ at \in [Batches -> {"new", "offered", "slotted", "reserved", "sealed", "queued",
                           "pending", "ready", "done"}]
    /\ ticket \in [Batches -> {NoTicket} \cup Nat]
    /\ err \in [Batches -> {"none", "reserve", "seal", "send"}]
    /\ counted \in [Batches -> BOOLEAN] /\ hasSlot \in [Batches -> BOOLEAN]
    /\ informed \in [Batches -> Nat]
    /\ reserved \in Nat /\ {dropped, sendFailed, sent, next} \subseteq Nat
    /\ \A k \in DOMAIN slots : slots[k] \in 0..Slots[k]
    /\ sender \in {"wait", "transmit", "finish", "discard", "stopped"}
    /\ closer \in {"open", "waits", "returned"} /\ {stop, queueClosed} \subseteq BOOLEAN

\* Packets reach the transport in the order their tickets, and so their
\* sequence numbers, were reserved, however the workers and Babel interleave:
\* no call of the transport has an earlier ticket than the calls before it.
TicketsInOrder ==
    \A i, j \in DOMAIN wire : i < j => \A t \in wire[i], u \in wire[j] : t < u

\* The batches whose packets no counter has yet.
Open == {b \in Batches : /\ at[b] # "done" /\ ~counted[b]
                         /\ ~(at[b] = "ready" /\ sender = "finish" /\ err[b] = "none")}

\* No packet is lost from the counters or counted twice: what the transport
\* took, what it lost and what the peer refused add up to what was offered.
Accounted == dropped + sendFailed + sent = Total(Batches) - Total(Open)

\* A slot is in use exactly while some batch holds it, and every batch in the
\* queue holds one: the queue has room for whatever reaches it ("Never
\* blocks", enqueue), and nothing is left behind when the sender has gone.
SlotsHeld ==
    /\ \A k \in DOMAIN slots : slots[k] = Cardinality({b \in Batches : Kind(b) = k /\ hasSlot[b]})
    /\ \A b \in In("queued") \cup In("pending") \cup In("ready") : hasSlot[b]
    /\ \A b \in In("done") : ~hasSlot[b]
    /\ sender = "stopped" => In("queued") \cup In("pending") \cup In("ready") = {}

\* Babel hears exactly once of a packet that did not reach the wire, from the
\* reservation or from the sender, and never of one that did.
FailureTold ==
    \A b \in Control \cap In("done") :
        informed[b] = IF err[b] = "none" /\ \E i \in DOMAIN wire : ticket[b] \in wire[i] THEN 0 ELSE 1

\* Packets reach the transport in the order their tickets, and so their sequence
\* numbers, were reserved, however the workers and Babel interleave, and none is
\* lost or counted twice: what the transport took, lost or was refused adds up to
\* what was offered, a slot is in use exactly while a batch holds it, and Babel
\* hears once of what did not reach the wire and never of what did.
WireInOrder ==
    SenderTypeOK /\ TicketsInOrder /\ Accounted /\ SlotsHeld /\ FailureTold
=============================================================================
