---------------------------- MODULE MeshOutbound -----------------------------
(***************************************************************************)
(* The mesh's outbound pipeline (internal/netstack/mesh.go): TUN readers   *)
(* classify a read and take tickets of the peers it goes to, crypto        *)
(* workers seal and hand over each peer's share, and the inbound path      *)
(* forwards segment-routed packets through the same peers                  *)
(* (internal/netstack/segments.go).                                        *)
(*                                                                         *)
(* line[p] holds the tickets of peer p that are reserved and not yet       *)
(* handed over, oldest first; a ticket is named by the buffer or forwarder *)
(* that carries it.  A compatibility peer sends synchronously: its carrier *)
(* waits until the ticket is the oldest.  A reserved peer takes the batch  *)
(* at any time (module PeerSender) and may have refused it a ticket.       *)
(***************************************************************************)
EXTENDS Integers, FiniteSets, FiniteSetsExt, Sequences, SequencesExt

CONSTANTS
    Readers,     \* TUN queues
    Workers,     \* outboundWorker goroutines
    Forwarders,  \* receive goroutines that deliver to the mesh
    Peers,
    Compat,      \* the peers built by NewPeerBatched
    JobsCap      \* cap(m.outboundJobs)

MeshAssumption ==
    /\ IsFiniteSet(Readers) /\ IsFiniteSet(Workers) /\ IsFiniteSet(Peers)
    /\ Compat \subseteq Peers /\ JobsCap \in Nat \ {0}

\* outboundFree is filled with one buffer more per reader than the jobs hold.
Buffers == 1 .. JobsCap + Cardinality(Readers)
Carriers == Buffers \cup Forwarders

VARIABLES
    free,        \* m.outboundFree
    jobs,        \* m.outboundJobs
    todo,        \* each carrier's peers that have not been dealt with, in order
    line,        \* each peer's outstanding tickets
    reader,      \* where each reader stands, and its buffer
    worker,      \* each worker's buffer, Idle or Gone
    forwarder,   \* where each forwarder stands
    mu,          \* who holds outboundDispatchMu
    closed,      \* m.closed
    closer       \* where Close stands

vars == <<free, jobs, todo, line, reader, worker, forwarder, mu, closed, closer>>

None == "none"
Idle == 0
Gone == -1
At(r, at, buf) == reader' = [reader EXCEPT ![r] = [at |-> at, buf |-> buf]]

Init ==
    /\ free = Buffers /\ jobs = <<>>
    /\ todo = [c \in Carriers |-> <<>>] /\ line = [p \in Peers |-> <<>>]
    /\ reader = [r \in Readers |-> [at |-> "idle", buf |-> Idle]]
    /\ worker = [w \in Workers |-> Idle] /\ forwarder = [f \in Forwarders |-> "idle"]
    /\ mu = None /\ closed = FALSE /\ closer = "open"

Orders == {s \in SeqOf(Peers, Cardinality(Peers)) : s # <<>> /\ IsInjective(s)}

-----------------------------------------------------------------------------
(* outboundReader.                                                         *)

Take(r) ==
    /\ reader[r].at = "idle"
    /\ \/ /\ free # {} /\ At(r, "reading", Min(free)) /\ free' = free \ {Min(free)}
       \/ closed /\ At(r, "gone", Idle) /\ UNCHANGED free
    /\ UNCHANGED <<jobs, todo, line, worker, forwarder, mu, closed, closer>>

\* A closed device returns errors only.
Open == closer \in {"open", "devices"}

\* Packets for some peers, in the order they are first seen.
Read(r, order) ==
    /\ reader[r].at = "reading" /\ Open
    /\ At(r, "classified", reader[r].buf)
    /\ todo' = [todo EXCEPT ![reader[r].buf] = order]
    /\ UNCHANGED <<free, jobs, line, worker, forwarder, mu, closed, closer>>

\* Nothing that has a route: the buffer goes back.
ReadNothing(r) ==
    /\ reader[r].at = "reading" /\ Open
    /\ At(r, "idle", Idle) /\ free' = free \cup {reader[r].buf}
    /\ UNCHANGED <<jobs, todo, line, worker, forwarder, mu, closed, closer>>

\* An error, which closing the device causes, ends the reader.
ReadFails(r) ==
    /\ reader[r].at = "reading"
    /\ At(r, "gone", Idle) /\ free' = free \cup {reader[r].buf}
    /\ UNCHANGED <<jobs, todo, line, worker, forwarder, mu, closed, closer>>

-----------------------------------------------------------------------------
(* dispatchOutbound.                                                       *)

\* The oldest peer of the carrier that has no ticket yet.
Without(c) == SelectSeq(todo[c], LAMBDA p : ~Contains(line[p], c))

\* reserveBatchNow: a ticket, or the peer's share is dropped.
TakeTicket(c) ==
    /\ Without(c) # <<>>
    /\ LET p == Head(Without(c))
       IN  \/ line' = [line EXCEPT ![p] = Append(@, c)] /\ UNCHANGED todo
           \/ /\ p \notin Compat
              /\ todo' = [todo EXCEPT ![c] = SelectSeq(@, LAMBDA q : q # p)] /\ UNCHANGED line

Lock(r) ==
    /\ reader[r].at = "classified" /\ mu = None
    /\ mu' = r /\ At(r, "reserving", reader[r].buf)
    /\ UNCHANGED <<free, jobs, todo, line, worker, forwarder, closed, closer>>

ReserveShare(r) ==
    /\ reader[r].at = "reserving" /\ TakeTicket(reader[r].buf)
    /\ UNCHANGED <<free, jobs, reader, worker, forwarder, mu, closed, closer>>

Reserved(r) ==
    /\ reader[r].at = "reserving" /\ Without(reader[r].buf) = <<>>
    /\ At(r, "submitting", reader[r].buf)
    /\ UNCHANGED <<free, jobs, todo, line, worker, forwarder, mu, closed, closer>>

\* The send waits for room in the channel.
Submit(r) ==
    /\ reader[r].at = "submitting" /\ Len(jobs) < JobsCap
    /\ jobs' = Append(jobs, reader[r].buf)
    /\ At(r, "idle", Idle) /\ mu' = IF mu = r THEN None ELSE mu
    /\ UNCHANGED <<free, todo, line, worker, forwarder, closed, closer>>

-----------------------------------------------------------------------------
(* outboundWorker and forwardSegments.                                     *)

\* enqueue of the carrier's next batch.
HandOver(c) ==
    /\ todo[c] # <<>>
    /\ LET p == Head(todo[c])
       IN  /\ p \in Compat => Head(line[p]) = c
           /\ line' = [line EXCEPT ![p] = SelectSeq(@, LAMBDA d : d # c)]
    /\ todo' = [todo EXCEPT ![c] = Tail(@)]

TakeJob(w) ==
    /\ worker[w] = Idle /\ jobs # <<>>
    /\ worker' = [worker EXCEPT ![w] = Head(jobs)] /\ jobs' = Tail(jobs)
    /\ UNCHANGED <<free, todo, line, reader, forwarder, mu, closed, closer>>

Work(w) ==
    /\ worker[w] \in Buffers /\ HandOver(worker[w])
    /\ UNCHANGED <<free, jobs, reader, worker, forwarder, mu, closed, closer>>

\* Mutant: the buffer goes back while some peer's share is not handed over.
RecycleEarly(w) ==
    /\ worker[w] \in Buffers
    /\ free' = free \cup {worker[w]}
    /\ worker' = [worker EXCEPT ![w] = Idle]
    /\ UNCHANGED <<jobs, todo, line, reader, forwarder, mu, closed, closer>>

\* The buffer goes back, or is left to the collector once the mesh is closed.
Recycle(w) ==
    /\ worker[w] \in Buffers /\ todo[worker[w]] = <<>>
    /\ \/ free' = free \cup {worker[w]}
       \/ closed /\ UNCHANGED free
    /\ worker' = [worker EXCEPT ![w] = Idle]
    /\ UNCHANGED <<jobs, todo, line, reader, forwarder, mu, closed, closer>>

\* The channel is closed and empty.
Leave(w) ==
    /\ worker[w] = Idle /\ closer = "workers" /\ jobs = <<>>
    /\ worker' = [worker EXCEPT ![w] = Gone]
    /\ UNCHANGED <<free, jobs, todo, line, reader, forwarder, mu, closed, closer>>

\* DeliverInboundBatch lets no one in once the mesh is closing.
Deliver(f, order) ==
    /\ forwarder[f] = "idle" /\ ~closed
    /\ forwarder' = [forwarder EXCEPT ![f] = "reserving"]
    /\ todo' = [todo EXCEPT ![f] = order]
    /\ UNCHANGED <<free, jobs, line, reader, worker, mu, closed, closer>>

\* forwardSegments takes all its tickets first, under no lock of the mesh.
ForwardReserves(f) ==
    /\ forwarder[f] = "reserving"
    /\ \/ TakeTicket(f) /\ UNCHANGED forwarder
       \/ /\ Without(f) = <<>> /\ forwarder' = [forwarder EXCEPT ![f] = "sending"]
          /\ UNCHANGED <<todo, line>>
    /\ UNCHANGED <<free, jobs, reader, worker, mu, closed, closer>>

ForwardSends(f) ==
    /\ forwarder[f] = "sending"
    /\ \/ HandOver(f) /\ UNCHANGED forwarder
       \/ /\ todo[f] = <<>> /\ forwarder' = [forwarder EXCEPT ![f] = "idle"]
          /\ UNCHANGED <<todo, line>>
    /\ UNCHANGED <<free, jobs, reader, worker, mu, closed, closer>>

-----------------------------------------------------------------------------
(* Close.                                                                  *)

CloseMesh ==
    /\ closer = "open" /\ closer' = "devices" /\ closed' = TRUE
    /\ UNCHANGED <<free, jobs, todo, line, reader, worker, forwarder, mu>>

CloseDevices ==
    /\ closer = "devices" /\ closer' = "readers"
    /\ UNCHANGED <<free, jobs, todo, line, reader, worker, forwarder, mu, closed>>

\* With the readers gone nobody submits and the channel is closed.
CloseJobs ==
    /\ closer = "readers" /\ \A r \in Readers : reader[r].at = "gone"
    /\ closer' = "workers"
    /\ UNCHANGED <<free, jobs, todo, line, reader, worker, forwarder, mu, closed>>

CloseReturns ==
    /\ closer = "workers" /\ \A w \in Workers : worker[w] = Gone
    /\ \A f \in Forwarders : forwarder[f] = "idle"
    /\ closer' = "closed"
    /\ UNCHANGED <<free, jobs, todo, line, reader, worker, forwarder, mu, closed>>

-----------------------------------------------------------------------------
Reading(r) == \/ \E order \in Orders : Read(r, order)
              \/ ReadNothing(r)
              \/ ReadFails(r)
Dispatch(r) == Take(r) \/ Lock(r) \/ ReserveShare(r) \/ Reserved(r) \/ Submit(r)
Working(w) == TakeJob(w) \/ Work(w) \/ Recycle(w) \/ Leave(w)
Forwarding(f) == ForwardReserves(f) \/ ForwardSends(f)

Next ==
    \/ \E r \in Readers : Reading(r) \/ Dispatch(r)
    \/ \E w \in Workers : Working(w)
    \/ \E f \in Forwarders : Forwarding(f) \/ \E order \in Orders : Deliver(f, order)
    \/ CloseMesh \/ CloseDevices \/ CloseJobs \/ CloseReturns
    \/ closer = "closed" /\ UNCHANGED vars

Spec == Init /\ [][Next]_vars

-----------------------------------------------------------------------------
(* Properties.                                                             *)

TypeOK ==
    /\ free \subseteq Buffers /\ jobs \in Seq(Buffers) /\ Len(jobs) <= JobsCap
    /\ \A c \in Carriers : todo[c] \in {<<>>} \cup Orders
    /\ \A p \in Peers : line[p] \in Seq(Carriers) /\ IsInjective(line[p])
    /\ \A r \in Readers : reader[r] \in
           [at : {"idle", "reading", "classified", "reserving", "submitting", "gone"},
            buf : Buffers \cup {Idle}]
    /\ worker \in [Workers -> Buffers \cup {Idle, Gone}]
    /\ forwarder \in [Forwarders -> {"idle", "reserving", "sending"}]
    /\ mu \in Readers \cup {None} /\ closed \in BOOLEAN
    /\ closer \in {"open", "devices", "readers", "workers", "closed"}

\* A ticket is somebody's to hand over: its carrier still has the peer on its
\* list and is held by a reader, the channel, a worker or a forwarder.  No
\* ticket is stranded, when Close has returned either, and no buffer is free
\* while tickets depend on it.
TicketsCarried ==
    \A p \in Peers : \A c \in Range(line[p]) :
        /\ Contains(todo[c], p) /\ c \notin free
        /\ \/ c \in Forwarders /\ forwarder[c] # "idle"
           \/ Contains(jobs, c) \/ c \in Range(worker)
           \/ \E r \in Readers : reader[r].buf = c

\* A ticket of the carrier is in some peer's line.
Outstanding(c) == \E p \in Peers : Contains(line[p], c)

\* "Submission never blocks" (dispatchOutbound): the channel has room for
\* whoever submits.
\* Refuted by the code: section 5 of the README.
NeverBlocks == \A r \in Readers : reader[r].at = "submitting" => Len(jobs) < JobsCap
=============================================================================
