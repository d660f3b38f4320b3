----------------------------- MODULE EspReceive -----------------------------
(***************************************************************************)
(* The ESP receive pipeline of one session: the hub's receive loops queue  *)
(* ticketed batches (transport/mux.go), a pool of workers decrypts them in *)
(* parallel, and one emitter puts them back in ticket order before the     *)
(* replay commit and delivery (internal/client/receive.go).                *)
(*                                                                         *)
(* A batch is its ticket and its size.  What the packets in it are, and    *)
(* what the commit makes of them, is module ReplayWindow.                  *)
(***************************************************************************)
EXTENDS Integers, Sequences, FiniteSets, FiniteSetsExt

CONSTANTS
    Loops,         \* the hub's receive loops, one per socket
    Workers,       \* the decrypting workers (more than one)
    Sizes,         \* the byte sizes a batch may have
    QueueCap,      \* espChanSize, the capacity of espCh
    QueueBytes,    \* espQueueBytes, its byte budget
    MaxTickets     \* bound on the batches the run queues

ReceiveAssumption ==
    /\ IsFiniteSet(Workers) /\ Sizes \subseteq Nat
    /\ QueueCap \in Nat /\ QueueBytes \in Nat /\ MaxTickets \in Nat

VARIABLES
    espCh,         \* Mux.espCh
    espTicket,     \* Mux.espTicket
    espQueued,     \* Mux.espQueued, may lag what espCh holds
    sending,       \* the loop holding espDispatchMu past its send, or none
    done,          \* Mux.done is closed
    free,          \* how many batch buffers the free channel holds
    worker,        \* each worker's place in its loop and the batch it has
    completed,     \* the completed channel, as the tickets in it
    emitter,       \* the emitter's pending map, next and merged, and its place
    receiver,      \* receiveESP's own place
    emitted        \* history: the tickets handed to emit, in order

receiveVars == <<espCh, espTicket, espQueued, sending, done, free, worker,
          completed, emitter, receiver, emitted>>
muxVars == <<espCh, espTicket, espQueued, sending, done>>
poolVars == <<free, worker, completed>>

Batches == [ticket : 0 .. MaxTickets - 1, bytes : Sizes]
Unoccupied == [pc |-> "free"]
NoBatch == [bytes |-> 0]
Buffers == 2 * Cardinality(Workers)      \* queueSize

ReceiveInit ==
    /\ espCh = <<>> /\ espTicket = 0 /\ espQueued = 0 /\ sending = NoBatch
    /\ done = FALSE
    /\ free = Buffers /\ completed = {}
    /\ worker = [w \in Workers |-> Unoccupied]
    /\ emitter = [pc |-> "wait", pending |-> {}, next |-> 0, merged |-> <<>>]
    /\ receiver = "wait"
    /\ emitted = <<>>

-----------------------------------------------------------------------------
(* transport: dispatchESP, takeESP, Mux.Close.                             *)

\* Mutant: the ticket is taken even when the queue refuses the batch.
DispatchBurnsTicket(l, bytes) ==
    /\ sending = NoBatch /\ espTicket < MaxTickets
    /\ espQueued + bytes <= QueueBytes
    /\ espCh' = IF Len(espCh) < QueueCap
                THEN Append(espCh, [ticket |-> espTicket, bytes |-> bytes])
                ELSE espCh
    /\ espTicket' = espTicket + 1
    /\ sending' = [loop |-> l, bytes |-> bytes]
    /\ UNCHANGED <<espQueued, done, poolVars, emitter, receiver, emitted>>

\* The queue has room and so has its budget: the batch goes in and takes the
\* next ticket.  A batch that is refused takes none.
DispatchSend(l, bytes) ==
    /\ sending = NoBatch                    \* espDispatchMu is free
    /\ espTicket < MaxTickets
    /\ espQueued + bytes <= QueueBytes
    /\ Len(espCh) < QueueCap
    /\ espCh' = Append(espCh, [ticket |-> espTicket, bytes |-> bytes])
    /\ espTicket' = espTicket + 1
    /\ sending' = [loop |-> l, bytes |-> bytes]
    /\ UNCHANGED <<espQueued, done, poolVars, emitter, receiver, emitted>>

\* espQueued.Add and the unlock, after the send: a worker may already have
\* taken the batch and subtracted it.
DispatchAccount ==
    /\ sending # NoBatch
    /\ espQueued' = espQueued + sending.bytes
    /\ sending' = NoBatch
    /\ UNCHANGED <<espCh, espTicket, done, poolVars, emitter, receiver, emitted>>

\* The session, or the hub under it, closes the mux.
Close ==
    /\ ~done
    /\ done' = TRUE
    /\ UNCHANGED <<espCh, espTicket, espQueued, sending, poolVars, emitter,
                   receiver, emitted>>

-----------------------------------------------------------------------------
(* client: one worker.                                                     *)

\* A buffer is taken before the batch it will hold.
TakeFree(w) ==
    /\ worker[w] = Unoccupied
    /\ free > 0
    /\ free' = free - 1
    /\ worker' = [worker EXCEPT ![w] = [pc |-> "recv"]]
    /\ UNCHANGED <<muxVars, completed, emitter, receiver, emitted>>

\* RecvESPBatchConcurrent takes a batch ...
Recv(w) ==
    /\ worker[w].pc = "recv"
    /\ espCh # <<>>
    /\ espCh' = Tail(espCh)
    /\ worker' = [worker EXCEPT ![w] = [pc |-> "take", batch |-> Head(espCh)]]
    /\ UNCHANGED <<espTicket, espQueued, sending, done, free, completed,
                   emitter, receiver, emitted>>

\* ... and takeESP returns its share of the budget.
TakeESP(w) ==
    /\ worker[w].pc = "take"
    /\ espQueued' = espQueued - worker[w].batch.bytes
    /\ worker' = [worker EXCEPT ![w].pc = "decrypt"]
    /\ UNCHANGED <<espCh, espTicket, sending, done, free, completed, emitter,
                   receiver, emitted>>

\* Or the mux is done: the select may pick this even with batches queued.
RecvFails(w) ==
    /\ worker[w].pc = "recv"
    /\ done
    /\ free' = free + 1
    /\ worker' = [worker EXCEPT ![w] = [pc |-> "exited"]]
    /\ UNCHANGED <<muxVars, completed, emitter, receiver, emitted>>

Decrypt(w) ==
    /\ worker[w].pc = "decrypt"
    /\ Cardinality(completed) < Buffers
    /\ completed' = completed \cup {worker[w].batch.ticket}
    /\ worker' = [worker EXCEPT ![w] = Unoccupied]
    /\ UNCHANGED <<muxVars, free, emitter, receiver, emitted>>

-----------------------------------------------------------------------------
(* client: the emitter and receiveESP itself.                              *)

\* The tickets from next on that have all arrived.
Run(tickets, next) ==
    {t \in tickets : \A u \in next..t : u \in tickets}

\* Mutant: the buffers of a merged run are not handed back.
RecycledNever(run) == 0

\* How many buffers a merged run hands back to the free channel.
Recycled(run) == Cardinality(run)

\* Everything completed is moved into pending, and the run that starts at
\* next is merged and its buffers are handed back.
Merge ==
    /\ emitter.pc = "wait"
    /\ completed # {}
    /\ LET arrived == emitter.pending \cup completed
           run     == Run(arrived, emitter.next)
       IN  /\ emitter' = [pc      |-> "emit",
                          pending |-> arrived \ run,
                          next    |-> emitter.next + Cardinality(run),
                          merged  |-> [i \in 1..Cardinality(run) |-> emitter.next + i - 1]]
           /\ free' = free + Recycled(run)
    /\ completed' = {}
    /\ UNCHANGED <<muxVars, worker, receiver, emitted>>

\* emit: the replay commit and the delivery of the merged run.
Emit ==
    /\ emitter.pc = "emit"
    /\ emitted' = emitted \o emitter.merged
    /\ emitter' = [emitter EXCEPT !.pc = "wait", !.merged = <<>>]
    /\ UNCHANGED <<muxVars, poolVars, receiver>>

\* The first worker to fail ends the receiver, which closes the mux so that
\* the others fail too.
FirstError ==
    /\ receiver = "wait"
    /\ \E w \in Workers : worker[w].pc = "exited"
    /\ done' = TRUE
    /\ receiver' = "join"
    /\ UNCHANGED <<espCh, espTicket, espQueued, sending, poolVars, emitter, emitted>>

\* wg.Wait, then close(completed).
Join ==
    /\ receiver = "join"
    /\ \A w \in Workers : worker[w].pc = "exited"
    /\ receiver' = "drain"
    /\ UNCHANGED <<muxVars, poolVars, emitter, emitted>>

\* The emitter's range loop ends, and with it receiveESP.
Return ==
    /\ receiver = "drain"
    /\ emitter.pc = "wait" /\ completed = {}
    /\ receiver' = "returned"
    /\ UNCHANGED <<muxVars, poolVars, emitter, emitted>>

Work(w) == TakeFree(w) \/ Recv(w) \/ TakeESP(w) \/ RecvFails(w) \/ Decrypt(w)

ReceiveNext ==
    \/ \E l \in Loops, bytes \in Sizes : DispatchSend(l, bytes)
    \/ DispatchAccount
    \/ Close
    \/ \E w \in Workers : Work(w)
    \/ Merge \/ Emit
    \/ FirstError \/ Join \/ Return

ReceiveSpec == ReceiveInit /\ [][ReceiveNext]_receiveVars

-----------------------------------------------------------------------------
(* Properties.                                                             *)

ReceiveTypeOK ==
    /\ espCh \in Seq(Batches) /\ Len(espCh) <= QueueCap
    /\ espTicket \in 0..MaxTickets /\ espQueued \in Int
    /\ done \in BOOLEAN
    /\ free \in 0..Buffers
    /\ completed \subseteq 0 .. MaxTickets - 1
    /\ emitter.pending \subseteq 0 .. MaxTickets - 1
    /\ emitter.next \in 0..MaxTickets
    /\ receiver \in {"wait", "join", "drain", "returned"}

Holding(w) == worker[w].pc \in {"take", "decrypt"}
InWorkers == {worker[w].batch.ticket : w \in {v \in Workers : Holding(v)}}
Elements(s) == {s[i] : i \in DOMAIN s}
Taken == InWorkers \cup completed \cup emitter.pending
               \cup Elements(emitter.merged) \cup Elements(emitted)

(* Batches are committed in the order they were queued, each once and with *)
(* none left out, whatever order the workers finish in: the replay window  *)
(* never sees a reordering this node made itself.                          *)
EmittedInOrder == emitted = [i \in 1..Len(emitted) |-> i - 1]

(* No ticket is missing or held twice between espTicket and the emitter: a *)
(* gap would leave the emitter waiting for ever for a batch nobody has.    *)
NoGap ==
    /\ Taken \cup {espCh[i].ticket : i \in DOMAIN espCh} = 0 .. espTicket - 1
    /\ Taken = 0 .. Cardinality(Taken) - 1

Sized(ch) == [i \in DOMAIN ch |-> ch[i].bytes]
Bytes(ch) == SumFunction(Sized(ch))

(* The bytes in the queue stay within espQueueBytes although the count is  *)
(* updated after the send and after the take.                              *)
BudgetHeld == Bytes(espCh) <= QueueBytes

(* When receiveESP returns, every batch a worker took has been emitted.    *)
ReturnDrains ==
    receiver = "returned" => /\ emitter.pending = {} /\ InWorkers = {}
                             /\ Taken = Elements(emitted)
                             /\ free = Buffers

\* Workers decrypt in parallel, and the emitter commits batches to the replay
\* window in the order in which dispatchESP queued them, each once: a ticket is
\* always in one place, none is lost while several receive loops share the byte
\* budget, and when receiveESP returns all that was taken is emitted.
InIntakeOrder == ReceiveTypeOK /\ EmittedInOrder /\ NoGap /\ BudgetHeld /\ ReturnDrains

(* Some batch waits to be emitted.  That it is, unless the mux is closed   *)
(* first, is MCTunnels!TrafficMoves: the workers never all wait for a      *)
(* buffer that only the batch one of them has not taken would release.  As *)
(* batches are emitted in order, and a run queues MaxTickets of them, it   *)
(* is enough that the emitter catches up.                                  *)
Queued == Len(emitted) < espTicket
=============================================================================
