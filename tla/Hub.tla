--------------------------------- MODULE Hub ---------------------------------
(***************************************************************************)
(* The UDP hub and its muxes (transport/mux.go): one receive loop per      *)
(* socket routes datagrams by SPI to the mux that registered it, while     *)
(* sessions create muxes, register and unregister SPIs and close, and the  *)
(* hub closes or fails under all of them.                                  *)
(*                                                                         *)
(* The IKE and the ESP table work alike and are one table here.  h.mu is   *)
(* held for one step; what is read outside it is a step of its own.  A     *)
(* receive loop that has looked a datagram up delivers it later, to a mux  *)
(* that may be gone by then.                                               *)
(***************************************************************************)
EXTENDS Integers, FiniteSets

CONSTANTS
    Muxes,       \* every mux of the run; each is created once
    SPIs,
    Loops,       \* receive loops, one per socket
    QueueCap,    \* capacity of a mux's queue
    ListenCap    \* capacity of the unclaimed queue

VARIABLES
    owner,       \* h.ike, h.esp: the mux of an SPI
    muxes,       \* h.muxes
    closed,      \* h.closed
    failing,     \* how far Hub.fail has come
    told,        \* the muxes fail still has to end
    mux,         \* each mux: whether it exists, its closed flag, its done channel
    claims,      \* history: the SPIs a mux registered and has not given up
    loop,        \* what each receive loop has in hand
    queued,      \* datagrams in each mux's queue
    listening,   \* datagrams in h.listen
    waiting      \* the muxes whose session waits in a Recv

vars == <<owner, muxes, closed, failing, told, mux, claims, loop, queued, listening, waiting>>
traffic == <<loop, queued, listening, waiting>>

None == "none"
Unclaimed == "unclaimed"
Idle == "idle"

HubAssumption ==
    /\ IsFiniteSet(Muxes) /\ IsFiniteSet(SPIs) /\ IsFiniteSet(Loops)
    /\ QueueCap \in Nat \ {0} /\ ListenCap \in Nat \ {0}
    /\ Muxes \cap {None, Unclaimed, Idle} = {}

Init ==
    /\ owner = [s \in SPIs |-> None] /\ muxes = {}
    /\ closed = FALSE /\ failing = "no" /\ told = {}
    /\ mux = [m \in Muxes |-> [at |-> "new", closed |-> FALSE, done |-> FALSE]]
    /\ claims = [m \in Muxes |-> {}]
    /\ loop = [l \in Loops |-> Idle]
    /\ queued = [m \in Muxes |-> 0] /\ listening = 0
    /\ waiting = {}

Without(m) == [s \in SPIs |-> IF owner[s] = m THEN None ELSE owner[s]]

-----------------------------------------------------------------------------
(* What the sessions do.                                                   *)

\* NewMux and NewMuxTo: refused once the hub is closed.
NewMux(m) ==
    /\ mux[m].at = "new"
    /\ IF closed THEN mux' = [mux EXCEPT ![m].at = "gone"] /\ UNCHANGED muxes
                 ELSE mux' = [mux EXCEPT ![m].at = "open"] /\ muxes' = muxes \cup {m}
    /\ UNCHANGED <<owner, closed, failing, told, claims, traffic>>

\* RegisterIKE and RegisterESP; a refusal changes nothing.
Register(m, s) ==
    /\ mux[m].at # "new" /\ owner[s] \in {None, m}
    /\ ~mux[m].closed /\ ~closed
    /\ owner' = [owner EXCEPT ![s] = m] /\ claims' = [claims EXCEPT ![m] = @ \cup {s}]
    /\ UNCHANGED <<muxes, closed, failing, told, mux, traffic>>

\* Mutant: whoever unregisters an SPI takes it from its owner.
UnregisterAny(m, s) ==
    /\ mux[m].at # "new"
    /\ owner' = [owner EXCEPT ![s] = None] /\ claims' = [claims EXCEPT ![m] = @ \ {s}]
    /\ UNCHANGED <<muxes, closed, failing, told, mux, traffic>>

\* UnregisterIKE and UnregisterESP, by sessions that may be long gone.
Unregister(m, s) ==
    /\ mux[m].at # "new" /\ owner[s] = m
    /\ owner' = [owner EXCEPT ![s] = None] /\ claims' = [claims EXCEPT ![m] = @ \ {s}]
    /\ UNCHANGED <<muxes, closed, failing, told, mux, traffic>>

\* Mux.Close: the flag, then the tables under the lock, then the done channel.
CloseMux(m) ==
    /\ mux[m].at = "open"
    /\ mux' = [mux EXCEPT ![m].at = IF mux[m].closed THEN "gone" ELSE "closing", ![m].closed = TRUE]
    /\ UNCHANGED <<owner, muxes, closed, failing, told, claims, traffic>>

Withdraw(m) ==
    /\ mux[m].at = "closing"
    /\ owner' = Without(m) /\ muxes' = muxes \ {m} /\ claims' = [claims EXCEPT ![m] = {}]
    /\ mux' = [mux EXCEPT ![m].at = "withdrawn"]
    /\ UNCHANGED <<closed, failing, told, traffic>>

CloseDone(m) ==
    /\ mux[m].at = "withdrawn"
    /\ mux' = [mux EXCEPT ![m].at = "gone", ![m].done = TRUE]
    /\ UNCHANGED <<owner, muxes, closed, failing, told, claims, traffic>>

-----------------------------------------------------------------------------
(* Hub.fail, which Close and a receive loop whose read fails both run.     *)

\* Mutant: the muxes are collected before the hub says it is closed.
FailLate ==
    /\ failing = "no" /\ failing' = "closed"
    /\ UNCHANGED <<owner, muxes, closed, told, mux, claims, traffic>>

Fail ==
    /\ failing = "no" /\ failing' = "closed" /\ closed' = TRUE
    /\ UNCHANGED <<owner, muxes, told, mux, claims, traffic>>

Collect ==
    /\ failing = "closed" /\ failing' = "collected"
    /\ told' = muxes /\ muxes' = {}
    /\ owner' = [s \in SPIs |-> None] /\ claims' = [m \in Muxes |-> {}]
    /\ UNCHANGED <<closed, mux, traffic>>

\* One mux after the other; doneOnce makes a second end harmless.
Tell(m) ==
    /\ m \in told /\ told' = told \ {m}
    /\ mux' = [mux EXCEPT ![m].closed = TRUE, ![m].done = TRUE]
    /\ UNCHANGED <<owner, muxes, closed, failing, claims, traffic>>

-----------------------------------------------------------------------------
(* receiveLoop.  A datagram has an SPI that was somebody's, or nobody's.   *)

\* Looked up under the lock, perhaps in a batch read before the hub closed.  An
\* IKE SPI nobody has goes to the listener; an ESP one is dropped, which changes
\* nothing here.
Demultiplex(l, s) ==
    /\ loop[l] = Idle
    /\ loop' = [loop EXCEPT ![l] = IF owner[s] = None THEN Unclaimed ELSE owner[s]]
    /\ UNCHANGED <<owner, muxes, closed, failing, told, mux, claims, queued, listening, waiting>>

\* Delivered after it, unless the queue is full.
Deliver(l) ==
    /\ loop[l] \in Muxes
    /\ queued' = [queued EXCEPT ![loop[l]] = IF @ < QueueCap THEN @ + 1 ELSE @]
    /\ loop' = [loop EXCEPT ![l] = Idle]
    /\ UNCHANGED <<owner, muxes, closed, failing, told, mux, claims, listening, waiting>>

Offer(l) ==
    /\ loop[l] = Unclaimed
    /\ listening' = IF listening < ListenCap THEN listening + 1 ELSE listening
    /\ loop' = [loop EXCEPT ![l] = Idle]
    /\ UNCHANGED <<owner, muxes, closed, failing, told, mux, claims, queued, waiting>>

Accept ==
    /\ listening > 0 /\ listening' = listening - 1
    /\ UNCHANGED <<owner, muxes, closed, failing, told, mux, claims, loop, queued, waiting>>

-----------------------------------------------------------------------------
(* RecvIKEFrom, RecvESPBatchConcurrent.                                    *)

Wait(m) ==
    /\ mux[m].at \in {"open", "closing"} /\ m \notin waiting
    /\ waiting' = waiting \cup {m}
    /\ UNCHANGED <<owner, muxes, closed, failing, told, mux, claims, loop, queued, listening>>

\* A datagram, or the end of the mux; with both there it is either.
Receive(m) ==
    /\ m \in waiting /\ waiting' = waiting \ {m}
    /\ \/ queued[m] > 0 /\ queued' = [queued EXCEPT ![m] = @ - 1]
       \/ mux[m].done /\ UNCHANGED queued
    /\ UNCHANGED <<owner, muxes, closed, failing, told, mux, claims, loop, listening>>

-----------------------------------------------------------------------------
Receiving(l) == Deliver(l) \/ Offer(l)
Closing(m) == Withdraw(m) \/ CloseDone(m)

Next ==
    \/ \E m \in Muxes : \/ NewMux(m) \/ CloseMux(m) \/ Closing(m) \/ Tell(m)
                        \/ Wait(m) \/ Receive(m)
                        \/ \E s \in SPIs : Register(m, s) \/ Unregister(m, s)
    \/ Fail \/ Collect \/ Accept
    \/ \E l \in Loops : Receiving(l) \/ \E s \in SPIs : Demultiplex(l, s)
    \/ failing = "collected" /\ UNCHANGED vars     \* the hub is gone

Spec == Init /\ [][Next]_vars

-----------------------------------------------------------------------------
(* Properties.                                                             *)

TypeOK ==
    /\ owner \in [SPIs -> Muxes \cup {None}] /\ muxes \subseteq Muxes /\ told \subseteq Muxes
    /\ closed \in BOOLEAN /\ failing \in {"no", "closed", "collected"}
    /\ mux \in [Muxes -> [at : {"new", "open", "closing", "withdrawn", "gone"},
                          closed : BOOLEAN, done : BOOLEAN]]
    /\ claims \in [Muxes -> SUBSET SPIs]
    /\ loop \in [Loops -> Muxes \cup {Idle, Unclaimed}]
    /\ queued \in [Muxes -> 0..QueueCap] /\ listening \in 0..ListenCap
    /\ waiting \subseteq Muxes

\* A mux keeps the SPIs it registered until it gives them up itself or the hub
\* goes: a session that ends late never takes the SPI of one that reuses it.
ClaimsKept == \A m \in Muxes : claims[m] = {s \in SPIs : owner[s] = m}

\* No SPI leads to a mux that has left the tables, and no mux is in the tables
\* of a hub that has collected them: nothing that raced the close is left over.
NothingStale ==
    /\ \A s \in SPIs : owner[s] # None => owner[s] \in muxes
    /\ \A m \in muxes : mux[m].at \in {"open", "closing"} /\ ~mux[m].done
    /\ failing = "collected" => muxes = {}

\* A mux keeps the SPIs it registered until it gives them up itself or the hub
\* goes: a session that ends late never takes the SPI of one that reuses it.  No
\* SPI leads to a mux that has left the tables, and no mux is in the tables of a
\* hub that has collected them.
TablesKept == TypeOK /\ ClaimsKept /\ NothingStale

\* Somebody waits on a mux that closes, or whose hub does: MCTunnels!ClosesEnd
\* shows that they are woken, also when the mux was created or closed while the
\* hub failed.
ToWake(m) == m \in waiting /\ (failing # "no" \/ mux[m].closed)
=============================================================================
