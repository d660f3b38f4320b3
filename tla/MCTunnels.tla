---------------------------- MODULE MCTunnels ------------------------------
(***************************************************************************)
(* What the tunnels and the mesh owe, for TLC: the receive pipeline and    *)
(* the sending half of a tunnel, a peer's ordered sender, the hub and the  *)
(* mesh's two halves, each with its goroutines fair.  A behaviour is one   *)
(* of a single part, which Init picks; the others rest in their initial    *)
(* states.  The mesh's outbound half has two parts: in "read" two TUN      *)
(* queues feed a worker, in "forward" a receive goroutine forwards packets *)
(* past it to two peers.                                                   *)
(***************************************************************************)
EXTENDS Integers

CONSTANT Forwarder     \* the receive goroutine that forwards

VARIABLES
    part,
    espCh, espTicket, espQueued, sending, done, bufs, decrypter, completed, emitter, receiver,
    emitted,
    outbound, inbound, seq, sealed, user, rekeying, recent, rekey, failures,
    at, ticket, err, counted, hasSlot, told, reserved, slots, dropped, sendFailed, sent, wire,
    stop, queueClosed, sender, next, peerCloser,
    owner, muxes, closed, failing, ending, mux, claims, loop, queued, listening, waiting,
    free, jobs, todo, line, reader, worker, forwarder, mu, meshClosed, meshCloser,
    deliverer, queue, writer, written, closing, inside, inCloser

receiveVars == <<espCh, espTicket, espQueued, sending, done, bufs, decrypter, completed, emitter,
                 receiver, emitted>>
numberVars == <<outbound, inbound, seq, sealed, user, rekeying, recent, rekey, failures>>
senderVars == <<at, ticket, err, counted, hasSlot, told, reserved, slots, dropped, sendFailed,
                sent, wire, stop, queueClosed, sender, next, peerCloser>>
hubVars == <<owner, muxes, closed, failing, ending, mux, claims, loop, queued, listening,
             waiting>>
outVars == <<free, jobs, todo, line, reader, worker, forwarder, mu, meshClosed, meshCloser>>
inVars == <<deliverer, queue, writer, written, closing, inside, inCloser>>
tunnelVars == <<receiveVars, numberVars, senderVars, hubVars>>
mcVars == <<part, tunnelVars, outVars, inVars>>

Receive == INSTANCE EspReceive WITH
    free <- bufs, worker <- decrypter, Loops <- {"v4"}, Workers <- {1, 2}, Sizes <- {1},
    QueueCap <- 2, QueueBytes <- 2, MaxTickets <- 5
Numbers == INSTANCE EspOutbound WITH
    sender <- user, Senders <- {"mesh", "babel"}, Counts <- {2}, SAs <- {1, 2}, MaxSeq <- 3,
    Mark <- 1, Failures <- 1
Peer == INSTANCE PeerSender WITH
    informed <- told, closer <- peerCloser, Data <- {"d1"}, Control <- {"c1"}, Size <- 2,
    Slots <- [data |-> 1, control |-> 1], MaxRun <- 3
TheHub == INSTANCE Hub WITH
    told <- ending, Muxes <- {"m1", "m2"}, SPIs <- {"s1"}, Loops <- {"l1"},
    QueueCap <- 1, ListenCap <- 1

Read == INSTANCE MeshOutbound WITH
    closed <- meshClosed, closer <- meshCloser, Readers <- {"r1", "r2"}, Workers <- {"w1"},
    Forwarders <- {}, Peers <- {"p"}, Compat <- {"p"}, JobsCap <- 1
Forward == INSTANCE MeshOutbound WITH
    closed <- meshClosed, closer <- meshCloser, Readers <- {"r1"}, Workers <- {"w1"},
    Forwarders <- {Forwarder}, Peers <- {"p", "q"}, Compat <- {"p"}, JobsCap <- 1
Inbound == INSTANCE MeshInbound WITH
    closer <- inCloser, Deliverers <- {"d1", "d2"}, Lanes <- {1, 2}, QueueCap <- 1,
    WriteBatch <- 2, Deliveries <- 1

ASSUME Numbers!OutboundAssumption /\ Peer!SenderAssumption /\ TheHub!HubAssumption
ASSUME Read!MeshAssumption /\ Forward!MeshAssumption /\ Inbound!InboundAssumption

Init ==
    /\ part \in {"receive", "numbers", "peer", "hub", "read", "forward", "inbound"}
    /\ Receive!ReceiveInit /\ Numbers!Init /\ Peer!SenderInit /\ TheHub!Init /\ Inbound!Init
    /\ IF part = "forward" THEN Forward!Init ELSE Read!Init

\* A step of one of the tunnel's parts, and one of the mesh's.
Tunnel ==
    \/ part = "receive" /\ Receive!ReceiveNext /\ UNCHANGED <<numberVars, senderVars, hubVars>>
    \/ part = "numbers" /\ Numbers!Next /\ UNCHANGED <<receiveVars, senderVars, hubVars>>
    \/ part = "peer" /\ Peer!SenderNext /\ UNCHANGED <<receiveVars, numberVars, hubVars>>
    \/ part = "hub" /\ TheHub!Next /\ UNCHANGED <<receiveVars, numberVars, senderVars>>
Mesh ==
    \/ part = "read" /\ Read!Next /\ UNCHANGED inVars
    \/ part = "forward" /\ Forward!Next /\ UNCHANGED inVars
    \/ part = "inbound" /\ Inbound!Next /\ UNCHANGED outVars

Next ==
    /\ UNCHANGED part
    /\ \/ Tunnel /\ UNCHANGED <<outVars, inVars>>
       \/ Mesh /\ UNCHANGED tunnelVars

----------------------------------------------------------------------------
(* Fairness: the processes of each part, numbered.  The part never changes, *)
(* so fairness to the k-th process of whichever part moves is fairness to   *)
(* the k-th process of every part.                                          *)

\* Every goroutine of the receive pipeline keeps running.  The network need not
\* send and nobody need close the mux.
ReceiveProcess(k) ==
    \/ k \in {1, 2} /\ Receive!Work(k)
    \/ k = 3 /\ Receive!DispatchAccount
    \/ k = 4 /\ (Receive!Merge \/ Receive!Emit)
    \/ k = 5 /\ (Receive!FirstError \/ Receive!Join \/ Receive!Return)

\* Traffic goes on (Babel alone sends a Hello every few seconds), goroutines
\* run, time passes, and Run retires a replaced SA at its deadline.
NumbersProcess(k) ==
    \/ k = 1 /\ (Numbers!Load("mesh") \/ Numbers!Step("mesh"))
    \/ k = 2 /\ (Numbers!Load("babel") \/ Numbers!Step("babel"))
    \/ k = 3 /\ Numbers!IntervalPasses
    \/ k = 4 /\ (Numbers!RekeyInstalls \/ Numbers!RekeyReturns)
    \/ k = 5 /\ \E sa \in {1, 2} \ {outbound} : Numbers!Retire(sa)

\* Goroutines run and every place taken is sent.  Nothing is assumed of the
\* transport: a send may stay in the socket for ever.  Nor need anyone close.
PeerProcess(k) ==
    \/ k = 1 /\ Peer!Carry("d1")
    \/ k = 2 /\ Peer!Carry("c1")
    \/ k = 3 /\ Peer!Loop
    \/ k = 4 /\ Peer!CloseReturns

\* What has begun to close goes on, and goroutines that wait are woken.
HubProcess(k) ==
    \/ k = 1 /\ TheHub!Closing("m1")
    \/ k = 2 /\ TheHub!Closing("m2")
    \/ k = 3 /\ (TheHub!Collect \/ \E m \in {"m1", "m2"} : TheHub!Tell(m))
    \/ k = 4 /\ TheHub!Receive("m1")
    \/ k = 5 /\ TheHub!Receive("m2")
    \/ k = 6 /\ TheHub!Receiving("l1")

\* Goroutines run, the transport returns from a send, a mutex is handed to
\* whoever waits, and a closed device fails its reads.  Nothing makes packets
\* arrive or the mesh close.
ReadProcess(k) ==
    \/ k = 1 /\ Read!Dispatch("r1")
    \/ k = 2 /\ Read!Dispatch("r2")
    \/ k = 3 /\ ~Read!Open /\ Read!ReadFails("r1")
    \/ k = 4 /\ ~Read!Open /\ Read!ReadFails("r2")
    \/ k = 5 /\ Read!Working("w1")
    \/ k = 6 /\ (Read!CloseDevices \/ Read!CloseJobs \/ Read!CloseReturns)
ForwardProcess(k) ==
    \/ k = 1 /\ Forward!Dispatch("r1")
    \/ k = 2 /\ ~Forward!Open /\ Forward!ReadFails("r1")
    \/ k = 3 /\ Forward!Working("w1")
    \/ k = 4 /\ Forward!Forwarding(Forwarder)
    \/ k = 5 /\ (Forward!CloseDevices \/ Forward!CloseJobs \/ Forward!CloseReturns)

\* Goroutines run and the device takes what it is given.
InboundProcess(k) ==
    \/ k = 1 /\ Inbound!Delivering("d1")
    \/ k = 2 /\ Inbound!Delivering("d2")
    \/ k \in {3, 4} /\ Inbound!Writing(k - 2)
    \/ k = 5 /\ Inbound!CloseReturns

Process(k) ==
    /\ UNCHANGED part
    /\ \/ part = "receive" /\ ReceiveProcess(k)
       \/ part = "numbers" /\ NumbersProcess(k)
       \/ part = "peer" /\ PeerProcess(k)
       \/ part = "hub" /\ HubProcess(k)
       \/ part = "read" /\ ReadProcess(k)
       \/ part = "forward" /\ ForwardProcess(k)
       \/ part = "inbound" /\ InboundProcess(k)

moving ==
    CASE part = "receive" -> receiveVars
      [] part = "numbers" -> numberVars
      [] part = "peer" -> senderVars
      [] part = "hub" -> hubVars
      [] part \in {"read", "forward"} -> outVars
      [] part = "inbound" -> inVars

FairSpec == Init /\ [][Next]_mcVars /\ \A k \in 1..6 : WF_moving(Process(k))

----------------------------------------------------------------------------
(* What is owed, numbered like the processes: a behaviour owes what its     *)
(* part owes, so a property says of every part at once that the k-th debt   *)
(* is paid.                                                                 *)

\* A queued batch; numbers to send with; a place in a peer's order.
Moving(k) ==
    \/ part = "receive" /\ k = 1 /\ Receive!Queued
    \/ part = "numbers" /\ k = 1 /\ ~Numbers!CanSend
    \/ part = "peer" /\ at[IF k = 1 THEN "d1" ELSE "c1"] = "offered"
Moved(k) ==
    CASE part = "receive" -> ~Receive!Queued \/ done
      [] part = "peer" -> at[IF k = 1 THEN "d1" ELSE "c1"] = "done"
      [] OTHER -> Numbers!CanSend

\* What is under way comes through.  A queued batch is emitted unless the mux is
\* closed first; while there is traffic the tunnel does not stay without numbers,
\* whatever rekeys fail; and unless the transport hangs for ever, whoever took a
\* place in a peer's order is rid of it.
TrafficMoves ==
    ~<>[](part = "peer" /\ sender = "transmit") => \A k \in 1..2 : Moving(k) ~> Moved(k)

\* A mux that is done, a Close that waits, whoever waits on a mux.
Ending(k) ==
    \/ part = "receive" /\ k = 1 /\ done
    \/ part = "peer" /\ k = 1 /\ peerCloser = "waits"
    \/ part = "hub" /\ TheHub!ToWake(IF k = 1 THEN "m1" ELSE "m2")
Ended(k) ==
    CASE part = "receive" -> receiver = "returned"
      [] part = "peer" -> peerCloser = "returned"
      [] OTHER -> ~TheHub!ToWake(IF k = 1 THEN "m1" ELSE "m2")

\* Closing ends what waits.  receiveESP returns once the mux is done, Peer.Close
\* although a send may never come back from the socket, and whoever waits on a
\* mux is woken when the hub or the mux closes, also when the mux was created or
\* closed while the hub failed.
ClosesEnd == \A k \in 1..2 : Ending(k) ~> Ended(k)

\* A ticket is somebody's to hand over: its carrier still has the peer on its
\* list and is held by a reader, the channel, a worker or a forwarder.  No
\* ticket is stranded, when Close has returned either, and no buffer is free
\* while tickets depend on it.
TicketsCarried ==
    IF part = "forward" THEN Forward!TypeOK /\ Forward!TicketsCarried
                        ELSE Read!TypeOK /\ Read!TicketsCarried

\* In "forward" the carriers whose tickets are outstanding, in "inbound" the
\* deliveries under way.
Held(k) ==
    \/ part = "forward" /\ k \in {1, 2} /\ Forward!Outstanding(k)
    \/ part = "forward" /\ k = 3 /\ Forward!Outstanding(Forwarder)
    \/ part = "inbound" /\ k = 1 /\ deliverer["d1"].in
    \/ part = "inbound" /\ k = 2 /\ deliverer["d2"].in

\* Mesh.Close has returned; no peer has a ticket left.
Closed ==
    IF part = "inbound" THEN inCloser = "closed"
    ELSE meshCloser = "closed" /\ \A p \in DOMAIN line : line[p] = <<>>

\* Every ticket is handed over: workers and forwarders that wait for older
\* tickets never wait for each other in a circle, nor for a batch that is
\* queued behind them.  A full lane is emptied or the close lets the delivery
\* go, and Mesh.Close returns while deliveries go on: writers that wait for
\* deliveries and deliveries that wait for writers do not hold each other.
MeshMoves ==
    /\ \A k \in 1..3 : Held(k) ~> ~Held(k)
    /\ (meshClosed \/ closing) ~> Closed
============================================================================
