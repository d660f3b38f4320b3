----------------------------- MODULE MCControl -----------------------------
(***************************************************************************)
(* What the control plane owes, for TLC: IKE's retransmission and dead     *)
(* peer detection, the two rekeys, and Babel on an ordered network, each   *)
(* with its goroutines and timers fair.  A behaviour is one of a single    *)
(* part, which Init picks; the others rest in their initial states.        *)
(***************************************************************************)
EXTENDS Integers

VARIABLES
    part,
    status, peer, sinceAuth, trafficSeen, pending, sinceProof,
    cur, old, coll, keys, routed, local, ikeTask, open, drawn, reqs, resps, sent, handled,
    slips, child, retiring, retired, inbound, outbound, childTask, serving, req, resp,
    originate, originSeqno, linkCost, routes, selected, retractID, sources, advertised, owed,
    dirty, forwarding, asked, pendingSeqno, retries, session, net, events,
    mute        \* history: the speakers whose loss of a route the origin never heard of

probeVars == <<status, peer, sinceAuth, trafficSeen, pending, sinceProof>>
ikeVars == <<cur, old, coll, keys, routed, local, ikeTask, open, drawn, reqs, resps, sent,
             handled, slips>>
childVars == <<child, retiring, retired, inbound, outbound, childTask, serving, req, resp>>
babelVars == <<originate, originSeqno, linkCost, routes, selected, retractID, sources,
               advertised, owed, dirty, forwarding, asked, pendingSeqno, retries, session,
               net, events>>
mcVars == <<part, probeVars, ikeVars, childVars, babelVars, mute>>

\* Delays of 1, 2 and 4 ticks around a probe interval of 3: as in the code, the
\* last delay is longer than the interval and the others are not.
Probes == INSTANCE IkeLiveness WITH
    Timeout <- 1, Retransmits <- 3, BusySends <- 5, Interval <- 3, RetryDelay <- 1
Rekey == INSTANCE IkeRekey WITH task <- ikeTask, Nonces <- {1, 2}
Child == INSTANCE ChildSA WITH
    task <- childTask, SAs <- {1, 2, 3}, Faults <- {"busy", "unsent"}, Patient <- FALSE
Routing == INSTANCE Babel WITH
    pending <- pendingSeqno, Router <- {1, 2, 3},
    Neighbors <- <<{2, 3}, {1, 3}, {1, 2}>>, Origins <- {1}, NoTransit <- {}, LinkCosts <- {1},
    Infinity <- 4, Trigger <- 1, HopCount <- 2, Retries <- 1, Capacity <- 1, MaxSeqno <- 5,
    Kinds <- {"link", "fail"}, Budget <- 3, Settled <- TRUE, GcOutlivesHold <- TRUE,
    Suppress <- TRUE, Ordered <- TRUE

ASSUME Probes!LivenessAssumption /\ Rekey!RekeyAssumption /\ Child!ChildAssumption
ASSUME Routing!BabelAssumption

(* A speaker asks for a new sequence number when it loses its last feasible   *)
(* route, and for a while after ("Only the transition asks", selectRoute).    *)
(* These asked nobody then, no other route being of finite cost or allowAsk   *)
(* refusing them, or were since joined to the origin by no chain of links.    *)
Asked ==
    mute' = {i \in 1..3 :
        /\ selected'[i].via = Routing!Nobody
        /\ \/ i \in mute
           \/ ~Routing!Reaches(i)'
           \/ selected[i].via # Routing!Nobody /\ asked'[i] = asked[i]}

(* Two events at any moment; a third one is a link's, when nothing is on its  *)
(* way.  What the origin's own links cost it, which holds no route, is left   *)
(* as it is.                                                                  *)
Bounded ==
    /\ linkCost'[1] = linkCost[1]
    /\ events < events' /\ events' = 3 => Routing!Quiet /\ linkCost' # linkCost

Init ==
    /\ part \in {"probes", "rekey", "child", "routing"}
    /\ Probes!Init /\ Rekey!Init /\ Child!Init /\ Routing!Init
    /\ mute = {}

Next ==
    /\ UNCHANGED part
    /\ \/ part = "probes" /\ Probes!Next /\ UNCHANGED <<ikeVars, childVars, babelVars, mute>>
       \/ part = "rekey" /\ Rekey!Next /\ UNCHANGED <<probeVars, childVars, babelVars, mute>>
       \/ part = "child" /\ Child!Next /\ UNCHANGED <<probeVars, ikeVars, babelVars, mute>>
       \/ /\ part = "routing" /\ Routing!Next /\ Asked /\ Bounded
          /\ UNCHANGED <<probeVars, ikeVars, childVars>>

----------------------------------------------------------------------------
(* Fairness: the processes of each part, numbered.  The part never changes, *)
(* so fairness to the k-th process of whichever part moves is fairness to   *)
(* the k-th process of every part.                                          *)

\* Time passes and the loop runs when its timer fires.  A probe can be sent
\* again and again (local errors do not last).  Nothing else need happen.
ProbesProcess(k) ==
    \/ k = 1 /\ Probes!Tick
    \/ k = 2 /\ (Probes!Retransmit \/ Probes!GiveUp)
    \/ k = 3 /\ \E goesOut \in BOOLEAN : Probes!Probe(goesOut)

\* Both goroutines run and datagrams that are repeated arrive in the end.
RekeyProcess(k, e) ==
    \/ k = 1 /\ (Rekey!Publish(e) \/ Rekey!Ask(e) \/ Rekey!AskAgain(e) \/ Rekey!Abort(e)
                  \/ Rekey!Decide(e) \/ Rekey!Fail(e) \/ Rekey!InstallPeers(e)
                  \/ Rekey!InstallOwn(e) \/ Rekey!Finish(e))
    \/ k = 2 /\ (Rekey!StartRequest(e) \/ Rekey!ContextRetired(e))
    \/ k = 3 /\ Rekey!Dispatch(e)

\* Run serves requests, answers and timers; an exchange that nobody answers
\* ends the session, which is not modelled here.
ChildProcess(k, e) ==
    \/ k = 1 /\ Child!Rekey(e)
    \/ k = 2 /\ Child!Serve(e)
    \/ k = 3 /\ Child!Deadline(e)
    \/ k = 4 /\ Child!Expire(e)

\* Run passes when it has something to send and when some timer is due, and
\* the ordered network delivers.  Which of them comes first is left open.
RoutingProcess(k, i) ==
    \/ k = 1 /\ \/ Routing!Triggered(i) \/ Routing!Update(i) \/ Routing!WindowCloses(i)
                \/ Routing!Sweep(i) \/ Routing!RetryStarved(i, 1)
                \/ \E j \in 1..3 \ {i} : Routing!Expire(i, j)
    \/ k = 2 /\ \E j \in 1..3 \ {i} : net[<<j, i>>] # <<>> /\ Routing!Receive(i, j, 1)

Process(k, turn) ==
    LET e == IF turn = 1 THEN "a" ELSE "b"
    IN  /\ UNCHANGED part
        /\ \/ part = "probes" /\ turn = 1 /\ ProbesProcess(k)
           \/ part = "rekey" /\ turn \in {1, 2} /\ RekeyProcess(k, e)
           \/ part = "child" /\ turn \in {1, 2} /\ ChildProcess(k, e)
           \/ part = "routing" /\ RoutingProcess(k, turn)

moving ==
    CASE part = "probes" -> probeVars
      [] part = "rekey" -> ikeVars
      [] part = "child" -> childVars
      [] part = "routing" -> babelVars

FairSpec ==
    /\ Init /\ [][Next]_mcVars
    /\ \A k \in 1..4, turn \in {1, 2} : WF_moving(Process(k, turn))
    /\ \A k \in {1, 2} : WF_moving(Process(k, 3))
    /\ SF_probeVars(part = "probes" /\ Probes!Probe(TRUE))

----------------------------------------------------------------------------
\* A peer that is gone is given up even if what it sent before is replayed to
\* this node for ever, and an exchange ends, answered or given up, also against a
\* peer that keeps sending ESP and never answers IKE.  Neither its traffic nor
\* its requests buy an unanswered probe more than maxRetransmits sends, or another
\* request more than maxRetransmitsWhileBusy; and a peer is probed only after a
\* whole interval without a packet from it, although its ESP does not wake the
\* loop (RFC 7296 section 2.4).
DeadPeerDetected ==
    /\ Probes!DeadPeerDetected /\ Probes!ExchangeEnds
    /\ Probes!NoNeedlessProbe /\ [](Probes!TypeOK /\ Probes!SendBudget)

\* Rekeys end while both ends are up: RekeyIKE's requests are answered or fail
\* because the SA they went out on is gone, an attempt to rekey the Child SA
\* returns, and a replaced Child SA does not refuse rekeys for ever.
RekeysEnd ==
    \A e \in {"a", "b"} :
        /\ []<>(IF part = "rekey" THEN ~Rekey!Rekeying(e) ELSE ~Child!Rekeying(e))
        /\ []<>~Child!Refusing(e)

\* What j has to offer, and who has an offer for i on a usable link.
Offer(j) == IF originate[j] THEN [id |-> j, seqno |-> originSeqno[j], metric |-> 0]
            ELSE [id |-> selected[j].id, seqno |-> selected[j].seqno, metric |-> selected[j].cost]
Offering(i) ==
    {j \in 1..3 \ {i} : /\ linkCost[i][j] # 4
                        /\ originate[j] \/ selected[j].via \notin {Routing!Nobody, i}}

\* When links and sessions stop changing, every speaker joined to an origin ends
\* up with a route before any distance is collected: if the one it had was its
\* last feasible one, the request for a new sequence number reaches the origin
\* and the answer returns.  The exception is a speaker that asked nobody when it
\* lost that one, or was cut off from the origin since, and to which no neighbor
\* offers anything feasible now: it does not ask again (RFC 8966 section 3.8.2.1
\* has it ask).  And with the network in order the retraction a later dump
\* owes a neighbor is never forgotten, though queues are full and senders fail.
Recovers ==
    /\ <>[](\A i \in 1..3 : Routing!Reaches(i) =>
              \/ originate[i] \/ selected[i].via # Routing!Nobody
              \/ i \in mute /\ \A j \in Offering(i) : ~Routing!Feasible(i, Offer(j)))
    /\ []Routing!RetractionRemembered
=============================================================================
