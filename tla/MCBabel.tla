------------------------------- MODULE MCBabel -------------------------------
(***************************************************************************)
(* Babel for TLC.  Each behaviour is one of a single part, which MCInit    *)
(* picks, and the others rest.  In two of them three speakers are each a   *)
(* neighbor of the other two:                                              *)
(*   links     an origin's links change and feasibility distances are      *)
(*             collected                                                   *)
(*   sessions  two speakers may originate, the third relays nothing, and   *)
(*             tunnels are replaced, neighbors expire and ask for requests *)
(*             and dumps                                                   *)
(* In the others one end of one link follows its Hellos and IHUs:          *)
(*   loss      a history of three Hellos, two intervals, and passes of the *)
(*             run loop one tick late                                      *)
(*   trips     IHUs with and without a round-trip sample                   *)
(*   classes   multicast and unicast Hellos, and a far end that restarts   *)
(*   reports   unscheduled Hellos, IHUs of an infinite cost, own Hellos    *)
(*             lost and refused                                            *)
(***************************************************************************)
EXTENDS Babel

VARIABLES
    part,
    alive, heard, multicast, unicast, history, nextHelloDue, reportedCost, ihuExpiry,
    measuredRTT, rttExpiry, nextHello, sentHello, retryAt, sleepUntil, changed, linkCosted,
    seqno, truth, quiet, report

qualityVars == <<alive, heard, multicast, unicast, history, nextHelloDue, reportedCost,
                 ihuExpiry, measuredRTT, rttExpiry, nextHello, sentHello, retryAt,
                 sleepUntil, changed, linkCosted, seqno, truth, quiet, report>>
mcVars == <<part, vars, qualityVars>>

Mesh == [i \in Router |-> Router \ {i}]

Sessions == INSTANCE Babel WITH
    Origins <- {1, 2}, NoTransit <- {3}, Budget <- 2, Settled <- FALSE,
    Kinds <- {"session", "origin", "request", "dump", "expiry"}

Never == 100
Multicast(i) == [interval |-> i, unicast |-> FALSE]
Unicast(i) == [interval |-> i, unicast |-> TRUE]
Report(c, s) == [interval |-> 1, cost |-> c, sample |-> s]
TwoIntervals == {Multicast(2), Multicast(4)}
OneInterval == {Multicast(2)}
TwoClasses == {Multicast(2), Unicast(1)}
Unscheduled == {Multicast(2), Multicast(0)}
Sampled == {Report(1, Never), Report(1, 2)}
Plain == {Report(2, Never)}
Infinite == {Report(8, Never), Report(1, Never)}

Loss == INSTANCE LinkQuality WITH
    historyDepth <- 3, rebootDrift <- 3, SeqnoModulus <- 8, MetricInfinity <- 8,
    RxCost <- 1, Weight <- 2, HelloInterval <- 2, RetryInterval <- 1, Lag <- 1,
    Hellos <- TwoIntervals, IHUs <- {}, MaxLosses <- 4,
    Reboots <- {}, Outcomes <- {"delivered"}, told <- report
Trips == INSTANCE LinkQuality WITH
    historyDepth <- 2, rebootDrift <- 2, SeqnoModulus <- 6, MetricInfinity <- 8,
    RxCost <- 1, Weight <- 2, HelloInterval <- 2, RetryInterval <- 1, Lag <- 0,
    Hellos <- OneInterval, IHUs <- Sampled, MaxLosses <- 1,
    Reboots <- {}, Outcomes <- {"delivered"}, told <- report
Classes == INSTANCE LinkQuality WITH
    historyDepth <- 1, rebootDrift <- 1, SeqnoModulus <- 4, MetricInfinity <- 8,
    RxCost <- 1, Weight <- 2, HelloInterval <- 2, RetryInterval <- 1, Lag <- 0,
    Hellos <- TwoClasses, IHUs <- Plain, MaxLosses <- 1,
    Reboots <- {0}, Outcomes <- {"delivered"}, told <- report
Reports == INSTANCE LinkQuality WITH
    historyDepth <- 1, rebootDrift <- 1, SeqnoModulus <- 4, MetricInfinity <- 8,
    RxCost <- 1, Weight <- 2, HelloInterval <- 2, RetryInterval <- 1, Lag <- 0,
    Hellos <- Unscheduled, IHUs <- Infinite,
    MaxLosses <- 1, Reboots <- {}, Outcomes <- {"delivered", "lost", "refused"},
    told <- report

ASSUME Sessions!BabelAssumption

MCInit == \/ part \in {"links", "loss"} /\ Init /\ Loss!Init
          \/ part = "sessions" /\ Sessions!Init /\ Loss!Init
          \/ part = "trips" /\ Init /\ Trips!Init
          \/ part \in {"classes", "reports"} /\ Init /\ Classes!Init

MCNext ==
    /\ UNCHANGED part
    /\ \/ part = "links" /\ Next /\ UNCHANGED qualityVars
       \/ part = "sessions" /\ Sessions!Next /\ UNCHANGED qualityVars
       \/ part = "loss" /\ Loss!Next /\ UNCHANGED vars
       \/ part = "trips" /\ Trips!Next /\ UNCHANGED vars
       \/ part = "classes" /\ Classes!Next /\ UNCHANGED vars
       \/ part = "reports" /\ Reports!Next /\ UNCHANGED vars

MCSpec == MCInit /\ [][MCNext]_mcVars

\* The part "links" alone, for a configuration that gives it other constants.
LinksSpec ==
    /\ part = "links" /\ Init /\ Loss!Init
    /\ [][Next /\ UNCHANGED <<part, qualityVars>>]_mcVars

----------------------------------------------------------------------------
\* The cost of a link is what its Hellos and IHUs make it: while the run loop
\* sleeps its routes were selected with the cost a pass made now would give, a
\* history in step with the far end's counter holds what became of each Hello,
\* and a far end that has gone quiet is told so by the next Hello that reaches
\* it (deadlineLocked, record, missed, helloAction).
LinkCosted ==
    /\ part = "loss" => Loss!TypeOK /\ Loss!HistoryExact /\ Loss!OneWayTold
    /\ part = "trips" => Trips!TypeOK /\ Trips!CostCurrent /\ Trips!HistoryExact
    /\ part = "classes" => Classes!CostCurrent /\ Classes!HistoryExact
    /\ part = "classes" => Classes!OneWayTold
    /\ part = "reports" => Reports!CostCurrent /\ Reports!OneWayTold
=============================================================================
