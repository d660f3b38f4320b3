----------------------------- MODULE IkeLiveness -----------------------------
(***************************************************************************)
(* The clock of one session's control loop (ike/liveness.go, Run): when an *)
(* outstanding request is retransmitted and given up, and when an idle     *)
(* peer is probed.  Message IDs and contents are module IkeExchange.       *)
(*                                                                         *)
(* Time passes in ticks, kept as ages and as time left so that no clock    *)
(* grows without bound.  The loop sleeps until the one deadline it has     *)
(* computed; ESP that arrives meanwhile raises a flag and does not wake it.*)
(***************************************************************************)
EXTENDS Integers

CONSTANTS
    Timeout,         \* requestTimeout
    Retransmits,     \* maxRetransmits
    BusySends,       \* maxRetransmitsWhileBusy
    Interval,        \* dpdInterval()
    RetryDelay       \* dpdRetryDelay

LivenessAssumption ==
    /\ Timeout \in Nat \ {0} /\ Retransmits \in Nat \ {0}
    /\ BusySends \in Nat /\ BusySends >= Retransmits
    /\ Interval \in Nat \ {0} /\ RetryDelay \in 1..Interval

VARIABLES
    status,          \* "up", or "closed" once the loop has given the peer up
    peer,            \* "alive" or "dead"
    sinceAuth,       \* age of lastAuthenticated, Interval and older alike
    trafficSeen,     \* Session.trafficSeen
    pending,         \* the outstanding request, or None
    sinceProof       \* history: age of the peer's last packet, likewise

vars == <<status, peer, sinceAuth, trafficSeen, pending, sinceProof>>

None == [sent |-> 0]

RetransmitDelay(attempt) == Timeout * 2 ^ (attempt - 1)

Older(age) == IF age < Interval THEN age + 1 ELSE age

Init ==
    /\ status = "up" /\ peer = "alive"
    /\ sinceAuth = 0 /\ sinceProof = 0 /\ trafficSeen = FALSE
    /\ pending = None

-----------------------------------------------------------------------------
(* The peer and the network.                                               *)

\* The peer's ESP is authenticated: NoteTraffic.
NoteTraffic ==
    /\ status = "up" /\ peer = "alive"
    /\ trafficSeen' = TRUE /\ sinceProof' = 0
    /\ UNCHANGED <<status, peer, sinceAuth, pending>>

\* The peer is gone; what it sent before may still be repeated to us.
PeerDies ==
    /\ status = "up" /\ peer = "alive"
    /\ peer' = "dead"
    /\ UNCHANGED <<status, sinceAuth, trafficSeen, pending, sinceProof>>

-----------------------------------------------------------------------------
(* The loop.  Every wake-up ends at the top of the loop, which consumes    *)
(* the traffic flag.                                                       *)

Top(age) ==
    /\ sinceAuth' = IF trafficSeen THEN 0 ELSE age
    /\ trafficSeen' = FALSE

\* Mutant: a repeated datagram counts as a sign of life.
WakeRefreshed ==
    /\ status = "up"
    /\ Top(0)
    /\ UNCHANGED <<status, peer, pending, sinceProof>>

\* A datagram dispatch does not take for fresh, a rekey schedule or another
\* deadline of the loop.
Wake ==
    /\ status = "up"
    /\ Top(sinceAuth)
    /\ UNCHANGED <<status, peer, pending, sinceProof>>

\* A fresh authenticated datagram: a request of the peer's, or the answer to
\* the outstanding one.
Dispatch(answers) ==
    /\ status = "up" /\ peer = "alive"
    /\ answers => pending # None
    /\ Top(0)
    /\ sinceProof' = 0
    /\ pending' = IF answers THEN None ELSE pending
    /\ UNCHANGED <<status, peer>>

SentLimit == BusySends + 1     \* sends beyond the last one are not told apart

\* sendPending.  "old" says that the SA the request went out on has been
\* replaced since.
Sent(p, attempt) ==
    [dpd |-> p.dpd, old |-> p.old, attempts |-> attempt,
     sent |-> IF p.sent < SentLimit THEN p.sent + 1 ELSE SentLimit,
     left |-> RetransmitDelay(attempt)]

First(dpd) == Sent([dpd |-> dpd, old |-> FALSE, sent |-> 0], 1)

\* The peer replaces the IKE SA: the outstanding request stays on the old one.
PeerRekeys ==
    /\ status = "up" /\ peer = "alive"
    /\ pending # None
    /\ Top(0)
    /\ sinceProof' = 0
    /\ pending' = [pending EXCEPT !.old = TRUE]
    /\ UNCHANGED <<status, peer>>

\* A caller's request is taken off the queue and goes out.
StartRequest ==
    /\ status = "up" /\ pending = None
    /\ pending' = First(FALSE)
    /\ Top(sinceAuth)
    /\ UNCHANGED <<status, peer, sinceProof>>

\* pendingRetransmitsExhausted
Exhausted(p, peerAlive) ==
    /\ p.attempts >= Retransmits
    /\ p.dpd \/ ~peerAlive \/ p.sent >= BusySends

RequestDue == pending # None /\ pending.left = 0

\* The SA the request went out on is no longer retained: the request fails.
Retired ==
    /\ status = "up" /\ pending # None
    /\ pending.old
    /\ pending' = None
    /\ Top(sinceAuth)
    /\ UNCHANGED <<status, peer, sinceProof>>

NextAttempt(p) == IF p.attempts < Retransmits THEN p.attempts + 1 ELSE Retransmits

\* The request's deadline has passed: it is sent again, the identical bytes.
\* A send that fails locally counts like one that does not arrive.
Retransmit ==
    /\ status = "up" /\ RequestDue
    /\ ~Exhausted(pending, sinceAuth < Interval)
    /\ pending' = Sent(pending, NextAttempt(pending))
    /\ Top(sinceAuth)
    /\ UNCHANGED <<status, peer, sinceProof>>

\* Or the peer is given up.  lastAuthenticated is as old as the last time the
\* loop was awake: a flag raised since is not read here.
GiveUp ==
    /\ status = "up" /\ RequestDue
    /\ Exhausted(pending, sinceAuth < Interval)
    /\ status' = "closed"
    /\ UNCHANGED <<peer, sinceAuth, trafficSeen, pending, sinceProof>>

\* Nothing is outstanding and nothing was heard for an interval.  The flag is
\* read again, and a peer whose ESP raised it is not probed.  A probe that
\* cannot be sent is tried again RetryDelay later.
Probe(goesOut) ==
    /\ status = "up" /\ pending = None
    /\ sinceAuth = Interval
    /\ CASE trafficSeen -> pending' = None /\ sinceAuth' = 0
         [] ~trafficSeen /\ goesOut ->
                pending' = First(TRUE) /\ sinceAuth' = sinceAuth
         [] ~trafficSeen /\ ~goesOut ->
                pending' = None /\ sinceAuth' = Interval - RetryDelay
    /\ trafficSeen' = FALSE
    /\ UNCHANGED <<status, peer, sinceProof>>

\* Time passes while no deadline of the loop is due.
Tick ==
    /\ status = "up"
    /\ IF pending = None THEN sinceAuth < Interval ELSE pending.left > 0
    /\ sinceAuth' = Older(sinceAuth)
    /\ sinceProof' = Older(sinceProof)
    /\ pending' = IF pending = None THEN None ELSE [pending EXCEPT !.left = @ - 1]
    /\ UNCHANGED <<status, peer, trafficSeen>>

Next ==
    \/ NoteTraffic \/ PeerDies
    \/ Wake
    \/ \E answers \in BOOLEAN : Dispatch(answers)
    \/ PeerRekeys \/ StartRequest \/ Retired \/ Retransmit \/ GiveUp
    \/ \E goesOut \in BOOLEAN : Probe(goesOut)
    \/ Tick

Spec == Init /\ [][Next]_vars

-----------------------------------------------------------------------------
(* Properties.                                                             *)

TypeOK ==
    /\ status \in {"up", "closed"} /\ peer \in {"alive", "dead"}
    /\ sinceAuth \in 0..Interval /\ sinceProof \in 0..Interval
    /\ trafficSeen \in BOOLEAN
    /\ pending # None =>
           /\ pending.dpd \in BOOLEAN /\ pending.old \in BOOLEAN
           /\ pending.attempts \in 1..Retransmits /\ pending.sent \in 1..SentLimit
           /\ pending.left \in 0..RetransmitDelay(Retransmits)

(* Neither traffic nor IKE requests from the peer buy an unanswered probe   *)
(* more than Retransmits sends, or any other request more than BusySends.   *)
SendBudget ==
    pending # None =>
        pending.sent <= IF pending.dpd THEN Retransmits ELSE BusySends

(* A peer is probed only after a whole interval without a packet from it,   *)
(* although its ESP does not wake the loop (RFC 7296 section 2.4).          *)
NoNeedlessProbe ==
    [][pending = None /\ pending' # None /\ pending'.dpd
           => sinceProof >= Interval]_vars

(* A peer that is gone is given up even if what it sent before is replayed  *)
(* to this node for ever: replays do not count as signs of life.            *)
DeadPeerDetected == (peer = "dead") ~> (status = "closed")

(* An exchange ends, answered or given up, also against a peer that keeps   *)
(* sending ESP and never answers IKE: it cannot hold the one outstanding    *)
(* request for ever.                                                        *)
ExchangeEnds == (pending # None) ~> (pending = None \/ status = "closed")

(* A peer is not given up within an interval of its last packet unless a    *)
(* probe of it went unanswered or the request was sent BusySends times:     *)
(* authenticated traffic keeps an ordinary exchange alive.                  *)
\* Refuted by the code: section 5 of the README.
BusyPeerKept ==
    status = "closed" /\ ~pending.dpd /\ pending.sent < BusySends
        => sinceProof >= Interval
=============================================================================
