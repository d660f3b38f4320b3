---------------------------- MODULE LinkQuality ----------------------------
(***************************************************************************)
(* One Babel link as the node at one end of it sees it: the Hello history  *)
(* of RFC 8966 Appendix A.1, the cost the node puts on the link, the cost  *)
(* it reports back, and the run loop whose timer has to notice that either *)
(* has changed with nothing arriving.                                      *)
(*                                                                         *)
(* Times are relative to now.  A deadline is how many ticks are left until *)
(* it, zero or less once it has passed, and Never when the code holds the  *)
(* zero time.  Costs, sequence numbers and the history keep their widths,  *)
(* scaled down: MetricInfinity, SeqnoModulus and historyDepth.             *)
(***************************************************************************)
EXTENDS Integers, FiniteSets

CONSTANTS
    historyDepth, rebootDrift, SeqnoModulus, MetricInfinity,
    RxCost,          \* the nominal cost of a hop
    Weight,          \* the largest round-trip penalty, at a round trip of 2
    HelloInterval,   \* this node's own Hello interval, in ticks
    RetryInterval,   \* sendRetryInterval, in ticks
    Lag,             \* how many ticks late a pass of the run loop may be
    Hellos,          \* the Hellos the far end sends: [interval, unicast]
    IHUs,            \* the IHUs it sends: [interval, cost, sample]
    MaxLosses,       \* how many Hellos in a row may be lost
    Reboots,         \* the sequence numbers it may come back with
    Outcomes,        \* what becomes of a Hello this node sends
    Never

VARIABLES
    alive, heard,    \* neighborState.alive and .heard
    multicast,       \* [age, interval]: lastHelloTime and helloInterval
    unicast,         \* the same of the unicast Hellos
    history, nextHelloDue,
    reportedCost,    \* Never while there is none
    ihuExpiry,
    measuredRTT,     \* Never while there is none
    rttExpiry,
    nextHello, sentHello, retryAt, sleepUntil, changed,
    linkCosted,      \* the link cost the route selections were made with
    seqno,           \* the far end's Hello counter
    truth,           \* what became of the Hellos since the history started
    quiet,           \* ticks since the last scheduled Hello, up to QuietLimit
    told             \* [cost, last]: the rxcost the far end holds, and what
                     \* became of the last Hello sent to it

linkVars == <<alive, heard, multicast, unicast, history, nextHelloDue,
              reportedCost, ihuExpiry, measuredRTT, rttExpiry>>
loopVars == <<nextHello, sentHello, retryAt, sleepUntil, changed, linkCosted>>
farVars == <<seqno, truth, quiet, told>>
vars == <<linkVars, loopVars, farVars>>

NoHello == [interval |-> Never, unicast |-> FALSE]
NoIHU == [interval |-> 0, cost |-> 0, sample |-> Never]

least(S) == CHOOSE x \in S : \A y \in S : x <= y
lesser(a, b) == least({a, b})
greater(a, b) == a + b - lesser(a, b)

\* The deadline of a Hello or an IHU promised every interval ticks.
deadTimeout(interval) == (interval * 7) \div 2

QuietLimit ==
    1 + HelloInterval + 2 * Lag
      + deadTimeout(CHOOSE i \in {h.interval : h \in Hellos} :
                        \A h \in Hellos : h.interval <= i)

-----------------------------------------------------------------------------
(* The Hello history. *)

helloHistory == [started |-> FALSE, bits |-> 0, expected |-> 0, samples |-> 0]

shiftIn(h, bit, count) ==
    IF count >= historyDepth
    THEN [h EXCEPT !.bits = bit * (2^historyDepth - 1), !.samples = historyDepth]
    ELSE [h EXCEPT !.bits = (@ * 2^count + bit) % 2^historyDepth,
                   !.samples = lesser(@ + count, historyDepth)]

undo(h, count) ==
    [h EXCEPT !.bits = @ \div 2^count, !.samples = greater(0, @ - count)]

restart(n) == [started |-> TRUE, bits |-> 1,
               expected |-> (n + 1) % SeqnoModulus, samples |-> 1]

\* The first Hello starts the history, and one past the window in both
\* directions starts it again.
restarts(h, n) ==
    \/ ~h.started
    \/ /\ (n - h.expected) % SeqnoModulus > rebootDrift
       /\ (h.expected - n) % SeqnoModulus > rebootDrift

record(h, n) ==
    LET ahead  == (n - h.expected) % SeqnoModulus
        behind == (h.expected - n) % SeqnoModulus
        counted == IF ahead <= rebootDrift THEN shiftIn(h, 0, ahead)
                                           ELSE undo(h, behind)
    IN  IF restarts(h, n) THEN restart(n)
        ELSE [shiftIn(counted, 1, 1) EXCEPT !.expected = (n + 1) % SeqnoModulus]

missed(h) ==
    IF h.started
    THEN [shiftIn(h, 0, 1) EXCEPT !.expected = (@ + 1) % SeqnoModulus]
    ELSE h

window(h) == lesser(historyDepth, h.samples)
bitAt(bits, i) == (bits \div 2^i) % 2
received(h) == Cardinality({i \in 0..(window(h) - 1) : bitAt(h.bits, i) = 1})

-----------------------------------------------------------------------------
(* The cost of the link. *)

saturating(c) == lesser(c, MetricInfinity)

\* The two costs scaled by the reception probability, rounded once.
quality(h, base) ==
    CASE base = MetricInfinity -> MetricInfinity
      [] ~h.started            -> base
      [] received(h) = 0       -> MetricInfinity
      [] OTHER -> saturating((base * window(h)) \div received(h))

rxCost(h) == quality(h, RxCost)

\* Linear from nothing at a round trip of 0 to Weight at one of 2.
RTTPenalty(rtt) == IF rtt = Never THEN 0 ELSE (Weight * rtt) \div 2

helloExpiry(m, u) ==
    LET left(x) == deadTimeout(x.interval) - x.age
    IN  CASE m.interval > 0 /\ u.interval > 0 -> greater(left(m), left(u))
          [] m.interval > 0                   -> left(m)
          [] u.interval > 0                   -> left(u)
          [] OTHER                            -> 0

isAlive == alive /\ helloExpiry(multicast, unicast) > 0

linkCost ==
    IF ~isAlive \/ reportedCost = Never \/ ihuExpiry <= 0
    THEN MetricInfinity
    ELSE saturating(quality(history, reportedCost) + RTTPenalty(measuredRTT))

-----------------------------------------------------------------------------
(* When the run loop has to move on its own. *)

\* Mutant: the round trip's deadline left to the IHU's, which it usually equals.
deadlineSynced ==
    least({nextHello, retryAt}
          \cup (IF alive THEN {helloExpiry(multicast, unicast), nextHelloDue} ELSE {})
          \cup (IF reportedCost # Never THEN {ihuExpiry} ELSE {}))

deadlineLocked ==
    least({nextHello, retryAt}
          \cup (IF alive THEN {helloExpiry(multicast, unicast), nextHelloDue} ELSE {})
          \cup (IF reportedCost # Never THEN {ihuExpiry} ELSE {})
          \cup (IF measuredRTT # Never THEN {rttExpiry} ELSE {}))

wakeForPacketLocked == changed' = (changed \/ deadlineLocked' < sleepUntil)

-----------------------------------------------------------------------------
Silent == [age |-> 0, interval |-> 0]
NoTruth == [exact |-> TRUE, bits |-> 0, count |-> 0, lost |-> 0]

\* The link comes up: Run has set its timers to now and not made a pass yet.
Init ==
    /\ alive = FALSE /\ heard = FALSE
    /\ multicast = Silent /\ unicast = Silent
    /\ history = helloHistory /\ nextHelloDue = Never
    /\ reportedCost = Never /\ ihuExpiry = 0
    /\ measuredRTT = Never /\ rttExpiry = 0
    /\ nextHello = 0 /\ sentHello = FALSE /\ retryAt = Never
    /\ sleepUntil = 0 /\ changed = FALSE /\ linkCosted = MetricInfinity
    /\ seqno = SeqnoModulus - 2
    /\ truth = NoTruth /\ quiet = 0
    /\ told = [cost |-> Never, last |-> "none"]

\* The fate of one more Hello of the far end.
Fate(t, bit) ==
    [t EXCEPT !.bits = (@ * 2 + bit) % 2^historyDepth,
              !.count = lesser(@ + 1, historyDepth),
              !.lost = IF bit = 1 THEN 0 ELSE @ + 1]

-----------------------------------------------------------------------------
(* A packet of the far end: a Hello, an IHU or both. *)

ignored(h) == h.interval = 0 /\ helloExpiry(multicast, unicast) <= 0

receiveHello(h) ==
    /\ alive' = TRUE
    /\ heard' = (heard \/ (h.interval > 0 /\ ~h.unicast))
    /\ unicast' = IF h.interval > 0 /\ h.unicast
                  THEN [age |-> 0, interval |-> h.interval] ELSE unicast
    /\ IF h.interval > 0 /\ ~h.unicast
       THEN /\ multicast' = [age |-> 0, interval |-> h.interval]
            /\ nextHelloDue' = h.interval + h.interval \div 2
       ELSE UNCHANGED <<multicast, nextHelloDue>>
    /\ history' = IF h.unicast THEN history ELSE record(history, seqno')
    /\ quiet' = IF h.interval > 0 THEN 0 ELSE quiet
    /\ truth' = CASE h.unicast -> [truth EXCEPT !.exact = FALSE]
                  [] ~h.unicast /\ restarts(history, seqno')
                      -> Fate([NoTruth EXCEPT !.exact = unicast.interval = 0], 1)
                  [] OTHER -> Fate(truth, 1)

\* A Hello that is not there, or promises nothing while nothing is promised.
passHello ==
    /\ seqno' # seqno => truth.lost < MaxLosses
    /\ UNCHANGED <<alive, heard, multicast, unicast, history, nextHelloDue, quiet>>
    /\ truth' = IF history.started /\ seqno' # seqno THEN Fate(truth, 0) ELSE truth

receiveIHU(i) ==
    IF i.interval = 0
    THEN UNCHANGED <<reportedCost, ihuExpiry, measuredRTT, rttExpiry>>
    ELSE /\ reportedCost' = i.cost
         /\ ihuExpiry' = deadTimeout(i.interval)
         /\ IF i.sample = Never
            THEN UNCHANGED <<measuredRTT, rttExpiry>>
            ELSE /\ measuredRTT' \in IF measuredRTT = Never THEN {i.sample}
                       ELSE lesser(measuredRTT, i.sample)..greater(measuredRTT, i.sample)
                 /\ rttExpiry' = ihuExpiry'

linkChanged(h, i) == (h # NoHello /\ ~ignored(h)) \/ i.interval > 0

handlePacket(h, i) ==
    /\ seqno' = IF h = NoHello \/ h.unicast THEN seqno
                ELSE (seqno + 1) % SeqnoModulus
    /\ IF h = NoHello \/ ignored(h) THEN passHello ELSE receiveHello(h)
    /\ receiveIHU(i)
    /\ UNCHANGED <<nextHello, sentHello, retryAt, sleepUntil, told>>
    /\ linkCosted' = IF linkChanged(h, i) THEN linkCost' ELSE linkCosted
    /\ wakeForPacketLocked

\* The packet is lost on the way, its Hello's number with it.
Lose ==
    /\ truth.lost < MaxLosses
    /\ seqno' = (seqno + 1) % SeqnoModulus
    /\ truth' = IF history.started THEN Fate(truth, 0) ELSE truth
    /\ UNCHANGED <<linkVars, loopVars, quiet, told>>

\* The far end restarts and its counter with it.
Reboot ==
    \E n \in Reboots :
        /\ n # seqno
        /\ seqno' = n
        /\ truth' = [truth EXCEPT !.exact = FALSE]
        /\ UNCHANGED <<linkVars, loopVars, quiet, told>>

-----------------------------------------------------------------------------
(* One pass of the run loop. *)

\* The number of Hellos whose time has passed, at most a history of them.
overdue ==
    IF multicast.interval = 0 \/ nextHelloDue > 0 THEN 0
    ELSE lesser(historyDepth, 1 + (0 - nextHelloDue) \div multicast.interval)

\* overdue is at most 2 here: a pass is at most Lag ticks late.
swept == CASE overdue = 0 -> history
           [] overdue = 1 -> missed(history)
           [] OTHER       -> missed(missed(history))

down == alive /\ helloExpiry(multicast, unicast) <= 0

sweepExpiredLocked ==
    /\ alive' = (alive /\ ~down)
    /\ multicast' = IF down THEN Silent ELSE multicast
    /\ unicast' = IF down THEN Silent ELSE unicast
    /\ history' = IF down THEN helloHistory ELSE swept
    /\ nextHelloDue' = IF down THEN Never
                       ELSE nextHelloDue + overdue * multicast.interval
    /\ reportedCost' = IF down \/ ihuExpiry <= 0 THEN Never ELSE reportedCost
    /\ measuredRTT' = IF rttExpiry <= 0 THEN Never ELSE measuredRTT
    /\ truth' = IF down THEN NoTruth ELSE truth
    /\ UNCHANGED <<heard, ihuExpiry, rttExpiry>>

\* The rxcost of the next Hello: infinite toward a neighbor once heard and no
\* longer.
advertised == IF heard /\ ~isAlive THEN MetricInfinity ELSE rxCost(history)

\* A Hello the send queue refused gives its number back and is tried again.
helloAction(outcome) ==
    /\ sentHello' = (outcome # "refused")
    /\ retryAt' = IF outcome = "refused" THEN RetryInterval ELSE Never
    /\ told' = [cost |-> IF outcome = "delivered" THEN advertised' ELSE told.cost,
                last |-> outcome]

Pass ==
    /\ changed \/ sleepUntil <= 0
    /\ sweepExpiredLocked
    /\ nextHello' = IF nextHello <= 0 THEN HelloInterval ELSE nextHello
    /\ IF nextHello <= 0 \/ ~sentHello
       THEN \E outcome \in Outcomes : helloAction(outcome)
       ELSE retryAt' = Never /\ UNCHANGED <<sentHello, told>>
    /\ linkCosted' = linkCost'
    /\ sleepUntil' = deadlineLocked'
    /\ changed' = FALSE
    /\ UNCHANGED <<seqno, quiet>>

\* Work of the other neighbors and of the route table wakes the loop too.
OtherWork ==
    /\ ~changed
    /\ changed' = TRUE
    /\ UNCHANGED <<linkVars, nextHello, sentHello, retryAt, sleepUntil, linkCosted,
                   farVars>>

-----------------------------------------------------------------------------
\* A deadline one tick nearer; how long ago it passed stops counting at Lag.
nearer(t) == IF t = Never THEN Never ELSE greater(t - 1, 0 - Lag)
older(x) == IF x.interval = 0 THEN x
            ELSE [x EXCEPT !.age = lesser(@ + 1, deadTimeout(x.interval) + Lag)]

Tick ==
    /\ ~changed /\ sleepUntil > 0 - Lag
    /\ multicast' = older(multicast) /\ unicast' = older(unicast)
    /\ nextHelloDue' = nearer(nextHelloDue)
    /\ ihuExpiry' = nearer(ihuExpiry) /\ rttExpiry' = nearer(rttExpiry)
    /\ nextHello' = nearer(nextHello) /\ retryAt' = nearer(retryAt)
    /\ sleepUntil' = nearer(sleepUntil)
    /\ quiet' = lesser(quiet + 1, QuietLimit)
    /\ UNCHANGED <<alive, heard, history, reportedCost, measuredRTT, sentHello,
                   changed, linkCosted, seqno, truth, told>>

Next ==
    \/ \E h \in Hellos \cup {NoHello}, i \in IHUs \cup {NoIHU} :
           <<h, i>> # <<NoHello, NoIHU>> /\ handlePacket(h, i)
    \/ Lose
    \/ Reboot
    \/ Pass
    \/ OtherWork
    \/ Tick

Spec == Init /\ [][Next]_vars

-----------------------------------------------------------------------------
Costs == 0..MetricInfinity

\* Every variable keeps its range: sequence numbers and histories their width,
\* costs never past infinity, whatever the Hellos and IHUs carry.
TypeOK ==
    /\ {alive, heard, sentHello, changed} \subseteq BOOLEAN
    /\ {multicast.interval, unicast.interval} \subseteq {0} \cup {h.interval : h \in Hellos}
    /\ history \in [started : BOOLEAN, bits : 0..(2^historyDepth - 1),
                     expected : 0..(SeqnoModulus - 1), samples : 0..historyDepth]
    /\ {reportedCost, told.cost} \subseteq Costs \cup {Never}
    /\ linkCosted \in Costs
    /\ measuredRTT \in 0..2 \cup {Never}
    /\ seqno \in 0..(SeqnoModulus - 1)

\* The cost a pass made now would give the link.
dueCost ==
    IF ~isAlive \/ reportedCost = Never \/ ihuExpiry <= 0
    THEN MetricInfinity
    ELSE saturating(quality(swept, reportedCost)
                    + RTTPenalty(IF rttExpiry <= 0 THEN Never ELSE measuredRTT))

\* While the run loop sleeps, the cost its routes were selected with is the
\* one a pass made now would give: nothing that changes it, a Hello overdue or
\* the end of the neighbor, its report or its round trip, passes before the
\* moment the loop set its timer to (deadlineLocked, wakeForPacketLocked).
CostCurrent == ~changed /\ sleepUntil > 0 => linkCosted = dueCost

\* When the history and the far end's counter are in step, every entry of the
\* window is what became of that Hello: a lost one is a zero and one that
\* came is a one, however many zeros the timer wrote early or late, whatever
\* was undone, refused or lost since the history started (record, missed).
HistoryExact ==
    truth.exact /\ history.started
        /\ history.expected = (seqno + 1) % SeqnoModulus =>
            /\ window(history) <= truth.count
            /\ \A i \in 0..(window(history) - 1) :
                   bitAt(history.bits, i) = bitAt(truth.bits, i)

\* A far end that was heard and has gone quiet is told an infinite cost by the
\* next Hello that reaches it, so a link that works one way is used by
\* neither end (helloAction, forgetLink).
OneWayTold ==
    heard /\ quiet = QuietLimit /\ told.last = "delivered" =>
        told.cost = MetricInfinity
=============================================================================
