-------------------------------- MODULE Babel --------------------------------
(***************************************************************************)
(* The Babel speakers of a mesh (internal/babel: route.go, source.go,      *)
(* receive.go, send.go, speaker.go), for one destination prefix.           *)
(*                                                                         *)
(* A handler runs under Speaker.mu and is one action, whatever it sends    *)
(* included.  Timers are abstracted to the order they allow: a route may   *)
(* expire at any moment, a suppression window may close at any moment, and *)
(* GcOutlivesHold says whether the 3 minutes of sourceGCTime are longer    *)
(* than the 3.5 update intervals a neighbor keeps a route for.  ms(R), the *)
(* smoothed metric, is abstracted to whether it lets a cheaper route win.  *)
(***************************************************************************)
EXTENDS Integers, Sequences, FiniteSets, FiniteSetsExt

CONSTANTS
    Router,          \* speakers, named by numbers: their order is the peer IDs'
    Neighbors,       \* [Router -> SUBSET Router], the ESP tunnels
    Origins,         \* the speakers that may originate the prefix
    NoTransit,       \* the speakers that relay nothing
    LinkCosts,       \* the finite costs a link may take
    Infinity,        \* MetricInfinity
    Trigger,         \* routeTable.trigger
    HopCount,        \* seqnoRequestHopCount
    Retries,         \* seqnoRequestRetries
    Capacity,        \* packets a link holds: past it a reservation is refused
    MaxSeqno,        \* bound: no origin is asked past this sequence number; below
                     \* half of their circle, where SeqnoGT orders them
    Budget,          \* bound: events of the environment and of timers
    Kinds,           \* the kinds of events of a run
    Settled,         \* start from Warm rather than from Cold
    GcOutlivesHold,  \* sourceGCTime exceeds the hold of every neighbor
    Suppress,        \* the windows of asked and pending outlast a step
    Ordered          \* the network neither loses nor reorders packets

ASSUME BabelAssumption ==
    /\ Router \subseteq Nat \ {0} /\ IsFiniteSet(Router)
    /\ Neighbors \in [Router -> SUBSET Router]
    /\ \A i \in Router : i \notin Neighbors[i]
    /\ \A i, j \in Router : j \in Neighbors[i] <=> i \in Neighbors[j]
    /\ Origins \subseteq Router /\ NoTransit \subseteq Router
    /\ Infinity \in Nat \ {0, 1} /\ LinkCosts \subseteq 0..(Infinity - 1) /\ LinkCosts # {}
    /\ {Trigger, Retries, Capacity, Budget} \subseteq Nat
    /\ HopCount \in Nat \ {0} /\ MaxSeqno \in 1..(2^15 - 1)
    /\ Settled => \E o \in Router : Origins = {o} /\ Neighbors[o] = Router \ {o}
    /\ {Settled, GcOutlivesHold, Suppress, Ordered} \subseteq BOOLEAN

Nobody == 0                       \* a nil neighbor, the zero router id
Unreachable == -1                 \* netstack.Unreachable in mesh.Routes
Seqno == 1..MaxSeqno
Metric == 0..Infinity
Distance == [seqno : Seqno, metric : 0..(Infinity - 1)]
NoSource == [seqno |-> 0, metric |-> Infinity]
Advertisement ==
    [id : Router, seqno : Seqno, metric : 0..(Infinity - 1)]
    \cup [id : Router \cup {Nobody}, seqno : 0..MaxSeqno, metric : {Infinity}]
NoRoute == [id |-> Nobody, seqno |-> 0, metric |-> -1]
Selection == [via : Router, id : Router, seqno : Seqno, cost : 0..(Infinity - 1)]
Unselected == [via |-> Nobody, id |-> Nobody, seqno |-> 0, cost |-> Infinity]
NoRetry == [seqno |-> 0, left |-> 0]
Links == {l \in Router \X Router : l[2] \in Neighbors[l[1]]}

VARIABLES
    originate,    \* [Router -> BOOLEAN]: the prefix is in Speaker.originate
    originSeqno,  \* Speaker.originSeqno
    linkCost,     \* linkCost[i][j]: what linkCost answers i of neighbor j
    routes,       \* routes[i][j]: entry.routes
    selected,     \* entry.selected
    retractID,    \* entry.retractID
    sources,      \* [Router -> [Router -> ...]]: the feasibility distances
    advertised,   \* [Router -> SUBSET Router]: neighborState.advertised
    owed,         \* [Router -> SUBSET Router]: neighborState.owed
    dirty,        \* SUBSET Router: the prefix is in routeTable.dirty
    forwarding,   \* the entry of mesh.Routes: a peer, Unreachable or Nobody
    asked,        \* Speaker.askedSeqno
    pending,      \* Speaker.pendingSeqno, 0 where there is no window
    retries,      \* Speaker.starveRetries, left = 0 where there is none
    session,      \* session[i][j]: how often j's session was replaced at i
    net,          \* [Links -> Seq(packets)]
    events        \* events spent of Budget

table == <<routes, selected, retractID, dirty, forwarding>>
told == <<sources, advertised, owed>>
requests == <<asked, pending, retries>>
world == <<linkCost, session, events>>
origin == <<originate, originSeqno>>
vars == <<origin, table, told, requests, world, net>>

\* The tunnels are up, each end has heard the other's Hello and IHU, and no
\* Update has been sent yet.
Cold ==
    /\ originate \in {o \in [Router -> BOOLEAN] : \A i \in Router : o[i] => i \in Origins}
    /\ routes = [i \in Router |-> [j \in Neighbors[i] |-> NoRoute]]
    /\ selected = [i \in Router |-> Unselected]
    /\ retractID = [i \in Router |-> Nobody]
    /\ sources = [i \in Router |-> [r \in Router |-> NoSource]]
    /\ advertised = [i \in Router |-> {}]
    /\ dirty = {i \in Router : originate[i]}
    /\ forwarding = [i \in Router |-> IF originate[i] THEN Unreachable ELSE Nobody]

\* The same mesh once its first Updates are delivered, when one speaker
\* originates the prefix and everybody is its neighbor.
Warm ==
    LET o == Min(Origins)
        cost == Max({1, Min(LinkCosts)})
        adv(metric) == [id |-> o, seqno |-> 1, metric |-> metric]
        all(x, y) == [i \in Router |-> IF i = o THEN x ELSE y]
    IN  /\ originate = all(TRUE, FALSE)
        /\ routes = [i \in Router |-> [j \in Neighbors[i] |->
               IF i = o THEN NoRoute ELSE adv(IF j = o THEN 0 ELSE cost)]]
        /\ selected = all(Unselected, [via |-> o, id |-> o, seqno |-> 1, cost |-> cost])
        /\ retractID = all(Nobody, o)
        /\ sources = [i \in Router |-> [r \in Router |-> IF r # o THEN NoSource
               ELSE [seqno |-> 1, metric |-> IF i = o THEN 0 ELSE cost]]]
        /\ advertised = [i \in Router |-> Neighbors[i] \ {o}]
        /\ dirty = {}
        /\ forwarding = all(Unreachable, o)

Init ==
    /\ IF Settled THEN Warm ELSE Cold
    /\ originSeqno = [i \in Router |-> 1]
    /\ linkCost = [i \in Router |-> [j \in Neighbors[i] |-> Min(LinkCosts)]]
    /\ owed = [i \in Router |-> {}]
    /\ asked = [i \in Router |-> {}]
    /\ pending = [i \in Router |-> [r \in Router |-> 0]]
    /\ retries = [i \in Router |-> [r \in Router |-> NoRetry]]
    /\ session = [i \in Router |-> [j \in Neighbors[i] |-> 0]]
    /\ net = [l \in Links |-> <<>>]
    /\ events = 0

\* An event of the environment or of a timer, of which a run has a bounded
\* number.
Spend(kind) == kind \in Kinds /\ events < Budget /\ events' = events + 1

\* Nothing is on its way and no triggered update is due.  In an Ordered run the
\* timers, of seconds, are slower than this.
Quiet ==
    /\ \A l \in Links : net[l] = <<>>
    /\ dirty = {} /\ \A i \in Router : owed[i] = {}

Timer == Ordered => Quiet

-----------------------------------------------------------------------------
(* Metrics, feasibility and the choice of a route.                         *)

SaturatingAdd(a, b) == IF a + b < Infinity THEN a + b ELSE Infinity

SeqnoGT(a, b) == ((a - b) % 2^16) \in 1..(2^15 - 1)

\* (seqno, metric) is strictly better than the recorded distance d.
Better(d, seqno, metric) ==
    SeqnoGT(seqno, d.seqno) \/ (seqno = d.seqno /\ metric < d.metric)

\* Mutant: the feasibility condition is left out.
FeasibleAlways(i, adv) == TRUE

Feasible(i, adv) ==
    \/ adv.metric = Infinity
    \/ sources[i][adv.id] = NoSource
    \/ Better(sources[i][adv.id], adv.seqno, adv.metric)

\* Mutant: only the first distance of a source is recorded.
ObserveOnce(i, adv) ==
    IF sources[i][adv.id] # NoSource THEN sources
    ELSE [sources EXCEPT ![i][adv.id] = [seqno |-> adv.seqno, metric |-> adv.metric]]

\* The table of i after adv is about to leave it.
Observe(i, adv) ==
    LET d == sources[i][adv.id]
    IN  IF d = NoSource \/ Better(d, adv.seqno, adv.metric)
        THEN [sources EXCEPT ![i][adv.id] = [seqno |-> adv.seqno, metric |-> adv.metric]]
        ELSE sources

RouteCost(cost, adv) == SaturatingAdd(IF cost = 0 THEN 1 ELSE cost, adv.metric)

\* The neighbors whose route in rts has a finite metric, links costing lc.
Finite(rts, lc) ==
    {j \in DOMAIN rts : rts[j] # NoRoute /\ RouteCost(lc[j], rts[j]) # Infinity}

\* What selectRoute may select: the cheapest feasible route, or the one in use
\* while the smoothed metric has not confirmed a cheaper one.
Selections(i, rts, lc) ==
    LET usable == {j \in Finite(rts, lc) : Feasible(i, rts[j])}
        cost(j) == RouteCost(lc[j], rts[j])
        best == CHOOSE j \in usable : \A k \in usable :
                    cost(j) < cost(k) \/ (cost(j) = cost(k) /\ j <= k)
        incumbent == selected[i].via
        by(j) == [via |-> j, id |-> rts[j].id, seqno |-> rts[j].seqno, cost |-> cost(j)]
    IN  IF usable = {} THEN {Unselected}
        ELSE IF incumbent \notin usable THEN {by(best)}
        ELSE {by(incumbent)} \cup {by(j) : j \in {best} \cap
                                        {k \in usable : cost(k) < cost(incumbent)}}

Significant(old, new) ==
    \/ (old.via = Nobody) # (new.via = Nobody)
    \/ /\ new.via # Nobody
       /\ \/ old.via # new.via \/ old.id # new.id \/ old.seqno # new.seqno
          \/ new.cost - old.cost >= Trigger

-----------------------------------------------------------------------------
(* Packets.                                                                *)

UpdatePacket(i, j, adv, metric, spent) ==
    [kind |-> "update", id |-> adv.id, seqno |-> adv.seqno, metric |-> metric,
     spent |-> spent, session |-> session[i][j]]

RequestPacket(i, j, id, seqno, hops) ==
    [kind |-> "request", id |-> id, seqno |-> seqno, hops |-> hops,
     session |-> session[i][j]]

Full(i, j) == Len(net[<<i, j>>]) >= Capacity

\* The network n after i takes a place for out[j] toward each j, where one is free.
Post(n, i, out) ==
    [l \in Links |-> IF l[1] = i /\ l[2] \in DOMAIN out /\ ~Full(i, l[2])
                     THEN Append(n[l], out[l[2]]) ELSE n[l]]

\* Position k of a link is the packet that arrives.
Arrives(k) == Ordered => k = 1

Without(s, k) == SubSeq(s, 1, k - 1) \o SubSeq(s, k + 1, Len(s))

Taken(n, i, j, k) == [n EXCEPT ![<<j, i>>] = Without(@, k)]

\* Asking for a new sequence number: starvedActions with allowAsk,
\* allowSeqnoRequest and rememberStarved.  wants[j] is what to ask j for; a
\* neighbor asked within the window is not asked again.
Allowed(i, wants) == {j \in DOMAIN wants : <<j, wants[j].id>> \notin asked[i]}

Asks(i, wants) ==
    [j \in Allowed(i, wants) |->
        RequestPacket(i, j, wants[j].id, wants[j].seqno, HopCount)]

Redundant(i, id, seqno) == pending[i][id] # 0 /\ ~SeqnoGT(seqno, pending[i][id])

Record(i, wants) ==
    LET ids == {wants[j].id : j \in Allowed(i, wants)}
        seqno(r) == wants[CHOOSE j \in Allowed(i, wants) : wants[j].id = r].seqno
    IN  /\ asked' = [asked EXCEPT ![i] =
               @ \cup {<<j, wants[j].id>> : j \in {k \in Allowed(i, wants) : Suppress}}]
        /\ pending' = [pending EXCEPT ![i] = [r \in Router |->
               IF Suppress /\ r \in ids /\ ~Redundant(i, r, seqno(r)) THEN seqno(r) ELSE @[r]]]

Remember(i, wants) ==
    retries' = [retries EXCEPT ![i] = [r \in Router |->
        LET by == {j \in Allowed(i, wants) : wants[j].id = r}
        IN  IF by = {} \/ Retries = 0 THEN @[r]
            ELSE [seqno |-> wants[CHOOSE j \in by : TRUE].seqno,
                  left |-> IF @[r].left = 0 THEN Retries + 1 ELSE @[r].left]]]

\* Mutant: ask for the sequence number already recorded.
RequestSeqnoSame(i, adv) ==
    IF sources[i][adv.id] = NoSource THEN adv.seqno ELSE sources[i][adv.id].seqno

\* The sequence number that would make a route feasible again.
RequestSeqno(i, adv) ==
    IF sources[i][adv.id] = NoSource THEN adv.seqno + 1 ELSE sources[i][adv.id].seqno + 1

Want(i, adv) == [id |-> adv.id, seqno |-> RequestSeqno(i, adv)]

-----------------------------------------------------------------------------
(* Selection, and what it installs, dirties and asks for.                  *)

\* selectRoute over the routes rts of i, its links costing lc.  also holds a
\* request the handler has queued itself, d and n are dirty and net as the
\* handler leaves them.
SelectRoute(i, rts, lc, also, d, n) ==
    \E sel \in Selections(i, rts, lc) :
        LET empty == \A j \in DOMAIN rts : rts[j] = NoRoute
            lost == sel.via = Nobody /\ selected[i].via # Nobody
            starved == {j \in Finite(rts, lc) : lost /\ ~Feasible(i, rts[j])}
            wants == [j \in starved \cup also |-> Want(i, rts[j])]
        IN  /\ routes' = [routes EXCEPT ![i] = rts]
            /\ selected' = [selected EXCEPT ![i] = sel]
            /\ retractID' = [retractID EXCEPT ![i] =
                   IF empty THEN Nobody ELSE IF sel.via = Nobody THEN @ ELSE sel.id]
            /\ dirty' = IF empty \/ Significant(selected[i], sel)
                        THEN d \cup {i} ELSE d
            /\ forwarding' = [forwarding EXCEPT ![i] =
                   IF empty THEN Nobody
                   ELSE IF sel.via = selected[i].via THEN @
                   ELSE IF sel.via = Nobody THEN Unreachable ELSE sel.via]
            /\ net' = Post(n, i, Asks(i, wants))
            /\ Record(i, wants) /\ Remember(i, wants)

\* The hold of a route has run out: it is retracted first and flushed next.
Expire(i, j) ==
    /\ j \in Neighbors[i] /\ routes[i][j] # NoRoute
    /\ Timer
    /\ IF Ordered
       THEN /\ \/ routes[i][j].metric = Infinity \/ i \notin advertised[j]
               \/ session[i][j] # session[j][i]
            /\ UNCHANGED events
       ELSE Spend("expiry")
    /\ SelectRoute(i, [routes[i] EXCEPT ![j] =
           IF @.metric = Infinity THEN NoRoute ELSE [@ EXCEPT !.metric = Infinity]],
           linkCost[i], {}, dirty, net)
    /\ UNCHANGED <<origin, told, linkCost, session>>

\* A Hello, an IHU, or the lack of them, moves the cost of a link.
LinkChanges(i, j, c) ==
    /\ j \in Neighbors[i] /\ c # linkCost[i][j]
    /\ Spend("link")
    /\ linkCost' = [linkCost EXCEPT ![i][j] = c]
    /\ IF routes[i][j] = NoRoute THEN UNCHANGED <<table, requests, net>>
       ELSE SelectRoute(i, routes[i], linkCost'[i], {}, dirty, net)
    /\ UNCHANGED <<origin, told, session>>

\* AddPeer replaces the session with j: its routes go, and the new neighbor
\* has been told nothing and has no cost yet.
ReplacePeer(i, j) ==
    /\ j \in Neighbors[i]
    /\ Spend("session")
    /\ session' = [session EXCEPT ![i][j] = @ + 1]
    /\ linkCost' = [linkCost EXCEPT ![i][j] = Infinity]
    /\ advertised' = [advertised EXCEPT ![i] = @ \ {j}]
    /\ owed' = [owed EXCEPT ![i] = @ \ {j}]
    /\ IF routes[i][j] = NoRoute
       THEN dirty' = dirty \cup {i} /\ UNCHANGED <<routes, selected, retractID, forwarding, requests, net>>
       ELSE SelectRoute(i, [routes[i] EXCEPT ![j] = NoRoute], linkCost[i], {},
                        dirty \cup {i}, net)
    /\ UNCHANGED <<origin, sources>>

\* SetOriginated adds the prefix, dropping what was learned of it, or drops it.
SetOriginated(i) ==
    /\ i \in Origins
    /\ Spend("origin")
    /\ originate' = [originate EXCEPT ![i] = ~@]
    /\ dirty' = dirty \cup {i}
    /\ routes' = [routes EXCEPT ![i] = [j \in DOMAIN @ |-> NoRoute]]
    /\ selected' = [selected EXCEPT ![i] = Unselected]
    /\ retractID' = [retractID EXCEPT ![i] = Nobody]
    /\ forwarding' = [forwarding EXCEPT ![i] = IF originate[i] THEN Nobody ELSE Unreachable]
    /\ UNCHANGED <<originSeqno, told, requests, linkCost, session, net>>

-----------------------------------------------------------------------------
(* Advertising.                                                            *)

Known(i) == \E j \in Neighbors[i] : routes[i][j] # NoRoute

AdvertisementFor(i) ==
    IF originate[i]
    THEN [id |-> i, seqno |-> originSeqno'[i], metric |-> 0, via |-> Nobody]
    ELSE IF i \in NoTransit \/ ~Known(i)
    THEN [id |-> i, seqno |-> originSeqno'[i], metric |-> Infinity, via |-> Nobody]
    ELSE IF selected[i].via # Nobody
    THEN [id |-> selected[i].id, seqno |-> selected[i].seqno,
          metric |-> selected[i].cost, via |-> selected[i].via]
    ELSE [id |-> retractID[i], seqno |-> 0, metric |-> Infinity, via |-> Nobody]

\* advertiseTo each of targets, in packets that take a place or leave the
\* neighbor owed; cleared is what the caller has taken from owed.
Advertise(i, targets, force, cleared, n) ==
    LET adv == AdvertisementFor(i)
        metric(j) == IF adv.via = j THEN Infinity ELSE adv.metric
        finite == {j \in targets : metric(j) # Infinity}
        spent == (targets \ finite) \cap advertised[i]
        said == finite \cup (IF force THEN targets ELSE spent)
        refused == {j \in said : Full(i, j)}
        now == ((advertised[i] \cup finite) \ spent) \cup (spent \cap refused)
    IN  /\ sources' = IF finite = {} THEN sources ELSE Observe(i, adv)
        /\ advertised' = [advertised EXCEPT ![i] = now]
        /\ owed' = [owed EXCEPT ![i] = (@ \ cleared) \cup
               {j \in refused : Known(i) \/ originate[i] \/ j \in now}]
        /\ net' = Post(n, i, [j \in said |->
               UpdatePacket(i, j, adv, metric(j), j \in spent)])

\* An Update that is not for the route table: a prefix this node originates,
\* its own router id coming back, or nothing to store it in.
Ignores(i, j, p) ==
    \/ originate[i]
    \/ p.id = i
    \/ routes[i][j] = NoRoute /\ (p.metric = Infinity \/ ~Feasible(i, p))

\* Some neighbor would learn from a dump of i.
News(i) ==
    LET adv == AdvertisementFor(i)
    IN  \E j \in Neighbors[i] :
            LET p == [id |-> adv.id, seqno |-> adv.seqno,
                      metric |-> IF adv.via = j THEN Infinity ELSE adv.metric]
            IN  /\ p.metric # Infinity \/ j \in advertised[i]
                /\ session[i][j] = session[j][i]
                /\ ~Ignores(j, i, p) /\ routes[j][i] # p

\* The periodic dump of Run.  An Ordered run leaves out the dumps that repeat
\* what every neighbor already holds.
Update(i) ==
    /\ Timer
    /\ UNCHANGED origin
    /\ IF Ordered THEN News(i) /\ UNCHANGED events ELSE Spend("dump")
    /\ Advertise(i, Neighbors[i], FALSE, Neighbors[i], net)
    /\ dirty' = dirty \ {i}
    /\ UNCHANGED <<routes, selected, retractID, forwarding, requests, linkCost, session>>

\* The triggered update of Run.
Triggered(i) ==
    LET targets == IF i \in dirty THEN Neighbors[i] ELSE owed[i]
    IN  /\ targets # {}
        /\ UNCHANGED origin
        /\ Advertise(i, targets, FALSE, targets, net)
        /\ dirty' = dirty \ {i}
        /\ UNCHANGED <<routes, selected, retractID, forwarding, requests, world>>

\* A Route Request from j is answered whatever i knows.
RouteRequested(i, j) ==
    /\ j \in Neighbors[i]
    /\ Spend("request")
    /\ UNCHANGED origin
    /\ Advertise(i, {j}, TRUE, {}, net)
    /\ UNCHANGED <<table, requests, linkCost, session>>

\* The sender reports a packet lost, and the next pass gives back what it spent.
SendFails(i, j, k) ==
    /\ Arrives(k) /\ Spend("fail")
    /\ LET p == net[<<i, j>>][k]
           now == IF p.spent THEN advertised[i] \cup {j} ELSE advertised[i]
       IN  /\ p.kind = "update" /\ p.session = session[i][j]
           /\ advertised' = [advertised EXCEPT ![i] = now]
           /\ owed' = IF Known(i) \/ originate[i] \/ j \in now
                      THEN [owed EXCEPT ![i] = @ \cup {j}] ELSE owed
    /\ net' = Taken(net, j, i, k)
    /\ UNCHANGED <<origin, table, sources, requests, linkCost, session>>

\* The network drops a packet.
Lose(i, j, k) ==
    /\ ~Ordered /\ Arrives(k) /\ Spend("loss")
    /\ net' = Taken(net, i, j, k)
    /\ UNCHANGED <<origin, table, told, requests, linkCost, session>>

\* sweepSources.  A distance lives for 3 minutes after the last Update that
\* advertised it, longer than any repeat of a request and, when GcOutlivesHold,
\* than a route learned from that Update.
SweepSources(i, r) ==
    /\ Timer /\ sources[i][r] # NoSource
    /\ UNCHANGED origin
    /\ GcOutlivesHold =>
           /\ AdvertisementFor(i).id # r \/ AdvertisementFor(i).metric = Infinity
           /\ \A j \in Neighbors[i] : routes[j][i].id # r \/ routes[j][i].metric = Infinity
           /\ \A j \in Neighbors[i] : \A k \in DOMAIN net[<<i, j>>] :
                  net[<<i, j>>][k].kind = "request" \/ net[<<i, j>>][k].id # r
    /\ retries[i][r].left = 0 /\ Spend("gc")
    /\ sources' = [sources EXCEPT ![i][r] = NoSource]
    /\ UNCHANGED <<table, advertised, owed, requests, linkCost, session, net>>

\* A pass of Run selects again, which matters once a distance is gone.
Sweep(i) ==
    /\ Known(i) /\ Selections(i, routes[i], linkCost[i]) # {selected[i]}
    /\ SelectRoute(i, routes[i], linkCost[i], {}, dirty, net)
    /\ UNCHANGED <<origin, told, world>>

-----------------------------------------------------------------------------
(* Receiving.                                                              *)

\* Packet k from j is p, it reaches i and it is of the session i holds.
Receives(i, j, k, p) ==
    /\ j \in Neighbors[i] /\ Arrives(k)
    /\ p = net[<<j, i>>][k] /\ p.session = session[i][j]

\* A packet of a retired session.
DropRetired(i, j, k) ==
    /\ j \in Neighbors[i] /\ Arrives(k)
    /\ net[<<j, i>>][k].session # session[i][j]
    /\ net' = Taken(net, i, j, k)
    /\ UNCHANGED <<origin, table, told, requests, world>>

IgnoreUpdate(i, j, k) ==
    \E p \in {net[<<j, i>>][k]} :
        /\ Receives(i, j, k, p) /\ p.kind = "update" /\ Ignores(i, j, p)
        /\ net' = Taken(net, i, j, k)
        /\ UNCHANGED <<origin, table, told, requests, world>>

\* routeTable.update.
LearnRoute(i, j, k) ==
    \E p \in {net[<<j, i>>][k]} :
        /\ Receives(i, j, k, p) /\ p.kind = "update" /\ ~Ignores(i, j, p)
        /\ SelectRoute(i, [routes[i] EXCEPT ![j] =
                              [id |-> p.id, seqno |-> p.seqno, metric |-> p.metric]],
                       linkCost[i],
                       IF selected[i].via = j /\ ~Feasible(i, p) THEN {j} ELSE {},
                       dirty, Taken(net, i, j, k))
        /\ UNCHANGED <<origin, told, world>>

\* seqnoReply on a node that originates the prefix: raise the sequence number
\* when it is this node's and asked for, and answer.
RaiseSeqno(i, j, k) ==
    \E p \in {net[<<j, i>>][k]} :
        /\ Receives(i, j, k, p) /\ p.kind = "request" /\ originate[i]
        /\ LET raises == /\ p.id = i /\ SeqnoGT(p.seqno, originSeqno[i])
                         /\ originSeqno[i] < MaxSeqno
           IN  /\ originSeqno' = [originSeqno EXCEPT ![i] = IF raises THEN @ + 1 ELSE @]
               /\ dirty' = IF raises THEN dirty \cup {i} ELSE dirty
        /\ Advertise(i, {j}, TRUE, {}, Taken(net, i, j, k))
        /\ UNCHANGED <<originate, routes, selected, retractID, forwarding, requests, world>>

\* The selected route satisfies the request.
Satisfies(i, j, p) ==
    /\ selected[i].via \notin {Nobody, j}
    /\ selected[i].id # p.id \/ ~SeqnoGT(p.seqno, selected[i].seqno)

AnswerRequest(i, j, k) ==
    \E p \in {net[<<j, i>>][k]} :
        /\ Receives(i, j, k, p) /\ p.kind = "request"
        /\ ~originate[i] /\ Satisfies(i, j, p)
        /\ UNCHANGED origin
        /\ Advertise(i, {j}, TRUE, {}, Taken(net, i, j, k))
        /\ UNCHANGED <<table, requests, world>>

\* The neighbor a request from j is forwarded to, Nobody for none.
ForwardTarget(i, j) ==
    LET others == {n \in Neighbors[i] \ {j} : routes[i][n].metric \in 0..(Infinity - 1)}
        feasible == {n \in others : Feasible(i, routes[i][n])}
    IN  IF selected[i].via \notin {Nobody, j} THEN selected[i].via
        ELSE IF feasible # {} THEN Min(feasible)
        ELSE IF others # {} THEN Min(others) ELSE Nobody

ForwardRequest(i, j, k) ==
    \E p \in {net[<<j, i>>][k]} :
        /\ Receives(i, j, k, p) /\ p.kind = "request"
        /\ ~originate[i] /\ ~Satisfies(i, j, p)
        /\ LET to == ForwardTarget(i, j)
               goes == p.id # i /\ p.hops >= 2 /\ to # Nobody /\ ~Redundant(i, p.id, p.seqno)
               ask == [n \in {to} |-> RequestPacket(i, n, p.id, p.seqno, p.hops - 1)]
           IN  /\ pending' = IF goes /\ Suppress THEN [pending EXCEPT ![i][p.id] = p.seqno]
                                              ELSE pending
               /\ net' = Taken(IF goes THEN Post(net, i, ask) ELSE net, i, j, k)
        /\ UNCHANGED <<origin, table, told, asked, retries, world>>

\* A suppression window closes.
WindowCloses(i) ==
    /\ Timer
    /\ \/ \E a \in asked[i] : asked' = [asked EXCEPT ![i] = @ \ {a}] /\ UNCHANGED pending
       \/ \E r \in Router : /\ pending[i][r] # 0
                            /\ pending' = [pending EXCEPT ![i][r] = 0] /\ UNCHANGED asked
    /\ UNCHANGED <<origin, table, told, retries, world, net>>

\* retryStarvedLocked for one origin: repeat the request, or forget it.  Its
\* first delay is longer than the windows.
RetryStarved(i, r) ==
    LET again == retries[i][r].left > 1 /\ selected[i].via = Nobody
        wants == [j \in {n \in Neighbors[i] : routes[i][n] # NoRoute /\ linkCost[i][n] # Infinity} |->
                     [id |-> r, seqno |-> retries[i][r].seqno]]
    IN  /\ Timer /\ retries[i][r].left # 0
        /\ Ordered => \A n \in Router : pending[n][r] = 0 /\ \A a \in asked[n] : a[2] # r
        /\ retries' = [retries EXCEPT ![i][r] =
               IF again THEN [seqno |-> @.seqno, left |-> @.left - 1] ELSE NoRetry]
        /\ IF again THEN Record(i, wants) /\ net' = Post(net, i, Asks(i, wants))
                    ELSE UNCHANGED <<asked, pending, net>>
        /\ UNCHANGED <<origin, table, told, world>>

-----------------------------------------------------------------------------
Receive(i, j, k) ==
    \/ DropRetired(i, j, k) \/ IgnoreUpdate(i, j, k) \/ LearnRoute(i, j, k)
    \/ RaiseSeqno(i, j, k) \/ AnswerRequest(i, j, k) \/ ForwardRequest(i, j, k)

Next ==
    \/ \E i \in Router : \/ Update(i) \/ Triggered(i) \/ Sweep(i)
                         \/ SetOriginated(i) \/ WindowCloses(i)
                         \/ \E r \in Router : SweepSources(i, r) \/ RetryStarved(i, r)
    \/ \E l \in Links :
           LET i == l[1]
               j == l[2]
           IN  \/ Expire(i, j) \/ ReplacePeer(i, j) \/ RouteRequested(i, j)
               \/ \E c \in LinkCosts \cup {Infinity} : LinkChanges(i, j, c)
               \/ \E k \in DOMAIN net[<<j, i>>] : Receive(i, j, k) \/ Lose(i, j, k)
               \/ \E k \in DOMAIN net[<<i, j>>] : SendFails(i, j, k)

Spec == Init /\ [][Next]_vars

-----------------------------------------------------------------------------
(* Properties.                                                             *)

Packet ==
    [kind : {"update"}, id : Router, seqno : Seqno, metric : 0..(Infinity - 1),
     spent : BOOLEAN, session : 0..Budget]
    \cup [kind : {"update"}, id : Router \cup {Nobody}, seqno : 0..MaxSeqno,
          metric : {Infinity}, spent : BOOLEAN, session : 0..Budget]
    \cup [kind : {"request"}, id : Router, seqno : 1..(MaxSeqno + 1), hops : 1..HopCount,
          session : 0..Budget]

Keyed(f) == f = [i \in Router |-> f[i]]

\* The state of every speaker has the shape of its Go structures, a finite
\* distance always comes with a router id and a sequence number, and no link
\* carries more than the places its peer's queue has.
TypeOK ==
    /\ originate \in [Router -> BOOLEAN] /\ originSeqno \in [Router -> Seqno]
    /\ Keyed(linkCost) /\ Keyed(routes) /\ Keyed(session)
    /\ \A i \in Router :
        /\ linkCost[i] \in [Neighbors[i] -> LinkCosts \cup {Infinity}]
        /\ routes[i] \in [Neighbors[i] -> Advertisement \cup {NoRoute}]
        /\ session[i] \in [Neighbors[i] -> 0..Budget]
        /\ advertised[i] \subseteq Neighbors[i] /\ owed[i] \subseteq Neighbors[i]
    /\ selected \in [Router -> Selection \cup {Unselected}]
    /\ retractID \in [Router -> Router \cup {Nobody}]
    /\ sources \in [Router -> [Router -> Distance \cup {NoSource}]]
    /\ advertised \in [Router -> SUBSET Router] /\ owed \in [Router -> SUBSET Router]
    /\ forwarding \in [Router -> Router \cup {Nobody, Unreachable}]
    /\ asked \in [Router -> SUBSET (Router \X Router)]
    /\ pending \in [Router -> [Router -> 0..(MaxSeqno + 1)]]
    /\ retries \in [Router -> [Router -> [seqno : 0..(MaxSeqno + 1), left : 0..(Retries + 1)]]]
    /\ dirty \subseteq Router
    /\ net \in [Links -> Seq(Packet)] /\ \A l \in Links : Len(net[l]) <= Capacity
    /\ events \in 0..Budget

\* Selected next hops never form a cycle for one origin: whatever is lost,
\* reordered, replaced or expired, no set of speakers forwards the prefix of one
\* router id only among themselves.
LoopFree ==
    \A r \in Router : \A S \in (SUBSET Router) \ {{}} :
        \E i \in S : selected[i].id # r \/ selected[i].via \notin S

\* The distance a speaker has recorded bounds what its neighbors may still act
\* on: an advertisement stored by a neighbor, or on its way, is never better than
\* the feasibility distance of the speaker that sent it.
DistanceBounds ==
    \A l \in Links :
        LET i == l[1]
            j == l[2]
            bounded(adv) == adv.metric \in 0..(Infinity - 1) =>
                /\ sources[i][adv.id] # NoSource
                /\ ~Better(sources[i][adv.id], adv.seqno, adv.metric)
        IN  /\ bounded(routes[j][i])
            /\ \A k \in DOMAIN net[l] : net[l][k].kind = "update" => bounded(net[l][k])

\* The forwarding entry is the selected peer, and unreachable, never absent, for
\* a prefix originated here or one whose last selected route is held: a packet
\* does not fall through to a covering prefix.
ForwardingAgrees ==
    \A i \in Router :
        /\ originate[i] => forwarding[i] = Unreachable /\ ~Known(i)
        /\ selected[i].via # Nobody => forwarding[i] = selected[i].via
        /\ selected[i].via = Nobody => forwarding[i] \in {Nobody, Unreachable}
        /\ Known(i) /\ retractID[i] # Nobody => forwarding[i] # Nobody
        /\ ~Known(i) /\ ~originate[i] => forwarding[i] = Nobody

\* The forwarding table follows the selection, and a speaker's distance bounds
\* what every neighbor it told holds, also what is still on its way: feasibility
\* can rest on it.
TablesAgree == TypeOK /\ DistanceBounds /\ ForwardingAgrees

\* With the network in order, a neighbor that still holds a finite route is one
\* the speaker remembers having told: the retraction a later dump owes it is
\* never forgotten, though queues are full and senders fail.
RetractionRemembered ==
    Ordered => \A l \in Links :
        LET i == l[1]
            j == l[2]
        IN  (/\ routes[j][i].metric \in 0..(Infinity - 1)
             /\ net[l] = <<>> /\ session[i][j] = session[j][i]) => j \in advertised[i]

\* Whoever a chain of usable links and live sessions joins to an origin.
Reaches(i) ==
    LET step(S) == S \cup {n \in Router : \E j \in S : /\ j \in Neighbors[n] /\ linkCost[n][j] # Infinity
                                                       /\ session[n][j] = session[j][n]
                                                       /\ originate[j] \/ j \notin NoTransit}
        origins == {n \in Router : originate[n]}
    IN  i \in FoldSet(LAMBDA n, S : step(S), origins, Router)

\* In an ordered network, once nothing is in flight no two neighbors forward the
\* prefix to each other: a neighbor that had selected us stops immediately.
\* Refuted by the code: section 5 of the README.
NoQuietLoop ==
    Ordered /\ Quiet => \A i \in Router : \A j \in Neighbors[i] :
        ~(forwarding[i] = j /\ forwarding[j] = i)

\* A speaker left with unfeasible routes only asks for a new sequence number.
\* Refuted by the code: section 5 of the README.
StarvedAsks ==
    Ordered /\ Quiet => \A i \in Router :
        (/\ selected[i].via = Nobody
         /\ \E j \in Finite(routes[i], linkCost[i]) : ~Feasible(i, routes[i][j]))
        => \E r \in Router : retries[i][r].left > 0
=============================================================================
