------------------------------- MODULE Dialing -------------------------------
(***************************************************************************)
(* The dialers of a client and their life cycle: syncPeers and runPeer,    *)
(* reloads of the configuration and the trust document, the redial verb    *)
(* and shutdown (internal/client reload.go, peer.go, client.go, write.go). *)
(*                                                                         *)
(* A dialer is a goroutine; c.dialers holds the current one of each path.  *)
(* c.dialersMu is a variable, because what a goroutine checks under it and *)
(* what it then does are steps of their own.  Reloads run in two           *)
(* goroutines, the signal handler's and the control socket's.              *)
(***************************************************************************)
EXTENDS Integers, FiniteSets

CONSTANTS
    Paths,       \* pairs of a peer and a local endpoint
    Loops,       \* names of dialer goroutines, used again when one is gone
    Reloaders,   \* goroutines that reload
    Edits,       \* bound: how often the files change
    Redials      \* bound: redial verbs

DialingAssumption ==
    /\ IsFiniteSet(Paths) /\ IsFiniteSet(Reloaders) /\ Loops \subseteq Nat \ {0}
    /\ "none" \notin Paths /\ Reloaders \cap {"run", "free"} = {}
    /\ Edits \in Nat /\ Redials \in Nat

None == 0
Starter == "run"                     \* Run's own call of syncPeers
Syncers == Reloaders \cup {Starter}
Documents == [to : SUBSET Paths, all : BOOLEAN, nodes : SUBSET Paths, from : 0..Edits]

VARIABLES
    disk,        \* the two files, numbered by edit
    cfg, reg,    \* c.cfg and c.reg, with the edit each was read from
    read,        \* what each reload has read
    at,          \* how far each caller of syncPeers has come
    mutex,       \* c.dialersMu
    peers,       \* syncPeers' peers, computed by the holder of the lock
    dialers,     \* c.dialers
    loop,        \* the dialer goroutines
    run,         \* how far Run has come
    stopped,     \* c.stopped
    redials,     \* redial verbs left
    asked        \* history: dialers woken that have not begun an attempt since

vars == <<disk, cfg, reg, read, at, mutex, peers, dialers, loop, run, stopped, redials, asked>>

Gone == [path |-> "none", at |-> "gone", cancelled |-> FALSE, wake |-> FALSE]
Started(p) == [path |-> p, at |-> "check", cancelled |-> FALSE, wake |-> FALSE]

Init ==
    /\ disk \in {d \in Documents : d.from = 0}
    /\ cfg = [to |-> disk.to, all |-> disk.all, from |-> 0] /\ reg = [nodes |-> disk.nodes, from |-> 0]
    /\ read = [r \in Reloaders |-> disk]
    /\ at = [r \in Syncers |-> IF r = Starter THEN "sync" ELSE "idle"]
    /\ mutex = "free" /\ peers = {} /\ dialers = [p \in Paths |-> None] /\ loop = [d \in Loops |-> Gone]
    /\ run = "running" /\ stopped = FALSE /\ redials = Redials /\ asked = {}

\* The operator rewrites the files; a node joins or leaves the mesh.
Edit ==
    /\ disk.from < Edits
    /\ disk' \in {d \in Documents : d.from = disk.from + 1}
    /\ UNCHANGED <<cfg, reg, read, at, mutex, peers, dialers, loop, run, stopped, redials, asked>>

-----------------------------------------------------------------------------
(* ReloadFrom.                                                             *)

Load(r) ==
    /\ at[r] = "idle" /\ read' = [read EXCEPT ![r] = disk] /\ at' = [at EXCEPT ![r] = "registry"]
    /\ disk.from > 0
    /\ UNCHANGED <<disk, cfg, reg, mutex, peers, dialers, loop, run, stopped, redials, asked>>

StoreRegistry(r) ==
    /\ at[r] = "registry" /\ at' = [at EXCEPT ![r] = "config"]
    /\ reg' = [nodes |-> read[r].nodes, from |-> read[r].from]
    /\ UNCHANGED <<disk, cfg, read, mutex, peers, dialers, loop, run, stopped, redials, asked>>

StoreConfig(r) ==
    /\ at[r] = "config" /\ at' = [at EXCEPT ![r] = "sync"]
    /\ cfg' = [to |-> read[r].to, all |-> read[r].all, from |-> read[r].from]
    /\ UNCHANGED <<disk, reg, read, mutex, peers, dialers, loop, run, stopped, redials, asked>>

-----------------------------------------------------------------------------
(* syncPeers.                                                              *)

\* effectivePeers.
Wanted == cfg.to \cup (IF cfg.all THEN reg.nodes ELSE {})

Cancelled == run # "running"         \* c.ctx

\* Under the lock: who is to be dialled, as the configuration and the registry
\* say now, and nothing is started once the node is stopping.
SyncWith(r, wanted) ==
    /\ at[r] = "sync" /\ mutex = "free"
    /\ IF stopped \/ Cancelled
       THEN at' = [at EXCEPT ![r] = "idle"] /\ UNCHANGED <<mutex, peers>>
       ELSE at' = [at EXCEPT ![r] = "start"] /\ mutex' = r /\ peers' = wanted
    /\ UNCHANGED <<disk, cfg, reg, read, dialers, loop, run, stopped, redials, asked>>

\* Mutant: the set is computed from what this reload read.
SyncStale(r) == SyncWith(r, IF r = Starter THEN Wanted
    ELSE read[r].to \cup (IF read[r].all THEN read[r].nodes ELSE {}))

SyncEnter(r) == SyncWith(r, Wanted)

Idle == {d \in Loops : loop[d].at = "gone"}
Starting == {p \in peers : dialers[p] = None}

\* Start what is wanted and not running, cancel and forget what is not wanted.
\* The goroutines that start are numbered from the unused names.
Sync(r) ==
    /\ at[r] = "start" /\ at' = [at EXCEPT ![r] = "idle"]
    /\ mutex' = "free" /\ peers' = {}
    /\ \E new \in [Starting -> Idle] :
        /\ \A p, q \in Starting : p # q => new[p] # new[q]
        /\ \A d \in Idle, p \in Starting : d < new[p] => \E q \in Starting : new[q] = d
        /\ dialers' = [p \in Paths |-> IF p \in Starting THEN new[p]
                                       ELSE IF p \in peers THEN dialers[p] ELSE None]
        /\ loop' = [d \in Loops |->
               IF \E p \in Starting : new[p] = d
               THEN Started(CHOOSE p \in Starting : new[p] = d)
               ELSE IF \E p \in Paths \ peers : dialers[p] = d
               THEN [loop[d] EXCEPT !.cancelled = TRUE] ELSE loop[d]]
    /\ UNCHANGED <<disk, cfg, reg, read, run, stopped, redials, asked>>

-----------------------------------------------------------------------------
(* runPeer.                                                                *)

Ends(d) == loop[d].cancelled \/ Cancelled
Goto(d, where) == loop' = [loop EXCEPT ![d].at = where]

\* The context, then whether the registry names the node.
Check(d) ==
    /\ loop[d].at = "check"
    /\ Goto(d, IF Ends(d) \/ loop[d].path \notin reg.nodes THEN "leaving" ELSE "dialing")
    /\ asked' = asked \ {d}
    /\ UNCHANGED <<disk, cfg, reg, read, at, mutex, peers, dialers, run, stopped, redials>>

\* connectPeer returns: no answer, another session, or a session that ended.
Return(d) ==
    /\ loop[d].at = "dialing" /\ mutex = "free"
    /\ Goto(d, IF Ends(d) \/ stopped THEN "leaving" ELSE "waiting")
    /\ UNCHANGED <<disk, cfg, reg, read, at, mutex, peers, dialers, run, stopped, redials, asked>>

Woken(d) ==
    /\ loop[d].at = "waiting" /\ loop[d].wake
    /\ loop' = [loop EXCEPT ![d].at = "check", ![d].wake = FALSE]
    /\ UNCHANGED <<disk, cfg, reg, read, at, mutex, peers, dialers, run, stopped, redials, asked>>

Timer(d) ==
    /\ loop[d].at = "waiting" /\ Goto(d, "check")
    /\ UNCHANGED <<disk, cfg, reg, read, at, mutex, peers, dialers, run, stopped, redials, asked>>

Abort(d) ==
    /\ loop[d].at = "waiting" /\ Ends(d) /\ Goto(d, "leaving")
    /\ UNCHANGED <<disk, cfg, reg, read, at, mutex, peers, dialers, run, stopped, redials, asked>>

\* forgetDialer, and the WaitGroup's Done.
Forget(d) ==
    /\ loop[d].at = "leaving" /\ mutex = "free"
    /\ dialers' = [p \in Paths |-> IF dialers[p] = d THEN None ELSE dialers[p]]
    /\ loop' = [loop EXCEPT ![d] = Gone]
    /\ asked' = asked \ {d}
    /\ UNCHANGED <<disk, cfg, reg, read, at, mutex, peers, run, stopped, redials>>

-----------------------------------------------------------------------------
(* Redial and Run.                                                         *)

\* wakeDialers: one place in the channel.
Wake(p) ==
    /\ redials > 0 /\ mutex = "free" /\ dialers[p] # None /\ redials' = redials - 1
    /\ loop' = [loop EXCEPT ![dialers[p]].wake = TRUE]
    /\ asked' = asked \cup {dialers[p]}
    /\ UNCHANGED <<disk, cfg, reg, read, at, mutex, peers, dialers, run, stopped>>

\* The AfterFunc of Run's context stops the dialers before it cancels.
StopEarly ==
    /\ mutex = "free" /\ ~stopped /\ stopped' = TRUE
    /\ UNCHANGED <<disk, cfg, reg, read, at, mutex, peers, dialers, loop, run, redials, asked>>

\* c.cancel, by that AfterFunc, by Close, or because the speaker ended.
Cancel ==
    /\ run = "running" /\ run' = "cancelled"
    /\ UNCHANGED <<disk, cfg, reg, read, at, mutex, peers, dialers, loop, stopped, redials, asked>>

\* stopDialers, after which Run waits for every dialer.
StopDialers ==
    /\ run = "cancelled" /\ at[Starter] = "idle" /\ mutex = "free"
    /\ run' = "waiting" /\ stopped' = TRUE
    /\ UNCHANGED <<disk, cfg, reg, read, at, mutex, peers, dialers, loop, redials, asked>>

RunReturns ==
    /\ run = "waiting" /\ (\A d \in Loops : loop[d].at = "gone") /\ run' = "returned"
    /\ UNCHANGED <<disk, cfg, reg, read, at, mutex, peers, dialers, loop, stopped, redials, asked>>

-----------------------------------------------------------------------------
Reloading(r) == StoreRegistry(r) \/ StoreConfig(r)
Syncing(r) == SyncEnter(r) \/ Sync(r)
Running(d) == Check(d) \/ Return(d) \/ Woken(d) \/ Abort(d) \/ Forget(d)

Next ==
    \/ Edit \/ StopEarly \/ Cancel \/ StopDialers \/ RunReturns
    \/ \E r \in Reloaders : Load(r) \/ Reloading(r)
    \/ \E r \in Syncers : Syncing(r)
    \/ \E d \in Loops : Running(d) \/ Timer(d)
    \/ \E p \in Paths : Wake(p)

Spec == Init /\ [][Next]_vars

-----------------------------------------------------------------------------
(* Properties.                                                             *)

TypeOK ==
    /\ disk \in Documents /\ cfg \in [to : SUBSET Paths, all : BOOLEAN, from : 0..Edits]
    /\ reg \in [nodes : SUBSET Paths, from : 0..Edits] /\ read \in [Reloaders -> Documents]
    /\ at \in [Syncers -> {"idle", "registry", "config", "sync", "start"}]
    /\ mutex \in Syncers \cup {"free"} /\ peers \subseteq Paths /\ dialers \in [Paths -> Loops \cup {None}]
    /\ loop \in [Loops -> [path : Paths \cup {"none"}, cancelled : BOOLEAN, wake : BOOLEAN,
                           at : {"check", "dialing", "waiting", "leaving", "gone"}]]
    /\ run \in {"running", "cancelled", "waiting", "returned"} /\ stopped \in BOOLEAN
    /\ redials \in 0..Redials /\ asked \subseteq Loops

\* c.dialers holds exactly the dialers nobody has cancelled: a path is never
\* dialled twice, and an entry never outlives its goroutine.
OneDialer ==
    \A p \in Paths :
        {d \in Loops : loop[d].path = p /\ ~loop[d].cancelled} = {dialers[p]} \ {None}

Reloaded == \A r \in Syncers : at[r] = "idle"

\* Once every reload has returned, a running node dials nobody its
\* configuration does not name, however the reloads overlapped.
OnlyWanted ==
    Reloaded /\ run = "running" /\ ~stopped => \A p \in Paths \ Wanted : dialers[p] = None

\* No dialer is about to start when Run has begun to wait for them all.
NoLateStart ==
    run \in {"waiting", "returned"} => \A r \in Syncers : at[r] # "start"

\* However the reloads overlapped, once they have returned a running node dials
\* nobody its configuration does not name; c.dialers holds exactly the dialers
\* nobody has cancelled, so that no path is dialled twice; and no dialer is about
\* to start when Run has begun to wait for them all.
DialersExact == TypeOK /\ OneDialer /\ OnlyWanted /\ NoLateStart

\* When no reload is running, the configuration and the registry are of one
\* reading (client.go: "every reader sees one consistent pair").
\* Refuted by the code: section 5 of the README.
ConsistentPair == Reloaded => cfg.from = reg.from

\* A node that the configuration and the registry name, with no reload to come,
\* is dialled (runPeer: "the next reload starts a new one").
\* Refuted by the code: section 5 of the README.
KnownIsDialed ==
    \A p \in Paths :
        <>[](Reloaded /\ run = "running" /\ ~stopped /\ p \in Wanted \cap reg.nodes)
            => []<>(dialers[p] # None)
=============================================================================
