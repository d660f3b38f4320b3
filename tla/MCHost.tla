------------------------------- MODULE MCHost -------------------------------
(***************************************************************************)
(* What the daemon keeps on its host, for TLC: the kernel's routes, the    *)
(* scoped defaults of the underlay, its control socket and the             *)
(* announcement of the exit.  They share no state, so each behaviour is    *)
(* one of a single part, which Init picks, and the others rest:            *)
(*   reloads    the egress translator under overlapping reloads, on a host *)
(*              that somebody else changes                                 *)
(*   routes     the reconciler, whose calls may fail twice                 *)
(*   stopped    the same, stopped and started over the control socket,     *)
(*              where a call may fail once                                 *)
(*   underlay   a daemon that is killed and started again, on interfaces   *)
(*              that go down and move, one call of which may fail          *)
(*   cover      one daemon that meets more changes                         *)
(*   pair       two daemons, of which one at most has the record's lock    *)
(*   socket     two daemons on one control socket, four starts             *)
(* Interfaces and next hops are interchangeable.                           *)
(***************************************************************************)
EXTENDS UnderlayDefaults, TLC

CONSTANTS Free, Foreign

VARIABLES
    part,
    rules, forwards, egressAt, egressSeen, announced, published, took, cfg, reload, mine, heard,
    originated, overtaken, egressCanceled, egressFresh, egressChanges, egressFaults,
    mesh, live, fib, routesAt, del, add, routesFailed, seen, open, idle, capturing, backoff,
    sweep, retry, grace, wake, enabled, withdrawn, left, canceled, quiet, due, routesFaults,
    path, socketLock, put, daemonAt, listening, closing, unlinked, conns, places, socketStarts,
    socketFaults

egressVars == <<rules, forwards, egressAt, egressSeen, announced, published, took, cfg, reload,
                mine, heard, originated, overtaken, egressCanceled, egressFresh, egressChanges,
                egressFaults>>
routesVars == <<mesh, live, fib, routesAt, del, add, routesFailed, seen, open, idle, capturing,
                backoff, sweep, retry, grace, wake, enabled, withdrawn, left, canceled, quiet, due,
                routesFaults>>
socketVars == <<path, socketLock, put, daemonAt, listening, closing, unlinked, conns, places,
                socketStarts, socketFaults>>

Reloads == INSTANCE Egress WITH
    at <- egressAt, seen <- egressSeen, canceled <- egressCanceled, fresh <- egressFresh,
    changes <- egressChanges, faults <- egressFaults, Families <- {"v4", "v6"},
    Reloaders <- {"hup", "ctl"}, Edits <- 2, Changes <- 1, Faults <- 1
Kernel == INSTANCE Reconciler WITH
    at <- routesAt, failed <- routesFailed, faults <- routesFaults, Routes <- {"cap", "own"},
    Captures <- {"cap"}, Grace <- 2, Sweep <- 3, Faults <- 2
Control == INSTANCE ControlSocket WITH
    lock <- socketLock, at <- daemonAt, Daemons <- {"d1", "d2"}, Clients <- {"c1", "c2"},
    maxConnections <- 1, SocketStarts <- 4, SocketFaults <- 1

ASSUME Kernel!ReconcilerAssumption /\ Control!SocketAssumption

Symmetry == UNION {Permutations(S) : S \in {Devs, Gws}}

\* What may happen in each part of the underlay, within the bounds of the cfg.
Bounded ==
    /\ part # "pair" => at'["d2"] = "off"
    /\ part = "underlay" => changes' <= 2 /\ starts' <= 2
    /\ part = "cover" => starts' <= 1 /\ faults' = 0
    /\ part = "pair" => changes' = 0 /\ faults' = 0

MCInit ==
    /\ part \in {"reloads", "routes", "stopped", "underlay", "cover", "pair", "socket"}
    /\ Reloads!Init /\ Kernel!Init /\ Init /\ Control!Init
    /\ part # "socket" => ~put
    /\ part # "reloads" => rules = {} /\ forwards = {}
    /\ part \notin {"routes", "stopped"} => mesh = {} /\ fib = {} /\ ~live
    /\ part \notin {"underlay", "cover", "pair"} =>
           primary = (CHOOSE d \in Devs : TRUE) /\ gw = [d \in Devs |-> CHOOSE g \in Gws : TRUE]

MCNext ==
    /\ UNCHANGED part
    /\ \/ part = "reloads" /\ Reloads!Next /\ UNCHANGED <<routesVars, vars, socketVars>>
       \/ part \in {"routes", "stopped"} /\ Kernel!Next
                         /\ (IF part = "routes" THEN enabled' ELSE routesFaults' <= 1)
                         /\ UNCHANGED <<egressVars, vars, socketVars>>
       \/ part \in {"underlay", "cover", "pair"} /\ Next /\ Bounded
                         /\ UNCHANGED <<egressVars, routesVars, socketVars>>
       \/ part = "socket" /\ Control!Next /\ UNCHANGED <<egressVars, routesVars, vars>>

MCSpec == MCInit /\ [][MCNext]_<<part, egressVars, routesVars, vars, socketVars>>

----------------------------------------------------------------------------
\* With a pass and every reload finished, the speaker originates no exit prefix
\* this node cannot carry, unless the last to tell it was a reload that read the
\* announcement before the translator changed it and spoke after.
PromiseKept == part = "reloads" => Reloads!TypeOK /\ Reloads!PromiseKept

\* A route that takes the machine's own traffic leaves the kernel no later than
\* the grace after the last session stopped being live, plus the retries that
\* failed calls cost, and is back within a sweep of the first live session.  A
\* reconciler that waits with nothing pending has the kernel at what its sample
\* lets the mesh install, and one that acted on a stop holds nothing in it; a
\* stop whose withdrawal failed is the exception to the first and the last, as
\* nothing tries it again.  With the links at rest since a pass began and no
\* route deleted by another daemon, a capture is in the kernel only while the
\* interface the socket is to be on has a scoped default under its network's
\* next hop (capture.go:68), or one that an earlier run left there.
CaptureBounded ==
    /\ part \in {"routes", "stopped"} =>
           /\ Kernel!TypeOK /\ Kernel!CaptureBounded /\ Kernel!StoppedEmpty
           /\ Kernel!Restored /\ Kernel!InStep
    /\ CaptureBacked

\* That, and whose things they are.  A daemon past its reclaim knows of every scoped
\* default it wrote that is in the kernel: it wrote it, or it refused to delete it,
\* or a save or a load that failed lost the record.  A delete takes a route the
\* system wrote (underlay_darwin.go:58) only where an interface went down under a
\* route of ours.  Both hold until a daemon without the lock saves its records.  A
\* daemon that listens on the control socket holds its lock and the path names its
\* own socket, what a killed one left there refuses no start, and the connections
\* open are the places taken (control/server.go:45).
HostKept ==
    /\ CaptureBounded
    /\ part \in {"underlay", "cover", "pair"} => TypeOK /\ Accounted /\ OnlyOurs
    /\ part = "socket" =>
           Control!TypeOK /\ Control!OneOwner /\ Control!StaleOnly /\ Control!PlacesKept
=============================================================================
