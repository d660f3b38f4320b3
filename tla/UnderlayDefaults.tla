-------------------------- MODULE UnderlayDefaults --------------------------
(***************************************************************************)
(* The default route the daemon writes on an interface it does not own     *)
(* (internal/kernel/underlay_darwin.go, underlay_state_darwin.go), the     *)
(* socket that follows the host's default route (transport/underlay.go)    *)
(* and the reconciler that only captures the machine's traffic once the    *)
(* underlay is covered.  One address family.                               *)
(*                                                                         *)
(* Every call runs under one mutex, so a daemon is in at most one of them: *)
(* at says where, job on whose behalf.  Each system call is a step; the    *)
(* host may change its links, and the daemon may be killed, between any    *)
(* two.  Any of the calls may fail; saving the record is one of them.      *)
(***************************************************************************)
EXTENDS Naturals, FiniteSets

CONSTANTS
    Devs,       \* the physical interfaces
    Gws,        \* the next hops an interface may have
    None,       \* no interface, no route, no process
    Procs,      \* the daemons that may be started on this machine
    Flappers,   \* the interfaces that may go down and come back
    Changes,    \* bound: changes of the host's links
    Starts,     \* bound: times a daemon is started
    Faults      \* bound: system calls that fail

VARIABLES
    up,         \* the interfaces that are up
    gw,         \* the next hop of each interface's network
    primary,    \* the interface of the host's own unscoped default
    scoped,     \* the interface-scoped default of each interface, and its writer
    file,       \* the records in underlay.json
    lock,       \* the daemon holding underlay.json.lock
    port,       \* the daemon holding the UDP port
    at,         \* where each daemon is inside UnderlayDefaults
    job,        \* what it is doing there
    noticed,    \* Hub.follow: a link notification is waiting
    move,       \* Hub.follow: the step of moveUnderlay that comes next
    pass,       \* Reconciler.applyRoutes: what Ready has answered, or idle
    on,         \* UnderlayDefaults.on
    bound,      \* Hub.boundTo
    written,    \* UnderlayDefaults.written
    refused,    \* UnderlayDefaults.refused
    todo,       \* the records the running loop has left
    want,       \* the route ensure is writing
    held,       \* the route removeOne has read back and is about to delete
    failed,     \* the running call has an error to return
    covered,    \* UnderlayDefaults.covered
    capture,    \* a capturing route is out of the daemon's tun
    lapsed,     \* history: the records that a save, or the load of a start, lost
    intruded,   \* history: a daemon without the lock has saved a record
    stolen,     \* history: where a route that the system wrote has been deleted
    flapped,    \* history: the interfaces that went down under a route of ours
    fresh,      \* history: no link changed and no other daemon deleted a route
    settled,    \*   since the running pass began; since the last finished one did
    changes, starts, faults

host == <<up, gw, primary>>
self == <<at, job, noticed, move, pass, on, bound, written, refused, todo, want,
          held, failed, covered>>
disk == <<file, lapsed, intruded>>
ghost == <<flapped, fresh, settled>>
counts == <<changes, starts, faults>>
vars == <<host, scoped, disk, lock, port, self, capture, stolen, ghost, counts>>

Records == [dev: Devs, gw: Gws]
Routes == [gw: Gws, by: {"us", "system"}]

ASSUME UnderlayAssumption == None \notin Devs \cup Procs \cup Records \cup Routes

TypeOK ==
    /\ up \subseteq Devs /\ gw \in [Devs -> Gws] /\ primary \in up \cup {None}
    /\ scoped \in [Devs -> Routes \cup {None}]
    /\ file \cup lapsed \subseteq Records
    /\ {lock, port} \subseteq Procs \cup {None}
    /\ at \in [Procs -> {"off", "reclaim", "withdraw", "new", "ensure", "remove",
                         "delete", "forget", "write", "drop", "socket", "exit", "idle"}]
    /\ job \in [Procs -> {"open", "prepare", "pass", "settle", "close", "none"}]
    /\ noticed \in [Procs -> BOOLEAN] /\ move \in [Procs -> {"idle", "bind", "settle"}]
    /\ pass \in [Procs -> {"idle", "covered", "uncovered"}]
    /\ on \in [Procs -> Devs \cup {None}] /\ bound \in [Procs -> Devs \cup {None}]
    /\ \A p \in Procs: written[p] \cup refused[p] \cup todo[p] \subseteq Records
    /\ want \in [Procs -> Records \cup {None}] /\ held \in [Procs -> Records \cup {None}]
    /\ {failed[p] : p \in Procs} \cup {covered[p] : p \in Procs}
          \cup {capture[p] : p \in Procs} \subseteq BOOLEAN
    /\ stolen \cup flapped \subseteq Devs
    /\ intruded \in BOOLEAN /\ {fresh, settled} \subseteq [Procs -> BOOLEAN]
    /\ changes \in 0..Changes /\ starts \in 0..Starts /\ faults \in 0..Faults
    /\ \A d \in Devs \ up: scoped[d] = None
    /\ \A p \in Procs: at[p] = "off" => p \notin {lock, port} /\ ~capture[p]

Blank == [p \in Procs |-> None]

Init ==
    /\ up = Devs /\ gw \in [Devs -> Gws] /\ primary \in Devs
    /\ scoped = [d \in Devs |-> IF d = primary THEN None
                                ELSE [gw |-> gw[d], by |-> "system"]]
    /\ file = {} /\ lock = None /\ port = None
    /\ at = [p \in Procs |-> "off"] /\ job = [p \in Procs |-> "none"]
    /\ move = [p \in Procs |-> "idle"] /\ pass = [p \in Procs |-> "idle"]
    /\ on = Blank /\ bound = Blank /\ want = Blank /\ held = Blank
    /\ written = [p \in Procs |-> {}] /\ refused = written /\ todo = written
    /\ noticed = [p \in Procs |-> FALSE]
    /\ failed = noticed /\ covered = noticed /\ capture = noticed
    /\ lapsed = {} /\ intruded = FALSE /\ stolen = {} /\ flapped = {}
    /\ fresh = noticed /\ settled = noticed
    /\ changes = 0 /\ starts = 0 /\ faults = 0

----------------------------------------------------------------------------
(* The system.  It keeps a scoped default on every interface that is up    *)
(* but the primary, and none on the primary; a key that is already taken   *)
(* it leaves.  An interface going down loses its routes.                   *)

Reaction(u, g, d, q) ==
    IF d \in u /\ scoped[d] # None /\ scoped[d].by = "us" THEN scoped[d]
    ELSE IF d \in u \ {q} THEN [gw |-> g[d], by |-> "system"] ELSE None

LinkChange ==
    /\ changes < Changes
    /\ \E u \in SUBSET Devs, g \in [Devs -> Gws], q \in Devs \cup {None}:
         /\ \E d \in Devs: /\ \A e \in Devs \ {d}: g[e] = gw[e] /\ (e \in u <=> e \in up)
                           /\ (d \in u <=> d \in up) \/ d \in Flappers
         /\ q \in u \/ (q = None /\ u = {})
         /\ <<u, g, q>> # host
         /\ up' = u /\ gw' = g /\ primary' = q
         /\ scoped' = [d \in Devs |-> Reaction(u, g, d, q)]
    /\ flapped' = flapped \cup {d \in up \ up' : scoped[d] # None /\ scoped[d].by = "us"}
    /\ fresh' = [p \in Procs |-> FALSE] /\ settled' = fresh'
    /\ noticed' = [p \in Procs |-> at[p] # "off"]
    /\ changes' = changes + 1
    /\ UNCHANGED <<disk, lock, port, at, job, move, pass, on, bound, written, refused,
                   todo, want, held, failed, covered, capture, stolen, starts, faults>>

\* A system call fails.
Fails == faults < Faults /\ faults' = faults + 1

Fault == Fails /\ UNCHANGED <<changes, starts>>

----------------------------------------------------------------------------
(* What the daemon asks of the table.                                      *)

\* heldByKernel: a scoped default at that interface under that next hop.
HeldByKernel(r) == scoped[r.dev] # None /\ scoped[r.dev].gw = r.gw

\* reclaimable, of a record the kernel still holds.
Reclaimable(r) == primary = r.dev

\* withdraw: the delete names the destination, the scope and the interface.
Withdraw(p, r) ==
    /\ scoped' = [scoped EXCEPT ![r.dev] = None]
    /\ stolen' = stolen \cup {d \in {r.dev} : scoped[d] # None /\ scoped[d].by = "system"}
    /\ fresh' = [q \in Procs |-> fresh[q] /\ q = p]
    /\ settled' = [q \in Procs |-> settled[q] /\ q = p]

\* persist: both sets, in one atomic rename.  A save that fails leaves the file
\* as it was and is only reported.  Whether the daemon has the lock is not asked.
Persist(p) ==
    LET records == written'[p] \cup refused'[p] IN
    /\ \/ /\ file' = records /\ lapsed' = lapsed \ records
          /\ UNCHANGED counts
       \/ /\ Fault
          /\ lapsed' = lapsed \cup (records \ file) /\ UNCHANGED file
    /\ intruded' = (intruded \/ lock # p)

At(p, l) == at' = [at EXCEPT ![p] = l]
Do(p, j, l) == job' = [job EXCEPT ![p] = j] /\ At(p, l)

----------------------------------------------------------------------------
(* NewUnderlayDefaults.                                                    *)

\* lockState: whoever holds the lock keeps it, and a lock may not be had for
\* another reason.
lockState(p) ==
    \/ lock = None /\ lock' = p
    \/ UNCHANGED lock

\* A daemon without the lock reads no record.  A file that will not load is
\* taken for an empty one, and there is nothing to do about no records.
Start(p) ==
    /\ at[p] = "off" /\ starts < Starts
    /\ starts' = starts + 1
    /\ lockState(p)
    /\ \/ /\ IF lock' = p \/ lock # None THEN UNCHANGED faults ELSE Fails
          /\ todo' = [todo EXCEPT ![p] = IF lock' = p THEN file ELSE {}]
          /\ At(p, IF todo'[p] = {} THEN "new" ELSE "reclaim")
          /\ UNCHANGED lapsed
       \/ /\ lock' = p /\ Fails
          /\ At(p, "new")
          /\ lapsed' = lapsed \cup file /\ UNCHANGED todo
    /\ UNCHANGED <<host, noticed, scoped, file, intruded, port, job, move, pass, on, bound,
                   written, refused, want, held, failed, covered, capture, stolen, ghost,
                   changes>>

\* reclaim reads the table once for all the records: what has gone is forgotten,
\* what is not reclaimable is kept, the rest is to be deleted.  A table that
\* will not read keeps them all.
Reclaim(p) ==
    /\ at[p] = "reclaim"
    /\ At(p, "withdraw")
    /\ \/ /\ todo' = [todo EXCEPT ![p] = {r \in @ : HeldByKernel(r) /\ Reclaimable(r)}]
          /\ refused' = [refused EXCEPT
                            ![p] = {r \in todo[p] : HeldByKernel(r) /\ ~Reclaimable(r)}]
          /\ UNCHANGED counts
       \/ /\ Fault
          /\ todo' = [todo EXCEPT ![p] = {}]
          /\ refused' = [refused EXCEPT ![p] = todo[p]]
    /\ UNCHANGED <<host, noticed, scoped, disk, lock, port, job, move, pass, on, bound, written,
                   want, held, failed, covered, capture, stolen, ghost>>

\* Its deletes, by what that one reading said.
ReclaimOne(p) ==
    /\ at[p] = "withdraw"
    /\ \E r \in todo[p]:
         /\ todo' = [todo EXCEPT ![p] = @ \ {r}]
         /\ \/ Withdraw(p, r) /\ UNCHANGED <<refused, counts>>
            \/ /\ Fault
               /\ refused' = [refused EXCEPT ![p] = @ \cup {r}]
               /\ UNCHANGED <<scoped, stolen, fresh, settled>>
    /\ UNCHANGED <<host, noticed, disk, lock, port, at, job, move, pass, on, bound, written,
                   want, held, failed, covered, capture, flapped>>

Keep(p) ==
    /\ at[p] = "withdraw" /\ todo[p] = {}
    /\ At(p, "new")
    /\ UNCHANGED <<written, refused>> /\ Persist(p)
    /\ UNCHANGED <<host, noticed, scoped, lock, port, job, move, pass, on, bound, todo, want,
                   held, failed, covered, capture, stolen, ghost>>

\* NewHub: the interface of the host's default is prepared before the socket
\* exists; a host without one leaves the socket unbound.
Open(p) ==
    /\ at[p] = "new"
    /\ on' = [on EXCEPT ![p] = primary]
    /\ IF primary = None THEN At(p, "socket") /\ UNCHANGED job
       ELSE Do(p, "open", "ensure")
    /\ UNCHANGED <<host, noticed, scoped, disk, lock, port, move, pass, bound, written, refused,
                   todo, want, held, failed, covered, capture, stolen, ghost, counts>>

----------------------------------------------------------------------------
(* ensure, remove and removeOne, under the mutex.                          *)

\* What the caller of a finished call does next.  A Prepare that fails stops
\* NewHub, which closes everything, and stops a move; Ready only reports.
Return(p, err, answer) ==
    /\ failed' = [failed EXCEPT ![p] = FALSE]
    /\ IF job[p] = "open" /\ err
         THEN Do(p, "close", "remove") /\ todo' = [todo EXCEPT ![p] = written'[p]]
         ELSE /\ Do(p, "none", CASE job[p] = "open" -> "socket"
                                 [] job[p] = "close" -> "exit"
                                 [] OTHER -> "idle")
              /\ todo' = [todo EXCEPT ![p] = {}]
    /\ move' = CASE job[p] = "prepare" -> [move EXCEPT ![p] = IF err THEN "idle" ELSE "bind"]
                 [] job[p] = "settle" -> [move EXCEPT ![p] = "idle"]
                 [] OTHER -> move
    /\ pass' = IF job[p] # "pass" THEN pass
               ELSE [pass EXCEPT ![p] = IF answer THEN "covered" ELSE "uncovered"]

\* What of ours the kernel keys as it keys r.
SameKey(p, r) == {h \in written[p] : h.dev = r.dev}

\* The family's default leaves by the interface the socket is for, and the
\* kernel has the wanted route already, or everything of ours at that key has
\* to go first.  A table, a default or a name that will not read is an error.
Ensure(p) ==
    /\ at[p] = "ensure"
    /\ LET r == [dev |-> on[p], gw |-> gw[on[p]]]
           settles == primary # on[p] \/ HeldByKernel(r) IN
       \/ /\ settles
          /\ covered' = [covered EXCEPT ![p] = primary = on[p]]
          /\ UNCHANGED <<want, written, counts>> /\ Return(p, FALSE, primary = on[p])
       \/ /\ ~settles
          /\ covered' = [covered EXCEPT ![p] = FALSE]
          /\ want' = [want EXCEPT ![p] = r]
          /\ todo' = [todo EXCEPT ![p] = SameKey(p, r)]
          /\ At(p, "remove")
          /\ UNCHANGED <<job, move, pass, written, failed, counts>>
       \/ /\ Fault
          /\ covered' = [covered EXCEPT ![p] = FALSE]
          /\ UNCHANGED <<want, written>> /\ Return(p, TRUE, FALSE)
    /\ UNCHANGED <<host, noticed, scoped, disk, lock, port, on, bound, refused, held, capture,
                   stolen, ghost>>

\* removeOne reads the table: a route the kernel no longer holds as recorded is
\* left alone, and a table that will not read keeps the record.
RemoveOne(p) ==
    /\ at[p] = "remove"
    /\ \E r \in todo[p]:
         /\ todo' = [todo EXCEPT ![p] = @ \ {r}]
         /\ \/ /\ HeldByKernel(r)
               /\ held' = [held EXCEPT ![p] = r] /\ At(p, "delete")
               /\ UNCHANGED <<written, failed, counts>>
            \/ /\ ~HeldByKernel(r)
               /\ written' = [written EXCEPT ![p] = @ \ {r}] /\ At(p, "forget")
               /\ UNCHANGED <<held, failed, counts>>
            \/ /\ Fault
               /\ failed' = [failed EXCEPT ![p] = TRUE]
               /\ UNCHANGED <<held, written, at>>
    /\ UNCHANGED <<host, noticed, scoped, disk, lock, port, job, move, pass, on, bound, refused,
                   want, covered, capture, stolen, ghost>>

\* Its delete; one that fails keeps the record.
Delete(p) ==
    /\ at[p] = "delete"
    /\ held' = [held EXCEPT ![p] = None]
    /\ \/ /\ Withdraw(p, held[p])
          /\ written' = [written EXCEPT ![p] = @ \ {held[p]}] /\ At(p, "forget")
          /\ UNCHANGED <<failed, counts>>
       \/ /\ Fault
          /\ failed' = [failed EXCEPT ![p] = TRUE] /\ At(p, "remove")
          /\ UNCHANGED <<scoped, stolen, fresh, settled, written>>
    /\ UNCHANGED <<host, noticed, disk, lock, port, job, move, pass, on, bound, refused, todo,
                   want, covered, capture, flapped>>

\* The rest of removeOne: the record leaves the file once the route has gone.
Forget(p) ==
    /\ at[p] = "forget"
    /\ At(p, "remove")
    /\ UNCHANGED <<written, refused>> /\ Persist(p)
    /\ UNCHANGED <<host, noticed, scoped, lock, port, job, move, pass, on, bound, todo, want,
                   held, failed, covered, capture, stolen, ghost>>

\* Mutant: the record is only written down later.
RemovedUnrecorded(p) ==
    /\ at[p] = "remove" /\ todo[p] = {}
    /\ IF job[p] \in {"settle", "close"} \/ failed[p]
         THEN UNCHANGED written /\ Return(p, failed[p], FALSE)
         ELSE /\ written' = [written EXCEPT ![p] = @ \cup {want[p]}]
              /\ At(p, "write")
              /\ UNCHANGED <<job, move, pass, todo, failed>>
    /\ UNCHANGED <<host, noticed, scoped, disk, lock, port, on, bound, refused, want, held,
                   covered, capture, stolen, ghost, counts>>

\* The removals are done.  ensure records the route before writing it.
Removed(p) ==
    /\ at[p] = "remove" /\ todo[p] = {}
    /\ UNCHANGED refused
    /\ IF job[p] \in {"settle", "close"} \/ failed[p]
         THEN UNCHANGED <<written, disk, counts>> /\ Return(p, failed[p], FALSE)
         ELSE /\ written' = [written EXCEPT ![p] = @ \cup {want[p]}] /\ Persist(p)
              /\ At(p, "write")
              /\ UNCHANGED <<job, move, pass, todo, failed>>
    /\ UNCHANGED <<host, noticed, scoped, lock, port, on, bound, want, held, covered, capture,
                   stolen, ghost>>

\* write: an add over a taken key answers EEXIST, which covers the family and
\* owns nothing.
Write(p) ==
    /\ at[p] = "write"
    /\ LET d == want[p].dev IN
       \/ /\ d \in up /\ scoped[d] = None
          /\ scoped' = [scoped EXCEPT ![d] = [gw |-> want[p].gw, by |-> "us"]]
          /\ covered' = [covered EXCEPT ![p] = TRUE]
          /\ UNCHANGED written /\ Return(p, FALSE, TRUE)
          /\ UNCHANGED counts
       \/ /\ scoped[d] # None
          /\ covered' = [covered EXCEPT ![p] = TRUE]
          /\ At(p, "drop")
          /\ UNCHANGED <<scoped, job, move, pass, written, todo, failed, counts>>
       \/ /\ IF d \in up THEN Fault ELSE UNCHANGED counts
          /\ failed' = [failed EXCEPT ![p] = TRUE]
          /\ At(p, "drop")
          /\ UNCHANGED <<scoped, covered, job, move, pass, written, todo>>
    /\ UNCHANGED <<host, noticed, disk, lock, port, on, bound, refused, want, held, capture, stolen,
                   ghost>>

\* The add failed, or the key was taken: the record goes again.
Drop(p) ==
    /\ at[p] = "drop"
    /\ written' = [written EXCEPT ![p] = @ \ {want[p]}]
    /\ UNCHANGED refused /\ Persist(p)
    /\ Return(p, failed[p], covered[p])
    /\ UNCHANGED <<host, noticed, scoped, lock, port, on, bound, want, held, covered, capture,
                   stolen, ghost>>

----------------------------------------------------------------------------
(* The socket: NewHub and Hub.follow.                                      *)

\* openPacketBind; a daemon that finds the port taken closes what it opened.
\* The Settle after it finds nothing, since only Prepare has run.
Socket(p) ==
    /\ at[p] = "socket"
    /\ IF port = None
         THEN /\ port' = p /\ bound' = [bound EXCEPT ![p] = on[p]]
              /\ At(p, "idle") /\ UNCHANGED <<job, todo>>
         ELSE /\ Do(p, "close", "remove")
              /\ todo' = [todo EXCEPT ![p] = written[p]]
              /\ UNCHANGED <<port, bound>>
    /\ UNCHANGED <<host, noticed, scoped, disk, lock, move, pass, on, written, refused, want, held,
                   failed, covered, capture, stolen, ghost, counts>>

\* A link notification: moveUnderlay prepares the interface, whether or not
\* it is the one the socket is on.  A host between two networks has no default
\* and the socket is left where it is.
Prepare(p) ==
    /\ at[p] = "idle" /\ move[p] = "idle" /\ noticed[p]
    /\ noticed' = [noticed EXCEPT ![p] = FALSE]
    /\ IF primary = None THEN UNCHANGED <<on, at, job>>
       ELSE on' = [on EXCEPT ![p] = primary] /\ Do(p, "prepare", "ensure")
    /\ UNCHANGED <<host, scoped, disk, lock, port, move, pass, bound, written, refused,
                   todo, want, held, failed, covered, capture, stolen, ghost, counts>>

\* bindUnderlayTo, outside the mutex.  A bind that fails leaves the socket on
\* no interface and ends the move.
Bind(p) ==
    /\ at[p] # "off" /\ move[p] = "bind"
    /\ \/ /\ bound' = [bound EXCEPT ![p] = on[p]]
          /\ move' = [move EXCEPT ![p] = "settle"]
          /\ UNCHANGED counts
       \/ /\ bound[p] # on[p] /\ Fault
          /\ bound' = [bound EXCEPT ![p] = None]
          /\ move' = [move EXCEPT ![p] = "idle"]
    /\ UNCHANGED <<host, noticed, scoped, disk, lock, port, at, job, pass, on, written, refused,
                   todo, want, held, failed, covered, capture, stolen, ghost>>

Settle(p) ==
    /\ at[p] = "idle" /\ move[p] = "settle"
    /\ todo' = [todo EXCEPT ![p] = {h \in written[p] : h.dev # on[p]}]
    /\ Do(p, "settle", "remove")
    /\ UNCHANGED <<host, noticed, scoped, disk, lock, port, move, pass, on, bound, written,
                   refused, want, held, failed, covered, capture, stolen, ghost, counts>>

----------------------------------------------------------------------------
(* The reconciler: one pass that wants a capturing route, or none.         *)

Ready(p) ==
    /\ at[p] = "idle" /\ pass[p] = "idle"
    /\ fresh' = [fresh EXCEPT ![p] = TRUE]
    /\ IF on[p] = None
         THEN /\ pass' = [pass EXCEPT ![p] = "uncovered"]
              /\ UNCHANGED <<at, job>>
         ELSE Do(p, "pass", "ensure") /\ UNCHANGED pass
    /\ UNCHANGED <<host, noticed, scoped, disk, lock, port, move, on, bound, written, refused,
                   todo, want, held, failed, covered, capture, stolen, flapped, settled,
                   counts>>

\* applyRoutes after covered(): the capturing route is in the kernel exactly
\* when its family was covered when Ready answered.
Apply(p) ==
    /\ pass[p] # "idle"
    /\ pass' = [pass EXCEPT ![p] = "idle"]
    /\ capture' = [capture EXCEPT ![p] = pass[p] = "covered"]
    /\ settled' = [settled EXCEPT ![p] = fresh[p]]
    /\ UNCHANGED <<host, noticed, scoped, disk, lock, port, at, job, move, on, bound, written,
                   refused, todo, want, held, failed, covered, stolen, flapped, fresh,
                   counts>>

\* A pass that wants no capturing route, or the reconciler's withdrawal.
Uncapture(p) ==
    /\ at[p] # "off" /\ pass[p] = "idle" /\ capture[p]
    /\ capture' = [capture EXCEPT ![p] = FALSE]
    /\ UNCHANGED <<host, scoped, disk, lock, port, self, stolen, ghost, counts>>

----------------------------------------------------------------------------
(* The end of a daemon.                                                    *)

Clear(p) ==
    /\ on' = [on EXCEPT ![p] = None] /\ bound' = [bound EXCEPT ![p] = None]
    /\ want' = [want EXCEPT ![p] = None] /\ held' = [held EXCEPT ![p] = None]
    /\ written' = [written EXCEPT ![p] = {}] /\ refused' = [refused EXCEPT ![p] = {}]
    /\ todo' = [todo EXCEPT ![p] = {}]
    /\ failed' = [failed EXCEPT ![p] = FALSE] /\ covered' = [covered EXCEPT ![p] = FALSE]
    /\ capture' = [capture EXCEPT ![p] = FALSE]
    /\ noticed' = [noticed EXCEPT ![p] = FALSE]
    /\ move' = [move EXCEPT ![p] = "idle"] /\ pass' = [pass EXCEPT ![p] = "idle"]
    /\ port' = (IF port = p THEN None ELSE port)
    /\ lock' = (IF lock = p THEN None ELSE lock)
    /\ Do(p, "none", "off")

\* Close reads the table once more before it takes the fallback away.
captureHeld(p) == capture[p]

\* Client.Close: the hub first, then the routes, which stay while a capture
\* is still out of the tun or the table will not say.
Close(p) ==
    /\ at[p] = "idle"
    /\ bound' = [bound EXCEPT ![p] = None]
    /\ port' = (IF port = p THEN None ELSE port)
    /\ move' = [move EXCEPT ![p] = "idle"]
    /\ \/ /\ captureHeld(p) /\ At(p, "exit")
          /\ UNCHANGED <<job, todo, counts>>
       \/ /\ ~captureHeld(p) /\ Do(p, "close", "remove")
          /\ todo' = [todo EXCEPT ![p] = written[p]]
          /\ UNCHANGED counts
       \/ /\ Fault /\ At(p, "exit")
          /\ UNCHANGED <<job, todo>>
    /\ UNCHANGED <<host, noticed, scoped, disk, lock, pass, on, written, refused, want, held, failed,
                   covered, capture, stolen, ghost>>

\* The socket and the lock go, and the tun with what was routed out of it.
Exit(p) ==
    /\ at[p] = "exit"
    /\ Clear(p)
    /\ UNCHANGED <<host, scoped, disk, stolen, ghost, counts>>

\* The daemon is killed where it stands.
Kill(p) ==
    /\ at[p] # "off"
    /\ Clear(p)
    /\ UNCHANGED <<host, scoped, disk, stolen, ghost, counts>>

Next ==
    \/ LinkChange
    \/ \E p \in Procs:
         \/ Start(p) \/ Reclaim(p) \/ ReclaimOne(p) \/ Keep(p) \/ Open(p)
         \/ Ensure(p) \/ RemoveOne(p) \/ Delete(p) \/ Forget(p) \/ Removed(p) \/ Write(p) \/ Drop(p)
         \/ Socket(p) \/ Prepare(p) \/ Bind(p) \/ Settle(p)
         \/ Ready(p) \/ Apply(p) \/ Uncapture(p)
         \/ Close(p) \/ Exit(p) \/ Kill(p)

Spec == Init /\ [][Next]_vars

----------------------------------------------------------------------------
(* Properties.                                                             *)

\* Every scoped default the daemon put in the kernel is in the file, at every
\* instant: whichever system call it is killed after, the next start has a
\* record to reclaim the route with.  Two things lose a record: a save or a load
\* that fails, and a daemon that saves its own without holding the lock.
Recorded ==
    ~intruded =>
        \A d \in Devs:
            scoped[d] # None /\ scoped[d].by = "us"
                => [dev |-> d, gw |-> scoped[d].gw] \in file \cup lapsed

\* A daemon past its reclaim knows of every such route: it wrote it, or it
\* refused to delete it.  A route nobody answers for stays for good, and only
\* the same two things make one.
Accounted ==
    ~intruded =>
        \A d \in Devs, p \in Procs:
            /\ scoped[d] # None /\ scoped[d].by = "us"
            /\ lock = p /\ at[p] \notin {"reclaim", "withdraw"}
            => [dev |-> d, gw |-> scoped[d].gw] \in written[p] \cup refused[p] \cup lapsed

\* A delete takes a route the system wrote (underlay_darwin.go:58) only at an
\* interface that had gone down under a route of ours, or after a daemon without
\* the lock has saved its records.
OnlyOurs == ~intruded => stolen \subseteq flapped

\* With the links at rest since a pass began and no route deleted by another
\* daemon, a capture is in the kernel only while the interface the socket is to
\* be on has a scoped default under its network's next hop (capture.go:68), or
\* one that an earlier run left there.
CaptureBacked ==
    \A p \in Procs:
        /\ capture[p] /\ settled[p] /\ at[p] = "idle"
        => LET d == on[p] IN
           /\ d # None /\ scoped[d] # None
           /\ \/ scoped[d].gw = gw[d]
              \/ scoped[d].by = "us" /\ [dev |-> d, gw |-> scoped[d].gw] \notin written[p]

\* A daemon that does not hold the lock leaves the record of the one that does
\* as it is (underlay_darwin.go:161).
\* Refuted by the code: section 5 of the README.
RecordKept ==
    [][\A p \in Procs: lock # None /\ lock # p /\ at'[p] # at[p] => file' = file]_vars
=============================================================================
