----------------------------- MODULE Reconciler -----------------------------
(***************************************************************************)
(* The kernel reconciler's loop (internal/kernel/kernel.go Run, reconcile, *)
(* applyRoutes, withdraw) and the gate over the routes that would take     *)
(* this machine's own traffic (capture.go): what wakes a pass, what a pass *)
(* installs, how long a capture may outlive the sessions behind it, and    *)
(* the stop and start of the control socket.                               *)
(*                                                                         *)
(* Time is counted in units that a pass is short against: a pass runs      *)
(* between two ticks and a timer that is due starts one before the next.   *)
(***************************************************************************)
EXTENDS Integers, FiniteSets

CONSTANTS
    Routes,    \* what the mesh may hold
    Captures,  \* the ones that carry the machine's own traffic
    Grace,     \* cap.table capture_grace
    Sweep,     \* cap.table reconcile
    Faults     \* bound: calls of the platform that fail

ReconcilerAssumption == Captures \subseteq Routes /\ Grace > 0 /\ Sweep > 0

VARIABLES
    mesh,       \* the forwarding table's snapshot
    live,       \* a session is live
    fib,        \* the routes in the kernel that carry this reconciler's marker
    at,         \* where the loop is
    del, add,   \* what the running pass has left to do
    failed,     \* the running pass has met an error
    seen, open, \* captureGate
    idle,       \* time since captureGate.liveAt, no more than Grace
    capturing,  \* Reconciler.capturing
    backoff,
    sweep, retry, grace, \* the timers; Off for one that is stopped
    wake,       \* the table's, the kernel's or the control socket's signal, or the ticker's
    enabled, withdrawn,
    canceled,
    quiet,      \* time since a session was live
    due,        \* time for which a capture has been wanted
    left,       \* history: a stop's withdrawal failed, and no pass has gone right since
    faults

gate == <<seen, open, idle>>
timers == <<backoff, sweep, retry, grace>>
pass == <<del, add, failed>>
world == <<mesh, live, canceled, quiet, due>>
vars == <<world, fib, at, pass, gate, capturing, timers, wake, enabled, withdrawn, left, faults>>

Off == -1
Min(a, b) == IF a < b THEN a ELSE b
Max(a, b) == IF a > b THEN a ELSE b

\* What the failures so far may have cost: the retries of a first backoff of
\* one unit, doubled for each failure after it.
Late == 2 ^ faults - 1
Limit == Grace + Sweep + 2 ^ Faults

TypeOK ==
    /\ mesh \subseteq Routes /\ fib \subseteq Routes
    /\ live \in BOOLEAN /\ canceled \in BOOLEAN /\ failed \in BOOLEAN
    /\ at \in {"top", "list", "write", "clear", "erase", "leave", "wait", "done"}
    /\ del \subseteq Routes /\ add \subseteq Routes
    /\ del \cap add = {}
    /\ seen \in BOOLEAN /\ open \in BOOLEAN /\ idle \in 0..Grace /\ (open => seen)
    /\ capturing \in BOOLEAN /\ backoff \in 0..Sweep
    /\ sweep \in 1..Sweep /\ retry \in Off..Sweep /\ grace \in Off..Grace
    \* A pass that failed is tried again: the timer is armed whenever the
    \* loop waits on a backoff.
    /\ at = "wait" /\ backoff > 0 => retry # Off
    /\ wake \in BOOLEAN /\ enabled \in BOOLEAN /\ withdrawn \in BOOLEAN /\ left \in BOOLEAN
    /\ quiet \in 0..Limit /\ due \in 0..Limit /\ faults \in 0..Faults

\* An earlier instance may have left its routes behind.
Init ==
    /\ mesh \in SUBSET Routes /\ fib \in SUBSET Routes
    /\ live \in BOOLEAN /\ canceled = FALSE /\ quiet = 0 /\ due = 0
    /\ at = "top" /\ del = {} /\ add = {} /\ failed = FALSE
    /\ seen = FALSE /\ open = FALSE /\ idle = 0 /\ capturing = FALSE
    /\ backoff = 0 /\ sweep = Sweep /\ retry = Off /\ grace = Off
    /\ wake = FALSE /\ enabled = TRUE /\ withdrawn = FALSE /\ left = FALSE /\ faults = 0

Fault == faults < Faults /\ faults' = faults + 1

----------------------------------------------------------------------------
(* The world.                                                              *)

\* Babel adds or removes a route, and the table signals the change.
MeshChange ==
    /\ \E r \in Routes: mesh' = IF r \in mesh THEN mesh \ {r} ELSE mesh \cup {r}
    /\ wake' = TRUE /\ due' = 0
    /\ UNCHANGED <<live, canceled, quiet, fib, at, pass, gate, capturing, timers, enabled,
                   withdrawn, left, faults>>

\* A session starts or stops counting as live.  Nothing signals either.
LiveChange ==
    /\ live' = ~live
    /\ quiet' = 0 /\ due' = 0
    /\ UNCHANGED <<mesh, canceled, fib, at, pass, gate, capturing, timers, wake, enabled,
                   withdrawn, left, faults>>

\* Somebody flushes a route of ours, and the kernel says so.
Flushed ==
    /\ \E r \in fib: fib' = fib \ {r}
    /\ wake' = TRUE /\ due' = 0
    /\ UNCHANGED <<mesh, live, canceled, quiet, at, pass, gate, capturing, timers, enabled,
                   withdrawn, left, faults>>

SetEnabled ==
    /\ enabled' = ~enabled /\ wake' = TRUE /\ due' = 0
    /\ UNCHANGED <<mesh, live, canceled, quiet, fib, at, pass, gate, capturing, timers,
                   withdrawn, left, faults>>

Cancel ==
    /\ ~canceled /\ canceled' = TRUE
    /\ UNCHANGED <<mesh, live, quiet, due, fib, at, pass, gate, capturing, timers, wake,
                   enabled, withdrawn, left, faults>>

Down(timer) == IF timer = Off THEN Off ELSE timer - 1

\* Time passes only while the loop waits with nothing to wake it.
Tick ==
    /\ at = "wait" /\ ~wake /\ retry # 0 /\ grace # 0 /\ ~canceled
    /\ idle' = Min(idle + 1, Grace)
    /\ quiet' = IF live THEN 0 ELSE Min(quiet + 1, Limit)
    /\ due' = IF live /\ enabled /\ Captures \subseteq mesh THEN Min(due + 1, Limit) ELSE 0
    /\ retry' = Down(retry) /\ grace' = Down(grace)
    /\ sweep' = IF sweep = 1 THEN Sweep ELSE sweep - 1
    /\ wake' = (sweep = 1)
    /\ UNCHANGED <<mesh, live, canceled, fib, at, pass, seen, open, capturing, backoff,
                   enabled, withdrawn, left, faults>>

----------------------------------------------------------------------------
(* Run: the select, and the top of the loop.                               *)

WakeUp ==
    /\ at = "wait" /\ at' = "top"
    /\ \/ wake /\ wake' = FALSE /\ UNCHANGED <<retry, grace>>
       \/ retry = 0 /\ retry' = Off /\ UNCHANGED <<wake, grace>>
       \/ grace = 0 /\ grace' = Off /\ UNCHANGED <<wake, retry>>
       \/ canceled /\ UNCHANGED <<wake, retry, grace>>
    /\ UNCHANGED <<world, fib, pass, gate, capturing, backoff, sweep, enabled, withdrawn, left, faults>>

\* captureGate.sample.
Sample(l) ==
    /\ seen' = (seen \/ l)
    /\ idle' = IF l THEN 0 ELSE idle
    /\ open' = (l \/ (seen /\ idle < Grace))

\* A pass of an enabled reconciler samples the gate first, once for all of it.
Begin ==
    /\ at = "top" /\ ~canceled /\ enabled
    /\ withdrawn' = FALSE
    /\ Sample(live)
    /\ at' = "list" /\ failed' = FALSE
    /\ UNCHANGED <<world, fib, del, add, capturing, timers, wake, enabled, left, faults>>

\* A stopped one withdraws once per stop.
StopOnce ==
    /\ at = "top" /\ ~canceled /\ ~enabled
    /\ at' = IF withdrawn THEN "wait" ELSE "clear"
    /\ UNCHANGED <<world, fib, pass, gate, capturing, timers, wake, enabled, withdrawn, left, faults>>

----------------------------------------------------------------------------
(* applyRoutes.                                                            *)

\* desired: a capturing route only while the gate is open.
Desired == {r \in mesh: r \in Captures => open}

\* diffRoutes: what the kernel has and should not, and the other way round.
Stale == fib \ Desired
Missing == Desired \ fib

\* The dump and the diff.
List ==
    /\ at = "list" /\ at' = "write"
    /\ \/ /\ del' = Stale /\ add' = Missing
          /\ capturing' = (Desired \cap Captures # {})
          /\ UNCHANGED <<failed, faults>>
       \/ Fault /\ failed' = TRUE /\ UNCHANGED <<del, add, capturing>>
    /\ UNCHANGED <<world, fib, gate, timers, wake, enabled, withdrawn, left>>

\* One write at a time, every deletion before the first install.
Delete(r) ==
    /\ at \in {"write", "erase", "leave"} /\ r \in del
    /\ del' = del \ {r}
    /\ \/ fib' = fib \ {r} /\ UNCHANGED <<failed, faults>>
       \/ Fault /\ failed' = TRUE /\ UNCHANGED fib
    /\ UNCHANGED <<world, at, add, gate, capturing, timers, wake, enabled, withdrawn, left>>

Add(r) ==
    /\ at = "write" /\ del = {} /\ r \in add
    /\ add' = add \ {r}
    /\ \/ fib' = fib \cup {r} /\ UNCHANGED <<failed, faults>>
       \/ Fault /\ failed' = TRUE /\ UNCHANGED fib
    /\ UNCHANGED <<world, at, del, gate, capturing, timers, wake, enabled, withdrawn, left>>

\* A failed pass is tried again after the backoff.
Retry ==
    IF failed
    THEN /\ backoff' = Min(Max(2 * backoff, 1), Sweep)
         /\ retry' = Min(Max(2 * backoff, 1), Sweep)
    ELSE backoff' = 0 /\ retry' = IF backoff # 0 THEN Off ELSE retry

\* Mutant: the deadline is the running grace's alone, and there is none while
\* a session still counts.
DeadlineIdle == IF open /\ idle > 0 THEN Grace - idle ELSE Off

\* captureGate.deadline, as the time left until it.
Deadline == IF open THEN Grace - idle ELSE Off

\* The wake-up is armed only while a capture is installed or wanted.
captureDeadline == IF capturing THEN Deadline ELSE Off

\* The end of a pass: the retry and the wake-up of the grace.
EndPass ==
    /\ at = "write" /\ del = {} /\ add = {}
    /\ at' = "wait"
    /\ Retry
    /\ grace' = captureDeadline
    /\ left' = (left /\ failed)
    /\ UNCHANGED <<world, fib, pass, gate, capturing, sweep, wake, enabled, withdrawn, faults>>

----------------------------------------------------------------------------
(* withdraw, on a stop and at the end of Run.                              *)

ListOwn ==
    /\ \/ at = "clear" /\ at' = "erase"
       \/ at = "top" /\ canceled /\ at' = "leave"
    /\ add' = {}
    /\ \/ del' = fib /\ failed' = FALSE /\ UNCHANGED faults
       \/ Fault /\ del' = {} /\ failed' = TRUE
    /\ UNCHANGED <<world, fib, gate, capturing, timers, wake, enabled, withdrawn, left>>

\* Whatever failed is logged, and the stop is done.
EndStop ==
    /\ at = "erase" /\ del = {}
    /\ at' = "wait" /\ withdrawn' = TRUE /\ left' = failed
    /\ backoff' = 0 /\ retry' = Off /\ grace' = Off
    /\ UNCHANGED <<world, fib, pass, gate, capturing, sweep, wake, enabled, faults>>

EndRun ==
    /\ at = "leave" /\ del = {}
    /\ at' = "done"
    /\ UNCHANGED <<world, fib, pass, gate, capturing, timers, wake, enabled, withdrawn, left, faults>>

----------------------------------------------------------------------------

Next ==
    \/ MeshChange \/ LiveChange \/ Flushed \/ SetEnabled \/ Cancel \/ Tick
    \/ WakeUp \/ Begin \/ StopOnce \/ List \/ EndPass
    \/ ListOwn \/ EndStop \/ EndRun
    \/ \E r \in Routes: Delete(r) \/ Add(r)

Spec == Init /\ [][Next]_vars

----------------------------------------------------------------------------
(* Properties.                                                             *)

\* A route that takes the machine's own traffic leaves the kernel no later
\* than the grace after the last session stopped being live, plus the retries
\* that failed calls cost: the machine does not stay in a dead tun.  A stop is
\* not tried again: what its withdrawal fails to delete waits for a start.
CaptureBounded ==
    fib \cap Captures # {} => quiet <= Grace + Late \/ left

\* The recovery needs nobody: a capture the mesh holds is in the kernel within
\* a sweep of the first live session, plus the retries.
Restored ==
    due > Sweep + Late /\ ~canceled => Captures \subseteq fib

\* A loop that waits with no signal and no retry pending has the kernel at what
\* its last sample lets the mesh install.
InStep ==
    at = "wait" /\ ~wake /\ retry = Off /\ ~withdrawn => fib = Desired

\* A reconciler that was stopped and has acted on it holds nothing in the
\* kernel, unless a call of the withdrawal failed.
StoppedEmpty ==
    at = "wait" /\ ~wake /\ ~enabled => fib = {} \/ left
=============================================================================
