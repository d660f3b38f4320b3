---------------------------- MODULE ClientProofs ----------------------------
(***************************************************************************)
(* Proofs about a daemon and what it starts.  First that c.dialers and the *)
(* dialer goroutines agree, that reloads leave nobody dialled whom the     *)
(* configuration does not name and that no dialer starts behind Run's      *)
(* back, for any number of paths, goroutines, reloads and edits.  Then     *)
(* that one daemon owns the control socket, for any number of daemons,     *)
(* clients, starts, kills and failed calls.                                *)
(***************************************************************************)
EXTENDS Dialing, FiniteSetTheorems, TLAPS

Wheres == {"check", "dialing", "waiting", "leaving", "gone"}
Dialer == [path : Paths \cup {"none"}, cancelled : BOOLEAN, wake : BOOLEAN, at : Wheres]

\* The types the proof needs.
Types ==
    /\ disk \in Documents /\ read \in [Reloaders -> Documents]
    /\ cfg.to \subseteq Paths /\ reg.nodes \subseteq Paths /\ peers \subseteq Paths
    /\ at \in [Syncers -> {"idle", "registry", "config", "sync", "start"}]
    /\ dialers \in [Paths -> Loops \cup {None}]
    /\ loop \in [Loops -> Dialer]

\* Entry by entry: the entry of a path is its one dialer not cancelled, and a
\* name without a goroutine has no path.
Current ==
    /\ \A p \in Paths, d \in Loops :
           (loop[d].path = p /\ ~loop[d].cancelled) <=> dialers[p] = d
    /\ \A d \in Loops : loop[d].at = "gone" <=> loop[d].path = "none"

LEMMA AtFits ==
    ASSUME NEW r \in Dialer, NEW w \in Wheres
    PROVE  /\ [r EXCEPT !.at = w] \in Dialer /\ [r EXCEPT !.at = w].at = w
           /\ [r EXCEPT !.at = w].path = r.path
           /\ [r EXCEPT !.at = w].cancelled = r.cancelled
BY Zenon DEF Dialer

LEMMA WakeFits ==
    ASSUME NEW r \in Dialer, NEW b \in BOOLEAN
    PROVE  /\ [r EXCEPT !.wake = b] \in Dialer /\ [r EXCEPT !.wake = b].at = r.at
           /\ [r EXCEPT !.wake = b].path = r.path
           /\ [r EXCEPT !.wake = b].cancelled = r.cancelled
BY Zenon DEF Dialer

LEMMA CancelFits ==
    ASSUME NEW r \in Dialer
    PROVE  /\ [r EXCEPT !.cancelled = TRUE] \in Dialer
           /\ [r EXCEPT !.cancelled = TRUE].at = r.at
           /\ [r EXCEPT !.cancelled = TRUE].path = r.path
           /\ [r EXCEPT !.cancelled = TRUE].cancelled
BY Zenon DEF Dialer

LEMMA StartFits ==
    ASSUME NEW p \in Paths
    PROVE  /\ Started(p) \in Dialer /\ Started(p).path = p
           /\ Started(p).at = "check" /\ ~Started(p).cancelled
<1>1. Started(p) \in Dialer
  BY Zenon DEF Started, Dialer, Wheres
<1> QED
  BY <1>1, Zenon DEF Started

LEMMA GoneFits == Gone \in Dialer /\ Gone.at = "gone" /\ Gone.path = "none"
<1>1. Gone \in Dialer
  BY Zenon DEF Gone, Dialer, Wheres
<1> QED
  BY <1>1, Zenon DEF Gone

-----------------------------------------------------------------------------
(* Types and Current are inductive.                                        *)

\* A dialer that only moves within its loop stays the one of its path.
LEMMA MoveKeeps ==
    ASSUME DialingAssumption, Types, Current, NEW d \in Loops, NEW x \in Dialer,
           x.path = loop[d].path, x.cancelled = loop[d].cancelled,
           x.at = "gone" <=> loop[d].at = "gone",
           loop' = [loop EXCEPT ![d] = x],
           UNCHANGED <<disk, read, cfg, reg, at, peers, dialers>>
    PROVE  Types' /\ Current'
<1>1. Types'
  BY Zenon DEF Types
<1>2. \A c \in Loops : loop'[c] = IF c = d THEN x ELSE loop[c]
  BY Zenon DEF Types
<1> QED
  BY <1>1, <1>2 DEF Current

LEMMA ForgetKeeps ==
    ASSUME DialingAssumption, Types, Current, NEW d \in Loops, Forget(d)
    PROVE  Types' /\ Current'
<1>1. /\ dialers' = [p \in Paths |-> IF dialers[p] = d THEN None ELSE dialers[p]]
      /\ loop' = [loop EXCEPT ![d] = Gone]
      /\ UNCHANGED <<disk, read, cfg, reg, at, peers>>
  BY Zenon DEF Forget
<1>2. Types'
  BY <1>1, GoneFits, Zenon DEF Types
<1>3. \A c \in Loops : loop'[c] = IF c = d THEN Gone ELSE loop[c]
  BY <1>1, Zenon DEF Types
<1>4. None \notin Loops /\ "none" \notin Paths
  BY Zenon DEF DialingAssumption, None
<1> QED
  BY <1>1, <1>2, <1>3, <1>4, GoneFits DEF Current

LEMMA SyncKeeps ==
    ASSUME DialingAssumption, Types, Current, NEW r \in Syncers, Sync(r)
    PROVE  Types' /\ Current' /\ \A p \in Paths \ peers : dialers'[p] = None
<1> DEFINE fresh == Starting
<1>0. peers \subseteq Paths /\ fresh \subseteq peers
      /\ None \notin Loops /\ "none" \notin Paths
  BY Zenon DEF Types, Starting, DialingAssumption, None
<1>1. /\ at' = [at EXCEPT ![r] = "idle"] /\ peers' = {} /\ UNCHANGED <<disk, read, cfg, reg>>
  BY Zenon DEF Sync
<1>2. PICK new \in [fresh -> Idle] :
        /\ \A p, q \in fresh : p # q => new[p] # new[q]
        /\ dialers' = [p \in Paths |-> IF p \in fresh THEN new[p]
                                       ELSE IF p \in peers THEN dialers[p] ELSE None]
        /\ loop' = [d \in Loops |->
               IF \E p \in fresh : new[p] = d
               THEN Started(CHOOSE p \in fresh : new[p] = d)
               ELSE IF \E p \in Paths \ peers : dialers[p] = d
               THEN [loop[d] EXCEPT !.cancelled = TRUE] ELSE loop[d]]
  BY Zenon DEF Sync
<1>3. \A p \in fresh : dialers[p] = None /\ new[p] \in Loops /\ loop[new[p]].at = "gone"
  BY <1>2, Zenon DEF Starting, Idle
<1> HIDE DEF fresh
\* The three kinds of goroutine: one that starts, one that is dropped, the rest.
<1>4. ASSUME NEW d \in Loops, NEW q \in fresh, new[q] = d
      PROVE  loop'[d] = Started(q)
  BY <1>2, <1>4, Zenon
<1>5. \A d \in Loops : loop[d] \in Dialer
  BY Zenon DEF Types
<1>6. ASSUME NEW d \in Loops, ~\E q \in fresh : new[q] = d
      PROVE  /\ loop'[d] \in Dialer
             /\ loop'[d].path = loop[d].path /\ loop'[d].at = loop[d].at
             /\ IF \E p \in Paths \ peers : dialers[p] = d
                THEN loop'[d].cancelled ELSE loop'[d] = loop[d]
  <2>1. CASE \E p \in Paths \ peers : dialers[p] = d
    <3>1. loop'[d] = [loop[d] EXCEPT !.cancelled = TRUE]
      BY <1>2, <1>6, <2>1, Zenon
    <3>2. PICK x \in Dialer : x = loop[d]
      BY <1>5, Zenon
    <3> QED
      BY <2>1, <3>1, <3>2, CancelFits, Zenon
  <2>2. CASE ~\E p \in Paths \ peers : dialers[p] = d
    BY <1>2, <1>5, <1>6, <2>2, Zenon
  <2> QED
    BY <2>1, <2>2, Zenon
<1>7. ASSUME NEW d \in Loops PROVE loop'[d] \in Dialer
  <2>1. CASE \E q \in fresh : new[q] = d
    BY <1>0, <1>4, <2>1, StartFits, Zenon
  <2>2. CASE ~\E q \in fresh : new[q] = d
    BY <1>6, <2>2, Zenon
  <2> QED
    BY <2>1, <2>2, Zenon
<1>8. Types'
  <2>1. loop' \in [Loops -> Dialer]
    BY <1>2, <1>7, Zenon
  <2>2. dialers' \in [Paths -> Loops \cup {None}]
    BY <1>2, <1>3, Zenon DEF Types
  <2> QED
    BY <1>1, <2>1, <2>2, Zenon DEF Types
<1>9. ASSUME NEW p \in Paths, NEW d \in Loops
      PROVE  (loop'[d].path = p /\ ~loop'[d].cancelled) <=> dialers'[p] = d
  <2>0. dialers'[p] = IF p \in fresh THEN new[p]
                      ELSE IF p \in peers THEN dialers[p] ELSE None
    BY <1>2, Zenon
  <2>1. CASE \E q \in fresh : new[q] = d
    <3>1. PICK q \in fresh : new[q] = d
      BY <2>1, Zenon
    <3>2. loop'[d].path = q /\ ~loop'[d].cancelled
      BY <1>0, <1>4, <3>1, StartFits, Zenon
    <3>3. dialers[p] # d
      BY <1>0, <1>3, <3>1 DEF Current
    <3> QED
      BY <1>0, <1>2, <2>0, <3>1, <3>2, <3>3, Zenon
  <2>2. CASE ~\E q \in fresh : new[q] = d
    <3>1. CASE \E q \in Paths \ peers : dialers[q] = d
      <4>1. loop'[d].cancelled
        BY <1>6, <2>2, <3>1, Zenon
      <4>2. \A q \in peers : dialers[q] # d
        BY <1>0, <3>1 DEF Current
      <4> QED
        BY <1>0, <2>0, <2>2, <4>1, <4>2, Zenon
    <3>2. CASE ~\E q \in Paths \ peers : dialers[q] = d
      <4>1. loop'[d] = loop[d]
        BY <1>6, <2>2, <3>2, Zenon
      <4>2. (loop[d].path = p /\ ~loop[d].cancelled) <=> dialers[p] = d
        BY Zenon DEF Current
      <4>3. p \in fresh => dialers[p] # d
        BY <1>0, <1>3, Zenon
      <4> QED
        BY <1>0, <2>0, <2>2, <3>2, <4>1, <4>2, <4>3, Zenon
    <3> QED
      BY <3>1, <3>2, Zenon
  <2> QED
    BY <2>1, <2>2, Zenon
<1>10. ASSUME NEW d \in Loops PROVE loop'[d].at = "gone" <=> loop'[d].path = "none"
  <2>1. CASE \E q \in fresh : new[q] = d
    BY <1>0, <1>4, <2>1, StartFits
  <2>2. CASE ~\E q \in fresh : new[q] = d
    BY <1>6, <2>2, Zenon DEF Current
  <2> QED
    BY <2>1, <2>2, Zenon
<1> QED
  BY <1>0, <1>2, <1>8, <1>9, <1>10, Zenon DEF Current

\* The caller that starts dialers holds the lock, and none does so once Run
\* has begun to wait.
Locked ==
    /\ \A r \in Syncers : at[r] = "start" => mutex = r
    /\ NoLateStart

\* A reload has changed what is wanted and has yet to take the lock.
Coming == \E r \in Syncers : at[r] \in {"config", "sync"}

\* As long as the node runs, an entry that is not wanted has such a reload, or
\* one under the lock that has computed the set as it still is.
Covered ==
    run = "running" /\ ~stopped /\ ~Coming =>
        \/ \E r \in Syncers : at[r] = "start" /\ peers = Wanted
        \/ /\ \A r \in Syncers : at[r] # "start"
           /\ \A p \in Paths \ Wanted : dialers[p] = None

Kept == Types /\ Current /\ Locked /\ Covered

LEMMA InitKept == ASSUME DialingAssumption, Init PROVE Kept
<1>1. \A d \in Loops : loop[d] = Gone
  BY Zenon DEF Init
<1>2. None \notin Loops /\ "none" \notin Paths
  BY Zenon DEF DialingAssumption, None
<1>3. Types
  BY GoneFits, Zenon DEF Init, Types, Documents, Syncers
<1>4. Current
  BY <1>1, <1>2, GoneFits, Zenon DEF Init, Current
<1>5. Locked /\ Covered
  BY Zenon DEF Init, Locked, NoLateStart, Covered, Coming, Starter, Syncers
<1> QED
  BY <1>3, <1>4, <1>5, Zenon DEF Kept

LEMMA NextKept == ASSUME DialingAssumption, Kept, [Next]_vars PROVE Kept'
<1> USE DEF Kept
<1>0. Starter \in Syncers /\ "free" \notin Syncers /\ Reloaders \subseteq Syncers
  BY Zenon DEF Starter, Syncers, DialingAssumption
\* Steps that leave the dialers alone.
<1>1. ASSUME UNCHANGED <<loop, dialers>>, Types' PROVE Current'
  BY <1>1, Zenon DEF Current
<1>2. ASSUME NEW r \in Reloaders, Load(r) PROVE Kept'
  <2>1. Types' /\ Locked'
    BY <1>0, <1>2, Zenon DEF Load, Types, Locked, NoLateStart
  <2>2. Covered'
    BY <1>0, <1>2, Zenon DEF Load, Types, Covered, Coming, Wanted
  <2> QED
    BY <1>1, <1>2, <2>1, <2>2, Zenon DEF Load
<1>3. ASSUME NEW r \in Reloaders, StoreRegistry(r) PROVE Kept'
  <2>1. Types' /\ Locked'
    BY <1>0, <1>3, Zenon DEF StoreRegistry, Types, Documents, Locked, NoLateStart
  <2>2. at'[r] = "config"
    BY <1>0, <1>3, Zenon DEF StoreRegistry, Types
  <2> QED
    BY <1>0, <1>1, <1>3, <2>1, <2>2, Zenon DEF StoreRegistry, Covered, Coming
<1>4. ASSUME NEW r \in Reloaders, StoreConfig(r) PROVE Kept'
  <2>1. Types' /\ Locked'
    BY <1>0, <1>4, Zenon DEF StoreConfig, Types, Documents, Locked, NoLateStart
  <2>2. at'[r] = "sync"
    BY <1>0, <1>4, Zenon DEF StoreConfig, Types
  <2> QED
    BY <1>0, <1>1, <1>4, <2>1, <2>2, Zenon DEF StoreConfig, Covered, Coming
<1>5. ASSUME NEW r \in Syncers, SyncEnter(r) PROVE Kept'
  <2>1. Types' /\ Wanted' = Wanted
    BY <1>5, Zenon DEF SyncEnter, SyncWith, Types, Wanted
  <2>2. Locked'
    BY <1>0, <1>5, Zenon DEF SyncEnter, SyncWith, Types, Locked, NoLateStart, Cancelled
  <2>3. Covered'
    <3>1. CASE stopped \/ Cancelled
      BY <1>5, <3>1, Zenon DEF SyncEnter, SyncWith, Covered, Cancelled
    <3>2. CASE ~(stopped \/ Cancelled)
      BY <1>5, <2>1, <3>2, Zenon DEF SyncEnter, SyncWith, Types, Covered
    <3> QED
      BY <3>1, <3>2, Zenon
  <2> QED
    BY <1>1, <1>5, <2>1, <2>2, <2>3, Zenon DEF SyncEnter, SyncWith
<1>6. ASSUME NEW r \in Syncers, Sync(r) PROVE Kept'
  <2>1. Types' /\ Current' /\ \A p \in Paths \ peers : dialers'[p] = None
    BY <1>6, SyncKeeps, Zenon
  <2>2. /\ at[r] = "start" /\ at' = [at EXCEPT ![r] = "idle"]
        /\ UNCHANGED <<cfg, reg, run, stopped>>
    BY <1>6, Zenon DEF Sync
  <2>3. Locked'
    BY <1>0, <2>2, Zenon DEF Types, Locked, NoLateStart
  <2>4. Covered'
    <3>1. \A q \in Syncers : at'[q] # "start"
      BY <2>2, Zenon DEF Types, Locked
    <3>2. Wanted' = Wanted /\ (Coming => Coming')
      BY <2>2, Zenon DEF Wanted, Coming, Types
    <3>3. run = "running" /\ ~stopped /\ ~Coming => peers = Wanted
      BY <2>2, Zenon DEF Covered
    <3> QED
      BY <2>1, <2>2, <3>1, <3>2, <3>3, Zenon DEF Covered
  <2> QED
    BY <2>1, <2>3, <2>4, Zenon
<1>7. ASSUME NEW d \in Loops, Running(d) \/ Timer(d) \/ \E p \in Paths : Wake(p)
      PROVE  Kept'
  <2>1. /\ UNCHANGED <<disk, read, cfg, reg, at, mutex, peers, run, stopped>>
    BY <1>7, Zenon DEF Running, Timer, Wake, Check, Return, Woken, Abort, Forget
  <2>2. Types' /\ Current'
    <3>0. \A c \in Loops : loop[c] \in Dialer
      BY Zenon DEF Types
    <3>1. ASSUME NEW w \in Wheres \ {"gone"}, Goto(d, w), loop[d].at # "gone",
                 dialers' = dialers
          PROVE  Types' /\ Current'
      <4>1. loop' = [loop EXCEPT ![d] = [loop[d] EXCEPT !.at = w]]
        BY <3>1, Zenon DEF Goto
      <4> QED
        BY <2>1, <3>0, <3>1, <4>1, AtFits, MoveKeeps, Zenon
    <3>2. CASE Check(d) \/ Return(d) \/ Abort(d) \/ Timer(d)
      BY <3>1, <3>2, Zenon DEF Check, Return, Abort, Timer, Wheres
    <3>3. CASE Woken(d)
      <4>1. PICK x \in Dialer : x = [loop[d] EXCEPT !.at = "check"]
            /\ x.path = loop[d].path /\ x.cancelled = loop[d].cancelled /\ x.at = "check"
        BY <3>0, AtFits, Zenon DEF Wheres
      <4>2. loop' = [loop EXCEPT ![d] = [x EXCEPT !.wake = FALSE]]
            /\ loop[d].at = "waiting" /\ dialers' = dialers
        BY <3>3, <4>1, Zenon DEF Woken, Types
      <4> QED
        BY <2>1, <4>1, <4>2, WakeFits, MoveKeeps, ZenonT(30)
    <3>4. CASE Forget(d)
      BY <3>4, ForgetKeeps, Zenon
    <3>5. ASSUME NEW p \in Paths, Wake(p) PROVE Types' /\ Current'
      <4>1. PICK c \in Loops : c = dialers[p]
        BY <3>5, Zenon DEF Wake, Types
      <4>2. loop' = [loop EXCEPT ![c] = [loop[c] EXCEPT !.wake = TRUE]]
            /\ dialers' = dialers
        BY <3>5, <4>1, Zenon DEF Wake
      <4> QED
        BY <2>1, <3>0, <4>2, WakeFits, MoveKeeps, Zenon
    <3> QED
      BY <1>7, <3>2, <3>3, <3>4, <3>5, Zenon DEF Running
  <2>3. \A p \in Paths : dialers'[p] \in {dialers[p], None}
    BY <1>7, Zenon DEF Running, Timer, Wake, Check, Return, Woken, Abort, Forget
  <2>4. Locked' /\ Covered'
    BY <2>1, <2>3, Zenon DEF Locked, NoLateStart, Covered, Coming, Wanted
  <2> QED
    BY <2>2, <2>4, Zenon
<1>8. CASE Edit \/ StopEarly \/ Cancel \/ StopDialers \/ RunReturns \/ UNCHANGED vars
  <2>1. UNCHANGED <<loop, dialers, cfg, reg, read, at, mutex, peers>> /\ disk' \in Documents
    BY <1>8, Zenon DEF Edit, StopEarly, Cancel, StopDialers, RunReturns, vars, Types
  <2>2. Types'
    BY <2>1, Zenon DEF Types
  <2>3. Locked'
    BY <1>0, <1>8, <2>1, Zenon DEF Edit, StopEarly, Cancel, StopDialers, RunReturns, vars,
       Locked, NoLateStart
  <2>4. Covered'
    BY <1>8, <2>1, Zenon DEF Edit, StopEarly, Cancel, StopDialers, RunReturns, vars,
       Covered, Coming, Wanted
  <2> QED
    BY <1>1, <2>1, <2>2, <2>3, <2>4, Zenon
<1>9. ASSUME NEW p \in Paths, Wake(p) PROVE Kept'
  <2>1. dialers[p] \in Loops
    BY <1>9, Zenon DEF Wake, Types
  <2> QED
    BY <1>7, <1>9, <2>1, Zenon
<1> QED
  BY <1>2, <1>3, <1>4, <1>5, <1>6, <1>7, <1>8, <1>9, Zenon DEF Next, Reloading, Syncing

LEMMA KeptInvariant == DialingAssumption => (Spec => []Kept)
<1> SUFFICES ASSUME DialingAssumption PROVE Spec => []Kept
  BY Zenon
<1>1. Init => Kept
  BY InitKept, Zenon
<1>2. Kept /\ [Next]_vars => Kept'
  BY NextKept, Zenon
<1> QED
  BY <1>1, <1>2, PTL DEF Spec

(* syncPeers, runPeer and forgetDialer keep c.dialers exact: a path has its  *)
(* entry as long as its one dialer is not cancelled, and never two.          *)
THEOREM OneDialerTheorem == DialingAssumption => (Spec => []OneDialer)
<1> SUFFICES ASSUME DialingAssumption PROVE Spec => []OneDialer
  BY Zenon
<1>1. Kept => OneDialer
  <2> SUFFICES ASSUME Kept, NEW p \in Paths
               PROVE  {d \in Loops : loop[d].path = p /\ ~loop[d].cancelled}
                          = {dialers[p]} \ {None}
    BY Zenon DEF OneDialer
  <2>1. dialers[p] \in Loops \cup {None} /\ None \notin Loops
    BY Zenon DEF Kept, Types, DialingAssumption, None
  <2> QED
    BY <2>1 DEF Kept, Current
<1> QED
  BY <1>1, KeptInvariant, PTL

(* However many reloads overlap, once all have returned a running node has a *)
(* dialer only for what its configuration and registry name; and syncPeers   *)
(* starts none after stopDialers, when Run already waits for them all.       *)
THEOREM ReloadsSettle == DialingAssumption => (Spec => [](OnlyWanted /\ NoLateStart))
<1> SUFFICES ASSUME DialingAssumption PROVE Spec => [](OnlyWanted /\ NoLateStart)
  BY Zenon
<1>1. Kept => OnlyWanted /\ NoLateStart
  BY Zenon DEF Kept, Locked, Covered, Coming, OnlyWanted, Reloaded
<1> QED
  BY <1>1, KeptInvariant, PTL

\* The rest of the types.
Rest ==
    /\ cfg \in [to : SUBSET Paths, all : BOOLEAN, from : 0..Edits]
    /\ reg \in [nodes : SUBSET Paths, from : 0..Edits]
    /\ mutex \in Syncers \cup {"free"}
    /\ run \in {"running", "cancelled", "waiting", "returned"} /\ stopped \in BOOLEAN
    /\ redials \in 0..Redials /\ asked \subseteq Loops

LEMMA RestStep ==
    ASSUME DialingAssumption, Kept, Rest, [Next]_vars
    PROVE  Rest'
<1> USE DEF Rest
<1>1. ASSUME NEW r \in Reloaders, StoreRegistry(r) \/ StoreConfig(r) PROVE Rest'
    <2>1. read[r] \in Documents
        BY Zenon DEF Kept, Types
    <2> QED
        BY <1>1, <2>1 DEF StoreRegistry, StoreConfig, Documents
<1>2. ASSUME NEW r \in Syncers, Syncing(r) PROVE Rest'
    BY <1>2, Zenon DEF Syncing, SyncEnter, SyncWith, Sync
<1>3. ASSUME NEW p \in Paths, Wake(p) PROVE Rest'
    <2>1. dialers[p] \in Loops \cup {None}
        BY Zenon DEF Kept, Types
    <2> QED
        BY <1>3, <2>1 DEF Wake, DialingAssumption
<1>4. ASSUME NEW d \in Loops, Running(d) \/ Timer(d) PROVE Rest'
    BY <1>4, Zenon DEF Running, Check, Return, Woken, Abort, Forget, Timer
<1>5. CASE StopEarly \/ Cancel \/ StopDialers \/ RunReturns
    BY <1>5, Zenon DEF StopEarly, Cancel, StopDialers, RunReturns
<1>6. CASE UNCHANGED <<cfg, reg, mutex, run, stopped, redials, asked>>
    BY <1>6, Zenon
<1>7. ASSUME NEW r \in Reloaders, Load(r) PROVE Rest'
    BY <1>6, <1>7, Zenon DEF Load
<1>8. CASE Edit \/ UNCHANGED vars
    BY <1>6, <1>8, Zenon DEF Edit, vars
<1> QED
    BY <1>1, <1>2, <1>3, <1>4, <1>5, <1>7, <1>8, Zenon DEF Next, Reloading

(* What the two theorems above state, with every variable's type: reloads,   *)
(* redials and the end of Run leave c.dialers what it has to be.             *)
THEOREM DialersExactTheorem == DialingAssumption => (Spec => []DialersExact)
<1> SUFFICES ASSUME DialingAssumption PROVE Spec => []DialersExact
    BY Zenon
<1>1. Init => Rest
    <2> SUFFICES ASSUME Init PROVE Rest
        BY Zenon
    <2>1. disk \in Documents
        BY Zenon DEF Init
    <2>2. disk.to \in SUBSET Paths /\ disk.all \in BOOLEAN /\ disk.nodes \in SUBSET Paths
        BY <2>1, Zenon DEF Documents
    <2>3. 0 \in 0..Edits /\ Redials \in 0..Redials
        BY DEF DialingAssumption
    <2>4. /\ cfg \in [to : SUBSET Paths, all : BOOLEAN, from : 0..Edits]
          /\ reg \in [nodes : SUBSET Paths, from : 0..Edits]
        BY <2>2, <2>3, Zenon DEF Init
    <2> QED
        BY <2>3, <2>4, Zenon DEF Init, Rest
<1>2. Kept /\ Rest /\ [Next]_vars => Rest'
    BY RestStep, Zenon
<1>3. Kept /\ Rest => TypeOK
    BY Zenon DEF Kept, Types, Rest, TypeOK, Dialer, Wheres
<1> QED
    BY <1>1, <1>2, <1>3, KeptInvariant, OneDialerTheorem, ReloadsSettle, PTL
       DEF Spec, DialersExact

-----------------------------------------------------------------------------
(* The control socket.                                                     *)

CONSTANTS Daemons, Clients, maxConnections, SocketStarts, SocketFaults, Free, Foreign

VARIABLES
    path, lock, put, daemonAt, listening, closing, unlinked, conns, places, socketStarts,
    socketFaults

Socket == INSTANCE ControlSocket WITH at <- daemonAt

\* What FiniteSets defines is the same there and here.
LEMMA SameSets ==
    ASSUME NEW S
    PROVE  /\ Socket!IsFiniteSet(S) <=> IsFiniteSet(S)
           /\ Socket!Cardinality(S) = Cardinality(S)
<1>1. Socket!IsFiniteSet(S) <=> IsFiniteSet(S)
    BY Zenon DEF Socket!IsFiniteSet, IsFiniteSet
<1>2. Socket!Cardinality(S) = Cardinality(S)
    BY Zenon DEF Socket!Cardinality, Cardinality, Socket!IsFiniteSet, IsFiniteSet
<1> QED
    BY <1>1, <1>2, Zenon

----------------------------------------------------------------------------
(* The owner of the path.                                                  *)

\* The steps at which a daemon has bound its socket and not unlinked it.
Holds(d) ==
    \/ daemonAt[d] \in {"chmod", "serving"}
    \/ daemonAt[d] = "leaving" /\ d \notin unlinked

\* Those at which it has the lock.
Locks(d) == daemonAt[d] \in {"lstat", "remove", "bind"} \/ Holds(d)

\* The part of the types that the argument uses.
Shape ==
    /\ path \in Daemons \cup {Free, Foreign}
    /\ daemonAt \in [Daemons -> {"down", "lock", "lstat", "remove", "bind", "chmod", "serving",
                           "leaving"}]
    /\ closing \in [Daemons -> [Socket!Closers -> {"no", "socket", "lock", "done"}]]
    /\ listening \subseteq Daemons

\* OneOwner is not inductive: that nobody clears a served path rests on which
\* steps hold the lock, on what the path is at each of them, and on a lock being
\* given back only by a close that has unlinked.
Owned ==
    /\ Shape
    /\ \A d \in Daemons :
         /\ Locks(d) => lock = d
         /\ d \in listening <=> Holds(d)
         /\ d \in listening => path = d /\ d \notin unlinked
         /\ daemonAt[d] = "remove" => path \in Daemons
         /\ daemonAt[d] = "bind" => path = Free
         /\ \A w \in Socket!Closers :
              /\ closing[d][w] # "no" => daemonAt[d] = "leaving"
              /\ closing[d][w] = "lock" => d \in unlinked
    /\ put => path = Foreign

LEMMA OwnedInit == Socket!SocketAssumption /\ Socket!Init => Owned
    BY DEF Socket!SocketAssumption, Socket!Init, Owned, Shape, Locks, Holds, Socket!Closers

LEMMA OwnedStep ==
    ASSUME Socket!SocketAssumption, Owned, [Socket!Next]_Socket!socketVars
    PROVE  Owned'
<1> USE DEF Owned, Shape, Locks, Holds, Socket!SocketAssumption, Socket!Closers
<1>1. ASSUME NEW d \in Daemons, Socket!Start(d) PROVE Owned'
    BY <1>1, Zenon DEF Socket!Start, Socket!Goes, Socket!served
<1>2. ASSUME NEW d \in Daemons, Socket!takeOwnership(d) PROVE Owned'
    BY <1>2, SMTT(30) DEF Socket!takeOwnership, Socket!Goes, Socket!served
<1>3. ASSUME NEW d \in Daemons, Socket!clearStale(d) PROVE Owned'
    BY <1>3 DEF Socket!clearStale, Socket!Refused, Socket!Goes, Socket!served
<1>4. ASSUME NEW d \in Daemons, Socket!Remove(d) PROVE Owned'
    BY <1>4 DEF Socket!Remove, Socket!Refused, Socket!Goes, Socket!served
<1>5. ASSUME NEW d \in Daemons, Socket!Bind(d) PROVE Owned'
    BY <1>5 DEF Socket!Bind, Socket!Refused, Socket!Goes, Socket!served
<1>6. ASSUME NEW d \in Daemons, Socket!Chmod(d) PROVE Owned'
    BY <1>6 DEF Socket!Chmod, Socket!Goes
<1>7. ASSUME NEW d \in Daemons, Socket!Shutdown(d) PROVE Owned'
    BY <1>7 DEF Socket!Shutdown, Socket!Goes
<1>8. ASSUME NEW d \in Daemons, Socket!Serve(d) PROVE Owned'
    BY <1>8, Zenon DEF Socket!Serve
<1>9. ASSUME NEW d \in Daemons, NEW w \in Socket!Closers, Socket!Close(d, w) PROVE Owned'
    BY <1>9 DEF Socket!Close
<1>10. ASSUME NEW d \in Daemons, Socket!Exit(d) \/ Socket!Kill(d) PROVE Owned'
    BY <1>10, SMTT(30) DEF Socket!Exit, Socket!Kill, Socket!Gone, Socket!Goes
<1>11. ASSUME NEW d \in Daemons, NEW c \in Clients,
              Socket!Dial(d, c) \/ Socket!Accept(d, c) \/ Socket!CloseConn(d, c)
       PROVE  Owned'
    BY <1>11 DEF Socket!Dial, Socket!Accept, Socket!CloseConn, Socket!Connection
<1>12. CASE UNCHANGED Socket!socketVars
    BY <1>12, Zenon DEF Socket!socketVars
<1> QED
    BY <1>1, <1>2, <1>3, <1>4, <1>5, <1>6, <1>7, <1>8, <1>9, <1>10, <1>11, <1>12, Zenon DEF Socket!Next

\* Whatever the daemons do and wherever they are killed, the one that listens
\* holds the lock and the path names its socket; a stale socket refuses no start
\* and a file that is not a socket stays (Listen, clearStale, ownedListener.Close).
THEOREM SocketOwned ==
    Socket!SocketAssumption => (Socket!Spec => [](Socket!OneOwner /\ Socket!StaleOnly))
<1> SUFFICES ASSUME Socket!SocketAssumption
             PROVE  Socket!Spec => [](Socket!OneOwner /\ Socket!StaleOnly)
    BY Zenon
<1>1. Socket!Init => Owned
    BY OwnedInit, Zenon
<1>2. Owned /\ [Socket!Next]_Socket!socketVars => Owned'
    BY OwnedStep, Zenon
<1>3. Owned => Socket!OneOwner /\ Socket!StaleOnly
    BY Zenon DEF Owned, Shape, Locks, Holds, Socket!OneOwner, Socket!StaleOnly
<1> QED
    BY <1>1, <1>2, <1>3, PTL DEF Socket!Spec

----------------------------------------------------------------------------
(* The places.                                                             *)

Open(d) == {c \in Clients : conns[d][c] \in {"open", "shut"}}

\* PlacesKept with the types of what it counts.
Counted ==
    /\ conns \in [Daemons -> [Clients -> {"none", "dialed", "open", "shut"}]]
    /\ places \in [Daemons -> Nat]
    /\ \A d \in Daemons : places[d] = Cardinality(Open(d)) /\ places[d] <= maxConnections

LEMMA OpenFinite == ASSUME Socket!SocketAssumption, NEW d \in Daemons PROVE IsFiniteSet(Open(d))
    BY SameSets, FS_Subset, Zenon DEF Open, Socket!SocketAssumption

LEMMA CountedInit == Socket!SocketAssumption /\ Socket!Init => Counted
<1> SUFFICES ASSUME Socket!SocketAssumption, Socket!Init
             PROVE  Counted
    BY Zenon
<1>1. \A d \in Daemons : Open(d) = {}
    BY Zenon DEF Socket!Init, Open
<1>2. \A d \in Daemons : Cardinality(Open(d)) = 0
    BY <1>1, FS_EmptySet, Zenon
<1> QED
    BY <1>2 DEF Socket!Init, Counted, Socket!SocketAssumption

LEMMA CountedStep ==
    ASSUME Socket!SocketAssumption, Counted, [Socket!Next]_Socket!socketVars
    PROVE  Counted'
<1>1. CASE UNCHANGED <<conns, places>>
    BY <1>1, Zenon DEF Counted, Open
<1>2. ASSUME NEW d \in Daemons, Socket!Gone(d) PROVE Counted'
    <2>1. \A e \in Daemons : Open(e)' = IF e = d THEN {} ELSE Open(e)
        BY <1>2, Zenon DEF Socket!Gone, Counted, Open
    <2>2. \A e \in Daemons : Cardinality(Open(e))' = IF e = d THEN 0 ELSE Cardinality(Open(e))
        BY <2>1, FS_EmptySet, Zenon
    <2>3. /\ conns' \in [Daemons -> [Clients -> {"none", "dialed", "open", "shut"}]]
          /\ places' = [places EXCEPT ![d] = 0]
        BY <1>2, Zenon DEF Socket!Gone, Counted
    <2> QED
        BY <2>2, <2>3 DEF Counted, Socket!SocketAssumption
<1>3. ASSUME NEW d \in Daemons, NEW c \in Clients, Socket!Dial(d, c) PROVE Counted'
    <2>1. \A e \in Daemons : Open(e)' = Open(e)
        BY <1>3, Zenon DEF Socket!Dial, Socket!Connection, Counted, Open
    <2> QED
        BY <1>3, <2>1, Zenon DEF Socket!Dial, Socket!Connection, Counted
<1>4. ASSUME NEW d \in Daemons, NEW c \in Clients, Socket!Accept(d, c) PROVE Counted'
    <2>1. CASE places[d] < maxConnections
        <3>1. /\ \A e \in Daemons : Open(e)' = IF e = d THEN Open(e) \cup {c} ELSE Open(e)
              /\ c \notin Open(d)
            BY <1>4, <2>1 DEF Socket!Accept, Socket!Connection, Counted, Open
        <3>2. Cardinality(Open(d) \cup {c}) = Cardinality(Open(d)) + 1
            BY <3>1, OpenFinite, FS_AddElement, Zenon
        <3>3. /\ conns' = [conns EXCEPT ![d][c] = "open"]
              /\ places' = [places EXCEPT ![d] = @ + 1]
            BY <1>4, <2>1, Zenon DEF Socket!Accept, Socket!Connection
        <3>4. conns' \in [Daemons -> [Clients -> {"none", "dialed", "open", "shut"}]]
            BY <3>3, Zenon DEF Counted
        <3>5. \A e \in Daemons :
                  Cardinality(Open(e))' = IF e = d THEN places[d] + 1 ELSE Cardinality(Open(e))
            BY <3>1, <3>2, Zenon DEF Counted
        <3> QED
            BY <2>1, <3>3, <3>4, <3>5 DEF Counted, Socket!SocketAssumption
    <2>2. CASE ~(places[d] < maxConnections)
        <3>1. \A e \in Daemons : Open(e)' = Open(e)
            BY <1>4, <2>2 DEF Socket!Accept, Socket!Connection, Counted, Open
        <3> QED
            BY <1>4, <2>2, <3>1 DEF Socket!Accept, Socket!Connection, Counted
    <2> QED
        BY <2>1, <2>2, Zenon
<1>5. ASSUME NEW d \in Daemons, NEW c \in Clients, Socket!CloseConn(d, c) PROVE Counted'
    <2>1. CASE Socket!Connection(d, c, "open", "shut") /\ UNCHANGED places
        <3>1. \A e \in Daemons : Open(e)' = Open(e)
            BY <2>1, Zenon DEF Socket!Connection, Counted, Open
        <3> QED
            BY <2>1, <3>1, Zenon DEF Socket!Connection, Counted
    <2>2. CASE Socket!Connection(d, c, "shut", "none") /\ places' = [places EXCEPT ![d] = @ - 1]
        <3>1. /\ \A e \in Daemons : Open(e)' = IF e = d THEN Open(e) \ {c} ELSE Open(e)
              /\ c \in Open(d)
            BY <2>2, Zenon DEF Socket!Connection, Counted, Open
        <3>2. /\ Cardinality(Open(d) \ {c}) = Cardinality(Open(d)) - 1
              /\ Cardinality(Open(d) \ {c}) \in Nat
            BY <3>1, OpenFinite, FS_RemoveElement, FS_CardinalityType, Zenon
        <3>3. conns' \in [Daemons -> [Clients -> {"none", "dialed", "open", "shut"}]]
            BY <2>2, Zenon DEF Socket!Connection, Counted
        <3>4. \A e \in Daemons :
                  Cardinality(Open(e))' = IF e = d THEN places[d] - 1 ELSE Cardinality(Open(e))
            BY <3>1, <3>2, Zenon DEF Counted
        <3>5. places[d] - 1 \in Nat
            BY <3>2, Zenon DEF Counted
        <3>6. places' \in [Daemons -> Nat]
            BY <2>2, <3>5, Zenon DEF Counted
        <3>7. \A e \in Daemons : places'[e] = Cardinality(Open(e))' /\ places'[e] <= maxConnections
            BY <2>2, <3>4, <3>5, SMTT(30) DEF Counted, Socket!SocketAssumption
        <3> QED
            BY <3>3, <3>6, <3>7, Zenon DEF Counted
    <2> QED
        BY <1>5, <2>1, <2>2, Zenon DEF Socket!CloseConn
<1>6. \/ UNCHANGED <<conns, places>>
      \/ \E d \in Daemons : \/ Socket!Gone(d)
                            \/ \E c \in Clients : \/ Socket!Dial(d, c) \/ Socket!Accept(d, c)
                                                  \/ Socket!CloseConn(d, c)
    BY Zenon DEF Socket!Next, Socket!Start, Socket!takeOwnership, Socket!clearStale, Socket!Remove,
           Socket!Bind, Socket!Chmod, Socket!Shutdown, Socket!Serve, Socket!Close,
           Socket!Exit, Socket!Kill, Socket!Refused, Socket!served, Socket!socketVars
<1> QED
    BY <1>1, <1>2, <1>3, <1>4, <1>5, <1>6, Zenon

\* A daemon never has more than maxConnections open, a connection that ends gives
\* back exactly its own place, and none is lost (boundedListener, boundedConn).
THEOREM PlacesAlwaysKept == Socket!SocketAssumption => (Socket!Spec => []Socket!PlacesKept)
<1> SUFFICES ASSUME Socket!SocketAssumption
             PROVE  Socket!Spec => []Socket!PlacesKept
    BY Zenon
<1>1. Socket!Init => Counted
    BY CountedInit, Zenon
<1>2. Counted /\ [Socket!Next]_Socket!socketVars => Counted'
    BY CountedStep, Zenon
<1>3. Counted => Socket!PlacesKept
    BY SameSets, Zenon DEF Counted, Open, Socket!PlacesKept
<1> QED
    BY <1>1, <1>2, <1>3, PTL DEF Socket!Spec
=============================================================================
