----------------------------- MODULE SessionSet -----------------------------
(***************************************************************************)
(* The session set of internal/client/session.go at the two ends of one    *)
(* path.  Both nodes dial, so two SAs may be set up at once; each node     *)
(* keeps at most one, by a rule that only reads which node opened an SA.   *)
(*                                                                         *)
(* sessionSet.mu is held for one step.  adopt closes the session it        *)
(* replaces, or the one it refuses, after it has let go of the lock, and   *)
(* only then does its own control loop run.  A Delete may be lost; an end  *)
(* whose peer is gone is found dead at some time.                          *)
(***************************************************************************)
EXTENDS Integers, FiniteSets

CONSTANTS
    a, b,        \* the nodes; preferInitiator holds when a is the initiator
    SAs,         \* names of SAs, used again when nobody knows them any more
    Dialers,     \* the nodes that dial
    Faults,      \* bound: handshakes and installs that fail, Deletes and probes lost
    Redials,     \* bound: redial verbs
    Revokers,    \* the nodes whose registry may drop the other
    Stops        \* the nodes that may shut down

Nodes == {a, b}
Other(n) == IF n = a THEN b ELSE a
None == 0

SessionAssumption ==
    /\ a # b /\ IsFiniteSet(SAs) /\ None \notin SAs /\ SAs \subseteq Nat
    /\ Dialers \subseteq Nodes /\ Revokers \subseteq Nodes /\ Stops \subseteq Nodes
    /\ Faults \in Nat /\ Redials \in Nat

VARIABLES
    live,        \* sessionSet.live at each node: the SA that holds the path
    neighbor,    \* the SA whose peer the Babel speaker has under the path's name
    by,          \* the node that opened an SA
    end,         \* how far serveSession has come with an SA at a node
    prev,        \* the session an adoption has still to close
    kill,        \* sessions taken out of the set that are still to be closed
    deletes,     \* Deletes on their way: an SA and the node it goes to
    dialer,      \* the SA runPeer of a node is busy with
    trusted,     \* whether a node's registry names the other
    sweeping,    \* a reload that has stored its registry and not yet swept
    life,        \* a node: running, shut (closeAll), cancelled
    last,        \* the session closeAll is closing
    left         \* what is left of each bound

vars == <<live, neighbor, by, end, prev, kill, deletes, dialer, trusted, sweeping, life, last, left>>

Ended == {"none", "gone"}

Init ==
    /\ live = [n \in Nodes |-> None] /\ neighbor = live
    /\ by = [s \in SAs |-> a] /\ end = [n \in Nodes |-> [s \in SAs |-> "none"]]
    /\ prev = [n \in Nodes |-> [s \in SAs |-> None]]
    /\ kill = {} /\ deletes = {} /\ dialer = live
    /\ trusted = [n \in Nodes |-> TRUE] /\ sweeping = {}
    /\ life = [n \in Nodes |-> "running"] /\ last = live
    /\ left = [faults |-> Faults, redials |-> Redials]

Spend(what) == left[what] > 0 /\ left' = [left EXCEPT ![what] = @ - 1]

\* A name nobody refers to.
Unused ==
    {s \in SAs : /\ \A n \in Nodes : end[n][s] \in Ended /\ <<n, s>> \notin kill
                                 /\ s \notin {live[n], neighbor[n], dialer[n]}
                                 /\ \A t \in SAs : prev[n][t] # s
                 /\ \A n \in Nodes : <<s, n>> \notin deletes}
Fresh(s) == s \in Unused /\ \A t \in Unused : s <= t

-----------------------------------------------------------------------------
(* Handshakes.                                                             *)

\* holds: the session in the set has proved its peer alive of late.  A peer that
\* has dropped the SA is found silent sooner or later, which is when the dialer
\* comes round; one that has not is taken for silent when its answers are lost.
Silent(n, s) == end[Other(n)][s] \in Ended
Holds(n) == live[n] # None /\ ~Silent(n, live[n])

\* The session's goroutine returns; runPeer is free to dial again if it was its.
Gone(n, s) ==
    /\ dialer' = IF dialer[n] = s THEN [dialer EXCEPT ![n] = None] ELSE dialer
    /\ end' = IF Silent(n, s) THEN [m \in Nodes |-> [end[m] EXCEPT ![s] = "none"]]
                              ELSE [end EXCEPT ![n][s] = "gone"]
    /\ by' = IF Silent(n, s) THEN [by EXCEPT ![s] = a] ELSE by

\* runPeer and connectPeer: one attempt, which looks the peer up first.
Dial(n) ==
    /\ n \in Dialers /\ dialer[n] = None /\ life[n] = "running" /\ trusted[n]
    /\ IF Holds(n) THEN Spend("faults") ELSE UNCHANGED left
    /\ \E s \in SAs :
           /\ Fresh(s)
           /\ dialer' = [dialer EXCEPT ![n] = s] /\ by' = [by EXCEPT ![s] = n]
           /\ end' = [m \in Nodes |-> [end[m] EXCEPT ![s] = IF m = n THEN "dialing" ELSE "none"]]
    /\ UNCHANGED <<live, neighbor, prev, kill, deletes, trusted, sweeping, life, last>>

\* The responder's handshake; lookupPeerKey asks the registry of that moment.
Answer(s) == LET m == Other(by[s]) IN
    /\ end[by[s]][s] = "dialing" /\ end[m][s] = "none" /\ trusted[m] /\ life[m] # "cancelled"
    /\ end' = [end EXCEPT ![m][s] = "made"]
    /\ UNCHANGED <<live, neighbor, by, prev, kill, deletes, dialer, trusted, sweeping, life, last, left>>

\* The initiator hears the answer, whatever has become of the other end.
Establish(s) ==
    /\ end[by[s]][s] = "dialing" /\ end[Other(by[s])][s] # "none"
    /\ end' = [end EXCEPT ![by[s]][s] = "made"]
    /\ UNCHANGED <<live, neighbor, by, prev, kill, deletes, dialer, trusted, sweeping, life, last, left>>

\* The reload's syncPeers cancels the dialer of a peer the registry dropped.
Undialed(n) == ~trusted[n] /\ n \notin sweeping

\* It gives up: answers were lost, or its own context has ended.
GiveUp(s) == LET n == by[s] IN
    /\ end[n][s] = "dialing"
    /\ IF life[n] = "cancelled" \/ Undialed(n) \/ (~trusted[Other(n)] /\ end[Other(n)][s] = "none")
          \/ (life[Other(n)] = "cancelled" /\ end[Other(n)][s] = "none")
       THEN UNCHANGED left ELSE Spend("faults")
    /\ Gone(n, s)
    /\ UNCHANGED <<live, neighbor, prev, kill, deletes, trusted, sweeping, life, last>>

-----------------------------------------------------------------------------
(* adoptFor.                                                               *)

Preferred(s) == by[s] = a

\* Mutant: the newest session wins, whoever opened it.
RefusedNever(n, s) == life[n] # "running"

Refused(n, s) ==
    \/ life[n] # "running"
    \/ live[n] # None /\ Preferred(live[n]) /\ ~Preferred(s)

Refuse(n, s) ==
    /\ end[n][s] = "made" /\ Refused(n, s)
    /\ end' = [end EXCEPT ![n][s] = "refused"]
    /\ UNCHANGED <<live, neighbor, by, prev, kill, deletes, dialer, trusted, sweeping, life, last, left>>

\* The responder was stopped over the control socket: the SA is closed, not served.
Unserved(n, s) ==
    /\ end[n][s] = "made" /\ by[s] # n /\ Spend("faults")
    /\ end' = [end EXCEPT ![n][s] = "refused"]
    /\ UNCHANGED <<live, neighbor, by, prev, kill, deletes, dialer, trusted, sweeping, life, last>>

\* The Child SA is not installed: serveSession returns, and nobody tells the peer.
Uninstalled(n, s) ==
    /\ end[n][s] = "made" /\ Spend("faults") /\ Gone(n, s)
    /\ UNCHANGED <<live, neighbor, prev, kill, deletes, trusted, sweeping, life, last>>

\* Speaker.AddPeer takes the name over; removePeer lets it go if it is still
\* this session's.
AddPeer(n, s) == [neighbor EXCEPT ![n] = s]
removePeer(n, s) == IF neighbor[n] = s THEN [neighbor EXCEPT ![n] = None] ELSE neighbor

Adopt(n, s) ==
    /\ end[n][s] = "made" /\ ~Refused(n, s)
    /\ live' = [live EXCEPT ![n] = s] /\ neighbor' = AddPeer(n, s)
    /\ prev' = [prev EXCEPT ![n][s] = live[n]]
    /\ end' = [end EXCEPT ![n][s] = "adopted"]
    /\ UNCHANGED <<by, kill, deletes, dialer, trusted, sweeping, life, last, left>>

-----------------------------------------------------------------------------
(* closeSession: a Delete that may be lost, then the mux.                  *)

\* Where an end stands once its mux is closed.
Shut(phase) ==
    IF phase = "serving" THEN "ended" ELSE IF phase = "adopted" THEN "doomed" ELSE phase

Tells(n, s) ==
    \/ deletes' = deletes \cup {<<s, Other(n)>>} /\ life[n] # "cancelled" /\ UNCHANGED left
    \/ UNCHANGED <<deletes, left>> /\ life[n] = "cancelled"
    \/ UNCHANGED deletes /\ life[n] # "cancelled" /\ Spend("faults")

CloseRefused(n, s) ==
    /\ end[n][s] = "refused" /\ Tells(n, s)
    /\ Gone(n, s)
    /\ UNCHANGED <<live, neighbor, prev, kill, trusted, sweeping, life, last>>

\* adopt closes what it replaced and returns; the control loop starts.
Serve(n, s) ==
    /\ end[n][s] \in {"adopted", "doomed"}
    /\ LET p == prev[n][s]
           next == IF end[n][s] = "doomed" THEN "ended" ELSE "serving"
           started == [end EXCEPT ![n][s] = next]
       IN IF p = None
          THEN end' = started /\ UNCHANGED <<deletes, left>>
          ELSE Tells(n, p) /\ end' = [started EXCEPT ![n][p] = Shut(@)]
    /\ prev' = [prev EXCEPT ![n][s] = None]
    /\ UNCHANGED <<live, neighbor, by, kill, dialer, trusted, sweeping, life, last>>

Kill(n, s) ==
    /\ <<n, s>> \in kill /\ kill' = kill \ {<<n, s>>} /\ Tells(n, s)
    /\ end' = [end EXCEPT ![n][s] = Shut(@)]
    /\ UNCHANGED <<live, neighbor, by, prev, dialer, trusted, sweeping, life, last>>

-----------------------------------------------------------------------------
(* The end of serveSession.                                                *)

\* The peer's Delete, read by the control loop; one that finds none is dropped.
Hear(n, s) ==
    /\ <<s, n>> \in deletes /\ end[n][s] \notin {"made", "adopted"}
    /\ deletes' = deletes \ {<<s, n>>} /\ end' = [end EXCEPT ![n][s] = Shut(@)]
    /\ UNCHANGED <<live, neighbor, by, prev, kill, dialer, trusted, sweeping, life, last, left>>

\* Dead peer detection, or this node's own context.
Expire(n, s) ==
    /\ end[n][s] = "serving" /\ (Silent(n, s) \/ life[n] = "cancelled")
    /\ end' = [end EXCEPT ![n][s] = "ended"]
    /\ UNCHANGED <<live, neighbor, by, prev, kill, deletes, dialer, trusted, sweeping, life, last, left>>

\* dialerWasDropped: the context of the dialer that opened the session has ended
\* and the node's has not.  The control loop returns, and the peer is told.
Drop(n, s) ==
    /\ end[n][s] = "serving" /\ by[s] = n /\ Undialed(n) /\ life[n] # "cancelled"
    /\ Tells(n, s) /\ end' = [end EXCEPT ![n][s] = "ended"]
    /\ UNCHANGED <<live, neighbor, by, prev, kill, dialer, trusted, sweeping, life, last>>

\* release: the entry under the lock if it is still this session's ...
Release(n, s) ==
    /\ end[n][s] = "ended" /\ end' = [end EXCEPT ![n][s] = "released"]
    /\ live' = IF live[n] = s THEN [live EXCEPT ![n] = None] ELSE live
    /\ UNCHANGED <<neighbor, by, prev, kill, deletes, dialer, trusted, sweeping, life, last, left>>

\* Mutant: the neighbor of that name is removed, whoever it is.
DetachAny(n, s) ==
    /\ end[n][s] = "released" /\ Gone(n, s)
    /\ neighbor' = [neighbor EXCEPT ![n] = None]
    /\ UNCHANGED <<live, prev, kill, deletes, trusted, sweeping, life, last, left>>

\* Mutant: the neighbor is removed if the set still holds the session.
DetachHeld(n, s) ==
    /\ end[n][s] = "released" /\ Gone(n, s)
    /\ neighbor' = IF live[n] = s THEN [neighbor EXCEPT ![n] = None] ELSE neighbor
    /\ UNCHANGED <<live, prev, kill, deletes, trusted, sweeping, life, last, left>>

\* ... and the Babel neighbor after it.
Detach(n, s) ==
    /\ end[n][s] = "released" /\ Gone(n, s)
    /\ neighbor' = removePeer(n, s)
    /\ UNCHANGED <<live, prev, kill, deletes, trusted, sweeping, life, last, left>>

-----------------------------------------------------------------------------
(* The operator: redial, reload, shutdown.                                 *)

Take(n) == kill' = kill \cup ({<<n, live[n]>>} \ {<<n, None>>}) /\ live' = [live EXCEPT ![n] = None]

\* closeMatching.
Redial(n) ==
    /\ life[n] = "running" /\ live[n] # None /\ Spend("redials") /\ Take(n)
    /\ UNCHANGED <<neighbor, by, end, prev, deletes, dialer, trusted, sweeping, life, last>>

\* ReloadFrom stores the registry, then revokes.
Reload(n) ==
    /\ n \in Revokers /\ life[n] = "running" /\ trusted[n]
    /\ trusted' = [trusted EXCEPT ![n] = FALSE] /\ sweeping' = sweeping \cup {n}
    /\ UNCHANGED <<live, neighbor, by, end, prev, kill, deletes, dialer, life, last, left>>

Revoke(n) ==
    /\ n \in sweeping /\ sweeping' = sweeping \ {n} /\ Take(n)
    /\ UNCHANGED <<neighbor, by, end, prev, deletes, dialer, trusted, life, last, left>>

\* closeAll shuts the set and closes what it holds ...
CloseAll(n) ==
    /\ n \in Stops /\ life[n] = "running"
    /\ life' = [life EXCEPT ![n] = "shut"] /\ last' = [last EXCEPT ![n] = live[n]]
    /\ kill' = kill \cup ({<<n, live[n]>>} \ {<<n, None>>})
    /\ UNCHANGED <<live, neighbor, by, end, prev, deletes, dialer, trusted, sweeping, left>>

\* ... and Run cancels everything after it has.
Cancel(n) ==
    /\ life[n] = "shut" /\ <<n, last[n]>> \notin kill
    /\ life' = [life EXCEPT ![n] = "cancelled"] /\ last' = [last EXCEPT ![n] = None]
    /\ live' = [live EXCEPT ![n] = None]
    /\ UNCHANGED <<neighbor, by, end, prev, kill, deletes, dialer, trusted, sweeping, left>>

-----------------------------------------------------------------------------
Serving(n, s) ==
    \/ Refuse(n, s) \/ Adopt(n, s) \/ CloseRefused(n, s) \/ Serve(n, s) \/ Kill(n, s)
    \/ Hear(n, s) \/ Expire(n, s) \/ Release(n, s) \/ Detach(n, s)

\* What may become of a session and need not.
Upset(n, s) == Unserved(n, s) \/ Uninstalled(n, s) \/ Drop(n, s)

Next ==
    \/ \E n \in Nodes : Dial(n) \/ Redial(n) \/ Reload(n) \/ Revoke(n) \/ CloseAll(n) \/ Cancel(n)
    \/ \E s \in SAs : Answer(s) \/ Establish(s) \/ GiveUp(s)
                      \/ \E n \in Nodes : Serving(n, s) \/ Upset(n, s)

Spec == Init /\ [][Next]_vars

\* Dialers come round, handshakes and teardowns end, a dead peer is noticed.
FairSpec ==
    /\ Spec
    /\ \A n \in Nodes : /\ WF_vars(Dial(n)) /\ WF_vars(Revoke(n))
                        /\ WF_vars(Cancel(n))
    /\ \A s \in SAs : /\ WF_vars(Answer(s)) /\ WF_vars(Establish(s))
                      /\ WF_vars(GiveUp(s))
                      /\ \A n \in Nodes : WF_vars(Serving(n, s))

-----------------------------------------------------------------------------
(* Properties.                                                             *)

Phases == {"none", "dialing", "made", "refused", "adopted", "doomed", "serving",
           "ended", "released", "gone"}
TypeOK ==
    /\ live \in [Nodes -> SAs \cup {None}] /\ neighbor \in [Nodes -> SAs \cup {None}]
    /\ dialer \in [Nodes -> SAs \cup {None}] /\ last \in [Nodes -> SAs \cup {None}]
    /\ by \in [SAs -> Nodes] /\ end \in [Nodes -> [SAs -> Phases]]
    /\ prev \in [Nodes -> [SAs -> SAs \cup {None}]]
    /\ kill \subseteq Nodes \X SAs /\ deletes \subseteq SAs \X Nodes
    /\ trusted \in [Nodes -> BOOLEAN] /\ sweeping \subseteq Nodes
    /\ life \in [Nodes -> {"running", "shut", "cancelled"}]
    /\ left \in [faults : 0..Faults, redials : 0..Redials]

\* Babel's neighbor under the path's name belongs to the session that holds the
\* path: one that was replaced cannot take it over, nor take it away.
NeighborFollows == \A n \in Nodes : live[n] # None => neighbor[n] = live[n]

\* When Run cancels the sessions' loops, each session that still runs is being
\* closed by somebody: no peer is left with an SA nobody tells it about.
NobodyLeftBehind ==
    \A n \in Nodes, s \in SAs :
        life[n] = "cancelled" /\ end[n][s] \in {"adopted", "serving"}
            => <<n, s>> \in kill \/ \E t \in SAs : prev[n][t] = s

\* The two nodes hold one SA.  That nodes which dial each other at once and lose
\* messages end up there and stay is MCNode!SessionsConverge: neither closes for
\* ever what the other keeps.
Settled == live[a] = live[b] /\ live[a] # None

\* A node is at the end of every session it has: MCNode!ShutdownEnds shows that
\* one that shuts down gets there.
AllOver(n) == neighbor[n] = None /\ \A s \in SAs : end[n][s] \in Ended

\* Once a reload has dropped the other node from the registry, this node does
\* not go on serving it (ReloadFrom: "it decides who may stay").
\* Refuted by the code: section 5 of the README.
RevokedLeaves == \A n \in Nodes : ~trusted[n] ~> (live[n] = None)
=============================================================================
