------------------------------- MODULE ChildSA -------------------------------
(***************************************************************************)
(* The Child SAs of a session (ike/child_rekey.go, ike/child_state.go)     *)
(* and the ESP SAs they install in the tunnels of its two ends             *)
(* (internal/client/tunnel.go).                                            *)
(*                                                                         *)
(* At each end rekeyChild, of which one runs at a time, goes through the   *)
(* steps of task[e], while Run serves the peer's requests and the timers.  *)
(* Both write the Child SAs under childMu.  An SA is a name that stands    *)
(* for its two SPIs and its keys; a name nobody refers to is drawn again.  *)
(* That a request of the IKE SA is executed once and answered is module    *)
(* IkeExchange; replacing the IKE SA itself is module IkeRekey.            *)
(***************************************************************************)
EXTENDS Integers, Sequences, FiniteSets, SequencesExt

CONSTANTS
    SAs,         \* the names of Child SAs, numbers
    Faults,      \* what may go wrong: "busy", "install", "unsent"
    Patient      \* no answer takes longer than retirementDeadline

ChildAssumption ==
    /\ SAs \subseteq Nat \ {0} /\ IsFiniteSet(SAs) /\ SAs # {}
    /\ Faults \subseteq {"busy", "install", "unsent"} /\ Patient \in BOOLEAN

Ends == {"a", "b"}
Other(e) == CHOOSE x \in Ends : x # e
None == 0
First == Min(SAs)

VARIABLES
    child,       \* Session.Child
    retiring,    \* Session.retiring, replaced and awaiting the peer's Delete
    retired,     \* Session.retired, replaced and draining
    inbound,     \* tunnelSAs.inbound, and the SPIs registered with the mux
    outbound,    \* tunnelSAs.outbound
    task,        \* where rekeyChild stands
    serving,     \* the SA of a create request Run has admitted, not installed
    req, resp    \* the request of each end on its way, and the answer to it

sas == <<child, retiring, retired, inbound, outbound>>
vars == <<sas, task, serving, req, resp>>

Idle == [at |-> "idle", old |-> None, sa |-> None]
Nothing == [kind |-> "nothing", sa |-> None, old |-> None]
Create(sa, old) == [kind |-> "create", sa |-> sa, old |-> old]
Delete(sa) == [kind |-> "delete", sa |-> sa, old |-> None]

Init ==
    /\ child = [e \in Ends |-> First] /\ retiring = [e \in Ends |-> None]
    /\ retired = [e \in Ends |-> <<>>]
    /\ inbound = [e \in Ends |-> {First}] /\ outbound = [e \in Ends |-> First]
    /\ task = [e \in Ends |-> Idle] /\ serving = [e \in Ends |-> None]
    /\ req = [e \in Ends |-> Nothing] /\ resp = [e \in Ends |-> "none"]

Unused == SAs \ UNION {{child[e], retiring[e], task[e].old, task[e].sa, serving[e],
                         req[e].sa, req[e].old, outbound[e]}
                        \cup Range(retired[e]) \cup inbound[e] : e \in Ends}

-----------------------------------------------------------------------------
(* The Child SAs of one end.                                               *)

\* Mutant: what is displaced goes at once.
ReplaceAtOnce(e, sa) ==
    /\ child' = [child EXCEPT ![e] = sa]
    /\ inbound' = [inbound EXCEPT ![e] = (@ \ {child[e]}) \cup {sa}]
    /\ outbound' = [outbound EXCEPT ![e] = sa]
    /\ UNCHANGED <<retiring, retired>>

\* replaceChild and tunnel.install: sa is current, what it displaces retires.
Replace(e, sa) ==
    /\ child' = [child EXCEPT ![e] = sa]
    /\ retiring' = [retiring EXCEPT ![e] = IF child[e] # None THEN child[e] ELSE @]
    /\ inbound' = [inbound EXCEPT ![e] = @ \cup {sa}]
    /\ outbound' = [outbound EXCEPT ![e] = sa]
    /\ UNCHANGED retired

\* retireInboundLocked of a replaced SA: its keys drain.
Drain(e, sa) ==
    /\ retired' = [retired EXCEPT ![e] = Append(@, sa)]
    /\ UNCHANGED <<inbound, outbound>>

\* retireInboundLocked and tunnel.retire of any other: its keys go at once.
Drop(e, sa) ==
    /\ inbound' = [inbound EXCEPT ![e] = @ \ {sa}]
    /\ outbound' = [outbound EXCEPT ![e] = IF @ = sa THEN None ELSE @]

\* The SA in retiring starts to drain.
Retire(e) ==
    /\ Drain(e, retiring[e])
    /\ retiring' = [retiring EXCEPT ![e] = None]
    /\ UNCHANGED child

\* retireChild, which ends the rekey of old.
RetireChild(e, old) ==
    IF retiring[e] = old THEN Retire(e) ELSE UNCHANGED sas

\* Run gives up waiting for the Delete of a replaced SA.
Deadline(e) ==
    /\ retiring[e] # None
    /\ Patient => \A x \in Ends : req[x] = Nothing /\ resp[x] = "none"
    /\ Retire(e)
    /\ UNCHANGED <<task, serving, req, resp>>

\* The overlap of the oldest replaced SA is over.
Expire(e) ==
    /\ retired[e] # <<>>
    /\ Drop(e, Head(retired[e]))
    /\ retired' = [retired EXCEPT ![e] = Tail(@)]
    /\ UNCHANGED <<child, retiring, task, serving, req, resp>>

-----------------------------------------------------------------------------
(* rekeyChild and negotiateChild.                                          *)

Post(e, request) == req' = [req EXCEPT ![e] = request]
Goto(e, at, old, sa) == task' = [task EXCEPT ![e] = [at |-> at, old |-> old, sa |-> sa]]
Finish(e) == task' = [task EXCEPT ![e] = Idle]

\* The schedule, the packet counter or an operator asks for a new SA.
Begin(e) ==
    /\ task[e] = Idle
    /\ Goto(e, "begun", child[e], None)
    /\ UNCHANGED <<sas, serving, req, resp>>

\* canReplaceChild, then the CREATE_CHILD_SA request.
Ask(e) ==
    /\ task[e].at = "begun" /\ req[e] = Nothing
    /\ retiring[e] = None /\ Unused # {}
    /\ Goto(e, "create", task[e].old, Min(Unused))
    /\ Post(e, Create(Min(Unused), task[e].old))
    /\ UNCHANGED <<sas, serving, resp>>

\* The new SA could not be installed, or the request could not be sent.
GiveUp(e) ==
    /\ task[e].at = "begun"
    /\ retiring[e] # None \/ "unsent" \in Faults
    /\ Finish(e)
    /\ UNCHANGED <<sas, serving, req, resp>>

\* The answer to the request of e.
Answered(e, at) == task[e].at = at /\ resp[e] # "none" /\ resp' = [resp EXCEPT ![e] = "none"]

Rejected(e) ==
    /\ Answered(e, "create") /\ resp[e] # "accepted"
    /\ IF resp[e] = "not found" THEN Goto(e, "forget", task[e].old, None) ELSE Finish(e)
    /\ UNCHANGED <<sas, serving, req>>

\* The peer has the SA and this end does not want it or cannot install it.
Orphaned(e) ==
    /\ Answered(e, "create") /\ resp[e] = "accepted"
    /\ retiring[e] # None \/ "install" \in Faults
    /\ Goto(e, "orphan", None, task[e].sa) /\ Post(e, Delete(task[e].sa))
    /\ UNCHANGED <<sas, serving>>

Install(e) ==
    /\ Answered(e, "create") /\ resp[e] = "accepted"
    /\ retiring[e] = None /\ Replace(e, task[e].sa)
    /\ IF task[e].old = None THEN Finish(e) /\ UNCHANGED req
       ELSE Goto(e, "delete", task[e].old, None) /\ Post(e, Delete(task[e].old))
    /\ UNCHANGED serving

\* The Delete of the old SA, or of an orphan, is answered.
Deleted(e) ==
    \/ /\ Answered(e, "orphan") /\ Finish(e)
       /\ UNCHANGED <<sas, serving, req>>
    \/ /\ Answered(e, "delete") /\ Finish(e) /\ RetireChild(e, task[e].old)
       /\ UNCHANGED <<serving, req>>

\* The Delete could not be sent.
DeleteFails(e) ==
    /\ "unsent" \in Faults /\ task[e].at \in {"delete", "orphan"} /\ req[e].kind = "delete"
    /\ req' = [req EXCEPT ![e] = Nothing] /\ Finish(e)
    /\ RetireChild(e, IF task[e].at = "delete" THEN task[e].old ELSE -1)
    /\ UNCHANGED <<serving, resp>>

\* forgetChild after CHILD_SA_NOT_FOUND, and the start of a negotiation from
\* scratch.
Forget(e) ==
    /\ task[e].at = "forget"
    /\ IF child[e] \in {None, task[e].old} THEN Goto(e, "begun", None, None) ELSE Finish(e)
    /\ IF child[e] # None /\ child[e] = task[e].old
       THEN /\ Drop(e, child[e]) /\ child' = [child EXCEPT ![e] = None]
            /\ UNCHANGED <<retiring, retired>>
       ELSE UNCHANGED sas
    /\ UNCHANGED <<serving, req, resp>>

-----------------------------------------------------------------------------
(* Run of e serves a request of its peer.                                  *)

Answer(e, what) ==
    /\ resp' = [resp EXCEPT ![Other(e)] = what]
    /\ req' = [req EXCEPT ![Other(e)] = Nothing]

\* Why handleChildRekey refuses request r, "none" when it does not.
Refusal(e, r) ==
    IF retiring[e] # None THEN "temporary"
    ELSE IF r.old = None THEN IF child[e] # None THEN "no additional" ELSE "none"
    ELSE IF task[e] # Idle THEN "temporary"
    ELSE IF child[e] # r.old THEN "not found" ELSE "none"

\* handleChildRekey up to the installation.
Refuse(e) ==
    LET r == req[Other(e)]
    IN  /\ r.kind = "create" /\ serving[e] = None
        /\ \/ Refusal(e, r) # "none" /\ Answer(e, Refusal(e, r))
           \/ "busy" \in Faults /\ Answer(e, "temporary")
        /\ UNCHANGED <<sas, task, serving>>

Admit(e) ==
    LET r == req[Other(e)]
    IN  /\ r.kind = "create" /\ serving[e] = None /\ Refusal(e, r) = "none"
        /\ serving' = [serving EXCEPT ![e] = r.sa]
        /\ UNCHANGED <<sas, task, req, resp>>

\* The installation, which looks at retiring again, and the response.
Accept(e) ==
    /\ serving[e] # None
    /\ serving' = [serving EXCEPT ![e] = None]
    /\ \/ retiring[e] = None /\ Replace(e, serving[e]) /\ Answer(e, "accepted")
       \/ (retiring[e] # None \/ "install" \in Faults) /\ Answer(e, "temporary") /\ UNCHANGED sas
    /\ UNCHANGED task

\* deleteChildren for one SPI.
DeleteChildren(e) ==
    LET sa == req[Other(e)].sa
    IN  /\ req[Other(e)].kind = "delete" /\ Answer(e, "deleted")
        /\ IF sa = child[e]
           THEN /\ Drop(e, sa) /\ child' = [child EXCEPT ![e] = None]
                /\ UNCHANGED <<retiring, retired>>
           ELSE IF sa = retiring[e] THEN Retire(e) ELSE UNCHANGED sas
        /\ UNCHANGED <<task, serving>>

-----------------------------------------------------------------------------
Rekey(e) ==
    \/ Ask(e) \/ GiveUp(e) \/ Rejected(e) \/ Orphaned(e) \/ Install(e)
    \/ Deleted(e) \/ DeleteFails(e) \/ Forget(e)

Serve(e) == Refuse(e) \/ Admit(e) \/ Accept(e) \/ DeleteChildren(e)

Next == \E e \in Ends : Begin(e) \/ Rekey(e) \/ Serve(e) \/ Deadline(e) \/ Expire(e)

Spec == Init /\ [][Next]_vars

-----------------------------------------------------------------------------
(* Properties.                                                             *)

TypeOK ==
    LET sa == SAs \cup {None}
    IN  /\ child \in [Ends -> sa] /\ retiring \in [Ends -> sa]
        /\ outbound \in [Ends -> sa] /\ serving \in [Ends -> sa]
        /\ \A e \in Ends : Range(retired[e]) \subseteq SAs /\ inbound[e] \subseteq SAs
        /\ task \in [Ends -> [at : {"idle", "begun", "create", "delete", "orphan", "forget"},
                              old : sa, sa : sa]]
        /\ req \in [Ends -> [kind : {"nothing", "create", "delete"}, sa : sa, old : sa]]
        /\ resp \in [Ends -> {"none", "accepted", "deleted", "temporary",
                              "no additional", "not found"}]

Listed(e) == <<child[e], retiring[e]>> \o retired[e]

\* The tunnel holds the inbound keys of exactly the SAs the session still lists,
\* each listed once, and sends on the current one: no key leaks, and retiring
\* an SA never fails, which would end Run.
KeysAreListed ==
    \A e \in Ends :
        LET live == SelectSeq(Listed(e), LAMBDA sa : sa # None)
        IN  /\ inbound[e] = Range(live) /\ Cardinality(inbound[e]) = Len(live)
            /\ outbound[e] = child[e]

Quiet ==
    \A e \in Ends : /\ task[e] = Idle /\ serving[e] = None
                    /\ req[e] = Nothing /\ resp[e] = "none"

\* Once no exchange is under way and nothing drains, what one end sends the
\* other can read.
Agreed ==
    Quiet /\ (\A e \in Ends : retiring[e] = None /\ retired[e] = <<>>)
        => \A e \in Ends : outbound[e] # None => outbound[e] \in inbound[Other(e)]

\* As long as the retirement deadline outlasts an exchange, an end never gives
\* up the keys of a replaced SA while the other is still sending on it.
KeepsWhatIsSentOn ==
    \A e \in Ends : \A sa \in inbound[e] \ inbound'[e] :
        outbound[Other(e)] = sa => child[e] = sa /\ child'[e] = None

\* Once no exchange is under way and nothing drains, two ends that have a Child
\* SA have the same one.
\* Refuted by the code: section 5 of the README.
OneChild ==
    Quiet /\ (\A e \in Ends : retiring[e] = None /\ retired[e] = <<>>)
        => (child["a"] = child["b"] \/ \E e \in Ends : child[e] = None)

\* A replaced SA refuses rekeys, and an attempt to rekey is under way.  That
\* retiring is cleared and the attempt returns is MCControl!RekeysEnd.
Refusing(e) == retiring[e] # None
Rekeying(e) == task[e] # Idle
=============================================================================
