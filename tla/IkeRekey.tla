------------------------------- MODULE IkeRekey -------------------------------
(***************************************************************************)
(* Replacing the IKE SA (ike/ike_rekey.go, with the slots and releases of  *)
(* ike/initiator.go and the Delete handling of ike/liveness.go).           *)
(*                                                                         *)
(* Each end of a session runs two goroutines.  RekeyIKE holds requestMu    *)
(* from Begin to its return and goes through the steps of task[e]; Run     *)
(* sends its requests, hands it their answers and serves the peer's.  An   *)
(* SA is named by the lowest nonce of the exchange that creates it, which  *)
(* is what the collision rule compares; it stands for its SPI as well.     *)
(* Requests and answers may be delayed and reordered.  That each request   *)
(* is executed at most once and in order on its SA is module IkeExchange;  *)
(* here a datagram is gone once it has been taken.                         *)
(***************************************************************************)
EXTENDS Integers, FiniteSets

CONSTANT Nonces   \* the nonces drawn for new SAs

RekeyAssumption == Nonces \subseteq Nat \ {0} /\ IsFiniteSet(Nonces)

Ends == {"a", "b"}
Other(e) == CHOOSE x \in Ends : x # e
First == 0
IkeSAs == Nonces \cup {First}
NoSA == -1

VARIABLES
    cur, old, coll,   \* Session.current, old and collision
    keys,             \* keys[e][sa]: the SA from whose SK_d e derived sa
    routed,           \* the SPIs e's mux is registered for
    local,            \* Session.localRekey
    task,             \* where RekeyIKE stands
    open,             \* the mux is not closed
    drawn,            \* nonces already used
    reqs, resps,      \* the datagrams of the network
    sent, handled,    \* per end and SA: nextLocalMID and nextPeerMID
    slips             \* history: what has gone wrong at e, from Slips

slots == <<cur, old, coll>>
net == <<reqs, resps, sent, handled>>
vars == <<slots, keys, routed, local, task, open, drawn, net, slips>>

(* Three things the code does not guard against, and after which the ends  *)
(* may part.  overtaken: RekeyIKE went by an SA it had read as the current *)
(* one and that Run had replaced since.  stranded: an attempt that came to *)
(* nothing left the peer's candidate in collision.  unfinished: it came to *)
(* nothing after the peer had answered it.                                 *)
Slips == {"overtaken", "stranded", "unfinished"}
Slip(e, kinds) == slips' = [slips EXCEPT ![e] = @ \cup kinds]
Overtaken(e) ==
    IF \/ cur[e] # task[e].old
       \/ task[e].at \in {"lost", "won"} /\ coll[e] \notin {NoSA, task[e].winner}
    THEN {"overtaken"} ELSE {}
Stranded(e) == IF coll[e] # NoSA THEN {"stranded"} ELSE {}

NoRekey == [old |-> NoSA, peer |-> NoSA]
Idle == [at |-> "idle", io |-> "none", old |-> NoSA, sa |-> NoSA,
         ctx |-> NoSA, winner |-> NoSA, again |-> FALSE]

\* The SAs dispatch and contextRetired look a context up in.
Slots(e) == {cur[e], old[e], coll[e]} \ {NoSA}

Init ==
    /\ cur = [e \in Ends |-> First]
    /\ old = [e \in Ends |-> NoSA] /\ coll = [e \in Ends |-> NoSA]
    /\ keys = [e \in Ends |-> [sa \in IkeSAs |-> NoSA]]
    /\ routed = [e \in Ends |-> {First}]
    /\ local = [e \in Ends |-> NoRekey]
    /\ task = [e \in Ends |-> Idle]
    /\ open = [e \in Ends |-> TRUE]
    /\ drawn = {} /\ reqs = {} /\ resps = {}
    /\ sent = [e \in Ends |-> [sa \in IkeSAs |-> 0]]
    /\ handled = [e \in Ends |-> [sa \in IkeSAs |-> 0]]
    /\ slips = [e \in Ends |-> {}]

-----------------------------------------------------------------------------
(* The slots.                                                              *)

\* The slots become c, o and k.  What is dropped, and what the two retained
\* slots displace, is unregistered unless one of them still holds it.
Move(e, c, o, k, added, dropped) ==
    /\ cur' = [cur EXCEPT ![e] = c]
    /\ old' = [old EXCEPT ![e] = o]
    /\ coll' = [coll EXCEPT ![e] = k]
    /\ routed' = [routed EXCEPT ![e] = (@ \cup added) \ (dropped \ {c, o, k})]

-----------------------------------------------------------------------------
(* RekeyIKE.                                                               *)

\* It reads the SA it is to replace and draws SPI and nonce.  An attempt that
\* fails for want of a nonce has changed nothing.
Begin(e, sa) ==
    /\ open[e] /\ task[e] = Idle
    /\ sa \in Nonces \ drawn
    /\ task' = [task EXCEPT ![e] =
                   [Idle EXCEPT !.at = "begun", !.old = cur[e], !.sa = sa]]
    /\ drawn' = drawn \cup {sa}
    /\ UNCHANGED <<slots, keys, routed, local, open, net, slips>>

\* It publishes the attempt to Run.
Publish(e) ==
    /\ open[e] /\ task[e].at = "begun"
    /\ local' = [local EXCEPT ![e] = [old |-> task[e].old, peer |-> NoSA]]
    /\ task' = [task EXCEPT ![e].at = "published"]
    /\ UNCHANGED <<slots, keys, routed, open, drawn, net, slips>>

\* requestLocked: the request is for the SA that is current by now.
Ask(e) ==
    /\ open[e] /\ task[e].at = "published"
    /\ task' = [task EXCEPT ![e].at = "rekey", ![e].io = "queued", ![e].ctx = cur[e]]
    /\ Slip(e, Overtaken(e))
    /\ UNCHANGED <<slots, keys, routed, local, open, drawn, net>>

\* The peer asked for another key exchange group: once more, on the SA that
\* is current now.
AskAgain(e) ==
    /\ open[e] /\ task[e].io = "group" /\ ~task[e].again
    /\ task' = [task EXCEPT ![e].io = "queued", ![e].ctx = cur[e], ![e].again = TRUE]
    /\ Slip(e, Overtaken(e))
    /\ UNCHANGED <<slots, keys, routed, local, open, drawn, net>>

\* The deferred clear of localRekey, and the return.
Return(e) ==
    /\ local' = [local EXCEPT ![e] = IF @.old = task[e].old THEN NoRekey ELSE @]
    /\ task' = [task EXCEPT ![e] = Idle]

\* The rekey could not be asked for, or was refused.
Abort(e) ==
    /\ open[e]
    /\ \/ task[e].at = "published"
       \/ task[e].at = "rekey" /\ task[e].io \in {"refused", "failed"}
       \/ task[e].at = "rekey" /\ task[e].io = "group" /\ task[e].again
    /\ Return(e)
    /\ Slip(e, Stranded(e))
    /\ UNCHANGED <<slots, keys, routed, open, drawn, net>>

\* Mutant: neither end gives its candidate up.
LosesNever(sa, peer) == FALSE

\* lowestNonceBelongsToFirst.  Nonces that were never recorded are empty, and
\* an empty string is the lowest.
Loses(sa, peer) == peer # NoSA /\ sa < peer

\* The answer is in; the keys are derived, and localRekey and the peer's
\* candidate are read.
Decide(e) ==
    /\ open[e] /\ task[e].at = "rekey" /\ task[e].io = "ok"
    /\ keys' = [keys EXCEPT ![e][task[e].sa] = task[e].old]
    /\ task' = [task EXCEPT
           ![e].at = IF coll[e] # NoSA /\ Loses(task[e].sa, local[e].peer)
                     THEN "lost" ELSE "won",
           ![e].winner = coll[e]]
    /\ UNCHANGED <<slots, routed, local, open, drawn, net, slips>>

\* The keys cannot be derived from the answer, or the SPI is not registered.
Fail(e) ==
    /\ open[e]
    /\ task[e].at \in {"lost", "won"} \/ (task[e].at = "rekey" /\ task[e].io = "ok")
    /\ Return(e)
    /\ Slip(e, {"unfinished"} \cup Stranded(e))
    /\ UNCHANGED <<slots, keys, routed, open, drawn, net>>

\* The peer's candidate becomes current, and this end deletes its own.
InstallPeers(e) ==
    LET t == task[e] IN
    /\ open[e] /\ t.at = "lost"
    /\ Move(e, t.winner, t.old, t.sa, {t.sa}, {old[e], coll[e]})
    /\ task' = [task EXCEPT ![e].at = "redundant", ![e].io = "queued", ![e].ctx = t.sa]
    /\ Slip(e, Overtaken(e))
    /\ UNCHANGED <<keys, local, open, drawn, net>>

\* This end's SA becomes current, and it deletes the one it replaces.
InstallOwn(e) ==
    LET t == task[e] IN
    /\ open[e] /\ t.at = "won"
    /\ Move(e, t.sa, t.old, coll[e], {t.sa}, {old[e]})
    /\ task' = [task EXCEPT ![e].at = "replaced", ![e].io = "queued", ![e].ctx = t.old]
    /\ Slip(e, Overtaken(e))
    /\ UNCHANGED <<keys, local, open, drawn, net>>

\* Mutant: the SPI of the deleted SA stays registered.
FinishUnreleased(e) ==
    LET t == task[e] IN
    /\ open[e] /\ t.at \in {"redundant", "replaced"} /\ t.io \in {"ok", "failed"}
    /\ Move(e, cur[e],
            IF t.at = "replaced" /\ old[e] = t.old THEN NoSA ELSE old[e],
            IF t.at = "redundant" /\ coll[e] = t.sa THEN NoSA ELSE coll[e],
            {}, {})
    /\ Return(e)
    /\ UNCHANGED <<keys, open, drawn, net, slips>>

\* The Delete is answered or has failed: what it named is dropped.
Finish(e) ==
    LET t == task[e] IN
    /\ open[e] /\ t.at \in {"redundant", "replaced"} /\ t.io \in {"ok", "failed"}
    /\ Move(e, cur[e],
            IF t.at = "replaced" /\ old[e] = t.old THEN NoSA ELSE old[e],
            IF t.at = "redundant" /\ coll[e] = t.sa THEN NoSA ELSE coll[e],
            {}, {t.ctx})
    /\ Return(e)
    /\ UNCHANGED <<keys, open, drawn, net, slips>>

-----------------------------------------------------------------------------
(* Run.                                                                    *)

\* startRequest.  A negotiation is not started on an SA already replaced.
StartRequest(e) ==
    LET t == task[e] IN
    /\ open[e] /\ t.io = "queued"
    /\ IF t.at = "rekey" /\ t.ctx # cur[e]
       THEN /\ task' = [task EXCEPT ![e].io = "failed"]
            /\ UNCHANGED net
       ELSE /\ reqs' = reqs \cup {[from |-> e, ctx |-> t.ctx, mid |-> sent[e][t.ctx],
                                   rekey |-> t.at = "rekey", sa |-> t.sa]}
            /\ sent' = [sent EXCEPT ![e][t.ctx] = @ + 1]
            /\ task' = [task EXCEPT ![e].io = "sent"]
            /\ UNCHANGED <<resps, handled>>
    /\ UNCHANGED <<slots, keys, routed, local, open, drawn, slips>>

\* The two ends can read each other on sa.
Readable(e, sa) == sa \in Slots(e) /\ keys[e][sa] = keys[Other(e)][sa]

\* dispatch, a response to the outstanding request.
Answer(e, m) ==
    /\ open[e] /\ task[e].io = "sent"
    /\ m \in resps /\ m.to = e
    /\ m.ctx = task[e].ctx /\ m.mid = sent[e][m.ctx] - 1
    /\ Readable(e, m.ctx)
    /\ task' = [task EXCEPT ![e].io = m.answer]
    /\ resps' = resps \ {m}
    /\ UNCHANGED <<slots, keys, routed, local, open, drawn, reqs, sent, handled, slips>>

\* Mutant: a request on an SA that is gone is waited for.
ContextRetiredNever(e) == FALSE /\ UNCHANGED vars

\* The SA that carries the outstanding request is held nowhere any more.
ContextRetired(e) ==
    /\ open[e] /\ task[e].io = "sent" /\ task[e].ctx \notin Slots(e)
    /\ task' = [task EXCEPT ![e].io = "failed"]
    /\ UNCHANGED <<slots, keys, routed, local, open, drawn, net, slips>>

\* dispatch, a fresh request of the peer's.
Fresh(e, m) ==
    /\ open[e]
    /\ m \in reqs /\ m.from = Other(e)
    /\ Readable(e, m.ctx) /\ m.mid = handled[e][m.ctx]

Respond(e, m, answer) ==
    /\ handled' = [handled EXCEPT ![e][m.ctx] = @ + 1]
    /\ resps' = resps \cup {[to |-> m.from, ctx |-> m.ctx, mid |-> m.mid, answer |-> answer]}
    /\ reqs' = reqs \ {m}
    /\ UNCHANGED <<sent, drawn>>

Accepts(e, ctx) ==
    ctx = cur[e] /\ (old[e] = NoSA \/ local[e] # NoRekey) /\ coll[e] = NoSA

\* handleIKERekey: a candidate beside this end's own attempt, or the new SA.
AcceptRekey(e, m) ==
    /\ Fresh(e, m) /\ m.rekey /\ Accepts(e, m.ctx)
    /\ keys' = [keys EXCEPT ![e][m.sa] = m.ctx]
    /\ IF local[e] # NoRekey /\ local[e].old = m.ctx
       THEN /\ Move(e, cur[e], old[e], m.sa, {m.sa}, {coll[e]})
            /\ local' = [local EXCEPT ![e].peer = m.sa]
       ELSE /\ Move(e, m.sa, m.ctx, coll[e], {m.sa}, {old[e]})
            /\ UNCHANGED local
    /\ Respond(e, m, "ok")
    /\ UNCHANGED <<task, open, slips>>

\* Also refused while a Child SA is being rekeyed or retired, within the rate
\* limit, and when the key exchange fails locally; or answered with
\* INVALID_KE_PAYLOAD.
RefuseRekey(e, m, answer) ==
    /\ Fresh(e, m) /\ m.rekey
    /\ Respond(e, m, answer)
    /\ UNCHANGED <<slots, keys, routed, local, task, open, slips>>

\* adoptCollisionOnPeerDelete
Adopts(e, ctx) == ctx = cur[e] /\ coll[e] # NoSA /\ local[e] # NoRekey

\* removeRetainedContext
DeleteRetained(e, m) ==
    /\ Fresh(e, m) /\ ~m.rekey /\ m.ctx \in {old[e], coll[e]}
    /\ IF m.ctx = old[e] THEN Move(e, cur[e], NoSA, coll[e], {}, {m.ctx})
                         ELSE Move(e, cur[e], old[e], NoSA, {}, {m.ctx})
    /\ Respond(e, m, "ok")
    /\ UNCHANGED <<keys, local, task, open, slips>>

\* The peer's candidate becomes current and this end's attempt is forgotten.
DeleteAdopts(e, m) ==
    /\ Fresh(e, m) /\ ~m.rekey /\ m.ctx \notin {old[e], coll[e]} /\ Adopts(e, m.ctx)
    /\ Move(e, coll[e], old[e], NoSA, {}, {m.ctx})
    /\ local' = [local EXCEPT ![e] = NoRekey]
    /\ Respond(e, m, "ok")
    /\ UNCHANGED <<keys, task, open, slips>>

\* The peer deleted the SA in use: the mux closes.
DeleteCloses(e, m) ==
    /\ Fresh(e, m) /\ ~m.rekey /\ m.ctx \notin {old[e], coll[e]} /\ ~Adopts(e, m.ctx)
    /\ open' = [open EXCEPT ![e] = FALSE]
    /\ routed' = [routed EXCEPT ![e] = {}]
    /\ Respond(e, m, "ok")
    /\ UNCHANGED <<slots, keys, local, task, slips>>

\* An attempt under way, at either end, that has to do with sa.
Busy(sa) ==
    \E e \in Ends : sa \in {task[e].old, task[e].sa, task[e].ctx, task[e].winner}

\* expireRetainedContexts.  retainedContextDeadline is longer than an attempt
\* takes to get its answers.
ExpireOld(e) ==
    /\ open[e] /\ old[e] # NoSA /\ ~Busy(old[e])
    /\ Move(e, cur[e], NoSA, coll[e], {}, {old[e]})
    /\ UNCHANGED <<keys, local, task, open, drawn, net, slips>>

ExpireCollision(e) ==
    /\ open[e] /\ coll[e] # NoSA /\ ~Busy(coll[e])
    /\ Move(e, cur[e], old[e], NoSA, {}, {coll[e]})
    /\ UNCHANGED <<keys, local, task, open, drawn, net, slips>>

Dispatch(e) ==
    \/ \E m \in resps : Answer(e, m)
    \/ \E m \in reqs :
          \/ AcceptRekey(e, m)
          \/ \E answer \in {"refused", "group"} : RefuseRekey(e, m, answer)
          \/ DeleteRetained(e, m) \/ DeleteAdopts(e, m) \/ DeleteCloses(e, m)

RekeyIKE(e) ==
    \/ \E sa \in Nonces : Begin(e, sa)
    \/ Publish(e) \/ Ask(e) \/ AskAgain(e) \/ Abort(e) \/ Decide(e)
    \/ Fail(e) \/ InstallPeers(e) \/ InstallOwn(e) \/ Finish(e)

Run(e) ==
    \/ StartRequest(e) \/ ContextRetired(e) \/ Dispatch(e)
    \/ ExpireOld(e) \/ ExpireCollision(e)

Next == \E e \in Ends : RekeyIKE(e) \/ Run(e)

Spec == Init /\ [][Next]_vars

-----------------------------------------------------------------------------
(* Properties.                                                             *)

MaybeSA == IkeSAs \cup {NoSA}

TypeOK ==
    /\ cur \in [Ends -> IkeSAs] /\ old \in [Ends -> MaybeSA] /\ coll \in [Ends -> MaybeSA]
    /\ keys \in [Ends -> [IkeSAs -> MaybeSA]]
    /\ routed \in [Ends -> SUBSET IkeSAs] /\ open \in [Ends -> BOOLEAN]
    /\ local \in [Ends -> [old : MaybeSA, peer : MaybeSA]]
    /\ drawn \subseteq Nonces /\ slips \in [Ends -> SUBSET Slips]

(* The hub routes to a session exactly the SPIs of the SAs it dispatches on: *)
(* no sequence of rekeys, collisions, Deletes and expiries leaves the control *)
(* channel deaf (routedLocked, releaseSPILocked), and no SPI outlives the     *)
(* last slot that held its SA ("Whatever it displaces is released rather than *)
(* dropped", retainOldLocked).  Except once RekeyIKE went by slots that had   *)
(* moved since it read them, which is what the two locks allow.               *)
RoutedExactly ==
    \A e \in Ends : open[e] /\ "overtaken" \notin slips[e] => routed[e] = Slots(e)

(* RekeyIKE reads localRekey.peerNonce only while localRekey is set, also    *)
(* when Run clears it concurrently: there is no nil dereference.             *)
AttemptKnown ==
    \A e \in Ends :
        task[e].at = "rekey" /\ task[e].io = "ok" /\ coll[e] # NoSA
            => local[e] # NoRekey

(* When no rekey is under way each end can read what the other sends on the  *)
(* SA it holds current: a simultaneous rekey leaves both on one SA, also when *)
(* attempts before it were refused, unless one of the three slips happened.   *)
Settled ==
    (\A e \in Ends : open[e] /\ task[e] = Idle /\ slips[e] = {})
        => \A e \in Ends : Readable(Other(e), cur[e])

(* A rekey replaces the SA and closes nothing: the peer's Delete of an SA    *)
(* for which this end holds the replacement does not end the session.        *)
\* Refuted by the code: section 5 of the README.
StaysOpen == \A e \in Ends : open[e]

(* RekeyIKE is under way at an end, both are up and nothing has parted them: *)
(* an exchange the other end cannot read is given up, with its session       *)
(* (module IkeLiveness).  That RekeyIKE returns, since its requests are      *)
(* answered or fail because the SA they went out on is gone, is              *)
(* MCControl!RekeysEnd.                                                      *)
Rekeying(e) == task[e] # Idle /\ \A x \in Ends : open[x] /\ slips[x] = {}
=============================================================================
