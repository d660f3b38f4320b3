----------------------------- MODULE IkeExchange -----------------------------
(***************************************************************************)
(* The exchange layer of one IKE SA (ike/liveness.go): each end has one    *)
(* request outstanding, numbered by a Message ID; the other end executes   *)
(* the request with the ID it expects and answers a repeat of the last one *)
(* from its cache.  Datagrams are lost, repeated and reordered at will: a  *)
(* datagram once sent stays in net and may arrive any number of times at   *)
(* any later moment, or never.  That covers the retransmission of          *)
(* identical bytes; when Run retransmits and gives up is module            *)
(* IkeLiveness.                                                            *)
(*                                                                         *)
(* A request is the number of the operation it carries.  A failed first    *)
(* send hands its Message ID to the next operation, so the two numberings  *)
(* drift apart, and an answer could be taken for another operation's.      *)
(***************************************************************************)
EXTENDS Integers

CONSTANTS
    First,       \* First[e]: nextLocalMID of a new context at end e
    MaxMID,      \* maxMessageID, 2^32 - 1
    MaxOps       \* bound on the operations each end starts

Ends == {"initiator", "responder"}
Other(e) == IF e = "initiator" THEN "responder" ELSE "initiator"

ASSUME MaxMIDAssumption == MaxMID \in Nat
ASSUME MaxOpsAssumption == MaxOps \in Nat
ASSUME FirstAssumption == First \in [Ends -> 0..MaxMID]

\* The First of an original IKE SA: its initiator has used two Message IDs in
\* the handshake.  A context that a rekey makes starts at 0 at both ends.
OriginalSA == [e \in Ends |-> IF e = "initiator" THEN 2 ELSE 0]

Ops == 1..MaxOps
NoOp == 0
MIDs == 0..MaxMID
Failed == MaxOps + 1         \* a result that is an error

VARIABLES
    started,       \* started[e]: operations e has numbered so far
    queue,         \* Session.requests, a channel of one, holds a request
    pending,       \* Run's outstanding request: its ID, operation and kind
    nextLocal,     \* ikeContext.nextLocalMID
    nextPeer,      \* ikeContext.nextPeerMID
    cached,        \* ikeContext.lastPeerResponseID and lastPeerResponse
    teardown,      \* closeSession's direct Delete: "no", "chosen" or "sent"
    serving,       \* Session.serving
    open,          \* the mux is not closed
    refused,       \* history: handleRequest has returned an error
    net,           \* every datagram ever sent
    sentAs,        \* history: the operation that consumed each Message ID
    runs,          \* history: how often e's handler ran each peer operation
    result         \* what each operation's caller was told

vars == <<started, queue, pending, nextLocal, nextPeer, cached, teardown,
          serving, open, refused, net, sentAs, runs, result>>

Idle == [mid |-> 0, op |-> NoOp, dpd |-> FALSE]
Request(e, mid, op) == [from |-> e, type |-> "request", mid |-> mid, op |-> op]
Response(e, mid, op) == [from |-> e, type |-> "response", mid |-> mid, op |-> op]

\* The handshake's exchanges precede the context: the responder keeps its
\* answer to the last of them, which is no operation here.
Init ==
    /\ started = [e \in Ends |-> 0]
    /\ queue = [e \in Ends |-> FALSE]
    /\ pending = [e \in Ends |-> Idle]
    /\ nextLocal = First
    /\ nextPeer = [e \in Ends |-> First[Other(e)]]
    /\ cached = [e \in Ends |->
                    [mid |-> IF First[Other(e)] > 0 THEN First[Other(e)] - 1 ELSE 0,
                     op |-> NoOp]]
    /\ teardown = [e \in Ends |-> "no"]
    /\ serving = [e \in Ends |-> FALSE]
    /\ open = [e \in Ends |-> TRUE]
    /\ refused = [e \in Ends |-> FALSE]
    /\ net = {}
    /\ sentAs = [e \in Ends |-> [m \in MIDs |-> NoOp]]
    /\ runs = [e \in Ends |-> [o \in Ops |-> 0]]
    /\ result = [e \in Ends |-> [o \in Ops |-> NoOp]]

-----------------------------------------------------------------------------
(* The callers.                                                            *)

\* requestMu is free: no caller waits for a request queued or outstanding.
RequestMuFree(e) == ~queue[e] /\ (pending[e] = Idle \/ pending[e].dpd)

\* requestOnLocked: a caller queues an operation for Run and waits.
Call(e) ==
    /\ open[e] /\ RequestMuFree(e)
    /\ queue' = [queue EXCEPT ![e] = TRUE]
    /\ UNCHANGED <<started, pending, nextLocal, nextPeer, cached, teardown,
                   serving, open, net, sentAs, runs, result, refused>>

\* DeleteIKE finds that Run is not serving ...
ChooseDirectDelete(e) ==
    /\ open[e] /\ ~serving[e] /\ teardown[e] = "no"
    /\ teardown' = [teardown EXCEPT ![e] = "chosen"]
    /\ UNCHANGED <<started, queue, pending, nextLocal, nextPeer, cached,
                   serving, open, net, sentAs, runs, result, refused>>

\* ... and sends its request without Run, which may serve by now and have a
\* request of its own outstanding.  MaxOps and MaxMID bound the model here: the
\* code asks nothing, and a Delete under the last ID of all, 2^32 - 1, would have
\* nextLocalMID start again at 0.  That one request is left out.
SendUnanswered(e) ==
    /\ open[e] /\ teardown[e] = "chosen" /\ RequestMuFree(e)
    /\ started[e] < MaxOps /\ nextLocal[e] < MaxMID
    /\ teardown' = [teardown EXCEPT ![e] = "sent"]
    /\ started' = [started EXCEPT ![e] = @ + 1]
    /\ net' = net \cup {Request(e, nextLocal[e], started[e] + 1)}
    /\ sentAs' = [sentAs EXCEPT ![e][nextLocal[e]] = started[e] + 1]
    /\ nextLocal' = [nextLocal EXCEPT ![e] = @ + 1]
    /\ UNCHANGED <<queue, pending, nextPeer, cached, serving, open, runs, result, refused>>

-----------------------------------------------------------------------------
(* Run.                                                                    *)

Serve(e) ==
    /\ open[e] /\ ~serving[e]
    /\ serving' = [serving EXCEPT ![e] = TRUE]
    /\ UNCHANGED <<started, queue, pending, nextLocal, nextPeer, cached,
                   teardown, open, net, sentAs, runs, result, refused>>

\* Mutant: the Message ID is consumed before the send that may fail.
StartEarly(e, dpd, sent) ==
    /\ serving[e] /\ open[e] /\ pending[e] = Idle
    /\ started[e] < MaxOps /\ nextLocal[e] # MaxMID
    /\ started' = [started EXCEPT ![e] = @ + 1]
    /\ sentAs' = [sentAs EXCEPT ![e][nextLocal[e]] = started[e] + 1]
    /\ nextLocal' = [nextLocal EXCEPT ![e] = @ + 1]
    /\ IF sent
       THEN /\ net' = net \cup {Request(e, nextLocal[e], started[e] + 1)}
            /\ pending' = [pending EXCEPT ![e] =
                   [mid |-> nextLocal[e], op |-> started[e] + 1, dpd |-> dpd]]
            /\ UNCHANGED result
       ELSE /\ result' = [result EXCEPT ![e][started[e] + 1] = Failed]
            /\ UNCHANGED <<net, pending>>

\* startRequest: the Message ID is consumed once the request is on the wire;
\* a request that could not be sent fails and leaves the ID to the next one.
Start(e, dpd, sent) ==
    /\ serving[e] /\ open[e] /\ pending[e] = Idle
    /\ started[e] < MaxOps /\ nextLocal[e] # MaxMID
    /\ started' = [started EXCEPT ![e] = @ + 1]
    /\ IF sent
       THEN /\ net' = net \cup {Request(e, nextLocal[e], started[e] + 1)}
            /\ pending' = [pending EXCEPT ![e] =
                   [mid |-> nextLocal[e], op |-> started[e] + 1, dpd |-> dpd]]
            /\ sentAs' = [sentAs EXCEPT ![e][nextLocal[e]] = started[e] + 1]
            /\ nextLocal' = [nextLocal EXCEPT ![e] = @ + 1]
            /\ UNCHANGED result
       ELSE /\ result' = [result EXCEPT ![e][started[e] + 1] = Failed]
            /\ UNCHANGED <<net, pending, sentAs, nextLocal>>

\* Run takes the queued request when nothing is outstanding.
StartQueued(e, sent) ==
    /\ queue[e]
    /\ Start(e, FALSE, sent)
    /\ queue' = [queue EXCEPT ![e] = FALSE]
    /\ UNCHANGED <<nextPeer, cached, teardown, serving, open, runs, refused>>

\* A liveness probe, Run's own operation.
Probe(e, sent) ==
    /\ Start(e, TRUE, sent)
    /\ UNCHANGED <<queue, nextPeer, cached, teardown, serving, open, runs, refused>>

\* The last ID is never used: the queued request fails and the session ends.
\* A probe without an ID is not sent and tried again.
Exhausted(e) ==
    /\ serving[e] /\ open[e] /\ pending[e] = Idle
    /\ queue[e] /\ nextLocal[e] = MaxMID
    /\ queue' = [queue EXCEPT ![e] = FALSE]
    /\ open' = [open EXCEPT ![e] = FALSE]
    /\ UNCHANGED <<started, pending, nextLocal, nextPeer, cached, teardown,
                   serving, net, sentAs, runs, result, refused>>

\* The session ends: the retransmissions are used up, Run's context ends or
\* closeSession closes the mux.  The caller waiting for a result is told.
Close(e) ==
    /\ open[e]
    /\ open' = [open EXCEPT ![e] = FALSE]
    /\ UNCHANGED <<started, queue, pending, nextLocal, nextPeer, cached,
                   teardown, serving, net, sentAs, runs, result, refused>>

-----------------------------------------------------------------------------
(* dispatch.                                                               *)

\* Mutant: whatever response arrives answers the request outstanding.
MatchingAny(e, m) ==
    /\ m.type = "response" /\ m.from = Other(e)
    /\ pending[e] # Idle

\* A response answers the outstanding request with its ID, and no other.
Matching(e, m) ==
    /\ m.type = "response" /\ m.from = Other(e)
    /\ pending[e] # Idle
    /\ m.mid = pending[e].mid

\* The waiting caller gets the response, or an error if it does not decode;
\* an undecodable one ends the session as well.
Answer(e, m, decodes) ==
    /\ serving[e] /\ open[e]
    /\ Matching(e, m)
    /\ result' = [result EXCEPT ![e][pending[e].op] =
                     IF decodes THEN m.op ELSE Failed]
    /\ pending' = [pending EXCEPT ![e] = Idle]
    /\ \/ open' = open
       \/ ~decodes /\ open' = [open EXCEPT ![e] = FALSE]
    /\ UNCHANGED <<started, queue, nextLocal, nextPeer, cached, teardown,
                   serving, net, sentAs, runs, refused>>

\* Mutant: a request older than the one expected is executed again.
ExpectedOrOlder(e, m) ==
    /\ m.type = "request" /\ m.from = Other(e)
    /\ m.mid <= nextPeer[e]

\* The request is the one nextPeerMID expects.
Expected(e, m) ==
    /\ m.type = "request" /\ m.from = Other(e)
    /\ m.mid = nextPeer[e]

\* A request that was answered last is answered again from the cache.
Repeated(e, m) ==
    /\ serving[e] /\ open[e]
    /\ m.type = "request" /\ m.from = Other(e)
    /\ nextPeer[e] > 0 /\ m.mid = nextPeer[e] - 1 /\ cached[e].mid = m.mid
    /\ net' = net \cup {Response(e, m.mid, cached[e].op)}
    /\ UNCHANGED <<started, queue, pending, nextLocal, nextPeer, cached,
                   teardown, serving, open, sentAs, runs, result, refused>>

\* handleRequest runs the operation; the answer is cached, sent, and the
\* window moves on.  Neither end uses the last ID, on which dispatch would
\* close the session instead.
Execute(e, m) ==
    /\ serving[e] /\ open[e]
    /\ Expected(e, m)
    /\ nextPeer[e] # MaxMID
    /\ runs' = [runs EXCEPT ![e][m.op] = @ + 1]
    /\ cached' = [cached EXCEPT ![e] = [mid |-> m.mid, op |-> m.op]]
    /\ nextPeer' = [nextPeer EXCEPT ![e] = @ + 1]
    /\ net' = net \cup {Response(e, m.mid, m.op)}
    /\ UNCHANGED <<started, queue, pending, nextLocal, teardown, serving, open,
                   sentAs, result, refused>>

\* handleRequest fails, as it does once the peer has deleted the IKE SA: the
\* answer goes out and the session ends.
ExecuteFails(e, m) ==
    /\ serving[e] /\ open[e]
    /\ Expected(e, m)
    /\ nextPeer[e] # MaxMID
    /\ runs' = [runs EXCEPT ![e][m.op] = @ + 1]
    /\ net' = net \cup {Response(e, m.mid, m.op)}
    /\ open' = [open EXCEPT ![e] = FALSE]
    /\ refused' = [refused EXCEPT ![e] = TRUE]
    /\ UNCHANGED <<started, queue, pending, nextLocal, nextPeer, cached,
                   teardown, serving, sentAs, result>>

Dispatch(e, m) ==
    \/ \E decodes \in BOOLEAN : Answer(e, m, decodes)
    \/ Repeated(e, m)
    \/ Execute(e, m)
    \/ ExecuteFails(e, m)

Next ==
    \E e \in Ends :
        \/ Call(e)
        \/ ChooseDirectDelete(e)
        \/ SendUnanswered(e)
        \/ Serve(e)
        \/ \E sent \in BOOLEAN : StartQueued(e, sent)
        \/ Exhausted(e)
        \/ \E sent \in BOOLEAN : Probe(e, sent)
        \/ Close(e)
        \/ \E m \in net : Dispatch(e, m)

Spec == Init /\ [][Next]_vars

-----------------------------------------------------------------------------
(* Properties.                                                             *)

Messages == [from : Ends, type : {"request", "response"}, mid : MIDs, op : 0..MaxOps]

TypeOK ==
    /\ started \in [Ends -> 0..MaxOps]
    /\ queue \in [Ends -> BOOLEAN]
    /\ pending \in [Ends -> [mid : MIDs, op : 0..MaxOps, dpd : BOOLEAN]]
    /\ nextLocal \in [Ends -> MIDs]
    /\ nextPeer \in [Ends -> MIDs]
    /\ cached \in [Ends -> [mid : MIDs, op : 0..MaxOps]]
    /\ teardown \in [Ends -> {"no", "chosen", "sent"}]
    /\ serving \in [Ends -> BOOLEAN] /\ open \in [Ends -> BOOLEAN]
    /\ refused \in [Ends -> BOOLEAN]
    /\ net \subseteq Messages
    /\ sentAs \in [Ends -> [MIDs -> 0..MaxOps]]
    /\ runs \in [Ends -> [Ops -> Nat]]
    /\ result \in [Ends -> [Ops -> 0..Failed]]

(* The other end runs an operation at most once, however often and however *)
(* late its request and its answers are delivered.                         *)
AtMostOnce == \A e \in Ends, o \in Ops : runs[e][o] <= 1

\* Operation o of end e went out under some Message ID.
WentOut(e, o) == \E m \in MIDs : sentAs[e][m] = o

(* Operations run in the order they were numbered, none that went out       *)
(* being skipped: a Delete never overtakes the negotiation before it.       *)
InOrder ==
    \A e \in Ends, o, p \in Ops :
        o < p /\ runs[Other(e)][p] > 0 /\ WentOut(e, o) => runs[Other(e)][o] > 0

(* A caller that is told its exchange succeeded holds the answer to its own *)
(* operation, which the other end has run: not one a delayed answer to an   *)
(* earlier request under the same or another ID could be.                   *)
AnswersItsOwn ==
    \A e \in Ends, o \in Ops :
        result[e][o] \in Ops => result[e][o] = o /\ runs[Other(e)][o] = 1

(* The two ends' windows never drift by more than the request outstanding,  *)
(* the direct Delete and the request the other end closed on: the ID it     *)
(* expects is one that was used or the next to be used, so no exchange is   *)
(* stuck behind an ID that nothing will ever carry.                         *)
WindowsInStep ==
    \A e \in Ends :
        /\ nextPeer[Other(e)] <= nextLocal[e]
        /\ nextLocal[e] - nextPeer[Other(e)] <=
               (IF pending[e] = Idle THEN 0 ELSE 1)
             + (IF teardown[e] = "sent" THEN 1 ELSE 0)
             + (IF refused[Other(e)] THEN 1 ELSE 0)

\* The IDs end e has used, and of those the ones the other end has handled.
Used(e) == First[e] .. nextLocal[e] - 1
Handled(e) == First[e] .. (IF refused[Other(e)] THEN nextPeer[Other(e)]
                           ELSE nextPeer[Other(e)] - 1)

\* An ID stands for one operation, and the IDs used for them in order.
IdsInOrder(e) ==
    /\ \A m \in MIDs : sentAs[e][m] <= started[e]
    /\ \A m \in MIDs : m \in Used(e) <=> sentAs[e][m] # NoOp
    /\ \A m, n \in Used(e) : m < n => sentAs[e][m] < sentAs[e][n]

\* The operations that have run are those of the IDs handled.
RunIsHandled(e) ==
    /\ First[e] <= nextPeer[Other(e)] /\ nextPeer[Other(e)] <= nextLocal[e]
    /\ Handled(e) \subseteq Used(e)
    /\ \A o \in Ops : runs[Other(e)][o] =
           IF \E m \in Handled(e) : sentAs[e][m] = o THEN 1 ELSE 0
    /\ refused[e] => ~open[e]

RequestsMatch(e) ==
    \A d \in net : d.type = "request" /\ d.from = e =>
        d.mid \in Used(e) /\ d.op = sentAs[e][d.mid]

ResponsesMatch(e) ==
    \A d \in net : d.type = "response" /\ d.from = Other(e) =>
        d.mid \in Handled(e) /\ d.op = sentAs[e][d.mid]

CacheMatches(e) ==
    nextPeer[Other(e)] > First[e] =>
        cached[Other(e)].op = sentAs[e][nextPeer[Other(e)] - 1]

PendingMatches(e) ==
    pending[e] # Idle =>
        pending[e].mid \in Used(e) /\ pending[e].op = sentAs[e][pending[e].mid]

ResultsMatch(e) ==
    \A o \in Ops : result[e][o] \in Ops =>
        result[e][o] = o /\ runs[Other(e)][o] = 1

(* What makes them inductive.  An ID stands for one operation, in order, on *)
(* every datagram and in every memory that mentions it; the operations that *)
(* have run are exactly those of the IDs handled, a prefix of the IDs used. *)
Consistent ==
    \A e \in Ends :
        /\ IdsInOrder(e) /\ RunIsHandled(e)
        /\ RequestsMatch(e) /\ ResponsesMatch(e)
        /\ CacheMatches(e) /\ PendingMatches(e) /\ ResultsMatch(e)

Stage(e, o) ==
    CASE runs[Other(e)][o] > 1 -> "run twice"
      [] runs[Other(e)][o] = 1 /\ result[e][o] = o -> "complete"
      [] runs[Other(e)][o] = 1 /\ result[e][o] # o -> "run"
      [] runs[Other(e)][o] = 0 -> IF WentOut(e, o) THEN "sent" ELSE "idle"

(* The exchange layer implements ordered, at-most-once remote operations.   *)
Abstract == INSTANCE Rpc WITH
                stage <- [e \in Ends |-> [o \in Ops |-> Stage(e, o)]]
Refines == Abstract!Spec
=============================================================================
