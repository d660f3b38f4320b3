------------------------- MODULE IkeExchangeProofs --------------------------
(***************************************************************************)
(* Proofs that the exchange layer of an IKE SA keeps its types, runs every *)
(* operation at most once, in order, and hands every caller its own        *)
(* answer, for every size of the Message ID space and every number of      *)
(* operations.  Then, from the same invariant and two facts about callers, *)
(* that the two ends' windows stay in step and that the layer implements   *)
(* ordered, at-most-once remote operations.                                *)
(***************************************************************************)
EXTENDS IkeExchange, TLAPS

LEMMA Others ==
    ASSUME NEW e \in Ends
    PROVE  /\ Other(e) \in Ends
           /\ Other(Other(e)) = e
           /\ Other(e) # e
           /\ Ends = {e, Other(e)}
BY DEF Ends, Other

LEMMA NextID ==
    ASSUME NEW n \in MIDs, n # MaxMID \/ n < MaxMID
    PROVE  n + 1 \in MIDs
BY MaxMIDAssumption DEF MIDs

LEMMA Numbers ==
    ASSUME TypeOK, NEW e \in Ends
    PROVE  /\ nextLocal[e] \in MIDs /\ nextLocal[e] \in Nat
           /\ nextPeer[e] \in MIDs /\ nextPeer[e] \in Nat
           /\ started[e] \in 0..MaxOps /\ started[e] \in Nat
           /\ First[e] \in Nat
<1>1. nextLocal[e] \in MIDs /\ nextPeer[e] \in MIDs /\ started[e] \in 0..MaxOps
  BY Zenon DEF TypeOK
<1>2. First[e] \in 0..MaxMID
  BY FirstAssumption, Zenon
<1> QED
  BY <1>1, <1>2, MaxMIDAssumption, MaxOpsAssumption DEF MIDs

LEMMA OpsApart == Failed \notin Ops /\ NoOp \notin Ops /\ Ops \subseteq Nat
BY MaxOpsAssumption DEF Failed, NoOp, Ops

\* A range of IDs with its end put on.
LEMMA Grown ==
    ASSUME NEW a \in Nat, NEW b \in Nat, a <= b
    PROVE  a .. b = (a .. b - 1) \cup {b} /\ b \notin a .. b - 1
OBVIOUS

LEMMA Counted ==
    ASSUME NEW f \in [Ops -> Nat], NEW o
    PROVE  [f EXCEPT ![o] = @ + 1] \in [Ops -> Nat]
<1> DEFINE g == [f EXCEPT ![o] = f[o] + 1]
<1>1. \A k \in Ops : g[k] = IF k = o THEN f[o] + 1 ELSE f[k]
  BY Zenon
<1>2. \A k \in Ops : g[k] \in Nat
  <2> HIDE DEF g
  <2> QED
    BY <1>1
<1>3. g = [k \in Ops |-> g[k]]
  BY Zenon
<1> HIDE DEF g
<1>4. g \in [Ops -> Nat]
  BY <1>2, <1>3, Zenon
<1> QED
  BY <1>4, Zenon DEF g

(* Every variable of the exchange layer keeps its type: Message IDs stay    *)
(* within their 32 bits, because startRequest leaves the last one unused.   *)
THEOREM TypeCorrect == Spec => []TypeOK
<1> USE MaxMIDAssumption, MaxOpsAssumption, FirstAssumption
<1>1. Init => TypeOK
  <2> SUFFICES ASSUME Init PROVE TypeOK
    BY Zenon
  <2>1. \A e \in Ends : First[Other(e)] \in MIDs
    BY Others, Zenon DEF MIDs
  <2>2. cached \in [Ends -> [mid : MIDs, op : 0..MaxOps]]
    BY <2>1 DEF Init, MIDs, NoOp
  <2>3. nextLocal \in [Ends -> MIDs] /\ nextPeer \in [Ends -> MIDs]
    BY <2>1, Zenon DEF Init, MIDs
  <2>4. pending \in [Ends -> [mid : MIDs, op : 0..MaxOps, dpd : BOOLEAN]]
    BY DEF Init, Idle, MIDs, NoOp
  <2> QED
    BY <2>2, <2>3, <2>4 DEF Init, TypeOK, NoOp, Ops, Failed, MIDs, Ends
<1>2. TypeOK /\ [Next]_vars => TypeOK'
  <2> SUFFICES ASSUME TypeOK, [Next]_vars PROVE TypeOK'
    BY Zenon
  <2> USE DEF TypeOK
  <2>1. ASSUME NEW e \in Ends, Call(e) PROVE TypeOK'
    BY <2>1, Zenon DEF Call
  <2>2. ASSUME NEW e \in Ends, ChooseDirectDelete(e) PROVE TypeOK'
    BY <2>2, Zenon DEF ChooseDirectDelete
  <2>3. ASSUME NEW e \in Ends, SendUnanswered(e) PROVE TypeOK'
    <3>0. nextLocal[e] < MaxMID /\ started[e] < MaxOps
      BY <2>3, Zenon DEF SendUnanswered
    <3>1. nextLocal[e] \in MIDs /\ nextLocal[e] + 1 \in MIDs
      <4> HIDE DEF TypeOK
      <4> QED
        BY <3>0, Numbers, NextID, Zenon
    <3>2. started[e] + 1 \in 0..MaxOps
      BY <3>0
    <3>3. Request(e, nextLocal[e], started[e] + 1) \in Messages
      BY <3>1, <3>2, Zenon DEF Request, Messages
    <3>4. sentAs' \in [Ends -> [MIDs -> 0..MaxOps]]
      BY <2>3, <3>1, <3>2, Zenon DEF SendUnanswered
    <3> QED
      BY <2>3, <3>1, <3>2, <3>3, <3>4, Zenon DEF SendUnanswered
  <2>4. ASSUME NEW e \in Ends, Serve(e) PROVE TypeOK'
    BY <2>4, Zenon DEF Serve
  <2>5. ASSUME NEW e \in Ends, NEW dpd \in BOOLEAN, NEW sent \in BOOLEAN,
               Start(e, dpd, sent)
        PROVE  /\ started' \in [Ends -> 0..MaxOps]
               /\ pending' \in [Ends -> [mid : MIDs, op : 0..MaxOps, dpd : BOOLEAN]]
               /\ nextLocal' \in [Ends -> MIDs]
               /\ net' \subseteq Messages
               /\ sentAs' \in [Ends -> [MIDs -> 0..MaxOps]]
               /\ result' \in [Ends -> [Ops -> 0..Failed]]
    <3>0. nextLocal[e] # MaxMID /\ started[e] < MaxOps
      BY <2>5, Zenon DEF Start
    <3>1. nextLocal[e] \in MIDs /\ nextLocal[e] + 1 \in MIDs
      <4> HIDE DEF TypeOK
      <4> QED
        BY <3>0, Numbers, NextID, Zenon
    <3>2. started[e] + 1 \in 0..MaxOps /\ started[e] + 1 \in Ops
      BY <3>0 DEF Ops
    <3>3. Request(e, nextLocal[e], started[e] + 1) \in Messages
      BY <3>1, <3>2, Zenon DEF Request, Messages
    <3>4. CASE sent
      <4>0. /\ started' = [started EXCEPT ![e] = @ + 1]
            /\ net' = net \cup {Request(e, nextLocal[e], started[e] + 1)}
            /\ pending' = [pending EXCEPT ![e] =
                   [mid |-> nextLocal[e], op |-> started[e] + 1, dpd |-> dpd]]
            /\ sentAs' = [sentAs EXCEPT ![e][nextLocal[e]] = started[e] + 1]
            /\ nextLocal' = [nextLocal EXCEPT ![e] = @ + 1]
            /\ result' = result
        BY <2>5, <3>4, Zenon DEF Start
      <4>1. sentAs' \in [Ends -> [MIDs -> 0..MaxOps]]
        BY <4>0, <3>1, <3>2, Zenon
      <4>2. pending' \in [Ends -> [mid : MIDs, op : 0..MaxOps, dpd : BOOLEAN]]
        BY <4>0, <3>1, <3>2, Zenon
      <4>3. started' \in [Ends -> 0..MaxOps] /\ nextLocal' \in [Ends -> MIDs]
        BY <4>0, <3>1, <3>2, Zenon
      <4> QED
        BY <3>3, <4>0, <4>1, <4>2, <4>3, Zenon
    <3>5. CASE ~sent
      <4>0. /\ started' = [started EXCEPT ![e] = @ + 1]
            /\ result' = [result EXCEPT ![e][started[e] + 1] = Failed]
            /\ UNCHANGED <<net, pending, sentAs, nextLocal>>
        BY <2>5, <3>5, Zenon DEF Start
      <4>1. Failed \in 0..Failed
        BY DEF Failed
      <4>2. result' \in [Ends -> [Ops -> 0..Failed]]
        BY <4>0, <4>1, <3>2, Zenon
      <4>3. started' \in [Ends -> 0..MaxOps]
        BY <4>0, <3>2, Zenon
      <4> QED
        BY <4>0, <4>2, <4>3, Zenon
    <3> QED
      BY <3>4, <3>5, Zenon
  <2>6. ASSUME NEW e \in Ends, NEW sent \in BOOLEAN, StartQueued(e, sent)
        PROVE  TypeOK'
    <3>1. Start(e, FALSE, sent)
      BY <2>6, Zenon DEF StartQueued
    <3> QED
      BY <2>5, <2>6, <3>1, Zenon DEF StartQueued
  <2>7. ASSUME NEW e \in Ends, NEW sent \in BOOLEAN, Probe(e, sent)
        PROVE  TypeOK'
    <3>1. Start(e, TRUE, sent)
      BY <2>7, Zenon DEF Probe
    <3> QED
      BY <2>5, <2>7, <3>1, Zenon DEF Probe
  <2>8. ASSUME NEW e \in Ends, Exhausted(e) PROVE TypeOK'
    BY <2>8, Zenon DEF Exhausted
  <2>9. ASSUME NEW e \in Ends, Close(e) PROVE TypeOK'
    BY <2>9, Zenon DEF Close
  <2>10. ASSUME NEW e \in Ends, NEW m \in net, NEW decodes \in BOOLEAN,
                Answer(e, m, decodes)
         PROVE  TypeOK'
    <3>1. m \in Messages
      BY Zenon
    <3>2. (IF decodes THEN m.op ELSE Failed) \in 0..Failed
      BY <3>1 DEF Messages, Failed
    <3>3. result' \in [Ends -> [Ops -> 0..Failed]]
      BY <2>10, <3>2, Zenon DEF Answer
    <3>4. Idle \in [mid : MIDs, op : 0..MaxOps, dpd : BOOLEAN]
      BY DEF Idle, MIDs, NoOp
    <3>5. pending' \in [Ends -> [mid : MIDs, op : 0..MaxOps, dpd : BOOLEAN]]
      BY <2>10, <3>4, Zenon DEF Answer
    <3>6. open' \in [Ends -> BOOLEAN]
      BY <2>10, Zenon DEF Answer
    <3> QED
      BY <2>10, <3>3, <3>5, <3>6, Zenon DEF Answer
  <2>11. ASSUME NEW e \in Ends, NEW m \in net, Repeated(e, m) PROVE TypeOK'
    <3>1. Response(e, m.mid, cached[e].op) \in Messages
      BY Zenon DEF Response, Messages
    <3> QED
      BY <2>11, <3>1, Zenon DEF Repeated
  <2>12. ASSUME NEW e \in Ends, NEW m \in net, Execute(e, m) PROVE TypeOK'
    <3>1. m.mid \in MIDs /\ m.op \in 0..MaxOps
      BY Zenon DEF Messages
    <3>2. Response(e, m.mid, m.op) \in Messages
      BY <3>1, Zenon DEF Response, Messages
    <3>0. /\ nextPeer[e] # MaxMID /\ nextPeer' = [nextPeer EXCEPT ![e] = @ + 1]
          /\ runs' = [runs EXCEPT ![e][m.op] = @ + 1]
      BY <2>12, Zenon DEF Execute
    <3>3. nextPeer' \in [Ends -> MIDs]
      <4>1. nextPeer[e] + 1 \in MIDs
        BY <2>12, <3>0, NextID, Zenon
      <4> QED
        BY <2>12, <3>0, <4>1, Zenon
    <3>4. runs' \in [Ends -> [Ops -> Nat]]
      <4>1. [runs[e] EXCEPT ![m.op] = @ + 1] \in [Ops -> Nat]
        <5>1. runs[e] \in [Ops -> Nat]
          BY <2>12, Zenon
        <5> QED
          BY <5>1, Counted, Zenon
      <4> QED
        BY <2>12, <3>0, <4>1, Zenon
    <3>5. cached' \in [Ends -> [mid : MIDs, op : 0..MaxOps]]
      BY <2>12, <3>1, Zenon DEF Execute
    <3> QED
      BY <2>12, <3>2, <3>3, <3>4, <3>5, Zenon DEF Execute
  <2>13. ASSUME NEW e \in Ends, NEW m \in net, ExecuteFails(e, m) PROVE TypeOK'
    <3>1. m.mid \in MIDs /\ m.op \in 0..MaxOps
      BY Zenon DEF Messages
    <3>2. Response(e, m.mid, m.op) \in Messages
      BY <3>1, Zenon DEF Response, Messages
    <3>3. runs' = [runs EXCEPT ![e][m.op] = @ + 1]
      BY <2>13, Zenon DEF ExecuteFails
    <3>4. runs' \in [Ends -> [Ops -> Nat]]
      <4>1. [runs[e] EXCEPT ![m.op] = @ + 1] \in [Ops -> Nat]
        <5>1. runs[e] \in [Ops -> Nat]
          BY <2>13, Zenon
        <5> QED
          BY <5>1, Counted, Zenon
      <4> QED
        BY <2>13, <3>3, <4>1, Zenon
    <3> QED
      BY <2>13, <3>2, <3>4, Zenon DEF ExecuteFails
  <2>14. CASE UNCHANGED vars
    BY <2>14, Zenon DEF vars
  <2> HIDE DEF TypeOK
  <2> QED
    BY <2>1, <2>2, <2>3, <2>4, <2>6, <2>7, <2>8, <2>9, <2>10, <2>11, <2>12,
       <2>13, <2>14, Zenon DEF Next, Dispatch
<1> QED
  BY <1>1, <1>2, PTL DEF Spec

-----------------------------------------------------------------------------
(* A request that goes out keeps Consistent.                               *)

\* The conjuncts of Consistent at one end.
EndConsistent(e) ==
    /\ IdsInOrder(e) /\ RunIsHandled(e)
    /\ RequestsMatch(e) /\ ResponsesMatch(e)
    /\ CacheMatches(e) /\ PendingMatches(e) /\ ResultsMatch(e)

\* A new request has gone out at end e.
Emitted(e) ==
    /\ started[e] < MaxOps /\ nextLocal[e] < MaxMID
    /\ started' = [started EXCEPT ![e] = @ + 1]
    /\ nextLocal' = [nextLocal EXCEPT ![e] = @ + 1]
    /\ sentAs' = [sentAs EXCEPT ![e][nextLocal[e]] = started[e] + 1]
    /\ net' = net \cup {Request(e, nextLocal[e], started[e] + 1)}
    /\ UNCHANGED <<nextPeer, cached, open, refused, runs, result>>

LEMMA EmittedKeeps ==
    ASSUME TypeOK, Consistent, NEW e \in Ends, Emitted(e),
           \/ pending' = pending
           \/ \E dpd \in BOOLEAN : pending' = [pending EXCEPT ![e] =
                  [mid |-> nextLocal[e], op |-> started[e] + 1, dpd |-> dpd]]
    PROVE  Consistent'
<1> DEFINE p == Other(e)
<1>0. p \in Ends /\ p # e /\ Other(p) = e /\ Ends = {e, p}
  BY Others, Zenon
<1>1. EndConsistent(e) /\ EndConsistent(p)
  BY <1>0, Zenon DEF Consistent, EndConsistent
<1>2. /\ nextLocal[e] \in Nat /\ nextLocal[e] < MaxMID /\ nextLocal[e] \in MIDs
      /\ started[e] \in Nat /\ started[e] + 1 \in Ops /\ First[e] \in Nat
      /\ nextPeer[p] \in Nat
  <2>1. nextLocal[e] < MaxMID /\ started[e] < MaxOps
    BY Zenon DEF Emitted
  <2>2. started[e] + 1 \in Ops
    BY <2>1, Numbers, MaxOpsAssumption DEF Ops
  <2> QED
    BY <1>0, <2>1, <2>2, Numbers, Zenon
<1>3. /\ started'[e] = started[e] + 1 /\ nextLocal'[e] = nextLocal[e] + 1
      /\ \A m \in MIDs : sentAs'[e][m] =
             IF m = nextLocal[e] THEN started[e] + 1 ELSE sentAs[e][m]
      /\ started'[p] = started[p] /\ nextLocal'[p] = nextLocal[p]
      /\ sentAs'[p] = sentAs[p]
  BY <1>0, <1>2 DEF Emitted, TypeOK
<1>4. nextPeer' = nextPeer /\ cached' = cached /\ open' = open
      /\ refused' = refused /\ runs' = runs /\ result' = result
  BY Zenon DEF Emitted
<1>5. /\ Used(e)' = Used(e) \cup {nextLocal[e]} /\ nextLocal[e] \notin Used(e)
      /\ Used(e) \subseteq MIDs
      /\ Handled(e)' = Handled(e)
      /\ Used(p)' = Used(p) /\ Handled(p)' = Handled(p)
  <2>1. First[e] <= nextLocal[e]
    BY <1>1, <1>2 DEF EndConsistent, RunIsHandled
  <2>2. Used(e) = First[e] .. nextLocal[e] - 1 /\ Used(e)' = First[e] .. nextLocal[e]
    BY <1>2, <1>3 DEF Used
  <2>3. Used(e)' = Used(e) \cup {nextLocal[e]} /\ nextLocal[e] \notin Used(e)
    BY <1>2, <2>1, <2>2, Grown, Zenon
  <2>4. Used(e) \subseteq MIDs
    BY <1>2, <2>2, MaxMIDAssumption DEF MIDs
  <2>5. Used(p)' = Used(p)
    BY <1>3, Zenon DEF Used
  <2>6. Handled(e)' = Handled(e) /\ Handled(p)' = Handled(p)
    BY <1>4, Zenon DEF Handled
  <2> QED
    BY <2>3, <2>4, <2>5, <2>6, Zenon
<1>6. Handled(e) \subseteq Used(e) /\ Handled(p) \subseteq Used(p)
  BY <1>1, Zenon DEF EndConsistent, RunIsHandled
<1>7. IdsInOrder(e)'
  <2>1. \A m \in MIDs : sentAs[e][m] \in Nat /\ sentAs[e][m] <= started[e]
    BY <1>1, SMTT(30) DEF EndConsistent, IdsInOrder, TypeOK
  <2>2. \A m \in MIDs : m \in Used(e) <=> sentAs[e][m] # NoOp
    BY <1>1, Zenon DEF EndConsistent, IdsInOrder
  <2>3. \A m, n \in Used(e) : m < n => sentAs[e][m] < sentAs[e][n]
    BY <1>1, Zenon DEF EndConsistent, IdsInOrder
  <2>4. \A m \in MIDs : sentAs'[e][m] <= started'[e]
    BY <1>2, <1>3, <2>1
  <2>5. \A m \in MIDs : m \in Used(e)' <=> sentAs'[e][m] # NoOp
    BY <1>2, <1>3, <1>5, <2>2 DEF NoOp
  <2>6. \A m \in Used(e) : m < nextLocal[e]
    BY <1>2 DEF Used
  <2>7. \A m, n \in Used(e)' : m < n => sentAs'[e][m] < sentAs'[e][n]
    <3> SUFFICES ASSUME NEW m \in Used(e)', NEW n \in Used(e)', m < n
                 PROVE  sentAs'[e][m] < sentAs'[e][n]
      BY Zenon
    <3>1. m \in MIDs /\ n \in MIDs
      BY <1>2, <1>5, Zenon
    <3>2. m \in Used(e) /\ m # nextLocal[e]
      BY <1>2, <1>5, <2>6, <3>1 DEF MIDs
    <3>3. CASE n = nextLocal[e]
      BY <1>2, <1>3, <2>1, <3>1, <3>2, <3>3
    <3>4. CASE n # nextLocal[e]
      BY <1>3, <1>5, <2>3, <3>1, <3>2, <3>4, Zenon
    <3> QED
      BY <3>3, <3>4, Zenon
  <2> QED
    BY <2>4, <2>5, <2>7, Zenon DEF IdsInOrder
<1>8. RunIsHandled(e)'
  <2>1. \A m \in Handled(e) : sentAs'[e][m] = sentAs[e][m]
    BY <1>3, <1>5, <1>6, Zenon
  <2>2. First[e] <= nextPeer[p] /\ nextPeer[p] <= nextLocal'[e]
        /\ (refused[e] => ~open[e])
        /\ \A o \in Ops : runs[p][o] =
               IF \E m \in Handled(e) : sentAs[e][m] = o THEN 1 ELSE 0
    BY <1>1, <1>2, <1>3 DEF EndConsistent, RunIsHandled
  <2> QED
    BY <1>4, <1>5, <1>6, <2>1, <2>2 DEF RunIsHandled
<1>9. RequestsMatch(e)' /\ RequestsMatch(p)'
  <2>1. \A d \in net' : d \in net \/ d = Request(e, nextLocal[e], started[e] + 1)
    BY Zenon DEF Emitted
  <2>2. RequestsMatch(e) /\ RequestsMatch(p)
    BY <1>1, Zenon DEF EndConsistent
  <2>3. RequestsMatch(e)'
    BY <1>2, <1>3, <1>5, <2>1, <2>2 DEF RequestsMatch, Request
  <2>4. RequestsMatch(p)'
    <3>1. \A d \in net' : d.from = p => d \in net
      BY <1>0, <2>1 DEF Request
    <3>2. sentAs'[p] = sentAs[p] /\ Used(p)' = Used(p)
      BY <1>3, <1>5, Zenon
    <3> QED
      BY <2>2, <3>1, <3>2, Zenon DEF RequestsMatch
  <2> QED
    BY <2>3, <2>4, Zenon
<1>10. ResponsesMatch(e)' /\ ResponsesMatch(p)'
  <2>1. \A d \in net' : d.type = "response" => d \in net
    BY SMTT(30) DEF Emitted, Request
  <2>2. ResponsesMatch(e)'
    BY <1>1, <1>3, <1>5, <1>6, <2>1, Zenon DEF EndConsistent, ResponsesMatch
  <2>3. ResponsesMatch(p)'
    BY <1>1, <1>3, <1>5, <2>1, Zenon DEF EndConsistent, ResponsesMatch
  <2> QED
    BY <2>2, <2>3, Zenon
<1>11. CacheMatches(e)'
  <2> SUFFICES ASSUME nextPeer[p] > First[e]
               PROVE  cached[p].op = sentAs'[e][nextPeer[p] - 1]
    BY <1>4, Zenon DEF CacheMatches
  <2>1. nextPeer[p] - 1 \in Handled(e)
    BY <1>2 DEF Handled
  <2>2. nextPeer[p] - 1 \in MIDs /\ nextPeer[p] - 1 # nextLocal[e]
    BY <1>5, <1>6, <2>1, Zenon
  <2> QED
    BY <1>1, <1>3, <2>2, Zenon DEF EndConsistent, CacheMatches
<1>12. PendingMatches(e)' /\ PendingMatches(p)'
  <2>1. CASE pending' = pending
    BY <1>1, <1>3, <1>5, <2>1, Zenon DEF EndConsistent, PendingMatches
  <2>2. CASE \E dpd \in BOOLEAN : pending' = [pending EXCEPT ![e] =
                  [mid |-> nextLocal[e], op |-> started[e] + 1, dpd |-> dpd]]
    <3>1. pending'[e].mid = nextLocal[e] /\ pending'[e].op = started[e] + 1
          /\ pending'[p] = pending[p]
      BY <1>0, <2>2, SMTT(30) DEF TypeOK
    <3> QED
      BY <1>1, <1>2, <1>3, <1>5, <3>1, Zenon DEF EndConsistent, PendingMatches
  <2> QED
    BY <2>1, <2>2, Zenon
<1>13. ResultsMatch(e)' /\ ResultsMatch(p)'
  <2>1. ResultsMatch(e) /\ ResultsMatch(p)
    BY <1>1, Zenon DEF EndConsistent
  <2> QED
    BY <1>4, <2>1, Zenon DEF ResultsMatch
<1>14. IdsInOrder(p)' /\ RunIsHandled(p)' /\ CacheMatches(p)'
  <2>1. IdsInOrder(p) /\ RunIsHandled(p) /\ CacheMatches(p)
    BY <1>1, Zenon DEF EndConsistent
  <2>2. /\ started'[p] = started[p] /\ nextLocal'[p] = nextLocal[p]
        /\ sentAs'[p] = sentAs[p] /\ Used(p)' = Used(p) /\ Handled(p)' = Handled(p)
    BY <1>3, <1>5, Zenon
  <2>3. IdsInOrder(p)'
    BY <2>1, <2>2, Zenon DEF IdsInOrder
  <2>4. RunIsHandled(p)'
    BY <1>4, <2>1, <2>2, SMTT(30) DEF RunIsHandled
  <2>5. CacheMatches(p)'
    BY <1>4, <2>1, <2>2, Zenon DEF CacheMatches
  <2> QED
    BY <2>3, <2>4, <2>5, Zenon
<1> QED
  BY <1>0, <1>7, <1>8, <1>9, <1>10, <1>11, <1>12, <1>13, <1>14, Zenon DEF Consistent

-----------------------------------------------------------------------------
(* Consistent is inductive.                                                *)

\* End e has run the request m of the other end, and answered it.
Ran(e, m) ==
    /\ open[e] /\ Expected(e, m)
    /\ runs' = [runs EXCEPT ![e][m.op] = @ + 1]
    /\ net' = net \cup {Response(e, m.mid, m.op)}
    /\ \/ /\ nextPeer' = [nextPeer EXCEPT ![e] = @ + 1]
          /\ cached' = [cached EXCEPT ![e] = [mid |-> m.mid, op |-> m.op]]
          /\ UNCHANGED <<open, refused>>
       \/ /\ refused' = [refused EXCEPT ![e] = TRUE]
          /\ open' = [open EXCEPT ![e] = FALSE]
          /\ UNCHANGED <<nextPeer, cached>>
    /\ UNCHANGED <<started, pending, nextLocal, sentAs, result>>

LEMMA RanKeeps ==
    ASSUME TypeOK, Consistent, NEW e \in Ends, NEW m \in net, Ran(e, m)
    PROVE  Consistent'
<1> DEFINE p == Other(e)
<1>0. p \in Ends /\ p # e /\ Other(p) = e /\ Ends = {e, p}
  BY Others, Zenon
<1>1. EndConsistent(e) /\ EndConsistent(p)
  BY <1>0, Zenon DEF Consistent, EndConsistent
<1>2. m.type = "request" /\ m.from = p /\ m.mid = nextPeer[e] /\ ~refused[e]
  BY <1>1, Zenon DEF Ran, Expected, EndConsistent, RunIsHandled
<1>3. /\ m.mid \in Used(p) /\ m.mid \in MIDs /\ m.mid \in Nat
      /\ m.op = sentAs[p][m.mid] /\ m.op \in Ops
  <2>1. m.mid \in Used(p) /\ m.op = sentAs[p][m.mid] /\ m.mid \in MIDs
    BY <1>0, <1>1, <1>2, Zenon DEF EndConsistent, RequestsMatch, TypeOK, Messages
  <2>2. m.op # NoOp /\ m.op \in 0..MaxOps
    BY <1>0, <1>1, <2>1 DEF EndConsistent, IdsInOrder, TypeOK
  <2> QED
    BY <2>1, <2>2 DEF MIDs, Ops, NoOp
<1>4. /\ started' = started /\ pending' = pending /\ nextLocal' = nextLocal
      /\ sentAs' = sentAs /\ result' = result
  BY Zenon DEF Ran
<1>5. /\ Handled(p)' = Handled(p) \cup {m.mid} /\ m.mid \notin Handled(p)
      /\ Handled(e)' = Handled(e) /\ Used(p)' = Used(p) /\ Used(e)' = Used(e)
      /\ nextPeer'[p] = nextPeer[p] /\ cached'[p] = cached[p]
      /\ refused'[p] = refused[p]
      /\ nextPeer'[e] \in {nextPeer[e], nextPeer[e] + 1}
      /\ (refused'[e] => ~open'[e]) /\ open'[p] = open[p]
  <2>1. /\ nextPeer[e] \in Nat /\ First[p] \in Nat /\ First[p] <= nextPeer[e]
        /\ Handled(p) = First[p] .. nextPeer[e] - 1
    <3>1. RunIsHandled(p)
      BY <1>1, Zenon DEF EndConsistent
    <3>2. First[p] <= nextPeer[e]
      BY <1>0, <3>1, Zenon DEF RunIsHandled
    <3>3. Handled(p) = First[p] .. nextPeer[e] - 1
      BY <1>0, <1>2, Zenon DEF Handled
    <3> QED
      BY <1>0, <3>2, <3>3, Numbers, Zenon
  <2>2. CASE /\ nextPeer' = [nextPeer EXCEPT ![e] = @ + 1]
             /\ cached' = [cached EXCEPT ![e] = [mid |-> m.mid, op |-> m.op]]
             /\ UNCHANGED <<open, refused>>
    <3>1. nextPeer'[e] = nextPeer[e] + 1 /\ nextPeer'[p] = nextPeer[p]
          /\ cached'[p] = cached[p] /\ refused' = refused /\ open' = open
      BY <1>0, <2>2, Zenon DEF TypeOK
    <3>2. Handled(p)' = First[p] .. nextPeer[e]
      BY <1>0, <1>2, <2>1, <3>1 DEF Handled
    <3>3. Handled(p)' = Handled(p) \cup {m.mid} /\ m.mid \notin Handled(p)
      BY <1>2, <2>1, <3>2, Grown, Zenon
    <3>4. Handled(e)' = Handled(e) /\ Used(p)' = Used(p) /\ Used(e)' = Used(e)
      BY <1>4, <3>1, Zenon DEF Handled, Used
    <3> QED
      BY <1>2, <3>1, <3>3, <3>4, Zenon
  <2>3. CASE /\ refused' = [refused EXCEPT ![e] = TRUE]
             /\ open' = [open EXCEPT ![e] = FALSE]
             /\ UNCHANGED <<nextPeer, cached>>
    <3>1. nextPeer' = nextPeer /\ cached' = cached /\ refused'[e] /\ ~open'[e]
          /\ refused'[p] = refused[p] /\ open'[p] = open[p]
      BY <1>0, <2>3, Zenon DEF TypeOK
    <3>2. Handled(p)' = First[p] .. nextPeer[e]
      BY <1>0, <3>1, Zenon DEF Handled
    <3>3. Handled(p)' = Handled(p) \cup {m.mid} /\ m.mid \notin Handled(p)
      BY <1>2, <2>1, <3>2, Grown, Zenon
    <3>4. Handled(e)' = Handled(e) /\ Used(p)' = Used(p) /\ Used(e)' = Used(e)
      BY <1>4, <3>1, Zenon DEF Handled, Used
    <3> QED
      BY <3>1, <3>3, <3>4, Zenon
  <2> QED
    BY <2>2, <2>3, Zenon DEF Ran
<1>6. /\ \A o \in Ops : runs'[e][o] = IF o = m.op THEN runs[e][o] + 1 ELSE runs[e][o]
      /\ runs'[p] = runs[p]
  <2>1. runs \in [Ends -> [Ops -> Nat]]
    BY Zenon DEF TypeOK
  <2>2. runs' = [runs EXCEPT ![e][m.op] = @ + 1]
    BY Zenon DEF Ran
  <2>3. runs'[e] = [runs[e] EXCEPT ![m.op] = runs[e][m.op] + 1] /\ runs'[p] = runs[p]
    BY <1>0, <2>1, <2>2, Zenon
  <2>4. runs[e] \in [Ops -> Nat]
    BY <2>1, Zenon
  <2> QED
    BY <1>3, <2>3, <2>4, Zenon
<1>7. IdsInOrder(e)' /\ IdsInOrder(p)'
  BY <1>1, <1>4, <1>5, Zenon DEF EndConsistent, IdsInOrder
<1>8. RunIsHandled(e)'
  <2>1. RunIsHandled(e)
    BY <1>1, Zenon DEF EndConsistent
  <2>2. /\ nextPeer'[p] = nextPeer[p] /\ runs'[p] = runs[p] /\ (refused'[e] => ~open'[e])
        /\ Handled(e)' = Handled(e) /\ Used(e)' = Used(e)
    BY <1>5, <1>6, Zenon
  <2> QED
    BY <1>4, <2>1, <2>2, Zenon DEF RunIsHandled
<1>9. RunIsHandled(p)'
  <2>1. \A k \in Handled(p) : k \in Used(p) /\ k < m.mid
    <3>1. RunIsHandled(p)
      BY <1>1, Zenon DEF EndConsistent
    <3>2. Handled(p) = First[p] .. nextPeer[e] - 1
      BY <1>0, <1>2, Zenon DEF Handled
    <3>3. \A k \in Handled(p) : k < m.mid
      BY <1>0, <1>2, <3>2, Numbers, SMTT(30)
    <3> QED
      BY <3>1, <3>3, Zenon DEF RunIsHandled
  <2>2. \A k \in Handled(p) : sentAs[p][k] < m.op
    BY <1>1, <1>3, <2>1, Zenon DEF EndConsistent, IdsInOrder
  <2>3. \A k \in Handled(p) : sentAs[p][k] # m.op
    BY <1>0, <1>3, <2>2, SMTT(30) DEF Ops
  <2>4. \A o \in Ops : runs[e][o] =
            IF \E k \in Handled(p) : sentAs[p][k] = o THEN 1 ELSE 0
    BY <1>0, <1>1, Zenon DEF EndConsistent, RunIsHandled
  <2>5. \A o \in Ops : runs'[e][o] =
            IF \E k \in Handled(p)' : sentAs'[p][k] = o THEN 1 ELSE 0
    BY <1>3, <1>4, <1>5, <1>6, <2>3, <2>4
  <2>6. Handled(p)' \subseteq Used(p)'
    BY <1>1, <1>3, <1>5, ZenonT(30) DEF EndConsistent, RunIsHandled
  <2>7. First[p] <= nextPeer'[e] /\ nextPeer'[e] <= nextLocal'[p]
    <3>1. nextPeer[e] \in Nat /\ nextLocal[p] \in Nat /\ First[p] \in Nat
      BY <1>0, Numbers, Zenon
    <3>2. First[p] <= nextPeer[e] /\ nextPeer[e] < nextLocal[p]
      BY <1>2, <1>3, <3>1 DEF Used
    <3> QED
      BY <1>4, <1>5, <3>1, <3>2, SMTT(30)
  <2>8. refused'[p] => ~open'[p]
    BY <1>1, <1>5, ZenonT(30) DEF EndConsistent, RunIsHandled
  <2> QED
    BY <1>0, <2>5, <2>6, <2>7, <2>8, Zenon DEF RunIsHandled
<1>10. RequestsMatch(e)' /\ RequestsMatch(p)'
  <2>1. \A d \in net' : d.type = "request" => d \in net
    BY DEF Ran, Response
  <2> QED
    BY <1>1, <1>4, <1>5, <2>1, Zenon DEF EndConsistent, RequestsMatch
<1>11. ResponsesMatch(e)' /\ ResponsesMatch(p)'
  <2>1. \A d \in net' : d \in net \/ d = Response(e, m.mid, m.op)
    BY Zenon DEF Ran
  <2>2. ResponsesMatch(e)'
    BY <1>0, <1>1, <1>4, <1>5, <2>1 DEF EndConsistent, ResponsesMatch, Response
  <2>3. ResponsesMatch(p)'
    BY <1>0, <1>1, <1>3, <1>4, <1>5, <2>1 DEF EndConsistent, ResponsesMatch, Response
  <2> QED
    BY <2>2, <2>3, Zenon
<1>12. CacheMatches(e)'
  BY <1>1, <1>4, <1>5, Zenon DEF EndConsistent, CacheMatches
<1>13. CacheMatches(p)'
  <2>1. CASE /\ nextPeer' = [nextPeer EXCEPT ![e] = @ + 1]
             /\ cached' = [cached EXCEPT ![e] = [mid |-> m.mid, op |-> m.op]]
    <3>1. nextPeer'[e] = nextPeer[e] + 1 /\ cached'[e].op = m.op
      BY <1>0, <2>1, Zenon DEF TypeOK
    <3>2. nextPeer'[e] - 1 = m.mid
      BY <1>2, <1>3, <3>1, SMTT(30)
    <3> QED
      BY <1>0, <1>3, <1>4, <3>1, <3>2, Zenon DEF CacheMatches
  <2>2. CASE UNCHANGED <<nextPeer, cached>>
    BY <1>1, <1>4, <2>2, Zenon DEF EndConsistent, CacheMatches
  <2> QED
    BY <2>1, <2>2, Zenon DEF Ran
<1>14. PendingMatches(e)' /\ PendingMatches(p)'
  BY <1>1, <1>4, <1>5, Zenon DEF EndConsistent, PendingMatches
<1>15. ResultsMatch(e)'
  BY <1>1, <1>4, <1>6, Zenon DEF EndConsistent, ResultsMatch
<1>16. ResultsMatch(p)'
  <2> SUFFICES ASSUME NEW o \in Ops, result[p][o] \in Ops
               PROVE  result[p][o] = o /\ runs'[e][o] = 1
    BY <1>0, <1>4, SMTT(30) DEF ResultsMatch
  <2>1. result[p][o] = o /\ runs[e][o] = 1
    BY <1>0, <1>1, SMTT(30) DEF EndConsistent, ResultsMatch
  <2>2. runs'[e][o] \in {0, 1}
    BY <1>0, <1>9, Zenon DEF RunIsHandled
  <2> QED
    BY <1>6, <2>1, <2>2
<1> QED
  BY <1>0, <1>7, <1>8, <1>9, <1>10, <1>11, <1>12, <1>13, <1>14, <1>15, <1>16, Zenon
     DEF Consistent

\* Nothing that Consistent is about has changed but what callers are told of
\* failures, and sessions that have ended.
Quiet ==
    /\ UNCHANGED <<nextLocal, nextPeer, cached, refused, sentAs, runs, pending>>
    /\ net' = net
    /\ \A e \in Ends : started'[e] >= started[e] /\ started'[e] \in Nat
    /\ \A e \in Ends : open'[e] => open[e]
    /\ \A e \in Ends, o \in Ops : result'[e][o] \in {result[e][o], Failed}

LEMMA QuietKeeps ==
    ASSUME TypeOK, Consistent, Quiet
    PROVE  Consistent'
<1> SUFFICES ASSUME NEW e \in Ends PROVE EndConsistent(e)'
  BY Zenon DEF Consistent, EndConsistent
<1>1. EndConsistent(e)
  BY Zenon DEF Consistent, EndConsistent
<1>2. /\ nextLocal' = nextLocal /\ nextPeer' = nextPeer /\ cached' = cached
      /\ refused' = refused /\ sentAs' = sentAs /\ runs' = runs
      /\ pending' = pending /\ net' = net /\ (open'[e] => open[e])
  BY Zenon DEF Quiet
<1>3. Used(e)' = Used(e) /\ Handled(e)' = Handled(e)
  BY <1>2, Zenon DEF Used, Handled
<1>4. IdsInOrder(e)'
  <2>1. \A m \in MIDs : sentAs[e][m] \in Nat /\ sentAs[e][m] <= started[e]
    BY <1>1, SMTT(30) DEF EndConsistent, IdsInOrder, TypeOK
  <2>2. started[e] \in Nat /\ started'[e] \in Nat /\ started[e] <= started'[e]
    BY DEF Quiet, TypeOK
  <2>3. \A m \in MIDs : sentAs[e][m] <= started'[e]
    BY <2>1, <2>2, SMTT(30)
  <2> QED
    BY <1>1, <1>2, <1>3, <2>3, Zenon DEF EndConsistent, IdsInOrder
<1>5. RunIsHandled(e)'
  BY <1>1, <1>2, <1>3, Zenon DEF EndConsistent, RunIsHandled
<1>6. RequestsMatch(e)' /\ ResponsesMatch(e)'
  BY <1>1, <1>2, <1>3, Zenon DEF EndConsistent, RequestsMatch, ResponsesMatch
<1>7. CacheMatches(e)' /\ PendingMatches(e)'
  BY <1>1, <1>2, <1>3, Zenon DEF EndConsistent, CacheMatches, PendingMatches
<1>8. ResultsMatch(e)'
  <2>1. Failed \notin Ops
    BY OpsApart, Zenon
  <2>2. \A o \in Ops : result'[e][o] \in {result[e][o], Failed}
    BY Zenon DEF Quiet
  <2> QED
    BY <1>1, <1>2, <2>1, <2>2, Zenon DEF EndConsistent, ResultsMatch
<1> QED
  BY <1>4, <1>5, <1>6, <1>7, <1>8, Zenon DEF EndConsistent

LEMMA AnswerKeeps ==
    ASSUME TypeOK, Consistent, NEW e \in Ends, NEW m \in net,
           NEW decodes \in BOOLEAN, Answer(e, m, decodes)
    PROVE  Consistent'
<1> DEFINE op == pending[e].op
           told == IF decodes THEN m.op ELSE Failed
<1>0. Other(e) \in Ends /\ Other(e) # e
  BY Others, Zenon
<1>1. \A f \in Ends : EndConsistent(f)
  BY Zenon DEF Consistent, EndConsistent
<1>2. /\ result' = [result EXCEPT ![e] = [@ EXCEPT ![op] = told]]
      /\ pending' = [pending EXCEPT ![e] = Idle]
      /\ started' = started /\ nextLocal' = nextLocal /\ nextPeer' = nextPeer
      /\ cached' = cached /\ refused' = refused /\ net' = net
      /\ sentAs' = sentAs /\ runs' = runs
      /\ pending[e] # Idle /\ m.type = "response" /\ m.from = Other(e)
      /\ m.mid = pending[e].mid
  BY Zenon DEF Answer, Matching
<1>3. \A f \in Ends : open'[f] => open[f]
  BY Zenon DEF Answer, TypeOK
<1>4. \A f \in Ends : Used(f)' = Used(f) /\ Handled(f)' = Handled(f)
  BY <1>2, Zenon DEF Used, Handled
<1>5. m.op = op /\ m.mid \in Handled(e) /\ m.op = sentAs[e][m.mid]
  BY <1>1, <1>2, Zenon DEF EndConsistent, ResponsesMatch, PendingMatches
<1>6. m.op \in Ops => runs[Other(e)][m.op] = 1
  BY <1>1, <1>5, Zenon DEF EndConsistent, RunIsHandled
<1> SUFFICES ASSUME NEW f \in Ends PROVE EndConsistent(f)'
  BY Zenon DEF Consistent, EndConsistent
<1>7. IdsInOrder(f)' /\ RunIsHandled(f)'
  BY <1>1, <1>2, <1>3, <1>4 DEF EndConsistent, IdsInOrder, RunIsHandled
<1>8. RequestsMatch(f)' /\ ResponsesMatch(f)' /\ CacheMatches(f)'
  BY <1>1, <1>2, <1>4, Zenon DEF EndConsistent, RequestsMatch, ResponsesMatch, CacheMatches
<1>9. PendingMatches(f)'
  <2>1. pending'[f] = IF f = e THEN Idle ELSE pending[f]
    BY <1>2, Zenon DEF TypeOK
  <2> QED
    BY <1>1, <1>2, <1>4, <2>1, Zenon DEF EndConsistent, PendingMatches
<1>10. ResultsMatch(f)'
  <2>1. \A o \in Ops : result'[f][o] =
            IF f = e /\ o = op THEN told ELSE result[f][o]
    <3>1. result \in [Ends -> [Ops -> 0..Failed]]
      BY Zenon DEF TypeOK
    <3>2. CASE f = e
      <4>1. result'[f] = [result[e] EXCEPT ![op] = told]
        BY <1>2, <3>1, <3>2, Zenon
      <4>2. result[e] \in [Ops -> 0..Failed]
        BY <3>1, Zenon
      <4> HIDE DEF told, op
      <4> QED
        BY <3>2, <4>1, <4>2, Zenon
    <3>3. CASE f # e
      BY <1>2, <3>1, <3>3, Zenon
    <3> QED
      BY <3>2, <3>3, Zenon
  <2>2. Failed \notin Ops
    BY OpsApart, Zenon
  <2>3. told \in Ops => told = op /\ runs[Other(e)][op] = 1
    BY <1>5, <1>6, <2>2, Zenon
  <2> HIDE DEF told, op
  <2> QED
    BY <1>1, <1>2, <2>1, <2>3 DEF EndConsistent, ResultsMatch
<1> QED
  BY <1>7, <1>8, <1>9, <1>10, Zenon DEF EndConsistent

LEMMA RepeatedKeeps ==
    ASSUME TypeOK, Consistent, NEW e \in Ends, NEW m \in net, Repeated(e, m)
    PROVE  Consistent'
<1> DEFINE p == Other(e)
<1>0. p \in Ends /\ p # e /\ Other(p) = e /\ Ends = {e, p}
  BY Others, Zenon
<1>1. \A f \in Ends : EndConsistent(f)
  BY Zenon DEF Consistent, EndConsistent
<1>2. /\ started' = started /\ nextLocal' = nextLocal /\ nextPeer' = nextPeer
      /\ cached' = cached /\ refused' = refused /\ sentAs' = sentAs
      /\ runs' = runs /\ pending' = pending /\ open' = open /\ result' = result
      /\ net' = net \cup {Response(e, m.mid, cached[e].op)}
      /\ m.type = "request" /\ m.from = p /\ m.mid = nextPeer[e] - 1
  BY Zenon DEF Repeated
<1>3. \A f \in Ends : Used(f)' = Used(f) /\ Handled(f)' = Handled(f)
  BY <1>2, Zenon DEF Used, Handled
<1>4. m.mid \in Handled(p) /\ cached[e].op = sentAs[p][m.mid]
  <2>1. m.mid \in Used(p)
    BY <1>0, <1>1, <1>2, Zenon DEF EndConsistent, RequestsMatch
  <2>2. nextPeer[e] \in Nat /\ First[p] \in Nat
    BY <1>0, Numbers, Zenon
  <2>3. nextPeer[e] > First[p]
    BY <1>2, <2>1, <2>2, SMTT(30) DEF Used
  <2>4. m.mid \in Handled(p)
    BY <1>0, <1>2, <2>2, <2>3 DEF Handled
  <2>5. CacheMatches(p)
    BY <1>0, <1>1, Zenon DEF EndConsistent
  <2> QED
    BY <1>0, <1>2, <2>3, <2>4, <2>5, Zenon DEF CacheMatches
<1>5. \A d \in net' : d \in net \/ d = Response(e, m.mid, cached[e].op)
  BY <1>2, Zenon
<1>6. \A f \in Ends : RequestsMatch(f)'
  BY <1>1, <1>2, <1>3, <1>5 DEF EndConsistent, RequestsMatch, Response
<1>7. ResponsesMatch(e)'
  BY <1>0, <1>1, <1>2, <1>3, <1>5, SMTT(30) DEF EndConsistent, ResponsesMatch, Response
<1>8. ResponsesMatch(p)'
  BY <1>0, <1>1, <1>2, <1>3, <1>4, <1>5 DEF EndConsistent, ResponsesMatch, Response
<1>9. ASSUME NEW f \in Ends PROVE IdsInOrder(f)' /\ RunIsHandled(f)'
  <2>1. IdsInOrder(f) /\ RunIsHandled(f) /\ Used(f)' = Used(f) /\ Handled(f)' = Handled(f)
    BY <1>1, <1>3, Zenon DEF EndConsistent
  <2>2. IdsInOrder(f)'
    BY <1>2, <2>1, Zenon DEF IdsInOrder
  <2>3. RunIsHandled(f)'
    BY <1>2, <2>1, SMTT(30) DEF RunIsHandled
  <2> QED
    BY <2>2, <2>3, Zenon
<1>10. \A f \in Ends : CacheMatches(f)' /\ PendingMatches(f)' /\ ResultsMatch(f)'
  BY <1>1, <1>2, <1>3, ZenonT(30) DEF EndConsistent, CacheMatches, PendingMatches, ResultsMatch
<1> QED
  BY <1>0, <1>6, <1>7, <1>8, <1>9, <1>10, Zenon DEF Consistent

LEMMA InitConsistent == Init => Consistent
<1> SUFFICES ASSUME Init, NEW e \in Ends PROVE EndConsistent(e)
  BY Zenon DEF Consistent, EndConsistent
<1>0. Other(e) \in Ends /\ Other(Other(e)) = e
  BY Others, Zenon
<1>1. /\ nextLocal[e] = First[e] /\ nextPeer[Other(e)] = First[e]
      /\ First[e] \in Nat /\ ~refused[Other(e)] /\ ~refused[e]
      /\ pending[e] = Idle /\ net = {} /\ started[e] = 0
      /\ \A m \in MIDs : sentAs[e][m] = NoOp
      /\ \A o \in Ops : runs[Other(e)][o] = 0 /\ result[e][o] = NoOp
  BY <1>0, FirstAssumption, MaxMIDAssumption, SMTT(30) DEF Init
<1>2. Used(e) = {} /\ Handled(e) = {}
  BY <1>1, SMTT(30) DEF Used, Handled
<1>3. IdsInOrder(e) /\ RunIsHandled(e)
  BY <1>1, <1>2 DEF IdsInOrder, RunIsHandled, NoOp
<1>4. NoOp \notin Ops
  BY OpsApart, Zenon
<1> QED
  BY <1>1, <1>3, <1>4 DEF EndConsistent, RequestsMatch, ResponsesMatch,
     CacheMatches, PendingMatches, ResultsMatch

LEMMA NextConsistent ==
    ASSUME TypeOK, Consistent, [Next]_vars
    PROVE  Consistent'
<1>1. ASSUME NEW e \in Ends,
             \/ Call(e) \/ ChooseDirectDelete(e) \/ Serve(e)
             \/ Exhausted(e) \/ Close(e)
      PROVE  Consistent'
  <2>1. /\ UNCHANGED <<started, nextLocal, nextPeer, cached, refused, net,
                       sentAs, runs, pending, result>>
        /\ open' = open \/ open' = [open EXCEPT ![e] = FALSE]
    BY <1>1, Zenon DEF Call, ChooseDirectDelete, Serve, Exhausted, Close
  <2>2. \A f \in Ends : (open'[f] => open[f]) /\ started[f] \in Nat
    <3>1. \A f \in Ends : open'[f] => open[f]
      BY <2>1, ZenonT(30) DEF TypeOK
    <3> QED
      BY <3>1, Numbers, Zenon
  <2>3. Quiet
    BY <2>1, <2>2, SMTT(30) DEF Quiet
  <2> QED
    BY <2>3, QuietKeeps, Zenon
<1>2. ASSUME NEW e \in Ends, SendUnanswered(e) PROVE Consistent'
  <2>1. Emitted(e) /\ pending' = pending
    BY <1>2, Zenon DEF SendUnanswered, Emitted
  <2> QED
    BY <1>2, <2>1, EmittedKeeps, Zenon
<1>3. ASSUME NEW e \in Ends, NEW dpd \in BOOLEAN, NEW sent \in BOOLEAN,
             Start(e, dpd, sent),
             UNCHANGED <<nextPeer, cached, open, refused, runs>>
      PROVE  Consistent'
  <2>0. started[e] \in Nat /\ started[e] < MaxOps /\ nextLocal[e] \in MIDs
        /\ nextLocal[e] # MaxMID
    BY <1>3, Numbers, Zenon DEF Start
  <2>1. CASE sent
    <3>1. nextLocal[e] < MaxMID
      BY <2>0, MaxMIDAssumption DEF MIDs
    <3>2. Emitted(e)
      BY <1>3, <2>0, <2>1, <3>1, Zenon DEF Start, Emitted
    <3>3. pending' = [pending EXCEPT ![e] =
              [mid |-> nextLocal[e], op |-> started[e] + 1, dpd |-> dpd]]
      BY <1>3, <2>1, Zenon DEF Start
    <3> QED
      BY <1>3, <3>2, <3>3, EmittedKeeps, Zenon
  <2>2. CASE ~sent
    <3>1. /\ UNCHANGED <<net, pending, sentAs, nextLocal>>
          /\ started' = [started EXCEPT ![e] = @ + 1]
          /\ result' = [result EXCEPT ![e][started[e] + 1] = Failed]
      BY <1>3, <2>2, Zenon DEF Start
    <3>2. \A f \in Ends : started'[f] >= started[f] /\ started'[f] \in Nat
      <4>1. \A f \in Ends : started[f] \in Nat
        BY Numbers, Zenon
      <4>2. \A f \in Ends : started'[f] = IF f = e THEN started[f] + 1 ELSE started[f]
        BY <1>3, <3>1, Zenon DEF TypeOK
      <4> QED
        BY <4>1, <4>2
    <3>3. \A f \in Ends, o \in Ops : result'[f][o] \in {result[f][o], Failed}
      BY <1>3, <3>1, Zenon DEF TypeOK
    <3>4. Quiet
      BY <1>3, <3>1, <3>2, <3>3, Zenon DEF Quiet
    <3> QED
      BY <3>4, QuietKeeps, Zenon
  <2> QED
    BY <2>1, <2>2, Zenon
<1>4. ASSUME NEW e \in Ends, NEW sent \in BOOLEAN,
             StartQueued(e, sent) \/ Probe(e, sent)
      PROVE  Consistent'
  <2>1. /\ UNCHANGED <<nextPeer, cached, open, refused, runs>>
        /\ Start(e, FALSE, sent) \/ Start(e, TRUE, sent)
    BY <1>4, Zenon DEF StartQueued, Probe
  <2> QED
    BY <1>3, <1>4, <2>1, Zenon
<1>5. ASSUME NEW e \in Ends, NEW m \in net, Execute(e, m) \/ ExecuteFails(e, m)
      PROVE  Consistent'
  <2>1. Ran(e, m)
    BY <1>5, Zenon DEF Execute, ExecuteFails, Ran
  <2> QED
    BY <1>5, <2>1, RanKeeps, Zenon
<1>6. CASE UNCHANGED vars
  <2>1. \A f \in Ends : started[f] \in Nat
    BY Numbers, Zenon
  <2>2. UNCHANGED <<started, nextLocal, nextPeer, cached, open, refused, net, sentAs, runs,
                    pending, result>>
    BY <1>6, Zenon DEF vars
  <2>3. Quiet
    BY <2>1, <2>2 DEF Quiet
  <2> QED
    BY <2>3, QuietKeeps, Zenon
<1> QED
  BY <1>1, <1>2, <1>4, <1>5, <1>6, AnswerKeeps, RepeatedKeeps, Zenon DEF Next, Dispatch

(* Every datagram and every memory that mentions a Message ID agrees on the *)
(* operation it stands for, and the operations run are a prefix of those    *)
(* sent: the inductive invariant of startRequest and dispatch.              *)
THEOREM ConsistentIsInvariant == Spec => []Consistent
<1>1. TypeOK /\ Consistent /\ [Next]_vars => Consistent'
  BY NextConsistent, Zenon
<1> QED
  BY <1>1, InitConsistent, TypeCorrect, PTL DEF Spec

(* dispatch runs an operation at most once, for every loss, repetition and  *)
(* reordering of the datagrams.                                             *)
THEOREM AtMostOnceTheorem == Spec => []AtMostOnce
<1>1. Consistent => AtMostOnce
  <2> SUFFICES ASSUME Consistent, NEW e \in Ends, NEW o \in Ops
               PROVE  runs[e][o] <= 1
    BY Zenon DEF AtMostOnce
  <2>1. Other(e) \in Ends /\ Other(Other(e)) = e
    BY Others, Zenon
  <2>2. runs[e][o] \in {0, 1}
    BY <2>1 DEF Consistent, RunIsHandled
  <2> QED
    BY <2>2
<1> QED
  BY <1>1, ConsistentIsInvariant, PTL

(* dispatch runs the operations of one end in the order startRequest sent    *)
(* them, and skips none.                                                    *)
THEOREM InOrderTheorem == Spec => []InOrder
<1>1. TypeOK /\ Consistent => InOrder
  <2> SUFFICES ASSUME TypeOK, Consistent, NEW e \in Ends, NEW o \in Ops, NEW q \in Ops,
                      o < q, runs[Other(e)][q] > 0, WentOut(e, o)
               PROVE  runs[Other(e)][o] > 0
    BY Zenon DEF InOrder
  <2>0. IdsInOrder(e) /\ RunIsHandled(e)
    BY Zenon DEF Consistent
  <2>1. PICK n \in Handled(e) : sentAs[e][n] = q
    BY <2>0 DEF RunIsHandled
  <2>2. PICK m \in MIDs : sentAs[e][m] = o
    BY Zenon DEF WentOut
  <2>3. m \in Used(e) /\ n \in Used(e)
    BY <2>0, <2>1, <2>2 DEF IdsInOrder, RunIsHandled, Ops, NoOp
  <2>4. m \in Int /\ n \in Int /\ nextPeer[Other(e)] \in Int /\ First[e] \in Int
        /\ nextLocal[e] \in Int
    <3>1. m \in Int /\ n \in Int
      BY <2>3 DEF Used
    <3> QED
      BY <3>1, Numbers, Others
  <2>5. m < n
    <3>1. CASE m = n
      BY <2>1, <2>2, <3>1 DEF Ops
    <3>2. CASE n < m
      <4>1. q < o
        BY <2>0, <2>1, <2>2, <2>3, <3>2, Zenon DEF IdsInOrder
      <4> QED
        BY <4>1 DEF Ops
    <3> QED
      BY <2>4, <3>1, <3>2
  <2>6. m \in Handled(e)
    BY <2>1, <2>3, <2>4, <2>5 DEF Handled, Used
  <2> QED
    BY <2>0, <2>2, <2>6 DEF RunIsHandled
<1> QED
  BY <1>1, TypeCorrect, ConsistentIsInvariant, PTL

(* A caller of request gets the answer to its own operation, or an error.    *)
THEOREM AnswersItsOwnTheorem == Spec => []AnswersItsOwn
<1>1. Consistent => AnswersItsOwn
  BY Zenon DEF Consistent, AnswersItsOwn, ResultsMatch
<1> QED
  BY <1>1, ConsistentIsInvariant, PTL

-----------------------------------------------------------------------------
(* The windows in step, and the refinement.                                *)

\* A request outstanding has no result yet, nor has one that never started.
Unanswered(e) ==
    /\ \A o \in Ops : result[e][o] # NoOp => o <= started[e]
    /\ pending[e] # Idle => result[e][pending[e].op] = NoOp

\* The IDs the other end has yet to move past are that of the request
\* outstanding, that of the direct Delete and the one it closed on.
Waiting(e) ==
    \E d \in MIDs : \A m \in nextPeer[Other(e)] .. nextLocal[e] - 1 :
        \/ pending[e] # Idle /\ m = pending[e].mid
        \/ teardown[e] = "sent" /\ m = d
        \/ refused[Other(e)] /\ m = nextPeer[Other(e)]

Callers == \A e \in Ends : Unanswered(e) /\ Waiting(e)

-----------------------------------------------------------------------------
(* Callers is inductive.                                                   *)

LEMMA InitCallers == Init => Callers
<1> USE MaxMIDAssumption, MaxOpsAssumption, FirstAssumption
<1> SUFFICES ASSUME Init, NEW e \in Ends PROVE Unanswered(e) /\ Waiting(e)
  BY Zenon DEF Callers
<1>1. Unanswered(e)
  BY Zenon DEF Init, Unanswered, Ops
<1>2. nextPeer[Other(e)] = First[e] /\ nextLocal[e] = First[e] /\ First[e] \in Nat
  BY Others DEF Init
<1>3. 0 \in MIDs /\ \A m \in nextPeer[Other(e)] .. nextLocal[e] - 1 : FALSE
  BY <1>2 DEF MIDs
<1> QED
  BY <1>1, <1>3, Zenon DEF Waiting

\* What leaves the callers and the windows of an end alone keeps its part.
Kept(e) ==
    /\ started'[e] = started[e] /\ pending'[e] = pending[e]
    /\ result'[e] = result[e] /\ nextLocal'[e] = nextLocal[e]
    /\ nextPeer'[Other(e)] = nextPeer[Other(e)]
    /\ teardown[e] = "sent" => teardown'[e] = "sent"
    /\ refused'[Other(e)] = refused[Other(e)]

LEMMA KeptKeeps ==
    ASSUME NEW e \in Ends, Kept(e), Unanswered(e), Waiting(e)
    PROVE  (Unanswered(e) /\ Waiting(e))'
<1>1. Unanswered(e)'
  BY Zenon DEF Kept, Unanswered
<1>2. PICK d \in MIDs : \A m \in nextPeer[Other(e)] .. nextLocal[e] - 1 :
          \/ pending[e] # Idle /\ m = pending[e].mid
          \/ teardown[e] = "sent" /\ m = d
          \/ refused[Other(e)] /\ m = nextPeer[Other(e)]
  BY Zenon DEF Waiting
<1>3. \A m \in nextPeer'[Other(e)] .. nextLocal'[e] - 1 :
          \/ pending'[e] # Idle /\ m = pending'[e].mid
          \/ teardown'[e] = "sent" /\ m = d
          \/ refused'[Other(e)] /\ m = nextPeer'[Other(e)]
  BY <1>2, Zenon DEF Kept
<1> QED
  BY <1>1, <1>3, Zenon DEF Waiting

\* A request goes out of end e, as Run's outstanding one or as the Delete.
LEMMA EmittedCallers ==
    ASSUME TypeOK, Consistent, NEW e \in Ends, Emitted(e), Unanswered(e), Waiting(e),
           \/ /\ pending[e] = Idle
              /\ \E dpd \in BOOLEAN : pending' = [pending EXCEPT ![e] =
                     [mid |-> nextLocal[e], op |-> started[e] + 1, dpd |-> dpd]]
              /\ teardown' = teardown
           \/ /\ pending' = pending /\ teardown[e] # "sent"
              /\ teardown' = [teardown EXCEPT ![e] = "sent"]
    PROVE  (Unanswered(e) /\ Waiting(e))'
<1> USE MaxMIDAssumption, MaxOpsAssumption, FirstAssumption
<1> DEFINE p == Other(e)
<1>0. p \in Ends
  BY Others, Zenon
<1>1. /\ started[e] \in Nat /\ started[e] + 1 \in Ops
      /\ nextLocal[e] \in MIDs /\ nextLocal[e] \in Nat /\ nextPeer[p] \in Nat
      /\ started'[e] = started[e] + 1 /\ nextLocal'[e] = nextLocal[e] + 1
      /\ nextPeer' = nextPeer /\ refused' = refused /\ result' = result
  <2>1. started[e] < MaxOps /\ started[e] \in 0..MaxOps
        /\ nextLocal[e] \in MIDs /\ nextPeer[p] \in MIDs
    BY <1>0, Zenon DEF Emitted, TypeOK
  <2>2. started'[e] = started[e] + 1 /\ nextLocal'[e] = nextLocal[e] + 1
    BY Zenon DEF Emitted, TypeOK
  <2>3. nextPeer' = nextPeer /\ refused' = refused /\ result' = result
    BY Zenon DEF Emitted
  <2> QED
    BY <2>1, <2>2, <2>3 DEF Ops, MIDs
<1>2. result[e][started[e] + 1] = NoOp
  BY <1>1 DEF Unanswered
<1>3. PICK d \in MIDs : \A m \in nextPeer[p] .. nextLocal[e] - 1 :
          \/ pending[e] # Idle /\ m = pending[e].mid
          \/ teardown[e] = "sent" /\ m = d
          \/ refused[p] /\ m = nextPeer[p]
  BY Zenon DEF Waiting
<1>4. \A m \in nextPeer'[p] .. nextLocal'[e] - 1 :
          m \in nextPeer[p] .. nextLocal[e] - 1 \/ m = nextLocal[e]
  BY <1>1
<1>5. \A o \in Ops : result'[e][o] # NoOp => o <= started'[e]
  BY <1>1 DEF Unanswered, Ops
<1> HIDE DEF p
<1>6. CASE pending[e] = Idle /\ teardown' = teardown
           /\ \E dpd \in BOOLEAN : pending' = [pending EXCEPT ![e] =
                  [mid |-> nextLocal[e], op |-> started[e] + 1, dpd |-> dpd]]
  <2>1. /\ pending'[e].mid = nextLocal[e] /\ pending'[e].op = started[e] + 1
        /\ pending'[e] # Idle
    BY <1>1, <1>6 DEF TypeOK, Idle, NoOp, Ops
  <2>2. Unanswered(e)'
    BY <1>1, <1>2, <1>5, <2>1, Zenon DEF Unanswered
  <2>3. \A m \in nextPeer'[p] .. nextLocal'[e] - 1 :
            \/ pending'[e] # Idle /\ m = pending'[e].mid
            \/ teardown'[e] = "sent" /\ m = d
            \/ refused'[p] /\ m = nextPeer'[p]
    BY <1>1, <1>3, <1>4, <1>6, <2>1, Zenon
  <2> QED
    BY <2>2, <2>3, Zenon DEF Waiting, p
<1>7. CASE pending' = pending /\ teardown[e] # "sent"
           /\ teardown' = [teardown EXCEPT ![e] = "sent"]
  <2>1. teardown'[e] = "sent"
    BY <1>7, Zenon DEF TypeOK
  <2>2. Unanswered(e)'
    BY <1>1, <1>5, <1>7, Zenon DEF Unanswered
  <2>3. \A m \in nextPeer'[p] .. nextLocal'[e] - 1 :
            \/ pending'[e] # Idle /\ m = pending'[e].mid
            \/ teardown'[e] = "sent" /\ m = nextLocal[e]
            \/ refused'[p] /\ m = nextPeer'[p]
    BY <1>1, <1>3, <1>4, <1>7, <2>1, Zenon
  <2> QED
    BY <1>1, <2>2, <2>3, Zenon DEF Waiting, p
<1> QED
  BY <1>6, <1>7, Zenon

\* A request could not be sent: its caller is told, and its ID left alone.
LEMMA FailedCallers ==
    ASSUME TypeOK, Consistent, NEW e \in Ends, Unanswered(e), Waiting(e),
           Start(e, FALSE, FALSE) \/ Start(e, TRUE, FALSE),
           UNCHANGED <<nextPeer, refused, teardown>>
    PROVE  (Unanswered(e) /\ Waiting(e))'
<1> USE MaxMIDAssumption, MaxOpsAssumption, FirstAssumption
<1>1. /\ UNCHANGED <<pending, nextLocal>> /\ pending[e] = Idle
      /\ started' = [started EXCEPT ![e] = @ + 1] /\ started[e] < MaxOps
      /\ result' = [result EXCEPT ![e][started[e] + 1] = Failed]
  BY Zenon DEF Start
<1>2. started[e] \in Nat /\ started'[e] = started[e] + 1
  BY <1>1 DEF TypeOK
<1>3. \A o \in Ops : result'[e][o] = result[e][o] \/ o = started[e] + 1
  BY <1>1, Zenon DEF TypeOK
<1>4. Unanswered(e)'
  BY <1>1, <1>2, <1>3 DEF Unanswered, Ops
<1>5. Waiting(e)'
  <2>1. nextPeer' = nextPeer /\ refused' = refused /\ teardown' = teardown
        /\ pending' = pending /\ nextLocal' = nextLocal
    BY <1>1, Zenon
  <2> QED
    BY <2>1 DEF Waiting
<1> QED
  BY <1>4, <1>5, Zenon

\* The caller is answered: the other end has handled its request's ID.
LEMMA AnswerCallers ==
    ASSUME TypeOK, Consistent, NEW e \in Ends, NEW m \in net,
           NEW decodes \in BOOLEAN, Answer(e, m, decodes),
           Unanswered(e), Waiting(e)
    PROVE  (Unanswered(e) /\ Waiting(e))'
<1> USE MaxMIDAssumption, MaxOpsAssumption, FirstAssumption
<1> DEFINE p == Other(e)
<1>0. p \in Ends
  BY Others, Zenon
<1>1. /\ m.type = "response" /\ m.from = p /\ m.mid = pending[e].mid
      /\ pending[e] # Idle
      /\ UNCHANGED <<started, nextLocal, nextPeer, teardown, refused>>
  BY Zenon DEF Answer, Matching
<1>2. m.mid \in Handled(e) /\ First[e] \in Nat /\ nextPeer[p] \in Nat
  <2>1. m.mid \in Handled(e)
    BY <1>1, Zenon DEF Consistent, ResponsesMatch
  <2>2. nextPeer[p] \in MIDs
    BY <1>0, Zenon DEF TypeOK
  <2> QED
    BY <2>1, <2>2 DEF MIDs
<1>3. pending'[e] = Idle
  BY Zenon DEF Answer, TypeOK
<1>4. pending[e].op \in Ops /\ pending[e].op <= started[e]
  <2>1. pending[e].mid \in Used(e) /\ pending[e].op = sentAs[e][pending[e].mid]
        /\ pending[e].mid \in MIDs
    BY <1>1, Zenon DEF Consistent, PendingMatches, TypeOK
  <2>2. pending[e].op # NoOp /\ pending[e].op \in 0..MaxOps /\ pending[e].op <= started[e]
    BY <2>1, Zenon DEF Consistent, IdsInOrder, TypeOK
  <2> QED
    BY <2>2 DEF Ops, NoOp
<1>5. \A o \in Ops : result'[e][o] = result[e][o] \/ o = pending[e].op
  BY Zenon DEF Answer, TypeOK
<1>6. Unanswered(e)'
  BY <1>1, <1>3, <1>4, <1>5, Zenon DEF Unanswered
<1>7. PICK d \in MIDs : \A n \in nextPeer[p] .. nextLocal[e] - 1 :
          \/ pending[e] # Idle /\ n = pending[e].mid
          \/ teardown[e] = "sent" /\ n = d
          \/ refused[p] /\ n = nextPeer[p]
  BY Zenon DEF Waiting
<1>8. \A n \in nextPeer[p] .. nextLocal[e] - 1 :
          n = m.mid => refused[p] /\ n = nextPeer[p]
  BY <1>2 DEF Handled
<1> HIDE DEF p
<1>9. \A n \in nextPeer'[p] .. nextLocal'[e] - 1 :
          \/ pending'[e] # Idle /\ n = pending'[e].mid
          \/ teardown'[e] = "sent" /\ n = d
          \/ refused'[p] /\ n = nextPeer'[p]
  BY <1>1, <1>7, <1>8, Zenon
<1> QED
  BY <1>6, <1>9, Zenon DEF Waiting, p

\* End e runs a request, and moves past its ID or closes on it.
LEMMA RanCallers ==
    ASSUME TypeOK, Consistent, NEW e \in Ends, NEW m \in net, Ran(e, m),
           teardown' = teardown, Callers
    PROVE  Callers'
<1> USE MaxMIDAssumption, MaxOpsAssumption, FirstAssumption
<1> DEFINE p == Other(e)
<1>0. p \in Ends /\ p # e /\ Other(p) = e /\ Ends = {e, p}
  BY Others, Zenon
<1>1. /\ started' = started /\ pending' = pending /\ nextLocal' = nextLocal
      /\ result' = result /\ ~refused[e]
      /\ nextPeer[e] \in Nat /\ nextLocal[p] \in Nat
  <2>1. started' = started /\ pending' = pending /\ nextLocal' = nextLocal
        /\ result' = result /\ ~refused[e]
    BY Zenon DEF Ran, Consistent, RunIsHandled
  <2>2. nextPeer[e] \in MIDs /\ nextLocal[p] \in MIDs
    BY <1>0, Zenon DEF TypeOK
  <2> QED
    BY <2>1, <2>2 DEF MIDs
<1>2. Kept(e)
  BY <1>0, <1>1, Zenon DEF Ran, Kept, TypeOK
<1>3. Unanswered(e)' /\ Waiting(e)'
  BY <1>2, KeptKeeps, Zenon DEF Callers
<1>4. Unanswered(p)'
  BY <1>0, <1>1, Zenon DEF Callers, Unanswered
<1>5. PICK d \in MIDs : \A n \in nextPeer[e] .. nextLocal[p] - 1 :
          \/ pending[p] # Idle /\ n = pending[p].mid
          \/ teardown[p] = "sent" /\ n = d
  BY <1>0, <1>1, Zenon DEF Callers, Waiting
<1>6. nextPeer'[e] \in {nextPeer[e], nextPeer[e] + 1}
  BY <1>1, Zenon DEF Ran, TypeOK
<1>7. \A n \in nextPeer'[e] .. nextLocal'[p] - 1 : n \in nextPeer[e] .. nextLocal[p] - 1
  BY <1>1, <1>6
<1>8. Waiting(p)'
  BY <1>0, <1>1, <1>5, <1>7 DEF Waiting
<1> QED
  BY <1>0, <1>3, <1>4, <1>8, Zenon DEF Callers

LEMMA NextCallers ==
    ASSUME TypeOK, Consistent, Callers, [Next]_vars
    PROVE  Callers'
<1> USE MaxMIDAssumption, MaxOpsAssumption, FirstAssumption
\* An action at end e moves the other end's part only by running a request.
<1>0. ASSUME NEW e \in Ends, UNCHANGED <<nextPeer, refused>>,
             started'[Other(e)] = started[Other(e)],
             pending'[Other(e)] = pending[Other(e)],
             result'[Other(e)] = result[Other(e)],
             nextLocal'[Other(e)] = nextLocal[Other(e)],
             teardown'[Other(e)] = teardown[Other(e)],
             Unanswered(e)', Waiting(e)'
      PROVE  Callers'
  <2>1. Kept(Other(e))
    BY <1>0, Zenon DEF Kept
  <2>2. Unanswered(Other(e))' /\ Waiting(Other(e))'
    BY <1>0, <2>1, Others, KeptKeeps, Zenon DEF Callers
  <2> QED
    BY <1>0, <2>2, Others DEF Callers
<1>1. ASSUME NEW e \in Ends,
             \/ Call(e) \/ ChooseDirectDelete(e) \/ Serve(e)
             \/ Exhausted(e) \/ Close(e) \/ \E m \in net : Repeated(e, m)
      PROVE  Callers'
  <2>1. /\ UNCHANGED <<started, pending, result, nextLocal, nextPeer, refused>>
        /\ \A f \in Ends : teardown[f] = "sent" => teardown'[f] = "sent"
    BY <1>1, Zenon DEF Call, ChooseDirectDelete, Serve, Exhausted, Close, Repeated, TypeOK
  <2>2. \A f \in Ends : Kept(f)
    BY <2>1, Zenon DEF Kept
  <2> QED
    BY <2>2, KeptKeeps, Zenon DEF Callers
<1>2. ASSUME NEW e \in Ends, SendUnanswered(e) PROVE Callers'
  <2>1. /\ Emitted(e) /\ pending' = pending /\ teardown[e] # "sent"
        /\ teardown' = [teardown EXCEPT ![e] = "sent"]
    BY <1>2, Zenon DEF SendUnanswered, Emitted
  <2>2. Unanswered(e)' /\ Waiting(e)'
    BY <1>2, <2>1, EmittedCallers, Zenon DEF Callers
  <2> QED
    BY <1>0, <1>2, <2>1, <2>2, Others, Zenon DEF Emitted, TypeOK
<1>3. ASSUME NEW e \in Ends, NEW dpd \in BOOLEAN, NEW sent \in BOOLEAN,
             Start(e, dpd, sent),
             UNCHANGED <<nextPeer, cached, teardown, open, refused, runs>>
      PROVE  Callers'
  <2>1. CASE sent
    <3>1. nextLocal[e] < MaxMID
      BY <1>3 DEF Start, TypeOK, MIDs
    <3>2. /\ Emitted(e) /\ pending[e] = Idle
          /\ pending' = [pending EXCEPT ![e] =
                 [mid |-> nextLocal[e], op |-> started[e] + 1, dpd |-> dpd]]
      BY <1>3, <2>1, <3>1, Zenon DEF Start, Emitted
    <3>3. Unanswered(e)' /\ Waiting(e)'
      BY <1>3, <3>2, EmittedCallers, Zenon DEF Callers
    <3> QED
      BY <1>0, <1>3, <3>2, <3>3, Others, Zenon DEF Emitted, TypeOK
  <2>2. CASE ~sent
    <3>1. Start(e, FALSE, FALSE)
      BY <1>3, <2>2, Zenon DEF Start
    <3>2. Unanswered(e)' /\ Waiting(e)'
      BY <1>3, <3>1, FailedCallers, Zenon DEF Callers
    <3>3. UNCHANGED <<pending, nextLocal>>
          /\ started' = [started EXCEPT ![e] = @ + 1]
          /\ result' = [result EXCEPT ![e][started[e] + 1] = Failed]
      BY <3>1, Zenon DEF Start
    <3> QED
      BY <1>0, <1>3, <3>2, <3>3, Others, Zenon DEF TypeOK
  <2> QED
    BY <2>1, <2>2, Zenon
<1>4. ASSUME NEW e \in Ends, NEW sent \in BOOLEAN,
             StartQueued(e, sent) \/ Probe(e, sent)
      PROVE  Callers'
  <2>1. /\ UNCHANGED <<nextPeer, cached, teardown, open, refused, runs>>
        /\ Start(e, FALSE, sent) \/ Start(e, TRUE, sent)
    BY <1>4, Zenon DEF StartQueued, Probe
  <2> QED
    BY <1>3, <1>4, <2>1, Zenon
<1>5. ASSUME NEW e \in Ends, NEW m \in net, Execute(e, m) \/ ExecuteFails(e, m)
      PROVE  Callers'
  <2>1. Ran(e, m) /\ teardown' = teardown
    BY <1>5, Zenon DEF Execute, ExecuteFails, Ran
  <2> QED
    BY <1>5, <2>1, RanCallers, Zenon
<1>6. ASSUME NEW e \in Ends, NEW m \in net, NEW decodes \in BOOLEAN,
             Answer(e, m, decodes)
      PROVE  Callers'
  <2>1. Unanswered(e)' /\ Waiting(e)'
    BY <1>6, AnswerCallers, Zenon DEF Callers
  <2> QED
    BY <1>0, <1>6, <2>1, Others, Zenon DEF Answer, TypeOK
<1>7. CASE UNCHANGED vars
  <2>1. \A f \in Ends : Kept(f)
    BY <1>7, Zenon DEF vars, Kept
  <2> QED
    BY <2>1, KeptKeeps, Zenon DEF Callers
<1> QED
  BY <1>1, <1>2, <1>4, <1>5, <1>6, <1>7, Zenon DEF Next, Dispatch

LEMMA CallersInvariant == Spec => []Callers
<1>1. TypeOK /\ Consistent /\ Callers /\ [Next]_vars => Callers'
  BY NextCallers, Zenon
<1> QED
  BY <1>1, InitCallers, TypeCorrect, ConsistentIsInvariant, PTL DEF Spec

(* The Message ID dispatch expects next is one startRequest has used or is   *)
(* the next it will use, and the ends are apart by no more than the request  *)
(* outstanding, the direct Delete and the request the other end closed on.   *)
THEOREM WindowsInStepTheorem == Spec => []WindowsInStep
<1>1. TypeOK /\ Consistent /\ Callers => WindowsInStep
  <2> SUFFICES ASSUME TypeOK, Consistent, Callers, NEW e \in Ends
               PROVE  /\ nextPeer[Other(e)] <= nextLocal[e]
                      /\ nextLocal[e] - nextPeer[Other(e)] <=
                             (IF pending[e] = Idle THEN 0 ELSE 1)
                           + (IF teardown[e] = "sent" THEN 1 ELSE 0)
                           + (IF refused[Other(e)] THEN 1 ELSE 0)
    BY Zenon DEF WindowsInStep
  <2> DEFINE lo == nextPeer[Other(e)]
             hi == nextLocal[e]
             first == pending[e].mid
  <2>1. lo \in Nat /\ hi \in Nat /\ lo <= hi /\ first \in Nat
    <3>1. lo \in MIDs /\ hi \in MIDs /\ first \in MIDs
      BY Others, Zenon DEF TypeOK
    <3> QED
      BY <3>1, MaxMIDAssumption DEF MIDs, Consistent, RunIsHandled
  <2>2. PICK d \in MIDs : \A m \in lo .. hi - 1 :
            \/ pending[e] # Idle /\ m = first
            \/ teardown[e] = "sent" /\ m = d
            \/ refused[Other(e)] /\ m = lo
    BY Zenon DEF Callers, Waiting
  <2>3. d \in Nat
    BY MaxMIDAssumption DEF MIDs
  <2> HIDE DEF lo, hi, first
  <2>4. /\ hi > lo => lo \in lo .. hi - 1
        /\ hi > lo + 1 => lo + 1 \in lo .. hi - 1
        /\ hi > lo + 2 => lo + 2 \in lo .. hi - 1
        /\ hi > lo + 3 => lo + 3 \in lo .. hi - 1
    BY <2>1
  <2>5. hi - lo <= (IF pending[e] = Idle THEN 0 ELSE 1)
                 + (IF teardown[e] = "sent" THEN 1 ELSE 0)
                 + (IF refused[Other(e)] THEN 1 ELSE 0)
    BY <2>1, <2>2, <2>3, <2>4
  <2> QED
    BY <2>1, <2>5, Zenon DEF lo, hi
<1> QED
  BY <1>1, TypeCorrect, ConsistentIsInvariant, CallersInvariant, PTL

-----------------------------------------------------------------------------
(* The refinement of Rpc.                                                  *)

\* What Stage says, now that no operation runs twice.
Reached(ran, out, complete) ==
    IF ran = 0 THEN (IF out THEN "sent" ELSE "idle")
    ELSE IF complete THEN "complete" ELSE "run"

LEMMA StageIs ==
    ASSUME Consistent, NEW e \in Ends, NEW o \in Ops
    PROVE  /\ runs[Other(e)][o] \in {0, 1}
           /\ Stage(e, o) = Reached(runs[Other(e)][o], WentOut(e, o), result[e][o] = o)
<1>1. runs[Other(e)][o] \in {0, 1}
  BY Zenon DEF Consistent, RunIsHandled
<1>2. CASE runs[Other(e)][o] = 0
  <2>1. Stage(e, o) = IF WentOut(e, o) THEN "sent" ELSE "idle"
    BY <1>2 DEF Stage
  <2> QED
    BY <1>2, <2>1, Zenon DEF Reached
<1>3. CASE runs[Other(e)][o] = 1 /\ result[e][o] = o
  <2>1. Stage(e, o) = "complete"
    BY <1>3 DEF Stage
  <2> QED
    BY <1>3, <2>1 DEF Reached
<1>4. CASE runs[Other(e)][o] = 1 /\ result[e][o] # o
  <2>1. Stage(e, o) = "run"
    BY <1>4 DEF Stage
  <2> QED
    BY <1>4, <2>1 DEF Reached
<1> QED
  BY <1>1, <1>2, <1>3, <1>4, Zenon

LEMMA StageBecomes ==
    ASSUME Consistent', NEW e \in Ends, NEW o \in Ops
    PROVE  Stage(e, o)' =
               Reached(runs'[Other(e)][o], WentOut(e, o)', result'[e][o] = o)
<1>1. runs'[Other(e)][o] \in {0, 1}
  BY Zenon DEF Consistent, RunIsHandled
<1>2. CASE runs'[Other(e)][o] = 0
  <2>1. Stage(e, o)' = IF WentOut(e, o)' THEN "sent" ELSE "idle"
    BY <1>2 DEF Stage
  <2> QED
    BY <1>2, <2>1, Zenon DEF Reached
<1>3. CASE runs'[Other(e)][o] = 1 /\ result'[e][o] = o
  <2>1. Stage(e, o)' = "complete"
    BY <1>3 DEF Stage
  <2> QED
    BY <1>3, <2>1 DEF Reached
<1>4. CASE runs'[Other(e)][o] = 1 /\ result'[e][o] # o
  <2>1. Stage(e, o)' = "run"
    BY <1>4 DEF Stage
  <2> QED
    BY <1>4, <2>1 DEF Reached
<1> QED
  BY <1>1, <1>2, <1>3, <1>4, Zenon

\* An operation that neither ran nor went out meanwhile keeps its stage, if its
\* result stays or it has not run.
LEMMA StageKept ==
    ASSUME Consistent, Consistent', NEW e \in Ends, NEW o \in Ops,
           runs'[Other(e)][o] = runs[Other(e)][o], WentOut(e, o)' <=> WentOut(e, o),
           result'[e][o] = result[e][o] \/ runs[Other(e)][o] = 0
    PROVE  Stage(e, o)' = Stage(e, o)
<1>1. /\ Stage(e, o) = Reached(runs[Other(e)][o], WentOut(e, o), result[e][o] = o)
      /\ Stage(e, o)' = Reached(runs'[Other(e)][o], WentOut(e, o)', result'[e][o] = o)
  BY StageIs, StageBecomes, Zenon
<1>2. CASE runs[Other(e)][o] = 0
  BY <1>1, <1>2, Zenon DEF Reached
<1>3. CASE result'[e][o] = result[e][o]
  BY <1>1, <1>3 DEF Reached
<1> QED
  BY <1>2, <1>3, Zenon

\* The stages of every operation, the state of Rpc.
Stages == [e \in Ends |-> [o \in Ops |-> Stage(e, o)]]

LEMMA NoStageMoves ==
    ASSUME \A e \in Ends, o \in Ops : Stage(e, o)' = Stage(e, o)
    PROVE  Stages' = Stages
BY DEF Stages

LEMMA OneStageMoves ==
    ASSUME NEW e \in Ends, NEW o \in Ops,
           \A f \in Ends, q \in Ops :
               f # e \/ q # o => Stage(f, q)' = Stage(f, q)
    PROVE  Stages' = [Stages EXCEPT ![e][o] = Stage(e, o)']
<1>1. \A f \in Ends, q \in Ops : Stages'[f][q] = Stage(f, q)' /\ Stages[f][q] = Stage(f, q)
  BY Zenon DEF Stages
<1>2. Stages' = [f \in Ends |-> [q \in Ops |-> Stages'[f][q]]]
      /\ Stages = [f \in Ends |-> [q \in Ops |-> Stages[f][q]]]
  BY Zenon DEF Stages
<1> QED
  BY <1>1, <1>2

\* An operation that was never numbered is idle.
LEMMA LaterIdle ==
    ASSUME TypeOK, Consistent, NEW e \in Ends, NEW o \in Ops, o > started[e]
    PROVE  runs[Other(e)][o] = 0 /\ ~WentOut(e, o)
<1>1. \A m \in MIDs : sentAs[e][m] # o
  <2>1. \A m \in MIDs : sentAs[e][m] \in 0..MaxOps /\ sentAs[e][m] <= started[e]
    BY DEF TypeOK, Consistent, IdsInOrder
  <2> QED
    BY <2>1, MaxOpsAssumption DEF Ops, TypeOK
<1>2. \A m \in Handled(e) : m \in MIDs
  <2>1. Handled(e) \subseteq Used(e) /\ nextLocal[e] \in MIDs
    BY Zenon DEF Consistent, RunIsHandled, TypeOK
  <2> QED
    BY <2>1, MaxMIDAssumption, FirstAssumption DEF Used, MIDs
<1> QED
  BY <1>1, <1>2, Zenon DEF WentOut, Consistent, RunIsHandled

\* A request that goes out is a Send.
LEMMA EmittedSends ==
    ASSUME TypeOK, Consistent, Consistent', NEW e \in Ends, Emitted(e)
    PROVE  Abstract!Next
<1> USE MaxMIDAssumption, MaxOpsAssumption, FirstAssumption
<1>0. started[e] \in Nat /\ started[e] + 1 \in Ops
  <2>1. started[e] < MaxOps /\ started[e] \in 0..MaxOps
    BY Zenon DEF Emitted, TypeOK
  <2> QED
    BY <2>1 DEF Ops
<1> PICK n \in Ops : n = started[e] + 1
  BY <1>0, Zenon
<1>1. /\ nextLocal[e] \in MIDs
      /\ runs' = runs /\ result' = result
      /\ \A f \in Ends, m \in MIDs : sentAs'[f][m] =
             IF f = e /\ m = nextLocal[e] THEN n ELSE sentAs[f][m]
  <2>1. nextLocal[e] \in MIDs
    BY Zenon DEF TypeOK
  <2>2. \A f \in Ends, m \in MIDs : sentAs'[f][m] =
            IF f = e /\ m = nextLocal[e] THEN n ELSE sentAs[f][m]
    BY <2>1, Zenon DEF Emitted, TypeOK
  <2>3. runs' = runs /\ result' = result
    BY Zenon DEF Emitted
  <2> QED
    BY <2>1, <2>2, <2>3, Zenon
<1>2. \A q \in Ops : q >= n => Stage(e, q) = "idle" /\ runs[Other(e)][q] = 0
  BY <1>0, LaterIdle, StageIs, SMTT(30) DEF Reached, Ops
<1>3. sentAs[e][nextLocal[e]] = NoOp
  BY <1>1 DEF Consistent, IdsInOrder, Used, MIDs
<1>4. \A f \in Ends, q \in Ops : f # e \/ q # n => (WentOut(f, q)' <=> WentOut(f, q))
  BY <1>1, <1>3, SMTT(30) DEF WentOut, Ops, NoOp
<1>5. \A f \in Ends, q \in Ops : f # e \/ q # n => Stage(f, q)' = Stage(f, q)
  BY <1>1, <1>4, StageKept, Zenon
<1>6. Stage(e, n)' = "sent"
  <2>1. WentOut(e, n)'
    BY <1>1, Zenon DEF WentOut
  <2>2. runs'[Other(e)][n] = 0
    BY <1>1, <1>2 DEF Ops
  <2> QED
    BY <1>1, <2>1, <2>2, StageBecomes, Zenon DEF Reached
<1>7. Stages' = [Stages EXCEPT ![e][n] = "sent"]
  BY <1>1, <1>5, <1>6, OneStageMoves
<1>8. \A q \in Ops : q >= n => Stages[e][q] = "idle"
  BY <1>2, Zenon DEF Stages
<1> QED
  BY <1>1, <1>7, <1>8, Zenon DEF Abstract!Next, Abstract!Send, Stages

\* A request that is run is a Run at the end that sent it.
LEMMA RanRuns ==
    ASSUME TypeOK, Consistent, Consistent', NEW e \in Ends, NEW m \in net, Ran(e, m)
    PROVE  Abstract!Next
<1> USE MaxMIDAssumption, MaxOpsAssumption, FirstAssumption
<1>0. PICK p \in Ends : p = Other(e) /\ p # e /\ Other(p) = e /\ Ends = {e, p}
  BY Others, Zenon
<1>1. /\ m.type = "request" /\ m.from = p /\ m.mid = nextPeer[e] /\ ~refused[e]
      /\ m.mid \in Used(p) /\ m.mid \in MIDs /\ m.op = sentAs[p][m.mid]
  <2>1. m.type = "request" /\ m.from = p /\ m.mid = nextPeer[e] /\ ~refused[e]
    BY <1>0, Zenon DEF Ran, Expected, Consistent, RunIsHandled
  <2> QED
    BY <1>0, <2>1, Zenon DEF Consistent, RequestsMatch, TypeOK, Messages
<1>2. m.op \in Ops
  <2>1. IdsInOrder(p)
    BY Zenon DEF Consistent
  <2>2. m.op # NoOp
    BY <1>1, <2>1, Zenon DEF IdsInOrder
  <2>3. sentAs[p][m.mid] \in 0..MaxOps
    BY <1>1 DEF TypeOK
  <2> QED
    BY <1>1, <2>2, <2>3, SMTT(30) DEF Ops, NoOp
<1>a. \A q \in Ops : runs[e][q] = IF \E n \in Handled(p) : sentAs[p][n] = q THEN 1 ELSE 0
  <2>1. RunIsHandled(p)
    BY Zenon DEF Consistent
  <2> QED
    BY <1>0, <2>1, Zenon DEF RunIsHandled
<1>3. PICK o \in Ops : o = m.op
  BY <1>2, Zenon
<1>4. /\ sentAs' = sentAs /\ result' = result
      /\ \A f \in Ends, q \in Ops : runs'[f][q] =
             IF f = e /\ q = o THEN runs[f][q] + 1 ELSE runs[f][q]
  BY <1>3 DEF Ran, TypeOK
\* The IDs handled are those before this one.
<1>5. nextPeer[e] \in Int /\ First[p] \in Int /\ nextLocal[p] \in Int
      /\ Handled(p) = First[p] .. nextPeer[e] - 1
  <2>1. nextPeer[e] \in MIDs /\ nextLocal[p] \in MIDs
    BY Zenon DEF TypeOK
  <2> QED
    BY <1>0, <1>1, <2>1 DEF Handled, MIDs
<1>6. runs[e][o] = 0
  <2>1. \A n \in Handled(p) : n \in Used(p) /\ n < m.mid
    BY <1>1, <1>5, SMTT(30) DEF Used
  <2>2. \A n \in Handled(p) : sentAs[p][n] < sentAs[p][m.mid]
    <3>1. IdsInOrder(p)
      BY Zenon DEF Consistent
    <3> QED
      BY <1>1, <2>1, <3>1, Zenon DEF IdsInOrder
  <2>3. \A n \in Handled(p) : sentAs[p][n] # o
    BY <1>1, <1>3, <2>2 DEF Ops
  <2> QED
    BY <1>a, <2>3, Zenon
<1>7. Stage(p, o) = "sent"
  <2>1. WentOut(p, o)
    BY <1>1, <1>3, Zenon DEF WentOut
  <2> QED
    BY <1>0, <1>6, <2>1, StageIs, Zenon DEF Reached
<1>8. ASSUME NEW q \in Ops, q < o PROVE Stage(p, q) # "sent"
  <2> SUFFICES ASSUME runs[e][q] = 0, WentOut(p, q) PROVE FALSE
    BY <1>0, StageIs, Zenon DEF Reached
  <2>1. PICK n \in MIDs : sentAs[p][n] = q
    BY Zenon DEF WentOut
  <2>2. n \in Used(p) /\ n \in Int /\ m.mid \in Int
    BY <1>1, <2>1, SMTT(30) DEF Consistent, IdsInOrder, Ops, NoOp, MIDs
  <2>3. n \notin Handled(p)
    BY <1>a, <2>1
  <2>4. n >= m.mid
    BY <1>1, <1>5, <2>2, <2>3 DEF Used
  <2>5. n # m.mid
    BY <1>1, <1>3, <1>8, <2>1, SMTT(30) DEF Ops
  <2>6. sentAs[p][m.mid] < sentAs[p][n]
    <3>1. IdsInOrder(p)
      BY Zenon DEF Consistent
    <3> QED
      BY <1>1, <2>2, <2>4, <2>5, <3>1, SMTT(30) DEF IdsInOrder
  <2> QED
    BY <1>1, <1>3, <1>8, <2>1, <2>6 DEF Ops
<1>9. Stage(p, o)' = "run"
  <2>1. runs'[Other(p)][o] = 1
    BY <1>0, <1>4, <1>6, SMTT(30)
  <2>2. result'[p][o] # o
    BY <1>0, <1>4, <1>6, SMTT(30) DEF Consistent, ResultsMatch
  <2> QED
    BY <2>1, <2>2, StageBecomes DEF Reached
<1>10. \A f \in Ends, q \in Ops : f # p \/ q # o => Stage(f, q)' = Stage(f, q)
  <2>1. \A f \in Ends, q \in Ops : WentOut(f, q)' <=> WentOut(f, q)
    BY <1>4, Zenon DEF WentOut
  <2>2. \A f \in Ends, q \in Ops : f # p \/ q # o =>
            runs'[Other(f)][q] = runs[Other(f)][q]
    BY <1>0, <1>4, Others
  <2> QED
    BY <1>4, <2>1, <2>2, StageKept, Zenon
<1>11. Stages' = [Stages EXCEPT ![p][o] = "run"]
  BY <1>9, <1>10, OneStageMoves
<1>12. Stages[p][o] = "sent" /\ \A q \in Ops : q < o => Stages[p][q] # "sent"
  BY <1>7, <1>8, Zenon DEF Stages
<1> QED
  BY <1>11, <1>12, Zenon DEF Abstract!Next, Abstract!Run, Stages

\* A decoded answer is a Complete; one that does not decode moves nothing.
LEMMA AnswerCompletes ==
    ASSUME TypeOK, Consistent, Consistent', Callers, NEW e \in Ends, NEW m \in net,
           NEW decodes \in BOOLEAN, Answer(e, m, decodes)
    PROVE  Abstract!Next \/ Stages' = Stages
<1> USE MaxMIDAssumption, MaxOpsAssumption, FirstAssumption
<1>0. PICK p \in Ends : p = Other(e)
  BY Others, Zenon
<1>1. /\ m.type = "response" /\ m.from = p /\ m.mid = pending[e].mid
      /\ pending[e] # Idle /\ sentAs' = sentAs /\ runs' = runs
      /\ result' = [result EXCEPT ![e][pending[e].op] =
                       IF decodes THEN m.op ELSE Failed]
  BY <1>0, Zenon DEF Answer, Matching
<1>2. /\ m.mid \in Handled(e) /\ m.op = sentAs[e][m.mid]
      /\ pending[e].op = m.op /\ m.mid \in MIDs /\ m.mid \in Used(e)
  BY <1>0, <1>1 DEF Consistent, ResponsesMatch, PendingMatches, TypeOK, Messages
<1>3. m.op \in Ops
  <2>1. m.op # NoOp /\ m.op \in 0..MaxOps
    BY <1>2, Zenon DEF Consistent, IdsInOrder, TypeOK
  <2> QED
    BY <2>1, SMTT(30) DEF Ops, NoOp
<1>4. PICK o \in Ops : o = m.op
  BY <1>3, Zenon
<1>5. runs[p][o] = 1 /\ result[e][o] = NoOp
  BY <1>0, <1>1, <1>2, <1>4 DEF Consistent, RunIsHandled, Callers, Unanswered
<1>6. Stage(e, o) = "run"
  BY <1>0, <1>5, StageIs DEF Reached, NoOp, Ops
<1>7. \A f \in Ends, q \in Ops : result'[f][q] =
          IF f = e /\ q = o THEN (IF decodes THEN o ELSE Failed) ELSE result[f][q]
  BY <1>1, <1>2, <1>4, Zenon DEF TypeOK
<1>8. \A f \in Ends, q \in Ops : f # e \/ q # o => Stage(f, q)' = Stage(f, q)
  <2>1. \A f \in Ends, q \in Ops : WentOut(f, q)' <=> WentOut(f, q)
    BY <1>1, Zenon DEF WentOut
  <2> QED
    BY <1>1, <1>7, <2>1, StageKept
<1>9. CASE decodes
  <2>1. Stage(e, o)' = "complete"
    BY <1>0, <1>1, <1>5, <1>7, <1>9, StageBecomes DEF Reached
  <2>2. Stages' = [Stages EXCEPT ![e][o] = "complete"] /\ Stages[e][o] = "run"
    BY <1>6, <1>8, <2>1, OneStageMoves DEF Stages
  <2> QED
    BY <2>2, Zenon DEF Abstract!Next, Abstract!Complete, Stages
<1>10. CASE ~decodes
  <2>1. Failed # o
    BY DEF Failed, Ops
  <2>2. Stage(e, o)' = "run"
    BY <1>0, <1>1, <1>5, <1>7, <1>10, <2>1, StageBecomes DEF Reached
  <2> QED
    BY <1>6, <1>8, <2>2, NoStageMoves, Zenon
<1> QED
  BY <1>9, <1>10, Zenon

\* A request that could not be sent stays idle, though its caller is told.
LEMMA FailedIdle ==
    ASSUME TypeOK, Consistent, Consistent', NEW e \in Ends,
           Start(e, FALSE, FALSE) \/ Start(e, TRUE, FALSE), runs' = runs
    PROVE  Stages' = Stages
<1> USE MaxMIDAssumption, MaxOpsAssumption, FirstAssumption
<1>1. /\ sentAs' = sentAs /\ started[e] < MaxOps /\ started[e] \in 0..MaxOps
      /\ result' = [result EXCEPT ![e][started[e] + 1] = Failed]
  BY Zenon DEF Start, TypeOK
<1>2. \A f \in Ends, q \in Ops :
          result'[f][q] = result[f][q] \/ (f = e /\ q = started[e] + 1)
  BY <1>1, Zenon DEF TypeOK
<1>3. \A q \in Ops : q = started[e] + 1 => runs[Other(e)][q] = 0
  BY <1>1, LaterIdle
<1>4. \A f \in Ends, q \in Ops : WentOut(f, q)' <=> WentOut(f, q)
  BY <1>1, Zenon DEF WentOut
<1>5. \A f \in Ends, q \in Ops : Stage(f, q)' = Stage(f, q)
  <2> SUFFICES ASSUME NEW f \in Ends, NEW q \in Ops PROVE Stage(f, q)' = Stage(f, q)
    BY Zenon
  <2>1. result'[f][q] = result[f][q] \/ runs[Other(f)][q] = 0
    BY <1>2, <1>3, Zenon
  <2> QED
    BY <1>4, <2>1, StageKept, Zenon
<1> QED
  BY <1>5, NoStageMoves, Zenon

LEMMA NextRefines ==
    ASSUME TypeOK, Consistent, Consistent', Callers, [Next]_vars
    PROVE  Abstract!Next \/ Stages' = Stages
<1> USE MaxMIDAssumption, MaxOpsAssumption, FirstAssumption
<1>1. ASSUME UNCHANGED <<runs, result, sentAs>> PROVE Stages' = Stages
  <2>1. \A e \in Ends, o \in Ops : Stage(e, o)' = Stage(e, o)
    <3>1. \A e \in Ends, o \in Ops : WentOut(e, o)' <=> WentOut(e, o)
      BY <1>1, Zenon DEF WentOut
    <3> QED
      BY <1>1, <3>1, StageKept, Zenon
  <2> QED
    BY <2>1, NoStageMoves, Zenon
<1>2. ASSUME NEW e \in Ends,
             \/ Call(e) \/ ChooseDirectDelete(e) \/ Serve(e)
             \/ Exhausted(e) \/ Close(e) \/ \E m \in net : Repeated(e, m)
      PROVE  Stages' = Stages
  BY <1>1, <1>2, Zenon DEF Call, ChooseDirectDelete, Serve, Exhausted, Close, Repeated
<1>3. ASSUME NEW e \in Ends, SendUnanswered(e) PROVE Abstract!Next
  <2>1. Emitted(e)
    BY <1>3, Zenon DEF SendUnanswered, Emitted
  <2> QED
    BY <1>3, <2>1, EmittedSends, Zenon
<1>4. ASSUME NEW e \in Ends, NEW dpd \in BOOLEAN, NEW sent \in BOOLEAN,
             Start(e, dpd, sent),
             UNCHANGED <<nextPeer, cached, open, refused, runs>>
      PROVE  Abstract!Next \/ Stages' = Stages
  <2>1. CASE sent
    <3>1. nextLocal[e] < MaxMID
      BY <1>4 DEF Start, TypeOK, MIDs
    <3>2. Emitted(e)
      BY <1>4, <2>1, <3>1, Zenon DEF Start, Emitted
    <3> QED
      BY <1>4, <3>2, EmittedSends, Zenon
  <2>2. CASE ~sent
    <3>1. Start(e, FALSE, FALSE)
      BY <1>4, <2>2, Zenon DEF Start
    <3> QED
      BY <1>4, <3>1, FailedIdle, Zenon
  <2> QED
    BY <2>1, <2>2, Zenon
<1>5. ASSUME NEW e \in Ends, NEW sent \in BOOLEAN,
             StartQueued(e, sent) \/ Probe(e, sent)
      PROVE  Abstract!Next \/ Stages' = Stages
  <2>1. /\ UNCHANGED <<nextPeer, cached, open, refused, runs>>
        /\ Start(e, FALSE, sent) \/ Start(e, TRUE, sent)
    BY <1>5, Zenon DEF StartQueued, Probe
  <2> QED
    BY <1>4, <1>5, <2>1, Zenon
<1>6. ASSUME NEW e \in Ends, NEW m \in net, Execute(e, m) \/ ExecuteFails(e, m)
      PROVE  Abstract!Next
  <2>1. Ran(e, m)
    BY <1>6, Zenon DEF Execute, ExecuteFails, Ran
  <2> QED
    BY <1>6, <2>1, RanRuns, Zenon
<1>7. CASE UNCHANGED vars
  BY <1>1, <1>7, Zenon DEF vars
<1> QED
  BY <1>2, <1>3, <1>5, <1>6, <1>7, AnswerCompletes, Zenon DEF Next, Dispatch

(* startRequest, dispatch and request implement remote operations that run   *)
(* in order and at most once, and complete only once they have run.          *)
THEOREM ImplementsRpc == Spec => Refines
<1>1. Init => Abstract!Init
  <2> SUFFICES ASSUME Init PROVE Stages = [e \in Ends |-> [o \in Ops |-> "idle"]]
    BY Zenon DEF Abstract!Init, Stages
  <2>1. \A e \in Ends, o \in Ops : runs[Other(e)][o] = 0 /\ ~WentOut(e, o)
    BY Others, SMTT(30) DEF Init, WentOut, NoOp, Ops
  <2>2. \A e \in Ends, o \in Ops : Stage(e, o) = "idle"
    BY <2>1, InitConsistent, StageIs, Zenon DEF Reached
  <2> QED
    BY <2>2, Zenon DEF Stages
<1>2. TypeOK /\ Consistent /\ Consistent' /\ Callers /\ [Next]_vars
          => [Abstract!Next]_Stages
  BY NextRefines, Zenon
<1> QED
  BY <1>1, <1>2, TypeCorrect, ConsistentIsInvariant, CallersInvariant, PTL
     DEF Spec, Refines, Abstract!Spec, Stages
=============================================================================
