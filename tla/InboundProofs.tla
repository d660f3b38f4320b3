---------------------------- MODULE InboundProofs ----------------------------
(***************************************************************************)
(* What comes in.  The hub's tables stay exact while muxes come, close and *)
(* are told of the hub's failure, for any number of muxes, SPIs and        *)
(* receive loops; the lanes to the TUN keep the order of every flow; and   *)
(* the errors sent for refused packets stay within their rate.             *)
(***************************************************************************)
EXTENDS Hub, Delivery, FiniteSetTheorems, WellFoundedInduction, TLAPS

\* The types of a mux's fields.
Fields == [Muxes -> [at : {"new", "open", "closing", "withdrawn", "gone"},
                     closed : BOOLEAN, done : BOOLEAN]]

\* ClaimsKept and NothingStale are not inductive: that a registration cannot
\* bring back a mux that has left the tables rests on its closed flag and the
\* hub's, and that one in the tables is not done on Hub.fail emptying them first.
Exact ==
    /\ owner \in [SPIs -> Muxes \cup {None}] /\ muxes \subseteq Muxes /\ told \subseteq Muxes
    /\ closed \in BOOLEAN
    /\ mux \in Fields
    /\ claims \in [Muxes -> SUBSET SPIs]
    /\ ClaimsKept
    /\ \A s \in SPIs : owner[s] # None => owner[s] \in muxes
    /\ \A m \in muxes :
         /\ mux[m].at \in {"open", "closing"} /\ ~mux[m].done
         /\ mux[m].at = "open" => ~mux[m].closed
    /\ \A m \in Muxes :
         /\ mux[m].at # "new" /\ ~mux[m].closed /\ ~closed => m \in muxes
         /\ mux[m].at \in {"closing", "withdrawn"} => mux[m].closed
         /\ mux[m].at = "new" => ~mux[m].closed /\ ~mux[m].done /\ m \notin told
    /\ failing # "no" => closed
    /\ failing = "collected" => muxes = {}
    /\ told # {} => failing = "collected"

LEMMA FieldsKept ==
    ASSUME NEW f \in Fields, NEW m \in Muxes
    PROVE  /\ [f EXCEPT ![m].closed = TRUE] \in Fields
           /\ [f EXCEPT ![m].done = TRUE] \in Fields
<1>1. [f EXCEPT ![m].closed = TRUE] \in Fields
    BY Zenon DEF Fields
<1>2. [f EXCEPT ![m].done = TRUE] \in Fields
    BY Zenon DEF Fields
<1> QED
    BY <1>1, <1>2, Zenon

LEMMA NoneApart == HubAssumption => None \notin Muxes
    BY Zenon DEF HubAssumption

LEMMA ExactInit == HubAssumption /\ Init => Exact
<1> SUFFICES ASSUME HubAssumption, Init
             PROVE  Exact
    BY Zenon
<1>1. ClaimsKept
    BY NoneApart, Zenon DEF Init, ClaimsKept
<1>2. mux \in Fields
    BY Zenon DEF Init, Fields
<1>3. /\ owner \in [SPIs -> Muxes \cup {None}]
      /\ claims \in [Muxes -> SUBSET SPIs]
    BY Zenon DEF Init
<1>4. \A m \in Muxes : mux[m].at = "new" /\ ~mux[m].closed /\ ~mux[m].done
    BY Zenon DEF Init
<1> QED
    BY <1>1, <1>2, <1>3, <1>4, Zenon DEF Init, Exact

LEMMA ExactStep ==
    ASSUME HubAssumption, Exact, [Next]_vars
    PROVE  Exact'
<1> USE NoneApart DEF Exact, ClaimsKept, Fields
<1>1. ASSUME NEW m \in Muxes, NewMux(m) PROVE Exact'
    <2>1. /\ mux' \in Fields
          /\ \A n \in Muxes \ {m} : mux'[n] = mux[n]
        BY <1>1 DEF NewMux
    <2>2. mux'[m].at = (IF closed THEN "gone" ELSE "open")
          /\ mux'[m].closed = mux[m].closed /\ mux'[m].done = mux[m].done
        BY <1>1 DEF NewMux
    <2>3. mux[m].at = "new" /\ muxes' = (IF closed THEN muxes ELSE muxes \cup {m})
          /\ UNCHANGED <<owner, closed, failing, told, claims>>
        BY <1>1, Zenon DEF NewMux
    <2> QED
        BY <2>1, <2>2, <2>3
<1>2. ASSUME NEW m \in Muxes, NEW s \in SPIs, Register(m, s) PROVE Exact'
    BY <1>2 DEF Register
<1>3. ASSUME NEW m \in Muxes, NEW s \in SPIs, Unregister(m, s) PROVE Exact'
    BY <1>3 DEF Unregister
<1>4. ASSUME NEW m \in Muxes, CloseMux(m) PROVE Exact'
    <2>1. mux' \in Fields /\ \A n \in Muxes \ {m} : mux'[n] = mux[n]
        <3> DEFINE f == [mux EXCEPT ![m].at = IF mux[m].closed THEN "gone" ELSE "closing"]
        <3>1. f \in Fields
            OBVIOUS
        <3>2. \A n \in Muxes \ {m} : f[n] = mux[n]
            BY Zenon
        <3>3. mux' = [f EXCEPT ![m].closed = TRUE]
            BY <1>4, Zenon DEF CloseMux
        <3> HIDE DEF f
        <3>4. [f EXCEPT ![m].closed = TRUE] \in Fields
            BY <3>1, FieldsKept, Zenon
        <3> QED
            BY <3>1, <3>2, <3>3, <3>4
    <2>2. mux'[m].at = (IF mux[m].closed THEN "gone" ELSE "closing")
          /\ mux'[m].closed = TRUE /\ mux'[m].done = mux[m].done
        BY <1>4 DEF CloseMux
    <2>3. mux[m].at = "open" /\ UNCHANGED <<owner, muxes, closed, failing, told, claims>>
        BY <1>4, Zenon DEF CloseMux
    <2> QED
        BY <2>1, <2>2, <2>3
<1>5. ASSUME NEW m \in Muxes, Withdraw(m) PROVE Exact'
    BY <1>5 DEF Withdraw, Without
<1>6. ASSUME NEW m \in Muxes, CloseDone(m) PROVE Exact'
    <2>1. mux' \in Fields /\ \A n \in Muxes \ {m} : mux'[n] = mux[n]
        <3> DEFINE f == [mux EXCEPT ![m].at = "gone"]
        <3>1. f \in Fields
            OBVIOUS
        <3>2. \A n \in Muxes \ {m} : f[n] = mux[n]
            BY Zenon
        <3>3. mux' = [f EXCEPT ![m].done = TRUE]
            BY <1>6, Zenon DEF CloseDone
        <3> HIDE DEF f
        <3>4. [f EXCEPT ![m].done = TRUE] \in Fields
            BY <3>1, FieldsKept, Zenon
        <3> QED
            BY <3>1, <3>2, <3>3, <3>4
    <2>2. mux'[m].at = "gone" /\ mux'[m].closed = mux[m].closed
        BY <1>6 DEF CloseDone
    <2>3. mux[m].at = "withdrawn" /\ UNCHANGED <<owner, muxes, closed, failing, told, claims>>
        BY <1>6, Zenon DEF CloseDone
    <2> QED
        BY <2>1, <2>2, <2>3
<1>7. CASE Fail
    BY <1>7, Zenon DEF Fail
<1>8. CASE Collect
    BY <1>8, Zenon DEF Collect
<1>9. ASSUME NEW m \in Muxes, Tell(m) PROVE Exact'
    <2>1. mux' \in Fields /\ \A n \in Muxes \ {m} : mux'[n] = mux[n]
        <3> DEFINE f == [mux EXCEPT ![m].closed = TRUE]
        <3>1. f \in Fields
            BY FieldsKept, Zenon
        <3>2. \A n \in Muxes \ {m} : f[n] = mux[n]
            BY Zenon
        <3>3. mux' = [f EXCEPT ![m].done = TRUE]
            BY <1>9, Zenon DEF Tell
        <3> HIDE DEF f
        <3>4. [f EXCEPT ![m].done = TRUE] \in Fields
            BY <3>1, FieldsKept, Zenon
        <3> QED
            BY <3>1, <3>2, <3>3, <3>4
    <2>2. mux'[m].at = mux[m].at /\ mux'[m].closed = TRUE
        BY <1>9 DEF Tell
    <2>3. m \in told /\ told' = told \ {m} /\ UNCHANGED <<owner, muxes, closed, failing, claims>>
        BY <1>9, Zenon DEF Tell
    <2> QED
        BY <2>1, <2>2, <2>3
<1>10. CASE UNCHANGED <<owner, muxes, closed, failing, told, mux, claims>>
    BY <1>10, Zenon
<1>11. \/ Fail \/ Collect
       \/ UNCHANGED <<owner, muxes, closed, failing, told, mux, claims>>
       \/ \E m \in Muxes : \/ NewMux(m) \/ CloseMux(m) \/ Withdraw(m) \/ CloseDone(m) \/ Tell(m)
                           \/ \E s \in SPIs : Register(m, s) \/ Unregister(m, s)
    BY Zenon DEF Next, Closing, Receiving, Wait, Receive, Accept, Deliver, Offer, Demultiplex, vars
<1> QED
    BY <1>1, <1>2, <1>3, <1>4, <1>5, <1>6, <1>7, <1>8, <1>9, <1>10, <1>11, Zenon

\* The types of what the receive loops and the sessions that wait work on.
Traffic ==
    /\ failing \in {"no", "closed", "collected"}
    /\ loop \in [Loops -> Muxes \cup {Idle, Unclaimed}]
    /\ queued \in [Muxes -> 0..QueueCap] /\ listening \in 0..ListenCap
    /\ waiting \subseteq Muxes

LEMMA TrafficStep ==
    ASSUME HubAssumption, Exact, Traffic, [Next]_vars
    PROVE  Traffic'
<1> USE DEF Traffic
<1>0. QueueCap \in Nat /\ ListenCap \in Nat
    BY Zenon DEF HubAssumption
<1>1. ASSUME NEW l \in Loops, NEW s \in SPIs, Demultiplex(l, s) PROVE Traffic'
    <2>1. owner[s] \in Muxes \cup {None}
        BY Zenon DEF Exact
    <2> QED
        BY <1>1, <2>1, Zenon DEF Demultiplex
<1>2. ASSUME NEW l \in Loops, Deliver(l) PROVE Traffic'
    BY <1>0, <1>2 DEF Deliver
<1>3. ASSUME NEW l \in Loops, Offer(l) PROVE Traffic'
    BY <1>0, <1>3 DEF Offer
<1>4. CASE Accept
    BY <1>0, <1>4 DEF Accept
<1>5. ASSUME NEW m \in Muxes, Wait(m) \/ Receive(m) PROVE Traffic'
    BY <1>0, <1>5 DEF Wait, Receive
<1>6. CASE Fail \/ Collect
    BY <1>6, Zenon DEF Fail, Collect, traffic
<1>7. CASE UNCHANGED <<failing, traffic>>
    BY <1>7, Zenon DEF traffic
<1>8. \/ Fail \/ Collect \/ Accept \/ UNCHANGED <<failing, traffic>>
      \/ \E m \in Muxes : Wait(m) \/ Receive(m)
      \/ \E l \in Loops : \/ Deliver(l) \/ Offer(l)
                          \/ \E s \in SPIs : Demultiplex(l, s)
    BY Zenon DEF Next, Closing, Receiving, NewMux, Register, Unregister, CloseMux, Withdraw, CloseDone,
           Tell, vars, traffic
<1> QED
    BY <1>1, <1>2, <1>3, <1>4, <1>5, <1>6, <1>7, <1>8, Zenon

\* A mux keeps the SPIs it registered until it gives them up or the hub goes, no
\* SPI leads to a mux that has left the tables, and a hub that collected its
\* tables keeps nothing (RegisterIKE, UnregisterIKE, Mux.Close, Hub.fail).
THEOREM TablesKeptTheorem == HubAssumption => (Spec => []TablesKept)
<1> SUFFICES ASSUME HubAssumption
             PROVE  Spec => []TablesKept
    BY Zenon
<1>1. Init => Exact /\ Traffic
    <2> SUFFICES ASSUME Init PROVE Traffic
        BY ExactInit, Zenon
    <2> QED
        BY DEF HubAssumption, Init, Traffic
<1>2. Exact /\ Traffic /\ [Next]_vars => Exact' /\ Traffic'
    BY ExactStep, TrafficStep, Zenon
<1>3. Exact /\ Traffic => TablesKept
    BY Zenon DEF Exact, Fields, Traffic, TypeOK, NothingStale, TablesKept
<1> QED
    BY <1>1, <1>2, <1>3, PTL DEF Spec

-----------------------------------------------------------------------------
(* The lanes of the mesh's inbound half.                                   *)

\* What is in s; the packets of a deliverer in s are in the order in which it
\* delivered them; those in s are older than those in t.
Stamp == Deliverers \X Nat
Items(s) == {s[k] : k \in DOMAIN s}
Older(S, T) == \A x \in S, y \in T : x[1] = y[1] => x[2] < y[2]
Growing(s) == \A i, j \in DOMAIN s : (i < j /\ s[i][1] = s[j][1]) => s[i][2] < s[j][2]

LEMMA Appended ==
    ASSUME NEW s \in Seq(Stamp), NEW e \in Stamp
    PROVE  /\ Append(s, e) \in Seq(Stamp)
           /\ Items(Append(s, e)) = Items(s) \cup {e}
           /\ Growing(s) /\ Older(Items(s), {e}) => Growing(Append(s, e))
<1> DEFINE t == Append(s, e)
<1>1. /\ t \in Seq(Stamp) /\ Len(t) = Len(s) + 1 /\ Len(s) \in Nat
      /\ DOMAIN s = 1..Len(s) /\ DOMAIN t = 1..Len(t) /\ t[Len(t)] = e
      /\ \A k \in 1..Len(s) : t[k] = s[k]
    OBVIOUS
<1> HIDE DEF t
<1>2. \A k \in DOMAIN t : (k \in DOMAIN s /\ t[k] = s[k]) \/ (k = Len(t) /\ t[k] = e)
    BY <1>1
<1>3. Items(t) = Items(s) \cup {e}
    <2>1. Len(t) \in DOMAIN t /\ DOMAIN s \subseteq DOMAIN t
        BY <1>1
    <2> QED
        BY <1>1, <1>2, <2>1, Zenon DEF Items
<1>4. ASSUME Growing(s), Older(Items(s), {e}) PROVE Growing(t)
    <2> SUFFICES ASSUME NEW i \in DOMAIN t, NEW j \in DOMAIN t, i < j, t[i][1] = t[j][1]
                 PROVE  t[i][2] < t[j][2]
        BY Zenon DEF Growing
    <2>1. i \in DOMAIN s /\ t[i] = s[i] /\ s[i] \in Items(s)
        BY <1>1 DEF Items
    <2>2. CASE j \in DOMAIN s /\ t[j] = s[j]
        BY <1>4, <2>1, <2>2, Zenon DEF Growing
    <2>3. CASE t[j] = e
        BY <1>4, <2>1, <2>3, Zenon DEF Older
    <2> QED
        BY <1>2, <2>2, <2>3, Zenon
<1> QED
    BY <1>1, <1>3, <1>4, Zenon DEF t

LEMMA Taken ==
    ASSUME NEW s \in Seq(Stamp), s # <<>>
    PROVE  /\ Tail(s) \in Seq(Stamp) /\ Head(s) \in Stamp
           /\ Items(s) = {Head(s)} \cup Items(Tail(s))
           /\ Growing(s) => Growing(Tail(s)) /\ Older({Head(s)}, Items(Tail(s)))
<1> DEFINE t == Tail(s)
<1>1. /\ t \in Seq(Stamp) /\ Len(t) = Len(s) - 1 /\ Len(s) \in Nat \ {0}
      /\ DOMAIN s = 1..Len(s) /\ DOMAIN t = 1..Len(t) /\ Head(s) = s[1] /\ s[1] \in Stamp
      /\ \A k \in 1..Len(t) : t[k] = s[k + 1]
    OBVIOUS
<1> HIDE DEF t
<1>2. Items(s) = {s[1]} \cup Items(t)
    <2>1. \A k \in DOMAIN s : k = 1 \/ (k - 1 \in DOMAIN t /\ s[k] = t[k - 1])
        BY <1>1
    <2>2. 1 \in DOMAIN s /\ \A k \in DOMAIN t : k + 1 \in DOMAIN s /\ t[k] = s[k + 1]
        BY <1>1
    <2>3. \A x \in Items(s) : x \in {s[1]} \cup Items(t)
        BY <2>1 DEF Items
    <2>4. \A x \in {s[1]} \cup Items(t) : x \in Items(s)
        BY <2>2, Zenon DEF Items
    <2> QED
        BY <2>3, <2>4, Zenon
<1>3. ASSUME Growing(s) PROVE Growing(t) /\ Older({s[1]}, Items(t))
    <2>1. \A k \in DOMAIN t : /\ k + 1 \in DOMAIN s /\ t[k] = s[k + 1] /\ 1 \in DOMAIN s /\ 1 < k + 1
        BY <1>1
    <2>2. \A i, j \in DOMAIN t : i < j => i + 1 < j + 1
        BY <1>1
    <2>3. Growing(t)
        <3> SUFFICES ASSUME NEW i \in DOMAIN t, NEW j \in DOMAIN t, i < j, t[i][1] = t[j][1]
                     PROVE  t[i][2] < t[j][2]
            BY Zenon DEF Growing
        <3>1. i + 1 < j + 1 /\ s[i + 1][1] = s[j + 1][1]
            BY <2>1, <2>2, Zenon
        <3>2. s[i + 1][2] < s[j + 1][2]
            BY <1>3, <2>1, <3>1, Zenon DEF Growing
        <3> QED
            BY <2>1, <3>2, Zenon
    <2>4. Older({s[1]}, Items(t))
        <3> SUFFICES ASSUME NEW k \in DOMAIN t, s[1][1] = t[k][1]
                     PROVE  s[1][2] < t[k][2]
            BY Zenon DEF Older, Items
        <3> QED
            BY <1>3, <2>1, Zenon DEF Growing
    <2> QED
        BY <2>3, <2>4, Zenon
<1> QED
    BY <1>1, <1>2, <1>3, Zenon DEF t

LEMMA Joined ==
    ASSUME NEW s \in Seq(Stamp), NEW t \in Seq(Stamp)
    PROVE  /\ s \o t \in Seq(Stamp)
           /\ Items(s \o t) = Items(s) \cup Items(t)
           /\ Growing(s) /\ Growing(t) /\ Older(Items(s), Items(t)) => Growing(s \o t)
<1> DEFINE u == s \o t
<1>1. /\ u \in Seq(Stamp) /\ Len(u) = Len(s) + Len(t) /\ Len(s) \in Nat /\ Len(t) \in Nat
      /\ DOMAIN s = 1..Len(s) /\ DOMAIN t = 1..Len(t) /\ DOMAIN u = 1..Len(u)
      /\ \A k \in 1..Len(u) : u[k] = IF k <= Len(s) THEN s[k] ELSE t[k - Len(s)]
    OBVIOUS
<1> HIDE DEF u
<1>2. \A k \in DOMAIN u : \/ k \in DOMAIN s /\ u[k] = s[k]
                          \/ k > Len(s) /\ k - Len(s) \in DOMAIN t /\ u[k] = t[k - Len(s)]
    BY <1>1
<1>3. Items(u) = Items(s) \cup Items(t)
    <2>1. \A k \in DOMAIN s : k \in DOMAIN u /\ s[k] = u[k]
        BY <1>1
    <2>2. \A k \in DOMAIN t : k + Len(s) \in DOMAIN u /\ t[k] = u[k + Len(s)]
        BY <1>1
    <2>3. \A x \in Items(u) : x \in Items(s) \cup Items(t)
        BY <1>2, Zenon DEF Items
    <2>4. \A x \in Items(s) \cup Items(t) : x \in Items(u)
        BY <2>1, <2>2, Zenon DEF Items
    <2> QED
        BY <2>3, <2>4, Zenon
<1>4. ASSUME Growing(s), Growing(t), Older(Items(s), Items(t)) PROVE Growing(u)
    <2> SUFFICES ASSUME NEW i \in DOMAIN u, NEW j \in DOMAIN u, i < j, u[i][1] = u[j][1]
                 PROVE  u[i][2] < u[j][2]
        BY Zenon DEF Growing
    <2>1. CASE j \in DOMAIN s /\ u[j] = s[j]
        <3>1. i \in DOMAIN s /\ u[i] = s[i]
            BY <1>1, <2>1
        <3> QED
            BY <1>4, <2>1, <3>1, Zenon DEF Growing
    <2>2. CASE j > Len(s) /\ j - Len(s) \in DOMAIN t /\ u[j] = t[j - Len(s)]
        <3>1. CASE i \in DOMAIN s /\ u[i] = s[i]
            BY <1>4, <2>2, <3>1, Zenon DEF Older, Items
        <3>2. CASE i > Len(s) /\ i - Len(s) \in DOMAIN t /\ u[i] = t[i - Len(s)]
            <4>1. i - Len(s) < j - Len(s)
                BY <1>1
            <4> QED
                BY <1>4, <2>2, <3>2, <4>1, Zenon DEF Growing
        <3> QED
            BY <1>2, <3>1, <3>2, Zenon
    <2> QED
        BY <1>2, <2>1, <2>2, Zenon
<1> QED
    BY <1>1, <1>3, <1>4, Zenon DEF u

\* What a lane has written, collected and queued, in this order.
Sorted(w, p, q) ==
    /\ Growing(w) /\ Growing(p) /\ Growing(q)
    /\ Older(Items(w), Items(p)) /\ Older(Items(w) \cup Items(p), Items(q))

LEMMA EmptySorted ==
    /\ <<>> \in Seq(Stamp) /\ Items(<<>>) = {} /\ Growing(<<>>)
    /\ Sorted(<<>>, <<>>, <<>>)
<1>1. <<>> \in Seq(Stamp) /\ DOMAIN <<>> = {}
    OBVIOUS
<1>2. Items(<<>>) = {} /\ Growing(<<>>)
    BY <1>1, Zenon DEF Items, Growing
<1> QED
    BY <1>1, <1>2, Zenon DEF Sorted, Older

LEMMA SentSorted ==
    ASSUME NEW w \in Seq(Stamp), NEW p \in Seq(Stamp), NEW q \in Seq(Stamp), NEW e \in Stamp,
           Sorted(w, p, q), Older(Items(w) \cup Items(p) \cup Items(q), {e})
    PROVE  Sorted(w, p, Append(q, e))
<1>1. Items(Append(q, e)) = Items(q) \cup {e} /\ Growing(Append(q, e))
    <2>1. Growing(q) /\ Older(Items(q), {e})
        BY Zenon DEF Sorted, Older
    <2> QED
        BY <2>1, Appended, Zenon
<1> QED
    BY <1>1, Zenon DEF Sorted, Older

LEMMA CollectedSorted ==
    ASSUME NEW w \in Seq(Stamp), NEW p \in Seq(Stamp), NEW q \in Seq(Stamp), q # <<>>,
           Sorted(w, p, q)
    PROVE  /\ Sorted(w, Append(p, Head(q)), Tail(q))
           /\ Items(Append(p, Head(q))) \cup Items(Tail(q)) = Items(p) \cup Items(q)
<1>1. /\ Head(q) \in Stamp /\ Tail(q) \in Seq(Stamp)
      /\ Items(q) = {Head(q)} \cup Items(Tail(q))
      /\ Growing(Tail(q)) /\ Older({Head(q)}, Items(Tail(q)))
    BY Taken, Zenon DEF Sorted
<1>2. Items(Append(p, Head(q))) = Items(p) \cup {Head(q)} /\ Growing(Append(p, Head(q)))
    <2>1. Growing(p) /\ Older(Items(p), {Head(q)})
        BY <1>1, Zenon DEF Sorted, Older
    <2> QED
        BY <1>1, <2>1, Appended, Zenon
<1>3. Older(Items(w), Items(p) \cup {Head(q)})
    BY <1>1, Zenon DEF Sorted, Older
<1>4. Older(Items(w) \cup (Items(p) \cup {Head(q)}), Items(Tail(q)))
    BY <1>1, Zenon DEF Sorted, Older
<1> QED
    BY <1>1, <1>2, <1>3, <1>4, Zenon DEF Sorted

LEMMA WrittenSorted ==
    ASSUME NEW w \in Seq(Stamp), NEW p \in Seq(Stamp), NEW q \in Seq(Stamp), Sorted(w, p, q)
    PROVE  /\ Sorted(w \o p, <<>>, q)
           /\ Items(w \o p) \cup Items(<<>>) = Items(w) \cup Items(p)
<1>1. Items(w \o p) = Items(w) \cup Items(p) /\ Growing(w \o p)
    BY Joined, Zenon DEF Sorted
<1>2. Items(<<>>) = {} /\ Growing(<<>>)
    BY EmptySorted, Zenon
<1> QED
    BY <1>1, <1>2, Zenon DEF Sorted, Older

-----------------------------------------------------------------------------
LEMMA MinIn ==
    ASSUME NEW T \in SUBSET Nat, T # {}
    PROVE  Inbound!Min(T) \in T
<1>1. PICK m \in T : \A n \in T : <<n, m>> \notin OpToRel(<, Nat)
    BY NatLessThanWellFounded, WFMin, Zenon
<1>2. \A n \in T : ~(n < m)
    BY <1>1, Zenon DEF OpToRel
<1>3. \A n \in T : m <= n
    BY <1>2
<1> QED
    BY <1>3, Zenon DEF Inbound!Min

\* Cardinality is the same there and here.
LEMMA SameCount ==
    ASSUME NEW S
    PROVE  Inbound!Cardinality(S) = Cardinality(S)
    BY Zenon DEF Inbound!Cardinality, Cardinality

Delivering == [left : SUBSET Lanes, n : 0..Deliveries, in : BOOLEAN]
Writing == [at : {"wait", "collect", "stop", "gone"}, pending : Seq(Stamp)]

LaneTypes ==
    /\ deliverer \in [Deliverers -> Delivering]
    /\ queue \in [Lanes -> Seq(Stamp)] /\ written \in [Lanes -> Seq(Stamp)]
    /\ writer \in [Lanes -> Writing]
    /\ closing \in BOOLEAN /\ inCloser \in {"open", "waits", "closed"}
    /\ \A l \in Lanes : Len(queue[l]) <= LaneCap /\ Len(writer[l].pending) <= WriteBatch

\* Everything of a lane, and how old it is: older than the delivery its
\* deliverer is at, when that has yet to reach the lane.
Here(l) == Items(written[l]) \cup Items(writer[l].pending) \cup Items(queue[l])
InOrder ==
    \A l \in Lanes :
        /\ Sorted(written[l], writer[l].pending, queue[l])
        /\ \A x \in Here(l) : /\ x[1] \in Deliverers /\ x[2] \in Nat
                              /\ x[2] <= deliverer[x[1]].n
                              /\ l \in deliverer[x[1]].left => x[2] < deliverer[x[1]].n

\* deliveryWG counts the deliveries under way, and a writer leaves only when
\* there are none and none can begin.
Inside == {d \in Deliverers : deliverer[d].in}
Left ==
    /\ inside = Cardinality(Inside) /\ IsFiniteSet(Inside)
    /\ \A d \in Deliverers : ~deliverer[d].in => deliverer[d].left = {}
    /\ \A l \in Lanes : /\ writer[l].at \in {"stop", "gone"} => closing
                        /\ writer[l].at = "gone" => Inside = {}
Lanewise == LaneTypes /\ InOrder /\ Left

LEMMA LanewiseInit ==
    ASSUME Inbound!InboundAssumption, Inbound!Init
    PROVE  Lanewise
<1>1. LaneTypes
    <2>1. Inbound!Outside \in Delivering
        BY DEF Inbound!Outside, Inbound!InboundAssumption, Delivering
    <2>2. [at |-> "wait", pending |-> <<>>] \in Writing
        BY EmptySorted, Zenon DEF Writing
    <2>3. Len(<<>>) <= LaneCap /\ Len(<<>>) <= WriteBatch
        BY DEF Inbound!InboundAssumption
    <2> QED
        BY <2>1, <2>2, <2>3, EmptySorted, Zenon DEF LaneTypes, Inbound!Init
<1>2. InOrder
    BY EmptySorted, Zenon DEF InOrder, Here, Inbound!Init
<1>3. Left
    <2>1. Inside = {}
        BY Zenon DEF Inside, Inbound!Init, Inbound!Outside
    <2> QED
        BY <2>1, FS_EmptySet, Zenon DEF Left, Inbound!Init, Inbound!Outside
<1> QED
    BY <1>1, <1>2, <1>3, Zenon DEF Lanewise

\* A delivery begins: nothing of it is anywhere yet.
LEMMA EnterKeeps ==
    ASSUME Lanewise, NEW d \in Deliverers, NEW lanes \in SUBSET Lanes, Inbound!Enter(d, lanes),
           Inbound!InboundAssumption
    PROVE  Lanewise'
<1> USE DEF Lanewise
<1>1. /\ ~deliverer[d].in /\ deliverer[d].n < Deliveries /\ deliverer[d] \in Delivering
      /\ deliverer[d].left = {}
      /\ UNCHANGED <<queue, writer, written, closing, inCloser>>
    BY Zenon DEF Inbound!Enter, LaneTypes, Left
<1>2. /\ deliverer' \in [Deliverers -> Delivering]
      /\ \A c \in Deliverers : c # d => deliverer'[c] = deliverer[c]
      /\ deliverer'[d].n = deliverer[d].n + 1 /\ deliverer[d].n \in Nat
      /\ deliverer'[d].in <=> ~closing
      /\ closing => deliverer'[d].left = {}
    <2>1. deliverer[d].n + 1 \in 0..Deliveries
        BY <1>1 DEF Delivering, Inbound!InboundAssumption
    <2>2. CASE closing
        <3>1. deliverer' = [deliverer EXCEPT ![d].n = deliverer[d].n + 1]
            BY <2>2, Zenon DEF Inbound!Enter
        <3>2. deliverer' \in [Deliverers -> Delivering]
            BY <2>1, <3>1, Zenon DEF LaneTypes, Delivering
        <3> QED
            BY <1>1, <2>2, <3>1, <3>2 DEF LaneTypes, Delivering
    <2>3. CASE ~closing
        <3>1. deliverer' = [deliverer EXCEPT ![d] =
                               [left |-> lanes, n |-> deliverer[d].n + 1, in |-> TRUE]]
            BY <2>3, Zenon DEF Inbound!Enter
        <3>2. [left |-> lanes, n |-> deliverer[d].n + 1, in |-> TRUE] \in Delivering
            BY <2>1, Zenon DEF Delivering
        <3> QED
            BY <1>1, <2>3, <3>1, <3>2 DEF LaneTypes, Delivering
    <2> QED
        BY <2>2, <2>3, Zenon
<1>3. LaneTypes'
    BY <1>1, <1>2, Zenon DEF LaneTypes
<1>4. InOrder'
    <2> SUFFICES ASSUME NEW l \in Lanes, NEW x \in Here(l)
                 PROVE  x[2] <= deliverer'[x[1]].n /\ (l \in deliverer'[x[1]].left => x[2] < deliverer'[x[1]].n)
        BY <1>1, Zenon DEF InOrder, Here
    <2>1. /\ x[1] \in Deliverers /\ x[2] \in Nat /\ x[2] <= deliverer[x[1]].n
          /\ l \in deliverer[x[1]].left => x[2] < deliverer[x[1]].n
        BY Zenon DEF InOrder
    <2>2. CASE x[1] = d
        BY <1>2, <2>1, <2>2
    <2>3. CASE x[1] # d
        BY <1>2, <2>1, <2>3, Zenon
    <2> QED
        BY <2>2, <2>3, Zenon
<1>5. Left'
    <2>1. \A c \in Deliverers : ~deliverer'[c].in => deliverer'[c].left = {}
        BY <1>2, Zenon DEF Left
    <2>2. CASE closing
        <3>1. Inside' = Inside /\ inside' = inside
            BY <1>1, <1>2, <2>2, Zenon DEF Inside, Inbound!Enter
        <3> QED
            BY <1>1, <2>1, <3>1, Zenon DEF Left
    <2>3. CASE ~closing
        <3>1. Inside' = Inside \cup {d} /\ d \notin Inside
            BY <1>1, <1>2, <2>3, Zenon DEF Inside
        <3>2. inside' = inside + 1
            BY <2>3, Zenon DEF Inbound!Enter
        <3>3. IsFiniteSet(Inside') /\ Cardinality(Inside') = Cardinality(Inside) + 1
            BY <3>1, FS_AddElement, Zenon DEF Left
        <3> QED
            BY <1>1, <2>1, <2>3, <3>2, <3>3, Zenon DEF Left
    <2> QED
        BY <1>1, <2>2, <2>3, Zenon DEF LaneTypes
<1> QED
    BY <1>3, <1>4, <1>5, Zenon

\* A packet joins the lane its delivery has yet to reach, or is left out.
LEMMA SendKeeps ==
    ASSUME Lanewise, NEW d \in Deliverers, Inbound!Send(d), Inbound!InboundAssumption
    PROVE  Lanewise'
<1> USE DEF Lanewise
<1> DEFINE m == Inbound!Min(deliverer[d].left)
           e == <<d, deliverer[d].n>>
<1>1. /\ deliverer[d] \in Delivering /\ deliverer[d].left \in SUBSET Lanes
      /\ deliverer[d].n \in 0..Deliveries /\ deliverer[d].left # {}
      /\ UNCHANGED <<writer, written, closing, inside, inCloser>>
    BY Zenon DEF Inbound!Send, LaneTypes, Delivering
<1>2. m \in deliverer[d].left /\ m \in Lanes /\ e \in Stamp
    BY <1>1, MinIn, SMTT(30) DEF Inbound!InboundAssumption, Stamp
<1>3. /\ deliverer' = [deliverer EXCEPT ![d].left = deliverer[d].left \ {m}]
      /\ \/ Len(queue[m]) < LaneCap /\ queue' = [queue EXCEPT ![m] = Append(queue[m], e)]
         \/ queue' = queue
    BY Zenon DEF Inbound!Send, Inbound!Put
<1> HIDE DEF m
<1>4. /\ deliverer' \in [Deliverers -> Delivering]
      /\ \A c \in Deliverers : /\ deliverer'[c].n = deliverer[c].n /\ deliverer'[c].in = deliverer[c].in
                               /\ deliverer'[c].left \subseteq deliverer[c].left
      /\ deliverer'[d].left = deliverer[d].left \ {m}
    BY <1>1, <1>3, Zenon DEF LaneTypes, Delivering
<1>5. queue[m] \in Seq(Stamp) /\ Append(queue[m], e) \in Seq(Stamp)
      /\ Len(Append(queue[m], e)) = Len(queue[m]) + 1 /\ Len(queue[m]) \in Nat
    BY <1>2 DEF LaneTypes
<1>6. LaneTypes'
    <2>1. CASE queue' = queue
        BY <1>1, <1>4, <2>1, Zenon DEF LaneTypes
    <2>2. CASE Len(queue[m]) < LaneCap /\ queue' = [queue EXCEPT ![m] = Append(queue[m], e)]
        <3>1. queue' \in [Lanes -> Seq(Stamp)]
            BY <1>5, <2>2, Zenon DEF LaneTypes
        <3>2. LaneCap \in Nat /\ (\A l \in Lanes : Len(queue[l]) <= LaneCap)
            BY Zenon DEF LaneTypes, Inbound!InboundAssumption
        <3>3. Len(Append(queue[m], e)) <= LaneCap
            BY <1>5, <2>2, <3>2
        <3>4. \A l \in Lanes : queue'[l] = IF l = m THEN Append(queue[m], e) ELSE queue[l]
            BY <1>2, <2>2, Zenon DEF LaneTypes
        <3>5. \A l \in Lanes : Len(queue'[l]) <= LaneCap
            BY <3>2, <3>3, <3>4, Zenon
        <3> QED
            BY <1>1, <1>4, <3>1, <3>5, Zenon DEF LaneTypes
    <2> QED
        BY <1>3, <2>1, <2>2, Zenon
<1>7. InOrder'
    <2>1. ASSUME NEW l \in Lanes, NEW x \in Here(l)
          PROVE  /\ x[1] \in Deliverers /\ x[2] \in Nat /\ x[2] <= deliverer'[x[1]].n
                 /\ l \in deliverer'[x[1]].left => x[2] < deliverer'[x[1]].n
        BY <1>4, Zenon DEF InOrder
    <2> SUFFICES ASSUME NEW l \in Lanes
                 PROVE  /\ Sorted(written[l], writer[l].pending, queue'[l])
                        /\ \A x \in Here(l)' :
                             /\ x[1] \in Deliverers /\ x[2] \in Nat /\ x[2] <= deliverer'[x[1]].n
                             /\ l \in deliverer'[x[1]].left => x[2] < deliverer'[x[1]].n
        BY <1>1, Zenon DEF InOrder
    <2>2. CASE queue'[l] = queue[l]
        <3>1. Here(l)' = Here(l)
            BY <1>1, <2>2, Zenon DEF Here
        <3> QED
            BY <2>1, <2>2, <3>1, Zenon DEF InOrder
    <2>3. CASE l = m /\ queue'[l] = Append(queue[l], e)
        <3>1. /\ written[l] \in Seq(Stamp) /\ writer[l].pending \in Seq(Stamp) /\ queue[l] \in Seq(Stamp)
            BY Zenon DEF LaneTypes, Writing
        <3>2. Items(Append(queue[l], e)) = Items(queue[l]) \cup {e}
            BY <1>2, <3>1, Appended, Zenon
        <3>3. Here(l)' = Here(l) \cup {e}
            BY <1>1, <2>3, <3>2, ZenonT(30) DEF Here
        <3>4. Older(Here(l), {e})
            BY <1>2, <2>3 DEF InOrder, Older
        <3>5. Sorted(written[l], writer[l].pending, Append(queue[l], e))
            BY <1>2, <3>1, <3>4, SentSorted, Zenon DEF InOrder, Here
        <3>6. e[1] \in Deliverers /\ e[2] \in Nat /\ e[2] <= deliverer'[d].n /\ l \notin deliverer'[d].left
            BY <1>1, <1>4, <2>3
        <3> QED
            BY <2>1, <2>3, <3>3, <3>5, <3>6
    <2> QED
        BY <1>3, <1>2, <2>2, <2>3, Zenon DEF LaneTypes
<1>8. Left'
    <2>1. Inside' = Inside
        BY <1>4, Zenon DEF Inside
    <2> QED
        BY <1>1, <1>4, <2>1, Zenon DEF Left
<1> QED
    BY <1>6, <1>7, <1>8, Zenon

LEMMA ExitKeeps ==
    ASSUME Lanewise, NEW d \in Deliverers, Inbound!Exit(d)
    PROVE  Lanewise'
<1> USE DEF Lanewise
<1>1. /\ deliverer[d].in /\ deliverer[d].left = {}
      /\ deliverer' = [deliverer EXCEPT ![d].in = FALSE]
      /\ UNCHANGED <<queue, writer, written, closing, inCloser>>
    BY Zenon DEF Inbound!Exit
<1>2. deliverer' \in [Deliverers -> Delivering]
    BY <1>1, Zenon DEF LaneTypes, Delivering
<1>3. /\ \A c \in Deliverers : deliverer'[c].n = deliverer[c].n /\ deliverer'[c].left = deliverer[c].left
      /\ \A c \in Deliverers : c # d => deliverer'[c] = deliverer[c]
      /\ ~deliverer'[d].in
    BY <1>1, Zenon DEF LaneTypes, Delivering
<1>4. LaneTypes'
    BY <1>1, <1>2, Zenon DEF LaneTypes
<1>5. InOrder'
    BY <1>1, <1>3 DEF InOrder, Here
<1>6. Left'
    <2>1. Inside' = Inside \ {d} /\ d \in Inside
        BY <1>1, <1>3, Zenon DEF Inside
    <2>2. /\ IsFiniteSet(Inside') /\ Cardinality(Inside') = Cardinality(Inside) - 1
          /\ Cardinality(Inside) \in Nat /\ Cardinality(Inside) # 0
        BY <2>1, FS_RemoveElement, FS_EmptySet, FS_CardinalityType, Zenon DEF Left
    <2>3. inside' = inside - 1
        BY <2>2, Zenon DEF Left, Inbound!Exit
    <2> QED
        BY <1>1, <1>3, <2>1, <2>2, <2>3, Zenon DEF Left
<1> QED
    BY <1>4, <1>5, <1>6, Zenon

\* The writer moves the oldest packet of the queue behind what it has.
LEMMA CollectKeeps ==
    ASSUME Lanewise, NEW l \in Lanes, Inbound!Collect(l), Inbound!InboundAssumption
    PROVE  Lanewise'
<1> USE DEF Lanewise
<1> DEFINE p == writer[l].pending
           q == queue[l]
<1>1. /\ writer[l].at \in {"wait", "collect"} /\ q # <<>> /\ Len(p) < WriteBatch
      /\ writer' = [writer EXCEPT ![l] = [at |-> "collect", pending |-> Append(p, Head(q))]]
      /\ queue' = [queue EXCEPT ![l] = Tail(q)]
      /\ UNCHANGED <<deliverer, written, closing, inside, inCloser>>
    BY Zenon DEF Inbound!Collect
<1>2. p \in Seq(Stamp) /\ q \in Seq(Stamp) /\ written[l] \in Seq(Stamp)
    BY Zenon DEF LaneTypes, Writing
<1>3. /\ Head(q) \in Stamp /\ Tail(q) \in Seq(Stamp) /\ Append(p, Head(q)) \in Seq(Stamp)
      /\ Len(Tail(q)) = Len(q) - 1 /\ Len(Append(p, Head(q))) = Len(p) + 1
      /\ Len(p) \in Nat /\ Len(q) \in Nat
    BY <1>1, <1>2, SMTT(30)
<1>4. LaneTypes'
    <2>1. [at |-> "collect", pending |-> Append(p, Head(q))] \in Writing
        BY <1>3, Zenon DEF Writing
    <2>2. queue' \in [Lanes -> Seq(Stamp)] /\ writer' \in [Lanes -> Writing]
        BY <1>1, <1>3, <2>1, Zenon DEF LaneTypes
    <2>3. ASSUME NEW k \in Lanes PROVE Len(queue'[k]) <= LaneCap /\ Len(writer'[k].pending) <= WriteBatch
        BY <1>1, <1>3, SMTT(30) DEF LaneTypes, Inbound!InboundAssumption
    <2> QED
        BY <1>1, <2>2, <2>3, Zenon DEF LaneTypes
<1>5. InOrder'
    <2>1. /\ Sorted(written[l], Append(p, Head(q)), Tail(q))
          /\ Items(Append(p, Head(q))) \cup Items(Tail(q)) = Items(p) \cup Items(q)
        <3>1. Sorted(written[l], p, q)
            BY Zenon DEF InOrder
        <3> HIDE DEF p, q
        <3> QED
            BY <1>1, <1>2, <3>1, CollectedSorted, SMTT(30)
    <2>2. /\ queue'[l] = Tail(q) /\ writer'[l].pending = Append(p, Head(q))
          /\ \A k \in Lanes : k # l => queue'[k] = queue[k] /\ writer'[k] = writer[k]
        BY <1>1, Zenon DEF LaneTypes
    <2>3. \A k \in Lanes : Here(k)' = Here(k)
        BY <1>1, <2>1, <2>2, Zenon DEF Here
    <2>4. \A k \in Lanes : Sorted(written[k], writer'[k].pending, queue'[k])
        BY <2>1, <2>2, ZenonT(30) DEF InOrder
    <2> QED
        BY <1>1, <2>3, <2>4, Zenon DEF InOrder
<1>6. Left'
    BY <1>1, Zenon DEF Left, Inside, LaneTypes
<1> QED
    BY <1>4, <1>5, <1>6, Zenon

\* What was collected is written behind what was.
LEMMA WriteKeeps ==
    ASSUME Lanewise, NEW l \in Lanes, Inbound!Write(l), Inbound!InboundAssumption
    PROVE  Lanewise'
<1> USE DEF Lanewise
<1> DEFINE p == writer[l].pending
           w == written[l]
<1>1. /\ writer[l].at = "collect"
      /\ writer' = [writer EXCEPT ![l] = [at |-> "wait", pending |-> <<>>]]
      /\ written' = [written EXCEPT ![l] = w \o p]
      /\ UNCHANGED <<deliverer, queue, closing, inside, inCloser>>
    BY Zenon DEF Inbound!Write
<1>2. p \in Seq(Stamp) /\ w \in Seq(Stamp) /\ queue[l] \in Seq(Stamp)
    BY Zenon DEF LaneTypes, Writing
<1>3. w \o p \in Seq(Stamp)
    BY <1>2, Joined, ZenonT(30)
<1>4. LaneTypes'
    <2>1. [at |-> "wait", pending |-> <<>>] \in Writing
        BY EmptySorted, Zenon DEF Writing
    <2>2. written' \in [Lanes -> Seq(Stamp)] /\ writer' \in [Lanes -> Writing]
        BY <1>1, <1>3, <2>1, Zenon DEF LaneTypes
    <2>3. Len(<<>>) <= WriteBatch
        BY DEF Inbound!InboundAssumption
    <2>4. ASSUME NEW k \in Lanes PROVE Len(writer'[k].pending) <= WriteBatch
        <3>1. writer'[l].pending = <<>> /\ (k # l => writer'[k] = writer[k])
            BY <1>1, Zenon DEF LaneTypes
        <3> QED
            BY <2>3, <3>1, Zenon DEF LaneTypes
    <2> QED
        BY <1>1, <2>2, <2>4, Zenon DEF LaneTypes
<1>5. InOrder'
    <2>1. /\ Sorted(w \o p, <<>>, queue[l])
          /\ Items(w \o p) \cup Items(<<>>) = Items(w) \cup Items(p)
        <3>1. Sorted(w, p, queue[l])
            BY Zenon DEF InOrder
        <3> HIDE DEF p, w
        <3> QED
            BY <1>2, <3>1, WrittenSorted, Zenon
    <2>2. /\ written'[l] = w \o p /\ writer'[l].pending = <<>>
          /\ \A k \in Lanes : k # l => written'[k] = written[k] /\ writer'[k] = writer[k]
        BY <1>1, Zenon DEF LaneTypes
    <2>3. \A k \in Lanes : Here(k)' = Here(k)
        BY <1>1, <2>1, <2>2, Zenon DEF Here
    <2>4. \A k \in Lanes : Sorted(written'[k], writer'[k].pending, queue[k])
        BY <2>1, <2>2, ZenonT(30) DEF InOrder
    <2> QED
        BY <1>1, <2>3, <2>4, Zenon DEF InOrder
<1>6. Left'
    BY <1>1, Zenon DEF Left, Inside, LaneTypes
<1> QED
    BY <1>4, <1>5, <1>6, Zenon

\* A writer stops, leaves once nobody is inside, and Close begins and ends.
LEMMA EndingKeeps ==
    ASSUME Lanewise,
           \/ \E l \in Lanes : Inbound!Stop(l) \/ Inbound!Leave(l)
           \/ Inbound!Close \/ Inbound!CloseReturns
           \/ UNCHANGED Inbound!vars
    PROVE  Lanewise'
<1> USE DEF Lanewise
<1>1. ASSUME NEW l \in Lanes, Inbound!Stop(l) \/ Inbound!Leave(l) PROVE Lanewise'
    <2>1. PICK to \in {"stop", "gone"} :
              /\ writer' = [writer EXCEPT ![l].at = to] /\ closing
              /\ to = "gone" => inside = 0
              /\ UNCHANGED <<deliverer, queue, written, closing, inside, inCloser>>
        BY <1>1, Zenon DEF Inbound!Stop, Inbound!Leave, Left
    <2>2. /\ writer' \in [Lanes -> Writing] /\ writer'[l].at = to
          /\ \A k \in Lanes : writer'[k].pending = writer[k].pending
          /\ \A k \in Lanes : k # l => writer'[k] = writer[k]
        BY <2>1, Zenon DEF LaneTypes, Writing
    <2>3. LaneTypes'
        BY <2>1, <2>2, Zenon DEF LaneTypes
    <2>4. InOrder'
        BY <2>1, <2>2, Zenon DEF InOrder, Here
    <2>5. Left'
        <3>1. inside = 0 => Inside = {}
            BY FS_EmptySet, Zenon DEF Left
        <3> QED
            BY <2>1, <2>2, <3>1, Zenon DEF Left, Inside
    <2> QED
        BY <2>3, <2>4, <2>5, Zenon
<1>2. ASSUME Inbound!Close \/ Inbound!CloseReturns \/ UNCHANGED Inbound!vars PROVE Lanewise'
    BY <1>2, Zenon DEF Inbound!Close, Inbound!CloseReturns, Inbound!vars, LaneTypes, InOrder, Here, Left, Inside
<1> QED
    BY <1>1, <1>2, Zenon

\* The packets of a flow leave for the TUN in the order they were decrypted, and
\* nobody puts one on a lane whose writer has gone, for any number of receive
\* goroutines, lanes and deliveries and a Close at any moment.
THEOREM FlowInOrderTheorem == Inbound!InboundAssumption => (Inbound!Spec => []FlowInOrder)
<1> SUFFICES ASSUME Inbound!InboundAssumption
             PROVE  Inbound!Spec => []FlowInOrder
    BY Zenon
<1>1. Lanewise /\ [Inbound!Next]_Inbound!vars => Lanewise'
    <2> SUFFICES ASSUME Lanewise, [Inbound!Next]_Inbound!vars PROVE Lanewise'
        BY Zenon
    <2>1. ASSUME NEW d \in Deliverers,
                 \/ Inbound!Delivering(d)
                 \/ \E lanes \in (SUBSET Lanes) \ {{}} : Inbound!Enter(d, lanes)
          PROVE  Lanewise'
        BY <2>1, EnterKeeps, SendKeeps, ExitKeeps, Zenon DEF Inbound!Delivering
    <2>2. ASSUME NEW l \in Lanes, Inbound!Writing(l) PROVE Lanewise'
        BY <2>2, CollectKeeps, WriteKeeps, EndingKeeps, Zenon DEF Inbound!Writing
    <2>3. ASSUME Inbound!Close \/ Inbound!CloseReturns \/ UNCHANGED Inbound!vars PROVE Lanewise'
        BY <2>3, EndingKeeps, Zenon
    <2> QED
        BY <2>1, <2>2, <2>3, Zenon DEF Inbound!Next
<1>2. Lanewise => FlowInOrder
    <2> SUFFICES ASSUME Lanewise
                 PROVE  FlowInOrder
        BY Zenon
    <2>1. Inbound!TypeOK
        <3>1. inside = Inbound!Cardinality({d \in Deliverers : deliverer[d].in})
            BY SameCount, Zenon DEF Lanewise, Left, Inside
        <3> QED
            BY <3>1, Zenon DEF Lanewise, LaneTypes, Inbound!TypeOK, Delivering, Writing
    <2>2. Inbound!FlowInOrder
        BY Zenon DEF Lanewise, InOrder, Sorted, Growing, Inbound!FlowInOrder
    <2>3. Inbound!NothingAfterTheWriter
        BY Zenon DEF Lanewise, Left, Inside, Inbound!NothingAfterTheWriter
    <2> QED
        BY <2>1, <2>2, <2>3, Zenon DEF FlowInOrder
<1> QED
    BY <1>1, <1>2, LanewiseInit, PTL DEF Inbound!Spec

-----------------------------------------------------------------------------
(* The limit on ICMP errors.                                               *)

Answering == [at : {"idle", "filled", "tokens", "swap", "store"},
              now : 0..Horizon, last : 0..Horizon, tokens : 0..Burst, behind : BOOLEAN]

\* What may still be sent for the time up to which the bucket is filled, and for
\* the tokens that were taken on a count that was out of date.
Spare == Burst + filled + Burst * raced - answered

\* Nobody holds the tokens: between the swap and the store a goroutine does.
Quiet == \A q \in Answerers : answerer[q].at # "store"

\* What a goroutine has read is right when it uses it, unless another has taken
\* a token in between; even then it is not more than a full bucket.
Sound(q) ==
    /\ q.now <= clock
    /\ q.at \in {"swap", "store"} => q.tokens >= 1
    /\ q.at = "swap" => q.tokens <= Burst + q.now - q.last
    /\ q.at = "swap" /\ ~q.behind => Quiet /\ q.tokens <= tokens + q.now - q.last
    /\ q.at = "store" => q.tokens - 1 <= Spare

\* The bucket, or whoever holds the tokens, has no more of them than are to spare.
Limited ==
    /\ Bucket!TypeOK /\ answerer \in [Answerers -> Answering]
    /\ filled <= clock /\ Spare >= 0 /\ (Quiet => tokens <= Spare)
    /\ \A r \in Answerers : Sound(answerer[r])

LEMMA MinOfTwo ==
    ASSUME NEW m \in Int, NEW n \in Int
    PROVE  Bucket!Min({m, n}) = IF m <= n THEN m ELSE n
<1> DEFINE least == IF m <= n THEN m ELSE n
<1>1. /\ least \in {m, n} /\ \A y \in {m, n} : least <= y
      /\ \A x \in {m, n} : (\A y \in {m, n} : x <= y) => x = least
    OBVIOUS
<1> HIDE DEF least
<1>2. (CHOOSE x \in {m, n} : \A y \in {m, n} : x <= y) = least
    BY <1>1, Zenon
<1> QED
    BY <1>2, Zenon DEF Bucket!Min, least

\* What one more token taken on an old count allows.
LEMMA OneMore ==
    ASSUME NEW m \in Nat, NEW n \in Nat
    PROVE  m * n \in Nat /\ m * (n + 1) = m * n + m /\ m * 0 = 0
    OBVIOUS

\* The numbers of a state, for the steps that reckon with them.
LEMMA Reckoned ==
    ASSUME Bucket!BucketAssumption, Limited
    PROVE  /\ Burst \in Nat /\ Burst >= 1 /\ Horizon \in Nat /\ Packets \in Nat
           /\ clock \in 0..Horizon /\ filled \in 0..Horizon /\ tokens \in 0..Burst
           /\ answered \in Nat /\ raced \in Nat /\ Burst * raced \in Nat /\ Spare \in Int
           /\ seen \in [Answerers -> 0..Packets] /\ answerer \in [Answerers -> Answering]
           /\ \A r \in Answerers :
                /\ answerer[r] \in Answering /\ answerer[r].now \in 0..Horizon
                /\ answerer[r].last \in 0..Horizon /\ answerer[r].tokens \in 0..Burst
                /\ answerer[r].behind \in BOOLEAN
<1>1. Burst \in Nat /\ Burst >= 1 /\ Horizon \in Nat /\ Packets \in Nat
    BY DEF Bucket!BucketAssumption
<1>2. /\ clock \in 0..Horizon /\ filled \in 0..Horizon /\ tokens \in 0..Burst
      /\ answered \in Nat /\ raced \in Nat /\ seen \in [Answerers -> 0..Packets]
      /\ answerer \in [Answerers -> Answering]
    BY Zenon DEF Limited, Bucket!TypeOK
<1>3. Burst * raced \in Nat
    BY <1>1, <1>2, OneMore
<1>4. Spare \in Int
    <2> DEFINE more == Burst * raced
    <2>1. more \in Nat
        BY <1>3, Zenon
    <2> HIDE DEF more
    <2>2. Burst + filled + more - answered \in Int
        BY <1>1, <1>2, <2>1
    <2> QED
        BY <2>2, Zenon DEF Spare, more
<1>5. ASSUME NEW r \in Answerers
      PROVE  /\ answerer[r] \in Answering /\ answerer[r].now \in 0..Horizon
             /\ answerer[r].last \in 0..Horizon /\ answerer[r].tokens \in 0..Burst
             /\ answerer[r].behind \in BOOLEAN
    <2>1. answerer[r] \in Answering
        BY <1>2, <1>5, Zenon
    <2> QED
        BY <2>1, Zenon DEF Answering
<1> QED
    BY <1>1, <1>2, <1>3, <1>4, <1>5, Zenon

LEMMA LimitedInit == Bucket!BucketAssumption /\ Bucket!Init => Limited
<1> SUFFICES ASSUME Bucket!BucketAssumption, Bucket!Init
             PROVE  Limited
    BY Zenon
<1>1. /\ clock = 0 /\ filled = 0 /\ tokens = Burst /\ answered = 0 /\ raced = 0
      /\ answerer = [r \in Answerers |-> Bucket!Idle] /\ seen = [r \in Answerers |-> 0]
    BY Zenon DEF Bucket!Init
<1>2. Burst \in Nat /\ Horizon \in Nat /\ Packets \in Nat
    BY DEF Bucket!BucketAssumption
<1>3. /\ Bucket!Idle \in Answering /\ Bucket!Idle.at = "idle" /\ Bucket!Idle.now = 0
    BY <1>2 DEF Bucket!Idle, Answering
<1>4. answerer \in [Answerers -> Answering] /\ \A r \in Answerers : answerer[r] = Bucket!Idle
    BY <1>1, <1>3, Zenon
<1>5. /\ clock \in 0..Horizon /\ filled \in 0..Horizon /\ tokens \in 0..Burst
      /\ answered \in Nat /\ raced \in Nat /\ seen \in [Answerers -> 0..Packets]
    BY <1>1, <1>2
<1>6. Spare = Burst
    <2>1. Burst * raced = 0
        BY <1>1, <1>2, OneMore
    <2>2. Burst + filled + 0 - answered = Burst
        BY <1>1, <1>2
    <2> QED
        BY <2>1, <2>2, Zenon DEF Spare
<1>7. Spare >= 0 /\ tokens <= Spare /\ filled <= clock
    BY <1>1, <1>2, <1>6
<1>8. \A r \in Answerers : Sound(answerer[r])
    <2>1. 0 <= clock
        BY <1>1
    <2> QED
        BY <1>3, <1>4, <2>1, Zenon DEF Sound
<1> QED
    BY <1>4, <1>5, <1>7, <1>8, Zenon DEF Limited, Bucket!TypeOK, Answering

\* A goroutine that reads, or gives up, leaves what the others have read alone.
LEMMA OneReads ==
    ASSUME Bucket!BucketAssumption, Limited, NEW r \in Answerers, NEW n \in Answering,
           answerer' = [answerer EXCEPT ![r] = n],
           UNCHANGED <<clock, filled, tokens, answered, raced>>,
           seen' \in [Answerers -> 0..Packets],
           answerer[r].at # "store", n.at # "store", n.now <= clock,
           n.at = "swap" =>
               /\ n.tokens >= 1 /\ n.tokens <= Burst + n.now - n.last
               /\ ~n.behind => Quiet /\ n.tokens <= tokens + n.now - n.last
    PROVE  Limited'
<1>0. /\ answerer \in [Answerers -> Answering] /\ filled <= clock /\ Spare >= 0
      /\ Quiet => tokens <= Spare
      /\ \A q \in Answerers : Sound(answerer[q])
    BY Zenon DEF Limited
<1>1. /\ answerer' \in [Answerers -> Answering]
      /\ \A q \in Answerers : answerer'[q] = IF q = r THEN n ELSE answerer[q]
    BY <1>0, Zenon
<1>2. Spare' = Spare
    BY Zenon DEF Spare
<1>3. Quiet' <=> Quiet
    BY <1>1, Zenon DEF Quiet
<1>4. Bucket!TypeOK'
    BY <1>1, Zenon DEF Limited, Bucket!TypeOK, Answering
<1>5. ASSUME NEW q \in Answerers PROVE Sound(answerer[q])'
    <2>1. CASE q = r
        <3>1. answerer'[q] = n
            BY <1>1, <2>1, Zenon
        <3> QED
            BY <1>2, <1>3, <3>1, Zenon DEF Sound
    <2>2. CASE q # r
        <3>1. answerer'[q] = answerer[q]
            BY <1>1, <2>2, Zenon
        <3> QED
            BY <1>0, <1>2, <1>3, <3>1, Zenon DEF Sound
    <2> QED
        BY <2>1, <2>2, Zenon
<1> QED
    BY <1>0, <1>1, <1>2, <1>3, <1>4, <1>5, Zenon DEF Limited

LEMMA TickKeeps ==
    ASSUME Bucket!BucketAssumption, Limited, Bucket!Tick
    PROVE  Limited'
<1>0. /\ answerer \in [Answerers -> Answering] /\ filled <= clock /\ Spare >= 0
      /\ Quiet => tokens <= Spare
      /\ \A q \in Answerers : Sound(answerer[q])
    BY Zenon DEF Limited
<1>1. /\ clock < Horizon /\ clock' = clock + 1
      /\ UNCHANGED <<filled, tokens, answerer, answered, raced, seen>>
    BY Zenon DEF Bucket!Tick
<1>2. clock' \in 0..Horizon /\ filled' <= clock'
    BY <1>0, <1>1, Reckoned
<1>3. Spare' = Spare /\ (Quiet' <=> Quiet)
    BY <1>1, Zenon DEF Spare, Quiet
<1>4. ASSUME NEW q \in Answerers PROVE Sound(answerer[q])'
    <2>1. answerer[q].now <= clock
        BY <1>0, Zenon DEF Sound
    <2>2. answerer[q].now \in 0..Horizon /\ clock \in 0..Horizon
        BY Reckoned, Zenon
    <2>3. answerer[q].now <= clock'
        BY <1>1, <2>1, <2>2
    <2> QED
        BY <1>0, <1>1, <1>3, <2>3, Zenon DEF Sound
<1>5. Bucket!TypeOK'
    BY <1>1, <1>2, Zenon DEF Limited, Bucket!TypeOK
<1> QED
    BY <1>0, <1>1, <1>2, <1>3, <1>4, <1>5, Zenon DEF Limited

LEMMA IdleFits ==
    ASSUME Bucket!BucketAssumption
    PROVE  Bucket!Idle \in Answering /\ Bucket!Idle.at = "idle" /\ Bucket!Idle.now = 0
<1>1. Burst \in Nat /\ Horizon \in Nat
    BY DEF Bucket!BucketAssumption
<1> QED
    BY <1>1 DEF Bucket!Idle, Answering

LEMMA RefusedKeeps ==
    ASSUME Bucket!BucketAssumption, Limited, NEW r \in Answerers, Bucket!Refused(r)
    PROVE  Limited'
<1> DEFINE n == [Bucket!Idle EXCEPT !.at = "filled", !.now = clock]
<1>0. /\ seen \in [Answerers -> 0..Packets] /\ clock \in 0..Horizon /\ Packets \in Nat
    BY Reckoned, Zenon
<1>1. /\ answerer[r].at = "idle" /\ seen[r] < Packets /\ seen' = [seen EXCEPT ![r] = @ + 1]
      /\ answerer' = [answerer EXCEPT ![r] = n]
      /\ UNCHANGED <<clock, filled, tokens, answered, raced>>
    BY Zenon DEF Bucket!Refused
<1>2. n \in Answering /\ n.at = "filled" /\ n.now = clock
    BY <1>0, IdleFits, Zenon DEF Answering
<1> HIDE DEF n
<1>3. seen' \in [Answerers -> 0..Packets]
    <2>1. seen[r] + 1 \in 0..Packets
        BY <1>0, <1>1
    <2> QED
        BY <1>0, <1>1, <2>1, Zenon
<1>4. n.now <= clock
    BY <1>0, <1>2
<1> QED
    BY <1>1, <1>2, <1>3, <1>4, OneReads, Zenon

LEMMA LoadFilledKeeps ==
    ASSUME Bucket!BucketAssumption, Limited, NEW r \in Answerers, Bucket!LoadFilled(r)
    PROVE  Limited'
<1> DEFINE n == [answerer[r] EXCEPT !.at = "tokens", !.last = filled, !.behind = FALSE]
<1>0. /\ answerer \in [Answerers -> Answering] /\ answerer[r] \in Answering
      /\ filled \in 0..Horizon /\ seen \in [Answerers -> 0..Packets]
    BY Reckoned, Zenon
<1>1. /\ answerer[r].at = "filled"
      /\ answerer' = [answerer EXCEPT ![r].at = "tokens", ![r].last = filled, ![r].behind = FALSE]
      /\ UNCHANGED <<clock, filled, tokens, answered, raced, seen>>
    BY Zenon DEF Bucket!LoadFilled
<1>2. answerer' = [answerer EXCEPT ![r] = n]
    BY <1>0, <1>1
<1>3. n \in Answering /\ n.at = "tokens" /\ n.now = answerer[r].now
    BY <1>0, Zenon DEF Answering
<1>4. answerer[r].now <= clock
    BY Zenon DEF Limited, Sound
<1> HIDE DEF n
<1> QED
    BY <1>0, <1>1, <1>2, <1>3, <1>4, OneReads, Zenon

LEMMA LoadTokensKeeps ==
    ASSUME Bucket!BucketAssumption, Limited, NEW r \in Answerers, Bucket!LoadTokens(r)
    PROVE  Limited'
<1> DEFINE have == Bucket!Refill(r)
           old == answerer[r]
           late == old.behind \/ \E q \in Answerers : answerer[q].at = "store"
           n == IF have < 1 THEN Bucket!Idle
                ELSE [old EXCEPT !.at = "swap", !.tokens = have, !.behind = late]
<1>0. /\ answerer \in [Answerers -> Answering] /\ old \in Answering
      /\ Burst \in Nat /\ Burst >= 1 /\ tokens \in 0..Burst /\ clock \in 0..Horizon
      /\ Horizon \in Nat
      /\ old.now \in 0..Horizon /\ old.last \in 0..Horizon /\ seen \in [Answerers -> 0..Packets]
    BY Reckoned, Zenon
<1>1. /\ old.at = "tokens" /\ answerer' = [answerer EXCEPT ![r] = n]
      /\ UNCHANGED <<clock, filled, tokens, answered, raced, seen>>
    BY <1>0, Zenon DEF Bucket!LoadTokens
<1>2. /\ have = IF Burst <= tokens + old.now - old.last THEN Burst
                ELSE tokens + old.now - old.last
      /\ have \in Int
    <2>1. tokens + old.now - old.last \in Int /\ Burst \in Int
        BY <1>0
    <2>2. have = Bucket!Min({Burst, tokens + old.now - old.last})
        BY Zenon DEF Bucket!Refill
    <2> QED
        BY <2>1, <2>2, MinOfTwo
<1>3. old.now <= clock
    BY Zenon DEF Limited, Sound
<1> HIDE DEF have
<1>4. CASE have < 1
    <2>1. n = Bucket!Idle
        BY <1>4, Zenon
    <2>2. n.now = 0
        BY <2>1, IdleFits, Zenon
    <2> HIDE DEF n
    <2>3. n.now <= clock
        BY <1>0, <2>2
    <2> QED
        BY <1>0, <1>1, <2>1, <2>3, IdleFits, OneReads, Zenon
<1>5. CASE ~(have < 1)
    <2>1. /\ have \in 0..Burst /\ have >= 1 /\ have <= tokens + old.now - old.last
          /\ have <= Burst + old.now - old.last
        <3> HIDE DEF old
        <3> QED
            BY <1>0, <1>2, <1>5
    <2>2. n = [old EXCEPT !.at = "swap", !.tokens = have, !.behind = late]
        BY <1>5, Zenon
    <2>3. late \in BOOLEAN /\ (~late => Quiet)
        BY <1>0, Zenon DEF Quiet, Answering
    <2> HIDE DEF n, late
    <2>4. /\ n \in Answering /\ n.at = "swap" /\ n.now = old.now /\ n.last = old.last
          /\ n.tokens = have /\ n.behind = late
        BY <1>0, <2>1, <2>2, <2>3, Zenon DEF Answering
    <2> QED
        BY <1>0, <1>1, <1>3, <2>1, <2>3, <2>4, OneReads, Zenon
<1> QED
    BY <1>4, <1>5, Zenon

\* The swap: whoever takes a token holds what the bucket held, and what was to
\* spare has grown by the time that was filled in.
LEMMA SwapKeeps ==
    ASSUME Bucket!BucketAssumption, Limited, NEW r \in Answerers, Bucket!Swap(r)
    PROVE  Limited'
<1> DEFINE old == answerer[r]
<1>0. /\ answerer \in [Answerers -> Answering] /\ old \in Answering
      /\ Burst \in Nat /\ Burst >= 1 /\ tokens \in 0..Burst /\ clock \in 0..Horizon
      /\ Horizon \in Nat /\ filled \in 0..Horizon /\ Spare \in Int
      /\ answered \in Nat /\ raced \in Nat /\ Burst * raced \in Nat
      /\ old.now \in 0..Horizon /\ old.last \in 0..Horizon /\ old.tokens \in 0..Burst
      /\ old.behind \in BOOLEAN /\ seen \in [Answerers -> 0..Packets]
    BY Reckoned, Zenon
<1>1. /\ old.at = "swap" /\ old.now <= clock /\ old.tokens >= 1
      /\ old.tokens <= Burst + old.now - old.last
      /\ ~old.behind => Quiet /\ old.tokens <= tokens + old.now - old.last
    BY Zenon DEF Limited, Sound, Bucket!Swap
<1>2. /\ UNCHANGED <<clock, tokens, seen>> /\ Spare >= 0 /\ (Quiet => tokens <= Spare)
      /\ \A q \in Answerers : Sound(answerer[q])
    BY Zenon DEF Limited, Bucket!Swap
<1>3. CASE filled # old.last
    <2> DEFINE n == [old EXCEPT !.at = "filled"]
    <2>1. /\ answerer' = [answerer EXCEPT ![r] = n]
          /\ UNCHANGED <<clock, filled, tokens, answered, raced, seen>>
        <3>1. /\ answerer' = [answerer EXCEPT ![r].at = "filled"]
              /\ UNCHANGED <<clock, filled, tokens, answered, raced, seen>>
            BY <1>3, Zenon DEF Bucket!Swap
        <3> QED
            BY <1>0, <3>1
    <2>2. n \in Answering /\ n.at = "filled" /\ n.now = old.now
        BY <1>0, Zenon DEF Answering
    <2> HIDE DEF n
    <2> QED
        BY <1>0, <1>1, <2>1, <2>2, OneReads, Zenon
<1>4. CASE filled = old.last
    <2> DEFINE late(q) == [answerer[q] EXCEPT !.behind = TRUE]
               held == [old EXCEPT !.at = "store"]
               next(q) == IF q = r THEN held
                          ELSE IF answerer[q].at \in {"tokens", "swap"} THEN late(q)
                          ELSE answerer[q]
    <2>1. /\ filled' = old.now /\ answered' = answered + 1
          /\ raced' = IF old.behind THEN raced + 1 ELSE raced
          /\ answerer' = [q \in Answerers |-> next(q)]
        BY <1>4, Zenon DEF Bucket!Swap, Bucket!Take
    <2>2. held \in Answering /\ held.at = "store" /\ held.now = old.now /\ held.tokens = old.tokens
        BY <1>0, Zenon DEF Answering
    <2>3. ASSUME NEW q \in Answerers
          PROVE  /\ late(q) \in Answering /\ late(q).at = answerer[q].at
                 /\ late(q).now = answerer[q].now /\ late(q).last = answerer[q].last
                 /\ late(q).tokens = answerer[q].tokens /\ late(q).behind
        <3>1. answerer[q] \in Answering
            BY <1>0, <2>3, Zenon
        <3> QED
            BY <3>1, Zenon DEF Answering
    <2> HIDE DEF late, held
    <2>4. \A q \in Answerers : next(q) \in Answering /\ answerer'[q] = next(q)
        BY <1>0, <2>1, <2>2, <2>3, Zenon
    <2>5. answerer' \in [Answerers -> Answering]
        BY <2>1, <2>4, Zenon
    <2>6. /\ Spare' \in Int /\ (old.behind => Spare' >= Spare) /\ Spare' >= 0 /\ old.tokens - 1 <= Spare'
          /\ raced' \in Nat
        <3> DEFINE more == Burst * raced
        <3>1. Burst * (raced + 1) = more + Burst /\ more \in Nat
            BY <1>0, OneMore, Zenon
        <3>2. Spare = Burst + filled + more - answered
            BY Zenon DEF Spare
        <3>3. CASE old.behind
            <4>1. Spare' = Burst + old.now + (more + Burst) - (answered + 1) /\ raced' = raced + 1
                BY <2>1, <3>1, <3>3, Zenon DEF Spare
            <4> HIDE DEF more, old
            <4> QED
                BY <1>0, <1>1, <1>2, <1>4, <3>1, <3>2, <4>1
        <3>4. CASE ~old.behind
            <4>1. Spare' = Burst + old.now + more - (answered + 1) /\ raced' = raced
                BY <2>1, <3>4, Zenon DEF Spare
            <4>2. tokens <= Spare /\ old.tokens <= tokens + old.now - old.last
                BY <1>1, <1>2, <3>4, Zenon
            <4> HIDE DEF more, old
            <4> QED
                BY <1>0, <1>1, <1>4, <3>1, <3>2, <3>4, <4>1, <4>2
        <3> QED
            BY <3>3, <3>4, Zenon
    <2>7. ~Quiet'
        <3>1. answerer'[r].at = "store"
            BY <2>2, <2>4, Zenon
        <3> QED
            BY <3>1, Zenon DEF Quiet
    <2>8. ASSUME NEW q \in Answerers PROVE Sound(answerer[q])'
        <3>0. Sound(answerer[q]) /\ answerer'[q] = next(q)
            BY <1>2, <2>4, Zenon
        <3>1. CASE q = r
            <4>1. answerer'[q] = held
                BY <3>0, <3>1, Zenon
            <4> QED
                BY <1>1, <1>2, <2>2, <2>6, <4>1, Zenon DEF Sound
        <3>2. CASE q # r /\ answerer[q].at \in {"tokens", "swap"}
            <4>1. answerer'[q] = late(q)
                BY <3>0, <3>2, Zenon
            <4>2. late(q).at # "store"
                BY <2>3, <3>2, Zenon
            <4> QED
                BY <1>2, <2>3, <3>0, <4>1, <4>2, Zenon DEF Sound
        <3>3. CASE q # r /\ answerer[q].at \notin {"tokens", "swap"}
            <4>1. answerer'[q] = answerer[q]
                BY <3>0, <3>3, Zenon
            <4>2. answerer[q].at = "store" => answerer[q].tokens - 1 <= Spare'
                <5>1. answerer[q].tokens \in 0..Burst
                    BY Reckoned, Zenon
                <5>2. answerer[q].at = "store" => answerer[q].tokens - 1 <= Spare
                    BY <3>0, Zenon DEF Sound
                <5>3. answerer[q].at = "store" => old.behind
                    BY <1>1, Zenon DEF Quiet
                <5> HIDE DEF old
                <5> QED
                    BY <1>0, <2>6, <5>1, <5>2, <5>3
            <4> QED
                BY <1>2, <3>0, <3>3, <4>1, <4>2, Zenon DEF Sound
        <3> QED
            BY <3>1, <3>2, <3>3, Zenon
    <2>9. /\ filled' \in 0..Horizon /\ filled' <= clock' /\ answered' \in Nat
        BY <1>0, <1>1, <1>2, <2>1
    <2>10. Bucket!TypeOK'
        BY <1>0, <1>2, <2>5, <2>6, <2>9, Zenon DEF Bucket!TypeOK, Answering
    <2> QED
        BY <2>5, <2>6, <2>7, <2>8, <2>9, <2>10, Zenon DEF Limited
<1> QED
    BY <1>3, <1>4, Zenon

LEMMA StoreKeeps ==
    ASSUME Bucket!BucketAssumption, Limited, NEW r \in Answerers, Bucket!Store(r)
    PROVE  Limited'
<1>0. /\ answerer \in [Answerers -> Answering] /\ filled <= clock /\ Spare >= 0
      /\ \A q \in Answerers : Sound(answerer[q])
    BY Zenon DEF Limited
<1>1. /\ answerer[r].at = "store" /\ tokens' = answerer[r].tokens - 1
      /\ answerer' = [answerer EXCEPT ![r] = Bucket!Idle]
      /\ UNCHANGED <<clock, filled, answered, raced, seen>>
    BY Zenon DEF Bucket!Store
<1>2. answerer[r].tokens \in 0..Burst /\ answerer[r].tokens >= 1 /\ Burst \in Nat
    BY <1>0, <1>1, Reckoned, Zenon DEF Sound
<1>3. tokens' \in 0..Burst
    BY <1>1, <1>2
<1>4. Spare' = Spare
    BY <1>1, Zenon DEF Spare
<1>5. tokens' <= Spare'
    BY <1>0, <1>1, <1>4, Zenon DEF Sound
<1>6. /\ answerer' \in [Answerers -> Answering]
      /\ \A q \in Answerers : answerer'[q] = IF q = r THEN Bucket!Idle ELSE answerer[q]
    BY <1>0, <1>1, IdleFits, Zenon
<1>7. ASSUME NEW q \in Answerers PROVE Sound(answerer[q])'
    <2>1. CASE q = r
        <3>1. clock \in 0..Horizon
            BY Reckoned, Zenon
        <3>2. 0 <= clock'
            BY <1>1, <3>1
        <3> QED
            BY <1>6, <2>1, <3>2, IdleFits, Zenon DEF Sound
    <2>2. CASE q # r
        <3>1. answerer'[q] = answerer[q] /\ Sound(answerer[q]) /\ ~Quiet
            BY <1>0, <1>1, <1>6, <2>2, Zenon DEF Quiet
        <3> QED
            BY <1>1, <1>4, <3>1, Zenon DEF Sound
    <2> QED
        BY <2>1, <2>2, Zenon
<1>8. Bucket!TypeOK'
    BY <1>1, <1>3, <1>6, Zenon DEF Limited, Bucket!TypeOK, Answering
<1> QED
    BY <1>0, <1>1, <1>4, <1>5, <1>6, <1>7, <1>8, Zenon DEF Limited

LEMMA LimitedStep ==
    ASSUME Bucket!BucketAssumption, Limited, [Bucket!Next]_Bucket!vars
    PROVE  Limited'
<1>1. CASE UNCHANGED Bucket!vars
    <2>1. UNCHANGED <<clock, filled, tokens, answerer, answered, raced, seen>>
        BY <1>1, Zenon DEF Bucket!vars
    <2>2. Spare' = Spare /\ (Quiet' <=> Quiet)
        BY <2>1, Zenon DEF Spare, Quiet
    <2>3. \A q \in Answerers : Sound(answerer[q])'
        BY <2>1, <2>2, Zenon DEF Limited, Sound
    <2> QED
        BY <2>1, <2>2, <2>3, Zenon DEF Limited, Bucket!TypeOK
<1> QED
    BY <1>1, TickKeeps, RefusedKeeps, LoadFilledKeeps, LoadTokensKeeps, SwapKeeps, StoreKeeps,
       Zenon DEF Bucket!Next

\* The ICMP errors that any number of receive goroutines send for refused packets
\* are never more than icmpBurst and one for every icmpRefill since the start, and
\* icmpBurst more for every token that was taken on a count another goroutine had
\* not stored yet, or had stored since: that is all the race between the two
\* atomics of allowICMP can cost, for any burst and however long it runs.
THEOREM RateHeldTheorem == Bucket!BucketAssumption => (Bucket!Spec => []RateHeld)
<1> SUFFICES ASSUME Bucket!BucketAssumption
             PROVE  Bucket!Spec => []RateHeld
    OBVIOUS
<1>1. Bucket!Init => Limited
    BY LimitedInit, Zenon
<1>2. Limited /\ [Bucket!Next]_Bucket!vars => Limited'
    BY LimitedStep, Zenon
<1>3. ASSUME Limited PROVE RateHeld
    <2> DEFINE more == Burst * raced
    <2>1. /\ clock \in 0..Horizon /\ filled \in 0..Horizon /\ Burst \in Nat /\ Horizon \in Nat
          /\ answered \in Nat /\ more \in Nat
        BY <1>3, Reckoned, Zenon
    <2>2. filled <= clock /\ Burst + filled + more - answered >= 0
        BY <1>3, Zenon DEF Limited, Spare
    <2> HIDE DEF more
    <2>3. answered <= Burst + clock + more
        BY <2>1, <2>2
    <2> QED
        BY <1>3, <2>3, Zenon DEF RateHeld, Bucket!RateHeld, Limited, more
<1> QED
    BY <1>1, <1>2, <1>3, PTL DEF Bucket!Spec
=============================================================================
