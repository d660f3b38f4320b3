---------------------------- MODULE BabelProofs -----------------------------
(***************************************************************************)
(* Babel's routes are loop-free and its tables agree, for any mesh, any    *)
(* costs and any number of events, as long as a distance outlives the      *)
(* routes that rest on it (GcOutlivesHold).  First the lemmas about the    *)
(* operators that the proof rests on: sequence numbers, packets on a link, *)
(* costs, selected routes, distances and requests.  Then that the two      *)
(* functions every handler ends in, selectRoute and advertise, keep the    *)
(* invariant, that the initial states satisfy it and that the steps keep   *)
(* it, and the theorems.                                                   *)
(***************************************************************************)
EXTENDS Babel, WellFoundedInduction, TLAPS

\* The packets of the network n on the link l.
On(n, l) == {n[l][k] : k \in DOMAIN n[l]}

-----------------------------------------------------------------------------
(* Numbers.                                                                *)

\* Within half of their circle sequence numbers are ordered as numbers.
LEMMA SeqnoOrder ==
    ASSUME NEW a \in 0..MaxSeqno, NEW b \in 0..MaxSeqno
    PROVE  SeqnoGT(a, b) <=> a > b
<1>1. 2^16 = 65536 /\ 2^15 = 32768
    OBVIOUS
<1>2. MaxSeqno \in Nat /\ MaxSeqno < 32768
    BY <1>1, BabelAssumption
<1> QED
    BY <1>1, <1>2 DEF SeqnoGT

\* A set of natural numbers has a least one.
LEMMA Least ==
    ASSUME NEW T \in SUBSET Nat, T # {}
    PROVE  \E m \in T : \A n \in T : m <= n
<1>1. PICK m \in T : \A n \in T : <<n, m>> \notin OpToRel(<, Nat)
    BY NatLessThanWellFounded, WFMin, Zenon
<1>2. \A n \in T : ~(n < m)
    BY <1>1, Zenon DEF OpToRel
<1> QED
    BY <1>2

\* Ties between the cheapest go to the smallest name: there is one to choose.
LEMMA Cheapest ==
    ASSUME NEW U \in SUBSET Nat, U # {}, NEW c \in [U -> Nat]
    PROVE  \E j \in U : \A k \in U : c[j] < c[k] \/ (c[j] = c[k] /\ j <= k)
<1>1. PICK m \in {c[j] : j \in U} : \A n \in {c[j] : j \in U} : m <= n
    <2>1. {c[j] : j \in U} \in SUBSET Nat /\ {c[j] : j \in U} # {}
        BY Zenon
    <2> QED
        BY <2>1, Least, Zenon
<1>2. PICK j \in {k \in U : c[k] = m} : \A k \in {k \in U : c[k] = m} : j <= k
    <2>1. {k \in U : c[k] = m} \in SUBSET Nat /\ {k \in U : c[k] = m} # {}
        BY Zenon
    <2> QED
        BY <2>1, Least, Zenon
<1>3. j \in U /\ c[j] = m /\ m \in Nat
    BY Zenon
<1>4. ASSUME NEW k \in U PROVE c[j] < c[k] \/ (c[j] = c[k] /\ j <= k)
    <2>1. m <= c[k] /\ c[k] \in Nat
        BY <1>1, Zenon
    <2>2. c[k] = m => j <= k
        BY <1>2, Zenon
    <2> QED
        BY <1>3, <2>1, <2>2
<1> QED
    BY <1>3, <1>4, Zenon

-----------------------------------------------------------------------------
(* Packets.                                                                *)

LEMMA RemoveOne ==
    ASSUME NEW S, NEW s \in Seq(S), NEW k \in DOMAIN s
    PROVE  /\ Without(s, k) \in Seq(S)
           /\ Len(Without(s, k)) = Len(s) - 1
           /\ \A m \in DOMAIN Without(s, k) : \E h \in DOMAIN s : Without(s, k)[m] = s[h]
<1> DEFINE front == SubSeq(s, 1, k - 1)
           back == SubSeq(s, k + 1, Len(s))
<1>1. k \in 1..Len(s) /\ Len(s) \in Nat /\ \A h \in 1..Len(s) : s[h] \in S
    OBVIOUS
<1>2. front \in Seq(S) /\ Len(front) = k - 1 /\ \A h \in 1..(k - 1) : front[h] = s[h]
    BY <1>1
<1>3. back \in Seq(S) /\ Len(back) = Len(s) - k
      /\ \A h \in 1..(Len(s) - k) : back[h] = s[k + h]
    BY <1>1
<1> HIDE DEF front, back
<1>4. /\ front \o back \in Seq(S) /\ Len(front \o back) = Len(s) - 1
      /\ \A h \in 1..(Len(s) - 1) :
            (front \o back)[h] = IF h <= k - 1 THEN front[h] ELSE back[h - (k - 1)]
    <2>1. /\ front \o back \in Seq(S) /\ Len(front \o back) = Len(front) + Len(back)
          /\ \A h \in 1..(Len(front) + Len(back)) :
                (front \o back)[h] = IF h <= Len(front) THEN front[h] ELSE back[h - Len(front)]
        <3>1. front \in Seq(S) /\ back \in Seq(S)
            BY <1>2, <1>3, Zenon
        <3>2. front \o back \in Seq(S) /\ Len(front \o back) = Len(front) + Len(back)
            BY <3>1
        <3>3. \A h \in 1..(Len(front) + Len(back)) :
                (front \o back)[h] = IF h <= Len(front) THEN front[h] ELSE back[h - Len(front)]
            BY <3>1
        <3> QED
            BY <3>2, <3>3, Zenon
    <2>2. Len(front) + Len(back) = Len(s) - 1
        BY <1>1, <1>2, <1>3
    <2> QED
        BY <1>2, <2>1, <2>2, Zenon
<1>5. ASSUME NEW h \in 1..(Len(s) - 1)
      PROVE  (front \o back)[h] = s[IF h <= k - 1 THEN h ELSE h + 1]
    <2>1. CASE h <= k - 1
        BY <1>1, <1>2, <1>4, <2>1
    <2>2. CASE ~(h <= k - 1)
        <3>1. h - (k - 1) \in 1..(Len(s) - k) /\ k + (h - (k - 1)) = h + 1
            BY <1>1, <2>2
        <3> QED
            BY <1>3, <1>4, <2>2, <3>1, Zenon
    <2> QED
        BY <2>1, <2>2, Zenon
<1>6. DOMAIN (front \o back) = 1..(Len(s) - 1)
    BY <1>4
<1>7. Without(s, k) = front \o back
    BY Zenon DEF Without, front, back
<1>8. ASSUME NEW h \in 1..(Len(s) - 1)
      PROVE  (IF h <= k - 1 THEN h ELSE h + 1) \in DOMAIN s
    BY <1>1
<1>9. \A m \in DOMAIN Without(s, k) : \E h \in DOMAIN s : Without(s, k)[m] = s[h]
    BY <1>5, <1>6, <1>7, <1>8, Zenon
<1> QED
    BY <1>4, <1>7, <1>9, Zenon

\* Taking a packet from a link leaves the others where they were.
LEMMA TakenKeeps ==
    ASSUME NEW n \in [Links -> Seq(Packet)], NEW i, NEW j, <<j, i>> \in Links,
           NEW k \in DOMAIN n[<<j, i>>]
    PROVE  /\ Taken(n, i, j, k) \in [Links -> Seq(Packet)]
           /\ \A l \in Links : /\ Len(Taken(n, i, j, k)[l]) <= Len(n[l])
                               /\ On(Taken(n, i, j, k), l) \subseteq On(n, l)
<1> DEFINE t == Without(n[<<j, i>>], k)
<1>1. /\ t \in Seq(Packet) /\ Len(t) = Len(n[<<j, i>>]) - 1
      /\ \A m \in DOMAIN t : \E h \in DOMAIN n[<<j, i>>] : t[m] = n[<<j, i>>][h]
    <2>1. n[<<j, i>>] \in Seq(Packet)
        BY Zenon
    <2> QED
        BY <2>1, RemoveOne, Zenon
<1>2. Taken(n, i, j, k) = [n EXCEPT ![<<j, i>>] = t]
    BY Zenon DEF Taken
<1> HIDE DEF t
<1>3. Taken(n, i, j, k) \in [Links -> Seq(Packet)]
    BY <1>1, <1>2, Zenon
<1>4. ASSUME NEW l \in Links
      PROVE  /\ Len(Taken(n, i, j, k)[l]) <= Len(n[l])
             /\ On(Taken(n, i, j, k), l) \subseteq On(n, l)
    <2>1. CASE l = <<j, i>>
        <3>1. Taken(n, i, j, k)[l] = t
            BY <1>2, <2>1, Zenon
        <3>2. \A p \in On(Taken(n, i, j, k), l) : p \in On(n, l)
            <4>1. \A m \in DOMAIN t : t[m] \in On(n, l)
                BY <1>1, <2>1, Zenon DEF On
            <4> QED
                BY <3>1, <4>1, Zenon DEF On
        <3>3. Len(t) <= Len(n[<<j, i>>])
            BY <1>1
        <3> QED
            BY <2>1, <3>1, <3>2, <3>3, Zenon
    <2>2. CASE l # <<j, i>>
        <3>1. Taken(n, i, j, k)[l] = n[l]
            BY <1>2, <2>2, Zenon
        <3> QED
            BY <3>1 DEF On
    <2> QED
        BY <2>1, <2>2, Zenon
<1> QED
    BY <1>3, <1>4, Zenon

\* n is what a handler leaves of the network before it sends.
Left(n) ==
    /\ n \in [Links -> Seq(Packet)] /\ net \in [Links -> Seq(Packet)]
    /\ \A l \in Links : /\ Len(net[l]) <= Capacity /\ Len(n[l]) <= Len(net[l])
                        /\ On(n, l) \subseteq On(net, l)

\* m is n with packets of out behind what n holds.
Posted(m, n, i, out) ==
    /\ m \in [Links -> Seq(Packet)]
    /\ \A l \in Links :
        /\ Len(m[l]) <= Capacity
        /\ \A p \in On(m, l) :
              p \in On(n, l) \/ (l[1] = i /\ l[2] \in DOMAIN out /\ p = out[l[2]])

\* A packet that is posted goes where there is a place, behind the others.
LEMMA PostAdds ==
    ASSUME NEW n, NEW i, NEW out, Left(n), \A j \in DOMAIN out : out[j] \in Packet
    PROVE  Posted(Post(n, i, out), n, i, out)
<1> SUFFICES ASSUME NEW l \in Links
             PROVE  /\ Post(n, i, out)[l] \in Seq(Packet)
                    /\ Len(Post(n, i, out)[l]) <= Capacity
                    /\ \A p \in On(Post(n, i, out), l) :
                         p \in On(n, l) \/ (l[1] = i /\ l[2] \in DOMAIN out /\ p = out[l[2]])
    BY Zenon DEF Post, Posted
<1>1. n[l] \in Seq(Packet) /\ Len(net[l]) \in Nat /\ Len(n[l]) \in Nat /\ Capacity \in Nat
      /\ l = <<l[1], l[2]>> /\ Len(net[l]) <= Capacity /\ Len(n[l]) <= Len(net[l])
    BY BabelAssumption DEF Links, Left
<1>2. CASE l[1] = i /\ l[2] \in DOMAIN out /\ ~Full(i, l[2])
    <2>1. Post(n, i, out)[l] = Append(n[l], out[l[2]])
        BY <1>2, Zenon DEF Post
    <2>2. Len(net[l]) < Capacity
        <3>1. l = <<i, l[2]>>
            BY <1>1, <1>2, Zenon
        <3>2. Full(i, l[2]) <=> Len(net[l]) >= Capacity
            BY <3>1, Zenon DEF Full
        <3> QED
            BY <1>1, <1>2, <3>2
    <2>3. out[l[2]] \in Packet
        BY <1>2, Zenon
    <2>4. /\ Append(n[l], out[l[2]]) \in Seq(Packet)
          /\ Len(Append(n[l], out[l[2]])) = Len(n[l]) + 1
          /\ \A h \in DOMAIN Append(n[l], out[l[2]]) :
                \/ h \in DOMAIN n[l] /\ Append(n[l], out[l[2]])[h] = n[l][h]
                \/ Append(n[l], out[l[2]])[h] = out[l[2]]
        BY <1>1, <2>3
    <2>5. \A p \in On(Post(n, i, out), l) : p \in On(n, l) \/ p = out[l[2]]
        BY <2>1, <2>4, Zenon DEF On
    <2>6. Len(Post(n, i, out)[l]) <= Capacity
        BY <1>1, <2>1, <2>2, <2>4
    <2> QED
        BY <1>2, <2>1, <2>4, <2>5, <2>6, Zenon
<1>3. CASE ~(l[1] = i /\ l[2] \in DOMAIN out /\ ~Full(i, l[2]))
    <2>1. Post(n, i, out)[l] = n[l]
        BY <1>3, Zenon DEF Post
    <2> QED
        BY <1>1, <2>1 DEF On
<1> QED
    BY <1>2, <1>3, Zenon

-----------------------------------------------------------------------------
(* Selecting.                                                              *)

\* A stored advertisement, finite or retracted.
LEMMA Advertised ==
    ASSUME NEW a \in Advertisement
    PROVE  /\ a = [id |-> a.id, seqno |-> a.seqno, metric |-> a.metric]
           /\ a.id \in Router \cup {Nobody} /\ a.seqno \in 0..MaxSeqno /\ a.metric \in 0..Infinity
           /\ a.metric # Infinity => a.id \in Router /\ a.seqno \in Seqno
           /\ a # NoRoute
<1>1. MaxSeqno \in Nat /\ Infinity \in Nat
    BY BabelAssumption
<1>2. CASE a \in [id : Router, seqno : Seqno, metric : 0..(Infinity - 1)]
    BY <1>1, <1>2 DEF Seqno, NoRoute
<1>3. CASE a \in [id : Router \cup {Nobody}, seqno : 0..MaxSeqno, metric : {Infinity}]
    BY <1>1, <1>3 DEF NoRoute
<1> QED
    BY <1>2, <1>3, Zenon DEF Advertisement

\* Two of them with the same fields are one, whatever it was read from.
LEMMA AdvertisementIs ==
    ASSUME NEW id, NEW seqno, NEW metric
    PROVE  /\ id \in Router /\ seqno \in Seqno /\ metric \in 0..(Infinity - 1) =>
                [id |-> id, seqno |-> seqno, metric |-> metric] \in Advertisement
           /\ id \in Router \cup {Nobody} /\ seqno \in 0..MaxSeqno =>
                [id |-> id, seqno |-> seqno, metric |-> Infinity] \in Advertisement
    BY Zenon DEF Advertisement

\* Every hop costs something.
LEMMA CostsMore ==
    ASSUME NEW c \in LinkCosts \cup {Infinity}, NEW a \in Advertisement
    PROVE  /\ RouteCost(c, a) \in 0..Infinity
           /\ RouteCost(c, a) # Infinity => a.metric < RouteCost(c, a)
<1>1. c \in Nat /\ Infinity \in Nat /\ a.metric \in 0..Infinity
    BY Advertised, BabelAssumption
<1> QED
    BY <1>1 DEF RouteCost, SaturatingAdd

\* What selectRoute selects is nothing, or a feasible route that it stores.
Chosen(i, rts, sel) ==
    /\ sel \in Selection /\ sel.via \in Neighbors[i]
    /\ rts[sel.via] \in Advertisement
    /\ rts[sel.via].id = sel.id /\ rts[sel.via].seqno = sel.seqno
    /\ rts[sel.via].metric < sel.cost
    /\ Feasible(i, rts[sel.via])

LEMMA Selects ==
    ASSUME NEW i \in Router, NEW rts \in [Neighbors[i] -> Advertisement \cup {NoRoute}],
           NEW lc \in [Neighbors[i] -> LinkCosts \cup {Infinity}],
           NEW sel \in Selections(i, rts, lc)
    PROVE  sel = Unselected \/ Chosen(i, rts, sel)
<1> DEFINE usable == {j \in Finite(rts, lc) : Feasible(i, rts[j])}
           c == [j \in usable |-> RouteCost(lc[j], rts[j])]
           by(j) == [via |-> j, id |-> rts[j].id, seqno |-> rts[j].seqno,
                     cost |-> RouteCost(lc[j], rts[j])]
           cheaper(j, k) == \/ RouteCost(lc[j], rts[j]) < RouteCost(lc[k], rts[k])
                            \/ RouteCost(lc[j], rts[j]) = RouteCost(lc[k], rts[k]) /\ j <= k
<1>1. Neighbors[i] \subseteq Nat /\ Neighbors[i] \subseteq Router
    BY BabelAssumption, Zenon
<1>2. ASSUME NEW j \in usable PROVE Chosen(i, rts, by(j)) /\ c[j] \in Nat
    <2>1. j \in Neighbors[i] /\ rts[j] \in Advertisement /\ Feasible(i, rts[j])
          /\ lc[j] \in LinkCosts \cup {Infinity} /\ RouteCost(lc[j], rts[j]) # Infinity
        BY Zenon DEF Finite
    <2>2. /\ RouteCost(lc[j], rts[j]) \in 0..(Infinity - 1)
          /\ rts[j].metric < RouteCost(lc[j], rts[j]) /\ Infinity \in Nat
        <3>1. /\ RouteCost(lc[j], rts[j]) \in 0..Infinity
              /\ rts[j].metric < RouteCost(lc[j], rts[j])
            BY <2>1, CostsMore, Zenon
        <3>2. Infinity \in Nat
            BY BabelAssumption, Zenon
        <3> QED
            BY <2>1, <3>1, <3>2
    <2>3. rts[j].metric # Infinity
        BY <2>1, <2>2, Advertised
    <2>4. rts[j].id \in Router /\ rts[j].seqno \in Seqno
        BY <2>1, <2>3, Advertised, Zenon
    <2>5. by(j) \in Selection
        BY <1>1, <2>1, <2>2, <2>4, Zenon DEF Selection
    <2>6. c[j] \in Nat
        BY <2>2
    <2>7. by(j).via = j /\ by(j).id = rts[j].id /\ by(j).seqno = rts[j].seqno
          /\ by(j).cost = RouteCost(lc[j], rts[j])
        BY Zenon
    <2> HIDE DEF by
    <2> QED
        BY <2>1, <2>2, <2>5, <2>6, <2>7, Zenon DEF Chosen
<1>3. ASSUME usable # {}
      PROVE  (CHOOSE j \in usable : \A k \in usable : cheaper(j, k)) \in usable
    <2>1. usable \in SUBSET Nat
        BY <1>1, Zenon DEF Finite
    <2>2. c \in [usable -> Nat]
        BY <1>2, Zenon
    <2>3. \A U \in SUBSET Nat : \A f \in [U -> Nat] : U # {} =>
              \E j \in U : \A k \in U : f[j] < f[k] \/ (f[j] = f[k] /\ j <= k)
        BY Cheapest, Zenon
    <2>4. PICK j \in usable : \A k \in usable : c[j] < c[k] \/ (c[j] = c[k] /\ j <= k)
        <3> HIDE DEF usable, c
        <3> QED
            BY <1>3, <2>1, <2>2, <2>3, Zenon
    <2>5. \A k \in usable : cheaper(j, k)
        BY <2>4, Zenon
    <2> HIDE DEF usable, cheaper
    <2> QED
        BY <2>5, Zenon
<1>4. sel = Unselected \/ \E j \in usable : sel = by(j)
    <2>1. CASE usable = {}
        BY <2>1, Zenon DEF Selections
    <2>2. CASE usable # {}
        <3> DEFINE best == CHOOSE j \in usable : \A k \in usable : cheaper(j, k)
        <3>1. best \in usable
            BY <1>3, <2>2, Zenon
        <3>2. \/ sel = by(best)
              \/ selected[i].via \in usable /\ sel = by(selected[i].via)
            <4>1. Selections(i, rts, lc) =
                      IF selected[i].via \notin usable THEN {by(best)}
                      ELSE {by(selected[i].via)} \cup {by(j) : j \in {best} \cap
                               {k \in usable : RouteCost(lc[k], rts[k])
                                    < RouteCost(lc[selected[i].via], rts[selected[i].via])}}
                BY <2>2, Zenon DEF Selections
            <4>2. \A S : \A x \in {by(j) : j \in {best} \cap S} : x = by(best)
                BY Zenon
            <4> HIDE DEF usable, best, by
            <4>3. CASE selected[i].via \notin usable
                BY <4>1, <4>3, Zenon
            <4>4. CASE selected[i].via \in usable
                BY <4>1, <4>2, <4>4, Zenon
            <4> QED
                BY <4>3, <4>4, Zenon
        <3> HIDE DEF usable, best, by
        <3> QED
            BY <3>1, <3>2, Zenon
    <2> QED
        BY <2>1, <2>2, Zenon
<1> HIDE DEF usable, by
<1> QED
    BY <1>2, <1>4, Zenon

-----------------------------------------------------------------------------
(* Distances.                                                              *)

LEMMA BetterIs ==
    ASSUME NEW d \in Distance, NEW s \in 0..MaxSeqno, NEW m
    PROVE  Better(d, s, m) <=> s > d.seqno \/ (s = d.seqno /\ m < d.metric)
<1>1. d.seqno \in 0..MaxSeqno
    BY DEF Distance, Seqno
<1> QED
    BY <1>1, SeqnoOrder, Zenon DEF Better

\* adv, a finite advertisement, is known of router i and no better than what i
\* has recorded in src.
Bounded(src, i, adv) ==
    adv.metric \in 0..(Infinity - 1) =>
        src[i][adv.id] # NoSource /\ ~Better(src[i][adv.id], adv.seqno, adv.metric)

\* Recording a distance before it leaves keeps every bound, adds that of the
\* distance itself, and leaves a route feasible that is shorter than it.
LEMMA Observes ==
    ASSUME sources \in [Router -> [Router -> Distance \cup {NoSource}]],
           NEW i \in Router, NEW adv, adv.id \in Router, adv.seqno \in Seqno,
           adv.metric \in 0..(Infinity - 1)
    PROVE  /\ Observe(i, adv) \in [Router -> [Router -> Distance \cup {NoSource}]]
           /\ Bounded(Observe(i, adv), i, adv)
           /\ \A h \in Router : \A a : a.id \in Router /\ a.seqno \in Seqno /\ Bounded(sources, h, a)
                  => Bounded(Observe(i, adv), h, a)
           /\ \A h, r \in Router : h # i \/ r # adv.id => Observe(i, adv)[h][r] = sources[h][r]
           /\ \A m \in 0..(Infinity - 1) : m < adv.metric =>
                  \/ Better(Observe(i, adv)[i][adv.id], adv.seqno, m)
                  \/ sources[i][adv.id] # NoSource
                     /\ ~Better(sources[i][adv.id], adv.seqno, m)
<1> DEFINE new == [seqno |-> adv.seqno, metric |-> adv.metric]
           d == sources[i][adv.id]
<1>1. new \in Distance /\ Infinity \in Nat /\ MaxSeqno \in Nat /\ new # NoSource
    BY BabelAssumption DEF Distance, Seqno, NoSource
<1>2. d \in Distance \cup {NoSource} /\ adv.seqno \in 0..MaxSeqno
    BY <1>1 DEF Seqno
<1>3. CASE d = NoSource \/ Better(d, adv.seqno, adv.metric)
    <2>1. Observe(i, adv) = [sources EXCEPT ![i][adv.id] = new]
        BY <1>3, Zenon DEF Observe
    <2>2. /\ Observe(i, adv) \in [Router -> [Router -> Distance \cup {NoSource}]]
          /\ Observe(i, adv)[i][adv.id] = new
          /\ \A h, r \in Router : h # i \/ r # adv.id => Observe(i, adv)[h][r] = sources[h][r]
        <3> HIDE DEF new
        <3> QED
            BY <1>1, <2>1
    <2>3. ~Better(new, adv.seqno, adv.metric)
          /\ \A m \in 0..(Infinity - 1) : m < adv.metric => Better(new, adv.seqno, m)
        BY <1>1, <1>2, BetterIs
    <2>4. ASSUME NEW s \in Seqno, NEW m \in 0..(Infinity - 1), d # NoSource, ~Better(d, s, m)
          PROVE  ~Better(new, s, m)
        <3>1. d \in Distance /\ s \in 0..MaxSeqno
            BY <1>1, <1>2, <2>4 DEF Seqno
        <3>2. d.seqno \in Int /\ d.metric \in Int
            BY <1>1, <3>1 DEF Distance, Seqno
        <3>3. Better(d, adv.seqno, adv.metric)
            BY <1>3, <2>4, Zenon
        <3> QED
            BY <1>1, <1>2, <2>4, <3>1, <3>2, <3>3, BetterIs
    <2>5. ASSUME NEW h \in Router, NEW a, a.id \in Router, a.seqno \in Seqno, Bounded(sources, h, a)
          PROVE  Bounded(Observe(i, adv), h, a)
        <3> HIDE DEF new
        <3>1. CASE h = i /\ a.id = adv.id
            BY <1>1, <2>2, <2>4, <2>5, <3>1, Zenon DEF Bounded
        <3>2. CASE ~(h = i /\ a.id = adv.id)
            BY <2>2, <2>5, <3>2, Zenon DEF Bounded
        <3> QED
            BY <3>1, <3>2, Zenon
    <2> HIDE DEF new
    <2> QED
        BY <1>1, <2>2, <2>3, <2>5, Zenon DEF Bounded
<1>4. CASE d # NoSource /\ ~Better(d, adv.seqno, adv.metric)
    <2>1. Observe(i, adv) = sources
        BY <1>4, Zenon DEF Observe
    <2>2. \A m \in 0..(Infinity - 1) : m < adv.metric =>
              Better(d, adv.seqno, m) \/ ~Better(d, adv.seqno, m)
        BY Zenon
    <2> QED
        BY <1>4, <2>1, Zenon DEF Bounded
<1> QED
    BY <1>3, <1>4, Zenon

-----------------------------------------------------------------------------
(* The inductive invariant.                                                *)

\* The parts of TypeOK, each over the variables that change together.
OriginType == originate \in [Router -> BOOLEAN] /\ originSeqno \in [Router -> Seqno]
WorldType ==
    /\ Keyed(linkCost) /\ Keyed(session) /\ events \in 0..Budget
    /\ \A i \in Router : /\ linkCost[i] \in [Neighbors[i] -> LinkCosts \cup {Infinity}]
                         /\ session[i] \in [Neighbors[i] -> 0..events]
RoutesType ==
    /\ Keyed(routes)
    /\ \A i \in Router : routes[i] \in [Neighbors[i] -> Advertisement \cup {NoRoute}]
TableType ==
    /\ RoutesType
    /\ selected \in [Router -> Selection \cup {Unselected}]
    /\ retractID \in [Router -> Router \cup {Nobody}]
    /\ forwarding \in [Router -> Router \cup {Nobody, Unreachable}]
    /\ dirty \subseteq Router
SourcesType == sources \in [Router -> [Router -> Distance \cup {NoSource}]]
ToldType ==
    /\ advertised \in [Router -> SUBSET Router] /\ owed \in [Router -> SUBSET Router]
    /\ \A i \in Router : advertised[i] \subseteq Neighbors[i] /\ owed[i] \subseteq Neighbors[i]
Awaited == [seqno : 1..(MaxSeqno + 1), left : 1..(Retries + 1)]
RequestType ==
    /\ asked \in [Router -> SUBSET (Router \X Router)]
    /\ pending \in [Router -> [Router -> 0..(MaxSeqno + 1)]]
    /\ retries \in [Router -> [Router -> Awaited \cup {NoRetry}]]
NetType == net \in [Links -> Seq(Packet)] /\ \A l \in Links : Len(net[l]) <= Capacity

\* What a speaker's neighbors hold of it, or are about to, its distances bound.
Bounds ==
    \A i \in Router : \A j \in Neighbors[i] :
        /\ Bounded(sources, i, routes[j][i])
        /\ \A p \in On(net, <<i, j>>) : p.kind = "update" => Bounded(sources, i, p)

\* LoopFree rests on the distances twice: they bound what neighbors hold, and
\* the selected route stays feasible although they shrink as it is advertised.
SelectionHolds ==
    \A i \in Router : selected[i].via # Nobody => Chosen(i, routes[i], selected[i])

\* A prefix of which no route is left has no retraction to send.
Forgotten == \A i \in Router : ~Known(i) => retractID[i] = Nobody

Tables == TableType /\ SelectionHolds /\ Forgotten /\ ForwardingAgrees
Agreeing ==
    /\ OriginType /\ WorldType /\ SourcesType /\ ToldType /\ RequestType /\ NetType
    /\ Tables /\ Bounds

-----------------------------------------------------------------------------
(* Asking.                                                                 *)

\* What may be asked of a neighbor.
Askable(i, wants) ==
    /\ DOMAIN wants \subseteq Neighbors[i]
    /\ \A j \in DOMAIN wants : wants[j].id \in Router /\ wants[j].seqno \in 1..(MaxSeqno + 1)

LEMMA AsksPackets ==
    ASSUME WorldType, NEW i \in Router, NEW wants, Askable(i, wants)
    PROVE  \A j \in DOMAIN Asks(i, wants) :
               Asks(i, wants)[j] \in Packet /\ Asks(i, wants)[j].kind = "request"
<1> SUFFICES ASSUME NEW j \in DOMAIN Asks(i, wants)
             PROVE  Asks(i, wants)[j] \in Packet /\ Asks(i, wants)[j].kind = "request"
    BY Zenon
<1>1. j \in DOMAIN wants /\ Asks(i, wants)[j] =
          [kind |-> "request", id |-> wants[j].id, seqno |-> wants[j].seqno, hops |-> HopCount,
           session |-> session[i][j]]
    BY Zenon DEF Asks, Allowed, RequestPacket
<1>2. session[i][j] \in 0..Budget
    BY <1>1, BabelAssumption DEF WorldType, Askable
<1>3. HopCount \in 1..HopCount
    BY BabelAssumption
<1> QED
    BY <1>1, <1>2, <1>3 DEF Askable, Packet

LEMMA Records ==
    ASSUME RequestType, NEW i \in Router, NEW wants, Askable(i, wants), Record(i, wants)
    PROVE  /\ asked' \in [Router -> SUBSET (Router \X Router)]
           /\ pending' \in [Router -> [Router -> 0..(MaxSeqno + 1)]]
<1> DEFINE some(r) == CHOOSE j \in Allowed(i, wants) : wants[j].id = r
           ids == {wants[j].id : j \in Allowed(i, wants)}
           added == {<<j, wants[j].id>> : j \in {k \in Allowed(i, wants) : Suppress}}
           row == [r \in Router |-> IF Suppress /\ r \in ids /\ ~Redundant(i, r, wants[some(r)].seqno)
                                    THEN wants[some(r)].seqno ELSE pending[i][r]]
<1>1. Neighbors[i] \subseteq Router /\ MaxSeqno \in Nat
    BY BabelAssumption
<1>2. added \subseteq Router \X Router
    <2>1. \A j \in Allowed(i, wants) : j \in Router /\ wants[j].id \in Router
        BY <1>1, Zenon DEF Allowed, Askable
    <2> QED
        BY <2>1
<1>3. asked' = [asked EXCEPT ![i] = asked[i] \cup added]
    BY Zenon DEF Record
<1>4. ASSUME NEW r \in ids PROVE wants[some(r)].seqno \in 0..(MaxSeqno + 1)
    <2>1. some(r) \in Allowed(i, wants)
        BY <1>4, Zenon
    <2> QED
        BY <1>1, <2>1 DEF Allowed, Askable
<1>5. pending' = [pending EXCEPT ![i] = row]
    BY Zenon DEF Record, RequestType
<1>6. row \in [Router -> 0..(MaxSeqno + 1)]
    <2> HIDE DEF some
    <2> QED
        BY <1>4, ZenonT(30) DEF RequestType
<1> HIDE DEF added, row
<1> QED
    BY <1>2, <1>3, <1>5, <1>6, Zenon DEF RequestType

LEMMA Remembers ==
    ASSUME RequestType, NEW i \in Router, NEW wants, Askable(i, wants), Remember(i, wants)
    PROVE  retries' \in [Router -> [Router -> Awaited \cup {NoRetry}]]
<1> DEFINE by(r) == {j \in Allowed(i, wants) : wants[j].id = r}
           row == [r \in Router |->
                      IF by(r) = {} \/ Retries = 0 THEN retries[i][r]
                      ELSE [seqno |-> wants[CHOOSE j \in by(r) : TRUE].seqno,
                            left |-> IF retries[i][r].left = 0 THEN Retries + 1
                                                               ELSE retries[i][r].left]]
<1>1. MaxSeqno \in Nat /\ Retries \in Nat
    BY BabelAssumption
<1>2. retries' = [retries EXCEPT ![i] = row]
    BY Zenon DEF Remember, RequestType
<1>3. ASSUME NEW r \in Router
      PROVE  row[r] \in Awaited \cup {NoRetry}
    <2>1. retries[i][r] \in Awaited \cup {NoRetry}
        BY Zenon DEF RequestType
    <2>2. CASE by(r) = {} \/ Retries = 0
        BY <2>1, <2>2, Zenon
    <2>3. CASE ~(by(r) = {} \/ Retries = 0)
        <3>1. (CHOOSE j \in by(r) : TRUE) \in by(r)
            BY <2>3, Zenon
        <3>2. wants[CHOOSE j \in by(r) : TRUE].seqno \in 1..(MaxSeqno + 1)
            BY <1>1, <3>1, Zenon DEF Allowed, Askable
        <3>3. row[r] = [seqno |-> wants[CHOOSE j \in by(r) : TRUE].seqno,
                        left |-> IF retries[i][r].left = 0 THEN Retries + 1
                                                           ELSE retries[i][r].left]
            BY <2>3, Zenon
        <3> HIDE DEF by, row
        <3> QED
            BY <1>1, <2>1, <3>2, <3>3 DEF Awaited, NoRetry
    <2> QED
        BY <2>2, <2>3, Zenon
<1>4. row \in [Router -> Awaited \cup {NoRetry}]
    <2>1. row = [r \in Router |-> row[r]]
        BY Zenon
    <2> HIDE DEF row
    <2> QED
        BY <1>3, <2>1, Zenon
<1> HIDE DEF row
<1> QED
    BY <1>2, <1>4, Zenon DEF RequestType

-----------------------------------------------------------------------------
(* Selecting, as an action.                                                *)

LEMMA KnownIs ==
    ASSUME RoutesType, NEW i \in Router
    PROVE  Known(i) <=> \E j \in DOMAIN routes[i] : routes[i][j] # NoRoute
    BY Zenon DEF RoutesType, Known

\* selectRoute keeps the tables, given routes that may be stored.
LEMMA SelectRouteKeeps ==
    ASSUME Agreeing, NEW i \in Router, ~originate[i],
           NEW rts \in [Neighbors[i] -> Advertisement \cup {NoRoute}],
           NEW lc \in [Neighbors[i] -> LinkCosts \cup {Infinity}],
           \A j \in Neighbors[i] : Bounded(sources, j, rts[j]),
           NEW also \in SUBSET Neighbors[i],
           \A j \in also : rts[j] \in Advertisement /\ rts[j].metric # Infinity,
           NEW d \in SUBSET Router,
           NEW n, Left(n), SelectRoute(i, rts, lc, also, d, n),
           UNCHANGED <<originate, sources>>
    PROVE  Tables' /\ RequestType' /\ NetType' /\ Bounds'
<1> DEFINE empty == \A j \in DOMAIN rts : rts[j] = NoRoute
<1>1. PICK sel \in Selections(i, rts, lc) :
        LET lost == sel.via = Nobody /\ selected[i].via # Nobody
            starved == {j \in Finite(rts, lc) : lost /\ ~Feasible(i, rts[j])}
            wants == [j \in starved \cup also |-> Want(i, rts[j])]
        IN  /\ routes' = [routes EXCEPT ![i] = rts]
            /\ selected' = [selected EXCEPT ![i] = sel]
            /\ retractID' = [retractID EXCEPT ![i] =
                   IF empty THEN Nobody ELSE IF sel.via = Nobody THEN @ ELSE sel.id]
            /\ dirty' = IF empty \/ Significant(selected[i], sel)
                        THEN d \cup {i} ELSE d
            /\ forwarding' = [forwarding EXCEPT ![i] =
                   IF empty THEN Nobody
                   ELSE IF sel.via = selected[i].via THEN @
                   ELSE IF sel.via = Nobody THEN Unreachable ELSE sel.via]
            /\ net' = Post(n, i, Asks(i, wants))
            /\ Record(i, wants) /\ Remember(i, wants)
    BY Zenon DEF SelectRoute
<1> DEFINE starved == {j \in Finite(rts, lc) :
                          (sel.via = Nobody /\ selected[i].via # Nobody) /\ ~Feasible(i, rts[j])}
           wants == [j \in starved \cup also |-> Want(i, rts[j])]
<1>2. sel = Unselected \/ Chosen(i, rts, sel)
    BY Selects, ZenonT(30)
<1>3. Askable(i, wants)
    <2>1. ASSUME NEW j \in starved \cup also
          PROVE  j \in Neighbors[i] /\ rts[j] \in Advertisement /\ rts[j].metric # Infinity
        BY Zenon DEF Finite, Feasible
    <2>2. ASSUME NEW j \in starved \cup also
          PROVE  Want(i, rts[j]).id \in Router /\ Want(i, rts[j]).seqno \in 1..(MaxSeqno + 1)
        <3>1. rts[j].id \in Router /\ rts[j].seqno \in Seqno
            BY <2>1, Advertised, ZenonT(30)
        <3>2. sources[i][rts[j].id] \in Distance \cup {NoSource}
            BY <3>1 DEF Agreeing, SourcesType
        <3>3. MaxSeqno \in Nat
            BY BabelAssumption
        <3> QED
            BY <3>1, <3>2, <3>3, SMTT(20) DEF Want, RequestSeqno, Distance, Seqno
    <2> HIDE DEF starved
    <2> QED
        BY <2>1, <2>2, Zenon DEF Askable
<1>4. Post(n, i, Asks(i, wants)) = net' /\ Record(i, wants) /\ Remember(i, wants)
    BY <1>1, ZenonT(30)
<1> HIDE DEF wants
<1>5. RequestType'
    BY <1>3, <1>4, Records, Remembers, Zenon DEF Agreeing, RequestType
<1>6. NetType' /\ \A l \in Links : \A p \in On(net', l) : p.kind = "update" => p \in On(net, l)
    <2>1. \A j \in DOMAIN Asks(i, wants) :
              Asks(i, wants)[j] \in Packet /\ Asks(i, wants)[j].kind = "request"
        BY <1>3, AsksPackets, Zenon DEF Agreeing
    <2>2. Posted(net', n, i, Asks(i, wants))
        <3>1. Posted(Post(n, i, Asks(i, wants)), n, i, Asks(i, wants))
            BY <2>1, PostAdds, Zenon
        <3> QED
            BY <1>4, <3>1, Zenon
    <2> QED
        BY <2>1, <2>2, ZenonT(30) DEF NetType, Posted, Left
<1> HIDE DEF empty
<1>7. /\ routes' = [routes EXCEPT ![i] = rts]
      /\ selected' = [selected EXCEPT ![i] = sel]
      /\ retractID' = [retractID EXCEPT ![i] =
             IF empty THEN Nobody ELSE IF sel.via = Nobody THEN @ ELSE sel.id]
      /\ forwarding' = [forwarding EXCEPT ![i] =
             IF empty THEN Nobody
             ELSE IF sel.via = selected[i].via THEN @
             ELSE IF sel.via = Nobody THEN Unreachable ELSE sel.via]
      /\ dirty' \in {d, d \cup {i}}
    BY <1>1, Zenon
<1>8. RoutesType'
    BY <1>7, Zenon DEF Agreeing, Tables, TableType, RoutesType, Keyed
<1>9. \A h \in Router : h # i =>
          routes'[h] = routes[h] /\ selected'[h] = selected[h] /\ (Known(h)' <=> Known(h))
    BY <1>7, <1>8, KnownIs, Zenon DEF Agreeing, Tables, TableType, RoutesType, Keyed, Known
<1>10. routes'[i] = rts /\ selected'[i] = sel /\ (Known(i)' <=> ~empty)
    BY <1>7, Zenon DEF Agreeing, Tables, TableType, RoutesType, Keyed, Known, empty
<1>11. TableType'
    <2>1. sel \in Selection \cup {Unselected} /\ sel.via \in Router \cup {Nobody}
          /\ sel.id \in Router \cup {Nobody}
        BY <1>2, SMTT(30) DEF Chosen, Selection, Unselected
    <2>2. selected' \in [Router -> Selection \cup {Unselected}]
        BY <1>7, <2>1, Zenon DEF Agreeing, Tables, TableType
    <2>3. retractID' \in [Router -> Router \cup {Nobody}]
        BY <1>7, <2>1, Zenon DEF Agreeing, Tables, TableType
    <2>4. forwarding' \in [Router -> Router \cup {Nobody, Unreachable}]
        BY <1>7, <2>1, Zenon DEF Agreeing, Tables, TableType
    <2>5. dirty' \subseteq Router
        BY <1>7, Zenon
    <2> QED
        BY <1>8, <2>2, <2>3, <2>4, <2>5, Zenon DEF TableType
<1>12. SelectionHolds'
    <2> SUFFICES ASSUME NEW h \in Router, selected[h].via' # Nobody
                 PROVE  Chosen(h, routes[h], selected[h])'
        BY Zenon DEF SelectionHolds
    <2>1. CASE h = i
        <3>1. sel.via # Nobody
            BY <1>10, <2>1, ZenonT(30)
        <3>2. Chosen(i, rts, sel)
            BY <1>2, <3>1 DEF Unselected
        <3> QED
            BY <1>10, <2>1, <3>2, Zenon DEF Chosen, Feasible
    <2>2. CASE h # i
        <3>1. selected[h].via # Nobody
            BY <1>9, <2>2, Zenon
        <3>2. Chosen(h, routes[h], selected[h])
            BY <3>1, ZenonT(30) DEF Agreeing, Tables, SelectionHolds
        <3> QED
            BY <1>9, <2>2, <3>2, Zenon DEF Chosen, Feasible
    <2> QED
        BY <2>1, <2>2, Zenon
<1>13. Forgotten' /\ ForwardingAgrees'
    <2>1. \A h \in Router : h # i => retractID'[h] = retractID[h] /\ forwarding'[h] = forwarding[h]
        BY <1>7, Zenon DEF Agreeing, Tables, TableType
    <2>2. /\ retractID'[i] = IF empty THEN Nobody
                             ELSE IF sel.via = Nobody THEN retractID[i] ELSE sel.id
          /\ forwarding'[i] = IF empty THEN Nobody
                              ELSE IF sel.via = selected[i].via THEN forwarding[i]
                              ELSE IF sel.via = Nobody THEN Unreachable ELSE sel.via
        BY <1>7, Zenon DEF Agreeing, Tables, TableType
    <2>3. sel.via # Nobody => ~empty
        BY <1>2, Advertised, SMTT(30) DEF Unselected, Chosen, empty
    <2>4. Unreachable # Nobody
        BY SMTT(30) DEF Unreachable, Nobody
    <2>5. Forgotten'
        BY <1>9, <1>10, <2>1, <2>2, Zenon DEF Agreeing, Tables, Forgotten
    <2>6. ForwardingAgrees'
        BY <1>9, <1>10, <2>1, <2>2, <2>3, <2>4
           DEF Agreeing, Tables, Forgotten, ForwardingAgrees
    <2> QED
        BY <2>5, <2>6, Zenon
<1>14. Bounds'
    <2> SUFFICES ASSUME NEW h \in Router, NEW j \in Neighbors[h]
                 PROVE  /\ Bounded(sources, h, routes'[j][h])
                        /\ \A p \in On(net', <<h, j>>) : p.kind = "update" => Bounded(sources, h, p)
        BY ZenonT(30) DEF Bounds, On, Bounded, Better
    <2>1. j \in Router /\ h \in Neighbors[j] /\ <<h, j>> \in Links
        BY BabelAssumption, Zenon DEF Links
    <2>2. Bounded(sources, h, routes'[j][h])
        BY <1>9, <1>10, <2>1, Zenon DEF Agreeing, Bounds
    <2> QED
        BY <1>6, <2>1, <2>2, Zenon DEF Agreeing, Bounds
<1> QED
    BY <1>5, <1>6, <1>11, <1>12, <1>13, <1>14, Zenon DEF Tables

-----------------------------------------------------------------------------
(* Advertising, as an action.                                              *)

\* What an advertisement of i may hold.
Announced(i, adv) ==
    /\ adv.id \in Router \cup {Nobody} /\ adv.seqno \in 0..MaxSeqno /\ adv.metric \in 0..Infinity
    /\ adv.metric # Infinity =>
          /\ adv.id \in Router /\ adv.seqno \in Seqno /\ adv.metric \in 0..(Infinity - 1)
          /\ selected[i].via # Nobody =>
                /\ adv.id = selected[i].id /\ adv.seqno = selected[i].seqno
                /\ adv.metric = selected[i].cost

\* Only a speaker that originates the prefix or has selected a route advertises
\* a finite metric.
LEMMA AdvertisementForIs ==
    ASSUME Agreeing, NEW i \in Router, originSeqno'[i] \in Seqno
    PROVE  Announced(i, AdvertisementFor(i))
<1>1. Infinity \in Nat /\ Infinity # 0 /\ MaxSeqno \in Nat
    BY BabelAssumption
<1>2. retractID[i] \in Router \cup {Nobody}
    BY Zenon DEF Agreeing, Tables, TableType
<1>3. CASE originate[i]
    <2>1. selected[i].via = Nobody
        <3>1. ~Known(i)
            BY <1>3, Zenon DEF Agreeing, Tables, ForwardingAgrees
        <3> QED
            BY <3>1, Advertised, Zenon DEF Known, Agreeing, Tables, SelectionHolds, Chosen
    <2>2. AdvertisementFor(i) = [id |-> i, seqno |-> originSeqno'[i], metric |-> 0, via |-> Nobody]
        BY <1>3, Zenon DEF AdvertisementFor
    <2>3. Announced(i, [id |-> i, seqno |-> originSeqno'[i], metric |-> 0, via |-> Nobody])
        BY <1>1, <2>1 DEF Announced, Seqno
    <2> QED
        BY <2>2, <2>3, Zenon
<1>4. CASE ~originate[i] /\ (i \in NoTransit \/ ~Known(i))
    <2>1. AdvertisementFor(i) =
              [id |-> i, seqno |-> originSeqno'[i], metric |-> Infinity, via |-> Nobody]
        BY <1>4, Zenon DEF AdvertisementFor
    <2>2. Announced(i, [id |-> i, seqno |-> originSeqno'[i], metric |-> Infinity, via |-> Nobody])
        BY <1>1 DEF Announced, Seqno
    <2> QED
        BY <2>1, <2>2, Zenon
<1>5. CASE ~originate[i] /\ ~(i \in NoTransit \/ ~Known(i)) /\ selected[i].via # Nobody
    <2>1. AdvertisementFor(i) = [id |-> selected[i].id, seqno |-> selected[i].seqno,
                                 metric |-> selected[i].cost, via |-> selected[i].via]
        BY <1>5, Zenon DEF AdvertisementFor
    <2>2. selected[i] \in Selection
        BY <1>5, ZenonT(30) DEF Agreeing, Tables, SelectionHolds, Chosen
    <2>3. Announced(i, [id |-> selected[i].id, seqno |-> selected[i].seqno,
                        metric |-> selected[i].cost, via |-> selected[i].via])
        BY <1>1, <2>2 DEF Announced, Selection, Seqno
    <2> QED
        BY <2>1, <2>3, Zenon
<1>6. CASE ~originate[i] /\ ~(i \in NoTransit \/ ~Known(i)) /\ selected[i].via = Nobody
    <2>1. AdvertisementFor(i) =
              [id |-> retractID[i], seqno |-> 0, metric |-> Infinity, via |-> Nobody]
        BY <1>6, ZenonT(30) DEF AdvertisementFor
    <2>2. Announced(i, [id |-> retractID[i], seqno |-> 0, metric |-> Infinity, via |-> Nobody])
        BY <1>1, <1>2, SMTT(30) DEF Announced
    <2> QED
        BY <2>1, <2>2, Zenon
<1> QED
    BY <1>3, <1>4, <1>5, <1>6, Zenon

\* advertiseTo keeps the tables: a distance is recorded before it leaves.
LEMMA AdvertiseKeeps ==
    ASSUME Agreeing, NEW i \in Router, NEW targets \in SUBSET Neighbors[i],
           NEW force \in BOOLEAN, NEW cleared, NEW n, Left(n), originSeqno'[i] \in Seqno,
           Advertise(i, targets, force, cleared, n), UNCHANGED <<routes, selected>>
    PROVE  SourcesType' /\ ToldType' /\ NetType' /\ SelectionHolds' /\ Bounds'
<1> DEFINE adv == AdvertisementFor(i)
           metric(j) == IF adv.via = j THEN Infinity ELSE adv.metric
           finite == {j \in targets : metric(j) # Infinity}
           spent == (targets \ finite) \cap advertised[i]
           said == finite \cup (IF force THEN targets ELSE spent)
           refused == {j \in said : Full(i, j)}
           now == ((advertised[i] \cup finite) \ spent) \cup (spent \cap refused)
           out == [j \in said |-> UpdatePacket(i, j, adv, metric(j), j \in spent)]
<1>1. /\ sources' = IF finite = {} THEN sources ELSE Observe(i, adv)
      /\ advertised' = [advertised EXCEPT ![i] = now]
      /\ owed' = [owed EXCEPT ![i] = (owed[i] \ cleared) \cup
               {j \in refused : Known(i) \/ originate[i] \/ j \in now}]
      /\ net' = Post(n, i, out)
    BY Zenon DEF Advertise, Agreeing, ToldType
<1>2. /\ adv.id \in Router \cup {Nobody} /\ adv.seqno \in 0..MaxSeqno
      /\ adv.metric \in 0..Infinity
      /\ adv.metric # Infinity =>
            /\ adv.id \in Router /\ adv.seqno \in Seqno /\ adv.metric \in 0..(Infinity - 1)
            /\ selected[i].via # Nobody =>
                  /\ adv.id = selected[i].id /\ adv.seqno = selected[i].seqno
                  /\ adv.metric = selected[i].cost
    BY AdvertisementForIs, Zenon DEF Announced
<1> HIDE DEF adv
<1>3. finite # {} => adv.metric # Infinity
    BY ZenonT(30)
<1>4. said \subseteq Neighbors[i] /\ finite \subseteq Neighbors[i] /\ now \subseteq Neighbors[i]
    BY Zenon DEF Agreeing, ToldType
<1>5. \A j \in said : out[j] \in Packet
    <2> SUFFICES ASSUME NEW j \in said PROVE out[j] \in Packet
        BY Zenon
    <2>1. session[i][j] \in 0..Budget
        BY <1>4, BabelAssumption DEF Agreeing, WorldType
    <2>2. out[j] = [kind |-> "update", id |-> adv.id, seqno |-> adv.seqno, metric |-> metric(j),
                    spent |-> j \in spent, session |-> session[i][j]]
        BY Zenon DEF UpdatePacket
    <2>3. (j \in spent) \in BOOLEAN
        <3> HIDE DEF spent
        <3> QED
            BY SMTT(30)
    <2>4. CASE metric(j) = Infinity
        <3> HIDE DEF spent, said, metric, out
        <3> QED
            BY <1>2, <2>1, <2>2, <2>3, <2>4, SMTT(20) DEF Packet
    <2>5. CASE metric(j) # Infinity
        <3>1. metric(j) = adv.metric /\ adv.metric # Infinity
            BY <2>5, Zenon
        <3> HIDE DEF spent, said, metric, out
        <3> QED
            BY <1>2, <2>1, <2>2, <2>3, <3>1 DEF Packet
    <2> QED
        BY <2>4, <2>5, Zenon
<1>6. Posted(net', n, i, out)
    <2>1. DOMAIN out = said
        BY Zenon
    <2> HIDE DEF out, said
    <2>2. Posted(Post(n, i, out), n, i, out)
        BY <1>5, <2>1, PostAdds, Zenon
    <2> QED
        BY <1>1, <2>2, Zenon
<1>7. /\ SourcesType'
      /\ finite # {} => Bounded(sources', i, adv)
      /\ \A h \in Router : \A a : a.id \in Router /\ a.seqno \in Seqno /\ Bounded(sources, h, a)
             => Bounded(sources', h, a)
      /\ \A h \in Router : h # i => \A r \in Router : sources'[h][r] = sources[h][r]
      /\ finite # {} => \A m \in 0..(Infinity - 1) : m < adv.metric =>
             \/ Better(sources'[i][adv.id], adv.seqno, m)
             \/ sources[i][adv.id] # NoSource /\ ~Better(sources[i][adv.id], adv.seqno, m)
      /\ \A r \in Router : finite = {} \/ r # adv.id => sources'[i][r] = sources[i][r]
    <2>1. CASE finite = {}
        <3>1. sources' = sources
            BY <1>1, <2>1, Zenon
        <3> HIDE DEF finite
        <3> QED
            BY <2>1, <3>1, Zenon DEF Agreeing, SourcesType
    <2>2. CASE finite # {}
        <3>1. sources' = Observe(i, adv)
            BY <1>1, <2>2, Zenon
        <3>2. sources \in [Router -> [Router -> Distance \cup {NoSource}]]
            BY Zenon DEF Agreeing, SourcesType
        <3> HIDE DEF finite
        <3>3. adv.id \in Router /\ adv.seqno \in Seqno /\ adv.metric \in 0..(Infinity - 1)
            BY <1>2, <1>3, <2>2, Zenon
        <3>4. /\ Observe(i, adv) \in [Router -> [Router -> Distance \cup {NoSource}]]
              /\ Bounded(Observe(i, adv), i, adv)
            BY <3>2, <3>3, Observes, Zenon
        <3>5. \A h \in Router : \A a : a.id \in Router /\ a.seqno \in Seqno /\ Bounded(sources, h, a)
                  => Bounded(Observe(i, adv), h, a)
            BY <3>2, <3>3, Observes, Zenon
        <3>6. \A h, r \in Router : h # i \/ r # adv.id => Observe(i, adv)[h][r] = sources[h][r]
            BY <3>2, <3>3, Observes, ZenonT(30)
        <3>7. \A m \in 0..(Infinity - 1) : m < adv.metric =>
                  \/ Better(Observe(i, adv)[i][adv.id], adv.seqno, m)
                  \/ sources[i][adv.id] # NoSource /\ ~Better(sources[i][adv.id], adv.seqno, m)
            BY <3>2, <3>3, Observes, Zenon
        <3> QED
            BY <2>2, <3>1, <3>4, <3>5, <3>6, <3>7, Zenon DEF SourcesType
    <2> QED
        BY <2>1, <2>2, ZenonT(30)
<1>8. ToldType'
    <2> DEFINE more == (owed[i] \ cleared) \cup
                           {j \in refused : Known(i) \/ originate[i] \/ j \in now}
    <2>1. more \subseteq Neighbors[i] /\ Neighbors[i] \subseteq Router
        BY <1>4, BabelAssumption, Zenon DEF Agreeing, ToldType
    <2>2. advertised' = [advertised EXCEPT ![i] = now] /\ owed' = [owed EXCEPT ![i] = more]
        BY <1>1, ZenonT(30)
    <2> HIDE DEF now, more
    <2> QED
        BY <1>4, <2>1, <2>2, Zenon DEF Agreeing, ToldType
<1>9. NetType'
    BY <1>6, Zenon DEF Posted, NetType
<1>10. SelectionHolds'
    <2> SUFFICES ASSUME NEW h \in Router, selected[h].via # Nobody
                 PROVE  Chosen(h, routes[h], selected[h])'
        BY Zenon DEF SelectionHolds
    <2> DEFINE rt == routes[h][selected[h].via]
    <2>1. Chosen(h, routes[h], selected[h])
        BY Zenon DEF Agreeing, Tables, SelectionHolds
    <2>2. Infinity \in Nat /\ selected[h].cost \in 0..(Infinity - 1) /\ selected[h].id \in Router
        BY <2>1, BabelAssumption, Zenon DEF Chosen, Selection
    <2>3. /\ rt.id = selected[h].id /\ rt.seqno = selected[h].seqno /\ rt.metric < selected[h].cost
          /\ rt.metric \in 0..(Infinity - 1) /\ rt.metric # Infinity
        <3>1. rt \in Advertisement /\ rt.metric < selected[h].cost
            BY <2>1, Zenon DEF Chosen
        <3>2. rt.metric \in 0..Infinity
            BY <3>1, Advertised, Zenon
        <3> HIDE DEF rt
        <3>3. rt.metric \in 0..(Infinity - 1) /\ rt.metric # Infinity
            BY <2>2, <3>1, <3>2
        <3> QED
            BY <2>1, <3>1, <3>3, ZenonT(30) DEF Chosen, rt
    <2>4. sources[h][rt.id] = NoSource \/ Better(sources[h][rt.id], rt.seqno, rt.metric)
        BY <2>1, <2>3, ZenonT(30) DEF Chosen, Feasible
    <2>5. sources'[h][rt.id] = NoSource \/ Better(sources'[h][rt.id], rt.seqno, rt.metric)
        <3> HIDE DEF rt, finite
        <3>1. CASE h # i \/ finite = {} \/ rt.id # adv.id
            <4>1. sources'[h][rt.id] = sources[h][rt.id]
                BY <1>7, <2>2, <2>3, <3>1, Zenon
            <4> QED
                BY <2>4, <4>1, Zenon
        <3>2. CASE h = i /\ finite # {} /\ rt.id = adv.id
            <4>1. adv.seqno = rt.seqno /\ rt.metric < adv.metric
                BY <1>2, <1>3, <2>3, <3>2, Zenon
            <4> QED
                BY <1>7, <2>3, <2>4, <3>2, <4>1, Zenon
        <3> QED
            BY <3>1, <3>2, Zenon
    <2>6. Feasible(h, rt)'
        BY <2>5, Zenon DEF Feasible
    <2> QED
        BY <2>1, <2>6, Zenon DEF Chosen
<1>11. Bounds'
    <2>1. ASSUME NEW h \in Router, NEW j \in Neighbors[h]
          PROVE  Bounded(sources', h, routes[j][h])
        <3>1. j \in Router /\ h \in Neighbors[j] /\ Infinity \in Nat
            BY BabelAssumption, Zenon
        <3>2. routes[j][h] \in Advertisement \cup {NoRoute} /\ Bounded(sources, h, routes[j][h])
            BY <3>1, Zenon DEF Agreeing, Tables, TableType, RoutesType, Bounds
        <3>3. CASE routes[j][h].metric \in 0..(Infinity - 1)
            <4>1. routes[j][h] \in Advertisement /\ routes[j][h].metric # Infinity
                BY <3>1, <3>2, <3>3 DEF NoRoute
            <4>2. routes[j][h].id \in Router /\ routes[j][h].seqno \in Seqno
                BY <4>1, Advertised, Zenon
            <4> QED
                BY <1>7, <3>2, <4>2, ZenonT(30)
        <3>4. CASE ~(routes[j][h].metric \in 0..(Infinity - 1))
            BY <3>4, Zenon DEF Bounded
        <3> QED
            BY <3>3, <3>4, Zenon
    <2>2. ASSUME NEW h \in Router, NEW j \in Neighbors[h], NEW p \in On(net', <<h, j>>),
                 p.kind = "update"
          PROVE  Bounded(sources', h, p)
        <3>1. j \in Router /\ <<h, j>> \in Links /\ Infinity \in Nat
            BY BabelAssumption, Zenon DEF Links
        <3>2. CASE p \in On(net, <<h, j>>)
            <4>1. p \in Packet /\ Bounded(sources, h, p)
                BY <2>2, <3>1, <3>2, SMTT(20) DEF On, Agreeing, NetType, Bounds
            <4>2. CASE p.metric \in 0..(Infinity - 1)
                <5>1. p.id \in Router /\ p.seqno \in Seqno
                    BY <2>2, <3>1, <4>1, <4>2 DEF Packet
                <5> QED
                    BY <1>7, <4>1, <5>1, Zenon
            <4>3. CASE ~(p.metric \in 0..(Infinity - 1))
                BY <4>3, ZenonT(30) DEF Bounded
            <4> QED
                BY <4>2, <4>3, Zenon
        <3>3. CASE h = i /\ j \in said /\ p = out[j]
            <4>1. /\ p.id = adv.id /\ p.seqno = adv.seqno /\ p.metric = metric(j)
                BY <3>3, Zenon DEF UpdatePacket
            <4>2. CASE j \in finite
                <5>1. p.metric = adv.metric
                    BY <4>1, <4>2, Zenon
                <5> QED
                    BY <1>7, <3>3, <4>1, <4>2, <5>1, Zenon DEF Bounded
            <4>3. CASE j \notin finite
                <5>1. p.metric = Infinity
                    BY <3>3, <4>1, <4>3, ZenonT(30)
                <5>2. ~(Infinity \in 0..(Infinity - 1))
                    BY <3>1
                <5> QED
                    BY <5>1, <5>2, Zenon DEF Bounded
            <4> QED
                BY <4>2, <4>3, Zenon
        <3>4. p \in On(n, <<h, j>>) \/ (h = i /\ j \in said /\ p = out[j])
            <4>1. <<h, j>>[1] = h /\ <<h, j>>[2] = j /\ DOMAIN out = said
                BY Zenon
            <4> HIDE DEF out, said
            <4> QED
                BY <1>6, <2>2, <3>1, <4>1, Zenon DEF Posted
        <3>5. On(n, <<h, j>>) \subseteq On(net, <<h, j>>)
            BY <3>1, Zenon DEF Left
        <3> QED
            BY <3>2, <3>3, <3>4, <3>5, Zenon
    <2> QED
        BY <2>1, <2>2, ZenonT(30) DEF Bounds, On, Bounded, Better
<1> QED
    BY <1>7, <1>8, <1>9, <1>10, <1>11, Zenon

-----------------------------------------------------------------------------
(* The initial states.                                                     *)

LEMMA MinIn ==
    ASSUME NEW T \in SUBSET Nat, T # {}
    PROVE  Min(T) \in T
<1>1. \E m \in T : \A n \in T : m <= n
    BY Least, ZenonT(30)
<1> QED
    BY <1>1, Zenon DEF Min

\* What Cold and Warm leave to Init.
LEMMA InitTypes ==
    ASSUME Init
    PROVE  /\ WorldType /\ RequestType /\ NetType
           /\ originSeqno \in [Router -> Seqno]
           /\ owed = [i \in Router |-> {}]
           /\ \A l \in Links : On(net, l) = {}
<1>1. /\ originSeqno = [i \in Router |-> 1] /\ events = 0
      /\ linkCost = [i \in Router |-> [j \in Neighbors[i] |-> Min(LinkCosts)]]
      /\ owed = [i \in Router |-> {}] /\ asked = [i \in Router |-> {}]
      /\ pending = [i \in Router |-> [r \in Router |-> 0]]
      /\ retries = [i \in Router |-> [r \in Router |-> NoRetry]]
      /\ session = [i \in Router |-> [j \in Neighbors[i] |-> 0]]
      /\ net = [l \in Links |-> <<>>]
    BY Zenon DEF Init
<1>2. {MaxSeqno, Retries, Capacity, Budget} \subseteq Nat /\ MaxSeqno >= 1
    BY BabelAssumption
<1>3. Min(LinkCosts) \in LinkCosts
    <2>1. LinkCosts \in SUBSET Nat /\ LinkCosts # {}
        BY BabelAssumption
    <2> QED
        BY <2>1, MinIn, Zenon
<1>4. WorldType
    <2>1. events \in 0..Budget /\ \A i \in Router :
              /\ linkCost[i] \in [Neighbors[i] -> LinkCosts \cup {Infinity}]
              /\ session[i] \in [Neighbors[i] -> 0..events]
        BY <1>1, <1>2, <1>3
    <2>2. Keyed(linkCost) /\ Keyed(session)
        BY <1>1, Zenon DEF Keyed
    <2> QED
        BY <2>1, <2>2, Zenon DEF WorldType
<1>5. RequestType
    BY <1>1, <1>2 DEF RequestType, NoRetry
<1>6. ASSUME NEW l \in Links
      PROVE  net[l] \in Seq(Packet) /\ Len(net[l]) <= Capacity /\ On(net, l) = {}
    BY <1>1, <1>2 DEF On
<1>7. NetType
    BY <1>1, <1>6, Zenon DEF NetType
<1>8. originSeqno \in [Router -> Seqno]
    BY <1>1, <1>2 DEF Seqno
<1> QED
    BY <1>1, <1>4, <1>5, <1>6, <1>7, <1>8, Zenon

LEMMA ColdAgrees ==
    ASSUME Init, Cold
    PROVE  Agreeing
<1>1. /\ originate \in [Router -> BOOLEAN]
      /\ routes = [i \in Router |-> [j \in Neighbors[i] |-> NoRoute]]
      /\ selected = [i \in Router |-> Unselected]
      /\ retractID = [i \in Router |-> Nobody]
      /\ sources = [i \in Router |-> [r \in Router |-> NoSource]]
      /\ advertised = [i \in Router |-> {}]
      /\ dirty = {i \in Router : originate[i]}
      /\ forwarding = [i \in Router |-> IF originate[i] THEN Unreachable ELSE Nobody]
    BY Zenon DEF Cold
<1>2. \A i \in Router : ~Known(i)
    BY <1>1, Zenon DEF Known
<1>3. TableType
    <2>1. RoutesType
        BY <1>1, Zenon DEF RoutesType, Keyed
    <2> QED
        BY <1>1, <2>1, Zenon DEF TableType
<1>4. SourcesType
    BY <1>1, Zenon DEF SourcesType
<1>5. ToldType
    BY <1>1, InitTypes, Zenon DEF ToldType
<1>6. SelectionHolds /\ Forgotten
    BY <1>1, Zenon DEF SelectionHolds, Forgotten, Unselected
<1>7. ForwardingAgrees
    BY <1>1, <1>2, Zenon DEF ForwardingAgrees, Unselected
<1>8. Bounds
    <2> SUFFICES ASSUME NEW i \in Router, NEW j \in Neighbors[i]
                 PROVE  Bounded(sources, i, routes[j][i]) /\ On(net, <<i, j>>) = {}
        BY Zenon DEF Bounds
    <2>1. j \in Router /\ i \in Neighbors[j] /\ <<i, j>> \in Links /\ Infinity \in Nat
        BY BabelAssumption, Zenon DEF Links
    <2>2. routes[j][i] = NoRoute
        BY <1>1, <2>1, Zenon
    <2>3. Bounded(sources, i, NoRoute)
        BY <2>1, SMTT(30) DEF Bounded, NoRoute
    <2> QED
        BY <2>1, <2>2, <2>3, InitTypes, ZenonT(30)
<1>9. OriginType /\ WorldType /\ RequestType /\ NetType
    BY <1>1, InitTypes, Zenon DEF OriginType
<1> QED
    BY <1>3, <1>4, <1>5, <1>6, <1>7, <1>8, <1>9, Zenon DEF Agreeing, Tables

LEMMA WarmAgrees ==
    ASSUME Init, Warm, Settled
    PROVE  Agreeing
<1> DEFINE o == Min(Origins)
           cost == Max({1, Min(LinkCosts)})
           adv(metric) == [id |-> o, seqno |-> 1, metric |-> metric]
           all(x, y) == [i \in Router |-> IF i = o THEN x ELSE y]
<1>1. /\ originate = all(TRUE, FALSE)
      /\ routes = [i \in Router |-> [j \in Neighbors[i] |->
             IF i = o THEN NoRoute ELSE adv(IF j = o THEN 0 ELSE cost)]]
      /\ selected = all(Unselected, [via |-> o, id |-> o, seqno |-> 1, cost |-> cost])
      /\ retractID = all(Nobody, o)
      /\ sources = [i \in Router |-> [r \in Router |-> IF r # o THEN NoSource
             ELSE [seqno |-> 1, metric |-> IF i = o THEN 0 ELSE cost]]]
      /\ advertised = [i \in Router |-> Neighbors[i] \ {o}]
      /\ dirty = {}
      /\ forwarding = all(Unreachable, o)
    BY Zenon DEF Warm
<1>2. o \in Router /\ Neighbors[o] = Router \ {o} /\ o # Nobody
    <2>1. PICK x \in Router : Origins = {x} /\ Neighbors[x] = Router \ {x}
        BY BabelAssumption, Zenon
    <2>2. {x} \in SUBSET Nat /\ x # 0
        BY BabelAssumption, Zenon
    <2>3. Min({x}) \in {x}
        BY <2>2, MinIn, Zenon
    <2> QED
        BY <2>1, <2>2, <2>3, Zenon DEF Nobody
<1>3. \A i \in Router : i # o => o \in Neighbors[i] /\ Neighbors[i] \subseteq Router
    BY <1>2, BabelAssumption, Zenon
<1>4. cost \in 1..(Infinity - 1) /\ Infinity \in Nat /\ Infinity > 1
    <2>1. LinkCosts \in SUBSET Nat /\ LinkCosts # {} /\ LinkCosts \subseteq 0..(Infinity - 1)
          /\ Infinity \in Nat /\ Infinity > 1
        BY BabelAssumption
    <2>2. Min(LinkCosts) \in 0..(Infinity - 1)
        BY <2>1, MinIn, Zenon
    <2>3. \A m \in Nat : \E x \in {1, m} : \A y \in {1, m} : x >= y
        OBVIOUS
    <2>4. \E x \in {1, Min(LinkCosts)} : \A y \in {1, Min(LinkCosts)} : x >= y
        BY <2>2, <2>3
    <2>5. cost \in {1, Min(LinkCosts)} /\ \A y \in {1, Min(LinkCosts)} : cost >= y
        BY <2>4, Zenon DEF Max
    <2> HIDE DEF cost
    <2> QED
        BY <2>1, <2>2, <2>5
<1> HIDE DEF o, cost
<1>5. ASSUME NEW i \in Router, NEW j \in Neighbors[i]
      PROVE  routes[i][j] = IF i = o THEN NoRoute ELSE adv(IF j = o THEN 0 ELSE cost)
    BY <1>1, ZenonT(30)
<1>6. ASSUME NEW i \in Router
      PROVE  /\ selected[i] = IF i = o THEN Unselected
                              ELSE [via |-> o, id |-> o, seqno |-> 1, cost |-> cost]
             /\ retractID[i] = IF i = o THEN Nobody ELSE o
             /\ forwarding[i] = IF i = o THEN Unreachable ELSE o
             /\ originate[i] = IF i = o THEN TRUE ELSE FALSE
             /\ sources[i][o] = [seqno |-> 1, metric |-> IF i = o THEN 0 ELSE cost]
    BY <1>1, <1>2, Zenon
<1>7. 1 \in Seqno /\ 1 \in 0..MaxSeqno
    BY BabelAssumption, SMTT(30) DEF Seqno
<1>8. adv(0) \in Advertisement /\ adv(cost) \in Advertisement /\ adv(0) # NoRoute
    BY <1>2, <1>4, <1>7 DEF Advertisement, NoRoute
<1>9. RoutesType
    <2>1. Keyed(routes)
        BY <1>1, ZenonT(30) DEF Keyed
    <2>2. ASSUME NEW i \in Router PROVE routes[i] \in [Neighbors[i] -> Advertisement \cup {NoRoute}]
        <3>1. routes[i] = [j \in Neighbors[i] |->
                  IF i = o THEN NoRoute ELSE adv(IF j = o THEN 0 ELSE cost)]
            BY <1>1, Zenon
        <3>2. \A j \in Neighbors[i] : (IF i = o THEN NoRoute ELSE adv(IF j = o THEN 0 ELSE cost))
                  \in Advertisement \cup {NoRoute}
            BY <1>8, Zenon
        <3> HIDE DEF adv
        <3> QED
            BY <3>1, <3>2, Zenon
    <2> QED
        BY <2>1, <2>2, Zenon DEF RoutesType
<1>10. \A i \in Router : Known(i) <=> i # o
    <2>1. \A j \in Neighbors[o] : routes[o][j] = NoRoute
        BY <1>2, <1>5, Zenon
    <2>2. \A i \in Router : i # o => routes[i][o] # NoRoute
        BY <1>3, <1>5, <1>8, ZenonT(30)
    <2> QED
        BY <1>3, <2>1, <2>2, Zenon DEF Known
<1>11. TableType
    <2>1. [via |-> o, id |-> o, seqno |-> 1, cost |-> cost] \in Selection
        BY <1>2, <1>4, <1>7, SMTT(30) DEF Selection
    <2> QED
        BY <1>1, <1>2, <1>9, <2>1, Zenon DEF TableType
<1>12. SourcesType
    <2>1. [seqno |-> 1, metric |-> 0] \in Distance /\ [seqno |-> 1, metric |-> cost] \in Distance
        BY <1>4, <1>7, SMTT(30) DEF Distance
    <2> QED
        BY <1>1, <2>1, Zenon DEF SourcesType
<1>13. ToldType
    BY <1>1, InitTypes, BabelAssumption, Zenon DEF ToldType
<1>14. ASSUME NEW m \in {0, cost}
       PROVE  ~Better([seqno |-> 1, metric |-> m], 1, m)
    <2>1. ~SeqnoGT(1, 1)
        BY <1>7, SeqnoOrder
    <2>2. m \in Int
        BY <1>4, SMTT(30)
    <2> QED
        BY <2>1, <2>2 DEF Better
<1>15. SelectionHolds
    <2> SUFFICES ASSUME NEW i \in Router, i # o
                 PROVE  Chosen(i, routes[i], [via |-> o, id |-> o, seqno |-> 1, cost |-> cost])
        <3>1. Unselected.via = Nobody
            BY Zenon DEF Unselected
        <3> QED
            BY <1>6, <3>1, Zenon DEF SelectionHolds
    <2>1. routes[i][o] = adv(0) /\ o \in Neighbors[i]
        BY <1>3, <1>5, Zenon
    <2>2. sources[i][o] = [seqno |-> 1, metric |-> cost]
        BY <1>6, ZenonT(30)
    <2>3. Feasible(i, adv(0))
        BY <1>4, <2>2, SMTT(30) DEF Feasible, Better
    <2>4. [via |-> o, id |-> o, seqno |-> 1, cost |-> cost] \in Selection
        BY <1>2, <1>4, <1>7 DEF Selection
    <2> QED
        BY <1>4, <1>8, <2>1, <2>3, <2>4 DEF Chosen
<1>16. Forgotten
    BY <1>6, <1>10, Zenon DEF Forgotten
<1>17. ForwardingAgrees
    <2> SUFFICES ASSUME NEW i \in Router
                 PROVE  /\ originate[i] => forwarding[i] = Unreachable /\ ~Known(i)
                        /\ selected[i].via # Nobody => forwarding[i] = selected[i].via
                        /\ selected[i].via = Nobody => forwarding[i] \in {Nobody, Unreachable}
                        /\ Known(i) /\ retractID[i] # Nobody => forwarding[i] # Nobody
                        /\ ~Known(i) /\ ~originate[i] => forwarding[i] = Nobody
        BY Zenon DEF ForwardingAgrees
    <2>1. CASE i = o
        <3>1. selected[i].via = Nobody /\ forwarding[i] = Unreachable
            <4>1. selected[i] = Unselected /\ forwarding[i] = Unreachable
                BY <1>6, <2>1, Zenon
            <4> QED
                BY <4>1 DEF Unselected
        <3>2. originate[i] = TRUE /\ ~Known(i)
            BY <1>6, <1>10, <2>1, Zenon
        <3> QED
            BY <3>1, <3>2, Zenon
    <2>2. CASE i # o
        <3>1. selected[i].via = o /\ forwarding[i] = o
            <4>1. /\ selected[i] = [via |-> o, id |-> o, seqno |-> 1, cost |-> cost]
                  /\ forwarding[i] = o
                BY <1>6, <2>2, Zenon
            <4> QED
                BY <4>1
        <3>2. originate[i] = FALSE /\ Known(i)
            BY <1>6, <1>10, <2>2, ZenonT(30)
        <3> QED
            BY <1>2, <3>1, <3>2, Zenon
    <2> QED
        BY <2>1, <2>2, Zenon
<1>18. Bounds
    <2> SUFFICES ASSUME NEW i \in Router, NEW j \in Neighbors[i]
                 PROVE  Bounded(sources, i, routes[j][i]) /\ On(net, <<i, j>>) = {}
        BY Zenon DEF Bounds
    <2>1. j \in Router /\ i \in Neighbors[j] /\ <<i, j>> \in Links /\ Infinity \in Nat
        BY BabelAssumption, Zenon DEF Links
    <2>2. CASE j = o
        <3>1. routes[j][i] = NoRoute
            BY <1>5, <2>1, <2>2, ZenonT(30)
        <3>2. Bounded(sources, i, NoRoute)
            BY <2>1 DEF Bounded, NoRoute
        <3> QED
            BY <2>1, <3>1, <3>2, InitTypes, Zenon
    <2>3. CASE j # o
        <3>1. routes[j][i] = adv(IF i = o THEN 0 ELSE cost)
            BY <1>5, <2>1, <2>3, Zenon
        <3>2. sources[i][o] = [seqno |-> 1, metric |-> IF i = o THEN 0 ELSE cost]
            BY <1>6, Zenon
        <3>3. sources[i][o] # NoSource
            BY <3>2 DEF NoSource
        <3>4. ~Better(sources[i][o], 1, IF i = o THEN 0 ELSE cost)
            BY <1>14, <3>2, Zenon
        <3>5. routes[j][i].id = o /\ routes[j][i].seqno = 1
              /\ routes[j][i].metric = IF i = o THEN 0 ELSE cost
            BY <3>1, SMTT(30)
        <3> QED
            BY <2>1, <3>3, <3>4, <3>5, InitTypes, Zenon DEF Bounded
    <2> QED
        BY <2>2, <2>3, Zenon
<1>19. OriginType /\ WorldType /\ RequestType /\ NetType
    BY <1>1, InitTypes, Zenon DEF OriginType
<1> QED
    BY <1>11, <1>12, <1>13, <1>15, <1>16, <1>17, <1>18, <1>19, Zenon DEF Agreeing, Tables

LEMMA InitAgrees == Init => Agreeing
    BY ColdAgrees, WarmAgrees, Zenon DEF Init

-----------------------------------------------------------------------------
(* The steps.                                                              *)

LEMMA NetLeft ==
    ASSUME NetType
    PROVE  Left(net)
    BY DEF NetType, Left

LEMMA TakenLeft ==
    ASSUME NetType, NEW i, NEW j, <<j, i>> \in Links, NEW k \in DOMAIN net[<<j, i>>]
    PROVE  Left(Taken(net, i, j, k))
<1>1. net \in [Links -> Seq(Packet)] /\ \A l \in Links : Len(net[l]) <= Capacity
    BY Zenon DEF NetType
<1>2. /\ Taken(net, i, j, k) \in [Links -> Seq(Packet)]
      /\ \A l \in Links : /\ Len(Taken(net, i, j, k)[l]) <= Len(net[l])
                          /\ On(Taken(net, i, j, k), l) \subseteq On(net, l)
    BY <1>1, TakenKeeps, Zenon
<1> QED
    BY <1>1, <1>2, Zenon DEF Left

\* A handler that leaves the table and the distances alone, and sends requests
\* at most.
LEMMA RestKeeps ==
    ASSUME Agreeing, UNCHANGED <<origin, routes, selected, retractID, forwarding, sources>>,
           dirty' \subseteq Router, WorldType', ToldType', RequestType', NetType',
           \A l \in Links : \A p \in On(net', l) : p.kind = "update" => p \in On(net, l)
    PROVE  Agreeing'
<1>1. OriginType' /\ SourcesType'
    BY Zenon DEF Agreeing, OriginType, SourcesType, origin
<1>2. Tables'
    <2>1. TableType'
        BY Zenon DEF Agreeing, Tables, TableType, RoutesType, Keyed
    <2>2. SelectionHolds' /\ Forgotten'
        BY Zenon DEF Agreeing, Tables, SelectionHolds, Forgotten, Chosen, Feasible, Known
    <2>3. ForwardingAgrees'
        BY Zenon DEF Agreeing, Tables, ForwardingAgrees, Known, origin
    <2> QED
        BY <2>1, <2>2, <2>3, Zenon DEF Tables
<1>3. Bounds'
    <2>1. ASSUME NEW i \in Router, NEW j \in Neighbors[i]
          PROVE  /\ Bounded(sources', i, routes'[j][i])
                 /\ \A p \in On(net', <<i, j>>) : p.kind = "update" => Bounded(sources', i, p)
        <3>1. <<i, j>> \in Links
            BY BabelAssumption, Zenon DEF Links
        <3>2. sources' = sources /\ routes' = routes
            BY Zenon
        <3> QED
            BY <3>1, <3>2, Zenon DEF Agreeing, Bounds
    <2> QED
        BY <2>1, Zenon DEF Bounds, Bounded, Better, On
<1> QED
    BY <1>1, <1>2, <1>3, Zenon DEF Agreeing

\* The world only moves on.
LEMMA WorldAges ==
    ASSUME WorldType, UNCHANGED <<linkCost, session>>, events' \in events..Budget
    PROVE  WorldType'
<1>1. events \in 0..Budget /\ Budget \in Nat
    BY BabelAssumption, Zenon DEF WorldType
<1>2. 0..events \subseteq 0..events' /\ events' \in 0..Budget
    BY <1>1
<1> QED
    BY <1>2, Zenon DEF WorldType, Keyed

LEMMA Spends ==
    ASSUME WorldType, NEW kind, Spend(kind)
    PROVE  events' = events + 1 /\ events' \in events..Budget
    BY BabelAssumption DEF Spend, WorldType

\* advertiseTo, in whatever handler.
LEMMA AdvertisingKeeps ==
    ASSUME Agreeing, NEW i \in Router, NEW targets \in SUBSET Neighbors[i],
           NEW force \in BOOLEAN, NEW cleared, NEW n, Left(n), OriginType',
           Advertise(i, targets, force, cleared, n), dirty' \subseteq Router, WorldType',
           UNCHANGED <<originate, routes, selected, retractID, forwarding, requests>>
    PROVE  Agreeing'
<1>1. SourcesType' /\ ToldType' /\ NetType' /\ SelectionHolds' /\ Bounds'
    <2>1. originSeqno'[i] \in Seqno
        BY Zenon DEF OriginType
    <2> QED
        BY <2>1, AdvertiseKeeps, Zenon
<1>2. RequestType'
    BY Zenon DEF Agreeing, RequestType, requests
<1>3. TableType'
    BY Zenon DEF Agreeing, Tables, TableType, RoutesType, Keyed
<1>4. Forgotten' /\ ForwardingAgrees'
    BY Zenon DEF Agreeing, Tables, Forgotten, ForwardingAgrees, Known
<1> QED
    BY <1>1, <1>2, <1>3, <1>4, Zenon DEF Agreeing, Tables

\* selectRoute, in whatever handler.
LEMMA SelectingKeeps ==
    ASSUME Agreeing, NEW i \in Router, ~originate[i],
           NEW rts \in [Neighbors[i] -> Advertisement \cup {NoRoute}],
           NEW lc \in [Neighbors[i] -> LinkCosts \cup {Infinity}],
           \A j \in Neighbors[i] : Bounded(sources, j, rts[j]),
           NEW also \in SUBSET Neighbors[i],
           \A j \in also : rts[j] \in Advertisement /\ rts[j].metric # Infinity,
           NEW d \in SUBSET Router, NEW n, Left(n), SelectRoute(i, rts, lc, also, d, n),
           UNCHANGED <<origin, sources>>, WorldType', ToldType'
    PROVE  Agreeing'
<1>1. UNCHANGED <<originate, sources>>
    BY Zenon DEF origin
<1>2. Tables' /\ RequestType' /\ NetType' /\ Bounds'
    BY <1>1, SelectRouteKeeps, Zenon
<1>3. OriginType' /\ SourcesType'
    BY Zenon DEF Agreeing, OriginType, SourcesType, origin
<1> QED
    BY <1>2, <1>3, Zenon DEF Agreeing

\* What a speaker stores, it may go on storing.
LEMMA Stored ==
    ASSUME Agreeing, NEW i \in Router
    PROVE  /\ routes[i] \in [Neighbors[i] -> Advertisement \cup {NoRoute}]
           /\ linkCost[i] \in [Neighbors[i] -> LinkCosts \cup {Infinity}]
           /\ \A j \in Neighbors[i] : Bounded(sources, j, routes[i][j])
           /\ \A j : \A a : a = NoRoute \/ a.metric = Infinity => Bounded(sources, j, a)
           /\ (\E j \in Neighbors[i] : routes[i][j] # NoRoute) => ~originate[i]
<1>1. routes[i] \in [Neighbors[i] -> Advertisement \cup {NoRoute}]
      /\ linkCost[i] \in [Neighbors[i] -> LinkCosts \cup {Infinity}]
    BY Zenon DEF Agreeing, Tables, TableType, RoutesType, WorldType
<1>2. \A j \in Neighbors[i] : Bounded(sources, j, routes[i][j])
    <2>1. \A j \in Neighbors[i] : j \in Router /\ i \in Neighbors[j]
        BY BabelAssumption, Zenon
    <2> QED
        BY <2>1, Zenon DEF Agreeing, Bounds
<1>3. ASSUME NEW j, NEW a, a = NoRoute \/ a.metric = Infinity PROVE Bounded(sources, j, a)
    <2>1. a.metric \notin 0..(Infinity - 1)
        BY <1>3, BabelAssumption DEF NoRoute
    <2> QED
        BY <2>1, Zenon DEF Bounded
<1>4. (\E j \in Neighbors[i] : routes[i][j] # NoRoute) => ~originate[i]
    BY Zenon DEF Agreeing, Tables, ForwardingAgrees, Known
<1> QED
    BY <1>1, <1>2, <1>3, <1>4, Zenon

LEMMA AdvertisingSteps ==
    ASSUME Agreeing, NEW i \in Router, Update(i) \/ Triggered(i)
    PROVE  Agreeing'
<1>1. Left(net) /\ WorldType
    BY NetLeft, Zenon DEF Agreeing
<1>2. FALSE \in BOOLEAN /\ dirty \ {i} \in SUBSET Router /\ dirty \subseteq Router
    BY Zenon DEF Agreeing, Tables, TableType
<1>3. CASE Update(i)
    <2>1. /\ Advertise(i, Neighbors[i], FALSE, Neighbors[i], net) /\ dirty' = dirty \ {i}
          /\ UNCHANGED <<originate, originSeqno, routes, selected, retractID, forwarding, requests,
                         linkCost, session>>
          /\ UNCHANGED events \/ Spend("dump")
        BY <1>3, Zenon DEF Update, origin
    <2>2. WorldType'
        <3>1. events' \in events..Budget
            BY <1>1, <2>1, Spends DEF WorldType
        <3> QED
            BY <1>1, <2>1, <3>1, WorldAges, Zenon
    <2>3. OriginType' /\ Neighbors[i] \in SUBSET Neighbors[i] /\ dirty' \subseteq Router
        BY <1>2, <2>1, Zenon DEF Agreeing, OriginType
    <2> QED
        BY <1>1, <1>2, <2>1, <2>2, <2>3, AdvertisingKeeps, Zenon
<1>4. CASE Triggered(i)
    <2> DEFINE targets == IF i \in dirty THEN Neighbors[i] ELSE owed[i]
    <2>1. /\ Advertise(i, targets, FALSE, targets, net) /\ dirty' = dirty \ {i}
          /\ UNCHANGED <<originate, originSeqno, routes, selected, retractID, forwarding, requests,
                         linkCost, session, events>>
        BY <1>4, Zenon DEF Triggered, origin, world
    <2>2. WorldType'
        BY <1>1, <2>1, Zenon DEF WorldType, Keyed
    <2>3. OriginType' /\ targets \in SUBSET Neighbors[i] /\ dirty' \subseteq Router
        BY <1>2, <2>1, Zenon DEF Agreeing, OriginType, ToldType
    <2> HIDE DEF targets
    <2> QED
        BY <1>1, <1>2, <2>1, <2>2, <2>3, AdvertisingKeeps, Zenon
<1> QED
    BY <1>3, <1>4, Zenon

LEMMA RouteRequestedKeeps ==
    ASSUME Agreeing, NEW i \in Router, NEW j, RouteRequested(i, j)
    PROVE  Agreeing'
<1>1. /\ j \in Neighbors[i] /\ Spend("request") /\ Advertise(i, {j}, TRUE, {}, net)
      /\ UNCHANGED <<originate, originSeqno, routes, selected, retractID, dirty, forwarding,
                     requests, linkCost, session>>
    BY Zenon DEF RouteRequested, origin, table
<1>2. Left(net) /\ WorldType
    BY NetLeft, Zenon DEF Agreeing
<1>3. WorldType'
    BY <1>1, <1>2, Spends, WorldAges, Zenon
<1>4. OriginType' /\ {j} \in SUBSET Neighbors[i] /\ dirty' \subseteq Router /\ TRUE \in BOOLEAN
    BY <1>1, Zenon DEF Agreeing, OriginType, Tables, TableType
<1> QED
    BY <1>1, <1>2, <1>3, <1>4, AdvertisingKeeps, Zenon

\* A request is answered with what is known.
LEMMA AnsweringSteps ==
    ASSUME Agreeing, NEW i \in Router, NEW j \in Neighbors[i], NEW k \in DOMAIN net[<<j, i>>],
           RaiseSeqno(i, j, k) \/ AnswerRequest(i, j, k)
    PROVE  Agreeing'
<1>1. <<j, i>> \in Links /\ MaxSeqno \in Nat
    BY BabelAssumption DEF Links
<1>2. Left(Taken(net, i, j, k)) /\ TRUE \in BOOLEAN /\ {j} \in SUBSET Neighbors[i]
    BY <1>1, TakenLeft, Zenon DEF Agreeing
<1>3. CASE RaiseSeqno(i, j, k)
    <2>1. /\ \/ originSeqno' = [originSeqno EXCEPT ![i] = originSeqno[i] + 1]
                /\ originSeqno[i] < MaxSeqno
             \/ originSeqno' = [originSeqno EXCEPT ![i] = originSeqno[i]]
          /\ dirty' \in {dirty, dirty \cup {i}}
          /\ Advertise(i, {j}, TRUE, {}, Taken(net, i, j, k))
          /\ UNCHANGED <<originate, routes, selected, retractID, forwarding, requests,
                         linkCost, session, events>>
        BY <1>3, Zenon DEF RaiseSeqno, world
    <2>2. OriginType'
        BY <1>1, <2>1 DEF Agreeing, OriginType, Seqno
    <2>3. WorldType'
        BY <2>1, Zenon DEF Agreeing, WorldType, Keyed
    <2>4. dirty' \subseteq Router
        BY <2>1, Zenon DEF Agreeing, Tables, TableType
    <2> QED
        BY <1>2, <2>1, <2>2, <2>3, <2>4, AdvertisingKeeps, Zenon
<1>4. CASE AnswerRequest(i, j, k)
    <2>1. /\ Advertise(i, {j}, TRUE, {}, Taken(net, i, j, k))
          /\ UNCHANGED <<originate, originSeqno, routes, selected, retractID, dirty, forwarding,
                         requests, linkCost, session, events>>
        BY <1>4, Zenon DEF AnswerRequest, origin, table, world
    <2>2. OriginType' /\ WorldType' /\ dirty' \subseteq Router
        BY <2>1, Zenon DEF Agreeing, OriginType, WorldType, Keyed, Tables, TableType
    <2> QED
        BY <1>2, <2>1, <2>2, AdvertisingKeeps, Zenon
<1> QED
    BY <1>3, <1>4, Zenon

LEMMA SweepKeeps ==
    ASSUME Agreeing, NEW i \in Router, Sweep(i)
    PROVE  Agreeing'
<1>1. /\ Known(i) /\ SelectRoute(i, routes[i], linkCost[i], {}, dirty, net)
      /\ UNCHANGED <<origin, sources, advertised, owed, linkCost, session, events>>
    BY Zenon DEF Sweep, told, world
<1>2. WorldType' /\ ToldType'
    BY <1>1, Zenon DEF Agreeing, WorldType, ToldType, Keyed
<1>3. Left(net) /\ dirty \in SUBSET Router /\ {} \in SUBSET Neighbors[i] /\ UNCHANGED <<origin, sources>>
    BY <1>1, NetLeft, Zenon DEF Agreeing, Tables, TableType
<1>4. ~originate[i]
    BY <1>1, Stored, Zenon DEF Known
<1> QED
    BY <1>1, <1>2, <1>3, <1>4, Stored, SelectingKeeps, Zenon

LEMMA ExpireKeeps ==
    ASSUME Agreeing, NEW i \in Router, NEW j, Expire(i, j)
    PROVE  Agreeing'
<1> DEFINE old == routes[i][j]
           new == IF old.metric = Infinity THEN NoRoute ELSE [old EXCEPT !.metric = Infinity]
           rts == [routes[i] EXCEPT ![j] = new]
<1>1. /\ j \in Neighbors[i] /\ old # NoRoute
      /\ UNCHANGED events \/ Spend("expiry")
      /\ SelectRoute(i, rts, linkCost[i], {}, dirty, net)
      /\ UNCHANGED <<origin, sources, advertised, owed, linkCost, session>>
    BY Zenon DEF Expire, told
<1>2. WorldType'
    <2>1. events' \in events..Budget
        BY <1>1, Spends, BabelAssumption DEF Agreeing, WorldType
    <2> QED
        BY <1>1, <2>1, WorldAges, Zenon DEF Agreeing
<1>3. new \in Advertisement \cup {NoRoute} /\ Bounded(sources, j, new)
    <2>1. old \in Advertisement
        BY <1>1, Stored, Zenon
    <2>2. old = [id |-> old.id, seqno |-> old.seqno, metric |-> old.metric]
          /\ old.id \in Router \cup {Nobody} /\ old.seqno \in 0..MaxSeqno
        BY <2>1, Advertised, Zenon
    <2> HIDE DEF old
    <2>3. [old EXCEPT !.metric = Infinity] = [id |-> old.id, seqno |-> old.seqno, metric |-> Infinity]
        BY <2>2
    <2>4. [id |-> old.id, seqno |-> old.seqno, metric |-> Infinity] \in Advertisement
        BY <2>2, AdvertisementIs, Zenon
    <2>5. [id |-> old.id, seqno |-> old.seqno, metric |-> Infinity].metric = Infinity
        BY Zenon
    <2>6. new = NoRoute \/ new = [id |-> old.id, seqno |-> old.seqno, metric |-> Infinity]
        BY <2>3, ZenonT(30)
    <2> HIDE DEF new
    <2> QED
        BY <2>4, <2>5, <2>6, Stored, Zenon
<1> HIDE DEF new
<1>4. rts \in [Neighbors[i] -> Advertisement \cup {NoRoute}]
      /\ \A h \in Neighbors[i] : Bounded(sources, h, rts[h])
    BY <1>1, <1>3, Stored, Zenon
<1>5. ToldType'
    BY <1>1, Zenon DEF Agreeing, ToldType
<1>6. Left(net) /\ dirty \in SUBSET Router /\ {} \in SUBSET Neighbors[i] /\ UNCHANGED <<origin, sources>>
    BY <1>1, NetLeft, Zenon DEF Agreeing, Tables, TableType
<1>7. ~originate[i]
    BY <1>1, Stored, Zenon
<1> HIDE DEF rts
<1> QED
    BY <1>1, <1>2, <1>4, <1>5, <1>6, <1>7, Stored, SelectingKeeps, Zenon

LEMMA LinkChangesKeeps ==
    ASSUME Agreeing, NEW i \in Router, NEW j, NEW c \in LinkCosts \cup {Infinity},
           LinkChanges(i, j, c)
    PROVE  Agreeing'
<1>1. /\ j \in Neighbors[i] /\ Spend("link")
      /\ linkCost' = [linkCost EXCEPT ![i][j] = c]
      /\ \/ UNCHANGED <<table, requests, net>>
         \/ routes[i][j] # NoRoute /\ SelectRoute(i, routes[i], linkCost'[i], {}, dirty, net)
      /\ UNCHANGED <<origin, sources, advertised, owed, session>>
    BY Zenon DEF LinkChanges, told
<1>2. linkCost'[i] \in [Neighbors[i] -> LinkCosts \cup {Infinity}] /\ Keyed(linkCost)'
      /\ \A h \in Router : linkCost'[h] \in [Neighbors[h] -> LinkCosts \cup {Infinity}]
    BY <1>1, Zenon DEF Agreeing, WorldType, Keyed
<1>3. WorldType'
    <2>1. events' \in events..Budget /\ events \in 0..Budget /\ Budget \in Nat
        BY <1>1, Spends, BabelAssumption, Zenon DEF Agreeing, WorldType
    <2>2. 0..events \subseteq 0..events' /\ events' \in 0..Budget
        BY <2>1
    <2> QED
        BY <1>1, <1>2, <2>2, Zenon DEF Agreeing, WorldType, Keyed
<1>4. ToldType'
    BY <1>1, Zenon DEF Agreeing, ToldType
<1>5. Left(net) /\ dirty \in SUBSET Router /\ {} \in SUBSET Neighbors[i] /\ UNCHANGED <<origin, sources>>
    BY <1>1, NetLeft, Zenon DEF Agreeing, Tables, TableType
<1>6. CASE UNCHANGED <<table, requests, net>>
    <2>1. UNCHANGED <<origin, routes, selected, retractID, forwarding, sources>> /\ UNCHANGED net
          /\ dirty' \subseteq Router
        BY <1>1, <1>5, <1>6, Zenon DEF table
    <2>2. RequestType' /\ NetType'
        BY <1>6, Zenon DEF Agreeing, RequestType, NetType, requests
    <2> QED
        BY <1>3, <1>4, <2>1, <2>2, RestKeeps, Zenon
<1>7. CASE routes[i][j] # NoRoute /\ SelectRoute(i, routes[i], linkCost'[i], {}, dirty, net)
    <2>1. ~originate[i]
        BY <1>1, <1>7, Stored, Zenon
    <2> QED
        BY <1>2, <1>3, <1>4, <1>5, <1>7, <2>1, Stored, SelectingKeeps, Zenon
<1> QED
    BY <1>1, <1>6, <1>7, Zenon

LEMMA ReplacePeerKeeps ==
    ASSUME Agreeing, NEW i \in Router, NEW j, ReplacePeer(i, j)
    PROVE  Agreeing'
<1> DEFINE rts == [routes[i] EXCEPT ![j] = NoRoute]
<1>1. /\ j \in Neighbors[i] /\ Spend("session")
      /\ session' = [session EXCEPT ![i][j] = session[i][j] + 1]
      /\ linkCost' = [linkCost EXCEPT ![i][j] = Infinity]
      /\ advertised' = [advertised EXCEPT ![i] = advertised[i] \ {j}]
      /\ owed' = [owed EXCEPT ![i] = owed[i] \ {j}]
      /\ \/ /\ dirty' = dirty \cup {i}
            /\ UNCHANGED <<routes, selected, retractID, forwarding, requests, net>>
         \/ routes[i][j] # NoRoute /\ SelectRoute(i, rts, linkCost[i], {}, dirty \cup {i}, net)
      /\ UNCHANGED <<origin, sources>>
    BY Zenon DEF ReplacePeer, Agreeing, WorldType, ToldType, Keyed
<1>2. WorldType'
    <2>1. events' = events + 1 /\ events' \in events..Budget /\ events \in 0..Budget /\ Budget \in Nat
        BY <1>1, Spends, BabelAssumption, Zenon DEF Agreeing, WorldType
    <2>2. 0..events \subseteq 0..events' /\ events' \in 0..Budget
        BY <2>1
    <2>3. session[i][j] + 1 \in 0..events'
        BY <1>1, <2>1 DEF Agreeing, WorldType
    <2>4. Keyed(session)' /\ \A h \in Router : session'[h] \in [Neighbors[h] -> 0..events']
        BY <1>1, <2>2, <2>3, Zenon DEF Agreeing, WorldType, Keyed
    <2>5. Keyed(linkCost)' /\ \A h \in Router :
              linkCost'[h] \in [Neighbors[h] -> LinkCosts \cup {Infinity}]
        BY <1>1, Zenon DEF Agreeing, WorldType, Keyed
    <2> QED
        BY <2>2, <2>4, <2>5, Zenon DEF WorldType
<1>3. ToldType'
    BY <1>1, Zenon DEF Agreeing, ToldType
<1>4. Left(net) /\ dirty \cup {i} \in SUBSET Router /\ {} \in SUBSET Neighbors[i]
    BY NetLeft, Zenon DEF Agreeing, Tables, TableType
<1>5. CASE dirty' = dirty \cup {i}
           /\ UNCHANGED <<routes, selected, retractID, forwarding, requests, net>>
    <2>1. UNCHANGED <<origin, routes, selected, retractID, forwarding, sources>> /\ UNCHANGED net
          /\ dirty' \subseteq Router
        BY <1>1, <1>4, <1>5, Zenon
    <2>2. RequestType' /\ NetType'
        BY <1>5, Zenon DEF Agreeing, RequestType, NetType, requests
    <2> QED
        BY <1>2, <1>3, <2>1, <2>2, RestKeeps, Zenon
<1>6. CASE routes[i][j] # NoRoute /\ SelectRoute(i, rts, linkCost[i], {}, dirty \cup {i}, net)
    <2>1. ~originate[i]
        BY <1>1, <1>6, Stored, Zenon
    <2>2. rts \in [Neighbors[i] -> Advertisement \cup {NoRoute}]
          /\ \A h \in Neighbors[i] : Bounded(sources, h, rts[h])
        BY <1>1, Stored, Zenon
    <2> HIDE DEF rts
    <2> QED
        BY <1>1, <1>2, <1>3, <1>4, <1>6, <2>1, <2>2, Stored, SelectingKeeps, Zenon
<1> QED
    BY <1>1, <1>5, <1>6, Zenon

LEMMA LearnRouteKeeps ==
    ASSUME Agreeing, NEW i \in Router, NEW j \in Neighbors[i], NEW k \in DOMAIN net[<<j, i>>],
           LearnRoute(i, j, k)
    PROVE  Agreeing'
<1> DEFINE p == net[<<j, i>>][k]
           new == [id |-> p.id, seqno |-> p.seqno, metric |-> p.metric]
           rts == [routes[i] EXCEPT ![j] = new]
           also == IF selected[i].via = j /\ ~Feasible(i, p) THEN {j} ELSE {}
<1>1. /\ p.kind = "update" /\ ~originate[i]
      /\ SelectRoute(i, rts, linkCost[i], also, dirty, Taken(net, i, j, k))
      /\ UNCHANGED <<origin, sources, advertised, owed, linkCost, session, events>>
    BY Zenon DEF LearnRoute, Ignores, told, world
<1>2. <<j, i>> \in Links /\ j \in Router /\ i \in Neighbors[j] /\ Infinity \in Nat
    BY BabelAssumption, Zenon DEF Links
<1>3. p \in Packet /\ p \in On(net, <<j, i>>)
    BY <1>2, SMTT(30) DEF On, Agreeing, NetType
<1>4. new \in Advertisement /\ new.metric = p.metric
    BY <1>1, <1>2, <1>3, Zenon DEF Packet, Advertisement
<1>5. Bounded(sources, j, new)
    <2>1. Bounded(sources, j, p)
        BY <1>1, <1>2, <1>3, Zenon DEF Agreeing, Bounds
    <2>2. new.id = p.id /\ new.seqno = p.seqno /\ new.metric = p.metric
        BY Zenon
    <2> HIDE DEF p, new
    <2> QED
        BY <2>1, <2>2, Zenon DEF Bounded
<1>6. also \in SUBSET Neighbors[i] /\ \A h \in also : h = j /\ p.metric # Infinity
    BY ZenonT(30) DEF Feasible
<1> HIDE DEF p, new, also
<1>7. /\ rts \in [Neighbors[i] -> Advertisement \cup {NoRoute}]
      /\ \A h \in Neighbors[i] : Bounded(sources, h, rts[h])
      /\ \A h \in also : rts[h] \in Advertisement /\ rts[h].metric # Infinity
    BY <1>4, <1>5, <1>6, Stored, Zenon
<1>8. WorldType' /\ ToldType'
    BY <1>1, Zenon DEF Agreeing, WorldType, ToldType, Keyed
<1>9. Left(Taken(net, i, j, k)) /\ dirty \in SUBSET Router /\ UNCHANGED <<origin, sources>>
    BY <1>1, <1>2, TakenLeft, Zenon DEF Agreeing, Tables, TableType
<1> HIDE DEF rts
<1> QED
    BY <1>1, <1>6, <1>7, <1>8, <1>9, Stored, SelectingKeeps, Zenon

LEMMA SetOriginatedKeeps ==
    ASSUME Agreeing, NEW i \in Router, SetOriginated(i)
    PROVE  Agreeing'
<1>1. /\ Spend("origin") /\ originate' = [originate EXCEPT ![i] = ~originate[i]]
      /\ dirty' = dirty \cup {i}
      /\ routes' = [routes EXCEPT ![i] = [j \in Neighbors[i] |-> NoRoute]]
      /\ selected' = [selected EXCEPT ![i] = Unselected]
      /\ retractID' = [retractID EXCEPT ![i] = Nobody]
      /\ forwarding' = [forwarding EXCEPT ![i] = IF originate[i] THEN Nobody ELSE Unreachable]
      /\ UNCHANGED <<originSeqno, sources, advertised, owed, requests, linkCost, session, net>>
    BY Zenon DEF SetOriginated, told, Agreeing, Tables, TableType, RoutesType, Keyed
<1>2. WorldType' /\ ToldType' /\ RequestType' /\ NetType' /\ SourcesType' /\ OriginType'
    <2>1. WorldType'
        BY <1>1, Spends, WorldAges, Zenon DEF Agreeing
    <2>2. OriginType'
        BY <1>1, Zenon DEF Agreeing, OriginType
    <2> QED
        BY <1>1, <2>1, <2>2, Zenon DEF Agreeing, ToldType, RequestType, NetType, SourcesType, requests
<1>3. TableType'
    <2>1. RoutesType'
        BY <1>1, Zenon DEF Agreeing, Tables, TableType, RoutesType, Keyed
    <2> QED
        BY <1>1, <2>1, Zenon DEF Agreeing, Tables, TableType
<1>4. \A h \in Router : h # i => routes'[h] = routes[h] /\ selected'[h] = selected[h]
          /\ retractID'[h] = retractID[h] /\ forwarding'[h] = forwarding[h]
          /\ originate'[h] = originate[h]
    BY <1>1, Zenon DEF Agreeing, Tables, TableType, RoutesType, Keyed, OriginType
<1>5. routes'[i] = [j \in Neighbors[i] |-> NoRoute] /\ selected'[i] = Unselected
      /\ retractID'[i] = Nobody /\ originate'[i] = ~originate[i]
      /\ forwarding'[i] = IF originate[i] THEN Nobody ELSE Unreachable
    BY <1>1, Zenon DEF Agreeing, Tables, TableType, RoutesType, Keyed, OriginType
<1>6. ~Known(i)' /\ \A h \in Router : h # i => (Known(h)' <=> Known(h))
    BY <1>4, <1>5 DEF Known
<1>7. SelectionHolds'
    <2> SUFFICES ASSUME NEW h \in Router, selected'[h].via # Nobody
                 PROVE  Chosen(h, routes[h], selected[h])'
        BY Zenon DEF SelectionHolds
    <2>1. h # i
        BY <1>5 DEF Unselected
    <2>2. Chosen(h, routes[h], selected[h])
        BY <1>4, <2>1, Zenon DEF Agreeing, Tables, SelectionHolds
    <2> QED
        BY <1>1, <1>4, <2>1, <2>2, Zenon DEF Chosen, Feasible
<1>8. Forgotten'
    BY <1>4, <1>5, <1>6, Zenon DEF Agreeing, Tables, Forgotten
<1>9. ForwardingAgrees'
    <2> SUFFICES ASSUME NEW h \in Router
                 PROVE  /\ originate'[h] => forwarding'[h] = Unreachable /\ ~Known(h)'
                        /\ selected'[h].via # Nobody => forwarding'[h] = selected'[h].via
                        /\ selected'[h].via = Nobody => forwarding'[h] \in {Nobody, Unreachable}
                        /\ Known(h)' /\ retractID'[h] # Nobody => forwarding'[h] # Nobody
                        /\ ~Known(h)' /\ ~originate'[h] => forwarding'[h] = Nobody
        BY Zenon DEF ForwardingAgrees
    <2>1. CASE h = i
        <3>1. Unselected.via = Nobody
            BY Zenon DEF Unselected
        <3> QED
            BY <1>5, <1>6, <2>1, <3>1, Zenon
    <2>2. CASE h # i
        BY <1>4, <1>6, <2>2, Zenon DEF Agreeing, Tables, ForwardingAgrees
    <2> QED
        BY <2>1, <2>2, Zenon
<1>10. Bounds'
    <2>1. ASSUME NEW h \in Router, NEW j \in Neighbors[h]
          PROVE  /\ Bounded(sources', h, routes'[j][h])
                 /\ \A p \in On(net', <<h, j>>) : p.kind = "update" => Bounded(sources', h, p)
        <3>1. sources' = sources /\ net' = net /\ j \in Router /\ h \in Neighbors[j]
            BY <1>1, BabelAssumption, Zenon
        <3>2. CASE j = i
            BY <1>5, <3>1, <3>2, Stored, Zenon DEF Agreeing, Bounds
        <3>3. CASE j # i
            BY <1>4, <3>1, <3>3, Zenon DEF Agreeing, Bounds
        <3> QED
            BY <3>2, <3>3, Zenon
    <2> QED
        BY <2>1, Zenon DEF Bounds, Bounded, Better, On
<1> QED
    BY <1>2, <1>3, <1>7, <1>8, <1>9, <1>10, Zenon DEF Agreeing, Tables

\* A distance is collected when no neighbor holds, or is about to hold, a route
\* that rests on it; without GcOutlivesHold it is not.
LEMMA SweepSourcesKeeps ==
    ASSUME Agreeing, GcOutlivesHold, NEW i \in Router, NEW r \in Router, SweepSources(i, r)
    PROVE  Agreeing'
<1>1. /\ \A j \in Neighbors[i] : routes[j][i].id # r \/ routes[j][i].metric = Infinity
      /\ \A j \in Neighbors[i] : \A k \in DOMAIN net[<<i, j>>] :
             net[<<i, j>>][k].kind = "request" \/ net[<<i, j>>][k].id # r
      /\ Spend("gc") /\ sources' = [sources EXCEPT ![i][r] = NoSource]
      /\ UNCHANGED <<originate, originSeqno, routes, selected, retractID, dirty, forwarding,
                     advertised, owed, requests, linkCost, session, net>>
    BY Zenon DEF SweepSources, origin, table
<1>2. SourcesType' /\ sources'[i][r] = NoSource
      /\ \A h, q \in Router : h # i \/ q # r => sources'[h][q] = sources[h][q]
    BY <1>1, Zenon DEF Agreeing, SourcesType
<1>3. WorldType' /\ OriginType' /\ ToldType' /\ RequestType' /\ NetType'
    <2>1. WorldType'
        BY <1>1, Spends, WorldAges, Zenon DEF Agreeing
    <2> QED
        BY <1>1, <2>1, Zenon DEF Agreeing, OriginType, ToldType, RequestType, NetType, requests
<1>4. TableType' /\ Forgotten' /\ ForwardingAgrees'
    <2>1. TableType'
        BY <1>1, Zenon DEF Agreeing, Tables, TableType, RoutesType, Keyed
    <2>2. Forgotten' /\ ForwardingAgrees'
        BY <1>1, Zenon DEF Agreeing, Tables, Forgotten, ForwardingAgrees, Known
    <2> QED
        BY <2>1, <2>2, Zenon
<1>5. SelectionHolds'
    <2> SUFFICES ASSUME NEW h \in Router, selected[h].via # Nobody
                 PROVE  Chosen(h, routes[h], selected[h])'
        BY <1>1, Zenon DEF SelectionHolds
    <2> DEFINE rt == routes[h][selected[h].via]
    <2>1. Chosen(h, routes[h], selected[h])
        BY Zenon DEF Agreeing, Tables, SelectionHolds
    <2>2. rt.id \in Router
        BY <2>1, Zenon DEF Chosen, Selection
    <2>3. sources'[h][rt.id] = sources[h][rt.id] \/ sources'[h][rt.id] = NoSource
        <3> HIDE DEF rt
        <3> QED
            BY <1>2, <2>2, Zenon
    <2>4. Feasible(h, rt)'
        BY <1>1, <2>1, <2>3, Zenon DEF Feasible, Chosen
    <2> QED
        BY <1>1, <2>1, <2>4, Zenon DEF Chosen
<1>6. Bounds'
    <2>1. ASSUME NEW h \in Router, NEW a, a.metric \in 0..(Infinity - 1) => a.id \in Router,
                 Bounded(sources, h, a), h = i => a.id # r \/ a.metric \notin 0..(Infinity - 1)
          PROVE  Bounded(sources', h, a)
        BY <1>2, <2>1, Zenon DEF Bounded
    <2>2. ASSUME NEW h \in Router, NEW j \in Neighbors[h]
          PROVE  /\ Bounded(sources', h, routes[j][h])
                 /\ \A p \in On(net, <<h, j>>) : p.kind = "update" => Bounded(sources', h, p)
        <3>1. j \in Router /\ h \in Neighbors[j] /\ <<h, j>> \in Links /\ Infinity \in Nat
            BY BabelAssumption, Zenon DEF Links
        <3>2. Bounded(sources', h, routes[j][h])
            <4>1. routes[j][h] \in Advertisement \cup {NoRoute}
                BY <3>1, Zenon DEF Agreeing, Tables, TableType, RoutesType
            <4>2. routes[j][h].metric \in 0..(Infinity - 1) =>
                      routes[j][h].id \in Router /\ routes[j][h].metric # Infinity
                BY <3>1, <4>1, Advertised DEF NoRoute
            <4>3. Bounded(sources, h, routes[j][h])
                BY Zenon DEF Agreeing, Bounds
            <4> QED
                BY <1>1, <2>1, <4>2, <4>3, Zenon
        <3>3. ASSUME NEW p \in On(net, <<h, j>>), p.kind = "update"
              PROVE  Bounded(sources', h, p)
            <4>1. p \in Packet
                BY <3>1, SMTT(30) DEF On, Agreeing, NetType
            <4>2. p.metric \in 0..(Infinity - 1) => p.id \in Router
                BY <3>1, <3>3, <4>1 DEF Packet
            <4>3. Bounded(sources, h, p)
                BY <3>3, Zenon DEF Agreeing, Bounds
            <4>4. h = i => p.id # r
                <5>1. "update" # "request"
                    BY Zenon
                <5> QED
                    BY <1>1, <3>3, <5>1, ZenonT(30) DEF On
            <4> QED
                BY <2>1, <4>2, <4>3, <4>4, Zenon
        <3> QED
            BY <3>2, <3>3, Zenon
    <2>3. routes' = routes /\ net' = net
        BY <1>1, Zenon
    <2> QED
        BY <2>2, <2>3, Zenon DEF Bounds, Bounded, Better, On
<1> QED
    BY <1>2, <1>3, <1>4, <1>5, <1>6, Zenon DEF Agreeing, Tables

\* A network that has only lost a packet carries nothing new.
LEMMA TakenKeepsNet ==
    ASSUME NetType, NEW i, NEW j, <<j, i>> \in Links, NEW k \in DOMAIN net[<<j, i>>],
           net' = Taken(net, i, j, k)
    PROVE  NetType' /\ \A l \in Links : \A p \in On(net', l) : p.kind = "update" => p \in On(net, l)
<1>1. Left(net')
    BY TakenLeft, Zenon
<1>2. net' \in [Links -> Seq(Packet)]
    BY <1>1, Zenon DEF Left
<1>3. ASSUME NEW l \in Links PROVE Len(net'[l]) <= Capacity
    <2>1. Len(net[l]) <= Capacity /\ Len(net'[l]) <= Len(net[l])
          /\ net[l] \in Seq(Packet) /\ net'[l] \in Seq(Packet)
        BY <1>1, Zenon DEF Left
    <2> QED
        BY <2>1, BabelAssumption
<1> QED
    BY <1>1, <1>2, <1>3, ZenonT(30) DEF Left, NetType

\* A packet leaves its link, lost, retired or of no use.
LEMMA TakingKeeps ==
    ASSUME Agreeing, NEW i \in Router, NEW j \in Neighbors[i], NEW k \in DOMAIN net[<<j, i>>],
           Lose(i, j, k) \/ DropRetired(i, j, k) \/ IgnoreUpdate(i, j, k)
    PROVE  Agreeing'
<1>1. /\ net' = Taken(net, i, j, k)
      /\ UNCHANGED <<origin, routes, selected, retractID, dirty, forwarding, sources, advertised,
                     owed, asked, pending, retries, linkCost, session>>
      /\ UNCHANGED events \/ Spend("loss")
    BY Zenon DEF Lose, DropRetired, IgnoreUpdate, table, told, requests, world
<1>2. <<j, i>> \in Links
    BY BabelAssumption, Zenon DEF Links
<1>3. NetType' /\ \A l \in Links : \A p \in On(net', l) : p.kind = "update" => p \in On(net, l)
    BY <1>1, <1>2, TakenKeepsNet, Zenon DEF Agreeing
<1>4. WorldType'
    <2>1. events' \in events..Budget
        BY <1>1, Spends, BabelAssumption, SMTT(30) DEF Agreeing, WorldType
    <2> QED
        BY <1>1, <2>1, WorldAges, ZenonT(30) DEF Agreeing
<1>5. ToldType' /\ RequestType' /\ dirty' \subseteq Router
      /\ UNCHANGED <<origin, routes, selected, retractID, forwarding, sources>>
    BY <1>1, Zenon DEF Agreeing, ToldType, RequestType, Tables, TableType
<1> QED
    BY <1>3, <1>4, <1>5, RestKeeps, ZenonT(30)

\* The next pass of Run gives back what a lost packet had spent.
LEMMA SendFailsKeeps ==
    ASSUME Agreeing, NEW i \in Router, NEW j \in Neighbors[i], NEW k \in DOMAIN net[<<i, j>>],
           SendFails(i, j, k)
    PROVE  Agreeing'
<1>1. /\ net' = Taken(net, j, i, k) /\ Spend("fail")
      /\ UNCHANGED <<origin, routes, selected, retractID, dirty, forwarding, sources, asked,
                     pending, retries, linkCost, session>>
      /\ \E now \in {advertised[i] \cup {j}, advertised[i]} :
             advertised' = [advertised EXCEPT ![i] = now]
      /\ owed' = [owed EXCEPT ![i] = owed[i] \cup {j}] \/ owed' = owed
    BY Zenon DEF SendFails, table, requests, Agreeing, ToldType
<1>2. <<i, j>> \in Links /\ Neighbors[i] \subseteq Router
    BY BabelAssumption, Zenon DEF Links
<1>3. NetType' /\ \A l \in Links : \A p \in On(net', l) : p.kind = "update" => p \in On(net, l)
    BY <1>1, <1>2, TakenKeepsNet, Zenon DEF Agreeing
<1>4. WorldType'
    BY <1>1, Spends, WorldAges, Zenon DEF Agreeing
<1>5. ToldType'
    <2>1. advertised' \in [Router -> SUBSET Router]
          /\ \A h \in Router : advertised'[h] \subseteq Neighbors[h]
        BY <1>1, <1>2, SMTT(30) DEF Agreeing, ToldType
    <2>2. owed' \in [Router -> SUBSET Router] /\ \A h \in Router : owed'[h] \subseteq Neighbors[h]
        BY <1>1, <1>2, SMTT(30) DEF Agreeing, ToldType
    <2> QED
        BY <2>1, <2>2, Zenon DEF ToldType
<1>6. RequestType' /\ dirty' \subseteq Router
      /\ UNCHANGED <<origin, routes, selected, retractID, forwarding, sources>>
    BY <1>1, Zenon DEF Agreeing, RequestType, Tables, TableType
<1> QED
    BY <1>3, <1>4, <1>5, <1>6, RestKeeps, Zenon

LEMMA ForwardTargetIs ==
    ASSUME Agreeing, NEW i \in Router, NEW j
    PROVE  ForwardTarget(i, j) \in Neighbors[i] \cup {Nobody}
<1> DEFINE others == {n \in Neighbors[i] \ {j} : routes[i][n].metric \in 0..(Infinity - 1)}
           feasible == {n \in others : Feasible(i, routes[i][n])}
<1>1. others \in SUBSET Nat /\ feasible \in SUBSET Nat
    BY BabelAssumption, Zenon
<1>2. feasible # {} => Min(feasible) \in feasible
    BY <1>1, MinIn, Zenon
<1>3. others # {} => Min(others) \in others
    BY <1>1, MinIn, Zenon
<1>4. selected[i].via # Nobody => selected[i].via \in Neighbors[i]
    BY Zenon DEF Agreeing, Tables, SelectionHolds, Chosen
<1>5. ForwardTarget(i, j) = IF selected[i].via \notin {Nobody, j} THEN selected[i].via
                            ELSE IF feasible # {} THEN Min(feasible)
                            ELSE IF others # {} THEN Min(others) ELSE Nobody
    BY Zenon DEF ForwardTarget
<1>6. feasible \subseteq Neighbors[i] /\ others \subseteq Neighbors[i]
    BY Zenon
<1> HIDE DEF feasible, others
<1> QED
    BY <1>2, <1>3, <1>4, <1>5, <1>6, Zenon

LEMMA ForwardRequestKeeps ==
    ASSUME Agreeing, NEW i \in Router, NEW j \in Neighbors[i], NEW k \in DOMAIN net[<<j, i>>],
           ForwardRequest(i, j, k)
    PROVE  Agreeing'
<1> DEFINE p == net[<<j, i>>][k]
           to == ForwardTarget(i, j)
           goes == p.id # i /\ p.hops >= 2 /\ to # Nobody /\ ~Redundant(i, p.id, p.seqno)
           ask == [n \in {to} |-> RequestPacket(i, n, p.id, p.seqno, p.hops - 1)]
           sent == IF goes THEN Post(net, i, ask) ELSE net
<1>1. /\ p.kind = "request"
      /\ pending' = IF goes /\ Suppress THEN [pending EXCEPT ![i][p.id] = p.seqno] ELSE pending
      /\ net' = Taken(sent, i, j, k)
      /\ UNCHANGED <<origin, routes, selected, retractID, dirty, forwarding, sources, advertised,
                     owed, asked, retries, linkCost, session, events>>
    BY Zenon DEF ForwardRequest, table, told, world
<1>2. /\ <<j, i>> \in Links /\ j # i /\ <<j, i>>[1] = j
      /\ MaxSeqno \in Nat /\ HopCount \in Nat /\ Capacity \in Nat
    BY BabelAssumption DEF Links
<1>3. p.id \in Router /\ p.seqno \in 1..(MaxSeqno + 1) /\ p.hops \in 1..HopCount
    <2>1. p \in Packet
        BY <1>2, SMTT(30) DEF Agreeing, NetType
    <2> HIDE DEF p
    <2> QED
        BY <1>1, <2>1, Zenon DEF Packet
<1> HIDE DEF p
<1>4. goes => \A h \in DOMAIN ask : ask[h] \in Packet /\ ask[h].kind = "request"
    <2> SUFFICES ASSUME goes, NEW h \in DOMAIN ask
                 PROVE  ask[h] \in Packet /\ ask[h].kind = "request"
        BY ZenonT(30)
    <2>1. h \in Neighbors[i]
        BY ForwardTargetIs, Zenon
    <2>2. session[i][h] \in 0..Budget
        BY <2>1, BabelAssumption DEF Agreeing, WorldType
    <2>3. p.hops - 1 \in 1..HopCount
        BY <1>2, <1>3
    <2>4. ask[h] = [kind |-> "request", id |-> p.id, seqno |-> p.seqno, hops |-> p.hops - 1,
                    session |-> session[i][h]]
        BY Zenon DEF RequestPacket
    <2> QED
        BY <1>3, <2>2, <2>3, <2>4 DEF Packet
<1>5. /\ sent \in [Links -> Seq(Packet)] /\ sent[<<j, i>>] = net[<<j, i>>]
      /\ \A l \in Links : /\ Len(sent[l]) <= Capacity
                          /\ \A q \in On(sent, l) : q \in On(net, l) \/ q.kind = "request"
    <2>1. CASE goes
        <3>1. sent = Post(net, i, ask)
            BY <2>1, Zenon
        <3>2. Post(net, i, ask)[<<j, i>>] = net[<<j, i>>]
            BY <1>2, Zenon DEF Post
        <3> HIDE DEF ask, goes
        <3>3. Posted(Post(net, i, ask), net, i, ask)
            BY <1>4, <2>1, NetLeft, PostAdds, Zenon DEF Agreeing
        <3> HIDE DEF sent
        <3>4. Posted(sent, net, i, ask)
            BY <3>1, <3>3, Zenon
        <3> QED
            BY <1>4, <2>1, <3>1, <3>2, <3>4, Zenon DEF Posted
    <2>2. CASE ~goes
        BY <2>2, Zenon DEF Agreeing, NetType
    <2> QED
        BY <2>1, <2>2, Zenon
<1>6. RequestType'
    <2> HIDE DEF goes
    <2>1. asked' = asked /\ retries' = retries
        BY <1>1, Zenon
    <2>2. pending' \in [Router -> [Router -> 0..(MaxSeqno + 1)]]
        BY <1>1, <1>3 DEF Agreeing, RequestType
    <2> QED
        BY <2>1, <2>2, Zenon DEF Agreeing, RequestType
<1> HIDE DEF sent
<1>7. NetType' /\ \A l \in Links : \A q \in On(net', l) : q.kind = "update" => q \in On(net, l)
    <2>1. /\ net' \in [Links -> Seq(Packet)]
          /\ \A l \in Links : Len(net'[l]) <= Len(sent[l]) /\ On(net', l) \subseteq On(sent, l)
        <3>1. k \in DOMAIN sent[<<j, i>>]
            BY <1>5, Zenon
        <3>2. /\ Taken(sent, i, j, k) \in [Links -> Seq(Packet)]
              /\ \A l \in Links : /\ Len(Taken(sent, i, j, k)[l]) <= Len(sent[l])
                                  /\ On(Taken(sent, i, j, k), l) \subseteq On(sent, l)
            BY <1>2, <1>5, <3>1, TakenKeeps, Zenon
        <3> QED
            BY <1>1, <3>2, Zenon DEF On
    <2>2. ASSUME NEW l \in Links PROVE Len(net'[l]) <= Capacity
        <3>1. sent[l] \in Seq(Packet) /\ net'[l] \in Seq(Packet)
            BY <1>5, <2>1, Zenon
        <3> QED
            BY <1>2, <1>5, <2>1, <3>1
    <2>3. "request" # "update"
        BY Zenon
    <2> QED
        BY <1>5, <2>1, <2>2, <2>3, Zenon DEF NetType
<1>8. WorldType' /\ ToldType' /\ dirty' \subseteq Router
      /\ UNCHANGED <<origin, routes, selected, retractID, forwarding, sources>>
    BY <1>1, Zenon DEF Agreeing, WorldType, ToldType, Keyed, Tables, TableType
<1> QED
    BY <1>6, <1>7, <1>8, RestKeeps, Zenon

LEMMA WindowClosesKeeps ==
    ASSUME Agreeing, NEW i \in Router, WindowCloses(i)
    PROVE  Agreeing'
<1>1. /\ UNCHANGED <<origin, routes, selected, retractID, dirty, forwarding, sources, advertised,
                     owed, retries, linkCost, session, events, net>>
      /\ \/ \E a \in asked[i] : asked' = [asked EXCEPT ![i] = asked[i] \ {a}] /\ UNCHANGED pending
         \/ \E r \in Router : pending' = [pending EXCEPT ![i][r] = 0] /\ UNCHANGED asked
    BY Zenon DEF WindowCloses, table, told, world, Agreeing, RequestType
<1>2. RequestType'
    <2>1. MaxSeqno \in Nat
        BY BabelAssumption
    <2>2. asked' \in [Router -> SUBSET (Router \X Router)]
        BY <1>1 DEF Agreeing, RequestType
    <2>3. pending' \in [Router -> [Router -> 0..(MaxSeqno + 1)]]
        BY <1>1, <2>1, SMTT(20) DEF Agreeing, RequestType
    <2> QED
        BY <1>1, <2>2, <2>3, Zenon DEF Agreeing, RequestType
<1>3. NetType' /\ WorldType' /\ ToldType' /\ dirty' \subseteq Router /\ UNCHANGED net
      /\ UNCHANGED <<origin, routes, selected, retractID, forwarding, sources>>
    BY <1>1, Zenon DEF Agreeing, NetType, WorldType, ToldType, Keyed, Tables, TableType
<1> QED
    BY <1>2, <1>3, RestKeeps, Zenon

LEMMA RetryStarvedKeeps ==
    ASSUME Agreeing, NEW i \in Router, NEW r \in Router, RetryStarved(i, r)
    PROVE  Agreeing'
<1> DEFINE again == retries[i][r].left > 1 /\ selected[i].via = Nobody
           some == {n \in Neighbors[i] : routes[i][n] # NoRoute /\ linkCost[i][n] # Infinity}
           wants == [j \in some |-> [id |-> r, seqno |-> retries[i][r].seqno]]
<1>1. /\ retries[i][r].left # 0
      /\ retries' = [retries EXCEPT ![i][r] =
             IF again THEN [seqno |-> @.seqno, left |-> @.left - 1] ELSE NoRetry]
      /\ IF again THEN Record(i, wants) /\ net' = Post(net, i, Asks(i, wants))
                  ELSE UNCHANGED <<asked, pending, net>>
      /\ UNCHANGED <<origin, routes, selected, retractID, dirty, forwarding, sources, advertised,
                     owed, linkCost, session, events>>
    BY ZenonT(30) DEF RetryStarved, table, told, world
<1>2. retries[i][r] \in Awaited
    BY <1>1 DEF Agreeing, RequestType, NoRetry
<1>3. retries' \in [Router -> [Router -> Awaited \cup {NoRetry}]]
    <2> DEFINE next == IF again THEN [seqno |-> retries[i][r].seqno, left |-> retries[i][r].left - 1]
                                ELSE NoRetry
    <2>1. next \in Awaited \cup {NoRetry}
        BY <1>2, BabelAssumption, SMTT(30) DEF Awaited
    <2>2. retries' = [retries EXCEPT ![i][r] = next]
        BY <1>1, Zenon
    <2> HIDE DEF next
    <2> QED
        BY <2>1, <2>2, Zenon DEF Agreeing, RequestType
<1>4. Askable(i, wants)
    <2>1. some \subseteq Neighbors[i] /\ retries[i][r].seqno \in 1..(MaxSeqno + 1)
        BY <1>2, Zenon DEF Awaited
    <2> HIDE DEF some
    <2> QED
        BY <2>1, Zenon DEF Askable
<1> HIDE DEF wants, again
<1>5. RequestType'
    <2>1. CASE again
        BY <1>1, <1>3, <1>4, <2>1, Records, Zenon DEF Agreeing, RequestType
    <2>2. CASE ~again
        BY <1>1, <1>3, <2>2, Zenon DEF Agreeing, RequestType
    <2> QED
        BY <2>1, <2>2, Zenon
<1>6. NetType' /\ \A l \in Links : \A p \in On(net', l) : p.kind = "update" => p \in On(net, l)
    <2>1. CASE again
        <3>1. \A j \in DOMAIN Asks(i, wants) :
                  Asks(i, wants)[j] \in Packet /\ Asks(i, wants)[j].kind = "request"
            BY <1>4, AsksPackets, Zenon DEF Agreeing
        <3>2. Posted(Post(net, i, Asks(i, wants)), net, i, Asks(i, wants))
            BY <3>1, NetLeft, PostAdds, Zenon DEF Agreeing
        <3>3. Posted(net', net, i, Asks(i, wants))
            BY <1>1, <2>1, <3>2, Zenon
        <3>4. "request" # "update"
            BY Zenon
        <3> QED
            BY <3>1, <3>3, <3>4, ZenonT(30) DEF NetType, Posted
    <2>2. CASE ~again
        BY <1>1, <2>2, Zenon DEF Agreeing, NetType
    <2> QED
        BY <2>1, <2>2, Zenon
<1>7. WorldType' /\ ToldType' /\ dirty' \subseteq Router
      /\ UNCHANGED <<origin, routes, selected, retractID, forwarding, sources>>
    BY <1>1, Zenon DEF Agreeing, WorldType, ToldType, Keyed, Tables, TableType
<1> QED
    BY <1>5, <1>6, <1>7, RestKeeps, Zenon

\* Every step of the mesh keeps the tables in agreement.
LEMMA NextAgrees ==
    ASSUME Agreeing, GcOutlivesHold, [Next]_vars
    PROVE  Agreeing'
<1>1. CASE UNCHANGED vars
    <2>1. /\ UNCHANGED <<origin, routes, selected, retractID, forwarding, sources>> /\ UNCHANGED net
          /\ dirty' \subseteq Router
        BY <1>1, Zenon DEF vars, table, told, Agreeing, Tables, TableType
    <2>2. WorldType' /\ ToldType' /\ RequestType' /\ NetType'
        BY <1>1, Zenon DEF vars, told, requests, world, Agreeing, WorldType, ToldType, RequestType, NetType,
                    Keyed
    <2> QED
        BY <2>1, <2>2, RestKeeps, Zenon
<1>2. ASSUME NEW i \in Router, \/ Update(i) \/ Triggered(i) \/ Sweep(i)
                               \/ SetOriginated(i) \/ WindowCloses(i)
      PROVE  Agreeing'
    BY <1>2, AdvertisingSteps, SweepKeeps, SetOriginatedKeeps, WindowClosesKeeps, Zenon
<1>3. ASSUME NEW i \in Router, NEW r \in Router, SweepSources(i, r) \/ RetryStarved(i, r)
      PROVE  Agreeing'
    BY <1>3, SweepSourcesKeeps, RetryStarvedKeeps, Zenon
<1>4. ASSUME NEW i \in Router, NEW j \in Neighbors[i],
             \/ Expire(i, j) \/ ReplacePeer(i, j) \/ RouteRequested(i, j)
             \/ \E c \in LinkCosts \cup {Infinity} : LinkChanges(i, j, c)
      PROVE  Agreeing'
    BY <1>4, ExpireKeeps, ReplacePeerKeeps, RouteRequestedKeeps, LinkChangesKeeps, Zenon
<1>5. ASSUME NEW i \in Router, NEW j \in Neighbors[i], NEW k \in DOMAIN net[<<j, i>>],
             Receive(i, j, k) \/ Lose(i, j, k)
      PROVE  Agreeing'
    BY <1>5, TakingKeeps, LearnRouteKeeps, AnsweringSteps, ForwardRequestKeeps, Zenon DEF Receive
<1>6. ASSUME NEW i \in Router, NEW j \in Neighbors[i], NEW k \in DOMAIN net[<<i, j>>],
             SendFails(i, j, k)
      PROVE  Agreeing'
    BY <1>6, SendFailsKeeps, ZenonT(30)
<1>7. ASSUME NEW l \in Links PROVE l[1] \in Router /\ l[2] \in Neighbors[l[1]]
    BY Zenon DEF Links
<1> QED
    BY <1>1, <1>2, <1>3, <1>4, <1>5, <1>6, <1>7, Zenon DEF Next

-----------------------------------------------------------------------------
(* What follows from the invariant.                                        *)

LEMMA AgreeingTables ==
    ASSUME Agreeing
    PROVE  TablesAgree
<1>1. TypeOK
    <2>1. \A i \in Router : session[i] \in [Neighbors[i] -> 0..Budget]
        BY BabelAssumption DEF Agreeing, WorldType
    <2>2. retries \in [Router -> [Router -> [seqno : 0..(MaxSeqno + 1), left : 0..(Retries + 1)]]]
        <3>1. Awaited \cup {NoRetry} \subseteq [seqno : 0..(MaxSeqno + 1), left : 0..(Retries + 1)]
            BY BabelAssumption DEF Awaited, NoRetry
        <3> HIDE DEF Awaited, NoRetry
        <3> QED
            BY <3>1, Zenon DEF Agreeing, RequestType
    <2> QED
        BY <2>1, <2>2, Zenon DEF TypeOK, Agreeing, OriginType, WorldType, Tables, TableType, RoutesType,
                          SourcesType, ToldType, RequestType, NetType
<1>2. DistanceBounds
    <2> SUFFICES ASSUME NEW l \in Links
                 PROVE  /\ Bounded(sources, l[1], routes[l[2]][l[1]])
                        /\ \A k \in DOMAIN net[l] : net[l][k].kind = "update" =>
                               Bounded(sources, l[1], net[l][k])
        BY Zenon DEF DistanceBounds, Bounded
    <2>1. l[1] \in Router /\ l[2] \in Neighbors[l[1]] /\ l = <<l[1], l[2]>>
        BY DEF Links
    <2>2. \A k \in DOMAIN net[l] : net[l][k] \in On(net, l)
        BY ZenonT(30) DEF On
    <2> QED
        BY <2>1, <2>2, Zenon DEF Agreeing, Bounds
<1> QED
    BY <1>1, <1>2, Zenon DEF TablesAgree, Agreeing, Tables

\* A next hop is closer: with the same origin, its own selected route has a
\* greater sequence number, or the same one and a smaller metric.
LEMMA Closer ==
    ASSUME Agreeing, NEW i \in Router, NEW j \in Router,
           selected[i].via = j, selected[j].via # Nobody, selected[j].id = selected[i].id
    PROVE  \/ selected[j].seqno > selected[i].seqno
           \/ /\ selected[j].seqno = selected[i].seqno
              /\ routes[j][selected[j].via].metric < routes[i][j].metric
<1> DEFINE d == sources[j][selected[i].id]
           ri == routes[i][j]
           rj == routes[j][selected[j].via]
<1>1. Chosen(i, routes[i], selected[i]) /\ Chosen(j, routes[j], selected[j])
    <2>1. j # Nobody
        BY BabelAssumption, Zenon DEF Nobody
    <2> QED
        BY <2>1, Zenon DEF Agreeing, Tables, SelectionHolds
<1>2. j \in Neighbors[i] /\ i \in Neighbors[j] /\ Infinity \in Nat /\ MaxSeqno \in Nat
    BY <1>1, BabelAssumption, SMTT(30) DEF Chosen
<1>3. /\ ri \in Advertisement /\ rj \in Advertisement
      /\ ri.id = selected[i].id /\ rj.id = selected[i].id /\ selected[i].id \in Router
      /\ ri.seqno = selected[i].seqno /\ rj.seqno = selected[j].seqno
      /\ selected[i].seqno \in Seqno /\ selected[j].seqno \in Seqno
    BY <1>1, Zenon DEF Chosen, Selection
<1>4. ri.metric \in 0..(Infinity - 1) /\ rj.metric \in 0..(Infinity - 1)
    <2>1. ri.metric < selected[i].cost /\ rj.metric < selected[j].cost
          /\ selected[i].cost \in 0..(Infinity - 1) /\ selected[j].cost \in 0..(Infinity - 1)
        BY <1>1, Zenon DEF Chosen, Selection
    <2>2. ri.metric \in 0..Infinity /\ rj.metric \in 0..Infinity
        BY <1>3, Advertised, Zenon
    <2> HIDE DEF ri, rj
    <2> QED
        BY <1>2, <2>1, <2>2, SMTT(30)
<1>5. d # NoSource /\ ~Better(d, selected[i].seqno, ri.metric)
    <2>1. Bounded(sources, j, ri)
        BY <1>2, Zenon DEF Agreeing, Bounds
    <2> QED
        BY <1>3, <1>4, <2>1, Zenon DEF Bounded
<1>6. Better(d, selected[j].seqno, rj.metric)
    <2>1. rj.metric # Infinity
        BY <1>2, <1>4, SMTT(30)
    <2> QED
        BY <1>1, <1>3, <1>5, <2>1, ZenonT(30) DEF Chosen, Feasible
<1>7. d \in Distance
    BY <1>3, <1>5, Zenon DEF Agreeing, SourcesType
<1>8. d.seqno \in Int /\ d.metric \in Int /\ selected[i].seqno \in 0..MaxSeqno
      /\ selected[j].seqno \in 0..MaxSeqno
    BY <1>2, <1>3, <1>7, SMTT(20) DEF Distance, Seqno
<1> HIDE DEF d, ri, rj
<1>9. /\ ~(selected[i].seqno > d.seqno \/ (selected[i].seqno = d.seqno /\ ri.metric < d.metric))
      /\ selected[j].seqno > d.seqno \/ (selected[j].seqno = d.seqno /\ rj.metric < d.metric)
    BY <1>5, <1>6, <1>7, <1>8, BetterIs, Zenon
<1>10. selected[j].seqno > selected[i].seqno
       \/ (selected[j].seqno = selected[i].seqno /\ rj.metric < ri.metric)
    BY <1>2, <1>4, <1>8, <1>9, SMTT(30)
<1> QED
    BY <1>10, Zenon DEF ri, rj

\* Of speakers that forward among themselves one has the greatest sequence
\* number and, of those, the smallest metric: its next hop cannot be closer.
LEMMA AgreeingLoopFree ==
    ASSUME Agreeing
    PROVE  LoopFree
<1> SUFFICES ASSUME NEW r \in Router, NEW S \in SUBSET Router, S # {},
                    \A i \in S : selected[i].id = r /\ selected[i].via \in S
             PROVE  FALSE
    BY Zenon DEF LoopFree
<1> DEFINE lack(i) == MaxSeqno - selected[i].seqno
           far(i) == routes[i][selected[i].via].metric
<1>1. MaxSeqno \in Nat /\ Infinity \in Nat /\ 0 \notin Router
    BY BabelAssumption, SMTT(30)
<1>2. ASSUME NEW i \in S
      PROVE  /\ selected[i].via \in S /\ selected[i].via # Nobody
             /\ lack(i) \in Nat /\ far(i) \in Nat /\ selected[i].seqno \in Seqno
    <2>1. selected[i].via \in S /\ selected[i].via # Nobody
        BY <1>1, Zenon DEF Nobody
    <2>2. Chosen(i, routes[i], selected[i])
        BY <2>1, ZenonT(30) DEF Agreeing, Tables, SelectionHolds
    <2>3. selected[i].seqno \in Seqno /\ routes[i][selected[i].via] \in Advertisement
        BY <2>2, Zenon DEF Chosen, Selection
    <2>4. far(i) \in 0..Infinity
        BY <2>3, Advertised, Zenon
    <2>5. lack(i) \in Nat
        BY <1>1, <2>3 DEF Seqno
    <2> QED
        BY <1>1, <2>1, <2>3, <2>4, <2>5
<1>3. PICK m \in {lack(i) : i \in S} : \A n \in {lack(i) : i \in S} : m <= n
    <2>1. {lack(i) : i \in S} \in SUBSET Nat /\ {lack(i) : i \in S} # {}
        BY <1>2, Zenon
    <2> HIDE DEF lack
    <2> QED
        BY <2>1, Least, ZenonT(30)
<1> DEFINE T == {i \in S : lack(i) = m}
<1>4. PICK f \in {far(i) : i \in T} : \A n \in {far(i) : i \in T} : f <= n
    <2>1. {far(i) : i \in T} \in SUBSET Nat /\ {far(i) : i \in T} # {}
        BY <1>2, <1>3, Zenon
    <2> HIDE DEF far, T
    <2> QED
        BY <2>1, Least, ZenonT(30)
<1>5. PICK i \in T : far(i) = f
    BY <1>4, Zenon
<1> DEFINE j == selected[i].via
<1>6. i \in S /\ j \in S /\ lack(i) <= lack(j) /\ (lack(j) = lack(i) => far(i) <= far(j))
    BY <1>2, <1>3, <1>4, <1>5, Zenon
<1>7. \/ selected[j].seqno > selected[i].seqno
      \/ selected[j].seqno = selected[i].seqno /\ far(j) < far(i)
    <2>1. selected[j].via # Nobody /\ selected[j].id = selected[i].id /\ i \in Router /\ j \in Router
        BY <1>2, <1>6, Zenon
    <2> QED
        BY <2>1, Closer, Zenon
<1>8. selected[i].seqno \in Seqno /\ selected[j].seqno \in Seqno /\ far(i) \in Nat /\ far(j) \in Nat
    BY <1>2, <1>6, Zenon
<1> HIDE DEF far, j
<1> QED
    BY <1>1, <1>6, <1>7, <1>8 DEF Seqno

-----------------------------------------------------------------------------
\* The tables of every speaker and what its neighbors hold of it agree.
THEOREM AgreeingTheorem ==
    ASSUME GcOutlivesHold
    PROVE  Spec => []Agreeing
<1>1. Agreeing /\ [Next]_vars => Agreeing'
    BY NextAgrees, Zenon
<1> QED
    BY <1>1, InitAgrees, PTL DEF Spec

\* Selected next hops never form a cycle for one origin: LoopFree, of any mesh
\* whose distances outlive the routes that rest on them.
THEOREM LoopFreeTheorem ==
    ASSUME GcOutlivesHold
    PROVE  Spec => []LoopFree
    BY AgreeingTheorem, AgreeingLoopFree, PTL

\* The forwarding table follows the selection, and the distance of a speaker
\* bounds what its neighbors hold or are about to: TablesAgree.
THEOREM TablesAgreeTheorem ==
    ASSUME GcOutlivesHold
    PROVE  Spec => []TablesAgree
    BY AgreeingTheorem, AgreeingTables, PTL
=============================================================================
