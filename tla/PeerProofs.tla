----------------------------- MODULE PeerProofs ------------------------------
(***************************************************************************)
(* Proofs about a peer: the session sets of the two ends of a path, and    *)
(* the ordered sender.                                                     *)
(*                                                                         *)
(* The Babel neighbor follows the session that holds the path, and a       *)
(* shutdown leaves no running session that nobody is to close, for any     *)
(* number of SAs, redials, lost messages, and whoever dials, revokes or    *)
(* stops.  Both rest on one invariant, entry by entry: whoever holds a     *)
(* path is served and has the neighbor, and a session that runs holds the  *)
(* path or is to be closed by a closer or by the adoption that replaced    *)
(* it.                                                                     *)
(*                                                                         *)
(* The sender keeps ticket order, its slots and its counters.  Order and   *)
(* slots rest on what holds of each batch at each place (Own); the         *)
(* counters on the batches that none of them has yet, which only shrink,   *)
(* by what is added to a counter (Counting).                               *)
(***************************************************************************)
EXTENDS SessionSet, PeerSender, TLAPS

Served == {"adopted", "doomed", "serving", "ended"}
Running == {"adopted", "serving"}

\* The types the proof needs.
SetTypes ==
    /\ live \in [Nodes -> SAs \cup {None}]
    /\ neighbor \in [Nodes -> SAs \cup {None}]
    /\ by \in [SAs -> Nodes] /\ end \in [Nodes -> [SAs -> Phases]]
    /\ prev \in [Nodes -> [SAs -> SAs \cup {None}]]
    /\ last \in [Nodes -> SAs \cup {None}]
    /\ life \in [Nodes -> {"running", "shut", "cancelled"}]

\* Somebody is to close the session, or it holds the path.
Owned(n, s) == live[n] = s \/ <<n, s>> \in kill \/ \E t \in SAs : prev[n][t] = s

\* The session that holds a path is being served and has the neighbor; one that
\* runs is somebody's; and what closeAll took, or is about to close, is not
\* started again.
Entry(n) ==
    /\ live[n] # None => live[n] = neighbor[n] /\ end[n][live[n]] \in Served
    /\ \A s \in SAs : prev[n][s] # None => end[n][s] \in {"adopted", "doomed"}
    /\ \A s \in SAs : end[n][s] \in Running => Owned(n, s)
    /\ life[n] = "shut" /\ live[n] # None =>
           live[n] = last[n] /\ (end[n][live[n]] \in Running => <<n, live[n]>> \in kill)
    /\ life[n] = "cancelled" => live[n] = None

Entries == SetTypes /\ \A n \in Nodes : Entry(n)

LEMMA SetInit == SessionAssumption /\ Init => Entries
<1> SUFFICES ASSUME SessionAssumption, Init PROVE Entries
  BY Zenon
<1>1. SetTypes
  BY Zenon DEF Init, SetTypes, Phases, None, Nodes
<1>2. ASSUME NEW n \in Nodes PROVE Entry(n)
  BY Zenon DEF Init, Entry, Running
<1> QED
  BY <1>1, <1>2, Zenon DEF Entries

\* What may happen to a session without anybody's entry changing: one not served
\* goes on to anything but running, one served may have its mux closed.
Moves(n) ==
    \A s \in SAs :
        \/ end'[n][s] = end[n][s]
        \/ end[n][s] \notin Served /\ end'[n][s] \notin Running
        \/ end[n][s] = "serving" /\ end'[n][s] = "ended"
        \/ end[n][s] = "adopted" /\ end'[n][s] = "doomed"

\* An entry survives such moves, as long as what is to be closed stays so until it is.
LEMMA EntryMoves ==
    ASSUME NEW n \in Nodes, SetTypes, Entry(n), Moves(n),
           live'[n] = live[n], live[n] # None => neighbor'[n] = neighbor[n],
           prev'[n] = prev[n], life'[n] = life[n], last'[n] = last[n],
           \A s \in SAs : <<n, s>> \in kill => <<n, s>> \in kill' \/ end'[n][s] \notin Running
    PROVE  Entry(n)'
<1>1. \A s \in SAs : /\ end[n][s] \in Served => end'[n][s] \in Served
                     /\ end'[n][s] \in Running => end[n][s] \in Running
                     /\ end[n][s] \in {"adopted", "doomed"} => end'[n][s] \in {"adopted", "doomed"}
  BY Zenon DEF Moves, Served, Running
<1>2. live[n] # None => live[n] \in SAs
  BY Zenon DEF SetTypes
<1>3. \A s \in SAs : end'[n][s] \in Running => Owned(n, s)'
  <2> SUFFICES ASSUME NEW s \in SAs, end'[n][s] \in Running PROVE Owned(n, s)'
    BY Zenon
  <2>1. Owned(n, s)
    BY <1>1, Zenon DEF Entry
  <2> QED
    BY <2>1, Zenon DEF Owned
<1>4. live'[n] # None => live'[n] = neighbor'[n] /\ end'[n][live'[n]] \in Served
  BY <1>1, <1>2, Zenon DEF Entry
<1>5. \A s \in SAs : prev'[n][s] # None => end'[n][s] \in {"adopted", "doomed"}
  BY <1>1, Zenon DEF Entry
<1>6. life'[n] = "shut" /\ live'[n] # None =>
          live'[n] = last'[n] /\ (end'[n][live'[n]] \in Running => <<n, live'[n]>> \in kill')
  BY <1>1, <1>2, Zenon DEF Entry
<1>7. life'[n] = "cancelled" => live'[n] = None
  BY Zenon DEF Entry
<1> QED
  BY <1>3, <1>4, <1>5, <1>6, <1>7, Zenon DEF Entry, None

\* A goroutine that returns forgets its session, at both nodes if the other is
\* through with it too; neither was serving it.
LEMMA GoneMoves ==
    ASSUME NEW n \in Nodes, NEW s \in SAs, SetTypes, Gone(n, s),
           end[n][s] \notin Served
    PROVE  /\ end' \in [Nodes -> [SAs -> Phases]] /\ by' \in [SAs -> Nodes]
           /\ \A m \in Nodes : Moves(m)
<1>1. CASE Silent(n, s)
  <2>1. end' = [m \in Nodes |-> [end[m] EXCEPT ![s] = "none"]] /\ by' = [by EXCEPT ![s] = a]
    BY <1>1, Zenon DEF Gone
  <2>2. \A m \in Nodes : m = n \/ m = Other(n)
    BY DEF Nodes, Other
  <2>3. \A m \in Nodes : end[m][s] \notin Served
    BY <1>1, <2>2, Zenon DEF Silent, Ended, Served
  <2>4. end' \in [Nodes -> [SAs -> Phases]]
    BY <2>1, Zenon DEF SetTypes, Phases
  <2>5. by' \in [SAs -> Nodes]
    BY <2>1, Zenon DEF SetTypes, Nodes
  <2>6. \A m \in Nodes, t \in SAs : end'[m][t] = IF t = s THEN "none" ELSE end[m][t]
    BY <2>1, Zenon DEF SetTypes
  <2> QED
    BY <2>3, <2>4, <2>5, <2>6, Zenon DEF Moves, Running
<1>2. CASE ~Silent(n, s)
  <2>1. end' = [end EXCEPT ![n][s] = "gone"] /\ by' = by
    BY <1>2, Zenon DEF Gone
  <2>2. end' \in [Nodes -> [SAs -> Phases]]
    BY <2>1, Zenon DEF SetTypes, Phases
  <2>3. \A m \in Nodes, t \in SAs : end'[m][t] = IF m = n /\ t = s THEN "gone" ELSE end[m][t]
    BY <2>1, Zenon DEF SetTypes
  <2> QED
    BY <2>1, <2>2, <2>3 DEF SetTypes, Moves, Running
<1> QED
  BY <1>1, <1>2, Zenon

\* The steps that leave every entry and every promise to close alone.
LEMMA AllEntriesMove ==
    ASSUME Entries, end' \in [Nodes -> [SAs -> Phases]], by' \in [SAs -> Nodes],
           \A m \in Nodes : Moves(m),
           neighbor' \in [Nodes -> SAs \cup {None}],
           \A m \in Nodes : live[m] # None => neighbor'[m] = neighbor[m],
           \A m \in Nodes, s \in SAs :
               <<m, s>> \in kill => <<m, s>> \in kill' \/ end'[m][s] \notin Running,
           UNCHANGED <<live, prev, life, last>>
    PROVE  Entries'
<1>1. SetTypes'
  BY Zenon DEF Entries, SetTypes, Nodes, None, Phases
<1>2. ASSUME NEW n \in Nodes PROVE Entry(n)'
  BY <1>2, EntryMoves, Zenon DEF Entries
<1> QED
  BY <1>1, <1>2, Zenon DEF Entries, Nodes

\* Handshakes, and what adopt refuses.
LEMMA HandshakeKeeps ==
    ASSUME Entries,
           \/ \E n \in Nodes : Dial(n)
           \/ \E s \in SAs : \/ Answer(s) \/ Establish(s) \/ GiveUp(s)
                             \/ \E n \in Nodes : \/ Refuse(n, s) \/ CloseRefused(n, s)
                                                \/ Unserved(n, s) \/ Uninstalled(n, s)
    PROVE  Entries'
<1>0. SetTypes
  BY Zenon DEF Entries
<1>a. \A s \in SAs : by[s] \in Nodes /\ Other(by[s]) \in Nodes
  BY <1>0, Zenon DEF SetTypes, Nodes, Other
<1>1. ASSUME NEW n \in Nodes, Dial(n) PROVE Entries'
  <2>1. PICK s \in SAs :
            /\ Fresh(s) /\ by' = [by EXCEPT ![s] = n]
            /\ end' = [m \in Nodes |->
                          [end[m] EXCEPT ![s] = IF m = n THEN "dialing" ELSE "none"]]
    BY <1>1, Zenon DEF Dial
  <2>2. \A m \in Nodes : end[m][s] \in Ended
    BY <2>1, Zenon DEF Fresh, Unused
  <2>3. end' \in [Nodes -> [SAs -> Phases]]
    BY <1>0, <2>1, Zenon DEF SetTypes, Phases
  <2>4. by' \in [SAs -> Nodes]
    BY <1>0, <2>1, Zenon DEF SetTypes
  <2>5. \A m \in Nodes, t \in SAs : end'[m][t] =
            IF t = s THEN (IF m = n THEN "dialing" ELSE "none") ELSE end[m][t]
    BY <1>0, <2>1, Zenon DEF SetTypes
  <2>6. \A m \in Nodes : Moves(m)
    BY <2>2, <2>5, Zenon DEF Moves, Ended, Served, Running
  <2>7. UNCHANGED <<live, neighbor, prev, life, last, kill>>
    BY <1>1, Zenon DEF Dial
  <2> QED
    BY <2>3, <2>4, <2>6, <2>7, AllEntriesMove, Zenon DEF Entries, SetTypes
<1>2. ASSUME NEW s \in SAs, NEW n \in Nodes, NEW w \in {"made", "refused"},
             end[n][s] \notin Served, end' = [end EXCEPT ![n][s] = w],
             UNCHANGED <<live, neighbor, by, prev, kill, life, last>>
      PROVE  Entries'
  <2>1. w \in Phases /\ w \notin Running
    BY Zenon DEF Phases, Running
  <2>2. /\ end' \in [Nodes -> [SAs -> Phases]]
        /\ \A m \in Nodes, t \in SAs : end'[m][t] = IF m = n /\ t = s THEN w ELSE end[m][t]
    BY <1>0, <1>2, <2>1, Zenon DEF SetTypes
  <2>3. \A m \in Nodes : Moves(m)
    BY <1>2, <2>1, <2>2, Zenon DEF Moves
  <2> QED
    BY <1>0, <1>2, <2>2, <2>3, AllEntriesMove, Zenon DEF SetTypes
<1>3. ASSUME NEW s \in SAs, Answer(s) PROVE Entries'
  BY <1>a, <1>2, <1>3, Zenon DEF Answer, Served
<1>4. ASSUME NEW s \in SAs, Establish(s) PROVE Entries'
  BY <1>a, <1>2, <1>4, Zenon DEF Establish, Served
<1>5. ASSUME NEW s \in SAs, NEW n \in Nodes, Gone(n, s), end[n][s] \notin Served,
             UNCHANGED <<live, neighbor, prev, kill, life, last>>
      PROVE  Entries'
  BY <1>0, <1>5, GoneMoves, AllEntriesMove, Zenon DEF SetTypes
<1>6. ASSUME NEW s \in SAs, GiveUp(s) PROVE Entries'
  BY <1>a, <1>5, <1>6, Zenon DEF GiveUp, Served
<1>7. ASSUME NEW s \in SAs, NEW n \in Nodes, Refuse(n, s) PROVE Entries'
  BY <1>2, <1>7, Zenon DEF Refuse, Served
<1>8. ASSUME NEW s \in SAs, NEW n \in Nodes, CloseRefused(n, s) PROVE Entries'
  BY <1>5, <1>8, Zenon DEF CloseRefused, Served
<1>9. ASSUME NEW s \in SAs, NEW n \in Nodes, Unserved(n, s) PROVE Entries'
  BY <1>2, <1>9, Zenon DEF Unserved, Served
<1>10. ASSUME NEW s \in SAs, NEW n \in Nodes, Uninstalled(n, s) PROVE Entries'
  BY <1>5, <1>10, Zenon DEF Uninstalled, Served
<1> QED
  BY <1>1, <1>3, <1>4, <1>6, <1>7, <1>8, <1>9, <1>10, Zenon

\* Where an end stands once its mux is closed.
LEMMA ShutMoves ==
    ASSUME NEW w \in Phases
    PROVE  /\ Shut(w) \in Phases /\ Shut(w) \notin Running
           /\ Shut(w) = w \/ (w = "serving" /\ Shut(w) = "ended")
                              \/ (w = "adopted" /\ Shut(w) = "doomed")
BY DEF Shut, Phases, Running

\* A session that ends leaves every entry alone until it is released, and so does
\* one that is through.
LEMMA EndingKeeps ==
    ASSUME Entries, NEW n \in Nodes, NEW s \in SAs,
           Kill(n, s) \/ Hear(n, s) \/ Expire(n, s) \/ Drop(n, s) \/ Detach(n, s)
    PROVE  Entries'
<1>0. SetTypes /\ end[n][s] \in Phases
  BY Zenon DEF Entries, SetTypes
<1>1. ASSUME NEW w \in Phases, end' = [end EXCEPT ![n][s] = w], w \notin Running,
             \/ w = end[n][s]
             \/ end[n][s] = "serving" /\ w = "ended"
             \/ end[n][s] = "adopted" /\ w = "doomed",
             kill \ {<<n, s>>} \subseteq kill',
             UNCHANGED <<live, neighbor, by, prev, life, last>>
      PROVE  Entries'
  <2>1. /\ end' \in [Nodes -> [SAs -> Phases]]
        /\ \A m \in Nodes, t \in SAs : end'[m][t] = IF m = n /\ t = s THEN w ELSE end[m][t]
    BY <1>0, <1>1, Zenon DEF SetTypes
  <2>2. \A m \in Nodes : Moves(m)
    BY <1>1, <2>1, Zenon DEF Moves
  <2>3. \A m \in Nodes, t \in SAs :
            <<m, t>> \in kill => <<m, t>> \in kill' \/ end'[m][t] \notin Running
    BY <1>1, <2>1, Zenon
  <2> QED
    BY <1>0, <1>1, <2>1, <2>2, <2>3, AllEntriesMove, Zenon DEF SetTypes
<1>2. CASE Kill(n, s)
  <2>1. end' = [end EXCEPT ![n][s] = Shut(end[n][s])] /\ kill' = kill \ {<<n, s>>}
        /\ UNCHANGED <<live, neighbor, by, prev, life, last>>
    BY <1>2, Zenon DEF Kill
  <2> QED
    BY <1>0, <1>1, <2>1, ShutMoves, Zenon
<1>3. CASE Hear(n, s)
  <2>1. end' = [end EXCEPT ![n][s] = Shut(end[n][s])]
        /\ UNCHANGED <<live, neighbor, by, prev, kill, life, last>>
    BY <1>3, Zenon DEF Hear
  <2> QED
    BY <1>0, <1>1, <2>1, ShutMoves, Zenon
<1>4. CASE Expire(n, s)
  BY <1>1, <1>4, Zenon DEF Expire, Phases, Running
<1>6. CASE Drop(n, s)
  BY <1>1, <1>6, Zenon DEF Drop, Phases, Running
<1>5. CASE Detach(n, s)
  <2>1. end[n][s] \notin Served /\ Gone(n, s) /\ neighbor' = removePeer(n, s)
        /\ UNCHANGED <<live, prev, kill, life, last>>
    BY <1>5, Zenon DEF Detach, Served
  <2>2. neighbor' \in [Nodes -> SAs \cup {None}]
        /\ \A m \in Nodes : neighbor'[m] = neighbor[m] \/ (m = n /\ neighbor[m] = s)
    BY <1>0, <2>1, Zenon DEF removePeer, SetTypes
  <2>3. \A m \in Nodes : live[m] # None => neighbor'[m] = neighbor[m]
    BY <2>1, <2>2, Zenon DEF Entries, Entry
  <2> QED
    BY <1>0, <2>1, <2>2, <2>3, GoneMoves, AllEntriesMove, Zenon
<1> QED
  BY <1>2, <1>3, <1>4, <1>5, <1>6, Zenon

\* A node the step does not touch keeps its entry.
LEMMA EntryKept ==
    ASSUME NEW n \in Nodes, SetTypes, Entry(n),
           UNCHANGED <<live[n], neighbor[n], prev[n], life[n], last[n], end[n]>>,
           \A s \in SAs : <<n, s>> \in kill => <<n, s>> \in kill'
    PROVE  Entry(n)'
<1>1. Moves(n)
  BY Zenon DEF Moves
<1> QED
  BY <1>1, EntryMoves, Zenon

\* An adoption takes the path and the neighbor, and is to close what it replaces.
LEMMA AdoptKeeps ==
    ASSUME SessionAssumption, Entries, NEW n \in Nodes, NEW s \in SAs, Adopt(n, s)
    PROVE  Entries'
<1>0. SetTypes /\ Entry(n) /\ life[n] = "running" /\ end[n][s] = "made" /\ None \notin SAs
  BY Zenon DEF Entries, Adopt, Refused, SessionAssumption
<1>a. "adopted" \in Phases
  BY Zenon DEF Phases
<1>1. /\ live' = [live EXCEPT ![n] = s] /\ neighbor' = [neighbor EXCEPT ![n] = s]
      /\ prev' = [prev EXCEPT ![n][s] = live[n]] /\ end' = [end EXCEPT ![n][s] = "adopted"]
      /\ UNCHANGED <<by, kill, life, last>>
  BY Zenon DEF Adopt, AddPeer
<1>2. /\ end' \in [Nodes -> [SAs -> Phases]]
      /\ \A m \in Nodes, t \in SAs :
             end'[m][t] = IF m = n /\ t = s THEN "adopted" ELSE end[m][t]
  BY <1>0, <1>1, <1>a, Zenon DEF SetTypes
<1>3. /\ prev' \in [Nodes -> [SAs -> SAs \cup {None}]]
      /\ \A m \in Nodes, t \in SAs :
             prev'[m][t] = IF m = n /\ t = s THEN live[n] ELSE prev[m][t]
  BY <1>0, <1>1, Zenon DEF SetTypes
<1>4. live' \in [Nodes -> SAs \cup {None}]
      /\ neighbor' \in [Nodes -> SAs \cup {None}]
      /\ live'[n] = s /\ neighbor'[n] = s
  BY <1>0, <1>1, Zenon DEF SetTypes
<1>5. SetTypes'
  BY <1>0, <1>1, <1>2, <1>3, <1>4, Zenon DEF SetTypes, Nodes, Phases, None
<1>6. ASSUME NEW m \in Nodes, m # n PROVE Entry(m)'
  <2>1. UNCHANGED <<live[m], neighbor[m], prev[m], life[m], last[m], end[m]>>
    BY <1>0, <1>1, <1>6, Zenon DEF SetTypes
  <2> QED
    BY <1>0, <1>1, <2>1, EntryKept, Zenon DEF Entries
<1>7. Entry(n)'
  <2>1. prev[n][s] = None
    BY <1>0, Zenon DEF Entry
  <2>2. ASSUME NEW t \in SAs, end'[n][t] \in Running PROVE Owned(n, t)'
    <3>1. CASE t = s
      BY <1>4, <3>1, Zenon DEF Owned
    <3>2. CASE t # s
      <4>1. Owned(n, t)
        BY <1>0, <1>2, <2>2, <3>2, Zenon DEF Entry
      <4>2. CASE live[n] = t
        BY <1>3, <4>2, Zenon DEF Owned
      <4>3. CASE <<n, t>> \in kill
        BY <1>1, <4>3, Zenon DEF Owned
      <4>4. ASSUME NEW u \in SAs, prev[n][u] = t PROVE Owned(n, t)'
        <5>1. u # s
          BY <1>0, <2>1, <4>4, Zenon
        <5> QED
          BY <1>3, <4>4, <5>1, Zenon DEF Owned
      <4> QED
        BY <4>1, <4>2, <4>3, <4>4, Zenon DEF Owned
    <3> QED
      BY <3>1, <3>2, Zenon
  <2>3. \A t \in SAs : prev'[n][t] # None => end'[n][t] \in {"adopted", "doomed"}
    BY <1>0, <1>2, <1>3, Zenon DEF Entry
  <2>4. end'[n][live'[n]] \in Served /\ live'[n] = neighbor'[n]
    BY <1>2, <1>4, Zenon DEF Served
  <2>5. life'[n] = "running"
    BY <1>0, <1>1, Zenon
  <2> QED
    BY <2>2, <2>3, <2>4, <2>5, Zenon DEF Entry, None
<1> QED
  BY <1>5, <1>6, <1>7, Zenon DEF Entries, Nodes

\* adopt has closed what it replaced; the session it adopted is still somebody's.
LEMMA ServeKeeps ==
    ASSUME SessionAssumption, Entries, NEW n \in Nodes, NEW s \in SAs, Serve(n, s)
    PROVE  Entries'
<1> DEFINE p == prev[n][s]
           phase == IF end[n][s] = "doomed" THEN "ended" ELSE "serving"
<1>0. SetTypes /\ Entry(n) /\ end[n][s] \in {"adopted", "doomed"} /\ None \notin SAs
  BY Zenon DEF Entries, Serve, SessionAssumption
<1>1. /\ prev' = [prev EXCEPT ![n][s] = None]
      /\ UNCHANGED <<live, neighbor, by, kill, life, last>>
  BY Zenon DEF Serve
<1>2. /\ end' \in [Nodes -> [SAs -> Phases]]
      /\ \A m \in Nodes, t \in SAs : end'[m][t] =
             IF m = n /\ t = s THEN (IF p = s THEN Shut(phase) ELSE phase)
             ELSE IF m = n /\ t = p THEN Shut(end[n][p]) ELSE end[m][t]
  <2>1. phase \in Phases
    BY Zenon DEF Phases
  <2>2. CASE p = None
    <3>1. end' = [end EXCEPT ![n][s] = phase]
      BY <2>2, Zenon DEF Serve
    <3> QED
      BY <1>0, <2>1, <2>2, <3>1, Zenon DEF SetTypes
  <2>3. CASE p # None
    <3>1. end' = [[end EXCEPT ![n][s] = phase] EXCEPT ![n][p] = Shut(@)]
      BY <2>3, Zenon DEF Serve
    <3>2. p \in SAs
      BY <1>0, <2>3 DEF SetTypes
    <3>3. \A w \in Phases : Shut(w) \in Phases
      BY ShutMoves, Zenon
    <3> HIDE DEF phase
    <3>4. PICK first : first = [end EXCEPT ![n][s] = phase]
      BY Zenon
    <3>5. /\ first \in [Nodes -> [SAs -> Phases]]
          /\ \A m \in Nodes, t \in SAs :
                 first[m][t] = IF m = n /\ t = s THEN phase ELSE end[m][t]
      BY <1>0, <2>1, <3>4, Zenon DEF SetTypes
    <3>6. end' = [first EXCEPT ![n][p] = Shut(first[n][p])]
      BY <3>1, <3>4, Zenon
    <3>7. PICK w \in Phases : w = Shut(first[n][p])
      BY <3>2, <3>3, <3>5, Zenon
    <3>8. /\ end' \in [Nodes -> [SAs -> Phases]]
          /\ \A m \in Nodes, t \in SAs :
                 end'[m][t] = IF m = n /\ t = p THEN w ELSE first[m][t]
      BY <3>2, <3>5, <3>6, <3>7, Zenon
    <3> QED
      BY <3>2, <3>5, <3>7, <3>8
  <2> QED
    BY <2>2, <2>3, Zenon
<1>3. /\ prev' \in [Nodes -> [SAs -> SAs \cup {None}]]
      /\ \A m \in Nodes, t \in SAs :
             prev'[m][t] = IF m = n /\ t = s THEN None ELSE prev[m][t]
  BY <1>0, <1>1, Zenon DEF SetTypes
<1>4. SetTypes'
  BY <1>0, <1>1, <1>2, <1>3, Zenon DEF SetTypes, Nodes, Phases, None
<1>5. ASSUME NEW m \in Nodes, m # n PROVE Entry(m)'
  <2>1. end'[m] = end[m] /\ prev'[m] = prev[m]
    BY <1>0, <1>2, <1>3, <1>5, SMTT(30) DEF SetTypes
  <2> QED
    BY <1>0, <1>1, <2>1, EntryKept, Zenon DEF Entries
<1>6. Entry(n)'
  <2>1. \A t \in SAs : t # s =>
            /\ end[n][t] \in Served => end'[n][t] \in Served
            /\ end'[n][t] \in Running => end[n][t] \in Running /\ t # p
            /\ end[n][t] \in {"adopted", "doomed"} => end'[n][t] \in {"adopted", "doomed"}
    BY <1>2 DEF Shut, Served, Running
  <2>2. /\ end'[n][s] \in Served
        /\ end'[n][s] \in Running => end[n][s] = "adopted" /\ s # p
    BY <1>0, <1>2, Zenon DEF Shut, Served, Running
  <2>3. \A t \in SAs : end'[n][t] \in Running => end[n][t] \in Running /\ t # p
    BY <2>1, <2>2, Zenon DEF Running
  <2>4. ASSUME NEW t \in SAs, end'[n][t] \in Running PROVE Owned(n, t)'
    <3>1. Owned(n, t)
      BY <1>0, <2>3, <2>4, Zenon DEF Entry
    <3>2. \A u \in SAs : prev[n][u] = t => prev'[n][u] = t
      BY <1>3, <2>3, <2>4, Zenon
    <3> QED
      BY <1>1, <3>1, <3>2, Zenon DEF Owned
  <2>5. live[n] # None => live[n] \in SAs
    BY <1>0, Zenon DEF SetTypes
  <2>6. live'[n] # None => live'[n] = neighbor'[n] /\ end'[n][live'[n]] \in Served
    BY <1>0, <1>1, <2>1, <2>2, <2>5, Zenon DEF Entry
  <2>7. \A t \in SAs : prev'[n][t] # None => end'[n][t] \in {"adopted", "doomed"}
    BY <1>0, <1>3, <2>1, Zenon DEF Entry
  <2>8. life'[n] = "shut" /\ live'[n] # None =>
            live'[n] = last'[n] /\ (end'[n][live'[n]] \in Running => <<n, live'[n]>> \in kill')
    BY <1>0, <1>1, <2>3, <2>5, Zenon DEF Entry
  <2>9. life'[n] = "cancelled" => live'[n] = None
    BY <1>0, <1>1, Zenon DEF Entry
  <2> QED
    BY <2>4, <2>6, <2>7, <2>8, <2>9, Zenon DEF Entry, None
<1> QED
  BY <1>4, <1>5, <1>6, Zenon DEF Entries, Nodes

\* What becomes of the types when only the set's own fields change.
LEMMA SetFieldsFit ==
    ASSUME SetTypes, end' \in [Nodes -> [SAs -> Phases]],
           live' \in [Nodes -> SAs \cup {None}],
           last' \in [Nodes -> SAs \cup {None}],
           life' \in [Nodes -> {"running", "shut", "cancelled"}],
           UNCHANGED <<neighbor, by, prev>>
    PROVE  SetTypes'
BY DEF SetTypes, Nodes, Phases, None

\* release: a session that has ended needs nobody.
LEMMA ReleaseKeeps ==
    ASSUME Entries, NEW n \in Nodes, NEW s \in SAs, Release(n, s)
    PROVE  Entries'
<1>0. SetTypes /\ Entry(n) /\ end[n][s] = "ended"
  BY Zenon DEF Entries, Release
<1>1. /\ end' = [end EXCEPT ![n][s] = "released"]
      /\ live' = IF live[n] = s THEN [live EXCEPT ![n] = None] ELSE live
      /\ UNCHANGED <<neighbor, by, prev, kill, life, last>>
  BY Zenon DEF Release
<1>a. "released" \in Phases
  BY Zenon DEF Phases
<1>2. /\ end' \in [Nodes -> [SAs -> Phases]]
      /\ \A m \in Nodes, t \in SAs :
             end'[m][t] = IF m = n /\ t = s THEN "released" ELSE end[m][t]
  BY <1>0, <1>1, <1>a, Zenon DEF SetTypes
<1>3. /\ live' \in [Nodes -> SAs \cup {None}]
      /\ \A m \in Nodes : live'[m] = IF m = n /\ live[n] = s THEN None ELSE live[m]
  BY <1>0, <1>1, Zenon DEF SetTypes
<1>4. SetTypes'
  BY <1>0, <1>1, <1>2, <1>3, SetFieldsFit, Zenon DEF SetTypes
<1>5. ASSUME NEW m \in Nodes, m # n PROVE Entry(m)'
  <2>1. end'[m] = end[m] /\ live'[m] = live[m]
    BY <1>0, <1>2, <1>3, <1>5 DEF SetTypes
  <2> QED
    BY <1>0, <1>1, <2>1, EntryKept, Zenon DEF Entries
<1>6. Entry(n)'
  <2>1. \A t \in SAs : end'[n][t] \in Running => t # s /\ end[n][t] \in Running
    BY <1>0, <1>2, Zenon DEF Running
  <2>2. \A t \in SAs : end'[n][t] \in Running => Owned(n, t)'
    BY <1>0, <1>1, <1>3, <2>1, Zenon DEF Entry, Owned
  <2>3. live'[n] # None => live'[n] = live[n] /\ live[n] # s /\ live[n] \in SAs
    BY <1>0, <1>3, Zenon DEF SetTypes
  <2>4. live'[n] # None => live'[n] = neighbor'[n] /\ end'[n][live'[n]] \in Served
    BY <1>0, <1>1, <1>2, <2>3, Zenon DEF Entry
  <2>5. \A t \in SAs : prev'[n][t] # None => end'[n][t] \in {"adopted", "doomed"}
    BY <1>0, <1>1, <1>2, Zenon DEF Entry
  <2>6. life'[n] = "shut" /\ live'[n] # None =>
            live'[n] = last'[n] /\ (end'[n][live'[n]] \in Running => <<n, live'[n]>> \in kill')
    BY <1>0, <1>1, <2>1, <2>3, Zenon DEF Entry
  <2>7. life'[n] = "cancelled" => live'[n] = None
    BY <1>0, <1>3, <1>1, Zenon DEF Entry
  <2> QED
    BY <2>2, <2>4, <2>5, <2>6, <2>7, Zenon DEF Entry, None
<1> QED
  BY <1>4, <1>5, <1>6, Zenon DEF Entries, Nodes

\* The operator's steps change no session's end.  A node's set is left alone, or
\* emptied with what it held being closed or no longer running, or shut with what
\* it holds being closed.
LEMMA OperatorKeeps ==
    ASSUME SessionAssumption, Entries, NEW n \in Nodes,
           \/ Redial(n) \/ Reload(n) \/ Revoke(n) \/ CloseAll(n) \/ Cancel(n)
    PROVE  Entries'
<1>0. SetTypes /\ Entry(n) /\ UNCHANGED <<neighbor, by, end, prev>> /\ None \notin SAs
  BY Zenon DEF Entries, SessionAssumption, Redial, Reload, Revoke, CloseAll, Cancel
<1>1. /\ live' = live \/ live' = [live EXCEPT ![n] = None]
      /\ last' = last \/ last' = [last EXCEPT ![n] = live[n]] \/ last' = [last EXCEPT ![n] = None]
      /\ \/ life' = life \/ life' = [life EXCEPT ![n] = "shut"]
         \/ life' = [life EXCEPT ![n] = "cancelled"]
      /\ kill \subseteq kill'
  BY Zenon DEF Redial, Reload, Revoke, CloseAll, Cancel, Take
<1>2. SetTypes'
  <2>0. live' \in [Nodes -> SAs \cup {None}]
    BY <1>0, <1>1, Zenon DEF SetTypes
  <2>1. last' \in [Nodes -> SAs \cup {None}]
    BY <1>0, <1>1, Zenon DEF SetTypes
  <2>2. life' \in [Nodes -> {"running", "shut", "cancelled"}]
    BY <1>0, <1>1, ZenonT(30) DEF SetTypes
  <2> QED
    BY <1>0, <2>0, <2>1, <2>2, SetFieldsFit, Zenon DEF SetTypes
<1>3. ASSUME NEW m \in Nodes, m # n PROVE Entry(m)'
  <2>1. live'[m] = live[m] /\ last'[m] = last[m] /\ life'[m] = life[m]
    BY <1>0, <1>1, <1>3, Zenon DEF SetTypes
  <2> QED
    BY <1>0, <1>1, <2>1, EntryKept, Zenon DEF Entries
<1>4. CASE Reload(n)
  <2>1. UNCHANGED <<live, kill, life, last>>
    BY <1>4, Zenon DEF Reload
  <2> QED
    BY <1>0, <1>2, <1>3, <2>1, EntryKept, Zenon DEF Entries, Nodes
<1>5. ASSUME live'[n] = None,
             \A s \in SAs : live[n] = s => <<n, s>> \in kill' \/ end[n][s] \notin Running
      PROVE  Entry(n)'
  <2>1. \A s \in SAs : end'[n][s] \in Running => Owned(n, s)'
    BY <1>0, <1>1, <1>5, Zenon DEF Entry, Owned
  <2>2. \A t \in SAs : prev'[n][t] # None => end'[n][t] \in {"adopted", "doomed"}
    BY <1>0, Zenon DEF Entry
  <2> QED
    BY <1>5, <2>1, <2>2, Zenon DEF Entry, None
<1>6. CASE Redial(n) \/ Revoke(n)
  <2>1. /\ live' = [live EXCEPT ![n] = None]
        /\ kill' = kill \cup ({<<n, live[n]>>} \ {<<n, None>>})
    BY <1>6, Zenon DEF Redial, Revoke, Take
  <2>2. live'[n] = None
    BY <1>0, <2>1, Zenon DEF SetTypes
  <2>3. \A s \in SAs : live[n] = s /\ s # None => <<n, s>> \in kill'
    BY <2>1, Zenon
  <2> QED
    BY <1>0, <1>2, <1>3, <1>5, <2>2, <2>3, Zenon DEF Entries, Nodes
<1>7. CASE CloseAll(n)
  <2>1. /\ life' = [life EXCEPT ![n] = "shut"] /\ last' = [last EXCEPT ![n] = live[n]]
        /\ kill' = kill \cup ({<<n, live[n]>>} \ {<<n, None>>}) /\ live' = live
    BY <1>7, Zenon DEF CloseAll
  <2>2. life'[n] = "shut" /\ last'[n] = live[n] /\ kill \subseteq kill'
        /\ (live[n] # None => <<n, live[n]>> \in kill')
    BY <1>0, <2>1, Zenon DEF SetTypes
  <2>3. \A s \in SAs : end'[n][s] \in Running => Owned(n, s)'
    BY <1>0, <2>1, <2>2, Zenon DEF Entry, Owned
  <2>4. Entry(n)'
    BY <1>0, <2>1, <2>2, <2>3, Zenon DEF Entry, None
  <2> QED
    BY <1>2, <1>3, <2>4, Zenon DEF Entries, Nodes
<1>8. CASE Cancel(n)
  <2>1. /\ live' = [live EXCEPT ![n] = None] /\ life[n] = "shut" /\ <<n, last[n]>> \notin kill
    BY <1>8, Zenon DEF Cancel
  <2>2. live'[n] = None
    BY <1>0, <2>1, Zenon DEF SetTypes
  <2>3. live[n] # None => end[n][live[n]] \notin Running
    BY <1>0, <2>1, Zenon DEF Entry
  <2> QED
    BY <1>0, <1>2, <1>3, <1>5, <2>2, <2>3, Zenon DEF Entries, Nodes
<1> QED
  BY <1>4, <1>6, <1>7, <1>8, Zenon

LEMMA SetStep ==
    ASSUME SessionAssumption, Entries, [Next]_(vars)
    PROVE  Entries'
<1>1. CASE UNCHANGED vars
  <2>1. SetTypes'
    BY <1>1, SetFieldsFit, Zenon DEF vars, Entries, SetTypes
  <2> QED
    BY <1>1, <2>1, EntryKept, Zenon DEF vars, Entries, Nodes
<1>2. ASSUME NEW n \in Nodes, NEW s \in SAs, Serving(n, s) PROVE Entries'
  BY <1>2, HandshakeKeeps, AdoptKeeps, ServeKeeps, EndingKeeps, ReleaseKeeps, Zenon DEF Serving
<1>5. ASSUME NEW n \in Nodes, NEW s \in SAs, Upset(n, s) PROVE Entries'
  BY <1>5, HandshakeKeeps, EndingKeeps, Zenon DEF Upset
<1>3. ASSUME NEW s \in SAs, Answer(s) \/ Establish(s) \/ GiveUp(s) PROVE Entries'
  BY <1>3, HandshakeKeeps, Zenon
<1>4. ASSUME NEW n \in Nodes,
             \/ Dial(n) \/ Redial(n) \/ Reload(n) \/ Revoke(n)
             \/ CloseAll(n) \/ Cancel(n)
      PROVE  Entries'
  BY <1>4, HandshakeKeeps, OperatorKeeps, Zenon
<1> QED
  BY <1>1, <1>2, <1>3, <1>4, <1>5, Zenon DEF Next

\* Babel's neighbor under the path's name belongs to the session that holds the
\* path (sessionSet.adoptFor, release), whatever redials, reloads, shutdowns and lost
\* messages there are, and however many SAs.
THEOREM NeighborFollowsTheorem ==
    ASSUME SessionAssumption
    PROVE  Spec => []NeighborFollows
<1>1. Entries => NeighborFollows
  BY Zenon DEF Entries, Entry, NeighborFollows
<1> QED
  BY <1>1, SetInit, SetStep, PTL DEF Spec

\* When Run cancels the sessions' loops, each session that still runs is being
\* closed by somebody (closeAll, adoptFor): no peer is left with an SA nobody tells
\* it about.
THEOREM NobodyLeftBehindTheorem ==
    ASSUME SessionAssumption
    PROVE  Spec => []NobodyLeftBehind
<1>1. Entries => NobodyLeftBehind
  <2> SUFFICES ASSUME Entries, NEW n \in Nodes, NEW s \in SAs, life[n] = "cancelled",
                      end[n][s] \in Running, None \notin SAs
               PROVE  <<n, s>> \in kill \/ \E t \in SAs : prev[n][t] = s
    BY Zenon DEF NobodyLeftBehind, Running, SessionAssumption
  <2>1. Owned(n, s) /\ live[n] = None
    BY Zenon DEF Entries, Entry
  <2> QED
    BY <2>1, Zenon DEF Owned
<1> QED
  BY <1>1, SetInit, SetStep, PTL DEF Spec

-----------------------------------------------------------------------------
(* The peer's ordered sender.                                              *)

\* What the proof needs to know of counting and of order.  It is proved last, so
\* that the theorems it comes from are not in the way of the other steps.
Countable ==
    /\ Cardinality({}) = 0 /\ \A x : Cardinality({x}) = 1
    /\ \A S : IsFiniteSet(S) =>
         /\ Cardinality(S) \in Nat
         /\ \A T \in SUBSET S : IsFiniteSet(T) /\ Cardinality(T) \in Nat
         /\ \A T : Cardinality(S \ T) = Cardinality(S) - Cardinality(S \cap T)
         /\ \A x : x \notin S => Cardinality(S \cup {x}) = Cardinality(S) + 1
    /\ \A T \in SUBSET Nat, n \in Nat :
         T # {} /\ (\A t \in T : t < n) => \E m \in T : \A t \in T : m >= t

Setting == SenderAssumption /\ Countable

Early == {"new", "offered", "slotted"}
Queueing == {"reserved", "sealed", "queued", "pending"}
Places == {"new", "offered", "slotted", "reserved", "sealed", "queued", "pending", "ready", "done"}
Errors == {"none", "reserve", "seal", "send"}
Kinds == {"data", "control"}
Sealable(p) == err[p] \notin {"reserve", "seal"}
OnWire(p) == \E i \in DOMAIN wire : ticket[p] \in wire[i]
Holders(k) == {p \in Batches : Kind(p) = k /\ hasSlot[p]}

SenderTypes ==
    /\ at \in [Batches -> Places]
    /\ ticket \in [Batches -> Int]
    /\ err \in [Batches -> Errors]
    /\ hasSlot \in [Batches -> BOOLEAN]
    /\ informed \in [Batches -> Int]
    /\ slots \in [Kinds -> Int]
    /\ reserved \in Nat /\ next \in Nat
    /\ wire \in Seq(SUBSET Nat)

\* What holds of a batch wherever it is: a ticket from Reserve on; on the wire
\* exactly when the transport had it; a slot from TakeSlot to the end; and told
\* of, if it is Babel's, by the end unless it went out.
Own(p) ==
    /\ at[p] \in Early => ticket[p] = -1 /\ err[p] = "none" /\ informed[p] = 0
    /\ at[p] \in Queueing \cup {"ready"} =>
         /\ ticket[p] \in Nat
         /\ informed[p] = IF p \in Control /\ err[p] = "reserve" THEN 1 ELSE 0
    /\ ticket[p] < reserved
    /\ at[p] \in Queueing => ~OnWire(p) /\ err[p] # "send"
    /\ at[p] = "ready" => ticket[p] < next /\ sender \in {"transmit", "finish"}
    /\ at[p] = "ready" /\ sender = "transmit" =>
         /\ ~OnWire(p) /\ err[p] # "send"
         /\ \A i \in DOMAIN wire : \A t \in wire[i] : t < ticket[p]
    /\ at[p] = "ready" /\ sender = "finish" => (OnWire(p) <=> Sealable(p))
    /\ at[p] = "done" /\ p \in Control =>
         informed[p] = IF err[p] = "none" /\ OnWire(p) THEN 0 ELSE 1
    /\ hasSlot[p] <=> at[p] \notin {"new", "offered", "done"}
    /\ sender = "stopped" => at[p] \notin {"queued", "pending", "ready"}

\* What is on the wire is in order and below next, and no two batches have one
\* ticket.
Sequenced ==
    /\ next <= reserved
    /\ \A i \in DOMAIN wire : \A t \in wire[i] : t < next
    /\ TicketsInOrder
    /\ \A p, c \in Batches : ticket[p] = ticket[c] /\ ticket[p] # -1 => p = c
    /\ sender \in {"discard", "stopped"} => queueClosed

Held == \A k \in Kinds : slots[k] = Cardinality(Holders(k)) /\ slots[k] <= Slots[k]

SenderInv == SenderTypes /\ (\A p \in Batches : Own(p)) /\ Sequenced /\ Held

LEMMA HoldersFinite ==
    ASSUME Setting, NEW k
    PROVE  IsFiniteSet(Holders(k)) /\ Cardinality(Holders(k)) \in Nat
<1>1. IsFiniteSet(Batches)
    BY Zenon DEF Setting, SenderAssumption
<1>2. Holders(k) \in SUBSET Batches
    BY Zenon DEF Holders
<1> QED
    BY <1>1, <1>2, Zenon DEF Setting, Countable

LEMMA SenderInvInit ==
    ASSUME Setting, SenderInit
    PROVE  SenderInv
<1>1. SenderTypes
  <2>1. /\ at \in [Batches -> Places] /\ err \in [Batches -> Errors]
        /\ hasSlot \in [Batches -> BOOLEAN]
      BY Zenon DEF SenderInit, Places, Errors
  <2>2. /\ ticket \in [Batches -> Int] /\ informed \in [Batches -> Int]
        /\ slots \in [Kinds -> Int] /\ reserved \in Nat /\ next \in Nat
      BY DEF SenderInit, NoTicket, Kinds
  <2>3. wire \in Seq(SUBSET Nat)
      BY DEF SenderInit
  <2> QED
      BY <2>1, <2>2, <2>3, Zenon DEF SenderTypes
<1>2. ASSUME NEW p \in Batches
      PROVE  Own(p)
  <2>1. /\ at[p] = "new" /\ err[p] = "none" /\ ~hasSlot[p]
        /\ ticket[p] = -1 /\ informed[p] = 0 /\ reserved = 0 /\ sender = "wait"
      BY <1>2, Zenon DEF SenderInit, NoTicket
  <2> QED
      BY <2>1 DEF Own, Early, Queueing
<1>3. Sequenced
    BY DEF SenderInit, Sequenced, TicketsInOrder, NoTicket
<1>4. \A k : Holders(k) = {}
    BY Zenon DEF SenderInit, Holders
<1>5. \A k \in Kinds : Slots[k] \in Nat
    BY DEF Setting, SenderAssumption, Kinds
<1>6. \A k \in Kinds : slots[k] = 0
    BY Zenon DEF SenderInit, Kinds
<1>7. Cardinality({}) = 0
    BY Zenon DEF Setting, Countable
<1>8. Held
    BY <1>4, <1>5, <1>6, <1>7 DEF Held
<1> QED
    BY <1>1, <1>2, <1>3, <1>8, Zenon DEF SenderInv

\* What the transport and the tickets share stays.
LEMMA SequencedKept ==
    ASSUME Sequenced, UNCHANGED <<wire, next, reserved, ticket, sender, queueClosed>>
    PROVE  Sequenced'
    BY Zenon DEF Sequenced, TicketsInOrder

LEMMA OwnKept ==
    ASSUME NEW p \in Batches, Own(p), UNCHANGED <<wire, next, sender>>,
           at'[p] = at[p], ticket'[p] = ticket[p], err'[p] = err[p],
           informed'[p] = informed[p], hasSlot'[p] = hasSlot[p], reserved' = reserved
    PROVE  Own(p)'
    BY Zenon DEF Own, OnWire, Sealable

LEMMA HeldKept ==
    ASSUME Held, UNCHANGED <<slots, hasSlot>>
    PROVE  Held'
    BY Zenon DEF Held, Holders

\* releaseSlot for the batches of a set.
LEMMA SlotsReleased ==
    ASSUME Setting, SenderTypes, Held, NEW bs \in SUBSET Batches,
           slots' = Released(bs), hasSlot' \in [Batches -> BOOLEAN],
           \A p \in Batches : hasSlot'[p] <=> hasSlot[p] /\ p \notin bs
    PROVE  Held' /\ slots' \in [Kinds -> Int]
<1> DEFINE out(k) == {p \in bs : Kind(p) = k /\ hasSlot[p]}
<1>1. DOMAIN slots = Kinds
    BY Zenon DEF SenderTypes
<1>2. ASSUME NEW k \in Kinds
      PROVE  slots'[k] = Cardinality(Holders(k))' /\ slots'[k] <= Slots[k] /\ slots'[k] \in Int
  <2>1. slots'[k] = slots[k] - Cardinality(out(k))
      BY <1>1, <1>2, Zenon DEF Released
  <2>2. Holders(k)' = Holders(k) \ out(k)
      BY Zenon DEF Holders, Kind
  <2>3. Holders(k) \cap out(k) = out(k) /\ out(k) \in SUBSET Holders(k)
      BY Zenon DEF Holders
  <2>4. Cardinality(Holders(k) \ out(k)) = Cardinality(Holders(k)) - Cardinality(out(k))
    <3>1. \A T : Cardinality(Holders(k) \ T) = Cardinality(Holders(k)) - Cardinality(Holders(k) \cap T)
        BY HoldersFinite, Zenon DEF Setting, Countable
    <3>2. Cardinality(Holders(k) \ out(k))
            = Cardinality(Holders(k)) - Cardinality(Holders(k) \cap out(k))
        BY <3>1, Zenon
    <3> QED
        BY <2>3, <3>2, Zenon
  <2>5. Cardinality(out(k)) \in Nat
      BY <2>3, HoldersFinite, Zenon DEF Setting, Countable
  <2>6. slots[k] = Cardinality(Holders(k)) /\ slots[k] <= Slots[k] /\ slots[k] \in Int
      BY <1>2, Zenon DEF Held, SenderTypes
  <2>7. Slots[k] \in Nat
      BY <1>2 DEF Kinds, Setting, SenderAssumption
  <2> HIDE DEF out
  <2> QED
      BY <2>1, <2>2, <2>4, <2>5, <2>6, <2>7
<1>3. slots' = [k \in Kinds |-> slots'[k]]
    BY <1>1, Zenon DEF Released
<1> QED
    BY <1>2, <1>3, Zenon DEF Held

\* A step of one batch that leaves its ticket and the sender alone.
LEMMA BatchStep ==
    ASSUME SenderInv, NEW p \in Batches,
           UNCHANGED <<ticket, reserved, wire, sender, next, queueClosed>>,
           at' \in [Batches -> Places], err' \in [Batches -> Errors],
           informed' \in [Batches -> Int], hasSlot' \in [Batches -> BOOLEAN],
           slots' \in [Kinds -> Int], Held', Own(p)',
           \A c \in Batches : c # p => /\ at'[c] = at[c] /\ err'[c] = err[c]
                                              /\ informed'[c] = informed[c]
                                              /\ hasSlot'[c] = hasSlot[c]
    PROVE  SenderInv'
<1>1. SenderTypes'
    BY Zenon DEF SenderInv, SenderTypes
<1>2. \A c \in Batches : Own(c)'
    BY OwnKept, Zenon DEF SenderInv
<1>3. Sequenced'
    BY SequencedKept, Zenon DEF SenderInv
<1> QED
    BY <1>1, <1>2, <1>3, Zenon DEF SenderInv

\* The fields a step of one batch does not write.
LEMMA RefuseKeeps ==
    ASSUME SenderInv, NEW p \in Batches, at[p] \in {"new", "offered"}, RefuseBatch(p),
           UNCHANGED <<ticket, err, reserved, wire, sender, next, queueClosed>>
    PROVE  SenderInv'
<1>1. /\ at' = [at EXCEPT ![p] = "done"] /\ UNCHANGED <<hasSlot, slots>>
      /\ informed' = [informed EXCEPT ![p] = IF p \in Control THEN informed[p] + 1 ELSE informed[p]]
    BY Zenon DEF RefuseBatch, To
<1>2. /\ at \in [Batches -> Places] /\ informed \in [Batches -> Int]
      /\ err \in [Batches -> Errors] /\ hasSlot \in [Batches -> BOOLEAN]
      /\ slots \in [Kinds -> Int] /\ Own(p) /\ Held
    BY Zenon DEF SenderInv, SenderTypes
<1>3. informed[p] + 1 \in Int
    BY <1>2
<1>4. at' \in [Batches -> Places] /\ informed' \in [Batches -> Int]
    BY <1>1, <1>2, <1>3, Zenon DEF Places
<1>5. ticket[p] = -1 /\ err[p] = "none" /\ informed[p] = 0 /\ ~hasSlot[p] /\ ticket[p] < reserved
    BY <1>2, Zenon DEF Own, Early
<1>6. at'[p] = "done" /\ (p \in Control => informed'[p] = 1) /\ ~hasSlot'[p]
    BY <1>1, <1>2, <1>5
<1>7. ~OnWire(p)'
    BY <1>5 DEF OnWire, SenderInv, SenderTypes
<1>8. Own(p)'
    BY <1>5, <1>6, <1>7 DEF Own, Early, Queueing
<1>9. Held'
    BY <1>1, <1>2, HeldKept, Zenon
<1> QED
    BY <1>1, <1>2, <1>4, <1>8, <1>9, BatchStep, Zenon

LEMMA OfferKeeps ==
    ASSUME SenderInv, NEW p \in Batches, OfferBatch(p)
    PROVE  SenderInv'
<1>1. UNCHANGED <<ticket, err, reserved, wire, sender, next, queueClosed>> /\ at[p] = "new"
    BY Zenon DEF OfferBatch, loopVars
<1>2. CASE RefuseBatch(p)
    BY <1>1, <1>2, RefuseKeeps, Zenon
<1>3. CASE at' = [at EXCEPT ![p] = "offered"] /\ UNCHANGED <<informed, hasSlot, slots>>
  <2>1. /\ at \in [Batches -> Places] /\ informed \in [Batches -> Int]
        /\ err \in [Batches -> Errors] /\ hasSlot \in [Batches -> BOOLEAN]
        /\ slots \in [Kinds -> Int] /\ Own(p) /\ Held
      BY Zenon DEF SenderInv, SenderTypes
  <2>2. at' \in [Batches -> Places] /\ at'[p] = "offered"
      BY <1>3, <2>1, Zenon DEF Places
  <2>3. Own(p)'
      BY <1>1, <1>3, <2>1, <2>2 DEF Own, Early, Queueing
  <2>4. Held'
      BY <1>3, <2>1, HeldKept, Zenon
  <2> QED
      BY <1>1, <1>3, <2>1, <2>2, <2>3, <2>4, BatchStep, Zenon
<1> QED
    BY <1>2, <1>3, Zenon DEF OfferBatch, To

LEMMA TakeSlotKeeps ==
    ASSUME Setting, SenderInv, NEW p \in Batches, TakeSlot(p)
    PROVE  SenderInv'
<1>1. UNCHANGED <<ticket, err, reserved, wire, sender, next, queueClosed>> /\ at[p] = "offered"
    BY Zenon DEF TakeSlot, loopVars
<1>2. CASE RefuseBatch(p)
    BY <1>1, <1>2, RefuseKeeps, Zenon
<1>3. CASE /\ slots[Kind(p)] < Slots[Kind(p)]
           /\ at' = [at EXCEPT ![p] = "slotted"]
           /\ slots' = [slots EXCEPT ![Kind(p)] = slots[Kind(p)] + 1]
           /\ hasSlot' = [hasSlot EXCEPT ![p] = TRUE]
           /\ UNCHANGED informed
  <2>1. /\ at \in [Batches -> Places] /\ informed \in [Batches -> Int]
        /\ err \in [Batches -> Errors] /\ hasSlot \in [Batches -> BOOLEAN]
        /\ slots \in [Kinds -> Int] /\ Own(p) /\ Held
      BY Zenon DEF SenderInv, SenderTypes
  <2>2. at' \in [Batches -> Places] /\ at'[p] = "slotted"
      BY <1>3, <2>1, Zenon DEF Places
  <2>3. hasSlot' \in [Batches -> BOOLEAN] /\ hasSlot'[p]
      BY <1>3, <2>1, Zenon
  <2>4. Own(p)'
      BY <1>1, <1>3, <2>1, <2>2, <2>3 DEF Own, Early, Queueing
  <2>5. Kind(p) \in Kinds
      BY Zenon DEF Kind, Kinds
  <2>6. \A k \in Kinds : slots[k] \in Int
      BY <2>1, Zenon
  <2>7. slots[Kind(p)] + 1 \in Int
      BY <2>5, <2>6
  <2>8. slots' \in [Kinds -> Int]
      BY <1>3, <2>1, <2>5, <2>7, Zenon
  <2>9. ASSUME NEW k \in Kinds
        PROVE  slots'[k] = Cardinality(Holders(k))' /\ slots'[k] <= Slots[k]
    <3>1. slots[k] = Cardinality(Holders(k)) /\ slots[k] <= Slots[k] /\ slots[k] \in Int
        BY <2>1, <2>9, Zenon DEF Held
    <3>2. CASE k = Kind(p)
      <4>1. Holders(k)' = Holders(k) \cup {p}
          BY <1>3, <2>1, <3>2, Zenon DEF Holders, Kind
      <4>2. p \notin Holders(k)
          BY <1>1, <2>1, Zenon DEF Holders, Own
      <4>3. Cardinality(Holders(k) \cup {p}) = Cardinality(Holders(k)) + 1
          BY <4>2, HoldersFinite, Zenon DEF Setting, Countable
      <4>4. slots'[k] = slots[k] + 1
          BY <1>3, <2>1, <2>9, <3>2, Zenon
      <4>5. Slots[k] \in Nat
          BY <2>9 DEF Kinds, Setting, SenderAssumption
      <4>6. slots[k] < Slots[k]
          BY <1>3, <3>2, Zenon
      <4> QED
          BY <3>1, <4>1, <4>3, <4>4, <4>5, <4>6
    <3>3. CASE k # Kind(p)
      <4>1. Holders(k)' = Holders(k)
          BY <1>3, <2>1, <3>3, Zenon DEF Holders, Kind
      <4>2. slots'[k] = slots[k]
          BY <1>3, <2>1, <2>9, <3>3, Zenon
      <4> QED
          BY <3>1, <4>1, <4>2, Zenon
    <3> QED
        BY <3>2, <3>3, Zenon
  <2>10. Held'
      BY <2>9, Zenon DEF Held
  <2> QED
      BY <1>1, <1>3, <2>1, <2>2, <2>3, <2>4, <2>8, <2>10, BatchStep, Zenon
<1> QED
    BY <1>2, <1>3, Zenon DEF TakeSlot, To

LEMMA ReserveKeeps ==
    ASSUME SenderInv, NEW p \in Batches, NEW failed \in BOOLEAN, Reserve(p, failed)
    PROVE  SenderInv'
<1>1. /\ at[p] = "slotted" /\ at' = [at EXCEPT ![p] = "reserved"]
      /\ ticket' = [ticket EXCEPT ![p] = reserved] /\ reserved' = reserved + 1
      /\ err' = [err EXCEPT ![p] = IF failed THEN "reserve" ELSE "none"]
      /\ informed' = [informed EXCEPT ![p] =
                        IF failed /\ p \in Control THEN informed[p] + 1 ELSE informed[p]]
      /\ UNCHANGED <<hasSlot, slots, wire, sender, next, queueClosed>>
    BY Zenon DEF Reserve, To, loopVars
<1>2. /\ at \in [Batches -> Places] /\ informed \in [Batches -> Int]
      /\ err \in [Batches -> Errors] /\ ticket \in [Batches -> Int]
      /\ hasSlot \in [Batches -> BOOLEAN] /\ reserved \in Nat /\ next \in Nat
      /\ wire \in Seq(SUBSET Nat) /\ Own(p) /\ Held
    BY Zenon DEF SenderInv, SenderTypes
<1>3. informed[p] + 1 \in Int /\ reserved \in Int /\ reserved + 1 \in Nat /\ reserved < reserved + 1
    BY <1>2
<1>4. SenderTypes'
    BY <1>1, <1>2, <1>3, Zenon DEF SenderInv, SenderTypes, Places, Errors
<1>5. /\ at'[p] = "reserved" /\ ticket'[p] = reserved
      /\ err'[p] = (IF failed THEN "reserve" ELSE "none")
      /\ informed'[p] = (IF failed /\ p \in Control THEN informed[p] + 1 ELSE informed[p])
    BY <1>1, <1>2, Zenon
<1>6. informed[p] = 0 /\ hasSlot[p]
    BY <1>1, <1>2, Zenon DEF Own, Early
<1>7. \A c \in Batches : ticket[c] < reserved
    BY Zenon DEF SenderInv, Own
<1>8. ~OnWire(p)'
  <2>1. \A i \in DOMAIN wire : \A t \in wire[i] : t < next
      BY Zenon DEF SenderInv, Sequenced
  <2>2. next <= reserved
      BY Zenon DEF SenderInv, Sequenced
  <2>3. ~(reserved < next)
      BY <1>2, <2>2
  <2> QED
      BY <1>1, <1>5, <2>1, <2>3, Zenon DEF OnWire
<1>9. Own(p)'
    BY <1>1, <1>2, <1>3, <1>5, <1>6, <1>8 DEF Own, Early, Queueing
<1>10. ASSUME NEW c \in Batches, c # p
       PROVE  Own(c)'
  <2>1. /\ at'[c] = at[c] /\ ticket'[c] = ticket[c] /\ err'[c] = err[c]
        /\ informed'[c] = informed[c]
      BY <1>1, <1>2, <1>10, Zenon
  <2>2. Own(c)
      BY <1>10, Zenon DEF SenderInv
  <2>3. ticket[c] < reserved /\ ticket[c] \in Int
      BY <1>2, <1>7, <1>10, Zenon
  <2>4. ticket'[c] < reserved'
      BY <1>1, <1>2, <2>1, <2>3
  <2> QED
      BY <1>1, <2>1, <2>2, <2>4, Zenon DEF Own, OnWire, Sealable
<1>11. Sequenced'
  <2>1. \A c, d \in Batches : ticket'[c] = ticket'[d] /\ ticket'[c] # -1 => c = d
    <3> SUFFICES ASSUME NEW c \in Batches, NEW d \in Batches,
                        ticket'[c] = ticket'[d], ticket'[c] # -1
                 PROVE  c = d
        BY Zenon
    <3>1. ticket[c] < reserved /\ ticket[d] < reserved /\ ticket[c] \in Int /\ ticket[d] \in Int
        BY <1>2, <1>7, Zenon
    <3>2. ticket[c] # reserved /\ ticket[d] # reserved
        BY <1>2, <3>1
    <3> QED
        BY <1>1, <1>2, <3>2, Zenon DEF SenderInv, Sequenced
  <2>2. next' <= reserved'
      BY <1>1, <1>2 DEF SenderInv, Sequenced
  <2> QED
      BY <1>1, <2>1, <2>2, Zenon DEF SenderInv, Sequenced, TicketsInOrder
<1>12. Held'
    BY <1>1, <1>2, HeldKept, Zenon
<1> QED
    BY <1>4, <1>9, <1>10, <1>11, <1>12, Zenon DEF SenderInv

LEMMA EncryptKeeps ==
    ASSUME SenderInv, NEW p \in Batches, NEW failed \in BOOLEAN, Encrypt(p, failed)
    PROVE  SenderInv'
<1>1. /\ at[p] = "reserved" /\ at' = [at EXCEPT ![p] = "sealed"]
      /\ err' = [err EXCEPT ![p] = IF failed THEN "seal" ELSE err[p]]
      /\ failed => err[p] = "none"
      /\ UNCHANGED <<ticket, reserved, hasSlot, slots, informed, wire, sender, next, queueClosed>>
    BY Zenon DEF Encrypt, To, loopVars
<1>2. /\ at \in [Batches -> Places] /\ informed \in [Batches -> Int]
      /\ err \in [Batches -> Errors] /\ hasSlot \in [Batches -> BOOLEAN]
      /\ slots \in [Kinds -> Int] /\ Own(p) /\ Held
    BY Zenon DEF SenderInv, SenderTypes
<1>3. at' \in [Batches -> Places] /\ err' \in [Batches -> Errors]
    BY <1>1, <1>2, Zenon DEF Places, Errors
<1>4. at'[p] = "sealed" /\ err'[p] = (IF failed THEN "seal" ELSE err[p])
    BY <1>1, <1>2, Zenon
<1>5. OnWire(p)' <=> OnWire(p)
    BY <1>1, Zenon DEF OnWire
<1>6. Own(p)'
    BY <1>1, <1>2, <1>4, <1>5 DEF Own, Early, Queueing
<1>7. Held'
    BY <1>1, <1>2, HeldKept, Zenon
<1> QED
    BY <1>1, <1>2, <1>3, <1>6, <1>7, BatchStep, Zenon

LEMMA DrainKeeps ==
    ASSUME SenderInv, NEW p \in Batches, Drain(p)
    PROVE  SenderInv'
<1>1. /\ at[p] = "queued" /\ at' = [at EXCEPT ![p] = "pending"] /\ sender # "stopped"
      /\ UNCHANGED <<ticket, err, reserved, hasSlot, slots, informed, wire, sender, next, queueClosed>>
    BY Zenon DEF Drain, To, loopVars
<1>2. /\ at \in [Batches -> Places] /\ informed \in [Batches -> Int]
      /\ err \in [Batches -> Errors] /\ hasSlot \in [Batches -> BOOLEAN]
      /\ slots \in [Kinds -> Int] /\ Own(p) /\ Held
    BY Zenon DEF SenderInv, SenderTypes
<1>3. at' \in [Batches -> Places] /\ at'[p] = "pending"
    BY <1>1, <1>2, Zenon DEF Places
<1>4. OnWire(p)' <=> OnWire(p)
    BY <1>1, Zenon DEF OnWire
<1>5. Own(p)'
    BY <1>1, <1>2, <1>3, <1>4 DEF Own, Early, Queueing
<1>6. Held'
    BY <1>1, <1>2, HeldKept, Zenon
<1> QED
    BY <1>1, <1>2, <1>3, <1>5, <1>6, BatchStep, Zenon

\* abandon, for the batches of a set: each is done, without its slot, and Babel
\* has heard of it once.
LEMMA AbandonKeeps ==
    ASSUME Setting, SenderInv, NEW bs \in SUBSET Batches,
           \A p \in bs : at[p] \in Queueing, AbandonAll(bs),
           UNCHANGED <<ticket, err, reserved, wire, next>>
    PROVE  /\ SenderTypes' /\ Held'
           /\ \A p \in bs : Own(p)'
           /\ \A p \in Batches \ bs :
                /\ at'[p] = at[p] /\ informed'[p] = informed[p] /\ hasSlot'[p] = hasSlot[p]
<1>1. /\ at \in [Batches -> Places] /\ informed \in [Batches -> Int]
      /\ hasSlot \in [Batches -> BOOLEAN] /\ Held /\ SenderTypes
    BY Zenon DEF SenderInv, SenderTypes
<1>2. /\ at' = [p \in Batches |-> IF p \in bs THEN "done" ELSE at[p]]
      /\ hasSlot' = [p \in Batches |-> hasSlot[p] /\ p \notin bs]
      /\ informed' = [p \in Batches |->
                        IF p \in bs /\ p \in Control /\ err[p] # "reserve"
                        THEN informed[p] + 1 ELSE informed[p]]
      /\ slots' = Released(bs)
    BY Zenon DEF AbandonAll, Hears
<1>3. \A p \in Batches : informed[p] + 1 \in Int /\ informed[p] \in Int
    BY <1>1
<1>4. /\ at' \in [Batches -> Places] /\ informed' \in [Batches -> Int]
      /\ hasSlot' \in [Batches -> BOOLEAN]
    BY <1>1, <1>2, <1>3, Zenon DEF Places
<1>5. \A p \in Batches : hasSlot'[p] <=> hasSlot[p] /\ p \notin bs
    BY <1>2, Zenon
<1>6. Held' /\ slots' \in [Kinds -> Int]
    BY <1>1, <1>2, <1>4, <1>5, SlotsReleased, Zenon
<1>7. SenderTypes'
    BY <1>4, <1>6, Zenon DEF SenderInv, SenderTypes
<1>8. ASSUME NEW p \in bs
      PROVE  Own(p)'
  <2>1. Own(p) /\ p \in Batches /\ at[p] \in Queueing
      BY <1>8, Zenon DEF SenderInv
  <2>2. /\ at'[p] = "done" /\ ~hasSlot'[p]
        /\ informed'[p] = (IF p \in Control /\ err[p] # "reserve" THEN informed[p] + 1 ELSE informed[p])
      BY <1>2, <1>8, <2>1, Zenon
  <2>3. informed[p] = (IF p \in Control /\ err[p] = "reserve" THEN 1 ELSE 0) /\ ~OnWire(p)
      BY <2>1, Zenon DEF Own
  <2>4. p \in Control => informed'[p] = 1
      BY <2>2, <2>3
  <2>5. ~OnWire(p)' /\ ticket'[p] < reserved'
      BY <2>1, <2>3, Zenon DEF OnWire, Own
  <2> QED
      BY <2>2, <2>4, <2>5, Zenon DEF Own, Early, Queueing
<1>9. \A p \in Batches \ bs :
        at'[p] = at[p] /\ informed'[p] = informed[p] /\ hasSlot'[p] = hasSlot[p]
    BY <1>1, <1>2, Zenon
<1> QED
    BY <1>6, <1>7, <1>8, <1>9, Zenon

LEMMA EnqueueKeeps ==
    ASSUME Setting, SenderInv, NEW p \in Batches, Enqueue(p)
    PROVE  SenderInv'
<1>1. /\ at[p] = "sealed"
      /\ UNCHANGED <<ticket, err, reserved, wire, sender, next, queueClosed>>
    BY Zenon DEF Enqueue, loopVars
<1>2. CASE AbandonAll({p})
  <2>1. SenderTypes' /\ Held' /\ Own(p)'
      BY <1>1, <1>2, AbandonKeeps, Zenon DEF Queueing
  <2>2. \A c \in Batches : c # p =>
          at'[c] = at[c] /\ informed'[c] = informed[c] /\ hasSlot'[c] = hasSlot[c]
      BY <1>1, <1>2, AbandonKeeps, Zenon DEF Queueing
  <2> QED
      BY <1>1, <2>1, <2>2, BatchStep, Zenon DEF SenderTypes
<1>3. CASE ~queueClosed /\ at' = [at EXCEPT ![p] = "queued"] /\ UNCHANGED <<hasSlot, slots, informed>>
  <2>1. /\ at \in [Batches -> Places] /\ informed \in [Batches -> Int]
        /\ err \in [Batches -> Errors] /\ hasSlot \in [Batches -> BOOLEAN]
        /\ slots \in [Kinds -> Int] /\ Own(p) /\ Held
      BY Zenon DEF SenderInv, SenderTypes
  <2>2. at' \in [Batches -> Places] /\ at'[p] = "queued"
      BY <1>3, <2>1, Zenon DEF Places
  <2>3. OnWire(p)' <=> OnWire(p)
      BY <1>1, Zenon DEF OnWire
  <2>4. sender # "stopped"
      BY <1>3, Zenon DEF SenderInv, Sequenced
  <2>5. Own(p)'
      BY <1>1, <1>3, <2>1, <2>2, <2>3, <2>4 DEF Own, Early, Queueing
  <2>6. Held'
      BY <1>3, <2>1, HeldKept, Zenon
  <2> QED
      BY <1>1, <1>3, <2>1, <2>2, <2>5, <2>6, BatchStep, Zenon
<1> QED
    BY <1>2, <1>3, Zenon DEF Enqueue, To

LEMMA DiscardedKeeps ==
    ASSUME Setting, SenderInv, Discarded
    PROVE  SenderInv'
<1> DEFINE bs == {p \in Batches : at[p] = "pending"}
<1>1. /\ sender = "discard" /\ sender' = "stopped" /\ AbandonAll(bs)
      /\ {p \in Batches : at[p] = "queued"} = {}
      /\ UNCHANGED <<ticket, err, reserved, wire, next, queueClosed>>
    BY Zenon DEF Discarded, In
<1>2. bs \in SUBSET Batches /\ \A p \in bs : at[p] \in Queueing
    BY Zenon DEF Queueing
<1>3. /\ SenderTypes' /\ Held'
      /\ \A p \in bs : Own(p)'
      /\ \A p \in Batches \ bs :
           at'[p] = at[p] /\ informed'[p] = informed[p] /\ hasSlot'[p] = hasSlot[p]
    BY <1>1, <1>2, AbandonKeeps, Zenon
<1>4. ASSUME NEW p \in Batches \ bs
      PROVE  Own(p)'
  <2>1. Own(p) /\ at[p] # "pending" /\ at[p] # "queued" /\ (OnWire(p)' <=> OnWire(p))
      BY <1>1, <1>4, Zenon DEF SenderInv, OnWire
  <2>2. at'[p] = at[p] /\ informed'[p] = informed[p] /\ hasSlot'[p] = hasSlot[p]
      BY <1>3, <1>4, Zenon
  <2>3. at[p] # "ready"
      BY <1>1, <2>1, Zenon DEF Own
  <2> QED
      BY <1>1, <2>1, <2>2, <2>3 DEF Own, Sealable, Early, Queueing
<1>5. Sequenced'
    BY <1>1, Zenon DEF SenderInv, Sequenced, TicketsInOrder
<1> QED
    BY <1>3, <1>4, <1>5, Zenon DEF SenderInv

LEMMA MaxIn ==
    ASSUME Setting, NEW T \in SUBSET Nat, T # {}, NEW n \in Nat, \A t \in T : t < n
    PROVE  Max(T) \in T /\ \A t \in T : t <= Max(T)
<1>1. PICK m \in T : \A t \in T : m >= t
    BY Zenon DEF Setting, Countable
<1>2. Max(T) \in T /\ \A t \in T : Max(T) >= t
    BY <1>1, Zenon DEF Max
<1> QED
    BY <1>2

LEMMA CollectKeepsOrder ==
    ASSUME Setting, SenderInv, CollectReady
    PROVE  SenderInv'
<1> DEFINE ready == {p \in Batches : at[p] = "pending" /\ Collects(ticket[p])}
           T == {ticket[p] : p \in ready}
<1>1. ready = {p \in In("pending") : Collects(ticket[p])}
    BY Zenon DEF In
<1>2. /\ sender = "wait" /\ ready # {}
      /\ at' = [p \in Batches |-> IF p \in ready THEN "ready" ELSE at[p]]
      /\ next' = Max(T) + 1
      /\ sender' = IF \A p \in ready : ~Sealable(p) THEN "finish" ELSE "transmit"
      /\ UNCHANGED <<ticket, err, hasSlot, informed, reserved, slots, wire, queueClosed>>
    BY <1>1, Zenon DEF CollectReady, Sealed, Sealable
<1>3. ASSUME NEW p \in ready
      PROVE  /\ p \in Batches /\ at[p] = "pending" /\ Own(p) /\ next <= ticket[p]
             /\ ticket[p] \in Nat /\ ticket[p] < reserved
             /\ ~OnWire(p) /\ err[p] # "send"
  <2>1. p \in Batches /\ at[p] = "pending" /\ Own(p) /\ ticket[p] >= next
      BY <1>3, Zenon DEF SenderInv, Collects
  <2>2. ticket[p] \in Nat /\ ticket[p] < reserved /\ ~OnWire(p) /\ err[p] # "send"
      BY <2>1, Zenon DEF Own, Queueing
  <2>3. next \in Nat
      BY Zenon DEF SenderInv, SenderTypes
  <2>4. next <= ticket[p]
      BY <2>1, <2>2, <2>3
  <2> QED
      BY <2>1, <2>2, <2>4, Zenon
<1>4. reserved \in Nat /\ next \in Nat
    BY Zenon DEF SenderInv, SenderTypes
<1>5. Max(T) \in T /\ \A t \in T : t <= Max(T)
  <2>1. T \in SUBSET Nat /\ T # {} /\ \A t \in T : t < reserved
      BY <1>2, <1>3, Zenon
  <2> HIDE DEF T
  <2> QED
      BY <1>4, <2>1, MaxIn, Zenon
<1>6. PICK q \in ready : Max(T) = ticket[q]
    BY <1>5, Zenon
<1>7. /\ next' \in Nat /\ next < next' /\ next' <= reserved
    BY <1>2, <1>3, <1>4, <1>6
<1>8. ASSUME NEW p \in ready
      PROVE  ticket[p] < next'
  <2>1. ticket[p] <= ticket[q] /\ ticket[p] \in Nat /\ ticket[q] \in Nat
      BY <1>3, <1>5, <1>6, <1>8, Zenon
  <2>2. next' = ticket[q] + 1
      BY <1>2, <1>6, Zenon
  <2> QED
      BY <2>1, <2>2
<1>9. \A i \in DOMAIN wire : \A t \in wire[i] : t < next /\ t \in Nat
  <2>1. wire \in Seq(SUBSET Nat) /\ \A i \in DOMAIN wire : \A t \in wire[i] : t < next
      BY Zenon DEF SenderInv, SenderTypes, Sequenced
  <2> QED
      BY <2>1
<1>10. \A p \in Batches : OnWire(p)' <=> OnWire(p)
    BY <1>2, Zenon DEF OnWire
<1>11. SenderTypes'
  <2>1. at' \in [Batches -> Places]
      BY <1>2, Zenon DEF SenderInv, SenderTypes, Places
  <2> QED
      BY <1>2, <1>7, <2>1, Zenon DEF SenderInv, SenderTypes
<1>12. ASSUME NEW p \in ready
       PROVE  Own(p)'
  <2>1. at'[p] = "ready" /\ sender' \in {"transmit", "finish"}
      BY <1>2, <1>3, <1>12, Zenon
  <2>2. \A i \in DOMAIN wire : \A t \in wire[i] : t < ticket[p]
      BY <1>3, <1>4, <1>9, <1>12
  <2>3. sender' = "finish" => ~Sealable(p)
      BY <1>2, <1>12, Zenon
  <2>4. /\ Own(p) /\ at[p] = "pending" /\ ~OnWire(p) /\ err[p] # "send" /\ ticket[p] \in Nat
        /\ ticket[p] < reserved /\ ticket[p] < next' /\ ~OnWire(p)'
      BY <1>3, <1>8, <1>10, <1>12, Zenon
  <2>5. hasSlot[p] /\ informed[p] = (IF p \in Control /\ err[p] = "reserve" THEN 1 ELSE 0)
      BY <2>4, Zenon DEF Own, Queueing
  <2> HIDE DEF ready, T
  <2> QED
      BY <1>2, <2>1, <2>2, <2>3, <2>4, <2>5, Zenon DEF Own, Sealable, Early, Queueing
<1>13. ASSUME NEW p \in Batches, p \notin ready
       PROVE  Own(p)'
  <2>1. at'[p] = at[p] /\ sender' \in {"transmit", "finish"} /\ Own(p) /\ (OnWire(p)' <=> OnWire(p))
      BY <1>2, <1>10, <1>13, Zenon DEF SenderInv
  <2>2. at[p] # "ready"
      BY <1>2, <2>1, Zenon DEF Own
  <2> HIDE DEF ready, T
  <2> QED
      BY <1>2, <2>1, <2>2, Zenon DEF Own, Sealable
<1>14. Sequenced'
  <2>1. \A i \in DOMAIN wire : \A t \in wire[i] : t < next'
      BY <1>4, <1>7, <1>9
  <2>2. sender' \notin {"discard", "stopped"}
      BY <1>2, Zenon
  <2> QED
      BY <1>2, <1>7, <2>1, <2>2, Zenon DEF SenderInv, Sequenced, TicketsInOrder
<1>15. Held'
    BY <1>2, HeldKept, Zenon DEF SenderInv
<1> QED
    BY <1>11, <1>12, <1>13, <1>14, <1>15, Zenon DEF SenderInv

LEMMA TransmittedKeeps ==
    ASSUME SenderInv, NEW failed \in BOOLEAN, Transmitted(failed)
    PROVE  SenderInv'
<1> DEFINE out == {p \in Batches : at[p] = "ready" /\ Sealable(p)}
           T == {ticket[p] : p \in out}
<1>1. out = {p \in In("ready") : Sealed(p)}
    BY Zenon DEF In, Sealed, Sealable
<1>2. /\ sender = "transmit" /\ sender' = "finish"
      /\ err' = [p \in Batches |-> IF failed /\ p \in out THEN "send" ELSE err[p]]
      /\ wire' = Append(wire, T)
      /\ UNCHANGED <<at, ticket, hasSlot, informed, reserved, slots, next, queueClosed>>
    BY <1>1, Zenon DEF Transmitted
<1>3. ASSUME NEW p \in out
      PROVE  /\ p \in Batches /\ at[p] = "ready" /\ Own(p) /\ ticket[p] \in Nat
             /\ ticket[p] < next /\ \A i \in DOMAIN wire : \A t \in wire[i] : t < ticket[p]
    BY <1>2, <1>3, Zenon DEF SenderInv, Own
<1>4. T \in SUBSET Nat /\ (\A t \in T : t < next)
    BY <1>3, Zenon
<1>5. wire \in Seq(SUBSET Nat) /\ wire' \in Seq(SUBSET Nat) /\ Len(wire) \in Nat
      /\ DOMAIN wire = 1..Len(wire) /\ DOMAIN wire' = 1..Len(wire) + 1
      /\ (\A i \in DOMAIN wire : wire'[i] = wire[i]) /\ wire'[Len(wire) + 1] = T
  <2>1. wire \in Seq(SUBSET Nat) /\ T \in SUBSET Nat /\ wire' = Append(wire, T)
      BY <1>2, <1>4, Zenon DEF SenderInv, SenderTypes
  <2> HIDE DEF T
  <2> QED
      BY <2>1
<1>6. \A i \in DOMAIN wire' : i \in DOMAIN wire \/ i = Len(wire) + 1
    BY <1>5
<1>7. \A i \in DOMAIN wire : i \in DOMAIN wire'
    BY <1>5
<1>8. Len(wire) + 1 \in DOMAIN wire'
    BY <1>5
<1>9. ASSUME NEW p \in Batches
      PROVE  OnWire(p)' <=> OnWire(p) \/ p \in out
  <2>1. ticket[p] \in T <=> p \in out
    <3>1. ASSUME ticket[p] \in T
          PROVE  p \in out
      <4>1. PICK c \in out : ticket[p] = ticket[c]
          BY <3>1, Zenon
      <4>2. ticket[c] \in Nat /\ c \in Batches
          BY <1>3, Zenon
      <4>3. ticket[c] # -1
          BY <4>2
      <4> QED
          BY <1>9, <4>1, <4>2, <4>3, Zenon DEF SenderInv, Sequenced
    <3> QED
        BY <3>1, Zenon
  <2> HIDE DEF T, out
  <2> QED
      BY <1>2, <1>5, <1>6, <1>7, <1>8, <2>1, Zenon DEF OnWire
<1>10. SenderTypes'
  <2>1. err' \in [Batches -> Errors]
      BY <1>2, Zenon DEF SenderInv, SenderTypes, Errors
  <2> QED
      BY <1>2, <1>5, <2>1, Zenon DEF SenderInv, SenderTypes
<1>11. ASSUME NEW p \in Batches
       PROVE  Own(p)'
  <2>1. Own(p) /\ err'[p] = IF failed /\ p \in out THEN "send" ELSE err[p]
      BY <1>2, <1>11, Zenon DEF SenderInv
  <2>2. CASE p \in out
    <3>1. at[p] = "ready" /\ Sealable(p) /\ OnWire(p)' /\ Sealable(p)'
        BY <1>9, <1>11, <2>1, <2>2, Zenon DEF Sealable
    <3>2. err[p] # "reserve" /\ err'[p] # "reserve"
        BY <2>1, <3>1, Zenon DEF Sealable
    <3> HIDE DEF out, T
    <3> QED
        BY <1>2, <2>1, <3>1, <3>2, Zenon DEF Own, Early, Queueing
  <2>3. CASE p \notin out
    <3>1. err'[p] = err[p] /\ (OnWire(p)' <=> OnWire(p)) /\ (Sealable(p)' <=> Sealable(p))
        BY <1>9, <1>11, <2>1, <2>3, Zenon DEF Sealable
    <3>2. at[p] = "ready" => ~Sealable(p) /\ ~OnWire(p)
        BY <1>2, <1>11, <2>1, <2>3, Zenon DEF Own
    <3> HIDE DEF out, T
    <3> QED
        BY <1>2, <2>1, <3>1, <3>2, Zenon DEF Own
  <2> QED
      BY <2>2, <2>3, Zenon
<1>12. Sequenced'
  <2>1. \A i \in DOMAIN wire : \A t \in wire[i] : t < next /\ \A u \in T : t < u
      BY <1>3, Zenon DEF SenderInv, Sequenced
  <2>2. \A i, j \in DOMAIN wire : i < j => \A t \in wire[i], u \in wire[j] : t < u
      BY Zenon DEF SenderInv, Sequenced, TicketsInOrder
  <2>3. \A i \in DOMAIN wire' : \A t \in wire'[i] : t < next
      BY <1>4, <1>5, <1>6, <2>1, Zenon
  <2>4. \A i, j \in DOMAIN wire' : i < j => i \in DOMAIN wire
      BY <1>5
  <2>5. \A i, j \in DOMAIN wire' : i < j => \A t \in wire'[i], u \in wire'[j] : t < u
    <3> HIDE DEF T, out
    <3> QED
        BY <1>5, <1>6, <2>1, <2>2, <2>4, Zenon
  <2> QED
      BY <1>2, <2>3, <2>5, Zenon DEF SenderInv, Sequenced, TicketsInOrder
<1>13. Held'
    BY <1>2, HeldKept, Zenon DEF SenderInv
<1> QED
    BY <1>10, <1>11, <1>12, <1>13, Zenon DEF SenderInv

LEMMA FinishKeeps ==
    ASSUME Setting, SenderInv, NEW p \in Batches, Finish(p)
    PROVE  SenderInv'
<1>1. /\ sender = "finish" /\ at[p] = "ready" /\ at' = [at EXCEPT ![p] = "done"]
      /\ hasSlot' = [hasSlot EXCEPT ![p] = FALSE] /\ slots' = Released({p})
      /\ informed' = [informed EXCEPT ![p] =
             IF err[p] # "none" /\ p \in Control /\ err[p] # "reserve"
             THEN informed[p] + 1 ELSE informed[p]]
      /\ UNCHANGED <<ticket, err, reserved, wire, sender, next, queueClosed>>
    BY Zenon DEF Finish, To, Hears, loopVars
<1>2. /\ at \in [Batches -> Places] /\ informed \in [Batches -> Int]
      /\ err \in [Batches -> Errors] /\ hasSlot \in [Batches -> BOOLEAN]
      /\ Own(p) /\ Held /\ SenderTypes
    BY Zenon DEF SenderInv, SenderTypes
<1>3. informed[p] + 1 \in Int
    BY <1>2
<1>4. /\ at' \in [Batches -> Places] /\ informed' \in [Batches -> Int]
      /\ hasSlot' \in [Batches -> BOOLEAN] /\ at'[p] = "done" /\ ~hasSlot'[p]
    BY <1>1, <1>2, <1>3, Zenon DEF Places
<1>5. \A c \in Batches : hasSlot'[c] <=> hasSlot[c] /\ c \notin {p}
    BY <1>1, <1>2, Zenon
<1>6. {p} \in SUBSET Batches
    BY Zenon
<1>7. Held' /\ slots' \in [Kinds -> Int]
    BY <1>1, <1>2, <1>4, <1>5, <1>6, SlotsReleased, Zenon
<1>8. /\ informed[p] = (IF p \in Control /\ err[p] = "reserve" THEN 1 ELSE 0)
      /\ OnWire(p) <=> Sealable(p)
      /\ ticket[p] < reserved
    BY <1>1, <1>2, Zenon DEF Own
<1>9. p \in Control => informed'[p] = IF err[p] = "none" /\ OnWire(p) THEN 0 ELSE 1
  <2>1. informed'[p] = IF err[p] # "none" /\ p \in Control /\ err[p] # "reserve"
                       THEN informed[p] + 1 ELSE informed[p]
      BY <1>1, <1>2, Zenon
  <2> QED
      BY <1>8, <2>1 DEF Sealable
<1>10. OnWire(p)' <=> OnWire(p)
    BY <1>1, Zenon DEF OnWire
<1>11. Own(p)'
    BY <1>1, <1>4, <1>8, <1>9, <1>10, Zenon DEF Own, Early, Queueing
<1> QED
    BY <1>1, <1>2, <1>4, <1>7, <1>11, BatchStep, Zenon

\* The steps of the loop and of Close that touch no batch.
LEMMA TurnKeeps ==
    ASSUME SenderInv, Again \/ Discard \/ Close \/ CloseReturns
                      \/ UNCHANGED senderVars
    PROVE  SenderInv'
<1>1. UNCHANGED <<at, ticket, err, hasSlot, informed, reserved, slots, wire, next>>
    BY Zenon DEF Again, Discard, Close, CloseReturns, senderVars,
                 batchVars, loopVars
<1>2. \/ UNCHANGED <<sender, queueClosed>>
      \/ sender' = "wait" /\ UNCHANGED queueClosed /\ \A p \in Batches : at[p] # "ready"
      \/ sender = "wait" /\ sender' = "discard" /\ queueClosed'
    BY Zenon DEF Again, Discard, Close, CloseReturns, senderVars,
                 loopVars, In
<1>3. SenderTypes' /\ Held'
    BY <1>1, HeldKept, Zenon DEF SenderInv, SenderTypes
<1>4. Sequenced'
    BY <1>1, <1>2, Zenon DEF SenderInv, Sequenced, TicketsInOrder
<1>5. ASSUME NEW p \in Batches
      PROVE  Own(p)'
  <2>1. Own(p) /\ (OnWire(p)' <=> OnWire(p))
      BY <1>1, <1>5, Zenon DEF SenderInv, OnWire
  <2> QED
      BY <1>1, <1>2, <1>5, <2>1, Zenon DEF Own, Sealable
<1> QED
    BY <1>3, <1>4, <1>5, Zenon DEF SenderInv

LEMMA SenderInvStep ==
    ASSUME Setting, SenderInv, [SenderNext]_senderVars
    PROVE  SenderInv'
<1>1. CASE \E p \in Batches : Carry(p)
    BY <1>1, OfferKeeps, TakeSlotKeeps, ReserveKeeps, EncryptKeeps, EnqueueKeeps, Zenon
       DEF Carry
<1>2. CASE Loop
    BY <1>2, CollectKeepsOrder, TurnKeeps, DiscardedKeeps, DrainKeeps, FinishKeeps, Zenon
       DEF Loop
<1>3. CASE \E failed \in BOOLEAN : Transmitted(failed)
    BY <1>3, TransmittedKeeps, Zenon
<1>4. CASE Close \/ CloseReturns \/ UNCHANGED senderVars
    BY <1>4, TurnKeeps, Zenon
<1> QED
    BY <1>1, <1>2, <1>3, <1>4, Zenon DEF SenderNext

-----------------------------------------------------------------------------
(* The sender's counters.                                                  *)

LEMMA PeerBatches ==
    ASSUME Setting
    PROVE  /\ IsFiniteSet(Batches) /\ Size \in Nat
           /\ \A S \in SUBSET Batches : IsFiniteSet(S)
<1>1. IsFiniteSet(Batches)
    BY Zenon DEF Setting, SenderAssumption
<1>2. Size \in Nat
    BY DEF Setting, SenderAssumption
<1> QED
    BY <1>1, <1>2, Zenon DEF Setting, Countable

\* The packets of a set of batches are those of a part of it and of the rest.
LEMMA TotalSplit ==
    ASSUME Setting, NEW S \in SUBSET Batches, NEW T \in SUBSET S
    PROVE  /\ Total(S) \in Nat /\ Total(T) \in Nat
           /\ Total(S \ T) = Total(S) - Total(T)
<1>1. \A R \in SUBSET Batches :
        /\ IsFiniteSet(R \cap Data) /\ IsFiniteSet(R \ Data)
        /\ Cardinality(R \cap Data) \in Nat /\ Cardinality(R \ Data) \in Nat
    BY PeerBatches, Zenon DEF Setting, Countable
<1>2. \A R : Total(R) = Size * Cardinality(R \cap Data) + Cardinality(R \ Data)
    BY Zenon DEF Total
<1>3. /\ (S \ T) \cap Data = (S \cap Data) \ (T \cap Data)
      /\ (S \cap Data) \cap (T \cap Data) = T \cap Data
      /\ (S \ T) \ Data = (S \ Data) \ (T \ Data)
      /\ (S \ Data) \cap (T \ Data) = T \ Data
      /\ T \in SUBSET Batches
    BY Zenon
<1>4. Cardinality((S \ T) \cap Data) = Cardinality(S \cap Data) - Cardinality(T \cap Data)
  <2>1. IsFiniteSet(S \cap Data)
      BY <1>1, Zenon
  <2>2. Cardinality((S \cap Data) \ (T \cap Data))
          = Cardinality(S \cap Data) - Cardinality((S \cap Data) \cap (T \cap Data))
      BY <2>1, Zenon DEF Setting, Countable
  <2> QED
      BY <1>3, <2>2, Zenon
<1>5. Cardinality((S \ T) \ Data) = Cardinality(S \ Data) - Cardinality(T \ Data)
  <2>1. IsFiniteSet(S \ Data)
      BY <1>1, Zenon
  <2>2. Cardinality((S \ Data) \ (T \ Data))
          = Cardinality(S \ Data) - Cardinality((S \ Data) \cap (T \ Data))
      BY <2>1, Zenon DEF Setting, Countable
  <2> QED
      BY <1>3, <2>2, Zenon
<1> DEFINE sd == Cardinality(S \cap Data)  td == Cardinality(T \cap Data)
           so == Cardinality(S \ Data)     to == Cardinality(T \ Data)
<1>6. sd \in Nat /\ td \in Nat /\ so \in Nat /\ to \in Nat /\ Size \in Nat
    BY <1>1, <1>3, PeerBatches, Zenon
<1>7. /\ Total(S) = Size * sd + so /\ Total(T) = Size * td + to
      /\ Total(S \ T) = Size * (sd - td) + (so - to)
    BY <1>2, <1>4, <1>5, Zenon
<1> HIDE DEF sd, td, so, to
<1>8. Size * sd \in Nat /\ Size * td \in Nat /\ Size * (sd - td) = Size * sd - Size * td
    BY ONLY <1>6
<1> QED
    BY ONLY <1>6, <1>7, <1>8

LEMMA TotalOne ==
    ASSUME Setting, NEW p \in Batches
    PROVE  Total({p}) = Count(p) /\ Count(p) \in Nat
<1>1. /\ Cardinality({p}) = 1 /\ Cardinality({}) = 0 /\ Size \in Nat
    BY PeerBatches, Zenon DEF Setting, Countable
<1>2. Total({p}) = Size * Cardinality({p} \cap Data) + Cardinality({p} \ Data)
    BY Zenon DEF Total
<1>3. CASE p \in Data
  <2>1. {p} \cap Data = {p} /\ {p} \ Data = {} /\ Count(p) = Size
      BY <1>3, Zenon DEF Count
  <2>2. Total({p}) = Size * 1 + 0
      BY <1>1, <1>2, <2>1, Zenon
  <2> QED
      BY ONLY <1>1, <2>1, <2>2
<1>4. CASE p \notin Data
  <2>1. {p} \cap Data = {} /\ {p} \ Data = {p} /\ Count(p) = 1
      BY <1>4, Zenon DEF Count
  <2>2. Total({p}) = Size * 0 + 1
      BY <1>1, <1>2, <2>1, Zenon
  <2> QED
      BY ONLY <1>1, <2>1, <2>2
<1> QED
    BY <1>3, <1>4, Zenon

LEMMA TotalNone == ASSUME Setting PROVE Total({}) = 0
<1>1. Cardinality({}) = 0 /\ Size \in Nat
    BY PeerBatches, Zenon DEF Setting, Countable
<1>2. {} \cap Data = {} /\ {} \ Data = {}
    BY Zenon
<1>3. Total({}) = Size * 0 + 0
    BY <1>1, <1>2, Zenon DEF Total
<1> QED
    BY ONLY <1>1, <1>3

Stages == {"wait", "transmit", "finish", "discard", "stopped"}

\* A batch is counted before it is done only when its place was refused.
CountTypes ==
    /\ counted \in [Batches -> BOOLEAN]
    /\ dropped \in Nat /\ sendFailed \in Nat /\ sent \in Nat
    /\ \A p \in Batches : ticket[p] >= -1 /\ informed[p] >= 0
    /\ \A p \in Batches : counted[p] => at[p] = "done" \/ err[p] = "reserve"
    /\ sender \in Stages /\ closer \in {"open", "waits", "returned"}
    /\ stop \in BOOLEAN /\ queueClosed \in BOOLEAN

Counting == CountTypes /\ Accounted

LEMMA CountingInit ==
    ASSUME Setting, SenderInit
    PROVE  Counting
<1>1. CountTypes
  <2>1. /\ counted \in [Batches -> BOOLEAN] /\ sender \in Stages
        /\ \A p \in Batches : ~counted[p]
        /\ closer \in {"open", "waits", "returned"} /\ stop \in BOOLEAN /\ queueClosed \in BOOLEAN
        /\ dropped = 0 /\ sendFailed = 0 /\ sent = 0
        /\ \A p \in Batches : ticket[p] = -1 /\ informed[p] = 0
      BY Zenon DEF SenderInit, Stages, NoTicket
  <2>2. dropped \in Nat /\ \A p \in Batches : ticket[p] >= -1 /\ informed[p] >= 0
      BY <2>1
  <2> QED
      BY <2>1, <2>2, Zenon DEF CountTypes
<1>2. Open = Batches
    BY Zenon DEF SenderInit, Open
<1>3. Total(Batches) \in Nat
    BY TotalSplit, Zenon
<1>4. dropped = 0 /\ sendFailed = 0 /\ sent = 0
    BY Zenon DEF SenderInit
<1>5. dropped + sendFailed + sent = Total(Batches) - Total(Batches)
    BY ONLY <1>3, <1>4
<1> QED
    BY <1>1, <1>2, <1>5, Zenon DEF Counting, Accounted

\* Batches leave the open ones as their packets are counted.
LEMMA AccountedMoves ==
    ASSUME Setting, Counting, CountTypes', NEW out \in SUBSET Open,
           Open' = Open \ out,
           dropped' + sendFailed' + sent' = dropped + sendFailed + sent + Total(out)
    PROVE  Counting'
<1>1. Open \in SUBSET Batches
    BY Zenon DEF Open
<1>2. /\ Total(Open) \in Nat /\ Total(out) \in Nat
      /\ Total(Open \ out) = Total(Open) - Total(out)
    BY <1>1, TotalSplit, Zenon
<1>3. Total(Batches) \in Nat
    BY TotalSplit, Zenon
<1>4. /\ dropped + sendFailed + sent = Total(Batches) - Total(Open)
      /\ dropped \in Nat /\ sendFailed \in Nat /\ sent \in Nat
    BY Zenon DEF Counting, CountTypes, Accounted
<1>5. dropped' + sendFailed' + sent'
        = Total(Batches) - Total(Open \ out)
  <2> DEFINE all == Total(Batches)  open == Total(Open)
             gone == Total(out)  rest == Total(Open \ out)
             before == dropped + sendFailed + sent
             after == dropped' + sendFailed' + sent'
  <2>1. /\ all \in Nat /\ open \in Nat /\ gone \in Nat /\ rest = open - gone
        /\ before = all - open /\ after = before + gone
      BY <1>2, <1>3, <1>4, Zenon
  <2> HIDE DEF all, open, gone, rest, before, after
  <2>2. after = all - rest
      BY ONLY <2>1
  <2> QED
      BY <2>2, Zenon DEF all, rest, after
<1>6. Accounted'
    BY <1>5, Zenon DEF Accounted, Batches
<1> QED
    BY <1>6, Zenon DEF Counting

\* Nothing is counted and no batch leaves the open ones.
LEMMA CountingStays ==
    ASSUME Setting, Counting, CountTypes', Open' = Open,
           UNCHANGED <<dropped, sendFailed, sent>>
    PROVE  Counting'
    BY Zenon DEF Counting, Accounted, Batches

\* One batch is counted.
LEMMA CountingOne ==
    ASSUME Setting, Counting, CountTypes', NEW p \in Open,
           Open' = Open \ {p},
           \/ dropped' = dropped + Count(p) /\ UNCHANGED <<sendFailed, sent>>
           \/ sendFailed' = sendFailed + Count(p) /\ UNCHANGED <<dropped, sent>>
    PROVE  Counting'
<1>1. p \in Batches /\ {p} \in SUBSET Open
    BY Zenon DEF Open
<1>2. Total({p}) = Count(p) /\ Count(p) \in Nat
    BY <1>1, TotalOne, Zenon
<1>3. dropped \in Nat /\ sendFailed \in Nat /\ sent \in Nat
    BY Zenon DEF Counting, CountTypes
<1>4. dropped' + sendFailed' + sent' = dropped + sendFailed + sent + Count(p)
    BY <1>2, <1>3
<1> QED
    BY <1>1, <1>2, <1>4, AccountedMoves, Zenon

\* A step of one batch on its way to the queue.
LEMMA CarryCounts ==
    ASSUME Setting, SenderInv, Counting, NEW p \in Batches,
           at[p] \notin {"ready", "done"}, at'[p] \notin {"ready", "done"},
           counted[p] => err'[p] = "reserve",
           \A c \in Batches : c # p => at'[c] = at[c] /\ err'[c] = err[c],
           \A c \in Batches : ticket'[c] >= -1 /\ informed'[c] >= 0,
           UNCHANGED <<counted, dropped, sendFailed, sent, stop, queueClosed, sender, closer>>
    PROVE  Counting'
<1>1. CountTypes'
  <2>1. \A c \in Batches : counted[c] => at'[c] = "done" \/ err'[c] = "reserve"
      BY Zenon DEF Counting, CountTypes
  <2> QED
      BY <2>1, Zenon DEF Counting, CountTypes, Batches
<1>2. Open' = Open
    BY Zenon DEF Open, Batches
<1> QED
    BY <1>1, <1>2, CountingStays, Zenon

\* Before it has a place a batch is open.
LEMMA EarlyOpen ==
    ASSUME SenderInv, Counting, NEW p \in Batches, at[p] \in Early
    PROVE  p \in Open /\ ~counted[p] /\ at[p] \notin {"ready", "done"} /\ err[p] = "none"
<1>1. err[p] = "none"
    BY Zenon DEF SenderInv, Own
<1>2. at[p] \notin {"ready", "done"}
    BY Zenon DEF Early
<1>3. ~counted[p]
    BY <1>1, <1>2, Zenon DEF Counting, CountTypes
<1> QED
    BY <1>1, <1>2, <1>3, Zenon DEF Open

LEMMA RefuseCounts ==
    ASSUME Setting, SenderInv, Counting, NEW p \in Batches,
           at[p] \in {"new", "offered"}, RefuseBatch(p),
           UNCHANGED <<ticket, err, counted, sendFailed, sent, stop, queueClosed, sender, closer>>
    PROVE  Counting'
<1>1. /\ at' = [at EXCEPT ![p] = "done"] /\ dropped' = dropped + Count(p)
      /\ informed' = [informed EXCEPT ![p] = IF p \in Control THEN informed[p] + 1 ELSE informed[p]]
    BY Zenon DEF RefuseBatch, To
<1>2. /\ at \in [Batches -> Places] /\ informed \in [Batches -> Int]
      /\ \A c \in Batches : informed[c] >= 0 /\ ticket[c] >= -1
      /\ dropped \in Nat
    BY Zenon DEF SenderInv, SenderTypes, Counting, CountTypes
<1>3. p \in Open
    BY EarlyOpen, Zenon DEF Early
<1>4. Count(p) \in Nat
    BY TotalOne, Zenon
<1>5. /\ at'[p] = "done" /\ \A c \in Batches : c # p => at'[c] = at[c]
      /\ \A c \in Batches : informed'[c] = informed[c] \/ informed'[c] = informed[c] + 1
    BY <1>1, <1>2, Zenon
<1>6. \A c \in Batches : informed'[c] >= 0
    BY <1>2, <1>5
<1>7. dropped' \in Nat
    BY <1>1, <1>2, <1>4
<1>8. CountTypes'
  <2>1. \A c \in Batches : counted[c] => at'[c] = "done" \/ err[c] = "reserve"
      BY <1>5, Zenon DEF Counting, CountTypes
  <2> QED
      BY <1>6, <1>7, <2>1, Zenon DEF Counting, CountTypes, Batches
<1>9. Open' = Open \ {p}
    BY <1>5, Zenon DEF Open, Batches
<1> QED
    BY <1>1, <1>3, <1>8, <1>9, CountingOne, Zenon

LEMMA OfferCounts ==
    ASSUME Setting, SenderInv, Counting, NEW p \in Batches, OfferBatch(p)
    PROVE  Counting'
<1>1. /\ at[p] = "new" /\ UNCHANGED <<ticket, err, counted, sendFailed, sent, stop, queueClosed,
                                      sender, closer>>
    BY Zenon DEF OfferBatch, loopVars
<1>2. CASE stop
    BY <1>1, <1>2, RefuseCounts, Zenon DEF OfferBatch
<1>3. CASE ~stop
  <2>1. at' = [at EXCEPT ![p] = "offered"] /\ UNCHANGED <<dropped, informed>>
      BY <1>3, Zenon DEF OfferBatch, To
  <2>2. at'[p] = "offered" /\ \A c \in Batches : c # p => at'[c] = at[c]
      BY <2>1, Zenon DEF SenderInv, SenderTypes
  <2>3. \A c \in Batches : ticket[c] >= -1 /\ informed[c] >= 0
      BY Zenon DEF Counting, CountTypes
  <2>4. ~counted[p]
      BY <1>1, EarlyOpen, Zenon DEF Early
  <2> QED
      BY <1>1, <2>1, <2>2, <2>3, <2>4, CarryCounts, Zenon
<1> QED
    BY <1>2, <1>3, Zenon

LEMMA TakeSlotCounts ==
    ASSUME Setting, SenderInv, Counting, NEW p \in Batches, TakeSlot(p)
    PROVE  Counting'
<1>1. /\ at[p] = "offered" /\ UNCHANGED <<ticket, err, counted, sendFailed, sent, stop, queueClosed,
                                          sender, closer>>
    BY Zenon DEF TakeSlot, loopVars
<1>2. CASE RefuseBatch(p)
    BY <1>1, <1>2, RefuseCounts, Zenon
<1>3. CASE To(p, "slotted") /\ UNCHANGED <<dropped, informed>>
  <2>1. at'[p] = "slotted" /\ \A c \in Batches : c # p => at'[c] = at[c]
      BY <1>3, Zenon DEF SenderInv, SenderTypes, To
  <2>2. \A c \in Batches : ticket[c] >= -1 /\ informed[c] >= 0
      BY Zenon DEF Counting, CountTypes
  <2>3. ~counted[p]
      BY <1>1, EarlyOpen, Zenon DEF Early
  <2> QED
      BY <1>1, <1>3, <2>1, <2>2, <2>3, CarryCounts, Zenon
<1> QED
    BY <1>2, <1>3, Zenon DEF TakeSlot

LEMMA ReserveCounts ==
    ASSUME Setting, SenderInv, Counting, NEW p \in Batches,
           NEW failed \in BOOLEAN, Reserve(p, failed)
    PROVE  Counting'
<1>1. /\ at[p] = "slotted" /\ at' = [at EXCEPT ![p] = "reserved"]
      /\ ticket' = [ticket EXCEPT ![p] = reserved]
      /\ err' = [err EXCEPT ![p] = IF failed THEN "reserve" ELSE "none"]
      /\ counted' = [counted EXCEPT ![p] = failed]
      /\ dropped' = IF failed THEN dropped + Count(p) ELSE dropped
      /\ informed' = [informed EXCEPT ![p] = IF failed /\ p \in Control THEN informed[p] + 1 ELSE informed[p]]
      /\ UNCHANGED <<sendFailed, sent, stop, queueClosed, sender, closer>>
    BY Zenon DEF Reserve, To, loopVars
<1>2. /\ at \in [Batches -> Places] /\ informed \in [Batches -> Int]
      /\ ticket \in [Batches -> Int] /\ err \in [Batches -> Errors]
      /\ counted \in [Batches -> BOOLEAN] /\ reserved \in Nat /\ dropped \in Nat
      /\ \A c \in Batches : informed[c] >= 0 /\ ticket[c] >= -1
    BY Zenon DEF SenderInv, SenderTypes, Counting, CountTypes
<1>3. /\ p \in Open /\ ~counted[p] /\ err[p] = "none"
    BY <1>1, EarlyOpen, Zenon DEF Early
<1>4. /\ at'[p] = "reserved" /\ counted'[p] = failed /\ err'[p] = IF failed THEN "reserve" ELSE "none"
      /\ counted' \in [Batches -> BOOLEAN]
      /\ \A c \in Batches : c # p =>
           at'[c] = at[c] /\ err'[c] = err[c] /\ counted'[c] = counted[c]
      /\ \A c \in Batches : informed'[c] = informed[c] \/ informed'[c] = informed[c] + 1
      /\ \A c \in Batches : ticket'[c] = ticket[c] \/ ticket'[c] = reserved
    BY <1>1, <1>2, Zenon
<1>5. \A c \in Batches : informed'[c] >= 0 /\ ticket'[c] >= -1
    BY <1>2, <1>4
<1>6. CASE failed
  <2>1. Open' = Open \ {p}
      BY <1>1, <1>4, <1>6, Zenon DEF Open, Batches
  <2>2. dropped' = dropped + Count(p) /\ Count(p) \in Nat
      BY <1>1, <1>6, TotalOne, Zenon
  <2>3. dropped' \in Nat
      BY <1>2, <2>2
  <2>4. \A c \in Batches : counted'[c] => at'[c] = "done" \/ err'[c] = "reserve"
      BY <1>4, <1>6, Zenon DEF Counting, CountTypes
  <2>5. CountTypes'
      BY <1>1, <1>4, <1>5, <2>3, <2>4, Zenon DEF Counting, CountTypes, Batches
  <2> QED
      BY <1>1, <1>3, <2>1, <2>2, <2>5, CountingOne, Zenon
<1>7. CASE ~failed
  <2>1. counted' = counted /\ dropped' = dropped
      BY <1>1, <1>2, <1>3, <1>7, Zenon
  <2> QED
      BY <1>1, <1>3, <1>4, <1>5, <2>1, CarryCounts, Zenon
<1> QED
    BY <1>6, <1>7, Zenon

LEMMA EncryptCounts ==
    ASSUME Setting, SenderInv, Counting, NEW p \in Batches,
           NEW failed \in BOOLEAN, Encrypt(p, failed)
    PROVE  Counting'
<1>1. /\ at[p] = "reserved" /\ (failed => err[p] = "none") /\ at' = [at EXCEPT ![p] = "sealed"]
      /\ err' = [err EXCEPT ![p] = IF failed THEN "seal" ELSE err[p]]
      /\ UNCHANGED <<ticket, counted, informed, dropped, sendFailed, sent, stop, queueClosed,
                     sender, closer>>
    BY Zenon DEF Encrypt, To, loopVars, counters
<1>2. /\ at'[p] = "sealed" /\ err'[p] = (IF failed THEN "seal" ELSE err[p])
      /\ \A c \in Batches : c # p => at'[c] = at[c] /\ err'[c] = err[c]
    BY <1>1, Zenon DEF SenderInv, SenderTypes
<1>3. \A c \in Batches : ticket[c] >= -1 /\ informed[c] >= 0
    BY Zenon DEF Counting, CountTypes
<1>4. counted[p] => err[p] = "reserve"
    BY <1>1, Zenon DEF Counting, CountTypes
<1>5. counted[p] => err'[p] = "reserve"
    BY <1>1, <1>2, <1>4, Zenon
<1> QED
    BY <1>1, <1>2, <1>3, <1>5, CarryCounts, Zenon

\* abandon counts those of a set that are not counted yet.
LEMMA AbandonCounts ==
    ASSUME Setting, SenderInv, Counting, NEW bs \in SUBSET Batches,
           \A p \in bs : at[p] \in Queueing, AbandonAll(bs),
           UNCHANGED <<ticket, err, sendFailed, sent, stop, queueClosed, closer>>,
           sender' \in Stages, sender' = "finish" <=> sender = "finish"
    PROVE  Counting'
<1> DEFINE out == {p \in bs : ~counted[p]}
<1>1. /\ at' = [p \in Batches |-> IF p \in bs THEN "done" ELSE at[p]]
      /\ dropped' = dropped + Total(out)
      /\ counted' = [p \in Batches |-> counted[p] \/ p \in bs]
      /\ informed' = [p \in Batches |-> IF p \in bs /\ Hears(p) THEN informed[p] + 1 ELSE informed[p]]
    BY Zenon DEF AbandonAll
<1>2. /\ counted \in [Batches -> BOOLEAN] /\ informed \in [Batches -> Int]
      /\ dropped \in Nat /\ sendFailed \in Nat /\ sent \in Nat
      /\ \A c \in Batches : informed[c] >= 0 /\ ticket[c] >= -1
      /\ \A c \in Batches : counted[c] => at[c] = "done" \/ err[c] = "reserve"
    BY Zenon DEF SenderInv, SenderTypes, Counting, CountTypes
<1>3. /\ \A c \in bs : at'[c] = "done" /\ counted'[c]
      /\ \A c \in Batches : c \notin bs => at'[c] = at[c] /\ (counted'[c] <=> counted[c])
      /\ counted' \in [Batches -> BOOLEAN]
      /\ \A c \in Batches : informed'[c] = informed[c] \/ informed'[c] = informed[c] + 1
    BY <1>1, <1>2, Zenon
<1>4. \A p \in bs : at[p] # "done" /\ at[p] # "ready"
    BY Zenon DEF Queueing
<1>5. out \in SUBSET Open
    BY <1>4, Zenon DEF Open
<1>6. Open' = Open \ out
    BY <1>3, <1>4, Zenon DEF Open, Batches
<1> HIDE DEF out
<1>7. Total(out) \in Nat
    BY <1>5, TotalSplit, Zenon DEF Open
<1>8. dropped' \in Nat /\ dropped' + sendFailed' + sent' = dropped + sendFailed + sent + Total(out)
    BY <1>1, <1>2, <1>7
<1>9. \A c \in Batches : informed'[c] >= 0
    BY <1>2, <1>3
<1>10. CountTypes'
  <2>1. \A c \in Batches : counted'[c] => at'[c] = "done" \/ err[c] = "reserve"
      BY <1>2, <1>3, Zenon
  <2> QED
      BY <1>2, <1>3, <1>8, <1>9, <2>1, Zenon DEF Counting, CountTypes, Batches
<1> QED
    BY <1>5, <1>6, <1>8, <1>10, AccountedMoves, Zenon

LEMMA EnqueueCounts ==
    ASSUME Setting, SenderInv, Counting, NEW p \in Batches, Enqueue(p)
    PROVE  Counting'
<1>1. /\ at[p] = "sealed" /\ UNCHANGED <<ticket, err, sendFailed, sent, stop, queueClosed,
                                         sender, closer>>
    BY Zenon DEF Enqueue, loopVars
<1>2. CASE queueClosed
  <2>1. AbandonAll({p}) /\ \A c \in {p} : at[c] \in Queueing
      BY <1>1, <1>2, Zenon DEF Enqueue, Queueing
  <2>2. sender' \in Stages
      BY <1>1, Zenon DEF Counting, CountTypes
  <2>3. {p} \in SUBSET Batches
      BY Zenon
  <2> QED
      BY <1>1, <2>1, <2>2, <2>3, AbandonCounts, Zenon
<1>3. CASE ~queueClosed
  <2>1. at' = [at EXCEPT ![p] = "queued"] /\ UNCHANGED <<counted, informed, dropped>>
      BY <1>3, Zenon DEF Enqueue, To
  <2>2. at'[p] = "queued" /\ \A c \in Batches : c # p => at'[c] = at[c]
      BY <2>1, Zenon DEF SenderInv, SenderTypes
  <2>3. \A c \in Batches : ticket[c] >= -1 /\ informed[c] >= 0
      BY Zenon DEF Counting, CountTypes
  <2>4. counted[p] => err[p] = "reserve"
      BY <1>1, Zenon DEF Counting, CountTypes
  <2> QED
      BY <1>1, <2>1, <2>2, <2>3, <2>4, CarryCounts, Zenon
<1> QED
    BY <1>2, <1>3, Zenon

LEMMA DrainCounts ==
    ASSUME Setting, SenderInv, Counting, NEW p \in Batches, Drain(p)
    PROVE  Counting'
<1>1. /\ at[p] = "queued" /\ at' = [at EXCEPT ![p] = "pending"]
      /\ UNCHANGED <<ticket, err, counted, informed, dropped, sendFailed, sent, stop, queueClosed,
                     sender, closer>>
    BY Zenon DEF Drain, To, loopVars, counters
<1>2. at'[p] = "pending" /\ \A c \in Batches : c # p => at'[c] = at[c]
    BY <1>1, Zenon DEF SenderInv, SenderTypes
<1>3. \A c \in Batches : ticket[c] >= -1 /\ informed[c] >= 0
    BY Zenon DEF Counting, CountTypes
<1>4. counted[p] => err[p] = "reserve"
    BY <1>1, Zenon DEF Counting, CountTypes
<1> QED
    BY <1>1, <1>2, <1>3, <1>4, CarryCounts, Zenon

LEMMA DiscardedCounts ==
    ASSUME Setting, SenderInv, Counting, Discarded
    PROVE  Counting'
<1>1. /\ sender = "discard" /\ sender' = "stopped" /\ AbandonAll(In("pending"))
      /\ UNCHANGED <<ticket, err, sendFailed, sent, stop, queueClosed, closer>>
    BY Zenon DEF Discarded
<1>2. /\ In("pending") \in SUBSET Batches
      /\ \A p \in In("pending") : at[p] \in Queueing
    BY Zenon DEF In, Queueing
<1>3. sender' \in Stages /\ (sender' = "finish" <=> sender = "finish")
    BY <1>1, Zenon DEF Stages
<1> QED
    BY <1>1, <1>2, <1>3, AbandonCounts, Zenon

\* The batches of a call are not done with before the transport returns.
LEMMA CollectCounts ==
    ASSUME Setting, SenderInv, Counting, CollectReady
    PROVE  Counting'
<1> DEFINE ready == {p \in In("pending") : Collects(ticket[p])}
<1>1. /\ sender = "wait" /\ at' = [p \in Batches |-> IF p \in ready THEN "ready" ELSE at[p]]
      /\ sender' = IF \A p \in ready : ~Sealed(p) THEN "finish" ELSE "transmit"
      /\ UNCHANGED <<ticket, err, counted, informed, dropped, sendFailed, sent, stop, queueClosed,
                     closer>>
    BY Zenon DEF CollectReady, counters
<1>2. \A p \in ready : p \in Batches /\ at[p] = "pending"
    BY Zenon DEF In
<1>3. /\ \A p \in ready : at'[p] = "ready"
      /\ \A p \in Batches : p \notin ready => at'[p] = at[p]
    BY <1>1, <1>2, Zenon
<1>4. sender' = "finish" => \A p \in ready : err[p] # "none"
    BY <1>1, Zenon DEF Sealed
<1>5. \A p \in Batches : at[p] # "ready"
    BY <1>1, Zenon DEF SenderInv, Own
<1> HIDE DEF ready
<1>6. Open' = Open
  <2>1. ASSUME NEW p \in Batches
        PROVE  (at'[p] # "done" /\ ~counted[p] /\ ~(at'[p] = "ready" /\ sender' = "finish" /\ err[p] = "none"))
                 <=> (at[p] # "done" /\ ~counted[p] /\ ~(at[p] = "ready" /\ sender = "finish" /\ err[p] = "none"))
      BY <1>2, <1>3, <1>4, <1>5, <2>1, Zenon
  <2> QED
      BY <1>1, <2>1, Zenon DEF Open, Batches
<1>7. CountTypes'
  <2>1. \A p \in Batches : counted[p] => at'[p] = "done" \/ err[p] = "reserve"
      BY <1>2, <1>3, Zenon DEF Counting, CountTypes
  <2>2. sender' \in Stages
      BY <1>1, Zenon DEF Stages
  <2> QED
      BY <1>1, <2>1, <2>2, Zenon DEF Counting, CountTypes, Batches
<1> QED
    BY <1>1, <1>6, <1>7, CountingStays, Zenon

LEMMA TransmittedCounts ==
    ASSUME Setting, SenderInv, Counting, NEW failed \in BOOLEAN,
           Transmitted(failed)
    PROVE  Counting'
<1> DEFINE out == {p \in In("ready") : Sealed(p)}
<1>1. /\ sender = "transmit" /\ sender' = "finish"
      /\ err' = [p \in Batches |-> IF failed /\ p \in out THEN "send" ELSE err[p]]
      /\ sent' = IF failed THEN sent ELSE sent + PacketsOf(out)
      /\ UNCHANGED <<at, ticket, counted, informed, dropped, sendFailed, stop, queueClosed, closer>>
    BY Zenon DEF Transmitted
<1>2. {p \in out : Sealed(p)} = out
    BY Zenon
<1>3. PacketsOf(out) = Total(out)
    BY <1>2, Zenon DEF PacketsOf
<1>4. \A p \in out : p \in Batches /\ at[p] = "ready" /\ err[p] = "none" /\ ~counted[p]
  <2>1. ASSUME NEW p \in out
        PROVE  p \in Batches /\ at[p] = "ready" /\ err[p] \notin {"reserve", "seal"}
      BY <2>1, Zenon DEF In, Sealed
  <2>2. ASSUME NEW p \in out
        PROVE  err[p] \in Errors /\ err[p] # "send"
      BY <1>1, <2>1, <2>2, Zenon DEF SenderInv, SenderTypes, Own
  <2>3. ASSUME NEW p \in out
        PROVE  ~counted[p]
      BY <2>1, <2>3, Zenon DEF Counting, CountTypes
  <2> QED
      BY <2>1, <2>2, <2>3, Zenon DEF Errors
<1>5. \A p \in Batches : p \notin out /\ at[p] = "ready" => err[p] # "none"
    BY Zenon DEF In, Sealed
<1>6. out \in SUBSET Open
    BY <1>1, <1>4, Zenon DEF Open
<1>7. \A p \in Batches : p \notin out => err'[p] = err[p]
    BY <1>1, Zenon
<1> HIDE DEF out
<1>8. Total(out) \in Nat /\ sent \in Nat /\ dropped \in Nat /\ sendFailed \in Nat
    BY <1>6, TotalSplit, Zenon DEF Open, Counting, CountTypes
<1>9. sent' \in Nat
    BY <1>1, <1>3, <1>8
<1>10. CountTypes'
  <2>1. \A p \in Batches : counted[p] => at[p] = "done" \/ err'[p] = "reserve"
      BY <1>4, <1>7, Zenon DEF Counting, CountTypes
  <2>2. sender' \in Stages
      BY <1>1, Zenon DEF Stages
  <2> QED
      BY <1>1, <1>9, <2>1, <2>2, Zenon DEF Counting, CountTypes, Batches
<1>11. CASE failed
  <2>1. \A p \in out : err'[p] = "send"
      BY <1>1, <1>4, <1>11, Zenon
  <2>2. Open' = Open
      BY <1>1, <1>4, <1>5, <1>7, <2>1, Zenon DEF Open, Batches
  <2> QED
      BY <1>1, <1>10, <1>11, <2>2, CountingStays, Zenon
<1>12. CASE ~failed
  <2>1. \A p \in Batches : err'[p] = err[p]
      BY <1>1, <1>12, Zenon
  <2>2. Open' = Open \ out
      BY <1>1, <1>4, <1>5, <2>1, Zenon DEF Open, Batches
  <2>3. sent' = sent + Total(out)
      BY <1>1, <1>3, <1>12, Zenon
  <2>4. dropped' + sendFailed' + sent' = dropped + sendFailed + sent + Total(out)
      BY <1>1, <1>8, <2>3
  <2> QED
      BY <1>6, <1>10, <2>2, <2>4, AccountedMoves, Zenon
<1> QED
    BY <1>11, <1>12, Zenon

\* finish counts a batch that failed, and one that went out was counted with the
\* packets of its call.
LEMMA FinishCounts ==
    ASSUME Setting, SenderInv, Counting, NEW p \in Batches, Finish(p)
    PROVE  Counting'
<1> DEFINE new == err[p] # "none" /\ ~counted[p]
<1>1. /\ sender = "finish" /\ at[p] = "ready" /\ at' = [at EXCEPT ![p] = "done"]
      /\ dropped' = IF new /\ ~Sealed(p) THEN dropped + Count(p) ELSE dropped
      /\ sendFailed' = IF new /\ Sealed(p) THEN sendFailed + Count(p) ELSE sendFailed
      /\ counted' = [counted EXCEPT ![p] = counted[p] \/ new]
      /\ informed' = [informed EXCEPT ![p] = IF err[p] # "none" /\ Hears(p) THEN informed[p] + 1 ELSE informed[p]]
      /\ UNCHANGED <<ticket, err, sent, stop, queueClosed, sender, closer>>
    BY Zenon DEF Finish, To, loopVars
<1>2. /\ at \in [Batches -> Places] /\ informed \in [Batches -> Int]
      /\ counted \in [Batches -> BOOLEAN] /\ dropped \in Nat /\ sendFailed \in Nat /\ sent \in Nat
      /\ \A c \in Batches : informed[c] >= 0 /\ ticket[c] >= -1
    BY Zenon DEF SenderInv, SenderTypes, Counting, CountTypes
<1>3. Count(p) \in Nat
    BY TotalOne, Zenon
<1>4. /\ at'[p] = "done" /\ counted' \in [Batches -> BOOLEAN]
      /\ \A c \in Batches : c # p => at'[c] = at[c] /\ counted'[c] = counted[c]
      /\ \A c \in Batches : informed'[c] = informed[c] \/ informed'[c] = informed[c] + 1
    BY <1>1, <1>2, Zenon
<1>5. \A c \in Batches : informed'[c] >= 0
    BY <1>2, <1>4
<1>6. dropped' \in Nat /\ sendFailed' \in Nat
    BY <1>1, <1>2, <1>3
<1>7. CountTypes'
  <2>1. \A c \in Batches : counted'[c] => at'[c] = "done" \/ err[c] = "reserve"
      BY <1>4, Zenon DEF Counting, CountTypes
  <2> QED
      BY <1>1, <1>4, <1>5, <1>6, <2>1, Zenon DEF Counting, CountTypes, Batches
<1>8. Open' = Open \ {p}
    BY <1>1, <1>4, Zenon DEF Open, Batches
<1>9. p \in Open <=> new
    BY <1>1, Zenon DEF Open
<1> HIDE DEF new
<1>10. CASE new
    BY <1>1, <1>7, <1>8, <1>9, <1>10, CountingOne, Zenon
<1>11. CASE ~new
  <2>1. Open \ {p} = Open
      BY <1>9, <1>11, Zenon
  <2> QED
      BY <1>1, <1>7, <1>8, <1>11, <2>1, CountingStays, Zenon
<1> QED
    BY <1>10, <1>11, Zenon

\* The steps that move no batch.
LEMMA TurnCounts ==
    ASSUME Setting, SenderInv, Counting,
           \/ Again \/ Discard \/ Close \/ CloseReturns
           \/ UNCHANGED senderVars
    PROVE  Counting'
<1>1. UNCHANGED <<at, ticket, err, counted, informed, dropped, sendFailed, sent>>
    BY Zenon DEF Again, Discard, Close, CloseReturns, senderVars,
                 batchVars, counters
<1>2. /\ sender' \in Stages /\ closer' \in {"open", "waits", "returned"}
      /\ stop' \in BOOLEAN /\ queueClosed' \in BOOLEAN
    BY Zenon DEF Again, Discard, Close, CloseReturns, senderVars,
                 loopVars, Counting, CountTypes, Stages
<1>3. \/ sender' = "finish" <=> sender = "finish"
      \/ \A p \in Batches : at[p] # "ready"
    BY Zenon DEF Again, Discard, Close, CloseReturns, senderVars,
                 loopVars, In
<1>4. Open' = Open
    BY <1>1, <1>3, Zenon DEF Open, Batches
<1>5. CountTypes'
    BY <1>1, <1>2, Zenon DEF Counting, CountTypes, Batches
<1> QED
    BY <1>1, <1>4, <1>5, CountingStays, Zenon

LEMMA CountingStep ==
    ASSUME Setting, SenderInv, Counting, [SenderNext]_senderVars
    PROVE  Counting'
<1>1. CASE \E p \in Batches : Carry(p)
    BY <1>1, OfferCounts, TakeSlotCounts, ReserveCounts, EncryptCounts, EnqueueCounts, Zenon
       DEF Carry
<1>2. CASE Loop
    BY <1>2, CollectCounts, TurnCounts, DiscardedCounts, DrainCounts, FinishCounts, Zenon
       DEF Loop
<1>3. CASE \E failed \in BOOLEAN : Transmitted(failed)
    BY <1>3, TransmittedCounts, Zenon
<1>4. CASE Close \/ CloseReturns \/ UNCHANGED senderVars
    BY <1>4, TurnCounts, Zenon
<1> QED
    BY <1>1, <1>2, <1>3, <1>4, Zenon DEF SenderNext

-----------------------------------------------------------------------------
(* Counting and order, from the libraries.                                 *)

Finite == INSTANCE FiniteSetTheorems
Founded == INSTANCE WellFoundedInduction

LEMMA SameCount ==
    ASSUME NEW S
    PROVE  /\ Finite!IsFiniteSet(S) = IsFiniteSet(S)
           /\ Finite!Cardinality(S) = Cardinality(S)
<1>1. Finite!IsFiniteSet(S) = IsFiniteSet(S)
    BY Zenon DEF IsFiniteSet, Finite!IsFiniteSet
<1>2. Finite!Cardinality(S) = Cardinality(S)
    BY Zenon DEF Cardinality, Finite!Cardinality
<1> QED
    BY <1>1, <1>2, Zenon

LEMMA GreatestIn ==
    ASSUME NEW T \in SUBSET Nat, T # {}, NEW n \in Nat, \A t \in T : t < n
    PROVE  \E m \in T : \A t \in T : m >= t
<1> DEFINE U == {u \in Nat : \A t \in T : t <= u}
<1>1. n \in U
    OBVIOUS
<1>2. PICK m \in U : \A u \in U : <<u, m>> \notin Founded!OpToRel(<, Nat)
  <2>1. U \in SUBSET Nat /\ U # {}
      BY <1>1
  <2> HIDE DEF U
  <2> QED
      BY <2>1, Founded!NatLessThanWellFounded, Founded!WFMin, Zenon
<1>3. \A u \in U : ~(u < m)
    BY <1>2, Zenon DEF Founded!OpToRel
<1>4. m \in Nat /\ \A t \in T : t <= m
    BY <1>2, Zenon
<1>5. m \in T
  <2> SUFFICES ASSUME m \notin T
               PROVE  FALSE
      BY Zenon
  <2>1. \A t \in T : t < m
      BY <1>4
  <2>2. PICK t \in T : t \in Nat /\ t < m
      BY <2>1, Zenon
  <2>3. m - 1 \in Nat /\ \A u \in T : u <= m - 1
      BY <1>4, <2>1, <2>2
  <2>4. m - 1 \in U
      BY <2>3
  <2> QED
      BY <1>3, <1>4, <2>4
<1> QED
    BY <1>4, <1>5

LEMMA Counted == Countable
<1>1. Cardinality({}) = 0 /\ \A x : Cardinality({x}) = 1
    BY SameCount, Finite!FS_EmptySet, Finite!FS_Singleton, Zenon
<1>2. ASSUME NEW S, IsFiniteSet(S)
      PROVE  /\ Cardinality(S) \in Nat
             /\ \A T \in SUBSET S : IsFiniteSet(T) /\ Cardinality(T) \in Nat
             /\ \A T : Cardinality(S \ T) = Cardinality(S) - Cardinality(S \cap T)
             /\ \A x : x \notin S => Cardinality(S \cup {x}) = Cardinality(S) + 1
  <2>1. Cardinality(S) \in Nat
      BY <1>2, SameCount, Finite!FS_CardinalityType, Zenon
  <2>2. ASSUME NEW T \in SUBSET S
        PROVE  IsFiniteSet(T) /\ Cardinality(T) \in Nat
      BY <1>2, <2>2, SameCount, Finite!FS_Subset, Finite!FS_CardinalityType, Zenon
  <2>3. ASSUME NEW T
        PROVE  Cardinality(S \ T) = Cardinality(S) - Cardinality(S \cap T)
    <3>1. Finite!IsFiniteSet(S)
        BY <1>2, SameCount, Zenon
    <3>2. Finite!Cardinality(S \ T)
            = Finite!Cardinality(S) - Finite!Cardinality(S \cap T)
        BY <3>1, Finite!FS_Difference, Zenon
    <3>3. /\ Finite!Cardinality(S \ T) = Cardinality(S \ T)
          /\ Finite!Cardinality(S) = Cardinality(S)
          /\ Finite!Cardinality(S \cap T) = Cardinality(S \cap T)
        BY SameCount, Zenon
    <3> QED
        BY <3>2, <3>3, Zenon
  <2>4. ASSUME NEW x, x \notin S
        PROVE  Cardinality(S \cup {x}) = Cardinality(S) + 1
      BY <1>2, <2>4, SameCount, Finite!FS_AddElement, Zenon
  <2> QED
      BY <2>1, <2>2, <2>3, <2>4, Zenon
<1> QED
    BY <1>1, <1>2, GreatestIn, Zenon DEF Countable

\* Packets reach the transport in ticket order; none is lost from the counters or
\* counted twice; a slot is in use exactly while a batch holds it, never more than
\* there are, and none is left when the sender has gone; and Babel hears exactly
\* once of a packet that did not reach the wire (senderLoop, abandon, finish), for
\* any number of batches, slots and workers and any size of a batch.
THEOREM WireInOrderTheorem ==
    ASSUME SenderAssumption
    PROVE  SenderSpec => []WireInOrder
<1>s. Setting
    BY Counted, Zenon DEF Setting
<1>1. SenderInit => SenderInv /\ Counting
    BY <1>s, SenderInvInit, CountingInit, Zenon
<1>2. SenderInv /\ Counting /\ [SenderNext]_senderVars => SenderInv' /\ Counting'
    BY <1>s, SenderInvStep, CountingStep, Zenon
<1>3. SenderInv /\ Counting => WireInOrder
  <2> SUFFICES ASSUME SenderInv, Counting PROVE WireInOrder
      BY Zenon
  <2>1. TicketsInOrder
      BY Zenon DEF SenderInv, Sequenced
  <2>2. SlotsHeld
    <3>1. \A k \in DOMAIN slots : slots[k]
            = Cardinality({p \in Batches : Kind(p) = k /\ hasSlot[p]})
        BY Zenon DEF SenderInv, SenderTypes, Held, Holders
    <3>2. /\ \A p \in Batches : at[p] \in {"queued", "pending", "ready"} => hasSlot[p]
          /\ \A p \in Batches : at[p] = "done" => ~hasSlot[p]
          /\ sender = "stopped" => \A p \in Batches : at[p] \notin {"queued", "pending", "ready"}
        BY Zenon DEF SenderInv, Own
    <3> QED
        BY <3>1, <3>2, Zenon DEF SlotsHeld, In
  <2>3. FailureTold
    <3>1. ASSUME NEW p \in Control, at[p] = "done", p \in Batches
          PROVE  informed[p] = IF err[p] = "none" /\ OnWire(p) THEN 0 ELSE 1
        BY <3>1, Zenon DEF SenderInv, Own
    <3> QED
        BY <3>1, Zenon DEF FailureTold, In, OnWire
  <2>4. ASSUME NEW k \in Kinds
        PROVE  slots[k] \in 0 .. Slots[k]
    <3>1. slots[k] = Cardinality(Holders(k)) /\ slots[k] <= Slots[k]
        BY <2>4, Zenon DEF SenderInv, Held
    <3>2. Cardinality(Holders(k)) \in Nat
        BY <1>s, HoldersFinite, Zenon
    <3>3. Slots[k] \in Nat
        BY <2>4 DEF Kinds, SenderAssumption
    <3> QED
        BY <3>1, <3>2, <3>3
  <2>5. SenderTypeOK
    <3>1. /\ at \in [Batches -> Places] /\ err \in [Batches -> Errors]
          /\ hasSlot \in [Batches -> BOOLEAN] /\ counted \in [Batches -> BOOLEAN]
          /\ reserved \in Nat /\ next \in Nat /\ dropped \in Nat /\ sendFailed \in Nat /\ sent \in Nat
          /\ sender \in Stages /\ closer \in {"open", "waits", "returned"}
          /\ stop \in BOOLEAN /\ queueClosed \in BOOLEAN /\ DOMAIN slots = Kinds
        BY Zenon DEF SenderInv, SenderTypes, Counting, CountTypes
    <3>2. /\ ticket \in [Batches -> Int] /\ informed \in [Batches -> Int]
          /\ \A p \in Batches : ticket[p] >= -1 /\ informed[p] >= 0
        BY Zenon DEF SenderInv, SenderTypes, Counting, CountTypes
    <3>3. \A p \in Batches : ticket[p] \in {-1} \cup Nat /\ informed[p] \in Nat
        BY <3>2
    <3>4. /\ ticket \in [Batches -> {NoTicket} \cup Nat]
          /\ informed \in [Batches -> Nat]
        BY <3>2, <3>3, Zenon DEF NoTicket
    <3> QED
        BY <2>4, <3>1, <3>4, Zenon DEF SenderTypeOK, Stages, Places, Errors
  <2> QED
      BY <2>1, <2>2, <2>3, <2>5, Zenon DEF WireInOrder, Counting
<1> QED
    BY <1>1, <1>2, <1>3, PTL DEF SenderSpec
=============================================================================
