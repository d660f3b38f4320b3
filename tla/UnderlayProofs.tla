--------------------------- MODULE UnderlayProofs ---------------------------
(***************************************************************************)
(* Proofs that a default route which a daemon has put on an interface it   *)
(* does not own is in underlay.json at every instant, so that a start      *)
(* after a kill finds it, unless a save or a load failed; that the daemon  *)
(* with the lock answers for all of them past its reclaim; and that a      *)
(* delete takes a route of the system's only where an interface had gone   *)
(* down under ours: for any interfaces, next hops, link changes, failed    *)
(* calls, starts, kills and number of daemons, up to the moment at which   *)
(* one that does not hold the lock saves a record.                         *)
(***************************************************************************)
EXTENDS UnderlayDefaults, TLAPS

Places == {"off", "reclaim", "withdraw", "new", "ensure", "remove", "delete", "forget",
           "write", "drop", "socket", "exit", "idle"}
Jobs == {"open", "prepare", "pass", "settle", "close", "none"}

\* ensure is under way: it has found its route missing and not yet written it.
Wanting(p) ==
    \/ at[p] \in {"write", "drop"}
    \/ at[p] \in {"remove", "delete", "forget"} /\ job[p] \notin {"settle", "close"}

\* The types the proof needs, and what a daemon has at hand where it needs it.
Equipped(p) ==
    /\ at[p] = "ensure" => on[p] \in Devs
    /\ Wanting(p) => want[p] \in Records
    /\ at[p] = "delete" => held[p] \in Records

Types ==
    /\ gw \in [Devs -> Gws] /\ primary \in Devs \cup {None}
    /\ scoped \in [Devs -> Routes \cup {None}]
    /\ file \subseteq Records /\ lapsed \subseteq Records /\ lock \in Procs \cup {None}
    /\ at \in [Procs -> Places] /\ job \in [Procs -> Jobs]
    /\ on \in [Procs -> Devs \cup {None}] /\ want \in [Procs -> Records \cup {None}]
    /\ held \in [Procs -> Records \cup {None}]
    /\ written \in [Procs -> SUBSET Records] /\ refused \in [Procs -> SUBSET Records]
    /\ todo \in [Procs -> SUBSET Records]
    /\ \A p \in Procs : Equipped(p)

\* A record whose route is in the kernel and is ours.
Standing(r) == scoped[r.dev] # None /\ scoped[r.dev].by = "us" /\ scoped[r.dev].gw = r.gw

\* Every route of ours in the kernel has its record in a set.
Within(set) == \A r \in Records : Standing(r) => r \in set

\* What a daemon that does not hold the lock is never at, before it saves a record.
Tending == {"reclaim", "withdraw", "delete", "forget", "write", "drop"}

Answers(p) ==
    /\ at[p] = "off" => lock # p
    /\ lock # p => at[p] \notin Tending /\ written[p] = {} /\ refused[p] = {} /\ todo[p] = {}
    /\ at[p] \in {"reclaim", "withdraw"} =>
           written[p] = {} /\ Within(todo[p] \cup refused[p] \cup lapsed)
    /\ at[p] = "reclaim" => refused[p] = {}
    /\ lock = p /\ at[p] \notin {"reclaim", "withdraw"} =>
           Within(written[p] \cup refused[p] \cup lapsed)
    /\ lock = p /\ Wanting(p) => ~Standing(want[p])
    /\ at[p] = "write" => want[p] \in written[p] /\ want[p] \in file \cup lapsed

Kept == Within(file \cup lapsed) /\ \A p \in Procs : Answers(p)

\* Recorded and Accounted are not inductive: that a delete or a failed add takes a
\* record only from a route that has gone rests on what was read before it, and
\* that another daemon disturbs neither on what one without the lock can know.
IInv == Types /\ (~intruded => Kept)

-----------------------------------------------------------------------------
(* The types.                                                              *)

\* A step of one daemon leaves the others where they are.
Frame(p) ==
    \A q \in Procs \ {p} :
        /\ at'[q] = at[q] /\ job'[q] = job[q] /\ on'[q] = on[q] /\ want'[q] = want[q]
        /\ held'[q] = held[q] /\ written'[q] = written[q] /\ refused'[q] = refused[q]
        /\ todo'[q] = todo[q]

\* The variables a daemon's step may write, each at that daemon.
Moved(p) ==
    /\ at' \in [Procs -> Places] /\ job' \in [Procs -> Jobs]
    /\ on' \in [Procs -> Devs \cup {None}] /\ want' \in [Procs -> Records \cup {None}]
    /\ held' \in [Procs -> Records \cup {None}]
    /\ written' \in [Procs -> SUBSET Records] /\ refused' \in [Procs -> SUBSET Records]
    /\ todo' \in [Procs -> SUBSET Records]
    /\ Frame(p)

Shared ==
    /\ gw' \in [Devs -> Gws] /\ primary' \in Devs \cup {None}
    /\ scoped' \in [Devs -> Routes \cup {None}]
    /\ file' \subseteq Records /\ lapsed' \subseteq Records /\ lock' \in Procs \cup {None}

LEMMA TypesMoved ==
    ASSUME Types, NEW p \in Procs, Shared, Moved(p), Equipped(p)'
    PROVE  Types'
<1>1. ASSUME NEW q \in Procs PROVE Equipped(q)'
  <2>1. CASE q = p
    BY <2>1, Zenon
  <2>2. CASE q # p
    <3>1. at'[q] = at[q] /\ job'[q] = job[q] /\ on'[q] = on[q] /\ want'[q] = want[q]
          /\ held'[q] = held[q]
      BY <2>2, Zenon DEF Moved, Frame
    <3> QED
      BY <3>1, Zenon DEF Types, Equipped, Wanting
  <2> QED
    BY <2>1, <2>2, Zenon
<1> QED
  BY <1>1, Zenon DEF Types, Shared, Moved

\* The caller goes on, or closes everything after a failed start.
LEMMA Returned ==
    ASSUME Types, NEW p \in Procs, NEW err, NEW answer,
           written' \in [Procs -> SUBSET Records], Return(p, err, answer)
    PROVE  /\ at' \in [Procs -> Places] /\ job' \in [Procs -> Jobs]
           /\ todo' \in [Procs -> SUBSET Records]
           /\ \A q \in Procs \ {p} : at'[q] = at[q] /\ job'[q] = job[q] /\ todo'[q] = todo[q]
           /\ at'[p] \in {"remove", "socket", "exit", "idle"}
           /\ at'[p] = "remove" => job'[p] = "close"
           /\ todo'[p] \subseteq written'[p]
<1>1. CASE job[p] = "open" /\ err
  <2>1. at' = [at EXCEPT ![p] = "remove"] /\ job' = [job EXCEPT ![p] = "close"]
        /\ todo' = [todo EXCEPT ![p] = written'[p]]
    BY <1>1, Zenon DEF Return, Do, At
  <2> QED
    BY <2>1, Zenon DEF Types, Places, Jobs
<1>2. CASE ~(job[p] = "open" /\ err)
  <2>1. PICK l \in {"socket", "exit", "idle"} : Do(p, "none", l)
    BY <1>2, Zenon DEF Return
  <2>2. todo' = [todo EXCEPT ![p] = {}]
    BY <1>2, Zenon DEF Return
  <2> QED
    BY <2>1, <2>2, Zenon DEF Do, At, Types, Places, Jobs
<1> QED
  BY <1>1, <1>2, Zenon

\* What saving the record comes to, whether it works or not.
LEMMA Saved ==
    ASSUME Types, NEW p \in Procs, written'[p] \cup refused'[p] \subseteq Records, Persist(p)
    PROVE  /\ file' \subseteq Records /\ lapsed' \subseteq Records
           /\ ~intruded' => ~intruded /\ lock = p
           /\ written'[p] \cup refused'[p] \cup lapsed \subseteq file' \cup lapsed'
           /\ lapsed \subseteq written'[p] \cup refused'[p] \cup lapsed'
<1>1. ~intruded' => ~intruded /\ lock = p
  BY Zenon DEF Persist
<1>2. CASE file' = written'[p] \cup refused'[p] /\ lapsed' = lapsed \ (written'[p] \cup refused'[p])
  BY <1>1, <1>2, Zenon DEF Types
<1>3. CASE lapsed' = lapsed \cup ((written'[p] \cup refused'[p]) \ file) /\ file' = file
  BY <1>1, <1>3, Zenon DEF Types
<1> QED
  BY <1>2, <1>3, Zenon DEF Persist

-----------------------------------------------------------------------------
(* What the others make of a daemon's step.                                *)

\* A daemon that does not hold the lock disturbs nothing that counts.
LEMMA Bystanders ==
    ASSUME Types, Kept, NEW p \in Procs, Frame(p),
           \/ lock' = lock
           \/ lock = None /\ lock' = p
           \/ lock = p /\ lock' = None,
           \/ lock = p \/ lock = None
           \/ UNCHANGED <<scoped, file, lapsed>>
    PROVE  \A q \in Procs \ {p} : Answers(q)'
<1> SUFFICES ASSUME NEW q \in Procs, q # p PROVE Answers(q)'
  BY Zenon
<1>1. /\ at'[q] = at[q] /\ job'[q] = job[q] /\ on'[q] = on[q] /\ want'[q] = want[q]
      /\ held'[q] = held[q] /\ written'[q] = written[q] /\ refused'[q] = refused[q]
      /\ todo'[q] = todo[q] /\ Answers(q)
  BY Zenon DEF Frame, Kept
<1>2. None \notin Procs
  BY UnderlayAssumption, Zenon
<1>3. CASE lock = q
  <2>1. lock' = lock /\ UNCHANGED <<scoped, file, lapsed>>
    BY <1>2, <1>3, Zenon
  <2>2. \A r : Standing(r)' <=> Standing(r)
    BY <2>1, Zenon DEF Standing
  <2>3. Wanting(q)' <=> Wanting(q)
    BY <1>1, Zenon DEF Wanting
  <2> QED
    BY <1>1, <2>1, <2>2, <2>3, Zenon DEF Answers, Within
<1>4. CASE lock # q
  <2>1. lock' # q
    BY <1>2, <1>4, Zenon
  <2>2. at[q] \notin Tending /\ written[q] = {} /\ refused[q] = {} /\ todo[q] = {}
    BY <1>1, <1>4, Zenon DEF Answers
  <2> QED
    BY <1>1, <2>1, <2>2, Zenon DEF Answers, Tending
<1> QED
  BY <1>3, <1>4, Zenon

LEMMA KeptBy ==
    ASSUME Types, Kept, NEW p \in Procs, Frame(p),
           \/ lock' = lock
           \/ lock = None /\ lock' = p
           \/ lock = p /\ lock' = None,
           \/ lock = p \/ lock = None
           \/ UNCHANGED <<scoped, file, lapsed>>,
           Within(file \cup lapsed)', Answers(p)'
    PROVE  Kept'
BY Bystanders, Zenon DEF Kept

\* What neither moves a route nor touches a record, and takes the daemon to a
\* place where it has only to answer for its routes.
LEMMA QuietKeeps ==
    ASSUME Types, Kept, NEW p \in Procs, Frame(p),
           UNCHANGED <<scoped, file, lapsed, lock>>,
           written'[p] = written[p], refused'[p] = refused[p],
           todo'[p] \subseteq written[p] \cup todo[p],
           at[p] \notin {"off", "reclaim", "withdraw"},
           \/ at'[p] \in {"new", "ensure", "socket", "exit", "idle"}
           \/ at'[p] = "remove" /\ job'[p] \in {"settle", "close"}
    PROVE  Kept'
<1>1. Answers(p) /\ \A r : Standing(r)' <=> Standing(r)
  BY Zenon DEF Kept, Standing
<1>2. ~Wanting(p)' /\ at'[p] \notin Tending
  BY Zenon DEF Wanting, Tending
<1>3. lock # p => written'[p] = {} /\ refused'[p] = {} /\ todo'[p] = {}
  BY <1>1, Zenon DEF Answers
<1>4. lock = p => Within(written[p] \cup refused[p] \cup lapsed)'
  BY <1>1, Zenon DEF Answers, Within
<1>5. Within(file \cup lapsed)'
  BY <1>1, Zenon DEF Kept, Within
<1>6. Answers(p)'
  BY <1>2, <1>3, <1>4, Zenon DEF Answers, Tending
<1> QED
  BY <1>5, <1>6, KeptBy, Zenon

\* The daemon with the lock saves its records and goes on.
LEMMA SavingKeeps ==
    ASSUME Types, Kept, NEW p \in Procs, Frame(p), Persist(p), ~intruded',
           written'[p] \cup refused'[p] \subseteq Records,
           UNCHANGED <<scoped, lock>>,
           \A r \in Records : Standing(r) => r \in written'[p] \cup refused'[p] \cup lapsed,
           at'[p] \notin {"off", "reclaim", "withdraw"},
           Wanting(p)' => ~Standing(want'[p]),
           at'[p] = "write" => want'[p] \in written'[p]
    PROVE  Kept'
<1>1. /\ lock = p
      /\ written'[p] \cup refused'[p] \cup lapsed \subseteq file' \cup lapsed'
      /\ lapsed \subseteq written'[p] \cup refused'[p] \cup lapsed'
  BY Saved, Zenon
<1>2. \A r : Standing(r)' <=> Standing(r)
  BY Zenon DEF Standing
<1>3. Within(file \cup lapsed)'
  BY <1>1, <1>2, Zenon DEF Within
<1>4. Within(written[p] \cup refused[p] \cup lapsed)'
  BY <1>1, <1>2, Zenon DEF Within
<1>5. at'[p] = "write" => want'[p] \in file' \cup lapsed'
  BY <1>1, Zenon
<1>6. ~Standing(want[p])' <=> ~Standing(want'[p])
  BY <1>2, Zenon DEF Standing
<1>7. Answers(p)'
  BY <1>1, <1>4, <1>5, <1>6, Zenon DEF Answers
<1> QED
  BY <1>1, <1>3, <1>7, KeptBy, Zenon

-----------------------------------------------------------------------------
(* The actions, one by one.                                                *)

LEMMA InitHolds == Init => IInv
<1> SUFFICES ASSUME Init PROVE IInv
  OBVIOUS
<1>1. Types
  <2>1. ASSUME NEW d \in Devs
        PROVE  (IF d = primary THEN None ELSE [gw |-> gw[d], by |-> "system"])
                   \in Routes \cup {None}
    BY DEF Init, Routes
  <2>2. scoped \in [Devs -> Routes \cup {None}]
    BY <2>1, Zenon DEF Init
  <2>3. \A p \in Procs : Equipped(p)
    BY Zenon DEF Init, Equipped, Wanting
  <2> QED
    BY <2>2, <2>3, Zenon DEF Init, Types, Blank, Places, Jobs
<1>2. ASSUME NEW r \in Records, Standing(r) PROVE FALSE
  <2>1. r.dev \in Devs
    BY DEF Records
  <2>2. scoped[r.dev] = IF r.dev = primary THEN None ELSE [gw |-> gw[r.dev], by |-> "system"]
    BY <2>1, Zenon DEF Init
  <2>3. scoped[r.dev] # None /\ scoped[r.dev].by = "us"
    BY <1>2, Zenon DEF Standing
  <2>4. scoped[r.dev] = [gw |-> gw[r.dev], by |-> "system"]
    BY <2>2, <2>3, Zenon
  <2>5. scoped[r.dev].by = "system"
    BY <2>4
  <2> QED
    BY <2>3, <2>5
<1>3. ASSUME NEW p \in Procs PROVE Answers(p)
  <2>1. lock # p /\ at[p] = "off" /\ written[p] = {} /\ refused[p] = {} /\ todo[p] = {}
    BY UnderlayAssumption, Zenon DEF Init
  <2> QED
    BY <2>1, Zenon DEF Answers, Tending
<1> QED
  BY <1>1, <1>2, <1>3, Zenon DEF IInv, Kept, Within

\* The system takes routes of ours away and puts none of ours there.
LEMMA LinkChangeHolds ==
    ASSUME IInv, LinkChange
    PROVE  IInv'
<1> USE UnderlayAssumption
<1>1. PICK u \in SUBSET Devs, g \in [Devs -> Gws], q \in Devs \cup {None} :
           /\ gw' = g /\ primary' = q
           /\ scoped' = [d \in Devs |-> Reaction(u, g, d, q)]
  BY ZenonT(30) DEF LinkChange
<1>2. /\ UNCHANGED <<disk, lock, at, job, on, written, refused, todo, want, held>>
      /\ UNCHANGED <<file, lapsed, intruded>>
  BY Zenon DEF LinkChange, disk
<1>3. ASSUME NEW d \in Devs PROVE Reaction(u, g, d, q) \in Routes \cup {None}
  <2>1. [gw |-> g[d], by |-> "system"] \in Routes
    BY DEF Routes
  <2> QED
    BY <2>1, Zenon DEF Reaction, IInv, Types
<1>4. \A p \in Procs : Equipped(p)'
  BY <1>2, Zenon DEF IInv, Types, Equipped, Wanting
<1>5. scoped' \in [Devs -> Routes \cup {None}]
  BY <1>1, <1>3, Zenon
<1>6. Types'
  BY <1>1, <1>2, <1>4, <1>5, Zenon DEF IInv, Types
<1>7. \A r \in Records : Standing(r)' => Standing(r)
  <2> SUFFICES ASSUME NEW r \in Records, Standing(r)' PROVE Standing(r)
    OBVIOUS
  <2>1. r.dev \in Devs
    BY DEF Records
  <2>2. scoped'[r.dev] = Reaction(u, g, r.dev, q)
    BY <1>1, <2>1, Zenon
  <2>3. CASE scoped[r.dev] # None /\ scoped[r.dev].by = "us"
    BY <2>2, <2>3, SMT DEF Reaction, Standing
  <2>4. CASE ~(scoped[r.dev] # None /\ scoped[r.dev].by = "us")
    BY <2>2, <2>4, SMT DEF Reaction, Standing
  <2> QED
    BY <2>3, <2>4, Zenon
<1>8. ASSUME ~intruded, NEW p \in Procs PROVE Answers(p)'
  <2>1. Answers(p) /\ (Wanting(p)' <=> Wanting(p)) /\ (Wanting(p) => want[p] \in Records)
    BY <1>2, <1>8, Zenon DEF IInv, Kept, Types, Equipped, Wanting
  <2>2. Wanting(p) /\ ~Standing(want[p]) => ~Standing(want[p])'
    BY <1>2, <1>7, <2>1, Zenon DEF Standing
  <2> QED
    BY <1>2, <1>7, <2>1, <2>2, Zenon DEF Answers, Within
<1>9. ~intruded => Within(file \cup lapsed)'
  BY <1>2, <1>7, Zenon DEF IInv, Kept, Within
<1> QED
  BY <1>2, <1>6, <1>8, <1>9, Zenon DEF IInv, Kept

\* A start has the lock and the records, or the lock and none because they would
\* not load, or neither.
LEMMA StartHolds ==
    ASSUME IInv, NEW p \in Procs, Start(p)
    PROVE  IInv'
<1> USE UnderlayAssumption
<1>1. /\ Types /\ at[p] = "off"
      /\ UNCHANGED <<gw, primary, scoped, file, intruded, job, on, written, refused, want, held>>
  BY Zenon DEF IInv, Start, host
<1>2. lock' = lock \/ (lock = None /\ lock' = p)
  BY Zenon DEF Start, lockState
<1>3. \/ /\ todo' = [todo EXCEPT ![p] = IF lock' = p THEN file ELSE {}]
         /\ at' = [at EXCEPT ![p] = IF todo'[p] = {} THEN "new" ELSE "reclaim"]
         /\ lapsed' = lapsed
      \/ /\ lock' = p /\ at' = [at EXCEPT ![p] = "new"]
         /\ lapsed' = lapsed \cup file /\ todo' = todo
  BY Zenon DEF Start, At
<1>4. /\ at' \in [Procs -> Places] /\ todo' \in [Procs -> SUBSET Records]
      /\ lapsed' \subseteq Records /\ at'[p] \in {"new", "reclaim"}
      /\ \A q \in Procs \ {p} : at'[q] = at[q] /\ todo'[q] = todo[q]
  <2>1. CASE at' = [at EXCEPT ![p] = "new"] /\ lapsed' = lapsed \cup file /\ todo' = todo
    BY <1>1, <2>1, Zenon DEF Types, Places
  <2>2. CASE /\ todo' = [todo EXCEPT ![p] = IF lock' = p THEN file ELSE {}]
             /\ at' = [at EXCEPT ![p] = IF todo'[p] = {} THEN "new" ELSE "reclaim"]
             /\ lapsed' = lapsed
    BY <1>1, <2>2, Zenon DEF Types, Places
  <2> QED
    BY <1>3, <2>1, <2>2, Zenon
<1>5. Moved(p) /\ Shared /\ Equipped(p)'
  BY <1>1, <1>2, <1>4, Zenon DEF Types, Moved, Shared, Frame, Equipped, Wanting
<1>6. Types'
  BY <1>1, <1>5, TypesMoved, Zenon
<1>7. ASSUME ~intruded' PROVE Kept'
  <2>1. /\ Kept /\ lock # p /\ Frame(p) /\ Within(file \cup lapsed)
        /\ written[p] = {} /\ refused[p] = {} /\ todo[p] = {}
    BY <1>1, <1>5, <1>7, Zenon DEF IInv, Kept, Answers, Moved
  <2>2. \A r : Standing(r)' <=> Standing(r)
    BY <1>1, Zenon DEF Standing
  <2>3. lapsed \subseteq lapsed' /\ Within(file \cup lapsed)'
    BY <1>1, <1>3, <2>1, <2>2, Zenon DEF Within
  <2>4. /\ lock' # p => at'[p] = "new" /\ todo'[p] = {}
        /\ lock' = p => file \subseteq todo'[p] \cup lapsed'
        /\ at'[p] = "new" => todo'[p] = {}
    <3>1. CASE lock' = p /\ at' = [at EXCEPT ![p] = "new"] /\ lapsed' = lapsed \cup file
               /\ todo' = todo
      BY <1>1, <2>1, <3>1, Zenon DEF Types
    <3>2. CASE /\ todo' = [todo EXCEPT ![p] = IF lock' = p THEN file ELSE {}]
               /\ at' = [at EXCEPT ![p] = IF todo'[p] = {} THEN "new" ELSE "reclaim"]
               /\ lapsed' = lapsed
      <4>1. todo'[p] = IF lock' = p THEN file ELSE {}
        BY <1>1, <3>2, Zenon DEF Types
      <4>2. at'[p] = IF todo'[p] = {} THEN "new" ELSE "reclaim"
        BY <1>1, <3>2, Zenon DEF Types
      <4> QED
        BY <4>1, <4>2, Zenon
    <3> QED
      BY <1>3, <3>1, <3>2, Zenon
  <2>5. lock' = p => Within(todo[p] \cup refused[p] \cup lapsed)'
    BY <2>1, <2>2, <2>3, <2>4, Zenon DEF Within
  <2>6. lock' = p /\ at'[p] = "new" => Within(written[p] \cup refused[p] \cup lapsed)'
    BY <2>4, <2>5, Zenon DEF Within
  <2>7. Answers(p)'
    BY <1>1, <1>4, <2>1, <2>4, <2>5, <2>6, Zenon DEF Answers, Tending, Wanting
  <2>8. lock = None \/ UNCHANGED <<scoped, file, lapsed>>
    BY <1>1, <1>2, <1>3, <2>1, Zenon
  <2> QED
    BY <1>1, <1>2, <2>1, <2>3, <2>7, <2>8, KeptBy, Zenon
<1> QED
  BY <1>6, <1>7, Zenon DEF IInv

\* The routes that are left after a delete were there before it.
LEMMA Withdrawn ==
    ASSUME Types, NEW p \in Procs, NEW r \in Records, Withdraw(p, r)
    PROVE  /\ scoped' \in [Devs -> Routes \cup {None}]
           /\ \A s \in Records : Standing(s)' => Standing(s) /\ s # r
           /\ \A s \in Records : Standing(s) /\ s.dev # r.dev => Standing(s)'
<1>1. scoped' = [scoped EXCEPT ![r.dev] = None] /\ scoped \in [Devs -> Routes \cup {None}]
  BY Zenon DEF Withdraw, Types
<1>2. \A d \in Devs : scoped'[d] = IF d = r.dev THEN None ELSE scoped[d]
  BY <1>1, Zenon
<1>3. \A s \in Records : s.dev \in Devs
  BY DEF Records
<1>4. scoped' \in [Devs -> Routes \cup {None}]
  BY <1>1, Zenon
<1> QED
  BY <1>2, <1>3, <1>4, Zenon DEF Standing

\* The one reading keeps every record whose route is there.
LEMMA ReclaimHolds ==
    ASSUME IInv, NEW p \in Procs, Reclaim(p)
    PROVE  IInv'
<1>1. /\ Types /\ at[p] = "reclaim" /\ at' = [at EXCEPT ![p] = "withdraw"]
      /\ UNCHANGED <<gw, primary, scoped, file, lapsed, intruded, lock, job, on, written, want,
                     held>>
  BY Zenon DEF IInv, Reclaim, host, disk, At
<1>2. PICK new \in SUBSET todo[p], keep \in SUBSET todo[p] :
         /\ todo' = [todo EXCEPT ![p] = new] /\ refused' = [refused EXCEPT ![p] = keep]
         /\ \A r \in todo[p] : HeldByKernel(r) => r \in new \cup keep
  <2>1. CASE /\ todo' = [todo EXCEPT ![p] = {}]
             /\ refused' = [refused EXCEPT ![p] = todo[p]]
    BY <2>1, Zenon
  <2>2. CASE /\ todo' = [todo EXCEPT ![p] = {r \in todo[p] : HeldByKernel(r) /\ Reclaimable(r)}]
             /\ refused' = [refused EXCEPT
                               ![p] = {r \in todo[p] : HeldByKernel(r) /\ ~Reclaimable(r)}]
    <3> DEFINE new == {r \in todo[p] : HeldByKernel(r) /\ Reclaimable(r)}
               keep == {r \in todo[p] : HeldByKernel(r) /\ ~Reclaimable(r)}
    <3>1. new \in SUBSET todo[p] /\ keep \in SUBSET todo[p]
          /\ \A r \in todo[p] : HeldByKernel(r) => r \in new \cup keep
      BY Zenon
    <3> QED
      BY <2>2, <3>1, Zenon
  <2> QED
    BY <1>1, <2>1, <2>2, Zenon DEF Reclaim, Types
<1>3. /\ at'[p] = "withdraw" /\ todo'[p] = new /\ refused'[p] = keep /\ written'[p] = written[p]
      /\ Moved(p) /\ Shared /\ Equipped(p)'
  BY <1>1, <1>2, Zenon DEF Types, Moved, Shared, Frame, Equipped, Wanting, Places
<1>4. Types'
  BY <1>1, <1>3, TypesMoved, Zenon
<1>5. ASSUME ~intruded' PROVE Kept'
  <2>1. /\ Kept /\ lock = p /\ Frame(p) /\ Within(file \cup lapsed)
        /\ written[p] = {} /\ refused[p] = {} /\ Within(todo[p] \cup refused[p] \cup lapsed)
    BY <1>1, <1>3, <1>5, Zenon DEF IInv, Kept, Answers, Moved, Tending
  <2>2. \A r : (Standing(r)' <=> Standing(r)) /\ (Standing(r) => HeldByKernel(r))
    BY <1>1, Zenon DEF Standing, HeldByKernel
  <2>3. Within(file \cup lapsed)'
    BY <1>1, <2>1, <2>2, Zenon DEF Within
  <2>4. Within(todo[p] \cup refused[p] \cup lapsed)'
    BY <1>1, <1>2, <1>3, <2>1, <2>2, Zenon DEF Within
  <2>5. Answers(p)'
    BY <1>1, <1>3, <2>1, <2>4, Zenon DEF Answers, Wanting
  <2> QED
    BY <1>1, <2>1, <2>3, <2>5, KeptBy, Zenon
<1> QED
  BY <1>4, <1>5, Zenon DEF IInv

\* A record leaves the list with its route, or joins what is kept.
LEMMA ReclaimOneHolds ==
    ASSUME IInv, NEW p \in Procs, ReclaimOne(p)
    PROVE  IInv'
<1>1. /\ Types /\ at[p] = "withdraw"
      /\ UNCHANGED <<gw, primary, file, lapsed, intruded, lock, at, job, on, written, want, held>>
  BY Zenon DEF IInv, ReclaimOne, host, disk
<1>2. PICK r \in todo[p] :
         /\ todo' = [todo EXCEPT ![p] = todo[p] \ {r}]
         /\ \/ Withdraw(p, r) /\ UNCHANGED refused
            \/ refused' = [refused EXCEPT ![p] = refused[p] \cup {r}] /\ UNCHANGED scoped
  BY <1>1, Zenon DEF ReclaimOne, Types
<1>3. r \in Records /\ todo[p] \subseteq Records /\ refused[p] \subseteq Records
  BY <1>1, <1>2, Zenon DEF Types
<1>4. /\ scoped' \in [Devs -> Routes \cup {None}]
      /\ \A s \in Records : Standing(s)' => Standing(s)
      /\ refused' \in [Procs -> SUBSET Records]
      /\ \A q \in Procs \ {p} : refused'[q] = refused[q]
      /\ refused[p] \subseteq refused'[p]
      /\ \A s \in Records : Standing(s)' /\ s = r => s \in refused'[p]
  <2>1. CASE Withdraw(p, r) /\ UNCHANGED refused
    BY <1>1, <1>3, <2>1, Withdrawn, Zenon DEF Types
  <2>2. CASE refused' = [refused EXCEPT ![p] = refused[p] \cup {r}] /\ UNCHANGED scoped
    BY <1>1, <1>3, <2>2, Zenon DEF Types, Standing
  <2> QED
    BY <1>2, <2>1, <2>2, Zenon
<1>5. /\ todo'[p] = todo[p] \ {r} /\ written'[p] = written[p]
      /\ Moved(p) /\ Shared /\ Equipped(p)'
  BY <1>1, <1>2, <1>3, <1>4, Zenon DEF Types, Moved, Shared, Frame, Equipped, Wanting
<1>6. Types'
  BY <1>1, <1>5, TypesMoved, Zenon
<1>7. ASSUME ~intruded' PROVE Kept'
  <2>1. /\ Kept /\ lock = p /\ Frame(p) /\ Within(file \cup lapsed)
        /\ written[p] = {} /\ Within(todo[p] \cup refused[p] \cup lapsed)
    BY <1>1, <1>5, <1>7, Zenon DEF IInv, Kept, Answers, Moved, Tending
  <2>2. Within(file \cup lapsed)'
    BY <1>1, <1>4, <2>1, Zenon DEF Within
  <2>3. Within(todo[p] \cup refused[p] \cup lapsed)'
    BY <1>1, <1>4, <1>5, <2>1, Zenon DEF Within
  <2>4. Answers(p)'
    BY <1>1, <1>5, <2>1, <2>3, Zenon DEF Answers, Wanting
  <2> QED
    BY <1>1, <2>1, <2>2, <2>4, KeptBy, Zenon
<1> QED
  BY <1>6, <1>7, Zenon DEF IInv

LEMMA KeepHolds ==
    ASSUME IInv, NEW p \in Procs, Keep(p)
    PROVE  IInv'
<1>1. /\ Types /\ at[p] = "withdraw" /\ todo[p] = {} /\ at' = [at EXCEPT ![p] = "new"] /\ Persist(p)
      /\ UNCHANGED <<gw, primary, scoped, lock, job, on, written, refused, todo, want, held>>
  BY Zenon DEF IInv, Keep, host, At
<1>2. written'[p] \cup refused'[p] \subseteq Records
  BY <1>1, Zenon DEF Types
<1>3. file' \subseteq Records /\ lapsed' \subseteq Records /\ (~intruded' => ~intruded /\ lock = p)
  BY <1>1, <1>2, Saved, Zenon
<1>4. at'[p] = "new" /\ Moved(p) /\ Shared /\ Equipped(p)'
  BY <1>1, <1>3, Zenon DEF Types, Moved, Shared, Frame, Equipped, Wanting, Places
<1>5. Types'
  BY <1>1, <1>4, TypesMoved, Zenon
<1>6. ASSUME ~intruded' PROVE Kept'
  <2>1. Kept /\ Frame(p) /\ Within(refused[p] \cup lapsed)
    BY <1>1, <1>3, <1>4, <1>6, Zenon DEF IInv, Kept, Answers, Moved, Within
  <2>2. \A r \in Records : Standing(r) => r \in written'[p] \cup refused'[p] \cup lapsed
    BY <1>1, <2>1, Zenon DEF Within
  <2> QED
    BY <1>1, <1>2, <1>4, <1>6, <2>1, <2>2, SavingKeeps, Zenon DEF Wanting
<1> QED
  BY <1>5, <1>6, Zenon DEF IInv

LEMMA OpenHolds ==
    ASSUME IInv, NEW p \in Procs, Open(p)
    PROVE  IInv'
<1>1. /\ Types /\ at[p] = "new" /\ on' = [on EXCEPT ![p] = primary]
      /\ UNCHANGED <<gw, primary, scoped, file, lapsed, intruded, lock, written, refused, todo, want,
                     held>>
  BY Zenon DEF IInv, Open, host, disk
<1>2. /\ at' \in [Procs -> Places] /\ job' \in [Procs -> Jobs] /\ on' \in [Procs -> Devs \cup {None}]
      /\ \A q \in Procs \ {p} : at'[q] = at[q] /\ job'[q] = job[q] /\ on'[q] = on[q]
      /\ at'[p] \in {"ensure", "socket"} /\ (at'[p] = "ensure" => on'[p] \in Devs)
  <2>1. CASE primary = None
    <3>1. at' = [at EXCEPT ![p] = "socket"] /\ job' = job
      BY <2>1, Zenon DEF Open, At
    <3> QED
      BY <1>1, <3>1, Zenon DEF Types, Places
  <2>2. CASE primary # None
    <3>1. at' = [at EXCEPT ![p] = "ensure"] /\ job' = [job EXCEPT ![p] = "open"]
      BY <2>2, Zenon DEF Open, At, Do
    <3> QED
      BY <1>1, <2>2, <3>1, Zenon DEF Types, Places, Jobs
  <2> QED
    BY <2>1, <2>2, Zenon
<1>3. Moved(p) /\ Shared /\ Equipped(p)'
  BY <1>1, <1>2, Zenon DEF Types, Moved, Shared, Frame, Equipped, Wanting
<1>4. Types'
  BY <1>1, <1>3, TypesMoved, Zenon
<1>5. ASSUME ~intruded' PROVE Kept'
  <2>1. Kept /\ Frame(p)
    BY <1>1, <1>3, <1>5, Zenon DEF IInv, Moved
  <2> QED
    BY <1>1, <1>2, <2>1, QuietKeeps, Zenon
<1> QED
  BY <1>4, <1>5, Zenon DEF IInv

\* A call that ends leaves the routes and the records as they are.
LEMMA ReturnHolds ==
    ASSUME IInv, NEW p \in Procs, NEW err, NEW answer, Return(p, err, answer),
           at[p] \in {"ensure", "remove"},
           UNCHANGED <<gw, primary, scoped, file, lapsed, intruded, lock, on, written, refused, want,
                       held>>
    PROVE  IInv'
<1>1. Types /\ written' \in [Procs -> SUBSET Records]
  BY Zenon DEF IInv, Types
<1>2. /\ at' \in [Procs -> Places] /\ job' \in [Procs -> Jobs]
      /\ todo' \in [Procs -> SUBSET Records]
      /\ \A q \in Procs \ {p} : at'[q] = at[q] /\ job'[q] = job[q] /\ todo'[q] = todo[q]
      /\ at'[p] \in {"remove", "socket", "exit", "idle"}
      /\ at'[p] = "remove" => job'[p] = "close"
      /\ todo'[p] \subseteq written'[p]
  BY <1>1, Returned, Zenon
<1>3. Moved(p) /\ Shared /\ Equipped(p)'
  BY <1>1, <1>2, Zenon DEF Types, Moved, Shared, Frame, Equipped, Wanting
<1>4. Types'
  BY <1>1, <1>3, TypesMoved, Zenon
<1>5. ASSUME ~intruded' PROVE Kept'
  <2>1. Kept /\ Frame(p)
    BY <1>3, <1>5, Zenon DEF IInv, Moved
  <2> QED
    BY <1>1, <1>2, <2>1, QuietKeeps, Zenon
<1> QED
  BY <1>4, <1>5, Zenon DEF IInv

\* ensure has seen that its route is not in the table.
LEMMA EnsureHolds ==
    ASSUME IInv, NEW p \in Procs, Ensure(p)
    PROVE  IInv'
<1> DEFINE r == [dev |-> on[p], gw |-> gw[on[p]]]
<1>1. /\ Types /\ at[p] = "ensure"
      /\ UNCHANGED <<gw, primary, scoped, file, lapsed, intruded, lock, on, written, refused, held>>
  BY Zenon DEF IInv, Ensure, host, disk
<1>2. r \in Records
  <2>1. on[p] \in Devs /\ gw[on[p]] \in Gws
    BY <1>1, Zenon DEF Types, Equipped
  <2> QED
    BY <2>1 DEF Records
<1> HIDE DEF r
<1>3. \/ UNCHANGED want /\ Return(p, FALSE, primary = on[p])
      \/ UNCHANGED want /\ Return(p, TRUE, FALSE)
      \/ /\ ~HeldByKernel(r) /\ want' = [want EXCEPT ![p] = r]
         /\ todo' = [todo EXCEPT ![p] = SameKey(p, r)]
         /\ at' = [at EXCEPT ![p] = "remove"] /\ UNCHANGED job
  BY Zenon DEF Ensure, r, At
<1>4. CASE UNCHANGED want /\ (Return(p, FALSE, primary = on[p]) \/ Return(p, TRUE, FALSE))
  BY <1>1, <1>4, ReturnHolds, Zenon
<1>5. CASE /\ ~HeldByKernel(r) /\ want' = [want EXCEPT ![p] = r]
           /\ todo' = [todo EXCEPT ![p] = SameKey(p, r)]
           /\ at' = [at EXCEPT ![p] = "remove"] /\ UNCHANGED job
  <2>1. SameKey(p, r) \subseteq written[p] /\ written[p] \subseteq Records
    BY <1>1, Zenon DEF SameKey, Types
  <2>2. /\ at'[p] = "remove" /\ want'[p] = r /\ todo'[p] \subseteq written[p]
        /\ Moved(p) /\ Shared /\ Equipped(p)'
    BY <1>1, <1>2, <1>5, <2>1, Zenon DEF Types, Moved, Shared, Frame, Equipped, Places
  <2>3. Types'
    BY <1>1, <2>2, TypesMoved, Zenon
  <2>4. ASSUME ~intruded' PROVE Kept'
    <3>1. /\ Kept /\ Answers(p) /\ Frame(p)
          /\ written'[p] = written[p] /\ refused'[p] = refused[p]
      BY <1>1, <2>2, <2>4, Zenon DEF IInv, Kept, Moved
    <3>2. (\A s : Standing(s)' <=> Standing(s)) /\ ~Standing(want[p])'
      BY <1>1, <1>5, <2>2, Zenon DEF Standing, HeldByKernel
    <3>3. Within(file \cup lapsed)'
      BY <1>1, <3>1, <3>2, Zenon DEF Kept, Within
    <3>4. lock = p => Within(written[p] \cup refused[p] \cup lapsed)'
      BY <1>1, <3>1, <3>2, Zenon DEF Answers, Within
    <3>5. lock # p => written'[p] = {} /\ refused'[p] = {} /\ todo'[p] = {}
      BY <2>2, <3>1, Zenon DEF Answers
    <3>6. Answers(p)'
      BY <1>1, <2>2, <3>2, <3>4, <3>5, Zenon DEF Answers, Tending
    <3> QED
      BY <1>1, <3>1, <3>3, <3>6, KeptBy, Zenon
  <2> QED
    BY <2>3, <2>4, Zenon DEF IInv
<1> QED
  BY <1>3, <1>4, <1>5, Zenon

\* A record leaves the list, and the set only if its route was seen to be gone.
LEMMA RemoveOneHolds ==
    ASSUME IInv, NEW p \in Procs, RemoveOne(p)
    PROVE  IInv'
<1>1. /\ Types /\ at[p] = "remove"
      /\ UNCHANGED <<gw, primary, scoped, file, lapsed, intruded, lock, job, on, refused, want>>
  BY Zenon DEF IInv, RemoveOne, host, disk
<1>2. PICK r \in todo[p] :
         /\ todo' = [todo EXCEPT ![p] = todo[p] \ {r}]
         /\ \/ held' = [held EXCEPT ![p] = r] /\ at' = [at EXCEPT ![p] = "delete"]
               /\ UNCHANGED written
            \/ /\ ~HeldByKernel(r)
               /\ written' = [written EXCEPT ![p] = written[p] \ {r}]
               /\ at' = [at EXCEPT ![p] = "forget"] /\ UNCHANGED held
            \/ UNCHANGED <<held, written, at>>
  BY <1>1, Zenon DEF RemoveOne, Types, At
<1>3. r \in Records /\ todo[p] \subseteq Records /\ written[p] \subseteq Records
  BY <1>1, <1>2, Zenon DEF Types
<1>4. /\ at' \in [Procs -> Places] /\ held' \in [Procs -> Records \cup {None}]
      /\ written' \in [Procs -> SUBSET Records]
      /\ \A q \in Procs \ {p} : at'[q] = at[q] /\ held'[q] = held[q] /\ written'[q] = written[q]
      /\ at'[p] \in {"remove", "delete", "forget"} /\ (at'[p] = "delete" => held'[p] \in Records)
      /\ \A s \in written[p] \ written'[p] : s = r /\ ~HeldByKernel(r)
  <2>1. CASE held' = [held EXCEPT ![p] = r] /\ at' = [at EXCEPT ![p] = "delete"] /\ UNCHANGED written
    BY <1>1, <1>3, <2>1, Zenon DEF Types, Places
  <2>2. CASE /\ ~HeldByKernel(r)
             /\ written' = [written EXCEPT ![p] = written[p] \ {r}]
             /\ at' = [at EXCEPT ![p] = "forget"] /\ UNCHANGED held
    BY <1>1, <1>3, <2>2, Zenon DEF Types, Places
  <2>3. CASE UNCHANGED <<held, written, at>>
    BY <1>1, <2>3, Zenon DEF Types
  <2> QED
    BY <1>2, <2>1, <2>2, <2>3, Zenon
<1>5. Wanting(p)' <=> Wanting(p)
  BY <1>1, <1>4, Zenon DEF Wanting
<1>6. todo'[p] = todo[p] \ {r} /\ Moved(p) /\ Shared
  BY <1>1, <1>2, <1>3, <1>4, Zenon DEF Types, Moved, Shared, Frame
<1>7. Equipped(p)'
  BY <1>1, <1>4, <1>5, Zenon DEF Types, Equipped
<1>8. Types'
  BY <1>1, <1>6, <1>7, TypesMoved, Zenon
<1>9. ASSUME ~intruded' PROVE Kept'
  <2>1. /\ Kept /\ lock = p /\ Frame(p) /\ Within(file \cup lapsed)
        /\ Within(written[p] \cup refused[p] \cup lapsed)
        /\ Wanting(p) => ~Standing(want[p])
    BY <1>1, <1>2, <1>6, <1>9, Zenon DEF IInv, Kept, Answers, Moved
  <2>2. \A s : (Standing(s)' <=> Standing(s)) /\ (Standing(s) => HeldByKernel(s))
    BY <1>1, Zenon DEF Standing, HeldByKernel
  <2>3. Within(file \cup lapsed)'
    BY <1>1, <2>1, <2>2, Zenon DEF Within
  <2>4. Within(written[p] \cup refused[p] \cup lapsed)'
    BY <1>1, <1>4, <2>1, <2>2, Zenon DEF Within
  <2>5. Wanting(p) => ~Standing(want[p])'
    BY <1>1, <2>1, Zenon DEF Standing
  <2>6. Answers(p)'
    BY <1>1, <1>4, <1>5, <2>1, <2>4, <2>5, Zenon DEF Answers
  <2> QED
    BY <1>1, <2>1, <2>3, <2>6, KeptBy, Zenon
<1> QED
  BY <1>8, <1>9, Zenon DEF IInv

\* A record leaves the set with its route, or stays with it.
LEMMA DeleteHolds ==
    ASSUME IInv, NEW p \in Procs, Delete(p)
    PROVE  IInv'
<1>1. /\ Types /\ at[p] = "delete" /\ held[p] \in Records
      /\ held' = [held EXCEPT ![p] = None]
      /\ UNCHANGED <<gw, primary, file, lapsed, intruded, lock, job, on, refused, todo, want>>
  BY Zenon DEF IInv, Types, Equipped, Delete, host, disk
<1>2. \/ /\ Withdraw(p, held[p])
         /\ written' = [written EXCEPT ![p] = written[p] \ {held[p]}]
         /\ at' = [at EXCEPT ![p] = "forget"]
      \/ at' = [at EXCEPT ![p] = "remove"] /\ UNCHANGED <<scoped, written>>
  BY <1>1, Zenon DEF Delete, Types, At
<1>3. /\ at' \in [Procs -> Places] /\ written' \in [Procs -> SUBSET Records]
      /\ scoped' \in [Devs -> Routes \cup {None}]
      /\ \A q \in Procs \ {p} : at'[q] = at[q] /\ written'[q] = written[q]
      /\ at'[p] \in {"remove", "forget"}
      /\ \A s \in Records : Standing(s)' => Standing(s) /\ (s \in written[p] => s \in written'[p])
  <2>1. CASE /\ Withdraw(p, held[p])
             /\ written' = [written EXCEPT ![p] = written[p] \ {held[p]}]
             /\ at' = [at EXCEPT ![p] = "forget"]
    <3>1. /\ scoped' \in [Devs -> Routes \cup {None}]
          /\ \A s \in Records : Standing(s)' => Standing(s) /\ s # held[p]
      BY <1>1, <2>1, Withdrawn, Zenon
    <3>2. /\ at' \in [Procs -> Places] /\ written' \in [Procs -> SUBSET Records]
          /\ \A q \in Procs \ {p} : at'[q] = at[q] /\ written'[q] = written[q]
          /\ at'[p] = "forget" /\ written'[p] = written[p] \ {held[p]}
      BY <1>1, <2>1, Zenon DEF Types, Places
    <3> QED
      BY <3>1, <3>2, Zenon
  <2>2. CASE at' = [at EXCEPT ![p] = "remove"] /\ UNCHANGED <<scoped, written>>
    BY <1>1, <2>2, Zenon DEF Types, Places, Standing
  <2> QED
    BY <1>2, <2>1, <2>2, Zenon
<1>4. Wanting(p)' <=> Wanting(p)
  BY <1>1, <1>3, Zenon DEF Wanting
<1>5. Moved(p) /\ Shared
  BY <1>1, <1>3, Zenon DEF Types, Moved, Shared, Frame
<1>6. Equipped(p)'
  BY <1>1, <1>3, <1>4, Zenon DEF Types, Equipped
<1>7. Types'
  BY <1>1, <1>5, <1>6, TypesMoved, Zenon
<1>8. ASSUME ~intruded' PROVE Kept'
  <2>1. /\ Kept /\ lock = p /\ Frame(p) /\ Within(file \cup lapsed)
        /\ Within(written[p] \cup refused[p] \cup lapsed)
        /\ Wanting(p) => ~Standing(want[p]) /\ want[p] \in Records
    BY <1>1, <1>5, <1>8, Zenon DEF IInv, Types, Equipped, Kept, Answers, Moved, Tending
  <2>2. Within(file \cup lapsed)'
    BY <1>1, <1>3, <2>1, Zenon DEF Within
  <2>3. Within(written[p] \cup refused[p] \cup lapsed)'
    BY <1>1, <1>3, <2>1, Zenon DEF Within
  <2>4. Wanting(p) => ~Standing(want[p])'
    BY <1>1, <1>3, <2>1, Zenon DEF Standing
  <2>5. Answers(p)'
    BY <1>1, <1>3, <1>4, <2>1, <2>3, <2>4, Zenon DEF Answers
  <2> QED
    BY <1>1, <2>1, <2>2, <2>5, KeptBy, Zenon
<1> QED
  BY <1>7, <1>8, Zenon DEF IInv

LEMMA ForgetHolds ==
    ASSUME IInv, NEW p \in Procs, Forget(p)
    PROVE  IInv'
<1>1. /\ Types /\ at[p] = "forget" /\ at' = [at EXCEPT ![p] = "remove"] /\ Persist(p)
      /\ UNCHANGED <<gw, primary, scoped, lock, job, on, written, refused, todo, want, held>>
  BY Zenon DEF IInv, Forget, host, At
<1>2. written'[p] \cup refused'[p] \subseteq Records
  BY <1>1, Zenon DEF Types
<1>3. file' \subseteq Records /\ lapsed' \subseteq Records /\ (~intruded' => ~intruded /\ lock = p)
  BY <1>1, <1>2, Saved, Zenon
<1>4. at'[p] = "remove" /\ Moved(p) /\ Shared
  BY <1>1, <1>3, Zenon DEF Types, Moved, Shared, Frame, Places
<1>5. (Wanting(p)' <=> Wanting(p)) /\ Equipped(p)'
  BY <1>1, <1>4, Zenon DEF Types, Equipped, Wanting
<1>6. Types'
  BY <1>1, <1>4, <1>5, TypesMoved, Zenon
<1>7. ASSUME ~intruded' PROVE Kept'
  <2>1. /\ Kept /\ Frame(p) /\ Within(written[p] \cup refused[p] \cup lapsed)
        /\ Wanting(p) => ~Standing(want[p])
    BY <1>1, <1>3, <1>4, <1>7, Zenon DEF IInv, Kept, Answers, Moved
  <2>2. \A r \in Records : Standing(r) => r \in written'[p] \cup refused'[p] \cup lapsed
    BY <1>1, <2>1, Zenon DEF Within
  <2> QED
    BY <1>1, <1>2, <1>4, <1>5, <1>7, <2>1, <2>2, SavingKeeps, Zenon
<1> QED
  BY <1>6, <1>7, Zenon DEF IInv

\* The route ensure is about to write joins the record first.
LEMMA RemovedHolds ==
    ASSUME IInv, NEW p \in Procs, Removed(p)
    PROVE  IInv'
<1>1. /\ Types /\ at[p] = "remove"
      /\ UNCHANGED <<gw, primary, scoped, lock, on, refused, want, held>>
  BY Zenon DEF IInv, Removed, host
<1>2. CASE job[p] \in {"settle", "close"} \/ failed[p]
  <2>1. UNCHANGED <<written, file, lapsed, intruded>> /\ Return(p, failed[p], FALSE)
    BY <1>2, Zenon DEF Removed, disk
  <2> QED
    BY <1>1, <2>1, ReturnHolds, Zenon
<1>3. CASE ~(job[p] \in {"settle", "close"} \/ failed[p])
  <2>1. /\ written' = [written EXCEPT ![p] = written[p] \cup {want[p]}] /\ Persist(p)
        /\ at' = [at EXCEPT ![p] = "write"] /\ UNCHANGED <<job, todo>>
    BY <1>1, <1>3, Zenon DEF Removed, At, Types
  <2>2. Wanting(p) /\ want[p] \in Records
    BY <1>1, <1>3, Zenon DEF Types, Equipped, Wanting
  <2>3. /\ written' \in [Procs -> SUBSET Records] /\ written'[p] = written[p] \cup {want[p]}
        /\ \A q \in Procs \ {p} : written'[q] = written[q]
        /\ refused'[p] = refused[p] /\ written'[p] \cup refused'[p] \subseteq Records
    BY <1>1, <2>1, <2>2, Zenon DEF Types
  <2>4. file' \subseteq Records /\ lapsed' \subseteq Records /\ (~intruded' => ~intruded /\ lock = p)
    BY <1>1, <2>1, <2>3, Saved, Zenon
  <2>5. at'[p] = "write" /\ Moved(p) /\ Shared /\ Equipped(p)'
    BY <1>1, <2>1, <2>2, <2>3, <2>4, Zenon DEF Types, Moved, Shared, Frame, Places, Equipped
  <2>6. Types'
    BY <1>1, <2>5, TypesMoved, Zenon
  <2>7. ASSUME ~intruded' PROVE Kept'
    <3>1. /\ Kept /\ Frame(p) /\ Within(written[p] \cup refused[p] \cup lapsed)
          /\ ~Standing(want[p])
      BY <1>1, <2>2, <2>4, <2>5, <2>7, Zenon DEF IInv, Kept, Answers, Moved
    <3>2. \A r \in Records : Standing(r) => r \in written'[p] \cup refused'[p] \cup lapsed
      BY <2>3, <3>1, Zenon DEF Within
    <3>3. ~Standing(want'[p]) /\ want'[p] \in written'[p]
      BY <1>1, <2>3, <3>1, Zenon
    <3>4. UNCHANGED <<scoped, lock>> /\ at'[p] \notin {"off", "reclaim", "withdraw"}
      BY <1>1, <2>5, Zenon
    <3> QED
      BY <1>1, <2>1, <2>3, <2>7, <3>1, <3>2, <3>3, <3>4, SavingKeeps, Zenon
  <2> QED
    BY <2>6, <2>7, Zenon DEF IInv
<1> QED
  BY <1>2, <1>3, Zenon

\* The route's record is there already.
LEMMA WriteHolds ==
    ASSUME IInv, NEW p \in Procs, Write(p)
    PROVE  IInv'
<1> DEFINE d == want[p].dev
           route == [gw |-> want[p].gw, by |-> "us"]
<1>1. /\ Types /\ at[p] = "write" /\ want[p] \in Records /\ written' = written
      /\ UNCHANGED <<gw, primary, file, lapsed, intruded, lock, on, refused, want, held>>
  BY Zenon DEF IInv, Types, Equipped, Wanting, Write, host, disk
<1>2. d \in Devs /\ route \in Routes
  BY <1>1 DEF Records, Routes
<1> HIDE DEF route
<1>3. \/ scoped' = [scoped EXCEPT ![d] = route] /\ Return(p, FALSE, TRUE)
      \/ at' = [at EXCEPT ![p] = "drop"] /\ UNCHANGED <<scoped, job, todo>>
  BY Zenon DEF Write, At, route
<1>4. CASE scoped' = [scoped EXCEPT ![d] = route] /\ Return(p, FALSE, TRUE)
  <2>1. /\ at' \in [Procs -> Places] /\ job' \in [Procs -> Jobs]
        /\ todo' \in [Procs -> SUBSET Records]
        /\ \A q \in Procs \ {p} : at'[q] = at[q] /\ job'[q] = job[q] /\ todo'[q] = todo[q]
        /\ at'[p] \in {"remove", "socket", "exit", "idle"}
        /\ at'[p] = "remove" => job'[p] = "close"
    <3>1. written' \in [Procs -> SUBSET Records]
      BY <1>1, Zenon DEF Types
    <3> QED
      BY <1>1, <1>4, <3>1, Returned, Zenon
  <2>2. /\ scoped' \in [Devs -> Routes \cup {None}]
        /\ \A e \in Devs : scoped'[e] = IF e = d THEN route ELSE scoped[e]
    BY <1>1, <1>2, <1>4, Zenon DEF Types
  <2>3. Moved(p) /\ Shared /\ Equipped(p)' /\ ~Wanting(p)'
    BY <1>1, <2>1, <2>2, Zenon DEF Types, Moved, Shared, Frame, Equipped, Wanting
  <2>4. Types'
    BY <1>1, <2>3, TypesMoved, Zenon
  <2>5. ASSUME NEW s \in Records, Standing(s)' PROVE Standing(s) \/ s = want[p]
    <3>1. s.dev \in Devs
      BY DEF Records
    <3>2. CASE s.dev = d
      BY <1>1, <2>2, <2>5, <3>1, <3>2, SMT DEF Standing, route, Records
    <3>3. CASE s.dev # d
      BY <2>2, <2>5, <3>1, <3>3, Zenon DEF Standing
    <3> QED
      BY <3>2, <3>3, Zenon
  <2>6. ASSUME ~intruded' PROVE Kept'
    <3>1. /\ Kept /\ lock = p /\ Frame(p) /\ Within(file \cup lapsed)
          /\ Within(written[p] \cup refused[p] \cup lapsed)
          /\ want[p] \in written[p] /\ want[p] \in file \cup lapsed
      BY <1>1, <2>3, <2>6, Zenon DEF IInv, Kept, Answers, Moved, Tending
    <3>2. Within(file \cup lapsed)'
      BY <1>1, <2>5, <3>1, Zenon DEF Within
    <3>3. Within(written[p] \cup refused[p] \cup lapsed)'
      BY <1>1, <2>5, <3>1, Zenon DEF Within
    <3>4. Answers(p)'
      BY <1>1, <2>1, <2>3, <3>1, <3>3, Zenon DEF Answers
    <3> QED
      BY <1>1, <3>1, <3>2, <3>4, KeptBy, Zenon
  <2> QED
    BY <2>4, <2>6, Zenon DEF IInv
<1>5. CASE at' = [at EXCEPT ![p] = "drop"] /\ UNCHANGED <<scoped, job, todo>>
  <2>1. at'[p] = "drop" /\ Moved(p) /\ Shared /\ Equipped(p)'
    BY <1>1, <1>5, Zenon DEF Types, Moved, Shared, Frame, Places, Equipped
  <2>2. Types'
    BY <1>1, <2>1, TypesMoved, Zenon
  <2>3. ASSUME ~intruded' PROVE Kept'
    <3>1. /\ Kept /\ lock = p /\ Frame(p) /\ Answers(p) /\ Wanting(p)
      BY <1>1, <2>1, <2>3, Zenon DEF IInv, Kept, Answers, Moved, Tending, Wanting
    <3>2. (\A s : Standing(s)' <=> Standing(s)) /\ (Standing(want[p])' <=> Standing(want[p]))
      BY <1>1, <1>5, Zenon DEF Standing
    <3>3. Within(file \cup lapsed)'
      BY <1>1, <3>1, <3>2, Zenon DEF Kept, Within
    <3>4. Within(written[p] \cup refused[p] \cup lapsed)'
      BY <1>1, <3>1, <3>2, Zenon DEF Answers, Within
    <3>5. Answers(p)'
      BY <1>1, <2>1, <3>1, <3>2, <3>4, Zenon DEF Answers
    <3> QED
      BY <1>1, <3>1, <3>3, <3>5, KeptBy, Zenon
  <2> QED
    BY <2>2, <2>3, Zenon DEF IInv
<1> QED
  BY <1>3, <1>4, <1>5, Zenon

\* The record of what was not written goes; there is no such route of ours.
LEMMA DropHolds ==
    ASSUME IInv, NEW p \in Procs, Drop(p)
    PROVE  IInv'
<1>1. /\ Types /\ at[p] = "drop" /\ want[p] \in Records /\ Persist(p)
      /\ Return(p, failed[p], covered[p])
      /\ UNCHANGED <<gw, primary, scoped, lock, on, refused, want, held>>
  BY Zenon DEF IInv, Types, Equipped, Wanting, Drop, host
<1>2. /\ written' \in [Procs -> SUBSET Records] /\ written'[p] = written[p] \ {want[p]}
      /\ \A q \in Procs \ {p} : written'[q] = written[q]
      /\ refused'[p] = refused[p] /\ written'[p] \cup refused'[p] \subseteq Records
  BY <1>1, Zenon DEF Drop, Types
<1>3. /\ at' \in [Procs -> Places] /\ job' \in [Procs -> Jobs]
      /\ todo' \in [Procs -> SUBSET Records]
      /\ \A q \in Procs \ {p} : at'[q] = at[q] /\ job'[q] = job[q] /\ todo'[q] = todo[q]
      /\ at'[p] \in {"remove", "socket", "exit", "idle"}
      /\ at'[p] = "remove" => job'[p] = "close"
  BY <1>1, <1>2, Returned, Zenon
<1>4. file' \subseteq Records /\ lapsed' \subseteq Records /\ (~intruded' => ~intruded /\ lock = p)
  BY <1>1, <1>2, Saved, Zenon
<1>5. Moved(p) /\ Shared /\ Equipped(p)' /\ ~Wanting(p)'
  BY <1>1, <1>2, <1>3, <1>4, Zenon DEF Types, Moved, Shared, Frame, Equipped, Wanting
<1>6. Types'
  BY <1>1, <1>5, TypesMoved, Zenon
<1>7. ASSUME ~intruded' PROVE Kept'
  <2>1. /\ Kept /\ Frame(p) /\ Within(written[p] \cup refused[p] \cup lapsed)
        /\ ~Standing(want[p])
    BY <1>1, <1>4, <1>5, <1>7, Zenon DEF IInv, Kept, Answers, Moved, Wanting
  <2>2. \A r \in Records : Standing(r) => r \in written'[p] \cup refused'[p] \cup lapsed
    BY <1>2, <2>1, Zenon DEF Within
  <2>3. at'[p] \notin {"off", "reclaim", "withdraw", "write"}
    BY <1>3, Zenon
  <2> QED
    BY <1>1, <1>2, <1>5, <1>7, <2>1, <2>2, <2>3, SavingKeeps, Zenon
<1> QED
  BY <1>6, <1>7, Zenon DEF IInv

\* The steps of the socket and of the reconciler, which touch no route and no
\* record.
LEMMA MovedHolds ==
    ASSUME IInv, NEW p \in Procs, at[p] \in {"socket", "idle"}, Moved(p),
           UNCHANGED <<gw, primary, scoped, file, lapsed, intruded, lock, written, refused>>,
           todo'[p] \subseteq written[p] \cup todo[p],
           at'[p] = "ensure" => on'[p] \in Devs,
           \/ at'[p] \in {"ensure", "exit", "idle"}
           \/ at'[p] = "remove" /\ job'[p] \in {"settle", "close"}
    PROVE  IInv'
<1>1. Types /\ Shared /\ Equipped(p)'
  BY Zenon DEF IInv, Types, Shared, Equipped, Wanting
<1>2. Types'
  BY <1>1, TypesMoved, Zenon
<1>3. ASSUME ~intruded' PROVE Kept'
  <2>1. Kept /\ Frame(p)
    BY <1>3, Zenon DEF IInv, Moved
  <2> QED
    BY <1>1, <2>1, QuietKeeps, Zenon
<1> QED
  BY <1>2, <1>3, Zenon DEF IInv

LEMMA SocketHolds ==
    ASSUME IInv, NEW p \in Procs, Socket(p)
    PROVE  IInv'
<1>1. /\ Types /\ at[p] = "socket"
      /\ UNCHANGED <<gw, primary, scoped, file, lapsed, intruded, lock, on, written, refused, want,
                     held>>
  BY Zenon DEF IInv, Socket, host, disk
<1>2. CASE port = None
  <2>1. at' = [at EXCEPT ![p] = "idle"] /\ UNCHANGED <<job, todo>>
    BY <1>2, Zenon DEF Socket, At
  <2>2. Moved(p) /\ at'[p] = "idle" /\ todo'[p] = todo[p]
    BY <1>1, <2>1, Zenon DEF Types, Moved, Frame, Places
  <2> QED
    BY <1>1, <2>2, MovedHolds, Zenon
<1>3. CASE port # None
  <2>1. /\ at' = [at EXCEPT ![p] = "remove"] /\ job' = [job EXCEPT ![p] = "close"]
        /\ todo' = [todo EXCEPT ![p] = written[p]]
    BY <1>3, Zenon DEF Socket, At, Do
  <2>2. Moved(p) /\ at'[p] = "remove" /\ job'[p] = "close" /\ todo'[p] = written[p]
    BY <1>1, <2>1, Zenon DEF Types, Moved, Frame, Places, Jobs
  <2> QED
    BY <1>1, <2>2, MovedHolds, Zenon
<1> QED
  BY <1>2, <1>3, Zenon

LEMMA PrepareHolds ==
    ASSUME IInv, NEW p \in Procs, Prepare(p)
    PROVE  IInv'
<1>1. /\ Types /\ at[p] = "idle"
      /\ UNCHANGED <<gw, primary, scoped, file, lapsed, intruded, lock, written, refused, todo, want,
                     held>>
  BY Zenon DEF IInv, Prepare, host, disk
<1>2. CASE primary = None
  <2>1. UNCHANGED <<on, at, job>>
    BY <1>2, Zenon DEF Prepare
  <2>2. Moved(p) /\ at'[p] = "idle" /\ todo'[p] = todo[p]
    BY <1>1, <2>1, Zenon DEF Types, Moved, Frame
  <2> QED
    BY <1>1, <2>2, MovedHolds, Zenon
<1>3. CASE primary # None
  <2>1. /\ at' = [at EXCEPT ![p] = "ensure"] /\ job' = [job EXCEPT ![p] = "prepare"]
        /\ on' = [on EXCEPT ![p] = primary]
    BY <1>3, Zenon DEF Prepare, At, Do
  <2>2. Moved(p) /\ at'[p] = "ensure" /\ on'[p] \in Devs /\ todo'[p] = todo[p]
    BY <1>1, <1>3, <2>1, Zenon DEF Types, Moved, Frame, Places, Jobs
  <2> QED
    BY <1>1, <2>2, MovedHolds, Zenon
<1> QED
  BY <1>2, <1>3, Zenon

LEMMA SettleHolds ==
    ASSUME IInv, NEW p \in Procs, Settle(p)
    PROVE  IInv'
<1>1. /\ Types /\ at[p] = "idle"
      /\ UNCHANGED <<gw, primary, scoped, file, lapsed, intruded, lock, on, written, refused, want,
                     held>>
      /\ at' = [at EXCEPT ![p] = "remove"] /\ job' = [job EXCEPT ![p] = "settle"]
      /\ todo' = [todo EXCEPT ![p] = {h \in written[p] : h.dev # on[p]}]
  BY Zenon DEF IInv, Settle, host, disk, At, Do
<1>2. {h \in written[p] : h.dev # on[p]} \subseteq written[p] /\ written[p] \subseteq Records
  BY <1>1, Zenon DEF Types
<1>3. Moved(p) /\ at'[p] = "remove" /\ job'[p] = "settle" /\ todo'[p] \subseteq written[p]
  BY <1>1, <1>2, Zenon DEF Types, Moved, Frame, Places, Jobs
<1> QED
  BY <1>1, <1>3, MovedHolds, Zenon

LEMMA ReadyHolds ==
    ASSUME IInv, NEW p \in Procs, Ready(p)
    PROVE  IInv'
<1>1. /\ Types /\ at[p] = "idle"
      /\ UNCHANGED <<gw, primary, scoped, file, lapsed, intruded, lock, on, written, refused, todo,
                     want, held>>
  BY Zenon DEF IInv, Ready, host, disk
<1>2. CASE on[p] = None
  <2>1. Moved(p) /\ at'[p] = "idle" /\ todo'[p] = todo[p]
    BY <1>1, <1>2, Zenon DEF Ready, Types, Moved, Frame
  <2> QED
    BY <1>1, <2>1, MovedHolds, Zenon
<1>3. CASE on[p] # None
  <2>1. at' = [at EXCEPT ![p] = "ensure"] /\ job' = [job EXCEPT ![p] = "pass"]
    BY <1>3, Zenon DEF Ready, At, Do
  <2>2. Moved(p) /\ at'[p] = "ensure" /\ on'[p] \in Devs /\ todo'[p] = todo[p]
    BY <1>1, <1>3, <2>1, Zenon DEF Types, Moved, Frame, Places, Jobs
  <2> QED
    BY <1>1, <2>2, MovedHolds, Zenon
<1> QED
  BY <1>2, <1>3, Zenon

LEMMA CloseHolds ==
    ASSUME IInv, NEW p \in Procs, Close(p)
    PROVE  IInv'
<1>1. /\ Types /\ at[p] = "idle"
      /\ UNCHANGED <<gw, primary, scoped, file, lapsed, intruded, lock, on, written, refused, want,
                     held>>
  BY Zenon DEF IInv, Close, host, disk
<1>2. \/ at' = [at EXCEPT ![p] = "exit"] /\ UNCHANGED <<job, todo>>
      \/ /\ at' = [at EXCEPT ![p] = "remove"] /\ job' = [job EXCEPT ![p] = "close"]
         /\ todo' = [todo EXCEPT ![p] = written[p]]
  BY Zenon DEF Close, At, Do
<1>3. CASE at' = [at EXCEPT ![p] = "exit"] /\ UNCHANGED <<job, todo>>
  <2>1. Moved(p) /\ at'[p] = "exit" /\ todo'[p] = todo[p]
    BY <1>1, <1>3, Zenon DEF Types, Moved, Frame, Places
  <2> QED
    BY <1>1, <2>1, MovedHolds, Zenon
<1>4. CASE /\ at' = [at EXCEPT ![p] = "remove"] /\ job' = [job EXCEPT ![p] = "close"]
           /\ todo' = [todo EXCEPT ![p] = written[p]]
  <2>1. Moved(p) /\ at'[p] = "remove" /\ job'[p] = "close" /\ todo'[p] = written[p]
    BY <1>1, <1>4, Zenon DEF Types, Moved, Frame, Places, Jobs
  <2> QED
    BY <1>1, <2>1, MovedHolds, Zenon
<1> QED
  BY <1>2, <1>3, <1>4, Zenon

\* Binding the socket and the captures touch no route of this kind.
LEMMA AsideHolds ==
    ASSUME IInv,
           UNCHANGED <<gw, primary, scoped, file, lapsed, intruded, lock, at, job, on, written,
                       refused, todo, want, held>>
    PROVE  IInv'
<1>1. \A p \in Procs : (Wanting(p)' <=> Wanting(p)) /\ (Equipped(p)' <=> Equipped(p))
  BY Zenon DEF Wanting, Equipped
<1>2. Types'
  BY <1>1, Zenon DEF IInv, Types
<1>3. \A s : Standing(s)' <=> Standing(s)
  BY Zenon DEF Standing
<1>4. ASSUME ~intruded, NEW p \in Procs PROVE Answers(p)'
  <2>1. Answers(p) /\ (Standing(want[p])' <=> Standing(want[p]))
    BY <1>4, Zenon DEF IInv, Kept, Standing
  <2> QED
    BY <1>1, <1>3, <2>1, Zenon DEF Answers, Within
<1>5. ~intruded => Within(file \cup lapsed)'
  BY <1>3, Zenon DEF IInv, Kept, Within
<1> QED
  BY <1>2, <1>4, <1>5, Zenon DEF IInv, Kept

\* Wherever a daemon is killed, the file has the record of what it leaves.
LEMMA ClearHolds ==
    ASSUME IInv, NEW p \in Procs, at[p] # "off", Clear(p), UNCHANGED <<host, scoped, disk>>
    PROVE  IInv'
<1> USE UnderlayAssumption
<1>1. /\ Types /\ UNCHANGED <<gw, primary, scoped, file, lapsed, intruded>>
      /\ lock' = (IF lock = p THEN None ELSE lock)
      /\ on' = [on EXCEPT ![p] = None] /\ want' = [want EXCEPT ![p] = None]
      /\ held' = [held EXCEPT ![p] = None]
      /\ written' = [written EXCEPT ![p] = {}] /\ refused' = [refused EXCEPT ![p] = {}]
      /\ todo' = [todo EXCEPT ![p] = {}]
      /\ job' = [job EXCEPT ![p] = "none"] /\ at' = [at EXCEPT ![p] = "off"]
  BY Zenon DEF IInv, Clear, host, disk, Do, At
<1>2. /\ at' \in [Procs -> Places] /\ job' \in [Procs -> Jobs]
      /\ on' \in [Procs -> Devs \cup {None}] /\ want' \in [Procs -> Records \cup {None}]
      /\ held' \in [Procs -> Records \cup {None}]
      /\ written' \in [Procs -> SUBSET Records] /\ refused' \in [Procs -> SUBSET Records]
      /\ todo' \in [Procs -> SUBSET Records]
  BY <1>1, Zenon DEF Types, Places, Jobs
<1>3. /\ at'[p] = "off" /\ written'[p] = {} /\ refused'[p] = {} /\ todo'[p] = {} /\ lock' # p
      /\ lock' \in Procs \cup {None}
  BY <1>1, Zenon DEF Types
<1>4. Frame(p)
  BY <1>1, Zenon DEF Types, Frame
<1>5. Moved(p) /\ Shared /\ Equipped(p)'
  BY <1>1, <1>2, <1>3, <1>4, Zenon DEF Types, Moved, Shared, Equipped, Wanting
<1>6. Types'
  BY <1>1, <1>5, TypesMoved, Zenon
<1>7. ASSUME ~intruded' PROVE Kept'
  <2>1. Kept
    BY <1>1, <1>7, Zenon DEF IInv
  <2>2. Within(file \cup lapsed)'
    BY <1>1, <2>1, Zenon DEF Kept, Within, Standing
  <2>3. Answers(p)'
    BY <1>3, Zenon DEF Answers, Tending
  <2>4. lock' = lock \/ (lock = p /\ lock' = None)
    BY <1>1, Zenon
  <2> QED
    BY <1>1, <1>4, <2>1, <2>2, <2>3, <2>4, KeptBy, Zenon
<1> QED
  BY <1>6, <1>7, Zenon DEF IInv

LEMMA NextHolds ==
    ASSUME IInv, [Next]_vars
    PROVE  IInv'
<1>1. CASE LinkChange
  BY <1>1, LinkChangeHolds, Zenon
<1>2. CASE UNCHANGED vars
  BY <1>2, AsideHolds, Zenon DEF vars, host, self, disk
<1>3. ASSUME NEW p \in Procs,
             Start(p) \/ Reclaim(p) \/ ReclaimOne(p) \/ Keep(p) \/ Open(p) \/ Ensure(p)
      PROVE  IInv'
  BY <1>3, StartHolds, ReclaimHolds, ReclaimOneHolds, KeepHolds, OpenHolds, EnsureHolds, Zenon
<1>4. ASSUME NEW p \in Procs,
             RemoveOne(p) \/ Delete(p) \/ Forget(p) \/ Removed(p) \/ Write(p) \/ Drop(p)
      PROVE  IInv'
  BY <1>4, RemoveOneHolds, DeleteHolds, ForgetHolds, RemovedHolds, WriteHolds, DropHolds, Zenon
<1>5. ASSUME NEW p \in Procs, Socket(p) \/ Prepare(p) \/ Settle(p) \/ Ready(p) \/ Close(p)
      PROVE  IInv'
  BY <1>5, SocketHolds, PrepareHolds, SettleHolds, ReadyHolds, CloseHolds, Zenon
<1>6. ASSUME NEW p \in Procs, Bind(p) \/ Apply(p) \/ Uncapture(p) PROVE IInv'
  BY <1>6, AsideHolds, Zenon DEF Bind, Apply, Uncapture, host, self, disk
<1>7. ASSUME NEW p \in Procs, Exit(p) \/ Kill(p) PROVE IInv'
  <2>1. at[p] # "off" /\ Clear(p) /\ UNCHANGED <<host, scoped, disk>>
    BY <1>7, Zenon DEF Exit, Kill
  <2> QED
    BY <2>1, ClearHolds, Zenon
<1> QED
  BY <1>1, <1>2, <1>3, <1>4, <1>5, <1>6, <1>7, Zenon DEF Next

-----------------------------------------------------------------------------

\* Until a daemon that does not hold the lock saves a record, every route a
\* daemon put in the kernel is in underlay.json at every instant, whichever call
\* it is killed after, unless saving that record or loading the file failed:
\* ensure writes the record before the route, removeOne takes it out after, and
\* reclaim keeps what it could not delete (ensure, removeOne, reclaim, persist).
THEOREM RecordedTheorem == Spec => []Recorded
<1>1. IInv => Recorded
  <2> SUFFICES ASSUME IInv, ~intruded, NEW d \in Devs, scoped[d] # None, scoped[d].by = "us"
               PROVE  [dev |-> d, gw |-> scoped[d].gw] \in file \cup lapsed
    BY Zenon DEF Recorded
  <2>1. [dev |-> d, gw |-> scoped[d].gw] \in Records
    BY Zenon DEF IInv, Types, Routes, Records
  <2> QED
    BY <2>1, Zenon DEF IInv, Kept, Within, Standing
<1> QED
  BY <1>1, InitHolds, NextHolds, PTL DEF Spec

\* Until then, a daemon that holds the lock and is past its reclaim answers for
\* every such route: it has it among what it wrote or among what it could not
\* delete, so that the only ones no later call takes away are those whose record
\* a failed save or load lost (reclaim, remove, persist).
THEOREM AccountedTheorem == Spec => []Accounted
<1>1. IInv => Accounted
  <2> SUFFICES ASSUME IInv, ~intruded, NEW d \in Devs, NEW p \in Procs, scoped[d] # None,
                      scoped[d].by = "us", lock = p, at[p] \notin {"reclaim", "withdraw"}
               PROVE  [dev |-> d, gw |-> scoped[d].gw] \in written[p] \cup refused[p] \cup lapsed
    BY Zenon DEF Accounted
  <2>1. [dev |-> d, gw |-> scoped[d].gw] \in Records
    BY Zenon DEF IInv, Types, Routes, Records
  <2> QED
    BY <2>1, Zenon DEF IInv, Kept, Answers, Within, Standing
<1> QED
  BY <1>1, InitHolds, NextHolds, PTL DEF Spec

-----------------------------------------------------------------------------
(* No delete takes a route the system wrote, but where an interface went   *)
(* down under ours.                                                        *)

\* Of what the daemon has on record as written, and of what it is about to
\* delete, only the route ensure is about to write or has failed to write may be
\* missing, and what went down with its interface.
InKernel(p) ==
    /\ \A r \in written[p] :
           r.dev \in flapped \/ Standing(r) \/ (r = want[p] /\ at[p] \in {"write", "drop"})
    /\ at[p] \in {"remove", "delete", "forget"} => todo[p] \subseteq written[p]
    /\ at[p] = "delete" => held[p] \in written[p] \ todo[p]
    /\ at[p] = "withdraw" => \A r \in todo[p] : r.dev \in flapped \/ Standing(r)

\* An interface that is down has no scoped default, and the system has none on
\* the primary interface.
Placed ==
    \A d \in Devs : scoped[d] # None => d \in up /\ (scoped[d].by = "system" => primary # d)

Owned == stolen \subseteq flapped /\ \A p \in Procs : InKernel(p)

IOwn == Placed /\ (~intruded => Owned)

LEMMA InitOwned == Init => IOwn
<1> SUFFICES ASSUME Init PROVE IOwn
  OBVIOUS
<1>1. ASSUME NEW d \in Devs, scoped[d] # None PROVE d \in up /\ primary # d
  BY <1>1, Zenon DEF Init
<1>2. ASSUME NEW p \in Procs PROVE InKernel(p)
  BY Zenon DEF Init, InKernel
<1> QED
  BY <1>1, <1>2, Zenon DEF Init, IOwn, Placed, Owned

LEMMA FramedByReturn ==
    ASSUME Types, NEW p \in Procs, NEW err, NEW answer,
           written' \in [Procs -> SUBSET Records], Return(p, err, answer),
           \A q \in Procs \ {p} : written'[q] = written[q],
           UNCHANGED <<on, refused, want, held>>
    PROVE  Frame(p) /\ todo'[p] \subseteq written'[p]
           /\ at'[p] \in {"remove", "socket", "exit", "idle"}
<1>1. /\ \A q \in Procs \ {p} : at'[q] = at[q] /\ job'[q] = job[q] /\ todo'[q] = todo[q]
      /\ todo'[p] \subseteq written'[p]
      /\ at'[p] \in {"remove", "socket", "exit", "idle"}
  BY Returned, Zenon
<1> QED
  BY <1>1, Zenon DEF Frame

\* What the others hold stays as it is while a daemon without the lock has
\* nothing to delete.
LEMMA OwnedBy ==
    ASSUME Kept, Owned, NEW p \in Procs, Frame(p), lock = p \/ UNCHANGED scoped,
           UNCHANGED flapped, stolen' \subseteq flapped, InKernel(p)'
    PROVE  Owned'
<1> SUFFICES ASSUME NEW q \in Procs, q # p PROVE InKernel(q)'
  BY Zenon DEF Owned
<1>1. /\ at'[q] = at[q] /\ want'[q] = want[q] /\ held'[q] = held[q]
      /\ written'[q] = written[q] /\ todo'[q] = todo[q] /\ Answers(q) /\ InKernel(q)
  BY Zenon DEF Frame, Kept, Owned
<1>2. CASE lock = q
  <2>1. \A r : Standing(r)' <=> Standing(r)
    BY <1>2, Zenon DEF Standing
  <2> QED
    BY <1>1, <2>1, Zenon DEF InKernel
<1>3. CASE lock # q
  <2>1. at[q] \notin Tending /\ written[q] = {} /\ todo[q] = {}
    BY <1>1, <1>3, Zenon DEF Answers
  <2> QED
    BY <1>1, <2>1, Zenon DEF InKernel, Tending
<1> QED
  BY <1>2, <1>3, Zenon

\* Routes and records are as they were.
LEMMA QuietOwned ==
    ASSUME IInv, IOwn, NEW p \in Procs, Frame(p),
           UNCHANGED <<up, primary, scoped, flapped, stolen>>, ~intruded' => ~intruded,
           written'[p] = written[p], at[p] \notin {"write", "drop"},
           at'[p] \notin {"delete", "withdraw"},
           at'[p] \in {"remove", "forget"} => todo'[p] \subseteq written[p]
    PROVE  IOwn'
<1>1. Placed'
  BY Zenon DEF IOwn, Placed
<1>2. ASSUME ~intruded' PROVE Owned'
  <2>1. Kept /\ Owned /\ InKernel(p)
    BY <1>2, Zenon DEF IInv, IOwn, Owned
  <2>2. \A r : Standing(r)' <=> Standing(r)
    BY Zenon DEF Standing
  <2>3. InKernel(p)'
    BY <2>1, <2>2, Zenon DEF InKernel
  <2>4. stolen' \subseteq flapped
    BY <2>1, Zenon DEF Owned
  <2> QED
    BY <2>1, <2>3, <2>4, OwnedBy, Zenon
<1> QED
  BY <1>1, <1>2, Zenon DEF IOwn

\* A route of ours stays while its interface does.
LEMMA LinkChangeOwned ==
    ASSUME IInv, IOwn, LinkChange
    PROVE  IOwn'
<1> USE UnderlayAssumption
<1>1. PICK u \in SUBSET Devs, g \in [Devs -> Gws], q \in Devs \cup {None} :
           /\ up' = u /\ gw' = g /\ primary' = q
           /\ scoped' = [d \in Devs |-> Reaction(u, g, d, q)]
  BY ZenonT(30) DEF LinkChange
<1>2. /\ UNCHANGED <<intruded, stolen, at, written, todo, want, held>>
      /\ flapped' = flapped \cup {d \in up \ up' : scoped[d] # None /\ scoped[d].by = "us"}
  BY Zenon DEF LinkChange, disk
<1>3. ASSUME NEW d \in Devs
      PROVE  scoped'[d] = IF d \in u /\ scoped[d] # None /\ scoped[d].by = "us" THEN scoped[d]
                          ELSE IF d \in u \ {q} THEN [gw |-> g[d], by |-> "system"] ELSE None
  BY <1>1, Zenon DEF Reaction
<1>4. ASSUME NEW d \in Devs, scoped'[d] # None
      PROVE  d \in up' /\ (scoped'[d].by = "system" => primary' # d)
  <2>1. CASE d \in u /\ scoped[d] # None /\ scoped[d].by = "us"
    <3>1. scoped'[d] = scoped[d]
      BY <1>3, <2>1, Zenon
    <3>2. scoped'[d].by = "us" /\ "us" # "system"
      BY <2>1, <3>1
    <3> QED
      BY <1>1, <2>1, <3>2, Zenon
  <2>2. CASE ~(d \in u /\ scoped[d] # None /\ scoped[d].by = "us")
    BY <1>1, <1>3, <1>4, <2>2, Zenon
  <2> QED
    BY <2>1, <2>2, Zenon
<1>5. \A r \in Records : Standing(r) => Standing(r)' \/ r.dev \in flapped'
  <2> SUFFICES ASSUME NEW r \in Records, Standing(r), r.dev \notin flapped' PROVE Standing(r)'
    OBVIOUS
  <2>1. r.dev \in Devs
    BY DEF Records
  <2>2. scoped[r.dev] # None /\ scoped[r.dev].by = "us" /\ scoped[r.dev].gw = r.gw
    BY Zenon DEF Standing
  <2>3. r.dev \in u
    BY <1>1, <1>2, <2>1, <2>2, Zenon DEF IOwn, Placed
  <2>4. scoped'[r.dev] = scoped[r.dev]
    BY <1>3, <2>1, <2>2, <2>3, Zenon
  <2> QED
    BY <2>2, <2>4, Zenon DEF Standing
<1>6. ASSUME ~intruded, NEW p \in Procs PROVE InKernel(p)'
  <2>1. InKernel(p) /\ written[p] \subseteq Records /\ todo[p] \subseteq Records
    BY <1>6, Zenon DEF IInv, Types, IOwn, Owned
  <2>2. ASSUME NEW r \in Records, r.dev \in flapped \/ Standing(r)
        PROVE  r.dev \in flapped' \/ Standing(r)'
    BY <1>2, <1>5, <2>2, Zenon
  <2> QED
    BY <1>2, <2>1, <2>2, Zenon DEF InKernel
<1>7. ~intruded => stolen' \subseteq flapped'
  BY <1>2, Zenon DEF IOwn, Owned
<1>8. Placed'
  BY <1>4, Zenon DEF Placed
<1> QED
  BY <1>2, <1>6, <1>7, <1>8, Zenon DEF IOwn, Owned

\* A route of ours is deleted, and no other record was of it.
LEMMA WithdrawOwned ==
    ASSUME Types, Placed, NEW p \in Procs, NEW r \in Records, Withdraw(p, r),
           UNCHANGED <<up, primary>>, stolen \subseteq flapped, r.dev \in flapped \/ Standing(r)
    PROVE  /\ Placed' /\ stolen' \subseteq flapped
           /\ \A s \in Records \ {r} :
                  s.dev \in flapped \/ Standing(s) => s.dev \in flapped \/ Standing(s)'
<1>1. /\ scoped' = [scoped EXCEPT ![r.dev] = None] /\ scoped \in [Devs -> Routes \cup {None}]
      /\ stolen' = stolen \cup {d \in {r.dev} : scoped[d] # None /\ scoped[d].by = "system"}
  BY Zenon DEF Withdraw, Types
<1>2. \A d \in Devs : scoped'[d] = IF d = r.dev THEN None ELSE scoped[d]
  BY <1>1, Zenon
<1>3. Placed'
  BY <1>2, Zenon DEF Placed
<1>4. stolen' \subseteq flapped
  <2>1. Standing(r) => scoped[r.dev].by # "system"
    BY DEF Standing
  <2> QED
    BY <1>1, <2>1, Zenon
<1>5. ASSUME NEW s \in Records, s # r, Standing(s), s.dev \notin flapped PROVE s.dev # r.dev
  <2> SUFFICES ASSUME s.dev = r.dev PROVE FALSE
    OBVIOUS
  <2>1. scoped[s.dev].gw = s.gw /\ scoped[s.dev].gw = r.gw
    BY <1>5, Zenon DEF Standing
  <2>2. s = [dev |-> s.dev, gw |-> s.gw] /\ r = [dev |-> r.dev, gw |-> r.gw]
    BY Zenon DEF Records
  <2> QED
    BY <1>5, <2>1, <2>2, Zenon
<1>6. \A s \in Records : Standing(s) /\ s.dev # r.dev => Standing(s)'
  BY Withdrawn, Zenon
<1> QED
  BY <1>3, <1>4, <1>5, <1>6, Zenon

\* The reading finds on the primary interface only what is ours, since the
\* system has nothing there.
LEMMA ReclaimOwned ==
    ASSUME IInv, IOwn, NEW p \in Procs, Reclaim(p)
    PROVE  IOwn'
<1>1. /\ Types /\ at[p] = "reclaim" /\ at' = [at EXCEPT ![p] = "withdraw"]
      /\ UNCHANGED <<up, primary, scoped, intruded, flapped, stolen, job, on, written, want, held>>
  BY Zenon DEF IInv, Reclaim, host, disk, At, ghost
<1>2. /\ \A q \in Procs \ {p} : todo'[q] = todo[q] /\ refused'[q] = refused[q]
      /\ \A r \in todo'[p] : r \in Records /\ HeldByKernel(r) /\ Reclaimable(r)
  <2>1. CASE /\ todo' = [todo EXCEPT ![p] = {}]
             /\ refused' = [refused EXCEPT ![p] = todo[p]]
    BY <1>1, <2>1, Zenon DEF Types
  <2>2. CASE /\ todo' = [todo EXCEPT ![p] = {r \in todo[p] : HeldByKernel(r) /\ Reclaimable(r)}]
             /\ refused' = [refused EXCEPT
                               ![p] = {r \in todo[p] : HeldByKernel(r) /\ ~Reclaimable(r)}]
    BY <1>1, <2>2, Zenon DEF Types
  <2> QED
    BY <1>1, <2>1, <2>2, Zenon DEF Reclaim, Types
<1>3. Frame(p) /\ at'[p] = "withdraw"
  BY <1>1, <1>2, Zenon DEF Types, Frame
<1>4. Placed'
  BY <1>1, Zenon DEF IOwn, Placed
<1>5. ASSUME NEW r \in todo'[p] PROVE Standing(r)'
  <2>1. r.dev \in Devs /\ HeldByKernel(r) /\ primary = r.dev
    <3>1. r \in Records /\ HeldByKernel(r) /\ primary = r.dev
      BY <1>2, Zenon DEF Reclaimable
    <3> QED
      BY <3>1 DEF Records
  <2>2. scoped[r.dev] # None /\ scoped[r.dev].gw = r.gw /\ scoped[r.dev].by # "system"
    BY <2>1, Zenon DEF HeldByKernel, IOwn, Placed
  <2>3. scoped[r.dev].by = "us"
    BY <1>1, <2>1, <2>2 DEF Types, Routes
  <2> QED
    BY <1>1, <2>2, <2>3, Zenon DEF Standing
<1>6. ASSUME ~intruded' PROVE Owned'
  <2>1. Kept /\ Owned /\ written'[p] = {} /\ stolen' \subseteq flapped
    BY <1>1, <1>6, Zenon DEF IInv, IOwn, Kept, Answers, Owned
  <2>2. InKernel(p)'
    BY <1>3, <1>5, <2>1, Zenon DEF InKernel
  <2> QED
    BY <1>1, <1>3, <2>1, <2>2, OwnedBy, Zenon
<1> QED
  BY <1>4, <1>6, Zenon DEF IOwn

LEMMA ReclaimOneOwned ==
    ASSUME IInv, IOwn, NEW p \in Procs, ReclaimOne(p)
    PROVE  IOwn'
<1>1. /\ Types /\ Placed /\ at[p] = "withdraw"
      /\ UNCHANGED <<up, primary, intruded, flapped, at, job, on, written, want, held>>
  BY Zenon DEF IInv, IOwn, ReclaimOne, host, disk
<1>2. PICK r \in todo[p] :
         /\ todo' = [todo EXCEPT ![p] = todo[p] \ {r}]
         /\ \/ Withdraw(p, r) /\ UNCHANGED refused
            \/ /\ refused' = [refused EXCEPT ![p] = refused[p] \cup {r}]
               /\ UNCHANGED <<scoped, stolen>>
  BY <1>1, Zenon DEF ReclaimOne, Types
<1>3. /\ r \in Records /\ todo[p] \subseteq Records /\ todo'[p] = todo[p] \ {r} /\ Frame(p)
  <2>1. \A q \in Procs \ {p} : refused'[q] = refused[q] /\ todo'[q] = todo[q]
    BY <1>1, <1>2, Zenon DEF Types
  <2> QED
    BY <1>1, <1>2, <2>1, Zenon DEF Types, Frame
<1>4. ASSUME ~intruded
      PROVE  /\ Kept /\ Owned /\ lock = p /\ written[p] = {} /\ stolen \subseteq flapped
             /\ \A s \in todo[p] : s.dev \in flapped \/ Standing(s)
  BY <1>1, <1>4, Zenon DEF IInv, IOwn, Kept, Answers, Owned, InKernel, Tending
<1>5. Placed'
  <2>1. CASE Withdraw(p, r)
    <3>1. scoped' = [scoped EXCEPT ![r.dev] = None] /\ scoped \in [Devs -> Routes \cup {None}]
      BY <1>1, <2>1, Zenon DEF Withdraw, Types
    <3>2. \A d \in Devs : scoped'[d] = IF d = r.dev THEN None ELSE scoped[d]
      BY <3>1, Zenon
    <3> QED
      BY <1>1, <3>2, Zenon DEF Placed
  <2>2. CASE UNCHANGED <<scoped, stolen>>
    BY <1>1, <2>2, Zenon DEF Placed
  <2> QED
    BY <1>2, <2>1, <2>2, Zenon
<1>6. ASSUME ~intruded' PROVE Owned'
  <2>1. /\ Kept /\ Owned /\ lock = p /\ written[p] = {} /\ stolen \subseteq flapped
        /\ \A s \in todo[p] : s.dev \in flapped \/ Standing(s)
    BY <1>1, <1>4, <1>6, Zenon
  <2>2. /\ stolen' \subseteq flapped
        /\ \A s \in todo'[p] : s.dev \in flapped \/ Standing(s)'
    <3>1. CASE Withdraw(p, r)
      BY <1>1, <1>2, <1>3, <2>1, <3>1, WithdrawOwned, Zenon
    <3>2. CASE UNCHANGED <<scoped, stolen>>
      BY <1>3, <2>1, <3>2, Zenon DEF Standing
    <3> QED
      BY <1>2, <3>1, <3>2, Zenon
  <2>3. InKernel(p)'
    BY <1>1, <2>1, <2>2, Zenon DEF InKernel
  <2> QED
    BY <1>1, <1>3, <2>1, <2>2, <2>3, OwnedBy, Zenon
<1> QED
  BY <1>5, <1>6, Zenon DEF IOwn

LEMMA RemoveOneOwned ==
    ASSUME IInv, IOwn, NEW p \in Procs, RemoveOne(p)
    PROVE  IOwn'
<1>1. /\ Types /\ at[p] = "remove"
      /\ UNCHANGED <<up, primary, scoped, intruded, flapped, stolen, job, on, refused, want>>
  BY Zenon DEF IInv, RemoveOne, host, disk, ghost
<1>2. PICK r \in todo[p] :
         /\ todo' = [todo EXCEPT ![p] = todo[p] \ {r}]
         /\ \/ held' = [held EXCEPT ![p] = r] /\ at' = [at EXCEPT ![p] = "delete"]
               /\ UNCHANGED written
            \/ /\ written' = [written EXCEPT ![p] = written[p] \ {r}]
               /\ at' = [at EXCEPT ![p] = "forget"] /\ UNCHANGED held
            \/ UNCHANGED <<held, written, at>>
  BY <1>1, Zenon DEF RemoveOne, Types, At
<1>3. /\ \A q \in Procs \ {p} : at'[q] = at[q] /\ held'[q] = held[q] /\ written'[q] = written[q]
      /\ \/ at'[p] = "delete" /\ held'[p] = r /\ written'[p] = written[p]
         \/ at'[p] = "forget" /\ written'[p] = written[p] \ {r}
         \/ at'[p] = "remove" /\ written'[p] = written[p]
  <2>1. CASE held' = [held EXCEPT ![p] = r] /\ at' = [at EXCEPT ![p] = "delete"] /\ UNCHANGED written
    BY <1>1, <2>1, Zenon DEF Types
  <2>2. CASE /\ written' = [written EXCEPT ![p] = written[p] \ {r}]
             /\ at' = [at EXCEPT ![p] = "forget"] /\ UNCHANGED held
    BY <1>1, <2>2, Zenon DEF Types
  <2>3. CASE UNCHANGED <<held, written, at>>
    BY <1>1, <2>3, Zenon DEF Types
  <2> QED
    BY <1>2, <2>1, <2>2, <2>3, Zenon
<1>4. todo'[p] = todo[p] \ {r} /\ Frame(p)
  BY <1>1, <1>2, <1>3, Zenon DEF Types, Frame
<1>5. Placed'
  BY <1>1, Zenon DEF IOwn, Placed
<1>6. ASSUME ~intruded' PROVE Owned'
  <2>1. Kept /\ Owned /\ InKernel(p) /\ stolen' \subseteq flapped
    BY <1>1, <1>6, Zenon DEF IInv, IOwn, Owned
  <2>2. \A s \in written'[p] : s.dev \in flapped \/ Standing(s)'
    BY <1>1, <1>3, <2>1, Zenon DEF InKernel, Standing
  <2>3. todo'[p] \subseteq written'[p] /\ (at'[p] = "delete" => held'[p] \in written'[p] \ todo'[p])
    BY <1>1, <1>2, <1>3, <1>4, <2>1, Zenon DEF InKernel
  <2>4. InKernel(p)'
    BY <1>1, <1>3, <2>2, <2>3, Zenon DEF InKernel
  <2> QED
    BY <1>1, <1>4, <2>1, <2>4, OwnedBy, Zenon
<1> QED
  BY <1>5, <1>6, Zenon DEF IOwn

\* removeOne deletes what is on record, and that is ours.
LEMMA DeleteOwned ==
    ASSUME IInv, IOwn, NEW p \in Procs, Delete(p)
    PROVE  IOwn'
<1>1. /\ Types /\ Placed /\ at[p] = "delete" /\ held[p] \in Records
      /\ held' = [held EXCEPT ![p] = None]
      /\ UNCHANGED <<up, primary, intruded, flapped, job, on, refused, todo, want>>
  BY Zenon DEF IInv, IOwn, Types, Equipped, Delete, host, disk
<1>2. \/ /\ Withdraw(p, held[p])
         /\ written' = [written EXCEPT ![p] = written[p] \ {held[p]}]
         /\ at' = [at EXCEPT ![p] = "forget"]
      \/ at' = [at EXCEPT ![p] = "remove"] /\ UNCHANGED <<scoped, stolen, written>>
  BY <1>1, Zenon DEF Delete, Types, At
<1>3. /\ \A q \in Procs \ {p} : at'[q] = at[q] /\ written'[q] = written[q]
      /\ \/ /\ Withdraw(p, held[p])
            /\ at'[p] = "forget" /\ written'[p] = written[p] \ {held[p]}
         \/ at'[p] = "remove" /\ written'[p] = written[p] /\ UNCHANGED <<scoped, stolen>>
  <2>1. CASE /\ Withdraw(p, held[p])
             /\ written' = [written EXCEPT ![p] = written[p] \ {held[p]}]
             /\ at' = [at EXCEPT ![p] = "forget"]
    BY <1>1, <2>1, Zenon DEF Types
  <2>2. CASE at' = [at EXCEPT ![p] = "remove"] /\ UNCHANGED <<scoped, stolen, written>>
    BY <1>1, <2>2, Zenon DEF Types
  <2> QED
    BY <1>2, <2>1, <2>2, Zenon
<1>4. todo'[p] = todo[p] /\ Frame(p)
  BY <1>1, <1>3, Zenon DEF Types, Frame
<1>5. Placed'
  <2>1. CASE Withdraw(p, held[p])
    <3>1. scoped' = [scoped EXCEPT ![held[p].dev] = None] /\ scoped \in [Devs -> Routes \cup {None}]
      BY <1>1, <2>1, Zenon DEF Withdraw, Types
    <3>2. \A d \in Devs : scoped'[d] = IF d = held[p].dev THEN None ELSE scoped[d]
      BY <3>1, Zenon
    <3> QED
      BY <1>1, <3>2, Zenon DEF Placed
  <2>2. CASE UNCHANGED <<scoped, stolen>>
    BY <1>1, <2>2, Zenon DEF Placed
  <2> QED
    BY <1>3, <2>1, <2>2, Zenon
<1>6. ASSUME ~intruded' PROVE Owned'
  <2>1. /\ Kept /\ Owned /\ lock = p /\ stolen \subseteq flapped
        /\ todo[p] \subseteq written[p] /\ held[p] \in written[p] \ todo[p]
        /\ \A s \in written[p] : s \in Records /\ (s.dev \in flapped \/ Standing(s))
    BY <1>1, <1>6, Zenon DEF IInv, IOwn, Types, Kept, Answers, Owned, InKernel, Tending
  <2>2. CASE /\ Withdraw(p, held[p])
             /\ at'[p] = "forget" /\ written'[p] = written[p] \ {held[p]}
    <3>1. /\ stolen' \subseteq flapped
          /\ \A s \in Records \ {held[p]} :
                 s.dev \in flapped \/ Standing(s) => s.dev \in flapped \/ Standing(s)'
      BY <1>1, <2>1, <2>2, WithdrawOwned, Zenon
    <3>2. \A s \in written'[p] : s.dev \in flapped \/ Standing(s)'
      BY <2>1, <2>2, <3>1, Zenon
    <3>3. todo[p] \subseteq written'[p]
      BY <1>1, <2>1, <2>2, Zenon
    <3>4. InKernel(p)'
      BY <1>1, <1>4, <2>2, <3>2, <3>3, Zenon DEF InKernel
    <3> QED
      BY <1>1, <1>4, <2>1, <3>1, <3>4, OwnedBy, Zenon
  <2>3. CASE at'[p] = "remove" /\ written'[p] = written[p] /\ UNCHANGED <<scoped, stolen>>
    <3>1. InKernel(p)'
      BY <1>1, <1>4, <2>1, <2>3, Zenon DEF InKernel, Standing
    <3> QED
      BY <1>1, <1>4, <2>1, <2>3, <3>1, OwnedBy, Zenon
  <2> QED
    BY <1>3, <2>2, <2>3, Zenon
<1> QED
  BY <1>5, <1>6, Zenon DEF IOwn

LEMMA RemovedOwned ==
    ASSUME IInv, IOwn, NEW p \in Procs, Removed(p)
    PROVE  IOwn'
<1>1. /\ Types /\ at[p] = "remove" /\ todo[p] = {}
      /\ UNCHANGED <<up, primary, scoped, flapped, stolen, on, refused, want, held>>
  BY Zenon DEF IInv, Removed, host, ghost
<1>2. CASE job[p] \in {"settle", "close"} \/ failed[p]
  <2>1. UNCHANGED <<written, intruded>> /\ Return(p, failed[p], FALSE)
    BY <1>2, Zenon DEF Removed, disk
  <2>2. /\ Frame(p) /\ todo'[p] \subseteq written[p]
        /\ at'[p] \in {"remove", "socket", "exit", "idle"}
    <3>1. written' \in [Procs -> SUBSET Records]
      BY <1>1, <2>1, Zenon DEF Types
    <3> QED
      BY <1>1, <2>1, <3>1, FramedByReturn, Zenon
  <2> QED
    BY <1>1, <2>1, <2>2, QuietOwned, Zenon
<1>3. CASE ~(job[p] \in {"settle", "close"} \/ failed[p])
  <2>1. /\ written' = [written EXCEPT ![p] = written[p] \cup {want[p]}]
        /\ at' = [at EXCEPT ![p] = "write"] /\ UNCHANGED <<job, todo>>
        /\ ~intruded' => ~intruded /\ lock = p
    BY <1>1, <1>3, Zenon DEF Removed, At, Types, Persist
  <2>2. /\ written'[p] = written[p] \cup {want[p]} /\ at'[p] = "write" /\ Frame(p)
    BY <1>1, <2>1, Zenon DEF Types, Frame
  <2>3. Placed'
    BY <1>1, Zenon DEF IOwn, Placed
  <2>4. ASSUME ~intruded' PROVE Owned'
    <3>1. Kept /\ Owned /\ InKernel(p) /\ stolen' \subseteq flapped /\ lock = p
      BY <1>1, <2>1, <2>4, Zenon DEF IInv, IOwn, Owned
    <3>2. InKernel(p)'
      BY <1>1, <2>2, <3>1, Zenon DEF InKernel, Standing
    <3> QED
      BY <1>1, <2>2, <3>1, <3>2, OwnedBy, Zenon
  <2> QED
    BY <2>3, <2>4, Zenon DEF IOwn
<1> QED
  BY <1>2, <1>3, Zenon

\* The key was free, so no other record is of it.
LEMMA WriteOwned ==
    ASSUME IInv, IOwn, NEW p \in Procs, Write(p)
    PROVE  IOwn'
<1> USE UnderlayAssumption
<1> DEFINE d == want[p].dev
           route == [gw |-> want[p].gw, by |-> "us"]
<1>1. /\ Types /\ at[p] = "write" /\ want[p] \in Records /\ written' = written
      /\ UNCHANGED <<up, primary, intruded, flapped, stolen, on, refused, want, held>>
  BY Zenon DEF IInv, Types, Equipped, Wanting, Write, host, disk, ghost
<1>2. d \in Devs /\ route \in Routes /\ route.by # "system"
  BY <1>1 DEF Records, Routes
<1>3. route.by = "us" /\ route.gw = want[p].gw
  OBVIOUS
<1> HIDE DEF route
<1>4. \/ /\ d \in up /\ scoped[d] = None
         /\ scoped' = [scoped EXCEPT ![d] = route] /\ Return(p, FALSE, TRUE)
      \/ at' = [at EXCEPT ![p] = "drop"] /\ UNCHANGED <<scoped, job, todo>>
  BY Zenon DEF Write, At, route
<1>5. ASSUME ~intruded'
      PROVE  /\ Kept /\ Owned /\ InKernel(p) /\ stolen' \subseteq flapped /\ lock = p
             /\ written[p] \subseteq Records
  BY <1>1, <1>5, Zenon DEF IInv, Types, IOwn, Owned, Kept, Answers, Tending
<1>6. CASE /\ d \in up /\ scoped[d] = None
           /\ scoped' = [scoped EXCEPT ![d] = route] /\ Return(p, FALSE, TRUE)
  <2>1. /\ Frame(p) /\ todo'[p] \subseteq written'[p]
        /\ at'[p] \in {"remove", "socket", "exit", "idle"}
    <3>1. written' \in [Procs -> SUBSET Records]
      BY <1>1, Zenon DEF Types
    <3> QED
      BY <1>1, <1>6, <3>1, FramedByReturn, Zenon
  <2>2. \A e \in Devs : scoped'[e] = IF e = d THEN route ELSE scoped[e]
    BY <1>1, <1>2, <1>6, Zenon DEF Types
  <2>3. Placed'
    BY <1>1, <1>2, <1>6, <2>2, Zenon DEF IOwn, Placed
  <2>4. \A s \in Records : Standing(s) \/ s = want[p] => Standing(s)'
    <3>1. route # None
      BY <1>2, Zenon
    <3>2. \A s \in Records : s.dev \in Devs
      BY DEF Records
    <3>3. ASSUME NEW s \in Records, Standing(s) PROVE Standing(s)'
      BY <1>6, <2>2, <3>2, <3>3, Zenon DEF Standing
    <3>4. Standing(want[p])'
      BY <1>1, <1>2, <1>3, <2>2, <3>1, Zenon DEF Standing
    <3> QED
      BY <1>1, <3>3, <3>4, Zenon DEF Standing
  <2>5. ASSUME ~intruded' PROVE Owned'
    <3>1. InKernel(p)'
      BY <1>1, <1>5, <2>1, <2>4, <2>5, Zenon DEF InKernel
    <3> QED
      BY <1>1, <1>5, <2>1, <2>5, <3>1, OwnedBy, Zenon
  <2> QED
    BY <2>3, <2>5, Zenon DEF IOwn
<1>7. CASE at' = [at EXCEPT ![p] = "drop"] /\ UNCHANGED <<scoped, job, todo>>
  <2>1. at'[p] = "drop" /\ Frame(p)
    BY <1>1, <1>7, Zenon DEF Types, Frame
  <2>2. Placed'
    BY <1>1, <1>7, Zenon DEF IOwn, Placed
  <2>3. ASSUME ~intruded' PROVE Owned'
    <3>1. InKernel(p)'
      BY <1>1, <1>5, <1>7, <2>1, <2>3, Zenon DEF InKernel, Standing
    <3> QED
      BY <1>1, <1>5, <1>7, <2>1, <2>3, <3>1, OwnedBy, Zenon
  <2> QED
    BY <2>2, <2>3, Zenon DEF IOwn
<1> QED
  BY <1>4, <1>6, <1>7, Zenon

LEMMA DropOwned ==
    ASSUME IInv, IOwn, NEW p \in Procs, Drop(p)
    PROVE  IOwn'
<1>1. /\ Types /\ at[p] = "drop" /\ Return(p, failed[p], covered[p])
      /\ UNCHANGED <<up, primary, scoped, flapped, stolen, on, refused, want, held>>
      /\ ~intruded' => ~intruded
  BY Zenon DEF IInv, Drop, host, ghost, Persist
<1>2. /\ written' \in [Procs -> SUBSET Records] /\ written'[p] = written[p] \ {want[p]}
      /\ \A q \in Procs \ {p} : written'[q] = written[q]
  BY <1>1, Zenon DEF Drop, Types
<1>3. /\ Frame(p) /\ todo'[p] \subseteq written'[p]
      /\ at'[p] \in {"remove", "socket", "exit", "idle"}
  BY <1>1, <1>2, FramedByReturn, Zenon
<1>4. Placed'
  BY <1>1, Zenon DEF IOwn, Placed
<1>5. ASSUME ~intruded' PROVE Owned'
  <2>1. Kept /\ Owned /\ InKernel(p) /\ stolen' \subseteq flapped
    BY <1>1, <1>5, Zenon DEF IInv, IOwn, Owned
  <2>2. InKernel(p)'
    BY <1>1, <1>2, <1>3, <2>1, Zenon DEF InKernel, Standing
  <2> QED
    BY <1>1, <1>3, <2>1, <2>2, OwnedBy, Zenon
<1> QED
  BY <1>4, <1>5, Zenon DEF IOwn

\* The other steps write no route.
LEMMA StartOwned ==
    ASSUME IInv, IOwn, NEW p \in Procs, Start(p) \/ Keep(p) \/ Open(p) \/ Forget(p)
    PROVE  IOwn'
<1>1. /\ Types /\ UNCHANGED <<up, primary, scoped, flapped, stolen, written, refused, want, held>>
      /\ ~intruded' => ~intruded
  <2>1. CASE Start(p)
    BY <2>1, Zenon DEF IInv, Start, host, ghost
  <2>2. CASE Keep(p)
    BY <2>2, Zenon DEF IInv, Keep, host, ghost, Persist
  <2>3. CASE Open(p)
    BY <2>3, Zenon DEF IInv, Open, host, ghost, disk
  <2>4. CASE Forget(p)
    BY <2>4, Zenon DEF IInv, Forget, host, ghost, Persist
  <2> QED
    BY <2>1, <2>2, <2>3, <2>4, Zenon
<1>2. CASE Start(p)
  <2>1. /\ \A q \in Procs \ {p} : at'[q] = at[q] /\ todo'[q] = todo[q]
        /\ at'[p] \in {"new", "reclaim"} /\ at[p] = "off" /\ UNCHANGED <<job, on>>
    <3>1. CASE at' = [at EXCEPT ![p] = "new"] /\ todo' = todo
      BY <1>1, <1>2, <3>1, Zenon DEF Start, Types
    <3>2. CASE /\ todo' = [todo EXCEPT ![p] = IF lock' = p THEN file ELSE {}]
               /\ at' = [at EXCEPT ![p] = IF todo'[p] = {} THEN "new" ELSE "reclaim"]
      BY <1>1, <1>2, <3>2, Zenon DEF Start, Types
    <3> QED
      BY <1>2, <3>1, <3>2, Zenon DEF Start, At
  <2>2. Frame(p)
    BY <1>1, <2>1, Zenon DEF Frame
  <2> QED
    BY <1>1, <2>1, <2>2, QuietOwned, Zenon
<1>3. CASE Keep(p)
  <2>1. Frame(p) /\ at[p] = "withdraw" /\ at'[p] = "new"
    BY <1>1, <1>3, Zenon DEF Keep, At, Types, Frame
  <2> QED
    BY <1>1, <2>1, QuietOwned, Zenon
<1>4. CASE Open(p)
  <2>1. /\ \A q \in Procs \ {p} : at'[q] = at[q] /\ job'[q] = job[q] /\ on'[q] = on[q]
        /\ at[p] = "new" /\ at'[p] \in {"socket", "ensure"} /\ UNCHANGED todo
    <3>1. CASE primary = None
      BY <1>1, <1>4, <3>1, Zenon DEF Open, At, Types
    <3>2. CASE primary # None
      BY <1>1, <1>4, <3>2, Zenon DEF Open, At, Do, Types
    <3> QED
      BY <3>1, <3>2, Zenon
  <2>2. Frame(p)
    BY <1>1, <2>1, Zenon DEF Frame
  <2> QED
    BY <1>1, <2>1, <2>2, QuietOwned, Zenon
<1>5. CASE Forget(p)
  <2>1. Frame(p) /\ at[p] = "forget" /\ at'[p] = "remove" /\ UNCHANGED todo
    BY <1>1, <1>5, Zenon DEF Forget, At, Types, Frame
  <2>2. CASE intruded
    BY <1>1, <2>2, Zenon DEF IOwn, Placed
  <2>3. CASE ~intruded
    <3>1. todo'[p] \subseteq written[p]
      BY <2>1, <2>3, Zenon DEF IOwn, Owned, InKernel
    <3> QED
      BY <1>1, <2>1, <3>1, QuietOwned, Zenon
  <2> QED
    BY <2>2, <2>3, Zenon
<1> QED
  BY <1>2, <1>3, <1>4, <1>5, Zenon

LEMMA EnsureOwned ==
    ASSUME IInv, IOwn, NEW p \in Procs, Ensure(p)
    PROVE  IOwn'
<1>1. /\ Types /\ at[p] = "ensure"
      /\ UNCHANGED <<up, primary, scoped, intruded, flapped, stolen, on, written, refused, held>>
  BY Zenon DEF IInv, Ensure, host, ghost, disk
<1>2. written' \in [Procs -> SUBSET Records]
  BY <1>1, Zenon DEF Types
<1>3. CASE UNCHANGED want /\ (Return(p, FALSE, primary = on[p]) \/ Return(p, TRUE, FALSE))
  <2>1. /\ Frame(p) /\ todo'[p] \subseteq written[p]
        /\ at'[p] \in {"remove", "socket", "exit", "idle"}
    BY <1>1, <1>2, <1>3, FramedByReturn, Zenon
  <2> QED
    BY <1>1, <2>1, QuietOwned, Zenon
<1>4. CASE \E r : /\ want' = [want EXCEPT ![p] = r]
                  /\ todo' = [todo EXCEPT ![p] = SameKey(p, r)]
                  /\ at' = [at EXCEPT ![p] = "remove"] /\ UNCHANGED job
  <2>1. PICK r : /\ want' = [want EXCEPT ![p] = r]
                 /\ todo' = [todo EXCEPT ![p] = SameKey(p, r)]
                 /\ at' = [at EXCEPT ![p] = "remove"] /\ UNCHANGED job
    BY <1>4, Zenon
  <2>2. Frame(p) /\ at'[p] = "remove" /\ todo'[p] = SameKey(p, r)
    BY <1>1, <2>1, Zenon DEF Types, Frame
  <2>3. todo'[p] \subseteq written[p]
    BY <2>2, Zenon DEF SameKey
  <2> QED
    BY <1>1, <2>2, <2>3, QuietOwned, Zenon
<1> QED
  BY <1>3, <1>4, Zenon DEF Ensure, At

LEMMA IdleOwned ==
    ASSUME IInv, IOwn, NEW p \in Procs,
           Socket(p) \/ Prepare(p) \/ Settle(p) \/ Ready(p) \/ Close(p)
    PROVE  IOwn'
<1>1. /\ Types /\ at[p] \in {"socket", "idle"}
      /\ UNCHANGED <<up, primary, scoped, intruded, flapped, stolen, written, refused, want, held>>
  BY Zenon DEF IInv, Socket, Prepare, Settle, Ready, Close, host, ghost, disk
<1>2. /\ \A q \in Procs \ {p} : /\ at'[q] = at[q] /\ job'[q] = job[q] /\ on'[q] = on[q]
                                /\ todo'[q] = todo[q]
      /\ at'[p] \in {"ensure", "remove", "exit", "idle"}
      /\ at'[p] = "remove" => todo'[p] \subseteq written[p]
  <2>1. CASE Socket(p)
    <3>1. CASE port = None
      BY <1>1, <2>1, <3>1, Zenon DEF Socket, At, Types
    <3>2. CASE port # None
      BY <1>1, <2>1, <3>2, Zenon DEF Socket, At, Do, Types
    <3> QED
      BY <3>1, <3>2, Zenon
  <2>2. CASE Prepare(p)
    <3>1. CASE primary = None
      BY <1>1, <2>2, <3>1, Zenon DEF Prepare
    <3>2. CASE primary # None
      BY <1>1, <2>2, <3>2, Zenon DEF Prepare, At, Do, Types
    <3> QED
      BY <3>1, <3>2, Zenon
  <2>3. CASE Settle(p)
    BY <1>1, <2>3, Zenon DEF Settle, At, Do, Types
  <2>4. CASE Ready(p)
    <3>1. CASE on[p] = None
      BY <1>1, <2>4, <3>1, Zenon DEF Ready
    <3>2. CASE on[p] # None
      BY <1>1, <2>4, <3>2, Zenon DEF Ready, At, Do, Types
    <3> QED
      BY <3>1, <3>2, Zenon
  <2>5. CASE Close(p)
    <3>1. CASE at' = [at EXCEPT ![p] = "exit"] /\ UNCHANGED <<job, todo>>
      BY <1>1, <2>5, <3>1, Zenon DEF Close, Types
    <3>2. CASE /\ at' = [at EXCEPT ![p] = "remove"] /\ job' = [job EXCEPT ![p] = "close"]
               /\ todo' = [todo EXCEPT ![p] = written[p]]
      BY <1>1, <2>5, <3>2, Zenon DEF Close, Types
    <3> QED
      BY <2>5, <3>1, <3>2, Zenon DEF Close, At, Do
  <2> QED
    BY <2>1, <2>2, <2>3, <2>4, <2>5, Zenon
<1>3. Frame(p)
  BY <1>1, <1>2, Zenon DEF Frame
<1> QED
  BY <1>1, <1>2, <1>3, QuietOwned, Zenon

LEMMA AsideOwned ==
    ASSUME IOwn,
           UNCHANGED <<up, primary, scoped, intruded, flapped, stolen, at, written, todo, want, held>>
    PROVE  IOwn'
BY Zenon DEF IOwn, Placed, Owned, InKernel, Standing

LEMMA ClearOwned ==
    ASSUME IInv, IOwn, NEW p \in Procs, Clear(p), UNCHANGED <<host, scoped, disk, stolen, ghost>>
    PROVE  IOwn'
<1>1. /\ Types /\ UNCHANGED <<up, primary, scoped, intruded, flapped, stolen>>
      /\ on' = [on EXCEPT ![p] = None] /\ want' = [want EXCEPT ![p] = None]
      /\ held' = [held EXCEPT ![p] = None]
      /\ written' = [written EXCEPT ![p] = {}] /\ refused' = [refused EXCEPT ![p] = {}]
      /\ todo' = [todo EXCEPT ![p] = {}]
      /\ job' = [job EXCEPT ![p] = "none"] /\ at' = [at EXCEPT ![p] = "off"]
  BY Zenon DEF IInv, Clear, host, disk, ghost, Do, At
<1>2. Frame(p) /\ written'[p] = {} /\ at'[p] = "off"
  BY <1>1, Zenon DEF Types, Frame
<1>3. Placed' /\ InKernel(p)'
  BY <1>1, <1>2, Zenon DEF IOwn, Placed, InKernel
<1>4. ASSUME ~intruded' PROVE Owned'
  <2>1. Kept /\ Owned /\ stolen' \subseteq flapped
    BY <1>1, <1>4, Zenon DEF IInv, IOwn, Owned
  <2> QED
    BY <1>1, <1>2, <1>3, <2>1, OwnedBy, Zenon
<1> QED
  BY <1>3, <1>4, Zenon DEF IOwn

LEMMA NextOwned ==
    ASSUME IInv, IOwn, [Next]_vars
    PROVE  IOwn'
<1>1. CASE LinkChange
  BY <1>1, LinkChangeOwned, Zenon
<1>2. CASE UNCHANGED vars
  BY <1>2, AsideOwned, Zenon DEF vars, host, self, disk, ghost
<1>3. ASSUME NEW p \in Procs,
             \/ Start(p) \/ Reclaim(p) \/ ReclaimOne(p) \/ Keep(p) \/ Open(p) \/ Ensure(p)
             \/ Forget(p)
      PROVE  IOwn'
  BY <1>3, StartOwned, ReclaimOwned, ReclaimOneOwned, EnsureOwned, Zenon
<1>4. ASSUME NEW p \in Procs, RemoveOne(p) \/ Delete(p) \/ Removed(p) \/ Write(p) \/ Drop(p)
      PROVE  IOwn'
  BY <1>4, RemoveOneOwned, DeleteOwned, RemovedOwned, WriteOwned, DropOwned, Zenon
<1>5. ASSUME NEW p \in Procs, Socket(p) \/ Prepare(p) \/ Settle(p) \/ Ready(p) \/ Close(p)
      PROVE  IOwn'
  BY <1>5, IdleOwned, Zenon
<1>6. ASSUME NEW p \in Procs, Bind(p) \/ Apply(p) \/ Uncapture(p) PROVE IOwn'
  BY <1>6, AsideOwned, Zenon DEF Bind, Apply, Uncapture, host, self, disk, ghost
<1>7. ASSUME NEW p \in Procs, Exit(p) \/ Kill(p) PROVE IOwn'
  <2>1. Clear(p) /\ UNCHANGED <<host, scoped, disk, stolen, ghost>>
    BY <1>7, Zenon DEF Exit, Kill
  <2> QED
    BY <2>1, ClearOwned, Zenon
<1> QED
  BY <1>1, <1>2, <1>3, <1>4, <1>5, <1>6, <1>7, Zenon DEF Next

\* Until a daemon without the lock saves a record, a delete takes a route that
\* the system wrote only at an interface that has been down under a route of
\* ours, though the two share a key and the delete does not say whose route it
\* means (withdraw, reclaimable, removeOne).
THEOREM OnlyOursTheorem == Spec => []OnlyOurs
<1>1. Init => IInv /\ IOwn
  BY InitHolds, InitOwned, Zenon
<1>2. IInv /\ IOwn /\ [Next]_vars => (IInv /\ IOwn)'
  BY NextHolds, NextOwned, Zenon
<1>3. IOwn => OnlyOurs
  BY Zenon DEF IOwn, Owned, OnlyOurs
<1> QED
  BY <1>1, <1>2, <1>3, PTL DEF Spec
=============================================================================
