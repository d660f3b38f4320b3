----------------------------- MODULE MCNode --------------------------------
(***************************************************************************)
(* What a node owes, for TLC: the session sets of two nodes, one node's    *)
(* dialers, the handshakes of a dial and the egress translator, each with  *)
(* its goroutines and timers fair.  A behaviour is one of a single part,   *)
(* which Init picks; the others rest in their initial states.  The session *)
(* sets have four parts: in all both nodes dial; in "merge" a message is   *)
(* lost, in "redial" one of them redials, in "stop" one shuts down and in  *)
(* "revoke" one drops the other from its registry.                         *)
(***************************************************************************)
EXTENDS SessionSet

VARIABLES
    part,
    disk, cfg, reg, read, dialAt, mutex, peers, dialers, loop, run, stopped, redials, asked,
    rules, forwards, at, seen, announced, published, took, egressCfg, reload, mine, heard,
    originated, overtaken, canceled, fresh, changes, faults,
    dial, hs, owner, halfOpen, bySource, version, rotated, clock, net

dialingVars == <<disk, cfg, reg, read, dialAt, mutex, peers, dialers, loop, run, stopped, redials,
                 asked>>
egressVars == <<rules, forwards, at, seen, announced, published, took, egressCfg, reload, mine,
                heard, originated, overtaken, canceled, fresh, changes, faults>>
ikeVars == <<dial, hs, owner, halfOpen, bySource, version, rotated, clock, net>>
mcVars == <<part, vars, dialingVars, egressVars, ikeVars>>

Again == INSTANCE SessionSet WITH Faults <- 0, Redials <- 1
Stop == INSTANCE SessionSet WITH Faults <- 0, Stops <- {"a"}
Revoked == INSTANCE SessionSet WITH Faults <- 0, Revokers <- {"b"}
Client == INSTANCE Dialing WITH
    at <- dialAt, Paths <- {"p"}, Loops <- {1, 2}, Reloaders <- {"hup"}, Edits <- 1,
    Redials <- 1
Exit == INSTANCE Egress WITH
    cfg <- egressCfg, Families <- {"v4", "v6"}, Reloaders <- {"hup"}, Edits <- 1,
    Changes <- 2, Faults <- 1
Ike == INSTANCE Handshake WITH
    Dials <- {1},
    Config <- <<[source |-> 1, id |-> 1, asks |-> 9, wants |-> 2, child |-> TRUE,
                flaw |-> "none"]>>,
    Registry <- {1}, Local <- {9}, FirstGroup <- 1, MaxHandshakes <- 3,
    HalfOpenLimit <- 3, HalfOpenPerSource <- 2, WithoutCookie <- 1, CookieThreshold <- 3,
    CookieLifetime <- 1, MaxClock <- 0, InstallFails <- TRUE

ASSUME SessionAssumption /\ Again!SessionAssumption
ASSUME Stop!SessionAssumption /\ Revoked!SessionAssumption
ASSUME Client!DialingAssumption /\ Ike!HandshakeAssumption

MCInit ==
    /\ part \in {"merge", "redial", "stop", "revoke", "dials", "exit", "establish"}
    /\ IF part = "redial" THEN Again!Init
       ELSE IF part \in {"stop", "revoke"} THEN Stop!Init ELSE Init
    /\ Client!Init /\ Exit!Init /\ Ike!HandshakeInit
    /\ part # "dials" => disk = [to |-> {}, all |-> FALSE, nodes |-> {}, from |-> 0]
    /\ part # "exit" => rules = {} /\ forwards = {}

MCNext ==
    /\ UNCHANGED part
    /\ \/ part = "merge" /\ Next /\ UNCHANGED <<dialingVars, egressVars, ikeVars>>
       \/ part = "redial" /\ Again!Next /\ UNCHANGED <<dialingVars, egressVars, ikeVars>>
       \/ part = "stop" /\ Stop!Next /\ UNCHANGED <<dialingVars, egressVars, ikeVars>>
       \/ part = "revoke" /\ Revoked!Next /\ UNCHANGED <<dialingVars, egressVars, ikeVars>>
       \/ part = "dials" /\ Client!Next /\ UNCHANGED <<vars, egressVars, ikeVars>>
       \/ part = "exit" /\ Exit!Next /\ UNCHANGED <<vars, dialingVars, ikeVars>>
       \/ part = "establish" /\ Ike!HandshakeNext /\ UNCHANGED <<vars, dialingVars, egressVars>>

----------------------------------------------------------------------------
(* Fairness: the processes of each part, numbered.  The part never changes, *)
(* so fairness to the k-th process of whichever part moves is fairness to   *)
(* the k-th process of every part.                                          *)

\* Dialers come round, handshakes and teardowns end, a dead peer is noticed.  The
\* parts differ in what else may happen, which nothing forces.
SessionProcess(k) ==
    \/ \E n \in Nodes : LET base == IF n = a THEN 0 ELSE 5 IN
           \/ k = base + 1 /\ Dial(n)
           \/ k = base + 2 /\ Revoke(n)
           \/ k = base + 3 /\ Cancel(n)
           \/ \E s \in SAs : k = base + 3 + s /\ Serving(n, s)
    \/ \E s \in SAs : \/ k = 10 + s /\ Answer(s)
                      \/ k = 12 + s /\ Establish(s)
                      \/ k = 14 + s /\ GiveUp(s)

\* Goroutines go on, an attempt ends some day; the reconnect timer is not needed.
DialsProcess(k) ==
    \/ k = 1 /\ Client!StopDialers
    \/ k = 2 /\ Client!RunReturns
    \/ k = 3 /\ Client!Reloading("hup")
    \/ k = 4 /\ Client!Syncing("hup")
    \/ k = 5 /\ Client!Syncing("run")
    \/ k \in {6, 7} /\ Client!Running(k - 5)

\* The ticker and the retry timer bring the egress loop round.
ExitProcess(k) == k = 1 /\ Exit!Translate

\* Goroutines run, a handshake's context expires and a dial's attempts are spent.
\* Nothing need arrive.
EstablishProcess(k) ==
    \/ k \in 1..3 /\ Ike!Own(k)
    \/ k \in 4..6 /\ Ike!Expire(k - 3)
    \/ k = 7 /\ Ike!GiveUp(1)

Process(k) ==
    /\ UNCHANGED part
    /\ \/ part \in {"merge", "redial", "stop", "revoke"} /\ SessionProcess(k)
       \/ part = "dials" /\ DialsProcess(k)
       \/ part = "exit" /\ ExitProcess(k)
       \/ part = "establish" /\ EstablishProcess(k)

moving ==
    CASE part \in {"merge", "redial", "stop", "revoke"} -> vars
      [] part = "dials" -> dialingVars
      [] part = "exit" -> egressVars
      [] part = "establish" -> ikeVars

\* A dialer that may return now and then, when the mutex is free, does.
MCFairSpec ==
    /\ MCInit /\ [][MCNext]_mcVars
    /\ \A k \in 1..16 : WF_moving(Process(k))
    /\ \A d \in {1, 2} : /\ SF_dialingVars(part = "dials" /\ Client!Return(d))
                         /\ SF_dialingVars(part = "dials" /\ Client!Forget(d))

----------------------------------------------------------------------------
\* Every dial ends, as a session or with its mux closed, and so does every handshake
\* a responder takes up, with its half-open slot given back, whatever becomes of
\* their datagrams.  Two nodes that dial each other at once and lose a message, or
\* redial, end up on one SA and stay there: neither closes for ever what the other
\* keeps.
SessionsConverge ==
    <>[](Ike!NoneUnderWay /\ (part \in {"merge", "redial"} => Settled))

\* What is owed, numbered like the processes: a behaviour owes what its part owes.
Owed(k) ==
    \/ part = "stop" /\ k = 1 /\ life["a"] = "shut"
    \/ part = "dials" /\ IF k = 3 THEN run = "cancelled" ELSE k \in asked
Paid(k) ==
    IF part = "stop" THEN AllOver("a")
    ELSE IF k = 3 THEN run = "returned" ELSE k \notin asked

\* A node that shuts down gets to the end of every session it has, and leaves none
\* running that nobody is to close when Run cancels its loops; and Client.Run
\* returns after it is cancelled.  Until then a redial makes its dialer try
\* again, without waiting for the timer, in whichever state the dialer was asked.
ShutdownEnds ==
    [](NobodyLeftBehind /\ (part = "stop" => Stop!TypeOK)) /\ \A k \in 1..3 : Owed(k) ~> Paid(k)

\* Once the host stays as it is, what the speaker originates becomes and stays
\* exactly what this node can carry, and nothing once it has stopped.  The rules
\* are withdrawn only after the speaker has retracted every exit prefix: no peer
\* is left sending what would leave untranslated.  Only a reload that read the
\* announcement before the translator changed it, and spoke after, prevents it.
ExitConverges == Exit!Converges /\ Exit!RetractedFirst
============================================================================
