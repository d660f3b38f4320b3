----------------------------- MODULE LinkOwner ------------------------------
(***************************************************************************)
(* What the kernel reconciler keeps beside its routes (internal/kernel/    *)
(* kernel.go applyVRF, applyMaster, applyAddresses, applyRules, withdraw;  *)
(* platform_linux.go, rules_linux.go): the VRF, the master and the         *)
(* addresses of a link it need not have created, and the policy rules.     *)
(* Others write all of them too.  Rules carry the reconciler's protocol;   *)
(* the rest carries nothing, so what this process did is in its memory.    *)
(*                                                                         *)
(* Every call of the platform is a step.  The routes are module Reconciler.*)
(***************************************************************************)
EXTENDS Naturals, FiniteSets

CONSTANTS
    Addresses,  \* the configured prefixes, as <<address, length>>
    Lengths,    \* the prefix lengths somebody may write
    RuleSet,    \* the configured rules
    Rules,      \* the rules somebody may write, the configured ones included
    Changes,    \* bound: writes of somebody else
    Starts,     \* bound: instances
    Faults      \* bound: calls that fail

Hosts == {p[1] : p \in Addresses}
Prefixes == Hosts \X Lengths

LinkAssumption ==
    /\ Lengths \subseteq Nat \ {0} /\ Addresses \subseteq Prefixes /\ RuleSet \subseteq Rules
    /\ Changes \in Nat /\ Starts \in Nat \ {0} /\ Faults \in Nat

VARIABLES
    creates,    \* the configuration says the VRF is this reconciler's to create
    addrs,      \* per address: the length it is held under and who wrote it
    master,     \* the link's master and who set it
    vrf,        \* who made the VRF, or "none"
    rules,      \* the rules, each with whose protocol it carries
    linkAt,     \* the call the loop makes next
    todo,       \* the addresses left to assign or to take off
    stale, add, \* the rules left to delete and to add
    owned, enslaved, madeVRF,
    failed,     \* the running pass or withdrawal has met an error
    enabled, withdrawn,
    ending,     \* the running withdrawal is the one Run ends with
    fresh,      \* history: nobody else has written since the pass began
    raced,      \* history: somebody has, between the last readback and what it leads to
    changes, starts, faults

kernel == <<addrs, master, vrf, rules>>
record == <<owned, enslaved, madeVRF>>
control == <<enabled, withdrawn, ending>>
counts == <<changes, starts, faults>>
left == <<todo, stale, add>>
history == <<fresh, raced>>
linkVars == <<creates, kernel, linkAt, left, record, failed, control, history, counts>>

Free == [len |-> 0, by |-> "none"]
Alone == [to |-> "none", by |-> "none"]
Writers == {"self", "dead", "other"}

LinkTypeOK ==
    /\ addrs \in [Hosts -> [len : Lengths, by : Writers] \cup {Free}]
    /\ master \in [to : {"mesh", "other"}, by : Writers] \cup {Alone}
    /\ vrf \in Writers \cup {"none"}
    /\ master.to = "mesh" => vrf # "none"
    /\ rules \subseteq Rules \X {"ours", "other"}
    /\ linkAt \in {"idle", "vrf", "master", "join", "list", "assign", "rules", "rule",
               "held", "drop", "release", "found", "erase", "remove", "done", "dead"}
    /\ todo \subseteq Prefixes /\ stale \subseteq Rules /\ add \subseteq Rules
    /\ owned \subseteq Addresses
    /\ creates \in BOOLEAN /\ enslaved \in BOOLEAN /\ madeVRF \in BOOLEAN /\ failed \in BOOLEAN
    /\ enabled \in BOOLEAN /\ withdrawn \in BOOLEAN /\ ending \in BOOLEAN
    /\ fresh \in BOOLEAN /\ raced \in BOOLEAN
    /\ changes \in 0..Changes /\ starts \in 1..Starts /\ faults \in 0..Faults

\* An earlier instance may have left rules behind, and somebody an address.
LinkInit ==
    /\ creates \in BOOLEAN
    /\ addrs \in [Hosts -> {Free} \cup [len : Lengths, by : {"other"}]]
    /\ master = Alone /\ vrf \in {"none", "other"}
    /\ rules \in SUBSET (Rules \X {"ours"})
    /\ linkAt = "idle" /\ todo = {} /\ stale = {} /\ add = {}
    /\ owned = {} /\ enslaved = FALSE /\ madeVRF = FALSE
    /\ failed = FALSE /\ enabled = TRUE /\ withdrawn = FALSE /\ ending = FALSE
    /\ fresh = FALSE /\ raced = FALSE /\ changes = 0 /\ starts = 1 /\ faults = 0

-----------------------------------------------------------------------------
(* The calls of the platform.                                              *)

Fault == faults < Faults /\ faults' = faults + 1 /\ failed' = TRUE /\ UNCHANGED <<changes, starts>>
Fine == UNCHANGED <<failed, counts>>

\* Addrs: what the link holds.
Held == {p \in Prefixes : addrs[p[1]].len = p[2]}

\* AddAddr is an upsert: the address alone is the key.
AddAddr(p, who) ==
    IF p \in Held THEN addrs ELSE [addrs EXCEPT ![p[1]] = [len |-> p[2], by |-> who]]
DelAddr(p) == [addrs EXCEPT ![p[1]] = Free]

\* setMaster takes whatever master the link has away.
Enslave(who) == [to |-> "mesh", by |-> who]
Release == Alone

\* EnsureVRF leaves a device that is there as it is; one that RemoveVRF deletes
\* takes its ports' membership with it.
EnsureVRF == IF vrf = "none" THEN "self" ELSE vrf
RemoveVRF == IF master.to = "mesh" THEN Alone ELSE master

\* decodeRule keeps the rules of this reconciler's protocol.
Marked == {r \in Rules : <<r, "ours">> \in rules}

\* AddRule: selectors somebody already holds are not an error.
AddRule(r) == IF <<r, "other">> \in rules THEN rules ELSE rules \cup {<<r, "ours">>}
DelRule(r) == rules \ {<<r, "ours">>}

-----------------------------------------------------------------------------
(* Others: the administrator, another daemon, the control socket, death.   *)

\* Nothing has been read back that is still to be acted on.
Boundary == linkAt \notin {"join", "assign", "rule", "drop", "erase"}

OtherWrites ==
    /\ changes < Changes /\ changes' = changes + 1
    /\ fresh' = FALSE /\ raced' = (raced \/ ~Boundary)
    /\ \/ /\ \E p \in Prefixes : addrs' \in {AddAddr(p, "other"), DelAddr(p)}
          /\ UNCHANGED <<master, vrf, rules>>
       \/ /\ master' \in {[to |-> "other", by |-> "other"], Alone}
                         \cup (IF vrf = "none" THEN {} ELSE {Enslave("other")})
          /\ UNCHANGED <<addrs, vrf, rules>>
       \/ /\ IF vrf = "none" THEN vrf' = "other" /\ UNCHANGED master
                             ELSE vrf' = "none" /\ master' = RemoveVRF
          /\ UNCHANGED <<addrs, rules>>
       \/ /\ \E r \in Rules : rules' \in {rules \cup {<<r, "other">>}, DelRule(r)}
          /\ UNCHANGED <<addrs, master, vrf>>
    /\ UNCHANGED <<linkAt, left, record, failed, control, starts, faults>>

SetEnabled ==
    /\ enabled' = ~enabled
    /\ UNCHANGED <<kernel, linkAt, left, record, failed, withdrawn, ending, history, counts>>

\* A process that is killed forgets what it did.  Its link goes with it, or
\* was somebody else's and stays.
Kill ==
    /\ linkAt # "dead" /\ linkAt' = "dead"
    /\ owned' = {} /\ enslaved' = FALSE /\ madeVRF' = FALSE
    /\ todo' = {} /\ stale' = {} /\ add' = {}
    /\ \/ /\ addrs' = [h \in Hosts |-> Free] /\ master' = Alone
       \/ /\ addrs' = [h \in Hosts |-> [addrs[h] EXCEPT !.by = IF @ = "self" THEN "dead" ELSE @]]
          /\ master' = [master EXCEPT !.by = IF @ = "self" THEN "dead" ELSE @]
    /\ vrf' = IF vrf = "self" THEN "dead" ELSE vrf
    /\ UNCHANGED <<rules, failed, control, history, counts>>

Start ==
    /\ linkAt = "dead" /\ starts < Starts
    /\ starts' = starts + 1 /\ linkAt' = "idle"
    /\ failed' = FALSE /\ enabled' = TRUE /\ withdrawn' = FALSE /\ ending' = FALSE
    /\ fresh' = FALSE /\ raced' = FALSE
    /\ UNCHANGED <<kernel, left, record, changes, faults>>

-----------------------------------------------------------------------------
(* reconcile.  The steps are independent: an error is kept and the next    *)
(* one runs.                                                               *)

Begin ==
    /\ linkAt = "idle" /\ enabled
    /\ linkAt' = "vrf" /\ withdrawn' = FALSE /\ failed' = FALSE /\ fresh' = TRUE /\ raced' = FALSE
    /\ UNCHANGED <<kernel, left, record, enabled, ending, counts>>

applyVRF ==
    /\ linkAt = "vrf" /\ linkAt' = "master"
    /\ \/ /\ creates /\ Fine
          /\ vrf' = EnsureVRF /\ madeVRF' = (madeVRF \/ vrf = "none")
       \/ ~creates /\ Fine /\ UNCHANGED <<vrf, madeVRF>>
       \/ creates /\ Fault /\ UNCHANGED <<vrf, madeVRF>>
    /\ UNCHANGED <<addrs, master, rules, left, owned, enslaved, control, history>>

readMaster ==
    /\ raced' = FALSE /\ linkAt = "master"
    /\ \/ linkAt' = (IF master.to = "none" THEN "join" ELSE "list") /\ Fine
       \/ Fault /\ linkAt' = "list"
    /\ UNCHANGED <<kernel, left, record, control, fresh>>

\* Only ever from no master at all.  A VRF that is not there cannot be joined.
applyMaster ==
    /\ linkAt = "join" /\ linkAt' = "list"
    /\ \/ /\ vrf # "none" /\ master' = Enslave("self") /\ enslaved' = TRUE /\ Fine
       \/ /\ vrf = "none" /\ failed' = TRUE /\ UNCHANGED <<master, enslaved, counts>>
       \/ Fault /\ UNCHANGED <<master, enslaved>>
    /\ UNCHANGED <<addrs, vrf, rules, left, owned, madeVRF, control, history>>

\* An address the link holds, under whatever length, is not assigned again.
listAddresses ==
    /\ raced' = FALSE /\ linkAt = "list"
    /\ \/ todo' = {p \in Addresses : addrs[p[1]] = Free} /\ linkAt' = "assign" /\ Fine
       \/ Fault /\ todo' = {} /\ linkAt' = "rules"
    /\ UNCHANGED <<kernel, stale, add, record, control, fresh>>

applyAddresses ==
    /\ linkAt = "assign"
    /\ \/ \E p \in todo :
             /\ todo' = todo \ {p}
             /\ \/ addrs' = AddAddr(p, "self") /\ owned' = owned \cup {p} /\ Fine
                \/ Fault /\ UNCHANGED <<addrs, owned>>
             /\ UNCHANGED linkAt
       \/ todo = {} /\ linkAt' = "rules" /\ Fine /\ UNCHANGED <<todo, addrs, owned>>
    /\ UNCHANGED <<master, vrf, rules, stale, add, enslaved, madeVRF, control, history>>

\* Rules an earlier instance left are told apart by nothing but the set.
listRules ==
    /\ raced' = FALSE /\ linkAt = "rules"
    /\ \/ stale' = Marked \ RuleSet /\ add' = RuleSet \ Marked /\ linkAt' = "rule" /\ Fine
       \/ Fault /\ linkAt' = "idle" /\ UNCHANGED <<stale, add>>
    /\ UNCHANGED <<kernel, todo, record, control, fresh>>

\* Every deletion before the first install.
applyRules ==
    /\ linkAt = "rule"
    /\ \/ \E r \in stale :
             /\ stale' = stale \ {r} /\ UNCHANGED <<add, linkAt>>
             /\ (rules' = DelRule(r) /\ Fine) \/ (Fault /\ UNCHANGED rules)
       \/ /\ stale = {} /\ UNCHANGED <<stale, linkAt>>
          /\ \E r \in add :
                /\ add' = add \ {r}
                /\ (rules' = AddRule(r) /\ Fine) \/ (Fault /\ UNCHANGED rules)
       \/ stale = {} /\ add = {} /\ linkAt' = "idle" /\ Fine /\ UNCHANGED <<stale, add, rules>>
    /\ UNCHANGED <<addrs, master, vrf, todo, record, control, history>>

-----------------------------------------------------------------------------
(* withdraw: once per stop, and at the end of Run.                         *)

Withdraw ==
    /\ linkAt = "idle"
    /\ \/ ~enabled /\ ~withdrawn /\ UNCHANGED ending
       \/ ending' = TRUE
    /\ linkAt' = "held" /\ failed' = FALSE
    /\ UNCHANGED <<kernel, left, record, enabled, withdrawn, history, counts>>

\* An address is taken off only while the link holds it as it was installed; a
\* link that would not read back keeps them all.
readAddresses ==
    /\ raced' = FALSE /\ linkAt = "held"
    /\ \/ /\ owned' = owned \cap Held /\ todo' = owned \cap Held
          /\ linkAt' = "drop" /\ Fine
       \/ Fault /\ linkAt' = "release" /\ UNCHANGED <<owned, todo>>
    /\ UNCHANGED <<kernel, stale, add, enslaved, madeVRF, control, fresh>>

\* Mutant: an address is forgotten whether or not its removal succeeded.
dropForgotten ==
    /\ linkAt = "drop"
    /\ \/ \E p \in todo :
             /\ todo' = todo \ {p} /\ owned' = owned \ {p}
             /\ (addrs' = DelAddr(p) /\ Fine) \/ (Fault /\ UNCHANGED addrs)
             /\ UNCHANGED linkAt
       \/ todo = {} /\ linkAt' = "release" /\ Fine /\ UNCHANGED <<todo, addrs, owned>>
    /\ UNCHANGED <<master, vrf, rules, stale, add, enslaved, madeVRF, control, history>>

dropAddresses ==
    /\ linkAt = "drop"
    /\ \/ \E p \in todo :
             /\ todo' = todo \ {p}
             /\ \/ addrs' = DelAddr(p) /\ owned' = owned \ {p} /\ Fine
                \/ Fault /\ UNCHANGED <<addrs, owned>>
             /\ UNCHANGED linkAt
       \/ todo = {} /\ linkAt' = "release" /\ Fine /\ UNCHANGED <<todo, addrs, owned>>
    /\ UNCHANGED <<master, vrf, rules, stale, add, enslaved, madeVRF, control, history>>

releaseLink ==
    /\ linkAt = "release" /\ linkAt' = "found"
    /\ \/ enslaved /\ master' = Release /\ enslaved' = FALSE /\ Fine
       \/ ~enslaved /\ Fine /\ UNCHANGED <<master, enslaved>>
       \/ enslaved /\ Fault /\ UNCHANGED <<master, enslaved>>
    /\ UNCHANGED <<addrs, vrf, rules, left, owned, madeVRF, control, history>>

readRules ==
    /\ raced' = FALSE /\ linkAt = "found"
    /\ \/ stale' = Marked /\ linkAt' = "erase" /\ Fine
       \/ Fault /\ stale' = {} /\ linkAt' = "remove"
    /\ UNCHANGED <<kernel, todo, add, record, control, fresh>>

eraseRules ==
    /\ linkAt = "erase"
    /\ \/ \E r \in stale :
             /\ stale' = stale \ {r} /\ UNCHANGED linkAt
             /\ (rules' = DelRule(r) /\ Fine) \/ (Fault /\ UNCHANGED rules)
       \/ stale = {} /\ linkAt' = "remove" /\ Fine /\ UNCHANGED <<stale, rules>>
    /\ UNCHANGED <<addrs, master, vrf, todo, add, record, control, history>>

\* Only a VRF this process created.
removeVRF ==
    /\ linkAt = "remove" /\ linkAt' = (IF ending THEN "done" ELSE "idle") /\ withdrawn' = TRUE
    /\ \/ /\ madeVRF
          /\ vrf' = "none" /\ master' = RemoveVRF /\ madeVRF' = FALSE /\ Fine
       \/ ~madeVRF /\ Fine /\ UNCHANGED <<vrf, master, madeVRF>>
       \/ madeVRF /\ Fault /\ UNCHANGED <<vrf, master, madeVRF>>
    /\ UNCHANGED <<addrs, rules, left, owned, enslaved, enabled, ending, history>>

-----------------------------------------------------------------------------

Reconcile ==
    \/ Begin \/ applyVRF \/ readMaster \/ applyMaster \/ listAddresses \/ applyAddresses
    \/ listRules \/ applyRules
    \/ Withdraw \/ readAddresses \/ dropAddresses \/ releaseLink \/ readRules \/ eraseRules
    \/ removeVRF

LinkNext ==
    /\ OtherWrites \/ SetEnabled \/ Kill \/ Start \/ Reconcile
    /\ UNCHANGED creates

LinkSpec == LinkInit /\ [][LinkNext]_linkVars

-----------------------------------------------------------------------------
(* Properties.                                                             *)

\* After a withdrawal that met no error, nothing this process installed is left
\* on the host, nor a rule of its protocol from whichever instance, though an
\* earlier withdrawal failed half way and others wrote in between.
NothingLeft ==
    withdrawn /\ ~failed /\ linkAt \in {"idle", "done"} =>
        /\ \A h \in Hosts : addrs[h].by # "self"
        /\ master.by # "self" /\ vrf # "self"
        /\ Marked = {}

\* A pass that met no error, on a host nobody else wrote to since it began,
\* leaves every configured address on the link, under somebody's length, the
\* link in a master and exactly the configured rules.
PassConverges ==
    linkAt = "idle" /\ fresh /\ ~failed /\ ~withdrawn =>
        /\ \A h \in Hosts : addrs[h] # Free
        /\ master # Alone
        /\ Marked \subseteq RuleSet
        /\ \A r \in RuleSet : \E who \in {"ours", "other"} : <<r, who>> \in rules

\* The reconciler never changes an address that somebody else, or an instance
\* that was killed, wrote under a prefix this one did not install itself, or a
\* master it has no part in, unless that was written after it had read them back;
\* nor ever a VRF it has no part in, or a rule of another protocol.  An action:
\* what every step satisfies.
OthersUntouched ==
    Reconcile =>
        /\ \A h \in Hosts :
               ~raced /\ addrs[h].by \in {"dead", "other"} /\ <<h, addrs[h].len>> \notin owned
                   => addrs'[h] = addrs[h]
        /\ ~raced /\ master.by \in {"dead", "other"} /\ ~enslaved /\ ~madeVRF
               => master' = master
        /\ vrf \in {"dead", "other"} /\ ~madeVRF => vrf' = vrf
        /\ \A r \in Rules : <<r, "other">> \in rules => <<r, "other">> \in rules'

\* What the reconciler keeps of a link: after a withdrawal that met no error nothing
\* it wrote is left, though an earlier one failed half way; a pass that met none, on
\* a host nobody else wrote to, leaves what is configured; and it leaves alone the
\* VRF and the rules that others, an instance of it that was killed among them, wrote,
\* and the addresses and the master they wrote before the pass read them and that
\* it did not install itself (withdraw, applyAddresses, applyMaster, applyRules).
\* The master of a link it did enslave is the case link_master shows.
LinkKept ==
    /\ [](LinkTypeOK /\ NothingLeft /\ PassConverges)
    /\ [][OthersUntouched]_linkVars

\* A link somebody else put into another master is left alone (kernel.go:1728).
\* Refuted by the code: section 5 of the README.
MasterLeft == Reconcile /\ master.to = "other" => master' = master
=============================================================================
