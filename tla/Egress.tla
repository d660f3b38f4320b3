------------------------------- MODULE Egress -------------------------------
(***************************************************************************)
(* The translator of cap.egress (internal/egress/egress.go) and the        *)
(* announcement it publishes through the client (internal/client/          *)
(* reload.go): the rules it keeps in the host's packet filter, what it is  *)
(* willing to advertise as a result, and what the Babel speaker has been   *)
(* told to originate.  A family stands for its rules and its prefixes.     *)
(*                                                                         *)
(* The translator's loop, the reloads and the host take turns.  Nothing    *)
(* serialises the two callers of republish.                                *)
(***************************************************************************)
EXTENDS Naturals, FiniteSets

CONSTANTS
    Families,   \* the families cap.egress advertises
    Reloaders,  \* SIGHUP and the control socket's reload verb
    Edits,      \* bound: reloads that apply a new configuration
    Changes,    \* bound: changes somebody else makes on the host
    Faults      \* bound: calls of the backend that fail

VARIABLES
    rules,      \* the families whose rules the host holds
    forwards,   \* the families the host forwards
    at,         \* where the translator's loop is
    seen,       \* what it last read back of the rules
    announced,  \* Translator.announced
    published,  \* whether it was ever stored
    took,       \* the configuration Republish has read
    cfg,        \* the configuration in force, by version
    reload,     \* each reload: idle, or the step that comes next
    mine,       \* the configuration each reload is applying
    heard,      \* the announcement each reload has read
    originated, \* what the speaker was last given
    overtaken,  \* history: a reload gave it, read before the translator changed it
    canceled,   \* the shutdown has begun
    fresh,      \* the host has not changed since the running pass listed it
    changes, faults

host == <<rules, forwards>>
loop == <<at, seen, announced, published, took, canceled>>
reloads == <<cfg, reload, mine, heard>>
counts == <<changes, faults>>
speaker == <<originated, overtaken>>
vars == <<host, loop, reloads, speaker, fresh, counts>>

TypeOK ==
    /\ rules \subseteq Families /\ forwards \subseteq Families
    /\ at \in {"rest", "apply", "readback", "judge", "config", "set", "withdraw", "done"}
    /\ seen \subseteq Families /\ announced \subseteq Families
    /\ published \in BOOLEAN /\ canceled \in BOOLEAN /\ fresh \in BOOLEAN
    /\ took \in 0..cfg /\ cfg \in 0..Edits
    /\ reload \in [Reloaders -> {"idle", "read", "set"}]
    /\ mine \in [Reloaders -> 0..cfg] /\ heard \in [Reloaders -> SUBSET Families]
    /\ originated \in [cfg: 0..cfg, egress: SUBSET Families]
    /\ overtaken \in BOOLEAN
    /\ changes \in 0..Changes /\ faults \in 0..Faults

\* Whatever an earlier instance left in the table is adopted.
Init ==
    /\ rules \in SUBSET Families /\ forwards \in SUBSET Families
    /\ at = "rest" /\ seen = {} /\ announced = {} /\ published = FALSE
    /\ took = 0 /\ cfg = 0 /\ canceled = FALSE
    /\ reload = [r \in Reloaders |-> "idle"] /\ mine = [r \in Reloaders |-> 0]
    /\ heard = [r \in Reloaders |-> {}]
    /\ originated = [cfg |-> 0, egress |-> {}] /\ overtaken = FALSE
    /\ fresh = FALSE /\ changes = 0 /\ faults = 0

\* The rules this configuration asks for, by family.
desired == Families

\* What the translator lets this node advertise; nothing before its first pass.
Announce == announced

\* The families that may be advertised: translated and forwarded.
Ready == rules \cap forwards

----------------------------------------------------------------------------
(* The host: another program flushes a table, or a sysctl is written.      *)

Change ==
    /\ changes < Changes /\ changes' = changes + 1
    /\ fresh' = FALSE
    /\ \E f \in Families:
         \/ f \in rules /\ rules' = rules \ {f} /\ UNCHANGED forwards
         \/ f \in forwards /\ forwards' = forwards \ {f} /\ UNCHANGED rules
         \/ f \notin forwards /\ forwards' = forwards \cup {f} /\ UNCHANGED rules
    /\ UNCHANGED <<loop, reloads, speaker, faults>>

Fault == faults < Faults /\ faults' = faults + 1 /\ UNCHANGED changes

----------------------------------------------------------------------------
(* reconcile.                                                              *)

\* The dump.  Rules that are as desired are not written again; a dump that
\* fails reads as no rule at all.
List ==
    /\ at = "rest" /\ ~canceled
    /\ fresh' = TRUE
    /\ \/ /\ seen' = rules
          /\ at' = IF rules = desired THEN "judge" ELSE "apply"
          /\ UNCHANGED counts
       \/ Fault /\ seen' = {} /\ at' = "judge"
    /\ UNCHANGED <<host, announced, published, took, canceled, reloads, speaker>>

\* One transaction for the whole chain; one that fails leaves what was there.
Apply ==
    /\ at = "apply"
    /\ \/ rules' = desired /\ at' = "readback" /\ UNCHANGED counts
       \/ Fault /\ at' = "judge" /\ UNCHANGED rules
    /\ UNCHANGED <<forwards, seen, announced, published, took, canceled, reloads,
                   speaker, fresh>>

ReadBack ==
    /\ at = "readback"
    /\ at' = "judge"
    /\ \/ seen' = rules /\ UNCHANGED counts
       \/ Fault /\ seen' = {}
    /\ UNCHANGED <<host, announced, published, took, canceled, reloads, speaker, fresh>>

\* Mutant: the announcement is stored and nobody is told.
PublishQuietly(ready, next) ==
    /\ announced' = ready /\ published' = TRUE
    /\ at' = next

\* publish: only a change reaches the caller.
Publish(ready, next) ==
    /\ announced' = ready /\ published' = TRUE
    /\ at' = IF published /\ announced = ready THEN next ELSE "config"

\* Mutant: readiness is the configuration's, not the host's.
JudgeInstalled == seen

\* The families whose every rule was read back and which the host forwards.
Judged == seen \cap forwards

Judge ==
    /\ at = "judge"
    /\ Publish(Judged, "rest")
    /\ UNCHANGED <<host, seen, took, canceled, reloads, speaker, fresh, counts>>

----------------------------------------------------------------------------
(* Republish, on the translator's goroutine.                               *)

TakeConfig ==
    /\ at = "config"
    /\ took' = cfg /\ at' = "set"
    /\ UNCHANGED <<host, seen, announced, published, canceled, reloads, speaker, fresh,
                   counts>>

\* The announcement the translator published.  A loop that has been cancelled
\* with nothing announced has nothing more to take back.
SetOriginated ==
    /\ at = "set"
    /\ originated' = [cfg |-> took, egress |-> announced] /\ overtaken' = FALSE
    /\ at' = IF canceled /\ announced = {} THEN "withdraw" ELSE "rest"
    /\ UNCHANGED <<host, seen, announced, published, took, canceled, reloads, fresh, counts>>

----------------------------------------------------------------------------
(* The end of Run.                                                         *)

Cancel ==
    /\ ~canceled /\ canceled' = TRUE
    /\ UNCHANGED <<host, at, seen, announced, published, took, reloads, speaker, fresh,
                   counts>>

\* The announcement is taken back before the rules are.
Leave ==
    /\ at = "rest" /\ canceled
    /\ Publish({}, "withdraw")
    /\ UNCHANGED <<host, seen, took, canceled, reloads, speaker, fresh, counts>>

Withdraw ==
    /\ at = "withdraw" /\ at' = "done"
    /\ \/ rules' = {} /\ UNCHANGED counts
       \/ Fault /\ UNCHANGED rules
    /\ UNCHANGED <<forwards, seen, announced, published, took, canceled, reloads, speaker,
                   fresh>>

----------------------------------------------------------------------------
(* ReloadFrom, from the store of the configuration to republish.           *)

Store(r) ==
    /\ reload[r] = "idle" /\ cfg < Edits
    /\ cfg' = cfg + 1
    /\ mine' = [mine EXCEPT ![r] = cfg + 1]
    /\ reload' = [reload EXCEPT ![r] = "read"]
    /\ UNCHANGED <<host, loop, heard, speaker, fresh, counts>>

ReadAnnounce(r) ==
    /\ reload[r] = "read"
    /\ heard' = [heard EXCEPT ![r] = Announce]
    /\ reload' = [reload EXCEPT ![r] = "set"]
    /\ UNCHANGED <<host, loop, cfg, mine, speaker, fresh, counts>>

SetReloaded(r) ==
    /\ reload[r] = "set"
    /\ originated' = [cfg |-> mine[r], egress |-> heard[r]]
    /\ overtaken' = (heard[r] # announced)
    /\ reload' = [reload EXCEPT ![r] = "idle"]
    /\ heard' = [heard EXCEPT ![r] = {}] /\ mine' = [mine EXCEPT ![r] = 0]
    /\ UNCHANGED <<host, loop, cfg, fresh, counts>>

----------------------------------------------------------------------------

Translate ==
    \/ List \/ Apply \/ ReadBack \/ Judge \/ TakeConfig \/ SetOriginated \/ Leave \/ Withdraw

Next ==
    \/ Change \/ Translate \/ Cancel
    \/ \E r \in Reloaders: Store(r) \/ ReadAnnounce(r) \/ SetReloaded(r)

Spec == Init /\ [][Next]_vars

----------------------------------------------------------------------------
(* Properties.                                                             *)

\* With a pass and every reload finished and the host unchanged since the pass
\* listed it, the speaker originates no exit prefix this node cannot carry,
\* unless the last to tell it was a reload that the translator had overtaken.
PromiseKept ==
    /\ at = "rest" /\ fresh /\ ~canceled /\ ~overtaken
    /\ \A r \in Reloaders: reload[r] = "idle"
    => originated.egress \subseteq Ready

\* With nobody republishing, the speaker has the prefixes of the configuration
\* in force.
\* Refuted by the code: section 5 of the README.
ConfigAnnounced ==
    at = "rest" /\ (\A r \in Reloaders: reload[r] = "idle") => originated.cfg = cfg

\* The rules are withdrawn only after the speaker has retracted every exit
\* prefix, unless such a reload announced one again: no peer is left sending what
\* would leave untranslated.
RetractedFirst ==
    [][at = "withdraw" /\ at' = "done" => overtaken \/ originated.egress = {}]_vars

\* Once the host stays as it is, what the speaker originates becomes and stays
\* exactly what this node can carry, and nothing once it has stopped.  Only a
\* reload that the translator has overtaken keeps it from that.
Converges == <>[](overtaken \/ originated.egress = IF canceled THEN {} ELSE Ready)
=============================================================================
