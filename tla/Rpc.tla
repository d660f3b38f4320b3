-------------------------------- MODULE Rpc ---------------------------------
(***************************************************************************)
(* What the exchange layer of an IKE SA promises its two ends: operations  *)
(* go out in order, run at the other end in that order and at most once,   *)
(* and complete only after they ran.  An operation may stop at any stage.  *)
(***************************************************************************)
EXTENDS Integers

CONSTANTS Ends, Ops

VARIABLE stage       \* stage[e][o]: how far operation o of end e has come

Init == stage = [e \in Ends |-> [o \in Ops |-> "idle"]]

Send(e, o) ==
    /\ \A p \in Ops : p >= o => stage[e][p] = "idle"
    /\ stage' = [stage EXCEPT ![e][o] = "sent"]

Run(e, o) ==
    /\ stage[e][o] = "sent"
    /\ \A p \in Ops : p < o => stage[e][p] # "sent"
    /\ stage' = [stage EXCEPT ![e][o] = "run"]

Complete(e, o) ==
    /\ stage[e][o] = "run"
    /\ stage' = [stage EXCEPT ![e][o] = "complete"]

Next == \E e \in Ends, o \in Ops : Send(e, o) \/ Run(e, o) \/ Complete(e, o)

Spec == Init /\ [][Next]_stage
=============================================================================
