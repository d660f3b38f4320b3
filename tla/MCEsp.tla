-------------------------------- MODULE MCEsp --------------------------------
(***************************************************************************)
(* The receiving half of ESP for TLC: the replay window and its words, and *)
(* the receive pipeline.  They share no state, so each behaviour is one of *)
(* a single part, which Init picks; the others rest in their initial       *)
(* states.                                                                 *)
(***************************************************************************)
EXTENDS ReplayWindow, ReplayMask, EspReceive

VARIABLE part     \* the part that moves in this behaviour

ASSUME ReceiveAssumption

MCInit ==
    /\ part \in {"window", "mask", "receive"}
    /\ Init /\ MaskInit /\ ReceiveInit

MCNext ==
    /\ UNCHANGED part
    /\ \/ part = "window" /\ Next /\ UNCHANGED <<maskVars, receiveVars>>
       \/ part = "mask" /\ MaskNext /\ UNCHANGED <<vars, receiveVars>>
       \/ part = "receive" /\ ReceiveNext /\ UNCHANGED <<vars, maskVars>>

MCSpec == MCInit /\ [][MCNext]_<<part, vars, maskVars, receiveVars>>
=============================================================================
