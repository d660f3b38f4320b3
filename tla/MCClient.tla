------------------------------ MODULE MCClient ------------------------------
(***************************************************************************)
(* What a node keeps account of, for TLC: its dialers, and what it wrote   *)
(* to a link it need not own.  They share no state here, so each behaviour *)
(* is one of a single part, which Init picks, and the other module rests:  *)
(*   dialing   two reloads overlap two edits of the files                  *)
(*   link      a link in a VRF of its own, others write between its passes *)
(*   raced     others write between a readback and the call it leads to    *)
(*   foreign   the VRF is somebody else's                                  *)
(***************************************************************************)
EXTENDS Dialing, LinkOwner, TLC

VARIABLE part

mcVars == <<part, vars, linkVars>>

MCAddresses == {<<1, 1>>}

ASSUME DialingAssumption /\ LinkAssumption

\* The two goroutines that reload are alike.
Symmetry == Permutations(Reloaders)

MCInit ==
    /\ part \in {"dialing", "link", "raced", "foreign"}
    /\ Init
    /\ part # "dialing" => disk = [to |-> {}, all |-> FALSE, nodes |-> {}, from |-> 0]
    /\ LinkInit
    /\ creates = (part # "foreign")
    /\ part = "dialing" => vrf = "none" /\ rules = {} /\ addrs = [h \in Hosts |-> Free]

\* What others may do to the link in each part.
Bounded ==
    \/ part = "link" /\ (changes' # changes => Boundary)
    \/ part = "raced" /\ changes' <= 1 /\ starts' = 1
    \/ part = "foreign" /\ changes' <= 1 /\ (changes' # changes => Boundary)

MCNext ==
    /\ UNCHANGED part
    /\ \/ part = "dialing" /\ Next /\ UNCHANGED linkVars
       \/ part # "dialing" /\ LinkNext /\ Bounded /\ UNCHANGED vars

MCSpec == MCInit /\ [][MCNext]_mcVars

----------------------------------------------------------------------------
\* A link somebody else put into another master is left alone (kernel.go:1728).
\* The withdrawal takes it out: section 5 of the README.
MasterKept == [][part = "link" => MasterLeft]_linkVars
=============================================================================
