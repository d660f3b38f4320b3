----------------------------- MODULE MCNetstack -----------------------------
(***************************************************************************)
(* The hub, a peer's ordered sender, the mesh's inbound half, the route    *)
(* table and the ICMP token bucket for TLC.  They share no state: each     *)
(* behaviour is one of a single part, which Init picks, and the others     *)
(* rest in their initial states.  The batches of a kind, the muxes, the    *)
(* SPIs and the receive goroutines that answer are interchangeable.        *)
(***************************************************************************)
EXTENDS Hub, Delivery, PeerSender, TLC

VARIABLES
    part,
    root, routes

bucketVars == <<clock, filled, tokens, answerer, answered, raced, seen>>
tableVars == <<root, routes>>
inVars == <<deliverer, queue, writer, written, closing, inside, inCloser>>

\* As many slots as make a batch of each kind wait for none or be refused.
MCSlots == [data |-> 2, control |-> 1]

\* Destinations that lie in one another, branch off at every bit and are not
\* all masked; sources of three lengths, two of them the same.
Prefix(a, l) == [addr |-> a, len |-> l]
Destinations == {Prefix(<<1, 0, 1>>, 0), Prefix(<<0, 1, 1>>, 2), Prefix(<<0, 1, 0>>, 3),
                 Prefix(<<0, 0, 1>>, 3)}
Sources == {Prefix(<<>>, -1), Prefix(<<0, 0, 0>>, 1), Prefix(<<0, 0, 0>>, 2),
            Prefix(<<1, 1, 0>>, 2)}
Table == INSTANCE SadrTable WITH
    Width <- 3, Values <- {1, 2}, IndexThreshold <- 2, None <- 0, MaxRoutes <- 3

ASSUME SenderAssumption /\ HubAssumption /\ Bucket!BucketAssumption
ASSUME Table!SadrAssumption /\ Inbound!InboundAssumption

Symmetry == UNION {Permutations(S) : S \in {Data, Control, Muxes, SPIs, Answerers}}

MCInit ==
    /\ part \in {"sender", "hub", "bucket", "table", "flow"}
    /\ SenderInit /\ Init /\ Bucket!Init /\ Table!Init /\ Inbound!Init

MCNext ==
    /\ UNCHANGED part
    /\ \/ /\ part = "sender" /\ SenderNext
          /\ UNCHANGED <<vars, bucketVars, tableVars, inVars>>
       \/ /\ part = "hub" /\ Next
          /\ UNCHANGED <<senderVars, bucketVars, tableVars, inVars>>
       \/ /\ part = "bucket" /\ Bucket!Next
          /\ UNCHANGED <<senderVars, vars, tableVars, inVars>>
       \/ /\ part = "table" /\ Table!Next
          /\ UNCHANGED <<senderVars, vars, bucketVars, inVars>>
       \/ /\ part = "flow" /\ Inbound!Next
          /\ UNCHANGED <<senderVars, vars, bucketVars, tableVars>>

MCSpec == MCInit /\ [][MCNext]_<<part, senderVars, vars, bucketVars, tableVars, inVars>>

----------------------------------------------------------------------------
\* The table holds exactly the routes it was asked to, whatever nodes had to be
\* split, joined or reordered, and Lookup answers the longest destination that has
\* a matching source and of these the longest source, whether a node's sources are
\* indexed or walked (edit, compact, removeValue, Lookup).
TableAnswers == part = "table" => Table!HoldsTheRoutes /\ Table!LookupIsBest
=============================================================================
