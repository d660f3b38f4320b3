-------------------------------- MODULE MCIke --------------------------------
(***************************************************************************)
(* SAs for TLC: how they come up, the rekeys of the IKE SA and of the      *)
(* Child SA, and the numbers that are used up on the latter.  Each         *)
(* behaviour is one of a single part, which Init picks, and the other      *)
(* modules rest:                                                           *)
(*   dials     two initiators behind one address, under pressure           *)
(*   groups    three initiators, the wrong group first, of which one is    *)
(*             unknown and one sends what cannot be used                   *)
(*   cookies   one initiator, and secrets rotated as time passes           *)
(*   offers    the choice of algorithms, over sets of offers               *)
(*   rekey     the IKE SA, three nonces: both ends rekey and one twice     *)
(*   child     the Child SA with five names, and no failed install         *)
(*   faults    four names, every fault, answers later than the deadline    *)
(*   numbers   two senders on one tunnel, whose SA is replaced under them  *)
(***************************************************************************)
EXTENDS EspOutbound, Handshake, Sequences, SequencesExt

VARIABLES
    part,
    exchange, held, offer, ke, answer, retried,
    cur, old, coll, keys, routed, local, ikeTask, open, drawn, reqs, resps, sent, handled,
    slips, child, retiring, retired, childIn, childOut, childTask, serving, req, resp

ikeVars == <<cur, old, coll, keys, routed, local, ikeTask, open, drawn, reqs, resps, sent,
             handled, slips>>
childVars == <<child, retiring, retired, childIn, childOut, childTask, serving, req, resp>>
offerVars == <<exchange, held, offer, ke, answer, retried>>
mcVars == <<part, handshakeVars, offerVars, ikeVars, childVars, vars>>

----------------------------------------------------------------------------
(* The dials: what each initiator is, and what it asks for. *)

Asking(source, id, wants, carries, flaw) ==
    [source |-> source, id |-> id, asks |-> 9, wants |-> wants, child |-> carries,
     flaw |-> flaw]
MCConfig ==
    <<Asking(1, 1, 1, TRUE, "none"), Asking(1, 2, 1, FALSE, "none"),
      Asking(1, 1, 2, TRUE, "none"), Asking(1, 3, 2, TRUE, "critical"),
      Asking(2, 4, 2, TRUE, "unusable")>>

\* Who dials in each of the parts.
Dialing(p) == CASE p = "dials" -> {1, 2} [] p = "groups" -> {3, 4, 5} [] p = "cookies" -> {1}

ASSUME HandshakeAssumption

----------------------------------------------------------------------------
(* The offers: this program's own, every selection from a pool of transforms *)
(* it does and does not know, and pairs of proposals.                         *)

Tr(type, id, bits) == [type |-> type, id |-> id, bits |-> bits, odd |-> FALSE]
Gcm == Tr("encr", "gcm", 256)
ChaCha == Tr("encr", "chacha", 0)
ChaChaHeld == Tr("encr", "chacha", 256)
DH(group) == Tr("dh", group, 0)

IkePool ==
    <<[Gcm EXCEPT !.odd = TRUE], ChaCha, Gcm, Tr("prf", "sha384", 0), Tr("prf", "sha256", 0),
      DH("p256"), DH("x25519"), Tr("integ", "sha", 0), Tr("integ", "none", 0),
      Tr("other", "x", 0)>>
EspPool ==
    <<Tr("encr", "gcm", 192), ChaCha, Gcm, Tr("esn", "yes", 0), Tr("esn", "no", 0),
      DH("p256"), DH("modp"), DH("none"), Tr("integ", "none", 0), Tr("integ", "sha", 0)>>
PairPool == <<Gcm, Tr("prf", "sha384", 0), DH("p256"), DH("x25519"), Tr("other", "x", 0)>>

Drawn(pool) == {SelectSeq(pool, LAMBDA t : t \in S) : S \in SUBSET ToSet(pool)}
Proposal(number, ts) == [number |-> number, ok |-> TRUE, ts |-> ts]
Offer(x, props, group) == [exchange |-> x[1], held |-> x[2], offer |-> props, ke |-> group]
IkeExchanges == {<<"init", "">>, <<"rekey", "sha384">>}
ChildExchanges == {<<"child", "">>, <<"replace", ChaChaHeld>>}
KeyGroups == {"x25519", "p384", "p256"}

OwnOffers ==
    {Offer(x, <<>>, k) : x \in IkeExchanges \cup {<<"rekey", "sha256">>}, k \in KeyGroups}
    \cup {Offer(x, <<>>, "none") : x \in ChildExchanges \cup {<<"replace", Gcm>>}}
SingleOffers ==
    {Offer(x, <<Proposal(2, ts)>>, k) :
        x \in IkeExchanges, ts \in Drawn(IkePool), k \in {"x25519", "p256"}}
    \cup {Offer(x, <<Proposal(2, ts)>>, k) :
        x \in ChildExchanges, ts \in Drawn(EspPool), k \in {"none", "p256"}}
PairedOffers ==
    {Offer(x, <<Proposal(1, first), Proposal(2, second)>>, k) :
        x \in IkeExchanges, first \in Drawn(PairPool), second \in Drawn(PairPool),
        k \in {"x25519", "p256"}}
AllOffers == OwnOffers \cup SingleOffers \cup PairedOffers

Choice == INSTANCE Proposals WITH Offers <- AllOffers
NoOffer == INSTANCE Proposals WITH Offers <- {Offer(<<"init", "">>, <<>>, "x25519")}

----------------------------------------------------------------------------

Rekey == INSTANCE IkeRekey WITH task <- ikeTask, Nonces <- {1, 2, 3}
Child == INSTANCE ChildSA WITH
    task <- childTask, inbound <- childIn, outbound <- childOut, SAs <- {1, 2, 3, 4, 5},
    Faults <- {"busy", "unsent"}, Patient <- TRUE
ChildFaults == INSTANCE ChildSA WITH
    task <- childTask, inbound <- childIn, outbound <- childOut, SAs <- {1, 2, 3, 4},
    Faults <- {"busy", "unsent", "install"}, Patient <- FALSE

ASSUME Rekey!RekeyAssumption
ASSUME Child!ChildAssumption /\ ChildFaults!ChildAssumption /\ OutboundAssumption

MCInit ==
    /\ part \in {"dials", "groups", "cookies", "offers", "rekey", "child", "faults",
                 "numbers"}
    /\ HandshakeInit
    /\ IF part = "offers" THEN Choice!Init ELSE NoOffer!Init
    /\ Rekey!Init /\ Child!Init /\ Init

MCNext ==
    /\ UNCHANGED part
    /\ \/ /\ part \in {"dials", "groups", "cookies"} /\ HandshakeNext
          /\ \A d \in Dials \ Dialing(part) : dial'[d] = dial[d]
          /\ part # "cookies" => UNCHANGED clock
          /\ UNCHANGED <<offerVars, ikeVars, childVars, vars>>
       \/ part = "offers" /\ Choice!Next /\ UNCHANGED <<handshakeVars, ikeVars, childVars, vars>>
       \/ part = "rekey" /\ Rekey!Next /\ UNCHANGED <<handshakeVars, offerVars, childVars, vars>>
       \/ /\ \/ part = "child" /\ Child!Next
             \/ part = "faults" /\ ChildFaults!Next
          /\ UNCHANGED <<handshakeVars, offerVars, ikeVars, vars>>
       \/ part = "numbers" /\ Next /\ UNCHANGED <<handshakeVars, offerVars, ikeVars, childVars>>

MCSpec == MCInit /\ [][MCNext]_mcVars

----------------------------------------------------------------------------
\* The algorithms the responder installs are the ones the initiator installs from
\* its answer, each one of the offer and of this program's own, whatever the offer
\* mixes in and in which order (selectIKEProposal, selectChildRequestProposal and their
\* counterparts on the answer).
SuitesAgree ==
    part = "offers" => Choice!TypeOK /\ Choice!EndsAgree /\ Choice!SelectsFromTheOffer

\* The hub routes to a session exactly the SPIs of the SAs it dispatches on: no
\* sequence of rekeys, collisions, Deletes and expiries leaves the control
\* channel deaf, and no SPI outlives the last slot that held its SA
\* (routedLocked, releaseSPILocked, retainOldLocked).  Except once RekeyIKE went by
\* a current SA or a candidate that Run had replaced since it read it.  It never
\* reads an attempt that Run has cleared: there is no nil dereference.
Registered ==
    /\ Rekey!TypeOK
    /\ part = "rekey" => Rekey!RoutedExactly /\ Rekey!AttemptKnown

\* Once no rekey is under way and nothing drains, each end can read what the other
\* sends: on the IKE SA it holds current, however often and in which order the two
\* rekeyed, and on the Child SA.  For the IKE SA that is as long as RekeyIKE never
\* went by slots that Run had moved since, no failed attempt left the peer's
\* candidate behind, and none failed after the peer had answered it.  Whatever
\* fails, the tunnel holds the inbound keys of exactly the Child SAs the session
\* lists, and sends on the current one.
Agreed ==
    /\ Child!TypeOK
    /\ part = "rekey" => Rekey!Settled
    /\ part = "child" => Child!Agreed
    /\ part = "faults" => ChildFaults!KeysAreListed

\* As long as the retirement deadline outlasts an exchange, an end never gives
\* up the keys of a replaced Child SA while the other is still sending on it.
NoBlackhole == [][part = "child" => Child!KeepsWhatIsSentOn]_childVars
=============================================================================
