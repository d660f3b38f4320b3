------------------------------ MODULE Proposals ------------------------------
(***************************************************************************)
(* How the two ends of an SA agree on its algorithms: what an initiator    *)
(* offers, what a responder selects from an offer, and what the initiator  *)
(* accepts as the answer (ike/initiator.go, ike/responder.go,              *)
(* ike/ike_rekey.go, ike/child_proposal.go, ike/child_rekey.go).  An       *)
(* exchange is an IKE_SA_INIT ("init"), an IKE SA rekey ("rekey"), a Child *)
(* SA of IKE_AUTH or of a new start ("child"), or a Child SA rekey         *)
(* ("replace").                                                            *)
(*                                                                         *)
(* A transform is its type, its number and its key length, and odd when it *)
(* has attributes the decoder does not know; a proposal is its number,     *)
(* whether protocol and SPI are as they should be, and its transforms in   *)
(* order; an offer is a sequence of proposals.  Where the code has an      *)
(* optional transform the model has a set of at most one.                  *)
(***************************************************************************)
EXTENDS Naturals, Sequences, FiniteSets, SequencesExt, FiniteSetsExt

CONSTANT Offers   \* the offers to try: records of exchange, held, offer and ke

VARIABLES
    exchange,  \* which of the four
    held,      \* the PRF or the cipher of the SA being replaced
    offer,     \* the SA payload of the request
    ke,        \* the group of its KE payload, or "none"
    answer,    \* what the responder selects: a sequence of at most one answer
    retried    \* whether the initiator has changed its group

vars == <<exchange, held, offer, ke, answer, retried>>

T(type, id, bits) == [type |-> type, id |-> id, bits |-> bits, odd |-> FALSE]

ikeProposal ==
    <<T("encr", "gcm", 256), T("encr", "gcm", 128), T("encr", "chacha", 0),
      T("prf", "sha384", 0), T("prf", "sha256", 0),
      T("dh", "x25519", 0), T("dh", "p384", 0), T("dh", "p256", 0)>>

espProposal ==
    <<T("encr", "gcm", 256), T("encr", "gcm", 128), T("encr", "chacha", 0), T("esn", "no", 0)>>

ikeRekeyProposal(prf) == SelectSeq(ikeProposal, LAMBDA t : t.type = "prf" => t.id = prf)

\* Whether there is such a cipher.
aeadParams(id, bits) ==
    \/ id = "gcm" /\ bits \in {128, 192, 256}
    \/ id = "chacha" /\ bits \in {0, 256}

\* The cipher with the length of its key, if it is one.  ChaCha20-Poly1305 has no
\* Key Length attribute.
canonicalEncryptionTransform(t) ==
    IF t.type # "encr" \/ t.odd \/ ~aeadParams(t.id, t.bits) THEN {}
    ELSE IF t.id # "chacha" THEN {t}
    ELSE IF t.bits = 0 THEN {[t EXCEPT !.bits = 256]}
    ELSE {}

\* Mutant: the length is left on the fixed-length key.
WireKeyed(t) == t

\* The wire's spelling of an installed cipher (canonicalChildCipher and the answers
\* of both responders).
Wire(t) == IF t.id = "chacha" THEN [t EXCEPT !.bits = 0] ELSE t

Ciphers(ts) == UNION {canonicalEncryptionTransform(ts[i]) : i \in DOMAIN ts}

espRekeyProposal(old) ==
    SelectSeq(espProposal, LAMBDA t : t.type = "encr" => old \in canonicalEncryptionTransform(t))

----------------------------------------------------------------------------
(* The responder. *)

First(ts) == IF ts = <<>> THEN {} ELSE {ts[1]}
Types(ts) == {ts[i].type : i \in DOMAIN ts}

\* The first transform of ours, in our order, that the proposal has too.
Pick(ours, type, ts) == First(SelectSeq(ours, LAMBDA t : t.type = type /\ t \in ToSet(ts)))

\* The integrity transform to echo: NONE, when the proposal spells it out.
Integ(ts) == First(SelectSeq(ts, LAMBDA t : t.type = "integ" /\ t.id = "none" /\ ~t.odd))
IntegTaken(ts) == "integ" \in Types(ts) => Integ(ts) # {}

\* selectDHTransform: [dh, preferred] of a proposal, {} if there is no choice.
Matching(ts, group) == {t \in ToSet(ts) : t \in ToSet(ikeProposal) /\ t.type = "dh" /\ t.id = group}
selectDHTransform(ts, group, optional) ==
    IF Matching(ts, group) # {} THEN {Matching(ts, group)}
    ELSE IF optional /\ "dh" \notin Types(ts) THEN {{}}
    ELSE IF optional /\ T("dh", "none", 0) \in ToSet(ts) THEN {{T("dh", "none", 0)}}
    ELSE {}

\* What a proposal is worth: [ts] a complete choice; [group] complete but for the
\* group, which should be this one.  An unknown type spoils the whole proposal.
Chosen(number, ts, suite) == [is |-> "chosen", number |-> number, ts |-> ts, suite |-> suite]
Group(t) == [is |-> "group", group |-> t.id]
Nothing == [is |-> "none"]

\* selectIKEProposal on one proposal.
initSelection(p, group) ==
    LET encr == Pick(ikeProposal, "encr", p.ts)
        prf == Pick(ikeProposal, "prf", p.ts)
        dh == Pick(ikeProposal, "dh", p.ts)
        suite == encr \cup prf \cup dh
    IN IF \/ p.number = 0 \/ ~p.ok
          \/ ~(Types(p.ts) \subseteq {"encr", "prf", "dh", "integ"})
          \/ ~IntegTaken(p.ts) \/ Cardinality(suite) # 3
       THEN Nothing
       ELSE IF \A t \in dh : t.id # group THEN Group(CHOOSE t \in dh : TRUE)
       ELSE Chosen(p.number, suite \cup Integ(p.ts), suite)

\* selectIKERekeyProposal: the PRF is kept, and the group of the KE payload is
\* taken if the proposal has it at all.
rekeySelection(p, group, prf) ==
    LET ours == ikeRekeyProposal(prf)
        fixed == Pick(ours, "encr", p.ts) \cup Pick(ours, "prf", p.ts)
        dh == selectDHTransform(p.ts, group, FALSE)
        preferred == Pick(ours, "dh", p.ts)
    IN IF \/ p.number = 0 \/ ~p.ok
          \/ ~(Types(p.ts) \subseteq {"encr", "prf", "dh", "integ"})
          \/ ~IntegTaken(p.ts) \/ Cardinality(fixed) # 2
       THEN Nothing
       ELSE IF dh # {}
       THEN LET suite == fixed \cup UNION dh
            IN Chosen(p.number, suite \cup Integ(p.ts), suite)
       ELSE IF preferred # {} THEN Group(CHOOSE t \in preferred : TRUE) ELSE Nothing

\* childEncryptionAccepted: of the installed cipher, or of those we offer.
childEncryptionAccepted(expected) ==
    IF expected # {} THEN expected ELSE Ciphers(espProposal)

\* selectChildRequestProposal on one proposal, and the answer made of it: the first
\* cipher in the offer's order that is acceptable.
childSelection(p, group, expected) ==
    LET encr == First(SelectSeq(p.ts, LAMBDA t :
                    canonicalEncryptionTransform(t) \cap childEncryptionAccepted(expected) # {}))
        dh == selectDHTransform(p.ts, group, TRUE)
        preferred == Pick(ikeProposal, "dh", p.ts)
        esn == {t \in ToSet(p.ts) : t = T("esn", "no", 0)}
    IN IF \/ p.number = 0 \/ ~p.ok
          \/ ~(Types(p.ts) \subseteq {"encr", "esn", "dh", "integ"})
          \/ ~IntegTaken(p.ts) \/ encr = {} \/ esn = {}
       THEN Nothing
       ELSE IF dh # {}
       THEN LET cipher == CHOOSE t \in UNION {canonicalEncryptionTransform(t) : t \in encr} : TRUE
            IN Chosen(p.number, {Wire(cipher)} \cup esn \cup Integ(p.ts) \cup UNION dh, {cipher})
       ELSE IF preferred # {} THEN Group(CHOOSE t \in preferred : TRUE) ELSE Nothing

Selection(p) ==
    CASE exchange = "init" -> initSelection(p, ke)
      [] exchange = "rekey" -> rekeySelection(p, ke, held)
      [] exchange = "child" -> childSelection(p, ke, {})
      [] exchange = "replace" -> childSelection(p, ke, {held})

\* ikeGroupPreference.
Preference(group) == CHOOSE i \in DOMAIN ikeProposal : ikeProposal[i] = T("dh", group, 0)

\* The loops over the proposals: the first complete one; else the group to ask for,
\* of the first proposal that lacks only that or, for a rekey, the one we like best.
Select ==
    LET is(i, what) == Selection(offer[i]).is = what
        complete == {i \in DOMAIN offer : is(i, "chosen")}
        asking == {i \in DOMAIN offer : is(i, "group")}
        before(i, j) == IF exchange = "rekey"
                        THEN Preference(Selection(offer[i]).group)
                                <= Preference(Selection(offer[j]).group)
                        ELSE i <= j
    IN IF complete # {} THEN Selection(offer[Min(complete)])
       ELSE IF asking # {}
       THEN Selection(offer[CHOOSE i \in asking : \A j \in asking : before(i, j)])
       ELSE Nothing

----------------------------------------------------------------------------
(* The initiator. *)

\* suiteFromProposal: the suite of an answer to an IKE offer of ours.
suiteFromProposal(a) ==
    IF /\ a.number = 1 /\ Cardinality(a.ts) = 3
       /\ {t.type : t \in a.ts} = {"encr", "prf", "dh"}
       /\ a.ts \subseteq ToSet(ikeProposal)
    THEN {a.ts} ELSE {}

\* decodeChildProposal: the cipher of an answer to a Child SA offer of ours.
decodeChildProposal(a, expected) ==
    IF /\ a.number = 1 /\ Cardinality(a.ts) = 2
       /\ {t.type : t \in a.ts} = {"encr", "esn"} /\ T("esn", "no", 0) \in a.ts
    THEN LET cipher == UNION {canonicalEncryptionTransform(t) : t \in a.ts}
         IN {c \in {cipher} : c # {} /\ c \subseteq childEncryptionAccepted(expected)}
    ELSE {}

\* What the initiator makes of an answer: InitiateContext, RekeyIKE, doIKEAuth and
\* negotiateChild.
Reads(a) ==
    CASE exchange = "init" ->
            {suite \in suiteFromProposal(a) : T("dh", ke, 0) \in suite}
      [] exchange = "rekey" ->
            {suite \in suiteFromProposal(a) :
                /\ T("dh", ke, 0) \in suite
                /\ suite \subseteq ToSet(ikeRekeyProposal(held))}
      [] exchange = "child" -> decodeChildProposal(a, {})
      [] exchange = "replace" -> decodeChildProposal(a, {held})

\* What this implementation offers in such an exchange.
Ours ==
    LET ts == CASE exchange = "init" -> ikeProposal
                [] exchange = "rekey" -> ikeRekeyProposal(held)
                [] exchange = "child" -> espProposal
                [] exchange = "replace" -> espRekeyProposal(held)
    IN <<[number |-> 1, ok |-> TRUE, ts |-> ts]>>

----------------------------------------------------------------------------
\* offer = <<>> stands for what this implementation offers.
Init ==
    \E o \in Offers :
        /\ exchange = o.exchange
        /\ held = o.held
        /\ offer = IF o.offer = <<>> THEN Ours ELSE o.offer
        /\ ke = o.ke
        /\ answer = <<>>
        /\ retried = FALSE

Answer ==
    /\ answer = <<>>
    /\ answer' = <<Select>>
    /\ UNCHANGED <<exchange, held, offer, ke, retried>>

\* An INVALID_KE_PAYLOAD is followed once: the same offer, with a key exchange in
\* the group that was asked for.
Retry ==
    /\ answer # <<>> /\ answer[1].is = "group" /\ ~retried
    /\ ke' = answer[1].group
    /\ retried' = TRUE
    /\ answer' = <<>>
    /\ UNCHANGED <<exchange, held, offer>>

Next == Answer \/ Retry

Spec == Init /\ [][Next]_vars

----------------------------------------------------------------------------
TypeOK ==
    /\ exchange \in {"init", "rekey", "child", "replace"}
    /\ retried \in BOOLEAN
    /\ Len(answer) <= 1
    /\ \A i \in DOMAIN answer : answer[i].is \in {"chosen", "group", "none"}

Says(what) == answer # <<>> /\ answer[1].is = what

\* Two ends that run this code always agree, in every exchange and for every cipher
\* and PRF in force: the offer is never refused, and the initiator takes the answer
\* for exactly the algorithms the responder derives its keys for.  For a Child SA
\* rekey they are those of the SA it replaces (suiteFromProposal,
\* decodeChildProposal, responderChild.proposal).
EndsAgree ==
    offer = Ours =>
        /\ ~Says("none")
        /\ Says("chosen") => Reads(answer[1]) = {answer[1].suite}
        /\ Says("chosen") /\ exchange = "replace" => answer[1].suite = {held}

\* The transforms the profile can use, as a specification of the selection.
Usable(t) ==
    CASE t.type = "encr" ->
            IF exchange \in {"init", "rekey"} THEN t \in ToSet(ikeProposal)
            ELSE canonicalEncryptionTransform(t)
                    \cap (IF exchange = "replace" THEN {held} ELSE Ciphers(espProposal)) # {}
      [] t.type = "prf" -> t \in ToSet(ikeProposal) /\ (exchange = "rekey" => t.id = held)
      [] t.type = "dh" -> \/ t \in ToSet(ikeProposal)
                          \/ exchange \in {"child", "replace"} /\ t = T("dh", "none", 0)
      [] t.type = "integ" -> t.id = "none" /\ ~t.odd
      [] t.type = "esn" -> t = T("esn", "no", 0)
      [] OTHER -> FALSE

\* RFC 7296 section 3.3.6, of one proposal: the mandatory types are there, and of
\* every type that is there some transform can be used.
Acceptable(p) ==
    LET mandatory == IF exchange \in {"init", "rekey"} THEN {"encr", "prf", "dh"}
                     ELSE {"encr", "esn"}
        known == mandatory \cup {"integ", "dh"}
    IN /\ p.number # 0 /\ p.ok
       /\ mandatory \subseteq Types(p.ts) /\ Types(p.ts) \subseteq known
       /\ \A y \in Types(p.ts) : \E t \in ToSet(p.ts) : t.type = y /\ Usable(t)

\* Whatever the peer offers, the answer is taken from one acceptable proposal, by
\* its number, with exactly one of its transforms for each type it includes; the
\* group is that of the KE payload, or NONE; nothing is chosen only when no
\* proposal is acceptable; and the group an INVALID_KE_PAYLOAD asks for is accepted
\* when the peer comes back with it (selectIKEProposal, handleIKERekey,
\* selectChildRequestProposal).
Conforms(p, a) ==
    /\ Acceptable(p) /\ a.number = p.number
    /\ a.ts \subseteq ToSet(p.ts)
    /\ \A y \in Types(p.ts) : Cardinality({t \in a.ts : t.type = y}) = 1
    /\ \A t \in a.ts : Usable(t) /\ (t.type = "dh" => t.id \in {ke, "none"})

SelectsFromTheOffer ==
    /\ Says("chosen") => \E i \in DOMAIN offer : Conforms(offer[i], answer[1])
    /\ Says("none") => \A i \in DOMAIN offer : ~Acceptable(offer[i])
    /\ Says("group") => ~retried
=============================================================================
