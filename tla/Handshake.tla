------------------------------ MODULE Handshake ------------------------------
(***************************************************************************)
(* How an IKE SA comes up: ike/initiator.go's InitiateContext at one end   *)
(* of a dial, and the handshakes of ike/responder.go's Serve at the other. *)
(*                                                                         *)
(* A dial keeps its SPI and nonce for as long as it lasts and changes its  *)
(* request at most twice: a COOKIE is echoed once, and the group is        *)
(* changed once, with a new key exchange.  The responder runs one          *)
(* handshake for every datagram nobody claims, all at the same time: the   *)
(* datagram is judged, challenged for a cookie, admitted to a half-open    *)
(* slot, registered under the initiator's SPI, answered, and waits for     *)
(* IKE_AUTH until its context expires.                                     *)
(*                                                                         *)
(* A datagram stays in net: it can be lost (never taken), repeated and     *)
(* overtaken, so a retransmission, and the identical answer to a repeated  *)
(* IKE_SA_INIT, are stutters.  Cryptography is what it promises: a message *)
(* under keys opens with the same keys, which are those of one key         *)
(* exchange and one pair of SPIs, and a signature names what was signed.   *)
(***************************************************************************)
EXTENDS Naturals, FiniteSets

CONSTANTS
    Dials,           \* InitiateContext calls; a dial is its SPI and its nonce
    Config,          \* [Dials -> what the initiator is and asks for], see below
    Registry,        \* the identities Lookup has a key for
    Local,           \* ResponderConfig.Local
    FirstGroup,      \* the group every dial starts with
    MaxHandshakes,   \* bound: datagrams the responder takes up
    HalfOpenLimit, HalfOpenPerSource, WithoutCookie, CookieThreshold,
    CookieLifetime,
    MaxClock,        \* bound: how far time goes
    InstallFails     \* whether the initiator's replaceChild may fail

\* source: the address; id, asks: IDi and IDr; wants: the group the responder chooses
\* from the offer; child: whether the Child SA is one it can take; flaw: what else is
\* wrong with the IKE_SA_INIT, if anything.
HandshakeAssumption ==
    /\ \A d \in Dials : Config[d].flaw \in {"none", "critical", "unusable"}
    /\ {MaxHandshakes, MaxClock, HalfOpenLimit, CookieThreshold, CookieLifetime} \subseteq Nat
    /\ HalfOpenPerSource \in Nat \ {0} /\ WithoutCookie \in Nat \ {0}

VARIABLES
    dial,       \* [Dials -> [phase, group, cookie, peer]]: InitiateContext's locals
    hs,         \* [1..MaxHandshakes -> [phase, req, open, ok]]: handshake's; its number is its SPI
    owner,      \* hub.ike: [Dials -> the handshake whose mux holds that SPI, or 0]
    halfOpen, bySource,
    version, rotated,  \* cookieVersion with its secret, and cookieRotated
    clock,
    net         \* every datagram sent

handshakeVars == <<dial, hs, owner, halfOpen, bySource, version, rotated, clock, net>>
responder == <<hs, owner, halfOpen, bySource, version, rotated>>

Handshakes == 1..MaxHandshakes
Sources == {Config[d].source : d \in Dials}
Groups == {FirstGroup} \cup {Config[d].wants : d \in Dials}
NoCookie == <<>>

\* What the dial sends as IKE_SA_INIT; AUTH signs all of it (realMessage1).
Request(d) == [type |-> "init", spi |-> d, cookie |-> dial[d].cookie, group |-> dial[d].group]
Keys(d, h, group) == [spi |-> d, spiR |-> h, group |-> group]

HandshakeInit ==
    /\ dial = [d \in Dials |-> [phase |-> "idle", group |-> FirstGroup, cookie |-> NoCookie,
                                peer |-> 0]]
    /\ hs = [h \in Handshakes |-> [phase |-> "free", req |-> <<>>, open |-> FALSE, ok |-> FALSE]]
    /\ owner = [d \in Dials |-> 0]
    /\ halfOpen = 0
    /\ bySource = [s \in Sources |-> 0]
    /\ version = 0
    /\ rotated = 0
    /\ clock = 0
    /\ net = {}

----------------------------------------------------------------------------
(* The initiator. *)

\* InitiateContext up to the first sendRecv.
Dial(d) ==
    /\ dial[d].phase = "idle"
    /\ dial' = [dial EXCEPT ![d].phase = "init"]
    /\ net' = net \cup {Request(d)}
    /\ UNCHANGED <<responder, clock>>

\* usefulInitNotify: a COOKIE once, everything else unchanged.
EchoCookie(d) ==
    /\ dial[d].phase = "init"
    /\ dial[d].cookie = NoCookie
    /\ \E m \in net :
        /\ m.type = "cookie" /\ m.spi = d
        /\ dial' = [dial EXCEPT ![d].cookie = m.cookie]
        /\ net' = net \cup {[Request(d) EXCEPT !.cookie = m.cookie]}
    /\ UNCHANGED <<responder, clock>>

\* usefulInitNotify: an INVALID_KE_PAYLOAD once, with a new key exchange.
ChangeGroup(d) ==
    /\ dial[d].phase = "init"
    /\ dial[d].group = FirstGroup
    /\ \E m \in net :
        /\ m.type = "invalid_ke" /\ m.spi = d
        /\ dial' = [dial EXCEPT ![d].group = m.group]
        /\ net' = net \cup {[Request(d) EXCEPT !.group = m.group]}
    /\ UNCHANGED <<responder, clock>>

\* A response with an SA payload ends the loop, whichever request it answers: the
\* header only names the SPI and the Message ID.  A key exchange in another group
\* than the dial now uses ends the dial; otherwise doIKEAuth signs the request the
\* dial has now.
AcceptInit(d) ==
    /\ dial[d].phase = "init"
    /\ \E m \in net :
        /\ m.type = "init_answer" /\ m.spi = d
        /\ IF m.group # dial[d].group
           THEN /\ dial' = [dial EXCEPT ![d].phase = "failed"]
                /\ UNCHANGED net
           ELSE /\ dial' = [dial EXCEPT ![d].phase = "auth", ![d].peer = m.spiR]
                /\ net' = net \cup {[type |-> "auth", spi |-> d, spiR |-> m.spiR,
                                     keys |-> Keys(d, m.spiR, m.group),
                                     signed |-> Request(d), id |-> Config[d].id,
                                     asks |-> Config[d].asks]}
    /\ UNCHANGED <<responder, clock>>

\* deleteAuthenticatedIKE sends a Delete; its answer changes nothing.
deleteAuthenticatedIKE(d, keys) ==
    /\ dial' = [dial EXCEPT ![d].phase = "delete"]
    /\ net' = net \cup {[type |-> "delete", keys |-> keys]}

\* doIKEAuth and completeIKEAuth on an answer that decrypts: a rejection ends the
\* dial, a signature or a name that does not verify too; a Child SA that is
\* refused, or cannot be installed, has the authenticated IKE SA deleted.
AcceptAuth(d) ==
    /\ dial[d].phase = "auth"
    /\ \E m \in net :
        /\ m.type = "auth_answer" /\ m.keys = Keys(d, dial[d].peer, dial[d].group)
        /\ \/ /\ m.verdict = "rejected" \/ m.id # Config[d].asks
              /\ dial' = [dial EXCEPT ![d].phase = "failed"]
              /\ UNCHANGED net
           \/ /\ m.verdict # "rejected" /\ m.id = Config[d].asks
              /\ m.verdict = "childless" \/ InstallFails
              /\ deleteAuthenticatedIKE(d, m.keys)
           \/ /\ m.verdict = "established" /\ m.id = Config[d].asks
              /\ dial' = [dial EXCEPT ![d].phase = "up"]
              /\ UNCHANGED net
    /\ UNCHANGED <<responder, clock>>

\* sendRecv spends its attempts, or the dial's context is cancelled: the mux is
\* closed and the dial fails.
GiveUp(d) ==
    /\ dial[d].phase \in {"init", "auth", "delete"}
    /\ dial' = [dial EXCEPT ![d].phase = "failed"]
    /\ UNCHANGED <<responder, clock, net>>

----------------------------------------------------------------------------
(* The responder. *)

Source(h) == Config[hs[h].req.spi].source
Inside == {"admitted", "registered", "waiting", "answered"}

\* Serve takes a datagram nobody claims, and handshake judges it from its bytes:
\* an unsupported critical payload is refused without state.
Receive(h) ==
    /\ hs[h].phase = "free"
    /\ \A g \in Handshakes : g < h => hs[g].phase # "free"
    /\ \E m \in net :
        /\ m.type = "init" /\ owner[m.spi] = 0
        /\ hs' = [hs EXCEPT ![h].phase = IF Config[m.spi].flaw = "critical" THEN "done"
                                         ELSE "received",
                            ![h].req = m]
    /\ UNCHANGED <<dial, owner, halfOpen, bySource, version, rotated, clock, net>>

\* Mutant: rotating forgets the secret before.
AcceptedNow(generation) == {generation}

\* accepted, in cookieRequired: cookies of this secret or of the one before it.
Accepted(generation) ==
    {generation} \cup (IF generation > 0 THEN {generation - 1} ELSE {})

\* A cookie is the generation of its secret and, for the properties, the time it was
\* made.
cookieValue(generation) == <<generation, clock>>

\* cookieRequired: the secret is rotated by its age, and under pressure a request
\* that echoes no current cookie is answered with one.
CookieRequired(h) ==
    /\ hs[h].phase = "received"
    /\ LET pressure == \/ halfOpen >= CookieThreshold
                       \/ bySource[Source(h)] >= WithoutCookie
           rotate == clock - rotated > CookieLifetime
           generation == IF rotate THEN version + 1 ELSE version
           cookie == hs[h].req.cookie
           current == cookie # NoCookie /\ cookie[1] \in Accepted(generation)
       IN /\ version' = generation
          /\ rotated' = IF rotate THEN clock ELSE rotated
          /\ IF pressure /\ ~current
             THEN /\ hs' = [hs EXCEPT ![h].phase = "done"]
                  /\ net' = net \cup {[type |-> "cookie", spi |-> hs[h].req.spi,
                                       cookie |-> cookieValue(generation)]}
             ELSE /\ hs' = [hs EXCEPT ![h].phase = "proved"]
                  /\ UNCHANGED net
    /\ UNCHANGED <<dial, owner, halfOpen, bySource, clock>>

\* enterHalfOpen.
EnterHalfOpen(h) ==
    /\ hs[h].phase = "proved"
    /\ IF halfOpen >= HalfOpenLimit \/ bySource[Source(h)] >= HalfOpenPerSource
       THEN /\ hs' = [hs EXCEPT ![h].phase = "done"]
            /\ UNCHANGED <<halfOpen, bySource>>
       ELSE /\ hs' = [hs EXCEPT ![h].phase = "admitted"]
            /\ halfOpen' = halfOpen + 1
            /\ bySource' = [bySource EXCEPT ![Source(h)] = @ + 1]
    /\ UNCHANGED <<dial, owner, version, rotated, clock, net>>

\* The deferred leaveHalfOpen: both counts are floored.
LeaveHalfOpen(h) ==
    /\ halfOpen' = IF halfOpen > 0 THEN halfOpen - 1 ELSE 0
    /\ bySource' = [bySource EXCEPT ![Source(h)] = IF @ <= 1 THEN 0 ELSE @ - 1]

\* mux.Close.
Unregister(h) == [d \in Dials |-> IF owner[d] = h THEN 0 ELSE owner[d]]

\* Every failure past the slot: handshake's deferred calls close the mux, if there
\* is one, and give back the slot.
Fail(h) ==
    /\ hs' = [hs EXCEPT ![h].phase = "done", ![h].open = FALSE]
    /\ owner' = Unregister(h)
    /\ LeaveHalfOpen(h)

\* The offer cannot be used: supportsSignatureHash, selectIKEProposal and
\* validNonceFor.  A wrong group is answered with the one wanted.
Refuse(h) ==
    /\ hs[h].phase = "admitted"
    /\ LET req == hs[h].req
           flawed == Config[req.spi].flaw = "unusable"
       IN /\ flawed \/ req.group # Config[req.spi].wants
          /\ net' = IF flawed THEN net
                    ELSE net \cup {[type |-> "invalid_ke", spi |-> req.spi,
                                    group |-> Config[req.spi].wants]}
    /\ Fail(h)
    /\ UNCHANGED <<dial, version, rotated, clock>>

\* NewMuxTo and RegisterIKE: an SPI another mux holds ends the handshake.
Register(h) ==
    /\ hs[h].phase = "admitted"
    /\ LET req == hs[h].req
       IN /\ Config[req.spi].flaw # "unusable" /\ req.group = Config[req.spi].wants
          /\ IF owner[req.spi] # 0 THEN Fail(h)
             ELSE /\ hs' = [hs EXCEPT ![h].phase = "registered", ![h].open = TRUE]
                  /\ owner' = [owner EXCEPT ![req.spi] = h]
                  /\ UNCHANGED <<halfOpen, bySource>>
    /\ UNCHANGED <<dial, version, rotated, clock, net>>

\* SendIKE(buildSAInitResponse): it goes out whether the mux is still open or not.
Respond(h) ==
    /\ hs[h].phase = "registered"
    /\ hs' = [hs EXCEPT ![h].phase = "waiting"]
    /\ net' = net \cup {[type |-> "init_answer", spi |-> hs[h].req.spi, spiR |-> h,
                         group |-> hs[h].req.group]}
    /\ UNCHANGED <<dial, owner, halfOpen, bySource, version, rotated, clock>>

\* The handshake's context ends: its AfterFunc closes the mux, at any time before
\* stopCancel.
Expire(h) ==
    /\ hs[h].open /\ hs[h].phase \in Inside
    /\ hs' = [hs EXCEPT ![h].open = FALSE]
    /\ owner' = Unregister(h)
    /\ UNCHANGED <<dial, halfOpen, bySource, version, rotated, clock, net>>

\* RecvIKEFromUntil on a closed mux.
StopWaiting(h) ==
    /\ hs[h].phase = "waiting" /\ ~hs[h].open
    /\ Fail(h)
    /\ UNCHANGED <<dial, version, rotated, clock, net>>

\* Lookup: the registry stands behind the node, its organization and its endpoint.
lookupPeerKey(id) == id \in Registry
localIdentity(id) == id \in Local

\* Mutant: the signature does not cover the IKE_SA_INIT request.
AuthenticUnsigned(h, m) == lookupPeerKey(m.id) /\ localIdentity(m.asks)

\* VerifyAuth under the key Lookup finds for IDi: the signature covers the request
\* this handshake answered, and the request names an identity of ours.
Authentic(h, m) == lookupPeerKey(m.id) /\ m.signed = hs[h].req /\ localIdentity(m.asks)

\* completeResponderAuth on the first IKE_AUTH that decrypts: a rejection, or an
\* answer without a Child SA, ends the handshake; otherwise the Child SA is
\* installed and the answer retained and sent.
CompleteResponderAuth(h) ==
    /\ hs[h].phase = "waiting" /\ hs[h].open
    /\ \E m \in net :
        /\ m.type = "auth" /\ m.keys = Keys(hs[h].req.spi, h, hs[h].req.group)
        /\ LET verdict == IF ~Authentic(h, m) THEN "rejected"
                          ELSE IF Config[m.spi].child THEN "established" ELSE "childless"
           IN /\ net' = net \cup {[type |-> "auth_answer", keys |-> m.keys,
                                    verdict |-> verdict, id |-> m.asks]}
              /\ IF verdict # "established" THEN Fail(h)
                 ELSE /\ hs' = [hs EXCEPT ![h].phase = "answered", ![h].ok = TRUE]
                      /\ UNCHANGED <<owner, halfOpen, bySource>>
    /\ UNCHANGED <<dial, version, rotated, clock>>

\* handshake returns its session, open or not, and Serve hands it to onSession.
Return(h) ==
    /\ hs[h].phase = "answered"
    /\ hs' = [hs EXCEPT ![h].phase = "session"]
    /\ LeaveHalfOpen(h)
    /\ UNCHANGED <<dial, owner, version, rotated, clock, net>>

\* A response cannot be sent or, after the last one, a setting of the session is
\* refused: the handshake fails with its Child SA installed.
SendFails(h) ==
    /\ hs[h].phase \in {"registered", "answered"}
    /\ Fail(h)
    /\ UNCHANGED <<dial, version, rotated, clock, net>>

\* The session ends: by a Delete, by dead peer detection, by being replaced, or at
\* once when the responder subsystem is stopped or its mux is already closed.
EndSession(h) ==
    /\ hs[h].phase = "session"
    /\ hs' = [hs EXCEPT ![h].phase = "done", ![h].open = FALSE]
    /\ owner' = Unregister(h)
    /\ UNCHANGED <<dial, halfOpen, bySource, version, rotated, clock, net>>

Tick ==
    /\ clock < MaxClock
    /\ clock' = clock + 1
    /\ UNCHANGED <<dial, responder, net>>

Initiator(d) ==
    \/ Dial(d) \/ EchoCookie(d) \/ ChangeGroup(d) \/ AcceptInit(d) \/ AcceptAuth(d)
    \/ GiveUp(d)

\* The steps of a handshake that wait for nobody.
Own(h) ==
    \/ CookieRequired(h) \/ EnterHalfOpen(h) \/ Refuse(h) \/ Register(h) \/ Respond(h)
    \/ StopWaiting(h) \/ Return(h)

Handshake(h) == Receive(h) \/ Own(h) \/ SendFails(h) \/ CompleteResponderAuth(h)

HandshakeNext ==
    \/ \E d \in Dials : Initiator(d)
    \/ \E h \in Handshakes : Handshake(h) \/ Expire(h) \/ EndSession(h)
    \/ Tick

HandshakeSpec == HandshakeInit /\ [][HandshakeNext]_handshakeVars

----------------------------------------------------------------------------
HandshakeTypeOK ==
    /\ \A d \in Dials :
        /\ dial[d].phase \in {"idle", "init", "auth", "delete", "up", "failed"}
        /\ dial[d].group \in Groups
        /\ dial[d].peer \in 0..MaxHandshakes
        /\ owner[d] \in 0..MaxHandshakes
    /\ \A h \in Handshakes :
        /\ hs[h].phase \in Inside \cup {"free", "received", "proved", "session", "done"}
        /\ hs[h].phase = "free" \/ hs[h].req.spi \in Dials
    /\ halfOpen \in 0..HalfOpenLimit
    /\ \A s \in Sources : bySource[s] \in 0..HalfOpenPerSource
    /\ version \in Nat /\ rotated <= clock /\ clock <= MaxClock

\* A dial that came up has exactly one peer: the handshake it was answered by
\* authenticated it, for the very request the dial has settled on, under the keys
\* the dial holds, as the identity it asked for.  Requests that were overtaken by a
\* cookie or by another group, and their answers, never make a session (doIKEAuth,
\* VerifyAuth over realMessage1 and realMessage2).
Agreement ==
    \A d \in Dials : dial[d].phase = "up" =>
        /\ hs[dial[d].peer].ok
        /\ hs[dial[d].peer].req = Request(d)
        /\ Config[d].id \in Registry /\ Config[d].asks \in Local

\* However often its datagrams are repeated, one dial is authenticated by at most
\* one handshake, so the responder never serves two sessions for it (spiR is part
\* of what IKE_AUTH is keyed to).
OneSession ==
    \A g, h \in Handshakes : hs[g].ok /\ hs[h].ok /\ hs[g].req.spi = hs[h].req.spi => g = h

\* The two half-open counts are the handshakes that hold a slot, on every path out
\* of handshake: a slot that leaked would in the end refuse every peer, a count too
\* low would let the cap and the cookie threshold through (enterHalfOpen,
\* leaveHalfOpen).
SlotsExact ==
    LET held == {h \in Handshakes : hs[h].phase \in Inside}
    IN /\ halfOpen = Cardinality(held)
       /\ \A s \in Sources : bySource[s] = Cardinality({h \in held : Source(h) = s})

\* Nothing survives a rejected exchange: the hub routes an SPI to a handshake exactly
\* as long as that handshake, or the session it became, has its mux open, and no
\* handshake that ended has.
NothingSurvives ==
    \A h \in Handshakes :
        /\ \A d \in Dials : owner[d] = h <=> hs[h].open /\ hs[h].req.spi = d
        /\ hs[h].open => hs[h].phase \in Inside \cup {"session"}

\* All of the above: a dial that came up has exactly one peer, which authenticated it
\* for the very request the dial has settled on; repeated and overtaken datagrams never
\* make a second session; the half-open counts are the handshakes that hold a slot; and
\* nothing of a handshake that ended survives in the hub.
HandshakesAgree ==
    HandshakeTypeOK /\ Agreement /\ OneSession /\ SlotsExact /\ NothingSurvives

\* A request that echoes a cookie no older than cookieLifetime is not challenged
\* again, also when the secret was rotated in between: the initiator echoes one
\* cookie a dial, so a second challenge would end it (cookieRequired).
Challenges(h) == hs[h].phase = "received" /\ hs'[h].phase = "done"
CookieKept ==
    \A h \in Handshakes :
        Challenges(h) /\ hs[h].req.cookie # NoCookie =>
            clock - hs[h].req.cookie[2] > CookieLifetime
CookieHonoured == [][CookieKept]_handshakeVars

\* No handshake and no dial is under way.  That the responder ends every handshake
\* it takes up, as a session or not, whatever the initiator does (Serve waits for
\* all of them), and every dial ends as a session or with its mux closed
\* (sendRecv's attempts), is MCNode!SessionsConverge: there are finitely many.
NoneUnderWay ==
    /\ \A h \in Handshakes : hs[h].phase \in {"free", "session", "done"}
    /\ \A d \in Dials : dial[d].phase \in {"idle", "up", "failed"}
=============================================================================
