----------------------------- MODULE EspOutbound -----------------------------
(***************************************************************************)
(* The sending half of a tunnel: which SA a batch is sealed on, the        *)
(* sequence numbers it is given, and the request for a new SA before they  *)
(* run out (esp/esp.go, internal/client/tunnel.go).                        *)
(*                                                                         *)
(* A sender loads the published SA set and then takes numbers from the SA  *)
(* it found, with no lock around the two: by then the SA may be replaced   *)
(* or retired.  It keeps its range while it encrypts.  requestRekey is     *)
(* guarded by two atomics, one step each.  An SA is a name; one that       *)
(* nobody refers to is drawn again with its counter at zero.  How a new SA *)
(* is negotiated is module ChildSA.                                        *)
(***************************************************************************)
EXTENDS Integers, FiniteSets, FiniteSetsExt

CONSTANTS
    Senders,     \* goroutines that reserve numbers: the mesh, Babel
    Counts,      \* how many packets a batch may hold
    SAs,         \* names of SAs, numbers
    MaxSeq,      \* 0xffffffff
    Mark,        \* ProactiveRekeySequence
    Failures     \* bound: rekeys that fail, and SAs the peer deletes

OutboundAssumption ==
    /\ MaxSeq \in Nat /\ Mark \in 0..MaxSeq /\ Failures \in Nat
    /\ Counts \subseteq Nat \ {0} /\ SAs \subseteq Nat \ {0}
    /\ IsFiniteSet(SAs) /\ IsFiniteSet(Counts) /\ SAs # {} /\ Counts # {}

VARIABLES
    outbound,    \* tunnelSAs.outbound, NoSA when the peer deleted it
    inbound,     \* tunnelSAs.inbound
    seq,         \* OutboundSA.seq; past MaxSeq it is kept at Exhausted
    sealed,      \* history: the numbers sealed on each SA
    sender,      \* where each sender stands and the numbers it holds
    rekeying,    \* tunnel.rekeying
    recent,      \* askedAt is less than rekeyAskInterval ago
    rekey,       \* the goroutine requestRekey starts: none, negotiating, or done
                 \* but for the Delete of the SA it replaced
    failures     \* how many Failures have happened

vars == <<outbound, inbound, seq, sealed, sender, rekeying, recent, rekey, failures>>
tables == <<outbound, inbound>>
guards == <<rekeying, recent, rekey>>

NoSA == 0
Exhausted == MaxSeq + 1
First == CHOOSE sa \in SAs : TRUE
Idle == [at |-> "idle", sa |-> NoSA, first |-> 0, end |-> 0]

Init ==
    /\ outbound = First /\ inbound = {First}
    /\ seq = [sa \in SAs |-> 0] /\ sealed = [sa \in SAs |-> {}]
    /\ sender = [s \in Senders |-> Idle]
    /\ rekeying = FALSE /\ recent = TRUE /\ rekey = "none" /\ failures = 0

Numbers(s) == sender[s].first .. sender[s].end

\* An SA that nobody refers to any longer is gone, and its name is free.
Kept == inbound' \cup {sender'[s].sa : s \in Senders}
Account(numbers, used) ==
    /\ seq' = [sa \in SAs |-> IF sa \in Kept THEN numbers[sa] ELSE 0]
    /\ sealed' = [sa \in SAs |-> IF sa \in Kept THEN used[sa] ELSE {}]

-----------------------------------------------------------------------------
(* tunnel.reserve and OutboundSA.reserveSequenceNumbers.                   *)

\* The SA set is loaded; without an SA to send on, a rekey is asked for.
Load(s) ==
    /\ sender[s] = Idle
    /\ sender' = [sender EXCEPT ![s] =
           [Idle EXCEPT !.sa = outbound, !.at = IF outbound = NoSA THEN "ask" ELSE "loaded"]]
    /\ UNCHANGED <<tables, seq, sealed, guards, failures>>

\* Mutant: the range starts at the last number of the one before.
RangeOverlaps(sa, n) == [first |-> seq[sa], end |-> seq[sa] + n]

\* The n numbers after those already taken.
SequenceRange(sa, n) == [first |-> seq[sa] + 1, end |-> seq[sa] + n]

\* The range crosses the end of the space.
Cycles(r) == r.end > MaxSeq

\* One atomic add, whether or not the numbers exist.  Past the mark the
\* callback asks for a new SA; a sender refused its numbers asks as well.
Reserve(s, n) ==
    /\ sender[s].at = "loaded"
    /\ UNCHANGED <<tables, guards, failures>>
    /\ LET sa == sender[s].sa
           r == SequenceRange(sa, n)
           past == r.end >= Mark
       IN  /\ sender' = [sender EXCEPT ![s] =
                  IF Cycles(r) THEN [Idle EXCEPT !.at = "ask"]
                  ELSE [sa |-> sa, first |-> r.first, end |-> r.end,
                        at |-> IF past THEN "ask" ELSE "holds"]]
           /\ Account([seq EXCEPT ![sa] = IF r.end > MaxSeq THEN Exhausted ELSE r.end], sealed)

\* SealBatchInto consumes the range.
Seal(s) ==
    /\ sender[s].at = "holds"
    /\ sender' = [sender EXCEPT ![s] = Idle]
    /\ UNCHANGED <<tables, guards, failures>>
    /\ Account(seq, [sealed EXCEPT ![sender[s].sa] = @ \cup Numbers(s)])

-----------------------------------------------------------------------------
(* tunnel.requestRekey.                                                    *)

\* What a sender goes back to when it has asked.
After(s) == IF sender[s].end = 0 THEN [sender EXCEPT ![s] = Idle]
            ELSE [sender EXCEPT ![s].at = "holds"]

\* One attempt at a time.
Ask(s) ==
    /\ sender[s].at = "ask"
    /\ rekeying' = TRUE
    /\ sender' = IF rekeying THEN After(s) ELSE [sender EXCEPT ![s].at = "floor"]
    /\ UNCHANGED <<tables, seq, sealed, recent, rekey, failures>>

\* And no more than one in an interval.
Floor(s) ==
    /\ sender[s].at = "floor"
    /\ recent' = TRUE
    /\ IF recent THEN rekeying' = FALSE /\ UNCHANGED rekey
                 ELSE rekey' = "negotiates" /\ UNCHANGED rekeying
    /\ sender' = After(s)
    /\ UNCHANGED <<tables, seq, sealed, failures>>

IntervalPasses ==
    /\ recent /\ recent' = FALSE
    /\ UNCHANGED <<tables, seq, sealed, sender, rekeying, rekey, failures>>

-----------------------------------------------------------------------------
(* tunnel.install and tunnel.retire, called by the session.                *)

Unused == SAs \ (inbound \cup {outbound} \cup {sender[s].sa : s \in Senders})

Installs(sa) ==
    /\ sa \in Unused
    /\ outbound' = sa /\ inbound' = inbound \cup {sa}
    /\ UNCHANGED <<seq, sealed>>

\* The rekey that requestRekey started installs an SA, or fails.
RekeyInstalls ==
    /\ rekey = "negotiates" /\ Unused # {} /\ Installs(Min(Unused))
    /\ rekey' = "installed"
    /\ UNCHANGED <<sender, rekeying, recent, failures>>

RekeyReturns ==
    /\ \/ rekey = "installed" /\ UNCHANGED failures
       \/ rekey = "negotiates" /\ failures < Failures /\ failures' = failures + 1
    /\ rekey' = "none" /\ rekeying' = FALSE
    /\ UNCHANGED <<tables, seq, sealed, sender, recent>>

\* Run installs the SA of a rekey the schedule or the peer started.
Install ==
    /\ failures < Failures /\ failures' = failures + 1
    /\ Unused # {} /\ Installs(Min(Unused))
    /\ UNCHANGED <<sender, guards>>

\* A replaced SA is retired in its time, the current one when the peer deletes it.
Retire(spi) ==
    /\ spi \in inbound /\ (spi = outbound => failures < Failures)
    /\ failures' = IF spi = outbound THEN failures + 1 ELSE failures
    /\ inbound' = inbound \ {spi}
    /\ outbound' = IF spi = outbound THEN NoSA ELSE outbound
    /\ UNCHANGED <<sender, guards>> /\ Account(seq, sealed)

-----------------------------------------------------------------------------
Step(s) == Seal(s) \/ Ask(s) \/ Floor(s) \/ \E n \in Counts : Reserve(s, n)

Next ==
    \/ \E s \in Senders : Load(s) \/ Step(s)
    \/ \E spi \in SAs : Retire(spi)
    \/ IntervalPasses \/ RekeyInstalls \/ RekeyReturns \/ Install

Spec == Init /\ [][Next]_vars

-----------------------------------------------------------------------------
(* Properties.                                                             *)

TypeOK ==
    /\ outbound \in SAs \cup {NoSA} /\ inbound \subseteq SAs
    /\ seq \in [SAs -> 0..Exhausted]
    /\ sealed \in [SAs -> SUBSET (1..MaxSeq)]
    /\ sender \in [Senders -> [at : {"idle", "loaded", "ask", "floor", "holds"},
                               sa : SAs \cup {NoSA}, first : 0..MaxSeq, end : 0..MaxSeq]]
    /\ {rekeying, recent} \subseteq BOOLEAN
    /\ rekey \in {"none", "negotiates", "installed"} /\ failures \in 0..Failures

\* No sequence number, and with it no AEAD nonce, is used twice on an SA: the
\* range a sender holds was neither sealed before nor is held by another, also
\* when the SA was replaced or retired after the sender had loaded it.
NonceOnce ==
    \A s \in Senders : sender[s].end # 0 =>
        /\ Numbers(s) \cap sealed[sender[s].sa] = {}
        /\ \A t \in Senders \ {s} :
               sender[t].sa = sender[s].sa => Numbers(s) \cap Numbers(t) = {}

\* What is sealed was handed out by the SA's counter and exists: the space is
\* never cycled, and no batch is sent in part.
NeverCycles ==
    \A sa \in SAs : \A n \in sealed[sa] : n \in 1..MaxSeq /\ n <= seq[sa]

\* The tunnel never sends on an SA whose inbound half is gone, and at most one
\* rekey runs for it.
Paired ==
    /\ outbound # NoSA => outbound \in inbound
    /\ rekey # "none" => rekeying

\* No number is sealed twice under one SA, whoever reserved it and however the
\* tunnel replaced the SA meanwhile; none past the 32-bit space; and the tunnel
\* sends only on an SA whose inbound half is installed.
NumbersOnce == TypeOK /\ NonceOnce /\ NeverCycles /\ Paired

\* The tunnel has numbers to send with.  That failed rekeys, a deleted SA and
\* refused asks are followed by a usable SA is MCTunnels!TrafficMoves.
CanSend == outbound # NoSA /\ seq[outbound] < MaxSeq
=============================================================================
