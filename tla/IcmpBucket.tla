------------------------------ MODULE IcmpBucket -----------------------------
(***************************************************************************)
(* The token bucket that limits the ICMP errors a node sends for refused   *)
(* segment-routed packets (internal/netstack/segments.go).  Every session  *)
(* has a receive goroutine of its own, and all of them draw from it.       *)
(*                                                                         *)
(* Time is counted in icmpRefill.  The fill time and the token count are   *)
(* two atomics, one step each.                                             *)
(***************************************************************************)
EXTENDS Integers, FiniteSets, FiniteSetsExt

CONSTANTS
    Receivers,   \* receive goroutines that answer
    Burst,       \* icmpBurst
    Horizon,     \* bound: how long the clock runs
    Packets      \* bound: refused packets each receiver sees

BucketAssumption ==
    /\ IsFiniteSet(Receivers) /\ Burst \in Nat \ {0} /\ Horizon \in Nat /\ Packets \in Nat

VARIABLES
    clock,       \* time since segmentsStarted
    filled,      \* m.icmpFilled
    tokens,      \* m.icmpTokens
    receiver,    \* where each receiver stands and what it has read
    answered,    \* history: tokens taken, one for each error sent
    raced,       \* history: the ones taken on a count that was out of date
    seen         \* refused packets, per receiver

vars == <<clock, filled, tokens, receiver, answered, raced, seen>>

\* behind is history: another has taken a token that this one's reading misses.
Idle == [at |-> "idle", now |-> 0, last |-> 0, tokens |-> 0, behind |-> FALSE]

Init ==
    /\ clock = 0 /\ filled = 0 /\ tokens = Burst /\ answered = 0 /\ raced = 0
    /\ receiver = [r \in Receivers |-> Idle] /\ seen = [r \in Receivers |-> 0]

Tick ==
    /\ clock < Horizon /\ clock' = clock + 1
    /\ UNCHANGED <<filled, tokens, receiver, answered, raced, seen>>

\* answerRefused reads the clock once.
Refused(r) ==
    /\ receiver[r].at = "idle" /\ seen[r] < Packets
    /\ seen' = [seen EXCEPT ![r] = @ + 1]
    /\ receiver' = [receiver EXCEPT ![r] = [Idle EXCEPT !.at = "filled", !.now = clock]]
    /\ UNCHANGED <<clock, filled, tokens, answered, raced>>

LoadFilled(r) ==
    /\ receiver[r].at = "filled"
    /\ receiver' = [receiver EXCEPT ![r].at = "tokens", ![r].last = filled,
                                       ![r].behind = FALSE]
    /\ UNCHANGED <<clock, filled, tokens, answered, raced, seen>>

\* What the bucket holds by the reader's clock.
Refill(r) == Min({Burst, tokens + receiver[r].now - receiver[r].last})

LoadTokens(r) ==
    /\ receiver[r].at = "tokens"
    /\ receiver' = [receiver EXCEPT ![r] =
           IF Refill(r) < 1 THEN Idle
           ELSE [@ EXCEPT !.at = "swap", !.tokens = Refill(r),
                          !.behind = receiver[r].behind
                              \/ \E q \in Receivers : receiver[q].at = "store"]]
    /\ UNCHANGED <<clock, filled, tokens, answered, raced, seen>>

\* A token is taken: what anybody else has read is out of date.
Take(r) ==
    /\ receiver' = [q \in Receivers |->
           IF q = r THEN [receiver[q] EXCEPT !.at = "store"]
           ELSE IF receiver[q].at \in {"tokens", "swap"} THEN [receiver[q] EXCEPT !.behind = TRUE]
           ELSE receiver[q]]
    /\ answered' = answered + 1
    /\ raced' = IF receiver[r].behind THEN raced + 1 ELSE raced

\* Mutant: the fill time is left where it is, and the refill counted again.
SwapKeepsTime(r) ==
    /\ receiver[r].at = "swap"
    /\ Take(r)
    /\ UNCHANGED <<clock, filled, tokens, seen>>

\* The swap fails when another has moved the fill time; then all is read again.
Swap(r) ==
    /\ receiver[r].at = "swap"
    /\ IF filled = receiver[r].last
       THEN filled' = receiver[r].now /\ Take(r)
       ELSE /\ receiver' = [receiver EXCEPT ![r].at = "filled"]
            /\ UNCHANGED <<filled, answered, raced>>
    /\ UNCHANGED <<clock, tokens, seen>>

Store(r) ==
    /\ receiver[r].at = "store"
    /\ tokens' = receiver[r].tokens - 1
    /\ receiver' = [receiver EXCEPT ![r] = Idle]
    /\ UNCHANGED <<clock, filled, answered, raced, seen>>

Done == clock = Horizon /\ \A r \in Receivers : receiver[r] = Idle /\ seen[r] = Packets

Next ==
    \/ Tick
    \/ \E r \in Receivers : Refused(r) \/ LoadFilled(r) \/ LoadTokens(r) \/ Swap(r) \/ Store(r)
    \/ Done /\ UNCHANGED vars

Spec == Init /\ [][Next]_vars

-----------------------------------------------------------------------------
(* Properties.                                                             *)

TypeOK ==
    /\ clock \in 0..Horizon /\ filled \in 0..Horizon /\ tokens \in 0..Burst
    /\ answered \in Nat /\ raced \in Nat /\ seen \in [Receivers -> 0..Packets]
    /\ receiver \in [Receivers -> [at : {"idle", "filled", "tokens", "swap", "store"},
                                   now : 0..Horizon, last : 0..Horizon, tokens : 0..Burst,
                                   behind : BOOLEAN]]

\* The errors sent by any moment are at most the burst and one for every
\* refill interval since the start ("a flood gets the refill rate"), and one
\* burst more for every token that a receiver took on a count which another
\* had not stored yet, or had stored since.
RateHeld == answered <= Burst + clock + Burst * raced
=============================================================================
