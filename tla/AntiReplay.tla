----------------------------- MODULE AntiReplay -----------------------------
(***************************************************************************)
(* What an anti-replay window promises, with no bitmap in it: the receiver *)
(* remembers the set of sequence numbers it accepted, and may accept one   *)
(* only when it is new and less than Window behind the highest accepted.   *)
(* ReplayWindow, which keeps a circular bitmap instead, implements this.   *)
(***************************************************************************)
EXTENDS Integers

CONSTANTS Window, MaxSeq

VARIABLE seen     \* every sequence number accepted so far

Seqs == 1..MaxSeq

Fresh(s) == s \notin seen /\ \A t \in seen : t - s < Window

Accept(s) == Fresh(s) /\ seen' = seen \cup {s}

Init == seen = {}
Next == \E s \in Seqs : Accept(s)
Spec == Init /\ [][Next]_seen
=============================================================================
