---------------------------- MODULE ReplayWindow ----------------------------
(***************************************************************************)
(* The inbound half of an ESP SA (esp/inbound.go) over its circular        *)
(* anti-replay bitmap (esp/replay.go).                                     *)
(*                                                                         *)
(* A packet is accepted in two steps with the SA unlocked between them:    *)
(* Authenticate checks the window and runs the AEAD, and Commit checks the *)
(* window again and advances it.  Any number of packets, copies of one     *)
(* another included, may be authenticated and waiting to be committed, and *)
(* they commit in any order: the ordered emitter of internal/client is one *)
(* such order (module EspReceive).                                         *)
(*                                                                         *)
(* The bitmap is the set of the positions whose bit is one.  The 64-bit    *)
(* words that hold it are module ReplayMask.                               *)
(***************************************************************************)
EXTENDS Integers

CONSTANTS
    Window,      \* replayWindow.window, 0 disables the check
    MaxSeq,      \* highest sequence number a sender uses (2^32 - 1)
    Slots,       \* the AuthenticatedPackets the callers have room for
    None         \* an empty slot

ASSUME WindowAssumption == Window \in Nat
ASSUME MaxSeqAssumption == MaxSeq \in Nat

Seqs == 1..MaxSeq

(* What the AEAD and the trailer make of a packet: "corrupt" fails          *)
(* authentication, "malformed" authenticates and carries a bad trailer.    *)
Kinds == {"good", "malformed", "corrupt"}

VARIABLES
    window,      \* InboundSA.window: last and the bitmap
    held,        \* the AuthenticatedPacket in each slot, not committed yet
    accepted,    \* history: how often each sequence number was committed
    delivered    \* history: how often its plaintext was handed out

vars == <<window, held, accepted, delivered>>

Packets == [seq : 0..MaxSeq, kind : Kinds \ {"corrupt"}]

ASSUME NoneAssumption == None \notin Packets

-----------------------------------------------------------------------------
(* The bitmap.                                                             *)

\* The position of the number diff behind last.
Bit(last, diff) == (((last - 1) % Window) + Window - diff) % Window

\* Mutant: a number behind the window is looked up in the bitmap all the same.
CheckNotTooOld(w, seq) ==
    /\ seq # 0
    /\ \/ w.last = 0
       \/ seq > w.last
       \/ (seq - 1) % Window \notin w.mask

Check(w, seq) ==
    \/ Window = 0
    \/ /\ seq # 0
       /\ \/ w.last = 0
          \/ seq > w.last
          \/ /\ w.last - seq < Window
             /\ Bit(w.last, w.last - seq) \notin w.mask

\* n positions from start, wrapping at the window (as two spans of words in
\* the code, module ReplayMask).
ClearRange(mask, start, n) == mask \ {(start + i) % Window : i \in 0 .. n - 1}

\* Mutant: the run to clear starts on the edge's own bit.
KeptFromEdge(w, seq) ==
    IF seq - w.last >= Window
    THEN {}
    ELSE ClearRange(w.mask, (w.last - 1) % Window, seq - w.last - 1)

\* The bits a forward jump from last to seq leaves set.
Kept(w, seq) ==
    IF seq - w.last >= Window
    THEN {}
    ELSE ClearRange(w.mask, ((w.last - 1) % Window) + 1, seq - w.last - 1)

Committed(w, seq) ==
    CASE Window = 0 -> w
      [] Window # 0 /\ w.last = 0 ->
             [last |-> seq, mask |-> w.mask \cup {(seq - 1) % Window}]
      [] Window # 0 /\ w.last # 0 /\ seq > w.last ->
             [last |-> seq, mask |-> Kept(w, seq) \cup {(seq - 1) % Window}]
      [] Window # 0 /\ w.last # 0 /\ seq <= w.last ->
             [last |-> w.last,
              mask |-> w.mask \cup {Bit(w.last, w.last - seq)}]

-----------------------------------------------------------------------------
(* The SA.                                                                 *)

Init ==
    /\ window = [last |-> 0, mask |-> {}]
    /\ held = [a \in Slots |-> None]
    /\ accepted = [s \in 0..MaxSeq |-> 0]
    /\ delivered = [s \in 0..MaxSeq |-> 0]

\* The first half: the window as it is now lets seq through and the tag is
\* right.  Nothing is recorded in the window.
Authenticate(a, seq, kind) ==
    /\ held[a] = None
    /\ Check(window, seq)
    /\ kind # "corrupt"
    /\ held' = [held EXCEPT ![a] = [seq |-> seq, kind |-> kind]]
    /\ UNCHANGED <<window, accepted, delivered>>

\* Mutant: the check made by Authenticate is trusted.
CommitUnchecked(a) ==
    /\ held[a] # None
    /\ held' = [held EXCEPT ![a] = None]
    /\ window' = Committed(window, held[a].seq)
    /\ accepted' = [accepted EXCEPT ![held[a].seq] = @ + 1]
    /\ delivered' = [delivered EXCEPT ![held[a].seq] = @ + 1]

\* The second half: commitLocked checks again and advances the window.  A
\* malformed trailer consumes the number and delivers nothing.
CommitLocked(a) ==
    /\ held[a] # None
    /\ held' = [held EXCEPT ![a] = None]
    /\ IF Check(window, held[a].seq)
       THEN /\ window' = Committed(window, held[a].seq)
            /\ accepted' = [accepted EXCEPT ![held[a].seq] = @ + 1]
            /\ delivered' = IF held[a].kind = "good"
                            THEN [delivered EXCEPT ![held[a].seq] = @ + 1]
                            ELSE delivered
       ELSE UNCHANGED <<window, accepted, delivered>>

Next ==
    \/ \E a \in Slots, seq \in 0..MaxSeq, kind \in Kinds :
           Authenticate(a, seq, kind)
    \/ \E a \in Slots : CommitLocked(a)

Spec == Init /\ [][Next]_vars

-----------------------------------------------------------------------------
(* Properties.                                                             *)

TypeOK ==
    /\ window \in [last : 0..MaxSeq, mask : SUBSET (0 .. Window - 1)]
    /\ held \in [Slots -> Packets \cup {None}]
    /\ accepted \in [0..MaxSeq -> Nat]
    /\ delivered \in [0..MaxSeq -> Nat]

(* No plaintext is handed out twice for one sequence number, however many  *)
(* copies of its packet passed Authenticate before the first one committed.*)
NoReplay ==
    Window # 0 => \A s \in 0..MaxSeq : accepted[s] <= 1 /\ delivered[s] <= 1

(* The bitmap is exact: a number still inside the window, or ahead of it,  *)
(* is refused exactly when it was accepted before.  Nothing the circular   *)
(* reuse of bits does can make the SA drop a packet it never saw.          *)
WindowExact ==
    /\ TypeOK
    /\ Window # 0 =>
           \A s \in Seqs : window.last - s < Window =>
               (Check(window, s) <=> accepted[s] = 0)

(* What makes the two inductive: numbers accepted are at most once         *)
(* accepted and not ahead of the window's edge, and inside the window a    *)
(* number's bit, at its value modulo the window, says whether it was.      *)
Exact ==
    Window # 0 =>
        /\ window.last = 0 => window.mask = {}
        /\ \A s \in 0..MaxSeq : /\ accepted[s] <= 1
                                /\ delivered[s] <= accepted[s]
                                /\ accepted[s] > 0 => s \in 1..window.last
        /\ \A s \in 1..window.last :
               window.last - s < Window =>
                   (accepted[s] > 0 <=> (s - 1) % Window \in window.mask)
        /\ window.last # 0 => accepted[window.last] > 0

(* The bitmap implements the set of accepted numbers.                      *)
Abstract == INSTANCE AntiReplay WITH seen <- {s \in Seqs : accepted[s] > 0}
Refines == Abstract!Spec
=============================================================================
