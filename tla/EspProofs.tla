------------------------------ MODULE EspProofs ------------------------------
(***************************************************************************)
(* ESP both ways.  No sequence number is used twice under one key, for any *)
(* number of senders, batch sizes and SAs and any width of the counter.    *)
(* And the parallel receiver commits batches in the order in which they    *)
(* were queued, for any number of workers, receive loops and batches.      *)
(***************************************************************************)
EXTENDS EspOutbound, EspReceive, FiniteSetTheorems, WellFoundedInduction, TLAPS

Stand == [at : {"idle", "loaded", "ask", "floor", "holds"}, sa : SAs \cup {NoSA},
          first : 0..MaxSeq, end : 0..MaxSeq]

\* What the argument needs of the types.
Types ==
    /\ outbound \in SAs \cup {NoSA}
    /\ seq \in [SAs -> 0..Exhausted]
    /\ sealed \in [SAs -> SUBSET (1..MaxSeq)]
    /\ sender \in [Senders -> Stand]

\* A range is held on an SA whose counter has passed it; no range, no number.
Ranges ==
    \A s \in Senders :
        /\ sender[s].end = 0 => sender[s].first = 0
        /\ sender[s].end # 0 => /\ sender[s].sa \in SAs
                                /\ 1 <= sender[s].first
                                /\ sender[s].end <= seq[sender[s].sa]
        /\ sender[s].at = "loaded" => sender[s].sa \in SAs /\ sender[s].end = 0
        /\ sender[s].at = "holds" => sender[s].end # 0

\* NonceOnce is not inductive: that a new range is fresh rests on the counter
\* being past every number sealed or held, through replacement and retirement.
Handed == Types /\ Ranges /\ NeverCycles /\ NonceOnce

LEMMA NoSAApart == OutboundAssumption => NoSA \notin SAs
    BY Zenon DEF OutboundAssumption, NoSA

LEMMA HandedInit == OutboundAssumption /\ Init => Handed
<1> SUFFICES ASSUME OutboundAssumption, Init
             PROVE  Handed
    BY Zenon
<1>1. First \in SAs
    BY Zenon DEF OutboundAssumption, First
<1>2. Types
    BY <1>1 DEF Init, Types, Stand, Idle, Exhausted, OutboundAssumption
<1>3. \A s \in Senders : sender[s].end = 0 /\ sender[s].first = 0 /\ sender[s].at = "idle"
    BY Zenon DEF Init, Idle
<1>4. Ranges /\ NonceOnce
    BY <1>3, Zenon DEF Ranges, NonceOnce
<1>5. NeverCycles
    BY Zenon DEF Init, NeverCycles
<1> QED
    BY <1>2, <1>4, <1>5, Zenon DEF Handed

(* What Account leaves of an SA that somebody refers to, and of one that   *)
(* nobody does.                                                            *)
LEMMA AccountKeeps ==
    ASSUME NEW numbers \in [SAs -> 0..Exhausted], NEW used \in [SAs -> SUBSET (1..MaxSeq)],
           OutboundAssumption, Account(numbers, used)
    PROVE  /\ seq' \in [SAs -> 0..Exhausted] /\ sealed' \in [SAs -> SUBSET (1..MaxSeq)]
           /\ \A sa \in SAs :
                \/ seq'[sa] = numbers[sa] /\ sealed'[sa] = used[sa]
                \/ seq'[sa] = 0 /\ sealed'[sa] = {} /\ \A s \in Senders : sender'[s].sa # sa
           /\ \A s \in Senders : sender'[s].sa \in SAs =>
                /\ seq'[sender'[s].sa] = numbers[sender'[s].sa]
                /\ sealed'[sender'[s].sa] = used[sender'[s].sa]
    BY DEF Account, Kept, Exhausted, OutboundAssumption

(* A step in which every sender keeps its range or has none, and an SA's   *)
(* numbers are kept, passed over, or forgotten with the SA.                *)
LEMMA RangesKept ==
    ASSUME OutboundAssumption, Handed, Types',
           \A s \in Senders :
               /\ \/ /\ sender'[s].sa = sender[s].sa /\ sender'[s].first = sender[s].first
                     /\ sender'[s].end = sender[s].end
                  \/ sender'[s].first = 0 /\ sender'[s].end = 0
               /\ sender'[s].at = "loaded" => sender'[s].sa \in SAs /\ sender'[s].end = 0
               /\ sender'[s].at = "holds" => sender'[s].end # 0,
           \A sa \in SAs :
               \/ seq'[sa] >= seq[sa] /\ sealed'[sa] = sealed[sa]
               \/ sealed'[sa] = {} /\ \A s \in Senders : sender'[s].sa # sa
    PROVE  Handed'
<1>1. Ranges'
    <2>1. ASSUME NEW s \in Senders, sender'[s].end # 0
          PROVE  /\ sender'[s].sa \in SAs /\ 1 <= sender'[s].first
                 /\ sender'[s].end <= seq'[sender'[s].sa]
        <3>1. /\ sender'[s].sa = sender[s].sa /\ sender'[s].first = sender[s].first
              /\ sender'[s].end = sender[s].end
            BY <2>1, Zenon
        <3>2. /\ sender[s].sa \in SAs /\ 1 <= sender[s].first
              /\ sender[s].end <= seq[sender[s].sa]
            BY <2>1, <3>1, Zenon DEF Handed, Ranges
        <3>3. seq'[sender[s].sa] >= seq[sender[s].sa]
            BY <3>1, <3>2, Zenon
        <3>4. /\ seq[sender[s].sa] \in Int /\ seq'[sender[s].sa] \in Int
              /\ sender[s].end \in Int
            BY <3>2 DEF Handed, Types, Stand
        <3> QED
            BY <3>1, <3>2, <3>3, <3>4
    <2>2. \A s \in Senders : sender'[s].end = 0 => sender'[s].first = 0
        BY Zenon DEF Handed, Ranges
    <2> QED
        BY <2>1, <2>2, Zenon DEF Ranges
<1>2. NeverCycles'
    BY DEF Handed, NeverCycles, Types, Exhausted, OutboundAssumption
<1>3. NonceOnce'
    <2> SUFFICES ASSUME NEW s \in Senders, sender'[s].end # 0
                 PROVE  /\ Numbers(s)' \cap sealed'[sender'[s].sa] = {}
                        /\ \A t \in Senders \ {s} :
                               sender'[t].sa = sender'[s].sa => Numbers(s)' \cap Numbers(t)' = {}
        BY Zenon DEF NonceOnce
    <2>1. /\ sender'[s].sa = sender[s].sa /\ sender[s].sa \in SAs /\ sender[s].end # 0
          /\ 1 <= sender[s].first /\ Numbers(s)' = Numbers(s)
        BY Zenon DEF Handed, Ranges, Numbers
    <2>2. sealed'[sender'[s].sa] = sealed[sender[s].sa]
        BY <2>1, Zenon
    <2>3. ASSUME NEW t \in Senders \ {s}, sender'[t].sa = sender'[s].sa
          PROVE  Numbers(s)' \cap Numbers(t)' = {}
        <3>1. CASE sender'[t].sa = sender[t].sa /\ Numbers(t)' = Numbers(t)
            BY <2>1, <2>3, <3>1 DEF Handed, NonceOnce
        <3>2. CASE Numbers(t)' = 0..0
            BY <2>1, <3>2 DEF Numbers, Handed, Types, Stand
        <3> QED
            BY <3>1, <3>2, Zenon DEF Numbers
    <2> QED
        BY <2>1, <2>2, <2>3, Zenon DEF Handed, NonceOnce
<1> QED
    BY <1>1, <1>2, <1>3, Zenon DEF Handed

LEMMA ReserveHands ==
    ASSUME OutboundAssumption, Handed, NEW s \in Senders, NEW n \in Counts, Reserve(s, n)
    PROVE  Handed'
<1> DEFINE sa == sender[s].sa
           r == SequenceRange(sa, n)
           numbers == [seq EXCEPT ![sa] = IF r.end > MaxSeq THEN Exhausted ELSE r.end]
<1>1. /\ sa \in SAs /\ sender[s].end = 0 /\ sender[s].at = "loaded"
      /\ UNCHANGED outbound /\ Account(numbers, sealed)
    BY Zenon DEF Reserve, Handed, Ranges, tables
<1>2. /\ n \in Nat \ {0} /\ MaxSeq \in Nat /\ seq[sa] \in 0..Exhausted
      /\ r.first = seq[sa] + 1 /\ r.end = seq[sa] + n
    BY <1>1, Zenon DEF OutboundAssumption, Handed, Types, SequenceRange
<1>3. numbers \in [SAs -> 0..Exhausted] /\ numbers[sa] >= seq[sa]
    BY <1>1, <1>2 DEF Handed, Types, Exhausted
<1>4. \A x \in SAs : numbers[x] >= seq[x]
    BY <1>1, <1>3 DEF Handed, Types
<1>5. sealed \in [SAs -> SUBSET (1..MaxSeq)]
    BY Zenon DEF Handed, Types
<1> HIDE DEF numbers
<1>6. /\ seq' \in [SAs -> 0..Exhausted] /\ sealed' \in [SAs -> SUBSET (1..MaxSeq)]
      /\ \A x \in SAs :
           \/ seq'[x] = numbers[x] /\ sealed'[x] = sealed[x]
           \/ seq'[x] = 0 /\ sealed'[x] = {} /\ \A t \in Senders : sender'[t].sa # x
      /\ \A t \in Senders : sender'[t].sa \in SAs =>
           /\ seq'[sender'[t].sa] = numbers[sender'[t].sa]
           /\ sealed'[sender'[t].sa] = sealed[sender'[t].sa]
    BY <1>1, <1>3, <1>5, AccountKeeps
<1>7. CASE r.end > MaxSeq
    <2>1. sender' = [sender EXCEPT ![s] = [at |-> "ask", sa |-> NoSA, first |-> 0, end |-> 0]]
        <3>1. [Idle EXCEPT !.at = "ask"] = [at |-> "ask", sa |-> NoSA, first |-> 0, end |-> 0]
            BY DEF Idle
        <3> QED
            BY <1>7, <3>1, Zenon DEF Reserve, Cycles
    <2>2. Types'
        BY <1>1, <1>2, <1>6, <2>1 DEF Handed, Types, Stand
    <2>3. \A t \in Senders :
              /\ t # s => sender'[t] = sender[t]
              /\ sender'[s].first = 0 /\ sender'[s].end = 0 /\ sender'[s].at = "ask"
        BY <2>1, Zenon DEF Handed, Types
    <2>4. \A x \in SAs :
              \/ seq'[x] >= seq[x] /\ sealed'[x] = sealed[x]
              \/ sealed'[x] = {} /\ \A t \in Senders : sender'[t].sa # x
        BY <1>4, <1>6, Zenon
    <2>5. \A t \in Senders :
              /\ \/ /\ sender'[t].sa = sender[t].sa /\ sender'[t].first = sender[t].first
                    /\ sender'[t].end = sender[t].end
                 \/ sender'[t].first = 0 /\ sender'[t].end = 0
              /\ sender'[t].at = "loaded" => sender'[t].sa \in SAs /\ sender'[t].end = 0
              /\ sender'[t].at = "holds" => sender'[t].end # 0
        BY <2>3, Zenon DEF Handed, Ranges
    <2> QED
        BY <2>2, <2>4, <2>5, RangesKept, Zenon
<1>8. CASE ~(r.end > MaxSeq)
    <2>1. /\ \A t \in Senders \ {s} : sender'[t] = sender[t]
          /\ sender'[s].sa = sa /\ sender'[s].first = r.first /\ sender'[s].end = r.end
          /\ sender'[s].at \in {"ask", "holds"}
        BY <1>8, Zenon DEF Reserve, Cycles, Handed, Types
    <2>2. numbers[sa] = r.end /\ \A x \in SAs \ {sa} : numbers[x] = seq[x]
        BY <1>1, <1>8, Zenon DEF numbers, Handed, Types
    <2>3. r.first \in 1..MaxSeq /\ r.end \in 1..MaxSeq /\ r.first <= r.end
        BY <1>2, <1>8 DEF Exhausted
    <2>4. Types'
        <3>1. sender' \in [Senders -> Stand]
            BY <1>1, <1>2, <1>8, <2>3 DEF Reserve, Cycles, Handed, Types, Stand
        <3> QED
            BY <1>1, <1>6, <3>1, Zenon DEF Handed, Types
    <2> HIDE DEF r
    <2>5. seq'[sa] = r.end /\ sealed'[sa] = sealed[sa]
        BY <1>1, <1>6, <2>1, <2>2, Zenon
    <2>6. Ranges'
        <3>1. ASSUME NEW t \in Senders \ {s}, sender[t].end # 0
              PROVE  sender[t].end <= seq'[sender[t].sa]
            <4>1. sender[t].sa \in SAs /\ sender[t].end <= seq[sender[t].sa]
                BY <3>1, Zenon DEF Handed, Ranges
            <4>2. seq'[sender[t].sa] >= seq[sender[t].sa]
                BY <1>4, <1>6, <2>1, <4>1, Zenon
            <4>3. /\ seq[sender[t].sa] \in Int /\ seq'[sender[t].sa] \in Int
                  /\ sender[t].end \in Int
                BY <1>6, <4>1 DEF Handed, Types, Stand
            <4> QED
                BY <4>1, <4>2, <4>3
        <3> QED
            BY <1>1, <2>1, <2>3, <2>5, <3>1 DEF Handed, Ranges
    <2>7. NeverCycles'
        BY <1>2, <1>4, <1>6 DEF Handed, NeverCycles, Types, Exhausted
    <2>8. \A t \in Senders \ {s} :
              /\ Numbers(t)' = Numbers(t) /\ sender'[t].sa = sender[t].sa
              /\ sender'[t].end = sender[t].end
        BY <2>1, Zenon DEF Numbers
    <2>9. Numbers(s)' = r.first .. r.end
        BY <2>1, Zenon DEF Numbers
    <2>10. Numbers(s)' \cap sealed'[sa] = {}
        BY <1>1, <1>2, <2>3, <2>5, <2>9 DEF Handed, NeverCycles, r
    <2>11. ASSUME NEW t \in Senders \ {s}, sender[t].sa = sa
           PROVE  Numbers(s)' \cap Numbers(t)' = {}
        <3>1. sender[t].end <= seq[sa] /\ sender[t].end \in Int /\ sender[t].first \in Int
            BY <1>1, <1>2, <2>11 DEF Handed, Ranges, Types, Stand
        <3>2. r.first > sender[t].end
            BY <1>2, <3>1 DEF r
        <3>3. Numbers(t)' = sender[t].first .. sender[t].end
            BY <2>8, Zenon DEF Numbers
        <3> QED
            BY <2>3, <2>9, <3>1, <3>2, <3>3
    <2>12. ASSUME NEW t \in Senders \ {s}, sender[t].end # 0
           PROVE  Numbers(t)' \cap sealed'[sender'[t].sa] = {}
        BY <1>6, <2>8, <2>12 DEF Handed, NonceOnce, Ranges
    <2>13. NonceOnce'
        BY <2>1, <2>8, <2>10, <2>11, <2>12 DEF Handed, NonceOnce
    <2> QED
        BY <2>4, <2>6, <2>7, <2>13, Zenon DEF Handed
<1> QED
    BY <1>7, <1>8, Zenon

LEMMA SealKeeps ==
    ASSUME OutboundAssumption, Handed, NEW s \in Senders, Seal(s)
    PROVE  Handed'
<1> DEFINE sa == sender[s].sa
           used == [sealed EXCEPT ![sa] = @ \cup Numbers(s)]
<1>1. /\ sa \in SAs /\ sender[s].end # 0 /\ 1 <= sender[s].first
      /\ sender[s].end <= seq[sa] /\ UNCHANGED outbound /\ Account(seq, used)
    BY Zenon DEF Seal, Handed, Ranges, tables
<1>2. /\ sender[s].first \in 0..MaxSeq /\ sender[s].end \in 0..MaxSeq /\ MaxSeq \in Nat
      /\ seq[sa] \in 0..Exhausted
    BY <1>1, Zenon DEF OutboundAssumption, Handed, Types, Stand
<1>3. \A x \in Numbers(s) : x \in 1..MaxSeq /\ x <= seq[sa]
    BY <1>1, <1>2 DEF Numbers, Exhausted
<1>4. /\ seq \in [SAs -> 0..Exhausted] /\ used \in [SAs -> SUBSET (1..MaxSeq)]
      /\ used[sa] = sealed[sa] \cup Numbers(s) /\ \A x \in SAs \ {sa} : used[x] = sealed[x]
    BY <1>1, <1>3, Zenon DEF Handed, Types
<1> HIDE DEF used
<1>5. /\ seq' \in [SAs -> 0..Exhausted] /\ sealed' \in [SAs -> SUBSET (1..MaxSeq)]
      /\ \A x \in SAs :
           \/ seq'[x] = seq[x] /\ sealed'[x] = used[x]
           \/ seq'[x] = 0 /\ sealed'[x] = {} /\ \A t \in Senders : sender'[t].sa # x
      /\ \A t \in Senders : sender'[t].sa \in SAs =>
           /\ seq'[sender'[t].sa] = seq[sender'[t].sa]
           /\ sealed'[sender'[t].sa] = used[sender'[t].sa]
    BY <1>1, <1>4, AccountKeeps
<1>6. /\ \A t \in Senders \ {s} : sender'[t] = sender[t]
      /\ sender'[s] = [at |-> "idle", sa |-> NoSA, first |-> 0, end |-> 0]
      /\ sender' \in [Senders -> Stand]
    BY <1>2 DEF Seal, Idle, Handed, Types, Stand
<1>7. Types'
    BY <1>1, <1>5, <1>6, Zenon DEF Handed, Types
<1>8. Ranges'
    <2>1. \A t \in Senders \ {s} : sender[t].end # 0 => sender[t].end <= seq'[sender[t].sa]
        BY <1>5, <1>6, Zenon DEF Handed, Ranges
    <2> QED
        BY <1>6, <2>1 DEF Handed, Ranges
<1>9. NeverCycles'
    <2> SUFFICES ASSUME NEW x \in SAs, NEW k \in sealed'[x]
                 PROVE  k \in 1..MaxSeq /\ k <= seq'[x]
        BY Zenon DEF NeverCycles
    <2>1. seq'[x] = seq[x] /\ k \in used[x]
        BY <1>5, Zenon
    <2> QED
        BY <1>3, <1>4, <2>1, Zenon DEF Handed, NeverCycles
<1>10. NonceOnce'
    <2> SUFFICES ASSUME NEW t \in Senders, sender'[t].end # 0
                 PROVE  /\ Numbers(t)' \cap sealed'[sender'[t].sa] = {}
                        /\ \A u \in Senders \ {t} :
                               sender'[u].sa = sender'[t].sa => Numbers(t)' \cap Numbers(u)' = {}
        BY Zenon DEF NonceOnce
    <2>1. /\ t # s /\ sender'[t] = sender[t] /\ Numbers(t)' = Numbers(t)
          /\ sender[t].sa \in SAs /\ sender[t].end # 0
        BY <1>6 DEF Numbers, Handed, Ranges
    <2>2. sealed'[sender'[t].sa] = used[sender[t].sa]
        BY <1>5, <2>1, Zenon
    <2>3. Numbers(t)' \cap sealed'[sender'[t].sa] = {}
        <3>1. Numbers(t) \cap sealed[sender[t].sa] = {}
            BY <2>1, Zenon DEF Handed, NonceOnce
        <3>2. sender[t].sa = sa => Numbers(t) \cap Numbers(s) = {}
            BY <2>1, Zenon DEF Handed, NonceOnce
        <3> QED
            BY <1>4, <2>1, <2>2, <3>1, <3>2, Zenon
    <2>4. ASSUME NEW u \in Senders \ {t}, sender'[u].sa = sender'[t].sa
          PROVE  Numbers(t)' \cap Numbers(u)' = {}
        <3>1. u # s
            BY <1>6, <2>1, <2>4, NoSAApart
        <3> QED
            BY <1>6, <2>1, <2>4, <3>1, Zenon DEF Numbers, Handed, NonceOnce
    <2> QED
        BY <2>3, <2>4, Zenon
<1> QED
    BY <1>7, <1>8, <1>9, <1>10, Zenon DEF Handed

(* The ranges of a step that leaves every sender but one alone, and gives  *)
(* that one no numbers it did not have.                                    *)
LEMMA HandedStep ==
    ASSUME OutboundAssumption, Handed, [Next]_vars
    PROVE  Handed'
<1> DEFINE Same(s) ==
               /\ \/ /\ sender'[s].sa = sender[s].sa /\ sender'[s].first = sender[s].first
                     /\ sender'[s].end = sender[s].end
                  \/ sender'[s].first = 0 /\ sender'[s].end = 0
               /\ sender'[s].at = "loaded" => sender'[s].sa \in SAs /\ sender'[s].end = 0
               /\ sender'[s].at = "holds" => sender'[s].end # 0
<1>1. ASSUME NEW s \in Senders, Load(s) PROVE Handed'
    <2>1. /\ \A t \in Senders \ {s} : sender'[t] = sender[t]
          /\ sender'[s] = [at |-> IF outbound = NoSA THEN "ask" ELSE "loaded", sa |-> outbound,
                           first |-> 0, end |-> 0]
        BY <1>1, Zenon DEF Load, Idle, Handed, Types
    <2>2. UNCHANGED <<outbound, seq, sealed>>
        BY <1>1, Zenon DEF Load, tables
    <2>3. sender' \in [Senders -> Stand]
        BY <1>1, Zenon DEF Load, Idle, Handed, Types, Stand, OutboundAssumption
    <2>4. Types'
        BY <2>2, <2>3, Zenon DEF Handed, Types
    <2>5. \A t \in Senders : Same(t)
        BY <2>1 DEF Handed, Ranges, Types
    <2>6. \A sa \in SAs : seq'[sa] >= seq[sa] /\ sealed'[sa] = sealed[sa]
        BY <2>2 DEF Handed, Types
    <2> QED
        BY <2>4, <2>5, <2>6, RangesKept, Zenon
<1>2. ASSUME NEW s \in Senders, Ask(s) \/ Floor(s) PROVE Handed'
    <2>1. /\ sender[s].at \in {"ask", "floor"}
          /\ \/ sender' = After(s)
             \/ sender' = [sender EXCEPT ![s].at = "floor"]
        BY <1>2, Zenon DEF Ask, Floor
    <2>2. UNCHANGED <<outbound, seq, sealed>>
        BY <1>2, Zenon DEF Ask, Floor, tables
    <2>3. sender' \in [Senders -> Stand]
        BY <2>1 DEF After, Idle, Handed, Types, Stand, OutboundAssumption
    <2>4. Types'
        BY <2>2, <2>3, Zenon DEF Handed, Types
    <2>5. \A t \in Senders : Same(t)
        BY <2>1 DEF After, Idle, Handed, Ranges, Types, Stand
    <2>6. \A sa \in SAs : seq'[sa] >= seq[sa] /\ sealed'[sa] = sealed[sa]
        BY <2>2 DEF Handed, Types
    <2> QED
        BY <2>4, <2>5, <2>6, RangesKept, Zenon
<1>3. ASSUME NEW spi \in SAs, Retire(spi) PROVE Handed'
    <2>1. outbound' \in SAs \cup {NoSA} /\ UNCHANGED sender /\ Account(seq, sealed)
        BY <1>3, Zenon DEF Retire, Handed, Types
    <2>2. /\ seq' \in [SAs -> 0..Exhausted] /\ sealed' \in [SAs -> SUBSET (1..MaxSeq)]
          /\ \A sa \in SAs :
                \/ seq'[sa] = seq[sa] /\ sealed'[sa] = sealed[sa]
                \/ seq'[sa] = 0 /\ sealed'[sa] = {} /\ \A s \in Senders : sender'[s].sa # sa
        BY <2>1, AccountKeeps, Zenon DEF Handed, Types
    <2>3. Types'
        BY <2>1, <2>2, Zenon DEF Handed, Types
    <2>4. \A t \in Senders : Same(t)
        BY <2>1, Zenon DEF Handed, Ranges
    <2>5. \A sa \in SAs :
              \/ seq'[sa] >= seq[sa] /\ sealed'[sa] = sealed[sa]
              \/ sealed'[sa] = {} /\ \A s \in Senders : sender'[s].sa # sa
        BY <2>2 DEF Types, Handed
    <2> QED
        BY <2>3, <2>4, <2>5, RangesKept, Zenon
<1>4. CASE outbound' \in SAs \cup {NoSA} /\ UNCHANGED <<seq, sealed, sender>>
    <2>1. Types' /\ \A t \in Senders : Same(t)
        BY <1>4, Zenon DEF Handed, Types, Ranges
    <2>2. \A sa \in SAs : seq'[sa] >= seq[sa] /\ sealed'[sa] = sealed[sa]
        BY <1>4 DEF Handed, Types
    <2> QED
        BY <2>1, <2>2, RangesKept, Zenon
<1>5. CASE RekeyInstalls \/ Install
    BY <1>4, <1>5, Zenon DEF RekeyInstalls, Install, Installs, Unused
<1>6. CASE IntervalPasses \/ RekeyReturns \/ UNCHANGED vars
    BY <1>4, <1>6, Zenon DEF IntervalPasses, RekeyReturns, vars, tables, Handed, Types
<1> QED
    BY <1>1, <1>2, <1>3, <1>5, <1>6, ReserveHands, SealKeeps, Zenon DEF Next, Step

\* However many goroutines reserve and seal at once and however often the SA is
\* replaced or retired under them, no number is used twice under one key, and
\* none past the end of the 32-bit space (reserveSequenceNumbers, SealBatchInto,
\* tunnel.install, tunnel.retire).
THEOREM NoncesOnce == OutboundAssumption => (Spec => [](NonceOnce /\ NeverCycles))
<1> SUFFICES ASSUME OutboundAssumption
             PROVE  Spec => [](NonceOnce /\ NeverCycles)
    BY Zenon
<1>1. Init => Handed
    BY HandedInit, Zenon
<1>2. Handed /\ [Next]_vars => Handed'
    BY HandedStep, Zenon
<1>3. Handed => NonceOnce /\ NeverCycles
    BY Zenon DEF Handed
<1> QED
    BY <1>1, <1>2, <1>3, PTL DEF Spec

----------------------------------------------------------------------------
(* The guard of requestRekey.                                              *)

\* rekeying is a token: the sender past the first atomic has it, or the
\* goroutine it started.
OneAsker ==
    /\ sender \in [Senders -> Stand]
    /\ rekey # "none" => rekeying
    /\ \A s \in Senders : sender[s].at = "floor" =>
         /\ rekeying /\ rekey = "none"
         /\ \A t \in Senders \ {s} : sender[t].at # "floor"
    /\ outbound # NoSA => outbound \in inbound

LEMMA OneAskerInit == OutboundAssumption /\ Init => OneAsker
<1> SUFFICES ASSUME OutboundAssumption, Init
             PROVE  OneAsker
    BY Zenon
<1>1. Types
    BY HandedInit, Zenon DEF Handed
<1>2. \A s \in Senders : sender[s].at = "idle"
    BY Zenon DEF Init, Idle
<1> QED
    BY <1>1, <1>2, Zenon DEF Init, OneAsker, Types

LEMMA OneAskerStep ==
    ASSUME OutboundAssumption, Handed, OneAsker, Handed', [Next]_vars
    PROVE  OneAsker'
<1> USE DEF OneAsker
<1>1. sender' \in [Senders -> Stand]
    BY Zenon DEF Handed, Types
<1>2. ASSUME NEW s \in Senders, Load(s) \/ Seal(s) \/ \E n \in Counts : Reserve(s, n)
      PROVE  OneAsker'
    <2>1. (\A t \in Senders \ {s} : sender'[t] = sender[t]) /\ sender'[s].at # "floor"
        <3>1. CASE Load(s)
            BY <3>1, Zenon DEF Load, Idle
        <3>2. CASE Seal(s)
            BY <3>2, Zenon DEF Seal, Idle
        <3>3. ASSUME NEW n \in Counts, Reserve(s, n)
              PROVE  (\A t \in Senders \ {s} : sender'[t] = sender[t]) /\ sender'[s].at # "floor"
            BY <3>3, Zenon DEF Reserve, Idle
        <3> QED
            BY <1>2, <3>1, <3>2, <3>3, Zenon
    <2>2. UNCHANGED <<outbound, inbound, rekeying, rekey>>
        BY <1>2, Zenon DEF Load, Seal, Reserve, tables, guards
    <2> QED
        BY <1>1, <2>1, <2>2, Zenon
<1>3. ASSUME NEW s \in Senders, Ask(s) PROVE OneAsker'
    <2>1. /\ \A t \in Senders \ {s} : sender'[t] = sender[t]
          /\ rekeying => sender'[s].at # "floor"
        BY <1>3 DEF Ask, After, Idle
    <2>2. UNCHANGED <<outbound, inbound, rekey>> /\ rekeying'
        BY <1>3, Zenon DEF Ask, tables
    <2> QED
        BY <1>1, <2>1, <2>2, Zenon
<1>4. ASSUME NEW s \in Senders, Floor(s) PROVE OneAsker'
    <2>1. /\ \A t \in Senders \ {s} : sender'[t] = sender[t]
          /\ sender'[s].at # "floor" /\ sender[s].at = "floor"
        BY <1>4 DEF Floor, After, Idle
    <2>2. UNCHANGED <<outbound, inbound>> /\ (rekey' # "none" => rekeying')
        BY <1>4, Zenon DEF Floor, tables
    <2> QED
        BY <1>1, <2>1, <2>2, Zenon
<1>5. CASE RekeyInstalls \/ Install
    BY <1>1, <1>5, Zenon DEF RekeyInstalls, Install, Installs, guards
<1>6. CASE RekeyReturns
    BY <1>1, <1>6, Zenon DEF RekeyReturns, tables
<1>7. ASSUME NEW spi \in SAs, Retire(spi) PROVE OneAsker'
    BY <1>1, <1>7, Zenon DEF Retire, guards
<1>8. CASE IntervalPasses \/ UNCHANGED vars
    BY <1>1, <1>8, Zenon DEF IntervalPasses, vars, tables
<1> QED
    BY <1>2, <1>3, <1>4, <1>5, <1>6, <1>7, <1>8, Zenon DEF Next, Step

\* The tunnel sends only on an SA whose inbound half is installed, and no second
\* rekey runs beside one (tunnel.requestRekey, tunnel.install, tunnel.retire).
THEOREM AlwaysPaired == OutboundAssumption => (Spec => []Paired)
<1> SUFFICES ASSUME OutboundAssumption
             PROVE  Spec => []Paired
    BY Zenon
<1>1. Init => Handed /\ OneAsker
    BY HandedInit, OneAskerInit, Zenon
<1>2. Handed /\ OneAsker /\ [Next]_vars => Handed' /\ OneAsker'
    BY HandedStep, OneAskerStep, Zenon
<1>3. OneAsker => Paired
    BY Zenon DEF OneAsker, Paired
<1> QED
    BY <1>1, <1>2, <1>3, PTL DEF Spec

----------------------------------------------------------------------------
(* The rest of the types, and all of it together.                          *)

Rest ==
    /\ inbound \subseteq SAs /\ {rekeying, recent} \subseteq BOOLEAN
    /\ rekey \in {"none", "negotiates", "installed"} /\ failures \in 0..Failures

LEMMA MinUnused ==
    ASSUME OutboundAssumption, NEW sa, Installs(sa)
    PROVE  sa \in SAs
    BY Zenon DEF Installs, Unused

LEMMA RestStep ==
    ASSUME OutboundAssumption, Rest, [Next]_vars
    PROVE  Rest'
<1> USE DEF Rest
<1>0. Failures \in Nat
    BY Zenon DEF OutboundAssumption
<1>1. ASSUME NEW s \in Senders, Load(s) \/ Step(s) PROVE Rest'
    BY <1>1, Zenon DEF Load, Step, Seal, Ask, Floor, Reserve, tables, guards
<1>2. ASSUME NEW spi \in SAs, Retire(spi) PROVE Rest'
    BY <1>0, <1>2 DEF Retire, guards
<1>3. CASE IntervalPasses
    BY <1>3, Zenon DEF IntervalPasses, tables
<1>4. CASE RekeyInstalls
    BY <1>4, MinUnused, Zenon DEF RekeyInstalls, Installs
<1>5. CASE RekeyReturns
    <2>1. failures' \in 0..Failures
        BY <1>0, <1>5 DEF RekeyReturns
    <2>2. {rekeying', recent'} \subseteq BOOLEAN
        BY <1>5, Zenon DEF RekeyReturns
    <2> QED
        BY <1>5, <2>1, <2>2, Zenon DEF RekeyReturns, tables
<1>6. CASE Install
    BY <1>0, <1>6, MinUnused DEF Install, Installs, guards
<1>7. CASE UNCHANGED vars
    BY <1>7, Zenon DEF vars
<1> QED
    BY <1>1, <1>2, <1>3, <1>4, <1>5, <1>6, <1>7, Zenon DEF Next

\* No number is sealed twice under one SA or past the end of the space, and the
\* tunnel sends only on an SA it can also receive on (tunnel.reserve,
\* OutboundSA.reserveSequenceNumbers, tunnel.requestRekey).
THEOREM NumbersOnceTheorem == OutboundAssumption => (Spec => []NumbersOnce)
<1> SUFFICES ASSUME OutboundAssumption
             PROVE  Spec => []NumbersOnce
    BY Zenon
<1>1. Init => Handed /\ OneAsker /\ Rest
    <2> SUFFICES ASSUME Init PROVE Rest
        BY HandedInit, OneAskerInit, Zenon
    <2>1. First \in SAs
        BY Zenon DEF OutboundAssumption, First
    <2>2. inbound \subseteq SAs /\ failures \in 0..Failures
        BY <2>1 DEF Init, OutboundAssumption
    <2>3. {rekeying, recent} \subseteq BOOLEAN
        BY Zenon DEF Init
    <2> QED
        BY <2>2, <2>3, Zenon DEF Init, Rest
<1>2. Handed /\ OneAsker /\ Rest /\ [Next]_vars => Handed' /\ OneAsker' /\ Rest'
    BY HandedStep, OneAskerStep, RestStep, Zenon
<1>3. Handed /\ OneAsker /\ Rest => NumbersOnce
    BY Zenon DEF Handed, Types, Stand, OneAsker, Paired, Rest, TypeOK, NumbersOnce
<1> QED
    BY <1>1, <1>2, <1>3, PTL DEF Spec

-----------------------------------------------------------------------------
(* The receive pipeline.                                                   *)

\* The ticket of the batch at the front of espCh, or of the one to come.
Lead == espTicket - Len(espCh)
Carries(w) == worker[w].pc \in {"take", "decrypt"}
Ticket(w) == worker[w].batch.ticket
Occupied == {w \in Workers : worker[w].pc \in {"recv", "take", "decrypt"}}

Batch == [ticket : Nat, bytes : Sizes]
Working == [pc : {"take", "decrypt"}, batch : Batch] \cup [pc : {"free", "recv", "exited"}]

PipeTypes ==
    /\ espCh \in Seq(Batch) /\ espTicket \in Nat /\ Len(espCh) <= espTicket
    /\ worker \in [Workers -> Working]
    /\ completed \in SUBSET Nat
    /\ emitter \in [pc : {"wait", "emit"}, pending : SUBSET Nat, next : Nat, merged : Seq(Nat)]
    /\ emitted \in Seq(Nat)
    /\ free \in Int
    /\ receiver \in {"wait", "join", "drain", "returned"}

\* Every ticket from next on that has left espCh is with one worker, in
\* completed or in pending, and the one at next is not in pending: else the
\* emitter would sleep on a batch it has.
Placed ==
    /\ \A i \in 1..Len(espCh) : espCh[i].ticket = Lead + i - 1
    /\ emitter.next <= Lead
    /\ \A w \in Workers : Carries(w) => /\ Ticket(w) \in emitter.next .. Lead - 1
                                        /\ Ticket(w) \notin completed \cup emitter.pending
    /\ \A v, w \in Workers : Carries(v) /\ Carries(w) /\ Ticket(v) = Ticket(w) => v = w
    /\ completed \cap emitter.pending = {}
    /\ completed \cup emitter.pending \subseteq emitter.next .. Lead - 1
    /\ \A t \in emitter.next .. Lead - 1 :
         t \in completed \cup emitter.pending \/ \E w \in Workers : Carries(w) /\ Ticket(w) = t
    /\ emitter.next \notin emitter.pending

\* The tickets below next are those emitted and those about to be, in order.
Ordered ==
    /\ Len(emitted) + Len(emitter.merged) = emitter.next
    /\ \A i \in 1..Len(emitted) : emitted[i] = i - 1
    /\ \A i \in 1..Len(emitter.merged) : emitter.merged[i] = Len(emitted) + i - 1
    /\ emitter.pc = "wait" => emitter.merged = <<>>

\* Every batch buffer is free or accounted for.
Pooled ==
    free + Cardinality(Occupied) + Cardinality(completed) + Cardinality(emitter.pending)
        = 2 * Cardinality(Workers)

Closing ==
    /\ receiver \in {"drain", "returned"} => \A w \in Workers : worker[w].pc = "exited"
    /\ receiver = "returned" => completed = {} /\ emitter.pc = "wait"

Pipeline == PipeTypes /\ Placed /\ Ordered /\ Pooled /\ Closing

\* The run that the emitter merges ends at the first ticket that is missing.
LEMMA RunEnds ==
    ASSUME NEW n \in Nat, NEW k \in Nat, n <= k, NEW S \in SUBSET (n .. k - 1)
    PROVE  \E stop \in n..k : /\ Run(S, n) = n .. stop - 1
                              /\ n .. stop - 1 \subseteq S /\ stop \notin S
<1> DEFINE T == {t \in n..k : t \notin S}
<1>1. T \in SUBSET Nat /\ T # {}
    <2>1. k \in T
        OBVIOUS
    <2> QED
        BY <2>1
<1>2. PICK m \in T : \A t \in T : <<t, m>> \notin OpToRel(<, Nat)
    BY <1>1, NatLessThanWellFounded, WFMin, Zenon
<1>3. \A t \in T : ~(t < m)
    BY <1>1, <1>2, Zenon DEF OpToRel
<1>4. n .. m - 1 \subseteq S
    BY <1>3
<1>5. Run(S, n) = n .. m - 1
    <2>1. ASSUME NEW t \in S, \A u \in n..t : u \in S PROVE t \in n .. m - 1
        BY <2>1
    <2>2. ASSUME NEW t \in n .. m - 1 PROVE t \in S /\ \A u \in n..t : u \in S
        BY <1>4, <2>2
    <2> QED
        BY <2>1, <2>2, Zenon DEF Run
<1> QED
    BY <1>4, <1>5, Zenon

LEMMA PipelineInit ==
    ASSUME IsFiniteSet(Workers), ReceiveInit
    PROVE  Pipeline
<1> USE DEF ReceiveInit, Unoccupied
<1>1. PipeTypes
    <2>1. Cardinality(Workers) \in Nat
        BY FS_CardinalityType, Zenon
    <2> QED
        BY <2>1 DEF PipeTypes, Working, Buffers
<1>2. Placed
    BY DEF Placed, Lead, Carries
<1>3. Ordered
    BY DEF Ordered
<1>4. Pooled
    <2>1. Occupied = {}
        BY Zenon DEF Occupied
    <2>2. /\ free = 2 * Cardinality(Workers) /\ completed = {} /\ emitter.pending = {}
          /\ Cardinality({}) = 0 /\ Cardinality(Workers) \in Nat
        BY FS_EmptySet, FS_CardinalityType, Zenon DEF Buffers
    <2> QED
        BY <2>1, <2>2 DEF Pooled
<1> QED
    BY <1>1, <1>2, <1>3, <1>4, Zenon DEF Pipeline, Closing

LEMMA PipeFinite ==
    ASSUME IsFiniteSet(Workers), PipeTypes, Placed
    PROVE  /\ IsFiniteSet(Occupied) /\ IsFiniteSet(completed) /\ IsFiniteSet(emitter.pending)
           /\ Cardinality(Occupied) \in Nat /\ Cardinality(completed) \in Nat
           /\ Cardinality(emitter.pending) \in Nat /\ Cardinality(Workers) \in Nat
<1>1. emitter.next \in Nat /\ Lead \in Nat /\ IsFiniteSet(emitter.next .. Lead - 1)
    <2>1. emitter.next \in Nat /\ Lead \in Nat
        BY DEF PipeTypes, Lead
    <2> QED
        BY <2>1, FS_Interval
<1>2. /\ Occupied \in SUBSET Workers
      /\ completed \in SUBSET (emitter.next .. Lead - 1)
      /\ emitter.pending \in SUBSET (emitter.next .. Lead - 1)
    BY Zenon DEF Occupied, Placed
<1>3. IsFiniteSet(Occupied) /\ IsFiniteSet(completed) /\ IsFiniteSet(emitter.pending)
    BY <1>1, <1>2, FS_Subset, Zenon
<1> QED
    BY <1>3, FS_CardinalityType, Zenon

\* A worker that moves changes only what it is at.
LEMMA WorkerMoves ==
    ASSUME PipeTypes, NEW w \in Workers, NEW x \in Working, worker' = [worker EXCEPT ![w] = x]
    PROVE  /\ worker' \in [Workers -> Working] /\ worker'[w] = x
           /\ \A v \in Workers : v # w => worker'[v] = worker[v]
    BY Zenon DEF PipeTypes

LEMMA SendKeeps ==
    ASSUME Pipeline, NEW l \in Loops, NEW bytes \in Sizes, DispatchSend(l, bytes)
    PROVE  Pipeline'
<1> DEFINE b == [ticket |-> espTicket, bytes |-> bytes]
<1>1. b \in Batch /\ espCh' = Append(espCh, b) /\ espTicket' = espTicket + 1
    BY Zenon DEF DispatchSend, Pipeline, PipeTypes, Batch
<1>2. UNCHANGED <<free, worker, completed, emitter, receiver, emitted>>
    BY Zenon DEF DispatchSend, poolVars
<1>3. /\ espCh' \in Seq(Batch) /\ Len(espCh') = Len(espCh) + 1 /\ Len(espCh) \in Nat
      /\ espCh'[Len(espCh) + 1] = b /\ \A i \in 1..Len(espCh) : espCh'[i] = espCh[i]
    <2>1. espCh \in Seq(Batch) /\ b \in Batch /\ espCh' = Append(espCh, b)
        BY <1>1, Zenon DEF Pipeline, PipeTypes
    <2> HIDE DEF b
    <2> QED
        BY <2>1
<1>4. Lead' = Lead /\ Lead \in Nat
    <2>1. espTicket \in Nat /\ Len(espCh) <= espTicket
        BY Zenon DEF Pipeline, PipeTypes, Placed
    <2> QED
        BY <1>1, <1>3, <2>1 DEF Lead
<1>5. PipeTypes'
    BY <1>1, <1>2, <1>3 DEF Pipeline, PipeTypes
<1>6. Placed'
    <2>1. \A i \in 1..Len(espCh') : espCh'[i].ticket = Lead' + i - 1
        <3>1. \A i \in 1..Len(espCh) : espCh'[i].ticket = Lead' + i - 1
            BY <1>3, <1>4, Zenon DEF Pipeline, Placed
        <3>2. espCh'[Len(espCh) + 1].ticket = Lead' + (Len(espCh) + 1) - 1
            BY <1>3, <1>4 DEF Lead, Pipeline, PipeTypes
        <3> QED
            BY <1>3, <3>1, <3>2
    <2> QED
        BY <1>2, <1>4, <2>1, Zenon DEF Pipeline, Placed, Carries, Ticket
<1>7. Ordered' /\ Pooled' /\ Closing'
    BY <1>2, Zenon DEF Pipeline, Ordered, Pooled, Closing, Occupied
<1> QED
    BY <1>5, <1>6, <1>7, Zenon DEF Pipeline

\* Steps that touch neither a batch nor a buffer.
LEMMA RestKeeps ==
    ASSUME Pipeline,
           \/ DispatchAccount \/ Close \/ FirstError
           \/ Join \/ Return
    PROVE  Pipeline'
<1>1. UNCHANGED <<espCh, espTicket, free, worker, completed, emitter, emitted>>
    BY Zenon DEF DispatchAccount, Close, FirstError, Join,
           Return, poolVars, muxVars
<1>2. receiver' \in {"wait", "join", "drain", "returned"} /\ Closing'
    <2>1. CASE receiver' = receiver
        BY <1>1, <2>1, Zenon DEF Pipeline, PipeTypes, Closing
    <2>2. CASE FirstError
        BY <2>2, Zenon DEF FirstError, Closing
    <2>3. CASE Join
        BY <1>1, <2>3, Zenon DEF Join, Closing
    <2>4. CASE Return
        BY <1>1, <2>4, Zenon DEF Return, Pipeline, Closing
    <2> QED
        BY <2>1, <2>2, <2>3, <2>4, Zenon DEF DispatchAccount, Close
<1>3. PipeTypes'
    BY <1>1, <1>2, Zenon DEF Pipeline, PipeTypes
<1>4. Placed' /\ Ordered' /\ Pooled'
    BY <1>1, ZenonT(40) DEF Pipeline, Placed, Ordered, Pooled, Occupied, Carries, Ticket, Lead
<1> QED
    BY <1>2, <1>3, <1>4, Zenon DEF Pipeline

\* A worker that neither takes nor hands on a batch: the tickets stay where
\* they are.
LEMMA PlacedKept ==
    ASSUME Placed, UNCHANGED <<espCh, espTicket, completed, emitter>>,
           \A v \in Workers : Carries(v)' = Carries(v) /\ (Carries(v) => Ticket(v)' = Ticket(v))
    PROVE  Placed'
<1>1. Lead' = Lead
    BY Zenon DEF Lead
<1> QED
    BY <1>1, ZenonT(30) DEF Placed

LEMMA TakeFreeKeeps ==
    ASSUME IsFiniteSet(Workers), Pipeline, NEW w \in Workers, TakeFree(w)
    PROVE  Pipeline'
<1> DEFINE x == [pc |-> "recv"]
<1>1. /\ x \in Working /\ worker[w].pc = "free" /\ free' = free - 1
      /\ worker' = [worker EXCEPT ![w] = x]
      /\ UNCHANGED <<espCh, espTicket, completed, emitter, receiver, emitted>>
    BY DEF TakeFree, Unoccupied, muxVars, Working
<1>2. /\ worker' \in [Workers -> Working] /\ worker'[w] = x
      /\ \A v \in Workers : v # w => worker'[v] = worker[v]
    BY <1>1, WorkerMoves, Zenon DEF Pipeline
<1>3. PipeTypes'
    BY <1>1, <1>2 DEF Pipeline, PipeTypes
<1>4. Placed'
    <2>1. \A v \in Workers : Carries(v)' = Carries(v) /\ (Carries(v) => Ticket(v)' = Ticket(v))
        BY <1>1, <1>2 DEF Carries, Ticket
    <2> QED
        BY <1>1, <2>1, PlacedKept, Zenon DEF Pipeline
<1>5. Pooled'
    <2>1. Occupied' = Occupied \cup {w} /\ w \notin Occupied
        BY <1>1, <1>2, Zenon DEF Occupied
    <2>2. Cardinality(Occupied') = Cardinality(Occupied) + 1
        BY <2>1, FS_AddElement, PipeFinite, Zenon DEF Pipeline
    <2>3. /\ Cardinality(Occupied) \in Nat /\ Cardinality(completed) \in Nat /\ free \in Int
          /\ Cardinality(emitter.pending) \in Nat /\ Cardinality(Workers) \in Nat
        BY PipeFinite, Zenon DEF Pipeline, PipeTypes
    <2> QED
        BY <1>1, <2>2, <2>3 DEF Pipeline, Pooled
<1>6. Ordered' /\ Closing'
    BY <1>1, <1>2, Zenon DEF Pipeline, Ordered, Closing
<1> QED
    BY <1>3, <1>4, <1>5, <1>6, Zenon DEF Pipeline

LEMMA RecvFailsKeeps ==
    ASSUME IsFiniteSet(Workers), Pipeline, NEW w \in Workers, RecvFails(w)
    PROVE  Pipeline'
<1> DEFINE x == [pc |-> "exited"]
<1>1. /\ x \in Working /\ worker[w].pc = "recv" /\ free' = free + 1
      /\ worker' = [worker EXCEPT ![w] = x]
      /\ UNCHANGED <<espCh, espTicket, completed, emitter, receiver, emitted>>
    BY Zenon DEF RecvFails, muxVars, Working
<1>2. /\ worker' \in [Workers -> Working] /\ worker'[w] = x
      /\ \A v \in Workers : v # w => worker'[v] = worker[v]
    BY <1>1, WorkerMoves, Zenon DEF Pipeline
<1>3. PipeTypes'
    BY <1>1, <1>2 DEF Pipeline, PipeTypes
<1>4. Placed'
    <2>1. \A v \in Workers : Carries(v)' = Carries(v) /\ (Carries(v) => Ticket(v)' = Ticket(v))
        BY <1>1, <1>2 DEF Carries, Ticket
    <2> QED
        BY <1>1, <2>1, PlacedKept, Zenon DEF Pipeline
<1>5. Pooled'
    <2>1. Occupied' = Occupied \ {w} /\ w \in Occupied
        BY <1>1, <1>2, Zenon DEF Occupied
    <2>2. Cardinality(Occupied') = Cardinality(Occupied) - 1
        BY <2>1, FS_RemoveElement, PipeFinite, Zenon DEF Pipeline
    <2>3. /\ Cardinality(Occupied) \in Nat /\ Cardinality(completed) \in Nat /\ free \in Int
          /\ Cardinality(emitter.pending) \in Nat /\ Cardinality(Workers) \in Nat
        BY PipeFinite, Zenon DEF Pipeline, PipeTypes
    <2> QED
        BY <1>1, <2>2, <2>3 DEF Pipeline, Pooled
<1>6. Ordered' /\ Closing'
    BY <1>1, <1>2, Zenon DEF Pipeline, Ordered, Closing
<1> QED
    BY <1>3, <1>4, <1>5, <1>6, Zenon DEF Pipeline

LEMMA TakeESPKeeps ==
    ASSUME IsFiniteSet(Workers), Pipeline, NEW w \in Workers, TakeESP(w)
    PROVE  Pipeline'
<1> DEFINE x == [pc |-> "decrypt", batch |-> worker[w].batch]
<1>1. worker[w] \in [pc : {"take", "decrypt"}, batch : Batch] /\ worker[w].pc = "take"
    BY Zenon DEF TakeESP, Pipeline, PipeTypes, Working
<1>2. /\ x \in Working /\ worker' = [worker EXCEPT ![w] = x]
      /\ UNCHANGED <<espCh, espTicket, completed, emitter, receiver, emitted, free>>
    <2>1. x \in Working /\ [worker[w] EXCEPT !.pc = "decrypt"] = x
        BY <1>1 DEF Working
    <2>2. worker' = [worker EXCEPT ![w] = [worker[w] EXCEPT !.pc = "decrypt"]]
        BY Zenon DEF TakeESP
    <2> QED
        BY <2>1, <2>2, Zenon DEF TakeESP
<1>3. /\ worker' \in [Workers -> Working] /\ worker'[w] = x
      /\ \A v \in Workers : v # w => worker'[v] = worker[v]
    BY <1>2, WorkerMoves, Zenon DEF Pipeline
<1>4. PipeTypes'
    BY <1>2, <1>3, Zenon DEF Pipeline, PipeTypes
<1>5. Placed'
    <2>1. \A v \in Workers : Carries(v)' = Carries(v) /\ (Carries(v) => Ticket(v)' = Ticket(v))
        BY <1>1, <1>3 DEF Carries, Ticket
    <2> QED
        BY <1>2, <2>1, PlacedKept, Zenon DEF Pipeline
<1>6. Occupied' = Occupied
    BY <1>1, <1>3 DEF Occupied
<1>7. Pooled' /\ Ordered' /\ Closing'
    BY <1>1, <1>2, <1>3, <1>6, Zenon DEF Pipeline, Pooled, Ordered, Closing
<1> QED
    BY <1>4, <1>5, <1>7, Zenon DEF Pipeline

LEMMA RecvKeeps ==
    ASSUME IsFiniteSet(Workers), Pipeline, NEW w \in Workers, Recv(w)
    PROVE  Pipeline'
<1> DEFINE x == [pc |-> "take", batch |-> Head(espCh)]
<1>1. /\ worker[w].pc = "recv" /\ espCh # <<>> /\ espCh \in Seq(Batch)
      /\ espCh' = Tail(espCh) /\ worker' = [worker EXCEPT ![w] = x]
      /\ UNCHANGED <<espTicket, completed, emitter, receiver, emitted, free>>
    BY Zenon DEF Recv, Pipeline, PipeTypes
<1>2. /\ espCh' \in Seq(Batch) /\ Len(espCh') = Len(espCh) - 1 /\ Len(espCh) \in Nat \ {0}
      /\ Head(espCh) = espCh[1] /\ espCh[1] \in Batch
      /\ \A i \in 1..Len(espCh') : espCh'[i] = espCh[i + 1]
    BY <1>1
<1>3. /\ Lead \in Nat /\ Lead' = Lead + 1 /\ espTicket \in Nat
      /\ emitter.next \in Nat /\ emitter.next <= Lead
    BY <1>1, <1>2 DEF Pipeline, PipeTypes, Lead, Placed
<1>4. x \in Working /\ Head(espCh).ticket = Lead
    <2>1. espCh[1].ticket = Lead + 1 - 1
        BY <1>2 DEF Pipeline, Placed
    <2> QED
        BY <1>2, <1>3, <2>1 DEF Working
<1>5. /\ worker' \in [Workers -> Working] /\ worker'[w] = x
      /\ \A v \in Workers : v # w => worker'[v] = worker[v]
    BY <1>1, <1>4, WorkerMoves, Zenon DEF Pipeline
<1>6. PipeTypes'
    BY <1>1, <1>2, <1>5 DEF Pipeline, PipeTypes
<1>7. /\ Carries(w)' /\ Ticket(w)' = Lead /\ ~Carries(w)
      /\ \A v \in Workers : v # w => Carries(v)' = Carries(v) /\ Ticket(v)' = Ticket(v)
    BY <1>1, <1>4, <1>5, Zenon DEF Carries, Ticket
<1>8. Placed'
    <2>1. \A i \in 1..Len(espCh') : espCh'[i].ticket = Lead' + i - 1
        <3> SUFFICES ASSUME NEW i \in 1..Len(espCh') PROVE espCh'[i].ticket = Lead' + i - 1
            BY Zenon
        <3>1. i + 1 \in 1..Len(espCh) /\ espCh'[i] = espCh[i + 1]
            BY <1>2
        <3>2. espCh[i + 1].ticket = Lead + (i + 1) - 1
            BY <3>1, Zenon DEF Pipeline, Placed
        <3> QED
            BY <1>3, <3>1, <3>2
    <2>2. emitter'.next = emitter.next /\ emitter'.pending = emitter.pending /\ completed' = completed
        BY <1>1, Zenon
    <2>3. /\ \A t \in emitter.next .. Lead - 1 : t \in emitter.next .. Lead' - 1 /\ t # Lead
          /\ Lead \in emitter.next .. Lead' - 1 /\ emitter.next <= Lead'
          /\ \A t \in emitter.next .. Lead' - 1 : t = Lead \/ t \in emitter.next .. Lead - 1
        BY <1>3
    <2>4. Lead \notin completed \cup emitter.pending
        BY <2>3, Zenon DEF Pipeline, Placed
    <2>5. ASSUME NEW v \in Workers, Carries(v)'
          PROVE  Ticket(v)' \in emitter.next .. Lead' - 1 /\ Ticket(v)' \notin completed \cup emitter.pending
        <3>1. CASE v = w
            BY <1>7, <2>3, <2>4, <3>1, Zenon
        <3>2. CASE v # w
            <4>1. Carries(v) /\ Ticket(v)' = Ticket(v)
                BY <1>7, <2>5, <3>2, Zenon
            <4>2. Ticket(v) \in emitter.next .. Lead - 1 /\ Ticket(v) \notin completed \cup emitter.pending
                BY <4>1, Zenon DEF Pipeline, Placed
            <4> QED
                BY <2>3, <4>1, <4>2, Zenon
        <3> QED
            BY <3>1, <3>2, Zenon
    <2>6. ASSUME NEW u \in Workers, NEW v \in Workers, Carries(u)', Carries(v)', Ticket(u)' = Ticket(v)'
          PROVE  u = v
        <3>1. \A z \in Workers : z # w /\ Carries(z)' => Ticket(z)' # Lead
            BY <1>7, <2>3, ZenonT(40) DEF Pipeline, Placed
        <3> QED
            BY <1>7, <2>6, <3>1, Zenon DEF Pipeline, Placed
    <2>7. completed \cup emitter.pending \subseteq emitter.next .. Lead' - 1
        BY <2>3, Zenon DEF Pipeline, Placed
    <2>8. ASSUME NEW t \in emitter.next .. Lead' - 1
          PROVE  t \in completed \cup emitter.pending \/ \E v \in Workers : Carries(v)' /\ Ticket(v)' = t
        <3>1. CASE t = Lead
            BY <1>7, <3>1, Zenon
        <3>2. CASE t \in emitter.next .. Lead - 1
            BY <1>7, <3>2, Zenon DEF Pipeline, Placed
        <3> QED
            BY <2>3, <3>1, <3>2, Zenon
    <2>9. completed \cap emitter.pending = {} /\ emitter.next \notin emitter.pending
        BY Zenon DEF Pipeline, Placed
    <2> QED
        BY <2>1, <2>2, <2>3, <2>5, <2>6, <2>7, <2>8, <2>9, Zenon DEF Placed
<1>9. Occupied' = Occupied
    BY <1>1, <1>5, Zenon DEF Occupied
<1>10. Pooled' /\ Ordered' /\ Closing'
    BY <1>1, <1>5, <1>9, Zenon DEF Pipeline, Pooled, Ordered, Closing
<1> QED
    BY <1>6, <1>8, <1>10, Zenon DEF Pipeline

LEMMA DecryptKeeps ==
    ASSUME IsFiniteSet(Workers), Pipeline, NEW w \in Workers, Decrypt(w)
    PROVE  Pipeline'
<1> DEFINE x == [pc |-> "free"]
           t == worker[w].batch.ticket
<1>1. /\ worker[w].pc = "decrypt" /\ completed' = completed \cup {t}
      /\ x \in Working /\ worker' = [worker EXCEPT ![w] = x]
      /\ UNCHANGED <<espCh, espTicket, emitter, receiver, emitted, free>>
    BY Zenon DEF Decrypt, Unoccupied, muxVars, Working
<1>2. /\ worker' \in [Workers -> Working] /\ worker'[w] = x
      /\ \A v \in Workers : v # w => worker'[v] = worker[v]
    BY <1>1, WorkerMoves, Zenon DEF Pipeline
<1>3. t \in Nat /\ Carries(w) /\ t = Ticket(w)
    <2>1. worker[w] \in [pc : {"take", "decrypt"}, batch : Batch]
        BY <1>1, Zenon DEF Pipeline, PipeTypes, Working
    <2> QED
        BY <1>1, <2>1, Zenon DEF Batch, Carries, Ticket
<1> HIDE DEF t
<1>4. PipeTypes'
    BY <1>1, <1>2, <1>3, Zenon DEF Pipeline, PipeTypes
<1>5. t \in emitter.next .. Lead - 1 /\ t \notin completed /\ t \notin emitter.pending
    BY <1>3, Zenon DEF Pipeline, Placed
<1>6. /\ ~Carries(w)'
      /\ \A v \in Workers : v # w => Carries(v)' = Carries(v) /\ Ticket(v)' = Ticket(v)
    BY <1>1, <1>2, Zenon DEF Carries, Ticket
<1>7. Placed'
    <2>1. Lead' = Lead /\ emitter' = emitter /\ espCh' = espCh
        BY <1>1, Zenon DEF Lead
    <2>2. ASSUME NEW v \in Workers, Carries(v)'
          PROVE  v # w /\ Carries(v) /\ Ticket(v)' = Ticket(v) /\ Ticket(v) # t
        BY <1>3, <1>6, <2>2, Zenon DEF Pipeline, Placed
    <2>3. \A u \in emitter.next .. Lead - 1 :
            \/ u \in completed' \cup emitter.pending
            \/ \E v \in Workers : Carries(v)' /\ Ticket(v)' = u
        BY <1>1, <1>3, <1>6, Zenon DEF Pipeline, Placed
    <2>4. ASSUME NEW v \in Workers, Carries(v)'
          PROVE  /\ Ticket(v)' \in emitter.next .. Lead - 1
                 /\ Ticket(v)' \notin completed' \cup emitter.pending
        <3>1. Ticket(v) \in emitter.next .. Lead - 1 /\ Ticket(v) \notin completed \cup emitter.pending
            BY <2>2, <2>4, Zenon DEF Pipeline, Placed
        <3> QED
            BY <1>1, <2>2, <2>4, <3>1, Zenon
    <2>5. \A u, v \in Workers : Carries(u)' /\ Carries(v)' /\ Ticket(u)' = Ticket(v)' => u = v
        BY <2>2, Zenon DEF Pipeline, Placed
    <2>6. completed' \cap emitter.pending = {} /\ completed' \cup emitter.pending \subseteq emitter.next .. Lead - 1
        BY <1>1, <1>5, ZenonT(40) DEF Pipeline, Placed
    <2> QED
        BY <2>1, <2>3, <2>4, <2>5, <2>6, Zenon DEF Pipeline, Placed
<1>8. Pooled'
    <2>1. Occupied' = Occupied \ {w} /\ w \in Occupied
        BY <1>1, <1>2, Zenon DEF Occupied
    <2>2. /\ IsFiniteSet(Occupied) /\ IsFiniteSet(completed) /\ Cardinality(Occupied) \in Nat
          /\ Cardinality(completed) \in Nat /\ Cardinality(emitter.pending) \in Nat
          /\ Cardinality(Workers) \in Nat /\ free \in Int
        BY PipeFinite, Zenon DEF Pipeline, PipeTypes
    <2>3. Cardinality(Occupied') = Cardinality(Occupied) - 1
        BY <2>1, <2>2, FS_RemoveElement, Zenon
    <2>4. Cardinality(completed') = Cardinality(completed) + 1
        BY <1>1, <1>5, <2>2, FS_AddElement, Zenon
    <2> QED
        BY <1>1, <2>2, <2>3, <2>4 DEF Pipeline, Pooled
<1>9. Ordered' /\ Closing'
    BY <1>1, <1>2, Zenon DEF Pipeline, Ordered, Closing
<1> QED
    BY <1>4, <1>7, <1>8, <1>9, Zenon DEF Pipeline

LEMMA MergeKeeps ==
    ASSUME IsFiniteSet(Workers), Pipeline, Merge
    PROVE  Pipeline'
<1> DEFINE arrived == emitter.pending \cup completed
           next == emitter.next
<1>1. /\ next \in Nat /\ Lead \in Nat /\ next <= Lead /\ arrived \in SUBSET (next .. Lead - 1)
      /\ emitter.pc = "wait"
    BY DEF Pipeline, PipeTypes, Placed, Lead, Merge
<1>2. PICK stop \in next..Lead : /\ Run(arrived, next) = next .. stop - 1
                                 /\ next .. stop - 1 \subseteq arrived /\ stop \notin arrived
    BY <1>1, RunEnds, Zenon
<1>3. /\ stop \in Nat /\ next <= stop /\ stop <= Lead
      /\ Cardinality(next .. stop - 1) = stop - next /\ IsFiniteSet(next .. stop - 1)
    <2>1. stop \in Nat /\ next <= stop /\ stop <= Lead /\ stop - 1 \in Int /\ next \in Int
        BY <1>1
    <2>2. /\ IsFiniteSet(next .. stop - 1)
          /\ Cardinality(next .. stop - 1) = IF next > stop - 1 THEN 0 ELSE stop - 1 - next + 1
        BY <2>1, FS_Interval, Zenon
    <2> QED
        BY <2>1, <2>2
<1> DEFINE tail == [i \in 1 .. stop - next |-> next + i - 1]
<1>4. /\ emitter' = [pc |-> "emit", pending |-> arrived \ (next .. stop - 1),
                     next |-> next + (stop - next), merged |-> tail]
      /\ free' = free + (stop - next) /\ completed' = {}
      /\ UNCHANGED <<espCh, espTicket, worker, receiver, emitted>>
    BY <1>2, <1>3, Zenon DEF Merge, Recycled, muxVars
<1>5. /\ emitter'.pc = "emit" /\ emitter'.pending = arrived \ (next .. stop - 1)
      /\ emitter'.next = stop /\ emitter'.merged = tail
    BY <1>1, <1>3, <1>4
<1>6. tail \in Seq(Nat) /\ Len(tail) = stop - next /\ \A i \in 1..Len(tail) : tail[i] = next + i - 1
    BY <1>1, <1>3
<1> HIDE DEF tail
<1>7. PipeTypes'
    <2>1. emitter' \in [pc : {"wait", "emit"}, pending : SUBSET Nat, next : Nat, merged : Seq(Nat)]
        BY <1>1, <1>3, <1>4, <1>6
    <2> QED
        BY <1>3, <1>4, <2>1 DEF Pipeline, PipeTypes
<1>8. Lead' = Lead /\ \A v \in Workers : Carries(v)' = Carries(v) /\ Ticket(v)' = Ticket(v)
    BY <1>4, Zenon DEF Lead, Carries, Ticket
<1>9. Placed'
    <2>1. \A t \in next .. Lead - 1 : t \notin next .. stop - 1 => t \in stop .. Lead - 1
        BY <1>1, <1>3
    <2>2. \A t \in stop .. Lead - 1 : t \in next .. Lead - 1 /\ t \notin next .. stop - 1
        BY <1>1, <1>3
    <2>3. ASSUME NEW v \in Workers, Carries(v)
          PROVE  Ticket(v) \in stop .. Lead - 1 /\ Ticket(v) \notin emitter'.pending
        <3>1. Ticket(v) \in next .. Lead - 1 /\ Ticket(v) \notin arrived
            BY <2>3, Zenon DEF Pipeline, Placed
        <3> QED
            BY <1>2, <1>5, <2>1, <3>1, Zenon
    <2>4. emitter'.pending \subseteq stop .. Lead - 1
        BY <1>1, <1>5, <2>1, Zenon
    <2>5. ASSUME NEW t \in stop .. Lead - 1
          PROVE  t \in emitter'.pending \/ \E v \in Workers : Carries(v) /\ Ticket(v) = t
        <3>1. t \in arrived \/ \E v \in Workers : Carries(v) /\ Ticket(v) = t
            BY <2>2, Zenon DEF Pipeline, Placed
        <3> QED
            BY <1>5, <2>2, <3>1, Zenon
    <2>6. /\ \A u, v \in Workers : Carries(u) /\ Carries(v) /\ Ticket(u) = Ticket(v) => u = v
          /\ \A i \in 1..Len(espCh) : espCh[i].ticket = Lead + i - 1
        BY Zenon DEF Pipeline, Placed
    <2>7. completed' = {} /\ stop \notin emitter'.pending /\ emitter'.next <= Lead
        BY <1>2, <1>3, <1>4, <1>5, Zenon
    <2>8. espCh' = espCh
        BY <1>4, Zenon
    <2> HIDE DEF arrived, next
    <2>9. completed' \cup emitter'.pending = emitter'.pending /\ completed' \cap emitter'.pending = {}
        BY <2>7, Zenon
    <2>10. \A v \in Workers : Carries(v)' => /\ Ticket(v)' \in emitter'.next .. Lead' - 1
                                             /\ Ticket(v)' \notin completed' \cup emitter'.pending
        BY <1>5, <1>8, <2>3, <2>9, Zenon
    <2>11. \A t \in emitter'.next .. Lead' - 1 : \/ t \in completed' \cup emitter'.pending
                                                 \/ \E v \in Workers : Carries(v)' /\ Ticket(v)' = t
        BY <1>5, <1>8, <2>5, <2>9, Zenon
    <2>12. /\ \A u, v \in Workers : Carries(u)' /\ Carries(v)' /\ Ticket(u)' = Ticket(v)' => u = v
           /\ \A i \in 1..Len(espCh') : espCh'[i].ticket = Lead' + i - 1
        BY <1>8, <2>6, <2>8, Zenon
    <2>13. /\ completed' \cup emitter'.pending \subseteq emitter'.next .. Lead' - 1
           /\ emitter'.next <= Lead' /\ emitter'.next \notin emitter'.pending
        BY <1>5, <1>8, <2>4, <2>7, <2>9, Zenon
    <2> QED
        BY <2>9, <2>10, <2>11, <2>12, <2>13, Zenon DEF Placed
<1>10. Ordered'
    <2>1. Len(emitted) = next /\ Len(emitted) \in Nat
        BY <1>1 DEF Pipeline, Ordered, PipeTypes
    <2>2. emitted' = emitted /\ \A i \in 1..Len(emitted) : emitted[i] = i - 1
        BY <1>4, Zenon DEF Pipeline, Ordered
    <2> HIDE DEF next, arrived
    <2> QED
        BY <1>3, <1>5, <1>6, <2>1, <2>2 DEF Ordered
<1>11. Pooled'
    <2>1. /\ Cardinality(Occupied) \in Nat /\ Cardinality(Workers) \in Nat /\ free \in Int
          /\ IsFiniteSet(completed) /\ IsFiniteSet(emitter.pending)
          /\ Cardinality(completed) \in Nat /\ Cardinality(emitter.pending) \in Nat
        BY PipeFinite, Zenon DEF Pipeline, PipeTypes
    <2>2. IsFiniteSet(arrived) /\ Cardinality(arrived) = Cardinality(emitter.pending) + Cardinality(completed)
        <3>1. emitter.pending \cap completed = {}
            BY Zenon DEF Pipeline, Placed
        <3>2. /\ IsFiniteSet(arrived)
              /\ Cardinality(arrived) = Cardinality(emitter.pending) + Cardinality(completed)
                                          - Cardinality(emitter.pending \cap completed)
            BY <2>1, FS_Union, Zenon
        <3>3. Cardinality(emitter.pending \cap completed) = 0
            BY <3>1, FS_EmptySet, Zenon
        <3> QED
            BY <2>1, <3>2, <3>3
    <2>3. Cardinality(emitter'.pending) = Cardinality(arrived) - (stop - next)
        <3>1. arrived \cap (next .. stop - 1) = next .. stop - 1
            BY <1>2, Zenon
        <3>2. Cardinality(arrived \ (next .. stop - 1))
                = Cardinality(arrived) - Cardinality(arrived \cap (next .. stop - 1))
            BY <2>2, FS_Difference, Zenon
        <3> QED
            BY <1>3, <1>5, <2>2, <3>1, <3>2, Zenon
    <2>4. Occupied' = Occupied /\ Cardinality(completed') = 0 /\ free' = free + (stop - next)
        BY <1>4, FS_EmptySet, Zenon DEF Occupied
    <2>5. free + Cardinality(Occupied) + Cardinality(completed) + Cardinality(emitter.pending)
            = 2 * Cardinality(Workers)
        BY Zenon DEF Pipeline, Pooled
    <2>6. next \in Nat /\ stop \in Nat
        BY <1>1, <1>3, Zenon
    <2> HIDE DEF arrived, next
    <2>7. free' + Cardinality(Occupied') + Cardinality(completed') + Cardinality(emitter'.pending)
            = 2 * Cardinality(Workers)
        BY <2>1, <2>2, <2>3, <2>4, <2>5, <2>6
    <2> QED
        BY <2>7, Zenon DEF Pooled
<1>12. Closing'
    BY <1>1, <1>4, Zenon DEF Merge, Pipeline, Closing
<1> QED
    BY <1>7, <1>9, <1>10, <1>11, <1>12, Zenon DEF Pipeline

LEMMA EmitKeeps ==
    ASSUME Pipeline, Emit
    PROVE  Pipeline'
<1> DEFINE tail == emitter.merged
<1>1. /\ emitter.pc = "emit" /\ emitted' = emitted \o tail
      /\ emitter' = [emitter EXCEPT !.pc = "wait", !.merged = <<>>]
      /\ UNCHANGED <<espCh, espTicket, free, worker, completed, receiver>>
    BY Zenon DEF Emit, muxVars, poolVars
<1>2. /\ emitter' \in [pc : {"wait", "emit"}, pending : SUBSET Nat, next : Nat, merged : Seq(Nat)]
      /\ emitter'.pc = "wait" /\ emitter'.merged = <<>>
      /\ emitter'.pending = emitter.pending /\ emitter'.next = emitter.next
    <2>1. emitter \in [pc : {"wait", "emit"}, pending : SUBSET Nat, next : Nat, merged : Seq(Nat)]
        BY Zenon DEF Pipeline, PipeTypes
    <2>2. emitter' = [pc |-> "wait", pending |-> emitter.pending, next |-> emitter.next,
                      merged |-> <<>>]
        BY <1>1, <2>1, Zenon
    <2>3. <<>> \in Seq(Nat) /\ emitter.pending \in SUBSET Nat /\ emitter.next \in Nat
        BY <2>1
    <2> QED
        BY <2>2, <2>3, Zenon
<1>3. tail \in Seq(Nat) /\ emitted \in Seq(Nat) /\ emitter.next \in Nat
    BY Zenon DEF Pipeline, PipeTypes
<1> HIDE DEF tail
<1>4. /\ emitted' \in Seq(Nat) /\ Len(emitted') = Len(emitted) + Len(tail)
      /\ \A i \in 1..Len(emitted') :
           emitted'[i] = IF i <= Len(emitted) THEN emitted[i] ELSE tail[i - Len(emitted)]
      /\ Len(emitted) \in Nat /\ Len(tail) \in Nat
    BY <1>1, <1>3
<1>5. PipeTypes'
    BY <1>1, <1>2, <1>4, Zenon DEF Pipeline, PipeTypes
<1>6. Placed' /\ Pooled' /\ Closing'
    <2>1. Placed'
        BY <1>1, <1>2, Zenon DEF Pipeline, Placed, Lead, Carries, Ticket
    <2>2. Pooled'
        BY <1>1, <1>2, Zenon DEF Pipeline, Pooled, Occupied
    <2>3. Closing'
        BY <1>1, <1>2, Zenon DEF Pipeline, Closing
    <2> QED
        BY <2>1, <2>2, <2>3, Zenon
<1>7. Ordered'
    <2>1. /\ Len(emitted) + Len(tail) = emitter.next
          /\ \A i \in 1..Len(emitted) : emitted[i] = i - 1
          /\ \A i \in 1..Len(tail) : tail[i] = Len(emitted) + i - 1
        BY Zenon DEF tail, Pipeline, Ordered
    <2>2. \A i \in 1..Len(emitted') : emitted'[i] = i - 1
        <3> SUFFICES ASSUME NEW i \in 1..Len(emitted') PROVE emitted'[i] = i - 1
            BY Zenon
        <3>1. CASE i <= Len(emitted)
            <4>1. Len(emitted') \in Nat /\ Len(emitted) \in Nat
                BY <1>4
            <4>2. i \in 1..Len(emitted)
                BY <3>1, <4>1
            <4> QED
                BY <1>4, <2>1, <3>1, <4>2, Zenon
        <3>2. CASE ~(i <= Len(emitted))
            <4>1. i - Len(emitted) \in 1..Len(tail) /\ emitted'[i] = tail[i - Len(emitted)]
                BY <1>4, <3>2
            <4>2. tail[i - Len(emitted)] = Len(emitted) + (i - Len(emitted)) - 1
                BY <2>1, <4>1, Zenon
            <4> QED
                BY <1>4, <4>1, <4>2
        <3> QED
            BY <3>1, <3>2, Zenon
    <2> QED
        BY <1>2, <1>3, <1>4, <2>1, <2>2 DEF Ordered
<1> QED
    BY <1>5, <1>6, <1>7, Zenon DEF Pipeline

LEMMA PipelineStep ==
    ASSUME IsFiniteSet(Workers), Pipeline, [ReceiveNext]_receiveVars
    PROVE  Pipeline'
<1>1. CASE UNCHANGED receiveVars
    BY <1>1, Zenon DEF receiveVars, Pipeline, PipeTypes, Placed, Ordered, Pooled, Closing, Lead, Carries, Ticket, Occupied
<1>2. CASE ReceiveNext
    <2>1. ASSUME NEW w \in Workers, Work(w) PROVE Pipeline'
        BY <2>1, TakeFreeKeeps, RecvKeeps, TakeESPKeeps, RecvFailsKeeps, DecryptKeeps, Zenon
           DEF Work
    <2> QED
        BY <1>2, <2>1, SendKeeps, RestKeeps, MergeKeeps, EmitKeeps, Zenon DEF ReceiveNext
<1> QED
    BY <1>1, <1>2, Zenon

-----------------------------------------------------------------------------
\* What has left espCh is below Lead, with a worker or further on.
LEMMA TakenBelow ==
    ASSUME Pipeline
    PROVE  /\ Taken = 0 .. Lead - 1
           /\ InWorkers \cup completed \cup emitter.pending = emitter.next .. Lead - 1
           /\ Elements(emitted) = 0 .. Len(emitted) - 1
<1>1. /\ emitter.next \in Nat /\ Lead \in Nat /\ emitter.next <= Lead
      /\ emitted \in Seq(Nat) /\ emitter.merged \in Seq(Nat)
      /\ Len(emitted) + Len(emitter.merged) = emitter.next
    BY DEF Pipeline, PipeTypes, Placed, Ordered, Lead
<1>2. Elements(emitted) = 0 .. Len(emitted) - 1
    <2>1. \A i \in 1..Len(emitted) : emitted[i] = i - 1
        BY Zenon DEF Pipeline, Ordered
    <2>2. Elements(emitted) = {emitted[i] : i \in 1..Len(emitted)}
        <3>1. emitted \in Seq(Nat)
            BY <1>1, Zenon
        <3>2. DOMAIN emitted = 1..Len(emitted)
            BY <3>1
        <3> QED
            BY <3>2, Zenon DEF Elements
    <2>3. \A t \in 0 .. Len(emitted) - 1 : t + 1 \in 1..Len(emitted) /\ emitted[t + 1] = t
        BY <1>1, <2>1
    <2>4. \A i \in 1..Len(emitted) : emitted[i] \in 0 .. Len(emitted) - 1
        BY <1>1, <2>1
    <2> QED
        BY <2>2, <2>3, <2>4, Zenon
<1>3. Elements(emitter.merged) = Len(emitted) .. emitter.next - 1
    <2> DEFINE m == emitter.merged
    <2>1. \A i \in 1..Len(m) : m[i] = Len(emitted) + i - 1
        BY Zenon DEF Pipeline, Ordered
    <2>2. Elements(m) = {m[i] : i \in 1..Len(m)}
        <3>1. m \in Seq(Nat)
            BY <1>1, Zenon
        <3> HIDE DEF m
        <3>2. DOMAIN m = 1..Len(m)
            BY <3>1
        <3> QED
            BY <3>2, Zenon DEF Elements
    <2>3. m \in Seq(Nat) /\ Len(emitted) + Len(m) = emitter.next
        BY <1>1, Zenon
    <2> HIDE DEF m
    <2>4. ASSUME NEW t \in Len(emitted) .. emitter.next - 1
          PROVE  \E i \in 1..Len(m) : m[i] = t
        <3>1. t - Len(emitted) + 1 \in 1..Len(m) /\ Len(emitted) + (t - Len(emitted) + 1) - 1 = t
            BY <1>1, <2>3
        <3> DEFINE i == t - Len(emitted) + 1
        <3>2. i \in 1..Len(m) /\ m[i] = t
            BY <2>1, <3>1, Zenon
        <3> QED
            BY <3>2, Zenon
    <2>5. ASSUME NEW i \in 1..Len(m) PROVE m[i] \in Len(emitted) .. emitter.next - 1
        <3>1. Len(m) \in Nat /\ Len(emitted) \in Nat /\ m[i] = Len(emitted) + i - 1
            BY <1>1, <2>1, <2>3
        <3> QED
            BY <1>1, <2>3, <3>1
    <2>6. Elements(m) = Len(emitted) .. emitter.next - 1
        BY <2>2, <2>4, <2>5, Zenon
    <2> QED
        BY <2>6, Zenon DEF m
<1>4. InWorkers \cup completed \cup emitter.pending = emitter.next .. Lead - 1
    <2>1. \A t : t \in InWorkers <=> \E w \in Workers : Carries(w) /\ Ticket(w) = t
        <3>1. InWorkers = {Ticket(w) : w \in {v \in Workers : Carries(v)}}
            BY Zenon DEF InWorkers, Holding, Carries, Ticket
        <3> QED
            BY <3>1, Zenon
    <2>2. ASSUME NEW t \in InWorkers \cup completed \cup emitter.pending
          PROVE  t \in emitter.next .. Lead - 1
        <3>1. CASE t \in InWorkers
            <4>1. PICK w \in Workers : Carries(w) /\ Ticket(w) = t
                BY <2>1, <3>1, Zenon
            <4>2. Ticket(w) \in emitter.next .. Lead - 1
                BY <4>1, Zenon DEF Pipeline, Placed
            <4> QED
                BY <4>1, <4>2, Zenon
        <3>2. CASE t \in completed \cup emitter.pending
            BY <3>2, Zenon DEF Pipeline, Placed
        <3> QED
            BY <3>1, <3>2, Zenon
    <2>3. \A t \in emitter.next .. Lead - 1 : t \in InWorkers \cup completed \cup emitter.pending
        BY <2>1, Zenon DEF Pipeline, Placed
    <2> QED
        BY <2>2, <2>3, Zenon
<1>5. Taken = (emitter.next .. Lead - 1) \cup (Len(emitted) .. emitter.next - 1)
                         \cup (0 .. Len(emitted) - 1)
    BY <1>2, <1>3, <1>4, Zenon DEF Taken
<1>6. (emitter.next .. Lead - 1) \cup (Len(emitted) .. emitter.next - 1)
         \cup (0 .. Len(emitted) - 1) = 0 .. Lead - 1
    BY <1>1
<1> QED
    BY <1>2, <1>4, <1>5, <1>6, Zenon

-----------------------------------------------------------------------------
(* Sums over finite sets.                                                  *)

\* Induction, for a set of naturals.
LEMMA Climb ==
    ASSUME NEW G \in SUBSET Nat, 0 \in G, \A n \in G : n + 1 \in G
    PROVE  G = Nat
<1> DEFINE B == {n \in Nat : n \notin G}
<1> SUFFICES ASSUME B # {}
             PROVE  FALSE
    BY Zenon
<1>1. PICK m \in B : \A n \in B : <<n, m>> \notin OpToRel(<, Nat)
  <2>1. B \in SUBSET Nat
      BY Zenon
  <2> HIDE DEF B
  <2> QED
      BY <2>1, NatLessThanWellFounded, WFMin, Zenon
<1>2. m \in Nat /\ m # 0 /\ m \notin G
    BY <1>1, Zenon
<1>3. m - 1 \in Nat /\ m - 1 < m /\ (m - 1) + 1 = m
    BY <1>2
<1>4. m - 1 \notin B
    BY <1>1, <1>2, <1>3, Zenon DEF OpToRel
<1> QED
    BY <1>2, <1>3, <1>4, Zenon

\* f sums the weights w over the subsets of U, an element at a time.
Sums(U, w, f) ==
    f = [s \in SUBSET U |-> IF s = {} THEN 0
                            ELSE w[CHOOSE x \in s : TRUE] + f[s \ {CHOOSE x \in s : TRUE}]]
Sum(w, S) == (CHOOSE f : Sums(S, w, f))[S]

\* The sets of at most n elements for which all of this is known.
LEMMA Smaller ==
    ASSUME NEW s, IsFiniteSet(s), NEW x \in s
    PROVE  /\ IsFiniteSet(s \ {x}) /\ Cardinality(s \ {x}) \in Nat
           /\ Cardinality(s) = Cardinality(s \ {x}) + 1
<1>1. IsFiniteSet(s \ {x}) /\ Cardinality(s \ {x}) = Cardinality(s) - 1
    BY FS_RemoveElement, Zenon
<1>2. Cardinality(s) \in Nat /\ Cardinality(s \ {x}) \in Nat
    BY <1>1, FS_CardinalityType, Zenon
<1> QED
    BY <1>1, <1>2

LEMMA SumsExist ==
    ASSUME NEW U, IsFiniteSet(U), NEW w
    PROVE  \E f : Sums(U, w, f)
<1> DEFINE c(s) == CHOOSE x \in s : TRUE
           Upto(n, f) == \A s \in SUBSET U : Cardinality(s) <= n =>
                           f[s] = IF s = {} THEN 0 ELSE w[c(s)] + f[s \ {c(s)}]
           G == {n \in Nat : \E f : Upto(n, f)}
<1>1. \A s \in SUBSET U : IsFiniteSet(s) /\ Cardinality(s) \in Nat /\ (Cardinality(s) = 0 <=> s = {})
    BY FS_Subset, FS_CardinalityType, FS_EmptySet, Zenon
<1>2. \A s \in SUBSET U : s # {} =>
        /\ c(s) \in s /\ s \ {c(s)} \in SUBSET U
        /\ Cardinality(s \ {c(s)}) \in Nat /\ Cardinality(s) = Cardinality(s \ {c(s)}) + 1
  <2> SUFFICES ASSUME NEW s \in SUBSET U, s # {}
               PROVE  /\ c(s) \in s /\ s \ {c(s)} \in SUBSET U /\ Cardinality(s \ {c(s)}) \in Nat
                      /\ Cardinality(s) = Cardinality(s \ {c(s)}) + 1
      BY Zenon
  <2>1. c(s) \in s
      BY Zenon
  <2> HIDE DEF c
  <2> QED
      BY <1>1, <2>1, Smaller, Zenon
<1> HIDE DEF c
<1>3. 0 \in G
  <2> DEFINE f == [s \in SUBSET U |-> 0]
  <2>1. \A s \in SUBSET U : Cardinality(s) <= 0 => s = {}
      BY <1>1
  <2>2. Upto(0, f)
      BY <2>1, Zenon
  <2> QED
      BY <2>2, Zenon
<1>4. ASSUME NEW n \in G
      PROVE  n + 1 \in G
  <2>1. PICK f : Upto(n, f)
      BY <1>4, Zenon
  <2> DEFINE g == [s \in SUBSET U |-> IF Cardinality(s) <= n THEN f[s]
                                      ELSE w[c(s)] + f[s \ {c(s)}]]
  <2>2. n \in Nat
      BY <1>4, Zenon
  <2>3. ASSUME NEW s \in SUBSET U, Cardinality(s) <= n + 1
        PROVE  g[s] = IF s = {} THEN 0 ELSE w[c(s)] + g[s \ {c(s)}]
    <3>1. CASE s = {}
      <4>1. Cardinality(s) <= n
          BY <1>1, <2>2, <2>3, <3>1
      <4> QED
          BY <2>1, <2>3, <3>1, <4>1, Zenon
    <3>2. CASE s # {}
      <4>1. Cardinality(s \ {c(s)}) <= n
          BY <1>2, <2>2, <2>3, <3>2
      <4>2. g[s \ {c(s)}] = f[s \ {c(s)}]
          BY <1>2, <2>3, <3>2, <4>1, Zenon
      <4>3. g[s] = w[c(s)] + f[s \ {c(s)}]
          BY <2>1, <2>3, <3>2, Zenon
      <4> QED
          BY <3>2, <4>2, <4>3, Zenon
    <3> QED
        BY <3>1, <3>2, Zenon
  <2>4. Upto(n + 1, g)
    <3> HIDE DEF g
    <3> QED
        BY <2>3, Zenon
  <2>5. n + 1 \in Nat
      BY <2>2
  <2> QED
      BY <2>4, <2>5, Zenon
<1>5. G = Nat
  <2>1. G \in SUBSET Nat
      BY Zenon
  <2> HIDE DEF G
  <2> QED
      BY <1>3, <1>4, <2>1, Climb, Zenon
<1>6. Cardinality(U) \in Nat /\ \A s \in SUBSET U : Cardinality(s) <= Cardinality(U)
    BY FS_Subset, FS_CardinalityType, Zenon
<1>7. PICK f : Upto(Cardinality(U), f)
    BY <1>5, <1>6, Zenon
<1> DEFINE g == [s \in SUBSET U |-> f[s]]
<1>8. ASSUME NEW s \in SUBSET U
      PROVE  g[s] = IF s = {} THEN 0 ELSE w[c(s)] + g[s \ {c(s)}]
  <2>1. f[s] = IF s = {} THEN 0 ELSE w[c(s)] + f[s \ {c(s)}]
      BY <1>6, <1>7, <1>8, Zenon
  <2>2. s # {} => g[s \ {c(s)}] = f[s \ {c(s)}]
      BY <1>2, <1>8, Zenon
  <2> QED
      BY <1>8, <2>1, <2>2, Zenon
<1>9. g = [s \in SUBSET U |-> IF s = {} THEN 0 ELSE w[c(s)] + g[s \ {c(s)}]]
  <2>1. g = [s \in SUBSET U |-> g[s]]
      BY Zenon
  <2> HIDE DEF g
  <2> QED
      BY <1>8, <2>1, Zenon
<1>10. Sums(U, w, g)
    BY <1>9, Zenon DEF Sums, c
<1> QED
    BY <1>10, Zenon

LEMMA SumsAgree ==
    ASSUME NEW U, IsFiniteSet(U), NEW w, NEW f, Sums(U, w, f),
           NEW V \in SUBSET U, NEW v, NEW g, Sums(V, v, g), \A x \in V : w[x] = v[x]
    PROVE  \A s \in SUBSET V : f[s] = g[s]
<1> DEFINE c(s) == CHOOSE x \in s : TRUE
           G == {n \in Nat : \A s \in SUBSET V : Cardinality(s) <= n => f[s] = g[s]}
<1>1. \A s \in SUBSET V : IsFiniteSet(s) /\ Cardinality(s) \in Nat /\ (Cardinality(s) = 0 <=> s = {})
    BY FS_Subset, FS_CardinalityType, FS_EmptySet, Zenon
<1>2. \A s \in SUBSET V : s # {} => c(s) \in s
    BY Zenon
<1>3. \A s \in SUBSET V :
        /\ f[s] = IF s = {} THEN 0 ELSE w[c(s)] + f[s \ {c(s)}]
        /\ g[s] = IF s = {} THEN 0 ELSE v[c(s)] + g[s \ {c(s)}]
    BY Zenon DEF Sums
<1> HIDE DEF c
<1>4. 0 \in G
  <2>1. \A s \in SUBSET V : Cardinality(s) <= 0 => s = {}
      BY <1>1
  <2> QED
      BY <1>3, <2>1, Zenon
<1>5. ASSUME NEW n \in G
      PROVE  n + 1 \in G
  <2>1. n \in Nat /\ n + 1 \in Nat
      BY <1>5
  <2>2. ASSUME NEW s \in SUBSET V, Cardinality(s) <= n + 1
        PROVE  f[s] = g[s]
    <3>1. CASE s = {}
        BY <1>3, <2>2, <3>1, Zenon
    <3>2. CASE s # {}
      <4>1. Cardinality(s \ {c(s)}) \in Nat /\ Cardinality(s) = Cardinality(s \ {c(s)}) + 1
          BY <1>1, <1>2, <2>2, <3>2, Smaller, Zenon
      <4>2. Cardinality(s \ {c(s)}) <= n
          BY <2>1, <2>2, <4>1
      <4>3. f[s \ {c(s)}] = g[s \ {c(s)}] /\ w[c(s)] = v[c(s)]
          BY <1>2, <1>5, <2>2, <3>2, <4>2, Zenon
      <4> QED
          BY <1>3, <2>2, <3>2, <4>3, Zenon
    <3> QED
        BY <3>1, <3>2, Zenon
  <2> QED
      BY <2>1, <2>2, Zenon
<1>6. G = Nat
  <2>1. G \in SUBSET Nat
      BY Zenon
  <2> HIDE DEF G
  <2> QED
      BY <1>4, <1>5, <2>1, Climb, Zenon
<1>7. ASSUME NEW s \in SUBSET V
      PROVE  f[s] = g[s]
  <2>1. Cardinality(s) \in Nat /\ Cardinality(s) <= Cardinality(s)
      BY <1>1, <1>7
  <2> QED
      BY <1>6, <1>7, <2>1, Zenon
<1> QED
    BY <1>7, Zenon

\* Whichever element is taken out first.
LEMMA SumsSplit ==
    ASSUME NEW U, IsFiniteSet(U), NEW w, \A x \in U : w[x] \in Int, NEW f, Sums(U, w, f)
    PROVE  \A s \in SUBSET U : /\ f[s] \in Int
                               /\ \A x \in s : f[s] = w[x] + f[s \ {x}]
<1> DEFINE c(s) == CHOOSE x \in s : TRUE
           Good(s) == f[s] \in Int /\ \A x \in s : f[s] = w[x] + f[s \ {x}]
           G == {n \in Nat : \A s \in SUBSET U : Cardinality(s) <= n => Good(s)}
<1>1. \A s \in SUBSET U : IsFiniteSet(s) /\ Cardinality(s) \in Nat /\ (Cardinality(s) = 0 <=> s = {})
    BY FS_Subset, FS_CardinalityType, FS_EmptySet, Zenon
<1>2. \A s \in SUBSET U : s # {} => c(s) \in s
    BY Zenon
<1>3. \A s \in SUBSET U : f[s] = IF s = {} THEN 0 ELSE w[c(s)] + f[s \ {c(s)}]
    BY Zenon DEF Sums
<1> HIDE DEF c
<1>4. 0 \in G
  <2>1. \A s \in SUBSET U : Cardinality(s) <= 0 => s = {}
      BY <1>1
  <2>2. 0 \in Nat /\ 0 \in Int
      OBVIOUS
  <2>3. \A s \in SUBSET U : s = {} => f[s] = 0
      BY <1>3, Zenon
  <2> QED
      BY <2>1, <2>2, <2>3, Zenon
<1>5. ASSUME NEW n \in G
      PROVE  n + 1 \in G
  <2>1. n \in Nat /\ n + 1 \in Nat
      BY <1>5
  <2>2. \A s \in SUBSET U : Cardinality(s) <= n => Good(s)
      BY <1>5, Zenon
  <2> HIDE DEF Good, G
  <2>3. ASSUME NEW s \in SUBSET U, s # {}, Cardinality(s) <= n + 1
        PROVE  f[s] \in Int /\ \A x \in s : f[s] = w[x] + f[s \ {x}]
    <3> DEFINE y == c(s)
    <3>1. \A x \in s : /\ s \ {x} \in SUBSET U /\ Good(s \ {x}) /\ w[x] \in Int /\ f[s \ {x}] \in Int
      <4> SUFFICES ASSUME NEW x \in s
                   PROVE  /\ s \ {x} \in SUBSET U /\ Good(s \ {x}) /\ w[x] \in Int
                          /\ f[s \ {x}] \in Int
          BY Zenon
      <4>1. Cardinality(s \ {x}) \in Nat /\ Cardinality(s) = Cardinality(s \ {x}) + 1
          BY <1>1, <2>3, Smaller, Zenon
      <4>2. Cardinality(s \ {x}) <= n
          BY <2>1, <2>3, <4>1
      <4>3. Good(s \ {x})
          BY <2>2, <2>3, <4>2, Zenon
      <4> QED
          BY <2>3, <4>3, Zenon DEF Good
    <3>2. y \in s /\ f[s] = w[y] + f[s \ {y}]
        BY <1>2, <1>3, <2>3, Zenon
    <3> HIDE DEF y
    <3>3. f[s] \in Int
        BY <3>1, <3>2
    <3>4. ASSUME NEW x \in s, x # y
          PROVE  f[s] = w[x] + f[s \ {x}]
      <4>1. x \in s \ {y} /\ y \in s \ {x}
          BY <3>2, <3>4, Zenon
      <4>2. f[s \ {y}] = w[x] + f[(s \ {y}) \ {x}] /\ f[s \ {x}] = w[y] + f[(s \ {x}) \ {y}]
          BY <3>1, <3>2, <3>4, <4>1, Zenon DEF Good
      <4>3. (s \ {y}) \ {x} = (s \ {x}) \ {y}
          BY Zenon
      <4>4. (s \ {x}) \ {y} \in SUBSET U
          BY <2>3, Zenon
      <4>5. Cardinality((s \ {x}) \ {y}) <= n
        <5>1. /\ IsFiniteSet(s \ {x}) /\ Cardinality(s \ {x}) \in Nat
              /\ Cardinality(s) = Cardinality(s \ {x}) + 1
            BY <1>1, <2>3, <3>4, Smaller, Zenon
        <5>2. /\ Cardinality((s \ {x}) \ {y}) \in Nat
              /\ Cardinality(s \ {x}) = Cardinality((s \ {x}) \ {y}) + 1
            BY <4>1, <5>1, Smaller, Zenon
        <5> QED
            BY <2>1, <2>3, <5>1, <5>2
      <4>6. f[(s \ {x}) \ {y}] \in Int
          BY <2>2, <4>4, <4>5, Zenon DEF Good
      <4>7. w[x] \in Int /\ w[y] \in Int
          BY <3>1, <3>2, <3>4, Zenon
      <4>8. w[y] + (w[x] + f[(s \ {x}) \ {y}]) = w[x] + (w[y] + f[(s \ {x}) \ {y}])
          BY <4>6, <4>7
      <4>9. f[s] = w[y] + (w[x] + f[(s \ {x}) \ {y}])
          BY <3>2, <4>2, <4>3, Zenon
      <4> QED
          BY <4>2, <4>8, <4>9, Zenon
    <3> QED
        BY <3>2, <3>3, <3>4, Zenon
  <2>4. ASSUME NEW s \in SUBSET U, s = {}
        PROVE  f[s] \in Int /\ \A x \in s : f[s] = w[x] + f[s \ {x}]
    <3>1. f[s] = 0
        BY <1>3, <2>4, Zenon
    <3> QED
        BY <2>4, <3>1
  <2>5. \A s \in SUBSET U : Cardinality(s) <= n + 1 => Good(s)
      BY <2>3, <2>4, Zenon DEF Good
  <2> QED
      BY <2>1, <2>5, Zenon DEF G
<1>6. G = Nat
  <2>1. G \in SUBSET Nat
      BY Zenon
  <2> HIDE DEF G
  <2> QED
      BY <1>4, <1>5, <2>1, Climb, Zenon
<1>7. ASSUME NEW s \in SUBSET U
      PROVE  Good(s)
  <2>1. Cardinality(s) \in Nat /\ Cardinality(s) <= Cardinality(s)
      BY <1>1, <1>7
  <2> QED
      BY <1>6, <1>7, <2>1, Zenon
<1> QED
    BY <1>7, Zenon

LEMMA SumEmpty == ASSUME NEW w PROVE Sum(w, {}) = 0
<1>1. \E f : Sums({}, w, f)
    BY SumsExist, FS_EmptySet, Zenon
<1>2. Sums({}, w, CHOOSE f : Sums({}, w, f))
    BY <1>1, Zenon
<1> QED
    BY <1>2, Zenon DEF Sums, Sum

LEMMA SumIs ==
    ASSUME NEW U, IsFiniteSet(U), NEW w, NEW f, Sums(U, w, f), NEW S \in SUBSET U,
           NEW v, \A x \in S : w[x] = v[x]
    PROVE  Sum(v, S) = f[S]
<1> DEFINE g == CHOOSE g : Sums(S, v, g)
<1>1. IsFiniteSet(S)
    BY FS_Subset, Zenon
<1>2. Sums(S, v, g)
  <2>1. \E h : Sums(S, v, h)
      BY <1>1, SumsExist, Zenon
  <2> QED
      BY <2>1, Zenon
<1>3. Sum(v, S) = g[S]
    BY Zenon DEF Sum
<1> HIDE DEF g
<1>4. \A s \in SUBSET S : f[s] = g[s]
    BY ONLY IsFiniteSet(U), Sums(U, w, f), S \in SUBSET U, \A x \in S : w[x] = v[x], <1>2, SumsAgree
<1> QED
    BY <1>3, <1>4, Zenon

LEMMA SumSame ==
    ASSUME NEW S, IsFiniteSet(S), NEW v, NEW w, \A x \in S : v[x] = w[x]
    PROVE  Sum(v, S) = Sum(w, S)
<1>1. PICK f : Sums(S, w, f)
    BY SumsExist, Zenon
<1>2. S \in SUBSET S /\ (\A x \in S : w[x] = w[x]) /\ (\A x \in S : w[x] = v[x])
    BY Zenon
<1> QED
    BY <1>1, <1>2, SumIs

LEMMA SumRemove ==
    ASSUME NEW S, IsFiniteSet(S), NEW w, \A x \in S : w[x] \in Int, NEW x \in S
    PROVE  /\ Sum(w, S) \in Int /\ Sum(w, S \ {x}) \in Int
           /\ Sum(w, S) = w[x] + Sum(w, S \ {x})
<1>1. PICK f : Sums(S, w, f)
    BY SumsExist, Zenon
<1>2. S \in SUBSET S /\ S \ {x} \in SUBSET S
    BY Zenon
<1>3. Sum(w, S) = f[S] /\ Sum(w, S \ {x}) = f[S \ {x}]
    BY <1>1, <1>2, SumIs
<1>4. \A s \in SUBSET S : f[s] \in Int /\ \A y \in s : f[s] = w[y] + f[s \ {y}]
    BY ONLY IsFiniteSet(S), \A y \in S : w[y] \in Int, <1>1, SumsSplit
<1> QED
    BY <1>2, <1>3, <1>4, Zenon

-----------------------------------------------------------------------------
(* The byte budget of the queue.                                           *)

LEMMA SumNat ==
    ASSUME NEW S, IsFiniteSet(S), NEW w, \A x \in S : w[x] \in Nat
    PROVE  Sum(w, S) \in Nat
<1> DEFINE G == {n \in Nat : \A R \in SUBSET S : Cardinality(R) = n => Sum(w, R) \in Nat}
<1>1. \A R \in SUBSET S : /\ IsFiniteSet(R) /\ Cardinality(R) \in Nat
                          /\ Cardinality(R) = 0 => R = {}
    BY FS_Subset, FS_CardinalityType, FS_EmptySet, Zenon
<1>2. 0 \in G
    BY <1>1, SumEmpty
<1>3. ASSUME NEW n \in G PROVE n + 1 \in G
    <2> SUFFICES ASSUME NEW R \in SUBSET S, Cardinality(R) = n + 1
                 PROVE  Sum(w, R) \in Nat
        BY <1>3
    <2>1. n \in Nat /\ R # {}
        <3>1. Cardinality({}) = 0
            BY FS_EmptySet, Zenon
        <3> QED
            BY <1>3, <3>1
    <2>2. PICK x \in R : TRUE
        BY <2>1, Zenon
    <2>3. Cardinality(R \ {x}) \in Nat /\ Cardinality(R) = Cardinality(R \ {x}) + 1
        BY <1>1, Smaller, Zenon
    <2>4. Sum(w, R \ {x}) \in Nat
        <3>1. Cardinality(R \ {x}) = n /\ R \ {x} \in SUBSET S
            BY <2>1, <2>3
        <3> QED
            BY <1>3, <3>1, Zenon
    <2>5. \A y \in R : w[y] \in Int
        BY DEF G
    <2>6. Sum(w, R) = w[x] + Sum(w, R \ {x}) /\ w[x] \in Nat
        BY <1>1, <2>5, SumRemove, Zenon
    <2> QED
        BY <2>4, <2>6
<1>4. G = Nat
    <2> HIDE DEF G
    <2>1. G \in SUBSET Nat
        BY Zenon DEF G
    <2> QED
        BY <1>2, <1>3, <2>1, Climb, Zenon
<1>5. Cardinality(S) \in Nat
    BY FS_CardinalityType, Zenon
<1>6. Cardinality(S) \in G
    <2> HIDE DEF G
    <2> QED
        BY <1>4, <1>5, Zenon
<1>7. S \in SUBSET S
    OBVIOUS
<1> QED
    BY <1>6, <1>7, Zenon

LEMMA SumZero ==
    ASSUME NEW S, IsFiniteSet(S), NEW w, \A x \in S : w[x] = 0
    PROVE  Sum(w, S) = 0
<1> DEFINE f == [s \in SUBSET S |-> 0]
<1>1. \A s \in SUBSET S : s # {} =>
        /\ (CHOOSE x \in s : TRUE) \in S /\ s \ {CHOOSE x \in s : TRUE} \in SUBSET S
        /\ w[CHOOSE x \in s : TRUE] + f[s \ {CHOOSE x \in s : TRUE}] = 0
    <2> SUFFICES ASSUME NEW s \in SUBSET S, s # {}, NEW x, x = CHOOSE y \in s : TRUE
                 PROVE  x \in S /\ s \ {x} \in SUBSET S /\ w[x] + f[s \ {x}] = 0
        BY Zenon
    <2>1. x \in S /\ s \ {x} \in SUBSET S
        BY Zenon
    <2>2. w[x] = 0 /\ f[s \ {x}] = 0
        BY <2>1, Zenon
    <2> QED
        BY <2>1, <2>2
<1>2. Sums(S, w, f)
    <2>1. \A s \in SUBSET S : 0 = IF s = {} THEN 0
                                   ELSE w[CHOOSE x \in s : TRUE] + f[s \ {CHOOSE x \in s : TRUE}]
        BY <1>1, Zenon
    <2>2. f = [s \in SUBSET S |-> IF s = {} THEN 0
                                  ELSE w[CHOOSE x \in s : TRUE] + f[s \ {CHOOSE x \in s : TRUE}]]
        <3> DEFINE g == f
        <3>1. \A s \in SUBSET S : 0 = IF s = {} THEN 0
                                       ELSE w[CHOOSE x \in s : TRUE] + g[s \ {CHOOSE x \in s : TRUE}]
            BY <2>1, Zenon
        <3> HIDE DEF g
        <3>2. [s \in SUBSET S |-> 0]
                = [s \in SUBSET S |-> IF s = {} THEN 0
                                      ELSE w[CHOOSE x \in s : TRUE] + g[s \ {CHOOSE x \in s : TRUE}]]
            BY <3>1, Zenon
        <3> QED
            BY <3>2, Zenon DEF g
    <2> HIDE DEF f
    <2> QED
        BY <2>2, Zenon DEF Sums
<1>3. S \in SUBSET S /\ (\A x \in S : w[x] = w[x]) /\ f[S] = 0
    BY Zenon
<1> HIDE DEF f
<1>4. Sum(w, S) = f[S]
    BY ONLY IsFiniteSet(S), <1>2, <1>3, SumIs
<1> QED
    BY <1>3, <1>4, Zenon

\* One weight of many changes.
LEMMA SumChange ==
    ASSUME NEW S, IsFiniteSet(S), NEW v, NEW w, NEW x \in S,
           \A y \in S : v[y] \in Int /\ w[y] \in Int, \A y \in S : y # x => v[y] = w[y]
    PROVE  /\ Sum(v, S) \in Int /\ Sum(w, S) \in Int
           /\ Sum(v, S) = Sum(w, S) + v[x] - w[x]
<1>1. (\A y \in S : v[y] \in Int) /\ (\A y \in S : w[y] \in Int) /\ v[x] \in Int /\ w[x] \in Int
    BY Zenon
<1>2. /\ Sum(v, S) \in Int /\ Sum(v, S \ {x}) \in Int /\ Sum(v, S) = v[x] + Sum(v, S \ {x})
      /\ Sum(w, S) \in Int /\ Sum(w, S \ {x}) \in Int /\ Sum(w, S) = w[x] + Sum(w, S \ {x})
    BY <1>1, SumRemove, Zenon
<1>3. Sum(v, S \ {x}) = Sum(w, S \ {x})
    <2>1. IsFiniteSet(S \ {x}) /\ \A y \in S \ {x} : v[y] = w[y]
        BY FS_Subset, Zenon
    <2> QED
        BY <2>1, SumSame, Zenon
<1> QED
    BY <1>1, <1>2, <1>3

\* Weights that move down by one place.
LEMMA SumShift ==
    ASSUME NEW n \in Nat, NEW v, NEW w, \A i \in 1..n : v[i] = w[i + 1] /\ v[i] \in Int
    PROVE  Sum(v, 1..n) = Sum(w, 2 .. n + 1)
<1> DEFINE G == {m \in Nat : m <= n => Sum(v, 1..m) = Sum(w, 2 .. m + 1)}
<1>1. 0 \in G
    <2>1. 1..0 = {} /\ 2 .. 0 + 1 = {}
        OBVIOUS
    <2> QED
        BY <2>1, SumEmpty, Zenon
<1>2. ASSUME NEW m \in G PROVE m + 1 \in G
    <2> SUFFICES ASSUME m + 1 <= n
                 PROVE  Sum(v, 1 .. m + 1) = Sum(w, 2 .. (m + 1) + 1)
        BY <1>2
    <2>1. m \in Nat /\ m <= n /\ Sum(v, 1..m) = Sum(w, 2 .. m + 1)
        BY <1>2
    <2>2. /\ IsFiniteSet(1 .. m + 1) /\ IsFiniteSet(2 .. (m + 1) + 1)
          /\ (1 .. m + 1) \ {m + 1} = 1..m /\ (2 .. (m + 1) + 1) \ {(m + 1) + 1} = 2 .. m + 1
          /\ m + 1 \in 1 .. m + 1 /\ (m + 1) + 1 \in 2 .. (m + 1) + 1
        <3>1. 1 \in Int /\ 2 \in Int /\ m + 1 \in Int /\ (m + 1) + 1 \in Int
            BY <2>1
        <3>2. IsFiniteSet(1 .. m + 1) /\ IsFiniteSet(2 .. (m + 1) + 1)
            BY <3>1, FS_Interval, Zenon
        <3> QED
            BY <2>1, <3>2
    <2>3. \A i \in 1 .. m + 1 : v[i] \in Int /\ v[i] = w[i + 1]
        BY <2>1
    <2>4. \A i \in 2 .. (m + 1) + 1 : w[i] \in Int
        <3> SUFFICES ASSUME NEW i \in 2 .. (m + 1) + 1 PROVE w[i] \in Int
            BY Zenon
        <3>1. i - 1 \in 1 .. m + 1 /\ (i - 1) + 1 = i
            BY <2>1
        <3> QED
            BY <2>3, <3>1, Zenon
    <2>5. Sum(v, 1 .. m + 1) = v[m + 1] + Sum(v, (1 .. m + 1) \ {m + 1})
        BY <2>2, <2>3, SumRemove, Zenon
    <2>6. Sum(w, 2 .. (m + 1) + 1) = w[(m + 1) + 1] + Sum(w, (2 .. (m + 1) + 1) \ {(m + 1) + 1})
        BY <2>2, <2>4, SumRemove, Zenon
    <2> QED
        BY <2>1, <2>2, <2>3, <2>5, <2>6, Zenon
<1>3. G = Nat
    <2> HIDE DEF G
    <2>1. G \in SUBSET Nat
        BY Zenon DEF G
    <2> QED
        BY <1>1, <1>2, <2>1, Climb, Zenon
<1> QED
    <2>1. n \in G /\ n <= n
        BY <1>3
    <2> QED
        BY <2>1, Zenon

LEMMA BytesIsSum ==
    ASSUME NEW ch \in Seq(Batch)
    PROVE  Bytes(ch) = Sum(Sized(ch), DOMAIN ch) /\ IsFiniteSet(DOMAIN ch)
<1> DEFINE U == DOMAIN ch
           w == Sized(ch)
<1>1. IsFiniteSet(U) /\ DOMAIN w = U
    <2>1. U = 1..Len(ch) /\ 1 \in Int /\ Len(ch) \in Int
        OBVIOUS
    <2> QED
        BY <2>1, FS_Interval, Zenon DEF Sized
<1>2. Bytes(ch) = (CHOOSE f : Sums(DOMAIN w, w, f))[DOMAIN w]
    BY Zenon DEF Bytes, SumFunction, SumFunctionOnSet, FoldFunctionOnSet, MapThenFoldSet, Sums
<1> QED
    BY <1>1, <1>2, Zenon DEF Sum

LEMMA BytesEmpty == Bytes(<<>>) = 0
<1>1. <<>> \in Seq(Batch) /\ DOMAIN <<>> = {}
    OBVIOUS
<1> QED
    BY <1>1, BytesIsSum, SumEmpty, Zenon

LEMMA SizedNat ==
    ASSUME ReceiveAssumption, NEW ch \in Seq(Batch)
    PROVE  \A i \in DOMAIN ch : Sized(ch)[i] = ch[i].bytes /\ Sized(ch)[i] \in Nat
<1>1. ASSUME NEW i \in DOMAIN ch PROVE ch[i] \in Batch
    BY <1>1
<1>2. ASSUME NEW x \in Batch PROVE x.bytes \in Nat
    BY <1>2, Zenon DEF Batch, ReceiveAssumption
<1> QED
    BY <1>1, <1>2, Zenon DEF Sized

LEMMA BytesAppend ==
    ASSUME ReceiveAssumption, NEW ch \in Seq(Batch), NEW x \in Batch
    PROVE  Bytes(Append(ch, x)) = Bytes(ch) + x.bytes /\ Bytes(ch) \in Nat /\ x.bytes \in Nat
<1> DEFINE long == Append(ch, x)
           n == Len(ch) + 1
<1>1. /\ long \in Seq(Batch) /\ n \in DOMAIN long /\ long[n] = x
      /\ DOMAIN long \ {n} = DOMAIN ch /\ \A i \in DOMAIN ch : long[i] = ch[i]
    <2>1. /\ long \in Seq(Batch) /\ Len(ch) \in Nat /\ DOMAIN ch = 1..Len(ch) /\ DOMAIN long = 1..n
          /\ long[n] = x
        OBVIOUS
    <2>2. \A i \in 1..Len(ch) : long[i] = ch[i]
        OBVIOUS
    <2>3. n \in 1..n /\ (1..n) \ {n} = 1..Len(ch)
        BY <2>1
    <2> QED
        BY <2>1, <2>2, <2>3, Zenon
<1> HIDE DEF long, n
<1>2. /\ Bytes(long) = Sum(Sized(long), DOMAIN long) /\ IsFiniteSet(DOMAIN long)
      /\ Bytes(ch) = Sum(Sized(ch), DOMAIN ch) /\ IsFiniteSet(DOMAIN ch)
    BY <1>1, BytesIsSum, Zenon
<1>3. /\ \A i \in DOMAIN long : Sized(long)[i] = long[i].bytes /\ Sized(long)[i] \in Nat
      /\ \A i \in DOMAIN ch : Sized(ch)[i] = ch[i].bytes /\ Sized(ch)[i] \in Nat
    BY <1>1, SizedNat, Zenon
<1>4. \A i \in DOMAIN long : Sized(long)[i] \in Int
    BY <1>3
<1>5. Sum(Sized(long), DOMAIN long) = Sized(long)[n] + Sum(Sized(long), DOMAIN long \ {n})
    BY <1>1, <1>2, <1>4, SumRemove, Zenon
<1>6. Sum(Sized(long), DOMAIN ch) = Sum(Sized(ch), DOMAIN ch)
    <2>1. \A i \in DOMAIN ch : i \in DOMAIN long
        BY <1>1, Zenon
    <2>2. \A i \in DOMAIN ch : Sized(long)[i] = Sized(ch)[i]
        BY <1>1, <1>3, <2>1, Zenon
    <2> QED
        BY <1>2, <2>2, SumSame, Zenon
<1>7. Sized(long)[n] = x.bytes /\ x.bytes \in Nat
    BY <1>1, <1>3, Zenon
<1>8. Bytes(ch) \in Nat
    BY <1>2, <1>3, SumNat, Zenon
<1>9. Bytes(long) = x.bytes + Bytes(ch)
    BY <1>1, <1>2, <1>5, <1>6, <1>7, Zenon
<1> QED
    BY <1>7, <1>8, <1>9 DEF long

LEMMA BytesTail ==
    ASSUME ReceiveAssumption, NEW ch \in Seq(Batch), ch # <<>>
    PROVE  /\ Bytes(ch) = Head(ch).bytes + Bytes(Tail(ch))
           /\ Bytes(Tail(ch)) \in Nat /\ Head(ch).bytes \in Nat
<1> DEFINE rest == Tail(ch)
           n == Len(rest)
<1>1. /\ rest \in Seq(Batch) /\ n \in Nat /\ DOMAIN rest = 1..n /\ DOMAIN ch = 1 .. n + 1
      /\ \A i \in 1..n : rest[i] = ch[i + 1] /\ i + 1 \in 1 .. n + 1
      /\ Head(ch) = ch[1] /\ 1 \in DOMAIN ch /\ (1 .. n + 1) \ {1} = 2 .. n + 1
    OBVIOUS
<1> HIDE DEF rest, n
<1>2. /\ Bytes(rest) = Sum(Sized(rest), DOMAIN rest) /\ IsFiniteSet(DOMAIN rest)
      /\ Bytes(ch) = Sum(Sized(ch), DOMAIN ch) /\ IsFiniteSet(DOMAIN ch)
    BY <1>1, BytesIsSum, Zenon
<1>3. /\ \A i \in DOMAIN rest : Sized(rest)[i] = rest[i].bytes /\ Sized(rest)[i] \in Nat
      /\ \A i \in DOMAIN ch : Sized(ch)[i] = ch[i].bytes /\ Sized(ch)[i] \in Nat
    BY <1>1, SizedNat, Zenon
<1>4. \A i \in DOMAIN ch : Sized(ch)[i] \in Int
    BY <1>3
<1>5. Sum(Sized(ch), DOMAIN ch) = Sized(ch)[1] + Sum(Sized(ch), DOMAIN ch \ {1})
    BY <1>1, <1>2, <1>4, SumRemove, Zenon
<1>6. Sum(Sized(rest), 1..n) = Sum(Sized(ch), 2 .. n + 1)
    <2>1. \A i \in 1..n : Sized(rest)[i] = Sized(ch)[i + 1]
        BY <1>1, <1>3, Zenon
    <2>2. \A i \in 1..n : Sized(rest)[i] \in Int
        BY <1>1, <1>3
    <2> QED
        BY <1>1, <2>1, <2>2, SumShift, Zenon
<1>7. Sized(ch)[1] = Head(ch).bytes /\ Head(ch).bytes \in Nat
    BY <1>1, <1>3, Zenon
<1>8. Bytes(rest) \in Nat
    BY <1>2, <1>3, SumNat, Zenon
<1>9. Bytes(ch) = Head(ch).bytes + Bytes(rest)
    BY <1>1, <1>2, <1>5, <1>6, <1>7, Zenon
<1> QED
    BY <1>7, <1>8, <1>9, Zenon DEF rest

\* What a worker has taken off the queue and not yet off the count.
Share(work) == [w \in Workers |-> IF work[w].pc = "take" THEN work[w].batch.bytes ELSE 0]
AtHand == Sum(Share(worker), Workers)
Sendings == [loop : Loops, bytes : Sizes] \cup {NoBatch}

\* espQueued lags what espCh holds by what is being sent and runs ahead of it by
\* what is being taken, so that no send can overrun the budget.
Budget ==
    /\ espTicket <= MaxTickets /\ Len(espCh) <= QueueCap /\ done \in BOOLEAN /\ free >= 0
    /\ espQueued \in Int /\ sending \in Sendings
    /\ espQueued + sending.bytes = Bytes(espCh) + AtHand
    /\ espQueued + sending.bytes <= QueueBytes

LEMMA SendingBytes ==
    ASSUME ReceiveAssumption
    PROVE  /\ \A x \in Sendings : x.bytes \in Nat
           /\ NoBatch.bytes = 0
<1>1. \A x \in [loop : Loops, bytes : Sizes] : x.bytes \in Nat
    BY Zenon DEF ReceiveAssumption
<1>2. NoBatch.bytes = 0 /\ 0 \in Nat
    BY DEF NoBatch
<1> QED
    BY <1>1, <1>2, Zenon DEF Sendings

LEMMA ShareNat ==
    ASSUME ReceiveAssumption, NEW work \in [Workers -> Working]
    PROVE  \A w \in Workers : Share(work)[w] \in Nat
<1> SUFFICES ASSUME NEW w \in Workers PROVE Share(work)[w] \in Nat
    BY Zenon
<1>1. CASE work[w].pc = "take"
    <2>1. work[w] \in Working
        BY Zenon
    <2>2. work[w].batch.bytes \in Nat
        BY <1>1, <2>1, Zenon DEF Working, Batch, ReceiveAssumption
    <2> QED
        BY <1>1, <2>2, Zenon DEF Share
<1>2. CASE work[w].pc # "take"
    <2>1. Share(work)[w] = 0 /\ 0 \in Nat
        BY <1>2 DEF Share
    <2> QED
        BY <2>1, Zenon
<1> QED
    BY <1>1, <1>2, Zenon

\* A worker that moves changes only its own share.
LEMMA ShareMoves ==
    ASSUME ReceiveAssumption, NEW work \in [Workers -> Working], NEW moved \in [Workers -> Working],
           NEW w \in Workers, \A v \in Workers : v # w => moved[v] = work[v]
    PROVE  /\ Sum(Share(moved), Workers) \in Nat /\ Sum(Share(work), Workers) \in Nat
           /\ Sum(Share(moved), Workers)
                 = Sum(Share(work), Workers) + Share(moved)[w] - Share(work)[w]
<1> DEFINE p == Share(work)
           q == Share(moved)
<1>1. (\A v \in Workers : p[v] \in Nat) /\ (\A v \in Workers : q[v] \in Nat)
    BY ShareNat, Zenon
<1>2. IsFiniteSet(Workers) /\ \A v \in Workers : v # w => q[v] = p[v]
    BY Zenon DEF Share, ReceiveAssumption
<1> HIDE DEF p, q
<1>3. \A v \in Workers : q[v] \in Int /\ p[v] \in Int
    BY <1>1
<1>4. Sum(q, Workers) = Sum(p, Workers) + q[w] - p[w]
    BY ONLY w \in Workers, <1>2, <1>3, SumChange
<1>5. Sum(q, Workers) \in Nat /\ Sum(p, Workers) \in Nat
    BY <1>1, <1>2, SumNat, Zenon
<1> QED
    BY <1>4, <1>5, Zenon DEF p, q

LEMMA BudgetInit ==
    ASSUME ReceiveAssumption, ReceiveInit
    PROVE  Budget
<1>1. /\ espCh = <<>> /\ espTicket = 0 /\ espQueued = 0 /\ sending = NoBatch /\ done = FALSE
      /\ free = Buffers /\ \A w \in Workers : worker[w] = Unoccupied
    BY Zenon DEF ReceiveInit
<1>2. AtHand = 0
    <2>1. \A w \in Workers : Share(worker)[w] = 0
        <3>1. Unoccupied.pc # "take"
            BY DEF Unoccupied
        <3> QED
            BY <1>1, <3>1, Zenon DEF Share
    <2> QED
        BY <2>1, SumZero, Zenon DEF AtHand, ReceiveAssumption
<1>3. Buffers >= 0
    <2>1. Cardinality(Workers) \in Nat
        BY FS_CardinalityType, Zenon DEF ReceiveAssumption
    <2> QED
        BY <2>1 DEF Buffers
<1>4. sending \in Sendings /\ sending.bytes = 0
    BY <1>1, SendingBytes, Zenon DEF Sendings
<1>5. Len(espCh) = 0 /\ Bytes(espCh) = 0
    BY <1>1, BytesEmpty
<1>6. QueueBytes \in Nat /\ QueueCap \in Nat /\ MaxTickets \in Nat
    BY Zenon DEF ReceiveAssumption
<1>7. /\ espTicket <= MaxTickets /\ Len(espCh) <= QueueCap /\ free >= 0 /\ espQueued \in Int
      /\ espQueued + sending.bytes = Bytes(espCh) + AtHand
      /\ espQueued + sending.bytes <= QueueBytes
    BY <1>1, <1>2, <1>3, <1>4, <1>5, <1>6
<1>8. done \in BOOLEAN
    BY <1>1, Zenon
<1> QED
    BY <1>4, <1>7, <1>8, Zenon DEF Budget

LEMMA BudgetStep ==
    ASSUME ReceiveAssumption, Pipeline, Pipeline', Budget, [ReceiveNext]_receiveVars
    PROVE  Budget'
<1>1. /\ espCh \in Seq(Batch) /\ espTicket \in Nat /\ free \in Int
      /\ worker \in [Workers -> Working] /\ worker' \in [Workers -> Working]
    BY Zenon DEF Pipeline, PipeTypes
<1>2. /\ espTicket <= MaxTickets /\ Len(espCh) <= QueueCap /\ done \in BOOLEAN /\ free >= 0
      /\ espQueued \in Int /\ sending \in Sendings /\ sending.bytes \in Nat
      /\ espQueued + sending.bytes = Bytes(espCh) + AtHand
      /\ espQueued + sending.bytes <= QueueBytes
    BY SendingBytes, Zenon DEF Budget
<1>3. QueueBytes \in Nat /\ QueueCap \in Nat /\ MaxTickets \in Nat
    BY Zenon DEF ReceiveAssumption
<1>4. ASSUME UNCHANGED <<espCh, espTicket, espQueued, sending>>,
             done' \in BOOLEAN, free' >= 0, AtHand' = AtHand
      PROVE  Budget'
    BY <1>2, <1>4, Zenon DEF Budget
\* A worker that has taken nothing and takes nothing.
<1>5. ASSUME NEW w \in Workers, \A v \in Workers : v # w => worker'[v] = worker[v],
             worker[w].pc # "take", worker'[w].pc # "take"
      PROVE  AtHand' = AtHand
    <2>1. Share(worker)[w] = 0 /\ Share(worker')[w] = 0
        BY <1>5, Zenon DEF Share
    <2>2. /\ Sum(Share(worker'), Workers) \in Nat /\ Sum(Share(worker), Workers) \in Nat
          /\ Sum(Share(worker'), Workers)
               = Sum(Share(worker), Workers) + Share(worker')[w] - Share(worker)[w]
        BY <1>1, <1>5, ShareMoves, Zenon
    <2>3. Sum(Share(worker'), Workers) = Sum(Share(worker), Workers)
        BY <2>1, <2>2
    <2> QED
        BY <2>3, Zenon DEF AtHand
<1>6. ASSUME NEW l \in Loops, NEW bytes \in Sizes, DispatchSend(l, bytes) PROVE Budget'
    <2> DEFINE b == [ticket |-> espTicket, bytes |-> bytes]
               s == [loop |-> l, bytes |-> bytes]
    <2>1. /\ sending = NoBatch /\ espTicket < MaxTickets /\ espQueued + bytes <= QueueBytes
          /\ Len(espCh) < QueueCap /\ espCh' = Append(espCh, b) /\ espTicket' = espTicket + 1
          /\ sending' = s /\ UNCHANGED <<espQueued, done, free, worker>>
        BY <1>6, Zenon DEF DispatchSend, poolVars
    <2>2. b \in Batch /\ b.bytes = bytes
        BY <1>1, Zenon DEF Batch
    <2>3. s \in Sendings /\ s.bytes = bytes
        BY Zenon DEF Sendings
    <2> HIDE DEF b, s
    <2>4. Bytes(espCh') = Bytes(espCh) + bytes /\ Bytes(espCh) \in Nat /\ bytes \in Nat
        BY <1>1, <2>1, <2>2, BytesAppend, Zenon
    <2>5. Len(espCh') = Len(espCh) + 1 /\ Len(espCh) \in Nat
        BY <1>1, <2>1, <2>2
    <2>6. sending.bytes = 0 /\ AtHand' = AtHand /\ AtHand \in Nat
        <3>1. AtHand \in Nat
            BY <1>1, ShareNat, SumNat, Zenon DEF AtHand, ReceiveAssumption
        <3> QED
            BY <2>1, <3>1, SendingBytes, Zenon DEF AtHand
    <2>7. /\ espTicket' <= MaxTickets /\ Len(espCh') <= QueueCap
          /\ espQueued' + sending'.bytes = Bytes(espCh') + AtHand'
          /\ espQueued' + sending'.bytes <= QueueBytes
        BY <1>1, <1>2, <1>3, <2>1, <2>3, <2>4, <2>5, <2>6
    <2> QED
        BY <1>2, <2>1, <2>3, <2>7, Zenon DEF Budget
<1>7. CASE DispatchAccount
    <2>1. /\ espQueued' = espQueued + sending.bytes /\ sending' = NoBatch
          /\ UNCHANGED <<espCh, espTicket, done, free, worker>>
        BY <1>7, Zenon DEF DispatchAccount, poolVars
    <2>2. sending' \in Sendings /\ sending'.bytes = 0
        BY <2>1, SendingBytes, Zenon DEF Sendings
    <2>3. espQueued' \in Int /\ espQueued' + sending'.bytes = espQueued + sending.bytes
        BY <1>2, <2>1, <2>2
    <2>4. Bytes(espCh') + AtHand' = Bytes(espCh) + AtHand
        BY <2>1, Zenon DEF AtHand
    <2> QED
        BY <1>2, <2>1, <2>2, <2>3, <2>4, Zenon DEF Budget
<1>8. ASSUME NEW w \in Workers, Work(w) PROVE Budget'
    <2>1. CASE TakeFree(w)
        <3>1. /\ worker[w] = Unoccupied /\ free > 0 /\ free' = free - 1
              /\ worker' = [worker EXCEPT ![w] = [pc |-> "recv"]]
              /\ UNCHANGED <<espCh, espTicket, espQueued, sending, done>>
            BY <2>1, Zenon DEF TakeFree, muxVars
        <3>2. worker[w].pc # "take" /\ worker'[w].pc # "take"
            BY <1>1, <3>1 DEF Unoccupied
        <3>3. \A v \in Workers : v # w => worker'[v] = worker[v]
            BY <1>1, <3>1, Zenon
        <3>4. free' >= 0
            BY <1>1, <3>1
        <3> QED
            BY <1>2, <1>4, <1>5, <3>1, <3>2, <3>3, <3>4, Zenon
    <2>2. CASE Recv(w)
        <3> DEFINE x == [pc |-> "take", batch |-> Head(espCh)]
        <3>1. /\ worker[w].pc = "recv" /\ espCh # <<>> /\ espCh' = Tail(espCh)
              /\ worker' = [worker EXCEPT ![w] = x]
              /\ UNCHANGED <<espTicket, espQueued, sending, done, free>>
            BY <2>2, Zenon DEF Recv
        <3>2. worker'[w] = x /\ \A v \in Workers : v # w => worker'[v] = worker[v]
            BY <1>1, <3>1, Zenon
        <3>3. Share(worker)[w] = 0 /\ Share(worker')[w] = Head(espCh).bytes
            <4>1. worker[w].pc # "take"
                BY <3>1
            <4>2. x.pc = "take" /\ x.batch = Head(espCh)
                OBVIOUS
            <4> QED
                BY <3>2, <4>1, <4>2, Zenon DEF Share
        <3>4. AtHand' = AtHand + Share(worker')[w] - Share(worker)[w] /\ AtHand \in Nat
            BY <1>1, <3>2, ShareMoves, Zenon DEF AtHand
        <3>5. /\ Bytes(espCh) = Head(espCh).bytes + Bytes(espCh')
              /\ Bytes(espCh') \in Nat /\ Head(espCh).bytes \in Nat
            BY <1>1, <3>1, BytesTail, Zenon
        <3>6. Len(espCh') <= Len(espCh) /\ Len(espCh) \in Nat /\ Len(espCh') \in Nat
            BY <1>1, <3>1
        <3>7. AtHand' = AtHand + Head(espCh).bytes - 0
            BY <3>3, <3>4, Zenon
        <3>8. Len(espCh') <= QueueCap
            BY <1>2, <1>3, <3>6
        <3>9. Bytes(espCh') + AtHand' = Bytes(espCh) + AtHand
            <4>1. AtHand \in Nat
                BY <3>4, Zenon
            <4> QED
                BY ONLY <3>5, <3>7, <4>1
        <3> QED
            BY <1>2, <3>1, <3>8, <3>9, Zenon DEF Budget
    <2>3. CASE TakeESP(w)
        <3>1. /\ worker[w].pc = "take" /\ espQueued' = espQueued - worker[w].batch.bytes
              /\ worker' = [worker EXCEPT ![w].pc = "decrypt"]
              /\ UNCHANGED <<espCh, espTicket, sending, done, free>>
            BY <2>3, Zenon DEF TakeESP
        <3>2. worker'[w].pc # "take" /\ \A v \in Workers : v # w => worker'[v] = worker[v]
            BY <1>1, <3>1
        <3>3. /\ Share(worker)[w] = worker[w].batch.bytes /\ Share(worker')[w] = 0
              /\ Share(worker)[w] \in Nat
            BY <1>1, <3>1, <3>2, ShareNat, Zenon DEF Share
        <3>4. AtHand' = AtHand + Share(worker')[w] - Share(worker)[w] /\ AtHand \in Nat /\ AtHand' \in Nat
            BY <1>1, <3>2, ShareMoves, Zenon DEF AtHand
        <3>5. Bytes(espCh) \in Nat
            BY <1>1, BytesIsSum, SizedNat, SumNat, Zenon
        <3> DEFINE k == worker[w].batch.bytes
        <3>6. k \in Nat /\ espQueued' = espQueued - k
            BY <3>1, <3>3, Zenon
        <3> HIDE DEF k
        <3>7. AtHand' = AtHand + 0 - k
            BY <3>3, <3>4, Zenon DEF k
        <3>8. /\ espQueued' \in Int /\ espQueued' + sending.bytes = Bytes(espCh) + AtHand'
              /\ espQueued' + sending.bytes <= QueueBytes
            <4>1. /\ espQueued \in Int /\ sending.bytes \in Nat
                  /\ espQueued + sending.bytes = Bytes(espCh) + AtHand
                  /\ espQueued + sending.bytes <= QueueBytes
                BY <1>2, Zenon
            <4>2. QueueBytes \in Nat /\ AtHand \in Nat
                BY <1>3, <3>4, Zenon
            <4> QED
                BY ONLY <4>1, <4>2, <3>5, <3>6, <3>7
        <3> QED
            BY <1>2, <3>1, <3>8, Zenon DEF Budget
    <2>4. CASE RecvFails(w)
        <3>1. /\ worker[w].pc = "recv" /\ free' = free + 1
              /\ worker' = [worker EXCEPT ![w] = [pc |-> "exited"]]
              /\ UNCHANGED <<espCh, espTicket, espQueued, sending, done>>
            BY <2>4, Zenon DEF RecvFails, muxVars
        <3>2. worker[w].pc # "take" /\ worker'[w].pc # "take"
            BY <1>1, <3>1
        <3>3. \A v \in Workers : v # w => worker'[v] = worker[v]
            BY <1>1, <3>1, Zenon
        <3>4. free' >= 0
            BY <1>1, <1>2, <3>1
        <3> QED
            BY <1>2, <1>4, <1>5, <3>1, <3>2, <3>3, <3>4, Zenon
    <2>5. CASE Decrypt(w)
        <3>1. /\ worker[w].pc = "decrypt" /\ worker' = [worker EXCEPT ![w] = Unoccupied]
              /\ UNCHANGED <<espCh, espTicket, espQueued, sending, done, free>>
            BY <2>5, Zenon DEF Decrypt, muxVars
        <3>2. worker[w].pc # "take" /\ worker'[w].pc # "take"
            BY <1>1, <3>1 DEF Unoccupied
        <3>3. \A v \in Workers : v # w => worker'[v] = worker[v]
            BY <1>1, <3>1, Zenon
        <3> QED
            BY <1>2, <1>4, <1>5, <3>1, <3>2, <3>3, Zenon
    <2> QED
        BY <1>8, <2>1, <2>2, <2>3, <2>4, <2>5, Zenon DEF Work
<1>9. CASE Merge
    <2> DEFINE run == Run(emitter.pending \cup completed, emitter.next)
    <2>1. free' = free + Cardinality(run) /\ UNCHANGED <<espCh, espTicket, espQueued, sending, done, worker>>
        BY <1>9, Zenon DEF Merge, Recycled, muxVars
    <2>2. Cardinality(run) \in Nat
        <3>1. IsFiniteSet(emitter.pending \cup completed)
            BY PipeFinite, FS_Union, Zenon DEF Pipeline, ReceiveAssumption
        <3>2. run \in SUBSET (emitter.pending \cup completed)
            BY Zenon DEF Run
        <3> QED
            BY <3>1, <3>2, FS_Subset, FS_CardinalityType, Zenon
    <2>3. free' >= 0
        BY <1>1, <1>2, <2>1, <2>2
    <2> QED
        BY <1>2, <1>4, <2>1, <2>3, Zenon DEF AtHand
<1>10. CASE Emit \/ FirstError \/ Join \/ Return \/ Close \/ UNCHANGED receiveVars
    <2>1. /\ UNCHANGED <<espCh, espTicket, espQueued, sending, worker, free>>
          /\ done' \in BOOLEAN
        BY <1>2, <1>10, Zenon DEF Emit, FirstError, Join, Return, Close, receiveVars, muxVars, poolVars
    <2> QED
        BY <1>2, <1>4, <2>1, Zenon DEF AtHand
<1> QED
    BY <1>6, <1>7, <1>8, <1>9, <1>10, Zenon DEF ReceiveNext

\* A parallel receiver commits the batches of the mux in the order in which
\* dispatchESP queued them, whichever worker is done first: what has been
\* emitted are the tickets 0, 1, 2, ... and no ticket is missing between the
\* queue and the emitter.  When receiveESP returns, nothing a worker took is
\* left behind and every buffer is back; and the queue never holds more than
\* its byte budget, although espQueued is added to after the send and taken
\* from after the receive.  This holds for any number of workers, receive
\* loops and batches, and for any sizes.
THEOREM InIntakeOrderTheorem ==
    ASSUME ReceiveAssumption
    PROVE  ReceiveSpec => []InIntakeOrder
<1> IsFiniteSet(Workers)
    BY Zenon DEF ReceiveAssumption
<1>1. ReceiveInit => Pipeline /\ Budget
    BY PipelineInit, BudgetInit, Zenon
<1>2. Pipeline /\ Budget /\ [ReceiveNext]_receiveVars => Pipeline' /\ Budget'
    BY PipelineStep, BudgetStep, Zenon
<1>3. ASSUME Pipeline PROVE EmittedInOrder
    <2>1. emitted \in Seq(Nat) /\ \A i \in 1..Len(emitted) : emitted[i] = i - 1
        BY <1>3, Zenon DEF Pipeline, PipeTypes, Ordered
    <2> QED
        BY <2>1 DEF EmittedInOrder
<1>4. ASSUME Pipeline PROVE NoGap
    <2>1. Taken = 0 .. Lead - 1
        BY <1>4, TakenBelow, Zenon
    <2>2. Lead \in Nat /\ espCh \in Seq(Batch) /\ espTicket = Lead + Len(espCh)
        BY <1>4 DEF Pipeline, PipeTypes, Lead
    <2>3. {espCh[i].ticket : i \in DOMAIN espCh} = Lead .. espTicket - 1
        <3>1. \A i \in 1..Len(espCh) : espCh[i].ticket = Lead + i - 1
            BY <1>4, Zenon DEF Pipeline, Placed
        <3>2. DOMAIN espCh = 1..Len(espCh) /\ Len(espCh) \in Nat
            BY <2>2
        <3>3. \A i \in 1..Len(espCh) : espCh[i].ticket \in Lead .. espTicket - 1
            BY <2>2, <3>1, <3>2
        <3>4. ASSUME NEW t \in Lead .. espTicket - 1 PROVE \E i \in 1..Len(espCh) : espCh[i].ticket = t
            <4>1. t - Lead + 1 \in 1..Len(espCh) /\ Lead + (t - Lead + 1) - 1 = t
                BY <2>2, <3>2
            <4> QED
                BY <3>1, <4>1, Zenon
        <3> QED
            BY <3>2, <3>3, <3>4, Zenon
    <2>4. (0 .. Lead - 1) \cup (Lead .. espTicket - 1) = 0 .. espTicket - 1
        BY <2>2
    <2>5. Cardinality(Taken) = Lead
        <3>1. Cardinality(0 .. Lead - 1) = IF 0 > Lead - 1 THEN 0 ELSE Lead - 1 - 0 + 1
            <4>1. 0 \in Int /\ Lead - 1 \in Int
                BY <2>2
            <4> QED
                BY <4>1, FS_Interval, Zenon
        <3> QED
            BY <2>1, <2>2, <3>1
    <2> QED
        BY <2>1, <2>3, <2>4, <2>5, Zenon DEF NoGap
<1>5. ASSUME Pipeline PROVE ReturnDrains
    <2> SUFFICES ASSUME receiver = "returned"
                 PROVE  /\ emitter.pending = {} /\ InWorkers = {}
                        /\ Taken = Elements(emitted) /\ free = Buffers
        BY Zenon DEF ReturnDrains
    <2>1. completed = {} /\ emitter.pc = "wait" /\ \A w \in Workers : worker[w].pc = "exited"
        BY <1>5, Zenon DEF Pipeline, Closing
    <2>2. InWorkers = {} /\ Occupied = {}
        BY <2>1, Zenon DEF InWorkers, Holding, Occupied
    <2>3. /\ emitter.pending = emitter.next .. Lead - 1 /\ Taken = 0 .. Lead - 1
          /\ Elements(emitted) = 0 .. Len(emitted) - 1
        BY <1>5, <2>1, <2>2, TakenBelow, Zenon
    <2>4. /\ emitter.next \notin emitter.pending /\ emitter.next \in Nat /\ Lead \in Nat
          /\ emitter.next <= Lead
        BY <1>5 DEF Pipeline, PipeTypes, Placed, Lead
    <2>5. emitter.next = Lead /\ emitter.pending = {}
        BY <2>3, <2>4
    <2>6. Len(emitted) = emitter.next
        BY <1>5, <2>1 DEF Pipeline, PipeTypes, Ordered
    <2>7. free = 2 * Cardinality(Workers)
        <3>1. Cardinality(Occupied) = 0 /\ Cardinality(completed) = 0 /\ Cardinality(emitter.pending) = 0
            BY <2>1, <2>2, <2>5, FS_EmptySet, Zenon
        <3>2. Cardinality(Workers) \in Nat /\ free \in Int
            BY <1>5, FS_CardinalityType, Zenon DEF Pipeline, PipeTypes
        <3> QED
            BY <1>5, <3>1, <3>2 DEF Pipeline, Pooled
    <2> QED
        BY <2>2, <2>3, <2>5, <2>6, <2>7, Zenon DEF Buffers
<1>6. ASSUME Pipeline, Budget PROVE BudgetHeld
    <2>1. AtHand \in Nat
        BY <1>6, ShareNat, SumNat, Zenon DEF AtHand, Pipeline, PipeTypes, ReceiveAssumption
    <2>2. Bytes(espCh) \in Nat
        <3>1. espCh \in Seq(Batch)
            BY <1>6, Zenon DEF Pipeline, PipeTypes
        <3> QED
            BY <3>1, BytesIsSum, SizedNat, SumNat, Zenon
    <2>3. Bytes(espCh) + AtHand <= QueueBytes /\ QueueBytes \in Nat
        BY <1>6, Zenon DEF Budget, ReceiveAssumption
    <2> QED
        BY <2>1, <2>2, <2>3 DEF BudgetHeld
<1>7. ASSUME Pipeline, Budget PROVE ReceiveTypeOK
    <2>1. /\ espCh \in Seq(Batch) /\ espTicket \in Nat /\ Len(espCh) <= espTicket /\ free \in Int
          /\ completed \in SUBSET Nat /\ emitter.pending \in SUBSET Nat /\ emitter.next \in Nat
          /\ receiver \in {"wait", "join", "drain", "returned"}
        BY <1>7 DEF Pipeline, PipeTypes
    <2>2. /\ espTicket <= MaxTickets /\ Len(espCh) <= QueueCap /\ done \in BOOLEAN /\ free >= 0
          /\ espQueued \in Int /\ MaxTickets \in Nat
        BY <1>7, Zenon DEF Budget, ReceiveAssumption
    <2>3. Lead \in Nat /\ Lead + Len(espCh) = espTicket /\ Len(espCh) \in Nat
        BY <2>1 DEF Lead
    <2>4. espCh \in Seq(Batches)
        <3>1. ASSUME NEW i \in 1..Len(espCh) PROVE espCh[i] \in Batches
            <4>1. espCh[i] \in Batch
                BY <2>1
            <4>2. espCh[i].ticket = Lead + i - 1
                BY <1>7, Zenon DEF Pipeline, Placed
            <4>3. espCh[i].ticket \in 0 .. MaxTickets - 1
                BY <2>2, <2>3, <4>2, <2>1
            <4> QED
                BY <4>1, <4>3 DEF Batch, Batches
        <3> QED
            BY <2>1, <3>1
    <2>5. /\ completed \cup emitter.pending \subseteq emitter.next .. Lead - 1
          /\ emitter.next <= Lead
        BY <1>7, Zenon DEF Pipeline, Placed
    <2>6. /\ completed \subseteq 0 .. MaxTickets - 1 /\ emitter.pending \subseteq 0 .. MaxTickets - 1
          /\ emitter.next \in 0..MaxTickets /\ espTicket \in 0..MaxTickets
        BY <2>1, <2>2, <2>3, <2>5
    <2>7. free \in 0..Buffers
        <3>1. /\ Cardinality(Occupied) \in Nat /\ Cardinality(completed) \in Nat
              /\ Cardinality(emitter.pending) \in Nat /\ Cardinality(Workers) \in Nat
            BY <1>7, PipeFinite, Zenon DEF Pipeline
        <3> QED
            BY <1>7, <2>1, <2>2, <3>1 DEF Pipeline, Pooled, Buffers
    <2> QED
        BY <2>1, <2>2, <2>4, <2>6, <2>7, Zenon DEF ReceiveTypeOK
<1>8. Pipeline /\ Budget => InIntakeOrder
    BY <1>3, <1>4, <1>5, <1>6, <1>7, Zenon DEF InIntakeOrder
<1> QED
    BY <1>1, <1>2, <1>8, PTL DEF ReceiveSpec
=============================================================================
