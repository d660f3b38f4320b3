---------------------------- MODULE SessionProofs ----------------------------
(***************************************************************************)
(* A session, from how it comes up to what it lets in: the two ends of an  *)
(* IKE handshake, for any number of dials and handshakes over a network    *)
(* that loses, repeats and overtakes, and the replay window of an SA, for  *)
(* every window and every range of sequence numbers, down to the words of  *)
(* its bitmap.                                                             *)
(***************************************************************************)
EXTENDS Handshake, ReplayWindow, ReplayMask, TLAPS

-----------------------------------------------------------------------------
(* The replay window's words: clearing a run of them is clearing a run of  *)
(* positions.                                                              *)

(* Division with remainder by a positive number.                           *)
LEMMA Division ==
    ASSUME NEW W \in Nat \ {0}, NEW a \in Nat
    PROVE  /\ a \div W \in Int
           /\ a % W \in 0 .. W - 1
           /\ a = W * (a \div W) + (a % W)
<1>1. a \div W \in Int
    BY SMT
<1>2. a % W \in 0 .. W - 1
    BY SMT
<1>3. a = W * (a \div W) + (a % W)
    BY SMT
<1> QED
    BY <1>1, <1>2, <1>3, Zenon

(* The remainder of a number written as a multiple and a remainder.        *)
LEMMA Remainder ==
    ASSUME NEW W \in Nat \ {0}, NEW q \in Int, NEW r \in 0 .. W - 1
    PROVE  (W * q + r) % W = r
    BY SMT

(* Moving d < W forward moves the position by d, around the window's end:  *)
(* the fact that turns all the bitmap's index arithmetic into additions.   *)
LEMMA Shift ==
    ASSUME NEW W \in Nat \ {0}, NEW a \in Nat, NEW d \in 0 .. W - 1
    PROVE  (a + d) % W = IF (a % W) + d < W
                         THEN (a % W) + d
                         ELSE (a % W) + d - W
<1> DEFINE q == a \div W
           r == a % W
<1>1. q \in Int /\ r \in 0 .. W - 1 /\ a = W * q + r
    BY Division, Zenon
<1> HIDE DEF q, r
<1>2. CASE r + d < W
    <2>1. r + d \in 0 .. W - 1
        BY <1>1, <1>2
    <2>2. (W * q + (r + d)) % W = r + d
        BY <1>1, <2>1, Remainder, Zenon
    <2> QED
        BY <1>1, <1>2, <2>2 DEF r
<1>3. CASE ~(r + d < W)
    <2>1. r + d - W \in 0 .. W - 1 /\ q + 1 \in Int
        BY <1>1, <1>3
    <2>2. (W * (q + 1) + (r + d - W)) % W = r + d - W
        BY <2>1, Remainder, Zenon
    <2>3. W * (q + 1) + (r + d - W) = W * q + r + d
        BY <1>1, SMT
    <2> QED
        BY <1>1, <1>3, <2>2, <2>3, Zenon DEF r
<1> QED
    BY <1>2, <1>3, Zenon

(* The word and the bit a position lies in are the only ones it is made of.*)
LEMMA Quotient ==
    ASSUME NEW W \in Nat \ {0}, NEW q \in Int, NEW r \in 0 .. W - 1
    PROVE  (W * q + r) \div W = q
    BY SMT

(* A later word starts after the end of an earlier one.                    *)
LEMMA LaterWord ==
    ASSUME NEW W \in Nat \ {0}, NEW i \in Int, NEW j \in Int, i < j
    PROVE  W * i + W <= W * j
<1> DEFINE d == j - i
<1>1. d \in Nat /\ d >= 1 /\ j = i + d
    OBVIOUS
<1> HIDE DEF d
<1>2. W * d >= W
    BY <1>1, SMT
<1>3. W * (i + d) = W * i + W * d
    BY <1>1, SMT
<1> QED
    BY <1>1, <1>2, <1>3

(* Every position has a word and a bit.                                    *)
LEMMA PositionHasWord ==
    ASSUME NEW p \in 0 .. Positions - 1
    PROVE  /\ p \div WordSize \in Words
           /\ p % WordSize \in WordBits
           /\ p = WordSize * (p \div WordSize) + (p % WordSize)
<1> DEFINE W == WordSize
           q == p \div W
           r == p % W
           N == (Positions + W - 1) \div W
           s == (Positions + W - 1) % W
<1>1. W \in Nat \ {0} /\ Positions \in Nat \ {0} /\ p \in Nat /\ Positions + W - 1 \in Nat
    BY MaskAssumption
<1>2. q \in Int /\ r \in 0 .. W - 1 /\ p = W * q + r
    BY <1>1, Division, Zenon
<1>3. N \in Int /\ s \in 0 .. W - 1 /\ Positions + W - 1 = W * N + s
    BY <1>1, Division, Zenon
<1>4. q \in Nat
    BY <1>1, SMT
<1> HIDE DEF W, q, r, N, s
<1>5. q < N
    <2> SUFFICES ASSUME N <= q PROVE FALSE
        BY <1>2, <1>3
    <2>1. CASE N = q
        BY <1>1, <1>2, <1>3, <2>1
    <2>2. CASE N < q
        <3>1. W * N + W <= W * q
            BY <1>1, <1>2, <1>3, <2>2, LaterWord, Zenon
        <3> QED
            BY <1>1, <1>2, <1>3, <3>1
    <2> QED
        BY <1>2, <1>3, <2>1, <2>2
<1>6. q \in 0 .. N - 1
    BY <1>3, <1>4, <1>5
<1> QED
    BY <1>2, <1>6, Zenon DEF W, q, r, N, Words, WordBits

\* The position of bit b of word i lies in the n positions from start.
In(i, b, start, n) == start <= WordSize * i + b /\ WordSize * i + b < start + n

(* clearSpan clears the bits of its span and no other: in one word, or in  *)
(* the rest of the first, the start of the last and the words between.     *)
LEMMA SpanCleared ==
    ASSUME NEW words \in [Words -> SUBSET WordBits],
           NEW start \in Nat, NEW n \in Nat, start + n <= Positions
    PROVE  /\ ClearSpan(words, start, n) \in [Words -> SUBSET WordBits]
           /\ \A i \in Words, b \in WordBits :
                  b \in ClearSpan(words, start, n)[i] <=> b \in words[i] /\ ~In(i, b, start, n)
<1>1. CASE n = 0
    <2>1. ClearSpan(words, start, n) = words
        BY <1>1, Zenon DEF ClearSpan
    <2>2. ASSUME NEW i \in Words, NEW b \in WordBits PROVE ~In(i, b, start, n)
        <3>1. WordSize * i + b \in Int
            BY MaskAssumption DEF Words, WordBits
        <3> DEFINE p == WordSize * i + b
        <3> HIDE DEF p
        <3>2. ~(start <= p /\ p < start + n)
            BY <1>1, <3>1 DEF p
        <3> QED
            BY <3>2, Zenon DEF p, In
    <2> QED
        BY <2>1, <2>2, Zenon
<1>2. CASE n # 0
    <2> DEFINE W == WordSize
               end == start + n
               first == start \div W
               offset == start % W
               last == (end - 1) \div W
               rest == (end - 1) % W
               tail == end % W
    <2>1. W \in Nat \ {0} /\ start \in 0 .. Positions - 1 /\ end - 1 \in 0 .. Positions - 1
        BY <1>2, MaskAssumption
    <2>2. first \in Words /\ offset \in 0 .. W - 1 /\ start = W * first + offset
        BY <2>1, PositionHasWord, Zenon DEF WordBits
    <2>3. last \in Words /\ rest \in 0 .. W - 1 /\ end - 1 = W * last + rest
        BY <2>1, PositionHasWord, Zenon DEF WordBits
    <2>4. tail = IF rest = W - 1 THEN 0 ELSE rest + 1
        <3>1. CASE rest = W - 1
            <4>1. end = W * (last + 1) + 0 /\ last + 1 \in Int /\ 0 \in 0 .. W - 1
                BY <2>1, <2>3, <3>1 DEF Words
            <4>2. (W * (last + 1) + 0) % W = 0
                BY <2>1, <4>1, Remainder, Zenon
            <4> QED
                BY <3>1, <4>1, <4>2, Zenon
        <3>2. CASE rest # W - 1
            <4>1. end = W * last + (rest + 1) /\ last \in Int /\ rest + 1 \in 0 .. W - 1
                BY <2>1, <2>3, <3>2 DEF Words
            <4>2. (W * last + (rest + 1)) % W = rest + 1
                BY <2>1, <4>1, Remainder, Zenon
            <4> QED
                BY <3>2, <4>1, <4>2, Zenon
        <3> QED
            BY <3>1, <3>2, Zenon
    <2> DEFINE whole == (IF offset # 0 THEN first + 1 ELSE first)
                        .. (IF tail # 0 THEN last - 1 ELSE last)
               Cleared(i) ==
                   CASE i \in whole -> WordBits
                     [] i = first /\ i \notin whole -> offset .. W - 1
                     [] i = last /\ i \notin whole /\ i # first -> 0 .. tail - 1
                     [] OTHER -> {}
    <2>5. first = last =>
              ClearSpan(words, start, n) = [words EXCEPT ![first] = @ \ (offset .. offset + n - 1)]
        BY <1>2, Zenon DEF ClearSpan
    <2>6. first # last =>
              ClearSpan(words, start, n) = [i \in Words |-> words[i] \ Cleared(i)]
        BY <1>2, Zenon DEF ClearSpan
    <2> HIDE DEF first, offset, last, rest, tail, whole, Cleared
    <2>7. ASSUME NEW i \in Words, NEW j \in Words, i < j
          PROVE  W * i + W <= W * j
        BY <2>1, <2>7, LaterWord DEF Words
    <2>8. ASSUME NEW i \in Words, NEW b \in WordBits
          PROVE  W * i \in Int /\ W * first \in Int /\ W * last \in Int
                 /\ b \in 0 .. W - 1 /\ i \in Int /\ first \in Int /\ last \in Int
        BY <2>1, <2>2, <2>3 DEF Words, WordBits
    <2>9. CASE first = last
        <3>1. ASSUME NEW i \in Words, NEW b \in WordBits
              PROVE  In(i, b, start, n) <=> i = first /\ b \in offset .. offset + n - 1
            <4>1. CASE i = first
                BY <2>1, <2>2, <2>8, <4>1 DEF In
            <4>2. CASE i < first
                <5>1. W * i + W <= W * first
                    BY <2>2, <2>7, <4>2, Zenon
                <5> QED
                    BY <2>1, <2>2, <2>8, <4>2, <5>1 DEF In
            <4>3. CASE first < i
                <5>1. W * first + W <= W * i
                    BY <2>2, <2>7, <4>3, Zenon
                <5> QED
                    BY <2>1, <2>2, <2>3, <2>8, <2>9, <4>3, <5>1 DEF In
            <4> QED
                BY <2>8, <4>1, <4>2, <4>3
        <3> QED
            BY <2>2, <2>5, <2>9, <3>1, Zenon
    <2>10. CASE first # last
        <3>1. ASSUME NEW i \in Words, NEW b \in WordBits
              PROVE  b \in Cleared(i) <=> In(i, b, start, n)
            <4>1. W * i \in Int /\ W * first \in Int /\ W * last \in Int
                  /\ b \in 0 .. W - 1 /\ i \in Int /\ first \in Int /\ last \in Int
                BY <2>8, Zenon
            <4>2. first < last
                <5>1. last < first => W * last + W <= W * first
                    BY <2>2, <2>3, <2>7, Zenon
                <5> QED
                    BY <1>2, <2>1, <2>2, <2>3, <2>10, <4>1, <5>1
            <4>3. W * first + W <= W * last
                BY <2>2, <2>3, <2>7, <4>2, Zenon
            <4>4. CASE i < first
                <5>1. W * i + W <= W * first
                    BY <2>2, <2>7, <4>4, Zenon
                <5>2. i \notin whole /\ i # first /\ i # last
                    BY <4>1, <4>2, <4>4 DEF whole
                <5>3. ~In(i, b, start, n)
                    BY <2>1, <2>2, <4>1, <5>1 DEF In
                <5>4. Cleared(i) = {}
                    BY <5>2, Zenon DEF Cleared
                <5> QED
                    BY <5>3, <5>4, Zenon
            <4>5. CASE i = first /\ offset = 0
                <5>1. i \in whole
                    BY <4>1, <4>2, <4>5 DEF whole
                <5>2. In(i, b, start, n)
                    BY <2>1, <2>2, <2>3, <4>1, <4>3, <4>5 DEF In
                <5>3. Cleared(i) = WordBits
                    BY <5>1, Zenon DEF Cleared
                <5> QED
                    BY <5>2, <5>3, Zenon
            <4>6. CASE i = first /\ offset # 0
                <5>1. i \notin whole
                    BY <4>1, <4>6 DEF whole
                <5>2. In(i, b, start, n) <=> b \in offset .. W - 1
                    BY <2>1, <2>2, <2>3, <4>1, <4>3, <4>6 DEF In
                <5>3. Cleared(i) = offset .. W - 1
                    BY <4>6, <5>1, Zenon DEF Cleared
                <5> QED
                    BY <5>2, <5>3, Zenon
            <4>7. CASE first < i /\ i < last
                <5>1. W * first + W <= W * i /\ W * i + W <= W * last
                    BY <2>2, <2>3, <2>7, <4>7, Zenon
                <5>2. i \in whole
                    BY <4>1, <4>7 DEF whole
                <5>3. In(i, b, start, n)
                    BY <2>1, <2>2, <2>3, <4>1, <5>1 DEF In
                <5>4. Cleared(i) = WordBits
                    BY <5>2, Zenon DEF Cleared
                <5> QED
                    BY <5>3, <5>4, Zenon
            <4>8. CASE i = last /\ tail = 0
                <5>1. rest = W - 1
                    BY <2>1, <2>3, <2>4, <4>8
                <5>2. i \in whole
                    BY <4>1, <4>2, <4>8 DEF whole
                <5>3. In(i, b, start, n)
                    BY <2>1, <2>2, <2>3, <4>1, <4>3, <4>8, <5>1 DEF In
                <5>4. Cleared(i) = WordBits
                    BY <5>2, Zenon DEF Cleared
                <5> QED
                    BY <5>3, <5>4, Zenon
            <4>9. CASE i = last /\ tail # 0
                <5>1. tail = rest + 1
                    BY <2>4, <4>9, Zenon
                <5>2. i \notin whole /\ i # first
                    BY <4>1, <4>2, <4>9 DEF whole
                <5>3. In(i, b, start, n) <=> b \in 0 .. tail - 1
                    BY <2>1, <2>2, <2>3, <4>1, <4>3, <4>9, <5>1 DEF In
                <5>4. Cleared(i) = 0 .. tail - 1
                    BY <4>9, <5>2, Zenon DEF Cleared
                <5> QED
                    BY <5>3, <5>4, Zenon
            <4>10. CASE last < i
                <5>1. W * last + W <= W * i
                    BY <2>3, <2>7, <4>10, Zenon
                <5>2. i \notin whole /\ i # first /\ i # last
                    BY <4>1, <4>2, <4>10 DEF whole
                <5>3. ~In(i, b, start, n)
                    BY <2>1, <2>3, <4>1, <5>1 DEF In
                <5>4. Cleared(i) = {}
                    BY <5>2, Zenon DEF Cleared
                <5> QED
                    BY <5>3, <5>4, Zenon
            <4>11. i < first \/ i = first \/ (first < i /\ i < last) \/ i = last \/ last < i
                BY <4>1
            <4> QED
                BY <4>4, <4>5, <4>6, <4>7, <4>8, <4>9, <4>10, <4>11, Zenon
        <3> QED
            BY <2>6, <2>10, <3>1, Zenon
    <2> QED
        BY <2>9, <2>10, Zenon
<1> QED
    BY <1>1, <1>2, Zenon

(* clearRange clears the positions from start that wrap at the window, in  *)
(* one span or in two.                                                     *)
LEMMA WordsCleared ==
    ASSUME NEW words \in [Words -> SUBSET WordBits],
           NEW start \in 1..Positions, NEW n \in 0 .. Positions - 2
    PROVE  /\ ClearWords(words, start, n) \in [Words -> SUBSET WordBits]
           /\ \A i \in Words, b \in WordBits :
                  b \in ClearWords(words, start, n)[i] <=>
                      /\ b \in words[i]
                      /\ WordSize * i + b \notin {(start + k) % Positions : k \in 0 .. n - 1}
<1> DEFINE P == Positions
           first == start % P
           head == P - first
           Gone == {(start + k) % P : k \in 0 .. n - 1}
<1>1. P \in Nat \ {0} /\ start \in Nat /\ n \in Nat /\ n <= P
    BY MaskAssumption
<1>2. first \in 0 .. P - 1
    BY <1>1, Division, Zenon
<1>3. ASSUME NEW k \in 0 .. n - 1
      PROVE  (start + k) % P = IF first + k < P THEN first + k ELSE first + k - P
    <2>1. k \in 0 .. P - 1
        BY <1>1
    <2> QED
        BY <1>1, <2>1, Shift, Zenon
<1>4. n = 0 => ClearWords(words, start, n) = words
    BY Zenon DEF ClearWords
<1>5. n # 0 /\ first + n > P =>
          ClearWords(words, start, n) = ClearSpan(ClearSpan(words, first, head), 0, n - head)
    BY Zenon DEF ClearWords
<1>6. n # 0 /\ ~(first + n > P) => ClearWords(words, start, n) = ClearSpan(words, first, n)
    BY Zenon DEF ClearWords
<1> HIDE DEF first, P
<1>7. ASSUME NEW p \in Nat
      PROVE  p \in Gone <=> \/ first <= p /\ p < first + n /\ p < P
                            \/ 0 <= p /\ p < first + n - P
    <2>1. ASSUME p \in Gone
          PROVE  \/ first <= p /\ p < first + n /\ p < P
                 \/ 0 <= p /\ p < first + n - P
        <3>1. PICK k \in 0 .. n - 1 : p = (start + k) % P
            BY <2>1, Zenon
        <3>2. p = IF first + k < P THEN first + k ELSE first + k - P
            BY <1>3, <3>1, Zenon
        <3> QED
            BY <1>1, <1>2, <3>2
    <2>2. ASSUME first <= p, p < first + n, p < P PROVE p \in Gone
        <3> DEFINE k == p - first
        <3>1. k \in 0 .. n - 1 /\ first + k < P /\ first + k = p
            BY <1>1, <1>2, <2>2
        <3> HIDE DEF k
        <3>2. (start + k) % P = p
            BY <1>3, <3>1, Zenon
        <3> QED
            BY <3>1, <3>2, Zenon
    <2>3. ASSUME p < first + n - P PROVE p \in Gone
        <3> DEFINE k == p + P - first
        <3>1. k \in 0 .. n - 1 /\ ~(first + k < P) /\ first + k - P = p
            BY <1>1, <1>2, <2>3
        <3> HIDE DEF k
        <3>2. (start + k) % P = p
            BY <1>3, <3>1, Zenon
        <3> QED
            BY <3>1, <3>2, Zenon
    <2> QED
        BY <2>1, <2>2, <2>3, Zenon
<1> HIDE DEF Gone
<1>8. CASE n = 0
    <2>1. Gone = {}
        BY <1>8 DEF Gone
    <2> QED
        BY <1>4, <1>8, <2>1, Zenon DEF Gone, P
<1>9. CASE n # 0 /\ first + n > P
    <2>1. head \in Nat /\ first \in Nat /\ first + head <= P
          /\ n - head \in Nat /\ 0 \in Nat /\ 0 + (n - head) <= P
        BY <1>1, <1>2, <1>9
    <2> DEFINE once == ClearSpan(words, first, head)
    <2>2. /\ once \in [Words -> SUBSET WordBits]
          /\ \A i \in Words, b \in WordBits :
                 b \in once[i] <=> b \in words[i] /\ ~In(i, b, first, head)
        BY <2>1, SpanCleared, Zenon DEF P
    <2> HIDE DEF once
    <2> DEFINE twice == ClearSpan(once, 0, n - head)
    <2>3. /\ twice \in [Words -> SUBSET WordBits]
          /\ \A i \in Words, b \in WordBits :
                 b \in twice[i] <=> b \in once[i] /\ ~In(i, b, 0, n - head)
        BY <2>1, <2>2, SpanCleared, Zenon DEF P
    <2>4. ClearWords(words, start, n) = twice
        BY <1>5, <1>9, Zenon DEF once
    <2> HIDE DEF twice
    <2>5. ASSUME NEW i \in Words, NEW b \in WordBits
          PROVE  WordSize * i + b \in Gone <=> In(i, b, first, head) \/ In(i, b, 0, n - head)
        <3> DEFINE p == WordSize * i + b
        <3>1. p \in Nat
            BY MaskAssumption DEF Words, WordBits
        <3>2. p \in Gone <=> \/ first <= p /\ p < first + n /\ p < P
                             \/ 0 <= p /\ p < first + n - P
            BY <1>7, <3>1, Zenon
        <3>3. In(i, b, first, head) <=> first <= p /\ p < first + head
            BY Zenon DEF In
        <3>4. In(i, b, 0, n - head) <=> 0 <= p /\ p < 0 + (n - head)
            BY Zenon DEF In
        <3> HIDE DEF p
        <3>5. p \in Gone <=> In(i, b, first, head) \/ In(i, b, 0, n - head)
            BY <1>1, <1>2, <1>9, <3>1, <3>2, <3>3, <3>4
        <3> QED
            BY <3>5, Zenon DEF p
    <2> QED
        BY <2>2, <2>3, <2>4, <2>5, Zenon DEF Gone, P
<1>10. CASE n # 0 /\ ~(first + n > P)
    <2>1. first \in Nat /\ first + n <= P
        BY <1>1, <1>2, <1>10
    <2>2. /\ ClearSpan(words, first, n) \in [Words -> SUBSET WordBits]
          /\ \A i \in Words, b \in WordBits :
                 b \in ClearSpan(words, first, n)[i] <=> b \in words[i] /\ ~In(i, b, first, n)
        BY <1>1, <2>1, SpanCleared, Zenon DEF P
    <2>3. ASSUME NEW i \in Words, NEW b \in WordBits
          PROVE  WordSize * i + b \in Gone <=> In(i, b, first, n)
        <3> DEFINE p == WordSize * i + b
        <3>1. p \in Nat
            BY MaskAssumption DEF Words, WordBits
        <3>2. p \in Gone <=> \/ first <= p /\ p < first + n /\ p < P
                             \/ 0 <= p /\ p < first + n - P
            BY <1>7, <3>1, Zenon
        <3>3. In(i, b, first, n) <=> first <= p /\ p < first + n
            BY Zenon DEF In
        <3> HIDE DEF p
        <3>4. p \in Gone <=> In(i, b, first, n)
            BY <1>1, <1>2, <1>10, <3>1, <3>2, <3>3
        <3> QED
            BY <3>4, Zenon DEF p
    <2> QED
        BY <1>6, <1>10, <2>2, <2>3, Zenon DEF Gone, P
<1> QED
    BY <1>8, <1>9, <1>10, Zenon

(* The words hold exactly the positions marked and not cleared since.      *)
THEOREM WordsAreThePositionsTheorem == MaskSpec => []WordsAreThePositions
<1>1. MaskInit => WordsAreThePositions
    BY Zenon DEF MaskInit, WordsAreThePositions, MaskTypeOK
<1>2. WordsAreThePositions /\ [MaskNext]_maskVars => WordsAreThePositions'
    <2> SUFFICES ASSUME WordsAreThePositions, [MaskNext]_maskVars
                 PROVE  WordsAreThePositions'
        OBVIOUS
    <2> USE DEF MaskTypeOK
    <2>1. ASSUME NEW bit \in 0 .. Positions - 1, Mark(bit) PROVE WordsAreThePositions'
        <3> DEFINE q == bit \div WordSize
                   r == bit % WordSize
        <3>1. q \in Words /\ r \in WordBits /\ bit = WordSize * q + r
            BY PositionHasWord, Zenon
        <3>2. bitmap' = [bitmap EXCEPT ![q] = @ \cup {r}] /\ marked' = marked \cup {bit}
            BY <2>1, Zenon DEF Mark, Marked
        <3> HIDE DEF q, r
        <3>3. ASSUME NEW i \in Words, NEW b \in WordBits
              PROVE  WordSize * i + b = bit <=> i = q /\ b = r
            <4>1. WordSize \in Nat \ {0} /\ i \in Int /\ q \in Int
                  /\ b \in 0 .. WordSize - 1 /\ r \in 0 .. WordSize - 1
                BY <3>1, MaskAssumption DEF Words, WordBits
            <4>2. (WordSize * i + b) \div WordSize = i /\ (WordSize * q + r) \div WordSize = q
                BY <4>1, Quotient, Zenon
            <4>3. (WordSize * i + b) % WordSize = b /\ (WordSize * q + r) % WordSize = r
                BY <4>1, Remainder, Zenon
            <4> QED
                BY <3>1, <4>2, <4>3, Zenon
        <3>4. bitmap' \in [Words -> SUBSET WordBits] /\ marked' \subseteq 0 .. Positions - 1
            BY <3>1, <3>2, Zenon DEF WordsAreThePositions
        <3>5. ASSUME NEW i \in Words, NEW b \in WordBits
              PROVE  b \in bitmap'[i] <=> WordSize * i + b \in marked'
            <4>1. b \in bitmap'[i] <=> b \in bitmap[i] \/ (i = q /\ b = r)
                BY <3>1, <3>2, Zenon DEF WordsAreThePositions
            <4> QED
                BY <3>2, <3>3, <4>1, Zenon DEF WordsAreThePositions
        <3> QED
            BY <3>4, <3>5, Zenon DEF WordsAreThePositions
    <2>2. CASE ClearAll
        BY <2>2, Zenon DEF ClearAll, WordsAreThePositions
    <2>3. ASSUME NEW start \in 1..Positions, NEW n \in 0 .. Positions - 2, Clear(start, n)
          PROVE  WordsAreThePositions'
        <3>1. /\ bitmap' = ClearWords(bitmap, start, n)
              /\ marked' = marked \ {(start + k) % Positions : k \in 0 .. n - 1}
            BY <2>3, Zenon DEF Clear
        <3>2. /\ bitmap' \in [Words -> SUBSET WordBits]
              /\ \A i \in Words, b \in WordBits :
                     b \in bitmap'[i] <=>
                         /\ b \in bitmap[i]
                         /\ WordSize * i + b \notin {(start + k) % Positions : k \in 0 .. n - 1}
            BY <3>1, WordsCleared, Zenon DEF WordsAreThePositions
        <3> QED
            BY <3>1, <3>2, Zenon DEF WordsAreThePositions
    <2>4. CASE UNCHANGED maskVars
        BY <2>4, Zenon DEF maskVars, WordsAreThePositions
    <2> QED
        BY <2>1, <2>2, <2>3, <2>4, Zenon DEF MaskNext
<1> QED
    BY <1>1, <1>2, PTL DEF MaskSpec

-----------------------------------------------------------------------------
(* The handshakes.                                                         *)

Cookies == (Nat \X Nat) \cup {NoCookie}
Requests == [type : {"init"}, spi : Dials, cookie : Cookies, group : Groups]
DialPhases == {"idle", "init", "auth", "delete", "up", "failed"}
Phases == {"free", "received", "proved", "admitted", "registered", "waiting", "answered",
           "session", "done"}
DialState == [phase : DialPhases, group : Groups, cookie : Cookies, peer : 0..MaxHandshakes]
HsState == [phase : Phases, req : Requests \cup {<<>>}, open : BOOLEAN, ok : BOOLEAN]

HandshakeTypes ==
    /\ dial \in [Dials -> DialState]
    /\ hs \in [Handshakes -> HsState]
    /\ owner \in [Dials -> 0..MaxHandshakes]
    /\ \A h \in Handshakes : hs[h].phase # "free" => hs[h].req \in Requests

\* A dial that has sent its IKE_AUTH keeps what it signed.
Past == {"auth", "delete", "up", "failed"}

\* The dial and the handshake that authenticated it.
Peered(d, h) ==
    /\ d \in Dials /\ h \in Handshakes
    /\ hs[h].phase # "free" /\ hs[h].ok /\ hs[h].req = Request(d)
    /\ dial[d].phase \in Past /\ dial[d].peer = h
    /\ Config[d].id \in Registry /\ Config[d].asks \in Local

\* What a datagram in the network says of those who sent it.
Truthful(m) ==
    /\ m.type = "init" => m \in Requests
    /\ m.type = "cookie" => m.cookie \in Nat \X Nat
    /\ m.type = "invalid_ke" => m.group = Config[m.spi].wants
    /\ m.type = "init_answer" =>
         /\ m.spiR \in Handshakes /\ hs[m.spiR].phase # "free"
         /\ hs[m.spiR].req.spi = m.spi /\ hs[m.spiR].req.group = m.group
    /\ m.type = "auth" =>
         /\ m.spi \in Dials /\ dial[m.spi].phase \in Past
         /\ m.keys = Keys(m.spi, dial[m.spi].peer, dial[m.spi].group)
         /\ m.signed = Request(m.spi) /\ m.id = Config[m.spi].id /\ m.asks = Config[m.spi].asks
    /\ m.type = "auth_answer" /\ m.verdict = "established" => Peered(m.keys.spi, m.keys.spiR)

\* Agreement and OneSession are not inductive: what the ends know of each other
\* they know from datagrams, of which every one ever sent may still arrive.
Authenticated ==
    /\ \A m \in net : Truthful(m)
    /\ \A h \in Handshakes : hs[h].ok => Peered(hs[h].req.spi, h)
    /\ \A d \in Dials : dial[d].phase = "up" => Peered(d, dial[d].peer)

\* What a step leaves of a dial that has signed, and of a handshake that began.
DialsGoOn ==
    \A d \in Dials : dial[d].phase \in Past =>
        /\ dial'[d].phase \in Past /\ dial'[d].peer = dial[d].peer
        /\ dial'[d].group = dial[d].group /\ dial'[d].cookie = dial[d].cookie
HandshakesGoOn ==
    \A h \in Handshakes : hs[h].phase # "free" =>
        /\ hs'[h].phase # "free" /\ hs'[h].req = hs[h].req
        /\ hs[h].ok => hs'[h].ok

LEMMA PeeredStays ==
    ASSUME DialsGoOn, HandshakesGoOn, NEW d, NEW h, Peered(d, h)
    PROVE  Peered(d, h)'
<1>1. dial'[d].cookie = dial[d].cookie /\ dial'[d].group = dial[d].group
    BY Zenon DEF DialsGoOn, Peered
<1>2. Request(d)' = Request(d)
    BY <1>1, Zenon DEF Request
<1> QED
    BY <1>2, Zenon DEF DialsGoOn, HandshakesGoOn, Peered

LEMMA TruthfulStays ==
    ASSUME DialsGoOn, HandshakesGoOn, NEW m, Truthful(m)
    PROVE  Truthful(m)'
<1>1. m.type = "init_answer" =>
         /\ m.spiR \in Handshakes /\ hs'[m.spiR].phase # "free"
         /\ hs'[m.spiR].req.spi = m.spi /\ hs'[m.spiR].req.group = m.group
    BY Zenon DEF HandshakesGoOn, Truthful
<1>2. ASSUME m.type = "auth"
      PROVE  /\ m.spi \in Dials /\ dial'[m.spi].phase \in Past
             /\ m.keys = Keys(m.spi, dial'[m.spi].peer, dial'[m.spi].group)
             /\ m.signed = Request(m.spi)'
    <2>1. m.spi \in Dials /\ dial[m.spi].phase \in Past
        BY <1>2, Zenon DEF Truthful
    <2>2. /\ dial'[m.spi].phase \in Past /\ dial'[m.spi].peer = dial[m.spi].peer
          /\ dial'[m.spi].group = dial[m.spi].group /\ dial'[m.spi].cookie = dial[m.spi].cookie
        BY <2>1, Zenon DEF DialsGoOn
    <2>3. Request(m.spi)' = Request(m.spi)
        BY <2>2, Zenon DEF Request
    <2> QED
        BY <1>2, <2>1, <2>2, <2>3, Zenon DEF Truthful
<1>3. m.type = "auth_answer" /\ m.verdict = "established" => Peered(m.keys.spi, m.keys.spiR)'
    BY PeeredStays, Zenon DEF Truthful
<1> QED
    BY <1>1, <1>2, <1>3, Zenon DEF Truthful

\* It is enough to look at what a step adds.
LEMMA AuthenticatedStays ==
    ASSUME Authenticated, DialsGoOn, HandshakesGoOn, HandshakeTypes,
           \A m \in net' : m \in net \/ Truthful(m)',
           \A h \in Handshakes : hs'[h].ok => hs[h].ok \/ Peered(hs[h].req.spi, h)',
           \A d \in Dials : dial'[d].phase = "up" => dial[d].phase = "up" \/ Peered(d, dial[d].peer)'
    PROVE  Authenticated'
<1>1. \A m \in net' : Truthful(m)'
    BY TruthfulStays, Zenon DEF Authenticated
<1>2. ASSUME NEW h \in Handshakes, hs'[h].ok PROVE Peered(hs[h].req.spi, h)'
    <2>1. CASE hs[h].ok
        <3>1. PICK e : e = hs[h].req.spi
            BY Zenon
        <3>2. Peered(e, h)
            BY <2>1, <3>1, Zenon DEF Authenticated
        <3>3. hs'[h].req = hs[h].req
            BY <3>2, Zenon DEF Peered, HandshakesGoOn
        <3>4. Peered(e, h)'
            BY <3>2, PeeredStays, Zenon
        <3>5. hs'[h].req.spi = e
            BY <3>1, <3>3, Zenon
        <3> QED
            BY <3>4, <3>5, Zenon
    <2> QED
        BY <1>2, <2>1, Zenon
<1>3. ASSUME NEW d \in Dials, dial'[d].phase = "up" PROVE Peered(d, dial[d].peer)'
    <2>1. CASE dial[d].phase = "up"
        <3>1. PICK e : e = dial[d].peer
            BY Zenon
        <3>2. Peered(d, e)
            BY <2>1, <3>1, Zenon DEF Authenticated
        <3>3. dial'[d].peer = e
            BY <3>1, <3>2, Zenon DEF Peered, DialsGoOn
        <3>4. Peered(d, e)'
            BY <3>2, PeeredStays, Zenon
        <3> QED
            BY <3>3, <3>4, Zenon
    <2> QED
        BY <1>3, <2>1, Zenon
<1> QED
    BY <1>1, <1>2, <1>3, Zenon DEF Authenticated

-----------------------------------------------------------------------------
\* A cookie is no younger than its generation allows: one of the secret before was
\* made before the last rotation, and one before that more than a lifetime before.
Dated(c) ==
    c # NoCookie =>
        /\ c \in Nat \X Nat /\ c[1] <= version /\ c[2] <= clock
        /\ c[1] < version => c[2] <= rotated
        /\ c[1] + 1 < version => rotated - c[2] > CookieLifetime

Clocks == version \in Nat /\ rotated \in Nat /\ clock \in Nat /\ rotated <= clock /\ clock <= MaxClock
Cookied ==
    /\ Clocks
    /\ \A d \in Dials : Dated(dial[d].cookie)
    /\ \A m \in net : m.type \in {"init", "cookie"} => Dated(m.cookie)
    /\ \A h \in Handshakes : hs[h].phase # "free" => Dated(hs[h].req.cookie)

\* The secret is kept, or rotated past its lifetime.
Rotates ==
    \/ version' = version /\ rotated' = rotated
    \/ version' = version + 1 /\ rotated' = clock /\ clock - rotated > CookieLifetime

LEMMA DatedStays ==
    ASSUME Clocks, HandshakeAssumption, NEW c, Dated(c), clock' \in Nat, clock' >= clock, Rotates
    PROVE  Dated(c)'
<1>1. CookieLifetime \in Nat
    BY Zenon DEF HandshakeAssumption
<1> SUFFICES ASSUME c # NoCookie
             PROVE  /\ c \in Nat \X Nat /\ c[1] <= version' /\ c[2] <= clock'
                    /\ c[1] < version' => c[2] <= rotated'
                    /\ c[1] + 1 < version' => rotated' - c[2] > CookieLifetime
    BY Zenon DEF Dated, NoCookie
<1>2. /\ c \in Nat \X Nat /\ c[1] <= version /\ c[2] <= clock
      /\ c[1] < version => c[2] <= rotated
      /\ c[1] + 1 < version => rotated - c[2] > CookieLifetime
    BY Zenon DEF Dated
<1>3. c[1] \in Nat /\ c[2] \in Nat
    BY <1>2, Zenon
<1> QED
    BY <1>1, <1>2, <1>3 DEF Clocks, Rotates

LEMMA CookiedStays ==
    ASSUME Cookied, HandshakeAssumption, HandshakesGoOn, Clocks', clock' >= clock, Rotates,
           \A d \in Dials : dial'[d].cookie = dial[d].cookie \/ Dated(dial[d].cookie)',
           \A m \in net' : m \in net \/ (m.type \in {"init", "cookie"} => Dated(m.cookie)'),
           \A h \in Handshakes : hs'[h].phase # "free" /\ hs[h].phase = "free"
                                        => Dated(hs[h].req.cookie)'
    PROVE  Cookied'
<1>1. ASSUME NEW d \in Dials PROVE Dated(dial[d].cookie)'
    <2>1. CASE dial'[d].cookie = dial[d].cookie
        <3>1. PICK c : c = dial[d].cookie
            BY Zenon
        <3>2. Dated(c)'
            BY <3>1, DatedStays, Zenon DEF Cookied, Clocks
        <3> QED
            BY <2>1, <3>1, <3>2, Zenon
    <2> QED
        BY <2>1, Zenon
<1>2. ASSUME NEW m \in net', m.type \in {"init", "cookie"} PROVE Dated(m.cookie)'
    <2>1. CASE m \in net
        <3>1. Dated(m.cookie)
            BY <1>2, <2>1, Zenon DEF Cookied
        <3> QED
            BY <3>1, DatedStays, Zenon DEF Cookied, Clocks
    <2> QED
        BY <1>2, <2>1, Zenon
<1>3. ASSUME NEW h \in Handshakes, hs'[h].phase # "free" PROVE Dated(hs[h].req.cookie)'
    <2>1. CASE hs[h].phase # "free"
        <3>1. PICK c : c = hs[h].req.cookie
            BY Zenon
        <3>2. Dated(c)
            BY <2>1, <3>1, Zenon DEF Cookied
        <3>3. Dated(c)'
            BY <3>2, DatedStays, Zenon DEF Cookied, Clocks
        <3>4. hs'[h].req = hs[h].req
            BY <2>1, Zenon DEF HandshakesGoOn
        <3> QED
            BY <3>1, <3>3, <3>4, Zenon
    <2> QED
        BY <1>3, <2>1, Zenon
<1> QED
    BY <1>1, <1>2, <1>3, Zenon DEF Cookied

-----------------------------------------------------------------------------
\* One handshake moves.
Moves(h, phase, open, ok) ==
    /\ hs' \in [Handshakes -> HsState]
    /\ hs'[h] = [phase |-> phase, req |-> hs[h].req, open |-> open, ok |-> ok]
    /\ \A g \in Handshakes : g # h => hs'[g] = hs[g]

LEMMA MovesIs ==
    ASSUME HandshakeTypes, NEW h \in Handshakes, NEW phase \in Phases, NEW open \in BOOLEAN
    PROVE  /\ hs' = [hs EXCEPT ![h].phase = phase] => Moves(h, phase, hs[h].open, hs[h].ok)
           /\ hs' = [hs EXCEPT ![h].open = open] => Moves(h, hs[h].phase, open, hs[h].ok)
           /\ hs' = [hs EXCEPT ![h].phase = phase, ![h].open = open] => Moves(h, phase, open, hs[h].ok)
           /\ hs' = [hs EXCEPT ![h].phase = phase, ![h].ok = TRUE] => Moves(h, phase, hs[h].open, TRUE)
<1>1. hs[h] \in HsState /\ hs \in [Handshakes -> HsState]
    BY Zenon DEF HandshakeTypes
<1>2. hs[h] = [phase |-> hs[h].phase, req |-> hs[h].req, open |-> hs[h].open, ok |-> hs[h].ok]
    BY <1>1, Zenon DEF HsState
<1>3. ASSUME hs' = [hs EXCEPT ![h].phase = phase] PROVE Moves(h, phase, hs[h].open, hs[h].ok)
    BY <1>1, <1>2, <1>3, Zenon DEF Moves, HsState
<1>4. ASSUME hs' = [hs EXCEPT ![h].open = open] PROVE Moves(h, hs[h].phase, open, hs[h].ok)
    BY <1>1, <1>2, <1>4, Zenon DEF Moves, HsState
<1>5. ASSUME hs' = [hs EXCEPT ![h].phase = phase, ![h].open = open]
      PROVE  Moves(h, phase, open, hs[h].ok)
    BY <1>1, <1>2, <1>5, Zenon DEF Moves, HsState
<1>6. ASSUME hs' = [hs EXCEPT ![h].phase = phase, ![h].ok = TRUE]
      PROVE  Moves(h, phase, hs[h].open, TRUE)
    BY <1>1, <1>2, <1>6, Zenon DEF Moves, HsState
<1> QED
    BY <1>3, <1>4, <1>5, <1>6, Zenon

-----------------------------------------------------------------------------
LEMMA RequestsTruthful ==
    ASSUME NEW r \in Requests
    PROVE  Truthful(r)'
BY DEF Truthful, Requests

LEMMA RequestTyped ==
    ASSUME HandshakeTypes, NEW d \in Dials
    PROVE  /\ Request(d) \in Requests
           /\ \A c \in Cookies : [Request(d) EXCEPT !.cookie = c] \in Requests
           /\ \A g \in Groups : [Request(d) EXCEPT !.group = g] \in Requests
<1>1. dial[d] \in DialState
    BY Zenon DEF HandshakeTypes
<1> QED
    BY <1>1, Zenon DEF Request, Requests, DialState

\* A dial's step, on its own state: nothing changes it once it has signed.
LEMMA DialTypes ==
    ASSUME HandshakeTypes, Authenticated, HandshakeAssumption, NEW d \in Dials, Initiator(d)
    PROVE  /\ HandshakeTypes' /\ DialsGoOn /\ HandshakesGoOn
           /\ \A e \in Dials : e # d => dial'[e] = dial[e]
<1>0. dial \in [Dials -> DialState] /\ dial[d] \in DialState
    BY Zenon DEF HandshakeTypes
<1>1. hs' = hs /\ owner' = owner
    BY Zenon DEF Initiator, Dial, EchoCookie, ChangeGroup, AcceptInit, AcceptAuth,
           GiveUp, responder
<1>2. HandshakesGoOn
    BY <1>1, Zenon DEF HandshakesGoOn
<1>3. SUFFICES /\ dial' \in [Dials -> DialState]
               /\ \A e \in Dials : e # d => dial'[e] = dial[e]
               /\ dial[d].phase \in Past =>
                    /\ dial'[d].phase \in Past /\ dial'[d].peer = dial[d].peer
                    /\ dial'[d].group = dial[d].group /\ dial'[d].cookie = dial[d].cookie
    BY <1>1, <1>2, Zenon DEF HandshakeTypes, DialsGoOn
<1>4. CASE Dial(d)
    BY <1>0, <1>4, Zenon DEF Dial, DialState, DialPhases, Past
<1>5. CASE EchoCookie(d)
    <2>1. PICK m \in net : m.type = "cookie" /\ dial' = [dial EXCEPT ![d].cookie = m.cookie]
        BY <1>5, Zenon DEF EchoCookie
    <2>2. m.cookie \in Cookies
        BY <2>1, Zenon DEF Authenticated, Truthful, Cookies
    <2> QED
        BY <1>0, <1>5, <2>1, <2>2, Zenon DEF EchoCookie, DialState, Past
<1>6. CASE ChangeGroup(d)
    <2>1. PICK m \in net : /\ m.type = "invalid_ke" /\ m.spi = d
                           /\ dial' = [dial EXCEPT ![d].group = m.group]
        BY <1>6, Zenon DEF ChangeGroup
    <2>2. m.group \in Groups
        BY <2>1, Zenon DEF Authenticated, Truthful, Groups
    <2> QED
        BY <1>0, <1>6, <2>1, <2>2, Zenon DEF ChangeGroup, DialState, Past
<1>7. CASE AcceptInit(d)
    <2>1. PICK m \in net :
            /\ m.type = "init_answer"
            /\ \/ dial' = [dial EXCEPT ![d].phase = "failed"]
               \/ dial' = [dial EXCEPT ![d].phase = "auth", ![d].peer = m.spiR]
        BY <1>7, Zenon DEF AcceptInit
    <2>2. m.spiR \in 0..MaxHandshakes
        BY <2>1 DEF Authenticated, Truthful, Handshakes, HandshakeAssumption
    <2> QED
        BY <1>0, <1>7, <2>1, <2>2 DEF AcceptInit, DialState, DialPhases, Past
<1>8. CASE AcceptAuth(d)
    <2>1. PICK p \in {"failed", "delete", "up"} : dial' = [dial EXCEPT ![d].phase = p]
        BY <1>8, Zenon DEF AcceptAuth, deleteAuthenticatedIKE
    <2> QED
        BY <1>0, <1>8, <2>1, Zenon DEF AcceptAuth, DialState, DialPhases, Past
<1>9. CASE GiveUp(d)
    BY <1>0, <1>9, Zenon DEF GiveUp, DialState, DialPhases, Past
<1> QED
    BY <1>4, <1>5, <1>6, <1>7, <1>8, <1>9, Zenon DEF Initiator

LEMMA DialAuthenticates ==
    ASSUME HandshakeTypes, Authenticated, HandshakeAssumption, NEW d \in Dials, Initiator(d)
    PROVE  Authenticated'
<1>0. dial \in [Dials -> DialState] /\ dial[d] \in DialState
    BY Zenon DEF HandshakeTypes
<1>1. hs' = hs
    BY Zenon DEF Initiator, Dial, EchoCookie, ChangeGroup, AcceptInit, AcceptAuth,
           GiveUp, responder
<1>2. DialsGoOn /\ HandshakesGoOn /\ \A e \in Dials : e # d => dial'[e] = dial[e]
    BY DialTypes, Zenon
<1>3. SUFFICES /\ \A m \in net' : m \in net \/ Truthful(m)'
               /\ dial'[d].phase = "up" => dial[d].phase = "up" \/ Peered(d, dial[d].peer)'
    <2>1. \A h \in Handshakes : hs'[h].ok => hs[h].ok
        BY <1>1, Zenon
    <2>2. \A e \in Dials : dial'[e].phase = "up" => dial[e].phase = "up" \/ Peered(e, dial[e].peer)'
        BY <1>2, <1>3, Zenon
    <2> QED
        BY <1>2, <1>3, <2>1, <2>2, AuthenticatedStays, Zenon
<1>4. CASE Dial(d)
    <2>1. PICK r : r = Request(d)
        BY Zenon
    <2>2. Truthful(r)'
        BY <2>1, RequestTyped, RequestsTruthful, Zenon
    <2>3. net' = net \cup {r} /\ dial'[d].phase = "init"
        BY <1>0, <1>4, <2>1 DEF Dial
    <2> QED
        BY <2>2, <2>3, Zenon
<1>5. CASE EchoCookie(d)
    <2>1. PICK m \in net :
            /\ m.type = "cookie" /\ dial' = [dial EXCEPT ![d].cookie = m.cookie]
            /\ net' = net \cup {[Request(d) EXCEPT !.cookie = m.cookie]}
        BY <1>5, Zenon DEF EchoCookie
    <2>2. m.cookie \in Cookies
        BY <2>1, Zenon DEF Authenticated, Truthful, Cookies
    <2>3. PICK r : r = [Request(d) EXCEPT !.cookie = m.cookie]
        BY Zenon
    <2>4. Truthful(r)'
        BY <2>2, <2>3, RequestTyped, RequestsTruthful, Zenon
    <2>5. dial'[d].phase = "init"
        BY <1>0, <1>5, <2>1, Zenon DEF EchoCookie, DialState
    <2>6. net' = net \cup {r}
        BY <2>1, <2>3, Zenon
    <2> QED
        BY <2>4, <2>5, <2>6, Zenon
<1>6. CASE ChangeGroup(d)
    <2>1. PICK m \in net :
            /\ m.type = "invalid_ke" /\ m.spi = d
            /\ dial' = [dial EXCEPT ![d].group = m.group]
            /\ net' = net \cup {[Request(d) EXCEPT !.group = m.group]}
        BY <1>6, Zenon DEF ChangeGroup
    <2>2. m.group \in Groups
        BY <2>1, Zenon DEF Authenticated, Truthful, Groups
    <2>3. PICK r : r = [Request(d) EXCEPT !.group = m.group]
        BY Zenon
    <2>4. Truthful(r)'
        BY <2>2, <2>3, RequestTyped, RequestsTruthful, Zenon
    <2>5. dial'[d].phase = "init"
        BY <1>0, <1>6, <2>1, Zenon DEF ChangeGroup, DialState
    <2>6. net' = net \cup {r}
        BY <2>1, <2>3, Zenon
    <2> QED
        BY <2>4, <2>5, <2>6, Zenon
<1>7. CASE AcceptInit(d)
    <2>1. PICK m \in net :
            /\ m.type = "init_answer"
            /\ IF m.group # dial[d].group
               THEN dial' = [dial EXCEPT ![d].phase = "failed"] /\ net' = net
               ELSE /\ dial' = [dial EXCEPT ![d].phase = "auth", ![d].peer = m.spiR]
                    /\ net' = net \cup {[type |-> "auth", spi |-> d, spiR |-> m.spiR,
                                         keys |-> Keys(d, m.spiR, m.group),
                                         signed |-> Request(d), id |-> Config[d].id,
                                         asks |-> Config[d].asks]}
        BY <1>7, Zenon DEF AcceptInit
    <2>2. CASE m.group # dial[d].group
        BY <1>0, <2>1, <2>2, Zenon DEF DialState
    <2>3. CASE m.group = dial[d].group
        <3>1. PICK a : a = [type |-> "auth", spi |-> d, spiR |-> m.spiR,
                            keys |-> Keys(d, m.spiR, m.group),
                            signed |-> Request(d), id |-> Config[d].id,
                            asks |-> Config[d].asks]
            BY Zenon
        <3>2. /\ dial'[d].phase = "auth" /\ dial'[d].peer = m.spiR
              /\ dial'[d].group = m.group /\ dial'[d].cookie = dial[d].cookie
            BY <1>0, <2>1, <2>3 DEF DialState
        <3>3. Request(d)' = Request(d)
            BY <2>3, <3>2, Zenon DEF Request
        <3>4. a.type = "auth" /\ a.spi = d /\ a.keys = Keys(d, m.spiR, m.group)
              /\ a.signed = Request(d) /\ a.id = Config[d].id /\ a.asks = Config[d].asks
            BY <3>1, Zenon
        <3>5. dial'[a.spi].phase \in Past /\ a.signed = Request(a.spi)'
              /\ a.keys = Keys(a.spi, dial'[a.spi].peer, dial'[a.spi].group)
            BY <3>2, <3>3, <3>4, Zenon DEF Past
        <3>6. Truthful(a)'
            BY <3>4, <3>5, Zenon DEF Truthful
        <3>7. net' = net \cup {a}
            BY <2>1, <2>3, <3>1, Zenon
        <3> QED
            BY <3>2, <3>6, <3>7, Zenon
    <2> QED
        BY <2>2, <2>3, Zenon
<1>8. CASE AcceptAuth(d)
    <2>1. PICK m \in net :
            /\ m.type = "auth_answer" /\ m.keys = Keys(d, dial[d].peer, dial[d].group)
            /\ \/ dial' = [dial EXCEPT ![d].phase = "failed"] /\ net' = net
               \/ /\ dial' = [dial EXCEPT ![d].phase = "delete"]
                  /\ net' = net \cup {[type |-> "delete", keys |-> m.keys]}
               \/ /\ m.verdict = "established"
                  /\ dial' = [dial EXCEPT ![d].phase = "up"] /\ net' = net
        BY <1>8, Zenon DEF AcceptAuth, deleteAuthenticatedIKE
    <2>2. CASE dial' = [dial EXCEPT ![d].phase = "failed"] /\ net' = net
        BY <1>0, <2>2, Zenon DEF DialState
    <2>3. CASE /\ dial' = [dial EXCEPT ![d].phase = "delete"]
               /\ net' = net \cup {[type |-> "delete", keys |-> m.keys]}
        <3>1. PICK a : a = [type |-> "delete", keys |-> m.keys]
            BY Zenon
        <3>2. Truthful(a)'
            BY <3>1, Zenon DEF Truthful
        <3>3. dial'[d].phase = "delete"
            BY <1>0, <2>3, Zenon DEF DialState
        <3> QED
            BY <2>3, <3>1, <3>2, <3>3, Zenon
    <2>4. CASE /\ m.verdict = "established"
               /\ dial' = [dial EXCEPT ![d].phase = "up"] /\ net' = net
        <3>1. PICK e : e = dial[d].peer
            BY Zenon
        <3>2. m.keys.spi = d /\ m.keys.spiR = e
            BY <2>1, <3>1 DEF Keys
        <3>3. Peered(m.keys.spi, m.keys.spiR)
            BY <2>1, <2>4, Zenon DEF Authenticated, Truthful
        <3>4. Peered(d, e)
            BY <3>2, <3>3, Zenon
        <3>5. Peered(d, e)'
            BY <1>2, <3>4, PeeredStays, Zenon
        <3>6. dial'[d].peer = e
            BY <1>0, <2>4, <3>1, Zenon DEF DialState
        <3> QED
            BY <2>4, <3>5, <3>6, Zenon
    <2> QED
        BY <2>1, <2>2, <2>3, <2>4, Zenon
<1>9. CASE GiveUp(d)
    BY <1>0, <1>9, Zenon DEF GiveUp, DialState
<1> QED
    BY <1>4, <1>5, <1>6, <1>7, <1>8, <1>9, Zenon DEF Initiator

LEMMA DialCookies ==
    ASSUME HandshakeTypes, Authenticated, Cookied, HandshakeAssumption, NEW d \in Dials,
           Initiator(d)
    PROVE  Cookied'
<1>0. dial \in [Dials -> DialState] /\ dial[d] \in DialState
    BY Zenon DEF HandshakeTypes
<1>1. hs' = hs /\ version' = version /\ rotated' = rotated /\ clock' = clock
    BY Zenon DEF Initiator, Dial, EchoCookie, ChangeGroup, AcceptInit, AcceptAuth,
           GiveUp, responder
<1>2. HandshakesGoOn /\ \A e \in Dials : e # d => dial'[e] = dial[e]
    BY DialTypes, Zenon
<1>3. \A c : Dated(c) => Dated(c)'
    BY <1>1, Zenon DEF Dated, NoCookie
<1>4. SUFFICES /\ dial'[d].cookie = dial[d].cookie \/ Dated(dial[d].cookie)'
               /\ \A m \in net' : m \in net \/ (m.type \in {"init", "cookie"} => Dated(m.cookie)')
    <2>1. Clocks' /\ Rotates /\ clock' >= clock
        BY <1>1 DEF Cookied, Clocks, Rotates
    <2>2. \A e \in Dials : dial'[e].cookie = dial[e].cookie \/ Dated(dial[e].cookie)'
        BY <1>2, <1>4, Zenon
    <2>3. \A h \in Handshakes : ~(hs'[h].phase # "free" /\ hs[h].phase = "free")
        BY <1>1, Zenon
    <2> QED
        BY <1>2, <1>4, <2>1, <2>2, <2>3, CookiedStays, Zenon
<1>5. Dated(dial[d].cookie)
    BY Zenon DEF Cookied
<1>6. CASE Dial(d)
    <2>1. PICK r : r = Request(d)
        BY Zenon
    <2>2. net' = net \cup {r} /\ dial'[d].cookie = dial[d].cookie
        BY <1>0, <1>6, <2>1, Zenon DEF Dial, DialState
    <2>3. Dated(r.cookie)
        BY <1>5, <2>1, Zenon DEF Request
    <2>4. Dated(r.cookie)'
        BY <1>3, <2>3, Zenon
    <2> QED
        BY <2>2, <2>4, Zenon
<1>7. CASE EchoCookie(d)
    <2>1. PICK m \in net :
            /\ m.type = "cookie" /\ dial' = [dial EXCEPT ![d].cookie = m.cookie]
            /\ net' = net \cup {[Request(d) EXCEPT !.cookie = m.cookie]}
        BY <1>7, Zenon DEF EchoCookie
    <2>2. PICK c : c = m.cookie
        BY Zenon
    <2>3. Dated(c)
        BY <2>1, <2>2, Zenon DEF Cookied
    <2>4. Dated(c)'
        BY <1>3, <2>3, Zenon
    <2>5. PICK r : r = [Request(d) EXCEPT !.cookie = m.cookie]
        BY Zenon
    <2>6. r.cookie = c /\ dial'[d].cookie = c /\ net' = net \cup {r}
        BY <1>0, <2>1, <2>2, <2>5, Zenon DEF Request, DialState
    <2> QED
        BY <2>4, <2>6, Zenon
<1>8. CASE ChangeGroup(d)
    <2>1. PICK m \in net :
            /\ dial' = [dial EXCEPT ![d].group = m.group]
            /\ net' = net \cup {[Request(d) EXCEPT !.group = m.group]}
        BY <1>8, Zenon DEF ChangeGroup
    <2>2. PICK r : r = [Request(d) EXCEPT !.group = m.group]
        BY Zenon
    <2>3. Dated(r.cookie)
        BY <1>5, <2>2, Zenon DEF Request
    <2>4. Dated(r.cookie)'
        BY <1>3, <2>3, Zenon
    <2>5. dial'[d].cookie = dial[d].cookie /\ net' = net \cup {r}
        BY <1>0, <2>1, <2>2, Zenon DEF DialState
    <2> QED
        BY <2>4, <2>5, Zenon
<1>9. CASE AcceptInit(d)
    <2>1. PICK m \in net :
            \/ dial' = [dial EXCEPT ![d].phase = "failed"] /\ net' = net
            \/ /\ dial' = [dial EXCEPT ![d].phase = "auth", ![d].peer = m.spiR]
               /\ net' = net \cup {[type |-> "auth", spi |-> d, spiR |-> m.spiR,
                                    keys |-> Keys(d, m.spiR, m.group),
                                    signed |-> Request(d), id |-> Config[d].id,
                                    asks |-> Config[d].asks]}
        BY <1>9, Zenon DEF AcceptInit
    <2>2. dial'[d].cookie = dial[d].cookie
        BY <1>0, <2>1 DEF DialState
    <2>3. \A m2 \in net' : m2 \in net \/ m2.type = "auth"
        BY <2>1
    <2> QED
        BY <2>2, <2>3, Zenon
<1>10. CASE AcceptAuth(d)
    <2>1. PICK p : dial' = [dial EXCEPT ![d].phase = p]
        BY <1>10, Zenon DEF AcceptAuth, deleteAuthenticatedIKE
    <2>2. dial'[d].cookie = dial[d].cookie
        BY <1>0, <2>1, Zenon DEF DialState
    <2>3. \A m \in net' : m \in net \/ m.type = "delete"
        BY <1>10 DEF AcceptAuth, deleteAuthenticatedIKE
    <2> QED
        BY <2>2, <2>3, Zenon
<1>11. CASE GiveUp(d)
    BY <1>0, <1>11, Zenon DEF GiveUp, DialState
<1> QED
    BY <1>6, <1>7, <1>8, <1>9, <1>10, <1>11, Zenon DEF Initiator

-----------------------------------------------------------------------------
\* The hub's routes: NothingSurvives, with the handshakes' numbers.
LEMMA RoutesSame ==
    ASSUME NothingSurvives, NEW h \in Handshakes, NEW phase, NEW ok,
           Moves(h, phase, hs[h].open, ok), owner' = owner,
           hs[h].open => phase \in Inside \cup {"session"}
    PROVE  NothingSurvives'
BY DEF NothingSurvives, Moves

LEMMA RoutesClosed ==
    ASSUME HandshakeTypes, HandshakeAssumption, NothingSurvives, NEW h \in Handshakes,
           NEW phase, NEW ok, Moves(h, phase, FALSE, ok), owner' = Unregister(h)
    PROVE  NothingSurvives' /\ owner' \in [Dials -> 0..MaxHandshakes]
<1>1. 0 \notin Handshakes /\ h # 0
    BY DEF Handshakes, HandshakeAssumption
<1>2. \A d \in Dials : owner'[d] = IF owner[d] = h THEN 0 ELSE owner[d]
    BY Zenon DEF Unregister
<1>3. owner' \in [Dials -> 0..MaxHandshakes]
    BY DEF Unregister, HandshakeTypes, HandshakeAssumption
<1>4. ASSUME NEW g \in Handshakes
      PROVE  /\ \A d \in Dials : owner'[d] = g <=> hs'[g].open /\ hs'[g].req.spi = d
             /\ hs'[g].open => hs'[g].phase \in Inside \cup {"session"}
    <2>1. CASE g = h
        <3>1. ~hs'[g].open
            BY <2>1 DEF Moves
        <3>2. \A d \in Dials : owner'[d] # g
            BY <1>1, <1>2, <2>1, Zenon
        <3> QED
            BY <3>1, <3>2, Zenon
    <2>2. CASE g # h
        <3>1. hs'[g] = hs[g]
            BY <2>2, Zenon DEF Moves
        <3>2. \A d \in Dials : owner'[d] = g <=> owner[d] = g
            BY <1>1, <1>2, <2>2, Zenon
        <3> QED
            BY <3>1, <3>2 DEF NothingSurvives
    <2> QED
        BY <2>1, <2>2, Zenon
<1> QED
    BY <1>3, <1>4, Zenon DEF NothingSurvives, Inside

LEMMA RoutesOpened ==
    ASSUME HandshakeTypes, HandshakeAssumption, NothingSurvives, NEW h \in Handshakes,
           NEW ok, Moves(h, "registered", TRUE, ok), hs[h].req \in Requests,
           ~hs[h].open, owner[hs[h].req.spi] = 0, owner' = [owner EXCEPT ![hs[h].req.spi] = h]
    PROVE  NothingSurvives' /\ owner' \in [Dials -> 0..MaxHandshakes]
<1>1. 0 \notin Handshakes /\ h \in 0..MaxHandshakes
    BY DEF Handshakes, HandshakeAssumption
<1>2. PICK e \in Dials : e = hs[h].req.spi
    BY Zenon DEF Requests
<1>3. owner' \in [Dials -> 0..MaxHandshakes]
    BY <1>1, Zenon DEF HandshakeTypes
<1>4. owner'[e] = h /\ \A d \in Dials : d # e => owner'[d] = owner[d]
    BY <1>2, Zenon DEF HandshakeTypes
<1>5. ASSUME NEW g \in Handshakes
      PROVE  /\ \A d \in Dials : owner'[d] = g <=> hs'[g].open /\ hs'[g].req.spi = d
             /\ hs'[g].open => hs'[g].phase \in Inside \cup {"session"}
    <2>1. CASE g = h
        <3>1. hs'[g].open /\ hs'[g].req.spi = e /\ hs'[g].phase = "registered"
            BY <1>2, <2>1 DEF Moves
        <3>2. \A d \in Dials : owner[d] # g
            BY <2>1, Zenon DEF NothingSurvives
        <3> QED
            BY <1>4, <2>1, <3>1, <3>2, Zenon DEF Inside
    <2>2. CASE g # h
        <3>1. hs'[g] = hs[g]
            BY <2>2, Zenon DEF Moves
        <3>2. \A d \in Dials : owner'[d] = g <=> owner[d] = g
            BY <1>1, <1>2, <1>4, <2>2, Zenon
        <3> QED
            BY <3>1, <3>2 DEF NothingSurvives
    <2> QED
        BY <2>1, <2>2, Zenon
<1> QED
    BY <1>3, <1>5, Zenon DEF NothingSurvives, Inside

-----------------------------------------------------------------------------
Early == {"free", "received", "proved", "admitted"}
Unopened == \A h \in Handshakes : hs[h].phase \in Early => ~hs[h].open

Established ==
    HandshakeTypes /\ Authenticated /\ Cookied /\ NothingSurvives /\ Unopened

\* What a handshake's step owes, once its slot and its route are accounted for.
LEMMA StepStays ==
    ASSUME Established, HandshakeAssumption, NEW h \in Handshakes, hs[h].phase # "free",
           NEW phase \in Phases \ {"free"}, NEW open \in BOOLEAN, NEW ok \in BOOLEAN,
           Moves(h, phase, open, ok), hs[h].ok => ok, open => phase \notin Early,
           dial' = dial, clock' = clock, Clocks', Rotates, owner' \in [Dials -> 0..MaxHandshakes],
           ok => hs[h].ok \/ Peered(hs[h].req.spi, h)',
           \A m \in net' : m \in net \/ (/\ Truthful(m)'
                                         /\ m.type \in {"init", "cookie"} => Dated(m.cookie)'),
           NothingSurvives'
    PROVE  Established'
<1>1. hs' \in [Handshakes -> HsState] /\ \A g \in Handshakes : g # h => hs'[g] = hs[g]
    BY Zenon DEF Moves
<1>2. hs'[h].phase = phase /\ hs'[h].req = hs[h].req /\ hs'[h].open = open /\ hs'[h].ok = ok
    BY DEF Moves
<1>3. \A g \in Handshakes : hs'[g].req = hs[g].req /\ (hs'[g].phase = "free" <=> hs[g].phase = "free")
    BY <1>1, <1>2, Zenon
<1>4. HandshakesGoOn
    BY <1>1, <1>2, <1>3, Zenon DEF HandshakesGoOn
<1>5. DialsGoOn
    BY Zenon DEF DialsGoOn
<1>6. HandshakeTypes'
    BY <1>1, <1>3, Zenon DEF Established, HandshakeTypes, Requests
<1>7. Unopened'
    BY <1>1, <1>2, Zenon DEF Established, Unopened
<1>8. Authenticated'
    <2>1. \A g \in Handshakes : hs'[g].ok => hs[g].ok \/ Peered(hs[g].req.spi, g)'
        BY <1>1, <1>2, Zenon
    <2>2. \A d \in Dials : dial'[d].phase = "up" => dial[d].phase = "up"
        BY Zenon
    <2> QED
        BY <1>4, <1>5, <2>1, <2>2, AuthenticatedStays, Zenon DEF Established
<1>9. Cookied'
    <2>1. \A d \in Dials : dial'[d].cookie = dial[d].cookie
        BY Zenon
    <2>2. clock' >= clock
        BY DEF Established, Cookied, Clocks
    <2> QED
        BY <1>3, <1>4, <2>1, <2>2, CookiedStays, Zenon DEF Established
<1> QED
    BY <1>6, <1>7, <1>8, <1>9, Zenon DEF Established

LEMMA FailKeeps ==
    ASSUME Established, HandshakeAssumption, NEW h \in Handshakes, hs[h].phase \in Inside,
           Fail(h), dial' = dial, clock' = clock, version' = version, rotated' = rotated,
           \A m \in net' : m \in net \/ (Truthful(m)' /\ m.type \notin {"init", "cookie"})
    PROVE  Established'
<1>1. Moves(h, "done", FALSE, hs[h].ok)
    BY MovesIs, Zenon DEF Established, Fail, Phases
<1>2. hs[h].req \in Requests /\ hs[h].phase # "free" /\ hs[h].ok \in BOOLEAN
    BY Zenon DEF Established, HandshakeTypes, Inside, HsState
<1>3. NothingSurvives' /\ owner' \in [Dials -> 0..MaxHandshakes]
    BY <1>1, RoutesClosed, Zenon DEF Established, Fail
<1>4. Clocks' /\ Rotates
    BY Zenon DEF Established, Cookied, Clocks, Rotates
<1>5. "done" \in Phases \ {"free"}
    BY Zenon DEF Phases
<1> QED
    BY <1>1, <1>2, <1>3, <1>4, <1>5, StepStays, Zenon

LEMMA ReceiveKeeps ==
    ASSUME Established, HandshakeAssumption, NEW h \in Handshakes, Receive(h)
    PROVE  Established'
<1>0. hs \in [Handshakes -> HsState] /\ hs[h] \in HsState /\ hs[h].phase = "free" /\ ~hs[h].open
    BY Zenon DEF Established, HandshakeTypes, Receive, Unopened, Early
<1>1. PICK m \in net, p \in {"done", "received"} :
        m.type = "init" /\ hs' = [hs EXCEPT ![h].phase = p, ![h].req = m]
    BY Zenon DEF Receive
<1>2. m \in Requests /\ Dated(m.cookie)
    BY <1>1, Zenon DEF Established, Authenticated, Truthful, Cookied
<1>3. hs' \in [Handshakes -> HsState] /\ \A g \in Handshakes : g # h => hs'[g] = hs[g]
    BY <1>0, <1>1, <1>2, Zenon DEF HsState, Phases
<1>4. hs'[h].phase = p /\ hs'[h].req = m /\ hs'[h].open = hs[h].open /\ hs'[h].ok = hs[h].ok
    BY <1>0, <1>1, Zenon DEF HsState
<1>5. /\ dial' = dial /\ owner' = owner /\ halfOpen' = halfOpen /\ bySource' = bySource
      /\ version' = version /\ rotated' = rotated /\ clock' = clock /\ net' = net
    BY Zenon DEF Receive
<1>6. HandshakesGoOn /\ DialsGoOn
    BY <1>0, <1>3, <1>5, Zenon DEF HandshakesGoOn, DialsGoOn
<1>7. HandshakeTypes'
    BY <1>2, <1>3, <1>4, <1>5, Zenon DEF Established, HandshakeTypes, Requests
<1>8. ~hs[h].ok
    <2>1. hs[h].ok => Peered(hs[h].req.spi, h)
        BY Zenon DEF Established, Authenticated
    <2> QED
        BY <1>0, <2>1, Zenon DEF Peered
<1>9. Authenticated'
    <2>1. \A g \in Handshakes : hs'[g].ok => hs[g].ok
        BY <1>3, <1>4, Zenon
    <2> QED
        BY <1>5, <1>6, <2>1, AuthenticatedStays, Zenon DEF Established
<1>10. Cookied'
    <2>1. Clocks' /\ Rotates /\ clock' >= clock
        BY <1>5 DEF Established, Cookied, Clocks, Rotates
    <2>2. Dated(m.cookie)'
        BY <1>2, <1>5, Zenon DEF Dated, NoCookie
    <2>3. \A g \in Handshakes : hs'[g].phase # "free" /\ hs[g].phase = "free"
                                        => Dated(hs[g].req.cookie)'
        BY <1>3, <1>4, <2>2, Zenon
    <2> QED
        BY <1>5, <1>6, <2>1, <2>3, CookiedStays, Zenon DEF Established
<1>11. NothingSurvives'
    <2>1. \A g \in Handshakes : g # h =>
            /\ \A d \in Dials : owner'[d] = g <=> hs'[g].open /\ hs'[g].req.spi = d
            /\ hs'[g].open => hs'[g].phase \in Inside \cup {"session"}
        BY <1>3, <1>5 DEF Established, NothingSurvives
    <2>2. ~hs'[h].open /\ \A d \in Dials : owner'[d] # h
        BY <1>0, <1>4, <1>5, Zenon DEF Established, NothingSurvives
    <2> QED
        BY <2>1, <2>2, Zenon DEF NothingSurvives, Inside
<1>12. Unopened'
    BY <1>0, <1>3, <1>4, Zenon DEF Established, Unopened
<1> QED
    BY <1>7, <1>9, <1>10, <1>11, <1>12, Zenon DEF Established

\* A step that leaves the routes alone.
LEMMA PassKeeps ==
    ASSUME Established, HandshakeAssumption, NEW h \in Handshakes, hs[h].phase # "free",
           NEW phase \in Phases \ {"free"}, NEW ok \in BOOLEAN, hs[h].ok => ok,
           Moves(h, phase, hs[h].open, ok),
           hs[h].open => phase \in (Inside \cup {"session"}) \ Early,
           dial' = dial, owner' = owner, clock' = clock, Clocks', Rotates,
           ok => hs[h].ok \/ Peered(hs[h].req.spi, h)',
           \A m \in net' : m \in net \/ (/\ Truthful(m)'
                                         /\ m.type \in {"init", "cookie"} => Dated(m.cookie)')
    PROVE  Established'
<1>1. NothingSurvives'
    BY RoutesSame, Zenon DEF Established
<1>2. hs[h].open \in BOOLEAN /\ owner' \in [Dials -> 0..MaxHandshakes]
    BY Zenon DEF Established, HandshakeTypes, HsState
<1>3. hs[h].open => phase \in Inside \cup {"session"} /\ phase \notin Early
    BY Zenon
<1> QED
    BY <1>1, <1>2, <1>3, StepStays, Zenon

LEMMA CookieRequiredKeeps ==
    ASSUME Established, HandshakeAssumption, NEW h \in Handshakes, CookieRequired(h)
    PROVE  Established'
<1>0. /\ hs[h].phase = "received" /\ ~hs[h].open /\ hs[h].ok \in BOOLEAN /\ hs[h].req \in Requests
      /\ dial' = dial /\ owner' = owner /\ clock' = clock
    BY Zenon DEF Established, HandshakeTypes, HsState, Unopened, Early, CookieRequired
<1>1. Clocks' /\ Rotates
    BY DEF Established, Cookied, Clocks, Rotates, CookieRequired
<1>2. PICK p \in {"done", "proved"} : hs' = [hs EXCEPT ![h].phase = p]
    BY Zenon DEF CookieRequired
<1>3. Moves(h, p, hs[h].open, hs[h].ok)
    BY <1>2, MovesIs, Zenon DEF Phases, Established
<1>4. ASSUME NEW m \in net', m \notin net
      PROVE  Truthful(m)' /\ Dated(m.cookie)'
    <2>1. m = [type |-> "cookie", spi |-> hs[h].req.spi, cookie |-> <<version', clock>>]
        BY <1>4, Zenon DEF CookieRequired, cookieValue
    <2>2. m.type = "cookie" /\ m.cookie = <<version', clock>>
        BY <2>1, Zenon
    <2>3. m.cookie \in Nat \X Nat /\ m.cookie[1] = version' /\ m.cookie[2] = clock'
        BY <1>0, <1>1, <2>2 DEF Clocks
    <2>4. Truthful(m)'
        BY <2>2, <2>3, Zenon DEF Truthful
    <2>5. PICK c : c = m.cookie
        BY Zenon
    <2>6. /\ c \in Nat \X Nat /\ c[1] <= version' /\ c[2] <= clock'
          /\ ~(c[1] < version') /\ ~(c[1] + 1 < version')
        BY <1>1, <2>3, <2>5 DEF Clocks
    <2>7. Dated(c)'
        BY <2>6, Zenon DEF Dated
    <2>8. Dated(m.cookie)'
        BY <2>5, <2>7, Zenon
    <2> QED
        BY <2>4, <2>8, Zenon
<1>5. p \in Phases \ {"free"}
    BY Zenon DEF Phases
<1> QED
    BY <1>0, <1>1, <1>3, <1>4, <1>5, PassKeeps, Zenon

LEMMA EnterHalfOpenKeeps ==
    ASSUME Established, HandshakeAssumption, NEW h \in Handshakes, EnterHalfOpen(h)
    PROVE  Established'
<1>0. /\ hs[h].phase = "proved" /\ ~hs[h].open /\ hs[h].ok \in BOOLEAN
      /\ dial' = dial /\ owner' = owner /\ clock' = clock /\ net' = net
    BY Zenon DEF Established, HandshakeTypes, HsState, Unopened, Early, EnterHalfOpen
<1>1. Clocks' /\ Rotates
    BY Zenon DEF Established, Cookied, Clocks, Rotates, EnterHalfOpen
<1>2. PICK p \in {"done", "admitted"} : hs' = [hs EXCEPT ![h].phase = p]
    BY Zenon DEF EnterHalfOpen
<1>3. p \in Phases \ {"free"}
    BY Zenon DEF Phases
<1>4. Moves(h, p, hs[h].open, hs[h].ok)
    BY <1>2, <1>3, MovesIs, Zenon DEF Established
<1> QED
    BY <1>0, <1>1, <1>3, <1>4, PassKeeps, Zenon

LEMMA RefuseKeeps ==
    ASSUME Established, HandshakeAssumption, NEW h \in Handshakes, Refuse(h)
    PROVE  Established'
<1>1. /\ hs[h].phase \in Inside /\ Fail(h) /\ dial' = dial /\ clock' = clock
      /\ version' = version /\ rotated' = rotated
    BY Zenon DEF Refuse, Inside
<1>2. ASSUME NEW m \in net', m \notin net
      PROVE  Truthful(m)' /\ m.type \notin {"init", "cookie"}
    <2>1. m = [type |-> "invalid_ke", spi |-> hs[h].req.spi, group |-> Config[hs[h].req.spi].wants]
        BY <1>2, Zenon DEF Refuse
    <2>2. m.type = "invalid_ke" /\ m.group = Config[m.spi].wants
        BY <2>1, Zenon
    <2> QED
        BY <2>2, Zenon DEF Truthful
<1> QED
    BY <1>1, <1>2, FailKeeps, Zenon

LEMMA RegisterKeeps ==
    ASSUME Established, HandshakeAssumption, NEW h \in Handshakes, Register(h)
    PROVE  Established'
<1>0. /\ hs[h].phase = "admitted" /\ ~hs[h].open /\ hs[h].ok \in BOOLEAN /\ hs[h].req \in Requests
      /\ dial' = dial /\ version' = version /\ rotated' = rotated /\ clock' = clock /\ net' = net
    BY Zenon DEF Established, HandshakeTypes, HsState, Unopened, Early, Register
<1>1. CASE owner[hs[h].req.spi] # 0
    <2>1. hs[h].phase \in Inside /\ Fail(h)
        BY <1>0, <1>1, Zenon DEF Register, Inside
    <2> QED
        BY <1>0, <2>1, FailKeeps, Zenon
<1>2. CASE owner[hs[h].req.spi] = 0
    <2>1. /\ hs' = [hs EXCEPT ![h].phase = "registered", ![h].open = TRUE]
          /\ owner' = [owner EXCEPT ![hs[h].req.spi] = h]
        BY <1>2, Zenon DEF Register
    <2>2. Moves(h, "registered", TRUE, hs[h].ok)
        BY <2>1, MovesIs, Zenon DEF Phases, Established
    <2>3. NothingSurvives' /\ owner' \in [Dials -> 0..MaxHandshakes]
        BY <1>0, <1>2, <2>1, <2>2, RoutesOpened, Zenon DEF Established
    <2>4. Clocks' /\ Rotates
        BY <1>0, Zenon DEF Established, Cookied, Clocks, Rotates
    <2>5. "registered" \in Phases \ {"free"} /\ "registered" \notin Early
        BY Zenon DEF Phases, Early
    <2> QED
        BY <1>0, <2>2, <2>3, <2>4, <2>5, StepStays, Zenon
<1> QED
    BY <1>1, <1>2, Zenon

LEMMA RespondKeeps ==
    ASSUME Established, HandshakeAssumption, NEW h \in Handshakes, Respond(h)
    PROVE  Established'
<1>0. /\ hs[h].phase = "registered" /\ hs[h].ok \in BOOLEAN /\ hs[h].req \in Requests
      /\ dial' = dial /\ version' = version /\ rotated' = rotated /\ clock' = clock
      /\ owner' = owner
    BY Zenon DEF Established, HandshakeTypes, HsState, Respond
<1>1. Moves(h, "waiting", hs[h].open, hs[h].ok)
    BY MovesIs, ZenonT(30) DEF Respond, Phases, Established
<1>2. ASSUME NEW m \in net', m \notin net
      PROVE  Truthful(m)' /\ m.type \notin {"init", "cookie"}
    <2>1. m = [type |-> "init_answer", spi |-> hs[h].req.spi, spiR |-> h, group |-> hs[h].req.group]
        BY <1>2, Zenon DEF Respond
    <2>2. /\ m.type = "init_answer" /\ m.spiR = h
          /\ m.spi = hs[h].req.spi /\ m.group = hs[h].req.group
        BY <2>1, Zenon
    <2>3. hs'[h].req = hs[h].req /\ hs'[h].phase = "waiting"
        BY <1>1 DEF Moves
    <2> QED
        BY <2>2, <2>3, Zenon DEF Truthful
<1>3. Clocks' /\ Rotates
    BY <1>0, Zenon DEF Established, Cookied, Clocks, Rotates
<1>4. "waiting" \in Phases \ {"free"} /\ "waiting" \in (Inside \cup {"session"}) \ Early
    BY <1>0, Zenon DEF Phases, Inside, Early
<1> QED
    BY <1>0, <1>1, <1>2, <1>3, <1>4, PassKeeps, Zenon

\* A mux closed under a handshake that still runs, or under a session.
LEMMA CloseKeeps ==
    ASSUME Established, HandshakeAssumption, NEW h \in Handshakes,
           Expire(h) \/ EndSession(h)
    PROVE  Established'
<1>0. /\ hs[h].phase # "free" /\ hs[h].ok \in BOOLEAN /\ hs[h].phase \in Phases
      /\ dial' = dial /\ version' = version /\ rotated' = rotated /\ clock' = clock /\ net' = net
      /\ owner' = Unregister(h)
    BY Zenon DEF Established, HandshakeTypes, HsState, Expire, EndSession, Inside
<1>1. PICK p \in Phases \ {"free"} : Moves(h, p, FALSE, hs[h].ok)
    <2>1. CASE Expire(h)
        <3>1. Moves(h, hs[h].phase, FALSE, hs[h].ok)
            BY <1>0, <2>1, MovesIs, Zenon DEF Expire, Established
        <3> QED
            BY <1>0, <3>1, Zenon
    <2>2. CASE EndSession(h)
        <3>1. "done" \in Phases \ {"free"}
            BY Zenon DEF Phases
        <3>2. Moves(h, "done", FALSE, hs[h].ok)
            BY <2>2, <3>1, MovesIs, Zenon DEF EndSession, Established
        <3> QED
            BY <3>1, <3>2, Zenon
    <2> QED
        BY <2>1, <2>2, Zenon
<1>2. NothingSurvives' /\ owner' \in [Dials -> 0..MaxHandshakes]
    BY <1>0, <1>1, RoutesClosed, Zenon DEF Established
<1>3. Clocks' /\ Rotates
    BY <1>0, Zenon DEF Established, Cookied, Clocks, Rotates
<1> QED
    BY <1>0, <1>1, <1>2, <1>3, StepStays, Zenon

LEMMA FailuresKeep ==
    ASSUME Established, HandshakeAssumption, NEW h \in Handshakes,
           StopWaiting(h) \/ SendFails(h)
    PROVE  Established'
<1>1. /\ hs[h].phase \in Inside /\ Fail(h) /\ dial' = dial /\ clock' = clock
      /\ version' = version /\ rotated' = rotated /\ net' = net
    BY Zenon DEF StopWaiting, SendFails, Inside
<1> QED
    BY <1>1, FailKeeps, Zenon

LEMMA ReturnKeeps ==
    ASSUME Established, HandshakeAssumption, NEW h \in Handshakes, Return(h)
    PROVE  Established'
<1>0. /\ hs[h].phase = "answered" /\ hs[h].ok \in BOOLEAN
      /\ dial' = dial /\ version' = version /\ rotated' = rotated /\ clock' = clock
      /\ owner' = owner /\ net' = net
    BY Zenon DEF Established, HandshakeTypes, HsState, Return
<1>1. Moves(h, "session", hs[h].open, hs[h].ok)
    BY MovesIs, ZenonT(30) DEF Return, Phases, Established
<1>2. Clocks' /\ Rotates
    BY <1>0, Zenon DEF Established, Cookied, Clocks, Rotates
<1>3. "session" \in Phases \ {"free"} /\ "session" \in (Inside \cup {"session"}) \ Early
    BY Zenon DEF Phases, Early
<1> QED
    BY <1>0, <1>1, <1>2, <1>3, PassKeeps, Zenon

\* The IKE_AUTH a handshake opens was sent by the dial whose request it answered,
\* to this handshake: the keys name both.
LEMMA CompleteKeeps ==
    ASSUME Established, HandshakeAssumption, NEW h \in Handshakes,
           CompleteResponderAuth(h)
    PROVE  Established'
<1>0. /\ hs[h].phase = "waiting" /\ hs[h].open /\ hs[h].ok \in BOOLEAN /\ hs[h].req \in Requests
      /\ dial' = dial /\ version' = version /\ rotated' = rotated /\ clock' = clock
    BY Zenon DEF Established, HandshakeTypes, HsState, CompleteResponderAuth
<1>1. PICK m \in net, v \in {"rejected", "childless", "established"} :
        /\ m.type = "auth" /\ m.keys = Keys(hs[h].req.spi, h, hs[h].req.group)
        /\ v # "rejected" => Authentic(h, m)
        /\ net' = net \cup {[type |-> "auth_answer", keys |-> m.keys, verdict |-> v, id |-> m.asks]}
        /\ IF v # "established" THEN Fail(h)
           ELSE /\ hs' = [hs EXCEPT ![h].phase = "answered", ![h].ok = TRUE]
                /\ owner' = owner
    BY Zenon DEF CompleteResponderAuth
<1>2. PICK a : a = [type |-> "auth_answer", keys |-> m.keys, verdict |-> v, id |-> m.asks]
    BY Zenon
<1>3. a.type = "auth_answer" /\ a.verdict = v /\ a.keys = m.keys /\ net' = net \cup {a}
    BY <1>1, <1>2, Zenon
<1>4. /\ m.spi \in Dials /\ dial[m.spi].phase \in Past
      /\ m.keys = Keys(m.spi, dial[m.spi].peer, dial[m.spi].group)
      /\ m.signed = Request(m.spi) /\ m.id = Config[m.spi].id /\ m.asks = Config[m.spi].asks
    BY <1>1, Zenon DEF Established, Authenticated, Truthful
<1>5. m.spi = hs[h].req.spi /\ dial[m.spi].peer = h /\ m.keys.spi = m.spi /\ m.keys.spiR = h
    BY <1>1, <1>4 DEF Keys
<1>6. CASE v # "established"
    <2>1. Truthful(a)'
        BY <1>3, <1>6, Zenon DEF Truthful
    <2>2. \A n \in net' : n \in net \/ (Truthful(n)' /\ n.type \notin {"init", "cookie"})
        BY <1>3, <2>1, Zenon
    <2>3. hs[h].phase \in Inside /\ Fail(h)
        BY <1>0, <1>1, <1>6, Zenon DEF Inside
    <2> QED
        BY <1>0, <2>2, <2>3, FailKeeps, ZenonT(30)
<1>7. CASE v = "established"
    <2>1. Moves(h, "answered", hs[h].open, TRUE)
        BY <1>1, <1>7, MovesIs, Zenon DEF Phases, Established
    <2>2. hs'[h].phase = "answered" /\ hs'[h].ok /\ hs'[h].req = hs[h].req
        BY <2>1 DEF Moves
    <2>3. hs[h].req = Request(m.spi) /\ m.id \in Registry /\ m.asks \in Local
        BY <1>1, <1>4, <1>7, Zenon DEF Authentic, lookupPeerKey, localIdentity
    <2>4. Request(m.spi)' = Request(m.spi)
        BY <1>0, Zenon DEF Request
    <2>5. Peered(m.spi, h)'
        BY <1>0, <1>4, <1>5, <2>2, <2>3, <2>4, Zenon DEF Peered
    <2>6. Peered(hs[h].req.spi, h)'
        BY <1>5, <2>2, <2>5, ZenonT(30)
    <2>7. Truthful(a)'
        BY <1>3, <1>5, <2>5, Zenon DEF Truthful
    <2>8. \A n \in net' : n \in net \/ (Truthful(n)' /\ n.type \notin {"init", "cookie"})
        BY <1>3, <2>7, Zenon
    <2>9. Clocks' /\ Rotates
        BY <1>0, Zenon DEF Established, Cookied, Clocks, Rotates
    <2>10. /\ "answered" \in Phases \ {"free"} /\ hs[h].phase # "free"
           /\ "answered" \in (Inside \cup {"session"}) \ Early
        BY <1>0, Zenon DEF Phases, Inside, Early
    <2>11. owner' = owner
        BY <1>1, <1>7, Zenon
    <2> QED
        BY <1>0, <2>1, <2>6, <2>8, <2>9, <2>10, <2>11, PassKeeps, Zenon
<1> QED
    BY <1>6, <1>7, Zenon

LEMMA EstablishedInit ==
    ASSUME HandshakeAssumption, HandshakeInit
    PROVE  Established
<1>1. HandshakeTypes
    BY DEF HandshakeInit, HandshakeAssumption, HandshakeTypes, DialState, DialPhases, Groups, Cookies,
           HsState, Phases
<1>2. Authenticated
    BY Zenon DEF HandshakeInit, Authenticated
<1>3. Cookied
    BY DEF HandshakeInit, HandshakeAssumption, Cookied, Clocks, Dated
<1>4. NothingSurvives
    <2>1. 0 \notin Handshakes
        BY DEF Handshakes, HandshakeAssumption
    <2> QED
        BY <2>1, Zenon DEF HandshakeInit, NothingSurvives
<1>5. Unopened
    BY Zenon DEF HandshakeInit, Unopened
<1> QED
    BY <1>1, <1>2, <1>3, <1>4, <1>5, Zenon DEF Established

LEMMA RoutesUnmoved ==
    ASSUME Established, hs' = hs, owner' = owner
    PROVE  NothingSurvives' /\ Unopened'
<1>1. NothingSurvives
    BY Zenon DEF Established
<1>2. NothingSurvives'
    BY <1>1, Zenon DEF NothingSurvives, Inside
<1>3. Unopened'
    BY Zenon DEF Established, Unopened
<1> QED
    BY <1>2, <1>3, Zenon

LEMMA TimeKeeps ==
    ASSUME Established, HandshakeAssumption, Tick \/ UNCHANGED handshakeVars
    PROVE  Established'
<1>1. /\ dial' = dial /\ hs' = hs /\ owner' = owner /\ net' = net
      /\ version' = version /\ rotated' = rotated
    BY Zenon DEF Tick, responder, handshakeVars
<1>2. Clocks' /\ clock' >= clock /\ Rotates
    BY <1>1 DEF Established, Cookied, Clocks, Rotates, Tick, handshakeVars, HandshakeAssumption
<1>3. DialsGoOn /\ HandshakesGoOn
    BY <1>1, Zenon DEF DialsGoOn, HandshakesGoOn
<1>4. HandshakeTypes'
    BY <1>1, Zenon DEF Established, HandshakeTypes
<1>5. Authenticated'
    BY <1>1, <1>3, AuthenticatedStays, Zenon DEF Established
<1>6. Cookied'
    BY <1>1, <1>2, <1>3, CookiedStays, Zenon DEF Established
<1> QED
    BY <1>1, <1>4, <1>5, <1>6, RoutesUnmoved, Zenon DEF Established

LEMMA EstablishedStep ==
    ASSUME Established, HandshakeAssumption, [HandshakeNext]_handshakeVars
    PROVE  Established'
<1>1. ASSUME NEW d \in Dials, Initiator(d) PROVE Established'
    <2>1. HandshakeTypes' /\ Authenticated' /\ Cookied'
        BY <1>1, DialTypes, DialAuthenticates, DialCookies, Zenon DEF Established
    <2>2. hs' = hs /\ owner' = owner
        BY <1>1, Zenon DEF Initiator, Dial, EchoCookie, ChangeGroup, AcceptInit,
                    AcceptAuth, GiveUp, responder
    <2> QED
        BY <2>1, <2>2, RoutesUnmoved, Zenon DEF Established
<1>2. ASSUME NEW h \in Handshakes, Handshake(h) \/ Expire(h) \/ EndSession(h)
      PROVE  Established'
    BY <1>2, ReceiveKeeps, CookieRequiredKeeps, EnterHalfOpenKeeps, RefuseKeeps, RegisterKeeps,
       RespondKeeps, FailuresKeep, ReturnKeeps, CompleteKeeps, CloseKeeps, Zenon
    DEF Handshake, Own
<1> QED
    BY <1>1, <1>2, TimeKeeps, Zenon DEF HandshakeNext

-----------------------------------------------------------------------------
\* A dial that came up and the handshake that answered it agree, one dial is never
\* two sessions, and no route outlives the handshake or session it leads to: for any
\* number of dials and handshakes, any identities, caps, lifetimes and failures, with
\* every datagram lost, repeated or overtaken (InitiateContext, Serve and handshake).
THEOREM PeersAgree ==
    HandshakeAssumption => (HandshakeSpec => [](Agreement /\ OneSession /\ NothingSurvives))
<1> SUFFICES ASSUME HandshakeAssumption
             PROVE  HandshakeSpec => [](Agreement /\ OneSession /\ NothingSurvives)
    BY Zenon
<1>1. HandshakeInit => Established
    BY EstablishedInit, Zenon
<1>2. Established /\ [HandshakeNext]_handshakeVars => Established'
    BY EstablishedStep, Zenon
<1>3. Established => Agreement /\ OneSession /\ NothingSurvives
    <2> SUFFICES ASSUME Established
                 PROVE  Agreement /\ OneSession /\ NothingSurvives
        BY Zenon
    <2>1. Agreement
        BY Zenon DEF Established, Authenticated, Peered, Agreement
    <2>2. OneSession
        BY ZenonT(40) DEF Established, Authenticated, Peered, OneSession
    <2> QED
        BY <2>1, <2>2, Zenon DEF Established
<1> QED
    BY <1>1, <1>2, <1>3, PTL DEF HandshakeSpec

\* What a challenge tells of the cookie it refuses.
LEMMA ChallengeIsLate ==
    ASSUME Established, HandshakeAssumption, NEW h \in Handshakes, CookieRequired(h),
           hs'[h].phase = "done", hs[h].req.cookie # NoCookie
    PROVE  clock - hs[h].req.cookie[2] > CookieLifetime
<1>1. PICK c : c = hs[h].req.cookie
    BY Zenon
<1>2. Dated(c) /\ c # NoCookie
    BY <1>1, Zenon DEF CookieRequired, Established, Cookied
<1>3. /\ c[1] \in Nat /\ c[2] \in Nat /\ c[1] <= version /\ c[2] <= clock
      /\ c[1] < version => c[2] <= rotated
      /\ c[1] + 1 < version => rotated - c[2] > CookieLifetime
    BY <1>2, Zenon DEF Dated
<1>4. Clocks /\ CookieLifetime \in Nat
    BY Zenon DEF Established, Cookied, HandshakeAssumption
<1>5. PICK generation \in Nat :
        /\ generation = IF clock - rotated > CookieLifetime THEN version + 1 ELSE version
        /\ c[1] \notin Accepted(generation)
    <2>1. hs[h] \in HsState /\ hs \in [Handshakes -> HsState]
        BY Zenon DEF Established, HandshakeTypes
    <2>2. hs' # [hs EXCEPT ![h].phase = "proved"]
        BY <2>1, Zenon DEF HsState
    <2> QED
        BY <1>1, <1>2, <1>4, <2>2 DEF CookieRequired, Clocks
<1>6. c[1] + 1 < generation
    BY <1>3, <1>4, <1>5 DEF Accepted, Clocks
<1>7. clock - c[2] > CookieLifetime
    BY <1>3, <1>4, <1>5, <1>6 DEF Clocks
<1> QED
    BY <1>1, <1>7, Zenon

LEMMA OnlyItself ==
    ASSUME Established, NEW g \in Handshakes,
           Handshake(g) \/ Expire(g) \/ EndSession(g)
    PROVE  /\ \A h \in Handshakes : h # g => hs'[h] = hs[h]
           /\ hs[g].phase = "received" /\ hs'[g].phase = "done" => CookieRequired(g)
<1>0. hs \in [Handshakes -> HsState] /\ hs[g] \in HsState
    BY Zenon DEF Established, HandshakeTypes
<1>1. CASE Receive(g)
    BY <1>0, <1>1, Zenon DEF Receive
<1>2. CASE CookieRequired(g)
    BY <1>0, <1>2, Zenon DEF CookieRequired
<1>3. CASE EnterHalfOpen(g)
    BY <1>0, <1>3, Zenon DEF EnterHalfOpen
<1>4. CASE Refuse(g) \/ StopWaiting(g) \/ SendFails(g)
    BY <1>0, <1>4, Zenon DEF Refuse, StopWaiting, SendFails, Fail
<1>5. CASE Register(g)
    BY <1>0, <1>5, Zenon DEF Register, Fail
<1>6. CASE Respond(g) \/ Return(g) \/ EndSession(g)
    BY <1>0, <1>6, Zenon DEF Respond, Return, EndSession
<1>7. CASE CompleteResponderAuth(g)
    BY <1>0, <1>7, Zenon DEF CompleteResponderAuth, Fail
<1>8. CASE Expire(g)
    BY <1>0, <1>8, Zenon DEF Expire, Inside
<1> QED
    BY <1>1, <1>2, <1>3, <1>4, <1>5, <1>6, <1>7, <1>8, Zenon DEF Handshake, Own

\* No request that echoes a cookie within its lifetime is challenged again, however
\* often the secret is rotated meanwhile (cookieRequired).
THEOREM CookieHonouredTheorem == HandshakeAssumption => (HandshakeSpec => CookieHonoured)
<1> SUFFICES ASSUME HandshakeAssumption PROVE HandshakeSpec => CookieHonoured
    BY Zenon
<1>1. HandshakeInit => Established
    BY EstablishedInit, Zenon
<1>2. Established /\ [HandshakeNext]_handshakeVars => Established'
    BY EstablishedStep, Zenon
<1>3. Established /\ [HandshakeNext]_handshakeVars => [CookieKept]_handshakeVars
    <2> SUFFICES ASSUME Established, HandshakeNext, NEW h \in Handshakes,
                        hs[h].phase = "received", hs'[h].phase = "done",
                        hs[h].req.cookie # NoCookie
                 PROVE  clock - hs[h].req.cookie[2] > CookieLifetime
        BY Zenon DEF CookieKept, Challenges
    <2>1. hs' # hs
        BY Zenon
    <2>2. PICK g \in Handshakes : Handshake(g) \/ Expire(g) \/ EndSession(g)
        BY <2>1, Zenon DEF HandshakeNext, Initiator, Dial, EchoCookie, ChangeGroup, AcceptInit,
                    AcceptAuth, GiveUp, responder, Tick
    <2>3. g = h
        BY <2>2, OnlyItself, Zenon
    <2>4. CookieRequired(h)
        BY <2>2, <2>3, OnlyItself, Zenon
    <2> QED
        BY <2>4, ChallengeIsLate, Zenon
<1> QED
    BY <1>1, <1>2, <1>3, PTL DEF HandshakeSpec, CookieHonoured

-----------------------------------------------------------------------------
(* The replay window: the circular bitmap never accepts a number twice and *)
(* never refuses one it has not seen inside the window.                    *)

(* Numbers less than a window apart have bits of their own.                *)
LEMMA Distinct ==
    ASSUME Window # 0, NEW x \in Nat, NEW y \in Nat, x < y, y - x < Window
    PROVE  x % Window # y % Window
<1> DEFINE d == y - x
<1>1. d \in 0 .. Window - 1 /\ d # 0 /\ y = x + d
    BY WindowAssumption
<1> HIDE DEF d
<1>2. Window \in Nat \ {0} /\ x % Window \in 0 .. Window - 1
    BY WindowAssumption, Division, Zenon
<1>3. (x + d) % Window = IF (x % Window) + d < Window
                         THEN (x % Window) + d
                         ELSE (x % Window) + d - Window
    BY <1>1, <1>2, Shift, Zenon
<1> QED
    BY <1>1, <1>2, <1>3

(* bit(): the position diff behind the edge is the position of the number  *)
(* diff behind the edge.                                                   *)
LEMMA BitPosition ==
    ASSUME Window # 0, NEW last \in Nat, NEW s \in 1..last, last - s < Window
    PROVE  Bit(last, last - s) = (s - 1) % Window
<1> DEFINE p == (s - 1) % Window
           d == last - s
<1>1. Window \in Nat \ {0} /\ s - 1 \in Nat /\ d \in 0 .. Window - 1
    BY WindowAssumption
<1>2. p \in 0 .. Window - 1
    BY <1>1, Division, Zenon
<1>3. (last - 1) % Window = IF p + d < Window THEN p + d ELSE p + d - Window
    <2>1. last - 1 = (s - 1) + d
        OBVIOUS
    <2> QED
        BY <1>1, <2>1, Shift, Zenon
<1>4. Bit(last, d) = (((last - 1) % Window) + Window - d) % Window
    BY Zenon DEF Bit
<1> HIDE DEF p, d
<1>5. CASE p + d < Window
    <2>1. ((last - 1) % Window) + Window - d = Window * 1 + p
        BY <1>1, <1>2, <1>3, <1>5
    <2>2. (Window * 1 + p) % Window = p
        BY <1>1, <1>2, Remainder
    <2> QED
        BY <1>4, <2>1, <2>2, Zenon DEF p, d
<1>6. CASE ~(p + d < Window)
    <2>1. ((last - 1) % Window) + Window - d = p
        BY <1>1, <1>2, <1>3, <1>6
    <2>2. p % Window = p
        BY <1>1, <1>2, SMT
    <2> QED
        BY <1>4, <2>1, <2>2, Zenon DEF p, d
<1> QED
    BY <1>5, <1>6, Zenon

(* A forward jump from the edge to seq clears the bit of every number it   *)
(* skips, and of no number that is still inside the new window.            *)
LEMMA KeptBits ==
    ASSUME Window # 0, NEW last \in Nat \ {0}, NEW seq \in Nat, seq > last,
           NEW mask \in SUBSET (0 .. Window - 1),
           NEW s \in 1 .. seq - 1, seq - s < Window
    PROVE  LET bits == Kept([last |-> last, mask |-> mask], seq)
           IN  (s - 1) % Window \in bits <=>
                   s <= last /\ (s - 1) % Window \in mask
<1> DEFINE w == [last |-> last, mask |-> mask]
           q == (last - 1) % Window
           p == (s - 1) % Window
           n == seq - last - 1
           Skipped == {(q + 1 + i) % Window : i \in 0 .. n - 1}
<1>1. Window \in Nat \ {0} /\ n \in Nat
    BY WindowAssumption
<1>2. q \in 0 .. Window - 1 /\ p \in 0 .. Window - 1
    BY <1>1, Division
<1>3. CASE seq - last >= Window
    <2>1. ~(s <= last)
        BY <1>1, <1>3
    <2>2. Kept(w, seq) = {}
        BY <1>3, Zenon DEF Kept
    <2> QED
        BY <2>1, <2>2, Zenon
<1>4. CASE ~(seq - last >= Window)
    <2>1. Kept(w, seq) = mask \ Skipped
        BY <1>4, Zenon DEF Kept, ClearRange
    <2>2. ASSUME NEW i \in 0 .. n - 1
          PROVE  (q + 1 + i) % Window = IF q + 1 + i < Window
                                        THEN q + 1 + i
                                        ELSE q + 1 + i - Window
        <3> HIDE DEF q
        <3>1. 1 + i \in 0 .. Window - 1 /\ q \in Nat /\ q % Window = q
            BY <1>1, <1>2, <1>4, <2>2
        <3>2. (q + (1 + i)) % Window = IF (q % Window) + (1 + i) < Window
                                       THEN (q % Window) + (1 + i)
                                       ELSE (q % Window) + (1 + i) - Window
            BY <1>1, <3>1, Shift, Zenon
        <3>3. q + (1 + i) = q + 1 + i
            BY <2>2, <3>1
        <3> QED
            BY <1>1, <2>2, <3>1, <3>2, <3>3
    <2>3. CASE s <= last
        <3> DEFINE d == last - s
        <3>1. d \in 0 .. Window - 1 /\ d + n + 1 < Window
            BY <1>1, <2>3
        <3>2. q = IF p + d < Window THEN p + d ELSE p + d - Window
            <4>1. last - 1 = (s - 1) + d /\ s - 1 \in Nat
                OBVIOUS
            <4> HIDE DEF d
            <4>2. ((s - 1) + d) % Window = IF ((s - 1) % Window) + d < Window
                                           THEN ((s - 1) % Window) + d
                                           ELSE ((s - 1) % Window) + d - Window
                BY <1>1, <3>1, <4>1, Shift, Zenon
            <4> QED
                BY <4>1, <4>2, Zenon
        <3> HIDE DEF q, p, d, n
        <3>3. ASSUME NEW i \in 0 .. n - 1
              PROVE  p # (q + 1 + i) % Window
            BY <1>1, <1>2, <2>2, <3>1, <3>2
        <3>4. p \notin Skipped
            BY <3>3, Zenon
        <3> QED
            BY <2>1, <2>3, <3>4, Zenon DEF p
    <2>4. CASE ~(s <= last)
        <3> DEFINE d == s - last
        <3>1. d \in 0 .. Window - 1 /\ 1 <= d /\ d <= n
            BY <1>1, <1>4, <2>4
        <3>2. p = IF q + d < Window THEN q + d ELSE q + d - Window
            <4>1. s - 1 = (last - 1) + d /\ last - 1 \in Nat
                OBVIOUS
            <4> HIDE DEF d
            <4>2. ((last - 1) + d) % Window = IF ((last - 1) % Window) + d < Window
                                              THEN ((last - 1) % Window) + d
                                              ELSE ((last - 1) % Window) + d - Window
                BY <1>1, <3>1, <4>1, Shift, Zenon
            <4> QED
                BY <4>1, <4>2, Zenon
        <3> HIDE DEF q, p, d, n
        <3>3. d - 1 \in 0 .. n - 1 /\ (q + 1 + (d - 1)) % Window = p
            <4>1. d - 1 \in 0 .. n - 1
                BY <1>1, <3>1
            <4> QED
                BY <1>1, <1>2, <2>2, <3>1, <3>2, <4>1
        <3>4. p \in Skipped
            BY <3>3, Zenon
        <3> QED
            BY <2>1, <2>4, <3>4, Zenon DEF p
    <2> QED
        BY <2>3, <2>4, Zenon
<1> QED
    BY <1>3, <1>4, Zenon

(* Under the invariant, check() lets through exactly the numbers that are  *)
(* not zero, not a window behind and not accepted.                         *)
LEMMA CheckMeaning ==
    ASSUME Window # 0, TypeOK, Exact, NEW s \in 0..MaxSeq
    PROVE  Check(window, s) <=>
               s # 0 /\ window.last - s < Window /\ accepted[s] = 0
<1>1. accepted[s] \in Nat /\ window.last \in 0..MaxSeq
    BY Zenon DEF TypeOK
<1>2. CASE s \in 1..window.last /\ window.last - s < Window
    <2>1. Bit(window.last, window.last - s) = (s - 1) % Window
        BY <1>1, <1>2, BitPosition, SMTT(30)
    <2>2. accepted[s] > 0 <=> (s - 1) % Window \in window.mask
        BY <1>1, <1>2, Zenon DEF Exact
    <2> QED
        BY <1>1, <1>2, <2>1, <2>2 DEF Check
<1>3. CASE ~(s \in 1..window.last /\ window.last - s < Window)
    <2>1. s > window.last => accepted[s] = 0
        BY <1>1 DEF Exact
    <2> QED
        BY <1>1, <1>3, <2>1, WindowAssumption, MaxSeqAssumption DEF Check
<1> QED
    BY <1>2, <1>3, Zenon

(* Types are kept by the whole SA.                                         *)
THEOREM TypeCorrect == Spec => []TypeOK
<1>1. Init => TypeOK
    BY MaxSeqAssumption DEF Init, TypeOK
<1>2. TypeOK /\ [Next]_vars => TypeOK'
    <2> SUFFICES ASSUME TypeOK, [Next]_vars PROVE TypeOK'
        BY Zenon
    <2>1. ASSUME NEW a \in Slots, NEW seq \in 0..MaxSeq, NEW kind \in Kinds,
                 Authenticate(a, seq, kind)
          PROVE  TypeOK'
        <3>1. [seq |-> seq, kind |-> kind] \in Packets
            BY <2>1, Zenon DEF Authenticate, Packets
        <3> QED
            BY <2>1, <3>1, Zenon DEF Authenticate, TypeOK
    <2>2. ASSUME NEW a \in Slots, CommitLocked(a)
          PROVE  TypeOK'
        <3>1. held[a] \in Packets /\ held' \in [Slots -> Packets \cup {None}]
            BY <2>2, Zenon DEF CommitLocked, TypeOK
        <3>2. held[a].seq \in 0..MaxSeq
            BY <3>1, Zenon DEF Packets
        <3>3. accepted' \in [0..MaxSeq -> Nat] /\ delivered' \in [0..MaxSeq -> Nat]
            BY <2>2, <3>2, SMTT(30) DEF CommitLocked, TypeOK
        <3>4. window' \in [last : 0..MaxSeq, mask : SUBSET (0 .. Window - 1)]
            <4>1. CASE ~Check(window, held[a].seq)
                BY <2>2, <4>1, Zenon DEF CommitLocked, TypeOK
            <4>2. CASE Check(window, held[a].seq)
                <5> DEFINE seq == held[a].seq
                <5>1. window' = Committed(window, seq)
                    BY <2>2, <4>2, Zenon DEF CommitLocked
                <5>2. CASE Window = 0
                    BY <5>1, <5>2, Zenon DEF Committed, TypeOK
                <5>3. CASE Window # 0
                    <6>1. seq # 0 /\ (seq - 1) % Window \in 0 .. Window - 1
                        <7>1. seq # 0
                            BY <4>2, <5>3, Zenon DEF Check
                        <7>2. seq - 1 \in Nat /\ Window \in Nat \ {0}
                            BY <3>2, <5>3, <7>1, WindowAssumption
                        <7> QED
                            BY <7>1, <7>2, Division, Zenon
                    <6>2. Kept(window, seq) \in SUBSET (0 .. Window - 1)
                        BY Zenon DEF Kept, ClearRange, TypeOK
                    <6>3. ASSUME window.last # 0, seq <= window.last
                          PROVE  Bit(window.last, window.last - seq) \in 0 .. Window - 1
                        <7>1. window.last - seq < Window
                            BY <3>2, <4>2, <5>3, <6>3 DEF Check, TypeOK
                        <7>2. Bit(window.last, window.last - seq) = (seq - 1) % Window
                            BY <3>2, <5>3, <6>1, <6>3, <7>1, BitPosition DEF TypeOK
                        <7> QED
                            BY <6>1, <7>2, Zenon
                    <6> QED
                        BY <3>2, <5>1, <5>3, <6>1, <6>2, <6>3 DEF Committed, TypeOK
                <5> QED
                    BY <5>2, <5>3, Zenon
            <4> QED
                BY <4>1, <4>2, Zenon
        <3> QED
            BY <3>1, <3>3, <3>4, Zenon DEF TypeOK
    <2>3. CASE UNCHANGED vars
        BY <2>3, Zenon DEF vars, TypeOK
    <2> QED
        BY <2>1, <2>2, <2>3, Zenon DEF Next
<1> QED
    BY <1>1, <1>2, PTL DEF Spec

(* The bitmap invariant is kept by every step.                             *)
THEOREM ExactIsInvariant == Spec => []Exact
<1> USE WindowAssumption, MaxSeqAssumption
<1>1. Init => Exact
    BY MaxSeqAssumption DEF Init, Exact
<1>2. TypeOK /\ TypeOK' /\ Exact /\ [Next]_vars => Exact'
    <2> SUFFICES ASSUME TypeOK, TypeOK', Exact, [Next]_vars, Window # 0
                 PROVE  Exact'
        BY Zenon DEF Exact
    <2>1. ASSUME NEW a \in Slots, NEW seq \in 0..MaxSeq, NEW kind \in Kinds,
                 Authenticate(a, seq, kind)
          PROVE  Exact'
        BY <2>1, Zenon DEF Authenticate, Exact
    <2>2. ASSUME NEW a \in Slots, CommitLocked(a), ~Check(window, held[a].seq)
          PROVE  Exact'
        BY <2>2, Zenon DEF CommitLocked, Exact
    <2>3. ASSUME NEW a \in Slots, CommitLocked(a), Check(window, held[a].seq)
          PROVE  Exact'
        <3> DEFINE seq == held[a].seq
                   last == window.last
        <3>1. seq \in 0..MaxSeq
            BY <2>3, Zenon DEF CommitLocked, TypeOK, Packets
        <3>2. seq # 0 /\ last - seq < Window /\ accepted[seq] = 0
            BY <2>3, <3>1, CheckMeaning, Zenon
        <3>3. /\ window' = Committed(window, seq)
              /\ accepted' = [accepted EXCEPT ![seq] = @ + 1]
              /\ \/ delivered' = delivered
                 \/ delivered' = [delivered EXCEPT ![seq] = @ + 1]
            BY <2>3, Zenon DEF CommitLocked
        <3>4. /\ last \in 0..MaxSeq /\ window.mask \in SUBSET (0 .. Window - 1)
              /\ window = [last |-> last, mask |-> window.mask]
              /\ accepted \in [0..MaxSeq -> Nat] /\ delivered \in [0..MaxSeq -> Nat]
            BY Zenon DEF TypeOK
        <3>5. window'.last = IF seq > last THEN seq ELSE last
            BY <3>1, <3>2, <3>3, <3>4, SMTT(30) DEF Committed
        <3> HIDE DEF seq, last
        <3>6. \A s \in 0..MaxSeq : /\ accepted'[s] <= 1
                                   /\ delivered'[s] <= accepted'[s]
                                   /\ accepted'[s] > 0 => s \in 1..window'.last
            <4> TAKE s \in 0..MaxSeq
            <4>1. /\ accepted[s] <= 1 /\ delivered[s] <= accepted[s]
                  /\ accepted[s] > 0 => s \in 1..last
                BY Zenon DEF Exact, last
            <4>2. CASE s = seq
                BY <3>1, <3>2, <3>3, <3>4, <3>5, <4>1, <4>2, SMTT(30)
            <4>3. CASE s # seq
                BY <3>1, <3>2, <3>3, <3>4, <3>5, <4>1, <4>3, SMTT(30)
            <4> QED
                BY <4>2, <4>3, Zenon
        <3>7. window'.last # 0 /\ accepted'[window'.last] > 0
            BY <3>1, <3>2, <3>3, <3>4, <3>5 DEF Exact, last
        <3>8. ASSUME NEW s \in 1..window'.last, window'.last - s < Window
              PROVE  accepted'[s] > 0 <=> (s - 1) % Window \in window'.mask
            <4>1. s \in 1..MaxSeq
                BY <3>1, <3>4, <3>5
            <4>2. accepted'[s] > 0 <=> accepted[s] > 0 \/ s = seq
                BY <3>1, <3>2, <3>3, <3>4, <4>1
            <4>3. s # seq => (s - 1) % Window # (seq - 1) % Window
                <5>2. s - 1 \in Nat /\ seq - 1 \in Nat
                    BY <3>1, <3>2, <4>1
                <5>3. s # seq => \/ s - 1 < seq - 1 /\ (seq - 1) - (s - 1) < Window
                                 \/ seq - 1 < s - 1 /\ (s - 1) - (seq - 1) < Window
                    BY <3>1, <3>2, <3>4, <3>5, <3>8, <4>1, SMTT(30)
                <5> QED
                    BY <5>2, <5>3, Distinct, Zenon
            <4>4. CASE last = 0
                BY <3>1, <3>2, <3>3, <3>4, <4>1, <4>2, <4>3, <4>4
                   DEF Committed, Exact, last
            <4>5. CASE last # 0 /\ seq > last
                <5>1. window'.mask = Kept(window, seq) \cup {(seq - 1) % Window}
                    BY <3>1, <3>3, <3>4, <4>5 DEF Committed, last
                <5>2. CASE s = seq
                    BY <4>2, <5>1, <5>2, Zenon
                <5>3. CASE s # seq
                    <6>1. s \in 1 .. seq - 1 /\ seq - s < Window
                        BY <3>1, <3>5, <3>8, <4>1, <4>5, <5>3
                    <6>2. (s - 1) % Window \in Kept(window, seq) <=>
                              s <= last /\ (s - 1) % Window \in window.mask
                        BY <3>1, <3>4, <4>5, <6>1, KeptBits, SMTT(30)
                    <6>3. accepted[s] > 0 <=>
                              s <= last /\ (s - 1) % Window \in window.mask
                        <7>1. s <= last => s \in 1..last /\ last - s < Window
                            BY <3>1, <3>4, <4>1, <4>5, <6>1
                        <7>2. ~(s <= last) => ~(accepted[s] > 0)
                            BY <3>4, <4>1 DEF Exact, last
                        <7> QED
                            BY <7>1, <7>2, Zenon DEF Exact, last
                    <6> QED
                        BY <4>2, <4>3, <5>1, <5>3, <6>2, <6>3, Zenon
                <5> QED
                    BY <5>2, <5>3, Zenon
            <4>6. CASE last # 0 /\ ~(seq > last)
                <5>1. Bit(last, last - seq) = (seq - 1) % Window
                    BY <3>1, <3>2, <3>4, <4>6, BitPosition, SMTT(30)
                <5>2. window'.mask = window.mask \cup {(seq - 1) % Window}
                    BY <3>1, <3>3, <3>4, <4>6, <5>1 DEF Committed, last
                <5>3. accepted[s] > 0 <=> (s - 1) % Window \in window.mask
                    BY <3>4, <3>5, <3>8, <4>6, Zenon DEF Exact, last
                <5> QED
                    BY <4>2, <4>3, <5>2, <5>3, Zenon
            <4> QED
                BY <4>4, <4>5, <4>6, <3>1, <3>4, Zenon
        <3> QED
            BY <3>6, <3>7, <3>8, Zenon DEF Exact
    <2>4. CASE UNCHANGED vars
        BY <2>4, Zenon DEF vars, Exact
    <2> QED
        BY <2>1, <2>2, <2>3, <2>4, Zenon DEF Next
<1> QED
    BY <1>1, <1>2, TypeCorrect, PTL DEF Spec

(* No sequence number is delivered twice, whatever the interleaving of     *)
(* Authenticate and Commit, for every window but the disabled one.         *)
THEOREM NoReplayTheorem == Spec => []NoReplay
<1>1. TypeOK /\ Exact => NoReplay
    <2> SUFFICES ASSUME TypeOK, Exact, Window # 0, NEW s \in 0..MaxSeq
                 PROVE  accepted[s] <= 1 /\ delivered[s] <= 1
        BY Zenon DEF NoReplay
    <2>1. accepted[s] \in Nat /\ delivered[s] \in Nat
        BY Zenon DEF TypeOK
    <2> QED
        BY <2>1 DEF Exact
<1> QED
    BY <1>1, TypeCorrect, ExactIsInvariant, PTL

(* Inside and ahead of the window, a number is refused exactly when it was *)
(* accepted before.                                                        *)
THEOREM WindowExactTheorem == Spec => []WindowExact
<1>1. TypeOK /\ Exact => WindowExact
    BY CheckMeaning DEF WindowExact, Seqs
<1> QED
    BY <1>1, TypeCorrect, ExactIsInvariant, PTL

(* The bitmap implements the set of accepted numbers (AntiReplay).         *)
THEOREM Refinement == Window # 0 => (Spec => Refines)
<1> SUFFICES ASSUME Window # 0 PROVE Spec => Refines
    BY Zenon
<1> USE WindowAssumption, MaxSeqAssumption
<1> DEFINE seen == {s \in Seqs : accepted[s] > 0}
<1>1. Init => Abstract!Init
    BY SMTT(30) DEF Init, Abstract!Init, Seqs
<1>2. TypeOK /\ Exact /\ [Next]_vars => [Abstract!Next]_seen
    <2> SUFFICES ASSUME TypeOK, Exact, [Next]_vars
                 PROVE  [Abstract!Next]_seen
        BY Zenon
    <2>1. ASSUME NEW a \in Slots, NEW seq \in 0..MaxSeq, NEW kind \in Kinds,
                 Authenticate(a, seq, kind)
          PROVE  UNCHANGED seen
        BY <2>1, Zenon DEF Authenticate
    <2>2. ASSUME NEW a \in Slots, CommitLocked(a), ~Check(window, held[a].seq)
          PROVE  UNCHANGED seen
        BY <2>2, Zenon DEF CommitLocked
    <2>3. ASSUME NEW a \in Slots, CommitLocked(a), Check(window, held[a].seq)
          PROVE  Abstract!Next
        <3> DEFINE seq == held[a].seq
        <3>1. seq \in 0..MaxSeq
            BY <2>3, Zenon DEF CommitLocked, TypeOK, Packets
        <3>2. seq \in Seqs /\ window.last - seq < Window /\ accepted[seq] = 0
            BY <2>3, <3>1, CheckMeaning, SMTT(30) DEF Seqs
        <3>3. accepted' = [accepted EXCEPT ![seq] = @ + 1]
            BY <2>3, Zenon DEF CommitLocked
        <3> HIDE DEF seq
        <3>4. seen' = seen \cup {seq}
            BY <3>1, <3>2, <3>3, SMTT(30) DEF TypeOK, Seqs
        <3>5. seq \notin seen /\ \A t \in seen : t - seq < Window
            BY <3>2 DEF Exact, Seqs, TypeOK
        <3> QED
            BY <3>2, <3>4, <3>5, Zenon DEF Abstract!Next, Abstract!Accept,
                                    Abstract!Fresh, Abstract!Seqs, Seqs
    <2>4. CASE UNCHANGED vars
        BY <2>4, Zenon DEF vars
    <2> QED
        BY <2>1, <2>2, <2>3, <2>4, Zenon DEF Next
<1> QED
    BY <1>1, <1>2, TypeCorrect, ExactIsInvariant, PTL
       DEF Spec, Refines, Abstract!Spec

-----------------------------------------------------------------------------
(* The half-open slots of the handshakes.                                 *)

\* SlotsExact, with the caps.
Held == {h \in Handshakes : hs[h].phase \in Inside}
From(s) == {h \in Held : Source(h) = s}
Counted ==
    /\ halfOpen = Cardinality(Held) /\ halfOpen <= HalfOpenLimit
    /\ bySource \in [Sources -> Nat]
    /\ \A s \in Sources : bySource[s] = Cardinality(From(s)) /\ bySource[s] <= HalfOpenPerSource

\* What the argument needs of cardinalities.
Counting ==
    /\ \A S, x : IsFiniteSet(S) =>
         /\ Cardinality(S) \in Nat
         /\ x \in S => Cardinality(S) # 0 /\ Cardinality(S \ {x}) = Cardinality(S) - 1
         /\ x \notin S => Cardinality(S \cup {x}) = Cardinality(S) + 1
    /\ \A n \in Nat : \A S \in SUBSET (1..n) : IsFiniteSet(S)
    /\ Cardinality({}) = 0

LEMMA HeldFinite ==
    ASSUME Counting, HandshakeAssumption
    PROVE  IsFiniteSet(Held) /\ \A s : IsFiniteSet(From(s))
<1>1. MaxHandshakes \in Nat
    BY Zenon DEF HandshakeAssumption
<1>2. Held \in SUBSET (1..MaxHandshakes) /\ \A s : From(s) \in SUBSET (1..MaxHandshakes)
    BY Zenon DEF Held, From, Handshakes
<1> QED
    BY <1>1, <1>2, Zenon DEF Counting

LEMMA SlotsSame ==
    ASSUME Counted, halfOpen' = halfOpen, bySource' = bySource,
           \A g \in Handshakes : hs'[g].phase \in Inside <=> hs[g].phase \in Inside,
           \A g \in Handshakes : hs[g].phase \in Inside => hs'[g].req = hs[g].req
    PROVE  Counted'
<1>1. Held' = Held
    BY Zenon DEF Held, Inside
<1>2. \A h \in Held : Source(h)' = Source(h)
    BY Zenon DEF Held, Source
<1>3. ASSUME NEW s PROVE From(s)' = From(s)
    BY <1>1, <1>2, ZenonT(30) DEF From
<1> QED
    BY <1>1, <1>3, Zenon DEF Counted, Sources

LEMMA SlotEntered ==
    ASSUME Counting, Counted, HandshakeAssumption, NEW h \in Handshakes, NEW phase \in Inside,
           NEW open, NEW ok, hs[h].req \in Requests,
           Moves(h, phase, open, ok), hs[h].phase \notin Inside,
           halfOpen < HalfOpenLimit, bySource[Source(h)] < HalfOpenPerSource,
           halfOpen' = halfOpen + 1,
           bySource' = [bySource EXCEPT ![Source(h)] = @ + 1]
    PROVE  Counted'
<1>0. IsFiniteSet(Held) /\ \A s : IsFiniteSet(From(s))
    BY HeldFinite, Zenon
<1>1. Held' = Held \cup {h} /\ h \notin Held
    BY SMTT(30) DEF Held, Moves, Inside
<1>2. \A g \in Held' : Source(g)' = Source(g)
    BY <1>1 DEF Source, Moves, Held
<1>3. PICK t : t = Source(h)
    BY Zenon
<1>4. t \in Sources
    BY <1>3, Zenon DEF Sources, Source, Requests
<1>5. From(t)' = From(t) \cup {h} /\ h \notin From(t)
    BY <1>1, <1>2, <1>3, Zenon DEF From
<1>6. \A s : s # t => From(s)' = From(s)
    BY <1>1, <1>2, <1>3, Zenon DEF From
<1>7. Cardinality(Held') = Cardinality(Held) + 1
    BY <1>0, <1>1, Zenon DEF Counting
<1>8. Cardinality(From(t)') = Cardinality(From(t)) + 1
    BY <1>0, <1>5, ZenonT(30) DEF Counting
<1>9. Cardinality(Held) \in Nat
    BY <1>0, Zenon DEF Counting
<1>10. bySource' \in [Sources -> Nat] /\ bySource'[t] = bySource[t] + 1
       /\ \A s \in Sources : s # t => bySource'[s] = bySource[s]
    BY <1>3, <1>4 DEF Counted
<1>11. halfOpen' = Cardinality(Held') /\ halfOpen' <= HalfOpenLimit
    BY <1>7, <1>9 DEF Counted, HandshakeAssumption
<1>12. ASSUME NEW s \in Sources
       PROVE  bySource'[s] = Cardinality(From(s)') /\ bySource'[s] <= HalfOpenPerSource
    <2>1. CASE s = t
        BY <1>3, <1>4, <1>8, <1>10, <2>1 DEF Counted, HandshakeAssumption
    <2>2. CASE s # t
        BY <1>6, <1>10, <2>2, Zenon DEF Counted
    <2> QED
        BY <2>1, <2>2, Zenon
<1> QED
    BY <1>10, <1>11, <1>12, Zenon DEF Counted, Sources

LEMMA SlotLeft ==
    ASSUME Counting, Counted, HandshakeAssumption, NEW h \in Handshakes, NEW phase, phase \notin Inside,
           NEW open, NEW ok, hs[h].req \in Requests,
           Moves(h, phase, open, ok), hs[h].phase \in Inside, LeaveHalfOpen(h)
    PROVE  Counted'
<1>0. IsFiniteSet(Held) /\ \A s : IsFiniteSet(From(s))
    BY HeldFinite, Zenon
<1>1. Held' = Held \ {h} /\ h \in Held
    BY SMTT(30) DEF Held, Moves, Inside
<1>2. \A g \in Held : Source(g)' = Source(g)
    BY <1>1 DEF Source, Moves, Held
<1>3. PICK t : t = Source(h)
    BY Zenon
<1>4. t \in Sources
    BY <1>3, Zenon DEF Sources, Source, Requests
<1>5. From(t)' = From(t) \ {h} /\ h \in From(t)
    BY <1>1, <1>2, <1>3, Zenon DEF From
<1>6. \A s : s # t => From(s)' = From(s)
    BY <1>1, <1>2, <1>3, Zenon DEF From
<1>7. Cardinality(Held') = Cardinality(Held) - 1
    BY <1>0, <1>1, Zenon DEF Counting
<1>8. Cardinality(From(t)') = Cardinality(From(t)) - 1
    BY <1>0, <1>5, Zenon DEF Counting
<1>9. Cardinality(Held) \in Nat /\ Cardinality(From(t)) \in Nat
    BY <1>0, Zenon DEF Counting
<1>10. Cardinality(Held) # 0 /\ Cardinality(From(t)) # 0
    BY <1>0, <1>1, <1>5, Zenon DEF Counting
<1>11. halfOpen' = halfOpen - 1
    BY <1>9, <1>10 DEF Counted, LeaveHalfOpen
<1>12. bySource' \in [Sources -> Nat] /\ bySource'[t] = bySource[t] - 1
       /\ \A s \in Sources : s # t => bySource'[s] = bySource[s]
    <2>1. bySource' = [bySource EXCEPT ![t] = IF bySource[t] <= 1 THEN 0 ELSE bySource[t] - 1]
        BY <1>3, <1>4, Zenon DEF Counted, LeaveHalfOpen
    <2>2. bySource[t] \in Nat /\ bySource[t] # 0
        BY <1>4, <1>9, <1>10, Zenon DEF Counted
    <2> QED
        BY <1>4, <2>1, <2>2 DEF Counted
<1>13. halfOpen' = Cardinality(Held') /\ halfOpen' <= HalfOpenLimit
    BY <1>7, <1>9, <1>11 DEF Counted, HandshakeAssumption
<1>14. ASSUME NEW s \in Sources
       PROVE  bySource'[s] = Cardinality(From(s)') /\ bySource'[s] <= HalfOpenPerSource
    <2>1. CASE s = t
        BY <1>4, <1>8, <1>9, <1>12, <2>1 DEF Counted, HandshakeAssumption
    <2>2. CASE s # t
        BY <1>6, <1>12, <2>2, Zenon DEF Counted
    <2> QED
        BY <2>1, <2>2, Zenon
<1> QED
    BY <1>12, <1>13, <1>14, Zenon DEF Counted, Sources

LEMMA SlotsMoved ==
    ASSUME Counted, NEW h \in Handshakes, NEW phase, NEW open, NEW ok, Moves(h, phase, open, ok),
           phase \in Inside <=> hs[h].phase \in Inside,
           halfOpen' = halfOpen, bySource' = bySource
    PROVE  Counted'
<1>1. \A g \in Handshakes : hs'[g].phase \in Inside <=> hs[g].phase \in Inside
    BY SMTT(30) DEF Moves
<1>2. \A g \in Handshakes : hs'[g].req = hs[g].req
    BY DEF Moves
<1> QED
    BY <1>1, <1>2, SlotsSame, ZenonT(30)

LEMMA SlotFailed ==
    ASSUME Counting, Established, Counted, HandshakeAssumption, NEW h \in Handshakes,
           hs[h].phase \in Inside, Fail(h)
    PROVE  Counted'
<1>1. "done" \in Phases /\ "done" \notin Inside
    BY Zenon DEF Phases, Inside
<1>2. Moves(h, "done", FALSE, hs[h].ok)
    BY <1>1, MovesIs, Zenon DEF Established, Fail
<1>3. hs[h].req \in Requests
    BY Zenon DEF Established, HandshakeTypes, Inside
<1> QED
    BY <1>1, <1>2, <1>3, SlotLeft, Zenon DEF Fail

LEMMA SlotsHandshake ==
    ASSUME Counting, Established, Counted, HandshakeAssumption, NEW h \in Handshakes,
           Handshake(h) \/ Expire(h) \/ EndSession(h)
    PROVE  Counted'
<1>0. HandshakeTypes /\ hs \in [Handshakes -> HsState] /\ hs[h] \in HsState
    BY Zenon DEF Established, HandshakeTypes
<1>1. CASE Receive(h)
    <2>1. PICK m \in net, p \in {"done", "received"} : hs' = [hs EXCEPT ![h].phase = p, ![h].req = m]
        BY <1>1, Zenon DEF Receive
    <2>2. hs[h].phase = "free" /\ hs'[h].phase = p
        BY <1>0, <1>1, <2>1, Zenon DEF Receive, HsState
    <2>3. \A g \in Handshakes : g # h => hs'[g] = hs[g]
        BY <1>0, <2>1, Zenon
    <2>4. \A g \in Handshakes : hs'[g].phase \in Inside <=> hs[g].phase \in Inside
        BY <2>2, <2>3, Zenon DEF Inside
    <2>5. \A g \in Handshakes : hs[g].phase \in Inside => hs'[g].req = hs[g].req
        BY <2>2, <2>3, Zenon DEF Inside
    <2> QED
        BY <1>1, <2>4, <2>5, SlotsSame, Zenon DEF Receive
<1>2. CASE CookieRequired(h)
    <2>1. PICK p \in {"done", "proved"} : hs' = [hs EXCEPT ![h].phase = p]
        BY <1>2, Zenon DEF CookieRequired
    <2>2. p \in Phases /\ (p \in Inside <=> hs[h].phase \in Inside)
        BY <1>2, Zenon DEF Phases, Inside, CookieRequired
    <2>3. Moves(h, p, hs[h].open, hs[h].ok)
        BY <1>0, <2>1, <2>2, MovesIs, Zenon
    <2> QED
        BY <1>2, <2>2, <2>3, SlotsMoved, Zenon DEF CookieRequired
<1>3. CASE EnterHalfOpen(h)
    <2>0. "done" \in Phases /\ "admitted" \in Phases /\ "admitted" \in Inside
          /\ hs[h].phase \notin Inside /\ "done" \notin Inside
        BY <1>3, Zenon DEF Phases, Inside, EnterHalfOpen
    <2>1. CASE halfOpen >= HalfOpenLimit \/ bySource[Source(h)] >= HalfOpenPerSource
        <3>1. Moves(h, "done", hs[h].open, hs[h].ok) /\ halfOpen' = halfOpen /\ bySource' = bySource
            BY <1>0, <1>3, <2>0, <2>1, MovesIs, Zenon DEF EnterHalfOpen
        <3> QED
            BY <2>0, <3>1, SlotsMoved, Zenon
    <2>2. CASE ~(halfOpen >= HalfOpenLimit \/ bySource[Source(h)] >= HalfOpenPerSource)
        <3>1. /\ Moves(h, "admitted", hs[h].open, hs[h].ok) /\ halfOpen' = halfOpen + 1
              /\ bySource' = [bySource EXCEPT ![Source(h)] = @ + 1]
            BY <1>0, <1>3, <2>0, <2>2, MovesIs, Zenon DEF EnterHalfOpen
        <3>2. hs[h].req \in Requests
            BY <1>0, <1>3, Zenon DEF EnterHalfOpen, HandshakeTypes
        <3>3. halfOpen \in Nat
            BY HeldFinite, ZenonT(30) DEF Counted, Counting
        <3>4. bySource[Source(h)] \in Nat
            BY <3>2, Zenon DEF Counted, Source, Sources, Requests
        <3>5. halfOpen < HalfOpenLimit /\ bySource[Source(h)] < HalfOpenPerSource
            BY <2>2, <3>3, <3>4 DEF HandshakeAssumption
        <3> QED
            BY <2>0, <3>1, <3>2, <3>5, SlotEntered, Zenon
    <2> QED
        BY <2>1, <2>2, Zenon
<1>4. CASE Refuse(h) \/ StopWaiting(h) \/ SendFails(h)
    <2>1. hs[h].phase \in Inside /\ Fail(h)
        BY <1>4, Zenon DEF Refuse, StopWaiting, SendFails, Inside
    <2> QED
        BY <2>1, SlotFailed, ZenonT(30)
<1>5. CASE Register(h)
    <2>0. hs[h].phase \in Inside /\ "registered" \in Phases /\ "registered" \in Inside
        BY <1>5, Zenon DEF Register, Inside, Phases
    <2>1. CASE Fail(h)
        BY <2>0, <2>1, SlotFailed, Zenon
    <2>2. CASE ~Fail(h)
        <3>1. /\ hs' = [hs EXCEPT ![h].phase = "registered", ![h].open = TRUE]
              /\ halfOpen' = halfOpen /\ bySource' = bySource
            BY <1>5, <2>2, Zenon DEF Register
        <3>2. Moves(h, "registered", TRUE, hs[h].ok)
            BY <1>0, <2>0, <3>1, MovesIs, Zenon
        <3> QED
            BY <2>0, <3>1, <3>2, SlotsMoved, Zenon
    <2> QED
        BY <2>1, <2>2, Zenon
<1>6. CASE Respond(h) \/ Expire(h) \/ EndSession(h)
    <2>1. PICK p \in Phases, o \in BOOLEAN :
            /\ hs' \in {[hs EXCEPT ![h].phase = p], [hs EXCEPT ![h].open = o],
                        [hs EXCEPT ![h].phase = p, ![h].open = o]}
            /\ p \in Inside <=> hs[h].phase \in Inside
        <3>1. CASE Respond(h)
            <4>1. "waiting" \in Phases /\ ("waiting" \in Inside <=> hs[h].phase \in Inside)
                BY <3>1, Zenon DEF Phases, Inside, Respond
            <4> QED
                BY <3>1, <4>1, Zenon DEF Respond
        <3>2. CASE Expire(h)
            BY <1>0, <3>2, Zenon DEF Expire, HsState
        <3>3. CASE EndSession(h)
            <4>1. "done" \in Phases /\ ("done" \in Inside <=> hs[h].phase \in Inside)
                BY <3>3, Zenon DEF Phases, Inside, EndSession
            <4> QED
                BY <3>3, <4>1, Zenon DEF EndSession
        <3> QED
            BY <1>6, <3>1, <3>2, <3>3, Zenon
    <2>2. \/ Moves(h, p, hs[h].open, hs[h].ok) \/ Moves(h, hs[h].phase, o, hs[h].ok)
          \/ Moves(h, p, o, hs[h].ok)
        BY <1>0, <2>1, MovesIs, Zenon
    <2>3. halfOpen' = halfOpen /\ bySource' = bySource
        BY <1>6, Zenon DEF Respond, Expire, EndSession
    <2> QED
        BY <2>1, <2>2, <2>3, SlotsMoved, Zenon
<1>7. CASE CompleteResponderAuth(h)
    <2>0. hs[h].phase \in Inside /\ "answered" \in Phases /\ "answered" \in Inside
        BY <1>7, Zenon DEF CompleteResponderAuth, Inside, Phases
    <2>1. CASE Fail(h)
        BY <2>0, <2>1, SlotFailed, Zenon
    <2>2. CASE ~Fail(h)
        <3>1. /\ hs' = [hs EXCEPT ![h].phase = "answered", ![h].ok = TRUE]
              /\ halfOpen' = halfOpen /\ bySource' = bySource
            BY <1>7, <2>2, Zenon DEF CompleteResponderAuth
        <3>2. Moves(h, "answered", hs[h].open, TRUE)
            BY <1>0, <2>0, <3>1, MovesIs, Zenon
        <3> QED
            BY <2>0, <3>1, <3>2, SlotsMoved, Zenon
    <2> QED
        BY <2>1, <2>2, Zenon
<1>8. CASE Return(h)
    <2>1. "session" \in Phases /\ "session" \notin Inside /\ hs[h].phase \in Inside
        BY <1>8, Zenon DEF Phases, Inside, Return
    <2>2. hs' = [hs EXCEPT ![h].phase = "session"] /\ LeaveHalfOpen(h)
        BY <1>8, Zenon DEF Return
    <2>3. Moves(h, "session", hs[h].open, hs[h].ok)
        BY <1>0, <2>1, <2>2, MovesIs, Zenon
    <2>4. hs[h].req \in Requests
        BY <1>0, <2>1, Zenon DEF HandshakeTypes, Inside
    <2> QED
        BY <2>1, <2>2, <2>3, <2>4, SlotLeft, Zenon
<1> QED
    BY <1>1, <1>2, <1>3, <1>4, <1>5, <1>6, <1>7, <1>8, Zenon DEF Handshake, Own

LEMMA SlotsInit ==
    ASSUME Counting, HandshakeAssumption, HandshakeInit
    PROVE  Counted
<1>1. Held = {} /\ \A s : From(s) = {}
    BY Zenon DEF HandshakeInit, Held, From, Inside
<1>2. Cardinality({}) = 0
    BY Zenon DEF Counting
<1>3. halfOpen = 0 /\ bySource = [s \in Sources |-> 0]
    BY Zenon DEF HandshakeInit
<1> QED
    BY <1>1, <1>2, <1>3 DEF Counted, HandshakeAssumption

Finite == INSTANCE FiniteSetTheorems

LEMMA CountingHolds == Counting
<1>1. ASSUME NEW S, NEW x, IsFiniteSet(S)
      PROVE  /\ Cardinality(S) \in Nat
             /\ x \in S => Cardinality(S) # 0 /\ Cardinality(S \ {x}) = Cardinality(S) - 1
             /\ x \notin S => Cardinality(S \cup {x}) = Cardinality(S) + 1
    <2>1. Finite!IsFiniteSet(S)
        BY <1>1, Zenon DEF IsFiniteSet, Finite!IsFiniteSet
    <2>2. \A T : Cardinality(T) = Finite!Cardinality(T)
        BY Zenon DEF Cardinality, Finite!Cardinality
    <2>3. Finite!Cardinality(S) \in Nat
        BY <2>1, Finite!FS_CardinalityType, Zenon
    <2>4. x \in S => Finite!Cardinality(S \ {x}) = Finite!Cardinality(S) - 1
        BY <2>1, Finite!FS_RemoveElement, Zenon
    <2>5. x \notin S => Finite!Cardinality(S \cup {x}) = Finite!Cardinality(S) + 1
        BY <2>1, Finite!FS_AddElement, Zenon
    <2>6. x \in S => Finite!Cardinality(S) # 0
        BY <2>1, Finite!FS_EmptySet, Zenon
    <2> QED
        BY <2>2, <2>3, <2>4, <2>5, <2>6, Zenon
<1>2. ASSUME NEW n \in Nat, NEW S \in SUBSET (1..n) PROVE IsFiniteSet(S)
    <2>1. Finite!IsFiniteSet(1..n)
        BY Finite!FS_Interval
    <2>2. Finite!IsFiniteSet(S)
        BY <2>1, Finite!FS_Subset, Zenon
    <2> QED
        BY <2>2, Zenon DEF IsFiniteSet, Finite!IsFiniteSet
<1>3. Cardinality({}) = 0
    BY Finite!FS_EmptySet, Zenon DEF Cardinality, Finite!Cardinality
<1> QED
    BY <1>1, <1>2, <1>3, Zenon DEF Counting

\* The two half-open counts are exactly the handshakes that hold a slot, and never
\* more than the caps: no path out of a handshake leaks a slot or frees one twice, so
\* the floors of leaveHalfOpen never act (enterHalfOpen, leaveHalfOpen).
THEOREM SlotsKept == HandshakeAssumption => (HandshakeSpec => [](HandshakeTypeOK /\ SlotsExact))
<1> SUFFICES ASSUME HandshakeAssumption
             PROVE  HandshakeSpec => [](HandshakeTypeOK /\ SlotsExact)
    BY Zenon
<1>1. HandshakeInit => Established /\ Counted
    BY EstablishedInit, SlotsInit, CountingHolds, Zenon
<1>2. Established /\ Counted /\ [HandshakeNext]_handshakeVars => Established' /\ Counted'
    <2> SUFFICES ASSUME Established, Counted, [HandshakeNext]_handshakeVars
                 PROVE  Counted'
        BY EstablishedStep, Zenon
    <2>1. ASSUME NEW d \in Dials, Initiator(d)
          PROVE  hs' = hs /\ halfOpen' = halfOpen /\ bySource' = bySource
        BY <2>1, Zenon DEF Initiator, Dial, EchoCookie, ChangeGroup, AcceptInit,
                    AcceptAuth, GiveUp, responder
    <2>2. Tick \/ UNCHANGED handshakeVars => hs' = hs /\ halfOpen' = halfOpen /\ bySource' = bySource
        BY Zenon DEF Tick, responder, handshakeVars
    <2>3. hs' = hs /\ halfOpen' = halfOpen /\ bySource' = bySource => Counted'
        BY SlotsSame, ZenonT(30)
    <2> QED
        BY <2>1, <2>2, <2>3, SlotsHandshake, CountingHolds, Zenon DEF HandshakeNext
<1>3. Established /\ Counted => HandshakeTypeOK /\ SlotsExact
    <2> SUFFICES ASSUME Established, Counted
                 PROVE  HandshakeTypeOK /\ SlotsExact
        BY Zenon
    <2>1. SlotsExact
        BY Zenon DEF Counted, Held, From, SlotsExact
    <2>2. \A d \in Dials :
            /\ dial[d].phase \in {"idle", "init", "auth", "delete", "up", "failed"}
            /\ dial[d].group \in Groups
            /\ dial[d].peer \in 0..MaxHandshakes
            /\ owner[d] \in 0..MaxHandshakes
        BY Zenon DEF Established, HandshakeTypes, DialState, DialPhases, Groups
    <2>3. \A h \in Handshakes :
            /\ hs[h].phase \in Inside \cup {"free", "received", "proved", "session", "done"}
            /\ hs[h].phase = "free" \/ hs[h].req.spi \in Dials
        BY Zenon DEF Established, HandshakeTypes, HsState, Phases, Inside, Requests
    <2>4. halfOpen \in Nat
        BY HeldFinite, CountingHolds, Zenon DEF Counted, Counting
    <2>5. halfOpen \in 0..HalfOpenLimit /\ \A s \in Sources : bySource[s] \in 0..HalfOpenPerSource
        BY <2>4 DEF Counted, HandshakeAssumption
    <2>6. version \in Nat /\ rotated <= clock /\ clock <= MaxClock
        BY Zenon DEF Established, Cookied, Clocks
    <2> QED
        BY <2>1, <2>2, <2>3, <2>5, <2>6, Zenon DEF HandshakeTypeOK
<1> QED
    BY <1>1, <1>2, <1>3, PTL DEF HandshakeSpec

(* The two ends agree, on one session a dial; the counts are exact, and    *)
(* the hub keeps nothing of a handshake that ended: for any number of      *)
(* dials, sources, handshakes and limits.                                  *)
THEOREM HandshakesAgreeTheorem == HandshakeAssumption => (HandshakeSpec => []HandshakesAgree)
<1> SUFFICES ASSUME HandshakeAssumption PROVE HandshakeSpec => []HandshakesAgree
    BY Zenon
<1>1. HandshakeSpec => [](Agreement /\ OneSession /\ NothingSurvives)
    BY PeersAgree, Zenon
<1>2. HandshakeSpec => [](HandshakeTypeOK /\ SlotsExact)
    BY SlotsKept, Zenon
<1>3. (Agreement /\ OneSession /\ NothingSurvives) /\ (HandshakeTypeOK /\ SlotsExact)
      => HandshakesAgree
    BY Zenon DEF HandshakesAgree
<1> QED
    BY <1>1, <1>2, <1>3, PTL
=============================================================================
