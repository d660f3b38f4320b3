----------------------------- MODULE ReplayMask -----------------------------
(***************************************************************************)
(* The words behind ReplayWindow's set of positions: how clearRange and    *)
(* clearSpan (esp/replay.go) clear a wrapping run of bits one or two       *)
(* partial words and a block of whole words at a time.  WordSize is 64.    *)
(***************************************************************************)
EXTENDS Integers

CONSTANTS
    Positions,    \* replayWindow.window, as many bits as the mask has
    WordSize

ASSUME MaskAssumption == Positions \in Nat \ {0} /\ WordSize \in Nat \ {0}

VARIABLES
    bitmap,       \* replayWindow.mask, every word the set of its one bits
    marked        \* history: the positions marked and not cleared since

maskVars == <<bitmap, marked>>

Words == 0 .. ((Positions + WordSize - 1) \div WordSize) - 1
WordBits == 0 .. WordSize - 1

Set(words, bit) == bit % WordSize \in words[bit \div WordSize]

Marked(words, bit) ==
    [words EXCEPT ![bit \div WordSize] = @ \cup {bit % WordSize}]

\* clearSpan with the last whole word not excluded from the block clear.
ClearSpanWholeTail(words, start, n) ==
    LET first == start \div WordSize
        last  == (start + n - 1) \div WordSize
    IN  [i \in Words |->
            IF i = first /\ i # last THEN words[i] \ (start % WordSize .. WordSize - 1)
            ELSE IF i \in first .. last THEN {} ELSE words[i]]

\* n bits from start without wrapping: inside one word, or the end of the
\* first, the start of the last, and every whole word between.
ClearSpan(words, start, n) ==
    LET end    == start + n
        first  == start \div WordSize
        last   == (end - 1) \div WordSize
        offset == start % WordSize
        tail   == end % WordSize
        whole  == (IF offset # 0 THEN first + 1 ELSE first)
                  .. (IF tail # 0 THEN last - 1 ELSE last)
        Cleared(i) ==
            CASE i \in whole -> WordBits
              [] i = first /\ i \notin whole -> offset .. WordSize - 1
              [] i = last /\ i \notin whole /\ i # first -> 0 .. tail - 1
              [] OTHER -> {}
    IN  CASE n = 0 -> words
          [] n # 0 /\ first = last ->
                 [words EXCEPT ![first] = @ \ (offset .. offset + n - 1)]
          [] OTHER -> [i \in Words |-> words[i] \ Cleared(i)]

\* n bits from start, wrapping at the window into at most two spans.
ClearWords(words, start, n) ==
    LET first == start % Positions
        head  == Positions - first
    IN  CASE n = 0 -> words
          [] n # 0 /\ first + n > Positions ->
                 ClearSpan(ClearSpan(words, first, head), 0, n - head)
          [] OTHER -> ClearSpan(words, first, n)

-----------------------------------------------------------------------------
(* The calls commit makes, in any order.                                   *)

MaskInit == bitmap = [i \in Words |-> {}] /\ marked = {}

Mark(bit) ==
    /\ bitmap' = Marked(bitmap, bit)
    /\ marked' = marked \cup {bit}

\* A jump of a whole window or more: clear(w.mask).
ClearAll == bitmap' = [i \in Words |-> {}] /\ marked' = {}

\* A shorter jump: start is one past a position, n at most Positions - 2.
Clear(start, n) ==
    /\ bitmap' = ClearWords(bitmap, start, n)
    /\ marked' = marked \ {(start + i) % Positions : i \in 0 .. n - 1}

MaskNext ==
    \/ \E bit \in 0 .. Positions - 1 : Mark(bit)
    \/ ClearAll
    \/ \E start \in 1..Positions, n \in 0 .. Positions - 2 : Clear(start, n)

MaskSpec == MaskInit /\ [][MaskNext]_maskVars

-----------------------------------------------------------------------------
MaskTypeOK ==
    /\ bitmap \in [Words -> SUBSET WordBits]
    /\ marked \subseteq 0 .. Positions - 1

(* The words hold exactly the positions ReplayWindow's bitmap holds, and   *)
(* the spare bits of the last word are never set: clearing a wrapped range *)
(* word by word, where it starts, ends or wraps within a word, clears what *)
(* clearing it position by position would.                                 *)
WordsAreThePositions ==
    /\ MaskTypeOK
    /\ \A i \in Words, b \in WordBits :
           b \in bitmap[i] <=> WordSize * i + b \in marked
=============================================================================
