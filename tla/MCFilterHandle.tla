--------------------------- MODULE MCFilterHandle ---------------------------
(* Both families on a table of three blocks, or two, a few solutions.      *)
EXTENDS FilterHandle

CONSTANT LineBytes  \* a cache line, in segments of the homogeneous family

MCLineLen == [f \in FamilyNames |-> IF f = "std" THEN LineBytes \div 2 ELSE LineBytes]
MCElemLen == [f \in FamilyNames |-> IF f = "std" THEN 2 ELSE 1]

(* All zeros for m = 0, else a solution without a regular structure        *)
MCSolution(m) ==
  [g \in 1 .. NumBlocks * R |-> {b \in 0 .. W - 1 : (g * g + m * b * g + b) % 5 < m}]

MCSolutions == {MCSolution(m) : m \in {0, 2, 3}}

(* A solution without its last word, without all but the first block, or   *)
(* gone; without its first word; with a word behind it; with the last word *)
(* altered; with the words moved by one                                    *)
Spoilt(s) ==
  LET len  == NumBlocks * R
      head == SubSeq(s, 1, len - 1)
      tail == SubSeq(s, 2, len)
  IN  {head, SubSeq(s, 1, R), <<>>, tail, Append(s, {}),
       Append(head, (0 .. W - 1) \ s[len]), Append(tail, s[1])}

MCVectors == Spoilt(MCSolution(2)) \cup Spoilt(MCSolution(3))

(* Every start slot with some rows, short and long                         *)
MCProbes ==
  [f \in FamilyNames |->
     [hi : 0 .. HashRange - 1,
      lo : {{}, {1}, {1, 2}, IF f = "std" THEN 0 .. Half - 1 ELSE 1 .. W - 1}]]

(* Batches of up to two and a half chunks                                  *)
MCBatches ==
  [f \in FamilyNames |->
     LET Key(hi, lo) == [hi |-> hi, lo |-> lo]
         last        == HashRange - 1
     IN  {<<>>, <<Key(3, {1})>>}
           \cup {<<Key(last, {1}), Key(hi, {}), Key(3, {}), Key(last, {2}), Key(hi, {1, 2})>> :
                   hi \in 0 .. last}]
=============================================================================
