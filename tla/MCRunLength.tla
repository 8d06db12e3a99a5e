----------------------------- MODULE MCRunLength -----------------------------
(* Small pictures of every pattern, and long rows of at most three runs    *)
(* that reach the limits of the counts.                                    *)
EXTENDS RunLength

Patterns(kind, w, h, S) ==
  {[kind |-> kind, w |-> w, h |-> h, px |-> f] : f \in [0..(w * h - 1) -> S]}

LongRows(kind, w, S) ==
  {[kind |-> kind, w |-> w, h |-> 1,
    px |-> [k \in 0..(w - 1) |-> IF k < a THEN p ELSE IF k < b THEN q ELSE p]]
     : a \in 0..w, b \in {w - 1, w}, p \in S, q \in S}

PixelsFor(kind) == IF kind = "player" THEN {0, 1, Player(1), Player(2)} ELSE {0, 1, 2}

MCPics ==
  UNION {Patterns(k, e[1], e[2], PixelsFor(k)) :
           k \in Kinds, e \in {<<0, 0>>, <<1, 1>>, <<2, 1>>, <<1, 2>>, <<2, 2>>, <<3, 1>>, <<4, 1>>}}
  \cup UNION {Patterns(k, e[1], e[2], {0, 1}) : k \in Kinds, e \in {<<3, 2>>, <<1, 5>>, <<2, 3>>}}
  \cup Patterns("player", 3, 2, {0, Player(1)})
  \cup Patterns("player", 4, 3, {1}) \cup Patterns("shadow", 4, 4, {1})
  \cup UNION {LongRows("rle", w, {0, 1}) : w \in {8, 9, 17}}
  \cup UNION {LongRows("shadow", w, {0, 1}) : w \in {9, 17}}
  \cup LongRows("player", 7, {0, 1, Player(1)})
===============================================================================
