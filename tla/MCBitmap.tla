------------------------------- MODULE MCBitmap -------------------------------
(* Small instance of Bitmap: four palette entries, two of them player      *)
(* colours, two opaque colours and bitmaps of at most two pixels; files    *)
(* and buffers of both shapes, covering more and less than the bitmap.     *)
EXTENDS Bitmap

CONSTANTS red, blue, green, clear, noPal, noBuf

MCColors == {red, blue, green}

(* A palette with a transparent index and one with a background colour.    *)
PalT == [clr |-> [k \in 0..3 |-> IF k = 0 THEN red ELSE IF k = 1 THEN blue
                                 ELSE IF k = 2 THEN red ELSE green],
         t |-> 0, hasT |-> TRUE]
PalB == [clr |-> [k \in 0..3 |-> IF k \in {0, 3} THEN blue ELSE red],
         t |-> 3, hasT |-> FALSE]

MCPalettes == {PalT, PalB}
MCGarbage  == {PalT, PalB}
MCExtents  == {<<0, 0>>, <<0, 1>>, <<2, 1>>, <<1, 2>>}

Buf(w, h, fmt, px) == [w |-> w, h |-> h, fmt |-> fmt, px |-> [k \in 0..(w * h - 1) |-> px[k + 1]]]

MCBuffers ==
  {Buf(1, 1, "Paletted", <<2>>), Buf(2, 2, "Paletted", <<0, 1, 2, 3>>),
   Buf(2, 1, "BGRA", <<blue, red>>), Buf(2, 2, "BGRA", <<clear, red, green, blue>>)}

MCTargets ==
  {Buf(2, 2, "Paletted", <<1, 1, 1, 1>>), Buf(2, 2, "BGRA", <<blue, blue, blue, blue>>),
   Buf(0, 0, "BGRA", <<>>)}

R(tx, ty, x, y, w, h) == [toX |-> tx, toY |-> ty, x |-> x, y |-> y, w |-> w, h |-> h]

MCRects == {R(0, 0, 0, 0, 1, 1), R(0, 0, 0, 0, 0, 0), R(1, 1, 0, 0, 1, 2), R(0, 1, 1, 0, 2, 1), R(2, 0, 0, 3, 0, 0)}

P(player, c) == [player |-> player, c |-> c]

MCFiles ==
  {[w |-> 2, h |-> 1, put |-> <<>>],
   [w |-> 2, h |-> 0, put |-> <<>>],
   [w |-> 2, h |-> 1, put |-> [k \in 0..1 |-> P(FALSE, 1)]],
   [w |-> 1, h |-> 2, put |-> [k \in 0..1 |-> P(FALSE, k + 1)]],
   [w |-> 1, h |-> 2, put |-> [k \in 1..1 |-> P(TRUE, 1)]]}
===============================================================================
