--------------------------- MODULE RunLengthProofs ---------------------------
(***************************************************************************)
(* The image buffers of the run-length writers are big enough, for every   *)
(* picture: a bound on the bytes of a row up to each of its columns.  What *)
(* was written is loaded as it was, and a cut is noticed: the data has a   *)
(* set of marks that the writers and the loaders both stop at.             *)
(***************************************************************************)
EXTENDS RunLength, NatSetLemmas, SequenceTheorems, TLAPS

(* The most bytes that the pixels before column i take.  A row of rle or   *)
(* shadow that begins with transparent pixels starts with a count of 0,    *)
(* and one that ends with coloured ones ends with one; the slack of one    *)
(* byte in between is what the last run needs.                             *)
RowBytes(i) ==
  CASE pic.kind = "rle"    -> IF i = 0 THEN 0 ELSE IF i = W THEN 2 * W
                              ELSE IF i = 1 THEN 2 ELSE 2 * i - 1
    [] pic.kind = "shadow" -> IF i = 0 THEN 0 ELSE IF i = W THEN W + 2 ELSE i + 1
    [] OTHER               -> 2 * i

RowSize == RowBytes(W) + Len(EndMark)

Narrow == pic.kind = "rle" /\ W < 3

(* A run of transparent pixels that the limit did not end is followed by a *)
(* coloured pixel.                                                         *)
NextIsOpaque ==
  /\ pic.kind = "shadow" /\ x \in 1..(W - 1) => Cell(x) \in Opaques
  /\ pic.kind = "rle" /\ x = 1 /\ W > 1 => Cell(1) \in Opaques

WritingOK ==
  /\ x \in 0..W /\ y \in 0..H /\ (y = H => x = 0)
  /\ image \in Seq(Int)
  /\ ~Narrow => Len(image) =< y * RowSize + RowBytes(x)
  /\ ~Narrow /\ y < H => NextIsOpaque

IInv ==
  /\ pic \in Pics
  /\ InBuffer
  /\ phase = "writing" => WritingOK

-------------------------------------------------------------------------------
(* A product grows with its factor. *)
LEMMA ProductMonotone ==
  ASSUME NEW a \in Nat, NEW b \in Nat, NEW c \in Nat, a =< b
  PROVE  a * c =< b * c /\ a * c \in Nat
<1>1. b * c = a * c + (b - a) * c
  OBVIOUS
<1>2. (b - a) * c >= 0 /\ a * c \in Nat
  BY b - a \in Nat
<1> QED BY <1>1, <1>2

(* One row more. *)
LEMMA NextProduct ==
  ASSUME NEW a \in Nat, NEW c \in Nat
  PROVE  (a + 1) * c = a * c + c
OBVIOUS

(* A picture is as its constants say. *)
LEMMA PicType ==
  ASSUME pic \in Pics
  PROVE  /\ pic.kind \in Kinds /\ W \in Nat /\ H \in Nat /\ (W = 0 <=> H = 0)
         /\ DOMAIN pic.px = 0..(W * H - 1) /\ pic.px \in [0..(W * H - 1) -> Pixels(pic.kind)]
<1>1. IsPic(pic)
  BY RunLengthAssumption
<1> QED BY <1>1 DEF IsPic, W, H

(* The buffer is the rows and, but for player bitmaps, the final mark. *)
LEMMA BufSizeIsRows ==
  ASSUME pic \in Pics, ~Narrow
  PROVE  /\ RowSize \in Nat /\ BufSize \in Nat
         /\ W > 0 => BufSize = H * RowSize + Len(EndMark)
         /\ Len(EndMark) \in 0..1 /\ Len(EndMark) = (IF pic.kind = "player" THEN 0 ELSE 1)
<1>1. pic.kind \in Kinds /\ W \in Nat /\ H \in Nat
  BY PicType
<1>2. Len(EndMark) = IF pic.kind = "player" THEN 0 ELSE 1
  BY DEF EndMark
<1>3. CASE pic.kind = "rle"
  <2>1. RowSize = 2 * W + 1
    BY <1>1, <1>2, <1>3 DEF RowSize, RowBytes, Narrow
  <2>2. BufSize = W * H * 2 + H + 1
    BY <1>3 DEF BufSize
  <2>3. H * (2 * W + 1) = W * H * 2 + H /\ W * H \in Nat
    BY <1>1
  <2> QED BY <1>1, <1>2, <1>3, <2>1, <2>2, <2>3
<1>4. CASE pic.kind = "shadow"
  <2>1. W > 0 => RowSize = W + 3
    BY <1>1, <1>2, <1>4 DEF RowSize, RowBytes
  <2>2. BufSize = W * H + H * 3 + 1
    BY <1>4 DEF BufSize
  <2>3. H * (W + 3) = W * H + H * 3 /\ W * H \in Nat
    BY <1>1
  <2>4. W = 0 => RowSize = 1
    BY <1>1, <1>2, <1>4 DEF RowSize, RowBytes
  <2> QED BY <1>1, <1>2, <1>4, <2>1, <2>2, <2>3, <2>4
<1>5. CASE pic.kind = "player"
  <2>1. RowSize = 2 * W
    BY <1>1, <1>2, <1>5 DEF RowSize, RowBytes
  <2>2. BufSize = W * H * 2
    BY <1>5 DEF BufSize
  <2>3. H * (2 * W) = W * H * 2 /\ W * H \in Nat
    BY <1>1
  <2> QED BY <1>1, <1>2, <1>5, <2>1, <2>2, <2>3
<1> QED BY <1>1, <1>3, <1>4, <1>5 DEF Kinds

(* A run ends at its limit, at the end of the row, or before a cell that   *)
(* is not of its kind, and it is not empty when it may begin.              *)
LEMMA RunEnds ==
  ASSUME NEW S, NEW from, NEW lim \in Nat, W \in Nat, from \in 0..W, y \in Nat
  PROVE  /\ Run(S, from, lim) \in 0..lim /\ from + Run(S, from, lim) \in from..W
         /\ \/ Run(S, from, lim) = lim
            \/ from + Run(S, from, lim) = W
            \/ Cell(from + Run(S, from, lim)) \notin S
         /\ lim > 0 /\ from < W /\ Cell(from) \in S => Run(S, from, lim) > 0
<1> DEFINE T == {n \in 0..lim : n = lim \/ from + n = W \/ Cell(from + n) \notin S}
<1>1. T \subseteq Nat /\ lim \in T
  OBVIOUS
<1>2. Min(T) \in T /\ \A k \in T : Min(T) =< k
  BY <1>1, MinOfNats
<1>3. Run(S, from, lim) = Min(T)
  BY DEF Run
<1>4. from + Min(T) \in from..W
  <2>1. CASE W - from =< lim
    <3>1. W - from \in T
      BY <2>1
    <3> QED BY <1>1, <1>2, <3>1
  <2>2. CASE W - from > lim
    BY <1>1, <1>2, <2>2
  <2> QED BY <2>1, <2>2
<1>5. ASSUME lim > 0, from < W, Cell(from) \in S PROVE Min(T) > 0
  <2>1. from + 0 = from /\ 0 # lim /\ from + 0 # W
    BY <1>5
  <2>2. 0 \notin T
    BY <1>5, <2>1
  <2> QED BY <1>1, <1>2, <2>2
<1> QED BY <1>2, <1>3, <1>4, <1>5

(* A cell of the picture is transparent or not. *)
LEMMA CellOfPic ==
  ASSUME pic \in Pics, y \in 0..(H - 1), NEW i \in 0..(W - 1)
  PROVE  Cell(i) \in Clears \/ Cell(i) \in Opaques
<1>1. W \in Nat /\ H \in Nat /\ DOMAIN pic.px = 0..(W * H - 1)
  BY PicType
<1>2. (y + 1) * W =< H * W /\ (y + 1) * W = y * W + W /\ y * W \in Nat /\ H * W = W * H
  BY <1>1, ProductMonotone, NextProduct
<1>3. Cell(i) \in DOMAIN pic.px
  BY <1>1, <1>2 DEF Cell
<1> QED BY <1>3 DEF Clears, Opaques

-------------------------------------------------------------------------------
(* The runs of one round of a row, and the bytes they take. *)

(* rle: a row of three or more pixels keeps within two bytes per pixel. *)
LEMMA RleRound ==
  ASSUME pic \in Pics, pic.kind = "rle", y \in 0..(H - 1), x \in 0..(W - 1),
         NEW n, n = Run(Opaques, x, MaxColour),
         NEW m, m = Run(Clears, x + n, MaxClear)
  PROVE  /\ n \in Nat /\ m \in Nat /\ x + n + m \in (x + 1)..W
         /\ W >= 3 /\ NextIsOpaque => RowBytes(x) + n + 2 =< RowBytes(x + n + m)
         /\ x + n + m = 1 /\ W > 1 => Cell(1) \in Opaques
<1>0. W \in Nat /\ H \in Nat /\ x \in Nat /\ y \in Nat /\ MaxColour \in Nat /\ MaxColour >= 3
      /\ MaxClear \in Nat /\ MaxClear >= 2
  BY PicType, RunLengthAssumption
<1>1. /\ n \in 0..MaxColour /\ x + n \in x..W
      /\ n = MaxColour \/ x + n = W \/ Cell(x + n) \notin Opaques
      /\ Cell(x) \in Opaques => n > 0
  BY <1>0, RunEnds
<1>2. n \in Nat /\ x + n \in 0..W
  BY <1>0, <1>1
<1>3. /\ m \in 0..MaxClear /\ x + n + m \in (x + n)..W
      /\ m = MaxClear \/ x + n + m = W \/ Cell(x + n + m) \notin Clears
      /\ x + n < W /\ Cell(x + n) \in Clears => m > 0
  BY <1>0, <1>2, RunEnds
<1>4. x + n < W => Cell(x + n) \in Clears \/ Cell(x + n) \in Opaques
  <2>1. x + n < W => x + n \in 0..(W - 1)
    BY <1>0, <1>2
  <2> QED BY <2>1, CellOfPic
<1>5. Cell(x) \in Clears \/ Cell(x) \in Opaques
  BY CellOfPic
<1>6. x + n = W \/ n = MaxColour \/ m > 0
  BY <1>0, <1>1, <1>2, <1>3, <1>4
<1>7. x + n + m < W /\ m < MaxClear => Cell(x + n + m) \in Opaques
  <2>1. x + n + m < W => x + n + m \in 0..(W - 1)
    BY <1>0, <1>2, <1>3
  <2> QED BY <1>3, <2>1, CellOfPic
<1>8. NextIsOpaque /\ x = 1 => n > 0
  BY <1>0, <1>1 DEF NextIsOpaque
<1>9. n > 0 \/ m > 0
  <2>1. CASE n = 0
    <3>1. x + n = x /\ x + n < W
      BY <1>0, <2>1
    <3> QED BY <1>1, <1>3, <1>5, <2>1, <3>1
  <2> QED BY <1>2, <2>1
<1>10. /\ RowBytes(x) = IF x = 0 THEN 0 ELSE IF x = 1 THEN 2 ELSE 2 * x - 1
       /\ RowBytes(x + n + m) = IF x + n + m = W THEN 2 * W
                                ELSE IF x + n + m = 1 THEN 2 ELSE 2 * (x + n + m) - 1
  BY <1>0, <1>2, <1>3, <1>9 DEF RowBytes
<1>11. W >= 3 /\ NextIsOpaque => RowBytes(x) + n + 2 =< RowBytes(x + n + m)
  <2> SUFFICES ASSUME W >= 3, NextIsOpaque PROVE RowBytes(x) + n + 2 =< RowBytes(x + n + m)
    OBVIOUS
  <2> DEFINE e == x + n + m
  <2>1. e \in Nat /\ e = x + n + m /\ m \in Nat /\ e =< W /\ x < W
    BY <1>0, <1>2, <1>3
  <2>2. RowBytes(e) = IF e = W THEN 2 * W ELSE IF e = 1 THEN 2 ELSE 2 * e - 1
    BY <1>10
  <2> HIDE DEF e
  <2>3. CASE x = 0
    BY <1>0, <1>2, <1>6, <1>9, <1>10, <2>1, <2>2, <2>3
  <2>4. CASE x = 1
    BY <1>0, <1>2, <1>6, <1>8, <1>10, <2>1, <2>2, <2>4
  <2>5. CASE x > 1
    BY <1>0, <1>2, <1>6, <1>9, <1>10, <2>1, <2>2, <2>5
  <2> QED BY <1>0, <2>3, <2>4, <2>5
<1>12. x + n + m = 1 /\ W > 1 => Cell(1) \in Opaques
  <2> SUFFICES ASSUME x + n + m = 1, W > 1 PROVE Cell(1) \in Opaques
    OBVIOUS
  <2>1. x + n + m < W /\ m < MaxClear
    BY <1>0, <1>2, <1>3
  <2> QED BY <1>7, <2>1
<1> QED BY <1>0, <1>2, <1>3, <1>9, <1>11, <1>12

(* shadow: one byte per pixel and two more. *)
LEMMA ShadowRound ==
  ASSUME pic \in Pics, pic.kind = "shadow", y \in 0..(H - 1), x \in 0..(W - 1),
         NextIsOpaque,
         NEW n, n = Run(Opaques, x, W),
         NEW m, m = Run(Clears, x + n, W)
  PROVE  /\ n \in Nat /\ m \in Nat /\ x + n + m \in (x + 1)..W
         /\ RowBytes(x) + 2 =< RowBytes(x + n + m)
         /\ x + n + m < W => Cell(x + n + m) \in Opaques
<1>0. W \in Nat /\ H \in Nat /\ x \in Nat /\ y \in Nat /\ W > 0
  BY PicType
<1>1. /\ n \in 0..W /\ x + n \in x..W
      /\ n = W \/ x + n = W \/ Cell(x + n) \notin Opaques
      /\ Cell(x) \in Opaques => n > 0
  BY <1>0, RunEnds
<1>2. n \in Nat /\ x + n \in 0..W
  BY <1>0, <1>1
<1>3. /\ m \in 0..W /\ x + n + m \in (x + n)..W
      /\ m = W \/ x + n + m = W \/ Cell(x + n + m) \notin Clears
      /\ x + n < W /\ Cell(x + n) \in Clears => m > 0
  BY <1>0, <1>2, RunEnds
<1>4. x + n < W => Cell(x + n) \in Clears \/ Cell(x + n) \in Opaques
  <2>1. x + n < W => x + n \in 0..(W - 1)
    BY <1>0, <1>2
  <2> QED BY <2>1, CellOfPic
<1>5. Cell(x) \in Clears \/ Cell(x) \in Opaques
  BY CellOfPic
<1>6. x + n = W \/ m > 0
  BY <1>0, <1>1, <1>2, <1>3, <1>4
<1>7. x + n + m < W => Cell(x + n + m) \in Opaques
  <2>1. x + n + m < W => x + n + m \in 0..(W - 1) /\ m # W
    BY <1>0, <1>2, <1>3
  <2> QED BY <1>3, <2>1, CellOfPic
<1>8. x > 0 => n > 0
  BY <1>0, <1>1 DEF NextIsOpaque
<1>9. n > 0 \/ m > 0
  BY <1>0, <1>2, <1>6
<1>10. /\ RowBytes(x) = IF x = 0 THEN 0 ELSE x + 1
       /\ RowBytes(x + n + m) = IF x + n + m = W THEN W + 2 ELSE x + n + m + 1
  BY <1>0, <1>2, <1>3, <1>9 DEF RowBytes
<1>11. RowBytes(x) + 2 =< RowBytes(x + n + m)
  BY <1>0, <1>2, <1>3, <1>6, <1>8, <1>9, <1>10
<1> QED BY <1>0, <1>2, <1>3, <1>7, <1>9, <1>11

(* player: two bytes for a run of at least one pixel. *)
LEMMA PlayerRound ==
  ASSUME pic \in Pics, pic.kind = "player", y \in 0..(H - 1), x \in 0..(W - 1),
         NEW n, n = Run(Same(Cell(x)), x, MaxRun)
  PROVE  /\ n \in Nat /\ x + n \in (x + 1)..W
         /\ RowBytes(x) + 2 =< RowBytes(x + n)
<1>0. W \in Nat /\ H \in Nat /\ x \in Nat /\ y \in Nat /\ MaxRun \in Nat /\ MaxRun > 0
  BY PicType, RunLengthAssumption
<1>1. Cell(x) \in Same(Cell(x))
  BY CellOfPic DEF Same, Clears, Opaques
<1>2. n \in 0..MaxRun /\ x + n \in x..W /\ n > 0
  BY <1>0, <1>1, RunEnds
<1>3. RowBytes(x) = 2 * x /\ RowBytes(x + n) = 2 * (x + n)
  BY DEF RowBytes
<1> QED BY <1>0, <1>2, <1>3

-------------------------------------------------------------------------------
(* Bytes that fit into the rest of their row leave room in the buffer. *)
LEMMA EmitKeeps ==
  ASSUME IInv, phase = "writing", NEW bytes \in Seq(Int), NEW next,
         ~Narrow => Len(image) + Len(bytes) =< BufSize,
         Emit(bytes, next), next # "overrun"
  PROVE  /\ ~Narrow => phase' # "overrun"
         /\ phase' = "writing" => image' \in Seq(Int) /\ Len(image') = Len(image) + Len(bytes)
                                 /\ next = "writing"
<1>1. image \in Seq(Int)
  BY DEF IInv, WritingOK
<1>2. BufSize \in Int
  <2>1. W \in Nat /\ H \in Nat
    BY PicType DEF IInv
  <2>2. W * H \in Nat
    BY <2>1
  <2> QED BY <2>1, <2>2 DEF BufSize
<1>3. Len(image) + Len(bytes) \in Int
  BY <1>1
<1>4. ~Narrow => ~(Len(image) + Len(bytes) > BufSize)
  BY <1>2, <1>3
<1>5. CASE Len(image) + Len(bytes) > BufSize
  BY <1>4, <1>5 DEF Emit
<1>6. CASE /\ ~(Len(image) + Len(bytes) > BufSize)
           /\ pic.kind # "rle" /\ Len(image) + Len(bytes) >= AddrMod
  BY <1>6 DEF Emit
<1>7. CASE /\ ~(Len(image) + Len(bytes) > BufSize)
           /\ ~(pic.kind # "rle" /\ Len(image) + Len(bytes) >= AddrMod)
  <2>1. image' = image \o bytes /\ phase' = next
    BY <1>7 DEF Emit
  <2> QED BY <1>1, <2>1
<1> QED BY <1>5, <1>6, <1>7

(* A round of a row: what an action that writes a run has to show. *)
LEMMA RoundKeeps ==
  ASSUME IInv, phase = "writing", y < H, x < W, UNCHANGED <<pic, y>>,
         NEW bytes \in Seq(Int), NEW next \in {"writing", "wrapped"}, Emit(bytes, next),
         x' \in (x + 1)..W,
         ~Narrow => RowBytes(x) + Len(bytes) =< RowBytes(x'),
         ~Narrow => NextIsOpaque'
  PROVE  IInv'
<1>1. /\ pic \in Pics /\ x \in 0..W /\ y \in 0..H /\ image \in Seq(Int)
      /\ ~Narrow => Len(image) =< y * RowSize + RowBytes(x)
      /\ W \in Nat /\ H \in Nat /\ Narrow' = Narrow
  BY PicType DEF IInv, WritingOK, Narrow, W, H
<1>2. ~Narrow => /\ RowBytes(x') =< RowBytes(W) /\ RowBytes(x') \in Nat /\ RowBytes(x) \in Nat
                 /\ RowBytes(W) \in Nat
  <2>1. pic.kind \in {"rle", "shadow", "player"} /\ x' \in 1..W /\ x \in Nat /\ W \in Nat
    BY <1>1, PicType DEF Kinds
  <2>2. CASE pic.kind = "rle"
    <3>1. ~Narrow => W >= 3
      BY <2>1, <2>2 DEF Narrow
    <3>2. ~Narrow => \A i \in 0..W : RowBytes(i) \in Nat /\ RowBytes(i) =< RowBytes(W)
      <4> SUFFICES ASSUME ~Narrow, NEW i \in 0..W
                   PROVE  RowBytes(i) \in Nat /\ RowBytes(i) =< RowBytes(W)
        OBVIOUS
      <4>1. RowBytes(i) = IF i = 0 THEN 0 ELSE IF i = W THEN 2 * W
                          ELSE IF i = 1 THEN 2 ELSE 2 * i - 1
        BY <2>2 DEF RowBytes
      <4>2. RowBytes(W) = 2 * W
        BY <2>1, <2>2, <3>1 DEF RowBytes
      <4> QED BY <2>1, <3>1, <4>1, <4>2
    <3>3. x' \in 0..W /\ x \in 0..W /\ W \in 0..W
      BY <1>1, <2>1
    <3> QED BY <3>2, <3>3
  <2>3. CASE pic.kind = "shadow"
    BY <2>1, <2>3 DEF RowBytes
  <2>4. CASE pic.kind = "player"
    BY <2>1, <2>4 DEF RowBytes
  <2> QED BY <2>1, <2>2, <2>3, <2>4
<1>3. ~Narrow => Len(image) + Len(bytes) =< y * RowSize + RowBytes(x')
  <2>1. ~Narrow => y * RowSize \in Nat
    BY <1>1, BufSizeIsRows, ProductMonotone
  <2> QED BY <1>1, <1>2, <2>1
<1>4. ~Narrow => Len(image) + Len(bytes) =< BufSize
  <2> SUFFICES ASSUME ~Narrow PROVE Len(image) + Len(bytes) =< BufSize
    OBVIOUS
  <2>1. RowSize \in Nat /\ BufSize = H * RowSize + Len(EndMark) /\ Len(EndMark) \in 0..1
        /\ BufSize \in Nat
    BY <1>1, BufSizeIsRows
  <2>2. (y + 1) * RowSize =< H * RowSize /\ (y + 1) * RowSize = y * RowSize + RowSize
        /\ y * RowSize \in Nat /\ H * RowSize \in Nat
    BY <1>1, <2>1, ProductMonotone, NextProduct
  <2>3. RowBytes(W) =< RowSize
    BY <1>2, <2>1 DEF RowSize
  <2>4. Len(image) \in Nat /\ Len(bytes) \in Nat
    BY <1>1
  <2> DEFINE p == y * RowSize
             q == H * RowSize
  <2>5. p + RowSize =< q /\ p \in Nat /\ q \in Nat /\ BufSize = q + Len(EndMark)
        /\ Len(image) + Len(bytes) =< p + RowBytes(x')
    BY <1>1, <1>3, <2>1, <2>2
  <2> HIDE DEF p, q
  <2> QED BY <1>2, <2>1, <2>3, <2>4, <2>5
<1>5. /\ ~Narrow => phase' # "overrun"
      /\ phase' = "writing" => image' \in Seq(Int) /\ Len(image') = Len(image) + Len(bytes)
  BY <1>4, EmitKeeps
<1>6. RowBytes(x') = RowBytes(x)' /\ RowSize' = RowSize /\ W' = W /\ H' = H
  BY DEF RowBytes, RowSize, W, H, EndMark
<1>7. phase' = "writing" => WritingOK'
  <2> SUFFICES ASSUME phase' = "writing" PROVE WritingOK'
    OBVIOUS
  <2>1. x' \in 0..W' /\ y' \in 0..H' /\ (y' = H' => x' = 0) /\ image' \in Seq(Int)
    BY <1>1, <1>5, <1>6
  <2>2. (y * RowSize + RowBytes(x))' = y * RowSize + RowBytes(x')
    BY <1>6
  <2>3. ~Narrow => Len(image)' =< (y * RowSize + RowBytes(x))'
    BY <1>3, <1>5, <2>2
  <2> QED BY <1>1, <2>1, <2>3 DEF WritingOK
<1>8. InBuffer'
  BY <1>1, <1>5 DEF InBuffer, Narrow
<1> QED BY <1>1, <1>7, <1>8 DEF IInv

-------------------------------------------------------------------------------
(* Nothing is written yet. *)
LEMMA InitIInv == Init => IInv
<1> SUFFICES ASSUME Init PROVE IInv
  OBVIOUS
<1>1. pic \in Pics /\ phase = "writing" /\ x = 0 /\ y = 0 /\ image = <<>> /\ W \in Nat /\ H \in Nat
  BY PicType DEF Init
<1>2. ~Narrow => y * RowSize = 0 /\ RowBytes(x) = 0
  <2>1. ~Narrow => RowSize \in Nat
    BY <1>1, BufSizeIsRows
  <2>2. RowBytes(0) = 0
    BY DEF RowBytes
  <2> QED BY <1>1, <2>1, <2>2
<1>3. WritingOK
  BY <1>1, <1>2 DEF WritingOK, NextIsOpaque
<1> QED BY <1>1, <1>3 DEF IInv, InBuffer

(* A run of rle. *)
LEMMA WriteRleKeeps == IInv /\ WriteRleRun => IInv'
<1> SUFFICES ASSUME IInv, WriteRleRun PROVE IInv'
  OBVIOUS
<1> DEFINE n == Run(Opaques, x, MaxColour)
           m == Run(Clears, x + n, MaxClear)
           bytes == RleRunBytes(n, m)
<1>1. /\ phase = "writing" /\ pic.kind = "rle" /\ y < H /\ x < W
      /\ Emit(bytes, "writing") /\ x' = x + n + m /\ UNCHANGED <<pic, y>>
  BY DEF WriteRleRun, Writing
<1>2. pic \in Pics /\ x \in 0..(W - 1) /\ y \in 0..(H - 1) /\ (~Narrow => NextIsOpaque)
      /\ W \in Nat /\ H \in Nat
  BY <1>1, PicType DEF IInv, WritingOK
<1>3. /\ n \in Nat /\ m \in Nat /\ x + n + m \in (x + 1)..W
      /\ W >= 3 /\ NextIsOpaque => RowBytes(x) + n + 2 =< RowBytes(x + n + m)
      /\ x + n + m = 1 /\ W > 1 => Cell(1) \in Opaques
  <2> HIDE DEF n, m
  <2>1. n = Run(Opaques, x, MaxColour) /\ m = Run(Clears, x + n, MaxClear)
    BY DEF n, m
  <2> QED BY <1>1, <1>2, <2>1, RleRound
<1> HIDE DEF n, m
<1>4. bytes \in Seq(Int) /\ Len(bytes) = n + 2
  <2> DEFINE cs == [i \in 1..n |-> pic.px[Cell(x + i - 1)]]
  <2>1. \A i \in 1..n : pic.px[Cell(x + i - 1)] \in Int
    <3> SUFFICES ASSUME NEW i \in 1..n PROVE pic.px[Cell(x + i - 1)] \in Int
      OBVIOUS
    <3>1. x + i - 1 \in 0..(W - 1)
      BY <1>2, <1>3
    <3>2. Cell(x + i - 1) \in DOMAIN pic.px
      BY <1>2, <3>1, CellOfPic DEF Clears, Opaques
    <3> QED BY <1>2, <3>2, PicType, RunLengthAssumption DEF Pixels
  <2>2. cs \in Seq(Int) /\ Len(cs) = n
    BY <1>3, <2>1
  <2>3. <<n>> \in Seq(Int) /\ <<m>> \in Seq(Int) /\ Len(<<n>>) = 1 /\ Len(<<m>>) = 1
    BY <1>3
  <2>4. bytes = <<n>> \o cs \o <<m>>
    BY DEF RleRunBytes
  <2> HIDE DEF cs, bytes
  <2> QED BY <1>3, <2>2, <2>3, <2>4
<1> HIDE DEF bytes
<1>5. ~Narrow => RowBytes(x) + Len(bytes) =< RowBytes(x')
  <2>1. ~Narrow => W >= 3
    BY <1>1, <1>2 DEF Narrow
  <2>2. pic.kind = "rle" => RowBytes(x) \in Int
    BY <1>2 DEF RowBytes
  <2> QED BY <1>1, <1>2, <1>3, <1>4, <2>1, <2>2
<1>6. NextIsOpaque'
  BY <1>1, <1>3 DEF NextIsOpaque, Cell, Opaques, Clears, W
<1>7. x' \in (x + 1)..W /\ "writing" \in {"writing", "wrapped"}
  BY <1>1, <1>3
<1> QED BY <1>1, <1>4, <1>5, <1>6, <1>7, RoundKeeps

(* A run of a shadow. *)
LEMMA WriteShadowKeeps == IInv /\ WriteShadowRun => IInv'
<1> SUFFICES ASSUME IInv, WriteShadowRun PROVE IInv'
  OBVIOUS
<1> DEFINE n == Run(Opaques, x, W)
           m == Run(Clears, x + n, W)
           bytes == <<n % Byte, m % Byte>>
           next == IF n >= Byte \/ m >= Byte THEN "wrapped" ELSE "writing"
<1>1. /\ phase = "writing" /\ pic.kind = "shadow" /\ y < H /\ x < W
      /\ Emit(bytes, next) /\ x' = x + n + m /\ UNCHANGED <<pic, y>>
  BY DEF WriteShadowRun, Writing
<1>2. pic \in Pics /\ x \in 0..(W - 1) /\ y \in 0..(H - 1) /\ ~Narrow /\ NextIsOpaque
      /\ W \in Nat /\ H \in Nat
  BY <1>1, PicType DEF IInv, WritingOK, Narrow
<1>3. /\ n \in Nat /\ m \in Nat /\ x + n + m \in (x + 1)..W
      /\ RowBytes(x) + 2 =< RowBytes(x + n + m)
      /\ x + n + m < W => Cell(x + n + m) \in Opaques
  <2> HIDE DEF n, m
  <2>1. n = Run(Opaques, x, W) /\ m = Run(Clears, x + n, W)
    BY DEF n, m
  <2> QED BY <1>1, <1>2, <2>1, ShadowRound
<1> HIDE DEF n, m
<1>4. bytes \in Seq(Int) /\ Len(bytes) = 2
  BY <1>3, RunLengthAssumption
<1>5. next \in {"writing", "wrapped"}
  OBVIOUS
<1> HIDE DEF bytes, next
<1>6. RowBytes(x) + Len(bytes) =< RowBytes(x')
  BY <1>1, <1>3, <1>4
<1>7. NextIsOpaque'
  <2>1. x' < W => Cell(x') \in Opaques
    BY <1>1, <1>3
  <2> QED BY <1>1, <1>2, <1>3, <2>1 DEF NextIsOpaque, Cell, Opaques, Clears, W
<1>8. x' \in (x + 1)..W
  BY <1>1, <1>3
<1> QED BY <1>1, <1>4, <1>5, <1>6, <1>7, <1>8, RoundKeeps

(* A run of a player bitmap. *)
LEMMA WritePlayerKeeps == IInv /\ WritePlayerRun => IInv'
<1> SUFFICES ASSUME IInv, WritePlayerRun PROVE IInv'
  OBVIOUS
<1> DEFINE n == Run(Same(Cell(x)), x, MaxRun)
           bytes == PlayerRunBytes(n, pic.px[Cell(x)])
<1>1. /\ phase = "writing" /\ pic.kind = "player" /\ y < H /\ x < W
      /\ Emit(bytes, "writing") /\ x' = x + n /\ UNCHANGED <<pic, y>>
  BY DEF WritePlayerRun, Writing
<1>2. pic \in Pics /\ x \in 0..(W - 1) /\ y \in 0..(H - 1) /\ ~Narrow
      /\ W \in Nat /\ H \in Nat
  BY <1>1, PicType DEF IInv, WritingOK, Narrow
<1>3. n \in Nat /\ x + n \in (x + 1)..W /\ RowBytes(x) + 2 =< RowBytes(x + n)
  <2> HIDE DEF n
  <2>1. n = Run(Same(Cell(x)), x, MaxRun)
    BY DEF n
  <2> QED BY <1>1, <1>2, <2>1, PlayerRound
<1> HIDE DEF n
<1>4. bytes \in Seq(Int) /\ Len(bytes) \in Nat /\ Len(bytes) =< 2
  <2>1. Cell(x) \in DOMAIN pic.px
    BY <1>2, CellOfPic DEF Clears, Opaques
  <2>2. pic.px[Cell(x)] \in Int /\ Byte \in Int
    BY <1>2, <2>1, PicType, RunLengthAssumption DEF Pixels
  <2>3. Byte \div 2 \in Int /\ Byte \div 4 \in Int
    BY RunLengthAssumption
  <2> QED BY <1>3, <2>2, <2>3 DEF PlayerRunBytes
<1> HIDE DEF bytes
<1>5. RowBytes(x) + Len(bytes) =< RowBytes(x')
  <2>1. RowBytes(x) = 2 * x /\ RowBytes(x + n) = 2 * (x + n)
    BY <1>1 DEF RowBytes
  <2>2. RowBytes(x') = RowBytes(x + n)
    BY <1>1
  <2>3. x \in Int
    BY <1>2
  <2>4. 2 * x + Len(bytes) =< 2 * (x + n)
    BY <1>3, <1>4, <2>1, <2>3
  <2> QED BY <2>1, <2>2, <2>4
<1>6. NextIsOpaque'
  BY <1>1 DEF NextIsOpaque
<1>7. x' \in (x + 1)..W /\ "writing" \in {"writing", "wrapped"}
  BY <1>1, <1>3
<1> QED BY <1>1, <1>4, <1>5, <1>6, <1>7, RoundKeeps

(* The end of a row: its mark makes the row complete. *)
LEMMA EndRowKeeps == IInv /\ EndRow => IInv'
<1> SUFFICES ASSUME IInv, EndRow PROVE IInv'
  OBVIOUS
<1>1. /\ phase = "writing" /\ y < H /\ x = W /\ Emit(EndMark, "writing")
      /\ y' = y + 1 /\ x' = 0 /\ pic' = pic
  BY DEF EndRow
<1>2. /\ pic \in Pics /\ y \in 0..H /\ W \in Nat /\ H \in Nat /\ image \in Seq(Int) /\ W > 0
      /\ ~Narrow => Len(image) =< y * RowSize + RowBytes(x)
  BY <1>1, PicType DEF IInv, WritingOK
<1>3. EndMark \in Seq(Int) /\ Len(EndMark) \in Nat
  BY RunLengthAssumption DEF EndMark, Mark
<1>4. ~Narrow => Len(image) + Len(EndMark) =< (y + 1) * RowSize
                 /\ (y + 1) * RowSize =< H * RowSize /\ RowSize \in Nat
  <2> SUFFICES ASSUME ~Narrow PROVE /\ Len(image) + Len(EndMark) =< (y + 1) * RowSize
                                    /\ (y + 1) * RowSize =< H * RowSize /\ RowSize \in Nat
    OBVIOUS
  <2>1. RowSize \in Nat /\ RowSize = RowBytes(W) + Len(EndMark)
    BY <1>2, BufSizeIsRows DEF RowSize
  <2>2. (y + 1) * RowSize =< H * RowSize /\ (y + 1) * RowSize = y * RowSize + RowSize
        /\ y * RowSize \in Nat
    BY <1>1, <1>2, <2>1, ProductMonotone, NextProduct
  <2>3. Len(image) \in Nat /\ RowBytes(W) \in Int
    BY <1>2, PicType DEF RowBytes
  <2>4. Len(image) =< y * RowSize + RowBytes(W)
    BY <1>1, <1>2
  <2>5. Len(image) + Len(EndMark) =< y * RowSize + RowSize
    <3> DEFINE p == y * RowSize
    <3>1. p \in Nat /\ Len(image) =< p + RowBytes(W)
      BY <2>2, <2>4
    <3> HIDE DEF p
    <3>2. Len(image) + Len(EndMark) =< p + RowSize
      BY <1>3, <2>1, <2>3, <3>1
    <3> QED BY <3>2 DEF p
  <2> QED BY <2>1, <2>2, <2>5
<1>5. ~Narrow => Len(image) + Len(EndMark) =< BufSize
  <2> SUFFICES ASSUME ~Narrow PROVE Len(image) + Len(EndMark) =< BufSize
    OBVIOUS
  <2>1. BufSize = H * RowSize + Len(EndMark) /\ H * RowSize \in Nat /\ (y + 1) * RowSize \in Nat
    BY <1>2, <1>4, BufSizeIsRows, ProductMonotone
  <2>2. Len(image) \in Nat
    BY <1>2
  <2> QED BY <1>3, <1>4, <2>1, <2>2
<1>6. /\ ~Narrow => phase' # "overrun"
      /\ phase' = "writing" => image' \in Seq(Int) /\ Len(image') = Len(image) + Len(EndMark)
  BY <1>1, <1>3, <1>5, EmitKeeps
<1>7. W' = W /\ H' = H /\ Narrow' = Narrow /\ RowSize' = RowSize
  BY <1>1 DEF W, H, Narrow, RowSize, RowBytes, EndMark
<1>8. phase' = "writing" => WritingOK'
  <2> SUFFICES ASSUME phase' = "writing" PROVE WritingOK'
    OBVIOUS
  <2>1. x' \in 0..W' /\ y' \in 0..H' /\ x' = 0 /\ image' \in Seq(Int)
    BY <1>1, <1>2, <1>6, <1>7
  <2>2. RowBytes(x)' = 0
    BY <1>1 DEF RowBytes
  <2>3. ~Narrow => Len(image)' =< (y * RowSize + RowBytes(x))'
    <3> SUFFICES ASSUME ~Narrow PROVE Len(image)' =< (y * RowSize + RowBytes(x))'
      OBVIOUS
    <3>1. (y * RowSize + RowBytes(x))' = (y + 1) * RowSize
      BY <1>1, <1>2, <1>4, <1>7, <2>2
    <3> QED BY <1>4, <1>6, <3>1
  <2>4. NextIsOpaque'
    BY <1>2, <1>7, <2>1 DEF NextIsOpaque
  <2> QED BY <1>7, <2>1, <2>3, <2>4 DEF WritingOK
<1>9. InBuffer'
  BY <1>1, <1>6 DEF InBuffer, Narrow, W
<1> QED BY <1>1, <1>2, <1>8, <1>9 DEF IInv

(* The end of the image: the final mark is the last byte of the buffer. *)
LEMMA EndImageKeeps == IInv /\ EndImage => IInv'
<1> SUFFICES ASSUME IInv, EndImage PROVE IInv'
  OBVIOUS
<1>1. phase = "writing" /\ y = H /\ Emit(EndMark, "written") /\ pic' = pic
  BY DEF EndImage
<1>2. /\ pic \in Pics /\ x = 0 /\ W \in Nat /\ H \in Nat /\ image \in Seq(Int)
      /\ ~Narrow => Len(image) =< H * RowSize + RowBytes(0)
      /\ W = 0 <=> H = 0
  BY <1>1, PicType DEF IInv, WritingOK
<1>3. EndMark \in Seq(Int) /\ Len(EndMark) \in Nat
  BY RunLengthAssumption DEF EndMark, Mark
<1>4. ~Narrow => Len(image) + Len(EndMark) =< BufSize
  <2> SUFFICES ASSUME ~Narrow PROVE Len(image) + Len(EndMark) =< BufSize
    OBVIOUS
  <2>1. RowBytes(0) = 0
    BY DEF RowBytes
  <2>2. RowSize \in Nat /\ (W > 0 => BufSize = H * RowSize + Len(EndMark)) /\ H * RowSize \in Nat
        /\ Len(EndMark) = IF pic.kind = "player" THEN 0 ELSE 1
    BY <1>2, BufSizeIsRows, ProductMonotone
  <2>3. Len(image) \in Nat
    BY <1>2
  <2>4. CASE W > 0
    BY <1>2, <1>3, <2>1, <2>2, <2>3, <2>4
  <2>5. CASE W = 0
    <3>1. H * RowSize = 0 /\ Len(image) = 0
      BY <1>2, <2>1, <2>2, <2>3, <2>5
    <3>2. BufSize = IF pic.kind = "player" THEN 0 ELSE 1
      <4>1. W = 0 /\ H = 0 /\ pic.kind \in Kinds
        BY <1>2, <2>5, PicType
      <4> QED BY <4>1 DEF BufSize, Kinds
    <3> QED BY <2>2, <3>1, <3>2
  <2> QED BY <1>2, <2>4, <2>5
<1>5. (~Narrow => phase' # "overrun") /\ phase' # "writing"
  BY <1>1, <1>3, <1>4, EmitKeeps
<1>6. InBuffer'
  BY <1>1, <1>5 DEF InBuffer, Narrow, W
<1> QED BY <1>1, <1>2, <1>5, <1>6 DEF IInv

(* Every step keeps the invariant; load does not write. *)
LEMMA StepIInv == IInv /\ [Next]_vars => IInv'
<1> SUFFICES ASSUME IInv, [Next]_vars PROVE IInv'
  OBVIOUS
<1>1. ASSUME pic' = pic, phase' \in {"reading", "done"} PROVE IInv'
  BY <1>1 DEF IInv, InBuffer
<1>2. CASE UNCHANGED vars
  <2>1. UNCHANGED <<pic, phase, x, y, image>>
    BY <1>2 DEF vars
  <2>2. WritingOK' = WritingOK
    BY <2>1 DEF WritingOK, Narrow, NextIsOpaque, RowSize, RowBytes, EndMark, Mark, Cell, Opaques,
                Clears, W, H
  <2> QED BY <2>1, <2>2 DEF IInv, InBuffer, W
<1>3. ASSUME NEW c \in 0..Len(image), Load(c) PROVE IInv'
  <2>1. pic' = pic /\ phase' \in {"reading", "done"}
    BY <1>3 DEF Load
  <2> QED BY <1>1, <2>1
<1>4. CASE ReadRleRun
  <2>1. pic' = pic /\ phase' \in {"reading", "done"}
    BY <1>4 DEF ReadRleRun, Reading, Ends
  <2> QED BY <1>1, <2>1
<1>5. CASE ReadShadowRun
  <2>1. pic' = pic /\ phase' \in {"reading", "done"}
    BY <1>5 DEF ReadShadowRun, Reading
  <2> QED BY <1>1, <2>1
<1>6. CASE SkipRowMark
  <2>1. pic' = pic /\ phase' \in {"reading", "done"}
    BY <1>6 DEF SkipRowMark, Reading, Ends
  <2> QED BY <1>1, <2>1
<1>7. CASE SkipImageMark
  <2>1. pic' = pic /\ phase' \in {"reading", "done"}
    BY <1>7 DEF SkipImageMark, Reading, Ends
  <2> QED BY <1>1, <2>1
<1>8. CASE SeekPlayerRow
  <2>1. pic' = pic /\ phase' \in {"reading", "done"}
    BY <1>8 DEF SeekPlayerRow, Reading, Ends
  <2> QED BY <1>1, <2>1
<1>9. CASE ReadPlayerRun
  <2>1. pic' = pic /\ phase' \in {"reading", "done"}
    BY <1>9 DEF ReadPlayerRun, Reading
  <2> QED BY <1>1, <2>1
<1>10. CASE NextPlayerRow
  <2>1. pic' = pic /\ phase' \in {"reading", "done"}
    BY <1>10 DEF NextPlayerRow, Reading
  <2> QED BY <1>1, <2>1
<1>11. CASE EndPlayer
  <2>1. pic' = pic /\ phase' \in {"reading", "done"}
    BY <1>11 DEF EndPlayer, Reading, Ends
  <2> QED BY <1>1, <2>1
<1> QED
  BY <1>2, <1>3, <1>4, <1>5, <1>6, <1>7, <1>8, <1>9, <1>10, <1>11,
     WriteRleKeeps, WriteShadowKeeps, WritePlayerKeeps, EndRowKeeps, EndImageKeeps DEF Next

(* No writer writes behind its image buffer, whatever the picture is, but  *)
(* the one of rle for rows of one or two pixels.                           *)
THEOREM RunLengthInBuffer == Spec => []InBuffer
<1>1. IInv => InBuffer
  BY DEF IInv
<1> QED BY <1>1, InitIInv, StepIInv, PTL DEF Spec

-------------------------------------------------------------------------------
(* Loading what was written.  The marks of a picture that is written are   *)
(* the places <<p, i, j>> where a reader of the first p bytes is at column *)
(* i of row j; each but the last is followed by the code of a run, or by   *)
(* the end of a row, that leads to another.                                *)

Bytes == 0..(Byte - 1)

Pixel(i, j) == pic.px[j * W + i]

(* The code at place <<p, i, j>> of img. *)
RleCode(img, M, p, i, j) ==
  LET n == img[p + 1]
      m == img[p + n + 2]
  IN /\ n \in Nat /\ m \in Nat /\ i + n + m =< W
     /\ <<p + n + 2, i + n + m, j>> \in M
     /\ \A k \in 0..(n - 1) : img[p + 2 + k] = Pixel(i + k, j)
     /\ \A k \in 0..(m - 1) : Pixel(i + n + k, j) = Clear

ShadowCode(img, M, p, i, j) ==
  LET n == img[p + 1]
      m == img[p + 2]
  IN /\ n \in Nat /\ m \in Nat /\ i + n + m =< W
     /\ <<p + 2, i + n + m, j>> \in M
     /\ \A k \in 0..(n - 1) : Pixel(i + k, j) # Clear
     /\ \A k \in 0..(m - 1) : Pixel(i + n + k, j) = Clear

PlayerCode(img, M, p, i, j) ==
  \E n \in 1..MaxRun :
    LET c     == Pixel(i, j)
        bytes == PlayerRunBytes(n, c)
    IN /\ i + n =< W
       /\ <<p + Len(bytes), i + n, j>> \in M
       /\ \A k \in 0..(n - 1) : Pixel(i + k, j) = c
       /\ \A k \in 1..Len(bytes) : img[p + k] = bytes[k]

RowEnd(img, M, p, j) ==
  <<p + Len(EndMark), 0, j + 1>> \in M /\ (pic.kind # "player" => img[p + 1] = Mark)

Code(img, M, p, i, j) ==
  /\ j < H
  /\ IF i = W THEN RowEnd(img, M, p, j)
     ELSE CASE pic.kind = "rle"    -> RleCode(img, M, p, i, j)
            [] pic.kind = "shadow" -> ShadowCode(img, M, p, i, j)
            [] OTHER               -> PlayerCode(img, M, p, i, j)

(* The marks M of the first e bytes of img, of which <<e, c, r>> is last.  *)
Marks(img, M, e, c, r) ==
  /\ M \subseteq (0..e) \X (0..W) \X (0..H)
  /\ <<0, 0, 0>> \in M /\ <<e, c, r>> \in M
  /\ \A p \in 0..e, i \in 0..W, j \in 0..H :
       <<p, i, j>> \in M => <<p, i, j>> = <<e, c, r>> \/ Code(img, M, p, i, j)

(* R has the position of each row of the table. *)
RowMarks(img, M, R) ==
  /\ R \in Seq(Nat) /\ Len(R) = Len(starts)
  /\ \A r \in 1..Len(R) :
       /\ <<R[r], 0, r - 1>> \in M /\ starts[r] = Start(R[r])
       /\ r = 1 => R[r] = 0
       /\ r > 1 /\ pic.kind # "player" => R[r - 1] < R[r] /\ img[R[r]] = Mark

(* The last byte but the final mark. *)
DataEnd == Len(image) - Len(EndMark)

DecType == dec \in [DOMAIN pic.px -> Pixels(pic.kind)]

(* The pixels that were loaded are those before column x of row y. *)
DecIs == \A k \in DOMAIN pic.px : dec[k] = IF k < Cell(x) THEN Loaded[k] ELSE Clear

DecPart == pic.kind = "shadow" => \A k \in DOMAIN pic.px : dec[k] \in {Clear, Loaded[k]}

(* A reader is at a mark, or behind what a file that was cut has; that of  *)
(* rle is then in the middle of a row, which the zeros never end.          *)
OnMark(M) ==
  /\ DecIs /\ (cut = 0 => ff)
  /\ \/ pic.kind = "player" /\ pos = -1 /\ x = 0
     \/ <<pos, x, y>> \in M

OffFile(M) ==
  /\ cut > 0 /\ pos >= Len(image) - cut /\ DecPart
  /\ pic.kind = "rle" => <<pos, x, y>> \in M \/ (x < W /\ pos < Len(image))

ReadingOK(M) ==
  /\ DecType /\ (pic.kind = "player" => cut = 0)
  /\ OnMark(M) \/ (OffFile(M) /\ pic.kind # "player")

WritingTrip ==
  /\ cut = 0 /\ (y = H => x = 0) /\ ff
  /\ Len(starts) = IF y < H THEN y + 1 ELSE H
  /\ \E M, R : Marks(image, M, Len(image), x, y) /\ RowMarks(image, M, R)

WrittenTrip ==
  /\ pic.kind # "player" => image # <<>> /\ image[Len(image)] = Mark
  /\ Len(starts) = H /\ (phase = "written" => ff)
  /\ \E M, R : /\ Marks(image, M, DataEnd, 0, H) /\ RowMarks(image, M, R)
               /\ phase = "reading" => ReadingOK(M)

TripInv ==
  /\ TypeOK /\ pic \in Pics
  /\ pic.kind # "rle" /\ phase \in {"writing", "written", "reading"} => Len(image) < AddrMod
  /\ phase = "writing" => WritingTrip
  /\ phase \in {"written", "reading"} => WrittenTrip
  /\ phase = "done" => RoundTrip /\ CutIsNoticed

-------------------------------------------------------------------------------
(* A remainder, for an address that fits and for one that does not. *)
LEMMA Remainders ==
  ASSUME NEW a \in Nat, NEW m \in Nat, m > 0
  PROVE  /\ a % m \in 0..(m - 1)
         /\ a < m => a % m = a
         /\ a >= m => a % m =< a - m
OBVIOUS

(* The quarters that the codes of a player bitmap are told apart by. *)
LEMMA Quarters ==
  /\ Byte \div 4 \in Nat /\ Byte = 4 * (Byte \div 4) /\ Byte \div 2 = 2 * (Byte \div 4)
  /\ \A n \in 0..((Byte \div 4) - 1) :
       /\ n \div (Byte \div 4) = 0 /\ n % (Byte \div 4) = n
       /\ (n + Byte \div 2) \div (Byte \div 4) = 2 /\ (n + Byte \div 2) % (Byte \div 4) = n
       /\ (n + 3 * (Byte \div 4)) \div (Byte \div 4) = 3
       /\ (n + 3 * (Byte \div 4)) % (Byte \div 4) = n
<1> DEFINE q == Byte \div 4
<1>1. Byte \in Nat /\ Byte % 4 = 0
  BY RunLengthAssumption
<1>2. q \in Nat /\ Byte = 4 * q /\ Byte \div 2 = 2 * q
  BY <1>1
<1> HIDE DEF q
<1>3. \A n \in 0..(q - 1) : n \div q = 0 /\ n % q = n
  BY <1>2
<1>4. \A n \in 0..(q - 1) : (n + 2 * q) \div q = 2 /\ (n + 2 * q) % q = n
  BY <1>2
<1>5. \A n \in 0..(q - 1) : (n + 3 * q) \div q = 3 /\ (n + 3 * q) % q = n
  BY <1>2
<1>6. /\ q \in Nat /\ Byte = 4 * q /\ Byte \div 2 = 2 * q
      /\ \A n \in 0..(q - 1) :
           /\ n \div q = 0 /\ n % q = n
           /\ (n + Byte \div 2) \div q = 2 /\ (n + Byte \div 2) % q = n
           /\ (n + 3 * q) \div q = 3 /\ (n + 3 * q) % q = n
  BY <1>2, <1>3, <1>4, <1>5
<1> QED BY <1>6 DEF q

(* Every cell of a run is of its kind. *)
LEMMA RunCells ==
  ASSUME NEW S, NEW from, NEW lim \in Nat, W \in Nat, from \in 0..W, y \in Nat,
         NEW k \in 0..(Run(S, from, lim) - 1)
  PROVE  Cell(from + k) \in S /\ from + k < W
<1> DEFINE T == {n \in 0..lim : n = lim \/ from + n = W \/ Cell(from + n) \notin S}
<1>1. T \subseteq Nat /\ lim \in T
  OBVIOUS
<1>2. Min(T) \in T /\ \A n \in T : Min(T) =< n
  BY <1>1, MinOfNats
<1>3. Run(S, from, lim) = Min(T)
  BY DEF Run
<1>4. k \in 0..lim /\ k \notin T
  BY <1>1, <1>2, <1>3
<1>5. from + Run(S, from, lim) \in from..W
  BY RunEnds
<1> QED BY <1>1, <1>2, <1>3, <1>4, <1>5

(* The data is longer than before, and as before. *)
LEMMA Appended ==
  ASSUME NEW img \in Seq(Int), NEW bytes \in Seq(Int)
  PROVE  /\ img \o bytes \in Seq(Int) /\ Len(img \o bytes) = Len(img) + Len(bytes)
         /\ \A i \in 1..Len(img) : (img \o bytes)[i] = img[i]
         /\ \A i \in 1..Len(bytes) : (img \o bytes)[Len(img) + i] = bytes[i]
BY ConcatProperties

(* A sequence between two elements. *)
LEMMA Enclosed ==
  ASSUME NEW S, NEW a \in S, NEW b \in S, NEW s \in Seq(S)
  PROVE  LET t == <<a>> \o s \o <<b>>
         IN /\ t \in Seq(S) /\ Len(t) = Len(s) + 2 /\ t[1] = a /\ t[Len(s) + 2] = b
            /\ \A i \in 1..Len(s) : t[i + 1] = s[i]
OBVIOUS

LEMMA BytesAreInts ==
  ASSUME NEW s \in Seq(Bytes)
  PROVE  s \in Seq(Int)
BY RunLengthAssumption DEF Bytes

(* What is coded stays so when more data and more marks follow. *)
LEMMA CodeKept ==
  ASSUME NEW img \in Seq(Int), NEW img2, \A q \in 1..Len(img) : img2[q] = img[q],
         NEW M, NEW M2, M \subseteq (0..Len(img)) \X (0..W) \X (0..H), M \subseteq M2,
         NEW p \in 0..Len(img), NEW i \in 0..W, NEW j \in 0..H, W \in Nat, H \in Nat,
         pic.kind \in Kinds,
         Code(img, M, p, i, j)
  PROVE  Code(img2, M2, p, i, j)
<1>1. j < H
  BY DEF Code
<1>2. CASE i = W
  <2>1. <<p + Len(EndMark), 0, j + 1>> \in M
    BY <1>2 DEF Code, RowEnd
  <2>2. pic.kind # "player" => p + 1 \in 1..Len(img)
    BY <2>1 DEF EndMark
  <2> QED BY <1>1, <1>2, <2>1, <2>2 DEF Code, RowEnd
<1>3. CASE i # W /\ pic.kind = "rle"
  <2> DEFINE n == img[p + 1]
             m == img[p + n + 2]
  <2>1. RleCode(img, M, p, i, j)
    BY <1>3 DEF Code
  <2>2. /\ n \in Nat /\ m \in Nat /\ i + n + m =< W
        /\ <<p + n + 2, i + n + m, j>> \in M
        /\ \A k \in 0..(n - 1) : img[p + 2 + k] = Pixel(i + k, j)
        /\ \A k \in 0..(m - 1) : Pixel(i + n + k, j) = Clear
    BY <2>1 DEF RleCode
  <2>3. p + n + 2 =< Len(img)
    BY <2>2
  <2> HIDE DEF n, m
  <2>4. /\ p + 1 \in 1..Len(img) /\ p + n + 2 \in 1..Len(img)
        /\ \A k \in 0..(n - 1) : p + 2 + k \in 1..Len(img)
    BY <2>2, <2>3
  <2>5. /\ img2[p + 1] = n /\ img2[p + n + 2] = m
        /\ \A k \in 0..(n - 1) : img2[p + 2 + k] = img[p + 2 + k]
    BY <2>4 DEF n, m
  <2>6. RleCode(img2, M2, p, i, j)
    BY <2>2, <2>5 DEF RleCode
  <2> QED BY <1>1, <1>3, <2>6 DEF Code
<1>4. CASE i # W /\ pic.kind = "shadow"
  <2> DEFINE n == img[p + 1]
             m == img[p + 2]
  <2>1. ShadowCode(img, M, p, i, j)
    BY <1>4 DEF Code
  <2>2. /\ n \in Nat /\ m \in Nat /\ i + n + m =< W
        /\ <<p + 2, i + n + m, j>> \in M
        /\ \A k \in 0..(n - 1) : Pixel(i + k, j) # Clear
        /\ \A k \in 0..(m - 1) : Pixel(i + n + k, j) = Clear
    BY <2>1 DEF ShadowCode
  <2>3. p + 2 =< Len(img)
    BY <2>2
  <2>4. img2[p + 1] = n /\ img2[p + 2] = m
    BY <2>2, <2>3
  <2> HIDE DEF n, m
  <2>5. ShadowCode(img2, M2, p, i, j)
    BY <2>2, <2>4 DEF ShadowCode
  <2> QED BY <1>1, <1>4, <2>5 DEF Code
<1>5. CASE i # W /\ pic.kind = "player"
  <2>1. PlayerCode(img, M, p, i, j)
    BY <1>5 DEF Code
  <2> DEFINE c == Pixel(i, j)
  <2>2. PICK n \in 1..MaxRun :
          /\ i + n =< W
          /\ <<p + Len(PlayerRunBytes(n, c)), i + n, j>> \in M
          /\ \A k \in 0..(n - 1) : Pixel(i + k, j) = c
          /\ \A k \in 1..Len(PlayerRunBytes(n, c)) : img[p + k] = PlayerRunBytes(n, c)[k]
    BY <2>1 DEF PlayerCode
  <2> DEFINE b == PlayerRunBytes(n, c)
  <2>3. Len(b) \in Nat
    BY DEF PlayerRunBytes
  <2> HIDE DEF b, c
  <2>4. p + Len(b) =< Len(img)
    BY <2>2, <2>3 DEF b
  <2>5. \A k \in 1..Len(b) : img2[p + k] = b[k]
    BY <2>2, <2>3, <2>4 DEF b
  <2>6. PlayerCode(img2, M2, p, i, j)
    BY <2>2, <2>5 DEF b, c, PlayerCode
  <2> QED BY <1>1, <1>5, <2>6 DEF Code
<1> QED BY <1>2, <1>3, <1>4, <1>5 DEF Kinds

(* A place behind the last mark, which codes it, is the next. *)
LEMMA MarksGrow ==
  ASSUME NEW img \in Seq(Int), NEW bytes \in Seq(Int), W \in Nat, H \in Nat, pic.kind \in Kinds,
         NEW M, NEW c, NEW r, Marks(img, M, Len(img), c, r),
         NEW c2 \in 0..W, NEW r2 \in 0..H,
         Code(img \o bytes, M \cup {<<Len(img) + Len(bytes), c2, r2>>}, Len(img), c, r)
  PROVE  Marks(img \o bytes, M \cup {<<Len(img) + Len(bytes), c2, r2>>}, Len(img) + Len(bytes), c2, r2)
<1> DEFINE e2 == Len(img) + Len(bytes)
           M2 == M \cup {<<e2, c2, r2>>}
           img2 == img \o bytes
<1>1. /\ Len(img) \in Nat /\ e2 \in Nat /\ Len(img) =< e2
      /\ \A q \in 1..Len(img) : img2[q] = img[q]
  BY Appended
<1>2. Code(img2, M2, Len(img), c, r)
  OBVIOUS
<1>3. M \subseteq M2 /\ <<e2, c2, r2>> \in M2 /\ \A t \in M2 : t \in M \/ t = <<e2, c2, r2>>
  OBVIOUS
<1> HIDE DEF img2, M2
<1>4. /\ M \subseteq (0..Len(img)) \X (0..W) \X (0..H)
      /\ <<0, 0, 0>> \in M
      /\ \A p \in 0..Len(img), i \in 0..W, j \in 0..H :
           <<p, i, j>> \in M => <<p, i, j>> = <<Len(img), c, r>> \/ Code(img, M, p, i, j)
  BY DEF Marks
<1>5. M2 \subseteq (0..e2) \X (0..W) \X (0..H)
  <2>1. M \subseteq (0..e2) \X (0..W) \X (0..H)
    BY <1>1, <1>4
  <2>2. <<e2, c2, r2>> \in (0..e2) \X (0..W) \X (0..H)
    BY <1>1
  <2> QED BY <1>3, <2>1, <2>2
<1>6. ASSUME NEW p \in 0..e2, NEW i \in 0..W, NEW j \in 0..H, <<p, i, j>> \in M2,
             <<p, i, j>> # <<e2, c2, r2>>
      PROVE  Code(img2, M2, p, i, j)
  <2>1. <<p, i, j>> \in M /\ p \in 0..Len(img)
    BY <1>3, <1>4, <1>6
  <2>2. CASE <<p, i, j>> = <<Len(img), c, r>>
    <3>1. p = Len(img) /\ i = c /\ j = r
      BY <2>2
    <3> QED BY <1>2, <3>1
  <2>3. CASE Code(img, M, p, i, j)
    BY <1>1, <1>3, <1>4, <2>1, <2>3, CodeKept
  <2> QED BY <1>4, <2>1, <2>2, <2>3
<1>7. <<0, 0, 0>> \in M2
  BY <1>3, <1>4
<1>8. Marks(img2, M2, e2, c2, r2)
  BY <1>3, <1>5, <1>6, <1>7 DEF Marks
<1> QED BY <1>8 DEF img2, M2

(* The final mark. *)
LEMMA MarksKept ==
  ASSUME NEW img \in Seq(Int), NEW bytes \in Seq(Int), W \in Nat, H \in Nat, pic.kind \in Kinds,
         NEW M, NEW c, NEW r, Marks(img, M, Len(img), c, r)
  PROVE  Marks(img \o bytes, M, Len(img), c, r)
<1> DEFINE img2 == img \o bytes
<1>1. \A q \in 1..Len(img) : img2[q] = img[q]
  BY Appended
<1> HIDE DEF img2
<1>2. /\ M \subseteq (0..Len(img)) \X (0..W) \X (0..H)
      /\ <<0, 0, 0>> \in M /\ <<Len(img), c, r>> \in M
      /\ \A p \in 0..Len(img), i \in 0..W, j \in 0..H :
           <<p, i, j>> \in M => <<p, i, j>> = <<Len(img), c, r>> \/ Code(img, M, p, i, j)
  BY DEF Marks
<1>3. ASSUME NEW p \in 0..Len(img), NEW i \in 0..W, NEW j \in 0..H, Code(img, M, p, i, j)
      PROVE  Code(img2, M, p, i, j)
  BY <1>1, <1>2, <1>3, CodeKept
<1>4. Marks(img2, M, Len(img), c, r)
  BY <1>2, <1>3 DEF Marks
<1> QED BY <1>4 DEF img2

(* The table stays right when more data and more marks follow. *)
LEMMA RowMarksKept ==
  ASSUME NEW img \in Seq(Int), NEW bytes \in Seq(Int), NEW M, NEW M2, NEW R,
         M \subseteq (0..Len(img)) \X (0..W) \X (0..H), M \subseteq M2, RowMarks(img, M, R)
  PROVE  RowMarks(img \o bytes, M2, R)
<1> DEFINE img2 == img \o bytes
<1>1. \A q \in 1..Len(img) : img2[q] = img[q]
  BY Appended
<1> HIDE DEF img2
<1>2. ASSUME NEW r \in 1..Len(R)
      PROVE  <<R[r], 0, r - 1>> \in M2 /\ (r > 1 /\ pic.kind # "player" => img2[R[r]] = img[R[r]])
  <2>1. <<R[r], 0, r - 1>> \in M
    BY DEF RowMarks
  <2>2. R[r] \in 0..Len(img)
    BY <2>1
  <2>3. r > 1 /\ pic.kind # "player" => R[r - 1] \in Nat /\ R[r - 1] < R[r]
    <3>1. R \in Seq(Nat) /\ (r > 1 /\ pic.kind # "player" => R[r - 1] < R[r])
      BY DEF RowMarks
    <3>2. r > 1 => r - 1 \in 1..Len(R)
      BY <3>1
    <3> QED BY <3>1, <3>2
  <2>4. r > 1 /\ pic.kind # "player" => R[r] \in 1..Len(img)
    BY <2>2, <2>3
  <2> QED BY <1>1, <2>1, <2>4
<1>3. RowMarks(img2, M2, R)
  BY <1>2 DEF RowMarks
<1> QED BY <1>3 DEF img2

-------------------------------------------------------------------------------
(* The bytes of a run that is written are its code. *)

LEMMA WrittenRle ==
  ASSUME pic \in Pics, pic.kind = "rle", y \in 0..(H - 1), x \in 0..(W - 1),
         NEW n, n = Run(Opaques, x, MaxColour),
         NEW m, m = Run(Clears, x + n, MaxClear)
  PROVE  /\ RleRunBytes(n, m) \in Seq(Bytes) /\ Len(RleRunBytes(n, m)) = n + 2
         /\ x + n + m \in 0..W
         /\ \A img \in Seq(Int) : \A M :
              <<Len(img) + n + 2, x + n + m, y>> \in M
              => Code(img \o RleRunBytes(n, m), M, Len(img), x, y)
<1>1. /\ W \in Nat /\ H \in Nat /\ Byte \in Nat /\ MaxColour \in 0..(Byte - 1)
      /\ MaxClear \in 0..(Byte - 1)
  BY PicType, RunLengthAssumption
<1>2. n \in 0..MaxColour /\ x + n \in x..W /\ m \in 0..MaxClear
  <2>1. n \in 0..MaxColour /\ x + n \in x..W
    BY <1>1, RunEnds
  <2>2. x + n \in 0..W
    BY <1>1, <2>1
  <2> QED BY <1>1, <2>1, <2>2, RunEnds
<1>3. x + n + m \in (x + n)..W
  <2>1. x + n \in 0..W
    BY <1>1, <1>2
  <2> QED BY <1>1, <2>1, RunEnds
<1>4. n \in Nat /\ m \in Nat /\ n \in Bytes /\ m \in Bytes
  BY <1>1, <1>2 DEF Bytes
<1>5. \A k \in 0..(n - 1) : Cell(x + k) \in Opaques
  BY <1>1, RunCells
<1>6. \A k \in 0..(m - 1) : Cell(x + n + k) \in Clears
  <2>1. x + n \in 0..W
    BY <1>1, <1>2
  <2> QED BY <1>1, <2>1, RunCells
<1>7. \A k \in DOMAIN pic.px : pic.px[k] \in Bytes
  BY PicType DEF Pixels, Bytes
<1> DEFINE px == [i \in 1..n |-> pic.px[Cell(x + i - 1)]]
           bytes == RleRunBytes(n, m)
<1>8. px \in Seq(Bytes) /\ Len(px) = n /\ \A k \in 0..(n - 1) : px[k + 1] = Pixel(x + k, y)
  <2>1. \A i \in 1..n : pic.px[Cell(x + i - 1)] \in Bytes
    <3> SUFFICES ASSUME NEW i \in 1..n PROVE pic.px[Cell(x + i - 1)] \in Bytes
      OBVIOUS
    <3>1. i - 1 \in 0..(n - 1) /\ x + (i - 1) = x + i - 1
      BY <1>4
    <3>2. Cell(x + (i - 1)) \in DOMAIN pic.px
      BY <1>5, <3>1 DEF Opaques
    <3> QED BY <1>7, <3>1, <3>2
  <2>2. px \in [1..n -> Bytes]
    BY <2>1
  <2>3. \A k \in 0..(n - 1) : px[k + 1] = pic.px[y * W + (x + k)]
    <3> SUFFICES ASSUME NEW k \in 0..(n - 1) PROVE px[k + 1] = pic.px[y * W + (x + k)]
      OBVIOUS
    <3>1. k + 1 \in 1..n /\ x + (k + 1) - 1 = x + k
      BY <1>4
    <3> QED BY <3>1 DEF Cell
  <2>4. \A k \in 0..(n - 1) : px[k + 1] = Pixel(x + k, y)
    BY <2>3 DEF Pixel
  <2> HIDE DEF px
  <2>5. px \in Seq(Bytes) /\ Len(px) = n
    BY <1>4, <2>2
  <2> QED BY <2>4, <2>5
<1>10. bytes = <<n>> \o px \o <<m>>
  BY DEF RleRunBytes
<1> HIDE DEF px, bytes
<1>11. /\ bytes \in Seq(Bytes) /\ Len(bytes) = n + 2
       /\ bytes[1] = n /\ bytes[n + 2] = m
       /\ \A k \in 0..(n - 1) : bytes[k + 2] = px[k + 1]
  <2>1. /\ bytes \in Seq(Bytes) /\ Len(bytes) = Len(px) + 2
        /\ bytes[1] = n /\ bytes[Len(px) + 2] = m
        /\ \A i \in 1..Len(px) : bytes[i + 1] = px[i]
    BY <1>4, <1>8, <1>10, Enclosed
  <2>2. \A k \in 0..(n - 1) : k + 1 \in 1..Len(px) /\ (k + 1) + 1 = k + 2
    BY <1>4, <1>8
  <2> QED BY <1>4, <1>8, <2>1, <2>2
<1>12. ASSUME NEW img \in Seq(Int), NEW M, <<Len(img) + n + 2, x + n + m, y>> \in M
       PROVE  Code(img \o bytes, M, Len(img), x, y)
  <2> DEFINE img2 == img \o bytes
             p == Len(img)
  <2>1. bytes \in Seq(Int) /\ p \in Nat
    BY <1>1, <1>11, BytesAreInts
  <2>2. \A i \in 1..(n + 2) : img2[p + i] = bytes[i]
    BY <1>11, <2>1, Appended
  <2> HIDE DEF img2, p
  <2>3. img2[p + 1] = n /\ img2[p + n + 2] = m
    <3>1. 1 \in 1..(n + 2) /\ n + 2 \in 1..(n + 2) /\ p + (n + 2) = p + n + 2
      BY <1>4, <2>1
    <3> QED BY <1>11, <2>2, <3>1
  <2>4. \A k \in 0..(n - 1) : img2[p + 2 + k] = Pixel(x + k, y)
    <3> SUFFICES ASSUME NEW k \in 0..(n - 1) PROVE img2[p + 2 + k] = Pixel(x + k, y)
      OBVIOUS
    <3>1. k + 2 \in 1..(n + 2) /\ p + (k + 2) = p + 2 + k
      BY <1>4, <2>1
    <3> QED BY <1>8, <1>11, <2>2, <3>1
  <2>5. \A k \in 0..(m - 1) : Pixel(x + n + k, y) = Clear
    BY <1>6 DEF Pixel, Cell, Clears
  <2>6. RleCode(img2, M, p, x, y)
    BY <1>3, <1>4, <1>12, <2>3, <2>4, <2>5 DEF RleCode, p
  <2>7. x # W /\ y < H
    BY <1>1
  <2> QED BY <2>6, <2>7 DEF Code, img2, p
<1>13. x + n + m \in 0..W
  BY <1>1, <1>2, <1>3
<1> QED BY <1>11, <1>12, <1>13 DEF bytes

LEMMA WrittenShadow ==
  ASSUME pic \in Pics, pic.kind = "shadow", y \in 0..(H - 1), x \in 0..(W - 1),
         NEW n, n = Run(Opaques, x, W), NEW m, m = Run(Clears, x + n, W)
  PROVE  /\ <<n % Byte, m % Byte>> \in Seq(Bytes)
         /\ x + n + m \in 0..W
         /\ n < Byte /\ m < Byte =>
              \A img \in Seq(Int) : \A M :
                <<Len(img) + 2, x + n + m, y>> \in M
                => Code(img \o <<n % Byte, m % Byte>>, M, Len(img), x, y)
<1>1. W \in Nat /\ H \in Nat /\ Byte \in Nat /\ Byte > 0
  BY PicType, RunLengthAssumption
<1>2. n \in Nat /\ x + n \in 0..W
  BY <1>1, RunEnds
<1>3. m \in Nat /\ x + n + m \in 0..W
  BY <1>1, <1>2, RunEnds
<1>4. \A k \in 0..(n - 1) : Pixel(x + k, y) # Clear
  <2>1. \A k \in 0..(n - 1) : Cell(x + k) \in Opaques
    BY <1>1, RunCells
  <2> QED BY <2>1 DEF Pixel, Cell, Opaques, Clears
<1>5. \A k \in 0..(m - 1) : Pixel(x + n + k, y) = Clear
  <2>1. \A k \in 0..(m - 1) : Cell(x + n + k) \in Clears
    BY <1>1, <1>2, RunCells
  <2> QED BY <2>1 DEF Pixel, Cell, Clears
<1>6. /\ n % Byte \in Bytes /\ m % Byte \in Bytes
      /\ n < Byte => n % Byte = n
      /\ m < Byte => m % Byte = m
  BY <1>1, <1>2, <1>3, Remainders DEF Bytes
<1>7. <<n % Byte, m % Byte>> \in Seq(Bytes)
  BY <1>6
<1>8. ASSUME n < Byte, m < Byte, NEW img \in Seq(Int), NEW M, <<Len(img) + 2, x + n + m, y>> \in M
      PROVE  Code(img \o <<n % Byte, m % Byte>>, M, Len(img), x, y)
  <2> DEFINE b == <<n % Byte, m % Byte>>
             img2 == img \o b
             p == Len(img)
  <2>1. b \in Seq(Int) /\ Len(b) = 2 /\ b[1] = n /\ b[2] = m /\ p \in Nat
    BY <1>2, <1>3, <1>6, <1>8
  <2> HIDE DEF b
  <2>2. img2[p + 1] = n /\ img2[p + 2] = m
    <3>1. 1 \in 1..Len(b) /\ 2 \in 1..Len(b)
      BY <2>1
    <3> QED BY <2>1, <3>1, Appended
  <2> HIDE DEF img2, p
  <2>3. ShadowCode(img2, M, p, x, y)
    BY <1>2, <1>3, <1>4, <1>5, <1>8, <2>2 DEF ShadowCode, p
  <2>4. x # W /\ y < H
    BY <1>1
  <2> QED BY <2>3, <2>4 DEF Code, img2, p, b
<1> QED BY <1>3, <1>7, <1>8

LEMMA WrittenPlayer ==
  ASSUME pic \in Pics, pic.kind = "player", y \in 0..(H - 1), x \in 0..(W - 1),
         NEW n, n = Run(Same(Cell(x)), x, MaxRun),
         NEW b, b = PlayerRunBytes(n, pic.px[Cell(x)])
  PROVE  /\ b \in Seq(Bytes)
         /\ x + n \in 0..W
         /\ \A img \in Seq(Int) : \A M :
              <<Len(img) + Len(b), x + n, y>> \in M => Code(img \o b, M, Len(img), x, y)
<1> DEFINE c == Pixel(x, y)
<1>1. W \in Nat /\ H \in Nat /\ Byte \in Nat /\ MaxRun \in 1..((Byte \div 4) - 1)
  BY PicType, RunLengthAssumption
<1>2. /\ n \in 1..MaxRun /\ x + n \in 0..W
      /\ \A k \in 0..(n - 1) : Cell(x + k) \in Same(Cell(x))
  <2>1. Cell(x) \in Same(Cell(x))
    BY CellOfPic DEF Same, Clears, Opaques
  <2>2. MaxRun \in Nat /\ MaxRun > 0 /\ x < W /\ x \in 0..W
    BY <1>1, Quarters
  <2>3. n \in 0..MaxRun /\ x + n \in x..W /\ n > 0
    BY <1>1, <2>1, <2>2, RunEnds
  <2>4. \A k \in 0..(n - 1) : Cell(x + k) \in Same(Cell(x))
    BY <1>1, <2>2, RunCells
  <2> QED BY <1>1, <2>2, <2>3, <2>4
<1>3. \A k \in 0..(n - 1) : Pixel(x + k, y) = c
  BY <1>2 DEF Pixel, Cell, Same
<1>4. c = pic.px[Cell(x)] /\ c \in 0..(2 * Byte - 2)
  <2>1. Cell(x) \in DOMAIN pic.px
    BY CellOfPic DEF Clears, Opaques
  <2>2. pic.px \in [DOMAIN pic.px -> Pixels("player")]
    BY PicType
  <2> QED BY <2>1, <2>2 DEF Pixels, Pixel, Cell
<1> HIDE DEF c
<1>5. b = PlayerRunBytes(n, c) /\ b \in Seq(Bytes) /\ Len(b) \in Nat
  <2> DEFINE q == Byte \div 4
             h == Byte \div 2
  <2>1. q \in Nat /\ Byte = 4 * q /\ h = 2 * q /\ n \in 1..(q - 1)
    BY <1>1, <1>2, Quarters
  <2>2. b = IF c >= Byte THEN <<n + h, c - Byte>> ELSE IF c = Clear THEN <<n>> ELSE <<n + 3 * q, c>>
    BY <1>4 DEF PlayerRunBytes
  <2> HIDE DEF q, h
  <2>3. /\ n + h \in Bytes /\ n \in Bytes /\ n + 3 * q \in Bytes
        /\ c >= Byte => c - Byte \in Bytes
        /\ ~(c >= Byte) => c \in Bytes
    BY <1>1, <1>4, <2>1 DEF Bytes
  <2>4. b \in Seq(Bytes) /\ Len(b) \in Nat
    BY <2>2, <2>3
  <2> QED BY <1>4, <2>4
<1>6. ASSUME NEW img \in Seq(Int), NEW M, <<Len(img) + Len(b), x + n, y>> \in M
      PROVE  Code(img \o b, M, Len(img), x, y)
  <2> DEFINE img2 == img \o b
             p == Len(img)
  <2>1. \A k \in 1..Len(b) : img2[p + k] = b[k]
    <3>1. b \in Seq(Int)
      BY <1>5, BytesAreInts
    <3>2. \A s \in Seq(Int) : \A k \in 1..Len(s) : (img \o s)[Len(img) + k] = s[k]
      BY Appended
    <3> QED BY <3>1, <3>2, Zenon
  <2> HIDE DEF img2, p
  <2>2. PlayerCode(img2, M, p, x, y)
    <3>1. PlayerRunBytes(n, Pixel(x, y)) = b
      BY <1>5 DEF c
    <3>2. /\ n \in 1..MaxRun /\ x + n =< W /\ <<p + Len(b), x + n, y>> \in M
          /\ \A k \in 0..(n - 1) : Pixel(x + k, y) = Pixel(x, y)
          /\ \A k \in 1..Len(b) : img2[p + k] = b[k]
      BY <1>1, <1>2, <1>3, <1>6, <2>1 DEF c, p
    <3> QED BY <3>1, <3>2 DEF PlayerCode
  <2>3. x # W /\ y < H /\ pic.kind = "player"
    BY <1>1
  <2> QED BY <2>2, <2>3 DEF Code, img2, p
<1> QED BY <1>2, <1>5, <1>6

-------------------------------------------------------------------------------
(* Writing keeps the invariant. *)

(* What depends on the picture alone stays. *)
LEMMA SamePicture ==
  ASSUME pic' = pic
  PROVE  /\ W' = W /\ H' = H /\ BufSize' = BufSize /\ EndMark' = EndMark
         /\ Clears' = Clears /\ Opaques' = Opaques /\ Loaded' = Loaded
         /\ \A img, M, e, c, r : Marks(img, M, e, c, r)' <=> Marks(img, M, e, c, r)
         /\ \A q : Start(q)' = Start(q)
<1>1. W' = W /\ H' = H /\ BufSize' = BufSize /\ EndMark' = EndMark /\ Clears' = Clears
  BY DEF W, H, BufSize, EndMark, Clears
<1>2. Opaques' = Opaques /\ Loaded' = Loaded /\ \A q : Start(q)' = Start(q)
  BY <1>1 DEF Opaques, Loaded, Start
<1>3. ASSUME NEW img, NEW M, NEW p, NEW i, NEW j
      PROVE  Code(img, M, p, i, j)' <=> Code(img, M, p, i, j)
  <2>1. \A a, b : Pixel(a, b)' = Pixel(a, b)
    BY <1>1 DEF Pixel
  <2>2. RowEnd(img, M, p, j)' <=> RowEnd(img, M, p, j)
    BY <1>1 DEF RowEnd
  <2>3. RleCode(img, M, p, i, j)' <=> RleCode(img, M, p, i, j)
    BY <1>1, <2>1 DEF RleCode
  <2>4. ShadowCode(img, M, p, i, j)' <=> ShadowCode(img, M, p, i, j)
    BY <1>1, <2>1 DEF ShadowCode
  <2>5. PlayerCode(img, M, p, i, j)' <=> PlayerCode(img, M, p, i, j)
    BY <1>1, <2>1 DEF PlayerCode
  <2> QED BY <1>1, <2>2, <2>3, <2>4, <2>5 DEF Code
<1>4. ASSUME NEW img, NEW M, NEW e, NEW c, NEW r
      PROVE  Marks(img, M, e, c, r)' <=> Marks(img, M, e, c, r)
  BY <1>1, <1>3 DEF Marks
<1> QED BY <1>1, <1>2, <1>4

(* Bytes that are written keep their places and the limit of the buffer. *)
LEMMA EmitTrip ==
  ASSUME TripInv, phase = "writing", pic' = pic,
         NEW bytes \in Seq(Bytes), NEW next \in {"writing", "wrapped", "written"},
         Emit(bytes, next)
  PROVE  /\ image \in Seq(Int) /\ bytes \in Seq(Int)
         /\ image' \in Seq(0..(Byte - 1)) /\ Len(image) =< Len(image') /\ Len(image') =< BufSize
         /\ phase' \in {next, "overrun", "wrapped"}
         /\ phase' \in {"writing", "written"} =>
              /\ phase' = next /\ image' = image \o bytes /\ Len(image') = Len(image) + Len(bytes)
              /\ pic.kind # "rle" => Len(image') < AddrMod
<1>1. image \in Seq(0..(Byte - 1)) /\ Len(image) =< BufSize /\ pic.kind \in Kinds /\ W \in Nat /\ H \in Nat
  BY PicType DEF TripInv, TypeOK
<1>2. W * H \in Nat
  BY <1>1
<1>3. BufSize \in Int
  BY <1>1, <1>2 DEF BufSize
<1>4. image \in Seq(Bytes)
  BY <1>1 DEF Bytes
<1>5. image \in Seq(Int) /\ bytes \in Seq(Int)
  BY <1>4, BytesAreInts
<1> DEFINE long == image \o bytes
<1>6. long \in Seq(Bytes) /\ Len(long) = Len(image) + Len(bytes)
  BY <1>4
<1>7. long \in Seq(0..(Byte - 1))
  BY <1>6 DEF Bytes
<1>8. Len(image) + Len(bytes) \in Int
  BY <1>5
<1>9. CASE Len(image) + Len(bytes) > BufSize
  BY <1>1, <1>5, <1>9 DEF Emit
<1>10. CASE /\ ~(Len(image) + Len(bytes) > BufSize)
            /\ pic.kind # "rle" /\ Len(image) + Len(bytes) >= AddrMod
  BY <1>1, <1>5, <1>10 DEF Emit
<1>11. CASE /\ ~(Len(image) + Len(bytes) > BufSize)
            /\ ~(pic.kind # "rle" /\ Len(image) + Len(bytes) >= AddrMod)
  <2>1. image' = long /\ phase' = next
    BY <1>11 DEF Emit
  <2>2. AddrMod \in Int
    BY RunLengthAssumption
  <2> HIDE DEF long
  <2>3. Len(long) =< BufSize /\ (pic.kind # "rle" => Len(long) < AddrMod)
    BY <1>3, <1>6, <1>8, <1>11, <2>2
  <2> QED BY <1>5, <1>6, <1>7, <2>1, <2>3 DEF long
<1> QED BY <1>9, <1>10, <1>11

(* A round of a row. *)
LEMMA RoundTrips ==
  ASSUME TripInv, phase = "writing", y < H, x < W,
         UNCHANGED <<pic, y, starts, cut, pos, dec, ff, code>>,
         NEW bytes \in Seq(Bytes), NEW next \in {"writing", "wrapped"}, Emit(bytes, next),
         x' \in 0..W,
         next = "writing" =>
           \A img \in Seq(Int) : \A M : <<Len(img) + Len(bytes), x', y>> \in M
                                    => Code(img \o bytes, M, Len(img), x, y)
  PROVE  TripInv'
<1>1. /\ image \in Seq(Int) /\ bytes \in Seq(Int)
      /\ image' \in Seq(0..(Byte - 1)) /\ Len(image) =< Len(image') /\ Len(image') =< BufSize
      /\ phase' \in {"writing", "overrun", "wrapped"}
      /\ phase' = "writing" =>
           /\ next = "writing" /\ image' = image \o bytes /\ Len(image') = Len(image) + Len(bytes)
           /\ pic.kind # "rle" => Len(image') < AddrMod
  BY EmitTrip
<1>2. /\ pic \in Pics /\ TypeOK /\ W \in Nat /\ H \in Nat /\ y \in 0..H /\ x \in 0..W
      /\ pic.kind \in Kinds
  BY PicType DEF TripInv, TypeOK
<1>3. WritingTrip
  BY DEF TripInv
<1>4. TypeOK'
  <2>1. cut = 0 /\ pos \in -1..Len(image) /\ Len(image') \in Nat /\ Len(image) =< Len(image')
    BY <1>1, <1>2, <1>3 DEF TypeOK, WritingTrip
  <2>2. cut' \in 0..Len(image') /\ pos' \in -1..Len(image')
    BY <1>1, <2>1
  <2>3. W' = W /\ H' = H /\ BufSize' = BufSize
    BY SamePicture
  <2> QED BY <1>1, <1>2, <2>2, <2>3 DEF TypeOK
<1>5. ASSUME phase' = "writing" PROVE WritingTrip'
  <2>1. PICK M, R : Marks(image, M, Len(image), x, y) /\ RowMarks(image, M, R)
    BY <1>3 DEF WritingTrip
  <2>0. PICK M2 : M2 = M \cup {<<Len(image) + Len(bytes), x', y>>}
    OBVIOUS
  <2>2. /\ image' = image \o bytes /\ Len(image') = Len(image) + Len(bytes)
        /\ Code(image \o bytes, M2, Len(image), x, y)
    BY <1>1, <1>5, <2>0
  <2>3. Marks(image \o bytes, M2, Len(image) + Len(bytes), x', y)
    BY <1>1, <1>2, <2>0, <2>1, <2>2, MarksGrow
  <2>4. M \subseteq (0..Len(image)) \X (0..W) \X (0..H) /\ M \subseteq M2
    BY <2>0, <2>1 DEF Marks
  <2>5. RowMarks(image \o bytes, M2, R)
    BY <1>1, <2>1, <2>4, RowMarksKept
  <2>6. Marks(image, M2, Len(image), x, y)'
    BY <2>2, <2>3, SamePicture
  <2>7. RowMarks(image, M2, R)'
    BY <2>2, <2>5, SamePicture DEF RowMarks
  <2>8. cut' = 0 /\ (y' = H' => x' = 0) /\ ff' /\ Len(starts') = IF y' < H' THEN y' + 1 ELSE H'
    BY <1>2, <1>3, SamePicture DEF WritingTrip
  <2> QED BY <2>6, <2>7, <2>8 DEF WritingTrip
<1> QED BY <1>1, <1>2, <1>4, <1>5 DEF TripInv

LEMMA StartType ==
  ASSUME NEW q \in Nat, H \in Nat
  PROVE  Start(q) \in 0..(AddrMod - 1)
<1>1. AddrMod \in Nat /\ AddrMod > 0 /\ q + 2 * H \in Nat
  BY RunLengthAssumption
<1>2. (q + 2 * H) % AddrMod \in 0..(AddrMod - 1) /\ AddrMod - 1 \in 0..(AddrMod - 1)
  BY <1>1, Remainders
<1> QED BY <1>2 DEF Start

LEMMA RleRunTrips == TripInv /\ WriteRleRun => TripInv'
<1> SUFFICES ASSUME TripInv, WriteRleRun PROVE TripInv'
  OBVIOUS
<1>1. PICK n, m : n = Run(Opaques, x, MaxColour) /\ m = Run(Clears, x + n, MaxClear)
  OBVIOUS
<1>2. /\ phase = "writing" /\ pic.kind = "rle" /\ y < H /\ x < W
      /\ Emit(RleRunBytes(n, m), "writing") /\ x' = x + n + m
      /\ UNCHANGED <<pic, y, starts, cut, pos, dec, ff, code>>
  BY <1>1 DEF WriteRleRun, Writing
<1>3. pic \in Pics /\ y \in 0..(H - 1) /\ x \in 0..(W - 1)
  BY <1>2, PicType DEF TripInv, TypeOK
<1>4. PICK b : b = RleRunBytes(n, m)
  OBVIOUS
<1>5. /\ b \in Seq(Bytes) /\ Len(b) = n + 2 /\ x + n + m \in 0..W
      /\ \A img \in Seq(Int) : \A M :
           <<Len(img) + n + 2, x + n + m, y>> \in M => Code(img \o b, M, Len(img), x, y)
  BY <1>1, <1>2, <1>3, <1>4, WrittenRle
<1>6. n \in Int
  <2>1. W \in Nat /\ MaxColour \in Nat
    BY <1>3, PicType, RunLengthAssumption
  <2> QED BY <1>1, <1>3, <2>1, RunEnds
<1>7. ASSUME NEW img \in Seq(Int), NEW M, <<Len(img) + Len(b), x', y>> \in M
      PROVE  Code(img \o b, M, Len(img), x, y)
  <2>1. Len(img) + Len(b) = Len(img) + n + 2
    BY <1>5, <1>6
  <2> QED BY <1>2, <1>5, <1>7, <2>1
<1> QED BY <1>2, <1>4, <1>5, <1>7, RoundTrips

LEMMA ShadowRunTrips == TripInv /\ WriteShadowRun => TripInv'
<1> SUFFICES ASSUME TripInv, WriteShadowRun PROVE TripInv'
  OBVIOUS
<1>1. PICK n, m : n = Run(Opaques, x, W) /\ m = Run(Clears, x + n, W)
  OBVIOUS
<1>2. PICK b, next : /\ b = <<n % Byte, m % Byte>>
                     /\ next = IF n >= Byte \/ m >= Byte THEN "wrapped" ELSE "writing"
  OBVIOUS
<1>3. /\ phase = "writing" /\ pic.kind = "shadow" /\ y < H /\ x < W
      /\ Emit(b, next) /\ x' = x + n + m
      /\ UNCHANGED <<pic, y, starts, cut, pos, dec, ff, code>>
  BY <1>1, <1>2 DEF WriteShadowRun, Writing
<1>4. pic \in Pics /\ y \in 0..(H - 1) /\ x \in 0..(W - 1)
  BY <1>3, PicType DEF TripInv, TypeOK
<1>5. /\ <<n % Byte, m % Byte>> \in Seq(Bytes) /\ x + n + m \in 0..W
      /\ n < Byte /\ m < Byte =>
           \A img \in Seq(Int) : \A M :
             <<Len(img) + 2, x + n + m, y>> \in M
             => Code(img \o <<n % Byte, m % Byte>>, M, Len(img), x, y)
  BY <1>1, <1>3, <1>4, WrittenShadow
<1>6. b \in Seq(Bytes) /\ Len(b) = 2
  BY <1>2, <1>5
<1>7. next = "writing" => n < Byte /\ m < Byte
  <2>1. W \in Nat /\ x \in 0..W /\ y \in Nat
    BY <1>4, PicType
  <2>2. n \in 0..W /\ x + n \in x..W
    BY <1>1, <2>1, RunEnds
  <2>3. x + n \in 0..W
    BY <2>1, <2>2
  <2>4. m \in 0..W
    BY <1>1, <2>1, <2>3, RunEnds
  <2> QED BY <1>2, <2>1, <2>2, <2>4, RunLengthAssumption
<1>8. next = "writing" =>
        \A img \in Seq(Int) : \A M : <<Len(img) + Len(b), x', y>> \in M
                                 => Code(img \o b, M, Len(img), x, y)
  BY <1>2, <1>3, <1>5, <1>6, <1>7
<1>9. next \in {"writing", "wrapped"}
  BY <1>2
<1> QED BY <1>3, <1>5, <1>6, <1>8, <1>9, RoundTrips

LEMMA PlayerRunTrips == TripInv /\ WritePlayerRun => TripInv'
<1> SUFFICES ASSUME TripInv, WritePlayerRun PROVE TripInv'
  OBVIOUS
<1>1. PICK n : n = Run(Same(Cell(x)), x, MaxRun)
  OBVIOUS
<1>2. PICK b : b = PlayerRunBytes(n, pic.px[Cell(x)])
  OBVIOUS
<1>3. /\ phase = "writing" /\ pic.kind = "player" /\ y < H /\ x < W
      /\ Emit(b, "writing") /\ x' = x + n
      /\ UNCHANGED <<pic, y, starts, cut, pos, dec, ff, code>>
  BY <1>1, <1>2 DEF WritePlayerRun, Writing
<1>4. pic \in Pics /\ y \in 0..(H - 1) /\ x \in 0..(W - 1)
  BY <1>3, PicType DEF TripInv, TypeOK
<1>5. /\ b \in Seq(Bytes) /\ x + n \in 0..W
      /\ \A img \in Seq(Int) : \A M :
           <<Len(img) + Len(b), x + n, y>> \in M => Code(img \o b, M, Len(img), x, y)
  BY <1>1, <1>2, <1>3, <1>4, WrittenPlayer
<1> QED BY <1>3, <1>5, RoundTrips

(* The end of a row: the table gets the address of the next. *)
LEMMA RowTrips == TripInv /\ EndRow => TripInv'
<1> SUFFICES ASSUME TripInv, EndRow PROVE TripInv'
  OBVIOUS
<1>1. /\ phase = "writing" /\ y < H /\ x = W /\ Emit(EndMark, "writing") /\ y' = y + 1 /\ x' = 0
      /\ starts' = IF y' < H THEN Append(starts, Start(Len(image'))) ELSE starts
      /\ UNCHANGED <<pic, cut, pos, dec, ff, code>>
  BY DEF EndRow
<1>2. PICK b : b = EndMark
  OBVIOUS
<1>3. /\ b \in Seq(Bytes) /\ Len(b) = (IF pic.kind = "player" THEN 0 ELSE 1)
      /\ pic.kind # "player" => b[1] = Mark
  <2>1. Mark \in Bytes
    BY RunLengthAssumption DEF Mark, Bytes
  <2>2. b = IF pic.kind = "player" THEN <<>> ELSE <<Mark>>
    BY <1>2 DEF EndMark
  <2> QED BY <2>1, <2>2
<1>4. /\ image \in Seq(Int) /\ b \in Seq(Int)
      /\ image' \in Seq(0..(Byte - 1)) /\ Len(image) =< Len(image') /\ Len(image') =< BufSize
      /\ phase' \in {"writing", "overrun", "wrapped"}
      /\ phase' = "writing" =>
           /\ image' = image \o b /\ Len(image') = Len(image) + Len(b)
           /\ pic.kind # "rle" => Len(image') < AddrMod
  BY <1>1, <1>2, <1>3, EmitTrip
<1>5. /\ pic \in Pics /\ TypeOK /\ W \in Nat /\ H \in Nat /\ y \in 0..H /\ x \in 0..W
      /\ pic.kind \in Kinds /\ Len(image') \in Nat
  BY <1>4, PicType DEF TripInv, TypeOK
<1>6. WritingTrip /\ W' = W /\ H' = H /\ BufSize' = BufSize
  BY <1>1, SamePicture DEF TripInv
<1>7. starts \in Seq(0..(AddrMod - 1)) /\ Len(starts) = y + 1 /\ Start(Len(image')) \in 0..(AddrMod - 1)
  BY <1>1, <1>5, <1>6, StartType DEF TypeOK, WritingTrip
<1>8. /\ starts' \in Seq(0..(AddrMod - 1)) /\ Len(starts') = IF y' < H THEN y' + 1 ELSE H
      /\ Len(starts') =< H
  <2>1. PICK A : A = 0..(AddrMod - 1)
    OBVIOUS
  <2>2. PICK a : a = Start(Len(image'))
    OBVIOUS
  <2>3. starts \in Seq(A) /\ a \in A /\ starts' = IF y' < H THEN Append(starts, a) ELSE starts
    BY <1>1, <1>7, <2>1, <2>2
  <2>4. /\ starts' \in Seq(A)
        /\ Len(starts') = IF y' < H THEN Len(starts) + 1 ELSE Len(starts)
    BY <2>3
  <2> QED BY <1>1, <1>5, <1>7, <2>1, <2>4
<1>9. TypeOK'
  <2>1. cut' \in 0..Len(image') /\ pos' \in -1..Len(image')
    BY <1>1, <1>4, <1>5, <1>6 DEF TypeOK, WritingTrip
  <2>2. x' \in 0..W' /\ y' \in 0..H'
    BY <1>1, <1>5, <1>6
  <2> QED BY <1>1, <1>4, <1>5, <1>6, <1>8, <2>1, <2>2 DEF TypeOK
<1>10. ASSUME phase' = "writing" PROVE WritingTrip'
  <2>1. PICK M, R : Marks(image, M, Len(image), x, y) /\ RowMarks(image, M, R)
    BY <1>6 DEF WritingTrip
  <2>2. PICK M2 : M2 = M \cup {<<Len(image) + Len(b), 0, y + 1>>}
    OBVIOUS
  <2>3. PICK img : img = image'
    OBVIOUS
  <2>4. img = image \o b /\ Len(img) = Len(image) + Len(b) /\ Len(img) \in Nat
    BY <1>4, <1>5, <1>10, <2>3
  <2>5. pic.kind # "player" => img[Len(image) + 1] = Mark /\ Len(img) = Len(image) + 1
    <3>1. \A k \in 1..Len(b) : (image \o b)[Len(image) + k] = b[k]
      BY <1>4, Appended
    <3>2. pic.kind # "player" => 1 \in 1..Len(b)
      BY <1>3
    <3> QED BY <1>3, <2>4, <3>1, <3>2
  <2>6. Code(img, M2, Len(image), x, y)
    <3>1. <<Len(image) + Len(EndMark), 0, y + 1>> \in M2
      BY <1>2, <2>2
    <3> QED BY <1>1, <2>5, <3>1 DEF Code, RowEnd
  <2>7. Marks(img, M2, Len(img), 0, y + 1)
    <3>1. 0 \in 0..W /\ y + 1 \in 0..H
      BY <1>1, <1>5
    <3>2. Code(image \o b, M \cup {<<Len(image) + Len(b), 0, y + 1>>}, Len(image), x, y)
      BY <2>2, <2>4, <2>6
    <3>3. Marks(image \o b, M \cup {<<Len(image) + Len(b), 0, y + 1>>}, Len(image) + Len(b), 0, y + 1)
      BY <1>4, <1>5, <2>1, <3>1, <3>2, MarksGrow
    <3> QED BY <2>2, <2>4, <3>3
  <2>8. M \subseteq (0..Len(image)) \X (0..W) \X (0..H) /\ M \subseteq M2
    BY <2>1, <2>2 DEF Marks
  <2>9. RowMarks(img, M2, R)
    BY <1>4, <2>1, <2>4, <2>8, RowMarksKept
  <2>10. PICK R2 : R2 = IF y' < H THEN Append(R, Len(img)) ELSE R
    OBVIOUS
  <2>11. Marks(image, M2, Len(image), x, y)'
    BY <1>1, <2>3, <2>7, SamePicture
  <2>12. R \in Seq(Nat) /\ Len(R) = Len(starts) /\ Len(R) = y + 1
    BY <1>7, <2>9 DEF RowMarks
  <2>13. RowMarks(image, M2, R2)'
    <3>1. R2 \in Seq(Nat) /\ Len(R2) = Len(starts') /\ Len(R) \in Nat
      BY <1>1, <1>7, <2>4, <2>10, <2>12
    <3>2. ASSUME NEW r \in 1..Len(R)
          PROVE  /\ R2[r] = R[r] /\ starts'[r] = starts[r]
                 /\ r > 1 => r - 1 \in 1..Len(R) /\ R2[r - 1] = R[r - 1]
      BY <1>1, <1>7, <2>10, <2>12, <3>2
    <3>3. ASSUME NEW r \in 1..Len(R2), r \notin 1..Len(R)
          PROVE  /\ r = y + 2 /\ R2[r] = Len(img) /\ starts'[r] = Start(Len(img))
                 /\ R2[r - 1] = R[y + 1] /\ y + 1 \in 1..Len(R)
      BY <1>1, <1>5, <1>7, <2>3, <2>10, <2>12, <3>1, <3>3
    <3>4. <<R[y + 1], 0, y>> \in M /\ R[y + 1] =< Len(image)
      <4>1. y + 1 \in 1..Len(R) /\ (y + 1) - 1 = y
        BY <1>5, <2>12
      <4>2. <<R[y + 1], 0, y>> \in M
        BY <2>1, <4>1 DEF RowMarks
      <4> QED BY <2>8, <4>2
    <3>5. <<Len(img), 0, y + 1>> \in M2
      BY <2>2, <2>4
    <3>6. ASSUME NEW r \in 1..Len(R2)
          PROVE  /\ <<R2[r], 0, r - 1>> \in M2 /\ starts'[r] = Start(R2[r])
                 /\ r = 1 => R2[r] = 0
                 /\ r > 1 /\ pic.kind # "player" => R2[r - 1] < R2[r] /\ img[R2[r]] = Mark
      <4>1. CASE r \in 1..Len(R)
        BY <2>9, <3>2, <4>1 DEF RowMarks
      <4>2. CASE r \notin 1..Len(R)
        <5>1. r = y + 2 /\ R2[r] = Len(img) /\ starts'[r] = Start(Len(img)) /\ R2[r - 1] = R[y + 1]
          BY <3>3, <4>2
        <5>2. r - 1 = y + 1 /\ r # 1
          BY <1>5, <5>1
        <5>3. pic.kind # "player" => R2[r - 1] < R2[r] /\ img[R2[r]] = Mark
          <6>1. R[y + 1] \in Nat /\ Len(image) \in Nat
            BY <1>4, <1>5, <2>12
          <6> QED BY <2>5, <3>4, <5>1, <6>1
        <5> QED BY <3>5, <5>1, <5>2, <5>3
      <4> QED BY <4>1, <4>2
    <3> QED BY <1>1, <2>3, <3>1, <3>6, SamePicture DEF RowMarks, Mark
  <2>14. cut' = 0 /\ (y' = H' => x' = 0) /\ ff' /\ Len(starts') = IF y' < H' THEN y' + 1 ELSE H'
    BY <1>1, <1>6, <1>8 DEF WritingTrip
  <2> QED BY <2>11, <2>13, <2>14 DEF WritingTrip
<1> QED BY <1>1, <1>4, <1>5, <1>9, <1>10 DEF TripInv

(* The end of the image. *)
LEMMA ImageTrips == TripInv /\ EndImage => TripInv'
<1> SUFFICES ASSUME TripInv, EndImage PROVE TripInv'
  OBVIOUS
<1>1. /\ phase = "writing" /\ y = H /\ Emit(EndMark, "written")
      /\ UNCHANGED <<pic, x, y, starts, cut, pos, dec, ff, code>>
  BY DEF EndImage
<1>2. PICK b : b = EndMark
  OBVIOUS
<1>3. /\ b \in Seq(Bytes) /\ Len(b) = (IF pic.kind = "player" THEN 0 ELSE 1)
      /\ pic.kind # "player" => b[1] = Mark
  <2>1. Mark \in Bytes
    BY RunLengthAssumption DEF Mark, Bytes
  <2>2. b = IF pic.kind = "player" THEN <<>> ELSE <<Mark>>
    BY <1>2 DEF EndMark
  <2> QED BY <2>1, <2>2
<1>4. /\ image \in Seq(Int) /\ b \in Seq(Int)
      /\ image' \in Seq(0..(Byte - 1)) /\ Len(image) =< Len(image') /\ Len(image') =< BufSize
      /\ phase' \in {"written", "overrun", "wrapped"}
      /\ phase' = "written" =>
           /\ image' = image \o b /\ Len(image') = Len(image) + Len(b)
           /\ pic.kind # "rle" => Len(image') < AddrMod
  BY <1>1, <1>2, <1>3, EmitTrip
<1>5. /\ pic \in Pics /\ TypeOK /\ W \in Nat /\ H \in Nat /\ pic.kind \in Kinds /\ Len(image') \in Nat
  BY <1>4, PicType DEF TripInv, TypeOK
<1>6. WritingTrip /\ W' = W /\ H' = H /\ BufSize' = BufSize /\ EndMark' = b
  BY <1>1, <1>2, SamePicture DEF TripInv
<1>7. TypeOK'
  <2>1. cut' \in 0..Len(image') /\ pos' \in -1..Len(image')
    BY <1>1, <1>4, <1>5, <1>6 DEF TypeOK, WritingTrip
  <2> QED BY <1>1, <1>4, <1>5, <1>6, <2>1 DEF TypeOK
<1>8. ASSUME phase' = "written" PROVE WrittenTrip'
  <2>1. PICK M, R : Marks(image, M, Len(image), x, y) /\ RowMarks(image, M, R)
    BY <1>6 DEF WritingTrip
  <2>2. PICK img : img = image'
    OBVIOUS
  <2>3. /\ img = image \o b /\ Len(img) = Len(image) + Len(b) /\ Len(img) \in Nat /\ x = 0
        /\ Len(image) \in Nat
    BY <1>1, <1>4, <1>5, <1>6, <1>8, <2>2 DEF WritingTrip
  <2>4. pic.kind # "player" => img # <<>> /\ img[Len(img)] = Mark
    <3>1. \A k \in 1..Len(b) : (image \o b)[Len(image) + k] = b[k]
      BY <1>4, Appended
    <3>2. pic.kind # "player" => 1 \in 1..Len(b) /\ Len(img) = Len(image) + 1
      BY <1>3, <2>3
    <3>3. pic.kind # "player" => img[Len(img)] = Mark
      BY <1>3, <2>3, <3>1, <3>2
    <3>4. pic.kind # "player" => Len(img) > 0
      BY <2>3, <3>2
    <3> QED BY <3>3, <3>4
  <2>5. Marks(img, M, Len(image), 0, H)
    BY <1>1, <1>4, <1>5, <2>1, <2>3, MarksKept
  <2>6. RowMarks(img, M, R)
    <3>1. M \subseteq (0..Len(image)) \X (0..W) \X (0..H) /\ M \subseteq M
      BY <2>1 DEF Marks
    <3> QED BY <1>4, <2>1, <2>3, <3>1, RowMarksKept
  <2>7. DataEnd' = Len(image)
    BY <1>6, <2>2, <2>3 DEF DataEnd
  <2>8. Marks(image, M, DataEnd, 0, H)'
    BY <1>1, <1>6, <2>2, <2>5, <2>7, SamePicture
  <2>9. RowMarks(image, M, R)'
    BY <1>1, <2>2, <2>6, SamePicture DEF RowMarks
  <2>10. Len(starts') = H' /\ ff'
    BY <1>1, <1>5, <1>6 DEF WritingTrip
  <2> QED BY <1>1, <1>8, <2>2, <2>4, <2>8, <2>9, <2>10 DEF WrittenTrip, Mark
<1> QED BY <1>1, <1>4, <1>5, <1>7, <1>8 DEF TripInv

(* Nothing is written yet. *)
LEMMA InitTrips == Init => TripInv
<1> SUFFICES ASSUME Init PROVE TripInv
  OBVIOUS
<1>1. /\ pic \in Pics /\ phase = "writing" /\ x = 0 /\ y = 0 /\ image = <<>>
      /\ starts = (IF H = 0 THEN <<>> ELSE <<Start(0)>>)
      /\ cut = 0 /\ pos = 0 /\ dec = <<>> /\ ff = TRUE /\ code = "none"
  BY DEF Init
<1>2. W \in Nat /\ H \in Nat /\ IsPic(pic) /\ (W = 0 <=> H = 0) /\ pic.kind \in Kinds
  BY <1>1, PicType, RunLengthAssumption
<1>3. starts \in Seq(0..(AddrMod - 1)) /\ Len(starts) = IF y < H THEN y + 1 ELSE H
  <2>1. PICK A, a : A = 0..(AddrMod - 1) /\ a = Start(0)
    OBVIOUS
  <2>2. a \in A /\ starts = IF H = 0 THEN <<>> ELSE <<a>>
    BY <1>1, <1>2, <2>1, StartType
  <2>3. starts \in Seq(A) /\ Len(starts) = IF H = 0 THEN 0 ELSE 1
    BY <2>2
  <2> QED BY <1>1, <1>2, <2>1, <2>3
<1>4. Len(image) = 0 /\ image \in Seq(0..(Byte - 1)) /\ 0 =< BufSize /\ 0 < AddrMod
  <2>1. W * H \in Nat
    BY <1>2
  <2>2. BufSize \in Nat
    BY <1>2, <2>1 DEF BufSize
  <2> QED BY <1>1, <2>2, RunLengthAssumption
<1>5. TypeOK
  BY <1>1, <1>2, <1>3, <1>4 DEF TypeOK
<1>6. Marks(image, {<<0, 0, 0>>}, Len(image), x, y)
  BY <1>1, <1>2, <1>4 DEF Marks
<1>7. PICK R : R = IF H = 0 THEN <<>> ELSE <<0>>
  OBVIOUS
<1>8. RowMarks(image, {<<0, 0, 0>>}, R)
  <2>1. CASE H = 0
    BY <1>1, <1>7, <2>1 DEF RowMarks
  <2>2. CASE H # 0
    <3>1. R = <<0>> /\ starts = <<Start(0)>>
      BY <1>1, <1>7, <2>2
    <3>2. /\ R \in Seq(Nat) /\ Len(R) = Len(starts) /\ Len(R) = 1 /\ R[1] = 0 /\ starts[1] = Start(0)
      BY <3>1
    <3> QED BY <3>2 DEF RowMarks
  <2> QED BY <2>1, <2>2
<1>9. WritingTrip
  BY <1>1, <1>3, <1>6, <1>8 DEF WritingTrip
<1> QED BY <1>1, <1>4, <1>5, <1>9 DEF TripInv

-------------------------------------------------------------------------------
(* Loading keeps the invariant. *)

(* What a written file is, and the values the loader leaves alone. *)
LEMMA FileTypes ==
  ASSUME TripInv, phase \in {"written", "reading"}
  PROVE  /\ pic \in Pics /\ TypeOK /\ WrittenTrip /\ W \in Nat /\ H \in Nat /\ pic.kind \in Kinds
         /\ image \in Seq(Int) /\ Len(image) \in Nat /\ x \in 0..W /\ y \in 0..H
         /\ DataEnd = Len(image) - (IF pic.kind = "player" THEN 0 ELSE 1)
         /\ cut \in 0..Len(image) /\ pos \in -1..Len(image)
         /\ pic.kind # "player" => Len(image) > 0
         /\ DOMAIN pic.px = 0..(W * H - 1) /\ Clear \in Pixels(pic.kind) /\ Gray \in Pixels(pic.kind)
<1>1. pic \in Pics /\ TypeOK /\ WrittenTrip /\ W \in Nat /\ H \in Nat /\ pic.kind \in Kinds
      /\ DOMAIN pic.px = 0..(W * H - 1)
  BY PicType DEF TripInv
<1>2. image \in Seq(Bytes) /\ x \in 0..W /\ y \in 0..H /\ cut \in 0..Len(image) /\ pos \in -1..Len(image)
  BY <1>1 DEF TypeOK, Bytes
<1>3. image \in Seq(Int) /\ Len(image) \in Nat
  BY <1>2, BytesAreInts
<1>4. DataEnd = Len(image) - (IF pic.kind = "player" THEN 0 ELSE 1)
  BY DEF DataEnd, EndMark
<1>5. pic.kind # "player" => Len(image) > 0
  BY <1>1, <1>3 DEF WrittenTrip
<1>6. Clear \in Pixels(pic.kind) /\ Gray \in Pixels(pic.kind)
  BY RunLengthAssumption DEF Pixels
<1> QED BY <1>1, <1>2, <1>3, <1>4, <1>5, <1>6

LEMMA LoadTrips == ASSUME TripInv, NEW c \in 0..Len(image), Load(c) PROVE TripInv'
<1>1. /\ phase = "written" /\ cut' = c /\ x' = 0 /\ y' = 0
      /\ pos' = (IF pic.kind = "player" THEN -1 ELSE 0)
      /\ dec' = [k \in DOMAIN pic.px |-> Clear]
      /\ IF pic.kind = "player" /\ c > 0 THEN phase' = "done" /\ code' = "UNEXPECTED_EOF"
         ELSE IF image = <<>> THEN phase' = "done" /\ code' = "NONE"
         ELSE phase' = "reading" /\ code' = code
      /\ UNCHANGED <<pic, image, starts, ff>>
  BY DEF Load
<1>2. /\ pic \in Pics /\ TypeOK /\ WrittenTrip /\ W \in Nat /\ H \in Nat /\ pic.kind \in Kinds
      /\ image \in Seq(Int) /\ Len(image) \in Nat
      /\ DataEnd = Len(image) - (IF pic.kind = "player" THEN 0 ELSE 1)
      /\ DOMAIN pic.px = 0..(W * H - 1) /\ Clear \in Pixels(pic.kind)
      /\ pic.kind # "player" => Len(image) > 0
  BY <1>1, FileTypes
<1>3. W' = W /\ H' = H /\ BufSize' = BufSize /\ EndMark' = EndMark /\ Loaded' = Loaded
  BY <1>1, SamePicture
<1>4. DecType'
  BY <1>1, <1>2 DEF DecType
<1>5. TypeOK'
  <2>1. pos' \in -1..Len(image')
    BY <1>1, <1>2
  <2> QED BY <1>1, <1>2, <1>3, <1>4, <2>1 DEF TypeOK, DecType
<1>6. PICK M, R : Marks(image, M, DataEnd, 0, H) /\ RowMarks(image, M, R)
  BY <1>2 DEF WrittenTrip
<1>7. ASSUME phase' = "reading" PROVE WrittenTrip'
  <2>1. DecIs'
    <3>1. Cell(x)' = 0
      BY <1>1, <1>2, <1>3 DEF Cell
    <3> QED BY <1>1, <1>2, <3>1 DEF DecIs
  <2>2. OnMark(M)'
    <3>1. <<0, 0, 0>> \in M
      BY <1>6 DEF Marks
    <3>2. ff'
      BY <1>1, <1>2 DEF WrittenTrip
    <3> QED BY <1>1, <2>1, <3>1, <3>2 DEF OnMark
  <2>3. ReadingOK(M)'
    <3>1. pic.kind = "player" => c = 0
      BY <1>1, <1>7
    <3> QED BY <1>1, <1>4, <2>2, <3>1 DEF ReadingOK
  <2>4. Marks(image, M, DataEnd, 0, H)' /\ RowMarks(image, M, R)'
    BY <1>1, <1>3, <1>6, SamePicture DEF RowMarks, DataEnd
  <2> QED BY <1>1, <1>2, <1>3, <1>7, <2>3, <2>4 DEF WrittenTrip, Mark
<1>8. ASSUME phase' = "done" PROVE RoundTrip' /\ CutIsNoticed'
  <2>1. CASE code' = "UNEXPECTED_EOF"
    BY <1>1, <1>8, <2>1 DEF RoundTrip, CutIsNoticed
  <2>2. CASE code' # "UNEXPECTED_EOF"
    <3>1. image = <<>> /\ code' = "NONE" /\ pic.kind = "player" /\ c = 0
      BY <1>1, <1>2, <1>8, <2>2
    <3>2. H = 0
      <4> SUFFICES ASSUME H # 0 PROVE FALSE
        OBVIOUS
      <4>1. W # 0 /\ DataEnd = 0 /\ 0 \in 0..DataEnd /\ 0 \in 0..W /\ 0 \in 0..H
        BY <1>2, <3>1, PicType
      <4>2. <<0, 0, 0>> = <<DataEnd, 0, H>> \/ Code(image, M, 0, 0, 0)
        BY <1>6, <4>1 DEF Marks
      <4>3. <<0, 0, 0>> # <<DataEnd, 0, H>>
        BY <1>2
      <4>4. PlayerCode(image, M, 0, 0, 0)
        BY <3>1, <4>1, <4>2, <4>3 DEF Code
      <4>5. PICK n \in 1..MaxRun : <<0 + Len(PlayerRunBytes(n, Pixel(0, 0))), 0 + n, 0>> \in M
        BY <4>4 DEF PlayerCode
      <4>6. Len(PlayerRunBytes(n, Pixel(0, 0))) \in 1..2
        BY DEF PlayerRunBytes
      <4>7. M \subseteq (0..DataEnd) \X (0..W) \X (0..H)
        BY <1>6 DEF Marks
      <4> QED BY <4>1, <4>5, <4>6, <4>7
    <3>3. dec' = Loaded'
      <4>1. W * H = 0
        BY <1>2, <3>2
      <4>2. pic.px \in [0..(W * H - 1) -> Pixels(pic.kind)]
        BY <1>2, PicType
      <4>3. DOMAIN pic.px = {} /\ Loaded' = pic.px
        BY <1>2, <1>3, <3>1, <4>1 DEF Loaded
      <4>4. dec' = [k \in {} |-> Clear]
        BY <1>1, <4>3
      <4>5. pic.px = [k \in {} |-> Clear]
        BY <4>2, <4>3
      <4> QED BY <4>3, <4>4, <4>5
    <3>4. ff'
      BY <1>1, <1>2 DEF WrittenTrip
    <3> QED BY <1>1, <3>1, <3>3, <3>4 DEF RoundTrip, CutIsNoticed
  <2> QED BY <2>1, <2>2
<1>9. phase' \in {"reading", "done"}
  BY <1>1
<1>10. pic.kind # "rle" => Len(image) < AddrMod
  BY <1>1 DEF TripInv
<1> QED BY <1>1, <1>2, <1>5, <1>7, <1>8, <1>9, <1>10 DEF TripInv

(* A loader that gives up. *)
LEMMA GivesUp ==
  ASSUME TripInv, phase = "reading", NEW c \in {"WRONG_FORMAT", "UNEXPECTED_EOF"}, Ends(c),
         cut = 0 => ~Addressable
  PROVE  TripInv'
<1>1. /\ phase' = "done" /\ code' = c
      /\ UNCHANGED <<pic, x, y, image, starts, cut, pos, dec, ff>>
  BY DEF Ends
<1>2. W' = W /\ H' = H /\ BufSize' = BufSize /\ pic \in Pics
  BY <1>1, SamePicture DEF TripInv
<1>3. TypeOK'
  BY <1>1, <1>2 DEF TripInv, TypeOK
<1>4. Addressable' = Addressable
  BY <1>1, <1>2 DEF Addressable
<1>5. RoundTrip' /\ CutIsNoticed'
  BY <1>1, <1>4 DEF RoundTrip, CutIsNoticed
<1> QED BY <1>1, <1>2, <1>3, <1>5 DEF TripInv

(* A loader that goes on. *)
LEMMA GoesOn ==
  ASSUME TripInv, phase = "reading", UNCHANGED <<pic, phase, image, starts, cut, code>>,
         x' \in 0..W, y' \in 0..H, pos' \in -1..Len(image),
         NEW M, NEW R, Marks(image, M, DataEnd, 0, H), RowMarks(image, M, R), ReadingOK(M)'
  PROVE  TripInv'
<1>1. /\ W' = W /\ H' = H /\ BufSize' = BufSize /\ EndMark' = EndMark /\ pic \in Pics /\ TypeOK
      /\ WrittenTrip
  BY SamePicture DEF TripInv
<1>2. DecType'
  BY DEF ReadingOK
<1>3. TypeOK'
  BY <1>1, <1>2 DEF TypeOK, DecType
<1>4. Marks(image, M, DataEnd, 0, H)' /\ RowMarks(image, M, R)'
  BY <1>1, SamePicture DEF RowMarks, DataEnd
<1>5. WrittenTrip'
  BY <1>1, <1>4 DEF WrittenTrip, Mark
<1>6. pic.kind # "rle" => Len(image) < AddrMod
  BY DEF TripInv
<1> QED BY <1>1, <1>3, <1>5, <1>6 DEF TripInv

(* What a loader finds at a byte of the file. *)
LEMMA DataIs ==
  ASSUME image \in Seq(Int), cut \in 0..Len(image), NEW i \in 1..Len(image)
  PROVE  Data[i] = IF i > Len(image) - cut THEN 0 ELSE image[i]
BY DEF Data

LEMMA DataAreBytes ==
  ASSUME TypeOK, NEW i \in 1..Len(image)
  PROVE  Data[i] \in Bytes
<1>1. image \in Seq(Bytes) /\ 0 \in Bytes
  BY RunLengthAssumption DEF TypeOK, Bytes
<1> QED BY <1>1 DEF Data

(* A mark that is not the last. *)
LEMMA MarkCodes ==
  ASSUME NEW M, NEW e \in Nat, Marks(image, M, e, 0, H), W \in Nat, H \in Nat,
         <<pos, x, y>> \in M, y # H
  PROVE  Code(image, M, pos, x, y) /\ pos \in 0..e
<1>1. pos \in 0..e /\ x \in 0..W /\ y \in 0..H
  BY DEF Marks
<1>2. <<pos, x, y>> # <<e, 0, H>>
  OBVIOUS
<1> QED BY <1>1, <1>2 DEF Marks

(* The pixels of a run of n cells v and m transparent ones. *)
LEMMA RunDecoded ==
  ASSUME DecIs, DecType, UNCHANGED <<pic, y>>, W \in Nat, H \in Nat, x \in Nat, y \in Nat,
         DOMAIN pic.px = 0..(W * H - 1),
         NEW n \in Nat, NEW m \in Nat, x' = x + n + m, NEW v, Set(n, v),
         \A k \in 0..(n - 1) : v[k] = Loaded[Cell(x) + k],
         \A k \in 0..(m - 1) : Loaded[Cell(x) + n + k] = Clear
  PROVE  DecIs'
<1> DEFINE a == y * W + x
<1>1. a \in Nat
  <2>1. y * W \in Nat
    OBVIOUS
  <2> QED BY <2>1
<1>2. Cell(x) = a /\ Cell(x)' = a + n + m
  <2>1. Cell(x)' = y * W + (x + n + m) /\ y * W \in Nat
    BY SamePicture DEF Cell
  <2> QED BY <2>1 DEF Cell
<1> HIDE DEF a
<1>3. dec' = [k \in DOMAIN pic.px |-> IF k \in a..(a + n - 1) THEN v[k - a] ELSE dec[k]]
  BY <1>2 DEF Set, DecType
<1>4. ASSUME NEW k \in DOMAIN pic.px
      PROVE  dec'[k] = IF k < a + n + m THEN Loaded[k] ELSE Clear
  <2>1. k \in Nat /\ dec[k] = IF k < a THEN Loaded[k] ELSE Clear
    BY <1>2, <1>4 DEF DecIs
  <2>2. CASE k < a
    BY <1>1, <1>3, <1>4, <2>1, <2>2
  <2>3. CASE k >= a /\ k < a + n
    <3>1. k - a \in 0..(n - 1) /\ a + (k - a) = k
      BY <1>1, <2>1, <2>3
    <3>2. v[k - a] = Loaded[k]
      BY <1>2, <3>1
    <3> QED BY <1>1, <1>3, <1>4, <2>1, <2>3, <3>2
  <2>4. CASE k >= a + n /\ k < a + n + m
    <3>1. k - a - n \in 0..(m - 1) /\ a + n + (k - a - n) = k
      BY <1>1, <2>1, <2>4
    <3>2. Loaded[k] = Clear
      BY <1>2, <3>1
    <3> QED BY <1>1, <1>3, <1>4, <2>1, <2>4, <3>2
  <2>5. CASE k >= a + n + m
    BY <1>1, <1>3, <1>4, <2>1, <2>5
  <2> QED BY <1>1, <2>1, <2>2, <2>3, <2>4, <2>5
<1> QED BY <1>2, <1>4, SamePicture DEF DecIs

LEMMA SetKeepsType ==
  ASSUME DecType, pic' = pic, NEW n \in Int, NEW v, Set(n, v), Cell(x) \in Int,
         DOMAIN pic.px \subseteq Int,
         \A k \in 0..(n - 1) : v[k] \in Pixels(pic.kind)
  PROVE  DecType'
<1>1. dec' = [k \in DOMAIN pic.px |-> IF k \in Cell(x)..(Cell(x) + n - 1) THEN v[k - Cell(x)] ELSE dec[k]]
  BY DEF Set, DecType
<1>2. ASSUME NEW k \in DOMAIN pic.px PROVE dec'[k] \in Pixels(pic.kind)
  <2>1. k \in Cell(x)..(Cell(x) + n - 1) => k - Cell(x) \in 0..(n - 1)
    OBVIOUS
  <2>2. dec[k] \in Pixels(pic.kind)
    BY DEF DecType
  <2> QED BY <1>1, <2>1, <2>2
<1> QED BY <1>1, <1>2 DEF DecType

LEMMA PartOfPicture ==
  ASSUME DecIs
  PROVE  DecPart
BY DEF DecIs, DecPart

(* A run of rle. *)
LEMMA ReadRleTrips == TripInv /\ ReadRleRun => TripInv'
<1> SUFFICES ASSUME TripInv, ReadRleRun PROVE TripInv'
  OBVIOUS
<1>1. PICK n : n = Data[pos + 1]
  OBVIOUS
<1>2. /\ phase = "reading" /\ pic.kind = "rle" /\ y < H /\ x < W
      /\ IF pos + 1 + n + 1 >= Len(image) THEN Ends("WRONG_FORMAT")
         ELSE /\ Set(n, [i \in 0..(n - 1) |-> Data[pos + 2 + i]])
              /\ x' = x + n + Data[pos + n + 2]
              /\ pos' = pos + n + 2
              /\ UNCHANGED <<pic, phase, y, image, starts, cut, ff, code>>
  BY <1>1 DEF ReadRleRun, Reading
<1>3. /\ pic \in Pics /\ TypeOK /\ WrittenTrip /\ W \in Nat /\ H \in Nat
      /\ image \in Seq(Int) /\ Len(image) \in Nat /\ x \in 0..W /\ y \in 0..H
      /\ DataEnd = Len(image) - 1 /\ cut \in 0..Len(image) /\ pos \in -1..Len(image)
      /\ DOMAIN pic.px = 0..(W * H - 1) /\ Len(image) > 0
  BY <1>2, FileTypes
<1>0. /\ Len(image) \in Nat /\ pos \in -1..Len(image) /\ cut \in 0..Len(image)
      /\ W \in Nat /\ x \in 0..W /\ x < W
  BY <1>2, <1>3
<1>4. PICK M, R : Marks(image, M, DataEnd, 0, H) /\ RowMarks(image, M, R) /\ ReadingOK(M)
  BY <1>2, <1>3 DEF WrittenTrip
<1>5. DecType /\ Cell(x) \in Int /\ DOMAIN pic.px \subseteq Int
  <2>1. y * W \in Nat
    BY <1>3
  <2> QED BY <1>3, <1>4, <2>1 DEF Cell, ReadingOK
<1>6. \A i \in 1..Len(image) : /\ Data[i] = IF i > Len(image) - cut THEN 0 ELSE image[i]
                               /\ Data[i] \in Pixels("rle")
  BY <1>3, DataIs, DataAreBytes DEF Pixels, Bytes
<1>7. CASE <<pos, x, y>> \in M /\ pos < Len(image) - cut
  <2>0. PICK m : m = image[pos + n + 2]
    OBVIOUS
  <2>1. RleCode(image, M, pos, x, y) /\ pos \in 0..DataEnd
    <3>1. DataEnd \in Nat /\ y # H /\ x # W
      BY <1>2, <1>3
    <3>2. Code(image, M, pos, x, y) /\ pos \in 0..DataEnd
      BY <1>3, <1>4, <1>7, <3>1, MarkCodes
    <3> QED BY <1>2, <3>1, <3>2 DEF Code
  <2>2. n = image[pos + 1]
    <3>1. pos + 1 \in 1..Len(image) /\ ~(pos + 1 > Len(image) - cut)
      BY <1>0, <1>3, <1>7, <2>1
    <3>2. Data[pos + 1] = image[pos + 1]
      BY <1>3, <3>1, DataIs
    <3> QED BY <1>1, <3>2
  <2>3. /\ n \in Nat /\ m \in Nat /\ x + n + m =< W
        /\ <<pos + n + 2, x + n + m, y>> \in M
        /\ \A k \in 0..(n - 1) : image[pos + 2 + k] = Pixel(x + k, y)
        /\ \A k \in 0..(m - 1) : Pixel(x + n + k, y) = Clear
    BY <2>0, <2>1, <2>2 DEF RleCode
  <2>13. pos \in Nat
    BY <1>0, <1>3, <2>1
  <2>4. pos + n + 2 =< Len(image) - 1
    BY <1>3, <1>4, <2>3 DEF Marks
  <2>5. PICK v : v = [i \in 0..(n - 1) |-> Data[pos + 2 + i]]
    OBVIOUS
  <2>6. /\ Set(n, v) /\ x' = x + n + Data[pos + n + 2] /\ pos' = pos + n + 2
        /\ UNCHANGED <<pic, phase, y, image, starts, cut, ff, code>>
    BY <1>2, <1>3, <2>1, <2>3, <2>4, <2>5
  <2>7. \A k \in 0..(n - 1) : v[k] = Data[pos + 2 + k] /\ pos + 2 + k \in 1..Len(image)
    <3>1. \A k \in 0..(n - 1) : pos + 2 + k \in 1..Len(image)
      BY <1>0, <2>3, <2>4, <2>13
    <3>2. \A k \in 0..(n - 1) : v[k] = Data[pos + 2 + k]
      BY <2>5
    <3> QED BY <3>1, <3>2
  <2>8. DecType'
    <3>1. \A k \in 0..(n - 1) : v[k] \in Pixels(pic.kind)
      BY <1>2, <1>6, <2>7
    <3> QED BY <1>5, <2>3, <2>6, <3>1, SetKeepsType
  <2>9. /\ pos + n + 2 \in 1..Len(image)
        /\ Data[pos + n + 2] = IF pos' > Len(image) - cut THEN 0 ELSE m
    <3>1. pos + n + 2 \in 1..Len(image) /\ pos' = pos + n + 2
      BY <1>0, <2>3, <2>4, <2>6, <2>13
    <3> QED BY <1>6, <2>0, <3>1
  <2>10. x' \in 0..W /\ pos' \in -1..Len(image) /\ y' \in 0..H /\ pos' < Len(image)
    <3>1. Data[pos + n + 2] = 0 \/ Data[pos + n + 2] = m
      BY <2>9
    <3>2. y' \in 0..H
      BY <1>3, <2>6
    <3> QED BY <1>0, <2>3, <2>4, <2>6, <2>13, <3>1, <3>2
  <2>11. CASE pos' > Len(image) - cut
    <3>1. cut > 0 /\ x' = x + n
      BY <1>0, <2>3, <2>4, <2>6, <2>9, <2>11, <2>13
    <3>2. x' = W => x + n + m = x'
      BY <1>0, <2>3, <3>1
    <3>3. <<pos', x', y'>> \in M \/ x' < W
      <4>1. CASE x' = W
        BY <2>3, <2>6, <3>2, <4>1
      <4> QED BY <1>0, <2>10, <4>1
    <3>4. OffFile(M)'
      <4>1. pos' >= Len(image) - cut
        BY <1>0, <2>10, <2>11
      <4>2. W' = W /\ pic' = pic /\ image' = image /\ cut' = cut
        BY <2>6, SamePicture
      <4> QED BY <1>2, <2>10, <3>1, <3>3, <4>1, <4>2 DEF OffFile, DecPart
    <3>5. ReadingOK(M)'
      BY <1>2, <2>6, <2>8, <3>4 DEF ReadingOK
    <3> QED BY <1>2, <1>4, <2>6, <2>10, <3>5, GoesOn
  <2>12. CASE ~(pos' > Len(image) - cut)
    <3>1. x' = x + n + m
      BY <2>6, <2>9, <2>12
    <3>2. \A k \in 0..(n - 1) : v[k] = Loaded[Cell(x) + k]
      <4> SUFFICES ASSUME NEW k \in 0..(n - 1) PROVE v[k] = Loaded[Cell(x) + k]
        OBVIOUS
      <4>1. v[k] = image[pos + 2 + k]
        <5>1. pos + 2 + k \in 1..Len(image) /\ v[k] = Data[pos + 2 + k]
          BY <2>7
        <5>2. pos' = pos + n + 2
          BY <2>6
        <5>3. ~(pos + 2 + k > Len(image) - cut)
          BY <1>0, <2>3, <2>12, <2>13, <5>2
        <5> QED BY <1>6, <5>1, <5>3
      <4>2. v[k] = pic.px[y * W + (x + k)]
        BY <2>3, <4>1 DEF Pixel
      <4>3. y * W + (x + k) = Cell(x) + k
        <5>1. y * W \in Nat
          BY <1>3
        <5> QED BY <1>3, <5>1 DEF Cell
      <4> QED BY <1>2, <4>2, <4>3 DEF Loaded
    <3>3. \A k \in 0..(m - 1) : Loaded[Cell(x) + n + k] = Clear
      <4> SUFFICES ASSUME NEW k \in 0..(m - 1) PROVE Loaded[Cell(x) + n + k] = Clear
        OBVIOUS
      <4>1. pic.px[y * W + (x + n + k)] = Clear
        BY <2>3 DEF Pixel
      <4>2. y * W + (x + n + k) = Cell(x) + n + k
        <5>1. y * W \in Nat /\ x \in Nat /\ n \in Nat /\ k \in Int
          BY <1>3, <2>3
        <5> QED BY <5>1 DEF Cell
      <4> QED BY <1>2, <4>1, <4>2 DEF Loaded
    <3>4. OnMark(M) \/ cut > 0
      BY <1>4, <1>7 DEF ReadingOK, OffFile
    <3>5. DecIs /\ (cut = 0 => ff)
      BY <1>3, <1>4, <1>7 DEF ReadingOK, OffFile, OnMark
    <3>6. DecIs'
      <4>1. x \in Nat /\ y \in Nat /\ W \in Nat /\ H \in Nat /\ DOMAIN pic.px = 0..(W * H - 1)
        BY <1>3
      <4>2. pic' = pic /\ y' = y /\ Set(n, v) /\ n \in Nat /\ m \in Nat
        BY <2>3, <2>6
      <4> QED BY <1>5, <3>1, <3>2, <3>3, <3>5, <4>1, <4>2, RunDecoded
    <3>7. OnMark(M)'
      BY <2>3, <2>6, <3>1, <3>5, <3>6 DEF OnMark
    <3>8. ReadingOK(M)'
      BY <1>2, <2>6, <2>8, <3>7 DEF ReadingOK
    <3> QED BY <1>2, <1>4, <2>6, <2>10, <3>8, GoesOn
  <2> QED BY <2>11, <2>12
<1>8. CASE ~(<<pos, x, y>> \in M /\ pos < Len(image) - cut)
  <2>1. OffFile(M) /\ pos \in 0..(Len(image) - 1) /\ cut > 0
    <3>1. <<pos, x, y>> \in M => pos \in 0..(Len(image) - 1)
      BY <1>3, <1>4 DEF Marks
    <3>2. CASE OnMark(M)
      <4>1. <<pos, x, y>> \in M /\ DecPart /\ pos >= Len(image) - cut
        BY <1>2, <1>3, <1>8, <3>2, PartOfPicture DEF OnMark
      <4>2. cut > 0
        BY <1>3, <3>1, <4>1
      <4> QED BY <3>1, <4>1, <4>2 DEF OffFile
    <3>3. CASE OffFile(M)
      <4>1. cut > 0 /\ pos >= Len(image) - cut /\ (<<pos, x, y>> \in M \/ pos < Len(image))
        BY <1>2, <3>3 DEF OffFile
      <4> QED BY <1>3, <3>1, <3>3, <4>1
    <3> QED BY <1>4, <3>2, <3>3 DEF ReadingOK
  <2>2. pos >= Len(image) - cut
    BY <2>1 DEF OffFile
  <2>3. n = 0
    BY <1>1, <1>3, <1>6, <2>1, <2>2
  <2>4. CASE pos + 1 + n + 1 >= Len(image)
    BY <1>2, <2>1, <2>4, GivesUp
  <2>5. CASE ~(pos + 1 + n + 1 >= Len(image))
    <3>1. Data[pos + n + 2] = 0 /\ pos + 2 < Len(image)
      <4>1. pos \in Nat /\ pos + 2 < Len(image) /\ pos + n + 2 = pos + 2
        BY <1>0, <2>1, <2>3, <2>5
      <4>2. pos + 2 \in 1..Len(image) /\ pos + 2 > Len(image) - cut
        BY <1>0, <2>2, <4>1
      <4>3. Data[pos + 2] = 0
        BY <1>6, <4>2
      <4> QED BY <4>1, <4>3
    <3>2. PICK v : v = [i \in 0..(n - 1) |-> Data[pos + 2 + i]]
      OBVIOUS
    <3>3. /\ Set(n, v) /\ x' = x /\ pos' = pos + 2
          /\ UNCHANGED <<pic, phase, y, image, starts, cut, ff, code>>
      BY <1>2, <1>3, <2>1, <2>3, <2>5, <3>1, <3>2
    <3>4. DecType'
      <4>1. n \in Int /\ \A k \in 0..(n - 1) : v[k] \in Pixels(pic.kind)
        BY <2>3
      <4>2. pic' = pic /\ Set(n, v)
        BY <3>3
      <4> QED BY <1>5, <4>1, <4>2, SetKeepsType
    <3>5. x' \in 0..W /\ pos' \in -1..Len(image) /\ y' \in 0..H /\ pos' < Len(image) /\ x' < W
      <4>1. y' = y /\ x' = x /\ pos' = pos + 2
        BY <3>3
      <4>2. pos \in Nat /\ pos + 2 < Len(image) /\ x < W /\ x \in 0..W
        BY <1>0, <2>1, <3>1
      <4> QED BY <1>0, <1>3, <4>1, <4>2
    <3>6. OffFile(M)'
      <4>1. pos' >= Len(image) - cut
        BY <1>0, <2>2, <3>3
      <4>2. W' = W /\ pic' = pic /\ image' = image /\ cut' = cut
        BY <3>3, SamePicture
      <4> QED BY <1>2, <2>1, <3>5, <4>1, <4>2 DEF OffFile, DecPart
    <3>7. ReadingOK(M)'
      BY <1>2, <3>3, <3>4, <3>6 DEF ReadingOK
    <3> QED BY <1>2, <1>4, <3>3, <3>5, <3>7, GoesOn
  <2> QED BY <2>4, <2>5
<1> QED BY <1>7, <1>8

LEMMA CellPlus ==
  ASSUME W \in Nat, y \in Nat, NEW a \in Int, NEW b \in Int
  PROVE  Cell(a + b) = Cell(a) + b
<1>1. y * W \in Nat
  OBVIOUS
<1> QED BY <1>1 DEF Cell

LEMMA CellInside ==
  ASSUME pic \in Pics, y \in 0..(H - 1), NEW i \in 0..(W - 1)
  PROVE  Cell(i) \in DOMAIN pic.px
BY CellOfPic DEF Clears, Opaques

(* A run of a shadow. *)
LEMMA ReadShadowTrips == TripInv /\ ReadShadowRun => TripInv'
<1> SUFFICES ASSUME TripInv, ReadShadowRun PROVE TripInv'
  OBVIOUS
<1>1. PICK n : n = Data[pos + 1]
  OBVIOUS
<1>2. PICK v : v = [i \in 0..(n - 1) |-> Gray]
  OBVIOUS
<1>3. /\ phase = "reading" /\ pic.kind = "shadow" /\ y < H /\ x < W /\ pos + 2 < Len(image)
      /\ Set(n, v) /\ x' = x + n + Data[pos + 2] /\ pos' = pos + 2
      /\ UNCHANGED <<pic, phase, y, image, starts, cut, ff, code>>
  BY <1>1, <1>2 DEF ReadShadowRun, Reading, MoreShadow
<1>4. /\ pic \in Pics /\ TypeOK /\ WrittenTrip /\ W \in Nat /\ H \in Nat
      /\ image \in Seq(Int) /\ Len(image) \in Nat /\ x \in 0..W /\ y \in 0..H
      /\ DataEnd = Len(image) - 1 /\ cut \in 0..Len(image) /\ pos \in -1..Len(image)
      /\ DOMAIN pic.px = 0..(W * H - 1) /\ Len(image) > 0 /\ Gray \in Pixels(pic.kind)
  BY <1>3, FileTypes
<1>0. /\ Len(image) \in Nat /\ pos \in -1..Len(image) /\ cut \in 0..Len(image)
      /\ W \in Nat /\ x \in 0..W /\ x < W
  BY <1>3, <1>4
<1>5. PICK M, R : Marks(image, M, DataEnd, 0, H) /\ RowMarks(image, M, R) /\ ReadingOK(M)
  BY <1>3, <1>4 DEF WrittenTrip
<1>6. DecType /\ Cell(x) \in Int /\ DOMAIN pic.px \subseteq Int
  <2>1. y * W \in Nat
    BY <1>4
  <2> QED BY <1>4, <1>5, <2>1 DEF Cell, ReadingOK
<1>7. \A i \in 1..Len(image) : Data[i] = IF i > Len(image) - cut THEN 0 ELSE image[i]
  BY <1>4, DataIs
<1>8. pos' \in -1..Len(image) /\ y' \in 0..H /\ W' = W
  BY <1>0, <1>3, <1>4, SamePicture
<1>9. \A k \in 0..(n - 1) : v[k] = Gray
  BY <1>2
<1>10. n \in Int => DecType'
  <2>1. \A k \in 0..(n - 1) : v[k] \in Pixels(pic.kind)
    BY <1>4, <1>9
  <2>2. pic' = pic
    BY <1>3
  <2> QED BY <1>3, <1>6, <2>1, <2>2, SetKeepsType
<1>11. CASE <<pos, x, y>> \in M /\ pos < Len(image) - cut
  <2>1. ShadowCode(image, M, pos, x, y) /\ pos \in 0..DataEnd
    <3>1. DataEnd \in Nat /\ y # H /\ x # W
      <4>1. Len(image) \in Nat /\ Len(image) > 0 /\ DataEnd = Len(image) - 1
        BY <1>4
      <4>2. y # H /\ x # W
        BY <1>0, <1>3, <1>4
      <4> QED BY <4>1, <4>2
    <3>2. Code(image, M, pos, x, y) /\ pos \in 0..DataEnd
      BY <1>4, <1>5, <1>11, <3>1, MarkCodes
    <3> QED BY <1>3, <3>1, <3>2 DEF Code
  <2>2. PICK m : m = image[pos + 2]
    OBVIOUS
  <2>3. pos \in Nat /\ pos + 1 \in 1..Len(image) /\ pos + 2 \in 1..Len(image)
    BY <1>0, <1>3, <1>4, <2>1
  <2>4. n = image[pos + 1]
    BY <1>0, <1>1, <1>7, <1>11, <2>3
  <2>5. /\ n \in Nat /\ m \in Nat /\ x + n + m =< W
        /\ <<pos + 2, x + n + m, y>> \in M
        /\ \A k \in 0..(n - 1) : Pixel(x + k, y) # Clear
        /\ \A k \in 0..(m - 1) : Pixel(x + n + k, y) = Clear
    BY <2>1, <2>2, <2>4 DEF ShadowCode
  <2>6. PICK d : d = Data[pos + 2]
    OBVIOUS
  <2>7. d = (IF pos' > Len(image) - cut THEN 0 ELSE m) /\ x' = x + n + d
    BY <1>3, <1>7, <2>2, <2>3, <2>6
  <2>8. d \in Nat /\ d =< m /\ x' \in 0..W
    BY <1>0, <2>5, <2>7
  <2>10. DecIs /\ (cut = 0 => ff)
    BY <1>0, <1>3, <1>5, <1>11 DEF ReadingOK, OffFile, OnMark
  <2>11. \A k \in 0..(n - 1) : v[k] = Loaded[Cell(x) + k]
    <3> SUFFICES ASSUME NEW k \in 0..(n - 1) PROVE v[k] = Loaded[Cell(x) + k]
      OBVIOUS
    <3>1. pic.px[y * W + (x + k)] # Clear
      BY <2>5 DEF Pixel
    <3>2. Cell(x + k) = Cell(x) + k /\ Cell(x + k) \in DOMAIN pic.px
      <4>1. x + k \in 0..(W - 1) /\ y \in 0..(H - 1) /\ k \in Int /\ x \in Int /\ y \in Nat
        <5>1. n \in Nat /\ m \in Nat /\ x + n + m =< W
          BY <2>5
        <5>2. x + k \in 0..(W - 1) /\ k \in Int
          BY <1>0, <5>1
        <5> QED BY <1>3, <1>4, <5>2
      <4> QED BY <1>4, <4>1, CellPlus, CellInside
    <3>3. Cell(x) + k \in DOMAIN pic.px /\ Cell(x) + k \notin Clears
      BY <3>1, <3>2 DEF Clears, Cell
    <3>4. Loaded[Cell(x) + k] = Gray
      BY <1>3, <3>3 DEF Loaded
    <3> QED BY <1>9, <3>4
  <2>12. \A k \in 0..(d - 1) : Loaded[Cell(x) + n + k] = Clear
    <3> SUFFICES ASSUME NEW k \in 0..(d - 1) PROVE Loaded[Cell(x) + n + k] = Clear
      OBVIOUS
    <3>1. k \in 0..(m - 1)
      BY <2>5, <2>8
    <3>2. pic.px[y * W + (x + n + k)] = Clear
      BY <2>5, <3>1 DEF Pixel
    <3>3. Cell(x + n + k) = Cell(x) + n + k /\ Cell(x + n + k) \in DOMAIN pic.px
      <4>1. /\ x + n + k \in 0..(W - 1) /\ y \in 0..(H - 1) /\ k \in Int /\ x \in Int /\ y \in Nat
            /\ n \in Int /\ x + n \in Int
        <5>1. n \in Nat /\ m \in Nat /\ x + n + m =< W
          BY <2>5
        <5>2. x + n + k \in 0..(W - 1) /\ k \in Int /\ x + n \in Int
          BY <1>0, <3>1, <5>1
        <5> QED BY <1>3, <1>4, <5>1, <5>2
      <4> QED BY <1>4, <4>1, CellPlus, CellInside
    <3>4. Cell(x) + n + k \in DOMAIN pic.px /\ Cell(x) + n + k \in Clears
      BY <3>2, <3>3 DEF Clears, Cell
    <3> QED BY <1>3, <3>4 DEF Loaded
  <2>13. DecIs'
    <3>1. x \in Nat /\ y \in Nat /\ W \in Nat /\ H \in Nat /\ DOMAIN pic.px = 0..(W * H - 1)
      BY <1>4
    <3>2. pic' = pic /\ y' = y /\ Set(n, v) /\ n \in Nat /\ d \in Nat /\ x' = x + n + d
      BY <1>3, <2>5, <2>7, <2>8
    <3> QED BY <1>6, <2>10, <2>11, <2>12, <3>1, <3>2, RunDecoded
  <2>14. CASE pos' > Len(image) - cut
    <3>1. DecPart'
      BY <2>13, PartOfPicture DEF DecIs, DecPart
    <3>2. OffFile(M)'
      <4>1. pos' >= Len(image) - cut /\ cut > 0
        BY <1>0, <1>3, <1>8, <2>14
      <4> QED BY <1>3, <3>1, <4>1 DEF OffFile
    <3>3. ReadingOK(M)'
      BY <1>3, <1>10, <2>5, <3>2 DEF ReadingOK
    <3> QED BY <1>3, <1>5, <1>8, <2>8, <3>3, GoesOn
  <2>15. CASE ~(pos' > Len(image) - cut)
    <3>1. OnMark(M)'
      BY <1>3, <2>5, <2>7, <2>10, <2>13, <2>15 DEF OnMark
    <3>2. ReadingOK(M)'
      BY <1>3, <1>10, <2>5, <3>1 DEF ReadingOK
    <3> QED BY <1>3, <1>5, <1>8, <2>8, <3>2, GoesOn
  <2> QED BY <2>14, <2>15
<1>12. CASE ~(<<pos, x, y>> \in M /\ pos < Len(image) - cut)
  <2>1. DecPart /\ pos >= Len(image) - cut /\ cut > 0 /\ pos \in Nat
    <3>1. CASE OnMark(M)
      <4>1. <<pos, x, y>> \in M /\ DecPart /\ pos >= Len(image) - cut
        BY <1>0, <1>3, <1>12, <3>1, PartOfPicture DEF OnMark
      <4>2. pos \in 0..(Len(image) - 1)
        BY <1>4, <1>5, <4>1 DEF Marks
      <4> QED BY <1>0, <4>1, <4>2
    <3>2. CASE OffFile(M)
      BY <1>0, <3>2 DEF OffFile
    <3> QED BY <1>5, <3>1, <3>2 DEF ReadingOK
  <2>2. n = 0 /\ Data[pos + 2] = 0
    <3>1. pos + 1 \in 1..Len(image) /\ pos + 2 \in 1..Len(image)
      BY <1>0, <1>3, <2>1
    <3> QED BY <1>0, <1>1, <1>7, <2>1, <3>1
  <2>3. x' = x
    BY <1>0, <1>3, <2>2
  <2>4. dec' = dec
    BY <1>3, <1>6, <2>2 DEF Set, DecType
  <2>5. DecPart'
    BY <1>3, <2>1, <2>4, SamePicture DEF DecPart
  <2>6. OffFile(M)'
    <3>1. pos' >= Len(image) - cut
      BY <1>0, <1>3, <2>1
    <3> QED BY <1>3, <2>1, <2>5, <3>1 DEF OffFile
  <2>7. ReadingOK(M)'
    BY <1>3, <1>10, <2>2, <2>6 DEF ReadingOK
  <2> QED BY <1>3, <1>4, <1>5, <1>8, <2>3, <2>7, GoesOn
<1> QED BY <1>11, <1>12

(* The mark behind a row. *)
LEMMA SkipRowTrips == TripInv /\ SkipRowMark => TripInv'
<1> SUFFICES ASSUME TripInv, SkipRowMark PROVE TripInv'
  OBVIOUS
<1>1. /\ phase = "reading" /\ y < H
      /\ (pic.kind = "rle" /\ x >= W) \/ (pic.kind = "shadow" /\ ~(x < W /\ pos + 2 < Len(image)))
      /\ IF pos >= Len(image) THEN Ends("WRONG_FORMAT")
         ELSE /\ ff' = (ff /\ Data[pos + 1] = Mark)
              /\ pos' = pos + 1 /\ y' = y + 1 /\ x' = 0
              /\ UNCHANGED <<pic, phase, image, starts, cut, dec, code>>
  <2>1. /\ phase = "reading" /\ y < H
        /\ (pic.kind = "rle" /\ x >= W) \/ (pic.kind = "shadow" /\ ~(x < W /\ pos + 2 < Len(image)))
    BY DEF SkipRowMark, Reading, MoreShadow
  <2>2. IF pos >= Len(image) THEN Ends("WRONG_FORMAT")
        ELSE /\ ff' = (ff /\ Data[pos + 1] = Mark)
             /\ pos' = pos + 1 /\ y' = y + 1 /\ x' = 0
             /\ UNCHANGED <<pic, phase, image, starts, cut, dec, code>>
    BY Zenon DEF SkipRowMark
  <2> QED BY <2>1, <2>2, Zenon
<1>2. pic.kind # "player"
  BY <1>1
<1>3. /\ pic \in Pics /\ TypeOK /\ WrittenTrip /\ W \in Nat /\ H \in Nat
      /\ image \in Seq(Int) /\ Len(image) \in Nat /\ x \in 0..W /\ y \in 0..H
      /\ DataEnd = Len(image) - 1 /\ cut \in 0..Len(image) /\ pos \in -1..Len(image)
  BY <1>1, <1>2, FileTypes
<1>0. /\ Len(image) \in Nat /\ pos \in -1..Len(image) /\ cut \in 0..Len(image)
      /\ W \in Nat /\ x \in 0..W
  BY <1>3
<1>4. PICK M, R : Marks(image, M, DataEnd, 0, H) /\ RowMarks(image, M, R) /\ ReadingOK(M)
  BY <1>1, <1>3 DEF WrittenTrip
<1>5. <<pos, x, y>> \in M =>
        /\ x = W /\ pos \in Nat /\ pos < Len(image) /\ image[pos + 1] = Mark
        /\ <<pos + 1, 0, y + 1>> \in M
  <2> SUFFICES ASSUME <<pos, x, y>> \in M
               PROVE  /\ x = W /\ pos \in Nat /\ pos < Len(image) /\ image[pos + 1] = Mark
                      /\ <<pos + 1, 0, y + 1>> \in M
    OBVIOUS
  <2>1. DataEnd \in Nat /\ y # H
    BY <1>1, <1>3, <1>4 DEF Marks
  <2>2. Code(image, M, pos, x, y) /\ pos \in 0..DataEnd
    BY <1>3, <1>4, <2>1, MarkCodes
  <2>3. x = W
    <3> SUFFICES ASSUME x # W PROVE FALSE
      OBVIOUS
    <3>1. pic.kind = "shadow" /\ pos + 2 >= Len(image)
      BY <1>0, <1>1
    <3>2. ShadowCode(image, M, pos, x, y)
      BY <2>2, <3>1 DEF Code
    <3>3. pos + 2 \in 0..DataEnd
      BY <1>4, <3>2 DEF ShadowCode, Marks
    <3> QED BY <1>0, <1>3, <3>1, <3>3
  <2>4. RowEnd(image, M, pos, y)
    BY <2>2, <2>3 DEF Code
  <2>5. Len(EndMark) = 1
    BY <1>2 DEF EndMark
  <2>6. image[pos + 1] = Mark /\ <<pos + 1, 0, y + 1>> \in M
    BY <1>2, <2>4, <2>5 DEF RowEnd
  <2> QED BY <1>0, <1>3, <2>2, <2>3, <2>6
<1>6. CASE pos >= Len(image)
  <2>1. cut > 0
    <3>1. <<pos, x, y>> \notin M
      BY <1>0, <1>5, <1>6
    <3> QED BY <1>2, <1>4, <3>1 DEF ReadingOK, OnMark, OffFile
  <2> QED BY <1>1, <1>6, <2>1, GivesUp, <1>0
<1>7. CASE ~(pos >= Len(image))
  <2>1. /\ ff' = (ff /\ Data[pos + 1] = Mark)
        /\ pos' = pos + 1 /\ y' = y + 1 /\ x' = 0
        /\ UNCHANGED <<pic, phase, image, starts, cut, dec, code>>
    BY <1>1, <1>7
  <2>2. pos' \in -1..Len(image) /\ y' \in 0..H /\ x' \in 0..W /\ W' = W
    BY <1>0, <1>1, <1>3, <1>7, <2>1, SamePicture
  <2>3. DecType'
    BY <1>4, <2>1 DEF ReadingOK, DecType
  <2>4. CASE OnMark(M)
    <3>1. <<pos, x, y>> \in M
      BY <1>2, <2>4 DEF OnMark
    <3>2. DecIs'
      <4>1. Cell(x)' = Cell(x)
        <5>1. (y + 1) * W = y * W + W /\ y * W \in Nat
          BY <1>3, NextProduct
        <5>2. Cell(x)' = (y + 1) * W + 0 /\ Cell(x) = y * W + W
          BY <1>5, <2>1, <2>2, <3>1 DEF Cell
        <5> QED BY <1>3, <5>1, <5>2
      <4> QED BY <2>1, <2>4, <4>1, SamePicture DEF OnMark, DecIs
    <3>3. cut = 0 => ff'
      <4>1. pos + 1 \in 1..Len(image)
        BY <1>0, <1>5, <3>1
      <4>2. cut = 0 => Data[pos + 1] = image[pos + 1]
        BY <1>0, <1>3, <4>1, DataIs
      <4> QED BY <1>5, <2>1, <2>4, <3>1, <4>2 DEF OnMark
    <3>4. OnMark(M)'
      BY <1>5, <2>1, <3>1, <3>2, <3>3 DEF OnMark
    <3>5. ReadingOK(M)'
      BY <1>2, <2>1, <2>3, <3>4 DEF ReadingOK
    <3> QED BY <1>1, <1>4, <2>1, <2>2, <3>5, GoesOn
  <2>5. CASE OffFile(M)
    <3>1. cut > 0 /\ pos' >= Len(image) - cut
      BY <1>0, <2>1, <2>2, <2>5 DEF OffFile
    <3>2. DecPart'
      BY <2>1, <2>5, SamePicture DEF OffFile, DecPart
    <3>3. pic.kind = "rle" => <<pos', x', y'>> \in M
      <4>1. pic.kind = "rle" => <<pos, x, y>> \in M
        BY <1>0, <1>1, <2>5 DEF OffFile
      <4> QED BY <1>5, <2>1, <4>1
    <3>4. OffFile(M)'
      BY <2>1, <3>1, <3>2, <3>3 DEF OffFile
    <3>5. ReadingOK(M)'
      BY <1>2, <2>1, <2>3, <3>4 DEF ReadingOK
    <3> QED BY <1>1, <1>4, <2>1, <2>2, <3>5, GoesOn
  <2> QED BY <1>4, <2>4, <2>5 DEF ReadingOK
<1> QED BY <1>6, <1>7

(* A picture that is complete. *)
LEMMA AllDecoded ==
  ASSUME pic \in Pics, DecIs, DecType, x = 0, y = H
  PROVE  dec = Loaded
<1>1. W \in Nat /\ H \in Nat /\ DOMAIN pic.px = 0..(W * H - 1) /\ pic.px \in [DOMAIN pic.px -> Pixels(pic.kind)]
  BY PicType
<1>2. Cell(x) = W * H
  BY <1>1 DEF Cell
<1>3. \A k \in DOMAIN pic.px : k < Cell(x)
  BY <1>1, <1>2
<1>4. \A k \in DOMAIN pic.px : dec[k] = Loaded[k]
  BY <1>3 DEF DecIs
<1>5. CASE pic.kind = "shadow"
  <2> DEFINE g(k) == IF k \in Clears THEN Clear ELSE Gray
  <2>1. Loaded = [k \in DOMAIN pic.px |-> g(k)]
    BY <1>5 DEF Loaded
  <2> HIDE DEF g
  <2> QED BY <1>4, <2>1 DEF DecType
<1>6. CASE pic.kind # "shadow"
  <2>1. Loaded = pic.px
    BY <1>6 DEF Loaded
  <2> QED BY <1>1, <1>4, <2>1 DEF DecType
<1> QED BY <1>5, <1>6

(* The last mark, where loading ends. *)
LEMMA SkipImageTrips == TripInv /\ SkipImageMark => TripInv'
<1> SUFFICES ASSUME TripInv, SkipImageMark PROVE TripInv'
  OBVIOUS
<1>1. /\ phase = "reading" /\ y = H /\ pic.kind \in {"rle", "shadow"}
      /\ \/ pos + 1 # Len(image) /\ Ends("WRONG_FORMAT")
         \/ /\ pos + 1 = Len(image)
            /\ ff' = (ff /\ Data[pos + 1] = Mark) /\ pos' = pos + 1
            /\ phase' = "done" /\ code' = LastCode
            /\ UNCHANGED <<pic, x, y, image, starts, cut, dec>>
  BY Zenon DEF SkipImageMark, Reading
<1>2. pic.kind # "player"
  BY <1>1
<1>3. /\ pic \in Pics /\ TypeOK /\ WrittenTrip /\ W \in Nat /\ H \in Nat
      /\ image \in Seq(Int) /\ Len(image) \in Nat /\ x \in 0..W /\ y \in 0..H
      /\ DataEnd = Len(image) - 1 /\ cut \in 0..Len(image) /\ pos \in -1..Len(image)
      /\ Len(image) > 0
  BY <1>1, <1>2, FileTypes
<1>4. PICK M, R : Marks(image, M, DataEnd, 0, H) /\ RowMarks(image, M, R) /\ ReadingOK(M)
  BY <1>1, <1>3 DEF WrittenTrip
<1>5. <<pos, x, y>> \in M => pos + 1 = Len(image) /\ x = 0
  <2> SUFFICES ASSUME <<pos, x, y>> \in M PROVE pos + 1 = Len(image) /\ x = 0
    OBVIOUS
  <2>1. pos \in 0..DataEnd /\ x \in 0..W /\ y \in 0..H
    BY <1>4 DEF Marks
  <2>2. ~Code(image, M, pos, x, y)
    BY <1>1, <1>3 DEF Code
  <2>3. <<pos, x, y>> = <<DataEnd, 0, H>>
    BY <1>4, <2>1, <2>2 DEF Marks
  <2> QED BY <1>3, <2>3
<1>6. CASE pos + 1 # Len(image)
  <2>1. Ends("WRONG_FORMAT")
    BY <1>1, <1>6
  <2>2. cut > 0
    BY <1>2, <1>4, <1>5, <1>6 DEF ReadingOK, OnMark, OffFile
  <2> QED BY <1>1, <1>3, <2>1, <2>2, GivesUp
<1>7. CASE pos + 1 = Len(image)
  <2>1. /\ ff' = (ff /\ Data[pos + 1] = Mark) /\ pos' = pos + 1
        /\ phase' = "done" /\ code' = LastCode
        /\ UNCHANGED <<pic, x, y, image, starts, cut, dec>>
    BY Zenon, <1>1, <1>7
  <2>2. W' = W /\ H' = H /\ BufSize' = BufSize /\ Loaded' = Loaded
    BY <2>1, SamePicture
  <2>3. LastCode \in {"NONE", "UNEXPECTED_EOF"}
    BY DEF LastCode
  <2>4. TypeOK'
    <3>1. pos' \in -1..Len(image') /\ DecType
      BY <1>3, <1>4, <1>7, <2>1 DEF ReadingOK
    <3> QED BY <1>3, <2>1, <2>2, <2>3, <3>1 DEF TypeOK, DecType
  <2>5. RoundTrip'
    <3> SUFFICES ASSUME cut = 0 PROVE RoundTrip'
      BY <2>1 DEF RoundTrip
    <3>1. DecIs /\ ff /\ <<pos, x, y>> \in M /\ DecType
      BY <1>2, <1>4 DEF ReadingOK, OnMark, OffFile
    <3>2. dec = Loaded
      BY <1>1, <1>3, <1>5, <3>1, AllDecoded
    <3>3. ff'
      <4>1. pos + 1 \in 1..Len(image)
        BY <1>3, <1>7
      <4>2. Data[pos + 1] = image[pos + 1]
        BY <1>3, <4>1, DataIs
      <4>3. image[pos + 1] = Mark
        BY <1>2, <1>3, <1>7 DEF WrittenTrip
      <4> QED BY <2>1, <3>1, <4>2, <4>3
    <3>4. LastCode = "NONE"
      BY DEF LastCode
    <3> QED BY <2>1, <2>2, <3>2, <3>3, <3>4 DEF RoundTrip
  <2>6. CutIsNoticed'
    <3> SUFFICES ASSUME cut > 0, LastCode = "NONE" PROVE CutIsNoticed'
      BY <2>1 DEF CutIsNoticed
    <3>1. pic.kind = "shadow"
      BY <1>1 DEF LastCode
    <3>2. DecPart /\ DecType
      BY <1>2, <1>4, PartOfPicture DEF ReadingOK, OnMark, OffFile
    <3>3. DOMAIN dec = DOMAIN pic.px
      BY <3>2 DEF DecType
    <3> QED BY <2>1, <2>2, <3>1, <3>2, <3>3 DEF CutIsNoticed, DecPart
  <2> QED BY <1>3, <2>1, <2>4, <2>5, <2>6 DEF TripInv
<1> QED BY <1>6, <1>7

-------------------------------------------------------------------------------
(* The loader of player bitmaps. *)

(* What a player file is while it is loaded. *)
LEMMA PlayerFile ==
  ASSUME TripInv, phase = "reading", pic.kind = "player"
  PROVE  /\ pic \in Pics /\ W \in Nat /\ H \in Nat /\ x \in 0..W /\ y \in 0..H
         /\ image \in Seq(Int) /\ Len(image) \in Nat /\ DataEnd = Len(image) /\ cut = 0
         /\ pos \in -1..Len(image) /\ Len(image) < AddrMod /\ Len(starts) = H
         /\ DOMAIN pic.px = 0..(W * H - 1) /\ DecType /\ DecIs /\ ff
         /\ \E M, R : /\ Marks(image, M, Len(image), 0, H) /\ RowMarks(image, M, R)
                      /\ ReadingOK(M) /\ ((pos = -1 /\ x = 0) \/ <<pos, x, y>> \in M)
<1>1. /\ pic \in Pics /\ W \in Nat /\ H \in Nat /\ x \in 0..W /\ y \in 0..H /\ WrittenTrip
      /\ image \in Seq(Int) /\ Len(image) \in Nat /\ DataEnd = Len(image)
      /\ pos \in -1..Len(image) /\ DOMAIN pic.px = 0..(W * H - 1)
  BY FileTypes
<1>2. Len(image) < AddrMod
  BY DEF TripInv
<1>3. PICK M, R : Marks(image, M, DataEnd, 0, H) /\ RowMarks(image, M, R) /\ ReadingOK(M)
  BY <1>1 DEF WrittenTrip
<1>4. cut = 0 /\ OnMark(M) /\ DecType
  BY <1>3 DEF ReadingOK
<1>5. DecIs /\ ff /\ ((pos = -1 /\ x = 0) \/ <<pos, x, y>> \in M)
  BY <1>4 DEF OnMark
<1>6. Len(starts) = H
  BY <1>1 DEF WrittenTrip
<1> QED BY <1>1, <1>2, <1>3, <1>4, <1>5, <1>6

(* The table leads to the row, or nowhere. *)
LEMMA SeekTrips == TripInv /\ SeekPlayerRow => TripInv'
<1> SUFFICES ASSUME TripInv, SeekPlayerRow PROVE TripInv'
  OBVIOUS
<1>1. PICK p : p = starts[y + 1] - 2 * H
  OBVIOUS
<1>2. /\ phase = "reading" /\ pic.kind = "player" /\ y < H /\ pos = -1
      /\ IF p < 0 \/ p > Len(image) THEN Ends("UNEXPECTED_EOF")
         ELSE pos' = p /\ UNCHANGED <<pic, phase, x, y, image, starts, cut, dec, ff, code>>
  BY <1>1 DEF SeekPlayerRow, Reading
<1>3. /\ pic \in Pics /\ W \in Nat /\ H \in Nat /\ x \in 0..W /\ y \in 0..H
      /\ image \in Seq(Int) /\ Len(image) \in Nat /\ DataEnd = Len(image) /\ cut = 0
      /\ Len(image) < AddrMod /\ Len(starts) = H /\ DecType /\ DecIs /\ ff
  BY <1>2, PlayerFile
<1>4. PICK M, R : /\ Marks(image, M, Len(image), 0, H) /\ RowMarks(image, M, R) /\ ReadingOK(M)
                  /\ (pos = -1 /\ x = 0) \/ <<pos, x, y>> \in M
  BY <1>2, PlayerFile
<1>5. x = 0
  BY <1>2, <1>4 DEF Marks
<1>6. PICK q : q = R[y + 1]
  OBVIOUS
<1>7. <<q, 0, y>> \in M /\ starts[y + 1] = (q + 2 * H) % AddrMod /\ q \in 0..Len(image)
  <2>1. y + 1 \in 1..Len(R) /\ (y + 1) - 1 = y
    BY <1>2, <1>3, <1>4 DEF RowMarks
  <2>2. <<q, 0, y>> \in M /\ starts[y + 1] = Start(q)
    BY <1>4, <1>6, <2>1 DEF RowMarks
  <2>3. Start(q) = (q + 2 * H) % AddrMod
    BY <1>2 DEF Start
  <2> QED BY <1>4, <2>2, <2>3 DEF Marks
<1>8. AddrMod \in Nat /\ AddrMod > 0 /\ q + 2 * H \in Nat /\ p \in Int
  <2>1. AddrMod \in Nat /\ AddrMod > 0 /\ q + 2 * H \in Nat
    BY <1>3, <1>7, RunLengthAssumption
  <2>2. starts[y + 1] \in Int
    BY <1>7, <2>1, Remainders
  <2> QED BY <1>1, <1>3, <2>1, <2>2
<1>9. p = q \/ (p < 0 /\ ~Addressable)
  <2>1. CASE q + 2 * H < AddrMod
    <3>1. starts[y + 1] = q + 2 * H
      BY <1>7, <1>8, <2>1, Remainders
    <3> QED BY <1>1, <1>3, <1>7, <3>1
  <2>2. CASE q + 2 * H >= AddrMod
    <3>1. starts[y + 1] =< q + 2 * H - AddrMod /\ starts[y + 1] \in Int
      <4>1. PICK a : a = q + 2 * H
        OBVIOUS
      <4>2. a \in Nat /\ a >= AddrMod
        BY <1>8, <2>2, <4>1
      <4>3. a % AddrMod =< a - AddrMod /\ a % AddrMod \in Int
        BY <1>8, <4>2, Remainders
      <4>4. PICK s : s = starts[y + 1]
        OBVIOUS
      <4>5. s = a % AddrMod
        BY <1>7, <4>1, <4>4
      <4>6. s =< a - AddrMod /\ s \in Int
        BY <4>3, <4>5
      <4>7. q \in Int /\ H \in Int /\ AddrMod \in Int
        BY <1>3, <1>7, <1>8
      <4> QED BY <4>1, <4>4, <4>6, <4>7
    <3>2. p < 0
      BY <1>1, <1>3, <1>7, <1>8, <3>1
    <3>3. ~(Len(image) + 2 * H < AddrMod)
      BY <1>3, <1>7, <1>8, <2>2
    <3> QED BY <1>2, <3>2, <3>3 DEF Addressable
  <2> QED BY <1>8, <2>1, <2>2
<1>10. CASE p < 0
  <2>1. ~Addressable
    BY <1>7, <1>9, <1>10
  <2> QED BY <1>2, <1>10, <2>1, GivesUp
<1>11. CASE ~(p < 0)
  <2>1. p = q /\ ~(p > Len(image))
    BY <1>3, <1>7, <1>8, <1>9, <1>11
  <2>2. pos' = q /\ UNCHANGED <<pic, phase, x, y, image, starts, cut, dec, ff, code>>
    BY <1>2, <1>11, <2>1
  <2>3. DecIs' /\ DecType'
    BY <1>3, <2>2, SamePicture DEF DecIs, DecType, Cell
  <2>4. OnMark(M)'
    BY <1>3, <1>5, <1>7, <2>2, <2>3 DEF OnMark
  <2>5. ReadingOK(M)'
    BY <1>3, <2>2, <2>3, <2>4 DEF ReadingOK
  <2>6. x' \in 0..W /\ y' \in 0..H /\ pos' \in -1..Len(image)
    BY <1>3, <1>7, <2>2
  <2> QED BY <1>2, <1>3, <1>4, <2>2, <2>5, <2>6, GoesOn
<1> QED BY <1>10, <1>11

(* A run of a player bitmap. *)
LEMMA ReadPlayerTrips == TripInv /\ ReadPlayerRun => TripInv'
<1> SUFFICES ASSUME TripInv, ReadPlayerRun PROVE TripInv'
  OBVIOUS
<1> DEFINE q == Byte \div 4
           pixel(class, i) == CASE class = 0 -> Clear
                                [] class = 1 -> Data[pos + 2 + i]
                                [] class = 2 -> Player(Data[pos + 2])
                                [] OTHER     -> Data[pos + 2]
<1>1. PICK class, n, v : /\ class = Data[pos + 1] \div q
                         /\ n = Data[pos + 1] % q
                         /\ v = [i \in 0..(n - 1) |-> pixel(class, i)]
  OBVIOUS
<1>2. /\ phase = "reading" /\ pic.kind = "player" /\ y < H /\ pos >= 0 /\ x < W
      /\ Set(n, v) /\ x' = x + n
      /\ pos' = pos + (CASE class = 0 -> 1 [] class = 1 -> n + 1 [] OTHER -> 2)
      /\ UNCHANGED <<pic, phase, y, image, starts, cut, ff, code>>
  BY <1>1 DEF ReadPlayerRun, Reading
<1>3. /\ pic \in Pics /\ W \in Nat /\ H \in Nat /\ x \in 0..W /\ y \in 0..H
      /\ image \in Seq(Int) /\ Len(image) \in Nat /\ DataEnd = Len(image) /\ cut = 0
      /\ pos \in -1..Len(image) /\ DOMAIN pic.px = 0..(W * H - 1) /\ DecType /\ DecIs /\ ff
  BY <1>2, PlayerFile
<1>4. PICK M, R : /\ Marks(image, M, Len(image), 0, H) /\ RowMarks(image, M, R) /\ ReadingOK(M)
                  /\ (pos = -1 /\ x = 0) \/ <<pos, x, y>> \in M
  BY <1>2, PlayerFile
<1>5. PlayerCode(image, M, pos, x, y) /\ pos \in Nat
  <2>1. <<pos, x, y>> \in M /\ y # H /\ x # W
    BY <1>2, <1>3, <1>4
  <2>2. Code(image, M, pos, x, y) /\ pos \in 0..Len(image)
    BY <1>3, <1>4, <2>1, MarkCodes
  <2> QED BY <1>2, <2>1, <2>2 DEF Code
<1>6. PICK c : c = Pixel(x, y)
  OBVIOUS
<1>7. PICK n0 \in 1..MaxRun :
        /\ x + n0 =< W
        /\ <<pos + Len(PlayerRunBytes(n0, c)), x + n0, y>> \in M
        /\ \A k \in 0..(n0 - 1) : Pixel(x + k, y) = c
        /\ \A k \in 1..Len(PlayerRunBytes(n0, c)) : image[pos + k] = PlayerRunBytes(n0, c)[k]
  BY <1>5, <1>6 DEF PlayerCode
<1>8. PICK b : b = PlayerRunBytes(n0, c)
  OBVIOUS
<1>9. /\ q \in Nat /\ Byte = 4 * q /\ Byte \div 2 = 2 * q /\ n0 \in 0..(q - 1) /\ n0 > 0
      /\ n0 \div q = 0 /\ n0 % q = n0
      /\ (n0 + Byte \div 2) \div q = 2 /\ (n0 + Byte \div 2) % q = n0
      /\ (n0 + 3 * q) \div q = 3 /\ (n0 + 3 * q) % q = n0
  <2>1. MaxRun \in 1..(q - 1) /\ q \in Nat
    BY RunLengthAssumption, Quarters
  <2>2. n0 \in 0..(q - 1) /\ n0 > 0
    BY <2>1
  <2> QED BY <2>1, <2>2, Quarters
<1>10. /\ b = IF c >= Byte THEN <<n0 + Byte \div 2, c - Byte>>
              ELSE IF c = Clear THEN <<n0>> ELSE <<n0 + 3 * q, c>>
       /\ Len(b) \in 1..2
  BY <1>8 DEF PlayerRunBytes
<1> HIDE DEF q
<1>11. \A k \in 1..Len(b) : pos + k \in 1..Len(image) /\ Data[pos + k] = b[k]
  <2>1. <<pos + Len(b), x + n0, y>> \in M /\ \A k \in 1..Len(b) : image[pos + k] = b[k]
    BY <1>7, <1>8
  <2>2. pos + Len(b) =< Len(image)
    BY <1>4, <2>1 DEF Marks
  <2>3. \A k \in 1..Len(b) : pos + k \in 1..Len(image)
    BY <1>3, <1>5, <1>10, <2>2
  <2>4. \A i \in 1..Len(image) : Data[i] = image[i]
    BY <1>3, DataIs
  <2> QED BY <2>1, <2>3, <2>4
<1>12. c \in Int /\ Byte \in Int
  <2>1. x \in 0..(W - 1) /\ y \in 0..(H - 1)
    BY <1>2, <1>3
  <2>2. Cell(x) \in DOMAIN pic.px
    BY <1>3, <2>1, CellInside
  <2>3. pic.px \in [DOMAIN pic.px -> 0..(2 * Byte - 2)]
    BY <1>2, <1>3, PicType DEF Pixels
  <2> QED BY <1>6, <2>2, <2>3, RunLengthAssumption DEF Pixel, Cell
<1>13. n = n0 /\ pos' = pos + Len(b) /\ \A i \in 0..(n - 1) : pixel(class, i) = c
  <2>1. Data[pos + 1] = b[1]
    BY <1>10, <1>11
  <2>2. CASE c >= Byte
    <3>1. b = <<n0 + Byte \div 2, c - Byte>> /\ Len(b) = 2
      BY <1>10, <2>2
    <3>2. Data[pos + 1] = n0 + Byte \div 2 /\ Data[pos + 2] = c - Byte
      BY <1>11, <3>1
    <3>3. class = 2 /\ n = n0
      BY <1>1, <1>9, <3>2 DEF q
    <3>4. pixel(class, n) = Player(c - Byte) /\ \A i : pixel(class, i) = Player(c - Byte)
      BY <3>2, <3>3
    <3>5. Player(c - Byte) = c
      BY <1>12 DEF Player
    <3> QED BY <1>2, <3>1, <3>3, <3>4, <3>5
  <2>3. CASE ~(c >= Byte) /\ c = Clear
    <3>1. b = <<n0>> /\ Len(b) = 1
      BY <1>10, <2>3
    <3>2. Data[pos + 1] = n0
      BY <2>1, <3>1
    <3>3. class = 0 /\ n = n0
      BY <1>1, <1>9, <3>2 DEF q
    <3> QED BY <1>2, <2>3, <3>1, <3>3
  <2>4. CASE ~(c >= Byte) /\ c # Clear
    <3>1. b = <<n0 + 3 * q, c>> /\ Len(b) = 2
      BY <1>10, <2>4
    <3>2. Data[pos + 1] = n0 + 3 * q /\ Data[pos + 2] = c
      BY <1>11, <3>1
    <3>3. class = 3 /\ n = n0
      BY <1>1, <1>9, <3>2 DEF q
    <3> QED BY <1>2, <3>1, <3>2, <3>3
  <2> QED BY <2>2, <2>3, <2>4
<1> HIDE DEF pixel
<1>14. <<pos', x', y>> \in M /\ x' \in 0..W /\ n \in Nat /\ pos' \in -1..Len(image)
  <2>1. <<pos', x', y>> \in M
    BY <1>2, <1>7, <1>8, <1>13
  <2>2. pos' \in 0..Len(image) /\ x' \in 0..W
    BY <1>4, <2>1 DEF Marks
  <2> QED BY <1>3, <1>9, <1>13, <2>1, <2>2
<1>15. \A k \in 0..(n - 1) : v[k] = Loaded[Cell(x) + k] /\ v[k] \in Pixels(pic.kind)
  <2> SUFFICES ASSUME NEW k \in 0..(n - 1)
               PROVE  v[k] = Loaded[Cell(x) + k] /\ v[k] \in Pixels(pic.kind)
    OBVIOUS
  <2>1. v[k] = c
    BY <1>1, <1>13
  <2>2. x + k \in 0..(W - 1) /\ y \in 0..(H - 1) /\ k \in Int /\ x \in Int /\ y \in Nat
    <3>1. x + n =< W /\ n \in Nat
      BY <1>7, <1>13, <1>14
    <3>2. k \in Int /\ x \in Nat /\ y \in 0..(H - 1) /\ W \in Nat
      BY <1>2, <1>3
    <3>3. k >= 0 /\ k < n
      BY <3>1
    <3> QED BY <3>1, <3>2, <3>3
  <2>3. Cell(x + k) = Cell(x) + k /\ Cell(x + k) \in DOMAIN pic.px
    BY <1>3, <2>2, CellPlus, CellInside
  <2>4. Pixel(x + k, y) = c
    BY <1>7, <1>13
  <2>5. pic.px[Cell(x + k)] = c
    BY <2>4 DEF Pixel, Cell
  <2>6. pic.px \in [DOMAIN pic.px -> Pixels(pic.kind)]
    BY <1>3, PicType
  <2>7. Loaded = pic.px
    BY <1>2 DEF Loaded
  <2> QED BY <2>1, <2>3, <2>5, <2>6, <2>7
<1>16. DecType'
  <2>1. y * W \in Nat
    BY <1>3
  <2>2. Cell(x) \in Int /\ DOMAIN pic.px \subseteq Int /\ n \in Int
    BY <1>3, <1>14, <2>1 DEF Cell
  <2> QED BY <1>2, <1>3, <1>15, <2>2, SetKeepsType
<1>17. DecIs'
  <2>1. x \in Nat /\ y \in Nat /\ 0 \in Nat /\ x' = x + n + 0
    BY <1>2, <1>3, <1>14
  <2>2. \A k \in 0..(0 - 1) : Loaded[Cell(x) + n + k] = Clear
    OBVIOUS
  <2>3. pic' = pic /\ y' = y
    BY <1>2
  <2> QED BY <1>2, <1>3, <1>14, <1>15, <2>1, <2>2, <2>3, RunDecoded
<1>18. OnMark(M)'
  BY <1>2, <1>3, <1>14, <1>17 DEF OnMark
<1>19. ReadingOK(M)'
  BY <1>2, <1>3, <1>16, <1>18 DEF ReadingOK
<1>20. y' \in 0..H
  BY <1>2, <1>3
<1> QED BY <1>2, <1>3, <1>4, <1>14, <1>19, <1>20, GoesOn

LEMMA NextRowTrips == TripInv /\ NextPlayerRow => TripInv'
<1> SUFFICES ASSUME TripInv, NextPlayerRow PROVE TripInv'
  OBVIOUS
<1>1. /\ phase = "reading" /\ pic.kind = "player" /\ y < H /\ pos >= 0 /\ x >= W
      /\ y' = y + 1 /\ x' = 0 /\ pos' = -1
      /\ UNCHANGED <<pic, phase, image, starts, cut, dec, ff, code>>
  BY DEF NextPlayerRow, Reading
<1>2. /\ pic \in Pics /\ W \in Nat /\ H \in Nat /\ x \in 0..W /\ y \in 0..H
      /\ Len(image) \in Nat /\ DataEnd = Len(image) /\ cut = 0 /\ DecType /\ DecIs /\ ff
  BY <1>1, PlayerFile
<1>3. PICK M, R : Marks(image, M, Len(image), 0, H) /\ RowMarks(image, M, R) /\ ReadingOK(M)
  BY <1>1, PlayerFile
<1>4. Cell(x)' = Cell(x)
  <2>1. (y + 1) * W = y * W + W /\ y * W \in Nat /\ W' = W /\ x = W
    BY <1>1, <1>2, NextProduct, SamePicture
  <2>2. Cell(x)' = (y + 1) * W + 0 /\ Cell(x) = y * W + W
    BY <1>1, <2>1 DEF Cell
  <2> QED BY <1>2, <2>1, <2>2
<1>5. DecIs' /\ DecType'
  BY <1>1, <1>2, <1>4, SamePicture DEF DecIs, DecType
<1>6. OnMark(M)'
  BY <1>1, <1>2, <1>5 DEF OnMark
<1>7. ReadingOK(M)'
  BY <1>1, <1>2, <1>5, <1>6 DEF ReadingOK
<1>8. x' \in 0..W /\ y' \in 0..H /\ pos' \in -1..Len(image)
  BY <1>1, <1>2
<1> QED BY <1>1, <1>2, <1>3, <1>7, <1>8, GoesOn

LEMMA EndPlayerTrips == TripInv /\ EndPlayer => TripInv'
<1> SUFFICES ASSUME TripInv, EndPlayer PROVE TripInv'
  OBVIOUS
<1>1. /\ phase = "reading" /\ pic.kind = "player" /\ y = H /\ phase' = "done" /\ code' = "NONE"
      /\ UNCHANGED <<pic, x, y, image, starts, cut, pos, dec, ff>>
  BY DEF EndPlayer, Reading, Ends
<1>2. /\ pic \in Pics /\ W \in Nat /\ H \in Nat /\ DataEnd = Len(image) /\ cut = 0
      /\ DecType /\ DecIs /\ ff
  BY <1>1, PlayerFile
<1>3. PICK M, R : /\ Marks(image, M, Len(image), 0, H)
                  /\ (pos = -1 /\ x = 0) \/ <<pos, x, y>> \in M
  BY <1>1, PlayerFile
<1>4. x = 0
  <2> SUFFICES ASSUME <<pos, x, y>> \in M PROVE x = 0
    BY <1>3
  <2>1. pos \in 0..Len(image) /\ x \in 0..W /\ y \in 0..H
    BY <1>3 DEF Marks
  <2>2. ~Code(image, M, pos, x, y)
    BY <1>1, <1>2 DEF Code
  <2>3. <<pos, x, y>> = <<Len(image), 0, H>>
    BY <1>3, <2>1, <2>2 DEF Marks
  <2> QED BY <2>3
<1>5. dec = Loaded
  BY <1>1, <1>2, <1>4, AllDecoded
<1>6. RoundTrip' /\ CutIsNoticed'
  BY <1>1, <1>2, <1>5, SamePicture DEF RoundTrip, CutIsNoticed
<1>7. TypeOK'
  <2>1. W' = W /\ H' = H /\ BufSize' = BufSize /\ TypeOK
    BY <1>1, SamePicture DEF TripInv
  <2> QED BY <1>1, <2>1 DEF TypeOK
<1> QED BY <1>1, <1>2, <1>6, <1>7 DEF TripInv

-------------------------------------------------------------------------------
LEMMA StutterTrips == TripInv /\ UNCHANGED vars => TripInv'
<1> SUFFICES ASSUME TripInv, UNCHANGED vars PROVE TripInv'
  OBVIOUS
<1>1. UNCHANGED <<pic, phase, x, y, image, starts, cut, pos, dec, ff, code>>
  BY DEF vars
<1>2. /\ W' = W /\ H' = H /\ BufSize' = BufSize /\ EndMark' = EndMark /\ Loaded' = Loaded
      /\ \A img, M, e, c, r : Marks(img, M, e, c, r)' <=> Marks(img, M, e, c, r)
      /\ \A q : Start(q)' = Start(q)
  BY <1>1, SamePicture
<1>3. TypeOK' /\ RoundTrip' = RoundTrip /\ CutIsNoticed' = CutIsNoticed
  BY <1>1, <1>2 DEF TripInv, TypeOK, RoundTrip, CutIsNoticed, Addressable
<1>4. \A img, M, R : RowMarks(img, M, R)' <=> RowMarks(img, M, R)
  BY <1>1, <1>2 DEF RowMarks
<1>5. WritingTrip => WritingTrip'
  BY <1>1, <1>2, <1>4 DEF WritingTrip
<1>6. \A M : ReadingOK(M) => ReadingOK(M)'
  BY <1>1, <1>2 DEF ReadingOK, OnMark, OffFile, DecIs, DecPart, DecType, Cell
<1>7. WrittenTrip => WrittenTrip'
  BY <1>1, <1>2, <1>4, <1>6 DEF WrittenTrip, DataEnd
<1> QED BY <1>1, <1>3, <1>5, <1>7 DEF TripInv

LEMMA StepTrips == TripInv /\ [Next]_vars => TripInv'
<1> SUFFICES ASSUME TripInv, [Next]_vars PROVE TripInv'
  OBVIOUS
<1>1. CASE WriteRleRun
  BY <1>1, RleRunTrips
<1>2. CASE WriteShadowRun
  BY <1>2, ShadowRunTrips
<1>3. CASE WritePlayerRun
  BY <1>3, PlayerRunTrips
<1>4. CASE EndRow
  BY <1>4, RowTrips
<1>5. CASE EndImage
  BY <1>5, ImageTrips
<1>6. CASE \E c \in 0..Len(image) : Load(c)
  BY <1>6, LoadTrips
<1>7. CASE ReadRleRun
  BY <1>7, ReadRleTrips
<1>8. CASE ReadShadowRun
  BY <1>8, ReadShadowTrips
<1>9. CASE SkipRowMark
  BY <1>9, SkipRowTrips
<1>10. CASE SkipImageMark
  BY <1>10, SkipImageTrips
<1>11. CASE SeekPlayerRow
  BY <1>11, SeekTrips
<1>12. CASE ReadPlayerRun
  BY <1>12, ReadPlayerTrips
<1>13. CASE NextPlayerRow
  BY <1>13, NextRowTrips
<1>14. CASE EndPlayer
  BY <1>14, EndPlayerTrips
<1>15. CASE UNCHANGED vars
  BY <1>15, StutterTrips
<1> QED
  BY <1>1, <1>2, <1>3, <1>4, <1>5, <1>6, <1>7, <1>8, <1>9, <1>10, <1>11, <1>12, <1>13,
     <1>14, <1>15 DEF Next

(* The table of a written file, read from its marks. *)
LEMMA TripStartsFindRows == TripInv => StartsFindRows
<1> SUFFICES ASSUME TripInv, phase = "written", pic.kind # "player", Len(image) + 2 * H < AddrMod
             PROVE  /\ Len(starts) = H
                    /\ \A r \in 1..H :
                         LET p == starts[r] - 2 * H
                         IN IF r = 1 THEN p = 0
                            ELSE p \in 1..(Len(image) - 1) /\ image[p] = Mark /\ starts[r] > starts[r - 1]
  BY DEF StartsFindRows
<1>1. /\ W \in Nat /\ H \in Nat /\ WrittenTrip /\ image \in Seq(Int) /\ Len(image) \in Nat
      /\ DataEnd = Len(image) - 1
  BY FileTypes
<1>2. PICK M, R : Marks(image, M, DataEnd, 0, H) /\ RowMarks(image, M, R)
  BY <1>1 DEF WrittenTrip
<1>3. Len(starts) = H /\ Len(R) = H
  BY <1>1, <1>2 DEF WrittenTrip, RowMarks
<1>4. ASSUME NEW r \in 1..H PROVE R[r] \in 0..(Len(image) - 1) /\ starts[r] = R[r] + 2 * H
  <2>1. <<R[r], 0, r - 1>> \in M /\ starts[r] = Start(R[r])
    BY <1>2, <1>3 DEF RowMarks
  <2>2. R[r] \in 0..(Len(image) - 1)
    BY <1>1, <1>2, <2>1 DEF Marks
  <2>3. PICK a : a = R[r] + 2 * H
    OBVIOUS
  <2>4. AddrMod \in Nat /\ AddrMod > 0
    BY RunLengthAssumption
  <2>5. a \in Nat /\ a < AddrMod
    <3>1. PICK p : p = R[r]
      OBVIOUS
    <3>2. p \in Nat /\ p =< Len(image) - 1 /\ a = p + 2 * H
      BY <1>1, <2>2, <2>3, <3>1
    <3> QED BY <1>1, <2>4, <3>2
  <2>6. a % AddrMod = a
    BY <2>4, <2>5, Remainders
  <2>7. Start(R[r]) = a
    BY <2>3, <2>4, <2>5, <2>6 DEF Start
  <2> QED BY <2>1, <2>2, <2>3, <2>7
<1> SUFFICES ASSUME NEW r \in 1..H
             PROVE  IF r = 1 THEN starts[r] - 2 * H = 0
                    ELSE /\ starts[r] - 2 * H \in 1..(Len(image) - 1)
                         /\ image[starts[r] - 2 * H] = Mark /\ starts[r] > starts[r - 1]
  BY <1>3
<1>5. PICK p : p = R[r]
  OBVIOUS
<1>6. starts[r] = p + 2 * H /\ p \in 0..(Len(image) - 1)
  BY <1>4, <1>5
<1>7. starts[r] - 2 * H = p
  BY <1>1, <1>6
<1>8. CASE r = 1
  <2>1. p = 0
    BY <1>2, <1>3, <1>5, <1>8 DEF RowMarks
  <2> QED BY <1>7, <1>8, <2>1
<1>9. CASE r # 1
  <2>1. r > 1 /\ r - 1 \in 1..H
    BY <1>1, <1>9
  <2>2. R[r - 1] < p /\ image[p] = Mark
    BY <1>2, <1>3, <1>5, <2>1 DEF RowMarks
  <2>3. starts[r - 1] = R[r - 1] + 2 * H /\ R[r - 1] \in 0..(Len(image) - 1)
    BY <1>4, <2>1
  <2>4. p \in 1..(Len(image) - 1) /\ starts[r] > starts[r - 1]
    BY <1>1, <1>6, <2>2, <2>3
  <2> QED BY <1>7, <1>9, <2>2, <2>4
<1> QED BY <1>8, <1>9

(* The writers and the loaders keep inside the picture, the buffer and the *)
(* data, for every picture and every cut of its file.                      *)
THEOREM RunLengthTypes == Spec => []TypeOK
<1>1. TripInv => TypeOK
  BY DEF TripInv
<1> QED BY <1>1, InitTrips, StepTrips, PTL DEF Spec

(* What one of the three writers wrote is loaded as it was, for every      *)
(* picture whose file the 16 bit of its addresses can describe.            *)
THEOREM RunLengthRoundTrip == Spec => []RoundTrip
<1>1. TripInv => RoundTrip
  BY DEF TripInv, RoundTrip
<1> QED BY <1>1, InitTrips, StepTrips, PTL DEF Spec

(* Of a file that was cut, wherever that was, the loaders of RLE and       *)
(* player bitmaps return an error; that of shadows has some of the pixels. *)
THEOREM RunLengthCutIsNoticed == Spec => []CutIsNoticed
<1>1. TripInv => CutIsNoticed
  BY DEF TripInv, CutIsNoticed
<1> QED BY <1>1, InitTrips, StepTrips, PTL DEF Spec

(* The table of rows leads to the rows, in rising order and each behind an *)
(* end mark, for every RLE and shadow picture with addresses that fit.     *)
THEOREM RunLengthStartsFindRows == Spec => []StartsFindRows
<1> QED BY TripStartsFindRows, InitTrips, StepTrips, PTL DEF Spec
===============================================================================
