----------------------------- MODULE BitmapProofs -----------------------------
(***************************************************************************)
(* The layers of a bitmap agree after every sequence of calls, for every   *)
(* palette size, set of palettes, buffers, files and extents.              *)
(***************************************************************************)
EXTENDS Bitmap, NatSetLemmas

(* lookup returns an index of the palette or fails. *)
LEMMA LookupType ==
  ASSUME NEW p \in Palette, NEW c
  PROVE  Lookup(p, c) \in Idx \cup {NotFound}
<1> DEFINE opaque == {k \in Idx : p.clr[k] = c /\ ~IsTransparent(p, k)}
<1>1. opaque # {} => Min(opaque) \in opaque
  BY MinOfNats DEF Idx
<1>2. p.t \in Idx
  BY DEF Palette
<1> QED BY <1>1, <1>2 DEF Lookup

(* The index of a colour is an index of the palette. *)
LEMMA ToIdxType ==
  ASSUME NEW p \in Palette, NEW c
  PROVE  ToIdx(p, c) \in Idx \cup {NotFound}
  BY LookupType DEF ToIdx, Palette

(* The colour of an index is a colour. *)
LEMMA ToBGRAType ==
  ASSUME NEW p \in Palette, NEW k \in Idx
  PROVE  ToBGRA(p, k) \in BGRA
  BY DEF ToBGRA, BGRA, Palette

(* The mark of a pixel without player colour is an index. *)
LEMMA NoPlayerType == NoPlayer \in Idx
  BY BitmapAssumption DEF NoPlayer, Idx

(* A row-major index of a cell lies in the buffer. *)
LEMMA CellIndex ==
  ASSUME NEW w \in Nat, NEW h \in Nat, NEW x \in Nat, NEW y \in Nat, x < w, y < h
  PROVE  y * w + x \in 0..(w * h - 1)
<1>1. (y + 1) * w =< h * w
  BY SMT
<1>2. (y + 1) * w = y * w + w
  BY SMT
<1>3. h * w = w * h /\ y * w \in Nat
  BY SMT
<1> QED BY <1>1, <1>2, <1>3

(* An empty layer of any kind. *)
LEMMA EmptyLayer == \A S : Fill(0, 0) \in [0..(0 * 0 - 1) -> S] /\ Fill(0, 0) \in [0..(0 - 1) -> S]
<1>1. 0 * 0 = 0 /\ 0..(0 - 1) = {}
  BY SMT
<1> QED BY <1>1 DEF Fill

(* A bitmap whose layers need not agree: what init needs to rebuild one.   *)
Shape(i) == i \in [player : BOOLEAN, w : {i.w}, h : {i.h}, px : {i.px}, fmt : {i.fmt},
                   pal : Palette \cup {NoPal}, tex : {i.tex}]

(* A consistent bitmap is of the shape the other lemmas take. *)
LEMMA ImgShape ==
  ASSUME NEW i, ImgOK(i)
  PROVE  Shape(i)
  BY DEF ImgOK, Shape

(* A bitmap with all of its layers replaced: what a caller of this lemma   *)
(* has to show of the new layers.                                          *)
LEMMA RebuiltOK ==
  ASSUME NEW i, Shape(i), NEW w \in Nat, NEW h \in Nat, w = 0 <=> h = 0,
         NEW fmt \in Formats, fmt = "Paletted" => i.pal # NoPal,
         NEW px \in [0..(w * h - 1) -> PixelsOf(fmt)],
         NEW tex \in [0..((IF i.player THEN w * h ELSE 0) - 1) -> Idx]
  PROVE  ImgOK([i EXCEPT !.w = w, !.h = h, !.fmt = fmt, !.px = px, !.tex = tex])
<1> DEFINE r == [i EXCEPT !.w = w, !.h = h, !.fmt = fmt, !.px = px, !.tex = tex]
<1>1. /\ r.player = i.player /\ r.w = w /\ r.h = h /\ r.px = px
      /\ r.fmt = fmt /\ r.pal = i.pal /\ r.tex = tex
  BY DEF Shape
<1>2. r \in [player : BOOLEAN, w : Nat, h : Nat, px : {r.px}, fmt : Formats,
             pal : Palette \cup {NoPal}, tex : {r.tex}]
  BY DEF Shape
<1> HIDE DEF r
<1>3. ImgOK(r)
  BY <1>1, <1>2 DEF ImgOK
<1> QED BY <1>1, <1>3 DEF r

(* A bitmap with new pixels and player colours over its own extents. *)
LEMMA RelayeredOK ==
  ASSUME NEW i, ImgOK(i),
         NEW px \in [0..(i.w * i.h - 1) -> PixelsOf(i.fmt)],
         NEW tex \in [0..((IF i.player THEN i.w * i.h ELSE 0) - 1) -> Idx]
  PROVE  ImgOK([i EXCEPT !.px = px, !.tex = tex])
<1> DEFINE r == [i EXCEPT !.px = px, !.tex = tex]
<1>1. /\ r.player = i.player /\ r.w = i.w /\ r.h = i.h /\ r.px = px
      /\ r.fmt = i.fmt /\ r.pal = i.pal /\ r.tex = tex
  BY DEF ImgOK
<1>2. r \in [player : BOOLEAN, w : Nat, h : Nat, px : {r.px}, fmt : Formats,
             pal : Palette \cup {NoPal}, tex : {r.tex}]
  BY DEF ImgOK
<1> HIDE DEF r
<1>3. ImgOK(r)
  BY <1>1, <1>2 DEF ImgOK
<1> QED BY <1>1, <1>3 DEF r

(* A bitmap with new pixels only. *)
LEMMA RepaintedOK ==
  ASSUME NEW i, ImgOK(i), NEW px \in [0..(i.w * i.h - 1) -> PixelsOf(i.fmt)]
  PROVE  ImgOK([i EXCEPT !.px = px])
<1> DEFINE r == [i EXCEPT !.px = px]
<1>1. /\ r.player = i.player /\ r.w = i.w /\ r.h = i.h /\ r.px = px
      /\ r.fmt = i.fmt /\ r.pal = i.pal /\ r.tex = i.tex
  BY DEF ImgOK
<1>2. r \in [player : BOOLEAN, w : Nat, h : Nat, px : {r.px}, fmt : Formats,
             pal : Palette \cup {NoPal}, tex : {r.tex}]
  BY DEF ImgOK
<1> HIDE DEF r
<1> QED BY <1>1, <1>2 DEF ImgOK, r

(* clear keeps the palette and the format. *)
LEMMA ClearedShape ==
  ASSUME NEW i, Shape(i)
  PROVE  Shape(Cleared(i)) /\ Cleared(i).pal = i.pal /\ Cleared(i).fmt = i.fmt
         /\ Cleared(i).player = i.player
<1> DEFINE c == Cleared(i)
<1>1. /\ c.player = i.player /\ c.w = 0 /\ c.h = 0 /\ c.px = Fill(0, 0)
      /\ c.fmt = i.fmt /\ c.pal = i.pal /\ c.tex = Fill(0, 0)
  BY DEF Shape, Cleared
<1>2. Shape(c)
  BY DEF Shape, Cleared
<1> QED BY <1>1, <1>2

(* clear leaves a consistent bitmap without pixels. *)
LEMMA ClearedOK ==
  ASSUME NEW i, ImgOK(i)
  PROVE  ImgOK(Cleared(i)) /\ Cleared(i).pal = i.pal /\ Cleared(i).fmt = i.fmt
         /\ Cleared(i).player = i.player
<1> DEFINE c == Cleared(i)
<1>1. /\ c.player = i.player /\ c.w = 0 /\ c.h = 0 /\ c.px = Fill(0, 0)
      /\ c.fmt = i.fmt /\ c.pal = i.pal /\ c.tex = Fill(0, 0)
  BY DEF ImgOK, Cleared
<1>2. c \in [player : BOOLEAN, w : Nat, h : Nat, px : {c.px}, fmt : Formats,
             pal : Palette \cup {NoPal}, tex : {c.tex}]
  BY DEF ImgOK, Cleared
<1> HIDE DEF c
<1>3. c.px \in [0..(c.w * c.h - 1) -> PixelsOf(c.fmt)]
  BY <1>1, EmptyLayer
<1>4. c.tex \in [0..((IF c.player THEN c.w * c.h ELSE 0) - 1) -> Idx]
  BY <1>1, EmptyLayer
<1>5. ImgOK(c)
  BY <1>1, <1>2, <1>3, <1>4 DEF ImgOK
<1> QED BY <1>1, <1>5 DEF c

(* init makes the layers agree, whatever they were. *)
LEMMA InitMakesOK ==
  ASSUME NEW i, Shape(i), NEW w \in Nat, NEW h \in Nat, NEW fmt \in Formats,
         fmt = "Paletted" => i.pal # NoPal
  PROVE  LET r == InitImg(i, w, h, fmt).img
         IN ImgOK(r) /\ r.player = i.player /\ r.pal = i.pal /\ r.fmt = fmt
<1> DEFINE W == IF h = 0 THEN 0 ELSE w
           H == IF w = 0 THEN 0 ELSE h
           v == IF fmt = "Paletted" THEN i.pal.t ELSE Transparent
           px == Fill(W * H, v)
           tex == Fill(IF i.player THEN W * H ELSE 0, NoPlayer)
           c == Cleared(i)
           r == [c EXCEPT !.w = W, !.h = H, !.fmt = fmt, !.px = px, !.tex = tex]
<1>1. W \in Nat /\ H \in Nat /\ (W = 0 <=> H = 0)
  BY SMT
<1>2. v \in PixelsOf(fmt)
  BY DEF Shape, PixelsOf, Palette, BGRA, Formats
<1>3. px \in [0..(W * H - 1) -> PixelsOf(fmt)]
  BY <1>2 DEF Fill
<1>4. tex \in [0..((IF i.player THEN W * H ELSE 0) - 1) -> Idx]
  BY NoPlayerType DEF Fill
<1>5. InitImg(i, w, h, fmt).img = r
  BY DEF InitImg, Result, Formats
<1>6. Shape(c) /\ c.pal = i.pal /\ c.player = i.player
  BY ClearedShape
<1> HIDE DEF W, H, v, px, tex, c
<1>7. /\ fmt = "Paletted" => c.pal # NoPal
      /\ tex \in [0..((IF c.player THEN W * H ELSE 0) - 1) -> Idx]
  BY <1>4, <1>6
<1>8. ImgOK(r)
  BY <1>1, <1>3, <1>6, <1>7, RebuiltOK
<1>9. r.player = c.player /\ r.pal = c.pal /\ r.fmt = fmt
  BY <1>6 DEF Shape
<1> QED BY <1>5, <1>6, <1>8, <1>9

(* init of a consistent bitmap. *)
LEMMA InitOK ==
  ASSUME NEW i, ImgOK(i), NEW w \in Nat, NEW h \in Nat,
         NEW fmt \in Formats \cup {"Original"}
  PROVE  ImgOK(InitImg(i, w, h, fmt).img)
<1>1. CASE fmt = "Original" \/ (fmt = "Paletted" /\ i.pal = NoPal)
  BY <1>1, ClearedOK DEF InitImg, Result
<1>2. CASE fmt \in Formats /\ ~(fmt = "Paletted" /\ i.pal = NoPal)
  BY <1>2, ImgShape, InitMakesOK
<1> QED BY <1>1, <1>2

(* setPalette: no palette only where the pixels are no indices. *)
LEMMA SetPalOK ==
  ASSUME NEW i, ImgOK(i), NEW p \in Palette \cup {NoPal}
  PROVE  LET r == SetPal(i, p).img
         IN ImgOK(r) /\ r.player = i.player /\ r.fmt = i.fmt
<1> DEFINE r == [i EXCEPT !.pal = p]
<1>1. CASE p = NoPal /\ i.fmt = "Paletted"
  BY <1>1 DEF SetPal, Result
<1>2. CASE ~(p = NoPal /\ i.fmt = "Paletted")
  <2>1. /\ r.player = i.player /\ r.w = i.w /\ r.h = i.h /\ r.px = i.px
        /\ r.fmt = i.fmt /\ r.pal = p /\ r.tex = i.tex
    BY DEF ImgOK
  <2>2. r \in [player : BOOLEAN, w : Nat, h : Nat, px : {r.px}, fmt : Formats,
               pal : Palette \cup {NoPal}, tex : {r.tex}]
    BY DEF ImgOK
  <2>3. SetPal(i, p).img = r
    BY <1>2 DEF SetPal, Result
  <2> HIDE DEF r
  <2>4. ImgOK(r)
    BY <1>2, <2>1, <2>2 DEF ImgOK
  <2> QED BY <2>1, <2>3, <2>4
<1> QED BY <1>1, <1>2

(* init with a palette: between the format and the pixels the layers do    *)
(* not agree, afterwards they do.                                          *)
LEMMA InitPalMakesOK ==
  ASSUME NEW i, Shape(i), NEW w \in Nat, NEW h \in Nat, NEW fmt \in Formats,
         NEW p \in Palette \cup {NoPal}, fmt = "Paletted" => p # NoPal
  PROVE  LET r == InitPalImg(i, w, h, fmt, p).img
         IN ImgOK(r) /\ r.player = i.player /\ r.pal = p /\ r.fmt = fmt
<1> DEFINE j == IF fmt = "BGRA" THEN [i EXCEPT !.fmt = "BGRA"] ELSE i
           s == [j EXCEPT !.pal = p]
<1>1. Shape(j) /\ j.player = i.player /\ ~(p = NoPal /\ j.fmt = "Paletted")
  BY DEF Shape, Formats
<1>2. SetPal(j, p) = Result(s, "NONE")
  BY <1>1 DEF SetPal
<1>3. InitPalImg(i, w, h, fmt, p) = InitImg(s, w, h, fmt)
  BY <1>2 DEF InitPalImg, Result
<1> HIDE DEF j
<1>4. Shape(s) /\ s.player = i.player /\ s.pal = p
  BY <1>1 DEF Shape
<1> HIDE DEF s
<1> QED BY <1>3, <1>4, InitMakesOK

(* init with a palette, of a consistent bitmap. *)
LEMMA InitPalOK ==
  ASSUME NEW i, ImgOK(i), NEW w \in Nat, NEW h \in Nat,
         NEW fmt \in Formats \cup {"Original"}, NEW p \in Palette \cup {NoPal}
  PROVE  ImgOK(InitPalImg(i, w, h, fmt, p).img)
<1>1. CASE fmt = "Paletted" /\ p = NoPal
  BY <1>1 DEF InitPalImg, Result
<1>2. CASE fmt \in Formats /\ ~(fmt = "Paletted" /\ p = NoPal)
  BY <1>2, ImgShape, InitPalMakesOK
<1>3. CASE fmt = "Original"
  BY <1>3, SetPalOK DEF InitPalImg, InitImg, Result
<1> QED BY <1>1, <1>2, <1>3

(* convertFormat assigns nothing unless every pixel has been converted.    *)
LEMMA ConvertOK ==
  ASSUME NEW i, ImgOK(i), NEW fmt \in Formats \cup {"Original"}
  PROVE  ImgOK(ConvertImg(i, fmt).img)
<1> DEFINE conv == [k \in DOMAIN i.px |-> IF fmt = "BGRA" THEN ToBGRA(i.pal, i.px[k])
                                          ELSE ToIdx(i.pal, i.px[k])]
           r == [i EXCEPT !.px = conv, !.fmt = fmt]
           bad == NotFound \in {conv[k] : k \in DOMAIN conv}
<1>1. CASE fmt = "Original" \/ fmt = i.fmt \/ i.pal = NoPal \/ bad
  BY <1>1 DEF ConvertImg, Result
<1>2. CASE ~(fmt = "Original" \/ fmt = i.fmt \/ i.pal = NoPal \/ bad)
  <2>1. ConvertImg(i, fmt).img = r
    BY <1>2 DEF ConvertImg, Result
  <2>2. /\ r.player = i.player /\ r.w = i.w /\ r.h = i.h /\ r.px = conv
        /\ r.fmt = fmt /\ r.pal = i.pal /\ r.tex = i.tex
    BY DEF ImgOK
  <2>3. r \in [player : BOOLEAN, w : Nat, h : Nat, px : {r.px}, fmt : Formats,
               pal : Palette \cup {NoPal}, tex : {r.tex}]
    BY <1>2 DEF ImgOK
  <2>4. fmt \in Formats /\ i.fmt \in Formats /\ i.pal \in Palette /\ fmt # i.fmt
    BY <1>2 DEF ImgOK
  <2>5. DOMAIN i.px = 0..(i.w * i.h - 1) /\ i.px \in [DOMAIN i.px -> PixelsOf(i.fmt)]
    BY DEF ImgOK
  <2>6. ASSUME NEW k \in DOMAIN i.px
        PROVE  conv[k] \in PixelsOf(fmt)
    <3>1. CASE fmt = "BGRA"
      BY <3>1, <2>4, <2>5, ToBGRAType DEF PixelsOf, Formats
    <3>2. CASE fmt = "Paletted"
      BY <3>2, <1>2, <2>4, ToIdxType DEF PixelsOf
    <3> QED BY <2>4, <3>1, <3>2 DEF Formats
  <2>7. conv \in [0..(i.w * i.h - 1) -> PixelsOf(fmt)]
    BY <2>5, <2>6
  <2> HIDE DEF r, conv
  <2>8. ImgOK(r)
    BY <1>2, <2>2, <2>3, <2>7 DEF ImgOK
  <2> QED BY <2>1, <2>8
<1> QED BY <1>1, <1>2

(* setPixel: a colour the palette does not have changes nothing. *)
LEMMA SetIdxOK ==
  ASSUME NEW i, ImgOK(i), NEW k \in DOMAIN i.px, NEW c \in Idx,
         i.fmt = "BGRA" => i.pal # NoPal
  PROVE  /\ SetIdxImg(i, k, c).px[k] \in PixelsOf(i.fmt)
         /\ ImgOK(SetIdxImg(i, k, c))
<1> DEFINE v == IF i.fmt = "Paletted" THEN c ELSE ToBGRA(i.pal, c)
           px == [i.px EXCEPT ![k] = v]
<1>1. v \in PixelsOf(i.fmt)
  BY ToBGRAType DEF ImgOK, Formats, PixelsOf
<1>2. px \in [0..(i.w * i.h - 1) -> PixelsOf(i.fmt)] /\ px[k] = v
  BY <1>1 DEF ImgOK
<1>3. SetIdxImg(i, k, c) = [i EXCEPT !.px = px]
  BY Zenon DEF SetIdxImg
<1>4. [i EXCEPT !.px = px].px = px
  BY DEF ImgOK
<1> HIDE DEF px
<1>5. ImgOK([i EXCEPT !.px = px])
  BY <1>2, RepaintedOK
<1> QED BY <1>1, <1>2, <1>3, <1>4, <1>5

(* setPixel of a player bitmap: pixel and player colour together. *)
LEMMA SetClrOK ==
  ASSUME NEW i, ImgOK(i), NEW k \in DOMAIN i.px, NEW c \in BGRA
  PROVE  ImgOK(SetClrImg(i, k, c).img)
<1>1. CASE i.fmt = "BGRA"
  <2> DEFINE px == [i.px EXCEPT ![k] = c]
  <2>1. px \in [0..(i.w * i.h - 1) -> PixelsOf(i.fmt)]
    BY <1>1 DEF ImgOK, PixelsOf
  <2>2. SetClrImg(i, k, c).img = [i EXCEPT !.px = px]
    BY <1>1, Zenon DEF SetClrImg, Result
  <2> HIDE DEF px
  <2> QED BY <2>1, <2>2, RepaintedOK
<1>2. CASE i.fmt # "BGRA" /\ ToIdx(i.pal, c) = NotFound
  BY <1>2 DEF SetClrImg, Result
<1>3. CASE i.fmt # "BGRA" /\ ToIdx(i.pal, c) # NotFound
  <2> DEFINE n == ToIdx(i.pal, c)
             px == [i.px EXCEPT ![k] = n]
  <2>1. i.pal \in Palette /\ i.fmt = "Paletted"
    BY <1>3 DEF ImgOK, Formats
  <2>2. n \in Idx
    BY <1>3, <2>1, ToIdxType
  <2>3. SetClrImg(i, k, c).img = [i EXCEPT !.px = px]
    BY <1>3, Zenon DEF SetClrImg, Result
  <2> HIDE DEF n
  <2>4. px \in [0..(i.w * i.h - 1) -> PixelsOf(i.fmt)]
    BY <2>1, <2>2 DEF ImgOK, PixelsOf
  <2> HIDE DEF px
  <2> QED BY <2>3, <2>4, RepaintedOK
<1> QED BY <1>1, <1>2, <1>3

(* The row and column of a linear index. *)
LEMMA RowColumn ==
  ASSUME NEW w \in Nat, NEW h \in Nat, NEW k \in 0..(w * h - 1)
  PROVE  w > 0 /\ k % w \in 0..(w - 1) /\ k \div w \in 0..(h - 1)
<1>1. w > 0
  <2>1. CASE w = 0
    <3>1. w * h = 0 BY <2>1, SMT
    <3> QED BY <3>1
  <2> QED BY <2>1
<1>2. k = w * (k \div w) + (k % w) /\ k % w \in 0..(w - 1) /\ k \div w \in Int /\ k \in Nat
  BY <1>1, SMT
<1> DEFINE d == k \div w
           m == k % w
<1>3. d >= 0
  <2>1. CASE d < 0
    <3>1. w * d =< w * (-1)
      BY <2>1, <1>1, <1>2, SMT
    <3> QED BY <3>1, <1>1, <1>2
  <2> QED BY <2>1, <1>2
<1>4. d < h
  <2>1. CASE d >= h
    <3>1. w * d >= w * h
      BY <2>1, <1>1, <1>2, SMT
    <3> QED BY <3>1, <1>2
  <2> QED BY <2>1, <1>2
<1> QED BY <1>1, <1>2, <1>3, <1>4

(* The pixel of a buffer that covers pixel k of a bitmap is in the buffer. *)
LEMMA BufIdxOK ==
  ASSUME NEW b, IsBuffer(b), NEW w \in Nat, NEW h \in Nat, NEW k \in 0..(w * h - 1),
         Covered(b, w, k)
  PROVE  BufIdx(b, w, k) \in DOMAIN b.px /\ b.px[BufIdx(b, w, k)] \in PixelsOf(b.fmt)
<1>1. k % w \in Nat /\ k \div w \in Nat
  BY RowColumn
<1>2. k % w < b.w /\ k \div w < b.h /\ b.w \in Nat /\ b.h \in Nat
  BY DEF Covered, IsBuffer
<1>3. BufIdx(b, w, k) \in 0..(b.w * b.h - 1)
  BY <1>1, <1>2, CellIndex DEF BufIdx
<1> QED BY <1>3 DEF IsBuffer

(* create of a plain bitmap: of each pixel either what the buffer has for  *)
(* it or what init put there.                                              *)
LEMMA CreateOK ==
  ASSUME NEW i, ImgOK(i), NEW w \in Nat, NEW h \in Nat, NEW b, NEW p0 \in Palette \cup {NoPal},
         b # NoBuf => IsBuffer(b)
  PROVE  ImgOK(CreateImg(i, w, h, b, p0).img)
<1> DEFINE p == IF p0 = NoPal /\ b.fmt = "Paletted" THEN i.pal ELSE p0
           j == InitPalImg(i, w, h, b.fmt, p).img
           px == [k \in DOMAIN j.px |->
                    IF Covered(b, j.w, k) THEN b.px[BufIdx(b, j.w, k)] ELSE j.px[k]]
<1>1. CASE b = NoBuf \/ (p = NoPal /\ b.fmt = "Paletted")
  BY <1>1 DEF CreateImg, Result
<1>2. CASE ~(b = NoBuf \/ (p = NoPal /\ b.fmt = "Paletted"))
  <2>1. p \in Palette \cup {NoPal} /\ b.fmt \in Formats /\ IsBuffer(b)
    BY <1>2 DEF ImgOK, IsBuffer
  <2>2. CreateImg(i, w, h, b, p0).img = [j EXCEPT !.px = px]
    BY <1>2 DEF CreateImg, Result
  <2> HIDE DEF p
  <2>3. ImgOK(j) /\ j.fmt = b.fmt
    BY <1>2, <2>1, ImgShape, InitPalMakesOK
  <2> HIDE DEF j
  <2>4. DOMAIN j.px = 0..(j.w * j.h - 1) /\ j.w \in Nat /\ j.h \in Nat
        /\ j.px \in [0..(j.w * j.h - 1) -> PixelsOf(j.fmt)]
    BY <2>3 DEF ImgOK
  <2>5. ASSUME NEW k \in DOMAIN j.px
        PROVE  px[k] \in PixelsOf(j.fmt)
    <3>1. CASE Covered(b, j.w, k)
      BY <3>1, <2>1, <2>3, <2>4, BufIdxOK
    <3>2. CASE ~Covered(b, j.w, k)
      BY <3>2, <2>4
    <3> QED BY <3>1, <3>2
  <2>6. px \in [0..(j.w * j.h - 1) -> PixelsOf(j.fmt)]
    BY <2>4, <2>5
  <2> HIDE DEF px
  <2> QED BY <2>2, <2>3, <2>6, RepaintedOK
<1> QED BY <1>1, <1>2

(* create of a player bitmap: the pixels as before, with the palette's     *)
(* transparent index under a player colour, and the player colours as      *)
(* offsets from the first one.                                             *)
LEMMA CreatePlayerOK ==
  ASSUME NEW i, ImgOK(i), NEW w \in Nat, NEW h \in Nat, NEW b, NEW p0 \in Palette \cup {NoPal},
         b # NoBuf => IsBuffer(b), NEW q
  PROVE  ImgOK(CreatePlayerImg(i, w, h, b, p0, q).img)
<1> DEFINE p    == IF p0 = NoPal THEN i.pal ELSE p0
           j    == InitPalImg(i, w, h, b.fmt, IF b.fmt = "BGRA" THEN NoPal ELSE p).img
           in(k)  == b.px[BufIdx(b, j.w, k)]
           idx(k) == IF b.fmt = "Paletted" THEN in(k)
                     ELSE IF in(k) = Transparent THEN NotFound ELSE Lookup(q, in(k))
           area == {k \in DOMAIN j.px : Covered(b, j.w, k)}
           bad  == {k \in area : in(k) # Transparent /\ idx(k) = NotFound}
           done == {k \in area : \A n \in bad : k < n}
           plr  == {k \in done : IsPlayerClr(idx(k))}
           px  == [k \in DOMAIN j.px |->
                     IF k \in plr /\ b.fmt = "Paletted" THEN p.t
                     ELSE IF k \in done THEN in(k) ELSE j.px[k]]
           tex == [k \in DOMAIN j.tex |->
                     IF k \in plr THEN idx(k) - PlayerStart ELSE j.tex[k]]
<1>1. CASE b = NoBuf \/ p = NoPal
  BY <1>1 DEF CreatePlayerImg, Result
<1>2. CASE ~(b = NoBuf \/ p = NoPal)
  <2>1. p \in Palette /\ b.fmt \in Formats /\ IsBuffer(b)
    BY <1>2 DEF ImgOK, IsBuffer
  <2>2. CreatePlayerImg(i, w, h, b, p0, q).img = [j EXCEPT !.px = px, !.tex = tex]
    BY <1>2 DEF CreatePlayerImg, Result
  <2> HIDE DEF p
  <2>3. ImgOK(j) /\ j.fmt = b.fmt
    <3>1. (IF b.fmt = "BGRA" THEN NoPal ELSE p) \in Palette \cup {NoPal}
      BY <2>1
    <3>2. b.fmt = "Paletted" => (IF b.fmt = "BGRA" THEN NoPal ELSE p) # NoPal
      BY <2>1, <1>2
    <3> QED BY <3>1, <3>2, <2>1, ImgShape, InitPalMakesOK
  <2> HIDE DEF j
  <2>4. DOMAIN j.px = 0..(j.w * j.h - 1) /\ j.w \in Nat /\ j.h \in Nat
        /\ j.px \in [0..(j.w * j.h - 1) -> PixelsOf(j.fmt)]
        /\ j.tex \in [0..((IF j.player THEN j.w * j.h ELSE 0) - 1) -> Idx]
    BY <2>3 DEF ImgOK
  <2>5. ASSUME NEW k \in area
        PROVE  in(k) \in PixelsOf(j.fmt)
    BY <2>1, <2>3, <2>4, BufIdxOK
  <2>6. done \subseteq area /\ area \subseteq DOMAIN j.px
    OBVIOUS
  <2>7. plr \subseteq done /\ \A k \in plr : IsPlayerClr(idx(k))
    OBVIOUS
  <2> HIDE DEF in, idx, area, done, plr
  <2>8. ASSUME NEW k \in DOMAIN j.px
        PROVE  px[k] \in PixelsOf(j.fmt)
    <3>1. CASE k \in plr /\ b.fmt = "Paletted"
      BY <3>1, <2>1, <2>3 DEF Palette, PixelsOf
    <3>2. CASE ~(k \in plr /\ b.fmt = "Paletted") /\ k \in done
      BY <3>2, <2>5, <2>6
    <3>3. CASE k \notin done
      BY <3>3, <2>4, <2>7
    <3> QED BY <3>1, <3>2, <3>3
  <2>9. px \in [0..(j.w * j.h - 1) -> PixelsOf(j.fmt)]
    BY <2>4, <2>8
  <2>10. ASSUME NEW k \in DOMAIN j.tex
         PROVE  tex[k] \in Idx
    <3>1. CASE k \in plr
      <4>1. idx(k) \in PlayerStart..(PlayerStart + NumPlayerClrs - 1)
        BY <3>1, <2>7 DEF IsPlayerClr
      <4>2. idx(k) - PlayerStart \in Idx
        BY <4>1, BitmapAssumption DEF Idx
      <4> QED BY <3>1, <4>2
    <3>2. CASE k \notin plr
      BY <3>2, <2>4
    <3> QED BY <3>1, <3>2
  <2>11. tex \in [0..((IF j.player THEN j.w * j.h ELSE 0) - 1) -> Idx]
    BY <2>4, <2>10
  <2> HIDE DEF px, tex
  <2>12. ImgOK([j EXCEPT !.px = px, !.tex = tex])
    BY <2>3, <2>9, <2>11, RelayeredOK
  <2> QED BY <2>2, <2>12
<1> QED BY <1>1, <1>2, Zenon

(* flipVertical *)
LEMMA FlipOK ==
  ASSUME NEW i, ImgOK(i)
  PROVE  ImgOK(FlipImg(i))
<1> DEFINE n(k) == (i.h - 1 - (k \div i.w)) * i.w + (k % i.w)
           px == [k \in DOMAIN i.px |-> i.px[n(k)]]
<1>1. DOMAIN i.px = 0..(i.w * i.h - 1) /\ i.w \in Nat /\ i.h \in Nat
      /\ i.px \in [0..(i.w * i.h - 1) -> PixelsOf(i.fmt)]
  BY DEF ImgOK
<1>2. ASSUME NEW k \in 0..(i.w * i.h - 1)
      PROVE  n(k) \in 0..(i.w * i.h - 1)
  <2> DEFINE y == i.h - 1 - (k \div i.w)
             x == k % i.w
  <2>1. x \in 0..(i.w - 1) /\ k \div i.w \in 0..(i.h - 1)
    BY <1>1, RowColumn
  <2>2. y \in 0..(i.h - 1)
    BY <1>1, <2>1
  <2> HIDE DEF x, y
  <2>3. x \in Nat /\ y \in Nat /\ x < i.w /\ y < i.h
    BY <1>1, <2>1, <2>2
  <2>4. y * i.w + x \in 0..(i.w * i.h - 1)
    BY <1>1, <2>3, CellIndex
  <2> QED BY <2>4 DEF x, y
<1>3. px \in [0..(i.w * i.h - 1) -> PixelsOf(i.fmt)]
  BY <1>1, <1>2
<1>4. FlipImg(i) = [i EXCEPT !.px = px]
  BY DEF FlipImg
<1> HIDE DEF px
<1> QED BY <1>3, <1>4, RepaintedOK

-------------------------------------------------------------------------------
(* The loaders *)

(* Without the palette a BGRA bitmap is still consistent, and a paletted   *)
(* one keeps it.                                                           *)
LEMMA DropPalOK ==
  ASSUME NEW i, ImgOK(i)
  PROVE  ImgOK(DropPal(i))
  BY SetPalOK DEF DropPal

(* The format getWantedFormat gives is a format. *)
LEMMA WantedType ==
  ASSUME gfmt \in Formats \cup {"Original"}
  PROVE  Wanted \in Formats
  BY DEF Wanted, Formats

(* A pixel of a file is an index of the palette, also after the shift of a *)
(* player colour.                                                          *)
LEMMA FilePixelType ==
  ASSUME NEW p, p.c \in Idx, p.player \in BOOLEAN
  PROVE  FilePixel(p) \in Idx
<1>1. ASSUME NEW c \in Idx PROVE (c + (NumIdx \div 2)) % NumIdx \in Idx
  BY BitmapAssumption DEF Idx
<1> QED BY <1>1 DEF FilePixel

(* The pixels a file sets, put one by one into a bitmap with a palette. *)
LEMMA PutFileOK ==
  ASSUME NEW i, ImgOK(i), i.pal # NoPal, NEW f, IsFile(f)
  PROVE  ImgOK(PutFile(i, f))
<1> DEFINE set == DOMAIN f.put
           px == [k \in DOMAIN i.px |->
                    IF k \in set THEN SetIdxImg(i, k, FilePixel(f.put[k])).px[k] ELSE i.px[k]]
           tex == [k \in DOMAIN i.tex |->
                     IF k \in set /\ f.put[k].player THEN f.put[k].c ELSE i.tex[k]]
<1>1. PutFile(i, f) = [i EXCEPT !.px = px, !.tex = tex]
  BY DEF PutFile
<1>2. DOMAIN i.px = 0..(i.w * i.h - 1) /\ i.px \in [0..(i.w * i.h - 1) -> PixelsOf(i.fmt)]
      /\ i.tex \in [0..((IF i.player THEN i.w * i.h ELSE 0) - 1) -> Idx]
  BY DEF ImgOK
<1>3. ASSUME NEW k \in set
      PROVE  f.put[k].c \in Idx /\ FilePixel(f.put[k]) \in Idx
  BY FilePixelType DEF IsFile
<1>4. ASSUME NEW k \in DOMAIN i.px
      PROVE  px[k] \in PixelsOf(i.fmt)
  <2>1. CASE k \in set
    <3>1. SetIdxImg(i, k, FilePixel(f.put[k])).px[k] \in PixelsOf(i.fmt)
      BY <2>1, <1>3, SetIdxOK
    <3> QED BY <2>1, <3>1
  <2>2. CASE k \notin set
    BY <2>2, <1>2
  <2> QED BY <2>1, <2>2
<1>5. px \in [0..(i.w * i.h - 1) -> PixelsOf(i.fmt)]
  BY <1>2, <1>4
<1>6. tex \in [0..((IF i.player THEN i.w * i.h ELSE 0) - 1) -> Idx]
  BY <1>2, <1>3
<1> HIDE DEF px, tex
<1>7. ImgOK([i EXCEPT !.px = px, !.tex = tex])
  BY <1>5, <1>6, RelayeredOK
<1> QED BY <1>1, <1>7

(* The loader of player data in memory, wherever it stops: the bitmap is   *)
(* in the wanted format and keeps its palette.                             *)
LEMMA LoadImageOK ==
  ASSUME NEW i, ImgOK(i), NEW f, IsFile(f), NEW p \in Palette \cup {NoPal}, NEW code,
         gfmt \in Formats \cup {"Original"}
  PROVE  LET r == LoadImageImg(i, f, p, code)
         IN ImgOK(r.img) /\ (p # NoPal => r.img.fmt = Wanted /\ r.img.pal = p)
<1> DEFINE j == InitPalImg(i, f.w, f.h, Wanted, p).img
           k == PutFile(j, f)
<1>1. CASE p = NoPal
  BY <1>1 DEF LoadImageImg, Result
<1>2. CASE p # NoPal
  <2>1. ImgOK(j) /\ j.fmt = Wanted /\ j.pal = p
    <3>1. Shape(i) /\ f.w \in Nat /\ f.h \in Nat
      BY ImgShape DEF IsFile
    <3> QED BY <3>1, <1>2, WantedType, InitPalMakesOK
  <2>2. LoadImageImg(i, f, p, code).img = k
    BY <1>2 DEF LoadImageImg, Result
  <2> HIDE DEF j
  <2>3. ImgOK(k)
    BY <1>2, <2>1, PutFileOK
  <2>4. k.fmt = j.fmt /\ k.pal = j.pal
    BY <2>1 DEF PutFile, ImgOK
  <2> HIDE DEF k
  <2> QED BY <2>1, <2>2, <2>3, <2>4
<1> QED BY <1>1, <1>2

(* The run-length loaders, wherever they stop. *)
LEMMA LoadRunsOK ==
  ASSUME NEW i, ImgOK(i), NEW f, IsFile(f), NEW p \in Palette \cup {NoPal}, NEW at, NEW code,
         gfmt \in Formats \cup {"Original"}
  PROVE  ImgOK(LoadRunsImg(i, f, p, at, code).img)
<1> DEFINE image == LoadImageImg(Cleared(i), f, p, code)
<1>1. ImgOK(Cleared(i)) /\ ImgOK(image.img)
  BY ClearedOK, LoadImageOK
<1>2. ImgOK(DropPal(image.img))
  BY <1>1, DropPalOK
<1> HIDE DEF image
<1>3. LoadRunsImg(i, f, p, at, code).img \in {i, Cleared(i), image.img, DropPal(image.img)}
  BY DEF LoadRunsImg, Result, image
<1> QED BY <1>1, <1>2, <1>3

(* create from what a file decodes to, then convertFormat. *)
LEMMA CreateConvertedOK ==
  ASSUME NEW i, ImgOK(i), NEW f, IsFile(f), NEW p \in Palette, NEW code,
         gfmt \in Formats \cup {"Original"}
  PROVE  ImgOK(CreateConverted(i, f, p, code).img)
<1> DEFINE px == [k \in 0..(f.w * f.h - 1) |->
                    IF k \in DOMAIN f.put THEN FilePixel(f.put[k]) ELSE p.t]
           b == [w |-> f.w, h |-> f.h, fmt |-> "Paletted", px |-> px]
           j == CreateImg(i, f.w, f.h, b, p).img
           c == ConvertImg(j, Wanted)
<1>1. px \in [0..(f.w * f.h - 1) -> Idx]
  BY FilePixelType DEF IsFile, Palette
<1>2. IsBuffer(b)
  <2> HIDE DEF px
  <2> QED BY <1>1 DEF IsBuffer, IsFile, Formats, PixelsOf
<1>3. CreateConverted(i, f, p, code).img = IF c.code # "NONE" THEN c.img ELSE DropPal(c.img)
  BY DEF CreateConverted, Result
<1> HIDE DEF b
<1>4. ImgOK(j)
  BY <1>2, CreateOK DEF IsFile
<1> HIDE DEF j
<1>5. ImgOK(c.img)
  BY <1>4, ConvertOK, WantedType
<1> HIDE DEF c
<1> QED BY <1>3, <1>5, DropPalOK

(* The loader of raw bitmaps, wherever it stops. *)
LEMMA LoadRawOK ==
  ASSUME NEW i, ImgOK(i), NEW f, IsFile(f), NEW p \in Palette \cup {NoPal}, NEW code,
         gfmt \in Formats \cup {"Original"}
  PROVE  ImgOK(LoadRawImg(i, f, p, code).img)
<1>1. CASE p = NoPal \/ code \in {"WRONG_HEADER", "WRONG_FORMAT"}
  BY <1>1 DEF LoadRawImg, Result
<1>2. CASE ~(p = NoPal \/ code \in {"WRONG_HEADER", "WRONG_FORMAT"}) /\ f.w * f.h > 0
  BY <1>2, CreateConvertedOK DEF LoadRawImg
<1>3. CASE ~(p = NoPal \/ code \in {"WRONG_HEADER", "WRONG_FORMAT"}) /\ ~(f.w * f.h > 0)
  <2> DEFINE q == IF Wanted = "Paletted" THEN p ELSE NoPal
  <2>1. LoadRawImg(i, f, p, code).img = InitPalImg(i, 0, 0, Wanted, q).img
    BY <1>3 DEF LoadRawImg, Result
  <2>2. q \in Palette \cup {NoPal}
    BY <1>3
  <2> HIDE DEF q
  <2> QED BY <2>1, <2>2, WantedType, InitPalOK
<1> QED BY <1>1, <1>2, <1>3

(* The loader of shadows, wherever it stops. *)
LEMMA LoadShadowOK ==
  ASSUME NEW i, ImgOK(i), NEW f, IsFile(f), NEW p \in Palette \cup {NoPal}, NEW code,
         NEW noData, gfmt \in Formats \cup {"Original"}
  PROVE  ImgOK(LoadShadowImg(i, f, p, code, noData).img)
<1>1. CASE p = NoPal \/ code # "NONE"
  BY <1>1, ClearedOK DEF LoadShadowImg, Result
<1>2. CASE ~(p = NoPal \/ code # "NONE") /\ noData
  BY <1>2, ClearedOK, InitPalOK DEF LoadShadowImg, IsFile, Formats
<1>3. CASE ~(p = NoPal \/ code # "NONE") /\ ~noData
  BY <1>3, ClearedOK, CreateConvertedOK DEF LoadShadowImg
<1> QED BY <1>1, <1>2, <1>3

-------------------------------------------------------------------------------
(* The specification *)

(* A call whose result is consistent is a consistent step. *)
LEMMA ReturnsOK ==
  ASSUME Consistent, NEW op, NEW r, NEW arg, Returns(op, r, arg), ImgOK(r.img)
  PROVE  Consistent'
  BY DEF Consistent, Returns

(* What the parameters of the calls range over. *)
LEMMA ArgTypes ==
  /\ AnyPal \subseteq Palette \cup {NoPal}
  /\ \A e \in Extents : e[1] \in Nat /\ e[2] \in Nat
  /\ \A b \in Buffers \cup {NoBuf} : b # NoBuf => IsBuffer(b)
  /\ \A f \in Files : IsFile(f)
  BY BitmapAssumption DEF AnyPal

(* A new bitmap is consistent. *)
LEMMA InitConsistent == Init => Consistent
<1> SUFFICES ASSUME Init PROVE Consistent
  OBVIOUS
<1>1. PICK player \in BOOLEAN :
        img = [player |-> player, w |-> 0, h |-> 0, px |-> Fill(0, 0),
               fmt |-> "BGRA", pal |-> NoPal, tex |-> Fill(0, 0)]
  BY DEF Init
<1>2. img \in [player : BOOLEAN, w : Nat, h : Nat, px : {img.px}, fmt : Formats,
               pal : Palette \cup {NoPal}, tex : {img.tex}]
  BY <1>1 DEF Formats
<1>3. /\ img.w = 0 /\ img.h = 0 /\ img.fmt = "BGRA"
      /\ img.px = Fill(0, 0) /\ img.tex = Fill(0, 0)
  BY <1>1
<1>4. ImgOK(img)
  <2>1. img.px \in [0..(img.w * img.h - 1) -> PixelsOf(img.fmt)]
    BY <1>3, EmptyLayer
  <2>2. img.tex \in [0..((IF img.player THEN img.w * img.h ELSE 0) - 1) -> Idx]
    BY <1>3, EmptyLayer
  <2> QED BY <1>2, <1>3, <2>1, <2>2 DEF ImgOK
<1> QED BY <1>4 DEF Init, Consistent, Formats

(* Every call, failed or not, keeps the bitmap consistent. *)
LEMMA StepConsistent == Consistent /\ [Next]_vars => Consistent'
<1> SUFFICES ASSUME Consistent, [Next]_vars PROVE Consistent'
  OBVIOUS
<1> USE ArgTypes
<1>0. ImgOK(img) /\ gfmt \in Formats \cup {"Original"}
  BY DEF Consistent
<1>1. CASE UNCHANGED vars
  BY <1>1 DEF vars, Consistent
<1>2. CASE Return
  BY <1>2 DEF Return, Consistent
<1>3. ASSUME NEW fmt \in Formats \cup {"Original"}, SetGlobalFormat(fmt)
      PROVE  Consistent'
  BY <1>3 DEF SetGlobalFormat, Consistent
<1>4. ASSUME NEW fmt \in Formats \cup {"Original"}, ConvertCall(fmt)
      PROVE  Consistent'
  BY <1>0, <1>4, ConvertOK, ReturnsOK DEF ConvertCall
<1>5. ASSUME NEW fmt \in Formats \cup {"Original"}, NEW e \in Extents, InitCall(e, fmt)
      PROVE  Consistent'
  BY <1>0, <1>5, InitOK, ReturnsOK DEF InitCall
<1>6. ASSUME NEW fmt \in Formats \cup {"Original"}, NEW e \in Extents, NEW p \in AnyPal,
             InitPalCall(e, fmt, p)
      PROVE  Consistent'
  BY <1>0, <1>6, InitPalOK, ReturnsOK DEF InitPalCall
<1>7. CASE ClearCall
  <2>1. ImgOK(Result(Cleared(img), "NONE").img)
    BY <1>0, ClearedOK DEF Result
  <2> QED BY <1>7, <2>1, ReturnsOK DEF ClearCall
<1>8. CASE FlipCall
  <2>1. ImgOK(Result(FlipImg(img), "NONE").img)
    BY <1>0, FlipOK DEF Result
  <2> QED BY <1>8, <2>1, ReturnsOK DEF FlipCall
<1>9. ASSUME NEW p \in AnyPal, SetPaletteCall(p)
      PROVE  Consistent'
  BY <1>0, <1>9, SetPalOK, ReturnsOK DEF SetPaletteCall
<1>10. ASSUME NEW p \in AnyPal, NEW e \in Extents, NEW b \in Buffers \cup {NoBuf},
              CreateCall(e, b, p)
       PROVE  Consistent'
  <2>1. ImgOK(CreateImg(img, e[1], e[2], b, p).img)
    BY <1>0, CreateOK
  <2> QED BY <1>10, <2>1, ReturnsOK DEF CreateCall
<1>11. ASSUME NEW p \in AnyPal, NEW e \in Extents, NEW b \in Buffers \cup {NoBuf},
              CreatePlayerCall(e, b, p)
       PROVE  Consistent'
  <2>1. PICK q : Returns("create", CreatePlayerImg(img, e[1], e[2], b, p, q),
                         [buf |-> b, pal |-> p])
    BY <1>11 DEF CreatePlayerCall
  <2>2. ImgOK(CreatePlayerImg(img, e[1], e[2], b, p, q).img)
    BY <1>0, CreatePlayerOK
  <2> QED BY <2>1, <2>2, ReturnsOK
<1>12. ASSUME NEW p, NEW b, NEW r, PrintCall(b, p, r)
       PROVE  Consistent'
  BY <1>0, <1>12 DEF PrintCall, Returns, Result, Consistent
<1>13. ASSUME NEW p, NEW b, NEW r, NEW only, PrintPlayerCall(b, p, r, only)
       PROVE  Consistent'
  BY <1>0, <1>13 DEF PrintPlayerCall, Returns, Result, Consistent
<1>14. ASSUME NEW p \in AnyPal, NEW f \in Files, NEW at, NEW code, LoadRunsCall(f, p, at, code)
       PROVE  Consistent'
  <2>1. ImgOK(LoadRunsImg(img, f, p, at, code).img)
    BY <1>0, LoadRunsOK
  <2> QED BY <1>14, <2>1, ReturnsOK DEF LoadRunsCall
<1>15. ASSUME NEW p \in AnyPal, NEW f \in Files, NEW code, LoadRawCall(f, p, code)
       PROVE  Consistent'
  <2>1. ImgOK(LoadRawImg(img, f, p, code).img)
    BY <1>0, LoadRawOK
  <2> QED BY <1>15, <2>1, ReturnsOK DEF LoadRawCall
<1>16. ASSUME NEW p \in AnyPal, NEW f \in Files, NEW code, NEW noData,
              LoadShadowCall(f, p, code, noData)
       PROVE  Consistent'
  <2>1. ImgOK(LoadShadowImg(img, f, p, code, noData).img)
    BY <1>0, LoadShadowOK
  <2> QED BY <1>16, <2>1, ReturnsOK DEF LoadShadowCall
<1>17. ASSUME NEW k \in DOMAIN img.px, NEW c \in Idx, SetPixelIdxCall(k, c)
       PROVE  Consistent'
  <2>1. ImgOK(Result(SetIdxImg(img, k, c), "NONE").img)
    BY <1>0, <1>17, SetIdxOK DEF SetPixelIdxCall, Result
  <2> QED BY <1>17, <2>1, ReturnsOK DEF SetPixelIdxCall
<1>18. ASSUME NEW k \in DOMAIN img.px, NEW c \in BGRA, SetPixelClrCall(k, c)
       PROVE  Consistent'
  BY <1>0, <1>18, SetClrOK, ReturnsOK DEF SetPixelClrCall
<1>19. ASSUME NEW p \in AnyPal, NEW f \in Files, NEW code, LoadImageCall(f, p, code)
       PROVE  Consistent'
  <2>1. ImgOK(LoadImageImg(img, f, p, code).img)
    BY <1>0, LoadImageOK
  <2> QED BY <1>19, <2>1, ReturnsOK DEF LoadImageCall
<1> QED
  BY <1>1, <1>2, <1>3, <1>4, <1>5, <1>6, <1>7, <1>8, <1>9, <1>10, <1>11, <1>12, <1>13,
     <1>14, <1>15, <1>16, <1>17, <1>18, <1>19 DEF Next

(* The layers of a bitmap agree after every sequence of calls: no reader   *)
(* of it (getPixel, print, the writers of the file formats) can index past *)
(* a layer or find indices without a palette.                              *)
THEOREM BitmapConsistent == Spec => []Consistent
<1>1. Init => Consistent
  BY InitConsistent
<1>2. Consistent /\ [Next]_vars => Consistent'
  BY StepConsistent
<1> QED BY <1>1, <1>2, PTL DEF Spec

-------------------------------------------------------------------------------
(* The calls one by one *)

(* Which call a result comes from. *)
LEMMA CallsByName ==
  ASSUME Next
  PROVE  /\ ret'.op = "convertFormat" => \E fmt \in Formats \cup {"Original"} : ConvertCall(fmt)
         /\ ret'.op = "init" => \E e \in Extents, fmt \in Formats \cup {"Original"} : InitCall(e, fmt)
         /\ ret'.op = "initPal" =>
              \E e \in Extents, fmt \in Formats \cup {"Original"}, p \in AnyPal : InitPalCall(e, fmt, p)
         /\ ret'.op = "setPalette" => \E p \in AnyPal : SetPaletteCall(p)
         /\ ret'.op = "setPixel" =>
              \E k \in DOMAIN img.px : \/ \E c \in Idx : SetPixelIdxCall(k, c)
                                       \/ \E c \in BGRA : SetPixelClrCall(k, c)
         /\ ret'.op = "create" =>
              \E e \in Extents, b \in Buffers \cup {NoBuf}, p \in AnyPal :
                CreateCall(e, b, p) \/ CreatePlayerCall(e, b, p)
         /\ ret'.op = "print" =>
              \E p \in AnyPal, b \in Targets \cup {NoBuf}, r \in Rects, only \in BOOLEAN :
                PrintCall(b, p, r) \/ PrintPlayerCall(b, p, r, only)
         /\ ret'.op = "load" =>
              \E p \in AnyPal, f \in Files, code \in LoadCodes, at \in {"header", "rows", "end"} :
                LoadRunsCall(f, p, at, code) \/ LoadRawCall(f, p, code)
         /\ ret'.op = "loadShadow" =>
              \E p \in AnyPal, f \in Files, code \in LoadCodes, noData \in BOOLEAN :
                LoadShadowCall(f, p, code, noData)
         /\ ret'.op = "loadImage" =>
              \E p \in AnyPal, f \in Files, code \in LoadCodes : LoadImageCall(f, p, code)
<1> USE DEF Returns
<1>1. CASE Return
  BY <1>1 DEF Return, Idle
<1>2. ASSUME NEW fmt \in Formats \cup {"Original"}, SetGlobalFormat(fmt) PROVE ret'.op = "idle"
  BY <1>2 DEF SetGlobalFormat, Idle
<1>3. ASSUME NEW fmt, ConvertCall(fmt) PROVE ret'.op = "convertFormat"
  BY <1>3 DEF ConvertCall
<1>4. ASSUME NEW e, NEW fmt, InitCall(e, fmt) PROVE ret'.op = "init"
  BY <1>4 DEF InitCall
<1>5. ASSUME NEW e, NEW fmt, NEW p, InitPalCall(e, fmt, p) PROVE ret'.op = "initPal"
  BY <1>5 DEF InitPalCall
<1>6. ClearCall => ret'.op = "clear"
  BY DEF ClearCall
<1>7. FlipCall => ret'.op = "flip"
  BY DEF FlipCall
<1>8. ASSUME NEW p, SetPaletteCall(p) PROVE ret'.op = "setPalette"
  BY <1>8 DEF SetPaletteCall
<1>9. ASSUME NEW e, NEW b, NEW p, CreateCall(e, b, p) \/ CreatePlayerCall(e, b, p) PROVE ret'.op = "create"
  BY <1>9 DEF CreateCall, CreatePlayerCall
<1>10. ASSUME NEW b, NEW p, NEW r, PrintCall(b, p, r) PROVE ret'.op = "print"
  BY <1>10 DEF PrintCall
<1>11. ASSUME NEW b, NEW p, NEW r, NEW only, PrintPlayerCall(b, p, r, only) PROVE ret'.op = "print"
  BY <1>11 DEF PrintPlayerCall
<1>12. ASSUME NEW f, NEW p, NEW code, NEW at, LoadRunsCall(f, p, at, code) \/ LoadRawCall(f, p, code)
       PROVE  ret'.op = "load"
  BY <1>12 DEF LoadRunsCall, LoadRawCall
<1>13. ASSUME NEW f, NEW p, NEW code, NEW noData, LoadShadowCall(f, p, code, noData)
       PROVE  ret'.op = "loadShadow"
  BY <1>13 DEF LoadShadowCall
<1>14. ASSUME NEW k, NEW c, SetPixelIdxCall(k, c) \/ SetPixelClrCall(k, c) PROVE ret'.op = "setPixel"
  BY <1>14 DEF SetPixelIdxCall, SetPixelClrCall
<1>15. ASSUME NEW f, NEW p, NEW code, LoadImageCall(f, p, code) PROVE ret'.op = "loadImage"
  BY <1>15 DEF LoadImageCall
<1> QED
  BY <1>1, <1>2, <1>3, <1>4, <1>5, <1>6, <1>7, <1>8, <1>9, <1>10, <1>11, <1>12, <1>13, <1>14, <1>15
     DEF Next

(* What a colour of the palette is looked up as is seen as that colour.    *)
LEMMA LookupFinds ==
  ASSUME NEW p \in Palette, NEW c, Lookup(p, c) # NotFound
  PROVE  /\ p.clr[Lookup(p, c)] = c
         /\ IsTransparent(p, Lookup(p, c)) =>
              p.hasT /\ p.clr[p.t] = c /\ \A n \in Idx \ {p.t} : p.clr[n] # c
<1> DEFINE opaque == {k \in Idx : p.clr[k] = c /\ ~IsTransparent(p, k)}
<1>1. opaque # {} => Min(opaque) \in opaque
  BY MinOfNats DEF Idx
<1>2. CASE opaque # {}
  BY <1>1, <1>2 DEF Lookup
<1>3. CASE opaque = {}
  <2>1. p.hasT /\ p.clr[p.t] = c /\ Lookup(p, c) = p.t
    BY <1>3 DEF Lookup
  <2>2. \A n \in Idx \ {p.t} : p.clr[n] # c
    BY <1>3 DEF IsTransparent
  <2> QED BY <2>1, <2>2
<1> QED BY <1>2, <1>3

(* convertFormat *)
LEMMA ConvertKeeps ==
  ASSUME NEW i, ImgOK(i), NEW fmt \in Formats \cup {"Original"}, ConvertImg(i, fmt).code = "NONE",
         i.pal # NoPal => Convertible(i, i.pal)
  PROVE  LET r == ConvertImg(i, fmt).img
         IN /\ View(r) = View(i) /\ r.w = i.w /\ r.pal = i.pal
            /\ r.player = i.player /\ r.tex = i.tex /\ DOMAIN r.px = DOMAIN i.px
<1> DEFINE conv == [k \in DOMAIN i.px |-> IF fmt = "BGRA" THEN ToBGRA(i.pal, i.px[k])
                                          ELSE ToIdx(i.pal, i.px[k])]
           r == [i EXCEPT !.px = conv, !.fmt = fmt]
           bad == NotFound \in {conv[k] : k \in DOMAIN conv}
<1>1. CASE fmt = "Original" \/ fmt = i.fmt
  BY <1>1 DEF ConvertImg, Result
<1>2. CASE ~(fmt = "Original" \/ fmt = i.fmt)
  <2>1. i.pal # NoPal
    BY <1>2 DEF ConvertImg, Result
  <2>2. ~bad /\ ConvertImg(i, fmt).img = r
    BY <1>2, <2>1 DEF ConvertImg, Result
  <2>3. /\ r.player = i.player /\ r.w = i.w /\ r.px = conv
        /\ r.fmt = fmt /\ r.pal = i.pal /\ r.tex = i.tex
    BY DEF ImgOK
  <2>4. /\ i.pal \in Palette /\ Convertible(i, i.pal)
        /\ <<i.fmt, fmt>> \in {<<"Paletted", "BGRA">>, <<"BGRA", "Paletted">>}
        /\ \A k \in DOMAIN i.px : i.px[k] \in PixelsOf(i.fmt)
    BY <1>2, <2>1 DEF ImgOK, Formats
  <2>5. ASSUME NEW k \in DOMAIN i.px
        PROVE  conv[k] # NotFound
    BY <2>2
  <2>6. ASSUME NEW k \in DOMAIN i.px
        PROVE  IF fmt = "Paletted" THEN ToBGRA(i.pal, conv[k]) = i.px[k]
               ELSE conv[k] = ToBGRA(i.pal, i.px[k])
    <3>1. CASE fmt = "BGRA"
      BY <3>1
    <3>2. CASE fmt = "Paletted"
      <4>0. conv[k] = ToIdx(i.pal, i.px[k]) /\ i.fmt = "BGRA"
        BY <2>4, <3>2
      <4>1. CASE i.px[k] = Transparent
        <5>1. conv[k] = i.pal.t /\ i.pal.hasT
          BY <2>4, <4>0, <4>1 DEF ToIdx, Convertible
        <5> QED BY <5>1, <3>2, <4>1 DEF ToBGRA, IsTransparent
      <4>2. CASE i.px[k] # Transparent
        <5>1. conv[k] = Lookup(i.pal, i.px[k])
          BY <4>0, <4>2 DEF ToIdx
        <5>2. i.pal.clr[conv[k]] = i.px[k]
          BY <5>1, <2>4, <2>5, LookupFinds
        <5>3. ~IsTransparent(i.pal, conv[k])
          <6> SUFFICES ASSUME IsTransparent(i.pal, conv[k]) PROVE FALSE
            OBVIOUS
          <6>1. i.px[k] = i.pal.clr[i.pal.t] /\ \A n \in Idx \ {i.pal.t} : i.pal.clr[n] # i.px[k]
            BY <5>1, <2>4, <2>5, LookupFinds
          <6> QED BY <6>1, <2>4, <4>0 DEF Convertible
        <5> QED BY <5>2, <5>3, <3>2 DEF ToBGRA
      <4> QED BY <4>1, <4>2
    <3> QED BY <2>4, <3>1, <3>2
  <2>7. DOMAIN conv = DOMAIN i.px
    OBVIOUS
  <2> HIDE DEF r, conv
  <2>8. ASSUME NEW k \in DOMAIN i.px
        PROVE  Sees(r, k) = Sees(i, k)
    BY <2>3, <2>4, <2>6 DEF Sees
  <2>9. View(r) = View(i) /\ DOMAIN r.px = DOMAIN i.px
    BY <2>3, <2>7, <2>8 DEF View
  <2> QED BY <2>2, <2>3, <2>9
<1> QED BY <1>1, <1>2

(* A buffer is no null pointer. *)
LEMMA BufferIsNotNull == \A b : IsBuffer(b) => b # NoBuf
<1>1. \A b : IsBuffer(b) => DOMAIN b = {"w", "h", "fmt", "px"}
  BY DEF IsBuffer
<1>2. DOMAIN NoBuf = {"null"}
  BY DEF NoBuf
<1> QED BY <1>1, <1>2

(* create with a buffer and a palette makes a bitmap of the buffer's       *)
(* format.                                                                 *)
LEMMA CreateMakes ==
  ASSUME NEW i, ImgOK(i), NEW w \in Nat, NEW h \in Nat, NEW b, IsBuffer(b), b # NoBuf, NEW p0 \in Palette
  PROVE  CreateImg(i, w, h, b, p0).img.fmt = b.fmt
<1> DEFINE j == InitPalImg(i, w, h, b.fmt, p0).img
           px == [k \in DOMAIN j.px |->
                    IF Covered(b, j.w, k) THEN b.px[BufIdx(b, j.w, k)] ELSE j.px[k]]
<1>1. p0 # NoPal /\ b.fmt \in Formats
  BY BitmapAssumption DEF IsBuffer
<1>2. CreateImg(i, w, h, b, p0).img = [j EXCEPT !.px = px]
  BY <1>1 DEF CreateImg, Result
<1>3. ImgOK(j) /\ j.fmt = b.fmt
  BY <1>1, ImgShape, InitPalMakesOK
<1> HIDE DEF j, px
<1> QED BY <1>2, <1>3 DEF ImgOK

(* convertFormat that succeeds has converted. *)
LEMMA ConvertMakes ==
  ASSUME NEW i, ImgOK(i), NEW fmt \in Formats, ConvertImg(i, fmt).code = "NONE"
  PROVE  ConvertImg(i, fmt).img.fmt = fmt
<1> DEFINE conv == [k \in DOMAIN i.px |-> IF fmt = "BGRA" THEN ToBGRA(i.pal, i.px[k])
                                          ELSE ToIdx(i.pal, i.px[k])]
<1>1. fmt # "Original"
  BY DEF Formats
<1>2. CASE fmt = i.fmt
  BY <1>1, <1>2 DEF ConvertImg, Result
<1>3. CASE fmt # i.fmt
  <2>1. ConvertImg(i, fmt).img = [i EXCEPT !.px = conv, !.fmt = fmt]
    BY <1>1, <1>3 DEF ConvertImg, Result
  <2> HIDE DEF conv
  <2> QED BY <2>1 DEF ImgOK
<1> QED BY <1>2, <1>3

(* The trailing part of the loaders: a BGRA bitmap loses its palette. *)
LEMMA DropPalMakes ==
  ASSUME NEW i, ImgOK(i)
  PROVE  DropPal(i).fmt = i.fmt /\ (i.fmt = "BGRA" => DropPal(i).pal = NoPal)
<1>1. CASE i.fmt = "BGRA"
  BY <1>1 DEF DropPal, SetPal, Result, ImgOK
<1>2. CASE i.fmt # "BGRA"
  BY <1>2 DEF DropPal
<1> QED BY <1>1, <1>2

(* A bitmap in the wanted format, without a palette if that is BGRA. *)
AsWanted(i) == i.fmt = Wanted /\ (i.fmt = "BGRA" => i.pal = NoPal)

LEMMA CreateConvertedMakes ==
  ASSUME NEW i, ImgOK(i), NEW f \in Files, NEW p \in Palette, NEW code,
         gfmt \in Formats \cup {"Original"}, CreateConverted(i, f, p, code).code = "NONE"
  PROVE  AsWanted(CreateConverted(i, f, p, code).img)
<1> DEFINE px == [k \in 0..(f.w * f.h - 1) |->
                    IF k \in DOMAIN f.put THEN FilePixel(f.put[k]) ELSE p.t]
           b == [w |-> f.w, h |-> f.h, fmt |-> "Paletted", px |-> px]
           j == CreateImg(i, f.w, f.h, b, p).img
           c == ConvertImg(j, Wanted)
<1>1. IsFile(f) /\ px \in [0..(f.w * f.h - 1) -> Idx]
  BY BitmapAssumption, FilePixelType DEF IsFile, Palette
<1>2. IsBuffer(b) /\ b # NoBuf
  <2> HIDE DEF px
  <2>1. IsBuffer(b)
    BY <1>1 DEF IsBuffer, IsFile, Formats, PixelsOf
  <2> QED BY <2>1, BufferIsNotNull
<1>3. CreateConverted(i, f, p, code) = IF c.code # "NONE" THEN c ELSE Result(DropPal(c.img), code)
  BY DEF CreateConverted
<1> HIDE DEF b
<1>4. ImgOK(j)
  BY <1>1, <1>2, CreateOK DEF IsFile
<1> HIDE DEF j
<1>5. ImgOK(c.img)
  BY <1>4, ConvertOK, WantedType
<1>6. c.code = "NONE" => c.img.fmt = Wanted
  BY <1>4, WantedType, ConvertMakes
<1> HIDE DEF c
<1>7. c.code = "NONE" /\ CreateConverted(i, f, p, code).img = DropPal(c.img)
  BY <1>3 DEF Result
<1> QED BY <1>5, <1>6, <1>7, DropPalMakes DEF AsWanted

(* The run-length loaders. *)
LEMMA LoadRunsMakes ==
  ASSUME NEW i, ImgOK(i), NEW f \in Files, NEW p \in Palette \cup {NoPal}, NEW at, NEW code,
         gfmt \in Formats \cup {"Original"}, <<at, code>> \in RunEnds,
         LoadRunsImg(i, f, p, at, code).code = "NONE"
  PROVE  AsWanted(LoadRunsImg(i, f, p, at, code).img)
<1> DEFINE image == LoadImageImg(Cleared(i), f, p, code)
<1>1. p # NoPal
  BY DEF LoadRunsImg, Result
<1>2. code = "NONE"
  BY <1>1 DEF LoadRunsImg, LoadImageImg, Result
<1>3. at = "end"
  BY <1>2 DEF RunEnds
<1>4. LoadRunsImg(i, f, p, at, code).img = DropPal(image.img)
  BY <1>1, <1>3 DEF LoadRunsImg, Result
<1>5. ImgOK(image.img) /\ image.img.fmt = Wanted
  BY <1>1, ClearedOK, LoadImageOK, BitmapAssumption
<1> HIDE DEF image
<1> QED BY <1>4, <1>5, DropPalMakes DEF AsWanted

(* The loader of raw bitmaps. *)
LEMMA LoadRawMakes ==
  ASSUME NEW i, ImgOK(i), NEW f \in Files, NEW p \in Palette \cup {NoPal}, NEW code,
         gfmt \in Formats \cup {"Original"}, LoadRawImg(i, f, p, code).code = "NONE"
  PROVE  AsWanted(LoadRawImg(i, f, p, code).img)
<1>1. p \in Palette /\ code \notin {"WRONG_HEADER", "WRONG_FORMAT"}
  BY DEF LoadRawImg, Result
<1>2. CASE f.w * f.h > 0
  BY <1>1, <1>2, CreateConvertedMakes, BitmapAssumption DEF LoadRawImg
<1>3. CASE ~(f.w * f.h > 0)
  <2> DEFINE q == IF Wanted = "Paletted" THEN p ELSE NoPal
             r == InitPalImg(i, 0, 0, Wanted, q).img
  <2>1. LoadRawImg(i, f, p, code).img = r
    BY <1>1, <1>3, BitmapAssumption DEF LoadRawImg, Result
  <2>2. q \in Palette \cup {NoPal} /\ (Wanted = "Paletted" => q # NoPal) /\ (Wanted = "BGRA" => q = NoPal)
    BY <1>1, BitmapAssumption
  <2> HIDE DEF q
  <2>3. r.pal = q /\ r.fmt = Wanted
    BY <2>2, WantedType, ImgShape, InitPalMakesOK
  <2> QED BY <2>1, <2>2, <2>3 DEF AsWanted
<1> QED BY <1>2, <1>3

(* The loader of shadows. *)
LEMMA LoadShadowMakes ==
  ASSUME NEW i, ImgOK(i), NEW f \in Files, NEW p \in Palette \cup {NoPal}, NEW code, NEW noData \in BOOLEAN,
         gfmt \in Formats \cup {"Original"}, LoadShadowImg(i, f, p, code, noData).code = "NONE"
  PROVE  LET r == LoadShadowImg(i, f, p, code, noData).img
         IN IF noData THEN r.fmt = "Paletted" /\ r.pal = p ELSE AsWanted(r)
<1>1. p \in Palette /\ code = "NONE" /\ ImgOK(Cleared(i))
  BY ClearedOK DEF LoadShadowImg, Result
<1>2. CASE noData
  <2>1. LoadShadowImg(i, f, p, code, noData) = InitPalImg(Cleared(i), f.w, f.h, "Paletted", p)
    BY <1>1, <1>2, BitmapAssumption DEF LoadShadowImg
  <2>2. f.w \in Nat /\ f.h \in Nat /\ "Paletted" \in Formats /\ p # NoPal
    BY <1>1, BitmapAssumption DEF IsFile, Formats
  <2> DEFINE c == Cleared(i)
             r == InitPalImg(c, f.w, f.h, "Paletted", p).img
  <2>3. Shape(c)
    BY <1>1, ImgShape
  <2>4. r.pal = p /\ r.fmt = "Paletted"
    <3> HIDE DEF c
    <3>1. r = InitPalImg(c, f.w, f.h, "Paletted", p).img
      OBVIOUS
    <3> HIDE DEF r
    <3> QED BY <2>2, <2>3, <3>1, InitPalMakesOK
  <2>5. LoadShadowImg(i, f, p, code, noData).img = r
    BY <2>1
  <2> HIDE DEF r
  <2> QED BY <1>2, <2>4, <2>5
<1>3. CASE ~noData
  <2>1. LoadShadowImg(i, f, p, code, noData) = CreateConverted(Cleared(i), f, p, "NONE")
    BY <1>1, <1>3, BitmapAssumption DEF LoadShadowImg
  <2> QED BY <1>1, <1>3, <2>1, CreateConvertedMakes
<1> QED BY <1>2, <1>3

(* A load that succeeds honours the global texture format, whatever the    *)
(* file is and whatever the bitmap was before, but for a shadow without    *)
(* data; the palette goes with the indices when a file is loaded, and      *)
(* stays when data in memory is.                                           *)
THEOREM LoadsHonourFormat == Spec => LoadHonoursFormat
<1>1. Consistent /\ [Next]_vars =>
        [ret'.code = "NONE" =>
           /\ ret'.op = "load" \/ (ret'.op = "loadShadow" /\ ~ret'.arg.noData) =>
                img'.fmt = Wanted /\ (img'.fmt = "BGRA" => img'.pal = NoPal)
           /\ ret'.op = "loadShadow" /\ ret'.arg.noData =>
                img'.fmt = "Paletted" /\ img'.pal = ret'.arg.pal
           /\ ret'.op = "loadImage" =>
                img'.fmt = Wanted /\ img'.pal = ret'.arg.pal]_vars
  <2> SUFFICES ASSUME Consistent, Next, ret'.code = "NONE"
               PROVE  /\ ret'.op = "load" \/ (ret'.op = "loadShadow" /\ ~ret'.arg.noData) =>
                           img'.fmt = Wanted /\ (img'.fmt = "BGRA" => img'.pal = NoPal)
                      /\ ret'.op = "loadShadow" /\ ret'.arg.noData =>
                           img'.fmt = "Paletted" /\ img'.pal = ret'.arg.pal
                      /\ ret'.op = "loadImage" =>
                           img'.fmt = Wanted /\ img'.pal = ret'.arg.pal
    OBVIOUS
  <2>0. ImgOK(img) /\ gfmt \in Formats \cup {"Original"} /\ AnyPal \subseteq Palette \cup {NoPal}
    BY ArgTypes DEF Consistent
  <2>1. ASSUME ret'.op = "load", ret'.code = "NONE"
        PROVE  img'.fmt = Wanted /\ (img'.fmt = "BGRA" => img'.pal = NoPal)
    <3>1. PICK p \in AnyPal, f \in Files, code \in LoadCodes, at \in {"header", "rows", "end"} :
            LoadRunsCall(f, p, at, code) \/ LoadRawCall(f, p, code)
      BY <2>1, CallsByName
    <3>2. CASE LoadRunsCall(f, p, at, code)
      <4>1. /\ img' = LoadRunsImg(img, f, p, at, code).img
            /\ LoadRunsImg(img, f, p, at, code).code = "NONE"
            /\ <<at, code>> \in RunEnds
        BY <2>1, <3>2 DEF LoadRunsCall, Returns
      <4> QED BY <4>1, <2>0, LoadRunsMakes DEF AsWanted
    <3>3. CASE LoadRawCall(f, p, code)
      <4>1. img' = LoadRawImg(img, f, p, code).img /\ LoadRawImg(img, f, p, code).code = "NONE"
        BY <2>1, <3>3 DEF LoadRawCall, Returns
      <4> QED BY <4>1, <2>0, LoadRawMakes DEF AsWanted
    <3> QED BY <3>1, <3>2, <3>3
  <2>2. ASSUME ret'.op = "loadImage", ret'.code = "NONE"
        PROVE  img'.fmt = Wanted /\ img'.pal = ret'.arg.pal
    <3>1. PICK p \in AnyPal, f \in Files, code \in LoadCodes : LoadImageCall(f, p, code)
      BY <2>2, CallsByName
    <3>2. /\ img' = LoadImageImg(img, f, p, code).img /\ LoadImageImg(img, f, p, code).code = "NONE"
          /\ ret'.arg.pal = p
      BY <2>2, <3>1 DEF LoadImageCall, Returns
    <3>3. p # NoPal
      BY <3>2 DEF LoadImageImg, Result
    <3>4. IsFile(f)
      BY BitmapAssumption
    <3> QED BY <3>2, <3>3, <3>4, <2>0, LoadImageOK
  <2>3. ASSUME ret'.op = "loadShadow", ret'.code = "NONE"
        PROVE  IF ret'.arg.noData THEN img'.fmt = "Paletted" /\ img'.pal = ret'.arg.pal
               ELSE img'.fmt = Wanted /\ (img'.fmt = "BGRA" => img'.pal = NoPal)
    <3>1. PICK p \in AnyPal, f \in Files, code \in LoadCodes, noData \in BOOLEAN : LoadShadowCall(f, p, code, noData)
      BY <2>3, CallsByName
    <3>2. /\ img' = LoadShadowImg(img, f, p, code, noData).img
          /\ LoadShadowImg(img, f, p, code, noData).code = "NONE"
          /\ ret'.arg.pal = p /\ ret'.arg.noData = noData
      BY <2>3, <3>1 DEF LoadShadowCall, Returns
    <3> QED BY <3>2, <2>0, LoadShadowMakes DEF AsWanted
  <2> QED BY <2>1, <2>2, <2>3
<1> QED BY <1>1, BitmapConsistent, PTL DEF Spec, LoadHonoursFormat

(* What a failed call may leave. *)
LeftBy(i, op, r) ==
  LET was == IF op = "initPal" THEN [i EXCEPT !.pal = r.pal] ELSE i
  IN r = was \/ r = Cleared(was)

LEMMA InitPalFails ==
  ASSUME NEW i, ImgOK(i), NEW w, NEW h, NEW fmt \in Formats \cup {"Original"},
         NEW p \in Palette \cup {NoPal}, InitPalImg(i, w, h, fmt, p).code # "NONE"
  PROVE  LeftBy(i, "initPal", InitPalImg(i, w, h, fmt, p).img)
<1> DEFINE j == IF fmt = "BGRA" THEN [i EXCEPT !.fmt = "BGRA"] ELSE i
           s == [i EXCEPT !.pal = p]
<1>1. [i EXCEPT !.pal = i.pal] = i
  BY DEF ImgOK
<1>2. CASE fmt = "Paletted" /\ p = NoPal
  BY <1>1, <1>2 DEF InitPalImg, Result, LeftBy
<1>3. CASE ~(fmt = "Paletted" /\ p = NoPal)
  <2>1. CASE SetPal(j, p).code = "throw"
    <3>1. j.fmt = "Paletted" /\ InitPalImg(i, w, h, fmt, p).img = j
      BY <2>1, <1>3 DEF SetPal, InitPalImg, Result
    <3>2. j = i
      BY <3>1 DEF ImgOK
    <3> HIDE DEF j
    <3> QED BY <3>1, <3>2, <1>1 DEF LeftBy
  <2>2. CASE SetPal(j, p).code # "throw"
    <3> DEFINE t == [j EXCEPT !.pal = p]
    <3>1. SetPal(j, p).img = t
      BY <2>2 DEF SetPal, Result
    <3>2. InitPalImg(i, w, h, fmt, p) = InitImg(t, w, h, fmt)
      BY <3>1, <2>2, <1>3 DEF InitPalImg
    <3>3. t.pal = p
      BY DEF ImgOK
    <3>4. fmt = "Original"
      BY <3>2, <3>3, <1>3 DEF InitImg, Result
    <3>5. InitPalImg(i, w, h, fmt, p).img = s
      BY <3>2, <3>4 DEF InitImg, Result
    <3>6. s.pal = p
      BY DEF ImgOK
    <3> QED BY <3>5, <3>6 DEF LeftBy
  <2> QED BY <2>1, <2>2
<1> QED BY <1>2, <1>3

(* Every failed call of these leaves the bitmap as it was, or empty. *)
THEOREM FailuresKeepOrEmpty == Spec => FailureKeepsOrEmpties
<1>1. Consistent /\ [Next]_vars =>
        [/\ ret'.code # "NONE" /\ ret'.op \in {"init", "initPal", "setPalette", "convertFormat",
                                               "setPixel", "create", "print"}
         /\ ~(ret'.op = "create" /\ ret'.code = "throw")
         => LET was == IF ret'.op = "initPal" THEN [img EXCEPT !.pal = img'.pal] ELSE img
            IN img' = was \/ img' = Cleared(was)]_vars
  <2> SUFFICES ASSUME Consistent, Next, ret'.code # "NONE",
                      ret'.op \in {"init", "initPal", "setPalette", "convertFormat",
                                   "setPixel", "create", "print"},
                      ~(ret'.op = "create" /\ ret'.code = "throw")
               PROVE  LeftBy(img, ret'.op, img')
    BY DEF LeftBy
  <2>0. ImgOK(img)
    BY DEF Consistent
  <2>1. CASE ret'.op = "init"
    <3>1. PICK e \in Extents, fmt \in Formats \cup {"Original"} : InitCall(e, fmt)
      BY <2>1, CallsByName
    <3> QED BY <3>1, <2>1 DEF InitCall, Returns, InitImg, Result, LeftBy
  <2>2. CASE ret'.op = "initPal"
    <3>1. PICK e \in Extents, fmt \in Formats \cup {"Original"}, p \in AnyPal : InitPalCall(e, fmt, p)
      BY <2>2, CallsByName
    <3>2. img' = InitPalImg(img, e[1], e[2], fmt, p).img /\ InitPalImg(img, e[1], e[2], fmt, p).code # "NONE"
      BY <3>1 DEF InitPalCall, Returns
    <3> QED BY <3>2, <2>0, <2>2, InitPalFails, ArgTypes
  <2>3. CASE ret'.op = "setPalette"
    <3>1. PICK p \in AnyPal : SetPaletteCall(p)
      BY <2>3, CallsByName
    <3> QED BY <3>1, <2>3 DEF SetPaletteCall, Returns, SetPal, Result, LeftBy
  <2>4. CASE ret'.op = "convertFormat"
    <3>1. PICK fmt \in Formats \cup {"Original"} : ConvertCall(fmt)
      BY <2>4, CallsByName
    <3> QED BY <3>1, <2>4 DEF ConvertCall, Returns, ConvertImg, Result, LeftBy
  <2>5. CASE ret'.op = "setPixel"
    <3>1. PICK k \in DOMAIN img.px : \/ \E c \in Idx : SetPixelIdxCall(k, c)
                                     \/ \E c \in BGRA : SetPixelClrCall(k, c)
      BY <2>5, CallsByName
    <3> QED BY <3>1, <2>5 DEF SetPixelIdxCall, SetPixelClrCall, Returns, SetClrImg, Result, LeftBy
  <2>6. CASE ret'.op = "create"
    <3>1. PICK e \in Extents, b \in Buffers \cup {NoBuf}, p \in AnyPal :
            CreateCall(e, b, p) \/ CreatePlayerCall(e, b, p)
      BY <2>6, CallsByName
    <3>2. ret'.code # "throw"
      BY <2>6
    <3>3. CASE CreateCall(e, b, p)
      BY <3>2, <3>3, <2>6 DEF CreateCall, Returns, CreateImg, Result, LeftBy
    <3>4. CASE CreatePlayerCall(e, b, p)
      <4>1. PICK q : Returns("create", CreatePlayerImg(img, e[1], e[2], b, p, q), [buf |-> b, pal |-> p])
        BY <3>4 DEF CreatePlayerCall
      <4> DEFINE r == CreatePlayerImg(img, e[1], e[2], b, p, q)
      <4>2. r.code \in {"NONE", "throw"} \/ r.img = img
        BY DEF CreatePlayerImg, Result
      <4> HIDE DEF r
      <4>3. img' = r.img /\ ret'.code = r.code
        BY <4>1 DEF Returns, r
      <4> QED BY <4>2, <4>3, <3>2, <2>6 DEF LeftBy
    <3> QED BY <3>1, <3>3, <3>4
  <2>7. CASE ret'.op = "print"
    <3>1. PICK p \in AnyPal, b \in Targets \cup {NoBuf}, r \in Rects, only \in BOOLEAN :
            PrintCall(b, p, r) \/ PrintPlayerCall(b, p, r, only)
      BY <2>7, CallsByName
    <3> QED BY <3>1, <2>7 DEF PrintCall, PrintPlayerCall, Returns, Result, LeftBy
  <2> QED BY <2>1, <2>2, <2>3, <2>4, <2>5, <2>6, <2>7
<1> QED BY <1>1, BitmapConsistent, PTL DEF Spec, FailureKeepsOrEmpties

-------------------------------------------------------------------------------
(* print *)

LEMMA MinOfTwo ==
  ASSUME NEW a \in Nat, NEW b \in Nat
  PROVE  LET m == Min({a, b}) IN m \in Nat /\ m =< a /\ m =< b /\ (m = a \/ m = b)
<1>1. {a, b} \subseteq Nat /\ {a, b} # {}
  OBVIOUS
<1>2. Min({a, b}) \in {a, b} /\ \A k \in {a, b} : Min({a, b}) =< k
  BY <1>1, MinOfNats
<1> QED BY <1>2

(* A clipped axis ends within the limit and is no longer than asked. *)
LEMMA ClipFacts ==
  ASSUME NEW off \in Nat, NEW size \in Nat, NEW limit \in Nat
  PROVE  LET c == ClipAxis(off, size, limit)
         IN c.o \in Nat /\ c.n \in Nat /\ c.o + c.n =< limit /\ c.n =< size /\ (c.n # 0 => c.o = off)
<1>1. CASE off < limit
  <2> DEFINE m == Min({size, limit - off})
  <2>1. limit - off \in Nat
    BY <1>1
  <2>2. m \in Nat /\ m =< size /\ m =< limit - off
    BY <2>1, MinOfTwo
  <2>3. ClipAxis(off, size, limit) = [o |-> off, n |-> m]
    BY <1>1 DEF ClipAxis
  <2> HIDE DEF m
  <2> QED BY <1>1, <2>2, <2>3
<1>2. CASE ~(off < limit)
  BY <1>2 DEF ClipAxis
<1> QED BY <1>1, <1>2

(* The cells print writes: inside the buffer, right and below of the       *)
(* target, no more than asked for, each copied from a pixel of the bitmap. *)
LEMMA PrintMapInside ==
  ASSUME NEW i, ImgOK(i), NEW b, IsBuffer(b),
         NEW r \in [toX : Nat, toY : Nat, x : Nat, y : Nat, w : Nat, h : Nat]
  PROVE  LET map == PrintMap(i, b, r)
         IN /\ DOMAIN map \subseteq DOMAIN b.px
            /\ \A k \in DOMAIN map :
                 /\ map[k] \in DOMAIN i.px
                 /\ k % b.w >= r.toX /\ k \div b.w >= r.toY
                 /\ r.w # 0 => k % b.w < r.toX + r.w
                 /\ r.h # 0 => k \div b.w < r.toY + r.h
<1> DEFINE fw == IF r.w = 0 /\ r.x < i.w THEN i.w - r.x ELSE r.w
           fh == IF r.h = 0 /\ r.y < i.h THEN i.h - r.y ELSE r.h
           sx == ClipAxis(r.x, fw, i.w)
           sy == ClipAxis(r.y, fh, i.h)
           dx == ClipAxis(r.toX, b.w, b.w)
           dy == ClipAxis(r.toY, b.h, b.h)
           cw == Min({sx.n, dx.n})
           ch == Min({sy.n, dy.n})
           cells == {k \in DOMAIN b.px : /\ (k % b.w) \in dx.o..(dx.o + cw - 1)
                                         /\ (k \div b.w) \in dy.o..(dy.o + ch - 1)}
           from(k) == ((k \div b.w) - dy.o + sy.o) * i.w + ((k % b.w) - dx.o + sx.o)
<1>1. PrintMap(i, b, r) = [k \in cells |-> from(k)]
  BY DEF PrintMap
<1>2. /\ i.w \in Nat /\ i.h \in Nat /\ b.w \in Nat /\ b.h \in Nat
      /\ r.toX \in Nat /\ r.toY \in Nat /\ r.x \in Nat /\ r.y \in Nat /\ r.w \in Nat /\ r.h \in Nat
      /\ DOMAIN b.px = 0..(b.w * b.h - 1) /\ DOMAIN i.px = 0..(i.w * i.h - 1)
  BY DEF ImgOK, IsBuffer
<1>3. fw \in Nat /\ fh \in Nat /\ (r.w # 0 => fw = r.w) /\ (r.h # 0 => fh = r.h)
  BY <1>2
<1> HIDE DEF fw, fh
<1>4. /\ sx.o \in Nat /\ sx.n \in Nat /\ sx.o + sx.n =< i.w /\ sx.n =< fw
      /\ sy.o \in Nat /\ sy.n \in Nat /\ sy.o + sy.n =< i.h /\ sy.n =< fh
      /\ dx.o \in Nat /\ dx.n \in Nat /\ (dx.n # 0 => dx.o = r.toX)
      /\ dy.o \in Nat /\ dy.n \in Nat /\ (dy.n # 0 => dy.o = r.toY)
  <2>1. /\ sx.o \in Nat /\ sx.n \in Nat /\ sx.o + sx.n =< i.w /\ sx.n =< fw
    BY <1>2, <1>3, ClipFacts
  <2>2. /\ sy.o \in Nat /\ sy.n \in Nat /\ sy.o + sy.n =< i.h /\ sy.n =< fh
    BY <1>2, <1>3, ClipFacts
  <2>3. dx.o \in Nat /\ dx.n \in Nat /\ (dx.n # 0 => dx.o = r.toX)
    BY <1>2, ClipFacts
  <2>4. dy.o \in Nat /\ dy.n \in Nat /\ (dy.n # 0 => dy.o = r.toY)
    BY <1>2, ClipFacts
  <2> HIDE DEF sx, sy, dx, dy
  <2> QED BY <2>1, <2>2, <2>3, <2>4
<1> HIDE DEF sx, sy, dx, dy
<1>5. cw \in Nat /\ cw =< sx.n /\ cw =< dx.n /\ ch \in Nat /\ ch =< sy.n /\ ch =< dy.n
  BY <1>4, MinOfTwo
<1> HIDE DEF cw, ch
<1>6. ASSUME NEW k \in cells
      PROVE  /\ from(k) \in DOMAIN i.px
             /\ k % b.w >= r.toX /\ k \div b.w >= r.toY
             /\ r.w # 0 => k % b.w < r.toX + r.w
             /\ r.h # 0 => k \div b.w < r.toY + r.h
  <2> DEFINE x == k % b.w
             y == k \div b.w
             fx == x - dx.o + sx.o
             fy == y - dy.o + sy.o
  <2>1. x \in dx.o..(dx.o + cw - 1) /\ y \in dy.o..(dy.o + ch - 1)
    OBVIOUS
  <2> HIDE DEF x, y
  <2>2. dx.o = r.toX /\ dy.o = r.toY /\ x \in Int /\ y \in Int
    BY <2>1, <1>4, <1>5
  <2>3. fx \in Nat /\ fy \in Nat /\ fx < i.w /\ fy < i.h
    <3>1. ASSUME NEW z \in Int, NEW o \in Nat, NEW n \in Nat, z \in o..(o + n - 1),
                 NEW so \in Nat, NEW sn \in Nat, n =< sn, NEW lim \in Nat, so + sn =< lim
          PROVE  z - o + so \in Nat /\ z - o + so < lim
      BY <3>1
    <3> QED BY <3>1, <2>1, <2>2, <1>2, <1>4, <1>5
  <2> HIDE DEF fx, fy
  <2>4. fy * i.w + fx \in DOMAIN i.px
    BY <2>3, <1>2, CellIndex
  <2>5. from(k) \in DOMAIN i.px
    BY <2>4 DEF x, y, fx, fy
  <2>6. /\ x >= r.toX /\ y >= r.toY
        /\ r.w # 0 => x < r.toX + r.w
        /\ r.h # 0 => y < r.toY + r.h
    <3>1. ASSUME NEW z \in Int, NEW o \in Nat, NEW n \in Nat, z \in o..(o + n - 1), NEW m \in Nat, n =< m
          PROVE  z >= o /\ z < o + m
      BY <3>1
    <3>2. cw =< fw /\ ch =< fh
      BY <1>3, <1>4, <1>5
    <3> QED BY <3>1, <3>2, <2>1, <2>2, <1>2, <1>3, <1>4, <1>5
  <2> QED BY <2>5, <2>6 DEF x, y
<1>7. cells \subseteq DOMAIN b.px
  OBVIOUS
<1> HIDE DEF cells, from
<1> QED BY <1>1, <1>6, <1>7

(* What the copy writes is in its map, and of a plain bitmap no            *)
(* transparent pixel.                                                      *)
LEMMA CopyInside ==
  ASSUME NEW i, ImgOK(i), NEW b, IsBuffer(b), NEW dstPal, NEW map,
         \A k \in DOMAIN map : map[k] \in DOMAIN i.px
  PROVE  LET o == CopyPixels(i, b, dstPal, map).buf
         IN /\ DOMAIN o.px = DOMAIN b.px
            /\ \A k \in DOMAIN b.px : o.px[k] # b.px[k] =>
                 k \in DOMAIN map /\ (b.fmt = "BGRA" => o.px[k] # Transparent)
<1> DEFINE skips(s) == IF i.fmt = "Paletted" THEN IsTransparent(i.pal, i.px[s])
                       ELSE i.px[s] = Transparent
           out(s)   == IF i.fmt = b.fmt THEN i.px[s]
                       ELSE IF i.fmt = "Paletted" THEN i.pal.clr[i.px[s]]
                       ELSE Lookup(dstPal, i.px[s])
           put  == {k \in DOMAIN map : ~skips(map[k])}
           bad  == {k \in put : out(map[k]) = NotFound}
           done == {k \in put : \A n \in bad : k < n}
           px   == [k \in DOMAIN b.px |-> IF k \in done THEN out(map[k]) ELSE b.px[k]]
<1>1. CopyPixels(i, b, dstPal, map).buf.px = px
  BY DEF CopyPixels, IsBuffer
<1>2. ASSUME NEW k \in done, b.fmt = "BGRA"
      PROVE  out(map[k]) # Transparent
  <2>1. map[k] \in DOMAIN i.px /\ ~skips(map[k])
    OBVIOUS
  <2>2. CASE i.fmt = "BGRA"
    BY <2>1, <2>2, <1>2
  <2>3. CASE i.fmt = "Paletted"
    <3>1. i.px[map[k]] \in Idx /\ i.pal \in Palette
      BY <2>1, <2>3 DEF ImgOK, PixelsOf
    <3>2. i.pal.clr[i.px[map[k]]] \in Colors
      BY <3>1 DEF Palette
    <3> QED BY <3>2, <2>3, <1>2, BitmapAssumption
  <2> QED BY <2>2, <2>3 DEF ImgOK, Formats
<1>3. done \subseteq DOMAIN map
  OBVIOUS
<1> HIDE DEF done, out
<1>4. \A k \in DOMAIN b.px : px[k] # b.px[k] => k \in done /\ px[k] = out(map[k])
  OBVIOUS
<1>5. DOMAIN px = DOMAIN b.px
  OBVIOUS
<1> HIDE DEF px
<1> QED BY <1>1, <1>2, <1>3, <1>4, <1>5

(* print of a plain bitmap and of a player bitmap. *)
LEMMA PrintInside ==
  ASSUME NEW i, ImgOK(i), NEW b, IsBuffer(b), NEW p0, NEW r, NEW map, map = PrintMap(i, b, r),
         \A k \in DOMAIN map : map[k] \in DOMAIN i.px
  PROVE  LET o == PrintBuf(i, b, p0, r).buf
         IN /\ DOMAIN o.px = DOMAIN b.px
            /\ \A k \in DOMAIN b.px : o.px[k] # b.px[k] =>
                 k \in DOMAIN map /\ (b.fmt = "BGRA" => o.px[k] # Transparent)
<1> DEFINE p == IF p0 = NoPal THEN i.pal ELSE p0
<1>1. PrintBuf(i, b, p0, r).buf = b \/ PrintBuf(i, b, p0, r).buf = CopyPixels(i, b, p, map).buf
  BY DEF PrintBuf
<1> HIDE DEF p
<1> QED BY <1>1, CopyInside

LEMMA PrintPlayerInside ==
  ASSUME NEW i, ImgOK(i), NEW b, IsBuffer(b), NEW p0, NEW r, NEW only, NEW map, map = PrintMap(i, b, r),
         \A k \in DOMAIN map : map[k] \in DOMAIN i.px
  PROVE  LET o == PrintPlayerBuf(i, b, p0, r, only).buf
         IN /\ DOMAIN o.px = DOMAIN b.px
            /\ \A k \in DOMAIN b.px : o.px[k] # b.px[k] => k \in DOMAIN map
<1> DEFINE p    == IF p0 = NoPal THEN i.pal ELSE p0
           base == IF only THEN [buf |-> b, code |-> "NONE"] ELSE CopyPixels(i, b, p, map)
           clr(s) == (i.tex[s] + PlayerStart) % NumIdx
           out(s) == IF b.fmt = "Paletted" THEN clr(s)
                     ELSE IF i.fmt = "BGRA" /\ i.px[s] = Transparent THEN Transparent
                     ELSE p.clr[clr(s)]
           o == PrintPlayerBuf(i, b, p0, r, only).buf
           px == [k \in DOMAIN b.px |->
                    IF k \in DOMAIN map /\ i.tex[map[k]] # NoPlayer THEN out(map[k]) ELSE base.buf.px[k]]
<1>1. /\ DOMAIN base.buf.px = DOMAIN b.px
      /\ \A k \in DOMAIN b.px : base.buf.px[k] # b.px[k] => k \in DOMAIN map
  BY CopyInside
<1>2. base.buf = [base.buf EXCEPT !.px = base.buf.px] /\ base = [base EXCEPT !.buf = base.buf]
  BY DEF CopyPixels, IsBuffer
<1>3. \/ o = b
      \/ o = base.buf
      \/ o = [base EXCEPT !.buf.px = px].buf
  BY DEF PrintPlayerBuf
<1>4. [base EXCEPT !.buf.px = px].buf.px = px
  BY DEF CopyPixels, IsBuffer
<1>5. DOMAIN px = DOMAIN b.px /\ \A k \in DOMAIN b.px : k \notin DOMAIN map => px[k] = base.buf.px[k]
  OBVIOUS
<1> HIDE DEF px, base, o
<1> QED BY <1>1, <1>3, <1>4, <1>5 DEF o

(* print into any buffer, from any bitmap, writes inside what was asked    *)
(* for, and a plain bitmap no transparent pixel.                           *)
THEOREM PrintsStayInside == Spec => PrintStaysInside
<1>1. Consistent /\ [Next]_vars =>
        [LET a == ret'.arg
         IN ret'.op = "print" /\ a.buf # NoBuf
            => /\ DOMAIN a.out.px = DOMAIN a.buf.px
               /\ \A k \in DOMAIN a.buf.px :
                    a.out.px[k] # a.buf.px[k] =>
                      /\ (k % a.buf.w) >= a.rect.toX /\ (k \div a.buf.w) >= a.rect.toY
                      /\ a.rect.w # 0 => (k % a.buf.w) < a.rect.toX + a.rect.w
                      /\ a.rect.h # 0 => (k \div a.buf.w) < a.rect.toY + a.rect.h
                      /\ ~img.player /\ a.buf.fmt = "BGRA" => a.out.px[k] # Transparent]_vars
  <2> SUFFICES ASSUME Consistent, Next, ret'.op = "print", NEW a, a = ret'.arg, a.buf # NoBuf
               PROVE  /\ DOMAIN a.out.px = DOMAIN a.buf.px
                      /\ \A k \in DOMAIN a.buf.px :
                           a.out.px[k] # a.buf.px[k] =>
                             /\ (k % a.buf.w) >= a.rect.toX /\ (k \div a.buf.w) >= a.rect.toY
                             /\ a.rect.w # 0 => (k % a.buf.w) < a.rect.toX + a.rect.w
                             /\ a.rect.h # 0 => (k \div a.buf.w) < a.rect.toY + a.rect.h
                             /\ ~img.player /\ a.buf.fmt = "BGRA" => a.out.px[k] # Transparent
    OBVIOUS
  <2>1. PICK p \in AnyPal, b \in Targets \cup {NoBuf}, r \in Rects, only \in BOOLEAN :
          PrintCall(b, p, r) \/ PrintPlayerCall(b, p, r, only)
    BY CallsByName
  <2>2. a.buf = b /\ a.rect = r
    BY <2>1 DEF PrintCall, PrintPlayerCall, Returns
  <2>3. /\ ImgOK(img) /\ IsBuffer(b)
        /\ r \in [toX : Nat, toY : Nat, x : Nat, y : Nat, w : Nat, h : Nat]
    BY <2>2, BitmapAssumption DEF Consistent
  <2> DEFINE map == PrintMap(img, b, r)
  <2>4. \A k \in DOMAIN map :
          /\ map[k] \in DOMAIN img.px
          /\ k % b.w >= r.toX /\ k \div b.w >= r.toY
          /\ r.w # 0 => k % b.w < r.toX + r.w
          /\ r.h # 0 => k \div b.w < r.toY + r.h
    BY <2>3, PrintMapInside
  <2>5. /\ DOMAIN a.out.px = DOMAIN b.px
        /\ \A k \in DOMAIN b.px : a.out.px[k] # b.px[k] =>
             k \in DOMAIN map /\ (~img.player /\ b.fmt = "BGRA" => a.out.px[k] # Transparent)
    <3>1. CASE PrintCall(b, p, r)
      <4>1. a.out = PrintBuf(img, b, p, r).buf
        BY <3>1 DEF PrintCall, Returns
      <4> QED BY <4>1, <2>3, <2>4, PrintInside
    <3>2. CASE PrintPlayerCall(b, p, r, only)
      <4>1. a.out = PrintPlayerBuf(img, b, p, r, only).buf /\ img.player
        BY <3>2 DEF PrintPlayerCall, Returns
      <4> QED BY <4>1, <2>3, <2>4, PrintPlayerInside
    <3> QED BY <2>1, <3>1, <3>2
  <2> HIDE DEF map
  <2> QED BY <2>2, <2>4, <2>5
<1> QED BY <1>1, BitmapConsistent, PTL DEF Spec, PrintStaysInside

-------------------------------------------------------------------------------
(* create, then print *)

LEMMA Division ==
  ASSUME NEW w \in Nat, w > 0, NEW k \in Nat
  PROVE  k = w * (k \div w) + (k % w)
  BY SMT

(* The row and the column of a cell. *)
LEMMA CellOf ==
  ASSUME NEW w \in Nat, NEW x \in 0..(w - 1), NEW y \in Nat
  PROVE  (y * w + x) % w = x /\ (y * w + x) \div w = y
<1> DEFINE k == y * w + x
           d == k \div w
           m == k % w
<1>1. y * w \in Nat /\ w > 0 /\ k \in Nat
  BY SMT
<1>2. k = w * d + m /\ m \in 0..(w - 1) /\ d \in Int
  BY <1>1, SMT
<1>3. k = w * y + x
  BY <1>1, SMT
<1> HIDE DEF k, d, m
<1>4. w * (d - y) = x - m
  <2>1. w * (d - y) = w * d - w * y
    BY <1>2, SMT
  <2>2. w * d \in Int /\ w * y \in Int /\ x \in Int /\ m \in Int
    BY <1>2, SMT
  <2> QED BY <2>1, <2>2, <1>2, <1>3
<1>5. d - y = 0
  <2>1. CASE d - y > 0
    <3>1. w * (d - y) >= w
      BY <2>1, <1>1, <1>2, SMT
    <3> QED BY <3>1, <1>2, <1>4
  <2>2. CASE d - y < 0
    <3>1. w * (d - y) =< -w
      BY <2>2, <1>1, <1>2, SMT
    <3> QED BY <3>1, <1>2, <1>4
  <2> QED BY <2>1, <2>2, <1>2
<1>6. d = y
  BY <1>2, <1>5
<1>7. w * (d - y) = 0
  BY <1>6, SMT
<1>8. m = x
  BY <1>2, <1>4, <1>7
<1> QED BY <1>6, <1>8 DEF d, m, k

(* What init with a palette fills the layers with. *)
BlankOf(fmt, p) == IF fmt = "Paletted" THEN p.t ELSE Transparent

LEMMA InitPalFills ==
  ASSUME NEW i, Shape(i), NEW w \in Nat, NEW h \in Nat, NEW fmt \in Formats,
         NEW p \in Palette \cup {NoPal}, fmt = "Paletted" => p # NoPal
  PROVE  LET r == InitPalImg(i, w, h, fmt, p).img
         IN /\ r.px = Fill(r.w * r.h, BlankOf(fmt, p))
            /\ r.tex = Fill(IF i.player THEN r.w * r.h ELSE 0, NoPlayer)
<1> DEFINE j == IF fmt = "BGRA" THEN [i EXCEPT !.fmt = "BGRA"] ELSE i
           s == [j EXCEPT !.pal = p]
           W == IF h = 0 THEN 0 ELSE w
           H == IF w = 0 THEN 0 ELSE h
           px == Fill(W * H, IF fmt = "Paletted" THEN s.pal.t ELSE Transparent)
           tex == Fill(IF s.player THEN W * H ELSE 0, NoPlayer)
           c == Cleared(s)
           r == [c EXCEPT !.w = W, !.h = H, !.fmt = fmt, !.px = px, !.tex = tex]
<1>1. Shape(j) /\ j.player = i.player /\ ~(p = NoPal /\ j.fmt = "Paletted")
  BY DEF Shape, Formats
<1>2. SetPal(j, p) = Result(s, "NONE")
  BY <1>1 DEF SetPal
<1>3. InitPalImg(i, w, h, fmt, p) = InitImg(s, w, h, fmt)
  BY <1>2 DEF InitPalImg, Result
<1> HIDE DEF j
<1>4. Shape(s) /\ s.player = i.player /\ s.pal = p
  BY <1>1 DEF Shape
<1> HIDE DEF s
<1>5. InitImg(s, w, h, fmt).img = r
  BY <1>4 DEF InitImg, Result, Formats
<1>6. Shape(c)
  BY <1>4, ClearedShape
<1> HIDE DEF c, px, tex
<1>7. r.w = W /\ r.h = H /\ r.px = px /\ r.tex = tex
  BY <1>6 DEF Shape
<1> HIDE DEF r, W, H
<1> QED BY <1>3, <1>4, <1>5, <1>7 DEF px, tex, BlankOf

LEMMA InitPalMakesImg ==
  ASSUME NEW i, ImgOK(i), NEW w \in Nat, NEW h \in Nat, NEW fmt \in Formats,
         NEW p \in Palette \cup {NoPal}, fmt = "Paletted" => p # NoPal
  PROVE  /\ ImgOK(InitPalImg(i, w, h, fmt, p).img)
         /\ InitPalImg(i, w, h, fmt, p).img.player = i.player
         /\ InitPalImg(i, w, h, fmt, p).img.pal = p
         /\ InitPalImg(i, w, h, fmt, p).img.fmt = fmt
  BY ImgShape, InitPalMakesOK

(* create of a plain bitmap that succeeds, pixel by pixel. *)
LEMMA CreateTakes ==
  ASSUME NEW i, ImgOK(i), NEW w \in Nat, NEW h \in Nat, NEW b, IsBuffer(b), b # NoBuf,
         NEW p \in Palette
  PROVE  LET r == CreateImg(i, w, h, b, p).img
         IN /\ ImgOK(r) /\ r.player = i.player /\ r.fmt = b.fmt /\ r.pal = p
            /\ \A k \in DOMAIN r.px :
                 r.px[k] = IF Covered(b, r.w, k) THEN b.px[BufIdx(b, r.w, k)] ELSE BlankOf(b.fmt, p)
<1> DEFINE j == InitPalImg(i, w, h, b.fmt, p).img
           px == [k \in DOMAIN j.px |->
                    IF Covered(b, j.w, k) THEN b.px[BufIdx(b, j.w, k)] ELSE j.px[k]]
           r == CreateImg(i, w, h, b, p).img
<1>1. p # NoPal /\ b.fmt \in Formats
  BY BitmapAssumption DEF IsBuffer
<1>2. r = [j EXCEPT !.px = px]
  BY <1>1 DEF CreateImg, Result
<1>3. /\ ImgOK(j) /\ j.player = i.player /\ j.fmt = b.fmt /\ j.pal = p
      /\ j.px = Fill(j.w * j.h, BlankOf(b.fmt, p))
  BY <1>1, ImgShape, InitPalMakesOK, InitPalFills
<1>4. ImgOK(r)
  BY CreateOK
<1> HIDE DEF j, r
<1>5. \A k \in DOMAIN j.px : j.px[k] = BlankOf(b.fmt, p)
  BY <1>3 DEF Fill
<1>6. \A k \in DOMAIN j.px :
        px[k] = IF Covered(b, j.w, k) THEN b.px[BufIdx(b, j.w, k)] ELSE BlankOf(b.fmt, p)
  BY <1>5
<1>7. DOMAIN px = DOMAIN j.px
  OBVIOUS
<1> HIDE DEF px
<1>8. r.px = px /\ r.player = j.player /\ r.fmt = j.fmt /\ r.pal = j.pal /\ r.w = j.w
  BY <1>2, <1>3 DEF ImgOK
<1> QED BY <1>3, <1>4, <1>6, <1>7, <1>8 DEF r

(* Printing the whole of a bitmap into a buffer of its size copies every   *)
(* pixel to its own place.                                                 *)
LEMMA PrintMapWhole ==
  ASSUME NEW i, ImgOK(i), i.w > 0, NEW b, IsBuffer(b), b.w = i.w, b.h = i.h
  PROVE  LET map == PrintMap(i, b, WholeRect)
         IN DOMAIN map = DOMAIN i.px /\ \A k \in DOMAIN i.px : map[k] = k
<1> DEFINE sx == ClipAxis(0, i.w, i.w)
           sy == ClipAxis(0, i.h, i.h)
           cw == Min({sx.n, sx.n})
           ch == Min({sy.n, sy.n})
           cells == {k \in DOMAIN b.px : /\ (k % b.w) \in sx.o..(sx.o + cw - 1)
                                         /\ (k \div b.w) \in sy.o..(sy.o + ch - 1)}
           from(k) == ((k \div b.w) - sy.o + sy.o) * i.w + ((k % b.w) - sx.o + sx.o)
<1>1. /\ i.w \in Nat \ {0} /\ i.h \in Nat \ {0}
      /\ DOMAIN b.px = 0..(i.w * i.h - 1) /\ DOMAIN i.px = 0..(i.w * i.h - 1)
  BY DEF ImgOK, IsBuffer
<1>2. PrintMap(i, b, WholeRect) = [k \in cells |-> from(k)]
  <2>1. /\ WholeRect.x = 0 /\ WholeRect.y = 0 /\ WholeRect.w = 0 /\ WholeRect.h = 0
        /\ WholeRect.toX = 0 /\ WholeRect.toY = 0 /\ i.w - 0 = i.w /\ i.h - 0 = i.h /\ 0 < i.w /\ 0 < i.h
    BY <1>1 DEF WholeRect
  <2> QED BY <2>1 DEF PrintMap
<1>3. ASSUME NEW n \in Nat \ {0}
      PROVE  ClipAxis(0, n, n) = [o |-> 0, n |-> n]
  <2>1. Min({n, n}) = n
    BY MinOfTwo
  <2>2. n - 0 = n /\ 0 < n
    OBVIOUS
  <2> QED BY <2>1, <2>2 DEF ClipAxis
<1>4. sx = [o |-> 0, n |-> i.w] /\ sy = [o |-> 0, n |-> i.h]
  BY <1>1, <1>3
<1>5. sx.o = 0 /\ sy.o = 0 /\ cw = i.w /\ ch = i.h
  <2>1. sx.o = 0 /\ sy.o = 0 /\ sx.n = i.w /\ sy.n = i.h
    BY <1>4
  <2> HIDE DEF sx, sy
  <2>2. \A n \in Nat : Min({n, n}) = n
    BY MinOfTwo
  <2> QED BY <2>1, <2>2, <1>1
<1> HIDE DEF sx, sy, cw, ch
<1>6. ASSUME NEW k \in DOMAIN i.px
      PROVE  k \in cells /\ from(k) = k
  <2> DEFINE x == k % i.w
             y == k \div i.w
  <2>1. x \in 0..(i.w - 1) /\ y \in 0..(i.h - 1)
    BY <1>1, RowColumn
  <2>2. k = i.w * y + x
    <3>1. k \in Nat /\ i.w \in Nat /\ i.w > 0
      BY <1>1
    <3> QED BY <3>1, Division
  <2> HIDE DEF x, y
  <2>3. y * i.w = i.w * y /\ y * i.w \in Int
    BY <2>1, <1>1, SMT
  <2>4. (y - 0 + 0) * i.w + (x - 0 + 0) = k
    <3>1. y - 0 + 0 = y /\ x - 0 + 0 = x
      BY <2>1
    <3> QED BY <3>1, <2>2, <2>3
  <2>5. x \in 0..(0 + i.w - 1) /\ y \in 0..(0 + i.h - 1)
    BY <2>1, <1>1
  <2> QED BY <2>4, <2>5, <1>1, <1>5 DEF x, y
<1>7. cells = DOMAIN i.px
  BY <1>1, <1>6
<1> HIDE DEF cells, from
<1> QED BY <1>2, <1>6, <1>7

(* A blank buffer of the size and the format of a bitmap. *)
LEMMA BlankIsBuffer ==
  ASSUME NEW i, ImgOK(i), NEW p \in Palette
  PROVE  LET b == Blank(i.w, i.h, i.fmt, p)
         IN /\ IsBuffer(b) /\ b.w = i.w /\ b.h = i.h /\ b.fmt = i.fmt /\ DOMAIN b.px = DOMAIN i.px
            /\ \A k \in DOMAIN i.px : b.px[k] = BlankOf(i.fmt, p)
<1> DEFINE px == Fill(i.w * i.h, BlankOf(i.fmt, p))
           b == [w |-> i.w, h |-> i.h, fmt |-> i.fmt, px |-> px]
<1>1. Blank(i.w, i.h, i.fmt, p) = b
  BY DEF Blank, BlankOf
<1>2. /\ i.w \in Nat /\ i.h \in Nat /\ i.fmt \in Formats /\ DOMAIN i.px = 0..(i.w * i.h - 1)
      /\ BlankOf(i.fmt, p) \in PixelsOf(i.fmt)
  BY DEF ImgOK, BlankOf, PixelsOf, Palette, BGRA, Formats
<1>3. /\ px \in [0..(i.w * i.h - 1) -> PixelsOf(i.fmt)]
      /\ \A k \in DOMAIN i.px : px[k] = BlankOf(i.fmt, p)
  BY <1>2 DEF Fill
<1> HIDE DEF px
<1>4. IsBuffer(b) /\ b.w = i.w /\ b.h = i.h /\ b.fmt = i.fmt /\ b.px = px
  BY <1>2, <1>3 DEF IsBuffer
<1> HIDE DEF b
<1> QED BY <1>1, <1>2, <1>3, <1>4

(* The pixels of such a copy are those of the bitmap. *)
LEMMA CopyWhole ==
  ASSUME NEW i, ImgOK(i), i.w > 0, NEW p \in Palette, i.fmt = "Paletted" => i.pal = p,
         NEW b, b = Blank(i.w, i.h, i.fmt, p), NEW map, map = PrintMap(i, b, WholeRect)
  PROVE  LET o == CopyPixels(i, b, p, map)
         IN /\ o = [buf |-> [w |-> i.w, h |-> i.h, fmt |-> i.fmt, px |-> o.buf.px], code |-> "NONE"]
            /\ DOMAIN o.buf.px = DOMAIN i.px
            /\ \A k \in DOMAIN i.px : o.buf.px[k] = i.px[k]
<1> DEFINE skips(s) == IF i.fmt = "Paletted" THEN IsTransparent(i.pal, i.px[s])
                       ELSE i.px[s] = Transparent
           out(s)   == IF i.fmt = b.fmt THEN i.px[s]
                       ELSE IF i.fmt = "Paletted" THEN i.pal.clr[i.px[s]]
                       ELSE Lookup(p, i.px[s])
           put  == {k \in DOMAIN map : ~skips(map[k])}
           bad  == {k \in put : out(map[k]) = NotFound}
           done == {k \in put : \A n \in bad : k < n}
           px   == [k \in DOMAIN b.px |-> IF k \in done THEN out(map[k]) ELSE b.px[k]]
<1>1. /\ IsBuffer(b) /\ b.w = i.w /\ b.h = i.h /\ b.fmt = i.fmt /\ DOMAIN b.px = DOMAIN i.px
      /\ \A k \in DOMAIN i.px : b.px[k] = BlankOf(i.fmt, p)
  BY BlankIsBuffer
<1>2. DOMAIN map = DOMAIN i.px /\ \A k \in DOMAIN i.px : map[k] = k
  BY <1>1, PrintMapWhole
<1>3. \A k \in DOMAIN i.px : i.px[k] # NotFound
  <2>1. NotFound \notin Idx /\ NotFound \notin BGRA
    BY BitmapAssumption DEF NotFound, Idx
  <2> QED BY <2>1 DEF ImgOK, PixelsOf
<1>4. bad = {}
  BY <1>1, <1>2, <1>3
<1>5. CopyPixels(i, b, p, map) = [buf |-> [b EXCEPT !.px = px], code |-> IF bad = {} THEN "NONE" ELSE "throw"]
  BY DEF CopyPixels
<1>6. ASSUME NEW k \in DOMAIN i.px
      PROVE  px[k] = i.px[k]
  <2>1. CASE skips(k)
    <3>1. k \notin done
      BY <2>1, <1>2
    <3>2. i.px[k] = BlankOf(i.fmt, p)
      BY <2>1 DEF IsTransparent, BlankOf
    <3> QED BY <3>1, <3>2, <1>1
  <2>2. CASE ~skips(k)
    <3>1. k \in done
      BY <2>2, <1>2, <1>4
    <3> QED BY <3>1, <1>1, <1>2
  <2> QED BY <2>1, <2>2
<1>7. DOMAIN px = DOMAIN i.px
  BY <1>1
<1> HIDE DEF px, bad
<1>8. [b EXCEPT !.px = px] = [w |-> i.w, h |-> i.h, fmt |-> i.fmt, px |-> px]
  BY <1>1 DEF IsBuffer
<1> QED BY <1>4, <1>5, <1>6, <1>7, <1>8

(* What print gives back of a plain bitmap. *)
LEMMA PrintWholePlain ==
  ASSUME NEW i, ImgOK(i), i.w > 0, ~i.player, NEW p \in Palette, i.fmt = "Paletted" => i.pal = p
  PROVE  LET o == PrintWhole(i, p).buf
         IN /\ o.w = i.w /\ o.h = i.h /\ o.fmt = i.fmt /\ DOMAIN o.px = DOMAIN i.px
            /\ \A k \in DOMAIN i.px : o.px[k] = i.px[k]
<1> DEFINE b == Blank(i.w, i.h, i.fmt, p)
           o == CopyPixels(i, b, p, PrintMap(i, b, WholeRect))
<1>1. b.w = i.w /\ b.h = i.h /\ b.fmt = i.fmt /\ i.w # 0 /\ i.h # 0 /\ p # NoPal /\ b # NoBuf
  <2>1. b.w = i.w /\ b.h = i.h /\ b.fmt = i.fmt /\ IsBuffer(b)
    BY BlankIsBuffer
  <2>2. i.w # 0 /\ i.h # 0 /\ p # NoPal
    BY BitmapAssumption DEF ImgOK
  <2> HIDE DEF b
  <2> QED BY <2>1, <2>2, BufferIsNotNull
<1>2. PrintWhole(i, p) = o
  BY <1>1 DEF PrintWhole, PrintBuf
<1>3. /\ o = [buf |-> [w |-> i.w, h |-> i.h, fmt |-> i.fmt, px |-> o.buf.px], code |-> "NONE"]
      /\ DOMAIN o.buf.px = DOMAIN i.px
      /\ \A k \in DOMAIN i.px : o.buf.px[k] = i.px[k]
  BY CopyWhole
<1> HIDE DEF o
<1>4. o.buf.w = i.w /\ o.buf.h = i.h /\ o.buf.fmt = i.fmt
  BY <1>3
<1> QED BY <1>2, <1>3, <1>4

(* And of a player bitmap: the player colours over the pixels. *)
LEMMA PrintWholePlayer ==
  ASSUME NEW i, ImgOK(i), i.w > 0, i.player, NEW p \in Palette, i.fmt = "Paletted" => i.pal = p
  PROVE  LET o == PrintWhole(i, p).buf
             clr(k) == (i.tex[k] + PlayerStart) % NumIdx
         IN /\ o.w = i.w /\ o.h = i.h /\ o.fmt = i.fmt /\ DOMAIN o.px = DOMAIN i.px
            /\ \A k \in DOMAIN i.px :
                 o.px[k] = IF i.tex[k] = NoPlayer THEN i.px[k]
                           ELSE IF i.fmt = "Paletted" THEN clr(k)
                           ELSE IF i.px[k] = Transparent THEN Transparent
                           ELSE p.clr[clr(k)]
<1> DEFINE b == Blank(i.w, i.h, i.fmt, p)
           map == PrintMap(i, b, WholeRect)
           base == CopyPixels(i, b, p, map)
           clr(s) == (i.tex[s] + PlayerStart) % NumIdx
           out(s) == IF b.fmt = "Paletted" THEN clr(s)
                     ELSE IF i.fmt = "BGRA" /\ i.px[s] = Transparent THEN Transparent
                     ELSE p.clr[clr(s)]
           px == [k \in DOMAIN b.px |->
                    IF k \in DOMAIN map /\ i.tex[map[k]] # NoPlayer THEN out(map[k]) ELSE base.buf.px[k]]
           o == [base EXCEPT !.buf.px = px]
<1>1. /\ b.w = i.w /\ b.h = i.h /\ b.fmt = i.fmt /\ DOMAIN b.px = DOMAIN i.px
      /\ i.w # 0 /\ i.h # 0 /\ p # NoPal /\ b # NoBuf /\ IsBuffer(b) /\ i.fmt \in Formats
  <2>1. b.w = i.w /\ b.h = i.h /\ b.fmt = i.fmt /\ IsBuffer(b) /\ DOMAIN b.px = DOMAIN i.px
    BY BlankIsBuffer
  <2>2. i.w # 0 /\ i.h # 0 /\ p # NoPal /\ i.fmt \in Formats
    BY BitmapAssumption DEF ImgOK
  <2> HIDE DEF b
  <2> QED BY <2>1, <2>2, BufferIsNotNull
<1>2. /\ base = [buf |-> [w |-> i.w, h |-> i.h, fmt |-> i.fmt, px |-> base.buf.px], code |-> "NONE"]
      /\ DOMAIN base.buf.px = DOMAIN i.px
      /\ \A k \in DOMAIN i.px : base.buf.px[k] = i.px[k]
  BY CopyWhole
<1>3. base.code = "NONE"
  BY <1>2
<1>4. PrintWhole(i, p) = o
  BY <1>1, <1>3, ZenonT(30) DEF PrintWhole, PrintPlayerBuf
<1>5. DOMAIN map = DOMAIN i.px /\ \A k \in DOMAIN i.px : map[k] = k
  BY <1>1, PrintMapWhole
<1>6. ASSUME NEW k \in DOMAIN i.px
      PROVE  px[k] = IF i.tex[k] = NoPlayer THEN i.px[k]
                     ELSE IF i.fmt = "Paletted" THEN clr(k)
                     ELSE IF i.px[k] = Transparent THEN Transparent
                     ELSE p.clr[clr(k)]
  <2>1. px[k] = IF i.tex[k] # NoPlayer THEN out(k) ELSE i.px[k]
    BY <1>1, <1>2, <1>5
  <2> QED BY <2>1, <1>1 DEF Formats
<1>7. DOMAIN px = DOMAIN i.px
  BY <1>1
<1> HIDE DEF px, base, clr
<1>8. o.buf.w = i.w /\ o.buf.h = i.h /\ o.buf.fmt = i.fmt /\ o.buf.px = px
  BY <1>2
<1> HIDE DEF o
<1> QED BY <1>4, <1>6, <1>7, <1>8 DEF clr

(* An empty screen of the size of a bitmap. *)
LEMMA ScreenIsBuffer ==
  ASSUME NEW i, ImgOK(i), NEW p
  PROVE  LET b == Blank(i.w, i.h, "BGRA", p)
         IN /\ IsBuffer(b) /\ b.w = i.w /\ b.h = i.h /\ b.fmt = "BGRA" /\ DOMAIN b.px = DOMAIN i.px
            /\ \A k \in DOMAIN i.px : b.px[k] = Transparent
<1> DEFINE px == Fill(i.w * i.h, Transparent)
           b == [w |-> i.w, h |-> i.h, fmt |-> "BGRA", px |-> px]
<1>1. Blank(i.w, i.h, "BGRA", p) = b
  BY DEF Blank
<1>2. /\ i.w \in Nat /\ i.h \in Nat /\ DOMAIN i.px = 0..(i.w * i.h - 1)
      /\ Transparent \in PixelsOf("BGRA") /\ "BGRA" \in Formats
  BY DEF ImgOK, PixelsOf, BGRA, Formats
<1>3. /\ px \in [0..(i.w * i.h - 1) -> PixelsOf("BGRA")]
      /\ \A k \in DOMAIN i.px : px[k] = Transparent
  BY <1>2 DEF Fill
<1> HIDE DEF px
<1>4. IsBuffer(b) /\ b.w = i.w /\ b.h = i.h /\ b.fmt = "BGRA" /\ b.px = px
  BY <1>2, <1>3 DEF IsBuffer
<1> HIDE DEF b
<1> QED BY <1>1, <1>2, <1>3, <1>4

(* The pixels of a bitmap on the screen: their colours. *)
LEMMA ScreenCopy ==
  ASSUME NEW i, ImgOK(i), NEW p, NEW b, IsBuffer(b), b.fmt = "BGRA", DOMAIN b.px = DOMAIN i.px,
         \A k \in DOMAIN i.px : b.px[k] = Transparent,
         NEW map, DOMAIN map = DOMAIN i.px, \A k \in DOMAIN i.px : map[k] = k
  PROVE  /\ CopyPixels(i, b, p, map).code = "NONE"
         /\ \A k \in DOMAIN i.px : CopyPixels(i, b, p, map).buf.px[k] = Sees(i, k).pixel
<1> DEFINE skips(s) == IF i.fmt = "Paletted" THEN IsTransparent(i.pal, i.px[s])
                       ELSE i.px[s] = Transparent
           out(s)   == IF i.fmt = b.fmt THEN i.px[s]
                       ELSE IF i.fmt = "Paletted" THEN i.pal.clr[i.px[s]]
                       ELSE Lookup(p, i.px[s])
           put  == {k \in DOMAIN map : ~skips(map[k])}
           bad  == {k \in put : out(map[k]) = NotFound}
           done == {k \in put : \A n \in bad : k < n}
           px   == [k \in DOMAIN b.px |-> IF k \in done THEN out(map[k]) ELSE b.px[k]]
<1>1. /\ IsBuffer(b) /\ b.fmt = "BGRA" /\ DOMAIN b.px = DOMAIN i.px
      /\ \A k \in DOMAIN i.px : b.px[k] = Transparent
  OBVIOUS
<1>2. DOMAIN map = DOMAIN i.px /\ \A k \in DOMAIN i.px : map[k] = k
  OBVIOUS
<1>3. i.fmt \in {"Paletted", "BGRA"}
  BY DEF ImgOK, Formats
<1>4. ASSUME NEW k \in DOMAIN i.px
      PROVE  out(k) = (IF i.fmt = "Paletted" THEN i.pal.clr[i.px[k]] ELSE i.px[k]) /\ out(k) # NotFound
  <2>1. NotFound \notin BGRA
    BY BitmapAssumption DEF NotFound
  <2>2. CASE i.fmt = "Paletted"
    <3>1. i.pal \in Palette /\ i.px[k] \in Idx
      BY <2>2 DEF ImgOK, PixelsOf
    <3>2. i.pal.clr[i.px[k]] \in BGRA
      BY <3>1 DEF Palette, BGRA
    <3> QED BY <3>2, <2>1, <2>2, <1>1
  <2>3. CASE i.fmt = "BGRA"
    BY <2>1, <2>3, <1>1 DEF ImgOK, PixelsOf
  <2> QED BY <1>3, <2>2, <2>3
<1>5. bad = {}
  BY <1>2, <1>4
<1>6. CopyPixels(i, b, p, map) = [buf |-> [b EXCEPT !.px = px], code |-> IF bad = {} THEN "NONE" ELSE "throw"]
  BY DEF CopyPixels
<1>7. ASSUME NEW k \in DOMAIN i.px
      PROVE  px[k] = Sees(i, k).pixel
  <2>1. CASE skips(k)
    <3>1. k \notin done
      BY <2>1, <1>2
    <3>2. Sees(i, k).pixel = Transparent
      BY <2>1 DEF Sees, ToBGRA
    <3> QED BY <3>1, <3>2, <1>1
  <2>2. CASE ~skips(k)
    <3>1. k \in done
      BY <2>2, <1>2, <1>5
    <3>2. px[k] = out(k)
      BY <3>1, <1>1, <1>2
    <3>3. Sees(i, k).pixel = IF i.fmt = "Paletted" THEN i.pal.clr[i.px[k]] ELSE i.px[k]
      BY <2>2 DEF Sees, ToBGRA
    <3> QED BY <3>2, <3>3, <1>4
  <2> QED BY <2>1, <2>2
<1> HIDE DEF px, bad
<1>8. [b EXCEPT !.px = px].px = px
  BY <1>1 DEF IsBuffer
<1>9. CopyPixels(i, b, p, map).buf.px = px /\ CopyPixels(i, b, p, map).code = "NONE"
  <2> DEFINE c == [b EXCEPT !.px = px]
  <2>1. CopyPixels(i, b, p, map) = [buf |-> c, code |-> "NONE"]
    BY <1>5, <1>6
  <2>2. c.px = px
    BY <1>8
  <2> HIDE DEF c
  <2> QED BY <2>1, <2>2
<1> QED BY <1>7, <1>9

(* What print shows of a bitmap on an empty screen, pixel by pixel: it     *)
(* follows from what getPixel and getPlayerColorIdx say, but for player    *)
(* colours over transparent pixels, where it depends on the format.        *)
LEMMA ScreenShows ==
  ASSUME NEW i, ImgOK(i), NEW p \in Palette \cup {NoPal}, NEW k \in DOMAIN i.px
  PROVE  Screen(i, p)[k] = IF i.player /\ p = NoPal /\ i.pal = NoPal THEN Transparent
                           ELSE IF Sees(i, k).player = NoPlayer THEN Sees(i, k).pixel
                           ELSE IF Afloat(i, k) /\ i.fmt = "BGRA" THEN Transparent
                           ELSE PlayerClr(i, p, k)
<1> DEFINE b == Blank(i.w, i.h, "BGRA", p)
           map == PrintMap(i, b, WholeRect)
           pal == IF p = NoPal THEN i.pal ELSE p
           base == CopyPixels(i, b, pal, map)
           clr(s) == (i.tex[s] + PlayerStart) % NumIdx
<1>1. /\ b.w = i.w /\ b.h = i.h /\ b.fmt = "BGRA" /\ b # NoBuf /\ IsBuffer(b)
      /\ DOMAIN b.px = DOMAIN i.px /\ \A n \in DOMAIN i.px : b.px[n] = Transparent
  <2>1. /\ b.w = i.w /\ b.h = i.h /\ b.fmt = "BGRA" /\ IsBuffer(b) /\ DOMAIN b.px = DOMAIN i.px
        /\ \A n \in DOMAIN i.px : b.px[n] = Transparent
    BY ScreenIsBuffer
  <2> HIDE DEF b
  <2> QED BY <2>1, BufferIsNotNull
<1>2. i.w > 0 /\ i.w # 0 /\ i.h # 0
  <2>1. i.w \in Nat /\ i.h \in Nat /\ k \in 0..(i.w * i.h - 1)
    BY DEF ImgOK
  <2>2. i.w = 0 \/ i.h = 0 => i.w * i.h = 0
    BY <2>1, SMT
  <2> QED BY <2>1, <2>2
<1>3. base.code = "NONE" /\ base.buf.px[k] = Sees(i, k).pixel
  <2>1. DOMAIN map = DOMAIN i.px /\ \A n \in DOMAIN i.px : map[n] = n
    BY <1>1, <1>2, PrintMapWhole
  <2> HIDE DEF pal, map, b
  <2> QED BY <1>1, <2>1, ScreenCopy
<1> HIDE DEF base, map
<1>4. CASE ~i.player
  <2>1. Screen(i, p) = base.buf.px
    BY <1>1, <1>2, <1>4 DEF Screen, PrintBuf, base, map
  <2>2. Sees(i, k).player = NoPlayer
    BY <1>4 DEF Sees
  <2> QED BY <2>1, <2>2, <1>3, <1>4
<1>5. CASE i.player /\ p = NoPal /\ i.pal = NoPal
  <2>1. Screen(i, p) = b.px
    BY <1>1, <1>2, <1>5 DEF Screen, PrintPlayerBuf
  <2> QED BY <2>1, <1>1, <1>5
<1>6. CASE i.player /\ ~(p = NoPal /\ i.pal = NoPal)
  <2> DEFINE out(s) == IF b.fmt = "Paletted" THEN clr(s)
                       ELSE IF i.fmt = "BGRA" /\ i.px[s] = Transparent THEN Transparent
                       ELSE pal.clr[clr(s)]
             px == [n \in DOMAIN b.px |->
                      IF n \in DOMAIN map /\ i.tex[map[n]] # NoPlayer THEN out(map[n]) ELSE base.buf.px[n]]
  <2>1. Screen(i, p) = [base EXCEPT !.buf.px = px].buf.px
    <3>1. PrintPlayerBuf(i, b, p, WholeRect, FALSE) = [base EXCEPT !.buf.px = px]
      BY <1>1, <1>2, <1>3, <1>6, ZenonT(30) DEF PrintPlayerBuf, base, map
    <3>2. Screen(i, p) = PrintPlayerBuf(i, b, p, WholeRect, FALSE).buf.px
      BY <1>6 DEF Screen
    <3> QED BY <3>1, <3>2
  <2>2. [base EXCEPT !.buf.px = px].buf.px = px
    <3> HIDE DEF px
    <3>1. DOMAIN base = {"buf", "code"} /\ "px" \in DOMAIN base.buf
      <4>1. "px" \in DOMAIN b
        BY <1>1 DEF IsBuffer
      <4> HIDE DEF b
      <4> QED BY <4>1 DEF base, CopyPixels
    <3> QED BY <3>1
  <2>3. k \in DOMAIN map /\ map[k] = k
    <3>1. DOMAIN map = DOMAIN i.px /\ \A n \in DOMAIN i.px : map[n] = n
      BY <1>1, <1>2, PrintMapWhole DEF map
    <3> QED BY <3>1
  <2>4. px[k] = IF i.tex[k] # NoPlayer THEN out(k) ELSE Sees(i, k).pixel
    BY <2>3, <1>1, <1>3
  <2>5. out(k) = IF i.fmt = "BGRA" /\ i.px[k] = Transparent THEN Transparent ELSE PlayerClr(i, p, k)
    BY <1>1 DEF PlayerClr
  <2>6. /\ Sees(i, k).player = i.tex[k]
        /\ i.fmt = "BGRA" => Sees(i, k).pixel = i.px[k]
    BY <1>6 DEF Sees
  <2> HIDE DEF px, out
  <2>7. Screen(i, p)[k] = px[k]
    BY <2>1, <2>2
  <2> QED BY <2>4, <2>5, <2>6, <2>7, <1>6 DEF Afloat
<1> QED BY <1>4, <1>5, <1>6

(* For every palette and every bitmap: a conversion that succeeds keeps    *)
(* size, palette, colours and player colours, and a print shows the same   *)
(* before and after it except for player colours over transparent pixels,  *)
(* which a print shows while the bitmap is paletted and hides while it is  *)
(* BGRA; as long as the palette's transparent index is not needed for an   *)
(* opaque pixel.                                                           *)
THEOREM ConversionsKeepView == Spec => ConvertKeepsView
<1>1. Consistent /\ [Next]_vars =>
        [/\ ret'.op = "convertFormat" /\ ret'.code = "NONE"
         /\ img.pal # NoPal => Convertible(img, img.pal)
         => /\ View(img') = View(img)
            /\ img'.w = img.w /\ img'.pal = img.pal
            /\ \A p \in AnyPal, k \in DOMAIN img.px :
                 Screen(img', p)[k] = IF ~Afloat(img, k) THEN Screen(img, p)[k]
                                      ELSE IF img'.fmt = "BGRA" THEN Transparent
                                      ELSE PlayerClr(img, p, k)]_vars
  <2> SUFFICES ASSUME Consistent, Next, ret'.op = "convertFormat", ret'.code = "NONE",
                      img.pal # NoPal => Convertible(img, img.pal)
               PROVE  /\ View(img') = View(img) /\ img'.w = img.w /\ img'.pal = img.pal
                      /\ \A p \in AnyPal, k \in DOMAIN img.px :
                           Screen(img', p)[k] = IF ~Afloat(img, k) THEN Screen(img, p)[k]
                                                ELSE IF img'.fmt = "BGRA" THEN Transparent
                                                ELSE PlayerClr(img, p, k)
    OBVIOUS
  <2>1. PICK fmt \in Formats \cup {"Original"} : ConvertCall(fmt)
    BY CallsByName
  <2> DEFINE r == ConvertImg(img, fmt).img
  <2>2. img' = r /\ ConvertImg(img, fmt).code = "NONE"
    BY <2>1 DEF ConvertCall, Returns
  <2>3. ImgOK(img)
    BY DEF Consistent
  <2>4. ImgOK(r)
    BY <2>3, ConvertOK
  <2>5. /\ View(r) = View(img) /\ r.w = img.w /\ r.pal = img.pal
        /\ r.player = img.player /\ r.tex = img.tex /\ DOMAIN r.px = DOMAIN img.px
    BY <2>2, <2>3, ConvertKeeps
  <2> HIDE DEF r
  <2>6. ASSUME NEW p \in AnyPal, NEW k \in DOMAIN img.px
        PROVE  Screen(r, p)[k] = IF ~Afloat(img, k) THEN Screen(img, p)[k]
                                 ELSE IF r.fmt = "BGRA" THEN Transparent
                                 ELSE PlayerClr(img, p, k)
    <3>1. Sees(r, k) = Sees(img, k)
      <4>1. View(r)[k] = View(img)[k]
        BY <2>5
      <4>2. View(r)[k] = Sees(r, k) /\ View(img)[k] = Sees(img, k)
        BY <2>5 DEF View
      <4> QED BY <4>1, <4>2
    <3>2. p \in Palette \cup {NoPal}
      BY ArgTypes
    <3>3. PlayerClr(r, p, k) = PlayerClr(img, p, k)
      BY <2>5 DEF PlayerClr
    <3>4. Afloat(r, k) <=> Afloat(img, k)
      BY <3>1 DEF Afloat
    <3>5. Screen(r, p)[k] = IF r.player /\ p = NoPal /\ r.pal = NoPal THEN Transparent
                            ELSE IF Sees(r, k).player = NoPlayer THEN Sees(r, k).pixel
                            ELSE IF Afloat(r, k) /\ r.fmt = "BGRA" THEN Transparent
                            ELSE PlayerClr(r, p, k)
      BY <2>4, <2>5, <3>2, ScreenShows
    <3>6. Screen(img, p)[k] = IF img.player /\ p = NoPal /\ img.pal = NoPal THEN Transparent
                              ELSE IF Sees(img, k).player = NoPlayer THEN Sees(img, k).pixel
                              ELSE IF Afloat(img, k) /\ img.fmt = "BGRA" THEN Transparent
                              ELSE PlayerClr(img, p, k)
      BY <2>3, <3>2, ScreenShows
    <3>7. r.pal = NoPal => r.fmt = "BGRA"
      BY <2>4 DEF ImgOK, Formats
    <3>8. Afloat(img, k) => Sees(img, k).player # NoPlayer
      BY DEF Afloat
    <3>9. CASE Afloat(img, k)
      BY <2>5, <3>1, <3>3, <3>4, <3>5, <3>7, <3>8, <3>9
    <3>10. CASE ~Afloat(img, k)
      BY <2>5, <3>1, <3>3, <3>4, <3>5, <3>6, <3>10
    <3> QED BY <3>9, <3>10
  <2> QED BY <2>2, <2>5, <2>6
<1> QED BY <1>1, BitmapConsistent, PTL DEF Spec, ConvertKeepsView

(* create of a player bitmap that succeeds, pixel by pixel. *)
LEMMA CreatePlayerTakes ==
  ASSUME NEW i, ImgOK(i), i.player, NEW w \in Nat, NEW h \in Nat, NEW b, IsBuffer(b), b # NoBuf,
         NEW p \in Palette, CreatePlayerImg(i, w, h, b, p, p).code = "NONE"
  PROVE  LET r == CreatePlayerImg(i, w, h, b, p, p).img
             in(k) == b.px[BufIdx(b, r.w, k)]
             idx(k) == IF b.fmt = "Paletted" THEN in(k)
                       ELSE IF in(k) = Transparent THEN NotFound ELSE Lookup(p, in(k))
         IN /\ ImgOK(r) /\ r.player /\ r.fmt = b.fmt /\ (b.fmt = "Paletted" => r.pal = p)
            /\ \A k \in DOMAIN r.px :
                 IF ~Covered(b, r.w, k)
                 THEN r.px[k] = BlankOf(b.fmt, p) /\ r.tex[k] = NoPlayer
                 ELSE IF IsPlayerClr(idx(k))
                 THEN /\ r.px[k] = IF b.fmt = "Paletted" THEN p.t ELSE in(k)
                      /\ r.tex[k] = idx(k) - PlayerStart
                 ELSE r.px[k] = in(k) /\ r.tex[k] = NoPlayer
<1> DEFINE pp   == IF b.fmt = "BGRA" THEN NoPal ELSE p
           j    == InitPalImg(i, w, h, b.fmt, pp).img
           in(k)  == b.px[BufIdx(b, j.w, k)]
           idx(k) == IF b.fmt = "Paletted" THEN in(k)
                     ELSE IF in(k) = Transparent THEN NotFound ELSE Lookup(p, in(k))
           area == {k \in DOMAIN j.px : Covered(b, j.w, k)}
           bad  == {k \in area : in(k) # Transparent /\ idx(k) = NotFound}
           done == {k \in area : \A n \in bad : k < n}
           plr  == {k \in done : IsPlayerClr(idx(k))}
           px   == [k \in DOMAIN j.px |->
                      IF k \in plr /\ b.fmt = "Paletted" THEN p.t
                      ELSE IF k \in done THEN in(k) ELSE j.px[k]]
           tex  == [k \in DOMAIN j.tex |-> IF k \in plr THEN idx(k) - PlayerStart ELSE j.tex[k]]
           r    == CreatePlayerImg(i, w, h, b, p, p).img
<1>1. p # NoPal /\ b.fmt \in Formats
  BY BitmapAssumption DEF IsBuffer
<1>2. CreatePlayerImg(i, w, h, b, p, p) =
        Result([j EXCEPT !.px = px, !.tex = tex], IF bad = {} THEN "NONE" ELSE "throw")
  BY <1>1, ZenonT(30) DEF CreatePlayerImg
<1> HIDE DEF j, px, tex, bad
<1>3. r = [j EXCEPT !.px = px, !.tex = tex] /\ bad = {}
  BY <1>2 DEF Result
<1>4. ImgOK(r)
  BY CreatePlayerOK
<1>5. /\ ImgOK(j) /\ j.player /\ j.fmt = b.fmt /\ j.pal = pp
      /\ j.px = Fill(j.w * j.h, BlankOf(b.fmt, pp)) /\ j.tex = Fill(j.w * j.h, NoPlayer)
  <2>1. pp \in Palette \cup {NoPal} /\ (b.fmt = "Paletted" => pp # NoPal) /\ Shape(i)
    BY <1>1, ImgShape
  <2> HIDE DEF pp
  <2>4. j.player = i.player
    BY <2>1, <1>1, InitPalMakesImg, Zenon DEF j
  <2>5. ImgOK(j)
    BY <2>1, <1>1, InitPalMakesImg, Zenon DEF j
  <2>6. j.fmt = b.fmt /\ j.pal = pp
    BY <2>1, <1>1, InitPalMakesImg, SMT DEF j
  <2>2. ImgOK(j) /\ j.player /\ j.fmt = b.fmt /\ j.pal = pp
    BY <2>4, <2>5, <2>6, Zenon
  <2>3. /\ j.px = Fill(j.w * j.h, BlankOf(b.fmt, pp))
        /\ j.tex = Fill(IF i.player THEN j.w * j.h ELSE 0, NoPlayer)
    BY <2>1, <1>1, InitPalFills DEF j
  <2> QED BY <2>2, <2>3
<1> HIDE DEF r
<1>6. /\ DOMAIN j.tex = DOMAIN j.px
      /\ \A k \in DOMAIN j.px : j.px[k] = BlankOf(b.fmt, p) /\ j.tex[k] = NoPlayer
  BY <1>1, <1>5 DEF Fill, BlankOf, Formats
<1>7. done = area
  BY <1>3 DEF bad
<1> HIDE DEF done, bad
<1>8. ASSUME NEW k \in DOMAIN j.px
      PROVE  IF ~Covered(b, j.w, k)
             THEN px[k] = BlankOf(b.fmt, p) /\ tex[k] = NoPlayer
             ELSE IF IsPlayerClr(idx(k))
             THEN px[k] = (IF b.fmt = "Paletted" THEN p.t ELSE in(k)) /\ tex[k] = idx(k) - PlayerStart
             ELSE px[k] = in(k) /\ tex[k] = NoPlayer
  <2> HIDE DEF in, idx
  <2> QED BY <1>6, <1>7 DEF px, tex
<1>9. DOMAIN px = DOMAIN j.px
  BY DEF px
<1>10. r.px = px /\ r.tex = tex /\ r.player = j.player /\ r.fmt = j.fmt /\ r.pal = j.pal /\ r.w = j.w
  BY <1>3, <1>5 DEF ImgOK
<1> QED BY <1>4, <1>5, <1>8, <1>9, <1>10 DEF r

(* What create took is what print gives back, for both kinds of bitmaps:   *)
(* pixel by pixel, at the linear index of the cell.                        *)
GivesBack(i, b, p) ==
  LET out == PrintWhole(i, p).buf
  IN \A x \in 0..(out.w - 1), y \in 0..(out.h - 1) :
       LET k == y * out.w + x
       IN out.px[k] = IF x < b.w /\ y < b.h THEN b.px[y * b.w + x]
                      ELSE Blank(out.w, out.h, out.fmt, p).px[k]

LEMMA CellsGiveBack ==
  ASSUME NEW i, ImgOK(i), NEW b, NEW p \in Palette, NEW o, o = PrintWhole(i, p).buf,
         o.w = i.w, o.h = i.h, o.fmt = i.fmt,
         \A k \in DOMAIN i.px :
           o.px[k] = IF Covered(b, i.w, k) THEN b.px[BufIdx(b, i.w, k)] ELSE BlankOf(i.fmt, p)
  PROVE  GivesBack(i, b, p)
<1>1. SUFFICES ASSUME NEW x \in 0..(i.w - 1), NEW y \in 0..(i.h - 1)
               PROVE  o.px[y * i.w + x] = IF x < b.w /\ y < b.h THEN b.px[y * b.w + x]
                                          ELSE Blank(i.w, i.h, i.fmt, p).px[y * i.w + x]
  BY DEF GivesBack
<1> DEFINE k == y * i.w + x
<1>2. i.w \in Nat /\ i.h \in Nat /\ DOMAIN i.px = 0..(i.w * i.h - 1)
  BY DEF ImgOK
<1>3. k \in DOMAIN i.px
  <2>1. x \in Nat /\ y \in Nat /\ x < i.w /\ y < i.h
    BY <1>2
  <2> QED BY <1>2, <2>1, CellIndex
<1>4. k % i.w = x /\ k \div i.w = y
  <2>1. y \in Nat
    BY <1>2
  <2> QED BY <1>2, <2>1, CellOf
<1>5. Blank(i.w, i.h, i.fmt, p).px[k] = BlankOf(i.fmt, p)
  BY <1>3, BlankIsBuffer
<1> HIDE DEF k
<1>6. (Covered(b, i.w, k) <=> x < b.w /\ y < b.h) /\ BufIdx(b, i.w, k) = y * b.w + x
  BY <1>4 DEF Covered, BufIdx
<1> QED BY <1>3, <1>5, <1>6 DEF k

LEMMA PlainGivesBack ==
  ASSUME NEW i, ImgOK(i), ~i.player, NEW w \in Nat, NEW h \in Nat, NEW b, IsBuffer(b), b # NoBuf,
         NEW p \in Palette, NEW r, r = CreateImg(i, w, h, b, p).img, r.w > 0
  PROVE  GivesBack(r, b, p)
<1> DEFINE o == PrintWhole(r, p).buf
<1>1. /\ ImgOK(r) /\ ~r.player /\ r.fmt = b.fmt /\ r.pal = p
      /\ \A k \in DOMAIN r.px :
           r.px[k] = IF Covered(b, r.w, k) THEN b.px[BufIdx(b, r.w, k)] ELSE BlankOf(b.fmt, p)
  BY CreateTakes
<1>2. /\ o.w = r.w /\ o.h = r.h /\ o.fmt = r.fmt
      /\ \A k \in DOMAIN r.px : o.px[k] = r.px[k]
  BY <1>1, PrintWholePlain
<1> HIDE DEF o
<1>3. \A k \in DOMAIN r.px :
        o.px[k] = IF Covered(b, r.w, k) THEN b.px[BufIdx(b, r.w, k)] ELSE BlankOf(r.fmt, p)
  BY <1>1, <1>2
<1> QED BY <1>1, <1>2, <1>3, CellsGiveBack DEF o

(* A player colour comes back from its offset in the player layer.         *)
LEMMA PlayerColourBack ==
  ASSUME NEW n \in Idx, IsPlayerClr(n)
  PROVE  /\ n - PlayerStart # NoPlayer
         /\ ((n - PlayerStart) + PlayerStart) % NumIdx = n
<1>1. /\ NumIdx \in Nat /\ NumIdx > 0 /\ NumPlayerClrs \in 1..(NumIdx - 1) /\ PlayerStart \in 0..(NumIdx - 1)
      /\ n \in 0..(NumIdx - 1) /\ n \in PlayerStart..(PlayerStart + NumPlayerClrs - 1)
  BY BitmapAssumption DEF IsPlayerClr, Idx
<1>2. n - PlayerStart # NumIdx - 1 /\ (n - PlayerStart) + PlayerStart = n
  BY <1>1
<1>3. n % NumIdx = n
  BY <1>1, SMT
<1> QED BY <1>2, <1>3 DEF NoPlayer

LEMMA PlayerGivesBack ==
  ASSUME NEW i, ImgOK(i), i.player, NEW w \in Nat, NEW h \in Nat, NEW b, IsBuffer(b), b # NoBuf,
         NEW p \in Palette, CreatePlayerImg(i, w, h, b, p, p).code = "NONE",
         NEW r, r = CreatePlayerImg(i, w, h, b, p, p).img, r.w > 0
  PROVE  GivesBack(r, b, p)
<1> DEFINE o == PrintWhole(r, p).buf
           in(k) == b.px[BufIdx(b, r.w, k)]
           idx(k) == IF b.fmt = "Paletted" THEN in(k)
                     ELSE IF in(k) = Transparent THEN NotFound ELSE Lookup(p, in(k))
           clr(k) == (r.tex[k] + PlayerStart) % NumIdx
<1>1. /\ ImgOK(r) /\ r.player /\ r.fmt = b.fmt /\ (b.fmt = "Paletted" => r.pal = p)
      /\ \A k \in DOMAIN r.px :
           IF ~Covered(b, r.w, k)
           THEN r.px[k] = BlankOf(b.fmt, p) /\ r.tex[k] = NoPlayer
           ELSE IF IsPlayerClr(idx(k))
           THEN /\ r.px[k] = IF b.fmt = "Paletted" THEN p.t ELSE in(k)
                /\ r.tex[k] = idx(k) - PlayerStart
           ELSE r.px[k] = in(k) /\ r.tex[k] = NoPlayer
  BY CreatePlayerTakes
<1>2. /\ o.w = r.w /\ o.h = r.h /\ o.fmt = r.fmt
      /\ \A k \in DOMAIN r.px :
           o.px[k] = IF r.tex[k] = NoPlayer THEN r.px[k]
                     ELSE IF r.fmt = "Paletted" THEN clr(k)
                     ELSE IF r.px[k] = Transparent THEN Transparent
                     ELSE p.clr[clr(k)]
  <2>1. r.fmt = "Paletted" => r.pal = p
    BY <1>1
  <2> QED BY <1>1, <2>1, PrintWholePlayer
<1> HIDE DEF o
<1>3. ASSUME NEW k \in DOMAIN r.px
      PROVE  o.px[k] = IF Covered(b, r.w, k) THEN in(k) ELSE BlankOf(r.fmt, p)
  <2>1. CASE ~Covered(b, r.w, k)
    BY <2>1, <1>1, <1>2
  <2>2. CASE Covered(b, r.w, k) /\ ~IsPlayerClr(idx(k))
    <3> HIDE DEF in, idx
    <3> QED BY <2>2, <1>1, <1>2
  <2>3. CASE Covered(b, r.w, k) /\ IsPlayerClr(idx(k))
    <3>1. b.fmt \in Formats /\ r.px \in [0..(r.w * r.h - 1) -> PixelsOf(r.fmt)] /\ r.w \in Nat /\ r.h \in Nat
      BY <1>1 DEF IsBuffer, ImgOK
    <3>2. idx(k) # NotFound
      BY <2>3, BitmapAssumption DEF IsPlayerClr, NotFound, Idx
    <3>3. in(k) \in PixelsOf(b.fmt)
      <4>1. k \in 0..(r.w * r.h - 1)
        BY <3>1
      <4> QED BY <4>1, <3>1, <2>3, BufIdxOK
    <3>4. idx(k) \in Idx /\ (b.fmt = "BGRA" => in(k) # Transparent /\ p.clr[idx(k)] = in(k))
      <4> HIDE DEF in
      <4>1. CASE b.fmt = "Paletted"
        BY <4>1, <3>3 DEF PixelsOf
      <4>2. CASE b.fmt = "BGRA"
        <5>1. in(k) # Transparent /\ idx(k) = Lookup(p, in(k))
          BY <4>2, <3>2
        <5> QED BY <5>1, <3>2, <4>2, LookupFinds, LookupType
      <4> QED BY <4>1, <4>2, <3>1 DEF Formats
    <3>7. b.fmt = "Paletted" => idx(k) = in(k)
      OBVIOUS
    <3> HIDE DEF in, idx
    <3>5. r.tex[k] = idx(k) - PlayerStart /\ r.px[k] = IF b.fmt = "Paletted" THEN p.t ELSE in(k)
      BY <2>3, <1>1
    <3>6. r.tex[k] # NoPlayer /\ clr(k) = idx(k)
      BY <2>3, <3>4, <3>5, PlayerColourBack
    <3> HIDE DEF clr
    <3> QED BY <1>1, <1>2, <2>3, <3>1, <3>4, <3>5, <3>6, <3>7 DEF Formats
  <2> QED BY <2>1, <2>2, <2>3
<1> QED BY <1>1, <1>2, <1>3, CellsGiveBack DEF o

(* What create took from a buffer, with a palette, print of the whole      *)
(* bitmap with the same palette gives back, pixel for pixel: the two       *)
(* directions of the copy (create of both kinds of bitmaps, CopyPixelBuffer*)
(* and the player layer over it) agree on every size, buffer and palette.  *)
THEOREM CreateThenPrintGivesBack == Spec => CreateThenPrint
<1>1. Consistent /\ [Next]_vars =>
        [LET p == ret'.arg.pal
             b == ret'.arg.buf
             out == PrintWhole(img', p).buf
         IN ret'.op = "create" /\ ret'.code = "NONE" /\ p # NoPal /\ img'.w > 0
            => \A x \in 0..(out.w - 1), y \in 0..(out.h - 1) :
                 LET k == y * out.w + x
                 IN out.px[k] = IF x < b.w /\ y < b.h THEN b.px[y * b.w + x]
                                ELSE Blank(out.w, out.h, out.fmt, p).px[k]]_vars
  <2> SUFFICES ASSUME Consistent, Next, ret'.op = "create", ret'.code = "NONE",
                      ret'.arg.pal # NoPal, img'.w > 0
               PROVE  GivesBack(img', ret'.arg.buf, ret'.arg.pal)
    BY DEF GivesBack
  <2>1. PICK e \in Extents, b \in Buffers \cup {NoBuf}, p \in AnyPal :
          CreateCall(e, b, p) \/ CreatePlayerCall(e, b, p)
    BY CallsByName
  <2>2. ret'.arg.buf = b /\ ret'.arg.pal = p
    <3>1. \E r : Returns("create", r, [buf |-> b, pal |-> p])
      BY <2>1 DEF CreateCall, CreatePlayerCall
    <3> QED BY <3>1 DEF Returns
  <2>3. ImgOK(img) /\ e[1] \in Nat /\ e[2] \in Nat /\ p \in Palette
    BY <2>2, ArgTypes DEF Consistent
  <2>4. CASE CreateCall(e, b, p)
    <3>1. /\ img' = CreateImg(img, e[1], e[2], b, p).img /\ ~img.player
          /\ CreateImg(img, e[1], e[2], b, p).code = "NONE"
      BY <2>4 DEF CreateCall, Returns
    <3>2. b # NoBuf
      BY <3>1 DEF CreateImg, Result
    <3>3. IsBuffer(b)
      BY <3>2, ArgTypes
    <3>4. GivesBack(img', b, p)
      BY <2>3, <3>1, <3>2, <3>3, PlainGivesBack
    <3> QED BY <2>2, <3>4
  <2>5. CASE CreatePlayerCall(e, b, p)
    <3>1. /\ img' = CreatePlayerImg(img, e[1], e[2], b, p, p).img /\ img.player
          /\ CreatePlayerImg(img, e[1], e[2], b, p, p).code = "NONE"
      <4>1. PICK q \in ReadsAs(img, b, p) :
              Returns("create", CreatePlayerImg(img, e[1], e[2], b, p, q), [buf |-> b, pal |-> p])
        BY <2>5 DEF CreatePlayerCall
      <4>2. q = p
        BY <2>2 DEF ReadsAs
      <4> QED BY <2>5, <4>1, <4>2 DEF CreatePlayerCall, Returns
    <3>2. b # NoBuf
      BY <3>1 DEF CreatePlayerImg, Result
    <3>3. IsBuffer(b)
      BY <3>2, ArgTypes
    <3>4. GivesBack(img', b, p)
      BY <2>3, <3>1, <3>2, <3>3, PlayerGivesBack
    <3> QED BY <2>2, <3>4
  <2> QED BY <2>1, <2>4, <2>5
<1> QED BY <1>1, BitmapConsistent, PTL DEF Spec, CreateThenPrint
===============================================================================
