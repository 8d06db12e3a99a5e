----------------------------- MODULE PictureFile -----------------------------
(***************************************************************************)
(* Pictures: LBM with its palette and palette animations, and BMP.  A      *)
(* picture is [pal, px]: rows of indices with a palette, or of colours     *)
(* without one.  A file may be cut between its chunks, its rows, and       *)
(* within the pixels of an LBM.                                            *)
(***************************************************************************)
EXTENDS PaletteFile

CONSTANTS
  Clear,  \* a pixel without a colour
  Black,  \* the colours that a palette is made with
  Given   \* the palette callers give to Write

ASSUME GivenAssumption == IsColours(Given.c) /\ Given.trans \in Index

Image(pal, px) == [k |-> "image", pal |-> pal, px |-> px]

Width(img)  == Len(img.px[1])
Height(img) == Len(img.px)
Area(img)   == Width(img) * Height(img)

EachPixel(px, f(_)) == [y \in DOMAIN px |-> [x \in DOMAIN px[y] |-> f(px[y][x])]]

Rows(px, w, h) == [y \in 1..h |-> SubSeq(px, (y - 1) * w + 1, y * w)]

-------------------------------------------------------------------------------
(* WriteLBM *)

TransOf(pal) == IF HasTransparency(pal) THEN pal.trans ELSE 0

Exchanged(c, i, j) == [c EXCEPT ![i + 1] = c[j + 1], ![j + 1] = c[i + 1]]

(* Mutant: indices that are 0 stay. *)
SwappedOnce(px, t) == [n \in DOMAIN px |-> IF px[n] = t THEN 0 ELSE px[n]]

(* The transparent index becomes 0, and 0 takes its place. *)
Swapped(px, t) ==
  [n \in DOMAIN px |-> IF px[n] = t THEN 0 ELSE IF px[n] = 0 THEN t ELSE px[n]]

Header(w, h, packed) ==
  [t |-> "BMHD", ok |-> TRUE, w |-> w, h |-> h, mask |-> 0, packed |-> packed, trans |-> 0]

LbmHead(img, pal) ==
  <<[t |-> "FORM"], Header(Width(img), Height(img), FALSE),
    [t |-> "CMAP", ok |-> TRUE, c |-> Exchanged(pal.c, 0, TransOf(pal))]>>

AnimChunks(n) == [i \in 1..n |-> [t |-> "CRNG", a |-> archive[i + 1]]]

(* A picture without a palette is drawn with the one that is given, if     *)
(* that has its colours.                                                   *)
Drawable(img) ==
  img.pal # Null \/ \A v \in UNION {ToSet(img.px[y]) : y \in DOMAIN img.px} :
                      v = Clear \/ Holding(Given.c, v) # {}

Drawn(img) ==
  IF img.pal # Null THEN img.px
  ELSE EachPixel(img.px, LAMBDA v : IF v = Clear THEN Given.trans ELSE Lookup(Given.c, Given.trans, v, 0))

LbmBody(img, pal) ==
  <<[t |-> "BODY", len |-> Area(img)]>> \o Chars(Swapped(FlattenSeq(Drawn(img)), TransOf(pal)))

(* A load gives the same again. *)
LbmKeeps(x, i) ==
  IF i = 1 THEN x.pal # Null /\ x.pal.trans = 0 /\ x.px # <<>> /\ Area(x) % 2 = 0 ELSE LoadedAnim(x) = x

(* When the pixels cannot be drawn, the length of the last chunk is        *)
(* missing.                                                                *)
LbmWritten(img, pal) ==
  LET bad  == SelectInSeq(Tail(archive), LAMBDA x : ~Has(x, "anim"))
      last == IF bad = 0 THEN Len(archive) ELSE bad
      head == LbmHead(img, pal) \o AnimChunks(last - 1)
      seal == IF \A i \in 1..last : LbmKeeps(archive[i], i) THEN "whole" ELSE "loose"
  IN IF bad # 0 THEN Writes(File("lbm", head, <<>>, archive, Broken(seal)), "WRONG_ARCHIVE")
     ELSE IF ~Drawable(img)
     THEN Writes(File("lbm", Append(head, [t |-> "BODY", len |-> -1]), <<>>, archive, "loose"), "CUSTOM")
     ELSE Writes(File("lbm", head \o LbmBody(img, pal), <<>>, archive, seal), "NONE")

WriteLBM(pal) ==
  IF ~Has(Get(1), "image") THEN Writes(disk, "WRONG_ARCHIVE")
  ELSE IF archive[1].pal # Null THEN LbmWritten(archive[1], archive[1].pal)
  ELSE IF pal THEN LbmWritten(archive[1], Given)
  ELSE Writes(disk, "PALETTE_MISSING")

-------------------------------------------------------------------------------
(* LoadLBM *)

LoadLBM ==
  /\ Opens /\ disk.fmt = "lbm"
  /\ IF ~Is(1, "FORM") THEN Fails({"WRONG_HEADER"})
     ELSE Begins(Nulls(1), [Job("lbm", 2, 0, FALSE, <<>>) EXCEPT
                             !.part = [hdr |-> 0, pal |-> Null, done |-> FALSE]])

NextChunk(a, part, pos) == Goes(a, [io EXCEPT !.part = part, !.pos = pos])

AtChunk(t) == io.op = "lbm" /\ Is(io.pos, t)

(* After BODY there is no picture to add to.  hdr is where the header is. *)
LoadLbmHeader ==
  /\ AtChunk("BMHD")
  /\ IF io.part.done \/ io.part.hdr # 0 \/ ~disk.toks[io.pos].ok THEN Fails({"WRONG_FORMAT"})
     ELSE NextChunk(archive, [io.part EXCEPT !.hdr = io.pos], io.pos + 1)

LoadLbmAnim ==
  /\ AtChunk("CRNG")
  /\ IF io.part.done THEN Fails({"WRONG_FORMAT"})
     ELSE NextChunk(Append(archive, LoadedAnim(disk.toks[io.pos].a)), io.part, io.pos + 1)

(* Only the mask of a header that was read before names an index. *)
MaskTrans(h) == IF h.mask = 2 /\ h.trans < Colours THEN h.trans ELSE 0

LbmTrans == IF io.part.hdr = 0 THEN 0 ELSE MaskTrans(disk.toks[io.part.hdr])

LoadLbmPalette ==
  /\ AtChunk("CMAP")
  /\ IF io.part.done \/ ~disk.toks[io.pos].ok THEN Fails({"WRONG_FORMAT"})
     ELSE NextChunk(archive, [io.part EXCEPT !.pal = Palette(disk.toks[io.pos].c, LbmTrans)], io.pos + 1)

(* Mutant: what is unknown is not skipped. *)
LbmUnknownStays == AtChunk("other") /\ NextChunk(archive, io.part, io.pos)

LoadLbmUnknown == AtChunk("other") /\ NextChunk(archive, io.part, io.pos + 1)

(* A run: a count above 0 and one pixel more than it, or a count of at     *)
(* most 0 and a pixel that is there once more often.  One byte left over   *)
(* is no run.                                                              *)
Unpacked(b) ==
  FoldLeftDomain(
    LAMBDA acc, k :
      LET n    == b[acc.at]
          last == IF n > 0 THEN acc.at + n + 1 ELSE acc.at + 1
      IN IF acc.at > Len(b) THEN acc
         ELSE IF last > Len(b) THEN [acc EXCEPT !.at = Len(b) + 1]
         ELSE [at  |-> last + 1,
               out |-> acc.out \o (IF n > 0 THEN SubSeq(b, acc.at + 1, last)
                                   ELSE [m \in 1..(1 - n) |-> b[last]])],
    [at |-> 1, out |-> <<>>], b).out

(* What the chunk gives for the pixels: those the file has lost are read   *)
(* all the same, and never set; those that no run gives stay transparent.  *)
Pixels(h, b, lost) ==
  LET read == IF h.packed THEN Unpacked(b) ELSE b
      rest == 1..(h.w * h.h - Len(read))
  IN {read \o tail : tail \in IF lost THEN [rest -> Index]
                              ELSE {[n \in rest |-> TransparentIdx(io.part.pal)]}}

BodyLen(len) == len + (len % 2)

(* The length of the chunk, to an even number; where there is none it is   *)
(* never set.                                                              *)
BodyLens(h, len) ==
  LET lens == IF len >= 0 THEN {len} ELSE 0..(h.w * h.h)
  IN {BodyLen(n) : n \in lens}

LoadLbmBody ==
  /\ AtChunk("BODY")
  /\ LET h == disk.toks[io.part.hdr]
     IN IF io.part.hdr = 0 \/ io.part.done THEN Fails({"WRONG_FORMAT"})
        ELSE IF io.part.pal = Null THEN Fails({"PALETTE_MISSING"})
        ELSE \E len \in BodyLens(h, disk.toks[io.pos].len) :
               LET last == IF io.pos + len < disk.len THEN io.pos + len ELSE disk.len
                   b    == [n \in 1..(last - io.pos) |-> disk.toks[io.pos + n].v]
               IN IF ~h.packed /\ len # h.w * h.h THEN Fails({"WRONG_FORMAT"})
                  ELSE \E px \in Pixels(h, b, Len(b) < len) :
                         NextChunk([archive EXCEPT ![1] = Image(io.part.pal, Rows(px, h.w, h.h))],
                                   [io.part EXCEPT !.done = TRUE], last + 1)

LoadLbmEnd ==
  /\ io.op = "lbm" /\ AtEnd(io.pos)
  /\ Returns(archive, IF io.part.done THEN "NONE" ELSE "WRONG_FORMAT")
-------------------------------------------------------------------------------
(* WriteBMP *)

(* Mutant: the colour of the transparent index stays. *)
NotMarked(pal) == pal.c

(* The transparent index gets TRANSPARENT_COLOR. *)
Marked(pal) == IF HasTransparency(pal) THEN [pal.c EXCEPT ![pal.trans + 1] = Pink] ELSE pal.c

(* err: what the checks of both headers say, before the depth is looked at; *)
(* at: where the rows begin.                                                *)
BmpHead(bpp, h, at) ==
  [t |-> "BM", err |-> "NONE", bpp |-> bpp, h |-> h, at |-> at, bottomup |-> TRUE]

RowTokens(px) == [n \in DOMAIN px |-> [t |-> "row", v |-> px[n]]]

(* Rows from the last to the first.  A pixel of 24 bit that has no colour  *)
(* gets TRANSPARENT_COLOR.                                                 *)
BmpTokens(img) ==
  IF img.pal # Null
  THEN <<BmpHead(8, Height(img), 3), [t |-> "colours", c |-> Marked(img.pal)]>> \o RowTokens(Reverse(img.px))
  ELSE <<BmpHead(24, Height(img), 2)>>
         \o RowTokens(Reverse(EachPixel(img.px, LAMBDA v : IF v = Clear THEN Pink ELSE v)))

Uses(img, v) == \E y \in DOMAIN img.px : v \in ToSet(img.px[y])

BmpKeeps(img) ==
  IF img.pal = Null THEN ~Uses(img, Pink)
  ELSE img.pal.c = Marked(img.pal) /\ Keeps(img.pal)

WriteBMP ==
  IF ~Has(Get(1), "image") THEN Writes(disk, "WRONG_ARCHIVE")
  ELSE Writes(File("bmp", BmpTokens(archive[1]), <<>>, archive,
                   IF Len(archive) = 1 /\ BmpKeeps(archive[1]) THEN "whole" ELSE "loose"), "NONE")

-------------------------------------------------------------------------------
(* LoadBMP *)

BmpError(h) ==
  IF h.err # "NONE" THEN h.err
  ELSE IF h.bpp = 16 THEN "UNSUPPORTED_FORMAT"
  ELSE IF h.bpp \notin {4, 8, 24, 32} THEN "WRONG_FORMAT"
  ELSE "NONE"

(* The picture is added to what the archive has. *)
LoadBMP ==
  /\ Opens /\ disk.fmt = "bmp" /\ HasRoom
  /\ IF ~Is(1, "BM") THEN Fails({"WRONG_HEADER"})
     ELSE IF BmpError(disk.toks[1]) # "NONE" THEN Fails({BmpError(disk.toks[1])})
     ELSE Begins(archive, Job("bmp", 2, 0, FALSE, archive))

HasColours == disk.toks[1].bpp \in {4, 8}

(* The rest of a palette that has less colours is as it was made. *)
LoadBmpPalette ==
  /\ io.op = "bmp" /\ HasColours /\ io.part = Null
  /\ IF ~Is(2, "colours") THEN Fails({"UNEXPECTED_EOF"})
     ELSE LET c == disk.toks[2].c
          IN Goes(archive, [io EXCEPT !.part =
                              LoadedPalette([i \in 1..Colours |-> IF i \in DOMAIN c THEN c[i] ELSE Black])])

(* A pixel of 24 bit with TRANSPARENT_COLOR gets no colour. *)
BmpRows(h) ==
  LET rows == [n \in 1..h.h |-> disk.toks[h.at + n - 1].v]
      px   == IF h.bottomup THEN Reverse(rows) ELSE rows
  IN IF h.bpp = 24 THEN EachPixel(px, LAMBDA v : IF v = Pink THEN Clear ELSE v) ELSE px

LoadBmpRows ==
  /\ io.op = "bmp" /\ (HasColours => io.part # Null)
  /\ LET h == disk.toks[1]
     IN IF h.at + h.h - 1 > disk.len THEN Fails({"UNEXPECTED_EOF"})
        ELSE Returns(Append(archive, Image(io.part, BmpRows(h))), "NONE")

-------------------------------------------------------------------------------
PictureStep ==
  \/ LoadLbmHeader \/ LoadLbmAnim \/ LoadLbmPalette \/ LoadLbmUnknown \/ LoadLbmBody \/ LoadLbmEnd
  \/ LoadBmpPalette \/ LoadBmpRows

-------------------------------------------------------------------------------
(* What is in a file *)

IsImage(x) ==
  /\ x.px = [y \in 1..Len(x.px) |-> [n \in 1..Len(x.px[y]) |-> x.px[y][n]]]
  /\ Len(x.px) \in Nat /\ \A y \in DOMAIN x.px : Len(x.px[y]) = Width(x) /\ Width(x) \in Nat
  /\ x.pal # Null =>
       /\ x.pal = Palette(x.pal.c, x.pal.trans) /\ IsColours(x.pal.c) /\ x.pal.trans \in 0..Colours
       /\ \A y \in DOMAIN x.px : \A n \in DOMAIN x.px[y] : x.px[y][n] \in Index

(* The picture that WriteLBM draws. *)
Painted(x) == IF x.pal # Null THEN x ELSE Image(Given, Drawn(x))

(* An index when u and t are exchanged. *)
Swap(v, u, t) == IF v = t THEN u ELSE IF v = u THEN t ELSE v

OnlyHeader(toks, h, n)  == h \in 1..n /\ \A p \in 1..n : toks[p].t = "BMHD" <=> p = h
LastPalette(toks, m, n) == m \in 1..n /\ toks[m].t = "CMAP" /\ \A p \in (m + 1)..n : toks[p].t # "CMAP"
AnimsTo(toks, n)        == Cardinality({p \in 1..n : toks[p].t = "CRNG"})

(* What there is of the pixels of chunk b. *)
BodyBytes(toks, b) ==
  LET end == b + BodyLen(toks[b].len)
  IN [n \in 1..((IF end < Len(toks) THEN end ELSE Len(toks)) - b) |-> toks[b + n].v]

(* A chunk of len bytes, of which there are b, under a header h and the    *)
(* colours c with the transparent index u, has a picture, in which u and   *)
(* the transparent index of the picture may be exchanged.                  *)
Stores(h, c, u, len, b, img) ==
  LET t     == img.pal.trans
      read  == IF h.packed THEN Unpacked(b) ELSE b
      At(k) == IF k =< Len(read) THEN read[k] ELSE u
  IN h.packed \/ BodyLen(len) = h.w * h.h =>
       /\ Height(img) = h.h /\ Width(img) = h.w
       /\ u \in {0, t} /\ c = Exchanged(img.pal.c, u, t)
       /\ Len(read) \in Nat /\ read = [k \in 1..Len(read) |-> read[k]]
       /\ Len(read) < h.w * h.h => Len(b) = BodyLen(len)
       /\ \A y \in 1..h.h : \A x \in 1..h.w : At((y - 1) * h.w + x) = Swap(img.px[y][x], u, t)

AnimsHeld(toks, holds) ==
  \A p \in 1..Len(toks) :
    toks[p].t = "CRNG" =>
      LET n == AnimsTo(toks, p) + 1
      IN n \in DOMAIN holds /\ holds[n] = toks[p].a /\ IsAnim(toks[p].a)

PictureHeld(toks, holds) ==
  \A h, m, b \in 1..Len(toks) :
    toks[b].t = "BODY" /\ OnlyHeader(toks, h, b - 1) /\ LastPalette(toks, m, b - 1) =>
      /\ IsImage(holds[1]) /\ Drawable(holds[1]) /\ toks[b].len \in Nat
      /\ HasTransparency(Painted(holds[1]).pal) =>
           Stores(toks[h], toks[m].c, IF h < m THEN MaskTrans(toks[h]) ELSE 0,
                  toks[b].len, BodyBytes(toks, b), Painted(holds[1]))

(* An LBM file with pixels at its end. *)
LbmIs(toks, holds) ==
  toks # <<>> /\ toks[Len(toks)].t = "c" => AnimsHeld(toks, holds) /\ PictureHeld(toks, holds)

(* Where the row y of a picture is. *)
RowAt(h, y) == IF h.bottomup THEN h.at + h.h - y ELSE h.at + y - 1

(* The picture of a file that is not refused.  TRANSPARENT_COLOR stands    *)
(* for a pixel of 24 bit that has no colour, and for the colour of the     *)
(* transparent index; colours that a palette has not are black.            *)
BmpIs(f) ==
  LET h   == f.toks[1]
      was == f.holds[1]
  IN f.toks # <<>> /\ h.t = "BM" /\ BmpError(h) = "NONE" =>
       /\ h.h \in Nat /\ h.at \in Nat
       /\ h.at + h.h - 1 =< Len(f.toks) =>
            /\ IsImage(was) /\ Len(was.px) = h.h
            /\ h.bpp \in {4, 8} <=> was.pal # Null
            /\ \A y \in 1..h.h :
                 f.toks[RowAt(h, y)].v =
                   IF h.bpp = 24 THEN [n \in DOMAIN was.px[y] |-> IF was.px[y][n] = Clear THEN Pink ELSE was.px[y][n]]
                   ELSE was.px[y]
            /\ h.bpp \in {4, 8} /\ 2 =< Len(f.toks) /\ f.toks[2].t = "colours" /\ HasTransparency(was.pal) =>
                 \A i \in 1..Colours :
                   (IF i \in DOMAIN f.toks[2].c THEN f.toks[2].c[i] ELSE Black)
                     = IF i = was.pal.trans + 1 THEN Pink ELSE was.pal.c[i]

-------------------------------------------------------------------------------
(* Properties *)

(* The colours a picture shows with a palette. *)
ShownWith(px, pal) == EachPixel(px, LAMBDA i : IF i = pal.trans THEN Clear ELSE ShownBy(pal, i))

Shown(px, pal) == IF pal = Null THEN px ELSE ShownWith(px, pal)

LoadedWhole(op) == ret = [op |-> op, code |-> "NONE"] /\ disk.len = Len(disk.toks)

(* A picture shows the same after it went through an LBM file, in which    *)
(* the transparent index and index 0 are exchanged, and goes on to show    *)
(* the same when the palette is turned by an animation that was with it    *)
(* and does not turn these two.  A picture without a transparent index     *)
(* gets one, and one without a palette loses pixels of the colour that     *)
(* stands for transparent; both are left out.                              *)
LbmShowsSame ==
  LoadedWhole("lbm") /\ Last(disk.toks).t = "c" =>
    LET was == disk.holds[1]
        now == archive[1]
    IN IF was.pal = Null
       THEN Uses(was, Given.c[Given.trans + 1]) \/ Shown(now.px, now.pal) = was.px
       ELSE HasTransparency(was.pal) =>
              /\ Shown(now.px, now.pal) = Shown(was.px, was.pal)
              /\ \A n \in 2..Len(archive) :
                   LET a == disk.holds[n]
                   IN LoadedAnim(a) = a /\ {0, was.pal.trans} \intersect a.first..a.last = {} =>
                        ShownWith(now.px, Apply(archive[n], now.pal)) = ShownWith(was.px, Apply(a, was.pal))

(* Entries with TRANSPARENT_COLOR that LoadBMP takes for the transparent   *)
(* one before it comes to the entry that WriteBMP has marked with it.      *)
Ahead(pal) == {i \in Holding(pal.c, Pink) \ {0} : i < pal.trans \/ pal.trans = 0}

(* The picture has pixels of one of the two entries that change roles.     *)
ChangesRoles(img) ==
  Ahead(img.pal) # {} /\ (Uses(img, img.pal.trans) \/ Uses(img, Least(Ahead(img.pal))))

(* A picture shows the same after it went through a BMP file, whatever the *)
(* colour of its transparent index and wherever else its palette has       *)
(* TRANSPARENT_COLOR, unless an entry with it is ahead of the transparent  *)
(* one and the picture has pixels of one of these two: the two change      *)
(* roles then.  With the colours red, pink, pink, blue and index 2         *)
(* transparent, index 1 is transparent in what LoadBMP makes of it, and a  *)
(* pixel of index 2 is opaque.  A picture without a palette is the same if *)
(* it has no pixels of TRANSPARENT_COLOR.                                  *)
BmpShowsSame ==
  LoadedWhole("bmp") =>
    LET was == disk.holds[1]
        now == Last(archive)
    IN IF was.pal = Null THEN Uses(was, Pink) \/ now.px = was.px
       ELSE HasTransparency(was.pal) /\ ~ChangesRoles(was) => Shown(now.px, now.pal) = Shown(was.px, was.pal)
===============================================================================
