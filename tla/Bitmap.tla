-------------------------------- MODULE Bitmap --------------------------------
(***************************************************************************)
(* One bitmap object of the library: ArchivItem_BitmapBase with the        *)
(* operations of baseArchivItem_Bitmap (plain) or ArchivItem_Bitmap_Player *)
(* (with a layer of player colours), driven by any sequence of calls.      *)
(* A call may fail with an error code or an exception ("throw") and leave  *)
(* what it changed so far; the object is then used again.                  *)
(*                                                                         *)
(* Every operation is an operator from an image to [img, code], so that an *)
(* operation that calls another composes the two.  Pixels are palette      *)
(* indices (Paletted) or colours (BGRA), at the linear index y*w + x the   *)
(* code computes; colours are members of Colors, or Transparent for every  *)
(* pixel whose alpha is 0.                                                 *)
(***************************************************************************)
EXTENDS Integers, FiniteSetsExt

CONSTANTS
  Colors,         \* the opaque colours
  Transparent,    \* a BGRA pixel with alpha 0
  NumIdx,         \* palette entries (256); a byte is 0..NumIdx-1
  NumPlayerClrs,  \* numPlayerClrs (4)
  PlayerStart,    \* the player colour base callers pass to create and print
  NoPal,          \* a null palette pointer
  Palettes,       \* the palettes callers own
  Garbage,        \* what the memory of a destroyed palette may read as
  Extents,        \* the <<width, height>> callers ask for
  Buffers,        \* the pixel buffers callers pass to create
  Targets,        \* the pixel buffers callers pass to print
  Rects,          \* the [toX, toY, x, y, w, h] callers pass to print
  Files           \* what files decode to: [w, h, put], put a function from
                  \* the pixels a file sets to [player, c]

Idx     == 0..NumIdx-1
Formats == {"Paletted", "BGRA"}
BGRA    == Colors \cup {Transparent}

Palette == [clr : [Idx -> Colors], t : Idx, hasT : BOOLEAN]

(* TRANSPARENT_PLAYER_CLR_IDX = 0xFF: no player colour at this pixel. *)
NoPlayer == NumIdx - 1

PixelsOf(fmt) == IF fmt = "Paletted" THEN Idx ELSE BGRA

(* lookup that finds nothing. *)
NotFound == -1

(* A PixelBuffer: [w, h, fmt, px], its pixels in row-major order. *)
IsBuffer(b) ==
  /\ b \in [w : Nat, h : Nat, fmt : Formats, px : {b.px}]
  /\ b.px \in [0..(b.w * b.h - 1) -> PixelsOf(b.fmt)]

(* A null buffer pointer. *)
NoBuf == [null |-> TRUE]

(* A file: its extents and the pixels it sets.  What setPixel does outside *)
(* of the picture is undefined, so files that reach there are left out.    *)
IsFile(f) ==
  /\ f.w \in Nat /\ f.h \in Nat
  /\ DOMAIN f.put \subseteq 0..(f.w * f.h - 1)
  /\ \A k \in DOMAIN f.put : f.put[k].c \in Idx /\ f.put[k].player \in BOOLEAN

ASSUME BitmapAssumption ==
  /\ NumIdx \in Nat /\ NumIdx > 0
  /\ NumPlayerClrs \in 1..(NumIdx - 1) /\ PlayerStart \in Idx
  /\ Transparent \notin Colors /\ NotFound \notin BGRA
  /\ Palettes \subseteq Palette /\ Garbage \subseteq Palette
  /\ NoPal \notin Palette
  /\ Extents \subseteq Nat \X Nat
  /\ \A b \in Buffers \cup Targets : IsBuffer(b)
  /\ Rects \subseteq [toX : Nat, toY : Nat, x : Nat, y : Nat, w : Nat, h : Nat]
  /\ \A f \in Files : IsFile(f)

VARIABLES
  img,    \* the bitmap: [player, w, h, px, fmt, pal, tex]
  gfmt,   \* the global texture format, static in libsiedler2.cpp
  ret     \* the call that has just returned, or Idle

vars == <<img, gfmt, ret>>

-------------------------------------------------------------------------------
(* Palette *)

IsTransparent(p, k) == p.hasT /\ k = p.t

(* Mutant: the transparent index is taken like any other. *)
LookupAnyIdx(p, c) ==
  LET all == {k \in Idx : p.clr[k] = c} IN IF all # {} THEN Min(all) ELSE NotFound

(* ArchivItem_Palette::lookup: the first index with the colour, the        *)
(* transparent index only if there is no other; the throwing overload      *)
(* throws on NotFound.                                                     *)
Lookup(p, c) ==
  LET opaque == {k \in Idx : p.clr[k] = c /\ ~IsTransparent(p, k)} IN
  IF opaque # {} THEN Min(opaque)
  ELSE IF p.hasT /\ p.clr[p.t] = c THEN p.t ELSE NotFound

ToIdx(p, c) == IF c = Transparent THEN p.t ELSE Lookup(p, c)

(* getPixel of a paletted pixel. *)
ToBGRA(p, k) == IF IsTransparent(p, k) THEN Transparent ELSE p.clr[k]

-------------------------------------------------------------------------------
(* ArchivItem_BitmapBase *)

Fill(n, v) == [k \in 0..(n - 1) |-> v]

Result(i, code) == [img |-> i, code |-> code]

Cleared(i) == [i EXCEPT !.w = 0, !.h = 0, !.px = Fill(0, 0), !.tex = Fill(0, 0)]

(* init(width, height, format), and the override of the player bitmap,     *)
(* which sizes the player layer after it.                                  *)
InitImg(i, w, h, fmt) ==
  LET W == IF h = 0 THEN 0 ELSE w
      H == IF w = 0 THEN 0 ELSE h
      c == Cleared(i)
  IN IF fmt = "Original" THEN Result(i, "throw")
     ELSE IF fmt = "Paletted" /\ i.pal = NoPal THEN Result(c, "throw")
     ELSE Result([c EXCEPT
            !.w = W, !.h = H, !.fmt = fmt,
            !.px  = Fill(W * H, IF fmt = "Paletted" THEN i.pal.t ELSE Transparent),
            !.tex = Fill(IF i.player THEN W * H ELSE 0, NoPlayer)], "NONE")

(* Mutant: the palette of a paletted bitmap may be removed. *)
SetPalUnchecked(i, p) == Result([i EXCEPT !.pal = p], "NONE")

(* setPalette *)
SetPal(i, p) ==
  IF p = NoPal /\ i.fmt = "Paletted" THEN Result(i, "throw")
  ELSE Result([i EXCEPT !.pal = p], "NONE")

(* init(width, height, format, newPal): the format is set to BGRA first so *)
(* that the palette may be removed.                                        *)
InitPalImg(i, w, h, fmt, p) ==
  LET j == IF fmt = "BGRA" THEN [i EXCEPT !.fmt = "BGRA"] ELSE i
      s == SetPal(j, p)
  IN IF fmt = "Paletted" /\ p = NoPal THEN Result(i, "throw")
     ELSE IF s.code = "throw" THEN s
     ELSE InitImg(s.img, w, h, fmt)

(* Mutant: the format is set before the pixels are converted. *)
ConvertFormatFirst(i, fmt) ==
  IF fmt = "Original" \/ fmt = i.fmt THEN Result(i, "NONE")
  ELSE IF i.pal = NoPal THEN Result([i EXCEPT !.fmt = fmt], "PALETTE_MISSING")
  ELSE Result([i EXCEPT !.fmt = fmt, !.px =
                 [k \in DOMAIN i.px |-> IF fmt = "BGRA" THEN ToBGRA(i.pal, i.px[k])
                                        ELSE ToIdx(i.pal, i.px[k])]], "NONE")

(* convertFormat: the new buffer is filled on the side; a colour that is   *)
(* not in the palette throws before anything is assigned.                  *)
ConvertImg(i, fmt) ==
  IF fmt = "Original" \/ fmt = i.fmt THEN Result(i, "NONE")
  ELSE IF i.pal = NoPal THEN Result(i, "PALETTE_MISSING")
  ELSE LET conv == [k \in DOMAIN i.px |-> IF fmt = "BGRA" THEN ToBGRA(i.pal, i.px[k])
                                          ELSE ToIdx(i.pal, i.px[k])]
       IN IF NotFound \in {conv[k] : k \in DOMAIN conv} THEN Result(i, "throw")
          ELSE Result([i EXCEPT !.px = conv, !.fmt = fmt], "NONE")

(* setPixel(x, y, colorIdx); a BGRA bitmap needs a palette (assert). *)
SetIdxImg(i, k, c) ==
  [i EXCEPT !.px[k] = IF i.fmt = "Paletted" THEN c ELSE ToBGRA(i.pal, c)]

(* setPixel(x, y, color) *)
SetClrImg(i, k, c) ==
  IF i.fmt = "BGRA" THEN Result([i EXCEPT !.px[k] = c], "NONE")
  ELSE IF ToIdx(i.pal, c) = NotFound THEN Result(i, "throw")
  ELSE Result([i EXCEPT !.px[k] = ToIdx(i.pal, c)], "NONE")

-------------------------------------------------------------------------------
(* create: a bitmap from a caller's buffer *)

(* Mutant: the rows of the buffer are taken to be as wide as the bitmap. *)
BufIdxImageRows(b, w, k) == k

(* Image index k lies in the part of the image the buffer covers, and the  *)
(* buffer index of that pixel.                                             *)
Covered(b, w, k) == (k % w) < b.w /\ (k \div w) < b.h
BufIdx(b, w, k)  == (k \div w) * b.w + (k % w)

(* baseArchivItem_Bitmap::create *)
CreateImg(i, w, h, b, p0) ==
  IF b = NoBuf THEN Result(i, "INVALID_BUFFER") ELSE
  LET p == IF p0 = NoPal /\ b.fmt = "Paletted" THEN i.pal ELSE p0
      j == InitPalImg(i, w, h, b.fmt, p).img
  IN IF p = NoPal /\ b.fmt = "Paletted" THEN Result(i, "PALETTE_MISSING")
     ELSE Result([j EXCEPT !.px = [k \in DOMAIN j.px |->
            IF Covered(b, j.w, k) THEN b.px[BufIdx(b, j.w, k)] ELSE j.px[k]]], "NONE")

(* ArchivItem_Bitmap_Player::create.  Pixels are taken in row-major order  *)
(* until the lookup of one throws.  q is what the palette pointer reads as *)
(* in the loop.                                                            *)
IsPlayerClr(c) == c \in PlayerStart..(PlayerStart + NumPlayerClrs - 1)

CreatePlayerImg(i, w, h, b, p0, q) ==
  IF b = NoBuf THEN Result(i, "INVALID_BUFFER") ELSE
  LET p    == IF p0 = NoPal THEN i.pal ELSE p0
      j    == InitPalImg(i, w, h, b.fmt, IF b.fmt = "BGRA" THEN NoPal ELSE p).img
      in(k)  == b.px[BufIdx(b, j.w, k)]
      idx(k) == IF b.fmt = "Paletted" THEN in(k)
                ELSE IF in(k) = Transparent THEN NotFound ELSE Lookup(q, in(k))
      area == {k \in DOMAIN j.px : Covered(b, j.w, k)}
      bad  == {k \in area : in(k) # Transparent /\ idx(k) = NotFound}
      done == {k \in area : \A n \in bad : k < n}
      plr  == {k \in done : IsPlayerClr(idx(k))}
  IN IF p = NoPal THEN Result(i, "PALETTE_MISSING")
     ELSE Result([j EXCEPT
            !.px  = [k \in DOMAIN j.px |->
                       IF k \in plr /\ b.fmt = "Paletted" THEN p.t
                       ELSE IF k \in done THEN in(k) ELSE j.px[k]],
            !.tex = [k \in DOMAIN j.tex |->
                       IF k \in plr THEN idx(k) - PlayerStart ELSE j.tex[k]]],
            IF bad = {} THEN "NONE" ELSE "throw")

(* With no palette argument and a BGRA buffer the pointer is the bitmap's  *)
(* own palette, which init has destroyed: it reads as any palette.         *)
ReadsAs(i, b, p0) ==
  IF p0 # NoPal THEN {p0}
  ELSE IF b # NoBuf /\ b.fmt = "BGRA" /\ i.pal # NoPal THEN Garbage
  ELSE {i.pal}

(* baseArchivItem_Bitmap::flipVertical swaps the rows of the pixel data. *)
FlipImg(i) ==
  [i EXCEPT !.px = [k \in DOMAIN i.px |-> i.px[(i.h - 1 - (k \div i.w)) * i.w + (k % i.w)]]]

-------------------------------------------------------------------------------
(* print: the bitmap into a caller's buffer *)

(* Mutant: the requested size is not honoured. *)
ClipOffsetOnly(off, size, limit) ==
  IF off < limit THEN [o |-> off, n |-> limit - off] ELSE [o |-> limit, n |-> 0]

(* clipValues *)
ClipAxis(off, size, limit) ==
  IF off < limit THEN [o |-> off, n |-> Min({size, limit - off})] ELSE [o |-> limit, n |-> 0]

(* The buffer cells that a copy of the source rectangle to (toX, toY)      *)
(* writes, and the image index each one is copied from; from_w and from_h  *)
(* of 0 stand for the rest of the image.                                   *)
PrintMap(i, b, r) ==
  LET fw == IF r.w = 0 /\ r.x < i.w THEN i.w - r.x ELSE r.w
      fh == IF r.h = 0 /\ r.y < i.h THEN i.h - r.y ELSE r.h
      sx == ClipAxis(r.x, fw, i.w)      sy == ClipAxis(r.y, fh, i.h)
      dx == ClipAxis(r.toX, b.w, b.w)   dy == ClipAxis(r.toY, b.h, b.h)
      cw == Min({sx.n, dx.n})           ch == Min({sy.n, dy.n})
      cells == {k \in DOMAIN b.px : /\ (k % b.w) \in dx.o..(dx.o + cw - 1)
                                    /\ (k \div b.w) \in dy.o..(dy.o + ch - 1)}
  IN [k \in cells |-> ((k \div b.w) - dy.o + sy.o) * i.w + ((k % b.w) - dx.o + sx.o)]

(* CopyPixelBuffer: transparent pixels are skipped, paletted pixels are    *)
(* not translated to another palette, a colour that is not in the palette  *)
(* of a paletted destination throws after the pixels before it.            *)
CopyPixels(i, b, dstPal, map) ==
  LET skips(s) == IF i.fmt = "Paletted" THEN IsTransparent(i.pal, i.px[s])
                  ELSE i.px[s] = Transparent
      out(s)   == IF i.fmt = b.fmt THEN i.px[s]
                  ELSE IF i.fmt = "Paletted" THEN i.pal.clr[i.px[s]]
                  ELSE Lookup(dstPal, i.px[s])
      put  == {k \in DOMAIN map : ~skips(map[k])}
      bad  == {k \in put : out(map[k]) = NotFound}
      done == {k \in put : \A n \in bad : k < n}
  IN [buf  |-> [b EXCEPT !.px = [k \in DOMAIN b.px |->
                                   IF k \in done THEN out(map[k]) ELSE b.px[k]]],
      code |-> IF bad = {} THEN "NONE" ELSE "throw"]

(* baseArchivItem_Bitmap::print *)
PrintBuf(i, b, p0, r) ==
  LET p == IF p0 = NoPal THEN i.pal ELSE p0 IN
  IF b = NoBuf THEN [buf |-> b, code |-> "INVALID_BUFFER"]
  ELSE IF b.w = 0 \/ b.h = 0 THEN [buf |-> b, code |-> "NONE"]
  ELSE IF b.fmt = "Paletted" /\ p = NoPal THEN [buf |-> b, code |-> "PALETTE_MISSING"]
  ELSE CopyPixels(i, b, p, PrintMap(i, b, r))

(* ArchivItem_Bitmap_Player::print: the pixels, then the player colours    *)
(* over them; into BGRA a player colour takes the alpha of the pixel below.*)
PrintPlayerBuf(i, b, p0, r, only) ==
  IF b = NoBuf THEN [buf |-> b, code |-> "INVALID_BUFFER"]
  ELSE IF b.w = 0 \/ b.h = 0 THEN [buf |-> b, code |-> "NONE"]
  ELSE IF p0 = NoPal /\ i.pal = NoPal THEN [buf |-> b, code |-> "PALETTE_MISSING"]
  ELSE
  LET p    == IF p0 = NoPal THEN i.pal ELSE p0
      map  == PrintMap(i, b, r)
      base == IF only THEN [buf |-> b, code |-> "NONE"] ELSE CopyPixels(i, b, p, map)
      clr(s) == (i.tex[s] + PlayerStart) % NumIdx
      out(s) == IF b.fmt = "Paletted" THEN clr(s)
                ELSE IF i.fmt = "BGRA" /\ i.px[s] = Transparent THEN Transparent
                ELSE p.clr[clr(s)]
  IN IF base.code # "NONE" THEN base
     ELSE [base EXCEPT !.buf.px = [k \in DOMAIN b.px |->
             IF k \in DOMAIN map /\ i.tex[map[k]] # NoPlayer THEN out(map[k]) ELSE @[k]]]

-------------------------------------------------------------------------------
(* load: the part of the loaders that works on the bitmap; a broken file   *)
(* ends one with an error at any of its returns.                           *)

(* getWantedFormat(TextureFormat::Paletted) *)
Wanted == IF gfmt = "Original" THEN "Paletted" ELSE gfmt

(* Mutant: the palette stays with a BGRA bitmap. *)
KeepPal(i) == i

(* The trailing "Remove external palette" of every loader. *)
DropPal(i) == IF i.fmt = "BGRA" THEN SetPal(i, NoPal).img ELSE i

(* A player pixel of a file is stored as an offset in the player layer and *)
(* as the colour index 128 above it in the bitmap.                         *)
FilePixel(p) == IF p.player THEN (p.c + (NumIdx \div 2)) % NumIdx ELSE p.c

PutFile(i, f) ==
  LET set == DOMAIN f.put
  IN [i EXCEPT
        !.px  = [k \in DOMAIN i.px |->
                   IF k \in set THEN SetIdxImg(i, k, FilePixel(f.put[k])).px[k] ELSE i.px[k]],
        !.tex = [k \in DOMAIN i.tex |->
                   IF k \in set /\ f.put[k].player THEN f.put[k].c ELSE i.tex[k]]]

(* ArchivItem_Bitmap_Player::load of data in memory: the bitmap is created *)
(* first and filled while the data is decoded.  The palette stays.         *)
LoadImageImg(i, f, p, code) ==
  IF p = NoPal THEN Result(i, "PALETTE_MISSING")
  ELSE Result(PutFile(InitPalImg(i, f.w, f.h, Wanted, p).img, f), code)

(* baseArchivItem_Bitmap_RLE::load and ArchivItem_Bitmap_Player::load of a *)
(* file, with the place where they end: in the header, in the rows, or     *)
(* behind them.                                                            *)
LoadRunsImg(i, f, p, at, code) ==
  LET image == LoadImageImg(Cleared(i), f, p, code)
  IN IF p = NoPal THEN Result(i, "PALETTE_MISSING")
     ELSE IF at = "header" THEN Result(Cleared(i), code)
     ELSE IF at = "rows" THEN image
     ELSE Result(DropPal(image.img), code)

(* create from the decoded paletted buffer, then convert. *)
CreateConverted(i, f, p, code) ==
  LET j == CreateImg(i, f.w, f.h,
             [w |-> f.w, h |-> f.h, fmt |-> "Paletted",
              px |-> [k \in 0..(f.w * f.h - 1) |->
                        IF k \in DOMAIN f.put THEN FilePixel(f.put[k]) ELSE p.t]], p).img
      c == ConvertImg(j, Wanted)
  IN IF c.code # "NONE" THEN c ELSE Result(DropPal(c.img), code)

(* baseArchivItem_Bitmap_Raw::load: everything is read before the bitmap   *)
(* is touched; a file without pixels makes a 0x0 bitmap.                   *)
LoadRawImg(i, f, p, code) ==
  IF p = NoPal THEN Result(i, "PALETTE_MISSING")
  ELSE IF code \in {"WRONG_HEADER", "WRONG_FORMAT"} THEN Result(i, code)
  ELSE IF f.w * f.h > 0 THEN CreateConverted(i, f, p, code)
  ELSE Result(InitPalImg(i, 0, 0, Wanted, IF Wanted = "Paletted" THEN p ELSE NoPal).img, code)

(* baseArchivItem_Bitmap_Shadow::load: an empty data block makes a         *)
(* transparent paletted bitmap whatever the wanted format is.              *)
LoadShadowImg(i, f, p, code, noData) ==
  IF p = NoPal THEN Result(i, "PALETTE_MISSING")
  ELSE IF code # "NONE" THEN Result(Cleared(i), code)
  ELSE IF noData THEN InitPalImg(Cleared(i), f.w, f.h, "Paletted", p)
  ELSE CreateConverted(Cleared(i), f, p, "NONE")

-------------------------------------------------------------------------------
(* The calls *)

NoArg == [none |-> TRUE]
Idle  == [op |-> "idle", code |-> "NONE", arg |-> NoArg]

(* ArchivItem_BitmapBase(): BGRA, no palette, no pixels. *)
Init ==
  /\ \E player \in BOOLEAN :
       img = [player |-> player, w |-> 0, h |-> 0, px |-> Fill(0, 0),
              fmt |-> "BGRA", pal |-> NoPal, tex |-> Fill(0, 0)]
  /\ gfmt = "Original"
  /\ ret = Idle

(* A call returns r. *)
Returns(op, r, arg) ==
  /\ ret = Idle
  /\ img' = r.img
  /\ ret' = [op |-> op, code |-> r.code, arg |-> arg]
  /\ UNCHANGED gfmt

AnyPal == Palettes \cup {NoPal}

SetGlobalFormat(fmt) == ret = Idle /\ gfmt' = fmt /\ UNCHANGED <<img, ret>>

InitCall(e, fmt)       == Returns("init", InitImg(img, e[1], e[2], fmt), NoArg)
InitPalCall(e, fmt, p) == Returns("initPal", InitPalImg(img, e[1], e[2], fmt, p), NoArg)
ClearCall              == Returns("clear", Result(Cleared(img), "NONE"), NoArg)
SetPaletteCall(p)      == Returns("setPalette", SetPal(img, p), NoArg)
ConvertCall(fmt)       == Returns("convertFormat", ConvertImg(img, fmt), NoArg)

SetPixelIdxCall(k, c) ==
  /\ img.fmt = "BGRA" => img.pal # NoPal
  /\ Returns("setPixel", Result(SetIdxImg(img, k, c), "NONE"), NoArg)

SetPixelClrCall(k, c) == Returns("setPixel", SetClrImg(img, k, c), NoArg)

CreateCall(e, b, p) ==
  /\ ~img.player
  /\ Returns("create", CreateImg(img, e[1], e[2], b, p), [buf |-> b, pal |-> p])

CreatePlayerCall(e, b, p) ==
  /\ img.player
  /\ \E q \in ReadsAs(img, b, p) :
       Returns("create", CreatePlayerImg(img, e[1], e[2], b, p, q), [buf |-> b, pal |-> p])

FlipCall == ~img.player /\ Returns("flip", Result(FlipImg(img), "NONE"), NoArg)

(* print changes the caller's buffer only: ret.arg holds it before and     *)
(* after.                                                                  *)
PrintCall(b, p, r) ==
  /\ ~img.player
  /\ LET out == PrintBuf(img, b, p, r)
     IN Returns("print", Result(img, out.code), [buf |-> b, pal |-> p, rect |-> r, out |-> out.buf])

PrintPlayerCall(b, p, r, only) ==
  /\ img.player
  /\ LET out == PrintPlayerBuf(img, b, p, r, only)
     IN Returns("print", Result(img, out.code), [buf |-> b, pal |-> p, rect |-> r, out |-> out.buf])

(* Where a run-length loader ends, and with which code: the table of rows  *)
(* and the addresses in it are those of a player bitmap.                   *)
RunEnds ==
  {<<"header", "UNEXPECTED_EOF">>, <<"header", "WRONG_HEADER">>,
   <<"end", "UNEXPECTED_EOF">>, <<"end", "NONE">>}
  \cup IF img.player THEN {<<"header", "WRONG_FORMAT">>, <<"rows", "UNEXPECTED_EOF">>}
       ELSE {<<"rows", "WRONG_FORMAT">>}

LoadRunsCall(f, p, at, code) ==
  /\ \A k \in DOMAIN f.put : f.put[k].player => img.player
  /\ <<at, code>> \in RunEnds
  /\ Returns("load", LoadRunsImg(img, f, p, at, code), NoArg)

(* As the loader of bobs calls it. *)
LoadImageCall(f, p, code) ==
  /\ img.player
  /\ code \in {"NONE", "UNEXPECTED_EOF"}
  /\ Returns("loadImage", LoadImageImg(img, f, p, code), [pal |-> p])

(* WRONG_HEADER and WRONG_FORMAT end the other loaders early; the check    *)
(* for a short file is their last statement.                               *)
LoadCodes == {"NONE", "WRONG_HEADER", "WRONG_FORMAT", "UNEXPECTED_EOF"}

LoadRawCall(f, p, code) ==
  /\ ~img.player /\ \A k \in DOMAIN f.put : ~f.put[k].player
  /\ Returns("load", LoadRawImg(img, f, p, code), NoArg)

LoadShadowCall(f, p, code, noData) ==
  /\ ~img.player /\ \A k \in DOMAIN f.put : ~f.put[k].player
  /\ \A k, n \in DOMAIN f.put : f.put[k] = f.put[n]
  /\ noData => DOMAIN f.put = {}
  /\ code # "UNEXPECTED_EOF"
  /\ Returns("loadShadow", LoadShadowImg(img, f, p, code, noData), [pal |-> p, noData |-> noData])

(* The caller has looked at the result. *)
Return == ret # Idle /\ ret' = Idle /\ UNCHANGED <<img, gfmt>>

Next ==
  \/ Return
  \/ \E fmt \in Formats \cup {"Original"} :
       \/ SetGlobalFormat(fmt)
       \/ ConvertCall(fmt)
       \/ \E e \in Extents :
            \/ InitCall(e, fmt)
            \/ \E p \in AnyPal : InitPalCall(e, fmt, p)
  \/ ClearCall
  \/ FlipCall
  \/ \E p \in AnyPal :
       \/ SetPaletteCall(p)
       \/ \E e \in Extents, b \in Buffers \cup {NoBuf} :
            CreateCall(e, b, p) \/ CreatePlayerCall(e, b, p)
       \/ \E b \in Targets \cup {NoBuf}, r \in Rects :
            \/ PrintCall(b, p, r)
            \/ \E only \in BOOLEAN : PrintPlayerCall(b, p, r, only)
       \/ \E f \in Files, code \in LoadCodes :
            \/ \E at \in {"header", "rows", "end"} : LoadRunsCall(f, p, at, code)
            \/ LoadImageCall(f, p, code)
            \/ LoadRawCall(f, p, code)
            \/ \E noData \in BOOLEAN : LoadShadowCall(f, p, code, noData)
  \/ \E k \in DOMAIN img.px :
       \/ \E c \in Idx  : SetPixelIdxCall(k, c)
       \/ \E c \in BGRA : SetPixelClrCall(k, c)

Spec == Init /\ [][Next]_vars

-------------------------------------------------------------------------------
(* Properties *)

(* The layers of a bitmap agree. *)
ImgOK(i) ==
  /\ i \in [player : BOOLEAN, w : Nat, h : Nat, px : {i.px}, fmt : Formats,
            pal : Palette \cup {NoPal}, tex : {i.tex}]
  /\ i.w = 0 <=> i.h = 0
  /\ i.px \in [0..(i.w * i.h - 1) -> PixelsOf(i.fmt)]
  /\ i.tex \in [0..((IF i.player THEN i.w * i.h ELSE 0) - 1) -> Idx]
  /\ i.fmt = "Paletted" => i.pal # NoPal

(* The layers of a bitmap agree: as many pixels as width x height and all  *)
(* of the kind of the format, a palette whenever the pixels are indices, a *)
(* player colour (or none) per pixel of a player bitmap, and no bitmap     *)
(* with only one extent.  Every reader of a bitmap (getPixel, print, the   *)
(* writers) indexes the layers and dereferences the palette on the         *)
(* strength of this, after any sequence of calls, failed ones included.    *)
Consistent == ImgOK(img) /\ gfmt \in Formats \cup {"Original"}

(* What getPixel and getPlayerColorIdx say of pixel k. *)
Sees(i, k) ==
  [pixel  |-> IF i.fmt = "Paletted" THEN ToBGRA(i.pal, i.px[k]) ELSE i.px[k],
   player |-> IF i.player THEN i.tex[k] ELSE NoPlayer]

View(i) == [k \in DOMAIN i.px |-> Sees(i, k)]

(* Index p.t means transparent, and no pixel needs its colour as opaque. *)
Convertible(i, p) ==
  /\ p.hasT
  /\ \A k \in DOMAIN i.px :
       i.fmt = "BGRA" /\ i.px[k] = p.clr[p.t]
       => \E n \in Idx \ {p.t} : p.clr[n] = i.px[k]

Blank(w, h, fmt, p) ==
  [w |-> w, h |-> h, fmt |-> fmt,
   px |-> Fill(w * h, IF fmt = "Paletted" THEN p.t ELSE Transparent)]

WholeRect == [toX |-> 0, toY |-> 0, x |-> 0, y |-> 0, w |-> 0, h |-> 0]

(* What print with palette p shows of a bitmap in an empty BGRA buffer. *)
Screen(i, p) ==
  LET empty == Blank(i.w, i.h, "BGRA", p)
  IN IF i.player THEN PrintPlayerBuf(i, empty, p, WholeRect, FALSE).buf.px
     ELSE PrintBuf(i, empty, p, WholeRect).buf.px

(* A player colour with nothing below it, and its colour on the screen. *)
Afloat(i, k) == Sees(i, k).player # NoPlayer /\ Sees(i, k).pixel = Transparent

PlayerClr(i, p, k) == (IF p = NoPal THEN i.pal ELSE p).clr[(i.tex[k] + PlayerStart) % NumIdx]

(* convertFormat that succeeds changes neither size, nor palette, nor any  *)
(* colour that getPixel returns, those below player colours included, nor  *)
(* any player colour, whichever way it converts, as long as the palette    *)
(* has a transparent index that no opaque pixel needs.  And print, with    *)
(* any palette, shows on a screen what it showed before, but for player    *)
(* colours over transparent pixels, which create makes of a paletted       *)
(* buffer (ArchivItem_Bitmap_Player.cpp:354): these print shows while the  *)
(* bitmap is paletted, and it makes them transparent when it is BGRA       *)
(* (ArchivItem_Bitmap_Player.cpp:456-458).                                 *)
ConvertKeepsView ==
  [][/\ ret'.op = "convertFormat" /\ ret'.code = "NONE"
     /\ img.pal # NoPal => Convertible(img, img.pal)
     => /\ View(img') = View(img)
        /\ img'.w = img.w /\ img'.pal = img.pal
        /\ \A p \in AnyPal, k \in DOMAIN img.px :
             Screen(img', p)[k] = IF ~Afloat(img, k) THEN Screen(img, p)[k]
                                  ELSE IF img'.fmt = "BGRA" THEN Transparent
                                  ELSE PlayerClr(img, p, k)]_vars

(* A call that fails leaves the bitmap either as it was or empty, in the   *)
(* format it had; only init with a palette argument may have replaced the  *)
(* palette by then, and only the loaders and the player create, which fill *)
(* the bitmap while they decode, may stop half way.                        *)
FailureKeepsOrEmpties ==
  [][/\ ret'.code # "NONE" /\ ret'.op \in {"init", "initPal", "setPalette", "convertFormat",
                                          "setPixel", "create", "print"}
     /\ ~(ret'.op = "create" /\ ret'.code = "throw")
     => LET was == IF ret'.op = "initPal" THEN [img EXCEPT !.pal = img'.pal] ELSE img
        IN img' = was \/ img' = Cleared(was)]_vars

BufColour(b, p, k) ==
  IF b.fmt = "BGRA" THEN b.px[k]
  ELSE ToBGRA(p, b.px[k])

PrintWhole(i, p) ==
  LET blank == Blank(i.w, i.h, i.fmt, p)
  IN IF i.player THEN PrintPlayerBuf(i, blank, p, WholeRect, FALSE)
     ELSE PrintBuf(i, blank, p, WholeRect)

(* What create took from a buffer, print with the same palette gives back: *)
(* the buffer's pixels where it covers the bitmap, the player colours put  *)
(* back over theirs, and nothing elsewhere.                                *)
CreateThenPrint ==
  [][LET p == ret'.arg.pal
         b == ret'.arg.buf
         out == PrintWhole(img', p).buf
     IN ret'.op = "create" /\ ret'.code = "NONE" /\ p # NoPal /\ img'.w > 0
        => \A x \in 0..(out.w - 1), y \in 0..(out.h - 1) :
             LET k == y * out.w + x
             IN out.px[k] = IF x < b.w /\ y < b.h THEN b.px[y * b.w + x]
                            ELSE Blank(out.w, out.h, out.fmt, p).px[k]]_vars

(* print writes inside the requested part of the buffer only, and a plain  *)
(* bitmap never makes an opaque BGRA pixel of the buffer transparent.      *)
PrintStaysInside ==
  [][LET a == ret'.arg
     IN ret'.op = "print" /\ a.buf # NoBuf
        => /\ DOMAIN a.out.px = DOMAIN a.buf.px
           /\ \A k \in DOMAIN a.buf.px :
                a.out.px[k] # a.buf.px[k] =>
                  /\ (k % a.buf.w) >= a.rect.toX /\ (k \div a.buf.w) >= a.rect.toY
                  /\ a.rect.w # 0 => (k % a.buf.w) < a.rect.toX + a.rect.w
                  /\ a.rect.h # 0 => (k \div a.buf.w) < a.rect.toY + a.rect.h
                  /\ ~img.player /\ a.buf.fmt = "BGRA" => a.out.px[k] # Transparent]_vars

(* A bitmap that was loaded from a file is in the global texture format,   *)
(* and keeps the palette it was loaded with only when it is paletted; one  *)
(* that was loaded from memory is in that format and keeps it always.  A   *)
(* shadow whose file has no data for it is the exception: it is paletted   *)
(* whatever the format is (ArchivItem_Bitmap_Shadow.cpp:72).               *)
LoadHonoursFormat ==
  [][ret'.code = "NONE" =>
       /\ ret'.op = "load" \/ (ret'.op = "loadShadow" /\ ~ret'.arg.noData) =>
            img'.fmt = Wanted /\ (img'.fmt = "BGRA" => img'.pal = NoPal)
       /\ ret'.op = "loadShadow" /\ ret'.arg.noData =>
            img'.fmt = "Paletted" /\ img'.pal = ret'.arg.pal
       /\ ret'.op = "loadImage" =>
            img'.fmt = Wanted /\ img'.pal = ret'.arg.pal]_vars

(* "All colors with palette index in [plClrStartIdx, plClrStartIdx +       *)
(* numPlayerClrs) are considered to be player colors": the player layer is *)
(* what the palette in use at the call says.                               *)
PlayerClrsFromPalette ==
  [][LET p == IF ret'.arg.pal = NoPal THEN img.pal ELSE ret'.arg.pal
         b == ret'.arg.buf
     IN ret'.op = "create" /\ img.player /\ ret'.code = "NONE"
        => \A k \in DOMAIN img'.px :
             Covered(b, img'.w, k) =>
               LET c == b.px[BufIdx(b, img'.w, k)]
                   n == IF b.fmt = "Paletted" THEN c ELSE ToIdx(p, c)
               IN (b.fmt = "BGRA" => c # Transparent)
                  => ((img'.tex[k] # NoPlayer) <=> IsPlayerClr(n))]_vars
===============================================================================
