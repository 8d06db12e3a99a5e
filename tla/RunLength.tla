------------------------------ MODULE RunLength ------------------------------
(***************************************************************************)
(* The run-length formats of bitmaps: the writers and loaders of           *)
(* baseArchivItem_Bitmap_RLE ("rle"), baseArchivItem_Bitmap_Shadow         *)
(* ("shadow") and ArchivItem_Bitmap_Player ("player").  A picture is       *)
(* written run by run into an image buffer whose size was fixed before,    *)
(* and loaded again, possibly from a file that was cut short.              *)
(*                                                                         *)
(* A pixel is a palette index, or Player(c) for the player colour c.  The  *)
(* header in front of the data and the palette are left out.  The table of *)
(* row addresses is kept apart from the data: an address in the file is    *)
(* 2*h more than the position in the data.                                 *)
(***************************************************************************)
EXTENDS Integers, Sequences, FiniteSetsExt

CONSTANTS
  Byte,       \* values of a byte (256)
  AddrMod,    \* values of a uint16_t (65536)
  MaxColour,  \* longest run of coloured pixels of rle (0x7F)
  MaxClear,   \* longest run of transparent pixels of rle (0xFF)
  MaxRun,     \* longest run of player (63)
  Clear,      \* the transparent index of the palette
  Gray,       \* the index of white, which shadows are loaded as
  Pics        \* pictures to write: [kind, w, h, px]

Kinds == {"rle", "shadow", "player"}

Player(c) == Byte + c

Pixels(kind) == IF kind = "player" THEN 0..(2 * Byte - 2) ELSE 0..(Byte - 1)

IsPic(p) ==
  /\ p.kind \in Kinds /\ p.w \in Nat /\ p.h \in Nat
  /\ p.w = 0 <=> p.h = 0
  /\ p.px \in [0..(p.w * p.h - 1) -> Pixels(p.kind)]

ASSUME RunLengthAssumption ==
  /\ Byte \in Nat /\ Byte % 4 = 0 /\ Byte > 0 /\ AddrMod \in Nat /\ AddrMod > 0
  /\ MaxColour \in 3..(Byte - 1) /\ MaxClear \in 2..(Byte - 1)
  /\ MaxRun \in 1..((Byte \div 4) - 1)
  /\ Clear \in 0..(Byte - 1) /\ Gray \in 0..(Byte - 1) /\ Gray # Clear
  /\ \A p \in Pics : IsPic(p)

VARIABLES
  pic,     \* the picture that is written
  phase,   \* "writing", "written", "overrun", "wrapped", "reading", "done"
  x, y,    \* the pixel that is written or read next
  image,   \* the data written
  starts,  \* the addresses of the rows
  cut,     \* bytes missing at the end of the file
  pos,     \* position in the data, -1 before the row of a player bitmap is found
  dec,     \* the pixels loaded
  ff,      \* all end marks skipped so far were 0xFF (asserted)
  code     \* what load returned

vars == <<pic, phase, x, y, image, starts, cut, pos, dec, ff, code>>

W == pic.w
H == pic.h
Mark == Byte - 1   \* 0xFF

-------------------------------------------------------------------------------
(* write *)

(* Mutant: a shadow row has no byte for a first run of no pixels. *)
BufSizeTight ==
  CASE pic.kind = "rle"    -> W * H * 2 + H + 1
    [] pic.kind = "shadow" -> W * H + H * 2 + 1
    [] OTHER               -> W * H * 2

(* The image buffer.  rle: "1-2 bytes per pixel + 1 byte FF per row + 1    *)
(* byte FF end"; shadow: "1 byte/pixel + (1 byte FF + 2 extra bytes ...)   *)
(* per row + 1 byte FF final"; player: two bytes per pixel.                *)
BufSize ==
  CASE pic.kind = "rle"    -> W * H * 2 + H + 1
    [] pic.kind = "shadow" -> W * H + H * 3 + 1
    [] OTHER               -> W * H * 2

(* Mutant: the table of addresses is not counted. *)
StartWithoutTable(position) == position % AddrMod

(* The address of a row that begins at position, in 16 bits; rle writes    *)
(* 0xFFFF when it does not fit.                                            *)
Start(position) ==
  IF pic.kind = "rle" /\ position + 2 * H >= AddrMod THEN AddrMod - 1
  ELSE (position + 2 * H) % AddrMod

Cell(i) == y * W + i

(* The length of the run of pixels of S from column from on. *)
Run(S, from, lim) ==
  Min({n \in 0..lim : n = lim \/ from + n = W \/ Cell(from + n) \notin S})

Clears  == {k \in DOMAIN pic.px : pic.px[k] = Clear}
Opaques == DOMAIN pic.px \ Clears
Same(k) == {n \in DOMAIN pic.px : pic.px[n] = pic.px[k]}

(* Mutant: addresses are not limited to 16 bits. *)
EmitUnchecked(bytes, next) ==
  /\ image' = image \o bytes
  /\ phase' = next

(* Bytes appended to the buffer.  A write behind the buffer, and a count   *)
(* or a uint16_t position that wraps and makes the writer overwrite what   *)
(* it wrote, are states of their own that end the run.                     *)
Emit(bytes, next) ==
  LET end == Len(image) + Len(bytes)
  IN IF end > BufSize THEN phase' = "overrun" /\ UNCHANGED image
     ELSE IF pic.kind # "rle" /\ end >= AddrMod THEN phase' = "wrapped" /\ UNCHANGED image
     ELSE image' = image \o bytes /\ phase' = next

Writing(kind) == phase = "writing" /\ pic.kind = kind /\ y < H /\ x < W

(* A count, the coloured pixels, and the count of the transparent pixels   *)
(* behind them.                                                            *)
RleRunBytes(n, m) == <<n>> \o [i \in 1..n |-> pic.px[Cell(x + i - 1)]] \o <<m>>

WriteRleRun ==
  LET n == Run(Opaques, x, MaxColour)
      m == Run(Clears, x + n, MaxClear)
  IN /\ Writing("rle")
     /\ Emit(RleRunBytes(n, m), "writing")
     /\ x' = x + n + m
     /\ UNCHANGED <<pic, y, starts, cut, pos, dec, ff, code>>

(* The runs of a shadow have no limit but the row: their counts are bytes. *)
WriteShadowRun ==
  LET n == Run(Opaques, x, W)
      m == Run(Clears, x + n, W)
  IN /\ Writing("shadow")
     /\ Emit(<<n % Byte, m % Byte>>, IF n >= Byte \/ m >= Byte THEN "wrapped" ELSE "writing")
     /\ x' = x + n + m
     /\ UNCHANGED <<pic, y, starts, cut, pos, dec, ff, code>>

(* Mutant: a player colour is written like any other. *)
PlayerRunAsColour(n, c) ==
  IF c = Clear THEN <<n>> ELSE <<n + 3 * (Byte \div 4), c % Byte>>

(* The code of a run of n pixels c of a player bitmap. *)
PlayerRunBytes(n, c) ==
  IF c >= Byte THEN <<n + Byte \div 2, c - Byte>>
  ELSE IF c = Clear THEN <<n>>
  ELSE <<n + 3 * (Byte \div 4), c>>

WritePlayerRun ==
  LET n == Run(Same(Cell(x)), x, MaxRun)
  IN /\ Writing("player")
     /\ Emit(PlayerRunBytes(n, pic.px[Cell(x)]), "writing")
     /\ x' = x + n
     /\ UNCHANGED <<pic, y, starts, cut, pos, dec, ff, code>>

EndMark == IF pic.kind = "player" THEN <<>> ELSE <<Mark>>

EndRow ==
  /\ phase = "writing" /\ y < H /\ x = W
  /\ Emit(EndMark, "writing")
  /\ y' = y + 1 /\ x' = 0
  /\ starts' = (IF y' < H THEN Append(starts, Start(Len(image'))) ELSE starts)
  /\ UNCHANGED <<pic, cut, pos, dec, ff, code>>

EndImage ==
  /\ phase = "writing" /\ y = H
  /\ Emit(EndMark, "written")
  /\ UNCHANGED <<pic, x, y, starts, cut, pos, dec, ff, code>>

-------------------------------------------------------------------------------
(* load *)

(* The data of a file that lacks its last bytes: what was not read is 0.   *)
Data == [i \in 1..Len(image) |-> IF i > Len(image) - cut THEN 0 ELSE image[i]]

Ends(c) ==
  /\ phase' = "done" /\ code' = c
  /\ UNCHANGED <<pic, x, y, image, starts, cut, pos, dec, ff>>

(* Everything is read, then a bitmap of transparent pixels is created.     *)
(* Only the player loader ends here when something is missing.             *)
Load(c) ==
  /\ phase = "written"
  /\ cut' = c /\ x' = 0 /\ y' = 0
  /\ pos' = (IF pic.kind = "player" THEN -1 ELSE 0)
  /\ dec' = [k \in DOMAIN pic.px |-> Clear]
  /\ IF pic.kind = "player" /\ c > 0 THEN phase' = "done" /\ code' = "UNEXPECTED_EOF"
     ELSE IF image = <<>> THEN phase' = "done" /\ code' = "NONE"
     ELSE phase' = "reading" /\ UNCHANGED code
  /\ UNCHANGED <<pic, image, starts, ff>>

Reading(kind) == phase = "reading" /\ pic.kind = kind

(* n pixels of the row from x on are set. *)
Set(n, val) ==
  dec' = [k \in DOMAIN dec |-> IF k \in Cell(x)..(Cell(x) + n - 1) THEN val[k - Cell(x)] ELSE dec[k]]

ReadRleRun ==
  LET n == Data[pos + 1]
  IN /\ Reading("rle") /\ y < H /\ x < W
     /\ IF pos + 1 + n + 1 >= Len(image) THEN Ends("WRONG_FORMAT")
        ELSE /\ Set(n, [i \in 0..(n - 1) |-> Data[pos + 2 + i]])
             /\ x' = x + n + Data[pos + n + 2]
             /\ pos' = pos + n + 2
             /\ UNCHANGED <<pic, phase, y, image, starts, cut, ff, code>>

(* The loop of a row also ends near the end of the data.                   *)
MoreShadow == x < W /\ pos + 2 < Len(image)

ReadShadowRun ==
  LET n == Data[pos + 1]
  IN /\ Reading("shadow") /\ y < H /\ MoreShadow
     /\ Set(n, [i \in 0..(n - 1) |-> Gray])
     /\ x' = x + n + Data[pos + 2]
     /\ pos' = pos + 2
     /\ UNCHANGED <<pic, phase, y, image, starts, cut, ff, code>>

(* The end mark of a row, which only assert looks at. *)
SkipRowMark ==
  /\ (Reading("rle") /\ x >= W) \/ (Reading("shadow") /\ ~MoreShadow)
  /\ y < H
  /\ IF pos >= Len(image) THEN Ends("WRONG_FORMAT")
     ELSE /\ ff' = (ff /\ Data[pos + 1] = Mark)
          /\ pos' = pos + 1 /\ y' = y + 1 /\ x' = 0
          /\ UNCHANGED <<pic, phase, image, starts, cut, dec, code>>

(* Mutant: the rle loader does not look at the stream either. *)
LastCodeBlind == "NONE"

(* Only the rle loader looks at the stream again at the end. *)
LastCode == IF pic.kind = "rle" /\ cut > 0 THEN "UNEXPECTED_EOF" ELSE "NONE"

SkipImageMark ==
  /\ Reading("rle") \/ Reading("shadow")
  /\ y = H
  /\ IF pos + 1 # Len(image) THEN Ends("WRONG_FORMAT")
     ELSE /\ ff' = (ff /\ Data[pos + 1] = Mark)
          /\ pos' = pos + 1
          /\ phase' = "done" /\ code' = LastCode
          /\ UNCHANGED <<pic, x, y, image, starts, cut, dec>>

(* The player loader finds each row by its address.  A negative position   *)
(* is a huge unsigned one.                                                 *)
SeekPlayerRow ==
  LET p == starts[y + 1] - 2 * H
  IN /\ Reading("player") /\ y < H /\ pos = -1
     /\ IF p < 0 \/ p > Len(image) THEN Ends("UNEXPECTED_EOF")
        ELSE pos' = p /\ UNCHANGED <<pic, phase, x, y, image, starts, cut, dec, ff, code>>

(* The upper bits of a code tell transparent pixels, single pixels (never  *)
(* written here), a player colour and a colour.                            *)
ReadPlayerRun ==
  LET class == Data[pos + 1] \div (Byte \div 4)
      n     == Data[pos + 1] % (Byte \div 4)
      pixel(i) == CASE class = 0 -> Clear
                    [] class = 1 -> Data[pos + 2 + i]
                    [] class = 2 -> Player(Data[pos + 2])
                    [] OTHER     -> Data[pos + 2]
  IN /\ Reading("player") /\ y < H /\ pos >= 0 /\ x < W
     /\ Set(n, [i \in 0..(n - 1) |-> pixel(i)])
     /\ x' = x + n
     /\ pos' = pos + (CASE class = 0 -> 1 [] class = 1 -> n + 1 [] OTHER -> 2)
     /\ UNCHANGED <<pic, phase, y, image, starts, cut, ff, code>>

NextPlayerRow ==
  /\ Reading("player") /\ y < H /\ pos >= 0 /\ x >= W
  /\ y' = y + 1 /\ x' = 0 /\ pos' = -1
  /\ UNCHANGED <<pic, phase, image, starts, cut, dec, ff, code>>

EndPlayer == Reading("player") /\ y = H /\ Ends("NONE")

-------------------------------------------------------------------------------
Init ==
  /\ pic \in Pics
  /\ phase = "writing" /\ x = 0 /\ y = 0
  /\ image = <<>>
  /\ starts = (IF H = 0 THEN <<>> ELSE <<Start(0)>>)
  /\ cut = 0 /\ pos = 0 /\ dec = <<>> /\ ff = TRUE /\ code = "none"

Next ==
  \/ WriteRleRun
  \/ WriteShadowRun
  \/ WritePlayerRun
  \/ EndRow
  \/ EndImage
  \/ \E c \in 0..Len(image) : Load(c)
  \/ ReadRleRun
  \/ ReadShadowRun
  \/ SkipRowMark
  \/ SkipImageMark
  \/ SeekPlayerRow
  \/ ReadPlayerRun
  \/ NextPlayerRow
  \/ EndPlayer

Spec == Init /\ [][Next]_vars

-------------------------------------------------------------------------------
(* Properties *)

(* The writers and loaders keep inside the picture and the data.           *)
TypeOK ==
  /\ IsPic(pic)
  /\ phase \in {"writing", "written", "overrun", "wrapped", "reading", "done"}
  /\ x \in 0..W /\ y \in 0..H
  /\ image \in Seq(0..(Byte - 1)) /\ Len(image) =< BufSize
  /\ starts \in Seq(0..(AddrMod - 1)) /\ Len(starts) =< H
  /\ cut \in 0..Len(image) /\ pos \in -1..Len(image)
  /\ phase \in {"reading", "done"} => dec \in [DOMAIN pic.px -> Pixels(pic.kind)]
  /\ code \in {"none", "NONE", "WRONG_FORMAT", "UNEXPECTED_EOF"}

(* The image buffers are big enough, with one exception: the two bytes per *)
(* pixel of rle are not enough for rows of one or two pixels.              *)
InBuffer == phase = "overrun" => pic.kind = "rle" /\ W < 3

(* "Maximum size: 1-2 bytes per pixel + 1 byte FF per row + 1 byte FF end" *)
RleMaximumSize == phase # "overrun"

Loaded == IF pic.kind = "shadow" THEN [k \in DOMAIN pic.px |-> IF k \in Clears THEN Clear ELSE Gray]
          ELSE pic.px

Addressable == pic.kind = "player" => Len(image) + 2 * H < AddrMod

(* What was written is loaded as it was: the same pixels and player        *)
(* colours (gray for shadows), with every end mark where it is expected.   *)
RoundTrip ==
  phase = "done" /\ cut = 0 /\ Addressable => code = "NONE" /\ dec = Loaded /\ ff

(* A file that is cut short is not loaded: only the loader of shadows may  *)
(* succeed, with a part of the pixels.                                     *)
CutIsNoticed ==
  phase = "done" /\ cut > 0 /\ code = "NONE"
  => pic.kind = "shadow" /\ \A k \in DOMAIN dec : dec[k] \in {Clear, Loaded[k]}

(* The table of a written file leads a reader that seeks to the rows       *)
(* behind the end mark of the row before, as long as the addresses fit.    *)
StartsFindRows ==
  phase = "written" /\ pic.kind # "player" /\ Len(image) + 2 * H < AddrMod =>
    /\ Len(starts) = H
    /\ \A r \in 1..H :
         LET p == starts[r] - 2 * H
         IN IF r = 1 THEN p = 0 ELSE p \in 1..(Len(image) - 1) /\ image[p] = Mark /\ starts[r] > starts[r - 1]
===============================================================================
