----------------------------- MODULE PaletteFile -----------------------------
(***************************************************************************)
(* Palettes, palette animations, and their files: ACT with one palette,    *)
(* BBM with any number, and the text file of palette animations.  A        *)
(* palette is [c, trans]; trans is Colours when no index is transparent.   *)
(* An animation is [rate, active, up, first, last].                        *)
(***************************************************************************)
EXTENDS Archive

CONSTANTS
  Colours,  \* colours of a palette (256)
  Pink      \* TRANSPARENT_COLOR

ASSUME PaletteAssumption == Colours \in Nat \ {0}

Index == 0..(Colours - 1)

Palette(c, trans) == [k |-> "palette", c |-> c, trans |-> trans]
Has(x, k)         == x # Null /\ x.k = k

HasTransparency(p) == p.trans < Colours
TransparentIdx(p)  == p.trans % Colours
ShownBy(p, i)      == p.c[i + 1]

-------------------------------------------------------------------------------
(* lookup: the transparent index only if no other has the colour           *)

Least(S) == CHOOSE i \in S : \A j \in S : i =< j

Holding(c, clr) == {i \in Index : c[i + 1] = clr}

Lookup(c, trans, clr, default) ==
  LET all == Holding(c, clr)
  IN CASE all \ {trans} # {} -> Least(all \ {trans})
       [] all = {trans}      -> trans
       [] OTHER              -> default

(* setDefaultTransparentIdx of a palette that has index 0 for transparent. *)
DefaultTrans(c) == Lookup(c, 0, Pink, 0)

LoadedPalette(c) == Palette(c, DefaultTrans(c))

-------------------------------------------------------------------------------
(* ArchivItem_PaletteAnimation: load, and apply, in which each colour      *)
(* moves in turn, also when it was moved itself                            *)

LoadedAnim(a) == IF a.rate # 0 THEN [a EXCEPT !.active = TRUE, !.up = TRUE] ELSE a

Moved(c, i, j) == [c EXCEPT ![j + 1] = c[i + 1]]

MovedUp(c, a) ==
  LET n == a.last - a.first
      d[k \in 0..n] == IF k = 0 THEN c ELSE Moved(d[k - 1], a.first + k - 1, a.first + k)
  IN d[n]

MovedDown(c, a) ==
  LET n == a.last - a.first
      d[k \in 0..n] == IF k = 0 THEN c ELSE Moved(d[k - 1], a.first + k, a.first + k - 1)
  IN d[n]

Apply(a, pal) ==
  IF ~a.active \/ a.first >= a.last THEN pal
  ELSE IF a.up THEN [pal EXCEPT !.c = [MovedUp(pal.c, a) EXCEPT ![a.first + 1] = pal.c[a.last + 1]]]
  ELSE [pal EXCEPT !.c = [MovedDown(pal.c, a) EXCEPT ![a.last + 1] = pal.c[a.first + 1]]]

IsColours(c) == c = [i \in 1..Colours |-> c[i]]
IsPalette(x) == x = Palette(x.c, x.trans) /\ IsColours(x.c)

(* Colours of an animation are numbered by a byte. *)
IsAnim(a) == a.first \in Index /\ a.last \in Index

-------------------------------------------------------------------------------
(* ACT: the colours and nothing else *)

Rgb(c) == [i \in DOMAIN c |-> [t |-> "rgb", v |-> c[i]]]

Keeps(x) == Has(x, "palette") /\ x.trans = DefaultTrans(x.c)

WriteACT ==
  IF ~Has(Get(1), "palette") THEN Writes(disk, "WRONG_ARCHIVE")
  ELSE Writes(File("act", Rgb(archive[1].c), <<>>, archive,
                   IF Len(archive) = 1 /\ Keeps(archive[1]) THEN "whole" ELSE "loose"), "NONE")

LoadACT ==
  /\ Opens /\ disk.fmt = "act"
  /\ IF disk.len # Colours THEN Fails({"WRONG_HEADER"})
     ELSE Begins(archive, Job("act", 1, 0, FALSE, <<>>))

LoadActPalette ==
  /\ io.op = "act"
  /\ Returns(<<LoadedPalette([i \in 1..Colours |-> disk.toks[i].v])>>, "NONE")

-------------------------------------------------------------------------------
(* BBM: the palettes of the archive, whatever else is in it *)

PaletteChunk(x) == <<[t |-> "CMAP", ok |-> TRUE], [t |-> "colours", c |-> x.c]>>

PaletteChunks(a) == FlattenSeq([i \in DOMAIN a |-> IF Has(a[i], "palette") THEN PaletteChunk(a[i]) ELSE <<>>])

WriteBBM ==
  Writes(File("bbm", <<[t |-> "FORM"]>> \o PaletteChunks(archive), <<>>, archive,
              IF archive # <<>> /\ \A i \in DOMAIN archive : Keeps(archive[i]) THEN "whole" ELSE "loose"),
         "NONE")

(* The palettes are added to what the archive has. *)
LoadBBM ==
  /\ Opens /\ disk.fmt = "bbm" /\ HasRoom
  /\ IF ~Is(1, "FORM") THEN Fails({"WRONG_HEADER"})
     ELSE Begins(archive, Job("bbm", 2, 0, FALSE, archive))

LoadBbmPalette ==
  /\ io.op = "bbm" /\ Is(io.pos, "CMAP")
  /\ IF ~disk.toks[io.pos].ok THEN Fails({"WRONG_FORMAT"})
     ELSE IF ~Is(io.pos + 1, "colours") THEN Fails({"UNEXPECTED_EOF"})
     ELSE Goes(Append(archive, LoadedPalette(disk.toks[io.pos + 1].c)), [io EXCEPT !.pos = @ + 2])

LoadBbmUnknown ==
  /\ io.op = "bbm" /\ Is(io.pos, "other")
  /\ Goes(archive, [io EXCEPT !.pos = @ + 1])

(* Whether the file had palettes is asked of all of the archive. *)
LoadBbmEnd ==
  /\ io.op = "bbm" /\ AtEnd(io.pos)
  /\ Returns(archive, IF archive = <<>> THEN "UNEXPECTED_EOF" ELSE "NONE")

-------------------------------------------------------------------------------
(* The text of palette animations: a line with its index for each *)

(* Mutant: the animations are counted. *)
LineCounted(i) ==
  [t |-> "line", v |-> archive[i], idx |-> Cardinality({j \in 1..(i - 1) : Has(archive[j], "anim")})]

Line(i) == [t |-> "line", v |-> archive[i], idx |-> i - 1]

AnimLines ==
  LET lines[n \in 0..Len(archive)] ==
        IF n = 0 THEN <<>>
        ELSE IF Has(archive[n], "anim") THEN Append(lines[n - 1], Line(n)) ELSE lines[n - 1]
  IN lines[Len(archive)]

WritePaletteAnim ==
  Writes(File("anims", <<[t |-> "palAnimHeader"]>> \o AnimLines, <<>>, archive, "loose"), "NONE")

(* It is a stream of its own, not memory. *)
LoadPaletteAnim ==
  /\ io = Idle /\ disk.fmt = "anims"
  /\ IF ~Is(1, "palAnimHeader") THEN Fails({"WRONG_HEADER"})
     ELSE Begins(archive, Job("anims", 2, 0, FALSE, archive))

(* An animation takes the place of what was at its index; the archive      *)
(* grows to it.                                                            *)
AnimSet(idx, x) ==
  LET grown == IF idx < Len(archive) THEN archive ELSE archive \o Nulls(idx + 1 - Len(archive))
  IN [grown EXCEPT ![idx + 1] = x]

LoadAnimLine ==
  /\ io.op = "anims" /\ Is(io.pos, "line")
  /\ Goes(AnimSet(disk.toks[io.pos].idx, disk.toks[io.pos].v), [io EXCEPT !.pos = @ + 1])

LoadAnimComment ==
  /\ io.op = "anims" /\ Is(io.pos, "comment")
  /\ Goes(archive, [io EXCEPT !.pos = @ + 1])

(* No index, no number, or not the words of an animation.  What is said of *)
(* it is whether the line was the last and had no end.                     *)
LoadAnimWrong ==
  /\ io.op = "anims" /\ Is(io.pos, "wrong")
  /\ Fails({IF disk.toks[io.pos].ended \/ ~AtEnd(io.pos + 1) THEN "WRONG_FORMAT" ELSE "UNEXPECTED_EOF"})

LoadAnimEnd ==
  /\ io.op = "anims" /\ AtEnd(io.pos)
  /\ Returns(archive, "NONE")

-------------------------------------------------------------------------------
PaletteStep ==
  \/ LoadActPalette
  \/ LoadBbmPalette \/ LoadBbmUnknown \/ LoadBbmEnd
  \/ LoadAnimLine \/ LoadAnimComment \/ LoadAnimWrong \/ LoadAnimEnd

-------------------------------------------------------------------------------
(* What is in a file *)

LineFor(f, i, p) == f.toks[p].t = "line" /\ f.toks[p].idx + 1 = i

(* Of the lines behind the first and up to n, p is the last for entry i. *)
LastLine(f, i, n, p) ==
  p \in 2..n /\ LineFor(f, i, p) /\ \A q \in (p + 1)..n : ~LineFor(f, i, q)

(* An animation is where its last line says. *)
AnimsAre(f) ==
  /\ \A p \in 2..Len(f.toks) : f.toks[p].t = "line" =>
       f.toks[p].idx \in Nat /\ f.toks[p].idx + 1 \in DOMAIN f.holds /\ Has(f.holds[f.toks[p].idx + 1], "anim")
  /\ \A i \in DOMAIN f.holds : Has(f.holds[i], "anim") =>
       \E p \in 2..Len(f.toks) : LastLine(f, i, Len(f.toks), p) /\ f.toks[p].v = f.holds[i]

-------------------------------------------------------------------------------
(* Properties *)

(* The entries of an archive that are animations. *)
AnimsIn(a) == {i \in DOMAIN a : Has(a[i], "anim")}

(* What a text of animations gives to an archive: each animation at the    *)
(* index it was written from, at every other index what was there before,  *)
(* or an empty entry, and no entry behind the last of both.                *)
AnimsAtPlace ==
  [][io.op = "anims" /\ ret'.code = "NONE" /\ disk.len = Len(disk.toks) =>
       LET file  == disk.holds
           there == DOMAIN io.base \union AnimsIn(file)
       IN /\ there \subseteq DOMAIN archive' /\ (archive' # <<>> => Len(archive') \in there)
          /\ \A i \in DOMAIN archive' :
               archive'[i] = IF i \in AnimsIn(file) THEN file[i]
                             ELSE IF i \in DOMAIN io.base THEN io.base[i] ELSE Null]_avars

(* The colours of a range move by one and none is lost, upwards or         *)
(* downwards (ArchivItem_PaletteAnimation.h:29,35).                        *)
ApplyRotates ==
  \A n \in DOMAIN archive : Has(archive[n], "anim") =>
    LET a   == archive[n]
        pal == Palette([i \in 1..Colours |-> i], 0)
    IN a.active /\ a.first < a.last =>
         \A i \in a.first..a.last :
           \E j \in a.first..a.last : ShownBy(Apply(a, pal), j) = ShownBy(pal, i)

(* A palette that was loaded has the first index with TRANSPARENT_COLOR    *)
(* for transparent, or 0 (ArchivItem_Palette.h:64).                        *)
FirstTransparent ==
  ret = [op |-> "act", code |-> "NONE"] =>
    LET pal == archive[1]
    IN pal.trans = IF Holding(pal.c, Pink) = {} THEN 0 ELSE Least(Holding(pal.c, Pink))
===============================================================================
