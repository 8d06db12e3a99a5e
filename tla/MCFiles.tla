------------------------------- MODULE MCFiles -------------------------------
(* Archives of up to two entries.  Fonts of two to four glyphs, of which    *)
(* the file has those from the second on; texts with a line feed, an at     *)
(* sign, the end of text, the mark of an archive, and a letter with a code  *)
(* of its own in the file; pictures of one or two pixels and palettes of    *)
(* four colours, with the transparent index at either end or nowhere; bobs  *)
(* of two directions, one step, two overlays and one job; INI files with    *)
(* repeated, unnamed and two-line values and with a trailing empty line.    *)
EXTENDS Files

CONSTANTS null, pink, clear, black, red, green, blue, glyph, sprite

(* Lists *)

Font(uni, glyphs) == [k |-> "font", uni |-> uni, glyphs |-> glyphs]

MCLists ==
  {Bitmap(sprite), Sound(sprite), TextOf("text"), [k |-> "bob"],
   Font(TRUE, <<null, glyph, null>>), Font(FALSE, <<null, glyph>>), Font(FALSE, <<null, null, glyph>>),
   Font(FALSE, <<null, null, glyph, glyph>>)}

Entry(at, k) == [t |-> "entry", at |-> at, k |-> k]
Count(n)     == [t |-> "count", v |-> n]

DatToks == <<Type("bitmap"), [t |-> "bitmap", v |-> sprite], Type("font")>> \o FontTokens(Font(TRUE, <<null, glyph>>))
DatHolds == <<Bitmap(sprite), Font(TRUE, <<null, glyph>>)>>

MCDats ==
  {File("dat", DatToks, <<Count(2), Entry(1, "bitmap"), Entry(3, "font")>>, DatHolds, "whole"),
   File("dat", DatToks, <<Count(1), Entry(3, "bitmap")>>, <<null>>, "loose"),
   File("dat", DatToks, <<Count(1), Entry(99, "font")>>, <<null>>, "bad"),
   File("dat", DatToks, <<[t |-> "short"]>>, <<>>, "loose"),
   File("dat", <<[t |-> "wave"]>>, <<>>, <<Sound("file")>>, "loose"),
   File("lst", <<[t |-> "lst"], Count(1), [t |-> "used", v |-> 1], Type("unset")>>, <<>>, <<>>, "bad")}

(* Texts *)

MCTexts == {Text(<<>>), Text(<<65>>), Text(<<65, LF>>), Text(<<228, AT>>), Text(<<AT, AT>>),
            Text(<<231, 253>>), Text(<<65, EofMark>>)}

TableFile(fmt, size, offs, data, holds, seal) ==
  File(fmt, Mark \o <<Count(Len(offs)), [t |-> "unknown"], [t |-> "size", v |-> size]>>
              \o [i \in DOMAIN offs |-> [t |-> "offset", v |-> offs[i]]] \o Chars(data),
       <<>>, holds, seal)

MCTextFiles ==
  {TableFile("lst", 10, <<8, 0>>, <<65, 0>>, <<Text(<<65>>), null>>, "whole"),
   TableFile("ger", 0, <<8, 9>>, <<65, 66, 0>>, <<Text(<<65, 66>>), Text(<<66>>)>>, "whole"),
   TableFile("ger", 10, <<8, 7>>, <<65, 0>>, <<Text(<<65>>)>>, "bad"),
   TableFile("txt", 3, <<4>>, <<65, 0>>, <<>>, "bad"),
   TableFile("txt", 7, <<4>>, <<65, 0>>, <<>>, "bad"),
   File("ger", Chars(<<65, SUB, 66>>), <<>>, <<Text(<<65>>)>>, "loose")}

MCToOem  == [c \in 0..255 |-> CASE c = 228 -> 132 [] c \in {231, 253} -> 0 [] OTHER -> c]
MCToAnsi == [c \in 0..255 |-> IF c = 132 THEN 228 ELSE c]

(* Palettes and animations *)

PinkFirst  == Palette(<<pink, red, green, blue>>, 0)
PinkLast   == Palette(<<red, green, blue, pink>>, 3)
PinkTwice  == Palette(<<pink, red, pink, blue>>, 2)
PinkAhead  == Palette(<<red, pink, pink, blue>>, 2)
PinkOpaque == Palette(<<red, green, blue, pink>>, 1)
PinkNowhere == Palette(<<red, green, blue, black>>, 1)
NoTrans    == Palette(<<red, green, blue, pink>>, 4)

Anim(rate, active, up, first, last) ==
  [k |-> "anim", rate |-> rate, active |-> active, up |-> up, first |-> first, last |-> last]

MCPalettes == {PinkLast, PinkTwice, NoTrans, Anim(1, TRUE, TRUE, 0, 2), Anim(0, FALSE, TRUE, 1, 2)}

Cmap(c) == PaletteChunk([c |-> c])
Header1 == <<[t |-> "palAnimHeader"]>>
Line1(idx, a) == [t |-> "line", idx |-> idx, v |-> a]

MCPalFiles ==
  {File("bbm", <<[t |-> "FORM"], [t |-> "other"]>> \o Cmap(PinkLast.c), <<>>, <<PinkLast>>, "whole"),
   File("bbm", <<[t |-> "FORM"], [t |-> "CMAP", ok |-> FALSE]>>, <<>>, <<>>, "bad"),
   File("bbm", <<[t |-> "other"]>>, <<>>, <<>>, "bad"),
   File("anims", <<[t |-> "other"]>>, <<>>, <<>>, "bad"),
   File("anims", Header1 \o <<[t |-> "comment"], Line1(2, Anim(1, TRUE, FALSE, 0, 1))>>, <<>>,
        <<null, null, Anim(1, TRUE, FALSE, 0, 1)>>, "loose"),
   File("anims", Header1 \o <<[t |-> "wrong", ended |-> FALSE]>>, <<>>, <<>>, "bad"),
   File("anims", Header1 \o <<[t |-> "wrong", ended |-> TRUE]>>, <<>>, <<>>, "bad")}

(* Pictures *)

MCPictures ==
  {Image(PinkFirst, <<<<1, 0>>>>), Image(PinkLast, <<<<3, 0>>>>), Image(PinkLast, <<<<1>>, <<3>>>>),
   Image(PinkOpaque, <<<<3, 1>>>>), Image(PinkNowhere, <<<<0, 1>>>>), Image(NoTrans, <<<<0, 2>>>>), Image(PinkLast, <<<<3>>>>),
   Image(PinkTwice, <<<<0, 2>>>>), Image(PinkAhead, <<<<2, 0>>>>), Image(PinkAhead, <<<<3, 0>>>>),
   Image(null, <<<<red, clear>>>>), Image(null, <<<<pink>>, <<green>>>>), Image(null, <<<<black, red>>>>),
   Anim(1, TRUE, TRUE, 1, 2), Anim(0, FALSE, TRUE, 1, 2)}

Bmhd(mask, packed) == [Header(2, 2, packed) EXCEPT !.mask = mask, !.trans = 3]
CmapL(c) == [t |-> "CMAP", ok |-> TRUE, c |-> c]
Lbm(chunks, holds, seal) == File("lbm", <<[t |-> "FORM"]>> \o chunks, <<>>, holds, seal)
LbmPixels(px) == <<[t |-> "BODY", len |-> Len(px)]>> \o Chars(px)
Bmp(h, rest, holds, seal) == File("bmp", <<h>> \o rest, <<>>, holds, seal)

MCPicFiles ==
  {Lbm(<<Bmhd(2, TRUE), CmapL(PinkLast.c), [t |-> "other"]>> \o LbmPixels(<<1, 2, 3, -1, 0>>),
       <<Image(PinkLast, <<<<2, 3>>, <<0, 0>>>>)>>, "whole"),
   Lbm(<<Bmhd(0, TRUE), CmapL(PinkFirst.c)>> \o LbmPixels(<<-2, 1>>),
       <<Image(PinkFirst, <<<<1, 1>>, <<1, 0>>>>)>>, "whole"),
   Lbm(<<CmapL(PinkFirst.c)>> \o LbmPixels(<<0, 1>>), <<null>>, "bad"),
   Lbm(<<Bmhd(0, FALSE)>> \o LbmPixels(<<0, 1, 2, 3>>), <<null>>, "bad"),
   Lbm(<<Bmhd(0, FALSE), [CmapL(PinkFirst.c) EXCEPT !.ok = FALSE]>>, <<null>>, "bad"),
   Lbm(<<[Bmhd(0, FALSE) EXCEPT !.ok = FALSE]>>, <<null>>, "bad"),
   Lbm(<<Bmhd(0, FALSE), CmapL(PinkFirst.c)>> \o LbmPixels(<<1, 0, 0, 1>>)
         \o <<[t |-> "CRNG", a |-> Anim(1, TRUE, TRUE, 1, 2)]>>,
       <<Image(PinkFirst, <<<<1, 0>>, <<0, 1>>>>)>>, "bad"),
   File("lbm", <<[t |-> "other"]>>, <<>>, <<>>, "bad"),
   File("bmp", <<[t |-> "other"]>>, <<>>, <<>>, "bad"),
   Bmp([BmpHead(4, 2, 3) EXCEPT !.bottomup = FALSE],
       <<[t |-> "colours", c |-> <<red, pink>>]>> \o RowTokens(<<<<0, 1>>, <<1, 1>>>>),
       <<Image(Palette(<<red, pink, black, black>>, 1), <<<<0, 1>>, <<1, 1>>>>)>>, "whole"),
   Bmp(BmpHead(32, 2, 2), RowTokens(<<<<pink>>, <<clear>>>>), <<Image(null, <<<<clear>>, <<pink>>>>)>>, "whole"),
   Bmp(BmpHead(16, 1, 2), <<>>, <<>>, "bad"), Bmp(BmpHead(1, 1, 2), <<>>, <<>>, "bad"),
   Bmp([BmpHead(8, 1, 3) EXCEPT !.err = "WRONG_FORMAT"], <<>>, <<>>, "bad")}

(* Bobs *)

BobToks(links) ==
  LET Of(t, v) == [t |-> t, v |-> v]
  IN <<[t |-> "bob"], Of("colours", 0)>> \o [i \in 1..Bodies |-> Of("image", i)]
       \o [d \in 1..Dirs |-> Of("colours", d)]
       \o <<Count(2), Of("image", "ware1"), Of("image", "ware2"), Of("links", Len(links))>>
       \o [i \in DOMAIN links |-> Of("link", links[i])]

BobHolds(links, d1, d2) ==
  <<Bob([i \in 1..Bodies |-> BobImage(i, 0)]
          \o <<IF d1 = 0 THEN null ELSE BobImage("ware1", d1), IF d2 = 0 THEN null ELSE BobImage("ware2", d2)>>,
        [i \in DOMAIN links |-> links[i] + 4])>>

MCBobs ==
  {File("bob", BobToks(<<1, 0, 1, 0>>), <<>>, BobHolds(<<1, 0, 1, 0>>, 2, 1), "whole"),
   File("bob", BobToks(<<0, 0, 0, 0>>), <<>>, BobHolds(<<0, 0, 0, 0>>, 1, 0), "whole"),
   File("bob", BobToks(<<0, 0, 1, 1>>), <<>>, BobHolds(<<0, 0, 1, 1>>, 1, 1), "whole"),
   File("bob", BobToks(<<0, 2, 1, 1>>), <<>>, <<>>, "bad"),
   File("bob", <<[t |-> "other"]>>, <<>>, <<>>, "bad"),
   File("bob", <<[t |-> "bob"], [t |-> "image", v |-> 1]>>, <<>>, <<>>, "bad")}

(* INI files *)

Value(n, v) == [n |-> n, v |-> v]

MCInis ==
  {Ini("", <<>>), Ini("s", <<>>), Ini("s", <<Value("a", <<"1">>)>>), Ini("s", <<Value("a", <<"1", "2">>)>>),
   Ini("s", <<Value("a", <<"1">>), Value("", <<"1">>)>>), Ini("s", <<Value("a", <<"2">>)>>),
   Ini("t", <<Value("b", <<"1">>), Value("a", <<"2">>)>>)}

MCNewValues == {Value("a", <<"2">>), Value("a", <<"1", "2">>), Value("", <<"1">>)}

Line2(n, v) == [t |-> "entry", n |-> n, v |-> v]
Section(v)  == [t |-> "section", v |-> v]

MCIniFiles ==
  {File("ini", <<Section("s"), Line2("a", "1"), Line2("b", "1"), Line2("", "1"), Line2("a", "2"), Blank,
                 Section("t"), Line2("a", "3")>>, <<>>,
        <<Ini("s", <<Value("a", <<"2">>), Value("b", <<"1">>)>>), Ini("t", <<Value("a", <<"3">>)>>)>>, "whole"),
   File("ini", <<Section("s"), Line2("a", "1"), Blank>>, <<>>,
        <<Ini("s", <<Value("a", <<"1">>)>>), Ini("", <<>>)>>, "whole"),
   File("ini", <<Section("s"), Blank, Blank, Section("t")>>, <<>>, <<Ini("s", <<>>)>>, "bad"),
   File("ini", <<Section("s"), Section("t")>>, <<>>, <<>>, "bad")}

MCItemsOf ==
  [list |-> MCLists, text |-> MCTexts, palette |-> MCPalettes, picture |-> MCPictures, bob |-> {},
   ini |-> MCInis]

MCFilesOf ==
  [list |-> MCDats, text |-> MCTextFiles, palette |-> MCPalFiles, picture |-> MCPicFiles, bob |-> MCBobs,
   ini |-> MCIniFiles]
===============================================================================
