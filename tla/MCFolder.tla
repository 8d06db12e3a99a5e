------------------------------- MODULE MCFolder -------------------------------
(* Folders of up to three of the files below: numbered and named bitmaps   *)
(* with and without a palette and with colours a palette may lack, palette *)
(* files (one a text palette, which loads as a null item), an .empty file, *)
(* palette animations with a gap, and two fonts.                           *)
EXTENDS Folder

CONSTANT none

P(k, v) == [k |-> k, v |-> v]
Num(v)  == P("num", v)
Word(v) == P("word", v)

File(id, parts, ext, content) == [id |-> id, parts |-> parts, ext |-> ext, content |-> content]

Made(items) == [kind |-> "items", items |-> items]
Item(type, own, fits) == [type |-> type, own |-> own, fits |-> fits]
Bmp(own, fits) == Made(<<Item("Bitmap", own, fits)>>)
Single(type)   == Made(<<Item(type, none, {})>>)
Nothing        == Item("null", none, {})
Broken(c)      == [kind |-> "error", code |-> c]
Dir(files)     == [kind |-> "folder", files |-> files]

All == {"passed", "p0", "p1", "pn", "pg", "own"}

Glyphs == {File("g1", <<P("hex", 1)>>, "bmp", Bmp(none, All)),
           File("pg", <<P("hex", 1)>>, "bbm", Single("Palette")),
           File("gx", <<Word(1)>>, "bmp", Broken("UNEXPECTED_EOF"))}

Files ==
  {File("b0", <<Num(0), P("rle", 0), P("nx", 7)>>, "bmp", Bmp("own", {"own"})),
   File("b1", <<Num(1), Word(1)>>, "bmp", Bmp(none, All)),
   File("r1", <<Num(1), P("player", 0), Word(2)>>, "bmp", Bmp(none, {"p1"})),
   File("p0", <<Num(0), Word(3)>>, "bbm", Single("Palette")),
   File("p1", <<P("hex", 1), Word(2)>>, "act", Single("Palette")),
   File("t0", <<Num(0), P("palette", 0)>>, "txt", Made(<<Nothing>>)),
   File("e1", <<Num(1)>>, "empty", Broken("UNSUPPORTED_FORMAT")),
   File("n1", <<Word(1)>>, "bmp", Bmp("own", {"own"})),
   File("n2", <<Word(2), P("shadow", 0)>>, "bmp", Bmp(none, All)),
   File("pn", <<Word(2)>>, "bbm", Single("Palette")),
   File("s2", <<Num(2), P("nx", 40000)>>, "bmp", Bmp(none, All)),
   File("u0", <<Num(0)>>, "lst", Broken("WRONG_HEADER")),
   File("m0", <<Num(0), P("paletteanims", 0)>>, "txt", Made(<<Nothing, Item("PaletteAnim", none, {}), Nothing>>)),
   File("mn", <<P("paletteanims", 0)>>, "txt",
        Made(<<Item("PaletteAnim", none, {}), Nothing, Item("PaletteAnim", none, {})>>)),
   File("pp", <<Word(3)>>, "bbm", Made(<<Item("Palette", none, {}), Item("Palette", none, {})>>)),
   File("l0", <<Word(4), P("rle", 0)>>, "lst", Made(<<Nothing>>)),
   File("f1", <<Num(1), P("nx", 3), P("ny", 4)>>, "fon", Dir(Glyphs \ {CHOOSE g \in Glyphs : g.id = "gx"})),
   File("fx", <<Word(5), P("nx", 3)>>, "fonx", Dir(Glyphs)),
   File("fy", <<Num(1), P("nx", 300)>>, "fon", Dir({})),
   File("ft", <<Num(3)>>, "fon", Dir({File("gb", <<P("bad", 0)>>, "bmp", Bmp(none, All))})),
   File("wv", <<Num(2)>>, "wav", Single("Sound")),
   File("bad", <<Word(1), P("bad", 0)>>, "txt", Single("Text"))}

MCFolders == UNION {kSubset(n, Files) : n \in 0..3} \cup {f.content.files : f \in {f \in Files : f.content.kind = "folder"}}
MCPassed  == {"passed", none}
===============================================================================
