------------------------------ MODULE ListFile ------------------------------
(***************************************************************************)
(* LST archives, the pairs of a DAT and an IDX file, the dispatch of items *)
(* to their types, and fonts.  What a bitmap, a palette, an animation or a *)
(* sound is written as is read in one go; a file may be cut between.       *)
(* A bitmap has a palette of its own to be written with.                   *)
(***************************************************************************)
EXTENDS Archive

CONSTANTS
  FirstGlyph,  \* the first glyph a font file has (32); glyphs count from 0
  Slots        \* glyphs of a font without Unicode (256)

ASSUME FontAssumption == Slots \in Nat /\ FirstGlyph \in 0..Slots

BodyErrors == {"UNEXPECTED_EOF", "WRONG_HEADER", "WRONG_FORMAT", "UNSUPPORTED_FORMAT", "CUSTOM"}

Type(k) == [t |-> "type", k |-> k]

Bitmap(v)  == [k |-> "bitmap", v |-> v]
Sound(v)   == [k |-> "sound", v |-> v]
TextOf(v)  == [k |-> "text", v |-> v]

(* What is behind the type of an item, but for fonts. *)
Simple == {"bitmap", "palette", "anim", "sound"}

-------------------------------------------------------------------------------
(* ArchivItem_Font::write *)

Glyph(x, i) == IF i \in DOMAIN x.glyphs THEN x.glyphs[i] ELSE Null

(* Mutant: glyphs that have no place in the file are not counted. *)
WrittenTo(x) == IF x.uni THEN Len(x.glyphs) - FirstGlyph ELSE Slots

(* A font without Unicode has all its slots in the file. *)
NumChars(x) == IF x.uni THEN Len(x.glyphs) ELSE Slots

GlyphTokens(x, i) ==
  IF Glyph(x, i) = Null THEN <<Type("none")>>
  ELSE <<Type("bitmap"), [t |-> "bitmap", v |-> Glyph(x, i)]>>

FontTokens(x) ==
  <<[t |-> "spacing", uni |-> x.uni]>>
    \o (IF x.uni THEN <<[t |-> "count", v |-> NumChars(x)]>> ELSE <<>>)
    \o FlattenSeq([n \in 1..(NumChars(x) - FirstGlyph) |-> GlyphTokens(x, n + FirstGlyph)])

(* A font, and an item that is written as it is. *)
IsListItem(x) ==
  /\ x.k \in Simple => x = [k |-> x.k, v |-> x.v]
  /\ x.k = "font" =>
       /\ x = [k |-> "font", uni |-> x.uni, glyphs |-> x.glyphs] /\ x.uni \in BOOLEAN
       /\ Len(x.glyphs) \in Nat /\ x.glyphs = [i \in 1..Len(x.glyphs) |-> x.glyphs[i]]

(* Glyphs before the first one are not written, and a short font comes     *)
(* back longer.                                                            *)
FontStorable(x) ==
  /\ \A i \in DOMAIN x.glyphs : i =< FirstGlyph => x.glyphs[i] = Null
  /\ x.uni \/ Len(x.glyphs) = Slots

-------------------------------------------------------------------------------
(* WriteType, WriteLST *)

WriteError(x, pal) ==
  CASE x.k = "font" /\ ~pal -> "PALETTE_MISSING"
    [] x.k = "font" /\ pal /\ ~x.uni /\ Len(x.glyphs) > Slots -> "CUSTOM"
    [] x.k = "bob" -> "UNSUPPORTED_FORMAT"
    [] OTHER -> "NONE"

(* Of a text, nothing is written. *)
BodyTokens(x) ==
  CASE x.k = "font"   -> FontTokens(x)
    [] x.k = "sound"  -> <<[t |-> "length"], [t |-> "sound", v |-> x.v]>>
    [] x.k \in Simple \ {"sound"} -> <<[t |-> x.k, v |-> x.v]>>
    [] OTHER          -> <<>>

EntryTokens(x, pal) ==
  IF x = Null THEN <<[t |-> "used", v |-> 0]>>
  ELSE <<[t |-> "used", v |-> 1], Type(x.k)>>
         \o (IF WriteError(x, pal) = "NONE" THEN BodyTokens(x) ELSE <<>>)

ListTokens(a, n, pal) ==
  <<[t |-> "lst"], [t |-> "count", v |-> Len(a)]>>
    \o FlattenSeq([i \in 1..n |-> EntryTokens(a[i], pal)])

ListStorable(x) == x = Null \/ x.k \in Simple \/ (x.k = "font" /\ FontStorable(x))

(* The first item that cannot be written ends the file. *)
WriteLST(pal) ==
  LET bad  == SelectInSeq(archive, LAMBDA x : x # Null /\ WriteError(x, pal) # "NONE")
      last == IF bad = 0 THEN Len(archive) ELSE bad
      seal == IF \A i \in 1..last : i = bad \/ ListStorable(archive[i]) THEN "whole" ELSE "loose"
      toks == ListTokens(archive, last, pal)
  IN IF bad = 0 THEN Writes(File("lst", toks, <<>>, archive, seal), "NONE")
     ELSE Writes(File("lst", toks, <<>>, archive, Broken(seal)), WriteError(archive[bad], pal))

-------------------------------------------------------------------------------
(* LoadType *)

LoadingList == io.op \in {"lst", "dat", "idx"} /\ io.part = Null

NeedsPalette == {"bitmap", "font", "bob"}

(* Where the body of an item is that a type is in front of. *)
Body(k, pos) == IF k = "sound" THEN pos + 2 ELSE pos + 1

TypeErrors(k, pos, pal) ==
  IF AtEnd(pos) THEN {"FILE_NOT_ACCESSIBLE"}
  ELSE IF k \in NeedsPalette /\ ~pal THEN {"PALETTE_MISSING"}
  ELSE IF k = "sound" /\ AtEnd(pos + 1) THEN {"FILE_NOT_ACCESSIBLE"}
  ELSE IF k \in Simple /\ ~Is(Body(k, pos), k) THEN BodyErrors
  ELSE IF k = "bob" THEN BodyErrors
  ELSE IF k \in Simple \union {"font", "text", "none"} THEN {}
  ELSE {"WRONG_FORMAT"}

KindAt(pos) == IF Is(pos, "type") THEN disk.toks[pos].k ELSE "unset"

(* A text takes all that follows. *)
ItemAt(k, pos) ==
  CASE k = "none" -> Null
    [] k = "text" -> TextOf(IF AtEnd(pos + 1) THEN "" ELSE "rest")
    [] OTHER      -> [k |-> k, v |-> disk.toks[Body(k, pos)].v]

Behind(k, pos) ==
  CASE k = "none" -> pos + 1 [] k = "text" -> disk.len + 1 [] OTHER -> Body(k, pos) + 1

-------------------------------------------------------------------------------
(* The entries of LST and of DAT and IDX *)

Place(x) == IF io.op = "lst" THEN Append(archive, x) ELSE [archive EXCEPT ![io.i + 1] = x]

EntryDone(x, pos) ==
  Goes(Place(x), [io EXCEPT !.pos = pos, !.i = @ + 1, !.part = Null])

(* For a DAT file that is none by its header, LoadSND is next: it takes    *)
(* any file for a sound.                                                   *)
EntryFails(codes) ==
  \E c \in codes :
    IF c = "WRONG_HEADER" /\ io.op = "dat" THEN Returns(<<Sound("file")>>, "NONE")
    ELSE Returns(archive, c)

LoadItem(k, pos) ==
  IF TypeErrors(k, pos, io.pal) # {} THEN EntryFails(TypeErrors(k, pos, io.pal))
  ELSE EntryDone(ItemAt(k, pos), Behind(k, pos))

(* ArchivItem_Font::load *)
FontAt(pos) ==
  LET uni == disk.toks[pos].uni
  IN [pos  |-> IF uni THEN pos + 2 ELSE pos + 1,
      font |-> [k |-> "font", uni |-> uni,
                glyphs |-> Nulls(IF uni THEN disk.toks[pos + 1].v ELSE Slots)]]

LoadFontHead(pos) ==
  IF TypeErrors("font", pos, io.pal) # {} THEN EntryFails(TypeErrors("font", pos, io.pal))
  ELSE IF ~Is(pos + 1, "spacing") \/ (disk.toks[pos + 1].uni /\ ~Is(pos + 2, "count"))
  THEN EntryFails({"UNEXPECTED_EOF"})
  ELSE Goes(archive, [io EXCEPT !.part = [font |-> FontAt(pos + 1).font, at |-> FirstGlyph],
                                !.pos = FontAt(pos + 1).pos])

LoadingFont == io.op \in {"lst", "dat", "idx"} /\ io.part # Null

LoadGlyph ==
  /\ LoadingFont /\ io.part.at < Len(io.part.font.glyphs)
  /\ LET k == KindAt(io.pos)
     IN IF AtEnd(io.pos) THEN EntryFails({"UNEXPECTED_EOF"})
        ELSE IF TypeErrors(k, io.pos, io.pal) # {} THEN EntryFails(TypeErrors(k, io.pos, io.pal))
        ELSE Goes(archive,
                  [io EXCEPT !.pos = Behind(k, io.pos),
                             !.part = [font |-> IF k = "none" THEN @.font
                                                ELSE [@.font EXCEPT !.glyphs[@.at + 1] =
                                                        disk.toks[io.pos + 1].v],
                                       at |-> @.at + 1]])

LoadFontEnd ==
  /\ LoadingFont /\ io.part.at >= Len(io.part.font.glyphs)
  /\ EntryDone(io.part.font, io.pos)

LoadKind(pos) ==
  IF KindAt(pos) = "font" THEN LoadFontHead(pos) ELSE LoadItem(KindAt(pos), pos)

-------------------------------------------------------------------------------
(* LoadLST *)

(* With the mark of texts, LoadTXT takes over: see TextFile. *)
LoadListRefused ==
  /\ Opens /\ disk.fmt = "lst" /\ ~HasMark
  /\ IF ~Is(1, "lst") THEN Fails({"WRONG_HEADER"})
     ELSE ~Is(2, "count") /\ Fails({"WRONG_FORMAT"})

LoadList(pal) ==
  /\ Opens /\ disk.fmt = "lst" /\ Is(1, "lst") /\ Is(2, "count")
  /\ Begins(<<>>, Job("lst", 3, 0, pal, <<>>))

(* Any flag but 1 is an empty entry. *)
LoadListEntry ==
  /\ LoadingList /\ io.op = "lst" /\ io.i < disk.toks[2].v
  /\ IF ~Is(io.pos, "used") THEN EntryFails({"UNEXPECTED_EOF"})
     ELSE IF disk.toks[io.pos].v # 1 THEN EntryDone(Null, io.pos + 1)
     ELSE LoadKind(io.pos + 1)

LoadListEnd ==
  /\ LoadingList /\ io.op = "lst" /\ io.i = disk.toks[2].v
  /\ Returns(archive, "NONE")

-------------------------------------------------------------------------------
(* LoadDATIDX *)

IndexIs(n, t) == n =< disk.ilen /\ disk.idx[n].t = t

(* There is only a DAT file, or its index has no number of entries.        *)
LoadDatAlone(ext) ==
  /\ Opens /\ disk.fmt = "dat"
  /\ disk.ilen > 0 \/ disk.idx = <<>>
  /\ ~IndexIs(1, "count")
  /\ IF ext = "dat" THEN Begins(archive, [Job("snd", 1, 0, FALSE, archive) EXCEPT !.base = <<>>])
     ELSE Fails({"WRONG_HEADER"})

LoadSound == io.op = "snd" /\ Returns(<<Sound("file")>>, "NONE")

LoadIndexOpenFails ==
  Opens /\ disk.fmt = "dat" /\ disk.idx # <<>> /\ disk.ilen = 0 /\ Fails({"FILE_NOT_ACCESSIBLE"})

LoadDatIdx(ext, pal) ==
  /\ Opens /\ disk.fmt = "dat" /\ IndexIs(1, "count")
  /\ Begins(Nulls(disk.idx[1].v), Job(ext, 0, 0, pal, <<>>))

LoadingDat == LoadingList /\ io.op # "lst"

LoadDatEntry ==
  /\ LoadingDat /\ io.i < disk.idx[1].v
  /\ LET n == io.i + 2
     IN IF ~IndexIs(n, "entry") THEN EntryFails({"UNEXPECTED_EOF"})
        ELSE IF AtEnd(disk.idx[n].at) THEN EntryFails({"WRONG_FORMAT"})
        ELSE IF KindAt(disk.idx[n].at) # disk.idx[n].k THEN EntryDone(Null, 0)
        ELSE LoadKind(disk.idx[n].at)

LoadDatEnd ==
  LoadingDat /\ io.i = disk.idx[1].v /\ Returns(archive, "NONE")

-------------------------------------------------------------------------------
ListStep ==
  \/ LoadListEntry \/ LoadGlyph \/ LoadFontEnd \/ LoadListEnd
  \/ LoadSound \/ LoadDatEntry \/ LoadDatEnd
===============================================================================
