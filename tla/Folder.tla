-------------------------------- MODULE Folder --------------------------------
(***************************************************************************)
(* LoadFolder(ReadFolderInfo(folder), items, palette): the files of a      *)
(* folder become the items of an archive.  The number, the type and the    *)
(* origin of an item come from the name of its file; bitmaps are converted *)
(* to the type the name asks for; a font is a folder of its own and is     *)
(* loaded by a recursive call.                                             *)
(*                                                                         *)
(* What Load makes of a file is given with the file: an error, or the      *)
(* items and the colours they need.  The global texture format is Original *)
(* here (module Bitmap has the others).  An access through a null pointer  *)
(* is the phase "crashed", an exception that leaves LoadFolder "threw".    *)
(***************************************************************************)
EXTENDS Integers, Sequences, SequencesExt, FiniteSetsExt

CONSTANTS
  Folders,   \* folders: sets of files [id, parts, ext, content], and with
             \* them the folders of the fonts in them
  Passed,    \* the palettes callers pass to LoadFolder, NoPal for none
  NoPal,     \* a null palette pointer
  MaxFontD,  \* largest uint8_t (255)
  MaxOrigin  \* largest int16_t (32767)

(* Archiv: a sequence of items, Null for a null pointer; index i of the    *)
(* code is i+1 here.  own is the palette of a bitmap; src the file an item *)
(* was made of; a palette is known by its src.                             *)
Null == [type |-> "null", src |-> "none", own |-> NoPal, glyphs |-> <<>>]

IsNull(item) == item.type = "null"

BitmapTypes == {"Bitmap", "BitmapRLE", "BitmapPlayer", "BitmapShadow"}

(* get *)
At(items, nr) == IF nr < Len(items) THEN items[nr + 1] ELSE Null

VARIABLES
  folder,   \* the folder that is loaded
  default,  \* the palette passed to every call of LoadFolder
  stack,    \* the active calls: [entries, next, items], the last one runs
  phase,    \* "call", "running", "done", "threw", "crashed"
  code      \* what the outermost call returned

vars == <<folder, default, stack, phase, code>>

-------------------------------------------------------------------------------
(* ReadFolderInfo *)

TypeOfExt(ext) ==
  CASE ext \in {"fon", "fonx"} -> "Font"
    [] ext = "bmp" -> "Bitmap"
    [] ext \in {"bbm", "act"} -> "Palette"
    [] ext \in {"txt", "ger", "eng", "links"} -> "Text"
    [] ext = "empty" -> "None"
    [] ext \in {"midi", "xmi", "wav"} -> "Sound"
    [] OTHER -> "Unset"

(* The parts of a name: [k, v] with a keyword and its number; "bad" is a   *)
(* part whose number does not parse.                                       *)
TypeParts == [rle |-> "BitmapRLE", player |-> "BitmapPlayer", shadow |-> "BitmapShadow",
              paletteanims |-> "PaletteAnim", palette |-> "Palette"]

Keywords == {"num", "hex", "word", "bad", "nx", "ny"} \cup DOMAIN TypeParts

(* A name has its parts, numbers are integers, and no two files of a       *)
(* folder have the same name; what Load makes is a sequence of items.      *)
IsFile(f) ==
  /\ f.id # "none"
  /\ f.parts \in Seq([k : Keywords, v : Int])
  /\ f.content.kind = "folder" => f.content.files \in Folders
  /\ f.content.kind = "items" => f.content.items \in Seq(Range(f.content.items))

ASSUME FolderAssumption ==
  \A F \in Folders :
    /\ IsFiniteSet(F)
    /\ \A f \in F : IsFile(f)
    /\ \A f, g \in F : f.id = g.id => f = g

LastOf(parts, K, deflt) ==
  LET hits == {n \in DOMAIN parts : parts[n].k \in K}
  IN IF hits = {} THEN deflt ELSE parts[Max(hits)]

(* A file entry; an extension that is not known stays part of the name.    *)
Entry(f) ==
  LET base  == TypeOfExt(f.ext)
      wf    == IF base = "Unset" THEN Append(f.parts, [k |-> "word", v |-> 0]) ELSE f.parts
      isNr  == wf # <<>> /\ wf[1].k \in {"num", "hex"}
      rest  == IF isNr THEN Tail(wf) ELSE wf
      words == SelectSeq(rest, LAMBDA p : p.k \notin DOMAIN TypeParts \cup {"nx", "ny"})
      typed == LastOf(rest, DOMAIN TypeParts, [k |-> "none"])
  IN [file |-> f,
      nr   |-> IF isNr THEN wf[1].v ELSE -1,
      type |-> IF typed.k = "none" THEN base ELSE TypeParts[typed.k],
      nx   |-> LastOf(rest, {"nx"}, [v |-> 0]).v,
      ny   |-> LastOf(rest, {"ny"}, [v |-> 0]).v,
      name |-> [n \in DOMAIN words |-> words[n].v]]

(* hexToInt and fromStringClassic throw. *)
BadName(f) == \E n \in DOMAIN f.parts : f.parts[n].k = "bad"

-------------------------------------------------------------------------------
(* operator< of FileEntry *)

NameLess(a, b) ==
  \E n \in DOMAIN b :
    /\ n \in DOMAIN a => a[n] < b[n]
    /\ \A m \in 1..(n - 1) : m \in DOMAIN a /\ a[m] = b[m]

(* Mutant: palettes are sorted by name like the others. *)
LessByName(l, r) ==
  IF l.nr < 0 /\ r.nr < 0 THEN NameLess(l.name, r.name)
  ELSE IF l.nr < 0 \/ r.nr < 0 THEN l.nr >= 0
  ELSE IF l.nr # r.nr THEN l.nr < r.nr
  ELSE NameLess(l.name, r.name)

(* Numbers first, palettes first, then by name. *)
Less(l, r) ==
  IF (l.nr < 0) # (r.nr < 0) THEN l.nr >= 0
  ELSE IF l.nr >= 0 /\ l.nr # r.nr THEN l.nr < r.nr
  ELSE IF (l.type = "Palette") # (r.type = "Palette") THEN l.type = "Palette"
  ELSE NameLess(l.name, r.name)

(* The directory is iterated in any order and sorted; std::sort leaves     *)
(* equal entries in any order.                                             *)
Sortings(files) ==
  {s \in SetToSeqs({Entry(f) : f \in files}) :
     \A m \in DOMAIN s : \A n \in 1..(m - 1) : ~Less(s[m], s[n])}

Frame(s) == [entries |-> s, next |-> 1, items |-> <<>>]

After(fr, items) == [entries |-> fr.entries, next |-> fr.next + 1, items |-> items]

-------------------------------------------------------------------------------
(* One entry *)

Top   == Last(stack)
E     == Top.entries[Top.next]
Items == Top.items

Running(types) ==
  phase = "running" /\ Top.next =< Len(Top.entries) /\ E.type \in types

(* The call on top goes on to the next entry with items. *)
Goes(items) ==
  /\ stack' = [stack EXCEPT ![Len(stack)] = After(Top, items)]
  /\ UNCHANGED <<folder, default, phase, code>>

(* The calls end; only the outermost archive remains, with items if it is  *)
(* the one on top.                                                         *)
Ends(items, how, c) ==
  /\ stack' = (IF Len(stack) = 1 THEN <<[Top EXCEPT !.items = items]>> ELSE <<Head(stack)>>)
  /\ phase' = how /\ code' = c
  /\ UNCHANGED <<folder, default>>

Fails(c) == Ends(Items, "done", c)

Crashes == phase' = "crashed" /\ UNCHANGED <<folder, default, stack, code>>

(* alloc_inc *)
Padded(items, n) == items \o [k \in 1..(n - Len(items)) |-> Null]

(* Mutant: the archive is not extended to the number. *)
StoredAtEnd(items, e, item) ==
  IF e.nr \in 0..(Len(items) - 1) THEN [items EXCEPT ![e.nr + 1] = item] ELSE Append(items, item)

(* A numbered item goes to its number, another one to the end. *)
Stored(items, e, item) ==
  IF e.nr >= 0 THEN [Padded(items, e.nr + 1) EXCEPT ![e.nr + 1] = item] ELSE Append(items, item)

(* Mutant: the number is not compared with the size of the archive. *)
NullAtNumberUnchecked(items, e) == e.nr >= 0 /\ IsNull(At(items, e.nr))

(* items[entry.nr] is dereferenced and is null. *)
NullAtNumber(items, e) == e.nr \in 0..(Len(items) - 1) /\ IsNull(items[e.nr + 1])

(* The palette the file is loaded with: the one with the number of the     *)
(* file, or the one before a file without a number, or the passed one.     *)
CurPal ==
  LET near == IF E.nr >= 0 THEN At(Items, E.nr) ELSE At(Items, Len(Items) - 1)
  IN IF Items # <<>> /\ near.type = "Palette" THEN near.src ELSE default

LoadedTypes == BitmapTypes \cup {"Palette", "Text", "Sound", "PaletteAnim"}

(* Load succeeds, and made these items. *)
Loads(types) == Running(types) /\ ~NullAtNumber(Items, E) /\ E.file.content.kind = "items"
Tmp == E.file.content.items

Ignore == Running({"Unset"}) /\ Goes(Items)

EmptyEntry == Running({"None"}) /\ Goes(Stored(Items, E, Null))

NullPalette ==
  /\ Running(LoadedTypes) /\ NullAtNumber(Items, E)
  /\ Crashes

(* A folder has no extension Load knows. *)
LoadFails ==
  /\ Running(LoadedTypes) /\ ~NullAtNumber(Items, E)
  /\ E.file.content.kind # "items"
  /\ Fails(IF E.file.content.kind = "error" THEN E.file.content.code ELSE "UNSUPPORTED_FORMAT")

OriginOK == E.nx \in (-MaxOrigin - 1)..MaxOrigin /\ E.ny \in (-MaxOrigin - 1)..MaxOrigin

(* What is common to bitmaps that were taken and converted ones. *)
StoreBitmap(own) ==
  IF ~OriginOK THEN Fails("CUSTOM + 1")
  ELSE Goes(Stored(Items, E, [type |-> E.type, src |-> E.file.id,
                              own |-> IF own = NoPal THEN CurPal ELSE own, glyphs |-> <<>>]))

TakeBitmap ==
  /\ Loads(BitmapTypes) /\ Len(Tmp) = 1 /\ Tmp[1].type = E.type
  /\ StoreBitmap(Tmp[1].own)

(* The bitmap is printed to a BGRA buffer, and a bitmap of the other type  *)
(* is created from it.  A player bitmap needs every colour in the palette: *)
(* the lookup throws.  The palette of the file stays behind.               *)
ConvertBitmap ==
  /\ Loads(BitmapTypes) /\ Len(Tmp) = 1 /\ Tmp[1].type \in BitmapTypes \ {E.type}
  /\ IF CurPal = NoPal /\ (E.type = "BitmapPlayer" \/ (Tmp[1].type = "BitmapPlayer" /\ Tmp[1].own = NoPal))
     THEN Fails("PALETTE_MISSING")
     ELSE IF E.type = "BitmapPlayer" /\ CurPal \notin Tmp[1].fits THEN Ends(Items, "threw", "none")
     ELSE StoreBitmap(NoPal)

(* More items than one, or one that is no bitmap; a null one is asked for  *)
(* its type.                                                               *)
NoBitmap ==
  /\ Loads(BitmapTypes)
  /\ Len(Tmp) = 1 => Tmp[1].type \notin BitmapTypes
  /\ IF Len(Tmp) = 1 /\ IsNull(Tmp[1]) THEN Crashes
     ELSE Fails("UNSUPPORTED_FORMAT")

(* Where a palette animation meets an item. *)
Clashes(items, tmp) ==
  {k \in DOMAIN tmp \cap DOMAIN items : ~IsNull(tmp[k]) /\ ~IsNull(items[k])}

FromFile(item) == IF IsNull(item) THEN Null
                  ELSE [type |-> item.type, src |-> E.file.id, own |-> NoPal, glyphs |-> <<>>]

(* The animations keep their own numbers; those before a clash stay.       *)
MergeAnims ==
  LET clash  == Clashes(Items, Tmp)
      upto   == IF clash = {} THEN Len(Tmp) ELSE Min(clash) - 1
      ours   == {k \in 1..upto : ~IsNull(Tmp[k])}
      merged == [k \in 1..Max(ours \cup {Len(Items)}) |->
                   IF k \in ours THEN FromFile(Tmp[k]) ELSE At(Items, k - 1)]
  IN /\ Loads({"PaletteAnim"})
     /\ IF clash = {} THEN Goes(merged) ELSE Ends(merged, "done", "UNSUPPORTED_FORMAT")

(* Palettes, texts and sounds; a null item is stored like any other. *)
TakeItem ==
  /\ Loads({"Palette", "Text", "Sound"})
  /\ IF Len(Tmp) # 1 THEN Fails("UNSUPPORTED_FORMAT")
     ELSE Goes(Stored(Items, E, FromFile(Tmp[1])))

-------------------------------------------------------------------------------
(* Fonts *)

FontFails ==
  /\ Running({"Font"})
  /\ E.nx \notin 0..MaxFontD \/ E.ny \notin 0..MaxFontD \/ E.file.content.kind # "folder"
  /\ Fails(IF E.nx \in 0..MaxFontD /\ E.ny \in 0..MaxFontD THEN "UNSUPPORTED_FORMAT"
           ELSE "CUSTOM + 1")

EnterFont ==
  /\ Running({"Font"}) /\ E.nx \in 0..MaxFontD /\ E.ny \in 0..MaxFontD
  /\ E.file.content.kind = "folder"
  /\ LET files == E.file.content.files
     IN IF \E f \in files : BadName(f) THEN Ends(Items, "threw", "none")
        ELSE /\ \E s \in Sortings(files) : stack' = Append(stack, Frame(s))
             /\ UNCHANGED <<folder, default, phase, code>>

(* The call for a font returns to the entry of the font. *)
LeaveFont ==
  /\ phase = "running" /\ Len(stack) > 1 /\ Top.next > Len(Top.entries)
  /\ LET below == Front(stack)
         fr    == Last(below)
         e     == fr.entries[fr.next]
         font  == [type |-> "Font", src |-> e.file.id, own |-> NoPal, glyphs |-> Items]
     IN stack' = [below EXCEPT ![Len(below)] = After(fr, Stored(fr.items, e, font))]
  /\ UNCHANGED <<folder, default, phase, code>>

-------------------------------------------------------------------------------
Init ==
  /\ folder \in Folders /\ stack = <<>>
  /\ default \in Passed
  /\ phase = "call" /\ code = "none"

(* ReadFolderInfo and the sort of the outermost call. *)
Call ==
  /\ phase = "call"
  /\ IF \E f \in folder : BadName(f) THEN phase' = "threw" /\ UNCHANGED stack
     ELSE phase' = "running" /\ \E s \in Sortings(folder) : stack' = <<Frame(s)>>
  /\ UNCHANGED <<folder, default, code>>

Finish ==
  /\ phase = "running" /\ Len(stack) = 1 /\ Top.next > Len(Top.entries)
  /\ phase' = "done" /\ code' = "NONE"
  /\ UNCHANGED <<folder, default, stack>>

Next ==
  \/ Call
  \/ Ignore
  \/ EmptyEntry
  \/ NullPalette
  \/ LoadFails
  \/ TakeBitmap
  \/ ConvertBitmap
  \/ NoBitmap
  \/ MergeAnims
  \/ TakeItem
  \/ FontFails
  \/ EnterFont
  \/ LeaveFont
  \/ Finish

Spec == Init /\ [][Next]_vars

-------------------------------------------------------------------------------
(* Properties *)

(* What an entry that was loaded puts in the archive, other than palette   *)
(* animations: an item of its own, or nothing.                             *)
MakesItem(e) ==
  \/ e.type \in BitmapTypes \cup {"Font"}
  \/ e.type \in {"Palette", "Text", "Sound"} /\ ~IsNull(e.file.content.items[1])

(* The number of an entry is that of its item. *)
Names(e) == e.type \notin {"Unset", "PaletteAnim"}

Holds(items, k, e) == items[k].src = e.file.id

(* The items of a call are where the names of its files put them. *)
FilesInPlace(fr) ==
  LET before == 1..(fr.next - 1)
      e(n)   == fr.entries[n]
      at(n)  == {k \in DOMAIN fr.items : Holds(fr.items, k, e(n))}
  IN /\ \A n \in before :
          /\ e(n).nr >= 0 /\ MakesItem(e(n))
          /\ \A m \in before : Names(e(m)) /\ e(m).nr = e(n).nr => m =< n
          => at(n) = {e(n).nr + 1}
     /\ \A n \in before :
          e(n).nr < 0 /\ MakesItem(e(n)) =>
            /\ Cardinality(at(n)) = 1
            /\ \A m \in 1..(n - 1), k \in at(n) : \A l \in at(m) : l < k
            /\ \A m \in before, k \in at(n) : Names(e(m)) => e(m).nr + 1 < k
     /\ \A k \in DOMAIN fr.items :
          \/ IsNull(fr.items[k])
          \/ \E n \in before : MakesItem(e(n)) /\ k \in at(n)
          \/ \E n \in DOMAIN fr.entries :
               LET anims == e(n).file.content.items
               IN /\ e(n).type = "PaletteAnim" /\ Holds(fr.items, k, e(n))
                  /\ k \in DOMAIN anims /\ ~IsNull(anims[k])

(* However the folder was iterated and wherever an entry failed, the       *)
(* archive holds what the names of the files before it ask for: a numbered *)
(* file, unless a later one has its number, is at its number; the others   *)
(* are once each behind all numbers and in order; and nothing else is in   *)
(* the archive but palette animations at their own numbers.                *)
ArchiveFollowsNames == \A k \in DOMAIN stack : FilesInPlace(stack[k])

(* The only null pointers LoadFolder follows: the slot of the number of a  *)
(* file was left empty by a file of the same number that has no item       *)
(* (.empty, .palette.txt) or by palette animations, or the file of a       *)
(* bitmap loads as a null item.                                            *)
CrashNeedsHole ==
  phase = "crashed" =>
    \/ E.type \in BitmapTypes /\ Len(E.file.content.items) = 1 /\ IsNull(E.file.content.items[1])
    \/ \E n \in 1..(Top.next - 1) :
         LET e == Top.entries[n]
         IN e.type = "PaletteAnim" \/ (e.nr = E.nr /\ E.nr >= 0 /\ ~MakesItem(e))

(* A file that is named as a palette or as palette animations holds        *)
(* nothing else.                                                           *)
AsNamed(e) ==
  e.type \in {"Palette", "PaletteAnim"} /\ e.file.content.kind = "items" =>
    \A k \in DOMAIN e.file.content.items : e.file.content.items[k].type \in {e.type, "null"}

(* No other file than palettes has the number of the n-th. *)
Alone(fr, n) ==
  \A m \in DOMAIN fr.entries :
    m # n /\ fr.entries[m].nr = fr.entries[n].nr => fr.entries[m].type \in {"Palette", "Unset"}

PalettesOf(fr, n) ==
  {fr.entries[m].file.id : m \in {m \in DOMAIN fr.entries :
     /\ fr.entries[m].nr = fr.entries[n].nr /\ fr.entries[m].type = "Palette"
     /\ MakesItem(fr.entries[m])}}

GetsPalette(fr, k, n) ==
  LET e == fr.entries[n]
      b == fr.items[k]
      converted == e.file.content.items[1].type # e.type
      asked == IF e.nr >= 0 THEN PalettesOf(fr, n)
               ELSE IF k > 1 /\ fr.items[k - 1].type = "Palette" THEN {fr.items[k - 1].src} ELSE {}
  IN IF ~converted /\ e.file.content.items[1].own # NoPal THEN b.own = e.file.content.items[1].own
     ELSE IF asked = {} THEN b.own = default
     ELSE b.own \in asked

(* Bitmaps get the palette their name asks for: a numbered one that of the *)
(* palette file of its number, whatever the names and the order of the     *)
(* directory, one without a number that of a palette right before it in    *)
(* the archive, every other one the palette of the caller.                 *)
PaletteOfName ==
  \A f \in DOMAIN stack :
    LET fr == stack[f] IN
    \A n \in 1..(fr.next - 1) :
      /\ \A m \in DOMAIN fr.entries : AsNamed(fr.entries[m])
      /\ fr.entries[n].type \in BitmapTypes
      /\ fr.entries[n].nr >= 0 => Alone(fr, n)
      => \A k \in DOMAIN fr.items : Holds(fr.items, k, fr.entries[n]) => GetsPalette(fr, k, n)

(* A folder as lstpacker unpacks one: one file for a number, and for a     *)
(* bitmap its palette as a text.                                           *)
Unpacked ==
  \A f \in folder :
    /\ f.ext \in {"bmp", "bbm", "txt", "wav"} /\ Entry(f).nr >= 0
    /\ \A g \in folder \ {f} :
         Entry(f).nr = Entry(g).nr =>
           <<f.ext, Entry(g).type>> = <<"bmp", "Palette">> \/ <<g.ext, Entry(f).type>> = <<"bmp", "Palette">>

(* "lstpacker <foo.lst> for unpacking and lstpacker <foo> for packing a    *)
(* folder": packing what was unpacked does not end at a null pointer.      *)
UnpackedPacks == Unpacked => phase # "crashed"
===============================================================================
