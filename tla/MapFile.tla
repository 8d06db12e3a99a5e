------------------------------- MODULE MapFile -------------------------------
(***************************************************************************)
(* ArchivItem_Map and its header: a map is initialised, changed, copied,   *)
(* written to a file and loaded from one.  A file is the sequence of what  *)
(* load reads in one go, its parts: the header, the head and the data of   *)
(* every block, the id and the place of every animal, and the id that ends *)
(* them; it may be cut behind any part.                                    *)
(*                                                                         *)
(* A load is one step for the header, one per block and one per animal.    *)
(* A variable that an exhausted stream leaves uninitialised has any value. *)
(***************************************************************************)
EXTENDS Integers, Sequences, SequencesExt

CONSTANTS
  NumLayers,   \* blocks of a file (14)
  ShortName,   \* length of a name beside the size of the map (20)
  Byte,        \* values of a byte (256)
  EndId,       \* the id that ends the animals (0xFF)
  MaxAnimals,  \* animals that fit in memory
  MaxField,    \* bound: callers change the fields up to this one
  MaxAdded,    \* bound: animals callers add
  ToOem,       \* AnsiToOem of a character, 0 where it has no equivalent
  ToAnsi,      \* OemToAnsi of a character
  Cells,       \* values of a field
  Rest,        \* values of the other fields of a header
  Headers,     \* headers callers make: [name, w, h, extra, rest]
  Animals,     \* animals callers add: [id, at]
  Found,       \* files made elsewhere
  NoHeader,    \* a null header
  NoLayer      \* a null layer

Char   == 0..(Byte - 1)
Extent == 0..(Byte * Byte - 1)
Animal == [id : Int, at : Int]
Header == [name : Seq(Char), w : Extent, h : Extent, extra : BOOLEAN, rest : Rest]
Map    == [hdr : Header \cup {NoHeader}, layers : Seq(Seq(Cells) \cup {NoLayer}),
           animals : Seq(Animal)]

VARIABLES
  map,   \* [hdr, layers, animals]
  file,  \* [hdr, blocks, animals, len, holds]: the parts of the file, how
         \* many of them are left, and the map it holds
  io,    \* the load that runs: the block it has come to, or Idle
  ret    \* what the last call returned

vars == <<map, file, io, ret>>

Idle   == 0
NoRet  == [op |-> "none", code |-> "none"]
NewMap == [hdr |-> NoHeader, layers |-> <<>>, animals |-> <<>>]
Area(h) == h.w * h.h

(* An animal of which the stream gave nothing. *)
Junk == [id |-> -1, at |-> -1]

(* Where the head of a block and the id of an animal are; the data and the *)
(* place are the next part.                                                *)
BlockAt(k)  == 2 * k
AnimalAt(j) == 2 * NumLayers + 2 * j
EndAt(f)    == AnimalAt(Len(f.animals) + 1)

(* The id of animal j of a file, or the id behind them. *)
IdAt(f, j) == IF j \in DOMAIN f.animals THEN f.animals[j].id ELSE EndId

-------------------------------------------------------------------------------
(* The header *)

Through(tab, s) == [k \in DOMAIN s |-> tab[s[k]]]

(* s before the first of some places. *)
Before(s, places) == IF places = {} THEN s ELSE SubSeq(s, 1, Min(places) - 1)

CString(s) == Before(s, {k \in DOMAIN s : s[k] = 0})

Truncated(s, n) == SubSeq(s, 1, IF n < Len(s) THEN n ELSE Len(s))

SizeBytes(h) == <<h.w % Byte, h.w \div Byte, h.h % Byte, h.h \div Byte>>

(* The field of the name; a short name leaves room for the size. *)
NameField(h) ==
  LET oem == Through(ToOem, Truncated(h.name, ShortName + 3))
  IN [k \in 1..(ShortName + 4) |->
        IF k =< Len(oem) THEN oem[k]
        ELSE IF k > ShortName /\ Len(oem) < ShortName THEN SizeBytes(h)[k - ShortName]
        ELSE 0]

(* The size is behind a short name. *)
Sized(head) == \A k \in 1..4 : head.name[ShortName + k] = SizeBytes(head)[k]

NameRead(head) ==
  Through(ToAnsi, CString(SubSeq(head.name, 1, IF Sized(head) THEN ShortName ELSE ShortName + 4)))

HeaderPart(h) ==
  [ok |-> TRUE, name |-> NameField(h), w |-> h.w, h |-> h.h, extra |-> FALSE, rest |-> h.rest]

HeaderRead(head) ==
  [name |-> NameRead(head), w |-> head.w, h |-> head.h, extra |-> head.extra, rest |-> head.rest]

-------------------------------------------------------------------------------
(* init, getLayer, setMapDataAt, extraInfo, clone *)

Calls(m) == io = Idle /\ map' = m /\ ret' = NoRet /\ UNCHANGED <<file, io>>

New == Calls(NewMap)

(* Another header and layers; the animals stay. *)
Headed(h, layers) == [hdr |-> h, layers |-> layers, animals |-> map.animals]

InitMap(h) ==
  Calls(Headed(h, IF h = NoHeader THEN <<>>
                  ELSE [k \in 1..NumLayers |-> [n \in 1..Area(h) |-> 0]]))

SetMapDataAt(k, n, c) ==
  /\ k \in DOMAIN map.layers /\ map.layers[k] # NoLayer /\ n \in DOMAIN map.layers[k]
  /\ Calls([map EXCEPT !.layers = [@ EXCEPT ![k][n] = c]])

AddAnimal(a) ==
  /\ Len(map.animals) < MaxAdded
  /\ Calls([map EXCEPT !.animals = Append(@, a)])

(* The copy constructor leaves the animals out. *)
Clone == Calls([map EXCEPT !.animals = <<>>])

-------------------------------------------------------------------------------
(* write *)

Layer(m, k) == IF k \in DOMAIN m.layers THEN m.layers[k] ELSE NoLayer

BlockPart(h, l) ==
  IF l = NoLayer THEN [ok |-> TRUE, w |-> h.w, h |-> h.h, mult |-> 0, len |-> 0, d |-> <<>>]
  ELSE [ok |-> TRUE, w |-> h.w, h |-> h.h, mult |-> 1, len |-> Len(l), d |-> l]

FileOf(m) ==
  [hdr     |-> HeaderPart(m.hdr),
   blocks  |-> [k \in 1..NumLayers |-> BlockPart(m.hdr, Layer(m, k))],
   animals |-> m.animals,
   len     |-> AnimalAt(Len(m.animals) + 1),
   holds   |-> m]

Write ==
  /\ io = Idle
  /\ IF map.hdr = NoHeader
     THEN ret' = [op |-> "write", code |-> "WRONG_ARCHIVE"] /\ UNCHANGED file
     ELSE ret' = [op |-> "write", code |-> "NONE"] /\ file' = FileOf(map)
  /\ UNCHANGED <<map, io>>

(* The end of the file is lost. *)
Cut(n) ==
  /\ io = Idle /\ n < file.len
  /\ file' = [file EXCEPT !.len = n] /\ ret' = NoRet
  /\ UNCHANGED <<map, io>>

-------------------------------------------------------------------------------
(* load *)

Loads(m, i) == map' = m /\ io' = i /\ UNCHANGED <<file, ret>>

Returns(m, op, code) ==
  /\ map' = m /\ io' = Idle /\ ret' = [op |-> op, code |-> code]
  /\ UNCHANGED file

Given(p) == p =< file.len

HeaderGiven == Given(1) /\ file.hdr.ok

(* A header that is cut fails at the signature, at the mark behind the     *)
(* areas, which is read into an uninitialised variable, or at the end.     *)
LoadHeaderFails(only) ==
  /\ io = Idle /\ ~HeaderGiven
  /\ \E c \in {"WRONG_HEADER", "WRONG_FORMAT"} \cup (IF Given(1) THEN {} ELSE {"UNEXPECTED_EOF"}) :
       Returns(Headed(NoHeader, <<>>), IF only THEN "header" ELSE "load", c)

WithHeader == Headed(HeaderRead(file.hdr), <<>>)

LoadHeaderOnly == io = Idle /\ HeaderGiven /\ Returns(WithHeader, "header", "NONE")

LoadHeader ==
  /\ io = Idle /\ HeaderGiven
  /\ map' = WithHeader /\ io' = 1 /\ ret' = NoRet
  /\ UNCHANGED file

InBlocks == io \in 1..NumLayers
Block    == file.blocks[io]

(* Mutant: the length of a block is not compared with the size. *)
FitsByExtents(b, h) == b.w = h.w /\ b.h = h.h

(* The block has the extents of the map. *)
Fits(b, h) == b.len = Area(h) /\ b.w = h.w /\ b.h = h.h

Pushed(l) == [map EXCEPT !.layers = Append(@, l)]

HeadGiven == InBlocks /\ Given(BlockAt(io)) /\ Block.ok

LoadBadBlock ==
  /\ InBlocks /\ ~(HeadGiven /\ (Block.mult = 0 \/ Fits(Block, map.hdr)))
  /\ Returns(map, "load", "WRONG_FORMAT")

LoadUnusedBlock == HeadGiven /\ Block.mult = 0 /\ Loads(Pushed(NoLayer), io + 1)

HasData == HeadGiven /\ Block.mult # 0 /\ Fits(Block, map.hdr)

(* The first block of a map with the extra word has its last two bytes in  *)
(* the header: load reads the two behind the block instead.                *)
Shifted == io = 1 /\ map.hdr.extra

DataGiven == Given(BlockAt(io) + (IF Shifted THEN 2 ELSE 1))

LoadCutBlock == HasData /\ ~DataGiven /\ Returns(map, "load", "UNEXPECTED_EOF")

LoadBlock == HasData /\ ~Shifted /\ DataGiven /\ Loads(Pushed(Block.d), io + 1)

(* Mutant: the two bytes are replaced by the first one before them. *)
RepairedByFirst(d) == d \o <<Head(d), Head(d)>>

(* The two bytes are replaced by the last one before them. *)
Repaired(d) == d \o <<Last(d), Last(d)>>

LoadShiftedBlock ==
  /\ HasData /\ Shifted /\ DataGiven /\ Block.d # <<>>
  /\ Loads(Pushed(Repaired(Block.d)), io + 1)

(* With two fields only, there is none before them: the byte before the    *)
(* buffer is read.                                                         *)
LoadTinyShiftedBlock ==
  /\ HasData /\ Shifted /\ DataGiven /\ Block.d = <<>>
  /\ \/ \E c \in Cells : Loads(Pushed(<<c, c>>), io + 1)
     \/ Returns(map, "load", "crashed")

LoadBlocksEnd == io = NumLayers + 1 /\ Loads([map EXCEPT !.animals = <<>>], io + 1)

InAnimals == io = NumLayers + 2

(* The animal that is read next. *)
Coming == Len(map.animals) + 1

(* Mutant: animals of a failed stream are read but not kept. *)
GrownIfGood(animals, a) == IF a = Junk THEN animals ELSE Append(animals, a)

Grown(animals, a) == Append(animals, a)

(* One more animal; std::bad_alloc leaves load when there is no memory. *)
KeepAnimal(a) ==
  IF Len(map.animals) = MaxAnimals THEN Returns(map, "load", "threw")
  ELSE Loads([map EXCEPT !.animals = Grown(@, a)], io)

(* Mutant: the stream is not looked at after the animals. *)
NoEndCode(good) == "NONE"

EndCode(good) == IF good THEN "NONE" ELSE "UNEXPECTED_EOF"

LoadAnimal ==
  /\ InAnimals /\ Given(AnimalAt(Coming)) /\ IdAt(file, Coming) # EndId
  /\ KeepAnimal([id |-> IdAt(file, Coming),
                 at |-> IF Given(AnimalAt(Coming) + 1) THEN file.animals[Coming].at ELSE -1])

LoadEnd ==
  /\ InAnimals /\ Given(AnimalAt(Coming)) /\ IdAt(file, Coming) = EndId
  /\ Returns(map, "load", EndCode(TRUE))

(* Nothing is left, and the id is not set: any value, EndId or another. *)
LoadJunkAnimal == InAnimals /\ ~Given(AnimalAt(Coming)) /\ KeepAnimal(Junk)
LoadJunkEnd    == InAnimals /\ ~Given(AnimalAt(Coming)) /\ Returns(map, "load", EndCode(FALSE))

-------------------------------------------------------------------------------
Init ==
  /\ map = NewMap
  /\ file \in Found
  /\ io = Idle /\ ret = NoRet

(* The steps a load that runs must go on with; nothing makes an unset     *)
(* value EndId.                                                            *)
LoadStep ==
  \/ LoadBadBlock
  \/ LoadUnusedBlock
  \/ LoadCutBlock
  \/ LoadBlock
  \/ LoadShiftedBlock
  \/ LoadTinyShiftedBlock
  \/ LoadBlocksEnd
  \/ LoadAnimal
  \/ LoadEnd
  \/ LoadJunkAnimal

Next ==
  \/ New
  \/ \E h \in Headers \cup {NoHeader} : InitMap(h)
  \/ \E k \in 1..NumLayers, n \in 1..MaxField, c \in Cells : SetMapDataAt(k, n, c)
  \/ \E a \in Animals : AddAnimal(a)
  \/ Clone
  \/ Write
  \/ \E n \in 0..file.len : Cut(n)
  \/ \E only \in BOOLEAN : LoadHeaderFails(only)
  \/ LoadHeaderOnly
  \/ LoadHeader
  \/ LoadStep
  \/ LoadJunkEnd

Spec == Init /\ [][Next]_vars

-------------------------------------------------------------------------------
(* Properties *)

(* The character set of the file has all characters of the name, and the   *)
(* name does not end in bytes that read as the size of the map.            *)
NameKept(h) ==
  /\ Len(h.name) =< ShortName + 3
  /\ \A k \in DOMAIN h.name : ToOem[h.name[k]] # 0 /\ ToAnsi[ToOem[h.name[k]]] = h.name[k]
  /\ Len(h.name) > ShortName => ~Sized(HeaderPart(h))

(* A file: its parts.  The data of a block is what its head says, less the *)
(* extra word in the header, and the file is no longer than its parts.     *)
IsFile(f) ==
  /\ f \in [hdr : [ok : BOOLEAN, name : Seq(Char), w : Extent, h : Extent, extra : BOOLEAN, rest : Rest],
            blocks : [1..NumLayers -> [ok : BOOLEAN, w : Extent, h : Extent, mult : Nat, len : Nat,
                                       d : Seq(Cells)]],
            animals : Seq(Animal), len : Nat, holds : Map]
  /\ Len(f.hdr.name) = ShortName + 4
  /\ \A k \in 1..NumLayers :
       f.blocks[k].mult # 0 =>
         f.blocks[k].len = Len(f.blocks[k].d) + (IF k = 1 /\ f.hdr.extra THEN 2 ELSE 0)
  /\ f.len =< EndAt(f)

(* What a file says of the map it holds, whoever made it: with the extra   *)
(* word, the last two fields of the first layer are like the one before.   *)
Means(f, m) ==
  /\ m.hdr # NoHeader /\ <<f.hdr.w, f.hdr.h, f.hdr.rest>> = <<m.hdr.w, m.hdr.h, m.hdr.rest>>
  /\ NameKept(m.hdr) => NameRead(f.hdr) = m.hdr.name
  /\ \A k \in 1..NumLayers :
       LET b == f.blocks[k]
           l == Layer(m, k)
       IN IF b.mult = 0 THEN l = NoLayer
          ELSE ~(k = 1 /\ f.hdr.extra /\ b.d = <<>>) =>
                 /\ l \in Seq(Cells) /\ Len(l) = b.len
                 /\ \A n \in 1..b.len : l[n] = b.d[IF n =< Len(b.d) THEN n ELSE Len(b.d)]
  /\ m.animals = f.animals

ASSUME MapAssumption ==
  /\ NumLayers \in Nat \ {0} /\ ShortName \in Nat /\ Byte \in Nat \ {0}
  /\ EndId \in Int /\ MaxAnimals \in Nat
  /\ ToOem \in [Char -> Char] /\ ToAnsi \in [Char -> Char]
  /\ 0 \in Cells
  /\ Headers \subseteq Header /\ Animals \subseteq Animal
  /\ NoHeader \notin Header /\ NoLayer \notin Seq(Cells)
  /\ \A f \in Found : IsFile(f) /\ Means(f, f.holds)

(* Whatever is loaded, and wherever loading stops, every layer of the map  *)
(* has the size its header says, there are no more than NumLayers, and no  *)
(* layers without a header: getMapDataAt(x, y) and write rely on it.       *)
LayersFit ==
  /\ map \in Map /\ Len(map.layers) =< NumLayers
  /\ \A k \in DOMAIN map.layers :
       map.layers[k] # NoLayer => map.hdr # NoHeader /\ Len(map.layers[k]) = Area(map.hdr)
  /\ io # Idle => map.hdr # NoHeader /\ Len(map.layers) = (IF InBlocks THEN io - 1 ELSE NumLayers)

ShowsHeader(m, o) ==
  /\ m.hdr # NoHeader
  /\ <<m.hdr.w, m.hdr.h, m.hdr.rest>> = <<o.hdr.w, o.hdr.h, o.hdr.rest>>
  /\ NameKept(o.hdr) => m.hdr.name = o.hdr.name

(* Layers that were never loaded are unused ones in the file. *)
ShowsLayer(m, o, k) == m.layers[k] = Layer(o, k) \/ (k = 1 /\ m.hdr.extra /\ Area(m.hdr) < 3)

ShowsLayers(m, o) == Len(m.layers) = NumLayers /\ \A k \in 1..NumLayers : ShowsLayer(m, o, k)

(* A load without error gives the map that was written, or that the file   *)
(* of an editor means, extra word or not, into a new map or over another:  *)
(* the header, every layer, and the animals up to one with the id that     *)
(* ends them.                                                              *)
RoundTrip ==
  ret.code = "NONE" /\ ret.op \in {"header", "load"} =>
    /\ ShowsHeader(map, file.holds)
    /\ ret.op = "header" => map.layers = <<>>
    /\ ret.op = "load" =>
         /\ ShowsLayers(map, file.holds)
         /\ map.animals = Before(file.holds.animals,
                                 {j \in DOMAIN file.holds.animals : file.holds.animals[j].id = EndId})

(* A map that lost a part of its file is not loaded without an error,      *)
(* whatever the loop over the animals reads from the exhausted stream.     *)
CutIsNoticed ==
  ret = [op |-> "load", code |-> "NONE"] =>
    \/ file.len = EndAt(file)
    \/ \E j \in DOMAIN file.animals : file.animals[j].id = EndId /\ AnimalAt(j) =< file.len
===============================================================================
