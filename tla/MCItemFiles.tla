----------------------------- MODULE MCItemFiles -----------------------------
(* Maps of two layers; names of up to 4 characters where 1 is short, of     *)
(* which 3 has no equivalent in the file and 2 a different code; a size a   *)
(* name can spell; files with the extra word, with unused, wrong and larger *)
(* blocks.  Sounds with room for two tracks of one or two bytes, of which   *)
(* the converter refuses the short one; files with padding, a track too     *)
(* many, empty timbres, a chunk of another kind, or a wrong number.         *)
EXTENDS ItemFiles

CONSTANT none

Hdr(name, w, h) == [name |-> name, w |-> w, h |-> h, extra |-> FALSE, rest |-> "rest"]

MCHeaders == {Hdr(<<1, 2>>, 2, 0), Hdr(<<3>>, 1, 1), Hdr(<<2, 1, 1, 2, 1>>, 2, 1)}
MCAnimals == {[id |-> 1, at |-> 7], [id |-> 255, at |-> 7]}
MCToOem   == [c \in 0..3 |-> CASE c = 1 -> 1 [] c = 2 -> 3 [] OTHER -> 0]
MCToAnsi  == [c \in 0..3 |-> CASE c = 1 -> 1 [] c = 3 -> 2 [] OTHER -> 0]

(* An editor needs no end of the short name. *)
Head1(h, extra) == [HeaderPart(h) EXCEPT !.extra = extra, !.name = Through(ToOem, h.name) \o SizeBytes(h)]
Blk(w, h, d)    == [ok |-> TRUE, w |-> w, h |-> h, mult |-> 1, len |-> Len(d), d |-> d]
Short(b)        == [b EXCEPT !.len = @ + 2]
None(w, h)      == [ok |-> TRUE, w |-> w, h |-> h, mult |-> 0, len |-> 0, d |-> <<>>]
Wrong(b)         == [b EXCEPT !.ok = FALSE]
Beast           == [id |-> 1, at |-> 7]

Made(head, h, blocks, layers, animals) ==
  [hdr |-> head, blocks |-> blocks, animals |-> animals, len |-> 6 + 2 * Len(animals),
   holds |-> [hdr |-> h, layers |-> layers, animals |-> animals]]

H22 == Hdr(<<1>>, 2, 2)
H21 == Hdr(<<2>>, 2, 1)
Good21 == Head1(H21, FALSE)

MCFound ==
  {[Made(Good21, H21, <<None(2, 1), None(2, 1)>>, <<>>, <<>>) EXCEPT !.len = 0],
   Made(Head1(H22, TRUE), H22, <<Short(Blk(2, 2, <<0, 1>>)), None(2, 2)>>, <<<<0, 1, 1, 1>>, none>>, <<Beast>>),
   Made(Head1(H21, TRUE), H21, <<Short(Blk(2, 1, <<>>)), Blk(2, 1, <<1, 0>>)>>, <<<<0, 0>>, <<1, 0>>>>, <<>>),
   Made(Good21, H21, <<Blk(2, 1, <<1, 0, 1>>), None(2, 1)>>, <<<<1, 0, 1>>>>, <<>>),
   Made(Good21, H21, <<Blk(2, 1, <<1, 0>>), Blk(1, 2, <<1, 0>>)>>, <<<<1, 0>>, <<1, 0>>>>, <<>>),
   Made(Good21, H21, <<Wrong(None(2, 1)), None(2, 1)>>, <<>>, <<>>),
   Made([Good21 EXCEPT !.ok = FALSE], H21, <<None(2, 1), None(2, 1)>>, <<>>, <<>>)}

Tr(data, timb) == [data |-> data, timb |-> timb]
MCTracks == {Tr(<<1, 2>>, <<>>), Tr(<<1>>, <<1, 0>>)}
MCBad    == {<<1>>}
MCLeavings == {<<1, 0>>}

HeadOf(n)       == [ok |-> TRUE, num |-> n]
Chunk1(d, timbs) == [form |-> TRUE, timbs |-> timbs, evnt |-> TRUE, d |-> d, padded |-> TRUE]
Sound(head, tracks, holds) ==
  [head |-> head, tracks |-> tracks, len |-> 3 * Len(tracks) + 1, holds |-> holds]

MCFoundXmi ==
  {[Sound(HeadOf(0), <<>>, <<>>) EXCEPT !.len = 0],
   Sound(HeadOf(1), <<Chunk1(<<1>>, <<>>)>>, <<Tr(<<1>>, <<>>)>>),
   Sound(HeadOf(1), <<Chunk1(<<1>>, <<>>), Chunk1(<<1>>, <<>>)>>, <<Tr(<<1>>, <<>>)>>),
   Sound(HeadOf(1), <<Chunk1(<<1>>, <<<<>>>>)>>, <<Tr(<<1>>, <<>>)>>),
   Sound(HeadOf(1), <<[Chunk1(<<1>>, <<>>) EXCEPT !.evnt = FALSE]>>,
         <<Tr(<<1>>, <<>>)>>),
   Sound(HeadOf(0), <<>>, <<>>),
   Sound(HeadOf(3), <<>>, <<>>),
   Sound([HeadOf(1) EXCEPT !.ok = FALSE], <<>>, <<>>)}
===============================================================================
