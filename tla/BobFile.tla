------------------------------- MODULE BobFile -------------------------------
(***************************************************************************)
(* BOB files: bodies of figures, and overlays for what they carry, which   *)
(* links name for each job, step of the animation, build and direction.    *)
(* They are only loaded.  An image of a figure is a model value; its       *)
(* colours are those of the block it is decoded with.                      *)
(***************************************************************************)
EXTENDS Archive

CONSTANTS
  Dirs,   \* directions (6)
  Steps   \* steps of an animation (8)

ASSUME BobAssumption == Dirs \in Nat \ {0} /\ Steps \in Nat \ {0}

Bodies == 2 * Dirs * Steps

BobImage(px, clrs)  == [px |-> px, clrs |-> clrs]
Bob(images, links)  == [k |-> "bob", images |-> images, links |-> links]

NoBob == [clrs |-> <<>>, images |-> <<>>, heads |-> <<>>, links |-> <<>>, due |-> 0]

-------------------------------------------------------------------------------
(* LoadBOB, ArchivItem_Bob::load *)

LoadBobRefused == io = Idle /\ disk.fmt = "bob" /\ Fails({"PALETTE_MISSING"})

LoadBOB ==
  /\ Opens /\ disk.fmt = "bob"
  /\ IF ~Is(1, "bob") THEN Fails({"WRONG_HEADER"})
     ELSE Begins(archive, [Job("bob", 2, 0, TRUE, <<>>) EXCEPT !.part = NoBob])

LoadingBob == io.op = "bob"

Takes(part) == Goes(archive, [io EXCEPT !.part = part, !.pos = @ + 1])

(* What is there must be of type t. *)
Needs(t, then) ==
  IF AtEnd(io.pos) THEN Fails({"UNEXPECTED_EOF"})
  ELSE IF ~Is(io.pos, t) THEN Fails({"WRONG_FORMAT"})
  ELSE then

Here == disk.toks[io.pos].v

(* The colours of the bodies. *)
LoadBobColours ==
  /\ LoadingBob /\ io.part.clrs = <<>>
  /\ Needs("colours", Takes([io.part EXCEPT !.clrs = <<Here>>]))

LoadBobBody ==
  /\ LoadingBob /\ io.part.clrs # <<>> /\ Len(io.part.images) < Bodies
  /\ Needs("image", Takes([io.part EXCEPT !.images = Append(@, BobImage(Here, io.part.clrs[1]))]))

(* The colours of the overlays, for each direction. *)
LoadBobDirection ==
  /\ LoadingBob /\ Len(io.part.images) = Bodies /\ Len(io.part.clrs) < Dirs + 1
  /\ Needs("colours", Takes([io.part EXCEPT !.clrs = Append(@, Here)]))

AtOverlays == LoadingBob /\ Len(io.part.clrs) = Dirs + 1

(* A number of overlays that is not there is 0. *)
LoadBobCount ==
  /\ AtOverlays /\ io.i = 0
  /\ LET n    == IF Is(io.pos, "count") THEN Here ELSE 0
         part == [io.part EXCEPT !.due = n, !.images = @ \o Nulls(n)]
     IN Goes(archive, [io EXCEPT !.pos = @ + 1, !.i = 1, !.part = part])

LoadBobOverlay ==
  /\ AtOverlays /\ io.i = 1 /\ Len(io.part.heads) < io.part.due
  /\ Needs("image", Takes([io.part EXCEPT !.heads = Append(@, Here)]))

LoadBobLinks ==
  /\ AtOverlays /\ io.i = 1 /\ Len(io.part.heads) = io.part.due
  /\ IF AtEnd(io.pos) THEN Fails({"UNEXPECTED_EOF"})
     ELSE LET part == [io.part EXCEPT !.due = Here]
          IN Goes(archive, [io EXCEPT !.pos = @ + 1, !.i = 2, !.part = part])

(* Mutant: the direction is taken of the overlay, not of the link. *)
DirectionOfOverlay(n, overlay) == overlay % Dirs

(* The direction of the n-th link, from 0. *)
DirectionOf(n, overlay) == n % Dirs

(* An overlay has the colours of the first link that names it. *)
Decoded(images, at, x) == IF images[at] # Null THEN images ELSE [images EXCEPT ![at] = x]

LoadBobLink ==
  /\ AtOverlays /\ io.i = 2 /\ Len(io.part.links) < io.part.due
  /\ LET n    == Len(io.part.links)
         clrs == io.part.clrs[DirectionOf(n, Here) + 2]
     IN IF AtEnd(io.pos) THEN Fails({"UNEXPECTED_EOF"})
        ELSE IF Here >= Len(io.part.heads) THEN Fails({"WRONG_FORMAT"})
        ELSE Takes([io.part EXCEPT
                     !.links  = Append(@, Here),
                     !.images = Decoded(@, Bodies + Here + 1, BobImage(io.part.heads[Here + 1], clrs))])

(* From now on, links count the bodies too. *)
LoadBobEnd ==
  /\ AtOverlays /\ io.i = 2 /\ Len(io.part.links) = io.part.due
  /\ Returns(<<Bob(io.part.images, [n \in DOMAIN io.part.links |-> io.part.links[n] + Bodies])>>, "NONE")

BobStep ==
  \/ LoadBobColours \/ LoadBobBody \/ LoadBobDirection \/ LoadBobCount
  \/ LoadBobOverlay \/ LoadBobLinks \/ LoadBobLink \/ LoadBobEnd

-------------------------------------------------------------------------------
(* getBody, getOverlayIdx, getOverlay *)

BodyOf(bob, fat, dir, step) == bob.images[(fat * Dirs + dir) * Steps + step + 1]

LinkOf(job, fat, dir, step) == ((job * Steps + step) * 2 + fat) * Dirs + dir

OverlayOf(bob, link) == bob.images[bob.links[link + 1] + 1]

-------------------------------------------------------------------------------
(* What is in a file *)

(* Blocks of colours are named by their place, the one of bodies by 0; a   *)
(* number and a link are numbers, and an image is there.                   *)
BobIs(f) ==
  LET At(p, t) == p =< Len(f.toks) /\ f.toks[p].t = t
      over     == Bodies + Dirs + 3   \* the number of overlays
      n        == IF At(over, "count") THEN f.toks[over].v ELSE 0
  IN /\ n \in Nat
     /\ At(2, "colours") => f.toks[2].v = 0
     /\ \A d \in 1..Dirs : At(Bodies + d + 2, "colours") => f.toks[Bodies + d + 2].v = d
     /\ \A p \in (over + n + 1)..Len(f.toks) : f.toks[p].v \in Nat
     /\ \A p \in 2..Len(f.toks), d \in 0..Dirs : f.toks[p].t = "image" => BobImage(f.toks[p].v, d) # Null

-------------------------------------------------------------------------------
(* Properties *)

(* All that figures carry: a direction, and its link. *)
Carried(bob) ==
  LET jobs == 0..(Len(bob.links) \div Bodies - 1)
  IN {<<dir, LinkOf(job, fat, dir, step)>> :
        dir \in 0..(Dirs - 1), job \in jobs, fat \in {0, 1}, step \in 0..(Steps - 1)}

(* A bob that was loaded has a body for every build, direction and step,   *)
(* in the colours of bodies, and for every job an overlay, which is        *)
(* decoded with the colours of a direction in which it is shown: of its    *)
(* own direction, if there is only one.                                    *)
FiguresComplete ==
  ret = [op |-> "bob", code |-> "NONE"] =>
    LET bob == archive[1]
    IN /\ \A fat \in {0, 1}, dir \in 0..(Dirs - 1), step \in 0..(Steps - 1) :
            BodyOf(bob, fat, dir, step) # Null /\ BodyOf(bob, fat, dir, step).clrs = 0
       /\ \A n \in Carried(bob) :
            LET o == OverlayOf(bob, n[2])
            IN /\ o # Null
               /\ \E m \in Carried(bob) : bob.links[m[2] + 1] = bob.links[n[2] + 1] /\ o.clrs = m[1] + 1
===============================================================================
