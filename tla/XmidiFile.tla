------------------------------ MODULE XmidiFile ------------------------------
(***************************************************************************)
(* ArchivItem_Sound_XMidi: tracks are added, edited through getTrack,      *)
(* written to a file and loaded from one, and converted tracks are kept.   *)
(*                                                                         *)
(* A file is a sequence of chunks: the head with the number of tracks, and *)
(* for a track FORM, perhaps TIMB, and EVNT.  It may be cut anywhere.  A   *)
(* load is one step for the head and one per track.  Which MIDI track a    *)
(* conversion gives is the matter of XmidiEvents; here it is known by the  *)
(* data it was made of.                                                    *)
(***************************************************************************)
EXTENDS Integers, Sequences, SequencesExt

CONSTANTS
  MaxTracks,  \* tracks an object has room for (256)
  Tracks,     \* tracks callers add: [data, timb]
  Leavings,   \* what a load that fails may leave of a track or its timbres
  Bad,        \* data the converter refuses
  FoundXmi    \* files made elsewhere

VARIABLES
  xmi,    \* [num, tracks, cache]; the tracks are numbered from 1
  xfile,  \* [head, tracks, len, holds]: the chunks, the place where the file
          \* ends, and the tracks it holds
  xio,    \* the load that runs: the track it has come to, and whether a byte
          \* of the next chunk was taken for padding
  xret,   \* what the last call returned
  hist    \* what callers did with the object so far

xvars == <<xmi, xfile, xio, xret, hist>>

Slots == 1..MaxTracks

Empty    == [data |-> <<>>, timb |-> <<>>]
XIdle    == [t |-> 0, off |-> FALSE]
XRet(op, code) == [op |-> op, code |-> code]
XNone    == XRet("none", "none")
NewXmi   == [num |-> 0, tracks |-> [t \in Slots |-> Empty], cache |-> [t \in Slots |-> <<>>]]

(* reused: a track was edited or loaded after one was converted; refused:  *)
(* a load refused the number of tracks; timbres: the last load began with  *)
(* a track that has timbres.                                               *)
NewHist == [reused |-> FALSE, refused |-> FALSE, timbres |-> FALSE]

Converted == \E t \in Slots : xmi.cache[t] # <<>>

(* Two bytes are a unit of chunks: the length is rounded up.               *)
Odd(d) == Len(d) % 2 = 1

(* Where the chunks of a track are; a track without TIMB has nothing there.*)
FormAt(t) == 3 * t - 1
TimbAt(t) == 3 * t
EvntAt(t) == 3 * t + 1

-------------------------------------------------------------------------------
(* addTrack, getTrack, getMidiTrack; a clone has all members *)

XCalls(x, r, h) == xio = XIdle /\ xmi' = x /\ xret' = r /\ hist' = h /\ UNCHANGED <<xfile, xio>>

XNew == XCalls(NewXmi, XNone, NewHist)

(* Mutant: one track more than there is room for. *)
FullLate(x) == x.num > MaxTracks

Full(x) == x.num >= MaxTracks

AddTrack(tr) ==
  IF Full(xmi) THEN XCalls(xmi, XRet("add", "threw"), hist)
  ELSE XCalls([xmi EXCEPT !.num = @ + 1, !.tracks = [@ EXCEPT ![xmi.num + 1] = tr]],
              XNone, hist)

EditTrack(t, tr) ==
  /\ t =< xmi.num /\ t \in Slots
  /\ XCalls([xmi EXCEPT !.tracks = [@ EXCEPT ![t] = tr]], XNone,
            [hist EXCEPT !.reused = @ \/ Converted])

IsTrackConverted(t) == t \in Slots /\ xmi.cache[t] # <<>>

(* Mutant: a converted track is kept under the number of tracks. *)
KeptAtEnd(x, t) == [x EXCEPT !.cache = [@ EXCEPT ![x.num] = x.tracks[t].data]]

Kept(x, t) == [x EXCEPT !.cache = [@ EXCEPT ![t] = x.tracks[t].data]]

GetMidiTrack(t) ==
  IF IsTrackConverted(t) THEN XCalls(xmi, XNone, hist)
  ELSE IF t > xmi.num THEN XCalls(xmi, XRet("midi", "threw"), hist)
  ELSE IF t \notin Slots THEN XCalls(xmi, XRet("midi", "crashed"), hist)
  ELSE IF xmi.tracks[t].data \in Bad THEN XCalls(xmi, XRet("midi", "threw"), hist)
  ELSE XCalls(Kept(xmi, t), XNone, hist)

-------------------------------------------------------------------------------
(* write *)

TrackChunks(tr) ==
  [form |-> TRUE, timbs |-> IF tr.timb = <<>> THEN <<>> ELSE <<tr.timb>>,
   evnt |-> TRUE, d |-> tr.data, padded |-> FALSE]

XmiFile(x) ==
  [head   |-> [ok |-> TRUE, num |-> x.num],
   tracks |-> [t \in 1..x.num |-> TrackChunks(x.tracks[t])],
   len    |-> EvntAt(x.num),
   holds  |-> [t \in 1..x.num |-> x.tracks[t]]]

XWrite ==
  /\ xio = XIdle
  /\ IF xmi.num > MaxTracks THEN xret' = XRet("write", "crashed") /\ UNCHANGED xfile
     ELSE xfile' = XmiFile(xmi) /\ xret' = XRet("write", "NONE")
  /\ UNCHANGED <<xmi, xio, hist>>

XCut(n) ==
  /\ xio = XIdle /\ n < xfile.len
  /\ xfile' = [xfile EXCEPT !.len = n] /\ xret' = XNone
  /\ UNCHANGED <<xmi, xio, hist>>

-------------------------------------------------------------------------------
(* load *)

XReturns(x, code, h) ==
  /\ xmi' = x /\ hist' = h /\ xio' = XIdle /\ xret' = XRet("load", code)
  /\ UNCHANGED xfile

There(place) == place =< xfile.len

(* The head, with the number of tracks. *)
HeadThere == There(1) /\ xfile.head.ok
HeadNum == xfile.head.num

XLoadHeadFails ==
  /\ xio = XIdle /\ ~HeadThere
  /\ \E c \in {"WRONG_HEADER", "WRONG_FORMAT"} : XReturns(xmi, c, hist)

(* The number of tracks is taken over when it is read, before it is looked *)
(* at and whatever follows it.                                             *)
XLoadHeadTorn ==
  /\ xio = XIdle /\ ~HeadThere
  /\ XReturns([xmi EXCEPT !.num = HeadNum], "WRONG_FORMAT",
              [hist EXCEPT !.reused = @ \/ Converted, !.refused = @ \/ HeadNum \notin Slots])

XLoadCountFails ==
  /\ xio = XIdle /\ HeadThere /\ HeadNum \notin Slots
  /\ XReturns([xmi EXCEPT !.num = HeadNum], "WRONG_FORMAT", [hist EXCEPT !.refused = TRUE])

XLoadHead ==
  /\ xio = XIdle /\ HeadThere /\ HeadNum \in Slots
  /\ xmi' = [xmi EXCEPT !.num = HeadNum]
  /\ xio' = [t |-> 1, off |-> FALSE] /\ xret' = XNone
  /\ hist' = [hist EXCEPT !.reused = @ \/ Converted,
                          !.timbres = \E t \in Slots : xmi.tracks[t].timb # <<>>]
  /\ UNCHANGED xfile

XLoading == xio # XIdle /\ xio.t =< xmi.num

(* The chunks of the track that is loaded; the timbres may be missing. *)
Chunks == xfile.tracks[xio.t]

(* Mutant: what follows is not needed. *)
NeedsNothing(c) == FALSE

(* The data needs a byte of what follows it. *)
NeedsNext(c) == Odd(c.d) /\ ~c.padded

(* What read takes: also the padding, or what is there instead. *)
DataRead(c) == IF Odd(c.d) THEN Append(c.d, 0) ELSE c.d

Formed == XLoading /\ ~xio.off /\ There(FormAt(xio.t)) /\ Chunks.form

NoTimb  == Chunks.timbs = <<>>
HasTimb == ~NoTimb /\ There(TimbAt(xio.t))
HasEvnt == Formed /\ There(EvntAt(xio.t)) /\ Chunks.evnt

(* Without TIMB the timbres stay. *)
WithTimb == IF HasTimb THEN [xmi.tracks[xio.t] EXCEPT !.timb = Chunks.timbs[1]]
            ELSE xmi.tracks[xio.t]

TrackIs(tr)  == [xmi EXCEPT !.tracks = [@ EXCEPT ![xio.t] = tr]]

XLoadNoTrack ==
  /\ XLoading /\ ~Formed
  /\ \E c \in {"WRONG_FORMAT", "UNEXPECTED_EOF"} : XReturns(xmi, c, hist)

XLoadNoEvents == Formed /\ ~HasEvnt /\ XReturns(TrackIs(WithTimb), "WRONG_FORMAT", hist)

(* A vector that a file that is cut filled in part, or that got a length   *)
(* that was not read, may hold anything.                                   *)
XLoadTornTimb ==
  /\ Formed /\ ~NoTimb /\ ~HasTimb
  /\ \E left \in Leavings :
       XReturns(TrackIs([xmi.tracks[xio.t] EXCEPT !.timb = left]), "WRONG_FORMAT", hist)

(* The data ends too early, in its chunk or at the byte behind it. *)
NextGiven == NeedsNext(Chunks) => There(EvntAt(xio.t) + 1)
TornEvnt  == Formed /\ (NoTimb \/ HasTimb) /\ Chunks.evnt /\ ~There(EvntAt(xio.t))

XLoadTornEvents ==
  /\ TornEvnt \/ (HasEvnt /\ ~NextGiven)
  /\ \E left \in Leavings :
       XReturns(TrackIs([WithTimb EXCEPT !.data = left]), "UNEXPECTED_EOF", hist)

(* Also the length of the data is lost, and there is no memory for it:     *)
(* std::bad_alloc leaves load.                                             *)
XLoadLostLength == TornEvnt /\ XReturns(TrackIs(WithTimb), "threw", hist)

XLoadTrack ==
  /\ HasEvnt /\ NextGiven
  /\ xmi' = TrackIs([WithTimb EXCEPT !.data = DataRead(Chunks)])
  /\ xio' = [t |-> xio.t + 1, off |-> NeedsNext(Chunks)]
  /\ UNCHANGED <<xfile, xret, hist>>

(* The file must end with the last track. *)
XLoadEnd ==
  /\ xio # XIdle /\ xio.t = xmi.num + 1
  /\ XReturns(xmi, IF ~xio.off /\ xfile.len = EvntAt(xmi.num) THEN "NONE" ELSE "WRONG_FORMAT", hist)

-------------------------------------------------------------------------------
XInit ==
  /\ xmi = NewXmi /\ hist = NewHist
  /\ xfile \in FoundXmi
  /\ xio = XIdle /\ xret = XNone

XLoadStep ==
  \/ XLoadNoTrack
  \/ XLoadNoEvents
  \/ XLoadTornTimb
  \/ XLoadTornEvents
  \/ XLoadLostLength
  \/ XLoadTrack
  \/ XLoadEnd

(* A crashed program makes no calls. *)
XNext ==
  /\ xret.code # "crashed"
  /\ \/ XNew
     \/ \E tr \in Tracks : AddTrack(tr)
     \/ \E t \in Slots, tr \in Tracks : EditTrack(t, tr)
     \/ \E t \in 1..(MaxTracks + 1) : GetMidiTrack(t)
     \/ XWrite
     \/ \E n \in 0..xfile.len : XCut(n)
     \/ XLoadHeadFails
     \/ XLoadHeadTorn
     \/ XLoadCountFails
     \/ XLoadHead
     \/ XLoadStep

XSpec == XInit /\ [][XNext]_xvars

-------------------------------------------------------------------------------
(* Properties *)

Values == Seq(Nat)

Parts ==
  [form : BOOLEAN, timbs : Seq(Values), evnt : BOOLEAN, d : Values, padded : BOOLEAN]

(* A file: its chunks, and no more of them.  The chunks of FORM and EVNT   *)
(* may be others, but they are there.                                      *)
IsXmiFile(f) ==
  /\ f \in [head : [ok : BOOLEAN, num : Nat],
            tracks : Seq(Parts), len : Nat, holds : Seq([data : Values, timb : Values])]
  /\ f.len =< EvntAt(Len(f.tracks))

(* What a file with all its tracks holds, whoever made it. *)
Holds(f) ==
  f.head.ok /\ f.head.num =< Len(f.tracks) =>
    /\ Len(f.holds) = f.head.num
    /\ \A t \in 1..f.head.num :
         LET c == f.tracks[t]
         IN f.holds[t] = [data |-> c.d, timb |-> IF c.timbs = <<>> THEN <<>> ELSE c.timbs[1]]

ASSUME XmidiAssumption ==
  /\ MaxTracks \in Nat /\ Leavings \subseteq Values
  /\ Tracks \subseteq [data : Values, timb : Values]
  /\ \A f \in FoundXmi : IsXmiFile(f) /\ Holds(f)

(* An object whose tracks were not edited or loaded after a conversion     *)
(* keeps exactly what its tracks convert to, under their numbers, whatever *)
(* was added, converted or written in between.                             *)
CacheShowsTrack ==
  ~hist.reused /\ ~hist.refused =>
    \A t \in Slots : xmi.cache[t] # <<>> => t =< xmi.num /\ xmi.cache[t] = xmi.tracks[t].data

(* getTrack points behind the array only after load took over a number of  *)
(* tracks that it refused.                                                 *)
CrashNeedsRefusal == xret.code = "crashed" => hist.refused

(* A load without error gives the tracks of the file, padded to whole      *)
(* units, and their timbres; a track without timbres in the file may have  *)
(* those of an earlier track.  A track of odd length that write did not    *)
(* pad is never loaded as something else: the load fails.                  *)
TracksSurvive ==
  xret = XRet("load", "NONE") =>
    /\ xmi.num = Len(xfile.holds)
    /\ \A t \in 1..xmi.num :
         /\ IsPrefix(xfile.holds[t].data, xmi.tracks[t].data)
         /\ Len(xmi.tracks[t].data) = Len(xfile.holds[t].data) + (Len(xfile.holds[t].data) % 2)
         /\ \/ xmi.tracks[t].timb = xfile.holds[t].timb
            \/ xfile.holds[t].timb = <<>> /\ hist.timbres
    /\ \A t \in 1..xmi.num : xfile.tracks[t].padded \/ ~Odd(xfile.tracks[t].d)
===============================================================================
