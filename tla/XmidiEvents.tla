----------------------------- MODULE XmidiEvents -----------------------------
(***************************************************************************)
(* XMIDI_TrackConverter: an XMIDI track, whose notes carry their duration, *)
(* becomes a MIDI track, whose notes are ended by an event of their own.   *)
(* ConvertTrackToList reads the track item by item into a linked list that *)
(* is kept in order of time; the pointer curEvent to the last insertion    *)
(* saves the walk from the head.  ApplyFirstState then puts the initial    *)
(* state of the channels in front, and CreateMidiTrack writes the list.    *)
(*                                                                         *)
(* The list is a sequence of events and curEvent an index into it, 0 for   *)
(* the null pointer.  The bytes of an item are abstracted to the item: a   *)
(* delay, a status and its data.  VolumeCurve is the identity on 0..127    *)
(* (a gamma of 1) and left out; bank127 is never read and left out.        *)
(***************************************************************************)
EXTENDS Integers, Sequences, SequencesExt, FiniteSetsExt

CONSTANTS
  NumChannels,  \* channels (16), numbered from 0
  Drums,        \* the channel that keeps its patch (9)
  Keys,         \* keys of notes
  Values,       \* second data bytes
  Delays,       \* what GetVLQ2 may return
  Durations,    \* what GetVLQ may return for a note
  Bias,         \* PATCH_VOL_PAN_BIAS (5)
  MaxItems      \* bound on the items of a track

ASSUME XmidiAssumption ==
  /\ NumChannels \in Nat /\ Drums \in Nat /\ Bias \in Nat /\ MaxItems \in Nat
  /\ Delays \subseteq Nat /\ Durations \subseteq Nat

Channels == 0..(NumChannels - 1)

(* Statuses 0x8..0xE; "other" is aftertouch, pressure and pitch wheel.     *)
VoiceStatus == {"noteOn", "noteOff", "ctrl", "prog", "other"}

(* The first data byte of a controller, and of a meta event. *)
BankCtrl == 0
VolCtrl  == 7
PanCtrl  == 10
EndOfTrack == 47   \* 0x2F
SetTempo   == 81   \* 0x51
DefaultVol == 90
DefaultPan == 64

Statuses == VoiceStatus \cup {"sysex", "meta"}

None == [none |-> TRUE]

(* A MIDI_Event.  id is its rank in the order of creation (numEvents),     *)
(* 0 for the events of ApplyFirstState; dur is -1 but for a note read from *)
(* the track.                                                              *)
Event(time, id, st, ch, a, b, dur) ==
  [time |-> time, id |-> id, st |-> st, ch |-> ch, a |-> a, b |-> b, dur |-> dur]

Events == [time : Nat, id : Nat, st : Statuses, ch : Nat,
           a : Keys \cup Values \cup Nat, b : Values \cup Nat, dur : Int]

VARIABLES
  phase,  \* "reading", "threw", "applying", "converted", "written"
  items,  \* items read
  now,    \* the time of the last item
  list,   \* the linked list events
  cur,    \* curEvent
  fs,     \* first_state: per channel the first patch, vol and pan event
  mask,   \* the channels with a note (retval)
  chan,   \* the channel whose first state ApplyFirstState applies next
  out     \* what CreateMidiTrack wrote

vars == <<phase, items, now, list, cur, fs, mask, chan, out>>

Init ==
  /\ phase = "reading" /\ items = 0 /\ now = 0
  /\ list = <<>> /\ cur = 0
  /\ fs = [f \in {"patch", "vol", "pan"} |-> [ch \in Channels |-> None]]
  /\ mask = {} /\ chan = 0
  /\ out = [body |-> <<>>, end |-> 0]

-------------------------------------------------------------------------------
(* The list *)

(* Mutant: an event goes before those of the same time. *)
PlaceBefore(l, c, t) ==
  LET from == IF c = 0 \/ l[c].time > t THEN 1 ELSE c
  IN Min({k \in from..Len(l) : k = Len(l) \/ l[k + 1].time >= t})

(* Where CreateNewEvent stops: the walk starts at the cursor, or at the    *)
(* head when the cursor is later, and ends before the first later event.   *)
Place(l, c, t) ==
  LET from == IF c = 0 \/ l[c].time > t THEN 1 ELSE c
  IN Min({k \in from..Len(l) : k = Len(l) \/ l[k + 1].time > t})

(* Mutant: the cursor stays where the walk ended. *)
CreateNoAdvance(l, c, e) ==
  IF l = <<>> THEN [list |-> <<e>>, cur |-> 0]
  ELSE LET k == Place(l, c, e.time) IN [list |-> InsertAt(l, k + 1, e), cur |-> k]

(* CreateNewEvent; the branch for an event before the head does not set    *)
(* the time of the event.                                                  *)
CreateNewEvent(l, c, e) ==
  IF l = <<>> THEN [list |-> <<e>>, cur |-> 1]
  ELSE IF e.time < 0 \/ l[1].time > e.time
       THEN [list |-> <<[e EXCEPT !.time = 0]>> \o l, cur |-> 1]
  ELSE LET k == Place(l, c, e.time) IN [list |-> InsertAt(l, k + 1, e), cur |-> k + 1]

NewId(l) == Len(l) + 1

-------------------------------------------------------------------------------
(* ConvertTrackToList: one action per kind of item *)

(* The next item comes d after the last one. *)
Item(d) ==
  /\ phase = "reading" /\ items < MaxItems
  /\ items' = items + 1
  /\ now' = now + d
  /\ UNCHANGED <<chan, out>>

(* One event at the time of the item. *)
Insert(d, e) ==
  LET s == CreateNewEvent(list, cur, e)
  IN list' = s.list /\ cur' = s.cur

(* Mutant: the duration of a note is not added. *)
NoteOffNow(time, id, ch, key, dur) == Event(time, id, "noteOn", ch, key, 0, -1)

(* Mutant: the note ends a tick early. *)
NoteOffShort(time, id, ch, key, dur) == Event(time + dur - 1, id, "noteOn", ch, key, 0, -1)

(* The note off: the status of the note on with velocity 0. *)
NoteOff(time, id, ch, key, dur) == Event(time + dur, id, "noteOn", ch, key, 0, -1)

(* A note on and its note off; the cursor goes back to the note on. *)
ReadNoteOn(d, ch, key, v, dur) ==
  LET t   == now + d
      on  == CreateNewEvent(list, cur, Event(t, NewId(list), "noteOn", ch, key, v, dur))
      off == CreateNewEvent(on.list, on.cur, NoteOff(t, NewId(on.list), ch, key, dur))
  IN /\ Item(d)
     /\ list' = off.list /\ cur' = on.cur
     /\ mask' = mask \cup {ch}
     /\ UNCHANGED <<phase, fs>>

(* A duration of more than four bytes throws after the note on. *)
ReadNoteOnBad(d, ch, key, v) ==
  /\ Item(d)
  /\ Insert(d, Event(now + d, NewId(list), "noteOn", ch, key, v, 0))
  /\ mask' = mask \cup {ch}
  /\ phase' = "threw"
  /\ UNCHANGED fs

ReadVoice(d, st, ch, a, b) ==
  /\ Item(d)
  /\ Insert(d, Event(now + d, NewId(list), st, ch, a, b, -1))
  /\ UNCHANGED <<phase, fs, mask>>

(* Mutant: the last state of a channel is taken. *)
LastState(f, ch, e) == [fs EXCEPT ![f][ch] = e]

(* The first event of a channel is its initial state. *)
FirstState(f, ch, e) ==
  IF fs[f][ch] = None \/ fs[f][ch].time > e.time THEN [fs EXCEPT ![f][ch] = e] ELSE fs

(* A program change is ignored on the drum channel. *)
ReadProgChange(d, ch, p) ==
  LET e == Event(now + d, NewId(list), "prog", ch, p, 0, -1)
  IN /\ Item(d)
     /\ IF ch = Drums THEN UNCHANGED <<list, cur, fs>>
        ELSE Insert(d, e) /\ fs' = FirstState("patch", ch, e)
     /\ UNCHANGED <<phase, mask>>

ReadController(d, ch, a, b) ==
  LET e == Event(now + d, NewId(list), "ctrl", ch, a, b, -1)
  IN /\ Item(d)
     /\ Insert(d, e)
     /\ fs' = IF a = VolCtrl THEN FirstState("vol", ch, e)
              ELSE IF a = PanCtrl THEN FirstState("pan", ch, e) ELSE fs
     /\ UNCHANGED <<phase, mask>>

(* A tempo event is skipped. *)
ReadTempo(d) == Item(d) /\ UNCHANGED <<phase, list, cur, fs, mask>>

(* A system exclusive or a meta event that does not end the track. *)
ReadSystem(d, st, a) ==
  /\ Item(d)
  /\ Insert(d, Event(now + d, NewId(list), st, 0, a, 0, -1))
  /\ UNCHANGED <<phase, fs, mask>>

(* More than three bytes of delay throw before the item is read. *)
ReadDelayBad ==
  /\ phase = "reading" /\ items < MaxItems
  /\ phase' = "threw"
  /\ UNCHANGED <<items, now, list, cur, fs, mask, chan, out>>

(* The end of track event ends the loop, and so does the end of the data. *)
ReadEndOfTrack(d) ==
  LET s == CreateNewEvent(list, cur, Event(now + d, NewId(list), "meta", 0, EndOfTrack, 0, -1))
  IN /\ Item(d)
     /\ list' = s.list /\ cur' = 1
     /\ phase' = "applying"
     /\ UNCHANGED <<fs, mask>>

DataEnds ==
  /\ phase = "reading"
  /\ phase' = "applying"
  /\ cur' = (IF list = <<>> THEN 0 ELSE 1)
  /\ UNCHANGED <<items, now, list, fs, mask, chan, out>>

-------------------------------------------------------------------------------
(* ApplyFirstState *)

(* A controller is taken over from the track when its first event is at    *)
(* most Bias away from the first program change.                           *)
Near(e, patch) == e # None /\ e.time =< patch.time + Bias /\ e.time >= patch.time - Bias

Prologue(ch) ==
  LET patch == fs.patch[ch]  vol == fs.vol[ch]  pan == fs.pan[ch]
      at0(st, a, b) == Event(0, 0, st, ch, a, b, -1)
  IN <<at0("ctrl", BankCtrl, 0),
       at0("ctrl", VolCtrl, IF Near(vol, patch) THEN vol.b ELSE DefaultVol),
       at0("ctrl", PanCtrl, IF Near(pan, patch) THEN pan.b ELSE DefaultPan),
       at0("prog", patch.a, 0)>>

(* curEvent still points to the event that was the head before.            *)
Prepend(p) == list' = p \o list /\ cur' = (IF cur = 0 THEN 0 ELSE cur + Len(p))

(* One round of the loop: a channel with a program and a note gets its     *)
(* first state in front of the list.                                       *)
ApplyChannel ==
  /\ phase = "applying" /\ chan \in Channels
  /\ chan' = chan + 1
  /\ IF fs.patch[chan] # None /\ chan \in mask THEN Prepend(Prologue(chan))
     ELSE UNCHANGED <<list, cur>>
  /\ UNCHANGED <<phase, items, now, fs, mask, out>>

(* The tempo goes before everything. *)
ApplyTempo ==
  /\ phase = "applying" /\ chan \notin Channels
  /\ Prepend(<<Event(0, 0, "meta", 0, SetTempo, 0, -1)>>)
  /\ phase' = "converted"
  /\ UNCHANGED <<items, now, fs, mask, chan, out>>

-------------------------------------------------------------------------------
(* CreateMidiTrack *)

IsEnd(e) == e.st = "meta" /\ e.a = EndOfTrack

(* Mutant: delays count from the beginning. *)
DeltaFromStart(l, k) == l[k].time

(* The delay before event k, unsigned in the code. *)
Delta(l, k) == l[k].time - (IF k = 1 THEN 0 ELSE l[k - 1].time)

(* Mutant: running status is used whenever the status is that of the event *)
(* before.                                                                 *)
OmitsWhenSame(l, k) == k > 1 /\ l[k].st = l[k - 1].st /\ l[k].ch = l[k - 1].ch

(* Running status: the status byte is left out when it is that of the      *)
(* event before and no system status.                                      *)
OmitsStatus(l, k) ==
  /\ k > 1 /\ l[k].st = l[k - 1].st /\ l[k].ch = l[k - 1].ch
  /\ l[k].st \in VoiceStatus

(* Events up to the first end of track; then an end of track of its own.   *)
Written(l) ==
  LET ends == {k \in 1..Len(l) : IsEnd(l[k])}
      n    == IF ends = {} THEN Len(l) ELSE Min(ends) - 1
      last == IF n = 0 THEN 0 ELSE l[n].time
  IN [body |-> [k \in 1..n |-> [delta |-> Delta(l, k), omit |-> OmitsStatus(l, k), e |-> l[k]]],
      end  |-> IF ends # {} /\ l[Min(ends)].time > last THEN l[Min(ends)].time - last ELSE 0]

CreateMidiTrack ==
  /\ phase = "converted"
  /\ out' = Written(list)
  /\ phase' = "written"
  /\ UNCHANGED <<items, now, list, cur, fs, mask, chan>>

Next ==
  \/ \E d \in Delays :
       \/ ReadTempo(d)
       \/ ReadEndOfTrack(d)
       \/ \E st \in {"sysex", "meta"} : ReadSystem(d, st, 1)
       \/ \E ch \in Channels, key \in Keys, v \in Values :
            \/ ReadNoteOnBad(d, ch, key, v)
            \/ \E dur \in Durations : ReadNoteOn(d, ch, key, v, dur)
            \/ \E st \in {"noteOff", "other"} : ReadVoice(d, st, ch, key, v)
       \/ \E ch \in Channels, v \in Values :
            \/ ReadProgChange(d, ch, v)
            \/ \E a \in {BankCtrl, VolCtrl, PanCtrl} : ReadController(d, ch, a, v)
  \/ ReadDelayBad
  \/ DataEnds
  \/ ApplyChannel
  \/ ApplyTempo
  \/ CreateMidiTrack

Spec == Init /\ [][Next]_vars

-------------------------------------------------------------------------------
(* Properties *)

(* The cursor points into the list, at an event that is not later than the *)
(* last item while items are read.                                         *)
TypeOK ==
  /\ phase \in {"reading", "threw", "applying", "converted", "written"}
  /\ items \in Nat /\ now \in Nat /\ chan \in Nat
  /\ list \in Seq(Events)
  /\ cur \in 0..Len(list)
  /\ fs \in [{"patch", "vol", "pan"} -> [Channels -> Events \cup {None}]]
  /\ phase = "reading" => /\ cur = 0 <=> list = <<>>
                          /\ cur # 0 => list[cur].time =< now

(* By time, then as they were read; those of id 0 were prepended. *)
Before(e, f) == e.time < f.time \/ (e.time = f.time /\ (e.id = 0 \/ e.id < f.id))

Ordered(l) == \A j \in 1..Len(l) : \A i \in 1..(j - 1) : Before(l[i], l[j])

(* The list is the stable sort of its events by time: of two events of the *)
(* same time the one that was read first comes first, whatever the cursor  *)
(* was, and the initial state of the channels comes before all.            *)
InOrder == Ordered(list)

(* A reader of the delays: the time it is at behind each event. *)
Clock(body) ==
  LET at[k \in 0..Len(body)] == IF k = 0 THEN 0 ELSE at[k - 1] + body[k].delta
  IN at

(* The delays of the MIDI track are not negative, and their sum up to an   *)
(* event is the time of the event in the XMIDI track: no drift whatever    *)
(* was inserted in between.                                                *)
DeltasAddUp ==
  /\ out.end >= 0
  /\ \A k \in DOMAIN out.body :
       out.body[k].delta >= 0 /\ Clock(out.body)[k] = out.body[k].e.time

(* e ends the note of the on event n. *)
Ends(e, n) ==
  /\ e.ch = n.ch /\ e.a = n.a /\ e.time = n.time + n.dur
  /\ e.st = "noteOn" /\ e.b = 0 /\ e.dur = -1

IsNote(e) == e.st = "noteOn" /\ e.dur >= 0

HasEnd(k) == \E m \in DOMAIN out.body : m > k /\ Ends(out.body[m].e, out.body[k].e)

(* Every note that ends no later than its track is ended in the MIDI track *)
(* after it began.                                                         *)
NotesEnd ==
  phase = "written" =>
    \A k \in DOMAIN out.body :
      LET e == out.body[k].e
      IN IsNote(e) /\ (\A i \in DOMAIN list : IsEnd(list[i]) => e.time + e.dur =< list[i].time)
         => HasEnd(k)

OfKey(e, n) == e.st \in {"noteOn", "noteOff"} /\ e.ch = n.ch /\ e.a = n.a

(* No other note of its key sounds while n does, though one may end when n *)
(* begins or begin when n ends, and the track itself releases no key then. *)
Undisturbed(n) ==
  \A i \in DOMAIN list : OfKey(list[i], n) =>
    LET x == list[i]
    IN /\ IsNote(x) /\ x # n => \/ x.id < n.id /\ x.time + x.dur =< n.time
                                \/ n.id < x.id /\ n.time + n.dur =< x.time
       /\ x.st = "noteOff" => x.time < n.time \/ n.time + n.dur < x.time

(* What a player of the MIDI track hears of the note at k: the next event  *)
(* of its key ends it, and comes after its duration.                       *)
Sounds(k) ==
  \E m \in DOMAIN out.body :
    /\ m > k /\ Ends(out.body[m].e, out.body[k].e)
    /\ \A j \in (k + 1)..(m - 1) : ~OfKey(out.body[j].e, out.body[k].e)
    /\ Clock(out.body)[m] - Clock(out.body)[k] = out.body[k].e.dur

(* Every note that ends within its track sounds in the MIDI track for as   *)
(* long as the XMIDI track says, unless notes of its key overlap: the end  *)
(* of an earlier note never cuts it off, nor does a later one swallow its  *)
(* end, also when one begins at the tick at which the other ends, although *)
(* the ends are put into the list before the notes that follow are read.   *)
NotesHeld ==
  phase = "written" =>
    \A k \in DOMAIN out.body :
      LET n == out.body[k].e
      IN /\ IsNote(n) /\ Undisturbed(n)
         /\ \A i \in DOMAIN list : IsEnd(list[i]) => n.time + n.dur =< list[i].time
         => Sounds(k)

(* A channel other than the drums that changes its program anywhere has a  *)
(* program, that of its first change, before its first note.               *)
ProgramBeforeNotes ==
  phase = "written" =>
    \A k, m \in DOMAIN list :
      /\ list[m].st = "prog" /\ list[m].id # 0
      /\ \A i \in DOMAIN list :
           list[i].st = "prog" /\ list[i].ch = list[m].ch /\ list[i].id # 0 => list[m].id =< list[i].id
      /\ IsNote(list[k]) /\ list[k].ch = list[m].ch
      => \E i \in 1..(k - 1) :
           list[i].st = "prog" /\ list[i].ch = list[m].ch /\ list[i].a = list[m].a /\ list[i].time = 0

Status(e) == <<e.st, e.ch>>

(* A reader of running status: the status it keeps behind each event, none *)
(* behind a system event.                                                  *)
Running(body) ==
  LET status[k \in 0..Len(body)] ==
        IF k = 0 \/ body[k].e.st \notin VoiceStatus THEN <<>>
        ELSE IF body[k].omit THEN status[k - 1] ELSE Status(body[k].e)
  IN status

(* A reader that keeps the status of the last event, and forgets it at a   *)
(* system event as MIDI says, finds the status of every event that comes   *)
(* without its status.                                                     *)
RunningStatusDecodes ==
  \A k \in DOMAIN out.body :
    out.body[k].omit => Running(out.body)[k - 1] = Status(out.body[k].e)
===============================================================================
