------------------------------ MODULE ItemFiles ------------------------------
(***************************************************************************)
(* The two items with a file of their own that can be called again: a map  *)
(* (LoadMAP, WriteMAP) and an XMIDI sound (LoadSND, WriteSND).  A program  *)
(* makes one of them; the other is never made.                             *)
(***************************************************************************)
EXTENDS MapFile, XmidiFile

VARIABLE made

allvars == <<made, vars, xvars>>

NoFile == [len |-> 0]

MakeMap ==
  /\ made = "map" /\ Init
  /\ xmi = NewXmi /\ hist = NewHist /\ xfile = NoFile /\ xio = XIdle /\ xret = XNone

MakeSound ==
  /\ made = "sound" /\ XInit
  /\ map = NewMap /\ file = NoFile /\ io = Idle /\ ret = NoRet

ItemInit == MakeMap \/ MakeSound

ItemNext ==
  \/ made = "map" /\ Next /\ UNCHANGED <<made, xvars>>
  \/ made = "sound" /\ XNext /\ UNCHANGED <<made, vars>>

(* Whoever called load waits for it, and it goes on. *)
ItemSpec ==
  /\ ItemInit /\ [][ItemNext]_allvars
  /\ WF_allvars(made = "map" /\ LoadStep /\ UNCHANGED <<made, xvars>>)
  /\ WF_allvars(made = "sound" /\ XLoadStep /\ UNCHANGED <<made, vars>>)

(* Every load ends, of a map also where the stream has no end of animals:  *)
(* with an error, a value that happens to be the end, or without memory.   *)
LoadEnds == (io # Idle \/ xio # XIdle) ~> (io = Idle /\ xio = XIdle)
===============================================================================
