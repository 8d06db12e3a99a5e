---------------------------- MODULE MCXmidiEvents ----------------------------
(* Small instance of XmidiEvents: tracks of up to three items on two       *)
(* channels, the second one the drums; two items may come at one time, and *)
(* notes may last nothing, until the next item or beyond the last one.     *)
EXTENDS XmidiEvents

CONSTANTS key

MCKeys == {key}
===============================================================================
