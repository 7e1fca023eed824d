------------------------------- MODULE MCPanel -------------------------------
(* Two pads and a button (both shift keys are bound to it) over a ring of  *)
(* four bytes, which two releases lap; two controls fill the latch table.  *)
(* A behaviour has either the full host input, or the firmware's commands  *)
(* with one key, chosen at the start.                                      *)
EXTENDS PanelInput

CONSTANTS pad, pad2, shift, leftShift, rightShift

VARIABLE part

MCCtrl    == {pad, pad2, shift}
MCKey     == {leftShift, rightShift}
MCBinding == [k \in MCKey |-> shift]

MCInit == Init /\ part \in {"input", "display"}

MCNext ==
  /\ UNCHANGED part
  /\ \/ part = "input" /\ (Keyboard \/ Pointer)
     \/ ReleaseTimer \/ Tick \/ Device
     \/ /\ part = "display"
        /\ \/ \E b \in Cmds : Send(b)
           \/ KeyDown(leftShift) \/ KeyUp(leftShift)

MCSpec == MCInit /\ [][MCNext]_<<vars, part>> /\ Fairness
=============================================================================
