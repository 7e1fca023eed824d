------------------------------ MODULE MCSurface ------------------------------
(* The control surface beside its panel bus: the encoders, or the window   *)
(* that shows pads and lamps, of which a behaviour has one.  There is one  *)
(* encoder with plain wiring and one with inverted wiring, in different    *)
(* bytes of the port, and a ring of two detents; the behaviour is the      *)
(* device's, under firmware that may do any access, or the system's, with  *)
(* an interrupt routine and up to three detents, so that the ring also     *)
(* overflows.                                                              *)
EXTENDS EncoderIsr, MCSkinPanel

CONSTANTS tempo, scrollY
MCEnc      == {tempo, scrollY}
MCInvert   == {tempo}
MCHighByte == {scrollY}

VARIABLE part

MCNext ==
  /\ \/ part = "device" /\ Next /\ UNCHANGED <<isrVars, turned, turns, skinVars>>
     \/ part = "system" /\ IsrNext /\ UNCHANGED skinVars
     \/ part = "window" /\ SkinNext /\ UNCHANGED allVars
  /\ UNCHANGED part

MCInit ==
  /\ IsrInit
  /\ part \in {"device", "system", "window"}
  /\ part # "system" => prompt
  /\ IF part = "window" THEN SkinInit ELSE SkinOff

MCSpec ==
  /\ MCInit /\ [][MCNext]_<<allVars, skinVars, part>>
  /\ WF_allVars(part = "system" /\ Routine)
  /\ WF_allVars(part = "system" /\ Fire)
  /\ WF_skinVars(part = "window" /\ deluge_skin_refresh)

\* States of the device after a loss are checked but not explored further.
UntilLoss == part = "device" => ~lost

\* With the routine (EncoderIsr) every turn is served and the system rests.
SystemSettles == part = "system" => Settles
=============================================================================
