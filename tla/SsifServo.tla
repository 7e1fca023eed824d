----------------------------- MODULE SsifServo -----------------------------
(***************************************************************************)
(* The drain of the audio output between two clocks.  The guest renders    *)
(* and the host plays Quantum frames a round, and in one round of Period   *)
(* the guest, whose clock is not the host's, renders a frame more or less  *)
(* (the comment above rza1l_ssif_drain measures half a percent).  Both are *)
(* external; the voice takes all it asked for.  With clocks = "free" they  *)
(* do as they please.                                                      *)
(***************************************************************************)
EXTENDS SsifDrain

CONSTANTS Quantum, Period

ASSUME ServoAssumption == Quantum \in Nat \ {0} /\ Period \in Nat \ {0}

VARIABLES
  clocks,   \* how the guest's clock runs beside the host's
  turn,     \* who is next: "guest" or "host"
  round     \* rounds since the last odd one

servoVars == <<vars, clocks, turn, round>>

ServoInit ==
  /\ Init
  /\ clocks \in {"free", "slow", "equal", "fast"}
  /\ turn = "guest" /\ round = 0

Rendered ==
  IF round # 0 \/ clocks = "equal" THEN Quantum
  ELSE IF clocks = "slow" THEN Quantum - 1 ELSE Quantum + 1

Guest ==
  /\ turn = "guest"
  /\ Push(Rendered)
  /\ turn' = "host"
  /\ round' = (round + 1) % Period

\* Until the cushion has been built the voice plays silence.
Host ==
  /\ turn = "host"
  /\ OutCb(Quantum)
  /\ turn' = "guest"
  /\ UNCHANGED round

Lockstep ==
  \/ Guest \/ Host
  \/ (Emit \/ Write(batch)) /\ UNCHANGED <<turn, round>>

ServoNext ==
  /\ UNCHANGED clocks
  /\ \/ clocks = "free" /\ Next /\ UNCHANGED <<turn, round>>
     \/ clocks # "free" /\ Lockstep

ServoSpec == ServoInit /\ [][ServoNext]_servoVars

-----------------------------------------------------------------------------
(* Drift up to the rate of the servo neither empties the FIFO nor fills    *)
(* it: once primed the voice gets every frame it asks for, for ever, and   *)
(* no frame rendered is pushed out (rza1l_ssif_drain).                     *)
DriftAbsorbed == clocks # "free" => ~starved /\ ~dropped
=============================================================================
