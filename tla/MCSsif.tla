------------------------------- MODULE MCSsif -------------------------------
(* The transmit half of the audio interface on the two sides of its FIFO,  *)
(* of which a behaviour shows one: the pump, and the drain between two     *)
(* clocks.  In the run the pump has a ring of five frames, a window of two *)
(* and a firmware that renders four.                                       *)
EXTENDS SsifServo

CONSTANTS Size, Window, Backlog, MaxFrames

VARIABLES
  part,
  armed, ring, head, goal, play, rendered, mode, known, searchDone,
  anchored, readOff, age, staged, torn, late

P == INSTANCE SsifPump

ASSUME PumpAssumption == P!PumpAssumption

pumpVars ==
  <<armed, ring, head, goal, play, rendered, mode, known, searchDone,
    anchored, readOff, age, staged, torn, late>>

MCNext ==
  /\ \/ part = "pump" /\ P!Next /\ UNCHANGED servoVars
     \/ part = "drain" /\ ServoNext /\ UNCHANGED pumpVars
  /\ UNCHANGED part

MCInit ==
  /\ ServoInit /\ P!Init /\ part \in {"pump", "drain"}
  /\ part = "pump" => clocks = "free"
  /\ part = "drain" => mode = "explicit"

MCSpec ==
  /\ MCInit /\ [][MCNext]_<<servoVars, pumpVars, part>>
  /\ WF_pumpVars(part = "pump" /\ P!PlayTick)
  /\ WF_pumpVars(part = "pump" /\ P!Tick)

\* What is staged is what was rendered, in order and to the end (SsifPump).
HeadKeepsOrder == P!HeadKeepsOrder
HeadReached == P!HeadReached
=============================================================================
