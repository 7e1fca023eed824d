------------------------------ MODULE EncoderIsr ------------------------------
(***************************************************************************)
(* The encoder device together with the firmware that decodes it.  The     *)
(* firmware is not part of the repository: its interrupt routine is        *)
(* modelled from what the comments of rza1l_gpio.c say it does, in the two *)
(* styles the device supports.                                             *)
(*                                                                         *)
(*   "irqrr"  the interrupt is level-triggered; the routine reads IRQRR    *)
(*            and, if its bit is set, writes the value back without it;    *)
(*   "gic"    the interrupt is edge-triggered and acknowledged only at the *)
(*            interrupt controller; the routine never touches IRQRR.       *)
(*                                                                         *)
(* In both it samples PPR1 as one 16-bit read and decodes the direction.   *)
(***************************************************************************)
EXTENDS EncoderGpio

CONSTANTS
  MaxTurns, \* bound on the detents turned in all with a prompt routine,
  LateTurns, \* and with one that may be late
  None

ASSUME IsrAssumption ==
  /\ MaxTurns \in Nat /\ LateTurns \in Nat
  /\ None \notin Enc

VARIABLES
  prompt,   \* the routine always keeps up with the edges (KeepsUp)
  style,    \* "boot" until the firmware has programmed ICR1
  pend,     \* interrupts latched by an edge-triggered controller
  isr,      \* encoder whose routine runs, or None
  todo,     \* what the routine still has to do
  seen,     \* the IRQRR value it has read, {} before it reads
  decoded,  \* net A edges decoded per encoder
  turned,   \* net detents turned per encoder
  turns     \* detents turned in all

isrVars == <<prompt, style, pend, isr, todo, seen, decoded>>
allVars == <<vars, isrVars, turned, turns>>

\* The counters are cut off beyond anything a run can turn, so that a line
\* nobody lowers is a loop of the model and not an endless count.
Most == 2 * MaxTurns + 1
Cut(n) == IF n > Most THEN Most ELSE IF n < -Most THEN -Most ELSE n

Requests == IF style = "irqrr" THEN line ELSE pend

IsrInit ==
  /\ Init
  /\ prompt \in BOOLEAN
  /\ style = "boot"
  /\ pend = {} /\ isr = None /\ todo = {} /\ seen = {}
  /\ decoded = [e \in Enc |-> 0]
  /\ turned = [e \in Enc |-> 0]
  /\ turns = 0

\* Both styles program both-edge sensing; the level style may leave it 0.
Boot(st, encs) ==
  /\ style = "boot"
  /\ st = "gic" => encs = Enc
  /\ WriteSense(encs)
  /\ style' = st
  /\ UNCHANGED <<prompt, pend, isr, todo, seen, decoded, turned, turns>>

Turn(e, d) ==
  /\ style # "boot"
  /\ turns < (IF prompt THEN MaxTurns ELSE LateTurns)
  /\ EncoderStep(e, d)
  /\ turned' = [turned EXCEPT ![e] = @ + d]
  /\ turns' = turns + 1
  /\ UNCHANGED isrVars

\* Encoders whose edge an edge-triggered routine has not sampled yet.
Unsampled == pend \cup {e \in Enc : e = isr /\ "pins" \in todo}

(* A routine keeps up if it has sampled an encoder before the next edge of *)
(* that encoder; edges of other encoders may come at any time, and one     *)
(* read of PPR1 then acknowledges them all.  A routine that writes IRQRR   *)
(* back must also be over before any edge: a request latched between its   *)
(* read and its write is one more bit that the write clears.               *)
KeepsUp ==
  IF style = "gic" THEN edgeQ[head].enc \notin Unsampled
                   ELSE isr = None /\ Requests = {}

\* An edge; an edge-triggered controller latches the lines that rise.
Fire ==
  /\ armed
  /\ prompt => KeepsUp
  /\ EdgeTimer
  /\ pend' = pend \cup (line' \ line)
  /\ UNCHANGED <<prompt, style, isr, todo, seen, decoded, turned, turns>>

Enter(e) ==
  /\ isr = None
  /\ e \in Requests
  /\ isr' = e
  /\ todo' = IF style = "irqrr" THEN {"pins", "request", "ack"} ELSE {"pins"}
  /\ pend' = pend \ {e}
  /\ UNCHANGED <<vars, prompt, style, seen, decoded, turned, turns>>

IsrPins ==
  /\ "pins" \in todo
  /\ ReadPins({0, 1})
  /\ decoded' = [decoded EXCEPT ![isr] = Cut(@ + Decode(isr, pinA[isr], pinB[isr]))]
  /\ todo' = todo \ {"pins"}
  /\ UNCHANGED <<prompt, style, pend, isr, seen, turned, turns>>

IsrReadRequests ==
  /\ "request" \in todo
  /\ seen' = irqrr
  /\ todo' = todo \ {"request"}
  /\ UNCHANGED <<vars, prompt, style, pend, isr, decoded, turned, turns>>

IsrAck ==
  /\ "ack" \in todo /\ "request" \notin todo
  /\ IF isr \in seen THEN WriteRequests(seen \ {isr}) ELSE UNCHANGED vars
  /\ seen' = {}
  /\ todo' = todo \ {"ack"}
  /\ UNCHANGED <<prompt, style, pend, isr, decoded, turned, turns>>

Exit ==
  /\ isr # None /\ todo = {}
  /\ isr' = None
  /\ UNCHANGED <<vars, prompt, style, pend, todo, seen, decoded, turned, turns>>

Routine == (\E e \in Enc : Enter(e)) \/ IsrPins \/ IsrReadRequests \/ IsrAck \/ Exit

IsrNext ==
  \/ \E st \in {"irqrr", "gic"}, encs \in {{}, Enc} : Boot(st, encs)
  \/ \E e \in Enc, d \in Dirs : Turn(e, d)
  \/ Fire
  \/ Routine

IsrSpec == IsrInit /\ [][IsrNext]_allVars

\* The processor takes a pending interrupt and runs its routine to the end;
\* the main loop runs an expired timer.
IsrFairSpec == IsrSpec /\ WF_allVars(Routine) /\ WF_allVars(Fire)

-----------------------------------------------------------------------------
Quiet == head = tail /\ isr = None /\ Requests = {}

(* End to end: when all edges are applied and all interrupts served, the   *)
(* firmware has counted exactly two edges per detent, each in the          *)
(* direction the host turned, for every interleaving of several encoders,  *)
(* also of those whose requests share an acknowledge, if no edge was lost  *)
(* and the routine keeps up.                                               *)
RotationDecoded ==
  (Quiet /\ ~lost /\ prompt) => \A e \in Enc : decoded[e] = 2 * turned[e]

(* Every turn is served to the end and the system comes to rest: no edge   *)
(* is stranded, no routine is re-entered for ever by a line nobody lowers. *)
Settles == <>[](Quiet /\ line = {})
=============================================================================
