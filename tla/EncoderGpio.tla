----------------------------- MODULE EncoderGpio -----------------------------
(***************************************************************************)
(* The rotary encoders of the panel as the GPIO / INTC model drives them   *)
(* (src/src/hw/gpio/rza1l_gpio.c).  The host turns an encoder by whole     *)
(* detents; every detent becomes four edges in a ring of QSize slots; a    *)
(* virtual timer applies one edge at a time to the encoder's two pins and  *)
(* latches the external interrupt of the A pin.  The firmware reads the    *)
(* pins (PPR1), the request register (IRQRR) and writes IRQRR and ICR1.    *)
(*                                                                         *)
(* Interrupt numbers are named by their encoder (the wiring table is       *)
(* one-to-one).  Ports and pins that no encoder uses are left out.         *)
(***************************************************************************)
EXTENDS Integers, FiniteSets

CONSTANTS
  Enc,       \* the encoders
  Invert,    \* the encoders whose direction sense is flipped (a subset)
  HighByte,  \* the encoders whose A pin is in the high byte of port 1
  QSize,     \* slots in the edge ring (RZA1L_GPIO_EDGE_QUEUE)
  Stale      \* what a slot outside head..tail holds: never read

ASSUME EncAssumption ==
  /\ Invert \subseteq Enc
  /\ HighByte \subseteq Enc
  /\ Stale \notin [enc : Enc, dir : {-1, 1}]
  /\ QSize \in Nat
  /\ QSize % 4 = 0
  /\ QSize > 4

VARIABLES
  phase,    \* quadrature phase of each encoder (enc_phase)
  pinA,     \* level of each encoder's interrupt pin (in_drive, irq_pin)
  pinB,     \* level of each encoder's companion pin (in_drive, comp_pin)
  irqrr,    \* encoders with a latched request bit
  line,     \* encoders whose interrupt line is asserted (qemu_set_irq)
  edgeMode, \* encoders whose ICR1 field is not 0
  ackSeen,  \* irqrr_ack_seen
  edgeQ,    \* the ring slots
  head, tail,
  armed,    \* the edge timer is pending
  lost      \* history: an edge was dropped or forgotten since reset

vars == <<phase, pinA, pinB, irqrr, line, edgeMode, ackSeen,
          edgeQ, head, tail, armed, lost>>

pinVars  == <<phase, pinA, pinB>>
irqVars  == <<irqrr, line, ackSeen>>
ringVars == <<edgeQ, head, tail, armed, lost>>

Dirs  == {-1, 1}
Slots == 0 .. QSize - 1
Edge  == [enc : Enc, dir : Dirs]

TypeOK ==
  /\ phase \in [Enc -> 0 .. 3]
  /\ pinA \in [Enc -> {0, 1}] /\ pinB \in [Enc -> {0, 1}]
  /\ irqrr \subseteq Enc /\ line \subseteq Enc /\ edgeMode \subseteq Enc
  /\ ackSeen \in BOOLEAN /\ armed \in BOOLEAN /\ lost \in BOOLEAN
  /\ edgeQ \in [Slots -> Edge \cup {Stale}]
  /\ head \in Slots /\ tail \in Slots

-----------------------------------------------------------------------------
(* Ring arithmetic.  Wrap(n) is n % QSize for the sums that occur, which   *)
(* never reach 2 * QSize; Ahead(a, b) is (b - a) % QSize.                  *)

(* Definitions named Fault... are seeded faults: what the definition after *)
(* them would be with a plausible bug.  Nothing else refers to them.       *)
FaultWrap(n) == IF n > QSize THEN n - QSize ELSE n

Wrap(n) == IF n >= QSize THEN n - QSize ELSE n
Ahead(a, b) == IF b >= a THEN b - a ELSE b - a + QSize

Live(i) == Ahead(head, i) < Ahead(head, tail)

\* Edges the ring still takes: one slot stays free to tell full from empty.
Room == QSize - 1 - Ahead(head, tail)

-----------------------------------------------------------------------------
(* Quadrature: the Gray code of a phase and what the firmware decodes.     *)

GrayA(p) == IF p \in {1, 2} THEN 1 ELSE 0
GrayB(p) == IF p \in {2, 3} THEN 1 ELSE 0

FaultPhaseStep(e, d) == IF d = 1 THEN 3 ELSE 1

\* Forward makes the A edges read a # b, backward makes them read a = b.
PhaseStep(e, d) == IF (e \in Invert) = (d = 1) THEN 1 ELSE 3

\* The direction the ISR reads off the two pins at an A edge.
Decode(e, a, b) == IF (e \in Invert) = (a # b) THEN 1 ELSE -1

Init ==
  /\ phase = [e \in Enc |-> 0]
  /\ pinA = [e \in Enc |-> 0]
  /\ pinB = [e \in Enc |-> 0]
  /\ irqrr = {} /\ line = {} /\ edgeMode = {}
  /\ ackSeen = FALSE
  /\ edgeQ = [i \in Slots |-> Stale]
  /\ head = 0 /\ tail = 0
  /\ armed = FALSE
  /\ lost = FALSE

\* Two edges for a detent, as the header's comment has it.
FaultEncoderStep(e, d) ==
  LET taken == IF Room < 2 THEN Room ELSE 2
  IN  /\ edgeQ' = [i \in Slots |-> IF Ahead(tail, i) < taken
                                   THEN [enc |-> e, dir |-> d]
                                   ELSE edgeQ[i]]
      /\ tail' = Wrap(tail + taken)
      /\ armed' = (armed \/ taken > 0)
      /\ lost' = (lost \/ taken < 2)
      /\ UNCHANGED <<pinVars, irqVars, edgeMode, head>>

(* Host: one detent.  Four enqueue_edge calls; each call is dropped on its *)
(* own when the ring is full, so a detent may be accepted in part.         *)
EncoderStep(e, d) ==
  LET taken == IF Room < 4 THEN Room ELSE 4
  IN  /\ edgeQ' = [i \in Slots |-> IF Ahead(tail, i) < taken
                                   THEN [enc |-> e, dir |-> d]
                                   ELSE edgeQ[i]]
      /\ tail' = Wrap(tail + taken)
      /\ armed' = (armed \/ taken > 0)
      /\ lost' = (lost \/ taken < 4)
      /\ UNCHANGED <<pinVars, irqVars, edgeMode, head>>

\* The request is latched on every edge, of either pin.
FaultApplyEdge(x) ==
  LET p == (phase[x.enc] + PhaseStep(x.enc, x.dir)) % 4
  IN  /\ phase' = [phase EXCEPT ![x.enc] = p]
      /\ pinA' = [pinA EXCEPT ![x.enc] = GrayA(p)]
      /\ pinB' = [pinB EXCEPT ![x.enc] = GrayB(p)]
      /\ irqrr' = irqrr \cup {x.enc}
      /\ line' = line \cup {x.enc}

(* Step the phase, drive both pins, and latch the request and raise the    *)
(* line if the A pin moved.                                                *)
ApplyEdge(x) ==
  LET p == (phase[x.enc] + PhaseStep(x.enc, x.dir)) % 4
      moved == IF GrayA(p) # GrayA(phase[x.enc]) THEN {x.enc} ELSE {}
  IN  /\ phase' = [phase EXCEPT ![x.enc] = p]
      /\ pinA' = [pinA EXCEPT ![x.enc] = GrayA(p)]
      /\ pinB' = [pinB EXCEPT ![x.enc] = GrayB(p)]
      /\ irqrr' = irqrr \cup moved
      /\ line' = line \cup moved

\* The edge timer fires; it is armed again only if edges remain.
EdgeTimer ==
  /\ armed
  /\ IF head = tail
     THEN armed' = FALSE /\ UNCHANGED <<pinVars, irqrr, line, edgeQ, head>>
     ELSE /\ ApplyEdge(edgeQ[head])
          /\ edgeQ' = [edgeQ EXCEPT ![head] = Stale]
          /\ head' = Wrap(head + 1)
          /\ armed' = (head' # tail)
  /\ UNCHANGED <<edgeMode, ackSeen, tail, lost>>

\* The read acknowledges the request bits and does not lower the lines.
FaultReadPins(bytes) ==
  LET read == {e \in Enc : (IF e \in HighByte THEN 1 ELSE 0) \in bytes}
      acked == IF ackSeen THEN {} ELSE irqrr \cap edgeMode \cap read
  IN  /\ irqrr' = irqrr \ acked
      /\ UNCHANGED <<line, pinVars, edgeMode, ackSeen, ringVars>>

(* Firmware reads bytes of PPR1 (one or both).  Reading the byte of an     *)
(* edge-mode encoder's A pin acknowledges its request, unless the firmware *)
(* has been seen to acknowledge through IRQRR.                             *)
ReadPins(bytes) ==
  LET read == {e \in Enc : (IF e \in HighByte THEN 1 ELSE 0) \in bytes}
      acked == IF ackSeen THEN {} ELSE irqrr \cap edgeMode \cap read
  IN  /\ irqrr' = irqrr \ acked
      /\ line' = line \ acked
      /\ UNCHANGED <<pinVars, edgeMode, ackSeen, ringVars>>

\* The request bits are cleared and the lines are not lowered.
FaultWriteRequests(bits) ==
  /\ irqrr' = bits
  /\ ackSeen' = (ackSeen \/ irqrr \ bits # {})
  /\ UNCHANGED <<pinVars, line, edgeMode, ringVars>>

\* Firmware writes IRQRR: bits going from 1 to 0 release their lines; a bit
\* written 1 is stored but raises nothing.
WriteRequests(bits) ==
  LET cleared == irqrr \ bits
  IN  /\ irqrr' = bits
      /\ line' = line \ cleared
      /\ ackSeen' = (ackSeen \/ cleared # {})
      /\ UNCHANGED <<pinVars, edgeMode, ringVars>>

\* Firmware programs the sense fields (ICR1).
WriteSense(encs) ==
  /\ edgeMode' = encs
  /\ UNCHANGED <<pinVars, irqVars, ringVars>>

\* Device reset.
Reset ==
  /\ phase' = [e \in Enc |-> 0]
  /\ pinA' = [e \in Enc |-> 0]
  /\ pinB' = [e \in Enc |-> 0]
  /\ irqrr' = {} /\ line' = {} /\ edgeMode' = {}
  /\ ackSeen' = FALSE
  /\ head' = 0 /\ tail' = 0
  /\ armed' = FALSE
  /\ lost' = FALSE
  /\ edgeQ' = [i \in Slots |-> Stale]

(* The machine's state is saved and loaded: the state description holds    *)
(* the pins, phases and registers, and neither the ring, its timer nor     *)
(* irqrr_ack_seen; the lines' levels live on in the interrupt controller.  *)
Restore ==
  /\ lost' = (lost \/ head # tail)
  /\ head' = 0 /\ tail' = 0
  /\ armed' = FALSE
  /\ ackSeen' = FALSE
  /\ edgeQ' = [i \in Slots |-> Stale]
  /\ UNCHANGED <<pinVars, irqrr, line, edgeMode>>

Host == \E e \in Enc, d \in Dirs : EncoderStep(e, d)

Firmware ==
  \/ \E bytes \in {{0}, {1}, {0, 1}} : ReadPins(bytes)
  \/ \E bits \in SUBSET Enc : WriteRequests(bits)
  \/ \E encs \in SUBSET Enc : WriteSense(encs)

Next == Host \/ EdgeTimer \/ Firmware \/ Reset \/ Restore

Spec == Init /\ [][Next]_vars

-----------------------------------------------------------------------------
(* A line is asserted only while its request bit is set, whatever the      *)
(* firmware writes: an asserted line can always be released through IRQRR. *)
(* The line is level-held, so one without its bit is an interrupt storm.   *)
NoOrphanLine == line \subseteq irqrr

(* The edge timer is pending exactly while the ring holds edges: edges are *)
(* never stranded and the timer never fires on an empty ring.              *)
TimerMatchesRing == armed <=> head # tail

(* A detent is one full quadrature cycle: once the ring is empty every     *)
(* encoder rests at phase 0 with both pins low, provided no edge was lost. *)
RestAtDetent ==
  (head = tail /\ ~lost) =>
    \A e \in Enc : phase[e] = 0 /\ pinA[e] = 0 /\ pinB[e] = 0

MovedA == {e \in Enc : pinA'[e] # pinA[e]}
MovedB == {e \in Enc : pinB'[e] # pinB[e]}

(* No step but a reset moves more than one pin of one encoder: the         *)
(* firmware's quadrature decoder never sees a diagonal transition.         *)
OnePinMoves ==
  [][Reset \/ (/\ \A e, f \in MovedA \cup MovedB : e = f
               /\ MovedA \cap MovedB = {})]_vars

(* When the A pin of an encoder moves outside a reset, its line is         *)
(* asserted after the step and the pins decode to the direction the host   *)
(* asked for, inverted wiring included.                                    *)
EdgeShowsDirection ==
  [][Reset \/ \A e \in MovedA :
        /\ e \in line'
        /\ edgeQ[head].enc = e
        /\ Decode(e, pinA'[e], pinB'[e]) = edgeQ[head].dir]_vars
=============================================================================
