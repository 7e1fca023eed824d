----------------------------- MODULE PanelProofs -----------------------------
(***************************************************************************)
(* Proofs about the host input and the panel for any controls, keys,       *)
(* bindings, table and ring sizes: what the host holds down is held while  *)
(* it should be (first part), and the firmware's view of the panel is      *)
(* right (ViewAgrees, second part).                                        *)
(***************************************************************************)
EXTENDS PanelInput, TLAPS

-----------------------------------------------------------------------------
(* NothingStuck is inductive once the latch table is known to be a         *)
(* sequence; RepeatUnderButton is inductive alone.                         *)

IInv ==
  /\ latched \in Seq(Ctrl)
  /\ NothingStuck
  /\ RepeatUnderButton

-----------------------------------------------------------------------------
LEMMA ElemsEmpty == Elems(<<>>) = {}
BY DEF Elems

LEMMA ElemsOne ==
  ASSUME NEW c
  PROVE  Elems(<<c>>) = {c}
BY DEF Elems

LEMMA ElemsAppend ==
  ASSUME NEW S, NEW s \in Seq(S), NEW c
  PROVE  Elems(Append(s, c)) = Elems(s) \cup {c}
<1>1. DOMAIN Append(s, c) = 1 .. Len(s) + 1 /\ DOMAIN s = 1 .. Len(s) /\ Len(s) \in Nat
  OBVIOUS
<1>2. Append(s, c)[Len(s) + 1] = c
  OBVIOUS
<1>3. \A i \in 1 .. Len(s) : Append(s, c)[i] = s[i]
  OBVIOUS
<1>4. QED BY <1>1, <1>2, <1>3 DEF Elems

\* Removing an entry of the latch table loses no other entry.
LEMMA UnlatchKeeps ==
  ASSUME latched \in Seq(Ctrl), NEW i \in DOMAIN latched
  PROVE  /\ Unlatch(i) \in Seq(Ctrl)
         /\ Elems(latched) \ {latched[i]} \subseteq Elems(Unlatch(i))
<1> DEFINE n == Len(latched)
           u == Unlatch(i)
<1> HIDE DEF n, u
<1>1. n \in Nat /\ DOMAIN latched = 1 .. n /\ i \in 1 .. n
  BY DEF n
<1>2. \A j \in 1 .. n : latched[j] \in Ctrl
  BY <1>1
<1>3. u = [j \in 1 .. n - 1 |-> IF j = i THEN latched[n] ELSE latched[j]]
  BY DEF Unlatch, n, u
<1>4. u \in [1 .. n - 1 -> Ctrl] /\ n - 1 \in Nat
  BY <1>1, <1>2, <1>3
<1>5. u \in Seq(Ctrl)
  BY <1>4
<1>6. ASSUME NEW c \in Elems(latched), c # latched[i]
      PROVE  c \in Elems(u)
  <2>1. PICK j \in 1 .. n : latched[j] = c
    BY <1>1, <1>6 DEF Elems
  <2>2. j # i
    BY <2>1, <1>6
  <2>3. DOMAIN u = 1 .. n - 1
    BY <1>3
  <2>4. CASE j = n
    <3>1. i \in 1 .. n - 1
      BY <1>1, <2>2, <2>4
    <3>2. u[i] = latched[n]
      BY <1>3, <3>1
    <3>3. QED BY <2>1, <2>3, <2>4, <3>1, <3>2 DEF Elems
  <2>5. CASE j # n
    <3>1. j \in 1 .. n - 1
      BY <1>1, <2>5
    <3>2. u[j] = latched[j]
      BY <1>3, <2>2, <3>1
    <3>3. QED BY <2>1, <2>3, <3>1, <3>2 DEF Elems
  <2>6. QED BY <2>4, <2>5
<1>7. QED BY <1>5, <1>6 DEF u

LEMMA StillHeldElems == Elems(StillHeld) = IF ptr = None THEN {} ELSE {ptr}
BY ElemsEmpty, ElemsOne DEF StillHeld

LEMMA InitInv == Init => IInv
<1> SUFFICES ASSUME Init PROVE IInv
  OBVIOUS
<1>1. latched = <<>> /\ held = {} /\ repeat = FALSE
  BY DEF Init, PanelInit, InputInit
<1>2. QED BY <1>1 DEF IInv, NothingStuck, RepeatUnderButton

-----------------------------------------------------------------------------
LEMMA KeyboardInv ==
  ASSUME IInv, Keyboard
  PROVE  IInv'
<1> USE DEF IInv
<1>1. ASSUME NEW k \in Key, KeyDown(k) PROVE IInv'
  <2>1. /\ keys' = keys \cup {k} /\ held' = held \cup {Binding[k]}
        /\ UNCHANGED <<button, latched, ptr, repeat>>
    BY <1>1, ElemsEmpty, ElemsOne DEF KeyDown, SendEvents, pointVars
  <2>2. NothingStuck'
    BY <2>1 DEF NothingStuck, Wanted, StillHeld, Elems
  <2>3. QED BY <2>1, <2>2 DEF RepeatUnderButton
<1>2. ASSUME NEW k \in Key, KeyUp(k) PROVE IInv'
  <2>1. /\ keys' = keys \ {k} /\ held' = held \ {Binding[k]}
        /\ UNCHANGED <<button, latched, ptr, repeat>>
    BY <1>2, ElemsEmpty, ElemsOne DEF KeyUp, SendEvents, pointVars
  <2>2. NothingStuck'
    BY <2>1 DEF NothingStuck, Wanted, StillHeld, Elems
  <2>3. QED BY <2>1, <2>2 DEF RepeatUnderButton
<1>3. CASE LatchDown
  <2>1. UNCHANGED <<held, keys, button, latched, ptr, repeat>>
    BY <1>3 DEF LatchDown, panelVars, picVars, pointVars
  <2>2. QED BY <2>1 DEF NothingStuck, Wanted, StillHeld, Elems, RepeatUnderButton
<1>4. CASE LatchUp
  <2>1. /\ latched' = <<>> /\ held' = held \ Elems(latched)
        /\ UNCHANGED <<keys, button, ptr, repeat>>
    BY <1>4, ElemsEmpty DEF LatchUp, SendEvents, pointVars
  <2>2. NothingStuck'
    BY <2>1 DEF NothingStuck, Wanted, StillHeld, Elems
  <2>3. QED BY <2>1, <2>2 DEF RepeatUnderButton
<1>5. QED BY <1>1, <1>2, <1>3, <1>4 DEF Keyboard

\* A handler that lets go of what the last click holds.
LEMMA ReleaseNowInv ==
  ASSUME IInv, ReleaseNow, UNCHANGED <<keys, latched>>,
         repeat' => repeat, repeat' => button'
  PROVE  IInv'
<1>1. ptr' = None /\ held' = held \ Elems(StillHeld)
  BY ElemsEmpty DEF ReleaseNow, SendEvents
<1>2. NothingStuck'
  <2>1. Wanted \ Elems(StillHeld) \subseteq Wanted'
    BY DEF Wanted, Elems
  <2>2. QED BY <1>1, <2>1 DEF NothingStuck, IInv
<1>3. QED BY <1>1, <1>2 DEF IInv, RepeatUnderButton

LEMMA PointerInv ==
  ASSUME IInv, Pointer
  PROVE  IInv'
<1> USE DEF IInv
<1>1. ASSUME NEW c \in Ctrl, Press(c) PROVE IInv'
  <2>1. /\ held' = (held \ Elems(StillHeld)) \cup {c}
        /\ ptr' = c /\ repeat' = FALSE /\ UNCHANGED <<keys, latched>>
    BY <1>1, ElemsOne DEF Press, NewClick, SendEvents
  <2>2. Elems(StillHeld)' = {c}
    BY <2>1, InputAssumption, ElemsOne DEF StillHeld
  <2>3. NothingStuck'
    BY <2>1, <2>2 DEF NothingStuck, Wanted, Elems
  <2>4. QED BY <2>1, <2>3 DEF RepeatUnderButton
<1>2. ASSUME NEW c \in Ctrl, PressLatch(c) PROVE IInv'
  <2>1. ptr' = None /\ repeat' = FALSE /\ UNCHANGED keys
    BY <1>2 DEF PressLatch, NewClick
  <2>2. StillHeld \in Seq({ptr})
    <3>1. <<ptr>> \in Seq({ptr}) /\ <<>> \in Seq({ptr})
      OBVIOUS
    <3>2. QED BY <3>1 DEF StillHeld
  <2>3. CASE \E i \in DOMAIN latched :
               /\ latched[i] = c
               /\ SendEvents(Append(StillHeld, c), <<>>)
               /\ latched' = Unlatch(i)
    <3>1. PICK i \in DOMAIN latched :
               /\ latched[i] = c
               /\ SendEvents(Append(StillHeld, c), <<>>)
               /\ latched' = Unlatch(i)
      BY <2>3
    <3>2. held' = held \ (Elems(StillHeld) \cup {c})
      <4>1. Elems(Append(StillHeld, c)) = Elems(StillHeld) \cup {c}
        BY <2>2, ElemsAppend
      <4>2. QED BY <3>1, <4>1, ElemsEmpty DEF SendEvents
    <3>3. latched' \in Seq(Ctrl) /\ Elems(latched) \ {c} \subseteq Elems(latched')
      BY <3>1, UnlatchKeeps
    <3>4. NothingStuck'
      BY <2>1, <3>2, <3>3 DEF NothingStuck, Wanted
    <3>5. QED BY <2>1, <3>3, <3>4 DEF RepeatUnderButton
  <2>4. CASE SendEvents(StillHeld, <<c>>) /\ latched' = Append(latched, c)
    <3>1. held' = (held \ Elems(StillHeld)) \cup {c}
      BY <2>4, ElemsOne DEF SendEvents
    <3>2. latched' \in Seq(Ctrl) /\ Elems(latched') = Elems(latched) \cup {c}
      BY <2>4, ElemsAppend
    <3>3. NothingStuck'
      BY <2>1, <3>1, <3>2 DEF NothingStuck, Wanted
    <3>4. QED BY <2>1, <3>2, <3>3 DEF RepeatUnderButton
  <2>5. CASE SendEvents(StillHeld, <<>>) /\ UNCHANGED latched
    <3>1. held' = held \ Elems(StillHeld)
      BY <2>5, ElemsEmpty DEF SendEvents
    <3>2. NothingStuck'
      BY <2>1, <2>5, <3>1 DEF NothingStuck, Wanted
    <3>3. QED BY <2>1, <2>5, <3>2 DEF RepeatUnderButton
  <2>6. QED BY <1>2, <2>3, <2>4, <2>5 DEF PressLatch
<1>3. ASSUME NEW triangle \in BOOLEAN, PressElsewhere(triangle) PROVE IInv'
  <2>1. /\ held' = held \ Elems(StillHeld)
        /\ ptr' = None /\ button' = TRUE /\ UNCHANGED <<keys, latched>>
    BY <1>3, ElemsEmpty DEF PressElsewhere, NewClick, SendEvents
  <2>2. NothingStuck'
    BY <2>1 DEF NothingStuck, Wanted
  <2>3. QED BY <2>1, <2>2 DEF RepeatUnderButton
<1>4. CASE Release
  <2>1. repeat' = FALSE /\ UNCHANGED <<keys, latched>>
    BY <1>4 DEF Release
  <2>2. CASE ReleaseNow
    BY <2>1, <2>2, ReleaseNowInv
  <2>3. CASE UNCHANGED <<panelVars, ptr>>
    <3>1. UNCHANGED <<held, ptr>>
      BY <2>3 DEF panelVars, picVars
    <3>2. NothingStuck'
      BY <2>1, <3>1 DEF NothingStuck, Wanted, StillHeld, Elems
    <3>3. QED BY <2>1, <3>2 DEF RepeatUnderButton
  <2>4. QED BY <1>4, <2>2, <2>3 DEF Release, pointVars
<1>5. QED BY <1>1, <1>2, <1>3, <1>4 DEF Pointer

\* The coprocessor's and the firmware's own steps press and release nothing.
LEMMA OtherInv ==
  ASSUME IInv, Device \/ (\E b \in Cmds : Send(b)) \/ Tick \/ UNCHANGED vars
  PROVE  IInv'
<1>1. UNCHANGED <<held, keys, button, latched, ptr, repeat>>
  BY DEF Device, Send, Tick, vars, inputVars, pointVars, panelVars, picVars,
         Heartbeat, FwRead, FwArm, GuestReset, FwSend, RxByte
<1>2. QED
  BY <1>1 DEF IInv, NothingStuck, Wanted, StillHeld, Elems, RepeatUnderButton

LEMMA StepInv == IInv /\ [Next]_vars => IInv'
<1> SUFFICES ASSUME IInv, [Next]_vars PROVE IInv'
  OBVIOUS
<1>1. CASE Keyboard BY <1>1, KeyboardInv
<1>2. CASE Pointer BY <1>2, PointerInv
<1>3. CASE ReleaseTimer
  <2>1. ReleaseNow /\ UNCHANGED <<keys, latched, button, repeat>>
    BY <1>3 DEF ReleaseTimer
  <2>2. (repeat' => repeat) /\ (repeat' => button')
    BY <2>1 DEF IInv, RepeatUnderButton
  <2>3. QED BY <2>1, <2>2, ReleaseNowInv
<1>4. CASE Device \/ (\E b \in Cmds : Send(b)) \/ Tick \/ UNCHANGED vars
  BY <1>4, OtherInv
<1>5. QED BY <1>1, <1>2, <1>3, <1>4 DEF Next

-----------------------------------------------------------------------------
(* A control is held only while a key, the last click or the latch table   *)
(* holds it, however keys, clicks and latches overlap.                     *)
THEOREM NoStuckControl == Spec => []NothingStuck
<1>1. IInv => NothingStuck
  BY DEF IInv
<1>2. QED BY InitInv, StepInv, <1>1, PTL DEF Spec

(* The encoder repeat runs only under a pressed button.                    *)
THEOREM RepeatStops == Spec => []RepeatUnderButton
<1>1. IInv => RepeatUnderButton
  BY DEF IInv
<1>2. QED BY InitInv, StepInv, <1>1, PTL DEF Spec

(* A click is released early only by the next click.                       *)
THEOREM PressLongEnough == Spec => PressIsSeen
<1>1. [Next]_vars =>
        [(ptr # None /\ ptr' # ptr) => (age >= MinPress \/ button')]_vars
  <2> SUFFICES ASSUME Next, ptr # None, ptr' # ptr
               PROVE  age >= MinPress \/ button'
    BY DEF vars, inputVars
  <2>1. CASE Keyboard
    BY <2>1 DEF Keyboard, LatchDown, LatchUp, KeyDown, KeyUp, pointVars
  <2>2. CASE Pointer
    BY <2>2 DEF Pointer, Press, PressLatch, PressElsewhere, NewClick, Release, pointVars
  <2>3. CASE ReleaseTimer
    BY <2>3 DEF ReleaseTimer
  <2>4. CASE Tick \/ Device \/ (\E b \in Cmds : Send(b))
    BY <2>4 DEF Tick, Device, Send, inputVars
  <2>5. QED BY <2>1, <2>2, <2>3, <2>4 DEF Next
<1>2. QED BY <1>1, PTL DEF Spec, PressIsSeen

(* A control may stand for its byte: pads and buttons have different       *)
(* indices, all below DELUGE_PIC_INPUT_INDEX_COUNT, pads below 144.        *)
THEOREM IndicesDistinct ==
  ASSUME NEW x \in 0 .. 17, NEW y \in 0 .. 7, NEW x2 \in 0 .. 17, NEW y2 \in 0 .. 7,
         NEW bx \in 0 .. 8, NEW by \in 0 .. 3, NEW bx2 \in 0 .. 8, NEW by2 \in 0 .. 3
  PROVE  /\ PadIndex(x, y) \in 0 .. 143
         /\ ButtonIndex(bx, by) \in 144 .. 179
         /\ PadIndex(x, y) = PadIndex(x2, y2) => x = x2 /\ y = y2
         /\ ButtonIndex(bx, by) = ButtonIndex(bx2, by2) => bx = bx2 /\ by = by2
<1>1. x \div 2 \in 0 .. 8 /\ x % 2 \in {0, 1} /\ x = 2 * (x \div 2) + (x % 2)
  OBVIOUS
<1>2. x2 \div 2 \in 0 .. 8 /\ x2 % 2 \in {0, 1} /\ x2 = 2 * (x2 \div 2) + (x2 % 2)
  OBVIOUS
<1>3. PadIndex(x, y) \in 0 .. 143 /\ ButtonIndex(bx, by) \in 144 .. 179
  BY <1>1 DEF PadIndex, ButtonIndex
<1>4. PadIndex(x, y) = PadIndex(x2, y2) => x = x2 /\ y = y2
  BY <1>1, <1>2 DEF PadIndex
<1>5. ButtonIndex(bx, by) = ButtonIndex(bx2, by2) => bx = bx2 /\ by = by2
  BY DEF ButtonIndex
<1>6. QED BY <1>3, <1>4, <1>5

-----------------------------------------------------------------------------
(* The firmware's view.  What the firmware will take for pressed once it   *)
(* has read the ring is a fold over its bytes.  The invariant says the     *)
(* same without recursion: the last byte that mentions a control decides,  *)
(* where the idle beat mentions every control; a control no byte mentions  *)
(* is as the firmware already has it.  After a loss only what follows an   *)
(* idle beat counts.                                                       *)

\* The byte before position i of u; before the first it is p.
Prv(u, p, i) == IF i = 1 THEN p ELSE u[i - 1]

Mentions(u, p, c, i) == u[i] = "idle" \/ (u[i] = c /\ Prv(u, p, i) # "ver")

LastMention(u, p, c, m) ==
  /\ Mentions(u, p, c, m)
  /\ \A j \in 1 .. Len(u) : j > m => ~Mentions(u, p, c, j)

Presses(u, p, c, m) == u[m] = c /\ Prv(u, p, m) # "off"

\* Read from p and old, the bytes u lead to new.
Decides(u, p, new) ==
  \A c \in Ctrl, m \in 1 .. Len(u) :
     LastMention(u, p, c, m) => (c \in new <=> Presses(u, p, c, m))

Keeps(u, p, new, old) ==
  \A c \in Ctrl :
     (\A m \in 1 .. Len(u) : ~Mentions(u, p, c, m)) => (c \in new <=> c \in old)

Leads(u, p, new, old) == Decides(u, p, new) /\ Keeps(u, p, new, old)

\* The same for the bytes that follow an idle beat.
LeadsAfterIdle(u, p, new) ==
  \A c \in Ctrl, m \in 1 .. Len(u) :
     (LastMention(u, p, c, m) /\ \E k \in 1 .. m : u[k] = "idle")
       => (c \in new <=> Presses(u, p, c, m))

\* A prefix is followed by the control it is for.
Paired(u) ==
  \A i \in 1 .. Len(u) :
     u[i] \in {"off", "ver"} => (i < Len(u) /\ u[i + 1] \in Ctrl)

ViewTypes ==
  /\ held \subseteq Ctrl /\ pressed \subseteq Ctrl
  /\ unread \in Seq(Bytes)
  /\ prefix \in {"none", "off", "ver"}
  /\ lost \in BOOLEAN
  /\ ptr \in Ctrl \cup {None} /\ latched \in Seq(Ctrl)

\* An unarmed ring is empty: no reset leaves a byte in it.
View ==
  /\ ~rxArmed => unread = <<>>
  /\ Paired(unread)
  /\ LeadsAfterIdle(unread, prefix, held)
  /\ ~lost => /\ Leads(unread, prefix, held, pressed)
              /\ prefix # "none" => (unread # <<>> /\ unread[1] \in Ctrl)

VInv == ViewTypes /\ View

-----------------------------------------------------------------------------
(* Sequences. *)

LEMMA Joined ==
  ASSUME NEW S, NEW u \in Seq(S), NEW b \in Seq(S)
  PROVE  /\ u \o b \in Seq(S)
         /\ Len(u) \in Nat /\ Len(b) \in Nat
         /\ Len(u \o b) = Len(u) + Len(b)
         /\ \A i \in 1 .. Len(u) : (u \o b)[i] = u[i]
         /\ \A i \in 1 .. Len(b) : (u \o b)[Len(u) + i] = b[i]
OBVIOUS

LEMMA Suffix ==
  ASSUME NEW S, NEW u \in Seq(S), NEW l \in Nat, l <= Len(u)
  PROVE  /\ SubSeq(u, l + 1, Len(u)) \in Seq(S)
         /\ Len(u) \in Nat
         /\ Len(SubSeq(u, l + 1, Len(u))) = Len(u) - l
         /\ \A i \in 1 .. Len(u) - l : SubSeq(u, l + 1, Len(u))[i] = u[l + i]
OBVIOUS

\* The byte before position i of the second part, if the first is paired
\* or empty, is a prefix just when it is one within the second part.
LEMMA JoinedPrv ==
  ASSUME NEW u \in Seq(Bytes), NEW b \in Seq(Bytes), NEW p, Paired(u),
         u = <<>> => p = "none"
  PROVE  \A i \in 1 .. Len(b) : \A x \in {"off", "ver"} :
           Prv(u \o b, p, Len(u) + i) = x <=> Prv(b, "none", i) = x
<1> TAKE i \in 1 .. Len(b)
<1> TAKE x \in {"off", "ver"}
<1>1. Len(u) \in Nat /\ Len(b) \in Nat /\ i \in Nat /\ i >= 1
  BY Joined
<1>2. CASE i # 1
  <2>1. i - 1 \in 1 .. Len(b) /\ Len(u) + i # 1 /\ Len(u) + i - 1 = Len(u) + (i - 1)
    BY <1>1, <1>2
  <2>2. (u \o b)[Len(u) + i - 1] = b[i - 1]
    BY <2>1, Joined
  <2>3. QED BY <1>2, <2>1, <2>2 DEF Prv
<1>3. CASE i = 1 /\ u = <<>>
  BY <1>3 DEF Prv
<1>4. CASE i = 1 /\ u # <<>>
  <2>1. Len(u) \in 1 .. Len(u) /\ Len(u) + i # 1 /\ Len(u) + i - 1 = Len(u)
    BY <1>1, <1>4
  <2>2. (u \o b)[Len(u)] = u[Len(u)]
    BY <2>1, Joined
  <2>3. u[Len(u)] # x
    BY <2>1 DEF Paired
  <2>4. QED BY <1>4, <2>1, <2>2, <2>3 DEF Prv
<1>5. QED BY <1>2, <1>3, <1>4

LEMMA JoinedFirst ==
  ASSUME NEW u \in Seq(Bytes), NEW b \in Seq(Bytes), NEW p, NEW i \in 1 .. Len(u)
  PROVE  (u \o b)[i] = u[i] /\ Prv(u \o b, p, i) = Prv(u, p, i)
<1>1. (u \o b)[i] = u[i]
  BY Joined
<1>2. CASE i = 1
  BY <1>1, <1>2 DEF Prv
<1>3. CASE i # 1
  <2>1. i - 1 \in 1 .. Len(u)
    BY <1>3
  <2>2. (u \o b)[i - 1] = u[i - 1]
    BY <2>1, Joined
  <2>3. QED BY <1>1, <1>3, <2>2 DEF Prv
<1>4. QED BY <1>2, <1>3

\* Mentions and presses of a joined sequence are those of its parts.
LEMMA JoinedMentions ==
  ASSUME NEW u \in Seq(Bytes), NEW b \in Seq(Bytes), NEW p, Paired(u),
         u = <<>> => p = "none", NEW c \in Ctrl
  PROVE  /\ \A i \in 1 .. Len(u) :
               /\ Mentions(u \o b, p, c, i) <=> Mentions(u, p, c, i)
               /\ Presses(u \o b, p, c, i) <=> Presses(u, p, c, i)
         /\ \A i \in 1 .. Len(b) :
               /\ Mentions(u \o b, p, c, Len(u) + i) <=> Mentions(b, "none", c, i)
               /\ Presses(u \o b, p, c, Len(u) + i) <=> Presses(b, "none", c, i)
<1>1. ASSUME NEW i \in 1 .. Len(u)
      PROVE  /\ Mentions(u \o b, p, c, i) <=> Mentions(u, p, c, i)
             /\ Presses(u \o b, p, c, i) <=> Presses(u, p, c, i)
  BY JoinedFirst DEF Mentions, Presses
<1>2. ASSUME NEW i \in 1 .. Len(b)
      PROVE  /\ Mentions(u \o b, p, c, Len(u) + i) <=> Mentions(b, "none", c, i)
             /\ Presses(u \o b, p, c, Len(u) + i) <=> Presses(b, "none", c, i)
  <2>1. (u \o b)[Len(u) + i] = b[i]
    BY Joined
  <2>2. \A k \in 1 .. Len(b) : \A x \in {"off", "ver"} :
          Prv(u \o b, p, Len(u) + k) = x <=> Prv(b, "none", k) = x
    BY JoinedPrv
  <2>3. /\ Prv(u \o b, p, Len(u) + i) = "ver" <=> Prv(b, "none", i) = "ver"
        /\ Prv(u \o b, p, Len(u) + i) = "off" <=> Prv(b, "none", i) = "off"
    BY <2>2
  <2>4. QED BY <2>1, <2>3 DEF Mentions, Presses
<1>3. QED BY <1>1, <1>2

\* The last mention in u \o b is at m, and is that of the part it is in.
LastIn(u, b, p, c, m) ==
  \/ /\ m \in 1 .. Len(u) /\ LastMention(u, p, c, m)
     /\ \A j \in 1 .. Len(b) : ~Mentions(b, "none", c, j)
  \/ \E i \in 1 .. Len(b) : m = Len(u) + i /\ LastMention(b, "none", c, i)

LEMMA JoinedLast ==
  ASSUME NEW u \in Seq(Bytes), NEW b \in Seq(Bytes), NEW p, Paired(u),
         u = <<>> => p = "none", NEW c \in Ctrl, NEW m \in 1 .. Len(u \o b),
         LastMention(u \o b, p, c, m)
  PROVE  LastIn(u, b, p, c, m)
<1>1. Len(u) \in Nat /\ Len(b) \in Nat /\ Len(u \o b) = Len(u) + Len(b)
  BY Joined
<1>2. CASE m <= Len(u)
  <2>1. m \in 1 .. Len(u)
    BY <1>1, <1>2
  <2>2. Mentions(u, p, c, m)
    BY <2>1, JoinedMentions DEF LastMention
  <2>3. ASSUME NEW j \in 1 .. Len(u), j > m PROVE ~Mentions(u, p, c, j)
    <3>1. j \in 1 .. Len(u \o b)
      BY <1>1
    <3>2. ~Mentions(u \o b, p, c, j)
      BY <2>3, <3>1 DEF LastMention
    <3>3. QED BY <3>2, JoinedMentions
  <2>4. ASSUME NEW j \in 1 .. Len(b) PROVE ~Mentions(b, "none", c, j)
    <3>1. Len(u) + j \in 1 .. Len(u \o b) /\ Len(u) + j > m
      BY <1>1, <2>1
    <3>2. ~Mentions(u \o b, p, c, Len(u) + j)
      BY <3>1 DEF LastMention
    <3>3. QED BY <3>2, JoinedMentions
  <2>5. QED BY <2>1, <2>2, <2>3, <2>4 DEF LastMention, LastIn
<1>3. CASE m > Len(u)
  <2>1. PICK i \in 1 .. Len(b) : m = Len(u) + i
    <3>1. m - Len(u) \in 1 .. Len(b) /\ m = Len(u) + (m - Len(u))
      BY <1>1, <1>3
    <3>2. QED BY <3>1
  <2>2. Mentions(b, "none", c, i)
    BY <2>1, JoinedMentions DEF LastMention
  <2>3. ASSUME NEW j \in 1 .. Len(b), j > i PROVE ~Mentions(b, "none", c, j)
    <3>1. Len(u) + j \in 1 .. Len(u \o b) /\ Len(u) + j > m
      BY <1>1, <2>1, <2>3
    <3>2. ~Mentions(u \o b, p, c, Len(u) + j)
      BY <3>1 DEF LastMention
    <3>3. QED BY <3>2, JoinedMentions
  <2>4. QED BY <2>1, <2>2, <2>3 DEF LastMention, LastIn
<1>4. QED BY <1>1, <1>2, <1>3

\* Leads composes.
LEMMA JoinedLeads ==
  ASSUME NEW u \in Seq(Bytes), NEW b \in Seq(Bytes), NEW p, Paired(u),
         u = <<>> => p = "none",
         NEW new, NEW mid, NEW old, Leads(u, p, mid, old), Leads(b, "none", new, mid)
  PROVE  Leads(u \o b, p, new, old)
<1>1. Len(u) \in Nat /\ Len(b) \in Nat /\ Len(u \o b) = Len(u) + Len(b)
  BY Joined
<1>2. ASSUME NEW c \in Ctrl, NEW m \in 1 .. Len(u \o b), LastMention(u \o b, p, c, m)
      PROVE  c \in new <=> Presses(u \o b, p, c, m)
  <2>1. CASE /\ m \in 1 .. Len(u) /\ LastMention(u, p, c, m)
             /\ \A j \in 1 .. Len(b) : ~Mentions(b, "none", c, j)
    <3>1. (c \in new <=> c \in mid) /\ (c \in mid <=> Presses(u, p, c, m))
      BY <2>1 DEF Leads, Keeps, Decides
    <3>2. QED BY <2>1, <3>1, JoinedMentions
  <2>2. ASSUME NEW i \in 1 .. Len(b), m = Len(u) + i, LastMention(b, "none", c, i)
        PROVE  c \in new <=> Presses(u \o b, p, c, m)
    <3>1. c \in new <=> Presses(b, "none", c, i)
      BY <2>2 DEF Leads, Decides
    <3>2. QED BY <2>2, <3>1, JoinedMentions
  <2>3. LastIn(u, b, p, c, m)
    BY <1>2, JoinedLast
  <2>4. QED BY <2>1, <2>2, <2>3 DEF LastIn
<1>3. ASSUME NEW c \in Ctrl, \A m \in 1 .. Len(u \o b) : ~Mentions(u \o b, p, c, m)
      PROVE  c \in new <=> c \in old
  <2>1. \A m \in 1 .. Len(u) : ~Mentions(u, p, c, m)
    BY <1>1, <1>3, JoinedMentions
  <2>2. ASSUME NEW m \in 1 .. Len(b) PROVE ~Mentions(b, "none", c, m)
    <3>1. Len(u) + m \in 1 .. Len(u \o b)
      BY <1>1
    <3>2. QED BY <1>3, <3>1, JoinedMentions
  <2>3. QED BY <2>1, <2>2 DEF Leads, Keeps
<1>4. QED BY <1>2, <1>3 DEF Leads, Decides, Keeps

\* What follows an idle beat does not depend on what came before it.
LEMMA SuffixAfterIdle ==
  ASSUME NEW u \in Seq(Bytes), NEW l \in Nat, l <= Len(u), NEW p, NEW q, NEW new,
         LeadsAfterIdle(u, p, new)
  PROVE  LeadsAfterIdle(SubSeq(u, l + 1, Len(u)), q, new)
<1> DEFINE s == SubSeq(u, l + 1, Len(u))
<1> HIDE DEF s
<1>1. /\ s \in Seq(Bytes) /\ Len(u) \in Nat /\ Len(s) = Len(u) - l
      /\ \A i \in 1 .. Len(s) : s[i] = u[l + i] /\ l + i \in 1 .. Len(u)
  BY Suffix DEF s
<1>2. "idle" \notin Ctrl
  BY PanelAssumption DEF Codes
<1>3. ASSUME NEW i \in 1 .. Len(s), i # 1
      PROVE  Prv(s, q, i) = Prv(u, p, l + i)
  <2>1. i - 1 \in 1 .. Len(s) /\ l + i # 1 /\ l + i - 1 = l + (i - 1)
    BY <1>1, <1>3
  <2>2. s[i - 1] = u[l + (i - 1)]
    BY <1>1, <2>1
  <2>3. QED BY <1>3, <2>1, <2>2 DEF Prv
<1>4. ASSUME NEW c \in Ctrl, NEW m \in 1 .. Len(s), LastMention(s, q, c, m),
             NEW k \in 1 .. m, s[k] = "idle"
      PROVE  c \in new <=> Presses(s, q, c, m)
  <2>1. /\ s[m] = u[l + m] /\ l + m \in 1 .. Len(u)
        /\ k \in 1 .. Len(s) /\ l + k \in 1 .. l + m /\ u[l + k] = "idle"
    BY <1>1, <1>4
  <2>2. ASSUME NEW j \in 1 .. Len(s), j # 1 \/ s[j] = "idle"
        PROVE  Mentions(s, q, c, j) <=> Mentions(u, p, c, l + j)
    BY <1>1, <1>3, <2>2 DEF Mentions
  <2>3. m # 1 \/ s[m] = "idle"
    BY <1>4
  <2>4. Mentions(u, p, c, l + m)
    BY <1>4, <2>2, <2>3 DEF LastMention
  <2>5. ASSUME NEW j \in 1 .. Len(u), j > l + m PROVE ~Mentions(u, p, c, j)
    <3>1. j - l \in 1 .. Len(s) /\ j - l # 1 /\ j - l > m /\ j = l + (j - l)
      BY <1>1, <2>5
    <3>2. ~Mentions(s, q, c, j - l)
      BY <1>4, <3>1 DEF LastMention
    <3>3. QED BY <2>2, <3>1, <3>2
  <2>6. LastMention(u, p, c, l + m)
    BY <2>4, <2>5 DEF LastMention
  <2>7. c \in new <=> Presses(u, p, c, l + m)
    BY <2>1, <2>6 DEF LeadsAfterIdle
  <2>8. Presses(s, q, c, m) <=> Presses(u, p, c, l + m)
    <3>1. CASE m # 1
      BY <1>3, <2>1, <3>1 DEF Presses
    <3>2. CASE s[m] = "idle"
      BY <1>2, <2>1, <3>2 DEF Presses
    <3>3. QED BY <2>3, <3>1, <3>2
  <2>9. QED BY <2>7, <2>8
<1>5. QED BY <1>4 DEF LeadsAfterIdle, s

LEMMA JoinedAfterIdle ==
  ASSUME NEW u \in Seq(Bytes), NEW b \in Seq(Bytes), NEW p, Paired(u),
         NEW new, NEW mid, LeadsAfterIdle(u, p, mid), Leads(b, "none", new, mid)
  PROVE  LeadsAfterIdle(u \o b, p, new)
<1>1. CASE u = <<>>
  <2>1. LeadsAfterIdle(b, "none", new)
    BY DEF Leads, Decides, LeadsAfterIdle
  <2>2. u \o b = SubSeq(b, 0 + 1, Len(b)) /\ 0 \in Nat /\ 0 <= Len(b)
    BY <1>1
  <2>3. QED BY <2>1, <2>2, SuffixAfterIdle
<1>2. CASE u # <<>>
  <2>1. ASSUME NEW c \in Ctrl, NEW m \in 1 .. Len(u \o b), LastMention(u \o b, p, c, m),
               NEW k \in 1 .. m, (u \o b)[k] = "idle"
        PROVE  c \in new <=> Presses(u \o b, p, c, m)
    <3>1. CASE /\ m \in 1 .. Len(u) /\ LastMention(u, p, c, m)
               /\ \A j \in 1 .. Len(b) : ~Mentions(b, "none", c, j)
      <4>1. k \in 1 .. Len(u)
        BY <3>1
      <4>2. u[k] = "idle"
        BY <2>1, <4>1, Joined
      <4>3. c \in mid <=> Presses(u, p, c, m)
        BY <3>1, <4>2 DEF LeadsAfterIdle
      <4>4. c \in new <=> c \in mid
        BY <3>1 DEF Leads, Keeps
      <4>5. QED BY <1>2, <3>1, <4>3, <4>4, JoinedMentions
    <3>2. ASSUME NEW i \in 1 .. Len(b), m = Len(u) + i, LastMention(b, "none", c, i)
          PROVE  c \in new <=> Presses(u \o b, p, c, m)
      <4>1. c \in new <=> Presses(b, "none", c, i)
        BY <3>2 DEF Leads, Decides
      <4>2. QED BY <1>2, <3>2, <4>1, JoinedMentions
    <3>3. LastIn(u, b, p, c, m)
      BY <1>2, <2>1, JoinedLast
    <3>4. QED BY <3>1, <3>2, <3>3 DEF LastIn
  <2>2. QED BY <2>1 DEF LeadsAfterIdle
<1>3. QED BY <1>1, <1>2

-----------------------------------------------------------------------------
(* Paired of joins and of suffixes.                                        *)

LEMMA JoinedPaired ==
  ASSUME NEW u \in Seq(Bytes), NEW b \in Seq(Bytes), Paired(u), Paired(b)
  PROVE  Paired(u \o b)
<1>1. Len(u) \in Nat /\ Len(b) \in Nat /\ Len(u \o b) = Len(u) + Len(b)
  BY Joined
<1>2. ASSUME NEW i \in 1 .. Len(u \o b), (u \o b)[i] \in {"off", "ver"}
      PROVE  i < Len(u \o b) /\ (u \o b)[i + 1] \in Ctrl
  <2>1. CASE i <= Len(u)
    <3>1. i \in 1 .. Len(u) /\ u[i] = (u \o b)[i]
      BY <1>1, <2>1, Joined
    <3>2. i < Len(u) /\ u[i + 1] \in Ctrl
      BY <1>2, <3>1 DEF Paired
    <3>3. i + 1 \in 1 .. Len(u)
      BY <1>1, <3>2
    <3>4. QED BY <1>1, <3>2, <3>3, Joined
  <2>2. CASE i > Len(u)
    <3>1. PICK j \in 1 .. Len(b) : i = Len(u) + j
      <4>1. i - Len(u) \in 1 .. Len(b) /\ i = Len(u) + (i - Len(u))
        BY <1>1, <2>2
      <4>2. QED BY <4>1
    <3>2. b[j] = (u \o b)[i]
      BY <3>1, Joined
    <3>3. j < Len(b) /\ b[j + 1] \in Ctrl
      BY <1>2, <3>2 DEF Paired
    <3>4. j + 1 \in 1 .. Len(b) /\ i + 1 = Len(u) + (j + 1)
      BY <1>1, <3>1, <3>3
    <3>5. (u \o b)[i + 1] = b[j + 1]
      BY <3>4, Joined
    <3>6. QED BY <1>1, <3>1, <3>3, <3>5
  <2>3. QED BY <1>1, <2>1, <2>2
<1>3. QED BY <1>2 DEF Paired

LEMMA SuffixPaired ==
  ASSUME NEW u \in Seq(Bytes), NEW l \in Nat, l <= Len(u), Paired(u)
  PROVE  Paired(SubSeq(u, l + 1, Len(u)))
<1> DEFINE s == SubSeq(u, l + 1, Len(u))
<1> HIDE DEF s
<1>1. /\ Len(u) \in Nat /\ Len(s) = Len(u) - l
      /\ \A i \in 1 .. Len(s) : s[i] = u[l + i] /\ l + i \in 1 .. Len(u)
  BY Suffix DEF s
<1>2. ASSUME NEW i \in 1 .. Len(s), s[i] \in {"off", "ver"}
      PROVE  i < Len(s) /\ s[i + 1] \in Ctrl
  <2>1. l + i < Len(u) /\ u[l + i + 1] \in Ctrl
    BY <1>1, <1>2 DEF Paired
  <2>2. i + 1 \in 1 .. Len(s) /\ l + (i + 1) = l + i + 1
    BY <1>1, <2>1
  <2>3. QED BY <1>1, <2>1, <2>2
<1>3. QED BY <1>2 DEF Paired, s

-----------------------------------------------------------------------------
(* The bytes one handler pushes lead from what was held to what is held.   *)

LEMMA Codewise ==
  /\ Ctrl \subseteq Bytes /\ Codes \subseteq Bytes
  /\ \A x \in Codes : x \notin Ctrl
BY PanelAssumption DEF Bytes

\* No byte, or a byte that is neither a control nor a prefix.
LEMMA QuietBlock ==
  ASSUME NEW h, NEW b, b = <<>> \/ b = <<"select">> \/ b = <<"deselect">>
  PROVE  b \in Seq(Bytes) /\ Paired(b) /\ Leads(b, "none", h, h)
<1>1. b \in Seq(Bytes)
  <2>1. "select" \in Bytes /\ "deselect" \in Bytes
    BY Codewise DEF Codes
  <2>2. <<>> \in Seq(Bytes) /\ <<"select">> \in Seq(Bytes) /\ <<"deselect">> \in Seq(Bytes)
    BY <2>1
  <2>3. QED BY <2>2
<1>2. \A i \in 1 .. Len(b) : b[i] \in {"select", "deselect"}
  OBVIOUS
<1>3. \A c \in Ctrl, i \in 1 .. Len(b) : ~Mentions(b, "none", c, i)
  BY <1>2, Codewise DEF Mentions, Codes
<1>4. QED BY <1>1, <1>2, <1>3 DEF Paired, Leads, Decides, Keeps, LastMention

LEMMA VersionBlock ==
  ASSUME NEW h
  PROVE  LET b == <<"ver", VerByte>>
         IN  b \in Seq(Bytes) /\ Paired(b) /\ Leads(b, "none", h, h)
<1> DEFINE b == <<"ver", VerByte>>
<1>1. /\ b \in Seq(Bytes) /\ Len(b) = 2 /\ b[1] = "ver" /\ b[2] = VerByte
      /\ VerByte \in Ctrl
  BY Codewise, PanelAssumption DEF Codes
<1> HIDE DEF b
<1>2. Paired(b)
  BY <1>1, Codewise DEF Paired, Codes
<1>3. ASSUME NEW c \in Ctrl, NEW i \in 1 .. Len(b) PROVE ~Mentions(b, "none", c, i)
  <2>1. i = 1 \/ i = 2
    BY <1>1
  <2>2. CASE i = 1
    BY <1>1, <2>2, Codewise DEF Mentions, Codes
  <2>3. CASE i = 2
    BY <1>1, <2>3, Codewise DEF Mentions, Prv, Codes
  <2>4. QED BY <2>1, <2>2, <2>3
<1>4. Leads(b, "none", h, h)
  BY <1>3 DEF Leads, Decides, Keeps, LastMention
<1>5. QED BY <1>1, <1>2, <1>4 DEF b

LEMMA IdleBlock ==
  ASSUME NEW h
  PROVE  <<"idle">> \in Seq(Bytes) /\ Paired(<<"idle">>) /\ Leads(<<"idle">>, "none", {}, h)
<1> DEFINE b == <<"idle">>
<1>1. b \in Seq(Bytes) /\ Len(b) = 1 /\ b[1] = "idle"
  BY Codewise DEF Codes
<1> HIDE DEF b
<1>2. \A c \in Ctrl, i \in 1 .. Len(b) :
         i = 1 /\ Mentions(b, "none", c, i) /\ ~Presses(b, "none", c, i)
  BY <1>1, Codewise DEF Mentions, Presses, Codes
<1>3. 1 \in 1 .. Len(b)
  BY <1>1
<1>4. Leads(b, "none", {}, h)
  BY <1>2, <1>3 DEF Leads, Decides, Keeps
<1>5. QED BY <1>1, <1>4 DEF Paired, b

LEMMA PressBlock ==
  ASSUME NEW h, NEW cs \in Seq(Ctrl)
  PROVE  cs \in Seq(Bytes) /\ Paired(cs) /\ Leads(cs, "none", h \cup Elems(cs), h)
<1>1. /\ DOMAIN cs = 1 .. Len(cs) /\ Len(cs) \in Nat
      /\ \A i \in 1 .. Len(cs) : cs[i] \in Ctrl
  OBVIOUS
<1>2. cs \in Seq(Bytes)
  BY Codewise
<1>3. \A i \in 1 .. Len(cs) : cs[i] \notin Codes
  BY <1>1, Codewise
<1>4. Paired(cs)
  BY <1>3 DEF Paired, Codes
<1>5. \A i \in 1 .. Len(cs) : Prv(cs, "none", i) \notin {"off", "ver"}
  <2>1. ASSUME NEW i \in 1 .. Len(cs) PROVE Prv(cs, "none", i) \notin {"off", "ver"}
    <3>1. CASE i = 1
      BY <3>1 DEF Prv
    <3>2. CASE i # 1
      <4>1. i - 1 \in 1 .. Len(cs)
        BY <1>1, <3>2
      <4>2. QED BY <1>3, <3>2, <4>1 DEF Prv, Codes
    <3>3. QED BY <3>1, <3>2
  <2>2. QED BY <2>1
<1>6. \A c \in Ctrl, i \in 1 .. Len(cs) :
         /\ Mentions(cs, "none", c, i) <=> cs[i] = c
         /\ Presses(cs, "none", c, i) <=> cs[i] = c
  BY <1>3, <1>5 DEF Mentions, Presses, Codes
<1>7. Decides(cs, "none", h \cup Elems(cs))
  BY <1>1, <1>6 DEF Decides, LastMention, Elems
<1>8. Keeps(cs, "none", h \cup Elems(cs), h)
  BY <1>1, <1>6 DEF Keeps, Elems
<1>9. QED BY <1>2, <1>4, <1>7, <1>8 DEF Leads

LEMMA ReleaseBlock ==
  ASSUME NEW h, NEW cs \in Seq(Ctrl)
  PROVE  LET b == ReleaseBytes(cs)
         IN  b \in Seq(Bytes) /\ Paired(b) /\ Leads(b, "none", h \ Elems(cs), h)
<1> DEFINE b == ReleaseBytes(cs)
           n == Len(cs)
<1>1. /\ DOMAIN cs = 1 .. n /\ n \in Nat
      /\ \A i \in 1 .. n : cs[i] \in Ctrl
  OBVIOUS
<1>2. b = [i \in 1 .. 2 * n |-> IF i % 2 = 1 THEN "off" ELSE cs[i \div 2]]
  BY DEF ReleaseBytes
<1> HIDE DEF b, n
<1>3. \A i \in 1 .. 2 * n :
         \/ /\ i % 2 = 1 /\ i + 1 \in 1 .. 2 * n /\ (i + 1) % 2 = 0
            /\ (i + 1) \div 2 \in 1 .. n
         \/ /\ i % 2 = 0 /\ i # 1 /\ i - 1 \in 1 .. 2 * n /\ (i - 1) % 2 = 1
            /\ i \div 2 \in 1 .. n
  BY <1>1
<1>4. b \in [1 .. 2 * n -> Bytes] /\ 2 * n \in Nat
  BY <1>1, <1>2, <1>3, Codewise DEF Codes
<1>5. b \in Seq(Bytes) /\ Len(b) = 2 * n
  BY <1>4
<1>6. \A i \in 1 .. 2 * n :
         \/ b[i] = "off" /\ i < 2 * n /\ b[i + 1] \in Ctrl
         \/ /\ i # 1 /\ b[i - 1] = "off"
            /\ i \div 2 \in 1 .. n /\ b[i] = cs[i \div 2]
  BY <1>1, <1>2, <1>3
<1>7. Paired(b)
  BY <1>1, <1>5, <1>6, Codewise DEF Paired, Codes
<1>8. ASSUME NEW c \in Ctrl, NEW i \in 1 .. Len(b), Mentions(b, "none", c, i)
      PROVE  c \in Elems(cs) /\ ~Presses(b, "none", c, i)
  <2>1. b[i] # "off" /\ b[i] = c
    BY <1>1, <1>5, <1>6, <1>8, Codewise DEF Mentions, Codes
  <2>2. i # 1 /\ b[i - 1] = "off" /\ i \div 2 \in 1 .. n /\ b[i] = cs[i \div 2]
    BY <1>5, <1>6, <2>1
  <2>3. QED BY <1>1, <2>1, <2>2 DEF Presses, Prv, Elems
<1>9. ASSUME NEW c \in Elems(cs)
      PROVE  \E i \in 1 .. Len(b) : Mentions(b, "none", c, i)
  <2>1. PICK j \in 1 .. n : cs[j] = c
    BY <1>1 DEF Elems
  <2>2. 2 * j \in 1 .. 2 * n /\ (2 * j) % 2 = 0 /\ (2 * j) \div 2 = j /\ 2 * j # 1
        /\ 2 * j - 1 \in 1 .. 2 * n /\ (2 * j - 1) % 2 = 1
    BY <1>1
  <2>3. b[2 * j] = c /\ b[2 * j - 1] = "off"
    BY <1>2, <2>1, <2>2
  <2>4. Mentions(b, "none", c, 2 * j)
    BY <2>2, <2>3 DEF Mentions, Prv
  <2>5. QED BY <1>5, <2>2, <2>4
<1>10. Leads(b, "none", h \ Elems(cs), h)
  BY <1>8, <1>9 DEF Leads, Decides, Keeps, LastMention
<1>11. QED BY <1>5, <1>7, <1>10 DEF b

-----------------------------------------------------------------------------
\* What a lap skips is no more than there is.
LEMMA LapBelow ==
  ASSUME NEW n \in Nat, NEW r \in Nat \ {0}
  PROVE  (n \div r) * r \in Nat /\ (n \div r) * r <= n
<1>1. n \div r \in Int /\ r * (n \div r) <= n /\ n < r * (n \div r) + r
  BY Z3
<1>2. n \div r >= 0
  OBVIOUS
<1> DEFINE d == n \div r
<1> HIDE DEF d
<1>3. d \in Nat /\ r \in Nat /\ r * d <= n
  BY <1>1, <1>2 DEF d
<1>4. QED BY <1>3 DEF d

\* Any push of bytes that tell the change of held keeps the view.
LEMMA PushView ==
  ASSUME VInv, NEW b \in Seq(Bytes), Paired(b), Push(b),
         Leads(b, "none", held', held), held' \subseteq Ctrl,
         UNCHANGED <<rxArmed, pressed, prefix>>
  PROVE  unread' \in Seq(Bytes) /\ lost' \in BOOLEAN /\ View'
<1> USE DEF VInv, ViewTypes
<1>1. lost' \in BOOLEAN
  BY DEF Push
<1>2. CASE ~rxArmed
  <2>1. unread = <<>> /\ unread' = <<>> /\ unread' \in Seq(Bytes)
    BY <1>2 DEF View, Push
  <2>2. Paired(<<>>) /\ \A p, h : LeadsAfterIdle(<<>>, p, h)
    BY DEF Paired, LeadsAfterIdle
  <2>3. ASSUME ~lost'
        PROVE  Leads(unread, prefix, held', pressed) /\ prefix = "none"
    <3>1. b = <<>> /\ ~lost
      BY <1>2, <2>3 DEF Push
    <3>2. \A c \in Ctrl : c \in held' <=> c \in held
      BY <3>1 DEF Leads, Keeps
    <3>3. held' = held
      BY <3>2
    <3>4. QED BY <2>1, <3>1, <3>3 DEF View
  <2>4. QED BY <1>1, <2>1, <2>2, <2>3 DEF View
<1>3. CASE rxArmed
  <2> DEFINE all == unread \o b
             lap == (Len(all) \div RxSize) * RxSize
             s == SubSeq(all, lap + 1, Len(all))
  <2>1. all \in Seq(Bytes) /\ Len(all) \in Nat
    BY Joined
  <2>2. lap \in Nat /\ lap <= Len(all)
    <3>1. RxSize \in Nat \ {0}
      BY PanelAssumption
    <3> HIDE DEF all
    <3>2. QED BY <2>1, <3>1, LapBelow
  <2>3. unread' = s /\ lost' = (lost \/ lap > 0)
    BY <1>3 DEF Push
  <2>4. LeadsAfterIdle(all, prefix, held') /\ Paired(all)
    BY JoinedAfterIdle, JoinedPaired DEF View
  <2> HIDE DEF lap
  <2>5. LeadsAfterIdle(s, prefix, held') /\ Paired(s) /\ s \in Seq(Bytes)
    BY <2>1, <2>2, <2>4, SuffixAfterIdle, SuffixPaired, Suffix
  <2>6. ASSUME ~lost'
        PROVE  /\ Leads(s, prefix, held', pressed)
               /\ prefix # "none" => (s # <<>> /\ s[1] \in Ctrl)
    <3>1. ~lost /\ s = all
      <4>0. ~(lost \/ lap > 0)
        BY <2>3, <2>6
      <4>1. ~lost /\ lap = 0
        BY <2>2, <4>0
      <4>2. SubSeq(all, 1, Len(all)) = all
        BY <2>1
      <4>3. QED BY <4>1, <4>2
    <3>2. Leads(all, prefix, held', pressed)
      BY <3>1, JoinedLeads DEF View
    <3>3. ASSUME prefix # "none" PROVE all # <<>> /\ all[1] \in Ctrl
      <4>1. unread # <<>> /\ unread[1] \in Ctrl
        BY <3>1, <3>3 DEF View
      <4>2. QED BY <4>1
    <3>4. QED BY <3>1, <3>2, <3>3
  <2> HIDE DEF s
  <2>7. QED BY <1>1, <1>3, <2>3, <2>5, <2>6 DEF View
<1>4. QED BY <1>2, <1>3

\* The same for a step that leaves the host input's own controls alone.
LEMMA PushKeeps ==
  ASSUME VInv, NEW b \in Seq(Bytes), Paired(b), Push(b),
         Leads(b, "none", held', held), held' \subseteq Ctrl,
         UNCHANGED <<rxArmed, pressed, prefix>>,
         ptr' \in Ctrl \cup {None}, latched' \in Seq(Ctrl)
  PROVE  VInv'
BY PushView DEF VInv, ViewTypes

\* Releases and presses of one handler.
LEMMA SendEventsKeeps ==
  ASSUME VInv, NEW ups \in Seq(Ctrl), NEW downs \in Seq(Ctrl), SendEvents(ups, downs),
         ptr' \in Ctrl \cup {None}, latched' \in Seq(Ctrl)
  PROVE  VInv'
<1> DEFINE r == ReleaseBytes(ups)
           mid == held \ Elems(ups)
<1>1. Push(r \o downs) /\ held' = mid \cup Elems(downs)
      /\ UNCHANGED <<rxArmed, pressed, prefix>>
  BY DEF SendEvents, fwInput
<1>2. r \in Seq(Bytes) /\ Paired(r) /\ Leads(r, "none", mid, held)
  BY ReleaseBlock
<1>3. downs \in Seq(Bytes) /\ Paired(downs) /\ Leads(downs, "none", held', mid)
  BY <1>1, PressBlock
<1> HIDE DEF r, mid
<1>4. r \o downs \in Seq(Bytes) /\ Paired(r \o downs)
  BY <1>2, <1>3, Joined, JoinedPaired
<1>5. Leads(r \o downs, "none", held', held)
  BY <1>2, <1>3, JoinedLeads
<1>6. held' \subseteq Ctrl
  BY <1>1 DEF mid, Elems, VInv, ViewTypes
<1>7. QED BY <1>1, <1>4, <1>5, <1>6, PushKeeps

-----------------------------------------------------------------------------
(* Reading a byte.                                                         *)

LEMMA TailAt ==
  ASSUME NEW u \in Seq(Bytes), u # <<>>
  PROVE  /\ Head(u) = u[1] /\ u[1] \in Bytes
         /\ Tail(u) = SubSeq(u, 2, Len(u)) /\ Tail(u) \in Seq(Bytes)
         /\ Len(u) \in Nat /\ Len(u) >= 1 /\ Len(Tail(u)) = Len(u) - 1
         /\ \A i \in 1 .. Len(u) - 1 : Tail(u)[i] = u[i + 1]
OBVIOUS

\* q is the prefix that remains after the first byte of u.
Remains(u, q) == \A x \in {"off", "ver"} : q = x <=> u[1] = x

LEMMA TailMentions ==
  ASSUME NEW u \in Seq(Bytes), u # <<>>, NEW p, NEW q, Remains(u, q), NEW c \in Ctrl
  PROVE  \A m \in 1 .. Len(Tail(u)) :
            /\ Mentions(Tail(u), q, c, m) <=> Mentions(u, p, c, m + 1)
            /\ Presses(Tail(u), q, c, m) <=> Presses(u, p, c, m + 1)
            /\ LastMention(Tail(u), q, c, m) <=> LastMention(u, p, c, m + 1)
<1> DEFINE t == Tail(u)
<1> HIDE DEF t
<1>1. /\ Len(u) \in Nat /\ Len(t) = Len(u) - 1
      /\ \A i \in 1 .. Len(t) : t[i] = u[i + 1] /\ i + 1 \in 1 .. Len(u)
  BY TailAt DEF t
<1>2. ASSUME NEW m \in 1 .. Len(t), NEW x \in {"off", "ver"}
      PROVE  Prv(t, q, m) = x <=> Prv(u, p, m + 1) = x
  <2>1. CASE m = 1
    BY <2>1 DEF Remains, Prv
  <2>2. CASE m # 1
    <3>1. m - 1 \in 1 .. Len(t) /\ m - 1 + 1 = m /\ m + 1 - 1 = m /\ m + 1 # 1
      BY <1>1, <2>2
    <3>2. t[m - 1] = u[m]
      BY <1>1, <3>1
    <3>3. QED BY <2>2, <3>1, <3>2 DEF Prv
  <2>3. QED BY <2>1, <2>2
<1>3. ASSUME NEW m \in 1 .. Len(t)
      PROVE  /\ Mentions(t, q, c, m) <=> Mentions(u, p, c, m + 1)
             /\ Presses(t, q, c, m) <=> Presses(u, p, c, m + 1)
  <2>1. /\ Prv(t, q, m) = "ver" <=> Prv(u, p, m + 1) = "ver"
        /\ Prv(t, q, m) = "off" <=> Prv(u, p, m + 1) = "off"
    BY <1>2
  <2>2. QED BY <1>1, <2>1 DEF Mentions, Presses
<1>4. ASSUME NEW m \in 1 .. Len(t)
      PROVE  LastMention(t, q, c, m) <=> LastMention(u, p, c, m + 1)
  <2>1. ASSUME LastMention(t, q, c, m), NEW j \in 1 .. Len(u), j > m + 1
        PROVE  ~Mentions(u, p, c, j)
    <3>1. j - 1 \in 1 .. Len(t) /\ j - 1 > m /\ j - 1 + 1 = j
      BY <1>1, <2>1
    <3>2. ~Mentions(t, q, c, j - 1)
      BY <2>1, <3>1 DEF LastMention
    <3>3. QED BY <1>3, <3>1, <3>2
  <2>2. ASSUME LastMention(u, p, c, m + 1), NEW j \in 1 .. Len(t), j > m
        PROVE  ~Mentions(t, q, c, j)
    <3>1. j + 1 \in 1 .. Len(u) /\ j + 1 > m + 1
      BY <1>1, <2>2
    <3>2. ~Mentions(u, p, c, j + 1)
      BY <2>2, <3>1 DEF LastMention
    <3>3. QED BY <1>3, <3>2
  <2>3. QED BY <1>3, <2>1, <2>2 DEF LastMention
<1>5. QED BY <1>3, <1>4 DEF t

\* A control the rest does not mention is last mentioned by the first byte.
LEMMA FirstIsLast ==
  ASSUME NEW u \in Seq(Bytes), u # <<>>, NEW p, NEW q, Remains(u, q), NEW c \in Ctrl,
         \A m \in 1 .. Len(Tail(u)) : ~Mentions(Tail(u), q, c, m)
  PROVE  \A j \in 1 .. Len(u) : j > 1 => ~Mentions(u, p, c, j)
<1>1. ASSUME NEW j \in 1 .. Len(u), j > 1 PROVE ~Mentions(u, p, c, j)
  <2>1. j - 1 \in 1 .. Len(Tail(u)) /\ j - 1 + 1 = j
    BY <1>1, TailAt
  <2>2. ~Mentions(Tail(u), q, c, j - 1)
    BY <2>1
  <2>3. Mentions(Tail(u), q, c, j - 1) <=> Mentions(u, p, c, j - 1 + 1)
    BY <2>1, TailMentions
  <2>4. QED BY <2>1, <2>2, <2>3
<1>2. QED BY <1>1

\* What the rest leads to is decided by the whole.
LEMMA TailDecides ==
  ASSUME NEW u \in Seq(Bytes), u # <<>>, NEW p, NEW q, Remains(u, q), NEW new,
         Decides(u, p, new) \/ (LeadsAfterIdle(u, p, new) /\ u[1] = "idle")
  PROVE  Decides(Tail(u), q, new)
<1>1. ASSUME NEW c \in Ctrl, NEW m \in 1 .. Len(Tail(u)), LastMention(Tail(u), q, c, m)
      PROVE  c \in new <=> Presses(Tail(u), q, c, m)
  <2>1. m + 1 \in 1 .. Len(u) /\ 1 \in 1 .. m + 1
    BY TailAt
  <2>2. LastMention(u, p, c, m + 1)
    BY <1>1, TailMentions
  <2>3. c \in new <=> Presses(u, p, c, m + 1)
    BY <2>1, <2>2 DEF Decides, LeadsAfterIdle
  <2>4. QED BY <2>3, TailMentions
<1>2. QED BY <1>1 DEF Decides

\* The idle beat: all is forgotten, and what follows tells what is held.
LEMMA TailOfIdle ==
  ASSUME NEW u \in Seq(Bytes), u # <<>>, u[1] = "idle", NEW p, p # "ver", NEW new,
         LeadsAfterIdle(u, p, new)
  PROVE  Leads(Tail(u), "none", new, {})
<1>1. Remains(u, "none")
  BY DEF Remains
<1>2. Decides(Tail(u), "none", new)
  BY <1>1, TailDecides
<1>3. ASSUME NEW c \in Ctrl, \A m \in 1 .. Len(Tail(u)) : ~Mentions(Tail(u), "none", c, m)
      PROVE  c \notin new
  <2>1. 1 \in 1 .. Len(u) /\ 1 \in 1 .. 1
    BY TailAt
  <2>2. LastMention(u, p, c, 1)
    <3>1. Mentions(u, p, c, 1)
      BY DEF Mentions
    <3>2. QED BY <1>1, <1>3, <3>1, FirstIsLast DEF LastMention
  <2>3. c \in new <=> Presses(u, p, c, 1)
    BY <2>1, <2>2 DEF LeadsAfterIdle
  <2>4. QED BY <2>3, Codewise DEF Presses, Codes
<1>4. QED BY <1>2, <1>3 DEF Leads, Keeps

LEMMA ReadKeeps ==
  ASSUME VInv, FwRead, UNCHANGED <<ptr, latched>>
  PROVE  VInv'
<1> USE DEF VInv, ViewTypes
<1> DEFINE u == unread
           t == Tail(unread)
           claimed == prefix = "ver"
           idle == ~claimed /\ u[1] = "idle"
<1>1. /\ u \in Seq(Bytes) /\ u # <<>> /\ unread' = t
      /\ u[1] \in Bytes /\ Head(unread) = u[1]
      /\ t = SubSeq(u, 1 + 1, Len(u)) /\ t \in Seq(Bytes)
      /\ Len(u) \in Nat /\ Len(u) >= 1 /\ Len(t) = Len(u) - 1
      /\ \A i \in 1 .. Len(t) : t[i] = u[i + 1]
  BY TailAt DEF FwRead
<1>2. /\ pressed' = IF idle THEN {}
                    ELSE IF claimed \/ u[1] \notin Ctrl THEN pressed
                    ELSE IF prefix = "off" THEN pressed \ {u[1]}
                    ELSE pressed \cup {u[1]}
      /\ prefix' = IF ~claimed /\ u[1] \in {"off", "ver"} THEN u[1] ELSE "none"
      /\ lost' = (lost /\ ~idle)
      /\ held' = held /\ rxArmed' = rxArmed
  BY <1>1 DEF FwRead, picVars
<1> HIDE DEF u, t
<1>3. rxArmed
  BY <1>1 DEF View, u
<1>4. Paired(u) /\ LeadsAfterIdle(u, prefix, held)
  BY DEF View, u
<1>5. Paired(t) /\ LeadsAfterIdle(t, prefix', held)
  BY <1>1, <1>4, SuffixPaired, SuffixAfterIdle
<1>6. prefix' # "none" => (t # <<>> /\ t[1] \in Ctrl)
  <2>1. SUFFICES ASSUME u[1] \in {"off", "ver"} PROVE t # <<>> /\ t[1] \in Ctrl
    BY <1>2
  <2>2. 1 < Len(u) /\ u[1 + 1] \in Ctrl
    BY <1>1, <1>4, <2>1 DEF Paired
  <2>3. Len(t) >= 1
    BY <1>1, <2>2
  <2>4. t[1] = u[1 + 1]
    BY <1>1, <2>3
  <2>5. t # <<>>
    BY <2>3
  <2>6. QED BY <2>2, <2>4, <2>5
<1>7. ASSUME ~lost' PROVE Leads(t, prefix', held, pressed')
  <2>1. CASE idle
    <3>1. prefix' = "none" /\ pressed' = {} /\ prefix # "ver" /\ u[1] = "idle"
      BY <1>2, <2>1
    <3>2. QED BY <1>1, <1>4, <3>1, TailOfIdle DEF t, u
  <2>2. CASE ~idle
    <3>1. ~lost
      BY <1>2, <1>7, <2>2
    <3>2. /\ Decides(u, prefix, held) /\ Keeps(u, prefix, held, pressed)
          /\ prefix # "none" => u[1] \in Ctrl
      BY <3>1 DEF View, Leads, u
    <3>3. Remains(u, prefix')
      BY <1>2, <3>2, Codewise DEF Remains, Codes
    <3>4. Decides(t, prefix', held)
      BY <1>1, <3>2, <3>3, TailDecides DEF t, u
    <3>5. ASSUME NEW c \in Ctrl, \A m \in 1 .. Len(t) : ~Mentions(t, prefix', c, m)
          PROVE  c \in held <=> c \in pressed'
      <4>1. \A j \in 1 .. Len(u) : j > 1 => ~Mentions(u, prefix, c, j)
        BY <1>1, <3>3, <3>5, FirstIsLast DEF t, u
      <4>2. 1 \in 1 .. Len(u)
        BY <1>1
      <4>3. Mentions(u, prefix, c, 1) <=> (u[1] = c /\ ~claimed)
        BY <2>2, <3>2, Codewise DEF Mentions, Prv, Codes
      <4>4. CASE u[1] = c /\ ~claimed
        <5>1. LastMention(u, prefix, c, 1)
          BY <4>1, <4>3, <4>4 DEF LastMention
        <5>2. c \in held <=> prefix # "off"
          BY <3>2, <4>2, <4>4, <5>1 DEF Decides, Presses, Prv
        <5>3. c \in pressed' <=> prefix # "off"
          BY <1>2, <2>2, <4>4
        <5>4. QED BY <5>2, <5>3
      <4>5. CASE ~(u[1] = c /\ ~claimed)
        <5>1. \A j \in 1 .. Len(u) : ~Mentions(u, prefix, c, j)
          BY <4>1, <4>2, <4>3, <4>5
        <5>2. c \in held <=> c \in pressed
          BY <3>2, <5>1 DEF Keeps
        <5>3. c \in pressed' <=> c \in pressed
          BY <1>2, <2>2, <4>5
        <5>4. QED BY <5>2, <5>3
      <4>6. QED BY <4>4, <4>5
    <3>6. QED BY <3>4, <3>5 DEF Leads, Keeps
  <2>3. QED BY <2>1, <2>2
<1>8. /\ prefix' \in {"none", "off", "ver"} /\ lost' \in BOOLEAN
      /\ pressed' \subseteq Ctrl
  BY <1>2
<1>9. View'
  BY <1>1, <1>2, <1>3, <1>5, <1>6, <1>7 DEF View
<1>10. QED BY <1>1, <1>2, <1>8, <1>9

-----------------------------------------------------------------------------
LEMMA EmptyView ==
  ASSUME NEW p, NEW h
  PROVE  Paired(<<>>) /\ LeadsAfterIdle(<<>>, p, h) /\ Leads(<<>>, p, h, h)
BY DEF Paired, LeadsAfterIdle, Leads, Decides, Keeps

LEMMA ViewInit == Init => VInv
<1> SUFFICES ASSUME Init PROVE VInv
  OBVIOUS
<1>1. /\ held = {} /\ pressed = {} /\ unread = <<>> /\ prefix = "none"
      /\ lost = FALSE /\ ptr = None /\ latched = <<>>
  BY DEF Init, PanelInit, InputInit
<1>2. ViewTypes
  <2>1. <<>> \in Seq(Ctrl) /\ <<>> \in Seq(Bytes)
    OBVIOUS
  <2>2. QED BY <1>1, <2>1 DEF ViewTypes
<1>3. View
  BY <1>1, EmptyView DEF View
<1>4. QED BY <1>2, <1>3 DEF VInv

LEMMA ResetKeeps ==
  ASSUME VInv, GuestReset, UNCHANGED <<ptr, latched>>
  PROVE  VInv'
<1>1. /\ unread' = <<>> /\ pressed' = {} /\ prefix' = "none"
      /\ lost' = (held # {}) /\ held' = held
  BY DEF GuestReset, picVars
<1>2. ViewTypes'
  BY <1>1 DEF VInv, ViewTypes
<1>3. View'
  BY <1>1, EmptyView DEF View
<1>4. QED BY <1>2, <1>3 DEF VInv

\* A step that changes nothing the view speaks of.
LEMMA StillKeeps ==
  ASSUME VInv, UNCHANGED <<held, pressed, unread, prefix, lost, ptr, latched>>,
         rxArmed => rxArmed'
  PROVE  VInv'
<1>1. ViewTypes' BY DEF VInv, ViewTypes
<1>2. View' BY DEF VInv, View
<1>3. QED BY <1>1, <1>2 DEF VInv

LEMMA DeviceKeeps ==
  ASSUME VInv, Device
  PROVE  VInv'
<1>1. UNCHANGED <<ptr, latched>>
  BY DEF Device, inputVars
<1>2. CASE Heartbeat
  <2>1. /\ held = {} /\ held' = {} /\ Push(<<"idle">>)
        /\ UNCHANGED <<rxArmed, pressed, prefix>>
    BY <1>2 DEF Heartbeat, picVars, fwInput
  <2>2. ptr' \in Ctrl \cup {None} /\ latched' \in Seq(Ctrl)
    BY <1>1 DEF VInv, ViewTypes
  <2>3. QED BY <2>1, <2>2, IdleBlock, PushKeeps
<1>3. CASE FwRead
  BY <1>1, <1>3, ReadKeeps
<1>4. CASE FwArm
  BY <1>1, <1>4, StillKeeps DEF FwArm, picVars, fwInput
<1>5. CASE GuestReset
  BY <1>1, <1>5, ResetKeeps
<1>6. QED BY <1>2, <1>3, <1>4, <1>5 DEF Device

LEMMA SendKeeps ==
  ASSUME VInv, NEW b \in Cmds, Send(b)
  PROVE  VInv'
<1>1. /\ Push(IF frame = 0 THEN Answer(b) ELSE <<>>)
      /\ UNCHANGED <<held, rxArmed, pressed, prefix, ptr, latched>>
  BY DEF Send, FwSend, RxByte, inputVars, fwInput
<1>2. held' \subseteq Ctrl /\ ptr' \in Ctrl \cup {None} /\ latched' \in Seq(Ctrl)
  BY <1>1 DEF VInv, ViewTypes
<1> DEFINE a == IF frame = 0 THEN Answer(b) ELSE <<>>
<1>3. a \in {<<>>, <<"select">>, <<"deselect">>, <<"ver", VerByte>>}
  BY DEF Answer
<1>4. a \in Seq(Bytes) /\ Paired(a) /\ Leads(a, "none", held, held)
  BY <1>3, QuietBlock, VersionBlock
<1>5. QED BY <1>1, <1>2, <1>4, PushKeeps

LEMMA StillHeldSeq ==
  ASSUME VInv
  PROVE  StillHeld \in Seq(Ctrl)
<1>1. ptr \in Ctrl => <<ptr>> \in Seq(Ctrl)
  OBVIOUS
<1>2. <<>> \in Seq(Ctrl)
  OBVIOUS
<1>3. QED BY <1>1, <1>2 DEF StillHeld, VInv, ViewTypes

LEMMA KeyboardKeeps ==
  ASSUME VInv, Keyboard
  PROVE  VInv'
<1>1. ptr \in Ctrl \cup {None} /\ latched \in Seq(Ctrl) /\ <<>> \in Seq(Ctrl)
  BY DEF VInv, ViewTypes
<1>2. ASSUME NEW k \in Key, KeyDown(k) \/ KeyUp(k) PROVE VInv'
  <2>1. <<Binding[k]>> \in Seq(Ctrl)
    BY InputAssumption
  <2>2. /\ SendEvents(<<>>, <<Binding[k]>>) \/ SendEvents(<<Binding[k]>>, <<>>)
        /\ UNCHANGED <<ptr, latched>>
    BY <1>2 DEF KeyDown, KeyUp, pointVars
  <2>3. QED BY <1>1, <2>1, <2>2, SendEventsKeeps
<1>3. CASE LatchDown
  BY <1>3, StillKeeps
     DEF LatchDown, panelVars, picVars, ringVars, fwInput, pointVars
<1>4. CASE LatchUp
  <2>1. SendEvents(latched, <<>>) /\ ptr' = ptr /\ latched' = <<>>
    BY <1>4 DEF LatchUp, pointVars
  <2>2. QED BY <1>1, <2>1, SendEventsKeeps
<1>5. QED BY <1>2, <1>3, <1>4 DEF Keyboard

LEMMA ReleaseNowKeeps ==
  ASSUME VInv, ReleaseNow, UNCHANGED latched
  PROVE  VInv'
<1>1. ptr' \in Ctrl \cup {None} /\ latched' \in Seq(Ctrl) /\ <<>> \in Seq(Ctrl)
  BY DEF ReleaseNow, VInv, ViewTypes
<1>2. QED BY <1>1, StillHeldSeq, SendEventsKeeps DEF ReleaseNow

LEMMA PointerKeeps ==
  ASSUME VInv, Pointer
  PROVE  VInv'
<1>1. /\ latched \in Seq(Ctrl) /\ <<>> \in Seq(Ctrl)
      /\ StillHeld \in Seq(Ctrl)
  BY StillHeldSeq DEF VInv, ViewTypes
<1>2. ASSUME NEW c \in Ctrl, Press(c) PROVE VInv'
  <2>1. <<c>> \in Seq(Ctrl) /\ SendEvents(StillHeld, <<c>>)
        /\ ptr' \in Ctrl \cup {None} /\ latched' = latched
    BY <1>2 DEF Press
  <2>2. QED BY <1>1, <2>1, SendEventsKeeps
<1>3. ASSUME NEW c \in Ctrl, PressLatch(c) PROVE VInv'
  <2>1. ptr' \in Ctrl \cup {None} /\ <<c>> \in Seq(Ctrl) /\ Append(StillHeld, c) \in Seq(Ctrl)
    BY <1>1, <1>3 DEF PressLatch
  <2>2. ASSUME NEW i \in DOMAIN latched, latched' = Unlatch(i) PROVE latched' \in Seq(Ctrl)
    BY <1>1, <2>2, UnlatchKeeps
  <2>3. CASE \E i \in DOMAIN latched :
               SendEvents(Append(StillHeld, c), <<>>) /\ latched' = Unlatch(i)
    BY <1>1, <2>1, <2>2, <2>3, SendEventsKeeps
  <2>4. CASE SendEvents(StillHeld, <<c>>) /\ latched' = Append(latched, c)
    <3>1. latched' \in Seq(Ctrl)
      BY <1>1, <2>4
    <3>2. QED BY <1>1, <2>1, <2>4, <3>1, SendEventsKeeps
  <2>5. CASE SendEvents(StillHeld, <<>>) /\ UNCHANGED latched
    BY <1>1, <2>1, <2>5, SendEventsKeeps
  <2>6. QED BY <1>3, <2>3, <2>4, <2>5 DEF PressLatch
<1>4. ASSUME NEW triangle \in BOOLEAN, PressElsewhere(triangle) PROVE VInv'
  <2>1. SendEvents(StillHeld, <<>>) /\ ptr' \in Ctrl \cup {None} /\ latched' = latched
    BY <1>4 DEF PressElsewhere
  <2>2. QED BY <1>1, <2>1, SendEventsKeeps
<1>5. CASE Release
  <2>1. CASE ReleaseNow
    BY <1>5, <2>1, ReleaseNowKeeps DEF Release
  <2>2. CASE UNCHANGED <<panelVars, ptr, latched>>
    BY <2>2, StillKeeps DEF panelVars, picVars, ringVars, fwInput
  <2>3. QED BY <1>5, <2>1, <2>2 DEF Release, pointVars
<1>6. QED BY <1>2, <1>3, <1>4, <1>5 DEF Pointer

LEMMA ViewStep == VInv /\ [Next]_vars => VInv'
<1> SUFFICES ASSUME VInv, [Next]_vars PROVE VInv'
  OBVIOUS
<1>1. CASE Keyboard BY <1>1, KeyboardKeeps
<1>2. CASE Pointer BY <1>2, PointerKeeps
<1>3. CASE ReleaseTimer BY <1>3, ReleaseNowKeeps DEF ReleaseTimer
<1>4. CASE Tick \/ UNCHANGED vars
  BY <1>4, StillKeeps
     DEF Tick, vars, inputVars, pointVars, panelVars, picVars, ringVars, fwInput
<1>5. CASE Device BY <1>5, DeviceKeeps
<1>6. ASSUME NEW b \in Cmds, Send(b) PROVE VInv' BY <1>6, SendKeeps
<1>7. QED BY <1>1, <1>2, <1>3, <1>4, <1>5, <1>6 DEF Next

-----------------------------------------------------------------------------
(* The firmware takes for pressed exactly what the panel holds, once it    *)
(* has read all and an idle beat has healed what was lost.                 *)
THEOREM ViewRight == Spec => []ViewAgrees
<1>1. VInv => ViewAgrees
  <2> SUFFICES ASSUME VInv, unread = <<>>, ~lost PROVE pressed = held
    BY DEF ViewAgrees
  <2>1. Keeps(<<>>, prefix, held, pressed)
    BY DEF VInv, View, Leads
  <2>2. 1 .. Len(<<>>) = {}
    OBVIOUS
  <2>3. \A c \in Ctrl : c \in held <=> c \in pressed
    BY <2>1, <2>2, Zenon DEF Keeps
  <2>4. QED BY <2>3 DEF VInv, ViewTypes
<1>2. QED BY ViewInit, ViewStep, <1>1, PTL DEF Spec

-----------------------------------------------------------------------------
(* The select line.  Neither end of the link sends lengths: that they agree*)
(* on it rests on both counting the same payload.  A reset of the machine  *)
(* reaches the firmware and not the coprocessor, so what they count parts  *)
(* if it falls within a payload, and not before.                           *)

Codeword == {"none", "select", "deselect"}

Framed ==
  /\ frame \in Nat /\ await \in Codeword /\ told \in Codeword
  /\ ~cut => /\ frame = sending
             /\ await # "none" => selected = (await = "select")
             /\ SelectAgrees

LEMMA FramedInit == Init => Framed
BY DEF Init, PanelInit, Framed, Codeword, SelectAgrees

\* A command is taken for one at both ends, or for payload at both.
LEMMA FramedSend ==
  ASSUME Framed, NEW b \in Cmds, FwSend(b)
  PROVE  Framed'
<1>1. /\ await = "none" /\ UNCHANGED <<told, cut>>
      /\ frame' = IF frame > 0 THEN frame - 1 ELSE PayloadLen(b)
      /\ sending' = IF sending > 0 THEN sending - 1 ELSE PayloadLen(b)
      /\ selected' = IF frame = 0 /\ b \in {"select", "deselect"}
                     THEN b = "select" ELSE selected
      /\ await' = IF sending = 0 /\ b \in {"select", "deselect"} THEN b ELSE "none"
  BY DEF FwSend, RxByte
<1>2. PayloadLen(b) \in Nat
  BY PanelAssumption DEF PayloadLen
<1>3. frame' \in Nat /\ await' \in Codeword /\ told' \in Codeword
  BY <1>1, <1>2 DEF Framed, Codeword
<1>4. ASSUME ~cut
      PROVE  /\ frame' = sending'
             /\ await' # "none" => selected' = (await' = "select")
             /\ SelectAgrees'
  <2>1. frame = sending /\ frame \in Nat
    BY <1>4 DEF Framed
  <2>2. CASE frame = 0 /\ b \in {"select", "deselect"}
    <3>1. await' = b /\ selected' = (b = "select") /\ b # "none"
      BY <1>1, <2>1, <2>2
    <3>2. frame' = sending'
      BY <1>1, <2>1
    <3> QED BY <3>1, <3>2 DEF SelectAgrees
  <2>3. CASE ~(frame = 0 /\ b \in {"select", "deselect"})
    <3>1. await' = "none" /\ selected' = selected
      BY <1>1, <2>1, <2>3
    <3>2. frame' = sending'
      BY <1>1, <2>1
    <3> QED BY <1>1, <1>4, <3>1, <3>2 DEF Framed, SelectAgrees
  <2> QED BY <2>2, <2>3
<1> QED BY <1>1, <1>3, <1>4 DEF Framed

LEMMA FramedRead ==
  ASSUME Framed, FwRead
  PROVE  Framed'
<1>1. /\ UNCHANGED <<frame, selected, sending, cut>>
      /\ \/ await' = "none" /\ told' = await
         \/ UNCHANGED <<await, told>>
  BY DEF FwRead, picVars
<1> QED BY <1>1 DEF Framed, Codeword, SelectAgrees

LEMMA FramedReset ==
  ASSUME Framed, GuestReset
  PROVE  Framed'
BY DEF Framed, Codeword, SelectAgrees, GuestReset, picVars

\* Nothing else touches the commands or their echoes.
LEMMA FramedKept ==
  ASSUME Framed, UNCHANGED <<frame, selected, fwOutput, cut>>
  PROVE  Framed'
BY DEF Framed, Codeword, SelectAgrees, fwOutput

LEMMA FramedStep == Framed /\ [Next]_vars => Framed'
<1> SUFFICES ASSUME Framed, [Next]_vars PROVE Framed'
  OBVIOUS
<1> DEFINE Quiet == UNCHANGED <<frame, selected, fwOutput, cut>>
<1>1. Keyboard => Quiet
  BY DEF Keyboard, LatchDown, LatchUp, KeyDown, KeyUp, SendEvents, panelVars, picVars
<1>2. Pointer => Quiet
  BY DEF Pointer, Press, PressLatch, PressElsewhere, Release, ReleaseNow, SendEvents, panelVars,
         picVars
<1>3. ReleaseTimer \/ Tick => Quiet
  BY DEF ReleaseTimer, Tick, ReleaseNow, SendEvents, panelVars, picVars
<1>4. Heartbeat \/ FwArm \/ UNCHANGED vars => Quiet
  BY DEF Heartbeat, FwArm, vars, panelVars, picVars
<1> QED BY <1>1, <1>2, <1>3, <1>4, FramedKept, FramedSend, FramedRead, FramedReset
        DEF Next, Device, Send

(* What the firmware was told of the select line is its state, although    *)
(* commands carry no length and any byte may be payload                    *)
(* (deluge_pic_rx_byte, deluge_pic_dispatch).                              *)
THEOREM SelectKnown == Spec => []SelectAgrees
<1>1. Framed => SelectAgrees
  BY DEF Framed, SelectAgrees
<1> QED BY <1>1, FramedInit, FramedStep, PTL DEF Spec
=============================================================================
