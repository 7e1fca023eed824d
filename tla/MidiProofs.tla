----------------------------- MODULE MidiProofs -----------------------------
(***************************************************************************)
(* The way of MIDI bytes between the emulator and the host's ports, for    *)
(* any statuses, data, SysEx lengths and buffer size, wherever the sender  *)
(* leaves out a status, puts real-time bytes, loses bytes or is restarted: *)
(*   - the bridge's parser emits each message with its last byte and       *)
(*     nothing else (MessagesHeard);                                       *)
(*   - the device's framing and the way back change nothing of that, and   *)
(*     only whole messages come out (StreamWhole).                         *)
(* And the bridge's connections are its own, for any number of transports  *)
(* and descriptors (NoConnectionLost).                                     *)
(***************************************************************************)
EXTENDS MCMidi, FiniteSetTheorems, SequenceTheorems, TLAPS

\* The first n bytes of the message being sent, and those the bridge keeps.
Prefix(n) == [i \in 1 .. n |-> cur[i]]
KeptPrefix(n) == [i \in 1 .. Room(n) |-> cur[i]]

IsShort(m) ==
  /\ m[1] \in Status /\ Len(m) = 1 + midi_data_len(m[1])
  /\ \A i \in 2 .. Len(m) : m[i] \in DataByte
IsSysex(m) ==
  /\ m[1] = SysexStart /\ Len(m) >= 2 /\ m[Len(m)] = SysexEnd
  /\ \A i \in 2 .. Len(m) - 1 : m[i] \in DataByte

Running(status) == IF status \in Voice THEN status ELSE 0

\* Where the sender is.
Sending ==
  /\ cur # <<>> =>
       /\ cur \in Seq(0 .. 255) /\ (IsShort(cur) \/ IsSysex(cur))
       /\ pos \in 0 .. Len(cur) - 1 /\ runs = Running(cur[1])
  /\ cur = <<>> => runs \in {0} \cup Voice

\* Within a message that came in from its first byte, or between two of which
\* the second may leave out its status, the parser is where the sender is.
InShort ==
  heard /\ cur # <<>> /\ pos > 0 /\ IsShort(cur) =>
    bridge = [running |-> Running(cur[1]), msg |-> Prefix(pos), sysex |-> <<>>]
InSysex ==
  heard /\ cur # <<>> /\ pos > 0 /\ IsSysex(cur) =>
    bridge = [running |-> 0, msg |-> <<>>, sysex |-> KeptPrefix(pos)]
Between ==
  heard /\ cur = <<>> /\ runs # 0 =>
    bridge = [running |-> runs, msg |-> <<runs>>, sysex |-> <<>>]

Inv == Sending /\ InShort /\ InSysex /\ Between /\ BridgeHears

-----------------------------------------------------------------------------
\* What the messages of the sender look like (midi_data_len).
LEMMA Lengths ==
  \A s : midi_data_len(s) \in 0 .. 2 /\ (s \in Voice => midi_data_len(s) > 0)
  BY DEF midi_data_len, Voice

LEMMA Arranged ==
  ASSUME NEW n \in Nat, NEW d \in [1 .. n -> DataByte]
  PROVE  d \in Seq(0 .. 255) /\ Len(d) = n
<1>1. d \in [1 .. n -> 0 .. 255]
  BY DEF DataByte
<1> HIDE DEF DataByte
<1> QED BY <1>1

LEMMA Shapes ==
  ASSUME NEW m \in Message
  PROVE  m \in Seq(0 .. 255) /\ m # <<>> /\ (IsShort(m) \/ IsSysex(m))
<1> USE StreamAssumption
<1>1. CASE m \in ShortMessage
  <2>0. PICK s \in Statuses : m \in {<<s>> \o d : d \in [1 .. midi_data_len(s) -> Data]}
    BY <1>1 DEF ShortMessage
  <2>1. PICK d \in [1 .. midi_data_len(s) -> Data] : m = <<s>> \o d
    BY <2>0
  <2>2. midi_data_len(s) \in Nat
    BY Lengths
  <2>3. s \in Status /\ s \in 0 .. 255 /\ d \in [1 .. midi_data_len(s) -> DataByte]
    BY DEF Status, SysexStart
  <2>4. d \in Seq(0 .. 255) /\ Len(d) = midi_data_len(s) /\ <<s>> \in Seq(0 .. 255)
    <3>1. d \in [1 .. midi_data_len(s) -> DataByte]
      BY <2>3
    <3>2. d \in Seq(0 .. 255) /\ Len(d) = midi_data_len(s)
      BY <2>2, <3>1, Arranged
    <3> QED BY <2>3, <3>2
  <2>5. m \in Seq(0 .. 255) /\ Len(m) = 1 + midi_data_len(s) /\ m[1] = s
    BY <2>1, <2>4
  <2>6. ASSUME NEW i \in 2 .. Len(m) PROVE m[i] \in DataByte
    <3>1. m[i] = d[i - 1] /\ i - 1 \in 1 .. midi_data_len(s)
      BY <2>1, <2>2, <2>4, <2>5
    <3> QED BY <3>1, <2>3
  <2>7. m # <<>>
    BY <2>2, <2>5
  <2> QED BY <2>3, <2>5, <2>6, <2>7 DEF IsShort
<1>2. CASE m \in Sysex
  <2>0. PICK n \in 0 .. MaxSysex :
          m \in {<<SysexStart>> \o d \o <<SysexEnd>> : d \in [1 .. n -> Data]}
    BY <1>2 DEF Sysex
  <2>1. PICK d \in [1 .. n -> Data] : m = <<SysexStart>> \o d \o <<SysexEnd>>
    BY <2>0
  <2>2. n \in Nat /\ d \in [1 .. n -> DataByte]
    OBVIOUS
  <2>3. d \in Seq(0 .. 255) /\ Len(d) = n
    BY <2>2, Arranged
  <2>4. /\ <<SysexStart>> \in Seq(0 .. 255) /\ Len(<<SysexStart>>) = 1
        /\ <<SysexEnd>> \in Seq(0 .. 255) /\ Len(<<SysexEnd>>) = 1
    BY DEF SysexStart, SysexEnd
  <2> DEFINE head == <<SysexStart>> \o d
  <2>5. head \in Seq(0 .. 255) /\ Len(head) = n + 1 /\ head[1] = SysexStart
    BY <2>2, <2>3, <2>4
  <2>6. \A i \in 2 .. n + 1 : head[i] = d[i - 1]
    BY <2>2, <2>3, <2>4
  <2>7. m = head \o <<SysexEnd>>
    BY <2>1
  <2> HIDE DEF head
  <2>8. m \in Seq(0 .. 255) /\ Len(m) = n + 2
    BY <2>2, <2>4, <2>5, <2>7
  <2>9. m[1] = SysexStart /\ m[Len(m)] = SysexEnd
    BY <2>2, <2>4, <2>5, <2>7, <2>8
  <2>10. ASSUME NEW i \in 2 .. Len(m) - 1 PROVE m[i] \in DataByte
    <3>1. m[i] = head[i]
      BY <2>2, <2>4, <2>5, <2>7, <2>8
    <3>2. i - 1 \in 1 .. n /\ head[i] = d[i - 1]
      BY <2>2, <2>6, <2>8
    <3> QED BY <3>1, <3>2, <2>2
  <2>11. m # <<>>
    BY <2>2, <2>8
  <2> QED BY <2>2, <2>8, <2>9, <2>10, <2>11 DEF IsSysex
<1> QED BY <1>1, <1>2 DEF Message

-----------------------------------------------------------------------------
(* The parser, by kind of byte.                                            *)

LEMMA FeedsRealTime ==
  ASSUME NEW p, NEW b \in RealTime
  PROVE  midi_parser_feed(p, b) = Stepped(p, <<<<b>>>>)
<1>1. /\ b # SysexStart /\ b # SysexEnd /\ b \notin Status /\ b \notin DataByte
  BY DEF RealTime, SysexStart, SysexEnd, Status, DataByte
<1> QED BY <1>1, Zenon DEF midi_parser_feed

LEMMA FeedsStart ==
  ASSUME NEW p, NEW b, b = SysexStart
  PROVE  midi_parser_feed(p, b) = Stepped([midi_parser_init EXCEPT !.sysex = <<b>>], <<>>)
<1>1. b \notin RealTime /\ b # SysexEnd /\ b \notin Status /\ b \notin DataByte
  BY DEF RealTime, SysexStart, SysexEnd, Status, DataByte
<1> QED BY <1>1, Zenon DEF midi_parser_feed

LEMMA FeedsEnd ==
  ASSUME NEW p, NEW b, b = SysexEnd
  PROVE  midi_parser_feed(p, b) = FeedEnd(p)
<1>1. b \notin RealTime /\ b # SysexStart /\ b \notin Status /\ b \notin DataByte
  BY DEF RealTime, SysexStart, SysexEnd, Status, DataByte
<1> QED BY <1>1, Zenon DEF midi_parser_feed

LEMMA FeedsStatus ==
  ASSUME NEW p, NEW b \in Status
  PROVE  midi_parser_feed(p, b) = FeedStatus(p, b)
<1>1. b \notin RealTime /\ b # SysexStart /\ b # SysexEnd /\ b \notin DataByte
  BY DEF RealTime, SysexStart, SysexEnd, Status, DataByte
<1> QED BY <1>1, Zenon DEF midi_parser_feed

LEMMA FeedsSysexData ==
  ASSUME NEW p, NEW b \in DataByte, p.sysex # <<>>
  PROVE  midi_parser_feed(p, b) = Stepped([p EXCEPT !.sysex = Kept(@, b)], <<>>)
<1>1. b \notin RealTime /\ b # SysexStart /\ b # SysexEnd /\ b \notin Status
  BY DEF RealTime, SysexStart, SysexEnd, Status, DataByte
<1> QED BY <1>1, Zenon DEF midi_parser_feed

LEMMA FeedsData ==
  ASSUME NEW p, NEW b \in DataByte, p.sysex = <<>>
  PROVE  midi_parser_feed(p, b) = FeedData(p, b)
<1>1. b \notin RealTime /\ b # SysexStart /\ b # SysexEnd /\ b \notin Status
  BY DEF RealTime, SysexStart, SysexEnd, Status, DataByte
<1> QED BY <1>1, Zenon DEF midi_parser_feed

\* Prefixes of a sequence, and one with the next element appended.
LEMMA Prefixes ==
  ASSUME NEW S, NEW c \in Seq(S), NEW n \in 0 .. Len(c)
  PROVE  [i \in 1 .. n |-> c[i]] \in Seq(S) /\ Len([i \in 1 .. n |-> c[i]]) = n
<1>1. \A i \in 1 .. n : c[i] \in S
  OBVIOUS
<1> QED BY <1>1

LEMMA Appended ==
  ASSUME NEW S, NEW c \in Seq(S), NEW n \in Nat, n + 1 <= Len(c)
  PROVE  Append([i \in 1 .. n |-> c[i]], c[n + 1]) = [i \in 1 .. n + 1 |-> c[i]]
  BY Prefixes

\* So grow the message in progress and, as far as there is room, the SysEx.
LEMMA Grow ==
  ASSUME cur \in Seq(0 .. 255), NEW n \in Nat, n + 1 <= Len(cur)
  PROVE  /\ Len(Prefix(n)) = n
         /\ Append(Prefix(n), cur[n + 1]) = Prefix(n + 1)
         /\ Kept(KeptPrefix(n), cur[n + 1]) = KeptPrefix(n + 1)
<1> USE FramingAssumption
<1>1. Len(Prefix(n)) = n
  BY Prefixes DEF Prefix
<1>2. Append(Prefix(n), cur[n + 1]) = Prefix(n + 1)
  BY Appended DEF Prefix
<1>3. Len(KeptPrefix(n)) = Room(n)
  <2>1. Room(n) \in 0 .. Len(cur)
    BY DEF Room
  <2> QED BY <2>1, Prefixes DEF KeptPrefix
<1>4. CASE n < MIDI_MAX_MSG
  <2>1. Room(n) = n /\ Room(n + 1) = n + 1
    BY <1>4 DEF Room
  <2>2. KeptPrefix(n) = Prefix(n) /\ KeptPrefix(n + 1) = Prefix(n + 1)
    BY <2>1 DEF KeptPrefix, Prefix
  <2>3. Kept(KeptPrefix(n), cur[n + 1]) = Append(KeptPrefix(n), cur[n + 1])
    BY <1>3, <1>4, <2>1 DEF Kept
  <2> QED BY <1>1, <1>2, <2>2, <2>3
<1>5. CASE ~(n < MIDI_MAX_MSG)
  <2>1. Room(n) = MIDI_MAX_MSG /\ Room(n + 1) = MIDI_MAX_MSG
    BY <1>5 DEF Room
  <2>2. KeptPrefix(n + 1) = KeptPrefix(n)
    BY <2>1 DEF KeptPrefix
  <2>3. Kept(KeptPrefix(n), cur[n + 1]) = KeptPrefix(n)
    BY <1>3, <2>1 DEF Kept
  <2> QED BY <1>1, <1>2, <2>2, <2>3
<1> QED BY <1>4, <1>5

-----------------------------------------------------------------------------
(* The next byte of a message, as a parser of the bridge takes it.  Each     *)
(* lemma says what it makes of the byte in the place it has in its message. *)

\* What a step that takes the byte leaves behind.
Follows(p, n) ==
  LET after == midi_parser_feed(p, cur[n + 1])
  IN  IF n + 1 = Len(cur)
      THEN /\ after.out = <<Cut(cur)>>
           /\ cur[1] \in Voice =>
                after.state = [running |-> cur[1], msg |-> <<cur[1]>>, sysex |-> <<>>]
      ELSE /\ after.out = <<>>
           /\ IsShort(cur) => after.state =
                [running |-> Running(cur[1]), msg |-> Prefix(n + 1), sysex |-> <<>>]
           /\ IsSysex(cur) => after.state =
                [running |-> 0, msg |-> <<>>, sysex |-> KeptPrefix(n + 1)]

\* A message is one or the other.
LEMMA Either ==
  ASSUME cur \in Seq(0 .. 255), cur # <<>>
  PROVE  ~ (IsShort(cur) /\ IsSysex(cur))
  BY DEF IsShort, IsSysex, Status

\* A message and a prefix of all its bytes.
LEMMA All ==
  ASSUME cur \in Seq(0 .. 255), cur # <<>>
  PROVE  /\ Prefix(Len(cur)) = cur /\ KeptPrefix(Len(cur)) = Cut(cur)
         /\ Len(cur) <= MIDI_MAX_MSG => Cut(cur) = cur
         /\ Prefix(1) = <<cur[1]>> /\ KeptPrefix(1) = <<cur[1]>>
<1> USE FramingAssumption
<1>1. Len(cur) \in Nat /\ Len(cur) > 0 /\ Room(1) = 1
  BY DEF Room
<1>2. Prefix(Len(cur)) = cur
  BY DEF Prefix
<1>3. KeptPrefix(Len(cur)) = Cut(cur)
  BY DEF KeptPrefix, Cut
<1>4. Len(cur) <= MIDI_MAX_MSG => Cut(cur) = cur
  <2>1. Len(cur) <= MIDI_MAX_MSG => Room(Len(cur)) = Len(cur)
    BY <1>1 DEF Room
  <2> QED BY <2>1 DEF Cut
<1>5. Prefix(1) = <<cur[1]>> /\ KeptPrefix(1) = <<cur[1]>>
  BY <1>1 DEF Prefix, KeptPrefix
<1> QED BY <1>2, <1>3, <1>4, <1>5

LEMMA Runs ==
  ASSUME NEW status
  PROVE  /\ status \in Voice => Running(status) = status /\ status # 0
         /\ Running(status) \in {0} \cup Voice
  BY DEF Running, Voice

LEMMA FirstOfShort ==
  ASSUME NEW p, cur \in Seq(0 .. 255), cur # <<>>, IsShort(cur)
  PROVE  Follows(p, 0)
<1> DEFINE b == cur[1]
<1>1. b \in Status /\ Len(cur) = 1 + midi_data_len(b) /\ midi_data_len(b) \in 0 .. 2
  BY Lengths DEF IsShort
<1>2. midi_parser_feed(p, cur[0 + 1]) = FeedStatus(p, b)
  BY <1>1, FeedsStatus
<1>3. ~ IsSysex(cur)
  BY Either
<1>4. CASE midi_data_len(b) = 0
  <2>1. 0 + 1 = Len(cur) /\ b \notin Voice
    BY <1>1, <1>4, Lengths
  <2>2. Cut(cur) = <<b>>
    <3>1. Len(cur) = 1 /\ Len(cur) <= MIDI_MAX_MSG
      BY <1>1, <1>4, FramingAssumption
    <3>2. Cut(cur) = cur /\ Prefix(Len(cur)) = cur /\ Prefix(1) = <<b>>
      BY <3>1, All
    <3> QED BY <3>1, <3>2
  <2>3. midi_parser_feed(p, cur[0 + 1]).out = <<<<b>>>>
    BY <1>2, <1>4 DEF FeedStatus, Stepped
  <2> QED BY <2>1, <2>2, <2>3 DEF Follows
<1>5. CASE midi_data_len(b) # 0
  <2>1. 0 + 1 # Len(cur)
    BY <1>1, <1>5
  <2>2. midi_parser_feed(p, cur[0 + 1]) =
          Stepped([running |-> Running(b), msg |-> <<b>>, sysex |-> <<>>], <<>>)
    BY <1>2, <1>5 DEF FeedStatus, Running
  <2>3. Prefix(0 + 1) = <<b>>
    BY All
  <2> QED BY <1>3, <2>1, <2>2, <2>3 DEF Follows, Stepped
<1> QED BY <1>4, <1>5

LEMMA NextOfShort ==
  ASSUME NEW p, cur \in Seq(0 .. 255), cur # <<>>, IsShort(cur), NEW n \in 1 .. Len(cur) - 1,
         p = [running |-> Running(cur[1]), msg |-> Prefix(n), sysex |-> <<>>]
  PROVE  Follows(p, n)
<1> DEFINE b == cur[n + 1]
<1>1. /\ b \in DataByte /\ cur[1] \in Status
      /\ Len(cur) = 1 + midi_data_len(cur[1]) /\ midi_data_len(cur[1]) \in 0 .. 2
  BY Lengths DEF IsShort
<1>2. midi_parser_feed(p, b) = FeedData(p, b)
  BY <1>1, FeedsData
<1>3. ~ IsSysex(cur)
  BY Either
<1>4. Prefix(n) # <<>> /\ Append(Prefix(n), b) = Prefix(n + 1) /\ Len(Prefix(n + 1)) = n + 1
      /\ Prefix(n + 1)[1] = cur[1]
  <2>1. Len(Prefix(n)) = n /\ Append(Prefix(n), b) = Prefix(n + 1)
    BY Grow
  <2>2. Len(Prefix(n + 1)) = n + 1
    BY Prefixes DEF Prefix
  <2>3. Prefix(n + 1)[1] = cur[1]
    BY DEF Prefix
  <2> QED BY <2>1, <2>2, <2>3
<1>5. CASE n + 1 = Len(cur)
  <2>1. Prefix(n + 1) = Cut(cur)
    BY <1>1, <1>5, All, FramingAssumption
  <2>2. ~ (n + 1 <= midi_data_len(cur[1]))
    BY <1>1, <1>5
  <2>3. FeedData(p, b) =
          Stepped([p EXCEPT !.msg = IF p.running # 0 THEN <<p.running>> ELSE <<>>],
                  <<Prefix(n + 1)>>)
    BY <1>4, <2>2 DEF FeedData
  <2>4. cur[1] \in Voice => Running(cur[1]) = cur[1] /\ cur[1] # 0
    BY Runs
  <2> QED BY <1>2, <1>5, <2>1, <2>3, <2>4 DEF Follows, Stepped
<1>6. CASE n + 1 # Len(cur)
  <2>1. n + 1 <= midi_data_len(cur[1])
    BY <1>1, <1>6
  <2>2. FeedData(p, b) = Stepped([p EXCEPT !.msg = Prefix(n + 1)], <<>>)
    BY <1>4, <2>1 DEF FeedData
  <2> QED BY <1>2, <1>3, <1>6, <2>2 DEF Follows, Stepped
<1> QED BY <1>5, <1>6

LEMMA FirstOfSysex ==
  ASSUME NEW p, cur \in Seq(0 .. 255), cur # <<>>, IsSysex(cur)
  PROVE  Follows(p, 0)
<1>1. cur[1] = SysexStart /\ 0 + 1 # Len(cur) /\ ~ IsShort(cur)
  BY Either DEF IsSysex
<1>2. midi_parser_feed(p, cur[0 + 1]) =
        Stepped([midi_parser_init EXCEPT !.sysex = <<cur[1]>>], <<>>)
  BY <1>1, FeedsStart
<1>3. KeptPrefix(0 + 1) = <<cur[1]>>
  BY All
<1> QED BY <1>1, <1>2, <1>3 DEF Follows, Stepped, midi_parser_init

LEMMA NextOfSysex ==
  ASSUME NEW p, cur \in Seq(0 .. 255), cur # <<>>, IsSysex(cur), NEW n \in 1 .. Len(cur) - 1,
         p = [running |-> 0, msg |-> <<>>, sysex |-> KeptPrefix(n)]
  PROVE  Follows(p, n)
<1> DEFINE b == cur[n + 1]
<1>1. ~ IsShort(cur) /\ cur[1] \notin Voice
  BY Either DEF IsSysex, SysexStart, Voice
<1>2. KeptPrefix(n) # <<>> /\ Kept(KeptPrefix(n), b) = KeptPrefix(n + 1)
  <2>1. Room(n) \in 1 .. Len(cur)
    BY FramingAssumption DEF Room
  <2>2. Len(KeptPrefix(n)) = Room(n)
    BY <2>1, Prefixes DEF KeptPrefix
  <2> QED BY <2>1, <2>2, Grow
<1>3. CASE n + 1 = Len(cur)
  <2>1. b = SysexEnd
    BY <1>3 DEF IsSysex
  <2>2. midi_parser_feed(p, b) = FeedEnd(p)
    BY <2>1, FeedsEnd
  <2>3. KeptPrefix(n + 1) = Cut(cur)
    BY <1>3, All
  <2> QED BY <1>1, <1>2, <1>3, <2>1, <2>2, <2>3 DEF Follows, FeedEnd, Stepped
<1>4. CASE n + 1 # Len(cur)
  <2>1. b \in DataByte
    BY <1>4 DEF IsSysex
  <2>2. midi_parser_feed(p, b) = Stepped([p EXCEPT !.sysex = Kept(@, b)], <<>>)
    BY <1>2, <2>1, FeedsSysexData
  <2> QED BY <1>1, <1>2, <1>4, <2>2 DEF Follows, Stepped
<1> QED BY <1>3, <1>4

-----------------------------------------------------------------------------
LEMMA Initially == Init => Inv
  BY DEF Init, Inv, Sending, InShort, InSysex, Between, BridgeHears, Expected

\* The sender's own side of a byte sent or lost.
LEMMA AdvanceStep ==
  ASSUME Sending, Advance
  PROVE  Sending'
<1>1. CASE pos + 1 = Len(cur)
  BY <1>1, Runs DEF Sending, Advance
<1>2. CASE pos + 1 # Len(cur)
  BY <1>2 DEF Sending, Advance, IsShort, IsSysex
<1> QED BY <1>1, <1>2

LEMMA SendStep ==
  ASSUME Inv, Send
  PROVE  Inv'
<1>1. /\ cur # <<>> /\ cur \in Seq(0 .. 255) /\ (IsShort(cur) \/ IsSysex(cur))
      /\ pos \in 0 .. Len(cur) - 1 /\ runs = Running(cur[1])
      /\ Advance /\ heard' = (heard \/ pos = 0)
      /\ bridge' = midi_parser_feed(bridge, cur[pos + 1]).state
      /\ got' = midi_parser_feed(bridge, cur[pos + 1]).out
  BY DEF Inv, Sending, Send, Advance, Arrive
<1>2. Sending'
  BY AdvanceStep DEF Inv, Send
<1>3. CASE ~ heard'
  BY <1>2, <1>3 DEF Inv, InShort, InSysex, Between, BridgeHears
<1>4. CASE heard'
  <2>1. Follows(bridge, pos)
    <3>1. CASE pos = 0
      <4>1. Follows(bridge, 0)
        BY <1>1, FirstOfShort, FirstOfSysex
      <4> QED BY <3>1, <4>1
    <3>2. CASE pos # 0 /\ IsShort(cur)
      <4>0. heard
        BY <1>1, <1>4, <3>2, Zenon
      <4>1. pos > 0 /\ pos \in 1 .. Len(cur) - 1
        BY <1>1, <3>2
      <4>2. bridge = [running |-> Running(cur[1]), msg |-> Prefix(pos), sysex |-> <<>>]
        BY <1>1, <3>2, <4>0, <4>1 DEF Inv, InShort
      <4> QED BY <1>1, <3>2, <4>1, <4>2, NextOfShort
    <3>3. CASE pos # 0 /\ IsSysex(cur)
      <4>0. heard
        BY <1>1, <1>4, <3>3, Zenon
      <4>1. pos > 0 /\ pos \in 1 .. Len(cur) - 1
        BY <1>1, <3>3
      <4>2. bridge = [running |-> 0, msg |-> <<>>, sysex |-> KeptPrefix(pos)]
        BY <1>1, <3>3, <4>0, <4>1 DEF Inv, InSysex
      <4> QED BY <1>1, <3>3, <4>1, <4>2, NextOfSysex
    <3> QED BY <1>1, <3>1, <3>2, <3>3
  <2>2. CASE pos + 1 = Len(cur)
    <3>1. cur' = <<>> /\ sent' = <<cur>> /\ runs' = runs /\ got' = <<Cut(cur)>>
      BY <1>1, <2>1, <2>2 DEF Advance, Follows
    <3>2. Expected' = <<Cut(cur)>>
      BY <3>1 DEF Expected
    <3>3. runs' # 0 => bridge' = [running |-> runs', msg |-> <<runs'>>, sysex |-> <<>>]
      BY <1>1, <2>1, <2>2, <3>1 DEF Follows, Running
    <3> QED BY <1>2, <3>1, <3>2, <3>3 DEF Inv, InShort, InSysex, Between, BridgeHears
  <2>3. CASE pos + 1 # Len(cur)
    <3>1. cur' = cur /\ pos' = pos + 1 /\ sent' = <<>> /\ got' = <<>>
      BY <1>1, <2>1, <2>3 DEF Advance, Follows
    <3>2. Expected' = <<>>
      BY <3>1 DEF Expected
    <3>3. InShort' /\ InSysex'
      BY <1>1, <2>1, <2>3, <3>1 DEF Follows, InShort, InSysex, IsShort, IsSysex, Prefix, KeptPrefix
    <3> QED BY <1>1, <1>2, <3>1, <3>2, <3>3 DEF Inv, Between, BridgeHears
  <2> QED BY <2>2, <2>3
<1> QED BY <1>3, <1>4

LEMMA BeginStep ==
  ASSUME Inv, NEW m \in Message, Begin(m)
  PROVE  Inv'
<1>1. m \in Seq(0 .. 255) /\ m # <<>> /\ (IsShort(m) \/ IsSysex(m)) /\ Len(m) \in Nat \ {0}
  BY Shapes
<1>2. /\ cur = <<>> /\ cur' = m /\ runs' = Running(m[1]) /\ UNCHANGED <<bridge, heard>>
      /\ sent' = <<>> /\ got' = <<>>
      /\ pos' = 0 \/ (m[1] = runs /\ pos' = 1)
  BY DEF Begin, Silent, Running
<1>3. pos' = 1 => runs \in Voice /\ IsShort(m) /\ Len(m) >= 2
  <2>1. SUFFICES ASSUME pos' = 1 PROVE runs \in Voice /\ IsShort(m) /\ Len(m) >= 2
    OBVIOUS
  <2>2. m[1] = runs /\ runs \in {0} \cup Voice
    BY <1>2, <2>1 DEF Inv, Sending
  <2>3. runs # SysexStart /\ 0 \notin Status
    BY <2>2 DEF SysexStart, Voice, Status
  <2>4. IsShort(m) /\ runs \in Voice
    BY <1>1, <2>2, <2>3 DEF IsShort, IsSysex
  <2>5. Len(m) = 1 + midi_data_len(runs) /\ midi_data_len(runs) \in 0 .. 2 /\ midi_data_len(runs) > 0
    BY <2>2, <2>4, Lengths DEF IsShort
  <2> QED BY <2>4, <2>5
<1>4. Sending'
  BY <1>1, <1>2, <1>3 DEF Sending, IsShort, IsSysex
<1>5. InShort'
  <2>1. SUFFICES ASSUME heard', pos' > 0
                 PROVE  bridge' = [running |-> Running(cur'[1]), msg |-> Prefix(pos)', sysex |-> <<>>]
    BY DEF InShort
  <2>2. pos' = 1 /\ m[1] = runs /\ runs \in Voice /\ heard
    BY <1>2, <1>3, <2>1
  <2>3. bridge = [running |-> runs, msg |-> <<runs>>, sysex |-> <<>>]
    BY <1>2, <2>2, Runs DEF Inv, Between
  <2>4. Prefix(pos)' = <<runs>>
    BY <1>2, <2>2 DEF Prefix
  <2> QED BY <1>2, <2>2, <2>3, <2>4, Runs
<1>6. InSysex'
  <2>1. pos' > 0 => ~ IsSysex(m)
    BY <1>2, <1>3 DEF IsShort, IsSysex, Status
  <2> QED BY <1>2, <2>1 DEF InSysex, IsSysex
<1>7. Between' /\ BridgeHears'
  BY <1>1, <1>2 DEF Between, BridgeHears, Expected
<1> QED BY <1>4, <1>5, <1>6, <1>7 DEF Inv

LEMMA RealTimeStep ==
  ASSUME Inv, NEW b \in RealTime, SendRealTime(b)
  PROVE  Inv'
<1>1. bridge' = bridge /\ got' = <<<<b>>>> /\ sent' = <<<<b>>>> /\ UNCHANGED <<cur, pos, runs, heard>>
  BY FeedsRealTime DEF SendRealTime, Arrive, Stepped, sender
<1>2. Room(1) = 1
  BY FramingAssumption DEF Room
<1>3. Cut(<<b>>) = <<b>>
  BY <1>2 DEF Cut
<1>4. Expected' = <<<<b>>>>
  BY <1>1, <1>3 DEF Expected
<1> QED BY <1>1, <1>4 DEF Inv, Sending, InShort, InSysex, Between, BridgeHears,
          IsShort, IsSysex, Prefix, KeptPrefix

LEMMA Preserved == Inv /\ [Next]_vars => Inv'
<1> SUFFICES ASSUME Inv, [Next]_vars PROVE Inv'
  OBVIOUS
<1>1. ASSUME NEW m \in Message, Begin(m) PROVE Inv'
  BY <1>1, BeginStep
<1>2. CASE Send
  BY <1>2, SendStep
<1>3. CASE Lose
  <2>1. Sending' /\ ~ heard'
    BY <1>3, AdvanceStep DEF Lose, Inv
  <2> QED BY <2>1 DEF Inv, InShort, InSysex, Between, BridgeHears
<1>4. ASSUME NEW b \in RealTime, SendRealTime(b) PROVE Inv'
  BY <1>4, RealTimeStep
<1>5. CASE Restart
  BY <1>5 DEF Restart, Silent, Inv, Sending, InShort, InSysex, Between, BridgeHears, Expected
<1>6. CASE RestartBridge
  BY <1>6 DEF RestartBridge, Silent, Inv, Sending, InShort, InSysex, Between, BridgeHears,
              sender, IsShort, IsSysex
<1>7. CASE ResetDevice
  BY <1>7 DEF ResetDevice, Silent, Inv, Sending, InShort, InSysex, Between, BridgeHears,
              Expected, sender, IsShort, IsSysex, Prefix, KeptPrefix
<1>8. CASE UNCHANGED vars
  BY <1>8 DEF vars, Inv, Sending, InShort, InSysex, Between, BridgeHears,
              Expected, sender, IsShort, IsSysex, Prefix, KeptPrefix, Cut
<1> QED BY <1>1, <1>2, <1>3, <1>4, <1>5, <1>6, <1>7, <1>8 DEF Next

\* Where sender and parser are holds in every reachable state.
THEOREM Invariance == Spec => []Inv
  BY Initially, Preserved, PTL DEF Spec

\* BridgeHears: for any statuses, data, SysEx lengths and buffer size, the
\* bridge emits each message it was sent whole, and nothing else.
THEOREM MessagesHeard == Spec => []BridgeHears
<1>1. Inv => BridgeHears
  BY DEF Inv
<1> QED BY <1>1, Invariance, PTL

-----------------------------------------------------------------------------
(* Through the device and back.  A second parser takes what the device      *)
(* sends back, some bytes behind the sender: the device holds them until    *)
(* they fill a packet.                                                      *)

ByteString == Seq(0 .. 255)

\* In progress are a status with fewer data bytes than it has, and a SysEx
\* from its start, neither longer than the buffer.
ParserOK(p) ==
  /\ p \in [running : {0} \cup Voice, msg : ByteString, sysex : ByteString]
  /\ p.msg # <<>> =>
       /\ p.msg[1] \in Status /\ Len(p.msg) <= midi_data_len(p.msg[1])
       /\ \A i \in 2 .. Len(p.msg) : p.msg[i] \in DataByte
  /\ p.sysex # <<>> =>
       /\ p.sysex[1] = SysexStart /\ Len(p.sysex) <= MIDI_MAX_MSG
       /\ \A i \in 2 .. Len(p.sysex) : p.sysex[i] \in DataByte

\* Held are fewer data bytes than the status has, and fewer of a SysEx than
\* fill a packet.
FramerOK(s) ==
  /\ s \in [midi_status : {0} \cup Status, midi_data : Seq(DataByte),
            in_sysex : BOOLEAN, sysex_buf : ByteString]
  /\ s.midi_status # 0 => Len(s.midi_data) < midi_need(s.midi_status)
  /\ Len(s.sysex_buf) <= 2

WholeOut(out) ==
  out \in Seq(ByteString) /\ \A i \in DOMAIN out : out[i] # <<>> /\ Whole(out[i])

\* A parser that has taken the first k bytes of the sender's message.
At(p, k) ==
  \/ k = 0
  \/ IsShort(cur) /\ p = [running |-> Running(cur[1]), msg |-> Prefix(k), sysex |-> <<>>]
  \/ IsSysex(cur) /\ p = [running |-> 0, msg |-> <<>>, sysex |-> KeptPrefix(k)]

Wholes ==
  ParserOK(bridge) /\ ParserOK(far) /\ FramerOK(framer) /\ WholeOut(got) /\ WholeOut(thru)

\* With n bytes of the message framed: the device has all of a short one and,
\* of a SysEx, what the parser p of what it sends back has not.
Holds(s, p, n) ==
  /\ IsShort(cur) =>
       /\ s.midi_status = cur[1] /\ ~ s.in_sysex
       /\ s.midi_data = [i \in 1 .. n - 1 |-> cur[i + 1]]
  /\ IsSysex(cur) =>
       LET k == n - Len(s.sysex_buf)
       IN  /\ s.in_sysex /\ k \in 0 .. n /\ At(p, k)
           /\ \A i \in 1 .. Len(s.sysex_buf) : s.sysex_buf[i] = cur[k + i]

\* So it is within a message that reached the device from its first byte; and
\* between two the device has the status that the second may leave out.
FramedWithin == framed /\ cur # <<>> /\ pos > 0 => Holds(framer, far, pos)
FramedBetween ==
  framed /\ cur = <<>> /\ runs # 0 =>
    framer.midi_status = runs /\ ~ framer.in_sysex /\ framer.midi_data = <<>>
ComesBack == framed => thru = Expected

Through == FramedWithin /\ FramedBetween /\ ComesBack
JoinInv == Inv /\ Wholes /\ Through

-----------------------------------------------------------------------------
(* What a parser keeps and emits is well formed, whatever bytes it takes.   *)

LEMMA Kinds ==
  ASSUME NEW b \in 0 .. 255
  PROVE  \/ b \in RealTime \/ b = SysexStart \/ b = SysexEnd
         \/ b \in Status \/ b \in DataByte
  BY DEF RealTime, SysexStart, SysexEnd, Status, DataByte

LEMMA Voices ==
  ASSUME NEW s \in Voice
  PROVE  s \in Status /\ s \in 0 .. 255 /\ s # 0 /\ <<s>> \in ByteString
  BY DEF Voice, Status, SysexStart, ByteString

LEMMA NothingOut == WholeOut(<<>>)
  BY DEF WholeOut, ByteString

LEMMA OneOut ==
  ASSUME NEW m \in ByteString, m # <<>>, Whole(m)
  PROVE  WholeOut(<<m>>)
<1> HIDE DEF ByteString, Whole
<1> QED BY DEF WholeOut

LEMMA BothOut ==
  ASSUME NEW a, NEW c, WholeOut(a), WholeOut(c)
  PROVE  WholeOut(a \o c)
<1> HIDE DEF ByteString, Whole
<1>1. a \in Seq(ByteString) /\ c \in Seq(ByteString)
  BY DEF WholeOut
<1>2. /\ a \o c \in Seq(ByteString)
      /\ \A i \in DOMAIN (a \o c) : (a \o c)[i] = IF i <= Len(a) THEN a[i] ELSE c[i - Len(a)]
  BY <1>1
<1>3. ASSUME NEW i \in DOMAIN (a \o c)
      PROVE  (a \o c)[i] # <<>> /\ Whole((a \o c)[i])
  <2>1. i \in 1 .. Len(a) + Len(c) /\ DOMAIN a = 1 .. Len(a) /\ DOMAIN c = 1 .. Len(c)
    BY <1>1
  <2>2. CASE i <= Len(a)
    BY <1>1, <1>2, <2>1, <2>2 DEF WholeOut
  <2>3. CASE ~(i <= Len(a))
    <3>1. i - Len(a) \in DOMAIN c /\ (a \o c)[i] = c[i - Len(a)]
      BY <1>1, <1>2, <2>1, <2>3
    <3> QED BY <3>1 DEF WholeOut
  <2> QED BY <2>2, <2>3
<1> QED BY <1>2, <1>3 DEF WholeOut

LEMMA Elements ==
  ASSUME NEW S, NEW s \in Seq(S)
  PROVE  /\ Len(s) \in Nat /\ DOMAIN s = 1 .. Len(s)
         /\ \A i \in DOMAIN s : s[i] \in S
  OBVIOUS

\* A sequence with one more at its end.
LEMMA OneMore ==
  ASSUME NEW S, NEW s \in Seq(S), NEW e \in S
  PROVE  /\ Append(s, e) \in Seq(S) /\ Len(Append(s, e)) = Len(s) + 1 /\ Append(s, e) # <<>>
         /\ \A i \in 1 .. Len(s) : Append(s, e)[i] = s[i]
         /\ Append(s, e)[Len(s) + 1] = e
  OBVIOUS

LEMMA InitOK == ParserOK(midi_parser_init)
  BY DEF ParserOK, midi_parser_init, ByteString

LEMMA StatusOK ==
  ASSUME NEW p, ParserOK(p), NEW b \in Status
  PROVE  ParserOK(FeedStatus(p, b).state) /\ WholeOut(FeedStatus(p, b).out)
<1>1. /\ b \in 0 .. 255 /\ midi_data_len(b) \in 0 .. 2 /\ <<b>> \in ByteString
      /\ Running(b) \in {0} \cup Voice
  <2>1. b \in 0 .. 255
    BY DEF Status
  <2> QED BY <2>1, Lengths, Runs DEF ByteString
<1>2. FeedStatus(p, b).state =
        [running |-> Running(b), msg |-> IF midi_data_len(b) = 0 THEN <<>> ELSE <<b>>, sysex |-> <<>>]
  BY DEF FeedStatus, Stepped, Running
<1>3. ParserOK(FeedStatus(p, b).state)
  <2> DEFINE m == IF midi_data_len(b) = 0 THEN <<>> ELSE <<b>>
  <2>1. <<>> \in ByteString /\ m \in ByteString
    <3>1. <<>> \in ByteString
      BY DEF ByteString
    <3> QED BY <1>1, <3>1
  <2>2. m # <<>> => m[1] = b /\ Len(m) = 1 /\ midi_data_len(b) # 0
    OBVIOUS
  <2>3. FeedStatus(p, b).state = [running |-> Running(b), msg |-> m, sysex |-> <<>>]
    BY <1>2
  <2> HIDE DEF m
  <2>4. ASSUME m # <<>>
        PROVE  /\ m[1] \in Status /\ Len(m) <= midi_data_len(m[1])
               /\ \A i \in 2 .. Len(m) : m[i] \in DataByte
    <3>1. m[1] = b /\ Len(m) = 1 /\ midi_data_len(b) >= 1
      BY <1>1, <2>2, <2>4
    <3> QED BY <3>1
  <2> QED BY <1>1, <2>1, <2>3, <2>4 DEF ParserOK
<1>4. midi_data_len(b) = 0 => WholeOut(<<<<b>>>>)
  <2>1. midi_data_len(b) = 0 => Whole(<<b>>)
    BY DEF Whole
  <2> QED BY <1>1, <2>1, OneOut
<1>5. FeedStatus(p, b).out = IF midi_data_len(b) = 0 THEN <<<<b>>>> ELSE <<>>
  BY DEF FeedStatus, Stepped
<1> QED BY <1>3, <1>4, <1>5, NothingOut

\* What is kept of a SysEx, with another byte of it.
LEMMA KeptOne ==
  ASSUME NEW s \in ByteString, Len(s) <= MIDI_MAX_MSG, s # <<>>, NEW b \in 0 .. 255
  PROVE  /\ Kept(s, b) \in ByteString /\ Len(Kept(s, b)) <= MIDI_MAX_MSG
         /\ Kept(s, b) # <<>> /\ Kept(s, b)[1] = s[1] /\ Len(s) \in Nat \ {0}
         /\ \/ Kept(s, b) = s /\ Len(s) = MIDI_MAX_MSG
            \/ Len(Kept(s, b)) = Len(s) + 1 /\ Kept(s, b)[Len(s) + 1] = b
         /\ \A i \in 1 .. Len(s) : Kept(s, b)[i] = s[i]
<1> USE FramingAssumption
<1>1. Len(s) \in Nat \ {0}
  BY DEF ByteString
<1>2. CASE Len(s) < MIDI_MAX_MSG
  <2>1. Kept(s, b) = Append(s, b)
    BY <1>2 DEF Kept
  <2> QED BY <1>1, <1>2, <2>1, OneMore DEF ByteString
<1>3. CASE ~(Len(s) < MIDI_MAX_MSG)
  <2>1. Kept(s, b) = s /\ Len(s) = MIDI_MAX_MSG
    BY <1>1, <1>3 DEF Kept
  <2> QED BY <1>1, <2>1
<1> QED BY <1>2, <1>3

LEMMA EndOK ==
  ASSUME NEW p, ParserOK(p)
  PROVE  ParserOK(FeedEnd(p).state) /\ WholeOut(FeedEnd(p).out)
<1>1. FeedEnd(p).state = midi_parser_init
  BY DEF FeedEnd, Stepped
<1>2. CASE p.sysex = <<>>
  BY <1>1, <1>2, InitOK, NothingOut DEF FeedEnd, Stepped
<1>3. CASE p.sysex # <<>>
  <2> DEFINE s == p.sysex
             m == Kept(s, SysexEnd)
  <2>1. /\ s \in ByteString /\ s # <<>> /\ s[1] = SysexStart /\ Len(s) <= MIDI_MAX_MSG
        /\ \A i \in 2 .. Len(s) : s[i] \in DataByte
    BY <1>3 DEF ParserOK
  <2>2. SysexEnd \in 0 .. 255
    BY DEF SysexEnd
  <2>3. FeedEnd(p).out = <<m>>
    BY <1>3 DEF FeedEnd, Stepped
  <2> HIDE DEF s
  <2>4. /\ m \in ByteString /\ m # <<>> /\ m[1] = SysexStart /\ Len(s) \in Nat
        /\ \/ m = s /\ Len(s) = MIDI_MAX_MSG
           \/ Len(m) = Len(s) + 1 /\ m[Len(s) + 1] = SysexEnd
        /\ \A i \in 1 .. Len(s) : m[i] = s[i]
    BY <2>1, <2>2, KeptOne
  <2> HIDE DEF m
  <2>5. m[Len(m)] = SysexEnd \/ Len(m) = MIDI_MAX_MSG
    BY <2>4
  <2>6. \A i \in 2 .. Len(m) - 1 : m[i] \in DataByte
    <3>1. Len(m) - 1 <= Len(s) /\ Len(m) \in Nat
      BY <2>4
    <3>2. \A i \in 2 .. Len(m) - 1 : i \in 2 .. Len(s) /\ i \in 1 .. Len(s)
      BY <2>4, <3>1
    <3> QED BY <2>1, <2>4, <3>2
  <2>7. Whole(m)
    BY <2>4, <2>5, <2>6 DEF Whole
  <2> QED BY <1>1, <2>3, <2>4, <2>7, InitOK, OneOut
<1> QED BY <1>2, <1>3

LEMMA SysexDataOK ==
  ASSUME NEW p, ParserOK(p), NEW b \in DataByte, p.sysex # <<>>
  PROVE  ParserOK([p EXCEPT !.sysex = Kept(@, b)])
<1> DEFINE s == p.sysex
           q == [p EXCEPT !.sysex = Kept(@, b)]
<1>1. /\ s \in ByteString /\ s # <<>> /\ s[1] = SysexStart /\ Len(s) <= MIDI_MAX_MSG
      /\ \A i \in 2 .. Len(s) : s[i] \in DataByte
  BY DEF ParserOK
<1>2. b \in 0 .. 255
  BY DEF DataByte
<1>3. q.sysex = Kept(s, b) /\ q.msg = p.msg
  BY DEF ParserOK
<1> HIDE DEF s
<1>4. /\ Kept(s, b) \in ByteString /\ Len(Kept(s, b)) <= MIDI_MAX_MSG
      /\ Kept(s, b) # <<>> /\ Kept(s, b)[1] = SysexStart /\ Len(s) \in Nat
      /\ \/ Kept(s, b) = s
         \/ Len(Kept(s, b)) = Len(s) + 1 /\ Kept(s, b)[Len(s) + 1] = b
      /\ \A i \in 1 .. Len(s) : Kept(s, b)[i] = s[i]
  BY <1>1, <1>2, KeptOne
<1>5. \A i \in 2 .. Len(Kept(s, b)) : Kept(s, b)[i] \in DataByte
  BY <1>1, <1>4
<1>6. q \in [running : {0} \cup Voice, msg : ByteString, sysex : ByteString]
  BY <1>4 DEF ParserOK, s
<1> HIDE DEF q
<1>7. q.msg # <<>> =>
        /\ q.msg[1] \in Status /\ Len(q.msg) <= midi_data_len(q.msg[1])
        /\ \A i \in 2 .. Len(q.msg) : q.msg[i] \in DataByte
  BY <1>3 DEF ParserOK
<1>8. ParserOK(q)
  BY <1>3, <1>4, <1>5, <1>6, <1>7 DEF ParserOK
<1> QED BY <1>8 DEF q

LEMMA DataOK ==
  ASSUME NEW p, ParserOK(p), NEW b \in DataByte, p.sysex = <<>>
  PROVE  ParserOK(FeedData(p, b).state) /\ WholeOut(FeedData(p, b).out)
<1> DEFINE begun == IF p.msg = <<>> /\ p.running # 0 THEN <<p.running>> ELSE p.msg
           more == Append(begun, b)
           left == IF p.running # 0 THEN <<p.running>> ELSE <<>>
<1>1. /\ p.running \in {0} \cup Voice /\ p.msg \in ByteString /\ b \in 0 .. 255
      /\ p = [running |-> p.running, msg |-> p.msg, sysex |-> <<>>]
  BY DEF ParserOK, DataByte
<1>2. p.running # 0 =>
        /\ p.running \in Status /\ <<p.running>> \in ByteString
        /\ midi_data_len(p.running) \in 1 .. 2
  <2>1. p.running # 0 => p.running \in Voice
    BY <1>1
  <2>2. p.running # 0 => p.running \in Status /\ <<p.running>> \in ByteString
    BY <2>1, Voices
  <2>3. p.running # 0 => midi_data_len(p.running) \in 1 .. 2
    BY <2>1, Lengths
  <2> QED BY <2>2, <2>3
<1>3. begun \in ByteString
  BY <1>1, <1>2
<1>4. begun # <<>> =>
        /\ begun[1] \in Status /\ Len(begun) <= midi_data_len(begun[1])
        /\ \A i \in 2 .. Len(begun) : begun[i] \in DataByte
  <2>1. CASE p.msg = <<>> /\ p.running # 0
    <3>1. begun = <<p.running>> /\ begun[1] = p.running /\ Len(begun) = 1
      BY <2>1
    <3> HIDE DEF begun
    <3> QED BY <1>2, <2>1, <3>1
  <2>2. CASE ~(p.msg = <<>> /\ p.running # 0)
    <3>1. begun = p.msg
      BY <2>2
    <3> QED BY <3>1 DEF ParserOK
  <2> QED BY <2>1, <2>2
<1>5. /\ left \in ByteString /\ (left # <<>> => left = <<p.running>> /\ p.running # 0)
  <2>1. <<>> \in ByteString
    BY DEF ByteString
  <2> QED BY <1>2, <2>1
<1>6. FeedData(p, b) =
        IF begun = <<>> THEN Stepped(p, <<>>)
        ELSE IF Len(more) <= midi_data_len(more[1])
        THEN Stepped([p EXCEPT !.msg = more], <<>>)
        ELSE Stepped([p EXCEPT !.msg = left], <<more>>)
  BY DEF FeedData
<1> HIDE DEF begun, left
<1>7. CASE begun = <<>>
  BY <1>6, <1>7, NothingOut DEF Stepped
<1>8. CASE begun # <<>>
  <2>1. /\ more \in ByteString /\ more # <<>> /\ Len(more) = Len(begun) + 1
        /\ more[Len(begun) + 1] = b /\ Len(begun) \in Nat \ {0}
        /\ \A i \in 1 .. Len(begun) : more[i] = begun[i]
    BY <1>1, <1>3, <1>8, OneMore DEF ByteString
  <2> HIDE DEF more
  <2>2. /\ more[1] = begun[1] /\ more[1] \in Status /\ midi_data_len(more[1]) \in 0 .. 2
        /\ Len(more) <= 1 + midi_data_len(more[1])
    BY <1>4, <1>8, <2>1, Lengths
  <2>3. \A i \in 2 .. Len(more) : more[i] \in DataByte
    <3>1. \A i \in 2 .. Len(more) : i = Len(begun) + 1 \/ (i \in 1 .. Len(begun) /\ i \in 2 .. Len(begun))
      BY <2>1
    <3> QED BY <1>4, <1>8, <2>1, <3>1
  <2>4. CASE Len(more) <= midi_data_len(more[1])
    <3> DEFINE q == [running |-> p.running, msg |-> more, sysex |-> <<>>]
    <3>1. FeedData(p, b) = Stepped(q, <<>>)
      BY <1>1, <1>6, <1>8, <2>4
    <3>2. q \in [running : {0} \cup Voice, msg : ByteString, sysex : ByteString]
      BY <1>1, <2>1 DEF ByteString
    <3>3. ParserOK(q)
      BY <2>2, <2>3, <2>4, <3>2 DEF ParserOK
    <3> QED BY <3>1, <3>3, NothingOut DEF Stepped
  <2>5. CASE ~(Len(more) <= midi_data_len(more[1]))
    <3> DEFINE q == [running |-> p.running, msg |-> left, sysex |-> <<>>]
    <3>1. FeedData(p, b) = Stepped(q, <<more>>)
      BY <1>1, <1>6, <1>8, <2>5
    <3>2. q \in [running : {0} \cup Voice, msg : ByteString, sysex : ByteString]
      BY <1>1, <1>5 DEF ByteString
    <3>3. left # <<>> => left[1] = p.running /\ Len(left) = 1 /\ p.running # 0
      BY <1>5
    <3>4. ASSUME left # <<>>
          PROVE  /\ left[1] \in Status /\ Len(left) <= midi_data_len(left[1])
                 /\ \A i \in 2 .. Len(left) : left[i] \in DataByte
      <4>1. left[1] = p.running /\ Len(left) = 1 /\ p.running # 0
        BY <3>3, <3>4
      <4>2. midi_data_len(left[1]) \in 1 .. 2 /\ left[1] \in Status
        BY <1>2, <4>1
      <4> QED BY <4>1, <4>2
    <3>5. ParserOK(q)
      BY <3>2, <3>4 DEF ParserOK
    <3>6. Len(more) = 1 + midi_data_len(more[1])
      BY <2>1, <2>2, <2>5
    <3>7. Whole(more)
      BY <2>2, <2>3, <3>6 DEF Whole
    <3>8. WholeOut(<<more>>)
      BY <2>1, <3>7, OneOut
    <3> QED BY <3>1, <3>8, <3>5 DEF Stepped
  <2> QED BY <2>4, <2>5
<1> QED BY <1>7, <1>8

LEMMA FeedOK ==
  ASSUME NEW p, ParserOK(p), NEW b \in 0 .. 255
  PROVE  /\ ParserOK(midi_parser_feed(p, b).state)
         /\ WholeOut(midi_parser_feed(p, b).out)
<1>1. CASE b \in RealTime
  <2>1. <<b>> \in ByteString /\ Whole(<<b>>)
    <3>1. midi_data_len(b) = 0
      BY <1>1 DEF midi_data_len, RealTime
    <3> QED BY <1>1, <3>1 DEF Whole, ByteString
  <2> QED BY <1>1, <2>1, FeedsRealTime, OneOut DEF Stepped
<1>2. CASE b = SysexStart
  <2> DEFINE q == [running |-> 0, msg |-> <<>>, sysex |-> <<b>>]
  <2>1. midi_parser_feed(p, b) = Stepped(q, <<>>)
    BY <1>2, FeedsStart DEF midi_parser_init
  <2>2. q \in [running : {0} \cup Voice, msg : ByteString, sysex : ByteString]
    BY DEF ByteString
  <2>3. ParserOK(q)
    BY <1>2, <2>2, FramingAssumption DEF ParserOK
  <2> QED BY <2>1, <2>3, NothingOut DEF Stepped
<1>3. CASE b = SysexEnd
  BY <1>3, FeedsEnd, EndOK
<1>4. CASE b \in Status
  BY <1>4, FeedsStatus, StatusOK
<1>5. CASE b \in DataByte /\ p.sysex # <<>>
  BY <1>5, FeedsSysexData, SysexDataOK, NothingOut DEF Stepped
<1>6. CASE b \in DataByte /\ p.sysex = <<>>
  BY <1>6, FeedsData, DataOK
<1> QED BY <1>1, <1>2, <1>3, <1>4, <1>5, <1>6, Kinds

\* So for as many bytes as a packet has.
FedOK(r) == ParserOK(r.state) /\ WholeOut(r.out)

LEMMA FedByteOK ==
  ASSUME NEW r, FedOK(r), NEW bytes \in ByteString, NEW i
  PROVE  FedOK(FedByte(r, bytes, i))
<1>1. CASE i \in DOMAIN bytes
  <2>1. bytes[i] \in 0 .. 255
    <3>1. \A j \in DOMAIN bytes : bytes[j] \in 0 .. 255
      BY Elements DEF ByteString
    <3> QED BY <1>1, <3>1
  <2> DEFINE one == midi_parser_feed(r.state, bytes[i])
  <2>2. ParserOK(one.state) /\ WholeOut(one.out)
    BY <2>1, FeedOK DEF FedOK
  <2>3. FedByte(r, bytes, i) = Stepped(one.state, r.out \o one.out)
    BY <1>1 DEF FedByte
  <2> HIDE DEF one
  <2>4. WholeOut(r.out \o one.out)
    BY <2>2, BothOut DEF FedOK
  <2> QED BY <2>2, <2>3, <2>4 DEF FedOK, Stepped
<1>2. CASE i \notin DOMAIN bytes
  BY <1>2 DEF FedByte
<1> QED BY <1>1, <1>2

LEMMA FedsOK ==
  ASSUME NEW p, ParserOK(p), NEW bytes \in ByteString
  PROVE  FedOK(Fed(p, bytes))
<1>1. FedOK(Stepped(p, <<>>))
  BY NothingOut DEF FedOK, Stepped
<1> QED BY <1>1, FedByteOK DEF Fed

-----------------------------------------------------------------------------
(* The device's framer and the way back, by kind of byte.                   *)

\* What the device sends back for a byte.
Returned(s, b) ==
  LET packets == rza1l_usb_midi_frame_byte(s, b).out
  IN  IF packets = <<>> THEN <<>> ELSE rza1l_usb_flush_tx(packets[1])

Frames(s, b, next, bytes) ==
  rza1l_usb_midi_frame_byte(s, b).state = next /\ Returned(s, b) = bytes

\* Both sides count the data bytes of a status alike.
LEMMA Needs ==
  ASSUME NEW s \in Status
  PROVE  midi_need(s) = midi_data_len(s) /\ s # 0 /\ s \in 0 .. 255
  BY DEF midi_need, midi_data_len, Status, Voice, SysexStart

LEMMA CinLengths ==
  /\ usb_midi_cin_len(2) = 2 /\ usb_midi_cin_len(3) = 3 /\ usb_midi_cin_len(4) = 3
  /\ usb_midi_cin_len(5) = 1 /\ usb_midi_cin_len(6) = 2 /\ usb_midi_cin_len(7) = 3
  /\ usb_midi_cin_len(8) = 3 /\ usb_midi_cin_len(9) = 3 /\ usb_midi_cin_len(10) = 3
  /\ usb_midi_cin_len(11) = 3 /\ usb_midi_cin_len(12) = 2 /\ usb_midi_cin_len(13) = 2
  /\ usb_midi_cin_len(14) = 3 /\ usb_midi_cin_len(15) = 1
  BY DEF usb_midi_cin_len

\* A packet carries its bytes, if its code tells how many they are.
LEMMA Carried ==
  ASSUME NEW bytes \in ByteString, Len(bytes) \in 1 .. 3,
         NEW cin, usb_midi_cin_len(cin) = Len(bytes)
  PROVE  rza1l_usb_flush_tx(Packet(cin, bytes)) = bytes
<1> DEFINE n == Len(bytes)
           padded == [i \in 1 .. 3 |-> IF i \in DOMAIN bytes THEN bytes[i] ELSE 0]
<1>1. rza1l_usb_flush_tx(Packet(cin, bytes)) = SubSeq(padded, 1, n)
  BY DEF rza1l_usb_flush_tx, Packet
<1>2. /\ DOMAIN bytes = 1 .. n /\ n \in 1 .. 3 /\ bytes \in Seq(0 .. 255)
      /\ \A i \in 1 .. n : bytes[i] \in 0 .. 255
  BY Elements DEF ByteString
<1>3. padded \in Seq(0 .. 255) /\ Len(padded) = 3 /\ \A i \in 1 .. n : padded[i] = bytes[i]
  <2>1. \A i \in 1 .. 3 : (IF i \in DOMAIN bytes THEN bytes[i] ELSE 0) \in 0 .. 255
    BY <1>2
  <2> QED BY <1>2, <2>1
<1> HIDE DEF n, padded
<1>4. SubSeq(padded, 1, n) \in Seq(0 .. 255) /\ Len(SubSeq(padded, 1, n)) = n
      /\ \A i \in 1 .. n : SubSeq(padded, 1, n)[i] = padded[i]
  <2>1. /\ SubSeq(padded, 1, n) \in Seq(0 .. 255)
        /\ Len(SubSeq(padded, 1, n)) = IF 1 <= n THEN n - 1 + 1 ELSE 0
        /\ \A i \in 1 .. n - 1 + 1 : SubSeq(padded, 1, n)[i] = padded[1 + i - 1]
    <3>1. \A i \in 1 .. n : padded[i] \in 0 .. 255
      BY <1>2, <1>3
    <3>2. n \in Int /\ 1 \in Int
      BY <1>2
    <3> QED BY <3>1, <3>2, SubSeqProperties
  <2>2. (1 <= n) /\ n - 1 + 1 = n /\ \A i \in 1 .. n : 1 + i - 1 = i
    BY <1>2
  <2> QED BY <2>1, <2>2
<1>5. SubSeq(padded, 1, n) = bytes
  BY <1>2, <1>3, <1>4, SeqEqual DEF n
<1> QED BY <1>1, <1>5

\* So a byte that makes a packet sends its bytes back.
LEMMA Framed ==
  ASSUME NEW s, NEW b, NEW next, NEW cin, NEW bytes \in ByteString, Len(bytes) \in 1 .. 3,
         usb_midi_cin_len(cin) = Len(bytes),
         rza1l_usb_midi_frame_byte(s, b) = Stepped(next, <<Packet(cin, bytes)>>)
  PROVE  Frames(s, b, next, bytes)
<1> DEFINE packet == Packet(cin, bytes)
<1>1. rza1l_usb_flush_tx(packet) = bytes
  BY Carried
<1>2. rza1l_usb_midi_frame_byte(s, b) = Stepped(next, <<packet>>)
  OBVIOUS
<1> HIDE DEF packet
<1>3. /\ rza1l_usb_midi_frame_byte(s, b).state = next
      /\ rza1l_usb_midi_frame_byte(s, b).out = <<packet>>
  BY <1>2 DEF Stepped
<1>4. <<packet>> # <<>> /\ <<packet>>[1] = packet
  OBVIOUS
<1>5. Returned(s, b) = bytes
  BY <1>1, <1>3, <1>4, Zenon DEF Returned
<1> QED BY <1>3, <1>5 DEF Frames

LEMMA FramedNone ==
  ASSUME NEW s, NEW b, NEW next, rza1l_usb_midi_frame_byte(s, b) = Stepped(next, <<>>)
  PROVE  Frames(s, b, next, <<>>)
  BY DEF Frames, Returned, Stepped

LEMMA ShortAppend ==
  ASSUME NEW S, NEW buf \in Seq(S), Len(buf) <= 2, NEW e \in S
  PROVE  Append(buf, e) \in Seq(S) /\ Len(Append(buf, e)) \in 1 .. 3
<1> DEFINE n == Len(buf)
<1>1. n \in Nat /\ n <= 2
  OBVIOUS
<1>2. Append(buf, e) \in Seq(S) /\ Len(Append(buf, e)) = n + 1
  BY OneMore
<1> HIDE DEF n
<1>3. n + 1 \in 1 .. 3
  BY <1>1
<1> QED BY <1>2, <1>3, Zenon

LEMMA Single ==
  ASSUME NEW b \in 0 .. 255
  PROVE  <<b>> \in ByteString /\ Len(<<b>>) = 1 /\ Len(<<b>>) \in 1 .. 3
<1>1. <<b>> \in ByteString /\ Len(<<b>>) = 1
  BY DEF ByteString
<1>2. 1 \in 1 .. 3
  OBVIOUS
<1> QED BY <1>1, <1>2, Zenon

LEMMA FramesRealTime ==
  ASSUME NEW s, NEW b \in RealTime
  PROVE  Frames(s, b, s, <<b>>)
<1>1. /\ b # SysexStart /\ b # SysexEnd /\ b \notin Status /\ b \notin DataByte /\ b \in 0 .. 255
  BY DEF RealTime, SysexStart, SysexEnd, Status, DataByte
<1>2. rza1l_usb_midi_frame_byte(s, b) = Stepped(s, <<Packet(15, <<b>>)>>)
  BY <1>1, Zenon DEF rza1l_usb_midi_frame_byte
<1>3. <<b>> \in ByteString /\ Len(<<b>>) = 1 /\ Len(<<b>>) \in 1 .. 3
  BY <1>1, Single
<1>4. usb_midi_cin_len(15) = Len(<<b>>)
  BY <1>3, CinLengths
<1> QED BY <1>2, <1>3, <1>4, Framed

LEMMA FramesStart ==
  ASSUME NEW s, NEW b, b = SysexStart
  PROVE  Frames(s, b, [s EXCEPT !.in_sysex = TRUE, !.sysex_buf = <<b>>], <<>>)
<1>1. b \notin RealTime /\ b # SysexEnd /\ b \notin Status /\ b \notin DataByte
  BY DEF RealTime, SysexStart, SysexEnd, Status, DataByte
<1>2. rza1l_usb_midi_frame_byte(s, b) =
        Stepped([s EXCEPT !.in_sysex = TRUE, !.sysex_buf = <<b>>], <<>>)
  BY <1>1, Zenon DEF rza1l_usb_midi_frame_byte
<1> QED BY <1>2, FramedNone

LEMMA FramesEnd ==
  ASSUME NEW s, FramerOK(s), NEW b, b = SysexEnd
  PROVE  IF s.in_sysex
         THEN Frames(s, b, [s EXCEPT !.in_sysex = FALSE, !.sysex_buf = <<>>],
                     Append(s.sysex_buf, SysexEnd))
         ELSE Frames(s, b, s, <<>>)
<1>1. b \notin RealTime /\ b # SysexStart /\ b \notin Status /\ b \notin DataByte /\ b \in 0 .. 255
  BY DEF RealTime, SysexStart, SysexEnd, Status, DataByte
<1>2. rza1l_usb_midi_frame_byte(s, b) = FrameEnd(s)
  BY <1>1, Zenon DEF rza1l_usb_midi_frame_byte
<1>3. CASE s.in_sysex
  <2> DEFINE bytes == Append(s.sysex_buf, SysexEnd)
             next == [s EXCEPT !.in_sysex = FALSE, !.sysex_buf = <<>>]
  <2>1. s.sysex_buf \in Seq(0 .. 255) /\ Len(s.sysex_buf) <= 2
    BY DEF FramerOK, ByteString
  <2>2. bytes \in ByteString /\ Len(bytes) \in 1 .. 3
    <3>1. SysexEnd \in 0 .. 255
      BY DEF SysexEnd
    <3> QED BY <2>1, <3>1, ShortAppend DEF ByteString
  <2>3. rza1l_usb_midi_frame_byte(s, b) = Stepped(next, <<Packet(4 + Len(bytes), bytes)>>)
    BY <1>2, <1>3 DEF FrameEnd
  <2> HIDE DEF bytes, next
  <2>4. usb_midi_cin_len(4 + Len(bytes)) = Len(bytes)
    <3>1. Len(bytes) = 1 \/ Len(bytes) = 2 \/ Len(bytes) = 3
      BY <2>2
    <3>2. CASE Len(bytes) = 1
      <4>1. 4 + Len(bytes) = 5
        BY <3>2
      <4> QED BY <3>2, <4>1, CinLengths
    <3>3. CASE Len(bytes) = 2
      <4>1. 4 + Len(bytes) = 6
        BY <3>3
      <4> QED BY <3>3, <4>1, CinLengths
    <3>4. CASE Len(bytes) = 3
      <4>1. 4 + Len(bytes) = 7
        BY <3>4
      <4> QED BY <3>4, <4>1, CinLengths
    <3> QED BY <3>1, <3>2, <3>3, <3>4
  <2>5. Frames(s, b, next, bytes)
    BY <2>2, <2>3, <2>4, Framed
  <2> QED BY <1>3, <2>5 DEF bytes, next
<1>4. CASE ~ s.in_sysex
  BY <1>2, <1>4, FramedNone DEF FrameEnd
<1> QED BY <1>3, <1>4

LEMMA FramesStatus ==
  ASSUME NEW s, NEW b \in Status
  PROVE  Frames(s, b, [midi_status |-> IF midi_data_len(b) = 0 THEN 0 ELSE b,
                       midi_data |-> <<>>, in_sysex |-> FALSE, sysex_buf |-> <<>>],
                IF midi_data_len(b) = 0 THEN <<b>> ELSE <<>>)
<1> DEFINE next == [midi_status |-> IF midi_data_len(b) = 0 THEN 0 ELSE b,
                    midi_data |-> <<>>, in_sysex |-> FALSE, sysex_buf |-> <<>>]
<1>1. b \notin RealTime /\ b # SysexStart /\ b # SysexEnd /\ b \notin DataByte
  BY DEF RealTime, SysexStart, SysexEnd, Status, DataByte
<1>2. rza1l_usb_midi_frame_byte(s, b) = FrameStatus(s, b)
  BY <1>1, Zenon DEF rza1l_usb_midi_frame_byte
<1>3. midi_need(b) = midi_data_len(b) /\ b \in 0 .. 255
  BY Needs
<1>4. rza1l_usb_midi_frame_byte(s, b) =
        Stepped(next, IF midi_data_len(b) = 0 THEN <<Packet(5, <<b>>)>> ELSE <<>>)
  BY <1>2, <1>3 DEF FrameStatus
<1> HIDE DEF next
<1>5. CASE midi_data_len(b) = 0
  <2>1. <<b>> \in ByteString /\ Len(<<b>>) = 1 /\ Len(<<b>>) \in 1 .. 3
    BY <1>3, Single
  <2>2. usb_midi_cin_len(5) = Len(<<b>>)
    BY <2>1, CinLengths
  <2>3. rza1l_usb_midi_frame_byte(s, b) = Stepped(next, <<Packet(5, <<b>>)>>)
    BY <1>4, <1>5
  <2>4. Frames(s, b, next, <<b>>)
    BY <2>1, <2>2, <2>3, Framed
  <2> QED BY <1>5, <2>4 DEF next
<1>6. CASE midi_data_len(b) # 0
  <2>1. Frames(s, b, next, <<>>)
    BY <1>4, <1>6, FramedNone
  <2> QED BY <1>6, <2>1 DEF next
<1> QED BY <1>5, <1>6

LEMMA FramesSysexData ==
  ASSUME NEW s, FramerOK(s), NEW b \in DataByte, s.in_sysex
  PROVE  LET bytes == Append(s.sysex_buf, b)
         IN  IF Len(bytes) = 3
             THEN Frames(s, b, [s EXCEPT !.sysex_buf = <<>>], bytes)
             ELSE Frames(s, b, [s EXCEPT !.sysex_buf = bytes], <<>>)
<1> DEFINE bytes == Append(s.sysex_buf, b)
<1>1. b \notin RealTime /\ b # SysexStart /\ b # SysexEnd /\ b \notin Status /\ b \in 0 .. 255
  BY DEF RealTime, SysexStart, SysexEnd, Status, DataByte
<1>2. rza1l_usb_midi_frame_byte(s, b) = FrameSysexData(s, b)
  BY <1>1, Zenon DEF rza1l_usb_midi_frame_byte
<1>3. bytes \in ByteString
  BY <1>1, OneMore DEF FramerOK, ByteString
<1>4. CASE Len(bytes) = 3
  <2>1. rza1l_usb_midi_frame_byte(s, b) =
          Stepped([s EXCEPT !.sysex_buf = <<>>], <<Packet(4, bytes)>>)
    BY <1>2, <1>4 DEF FrameSysexData
  <2>2. usb_midi_cin_len(4) = Len(bytes) /\ Len(bytes) \in 1 .. 3
    BY <1>4, CinLengths
  <2> HIDE DEF bytes
  <2>3. Frames(s, b, [s EXCEPT !.sysex_buf = <<>>], bytes)
    BY <1>3, <2>1, <2>2, Framed
  <2> QED BY <1>4, <2>3 DEF bytes
<1>5. CASE Len(bytes) # 3
  <2>1. rza1l_usb_midi_frame_byte(s, b) = Stepped([s EXCEPT !.sysex_buf = bytes], <<>>)
    BY <1>2, <1>5 DEF FrameSysexData
  <2> QED BY <1>5, <2>1, FramedNone
<1> QED BY <1>4, <1>5

\* The code of a short message's packet (its status's high half, or 2 or 3).
CinOf(status) ==
  IF status \in Voice THEN status \div 16 ELSE IF status = 242 THEN 3 ELSE 2

LEMMA Cins ==
  ASSUME NEW status \in Status, midi_need(status) > 0
  PROVE  usb_midi_cin_len(CinOf(status)) = 1 + midi_need(status)
<1>1. CASE status \in Voice
  <2>1. /\ CinOf(status) = status \div 16 /\ status \in 128 .. 239
        /\ midi_need(status) = IF status < 192 \/ status >= 224 THEN 2 ELSE 1
    BY <1>1 DEF CinOf, midi_need, Voice
  <2>2. /\ status < 144 => status \div 16 = 8
        /\ status >= 144 /\ status < 160 => status \div 16 = 9
        /\ status >= 160 /\ status < 176 => status \div 16 = 10
        /\ status >= 176 /\ status < 192 => status \div 16 = 11
        /\ status >= 192 /\ status < 208 => status \div 16 = 12
        /\ status >= 208 /\ status < 224 => status \div 16 = 13
        /\ status >= 224 => status \div 16 = 14
    BY <2>1
  <2> DEFINE cin == CinOf(status)
             need == midi_need(status)
  <2>3. \/ cin \in {8, 9, 10, 11, 14} /\ need = 2
        \/ cin \in {12, 13} /\ need = 1
    BY <2>1, <2>2
  <2> HIDE DEF cin, need
  <2>4. usb_midi_cin_len(cin) = 1 + need
    BY <2>3, CinLengths
  <2> QED BY <2>4 DEF cin, need
<1>2. CASE status \notin Voice
  <2>1. midi_need(status) = IF status = 242 THEN 2 ELSE 1
    BY <1>2 DEF midi_need
  <2>2. CinOf(status) = IF status = 242 THEN 3 ELSE 2
    BY <1>2 DEF CinOf
  <2> QED BY <2>1, <2>2, CinLengths
<1> QED BY <1>1, <1>2

LEMMA Wider ==
  ASSUME NEW S, NEW T, S \subseteq T, NEW s \in Seq(S)
  PROVE  s \in Seq(T)
<1>1. Len(s) \in Nat /\ DOMAIN s = 1 .. Len(s) /\ \A i \in DOMAIN s : s[i] \in T
  BY Elements
<1>2. s = [i \in 1 .. Len(s) |-> s[i]]
  BY <1>1
<1> QED BY <1>1, <1>2

\* A status and its data bytes.
LEMMA ShortOf ==
  ASSUME NEW status \in 0 .. 255, NEW data \in Seq(DataByte)
  PROVE  /\ <<status>> \o data \in ByteString /\ Len(<<status>> \o data) = 1 + Len(data)
         /\ (<<status>> \o data)[1] = status
         /\ \A i \in 1 .. Len(data) : (<<status>> \o data)[i + 1] = data[i]
<1>1. data \in Seq(0 .. 255)
  <2>1. DataByte \subseteq 0 .. 255
    BY DEF DataByte
  <2>2. data \in Seq(DataByte)
    OBVIOUS
  <2> QED BY <2>1, <2>2, Wider, ZenonT(30)
<1>2. <<status>> \o data \in ByteString /\ Len(<<status>> \o data) = 1 + Len(data)
  <2>1. <<status>> \in Seq(0 .. 255) /\ Len(<<status>>) = 1
    OBVIOUS
  <2>2. /\ <<status>> \o data \in Seq(0 .. 255)
        /\ Len(<<status>> \o data) = Len(<<status>>) + Len(data)
    BY <1>1, <2>1, ConcatProperties
  <2> QED BY <2>1, <2>2 DEF ByteString
<1>3. ASSUME NEW i \in 1 .. 1 + Len(data)
      PROVE  (<<status>> \o data)[i] = IF i = 1 THEN status ELSE data[i - 1]
  BY <1>1
<1>4. Len(data) \in Nat
  OBVIOUS
<1>5. (<<status>> \o data)[1] = status
  BY <1>3, <1>4
<1>6. ASSUME NEW i \in 1 .. Len(data)
      PROVE  (<<status>> \o data)[i + 1] = data[i]
  <2>1. i + 1 \in 1 .. 1 + Len(data) /\ i + 1 # 1 /\ (i + 1) - 1 = i
    BY <1>4
  <2> QED BY <1>3, <2>1
<1> QED BY <1>2, <1>5, <1>6

LEMMA FramesData ==
  ASSUME NEW s, FramerOK(s), NEW b \in DataByte, ~ s.in_sysex
  PROVE  LET data == Append(s.midi_data, b)
         IN  IF s.midi_status = 0 THEN Frames(s, b, s, <<>>)
             ELSE IF Len(data) < midi_data_len(s.midi_status)
             THEN Frames(s, b, [s EXCEPT !.midi_data = data], <<>>)
             ELSE /\ Len(data) = midi_data_len(s.midi_status)
                  /\ Frames(s, b, [s EXCEPT !.midi_data = <<>>, !.midi_status = Running(@)],
                            <<s.midi_status>> \o data)
<1> DEFINE status == s.midi_status
           data == Append(s.midi_data, b)
           bytes == <<status>> \o data
           next == [s EXCEPT !.midi_data = <<>>, !.midi_status = Running(@)]
<1>1. b \notin RealTime /\ b # SysexStart /\ b # SysexEnd /\ b \notin Status
  BY DEF RealTime, SysexStart, SysexEnd, Status, DataByte
<1>2. rza1l_usb_midi_frame_byte(s, b) = FrameData(s, b)
  BY <1>1, Zenon DEF rza1l_usb_midi_frame_byte
<1>3. FrameData(s, b) =
        IF status = 0 THEN Stepped(s, <<>>)
        ELSE IF Len(data) < midi_need(status) THEN Stepped([s EXCEPT !.midi_data = data], <<>>)
        ELSE Stepped(next, <<Packet(CinOf(status), bytes)>>)
  BY DEF FrameData, CinOf, Running
<1>4. status \in {0} \cup Status /\ s.midi_data \in Seq(DataByte)
  BY DEF FramerOK
<1>5. data \in Seq(DataByte) /\ Len(data) = Len(s.midi_data) + 1 /\ Len(s.midi_data) \in Nat
  BY <1>4, OneMore
<1>6. CASE status = 0
  BY <1>2, <1>3, <1>6, FramedNone
<1>7. CASE status # 0
  <2>1. /\ midi_need(status) = midi_data_len(status) /\ status \in Status /\ status \in 0 .. 255
        /\ Len(s.midi_data) < midi_need(status) /\ midi_data_len(status) \in 0 .. 2
    BY <1>4, <1>7, Needs, Lengths DEF FramerOK
  <2>2. CASE Len(data) < midi_need(status)
    <3>1. rza1l_usb_midi_frame_byte(s, b) = Stepped([s EXCEPT !.midi_data = data], <<>>)
      BY <1>2, <1>3, <1>7, <2>2
    <3> QED BY <1>7, <2>1, <2>2, <3>1, FramedNone
  <2>3. CASE ~(Len(data) < midi_need(status))
    <3>1. rza1l_usb_midi_frame_byte(s, b) = Stepped(next, <<Packet(CinOf(status), bytes)>>)
      BY <1>2, <1>3, <1>7, <2>3
    <3>2. bytes \in ByteString /\ Len(bytes) = 1 + Len(data)
      BY <1>5, <2>1, ShortOf
    <3>3. Len(data) = midi_need(status) /\ midi_need(status) \in 1 .. 2
      BY <1>5, <2>1, <2>3
    <3>4. usb_midi_cin_len(CinOf(status)) = 1 + midi_need(status)
      BY <2>1, <3>3, Cins
    <3> HIDE DEF bytes, data, next
    <3>5. Len(bytes) \in 1 .. 3 /\ usb_midi_cin_len(CinOf(status)) = Len(bytes)
      BY <3>2, <3>3, <3>4
    <3>6. Frames(s, b, next, bytes)
      BY <3>1, <3>2, <3>5, Framed
    <3> QED BY <1>7, <2>1, <2>3, <3>3, <3>6 DEF bytes, data, next
  <2> QED BY <2>2, <2>3
<1> QED BY <1>6, <1>7

\* The framer keeps what it promises, and sends a packet's bytes at most.
LEMMA FrameOK ==
  ASSUME NEW s, FramerOK(s), NEW b \in 0 .. 255
  PROVE  /\ FramerOK(rza1l_usb_midi_frame_byte(s, b).state)
         /\ Returned(s, b) \in ByteString
<1> DEFINE to == rza1l_usb_midi_frame_byte(s, b).state
<1>0. /\ <<>> \in ByteString /\ <<b>> \in ByteString /\ Len(<<>>) = 0 /\ <<>> \in Seq(DataByte)
      /\ Len(<<b>>) = 1
  BY DEF ByteString
<1>1. CASE b \in RealTime
  BY <1>0, <1>1, FramesRealTime DEF Frames
<1>2. CASE b = SysexStart
  <2>1. to = [s EXCEPT !.in_sysex = TRUE, !.sysex_buf = <<b>>] /\ Returned(s, b) = <<>>
    BY <1>2, FramesStart DEF Frames
  <2> HIDE DEF to
  <2>2. FramerOK(to)
    <3>1. /\ to.midi_status = s.midi_status /\ to.midi_data = s.midi_data
          /\ to.sysex_buf = <<b>>
      BY <2>1 DEF FramerOK
    <3>2. to \in [midi_status : {0} \cup Status, midi_data : Seq(DataByte),
                  in_sysex : BOOLEAN, sysex_buf : ByteString]
      BY <1>0, <2>1 DEF FramerOK
    <3> QED BY <1>0, <3>1, <3>2 DEF FramerOK
  <2> QED BY <1>0, <2>1, <2>2 DEF to
<1>3. CASE b = SysexEnd
  <2>1. CASE s.in_sysex
    <3>1. /\ to = [s EXCEPT !.in_sysex = FALSE, !.sysex_buf = <<>>]
          /\ Returned(s, b) = Append(s.sysex_buf, SysexEnd)
      BY <1>3, <2>1, FramesEnd DEF Frames
    <3> HIDE DEF to
    <3>2. FramerOK(to)
      <4>1. /\ to.midi_status = s.midi_status /\ to.midi_data = s.midi_data
            /\ to.sysex_buf = <<>>
        BY <3>1 DEF FramerOK
      <4>2. to \in [midi_status : {0} \cup Status, midi_data : Seq(DataByte),
                    in_sysex : BOOLEAN, sysex_buf : ByteString]
        BY <1>0, <3>1 DEF FramerOK
      <4> QED BY <1>0, <4>1, <4>2 DEF FramerOK
    <3>3. Append(s.sysex_buf, SysexEnd) \in ByteString
      BY <1>3, OneMore DEF FramerOK, ByteString
    <3> QED BY <3>1, <3>2, <3>3 DEF to
  <2>2. CASE ~ s.in_sysex
    BY <1>0, <1>3, <2>2, FramesEnd DEF Frames
  <2> QED BY <2>1, <2>2
<1>4. CASE b \in Status
  <2> DEFINE next == [midi_status |-> IF midi_data_len(b) = 0 THEN 0 ELSE b,
                      midi_data |-> <<>>, in_sysex |-> FALSE, sysex_buf |-> <<>>]
  <2>1. to = next /\ Returned(s, b) = IF midi_data_len(b) = 0 THEN <<b>> ELSE <<>>
    BY <1>4, FramesStatus DEF Frames
  <2>2. FramerOK(next)
    <3>1. next \in [midi_status : {0} \cup Status, midi_data : Seq(DataByte),
                    in_sysex : BOOLEAN, sysex_buf : ByteString]
      BY <1>0, <1>4
    <3>2. midi_need(b) = midi_data_len(b) /\ midi_data_len(b) \in 0 .. 2 /\ b # 0
      BY <1>4, Needs, Lengths
    <3>3. next.midi_status # 0 => next.midi_status = b /\ midi_need(b) > 0
      BY <3>2
    <3>4. next.midi_data = <<>> /\ next.sysex_buf = <<>>
      OBVIOUS
    <3> HIDE DEF next
    <3> QED BY <1>0, <3>1, <3>2, <3>3, <3>4 DEF FramerOK
  <2> QED BY <1>0, <2>1, <2>2
<1>5. CASE b \in DataByte /\ s.in_sysex
  <2> DEFINE bytes == Append(s.sysex_buf, b)
  <2>0. bytes \in ByteString /\ Len(bytes) \in 1 .. 3
    BY ShortAppend DEF FramerOK, ByteString
  <2>1. CASE Len(bytes) = 3
    <3>1. to = [s EXCEPT !.sysex_buf = <<>>] /\ Returned(s, b) = bytes
      BY <1>5, <2>1, FramesSysexData DEF Frames
    <3> HIDE DEF to, bytes
    <3>2. FramerOK(to)
      BY <1>0, <3>1 DEF FramerOK
    <3> QED BY <2>0, <3>1, <3>2 DEF to
  <2>2. CASE Len(bytes) # 3
    <3>1. to = [s EXCEPT !.sysex_buf = bytes] /\ Returned(s, b) = <<>>
      BY <1>5, <2>2, FramesSysexData DEF Frames
    <3> HIDE DEF to, bytes
    <3>2. FramerOK(to)
      <4>1. /\ to.midi_status = s.midi_status /\ to.midi_data = s.midi_data
            /\ to.sysex_buf = bytes
        BY <3>1 DEF FramerOK
      <4>2. to \in [midi_status : {0} \cup Status, midi_data : Seq(DataByte),
                    in_sysex : BOOLEAN, sysex_buf : ByteString]
        BY <2>0, <3>1 DEF FramerOK
      <4>3. Len(bytes) <= 2
        BY <2>0, <2>2
      <4> QED BY <4>1, <4>2, <4>3 DEF FramerOK
    <3> QED BY <1>0, <3>1, <3>2 DEF to
  <2> QED BY <2>1, <2>2
<1>6. CASE b \in DataByte /\ ~ s.in_sysex
  <2> DEFINE data == Append(s.midi_data, b)
             status == s.midi_status
  <2>0. data \in Seq(DataByte) /\ status \in {0} \cup Status
    BY <1>6, OneMore DEF FramerOK
  <2>1. CASE status = 0
    BY <1>0, <1>6, <2>1, FramesData DEF Frames
  <2>2. CASE status # 0 /\ Len(data) < midi_data_len(status)
    <3>1. to = [s EXCEPT !.midi_data = data] /\ Returned(s, b) = <<>>
      BY <1>6, <2>2, FramesData DEF Frames
    <3>2. midi_need(status) = midi_data_len(status)
      BY <2>0, <2>2, Needs
    <3> HIDE DEF to, data
    <3>3. to.midi_status = status /\ to.midi_data = data /\ to.sysex_buf = s.sysex_buf
      BY <3>1 DEF FramerOK
    <3>4. to \in [midi_status : {0} \cup Status, midi_data : Seq(DataByte),
                  in_sysex : BOOLEAN, sysex_buf : ByteString]
      BY <2>0, <3>1 DEF FramerOK
    <3>5. FramerOK(to)
      BY <2>2, <3>2, <3>3, <3>4 DEF FramerOK
    <3> QED BY <1>0, <3>1, <3>5 DEF to
  <2>3. CASE status # 0 /\ ~(Len(data) < midi_data_len(status))
    <3>1. /\ to = [s EXCEPT !.midi_data = <<>>, !.midi_status = Running(@)]
          /\ Returned(s, b) = <<status>> \o data
      BY <1>6, <2>3, FramesData DEF Frames
    <3>2. <<status>> \o data \in ByteString
      <4>1. status \in 0 .. 255
        BY <2>0, <2>3, Needs
      <4> QED BY <2>0, <4>1, ShortOf
    <3> HIDE DEF to, data
    <3>3. to.midi_status = Running(status) /\ to.midi_data = <<>> /\ to.sysex_buf = s.sysex_buf
      BY <3>1 DEF FramerOK
    <3>4. Running(status) # 0 => Running(status) \in Status /\ midi_need(Running(status)) > 0
      <4>1. Running(status) # 0 => Running(status) \in Voice
        BY Runs
      <4>2. Running(status) # 0 => Running(status) \in Status
        BY <4>1, Voices
      <4> QED BY <4>1, <4>2, Needs, Lengths
    <3>5. to \in [midi_status : {0} \cup Status, midi_data : Seq(DataByte),
                  in_sysex : BOOLEAN, sysex_buf : ByteString]
      BY <1>0, <3>1, <3>4 DEF FramerOK
    <3>6. Len(to.sysex_buf) <= 2 /\ Len(to.midi_data) = 0
      BY <1>0, <3>3 DEF FramerOK
    <3>7. FramerOK(to)
      BY <3>3, <3>4, <3>5, <3>6 DEF FramerOK
    <3> QED BY <3>1, <3>2, <3>7 DEF to
  <2> QED BY <2>1, <2>2, <2>3
<1> QED BY <1>1, <1>2, <1>3, <1>4, <1>5, <1>6, Kinds

-----------------------------------------------------------------------------
(* The second parser, a packet's bytes at a time.                           *)

LEMMA Next1 ==
  ASSUME NEW p, NEW k \in 0 .. Len(cur) - 1, At(p, k),
         cur \in Seq(0 .. 255), cur # <<>>, IsShort(cur) \/ IsSysex(cur)
  PROVE  Follows(p, k)
<1>1. CASE k = 0
  <2>1. Follows(p, 0)
    BY FirstOfShort, FirstOfSysex
  <2> QED BY <1>1, <2>1
<1>2. CASE k # 0
  <2>1. k \in 1 .. Len(cur) - 1
    BY <1>2
  <2>2. CASE IsShort(cur) /\ p = [running |-> Running(cur[1]), msg |-> Prefix(k), sysex |-> <<>>]
    BY <2>1, <2>2, NextOfShort
  <2>3. CASE IsSysex(cur) /\ p = [running |-> 0, msg |-> <<>>, sysex |-> KeptPrefix(k)]
    BY <2>1, <2>3, NextOfSysex
  <2> QED BY <1>2, <2>2, <2>3 DEF At
<1> QED BY <1>1, <1>2

\* After the first k bytes of the message: nothing came out, or the message.
Reached(r, k) ==
  IF k = Len(cur) THEN r.out = <<Cut(cur)>> ELSE r.out = <<>> /\ At(r.state, k)

LEMMA FedNext ==
  ASSUME NEW r, NEW k \in 0 .. Len(cur) - 1, Reached(r, k),
         cur \in Seq(0 .. 255), cur # <<>>, IsShort(cur) \/ IsSysex(cur),
         NEW bytes, NEW i \in DOMAIN bytes, bytes[i] = cur[k + 1]
  PROVE  Reached(FedByte(r, bytes, i), k + 1)
<1> DEFINE one == midi_parser_feed(r.state, cur[k + 1])
<1>1. k # Len(cur) /\ Len(cur) \in Nat
  OBVIOUS
<1>2. r.out = <<>> /\ At(r.state, k)
  BY <1>1 DEF Reached
<1>3. Follows(r.state, k)
  BY <1>2, Next1
<1>4. FedByte(r, bytes, i) = Stepped(one.state, <<>> \o one.out)
  BY <1>2 DEF FedByte
<1>5. CASE k + 1 = Len(cur)
  <2>1. one.out = <<Cut(cur)>>
    BY <1>3, <1>5 DEF Follows
  <2> HIDE DEF one
  <2>2. <<>> \o one.out = <<Cut(cur)>>
    BY <2>1
  <2> QED BY <1>4, <1>5, <2>2 DEF Reached, Stepped
<1>6. CASE k + 1 # Len(cur)
  <2>1. one.out = <<>>
    BY <1>3, <1>6 DEF Follows
  <2>2. At(one.state, k + 1)
    BY <1>3, <1>6 DEF Follows, At
  <2> HIDE DEF one
  <2>3. <<>> \o one.out = <<>>
    BY <2>1
  <2> QED BY <1>4, <1>6, <2>2, <2>3 DEF Reached, Stepped
<1> QED BY <1>5, <1>6

\* So a packet's bytes, the next of the message, take the parser that far on.
LEMMA FedRun ==
  ASSUME NEW p, NEW k \in Nat, NEW n \in 1 .. 3, k + n <= Len(cur), At(p, k),
         cur \in Seq(0 .. 255), cur # <<>>, IsShort(cur) \/ IsSysex(cur),
         NEW bytes \in ByteString, Len(bytes) = n, \A i \in 1 .. n : bytes[i] = cur[k + i]
  PROVE  Reached(Fed(p, bytes), k + n)
<1> DEFINE r0 == Stepped(p, <<>>)
           r1 == FedByte(r0, bytes, 1)
           r2 == FedByte(r1, bytes, 2)
           r3 == FedByte(r2, bytes, 3)
<1>1. DOMAIN bytes = 1 .. n
  BY Elements DEF ByteString
<1>2. Fed(p, bytes) = r3
  BY DEF Fed
<1>3. Reached(r0, k)
  BY DEF Reached, Stepped
<1> HIDE DEF r0
<1>4. Reached(r1, k + 1)
  <2>1. k \in 0 .. Len(cur) - 1 /\ 1 \in DOMAIN bytes /\ bytes[1] = cur[k + 1]
    BY <1>1
  <2> QED BY <1>3, <2>1, FedNext
<1> HIDE DEF r1
<1>5. n >= 2 => Reached(r2, k + 2)
  <2>1. SUFFICES ASSUME n >= 2 PROVE Reached(r2, k + 2)
    OBVIOUS
  <2>2. /\ k + 1 \in 0 .. Len(cur) - 1 /\ 2 \in DOMAIN bytes /\ bytes[2] = cur[k + 2]
        /\ k + 1 + 1 = k + 2
    BY <1>1, <2>1
  <2>3. Reached(r2, k + 1 + 1)
    BY <1>4, <2>2, FedNext
  <2> QED BY <2>2, <2>3
<1>6. n < 2 => r2 = r1
  <2>1. n < 2 => 2 \notin DOMAIN bytes
    BY <1>1
  <2> QED BY <2>1 DEF FedByte
<1> HIDE DEF r2
<1>7. n = 3 => Reached(r3, k + 3)
  <2>1. SUFFICES ASSUME n = 3 PROVE Reached(r3, k + 3)
    OBVIOUS
  <2>2. /\ k + 2 \in 0 .. Len(cur) - 1 /\ 3 \in DOMAIN bytes /\ bytes[3] = cur[k + 3]
        /\ k + 2 + 1 = k + 3 /\ n >= 2
    BY <1>1, <2>1
  <2>3. Reached(r3, k + 2 + 1)
    BY <1>5, <2>2, FedNext
  <2> QED BY <2>2, <2>3
<1>8. n < 3 => r3 = r2
  <2>1. n < 3 => 3 \notin DOMAIN bytes
    BY <1>1
  <2> QED BY <2>1 DEF FedByte
<1> HIDE DEF r3
<1>9. CASE n = 1
  BY <1>2, <1>4, <1>6, <1>8, <1>9
<1>10. CASE n = 2
  BY <1>2, <1>5, <1>8, <1>10
<1>11. CASE n = 3
  BY <1>2, <1>7, <1>11
<1> QED BY <1>9, <1>10, <1>11

\* Nothing sent back is nothing taken.
LEMMA FedNothing ==
  ASSUME NEW p
  PROVE  Fed(p, <<>>) = Stepped(p, <<>>)
<1>1. \A i \in {1, 2, 3} : i \notin DOMAIN <<>>
  OBVIOUS
<1> QED BY <1>1 DEF Fed, FedByte

LEMMA FedRealTime ==
  ASSUME NEW p, NEW b \in RealTime
  PROVE  Fed(p, <<b>>) = Stepped(p, <<<<b>>>>)
<1> DEFINE bytes == <<b>>
           r1 == Stepped(p, <<<<b>>>>)
<1>1. DOMAIN bytes = {1} /\ bytes[1] = b
  OBVIOUS
<1>2. <<>> \o <<<<b>>>> = <<<<b>>>>
  OBVIOUS
<1> HIDE DEF bytes
<1>3. FedByte(Stepped(p, <<>>), bytes, 1) = r1
  BY <1>1, <1>2, FeedsRealTime DEF FedByte, Stepped
<1>4. 2 \notin DOMAIN bytes /\ 3 \notin DOMAIN bytes
  BY <1>1
<1> HIDE DEF r1
<1>5. FedByte(r1, bytes, 2) = r1 /\ FedByte(r1, bytes, 3) = r1
  BY <1>4 DEF FedByte
<1>6. Fed(p, bytes) = r1
  BY <1>3, <1>5 DEF Fed
<1> QED BY <1>6 DEF bytes, r1

-----------------------------------------------------------------------------
(* The next byte of a message, through the device and back.                 *)

\* What a byte framed and sent back leaves behind.
Passes(s, p, n) ==
  LET b  == cur[n + 1]
      to == rza1l_usb_midi_frame_byte(s, b).state
      r  == Fed(p, Returned(s, b))
  IN  IF n + 1 = Len(cur)
      THEN /\ r.out = <<Cut(cur)>>
           /\ cur[1] \in Voice => to.midi_status = cur[1] /\ ~ to.in_sysex /\ to.midi_data = <<>>
      ELSE r.out = <<>> /\ Holds(to, r.state, n + 1)

LEMMA HoldsShort ==
  ASSUME NEW s, NEW p, NEW n, ~ IsSysex(cur), s.midi_status = cur[1], ~ s.in_sysex,
         s.midi_data = [i \in 1 .. n - 1 |-> cur[i + 1]]
  PROVE  Holds(s, p, n)
  BY DEF Holds

LEMMA HoldsSysex ==
  ASSUME NEW s, NEW p, NEW n, NEW k, ~ IsShort(cur), s.in_sysex, k = n - Len(s.sysex_buf),
         k \in 0 .. n, At(p, k), \A i \in 1 .. Len(s.sysex_buf) : s.sysex_buf[i] = cur[k + i]
  PROVE  Holds(s, p, n)
  BY DEF Holds

LEMMA PassesFirstShort ==
  ASSUME NEW s, NEW p, cur \in Seq(0 .. 255), cur # <<>>, IsShort(cur)
  PROVE  Passes(s, p, 0)
<1> DEFINE b == cur[1]
           to == rza1l_usb_midi_frame_byte(s, b).state
           back == Returned(s, b)
           r == Fed(p, back)
<1>1. /\ b \in Status /\ b \in 0 .. 255 /\ Len(cur) = 1 + midi_data_len(b)
      /\ midi_data_len(b) \in 0 .. 2 /\ ~ IsSysex(cur)
  BY Lengths, Either, Needs DEF IsShort
<1>2. /\ to = [midi_status |-> IF midi_data_len(b) = 0 THEN 0 ELSE b,
               midi_data |-> <<>>, in_sysex |-> FALSE, sysex_buf |-> <<>>]
      /\ back = IF midi_data_len(b) = 0 THEN <<b>> ELSE <<>>
  BY <1>1, FramesStatus DEF Frames
<1>3. Passes(s, p, 0) =
        IF 1 = Len(cur)
        THEN /\ r.out = <<Cut(cur)>>
             /\ b \in Voice => to.midi_status = b /\ ~ to.in_sysex /\ to.midi_data = <<>>
        ELSE r.out = <<>> /\ Holds(to, r.state, 1)
  BY DEF Passes
<1>4. CASE midi_data_len(b) = 0
  <2>1. Len(cur) = 1 /\ b \notin Voice
    BY <1>1, <1>4, Lengths
  <2>2. back = <<b>>
    BY <1>2, <1>4
  <2>3. back \in ByteString /\ Len(back) = 1
    BY <1>1, <2>2, Single
  <2>4. \A i \in 1 .. 1 : back[i] = cur[0 + i]
    BY <2>2
  <2> HIDE DEF back
  <2>5. At(p, 0) /\ 0 + 1 <= Len(cur) /\ 1 \in 1 .. 3
    BY <2>1 DEF At
  <2>6. Reached(r, 0 + 1)
    BY <2>3, <2>4, <2>5, FedRun
  <2>7. r.out = <<Cut(cur)>>
    BY <2>1, <2>6 DEF Reached
  <2> QED BY <1>3, <2>1, <2>7
<1>5. CASE midi_data_len(b) # 0
  <2>1. 1 # Len(cur) /\ back = <<>>
    BY <1>1, <1>2, <1>5
  <2>2. r.out = <<>>
    BY <2>1, FedNothing DEF Stepped
  <2>3. to.midi_status = b /\ ~ to.in_sysex /\ to.midi_data = <<>>
    BY <1>2, <1>5
  <2> HIDE DEF to, r
  <2>4. <<>> = [i \in 1 .. 1 - 1 |-> cur[i + 1]]
    OBVIOUS
  <2>5. Holds(to, r.state, 1)
    BY <1>1, <2>3, <2>4 DEF Holds
  <2> QED BY <1>3, <2>1, <2>2, <2>5
<1> QED BY <1>4, <1>5

LEMMA PassesNextShort ==
  ASSUME NEW s, NEW p, FramerOK(s), cur \in Seq(0 .. 255), cur # <<>>, IsShort(cur),
         NEW n \in 1 .. Len(cur) - 1, Holds(s, p, n)
  PROVE  Passes(s, p, n)
<1> DEFINE b == cur[n + 1]
           to == rza1l_usb_midi_frame_byte(s, b).state
           back == Returned(s, b)
           r == Fed(p, back)
           had == [i \in 1 .. n - 1 |-> cur[i + 1]]
           data == Append(s.midi_data, b)
<1>1. /\ cur[1] \in Status /\ cur[1] # 0 /\ cur[1] \in 0 .. 255
      /\ Len(cur) = 1 + midi_data_len(cur[1]) /\ midi_data_len(cur[1]) \in 0 .. 2
      /\ ~ IsSysex(cur) /\ \A i \in 2 .. Len(cur) : cur[i] \in DataByte
  BY Lengths, Either, Needs DEF IsShort
<1>2. b \in DataByte
  BY <1>1
<1>3. s.midi_status = cur[1] /\ ~ s.in_sysex /\ s.midi_data = had
  BY DEF Holds
<1>4. data \in Seq(DataByte) /\ Len(data) = n /\ \A i \in 1 .. n : data[i] = cur[i + 1]
  <2>1. had \in Seq(DataByte) /\ Len(had) = n - 1
    <3>1. \A i \in 1 .. n - 1 : cur[i + 1] \in DataByte
      BY <1>1
    <3>2. n - 1 \in Nat
      OBVIOUS
    <3> HIDE DEF DataByte
    <3> QED BY <3>1, <3>2
  <2>2. \A i \in 1 .. n - 1 : had[i] = cur[i + 1]
    OBVIOUS
  <2> HIDE DEF had
  <2>3. /\ data \in Seq(DataByte) /\ Len(data) = Len(had) + 1
        /\ \A i \in 1 .. Len(had) : data[i] = had[i]
        /\ data[Len(had) + 1] = b
    BY <1>2, <1>3, <2>1, OneMore
  <2> HIDE DEF data
  <2>4. Len(data) = n /\ data[n] = b /\ \A i \in 1 .. n - 1 : data[i] = had[i]
    BY <2>1, <2>3
  <2>5. \A i \in 1 .. n : i = n \/ i \in 1 .. n - 1
    OBVIOUS
  <2> QED BY <2>2, <2>3, <2>4, <2>5
<1>5. Passes(s, p, n) =
        IF n + 1 = Len(cur)
        THEN /\ r.out = <<Cut(cur)>>
             /\ cur[1] \in Voice =>
                  to.midi_status = cur[1] /\ ~ to.in_sysex /\ to.midi_data = <<>>
        ELSE r.out = <<>> /\ Holds(to, r.state, n + 1)
  BY DEF Passes
<1>6. CASE n + 1 # Len(cur)
  <2>1. Len(data) < midi_data_len(cur[1])
    BY <1>1, <1>4, <1>6
  <2>2. to = [s EXCEPT !.midi_data = data] /\ back = <<>>
    BY <1>1, <1>2, <1>3, <2>1, FramesData DEF Frames
  <2>3. r.out = <<>>
    BY <2>2, FedNothing DEF Stepped
  <2> HIDE DEF data, to, r
  <2>4. to.midi_status = cur[1] /\ ~ to.in_sysex /\ to.midi_data = data
    BY <1>3, <2>2 DEF FramerOK
  <2>5. data = [i \in 1 .. n + 1 - 1 |-> cur[i + 1]]
    BY <1>4
  <2>6. Holds(to, r.state, n + 1)
    <3>1. to.midi_data = [i \in 1 .. n + 1 - 1 |-> cur[i + 1]]
      BY <2>4, <2>5, Zenon
    <3>2. to.midi_status = cur[1] /\ ~ to.in_sysex /\ ~ IsSysex(cur)
      BY <1>1, <2>4
    <3> QED BY <3>1, <3>2, HoldsShort
  <2> QED BY <1>5, <1>6, <2>3, <2>6
<1>7. CASE n + 1 = Len(cur)
  <2> DEFINE next == [s EXCEPT !.midi_data = <<>>, !.midi_status = Running(@)]
  <2>1. ~(Len(data) < midi_data_len(cur[1]))
    BY <1>1, <1>4, <1>7
  <2>2. to = next /\ back = <<cur[1]>> \o data
    BY <1>1, <1>2, <1>3, <2>1, FramesData DEF Frames
  <2>3. /\ back \in ByteString /\ Len(back) = n + 1 /\ back[1] = cur[1]
        /\ \A i \in 1 .. n : back[i + 1] = cur[i + 1]
    <3> HIDE DEF back, data
    <3>1. /\ <<cur[1]>> \o data \in ByteString
          /\ Len(<<cur[1]>> \o data) = 1 + Len(data) /\ (<<cur[1]>> \o data)[1] = cur[1]
          /\ \A i \in 1 .. Len(data) : (<<cur[1]>> \o data)[i + 1] = data[i]
      BY <1>1, <1>4, ShortOf
    <3>2. /\ back \in ByteString /\ Len(back) = 1 + Len(data) /\ back[1] = cur[1]
          /\ \A i \in 1 .. Len(data) : back[i + 1] = data[i]
      BY <2>2, <3>1, Zenon
    <3>3. Len(back) = n + 1
      BY <1>4, <3>2
    <3>4. \A i \in 1 .. n : back[i + 1] = cur[i + 1]
      BY <1>4, <3>2
    <3> QED BY <3>2, <3>3, <3>4
  <2> HIDE DEF back, data
  <2>4. \A i \in 1 .. n + 1 : back[i] = cur[0 + i]
    <3> SUFFICES ASSUME NEW i \in 1 .. n + 1 PROVE back[i] = cur[0 + i]
      OBVIOUS
    <3>1. CASE i = 1
      BY <2>3, <3>1
    <3>2. CASE i # 1
      <4>1. i - 1 \in 1 .. n /\ i - 1 + 1 = i /\ 0 + i = i
        BY <3>2
      <4>2. back[i - 1 + 1] = cur[i - 1 + 1]
        BY <2>3, <4>1
      <4> QED BY <4>1, <4>2
    <3> QED BY <3>1, <3>2
  <2>5. n + 1 \in 1 .. 3 /\ 0 + (n + 1) <= Len(cur) /\ At(p, 0)
    BY <1>1, <1>7 DEF At
  <2>6. Reached(r, 0 + (n + 1))
    BY <2>3, <2>4, <2>5, FedRun
  <2>7. r.out = <<Cut(cur)>>
    BY <1>7, <2>6 DEF Reached
  <2>8. /\ next.midi_data = <<>> /\ next.in_sysex = s.in_sysex
        /\ next.midi_status = Running(cur[1])
    BY <1>3 DEF FramerOK
  <2>9. cur[1] \in Voice => Running(cur[1]) = cur[1]
    BY Runs
  <2> HIDE DEF next, to, r
  <2> QED BY <1>3, <1>5, <1>7, <2>2, <2>7, <2>8, <2>9
<1> QED BY <1>6, <1>7

LEMMA PassesFirstSysex ==
  ASSUME NEW s, NEW p, FramerOK(s), cur \in Seq(0 .. 255), cur # <<>>, IsSysex(cur)
  PROVE  Passes(s, p, 0)
<1> DEFINE b == cur[1]
           to == rza1l_usb_midi_frame_byte(s, b).state
           r == Fed(p, Returned(s, b))
<1>1. b = SysexStart /\ 1 # Len(cur) /\ ~ IsShort(cur)
  BY Either DEF IsSysex
<1>2. to = [s EXCEPT !.in_sysex = TRUE, !.sysex_buf = <<b>>] /\ Returned(s, b) = <<>>
  BY <1>1, FramesStart DEF Frames
<1>3. r.out = <<>>
  BY <1>2, FedNothing DEF Stepped
<1>4. Passes(s, p, 0) = (r.out = <<>> /\ Holds(to, r.state, 1))
  BY <1>1 DEF Passes
<1> HIDE DEF to, r
<1>5. to.in_sysex /\ to.sysex_buf = <<b>>
  BY <1>2 DEF FramerOK
<1>6. Len(to.sysex_buf) = 1 /\ 1 - Len(to.sysex_buf) = 0 /\ to.sysex_buf[1] = cur[1]
  BY <1>5
<1>7. \A i \in 1 .. Len(to.sysex_buf) : to.sysex_buf[i] = cur[0 + i]
  BY <1>6
<1>8. Holds(to, r.state, 1)
  BY <1>1, <1>5, <1>6, <1>7 DEF Holds, At
<1> QED BY <1>3, <1>4, <1>8

LEMMA PassesNextSysex ==
  ASSUME NEW s, NEW p, FramerOK(s), cur \in Seq(0 .. 255), cur # <<>>, IsSysex(cur),
         NEW n \in 1 .. Len(cur) - 1, Holds(s, p, n)
  PROVE  Passes(s, p, n)
<1> DEFINE b == cur[n + 1]
           buf == s.sysex_buf
           k == n - Len(buf)
           bytes == Append(buf, b)
           to == rza1l_usb_midi_frame_byte(s, b).state
           back == Returned(s, b)
           r == Fed(p, back)
<1>1. /\ ~ IsShort(cur) /\ cur[1] \notin Voice /\ b \in 0 .. 255 /\ Len(cur) \in Nat
  <2>1. ~ IsShort(cur) /\ cur[1] \notin Voice
    BY Either DEF IsSysex, SysexStart, Voice
  <2>2. b \in 0 .. 255 /\ Len(cur) \in Nat
    <3>1. Len(cur) \in Nat /\ \A i \in 1 .. Len(cur) : cur[i] \in 0 .. 255
      BY Elements
    <3>2. n + 1 \in 1 .. Len(cur)
      BY <3>1
    <3> QED BY <3>1, <3>2
  <2> QED BY <2>1, <2>2
<1>2. /\ s.in_sysex /\ k \in 0 .. n /\ At(p, k)
      /\ \A i \in 1 .. Len(buf) : buf[i] = cur[k + i]
  BY DEF Holds
<1>3. buf \in ByteString /\ Len(buf) <= 2 /\ Len(buf) \in Nat
  BY Elements DEF FramerOK, ByteString
<1>4. /\ bytes \in ByteString /\ Len(bytes) \in 1 .. 3 /\ Len(bytes) = Len(buf) + 1
      /\ \A i \in 1 .. Len(buf) : bytes[i] = buf[i]
      /\ bytes[Len(buf) + 1] = b
  BY <1>1, <1>3, OneMore, ShortAppend DEF ByteString
<1>5. Passes(s, p, n) =
        IF n + 1 = Len(cur)
        THEN /\ r.out = <<Cut(cur)>>
             /\ cur[1] \in Voice =>
                  to.midi_status = cur[1] /\ ~ to.in_sysex /\ to.midi_data = <<>>
        ELSE r.out = <<>> /\ Holds(to, r.state, n + 1)
  BY DEF Passes
<1>6. k \in Nat /\ k + Len(bytes) = n + 1 /\ n + 1 <= Len(cur) /\ k + (Len(buf) + 1) = n + 1
  <2> HIDE DEF bytes, buf
  <2> QED BY <1>1, <1>2, <1>3, <1>4
<1>7. \A i \in 1 .. Len(bytes) : bytes[i] = cur[k + i]
  <2> HIDE DEF bytes, buf, k
  <2> SUFFICES ASSUME NEW i \in 1 .. Len(bytes) PROVE bytes[i] = cur[k + i]
    OBVIOUS
  <2>1. CASE i = Len(buf) + 1
    BY <1>4, <1>6, <2>1
  <2>2. CASE i # Len(buf) + 1
    <3>1. i \in 1 .. Len(buf)
      BY <1>3, <1>4, <2>2
    <3> QED BY <1>2, <1>4, <3>1
  <2> QED BY <2>1, <2>2
<1> HIDE DEF bytes, k
\* The bytes held and this one, taken by the parser.
<1>8. Reached(Fed(p, bytes), n + 1)
  <2> DEFINE m == Len(bytes)
  <2>1. m \in 1 .. 3 /\ Len(bytes) = m /\ \A i \in 1 .. m : bytes[i] = cur[k + i]
    BY <1>4, <1>7
  <2>2. k \in Nat /\ k + m = n + 1 /\ k + m <= Len(cur) /\ At(p, k) /\ bytes \in ByteString
    BY <1>2, <1>4, <1>6
  <2> HIDE DEF m
  <2>3. Reached(Fed(p, bytes), k + m)
    BY <2>1, <2>2, FedRun
  <2> QED BY <2>2, <2>3
<1>9. CASE n + 1 = Len(cur)
  <2>1. b = SysexEnd
    BY <1>9 DEF IsSysex
  <2>2. back = bytes
    BY <1>2, <2>1, FramesEnd DEF Frames, bytes
  <2>3. r.out = <<Cut(cur)>>
    BY <1>8, <1>9, <2>2 DEF Reached
  <2> QED BY <1>1, <1>5, <1>9, <2>3
<1>10. CASE n + 1 # Len(cur)
  <2>1. b \in DataByte
    BY <1>10 DEF IsSysex
  <2>2. CASE Len(bytes) = 3
    <3>1. to = [s EXCEPT !.sysex_buf = <<>>] /\ back = bytes
      BY <1>2, <2>1, <2>2, FramesSysexData DEF Frames, bytes
    <3>2. r.out = <<>> /\ At(r.state, n + 1)
      BY <1>8, <1>10, <3>1 DEF Reached
    <3> HIDE DEF to, r
    <3>3. to.in_sysex /\ to.sysex_buf = <<>>
      BY <1>2, <3>1 DEF FramerOK
    <3>4. Len(to.sysex_buf) = 0 /\ n + 1 - Len(to.sysex_buf) = n + 1 /\ n + 1 \in 0 .. n + 1
      BY <3>3
    <3>5. Holds(to, r.state, n + 1)
      BY <1>1, <3>2, <3>3, <3>4, HoldsSysex
    <3> QED BY <1>5, <1>10, <3>2, <3>5
  <2>3. CASE Len(bytes) # 3
    <3>1. to = [s EXCEPT !.sysex_buf = bytes] /\ back = <<>>
      BY <1>2, <2>1, <2>3, FramesSysexData DEF Frames, bytes
    <3>2. r = Stepped(p, <<>>)
      BY <3>1, FedNothing
    <3>3. r.out = <<>> /\ r.state = p
      BY <3>2 DEF Stepped
    <3> HIDE DEF to, r
    <3>4. to.in_sysex /\ to.sysex_buf = bytes
      BY <1>2, <3>1 DEF FramerOK
    <3>5. n + 1 - Len(bytes) = k /\ k \in 0 .. n + 1
      BY <1>4, <1>6
    <3>6. Holds(to, p, n + 1)
      <4>1. /\ k = n + 1 - Len(to.sysex_buf)
            /\ \A i \in 1 .. Len(to.sysex_buf) : to.sysex_buf[i] = cur[k + i]
        BY <1>7, <3>4, <3>5
      <4>2. ~ IsShort(cur) /\ to.in_sysex /\ At(p, k)
        BY <1>1, <1>2, <3>4
      <4> DEFINE m == n + 1
      <4>3. k = m - Len(to.sysex_buf)
        BY <4>1
      <4>4. k \in 0 .. m
        BY <3>5
      <4> HIDE DEF m
      <4>5. Holds(to, p, m)
        BY <4>1, <4>2, <4>3, <4>4, HoldsSysex
      <4> QED BY <4>5 DEF m
    <3> QED BY <1>5, <1>10, <3>3, <3>6
  <2> QED BY <2>2, <2>3
<1> QED BY <1>9, <1>10

\* Each byte of a message passes through.
LEMMA PassesAll ==
  ASSUME NEW s, NEW p, FramerOK(s), cur \in Seq(0 .. 255), cur # <<>>,
         IsShort(cur) \/ IsSysex(cur), NEW n \in 0 .. Len(cur) - 1, n > 0 => Holds(s, p, n)
  PROVE  Passes(s, p, n)
<1>1. CASE n = 0
  <2>1. Passes(s, p, 0)
    BY PassesFirstShort, PassesFirstSysex
  <2> QED BY <1>1, <2>1
<1>2. CASE n # 0
  <2>1. n \in 1 .. Len(cur) - 1 /\ n > 0
    BY <1>2
  <2> QED BY <2>1, PassesNextShort, PassesNextSysex
<1> QED BY <1>1, <1>2

-----------------------------------------------------------------------------
LEMMA JoinInit == Init => JoinInv
<1> SUFFICES ASSUME Init PROVE JoinInv
  OBVIOUS
<1>1. Inv
  BY Initially
<1>2. ParserOK(bridge) /\ ParserOK(far) /\ WholeOut(got) /\ WholeOut(thru)
  BY InitOK, NothingOut DEF Init
<1>3. FramerOK(framer)
  <2>1. <<>> \in ByteString /\ <<>> \in Seq(DataByte) /\ Len(<<>>) = 0
    BY DEF ByteString
  <2> QED BY <2>1 DEF Init, FramerReset, FramerOK
<1>4. Through
  BY DEF Init, Through, FramedWithin, FramedBetween, ComesBack
<1> QED BY <1>1, <1>2, <1>3, <1>4 DEF JoinInv, Wholes

LEMMA ArriveWhole ==
  ASSUME Wholes, NEW b \in 0 .. 255, Arrive(b)
  PROVE  Wholes'
<1>1. ParserOK(bridge') /\ WholeOut(got')
  BY FeedOK DEF Wholes, Arrive
<1>2. FramerOK(framer') /\ Back(b) \in ByteString
  <2>1. Back(b) = Returned(framer, b)
    BY DEF Back, Returned
  <2> QED BY <2>1, FrameOK DEF Wholes, Arrive
<1>3. ParserOK(far') /\ WholeOut(thru')
  BY <1>2, FedsOK DEF Wholes, Arrive, FedOK
<1> QED BY <1>1, <1>2, <1>3 DEF Wholes

LEMMA ThroughSend ==
  ASSUME JoinInv, Send
  PROVE  Through'
<1> DEFINE b == cur[pos + 1]
           to == rza1l_usb_midi_frame_byte(framer, b).state
           r == Fed(far, Returned(framer, b))
<1>1. /\ cur # <<>> /\ cur \in Seq(0 .. 255) /\ (IsShort(cur) \/ IsSysex(cur))
      /\ pos \in 0 .. Len(cur) - 1 /\ runs = Running(cur[1])
      /\ Advance /\ framed' = (framed \/ pos = 0) /\ FramerOK(framer)
  <2>1. Advance /\ cur # <<>> /\ framed' = (framed \/ pos = 0)
    BY DEF Send, Advance
  <2>2. Sending /\ FramerOK(framer)
    BY DEF JoinInv, Wholes, Inv
  <2> QED BY <2>1, <2>2 DEF Sending
<1>2. framer' = to /\ far' = r.state /\ thru' = r.out
  BY DEF Send, Arrive, Back, Returned
<1>3. CASE ~ framed'
  BY <1>3 DEF Through, FramedWithin, FramedBetween, ComesBack
<1>4. CASE framed'
  <2>1. pos > 0 => Holds(framer, far, pos)
    <3>1. SUFFICES ASSUME pos > 0 PROVE Holds(framer, far, pos)
      OBVIOUS
    <3>2. pos # 0
      BY <1>1, <3>1
    <3>3. framed
      BY <1>1, <1>4, <3>2, Zenon
    <3> QED BY <1>1, <3>1, <3>3 DEF JoinInv, Through, FramedWithin
  <2>2. Passes(framer, far, pos)
    BY <1>1, <2>1, PassesAll
  <2>3. IF pos + 1 = Len(cur)
        THEN /\ r.out = <<Cut(cur)>>
             /\ cur[1] \in Voice => to.midi_status = cur[1] /\ ~ to.in_sysex /\ to.midi_data = <<>>
        ELSE r.out = <<>> /\ Holds(to, r.state, pos + 1)
    BY <2>2 DEF Passes
  <2> HIDE DEF to, r
  <2>4. CASE pos + 1 = Len(cur)
    <3>1. cur' = <<>> /\ sent' = <<cur>> /\ runs' = runs /\ thru' = <<Cut(cur)>>
      BY <1>1, <1>2, <2>3, <2>4 DEF Advance
    <3>2. Expected' = <<Cut(cur)>>
      BY <3>1 DEF Expected
    <3>3. runs' # 0 => cur[1] \in Voice /\ runs' = cur[1]
      BY <1>1, <3>1 DEF Running
    <3>4. runs' # 0 => framer'.midi_status = runs' /\ ~ framer'.in_sysex /\ framer'.midi_data = <<>>
      BY <1>2, <2>3, <2>4, <3>3
    <3> QED BY <3>1, <3>2, <3>4 DEF Through, FramedWithin, FramedBetween, ComesBack
  <2>5. CASE pos + 1 # Len(cur)
    <3>1. cur' = cur /\ pos' = pos + 1 /\ sent' = <<>> /\ thru' = <<>>
      BY <1>1, <1>2, <2>3, <2>5 DEF Advance
    <3>2. Expected' = <<>>
      BY <3>1 DEF Expected
    <3>3. Holds(to, r.state, pos + 1)
      BY <2>3, <2>5
    <3>4. Holds(framer, far, pos)'
      BY <1>2, <3>1, <3>3
         DEF Holds, At, IsShort, IsSysex, Prefix, KeptPrefix
    <3> QED BY <1>1, <3>1, <3>2, <3>4 DEF Through, FramedWithin, FramedBetween, ComesBack
  <2> QED BY <2>4, <2>5
<1> QED BY <1>3, <1>4

LEMMA ThroughBegin ==
  ASSUME JoinInv, NEW m \in Message, Begin(m)
  PROVE  Through'
<1>1. m \in Seq(0 .. 255) /\ m # <<>> /\ (IsShort(m) \/ IsSysex(m))
  BY Shapes
<1>2. /\ cur = <<>> /\ cur' = m /\ UNCHANGED <<framer, far, framed>>
      /\ sent' = <<>> /\ thru' = <<>>
      /\ pos' = 0 \/ (m[1] = runs /\ pos' = 1)
  BY DEF Begin, Silent
<1>3. ASSUME framed', cur' # <<>>, pos' > 0
      PROVE  Holds(framer, far, pos)'
  <2>1. pos' = 1 /\ m[1] = runs /\ runs \in {0} \cup Voice /\ framed
    BY <1>2, <1>3 DEF JoinInv, Inv, Sending
  <2>2. 0 \notin Status /\ 0 # SysexStart /\ SysexStart \notin Voice /\ SysexStart \notin Status
    BY DEF Status, SysexStart, Voice
  <2>3. runs # 0 /\ IsShort(m) /\ ~ IsSysex(m)
    BY <1>1, <2>1, <2>2 DEF IsShort, IsSysex
  <2>4. framer.midi_status = m[1] /\ ~ framer.in_sysex /\ framer.midi_data = <<>>
    BY <1>2, <2>1, <2>3 DEF JoinInv, Through, FramedBetween
  <2>5. <<>> = [i \in 1 .. 1 - 1 |-> m[i + 1]]
    OBVIOUS
  <2>6. framer'.midi_status = cur'[1] /\ ~ framer'.in_sysex /\ ~ IsSysex(cur')
    BY <1>2, <2>3, <2>4
  <2>7. framer'.midi_data = [i \in 1 .. pos' - 1 |-> cur'[i + 1]]
    BY <1>2, <2>1, <2>4, <2>5
  <2> QED BY <2>6, <2>7 DEF Holds, IsSysex
<1>4. Expected' = <<>>
  BY <1>2 DEF Expected
<1> QED BY <1>1, <1>2, <1>3, <1>4 DEF Through, FramedWithin, FramedBetween, ComesBack

LEMMA ThroughRealTime ==
  ASSUME JoinInv, NEW b \in RealTime, SendRealTime(b)
  PROVE  Through'
<1>1. rza1l_usb_midi_frame_byte(framer, b).state = framer /\ Back(b) = <<b>>
  BY FramesRealTime DEF Frames, Returned, Back
<1>2. /\ framer' = framer /\ far' = far /\ thru' = <<<<b>>>> /\ sent' = <<<<b>>>>
      /\ UNCHANGED <<cur, pos, runs, framed>>
  <2>1. Fed(far, Back(b)).state = far /\ Fed(far, Back(b)).out = <<<<b>>>>
    <3>1. Fed(far, <<b>>) = Stepped(far, <<<<b>>>>)
      BY FedRealTime
    <3> QED BY <1>1, <3>1 DEF Stepped
  <2> QED BY <1>1, <2>1 DEF SendRealTime, Arrive, sender
<1>3. Room(1) = 1
  BY FramingAssumption DEF Room
<1>4. Cut(<<b>>) = <<b>>
  BY <1>3 DEF Cut
<1>5. Expected' = <<<<b>>>>
  BY <1>2, <1>4 DEF Expected
<1> QED BY <1>2, <1>5 DEF JoinInv, Through, FramedWithin, FramedBetween, ComesBack,
          Holds, At, IsShort, IsSysex, Prefix, KeptPrefix

LEMMA JoinStep == JoinInv /\ [Next]_vars => JoinInv'
<1> SUFFICES ASSUME JoinInv, [Next]_vars PROVE JoinInv'
  OBVIOUS
<1>1. Inv'
  BY Preserved DEF JoinInv
<1>2. /\ WholeOut(<<>>) /\ ParserOK(midi_parser_init) /\ Wholes
      /\ FramerOK(FramerReset)
  <2>1. <<>> \in ByteString /\ <<>> \in Seq(DataByte) /\ Len(<<>>) = 0
    BY DEF ByteString
  <2> QED BY <2>1, InitOK, NothingOut DEF JoinInv, FramerReset, FramerOK
<1>3. ASSUME NEW m \in Message, Begin(m) PROVE Wholes' /\ Through'
  BY <1>2, <1>3, ThroughBegin DEF Begin, Silent, Wholes
<1>4. ASSUME Send PROVE Wholes' /\ Through'
  <2>1. Sending /\ cur # <<>> /\ Arrive(cur[pos + 1])
    BY <1>4 DEF JoinInv, Inv, Send, Advance
  <2>2. cur[pos + 1] \in 0 .. 255
    <3>1. cur \in Seq(0 .. 255) /\ pos \in 0 .. Len(cur) - 1
      BY <2>1 DEF Sending
    <3>2. Len(cur) \in Nat /\ \A i \in 1 .. Len(cur) : cur[i] \in 0 .. 255
      BY <3>1, Elements
    <3>3. pos + 1 \in 1 .. Len(cur)
      BY <3>1, <3>2
    <3> QED BY <3>2, <3>3
  <2>3. Wholes'
    BY <1>2, <2>1, <2>2, ArriveWhole
  <2> QED BY <1>4, <2>3, ThroughSend
<1>5. ASSUME Lose PROVE Wholes' /\ Through'
  <2>1. Wholes'
    BY <1>2, <1>5 DEF Lose, Wholes
  <2>2. ~ framed'
    BY <1>5 DEF Lose
  <2>3. Through'
    BY <2>2 DEF Through, FramedWithin, FramedBetween, ComesBack
  <2> QED BY <2>1, <2>3
<1>6. ASSUME NEW b \in RealTime, SendRealTime(b) PROVE Wholes' /\ Through'
  <2>1. b \in 0 .. 255
    BY <1>6 DEF RealTime
  <2> QED BY <1>2, <1>6, <2>1, ArriveWhole, ThroughRealTime DEF SendRealTime
<1>7. ASSUME Restart PROVE Wholes' /\ Through'
  <2>1. /\ UNCHANGED <<bridge, framer, far, framed>> /\ got' = <<>> /\ thru' = <<>>
        /\ cur' = <<>> /\ sent' = <<>> /\ runs' = 0
    BY <1>7 DEF Restart, Silent
  <2>2. Wholes'
    BY <1>2, <2>1 DEF Wholes
  <2>3. Expected' = <<>>
    BY <2>1 DEF Expected
  <2>4. Through'
    BY <2>1, <2>3 DEF Through, FramedWithin, FramedBetween, ComesBack
  <2> QED BY <2>2, <2>4
<1>8. ASSUME RestartBridge PROVE Wholes' /\ Through'
  <2>1. Wholes'
    BY <1>2, <1>8 DEF RestartBridge, Silent, Wholes
  <2>2. ~ framed'
    BY <1>8 DEF RestartBridge
  <2>3. Through'
    BY <2>2 DEF Through, FramedWithin, FramedBetween, ComesBack
  <2> QED BY <2>1, <2>3
<1>9. ASSUME ResetDevice PROVE Wholes' /\ Through'
  <2>1. Wholes'
    BY <1>2, <1>9 DEF ResetDevice, Silent, Wholes
  <2>2. ~ framed'
    BY <1>9 DEF ResetDevice
  <2>3. Through'
    BY <2>2 DEF Through, FramedWithin, FramedBetween, ComesBack
  <2> QED BY <2>1, <2>3
<1>10. ASSUME UNCHANGED vars PROVE Wholes' /\ Through'
  <2>1. /\ UNCHANGED <<bridge, framer, far, framed, got, thru, sent, cur, pos, runs>>
        /\ Through
    BY <1>10 DEF vars, sender, JoinInv
  <2>2. Wholes'
    BY <1>2, <2>1 DEF Wholes
  <2>3. FramedWithin'
    BY <2>1 DEF Through, FramedWithin, Holds, At, IsShort, IsSysex, Prefix, KeptPrefix
  <2>4. Expected' = Expected
    BY <2>1 DEF Expected, Cut
  <2>5. FramedBetween' /\ ComesBack'
    BY <2>1, <2>4 DEF Through, FramedBetween, ComesBack
  <2> QED BY <2>2, <2>3, <2>5 DEF Through
<1>11. Wholes' /\ Through'
  <2>1. (\E m \in Message : Begin(m)) => Wholes' /\ Through'
    BY <1>3
  <2>2. (\E b \in RealTime : SendRealTime(b)) => Wholes' /\ Through'
    BY <1>6
  <2> QED BY <1>4, <1>5, <1>7, <1>8, <1>9, <1>10, <2>1, <2>2 DEF Next
<1> QED BY <1>1, <1>11 DEF JoinInv

\* Where sender, parsers and framer are holds in every reachable state.
THEOREM StreamInvariance == Spec => []JoinInv
  BY JoinInit, JoinStep, PTL DEF Spec

\* NothingJoined: for any statuses, data, SysEx lengths and buffer size, what
\* comes back through the device is what the bridge would have heard, and only
\* whole messages go to the host's ports.
THEOREM StreamWhole == Spec => []NothingJoined
<1>1. JoinInv => NothingJoined
  BY DEF JoinInv, Wholes, Through, ComesBack, WholeOut, NothingJoined
<1> QED BY <1>1, StreamInvariance, PTL

-----------------------------------------------------------------------------
(* The bridge's connections (MidiBridge).  The property says that a        *)
(* descriptor in use is some transport's; the invariant adds that each     *)
(* transport polled has one, so that the bridge never reads a descriptor   *)
(* it has not, and the types from which a free descriptor can be counted   *)
(* on: of as many as there are transports one is free as long as a         *)
(* transport is without.                                                   *)

FileEntry == [to : 0 .. N, open : BOOLEAN, unread : BOOLEAN]

BridgeTypes ==
  /\ file \in [B!Descriptor -> FileEntry]
  /\ fd \in [B!Transport -> B!Descriptor \cup {B!None}]
  /\ at \in 1 .. N + 1 /\ ready \in SUBSET B!Transport

\* What is polled is connected.
PolledConnected == \A t \in ready : fd[t] # B!None

BridgeInv == BridgeTypes /\ PolledConnected /\ B!ConnectionsOwned

LEMMA LeastOf ==
  ASSUME NEW S \in SUBSET Nat, S # {}
  PROVE  \E d \in S : \A e \in S : d <= e
<1> DEFINE R == OpToRel(<, Nat)
<1>1. IsWellFoundedOn(R, Nat)
  BY NatLessThanWellFounded, Zenon
<1>2. \A x, y \in Nat : x < y => <<x, y>> \in R
  BY DEF OpToRel
<1> HIDE DEF R
<1>3. PICK d \in S : \A e \in S : ~(<<e, d>> \in R)
  BY <1>1, WFMin
<1>4. \A e \in S : ~(e < d)
  BY <1>2, <1>3
<1> QED BY <1>4

LEMMA LowestIn ==
  ASSUME NEW S \in SUBSET Nat, S # {}
  PROVE  B!Lowest(S) \in S
BY LeastOf DEF B!Lowest

\* Who has a descriptor is told by the kernel's table.
LEMMA Owner ==
  ASSUME BridgeInv
  PROVE  /\ \A t \in B!Transport : fd[t] # B!None => file[fd[t]].to = t /\ file[fd[t]] # B!Free
                                                     /\ fd[t] \in B!Descriptor
         /\ \A d \in B!Descriptor : file[d] # B!Free =>
              file[d].to \in B!Transport /\ fd[file[d].to] = d
<1>1. ASSUME NEW t \in B!Transport, fd[t] # B!None
      PROVE  file[fd[t]].to = t /\ file[fd[t]] # B!Free /\ fd[t] \in B!Descriptor
  <2>1. file[fd[t]].to = t /\ fd[t] \in B!Descriptor
    BY <1>1 DEF BridgeInv, BridgeTypes, B!ConnectionsOwned
  <2>2. t # 0
    BY DEF B!Transport
  <2> QED BY <2>1, <2>2 DEF B!Free
<1>2. ASSUME NEW d \in B!Descriptor, file[d] # B!Free
      PROVE  file[d].to \in B!Transport /\ fd[file[d].to] = d
  <2>1. PICK t \in B!Transport : fd[t] = d
    BY <1>2 DEF BridgeInv, B!ConnectionsOwned
  <2>2. d # B!None
    BY DEF B!Descriptor, B!None
  <2> QED BY <1>1, <2>1, <2>2
<1> QED BY <1>1, <1>2

\* A transport without a descriptor finds one free.
LEMMA OneFree ==
  ASSUME B!BridgeAssumption, BridgeInv, NEW t \in B!Transport, fd[t] = B!None
  PROVE  {d \in B!Descriptor : file[d] = B!Free} # {}
<1> SUFFICES ASSUME \A d \in B!Descriptor : file[d] # B!Free
             PROVE  FALSE
  OBVIOUS
<1> DEFINE others == B!Transport \ {t}
           f == [d \in B!Descriptor |-> file[d].to]
<1>1. f \in [B!Descriptor -> others]
  <2>1. ASSUME NEW d \in B!Descriptor
        PROVE  file[d].to \in others
    <3>1. file[d].to \in B!Transport /\ fd[file[d].to] = d
      BY Owner
    <3>2. d # B!None
      BY DEF B!Descriptor, B!None
    <3> QED BY <3>1, <3>2
  <2> QED BY <2>1
<1>2. IsFiniteSet(B!Transport) /\ Cardinality(B!Transport) = N
  <2>1. 1 \in Int /\ N \in Int /\ N >= 1
    BY DEF B!BridgeAssumption
  <2>2. IsFiniteSet(1 .. N) /\ Cardinality(1 .. N) = IF 1 > N THEN 0 ELSE N - 1 + 1
    BY <2>1, FS_Interval
  <2> QED BY <2>1, <2>2 DEF B!Transport
<1>3. IsFiniteSet(others) /\ Cardinality(others) = N - 1
  BY <1>2, FS_RemoveElement
<1>4. IsFiniteSet(B!Descriptor) /\ Cardinality(B!Descriptor) = Descriptors
  <2>1. 0 \in Int /\ Descriptors - 1 \in Int /\ Descriptors >= 1
    BY DEF B!BridgeAssumption
  <2>2. IsFiniteSet(0 .. Descriptors - 1)
        /\ Cardinality(0 .. Descriptors - 1) = IF 0 > Descriptors - 1 THEN 0
                                               ELSE (Descriptors - 1) - 0 + 1
    BY <2>1, FS_Interval
  <2>3. ~(0 > Descriptors - 1) /\ (Descriptors - 1) - 0 + 1 = Descriptors
    BY DEF B!BridgeAssumption
  <2>4. IsFiniteSet(0 .. Descriptors - 1) /\ Cardinality(0 .. Descriptors - 1) = Descriptors
    BY <2>2, <2>3
  <2> QED BY <2>4, Zenon DEF B!Descriptor
<1>5. Cardinality(others) < Cardinality(B!Descriptor)
  BY <1>3, <1>4 DEF B!BridgeAssumption
<1> HIDE DEF others, f
<1>6. PICK x \in B!Descriptor, y \in B!Descriptor : x # y /\ f[x] = f[y]
  BY <1>1, <1>3, <1>4, <1>5, FS_PigeonHole
<1>7. fd[f[x]] = x /\ fd[f[y]] = y
  BY Owner DEF f
<1> QED BY <1>6, <1>7

LEMMA BridgeInit ==
  ASSUME B!BridgeAssumption, B!Init
  PROVE  BridgeInv
<1>1. N \in Nat \ {0}
  BY DEF B!BridgeAssumption
<1>2. B!Free \in FileEntry /\ 1 \in 1 .. N + 1
  BY <1>1 DEF B!Free, FileEntry
<1>3. BridgeTypes
  BY <1>2 DEF B!Init, BridgeTypes
<1> QED BY <1>3 DEF B!Init, BridgeInv, PolledConnected, B!ConnectionsOwned

\* Changes of flags: what they leave.
LEMMA FlagsOnly ==
  ASSUME NEW table \in [B!Descriptor -> FileEntry]
  PROVE  LET closed == [d \in B!Descriptor |-> [table[d] EXCEPT !.open = FALSE]]
             alerted(d) == [table EXCEPT ![d].unread = TRUE]
         IN  /\ closed \in [B!Descriptor -> FileEntry]
             /\ \A e \in B!Descriptor : closed[e].to = table[e].to
                                        /\ (table[e] = B!Free => closed[e] = B!Free)
             /\ \A d \in B!Descriptor : table[d].open =>
                  /\ alerted(d) \in [B!Descriptor -> FileEntry]
                  /\ \A e \in B!Descriptor : alerted(d)[e].to = table[e].to
                                             /\ (table[e] = B!Free => alerted(d)[e] = B!Free)
<1>1. \A r \in FileEntry : /\ [r EXCEPT !.open = FALSE] \in FileEntry
                           /\ [r EXCEPT !.open = FALSE].to = r.to
                           /\ r = B!Free => [r EXCEPT !.open = FALSE] = B!Free
                           /\ [r EXCEPT !.unread = TRUE] \in FileEntry
                           /\ [r EXCEPT !.unread = TRUE].to = r.to
                           /\ r = B!Free => ~r.open
  <2> SUFFICES ASSUME NEW r \in FileEntry
               PROVE  /\ [r EXCEPT !.open = FALSE] \in FileEntry
                      /\ [r EXCEPT !.open = FALSE].to = r.to
                      /\ r = B!Free => [r EXCEPT !.open = FALSE] = B!Free
                      /\ [r EXCEPT !.unread = TRUE] \in FileEntry
                      /\ [r EXCEPT !.unread = TRUE].to = r.to
                      /\ r = B!Free => ~r.open
    OBVIOUS
  <2>1. /\ [r EXCEPT !.open = FALSE] \in FileEntry
        /\ [r EXCEPT !.unread = TRUE] \in FileEntry
    BY DEF FileEntry
  <2>2. [r EXCEPT !.open = FALSE].to = r.to /\ [r EXCEPT !.unread = TRUE].to = r.to
    BY DEF FileEntry
  <2>3. r = B!Free => [r EXCEPT !.open = FALSE] = B!Free
    <3>1. ~r.open => [r EXCEPT !.open = FALSE] = r
      BY DEF FileEntry
    <3>2. r = B!Free => ~r.open
      BY DEF B!Free
    <3> QED BY <3>1, <3>2
  <2>4. r = B!Free => ~r.open
    BY DEF B!Free
  <2> QED BY <2>1, <2>2, <2>3, <2>4
<1> HIDE DEF FileEntry
<1> QED BY <1>1

\* Steps that change the table's flags alone.
LEMMA OwnersKept ==
  ASSUME BridgeInv, UNCHANGED <<fd, ready, at>>, file' \in [B!Descriptor -> FileEntry],
         \A d \in B!Descriptor : file'[d].to = file[d].to /\ (file[d] = B!Free => file'[d] = B!Free)
  PROVE  BridgeInv'
<1>1. BridgeTypes' /\ PolledConnected'
  BY DEF BridgeInv, BridgeTypes, PolledConnected
<1>2. \A t \in B!Transport : fd[t] # B!None => fd[t] \in B!Descriptor
  BY DEF BridgeInv, BridgeTypes
<1> QED BY <1>1, <1>2 DEF BridgeInv, B!ConnectionsOwned

LEMMA Connect ==
  ASSUME B!BridgeAssumption, BridgeInv, B!connect_socket
  PROVE  BridgeInv'
<1> DEFINE free == {d \in B!Descriptor : file[d] = B!Free}
           new == B!Lowest(free)
           made == [to |-> at, open |-> TRUE, unread |-> FALSE]
<1>0. N \in Nat \ {0} /\ at \in 1 .. N /\ at' = at + 1 /\ UNCHANGED ready
  BY DEF B!connect_socket, B!BridgeAssumption, BridgeInv, BridgeTypes
<1>1. at' \in 1 .. N + 1
  BY <1>0
<1>2. CASE fd[at] = B!None /\ at \in listening
  <2>1. at \in B!Transport /\ fd' = [fd EXCEPT ![at] = new] /\ file' = [file EXCEPT ![new] = made]
    BY <1>0, <1>2 DEF B!connect_socket, B!Transport
  <2>2. free # {} /\ free \in SUBSET Nat
    <3>1. free # {}
      BY <1>2, <2>1, OneFree
    <3>2. B!Descriptor \subseteq Nat
      BY DEF B!Descriptor
    <3> QED BY <3>1, <3>2
  <2>3. new \in B!Descriptor /\ file[new] = B!Free
    <3> HIDE DEF free
    <3>1. new \in free
      BY <2>2, LowestIn
    <3> QED BY <3>1 DEF free
  <2>4. new # B!None /\ made # B!Free /\ made \in FileEntry
    BY <1>0, <2>3 DEF B!Descriptor, B!None, B!Free, FileEntry
  <2>5. \A t \in B!Transport : fd[t] # B!None => fd[t] # new
    BY <2>3, Owner
  <2> HIDE DEF new, made
  <2>6. BridgeTypes'
    BY <1>0, <1>1, <2>1, <2>3, <2>4 DEF BridgeInv, BridgeTypes
  <2>7. PolledConnected'
    BY <1>0, <2>1, <2>4 DEF BridgeInv, BridgeTypes, PolledConnected
  <2>8. \A t \in B!Transport : fd'[t] # B!None => file'[fd'[t]].to = t
    <3> SUFFICES ASSUME NEW t \in B!Transport, fd'[t] # B!None
                 PROVE  file'[fd'[t]].to = t
      OBVIOUS
    <3>1. CASE t = at
      <4>1. fd'[t] = new /\ file'[new] = made
        BY <2>1, <2>3, <3>1 DEF BridgeInv, BridgeTypes
      <4> QED BY <3>1, <4>1 DEF made
    <3>2. CASE t # at
      <4>1. fd'[t] = fd[t] /\ fd[t] # new /\ fd[t] \in B!Descriptor
        BY <2>1, <2>5, <3>2, Owner DEF BridgeInv, BridgeTypes
      <4>2. file'[fd[t]] = file[fd[t]]
        BY <2>1, <4>1 DEF BridgeInv, BridgeTypes
      <4> QED BY <4>1, <4>2, Owner
    <3> QED BY <3>1, <3>2
  <2>9. \A d \in B!Descriptor : file'[d] # B!Free => \E t \in B!Transport : fd'[t] = d
    <3> SUFFICES ASSUME NEW d \in B!Descriptor, file'[d] # B!Free
                 PROVE  \E t \in B!Transport : fd'[t] = d
      OBVIOUS
    <3>1. CASE d = new
      BY <2>1, <3>1 DEF BridgeInv, BridgeTypes
    <3>2. CASE d # new
      <4>1. file[d] # B!Free
        BY <2>1, <3>2 DEF BridgeInv, BridgeTypes
      <4>2. PICK t \in B!Transport : fd[t] = d
        BY <4>1 DEF BridgeInv, B!ConnectionsOwned
      <4>3. t # at
        BY <1>2, <4>2 DEF B!Descriptor, B!None
      <4> QED BY <2>1, <4>2, <4>3 DEF BridgeInv, BridgeTypes
    <3> QED BY <3>1, <3>2
  <2> QED BY <2>6, <2>7, <2>8, <2>9 DEF BridgeInv, B!ConnectionsOwned
<1>3. CASE ~(fd[at] = B!None /\ at \in listening)
  <2>1. UNCHANGED <<fd, file>>
    BY <1>3, Zenon DEF B!connect_socket
  <2> QED BY <1>0, <1>1, <2>1 DEF BridgeInv, BridgeTypes, PolledConnected, B!ConnectionsOwned
<1> QED BY <1>2, <1>3

LEMMA ServeStep ==
  ASSUME B!BridgeAssumption, BridgeInv, B!Serve
  PROVE  BridgeInv'
<1> DEFINE t == B!Lowest(ready)
<1>0. N \in Nat \ {0}
  BY DEF B!BridgeAssumption
<1>1. /\ ready # {} /\ ready' = ready \ {t} /\ at' = IF ready' = {} THEN 1 ELSE at
      /\ IF file[fd[t]].unread
         THEN file' = [file EXCEPT ![fd[t]].unread = FALSE] /\ UNCHANGED fd
         ELSE B!HangUp(t)
  BY DEF B!Serve
<1>2. t \in ready
  <2>1. ready \in SUBSET Nat
    BY DEF BridgeInv, BridgeTypes, B!Transport
  <2> QED BY <1>1, <2>1, LowestIn
<1> HIDE DEF t
<1>3. /\ t \in B!Transport /\ fd[t] # B!None /\ fd[t] \in B!Descriptor /\ file[fd[t]].to = t
      /\ file[fd[t]] # B!Free
  BY <1>2, Owner DEF BridgeInv, BridgeTypes, PolledConnected
<1>4. at' \in 1 .. N + 1 /\ ready' \in SUBSET B!Transport
  BY <1>0, <1>1 DEF BridgeInv, BridgeTypes
<1>5. CASE file[fd[t]].unread
  <2>1. file' = [file EXCEPT ![fd[t]].unread = FALSE] /\ UNCHANGED fd
    BY <1>1, <1>5
  <2>2. /\ file' \in [B!Descriptor -> FileEntry]
        /\ \A d \in B!Descriptor : file'[d].to = file[d].to
        /\ \A d \in B!Descriptor : d # fd[t] => file'[d] = file[d]
    BY <1>3, <2>1 DEF BridgeInv, BridgeTypes, FileEntry
  <2>3. BridgeTypes' /\ PolledConnected'
    BY <1>1, <1>4, <2>1, <2>2 DEF BridgeInv, BridgeTypes, PolledConnected
  <2>4. \A u \in B!Transport : fd'[u] # B!None => file'[fd'[u]].to = u
    BY <2>1, <2>2, Owner
  <2>5. \A d \in B!Descriptor : file'[d] # B!Free => \E u \in B!Transport : fd'[u] = d
    <3> SUFFICES ASSUME NEW d \in B!Descriptor, file'[d] # B!Free
                 PROVE  \E u \in B!Transport : fd[u] = d
      BY <2>1
    <3>1. CASE d = fd[t]
      BY <1>3, <3>1
    <3>2. CASE d # fd[t]
      BY <2>2, <3>2 DEF BridgeInv, B!ConnectionsOwned
    <3> QED BY <3>1, <3>2
  <2> QED BY <2>3, <2>4, <2>5 DEF BridgeInv, B!ConnectionsOwned
<1>6. CASE ~file[fd[t]].unread
  <2>1. fd' = [fd EXCEPT ![t] = B!None] /\ file' = [file EXCEPT ![fd[t]] = B!Free]
    BY <1>1, <1>6 DEF B!HangUp
  <2>2. B!Free \in FileEntry
    BY <1>0 DEF B!Free, FileEntry
  <2>3. BridgeTypes'
    BY <1>3, <1>4, <2>1, <2>2 DEF BridgeInv, BridgeTypes
  <2>4. PolledConnected'
    BY <1>1, <2>1 DEF BridgeInv, BridgeTypes, PolledConnected
  <2>5. \A u \in B!Transport : fd'[u] # B!None => file'[fd'[u]].to = u
    <3> SUFFICES ASSUME NEW u \in B!Transport, fd'[u] # B!None
                 PROVE  file'[fd'[u]].to = u
      OBVIOUS
    <3>1. u # t /\ fd'[u] = fd[u]
      BY <2>1, <1>3 DEF BridgeInv, BridgeTypes
    <3>2. fd[u] \in B!Descriptor /\ file[fd[u]].to = u
      BY <3>1, Owner
    <3>3. fd[u] # fd[t]
      BY <1>3, <3>1, <3>2
    <3>4. file'[fd[u]] = file[fd[u]]
      BY <2>1, <3>2, <3>3 DEF BridgeInv, BridgeTypes
    <3> QED BY <3>1, <3>2, <3>4
  <2>6. \A d \in B!Descriptor : file'[d] # B!Free => \E u \in B!Transport : fd'[u] = d
    <3> SUFFICES ASSUME NEW d \in B!Descriptor, file'[d] # B!Free
                 PROVE  \E u \in B!Transport : fd'[u] = d
      OBVIOUS
    <3>1. d # fd[t] /\ file[d] # B!Free
      BY <1>3, <2>1 DEF BridgeInv, BridgeTypes
    <3>2. PICK u \in B!Transport : fd[u] = d
      BY <3>1 DEF BridgeInv, B!ConnectionsOwned
    <3> QED BY <2>1, <3>1, <3>2 DEF BridgeInv, BridgeTypes
  <2> QED BY <2>3, <2>4, <2>5, <2>6 DEF BridgeInv, B!ConnectionsOwned
<1> QED BY <1>5, <1>6

LEMMA BridgeStep ==
  ASSUME B!BridgeAssumption, BridgeInv, [B!Next]_(B!vars)
  PROVE  BridgeInv'
<1>0. N \in Nat \ {0} /\ file \in [B!Descriptor -> FileEntry]
  BY DEF B!BridgeAssumption, BridgeInv, BridgeTypes
<1>1. CASE B!Quit
  <2>1. file' = [d \in B!Descriptor |-> [file[d] EXCEPT !.open = FALSE]]
        /\ UNCHANGED <<fd, at, ready>>
    BY <1>1 DEF B!Quit
  <2>2. file' \in [B!Descriptor -> FileEntry]
        /\ \A d \in B!Descriptor : file'[d].to = file[d].to
                                   /\ (file[d] = B!Free => file'[d] = B!Free)
    BY <1>0, <2>1, FlagsOnly
  <2> QED BY <2>1, <2>2, OwnersKept
<1>2. ASSUME NEW d \in B!Descriptor, B!GuestSends(d)
      PROVE  BridgeInv'
  <2>1. file' = [file EXCEPT ![d].unread = TRUE] /\ file[d].open /\ UNCHANGED <<fd, at, ready>>
    BY <1>2 DEF B!GuestSends
  <2>2. file' \in [B!Descriptor -> FileEntry]
        /\ \A e \in B!Descriptor : file'[e].to = file[e].to
                                   /\ (file[e] = B!Free => file'[e] = B!Free)
    BY <1>0, <2>1, FlagsOnly
  <2> QED BY <2>1, <2>2, OwnersKept
<1>3. CASE B!Poll
  <2>1. at' \in 1 .. N + 1 /\ ready' = B!PollSet /\ UNCHANGED <<file, fd>>
    BY <1>0, <1>3 DEF B!Poll, BridgeInv, BridgeTypes
  <2>2. BridgeTypes' /\ PolledConnected'
    BY <2>1 DEF BridgeInv, BridgeTypes, PolledConnected, B!PollSet, B!Reported
  <2> QED BY <2>1, <2>2 DEF BridgeInv, B!ConnectionsOwned
<1>4. ASSUME NEW t \in B!Transport, B!Create(t) \/ B!host_to_deluge(t)
      PROVE  BridgeInv'
  <2>1. UNCHANGED <<file, fd, at, ready>>
    BY <1>4 DEF B!Create, B!host_to_deluge
  <2> QED BY <1>0, <2>1, OwnersKept
<1>5. CASE B!WritePacket \/ UNCHANGED B!vars
  <2>1. UNCHANGED <<file, fd, at, ready>>
    BY <1>5 DEF B!WritePacket, B!vars
  <2> QED BY <1>0, <2>1, OwnersKept
<1> QED BY <1>1, <1>2, <1>3, <1>4, <1>5, Connect, ServeStep DEF B!Next, B!Main

(* Every connection of the bridge belongs to the transport that made it,   *)
(* and to no other, for any number of transports and of descriptors that   *)
(* is no smaller: none is leaked, taken twice or read for another,         *)
(* wherever a guest quits (connect_socket, main).                          *)
THEOREM NoConnectionLost == B!Spec => []ConnectionsOwned
<1>1. B!Init => BridgeInv
  BY BridgeInit, BridgeAssumption
<1>2. BridgeInv /\ [B!Next]_(B!vars) => BridgeInv'
  BY BridgeStep, BridgeAssumption
<1>3. BridgeInv => ConnectionsOwned
  BY DEF BridgeInv, ConnectionsOwned
<1> QED BY <1>1, <1>2, <1>3, PTL DEF B!Spec
=============================================================================
