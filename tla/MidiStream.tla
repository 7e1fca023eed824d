----------------------------- MODULE MidiStream -----------------------------
(***************************************************************************)
(* A stream of MIDI messages, through the bridge's parser and through the  *)
(* USB device and back.  The sender is any MIDI sender: it may leave out a *)
(* status that runs, put a real-time byte between any two bytes, and stop  *)
(* in mid-message when it is restarted.  The link may lose any bytes, for  *)
(* nobody is connected while the bridge or the emulator is restarted, and  *)
(* either parser may be begun anew in mid-message.                         *)
(*                                                                         *)
(* The device's packets are taken for sent back as they are, as by a       *)
(* firmware that passes everything through, to a second parser of the      *)
(* bridge.                                                                 *)
(***************************************************************************)
EXTENDS MidiFraming

CONSTANTS
  Statuses,      \* status bytes in use
  Data,          \* data bytes in use
  MaxSysex       \* bound: data bytes of a SysEx

ASSUME StreamAssumption ==
  /\ Statuses \subseteq Status /\ Data \subseteq DataByte /\ MaxSysex \in Nat

VARIABLES
  cur, pos,          \* the sender's message, its bytes already sent
  runs,              \* the status the sender may leave out
  bridge,            \* the bridge's parser of the stream
  framer,            \* the device's
  far,               \* the bridge's parser of what the device sends back
  heard, framed,     \* history: all bytes of the message came in since its first
  sent, got, thru    \* messages the last byte completed: sent, parsed, sent back

sender == <<cur, pos, runs>>
vars == <<sender, bridge, framer, far, heard, framed, sent, got, thru>>

ShortMessage ==
  UNION {{<<s>> \o d : d \in [1 .. midi_data_len(s) -> Data]} : s \in Statuses}
Sysex ==
  UNION {{<<SysexStart>> \o d \o <<SysexEnd>> : d \in [1 .. n -> Data]} : n \in 0 .. MaxSysex}
Message == ShortMessage \cup Sysex

Init ==
  /\ cur = <<>> /\ pos = 0 /\ runs = 0
  /\ bridge = midi_parser_init /\ framer = FramerReset /\ far = midi_parser_init
  /\ heard = FALSE /\ framed = FALSE
  /\ sent = <<>> /\ got = <<>> /\ thru = <<>>

-----------------------------------------------------------------------------
\* After what a parser has made of the bytes before, the i-th, if there is one.
FedByte(before, bytes, i) ==
  LET one == midi_parser_feed(before.state, bytes[i])
  IN  IF i \in DOMAIN bytes THEN Stepped(one.state, before.out \o one.out) ELSE before

\* A parser's state and messages once it has taken these bytes, three at most.
Fed(p, bytes) ==
  FedByte(FedByte(FedByte(Stepped(p, <<>>), bytes, 1), bytes, 2), bytes, 3)

\* What the device sends back for a byte.
Back(b) ==
  LET packets == rza1l_usb_midi_frame_byte(framer, b).out
  IN  IF packets = <<>> THEN <<>> ELSE rza1l_usb_flush_tx(packets[1])

Arrive(b) ==
  /\ bridge' = midi_parser_feed(bridge, b).state
  /\ got' = midi_parser_feed(bridge, b).out
  /\ framer' = rza1l_usb_midi_frame_byte(framer, b).state
  /\ far' = Fed(far, Back(b)).state
  /\ thru' = Fed(far, Back(b)).out

Silent == sent' = <<>> /\ got' = <<>> /\ thru' = <<>>

\* The sender turns to its next message, with its status or without.
Begin(m) ==
  /\ cur = <<>>
  /\ cur' = m
  /\ pos' \in {0} \cup IF m[1] = runs THEN {1} ELSE {}
  /\ runs' = IF m[1] \in Voice THEN m[1] ELSE 0
  /\ Silent
  /\ UNCHANGED <<bridge, framer, far, heard, framed>>

Advance ==
  /\ cur # <<>>
  /\ IF pos + 1 = Len(cur)
     THEN cur' = <<>> /\ pos' = 0 /\ sent' = <<cur>>
     ELSE cur' = cur /\ pos' = pos + 1 /\ sent' = <<>>
  /\ runs' = runs

Send ==
  /\ Advance
  /\ Arrive(cur[pos + 1])
  /\ heard' = (heard \/ pos = 0) /\ framed' = (framed \/ pos = 0)

Lose ==
  /\ Advance
  /\ got' = <<>> /\ thru' = <<>>
  /\ heard' = FALSE /\ framed' = FALSE
  /\ UNCHANGED <<bridge, framer, far>>

SendRealTime(b) ==
  /\ Arrive(b)
  /\ sent' = <<<<b>>>>
  /\ UNCHANGED <<sender, heard, framed>>

\* The sender is restarted: what it was sending is never finished.
Restart ==
  /\ cur' = <<>> /\ pos' = 0 /\ runs' = 0
  /\ Silent
  /\ UNCHANGED <<bridge, framer, far, heard, framed>>

RestartBridge ==
  /\ bridge' = midi_parser_init /\ far' = midi_parser_init
  /\ heard' = FALSE /\ framed' = FALSE
  /\ Silent
  /\ UNCHANGED <<sender, framer>>

ResetDevice ==
  /\ framer' = FramerReset
  /\ framed' = FALSE
  /\ Silent
  /\ UNCHANGED <<sender, bridge, far, heard>>

Next ==
  \/ \E m \in Message : Begin(m)
  \/ Send \/ Lose
  \/ \E b \in RealTime : SendRealTime(b)
  \/ Restart \/ RestartBridge \/ ResetDevice

Spec == Init /\ [][Next]_vars

-----------------------------------------------------------------------------

\* What the bridge makes of a message: it keeps no more than it has room for.
Room(n) == IF n < MIDI_MAX_MSG THEN n ELSE MIDI_MAX_MSG
Cut(m) == [i \in 1 .. Room(Len(m)) |-> m[i]]
Expected == [i \in DOMAIN sent |-> Cut(sent[i])]

\* The bridge (midi_parser_feed) emits each message with its last byte, and
\* nothing else, with statuses left out and real-time bytes anywhere; after a
\* loss or a restart in mid-message, from the next message sent with its status.
BridgeHears == heard => got = Expected

\* What comes out is a whole message, a SysEx perhaps cut for want of room.
Whole(m) ==
  \/ /\ m[1] \in Status \cup RealTime /\ Len(m) = 1 + midi_data_len(m[1])
     /\ \A i \in 2 .. Len(m) : m[i] \in DataByte
  \/ /\ m[1] = SysexStart /\ (m[Len(m)] = SysexEnd \/ Len(m) = MIDI_MAX_MSG)
     /\ \A i \in 2 .. Len(m) - 1 : m[i] \in DataByte

\* Framing into the device's packets (rza1l_usb_midi_frame_byte) and out of
\* them (rza1l_usb_flush_tx) loses nothing and joins nothing: each message
\* comes back as the bridge would have heard it; and whatever was lost or
\* restarted on the way, only whole messages go to the host's ports.
NothingJoined ==
  /\ framed => thru = Expected
  /\ \A m \in {got[i] : i \in DOMAIN got} \cup {thru[i] : i \in DOMAIN thru} : Whole(m)
=============================================================================
