---------------------------- MODULE MidiFraming ----------------------------
(***************************************************************************)
(* MIDI bytes and messages.  Two parsers take a byte stream apart: that of *)
(* the bridge to the host's MIDI ports (src/scripts/midi_bridge.c), which  *)
(* emits messages, and that of the synthetic USB-MIDI device               *)
(* (src/src/hw/usb/rza1l_usb.c), which emits event packets.  On the way    *)
(* back the device turns packets into bytes again.                         *)
(*                                                                         *)
(* Bytes are numbers.  A parser is a record; one byte gives its next state *)
(* and what it emits.                                                      *)
(***************************************************************************)
EXTENDS Integers, Sequences

CONSTANT MIDI_MAX_MSG      \* bytes of a SysEx the bridge keeps

ASSUME FramingAssumption == MIDI_MAX_MSG \in Nat /\ MIDI_MAX_MSG >= 3

SysexStart == 240
SysexEnd == 247
RealTime == 248 .. 255
Status == (128 .. 246) \ {SysexStart}   \* channel voice and system common
Voice == 128 .. 239                     \* those that run
DataByte == 0 .. 127

Stepped(state, out) == [state |-> state, out |-> out]

-----------------------------------------------------------------------------
(* The bridge's parser.  msg is empty while no status is in progress,      *)
(* sysex outside a SysEx.                                                  *)

midi_parser_init == [running |-> 0, msg |-> <<>>, sysex |-> <<>>]

\* Data bytes that follow a status.
midi_data_len(status) ==
  IF status \in (128 .. 191) \cup (224 .. 239) \cup {242} THEN 2
  ELSE IF status \in (192 .. 223) \cup {241, 243} THEN 1
  ELSE 0

Kept(sysex, b) == IF Len(sysex) < MIDI_MAX_MSG THEN Append(sysex, b) ELSE sysex

\* Fault for the runs: the data bytes of a message cut short are kept.
FaultFeedStatus(p, b) ==
  Stepped([running |-> IF b \in Voice THEN b ELSE 0,
           msg     |-> IF midi_data_len(b) = 0 THEN <<>>
                       ELSE IF p.msg = <<>> THEN <<b>> ELSE [p.msg EXCEPT ![1] = b],
           sysex   |-> <<>>],
          IF midi_data_len(b) = 0 THEN <<<<b>>>> ELSE <<>>)

\* Any other status than the two of a SysEx ends a SysEx and begins a message.
FeedStatus(p, b) ==
  Stepped([running |-> IF b \in Voice THEN b ELSE 0,
           msg     |-> IF midi_data_len(b) = 0 THEN <<>> ELSE <<b>>,
           sysex   |-> <<>>],
          IF midi_data_len(b) = 0 THEN <<<<b>>>> ELSE <<>>)

FeedEnd(p) ==
  Stepped(midi_parser_init,
          IF p.sysex = <<>> THEN <<>> ELSE <<Kept(p.sysex, SysexEnd)>>)

\* A data byte outside a SysEx: stray, or the next of the message in progress.
\* A message leaves its status for the next one, if it is one that runs.
FeedData(p, b) ==
  LET begun == IF p.msg = <<>> /\ p.running # 0 THEN <<p.running>> ELSE p.msg
      more  == Append(begun, b)
  IN  IF begun = <<>> THEN Stepped(p, <<>>)
      ELSE IF Len(more) <= midi_data_len(more[1])
      THEN Stepped([p EXCEPT !.msg = more], <<>>)
      ELSE Stepped([p EXCEPT !.msg = IF p.running # 0 THEN <<p.running>> ELSE <<>>],
                   <<more>>)

midi_parser_feed(p, b) ==
  CASE b \in RealTime -> Stepped(p, <<<<b>>>>)
    [] b = SysexStart -> Stepped([midi_parser_init EXCEPT !.sysex = <<b>>], <<>>)
    [] b = SysexEnd   -> FeedEnd(p)
    [] b \in Status   -> FeedStatus(p, b)
    [] b \in DataByte /\ p.sysex # <<>> ->
                         Stepped([p EXCEPT !.sysex = Kept(@, b)], <<>>)
    [] OTHER          -> FeedData(p, b)

-----------------------------------------------------------------------------
(* The device's framer: bytes in, packets out.  The pending SysEx bytes    *)
(* may be none within a SysEx, so that in_sysex is kept apart.             *)

FramerReset ==
  [midi_status |-> 0, midi_data |-> <<>>, in_sysex |-> FALSE, sysex_buf |-> <<>>]

Packet(cin, bytes) ==
  [cin |-> cin, bytes |-> [i \in 1 .. 3 |-> IF i \in DOMAIN bytes THEN bytes[i] ELSE 0]]

midi_need(status) ==
  IF status \in Voice THEN IF status < 192 \/ status >= 224 THEN 2 ELSE 1
  ELSE IF status = 242 THEN 2
  ELSE IF status \in {241, 243} THEN 1 ELSE 0

\* Fault for the runs: the data bytes of a message cut short are kept.
FaultFrameStatus(s, b) ==
  Stepped([s EXCEPT !.in_sysex = FALSE, !.sysex_buf = <<>>,
                    !.midi_status = IF midi_need(b) = 0 THEN 0 ELSE b],
          IF midi_need(b) = 0 THEN <<Packet(5, <<b>>)>> ELSE <<>>)

FrameStatus(s, b) ==
  Stepped([midi_status |-> IF midi_need(b) = 0 THEN 0 ELSE b,
           midi_data |-> <<>>, in_sysex |-> FALSE, sysex_buf |-> <<>>],
          IF midi_need(b) = 0 THEN <<Packet(5, <<b>>)>> ELSE <<>>)

\* The last bytes of a SysEx: one, two or three of them.
FrameEnd(s) ==
  LET bytes == Append(s.sysex_buf, SysexEnd)
  IN  IF s.in_sysex
      THEN Stepped([s EXCEPT !.in_sysex = FALSE, !.sysex_buf = <<>>],
                   <<Packet(4 + Len(bytes), bytes)>>)
      ELSE Stepped(s, <<>>)

FrameSysexData(s, b) ==
  LET bytes == Append(s.sysex_buf, b)
  IN  IF Len(bytes) = 3
      THEN Stepped([s EXCEPT !.sysex_buf = <<>>], <<Packet(4, bytes)>>)
      ELSE Stepped([s EXCEPT !.sysex_buf = bytes], <<>>)

FrameData(s, b) ==
  LET data == Append(s.midi_data, b)
      cin  == IF s.midi_status \in Voice THEN s.midi_status \div 16
              ELSE IF s.midi_status = 242 THEN 3 ELSE 2
  IN  IF s.midi_status = 0 THEN Stepped(s, <<>>)
      ELSE IF Len(data) < midi_need(s.midi_status)
      THEN Stepped([s EXCEPT !.midi_data = data], <<>>)
      ELSE Stepped([s EXCEPT !.midi_data = <<>>,
                             !.midi_status = IF @ \in Voice THEN @ ELSE 0],
                   <<Packet(cin, <<s.midi_status>> \o data)>>)

rza1l_usb_midi_frame_byte(s, b) ==
  CASE b \in RealTime -> Stepped(s, <<Packet(15, <<b>>)>>)
    [] b = SysexStart -> Stepped([s EXCEPT !.in_sysex = TRUE, !.sysex_buf = <<b>>], <<>>)
    [] b = SysexEnd   -> FrameEnd(s)
    [] b \in Status   -> FrameStatus(s, b)
    [] b \in DataByte /\ s.in_sysex -> FrameSysexData(s, b)
    [] OTHER          -> FrameData(s, b)

-----------------------------------------------------------------------------
(* The way back: what a packet carries.                                    *)

usb_midi_cin_len(cin) == <<0, 0, 2, 3, 3, 1, 2, 3, 3, 3, 3, 3, 2, 2, 3, 1>>[cin + 1]

rza1l_usb_flush_tx(packet) == SubSeq(packet.bytes, 1, usb_midi_cin_len(packet.cin))
=============================================================================
