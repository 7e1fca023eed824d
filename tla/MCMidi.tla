------------------------------- MODULE MCMidi -------------------------------
(* The stream of MIDI bytes, or the bridge's connections, chosen at the    *)
(* start.  The stream has statuses of each kind: two that run, with two    *)
(* data bytes and with one, and two that do not, with two and with none.   *)
(* In the run the bridge has two transports, as the emulator has: the      *)
(* serial port and USB.                                                    *)
EXTENDS MidiStream

MCStatuses == {144, 208, 242, 246}

CONSTANTS N, Descriptors, Packets

VARIABLES part, listening, file, fd, at, ready, playing, reached

B == INSTANCE MidiBridge

ASSUME BridgeAssumption == B!BridgeAssumption

bridgeVars == <<listening, file, fd, at, ready, playing, reached>>

StreamNext ==
  \/ \E m \in Message : Begin(m)
  \/ Send \/ Lose
  \/ SendRealTime(248)
  \/ Restart \/ RestartBridge \/ ResetDevice

MCNext ==
  /\ \/ part = "stream" /\ StreamNext /\ UNCHANGED bridgeVars
     \/ part = "bridge" /\ B!Next /\ UNCHANGED vars
  /\ UNCHANGED part

MCInit == Init /\ B!Init /\ part \in {"stream", "bridge"}

MCSpec ==
  /\ MCInit /\ [][MCNext]_<<vars, bridgeVars, part>>
  /\ WF_bridgeVars(part = "bridge" /\ B!Main)
  /\ WF_bridgeVars(part = "bridge" /\ B!WritePacket)

\* Connections are the bridge's own, are made again, and are read (MidiBridge).
ConnectionsOwned == B!ConnectionsOwned
GuestHeard == B!GuestHeard
=============================================================================
