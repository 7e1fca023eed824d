----------------------------- MODULE MidiBridge -----------------------------
(***************************************************************************)
(* The bridge's sockets (src/scripts/midi_bridge.c): a main loop that      *)
(* connects to the emulator's MIDI sockets, reads what the guest sends and *)
(* drops a connection the guest has closed, beside a thread of the host's  *)
(* MIDI system that writes what the host plays.  The two share each        *)
(* transport's descriptor, without a lock.                                 *)
(*                                                                         *)
(* External: the emulator, which creates its sockets one by one and takes  *)
(* them all down when it quits; the kernel, which gives a new connection   *)
(* the lowest free descriptor.  What the bytes mean is MidiStream's.       *)
(***************************************************************************)
EXTENDS Integers, FiniteSets

CONSTANTS
  N,             \* transports
  Descriptors,   \* bound: descriptors the process may have
  Packets        \* bound: packets in a call of the host's MIDI system

\* What the constants must satisfy.
BridgeAssumption ==
  /\ N \in Nat \ {0} /\ Packets \in Nat \ {0}
  /\ Descriptors \in Nat /\ Descriptors >= N

Transport == 1 .. N
Descriptor == 0 .. Descriptors - 1
None == -1                               \* t->fd of no connection
Free == [to |-> 0, open |-> FALSE, unread |-> FALSE]
Idle == [for |-> 0, fd |-> None, left |-> 0]

VARIABLES
  listening,     \* sockets the emulator has created
  file,          \* the kernel's table: whose guest, its end open, bytes unread
  fd,            \* each transport's descriptor
  at,            \* the main loop: connecting a transport, or past them all
  ready,         \* transports poll has reported, still to be served
  playing,       \* the host's thread: for whom, its descriptor, packets left
  reached        \* history: whose packets reached whose guest

vars == <<listening, file, fd, at, ready, playing, reached>>

Init ==
  /\ listening = {} /\ file = [d \in Descriptor |-> Free]
  /\ fd = [t \in Transport |-> None] /\ at = 1 /\ ready = {}
  /\ playing = Idle /\ reached = {}

-----------------------------------------------------------------------------
(* The emulator.                                                           *)

Create(t) ==
  /\ listening' = listening \cup {t}
  /\ UNCHANGED <<file, fd, at, ready, playing, reached>>

Quit ==
  /\ listening # {}
  /\ listening' = {}
  /\ file' = [d \in Descriptor |-> [file[d] EXCEPT !.open = FALSE]]
  /\ UNCHANGED <<fd, at, ready, playing, reached>>

GuestSends(d) ==
  /\ file[d].open /\ ~file[d].unread
  /\ file' = [file EXCEPT ![d].unread = TRUE]
  /\ UNCHANGED <<listening, fd, at, ready, playing, reached>>

-----------------------------------------------------------------------------
(* The main loop.                                                          *)

Lowest(free) == CHOOSE d \in free : \A e \in free : d <= e

\* One turn of the first loop: a transport without a connection tries for one.
connect_socket ==
  LET free == {d \in Descriptor : file[d] = Free}
  IN  /\ at <= N
      /\ at' = at + 1
      /\ IF fd[at] = None /\ at \in listening
         THEN /\ fd' = [fd EXCEPT ![at] = Lowest(free)]
              /\ file' = [file EXCEPT ![Lowest(free)] =
                            [to |-> at, open |-> TRUE, unread |-> FALSE]]
         ELSE UNCHANGED <<fd, file>>
      /\ UNCHANGED <<listening, ready, playing, reached>>

Reported(t) == fd[t] # None /\ (file[fd[t]].unread \/ ~file[fd[t]].open)

\* Fault for the runs: the last transport is left out of the set polled.
FaultPollSet == {t \in Transport : t < N /\ Reported(t)}

\* POLLIN, or POLLHUP.
PollSet == {t \in Transport : Reported(t)}

\* poll, or the wait when there is nothing to poll; then the turns of the
\* second loop, and round again.
Poll ==
  /\ at = N + 1 /\ ready = {}
  /\ ready' = PollSet
  /\ at' = IF PollSet = {} THEN 1 ELSE at
  /\ UNCHANGED <<listening, file, fd, playing, reached>>

\* Fault for the runs: a descriptor is forgotten but not closed.
FaultForget(t) == fd' = [fd EXCEPT ![t] = None] /\ UNCHANGED file

HangUp(t) ==
  /\ fd' = [fd EXCEPT ![t] = None]
  /\ file' = [file EXCEPT ![fd[t]] = Free]

\* One turn of the second loop: read what is there, or drop the connection.
Serve ==
  /\ ready # {}
  /\ LET t == Lowest(ready)
     IN  /\ IF file[fd[t]].unread
            THEN file' = [file EXCEPT ![fd[t]].unread = FALSE] /\ UNCHANGED fd
            ELSE HangUp(t)
         /\ ready' = ready \ {t}
         /\ at' = IF ready' = {} THEN 1 ELSE at
  /\ UNCHANGED <<listening, playing, reached>>

-----------------------------------------------------------------------------
(* The host's thread.                                                      *)

\* The callback takes the descriptor once, for all its packets.
host_to_deluge(t) ==
  /\ playing = Idle /\ fd[t] # None
  /\ \E n \in 1 .. Packets : playing' = [for |-> t, fd |-> fd[t], left |-> n]
  /\ UNCHANGED <<listening, file, fd, at, ready, reached>>

\* A packet is written, or fails, and the next one is tried either way.
WritePacket ==
  /\ playing # Idle
  /\ playing' = IF playing.left = 1 THEN Idle ELSE [playing EXCEPT !.left = @ - 1]
  /\ reached' = IF file[playing.fd].open
                THEN reached \cup {<<playing.for, file[playing.fd].to>>} ELSE reached
  /\ UNCHANGED <<listening, file, fd, at, ready>>

-----------------------------------------------------------------------------
Main == connect_socket \/ Poll \/ Serve

Next ==
  \/ \E t \in Transport : Create(t) \/ host_to_deluge(t)
  \/ Quit
  \/ \E d \in Descriptor : GuestSends(d)
  \/ Main
  \/ WritePacket

\* Both threads run; nothing obliges the emulator or the host's player.
Spec == Init /\ [][Next]_vars /\ WF_vars(Main) /\ WF_vars(WritePacket)

-----------------------------------------------------------------------------
\* Every connection belongs to the transport that made it, and to no other:
\* none is leaked, taken twice, or read for another, wherever a guest quits.
ConnectionsOwned ==
  /\ \A t \in Transport : fd[t] # None => file[fd[t]].to = t
  /\ \A d \in Descriptor : file[d] # Free => \E t \in Transport : fd[t] = d

\* Once the emulator has created a socket and stays, its transport is
\* connected, also when the emulator was restarted behind the bridge's back;
\* and what a guest has sent is read, also when it has quit since.
GuestHeard ==
  /\ \A t \in Transport :
       t \in listening ~> (t \notin listening \/ (fd[t] # None /\ file[fd[t]].open))
  /\ \A d \in Descriptor : file[d].unread ~> ~file[d].unread

\* What the host plays to a destination reaches the guest of that transport.
OwnGuest == \A pair \in reached : pair[1] = pair[2]
=============================================================================
