# TLA+ models of delugemu

delugemu is a set of QEMU device models (C, `src/hw`) that let an unmodified
firmware of the Synthstrom Deluge run on an emulated RZ/A1L. This directory
holds TLA+ specifications of the parts that carry the emulator's own logic,
TLC configurations that check them on small instances, and proofs checked by
TLAPS that hold for every size. Paths below are relative to the repository.

## 1. The system

### How it runs

Two threads matter. The *vCPU thread* executes the firmware and calls a
device's `read`/`write` handler for each register access. The *main loop* runs
timers, bottom halves, chardev input, host input events and the callbacks of
the host's audio device. Both hold QEMU's big lock while they are in a device,
so **a handler is atomic, and handlers interleave in any order**. That is how
all modules here are built: one action per handler, with every call it makes,
and nothing assumed about who comes next.

One program runs beside the emulator: the MIDI bridge (`scripts/midi_bridge.c`),
which carries bytes between the emulator's sockets and the host's MIDI system.
It has a main loop and a thread of the host's, which share the descriptors
without a lock; there each system call is a step.

Firmware, host keyboard and pointer, host audio device, host MIDI, the SD card
and the GIC are outside the repository. They are modelled only by what they may do to the
devices, from the way the code uses them, and marked `external` in
`PROJECT.json`.

### Components

| Component | Source | State | Operations | Right when |
|---|---|---|---|---|
| Encoders: GPIO, external interrupts | `hw/gpio/rza1l_gpio.c` | phase and pins per encoder, request bits, lines, sense fields, ring of edges and its timer | detent from the host, timer, PPR1 read, IRQRR / ICR1 write, reset, load | pins are always a quadrature signal; every turn is counted once, in its direction; no interrupt storm |
| USB host and synthetic MIDI device | `hw/usb/rza1l_usb.c` | status / enable registers, queued events, packet ring, latched transfer, control stage, transmit buffer | chardev receive, register writes, FIFO accesses, bottom half, reset | the line follows the registers; no event or packet is lost, doubled or reordered; enumeration ends |
| Audio: pump | `hw/ssi/rza1l_ssif.c` | read offset, anchor, throttle time, render-head address | CRSA read, fallback timer, search, reset | each rendered frame is staged once, in order, and never a stale one |
| Audio: FIFO and drain | same | depth, phase, primed flag, level | push, output callback, level step, reset | constant pitch within 2 %; drift is absorbed; nothing starves or overflows |
| Audio: render-head search | same | candidates, rounds | seed, verify, finish | it locks only on the firmware's render head |
| DMA controller | `hw/dma/rza1l_dmac.c` | 16 channels, ring latches | CHCTRL, descriptors, push, capture | completion and rings as the drivers expect |
| PIC coprocessor | `hw/misc/deluge_pic.c` | framing position, held inputs, LEDs | byte in, event, heartbeat | stays framed; what the firmware believes pressed is what is pressed |
| Host input | `hw/input/deluge_input.c` | pointer hold, latch table, deferred release, encoder repeat | key, button, motion, two timers | nothing stays pressed; every press is long enough to be seen |
| SCIF | `hw/char/rza1l_scif.c` | receive enable, DMA channels | transmit, receive, reset | bytes leave in order; each byte received has its time stamp beside it |
| SD host | `hw/sd/rza1l_sdhi.c` | data phase, counters, status, masks | command, buffer access by processor or DMA, stop, reset | the access end means that the blocks moved; no transfer hangs |
| OLED, SPI | `hw/display/deluge_oled.c`, `hw/ssi/rza1l_rspi.c` | command decoder, addressing, memory; receive interrupt | command and data bytes, word, reset | the picture is the frame that was sent; the transfer queue goes on |
| Timers | `hw/timer/*.c` | count at a known time, period, mode | counter read and write, start, stop | the computed count is the one a counter would show; delays are right |
| Skin | `hw/display/deluge_skin.c` | pixels, four digests, idle ticks | refresh, invalidate, suspend, reset | the window shows what the devices show, at any scale |
| MIDI bridge | `scripts/midi_bridge.c` | parser; a descriptor per transport | feed; connect, poll, read, drop; callback of the host | messages arrive whole; connections are made again and never mixed up |
| Pad grid, segments | `hw/display/deluge_padgrid.c`, `hw/display/deluge_segment.c` | pixels | draw | (drawing, repainted whole) |
| Board, SoC | `hw/arm/*.c` | wiring | construction | (runs once) |
| CPG, BSC, RTC, WDT, ADC, SPIBSC | `hw/misc/*.c`, `hw/ssi/rza1l_spibsc.c` | registers | storage | (storage) |

The devices meet in six places: the host input drives the encoders, the PIC and the
output level; the PIC and the SCIF exchange bytes through the DMA receive
ring; the audio pump reads the DMA play head and is called by the DMAC on every
CRSA read; the pump fills the FIFO that the drain empties; the serial port and
the SD host move their data through DMA channels; the skin reads what the OLED,
the PIC, the GPIO and the output level hold.

What is hard here is not any one handler but their order: interrupts queued by
one handler and latched by another, a ring filled by one thread and emptied by
the other, level-held lines that only the firmware's acknowledge lowers,
throttles and fallback timers racing the calls they replace, and two clocks
that never agree. `PROJECT.json` lists each such hazard at its line.

## 2. Modules

| Module | Models | Proofs |
|---|---|---|
| `EncoderGpio` | the encoder half of the GPIO / INTC model | `EncoderProofs` |
| `EncoderIsr` | EXTENDS it with the firmware's interrupt routine and the GIC | `EncoderProofs` |
| `PacketQueue` | abstract: a lossless numbered queue | |
| `UsbHost` | the USB controller; its bulk-in half implements `PacketQueue` | `UsbHostProofs` |
| `UsbFirmware` | EXTENDS it with a driver: enumeration, bulk in and out | `UsbHostProofs` |
| `SsifPump` | the pump, between the firmware's DMA ring and the FIFO | `SsifProofs` |
| `SsifDrain` | FIFO, priming, servo and drain | `SsifProofs` |
| `SsifServo` | EXTENDS it with the guest's and the host's clocks | `SsifProofs` |
| `RenderHead` | the search for the render head, whose outcome `SsifPump` leaves open | `SsifProofs` |
| `PicPanel` | the PIC, its receive ring and the firmware's view of the panel | `PanelProofs` |
| `PanelInput` | EXTENDS it with the host's keyboard and pointer | `PanelProofs` |
| `Dmac` | a DMA channel as pure operators: transfer, chaining, end interrupt, receive ring | |
| `MidiSerial` | EXTENDS it with the SCIF and the firmware's serial MIDI driver | `PeripheralProofs` |
| `SdHost` | EXTENDS it with the SD host interface, the card and the driver | `SdHostProofs` |
| `OledPanel` | the OLED's decoder of commands and data, as operators | `PeripheralProofs` |
| `OledSpi` | EXTENDS it with the SPI channel and the firmware's transfer queue | `PeripheralProofs` |
| `Mtu2`, `Ostm` | a counter and the delay loop on it; a timer beside the counter it stands for | `PeripheralProofs` |
| `SkinGeometry` | the boxes of all overlays, scaling and clipping | |
| `SkinPanel` | EXTENDS it with the refresh: digests, partial and full painting | `SkinPanelProofs` |
| `MidiFraming` | bytes to USB packets and back; the bridge's parser (operators) | |
| `MidiStream` | EXTENDS it with a sender, losses and restarts | `MidiProofs` |
| `MidiBridge` | the bridge's two threads, its descriptors, the emulator's sockets | `MidiProofs` |
| `MC*` | compositions and instances for TLC | |

An `MC` module of parts that do not interact chooses one of them at the start of a
behaviour (`part`), so that one run checks them all; the parts not chosen stay in
their initial state. Its constants are the parts', given values by the `.cfg` only, so
that the modules of proofs extend it and prove the very property that the run checks. The properties named for the whole then speak
of one part: `SystemSettles` is `Settles` of `EncoderIsr`, and `DriverEnumerates`,
`DriverReads`, `DriverSends`, `DriverServed` are `Enumerates`, `PacketsRead`,
`PacketsSent`, `InterruptsServed` of `UsbFirmware`.

Definitions named `Fault...` are seeded faults, each the plausible bug of the
definition after it. No specification uses them; they serve to see that every
property can fail.

### Encoders (`EncoderGpio`, `EncoderIsr`)

`phase`, `pinA`, `pinB` are `enc_phase` and `in_drive`; `irqrr`, `line`,
`edgeMode`, `ackSeen` are the INTC registers and lines; `edgeQ`, `head`, `tail`,
`armed` the ring and `edge_timer`. `EncoderStep` is the host's detent (four
`enqueue_edge` calls, each dropped on its own when the ring is full),
`EdgeTimer` the timer callback with `apply_edge`, `ReadPins` a PPR1 access with
its read-acknowledge, `WriteRequests` and `WriteSense` the INTC writes, `Reset`
and `Restore` the device reset and the load of a saved state. Interrupt numbers
are named by their encoder, since the wiring table is one-to-one. `lost` is a
history: an edge was dropped or forgotten.

`EncoderIsr` adds the two routines the comments at `rza1l_gpio.c:67-79` and
`rza1l_gpio.h:79-86` describe: one acknowledges in IRQRR under a level-held
interrupt, the other only at the GIC under an edge-triggered one. Each access
of the routine is a step of its own, and edges of other encoders fall between
them. `prompt` is the assumption behind `RZA1L_GPIO_EDGE_SPACING_NS` ("ISR runs
between edges", line 65), and says no more than each style needs (`KeepsUp`). The
edge-triggered routine has sampled an encoder before the next edge *of that
encoder*; edges of the others come at any time, so several are pending and one read
acknowledges them all. The routine that writes IRQRR back is over before the next
edge of any: a request latched between its read and its write is one more bit that
the write clears. Behaviours without `prompt` are explored too; there only the
settling of the system is required.

### USB (`UsbHost`, `PacketQueue`, `UsbFirmware`)

The unit is the 32-bit FIFO access: a USB-MIDI packet, or a word of a control
response. Packets are numbered as they are accepted, and ring and latch hold
numbers. `ChrReceive` stands for `chr_receive` with the whole framing of MIDI
bytes: of `n` bytes, `k` complete a packet. `TryDeliver` is `try_deliver_rx`,
called with the values its callers have just computed. Each register that has an
effect has its action; `Event` is the bottom half. `accepted`, `taken`, `dropped`,
`noticed`, `written`, `sent` are histories.

`PacketQueue` is what the bulk-in half promises: packets leave once each, in
order. The refinement mapping joins the rest of the latched transfer and the
ring (`Contents`); all other actions are stuttering steps.

`UsbFirmware` drives the controller with the register sequences the comments of
`rza1l_usb.c` describe, one access a step, with an interrupt routine that
clears one cause at a time. Of an OUT transfer it enables the completion interrupt
only after the commit (`rza1l_usb.c:829-832`), waits for it, and disables it again.

### Audio (`SsifPump`, `SsifDrain`, `SsifServo`)

`SsifPump` works in frames. Every frame rendered has a number, so that a slot
tells which rendering it holds. `CrsaRead` is the DMAC's hook and `PlayTick`
the fallback timer; both are `Pump`: dropped anchor without a ring, throttle,
search, copy to the target with its resync test. `Search` abstracts
`rh_search`: in any pump it may go on, find the head, or give up; it is taken
to find the true one. `HeadBoundsCopy` holds each copy against the slots still to be
rendered (`Copied`, `Unrendered`). `Arm`, `Render` and `Tick` are the firmware and
time; `Arm` begins the numbering anew, with a ring that holds none, since the numbers are the model's.

`SsifDrain` works in frames and phases of 1/`One` frame; samples are left out.
A callback is atomic in the code; here it is a run of steps, one per frame
emitted, that nothing interrupts (`ask > 0`). `built`, `taken`, `origin` account
for one callback. `SsifServo` runs it between two clocks, one of which gains or
loses a frame every `Period` rounds.

`RenderHead` is the search itself. The firmware keeps its render head in one
word of the SRAM, its copy of the play head in another, and other words may
point into the ring by coincidence. `Pump` is `rh_search` as the pump calls it:
warm-up, the scan in overlapping buffers that seeds the candidates (`Slot`: a
word as found in one buffer), verification rounds with their sentinels, both
ways to lock, reseeding, giving up. A round is many laps long, so the offsets of
a round are inputs; `MaxLag` bounds the age of the play-head copy, `MaxInverted`
the rounds in which the two heads are seen in the wrong order. What `SsifPump` assumes of it, that the head found is the
true one, is what `LockIsRight` examines: the lock may also be the copy of the
play head while the render head was not seen moving.

### Serial MIDI port (`Dmac`, `MidiSerial`)

`Dmac` has what all users of a channel share. `rza1l_dmac_do_transfer` copies one or
two register sets; `ChStatAfter` is the status after one CHCTRL write, in which
the transfer runs to its end, and `Signals` whether that raises the interrupt.
`MidiSerial` adds the driver's circular transmit buffer (`Flush`, `Start`,
`Interrupt`; the interrupt may be pending before `Start` returns), and the receive
ring with the ring of playback positions beside it.

### SD host (`SdHost`)

The driver programs a transfer, sends its command, waits for the response, moves
the blocks access by access or has the DMA controller move them, waits for the
access end and asks the card for its status. It may give up at any wait
(`GiveUp`); then it resets the interface and sends CMD12. `moved` is the history of units
moved, `left` what the card still has to move. SD_SECCNT keeps its old value on
purpose: the code must not trust it.

### OLED and SPI (`OledPanel`, `OledSpi`)

`OledPanel` is the SSD1306 decoder: multi-byte commands, three addressing modes,
windows, the wrap of the pointer. `OledSpi` has the firmware set the panel up in any
style and then serve a queue of frames (select by the coprocessor, DMA, end
interrupt, deselect) and words for the converter (receive interrupt), one
register access a step, with machine resets in between. A style gives the order in
which the set-up's commands are sent, any order, and the argument of one of them, which may be
a command's own code. `Pages` is a divisor of 8, the number of commands that set the page:
the code has 8, the run 4. `MCPeripherals` takes `OledSpi` as an instance in
which `line`, a name that `MidiSerial` has too, is `spri`.

### Timers (`Mtu2`, `Ostm`)

Both devices compute a count from the clock. `Mtu2` has the firmware's delay loop
read it byte by byte. `icount`, chosen at the start of a behaviour, says whether the
machine has an instruction counter, with which no time passes between the two bytes.
Without it, the default of `scripts/run.sh`, it does; `torn` records that the low
byte wrapped there, `early` that a delay was over too soon. `Ostm` runs the computed
count beside the counter of the hardware.

### Skin (`SkinGeometry`, `SkinPanel`)

The geometry is the code's arithmetic, with its integer divisions: source boxes,
dirty rectangles, destination spans. Whether painting a
group's rectangles repaints an overlay whole at a scale, or cuts it (`Repainted`,
`Touched`), is computed, not assumed. In `SkinPanel` (`SkinSpec`) what an
overlay shows is one value, and `Digest` a constant function that may confuse two
of them, as a hash may.

### MIDI (`MidiFraming`, `MidiStream`, `MidiBridge`)

`midi_parser_feed` and `rza1l_usb_midi_frame_byte` are operators on a parser's
record. `MidiStream` feeds both from any sender: running status, real-time bytes
anywhere, SysEx longer than the room, losses, restarts of any of the three.
`MidiBridge` has the main loop's system calls and the host's callback as steps;
`file` is the kernel's table of descriptors, which hands out the lowest free one.

### Panel (`PicPanel`, `PanelInput`)

`PicPanel` joins three parts that share a ring. The coprocessor: `held` is
`held_inputs`, with `held_count` its size; `frame` counts the payload bytes
still to come; `selected` is the OLED's select line. The DMA receive ring:
`Push` is `peripheral_rx_push` for all bytes of one handler, with no flow
control; `unread` is what the firmware would find. The firmware (external):
`FwRead` takes one byte and updates what it takes for `pressed`, `FwSend` sends
one, and blocks on the echo of select and deselect. A control stands for its
index byte; `IndicesDistinct` proves that it may. The answer to a version
request is two bytes of which the second is also a pad's index, so that a lap
can turn it into a press: the model has that. `GuestReset` resets the DMAC and
the firmware, not the coprocessor, which is a character device. `lost` and `cut`
are histories that name the two excuses: bytes were lost that no idle beat has
healed since, and a reset cut a command in two.

`PanelInput` has one action per host event and timer. `SendEvents(ups, downs)`
are all `send_event` calls of one handler. Where a click lands is an input; the
latch table keeps its order, for the removal moves the last entry.

## 3. Runs

| Run | Bounds | Shows |
|---|---|---|
| `surface` | 2 encoders of opposite wiring in different bytes, ring of 8 (holds one detent and three edges of the next). Device: any accesses, resets, loads; states after a loss are checked, not explored. System: 3 detents (2 if the routine may be late), so that the ring overflows too. Window: the real geometry at 37 %, which divides nothing evenly; two pictures, which the digest tells apart except on the main pads; 3 safety ticks; 2 overlays stale at a time | `NoOrphanLine`, `RestAtDetent`, `EdgeShowsDirection`, `RotationDecoded`, `SystemSettles`; `TickShowsChanges`, `SettledPanelIsRight` |
| `skin_missed` | the same window | *violation* of `MissedIsShown` |
| `usb` | two receive pipes, ring of 3, bursts of 2 (wrap-around and short bursts), 4 packets, control packet of 2; bulk-in, control or transmit half under any accesses, or the driver with three control transfers (two packets, none, one), 4 packets in, 3 out | `LineIsLevel`, `NothingDropped`, refinement `OneQueue`, `DriverEnumerates`, `DriverReads`, `DriverSends`, `DriverServed` |
| `ssif` | pump: ring of 5, throttle window 2, backlog 2, 4 frames, both modes. Drain: `One` 20, clamp 10 %, drift 5 %, target 16, FIFO 36, batches of 3 | `HeadKeepsOrder`, `HeadReached`, `RateBounded`, `DriftAbsorbed` |
| `ssif_phase` | the same drain | *violation* of `PhaseRunsDown` |
| `pump_lock` | ring of 8, throttle window 2, backlog 5, 4 frames | *violation* of `HeadBoundsCopy` |
| `search` | ring of 4; 8 words in buffers of 5 that overlap by 2, so that a word is seeded once or twice; 2 rounds to lock, 5 at most, one inverted; lag 1; 2 attempts | `LockIsRight`, `SearchEnds` |
| `panel` | three controls, two keys on one of them, latch table of 2, ring of 4 bytes (two releases lap it), payload of 2; host input or firmware commands | `ViewAgrees`, `NothingStuck`, `PressIsSeen`, `ClickReleased`, `HandshakeEnds`, `Heals` |
| `peripherals` | serial port: transmit buffer of 4, 7 bytes (it wraps twice); receive ring 4, timing ring 2, 3 positions. MTU2, with an instruction counter and without: bytes of 4 values, delays 1, 6, 10, 14, polls every other tick. OSTM: registers of 8 values, 18 ticks. SD: blocks of 2 units, transfers of 1 to 3 blocks in any sequence, every kind. OLED: 4 pages by 4 columns, 3 rows shown, 36 styles (3 modes, 2 windows, 3 orders, 2 arguments), words that are commands, queue of 2 | `LineInOrder`, `StampsMatch`, `AllSent`; `DelayServed`; `CountsLikeHardware`; `CommandsReachCard`, `AccessEndIsRight`, `TransfersEnd`; `PictureIsFrame`, `QueueServed` |
| `timer_torn` | the same delays | *violation* of `NeverEarly` |
| `midi` | statuses 144, 208, 242, 246 (two and one data bytes, running; two and none, not), SysEx up to 3 data bytes with room for 4. Bridge: 2 transports, 3 descriptors, calls of 2 packets | `BridgeHears`, `NothingJoined`, `ConnectionsOwned`, `GuestHeard` |
| `bridge_own` | the same bridge | *violation* of `OwnGuest` |

The bounds are small because the properties are about order and boundaries:
each ring wraps, fills and empties, each queue meets its limit, and two of
everything that can compete do. The ratios of the drain are scaled: 10 %
correction against 5 % drift stands for 2 % against about half a percent, so
that a servo round fits in a few frames. The four type invariants (`TypeOK` of
`EncoderGpio`, `UsbHost`, `SsifDrain`, `SkinPanel`) are proved and take no run; the other
modules state the types they need within their inductive invariants, or none. Deadlock is
checked except where the system really stops: when the turns of `surface` are
used up, and when the packets of `usb` are.

Fairness is what QEMU provides. An expired timer runs (`EdgeTimer`, `Fire`,
`PlayTick`, `ReleaseTimer`, `Heartbeat`), a scheduled bottom half runs (`Event`),
virtual time goes on (`Tick`). For the compositions the processor takes a pending interrupt and runs
its routine and its task to the end. Nothing obliges the host to turn, send,
play or let go. The panel's firmware polls its ring; since a poll may find it
just lapped to empty, the fairness of `FwRead` is strong. The skin's timer ticks;
the pump is called, or time passes, until the search has ended; the drivers of
the SD host, the serial port and the transfer queue go on with what they have
begun, and nothing obliges them to begin. Both threads of the bridge run; the
emulator owes it nothing. The delay loop polls at least every `Gap` ticks, and
since `Tick` waits for a poll that is due, its fairness is strong. With a torn
reading, up to a low byte ahead, a poll can step over the window in which a very
long delay would end; so `DelayServed` promises the end of the delays that leave a
low byte of the counter unused (`Longest`), on a machine with an instruction counter
of all that the polls allow.

### What the violations say

* **`ssif_phase`**: the comment at `rza1l_ssif.c:296-306` wants the residual phase
  run down to zero in the deadband, and the rate then to be 1.0. The step is
  computed once a callback and applied per frame, so the phase passes zero within
  the callback and is found near 65536 by the next one.

* **`bridge_own`**: the host's callback reads `t->fd` once for a whole list of packets
  (`midi_bridge.c:229-237`) and writes to that number. Between two packets the main
  loop may see the guest quit, close the descriptor and connect the other
  transport, to which the kernel gives the same number: the rest of the list goes
  to the other port. `ConnectionsOwned` shows that the table itself stays right.

* **`timer_torn`**: the comment at `rza1l_mtu2.c:10-14` calls the counters good enough
  for the firmware's delays. Each byte of a reading takes the count anew from the
  clock (`79-87`), and without an instruction counter, the default, the clock moves
  in between. A low byte from before it wraps beside a high byte from after it is a
  reading up to 255 ticks ahead (`Base - 1` here): a later reading then ends a delay
  up to that much too soon, and a first one ends any delay at once. `DelayServed`, in
  `peripherals`, shows that nothing else makes a delay short, on either machine.

* **`pump_lock`**: while the search runs the play head P bounds the copy. In the pump
  after the search has found the render head W, which trails P, the copy goes from P
  forward to W, nearly round the ring: through [W, P), which the comments
  (`rza1l_ssif.c:474-475`, `1025-1027`) promise never to read. Only a distance of a
  ring less one frame counts as a lap (`1062`). `HeadKeepsOrder`, in `ssif`, shows
  what holds from the next pump on.

* **`skin_missed`**: the comment at `deluge_skin.c:42-47` promises a full painting "at
  least this often". A partial painting sets the idle count to 0 (`1220`), so a change
  the digest missed stays for as long as another overlay keeps changing, as the tempo
  lamp does. `SettledPanelIsRight`, in `surface`, holds for sources that rest.

Other observations, without a run.

* *Encoders.* The read-acknowledge clears every pending edge-mode request in the
  byte read (`rza1l_gpio.c:80-98`), where its comment says that this read "is that
  ISR": two encoders sharing a byte share an acknowledge. A controller that
  latches rising edges does not notice: `RotationDecoded` holds with both pending. A
  detent is split when the ring fills within it (`286-296`), and by the load of a
  saved state, which has no ring; the next ones start off the rest position until an
  equal loss. No comment denies it, and the properties of the rest position say
  `~lost`.
* *Audio.* The resync test (`rza1l_ssif.c:1062`) takes a backlog of one
  frame less than the ring for a lap and cannot see a true lap. Frames the voice
  does not take on the interpolating path are lost (`399-403`). A word in the
  overlap of two buffers is seeded twice, and its two candidates tie (`663-682`).
  The state of the search survives a reset. `read_off` survives the ring being
  armed again with another size (`979`).
* *USB.* BCLR empties the transmit buffer whatever pipe is selected
  (`rza1l_usb.c:835-836`). F0 leaves the running status in place.
* *Panel.* Both shift keys are bound to one button and `held_inputs` is one bit per
  control: letting go of one releases it for both, and the idle beat then reports
  that nothing is pressed, against its comment (`deluge_pic.c:141-145`). A second
  click within 60 ms releases the first at once (`PressIsSeen` names that
  exception). A machine reset in mid-command leaves the coprocessor counting
  payload, so that the next commands are swallowed (`cut`), and a lost echo leaves the
  firmware waiting (`missed`): `HandshakeEnds` is about behaviours without either.
* *SD.* The buffer-ready flag stays set between blocks (`rza1l_sdhi.c:214`) and is not
  set anew for each: a driver that clears it after a block waits in vain.
* *SCIF.* The result of `rx_push` is ignored (`rza1l_scif.c:178`).
* *OLED.* Command 22 moves what is shown without marking the surface dirty. The reset
  of the SPI channel clears SPRIE but not its line; the reset of the interrupt
  controller hides that.
* *Timers.* CMP or CTL written while an OSTM counts reinterprets the time
  elapsed (`rza1l_ostm.c:117`; `changed` excludes it).

## 4. Proofs

All for every value of the constants that the named assumptions allow.

**`EncoderProofs`** (any encoders, wiring and ring of whole detents). The
properties are not inductive. `NoOrphanLine` is, with types. `TimerMatchesRing`
is, with the arithmetic of the ring. `RestAtDetent` needs to know what the ring
still holds: the invariant says that the pins are the Gray code of the phase,
and that as long as nothing was lost each encoder's phase is the number of
edges left to the next detent, with the ring made of whole detents after the
one in progress. `EdgeShowsDirection` and `OnePinMoves` follow from the
invariant step by step.

`RotationDecoded` speaks of the rest position only. Its invariant accounts for
every edge under way: there are running sums over the ring, one per encoder,
that begin with what the firmware has counted plus the one A edge not decoded
yet (`Due`) and end with two per detent turned (`Account`). That at most one edge
of an encoder is due, and that a prompt routine has dealt with it before the next of
that encoder (`Served`), differs between the two routines: one lowers all lines with a
read of the pins, the other one line with the write of the request it has read. The sums are stated as
existing, since a recursive sum could not be reasoned about.

**`UsbHostProofs`** (any ring, burst, pipe and buffer sizes). The invariant
joins types, the ring's geometry (`tail = head + count`), `InOrder`,
`LineIsLevel`, `EventScheduled` and `TransferAnnounced`. Preservation has a lemma
for `TryDeliver`, used by its three callers, and one step per action.
`Refinement` proves that every step maps to a step of `PacketQueue` or to a
stutter, and that the initial states agree.

*The driver* (any enumeration of at least one transfer). The four promises to it are
liveness; what they rest on is safety, and proved. Each event is queued, latched or
flagged exactly once between the access that causes it and the wait for it, and
never otherwise (`EventsOnce`); where the driver waits, its event has come, or the
line is up for it, or the bottom half is scheduled and will raise it
(`WaitsServed`), an unread packet counting as an event at "idle"; a packet out is
with the host or in the buffer being filled (`NoneKeptBack`); and each step of
enumeration advances a count that the transfers and their words bound
(`EnumerationAdvances`). The invariant (`FwParts`) says for each place of the driver
what is enabled and selected, where the control transfer is, and that the receiving
pipe is armed with nothing queued, or not armed with a transfer latched.

**`SsifProofs`**, in four parts. *Drain* (any unit, clamp and sizes): the
invariant is `TypeOK` and the exact account of a callback,
`taken * One + frac = origin + built * step`: no phase is lost between two
frames. `StepBound` bounds the step by the clamp, and `RateBounded` follows.

*Drain between two clocks*. That neither end of the FIFO is reached does not follow
from how full it is now: the clocks part by a whole frame in one round out of
`Period`, and the correction of one round is worth less. The invariant bounds the
stream left at the end of a round by an account that spreads that frame over the
rounds since the last one (`Above`, `Below`); a round within `Reach` of the target
is free to bring it nearer to either end, a round outside earns its share. It
assumes `ServoFits`: the correction at some distance `Reach` makes up for the
drift within a period, one callback does not overshoot by it, and target, `Reach`
and a callback fit in the FIFO. The constants of the run satisfy it with
`Reach` = 8. Nothing in the code says how far the two clocks may part; `ServoFits`
is how far they may for any given settings of the servo.

*Pump* (any ring, window and backlog that fit together). `HeadKeepsOrder` says
that what is staged follows what was staged. For that the copy must never be
lapped, and the code has no check of it: the invariant finds the bound. A
firmware that keeps up renders only up to the play head as it last read it, and
that read pumped; so since the copy before, play has gone on by less than the
throttle window, and what is rendered and not copied, with the backlog, fits in
the ring (`NotLapped`). `FreshFrames` says what the slots not copied yet hold.

*Search* (any memory, scan buffer, words, limits and resets). `LockIsRight` needs
two facts about candidates: a stray word has only ever been seen at one offset,
so it never counts as one that moves (`StraysStay`); and the copy of the play
head has led no more often than the two heads were seen inverted (`PlayLeads`).
A leader has led three quarters of at least twice `RoundsToLock` rounds, so the
theorem assumes `FewInverted`, that the heads are inverted in fewer rounds than
that. The bound is exact: one more inversion could make the copy the leader. The
number of inversions is the firmware's, and nothing in the code limits it.
`SearchWithinLimits` is the safety of `SearchEnds`: each scan of the memory ends the
search or spends some of what the two limits allow, a live search is within them,
and nothing gives back what was spent, a reset included. `SearchImplementsPump` ties
the two models together: what the search does to the address in a pump is what
`SsifPump!Search` allows, so `HeadKeepsOrder` covers every search there is.

**`PanelProofs`** (any controls, keys, bindings, table and ring sizes).
`NothingStuck` is inductive once the latch table is known to be a sequence; the
step that is not obvious is the removal from the table, which moves the last
entry (`UnlatchKeeps`). `RepeatUnderButton` is inductive alone, and `PressIsSeen`
needs no invariant.

`ViewAgrees` speaks of an empty ring, so its
invariant must say what the bytes still unread will do. That is a fold over
them, which is stated without recursion (`Leads`): the last byte that mentions a
control says whether it is held, an idle beat mentions every control, and a
control no byte mentions is as the firmware has it. Once bytes were lost only
`LeadsAfterIdle` remains, the same for what follows an idle beat. Two lemmas carry
the proof: `Leads` composes over concatenation (`JoinedLeads`), so that one lemma
per kind of push suffices (`ReleaseBlock`, `PressBlock`, `IdleBlock`,
`VersionBlock`), and neither form is disturbed by a lap (`SuffixAfterIdle`).
`Paired`, that a prefix is never the last byte, is why a push cannot be read with
the prefix of an earlier one.

`SelectAgrees`, the safety half of `HandshakeEnds`, needs that both ends of the
link count the same payload, for neither sends lengths (`Framed`): a byte is a
command at both or payload at both. A reset within a payload breaks it (`cut`).

**`SkinPanelProofs`** (any contents, digest, interval and scale). `Remembered`: the digests
kept are those of what the window shows. From it and the geometry follows
`TickShowsChanges`: a changed overlay's dirty rectangle covers all its pixels at
every scale from 10 to 100 percent, an inequality between the two roundings
that `Resampling` settles once for all boxes, and no rectangle of a partial
painting touches an overlay of another group.

**`SdHostProofs`** (any block size and number of blocks). The invariant accounts for a
transfer: what moved is a prefix of the medium; moved and owed together make the
blocks asked for; the card owes at least that; and no data phase is open where a
command is written, whichever wait the driver gave up. `CommandsReachCard` is
a part of it, `AccessEndIsRight` follows step by step. `TransfersEnd` rests on two
safety properties: at each wait of the driver what it waits for is there, with its
interrupt unmasked (`NoWaitInVain`), and each of its steps goes to a later phase or
has moved units of a data phase (`TransferAdvances`).

**`PeripheralProofs`**, in four parts. *OSTM*: `CountsLikeHardware` is inductive
with the types; the work is arithmetic, that going down from a period is going
up in the remainder. *MTU2* (any byte size and delay, with an instruction counter and
without): `DelayShortOnlyIfTorn` is the safety half of `DelayServed`. Its invariant
says that, unless a reading was torn, what the counter has moved since the first
reading, wherever it wrapped, is no more than the time waited (`StartBehind`), and
that the low byte of a reading under way lags behind the counter by no more than
that, and has not wrapped since (`LowBehind`): with the high byte of now, the reading
is behind the counter and never ahead of it.

*Serial port* (rings of any sizes that fit together): `LineInOrder` needs the contents
of the circular buffer (`Numbered`), that what is handed to the DMA controller is the
first of it (`FirstHeld`), and that line and buffer together make up what was queued
(`SentOrHeld`). `BufferServed` is the safety of `AllSent`: the
interrupt of the transfer's end is pending exactly while the driver waits for it, and
a byte not on the line leaves the driver something to do. `StampsMatch` needs that
both rings are in step, the smaller one dividing the larger (`InStep`).

*OLED* (any memory, columns, styles and words). `PictureIsFrame` speaks of the end of a
transfer, so the invariant (`OledInv`) counts the accesses of the set-up, frame or word that are
made and says what each has left in the panel. A burst is a recursive function of its
bytes. That it has a value at each byte, and that what one byte preserves the
burst preserves, is shown by a least counterexample (`BurstStates`, `BurstKeeps`), since the
library's induction theorems cannot be instantiated. The pointer then counts
as two digits do, page and column (`HorizontalBurst`), column and page
(`VerticalBurst`) or column alone (`OnePage`), and is back where it began after the last byte:
that is why one frame may follow another without a command between them. The
commands of the set-up touch different registers, so their order does not matter
(`PartIs`), and a word for the converter goes past a panel that is not selected. A reset in
mid-command is harmless because it clears the arguments awaited. `InterruptsMatch`,
the safety of `QueueServed`, says that each interrupt is the one the transfer under
way waits for.

**`MidiProofs`** (any statuses, data, SysEx lengths and room). The invariant of
`BridgeHears` says where the bridge's parser is: it holds what was sent of the
message in progress, cut to its room, or between messages the status the sender
may leave out. A loss or a restart gives that up until the next status.

`NothingJoined` has two halves. That only whole messages go out, whatever was lost,
needs no knowledge of the sender: a parser and a framer hold a well-formed piece
whatever bytes they take (`Wholes`). That a message framed into packets comes back
as it was needs the state of the device and of the parser at the far end together:
what the one has of the message in progress and the other has not are the bytes
sent (`Holds`), within a message that reached the device from its first byte.

`ConnectionsOwned` (any transports and descriptors) is inductive with types and with
`PolledConnected`: the main loop polls only what is connected. That the lowest
free descriptor is handed out, and that there is one, is proved on the way.

`TimerMatchesRing`, `OnePinMoves`, `EventScheduled`, `InOrder`, `TransferAnnounced` and
`RepeatUnderButton` are proved though no run lists them. The properties of the
violation runs are false, and so unproved.

What TLC alone checks: everything about liveness (`SystemSettles`, the four
`Driver...`, `HeadReached`, `SearchEnds`, `ClickReleased`, `HandshakeEnds`, `Heals`,
`SettledPanelIsRight`, `TransfersEnd`, `AllSent`, `GuestHeard`, `QueueServed`,
and that a delay of `DelayServed` ends), which the prover cannot do; `ENABLED` is
out of its reach too and not used. Every safety property of the passing runs is proved,
and where a driver waits (USB, SD, serial port, OLED) so is that it does not wait in
vain: that processor, bottom half and main loop run on is left to fairness, and that
this is enough to TLC. The properties that no run lists are defined in the proof
modules.

RECURSIVE operators are out of the prover's reach as well. The modules
under proof have none: where one could have been, a fixed number of steps
stands (`Fed` of `MidiStream`: a packet has at most three bytes), a quantifier
(`Leads`), a recursive function (the bursts of `OledPanel`), or a witness that
exists (`Account`).

## 5. Not modelled, and assumptions

* `UsbHost` counts packets: of `n` bytes, `k` complete one. The framing itself is
  `MidiFraming`'s.
* `SsifPump` takes the search to find the true head. A known head that cannot be
  read, or points outside the ring, is left out. The ring keeps its size.
  `RenderHead` leaves out the check value of the expected address and the trace.
* `HeadKeepsOrder` assumes a firmware that keeps up (`late`): its unrendered
  backlog and one throttle window fit in the ring. The code cannot see a lap.
* Audio capture (`in_cb`), the DMA controller's capture ring and group status, the
  holding register of a SCIF port without DMA, registers that only hold a value,
  colours and shapes on the panel, inversion of the OLED and the console of its
  own, which the board never creates.
* Saved states of the USB and audio devices and of the panel. The PIC's saved
  state holds `held_inputs` while the host input saves nothing.
* The components of the table above that have no module; the reason is in
  `PROJECT.json`. The renderers, the board, the register files and the host
  tools stay out: they have no protocol of their own.

## 6. Plan

1. Saved states of the USB controller, the audio interface and the panel.
2. The pump under a head that stops reducing into the ring, and a ring armed again
   with another size.
