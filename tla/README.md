# Verification of the ESP32-P4 KVM firmware

TLA+ models of the firmware in this repository, the TLC runs that check them on
small instances, and proofs, checked by TLAPS for every value of the constants,
of the main properties of the power controller, both Ethernet rings, the demo's
TCP server, the runtime's interrupt entry and sleep, the USB endpoints, the I2C
master, and storage with the SPI master under it.

    tlc -workers 2 -config MCPower.cfg MCPower     # a run
    tlapm PowerControlProofs.tla                   # the proofs of a component

`PROJECT.json` lists the components, the runs, which lines each definition
stands for, the hazards of the code with the properties that cover them, and
what was found.

## 1. The system

A Go program, built with TinyGo for an ESP32-P4 that sits beside a managed host
as its BMC. It presses the host's power button on request, exposes an SD card
to the host as a USB disk, and bridges its serial console to TCP. The repository
also holds the machine and runtime support of the chip (`bundling/src`) and a
stand-alone network demo (`cmd/demo`).

The scheduler is TinyGo's cooperative "tasks" scheduler: a goroutine runs until
it blocks (channel, sleep, network), so concurrency inside the program is
between blocking points. True concurrency is with the hardware: the DMA engines
of the Ethernet MAC, the USB controller, interrupts, and the host.

| Component | State it keeps | Operations | Interacts with | What is hard | What makes it correct |
|---|---|---|---|---|---|
| Power control (`api.go`, `main.go`) | channel of one action, the worker goroutine, button and sense pins | reset, status, worker loop, start-up | HTTP clients, host's button logic | hand-off to a parked worker or to the buffer, lost replies, late wake-ups, restarts | each accepted action pressed once, in order; presses only when authorised, long or short enough |
| Ethernet TX (`machine_esp32p4_emac.go`) | 4 descriptors and buffers, `txIdx` | `Send` | transmit DMA, through the OWN bit | order of stores, full ring, DMA suspending as it is fed | wire = what was sent; nobody waits for ever |
| Ethernet RX (same) | 4 descriptors and buffers, `rxIdx` | `Recv` | receive DMA, caller that holds a slice | overflow, malformed lengths, aliasing | frames in order, reception never stops, slice intact as long as it can be |
| Demo TCP server (`cmd/demo/main.go`) | one `tcpConn` | `handleIPv4`, `handleARP` | clients over a lossy network | replaced connection, duplicates, padding | nothing acknowledged or answered that was not sent |
| USB endpoint 0 (`machine_esp32p4_usb.go`) | SETUP buffer, pending answer, address, configuration | polling pass and its handlers | controller, host | causes latched before they are served, resets in mid-transfer, chunked answers | answers complete and of their request; host and device agree |
| USB bulk endpoints (same) | one buffer and count per OUT endpoint, the transmit FIFO all IN endpoints share | polling pass, `AckUsbOutTransfer`, `sendUSBPacket`, stall and clear-stall, class driver's handlers | controller, mass-storage driver | delayed consumption, re-arming, empty packets, re-configuration, completions of answers and of stalls | packets and answers whole, once, in order; neither side stuck |
| Runtime (`bundling/src/runtime`) | timer alarm, `interruptPending`, MIE, MSTATUS, MEPC, MCAUSE | `sleepTicks`, `handleInterrupt`, `Enable` | timer, peripherals, every goroutine that sleeps | alarm racing the flag, nesting over one set of CSRs | no sleep ends early or never ends; nesting restores what it interrupted |
| I2C master (`machine_esp32p4_i2c.go`) | command registers, FIFOs, place in `w` and `r` | `Configure`, `Tx` | controller, device | cutting at FIFO limits, refusals and timeouts half-way | the bus sees the transaction in one piece; failures are reported |
| SPI master (`machine_esp32p4_spi.go`) | FIFO, clock register | `Tx`, `Transfer`, clock divider | card | loads of 64 bytes, two buffers of different lengths | every byte once, in its place |
| PWM (`machine_esp32p4_pwm.go`) | four values with a timer and a channel table each, over one LEDC | `Configure`, `Channel`, `Set`, `SetInverting` | pins | shared channels, divisor boundaries | no channel given twice |
| Storage (`storage*.go`, `virtual_media.go`) | two partitions, `filesystem` | `initStorage`, mount and format, read, write, erase | SD card, USB disk of the host | every step may fail, power may go | partitions never touch; the host reads what it wrote |
| Serial terminal (`serial.go`) | connections on one UART | accept, bridge, relay | TCP clients, the scheduler | loops that do not block | bytes are relayed until the client goes |

The API's `startAPIServer` starts the network and the serial terminal; `main`
starts the GPIO, then the worker, then storage and virtual media, then the API.
The demo is the only user of the EMAC driver's `Send` and `Recv` in the
repository: one loop that receives, handles and sends.

## 2. Modules

| Module | Models | Built on | Theorems |
|---|---|---|---|
| `BoundedFifo` | abstract: a hand-over that keeps order, loses nothing and holds at most `Capacity` | | |
| `PowerControl` | power control with its start-up; the host's button is external | implements `BoundedFifo` | `PowerControlProofs` |
| `EmacRing` | what the two rings share: the constants, the slots and the wrapping index | | |
| `EmacTx`, `EmacRx` | the two rings; the DMA engines are external | extend `EmacRing`, implement `BoundedFifo` | `EmacProofs` |
| `DemoTcp` | the demo's TCP endpoint; clients and network are external | | `DemoTcpProofs` |
| `UsbControl` | endpoint 0 | | `UsbControlProofs` |
| `UsbBulk` | a bulk endpoint in each direction; class driver and host are external | | `UsbBulkProofs` |
| `I2cMaster` | `I2C.Tx` with the controller and the device as external parts | | `I2cMasterProofs` |
| `Runtime` | `sleepTicks`, `Enable`, `handleInterrupt` on the core's CSRs | | `RuntimeProofs` |
| `SpiMaster` | `SPI.Tx` and the clock divider as functions | | in `StorageProofs` |
| `Storage` | partitions, `initStorage`, the host's disk; card and LittleFS are external | instantiates `SpiMaster` | `StorageProofs` |
| `Serial` | the serial terminal's goroutines under the cooperative scheduler | | |
| `Pwm` | the LEDCPWM values over their peripheral | | |
| `MC*` | the instances TLC checks | | |

Operators whose name ends in `_Something` after the name of another operator
(`Receive_Peek` of `Receive`) are mutants: what a plausible bug would make of
it. Substituted for the original, each violates the property it is listed with
in `PROJECT.json`; nothing else uses them.

### PowerControl

Actions are the stretches of code from one blocking point to the next.
`Arrive` is the part of `handlePowerReset` that needs the header only (method,
token), `Decode` the part from the body to `enqueuePowerAction` (decoding
errors, `ResetType`, the select with its default), `WriteReply` the rest.
`Enqueue` follows Go's channel: a receiver parked in its receive is handed the
value directly (`worker = "handed"`), else the buffer takes it. `Receive` is
the range loop's receive; `WorkerRelease` is the end of `pressButton` together
with the next receive, as there is no blocking point in between. `Tick` lets
time pass while the button is held and may carry on `MaxLate` ticks past the
duration: a sleeper is woken late, and may then have cut the host's power with a
press of 500 ms. `Reboot` may come at any time. Boot is
`main`: the button's pin is low for the moment between `Configure` and `High`.
`accepted` and `executed` are histories.

The host is an ATX button: a press wakes it, a release asks a running host to
shut down, `ForceTicks` cut its power; it also starts and stops by itself.
A `duration` in the channel is represented by the request it came from.

### EmacRing, EmacTx, EmacRx

`Send` is one action per store the DMA can see: `Send` (the OWN check),
`CopyFrame`, `SetLength`, `GiveToDMA`, `PollDemand`. `Recv` only touches a
descriptor the DMA has given up and ends with the store that gives it back, so
it is one action per outcome. The DMA engines look at the descriptor, work, close
it, or suspend themselves until a poll demand. A frame is a model value, a
descriptor's length field the frame whose length it is. `slice` in `EmacRx` is
what the caller of `Recv` holds, with what the frame was when it was returned.
The names that both modules would define carry `Tx` or `Rx` in front, so that one
module of proofs can speak of both.
The histories and the counters `filled` and `recycled` number the frames: frame
`k` is in slot `k % N`, which is what the proofs rest on.

### DemoTcp

One action per branch of `handleIPv4` (RST, SYN, segment of the connection,
anything else). Sequence numbers are counted from each side's first one and requests
are one byte long; 32-bit wrap-around plays no
part because the code never compares sequence numbers. The network is the set of
all segments ever sent: receiving does not remove one, so loss, duplication and
reordering need no actions of their own. A client dials again from the same
address and port when its connection is over, with sequence numbers above those it
used (`iss`, `sndNxt`), while segments of its earlier connections still arrive. A
frame without data may have been padded (`pad`); `DataLen` counts the padding, as
the code does.

### UsbControl, UsbBulk

A pass of `usbPollLoop` latches GINTSTS once (`usbPollLoop`) and serves the
causes in the order of `handleUSBDWCIRQ`, one action each, with the draining of
the receive FIFO one action per entry; host and controller take steps in
between. The controller raises the SETUP and transfer-complete interrupts when
the corresponding FIFO entry is popped, as it does in slave mode. The host may
reset the bus at any time and may break off a transfer with a new SETUP. In
`UsbControl` an answer is told by its request's number and its lengths, in units
of which `MPS` fill a packet; requests are classed by what
`handleStandardSetup` does with them.

In `UsbBulk` a byte count is the packet whose length it is. The class driver
(external) consumes a packet in its handler or keeps the slice (`task`) and
consumes and re-arms later (`processTasks`); it queues its answers (`todo`) and
sends the next one when the transmit handler reports the one before
(`handleUSBInEP`). An answer is one transfer of several packets written to FIFO 1
(`sendUSBPacket`; what does not fit is lost, `dwcFIFOWrite`), or a stall (`SetStallEPIn`) that the host clears
(`ClearStallEPIn`). `initEndpoint` is SET_CONFIGURATION and may come again.

### I2cMaster

The loop of `transmit` is one action per command it meets (`Restart`, `Write`,
`Read`, `StopCommand`), and one per way a wait ends (`Fail`, `GiveUp`, `Fetch`).
A byte is told by what it is (address, data, reply) and its place in `w` or `r`.
The controller executes its command registers one at a time; the device may
refuse any byte it is sent or hold the clock. The property `TransactionOnWire`
compares what the bus has seen with the transaction in one piece.

### Runtime

The core has one MEPC, one MCAUSE and one MSTATUS, which every trap overwrites. A
context is a number, 0 for normal code and `i` for the `i`-th handler on the
stack, and MEPC is such a number. `handleInterrupt` is one action per stretch
between two accesses that matter: `Enter` (save, mask the channel, interrupts
on), `callHandler`, `signalInterrupt`, `Leave` (interrupts off), `Unmask`,
`Restore` (MCAUSE, MSTATUS, MEPC), and `Mret` for the assembly around it.
`Trap` (external) can come between any two of them, as it can between any two
steps of `sleepTicks` (`SleepCheck`, `ClearPending`, `SetAlarm`, `StartAlarm`,
`SleepWait`) or of `Enable`. `SetAlarm` stores the alarm in two halves; an alarm
that is still on may go off in between. MIE and MSTATUS.MIE start with any
value: `interruptInit` is never called and `initTimerInterrupt` writes neither.

### SpiMaster, Storage

`SpiMaster!Tx` gives what goes over the wire as the concatenation of its loads,
a recursive function of the number of the load, and `TxReceived` what comes back.
`freqToClockDiv` picks the divider nearest to the frequency asked for.

`Storage` uses them to carry a sector to and from the card. `PartitionDevice` is
`ReadAt`, `WriteAt` and `EraseBlocks` with the partition's offset. `initStorage`
is a step per call that can fail (`ConfigureCard`, `Partition`,
`mountFilesystem`, `FormatErase`, `FormatMark`, `MountAgain`);
`startVirtualMedia` follows only its success. `HostWrite` and `WriteSector` are
the host's writes through the USB disk, sector by sector, and `PowerLoss` cuts
anything short. A sector is written and an erase block erased whole or not at all,
and an erase of several blocks may stop after some of them. `Own` are the sectors of
the host that share no erase block with the tail.

### Serial

`running` is the goroutine that has the CPU, `runq` the ones that could have it. It
keeps the CPU until it blocks. The network stack is a goroutine of its own
(`NetStep`, external). `Accept` is `startSerialTerminal`'s loop after `net.Listen`
succeeded (otherwise it returns and there is no serial terminal), `StartRelay` and
`CopyUart` are `bridgeSerialConn`, `CopyConn` the `io.Copy` it starts.
`Buffered` is what `UART.Read` finds: 0, as nothing ever fills the buffer.

### Pwm

One action per method. `Configure` resets the whole peripheral before it looks at
the period, so that all values lose their registers and only one its table;
`Channel` looks for a free entry in its own value's table.

## 3. Runs

| Run | States | Instance | Shows |
|---|---|---|---|
| `power` | 548 k | 3 requests of every kind, queue of 1, presses of 1 and 4 ticks against 3 to cut power, up to two ticks late, one restart | nothing lost, doubled or reordered; the button only for accepted actions, and held as long as they say; accepted actions are executed |
| `emac_tx` | 5 k | ring of 4, 6 frames | the ring fills, wraps, suspends: the wire carries what was sent, all of it |
| `emac_rx` | 11 k | ring of 3, 6 frames with malformed ones | it overflows and wraps twice: frames come out in order, reception goes on, how long the slice lasts |
| `demo_tcp` | 1145 k | two clients contend, one of them dials twice, a third dials a closed port; frames padded or not | no acknowledgment without the bytes, no connection or answer without a handshake |
| `tcp_padding` | | the same | violation: a padded ACK is answered as a request |
| `usb_control` | 924 k | 3 requests of eight kinds, each may be broken off, 1 bus reset, packets of 2 units, a control buffer of 6 | answers belong to their request, host and device agree, transfers end |
| `usb_bulk` | 85 k | 3 packets, answers of up to 3 packets against a FIFO of 2, or stalls, 2 configurations | packets and answers whole, neither side waits for ever |
| `i2c_tx` | 329 k | 2 transactions, 0..8 bytes written and 0..9 read, FIFOs of 4, 8 registers | the bus sees one transaction; nothing overflows; `Tx` returns |
| `runtime` | 469 k | timer and two peripherals, 2 ticks, 2 interrupts of peripherals | handlers nest, sleeps last, woken goroutines run |
| `storage` | 69 k | 7 sectors of 5 units through loads of 2, tail of 2 in the middle of erase blocks of 2; 2 writes, 2 losses of power, 2 errors | partitions apart, the host reads what it wrote |
| `serial` | | 2 clients of 2 bytes | violation: the first bridge stops the relay |
| `pwm` | | 2 LEDCPWM, 2 pins, 2 channels | violation: two of them give the same channel |

Bounds. Three requests are one more than the channel and the worker hold
together, so that busy, hand-off and buffering all occur in every order; the
durations 1 : 4 against 3 ticks to cut power keep the order 500 ms < 4 s < 6 s, and
two ticks of lateness make a short press long enough to cut the power.
Six frames go once and a half round the transmit ring and twice round the receive
ring. I2C FIFOs of four bytes (32 in the code) and lengths up
to one beyond two loads give every way a transfer is cut; `Tx` treats the FIFO's
size as a number, nothing depends on it being 32. Two clients are enough to replace each other's
connection in every state. A client may use a number of sequence numbers
(`MaxSeq`): three let it dial, ask, abort and dial again, or dial three times; to
close in full and dial again takes four, which only the proofs cover. An answer
longer than FIFO 1 is one of three packets against two (more than 16 in the code).
The card of seven sectors begins its tail in the middle of an erase block, as a
card whose size is no multiple of its erase block does; an aligned one is covered by the
proofs. Three control requests allow an interrupted one, its
successor and one after that. Three interrupt channels give three handlers on top
of each other, with the timer's at any place. Sectors of five units through loads of two end in a
short load, as do the transfers of the code whose length is not a multiple of 64;
two losses of power let one hit the recovery from the other. `CHECK_DEADLOCK FALSE` is given where a
bound on frames, packets, requests or time ends every behaviour.

Fairness. `FairSpec` assumes:

- `PowerControl`: the worker is scheduled when it can run and woken when its sleep
  is over, and time passes. Nothing is assumed of HTTP clients. The cooperative
  scheduler gives the first as long as no goroutine spins. The serial terminal's does once a client has connected (`serial`), so
  `AcceptedIsExecuted` is a promise for a controller whose serial port nobody has
  dialled.
- `EmacTx`, `EmacRx`: the caller goes on with a `Send` it began and calls `Recv`
  again and again, as the demo's loop does; the DMA engines complete what they
  began. No frame has to arrive.
- `UsbControl`, `UsbBulk`: the poller and the class driver run; the host goes on
  with a transfer it began, takes an answer that is offered and clears a stall.
- `I2cMaster`: controller and CPU go on; the device need not.
- `Runtime`: the core executes instructions and the counter counts. No interrupt
  has to come: `sleepTicks` also polls the timer.
- `Serial`: the CPU executes the running goroutine, and the stack does not
  overlook a packet for ever.

Nothing is assumed of the demo's network and no liveness is claimed there, as the
server never retransmits.

Properties hold with these exceptions, stated in them:

- a SET_CONFIGURATION in the middle of a bulk transfer, or an empty packet, voids
  `PacketsArriveWhole` (`clean` of `UsbBulk`), an answer longer than FIFO 1
  `AnswersArriveWhole` (`fits`), and either the second half of `NobodyWaits`;
- a control request the driver does not know, or an answer of whole packets shorter
  than `wLength`, does not end (`Ends`);
- a control transfer that the host breaks off, by a reset or a new SETUP, before the
  driver has caught up with it leaves its answer in the FIFO, its completion or its
  SETUP behind, and the next transfer gets them; the three properties of
  `UsbControl` are claimed again after a reset that finds the driver caught up
  (`clean`). A reset between transfers may find it as far behind as it likes;
- `EstablishedMeansHandshake` counts a SYN-ACK the client accepted in an earlier
  connection: it does not say that the present handshake is complete;
- `PressFitsRequest` lets a press of 500 ms cut the power once it has lasted 500 ms,
  that is when the worker is woken seconds late, which nothing in the code excludes;
- `SliceValidWithinARound` lasts until the DMA has come round to the slot;
- an I2C call whose last load of `w` is full overflows the FIFO when it also reads
  (`Overfull`); after a refusal or timeout `TransactionOnWire` says nothing before
  the next `Configure`, since bytes not sent may be left in the FIFO, and of calls
  that read it does not claim that a refusal is reported;
- of the host's sectors, those in the erase block in which the tail begins are
  given up (`Own`).

## 4. What disagrees with the documents, and what else was found

With a run:

- The demo takes Ethernet padding for the HTTP request
  (`cmd/demo/main.go:286`; `tcp_padding`).
- The first client of the serial terminal stops the firmware: `io.Copy` from a
  UART whose `Read` returns `(0, nil)` never yields (`serial.go:72`, against the
  comment at `:65`; `serial`).
- Two LEDCPWM values give out the same channel
  (`machine_esp32p4_pwm.go:142`, against the error at `:26`; `pwm`).

Modelled, without a run of its own:

- `On` is the same press as `GracefulShutdown` (`api.go:80`), so it asks a running
  host to shut down. In `PowerControl` the host answers to the press, not to the
  name.
- `Recv` promises a slice valid until the next call, after giving the buffer back
  (`machine_esp32p4_emac.go:431`, `:462`). `SliceValidWithinARound` says
  how long it lasts: until the DMA has gone round the ring.
- `usbRxBCNT` is not the count of the last packet when that one was empty
  (`machine_esp32p4_usb.go:256`, `:579`): the packet before it is delivered again.
- An answer is written to FIFO 1 in one go, and nothing asks for free space
  (`machine_esp32p4_usb.go:1022`, `:357`): of one longer than 16 packets of 64 bytes the
  end is lost, and the host waits for it. `AnswersArriveWhole` and `NobodyWaits` except it.
- A control transfer broken off with the driver behind leaves its answer or its SETUP
  to the next one (`:525`, `:642`): `handleUSBReset` neither clears
  `ep0SendPending` nor the SETUP, and nothing flushes FIFO 0 on a new SETUP. The
  properties of `UsbControl` except it (`clean`).
- Any ACK completes a handshake, whatever it acknowledges (`cmd/demo/main.go:279`), and the server
  always starts at the same sequence number (`:264`): an old ACK of an earlier
  connection from the same port establishes a new one, and an old request behind it
  is answered. In `DemoTcp` this happens; `EstablishedMeansHandshake` says what is left.
- "guaranteed by the 64 MiB boundary" (`storage.go:55-56`) is true only of a
  card whose size is a multiple of the erase block: on another one formatting the
  tail erases the last sectors of the host's partition. The run's card is of this kind, and
  `PartitionsApart` and `HostReadsWhatItWrote` except those sectors.
- A worker woken more than 3.5 s late turns a press of 500 ms into one that cuts the
  power (`main.go:74`); a goroutine that does not yield is enough.
- The demo refuses a connection to a closed port from port 80
  (`cmd/demo/main.go:255`), so the client is not told.
- `transmit` ignores a NACK whenever the list contains the last read
  (`machine_esp32p4_i2c.go:324`): a short read from an absent device returns nil.
- A handler that nests zeroes MCAUSE, so `interrupt.In()` is false for the rest of
  the outer handler (`interrupt_esp32p4.go:172`).
- Any error of the first mount, a failed read included, leads to formatting
  (`storage_lfs.go:21`), and `filesystem` stays set after a failed mount; nothing
  calls `readPayload` yet.
- `Configure` of one LEDCPWM resets the channels of all, even when it then
  refuses the period.

Found while reading, outside the models:

- `interruptInit` is never called, so what the boot ROM leaves in MIE stays (the
  model starts from any value); `initTimerInterrupt` sets a bit of MSTATUS where
  its comment speaks of enabling the interrupt in MIE. `sleepTicks` works all the
  same, because it polls: "avoid busy-waiting" is not what happens.
- `PartitionDevice` does not check its bounds; it relies on its callers, and the
  model on a host that stays within the size it was told.
- A PWM period of more than a second makes the frequency 0, which is then a
  divisor.
- The button line is low from `Configure` to the first `High` (`main.go:65`), and
  two buffered actions leave no pause between release and press (`main.go:75`).
- `waitNet` never gives up and nothing tries again after a failure
  (`ethernet.go`).

## 5. Proofs

Every safety invariant the passing runs check is a theorem.
Everything is proved from the named assumptions of the modules alone, which say what
the constants are, with the one hypothesis on the number of I2C registers: any number of requests, clients, channels or sectors,
rings, queues and FIFOs of any length, any bounds. In each module the invariant of
the run is not inductive as it stands, and the proof is about a stronger one.

`PowerControlProofs`:
`TypeCorrect`, `WorkerNeverStranded` (`NoLostWakeUp`), `NothingLost`
(`NothingLostOrReordered`), `PowerImplementsFifo`, `ButtonHonest`
(`ButtonOnlyForAcceptedAction`), `BusyMeansBusy` (`RefusedOnlyWhileExecuting`),
`PressesFit` (`PressFitsRequest`).
`PowerInv` adds to `NoLostWakeUp` that the worker is started once and that before it
there is no job. By `OrderInv` the items under way are the worker's and the
buffered ones: `Decode` maps to `Put` (its guard gives room), `WorkerRelease` to
`Get`, `Reboot` to `Restart`, all others to stuttering. `ButtonInv` ties the level
of the pin to the worker's state, and `ServingInv` says that no
request is read before the worker has had its first turn, so that a full queue
means a worker with a job. `PressesFit` takes `DurationAssumption`: the long press
is at least as long as the host needs to cut its power and the short one is shorter,
as 6 s, 4 s and 500 ms are. The worker's sleep does not end early, and by
`HeldInv` a host whose button is held for `ForceTicks` is off; it stays so, as nothing wakes it while the
line is low. How late the worker is woken plays no part.

`EmacProofs` has both rings: `TxTypeCorrect` (`TxTypeOK`), `RingHoldsWhatIsUnderWay`
(`TxRingAgrees`), `TxImplementsFifo`; `RxTypeCorrect` (`RxTypeOK`),
`RxRingConsistent` (`RxRingAgrees`), `SliceLastsOneRound`, `RxImplementsFifo`.
The code's indices wrap, so the proofs count frames instead:
frame `k` is in slot `k % N`, the software and the DMA stand at counts that differ by at
most `N`, the OWN bits say which slots are between them, and those slots hold the
frames of their numbers. The lemmas at the top have the arithmetic this takes:
numbers that differ by less than `N` have different slots, and the slot comes
round after `N`. `RxInv` adds what the caller's
slice holds (`SliceOK`). In the refinement of the receive ring malformed frames
drop out of the sequence; `Ranked` says that frames can be numbered so that the
good ones keep their order.

`DemoTcpProofs` (`TcpTypeCorrect`, `HandshakeCompleted` stating
`EstablishedMeansHandshake`, `NoCrossTalk` stating `AckHonest`). As nothing leaves
the network, the invariant speaks of every segment ever sent: `UpOK` says of each what
its client had done when it sent it, which stays true because `sndNxt` and `opened`
only grow; `ConnOK` says what the
server's connection has learnt from them, `DownOK` what the server's segments say,
and `TcpInv` is all of it together. Nothing is assumed of padding, of the number of
dials or of which connection a segment is from; the byte of padding that
the response may acknowledge is part of `AckHonest`.

`RuntimeProofs` (`RuntimeTypeCorrect`, `HandlersNest`, `SleepsToTheEnd`). `Nested`
says for every handler on the stack what it saved (`FramesOK`), for the running one
what the CSRs hold at each stage (`CsrsOK`), and which channels are masked
(`ChannelsOK`). A trap finds interrupts on, so the handler below is in one of the
three stages in which its state is already saved and its channel masked.

`UsbControlProofs` (`ControlTypeCorrect`, `AnswersMatch` stating
`AnswerBelongsToRequest`, `StatesAgree` stating `HostAndDeviceAgree`). A request is
unserved from its SETUP packet to its handler; as long as it is, nothing is armed
(`UnservedOK`), so the host cannot go on, and it is the last thing in the receive
FIFO (`SetupOK`). Once it is served, what the host has taken, the transmit FIFO and
`ep0SendPending` follow one another in its answer. The delicate case is an IN
interrupt raised by the transfer before: it must find nothing pending and be
served before the SETUP, which is the order of `handleUSBDWCIRQ`. All of this is
claimed while `clean` holds; the proof has to show how `clean` comes back, with
everything in place again, when a reset finds the driver caught up. Type
correctness needs no such condition.

`UsbBulkProofs` (`BulkTypeCorrect`, `AnswersWhole`, `BufferOfferedOnce`,
`PacketsWhole`). `InInv` accounts for the answers: what the host has taken and what is in the FIFO
are together the packets handed over, in order, as long as `fits` holds, and completion, stall and
`sending` exclude each other as the class driver expects. `OutInv` puts the last
packet sent in exactly one place (FIFO, completion entry, pending completion,
class driver, or consumed). From it follow three statements, all as long as
`clean` holds: the buffer is not offered to the host while a packet is
in it (`ArmedOnlyWhenDrained`); all packets but the last have been consumed
with their own bytes and lengths, in order (`ConsumedInOrder`); and, with the last
one wherever it is, nothing is missing (`PacketsArriveWhole`).

`I2cMasterProofs` (`I2cTypeCorrect`, `LoadsAlwaysFit` stating `LoadsFit`,
`TransactionIsOnWire` stating `TransactionOnWire`). `BusInv`
says where `transmit` is: what is left of the command list is in order with STOP last
(`CommandsOK`), each command finds a list of at most 0, 1, 2 or 6 commands
(`Room`), and a load of `w` that is not the last ends one byte short of a
multiple of the depth (`FullLoads`; the address took the first place). `LoadInv`
balances the FIFO: the WRITE commands of the list take out exactly the bytes that
are in it. Their sum is stated without recursion, as the existence of the sequence of its
partial sums (`Counts`), with lemmas for joining lists and for taking the first
command off. Two things follow. A list has at most seven commands, so
the theorem asks for `Registers >= 7`, and the chip has eight. And a byte is only
lost when the address of the read meets a FIFO filled by the last load of `w`,
which by `FullLoads` means `(len(w) + 1) % Depth = 0`, the exception `LoadsFit` names.
`WireInv` follows the bytes themselves. `Exec` says what one command makes of the bus
and the two FIFOs, and `Runs` that a list leads from one such state to another, again
by the existence of the states between. `GoesOn` is that the list under way leads from
the present state to `Due`: on the bus the transaction up to the place where `transmit`
is, the transmit FIFO empty, and in the receive FIFO the bytes about to be fetched. The
controller takes commands off the front of the list (`RunsFirst`), `transmit` adds
commands at its end (`RunsLast`) and bytes behind those the list takes (`RunsGrow`).
`FetchedOK` says the same of `r`. None of it is claimed while a byte is lost;
`LoadInv` shows that such a list never finishes. That a refused write is not
reported as done is a separate invariant (`RefusalOK`), which
needs nothing of this. The model does not drop commands beyond the last register;
`LoadsAlwaysFit` is what shows that there are none.

`StorageProofs` (`StorageTypeCorrect`, `TailIsInvisible` stating `PartitionsApart`,
`HostReadsItsWrites` stating `HostReadsWhatItWrote`). `Placed` fixes where the
partitions are from `Partition` on: an erase, whole or cut short, stays behind the
beginning of the erase block in which the tail begins (`Own` lies before it) and,
within the size it was told, the host before the tail.
`SectorsHold` says what the sectors contain, and rests on the SPI master:
that the loads of a sector, sent and received, put together are the sector,
for any two lengths. The loads are recursive functions of the number of the load; as the
library's induction theorems cannot be used, their lemmas argue by the least load at
which the statement fails (`LeastOf`).

Only model-checked:

- all liveness (`AcceptedIsExecuted`, `Ends`, `TxReturns` and their like): fairness
  and ENABLED are beyond the prover;
- the runs that end in a violation;
- that `freqToClockDiv` picks the nearest divider.

## 6. Not modelled

- Register-level initialisation (clocks, PHY, MDIO, FIFO sizes, pin multiplexing) of
  all drivers: straight-line writes with time-outs. The models start from its result.
- Exceptions and watchdogs: the first end in an endless loop, the second are
  switched off at start-up.
- The heap: a shim over the garbage collector's allocator.
- The flash driver, which the firmware does not use.
- Byte layout, checksums, ARP.
- Boot assembly, linker script, image patcher: no state to check.
- The libraries the firmware calls (net/http, the network stack, LittleFS, the SD
  card and mass-storage drivers): they appear as external behaviour.
- In the modelled components: class requests and the interface setting of
  endpoint 0, a stall of a bulk OUT endpoint, bus resets in the middle of a bulk
  transfer, `SPI.Transfer`, and an I2C bus recovery
  (`resetMaster`) that does not end.
- Of the external parts: the I2C controller is taken to report the NACK with which
  the master ends a read together with the completion of the list. If the chip raises
  it at the last byte, `Tx` may see it, and return, before the STOP is on the bus
  (`machine_esp32p4_i2c.go:315-324`); the bytes read are in the FIFO by then. The USB
  controller is taken to answer at the old address until the status stage of
  SET_ADDRESS is over.

What could follow: the arithmetic of `freqToClockDiv`, a bus reset in `UsbBulk`, and the
caller of `I2C.Tx` that goes on after a timeout without `Configure`.
