# Verification of the ULND network drivers

The repository holds the programs of a course on Linux network drivers: a
simulated network card and the driver that runs it, a loopback driver, a PCI
network driver, a packet parser and a tool that configures interfaces. This
directory holds TLA+ models of them, configurations that check the models with
TLC, and theorems proved with TLAPS. `PROJECT.json` lists the runs, the source
lines behind every definition, the hazards and the findings.

Several places of the code are exercises, marked `TODO`. Where one of them
decides how the program behaves, the constant `TodoFilled` chooses: `FALSE` is
the code as committed, `TRUE` the code with the place filled in the way its own
comment asks for. `WithTODO` chooses whether `nic.c` is compiled with `TODO`
defined, which makes `nic_hw_enable_intr` look for waiting packets and call the
handler (the block at line 385 also needs its `flags`, commented out at line
382). Findings say which they are about.

## 1. Inventory

| Part | State it keeps | Operations | Modelled in |
|---|---|---|---|
| Simulated card, `P04_vnic/nic.c` | two descriptor rings and their four indices, `handler`, `nic_ready`, `nic_intr_enabled`, the spinlock, the `nic` interface with its NAPI instance and statistics | the exported functions `nic_*`; `nic_open`, `nic_close`, `nic_start_xmit`, `nic_poll`; `nic_init`, `nic_exit` | `DescRing`, `Nic`, `VnicModules` |
| Packeted network driver, `P04_vnic/packeted_network_driver.c` | its interface, its NAPI instance, statistics | `pnd_open`, `pnd_close`, `pnd_start_xmit`, `handler`, `pnd_poll`; `pnd_init`, `pnd_exit` | `Pnd`, `PndProps`, `VnicModules` |
| NAPI (Linux kernel) | scheduled, missed, disabling | `napi_schedule`, `napi_complete`, `napi_enable`, `napi_disable` | `Napi` (external) |
| Loopback driver, `P03_ndo/lb_network_driver.c` | one packet `pvt->skb`, NAPI instance, statistics | `lnd_init`, `lnd_exit`, `lnd_open`, `lnd_close`, `lnd_start_xmit`, `lnd_poll` | `Loopback` |
| PCI network driver, `P06_pn` | what is acquired per card, the driver-data pointer, `pvt->reg_base` | `pd_probe`, `pd_remove`, `nd_init`, `nd_exit`, `nd_open`, `nd_close` | `PciNet`, `PciDrivers` |
| First PCI driver, `P05_pci` | what is acquired per card, the driver-data pointer | `fpd_probe`, `fpd_remove`, loading, unloading | `FirstPci`, `PciDrivers` |
| Packet parser, `P01_pp` and a copy in each program | position in the packet | `parse_pkt` | `PacketParser` |
| Network APIs and menu, `Apps` | open descriptors, the name of the interface; the kernel's table of interfaces | the calls of `net_apis.c` | `NetApis` |

How they interact. The driver calls the card's exported functions, and the card
calls the driver's handler from `nic_start_xmit` with the card's lock held. Both
are run by the kernel: by the processes that open and close interfaces, under
the RTNL lock; by the transmit paths, one per interface; and by softirqs that
call the poll functions through NAPI. The three registers of the card are read
and written without the lock. `pci_driver.c` and `network_driver.c` call each
other in one process and share one pointer; `first_pci_driver.c` names the same
device in its table and uses the same pointer. The processes of `Apps` share the
kernel's interfaces.

What is hard, and therefore what the properties are about:

* *Card and driver.* The handler, the two polls and the two transmits run while
  `pnd_open` or `pnd_close` is between two of its calls. `nic_hw_enable_intr`
  runs after `napi_complete`, when `napi_disable` no longer waits for this poll.
  `napi_schedule` collapses requests. Correct means: a packet is in one place,
  comes out once and in order; nothing runs after `pnd_close`; the interrupt
  never stays masked; `napi_disable`, which sleeps with RTNL held, returns.
* *Their modules.* `nic_init` registers an interface before it is complete, and
  `rmmod` comes while interfaces are up and polls are running. Correct means: a
  module that is out leaves nothing running, registered or allocated behind.
* *Loopback driver.* Transmit and poll hand one packet over, and the poll is
  asked for outside the lock. Correct means: no leak, no double free, no packet
  without a poll, each packet counted once.
* *PCI drivers.* Every step of a probe can fail, and a card passes from one
  driver to the other. Correct means: everything is given back exactly when it
  should, never while an interface needs it, and a pointer is what its reader
  takes it for.
* *Parser.* Packets are cut off anywhere. Correct means: no byte behind the end
  is read, and the verdict is that of the whole packet.
* *Network APIs.* Between two system calls everything can change, and each can
  fail. Correct means: no descriptor is lost, and what is reported is so.

## 2. Modules

`DescRing` holds the arithmetic of a ring: next slot, full, number of packets,
the window of occupied slots. `Napi` is the kernel's scheduler as a record and
one operator per call; it is the only external module. `Nic` has the state of
the card, one operator per exported function and the actions of the `nic`
interface. `Pnd` EXTENDS `Nic` with the driver and defines the system: each call
that `pnd_open` and `pnd_close` make is an action, and `pndDev` holds the call
that comes next. `VnicLink` is the abstract specification, two bounded FIFO
queues; `PndProps` states the properties and the refinement
`Link == INSTANCE VnicLink WITH ...`. `VnicModules` EXTENDS `PndProps` and
composes all of `Pnd` with the loading and unloading of the two modules: its
`LoadedStep` are the actions of `Pnd`, allowed while the module they belong to is
there. `PciNet` and `FirstPci` have the steps of the two PCI drivers on the
state of a card, and `PciDrivers` composes them. `Loopback`, `PacketParser` and
`NetApis` are independent of these (`Loopback` uses `Napi`). The `MC*` modules
add symmetry sets; `*Proofs` hold the theorems. Definitions marked "Mutant" are wrong on purpose and used by no
specification: each is a plausible mistake that some property must notice.

Choices that need a word:

* **The lock.** What runs under `pvt->lock` is one step, since nothing else that
  looks at the rings can come in between. The exception is `nic_start_xmit`,
  which reads `nic_intr_enabled` and calls the handler under the lock while
  others write that register without it: `holder` says how far it is, after the
  queueing of the packet (`"raise"`) and after the masking (`"handler"`), and the
  lock is free when nobody is inside (`LockFree`). With `WithTODO`,
  `nic_hw_enable_intr` calls the handler too, from `pnd_open` and `pnd_poll`:
  `nic_hw_check_intr` takes the lock for it (`"openCheck"`, `"pollCheck"`).
* **Polling.** `pnd_poll` is one action per turn of its loop. After
  `napi_complete` the instance can be scheduled again, on another processor,
  before this call reaches `nic_hw_enable_intr`; `unmasking` counts such calls,
  and `checking` those that have set the flag and have yet to look for packets.
* **Loading.** `nicKo` and `pndKo` hold the call that `nic_init`, `nic_exit`,
  `pnd_init` or `pnd_exit` makes next. `unregister_netdev` closes an interface
  that is up and returns when its transmits and polls have left the module's
  code. The kernel keeps `nic.ko` loaded while `pnd.ko` uses it. A transmit on
  the `nic` interface before its lock is initialised is two actions
  (`early_xmit_lock`, `early_xmit_rest`), since the lock does not protect it;
  with `WithTODO`, its second half is left out while the handler is called.
* **NAPI** is the scheduler of kernels since 4.10: a request for an instance
  that is scheduled sets one flag, and `napi_complete` then queues the instance
  again; `napi_disable` first refuses new requests, then waits for the
  instance to become idle; when it is waiting, a poll that used up its budget
  is completed by the kernel.
* **Packets** are model values. They are reused once freed, so that a stale
  pointer could be mistaken for a new packet. `owned` is the set of packets the
  drivers have been given and have not given away, and the place to see a leak.
* **Network stack.** It serialises the transmits of an interface and stops them
  before it closes the interface.
* **A crash.** `nic_poll` reads `skb->len` of the slot it takes. If the slot is
  empty `oops` becomes true and the system stops.
* **The PCI card** of P06 is a template with empty functions, so opening and
  closing only enable and disable NAPI and no poll ever runs.
* **System calls** of `NetApis` are one action each, and each may fail. Most of
  the ioctl commands are exercises; as committed these ioctls always fail, and
  the committed program has a part of the behaviours of the model.

## 3. Runs

| Run | What it shows |
|---|---|
| `pnd_safe` | Safety of driver and card: `SkbOwnedOnce`, `RingsFilled`, `Handshake`, `QuiescentWhenDown`, `InterruptIsHeard`, `NoDeafDriver` in all interleavings; and that they implement `VnicLink` (`ImplementsLink`): nothing is lost, duplicated or reordered, and packets are flushed only while the card is not ready |
| `vnic` | Both modules loaded, used and unloaded again and again, with registrations that fail: `CardReleased` (the card is freed when nobody uses it and no packet is left in it), `DriverGone` (an unloaded driver is called by nobody), `StatsClearedWhenDown`, `NoEmptyPoll` (the card polls without a packet only after `pnd_close` flushed the ring), and, compiled with `TODO`, `PacketIsNoticed` (a packet in the receive ring has somebody on the way to it) |
| `pnd_live` | `pnd_open`, `pnd_close`, `nic_close` return; an interrupt empties the ring; the interrupt is unmasked in the end; and with `nic.c` compiled with `TODO`, every packet that arrives is noticed (`RxServed`) |
| `lnd` | The loopback driver with its `TODO`s filled in neither leaks nor frees twice nor strands a packet, counts each once, polls in vain only for packets that were replaced, settles each packet in the end, and its close and unload return |
| `pn` | Two drivers for the same cards, probes that fail anywhere, removal, unloading and users of the interfaces interleaved: nothing is leaked or used after it was given back, the shared pointer fits its reader, and unloading ends |
| `parser` | Every length of packet with every kind of header |
| `net_two` | Three processes on two interfaces, two of them in a call at once, every sequence of calls with every failure: no descriptor is lost (`DescriptorsReturned`), and what a process knows, or does to addresses and flags, goes wrong only through others (`OnlyOthersDisturb`, `PairTornByRace`, `OnlyAskedFlags`) |

The other runs each show one finding, and TLC must find the violation:

| Run | Violated | Where the code disagrees |
|---|---|---|
| `vnic_lock` | `LockProtects` | `nic_init` initialises the lock after it registered the interface (`nic.c:279`, `290`): it frees the lock under a transmit |
| `pnd_late_intr` | `IntrChangesOnlyWhenReady` | The interrupt of a card that is shut down is unmasked by a late poll |
| `pnd_rx_served` | `RxServed` | A packet that arrives while the interrupt is masked waits for the next one |
| `pnd_tx_served` | `TxServed` | Three transmits while the instance of `nic_poll` is scheduled give two polls of one packet each |
| `lnd_empty_poll` | `NoEmptyPoll` | "Should not happen" happens when a packet is replaced during a poll |

`RxServed` appears twice: violated with `WithTODO = FALSE`, the card as the
Makefile compiles it, and true with `WithTODO = TRUE`. So the exercise that the
block is part of is the repair, and `pnd_live` checks it: the further call of
the handler, from two places and under races with `pnd_close`, neither blocks
the close nor leaves the interrupt masked.

`net_two` says what the program can promise. Nothing in the repository protects
a process from another that renames the interface between the look-up of its
index and `sendto`, or that enters its own address between the address and the
mask of `set_ip_addr`, or from two others that move its name to another
interface between the two ioctls of `set_if_state`, which then writes the flags
of the first interface to the second; nothing promises it either, so that these are limits of the
program and not findings. What can be promised is that nothing else goes wrong,
failures of system calls included: `OnlyOthersDisturb` names the step of
another process that must have come between, and `PairTornByRace` and
`OnlyAskedFlags` say that nothing less does the damage. With one process, for whom there is
no such step, it says that packets go through the interface that is named and
that address and mask belong together. Where several processes run, the
three properties bound the damage and do not exclude it: the hazards at
`net_apis.c:288`, and the races at lines 136 and 216, are in the model, and no
property forbids them. Nor does any forbid that `set_ip_addr` returns -1 with the
address changed and the mask refused (`net_apis.c:136`); `PairTornByRace` says
that the mask is then the one that came with the new address.

The refinement and the violation of `RxServed` do not contradict each other: the link loses
nothing, but it does not promise when a packet is noticed. That
a packet that is in the ring when the card interrupts always leaves it locates
the fault: a poll that was asked for does its work; in `nic_hw_enable_intr`
nobody asks.

### Bounds

* *Rings* have 3 slots in the safety runs (1024 in the code): room for two
  packets, so a ring can be empty, partly filled and full, and the indices wrap
  in every relative position. The liveness runs use 2 or 3 slots, and
  `pnd_tx_served` 4, for three packets wait in the transmit ring there. Two
  slots are the smallest ring that holds a packet.
  `vnic` has a receive ring of 2.
* *Packets*: as many as are needed to fill a ring and have one on its way
  elsewhere, three; two where only one direction matters.
* *Weights* (64 in the code): 2 lets `pnd_poll` end by an empty ring and by its
  budget; 1 in `pnd_live` and `vnic` lets the budget end every poll that finds a
  packet. `NIC_NAPI_WEIGHT` is
  2, larger than the one packet of `nic_poll` as 64 is.
* `CPUS`, the calls of `pnd_poll` past `napi_complete`, is 2 in `pnd_safe` and
  `vnic` and 1 in the other runs. `pnd_live` passes with 2 as well, in several
  minutes.
* `WithTODO` is `TRUE` in `pnd_live` and `vnic`, `FALSE` in the others. Each of
  the three passes with both values, except for `RxServed`, which is violated with
  `FALSE` (`pnd_rx_served`): `MCPndLive.cfg` with `WithTODO = FALSE` and without
  `RxServed` (119 thousand states, a minute) is the liveness of the card as the
  Makefile compiles it. It is no run of its own because it asks the same question;
  `TRUE` is the harder case, for the handler has two more callers.
* `StatMax`: statistics saturate at it; 1 in `vnic`, where they matter, and 0,
  which leaves them out, in the others.
* `MaxSent`, packets between two closes of the loopback driver: 6 in `lnd`, 3 in
  `lnd_empty_poll`. One packet in each of `pvt->skb`, `polled` and a new one need 3.
* *PCI*: three cards, so that each driver has one while the third passes from
  one to the other; cards meet only in the loading and unloading of drivers.
* *Parser*: the packets are what `packet_parser.c` reads and what `net_ops.c`
  receives; `MTU` 60 (1500 in the code) is above the 54 bytes of the longest
  three headers, so every way of cutting a packet occurs, and with a payload.
* *Network APIs*: two interfaces and three names, so that an interface can be
  renamed and its old name stay free or be taken by the other; two addresses. For
  a name to pass from one interface to another while a third process is between
  its ioctls takes three processes, of which two are in a call at any moment: the
  constraint `TwoAtOnce` leaves the others at their menus. (Without it the run has
  3.3 million states and passes too.) `IFF_PROMISC` is left out of `Asked`: like
  `IFF_UP` it is written with every call of `set_if_state`.

Symmetry is used for safety, action properties and refinement only, where the
permuted values are interchangeable, and not in any liveness run. Deadlock is
checked in every run.

### Fairness

Nobody is obliged to open, close, load, transmit or plug. What has been begun
goes on: a process inside an open, close, probe or removal, a transmit path
between two of its steps, a softirq with an instance on its list; the scheduler
of the kernel runs each of these in the end. Fairness is weak, but for actors
that must take `pvt->lock`, which others take and release again and again: the
kernel's spinlocks serve waiters in order of arrival, so these get strong
fairness, the checks of `nic_hw_enable_intr` for waiting packets among them. `lnd_exit` gets strong fairness to close the interface because the
stack keeps new transmits out for it. The two PCI drivers must finish the
probes, removals and unloadings they have begun; removing a card is nobody's
duty unless its driver is being unloaded. The opening of the `nic` interface, and
any arrival of a packet, carry no fairness.

## 4. Proofs

All theorems hold for every value of the constants that satisfies the named
assumptions of the modules (sizes and weights are positive, `NULL` is not a
packet).

* `LibProofs`: lemmas on the arithmetic of a ring of any size: what storing
  and taking do to the window, to the number of packets in it, and to the queue
  that reads it in order (`PutQueue` appends, `TakeQueue` is the tail), and that a
  ring that is not full has a free slot outside the window. `Dist` replaces the
  remainders by cases on linear expressions; every other lemma rests on it. The
  calls of NAPI keep the type of an instance (`NapiType`).
* `PndProofs`: `TypeCorrect` from `TypeInv`, which adds that a poll that runs
  leaves room in `unmasking` and `checking`. `HandshakeHolds`, `Quiescent` and `InterruptHeard` follow from
  `HandshakeInv`: neither is inductive, for both depend on how far `pnd_open`
  and `pnd_close` are; `Handshake` says for each of their points what the card,
  NAPI and the paths may be doing. `NeverDeaf` from `DeafInv`, which says the same of the
  step of `pnd_open` between unmasking the interrupt and looking for packets.
  `PacketNoticed` from `NoticeInv`, which adds `PacketIsNoticed` to it: a
  `nic_start_xmit` that finds the interrupt masked may leave its packet to
  whoever masked it. This is the safety half of `RxServed`; that those on the way
  to the packet arrive is fairness, and stays with `pnd_live`.
  None of these assumes that the `TODO` slots are filled in, and all hold for
  both values of `WithTODO`.
* `OwnershipProofs`: `OwnedOnce` and `NoMissingPacket`, with the `TODO` slots
  filled in, and `StatsCleared`, which needs `HandshakeInv` and the state of
  `nic_poll` (`NicPollInv`). `OwnershipInv` adds to the handshake that the window and the filled
  slots are the same, that `owned` is what is in the windows or in the hands of
  `nic_poll`, all different, and that `nic_poll` has a packet only while it
  runs. One lemma per action that moves a packet. `LinkImplemented` is the
  refinement of `VnicLink` for rings of every size: its queues are the windows
  read in order, a step that moves a packet is the step of the link that the
  lemma named after it shows (`LinkDriverSends` ... `LinkPeerDelivers`), opening
  and closing raise and flush the link, and every other step leaves it alone.
  `OwnershipInv` is needed for it: without it a taken slot might be empty, and a
  packet that is sent might be in the link already.
* `VnicProofs`: `ReleasedEmpty`, `NothingInDriver`, `VnicTyped` and
  `StatsClearedLoaded`, and `SafeLoaded`, `OwnedLoaded` and `LinkLoaded`, which
  carry what was proved of `Pnd` over to the composition: every step of
  `VnicModules` is a step of `Pnd`, or zeroes the card or the driver's NAPI
  instance while they are quiet (`StepOfDrivers`). The invariant adds what each
  point of loading and unloading implies; that is why `nic_init`, which zeroes
  the card, and `nic_exit`, which frees it, lose no packet. `PollFindsPacket` is
  `NoEmptyPoll`, from `PollInv`: unless the ring was flushed, there are never more
  requests for a poll under way than packets in the transmit ring. It assumes
  `1 < NIC_NAPI_WEIGHT` (64 in the code): with a weight of 1 the one packet of
  `nic_poll` would use up its budget, it would be polled again, and the property
  is false. `LockHolds` (`LockProtectsOnceInit`, which no run
  checks) says that the transmit of `vnic_lock` is the only one under which
  rings or handler change.
* `LoopbackProofs`: `HeldOnce`, `StoredPolled` and `NothingLeft` from `HoldInv`
  with the `TODO`s filled in. `NothingLeft` is why the missing free in
  `lnd_close` does not leak there: `napi_disable` does not return before every
  stored packet has had its poll. `EmptyPaid` needs both invariants: each
  packet on its way has a request of its own, so that the requests left over are
  those of replaced packets. `Counted` and `LoopbackTyped` from
  `CountInv`, which counts the requests for polls under way. `LoopbackTyped`
  bounds each statistic by `sent`, the packets transmitted since the statistics
  were cleared: the counters of empty polls too, since every poll was asked for by
  a transmit of its own.
* `PciNetProofs`: `PciTyped`, `NothingHeld`, `Nested`, `UpOnDevice`, `PointerFits`
  from `PciInv`, which says what is held at every point of the probes and
  removals of both drivers. A
  lemma shows that a step of one card leaves the others alone.
* `ParserProofs`: `ParserTyped`, `NeverPastEnd` and `ParserRight` from `ParserInv`,
  what is known at each header. `ParserTyped` says that the position is always
  behind a whole number of headers, `NeverPastEnd` that it is inside the packet.
* `NetProofs`: `NetTyped` and `NothingOpen` from `NetInv`, which says how many
  descriptors are open at each system call and that names are unique. The three
  action properties follow from `NetInv` and what it leaves out, one step at a
  time: `OwnStepKnown` says that a process does not disturb itself, failures
  included, and `OtherStepKnown` which steps of another do; `TornByRace` and
  `FlagsAsked` ask what a step of an undisturbed process can write. For any
  number of processes and interfaces. The attempt to prove an earlier form of
  `OnlyAskedFlags`, "never another flag", that two processes satisfy, found the
  race of three described in section 3.

Every invariant, action property and refinement of the passing runs is a
theorem. Only model-checked are the liveness properties (`RtnlReleased`,
`RxInterruptDrains`, `InterruptReturns` and `RxServed`; `PacketsSettle` and
`CallsReturn` of the loopback driver; `ExitReturns` of the PCI drivers), for the
prover has no means for fairness and `ENABLED`, and the absence of deadlock.
The other way round, the runs have the `TODO` slots of the rings filled in; that the handshake of the committed code is right
too is what `PndProofs` shows. With the slots as committed (`TodoFilled = FALSE`
in `MCPndSafe.cfg`) every packet is stored in slot 0 (`nic.c:426`), the receive
side clears slot 0 (`nic.c:449`), and `RingsFilled` fails: what the exercise is
there to repair, and no finding.

## 5. Not modelled

* After a failing `register_netdev`, `nic_init` frees the private area and then
  initialises the lock in it (`nic.c:281`, `290`). The step is in the model, as
  the one exception of `CardReleased`: the property does not catch it, nor does any
  other. What it overwrites is not modelled. The failing
  allocations at the start of the `init` functions change nothing.
* `P07_et` is `packeted_network_driver.c` with other names and an ethtool operation
  that returns two strings and is not installed: `Pnd` describes it as well. The
  card has one handler, and `nic_register_handler` replaces it and wipes the
  rings, so that two of these drivers on one card would take it from each
  other; nothing in the repository loads both, and no model composes them.
* `P02_fnd` registers an interface and `tx_network_driver.c` frees each packet it is
  given: they keep no state. The configuration space and the MAC address that
  `P05_pci` prints are left out.
* `nd_start_xmit`, `handler` and `nd_poll` of P06: with the empty card the first
  frees its packet and the others are never called.
* `enable_ipv6` and `dump_pkt` of `net_ops.c`, which write a file and are run
  once or not at all; their error paths leave a descriptor open, the first just
  before the program ends. `prepare_pkt`, which fills 100 bytes of a buffer with
  a fixed pattern: the model sends packets without looking into them.
* What is known and not a property of a run: `parse_pkt` never looks at `ihl` and
  `doff`, so options are printed as payload; as committed, where no poll is
  scheduled, `lnd_close` sets the pointer of the last packet to `NULL` without
  freeing it (`lb_network_driver.c:132`), as `NothingLeftBehind` shows when
  `MCLoopback.cfg` is given `TodoFilled = FALSE`.
* Changing the MAC address, the display of packets and of the configuration
  space, byte counts of the statistics: no other state depends on them.
* Build files and shell scripts.

## 6. Plan

Done, in this order: ring, NAPI, card and driver with their proofs; the loopback
driver; the PCI driver; the parser; the network APIs; the card compiled with
`TODO`; loading and unloading of the two modules of P04 with its proofs; the
first PCI driver, composed with the PCI network driver; the proofs of the
refinement, of `NoEmptyPoll`, of `PacketIsNoticed` and of the network APIs.

Next:

1. The safety halves of the other liveness properties, as `PacketIsNoticed` is of
   `RxServed`: for each waiting party, who is on the way to it.
2. The receive side of P06 as a contract for the functions left to write.
