# Verification models of the SoCRocket platform

TLA+ models of the SoCRocket virtual platform in this repository: SystemC/TLM models
of the GRLIB components around the LEON3 processor, which a platform
(`core/platforms/leon3mp/sc_main.cpp`) wires together.  Paths below are relative to
`src/`.

SystemC processes are cooperative: a process runs until it waits, so the code between
two waits is atomic and processes interleave at their waits only.  That is the grain
of every action here.  Components interact in four ways:

- TLM calls over the AHB and APB sockets: blocking (`b_transport`, loosely timed, LT)
  or in phases (`nb_transport_fw/bw`, approximately timed, AT);
- signals (`core/sr_signal`), whose write runs the handlers of all receivers before it
  returns;
- callbacks of registers (`core/sr_register`), which run inside the bus write;
- SystemC events and fifos between the threads of one component.

## 1. Inventory

| Component | State | Operations | What is hard | What makes it correct |
|---|---|---|---|---|
| IRQMP `gaisler/irqmp` | level, pending, force, mask, broadcast, clear, identification registers; private copy of the force registers; last request sent to each processor | `incomming_irq`, `acknowledged_irq`, register writes, `launch_irq` | requests are recomputed one or two clocks after the registers change; several processors acknowledge | nobody serves a line that is not owed to him, no line is lost |
| LEON3 pins `gaisler/leon3/intunit` | run/halt status, raised request, PSR.ET, PSR.PIL | main loop, `resetOp`, trap, RETT | a processor is started while requests arrive | as above |
| LEON3 instructions `gaisler/leon3/intunit` | register file, memory ports | one function per instruction (generated) | SWAP and LDSTUB are two accesses | read-modify-write is atomic |
| Caches `gaisler/leon3/mmucache/vectorcache.cpp` | lines with tag, valid bits, LRR, LRU, lock; mode | `mem_read`, `mem_write`, `snoop_invalidate`, flush, tag access | four replacement strategies, partly filled lines, frozen mode, locks | contents in sync with memory, one copy, locked lines stay |
| mmu_cache `mmucache/mmu_cache_base.cpp` | `bus_in_fifo`, `bus_read_completed`, `write_buf`, cache control register | `exec_data`, `exec_instr`, `mem_read`, `mem_write`, thread `mem_access`, `snoopingCallBack` | posted stores, blocking loads, snoops between them | a memory with store buffers, coherent caches |
| MMU `mmucache/mmu.cpp`, `tlb_adaptor.h` | control, context, fault registers, two buffers | `tlb_lookup`, table walk, flush | walk reads memory through the bus thread, fault priorities, replacement | translation equals the tables, faults reported once |
| localram, nocache | an array; nothing | read, write | - | - |
| AHBCtrl LT `gaisler/ahbctrl` | `busy`, `is_lock`, `lock_master`, decoder cache | `b_transport`, snoop broadcast, `transport_dbg`, DMI | masters poll for the bus, locks | one transfer at a time, locks only as long as wanted, everybody served |
| AHBCtrl AT | four event queues, `request_map`, `response_map`, owner of the address phase, state of the data bus | accept, arbitrate, request, response, end-of-response threads | two overlapping phases, priority or round robin, locks | phases in protocol order, one owner per phase |
| AHB master/slave/device `amba` | events of a phase, response queue | `ahbread`, `ahbwrite`, `ahbaccess`, phase handlers | LT and AT variants | each request answered once |
| APBCtrl `gaisler/apbctrl` | slave map, one-entry decoder cache | `get_index`, `exec_func`, plug and play | stale cache entry, split bursts | decoder equals the map |
| GPTimer `gaisler/gptimer` | scaler, counters as (value, time stamp), `stopped`, `chain_run` | register callbacks, `ticking` threads, reset | counters are computed, not counted; events left behind by stop and reset | underflows at the promised times |
| APBUART `gaisler/apbuart` | receive ring, send level, `level_int`, `overrun` | register callbacks, `uart_ticks`, `send_irq` | ring indices, lost events | characters in order, interrupt for each |
| MCtrl `gaisler/mctrl` | four configuration registers, power mode | `exec_func`, `get_port`, `switch_power_mode` | areas move with register writes | each address in one memory |
| Memory `gaisler/memory`, AHBMem | array or map of bytes | read, write, erase, DMI | two storages behind one interface | the storages agree |
| AHBIn / AHBOut / AHBProf | frame buffer; file; counters | generator threads; sinks | a trigger while a frame is sent | each frame sent |
| Voter, CommitRegister `quadcopter/models` | last commits of three subsystems | `incomming_commit`, `watchdog` | vote against commits in flight | only a faulty subsystem causes a reset |
| ARM GIC `arm/gic` | as IRQMP | as IRQMP | a copy of IRQMP with other details | as IRQMP |
| Cortex A9, Microblaze | generated simulators; a copy of the LEON3 caches | - | - | - |
| Signals, registers `core/sr_signal`, `core/sr_register` | receivers; value, mask, callbacks | write, read | re-entrant handlers | - |
| Parameters, registry, reports, JSON, monitors, TRAP run time, Python bindings, tools, SCADE code, waf | configuration, statistics, third-party or generated | - | - | - |

`PROJECT.json` names the files of each, its status, and under "hazards" the lines where
each of these difficulties bites.

## 2. Modules

| Module | Models | State |
|---|---|---|
| `Irqmp` | the interrupt controller: registers, handlers, one round of `launch_irq` | one variable per register; `forcereg` (the private copy); `irqReq` (last value of the output channel) and `eSignal` (the pending notification) |
| `IrqSystem` | IRQMP with processors and devices | plus `run`, `et`, `pil`, `tt` of each processor, `irqSignal` its port |
| `InterruptDelivery` | what an interrupt controller promises; abstract | lines owed to all together, lines owed to one processor |
| `VectorCache` | one cache as operators: lookup, replacement, update, snoop, flush, tag writes | none: a cache is a value |
| `DataCache` | a cache between its processor and a memory; `SpecInstr` is an instruction cache | `cache`, `rand`, `mode`, `mem`; history `order` (which way of a set was used after which) |
| `SnoopSystem` | processors with a data cache each on one AHB, loosely timed | `cache`, `rand`, `fifo` (`bus_in_fifo` and the transaction `put` waits with), `active` (what `mem_access` carries out), `rmw`, `busy`, `isLock`, `lockMaster`, `mem`; history `seen` |
| `TSOMemory` | a memory with one store buffer per processor; abstract | `memory`, `buffer`, `seen` |
| `AhbBus` | processors with a data cache each and an AHBIn on one AHB, approximately timed | the masters (`copy`, `fifo`, `active`, `phase`, `buf`, `rmw`, `frame`), the arbiter (`request` = `request_map`, `owner`, `dataBus`, `robin`, `locked`), the kernel's events (`now`, `soon`, `later`), `mem`; history `flight` |
| `AhbOrder` | a bus that carries transfers out one at a time; abstract | `waiting`, `flight`, `holder`, `mem` |
| `ApbUart` | the APBUART with its driver | the receive ring, the transmit counter, `level_int`, the two notifications, the line; the driver's handler |
| `GpTimer` | all counters of the timer, watchdog and reset | control registers, `stopped`, `chain_run`, the alarm of each thread and what it waits for |
| `Mmu` | MMU, adaptors and virtual caches under one processor that writes its page tables | tables, context and control registers, `fsr`, `far`, `tlb`, `cache`, `mem`; histories `tidy`, `faults` |
| `IrqSystemMC`, `CacheMC`, `SnoopMC`, `AhbMC`, `UartMC`, `MmuMC` | values for TLC | - |
| `VectorCacheProofs` | lemmas about a cache as a value, for `DataCacheProofs` and `SnoopSystemProofs` | - |
| `IrqSystemProofs`, `DataCacheProofs`, `SnoopSystemProofs`, `AhbBusProofs`, `ApbUartProofs`, `GpTimerProofs`, `MmuProofs` | theorems about the module of that name | - |

`IrqSystem` composes `Irqmp` with processors.  `DataCache` and `SnoopSystem` are built
from the operators of `VectorCache`; `AhbBus` is the approximately timed counterpart of
`SnoopSystem`, with caches reduced to what the bus can tell apart.  `IrqSystem`
implements `InterruptDelivery`, `SnoopSystem` implements `TSOMemory`, `AhbBus` implements
`AhbOrder`.

### Interrupts

Each register write with its callback is one action of `Irqmp`, as are `incomming_irq`,
`acknowledged_irq` and the body of `launch_irq` between two waits.  A line is a number, a
register a set of lines.  The delay of one or two clocks before `launch_irq` runs is
abstracted to "later": any other action may come first, which includes all the orders
the clocks allow.  Reading the code from `processor.cpp`, a processor takes the request
on its port when ET is set and the level is above PIL (or 15), acknowledges it and
clears ET; RETT sets ET again.  Left out: performance counters, power, and the read of
the multiprocessor status register, which change nothing else.

`NextBooted` is the system after start-up: all processors run, and software sets
pending bits but does not clear any by writing the register (it has the clear register
for that) and does not write the read-only identification register.  `NextLive` is used
for liveness: no extended lines (`EIRQ = 0`), PIL 0.

### Caches

`VectorCache` has the four replacement strategies as the code computes them, including
the places where it differs from its comments (section 5).  `DataCache` takes a memory
access as one step.  Software sets FD (flush) when it turns a cache on that was off; a
cache that is off is not snooped.  Cache lines carry one VALID bit per line if lines
are fetched whole, else one per word.  Accesses are of whole words: that `offset2valid`
asks for the next word's bit too when a byte or half-word is not the first of its word
(`vectorcache.cpp:801-804`) is left out.

### Snooping, loosely timed

In `SnoopSystem` a store updates its own cache at once and is posted; `mem_access`
takes one transaction at a time out of the fifo (`Serve`), waits for the bus and gets
it (`Begin`: the slave acts here), returns after at least one clock (`Finish`: writes
are snooped here), and wakes the processor of a load (`Complete`: the line is filled
here).  `Finish` requires that no other processor has an answer it has not yet used:
waking takes delta cycles, a transfer takes clocks.  Translation is off: with
`Mmu = TRUE` the stores pass the `tlb_adaptor` in bypass, which matters because of the
lock argument.  A SWAP or LDSTUB is a load and a store of one processor, with the lock
the instruction passes and with or without a forced miss (ASI 1).

### The bus, approximately timed

Each thread of `ahbctrl.cpp`, `ahbmaster.tpp` and `ahbslave.tpp` that a payload event
queue wakes is one action of `AhbBus`.  The kernel is part of the model, because whether
the phases of two transfers come in the right order depends on its delta cycles: `now`
holds the events of this delta cycle, in any order, `soon` those of the next, `later`
those of coming clocks.  The arbiter waits for a clock edge plus a picosecond, that is
until the edge is over.  Processors run last in a delta cycle, which the caches and the
queues cannot tell from any other order.

The slave carries a transfer out when the arbiter hands it BEGIN_REQ (`Carry`), so
`mem` changes at the grant.  It answers after its words and wait states.  The model
takes the delay of a slave to be at least its number of words; the double-word write to
SDRAM of MCtrl does not keep to that and makes `response_delay` wrap in `ahbslave.tpp`.
Addresses are those of the memory, the plug and play area, and one of no slave.
A cache keeps a line or does not; its replacement is `VectorCache`'s business, and one
transaction in the fifo is what its capacity is.

### UART

The `uart_ticks` thread takes one character from the backend and sends one at each tick
(`Tick`), `data_read` and `data_write` are steps of the driver's handler, `send_irq` is
split at its wait for the end of a clock (`Lower`), and the notification `data_read`
makes 100 clocks later is `Late`.  The driver is external: an interrupt handler that
reads some or all characters, then writes one if there is room.

### Timer

Counters of `gpcounter.cpp` do not tick: they compute the time of their underflow and
sleep until then.  The model keeps that alarm in clocks and abstracts the arithmetic to
its range (at least three clocks plus the number of the counter, whatever the
registers hold); what it keeps exactly is which write sets or cancels which alarm, in
which state of the thread.  One tie is left out: a write in the very instant an alarm is due
cancels it here, while in SystemC it may come too late.  `Underflow` and `BackToSleep` are the two halves of
`ticking()` around its wait of one clock, in which software may write or reset.

### MMU

An access that misses a virtual cache walks the tables and goes on to memory in one
action: table writes of the same processor and the reads of the walk go through one
fifo.  Addresses have one bit per level, which gives page entries at every level, the
context table included.  Of the look-aside buffers only which pages they hold is
modelled: the code that would use an entry is commented out, so every access walks.
Both permission tables, the one that decides and the one that warns, are functions of
the permission field.  An access carries its address space (ASI): two bits of it make it
one of a user or the supervisor, and one to data or instructions.  Software may give a
load or a store any of `Asis`; with 0, 1, 8 or 9 the unit takes it for an access to
instructions, a store for type 6 or 7.  `faults` is the set of different faults since the
status register was read.  The operating system changes tables, context and control
register at any time and flushes what it must; `tidy` says whether it has.

## 3. Runs

| Run | Bounds | Shows |
|---|---|---|
| `irq_safety` | 2 processors, lines 1 (cascade), 2, 3, 16 (extended), 3 external events | no request outlives its cause; both copies of the force register agree; a forced line is lost only by its processor's own doing |
| `irq_live` | 2 processors, both running, lines 2 and 3, no cascade, 4 external events | a wanted line is shown once `launch_irq` has run; the refinement of `InterruptDelivery`; every unmasked line is served or cleared in the end |
| `CacheRandom` | 1 set, 2 ways, 4 tags (1 not cacheable), whole lines, locks, random | in sync, one copy, locked lines stay |
| `CacheLru` | 1 set, 2 ways, 2 words, 3 tags, instruction cache: LRU, a bit per word, burst | counters in range; the victim is the line used longest ago; partly filled lines never show a word of the line they replaced |
| `SnoopTso` | 2 processors, 2 tags that compete for 1 line, fifo of 1 | coherence, and the refinement of `TSOMemory` |
| `SnoopAtomic` | 2 processors, 1 tag, fifo of 1 and a waiting `put`, SWAPA and instruction fetches | transfers do not overlap, locks are wanted, SWAPA is atomic, everybody is served |
| `SnoopLdstub` | as `SnoopAtomic`, LDSTUBA | a violation (section 5) |
| `AhbBus` | 2 processors and an AHBIn, 1 line of 2 words, round robin | coherence though transfers overlap; a frame can be read when its interrupt comes; the refinement of `AhbOrder` |
| `AhbLive` | same, 2 lines of which 1 is cached, 1 wait state, frames of 2 words, plug and play area, an address of no slave, 1 value | every transfer that has a slave ends, every frame is announced; the refinement again, with the slower slave |
| `ApbUart` | ring of 4, 6 characters received and 4 sent, three settings of the transmitter | waiting characters are announced, the line is explained, both buffers drain in the end (which character a read returns is `InOrder`'s question, section 5) |
| `GpTimer` | 2 counters, the second one the watchdog, sleeps up to 5 clocks, 3 writes or resets | counters that run have an alarm that is heard; chains start in turn; counters underflow |
| `Mmu` | 3 pages, 1 frame cacheable, 2 contexts, 3 tables, one buffer of 2, 6 table entries software may write; loads and stores with ASI 1 (supervisor, counts as instruction, forces a miss) and 10 (user data); 2 writes, and writes and different faults pending at most 3 together | buffers never outgrow their size; caches flushed when they must be tell the truth; the fault registers sum up the faults since they were read; a store reaches memory only if whoever stores may write there |

**Bounds.**  Two processors suffice for every interaction the code has: a handler treats
"this processor" and "the others" only.  The interrupt lines are one of each kind the
code tells apart: the cascade, a line whose successor is used too (the broadcast test
looks one bit further), that successor, and an extended line.  `MaxOps` of `IrqSystem`
bounds the events from outside (device interrupts, bus writes), not the steps of the
controller and the processors.  Two ways are where LRR is defined; with three LRU goes
wrong (section 5); one line more than ways makes lines compete; two sets are needed only
where a way past the set is another set's, which is LRR's case and is left to the proof.
`MaxPosted` is the capacity of the fifo, 1, and 2 with the transaction a blocked `put`
holds.  On the approximately timed bus three masters are what lets one be in its address
phase, one in its data phase and one wait; two words let the end of a fill and the end of
an address phase fall into one clock edge.  Six characters fill a ring of four and go
round it.  Two counters are a predecessor and a successor, the last one also the
predecessor of the first.  `MaxDelay` is the shortest sleep of the last counter and one
more, so that alarms of different counters meet in every order; `MaxWrites = 3` lets
software start both counters and interfere once.  The third page of `Mmu` is
what a buffer of two has to remove an entry for.  `MaxEvents = 3` leaves, once the unit is
enabled, two different faults before the status register is read, or a write and a fault;
`MmuMC.Changes` has faults of both types of the walk, a page on each level (level 1 in the
other context), a page of the supervisor only and a page two addresses share.  Two address
spaces are what the run has time for: ASI 1 with 10 gives the access types 0, 3, 4 and 7,
fetches 2 and 3.  The theorems hold for any set of them, with the types 1, 5 and 6 and
data accesses with ASI 9 under NF.

**Symmetry** is declared only in runs without liveness, for processors, tags and values
that are compared for equality alone (`CacheLru`, `SnoopTso`, `SnoopLdstub`, and the
values of `AhbBus` and `Mmu`), and never for ways, words or bus numbers.

**Deadlock** is checked wherever the system goes on for ever; only `irq_live` says
`CHECK_DEADLOCK FALSE`, where `MaxOps` lets a behaviour end.

**Fairness.**  A SystemC kernel runs every process whose event has been notified, so
`launch_irq` (`Launch`), the bus thread of each mmu_cache (`Bus(c)`) and the main loop of
a processor at its interrupt port (`TakeIrq`) are weakly fair.  So are, for the same
reason, the threads and the clock of `AhbBus` (`Kernel`), the ticks and the two waits of
the UART (`Tick`, `Late`, `Lower`), and the threads and the clock of `GpTimer`.
Other assumptions are about software: a handler returns (`Rett`), the driver of the UART
is run and goes on (`Handler`), and an instruction that has loaded goes on to its store
(`RmwStore`, `SwapStore`, which is the simulator's code).  No fairness is assumed of
devices, of processors that begin an access, or of the arbiter's choice.

Weak fairness does not make a master get the loosely timed bus against another that
always comes back, and the code does not either: `AHBCtrl::b_transport` polls once per
clock.  `SnoopSystem`'s `Served` is therefore stated under "the others leave the bus in
the end".  `AhbBus` needs no such condition under round robin; with fixed priority TLC
finds the lower master starved.

## 4. Proofs

No property below is inductive as it stands; each module strengthens it to an invariant
(`IInv`, `State`, `Inv`) whose conjuncts are named, proves one lemma for each action, and
ends in theorems by PTL.  Constants have any value the modules' ASSUMEs allow.

`IrqSystemProofs`, for every number of processors, every set of lines and devices, and
every value of `MaxOps` (lines are within 1..31, the cascade is a regular line or absent,
devices drive lines that exist):

| Theorem | Statement |
|---|---|
| `TypeCorrect` | `Spec => []TypeOK` |
| `ShadowCorrect` | `Spec => []ShadowAgrees` |
| `RequestsAreJustified` | `Spec => []RequestJustified` |
| `ForcedLinesStay` | `Spec => ForcedUntilServed` |
| `RequestsAreNotLost` | `SpecBooted => []NoRequestLost` |
| `DeliveryImplemented` | `SpecBooted => ImplementsDelivery` |

`ShadowAgrees` and `RequestJustified` need each other and the type invariant:
`force_write` computes the register from the copy, and a request stays justified only
because every handler that takes a line away lowers the request or notifies `e_signal`.
`NoRequestLost` needs in addition that the port of a running processor equals the last
value of the controller's channel (lost in `resetOp`, hence booted).

`DataCacheProofs`, for every number of sets and words, one to four ways, and every set of
tags and values:

| Theorem | Statement | Assuming |
|---|---|---|
| `DataCacheCorrect` | `Spec => [](InSync /\ OneCopy)` | no burst; not LRR with lines that can be locked |
| `WordsAreSingle` | `Spec => []OneCopy` | the same |
| `DataCacheTypes` | `Spec => []TypeOK` | the same |
| `InstrCacheCorrect` | `SpecInstr => []InSync` | not LRR with lines that can be locked |
| `InstrCacheTypes` | `SpecInstr => []TypeOK` | the same |
| `LockedLinesStay` | `Spec => LockedStays` | no burst, whole lines, not LRU, not LRR with locks |
| `OldestLineLeaves` | `SpecInstr => LruVictim` | LRU, two ways, burst or whole lines |
| `OldestDataLineLeaves` | `Spec => LruVictim` | LRU, two ways, no burst, whole lines |

The assumptions are where the code goes wrong (section 5), but for two: bursts belong to
instruction caches, and a cache that is filled word by word may give up a line that lacks
the word before it asks for the lock.  `InSync` and `OneCopy` need each other: a store
updates the first way that matches, and only if that is the only one is the cache in
sync.  Both need that the replacement strategies name a way of the set.  For LRU and the
direct mapped cache that is immediate; for LRR it is because one of the two marks is off
(`Marks`), so that the loop finds a way before it leaves the set; for pseudo-random
replacement because the last way is never locked (`Unlocked`), so that the loop ends.
LRR is covered by these proofs alone, no run uses it.  What the functions of a cache do
to a line and to its neighbours is stated once, in `VectorCacheProofs`, of a cache as a
value and a memory as a value; there the memory need not be one that exists, which
`SnoopSystemProofs` makes use of.

That LRU takes the line used longest ago rests on two facts.  With two ways the counters
are one bit each, and after the first use of a set one of them is up: that of the way used
last (`Ranked`).  And a way `allocate_line` calls free holds nothing at all, because every
fill goes on to the end of the line (`Complete`), so that the selector is asked only when
both ways are in use.  Without either of these TLC finds the order broken (section 5).

`SnoopSystemProofs`, for every number of processors, any addresses and values and a fifo
of one transaction with at most one that waits to get in:

| Theorem | Statement | Assuming |
|---|---|---|
| `TransfersAreSerial` | `Spec => []OneTransfer` | - |
| `SnoopSystemTypes` | `Spec => []TypeOK` | not LRR with lines that can be locked |
| `LocksAreWanted` | `Spec => []LockWanted` | the same, and no MMU |
| `SwapsAreAtomic` | `Spec => []Atomic` | the same as the types, and that every atomic instruction locks the bus and misses its cache |

They go up in layers.  `Inv` adds to `OneTransfer` the fields of what `mem_access`
carries out.  `Sorts` says what each value is, of each cache all that keeps its
replacement within the set.  `Queues` says that a read is the last transaction of its
processor, because the processor waits for it.  `Swaps` relates the instruction that is
half done to the transactions it has posted, `Locks` the lock of the bus to that
instruction: a lock is there only while its owner still has the storing half to send or
under way.  `Exclusives` adds that from the load on the lock is held by the swapping
processor and that the word in memory is what the load returned; another master's write
would have to hold the bus, and `Begin` does not let it.

Its second half is about coherence and order, under the same bounds, assuming that LRR
and locks do not meet and that `hindex` and the number of the AHB binding are the same and different for each
cache (`OwnIds`, without which TLC refutes coherence, section 5):

| Theorem | Statement |
|---|---|
| `CachesAreCoherent` | `Spec => []Coherent` |
| `ProcessorsSeeTotalStoreOrder` | `Spec => TotalStoreOrder`, that is `SnoopSystem` implements `TSOMemory` |

The idea is the memory a processor must see (`View`): the memory of the transfers that
have ended, with the processor's own posted stores on top.  A cache is in sync with that
view just as the cache of `DataCache` is with its memory, and the steps of the bus change
the view of a processor in one way only: a write of another master that ends changes one
word, and the snoop of that write invalidates the word in the same step.  The invariant
`Right` consists of `Inv`, `Sorts` and `Queues`; `Transfers`: a write on the bus is in
memory, and the answer to a read is the line as of the transfers that have ended
(`Current`), which is why no write may end between an answer and the wake-up of its
reader; and `Caches`: each cache agrees with its view, has no word in two ways, and the
way a pending load has found before it went to the bus is still the right one to fill
(`LookedUp`), although snoops came in between.

`AhbBusProofs`, for any number of masters, lines and values, any length of a line, any
wait states, frames of any number of words and both ways to arbitrate:

| Theorem | Statement |
|---|---|
| `BusTypes` | `Spec => []TypeOK`: among the types, never more than two transfers are under way |
| `Coherence` | `Spec => []Coherent` |
| `FramesAreVisible` | `Spec => []FrameVisible` |
| `OrderImplemented` | `Spec => ImplementsOrder`, that is `AhbBus` implements `AhbOrder` |

The assumptions are those of `AhbBusAssumption`: bus numbers count from 0, a line has a
word, and a frame has words, each at an address of its own, which `gen_frame` computes as
`frameaddr + (i << 2)`.

All four rest on `IInv`, which says of every transfer where its events are.  A transfer
has two courses that started at its grant, one to END_REQ and one to END_RESP; each is a
single event, due in this delta cycle, in the next, or in some clocks (`Sole`), and the
second is one clock behind the first (`Running`).  Since the slave wakes both threads of
a transfer in the same delta cycle when both are due at one edge (`Abreast`), END_REQ
cannot be overtaken.  The arbiter grants the next transfer only when the address bus is
free, so the one before has its END_RESP at the next edge, and two transfers overlap
only in the delta cycle the first one ends in (`Overlap`, `Owned`): the second is then
still in its first delta cycle (`Fresh`), and its own RequestThread cannot run before the
first has ended.  On the masters' side `Asks`, `Requests`, `Flights` and `Accesses` tie
every event, every entry of the request map and every transfer under way to the one thing
its master waits for: that is why `response_callback` always finds `mem_access` waiting
and why no accepted transfer replaces another one.  There is one lemma for each thread,
for the delta cycle, for a clock with and without a grant and for the instructions.

Coherence adds what the copies hold (`CInv`): a copy is the last store of its processor
that has not been granted the bus, or what the memory holds (`Held`), and so is the
buffer of a load under way (`Fetched`), except while a write of another master is in its
address phase; and nothing is queued behind a load (`Blocked`).  When that address phase
ends, RequestThread drops the copies of the line, and the load of another master cannot
be under way then, because of `Overlap`.  A frame is visible because its interrupt comes
when the AHBIn has no transfer before END_REQ left.  The refinement maps BEGIN_REQ to
`Ask`, the grant to `Grant` and END_RESP to `End` or, where `mem_access` takes the next
transfer at once, to `EndAndAsk`; all other steps stutter, because a transfer waits from
the notification of AcceptThread until it leaves the request map.

`ApbUartProofs`, for every size of the buffers, any characters and any settings of the
transmitter:

| Theorem | Statement |
|---|---|
| `UartTypes` | `Spec => []TypeOK`: the ring index and both levels stay in range |
| `WaitingIsAnnounced` | `Spec => []Announced` |
| `LineIsExplained` | `Spec => []LineExplained` |

A notification that gets lost finds `send_irq` in its pulse, and that pulse has been
latched and not been taken (`PulseLatched`): that is why none is missed.

`GpTimerProofs`, for one to seven counters, with and without the watchdog, and sleeps of
any length:

| Theorem | Statement |
|---|---|
| `TimerTypes` | `Spec => []TypeOK` |
| `RunningIsArmed` | `Spec => []Armed` |
| `AlarmsAreHeard` | `Spec => []NoAlarmLost` |
| `ChainsInTurn` | `Spec => StartedByPredecessor` |

The invariant (`Sound`) says of each counter what its functions keep: it runs only while
it is enabled, it has an alarm when it runs and sleeps, and while its underflow is
signalled any alarm comes later than the end of that clock, which rests on every sleep
being three clocks or more.

`MmuProofs`, for any page tables, any changes software makes to them and any size of the
buffers:

| Theorem | Statement |
|---|---|
| `MmuTypes` | `Spec => []TypeOK`: the buffers never hold more than their size |
| `CachesAreHonest` | `Spec => []Honest` |
| `FaultsAreDescribed` | `Spec => []FaultDescribed`: the status register is the sum of the faults since it was read |
| `StoresAreAllowed` | `Spec => StoresAllowed`, of whoever stores and through any address space |

The walk is unfolded level by level (`Third`, `Second`, ...) into what it ends in; that
both permission tables agree on stores is a lemma about the four access types of a store
and the eight permission fields.

Only model-checked: liveness (`AllServed`, `Served`, `Progress`, `Underflows`), for which
the proof system has no rules.  Every safety property that a passing run checks is a
theorem, under the assumptions above.

## 5. Where code and documentation disagree

One run shows what the code does against a test of the repository; `PROJECT.json` quotes
the lines on both sides under "findings": `SnoopLdstub` finds `Atomic` violated, because
LDSTUB does not lock the bus.

The models contain more such behaviour, because they follow the code.  The passing runs
stay clear of it by the values of their constants; as said here TLC finds these
properties violated.

| Property | With | What happens |
|---|---|---|
| `BroadcastReachesAll` | `IrqSafety` | the handler tests the broadcast bit of the next line (`irqmp.cpp:274`; `irqmp.md:98`) |
| `NoRequestLost` | `Spec` instead of the booted system | a request sent to a halted processor is dropped by its `resetOp` (`processor.cpp:241`) and not sent again (`irqmp.cpp:353`) |
| `LockedStays` | `SetLock = TRUE` with LRU | LRU evicts locked lines (`vectorcache.cpp:844`; `mmu_cache.md:141`) |
| `LruVictim` | `NWays = 3`, 4 tags | LRU takes only lines whose counter is 0 (`vectorcache.cpp:845`), and else way 0 |
| `LruVictim` | `CacheLru` with `Burst = FALSE` | where single words are filled, a line that lacks the word is taken for a free one, however recently it was used (`vectorcache.cpp:1082`) |
| `InSync` | 2 sets, 2 ways, LRR, `SetLock = TRUE` | LRR with a locked line fills a line of the next set (`vectorcache.cpp:862`) |
| `Atomic` | SWAP without a forced miss | a load that hits never reaches the bus to lock it (`vectorcache.cpp:255`) |
| `LockWanted` | `SnoopAtomic` with `Mmu = TRUE` | every store locks the bus (`tlb_adaptor.h:99`) |
| `Coherent` | `SnoopTso` with `BusId[c] = c + 1`, `HIndex[c] = c` | a cache takes the writes of its neighbour for its own if another master is bound first (`mmu_cache_base.cpp:1012`) |
| `Served` | `AhbLive` with `RoundRobin = FALSE` | the highest master starves the others; that is what priorities do |
| `InOrder` | `ApbUart`, already with the first character | `data_read` takes a character from where the next one goes, not the oldest (`apbuart.cpp:107`) |
| `WatchdogRuns` | `GpTimer` | a reset within the clock of the watchdog's underflow is undone by what follows the wait: EN becomes RS, and the watchdog stops (`gpcounter.cpp:166-173`; `gptimer.md:57`) |
| `NoRefusedStoreCached` | `Mmu` | the line of a store that hits is written before the translation refuses it (`tlb_adaptor.h:91`) |

Also visible in the modules or met while writing them:

- IRQMP: no code writes a number into the extended interrupt identification register
  (`irqmp.cpp:450`); the cascade is sent once more after the last extended line is
  cleared (`irqmp.cpp:328`); a write to the level register does not start `launch_irq`
  (`irqmp.cpp:102`).
- Caches: a diagnostic tag write always clears the LRR bit (`vectorcache.cpp:601`).
- AHBCtrl: a transfer to an address of no slave is only reported, its master waits for
  ever (`ahbctrl.cpp:978`).  Coherence holds because, where a fill and the end of another
  master's write fall into one clock edge, the fill comes first.
- AHBIn: a trigger that comes while a frame is sent is lost (`ahbin.cpp:115`).
- UART: enabling TF does not update the level; TI set after the buffer has got empty
  gives no interrupt; RI switched on with characters waiting does not announce them;
  index 32 of a ring of 32 is the first byte of the member behind it.
- GPTimer: a reset leaves alarms pending; a write to the scaler gives an alarm to a
  chained counter that waits for its turn; the pending bit starts uninitialised, and
  clearing it while an underflow is signalled leaves the line high.  Counter 0 in chain
  mode looks at a predecessor past the end of the vector (`gpcounter.cpp:220`), which the
  model's software does not ask for.
- MMU: the path of a hit in a look-aside buffer is commented out; both replacement
  policies remove the lowest page; PTE.C is not looked at; the fault status register
  only collects bits until it is read, and OW is set by the first fault, not by the one
  that overwrites (`mmu.cpp:577-579`); a fault of a load or store with ASI 0, 1, 8 or 9
  leaves FAV clear and traps as one of an instruction (`mmu.cpp:587-592, 622`); hits in a
  cache bypass permissions.
  `mmu_cache.md:112,120` calls the fault registers "not implemented yet"; they are.

## 6. What is left out, and the plan

The parts marked not modelled in `PROJECT.json` say why.  The largest part of the
repository by lines are generated instruction set simulators: one function per
instruction and addressing mode, each a deterministic step on registers.  Of them the
models take only what concurrency can reach, the memory accesses, traps and locks.
In this order there is left:

1. `Decoder`: `get_index` of APBCtrl and AHBCtrl with the one-entry cache, and the port
   decoder of MCtrl, as functions against reference definitions.
2. Instruction caches and more than one line in `AhbBus`; page sizes and context table
   writes in `Mmu`; overruns and the status register in `ApbUart`.
3. The ARM GIC as a variant of `Irqmp`.

Not planned: Voter and commit registers, which no platform instantiates and whose use of
the interrupt controller (a number where it expects a mask) leaves open what they are to
do; DMI, debug transport and error responses, which nothing modelled here asks for; and
the register windows, traps and arithmetic of the LEON3, sequential code.
