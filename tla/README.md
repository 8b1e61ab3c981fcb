# BaS_gcc in TLA+

BaS_gcc is the base system of the FireBee and of two ColdFire evaluation
boards: the firmware that initialises the machine, gives the operating system
its MMU, interrupt dispatch, DMA channels and driver memory, and contains the
drivers it needs before (and beneath) TOS or EmuTOS. This directory models the
parts of it that carry state and interact: TLA+ modules translated from the C
source, TLC configurations that check them on small instances, and TLAPS proofs
of the most important invariants for every instance.

Paths are relative to the repository root (`src/` in `PROJECT.json`).

## 1. The system

### Components, state, operations, interaction

| Component | State | Operations | Interacts with | Hard parts | Must hold |
|---|---|---|---|---|---|
| FEC driver (`net/fec.c`, `net/fecbd.c`) | receive and transmit descriptor rings, `iRxbd`, `iTxbd_new`, `iTxbd_old` | `fec_send`, `fec_rx_frame`, `fec_tx_frame`, continue/start/stop | DMA tasks (shared rings), DMA interrupt, buffer pool, protocols | four actors on one ring, none of the indices protected | no buffer shared, lost, freed early; rings and queues in step; senders return |
| Buffer pool (`net/nbuf.c`, `net/queue.c`) | free, receive and transmit queues | `nbuf_alloc/free/add/remove` at IPL 7 | FEC driver, every protocol | `queue.c` itself has no lock | as above |
| ARP (`net/arp.c`) | table of 10 entries per interface | merge, remove, find, resolve, request, handler | handler in interrupt, resolve in foreground | table changed while the foreground waits for it | one entry per address, replies answer requests |
| IP, UDP, NIF (`net/ip.c`, `udp.c`, `nif.c`) | protocol list, port table | bind, free, dispatch | ARP, FEC, TFTP, BOOTP | stale handlers of freed ports | a frame goes to the handler bound to it |
| TFTP, BOOTP (`net/tftp.c`, `bootp.c`) | the connection `tcxn`, its block queue | read, write, `in_char`, handler | handler in interrupt, the rest in foreground; lossy network | loss, duplication, retries, 16-bit block numbers | the file arrives once, in order, complete |
| Network timer (`net/net_timer.c`) | one reference count per timer | start, tick, query | TFTP, ARP time-outs | timer interrupt against foreground | time-outs end |
| Interrupt table (`sys/interrupts.c`) | 20 entries (vector, handler), interrupt masks | register, remove, execute | every driver | slots freed in the middle of the table | one handler per vector |
| DMA channels (`dma/dma.c`) | initiator multiplexer, channel table | set/get/free initiator and channel, interrupt handler, `dma_memcpy` | FEC driver, MCD, TOS drivers through `driver_vec.c` | alternatives per initiator | allocation is exclusive and reversible |
| Multichannel DMA API (`dma/MCD_dmaApi.c`) | status per channel | start, query, continue, pause, resume, kill | task engine (hardware) | engine stops concurrently | reported status matches the engine |
| Driver memory (`sys/driver_mem.c`) | free and allocated lists, 256 descriptors | alloc, free | network pool, USB, TOS drivers | first fit, coalescing, descriptor pool | blocks disjoint, nothing lost |
| MMU (`sys/mmu.c`) | page descriptors, two TLBs | initial mappings, TLB misses, lock and unlock pages | exception handler, drivers through `driver_vec.c` | misses between the steps of a lock or unlock; the hardware replaces any entry that is not locked | the pages the miss handler needs stay mapped; locked pages stay; locked entries leave room |
| Exceptions (`sys/exceptions.S`, `fault_vectors.c`), start-up (`BaS.c`, `sysinit.c`, `init_fpga.c`, `ide.c`) | registers | initialisation sequences | hardware | none that is concurrent | - |
| SD card and its XHDI driver (`spi/`, `xhdi/`) | card status, drive table | command sequences, block read and write | FatFs, TOS | time-outs of the card | - |
| Flash tools (`flash/`, `exe/`) | flash sectors, S-record parser state | erase, program, parse | file system | partial programming | - |
| PCI (`pci/pci.c`) | resource descriptors, addresses given out, table of interrupt handlers | scan and configuration, hook and unhook, interrupt chain | USB and video drivers, interrupt table | a table changed while an interrupt walks it; alignment | ranges disjoint and set before a card responds; handlers get their own parameter |
| USB (`pci/ohci-hcd.c`, `ehci-hcd.c`, `usb/`) | endpoint and transfer descriptors shared with the controller, done list | submit, poll, requeue, enumeration | PCI, driver memory, controller (hardware) | the controller works on a queue while the driver fills it, and fails in the middle | no descriptor free or done while the controller has it; transfers end |
| Keyboard, video, Radeon, I2C, utilities | devices | initialisation, drawing, formatting | hardware | - | - |

Vendored code is not part of the project: `fs/` (FatFs), `x86emu/`, `radeon/`
and the MCD microcode (`dma/MCD_tasks.c`).

### How the network path runs

The DMA task of the receiver stores a frame in the next descriptor that is
empty (`RX_BD_E`) and raises the DMA interrupt. `dma_interrupt_handler` runs
with IPL 7 from beginning to end, so it excludes every other software step; it
calls `fec_rx_frame`, which passes each frame up to ARP or IP *inside the
interrupt*, and `fec_tx_frame`, which frees what has been sent. Foreground code
(`arp_request`, `tftp_read`, ...) calls `fec_send` with interrupts enabled, and
only the `nbuf_*` calls inside it are protected. `arp_handler` calls `fec_send`
from the interrupt.

## 2. Plan

| Step | Modules | Content | Abstract specification | Status |
|---|---|---|---|---|
| 1 | `Nbuf`, `FecDriver`, `TxFifo`, `FecProofs` | the data path above | `TxFifo` | checked, safety and refinement proved |
| 2 | `Arp`, `ArpProofs` | table, requests, handler | - | checked, safety proved |
| 3 | `TftpRead`, `TftpWrite`, `TftpReadProofs`, `TftpWriteProofs` | transfers over a lossy, duplicating, reordering network | - | checked, safety proved |
| 4 | `DriverMem`, `Heap`, `MemoryProofs` | allocator | `Heap` | checked, safety and refinement proved |
| 5 | `Dma`, `DmaProofs` | initiators, channels and interrupts; channel status against the task engine | - | checked, safety proved |
| 6 | `Mmu`, `MemoryProofs` | TLB misses, locking and unlocking of pages | - | checked, safety proved |
| 7 | `Ohci`, `OhciProofs` | queues and done list of the USB host controller, failures | - | checked, safety proved |
| 8 | `Pci`, `PciProofs` | configuration of cards, interrupt chain | - | checked, safety proved |
| 9 | SD card, XHDI, flash, EHCI | where control is worth checking | - | open |

Each component gets one module with one action per operation, parameters as
constants with named assumptions, and no `RECURSIVE` operator in a module with
proofs. There is one run for each question asked of the system. Statements of a
comment or a name that turned out not to hold, and whose counterexample is
explained in its section below, stay in the modules as definitions, so that
anyone can check them again by naming them as an INVARIANT.

## 3. FEC driver: `Nbuf`, `FecDriver`, `TxFifo`, `FecProofs`

### State

| Variable | Code |
|---|---|
| `queue` | `nbuf_queue[]`, each queue as the sequence of its buffers |
| `rxbd`, `txbd` | the rings `RxBD(ch, i)`, `TxBD(ch, i)`: the bits E and R, whether the frame status shows an error, the buffer `data` points to |
| `iRxbd`, `iTxbd_new`, `iTxbd_old` | the indices of `fecbd.c` |
| `rxDma`, `txDma` | the two DMA tasks (hardware): next descriptor, running or halted |
| `pending` | DMA interrupt pending bits of the two channels |
| `isr` | where `dma_interrupt_handler` is; `todo` are the channels it read from DIPR, `nbuf` the frame passed up |
| `main` | where foreground `fec_send` is, its buffer and its descriptor |
| `held`, `lost` | buffers a protocol keeps for the foreground; buffers no code frees |

### Actions and granularity

The interrupt handler runs at IPL 7, so one turn of a loop of `fec_rx_frame` or
`fec_tx_frame` is one action (`RxKeep`, `RxDrop`, `TxFrame`), interleaved only
with the DMA tasks. Foreground `fec_send` is one action for each step between
which an interrupt makes a difference: the test in `fecbd_tx_alloc`, the
increment of the index (which the compiler may compute from either reading of
it), `nbuf_add`, the store to `data`, the store to `status`, and
`fec_tx_continue`. What happens to a frame passed up is a choice: freed, kept
for the foreground, never freed (`ip_handler` for ICMP and `bootp_handler` do
that; constant `Leaks`), or answered by `fec_send` (`arp_handler`).

Left out: frame contents and lengths, event logs, `fec_send`'s refusal of
oversized frames, start and stop (the initial state is the one `fec_eth_setup`
leaves), and the second channel, which no board brings up.

### Runs

| Run | Bounds | Shows |
|---|---|---|
| `fec_isr` | 4 buffers, 2 RxBDs, 3 TxBDs, interrupt handler is the only sender | rings and queues stay in step (`RxRingInOrder`, `RxFramesInOrder`, `TxRingInOrder`), the handler never spins at IPL 7 (`IsrNeverWaits`), and the transmit path implements `TxFifo` |
| `fec_live` | 3 buffers, 1 RxBD, 3 TxBDs, foreground sends, every buffer may leak | no buffer is shared, lost or freed as null (`EachBufferHasOneOwner`, `TxQueueCoversBDs`); descriptors are served (`RxServed`); buffers are reclaimed and `fec_send` returns (`TxServed`) |

Two statements do not hold:

- `ReadyBDsQueued` (a descriptor handed to the transmitter carries a buffer
  that is still queued; constants of `FecMain.cfg` with `Leaks = FALSE`). When
  `fec_tx_frame` runs in an interrupt between the store to `data` (`fec.c:1098`)
  and the store that makes the descriptor ready, it takes the descriptor for one
  that has been sent, frees its buffer and clears `data`: the descriptor then
  goes out empty, and the frame is lost.
- `AllocatedBDAvailable` (the descriptor `fecbd_tx_alloc` returned is free until
  it is armed; the same with `Senders = {"main", "isr"}`). The test and the
  increment in `fecbd_tx_alloc` (`fecbd.c:204`) are not one step, so an ARP reply
  sent from the interrupt takes the same descriptor.

`FecProofs` covers the instance with both senders: buffers have one owner
through these races, too.

The bounds keep the proportions of the code (30 buffers, rings of 20): the
buffers left over after `fecbd_init` cannot fill the transmit ring, the pool
can run dry, and both rings wrap. The rings have no other counter, so no state
constraint is needed.

### Fairness

`DmaTransmit` and the interrupt handler are weakly fair: hardware sends what is
ready, and an interrupt that is pending is taken and its handler goes on. The
steps of a foreground `fec_send` are strongly fair: interrupts preempt it again
and again but each one ends. Nothing is assumed of the network (no fairness for
`DmaReceive`) nor of the protocols, except `ReceiveReturns`, a premise stated in the
properties themselves: `fec_rx_frame` returns only at an empty descriptor, so
frames arriving as fast as they are handled keep it at IPL 7 for ever.

### Proofs

`FecProofs` proves, for all sizes of pool and rings with `NRXBD <= NBUF_MAX`
and for either set of senders, `Spec => []IInv` with

    IInv == TypeOK /\ EachBufferHasOneOwner /\ RxRingInOrder /\ TxQueueCoversBDs

`TypeOK` alone is not inductive: `RxKeep` passes up the head of the receive
queue, so its type needs the queue to be as long as the ring (`RxRingInOrder`),
and `TxFrame` frees the head of the transmit queue, so it needs that queue not
to be empty when a descriptor carries a buffer (`TxQueueCoversBDs`, a statement
about cardinalities because racing senders can overwrite each other's
descriptors). Ownership in turn needs the types. One lemma per queue operation
gives the new owners after `nbuf_add` and `nbuf_remove`; the step proof has one
lemma per group of actions. The theorems `TypeCorrect`, `BuffersNeverSharedOrLost`,
`ReceiveRingInOrder` and `TransmitQueueNeverUnderflows` follow.

`RxFramesInOrder` (theorem `FramesInOrder`) is inductive with `IInv`: the step that
needs thought is the DMA's when it comes round to `iRxbd`.

The transmit side is different when the foreground sends as well: the two
statements above that do not hold are about that. Its theorems therefore have the
premise

    OnlyHandlerSends == "main" \notin Senders /\ NBUF_MAX <= NRXBD + NTXBD

that is, frames are sent from the interrupt handler, and the buffers left for
them do not overfill the transmit ring (`nbuf.h` and `fecbd.h` have 30 buffers and two
rings of 20). The invariant is `TxInv`: the frames in the transmit queue are in
the descriptors from `iTxbd_old` on, `iTxbd_new` is behind the last of them, and the
first `s` of them have been sent (`SentUpTo`), for some `s`. That a descriptor is free
when the handler wants one (`HandlerSendsAtOnce`) is a pigeon-hole argument
(`RoomToSend`): the receive queue is full with `NRXBD` buffers, the handler has one
in hand, so fewer than `NTXBD` can be queued. `TransmitRingInOrder` follows, and
`ImplementsFifo`: every step of the driver is a step of `TxFifo` or changes nothing it
sees, with the queue as its FIFO and the sent ones counted by `s`.

Only model-checked: all liveness, which the prover cannot express.

## 4. ARP: `Arp`, `ArpProofs`

`table` is `ARP_INFO` of one interface; `main` is where the foreground `ip_send`
and the `arp_resolve` it calls are; `isr` and `peer` are a protocol handler that
answers from the receive interrupt (`tftp_handler` acknowledging a repeated
block); `seen` and `sent` are history: the hosts heard of, and the last frame.
The handler may answer from the moment its protocol sends: `tftp_read` sets the
server and binds the port (`tftp.c:484-502`) before the first request resolves the
server's address, and it acknowledges any block with a number below the one it
expects, 1 at first.

The point of the model is the pointer `arp_resolve` returns: `ip_send` copies
the hardware address out of the table only later, with interrupts enabled, and
`arp_handler` may have changed the entry by then. So look-up, request, wait and
send are separate actions, and `arp_handler` (with `arp_merge`, which displaces
entries of a full table) is one, at IPL 7. A host owns both a protocol and a
hardware address and does not change either; frame contents, look-up by hardware
address and `arp_remove` (neither has a caller), and the broadcast route, which
asks no table, are left out.

| Run | Bounds | Shows |
|---|---|---|
| `arp` | 3 hosts, 2 entries, 3 requests | one entry per address (`OneEntryPerAddress`); while all hosts heard of fit into the table, frames go to their owner and a handler that answers a host heard of never waits (`SentToOwnerWithRoom`, `HandlerNeverWaits`); `ip_send` returns (`SendReturns`) |

`SentToOwner`, the same without the premise that there is room, does not hold:
`arp_resolve` returns a pointer into the table (`arp.c:297`), and with a full
table `arp_handler` gives the entry to another host before `nif->send` copies
the address from it. The frame goes to that host.

`HandlerNeverWaits` promises nothing for a peer never heard of, room or not: a
datagram numbered 0 that reaches the bound port before the server has answered
makes `tftp_ack` call `arp_resolve` in the interrupt (`tftp.c:208`), where the wait
for the timer and for the reply has no end.

One host more than there are entries is enough to displace; 10 entries
behave as 2 do because `arp_merge` looks only for the first entry of a kind.
The runs do not check deadlock: a handler waiting at IPL 7 stops the machine,
which happens in the case above and once the table is full. Fairness is that of
the foreground alone (its timer expires); hosts need not answer.

`ArpProofs` proves all the safety properties for any number of hosts and
entries. `OneEntryPerAddress` is inductive with the types. The two others need
`Room`: as long as the hosts seen do not outnumber the entries, every entry in
use belongs to a host seen and no host has two, so by a pigeon-hole argument
(an injection from entries to hosts seen) an address that is new finds an empty
entry, nothing is displaced, and an entry once found keeps its owner.

An observation no run reports: an entry made from a packet meant for another
machine stays temporary even after its host has addressed this one, as
`arp_merge` returns at once for an entry that exists; the comment at
`arp.c:371-373` describes another policy. Which entry is displaced is modelled
as coded.

## 5. TFTP: `TftpRead`, `TftpWrite`

One module per direction. In both the handler runs in the receive interrupt and
is atomic, the foreground (the request loop, `tftp_in_char` or the block loop of
`tftp_write`, `tftp_end`) has a step for each wait and for each access to what
the handler changes: `tcxn`, and for reading the block queue, whose
`queue_remove` is two steps because it has no lock. The functions have no caller
inside the repository; `include/tftp.h` offers them, and the model's caller
reads until -1 and then calls `tftp_end(true)`.

The network and the server are external. A packet sent may be lost, repeated and
reordered as long as its receiver is at most `Lifetime` blocks further; without
such a limit 16-bit block numbers could not work, and the assumption on
`BLOCKNUMS` is that they outlast it. For reading they must also be more than twice the buffers:
when blocks of a full queue have vanished, the ACK that is sent again may be of a block
that far back (65536 numbers against 30 buffers). A request may start several sessions.
`Stale` (`StaleReads`) are sessions of an earlier transfer: the local port is the
same each time (`tftp.c:499-500`), so their packets reach this transfer's
handler.

| Run | Bounds | Shows |
|---|---|---|
| `tftp_read` | 9 blocks, numbers wrap at 6, lifetime 2, 2 buffers, 2 sessions and a stale one | blocks arrive in order, once, from one session (`InOrder`, `OneSession`); a completed transfer is complete unless the queue lost a block (`CompletedUnlessLost`); nothing is acknowledged that was not received (`ServerNotAhead`); the caller comes to an end (`Terminates`) |
| `tftp_write` | 7 blocks, numbers wrap at 6, lifetime 4, 2 sessions and a stale one | a block counted as acknowledged is stored, in order, at the server addressed, and no session runs ahead (`AckedIsStored`, with `LockStep`); true means stored unless the retries were used up (`StoredUnlessRetriesUsed`); it returns (`Terminates`) |

Two statements do not hold, already with one session and three or two blocks:

- `ReadComplete` (a transfer reported as completed delivered the file). The
  foreground takes the last block out of the queue (`tftp.c:560`) while the
  handler puts the next one behind it: `queue_remove` stores the successor it
  read before, NULL, and the new block, acknowledged already, is gone. When the
  last block is lost so, the transfer is reported complete without it.
- `TrueMeansStored` (`tftp_write` answers true when the file is stored). The loop
  that sends a block (`tftp.c:383`) ends when its retries are used up just as when
  the block was acknowledged.

Nine and seven blocks with six numbers put the wrap inside a transfer, which 65536 numbers
would not do within reach; two buffers let a queue both be emptied to its last
block and hold a block behind it. Deadlock is not checked as a transfer ends.
Fairness is that of the foreground: it goes on and its timers expire.

### Proofs

`TftpReadProofs` proves `InOrder`, `OneSession`, `ServerNotAhead` and
`CompletedUnlessLost`, and `TftpWriteProofs` proves `AckedIsStored` and
`StoredUnlessRetriesUsed`, for files, lifetimes, numbers of sessions and of block
numbers of any size within the assumptions. Each begins with the facts about remainders
it rests on: of numbers less than `BLOCKNUMS` apart no two look alike (`Apart`), and the
successor may be taken of the remainder (`SuccOfRemainder`).

The reader's invariant `ReadInv` relates the 16-bit `exp_blocknum` to the number of blocks
accepted, which only the model knows; says that what was delivered and what is
queued comes from one session in the order of its file (`Blocks`), that the queue ends
with the newest block, and that nothing is missing unless the queue lost it
(`Gapless`); and bounds how far back a block that is acknowledged can lie (`Acked`,
`AcksReceived`). The last is why `ServerNotAhead`
is not inductive alone: that an ACK is not taken for one of the next round of
numbers depends on what was acknowledged earlier and may be sent again.

The writer's invariant `WriteInv` follows the connection: unconnected, to a session of
ours (`Chosen`, `Stored`: its file is what was acknowledged, and at most one block
more), or taken over by a stale reader (`Hijacked`), where nothing is promised.

Only model-checked: `Terminates` of both.

### Limits and observations

- Where a transfer took its first block from a stale session, `CompletedUnlessLost`
  says nothing, and where stale DATA took over a connection that writes, the
  properties of `TftpWrite` say nothing (`Ours`): the handler does not look at the
  direction of the transfer.
- After the ACK of block 65535 `exp_blocknum - 1` is -1 as an `int`, so
  `tftp_write` cannot see that answer, uses up its retries and returns true. The
  model has this (`Responded`); `StoredUnlessRetriesUsed` shows it is of the kind
  already reported for retries.
- The length of a block matters only in that a short one is the last. A file
  that is a multiple of 512 bytes ends with an empty block.

## 6. Driver memory: `DriverMem`, `Heap`, `MemoryProofs`

Both lists of the partition are sequences of descriptors: `mfl` (free, sorted by
address) and `mal` (allocated, most recent first); `tab_md` is the descriptor
table with `m_own`, `rover` the roving pointer. `driver_mem_alloc` and
`driver_mem_free` run at IPL 7 and are one step each. `ffit` takes the first
block after the rover, in circular order, that is large enough, whole
(`TakeWhole`) or split (`Split`), or fails without a descriptor
(`NoDescriptor`); `freeit` inserts the block and joins it with the next and the
previous one. The use count is not modelled (nothing lets it fall to 0), nor
amounts of 2 GByte and more.

`Heap` is what users rely on: blocks are disjoint, and a request fails only if no
gap is large enough or blocks and gaps are as many as there are descriptors. It
knows nothing of lists, descriptors, rover or order. `DriverMem` implements it
(`IsHeap`) with the blocks of `mal` as `blocks`.

Run `driver_mem`: a buffer of six units of 16 bytes, four descriptors, requests
of 1, 17 and 48 bytes (one, two and three units). Six units can be cut into
more pieces than there are descriptors, and every way a block can touch its
neighbours occurs. It checks the representation invariant `ListsConsistent` and
the refinement `IsHeap`. The invariant has named parts: the two lists partition
the buffer (`Partition`), free blocks are sorted and joined (`SortedAndJoined`),
descriptors neither leak nor are used twice (`DescriptorsAccounted`, of interest
because `xmfreblk` refuses descriptor 0), and the rover is where the search can
meet it (`RoverOnFreeList`).

A query (`driver_mem_alloc(-1)`) answers 16 bytes less than the longest free
block, as `(max - 15) & ~15` is applied to a multiple of 16; `Heap` only asks for
an answer that can be had. The query runs without raising the IPL although
`ohci-hcd.c` frees blocks in interrupts; the model takes it as one step.

### Proofs

The first part of `MemoryProofs` proves `ListsConsistent` (`Consistent`) and the refinement `IsHeap`
(`ImplementsHeap`) for a buffer of any size, any number of descriptors and any amounts.
`ListsConsistent` is not inductive in a form the provers can use: that every byte is
covered once says nothing of a descriptor that covers no byte, and joining needs to
know which blocks may touch. The inductive invariant is `HeapInv`:

- `Blocks`: of the descriptors in use none is empty, no two overlap, and together they
  cover the buffer. The block at its beginning has descriptor 0, which is why
  `xmfreblk` never sees descriptor 0: only the upper one of two blocks is given back.
- `FreeList` and `TouchOnly`: the free list is in the order of addresses, and only
  neighbours at the given places touch. `freeit` inserts (`FreeInserted`: at most the
  pairs `k - 1` and `k` touch then) and joins twice (`Joined`), each time with one place
  less in the set; at the end it is empty.
- The two lists have the descriptors in use between them, each once, and the rover is
  on the free list.

The operations on the table (`SplitBlocks`, `JoinBlocks`) and on the lists (`FreeTaken`,
`FreeSplit`, `FreeInserted`, `FreeJoined`) are lemmas without the variables. For the
refinement, the gaps between allocated blocks are the blocks of the free list
(`FreeIsGap`, `GapIsFree`): where a block starts another one ends, and as free blocks
do not touch that is an allocated one. So a search that finds nothing (`Fits`) means
that no gap is long enough, and a table that is used up that gaps and blocks are as
many as descriptors (`AllDescriptorsUsed`).

## 7. DMA controller: `Dma`, `DmaProofs`

### State

| Variable | Code |
|---|---|
| `tab` | `used_reqs[]`, the multiplexer IMCR and `dma_channel[]` of `dma.c` |
| `mcd` | per channel the enable bit and the initiator in its task control register, `MCD_chStatus[]`; the channel the debug unit freezes |
| `pending` | DIPR |
| `raised` | history: whose DMA raised each pending interrupt |
| `fec`, `drv` | whether the FEC is up; whether each other driver is closed, open or has paused |
| `main` | between the test and the freeze of `MCD_pauseDma` |

The functions of `dma.c` and `MCD_dmaApi.c` are operators that map a table, or the
engine's state, to the next one; the actions are those who call them:
`fec_eth_setup` and `fec_eth_stop`, and drivers of the operating system, which
reach the same functions through `if/driver_vec.c` (`Open`, `Poll`, `Close`,
`PauseTest`, `PauseFreeze`, `Resume`). `Fixed` is the first half of `used_reqs`, the
requestors whose initiator is always active and takes no slot; `Slots` lists the slots
each other case of `dma_set_initiator` tries, in its order. The tasks of the FEC are
continued by the receiver's handler, which continues the transmitter's too when it
answers a frame, and by `fec_send` in the foreground, FEC up or not. The engine (`TaskInterrupt`) may signal
and stop between any two of these, and `dma_interrupt_handler` dispatches what is
pending. `fec_eth_stop` runs at IPL 7, which is why it is one step and tasks that
signal during it stay pending.

Premises: handlers of other drivers than the FEC's do not call this interface;
a call starts with no interrupt pending (the interrupt is taken first); drivers
look at what a call answers; only one channel is paused at a time, as the
comment at `MCD_pauseDma` demands.

### Runs

| Run | Bounds | Shows |
|---|---|---|
| `dma` | 3 channels, FEC 0, three drivers whose initiators share slots 21, 29 and one whose initiator is fixed | a running task has its channel, handler and initiator, and a stopped FEC has none running (`RunningTaskOwned`); an interrupt reaches the one whose DMA raised it or nobody, although channels are freed and given away while it is pending (`PendingForOwner`); nothing leaks (`ReleasedAll`); a status that says a task is finished is true (`StatusMatchesEngine`) |
| `dma_kill` | the same | violation (finding): a channel that is killed while paused stays frozen, `FrozenIsPaused` |

Six requestors for three channels make `dma_set_channel` fail, and `DREQ1`,
`PSC2_TX` and `CTM5` compete for slot 29, for which only the first has an
alternative.

### Proofs

`DmaProofs` proves all safety properties of the run for any number of channels and
any set of drivers. The first inductive invariant,

    DmaInv == TypeOK /\ Paired(tab)
              /\ \A c \in pending : tab.handler[c] \in {raised[c], FREE}

where `Paired` says that a channel's handler is that of its requestor, gives
`TypeCorrect` and `InterruptsForOwner`. Types need
the searches to return what they index with (`LeastIn`: the minimum of a
non-empty set of naturals is in it), so `ChannelFound` and `InitiatorFound` come
first, then one lemma for each function of the tables and of the engine, and
the steps of the engine, of the FEC driver and of other drivers. That a pending
interrupt meets its own handler or none rests on the order of calls: a channel
is only given away when nothing is pending, which `Foreground` states.

The second, `OwnInv`, adds what ownership needs: the tables agree with each other
(`TablesGood`), a driver holds one slot and at most one channel while it is open and
nothing else (`Owners`), and the engine agrees with the tables on each channel
(`ChannelGood`: a status that says nothing runs is right; a free channel is halted; an
owned one waits for the initiator of its owner, fixed or of the multiplexer). `StatusTruthful`, `NothingLeaks` and
`TasksOwned` follow. The last has a premise, `TxHasSlot`: no driver asks for all the
slots the FEC's transmitter can use. `fec_tx_start` does not look at what
`dma_set_initiator` answers, so without a slot its task would wait for initiator 0.
FEC0, the one the boards use, has slot 17 to itself.

### Observations

- `DMA_PSC1_TX` is missing from the initiators that are always active, and a
  requestor that sets its initiator twice takes two slots where there is an
  alternative (`FEC1_TX`, `DREQ1`). In the model a driver opens once.
- `fec_rx_start` and `fec_tx_start` ignore a failure of `dma_set_initiator` and
  `dma_set_channel`. In the model this happens (`fec_eth_setup` with all channels
  taken) and does no harm but that the FEC stays deaf: `MCD_startDma` refuses the
  channel number -1.
- A task that finishes between the test of its enable bit and the freeze in
  `MCD_pauseDma` leaves the status PAUSED and the debug unit armed.
- `dma_memcpy` uses channel 1 without allocating it; it and `fec_eth_stop`'s way down
  have no caller in the repository, the latter is offered by the interface.

## 8. MMU: `Mmu`, `MemoryProofs`

`locked` are the pages whose descriptor has `locked` set; `dtlb` and `itlb` are sets of
entries, each with a number, because the hardware can hold two equal entries for one
page (they are numbered from 1, so this is no more than counting them). `main` is where `mmu_map_data_page_locked` or `mmu_unlock_data_page` is, with the entry the
registers MMUTR and MMUDR hold for it; `request` and `released` are history. The
hardware replaces any entry that is not locked.

`mmu_init` is the initial state: TOS, the I/O area and the last two megabytes are
locked in both TLBs. `mmutr_miss` is a miss for data, for an instruction, or for
an extension word of an instruction. Locking is two steps (mark the descriptor,
map the page) and so is unlocking (search the TLB, write the entry back),
because interrupts, and so misses, come between them; a miss there overwrites
the registers. Nothing is fetched from the I/O area and the driver buffers, which
are mapped with `execute = 0` (`executable`).

Run `mmu` (two pages for drivers to lock, nine and six entries, of which four are
the system's): the pages the miss handler runs in, and its data, are never
replaced and keep their attributes, although their page descriptors say
otherwise (`SystemPages`, that is `SystemPagesMapped` and `SystemAttributes`); a page
that is locked and not unlocked stays in the TLB (`LockHolds`); and locked
entries, with the duplicates that misses cause, leave room for others as long as
there are not more than two per locked page (`LockedEntriesBounded`, the FIXME at
`mmu.c:892`). The TLBs have 32 entries on the chip: nine are as few as
`MmuAssumption` allows, so that replacement happens all the time.

The second part of `MemoryProofs` proves the three for any pages, any set of lockable ones and TLBs of any size that
`MmuAssumption` allows. (The module extends `DriverMem` and `Mmu`, both concerned with memory, hence
the prefix in `MmuInit`, `MmuNext`, `MmuSpec` and `MmuTypeOK`.) The inductive invariant `MmuInv` has the system's entries in
both TLBs (`Good`), says where a locked entry can come from (`LockedOnes`: `mmu_init`,
or a page marked locked), what the call under way may write (`Calls`), and has a
`Budget`:

    Cardinality(LockedEntries(tlb)) + Cardinality(Missing(tlb, lk)) + k <= 4 + 2 * Cardinality(lk)

`LockedEntriesBounded` alone is not inductive, since after the page is marked both a miss
and the lock call itself add an entry: `Missing` counts the marked pages without one,
`k` the call under way. The budget also gives `LockHolds` its last step: the DTLB never
consists of locked entries only, so that the call always finds a place (`FewLocked`).
That no instruction is fetched from the driver buffers matters to `SystemPages`: a miss for
the extension word of one would make an entry from the page descriptor, which says
"copyback", beside the uncached one.

What does not hold:

- `RangeLocked`: "lock data page(s) ... from address virt to virt + size"
  (`mmu.c:879`). The loop (`mmu.c:902-917`) advances `virt` and neither `page_index` nor
  `page`, so only the first page is marked and mapped; the loop goes on, saying
  "already locked", until the 32-bit address wraps. `mmu_unlock_data_page` advances
  the page and not the address, and unlocks the first page again and again.
- A page that was unlocked and is locked again: `pages[].locked` is never cleared, so
  the second call finds it "already locked" and does nothing. `LockHolds` therefore
  excludes pages that were unlocked.
- A miss for an extension word that lies in the next page maps the page of the
  program counter (`mmu.c:774-787`), which is mapped already: the miss repeats, and
  adds an entry each time (`ExtensionMiss`).
- A miss between the two steps of an unlock call leaves the page locked: the
  entry of the miss is written back instead.

Premise: drivers lock pages of RAM. For others the code writes beyond `pages[]`
("TODO: check for pages[] array bounds"). The PCI branch of `mmu_map_data_page` is
left out: ACR0 covers that area, so there are no misses in it; its upper bound
is one byte too far (`<=`).

## 9. USB transfers: `Ohci`, `OhciProofs`

### State and actions

`mem` is what the driver and the controller share: transfer descriptors (TDs),
endpoint descriptors (EDs) with head, tail and halt bit, and the transfer (URB)
of each; `hc` is the controller: the done queue it collects, `HccaDoneHead`, and
the WDH status; `main` is where `submit_common_msg` is. `HcRetire` takes the TD at
the head of a queue off it and halts the queue if it failed; `HcWriteBack` hands
the done queue over once the last one has been acknowledged. The driver goes along
the done list twice: `main.td_list_hc` is what it has still to reverse, as the controller
linked it, and `main.td_rev` what is reversed, the oldest TD first. The controller
interleaves with every step of the driver:

| Action | Code |
|---|---|
| `sohci_submit_job` | `submit_common_msg` to the point where the ED is linked: allocate the dummy and the TDs, give all back if there are too few |
| `SubmitTooLarge`, `SubmitRefused` | refusals: more TDs than a URB holds (its ED stays), a disabled controller |
| `td_submit_job` | one `td_fill`: the TD changes places with the dummy, and the new tail makes it visible |
| `PollTake` | `hc_interrupt`: takes the done list |
| `dl_reverse_done_list` | `check_status` of one TD, newest first: after a failure the queue moves on behind the transfer and its other TDs are counted |
| `dl_done_list` | `takeback_td` of one TD, oldest first: finish the URB, requeue an interrupt pipe, unlink an idle ED |
| `irq_handle` | the device of an interrupt pipe submits a transfer of its own in `takeback_td` |
| `PollAck` | acknowledge WDH, and return if the URB is finished, the last TD says that its device is gone, or there was a schedule overrun |
| `PollUnrecoverable`, `PollTimeout` | the other ways out, for every type of pipe |

What the ways out have in common is `Returns`: a control or bulk URB is freed, finished or not
(`ohci-hcd.c:1870`). If it is not finished, its TDs are free while the controller still
has them; `givenUp` holds them.

The model ends (`Beyond`) in two states. One is `givenUp # {}`: the controller
goes on with TDs that the next transfer may take, and `takeback_td` follows
the pointer to a freed URB. What then happens depends on what memory is reused
for. The other is `main.pc = "nested"`: `submit_common_msg` and `hc_interrupt`
have been entered again out of `takeback_td`. Up to these states, and in
the first of them, every invariant is checked.

This is the bus scan, before interrupts are enabled
(`CONFIG_USB_INTERRUPT_POLLING`, `usb_defs.h:29`).

### Run

`ohci`: six TDs, one endpoint of each type (940 324 states). With three dummies,
three TDs are left, so that a control transfer of three takes all and others are
refused. Control transfers of two and three TDs show all that a transfer of several
does, failures at the first, middle and last included; bulk transfers have one TD
(`BULK_TDS`): more would double the states, and the steps treat the TDs of both alike.

A finished URB is out of the controller's hands (`FinishedMeansDone`), no TD is free
while the controller can reach it (`NoFreeTdInFlight`), each used TD has one owner
(`TdsAccounted`), a failure leaves the queues fit for the next transfer
(`QuietWhenIdle`), and a transfer that is served ends without its time-out
(`SubmitReturns`). `NoFreeTdInFlight` and `QuietWhenIdle` except the TDs, and the endpoint,
of a transfer that was given up, and nothing else: this is how far the damage of
a time-out, an overrun or a device gone reaches when `submit_common_msg` returns.

Fairness: weak for `HcRetire` of each endpoint and for `HcWriteBack`, as the
controller serves its lists while it runs, and weak for the steps of the
polling loop, which nothing blocks. Time-outs and errors need never happen.

### Proofs

`OhciProofs` proves the four safety invariants for every number of TDs, of endpoints of
each type and of TDs in a bulk transfer within `OhciAssumption`, and under no other
premise: `Spec => [](OhciInv /\ (Going \/ Safe))`, where `Safe` is the conjunction of the
three that are not part of `OhciInv`. They speak of what can
be *reached* along `hwNextTD`. What a walk along links meets lies in every set that
holds its start and with each TD the next (`ReachedWithin`), and the invariant `OhciInv`
names such a set for each queue and list, without recursion:

- `Shape`: the types; each TD in use is one dummy or of one URB (`Accounts`); an
  endpoint has a queue once it has been used, a URB that does not live holds nothing
  (`UrbOf`); one control or bulk transfer at a time, that of `main` (`Place`).
- `History`: there is a numbering `f` of the TDs the controller retires, with five marks
  in it: up to `lo` taken back, to `mid` still to be reversed, to `fetched` in
  `td_rev`, to `written` in `HccaDoneHead`, to `hi` in the done queue. Each of these
  lists links the TDs of its stretch, newest first (`Links`, `Pointers`). Of each URB `k`
  TDs were taken back, `s` retired, and the queue is at the `h`-th (`Queue`): `h` is
  `s + 1`, or behind the last after `check_status` has skipped the others, and `td_cnt` is
  `k` and those skipped. `Retired` says that the stretch above `lo` is exactly the
  TDs `k + 1` to `s` of the URBs (`Located`, `Covered`), in their order (`InTurn`), and `Failed` that a TD that failed has
  halted its queue until the driver has gone past it in `dl_reverse_done_list`,
  and that it is the last that was retired of its URB.
- `History` holds as long as the model goes on (`Going`). What is left of it where the
  model ends is `Safe` (`GiveUpStep`, `NestedStep`): giving up frees the TDs of one URB,
  and all others that can be reached were in use before. While the controller is
  disabled nothing is promised of its lists; it never comes back.

The invariant is that strong because the invariants that are checked depend on one
another across actors: whether `check_status` moves the head to the right place
depends on what the controller had retired before it halted, whether `takeback_td` counts
to the length of the URB on what `check_status` had skipped earlier, and whether the
TDs can be given back on both. Each action has its lemma (`RetireStep`, `FillStep`,
`SubmitStep`, `ReverseStep`, `TakebackStep`, ...), and each invariant a lemma that
derives it (`FreeInInv`, `FinishedInInv`, ...).

Only model-checked: `SubmitReturns`.

### Premises and observations

- There is one URB per interrupt endpoint.
- A time-out (`ohci-hcd.c:1853-1857`), a schedule overrun (2222-2227) and a failure that
  `dl_done_list` reports as -1 free the TDs of a control or bulk transfer while they are
  queued, and leave its ED linked. The overrun may be of any frame. The failure may be
  that of another pipe, as the result is that of the TD taken back last: an interrupt pipe
  whose device is gone ends whatever transfer is being waited for.
- The time-out sets `urb->finished` too, with TDs queued (1855), although the comment at
  1831-1833 takes the flag to mean that all TDs have been processed. The URB is freed
  (1871) before anything tests the flag, so that `FinishedMeansDone`, which is said of URBs
  that live, is not about it; what it leaves behind is `givenUp`.
- `sohci_return_job` calls `irq_handle` (716) in the middle of `takeback_td`. That of a
  keyboard sets its lights with a control transfer (`usb_kbd.c:951`, 604), which enters
  `submit_common_msg` and `hc_interrupt` again, takes a done list while the outer call is in
  the middle of one, and, when the outer transfer is a control transfer on the same ED,
  overwrites `ed->purb` (653): the TDs of the outer one then count for the
  inner. `SubmitReturns` is said of transfers during which this does not happen.
- No control transfer in the tree has more than 4096 bytes of data (`usb.c` and its class
  drivers ask for 512 at most), so that `Sizes` has two or three TDs for them; of a
  longer one `td_submit_job` would fill three only (the comment at 1139 says so).
- Once interrupts are enabled, the handler and the polling loop take the same
  done list: the acknowledgement of one may clear the write-back for the other,
  and `ep_unlink` may come while a queue is filled. That mode is not modelled.
- The array of TDs is static and shared by all controllers; `NUM_EDS` is 8
  while the index of an ED goes up to 31, and endpoints of equal number and
  direction share an ED; some early returns (`ohci-hcd.c:1759-1786`) leak the URB;
  `ep_add_ed` does not test for a missing dummy. `OhciAssumption` keeps the model
  clear of the last.

## 10. PCI: `Pci`, `PciProofs`

### State and actions

`bus` are the cards: what each asks for (`wants`), its base address registers (BARs)
and its command register; `scan` is where `pci_scan` is; `descriptors` are
`resource_descriptors[]`; `address` is `mem_address` and `io_address`; `interrupts` is the
handler table and `hooking` where `pci_hook_interrupt` or `pci_unhook_interrupt` is.

`pci_scan` is `pci_bridge_config` for the first function and then, for each card,
`DisableCard`, `ConfigureRegister` for each BAR and the ROM, and `EnableCard`. Hooking
writes handle, handler and parameter one by one with interrupts enabled
(`pci_hook_interrupt`, `HookHandler`, `HookParameter`), and unhooking clears them by
`memset`, which is a loop over bytes (`bas_string.c:59`; the firmware is built
`-ffreestanding`): of the fields only the handler can be seen cleared in part by an
interrupt (`CutHandler`, the value `CUT` for any of its intermediate values).
What `pci_call_interrupt_chain` would call is a state function, so that the
properties speak of an interrupt at any moment.

### Runs

| Run | Bounds | Shows |
|---|---|---|
| `pci` | the bridge and two cards with two BARs and a ROM each, sizes 1 and 2, all combinations; two handler slots | a card does not respond before all its ranges are set and aligned (`RespondsConfigured`); the chain up to its end mark tells exactly the ranges (`ChainTellsRanges`); ranges do not overlap when requests come in falling sizes (`SortedNoOverlap`); handlers are called with their own parameter or none, and an address cleared in part is only that of the card being unhooked (`NoForeignParameter`); exactly the handlers of hooked cards are called (`CalledWhileHooked`) |
| `pci_overlap` | one card and the bridge | violation (finding): `NoOverlap` for any order of sizes |

Two sizes are enough for alignment to leave a gap; three handles for two slots
make the table overflow. The counterexample on a real bus is, for instance, a
card that asks for 64 KByte, 128 MByte and a ROM of 128 KByte.

### Proofs

`PciProofs` proves the properties of the run for any number of cards, registers, slots
and any sizes that are powers of two, as those of BARs are (`PciAssumption`; with other
sizes ranges may overlap in any order).

For the interrupt chain the invariant `HookInv` says that every slot is either empty or
holds one card's handle, handler and parameter, but for the slot being written,
which is `Halfway`: its handle leads (or its handle is cleared first), and its
other fields are still null or still that card's, or the handler is cut. No card has two slots.

For the scan, `ScanInv` says of every card that the registers passed, and no others,
are set and told in the chain (`SetBefore`, `Told`; `Reached` is how far the scan has come
with a card), that only the last entry is marked (`Marks`) and that a card responds when
it is done (`Responding`). `RespondsWhenSet` and `ChainsComplete` follow. For
`FallingSizesFit` there is `SpaceInv`: as long as the requests fall, the
address kept for a window is behind all ranges in it and a multiple of each
size up to theirs.

### Limits and observations

- BARs of 64 bits are left out: the upper half reads all ones in the probe and is
  taken for an I/O register of 4 bytes.
- Nothing tests that the windows are large enough.
- Between the stores of handler and parameter an interrupt calls a handler with
  a null parameter, which `NoForeignParameter` allows. An interrupt during the `memset` of
  `pci_unhook_interrupt` (`pci.c:571`) may jump to an address of which some bytes are
  cleared already; the property only says that this ends with the call and concerns no
  other card. `CUT` is assumed not to be the address of another card's handler. A driver is assumed to
  hook a card once.
- A card without any range, and the bridge, have a chain without `FLG_LAST`. The
  loops over it (`ohci-hcd.c:2418`, `ehci-hcd.c:1016`, `radeon_base.c:2304`) would not end.
- `handles[index + 1]` (`pci.c:1004`) is written past the array for the tenth
  function; `PciAssumption` excludes it.

## 11. What is proved and what is only checked

| Component | Proved for all constants | Only model-checked |
|---|---|---|
| FEC driver | `TypeOK`, `EachBufferHasOneOwner`, `RxRingInOrder`, `TxQueueCoversBDs`, `RxFramesInOrder`; if `OnlyHandlerSends`: `TxRingInOrder`, `IsrNeverWaits`, `TxImplementsFifo` | `RxServed`, `TxServed` |
| ARP | `TypeOK`, `OneEntryPerAddress`, `SentToOwnerWithRoom`, `HandlerNeverWaits` | `SendReturns` |
| TFTP | `InOrder`, `OneSession`, `ServerNotAhead`, `CompletedUnlessLost`; `AckedIsStored`, `StoredUnlessRetriesUsed` | `Terminates` |
| Driver memory | `ListsConsistent`, `IsHeap` | - |
| DMA | `TypeOK`, `PendingForOwner`, `StatusMatchesEngine`, `ReleasedAll`; if `TxHasSlot`: `RunningTaskOwned` | - |
| MMU | `SystemPages`, `LockHolds`, `LockedEntriesBounded` | - |
| USB | `TdsAccounted`, `NoFreeTdInFlight`, `FinishedMeansDone`, `QuietWhenIdle` | `SubmitReturns` |
| PCI | `RespondsConfigured`, `ChainTellsRanges`, `SortedNoOverlap`, `NoForeignParameter`, `CalledWhileHooked` | - |

Type correctness of the FEC driver, ARP and the DMA controller is proved and not
checked again by a run; in the other modules `TypeOK` (`MmuTypeOK` in `Mmu`) is a conjunct of the
structural invariant that the run checks (`InOrder`, `AckedIsStored`,
`ListsConsistent`, `SystemPages`, `TdsAccounted`, `ChainTellsRanges`).

Liveness under fairness stays with TLC: the provers have no rule for fairness
over `ENABLED`. Every safety invariant a run checks is proved as well. What a
recursive function computes for every input needs induction over data, for which there
is no rule either; where a property is stated with one (`Walk` in `Ohci`), the
proof bounds what it can meet and does not compute it. The proofs rest on the
assumptions on the constants named in each module (`...Assumption`), on
`OnlyHandlerSends` and `TxHasSlot` where the table says so, and on nothing else.

The violated property of a finding is stated as the comment of the code puts
it; the passing runs state what does hold instead.

## 12. Not modelled

- Interrupt table (`sys/interrupts.c`): `isr_register_handler` is called only at
  start-up, from `init_isr` in `BaS.c`, once for each vector, with distinct vectors;
  `isr_remove_handler` has no caller. The table never changes while interrupts
  are dispatched from it, so what its removal would do wrong cannot happen.
- UDP ports, protocol table, BOOTP: the functions that would fill the tables
  (`udp_init`, `nif_bind`) and `bootp_request` have no caller in this tree. Delivery to
  the handler of a transfer is part of `TftpRead` and `TftpWrite`, route look-up part
  of `Arp`. `ip_resolve_route` (`ip.c:85-97`) applies the address AND the netmask, not the
  netmask, to the destination; in `Arp` the next hop is a choice.
- Network timer: in the modules that wait for it a time-out may happen at any
  step, which includes everything it can do.
- USB: the root hub, start-up of the controllers, interrupt mode, EHCI;
  enumeration and class drivers, which call `submit_common_msg` one after the other.
- SD card, XHDI, flash, S-records, PHYs, I2C, keyboard, video, FPGA and
  processor start-up: sequences of register accesses without another actor, whose
  correctness lies in values a model would copy from the code.
- Caches: the functions change no state but the processor's.
- Vendored and generated code: `fs/` (FatFs, four fifths of it code page tables),
  `x86emu/`, `radeon/`, the register and PCI identifier headers, and the DMA
  microcode (`MCD_tasks.c`). Together with the previous item these are by far most
  of the repository's lines.
