------------------------------ MODULE FecDriver ------------------------------
(***************************************************************************)
(* The data path of the FEC Ethernet driver: net/fec.c and net/fecbd.c on  *)
(* top of the buffer pool, with the two DMA tasks that walk the buffer     *)
(* descriptor rings and the interrupt through which they call the driver.  *)
(*                                                                         *)
(* Three kinds of actors share the rings:                                  *)
(*   - the DMA tasks: hardware, concurrent with everything;                *)
(*   - the DMA interrupt handler, which holds IPL 7 while it runs          *)
(*     fec_rx_frame and fec_tx_frame: no other software step happens until *)
(*     it returns, so one turn of its loops is one action;                 *)
(*   - foreground code, which can be interrupted between any two steps     *)
(*     outside the nbuf_* routines: fec_send is one action per step.       *)
(*                                                                         *)
(* The driver supports two channels but keeps one set of ring indices; as  *)
(* the FireBee and the evaluation boards do, the model brings up one.      *)
(***************************************************************************)
EXTENDS Nbuf, FiniteSets

CONSTANTS
    NRXBD,      (* receive buffer descriptors  *)
    NTXBD,      (* transmit buffer descriptors *)
    Senders,    (* who calls fec_send: "main" (arp_request, tftp_*, bootp_request) *)
                (* and "isr" (arp_handler answering from fec_rx_frame)             *)
    Leaks       (* TRUE if packets of the kinds that ip_handler and bootp_handler  *)
                (* never free (ICMP, BOOTP) may arrive                             *)

ASSUME FecAssumption ==
    /\ NRXBD \in Nat \ {0}
    /\ NTXBD \in Nat \ {0}
    /\ NRXBD <= NBUF_MAX
    /\ Senders \subseteq {"main", "isr"}
    /\ Leaks \in BOOLEAN

VARIABLES
    queue,      (* the buffer pool *)
    rxbd,       (* RxBD: e = RX_BD_E, ok = no error bit, data = buffer *)
    txbd,       (* TxBD: r = TX_BD_R, data = buffer or NULL            *)
    iRxbd, iTxbd_new, iTxbd_old,
    rxDma, txDma,   (* DMA tasks: next descriptor and whether running *)
    pending,    (* DIPR: DMA channels whose interrupt is pending *)
    isr,        (* dma_interrupt_handler: where it is, the channels it has   *)
                (* still to serve, and the buffer passed up the stack        *)
    main,       (* foreground fec_send: where it is, its buffer, its TxBD    *)
    held,       (* received buffers that a protocol keeps for the foreground *)
    lost        (* received buffers that no code frees                       *)

rxVars   == <<rxbd, iRxbd, rxDma>>
txVars   == <<txbd, iTxbd_new, iTxbd_old, txDma>>
vars == <<queue, rxbd, txbd, iRxbd, iTxbd_new, iTxbd_old, rxDma, txDma,
          pending, isr, main, held, lost>>

RxIndex == 0 .. NRXBD - 1
TxIndex == 0 .. NTXBD - 1

RxNext(i) == IF i = NRXBD - 1 THEN 0 ELSE i + 1

(* Mutant: the index is not advanced. *)
TxNext_Stuck(i) == i

TxNext(i) == IF i = NTXBD - 1 THEN 0 ELSE i + 1

(* How many descriptors after "from" descriptor j comes, in a ring of n. *)
Ahead(from, j, n) == IF j >= from THEN j - from ELSE j - from + n

TypeOK ==
    /\ queue \in [NBUF_QUEUES -> Seq(Nodes)]
    /\ rxbd \in [RxIndex -> [e : BOOLEAN, ok : BOOLEAN, data : NBUF]]
    /\ txbd \in [TxIndex -> [r : BOOLEAN, data : Nodes]]
    /\ iRxbd \in RxIndex
    /\ iTxbd_new \in TxIndex
    /\ iTxbd_old \in TxIndex
    /\ rxDma \in [at : RxIndex, run : BOOLEAN]
    /\ txDma \in [at : TxIndex, run : BOOLEAN]
    /\ pending \subseteq {"rx", "tx"}
    /\ isr \in [pc : {"idle", "run", "up", "send"}, todo : SUBSET {"rx", "tx"}, nbuf : Nodes]
    /\ main \in [pc : {"idle", "alloc", "bump", "add", "data", "ready", "continue"},
                 nbuf : Nodes, bd : TxIndex]
    /\ held \subseteq NBUF
    /\ lost \subseteq NBUF
    /\ isr.pc \in {"up", "send"} => isr.nbuf # NULL
    /\ main.pc \in {"alloc", "bump", "add", "data"} => main.nbuf # NULL

(* fec_eth_setup: the pool, the rings and both DMA tasks started. *)
Init ==
    /\ queue = nbuf_init(NRXBD)
    /\ rxbd = [i \in RxIndex |-> [e |-> TRUE, ok |-> TRUE, data |-> i + 1]]
    /\ txbd = [i \in TxIndex |-> [r |-> FALSE, data |-> NULL]]
    /\ iRxbd = 0 /\ iTxbd_new = 0 /\ iTxbd_old = 0
    /\ rxDma = [at |-> 0, run |-> TRUE]
    /\ txDma = [at |-> 0, run |-> TRUE]
    /\ pending = {}
    /\ isr = [pc |-> "idle", todo |-> {}, nbuf |-> NULL]
    /\ main = [pc |-> "idle", nbuf |-> NULL, bd |-> 0]
    /\ held = {}
    /\ lost = {}

-----------------------------------------------------------------------------
(* The DMA tasks.  A task stops at a descriptor that is not ready and goes *)
(* on there when it is continued.                                          *)

DmaReceive(good) ==
    /\ rxDma.run
    /\ rxbd[rxDma.at].e
    /\ rxbd' = [rxbd EXCEPT ![rxDma.at].e = FALSE, ![rxDma.at].ok = good]
    /\ rxDma' = [rxDma EXCEPT !.at = RxNext(@)]
    /\ pending' = pending \cup {"rx"}
    /\ UNCHANGED <<queue, iRxbd, txVars, isr, main, held, lost>>

DmaReceiveHalt ==
    /\ rxDma.run
    /\ ~rxbd[rxDma.at].e
    /\ rxDma' = [rxDma EXCEPT !.run = FALSE]
    /\ UNCHANGED <<queue, rxbd, iRxbd, txVars, pending, isr, main, held, lost>>

DmaTransmit ==
    /\ txDma.run
    /\ txbd[txDma.at].r
    /\ txbd' = [txbd EXCEPT ![txDma.at].r = FALSE]
    /\ txDma' = [txDma EXCEPT !.at = TxNext(@)]
    /\ pending' = pending \cup {"tx"}
    /\ UNCHANGED <<queue, rxVars, iTxbd_new, iTxbd_old, isr, main, held, lost>>

DmaTransmitHalt ==
    /\ txDma.run
    /\ ~txbd[txDma.at].r
    /\ txDma' = [txDma EXCEPT !.run = FALSE]
    /\ UNCHANGED <<queue, rxVars, txbd, iTxbd_new, iTxbd_old, pending, isr, main, held, lost>>

-----------------------------------------------------------------------------
(* dma_interrupt_handler: clear the pending channels, then call the        *)
(* handler of each, receive (the lower channel) first.                     *)

IsrEnter ==
    /\ isr.pc = "idle"
    /\ pending # {}
    /\ isr' = [isr EXCEPT !.pc = "run", !.todo = pending]
    /\ pending' = {}
    /\ UNCHANGED <<queue, rxVars, txVars, main, held, lost>>

IsrExit ==
    /\ isr.pc = "run"
    /\ isr.todo = {}
    /\ isr' = [isr EXCEPT !.pc = "idle"]
    /\ UNCHANGED <<queue, rxVars, txVars, pending, main, held, lost>>

(* fec_rx_frame, one turn of its loop.  fecbd_rx_alloc has advanced iRxbd. *)
RxReady ==
    /\ isr.pc = "run"
    /\ "rx" \in isr.todo
    /\ ~rxbd[iRxbd].e

(* Mutants: the data pointer is not written; the index advances twice; the *)
(* descriptor is not marked empty.                                         *)
RearmRxBD_OldData(i, b) ==
    /\ rxbd' = [rxbd EXCEPT ![i].e = TRUE, ![i].ok = TRUE]
    /\ rxDma' = [rxDma EXCEPT !.run = TRUE]
    /\ iRxbd' = RxNext(i)

RearmRxBD_SkipOne(i, b) ==
    /\ rxbd' = [rxbd EXCEPT ![i] = [e |-> TRUE, ok |-> TRUE, data |-> b]]
    /\ rxDma' = [rxDma EXCEPT !.run = TRUE]
    /\ iRxbd' = RxNext(RxNext(i))

RearmRxBD_NotEmpty(i, b) ==
    /\ rxbd' = [rxbd EXCEPT ![i].data = b]
    /\ rxDma' = [rxDma EXCEPT !.run = TRUE]
    /\ iRxbd' = RxNext(i)

(* Give descriptor i back to the DMA with buffer b, and continue the task. *)
RearmRxBD(i, b) ==
    /\ rxbd' = [rxbd EXCEPT ![i] = [e |-> TRUE, ok |-> TRUE, data |-> b]]
    /\ rxDma' = [rxDma EXCEPT !.run = TRUE]
    /\ iRxbd' = RxNext(i)

(* A good frame, and a buffer to replace the one it is in: the frame is    *)
(* passed up the stack.                                                    *)
RxKeep ==
    /\ RxReady
    /\ rxbd[iRxbd].ok
    /\ LET cur     == queue_peek(queue[NBUF_RX_RING])
           without == nbuf_remove(queue, NBUF_RX_RING)
           new     == queue_peek(without[NBUF_FREE])
       IN  /\ new # NULL
           /\ queue' = nbuf_add(nbuf_alloc(without), NBUF_RX_RING, new)
           /\ RearmRxBD(iRxbd, new)
           /\ isr' = [isr EXCEPT !.pc = "up", !.nbuf = cur]
    /\ UNCHANGED <<txVars, pending, main, held, lost>>

(* A bad frame, or no free buffer: the frame is dropped, its buffer stays  *)
(* in its descriptor (whose data pointer is not written) and moves to the  *)
(* end of the queue.                                                       *)
RxDrop ==
    /\ RxReady
    /\ \/ ~rxbd[iRxbd].ok
       \/ queue_peek(queue[NBUF_FREE]) = NULL
    /\ queue' = nbuf_add(nbuf_remove(queue, NBUF_RX_RING), NBUF_RX_RING,
                         queue_peek(queue[NBUF_RX_RING]))
    /\ RearmRxBD(iRxbd, rxbd[iRxbd].data)
    /\ UNCHANGED <<txVars, pending, isr, main, held, lost>>

RxDone ==
    /\ isr.pc = "run"
    /\ "rx" \in isr.todo
    /\ rxbd[iRxbd].e
    /\ isr' = [isr EXCEPT !.todo = @ \ {"rx"}]
    /\ UNCHANGED <<queue, rxVars, txVars, pending, main, held, lost>>

(* What becomes of a frame passed up the stack: it is freed (unsupported   *)
(* type, or a handler done with it), kept for the foreground (tftp),       *)
(* never freed (ICMP, BOOTP), or its buffer carries the ARP reply.         *)
Passed(pc) == isr' = [isr EXCEPT !.pc = pc, !.nbuf = NULL]

UpFree ==
    /\ isr.pc = "up"
    /\ queue' = nbuf_free(queue, isr.nbuf)
    /\ Passed("run")
    /\ UNCHANGED <<rxVars, txVars, pending, main, held, lost>>

UpHold ==
    /\ isr.pc = "up"
    /\ held' = held \cup {isr.nbuf}
    /\ Passed("run")
    /\ UNCHANGED <<queue, rxVars, txVars, pending, main, lost>>

UpLeak ==
    /\ Leaks
    /\ isr.pc = "up"
    /\ lost' = lost \cup {isr.nbuf}
    /\ Passed("run")
    /\ UNCHANGED <<queue, rxVars, txVars, pending, main, held>>

(* Mutant: the transmit task is not continued. *)
fec_tx_continue_Missing == UNCHANGED txDma

fec_tx_continue == txDma' = [txDma EXCEPT !.run = TRUE]

UpReply ==
    /\ "isr" \in Senders
    /\ isr.pc = "up"
    /\ isr' = [isr EXCEPT !.pc = "send"]
    /\ UNCHANGED <<queue, rxVars, txVars, pending, main, held, lost>>

(* fec_send called by the interrupt handler: it spins until descriptor     *)
(* iTxbd_new is not ready, and no other software runs until it is done.    *)
IsrSend ==
    /\ isr.pc = "send"
    /\ ~txbd[iTxbd_new].r
    /\ queue' = nbuf_add(queue, NBUF_TX_RING, isr.nbuf)
    /\ txbd' = [txbd EXCEPT ![iTxbd_new] = [r |-> TRUE, data |-> isr.nbuf]]
    /\ iTxbd_new' = TxNext(iTxbd_new)
    /\ fec_tx_continue
    /\ Passed("run")
    /\ UNCHANGED <<rxVars, iTxbd_old, pending, main, held, lost>>

(* Mutants of fecbd_tx_free's test: without its half about the ready bit,  *)
(* without its half about the data pointer.                                *)
TxFreeable_NotSent(i) == txbd[i].data # NULL
TxFreeable_NoData(i)  == ~txbd[i].r

(* fec_tx_frame, one turn of its loop, and its end. *)
TxFreeable(i) == txbd[i].data # NULL /\ ~txbd[i].r

TxFrame ==
    /\ isr.pc = "run"
    /\ isr.todo = {"tx"}
    /\ TxFreeable(iTxbd_old)
    /\ queue' = nbuf_free(nbuf_remove(queue, NBUF_TX_RING),
                          queue_peek(queue[NBUF_TX_RING]))
    /\ txbd' = [txbd EXCEPT ![iTxbd_old].data = NULL]
    /\ iTxbd_old' = TxNext(iTxbd_old)
    /\ UNCHANGED <<rxVars, iTxbd_new, txDma, pending, isr, main, held, lost>>

TxDone ==
    /\ isr.pc = "run"
    /\ isr.todo = {"tx"}
    /\ ~TxFreeable(iTxbd_old)
    /\ isr' = [isr EXCEPT !.todo = {}]
    /\ UNCHANGED <<queue, rxVars, txVars, pending, main, held, lost>>

-----------------------------------------------------------------------------
(* fec_send called by foreground code, in the steps an interrupt can       *)
(* separate.                                                               *)

MainStep(from, to) ==
    /\ isr.pc = "idle"
    /\ main.pc = from
    /\ main' = [main EXCEPT !.pc = to]

(* The caller's nbuf_alloc; without a buffer it does not call fec_send. *)
MainBuild ==
    /\ "main" \in Senders
    /\ isr.pc = "idle"
    /\ main.pc = "idle"
    /\ queue_peek(queue[NBUF_FREE]) # NULL
    /\ main' = [main EXCEPT !.pc = "alloc", !.nbuf = queue_peek(queue[NBUF_FREE])]
    /\ queue' = nbuf_alloc(queue)
    /\ UNCHANGED <<rxVars, txVars, pending, isr, held, lost>>

(* fecbd_tx_alloc: read the index and test the descriptor ... *)
MainTxAlloc ==
    /\ isr.pc = "idle"
    /\ main.pc = "alloc"
    /\ ~txbd[iTxbd_new].r
    /\ main' = [main EXCEPT !.pc = "bump", !.bd = iTxbd_new]
    /\ UNCHANGED <<queue, rxVars, txVars, pending, isr, held, lost>>

(* ... and advance the index.  It is not volatile: the compiler may keep   *)
(* the value read before the test or read it again.                        *)
MainTxBump ==
    /\ MainStep("bump", "add")
    /\ \E i \in {main.bd, iTxbd_new} : iTxbd_new' = TxNext(i)
    /\ UNCHANGED <<queue, rxVars, txbd, iTxbd_old, txDma, pending, isr, held, lost>>

MainTxAdd ==
    /\ isr.pc = "idle"
    /\ main.pc = "add"
    /\ queue' = nbuf_add(queue, NBUF_TX_RING, main.nbuf)
    /\ main' = [main EXCEPT !.pc = "data"]
    /\ UNCHANGED <<rxVars, txVars, pending, isr, held, lost>>

(* The data pointer is stored first, the ready bit last. *)
MainTxData ==
    /\ isr.pc = "idle"
    /\ main.pc = "data"
    /\ txbd' = [txbd EXCEPT ![main.bd].data = main.nbuf]
    /\ main' = [main EXCEPT !.pc = "ready", !.nbuf = NULL]
    /\ UNCHANGED <<queue, rxVars, iTxbd_new, iTxbd_old, txDma, pending, isr, held, lost>>

MainTxReady ==
    /\ MainStep("ready", "continue")
    /\ txbd' = [txbd EXCEPT ![main.bd].r = TRUE]
    /\ UNCHANGED <<queue, rxVars, iTxbd_new, iTxbd_old, txDma, pending, isr, held, lost>>

(* fec_tx_continue *)
MainTxContinue ==
    /\ isr.pc = "idle"
    /\ main.pc = "continue"
    /\ main' = [pc |-> "idle", nbuf |-> NULL, bd |-> 0]
    /\ fec_tx_continue
    /\ UNCHANGED <<queue, rxVars, txbd, iTxbd_new, iTxbd_old, pending, isr, held, lost>>

(* The foreground is done with a received buffer (tftp_in_char). *)
MainFree(b) ==
    /\ isr.pc = "idle"
    /\ main.pc = "idle"
    /\ b \in held
    /\ held' = held \ {b}
    /\ queue' = nbuf_free(queue, b)
    /\ UNCHANGED <<rxVars, txVars, pending, isr, main, lost>>

-----------------------------------------------------------------------------
Dma == \/ \E good \in BOOLEAN : DmaReceive(good)
       \/ DmaReceiveHalt
       \/ DmaTransmit
       \/ DmaTransmitHalt

Up == UpFree \/ UpHold \/ UpLeak \/ UpReply

Isr == \/ IsrEnter \/ IsrExit
       \/ RxKeep \/ RxDrop \/ RxDone
       \/ Up \/ IsrSend
       \/ TxFrame \/ TxDone

Send == \/ MainTxAlloc \/ MainTxBump \/ MainTxAdd
        \/ MainTxData \/ MainTxReady \/ MainTxContinue

Next == \/ Dma
        \/ Isr
        \/ MainBuild \/ Send
        \/ \E b \in NBUF : MainFree(b)

(* The transmitter and the processor do not stop: a ready frame is sent,   *)
(* an interrupt is taken and its handler goes on, and interrupts leave     *)
(* fec_send the time to go on.  Nothing is assumed of the network (frames  *)
(* may never arrive) nor of what the protocols do with a frame.            *)
Fairness ==
    /\ WF_vars(DmaTransmit)
    /\ WF_vars(Isr)
    /\ SF_vars(Send)

Spec == Init /\ [][Next]_vars
FairSpec == Spec /\ Fairness

-----------------------------------------------------------------------------
(* Who can own a buffer: a queue, the frame the interrupt handler is       *)
(* passing up, the frame the foreground is sending, the frames kept for    *)
(* the foreground, and those that no code will ever free.                  *)
Owners == NBUF_QUEUES \cup {"isr", "main", "held", "lost"}

Queued(q, b) == \E k \in 1 .. Len(queue[q]) : queue[q][k] = b

Owns(o, b) ==
    \/ o \in NBUF_QUEUES /\ Queued(o, b)
    \/ o = "isr"  /\ isr.pc \in {"up", "send"} /\ isr.nbuf = b
    \/ o = "main" /\ main.pc \in {"alloc", "bump", "add"} /\ main.nbuf = b
    \/ o = "held" /\ b \in held
    \/ o = "lost" /\ b \in lost

(* Whatever the interleaving of senders, interrupts and DMA, no buffer of  *)
(* the pool vanishes, none is owned twice, none is queued twice, and the   *)
(* null pointer is never queued (nbuf_alloc, nbuf_free, nbuf_add and       *)
(* nbuf_remove as fec.c calls them).                                       *)
EachBufferHasOneOwner ==
    /\ \A b \in NBUF : \E o \in Owners : Owns(o, b)
    /\ \A b \in NBUF : \A o1, o2 \in Owners : Owns(o1, b) /\ Owns(o2, b) => o1 = o2
    /\ \A q \in NBUF_QUEUES : \A j, k \in 1 .. Len(queue[q]) :
            queue[q][j] = queue[q][k] => j = k
    /\ \A q \in NBUF_QUEUES : ~Queued(q, NULL)

(* fec_rx_frame takes the frame's buffer from the head of NBUF_RX_RING     *)
(* without comparing it with the descriptor: the queue always lists the    *)
(* ring's buffers from the next descriptor to be handled onwards.          *)
RxRingInOrder ==
    /\ Len(queue[NBUF_RX_RING]) = NRXBD
    /\ \A i \in RxIndex :
           queue[NBUF_RX_RING][Ahead(iRxbd, i, NRXBD) + 1] = rxbd[i].data

(* Frames are handled in the order the DMA received them and none is       *)
(* skipped: the descriptors not yet handled are exactly those from iRxbd   *)
(* to the DMA's, so fecbd_rx_alloc never stops short of a received frame.  *)
RxFramesInOrder ==
    IF rxDma.at = iRxbd
    THEN \A i, j \in RxIndex : rxbd[i].e = rxbd[j].e
    ELSE \A i \in RxIndex :
            rxbd[i].e <=> Ahead(iRxbd, i, NRXBD) >= Ahead(iRxbd, rxDma.at, NRXBD)

(* fec_tx_frame frees the result of nbuf_remove(NBUF_TX_RING) without      *)
(* testing it: there is always a queued buffer for each descriptor that    *)
(* carries one, even when senders race for a descriptor.                   *)
CarriedBDs == {i \in TxIndex : txbd[i].data # NULL}

TxQueueCoversBDs ==
    Cardinality(CarriedBDs) + (IF main.pc = "data" THEN 1 ELSE 0)
        <= Len(queue[NBUF_TX_RING])

(* With the interrupt handler as the only sender, the transmit queue lists *)
(* the buffers of the descriptors from iTxbd_old to iTxbd_new, so what     *)
(* fec_tx_frame frees is the buffer of the descriptor just sent; the other *)
(* descriptors are free.                                                   *)
TxRingInOrder ==
    \A i \in TxIndex :
        LET k == Ahead(iTxbd_old, i, NTXBD) + 1
        IN  IF k <= Len(queue[NBUF_TX_RING])
            THEN txbd[i].data = queue[NBUF_TX_RING][k]
            ELSE txbd[i] = [r |-> FALSE, data |-> NULL]

(* With the interrupt handler as the only sender, fec_send never waits for *)
(* a descriptor (it would keep the handler at IPL 7 meanwhile): the pool   *)
(* is too small to fill the transmit ring.                                 *)
IsrNeverWaits == isr.pc = "send" => ~txbd[iTxbd_new].r

(* A descriptor handed to the transmitter carries a buffer that is still   *)
(* in the transmit queue: nothing is freed before it was sent.  (With a    *)
(* foreground sender this does not hold; see README.md.)                   *)
ReadyBDsQueued ==
    \A i \in TxIndex : txbd[i].r => Queued(NBUF_TX_RING, txbd[i].data)

(* The descriptor fecbd_tx_alloc gave the foreground sender is available:  *)
(* until fec_send arms it, no other frame is in it.  (With two senders     *)
(* this does not hold; see README.md.)                                     *)
AllocatedBDAvailable ==
    /\ main.pc \in {"bump", "add", "data"} => txbd[main.bd] = [r |-> FALSE, data |-> NULL]
    /\ main.pc = "ready" => ~txbd[main.bd].r

(* A received frame's descriptor always goes back to the DMA, even when    *)
(* every buffer is gone and every later frame has to be dropped.           *)
RxServed == \A i \in RxIndex : ~rxbd[i].e ~> rxbd[i].e

(* fec_rx_frame runs at IPL 7 and only returns at an empty descriptor, so  *)
(* a network that delivers frames as fast as it handles them stops         *)
(* everything else.  What follows holds as long as it does return.         *)
ReceiveReturns == []<>("rx" \notin isr.todo)

(* Every buffer sent leaves the transmit queue again, and a foreground     *)
(* fec_send returns: however often tx-complete interrupts free descriptors *)
(* too early, neither is left waiting for a transmitter that has stopped.  *)
TxServed ==
    ReceiveReturns =>
        /\ \A b \in NBUF : Queued(NBUF_TX_RING, b) ~> ~Queued(NBUF_TX_RING, b)
        /\ main.pc # "idle" ~> main.pc = "idle"

(* With the interrupt handler as the only sender, the transmit ring and    *)
(* queue implement a FIFO of frames: fifo is the transmit queue, a frame   *)
(* is sent when its descriptor is no longer ready.                         *)
Fifo == INSTANCE TxFifo WITH
    Buffers <- NBUF,
    fifo <- [k \in 1 .. Len(queue[NBUF_TX_RING]) |->
                [buffer |-> queue[NBUF_TX_RING][k],
                 sent |-> ~txbd[(iTxbd_old + k - 1) % NTXBD].r]]

TxImplementsFifo == Fifo!Spec
=============================================================================
