---------------------------------- MODULE Dma ----------------------------------
(***************************************************************************)
(* The DMA controller: initiators and channels (dma/dma.c), the status of  *)
(* each channel (dma/MCD_dmaApi.c), and those who use them: the FEC driver *)
(* (start and stop of net/fec.c) and drivers of the operating system,      *)
(* through the interface of if/driver_vec.c.                               *)
(*                                                                         *)
(* Three actors: the task engine (hardware), the DMA interrupt, and the    *)
(* foreground.  The interrupt is taken before the foreground goes on, so   *)
(* calls start with none pending; inside a call it may come between two    *)
(* steps.  fec_eth_stop runs at IPL 7.  Handlers of other drivers than the *)
(* FEC's are assumed not to call this interface.                           *)
(***************************************************************************)
EXTENDS Integers, Sequences, FiniteSets, FiniteSetsExt

CONSTANTS
    NCHANNELS,
    FecRx, FecTx,   (* the requestors of the FEC that is set up *)
    Drivers,        (* the requestors of other drivers *)
    Pausers         (* those of them that pause their DMA *)

ASSUME DmaAssumption ==
    /\ NCHANNELS \in Nat \ {0}
    /\ FecRx \in {"FEC0_RX", "FEC1_RX"} /\ FecTx \in {"FEC0_TX", "FEC1_TX"}
    /\ FecRx \notin Drivers /\ FecTx \notin Drivers
    /\ "FREE" \notin Drivers
    /\ Pausers \subseteq Drivers

VARIABLES
    tab,        (* used_reqs[], the multiplexer IMCR, and dma_channel[] *)
    mcd,        (* per channel the enable bit and initiator of its task control
                   register, MCD_chStatus[]; and the channel the debug unit freezes *)
    pending,    (* DIPR *)
    raised,     (* whose DMA raised each pending interrupt (history) *)
    fec,        (* "stopped" or "up" *)
    drv,        (* per driver: "closed", "open", "paused" *)
    main        (* a channel MCD_pauseDma has found enabled, or NONE *)

vars == <<tab, mcd, pending, raised, fec, drv, main>>

Channels == 0 .. NCHANNELS - 1
NONE == -1
FREE == "FREE"      (* 0 in used_reqs[16..31], -1 in dma_channel[] *)
Requestors == Drivers \cup {FecRx, FecTx}
Multiplexed == 16 .. 31

(* used_reqs[0..15], which never change, and the requestors that           *)
(* dma_set_initiator lets pass without a slot: DMA_PSC1_TX is not among    *)
(* them, and has no other case.                                            *)
Fixed == [ALWAYS |-> 0, DSPI_RXFIFO |-> 1, DSPI_TXFIFO |-> 2, DREQ0 |-> 3,
          PSC0_RX |-> 4, PSC0_TX |-> 5, USB_EP0 |-> 6, USB_EP1 |-> 7,
          USB_EP2 |-> 8, USB_EP3 |-> 9, PCI_TX |-> 10, PCI_RX |-> 11,
          PSC1_RX |-> 12, PSC1_TX |-> 13, I2C_RX |-> 14, I2C_TX |-> 15]
AlwaysActive == DOMAIN Fixed \ {"PSC1_TX"}

(* The slots of each other case of dma_set_initiator, in the order it      *)
(* tries them.                                                             *)
Slots(r) ==
    CASE r = "FEC0_RX" -> <<16>>
      [] r = "FEC0_TX" -> <<17>>
      [] r = "FEC1_RX" -> <<20>>
      [] r = "FEC1_TX" -> <<21, 25, 31>>
      [] r = "DREQ1" -> <<29, 21>>
      [] r = "CTM0" -> <<24>>
      [] r = "CTM1" -> <<25>>
      [] r \in {"CTM2", "USBEP4"} -> <<26>>
      [] r \in {"CTM3", "USBEP5"} -> <<27>>
      [] r \in {"CTM4", "USBEP6", "PSC2_RX"} -> <<28>>
      [] r \in {"CTM5", "PSC2_TX"} -> <<29>>
      [] r \in {"CTM6", "PSC3_RX"} -> <<30>>
      [] r \in {"CTM7", "PSC3_TX"} -> <<31>>
      [] OTHER -> <<>>

TypeOK ==
    /\ tab \in [used_reqs : [Multiplexed -> Requestors \cup {FREE}],
                imcr : [Multiplexed -> Requestors \cup {FREE}],
                req : [Channels -> Requestors \cup {FREE}],
                handler : [Channels -> Requestors \cup {FREE}]]
    /\ mcd \in [en : [Channels -> BOOLEAN], init : [Channels -> 0 .. 31],
                chStatus : [Channels -> {"NO_DMA", "IDLE", "RUNNING", "PAUSED", "HALTED", "DONE"}],
                debug : Channels \cup {NONE}]
    /\ pending \subseteq Channels
    /\ raised \in [Channels -> Requestors \cup {FREE}]
    /\ fec \in {"stopped", "up"} /\ drv \in [Drivers -> {"closed", "open", "paused"}]
    /\ main \in Channels \cup {NONE}

(* dma_init and MCD_initDma. *)
Init ==
    /\ tab = [used_reqs |-> [s \in Multiplexed |-> FREE], imcr |-> [s \in Multiplexed |-> FREE],
              req |-> [c \in Channels |-> FREE], handler |-> [c \in Channels |-> FREE]]
    /\ mcd = [en |-> [c \in Channels |-> FALSE], init |-> [c \in Channels |-> 0],
              chStatus |-> [c \in Channels |-> "NO_DMA"], debug |-> NONE]
    /\ pending = {} /\ raised = [c \in Channels |-> FREE]
    /\ fec = "stopped" /\ drv = [d \in Drivers |-> "closed"]
    /\ main = NONE

-----------------------------------------------------------------------------
(* dma.c, as functions of the tables t. *)
FreeSlots(t, r) == {k \in DOMAIN Slots(r) : t.used_reqs[Slots(r)[k]] = FREE}

(* The slot dma_set_initiator takes for r, 0 if none is left or r needs    *)
(* none.  The FEC receivers and FEC0's transmitter take theirs without     *)
(* looking.                                                                *)
SlotFor(t, r) ==
    IF r \in {"FEC0_RX", "FEC0_TX", "FEC1_RX"} THEN Slots(r)[1]
    ELSE IF FreeSlots(t, r) = {} THEN 0 ELSE Slots(r)[Min(FreeSlots(t, r))]

dma_set_initiator(t, r) ==
    IF SlotFor(t, r) = 0 THEN t
    ELSE [t EXCEPT !.used_reqs[SlotFor(t, r)] = r, !.imcr[SlotFor(t, r)] = r]

SlotsOf(t, r) == {s \in Multiplexed : t.used_reqs[s] = r}
ChannelsOf(t, r) == {c \in Channels : t.req[c] = r}

(* Whether dma_set_initiator answers 0. *)
Accepts(t, r) == r \in AlwaysActive \/ SlotFor(t, r) # 0

dma_get_initiator(t, r) ==
    IF r \in DOMAIN Fixed THEN Fixed[r]
    ELSE IF SlotsOf(t, r) = {} THEN 0 ELSE Min(SlotsOf(t, r))

(* Mutant: the search ends before the last slots. *)
dma_free_initiator_Short(t, r) ==
    IF SlotsOf(t, r) \subseteq 28 .. 31 THEN t
    ELSE [t EXCEPT !.used_reqs[Min(SlotsOf(t, r))] = FREE]

dma_free_initiator(t, r) ==
    IF SlotsOf(t, r) = {} THEN t ELSE [t EXCEPT !.used_reqs[Min(SlotsOf(t, r))] = FREE]

dma_get_channel(t, r) == IF ChannelsOf(t, r) = {} THEN NONE ELSE Min(ChannelsOf(t, r))

dma_set_channel(t, r) ==
    LET unused == ChannelsOf(t, FREE)
    IN  IF ChannelsOf(t, r) # {} \/ unused = {} THEN t
        ELSE [t EXCEPT !.req[Min(unused)] = r, !.handler[Min(unused)] = r]

(* Mutant: the handler stays. *)
dma_free_channel_KeepsHandler(t, r) ==
    IF ChannelsOf(t, r) = {} THEN t ELSE [t EXCEPT !.req[dma_get_channel(t, r)] = FREE]

dma_free_channel(t, r) ==
    IF ChannelsOf(t, r) = {} THEN t
    ELSE [t EXCEPT !.req[dma_get_channel(t, r)] = FREE,
                   !.handler[dma_get_channel(t, r)] = FREE]

-----------------------------------------------------------------------------
(* MCD_dmaApi.c, as functions of m.  Each refuses a channel that does not  *)
(* exist before anything else.  Mutant: a start leaves the old status.     *)
MCD_startDma_KeepsStatus(m, c, initiator) ==
    IF c \notin Channels THEN m ELSE [m EXCEPT !.en[c] = TRUE, !.init[c] = initiator]

MCD_startDma(m, c, initiator) ==
    IF c \notin Channels THEN m
    ELSE [m EXCEPT !.en[c] = TRUE, !.init[c] = initiator, !.chStatus[c] = "IDLE"]

(* MCD_resumeDma; which status results depends on the initiator's signal. *)
MCD_resumeDma(m, c) ==
    IF c \notin Channels \/ ~m.en[c] THEN {m}
    ELSE {[m EXCEPT !.debug = NONE, !.chStatus[c] = s] : s \in {"IDLE", "RUNNING"}}

(* MCD_killDma calls MCD_resumeDma when the task is disabled already. *)
MCD_killDma(m, c) ==
    IF c \notin Channels THEN m
    ELSE LET off == [m EXCEPT !.en[c] = FALSE]
         IN  [(CHOOSE r \in MCD_resumeDma(off, c) : TRUE) EXCEPT !.chStatus[c] = "HALTED"]

MCD_continDma(m, c) ==
    IF c \notin Channels THEN m ELSE [m EXCEPT !.en[c] = TRUE, !.chStatus[c] = "RUNNING"]

(* The status of a task that was found disabled is DONE, once it is asked. *)
MCD_dmaStatus(m, c) ==
    IF c \notin Channels THEN {m}
    ELSE IF m.chStatus[c] \notin {"IDLE", "RUNNING"} THEN {m}
    ELSE IF m.en[c] THEN {[m EXCEPT !.chStatus[c] = s] : s \in {"IDLE", "RUNNING"}}
    ELSE {[m EXCEPT !.chStatus[c] = "DONE"]}

-----------------------------------------------------------------------------
(* Hardware: a task signals an interrupt and goes on, or stops at its end  *)
(* or at a descriptor that is not ready.                                   *)
TaskInterrupt(c) ==
    /\ mcd.en[c] /\ mcd.debug # c
    /\ pending' = pending \cup {c}
    /\ raised' = [raised EXCEPT ![c] = tab.req[c]]
    /\ \E on \in BOOLEAN : mcd' = [mcd EXCEPT !.en[c] = on]
    /\ UNCHANGED <<tab, fec, drv, main>>

fec_rx_continue(m) == MCD_continDma(m, dma_get_channel(tab, FecRx))
fec_tx_continue(m) == MCD_continDma(m, dma_get_channel(tab, FecTx))

(* dma_interrupt_handler.  Of the handlers only the FEC receiver's changes *)
(* the state of the DMA: it continues its task if it finds frames, and if  *)
(* one of them is answered, fec_send continues the transmitter's as well.  *)
dma_interrupt_handler ==
    /\ pending # {}
    /\ pending' = {} /\ raised' = [c \in Channels |-> FREE]
    /\ \/ UNCHANGED mcd
       \/ /\ \E c \in pending : tab.handler[c] = FecRx
          /\ \E answered \in BOOLEAN :
                mcd' = fec_rx_continue(IF answered THEN fec_tx_continue(mcd) ELSE mcd)
    /\ UNCHANGED <<tab, fec, drv, main>>

-----------------------------------------------------------------------------
Foreground == main = NONE /\ pending = {}

(* fec_rx_start, fec_tx_start: what set_initiator answers is ignored. *)
Acquired(t, r) == dma_set_channel(dma_set_initiator(t, r), r)
Started(m, t, r) == MCD_startDma(m, dma_get_channel(t, r), dma_get_initiator(t, r))

fec_eth_setup ==
    /\ Foreground /\ fec = "stopped"
    /\ fec' = "up"
    /\ tab' = Acquired(Acquired(tab, FecRx), FecTx)
    /\ mcd' = Started(Started(mcd, tab', FecRx), tab', FecTx)
    /\ UNCHANGED <<pending, raised, drv, main>>

(* fec_tx_stop, fec_rx_stop: what they leave of the tables. *)
Released(t, r) == dma_free_channel(dma_free_initiator(t, r), r)

(* fec_eth_stop at IPL 7: a task that signals meanwhile is not heard until *)
(* the end.  Mutant: without set_ipl(7), the receiver is continued after   *)
(* it has been killed.                                                     *)
fec_eth_stop_Interruptible ==
    /\ Foreground /\ fec = "up"
    /\ fec' = "stopped"
    /\ tab' = Released(Released(tab, FecTx), FecRx)
    /\ \E late \in SUBSET (ChannelsOf(tab, FecRx)) :
          mcd' = IF late = {} THEN MCD_killDma(MCD_killDma(mcd, dma_get_channel(tab, FecTx)),
                                               dma_get_channel(tab, FecRx))
                 ELSE MCD_continDma(MCD_killDma(MCD_killDma(mcd, dma_get_channel(tab, FecTx)),
                                                dma_get_channel(tab, FecRx)),
                                    dma_get_channel(tab, FecRx))
    /\ UNCHANGED <<pending, raised, drv, main>>

fec_eth_stop ==
    /\ Foreground /\ fec = "up"
    /\ fec' = "stopped"
    /\ tab' = Released(Released(tab, FecTx), FecRx)
    /\ mcd' = MCD_killDma(MCD_killDma(mcd, dma_get_channel(tab, FecTx)),
                          dma_get_channel(tab, FecRx))
    /\ \E late \in SUBSET {c \in ChannelsOf(tab, FecRx) \cup ChannelsOf(tab, FecTx) :
                             mcd.en[c] /\ mcd.debug # c} :
          /\ pending' = late
          /\ raised' = [c \in Channels |-> IF c \in late THEN tab.req[c] ELSE raised[c]]
    /\ UNCHANGED <<drv, main>>

(* fec_send in the foreground, which does not ask whether the FEC is up. *)
fec_send ==
    /\ Foreground
    /\ mcd' = fec_tx_continue(mcd)
    /\ UNCHANGED <<tab, pending, raised, fec, drv, main>>

-----------------------------------------------------------------------------
(* Drivers use the interface as the FEC driver does, and look at what it   *)
(* answers.                                                                *)
Open(d) ==
    /\ Foreground /\ drv[d] = "closed"
    /\ Accepts(tab, d) /\ ChannelsOf(tab, FREE) # {}
    /\ drv' = [drv EXCEPT ![d] = "open"]
    /\ tab' = Acquired(tab, d)
    /\ mcd' = Started(mcd, tab', d)
    /\ UNCHANGED <<pending, raised, fec, main>>

OpenWithoutChannel(d) ==
    /\ Foreground /\ drv[d] = "closed"
    /\ Accepts(tab, d) /\ ChannelsOf(tab, FREE) = {}
    /\ tab' = dma_free_initiator(dma_set_initiator(tab, d), d)
    /\ UNCHANGED <<mcd, pending, raised, fec, drv, main>>

Poll(d) ==
    /\ Foreground /\ drv[d] # "closed"
    /\ mcd' \in MCD_dmaStatus(mcd, dma_get_channel(tab, d))
    /\ UNCHANGED <<tab, pending, raised, fec, drv, main>>

Close(d) ==
    /\ Foreground /\ drv[d] # "closed"
    /\ drv' = [drv EXCEPT ![d] = "closed"]
    /\ mcd' = MCD_killDma(mcd, dma_get_channel(tab, d))
    /\ tab' = Released(tab, d)
    /\ UNCHANGED <<pending, raised, fec, main>>

(* MCD_pauseDma: the test of the enable bit, then the debug unit.  No more *)
(* than one channel at a time is paused ("extremely important").           *)
PauseTest(d) ==
    /\ Foreground /\ drv[d] = "open" /\ \A e \in Drivers : drv[e] # "paused"
    /\ mcd.en[dma_get_channel(tab, d)]
    /\ main' = dma_get_channel(tab, d)
    /\ drv' = [drv EXCEPT ![d] = "paused"]
    /\ UNCHANGED <<tab, mcd, pending, raised, fec>>

PauseFreeze ==
    /\ main # NONE
    /\ main' = NONE
    /\ mcd' = [mcd EXCEPT !.debug = main, !.chStatus[main] = "PAUSED"]
    /\ UNCHANGED <<tab, pending, raised, fec, drv>>

Resume(d) ==
    /\ Foreground /\ drv[d] = "paused"
    /\ drv' = [drv EXCEPT ![d] = "open"]
    /\ mcd' \in MCD_resumeDma(mcd, dma_get_channel(tab, d))
    /\ UNCHANGED <<tab, pending, raised, fec, main>>

-----------------------------------------------------------------------------
fec_driver == fec_eth_setup \/ fec_eth_stop \/ fec_send

driver_interface ==
    \/ \E d \in Drivers : Open(d) \/ OpenWithoutChannel(d) \/ Poll(d) \/ Close(d)
    \/ \E d \in Pausers : PauseTest(d) \/ Resume(d)
    \/ PauseFreeze

Next ==
    \/ \E c \in Channels : TaskInterrupt(c)
    \/ dma_interrupt_handler
    \/ fec_driver
    \/ driver_interface

Spec == Init /\ [][Next]_vars

-----------------------------------------------------------------------------
(* A task that runs is somebody's: its channel has a requestor, whose      *)
(* handler it calls, and the initiator it waits for is the one that is     *)
(* always that requestor's or that the multiplexer and the table give to   *)
(* it.  In particular a FEC that has been stopped has no task running,     *)
(* whatever interrupt was pending and whoever still sends, and no slot is  *)
(* taken from a task that uses it.                                         *)
InitiatorOf(r, i) ==
    IF r \in AlwaysActive THEN i = Fixed[r]
    ELSE i \in Multiplexed /\ tab.imcr[i] = r /\ tab.used_reqs[i] = r

RunningTaskOwned ==
    \A c \in Channels : mcd.en[c] =>
        /\ tab.req[c] # FREE /\ tab.handler[c] = tab.req[c]
        /\ InitiatorOf(tab.req[c], mcd.init[c])

(* An interrupt is answered by the handler of the one whose DMA raised it, *)
(* while it still holds the channel, or not at all, although channels are  *)
(* killed, freed and given to others while it is pending.                  *)
PendingForOwner ==
    \A c \in pending :
        tab.handler[c] # FREE => tab.handler[c] = raised[c] /\ tab.req[c] = raised[c]

(* Who has closed holds neither a channel nor an initiator's slot, so that *)
(* the shared slots do not run out; who is open holds exactly one of each, *)
(* or no slot if its initiator is always active.                           *)
ReleasedAll ==
    \A d \in Drivers :
        /\ Cardinality(SlotsOf(tab, d)) =
              (IF drv[d] = "closed" \/ d \in AlwaysActive THEN 0 ELSE 1)
        /\ Cardinality(ChannelsOf(tab, d)) = (IF drv[d] = "closed" THEN 0 ELSE 1)

(* The status of a channel says DONE, HALTED or NO_DMA only while nothing  *)
(* runs there, and RUNNING or IDLE of a finished task only until the next  *)
(* query; a killed DMA is reported HALTED until it is started again.       *)
StatusMatchesEngine ==
    \A c \in Channels :
        /\ mcd.chStatus[c] \in {"DONE", "HALTED", "NO_DMA"} => ~mcd.en[c]
        /\ tab.req[c] = FREE => mcd.chStatus[c] \in {"HALTED", "NO_DMA"}

(* "A DMA may be killed from any state, including paused state"            *)
(* (MCD_dmaApi.c:728): a task is frozen only while its channel is paused.  *)
FrozenIsPaused ==
    \A c \in Channels : mcd.en[c] /\ mcd.debug = c => mcd.chStatus[c] = "PAUSED"
=============================================================================
