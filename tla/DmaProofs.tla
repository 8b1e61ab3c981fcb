------------------------------- MODULE DmaProofs -------------------------------
(***************************************************************************)
(* Proofs about Dma, for any number of channels and any set of drivers:    *)
(* its type invariant; that an interrupt is answered by the one whose DMA  *)
(* raised it or by nobody; that the status a driver reads is that of the   *)
(* engine; that what a driver gave back is free in all tables; and, when   *)
(* the transmitter has a slot, that a task runs for its owner only.        *)
(***************************************************************************)
EXTENDS Dma, WellFoundedInduction, FiniteSetTheorems, TLAPS

Tables == [used_reqs : [Multiplexed -> Requestors \cup {FREE}],
           imcr : [Multiplexed -> Requestors \cup {FREE}],
           req : [Channels -> Requestors \cup {FREE}],
           handler : [Channels -> Requestors \cup {FREE}]]
States == {"NO_DMA", "IDLE", "RUNNING", "PAUSED", "HALTED", "DONE"}
Engines == [en : [Channels -> BOOLEAN], init : [Channels -> 0 .. 31],
            chStatus : [Channels -> States], debug : Channels \cup {NONE}]

Less == {p \in Nat \X Nat : p[1] < p[2]}

(* The least of a set of numbers is one of them. *)
LEMMA LeastIn ==
    ASSUME NEW S \in SUBSET Nat, S # {}
    PROVE  Min(S) \in S
<1>1. IsWellFoundedOn(Less, Nat)
  BY NatLessThanWellFounded DEF OpToRel, Less
<1>2. PICK x \in S : \A y \in S : ~ (<<y, x>> \in Less)
  BY <1>1, WFMin
<1>3. \E z \in S : \A y \in S : z <= y
  <2>1. \A y \in S : ~(y < x)
    BY <1>2 DEF Less
  <2> QED
    BY <2>1
<1>4. (CHOOSE z \in S : \A y \in S : z <= y) \in S
  BY <1>3, Zenon
<1> QED
  BY <1>4 DEF Min

-----------------------------------------------------------------------------
(* Tables stay tables, whatever slot and channel the searches find. *)
LEMMA ChannelFound ==
    ASSUME NEW t \in Tables, NEW r
    PROVE  dma_get_channel(t, r) \in Channels \cup {NONE}
<1>1. ChannelsOf(t, r) \in SUBSET Nat /\ ChannelsOf(t, r) \subseteq Channels
  BY DmaAssumption DEF ChannelsOf, Channels
<1>2. ChannelsOf(t, r) # {} => Min(ChannelsOf(t, r)) \in ChannelsOf(t, r)
  BY <1>1, LeastIn
<1> QED
  BY <1>1, <1>2 DEF dma_get_channel

LEMMA FixedNumbers == \A r \in DOMAIN Fixed : Fixed[r] \in 0 .. 15
BY DEF Fixed

LEMMA InitiatorFound ==
    ASSUME NEW t \in Tables, NEW r
    PROVE  dma_get_initiator(t, r) \in 0 .. 31
<1>1. SlotsOf(t, r) \in SUBSET Nat /\ SlotsOf(t, r) \subseteq 0 .. 31
  BY DEF SlotsOf, Multiplexed
<1>2. SlotsOf(t, r) # {} => Min(SlotsOf(t, r)) \in SlotsOf(t, r)
  BY <1>1, LeastIn
<1> QED
  BY <1>1, <1>2, FixedNumbers DEF dma_get_initiator

Paired(t) == t.handler = t.req

LEMMA SetInitiator ==
    ASSUME NEW t \in Tables, NEW r \in Requestors
    PROVE  /\ dma_set_initiator(t, r) \in Tables
           /\ dma_set_initiator(t, r).req = t.req
           /\ dma_set_initiator(t, r).handler = t.handler
<1> DEFINE s == SlotFor(t, r)
<1>1. CASE s = 0
  BY <1>1 DEF dma_set_initiator
<1>2. CASE s # 0
  <2>1. dma_set_initiator(t, r) = [t EXCEPT !.used_reqs[s] = r, !.imcr[s] = r]
    BY <1>2 DEF dma_set_initiator
  <2> HIDE DEF s
  <2>2. dma_set_initiator(t, r) =
            [used_reqs |-> [t.used_reqs EXCEPT ![s] = r], imcr |-> [t.imcr EXCEPT ![s] = r],
             req |-> t.req, handler |-> t.handler]
    BY <2>1 DEF Tables
  <2>3. /\ [t.used_reqs EXCEPT ![s] = r] \in [Multiplexed -> Requestors \cup {FREE}]
        /\ [t.imcr EXCEPT ![s] = r] \in [Multiplexed -> Requestors \cup {FREE}]
    BY DEF Tables
  <2> QED
    BY <2>2, <2>3 DEF Tables
<1> QED
  BY <1>1, <1>2

LEMMA FreeInitiator ==
    ASSUME NEW t \in Tables, NEW r
    PROVE  /\ dma_free_initiator(t, r) \in Tables
           /\ dma_free_initiator(t, r).req = t.req
           /\ dma_free_initiator(t, r).handler = t.handler
<1> DEFINE s == Min(SlotsOf(t, r))
<1>1. CASE SlotsOf(t, r) = {}
  BY <1>1 DEF dma_free_initiator
<1>2. CASE SlotsOf(t, r) # {}
  <2>1. dma_free_initiator(t, r) = [t EXCEPT !.used_reqs[s] = FREE]
    BY <1>2 DEF dma_free_initiator
  <2> HIDE DEF s
  <2> QED
    BY <2>1 DEF Tables
<1> QED
  BY <1>1, <1>2

LEMMA SetChannel ==
    ASSUME NEW t \in Tables, Paired(t), NEW r \in Requestors
    PROVE  dma_set_channel(t, r) \in Tables /\ Paired(dma_set_channel(t, r))
<1> DEFINE c == Min(ChannelsOf(t, FREE))
<1>1. CASE ChannelsOf(t, r) # {} \/ ChannelsOf(t, FREE) = {}
  BY <1>1 DEF dma_set_channel
<1>2. CASE ~(ChannelsOf(t, r) # {} \/ ChannelsOf(t, FREE) = {})
  <2>1. dma_set_channel(t, r) = [t EXCEPT !.req[c] = r, !.handler[c] = r]
    BY <1>2 DEF dma_set_channel
  <2> HIDE DEF c
  <2>2. dma_set_channel(t, r) =
            [used_reqs |-> t.used_reqs, imcr |-> t.imcr,
             req |-> [t.req EXCEPT ![c] = r], handler |-> [t.req EXCEPT ![c] = r]]
    BY <2>1 DEF Tables, Paired
  <2>3. [t.req EXCEPT ![c] = r] \in [Channels -> Requestors \cup {FREE}]
    BY DEF Tables
  <2> QED
    BY <2>2, <2>3 DEF Tables, Paired
<1> QED
  BY <1>1, <1>2

LEMMA FreeChannel ==
    ASSUME NEW t \in Tables, Paired(t), NEW r
    PROVE  /\ dma_free_channel(t, r) \in Tables /\ Paired(dma_free_channel(t, r))
           /\ \A c \in Channels : dma_free_channel(t, r).handler[c] \in {t.handler[c], FREE}
<1> DEFINE d == dma_get_channel(t, r)
<1>1. CASE ChannelsOf(t, r) = {}
  BY <1>1 DEF dma_free_channel
<1>2. CASE ChannelsOf(t, r) # {}
  <2>1. dma_free_channel(t, r) = [t EXCEPT !.req[d] = FREE, !.handler[d] = FREE]
    BY <1>2 DEF dma_free_channel
  <2> HIDE DEF d
  <2>2. dma_free_channel(t, r) =
            [used_reqs |-> t.used_reqs, imcr |-> t.imcr,
             req |-> [t.req EXCEPT ![d] = FREE], handler |-> [t.req EXCEPT ![d] = FREE]]
    BY <2>1 DEF Tables, Paired
  <2>3. [t.req EXCEPT ![d] = FREE] \in [Channels -> Requestors \cup {FREE}]
    BY DEF Tables
  <2> QED
    BY <2>2, <2>3 DEF Tables, Paired
<1> QED
  BY <1>1, <1>2

LEMMA AcquiredFacts ==
    ASSUME NEW t \in Tables, Paired(t), NEW r \in Requestors
    PROVE  Acquired(t, r) \in Tables /\ Paired(Acquired(t, r))
BY SetInitiator, SetChannel DEF Acquired, Paired

LEMMA ReleasedFacts ==
    ASSUME NEW t \in Tables, Paired(t), NEW r
    PROVE  /\ Released(t, r) \in Tables /\ Paired(Released(t, r))
           /\ \A c \in Channels : Released(t, r).handler[c] \in {t.handler[c], FREE}
BY FreeInitiator, FreeChannel DEF Released, Paired

-----------------------------------------------------------------------------
(* The engine's registers and the status keep their types. *)
LEMMA StartFacts ==
    ASSUME NEW m \in Engines, NEW c, NEW i \in 0 .. 31
    PROVE  MCD_startDma(m, c, i) \in Engines
BY DEF MCD_startDma, Engines, States

LEMMA ContinFacts ==
    ASSUME NEW m \in Engines, NEW c
    PROVE  MCD_continDma(m, c) \in Engines
BY DEF MCD_continDma, Engines, States

LEMMA ResumeFacts ==
    ASSUME NEW m \in Engines, NEW c, NEW n \in MCD_resumeDma(m, c)
    PROVE  n \in Engines
<1>1. CASE c \notin Channels \/ ~m.en[c]
  BY <1>1 DEF MCD_resumeDma
<1>2. ASSUME NEW s \in {"IDLE", "RUNNING"}, n = [m EXCEPT !.debug = NONE, !.chStatus[c] = s]
      PROVE  n \in Engines
  <2>1. n = [en |-> m.en, init |-> m.init, chStatus |-> [m.chStatus EXCEPT ![c] = s],
             debug |-> NONE]
    BY <1>2 DEF Engines
  <2>2. [m.chStatus EXCEPT ![c] = s] \in [Channels -> States]
    BY DEF Engines, States
  <2> QED
    BY <2>1, <2>2 DEF Engines
<1> QED
  BY <1>1, <1>2 DEF MCD_resumeDma

LEMMA StatusFacts ==
    ASSUME NEW m \in Engines, NEW c, NEW n \in MCD_dmaStatus(m, c)
    PROVE  n \in Engines
BY DEF MCD_dmaStatus, Engines, States

LEMMA KillFacts ==
    ASSUME NEW m \in Engines, NEW c
    PROVE  MCD_killDma(m, c) \in Engines
<1>1. CASE c \notin Channels
  BY <1>1 DEF MCD_killDma
<1>2. CASE c \in Channels
  <2> DEFINE off == [m EXCEPT !.en[c] = FALSE]
  <2>1. off \in Engines /\ ~off.en[c]
    BY <1>2 DEF Engines
  <2>2. MCD_resumeDma(off, c) = {off}
    BY <2>1 DEF MCD_resumeDma
  <2>3. MCD_killDma(m, c) = [off EXCEPT !.chStatus[c] = "HALTED"]
    BY <1>2, <2>2 DEF MCD_killDma
  <2> HIDE DEF off
  <2> QED
    BY <1>2, <2>1, <2>3 DEF Engines, States
<1> QED
  BY <1>1, <1>2

LEMMA StartedFacts ==
    ASSUME NEW m \in Engines, NEW t \in Tables, NEW r
    PROVE  Started(m, t, r) \in Engines
BY StartFacts, InitiatorFound DEF Started

-----------------------------------------------------------------------------
(* The inductive invariant: a channel's requestor and handler go together, *)
(* and a pending interrupt belongs to the handler of its channel, if any.  *)
DmaInv ==
    /\ TypeOK
    /\ Paired(tab)
    /\ \A c \in pending : tab.handler[c] \in {raised[c], FREE}

LEMMA Parts ==
    TypeOK <=> /\ tab \in Tables /\ mcd \in Engines
               /\ pending \subseteq Channels
               /\ raised \in [Channels -> Requestors \cup {FREE}]
               /\ fec \in {"stopped", "up"}
               /\ drv \in [Drivers -> {"closed", "open", "paused"}]
               /\ main \in Channels \cup {NONE}
BY DEF TypeOK, Tables, Engines, States

LEMMA DmaInit == Init => DmaInv
<1> SUFFICES ASSUME Init PROVE DmaInv
  OBVIOUS
<1>1. tab \in Tables /\ Paired(tab) /\ mcd \in Engines
  BY DEF Init, Tables, Engines, States, Paired
<1> QED
  BY <1>1, Parts DEF Init, DmaInv

LEMMA FecRequestors == FecRx \in Requestors /\ FecTx \in Requestors /\ Drivers \subseteq Requestors
BY DEF Requestors

(* The hardware, the interrupt, and what changes only the engine. *)
LEMMA EngineSteps ==
    ASSUME DmaInv,
           \/ \E c \in Channels : TaskInterrupt(c)
           \/ dma_interrupt_handler
           \/ \E d \in Drivers : Poll(d)
           \/ \E d \in Pausers : PauseTest(d) \/ Resume(d)
           \/ PauseFreeze
           \/ fec_send
    PROVE  DmaInv'
<1>1. /\ tab \in Tables /\ mcd \in Engines /\ Paired(tab)
  BY Parts DEF DmaInv
<1>2. ASSUME NEW c \in Channels, TaskInterrupt(c) PROVE DmaInv'
  <2>1. mcd' \in Engines
    BY <1>1, <1>2 DEF TaskInterrupt, Engines
  <2>2. raised' = [raised EXCEPT ![c] = tab.handler[c]] /\ tab.handler[c] \in Requestors \cup {FREE}
    BY <1>1, <1>2 DEF TaskInterrupt, Paired, Tables
  <2>3. \A d \in pending' : tab.handler[d] \in {raised'[d], FREE}
    BY <1>2, <2>2 DEF TaskInterrupt, DmaInv, TypeOK
  <2>4. /\ tab' = tab /\ fec' = fec /\ drv' = drv /\ main' = main
        /\ pending' \subseteq Channels /\ raised' \in [Channels -> Requestors \cup {FREE}]
    BY <1>2, <2>2 DEF TaskInterrupt, DmaInv, TypeOK
  <2> QED
    BY <1>1, <2>1, <2>3, <2>4, Parts DEF DmaInv, TypeOK, Tables, Engines, States
<1>3. ASSUME dma_interrupt_handler PROVE DmaInv'
  <2>1. mcd' \in Engines
    BY <1>1, <1>3, ContinFacts DEF dma_interrupt_handler, fec_rx_continue, fec_tx_continue
  <2>2. /\ pending' = {} /\ raised' \in [Channels -> Requestors \cup {FREE}]
        /\ tab' = tab /\ fec' = fec /\ drv' = drv /\ main' = main
    BY <1>3 DEF dma_interrupt_handler
  <2> QED
    BY <1>1, <2>1, <2>2 DEF DmaInv, Paired, TypeOK, Tables, Engines, States
<1>4. ASSUME NEW d \in Drivers, Poll(d) PROVE DmaInv'
  <2>1. mcd' \in Engines
    BY <1>1, <1>4, StatusFacts DEF Poll
  <2> QED
    BY <1>1, <1>4, <2>1 DEF DmaInv, Poll, Foreground, TypeOK, Tables, Engines, States
<1>5. ASSUME NEW d \in Pausers, PauseTest(d) PROVE DmaInv'
  <2>1. main' \in Channels \cup {NONE}
    BY <1>1, <1>5, ChannelFound DEF PauseTest
  <2> QED
    BY <1>1, <1>5, <2>1 DEF DmaInv, PauseTest, Foreground, TypeOK, Tables, Engines, States
<1>6. ASSUME NEW d \in Pausers, Resume(d) PROVE DmaInv'
  <2>1. mcd' \in Engines
    BY <1>1, <1>6, ResumeFacts DEF Resume
  <2> QED
    BY <1>1, <1>6, <2>1 DEF DmaInv, Resume, Foreground, TypeOK, Tables, Engines, States
<1>7. ASSUME PauseFreeze PROVE DmaInv'
  <2>1. mcd' \in Engines /\ main' = NONE
    BY <1>1, <1>7 DEF PauseFreeze, DmaInv, TypeOK, Engines, States
  <2> QED
    BY <1>1, <1>7, <2>1 DEF DmaInv, PauseFreeze, TypeOK, Tables, Engines, States
<1>8. ASSUME fec_send PROVE DmaInv'
  <2>1. mcd' \in Engines
    BY <1>1, <1>8, ContinFacts DEF fec_send, fec_tx_continue
  <2> QED
    BY <1>1, <1>8, <2>1 DEF DmaInv, fec_send, Foreground, TypeOK, Tables, Engines, States
<1> QED
  BY <1>2, <1>3, <1>4, <1>5, <1>6, <1>7, <1>8

(* Those who take and give back channels do so with none pending. *)
LEMMA TakenOrReleased ==
    ASSUME DmaInv, Foreground,
           tab' \in Tables, Paired(tab'), mcd' \in Engines,
           pending' = pending, raised' = raised, main' = main,
           fec' \in {"stopped", "up"},
           drv' \in [Drivers -> {"closed", "open", "paused"}]
    PROVE  DmaInv'
<1>1. pending' = {} /\ Paired(tab)'
  BY DEF Foreground, Paired
<1>2. TypeOK'
  BY DEF DmaInv, TypeOK, Tables, Engines, States
<1> QED
  BY <1>1, <1>2 DEF DmaInv

LEMMA FecSteps ==
    ASSUME DmaInv, fec_driver
    PROVE  DmaInv'
<1>1. tab \in Tables /\ mcd \in Engines /\ Paired(tab)
  BY Parts DEF DmaInv
<1>2. CASE fec_eth_setup
  <2>1. Acquired(tab, FecRx) \in Tables /\ Paired(Acquired(tab, FecRx))
    BY <1>1, AcquiredFacts, FecRequestors
  <2>2. tab' \in Tables /\ Paired(tab')
    BY <1>2, <2>1, AcquiredFacts, FecRequestors DEF fec_eth_setup
  <2>3. Started(mcd, tab', FecRx) \in Engines
    BY <1>1, <2>2, StartedFacts
  <2>4. mcd' \in Engines
    BY <1>2, <2>2, <2>3, StartedFacts DEF fec_eth_setup
  <2> QED
    BY <1>2, <2>2, <2>4, TakenOrReleased DEF fec_eth_setup, DmaInv, TypeOK
<1>3. CASE fec_eth_stop
  <2>1. /\ Released(tab, FecTx) \in Tables /\ Paired(Released(tab, FecTx))
        /\ \A c \in Channels : Released(tab, FecTx).handler[c] \in {tab.handler[c], FREE}
    BY <1>1, ReleasedFacts
  <2>2. /\ tab' \in Tables /\ Paired(tab')
        /\ \A c \in Channels :
              tab'.handler[c] \in {Released(tab, FecTx).handler[c], FREE}
    BY <1>3, <2>1, ReleasedFacts DEF fec_eth_stop
  <2>3. MCD_killDma(mcd, dma_get_channel(tab, FecTx)) \in Engines
    BY <1>1, KillFacts
  <2>4. mcd' \in Engines
    BY <1>3, <2>3, KillFacts DEF fec_eth_stop
  <2>5. PICK late \in SUBSET {c \in ChannelsOf(tab, FecRx) \cup ChannelsOf(tab, FecTx) :
                                mcd.en[c] /\ mcd.debug # c} :
            /\ pending' = late
            /\ raised' = [c \in Channels |-> IF c \in late THEN tab.req[c] ELSE raised[c]]
    BY <1>3 DEF fec_eth_stop
  <2>6. pending' \subseteq Channels
    BY <2>5 DEF ChannelsOf
  <2>7. raised' \in [Channels -> Requestors \cup {FREE}]
    BY <1>1, <2>5 DEF DmaInv, TypeOK, Tables
  <2>8. \A c \in pending' : tab'.handler[c] \in {raised'[c], FREE}
    BY <1>1, <2>1, <2>2, <2>5, <2>6 DEF Paired
  <2>9. fec' = "stopped" /\ drv' = drv /\ main' = main
    BY <1>3 DEF fec_eth_stop
  <2>10. TypeOK'
    BY <2>2, <2>4, <2>6, <2>7, <2>9 DEF DmaInv, TypeOK, Tables, Engines, States
  <2> QED
    BY <2>2, <2>8, <2>10 DEF DmaInv, Paired
<1> QED
  BY <1>2, <1>3, EngineSteps DEF fec_driver

LEMMA DriverSteps ==
    ASSUME DmaInv, NEW d \in Drivers, Open(d) \/ OpenWithoutChannel(d) \/ Close(d)
    PROVE  DmaInv'
<1>1. tab \in Tables /\ mcd \in Engines /\ Paired(tab) /\ d \in Requestors
  BY Parts, FecRequestors DEF DmaInv
<1>2. CASE Open(d)
  <2>1. tab' \in Tables /\ Paired(tab')
    BY <1>1, <1>2, AcquiredFacts DEF Open
  <2>2. mcd' \in Engines
    BY <1>1, <1>2, <2>1, StartedFacts DEF Open
  <2>3. drv' \in [Drivers -> {"closed", "open", "paused"}]
    BY <1>2 DEF Open, DmaInv, TypeOK
  <2> QED
    BY <1>2, <2>1, <2>2, <2>3, TakenOrReleased DEF Open, DmaInv, TypeOK
<1>3. CASE OpenWithoutChannel(d)
  <2>1. dma_set_initiator(tab, d) \in Tables /\ Paired(dma_set_initiator(tab, d))
    BY <1>1, SetInitiator DEF Paired
  <2>2. tab' \in Tables /\ Paired(tab')
    BY <1>3, <2>1, FreeInitiator DEF OpenWithoutChannel, Paired
  <2> QED
    BY <1>1, <1>3, <2>2, TakenOrReleased DEF OpenWithoutChannel, DmaInv, TypeOK
<1>4. CASE Close(d)
  <2>1. tab' \in Tables /\ Paired(tab')
    BY <1>1, <1>4, ReleasedFacts DEF Close
  <2>2. mcd' \in Engines
    BY <1>1, <1>4, KillFacts DEF Close
  <2>3. drv' \in [Drivers -> {"closed", "open", "paused"}]
    BY <1>4 DEF Close, DmaInv, TypeOK
  <2> QED
    BY <1>4, <2>1, <2>2, <2>3, TakenOrReleased DEF Close, DmaInv, TypeOK
<1> QED
  BY <1>2, <1>3, <1>4

LEMMA DmaNext == DmaInv /\ [Next]_vars => DmaInv'
<1> SUFFICES ASSUME DmaInv, [Next]_vars PROVE DmaInv'
  OBVIOUS
<1>1. CASE UNCHANGED vars
  BY <1>1 DEF vars, DmaInv, TypeOK, Paired
<1>2. CASE (\E c \in Channels : TaskInterrupt(c)) \/ dma_interrupt_handler
  BY <1>2, EngineSteps
<1>3. CASE fec_driver
  BY <1>3, FecSteps
<1>4. CASE driver_interface
  BY <1>4, EngineSteps, DriverSteps DEF driver_interface
<1> QED
  BY <1>1, <1>2, <1>3, <1>4 DEF Next

-----------------------------------------------------------------------------
(* Whatever slot, channel or nothing at all the searches of dma.c find,    *)
(* the tables hold requestors, and the engine is started with an initiator *)
(* of the multiplexer or none, and frozen on a channel that exists.        *)
THEOREM TypeCorrect == Spec => []TypeOK
<1>1. DmaInv => TypeOK
  BY DEF DmaInv
<1> QED
  BY <1>1, DmaInit, DmaNext, PTL DEF Spec

(* An interrupt that dma_interrupt_handler finds pending reaches the       *)
(* handler of the one whose DMA raised it or no handler, whenever channels *)
(* are freed and given to others.                                          *)
THEOREM InterruptsForOwner == Spec => []PendingForOwner
<1>1. DmaInv => PendingForOwner
  BY DEF DmaInv, PendingForOwner, Paired, TypeOK
<1> QED
  BY <1>1, DmaInit, DmaNext, PTL DEF Spec
-----------------------------------------------------------------------------
(* What each requestor holds.  Slots are exclusive where dma_set_initiator *)
(* does not look, and the search results are those of the tables.          *)
SlotSet(r) == {Slots(r)[k] : k \in DOMAIN Slots(r)}
AtMostOne(S) == \A x, y \in S : x = y
HoldsNone(t, r) == SlotsOf(t, r) = {} /\ ChannelsOf(t, r) = {}
HoldsOne(t, r) ==
    /\ IF r \in AlwaysActive THEN SlotsOf(t, r) = {}
       ELSE \E s \in Multiplexed : SlotsOf(t, r) = {s}
    /\ \E c \in Channels : ChannelsOf(t, r) = {c}

(* Every slot taken is one that its requestor asks for, and the            *)
(* multiplexer gives it to that requestor.                                 *)
TablesGood(t) ==
    /\ Paired(t)
    /\ \A s \in Multiplexed : t.used_reqs[s] # FREE =>
          t.imcr[s] = t.used_reqs[s] /\ s \in SlotSet(t.used_reqs[s])

LEMMA SlotLists ==
    ASSUME NEW r
    PROVE  \/ r = "FEC0_RX" /\ Slots(r) = <<16>>
           \/ r = "FEC0_TX" /\ Slots(r) = <<17>>
           \/ r = "FEC1_RX" /\ Slots(r) = <<20>>
           \/ Slots(r) = <<21, 25, 31>>
           \/ Slots(r) = <<29, 21>>
           \/ \E s \in 24 .. 31 : Slots(r) = <<s>>
           \/ Slots(r) = <<>>
BY SMTT(30) DEF Slots

LEMMA SlotSets ==
    ASSUME NEW r
    PROVE  /\ \A k \in DOMAIN Slots(r) : Slots(r)[k] \in Multiplexed
           /\ DOMAIN Slots(r) \in SUBSET Nat
           /\ 16 \in SlotSet(r) => r = "FEC0_RX"
           /\ 17 \in SlotSet(r) => r = "FEC0_TX"
           /\ 20 \in SlotSet(r) => r = "FEC1_RX"
<1>1. CASE r = "FEC0_RX" /\ Slots(r) = <<16>>
  BY <1>1 DEF SlotSet, Multiplexed
<1>2. CASE r = "FEC0_TX" /\ Slots(r) = <<17>>
  BY <1>2 DEF SlotSet, Multiplexed
<1>3. CASE r = "FEC1_RX" /\ Slots(r) = <<20>>
  BY <1>3 DEF SlotSet, Multiplexed
<1>4. CASE Slots(r) = <<21, 25, 31>>
  BY <1>4 DEF SlotSet, Multiplexed
<1>5. CASE Slots(r) = <<29, 21>>
  BY <1>5 DEF SlotSet, Multiplexed
<1>6. ASSUME NEW s \in 24 .. 31, Slots(r) = <<s>>
      PROVE  /\ \A k \in DOMAIN Slots(r) : Slots(r)[k] = s
             /\ DOMAIN Slots(r) \in SUBSET Nat
  BY <1>6
<1>7. CASE \E s \in 24 .. 31 : Slots(r) = <<s>>
  BY <1>6, <1>7 DEF SlotSet, Multiplexed
<1>8. CASE Slots(r) = <<>>
  BY <1>8 DEF SlotSet
<1> QED
  BY <1>1, <1>2, <1>3, <1>4, <1>5, <1>7, <1>8, SlotLists

LEMMA FixedSlots ==
    /\ Slots("FEC0_RX")[1] = 16 /\ Slots("FEC0_TX")[1] = 17 /\ Slots("FEC1_RX")[1] = 20
    /\ SlotSet("FEC0_RX") = {16} /\ SlotSet("FEC0_TX") = {17} /\ SlotSet("FEC1_RX") = {20}
BY DEF Slots, SlotSet

LEMMA OneChannel ==
    ASSUME NEW t, NEW r, NEW c \in Channels, ChannelsOf(t, r) = {c}
    PROVE  dma_get_channel(t, r) = c
<1>1. {c} \in SUBSET Nat /\ {c} # {}
  BY DmaAssumption DEF Channels
<1>2. Min({c}) \in {c}
  BY <1>1, LeastIn
<1> QED
  BY <1>2 DEF dma_get_channel

(* The requestors with a fixed initiator have no slots to ask for. *)
LEMMA FixedHaveNoSlot ==
    ASSUME NEW r \in DOMAIN Fixed
    PROVE  Slots(r) = <<>> /\ r \notin {"FEC0_RX", "FEC0_TX", "FEC1_RX", "FEC1_TX"}
BY SMTT(60) DEF Fixed, Slots

LEMMA FixedTakeNone ==
    ASSUME NEW t, NEW r \in DOMAIN Fixed
    PROVE  SlotFor(t, r) = 0
<1>1. Slots(r) = <<>> /\ r \notin {"FEC0_RX", "FEC0_TX", "FEC1_RX"}
  BY FixedHaveNoSlot
<1>2. FreeSlots(t, r) = {}
  BY <1>1 DEF FreeSlots
<1> QED
  BY <1>1, <1>2 DEF SlotFor

LEMMA FecNotFixed == FecRx \notin DOMAIN Fixed /\ FecTx \notin DOMAIN Fixed
BY FixedHaveNoSlot, DmaAssumption

LEMMA ActiveAreFixed == AlwaysActive \subseteq DOMAIN Fixed
BY DEF AlwaysActive

LEMMA OneSlot ==
    ASSUME NEW t, NEW r, r \notin DOMAIN Fixed, NEW s \in Multiplexed, SlotsOf(t, r) = {s}
    PROVE  dma_get_initiator(t, r) = s
<1>1. {s} \in SUBSET Nat /\ {s} # {}
  BY DEF Multiplexed
<1>2. Min({s}) \in {s}
  BY <1>1, LeastIn
<1> QED
  BY <1>2 DEF dma_get_initiator

(* dma_set_initiator takes a slot that nobody uses: it looks, except for   *)
(* the three requestors whose slots nobody else asks for.                  *)
LEMMA SlotTaken ==
    ASSUME NEW t \in Tables, TablesGood(t), NEW r \in Requestors, SlotsOf(t, r) = {},
           SlotFor(t, r) # 0
    PROVE  /\ SlotFor(t, r) \in Multiplexed /\ SlotFor(t, r) \in SlotSet(r)
           /\ t.used_reqs[SlotFor(t, r)] = FREE
<1>1. CASE r \in {"FEC0_RX", "FEC0_TX", "FEC1_RX"}
  <2>1. /\ SlotFor(t, r) = Slots(r)[1] /\ SlotFor(t, r) \in {16, 17, 20}
        /\ SlotSet(r) = {SlotFor(t, r)}
    BY <1>1, FixedSlots DEF SlotFor
  <2>2. SlotFor(t, r) \in Multiplexed
    BY <2>1 DEF Multiplexed
  <2>3. ASSUME t.used_reqs[SlotFor(t, r)] # FREE PROVE FALSE
    <3>1. SlotFor(t, r) \in SlotSet(t.used_reqs[SlotFor(t, r)])
      BY <2>2, <2>3 DEF TablesGood
    <3>2. t.used_reqs[SlotFor(t, r)] = r
      BY <1>1, <2>1, <3>1, SlotSets
    <3> QED
      BY <2>2, <3>2 DEF SlotsOf
  <2> QED
    BY <2>1, <2>2, <2>3
<1>2. CASE r \notin {"FEC0_RX", "FEC0_TX", "FEC1_RX"}
  <2>1. FreeSlots(t, r) # {} /\ SlotFor(t, r) = Slots(r)[Min(FreeSlots(t, r))]
    BY <1>2 DEF SlotFor
  <2>2. FreeSlots(t, r) \in SUBSET Nat
    BY SlotSets DEF FreeSlots
  <2>3. Min(FreeSlots(t, r)) \in FreeSlots(t, r)
    BY <2>1, <2>2, LeastIn
  <2> QED
    BY <2>1, <2>3, SlotSets DEF FreeSlots, SlotSet
<1> QED
  BY <1>1, <1>2

-----------------------------------------------------------------------------
(* What taking and giving back does to the holdings of everybody. *)
SameHoldings(t, u, q) == SlotsOf(u, q) = SlotsOf(t, q) /\ ChannelsOf(u, q) = ChannelsOf(t, q)

SlotTakenOnly(t, u, r) ==
    /\ u \in Tables /\ TablesGood(u) /\ u.req = t.req
    /\ SlotFor(t, r) = 0 => SlotsOf(u, r) = {}
    /\ SlotFor(t, r) # 0 => SlotsOf(u, r) = {SlotFor(t, r)} /\ SlotFor(t, r) \in Multiplexed
    /\ \A s \in Multiplexed : t.used_reqs[s] # FREE => u.used_reqs[s] = t.used_reqs[s]
    /\ \A q : q \notin {r, FREE} => SlotsOf(u, q) = SlotsOf(t, q)
    /\ u.used_reqs = t.used_reqs \/ u.used_reqs = [t.used_reqs EXCEPT ![SlotFor(t, r)] = r]

LEMMA InitiatorTaken ==
    ASSUME NEW t \in Tables, TablesGood(t), NEW r \in Requestors, SlotsOf(t, r) = {}, r # FREE,
           NEW u, u = dma_set_initiator(t, r)
    PROVE  SlotTakenOnly(t, u, r)
<1>1. u \in Tables /\ u.req = t.req /\ u.handler = t.handler
  BY SetInitiator
<1> DEFINE s == SlotFor(t, r)
<1>2. CASE s = 0
  BY <1>1, <1>2 DEF dma_set_initiator, SlotTakenOnly
<1>3. CASE s # 0
  <2>1. s \in Multiplexed /\ s \in SlotSet(r) /\ t.used_reqs[s] = FREE
    BY <1>3, SlotTaken
  <2>2. u = [t EXCEPT !.used_reqs[s] = r, !.imcr[s] = r]
    BY <1>3 DEF dma_set_initiator
  <2> HIDE DEF s, SlotTakenOnly
  <2>3. u.used_reqs = [t.used_reqs EXCEPT ![s] = r] /\ u.imcr = [t.imcr EXCEPT ![s] = r]
    BY <2>2 DEF Tables
  <2>4. /\ \A x \in Multiplexed \ {s} : u.used_reqs[x] = t.used_reqs[x] /\ u.imcr[x] = t.imcr[x]
        /\ u.used_reqs[s] = r /\ u.imcr[s] = r
    BY <2>1, <2>3 DEF Tables
  <2>5. TablesGood(u)
    BY <1>1, <2>1, <2>4 DEF TablesGood, Paired
  <2>6. SlotsOf(u, r) = {s} /\ \A q : q \notin {r, FREE} => SlotsOf(u, q) = SlotsOf(t, q)
    BY <2>1, <2>4 DEF SlotsOf
  <2> QED
    BY <1>1, <1>3, <2>1, <2>3, <2>4, <2>5, <2>6 DEF s, SlotTakenOnly
<1> QED
  BY <1>2, <1>3

LEMMA InitiatorFreed ==
    ASSUME NEW t \in Tables, TablesGood(t), NEW r, r # FREE, AtMostOne(SlotsOf(t, r)),
           NEW u, u = dma_free_initiator(t, r)
    PROVE  /\ u \in Tables /\ TablesGood(u) /\ u.req = t.req
           /\ u.used_reqs = [s \in Multiplexed |->
                                IF t.used_reqs[s] = r THEN FREE ELSE t.used_reqs[s]]
<1>1. u \in Tables /\ u.req = t.req /\ u.handler = t.handler
  BY FreeInitiator
<1> DEFINE s == Min(SlotsOf(t, r))
<1>2. CASE SlotsOf(t, r) = {}
  <2>1. u = t /\ \A x \in Multiplexed : t.used_reqs[x] # r
    BY <1>2 DEF dma_free_initiator, SlotsOf
  <2>2. t.used_reqs = [x \in Multiplexed |-> t.used_reqs[x]]
    BY DEF Tables
  <2>3. [x \in Multiplexed |-> t.used_reqs[x]] =
            [x \in Multiplexed |-> IF t.used_reqs[x] = r THEN FREE ELSE t.used_reqs[x]]
    BY <2>1
  <2> QED
    BY <2>1, <2>2, <2>3
<1>3. CASE SlotsOf(t, r) # {}
  <2>1. SlotsOf(t, r) \in SUBSET Nat
    BY DEF SlotsOf, Multiplexed
  <2>2. s \in SlotsOf(t, r)
    BY <1>3, <2>1, LeastIn
  <2>3. u = [t EXCEPT !.used_reqs[s] = FREE]
    BY <1>3 DEF dma_free_initiator
  <2> HIDE DEF s
  <2>4. s \in Multiplexed /\ \A x \in Multiplexed : t.used_reqs[x] = r <=> x = s
    BY <2>2 DEF SlotsOf, AtMostOne
  <2>5. u.used_reqs = [t.used_reqs EXCEPT ![s] = FREE] /\ u.imcr = t.imcr
    BY <2>3 DEF Tables
  <2>6. u.used_reqs = [x \in Multiplexed |->
                          IF t.used_reqs[x] = r THEN FREE ELSE t.used_reqs[x]]
    BY <2>4, <2>5 DEF Tables
  <2>7. TablesGood(u)
    BY <1>1, <2>5, <2>6 DEF TablesGood, Paired
  <2> QED
    BY <1>1, <2>6, <2>7
<1> QED
  BY <1>2, <1>3

LEMMA ChannelTaken ==
    ASSUME NEW t \in Tables, TablesGood(t), NEW r \in Requestors, ChannelsOf(t, r) = {}, r # FREE,
           NEW u, u = dma_set_channel(t, r)
    PROVE  /\ u \in Tables /\ TablesGood(u) /\ u.used_reqs = t.used_reqs
           /\ ChannelsOf(t, FREE) = {} => u.req = t.req
           /\ ChannelsOf(t, FREE) # {} =>
                 \E c \in ChannelsOf(t, FREE) : u.req = [t.req EXCEPT ![c] = r]
<1>1. u \in Tables /\ Paired(u)
  BY SetChannel DEF TablesGood
<1> DEFINE c == Min(ChannelsOf(t, FREE))
<1>2. CASE ChannelsOf(t, FREE) = {}
  BY <1>1, <1>2 DEF dma_set_channel
<1>3. CASE ChannelsOf(t, FREE) # {}
  <2>1. c \in ChannelsOf(t, FREE)
    BY <1>3, LeastIn, DmaAssumption DEF ChannelsOf, Channels
  <2>2. u = [t EXCEPT !.req[c] = r, !.handler[c] = r]
    BY <1>3 DEF dma_set_channel
  <2> HIDE DEF c
  <2>3. /\ u.req = [t.req EXCEPT ![c] = r] /\ u.used_reqs = t.used_reqs
        /\ u.imcr = t.imcr
    BY <2>2 DEF Tables
  <2> QED
    BY <1>1, <1>3, <2>1, <2>3 DEF TablesGood
<1> QED
  BY <1>2, <1>3

LEMMA ChannelFreed ==
    ASSUME NEW t \in Tables, TablesGood(t), NEW r, r # FREE, AtMostOne(ChannelsOf(t, r)),
           NEW u, u = dma_free_channel(t, r)
    PROVE  /\ u \in Tables /\ TablesGood(u) /\ u.used_reqs = t.used_reqs
           /\ u.req = [c \in Channels |-> IF t.req[c] = r THEN FREE ELSE t.req[c]]
<1>1. u \in Tables /\ Paired(u)
  BY FreeChannel DEF TablesGood
<1> DEFINE c == dma_get_channel(t, r)
<1>2. CASE ChannelsOf(t, r) = {}
  <2>1. u = t /\ \A x \in Channels : t.req[x] # r
    BY <1>2 DEF dma_free_channel, ChannelsOf
  <2>2. t.req = [x \in Channels |-> t.req[x]]
    BY DEF Tables
  <2>3. [x \in Channels |-> t.req[x]] =
            [x \in Channels |-> IF t.req[x] = r THEN FREE ELSE t.req[x]]
    BY <2>1
  <2> QED
    BY <2>1, <2>2, <2>3
<1>3. CASE ChannelsOf(t, r) # {}
  <2>1. c \in ChannelsOf(t, r)
    BY <1>3, LeastIn, DmaAssumption DEF ChannelsOf, Channels, dma_get_channel
  <2>2. u = [t EXCEPT !.req[c] = FREE, !.handler[c] = FREE]
    BY <1>3 DEF dma_free_channel
  <2> HIDE DEF c
  <2>3. c \in Channels /\ \A x \in Channels : t.req[x] = r <=> x = c
    BY <2>1 DEF ChannelsOf, AtMostOne
  <2>4. /\ u.req = [t.req EXCEPT ![c] = FREE] /\ u.used_reqs = t.used_reqs
        /\ u.imcr = t.imcr
    BY <2>2 DEF Tables
  <2>5. u.req = [x \in Channels |-> IF t.req[x] = r THEN FREE ELSE t.req[x]]
    BY <2>3, <2>4 DEF Tables
  <2> QED
    BY <1>1, <2>4, <2>5 DEF TablesGood
<1> QED
  BY <1>2, <1>3

HoldingsTaken(t, u, r) ==
    /\ u \in Tables /\ TablesGood(u)
    /\ \A q : q \notin {r, FREE} => SameHoldings(t, u, q)
    /\ SlotFor(t, r) = 0 => SlotsOf(u, r) = {}
    /\ SlotFor(t, r) # 0 => SlotsOf(u, r) = {SlotFor(t, r)} /\ SlotFor(t, r) \in Multiplexed
    /\ \A s \in Multiplexed : t.used_reqs[s] # FREE => u.used_reqs[s] = t.used_reqs[s]
    /\ \/ ChannelsOf(t, FREE) = {} /\ u.req = t.req
       \/ \E c \in ChannelsOf(t, FREE) :
             u.req = [t.req EXCEPT ![c] = r] /\ ChannelsOf(u, r) = {c}

LEMMA AcquiredHoldings ==
    ASSUME NEW t \in Tables, TablesGood(t), NEW r \in Requestors, r # FREE, HoldsNone(t, r),
           NEW u, u = Acquired(t, r)
    PROVE  HoldingsTaken(t, u, r)
<1> DEFINE v == dma_set_initiator(t, r)
<1>0. SlotTakenOnly(t, v, r)
  BY InitiatorTaken DEF HoldsNone
<1>1. v \in Tables /\ TablesGood(v) /\ v.req = t.req
  BY <1>0 DEF SlotTakenOnly
<1>2. \A q : ChannelsOf(v, q) = ChannelsOf(t, q)
  BY <1>1 DEF ChannelsOf
<1>3. /\ u \in Tables /\ TablesGood(u) /\ u.used_reqs = v.used_reqs
      /\ ChannelsOf(v, FREE) = {} => u.req = v.req
      /\ ChannelsOf(v, FREE) # {} =>
            \E c \in ChannelsOf(v, FREE) : u.req = [v.req EXCEPT ![c] = r]
  <2>1. u = dma_set_channel(v, r) /\ ChannelsOf(v, r) = {}
    BY <1>2 DEF Acquired, HoldsNone
  <2> HIDE DEF v
  <2> QED
    BY <1>1, <2>1, ChannelTaken
<1>4. \A q : SlotsOf(u, q) = SlotsOf(v, q)
  BY <1>3 DEF SlotsOf
<1>5. \/ ChannelsOf(t, FREE) = {} /\ u.req = t.req
      \/ \E c \in ChannelsOf(t, FREE) :
            /\ u.req = [t.req EXCEPT ![c] = r] /\ ChannelsOf(u, r) = {c}
            /\ \A q : q \notin {r, FREE} => ChannelsOf(u, q) = ChannelsOf(t, q)
  <2>1. CASE ChannelsOf(t, FREE) = {}
    BY <1>1, <1>2, <1>3, <2>1
  <2>2. CASE ChannelsOf(t, FREE) # {}
    <3>1. PICK c \in ChannelsOf(t, FREE) : u.req = [t.req EXCEPT ![c] = r]
      BY <1>1, <1>2, <1>3, <2>2
    <3>2. ChannelsOf(u, r) = {c} /\ \A q : q \notin {r, FREE} => ChannelsOf(u, q) = ChannelsOf(t, q)
      BY <3>1 DEF ChannelsOf, Tables, HoldsNone
    <3> QED
      BY <3>1, <3>2
  <2> QED
    BY <2>1, <2>2
<1>6. \A q : q \notin {r, FREE} => ChannelsOf(u, q) = ChannelsOf(t, q)
  BY <1>5 DEF ChannelsOf
<1>7. /\ SlotFor(t, r) = 0 => SlotsOf(v, r) = {}
      /\ SlotFor(t, r) # 0 => SlotsOf(v, r) = {SlotFor(t, r)} /\ SlotFor(t, r) \in Multiplexed
      /\ \A s \in Multiplexed : t.used_reqs[s] # FREE => v.used_reqs[s] = t.used_reqs[s]
      /\ \A q : q \notin {r, FREE} => SlotsOf(v, q) = SlotsOf(t, q)
  BY <1>0 DEF SlotTakenOnly
<1> QED
  BY <1>3, <1>4, <1>5, <1>6, <1>7 DEF SameHoldings, HoldingsTaken

HoldingsGivenBack(t, u, r) ==
    /\ u \in Tables /\ TablesGood(u) /\ HoldsNone(u, r)
    /\ \A q : q \notin {r, FREE} => SameHoldings(t, u, q)
    /\ u.req = [c \in Channels |-> IF t.req[c] = r THEN FREE ELSE t.req[c]]
    /\ \A s \in Multiplexed : t.used_reqs[s] # r => u.used_reqs[s] = t.used_reqs[s]

LEMMA ReleasedHoldings ==
    ASSUME NEW t \in Tables, TablesGood(t), NEW r, r # FREE,
           AtMostOne(SlotsOf(t, r)), AtMostOne(ChannelsOf(t, r)),
           NEW u, u = Released(t, r)
    PROVE  HoldingsGivenBack(t, u, r)
<1> DEFINE v == dma_free_initiator(t, r)
<1>1. /\ v \in Tables /\ TablesGood(v) /\ v.req = t.req
      /\ v.used_reqs = [s \in Multiplexed |->
                           IF t.used_reqs[s] = r THEN FREE ELSE t.used_reqs[s]]
  BY InitiatorFreed
<1>2. AtMostOne(ChannelsOf(v, r))
  BY <1>1 DEF ChannelsOf
<1>3. /\ u \in Tables /\ TablesGood(u) /\ u.used_reqs = v.used_reqs
      /\ u.req = [c \in Channels |-> IF v.req[c] = r THEN FREE ELSE v.req[c]]
  <2>1. u = dma_free_channel(v, r)
    BY DEF Released
  <2> HIDE DEF v
  <2> QED
    BY <1>1, <1>2, <2>1, ChannelFreed
<1>4. u.req = [c \in Channels |-> IF t.req[c] = r THEN FREE ELSE t.req[c]]
  BY <1>1, <1>3
<1>5. HoldsNone(u, r) /\ \A q : q \notin {r, FREE} => SameHoldings(t, u, q)
  BY <1>1, <1>3, <1>4 DEF HoldsNone, SameHoldings, SlotsOf, ChannelsOf
<1> QED
  BY <1>1, <1>3, <1>4, <1>5 DEF HoldingsGivenBack

(* An initiator taken and given back, because there is no channel. *)
LEMMA InitiatorReturned ==
    ASSUME NEW t \in Tables, TablesGood(t), NEW r \in Requestors, r # FREE, SlotsOf(t, r) = {},
           NEW u, u = dma_free_initiator(dma_set_initiator(t, r), r)
    PROVE  u \in Tables /\ TablesGood(u) /\ u.req = t.req /\ u.used_reqs = t.used_reqs
<1> DEFINE v == dma_set_initiator(t, r)
           s == SlotFor(t, r)
<1>1. /\ v \in Tables /\ TablesGood(v) /\ v.req = t.req
      /\ SlotsOf(v, r) = {} \/ SlotsOf(v, r) = {s}
      /\ v.used_reqs = t.used_reqs \/ v.used_reqs = [t.used_reqs EXCEPT ![s] = r]
      /\ \A x \in Multiplexed : t.used_reqs[x] # FREE => v.used_reqs[x] = t.used_reqs[x]
  BY InitiatorTaken DEF SlotTakenOnly
<1>2. AtMostOne(SlotsOf(v, r))
  BY <1>1 DEF AtMostOne
<1> HIDE DEF s, v
<1>3. /\ u \in Tables /\ TablesGood(u) /\ u.req = v.req
      /\ u.used_reqs = [x \in Multiplexed |->
                           IF v.used_reqs[x] = r THEN FREE ELSE v.used_reqs[x]]
  BY <1>1, <1>2, InitiatorFreed DEF v
<1>4. ASSUME NEW x \in Multiplexed PROVE u.used_reqs[x] = t.used_reqs[x]
  <2>1. t.used_reqs[x] # r
    BY DEF SlotsOf
  <2>2. v.used_reqs[x] = t.used_reqs[x] \/ (v.used_reqs[x] = r /\ t.used_reqs[x] = FREE)
    BY <1>1 DEF Tables
  <2> QED
    BY <1>3, <2>1, <2>2
<1>5. u.used_reqs = t.used_reqs
  BY <1>3, <1>4 DEF Tables
<1> QED
  BY <1>1, <1>3, <1>5

-----------------------------------------------------------------------------
(* Tasks and their status.  The tables and the engine agree on a channel:  *)
(* a status that says nothing runs is right, a free channel is halted, and *)
(* an owned one waits for the initiator of its owner - if the transmitter  *)
(* of the FEC, which does not look at what dma_set_initiator answers, can  *)
(* always have one.                                                        *)
TxHasSlot == \E s \in SlotSet(FecTx) : \A d \in Drivers : s \notin SlotSet(d)

Initiates(t, r, i) ==
    IF r \in AlwaysActive THEN i = Fixed[r]
    ELSE i \in Multiplexed /\ t.used_reqs[i] = r

ChannelGood(t, m, c) ==
    /\ m.chStatus[c] \in {"DONE", "HALTED", "NO_DMA"} => ~m.en[c]
    /\ t.req[c] = FREE => m.chStatus[c] \in {"HALTED", "NO_DMA"}
    /\ TxHasSlot /\ t.req[c] # FREE => Initiates(t, t.req[c], m.init[c])

ChannelsGood(t, m) == \A c \in Channels : ChannelGood(t, m, c)

LEMMA NoChannel == NONE \notin Channels
BY DmaAssumption DEF NONE, Channels

(* The task of a requestor that has just got its channel is started.  In   *)
(* fec_eth_setup the tables w are already those after the second call.     *)
LEMMA StartKeepsGood ==
    ASSUME NEW t \in Tables, TablesGood(t), NEW r \in Requestors, r # FREE, HoldsNone(t, r),
           NEW u, u = Acquired(t, r), TxHasSlot => Accepts(t, r),
           NEW w, SameHoldings(u, w, r),
           NEW m \in Engines, ChannelsGood(t, m)
    PROVE  ChannelsGood(u, Started(m, w, r))
<1>1. /\ u \in Tables /\ TablesGood(u)
      /\ SlotFor(t, r) # 0 => SlotsOf(u, r) = {SlotFor(t, r)} /\ SlotFor(t, r) \in Multiplexed
      /\ \A s \in Multiplexed : t.used_reqs[s] # FREE => u.used_reqs[s] = t.used_reqs[s]
      /\ \/ ChannelsOf(t, FREE) = {} /\ u.req = t.req
         \/ \E c \in ChannelsOf(t, FREE) :
               u.req = [t.req EXCEPT ![c] = r] /\ ChannelsOf(u, r) = {c}
  BY AcquiredHoldings DEF HoldingsTaken
<1>2. CASE ChannelsOf(t, FREE) = {} /\ u.req = t.req
  <2>1. ChannelsOf(w, r) = {}
    BY <1>2 DEF SameHoldings, ChannelsOf, HoldsNone
  <2>2. Started(m, w, r) = m
    BY <2>1, NoChannel DEF Started, MCD_startDma, dma_get_channel
  <2>3. ASSUME NEW d \in Channels PROVE ChannelGood(u, m, d)
    <3>1. ChannelGood(t, m, d) /\ u.req[d] = t.req[d]
      BY <1>2 DEF ChannelsGood
    <3>2. t.req[d] # FREE /\ Initiates(t, t.req[d], m.init[d]) => Initiates(u, t.req[d], m.init[d])
      BY <1>1 DEF Initiates
    <3> QED
      BY <3>1, <3>2 DEF ChannelGood
  <2> QED
    BY <2>2, <2>3 DEF ChannelsGood
<1>3. ASSUME NEW c \in ChannelsOf(t, FREE),
             u.req = [t.req EXCEPT ![c] = r], ChannelsOf(u, r) = {c}
      PROVE  ChannelsGood(u, Started(m, w, r))
  <2> DEFINE i == dma_get_initiator(w, r)
  <2>1. c \in Channels /\ dma_get_channel(w, r) = c
    BY <1>3, OneChannel DEF SameHoldings, ChannelsOf
  <2>2. TxHasSlot => Initiates(u, r, i)
    <3> SUFFICES ASSUME TxHasSlot PROVE Initiates(u, r, i)
      OBVIOUS
    <3>1. CASE r \in AlwaysActive
      BY <3>1, ActiveAreFixed DEF Initiates, dma_get_initiator
    <3>2. CASE r \notin AlwaysActive
      <4>1. SlotFor(t, r) # 0 /\ r \notin DOMAIN Fixed
        BY <3>2, FixedTakeNone DEF Accepts
      <4>2. i = SlotFor(t, r)
        BY <1>1, <4>1, OneSlot DEF SameHoldings
      <4>3. SlotFor(t, r) \in SlotsOf(u, r)
        BY <1>1, <4>1
      <4> QED
        BY <3>2, <4>2, <4>3 DEF SlotsOf, Initiates
    <3> QED
      BY <3>1, <3>2
  <2>3. Started(m, w, r) = [m EXCEPT !.en[c] = TRUE, !.init[c] = i, !.chStatus[c] = "IDLE"]
    BY <2>1 DEF Started, MCD_startDma
  <2> HIDE DEF i
  <2>4. /\ Started(m, w, r).en = [m.en EXCEPT ![c] = TRUE]
        /\ Started(m, w, r).init = [m.init EXCEPT ![c] = i]
        /\ Started(m, w, r).chStatus = [m.chStatus EXCEPT ![c] = "IDLE"]
    BY <2>3 DEF Engines
  <2>5. ChannelGood(u, Started(m, w, r), c)
    <3>1. /\ Started(m, w, r).en[c] = TRUE /\ Started(m, w, r).init[c] = i
          /\ Started(m, w, r).chStatus[c] = "IDLE" /\ u.req[c] = r
      BY <1>3, <2>1, <2>4 DEF Tables, Engines
    <3> QED
      BY <2>2, <3>1 DEF ChannelGood
  <2>6. ASSUME NEW d \in Channels, d # c PROVE ChannelGood(u, Started(m, w, r), d)
    <3>1. ChannelGood(t, m, d)
      BY DEF ChannelsGood
    <3>2. u.req[d] = t.req[d]
      BY <1>3, <2>6 DEF Tables
    <3>3. /\ Started(m, w, r).en[d] = m.en[d] /\ Started(m, w, r).init[d] = m.init[d]
          /\ Started(m, w, r).chStatus[d] = m.chStatus[d]
      BY <2>4, <2>6 DEF Engines
    <3>4. ASSUME TxHasSlot, t.req[d] # FREE PROVE Initiates(u, t.req[d], m.init[d])
      BY <1>1, <3>1, <3>4 DEF ChannelGood, Initiates
    <3> QED
      BY <3>1, <3>2, <3>3, <3>4 DEF ChannelGood
  <2> QED
    BY <2>5, <2>6 DEF ChannelsGood
<1> QED
  BY <1>1, <1>2, <1>3

LEMMA Killed ==
    ASSUME NEW m \in Engines, NEW c \in Channels, NEW n, n = MCD_killDma(m, c)
    PROVE  /\ n.en = [m.en EXCEPT ![c] = FALSE] /\ n.init = m.init
           /\ n.chStatus = [m.chStatus EXCEPT ![c] = "HALTED"]
<1> DEFINE off == [m EXCEPT !.en[c] = FALSE]
<1>1. off \in Engines /\ ~off.en[c]
  BY DEF Engines
<1>2. MCD_resumeDma(off, c) = {off}
  BY <1>1 DEF MCD_resumeDma
<1>3. n = [off EXCEPT !.chStatus[c] = "HALTED"]
  BY <1>2 DEF MCD_killDma
<1> QED
  BY <1>1, <1>3 DEF Engines

(* Whoever gives back its channel has killed the task there before. *)
LEMMA KillKeepsGood ==
    ASSUME NEW t \in Tables, TablesGood(t), NEW r, r # FREE,
           AtMostOne(SlotsOf(t, r)), AtMostOne(ChannelsOf(t, r)),
           NEW v, ChannelsOf(v, r) = ChannelsOf(t, r),
           NEW m \in Engines, ChannelsGood(t, m)
    PROVE  ChannelsGood(Released(t, r), MCD_killDma(m, dma_get_channel(v, r)))
<1> DEFINE u == Released(t, r)
           n == MCD_killDma(m, dma_get_channel(v, r))
<1>1. /\ u.req = [c \in Channels |-> IF t.req[c] = r THEN FREE ELSE t.req[c]]
      /\ \A s \in Multiplexed : t.used_reqs[s] # r => u.used_reqs[s] = t.used_reqs[s]
  BY ReleasedHoldings DEF HoldingsGivenBack
<1>2. ASSUME NEW c \in Channels, t.req[c] # r,
             n.en[c] = m.en[c], n.init[c] = m.init[c], n.chStatus[c] = m.chStatus[c]
      PROVE  ChannelGood(u, n, c)
  <2>1. ChannelGood(t, m, c) /\ u.req[c] = t.req[c]
    BY <1>1, <1>2 DEF ChannelsGood
  <2>2. Initiates(t, t.req[c], m.init[c]) => Initiates(u, t.req[c], m.init[c])
    BY <1>1, <1>2 DEF Initiates
  <2> HIDE DEF u, n
  <2> QED
    BY <1>2, <2>1, <2>2 DEF ChannelGood
<1>3. CASE ChannelsOf(t, r) = {}
  <2>1. n = m
    BY <1>3, NoChannel DEF MCD_killDma, dma_get_channel
  <2>2. \A c \in Channels : t.req[c] # r
    BY <1>3 DEF ChannelsOf
  <2> QED
    BY <1>2, <2>1, <2>2 DEF ChannelsGood
<1>4. CASE ChannelsOf(t, r) # {}
  <2>1. PICK c \in Channels : ChannelsOf(t, r) = {c}
    BY <1>4 DEF AtMostOne, ChannelsOf
  <2>2. dma_get_channel(v, r) = c
    BY <2>1, OneChannel
  <2>3. /\ n.en = [m.en EXCEPT ![c] = FALSE] /\ n.init = m.init
        /\ n.chStatus = [m.chStatus EXCEPT ![c] = "HALTED"]
    BY <2>2, Killed
  <2> HIDE DEF n, u
  <2>4. ChannelGood(u, n, c)
    <3>1. n.chStatus[c] = "HALTED" /\ ~n.en[c]
      BY <2>3 DEF Engines
    <3>2. u.req[c] = FREE
      BY <1>1, <2>1 DEF ChannelsOf
    <3> QED
      BY <3>1, <3>2 DEF ChannelGood
  <2>5. ASSUME NEW d \in Channels, d # c PROVE ChannelGood(u, n, d)
    <3>1. t.req[d] # r
      BY <2>1, <2>5 DEF ChannelsOf
    <3>2. n.en[d] = m.en[d] /\ n.init[d] = m.init[d] /\ n.chStatus[d] = m.chStatus[d]
      BY <2>3, <2>5 DEF Engines
    <3> QED
      BY <1>2, <3>1, <3>2
  <2> QED
    BY <2>4, <2>5 DEF ChannelsGood, n, u
<1> QED
  BY <1>3, <1>4

-----------------------------------------------------------------------------
(* The inductive invariant: drivers hold what their state says, the FEC    *)
(* nothing while it is stopped and at most one of each, every channel is   *)
(* good, and the one about to be frozen still has its owner.               *)
Owners ==
    /\ \A d \in Drivers : IF drv[d] = "closed" THEN HoldsNone(tab, d) ELSE HoldsOne(tab, d)
    /\ fec = "stopped" => HoldsNone(tab, FecRx) /\ HoldsNone(tab, FecTx)
    /\ \A r \in {FecRx, FecTx} : AtMostOne(SlotsOf(tab, r)) /\ AtMostOne(ChannelsOf(tab, r))

OwnInv ==
    /\ DmaInv
    /\ TablesGood(tab)
    /\ Owners
    /\ ChannelsGood(tab, mcd)
    /\ main # NONE => tab.req[main] # FREE

LEMMA Distinct ==
    /\ FecRx \in Requestors /\ FecTx \in Requestors /\ Drivers \subseteq Requestors
    /\ FecRx # FecTx /\ FecRx # FREE /\ FecTx # FREE
    /\ \A d \in Drivers : d # FREE /\ d # FecRx /\ d # FecTx
BY DmaAssumption, FecRequestors DEF FREE

LEMMA OwnInit == Init => OwnInv
<1> SUFFICES ASSUME Init PROVE OwnInv
  OBVIOUS
<1>1. \A r : r # FREE => HoldsNone(tab, r)
  BY DEF Init, HoldsNone, SlotsOf, ChannelsOf
<1>2. Owners
  BY <1>1, Distinct DEF Init, Owners, HoldsNone, AtMostOne
<1>3. TablesGood(tab) /\ ChannelsGood(tab, mcd)
  BY DEF Init, TablesGood, Paired, ChannelsGood, ChannelGood
<1> QED
  BY <1>2, <1>3, DmaInit DEF OwnInv, Init

(* A step that leaves the tables alone. *)
LEMMA SameTables ==
    ASSUME OwnInv, DmaInv', tab' = tab, fec' = fec, ChannelsGood(tab, mcd'),
           \A d \in Drivers : drv'[d] = "closed" <=> drv[d] = "closed",
           main' # NONE => tab.req[main'] # FREE
    PROVE  OwnInv'
<1>1. Owners'
  BY DEF OwnInv, Owners, HoldsNone, HoldsOne, SlotsOf, ChannelsOf, AtMostOne
<1>2. TablesGood(tab)' /\ ChannelsGood(tab, mcd)'
  BY DEF OwnInv, TablesGood, Paired, ChannelsGood, ChannelGood
<1> QED
  BY <1>1, <1>2 DEF OwnInv

(* The channel of an owner, as the searches find it. *)
LEMMA DriversChannel ==
    ASSUME OwnInv, NEW d \in Drivers, drv[d] # "closed"
    PROVE  /\ dma_get_channel(tab, d) \in Channels
           /\ tab.req[dma_get_channel(tab, d)] = d /\ d # FREE
<1>1. PICK c \in Channels : ChannelsOf(tab, d) = {c}
  BY DEF OwnInv, Owners, HoldsOne
<1>2. dma_get_channel(tab, d) = c
  BY <1>1, OneChannel
<1> QED
  BY <1>1, <1>2, Distinct DEF ChannelsOf

LEMMA OwnersTask ==
    ASSUME OwnInv, NEW c \in Channels, mcd.en[c] \/ tab.req[c] # FREE
    PROVE  tab.req[c] # FREE
BY DEF OwnInv, ChannelsGood, ChannelGood

(* A change of one channel's status and enable bit. *)
LEMMA OneChannelChanged ==
    ASSUME OwnInv, NEW m, NEW c \in Channels, tab.req[c] # FREE, m.init = mcd.init,
           \A d \in Channels \ {c} : m.en[d] = mcd.en[d] /\ m.chStatus[d] = mcd.chStatus[d],
           m.chStatus[c] \in {"DONE", "HALTED", "NO_DMA"} => ~m.en[c]
    PROVE  ChannelsGood(tab, m)
<1> SUFFICES ASSUME NEW d \in Channels PROVE ChannelGood(tab, m, d)
  BY DEF ChannelsGood
<1>1. ChannelGood(tab, mcd, d)
  BY DEF OwnInv, ChannelsGood
<1> QED
  BY <1>1 DEF ChannelGood

(* Continuing the task of a requestor: a channel it does not have is       *)
(* refused.                                                                *)
LEMMA ContinKeepsGood ==
    ASSUME tab \in Tables, NEW r, r # FREE, NEW m \in Engines, ChannelsGood(tab, m)
    PROVE  ChannelsGood(tab, MCD_continDma(m, dma_get_channel(tab, r)))
<1> DEFINE k == dma_get_channel(tab, r)
           n == MCD_continDma(m, k)
<1>1. CASE k \notin Channels
  BY <1>1 DEF MCD_continDma
<1>2. CASE k \in Channels
  <2>1. k \in ChannelsOf(tab, r)
    BY <1>2, NoChannel, LeastIn, DmaAssumption DEF dma_get_channel, ChannelsOf, Channels
  <2>2. n = [m EXCEPT !.en[k] = TRUE, !.chStatus[k] = "RUNNING"] /\ tab.req[k] # FREE
    BY <1>2, <2>1 DEF MCD_continDma, ChannelsOf
  <2> HIDE DEF n, k
  <2>3. /\ n.en = [m.en EXCEPT ![k] = TRUE] /\ n.init = m.init
        /\ n.chStatus = [m.chStatus EXCEPT ![k] = "RUNNING"]
    BY <2>2 DEF Engines
  <2>4. ASSUME NEW d \in Channels PROVE ChannelGood(tab, n, d)
    <3>1. ChannelGood(tab, m, d)
      BY DEF ChannelsGood
    <3>2. CASE d = k
      <4>1. n.chStatus[d] = "RUNNING" /\ n.init[d] = m.init[d]
        BY <1>2, <2>3, <3>2 DEF Engines
      <4> QED
        BY <2>2, <3>1, <3>2, <4>1 DEF ChannelGood
    <3>3. CASE d # k
      <4>1. n.en[d] = m.en[d] /\ n.chStatus[d] = m.chStatus[d] /\ n.init[d] = m.init[d]
        BY <2>3, <3>3 DEF Engines
      <4> QED
        BY <3>1, <4>1 DEF ChannelGood
    <3> QED
      BY <3>2, <3>3
  <2> QED
    BY <2>4 DEF ChannelsGood, n, k
<1> QED
  BY <1>1, <1>2

LEMMA EngineOwned ==
    ASSUME OwnInv,
           \/ \E c \in Channels : TaskInterrupt(c)
           \/ dma_interrupt_handler
           \/ \E d \in Drivers : Poll(d)
           \/ \E d \in Pausers : PauseTest(d) \/ Resume(d)
           \/ PauseFreeze
           \/ fec_send
    PROVE  OwnInv'
<1>1. /\ DmaInv /\ DmaInv' /\ tab \in Tables /\ mcd \in Engines /\ ChannelsGood(tab, mcd)
      /\ main \in Channels \cup {NONE} /\ (main # NONE => tab.req[main] # FREE)
      /\ drv \in [Drivers -> {"closed", "open", "paused"}]
  BY EngineSteps, Parts DEF OwnInv, DmaInv
<1>2. ASSUME NEW c \in Channels, TaskInterrupt(c) PROVE OwnInv'
  <2>1. PICK on \in BOOLEAN : mcd' = [mcd EXCEPT !.en[c] = on]
    BY <1>2 DEF TaskInterrupt
  <2>2. /\ mcd'.en = [mcd.en EXCEPT ![c] = on] /\ mcd'.init = mcd.init
        /\ mcd'.chStatus = mcd.chStatus
    BY <1>1, <2>1 DEF Engines
  <2>3. mcd.en[c] /\ ChannelGood(tab, mcd, c)
    BY <1>1, <1>2 DEF TaskInterrupt, ChannelsGood
  <2>4. ChannelsGood(tab, mcd')
    BY <1>1, <2>2, <2>3, OneChannelChanged DEF ChannelGood, Engines
  <2> QED
    BY <1>1, <1>2, <2>4, SameTables DEF TaskInterrupt
<1>3. ASSUME dma_interrupt_handler PROVE OwnInv'
  <2>1. ChannelsGood(tab, mcd')
    <3>1. \/ mcd' = mcd
          \/ mcd' = fec_rx_continue(mcd)
          \/ mcd' = fec_rx_continue(fec_tx_continue(mcd))
      BY <1>3 DEF dma_interrupt_handler
    <3> QED
      BY <1>1, <3>1, ContinKeepsGood, Distinct, ContinFacts DEF fec_rx_continue, fec_tx_continue
  <2> QED
    BY <1>1, <1>3, <2>1, SameTables DEF dma_interrupt_handler
<1>4. ASSUME NEW d \in Drivers, Poll(d) PROVE OwnInv'
  <2> DEFINE k == dma_get_channel(tab, d)
  <2>1. k \in Channels /\ tab.req[k] # FREE
    BY <1>4, DriversChannel DEF Poll
  <2>2. /\ mcd'.en = mcd.en /\ mcd'.init = mcd.init
        /\ \A c \in Channels \ {k} : mcd'.chStatus[c] = mcd.chStatus[c]
        /\ mcd'.chStatus[k] \in {"DONE", "HALTED", "NO_DMA"} => ~mcd.en[k]
    <3>1. mcd' \in MCD_dmaStatus(mcd, k) /\ ChannelGood(tab, mcd, k)
      BY <1>1, <1>4, <2>1 DEF Poll, ChannelsGood
    <3> HIDE DEF k
    <3>2. \/ mcd' = mcd
          \/ ~mcd.en[k] /\ mcd' = [mcd EXCEPT !.chStatus[k] = "DONE"]
          \/ \E s \in {"IDLE", "RUNNING"} : mcd' = [mcd EXCEPT !.chStatus[k] = s]
      BY <3>1 DEF MCD_dmaStatus
    <3> QED
      BY <1>1, <2>1, <3>1, <3>2 DEF Engines, ChannelGood
  <2> HIDE DEF k
  <2>3. ChannelsGood(tab, mcd')
    BY <2>1, <2>2, OneChannelChanged
  <2> QED
    BY <1>1, <1>4, <2>3, SameTables DEF Poll
<1>5. ASSUME NEW d \in Pausers, PauseTest(d) PROVE OwnInv'
  <2>1. d \in Drivers
    BY DmaAssumption
  <2>2. tab.req[main'] # FREE
    BY <1>5, <2>1, DriversChannel DEF PauseTest
  <2>3. \A e \in Drivers : drv'[e] = "closed" <=> drv[e] = "closed"
    BY <1>1, <1>5 DEF PauseTest
  <2> QED
    BY <1>1, <1>5, <2>2, <2>3, SameTables DEF PauseTest
<1>6. ASSUME NEW d \in Pausers, Resume(d) PROVE OwnInv'
  <2> DEFINE k == dma_get_channel(tab, d)
  <2>1. k \in Channels /\ tab.req[k] # FREE /\ d \in Drivers
    BY <1>6, DriversChannel, DmaAssumption DEF Resume
  <2>2. /\ mcd'.en = mcd.en /\ mcd'.init = mcd.init
        /\ \A c \in Channels \ {k} : mcd'.chStatus[c] = mcd.chStatus[c]
        /\ mcd'.chStatus[k] \in {"DONE", "HALTED", "NO_DMA"} => ~mcd.en[k]
    <3>1. mcd' \in MCD_resumeDma(mcd, k) /\ ChannelGood(tab, mcd, k)
      BY <1>1, <1>6, <2>1 DEF Resume, ChannelsGood
    <3> HIDE DEF k
    <3>2. \/ mcd' = mcd
          \/ \E s \in {"IDLE", "RUNNING"} : mcd' = [mcd EXCEPT !.debug = NONE, !.chStatus[k] = s]
      BY <3>1 DEF MCD_resumeDma
    <3>3. ASSUME NEW s \in {"IDLE", "RUNNING"}, mcd' = [mcd EXCEPT !.debug = NONE, !.chStatus[k] = s]
          PROVE  /\ mcd'.en = mcd.en /\ mcd'.init = mcd.init
                 /\ mcd'.chStatus = [mcd.chStatus EXCEPT ![k] = s]
      BY <1>1, <3>3 DEF Engines
    <3>4. CASE mcd' = mcd
      BY <3>1, <3>4 DEF ChannelGood
    <3>5. ASSUME NEW s \in {"IDLE", "RUNNING"}, mcd' = [mcd EXCEPT !.debug = NONE, !.chStatus[k] = s]
          PROVE  /\ mcd'.chStatus[k] = s
                 /\ \A c \in Channels \ {k} : mcd'.chStatus[c] = mcd.chStatus[c]
      BY <1>1, <2>1, <3>3, <3>5 DEF Engines
    <3> QED
      BY <3>2, <3>3, <3>4, <3>5
  <2>3. \A e \in Drivers : drv'[e] = "closed" <=> drv[e] = "closed"
    BY <1>1, <1>6 DEF Resume
  <2> HIDE DEF k
  <2>4. ChannelsGood(tab, mcd')
    BY <2>1, <2>2, OneChannelChanged
  <2> QED
    BY <1>1, <1>6, <2>3, <2>4, SameTables DEF Resume
<1>7. ASSUME PauseFreeze PROVE OwnInv'
  <2>1. main \in Channels /\ tab.req[main] # FREE /\ main' = NONE
    BY <1>1, <1>7 DEF PauseFreeze
  <2>2. /\ mcd'.en = mcd.en /\ mcd'.init = mcd.init
        /\ mcd'.chStatus = [mcd.chStatus EXCEPT ![main] = "PAUSED"]
    BY <1>1, <1>7 DEF PauseFreeze, Engines
  <2>3. ChannelsGood(tab, mcd')
    BY <1>1, <2>1, <2>2, OneChannelChanged DEF Engines
  <2> QED
    BY <1>1, <1>7, <2>1, <2>3, SameTables DEF PauseFreeze
<1>8. ASSUME fec_send PROVE OwnInv'
  <2>1. ChannelsGood(tab, mcd')
    BY <1>1, <1>8, ContinKeepsGood, Distinct DEF fec_send, fec_tx_continue
  <2> QED
    BY <1>1, <1>8, <2>1, SameTables DEF fec_send, Foreground
<1> QED
  BY <1>2, <1>3, <1>4, <1>5, <1>6, <1>7, <1>8

-----------------------------------------------------------------------------
(* Setting up and stopping the FEC.  Its transmitter finds a slot that no  *)
(* driver asks for, where there is one.                                    *)
LEMMA TxFindsSlot ==
    ASSUME TxHasSlot, NEW t \in Tables, TablesGood(t), SlotsOf(t, FecTx) = {}
    PROVE  SlotFor(t, FecTx) # 0
<1>1. CASE FecTx = "FEC0_TX"
  BY <1>1, FixedSlots DEF SlotFor
<1>2. CASE FecTx = "FEC1_TX"
  <2>1. PICK s \in SlotSet(FecTx) : \A d \in Drivers : s \notin SlotSet(d)
    BY DEF TxHasSlot
  <2>2. PICK k \in DOMAIN Slots(FecTx) : s = Slots(FecTx)[k]
    BY <2>1 DEF SlotSet
  <2>3. s \in Multiplexed
    BY <2>2, SlotSets
  <2>4. s \notin SlotSet(FecRx)
    <3>1. SlotSet(FecRx) = {16} \/ SlotSet(FecRx) = {20}
      BY DmaAssumption, FixedSlots
    <3>2. s # 16 /\ s # 20
      BY <1>2, <2>1, SlotSets
    <3> QED
      BY <3>1, <3>2
  <2>5. t.used_reqs[s] = FREE
    <3>1. t.used_reqs[s] # FREE => s \in SlotSet(t.used_reqs[s])
      BY <2>3 DEF TablesGood
    <3>2. t.used_reqs[s] # FecTx
      BY <2>3 DEF SlotsOf
    <3>3. t.used_reqs[s] \in Requestors \cup {FREE}
      BY <2>3 DEF Tables
    <3> QED
      BY <2>1, <2>4, <3>1, <3>2, <3>3 DEF Requestors
  <2>6. FreeSlots(t, FecTx) # {}
    BY <2>2, <2>5 DEF FreeSlots
  <2>7. FreeSlots(t, FecTx) \in SUBSET Nat
    BY SlotSets DEF FreeSlots
  <2>8. Min(FreeSlots(t, FecTx)) \in FreeSlots(t, FecTx)
    BY <2>6, <2>7, LeastIn
  <2>9. Slots(FecTx)[Min(FreeSlots(t, FecTx))] \in Multiplexed
    BY <2>8, SlotSets DEF FreeSlots
  <2> QED
    BY <1>2, <2>6, <2>9 DEF SlotFor, Multiplexed
<1> QED
  BY <1>1, <1>2, DmaAssumption

LEMMA RxFindsSlot ==
    ASSUME NEW t \in Tables
    PROVE  SlotFor(t, FecRx) # 0
BY DmaAssumption, FixedSlots DEF SlotFor

LEMMA SetupOwned ==
    ASSUME OwnInv, fec_eth_setup
    PROVE  OwnInv'
<1> DEFINE t1 == Acquired(tab, FecRx)
<1>1. /\ DmaInv' /\ tab \in Tables /\ mcd \in Engines /\ TablesGood(tab)
      /\ ChannelsGood(tab, mcd) /\ main = NONE
      /\ HoldsNone(tab, FecRx) /\ HoldsNone(tab, FecTx)
  BY FecSteps, Parts DEF OwnInv, DmaInv, Owners, fec_eth_setup, fec_driver, Foreground
<1>2. /\ tab' = Acquired(t1, FecTx)
      /\ mcd' = Started(Started(mcd, tab', FecRx), tab', FecTx)
      /\ main' = main /\ drv' = drv /\ fec' = "up"
  BY DEF fec_eth_setup
<1>3. /\ t1 \in Tables /\ TablesGood(t1) /\ AtMostOne(SlotsOf(t1, FecRx))
      /\ AtMostOne(ChannelsOf(t1, FecRx))
      /\ \A q : q \notin {FecRx, FREE} => SameHoldings(tab, t1, q)
  <2>0. HoldingsTaken(tab, t1, FecRx)
    BY <1>1, Distinct, AcquiredHoldings
  <2>1. /\ t1 \in Tables /\ TablesGood(t1)
        /\ SlotsOf(t1, FecRx) = {} \/ SlotsOf(t1, FecRx) = {SlotFor(tab, FecRx)}
        /\ \/ t1.req = tab.req
           \/ \E c \in ChannelsOf(tab, FREE) : ChannelsOf(t1, FecRx) = {c}
        /\ \A q : q \notin {FecRx, FREE} => SameHoldings(tab, t1, q)
    BY <2>0 DEF HoldingsTaken
  <2>2. t1.req = tab.req => ChannelsOf(t1, FecRx) = {}
    BY <1>1 DEF ChannelsOf, HoldsNone
  <2> QED
    BY <2>1, <2>2 DEF AtMostOne
<1>4. HoldsNone(t1, FecTx)
  BY <1>1, <1>3, Distinct DEF SameHoldings, HoldsNone
<1> HIDE DEF t1
<1>5. /\ tab' \in Tables /\ TablesGood(tab') /\ AtMostOne(SlotsOf(tab', FecTx))
      /\ AtMostOne(ChannelsOf(tab', FecTx))
      /\ \A q : q \notin {FecTx, FREE} => SameHoldings(t1, tab', q)
  <2>0. HoldingsTaken(t1, tab', FecTx)
    BY <1>2, <1>3, <1>4, Distinct, AcquiredHoldings
  <2>1. /\ tab' \in Tables /\ TablesGood(tab')
        /\ SlotsOf(tab', FecTx) = {} \/ SlotsOf(tab', FecTx) = {SlotFor(t1, FecTx)}
        /\ \/ tab'.req = t1.req
           \/ \E c \in ChannelsOf(t1, FREE) : ChannelsOf(tab', FecTx) = {c}
        /\ \A q : q \notin {FecTx, FREE} => SameHoldings(t1, tab', q)
    BY <2>0 DEF HoldingsTaken
  <2>2. tab'.req = t1.req => ChannelsOf(tab', FecTx) = {}
    BY <1>4 DEF ChannelsOf, HoldsNone
  <2> QED
    BY <2>1, <2>2 DEF AtMostOne
<1>6. ChannelsGood(t1, Started(mcd, tab', FecRx)) /\ Started(mcd, tab', FecRx) \in Engines
  <2>1. Accepts(tab, FecRx) /\ SameHoldings(t1, tab', FecRx)
    BY <1>1, <1>5, Distinct, RxFindsSlot DEF Accepts
  <2> QED
    BY <1>1, <1>5, <2>1, Distinct, StartKeepsGood, StartedFacts DEF t1
<1>7. ChannelsGood(tab', mcd')
  <2>1. TxHasSlot => Accepts(t1, FecTx)
    BY <1>3, <1>4, TxFindsSlot DEF HoldsNone, Accepts
  <2>2. SameHoldings(tab', tab', FecTx)
    BY DEF SameHoldings
  <2> QED
    BY <1>2, <1>3, <1>4, <1>6, <2>1, <2>2, Distinct, StartKeepsGood
<1>8. \A d \in Drivers : SameHoldings(tab, tab', d)
  BY <1>3, <1>5, Distinct DEF SameHoldings
<1>9. Owners'
  <2>1. \A d \in Drivers : IF drv'[d] = "closed" THEN HoldsNone(tab', d) ELSE HoldsOne(tab', d)
    BY <1>2, <1>8 DEF OwnInv, Owners, SameHoldings, HoldsNone, HoldsOne
  <2>2. AtMostOne(SlotsOf(tab', FecRx)) /\ AtMostOne(ChannelsOf(tab', FecRx))
    BY <1>3, <1>5, Distinct DEF SameHoldings
  <2> QED
    BY <1>2, <1>5, <2>1, <2>2 DEF Owners, HoldsNone, HoldsOne, SlotsOf, ChannelsOf, AtMostOne
<1> QED
  BY <1>1, <1>2, <1>5, <1>7, <1>9 DEF OwnInv, TablesGood, Paired, ChannelsGood, ChannelGood

LEMMA StopOwned ==
    ASSUME OwnInv, fec_eth_stop
    PROVE  OwnInv'
<1> DEFINE t1 == Released(tab, FecTx)
           m1 == MCD_killDma(mcd, dma_get_channel(tab, FecTx))
<1>1. /\ DmaInv' /\ tab \in Tables /\ mcd \in Engines /\ TablesGood(tab)
      /\ ChannelsGood(tab, mcd) /\ main = NONE
      /\ \A r \in {FecRx, FecTx} : AtMostOne(SlotsOf(tab, r)) /\ AtMostOne(ChannelsOf(tab, r))
  BY FecSteps, Parts DEF OwnInv, DmaInv, Owners, fec_eth_stop, fec_driver, Foreground
<1>2. /\ tab' = Released(t1, FecRx)
      /\ mcd' = MCD_killDma(m1, dma_get_channel(tab, FecRx))
      /\ main' = main /\ drv' = drv /\ fec' = "stopped"
  BY DEF fec_eth_stop
<1>3. HoldingsGivenBack(tab, t1, FecTx)
  BY <1>1, Distinct, ReleasedHoldings
<1>4. SameHoldings(tab, t1, FecRx)
  BY <1>3, Distinct DEF HoldingsGivenBack
<1>5. ChannelsGood(t1, m1) /\ m1 \in Engines
  BY <1>1, Distinct, KillKeepsGood, KillFacts
<1> HIDE DEF t1, m1
<1>6. /\ t1 \in Tables /\ TablesGood(t1)
      /\ AtMostOne(SlotsOf(t1, FecRx)) /\ AtMostOne(ChannelsOf(t1, FecRx))
  BY <1>1, <1>3, <1>4 DEF HoldingsGivenBack, SameHoldings
<1>7. HoldingsGivenBack(t1, tab', FecRx)
  BY <1>2, <1>6, Distinct, ReleasedHoldings
<1>8. ChannelsGood(tab', mcd')
  <2>1. ChannelsOf(tab, FecRx) = ChannelsOf(t1, FecRx)
    BY <1>4 DEF SameHoldings
  <2> QED
    BY <1>2, <1>5, <1>6, <2>1, Distinct, KillKeepsGood
<1>9. Owners'
  <2>1. \A d \in Drivers : SameHoldings(tab, tab', d)
    BY <1>3, <1>7, Distinct DEF HoldingsGivenBack, SameHoldings
  <2>2. \A d \in Drivers : IF drv'[d] = "closed" THEN HoldsNone(tab', d) ELSE HoldsOne(tab', d)
    BY <1>2, <2>1 DEF OwnInv, Owners, SameHoldings, HoldsNone, HoldsOne
  <2>3. HoldsNone(tab', FecRx)
    BY <1>7 DEF HoldingsGivenBack
  <2>4. HoldsNone(tab', FecTx)
    BY <1>3, <1>7, Distinct DEF HoldingsGivenBack, SameHoldings, HoldsNone
  <2> QED
    BY <2>2, <2>3, <2>4 DEF Owners, HoldsNone, HoldsOne, SlotsOf, ChannelsOf, AtMostOne
<1>10. TablesGood(tab')
  BY <1>7 DEF HoldingsGivenBack
<1> QED
  BY <1>1, <1>2, <1>8, <1>9, <1>10 DEF OwnInv, TablesGood, Paired, ChannelsGood, ChannelGood

-----------------------------------------------------------------------------
(* Drivers, which look at what the interface answers. *)
LEMMA DriversOwned ==
    ASSUME OwnInv, NEW d \in Drivers, Open(d) \/ OpenWithoutChannel(d) \/ Close(d)
    PROVE  OwnInv'
<1>1. /\ DmaInv' /\ tab \in Tables /\ mcd \in Engines /\ TablesGood(tab)
      /\ ChannelsGood(tab, mcd) /\ main = NONE
      /\ drv \in [Drivers -> {"closed", "open", "paused"}]
  BY DriverSteps, Parts DEF OwnInv, DmaInv, Open, OpenWithoutChannel, Close, Foreground
<1>2. ASSUME main' = main, fec' = fec, NEW s \in {"closed", "open"}, drv' = [drv EXCEPT ![d] = s],
             TablesGood(tab'), ChannelsGood(tab', mcd'),
             \A q : q \notin {d, FREE} => SameHoldings(tab, tab', q),
             IF s = "closed" THEN HoldsNone(tab', d) ELSE HoldsOne(tab', d)
      PROVE  OwnInv'
  <2>1. \A e \in Drivers : IF drv'[e] = "closed" THEN HoldsNone(tab', e) ELSE HoldsOne(tab', e)
    <3> SUFFICES ASSUME NEW e \in Drivers
                 PROVE  IF drv'[e] = "closed" THEN HoldsNone(tab', e) ELSE HoldsOne(tab', e)
      OBVIOUS
    <3>1. CASE e = d
      BY <1>1, <1>2, <3>1
    <3>2. CASE e # d
      <4>1. SameHoldings(tab, tab', e) /\ drv'[e] = drv[e]
        BY <1>1, <1>2, <3>2, Distinct
      <4> QED
        BY <4>1 DEF OwnInv, Owners, SameHoldings, HoldsNone, HoldsOne
    <3> QED
      BY <3>1, <3>2
  <2>2. SameHoldings(tab, tab', FecRx) /\ SameHoldings(tab, tab', FecTx)
    BY <1>2, Distinct
  <2>3. Owners'
    BY <1>2, <2>1, <2>2
       DEF OwnInv, Owners, SameHoldings, HoldsNone, HoldsOne, SlotsOf, ChannelsOf, AtMostOne
  <2> QED
    BY <1>1, <1>2, <2>3 DEF OwnInv, TablesGood, Paired, ChannelsGood, ChannelGood
<1>3. CASE Open(d)
  <2>1. /\ HoldsNone(tab, d) /\ Accepts(tab, d) /\ ChannelsOf(tab, FREE) # {}
        /\ tab' = Acquired(tab, d) /\ mcd' = Started(mcd, tab', d)
        /\ drv' = [drv EXCEPT ![d] = "open"] /\ main' = main /\ fec' = fec
    BY <1>3 DEF Open, OwnInv, Owners
  <2>2. HoldingsTaken(tab, tab', d)
    BY <1>1, <2>1, Distinct, AcquiredHoldings
  <2>3. HoldsOne(tab', d)
    <3>1. d \in AlwaysActive => SlotFor(tab, d) = 0
      BY FixedTakeNone, ActiveAreFixed
    <3> QED
      BY <2>1, <2>2, <3>1 DEF HoldingsTaken, HoldsOne, ChannelsOf, Accepts
  <2>4. ChannelsGood(tab', mcd')
    BY <1>1, <2>1, Distinct, StartKeepsGood DEF SameHoldings
  <2>5. TablesGood(tab') /\ \A q : q \notin {d, FREE} => SameHoldings(tab, tab', q)
    BY <2>2 DEF HoldingsTaken
  <2> QED
    BY <1>2, <2>1, <2>3, <2>4, <2>5
<1>4. CASE OpenWithoutChannel(d)
  <2>1. /\ HoldsNone(tab, d)
        /\ tab' = dma_free_initiator(dma_set_initiator(tab, d), d)
        /\ mcd' = mcd /\ drv' = drv /\ main' = main /\ fec' = fec
    BY <1>4 DEF OpenWithoutChannel, OwnInv, Owners
  <2>2. TablesGood(tab') /\ tab'.req = tab.req /\ tab'.used_reqs = tab.used_reqs
    BY <1>1, <2>1, Distinct, InitiatorReturned DEF HoldsNone
  <2>3. ChannelsGood(tab', mcd')
    BY <1>1, <2>1, <2>2 DEF ChannelsGood, ChannelGood, Initiates
  <2>4. Owners'
    BY <2>1, <2>2 DEF OwnInv, Owners, HoldsNone, HoldsOne, SlotsOf, ChannelsOf, AtMostOne
  <2> QED
    BY <1>1, <2>1, <2>2, <2>3, <2>4 DEF OwnInv, TablesGood, Paired, ChannelsGood, ChannelGood
<1>5. CASE Close(d)
  <2>1. /\ HoldsOne(tab, d)
        /\ tab' = Released(tab, d) /\ mcd' = MCD_killDma(mcd, dma_get_channel(tab, d))
        /\ drv' = [drv EXCEPT ![d] = "closed"] /\ main' = main /\ fec' = fec
    BY <1>5 DEF Close, OwnInv, Owners
  <2>2. AtMostOne(SlotsOf(tab, d)) /\ AtMostOne(ChannelsOf(tab, d))
    BY <2>1 DEF HoldsOne, AtMostOne
  <2>3. HoldingsGivenBack(tab, tab', d)
    BY <1>1, <2>1, <2>2, Distinct, ReleasedHoldings
  <2>4. ChannelsGood(tab', mcd')
    BY <1>1, <2>1, <2>2, Distinct, KillKeepsGood
  <2>5. /\ TablesGood(tab') /\ HoldsNone(tab', d)
        /\ \A q : q \notin {d, FREE} => SameHoldings(tab, tab', q)
    BY <2>3 DEF HoldingsGivenBack
  <2> QED
    BY <1>2, <2>1, <2>4, <2>5
<1> QED
  BY <1>3, <1>4, <1>5

LEMMA OwnNext == OwnInv /\ [Next]_vars => OwnInv'
<1> SUFFICES ASSUME OwnInv, [Next]_vars PROVE OwnInv'
  OBVIOUS
<1>1. CASE UNCHANGED vars
  <2>1. DmaInv'
    BY <1>1, DmaNext DEF OwnInv
  <2> QED
    BY <1>1, <2>1, SameTables DEF vars, OwnInv
<1>2. CASE (\E c \in Channels : TaskInterrupt(c)) \/ dma_interrupt_handler
  BY <1>2, EngineOwned
<1>3. CASE fec_driver
  BY <1>3, SetupOwned, StopOwned, EngineOwned DEF fec_driver
<1>4. CASE driver_interface
  BY <1>4, EngineOwned, DriversOwned DEF driver_interface
<1> QED
  BY <1>1, <1>2, <1>3, <1>4 DEF Next

LEMMA OwnAlways == Spec => []OwnInv
BY OwnInit, OwnNext, PTL DEF Spec

-----------------------------------------------------------------------------
(* No status of MCD_dmaStatus calls a task finished, halted or never       *)
(* started while it runs, and a channel that was given back is halted, for *)
(* any number of channels and any set of drivers.                          *)
THEOREM StatusTruthful == Spec => []StatusMatchesEngine
<1>1. OwnInv => StatusMatchesEngine
  BY DEF OwnInv, ChannelsGood, ChannelGood, StatusMatchesEngine
<1> QED
  BY <1>1, OwnAlways, PTL

(* What dma_set_initiator and dma_set_channel give a driver, and nothing   *)
(* else, is what dma_free_initiator and dma_free_channel take back: no     *)
(* slot at all where the initiator is always active.                       *)
THEOREM NothingLeaks == Spec => []ReleasedAll
<1>1. OwnInv => ReleasedAll
  <2> SUFFICES ASSUME OwnInv, NEW d \in Drivers
               PROVE  /\ Cardinality(SlotsOf(tab, d)) =
                            (IF drv[d] = "closed" \/ d \in AlwaysActive THEN 0 ELSE 1)
                      /\ Cardinality(ChannelsOf(tab, d)) = (IF drv[d] = "closed" THEN 0 ELSE 1)
    BY DEF ReleasedAll
  <2>1. CASE drv[d] = "closed"
    BY <2>1, FS_EmptySet DEF OwnInv, Owners, HoldsNone
  <2>2. CASE drv[d] # "closed"
    <3>1. HoldsOne(tab, d)
      BY <2>2 DEF OwnInv, Owners
    <3>2. Cardinality(SlotsOf(tab, d)) = (IF d \in AlwaysActive THEN 0 ELSE 1)
      <4>1. d \in AlwaysActive => SlotsOf(tab, d) = {}
        BY <3>1 DEF HoldsOne
      <4>2. d \notin AlwaysActive => \E s \in Multiplexed : SlotsOf(tab, d) = {s}
        BY <3>1 DEF HoldsOne
      <4> QED
        BY <4>1, <4>2, FS_EmptySet, FS_Singleton
    <3>3. Cardinality(ChannelsOf(tab, d)) = 1
      BY <3>1, FS_Singleton DEF HoldsOne
    <3> QED
      BY <2>2, <3>2, <3>3
  <2> QED
    BY <2>1, <2>2
<1> QED
  BY <1>1, OwnAlways, PTL

(* A task runs only for the owner of its channel, and waits for the        *)
(* initiator that is always that owner's or that the multiplexer gives to  *)
(* it, through every interleaving of task, interrupt, kill, reuse and of   *)
(* frames sent, which continue the transmitter's task - as long as the     *)
(* transmitter of the FEC has a slot that no driver asks for: it does not  *)
(* look at what dma_set_initiator answers.                                 *)
THEOREM TasksOwned == ASSUME TxHasSlot PROVE Spec => []RunningTaskOwned
<1>1. OwnInv => RunningTaskOwned
  <2> SUFFICES ASSUME OwnInv, NEW c \in Channels, mcd.en[c]
               PROVE  /\ tab.req[c] # FREE /\ tab.handler[c] = tab.req[c]
                      /\ InitiatorOf(tab.req[c], mcd.init[c])
    BY DEF RunningTaskOwned
  <2>1. ChannelGood(tab, mcd, c)
    BY DEF OwnInv, ChannelsGood
  <2>2. tab.req[c] # FREE /\ tab.handler[c] = tab.req[c]
    BY OwnersTask DEF OwnInv, TablesGood, Paired
  <2>3. Initiates(tab, tab.req[c], mcd.init[c])
    BY <2>1, <2>2, OwnersTask DEF ChannelGood
  <2>4. ASSUME NEW i \in Multiplexed, tab.used_reqs[i] # FREE PROVE tab.imcr[i] = tab.used_reqs[i]
    BY <2>4 DEF OwnInv, TablesGood
  <2> QED
    BY <2>2, <2>3, <2>4 DEF Initiates, InitiatorOf
<1> QED
  BY <1>1, OwnAlways, PTL
=============================================================================
