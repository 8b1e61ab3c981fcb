------------------------------ MODULE FecProofs ------------------------------
(***************************************************************************)
(* Proofs about FecDriver for every pool and ring size and every           *)
(* interleaving.  Ownership of the buffers, the receive ring and the order *)
(* of received frames hold for every set of senders.  The order of what is *)
(* sent needs the interrupt handler to be the only sender                  *)
(* (OnlyHandlerSends), as senders that race for a descriptor overwrite     *)
(* each other's; then the driver implements TxFifo.                        *)
(***************************************************************************)
EXTENDS FecDriver, FiniteSetTheorems, TLAPS

(* What the pool operations return: a queue stays a queue of nodes.        *)
LEMMA QueueOps ==
    ASSUME NEW q \in Seq(Nodes), NEW b \in Nodes
    PROVE  /\ queue_add(q, b) \in Seq(Nodes)
           /\ queue_remove(q) \in Seq(Nodes)
           /\ queue_peek(q) \in Nodes
  BY DEF queue_add, queue_remove, queue_peek, Nodes, NBUF, NULL

LEMMA PoolOps ==
    ASSUME NEW qs \in [NBUF_QUEUES -> Seq(Nodes)], NEW b \in Nodes,
           NEW q \in NBUF_QUEUES
    PROVE  /\ nbuf_add(qs, q, b) \in [NBUF_QUEUES -> Seq(Nodes)]
           /\ nbuf_remove(qs, q) \in [NBUF_QUEUES -> Seq(Nodes)]
           /\ nbuf_free(qs, b) \in [NBUF_QUEUES -> Seq(Nodes)]
           /\ nbuf_alloc(qs) \in [NBUF_QUEUES -> Seq(Nodes)]
           /\ queue_peek(qs[q]) \in Nodes
  BY QueueOps DEF nbuf_add, nbuf_remove, nbuf_free, nbuf_alloc, NBUF_QUEUES, NBUF_FREE

LEMMA RingStep ==
    /\ \A i \in RxIndex : RxNext(i) \in RxIndex
    /\ \A i \in TxIndex : TxNext(i) \in TxIndex
  BY FecAssumption DEF RxIndex, TxIndex, RxNext, TxNext

LEMMA QueueNames ==
    /\ NBUF_FREE \in NBUF_QUEUES
    /\ NBUF_TX_RING \in NBUF_QUEUES
    /\ NBUF_RX_RING \in NBUF_QUEUES
    /\ NBUF_FREE # NBUF_TX_RING /\ NBUF_FREE # NBUF_RX_RING /\ NBUF_TX_RING # NBUF_RX_RING
  BY DEF NBUF_QUEUES, NBUF_FREE, NBUF_TX_RING, NBUF_RX_RING

(* Membership and absence of duplicates in a pool, and what adding to and  *)
(* removing from a queue do to them.                                       *)
In(qs, q, b)  == \E k \in 1 .. Len(qs[q]) : qs[q][k] = b
NoDup(qs, q)  == \A j, k \in 1 .. Len(qs[q]) : qs[q][j] = qs[q][k] => j = k

Pool == [NBUF_QUEUES -> Seq(Nodes)]

LEMMA PoolKept ==
    /\ \A qs \in Pool : \A q \in NBUF_QUEUES :
          nbuf_remove(qs, q) \in Pool /\ queue_peek(qs[q]) \in Nodes
    /\ \A qs \in Pool : nbuf_alloc(qs) \in Pool
    /\ \A qs \in Pool : \A q \in NBUF_QUEUES : \A b \in Nodes : nbuf_add(qs, q, b) \in Pool
    /\ \A qs \in Pool : \A b \in Nodes : nbuf_free(qs, b) \in Pool
<1>1. \A qs \in Pool : \A q \in NBUF_QUEUES :
          nbuf_remove(qs, q) \in Pool /\ queue_peek(qs[q]) \in Nodes
  BY PoolOps, 0 \in Nodes DEF Pool, Nodes, NULL
<1>2. \A qs \in Pool : \A q \in NBUF_QUEUES : \A b \in Nodes : nbuf_add(qs, q, b) \in Pool
  BY PoolOps DEF Pool
<1> QED
  BY <1>1, <1>2, QueueNames DEF nbuf_alloc, nbuf_free

LEMMA AddFacts ==
    ASSUME NEW qs \in Pool, NEW q \in NBUF_QUEUES, NEW b \in Nodes
    PROVE  /\ \A r \in NBUF_QUEUES : \A c :
                In(nbuf_add(qs, q, b), r, c) <=> In(qs, r, c) \/ (r = q /\ c = b)
           /\ ~In(qs, q, b) /\ NoDup(qs, q) => NoDup(nbuf_add(qs, q, b), q)
           /\ \A r \in NBUF_QUEUES \ {q} : nbuf_add(qs, q, b)[r] = qs[r]
           /\ nbuf_add(qs, q, b)[q] = Append(qs[q], b)
           /\ nbuf_add(qs, q, b) \in Pool
<1> DEFINE rs == nbuf_add(qs, q, b)
<1>1. /\ rs[q] = Append(qs[q], b)
      /\ \A r \in NBUF_QUEUES \ {q} : rs[r] = qs[r]
      /\ rs \in Pool
  BY PoolOps DEF Pool, nbuf_add, queue_add
<1>2. /\ Len(rs[q]) = Len(qs[q]) + 1
      /\ rs[q][Len(qs[q]) + 1] = b
      /\ \A k \in 1 .. Len(qs[q]) : rs[q][k] = qs[q][k]
      /\ Len(qs[q]) \in Nat
  BY <1>1 DEF Pool
<1> HIDE DEF rs
<1>3. \A c : In(rs, q, c) <=> In(qs, q, c) \/ c = b
  BY <1>2 DEF In
<1>4. \A r \in NBUF_QUEUES \ {q} : \A c : In(rs, r, c) <=> In(qs, r, c)
  BY <1>1 DEF In
<1>5. ASSUME ~In(qs, q, b), NoDup(qs, q),
             NEW j \in 1 .. Len(rs[q]), NEW k \in 1 .. Len(rs[q]), rs[q][j] = rs[q][k]
      PROVE  j = k
  <2>1. ASSUME NEW i \in 1 .. Len(rs[q]), i # Len(qs[q]) + 1
        PROVE  i \in 1 .. Len(qs[q]) /\ rs[q][i] = qs[q][i] /\ rs[q][i] # b
    BY <2>1, <1>2, <1>5 DEF In
  <2> QED
    BY <2>1, <1>2, <1>5 DEF NoDup
<1> QED
  BY <1>1, <1>3, <1>4, <1>5 DEF rs, NoDup

LEMMA RemoveFacts ==
    ASSUME NEW qs \in Pool, NEW q \in NBUF_QUEUES, qs[q] # << >>, NoDup(qs, q)
    PROVE  /\ In(qs, q, queue_peek(qs[q]))
           /\ \A r \in NBUF_QUEUES : \A c :
                In(nbuf_remove(qs, q), r, c) <=>
                    In(qs, r, c) /\ ~(r = q /\ c = queue_peek(qs[q]))
           /\ NoDup(nbuf_remove(qs, q), q)
           /\ \A r \in NBUF_QUEUES \ {q} : nbuf_remove(qs, q)[r] = qs[r]
           /\ nbuf_remove(qs, q)[q] = Tail(qs[q])
           /\ queue_peek(qs[q]) = qs[q][1]
           /\ nbuf_remove(qs, q) \in Pool
<1> DEFINE rs == nbuf_remove(qs, q)
           h  == queue_peek(qs[q])
<1>1. /\ rs[q] = Tail(qs[q])
      /\ \A r \in NBUF_QUEUES \ {q} : rs[r] = qs[r]
      /\ rs \in Pool
  BY PoolOps, 0 \in Nodes DEF Pool, nbuf_remove, queue_remove, Nodes, NULL
<1>2. /\ h = qs[q][1]
      /\ Len(qs[q]) \in Nat \ {0}
      /\ Len(rs[q]) = Len(qs[q]) - 1
      /\ \A k \in 1 .. Len(qs[q]) - 1 : rs[q][k] = qs[q][k + 1]
  BY <1>1 DEF Pool, queue_peek
<1> HIDE DEF rs, h
<1>3. In(qs, q, h)
  BY <1>2 DEF In
<1>4. \A c : In(rs, q, c) <=> In(qs, q, c) /\ c # h
  <2>1. ASSUME NEW c, In(rs, q, c) PROVE In(qs, q, c) /\ c # h
    <3>1. PICK k \in 1 .. Len(qs[q]) - 1 : rs[q][k] = c
      BY <2>1, <1>2 DEF In
    <3>2. qs[q][k + 1] = c /\ k + 1 \in 1 .. Len(qs[q]) /\ k + 1 # 1 /\ 1 \in 1 .. Len(qs[q])
      BY <3>1, <1>2
    <3> QED
      BY <3>2, <1>2 DEF In, NoDup
  <2>2. ASSUME NEW c, In(qs, q, c), c # h PROVE In(rs, q, c)
    <3>1. PICK k \in 1 .. Len(qs[q]) : qs[q][k] = c
      BY <2>2 DEF In
    <3>2. k - 1 \in 1 .. Len(qs[q]) - 1 /\ rs[q][k - 1] = c
      BY <3>1, <2>2, <1>2
    <3> QED
      BY <3>2, <1>2 DEF In
  <2> QED
    BY <2>1, <2>2
<1>5. \A r \in NBUF_QUEUES \ {q} : \A c : In(rs, r, c) <=> In(qs, r, c)
  BY <1>1 DEF In
<1>6. NoDup(rs, q)
  BY <1>2 DEF NoDup
<1> QED
  BY <1>1, <1>2, <1>3, <1>4, <1>5, <1>6 DEF rs, h

LEMMA InitType == Init => TypeOK
<1> SUFFICES ASSUME Init PROVE TypeOK
  OBVIOUS
<1>1. nbuf_init(NRXBD) \in [NBUF_QUEUES -> Seq(Nodes)]
  BY NbufAssumption, FecAssumption
     DEF nbuf_init, NBUF_QUEUES, NBUF_FREE, NBUF_TX_RING, NBUF_RX_RING, Nodes, NBUF, NULL
<1>2. /\ 0 \in RxIndex /\ 0 \in TxIndex
      /\ \A i \in RxIndex : i + 1 \in NBUF
  BY NbufAssumption, FecAssumption DEF RxIndex, TxIndex, NBUF
<1> QED
  BY <1>1, <1>2 DEF Init, TypeOK, Nodes, NULL
(* The inductive invariant.  None of its parts is inductive alone: that    *)
(* the buffer passed up is one (TypeOK) needs the receive queue to be      *)
(* non-empty (RxRingInOrder) and free of null pointers                     *)
(* (EachBufferHasOneOwner), which needs fec_tx_frame never to remove from  *)
(* an empty transmit queue (TxQueueCoversBDs).                             *)
IInv == TypeOK /\ EachBufferHasOneOwner /\ RxRingInOrder /\ TxQueueCoversBDs

LEMMA PoolShape ==
    ASSUME IInv
    PROVE  /\ queue \in Pool
           /\ \A q \in NBUF_QUEUES : NoDup(queue, q) /\ ~In(queue, q, NULL)
           /\ queue[NBUF_RX_RING] # << >>
           /\ NULL \in Nodes
  BY FecAssumption, QueueNames
     DEF IInv, TypeOK, Pool, EachBufferHasOneOwner, NoDup, In, Queued, RxRingInOrder, Nodes, NULL

LEMMA HeadIsBuffer ==
    ASSUME NEW qs \in Pool, NEW q \in NBUF_QUEUES, qs[q] # << >>, ~In(qs, q, NULL)
    PROVE  queue_peek(qs[q]) \in NBUF
<1>1. /\ Len(qs[q]) \in Nat \ {0}
      /\ queue_peek(qs[q]) = qs[q][1]
      /\ queue_peek(qs[q]) \in Nodes
  BY PoolOps, 0 \in Nodes DEF Pool, queue_peek, Nodes, NULL
<1> QED
  BY <1>1 DEF In, Nodes

LEMMA TypeStep == IInv /\ [Next]_vars => TypeOK'
<1> SUFFICES ASSUME IInv, [Next]_vars PROVE TypeOK'
  OBVIOUS
<1> DEFINE RxType == [RxIndex -> [e : BOOLEAN, ok : BOOLEAN, data : NBUF]]
           TxType == [TxIndex -> [r : BOOLEAN, data : Nodes]]
<1>t. TypeOK
  BY DEF IInv
<1>rx. rxbd \in RxType /\ iRxbd \in RxIndex /\ rxDma \in [at : RxIndex, run : BOOLEAN]
  BY <1>t DEF TypeOK
<1>tx. /\ txbd \in TxType /\ iTxbd_new \in TxIndex /\ iTxbd_old \in TxIndex
       /\ txDma \in [at : TxIndex, run : BOOLEAN]
  BY <1>t DEF TypeOK
<1>q. queue \in Pool
  BY PoolShape
<1>p. pending \in SUBSET {"rx", "tx"}
  BY <1>t DEF TypeOK
<1>1. ASSUME NEW good \in BOOLEAN, DmaReceive(good) PROVE TypeOK'
  <2>1. rxbd' \in RxType
    BY <1>rx, <1>1 DEF DmaReceive
  <2>2. rxDma' \in [at : RxIndex, run : BOOLEAN]
    BY <1>rx, <1>1, RingStep DEF DmaReceive
  <2>3. pending' \in SUBSET {"rx", "tx"}
    BY <1>p, <1>1 DEF DmaReceive
  <2> QED
    BY <1>t, <1>1, <2>1, <2>2, <2>3 DEF TypeOK, DmaReceive, txVars
<1>2. CASE DmaReceiveHalt
  <2>1. rxDma' \in [at : RxIndex, run : BOOLEAN]
    BY <1>rx, <1>2 DEF DmaReceiveHalt
  <2> QED
    BY <1>t, <1>2, <2>1 DEF TypeOK, DmaReceiveHalt, txVars
<1>3. CASE DmaTransmit
  <2>1. txbd' \in TxType
    BY <1>tx, <1>3 DEF DmaTransmit
  <2>2. txDma' \in [at : TxIndex, run : BOOLEAN]
    BY <1>tx, <1>3, RingStep DEF DmaTransmit
  <2>3. pending' \in SUBSET {"rx", "tx"}
    BY <1>p, <1>3 DEF DmaTransmit
  <2> QED
    BY <1>t, <1>3, <2>1, <2>2, <2>3 DEF TypeOK, DmaTransmit, rxVars
<1>4. CASE DmaTransmitHalt
  <2>1. txDma' \in [at : TxIndex, run : BOOLEAN]
    BY <1>tx, <1>4 DEF DmaTransmitHalt
  <2> QED
    BY <1>t, <1>4, <2>1 DEF TypeOK, DmaTransmitHalt, rxVars
<1>5. CASE IsrEnter
  BY <1>t, <1>5 DEF TypeOK, IsrEnter, rxVars, txVars
<1>6. CASE IsrExit
  BY <1>t, <1>6 DEF TypeOK, IsrExit, rxVars, txVars
<1>7. CASE RxKeep
  <2> DEFINE cur     == queue_peek(queue[NBUF_RX_RING])
             without == nbuf_remove(queue, NBUF_RX_RING)
             new     == queue_peek(without[NBUF_FREE])
  <2>1. cur \in NBUF
    BY HeadIsBuffer, PoolShape, QueueNames
  <2>2. without \in Pool
    BY RemoveFacts, PoolShape, QueueNames
  <2>3. new \in Nodes /\ nbuf_alloc(without) \in Pool
    <3> HIDE DEF without
    <3> QED
      BY <2>2, PoolOps, QueueNames, PoolShape DEF Pool
  <2>4. new \in NBUF
    BY <2>3, <1>7 DEF RxKeep, Nodes
  <2>5. nbuf_add(nbuf_alloc(without), NBUF_RX_RING, new) \in Pool
    <3> HIDE DEF without, new
    <3> QED
      BY <2>3, PoolOps, QueueNames DEF Pool
  <2>6. queue' \in Pool
    BY <1>7, <2>5 DEF RxKeep
  <2>7. /\ isr' \in [pc : {"idle", "run", "up", "send"}, todo : SUBSET {"rx", "tx"}, nbuf : Nodes]
        /\ isr'.pc = "up" /\ isr'.nbuf # NULL
    <3>1. isr' = [isr EXCEPT !.pc = "up", !.nbuf = cur]
      BY <1>7 DEF RxKeep
    <3> HIDE DEF cur
    <3>2. cur \in Nodes /\ cur # NULL
      BY <2>1 DEF Nodes, NULL, NBUF
    <3> QED
      BY <1>t, <3>1, <3>2 DEF TypeOK
  <2>8. /\ rxbd' \in RxType
        /\ iRxbd' \in RxIndex
        /\ rxDma' \in [at : RxIndex, run : BOOLEAN]
    <3>1. RearmRxBD(iRxbd, new)
      BY <1>7 DEF RxKeep
    <3> HIDE DEF new
    <3> QED
      BY <1>rx, <2>4, <3>1, RingStep DEF RearmRxBD
  <2> QED
    BY <1>t, <1>7, <2>6, <2>7, <2>8 DEF TypeOK, RxKeep, txVars, Pool
<1>8. CASE RxDrop
  <2>1. queue' \in Pool
    BY <1>8, <1>q, PoolKept, QueueNames DEF RxDrop
  <2>2. RearmRxBD(iRxbd, rxbd[iRxbd].data) /\ rxbd[iRxbd].data \in NBUF
    BY <1>rx, <1>8 DEF RxDrop
  <2>3. /\ rxbd' \in RxType
        /\ iRxbd' \in RxIndex
        /\ rxDma' \in [at : RxIndex, run : BOOLEAN]
    BY <1>rx, <2>2, RingStep DEF RearmRxBD
  <2> QED
    BY <1>t, <1>8, <2>1, <2>3 DEF TypeOK, RxDrop, txVars, Pool
<1>9. CASE RxDone
  BY <1>t, <1>9 DEF TypeOK, RxDone, rxVars, txVars
<1>10. CASE UpFree
  <2>1. queue' \in Pool
    BY <1>10, <1>q, <1>t, PoolKept DEF UpFree, TypeOK
  <2> QED
    BY <1>t, <1>10, <2>1, PoolShape DEF TypeOK, UpFree, Passed, rxVars, txVars, Pool
<1>11. CASE UpHold
  <2>1. held' \in SUBSET NBUF
    BY <1>t, <1>11 DEF TypeOK, UpHold, Nodes
  <2> QED
    BY <1>t, <1>11, <2>1, PoolShape DEF TypeOK, UpHold, Passed, rxVars, txVars
<1>12. CASE UpLeak
  <2>1. lost' \in SUBSET NBUF
    BY <1>t, <1>12 DEF TypeOK, UpLeak, Nodes
  <2> QED
    BY <1>t, <1>12, <2>1, PoolShape DEF TypeOK, UpLeak, Passed, rxVars, txVars
<1>13. CASE UpReply
  BY <1>t, <1>13 DEF TypeOK, UpReply, rxVars, txVars
<1>14. CASE IsrSend
  <2>1. queue' \in Pool
    BY <1>14, <1>q, <1>t, PoolKept, QueueNames DEF IsrSend, TypeOK
  <2>2. isr.nbuf \in Nodes
    BY <1>t DEF TypeOK
  <2>3. txbd' \in TxType /\ iTxbd_new' \in TxIndex
    BY <1>tx, <1>14, <2>2, RingStep DEF IsrSend
  <2>4. txDma' \in [at : TxIndex, run : BOOLEAN]
    BY <1>tx, <1>14 DEF IsrSend, fec_tx_continue
  <2>5. /\ isr' \in [pc : {"idle", "run", "up", "send"}, todo : SUBSET {"rx", "tx"}, nbuf : Nodes]
        /\ isr'.pc = "run"
    BY <1>t, <1>14, PoolShape DEF TypeOK, IsrSend, Passed
  <2> QED
    BY <1>t, <1>14, <2>1, <2>3, <2>4, <2>5 DEF TypeOK, IsrSend, rxVars, Pool
<1>15. CASE TxFrame
  <2>1. queue' \in Pool
    BY <1>15, <1>q, PoolKept, QueueNames DEF TxFrame
  <2>2. txbd' \in TxType /\ iTxbd_old' \in TxIndex
    BY <1>tx, <1>15, RingStep, PoolShape DEF TxFrame
  <2> QED
    BY <1>t, <1>15, <2>1, <2>2 DEF TypeOK, TxFrame, rxVars, Pool
<1>16. CASE TxDone
  BY <1>t, <1>16 DEF TypeOK, TxDone, rxVars, txVars
<1>17. CASE MainBuild
  <2>1. queue' \in Pool /\ queue_peek(queue[NBUF_FREE]) \in Nodes
    BY <1>17, <1>q, PoolKept, QueueNames DEF MainBuild
  <2> QED
    BY <1>t, <1>17, <2>1 DEF TypeOK, MainBuild, rxVars, txVars, Pool
<1>18. CASE MainTxAlloc
  BY <1>t, <1>18 DEF TypeOK, MainTxAlloc, rxVars, txVars
<1>19. CASE MainTxBump
  <2>1. main.bd \in TxIndex
    BY <1>t DEF TypeOK
  <2>2. iTxbd_new' \in TxIndex
    BY <1>tx, <1>19, <2>1, RingStep DEF MainTxBump
  <2> QED
    BY <1>t, <1>19, <2>2 DEF TypeOK, MainTxBump, MainStep, rxVars
<1>20. CASE MainTxAdd
  <2>1. queue' \in Pool
    BY <1>20, <1>q, <1>t, PoolKept, QueueNames DEF MainTxAdd, TypeOK
  <2> QED
    BY <1>t, <1>20, <2>1 DEF TypeOK, MainTxAdd, rxVars, txVars, Pool
<1>21. CASE MainTxData
  <2>1. main.bd \in TxIndex /\ main.nbuf \in Nodes
    BY <1>t DEF TypeOK
  <2>2. txbd' \in TxType
    BY <1>tx, <1>21, <2>1 DEF MainTxData
  <2> QED
    BY <1>t, <1>21, <2>2, PoolShape DEF TypeOK, MainTxData, rxVars
<1>22. CASE MainTxReady
  <2>1. main.bd \in TxIndex
    BY <1>t DEF TypeOK
  <2>2. txbd' \in TxType
    BY <1>tx, <1>22, <2>1 DEF MainTxReady
  <2> QED
    BY <1>t, <1>22, <2>2 DEF TypeOK, MainTxReady, MainStep, rxVars
<1>23. CASE MainTxContinue
  <2>1. 0 \in TxIndex /\ NULL \in Nodes
    BY FecAssumption, PoolShape DEF TxIndex
  <2>2. /\ main' = [pc |-> "idle", nbuf |-> NULL, bd |-> 0]
        /\ txDma' \in [at : TxIndex, run : BOOLEAN]
    BY <1>tx, <1>23 DEF MainTxContinue, fec_tx_continue
  <2> QED
    BY <1>t, <1>23, <2>1, <2>2 DEF TypeOK, MainTxContinue, rxVars
<1>24. ASSUME NEW b \in NBUF, MainFree(b) PROVE TypeOK'
  <2>1. queue' \in Pool
    BY <1>24, <1>q, PoolKept DEF MainFree, Nodes
  <2> QED
    BY <1>t, <1>24, <2>1 DEF TypeOK, MainFree, rxVars, txVars, Pool
<1>25. CASE UNCHANGED vars
  BY <1>t, <1>25 DEF TypeOK, vars
<1> QED
  BY <1>1, <1>2, <1>3, <1>4, <1>5, <1>6, <1>7, <1>8, <1>9, <1>10, <1>11, <1>12, <1>13,
     <1>14, <1>15, <1>16, <1>17, <1>18, <1>19, <1>20, <1>21, <1>22, <1>23, <1>24, <1>25
     DEF Next, Dma, Isr, Up, Send
-----------------------------------------------------------------------------
(* Moving the head of the receive queue's place to its end, with buffer b  *)
(* in the descriptor just handled, keeps queue and ring in step.           *)
LEMMA RxRotate ==
    ASSUME IInv,
           rxbd' \in [RxIndex -> [e : BOOLEAN, ok : BOOLEAN, data : NBUF]],
           NEW b,
           queue'[NBUF_RX_RING] = Append(Tail(queue[NBUF_RX_RING]), b),
           iRxbd' = RxNext(iRxbd),
           \A i \in RxIndex : rxbd'[i].data = IF i = iRxbd THEN b ELSE rxbd[i].data
    PROVE  RxRingInOrder'
<1> DEFINE q == queue[NBUF_RX_RING]
<1>1. /\ q \in Seq(Nodes)
      /\ Len(q) = NRXBD
      /\ NRXBD \in Nat \ {0}
      /\ iRxbd \in 0 .. NRXBD - 1
  BY QueueNames, FecAssumption DEF IInv, TypeOK, RxRingInOrder, RxIndex
<1>2. /\ Len(queue'[NBUF_RX_RING]) = NRXBD
      /\ queue'[NBUF_RX_RING][NRXBD] = b
      /\ \A k \in 1 .. NRXBD - 1 : queue'[NBUF_RX_RING][k] = q[k + 1]
  <2>1. Len(Tail(q)) = NRXBD - 1 /\ \A k \in 1 .. NRXBD - 1 : Tail(q)[k] = q[k + 1]
    BY <1>1
  <2>2. Tail(q) \in Seq(Nodes)
    BY <1>1
  <2> QED
    BY <1>1, <2>1, <2>2
<1>3. ASSUME NEW i \in RxIndex
      PROVE  queue'[NBUF_RX_RING][Ahead(iRxbd', i, NRXBD) + 1] = rxbd'[i].data
  <2>1. CASE i = iRxbd
    <3>1. Ahead(iRxbd', i, NRXBD) + 1 = NRXBD
      BY <1>1, <2>1 DEF Ahead, RxNext
    <3> QED
      BY <3>1, <1>2, <2>1
  <2>2. CASE i # iRxbd
    <3>1. /\ Ahead(iRxbd', i, NRXBD) + 1 \in 1 .. NRXBD - 1
          /\ Ahead(iRxbd', i, NRXBD) + 1 = Ahead(iRxbd, i, NRXBD)
      BY <1>1, <2>2 DEF Ahead, RxNext, RxIndex
    <3>2. q[Ahead(iRxbd, i, NRXBD) + 1] = rxbd[i].data
      BY DEF IInv, RxRingInOrder
    <3> QED
      BY <3>1, <3>2, <1>2, <2>2
  <2> QED
    BY <2>1, <2>2
<1> QED
  BY <1>2, <1>3 DEF RxRingInOrder

LEMMA RxStays ==
    ASSUME IInv,
           queue'[NBUF_RX_RING] = queue[NBUF_RX_RING],
           iRxbd' = iRxbd,
           \A i \in RxIndex : rxbd'[i].data = rxbd[i].data
    PROVE  RxRingInOrder'
  BY DEF IInv, RxRingInOrder

LEMMA RxStep == IInv /\ [Next]_vars => RxRingInOrder'
<1> SUFFICES ASSUME IInv, [Next]_vars PROVE RxRingInOrder'
  OBVIOUS
<1> USE PoolShape, QueueNames
<1>t. TypeOK
  BY DEF IInv
<1>q. /\ queue[NBUF_RX_RING] \in Seq(Nodes)
      /\ Ahead(iRxbd, iRxbd, NRXBD) + 1 = 1
      /\ iRxbd \in RxIndex
  BY <1>t DEF TypeOK, Ahead, RxIndex
<1>1. ASSUME NEW good \in BOOLEAN, DmaReceive(good) PROVE RxRingInOrder'
  <2>1. \A i \in RxIndex : rxbd'[i].data = rxbd[i].data
    BY <1>t, <1>1 DEF TypeOK, DmaReceive
  <2> QED
    BY <1>1, <2>1, RxStays DEF DmaReceive
<1>2. CASE RxKeep
  <2> DEFINE without == nbuf_remove(queue, NBUF_RX_RING)
             new     == queue_peek(without[NBUF_FREE])
  <2>1. without \in Pool /\ without[NBUF_RX_RING] = Tail(queue[NBUF_RX_RING])
    BY RemoveFacts
  <2>2. /\ nbuf_alloc(without) \in Pool
        /\ nbuf_alloc(without)[NBUF_RX_RING] = without[NBUF_RX_RING]
        /\ new \in Nodes
    BY <2>1, PoolOps DEF Pool, nbuf_alloc, nbuf_remove
  <2>3. queue'[NBUF_RX_RING] = Append(Tail(queue[NBUF_RX_RING]), new)
    <3>1. queue' = nbuf_add(nbuf_alloc(without), NBUF_RX_RING, new)
      BY <1>2 DEF RxKeep
    <3>2. nbuf_add(nbuf_alloc(without), NBUF_RX_RING, new)[NBUF_RX_RING]
            = Append(nbuf_alloc(without)[NBUF_RX_RING], new)
      BY <2>2 DEF nbuf_add, queue_add, Pool
    <3> QED
      BY <3>1, <3>2, <2>1, <2>2
  <2>4. rxbd' = [rxbd EXCEPT ![iRxbd] = [e |-> TRUE, ok |-> TRUE, data |-> new]]
    BY <1>2 DEF RxKeep, RearmRxBD
  <2>5. iRxbd' = RxNext(iRxbd)
    BY <1>2 DEF RxKeep, RearmRxBD
  <2> HIDE DEF new
  <2>6. \A i \in RxIndex : rxbd'[i].data = IF i = iRxbd THEN new ELSE rxbd[i].data
    BY <1>t, <2>4 DEF TypeOK
  <2>7. rxbd' \in [RxIndex -> [e : BOOLEAN, ok : BOOLEAN, data : NBUF]]
    BY TypeStep DEF TypeOK
  <2> QED
    BY <2>3, <2>5, <2>6, <2>7, RxRotate
<1>3. CASE RxDrop
  <2> DEFINE cur == queue_peek(queue[NBUF_RX_RING])
  <2>1. cur = queue[NBUF_RX_RING][1] /\ nbuf_remove(queue, NBUF_RX_RING) \in Pool
        /\ nbuf_remove(queue, NBUF_RX_RING)[NBUF_RX_RING] = Tail(queue[NBUF_RX_RING])
    BY RemoveFacts
  <2>2. cur \in Nodes
    BY PoolOps DEF Pool
  <2>3. queue'[NBUF_RX_RING] = Append(Tail(queue[NBUF_RX_RING]), cur)
    <3> DEFINE without == nbuf_remove(queue, NBUF_RX_RING)
    <3>1. queue' = nbuf_add(without, NBUF_RX_RING, cur)
      BY <1>3 DEF RxDrop
    <3>2. nbuf_add(without, NBUF_RX_RING, cur)[NBUF_RX_RING]
            = Append(without[NBUF_RX_RING], cur)
      BY <2>1 DEF nbuf_add, queue_add, Pool
    <3> QED
      BY <3>1, <3>2, <2>1
  <2>4. cur = rxbd[iRxbd].data
    BY <1>q, <2>1 DEF IInv, RxRingInOrder
  <2>5. rxbd' = [rxbd EXCEPT ![iRxbd] = [e |-> TRUE, ok |-> TRUE, data |-> rxbd[iRxbd].data]]
    BY <1>3 DEF RxDrop, RearmRxBD
  <2>6. iRxbd' = RxNext(iRxbd)
    BY <1>3 DEF RxDrop, RearmRxBD
  <2> HIDE DEF cur
  <2>7. \A i \in RxIndex : rxbd'[i].data = IF i = iRxbd THEN cur ELSE rxbd[i].data
    BY <1>t, <2>4, <2>5 DEF TypeOK
  <2>8. rxbd' \in [RxIndex -> [e : BOOLEAN, ok : BOOLEAN, data : NBUF]]
    BY TypeStep DEF TypeOK
  <2> QED
    BY <2>3, <2>6, <2>7, <2>8, RxRotate
<1>4. ASSUME UNCHANGED <<rxbd, iRxbd>>, UNCHANGED queue PROVE RxRingInOrder'
  BY <1>4, RxStays
<1>5. ASSUME UNCHANGED rxVars, NEW b, queue' = nbuf_free(queue, b) PROVE RxRingInOrder'
  <2>1. queue'[NBUF_RX_RING] = queue[NBUF_RX_RING]
    BY <1>5 DEF nbuf_free, nbuf_add, Pool
  <2> QED
    BY <1>5, <2>1, RxStays DEF rxVars
<1>6. ASSUME UNCHANGED rxVars, NEW b, queue' = nbuf_add(queue, NBUF_TX_RING, b)
      PROVE  RxRingInOrder'
  <2>1. queue'[NBUF_RX_RING] = queue[NBUF_RX_RING]
    BY <1>6 DEF nbuf_add, Pool
  <2> QED
    BY <1>6, <2>1, RxStays DEF rxVars
<1>7. CASE TxFrame
  <2>1. queue'[NBUF_RX_RING] = queue[NBUF_RX_RING]
    BY <1>7 DEF TxFrame, nbuf_free, nbuf_remove, nbuf_add, Pool
  <2> QED
    BY <1>7, <2>1, RxStays DEF TxFrame, rxVars
<1>8. CASE MainBuild
  <2>1. queue'[NBUF_RX_RING] = queue[NBUF_RX_RING]
    BY <1>8 DEF MainBuild, nbuf_alloc, nbuf_remove, Pool
  <2> QED
    BY <1>8, <2>1, RxStays DEF MainBuild, rxVars
<1>9. CASE DmaReceiveHalt \/ DmaTransmit \/ DmaTransmitHalt \/ IsrEnter \/ IsrExit
           \/ RxDone \/ UpHold \/ UpLeak \/ UpReply \/ TxDone
  BY <1>4, <1>9 DEF DmaReceiveHalt, DmaTransmit, DmaTransmitHalt, IsrEnter, IsrExit,
                    RxDone, UpHold, UpLeak, UpReply, TxDone, rxVars
<1>10. CASE MainTxAlloc \/ MainTxBump \/ MainTxData \/ MainTxReady \/ MainTxContinue
            \/ UNCHANGED vars
  BY <1>4, <1>10 DEF MainTxAlloc, MainTxBump, MainTxData, MainTxReady, MainTxContinue,
                     rxVars, vars
<1>11. CASE UpFree
  BY <1>5, <1>11 DEF UpFree
<1>12. CASE IsrSend
  BY <1>6, <1>12 DEF IsrSend
<1>13. CASE MainTxAdd
  BY <1>6, <1>13 DEF MainTxAdd
<1>14. ASSUME NEW b \in NBUF, MainFree(b) PROVE RxRingInOrder'
  BY <1>5, <1>14 DEF MainFree
<1> QED
  BY <1>1, <1>2, <1>3, <1>7, <1>8, <1>9, <1>10, <1>11, <1>12, <1>13, <1>14
     DEF Next, Dma, Isr, Up, Send
-----------------------------------------------------------------------------
(* The number of descriptors that carry a buffer, and how storing or       *)
(* clearing one descriptor's data pointer changes it.                      *)
Carried(bds) == {i \in TxIndex : bds[i].data # NULL}

LEMMA CarriedFinite ==
    ASSUME NEW bds
    PROVE  IsFiniteSet(Carried(bds)) /\ Cardinality(Carried(bds)) \in Nat
<1>1. IsFiniteSet(TxIndex)
  BY FecAssumption, FS_Interval, 0 \in Int, NTXBD - 1 \in Int DEF TxIndex
<1> QED
  BY <1>1, FS_Subset, FS_CardinalityType DEF Carried

LEMMA CarriedStore ==
    ASSUME NEW bds, NEW bds2, NEW i \in TxIndex,
           \A j \in TxIndex \ {i} : bds2[j].data = bds[j].data
    PROVE  Cardinality(Carried(bds2)) <= Cardinality(Carried(bds)) + 1
<1>1. Carried(bds2) \subseteq Carried(bds) \cup {i}
  BY DEF Carried
<1>2. IsFiniteSet(Carried(bds) \cup {i})
      /\ Cardinality(Carried(bds) \cup {i}) <= Cardinality(Carried(bds)) + 1
  BY CarriedFinite, FS_AddElement
<1>3. Cardinality(Carried(bds2)) <= Cardinality(Carried(bds) \cup {i})
  BY <1>1, <1>2, FS_Subset
<1>4. Cardinality(Carried(bds)) \in Nat /\ Cardinality(Carried(bds2)) \in Nat
      /\ Cardinality(Carried(bds) \cup {i}) \in Nat
  BY CarriedFinite, <1>2, FS_CardinalityType
<1> QED
  BY <1>2, <1>3, <1>4

LEMMA CarriedClear ==
    ASSUME NEW bds, NEW bds2, NEW i \in TxIndex,
           bds[i].data # NULL, bds2[i].data = NULL,
           \A j \in TxIndex \ {i} : bds2[j].data = bds[j].data
    PROVE  /\ Cardinality(Carried(bds2)) = Cardinality(Carried(bds)) - 1
           /\ Cardinality(Carried(bds)) >= 1
<1>1. Carried(bds2) = Carried(bds) \ {i} /\ i \in Carried(bds)
  BY DEF Carried
<1>2. Cardinality(Carried(bds2)) = Cardinality(Carried(bds)) - 1
  BY <1>1, CarriedFinite, FS_RemoveElement
<1> QED
  BY <1>2, CarriedFinite

LEMMA TxStays ==
    ASSUME IInv,
           queue'[NBUF_TX_RING] = queue[NBUF_TX_RING],
           \A i \in TxIndex : txbd'[i].data = txbd[i].data,
           main'.pc = "data" <=> main.pc = "data"
    PROVE  TxQueueCoversBDs'
<1>1. CarriedBDs' = CarriedBDs
  BY DEF CarriedBDs
<1> QED
  BY <1>1 DEF IInv, TxQueueCoversBDs

LEMMA TxStep == IInv /\ [Next]_vars => TxQueueCoversBDs'
<1> SUFFICES ASSUME IInv, [Next]_vars PROVE TxQueueCoversBDs'
  OBVIOUS
<1> USE PoolShape, QueueNames
<1>t. TypeOK
  BY DEF IInv
<1>c. /\ CarriedBDs = Carried(txbd) /\ CarriedBDs' = Carried(txbd')
      /\ Cardinality(Carried(txbd)) \in Nat
      /\ Cardinality(Carried(txbd')) \in Nat
      /\ Len(queue[NBUF_TX_RING]) \in Nat
      /\ Cardinality(Carried(txbd)) + (IF main.pc = "data" THEN 1 ELSE 0)
            <= Len(queue[NBUF_TX_RING])
  <2>1. CarriedBDs = Carried(txbd) /\ CarriedBDs' = Carried(txbd')
    BY DEF CarriedBDs, Carried
  <2> QED
    BY <2>1, CarriedFinite DEF IInv, TxQueueCoversBDs, Pool
<1>1. ASSUME NEW b, queue' = nbuf_free(queue, b), UNCHANGED <<txbd, main>>
      PROVE  TxQueueCoversBDs'
  <2>1. queue'[NBUF_TX_RING] = queue[NBUF_TX_RING]
    BY <1>1 DEF nbuf_free, nbuf_add, Pool
  <2> QED
    BY <1>1, <2>1, TxStays
<1>2. CASE RxKeep
  <2>1. queue'[NBUF_TX_RING] = queue[NBUF_TX_RING]
    BY <1>2 DEF RxKeep, nbuf_alloc, nbuf_add, nbuf_remove, Pool
  <2> QED
    BY <1>2, <2>1, TxStays DEF RxKeep, txVars
<1>3. CASE RxDrop
  <2>1. queue'[NBUF_TX_RING] = queue[NBUF_TX_RING]
    BY <1>3 DEF RxDrop, nbuf_add, nbuf_remove, Pool
  <2> QED
    BY <1>3, <2>1, TxStays DEF RxDrop, txVars
<1>4. CASE IsrSend
  <2>1. Len(queue'[NBUF_TX_RING]) = Len(queue[NBUF_TX_RING]) + 1
    BY <1>4 DEF IsrSend, nbuf_add, queue_add, Pool
  <2>2. iTxbd_new \in TxIndex
        /\ \A j \in TxIndex \ {iTxbd_new} : txbd'[j].data = txbd[j].data
    BY <1>4, <1>t DEF IsrSend, TypeOK
  <2>3. Cardinality(Carried(txbd')) <= Cardinality(Carried(txbd)) + 1
    BY <2>2, CarriedStore
  <2>4. main' = main
    BY <1>4 DEF IsrSend
  <2> QED
    BY <1>c, <2>1, <2>3, <2>4 DEF TxQueueCoversBDs
<1>5. CASE TxFrame
  <2>1. /\ iTxbd_old \in TxIndex
        /\ txbd[iTxbd_old].data # NULL
        /\ txbd'[iTxbd_old].data = NULL
        /\ \A j \in TxIndex \ {iTxbd_old} : txbd'[j].data = txbd[j].data
        /\ main' = main
    BY <1>5, <1>t DEF TxFrame, TxFreeable, TypeOK
  <2>2. /\ Cardinality(Carried(txbd')) = Cardinality(Carried(txbd)) - 1
        /\ Cardinality(Carried(txbd)) >= 1
    BY <2>1, CarriedClear
  <2>3. queue[NBUF_TX_RING] # << >>
    BY <1>c, <2>2
  <2>4. queue'[NBUF_TX_RING] = Tail(queue[NBUF_TX_RING])
    BY <1>5, <2>3 DEF TxFrame, nbuf_free, nbuf_add, nbuf_remove, queue_remove, Pool
  <2>5. Len(queue'[NBUF_TX_RING]) = Len(queue[NBUF_TX_RING]) - 1
    BY <2>3, <2>4 DEF Pool
  <2> QED
    BY <1>c, <2>1, <2>2, <2>5 DEF TxQueueCoversBDs
<1>6. CASE MainBuild
  <2>1. queue'[NBUF_TX_RING] = queue[NBUF_TX_RING] /\ txbd' = txbd
    BY <1>6 DEF MainBuild, nbuf_alloc, nbuf_remove, Pool, txVars
  <2>2. main.pc = "idle" /\ main'.pc = "alloc"
    BY <1>6, <1>t DEF MainBuild, TypeOK
  <2> QED
    BY <2>1, <2>2, TxStays
<1>7. CASE MainTxAdd
  <2>1. Len(queue'[NBUF_TX_RING]) = Len(queue[NBUF_TX_RING]) + 1
    BY <1>7 DEF MainTxAdd, nbuf_add, queue_add, Pool
  <2>2. main.pc = "add" /\ main'.pc = "data" /\ txbd' = txbd
    BY <1>7, <1>t DEF MainTxAdd, TypeOK, txVars
  <2> QED
    BY <1>c, <2>1, <2>2 DEF TxQueueCoversBDs
<1>8. CASE MainTxData
  <2>1. /\ main.bd \in TxIndex
        /\ \A j \in TxIndex \ {main.bd} : txbd'[j].data = txbd[j].data
        /\ queue' = queue
        /\ main.pc = "data" /\ main'.pc = "ready"
    BY <1>8, <1>t DEF MainTxData, TypeOK
  <2>2. Cardinality(Carried(txbd')) <= Cardinality(Carried(txbd)) + 1
    BY <2>1, CarriedStore
  <2> QED
    BY <1>c, <2>1, <2>2 DEF TxQueueCoversBDs
<1>9. CASE DmaTransmit
  <2>1. \A i \in TxIndex : txbd'[i].data = txbd[i].data
    BY <1>9, <1>t DEF DmaTransmit, TypeOK
  <2> QED
    BY <1>9, <2>1, TxStays DEF DmaTransmit
<1>10. CASE MainTxReady
  <2>1. \A i \in TxIndex : txbd'[i].data = txbd[i].data
    BY <1>10, <1>t DEF MainTxReady, TypeOK
  <2>2. queue' = queue /\ main.pc = "ready" /\ main'.pc = "continue"
    BY <1>10, <1>t DEF MainTxReady, MainStep, TypeOK
  <2> QED
    BY <2>1, <2>2, TxStays
<1>11. ASSUME UNCHANGED <<queue, txbd>>, main'.pc = "data" <=> main.pc = "data"
       PROVE  TxQueueCoversBDs'
  BY <1>11, TxStays
<1>12. CASE DmaReceiveHalt \/ DmaTransmitHalt \/ IsrEnter \/ IsrExit
            \/ RxDone \/ UpHold \/ UpLeak \/ UpReply \/ TxDone \/ UNCHANGED vars
  BY <1>11, <1>12 DEF DmaReceiveHalt, DmaTransmitHalt, IsrEnter, IsrExit,
                      RxDone, UpHold, UpLeak, UpReply, TxDone, txVars, vars
<1>13. CASE MainTxAlloc \/ MainTxBump \/ MainTxContinue
  <2>1. main.pc # "data" /\ UNCHANGED <<queue, txbd>>
    BY <1>13 DEF MainTxAlloc, MainTxBump, MainTxContinue, MainStep, txVars
  <2>2. main'.pc # "data"
    <3>1. CASE MainTxAlloc \/ MainTxBump
      BY <3>1, <1>t DEF MainTxAlloc, MainTxBump, MainStep, TypeOK
    <3>2. CASE MainTxContinue
      BY <3>2 DEF MainTxContinue
    <3> QED
      BY <3>1, <3>2, <1>13
  <2> QED
    BY <1>11, <2>1, <2>2
<1>14. ASSUME NEW good \in BOOLEAN, DmaReceive(good) PROVE TxQueueCoversBDs'
  BY <1>11, <1>14 DEF DmaReceive, txVars
<1>15. CASE UpFree
  BY <1>1, <1>15 DEF UpFree, txVars
<1>16. ASSUME NEW b \in NBUF, MainFree(b) PROVE TxQueueCoversBDs'
  BY <1>1, <1>16 DEF MainFree, txVars
<1> QED
  BY <1>2, <1>3, <1>4, <1>5, <1>6, <1>7, <1>8, <1>9, <1>10, <1>12, <1>13, <1>14, <1>15, <1>16
     DEF Next, Dma, Isr, Up, Send
-----------------------------------------------------------------------------
(* Ownership: a step moves a buffer from its owner to another one.         *)
OneOwner ==
    /\ \A b \in NBUF : \E o \in Owners : Owns(o, b)
    /\ \A b \in NBUF : \A o1, o2 \in Owners : Owns(o1, b) /\ Owns(o2, b) => o1 = o2

Clean(qs) == \A q \in NBUF_QUEUES : NoDup(qs, q) /\ ~In(qs, q, NULL)

LEMMA OwnerParts ==
    /\ EachBufferHasOneOwner <=> OneOwner /\ Clean(queue)
    /\ EachBufferHasOneOwner' <=> OneOwner' /\ Clean(queue')
  BY DEF EachBufferHasOneOwner, OneOwner, Clean, NoDup, In, Queued

(* The owners one by one. *)
LEMMA OwnsCases ==
    ASSUME NEW c
    PROVE  /\ \A q \in NBUF_QUEUES : Owns(q, c) <=> In(queue, q, c)
           /\ Owns("isr", c) <=> isr.pc \in {"up", "send"} /\ isr.nbuf = c
           /\ Owns("main", c) <=> main.pc \in {"alloc", "bump", "add"} /\ main.nbuf = c
           /\ Owns("held", c) <=> c \in held
           /\ Owns("lost", c) <=> c \in lost
  BY DEF Owns, In, Queued, NBUF_QUEUES, NBUF_FREE, NBUF_TX_RING, NBUF_RX_RING

LEMMA OwnersStay ==
    ASSUME OneOwner,
           \A o \in Owners : \A c \in NBUF : Owns(o, c)' <=> Owns(o, c)
    PROVE  OneOwner'
  BY DEF OneOwner

LEMMA OwnerMoves ==
    ASSUME OneOwner, NEW b \in NBUF, NEW to \in Owners,
           \A o \in Owners : \A c \in NBUF :
               Owns(o, c)' <=> IF c = b THEN o = to ELSE Owns(o, c)
    PROVE  OneOwner'
  BY DEF OneOwner

(* Adding a buffer that is not queued keeps a pool free of duplicates and  *)
(* null pointers; so does removing one.                                    *)
LEMMA AddClean ==
    ASSUME NEW qs \in Pool, Clean(qs), NEW q \in NBUF_QUEUES, NEW b \in NBUF, ~In(qs, q, b)
    PROVE  /\ Clean(nbuf_add(qs, q, b))
           /\ nbuf_add(qs, q, b) \in Pool
           /\ \A r \in NBUF_QUEUES : \A c :
                In(nbuf_add(qs, q, b), r, c) <=> In(qs, r, c) \/ (r = q /\ c = b)
<1>1. b \in Nodes /\ b # NULL
  BY DEF Nodes, NBUF, NULL
<1> DEFINE rs == nbuf_add(qs, q, b)
<1>2. /\ \A r \in NBUF_QUEUES : \A c : In(rs, r, c) <=> In(qs, r, c) \/ (r = q /\ c = b)
      /\ NoDup(rs, q)
      /\ \A r \in NBUF_QUEUES \ {q} : rs[r] = qs[r]
      /\ rs \in Pool
  BY <1>1, AddFacts DEF Clean
<1> HIDE DEF rs
<1>3. \A r \in NBUF_QUEUES : NoDup(rs, r)
  BY <1>2 DEF Clean, NoDup
<1>4. \A r \in NBUF_QUEUES : ~In(rs, r, NULL)
  BY <1>1, <1>2 DEF Clean
<1>5. Clean(rs)
  BY <1>3, <1>4 DEF Clean
<1> QED
  BY <1>2, <1>5 DEF rs

LEMMA RemoveClean ==
    ASSUME NEW qs \in Pool, Clean(qs), NEW q \in NBUF_QUEUES, qs[q] # << >>
    PROVE  /\ Clean(nbuf_remove(qs, q))
           /\ nbuf_remove(qs, q) \in Pool
           /\ queue_peek(qs[q]) \in NBUF
           /\ In(qs, q, queue_peek(qs[q]))
           /\ \A r \in NBUF_QUEUES : \A c :
                In(nbuf_remove(qs, q), r, c) <=>
                    In(qs, r, c) /\ ~(r = q /\ c = queue_peek(qs[q]))
<1> DEFINE rs == nbuf_remove(qs, q)
           h  == queue_peek(qs[q])
<1>1. NoDup(qs, q) /\ ~In(qs, q, NULL)
  BY DEF Clean
<1>2. /\ \A r \in NBUF_QUEUES : \A c : In(rs, r, c) <=> In(qs, r, c) /\ ~(r = q /\ c = h)
      /\ NoDup(rs, q)
      /\ \A r \in NBUF_QUEUES \ {q} : rs[r] = qs[r]
      /\ rs \in Pool
      /\ In(qs, q, h)
  BY <1>1, RemoveFacts
<1>3. h \in NBUF
  BY <1>1, HeadIsBuffer
<1> HIDE DEF rs, h
<1>4. \A r \in NBUF_QUEUES : NoDup(rs, r)
  BY <1>2 DEF Clean, NoDup
<1>5. \A r \in NBUF_QUEUES : ~In(rs, r, NULL)
  BY <1>2 DEF Clean
<1>6. Clean(rs)
  BY <1>4, <1>5 DEF Clean
<1> QED
  BY <1>2, <1>3, <1>6 DEF rs, h

(* A buffer with an owner that is not a queue is in no queue.              *)
LEMMA NotQueued ==
    ASSUME OneOwner, NEW b \in NBUF, NEW o \in Owners \ NBUF_QUEUES, Owns(o, b)
    PROVE  \A q \in NBUF_QUEUES : ~In(queue, q, b)
<1>1. \A q \in NBUF_QUEUES : q \in Owners /\ (Owns(q, b) <=> In(queue, q, b))
  BY OwnsCases DEF Owners
<1> QED
  BY <1>1 DEF OneOwner

LEMMA OwnerStep == IInv /\ [Next]_vars => EachBufferHasOneOwner'
<1> SUFFICES ASSUME IInv, [Next]_vars PROVE OneOwner' /\ Clean(queue')
  BY OwnerParts
<1> USE PoolShape, QueueNames
<1>t. TypeOK /\ OneOwner /\ Clean(queue)
  BY OwnerParts DEF IInv
<1>o. Owners = NBUF_QUEUES \cup {"isr", "main", "held", "lost"}
  BY DEF Owners
<1>1. ASSUME UNCHANGED queue, UNCHANGED <<isr, main, held, lost>>
      PROVE  OneOwner' /\ Clean(queue')
  BY <1>1, <1>t DEF OneOwner, Clean, Owns, Queued, NoDup, In
<1>2. CASE DmaReceiveHalt \/ DmaTransmit \/ DmaTransmitHalt \/ UNCHANGED vars
  BY <1>1, <1>2 DEF DmaReceiveHalt, DmaTransmit, DmaTransmitHalt, vars
<1>3. ASSUME NEW good \in BOOLEAN, DmaReceive(good) PROVE OneOwner' /\ Clean(queue')
  BY <1>1, <1>3 DEF DmaReceive
<1>4. ASSUME UNCHANGED queue, UNCHANGED <<held, lost>>,
             isr'.nbuf = isr.nbuf,
             isr'.pc \in {"up", "send"} <=> isr.pc \in {"up", "send"},
             main'.nbuf = main.nbuf \/ main.pc \notin {"alloc", "bump", "add"},
             main'.pc \in {"alloc", "bump", "add"} <=> main.pc \in {"alloc", "bump", "add"}
      PROVE  OneOwner' /\ Clean(queue')
  <2>1. \A o \in Owners : \A c \in NBUF : Owns(o, c)' <=> Owns(o, c)
    BY <1>4, <1>o DEF Owns, Queued
  <2>2. Clean(queue')
    <3>1. Clean(queue) /\ queue' = queue
      BY <1>4, <1>t
    <3> QED
      BY <3>1
  <2> QED
    BY <2>1, <2>2, <1>t, OwnersStay
<1>5. CASE IsrEnter \/ IsrExit \/ RxDone \/ UpReply \/ TxDone
  <2>1. /\ UNCHANGED <<queue, held, lost, main>>
        /\ isr'.nbuf = isr.nbuf
        /\ isr'.pc \in {"up", "send"} <=> isr.pc \in {"up", "send"}
    BY <1>5, <1>t DEF IsrEnter, IsrExit, RxDone, UpReply, TxDone, TypeOK
  <2> QED
    BY <1>4, <2>1
<1>6. CASE MainTxAlloc \/ MainTxBump
  <2>1. /\ UNCHANGED <<queue, held, lost, isr>>
        /\ main'.nbuf = main.nbuf
        /\ main'.pc \in {"alloc", "bump", "add"} <=> main.pc \in {"alloc", "bump", "add"}
    BY <1>6, <1>t DEF MainTxAlloc, MainTxBump, MainStep, TypeOK
  <2> QED
    BY <1>4, <2>1
<1>7. CASE MainTxData \/ MainTxReady \/ MainTxContinue
  <2>1. UNCHANGED <<queue, held, lost, isr>> /\ main.pc \notin {"alloc", "bump", "add"}
    BY <1>7, <1>t DEF MainTxData, MainTxReady, MainTxContinue, MainStep, TypeOK
  <2>2. CASE MainTxData \/ MainTxReady
    <3>1. main'.pc \notin {"alloc", "bump", "add"}
      BY <2>2, <1>t DEF MainTxData, MainTxReady, MainStep, TypeOK
    <3> QED
      BY <1>4, <2>1, <3>1
  <2>3. CASE MainTxContinue
    <3>1. main'.pc \notin {"alloc", "bump", "add"}
      BY <2>3 DEF MainTxContinue
    <3> QED
      BY <1>4, <2>1, <3>1
  <2> QED
    BY <1>7, <2>2, <2>3
<1>8. ASSUME NEW to \in {"held", "lost"}, isr.pc = "up", isr'.pc = "run", UNCHANGED <<queue, main>>,
             held' = IF to = "held" THEN held \cup {isr.nbuf} ELSE held,
             lost' = IF to = "lost" THEN lost \cup {isr.nbuf} ELSE lost
      PROVE  OneOwner' /\ Clean(queue')
  <2>1. isr.nbuf \in NBUF /\ Owns("isr", isr.nbuf)
    BY <1>8, <1>t, OwnsCases DEF TypeOK, Nodes
  <2>2. \A o \in Owners : \A c \in NBUF :
            Owns(o, c)' <=> IF c = isr.nbuf THEN o = to ELSE Owns(o, c)
    BY <2>1, <1>8, <1>t, <1>o DEF Owns, Queued, OneOwner, NBUF_QUEUES, NBUF_FREE, NBUF_TX_RING, NBUF_RX_RING
  <2>3. Clean(queue')
    BY <1>8, <1>t DEF Clean, NoDup, In
  <2> QED
    BY <2>1, <2>2, <2>3, <1>o, <1>t, OwnerMoves
<1>9. CASE UpHold
  BY <1>8, <1>9, <1>t DEF UpHold, Passed, TypeOK
<1>10. CASE UpLeak
  BY <1>8, <1>10, <1>t DEF UpLeak, Passed, TypeOK
<1>11. ASSUME NEW q \in NBUF_QUEUES, NEW b \in NBUF, NEW from \in {"isr", "main", "held"},
              Owns(from, b), queue' = nbuf_add(queue, q, b),
              \A o \in {"isr", "main", "held", "lost"} : \A c \in NBUF :
                  Owns(o, c)' <=> Owns(o, c) /\ ~(o = from /\ c = b)
       PROVE  OneOwner' /\ Clean(queue')
  <2>1. \A r \in NBUF_QUEUES : ~In(queue, r, b)
    BY <1>11, <1>t, <1>o, NotQueued DEF NBUF_QUEUES, NBUF_FREE, NBUF_TX_RING, NBUF_RX_RING
  <2>2. /\ Clean(queue')
        /\ \A r \in NBUF_QUEUES : \A c : In(queue', r, c) <=> In(queue, r, c) \/ (r = q /\ c = b)
    BY <2>1, <1>11, <1>t, AddClean
  <2>3. \A r \in NBUF_QUEUES : \A c \in NBUF :
            (Owns(r, c) <=> In(queue, r, c)) /\ (Owns(r, c)' <=> In(queue', r, c))
    BY DEF Owns, In, Queued, NBUF_QUEUES, NBUF_FREE, NBUF_TX_RING, NBUF_RX_RING
  <2>4. \A o \in Owners : \A c \in NBUF :
            Owns(o, c)' <=> IF c = b THEN o = q ELSE Owns(o, c)
    <3> SUFFICES ASSUME NEW o \in Owners, NEW c \in NBUF
                 PROVE  Owns(o, c)' <=> IF c = b THEN o = q ELSE Owns(o, c)
      OBVIOUS
    <3>1. CASE o \in NBUF_QUEUES
      BY <3>1, <2>1, <2>2, <2>3
    <3>2. CASE o \in {"isr", "main", "held", "lost"}
      <4>1. o # q
        BY <3>2 DEF NBUF_QUEUES, NBUF_FREE, NBUF_TX_RING, NBUF_RX_RING
      <4>2. Owns(o, b) => o = from
        BY <1>11, <1>t, <1>o DEF OneOwner
      <4> QED
        BY <3>2, <4>1, <4>2, <1>11
    <3> QED
      BY <3>1, <3>2, <1>o
  <2>5. q \in Owners
    BY <1>o
  <2> QED
    BY <2>2, <2>4, <2>5, <1>t, OwnerMoves
<1>12. CASE UpFree
  <2>1. isr.nbuf \in NBUF /\ Owns("isr", isr.nbuf)
    BY <1>12, <1>t, OwnsCases DEF UpFree, TypeOK, Nodes
  <2>2. queue' = nbuf_add(queue, NBUF_FREE, isr.nbuf)
    BY <1>12 DEF UpFree, nbuf_free
  <2>3. \A o \in {"isr", "main", "held", "lost"} : \A c \in NBUF :
            Owns(o, c)' <=> Owns(o, c) /\ ~(o = "isr" /\ c = isr.nbuf)
    BY <1>12, <1>t DEF UpFree, Passed, Owns, TypeOK, NBUF_QUEUES, NBUF_FREE, NBUF_TX_RING, NBUF_RX_RING
  <2> QED
    BY <2>1, <2>2, <2>3, <1>11
<1>13. CASE IsrSend
  <2>1. isr.nbuf \in NBUF /\ Owns("isr", isr.nbuf)
    BY <1>13, <1>t, OwnsCases DEF IsrSend, TypeOK, Nodes
  <2>2. queue' = nbuf_add(queue, NBUF_TX_RING, isr.nbuf)
    BY <1>13 DEF IsrSend
  <2>3. \A o \in {"isr", "main", "held", "lost"} : \A c \in NBUF :
            Owns(o, c)' <=> Owns(o, c) /\ ~(o = "isr" /\ c = isr.nbuf)
    BY <1>13, <1>t DEF IsrSend, Passed, Owns, TypeOK, NBUF_QUEUES, NBUF_FREE, NBUF_TX_RING, NBUF_RX_RING
  <2> QED
    BY <2>1, <2>2, <2>3, <1>11
<1>14. CASE MainTxAdd
  <2>1. main.nbuf \in NBUF /\ Owns("main", main.nbuf)
    BY <1>14, <1>t, OwnsCases DEF MainTxAdd, TypeOK, Nodes
  <2>2. queue' = nbuf_add(queue, NBUF_TX_RING, main.nbuf)
    BY <1>14 DEF MainTxAdd
  <2>3. \A o \in {"isr", "main", "held", "lost"} : \A c \in NBUF :
            Owns(o, c)' <=> Owns(o, c) /\ ~(o = "main" /\ c = main.nbuf)
    BY <1>14, <1>t DEF MainTxAdd, Owns, TypeOK, NBUF_QUEUES, NBUF_FREE, NBUF_TX_RING, NBUF_RX_RING
  <2> QED
    BY <2>1, <2>2, <2>3, <1>11
<1>15. ASSUME NEW b \in NBUF, MainFree(b) PROVE OneOwner' /\ Clean(queue')
  <2>1. Owns("held", b)
    BY <1>15, OwnsCases DEF MainFree
  <2>2. queue' = nbuf_add(queue, NBUF_FREE, b)
    BY <1>15 DEF MainFree, nbuf_free
  <2>3. \A o \in {"isr", "main", "held", "lost"} : \A c \in NBUF :
            Owns(o, c)' <=> Owns(o, c) /\ ~(o = "held" /\ c = b)
    BY <1>15, <1>t DEF MainFree, Owns, TypeOK, NBUF_QUEUES, NBUF_FREE, NBUF_TX_RING, NBUF_RX_RING
  <2> QED
    BY <2>1, <2>2, <2>3, <1>11
<1>16. ASSUME \A r \in NBUF_QUEUES : \A c : In(queue', r, c) <=> In(queue, r, c),
              Clean(queue'), UNCHANGED <<isr, main, held, lost>>
       PROVE  OneOwner' /\ Clean(queue')
  <2>1. \A o \in Owners : \A c \in NBUF : Owns(o, c)' <=> Owns(o, c)
    <3>1. \A o \in NBUF_QUEUES : \A c : Queued(o, c)' <=> Queued(o, c)
      BY <1>16 DEF In, Queued
    <3> QED
      BY <1>16, <3>1, <1>o DEF Owns
  <2> QED
    BY <2>1, <1>16, <1>t, OwnersStay
<1>17. CASE RxDrop
  <2> DEFINE cur     == queue_peek(queue[NBUF_RX_RING])
             without == nbuf_remove(queue, NBUF_RX_RING)
  <2>1. /\ without \in Pool /\ Clean(without) /\ cur \in NBUF
        /\ In(queue, NBUF_RX_RING, cur)
        /\ \A r \in NBUF_QUEUES : \A c :
             In(without, r, c) <=> In(queue, r, c) /\ ~(r = NBUF_RX_RING /\ c = cur)
    BY <1>t, RemoveClean
  <2>2. queue' = nbuf_add(without, NBUF_RX_RING, cur) /\ UNCHANGED <<isr, main, held, lost>>
    BY <1>17 DEF RxDrop
  <2> HIDE DEF cur, without
  <2>3. /\ Clean(queue')
        /\ \A r \in NBUF_QUEUES : \A c :
             In(queue', r, c) <=> In(without, r, c) \/ (r = NBUF_RX_RING /\ c = cur)
    BY <2>1, <2>2, AddClean
  <2>4. \A r \in NBUF_QUEUES : \A c : In(queue', r, c) <=> In(queue, r, c)
    BY <2>1, <2>3
  <2> QED
    BY <2>2, <2>3, <2>4, <1>16
<1>18. ASSUME NEW from \in NBUF_QUEUES, NEW to \in Owners, NEW b \in NBUF, In(queue, from, b),
              to # from,
              \A r \in NBUF_QUEUES : \A c \in NBUF :
                  In(queue', r, c) <=> IF c = b THEN r = to ELSE In(queue, r, c),
              \A o \in {"isr", "main", "held", "lost"} : \A c \in NBUF :
                  Owns(o, c)' <=> Owns(o, c) \/ (o = to /\ c = b)
       PROVE  OneOwner'
  <2>1. \A r \in NBUF_QUEUES : \A c \in NBUF :
            (Owns(r, c) <=> In(queue, r, c)) /\ (Owns(r, c)' <=> In(queue', r, c))
    BY DEF Owns, In, Queued, NBUF_QUEUES, NBUF_FREE, NBUF_TX_RING, NBUF_RX_RING
  <2>2. \A o \in {"isr", "main", "held", "lost"} : ~Owns(o, b)
    <3>1. \A o \in {"isr", "main", "held", "lost"} : o \in Owners /\ o # from
      BY DEF Owners, NBUF_QUEUES, NBUF_FREE, NBUF_TX_RING, NBUF_RX_RING
    <3>2. Owns(from, b) /\ from \in Owners
      BY <1>18, <2>1, <1>o
    <3> QED
      BY <3>1, <3>2, <1>t DEF OneOwner
  <2>3. \A o \in Owners : \A c \in NBUF :
            Owns(o, c)' <=> IF c = b THEN o = to ELSE Owns(o, c)
    BY <2>1, <2>2, <1>18, <1>o
  <2> QED
    BY <2>3, <1>18, <1>t, OwnerMoves
<1>u. \A r1, r2 \in NBUF_QUEUES : \A c \in NBUF :
          In(queue, r1, c) /\ In(queue, r2, c) => r1 = r2
  BY <1>t, <1>o, OwnsCases DEF OneOwner
<1>19. CASE MainBuild
  <2> DEFINE b == queue_peek(queue[NBUF_FREE])
  <2>1. queue[NBUF_FREE] # << >>
    BY <1>19 DEF MainBuild, queue_peek
  <2>2. /\ Clean(nbuf_alloc(queue)) /\ b \in NBUF /\ In(queue, NBUF_FREE, b)
        /\ \A r \in NBUF_QUEUES : \A c :
             In(nbuf_alloc(queue), r, c) <=> In(queue, r, c) /\ ~(r = NBUF_FREE /\ c = b)
    BY <1>t, <2>1, RemoveClean DEF nbuf_alloc
  <2>3. /\ queue' = nbuf_alloc(queue) /\ UNCHANGED <<isr, held, lost>>
        /\ main' = [main EXCEPT !.pc = "alloc", !.nbuf = b]
        /\ main.pc = "idle"
    BY <1>19 DEF MainBuild
  <2> HIDE DEF b
  <2>4. main'.pc = "alloc" /\ main'.nbuf = b
    BY <2>3, <1>t DEF TypeOK
  <2>5. \A o \in {"isr", "main", "held", "lost"} : \A c \in NBUF :
            Owns(o, c)' <=> Owns(o, c) \/ (o = "main" /\ c = b)
    BY <2>3, <2>4 DEF Owns, NBUF_QUEUES, NBUF_FREE, NBUF_TX_RING, NBUF_RX_RING
  <2>6. \A r \in NBUF_QUEUES : \A c \in NBUF :
            In(queue', r, c) <=> IF c = b THEN r = "main" ELSE In(queue, r, c)
    <3>1. "main" \notin NBUF_QUEUES
      BY DEF NBUF_QUEUES, NBUF_FREE, NBUF_TX_RING, NBUF_RX_RING
    <3> QED
      BY <3>1, <2>2, <2>3, <1>u
  <2>7. "main" \in Owners /\ "main" # NBUF_FREE
    BY <1>o DEF NBUF_FREE
  <2> QED
    BY <2>2, <2>3, <2>5, <2>6, <2>7, <1>18
<1>20. CASE TxFrame
  <2> DEFINE b       == queue_peek(queue[NBUF_TX_RING])
             without == nbuf_remove(queue, NBUF_TX_RING)
  <2>1. queue[NBUF_TX_RING] # << >>
    <3>1. iTxbd_old \in CarriedBDs
      BY <1>20, <1>t DEF TxFrame, TxFreeable, CarriedBDs, TypeOK
    <3>2. CarriedBDs = Carried(txbd)
      BY DEF CarriedBDs, Carried
    <3>3. Cardinality(CarriedBDs) \in Nat \ {0}
      BY <3>1, <3>2, CarriedFinite, FS_EmptySet
    <3>4. Cardinality(CarriedBDs) <= Len(queue[NBUF_TX_RING])
      BY <3>3 DEF IInv, TxQueueCoversBDs, Pool
    <3> QED
      BY <3>3, <3>4
  <2>2. /\ without \in Pool /\ Clean(without) /\ b \in NBUF /\ In(queue, NBUF_TX_RING, b)
        /\ \A r \in NBUF_QUEUES : \A c :
             In(without, r, c) <=> In(queue, r, c) /\ ~(r = NBUF_TX_RING /\ c = b)
    BY <1>t, <2>1, RemoveClean
  <2>3. queue' = nbuf_add(without, NBUF_FREE, b) /\ UNCHANGED <<isr, main, held, lost>>
    BY <1>20 DEF TxFrame, nbuf_free
  <2> HIDE DEF b, without
  <2>4. \A r \in NBUF_QUEUES : ~In(without, r, b)
    BY <2>2, <1>u
  <2>5. /\ Clean(queue')
        /\ \A r \in NBUF_QUEUES : \A c :
             In(queue', r, c) <=> In(without, r, c) \/ (r = NBUF_FREE /\ c = b)
    BY <2>2, <2>3, <2>4, AddClean
  <2>6. \A r \in NBUF_QUEUES : \A c \in NBUF :
            In(queue', r, c) <=> IF c = b THEN r = NBUF_FREE ELSE In(queue, r, c)
    BY <2>2, <2>4, <2>5
  <2>7. \A o \in {"isr", "main", "held", "lost"} : \A c \in NBUF :
            Owns(o, c)' <=> Owns(o, c) \/ (o = NBUF_FREE /\ c = b)
    BY <2>3 DEF Owns, NBUF_QUEUES, NBUF_FREE, NBUF_TX_RING, NBUF_RX_RING
  <2>8. NBUF_FREE \in Owners
    BY <1>o
  <2> QED
    BY <2>2, <2>5, <2>6, <2>7, <2>8, <1>18
<1>21. CASE RxKeep
  <2> DEFINE cur     == queue_peek(queue[NBUF_RX_RING])
             without == nbuf_remove(queue, NBUF_RX_RING)
             new     == queue_peek(without[NBUF_FREE])
             rest    == nbuf_alloc(without)
  <2>1. /\ without \in Pool /\ Clean(without) /\ cur \in NBUF /\ In(queue, NBUF_RX_RING, cur)
        /\ \A r \in NBUF_QUEUES : \A c :
             In(without, r, c) <=> In(queue, r, c) /\ ~(r = NBUF_RX_RING /\ c = cur)
    BY <1>t, RemoveClean
  <2>2. without[NBUF_FREE] # << >>
    BY <1>21 DEF RxKeep, queue_peek
  <2>3. rest = nbuf_remove(without, NBUF_FREE)
    BY DEF nbuf_alloc
  <2>4. /\ queue' = nbuf_add(rest, NBUF_RX_RING, new) /\ UNCHANGED <<main, held, lost>>
        /\ isr' = [isr EXCEPT !.pc = "up", !.nbuf = cur] /\ isr.pc = "run"
    BY <1>21 DEF RxKeep, RxReady
  <2> HIDE DEF cur, without, rest
  <2>5. /\ rest \in Pool /\ Clean(rest) /\ new \in NBUF /\ In(without, NBUF_FREE, new)
        /\ \A r \in NBUF_QUEUES : \A c :
             In(rest, r, c) <=> In(without, r, c) /\ ~(r = NBUF_FREE /\ c = new)
    BY <2>1, <2>2, <2>3, RemoveClean
  <2> HIDE DEF new
  <2>6. \A r \in NBUF_QUEUES : ~In(rest, r, new)
    BY <2>1, <2>5, <1>u
  <2>7. /\ Clean(queue')
        /\ \A r \in NBUF_QUEUES : \A c :
             In(queue', r, c) <=> In(rest, r, c) \/ (r = NBUF_RX_RING /\ c = new)
    BY <2>4, <2>5, <2>6, AddClean
  <2>8. cur # new
    BY <2>1, <2>5, <1>u
  <2>9. \A r \in NBUF_QUEUES : \A c \in NBUF :
            In(queue', r, c) <=> IF c = cur THEN FALSE
                                 ELSE IF c = new THEN r = NBUF_RX_RING
                                 ELSE In(queue, r, c)
    BY <2>1, <2>5, <2>6, <2>7, <2>8, <1>u
  <2>10. isr'.pc = "up" /\ isr'.nbuf = cur
    BY <2>4, <1>t DEF TypeOK
  <2>11. \A o \in {"isr", "main", "held", "lost"} : \A c \in NBUF :
            Owns(o, c)' <=> Owns(o, c) \/ (o = "isr" /\ c = cur)
    BY <2>4, <2>10 DEF Owns, NBUF_QUEUES, NBUF_FREE, NBUF_TX_RING, NBUF_RX_RING
  <2>12. \A r \in NBUF_QUEUES : \A c \in NBUF :
            (Owns(r, c) <=> In(queue, r, c)) /\ (Owns(r, c)' <=> In(queue', r, c))
    BY DEF Owns, In, Queued, NBUF_QUEUES, NBUF_FREE, NBUF_TX_RING, NBUF_RX_RING
  <2>13. \A o \in {"isr", "main", "held", "lost"} :
            ~Owns(o, cur) /\ ~Owns(o, new) /\ o \notin NBUF_QUEUES
    <3>1. \A o \in {"isr", "main", "held", "lost"} : o \in Owners /\ o \notin NBUF_QUEUES
      BY DEF Owners, NBUF_QUEUES, NBUF_FREE, NBUF_TX_RING, NBUF_RX_RING
    <3>2. Owns(NBUF_RX_RING, cur) /\ Owns(NBUF_FREE, new) /\ NBUF_FREE \in Owners /\ NBUF_RX_RING \in Owners
      BY <2>1, <2>5, <2>12, <1>o
    <3> QED
      BY <3>1, <3>2, <2>1, <2>5, <1>t DEF OneOwner
  <2>14. \A o \in Owners : \A c \in NBUF :
            Owns(o, c)' <=> IF c = cur THEN o = "isr"
                            ELSE IF c = new THEN o = NBUF_RX_RING
                            ELSE Owns(o, c)
    BY <2>9, <2>11, <2>12, <2>13, <2>8, <1>o
  <2>15. "isr" \in Owners /\ NBUF_RX_RING \in Owners
    BY <1>o
  <2> QED
    BY <2>7, <2>14, <2>15, <1>t DEF OneOwner
<1> QED
  BY <1>2, <1>3, <1>5, <1>6, <1>7, <1>9, <1>10, <1>12, <1>13, <1>14, <1>15, <1>17, <1>19, <1>20, <1>21
     DEF Next, Dma, Isr, Up, Send

-----------------------------------------------------------------------------
LEMMA InitInv == Init => IInv
<1> SUFFICES ASSUME Init PROVE IInv
  OBVIOUS
<1>1. TypeOK
  BY InitType
<1>2. /\ queue[NBUF_FREE] = [k \in 1 .. NBUF_MAX - NRXBD |-> NRXBD + k]
      /\ queue[NBUF_RX_RING] = [k \in 1 .. NRXBD |-> k]
      /\ queue[NBUF_TX_RING] = << >>
      /\ NBUF_MAX - NRXBD \in Nat
      /\ NRXBD \in Nat \ {0} /\ NBUF_MAX \in Nat
  BY NbufAssumption, FecAssumption
     DEF Init, nbuf_init, NBUF_QUEUES, NBUF_FREE, NBUF_TX_RING, NBUF_RX_RING
<1>3. /\ Len(queue[NBUF_FREE]) = NBUF_MAX - NRXBD
      /\ Len(queue[NBUF_RX_RING]) = NRXBD
      /\ Len(queue[NBUF_TX_RING]) = 0
  BY <1>2
<1>4. RxRingInOrder
  BY <1>2, <1>3 DEF Init, RxRingInOrder, Ahead, RxIndex
<1>5. TxQueueCoversBDs
  <2>1. CarriedBDs = {}
    BY DEF Init, CarriedBDs
  <2>2. main.pc # "data"
    BY DEF Init
  <2> QED
    BY <2>1, <2>2, <1>3, FS_EmptySet DEF TxQueueCoversBDs
<1>6. /\ \A b : Queued(NBUF_FREE, b) <=> b \in NRXBD + 1 .. NBUF_MAX
      /\ \A b : Queued(NBUF_RX_RING, b) <=> b \in 1 .. NRXBD
      /\ \A b : ~Queued(NBUF_TX_RING, b)
  <2>1. \A b \in NRXBD + 1 .. NBUF_MAX :
            b - NRXBD \in 1 .. NBUF_MAX - NRXBD /\ queue[NBUF_FREE][b - NRXBD] = b
    BY <1>2
  <2>2. \A b : Queued(NBUF_FREE, b) <=> b \in NRXBD + 1 .. NBUF_MAX
    <3>1. ASSUME NEW k \in 1 .. Len(queue[NBUF_FREE])
          PROVE  queue[NBUF_FREE][k] \in NRXBD + 1 .. NBUF_MAX
      BY <1>2, <1>3
    <3>2. \A b \in NRXBD + 1 .. NBUF_MAX : Queued(NBUF_FREE, b)
      BY <1>3, <2>1 DEF Queued
    <3> QED
      BY <3>1, <3>2 DEF Queued
  <2>3. \A b : Queued(NBUF_RX_RING, b) <=> b \in 1 .. NRXBD
    BY <1>2, <1>3 DEF Queued
  <2>4. \A b : ~Queued(NBUF_TX_RING, b)
    BY <1>3 DEF Queued
  <2> QED
    BY <2>2, <2>3, <2>4
<1>7. \A c : ~Owns("isr", c) /\ ~Owns("main", c) /\ ~Owns("held", c) /\ ~Owns("lost", c)
  BY DEF Init, Owns, NBUF_QUEUES, NBUF_FREE, NBUF_TX_RING, NBUF_RX_RING
<1>8. \A q \in NBUF_QUEUES : \A c : Owns(q, c) <=> Queued(q, c)
  BY OwnsCases DEF In, Queued
<1>9. NBUF_QUEUES = {NBUF_FREE, NBUF_TX_RING, NBUF_RX_RING}
  BY DEF NBUF_QUEUES
<1>10. \A b \in NBUF : \E o \in Owners : Owns(o, b)
  <2> SUFFICES ASSUME NEW b \in NBUF PROVE \E o \in Owners : Owns(o, b)
    OBVIOUS
  <2>1. CASE b <= NRXBD
    <3>1. Owns(NBUF_RX_RING, b)
      BY <2>1, <1>2, <1>6, <1>8, QueueNames DEF NBUF
    <3> QED
      BY <3>1, QueueNames DEF Owners
  <2>2. CASE b > NRXBD
    <3>1. Owns(NBUF_FREE, b)
      BY <2>2, <1>2, <1>6, <1>8, QueueNames DEF NBUF
    <3> QED
      BY <3>1, QueueNames DEF Owners
  <2> QED
    BY <2>1, <2>2, <1>2 DEF NBUF
<1>11. \A b \in NBUF : \A o1, o2 \in Owners : Owns(o1, b) /\ Owns(o2, b) => o1 = o2
  <2>1. \A b \in NBUF : ~(Owns(NBUF_FREE, b) /\ Owns(NBUF_RX_RING, b)) /\ ~Owns(NBUF_TX_RING, b)
    BY <1>2, <1>6, <1>8, QueueNames DEF NBUF
  <2> QED
    BY <2>1, <1>7, <1>9 DEF Owners
<1>12. \A q \in NBUF_QUEUES : \A j, k \in 1 .. Len(queue[q]) :
            queue[q][j] = queue[q][k] => j = k
  <2>1. \A j, k \in 1 .. Len(queue[NBUF_TX_RING]) :
            queue[NBUF_TX_RING][j] = queue[NBUF_TX_RING][k] => j = k
    BY <1>3
  <2>2. \A j, k \in 1 .. Len(queue[NBUF_RX_RING]) :
            queue[NBUF_RX_RING][j] = queue[NBUF_RX_RING][k] => j = k
    BY <1>2, <1>3
  <2>3. \A j, k \in 1 .. Len(queue[NBUF_FREE]) :
            queue[NBUF_FREE][j] = queue[NBUF_FREE][k] => j = k
    <3> SUFFICES ASSUME NEW j \in 1 .. Len(queue[NBUF_FREE]),
                        NEW k \in 1 .. Len(queue[NBUF_FREE]),
                        queue[NBUF_FREE][j] = queue[NBUF_FREE][k]
                 PROVE  j = k
      OBVIOUS
    <3>1. NRXBD + j = NRXBD + k /\ NRXBD \in Nat /\ j \in Nat /\ k \in Nat
      BY <1>2, <1>3
    <3> QED
      BY <3>1
  <2> QED
    BY <1>9, <2>1, <2>2, <2>3
<1>13. \A q \in NBUF_QUEUES : ~Queued(q, NULL)
  BY <1>2, <1>6, <1>9 DEF NULL
<1> QED
  BY <1>1, <1>4, <1>5, <1>10, <1>11, <1>12, <1>13 DEF IInv, EachBufferHasOneOwner

(* The invariant holds in every state of every behaviour.                  *)
THEOREM Invariance == Spec => []IInv
<1>1. IInv /\ [Next]_vars => IInv'
  BY TypeStep, OwnerStep, RxStep, TxStep DEF IInv
<1> QED
  BY InitInv, <1>1, PTL DEF Spec

(* The pool, the rings and the control state keep their types.             *)
THEOREM TypeCorrect == Spec => []TypeOK
  BY Invariance, PTL DEF IInv

(* Every buffer has exactly one owner, for every pool and ring size, every *)
(* choice of senders and every interleaving of nbuf_*, fec_send,           *)
(* fec_rx_frame, fec_tx_frame and the DMA.                                 *)
THEOREM BuffersNeverSharedOrLost == Spec => []EachBufferHasOneOwner
  BY Invariance, PTL DEF IInv

(* fec_rx_frame always takes the buffer of the descriptor it handles.      *)
THEOREM ReceiveRingInOrder == Spec => []RxRingInOrder
  BY Invariance, PTL DEF IInv

(* fec_tx_frame never removes from an empty transmit queue.                *)
THEOREM TransmitQueueNeverUnderflows == Spec => []TxQueueCoversBDs
  BY Invariance, PTL DEF IInv

-----------------------------------------------------------------------------
(* Places in a ring of n descriptors, counted from one of them.            *)
RingNext(n, i) == IF i = n - 1 THEN 0 ELSE i + 1

(* What Ahead and the successor do to each other.                          *)
AheadCounts(n, a) ==
    /\ Ahead(a, a, n) = 0
    /\ \A j \in 0 .. n - 1 : Ahead(a, j, n) \in 0 .. n - 1
    /\ \A j, k \in 0 .. n - 1 : Ahead(a, j, n) = Ahead(a, k, n) => j = k
    /\ \A j \in 0 .. n - 1 : j # a => Ahead(RingNext(n, a), j, n) = Ahead(a, j, n) - 1
    /\ Ahead(RingNext(n, a), a, n) = n - 1
    /\ \A j \in 0 .. n - 1 : Ahead(a, j, n) < n - 1 =>
          Ahead(a, RingNext(n, j), n) = Ahead(a, j, n) + 1
    /\ \A j \in 0 .. n - 1 : Ahead(a, j, n) = n - 1 => RingNext(n, j) = a
    /\ \A j \in 0 .. n - 1 : RingNext(n, j) \in 0 .. n - 1

LEMMA Counting ==
    ASSUME NEW n \in Nat \ {0}, NEW a \in 0 .. n - 1
    PROVE  AheadCounts(n, a)
<1>1. /\ Ahead(a, a, n) = 0
      /\ \A j \in 0 .. n - 1 : Ahead(a, j, n) \in 0 .. n - 1
      /\ \A j, k \in 0 .. n - 1 : Ahead(a, j, n) = Ahead(a, k, n) => j = k
  BY DEF Ahead
<1>2. /\ \A j \in 0 .. n - 1 : j # a => Ahead(RingNext(n, a), j, n) = Ahead(a, j, n) - 1
      /\ Ahead(RingNext(n, a), a, n) = n - 1
  BY DEF Ahead, RingNext
<1>3. /\ \A j \in 0 .. n - 1 : Ahead(a, j, n) < n - 1 =>
            Ahead(a, RingNext(n, j), n) = Ahead(a, j, n) + 1
      /\ \A j \in 0 .. n - 1 : Ahead(a, j, n) = n - 1 => RingNext(n, j) = a
      /\ \A j \in 0 .. n - 1 : RingNext(n, j) \in 0 .. n - 1
  BY DEF Ahead, RingNext
<1> QED
  BY <1>1, <1>2, <1>3 DEF AheadCounts

-----------------------------------------------------------------------------
(* The receive ring: the order of the frames.                              *)
LEMMA RxRing ==
    ASSUME TypeOK
    PROVE  /\ NRXBD \in Nat \ {0} /\ RxIndex = 0 .. NRXBD - 1
           /\ iRxbd \in 0 .. NRXBD - 1 /\ rxDma.at \in 0 .. NRXBD - 1
           /\ \A i : RxNext(i) = RingNext(NRXBD, i)
           /\ AheadCounts(NRXBD, iRxbd)
<1>1. /\ NRXBD \in Nat \ {0} /\ RxIndex = 0 .. NRXBD - 1
      /\ iRxbd \in 0 .. NRXBD - 1 /\ rxDma.at \in 0 .. NRXBD - 1
  BY FecAssumption DEF TypeOK, RxIndex
<1>2. \A i : RxNext(i) = RingNext(NRXBD, i)
  BY DEF RxNext, RingNext
<1> QED
  BY <1>1, <1>2, Counting

RxBits(bds) == \A i \in RxIndex : bds[i].e \in BOOLEAN

(* The DMA fills the descriptor it is at, which is empty.                  *)
LEMMA RxFilled ==
    ASSUME TypeOK, RxFramesInOrder, rxbd[rxDma.at].e,
           iRxbd' = iRxbd, rxDma'.at = RxNext(rxDma.at),
           \A i \in RxIndex : rxbd'[i].e <=> i # rxDma.at /\ rxbd[i].e,
           RxBits(rxbd')
    PROVE  RxFramesInOrder'
<1> DEFINE n == NRXBD
           d == rxDma.at
           A(i) == Ahead(iRxbd, i, n)
<1>1. /\ n \in Nat \ {0} /\ RxIndex = 0 .. n - 1 /\ iRxbd \in RxIndex /\ d \in RxIndex
      /\ rxDma'.at = RingNext(n, d) /\ rxDma'.at \in RxIndex
  <2>1. /\ n \in Nat \ {0} /\ RxIndex = 0 .. n - 1 /\ iRxbd \in RxIndex /\ d \in RxIndex
        /\ rxDma'.at = RingNext(n, d)
    BY RxRing
  <2>2. \A j \in RxIndex : RingNext(n, j) \in RxIndex
    BY RxRing DEF AheadCounts
  <2> QED
    BY <2>1, <2>2
<1>2. /\ A(iRxbd) = 0 /\ \A j \in RxIndex : A(j) \in 0 .. n - 1
      /\ \A j, k \in RxIndex : A(j) = A(k) => j = k
      /\ A(d) < n - 1 => A(RingNext(n, d)) = A(d) + 1
      /\ A(d) = n - 1 => RingNext(n, d) = iRxbd
  BY RxRing DEF AheadCounts
<1>3. \A i \in RxIndex : rxbd[i].e <=> A(i) >= A(d)
  <2>1. CASE d = iRxbd
    <3>1. A(d) = 0 /\ \A i \in RxIndex : A(i) \in Nat
      BY <1>2, <2>1
    <3>2. \A i \in RxIndex : A(i) >= A(d)
      <4> HIDE DEF A
      <4> QED
        BY <3>1
    <3>3. \A i \in RxIndex : rxbd[i].e = rxbd[d].e
      BY <1>1, <2>1 DEF RxFramesInOrder
    <3> QED
      BY <3>2, <3>3
  <2>2. CASE d # iRxbd
    BY <2>2 DEF RxFramesInOrder
  <2> QED
    BY <2>1, <2>2
<1>4. \A i \in RxIndex : rxbd'[i].e <=> A(i) > A(d)
  <2> SUFFICES ASSUME NEW i \in RxIndex PROVE rxbd'[i].e <=> A(i) > A(d)
    OBVIOUS
  <2>1. rxbd'[i].e <=> i # d /\ A(i) >= A(d)
    BY <1>3
  <2>2. i # d <=> A(i) # A(d)
    BY <1>1, <1>2
  <2>3. A(i) \in Int /\ A(d) \in Int
    BY <1>1, <1>2
  <2> QED
    BY <2>1, <2>2, <2>3
<1>5. CASE A(d) = n - 1
  <2>1. rxDma'.at = iRxbd'
    BY <1>1, <1>2, <1>5
  <2>2. \A i \in RxIndex : ~rxbd'[i].e
    BY <1>1, <1>2, <1>4, <1>5
  <2>3. \A i, j \in RxIndex : rxbd'[i].e = rxbd'[j].e
    BY <2>2 DEF RxBits
  <2> QED
    BY <2>1, <2>3 DEF RxFramesInOrder
<1>6. CASE A(d) < n - 1
  <2>1. A(rxDma'.at) = A(d) + 1
    BY <1>1, <1>2, <1>6
  <2>2. A(d) \in Nat /\ A(iRxbd) = 0 /\ \A i \in RxIndex : A(i) \in Int
    BY <1>1, <1>2
  <2>3. rxDma'.at # iRxbd'
    BY <2>1, <2>2
  <2>4. \A i \in RxIndex : rxbd'[i].e <=> A(i) >= A(rxDma'.at)
    BY <1>4, <2>1, <2>2
  <2> QED
    BY <2>3, <2>4 DEF RxFramesInOrder
<1>7. n \in Nat \ {0}
  BY <1>1
<1>8. A(d) \in 0 .. n - 1
  BY <1>1, <1>2
<1> QED
  BY <1>5, <1>6, <1>7, <1>8

(* The handler empties the descriptor it is at, which is filled.           *)
LEMMA RxEmptied ==
    ASSUME TypeOK, RxFramesInOrder, ~rxbd[iRxbd].e,
           iRxbd' = RxNext(iRxbd), rxDma'.at = rxDma.at,
           \A i \in RxIndex : rxbd'[i].e <=> i = iRxbd \/ rxbd[i].e,
           RxBits(rxbd')
    PROVE  RxFramesInOrder'
<1> DEFINE n == NRXBD
           d == rxDma.at
           A(i) == Ahead(iRxbd, i, n)
           B(i) == Ahead(iRxbd', i, n)
<1>1. /\ n \in Nat \ {0} /\ RxIndex = 0 .. n - 1 /\ iRxbd \in RxIndex /\ d \in RxIndex
      /\ iRxbd' = RingNext(n, iRxbd) /\ iRxbd' \in 0 .. n - 1
  <2>1. /\ n \in Nat \ {0} /\ RxIndex = 0 .. n - 1 /\ iRxbd \in RxIndex /\ d \in RxIndex
        /\ iRxbd' = RingNext(n, iRxbd)
    BY RxRing
  <2>2. \A j \in RxIndex : RingNext(n, j) \in RxIndex
    BY RxRing DEF AheadCounts
  <2> QED
    BY <2>1, <2>2
<1>2. /\ A(iRxbd) = 0 /\ \A j \in RxIndex : A(j) \in 0 .. n - 1
      /\ \A j, k \in RxIndex : A(j) = A(k) => j = k
      /\ \A j \in RxIndex : j # iRxbd => B(j) = A(j) - 1
      /\ B(iRxbd) = n - 1
  BY <1>1, RxRing DEF AheadCounts
<1>3. \A j, k \in RxIndex : B(j) = B(k) => j = k
  BY <1>1, Counting DEF AheadCounts
<1>4. B(iRxbd') = 0
  BY <1>1, Counting DEF AheadCounts
<1>5. d = iRxbd => \A i \in RxIndex : ~rxbd[i].e
  BY <1>1 DEF RxFramesInOrder
<1>6. d # iRxbd => \A i \in RxIndex : rxbd[i].e <=> A(i) >= A(d)
  BY DEF RxFramesInOrder
<1>7. CASE d = iRxbd'
  <2>1. \A i \in RxIndex : rxbd'[i].e
    <3>1. CASE d = iRxbd
      <4>1. n = 1
        BY <1>1, <1>2, <1>4, <1>7, <3>1
      <4> QED
        BY <1>1, <4>1
    <3>2. CASE d # iRxbd
      <4>1. A(d) = 1
        <5>1. B(d) = A(d) - 1 /\ A(d) \in 0 .. n - 1
          BY <1>1, <1>2, <3>2
        <5> QED
          BY <1>4, <1>7, <5>1
      <4>2. ASSUME NEW i \in RxIndex, i # iRxbd PROVE A(i) >= A(d)
        BY <1>1, <1>2, <4>1, <4>2
      <4> QED
        BY <1>6, <3>2, <4>2
    <3> QED
      BY <3>1, <3>2
  <2>2. \A i, j \in RxIndex : rxbd'[i].e = rxbd'[j].e
    BY <2>1 DEF RxBits
  <2>3. rxDma'.at = iRxbd'
    BY <1>7
  <2> QED
    BY <2>2, <2>3 DEF RxFramesInOrder
<1>8. CASE d # iRxbd'
  <2>1. \A i \in RxIndex : rxbd'[i].e <=> B(i) >= B(d)
    <3>1. CASE d = iRxbd
      <4>1. \A i \in RxIndex : rxbd'[i].e <=> i = iRxbd
        BY <1>5, <3>1
      <4>2. ASSUME NEW i \in RxIndex PROVE B(i) >= B(d) <=> i = iRxbd
        <5>1. B(d) = n - 1 /\ n \in Nat
          BY <1>1, <1>2, <3>1
        <5>2. i # iRxbd => B(i) = A(i) - 1 /\ A(i) \in 0 .. n - 1
          BY <1>2
        <5> QED
          BY <3>1, <5>1, <5>2
      <4> QED
        BY <4>1, <4>2
    <3>2. CASE d # iRxbd
      <4> SUFFICES ASSUME NEW i \in RxIndex PROVE rxbd'[i].e <=> B(i) >= B(d)
        OBVIOUS
      <4>0. B(d) = A(d) - 1 /\ A(d) \in 0 .. n - 1 /\ n \in Nat
        BY <1>1, <1>2, <3>2
      <4>1. CASE i = iRxbd
        <5>1. B(i) = n - 1
          BY <1>2, <4>1
        <5> QED
          BY <4>0, <4>1, <5>1
      <4>2. CASE i # iRxbd
        <5>1. rxbd'[i].e <=> A(i) >= A(d)
          BY <1>6, <3>2, <4>2
        <5>2. B(i) = A(i) - 1 /\ A(i) \in 0 .. n - 1
          BY <1>2, <4>2
        <5> QED
          BY <4>0, <5>1, <5>2
      <4> QED
        BY <4>1, <4>2
    <3> QED
      BY <3>1, <3>2
  <2> QED
    BY <1>8, <2>1 DEF RxFramesInOrder
<1> QED
  BY <1>7, <1>8

LEMMA FramesStep == TypeOK /\ RxFramesInOrder /\ [Next]_vars => RxFramesInOrder'
<1> SUFFICES ASSUME TypeOK, RxFramesInOrder, [Next]_vars PROVE RxFramesInOrder'
  OBVIOUS
<1>1. ASSUME UNCHANGED <<rxbd, iRxbd>>, rxDma'.at = rxDma.at PROVE RxFramesInOrder'
  BY <1>1 DEF RxFramesInOrder
<1>2. ASSUME NEW good \in BOOLEAN, DmaReceive(good) PROVE RxFramesInOrder'
  <2>1. iRxbd' = iRxbd /\ rxbd[rxDma.at].e /\ rxDma'.at = RxNext(rxDma.at)
    BY <1>2 DEF DmaReceive, TypeOK
  <2>2. rxbd' = [rxbd EXCEPT ![rxDma.at] = [[rxbd[rxDma.at] EXCEPT !.e = FALSE] EXCEPT !.ok = good]]
    BY <1>2 DEF DmaReceive, TypeOK
  <2>3. ASSUME NEW i \in RxIndex PROVE rxbd'[i].e = (i # rxDma.at /\ rxbd[i].e)
    <3>1. CASE i = rxDma.at
      <4>1. rxbd \in [RxIndex -> [e : BOOLEAN, ok : BOOLEAN, data : NBUF]]
        BY DEF TypeOK
      <4>2. rxbd'[i] = [[rxbd[i] EXCEPT !.e = FALSE] EXCEPT !.ok = good]
        BY <2>2, <3>1, <4>1
      <4>3. rxbd'[i].e = FALSE
        BY <4>1, <4>2
      <4> QED
        BY <3>1, <4>3
    <3>2. CASE i # rxDma.at
      <4>1. rxbd'[i] = rxbd[i] /\ rxbd[i].e \in BOOLEAN
        BY <2>2, <3>2 DEF TypeOK
      <4> QED
        BY <3>2, <4>1
    <3> QED
      BY <3>1, <3>2
  <2>4. RxBits(rxbd')
    BY <2>3 DEF RxBits
  <2>5. \A i \in RxIndex : rxbd'[i].e <=> i # rxDma.at /\ rxbd[i].e
    BY <2>3
  <2> QED
    BY <2>1, <2>4, <2>5, RxFilled
<1>3. ASSUME NEW b, RxReady, RearmRxBD(iRxbd, b) PROVE RxFramesInOrder'
  <2>1. /\ iRxbd' = RxNext(iRxbd) /\ ~rxbd[iRxbd].e /\ rxDma'.at = rxDma.at
    BY <1>3 DEF RxReady, RearmRxBD, TypeOK
  <2>2. ASSUME NEW i \in RxIndex PROVE rxbd'[i].e = (i = iRxbd \/ rxbd[i].e)
    <3>1. CASE i = iRxbd
      <4>1. rxbd'[i].e = TRUE
        BY <1>3, <3>1 DEF TypeOK, RearmRxBD
      <4> QED
        BY <3>1, <4>1
    <3>2. CASE i # iRxbd
      <4>1. rxbd'[i] = rxbd[i] /\ rxbd[i].e \in BOOLEAN
        BY <1>3, <3>2 DEF TypeOK, RearmRxBD
      <4> QED
        BY <3>2, <4>1
    <3> QED
      BY <3>1, <3>2
  <2>3. RxBits(rxbd')
    BY <2>2 DEF RxBits
  <2>4. \A i \in RxIndex : rxbd'[i].e <=> i = iRxbd \/ rxbd[i].e
    BY <2>2
  <2> QED
    BY <2>1, <2>3, <2>4, RxEmptied
<1>4. CASE DmaReceiveHalt
  BY <1>1, <1>4 DEF DmaReceiveHalt, TypeOK
<1>5. CASE DmaTransmit \/ DmaTransmitHalt
  BY <1>1, <1>5 DEF DmaTransmit, DmaTransmitHalt, rxVars
<1>6. CASE Isr
  <2>1. CASE RxKeep
    BY <1>3, <2>1 DEF RxKeep
  <2>2. CASE RxDrop
    BY <1>3, <2>2 DEF RxDrop
  <2>3. CASE IsrEnter \/ IsrExit \/ RxDone \/ Up \/ IsrSend \/ TxFrame \/ TxDone
    BY <1>1, <2>3 DEF IsrEnter, IsrExit, RxDone, Up, UpFree, UpHold, UpLeak, UpReply,
                      IsrSend, TxFrame, TxDone, rxVars
  <2> QED
    BY <1>6, <2>1, <2>2, <2>3 DEF Isr
<1>7. CASE MainBuild \/ Send
  BY <1>1, <1>7 DEF MainBuild, Send, MainTxAlloc, MainTxBump, MainTxAdd, MainTxData, MainTxReady,
                    MainTxContinue, rxVars
<1>8. CASE \E b \in NBUF : MainFree(b)
  BY <1>1, <1>8 DEF MainFree, rxVars
<1>9. CASE UNCHANGED vars
  BY <1>1, <1>9 DEF vars
<1> QED
  BY <1>2, <1>4, <1>5, <1>6, <1>7, <1>8, <1>9 DEF Next, Dma

(* Frames are handled in the order in which the DMA received them and none *)
(* is skipped: fecbd_rx_alloc goes exactly as far as the DMA has come.     *)
THEOREM FramesInOrder == Spec => []RxFramesInOrder
<1>1. Init => RxFramesInOrder
  <2> SUFFICES ASSUME Init PROVE RxFramesInOrder
    OBVIOUS
  <2>1. rxDma.at = iRxbd /\ \A i \in RxIndex : rxbd[i].e = TRUE
    BY DEF Init
  <2> QED
    BY <2>1 DEF RxFramesInOrder
<1> QED
  BY <1>1, TypeCorrect, FramesStep, PTL DEF Spec

-----------------------------------------------------------------------------
(* The transmit ring, when the interrupt handler is the only sender and    *)
(* the buffers that are left for it do not fill the ring, as with the 30   *)
(* buffers and the rings of 20 that nbuf.h and fecbd.h set.                *)
OnlyHandlerSends == "main" \notin Senders /\ NBUF_MAX <= NRXBD + NTXBD

TxQueue == queue[NBUF_TX_RING]
TxPlace(i) == Ahead(iTxbd_old, i, NTXBD)

(* The first s of the queued frames have been sent, and the transmitter is *)
(* at the next one or, when none is left, behind the last.                 *)
SentUpTo(s) ==
    /\ s \in 0 .. Len(TxQueue)
    /\ IF s = NTXBD THEN txDma.at = iTxbd_old ELSE TxPlace(txDma.at) = s
    /\ \A i \in TxIndex : txbd[i].r <=> TxPlace(i) \in s .. Len(TxQueue) - 1

(* The inductive invariant: the queued frames are in the descriptors from  *)
(* iTxbd_old on, iTxbd_new is behind the last, and the frames sent are the *)
(* first ones.                                                             *)
TxInv ==
    /\ main.pc = "idle"
    /\ Len(TxQueue) <= NTXBD
    /\ IF Len(TxQueue) = NTXBD THEN iTxbd_new = iTxbd_old
       ELSE TxPlace(iTxbd_new) = Len(TxQueue)
    /\ TxRingInOrder
    /\ \E s \in 0 .. Len(TxQueue) : SentUpTo(s)

LEMMA TxRing ==
    ASSUME IInv
    PROVE  /\ NTXBD \in Nat \ {0} /\ TxIndex = 0 .. NTXBD - 1
           /\ iTxbd_old \in TxIndex /\ iTxbd_new \in TxIndex /\ txDma.at \in TxIndex
           /\ \A i : TxNext(i) = RingNext(NTXBD, i)
           /\ TxPlace(iTxbd_old) = 0
           /\ \A i \in TxIndex : TxPlace(i) \in 0 .. NTXBD - 1
           /\ \A i, j \in TxIndex : TxPlace(i) = TxPlace(j) => i = j
           /\ \A i \in TxIndex : TxPlace(i) < NTXBD - 1 => TxPlace(TxNext(i)) = TxPlace(i) + 1
           /\ \A i \in TxIndex : TxPlace(i) = NTXBD - 1 => TxNext(i) = iTxbd_old
           /\ TxQueue \in Seq(Nodes) /\ Len(TxQueue) \in Nat
<1>1. /\ NTXBD \in Nat \ {0} /\ TxIndex = 0 .. NTXBD - 1
      /\ iTxbd_old \in TxIndex /\ iTxbd_new \in TxIndex /\ txDma.at \in TxIndex
  BY FecAssumption DEF IInv, TypeOK, TxIndex
<1>2. \A i : TxNext(i) = RingNext(NTXBD, i)
  BY DEF TxNext, RingNext
<1>3. AheadCounts(NTXBD, iTxbd_old)
  BY <1>1, Counting
<1>4. TxQueue \in Seq(Nodes) /\ Len(TxQueue) \in Nat
  BY PoolShape, QueueNames DEF TxQueue, Pool
<1> QED
  BY <1>1, <1>2, <1>3, <1>4 DEF AheadCounts, TxPlace

(* Behind the oldest descriptor all are one place nearer. *)
LEMMA TxShift ==
    ASSUME IInv, iTxbd_old' = TxNext(iTxbd_old)
    PROVE  /\ \A i \in TxIndex : i # iTxbd_old => Ahead(iTxbd_old', i, NTXBD) = TxPlace(i) - 1
           /\ Ahead(iTxbd_old', iTxbd_old, NTXBD) = NTXBD - 1
<1>1. NTXBD \in Nat \ {0} /\ TxIndex = 0 .. NTXBD - 1 /\ iTxbd_old \in TxIndex
  BY TxRing
<1>2. AheadCounts(NTXBD, iTxbd_old) /\ iTxbd_old' = RingNext(NTXBD, iTxbd_old)
  BY <1>1, Counting, TxRing
<1> QED
  BY <1>1, <1>2 DEF AheadCounts, TxPlace

(* A buffer that the handler is sending is not in the transmit queue yet,  *)
(* and leaves a descriptor of the ring free: buffers have one owner, and   *)
(* the receive ring has NRXBD of them.                                     *)
LEMMA RoomToSend ==
    ASSUME IInv, OnlyHandlerSends, isr.pc = "send"
    PROVE  /\ isr.nbuf \in NBUF /\ ~In(queue, NBUF_TX_RING, isr.nbuf)
           /\ Len(TxQueue) < NTXBD
<1> DEFINE R == queue[NBUF_RX_RING]
           T == TxQueue
           L == Len(T)
           f == [k \in 1 .. L + NRXBD + 1 |->
                   IF k <= L THEN T[k] ELSE IF k <= L + NRXBD THEN R[k - L] ELSE isr.nbuf]
<1>1. TypeOK /\ OneOwner /\ Clean(queue) /\ RxRingInOrder
  BY OwnerParts DEF IInv
<1>2. isr.nbuf \in NBUF
  BY <1>1 DEF TypeOK, Nodes
<1>3. \A q \in NBUF_QUEUES : ~In(queue, q, isr.nbuf)
  <2>1. Owns("isr", isr.nbuf) /\ "isr" \in Owners \ NBUF_QUEUES
    BY OwnsCases DEF Owners, NBUF_QUEUES, NBUF_FREE, NBUF_TX_RING, NBUF_RX_RING
  <2> QED
    BY <1>1, <1>2, <2>1, NotQueued
<1>4. /\ NRXBD \in Nat /\ NTXBD \in Nat /\ NBUF_MAX \in Nat /\ L \in Nat
      /\ R \in Seq(Nodes) /\ T \in Seq(Nodes) /\ Len(R) = NRXBD
  BY <1>1, FecAssumption, NbufAssumption, TxRing, PoolShape, QueueNames DEF RxRingInOrder, Pool
<1>5. /\ \A k \in 1 .. L : T[k] \in NBUF /\ In(queue, NBUF_TX_RING, T[k])
      /\ \A k \in 1 .. NRXBD : R[k] \in NBUF /\ In(queue, NBUF_RX_RING, R[k])
  <2>1. ASSUME NEW q \in NBUF_QUEUES, NEW k \in 1 .. Len(queue[q])
        PROVE  queue[q][k] \in NBUF /\ In(queue, q, queue[q][k])
    <3>1. queue[q][k] \in Nodes
      BY PoolShape DEF Pool
    <3>2. In(queue, q, queue[q][k])
      BY DEF In
    <3>3. queue[q][k] # NULL
      BY <1>1, <3>2 DEF Clean
    <3> QED
      BY <3>1, <3>2, <3>3 DEF Nodes
  <2> QED
    BY <1>4, <2>1, QueueNames DEF TxQueue
<1>6. \A j \in 1 .. L, k \in 1 .. NRXBD : T[j] # R[k]
  <2> SUFFICES ASSUME NEW j \in 1 .. L, NEW k \in 1 .. NRXBD, T[j] = R[k] PROVE FALSE
    OBVIOUS
  <2>1. /\ T[j] \in NBUF /\ Owns(NBUF_TX_RING, T[j]) /\ Owns(NBUF_RX_RING, T[j])
        /\ NBUF_TX_RING \in Owners /\ NBUF_RX_RING \in Owners
    BY <1>5, OwnsCases, QueueNames DEF Owners
  <2> QED
    BY <1>1, <2>1, QueueNames DEF OneOwner
<1>7. /\ \A j, k \in 1 .. L : T[j] = T[k] => j = k
      /\ \A j, k \in 1 .. NRXBD : R[j] = R[k] => j = k
  BY <1>1, <1>4, QueueNames DEF Clean, NoDup, TxQueue
<1>8. /\ \A k \in 1 .. L : T[k] # isr.nbuf
      /\ \A k \in 1 .. NRXBD : R[k] # isr.nbuf
  BY <1>3, <1>5, QueueNames
<1>9. f \in [1 .. L + NRXBD + 1 -> NBUF]
  <2>1. ASSUME NEW k \in 1 .. L + NRXBD + 1, ~(k <= L), k <= L + NRXBD PROVE k - L \in 1 .. NRXBD
    BY <1>4, <2>1
  <2>2. ASSUME NEW k \in 1 .. L + NRXBD + 1, k <= L PROVE k \in 1 .. L
    BY <1>4, <2>2
  <2> HIDE DEF R, T, L
  <2> QED
    BY <1>2, <1>5, <2>1, <2>2
<1>10. ASSUME NEW j \in 1 .. L + NRXBD + 1, NEW k \in 1 .. L + NRXBD + 1, j < k PROVE f[j] # f[k]
  <2> HIDE DEF R, T, L
  <2>1. CASE j <= L
    <3>1. j \in 1 .. L /\ f[j] = T[j]
      BY <1>4, <2>1
    <3>2. CASE k <= L
      <4>1. k \in 1 .. L /\ f[k] = T[k]
        BY <1>4, <3>2
      <4> QED
        BY <1>4, <1>7, <1>10, <3>1, <4>1
    <3>3. CASE ~(k <= L) /\ k <= L + NRXBD
      <4>1. k - L \in 1 .. NRXBD /\ f[k] = R[k - L]
        BY <1>4, <3>3
      <4> QED
        BY <1>6, <3>1, <4>1
    <3>4. CASE ~(k <= L) /\ ~(k <= L + NRXBD)
      <4>1. f[k] = isr.nbuf
        BY <3>4
      <4> QED
        BY <1>8, <3>1, <4>1
    <3> QED
      BY <3>2, <3>3, <3>4, <1>4
  <2>2. CASE ~(j <= L)
    <3>1. ~(k <= L) /\ j <= L + NRXBD
      BY <1>4, <1>10, <2>2
    <3>2. j - L \in 1 .. NRXBD /\ f[j] = R[j - L]
      BY <1>4, <2>2, <3>1
    <3>3. CASE k <= L + NRXBD
      <4>1. k - L \in 1 .. NRXBD /\ f[k] = R[k - L]
        BY <1>4, <3>1, <3>3
      <4>2. j - L # k - L
        BY <1>4, <1>10
      <4> QED
        BY <1>7, <3>2, <4>1, <4>2
    <3>4. CASE ~(k <= L + NRXBD)
      <4>1. f[k] = isr.nbuf
        BY <3>1, <3>4
      <4> QED
        BY <1>8, <3>2, <4>1
    <3> QED
      BY <3>3, <3>4
  <2> QED
    BY <2>1, <2>2
<1>11. L + NRXBD + 1 <= NBUF_MAX
  <2> DEFINE S == 1 .. L + NRXBD + 1
  <2>0. L + NRXBD + 1 \in Nat
    BY <1>4
  <2>1. IsFiniteSet(S) /\ Cardinality(S) = L + NRXBD + 1
    BY <2>0, FS_Interval
  <2>2. IsFiniteSet(NBUF) /\ Cardinality(NBUF) = NBUF_MAX
    BY NbufAssumption, FS_Interval DEF NBUF
  <2>3. ASSUME Cardinality(NBUF) < Cardinality(S) PROVE FALSE
    <3> HIDE DEF f, S
    <3>1. f \in [S -> NBUF]
      BY <1>9 DEF S
    <3>2. PICK x, y \in S : x # y /\ f[x] = f[y]
      BY <2>1, <2>2, <2>3, <3>1, FS_PigeonHole
    <3>3. x < y \/ y < x
      BY <2>0, <3>2 DEF S
    <3> QED
      BY <1>10, <3>2, <3>3 DEF S
  <2> QED
    BY <2>0, <2>1, <2>2, <2>3, <1>4
<1>12. L < NTXBD
  BY <1>4, <1>11 DEF OnlyHandlerSends
<1> QED
  BY <1>2, <1>3, <1>12, QueueNames

-----------------------------------------------------------------------------
(* What the steps do to the transmit ring.                                 *)
TxUnchanged ==
    /\ TxQueue' = TxQueue /\ UNCHANGED <<txbd, iTxbd_new, iTxbd_old>>
    /\ txDma'.at = txDma.at /\ main'.pc = main.pc

LEMMA TxKept ==
    ASSUME TxInv, TxUnchanged
    PROVE  TxInv' /\ \A s : SentUpTo(s) => SentUpTo(s)'
<1>1. \A s : SentUpTo(s)' <=> SentUpTo(s)
  BY DEF SentUpTo, TxUnchanged, TxPlace
<1>2. TxRingInOrder'
  BY DEF TxInv, TxUnchanged, TxRingInOrder, TxQueue
<1> QED
  BY <1>1, <1>2 DEF TxInv, TxUnchanged, TxPlace

(* The k-th place: the frame in a descriptor.                              *)
LEMMA TxContents ==
    ASSUME TxInv, NEW i \in TxIndex
    PROVE  IF TxPlace(i) + 1 <= Len(TxQueue)
           THEN txbd[i].data = TxQueue[TxPlace(i) + 1]
           ELSE txbd[i] = [r |-> FALSE, data |-> NULL]
  BY DEF TxInv, TxRingInOrder, TxPlace, TxQueue

(* The transmitter sends the next frame.                                   *)
LEMMA TxTransmits ==
    ASSUME IInv, TxInv, NEW s, SentUpTo(s), DmaTransmit
    PROVE  TxInv' /\ s < Len(TxQueue) /\ SentUpTo(s + 1)' /\ TxQueue' = TxQueue
<1> DEFINE n == NTXBD
           d == txDma.at
           L == Len(TxQueue)
<1>1. /\ n \in Nat \ {0} /\ TxIndex = 0 .. n - 1 /\ d \in TxIndex /\ iTxbd_old \in TxIndex
      /\ L \in Nat /\ L <= n /\ s \in 0 .. L
      /\ \A i \in TxIndex : TxPlace(i) \in 0 .. n - 1
      /\ txbd \in [TxIndex -> [r : BOOLEAN, data : Nodes]]
  BY TxRing DEF TxInv, SentUpTo, IInv, TypeOK
<1>2. TxPlace(d) \in s .. L - 1
  BY <1>1 DEF SentUpTo, DmaTransmit
<1>3. s # n /\ TxPlace(d) = s /\ s < L
  <2>1. s < L
    BY <1>1, <1>2
  <2>2. s # n
    BY <1>1, <2>1
  <2> QED
    BY <2>1, <2>2 DEF SentUpTo
<1>4. /\ TxQueue' = TxQueue /\ UNCHANGED <<iTxbd_old, iTxbd_new, main>>
      /\ txDma'.at = TxNext(d)
      /\ txbd' = [txbd EXCEPT ![d].r = FALSE]
  BY DEF DmaTransmit, TxQueue, IInv, TypeOK
<1>5. \A i : TxPlace(i)' = TxPlace(i)
  BY <1>4 DEF TxPlace
<1>6. \A i \in TxIndex : i # d => txbd'[i] = txbd[i]
  BY <1>1, <1>4
<1>7. txbd'[d].r = FALSE /\ txbd'[d].data = txbd[d].data
  BY <1>1, <1>4
<1>8. ASSUME NEW i \in TxIndex PROVE txbd'[i].r <=> TxPlace(i) \in s + 1 .. L - 1
  <2>1. CASE i = d
    BY <1>1, <1>3, <1>7, <2>1
  <2>2. CASE i # d
    <3>1. TxPlace(i) # s
      BY <1>1, <1>3, <2>2, TxRing
    <3>2. txbd'[i].r <=> TxPlace(i) \in s .. L - 1
      BY <1>6, <2>2 DEF SentUpTo
    <3>3. TxPlace(i) \in Int /\ s \in Int /\ L \in Int
      BY <1>1
    <3> QED
      BY <3>1, <3>2, <3>3
  <2> QED
    BY <2>1, <2>2
<1>9. IF s + 1 = n THEN txDma'.at = iTxbd_old ELSE TxPlace(txDma'.at) = s + 1
  <2>1. CASE s + 1 = n
    BY <1>1, <1>3, <1>4, <2>1, TxRing
  <2>2. CASE s + 1 # n
    <3>1. s < n - 1
      BY <1>1, <1>3, <2>2
    <3> QED
      BY <1>1, <1>3, <1>4, <2>2, <3>1, TxRing
  <2> QED
    BY <2>1, <2>2
<1>10. s + 1 \in 0 .. L
  BY <1>1, <1>3
<1>11. SentUpTo(s + 1)'
  BY <1>4, <1>5, <1>8, <1>9, <1>10 DEF SentUpTo
<1>12. TxRingInOrder'
  <2> SUFFICES ASSUME NEW i \in TxIndex
               PROVE  IF TxPlace(i) + 1 <= L THEN txbd'[i].data = TxQueue[TxPlace(i) + 1]
                      ELSE txbd'[i] = [r |-> FALSE, data |-> NULL]
    BY <1>4 DEF TxRingInOrder, TxPlace, TxQueue
  <2>1. CASE i = d
    <3>1. TxPlace(i) + 1 <= L
      BY <1>1, <1>3, <2>1
    <3> QED
      BY <1>7, <2>1, <3>1, TxContents
  <2>2. CASE i # d
    BY <1>6, <2>2, TxContents
  <2> QED
    BY <2>1, <2>2
<1> QED
  BY <1>3, <1>4, <1>5, <1>10, <1>11, <1>12 DEF TxInv

(* fec_send puts a frame behind the last.                                  *)
LEMMA TxSends ==
    ASSUME IInv, TxInv, OnlyHandlerSends, NEW s, SentUpTo(s), IsrSend
    PROVE  TxInv' /\ SentUpTo(s)' /\ TxQueue' = Append(TxQueue, isr.nbuf)
<1> DEFINE n == NTXBD
           d == iTxbd_new
           b == isr.nbuf
           L == Len(TxQueue)
<1>1. /\ n \in Nat \ {0} /\ TxIndex = 0 .. n - 1 /\ d \in TxIndex /\ iTxbd_old \in TxIndex
      /\ L \in Nat /\ s \in 0 .. L /\ TxQueue \in Seq(Nodes)
      /\ \A i \in TxIndex : TxPlace(i) \in 0 .. n - 1
      /\ txbd \in [TxIndex -> [r : BOOLEAN, data : Nodes]]
  BY TxRing DEF TxInv, SentUpTo, IInv, TypeOK
<1>n. n \in Nat /\ L \in Nat
  BY <1>1
<1>2. L < n /\ b \in NBUF /\ b \in Nodes
  BY RoomToSend DEF IsrSend, Nodes
<1>3. TxPlace(d) = L
  BY <1>1, <1>2 DEF TxInv
<1>4. /\ TxQueue' = Append(TxQueue, b)
      /\ UNCHANGED <<iTxbd_old, main>> /\ iTxbd_new' = TxNext(d) /\ txDma'.at = txDma.at
      /\ txbd' = [txbd EXCEPT ![d] = [r |-> TRUE, data |-> b]]
  <2>1. queue' = nbuf_add(queue, NBUF_TX_RING, b)
    BY DEF IsrSend
  <2>2. TxQueue' = Append(TxQueue, b)
    BY <1>2, <2>1, AddFacts, PoolShape, QueueNames DEF TxQueue
  <2>3. txDma'.at = txDma.at
    BY DEF IsrSend, fec_tx_continue, IInv, TypeOK
  <2> QED
    BY <2>2, <2>3 DEF IsrSend
<1>5. /\ Len(TxQueue') = L + 1 /\ TxQueue'[L + 1] = b
      /\ \A k \in 1 .. L : TxQueue'[k] = TxQueue[k]
  BY <1>1, <1>2, <1>4
<1>6. \A i : TxPlace(i)' = TxPlace(i)
  BY <1>4 DEF TxPlace
<1>7. /\ \A i \in TxIndex : i # d => txbd'[i] = txbd[i]
      /\ txbd'[d] = [r |-> TRUE, data |-> b]
  BY <1>1, <1>4
<1>8. ASSUME NEW i \in TxIndex, i # d PROVE TxPlace(i) # L
  BY <1>1, <1>3, <1>8, TxRing
<1>9. ASSUME NEW i \in TxIndex PROVE txbd'[i].r <=> TxPlace(i) \in s .. L
  <2>1. CASE i = d
    <3>1. txbd'[i].r
      BY <1>7, <2>1
    <3> QED
      BY <1>1, <1>3, <2>1, <3>1
  <2>2. CASE i # d
    <3>1. txbd'[i].r <=> TxPlace(i) \in s .. L - 1
      BY <1>7, <2>2 DEF SentUpTo
    <3>2. TxPlace(i) \in Int /\ s \in Int /\ L \in Int /\ TxPlace(i) # L
      BY <1>1, <1>8, <2>2
    <3> QED
      BY <3>1, <3>2
  <2> QED
    BY <2>1, <2>2
<1>10. SentUpTo(s)'
  <2>1. s \in 0 .. L + 1 /\ L + 1 - 1 = L
    BY <1>1
  <2>2. IF s = n THEN txDma'.at = iTxbd_old' ELSE TxPlace(txDma'.at) = s
    BY <1>4 DEF SentUpTo
  <2> QED
    BY <1>4, <1>5, <1>6, <1>9, <2>1, <2>2 DEF SentUpTo
<1>11. IF L + 1 = n THEN iTxbd_new' = iTxbd_old ELSE TxPlace(iTxbd_new') = L + 1
  <2>1. CASE L + 1 = n
    <3>1. L = n - 1
      BY <1>n, <2>1
    <3> QED
      BY <1>1, <1>3, <1>4, <2>1, <3>1, TxRing
  <2>2. CASE L + 1 # n
    <3>1. L < n - 1
      BY <1>n, <1>2, <2>2
    <3> QED
      BY <1>1, <1>3, <1>4, <2>2, <3>1, TxRing
  <2> QED
    BY <2>1, <2>2
<1>12. TxRingInOrder'
  <2> SUFFICES ASSUME NEW i \in TxIndex
               PROVE  IF TxPlace(i) + 1 <= L + 1 THEN txbd'[i].data = TxQueue'[TxPlace(i) + 1]
                      ELSE txbd'[i] = [r |-> FALSE, data |-> NULL]
    BY <1>4, <1>5 DEF TxRingInOrder, TxPlace, TxQueue
  <2>1. CASE i = d
    <3>1. TxPlace(i) = L /\ txbd'[i].data = b /\ L + 1 <= L + 1
      BY <1>n, <1>3, <1>7, <2>1
    <3> QED
      BY <1>5, <3>1
  <2>2. CASE i # d
    <3> DEFINE p == TxPlace(i)
    <3>1. p \in Nat /\ p # L /\ L \in Nat
      BY <1>1, <1>8, <2>2
    <3>4. \A k \in 1 .. L : TxQueue'[k] = TxQueue[k]
      BY <1>1, <1>5
    <3>5. txbd'[i] = txbd[i]
      BY <1>7, <2>2
    <3>6. IF p + 1 <= L THEN txbd[i].data = TxQueue[p + 1]
          ELSE txbd[i] = [r |-> FALSE, data |-> NULL]
      BY TxContents
    <3> HIDE DEF p, L
    <3>2. p + 1 <= L + 1 <=> p + 1 <= L
      BY <3>1
    <3>3. p + 1 <= L => p + 1 \in 1 .. L
      BY <3>1
    <3>7. IF p + 1 <= L + 1 THEN txbd'[i].data = TxQueue'[p + 1]
          ELSE txbd'[i] = [r |-> FALSE, data |-> NULL]
      BY <3>2, <3>3, <3>4, <3>5, <3>6
    <3> QED
      BY <3>7 DEF p, L
  <2> QED
    BY <2>1, <2>2
<1>13. L + 1 <= n /\ s \in 0 .. L + 1
  BY <1>1, <1>2
<1> QED
  BY <1>4, <1>5, <1>6, <1>10, <1>11, <1>12, <1>13 DEF TxInv

(* fec_tx_frame gives back the first frame.                                *)
LEMMA TxGivesBack ==
    ASSUME IInv, TxInv, NEW s, SentUpTo(s), TxFrame
    PROVE  /\ TxInv' /\ s >= 1 /\ SentUpTo(s - 1)'
           /\ TxQueue # << >> /\ TxQueue' = Tail(TxQueue)
<1> DEFINE n == NTXBD
           d == iTxbd_old
           L == Len(TxQueue)
           P(i) == Ahead(iTxbd_old', i, NTXBD)
<1>1. /\ n \in Nat \ {0} /\ TxIndex = 0 .. n - 1 /\ d \in TxIndex /\ iTxbd_new \in TxIndex
      /\ txDma.at \in TxIndex
      /\ L \in Nat /\ L <= n /\ s \in 0 .. L /\ TxQueue \in Seq(Nodes)
      /\ \A i \in TxIndex : TxPlace(i) \in 0 .. n - 1
      /\ txbd \in [TxIndex -> [r : BOOLEAN, data : Nodes]]
  BY TxRing DEF TxInv, SentUpTo, IInv, TypeOK
<1>n. n \in Nat \ {0} /\ L \in Nat /\ L <= n /\ s \in 0 .. L
  BY <1>1
<1>2. TxPlace(d) = 0 /\ txbd[d].data # NULL /\ ~txbd[d].r
  BY TxRing DEF TxFrame, TxFreeable
<1>3. L >= 1
  <2> SUFFICES ASSUME L = 0 PROVE FALSE
    BY <1>1
  <2>1. txbd[d] = [r |-> FALSE, data |-> NULL]
    BY <1>1, <1>2, TxContents
  <2> QED
    BY <1>2, <2>1
<1>4. s >= 1
  <2>1. ~(0 \in s .. L - 1)
    BY <1>1, <1>2 DEF SentUpTo
  <2> QED
    BY <1>1, <1>3, <2>1
<1>5. /\ TxQueue # << >> /\ TxQueue' = Tail(TxQueue)
      /\ UNCHANGED <<iTxbd_new, txDma, main>> /\ iTxbd_old' = TxNext(d)
      /\ txbd' = [txbd EXCEPT ![d].data = NULL]
  <2>1. TxQueue # << >>
    BY <1>1, <1>3
  <2> DEFINE rest == nbuf_remove(queue, NBUF_TX_RING)
             b    == queue_peek(queue[NBUF_TX_RING])
  <2>2. rest[NBUF_TX_RING] = Tail(TxQueue) /\ rest \in Pool
    BY <2>1, RemoveFacts, PoolShape, QueueNames DEF TxQueue
  <2>3. b \in Nodes
    BY PoolKept, PoolShape, QueueNames
  <2>4. queue' = nbuf_free(rest, b)
    BY DEF TxFrame
  <2> HIDE DEF rest, b
  <2>5. queue'[NBUF_TX_RING] = rest[NBUF_TX_RING]
    BY <2>2, <2>3, <2>4, AddFacts, QueueNames DEF nbuf_free
  <2> QED
    BY <2>1, <2>2, <2>5 DEF TxFrame, TxQueue
<1>6. /\ Len(TxQueue') = L - 1
      /\ \A k \in 1 .. L - 1 : TxQueue'[k] = TxQueue[k + 1]
  BY <1>1, <1>3, <1>5
<1>7. /\ P(d) = n - 1
      /\ \A i \in TxIndex : i # d => P(i) = TxPlace(i) - 1
      /\ \A i : TxPlace(i)' = P(i)
  BY <1>5, TxShift DEF TxPlace
<1>8. /\ \A i \in TxIndex : i # d => txbd'[i] = txbd[i]
      /\ txbd'[d].r = txbd[d].r /\ txbd'[d] = [r |-> FALSE, data |-> NULL]
  <2>1. txbd[d] \in [r : BOOLEAN, data : Nodes] /\ txbd[d].r = FALSE
    BY <1>1, <1>2
  <2>2. txbd'[d] = [txbd[d] EXCEPT !.data = NULL]
    BY <1>1, <1>5
  <2>3. txbd'[d] = [r |-> FALSE, data |-> NULL]
    BY <2>1, <2>2
  <2> QED
    BY <1>1, <1>5, <2>1, <2>3
<1>9. ASSUME NEW i \in TxIndex PROVE txbd'[i].r <=> P(i) \in s - 1 .. L - 2
  <2>1. CASE i = d
    <3>1. ~txbd'[i].r /\ P(i) = n - 1
      BY <1>2, <1>7, <1>8, <2>1
    <3>2. ~(n - 1 \in s - 1 .. L - 2)
      BY <1>n
    <3> QED
      BY <3>1, <3>2
  <2>2. CASE i # d
    <3>1. txbd'[i].r <=> TxPlace(i) \in s .. L - 1
      BY <1>8, <2>2 DEF SentUpTo
    <3>2. P(i) = TxPlace(i) - 1
      BY <1>7, <2>2
    <3>3. TxPlace(i) \in Int /\ s \in Int /\ L \in Int
      BY <1>1
    <3> QED
      BY <3>1, <3>2, <3>3
  <2> QED
    BY <2>1, <2>2
<1>10. SentUpTo(s - 1)'
  <2>1. s - 1 \in 0 .. L - 1 /\ s - 1 # n /\ L - 1 - 1 = L - 2
    BY <1>1, <1>4
  <2>2. P(txDma.at) = s - 1
    <3>1. CASE s = n
      BY <1>7, <3>1 DEF SentUpTo
    <3>2. CASE s # n
      <4>1. TxPlace(txDma.at) = s
        BY <3>2 DEF SentUpTo
      <4>2. txDma.at # d
        BY <1>1, <1>2, <1>4, <4>1
      <4> QED
        BY <1>1, <1>7, <4>1, <4>2
    <3> QED
      BY <3>1, <3>2
  <2> QED
    BY <1>5, <1>6, <1>7, <1>9, <2>1, <2>2 DEF SentUpTo
<1>11. L - 1 # n /\ P(iTxbd_new) = L - 1
  <2>1. CASE L = n
    <3>1. iTxbd_new = d
      BY <2>1 DEF TxInv
    <3> QED
      BY <1>1, <1>7, <2>1, <3>1
  <2>2. CASE L # n
    <3>1. TxPlace(iTxbd_new) = L
      BY <2>2 DEF TxInv
    <3>2. iTxbd_new # d
      BY <1>2, <1>3, <3>1
    <3>3. P(iTxbd_new) = TxPlace(iTxbd_new) - 1
      BY <1>1, <1>7, <3>2
    <3> QED
      BY <1>n, <3>1, <3>3
  <2> QED
    BY <2>1, <2>2
<1>12. TxRingInOrder'
  <2> SUFFICES ASSUME NEW i \in TxIndex
               PROVE  IF P(i) + 1 <= L - 1 THEN txbd'[i].data = TxQueue'[P(i) + 1]
                      ELSE txbd'[i] = [r |-> FALSE, data |-> NULL]
    BY <1>6 DEF TxRingInOrder, TxQueue
  <2>1. CASE i = d
    <3>1. P(i) = n - 1
      BY <1>7, <2>1
    <3>2. ~(n - 1 + 1 <= L - 1)
      BY <1>n
    <3> QED
      BY <1>8, <2>1, <3>1, <3>2
  <2>2. CASE i # d
    <3>0. TxPlace(i) \in Nat
      BY <1>1
    <3>1. P(i) = TxPlace(i) - 1 /\ P(i) + 1 = TxPlace(i)
      BY <1>7, <2>2, <3>0
    <3>2. P(i) + 1 <= L - 1 <=> TxPlace(i) + 1 <= L
      BY <1>n, <3>0, <3>1
    <3>3. TxPlace(i) # 0
      BY <1>1, <1>2, <2>2, TxRing
    <3>4. TxPlace(i) + 1 <= L => TxQueue'[TxPlace(i)] = TxQueue[TxPlace(i) + 1]
      BY <1>n, <1>6, <3>0, <3>3
    <3> QED
      BY <1>8, <2>2, <3>1, <3>2, <3>4, TxContents
  <2> QED
    BY <2>1, <2>2
<1>13. L - 1 <= n /\ s - 1 \in 0 .. L - 1
  BY <1>1, <1>4
<1> QED
  BY <1>4, <1>5, <1>6, <1>7, <1>10, <1>11, <1>12, <1>13 DEF TxInv

LEMMA AddElsewhere ==
    ASSUME NEW qs \in Pool, NEW q \in NBUF_QUEUES, NEW b \in Nodes, NEW r \in NBUF_QUEUES, r # q
    PROVE  nbuf_add(qs, q, b)[r] = qs[r]
  BY AddFacts

LEMMA RemoveElsewhere ==
    ASSUME NEW qs \in Pool, NEW q \in NBUF_QUEUES, NEW r \in NBUF_QUEUES, r # q
    PROVE  nbuf_remove(qs, q)[r] = qs[r]
  BY DEF nbuf_remove, Pool

(* Nothing else touches the transmit ring or its queue.                    *)
LEMMA TxSteps ==
    ASSUME IInv, TxInv, OnlyHandlerSends, [Next]_vars
    PROVE  TxUnchanged \/ DmaTransmit \/ IsrSend \/ TxFrame
<1> USE PoolShape, QueueNames
<1>0. TypeOK
  BY DEF IInv
<1>1. ASSUME queue' = queue, UNCHANGED <<txVars, main>> PROVE TxUnchanged
  BY <1>1 DEF TxUnchanged, TxQueue, txVars
<1>2. ASSUME queue'[NBUF_TX_RING] = queue[NBUF_TX_RING], UNCHANGED <<txVars, main>> PROVE TxUnchanged
  BY <1>2 DEF TxUnchanged, TxQueue, txVars
<1>3. CASE Dma
  <2>1. CASE DmaTransmitHalt
    BY <1>0, <2>1 DEF DmaTransmitHalt, TxUnchanged, TxQueue, TypeOK
  <2>2. CASE (\E good \in BOOLEAN : DmaReceive(good)) \/ DmaReceiveHalt
    BY <1>1, <2>2 DEF DmaReceive, DmaReceiveHalt
  <2> QED
    BY <1>3, <2>1, <2>2 DEF Dma
<1>4. CASE IsrEnter \/ IsrExit \/ RxDone \/ TxDone \/ UpHold \/ UpLeak \/ UpReply
  BY <1>1, <1>4 DEF IsrEnter, IsrExit, RxDone, TxDone, UpHold, UpLeak, UpReply
<1>5. CASE RxKeep
  <2> DEFINE without == nbuf_remove(queue, NBUF_RX_RING)
             new     == queue_peek(without[NBUF_FREE])
  <2>1. without \in Pool /\ without[NBUF_TX_RING] = queue[NBUF_TX_RING]
    BY PoolKept, RemoveElsewhere
  <2>2. queue' = nbuf_add(nbuf_alloc(without), NBUF_RX_RING, new) /\ UNCHANGED <<txVars, main>>
    BY <1>5 DEF RxKeep
  <2> HIDE DEF without
  <2>3. new \in Nodes /\ nbuf_alloc(without) \in Pool
    BY <2>1, PoolKept
  <2>4. nbuf_alloc(without)[NBUF_TX_RING] = without[NBUF_TX_RING]
    BY <2>1 DEF nbuf_alloc, nbuf_remove, Pool
  <2> HIDE DEF new
  <2>5. queue'[NBUF_TX_RING] = queue[NBUF_TX_RING]
    BY <2>1, <2>2, <2>3, <2>4, AddElsewhere
  <2> QED
    BY <1>2, <2>2, <2>5
<1>6. CASE RxDrop
  <2> DEFINE without == nbuf_remove(queue, NBUF_RX_RING)
             cur     == queue_peek(queue[NBUF_RX_RING])
  <2>1. without \in Pool /\ without[NBUF_TX_RING] = queue[NBUF_TX_RING] /\ cur \in Nodes
    BY PoolKept, RemoveElsewhere
  <2>2. queue' = nbuf_add(without, NBUF_RX_RING, cur) /\ UNCHANGED <<txVars, main>>
    BY <1>6 DEF RxDrop
  <2> HIDE DEF without, cur
  <2>3. queue'[NBUF_TX_RING] = queue[NBUF_TX_RING]
    BY <2>1, <2>2, AddElsewhere
  <2> QED
    BY <1>2, <2>2, <2>3
<1>7. ASSUME NEW b, b \in Nodes, queue' = nbuf_free(queue, b)
      PROVE  queue'[NBUF_TX_RING] = queue[NBUF_TX_RING]
  <2>1. queue' = nbuf_add(queue, NBUF_FREE, b)
    BY <1>7 DEF nbuf_free
  <2> QED
    BY <1>7, <2>1, AddElsewhere
<1>8. CASE UpFree
  <2>1. isr.nbuf \in Nodes
    BY <1>0 DEF TypeOK
  <2> QED
    BY <1>2, <1>7, <1>8, <2>1 DEF UpFree
<1>9. CASE \E b \in NBUF : MainFree(b)
  BY <1>2, <1>7, <1>9 DEF MainFree, Nodes
<1>10. CASE MainBuild \/ Send
  <2>1. ~MainBuild
    BY DEF MainBuild, OnlyHandlerSends
  <2>2. ~Send
    BY DEF TxInv, Send, MainTxAlloc, MainTxBump, MainTxAdd, MainTxData, MainTxReady,
           MainTxContinue, MainStep
  <2> QED
    BY <1>10, <2>1, <2>2
<1>11. CASE UNCHANGED vars
  BY <1>1, <1>11 DEF vars, txVars
<1> QED
  BY <1>3, <1>4, <1>5, <1>6, <1>8, <1>9, <1>10, <1>11 DEF Next, Isr, Up

LEMMA TxInvInit == Init => TxInv
<1> SUFFICES ASSUME Init PROVE TxInv
  OBVIOUS
<1>1. TxQueue = << >> /\ Len(TxQueue) = 0 /\ NTXBD \in Nat \ {0} /\ TxIndex = 0 .. NTXBD - 1
  BY FecAssumption
     DEF Init, TxQueue, nbuf_init, NBUF_QUEUES, NBUF_FREE, NBUF_TX_RING, NBUF_RX_RING, TxIndex
<1>2. /\ main.pc = "idle" /\ iTxbd_old = 0 /\ iTxbd_new = 0 /\ txDma.at = 0
      /\ \A i \in TxIndex : txbd[i] = [r |-> FALSE, data |-> NULL]
  BY DEF Init
<1>3. TxPlace(0) = 0 /\ \A i \in TxIndex : TxPlace(i) \in 0 .. NTXBD - 1
  BY <1>1, <1>2 DEF TxPlace, Ahead
<1>4. TxRingInOrder
  <2>1. ASSUME NEW i \in TxIndex PROVE ~(TxPlace(i) + 1 <= Len(TxQueue))
    BY <1>1, <1>3
  <2> QED
    BY <1>2, <2>1 DEF TxRingInOrder, TxPlace, TxQueue
<1>5. SentUpTo(0)
  BY <1>1, <1>2, <1>3 DEF SentUpTo
<1> QED
  BY <1>1, <1>2, <1>3, <1>4, <1>5 DEF TxInv

LEMMA TxInvNext == IInv /\ TxInv /\ OnlyHandlerSends /\ [Next]_vars => TxInv'
<1> SUFFICES ASSUME IInv, TxInv, OnlyHandlerSends, [Next]_vars PROVE TxInv'
  OBVIOUS
<1>1. PICK s \in 0 .. Len(TxQueue) : SentUpTo(s)
  BY DEF TxInv
<1> QED
  BY <1>1, TxSteps, TxKept, TxTransmits, TxSends, TxGivesBack

LEMMA TxInvariance == ASSUME OnlyHandlerSends PROVE Spec => [](IInv /\ TxInv)
<1>1. Init => IInv /\ TxInv
  BY InitInv, TxInvInit
<1>2. IInv /\ TxInv /\ [Next]_vars => IInv' /\ TxInv'
  BY TxInvNext, TypeStep, OwnerStep, RxStep, TxStep DEF IInv
<1> QED
  BY <1>1, <1>2, PTL DEF Spec

(* As long as only the interrupt handler sends: what fec_tx_frame frees is *)
(* the buffer of the descriptor that was sent.                             *)
THEOREM TransmitRingInOrder == ASSUME OnlyHandlerSends PROVE Spec => []TxRingInOrder
<1>1. TxInv => TxRingInOrder
  BY DEF TxInv
<1> QED
  BY <1>1, TxInvariance, PTL

(* As long as only the interrupt handler sends, it never spins for a free  *)
(* descriptor at IPL 7.                                                    *)
THEOREM HandlerSendsAtOnce == ASSUME OnlyHandlerSends PROVE Spec => []IsrNeverWaits
<1>1. IInv /\ TxInv => IsrNeverWaits
  <2> SUFFICES ASSUME IInv, TxInv, isr.pc = "send" PROVE ~txbd[iTxbd_new].r
    BY DEF IsrNeverWaits
  <2>1. Len(TxQueue) < NTXBD /\ NTXBD \in Nat /\ Len(TxQueue) \in Nat /\ iTxbd_new \in TxIndex
    BY RoomToSend, TxRing
  <2>2. TxPlace(iTxbd_new) = Len(TxQueue)
    BY <2>1 DEF TxInv
  <2>3. ~(TxPlace(iTxbd_new) + 1 <= Len(TxQueue))
    BY <2>1, <2>2
  <2>4. txbd[iTxbd_new] = [r |-> FALSE, data |-> NULL]
    BY <2>1, <2>3, TxContents
  <2> QED
    BY <2>4
<1> QED
  BY <1>1, TxInvariance, PTL

-----------------------------------------------------------------------------
(* The refinement of TxFifo: the FIFO that a queue stands for of whose     *)
(* frames the first s have been sent.                                      *)
View(q, s) == [k \in 1 .. Len(q) |-> [buffer |-> q[k], sent |-> (k <= s)]]
RingView(q, bds, old) ==
    [k \in 1 .. Len(q) |-> [buffer |-> q[k], sent |-> ~bds[(old + k - 1) % NTXBD].r]]

LEMMA WrapsOnce ==
    ASSUME NEW n \in Nat \ {0}, NEW r \in 0 .. n - 1
    PROVE  (r + n) % n = r
OBVIOUS

LEMMA RingIsView ==
    ASSUME NEW q \in Seq(Nodes), NEW bds, NEW old \in TxIndex, NEW s \in 0 .. Len(q),
           Len(q) <= NTXBD,
           \A i \in TxIndex : bds[i].r <=> Ahead(old, i, NTXBD) \in s .. Len(q) - 1
    PROVE  RingView(q, bds, old) = View(q, s)
<1>1. NTXBD \in Nat \ {0} /\ TxIndex = 0 .. NTXBD - 1 /\ Len(q) \in Nat
  BY FecAssumption DEF TxIndex
<1>2. ASSUME NEW k \in 1 .. Len(q)
      PROVE  /\ (old + k - 1) % NTXBD \in TxIndex
             /\ Ahead(old, (old + k - 1) % NTXBD, NTXBD) = k - 1
  <2>1. CASE old + k - 1 < NTXBD
    <3> DEFINE a == old + k - 1
    <3>0. a \in 0 .. NTXBD - 1
      BY <1>1, <2>1
    <3>1. a % NTXBD = a
      <4> HIDE DEF a
      <4> QED
        BY <1>1, <3>0
    <3> QED
      BY <1>1, <2>1, <3>1 DEF Ahead
  <2>2. CASE old + k - 1 >= NTXBD
    <3> DEFINE r == old + k - 1 - NTXBD
    <3>1. r \in 0 .. NTXBD - 1 /\ old + k - 1 = r + NTXBD
      BY <1>1, <2>2
    <3>2. (r + NTXBD) % NTXBD = r
      <4> HIDE DEF r
      <4> QED
        BY <1>1, <3>1, WrapsOnce
    <3>3. (old + k - 1) % NTXBD = r
      BY <3>1, <3>2
    <3>4. r < old /\ old \in Nat
      BY <1>1, <2>2
    <3>5. Ahead(old, r, NTXBD) = r - old + NTXBD
      BY <3>1, <3>4 DEF Ahead
    <3>6. r - old + NTXBD = k - 1
      BY <1>1
    <3> QED
      BY <1>1, <3>1, <3>3, <3>5, <3>6
  <2> QED
    BY <1>1, <2>1, <2>2
<1>3. ASSUME NEW k \in 1 .. Len(q)
      PROVE  ~bds[(old + k - 1) % NTXBD].r <=> k <= s
  <2>1. bds[(old + k - 1) % NTXBD].r <=> k - 1 \in s .. Len(q) - 1
    BY <1>2
  <2> QED
    BY <1>1, <2>1
<1>4. ASSUME NEW k \in 1 .. Len(q)
      PROVE  (~bds[(old + k - 1) % NTXBD].r) = (k <= s)
  BY <1>3
<1> QED
  BY <1>4 DEF RingView, View

LEMMA SequenceIsFunction ==
    ASSUME NEW S, NEW w \in Seq(S), NEW n, Len(w) = n
    PROVE  w \in [1 .. n -> S]
OBVIOUS

LEMMA ViewGrows ==
    ASSUME NEW q \in Seq(Nodes), NEW b \in Nodes, NEW s \in 0 .. Len(q)
    PROVE  View(Append(q, b), s) = Append(View(q, s), [buffer |-> b, sent |-> FALSE])
<1> DEFINE v == View(q, s)
           w == Append(v, [buffer |-> b, sent |-> FALSE])
           Frame == [buffer : Nodes, sent : BOOLEAN]
<1>1. Len(q) \in Nat /\ Len(Append(q, b)) = Len(q) + 1
      /\ Append(q, b)[Len(q) + 1] = b /\ \A k \in 1 .. Len(q) : Append(q, b)[k] = q[k]
  OBVIOUS
<1>2. v \in Seq(Frame) /\ Len(v) = Len(q)
  BY <1>1 DEF View
<1>3. /\ w \in [1 .. Len(q) + 1 -> Frame]
      /\ w[Len(q) + 1] = [buffer |-> b, sent |-> FALSE]
      /\ \A k \in 1 .. Len(q) : w[k] = v[k]
  <2> DEFINE e == [buffer |-> b, sent |-> FALSE]
  <2>1. e \in Frame
    OBVIOUS
  <2>2. Len(q) \in Nat
    OBVIOUS
  <2> HIDE DEF v, e, Frame
  <2>3. Append(v, e) \in [1 .. Len(q) + 1 -> Frame]
    <3>1. Append(v, e) \in Seq(Frame) /\ Len(Append(v, e)) = Len(q) + 1
      BY <1>2, <2>1, <2>2
    <3> QED
      BY <3>1, SequenceIsFunction
  <2>4. Append(v, e)[Len(q) + 1] = e /\ \A k \in 1 .. Len(q) : Append(v, e)[k] = v[k]
    BY <1>2, <2>1, <2>2
  <2> QED
    BY <2>3, <2>4 DEF e
<1>4. ASSUME NEW k \in 1 .. Len(q) + 1
      PROVE  w[k] = [buffer |-> Append(q, b)[k], sent |-> (k <= s)]
  <2>1. CASE k \in 1 .. Len(q)
    BY <1>1, <1>3, <2>1 DEF View
  <2>2. CASE k = Len(q) + 1
    <3>1. (k <= s) = FALSE
      BY <1>1, <2>2
    <3> QED
      BY <1>1, <1>3, <2>2, <3>1
  <2>3. Len(q) \in Nat
    OBVIOUS
  <2>4. k \in 1 .. Len(q) \/ k = Len(q) + 1
    BY <2>3
  <2> QED
    BY <2>1, <2>2, <2>4
<1> HIDE DEF w
<1> QED
  BY <1>1, <1>3, <1>4 DEF View, w

LEMMA ViewSends ==
    ASSUME NEW q \in Seq(Nodes), NEW s \in 0 .. Len(q), s < Len(q)
    PROVE  View(q, s + 1) = [View(q, s) EXCEPT ![s + 1].sent = TRUE]
<1>1. Len(q) \in Nat /\ s + 1 \in 1 .. Len(q)
  OBVIOUS
<1>2. ASSUME NEW k \in 1 .. Len(q)
      PROVE  View(q, s + 1)[k] = [View(q, s) EXCEPT ![s + 1].sent = TRUE][k]
  <2>1. CASE k = s + 1
    <3>1. (k <= s + 1) = TRUE
      BY <1>1, <2>1
    <3> QED
      BY <1>1, <2>1, <3>1 DEF View
  <2>2. CASE k # s + 1
    <3>1. (k <= s + 1) = (k <= s)
      BY <1>1, <2>2
    <3> QED
      BY <1>1, <2>2, <3>1 DEF View
  <2> QED
    BY <2>1, <2>2
<1> QED
  BY <1>2 DEF View

LEMMA ViewShrinks ==
    ASSUME NEW q \in Seq(Nodes), NEW s \in 1 .. Len(q), q # << >>
    PROVE  /\ View(q, s) # << >> /\ Head(View(q, s)).sent
           /\ View(Tail(q), s - 1) = Tail(View(q, s))
<1> DEFINE v == View(q, s)
           Frame == [buffer : Nodes, sent : BOOLEAN]
<1>1. Len(q) \in Nat \ {0} /\ Len(Tail(q)) = Len(q) - 1
      /\ \A k \in 1 .. Len(q) - 1 : Tail(q)[k] = q[k + 1]
  OBVIOUS
<1>2. v \in Seq(Frame) /\ Len(v) = Len(q)
  BY <1>1 DEF View
<1>3. v[1].sent
  <2>1. 1 \in 1 .. Len(q) /\ 1 <= s
    BY <1>1
  <2> QED
    BY <2>1 DEF View
<1>4. \A k \in 1 .. Len(q) - 1 :
          v[k + 1] = [buffer |-> Tail(q)[k], sent |-> (k <= s - 1)]
  <2> SUFFICES ASSUME NEW k \in 1 .. Len(q) - 1
               PROVE  v[k + 1] = [buffer |-> Tail(q)[k], sent |-> (k <= s - 1)]
    OBVIOUS
  <2>1. (k + 1 <= s) = (k <= s - 1) /\ k + 1 \in 1 .. Len(q)
    BY <1>1
  <2> QED
    BY <1>1, <2>1 DEF View
<1> HIDE DEF v
<1>5. Tail(v) \in Seq(Frame) /\ Len(Tail(v)) = Len(q) - 1
      /\ \A k \in 1 .. Len(q) - 1 : Tail(v)[k] = v[k + 1]
  BY <1>1, <1>2
<1>6. Tail(v) = [k \in 1 .. Len(q) - 1 |-> Tail(v)[k]]
  <2> HIDE DEF Frame
  <2>1. Tail(v) \in [1 .. Len(q) - 1 -> Frame]
    BY <1>5, SequenceIsFunction
  <2> QED
    BY <2>1
<1>7. View(Tail(q), s - 1) = Tail(v)
  BY <1>1, <1>4, <1>5, <1>6 DEF View
<1>8. v # << >> /\ Head(v) = v[1]
  BY <1>1, <1>2
<1> QED
  BY <1>3, <1>7, <1>8 DEF v

FifoBar == RingView(queue[NBUF_TX_RING], txbd, iTxbd_old)

LEMMA BarIsView ==
    /\ \A s : IInv /\ TxInv /\ SentUpTo(s) => FifoBar = View(TxQueue, s)
    /\ \A s : IInv' /\ TxInv' /\ SentUpTo(s)' => FifoBar' = View(TxQueue', s)
<1>1. ASSUME NEW s, IInv, TxInv, SentUpTo(s) PROVE FifoBar = View(TxQueue, s)
  <2>1. /\ TxQueue \in Seq(Nodes) /\ iTxbd_old \in TxIndex /\ s \in 0 .. Len(TxQueue)
        /\ Len(TxQueue) <= NTXBD
        /\ \A i \in TxIndex :
              txbd[i].r <=> Ahead(iTxbd_old, i, NTXBD) \in s .. Len(TxQueue) - 1
    BY <1>1, TxRing DEF SentUpTo, TxPlace, TxInv
  <2> QED
    BY <2>1, RingIsView DEF FifoBar, TxQueue
<1>2. ASSUME NEW s, IInv', TxInv', SentUpTo(s)' PROVE FifoBar' = View(TxQueue', s)
  <2>1. /\ TxQueue' \in Seq(Nodes) /\ iTxbd_old' \in TxIndex /\ s \in 0 .. Len(TxQueue')
        /\ Len(TxQueue') <= NTXBD
        /\ \A i \in TxIndex :
              txbd'[i].r <=> Ahead(iTxbd_old', i, NTXBD) \in s .. Len(TxQueue') - 1
    BY <1>2, QueueNames DEF SentUpTo, TxPlace, TxInv, IInv, TypeOK, TxQueue
  <2> QED
    BY <2>1, RingIsView DEF FifoBar, TxQueue
<1> QED
  BY <1>1, <1>2

LEMMA FifoStep ==
    ASSUME IInv, TxInv, IInv', TxInv', OnlyHandlerSends, [Next]_vars
    PROVE  Fifo!Next \/ UNCHANGED FifoBar
<1>1. PICK s \in 0 .. Len(TxQueue) : SentUpTo(s)
  BY DEF TxInv
<1>2. /\ FifoBar = View(TxQueue, s)
      /\ TxQueue \in Seq(Nodes) /\ Len(TxQueue) \in Nat
  BY <1>1, BarIsView, TxRing
<1>3. CASE TxUnchanged
  BY <1>1, <1>2, <1>3, TxKept, BarIsView DEF TxUnchanged
<1>4. CASE DmaTransmit
  <2>1. s < Len(TxQueue) /\ SentUpTo(s + 1)' /\ TxQueue' = TxQueue
    BY <1>1, <1>4, TxTransmits
  <2>2. FifoBar' = View(TxQueue, s + 1)
    BY <2>1, BarIsView
  <2>3. FifoBar' = [FifoBar EXCEPT ![s + 1].sent = TRUE]
    BY <1>2, <2>1, <2>2, ViewSends
  <2>4. /\ s + 1 \in 1 .. Len(TxQueue) /\ DOMAIN FifoBar = 1 .. Len(TxQueue)
        /\ \A k \in 1 .. Len(TxQueue) : FifoBar[k].sent <=> k <= s
    <3>1. s + 1 \in 1 .. Len(TxQueue)
      BY <1>1, <1>2, <2>1
    <3>2. DOMAIN FifoBar = 1 .. Len(TxQueue)
      BY <1>2 DEF View
    <3>3. ASSUME NEW k \in 1 .. Len(TxQueue) PROVE FifoBar[k].sent <=> k <= s
      <4>1. FifoBar[k] = [buffer |-> TxQueue[k], sent |-> (k <= s)]
        BY <1>2 DEF View
      <4>2. FifoBar[k].sent = (k <= s)
        BY <4>1
      <4> QED
        BY <4>2
    <3> QED
      BY <3>1, <3>2, <3>3
  <2>5. ~FifoBar[s + 1].sent /\ \A j \in 1 .. s + 1 - 1 : FifoBar[j].sent
    BY <1>1, <1>2, <2>4
  <2>6. \E k \in DOMAIN FifoBar :
            /\ ~FifoBar[k].sent
            /\ \A j \in 1 .. k - 1 : FifoBar[j].sent
            /\ FifoBar' = [FifoBar EXCEPT ![k].sent = TRUE]
    <3> DEFINE k == s + 1
    <3>1. k \in DOMAIN FifoBar
      BY <2>4
    <3>2. ~FifoBar[k].sent /\ \A j \in 1 .. k - 1 : FifoBar[j].sent
      BY <2>5
    <3>3. FifoBar' = [FifoBar EXCEPT ![k].sent = TRUE]
      BY <2>3
    <3> HIDE DEF k
    <3> QED
      BY <3>1, <3>2, <3>3
  <2> QED
    BY <2>6 DEF Fifo!Next, Fifo!Transmit, FifoBar, RingView
<1>5. CASE IsrSend
  <2> DEFINE b == isr.nbuf
  <2>1. SentUpTo(s)' /\ TxQueue' = Append(TxQueue, b)
    BY <1>1, <1>5, TxSends
  <2>2. b \in NBUF /\ b \in Nodes /\ ~In(queue, NBUF_TX_RING, b)
    BY <1>5, RoomToSend DEF IsrSend, Nodes
  <2>3. FifoBar' = Append(FifoBar, [buffer |-> b, sent |-> FALSE])
    BY <1>1, <1>2, <2>1, <2>2, BarIsView, ViewGrows
  <2>4. \A k \in DOMAIN FifoBar : FifoBar[k].buffer # b
    BY <1>2, <2>2 DEF View, In, TxQueue
  <2> QED
    BY <2>2, <2>3, <2>4 DEF Fifo!Next, Fifo!Send, FifoBar, RingView
<1>6. CASE TxFrame
  <2>1. s >= 1 /\ SentUpTo(s - 1)' /\ TxQueue # << >> /\ TxQueue' = Tail(TxQueue)
    BY <1>1, <1>6, TxGivesBack
  <2>2. s \in 1 .. Len(TxQueue)
    BY <1>1, <1>2, <2>1
  <2>3. FifoBar # << >> /\ Head(FifoBar).sent /\ FifoBar' = Tail(FifoBar)
    BY <1>2, <2>1, <2>2, BarIsView, ViewShrinks
  <2> QED
    BY <2>3 DEF Fifo!Next, Fifo!GiveBack, FifoBar, RingView
<1> QED
  BY <1>3, <1>4, <1>5, <1>6, TxSteps

(* As long as only the interrupt handler sends, frames go out in the order *)
(* fec_send got them and each is freed once it is sent: each step of the   *)
(* driver is a step of TxFifo or leaves its FIFO alone.                    *)
THEOREM ImplementsFifo == ASSUME OnlyHandlerSends PROVE Spec => TxImplementsFifo
<1>1. Init => Fifo!Init
  <2> SUFFICES ASSUME Init PROVE Fifo!Init
    OBVIOUS
  <2>1. queue[NBUF_TX_RING] = << >>
    BY DEF Init, nbuf_init, NBUF_QUEUES, NBUF_FREE, NBUF_TX_RING, NBUF_RX_RING
  <2> QED
    BY <2>1 DEF Fifo!Init
<1>2. IInv /\ TxInv /\ IInv' /\ TxInv' /\ [Next]_vars => [Fifo!Next]_FifoBar
  BY FifoStep
<1> QED
  BY <1>1, <1>2, TxInvariance, PTL DEF Spec, TxImplementsFifo, Fifo!Spec, FifoBar, RingView
=============================================================================
