------------------------------- MODULE TxFifo -------------------------------
(***************************************************************************)
(* What fec_send and fec_tx_frame promise together: frames go out in the   *)
(* order in which they were sent, and a buffer is given back only after    *)
(* its own frame has gone out.                                             *)
(***************************************************************************)
EXTENDS Naturals, Sequences

CONSTANT Buffers

VARIABLE fifo   (* frames accepted and not yet given back, oldest first *)

Init == fifo = << >>

Send(b) ==
    /\ \A k \in DOMAIN fifo : fifo[k].buffer # b
    /\ fifo' = Append(fifo, [buffer |-> b, sent |-> FALSE])

Transmit ==
    \E k \in DOMAIN fifo :
        /\ ~fifo[k].sent
        /\ \A j \in 1 .. k - 1 : fifo[j].sent
        /\ fifo' = [fifo EXCEPT ![k].sent = TRUE]

GiveBack ==
    /\ fifo # << >>
    /\ Head(fifo).sent
    /\ fifo' = Tail(fifo)

Next == (\E b \in Buffers : Send(b)) \/ Transmit \/ GiveBack

Spec == Init /\ [][Next]_fifo
=============================================================================
