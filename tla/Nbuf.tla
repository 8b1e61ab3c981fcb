-------------------------------- MODULE Nbuf --------------------------------
(***************************************************************************)
(* The network buffer pool: net/queue.c and net/nbuf.c.                    *)
(*                                                                         *)
(* A QUEUE is the sequence of its nodes, oldest first, and the pool is a   *)
(* function from queue index to sequence.  The nbuf_* routines run at IPL  *)
(* 7, so each is one indivisible update of the pool; they are operators on *)
(* the pool's value so that a handler that makes several calls is still    *)
(* one action of the module that uses them.                                *)
(*                                                                         *)
(* A buffer is its position in unaligned_buffers[]; the null pointer is 0. *)
(***************************************************************************)
EXTENDS Naturals, Sequences

CONSTANT NBUF_MAX   (* buffers created by nbuf_init *)

ASSUME NbufAssumption == NBUF_MAX \in Nat \ {0}

NULL == 0
NBUF == 1 .. NBUF_MAX

(* The queue indices of nbuf.h; NBUF_SCRATCH is never used. *)
NBUF_FREE    == "NBUF_FREE"
NBUF_TX_RING == "NBUF_TX_RING"
NBUF_RX_RING == "NBUF_RX_RING"
NBUF_QUEUES  == {NBUF_FREE, NBUF_TX_RING, NBUF_RX_RING}

(* All that queue_add's callers may enqueue: a caller that ignores a null  *)
(* result of queue_remove hands on the null pointer.                       *)
Nodes == NBUF \cup {NULL}

(* Mutant: the node is linked in at the head. *)
queue_add_Front(q, node) == << node >> \o q

queue_add(q, node) == Append(q, node)

(* queue_remove returns the oldest node (queue_peek) and drops it. *)
queue_peek(q)   == IF q = << >> THEN NULL ELSE Head(q)
queue_remove(q) == IF q = << >> THEN q ELSE Tail(q)

(* The pool after nbuf_add, and after nbuf_remove has returned             *)
(* queue_peek(qs[q]).                                                      *)
nbuf_add(qs, q, node) == [qs EXCEPT ![q] = queue_add(@, node)]
nbuf_remove(qs, q)    == [qs EXCEPT ![q] = queue_remove(@)]

(* Mutant: the buffer stays in the free queue. *)
nbuf_alloc_NotRemoved(qs) == qs

nbuf_alloc(qs)      == nbuf_remove(qs, NBUF_FREE)
nbuf_free(qs, node) == nbuf_add(qs, NBUF_FREE, node)

(* nbuf_init followed by n times nbuf_alloc and nbuf_add(NBUF_RX_RING).    *)
nbuf_init(n) ==
    [q \in NBUF_QUEUES |->
        IF q = NBUF_FREE         THEN [k \in 1 .. NBUF_MAX - n |-> n + k]
        ELSE IF q = NBUF_RX_RING THEN [k \in 1 .. n |-> k]
        ELSE << >>]
=============================================================================
