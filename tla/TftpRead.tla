------------------------------- MODULE TftpRead -------------------------------
(***************************************************************************)
(* Reading a file by TFTP (net/tftp.c): tftp_read opens the connection,    *)
(* its caller takes characters with tftp_in_char until it returns -1 and   *)
(* calls tftp_end, and tftp_handler runs in the receive interrupt.  The    *)
(* handler and the foreground share the connection and its block queue     *)
(* without a lock.                                                         *)
(*                                                                         *)
(* Everything sent may arrive late, twice or never, and in any order, for  *)
(* as long as its receiver is at most Lifetime blocks further.  A server   *)
(* session sends block k again and again until the ACK of k arrives; every *)
(* request may start a session of its own.                                 *)
(***************************************************************************)
EXTENDS Naturals, Sequences

CONSTANTS
    Sessions,       (* server sessions: their UDP ports, numbers # UDP_PORT_TFTP *)
    Stale,          (* those of them that belong to an earlier transfer *)
    N,              (* blocks in the file *)
    BLOCKNUMS,      (* block numbers before they wrap: 2^16 *)
    Lifetime,
    BUFFERS,        (* buffers the queue can take from the pool *)
    RETRIES         (* requests tftp_read makes, waits of tftp_in_char: 3 *)

UDP_PORT_TFTP == 69

ASSUME TftpReadAssumption ==
    /\ UDP_PORT_TFTP \notin Sessions
    /\ Stale \subseteq Sessions
    /\ N \in Nat \ {0}
    /\ Lifetime \in Nat
    /\ BUFFERS \in Nat \ {0}
    /\ BLOCKNUMS \in Nat /\ BLOCKNUMS > Lifetime + 2 /\ BLOCKNUMS > 2 * BUFFERS
    /\ RETRIES \in Nat \ {0}

VARIABLES
    tcxn,       (* the fields of the connection both sides use *)
    queue,      (* tcxn.queue: blocks received and not yet used up *)
    main,       (* the foreground: where it is, its tries, tcxn.last_ack, and *)
                (* whether the queue had one block when queue_remove read it  *)
    server,     (* the block each session is at, 0 before the session *)
    acks,       (* ACKs on the network: port and block number *)
    requested,  (* a request was sent *)
    accepted,   (* number of blocks the handler queued *)
    delivered,  (* the blocks whose data the caller got *)
    lost        (* blocks that vanished from the queue *)

vars == <<tcxn, queue, main, server, acks, requested, accepted, delivered, lost>>

Block == [session : Sessions, index : 1 .. N]
BlockNum == 0 .. BLOCKNUMS - 1

TypeOK ==
    /\ tcxn \in [server_port : Sessions \cup {UDP_PORT_TFTP}, exp_blocknum : BlockNum,
                 open : BOOLEAN, error : BOOLEAN]
    /\ queue \in Seq(Block)
    /\ main \in [pc : {"request", "wait", "read", "await", "rest", "remove", "end",
                       "completed", "errors", "failed"},
                 tries : 0 .. RETRIES, last_ack : BlockNum, single : BOOLEAN]
    /\ server \in [Sessions -> 0 .. N + 1]
    /\ acks \subseteq (Sessions \cup {UDP_PORT_TFTP}) \X BlockNum
    /\ requested \in BOOLEAN
    /\ accepted \in 0 .. N
    /\ delivered \in Seq(Block)
    /\ lost \subseteq Block
    /\ main.pc \in {"rest", "remove"} => queue # <<>>

(* tftp_read up to its first request.  Sessions of an earlier transfer,    *)
(* which used the same local port, may be at any block.                    *)
Init ==
    /\ tcxn = [server_port |-> UDP_PORT_TFTP, exp_blocknum |-> 1,
               open |-> FALSE, error |-> FALSE]
    /\ queue = <<>>
    /\ main = [pc |-> "request", tries |-> RETRIES, last_ack |-> 0, single |-> FALSE]
    /\ server \in {s \in [Sessions -> 0 .. N] :
                     \A p \in Sessions : IF p \in Stale THEN s[p] # 0 ELSE s[p] = 0}
    /\ acks = {}
    /\ requested = FALSE
    /\ accepted = 0
    /\ delivered = <<>>
    /\ lost = {}

-----------------------------------------------------------------------------
(* The number a block has on the wire; the uint16_t arithmetic on it. *)
Number(k) == k % BLOCKNUMS
Pred(n)   == (n + BLOCKNUMS - 1) % BLOCKNUMS

(* Mutant: the number of the next block is not updated. *)
Succ_Missing(n) == n

Succ(n) == (n + 1) % BLOCKNUMS

(* tftp_ack: to the port the connection has now. *)
tftp_ack(n) == acks' = acks \cup {<<tcxn.server_port, n>>}

(* Mutant: the last block is any that fits into a packet. *)
IsLast_Any(b) == b.index <= N

(* rem_bytes < TFTP_PKTSIZE *)
IsLast(b) == b.index = N

-----------------------------------------------------------------------------
(* The server (external).  A request, or its duplicate, starts a session;  *)
(* the ACK of its block makes it go on.                                    *)
StartSession(p) ==
    /\ requested
    /\ server[p] = 0
    /\ server' = [server EXCEPT ![p] = 1]
    /\ UNCHANGED <<tcxn, queue, main, acks, requested, accepted, delivered, lost>>

(* Packets about block j, with the receiver at block k. *)
Alive(j, k) == k <= j + Lifetime

ServerGoesOn(p) ==
    /\ server[p] \in 1 .. N
    /\ <<p, Number(server[p])>> \in acks
    /\ server' = [server EXCEPT ![p] = @ + 1]
    /\ acks' = {a \in acks : a[1] = p => \E j \in 1 .. server[p] : Alive(j, server[p]) /\ a[2] = Number(j)}
    /\ UNCHANGED <<tcxn, queue, main, requested, accepted, delivered, lost>>

-----------------------------------------------------------------------------
(* tftp_handler, at IPL 7 while the port is bound. *)
Bound == main.pc \notin {"completed", "errors", "failed"}

(* Mutant: the server's transfer ID is not checked. *)
FromServer_Any(p, n) == TRUE

(* Block 1 chooses the server's transfer ID, the others must have it. *)
FromServer(p, n) == n = 1 \/ p = tcxn.server_port

(* The block expected, in a buffer of the pool.  A block with a wrong      *)
(* transfer ID is left aside and its buffer forgotten.                     *)
DataExpected(p, k) ==
    /\ Bound
    /\ Number(k) = tcxn.exp_blocknum
    /\ FromServer(p, Number(k))
    /\ Len(queue) < BUFFERS
    /\ tcxn' = [tcxn EXCEPT !.server_port = p, !.exp_blocknum = Succ(@),
                            !.open = @ \/ Number(k) = 1]
    /\ queue' = Append(queue, [session |-> p, index |-> k])
    /\ accepted' = accepted + 1
    /\ UNCHANGED <<main, server, acks, requested, delivered, lost>>

(* Another block: one below the expected number is acknowledged again. *)
DataUnexpected(p, k) ==
    /\ Bound
    /\ Number(k) < tcxn.exp_blocknum
    /\ tftp_ack(Number(k))
    /\ UNCHANGED <<tcxn, queue, main, server, requested, accepted, delivered, lost>>

(* An ERROR packet of any sender. *)
ErrorReceived ==
    /\ Bound
    /\ tcxn' = [tcxn EXCEPT !.error = TRUE]
    /\ UNCHANGED <<queue, main, server, acks, requested, accepted, delivered, lost>>

(* What an earlier transfer's session sends does not follow this one, but  *)
(* the receiver it had then, which got all blocks before server[p].        *)
DataArrives ==
    \E p \in Sessions : \E k \in 1 .. N :
        /\ k <= server[p]
        /\ IF p \in Stale THEN Alive(k, server[p] - 1) /\ Alive(0, accepted)
           ELSE Alive(k, accepted)
        /\ DataExpected(p, k) \/ DataUnexpected(p, k)

-----------------------------------------------------------------------------
(* tftp_read. *)
tftp_rwrq ==
    /\ main.pc = "request"
    /\ \/ /\ requested' = TRUE
          /\ main' = [main EXCEPT !.pc = "wait", !.tries = @ - 1]
       \/ /\ main' = [main EXCEPT !.pc = "failed"]     (* no buffer, or not sent *)
          /\ UNCHANGED requested
    /\ UNCHANGED <<tcxn, queue, server, acks, accepted, delivered, lost>>

(* Leaves the loop: an error counts although the connection is open. *)
Opened == IF tcxn.error THEN "failed" ELSE "read"

ServerResponded ==
    /\ main.pc = "wait"
    /\ tcxn.open
    /\ main' = [main EXCEPT !.pc = Opened]
    /\ UNCHANGED <<tcxn, queue, server, acks, requested, accepted, delivered, lost>>

RequestTimedOut ==
    /\ main.pc = "wait"
    /\ main' = [main EXCEPT !.pc = IF tcxn.open \/ tcxn.error THEN Opened
                                   ELSE IF main.tries > 0 THEN "request" ELSE "failed"]
    /\ UNCHANGED <<tcxn, queue, server, acks, requested, accepted, delivered, lost>>

-----------------------------------------------------------------------------
(* tftp_in_char.  The first character of a block: acknowledge it.  A block *)
(* of one character is used up at once.  An empty block is so even before  *)
(* its ACK; it is the last, and after it nothing is waiting for the ACK.   *)
TakeBlock ==
    LET b == Head(queue)
        n == Number(b.index)
    IN  /\ tcxn' = [tcxn EXCEPT !.open = @ /\ ~IsLast(b)]
        /\ tftp_ack(n)
        /\ delivered' = Append(delivered, b)
        /\ main' = [main EXCEPT !.pc = "rest", !.last_ack = Succ(n)]
        /\ UNCHANGED <<queue, server, requested, accepted, lost>>

NextBlock ==
    /\ main.pc = "read"
    /\ tcxn.open
    /\ IF queue # <<>>
       THEN TakeBlock
       ELSE /\ main' = [main EXCEPT !.pc = "await", !.tries = RETRIES]
            /\ UNCHANGED <<tcxn, queue, server, acks, requested, accepted, delivered, lost>>

BlockArrived ==
    /\ main.pc = "await"
    /\ main.tries > 0
    /\ queue # <<>>
    /\ TakeBlock

(* Mutant: the block waited for is acknowledged. *)
AwaitTimedOut_AckNext ==
    /\ main.pc = "await"
    /\ main.tries > 0
    /\ tftp_ack(main.last_ack)
    /\ main' = [main EXCEPT !.tries = @ - 1]
    /\ UNCHANGED <<tcxn, queue, server, requested, accepted, delivered, lost>>

(* Mutant: it waits on and on. *)
AwaitTimedOut_Forever ==
    /\ main.pc = "await"
    /\ tftp_ack(Pred(main.last_ack))
    /\ UNCHANGED <<tcxn, queue, main, server, requested, accepted, delivered, lost>>

AwaitTimedOut ==
    /\ main.pc = "await"
    /\ main.tries > 0
    /\ tftp_ack(Pred(main.last_ack))
    /\ main' = [main EXCEPT !.tries = @ - 1]
    /\ UNCHANGED <<tcxn, queue, server, requested, accepted, delivered, lost>>

GiveUp ==
    /\ main.pc = "await"
    /\ main.tries = 0
    /\ tcxn' = [tcxn EXCEPT !.open = FALSE, !.error = TRUE]
    /\ main' = [main EXCEPT !.pc = "end"]
    /\ UNCHANGED <<queue, server, acks, requested, accepted, delivered, lost>>

(* The last character of a block.  queue_remove reads the successor of the *)
(* block: there is none if the queue has no other block at this moment.    *)
RestOfBlock ==
    /\ main.pc = "rest"
    /\ main' = [main EXCEPT !.pc = "remove", !.single = Len(queue) = 1]
    /\ UNCHANGED <<tcxn, queue, server, acks, requested, accepted, delivered, lost>>

(* queue_remove stores what it read as the new head. *)
RemoveBlock ==
    /\ main.pc = "remove"
    /\ main' = [main EXCEPT !.pc = "read", !.single = FALSE]
    /\ queue' = IF main.single THEN <<>> ELSE Tail(queue)
    /\ lost' = IF main.single THEN lost \cup {queue[i] : i \in 2 .. Len(queue)} ELSE lost
    /\ UNCHANGED <<tcxn, server, acks, requested, accepted, delivered>>

(* -1: the caller ends the transfer. *)
NoMoreCharacters ==
    /\ main.pc = "read"
    /\ ~tcxn.open
    /\ main' = [main EXCEPT !.pc = "end"]
    /\ UNCHANGED <<tcxn, queue, server, acks, requested, accepted, delivered, lost>>

(* tftp_end(true): reports, empties the queue and frees the port. *)
tftp_end ==
    /\ main.pc = "end"
    /\ main' = [main EXCEPT !.pc = IF ~tcxn.error /\ ~tcxn.open THEN "completed" ELSE "errors"]
    /\ queue' = <<>>
    /\ UNCHANGED <<tcxn, server, acks, requested, accepted, delivered, lost>>

-----------------------------------------------------------------------------
Foreground ==
    \/ tftp_rwrq \/ ServerResponded \/ RequestTimedOut
    \/ NextBlock \/ BlockArrived \/ AwaitTimedOut \/ GiveUp
    \/ RestOfBlock \/ RemoveBlock \/ NoMoreCharacters \/ tftp_end

Next ==
    \/ \E p \in Sessions : StartSession(p)
    \/ \E p \in Sessions : ServerGoesOn(p)
    \/ DataArrives
    \/ ErrorReceived
    \/ Foreground

(* The foreground goes on and its timers expire; the network may do nothing. *)
Spec == Init /\ [][Next]_vars
FairSpec == Spec /\ WF_vars(Foreground)

-----------------------------------------------------------------------------
(* The caller gets blocks in the order of the file and none twice, however *)
(* the network duplicates and delays them and wherever numbers wrap; and   *)
(* the variables keep their types.                                         *)
InOrder ==
    /\ TypeOK
    /\ \A i, j \in 1 .. Len(delivered) : i < j => delivered[i].index < delivered[j].index

(* All data come from one session, also when a request was answered twice: *)
(* the transfer ID check of tftp_handler.                                  *)
OneSession ==
    \A i, j \in 1 .. Len(delivered) : delivered[i].session = delivered[j].session

Complete == Len(delivered) = N

(* A transfer reported as completed delivered the whole file, unless a     *)
(* block vanished from the queue or an earlier transfer's session sent the *)
(* first one.                                                              *)
CompletedUnlessLost ==
    main.pc = "completed" /\ lost = {} /\ tcxn.server_port \notin Stale => Complete

(* A transfer reported as completed delivered the whole file.  (This does  *)
(* not hold: a block may vanish from the queue; see README.md.)            *)
ReadComplete == main.pc = "completed" => Complete

(* A session never gets further than one block past what the handler has   *)
(* taken from it: no ACK is sent for a block that was not received.        *)
ServerNotAhead ==
    \A p \in Sessions \ Stale : server[p] > 1 => p = tcxn.server_port /\ server[p] <= accepted + 1

(* The caller comes to an end, whatever the server and the network do. *)
Terminates == <>(main.pc \in {"completed", "errors", "failed"})
=============================================================================
