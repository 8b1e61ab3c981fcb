------------------------------ MODULE TftpWrite ------------------------------
(***************************************************************************)
(* Writing a file by TFTP (tftp_write in net/tftp.c), with tftp_handler in *)
(* the receive interrupt.  The foreground sends a block again until the    *)
(* handler has counted its ACK in exp_blocknum.                            *)
(*                                                                         *)
(* Everything sent may arrive late, twice or never, and in any order, for  *)
(* as long as its receiver is at most Lifetime blocks further.  A server   *)
(* session stores the block it expects, and acknowledges what it has       *)
(* stored as often as it likes.                                            *)
(***************************************************************************)
EXTENDS Naturals, Sequences

CONSTANTS
    Sessions,       (* server sessions that answer a request: their ports *)
    StaleReads,     (* ports of sessions that still send block 1 of a file *)
                    (* read before through the same local port             *)
    N,              (* blocks of the file, the last one short *)
    BLOCKNUMS,      (* block numbers before they wrap: 2^16 *)
    Lifetime,
    RETRIES         (* times a request or a block is sent: 3 *)

UDP_PORT_TFTP == 69

ASSUME TftpWriteAssumption ==
    /\ UDP_PORT_TFTP \notin Sessions \cup StaleReads
    /\ Sessions \cap StaleReads = {}
    /\ N \in Nat \ {0}
    /\ Lifetime \in Nat
    /\ BLOCKNUMS \in Nat /\ BLOCKNUMS > Lifetime + 1 /\ BLOCKNUMS > 2
    /\ RETRIES \in Nat \ {0}

VARIABLES
    tcxn,       (* the fields of the connection both sides use *)
    main,       (* the foreground: where it is, retries, the block it is at *)
    requested,  (* a request was sent *)
    data,       (* DATA packets on the network: port and block *)
    started,    (* sessions the server has started *)
    file        (* the blocks each session has stored *)

vars == <<tcxn, main, requested, data, started, file>>

Ports == Sessions \cup StaleReads \cup {UDP_PORT_TFTP}
BlockNum == 0 .. BLOCKNUMS - 1
Returned == {"true", "false", "noBuffer"}

TypeOK ==
    /\ tcxn \in [server_port : Ports, exp_blocknum : BlockNum, open : BOOLEAN, error : BOOLEAN]
    /\ main \in [pc : {"request", "wait", "send", "sent"} \cup Returned,
                 tries : 0 .. RETRIES, block : 1 .. N]
    /\ requested \in BOOLEAN
    /\ data \subseteq Ports \X (1 .. N)
    /\ started \subseteq Sessions
    /\ file \in [Sessions -> Seq(1 .. N)]

Init ==
    /\ tcxn = [server_port |-> UDP_PORT_TFTP, exp_blocknum |-> 0,
               open |-> FALSE, error |-> FALSE]
    /\ main = [pc |-> "request", tries |-> RETRIES, block |-> 1]
    /\ requested = FALSE
    /\ data = {}
    /\ started = {}
    /\ file = [p \in Sessions |-> <<>>]

-----------------------------------------------------------------------------
(* The number a block has on the wire; the uint16_t increment of numbers.  *)
Number(k) == k % BLOCKNUMS

Succ(n) == (n + 1) % BLOCKNUMS

(* Packets about block j, with the receiver at block k. *)
Alive(j, k) == k <= j + Lifetime

(* The server (external). *)
StartSession(p) ==
    /\ requested
    /\ started' = started \cup {p}
    /\ UNCHANGED <<tcxn, main, requested, data, file>>

StoreBlock(p, k) ==
    /\ p \in started
    /\ <<p, k>> \in data
    /\ Alive(k, Len(file[p]))
    /\ Number(k) = Number(Len(file[p]) + 1)
    /\ file' = [file EXCEPT ![p] = Append(@, k)]
    /\ UNCHANGED <<tcxn, main, requested, data, started>>

-----------------------------------------------------------------------------
(* tftp_handler, at IPL 7 while the port is bound: tftp_write returns      *)
(* without freeing it when there is no buffer for a block.                 *)
Bound == main.pc \notin {"true", "false"}

(* Number 0 chooses the server's transfer ID, the others must have it. *)
FromServer(p, n) == n = 0 \/ p = tcxn.server_port

AckExpected(n) == n = tcxn.exp_blocknum

AckArrives(p, k) ==
    /\ Bound
    /\ AckExpected(Number(k))
    /\ FromServer(p, Number(k))
    /\ tcxn' = [tcxn EXCEPT !.server_port = p, !.exp_blocknum = Succ(@),
                            !.open = @ \/ Number(k) = 0]
    /\ UNCHANGED <<main, requested, data, started, file>>

(* DATA 1 of a session that sends a file: the handler looks neither at the *)
(* direction of the transfer nor at the sender.                            *)
DataArrives(p) ==
    /\ Bound
    /\ tcxn.exp_blocknum = 1
    /\ tcxn' = [tcxn EXCEPT !.server_port = p, !.exp_blocknum = Succ(@), !.open = TRUE]
    /\ UNCHANGED <<main, requested, data, started, file>>

ErrorReceived ==
    /\ Bound
    /\ tcxn' = [tcxn EXCEPT !.error = TRUE]
    /\ UNCHANGED <<main, requested, data, started, file>>

-----------------------------------------------------------------------------
(* tftp_write: the request. *)
tftp_rwrq ==
    /\ main.pc = "request"
    /\ \/ /\ requested' = TRUE
          /\ main' = [main EXCEPT !.pc = "wait", !.tries = @ - 1]
       \/ /\ main' = [main EXCEPT !.pc = "false"]      (* no buffer, or not sent *)
          /\ UNCHANGED requested
    /\ UNCHANGED <<tcxn, data, started, file>>

(* With the connection open, or an error, the loop is left. *)
Connected(open) ==
    main' = IF tcxn.error THEN [main EXCEPT !.pc = "false"]
            ELSE IF open THEN [main EXCEPT !.pc = "send", !.tries = RETRIES]
            ELSE IF main.tries > 0 THEN [main EXCEPT !.pc = "request"]
            ELSE [main EXCEPT !.pc = "false"]

ServerResponded ==
    /\ main.pc = "wait"
    /\ tcxn.open
    /\ Connected(TRUE)
    /\ UNCHANGED <<tcxn, requested, data, started, file>>

RequestTimedOut ==
    /\ main.pc = "wait"
    /\ Connected(FALSE)
    /\ UNCHANGED <<tcxn, requested, data, started, file>>

(* One turn of the second loop: the block goes to the port the connection  *)
(* has now.  It may not be sent; without a buffer tftp_write returns.      *)
SendBlock ==
    /\ main.pc = "send"
    /\ \/ /\ data' = data \cup {<<tcxn.server_port, main.block>>}
          /\ main' = [main EXCEPT !.pc = "sent", !.tries = @ - 1]
       \/ /\ main' = [main EXCEPT !.pc = "sent", !.tries = @ - 1]
          /\ UNCHANGED data
       \/ /\ main' = [main EXCEPT !.pc = "noBuffer"]
          /\ UNCHANGED data
    /\ UNCHANGED <<tcxn, requested, started, file>>

(* Mutant: the block expected next counts as acknowledged. *)
Responded_Early == tcxn.exp_blocknum = Number(main.block)

(* exp_blocknum - 1 is computed as an int: it is -1 after the wrap. *)
Responded == tcxn.exp_blocknum # 0 /\ tcxn.exp_blocknum - 1 = Number(main.block)

Result == IF tcxn.error THEN "false" ELSE "true"

BlockAcknowledged ==
    /\ main.pc = "sent"
    /\ Responded
    /\ main' = IF tcxn.error \/ main.block = N
               THEN [main EXCEPT !.pc = Result]
               ELSE [main EXCEPT !.pc = "send", !.block = @ + 1, !.tries = RETRIES]
    /\ UNCHANGED <<tcxn, requested, data, started, file>>

(* Mutant: the retries start anew with every time-out. *)
BlockTimedOut_Recount ==
    /\ main.pc = "sent"
    /\ main' = IF tcxn.error THEN [main EXCEPT !.pc = Result]
               ELSE [main EXCEPT !.pc = "send", !.tries = RETRIES]
    /\ UNCHANGED <<tcxn, requested, data, started, file>>

(* Mutant: a time-out goes on to the next block. *)
BlockTimedOut_GoOn ==
    /\ main.pc = "sent"
    /\ main' = IF tcxn.error \/ main.tries = 0 THEN [main EXCEPT !.pc = Result]
               ELSE [main EXCEPT !.pc = "send", !.block = @ + 1]
    /\ UNCHANGED <<tcxn, requested, data, started, file>>

(* Without an answer the block is sent again; the loop also ends when the  *)
(* retries are used up.                                                    *)
BlockTimedOut ==
    /\ main.pc = "sent"
    /\ main' = IF tcxn.error \/ main.tries = 0 THEN [main EXCEPT !.pc = Result]
               ELSE [main EXCEPT !.pc = "send"]
    /\ UNCHANGED <<tcxn, requested, data, started, file>>

-----------------------------------------------------------------------------
Foreground ==
    \/ tftp_rwrq \/ ServerResponded \/ RequestTimedOut
    \/ SendBlock \/ BlockAcknowledged \/ BlockTimedOut

Handler ==
    \/ \E p \in started : \E k \in 0 .. N :
          k <= Len(file[p]) /\ Alive(k, main.block) /\ AckArrives(p, k)
    \/ \E p \in StaleReads : DataArrives(p)
    \/ ErrorReceived

Server ==
    \/ \E p \in Sessions : StartSession(p)
    \/ \E p \in Sessions : \E k \in 1 .. N : StoreBlock(p, k)

Next == Foreground \/ Handler \/ Server

(* The foreground goes on and its timers expire; the network may do nothing. *)
Spec == Init /\ [][Next]_vars
FairSpec == Spec /\ WF_vars(Foreground)

-----------------------------------------------------------------------------
(* The connection is to a server that was asked to store the file: no DATA *)
(* of an earlier transfer took it over.                                    *)
Ours == tcxn.server_port \notin StaleReads

(* No session runs ahead of the block being sent, and only the one chosen  *)
(* by its ACK of the request gets any block.                               *)
LockStep ==
    Ours => \A p \in Sessions :
                file[p] # <<>> => p = tcxn.server_port /\ Len(file[p]) <= main.block

(* In lock step, the blocks tftp_write has gone past are stored, in their  *)
(* order, at the server it talks to: an ACK counts for one block, once,    *)
(* and only from that server; and the variables keep their types.          *)
AckedIsStored ==
    /\ TypeOK
    /\ LockStep
    /\ Ours /\ main.block > 1 =>
          /\ tcxn.server_port \in Sessions
          /\ Len(file[tcxn.server_port]) >= main.block - 1
          /\ \A i \in 1 .. main.block - 1 : file[tcxn.server_port][i] = i

WholeFileStored == \E p \in Sessions : Len(file[p]) = N

(* tftp_write returns true with the whole file stored, unless its retries  *)
(* were used up.                                                           *)
StoredUnlessRetriesUsed ==
    Ours /\ main.pc = "true" /\ main.tries > 0 => WholeFileStored

(* tftp_write returns true with the whole file stored.  (This does not     *)
(* hold: the retries may be used up; see README.md.)                       *)
TrueMeansStored == main.pc = "true" => WholeFileStored

(* tftp_write returns, whatever the server and the network do. *)
Terminates == <>(main.pc \in Returned)
=============================================================================
