---------------------------- MODULE TftpWriteProofs ----------------------------
(***************************************************************************)
(* Proofs about TftpWrite, for a file of any length, any number of server  *)
(* sessions, of sessions of earlier transfers, of block numbers and of     *)
(* retries, and any lifetime of packets that TftpWriteAssumption allows.   *)
(***************************************************************************)
EXTENDS TftpWrite, SequenceTheorems, TLAPS

(***************************************************************************)
(* Remainders, as the block numbers on the wire are: a remainder tells a   *)
(* number among b consecutive ones, and the successor may be taken of the  *)
(* remainder.                                                              *)
(***************************************************************************)
LEMMA Division ==
    ASSUME NEW a \in Nat, NEW b \in Nat \ {0}
    PROVE  /\ a % b \in 0 .. b - 1
           /\ a = b * (a \div b) + (a % b)
           /\ a \div b \in Nat
OBVIOUS

LEMMA RemainderUnique ==
    ASSUME NEW b \in Nat \ {0}, NEW q \in Int, NEW s \in Int,
           NEW r \in 0 .. b - 1, NEW t \in 0 .. b - 1,
           b * q + r = b * s + t
    PROVE  q = s /\ r = t
<1>1. CASE q < s
  <2>1. b * (s - q) >= b
    BY <1>1
  <2> QED
    BY <2>1
<1>2. CASE s < q
  <2>1. b * (q - s) >= b
    BY <1>2
  <2> QED
    BY <2>1
<1> QED
  BY <1>1, <1>2

(* Equal remainders are a multiple of b apart. *)
LEMMA Apart ==
    ASSUME NEW b \in Nat \ {0}, NEW i \in Nat, NEW j \in Nat, i < j, i % b = j % b
    PROVE  i + b <= j
<1>1. i = b * (i \div b) + (i % b) /\ j = b * (j \div b) + (i % b)
  BY Division
<1>2. i \div b \in Nat /\ j \div b \in Nat
  BY Division
<1> DEFINE q == i \div b
           s == j \div b
<1>3. q < s
  <2>1. CASE s <= q
    <3>1. b * s <= b * q
      BY <1>2, <2>1
    <3> QED
      BY <1>1, <1>2, <3>1
  <2> QED
    BY <1>2, <2>1
<1>4. b * (s - q) >= b
  BY <1>2, <1>3
<1> QED
  BY <1>1, <1>2, <1>4

LEMMA Small ==
    ASSUME NEW b \in Nat \ {0}, NEW a \in Nat, a < b
    PROVE  a % b = a
OBVIOUS

LEMMA SuccOfRemainder ==
    ASSUME NEW b \in Nat \ {0}, NEW a \in Nat
    PROVE  ((a % b) + 1) % b = (a + 1) % b
<1> DEFINE q == a \div b
           r == a % b
           x == (a + 1) \div b
           y == (a + 1) % b
<1>1. q \in Nat /\ r \in 0 .. b - 1 /\ a = b * q + r
  BY Division
<1>2. x \in Nat /\ y \in 0 .. b - 1 /\ a + 1 = b * x + y
  <2>1. a + 1 \in Nat
    OBVIOUS
  <2> QED
    BY <2>1, Division
<1> HIDE DEF q, r, x, y
<1>3. CASE r + 1 < b
  <2>1. b * q + (r + 1) = b * x + y /\ r + 1 \in 0 .. b - 1
    BY <1>1, <1>2, <1>3
  <2>2. y = r + 1
    BY <1>1, <1>2, <2>1, RemainderUnique
  <2>3. (r + 1) % b = r + 1
    BY <1>1, <1>3, Small
  <2> QED
    BY <2>2, <2>3 DEF r, y
<1>4. CASE r + 1 = b
  <2>1. b * (q + 1) + 0 = b * x + y /\ 0 \in 0 .. b - 1
    BY <1>1, <1>2, <1>4
  <2>2. y = 0
    BY <1>1, <1>2, <2>1, RemainderUnique
  <2>3. b % b = 0
    OBVIOUS
  <2> QED
    BY <1>4, <2>2, <2>3 DEF r, y
<1> QED
  BY <1>1, <1>3, <1>4

-----------------------------------------------------------------------------

Retries == main.pc \in {"request", "send"} => main.tries > 0

(* No ACK of the request yet. *)
Unconnected ==
    tcxn.server_port = UDP_PORT_TFTP =>
        /\ tcxn.exp_blocknum = 0 /\ ~tcxn.open
        /\ main.pc \in {"request", "wait", "false"} /\ main.block = 1
        /\ data = {}
        /\ \A p \in Sessions : file[p] = <<>>

(* DATA of an earlier transfer took the connection over: no ACK comes from *)
(* there, and no other sender counts.                                      *)
Hijacked == ~Ours => tcxn.exp_blocknum = 2

(* The session chosen by its ACK of the request: only it gets blocks, none *)
(* past the one the foreground is at, and has stored those that it has     *)
(* gone past; the ACK of the block itself may have been counted.           *)
Chosen ==
    tcxn.server_port \in Sessions =>
        LET f == file[tcxn.server_port] IN
        /\ tcxn.exp_blocknum \in {Number(main.block), Number(main.block + 1)}
        /\ tcxn.exp_blocknum = Number(main.block + 1) => Len(f) = main.block
        /\ Len(f) \in {main.block - 1, main.block}
        /\ \A i \in 1 .. Len(f) : f[i] = i
        /\ \A p \in Sessions : p # tcxn.server_port => file[p] = <<>>
        /\ \A p \in Ports : \A k \in 1 .. N :
              <<p, k>> \in data => p = tcxn.server_port /\ k <= main.block

Stored ==
    Ours /\ main.pc = "true" /\ main.tries > 0 =>
        /\ tcxn.server_port \in Sessions
        /\ main.block = N /\ Len(file[tcxn.server_port]) = N

WriteInv ==
    /\ TypeOK
    /\ Retries
    /\ Unconnected
    /\ Hijacked
    /\ Chosen
    /\ Stored

-----------------------------------------------------------------------------
LEMMA Constants ==
    /\ BLOCKNUMS \in Nat \ {0} /\ BLOCKNUMS > Lifetime + 1 /\ BLOCKNUMS > 2
    /\ Lifetime \in Nat /\ N \in Nat \ {0} /\ RETRIES \in Nat \ {0}
    /\ UDP_PORT_TFTP \notin Sessions \cup StaleReads /\ Sessions \cap StaleReads = {}
BY TftpWriteAssumption

LEMMA NumberIsNumber ==
    ASSUME NEW k \in Nat
    PROVE  Number(k) \in BlockNum
BY Constants, Division DEF Number, BlockNum

LEMMA NumberSmall ==
    ASSUME NEW k \in Nat, k < BLOCKNUMS
    PROVE  Number(k) = k
BY Constants, Small DEF Number

LEMMA NumberSucc ==
    ASSUME NEW k \in Nat
    PROVE  Succ(Number(k)) = Number(k + 1)
BY Constants, SuccOfRemainder DEF Number, Succ

LEMMA NumberApart ==
    ASSUME NEW i \in Nat, NEW j \in Nat, i < j, Number(i) = Number(j)
    PROVE  i + BLOCKNUMS <= j
BY Constants, Apart DEF Number

(* Blocks less than a round of numbers apart bear different numbers. *)
LEMMA NumbersDiffer ==
    ASSUME NEW i \in Nat, NEW j \in Nat, Number(i) = Number(j),
           i < j + BLOCKNUMS, j < i + BLOCKNUMS
    PROVE  i = j
<1>1. BLOCKNUMS \in Nat \ {0}
  BY Constants
<1>2. CASE i < j
  BY <1>1, <1>2, NumberApart
<1>3. CASE j < i
  BY <1>1, <1>3, NumberApart
<1> QED
  BY <1>2, <1>3

(* The subtraction of tftp_write, made on an int, is that of numbers: with *)
(* a block not yet acknowledged it is never taken for acknowledged.        *)
LEMMA RespondedMeansNext ==
    ASSUME NEW m \in Nat, NEW e \in {Number(m), Number(m + 1)}, e # 0, e - 1 = Number(m)
    PROVE  e = Number(m + 1)
<1>1. Number(m) \in BlockNum
  BY NumberIsNumber
<1>2. Number(m) \in Int
  BY <1>1, Constants DEF BlockNum
<1> QED
  BY <1>2

Connections == [server_port : Ports, exp_blocknum : BlockNum, open : BOOLEAN, error : BOOLEAN]
Places == {"request", "wait", "send", "sent"} \cup Returned
Mains == [pc : Places, tries : 0 .. RETRIES, block : 1 .. N]

LEMMA Types ==
    TypeOK <=> /\ tcxn \in Connections /\ main \in Mains /\ requested \in BOOLEAN
               /\ data \subseteq Ports \X (1 .. N) /\ started \subseteq Sessions
               /\ file \in [Sessions -> Seq(1 .. N)]
BY DEF TypeOK, Connections, Mains, Places

LEMMA InitInv == Init => WriteInv
<1> SUFFICES ASSUME Init PROVE WriteInv
  OBVIOUS
<1>1. /\ tcxn.server_port = UDP_PORT_TFTP /\ tcxn.exp_blocknum = 0 /\ ~tcxn.open
      /\ main.pc = "request" /\ main.block = 1 /\ main.tries = RETRIES /\ data = {} /\ started = {}
      /\ requested = FALSE /\ \A p \in Sessions : file[p] = <<>>
  BY DEF Init
<1>2. TypeOK
  <2>1. 0 \in BlockNum /\ RETRIES \in 0 .. RETRIES /\ 1 \in 1 .. N
    BY Constants DEF BlockNum
  <2>2. tcxn \in Connections /\ main \in Mains
    BY <2>1 DEF Init, Connections, Mains, Places, Ports
  <2>3. file \in [Sessions -> Seq(1 .. N)]
    <3>1. <<>> \in Seq(1 .. N)
      BY EmptySeq
    <3> QED
      BY <3>1 DEF Init
  <2> QED
    BY <1>1, <2>2, <2>3, Types
<1>3. tcxn.server_port \notin Sessions /\ Ours
  BY <1>1, Constants DEF Ours
<1>4. Retries /\ Unconnected
  BY <1>1, Constants DEF Retries, Unconnected
<1> QED
  BY <1>1, <1>2, <1>3, <1>4 DEF WriteInv, Hijacked, Chosen, Stored

-----------------------------------------------------------------------------
(* The foreground.  A step leaves the connection alone, and the block too  *)
(* unless it was acknowledged.                                             *)
LEMMA PlaceOnly ==
    ASSUME WriteInv, UNCHANGED <<tcxn, started, file, data>>, requested' \in BOOLEAN, main' \in Mains,
           main'.block = main.block, Retries',
           tcxn.server_port = UDP_PORT_TFTP => main'.pc \in {"request", "wait", "false"},
           main'.pc = "true" => main'.tries = 0
    PROVE  WriteInv'
<1>1. TypeOK'
  BY Types DEF WriteInv, TypeOK, Mains, Places
<1>2. Unconnected' /\ Hijacked' /\ Chosen' /\ Stored'
  BY DEF WriteInv, Unconnected, Hijacked, Ours, Chosen, Stored
<1> QED
  BY <1>1, <1>2 DEF WriteInv

LEMMA ConnectSteps ==
    ASSUME WriteInv, tftp_rwrq \/ ServerResponded \/ RequestTimedOut
    PROVE  WriteInv'
<1>1. /\ tcxn \in Connections /\ main \in Mains /\ requested \in BOOLEAN
      /\ main.tries \in 0 .. RETRIES /\ RETRIES \in Nat \ {0} /\ RETRIES \in 0 .. RETRIES
  <2>1. RETRIES \in Nat \ {0} /\ RETRIES \in 0 .. RETRIES
    BY Constants
  <2> QED
    BY <2>1, Types DEF WriteInv, Mains
<1>2. UNCHANGED <<tcxn, started, file, data>>
  BY DEF tftp_rwrq, ServerResponded, RequestTimedOut
<1>3. CASE tftp_rwrq
  <2>1. main.tries - 1 \in 0 .. RETRIES /\ main.pc = "request"
    BY <1>1, <1>3 DEF tftp_rwrq, WriteInv, Retries
  <2>2. /\ main' \in Mains /\ main'.block = main.block /\ main'.pc \in {"wait", "false"}
        /\ requested' \in BOOLEAN
    <3>1. CASE main' = [main EXCEPT !.pc = "false"] /\ requested' = requested
      BY <1>1, <3>1 DEF Mains, Places, Returned
    <3>2. CASE main' = [main EXCEPT !.pc = "wait", !.tries = @ - 1] /\ requested' = TRUE
      BY <1>1, <2>1, <3>2 DEF Mains, Places, Returned
    <3> QED
      BY <1>3, <3>1, <3>2 DEF tftp_rwrq
  <2>3. Retries'
    BY <2>2 DEF Retries
  <2> QED
    BY <1>2, <2>2, <2>3, PlaceOnly
<1>4. CASE ServerResponded \/ RequestTimedOut
  <2>1. requested' = requested /\ main.pc = "wait"
    BY <1>4 DEF ServerResponded, RequestTimedOut
  <2>2. PICK open \in BOOLEAN : Connected(open) /\ (open => tcxn.open)
    BY <1>4 DEF ServerResponded, RequestTimedOut
  <2>3. /\ main' \in Mains /\ main'.block = main.block /\ main'.pc \in {"false", "send", "request"}
        /\ main'.pc = "send" => tcxn.open /\ main'.tries = RETRIES
        /\ main'.pc = "request" => main'.tries > 0
    <3>1. CASE tcxn.error \/ (~open /\ ~(main.tries > 0))
      <4>1. main' = [main EXCEPT !.pc = "false"]
        BY <2>2, <3>1 DEF Connected
      <4> QED
        BY <1>1, <4>1 DEF Mains, Places, Returned
    <3>2. CASE ~tcxn.error /\ open
      <4>1. main' = [main EXCEPT !.pc = "send", !.tries = RETRIES]
        BY <2>2, <3>2 DEF Connected
      <4> QED
        BY <1>1, <2>2, <3>2, <4>1 DEF Mains, Places, Returned
    <3>3. CASE ~tcxn.error /\ ~open /\ main.tries > 0
      <4>1. main' = [main EXCEPT !.pc = "request"]
        BY <2>2, <3>3 DEF Connected
      <4> QED
        BY <1>1, <3>3, <4>1 DEF Mains, Places, Returned
    <3> QED
      BY <3>1, <3>2, <3>3
  <2>4. Retries'
    BY <1>1, <2>3 DEF Retries
  <2>5. tcxn.server_port = UDP_PORT_TFTP => main'.pc # "send"
    BY <2>3 DEF WriteInv, Unconnected
  <2> QED
    BY <1>1, <1>2, <2>1, <2>3, <2>4, <2>5, PlaceOnly
<1> QED
  BY <1>3, <1>4

LEMMA SendStep ==
    ASSUME WriteInv, SendBlock
    PROVE  WriteInv'
<1>1. /\ tcxn \in Connections /\ main \in Mains /\ requested \in BOOLEAN
      /\ main.tries \in 0 .. RETRIES /\ main.block \in 1 .. N /\ RETRIES \in Nat
      /\ tcxn.server_port \in Ports /\ data \subseteq Ports \X (1 .. N)
  BY Types, Constants DEF WriteInv, Mains, Connections
<1>2. /\ UNCHANGED <<tcxn, requested, started, file>> /\ main.pc = "send"
      /\ main.tries - 1 \in 0 .. RETRIES /\ tcxn.server_port # UDP_PORT_TFTP
  <2>1. main.pc = "send" /\ main.tries > 0
    BY DEF WriteInv, Retries, SendBlock
  <2>2. tcxn.server_port # UDP_PORT_TFTP
    BY <2>1 DEF WriteInv, Unconnected
  <2> QED
    BY <1>1, <2>1, <2>2 DEF SendBlock
<1>3. /\ main' \in Mains /\ main'.block = main.block /\ main'.pc \in {"sent", "noBuffer"}
  <2>1. CASE main' = [main EXCEPT !.pc = "sent", !.tries = @ - 1]
    BY <1>1, <1>2, <2>1 DEF Mains, Places, Returned
  <2>2. CASE main' = [main EXCEPT !.pc = "noBuffer"]
    BY <1>1, <2>2 DEF Mains, Places, Returned
  <2> QED
    BY <2>1, <2>2 DEF SendBlock
<1>4. Retries'
  BY <1>3 DEF Retries
<1>5. CASE data' = data
  BY <1>1, <1>2, <1>3, <1>4, <1>5, PlaceOnly
<1>6. CASE data' = data \cup {<<tcxn.server_port, main.block>>}
  <2>1. TypeOK'
    BY <1>1, <1>2, <1>3, <1>6 DEF WriteInv, TypeOK, Mains, Places
  <2>2. Unconnected' /\ Hijacked' /\ Stored'
    BY <1>2, <1>3 DEF WriteInv, Unconnected, Hijacked, Ours, Stored
  <2>3. Chosen'
    <3> SUFFICES ASSUME tcxn.server_port \in Sessions, NEW p \in Ports, NEW k \in 1 .. N,
                        <<p, k>> \in data'
                 PROVE  p = tcxn.server_port /\ k <= main.block
      BY <1>2, <1>3 DEF WriteInv, Chosen
    <3>1. CASE <<p, k>> \in data
      BY <3>1 DEF WriteInv, Chosen
    <3>2. CASE <<p, k>> = <<tcxn.server_port, main.block>>
      BY <1>1, <3>2
    <3> QED
      BY <1>6, <3>1, <3>2
  <2> QED
    BY <1>4, <2>1, <2>2, <2>3 DEF WriteInv
<1> QED
  BY <1>5, <1>6 DEF SendBlock

LEMMA TimeOutStep ==
    ASSUME WriteInv, BlockTimedOut
    PROVE  WriteInv'
<1>1. /\ main \in Mains /\ requested \in BOOLEAN /\ main.tries \in 0 .. RETRIES /\ RETRIES \in Nat
  BY Types, Constants DEF WriteInv, Mains
<1>2. /\ UNCHANGED <<tcxn, requested, data, started, file>> /\ main.pc = "sent"
  BY DEF BlockTimedOut
<1>3. /\ main' \in Mains /\ main'.block = main.block /\ main'.tries = main.tries
      /\ main'.pc \in {"true", "false", "send"}
      /\ main'.pc = "true" => main.tries = 0
      /\ main'.pc = "send" => main.tries # 0
  <2>1. CASE tcxn.error \/ main.tries = 0
    <3>1. main' = [main EXCEPT !.pc = Result] /\ Result \in {"true", "false"}
          /\ (tcxn.error => Result = "false")
      BY <2>1 DEF BlockTimedOut, Result
    <3> QED
      BY <1>1, <2>1, <3>1 DEF Mains, Places, Returned
  <2>2. CASE ~tcxn.error /\ main.tries # 0
    <3>1. main' = [main EXCEPT !.pc = "send"]
      BY <2>2 DEF BlockTimedOut
    <3> QED
      BY <1>1, <2>2, <3>1 DEF Mains, Places, Returned
  <2> QED
    BY <2>1, <2>2
<1>4. Retries' /\ tcxn.server_port # UDP_PORT_TFTP
  BY <1>1, <1>2, <1>3 DEF Retries, WriteInv, Unconnected
<1> QED
  BY <1>1, <1>2, <1>3, <1>4, PlaceOnly

(* An ACK of the block was counted: it is stored. *)
LEMMA AcknowledgedStep ==
    ASSUME WriteInv, BlockAcknowledged
    PROVE  WriteInv'
<1> DEFINE m == main.block
           c == tcxn.server_port
           f == file[c]
<1>1. /\ main \in Mains /\ tcxn \in Connections /\ requested \in BOOLEAN
      /\ main.tries \in 0 .. RETRIES /\ m \in 1 .. N /\ m \in Nat /\ N \in Nat
      /\ RETRIES \in 0 .. RETRIES /\ RETRIES > 0
  <2>1. RETRIES \in 0 .. RETRIES /\ RETRIES > 0 /\ N \in Nat
    BY Constants
  <2>2. m \in 1 .. N
    BY Types DEF WriteInv, Mains
  <2> QED
    BY <2>1, <2>2, Types DEF WriteInv, Mains
<1>2. /\ UNCHANGED <<tcxn, requested, data, started, file>> /\ main.pc = "sent" /\ Responded
      /\ c # UDP_PORT_TFTP
  BY DEF BlockAcknowledged, WriteInv, Unconnected
<1>3. ASSUME c \in Sessions
      PROVE  tcxn.exp_blocknum = Number(m + 1) /\ Len(f) = m
  <2>1. tcxn.exp_blocknum \in {Number(m), Number(m + 1)}
    BY <1>3 DEF WriteInv, Chosen
  <2>2. tcxn.exp_blocknum = Number(m + 1)
    BY <1>1, <1>2, <2>1, RespondedMeansNext DEF Responded
  <2> QED
    BY <1>3, <2>2 DEF WriteInv, Chosen
<1>4. CASE tcxn.error \/ m = N
  <2>1. main' = [main EXCEPT !.pc = Result] /\ Result \in {"true", "false"}
        /\ (tcxn.error => Result = "false")
    BY <1>4 DEF BlockAcknowledged, Result
  <2>2. main' \in Mains /\ main'.block = m /\ main'.tries = main.tries
        /\ main'.pc \in {"true", "false"} /\ (main'.pc = "true" => m = N)
    BY <1>1, <1>4, <2>1 DEF Mains, Places, Returned
  <2>3. TypeOK'
    BY <1>2, <2>2 DEF WriteInv, TypeOK, Mains, Places
  <2>4. Retries' /\ Unconnected' /\ Hijacked' /\ Chosen'
    BY <1>2, <2>2 DEF WriteInv, Retries, Unconnected, Hijacked, Ours, Chosen
  <2>5. Stored'
    <3> SUFFICES ASSUME Ours, main'.pc = "true"
                 PROVE  c \in Sessions /\ m = N /\ Len(f) = N
      BY <1>2, <2>2 DEF Stored, Ours
    <3>1. c \in Sessions
      BY <1>1, <1>2 DEF Ours, Connections, Ports
    <3> QED
      BY <1>3, <2>2, <3>1
  <2> QED
    BY <2>3, <2>4, <2>5 DEF WriteInv
<1>5. CASE ~tcxn.error /\ m # N
  <2>1. main' = [main EXCEPT !.pc = "send", !.block = m + 1, !.tries = RETRIES]
    BY <1>5 DEF BlockAcknowledged
  <2>2. m + 1 \in 1 .. N
    BY <1>1, <1>5
  <2>3. main' \in Mains /\ main'.block = m + 1 /\ main'.tries = RETRIES /\ main'.pc = "send"
    BY <1>1, <2>1, <2>2 DEF Mains, Places, Returned
  <2>4. TypeOK'
    BY <1>2, <2>3 DEF WriteInv, TypeOK, Mains, Places
  <2>5. Retries' /\ Unconnected' /\ Hijacked' /\ Stored'
    BY <1>1, <1>2, <2>3 DEF WriteInv, Retries, Unconnected, Hijacked, Ours, Stored
  <2>6. Chosen'
    <3> SUFFICES ASSUME c \in Sessions PROVE Chosen'
      BY <1>2 DEF Chosen
    <3>1. /\ Len(f) = m /\ tcxn.exp_blocknum = Number(m + 1)
          /\ \A i \in 1 .. Len(f) : f[i] = i
          /\ \A p \in Sessions : p # c => file[p] = <<>>
          /\ \A p \in Ports : \A k \in 1 .. N : <<p, k>> \in data => p = c /\ k <= m
      BY <1>3 DEF WriteInv, Chosen
    <3>2. Number(m + 1) # Number(m + 2)
      BY <1>1, Constants, NumbersDiffer
    <3>3. \A p \in Ports : \A k \in 1 .. N : <<p, k>> \in data => p = c /\ k <= m + 1
      BY <1>1, <3>1
    <3>4. Len(f) = (m + 1) - 1 /\ (m + 1) + 1 = m + 2
      BY <1>1, <3>1
    <3> QED
      BY <1>2, <2>3, <3>1, <3>2, <3>3, <3>4 DEF Chosen
  <2> QED
    BY <2>4, <2>5, <2>6 DEF WriteInv
<1> QED
  BY <1>4, <1>5

-----------------------------------------------------------------------------
(* The server.  Only the block after those that a session has stored is    *)
(* stored next, although its number is all that the session looks at.      *)
LEMMA ServerSteps ==
    ASSUME WriteInv, NEW p \in Sessions,
           StartSession(p) \/ \E k \in 1 .. N : StoreBlock(p, k)
    PROVE  WriteInv'
<1>1. UNCHANGED <<tcxn, main, requested, data>>
  BY DEF StartSession, StoreBlock
<1>2. CASE StartSession(p)
  BY <1>1, <1>2 DEF StartSession, WriteInv, TypeOK, Retries, Unconnected, Hijacked, Ours, Chosen, Stored
<1>3. CASE \E k \in 1 .. N : StoreBlock(p, k)
  <2> DEFINE m == main.block
             c == tcxn.server_port
             f == file[p]
  <2>1. PICK k \in 1 .. N : StoreBlock(p, k)
    BY <1>3
  <2>2. /\ <<p, k>> \in data /\ Alive(k, Len(f)) /\ Number(k) = Number(Len(f) + 1)
        /\ file' = [file EXCEPT ![p] = Append(f, k)] /\ started' = started
    BY <2>1 DEF StoreBlock
  <2>3. /\ file \in [Sessions -> Seq(1 .. N)] /\ f \in Seq(1 .. N) /\ Len(f) \in Nat /\ m \in Nat
        /\ k \in Nat /\ Lifetime \in Nat /\ BLOCKNUMS \in Nat /\ N \in Nat
    BY Types, Constants DEF WriteInv, Mains
  <2>4. /\ file'[p] = Append(f, k) /\ file' \in [Sessions -> Seq(1 .. N)]
        /\ \A q \in Sessions : q # p => file'[q] = file[q]
    BY <2>2, <2>3
  <2>5. TypeOK'
    BY <1>1, <2>2, <2>4 DEF WriteInv, TypeOK
  <2>6. c # UDP_PORT_TFTP
    BY <2>2 DEF WriteInv, Unconnected
  <2>7. Retries' /\ Unconnected' /\ Hijacked'
    BY <1>1, <2>6 DEF WriteInv, Retries, Unconnected, Hijacked, Ours
  <2>8. ASSUME c \in Sessions
        PROVE  p = c /\ k = Len(f) + 1 /\ Len(f) = m - 1 /\ k = m
    <3>1. p = c /\ k <= m
      BY <2>2, <2>8 DEF WriteInv, Chosen, Ports
    <3>2. Len(f) \in {m - 1, m}
      BY <2>8, <3>1 DEF WriteInv, Chosen
    <3>3. k <= Len(f) + 1 /\ Len(f) + 1 < k + BLOCKNUMS
      BY <2>2, <2>3, <3>1, <3>2, Constants DEF Alive
    <3>4. k = Len(f) + 1
      BY <2>2, <2>3, <3>3, NumbersDiffer
    <3> QED
      BY <2>3, <3>1, <3>2, <3>4
  <2>9. Chosen'
    <3> SUFFICES ASSUME c \in Sessions PROVE Chosen'
      BY <1>1 DEF Chosen
    <3> DEFINE g == file'[c]
    <3>1. p = c /\ k = Len(f) + 1 /\ Len(f) = m - 1 /\ k = m
      BY <2>8
    <3>2. g = Append(f, k) /\ Len(g) = Len(f) + 1 /\ g[Len(f) + 1] = k
          /\ \A i \in 1 .. Len(f) : g[i] = f[i]
      <4>1. g = Append(f, k)
        BY <2>4, <3>1
      <4>2. k \in 1 .. N /\ f \in Seq(1 .. N)
        BY <2>3
      <4> HIDE DEF g, f
      <4> QED
        BY <4>1, <4>2
    <3>3. Len(g) = m /\ Len(g) \in {m - 1, m}
      BY <2>3, <3>1, <3>2
    <3>4. \A i \in 1 .. Len(g) : g[i] = i
      <4> SUFFICES ASSUME NEW i \in 1 .. Len(g) PROVE g[i] = i
        OBVIOUS
      <4>1. \A j \in 1 .. Len(f) : f[j] = j
        BY <3>1 DEF WriteInv, Chosen
      <4>2. i \in 1 .. Len(f) \/ i = Len(f) + 1
        BY <2>3, <3>2
      <4> QED
        BY <3>1, <3>2, <4>1, <4>2
    <3>5. \A q \in Sessions : q # c => file'[q] = <<>>
      BY <2>4, <3>1 DEF WriteInv, Chosen
    <3>6. /\ tcxn.exp_blocknum \in {Number(m), Number(m + 1)}
          /\ \A q \in Ports : \A j \in 1 .. N : <<q, j>> \in data => q = c /\ j <= m
      BY DEF WriteInv, Chosen
    <3> QED
      BY <1>1, <3>3, <3>4, <3>5, <3>6 DEF Chosen
  <2>10. Stored'
    <3> SUFFICES ASSUME Ours, main.pc = "true", main.tries > 0 PROVE FALSE
      BY <1>1 DEF Stored, Ours
    <3>1. c \in Sessions /\ m = N /\ Len(file[c]) = N
      BY DEF WriteInv, Stored
    <3> QED
      BY <2>3, <2>8, <3>1
  <2> QED
    BY <2>5, <2>7, <2>9, <2>10 DEF WriteInv
<1> QED
  BY <1>2, <1>3

-----------------------------------------------------------------------------
(* tftp_handler.  The ACK it counts is of the block the foreground is at,  *)
(* or of the request.                                                      *)
LEMMA AckStep ==
    ASSUME WriteInv, NEW p \in started, NEW k \in 0 .. N, k <= Len(file[p]),
           Alive(k, main.block), AckArrives(p, k)
    PROVE  WriteInv'
<1> DEFINE m == main.block
           c == tcxn.server_port
           f == file[p]
<1>1. /\ tcxn \in Connections /\ p \in Sessions /\ file \in [Sessions -> Seq(1 .. N)]
      /\ f \in Seq(1 .. N) /\ Len(f) \in Nat /\ m \in Nat /\ m >= 1 /\ k \in Nat
      /\ Lifetime \in Nat /\ BLOCKNUMS \in Nat /\ N \in Nat /\ c \in Ports
  BY Types, Constants DEF WriteInv, Mains, Connections
<1>2. /\ UNCHANGED <<main, requested, data, started, file>> /\ Bound
      /\ Number(k) = tcxn.exp_blocknum /\ (Number(k) = 0 \/ p = c)
  BY DEF AckArrives, AckExpected, FromServer
<1>3. /\ tcxn'.server_port = p /\ tcxn'.exp_blocknum = Succ(tcxn.exp_blocknum)
      /\ tcxn'.error = tcxn.error
  BY <1>1 DEF AckArrives, Connections
<1>4. tcxn'.exp_blocknum = Number(k + 1) /\ tcxn'.exp_blocknum \in BlockNum
  <2>1. k + 1 \in Nat
    BY <1>1
  <2> QED
    BY <1>1, <1>2, <1>3, <2>1, NumberSucc, NumberIsNumber
<1>5. TypeOK'
  <2>1. tcxn' = [tcxn EXCEPT !.server_port = p, !.exp_blocknum = Succ(@), !.open = @ \/ Number(k) = 0]
    BY DEF AckArrives
  <2>2. p \in Ports
    BY <1>1 DEF Ports
  <2>3. tcxn' \in Connections
    BY <1>1, <1>4, <2>1, <2>2, <1>3 DEF Connections
  <2> QED
    BY <1>2, <2>3 DEF WriteInv, TypeOK, Connections
<1>6. Retries' /\ Unconnected' /\ Hijacked' /\ p # UDP_PORT_TFTP /\ p \notin StaleReads
  <2>1. p # UDP_PORT_TFTP /\ p \notin StaleReads
    BY <1>1, Constants
  <2> QED
    BY <1>2, <1>3, <2>1 DEF WriteInv, Retries, Unconnected, Hijacked, Ours
<1>7. Ours
  <2> SUFFICES ASSUME ~Ours PROVE FALSE
    OBVIOUS
  <2>1. Number(k) = 2
    BY <1>2 DEF WriteInv, Hijacked
  <2> QED
    BY <1>2, <1>6, <2>1 DEF Ours
<1>8. CASE c = UDP_PORT_TFTP
  <2>1. /\ m = 1 /\ data = {} /\ \A q \in Sessions : file[q] = <<>>
        /\ main.pc \in {"request", "wait", "false"}
    BY <1>8 DEF WriteInv, Unconnected
  <2>2. Len(f) = 0 /\ k = 0
    BY <1>1, <2>1
  <2>3. Chosen'
    <3> DEFINE g == file'[p]
    <3>1. tcxn'.exp_blocknum = Number(m)
      BY <1>4, <2>1, <2>2
    <3>2. Number(m) # Number(m + 1)
      BY <1>1, Constants, NumbersDiffer
    <3>3. Len(g) = 0 /\ Len(g) \in {m - 1, m} /\ \A i \in 1 .. Len(g) : g[i] = i
      BY <1>2, <2>1, <2>2
    <3>4. \A q \in Sessions : q # p => file'[q] = <<>>
      BY <1>2, <2>1
    <3>5. \A q \in Ports : \A j \in 1 .. N : <<q, j>> \notin data'
      BY <1>2, <2>1
    <3> QED
      BY <1>2, <1>3, <3>1, <3>2, <3>3, <3>4, <3>5 DEF Chosen
  <2>4. Stored'
    BY <1>2, <2>1 DEF Stored
  <2> QED
    BY <1>5, <1>6, <2>3, <2>4 DEF WriteInv
<1>9. CASE c # UDP_PORT_TFTP
  <2>1. c \in Sessions
    BY <1>1, <1>7, <1>9 DEF Ours, Ports
  <2>2. /\ tcxn.exp_blocknum \in {Number(m), Number(m + 1)}
        /\ \A q \in Sessions : q # c => file[q] = <<>>
        /\ Len(file[c]) \in {m - 1, m}
    BY <2>1 DEF WriteInv, Chosen
  <2>3. k <= m
    <3>1. CASE p = c
      BY <1>1, <2>2, <3>1
    <3>2. CASE p # c
      <4>1. Len(f) = 0
        BY <1>1, <2>2, <3>2
      <4> QED
        BY <1>1, <4>1
    <3> QED
      BY <3>1, <3>2
  <2>4. k = m
    <3>1. m <= k + Lifetime
      BY <1>1 DEF Alive
    <3>2. CASE Number(k) = Number(m)
      <4>1. k < m + BLOCKNUMS /\ m < k + BLOCKNUMS
        BY <1>1, <2>3, <3>1, Constants
      <4> QED
        BY <1>1, <3>2, <4>1, NumbersDiffer
    <3>3. CASE Number(k) = Number(m + 1)
      <4>1. k < (m + 1) + BLOCKNUMS /\ m + 1 < k + BLOCKNUMS /\ m + 1 \in Nat
        BY <1>1, <2>3, <3>1, Constants
      <4>2. k = m + 1
        BY <1>1, <3>3, <4>1, NumbersDiffer
      <4> QED
        BY <1>1, <2>3, <4>2
    <3> QED
      BY <1>2, <2>2, <3>2, <3>3
  <2>5. p = c /\ Len(f) = m
    <3>1. f # <<>>
      BY <1>1, <2>4
    <3>2. p = c
      BY <1>1, <2>2, <3>1
    <3> QED
      BY <1>1, <2>2, <2>4, <3>2
  <2>6. Chosen'
    BY <1>2, <1>3, <1>4, <2>1, <2>4, <2>5 DEF WriteInv, Chosen
  <2>7. Stored'
    BY <1>2 DEF Stored, Bound
  <2> QED
    BY <1>5, <1>6, <2>6, <2>7 DEF WriteInv
<1> QED
  BY <1>8, <1>9

LEMMA OtherPacketSteps ==
    ASSUME WriteInv, (\E p \in StaleReads : DataArrives(p)) \/ ErrorReceived
    PROVE  WriteInv'
<1>1. UNCHANGED <<main, requested, data, started, file>> /\ Bound /\ tcxn \in Connections
  BY Types DEF DataArrives, ErrorReceived, WriteInv
<1>2. CASE \E p \in StaleReads : DataArrives(p)
  <2>1. PICK p \in StaleReads : DataArrives(p)
    BY <1>2
  <2>2. /\ tcxn' = [tcxn EXCEPT !.server_port = p, !.exp_blocknum = Succ(@), !.open = TRUE]
        /\ tcxn.exp_blocknum = 1
    BY <2>1 DEF DataArrives
  <2>3. Succ(1) = 2 /\ 2 \in BlockNum
    BY Constants, NumberSmall DEF Succ, Number, BlockNum
  <2>4. /\ tcxn'.server_port = p /\ tcxn'.exp_blocknum = 2 /\ tcxn' \in Connections
    BY <1>1, <2>2, <2>3 DEF Connections, Ports
  <2>5. p # UDP_PORT_TFTP /\ p \notin Sessions
    BY Constants
  <2>6. TypeOK'
    BY <1>1, <2>4 DEF WriteInv, TypeOK, Connections
  <2> QED
    BY <1>1, <2>4, <2>5, <2>6 DEF WriteInv, Retries, Unconnected, Hijacked, Chosen, Stored, Ours
<1>3. CASE ErrorReceived
  <2>1. tcxn' = [tcxn EXCEPT !.error = TRUE]
    BY <1>3 DEF ErrorReceived
  <2>2. /\ tcxn' \in Connections /\ tcxn'.server_port = tcxn.server_port
        /\ tcxn'.exp_blocknum = tcxn.exp_blocknum /\ tcxn'.open = tcxn.open
    BY <1>1, <2>1 DEF Connections
  <2>3. TypeOK'
    BY <1>1, <2>2 DEF WriteInv, TypeOK, Connections
  <2> QED
    BY <1>1, <2>2, <2>3 DEF WriteInv, Retries, Unconnected, Hijacked, Chosen, Stored, Ours
<1> QED
  BY <1>2, <1>3

-----------------------------------------------------------------------------
LEMMA NextInv == WriteInv /\ [Next]_vars => WriteInv'
<1> SUFFICES ASSUME WriteInv, [Next]_vars PROVE WriteInv'
  OBVIOUS
<1>1. CASE Foreground
  BY <1>1, ConnectSteps, SendStep, AcknowledgedStep, TimeOutStep DEF Foreground
<1>2. CASE Handler
  BY <1>2, AckStep, OtherPacketSteps DEF Handler
<1>3. CASE Server
  BY <1>3, ServerSteps DEF Server
<1>4. CASE UNCHANGED vars
  BY <1>4 DEF vars, WriteInv, TypeOK, Retries, Unconnected, Hijacked, Ours, Chosen, Stored
<1> QED
  BY <1>1, <1>2, <1>3, <1>4 DEF Next

LEMMA WriteInvariant == Spec => []WriteInv
<1>1. Init => WriteInv
  BY InitInv
<1>2. WriteInv /\ [Next]_vars => WriteInv'
  BY NextInv
<1> QED
  BY <1>1, <1>2, PTL DEF Spec

(* An ACK counts for one block, once, and only from the server chosen: as  *)
(* long as no earlier transfer's DATA takes the connection over, what      *)
(* tftp_write has gone past is stored there in its order, and no session   *)
(* is ahead of it.                                                         *)
THEOREM PassedIsStored == Spec => []AckedIsStored
<1>1. WriteInv => AckedIsStored
  <2> DEFINE m == main.block
             c == tcxn.server_port
             f == file[c]
  <2> SUFFICES ASSUME WriteInv, Ours
               PROVE  LockStep /\ (m > 1 => /\ c \in Sessions /\ Len(f) >= m - 1
                                            /\ \A i \in 1 .. m - 1 : f[i] = i)
    BY DEF AckedIsStored, WriteInv, LockStep
  <2>1. c \in Ports /\ m \in Nat /\ m >= 1
    BY Types DEF WriteInv, Mains, Connections
  <2>2. CASE c = UDP_PORT_TFTP
    BY <2>2 DEF WriteInv, Unconnected, LockStep
  <2>3. CASE c \in Sessions
    <3>1. /\ Len(f) \in {m - 1, m} /\ \A i \in 1 .. Len(f) : f[i] = i
          /\ \A p \in Sessions : p # c => file[p] = <<>>
      BY <2>3 DEF WriteInv, Chosen
    <3>2. \A i \in 1 .. m - 1 : i \in 1 .. Len(f)
      BY <2>1, <3>1
    <3>3. Len(f) >= m - 1 /\ Len(f) <= m
      BY <2>1, <3>1
    <3> QED
      BY <2>3, <3>1, <3>2, <3>3 DEF LockStep
  <2> QED
    BY <2>1, <2>2, <2>3 DEF Ours, Ports
<1> QED
  BY <1>1, WriteInvariant, PTL

(* Unless its retries were used up, tftp_write returns true only with the  *)
(* whole file stored.                                                      *)
THEOREM TrueIsStored == Spec => []StoredUnlessRetriesUsed
<1>1. WriteInv => StoredUnlessRetriesUsed
  BY DEF WriteInv, Stored, StoredUnlessRetriesUsed, WholeFileStored
<1> QED
  BY <1>1, WriteInvariant, PTL
=============================================================================
