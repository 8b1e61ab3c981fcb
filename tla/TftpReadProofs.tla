----------------------------- MODULE TftpReadProofs -----------------------------
(***************************************************************************)
(* Proofs about TftpRead, for a file of any length, any number of server   *)
(* sessions and block numbers, any pool and any lifetime of packets that   *)
(* TftpReadAssumption allows.                                              *)
(***************************************************************************)
EXTENDS TftpRead, SequenceTheorems, TLAPS

(***************************************************************************)
(* Remainders, as the block numbers on the wire are: a remainder tells a   *)
(* number among b consecutive ones, and the successor and predecessor may  *)
(* be taken of the remainder.                                              *)
(***************************************************************************)
LEMMA Division ==
    ASSUME NEW a \in Nat, NEW b \in Nat \ {0}
    PROVE  /\ a % b \in 0 .. b - 1
           /\ a = b * (a \div b) + (a % b)
           /\ a \div b \in Nat
OBVIOUS

LEMMA RemainderUnique ==
    ASSUME NEW b \in Nat \ {0}, NEW q \in Int, NEW s \in Int,
           NEW r \in 0 .. b - 1, NEW t \in 0 .. b - 1,
           b * q + r = b * s + t
    PROVE  q = s /\ r = t
<1>1. CASE q < s
  <2>1. b * (s - q) >= b
    BY <1>1
  <2> QED
    BY <2>1
<1>2. CASE s < q
  <2>1. b * (q - s) >= b
    BY <1>2
  <2> QED
    BY <2>1
<1> QED
  BY <1>1, <1>2

(* Equal remainders are a multiple of b apart. *)
LEMMA Apart ==
    ASSUME NEW b \in Nat \ {0}, NEW i \in Nat, NEW j \in Nat, i < j, i % b = j % b
    PROVE  i + b <= j
<1>1. i = b * (i \div b) + (i % b) /\ j = b * (j \div b) + (i % b)
  BY Division
<1>2. i \div b \in Nat /\ j \div b \in Nat
  BY Division
<1> DEFINE q == i \div b
           s == j \div b
<1>3. q < s
  <2>1. CASE s <= q
    <3>1. b * s <= b * q
      BY <1>2, <2>1
    <3> QED
      BY <1>1, <1>2, <3>1
  <2> QED
    BY <1>2, <2>1
<1>4. b * (s - q) >= b
  BY <1>2, <1>3
<1> QED
  BY <1>1, <1>2, <1>4

LEMMA Small ==
    ASSUME NEW b \in Nat \ {0}, NEW a \in Nat, a < b
    PROVE  a % b = a
OBVIOUS

LEMMA SuccOfRemainder ==
    ASSUME NEW b \in Nat \ {0}, NEW a \in Nat
    PROVE  ((a % b) + 1) % b = (a + 1) % b
<1> DEFINE q == a \div b
           r == a % b
           x == (a + 1) \div b
           y == (a + 1) % b
<1>1. q \in Nat /\ r \in 0 .. b - 1 /\ a = b * q + r
  BY Division
<1>2. x \in Nat /\ y \in 0 .. b - 1 /\ a + 1 = b * x + y
  <2>1. a + 1 \in Nat
    OBVIOUS
  <2> QED
    BY <2>1, Division
<1> HIDE DEF q, r, x, y
<1>3. CASE r + 1 < b
  <2>1. b * q + (r + 1) = b * x + y /\ r + 1 \in 0 .. b - 1
    BY <1>1, <1>2, <1>3
  <2>2. y = r + 1
    BY <1>1, <1>2, <2>1, RemainderUnique
  <2>3. (r + 1) % b = r + 1
    BY <1>1, <1>3, Small
  <2> QED
    BY <2>2, <2>3 DEF r, y
<1>4. CASE r + 1 = b
  <2>1. b * (q + 1) + 0 = b * x + y /\ 0 \in 0 .. b - 1
    BY <1>1, <1>2, <1>4
  <2>2. y = 0
    BY <1>1, <1>2, <2>1, RemainderUnique
  <2>3. b % b = 0
    OBVIOUS
  <2> QED
    BY <1>4, <2>2, <2>3 DEF r, y
<1> QED
  BY <1>1, <1>3, <1>4

LEMMA PredOfRemainder ==
    ASSUME NEW b \in Nat \ {0}, NEW a \in Nat
    PROVE  (((a + 1) % b) + b - 1) % b = a % b
<1> DEFINE r == a % b
           y == (a + 1) % b
<1>1. r \in 0 .. b - 1 /\ y = (r + 1) % b
  BY Division, SuccOfRemainder
<1> HIDE DEF r, y
<1>2. CASE r + 1 < b
  <2>1. y = r + 1
    BY <1>1, <1>2, Small
  <2>2. y + b - 1 = r + b
    BY <1>1, <2>1
  <2>3. (r + b) % b = r
    BY <1>1
  <2> QED
    BY <2>2, <2>3 DEF r, y
<1>3. CASE r + 1 = b
  <2>1. y = 0
    BY <1>1, <1>3
  <2>2. y + b - 1 = r
    BY <1>1, <1>3, <2>1
  <2>3. r % b = r
    BY <1>1, Small
  <2> QED
    BY <2>2, <2>3 DEF r, y
<1> QED
  BY <1>1, <1>2, <1>3

-----------------------------------------------------------------------------

(* The first block of the queue whose data the caller has not got. *)
First == IF main.pc \in {"rest", "remove"} THEN 2 ELSE 1

(* The newest block accepted: the one that bears the number before the     *)
(* expected one, of the session that the connection is to.                 *)
Newest(x) ==
    /\ x \in accepted .. N
    /\ Number(x) = Number(accepted)
    /\ tcxn.server_port \in Sessions
    /\ x <= server[tcxn.server_port]
    /\ tcxn.server_port \notin Stale => x = accepted
    /\ \A i \in 1 .. Len(queue) : queue[i].index <= x
    /\ \A i \in 1 .. Len(delivered) : delivered[i].index <= x

Beginning ==
    /\ accepted = 0 => /\ tcxn.server_port = UDP_PORT_TFTP /\ ~tcxn.open
                       /\ queue = <<>> /\ delivered = <<>>
    /\ accepted # 0 => \E x \in 1 .. N : Newest(x)
    /\ delivered = <<>> => /\ main.pc \in {"request", "wait", "failed", "read"}
                           /\ accepted # 0 => queue # <<>>
                           /\ main.pc = "read" => tcxn.open
    /\ main.pc = "request" => main.tries > 0

(* What the caller got and what is queued for it: from one session, in     *)
(* the order of the file.                                                  *)
Blocks ==
    /\ \A i \in 1 .. Len(delivered) : delivered[i].session = tcxn.server_port
    /\ \A i \in 1 .. Len(queue) : queue[i].session = tcxn.server_port
    /\ \A i, j \in 1 .. Len(delivered) : i < j => delivered[i].index < delivered[j].index
    /\ \A i, j \in 1 .. Len(queue) : i < j => queue[i].index < queue[j].index
    /\ \A i \in 1 .. Len(delivered) : \A j \in First .. Len(queue) :
          delivered[i].index < queue[j].index

(* From a session of this transfer: the queue ends with the newest block,  *)
(* and if no block vanished the caller has got all before it.              *)
Gapless ==
    tcxn.server_port \notin Stale =>
        /\ \A i \in 1 .. Len(queue) : queue[i].index = accepted - Len(queue) + i
        /\ lost = {} => \A i \in 1 .. Len(delivered) : delivered[i].index = i
        /\ lost = {} /\ Bound => accepted = Len(delivered) + Len(queue) + 1 - First

(* What the foreground acknowledges again is not too old. *)
Acked ==
    delivered # <<>> =>
        LET d == delivered[Len(delivered)].index IN
        /\ main.last_ack = Succ(Number(d))
        /\ First = 2 => queue[1].index = d
        /\ Bound /\ First = 1 /\ tcxn.server_port \notin Stale =>
              accepted < d + BUFFERS + Len(queue)

(* An ACK on the way to a session of this transfer is of a block that was  *)
(* received, and is not taken for that of another one.                     *)
AcksReceived ==
    \A a \in acks : a[1] \in Sessions \ Stale =>
        /\ a[1] = tcxn.server_port
        /\ \E j \in 0 .. accepted : a[2] = Number(j) /\ server[a[1]] < j + BLOCKNUMS

Ended ==
    /\ main.pc \in {"rest", "remove", "read", "await", "end"} /\ ~tcxn.open /\ ~tcxn.error =>
          \E i \in 1 .. Len(delivered) : delivered[i].index = N
    /\ main.pc = "completed" => \E i \in 1 .. Len(delivered) : delivered[i].index = N

ReadInv ==
    /\ TypeOK
    /\ tcxn.exp_blocknum = Number(accepted + 1)
    /\ Len(queue) <= BUFFERS
    /\ Beginning
    /\ Blocks
    /\ Gapless
    /\ Acked
    /\ AcksReceived
    /\ ServerNotAhead
    /\ Ended

-----------------------------------------------------------------------------
(* Block numbers: the number of the next block, of the one before, and     *)
(* that blocks with the same number are far apart.                         *)
LEMMA Constants ==
    /\ BLOCKNUMS \in Nat \ {0} /\ BLOCKNUMS > Lifetime + 2 /\ BLOCKNUMS > 2 * BUFFERS
    /\ BUFFERS \in Nat \ {0} /\ Lifetime \in Nat /\ N \in Nat \ {0} /\ RETRIES \in Nat \ {0}
    /\ UDP_PORT_TFTP \notin Sessions
BY TftpReadAssumption

LEMMA NumberIsNumber ==
    ASSUME NEW k \in Nat
    PROVE  Number(k) \in BlockNum
BY Constants, Division DEF Number, BlockNum

LEMMA NumberApart ==
    ASSUME NEW i \in Nat, NEW j \in Nat, i < j, Number(i) = Number(j)
    PROVE  i + BLOCKNUMS <= j
BY Constants, Apart DEF Number

LEMMA NumberSmall ==
    ASSUME NEW k \in Nat, k < BLOCKNUMS
    PROVE  Number(k) = k
BY Constants, Small DEF Number

LEMMA NumberSucc ==
    ASSUME NEW k \in Nat
    PROVE  Succ(Number(k)) = Number(k + 1)
BY Constants, SuccOfRemainder DEF Number, Succ

LEMMA NumberPred ==
    ASSUME NEW k \in Nat
    PROVE  Pred(Number(k + 1)) = Number(k)
BY Constants, PredOfRemainder DEF Number, Pred

(* Two neighbours never have the same number, nor two blocks that are less *)
(* than a round of numbers apart.                                          *)
LEMMA NumbersDiffer ==
    ASSUME NEW i \in Nat, NEW j \in Nat, Number(i) = Number(j),
           i < j + BLOCKNUMS, j < i + BLOCKNUMS
    PROVE  i = j
<1>1. BLOCKNUMS \in Nat
  BY Constants
<1>2. CASE i < j
  BY <1>1, <1>2, NumberApart
<1>3. CASE j < i
  BY <1>1, <1>3, NumberApart
<1> QED
  BY <1>2, <1>3

-----------------------------------------------------------------------------
Connections == [server_port : Sessions \cup {UDP_PORT_TFTP}, exp_blocknum : BlockNum,
                open : BOOLEAN, error : BOOLEAN]
Places == {"request", "wait", "read", "await", "rest", "remove", "end",
           "completed", "errors", "failed"}
Mains == [pc : Places, tries : 0 .. RETRIES, last_ack : BlockNum, single : BOOLEAN]

LEMMA Types ==
    TypeOK <=> /\ tcxn \in Connections /\ queue \in Seq(Block) /\ main \in Mains
               /\ server \in [Sessions -> 0 .. N + 1]
               /\ acks \subseteq (Sessions \cup {UDP_PORT_TFTP}) \X BlockNum
               /\ requested \in BOOLEAN /\ accepted \in 0 .. N
               /\ delivered \in Seq(Block) /\ lost \subseteq Block
               /\ main.pc \in {"rest", "remove"} => queue # <<>>
BY DEF TypeOK, Connections, Mains, Places

LEMMA Elements ==
    ASSUME NEW q \in Seq(Block)
    PROVE  /\ Len(q) \in Nat
           /\ \A i \in 1 .. Len(q) : /\ q[i] \in Block /\ q[i].session \in Sessions
                                     /\ q[i].index \in 1 .. N /\ q[i].index \in Nat
<1>1. Len(q) \in Nat
  BY LenProperties
<1>2. ASSUME NEW i \in 1 .. Len(q)
      PROVE  /\ q[i] \in Block /\ q[i].session \in Sessions
             /\ q[i].index \in 1 .. N /\ q[i].index \in Nat
  <2>1. q[i] \in Block
    BY ElementOfSeq
  <2> QED
    BY <2>1, Constants DEF Block
<1> QED
  BY <1>1, <1>2

LEMMA InitInv == Init => ReadInv
<1> SUFFICES ASSUME Init PROVE ReadInv
  OBVIOUS
<1>1. /\ accepted = 0 /\ queue = <<>> /\ delivered = <<>> /\ main.pc = "request" /\ acks = {}
      /\ tcxn.server_port = UDP_PORT_TFTP /\ ~tcxn.open /\ lost = {} /\ requested = FALSE
  BY DEF Init
<1>2. TypeOK
  <2>1. 0 \in BlockNum /\ 1 \in BlockNum
    BY Constants DEF BlockNum
  <2>2. tcxn \in Connections /\ main \in Mains
    BY <2>1, Constants DEF Init, Connections, Mains, Places
  <2>3. server \in [Sessions -> 0 .. N + 1]
    BY Constants DEF Init
  <2>4. queue \in Seq(Block) /\ delivered \in Seq(Block)
    BY <1>1, EmptySeq
  <2>5. 0 \in 0 .. N
    BY Constants
  <2> QED
    BY <1>1, <2>2, <2>3, <2>4, <2>5 DEF TypeOK, Connections, Mains, Places
<1>3. Number(0 + 1) = 1
  BY Constants, NumberSmall
<1>4. Beginning
  BY <1>1, Constants DEF Beginning, Init
<1>5. Blocks
  BY <1>1 DEF Blocks
<1>6. Gapless
  BY <1>1 DEF Gapless, First
<1>7. Acked /\ AcksReceived
  BY <1>1 DEF Acked, AcksReceived
<1>8. ServerNotAhead
  <2>1. \A p \in Sessions \ Stale : server[p] = 0
    BY DEF Init
  <2> QED
    BY <2>1 DEF ServerNotAhead
<1>9. Ended
  BY <1>1 DEF Ended
<1> QED
  BY <1>1, <1>2, <1>3, <1>4, <1>5, <1>6, <1>7, <1>8, <1>9, Constants DEF ReadInv, Init

(* A step that leaves the blocks and the ACKs alone. *)
LEMMA OnlyPlace ==
    ASSUME ReadInv, TypeOK', Beginning', Ended',
           queue' = queue, server' = server, acks' = acks, accepted' = accepted,
           delivered' = delivered, lost' = lost,
           tcxn'.server_port = tcxn.server_port, tcxn'.exp_blocknum = tcxn.exp_blocknum,
           main'.last_ack = main.last_ack, First' = First, Bound' => Bound
    PROVE  ReadInv'
<1>1. Blocks'
  BY DEF ReadInv, Blocks
<1>2. Gapless'
  BY DEF ReadInv, Gapless
<1>3. Acked'
  BY DEF ReadInv, Acked
<1>4. AcksReceived' /\ ServerNotAhead'
  BY DEF ReadInv, AcksReceived, ServerNotAhead
<1> QED
  BY <1>1, <1>2, <1>3, <1>4 DEF ReadInv

-----------------------------------------------------------------------------
(* The server.  An ACK of the block that a session of this transfer is at  *)
(* was sent for that block: it has been received.                          *)
LEMMA ServerSteps ==
    ASSUME ReadInv, NEW p \in Sessions, StartSession(p) \/ ServerGoesOn(p)
    PROVE  ReadInv'
<1>1. /\ tcxn' = tcxn /\ queue' = queue /\ main' = main /\ accepted' = accepted
      /\ delivered' = delivered /\ lost' = lost /\ requested' = requested
  BY DEF StartSession, ServerGoesOn
<1>2. /\ server \in [Sessions -> 0 .. N + 1] /\ accepted \in 0 .. N /\ N \in Nat
      /\ BLOCKNUMS \in Nat /\ BLOCKNUMS > Lifetime + 2 /\ Lifetime \in Nat
  BY Constants DEF ReadInv, TypeOK
<1>3. server[p] \in 0 .. N /\ server' = [server EXCEPT ![p] = server[p] + 1] /\ acks' \subseteq acks
  BY <1>2 DEF StartSession, ServerGoesOn
<1>4. \A q \in Sessions : server'[q] >= server[q] /\ (q # p => server'[q] = server[q])
  BY <1>2, <1>3
<1>5. TypeOK'
  <2>1. server' \in [Sessions -> 0 .. N + 1]
    BY <1>2, <1>3
  <2> QED
    BY <1>1, <1>3, <2>1 DEF ReadInv, TypeOK
<1>6. Beginning'
  BY <1>1, <1>2, <1>4, <1>5 DEF ReadInv, Beginning, Newest, TypeOK
<1>7. Blocks' /\ Gapless' /\ Acked' /\ Ended'
  BY <1>1 DEF ReadInv, Blocks, Gapless, Acked, Ended, First, Bound
<1>8. CASE StartSession(p)
  <2>1. server[p] = 0 /\ server'[p] = 1 /\ acks' = acks
    BY <1>2, <1>3, <1>8 DEF StartSession
  <2>2. ServerNotAhead'
    BY <1>1, <1>4, <2>1 DEF ReadInv, ServerNotAhead
  <2>3. AcksReceived'
    BY <1>1, <1>2, <1>4, <2>1 DEF ReadInv, AcksReceived
  <2> QED
    BY <1>1, <1>5, <1>6, <1>7, <2>2, <2>3 DEF ReadInv
<1>9. CASE ServerGoesOn(p)
  <2> DEFINE s == server[p]
  <2>1. /\ s \in 1 .. N /\ <<p, Number(s)>> \in acks
        /\ acks' = {a \in acks : a[1] = p => \E j \in 1 .. s : Alive(j, s) /\ a[2] = Number(j)}
    BY <1>9 DEF ServerGoesOn
  <2>2. p \notin Stale => p = tcxn.server_port /\ s <= accepted
    <3> SUFFICES ASSUME p \notin Stale PROVE p = tcxn.server_port /\ s <= accepted
      OBVIOUS
    <3>1. PICK j \in 0 .. accepted : Number(s) = Number(j) /\ s < j + BLOCKNUMS
      BY <2>1 DEF ReadInv, AcksReceived
    <3>2. p = tcxn.server_port
      BY <2>1 DEF ReadInv, AcksReceived
    <3>3. s <= accepted + 1
      BY <1>2, <2>1 DEF ReadInv, ServerNotAhead
    <3>4. CASE s = accepted + 1
      <4>1. s \in Nat /\ j \in Nat /\ j < s + BLOCKNUMS
        BY <1>2, <3>4
      <4>2. j = s
        BY <3>1, <4>1, NumbersDiffer
      <4> QED
        BY <1>2, <3>4, <4>2
    <3> QED
      BY <1>2, <3>2, <3>3, <3>4
  <2>3. ServerNotAhead'
    BY <1>1, <1>2, <1>3, <1>4, <2>2 DEF ReadInv, ServerNotAhead
  <2>4. AcksReceived'
    <3> SUFFICES ASSUME NEW a \in acks', a[1] \in Sessions \ Stale
                 PROVE  /\ a[1] = tcxn.server_port
                        /\ \E j \in 0 .. accepted : a[2] = Number(j) /\ server'[a[1]] < j + BLOCKNUMS
      BY <1>1 DEF AcksReceived
    <3>1. a[1] = tcxn.server_port
      BY <1>3 DEF ReadInv, AcksReceived
    <3>2. CASE a[1] # p
      BY <1>3, <1>4, <3>2 DEF ReadInv, AcksReceived
    <3>3. CASE a[1] = p
      <4>1. PICK j \in 1 .. s : Alive(j, s) /\ a[2] = Number(j)
        BY <2>1, <3>3
      <4>2. j \in 0 .. accepted
        BY <1>2, <2>1, <2>2, <3>3
      <4>3. server'[p] < j + BLOCKNUMS
        BY <1>2, <1>3, <2>1, <4>1 DEF Alive
      <4> QED
        BY <3>1, <3>3, <4>1, <4>2, <4>3
    <3> QED
      BY <3>1, <3>2, <3>3
  <2> QED
    BY <1>1, <1>5, <1>6, <1>7, <2>3, <2>4 DEF ReadInv
<1> QED
  BY <1>8, <1>9

-----------------------------------------------------------------------------
(* A block that the handler takes is the next one of the file or, from an  *)
(* earlier transfer, a later one than before; all from one session.        *)
LEMMA NextBlockOnly ==
    ASSUME ReadInv, NEW p \in Sessions, NEW k \in 1 .. N, k <= server[p],
           IF p \in Stale THEN Alive(k, server[p] - 1) /\ Alive(0, accepted) ELSE Alive(k, accepted),
           Number(k) = tcxn.exp_blocknum, FromServer(p, Number(k))
    PROVE  /\ accepted # 0 => p = tcxn.server_port
           /\ p \notin Stale => k = accepted + 1
           /\ accepted < k
           /\ \A x \in 1 .. N : Newest(x) => x < k
<1>1. /\ server \in [Sessions -> 0 .. N + 1] /\ accepted \in 0 .. N /\ N \in Nat /\ server[p] \in Nat
      /\ BLOCKNUMS \in Nat /\ BLOCKNUMS > Lifetime + 2 /\ Lifetime \in Nat /\ k \in Nat
  BY Constants DEF ReadInv, TypeOK
<1>2. Number(k) = Number(accepted + 1) /\ accepted + 1 \in Nat
  BY <1>1 DEF ReadInv
<1>3. p # tcxn.server_port /\ p \notin Stale => k = 1
  BY <1>1 DEF ReadInv, ServerNotAhead
<1>4. accepted # 0 => p = tcxn.server_port
  <2> SUFFICES ASSUME accepted # 0, p # tcxn.server_port PROVE FALSE
    OBVIOUS
  <2>1. Number(k) = 1 /\ Number(1) = 1
    BY <1>1, NumberSmall DEF FromServer
  <2>2. accepted <= 1 + Lifetime
    BY <1>1, <1>3 DEF Alive
  <2>3. accepted + 1 < 1 + BLOCKNUMS /\ 1 < accepted + 1
    BY <1>1, <2>2
  <2>4. accepted + 1 = 1
    BY <1>1, <1>2, <2>1, <2>3, NumbersDiffer
  <2> QED
    BY <1>1, <2>4
<1>5. p \notin Stale => k = accepted + 1
  <2> SUFFICES ASSUME p \notin Stale PROVE k = accepted + 1
    OBVIOUS
  <2>1. k <= accepted + 1
    BY <1>1, <1>3, <1>4 DEF ReadInv, ServerNotAhead
  <2>2. accepted + 1 < k + BLOCKNUMS
    BY <1>1 DEF Alive
  <2> QED
    BY <1>1, <1>2, <2>1, <2>2, NumbersDiffer
<1>6. ASSUME NEW x \in 1 .. N, Newest(x), accepted # 0 PROVE x < k
  <2>1. p = tcxn.server_port /\ x <= server[p] /\ Number(x) = Number(accepted)
        /\ x \in Nat /\ accepted <= x
    BY <1>1, <1>4, <1>6 DEF Newest
  <2>2. CASE p \notin Stale
    BY <1>1, <1>5, <1>6, <2>1, <2>2 DEF Newest
  <2>3. CASE p \in Stale
    <3>1. server[p] - 1 <= k + Lifetime
      BY <1>1, <2>3 DEF Alive
    <3>2. Number(k) = Number(x + 1)
      BY <1>1, <1>2, <2>1, NumberSucc
    <3>3. CASE k < x + 1
      <4>1. x + 1 < k + BLOCKNUMS /\ k < (x + 1) + BLOCKNUMS /\ x + 1 \in Nat
        BY <1>1, <2>1, <3>1, <3>3
      <4>2. k = x + 1
        BY <1>1, <3>2, <4>1, NumbersDiffer
      <4> QED
        BY <1>1, <2>1, <3>3, <4>2
    <3> QED
      BY <1>1, <2>1, <3>3
  <2> QED
    BY <2>2, <2>3
<1>7. accepted < k
  <2>1. CASE accepted = 0
    BY <1>1, <2>1
  <2>2. CASE accepted # 0
    <3>1. PICK x \in 1 .. N : Newest(x)
      BY <2>2 DEF ReadInv, Beginning
    <3>2. accepted <= x /\ x < k
      BY <1>1, <1>6, <2>2, <3>1 DEF Newest
    <3> QED
      BY <1>1, <3>2
  <2> QED
    BY <2>1, <2>2
<1>8. \A x \in 1 .. N : Newest(x) => x < k
  <2> SUFFICES ASSUME NEW x \in 1 .. N, Newest(x) PROVE x < k
    OBVIOUS
  <2>1. accepted # 0
    BY Constants DEF Newest, ReadInv, Beginning
  <2> QED
    BY <1>6, <2>1
<1> QED
  BY <1>4, <1>5, <1>7, <1>8

LEMMA DataExpectedStep ==
    ASSUME ReadInv, NEW p \in Sessions, NEW k \in 1 .. N, k <= server[p],
           IF p \in Stale THEN Alive(k, server[p] - 1) /\ Alive(0, accepted) ELSE Alive(k, accepted),
           DataExpected(p, k)
    PROVE  ReadInv'
<1> DEFINE b == [session |-> p, index |-> k]
<1>1. /\ tcxn \in Connections /\ queue \in Seq(Block) /\ server \in [Sessions -> 0 .. N + 1]
      /\ delivered \in Seq(Block) /\ accepted \in 0 .. N /\ N \in Nat /\ k \in Nat /\ Len(queue) \in Nat
  BY Constants, Types DEF ReadInv
<1>2. /\ main' = main /\ server' = server /\ acks' = acks /\ requested' = requested
      /\ delivered' = delivered /\ lost' = lost /\ accepted' = accepted + 1
      /\ queue' = Append(queue, b) /\ b \in Block
  BY DEF DataExpected, Block
<1>3. /\ Len(queue') = Len(queue) + 1
      /\ \A i \in 1 .. Len(queue) : queue'[i] = queue[i]
      /\ queue'[Len(queue) + 1] = b
      /\ queue' \in Seq(Block)
  BY <1>1, <1>2
<1>3a. /\ \A i \in 1 .. Len(queue) : queue[i].index \in Nat
       /\ \A i \in 1 .. Len(delivered) : delivered[i].index \in Nat
       /\ \A i \in 1 .. Len(queue') : i \in 1 .. Len(queue) \/ i = Len(queue) + 1
       /\ Len(delivered) \in Nat
  <2>1. \A i \in 1 .. Len(queue') : i \in 1 .. Len(queue) \/ i = Len(queue) + 1
    BY <1>1, <1>3
  <2> QED
    BY <1>1, <2>1, Elements
<1>4. /\ tcxn'.server_port = p /\ tcxn'.exp_blocknum = Succ(tcxn.exp_blocknum)
      /\ tcxn'.open = (tcxn.open \/ Number(k) = 1) /\ tcxn'.error = tcxn.error
  BY <1>1 DEF DataExpected, Connections
<1>5. /\ accepted # 0 => p = tcxn.server_port
      /\ p \notin Stale => k = accepted + 1
      /\ accepted < k
      /\ \A x \in 1 .. N : Newest(x) => x < k
  BY NextBlockOnly DEF DataExpected
<1>6. tcxn'.exp_blocknum = Number(accepted' + 1)
  <2>1. accepted + 1 \in Nat
    BY <1>1
  <2> QED
    BY <1>1, <1>2, <1>4, <2>1, NumberSucc DEF ReadInv
<1>7. TypeOK'
  <2>1. accepted' \in 0 .. N /\ accepted' + 1 \in Nat
    BY <1>1, <1>2, <1>5
  <2>2. tcxn'.exp_blocknum \in BlockNum
    BY <1>6, <2>1, NumberIsNumber
  <2>3. tcxn' = [tcxn EXCEPT !.server_port = p, !.exp_blocknum = Succ(@), !.open = @ \/ Number(k) = 1]
    BY DEF DataExpected
  <2>4. tcxn' \in Connections
    BY <1>1, <1>4, <2>2, <2>3 DEF Connections
  <2>5. queue' # <<>>
    BY <1>1, <1>3
  <2> QED
    BY <1>2, <1>3, <2>1, <2>4, <2>5 DEF ReadInv, TypeOK, Connections
<1>8. Len(queue') <= BUFFERS
  BY <1>1, <1>3, Constants DEF DataExpected
<1>9. /\ accepted = 0 => queue = <<>> /\ delivered = <<>>
      /\ accepted # 0 => /\ \A i \in 1 .. Len(queue) : queue[i].index < k
                         /\ \A i \in 1 .. Len(delivered) : delivered[i].index < k
  <2>1. accepted = 0 => queue = <<>> /\ delivered = <<>>
    BY DEF ReadInv, Beginning
  <2>2. ASSUME accepted # 0
        PROVE  /\ \A i \in 1 .. Len(queue) : queue[i].index < k
               /\ \A i \in 1 .. Len(delivered) : delivered[i].index < k
    <3>1. PICK x \in 1 .. N : Newest(x)
      BY <2>2 DEF ReadInv, Beginning
    <3>2. x < k /\ x \in Nat
      BY <1>1, <1>5, <3>1
    <3>3. \A i \in 1 .. Len(queue) : queue[i].index \in Nat /\ queue[i].index <= x
      BY <1>3a, <3>1 DEF Newest
    <3>4. \A i \in 1 .. Len(delivered) : delivered[i].index \in Nat /\ delivered[i].index <= x
      BY <1>3a, <3>1 DEF Newest
    <3> QED
      BY <1>1, <3>2, <3>3, <3>4
  <2> QED
    BY <2>1, <2>2
<1>10. First' = First /\ First \in {1, 2} /\ (Bound' = Bound)
  BY <1>2 DEF First, Bound
<1>11. Beginning'
  <2>1. Newest(k)'
    <3>1. k \in accepted' .. N /\ (p \notin Stale => k = accepted')
      BY <1>1, <1>2, <1>5
    <3>2. Number(k) = Number(accepted')
      BY <1>2 DEF DataExpected, ReadInv
    <3>3. \A i \in 1 .. Len(queue') : queue'[i].index <= k
      <4> SUFFICES ASSUME NEW i \in 1 .. Len(queue') PROVE queue'[i].index <= k
        OBVIOUS
      <4>1. i \in 1 .. Len(queue) => queue'[i].index \in Nat /\ queue'[i].index < k
        <5> SUFFICES ASSUME i \in 1 .. Len(queue) PROVE queue'[i].index \in Nat /\ queue'[i].index < k
          OBVIOUS
        <5>1. accepted # 0
          BY <1>1, <1>9
        <5>2. queue'[i] = queue[i] /\ queue[i].index \in Nat
          BY <1>3, <1>3a
        <5> QED
          BY <1>9, <5>1, <5>2
      <4>2. i = Len(queue) + 1 => queue'[i].index = k
        BY <1>3
      <4> QED
        BY <1>1, <1>3a, <4>1, <4>2
    <3>4. \A i \in 1 .. Len(delivered') : delivered'[i].index <= k
      BY <1>1, <1>2, <1>3a, <1>9
    <3> QED
      BY <1>2, <1>4, <3>1, <3>2, <3>3, <3>4 DEF Newest
  <2>2. accepted' # 0
    BY <1>1, <1>2
  <2>3. delivered' = <<>> => /\ main'.pc \in {"request", "wait", "failed", "read"}
                             /\ accepted' # 0 => queue' # <<>>
                             /\ main'.pc = "read" => tcxn'.open
    <3>1. queue' # <<>>
      BY <1>1, <1>3
    <3>2. tcxn.open => tcxn'.open
      BY <1>4
    <3> QED
      BY <1>1, <1>2, <1>9, <3>1, <3>2 DEF ReadInv, Beginning
  <2> QED
    BY <1>2, <2>1, <2>2, <2>3 DEF Beginning, ReadInv
<1>12. Blocks'
  <2>1. \A i \in 1 .. Len(delivered') : delivered'[i].session = tcxn'.server_port
    BY <1>2, <1>4, <1>5, <1>9 DEF ReadInv, Blocks
  <2>2. \A i \in 1 .. Len(queue') : queue'[i].session = tcxn'.server_port
    <3> SUFFICES ASSUME NEW i \in 1 .. Len(queue') PROVE queue'[i].session = p
      BY <1>4
    <3>1. i = Len(queue) + 1 => queue'[i].session = p
      BY <1>3
    <3>2. i \in 1 .. Len(queue) => queue'[i].session = p
      BY <1>1, <1>3, <1>5, <1>9 DEF ReadInv, Blocks
    <3> QED
      BY <1>3a, <3>1, <3>2
  <2>3. \A i, j \in 1 .. Len(delivered') : i < j => delivered'[i].index < delivered'[j].index
    BY <1>2 DEF ReadInv, Blocks
  <2>4. \A i, j \in 1 .. Len(queue') : i < j => queue'[i].index < queue'[j].index
    <3> SUFFICES ASSUME NEW i \in 1 .. Len(queue'), NEW j \in 1 .. Len(queue'), i < j
                 PROVE  queue'[i].index < queue'[j].index
      OBVIOUS
    <3>1. i \in 1 .. Len(queue) /\ queue'[i] = queue[i]
      BY <1>1, <1>3
    <3>2. CASE j \in 1 .. Len(queue)
      BY <1>3, <3>1, <3>2 DEF ReadInv, Blocks
    <3>3. CASE j = Len(queue) + 1
      BY <1>1, <1>3, <1>9, <3>1, <3>3
    <3> QED
      BY <1>3a, <3>2, <3>3
  <2>5. \A i \in 1 .. Len(delivered') : \A j \in First' .. Len(queue') :
           delivered'[i].index < queue'[j].index
    <3> SUFFICES ASSUME NEW i \in 1 .. Len(delivered), NEW j \in First .. Len(queue')
                 PROVE  delivered[i].index < queue'[j].index
      BY <1>2, <1>10
    <3>1. accepted # 0
      BY <1>1, <1>9
    <3>2. CASE j \in First .. Len(queue)
      <4>1. queue'[j] = queue[j]
        BY <1>1, <1>3, <1>10, <3>2
      <4> QED
        BY <3>2, <4>1 DEF ReadInv, Blocks
    <3>3. CASE j = Len(queue) + 1
      BY <1>3, <1>9, <3>1, <3>3
    <3> QED
      BY <1>1, <1>3, <1>10, <3>2, <3>3
  <2> QED
    BY <2>1, <2>2, <2>3, <2>4, <2>5 DEF Blocks
<1>13. Gapless'
  <2> SUFFICES ASSUME p \notin Stale
               PROVE  /\ \A i \in 1 .. Len(queue') : queue'[i].index = accepted' - Len(queue') + i
                      /\ lost = {} => \A i \in 1 .. Len(delivered) : delivered[i].index = i
                      /\ lost = {} /\ Bound => accepted' = Len(delivered) + Len(queue') + 1 - First
    BY <1>2, <1>4, <1>10 DEF Gapless
  <2>1. k = accepted + 1
    BY <1>5
  <2>2. CASE accepted = 0
    <3>1. queue = <<>> /\ delivered = <<>> /\ Len(queue) = 0 /\ Len(delivered) = 0
      BY <1>9, <2>2
    <3>2. First = 1 \/ ~Bound
      BY <3>1 DEF ReadInv, Beginning, First
    <3> QED
      BY <1>2, <1>3, <2>1, <2>2, <3>1, <3>2
  <2>3. CASE accepted # 0
    <3>1. tcxn.server_port \notin Stale
      BY <1>5, <2>3
    <3>2. Len(delivered) \in Nat
      BY <1>1
    <3>3. \A i \in 1 .. Len(queue) : queue'[i].index = accepted - Len(queue) + i
      BY <1>3, <3>1 DEF ReadInv, Gapless
    <3>4. \A i \in 1 .. Len(queue') : queue'[i].index = accepted' - Len(queue') + i
      BY <1>1, <1>2, <1>3, <2>1, <3>3
    <3>5. lost = {} /\ Bound => accepted' = Len(delivered) + Len(queue') + 1 - First
      <4> SUFFICES ASSUME lost = {}, Bound PROVE accepted' = Len(delivered) + Len(queue') + 1 - First
        OBVIOUS
      <4>1. accepted = Len(delivered) + Len(queue) + 1 - First
        BY <3>1 DEF ReadInv, Gapless
      <4>2. First \in Nat
        BY <1>10
      <4> QED
        BY <1>1, <1>2, <1>3, <3>2, <4>1, <4>2
    <3> QED
      BY <3>1, <3>4, <3>5 DEF ReadInv, Gapless
  <2> QED
    BY <2>2, <2>3
<1>14. Acked'
  <2> SUFFICES ASSUME delivered # <<>> PROVE Acked'
    BY <1>2 DEF Acked
  <2> DEFINE d == delivered[Len(delivered)].index
  <2>1. accepted # 0 /\ p = tcxn.server_port
    BY <1>5, <1>9
  <2>2. d \in Nat
    <3>1. Len(delivered) \in 1 .. Len(delivered)
      BY <1>1
    <3> QED
      BY <1>3a, <3>1
  <2>3. main.last_ack = Succ(Number(d))
    BY DEF ReadInv, Acked
  <2>4. First = 2 => queue'[1].index = d
    <3>1. First = 2 => 1 \in 1 .. Len(queue) /\ queue[1].index = d
      BY <1>1 DEF ReadInv, TypeOK, Acked, First
    <3> QED
      BY <1>1, <1>3, <3>1
  <2>5. Bound /\ First = 1 /\ p \notin Stale => accepted' < d + BUFFERS + Len(queue')
    <3>1. Bound /\ First = 1 /\ p \notin Stale => accepted < d + BUFFERS + Len(queue)
      BY <2>1 DEF ReadInv, Acked
    <3> QED
      BY <1>1, <1>2, <1>3, <2>2, <3>1, Constants
  <2> QED
    BY <1>2, <1>4, <1>10, <2>3, <2>4, <2>5 DEF Acked
<1>15. AcksReceived'
  <2> SUFFICES ASSUME NEW a \in acks, a[1] \in Sessions \ Stale
               PROVE  /\ a[1] = p
                      /\ \E j \in 0 .. accepted' : a[2] = Number(j) /\ server[a[1]] < j + BLOCKNUMS
    BY <1>2, <1>4 DEF AcksReceived
  <2>1. /\ a[1] = tcxn.server_port
        /\ \E j \in 0 .. accepted : a[2] = Number(j) /\ server[a[1]] < j + BLOCKNUMS
    BY DEF ReadInv, AcksReceived
  <2>2. a[1] = p
    BY <1>5, <2>1, Constants DEF ReadInv, Beginning
  <2>3. \A j \in 0 .. accepted : j \in 0 .. accepted'
    BY <1>1, <1>2
  <2> QED
    BY <2>1, <2>2, <2>3
<1>16. ServerNotAhead'
  <2> SUFFICES ASSUME NEW q \in Sessions \ Stale, server[q] > 1
               PROVE  q = p /\ server[q] <= accepted' + 1
    BY <1>2, <1>4 DEF ServerNotAhead
  <2>1. q = tcxn.server_port /\ server[q] <= accepted + 1
    BY DEF ReadInv, ServerNotAhead
  <2> QED
    BY <1>1, <1>2, <1>5, <2>1, Constants DEF ReadInv, Beginning
<1>17. Ended'
  BY <1>2, <1>4 DEF ReadInv, Ended
<1> QED
  BY <1>6, <1>7, <1>8, <1>11, <1>12, <1>13, <1>14, <1>15, <1>16, <1>17 DEF ReadInv

-----------------------------------------------------------------------------
(* An ACK to the connection's port, of a block that was received and whose *)
(* number no block that the server may be at bears.                        *)
LEMMA AckSent ==
    ASSUME ReadInv, NEW n \in BlockNum, tftp_ack(n),
           server' = server, accepted' = accepted, tcxn'.server_port = tcxn.server_port,
           tcxn.server_port \in Sessions \ Stale =>
              \E j \in 0 .. accepted : n = Number(j) /\ server[tcxn.server_port] < j + BLOCKNUMS
    PROVE  AcksReceived' /\ acks' \subseteq (Sessions \cup {UDP_PORT_TFTP}) \X BlockNum
<1>1. acks' = acks \cup {<<tcxn.server_port, n>>}
  BY DEF tftp_ack
<1>2. AcksReceived'
  <2> SUFFICES ASSUME NEW a \in acks', a[1] \in Sessions \ Stale
               PROVE  /\ a[1] = tcxn.server_port
                      /\ \E j \in 0 .. accepted : a[2] = Number(j) /\ server[a[1]] < j + BLOCKNUMS
    BY DEF AcksReceived
  <2>1. CASE a \in acks
    BY <2>1 DEF ReadInv, AcksReceived
  <2>2. CASE a = <<tcxn.server_port, n>>
    <3>1. a[1] = tcxn.server_port /\ a[2] = n
      BY <2>2
    <3> QED
      BY <3>1
  <2> QED
    BY <1>1, <2>1, <2>2
<1>3. tcxn.server_port \in Sessions \cup {UDP_PORT_TFTP}
  BY Types DEF ReadInv, Connections
<1>4. acks \subseteq (Sessions \cup {UDP_PORT_TFTP}) \X BlockNum
  BY DEF ReadInv, TypeOK
<1> QED
  BY <1>1, <1>2, <1>3, <1>4

LEMMA DataUnexpectedStep ==
    ASSUME ReadInv, NEW p \in Sessions, NEW k \in 1 .. N, k <= server[p],
           IF p \in Stale THEN Alive(k, server[p] - 1) /\ Alive(0, accepted) ELSE Alive(k, accepted),
           DataUnexpected(p, k)
    PROVE  ReadInv'
<1> DEFINE c == tcxn.server_port
<1>1. /\ server \in [Sessions -> 0 .. N + 1] /\ accepted \in 0 .. N /\ N \in Nat /\ k \in Nat
      /\ BLOCKNUMS \in Nat /\ BLOCKNUMS > Lifetime + 2 /\ Lifetime \in Nat /\ Number(k) \in BlockNum
  BY Constants, NumberIsNumber DEF ReadInv, TypeOK
<1>2. UNCHANGED <<tcxn, queue, main, server, requested, accepted, delivered, lost>>
  BY DEF DataUnexpected
<1>3. ASSUME c \in Sessions \ Stale
      PROVE  \E j \in 0 .. accepted : Number(k) = Number(j) /\ server[c] < j + BLOCKNUMS
  <2>1. server[c] \in Nat /\ server[c] <= accepted + 1 /\ accepted + 1 \in Nat
    BY <1>1, <1>3 DEF ReadInv, ServerNotAhead
  <2>2. Number(k) < Number(accepted + 1)
    BY DEF ReadInv, DataUnexpected
  <2>3. CASE p \in Stale
    <3>1. accepted <= Lifetime
      BY <1>1, <2>3 DEF Alive
    <3>2. Number(accepted + 1) = accepted + 1
      BY <1>1, <2>1, <3>1, NumberSmall
    <3> DEFINE j == Number(k)
    <3>3. j \in Nat /\ j < BLOCKNUMS
      BY <1>1 DEF BlockNum
    <3>4. j \in 0 .. accepted /\ Number(j) = j
      BY <1>1, <2>2, <3>2, <3>3, NumberSmall
    <3>5. server[c] < j + BLOCKNUMS
      BY <1>1, <2>1, <3>1, <3>3
    <3> QED
      BY <3>4, <3>5
  <2>4. CASE p \notin Stale
    <3>1. accepted <= k + Lifetime
      BY <1>1, <2>4 DEF Alive
    <3>2. k <= accepted
      <4>1. k <= accepted + 1
        BY <1>1, <2>4 DEF ReadInv, ServerNotAhead
      <4>2. k # accepted + 1
        BY <1>1, <2>2 DEF BlockNum
      <4> QED
        BY <1>1, <4>1, <4>2
    <3> QED
      BY <1>1, <2>1, <3>1, <3>2
  <2> QED
    BY <2>3, <2>4
<1>4. tftp_ack(Number(k))
  BY DEF DataUnexpected
<1>5. AcksReceived' /\ acks' \subseteq (Sessions \cup {UDP_PORT_TFTP}) \X BlockNum
  BY <1>1, <1>2, <1>3, <1>4, AckSent
<1>6. TypeOK'
  BY <1>2, <1>5 DEF ReadInv, TypeOK
<1>7. Beginning' /\ Blocks' /\ Gapless' /\ Acked' /\ ServerNotAhead' /\ Ended'
  BY <1>2 DEF ReadInv, Beginning, Newest, Blocks, Gapless, Acked, ServerNotAhead, Ended, First, Bound
<1> QED
  BY <1>2, <1>5, <1>6, <1>7 DEF ReadInv

LEMMA NetworkSteps ==
    ASSUME ReadInv, DataArrives \/ ErrorReceived
    PROVE  ReadInv'
<1>1. CASE DataArrives
  BY <1>1, DataExpectedStep, DataUnexpectedStep DEF DataArrives
<1>2. CASE ErrorReceived
  <2>1. tcxn \in Connections /\ tcxn' = [tcxn EXCEPT !.error = TRUE] /\ Bound
    BY <1>2, Types DEF ErrorReceived, ReadInv
  <2>2. /\ tcxn' \in Connections /\ tcxn'.error /\ tcxn'.open = tcxn.open
        /\ tcxn'.server_port = tcxn.server_port /\ tcxn'.exp_blocknum = tcxn.exp_blocknum
    BY <2>1 DEF Connections
  <2>3. UNCHANGED <<queue, main, server, acks, requested, accepted, delivered, lost>>
    BY <1>2 DEF ErrorReceived
  <2>4. TypeOK'
    BY <2>2, <2>3 DEF ReadInv, TypeOK, Connections
  <2>5. Beginning'
    BY <2>2, <2>3 DEF ReadInv, Beginning, Newest
  <2>6. Ended'
    BY <2>1, <2>2, <2>3 DEF Ended, Bound
  <2>7. First' = First /\ (Bound' => Bound)
    BY <2>3 DEF First, Bound
  <2> QED
    BY <2>2, <2>3, <2>4, <2>5, <2>6, <2>7, OnlyPlace
<1> QED
  BY <1>1, <1>2

-----------------------------------------------------------------------------
(* The foreground.  tftp_read, and the steps of tftp_in_char that only     *)
(* change its place.                                                       *)
LEMMA PlaceSteps ==
    ASSUME ReadInv,
           \/ tftp_rwrq \/ ServerResponded \/ RequestTimedOut
           \/ (NextBlock /\ queue = <<>>) \/ GiveUp \/ RestOfBlock \/ NoMoreCharacters
    PROVE  ReadInv'
<1>1. tcxn \in Connections /\ main \in Mains /\ RETRIES \in Nat /\ requested \in BOOLEAN
  BY Types, Constants DEF ReadInv
<1>2. UNCHANGED <<queue, server, acks, accepted, delivered, lost>>
  BY DEF tftp_rwrq, ServerResponded, RequestTimedOut, NextBlock, GiveUp, RestOfBlock, NoMoreCharacters
<1>3. /\ tcxn' \in Connections /\ tcxn'.server_port = tcxn.server_port
      /\ tcxn'.exp_blocknum = tcxn.exp_blocknum
  BY <1>1 DEF Connections, tftp_rwrq, ServerResponded, RequestTimedOut, NextBlock, GiveUp,
              RestOfBlock, NoMoreCharacters
<1>4. Beginning /\ Ended /\ (main.pc \in {"rest", "remove"} => queue # <<>>)
  BY DEF ReadInv, TypeOK
<1> DEFINE Placed == /\ main' \in Mains /\ main'.last_ack = main.last_ack /\ requested' \in BOOLEAN
                     /\ Beginning' /\ Ended' /\ First' = First /\ (Bound' => Bound)
                     /\ main'.pc \in {"rest", "remove"} => queue # <<>>
<1>5. Placed => ReadInv'
  <2> SUFFICES ASSUME Placed PROVE ReadInv'
    OBVIOUS
  <2>1. TypeOK'
    BY <1>2, <1>3 DEF ReadInv, TypeOK, Connections, Mains, Places
  <2> QED
    BY <1>2, <1>3, <2>1, OnlyPlace
<1> DEFINE NewestKept == \A x : Newest(x) => Newest(x)'
<1>6. NewestKept
  BY <1>2, <1>3 DEF Newest
<1>7. CASE tftp_rwrq
  <2>1. main.pc = "request" /\ main.tries > 0 /\ tcxn' = tcxn
    BY <1>4, <1>7 DEF tftp_rwrq, Beginning
  <2>2. /\ main' \in Mains /\ main'.last_ack = main.last_ack /\ requested' \in BOOLEAN
        /\ main'.pc \in {"wait", "failed"}
    <3>1. CASE main' = [main EXCEPT !.pc = "failed"] /\ requested' = requested
      BY <1>1, <3>1 DEF Mains, Places
    <3>2. CASE main' = [main EXCEPT !.pc = "wait", !.tries = @ - 1] /\ requested' = TRUE
      <4>1. main.tries \in 0 .. RETRIES
        BY <1>1 DEF Mains
      <4>2. main.tries - 1 \in 0 .. RETRIES
        BY <1>1, <2>1, <4>1
      <4> QED
        BY <1>1, <3>2, <4>2 DEF Mains, Places
    <3> QED
      BY <1>7, <3>1, <3>2 DEF tftp_rwrq
  <2>3. Beginning'
    BY <1>2, <1>4, <1>6, <2>1, <2>2 DEF Beginning
  <2>4. Ended' /\ First' = First /\ (Bound' => Bound)
    BY <2>1, <2>2 DEF Ended, First, Bound
  <2> QED
    BY <1>5, <2>2, <2>3, <2>4
<1>8. CASE ServerResponded \/ RequestTimedOut
  <2>1. main.pc = "wait" /\ tcxn' = tcxn /\ requested' = requested
    BY <1>8 DEF ServerResponded, RequestTimedOut
  <2>2. /\ main' \in Mains /\ main'.last_ack = main.last_ack
        /\ main'.pc \in {"read", "request", "failed"}
        /\ main'.pc = "read" => tcxn.open
        /\ main'.pc = "request" => main'.tries > 0
    BY <1>1, <1>8 DEF ServerResponded, RequestTimedOut, Opened, Mains, Places
  <2>3. Beginning'
    BY <1>2, <1>4, <1>6, <2>1, <2>2 DEF Beginning
  <2>4. Ended' /\ First' = First /\ (Bound' => Bound)
    BY <2>1, <2>2 DEF Ended, First, Bound
  <2> QED
    BY <1>1, <1>5, <2>1, <2>2, <2>3, <2>4
<1>9. CASE NextBlock /\ queue = <<>>
  <2>1. /\ main.pc = "read" /\ tcxn.open /\ tcxn' = tcxn /\ requested' = requested
        /\ main' = [main EXCEPT !.pc = "await", !.tries = RETRIES]
    BY <1>9 DEF NextBlock
  <2>2. main' \in Mains /\ main'.last_ack = main.last_ack /\ main'.pc = "await"
    <3>1. RETRIES \in 0 .. RETRIES
      BY <1>1
    <3> QED
      BY <1>1, <2>1, <3>1 DEF Mains, Places
  <2>3. delivered # <<>>
    BY <1>4, <1>9, <2>1 DEF Beginning
  <2>4. Beginning'
    BY <1>2, <1>4, <1>6, <2>1, <2>2, <2>3 DEF Beginning
  <2>5. Ended' /\ First' = First /\ (Bound' => Bound)
    BY <2>1, <2>2 DEF Ended, First, Bound
  <2> QED
    BY <1>1, <1>5, <2>1, <2>2, <2>4, <2>5
<1>10. CASE GiveUp
  <2>1. /\ main.pc = "await" /\ main' = [main EXCEPT !.pc = "end"] /\ requested' = requested
        /\ tcxn' = [tcxn EXCEPT !.open = FALSE, !.error = TRUE]
    BY <1>10 DEF GiveUp
  <2>2. /\ main' \in Mains /\ main'.last_ack = main.last_ack /\ main'.pc = "end"
        /\ ~tcxn'.open /\ tcxn'.error
    BY <1>1, <2>1 DEF Mains, Places, Connections
  <2>3. delivered # <<>>
    BY <1>4, <2>1 DEF Beginning
  <2>4. Beginning'
    BY <1>2, <1>3, <1>4, <1>6, <2>2, <2>3 DEF Beginning
  <2>5. Ended' /\ First' = First /\ (Bound' => Bound)
    BY <2>1, <2>2 DEF Ended, First, Bound
  <2> QED
    BY <1>1, <1>5, <2>1, <2>2, <2>4, <2>5
<1>11. CASE RestOfBlock
  <2>1. /\ main.pc = "rest" /\ requested' = requested /\ tcxn' = tcxn
        /\ main' = [main EXCEPT !.pc = "remove", !.single = Len(queue) = 1]
    BY <1>11 DEF RestOfBlock
  <2>2. main' \in Mains /\ main'.last_ack = main.last_ack /\ main'.pc = "remove"
    BY <1>1, <2>1 DEF Mains, Places
  <2>3. delivered # <<>>
    BY <1>4, <2>1 DEF Beginning
  <2>4. Beginning'
    BY <1>2, <1>4, <1>6, <2>1, <2>2, <2>3 DEF Beginning
  <2>5. Ended' /\ First' = First /\ (Bound' => Bound)
    BY <1>2, <1>4, <2>1, <2>2 DEF Ended, First, Bound
  <2> QED
    BY <1>1, <1>4, <1>5, <2>1, <2>2, <2>4, <2>5
<1>12. CASE NoMoreCharacters
  <2>1. /\ main.pc = "read" /\ ~tcxn.open /\ requested' = requested /\ tcxn' = tcxn
        /\ main' = [main EXCEPT !.pc = "end"]
    BY <1>12 DEF NoMoreCharacters
  <2>2. main' \in Mains /\ main'.last_ack = main.last_ack /\ main'.pc = "end"
    BY <1>1, <2>1 DEF Mains, Places
  <2>3. delivered # <<>>
    BY <1>4, <2>1 DEF Beginning
  <2>4. Beginning'
    BY <1>2, <1>4, <1>6, <2>1, <2>2, <2>3 DEF Beginning
  <2>5. Ended' /\ First' = First /\ (Bound' => Bound)
    BY <1>2, <1>4, <2>1, <2>2 DEF Ended, First, Bound
  <2> QED
    BY <1>1, <1>5, <2>1, <2>2, <2>4, <2>5
<1> QED
  BY <1>7, <1>8, <1>9, <1>10, <1>11, <1>12

(* An ACK sent again by the foreground is of the last block it took.       *)
LEMMA AwaitStep ==
    ASSUME ReadInv, AwaitTimedOut
    PROVE  ReadInv'
<1> DEFINE c == tcxn.server_port
           d == delivered[Len(delivered)].index
<1>1. /\ tcxn \in Connections /\ main \in Mains /\ queue \in Seq(Block) /\ delivered \in Seq(Block)
      /\ server \in [Sessions -> 0 .. N + 1] /\ accepted \in 0 .. N /\ Len(queue) <= BUFFERS
  BY Types DEF ReadInv
<1>2. /\ UNCHANGED <<tcxn, queue, server, requested, accepted, delivered, lost>>
      /\ main.pc = "await" /\ main.tries > 0
      /\ main' = [main EXCEPT !.tries = @ - 1] /\ tftp_ack(Pred(main.last_ack))
  BY DEF AwaitTimedOut
<1>3. main' \in Mains /\ main'.pc = main.pc /\ main'.last_ack = main.last_ack
  <2>1. main.tries \in 0 .. RETRIES /\ RETRIES \in Nat
    BY <1>1, Constants DEF Mains
  <2>2. main.tries - 1 \in 0 .. RETRIES
    BY <1>2, <2>1
  <2> QED
    BY <1>1, <1>2, <2>2 DEF Mains
<1>4. delivered # <<>> /\ accepted # 0
  BY <1>2 DEF ReadInv, Beginning
<1>5. Len(delivered) \in 1 .. Len(delivered) /\ d \in 1 .. N /\ d \in Nat /\ Len(queue) \in Nat
  <2>1. Len(delivered) \in 1 .. Len(delivered)
    BY <1>1, <1>4
  <2> QED
    BY <1>1, <2>1, Elements
<1>6. Pred(main.last_ack) = Number(d)
  <2>1. main.last_ack = Succ(Number(d))
    BY <1>4 DEF ReadInv, Acked
  <2>2. main.last_ack = Number(d + 1)
    BY <1>5, <2>1, NumberSucc
  <2> QED
    BY <1>5, <2>2, NumberPred
<1>7. ASSUME c \in Sessions \ Stale
      PROVE  \E j \in 0 .. accepted : Number(d) = Number(j) /\ server[c] < j + BLOCKNUMS
  <2>1. d <= accepted
    <3>1. PICK x \in 1 .. N : Newest(x)
      BY <1>4 DEF ReadInv, Beginning
    <3> QED
      BY <1>5, <1>7, <3>1 DEF Newest
  <2>2. server[c] <= accepted + 1
    <3>1. server[c] \in 0 .. N + 1 /\ accepted \in Nat /\ N \in Nat
      BY <1>1, <1>7, Constants
    <3>2. server[c] > 1 => server[c] <= accepted + 1
      BY <1>7 DEF ReadInv, ServerNotAhead
    <3> QED
      BY <3>1, <3>2
  <2>3. accepted < d + BUFFERS + Len(queue)
    BY <1>2, <1>4, <1>7 DEF ReadInv, Acked, Bound, First
  <2>4. server[c] \in Nat /\ accepted \in Nat
    BY <1>1, <1>7, Constants
  <2>5. server[c] < d + BLOCKNUMS
    <3>1. /\ d \in Nat /\ Len(queue) \in Nat /\ Len(queue) <= BUFFERS
          /\ BUFFERS \in Nat /\ BLOCKNUMS \in Nat
      BY <1>1, <1>5, Constants
    <3>2. 2 * BUFFERS < BLOCKNUMS
      BY Constants
    <3> HIDE DEF d
    <3>3. accepted < d + 2 * BUFFERS
      BY <2>3, <2>4, <3>1
    <3> QED
      BY <2>2, <2>4, <3>1, <3>2, <3>3
  <2> QED
    BY <1>5, <2>1, <2>4, <2>5
<1>8. Number(d) \in BlockNum
  BY <1>5, NumberIsNumber
<1>9. AcksReceived' /\ acks' \subseteq (Sessions \cup {UDP_PORT_TFTP}) \X BlockNum
  BY <1>2, <1>6, <1>7, <1>8, AckSent
<1>10. TypeOK'
  BY <1>2, <1>3, <1>9 DEF ReadInv, TypeOK, Mains, Places
<1>11. Beginning' /\ Blocks' /\ Gapless' /\ Acked' /\ ServerNotAhead' /\ Ended'
  BY <1>2, <1>3 DEF ReadInv, Beginning, Newest, Blocks, Gapless, Acked, ServerNotAhead, Ended, First, Bound
<1> QED
  BY <1>2, <1>9, <1>10, <1>11 DEF ReadInv

LEMMA Appended ==
    ASSUME NEW q \in Seq(Block), NEW b \in Block, NEW r, r = Append(q, b)
    PROVE  /\ r \in Seq(Block) /\ Len(r) = Len(q) + 1 /\ r[Len(q) + 1] = b
           /\ \A i \in 1 .. Len(q) : i \in 1 .. Len(r) /\ r[i] = q[i]
           /\ \A i \in 1 .. Len(r) : i \in 1 .. Len(q) \/ i = Len(q) + 1
           /\ Len(q) + 1 \in 1 .. Len(r)
<1>1. r \in Seq(Block) /\ Len(r) = Len(q) + 1 /\ Len(q) \in Nat
  OBVIOUS
<1>2. r[Len(q) + 1] = b /\ \A i \in 1 .. Len(q) : r[i] = q[i]
  OBVIOUS
<1> QED
  BY <1>1, <1>2

(* The caller gets the first block of the queue and acknowledges it.       *)
LEMMA TakeBlockStep ==
    ASSUME ReadInv, TakeBlock, main.pc \in {"read", "await"}, queue # <<>>
    PROVE  ReadInv'
<1> DEFINE c == tcxn.server_port
           b == Head(queue)
           n == Number(b.index)
<1>1. /\ tcxn \in Connections /\ main \in Mains /\ queue \in Seq(Block) /\ delivered \in Seq(Block)
      /\ server \in [Sessions -> 0 .. N + 1] /\ accepted \in 0 .. N /\ Len(queue) <= BUFFERS
      /\ N \in Nat /\ accepted \in Nat
  BY Types, Constants DEF ReadInv
<1>2. /\ UNCHANGED <<queue, server, requested, accepted, lost>>
      /\ tcxn' = [tcxn EXCEPT !.open = @ /\ ~IsLast(b)]
      /\ tftp_ack(n)
      /\ delivered' = Append(delivered, b)
      /\ main' = [main EXCEPT !.pc = "rest", !.last_ack = Succ(n)]
  BY DEF TakeBlock
<1>3. /\ Len(queue) \in Nat /\ Len(queue) >= 1 /\ b = queue[1] /\ b \in Block
      /\ b.index \in 1 .. N /\ b.index \in Nat /\ 1 \in 1 .. Len(queue)
  <2>1. Len(queue) \in Nat /\ Len(queue) >= 1 /\ b = queue[1]
    BY <1>1
  <2>2. 1 \in 1 .. Len(queue)
    BY <2>1
  <2> QED
    BY <1>1, <2>1, <2>2, Elements
<1>4. /\ delivered' \in Seq(Block) /\ Len(delivered') = Len(delivered) + 1
      /\ delivered'[Len(delivered) + 1] = b
      /\ \A i \in 1 .. Len(delivered) : i \in 1 .. Len(delivered') /\ delivered'[i] = delivered[i]
      /\ \A i \in 1 .. Len(delivered') : i \in 1 .. Len(delivered) \/ i = Len(delivered) + 1
      /\ Len(delivered) + 1 \in 1 .. Len(delivered') /\ Len(delivered) \in Nat
      /\ delivered' # <<>>
  <2>1. Len(delivered) \in Nat
    BY <1>1
  <2> QED
    BY <1>1, <1>2, <1>3, <2>1, Appended
<1>5. /\ tcxn' \in Connections /\ tcxn'.server_port = c /\ tcxn'.exp_blocknum = tcxn.exp_blocknum
      /\ tcxn'.error = tcxn.error /\ tcxn'.open = (tcxn.open /\ ~IsLast(b))
  BY <1>1, <1>2 DEF Connections, IsLast
<1>6. /\ main' \in Mains /\ main'.pc = "rest" /\ main'.last_ack = Succ(n)
  <2>1. b.index + 1 \in Nat
    BY <1>3
  <2>2. Succ(n) \in BlockNum
    BY <1>3, <2>1, NumberSucc, NumberIsNumber
  <2> QED
    BY <1>1, <1>2, <2>2 DEF Mains, Places
<1>7. First = 1 /\ First' = 2 /\ Bound /\ Bound'
  BY <1>6 DEF First, Bound
<1>8. PICK x \in 1 .. N : Newest(x)
  <2>1. accepted # 0
    BY DEF ReadInv, Beginning
  <2> QED
    BY <2>1 DEF ReadInv, Beginning
<1>9. /\ \A i \in 1 .. Len(delivered) : delivered[i].session = c
      /\ b.session = c
      /\ \A i \in 1 .. Len(delivered) : delivered[i].index < b.index
      /\ \A j \in 2 .. Len(queue) : b.index < queue[j].index
  <2>1. \A j \in 2 .. Len(queue) : j \in 1 .. Len(queue) /\ 1 < j
    BY <1>3
  <2>2. 1 \in First .. Len(queue)
    BY <1>3, <1>7
  <2> QED
    BY <1>3, <2>1, <2>2 DEF ReadInv, Blocks
<1>10. TypeOK' /\ AcksReceived'
  <2>1. n \in BlockNum
    BY <1>3, NumberIsNumber
  <2>2. ASSUME c \in Sessions \ Stale
        PROVE  \E j \in 0 .. accepted : n = Number(j) /\ server[c] < j + BLOCKNUMS
    <3>1. server[c] \in 0 .. N + 1
      BY <1>1, <2>2
    <3>2. server[c] > 1 => server[c] <= accepted + 1
      BY <2>2 DEF ReadInv, ServerNotAhead
    <3>3. b.index = accepted - Len(queue) + 1
      BY <1>3, <2>2 DEF ReadInv, Gapless
    <3>4. b.index \in 0 .. accepted /\ server[c] < b.index + BLOCKNUMS
      BY <1>1, <1>3, <3>1, <3>2, <3>3, Constants
    <3> QED
      BY <3>4
  <2>3. AcksReceived' /\ acks' \subseteq (Sessions \cup {UDP_PORT_TFTP}) \X BlockNum
    BY <1>2, <1>5, <2>1, <2>2, AckSent
  <2> QED
    BY <1>2, <1>4, <1>5, <1>6, <2>3 DEF ReadInv, TypeOK, Mains, Places, Connections
<1>11. Beginning'
  <2>1. b.index <= x
    BY <1>3, <1>8 DEF Newest
  <2>2. \A i \in 1 .. Len(delivered') : delivered'[i].index <= x
    BY <1>4, <1>8, <2>1 DEF Newest
  <2>3. Newest(x)'
    BY <1>2, <1>5, <1>8, <2>2 DEF Newest
  <2>4. accepted # 0
    BY DEF ReadInv, Beginning
  <2> QED
    BY <1>2, <1>4, <1>6, <2>3, <2>4 DEF Beginning
<1>12. Blocks'
  <2>1. \A i \in 1 .. Len(delivered') : delivered'[i].session = c
    BY <1>4, <1>9
  <2>2. \A i, j \in 1 .. Len(delivered') : i < j => delivered'[i].index < delivered'[j].index
    <3> SUFFICES ASSUME NEW i \in 1 .. Len(delivered'), NEW j \in 1 .. Len(delivered'), i < j
                 PROVE  delivered'[i].index < delivered'[j].index
      OBVIOUS
    <3>1. i \in 1 .. Len(delivered) /\ delivered'[i] = delivered[i]
      BY <1>4
    <3>2. CASE j \in 1 .. Len(delivered)
      BY <1>4, <3>1, <3>2 DEF ReadInv, Blocks
    <3>3. CASE j = Len(delivered) + 1
      BY <1>4, <1>9, <3>1, <3>3
    <3> QED
      BY <1>4, <3>2, <3>3
  <2>3. \A i \in 1 .. Len(delivered') : \A j \in 2 .. Len(queue) :
           delivered'[i].index < queue[j].index
    <3> SUFFICES ASSUME NEW i \in 1 .. Len(delivered'), NEW j \in 2 .. Len(queue)
                 PROVE  delivered'[i].index < queue[j].index
      OBVIOUS
    <3>1. CASE i \in 1 .. Len(delivered)
      <4>1. j \in First .. Len(queue)
        BY <1>7
      <4> QED
        BY <1>4, <3>1, <4>1 DEF ReadInv, Blocks
    <3>2. CASE i = Len(delivered) + 1
      BY <1>4, <1>9, <3>2
    <3> QED
      BY <1>4, <3>1, <3>2
  <2> QED
    BY <1>2, <1>5, <1>7, <2>1, <2>2, <2>3 DEF ReadInv, Blocks
<1>13. Gapless'
  <2> SUFFICES ASSUME c \notin Stale
               PROVE  /\ \A i \in 1 .. Len(queue) : queue[i].index = accepted - Len(queue) + i
                      /\ lost = {} => /\ \A i \in 1 .. Len(delivered') : delivered'[i].index = i
                                      /\ accepted = Len(delivered') + Len(queue) + 1 - 2
    BY <1>2, <1>5, <1>7 DEF Gapless
  <2>1. \A i \in 1 .. Len(queue) : queue[i].index = accepted - Len(queue) + i
    BY DEF ReadInv, Gapless
  <2>2. ASSUME lost = {}
        PROVE  /\ \A i \in 1 .. Len(delivered') : delivered'[i].index = i
               /\ accepted = Len(delivered') + Len(queue) + 1 - 2
    <3>1. accepted = Len(delivered) + Len(queue) + 1 - 1
      BY <1>7, <2>2 DEF ReadInv, Gapless
    <3>2. b.index = Len(delivered) + 1
      BY <1>1, <1>3, <1>4, <2>1, <3>1
    <3>3. \A i \in 1 .. Len(delivered) : delivered[i].index = i
      BY <2>2 DEF ReadInv, Gapless
    <3>4. \A i \in 1 .. Len(delivered') : delivered'[i].index = i
      BY <1>4, <3>2, <3>3
    <3>5. accepted = Len(delivered') + Len(queue) + 1 - 2
      BY <1>1, <1>3, <1>4, <3>1
    <3> QED
      BY <3>4, <3>5
  <2> QED
    BY <2>1, <2>2
<1>14. Acked'
  <2>1. delivered'[Len(delivered')].index = b.index
    BY <1>4
  <2> QED
    BY <1>2, <1>3, <1>6, <1>7, <2>1 DEF Acked
<1>15. Ended'
  <2> SUFFICES ASSUME ~tcxn'.open, ~tcxn'.error
               PROVE  \E i \in 1 .. Len(delivered') : delivered'[i].index = N
    BY <1>6 DEF Ended
  <2>1. CASE IsLast(b)
    BY <1>4, <2>1 DEF IsLast
  <2>2. CASE ~tcxn.open
    <3>1. PICK i \in 1 .. Len(delivered) : delivered[i].index = N
      BY <1>5, <2>2 DEF ReadInv, Ended
    <3> QED
      BY <1>4, <3>1
  <2> QED
    BY <1>5, <2>1, <2>2
<1>16. ServerNotAhead'
  BY <1>2, <1>5 DEF ReadInv, ServerNotAhead
<1> QED
  BY <1>2, <1>5, <1>10, <1>11, <1>12, <1>13, <1>14, <1>15, <1>16 DEF ReadInv

(* queue_remove.  It leaves the queue without the first block or, when a   *)
(* block arrived after it had looked for a second one, without any.        *)
LEMMA RemoveBlockStep ==
    ASSUME ReadInv, RemoveBlock
    PROVE  ReadInv'
<1> DEFINE c == tcxn.server_port
           d == delivered[Len(delivered)].index
<1>1. /\ main \in Mains /\ queue \in Seq(Block) /\ delivered \in Seq(Block)
      /\ accepted \in 0 .. N /\ Len(queue) <= BUFFERS /\ accepted \in Nat /\ queue # <<>>
      /\ lost \subseteq Block
  BY Types, Constants DEF ReadInv, RemoveBlock, TypeOK
<1>2. /\ UNCHANGED <<tcxn, server, acks, requested, accepted, delivered>>
      /\ main.pc = "remove" /\ main' = [main EXCEPT !.pc = "read", !.single = FALSE]
      /\ queue' = IF main.single THEN <<>> ELSE Tail(queue)
      /\ lost' = IF main.single THEN lost \cup {queue[i] : i \in 2 .. Len(queue)} ELSE lost
  BY DEF RemoveBlock
<1>3. main' \in Mains /\ main'.pc = "read" /\ main'.last_ack = main.last_ack
  BY <1>1, <1>2 DEF Mains, Places
<1>4. First = 2 /\ First' = 1 /\ Bound /\ Bound'
  BY <1>2, <1>3 DEF First, Bound
<1>5. Len(queue) \in Nat /\ Len(queue) >= 1 /\ Len(delivered) \in Nat /\ 1 \in 1 .. Len(queue)
  BY <1>1
<1>6. /\ queue' \in Seq(Block) /\ Len(queue') \in Nat /\ Len(queue') < Len(queue)
      /\ queue' # <<>> => Len(queue') = Len(queue) - 1
      /\ \A i \in 1 .. Len(queue') : /\ i + 1 \in 1 .. Len(queue) /\ i \in Nat
                                     /\ queue'[i] = queue[i + 1]
  <2>1. CASE main.single
    <3>1. queue' = <<>> /\ Len(queue') = 0
      BY <1>2, <2>1
    <3> QED
      BY <1>5, <3>1, EmptySeq
  <2>2. CASE ~main.single
    <3>1. queue' = Tail(queue)
      BY <1>2, <2>2
    <3>2. /\ queue' \in Seq(Block) /\ Len(queue') = Len(queue) - 1
          /\ \A i \in 1 .. Len(queue') : queue'[i] = queue[i + 1]
      BY <1>1, <3>1
    <3> QED
      BY <1>5, <3>2
  <2> QED
    BY <2>1, <2>2
<1>7. lost' \subseteq Block /\ (lost' = {} => lost = {} /\ Len(queue') = Len(queue) - 1)
  <2>1. CASE main.single
    <3>1. \A i \in 2 .. Len(queue) : i \in 1 .. Len(queue)
      BY <1>5
    <3>2. {queue[i] : i \in 2 .. Len(queue)} \subseteq Block
      BY <1>1, <3>1, Elements
    <3>3. lost' = {} => lost = {} /\ 2 \notin 2 .. Len(queue)
      BY <1>2, <2>1
    <3>4. Len(queue') = 0
      BY <1>2, <2>1
    <3>5. lost' = lost \cup {queue[i] : i \in 2 .. Len(queue)}
      BY <1>2, <2>1
    <3>6. lost' \subseteq Block
      BY <1>1, <3>2, <3>5
    <3>7. ASSUME lost' = {} PROVE Len(queue) = 1
      BY <1>5, <3>3, <3>7
    <3> QED
      BY <3>3, <3>4, <3>6, <3>7
  <2>2. CASE ~main.single
    <3>1. lost' = lost /\ queue' = Tail(queue)
      BY <1>2, <2>2
    <3>2. Len(queue') = Len(queue) - 1
      BY <1>1, <3>1
    <3> QED
      BY <1>1, <3>1, <3>2
  <2> QED
    BY <2>1, <2>2
<1>8. delivered # <<>>
  BY <1>2 DEF ReadInv, Beginning
<1>9. TypeOK'
  BY <1>2, <1>3, <1>6, <1>7 DEF ReadInv, TypeOK, Mains, Places
<1>10. Len(queue') <= BUFFERS
  BY <1>1, <1>5, <1>6, Constants
<1>11. Beginning'
  <2>1. accepted # 0
    BY <1>8 DEF ReadInv, Beginning
  <2>2. PICK x \in 1 .. N : Newest(x)
    BY <2>1 DEF ReadInv, Beginning
  <2>3. Newest(x)'
    BY <1>2, <1>6, <2>2 DEF Newest
  <2> QED
    BY <1>2, <1>3, <1>8, <2>1, <2>3 DEF Beginning
<1>12. Blocks'
  <2>1. \A i \in 1 .. Len(queue') : queue'[i].session = c
    BY <1>6 DEF ReadInv, Blocks
  <2>2. \A i, j \in 1 .. Len(queue') : i < j => queue'[i].index < queue'[j].index
    <3> SUFFICES ASSUME NEW i \in 1 .. Len(queue'), NEW j \in 1 .. Len(queue'), i < j
                 PROVE  queue'[i].index < queue'[j].index
      OBVIOUS
    <3>1. i + 1 < j + 1
      BY <1>6
    <3> QED
      BY <1>6, <3>1 DEF ReadInv, Blocks
  <2>3. \A i \in 1 .. Len(delivered) : \A j \in 1 .. Len(queue') :
           delivered[i].index < queue'[j].index
    <3> SUFFICES ASSUME NEW i \in 1 .. Len(delivered), NEW j \in 1 .. Len(queue')
                 PROVE  delivered[i].index < queue'[j].index
      OBVIOUS
    <3>1. j + 1 \in First .. Len(queue)
      BY <1>4, <1>5, <1>6
    <3> QED
      BY <1>6, <3>1 DEF ReadInv, Blocks
  <2> QED
    BY <1>2, <1>4, <2>1, <2>2, <2>3 DEF ReadInv, Blocks
<1>13. Gapless'
  <2> SUFFICES ASSUME c \notin Stale
               PROVE  /\ \A i \in 1 .. Len(queue') : queue'[i].index = accepted - Len(queue') + i
                      /\ lost' = {} => /\ \A i \in 1 .. Len(delivered) : delivered[i].index = i
                                       /\ accepted = Len(delivered) + Len(queue') + 1 - 1
    BY <1>2, <1>4 DEF Gapless
  <2>1. \A i \in 1 .. Len(queue') : queue'[i].index = accepted - Len(queue') + i
    <3> SUFFICES ASSUME NEW i \in 1 .. Len(queue')
                 PROVE  queue'[i].index = accepted - Len(queue') + i
      OBVIOUS
    <3>1. queue[i + 1].index = accepted - Len(queue) + (i + 1)
      BY <1>6 DEF ReadInv, Gapless
    <3>2. Len(queue') = Len(queue) - 1 /\ queue'[i] = queue[i + 1] /\ i \in Nat
      <4>1. queue' # <<>>
        BY <1>6
      <4> QED
        BY <1>6, <4>1
    <3>3. queue'[i].index = accepted - Len(queue) + (i + 1)
      BY <3>1, <3>2
    <3> QED
      BY <1>1, <1>5, <3>2, <3>3
  <2>2. ASSUME lost' = {}
        PROVE  /\ \A i \in 1 .. Len(delivered) : delivered[i].index = i
               /\ accepted = Len(delivered) + Len(queue') + 1 - 1
    <3>1. lost = {} /\ Len(queue') = Len(queue) - 1
      BY <1>7, <2>2
    <3>2. accepted = Len(delivered) + Len(queue) + 1 - 2
      BY <1>4, <3>1 DEF ReadInv, Gapless
    <3>3. accepted = Len(delivered) + Len(queue') + 1 - 1
      BY <1>5, <3>1, <3>2
    <3> QED
      BY <3>1, <3>3 DEF ReadInv, Gapless
  <2> QED
    BY <2>1, <2>2
<1>14. Acked'
  <2>1. main.last_ack = Succ(Number(d)) /\ queue[1].index = d
    BY <1>4, <1>8 DEF ReadInv, Acked
  <2>2. d \in Nat
    BY <1>1, <1>5, <2>1, Elements
  <2>3. ASSUME c \notin Stale PROVE accepted < d + BUFFERS + Len(queue')
    <3>1. d = accepted - Len(queue) + 1
      BY <1>5, <2>1, <2>3 DEF ReadInv, Gapless
    <3> QED
      BY <1>1, <1>5, <1>6, <2>2, <3>1, Constants
  <2> QED
    BY <1>2, <1>3, <1>4, <2>1, <2>3 DEF Acked
<1>15. AcksReceived' /\ ServerNotAhead'
  BY <1>2 DEF ReadInv, AcksReceived, ServerNotAhead
<1>16. Ended'
  BY <1>2, <1>3 DEF ReadInv, Ended
<1> QED
  BY <1>2, <1>9, <1>10, <1>11, <1>12, <1>13, <1>14, <1>15, <1>16 DEF ReadInv

LEMMA EndStep ==
    ASSUME ReadInv, tftp_end
    PROVE  ReadInv'
<1>1. /\ UNCHANGED <<tcxn, server, acks, requested, accepted, delivered, lost>>
      /\ main.pc = "end" /\ queue' = <<>>
      /\ main' = [main EXCEPT !.pc = IF ~tcxn.error /\ ~tcxn.open THEN "completed" ELSE "errors"]
  BY DEF tftp_end
<1>2. main \in Mains
  BY Types DEF ReadInv
<1>3. /\ main' \in Mains /\ main'.last_ack = main.last_ack /\ main'.pc \in {"completed", "errors"}
      /\ main'.pc = "completed" => ~tcxn.error /\ ~tcxn.open
  BY <1>1, <1>2 DEF Mains, Places
<1>4. First = 1 /\ First' = 1 /\ ~Bound' /\ Len(queue') = 0 /\ queue' \in Seq(Block)
  BY <1>1, <1>3, EmptySeq DEF First, Bound
<1>5. TypeOK'
  BY <1>1, <1>3, <1>4 DEF ReadInv, TypeOK, Mains, Places
<1>6. delivered # <<>>
  BY <1>1 DEF ReadInv, Beginning
<1>7. Beginning'
  <2>1. accepted # 0
    BY <1>6 DEF ReadInv, Beginning
  <2>2. PICK x \in 1 .. N : Newest(x)
    BY <2>1 DEF ReadInv, Beginning
  <2>3. Newest(x)'
    BY <1>1, <1>4, <2>2 DEF Newest
  <2> QED
    BY <1>1, <1>3, <1>6, <2>1, <2>3 DEF Beginning
<1>8. Blocks'
  BY <1>1, <1>4 DEF ReadInv, Blocks
<1>9. Gapless'
  BY <1>1, <1>4 DEF ReadInv, Gapless
<1>10. Acked'
  BY <1>1, <1>3, <1>4 DEF ReadInv, Acked
<1>11. AcksReceived' /\ ServerNotAhead'
  BY <1>1 DEF ReadInv, AcksReceived, ServerNotAhead
<1>12. Ended'
  BY <1>1, <1>3 DEF ReadInv, Ended
<1> QED
  BY <1>1, <1>4, <1>5, <1>7, <1>8, <1>9, <1>10, <1>11, <1>12, Constants DEF ReadInv

-----------------------------------------------------------------------------
LEMMA NextInv == ReadInv /\ [Next]_vars => ReadInv'
<1> SUFFICES ASSUME ReadInv, [Next]_vars PROVE ReadInv'
  OBVIOUS
<1>1. CASE \E p \in Sessions : StartSession(p) \/ ServerGoesOn(p)
  BY <1>1, ServerSteps
<1>2. CASE DataArrives \/ ErrorReceived
  BY <1>2, NetworkSteps
<1>3. CASE NextBlock /\ queue # <<>>
  BY <1>3, TakeBlockStep DEF NextBlock
<1>4. CASE BlockArrived
  BY <1>4, TakeBlockStep DEF BlockArrived
<1>5. CASE AwaitTimedOut
  BY <1>5, AwaitStep
<1>6. CASE RemoveBlock
  BY <1>6, RemoveBlockStep
<1>7. CASE tftp_end
  BY <1>7, EndStep
<1>8. CASE \/ tftp_rwrq \/ ServerResponded \/ RequestTimedOut
           \/ (NextBlock /\ queue = <<>>) \/ GiveUp \/ RestOfBlock \/ NoMoreCharacters
  BY <1>8, PlaceSteps
<1>9. CASE UNCHANGED vars
  BY <1>9 DEF vars, ReadInv, TypeOK, Beginning, Newest, Blocks, Gapless, Acked, AcksReceived,
              ServerNotAhead, Ended, First, Bound
<1> QED
  BY <1>1, <1>2, <1>3, <1>4, <1>5, <1>6, <1>7, <1>8, <1>9 DEF Next, Foreground

LEMMA ReadInvariant == Spec => []ReadInv
<1>1. Init => ReadInv
  BY InitInv
<1>2. ReadInv /\ [Next]_vars => ReadInv'
  BY NextInv
<1> QED
  BY <1>1, <1>2, PTL DEF Spec

(* The caller of tftp_in_char gets blocks in the order of the file and     *)
(* none twice, whatever the network duplicates, delays or reorders within  *)
(* its lifetime, and however often the block numbers wrap.                 *)
THEOREM CharactersInOrder == Spec => []InOrder
<1>1. ReadInv => InOrder
  BY DEF ReadInv, Blocks, InOrder
<1> QED
  BY <1>1, ReadInvariant, PTL

(* Two sessions never get mixed, also when a request was answered twice.   *)
THEOREM NeverMixed == Spec => []OneSession
<1>1. ReadInv => OneSession
  BY DEF ReadInv, Blocks, OneSession
<1> QED
  BY <1>1, ReadInvariant, PTL

(* No ACK makes a server's session skip a block: it is of a block that was *)
(* received, and not mistaken for that of one a round of numbers later.    *)
THEOREM NoBlockSkipped == Spec => []ServerNotAhead
<1>1. ReadInv => ServerNotAhead
  BY DEF ReadInv
<1> QED
  BY <1>1, ReadInvariant, PTL

(* A transfer that tftp_end reports as completed delivered the whole file, *)
(* unless queue_remove lost a block or an earlier transfer's session sent  *)
(* the blocks.                                                             *)
THEOREM CompletedIsComplete == Spec => []CompletedUnlessLost
<1>1. ReadInv => CompletedUnlessLost
  <2> SUFFICES ASSUME ReadInv, main.pc = "completed", lost = {}, tcxn.server_port \notin Stale
               PROVE  Len(delivered) = N
    BY DEF CompletedUnlessLost, Complete
  <2>1. PICK i \in 1 .. Len(delivered) : delivered[i].index = N
    BY DEF ReadInv, Ended
  <2>2. \A j \in 1 .. Len(delivered) : delivered[j].index = j
    BY DEF ReadInv, Gapless
  <2>3. delivered \in Seq(Block) /\ Len(delivered) \in Nat
    BY Types DEF ReadInv
  <2>4. Len(delivered) \in 1 .. Len(delivered)
    BY <2>1, <2>3
  <2>5. Len(delivered) \in 1 .. N
    BY <2>2, <2>3, <2>4, Elements
  <2> QED
    BY <2>1, <2>2, <2>3, <2>5, Constants
<1> QED
  BY <1>1, ReadInvariant, PTL
============
