------------------------------ MODULE OhciProofs ------------------------------
(***************************************************************************)
(* Proofs about Ohci: for every number of endpoints and of transfer        *)
(* descriptors, and bulk transfers of any length, no TD leaks; and but for *)
(* those of a transfer given up, none is free while the controller can     *)
(* reach it and endpoints are quiet between transfers.  A finished URB is  *)
(* out of the controller's hands.                                          *)
(***************************************************************************)
EXTENDS Ohci, FiniteSetTheorems, SequenceTheorems, WellFoundedInduction, TLAPS

(***************************************************************************)
(* The memory whatever happens: what TDs are in use for, which URBs there  *)
(* are, and where the foreground can be.                                   *)
(***************************************************************************)
Accounts(td, ed, urb) ==
    /\ \A t \in TDs : td[t].used <=> \/ \E e \in EDs : ed[e].tail = t
                                     \/ \E e \in EDs : t \in ToSet(urb[e].td)
    /\ \A d, e \in EDs : ed[d].tail # NULL => ed[d].tail \notin ToSet(urb[e].td)
    /\ \A d, e \in EDs : d # e => \A t \in ToSet(urb[d].td) : t \notin ToSet(urb[e].td)
    /\ \A d, e \in EDs : d # e /\ ed[d].tail = ed[e].tail => ed[d].tail = NULL

UrbOf(e, u, d) ==
    /\ u.live => d.tail # NULL /\ Len(u.td) \in 1 .. NUM_TD
    /\ ~u.live => u = NoUrb
    /\ \A i, j \in 1 .. Len(u.td) : u.td[i] = u.td[j] => i = j
    /\ e \in Interrupt => Len(u.td) <= 1
    /\ d.state = "NEW" <=> d.tail = NULL

Place ==
    /\ main.pc = "idle" => main = Idle
    /\ main.pc # "idle" => ~disabled /\ givenUp = {} /\ main.ed \in EDs /\ mem.urb[main.ed].live
    /\ main.pc = "fill" => main.n \in 1 .. Len(mem.urb[main.ed].td)
    /\ \A e \in EDs : e \notin Interrupt /\ mem.urb[e].live => main.ed = e

Shape ==
    /\ TypeOK
    /\ Accounts(mem.td, mem.ed, mem.urb)
    /\ \A e \in EDs : UrbOf(e, mem.urb[e], mem.ed[e])
    /\ Place

(***************************************************************************)
(* The TDs that the controller retires, one after the other: f[p] is the   *)
(* p-th.  The driver has taken back those up to lo, gone through the done  *)
(* list from fetched down to mid, and put those in td_rev; the controller  *)
(* wrote HccaDoneHead when it had retired those up to written, and has     *)
(* retired hi.                                                             *)
(***************************************************************************)
Linked(td, f, a, b) ==
    \A p \in a + 1 .. b : td[f[p]].next = IF p = a + 1 THEN NULL ELSE f[p - 1]
Newest(f, a, b) == IF a < b THEN f[b] ELSE NULL

Ordered(lo, mid, fetched, written, hi) ==
    /\ lo \in Nat /\ mid \in Nat /\ fetched \in Nat /\ written \in Nat /\ hi \in Nat
    /\ lo <= mid /\ mid <= fetched /\ fetched <= written /\ written <= hi

Links(td, f, lo, mid, fetched, written, hi) ==
    Linked(td, f, lo, mid) /\ Linked(td, f, fetched, written) /\ Linked(td, f, written, hi)

Pointers(f, lo, mid, fetched, written, hi) ==
    /\ hc.done_head = Newest(f, fetched, written)
    /\ hc.doneq = Newest(f, written, hi)
    /\ main.td_list_hc = Newest(f, lo, mid)
    /\ main.td_rev = [i \in 1 .. fetched - mid |-> f[mid + i]]
    /\ main.pc = "reverse" <=> lo < mid
    /\ main.pc = "takeback" <=> lo = mid /\ mid < fetched
    /\ hc.done_head # NULL => hc.wdh
    /\ main.pc \in {"reverse", "takeback", "ack"} => hc.wdh /\ written = fetched

(***************************************************************************)
(* The queue of an endpoint: of its URB's TDs the first c are filled, k    *)
(* taken back and s retired, and the head of the queue is the h-th, behind *)
(* those retired or, after a failure, behind the last.                     *)
(***************************************************************************)
Filled(e) == IF main.pc = "fill" /\ main.ed = e THEN main.n - 1 ELSE Len(mem.urb[e].td)

Counts(u, c, k, s, h) ==
    /\ c \in Nat /\ k \in Nat /\ s \in Nat /\ h \in Nat
    /\ k <= s /\ s <= c /\ c <= Len(u.td)
    /\ h = s + 1 \/ (h = c + 1 /\ c = Len(u.td))
    /\ u.td_cnt = k + (h - 1 - s)

Chained(td, e, u, d, c, h) ==
    /\ \A i \in 1 .. c : td[u.td[i]].ed = e /\ td[u.td[i]].index = i - 1
    /\ \A i \in h .. c : td[u.td[i]].next = IF i = c THEN d.tail ELSE u.td[i + 1]
    /\ d.head = IF h = c + 1 THEN d.tail ELSE u.td[h]

Halts(td, u, d, k, s, h) ==
    /\ d.halted => h = s + 1 /\ k < s /\ td[u.td[s]].cc # OK
    /\ \A i \in k + 1 .. s : td[u.td[i]].cc # OK => i = s

Ended(e, u, d) ==
    e \notin Interrupt =>
        /\ u.finished => u.td_cnt = Len(u.td)
        /\ u.finished \/ ~u.live => d.state # "OPER"

Queue(td, e, u, d, c, k, s, h) ==
    /\ Counts(u, c, k, s, h)
    /\ Chained(td, e, u, d, c, h)
    /\ Halts(td, u, d, k, s, h)
    /\ Ended(e, u, d)

(* What was retired and not taken back are the TDs k + 1 to s of each URB, *)
(* in this order; a failure stops the queue until the driver has seen it.  *)
Located(td, urb, f, lo, hi, k, s) ==
    \A p \in lo + 1 .. hi :
        LET e == td[f[p]].ed
            i == td[f[p]].index + 1
        IN  e \in EDs /\ i \in k[e] + 1 .. s[e] /\ urb[e].td[i] = f[p]
InTurn(td, f, lo, hi) ==
    \A p, q \in lo + 1 .. hi :
        p < q /\ td[f[p]].ed = td[f[q]].ed => td[f[p]].index < td[f[q]].index
Covered(urb, f, lo, hi, k, s) ==
    \A e \in EDs : \A i \in k[e] + 1 .. s[e] : \E p \in lo + 1 .. hi : f[p] = urb[e].td[i]

Retired(td, urb, f, lo, hi, k, s) ==
    /\ Located(td, urb, f, lo, hi, k, s)
    /\ InTurn(td, f, lo, hi)
    /\ Covered(urb, f, lo, hi, k, s)

Failed(td, ed, urb, f, lo, mid, fetched, hi, h) ==
    \A p \in lo + 1 .. hi :
        td[f[p]].cc # OK =>
            LET e == td[f[p]].ed
            IN  IF p \in mid + 1 .. fetched THEN ~ed[e].halted /\ h[e] = Len(urb[e].td) + 1
                ELSE ed[e].halted

History(f, lo, mid, fetched, written, hi, k, s, h) ==
    /\ Ordered(lo, mid, fetched, written, hi)
    /\ Links(mem.td, f, lo, mid, fetched, written, hi)
    /\ Pointers(f, lo, mid, fetched, written, hi)
    /\ \A e \in EDs : Queue(mem.td, e, mem.urb[e], mem.ed[e], Filled(e), k[e], s[e], h[e])
    /\ Retired(mem.td, mem.urb, f, lo, hi, k, s)
    /\ Failed(mem.td, mem.ed, mem.urb, f, lo, mid, fetched, hi, h)

OhciInv ==
    /\ Shape
    /\ Going =>
          \E f \in [Nat -> TDs], k, s, h \in [EDs -> Nat] :
              \E lo, mid, fetched, written, hi \in Nat :
                  History(f, lo, mid, fetched, written, hi, k, s, h)

(* When the model has ended, no history is kept, but the properties hold. *)
Safe == NoFreeTdInFlight /\ FinishedMeansDone /\ QuietWhenIdle

-----------------------------------------------------------------------------
(* What can be reached along links: a set that holds the first TD and with *)
(* each of its TDs the next one holds them all.                            *)
Below == {ss \in Nat \X Nat : ss[1] < ss[2]}

LEMMA LeastIn ==
    ASSUME NEW S \in SUBSET Nat, S # {}
    PROVE  \E n \in S : \A m \in S : n <= m
<1>1. IsWellFoundedOn(Below, Nat)
  BY NatLessThanWellFounded DEF OpToRel, Below
<1>2. PICK n \in S : \A m \in S : ~ (<<m, n>> \in Below)
  BY <1>1, WFMin
<1>3. \A m \in S : ~(m < n)
  BY <1>2 DEF Below
<1> QED
  BY <1>2, <1>3

(* One more step of Walk. *)
Links1(td, A, stop) == {td[x].next : x \in A} \ {NULL, stop}
Walks(td, g, n, t, stop) ==
    g = [k \in 0 .. n |-> (IF k = 0 THEN {t} ELSE {td[x].next : x \in g[k - 1]}) \ {NULL, stop}]

LEMMA LongerWalk ==
    ASSUME NEW td, NEW t, NEW stop, NEW n \in Nat, NEW g, Walks(td, g, n, t, stop)
    PROVE  \E q : Walks(td, q, n + 1, t, stop)
<1> DEFINE q == [k \in 0 .. n + 1 |-> IF k = n + 1 THEN Links1(td, g[n], stop) ELSE g[k]]
<1>1. \A k \in 0 .. n + 1 :
          q[k] = (IF k = 0 THEN {t} ELSE {td[x].next : x \in q[k - 1]}) \ {NULL, stop}
  <2> TAKE k \in 0 .. n + 1
  <2>1. CASE k = n + 1
    <3>1. q[k - 1] = g[n] /\ q[k] = Links1(td, g[n], stop) /\ k # 0
      BY <2>1
    <3> QED
      BY <3>1 DEF Links1
  <2>2. CASE k \in 0 .. n
    <3>1. q[k] = g[k]
      BY <2>2
    <3>2. g[k] = (IF k = 0 THEN {t} ELSE {td[x].next : x \in g[k - 1]}) \ {NULL, stop}
      BY <2>2 DEF Walks
    <3>3. k # 0 => q[k - 1] = g[k - 1]
      BY <2>2
    <3> QED
      BY <3>1, <3>2, <3>3
  <2>3. k = n + 1 \/ k \in 0 .. n
    OBVIOUS
  <2> QED
    BY <2>1, <2>2, <2>3
<1>2. Walks(td, q, n + 1, t, stop)
  <2>1. q = [k \in 0 .. n + 1 |-> q[k]]
    OBVIOUS
  <2> HIDE DEF q
  <2>2. [k \in 0 .. n + 1 |-> q[k]] =
          [k \in 0 .. n + 1 |-> (IF k = 0 THEN {t} ELSE {td[x].next : x \in q[k - 1]}) \ {NULL, stop}]
    BY <1>1
  <2> QED
    BY <2>1, <2>2 DEF Walks
<1> QED
  BY <1>2

LEMMA WalkOfLength ==
    ASSUME NEW td, NEW t, NEW stop, NEW n \in Nat
    PROVE  \E g : Walks(td, g, n, t, stop)
<1> DEFINE Bad == {m \in Nat : ~ \E g : Walks(td, g, m, t, stop)}
<1>1. SUFFICES ASSUME Bad # {} PROVE FALSE
  OBVIOUS
<1>2. PICK m \in Bad : \A o \in Bad : m <= o
  BY <1>1, LeastIn
<1>3. CASE m = 0
  <2> DEFINE g == [k \in 0 .. 0 |-> {t} \ {NULL, stop}]
  <2>1. g = [k \in 0 .. 0 |-> (IF k = 0 THEN {t} ELSE {td[x].next : x \in g[k - 1]}) \ {NULL, stop}]
    OBVIOUS
  <2> HIDE DEF g
  <2>2. Walks(td, g, 0, t, stop)
    BY <2>1 DEF Walks
  <2> QED
    BY <1>2, <1>3, <2>2
<1>4. CASE m # 0
  <2>1. m - 1 \in Nat /\ m - 1 \notin Bad /\ (m - 1) + 1 = m
    BY <1>2, <1>4
  <2>2. PICK g : Walks(td, g, m - 1, t, stop)
    BY <2>1
  <2>3. \E q : Walks(td, q, m, t, stop)
    BY <2>1, <2>2, LongerWalk
  <2> QED
    BY <1>2, <2>3
<1> QED
  BY <1>3, <1>4

LEMMA WalkWalks ==
    ASSUME NEW td, NEW t, NEW stop
    PROVE  Walks(td, Walk(td, t, stop), NUM_TD, t, stop)
<1>1. \E g : Walks(td, g, NUM_TD, t, stop)
  BY OhciAssumption, WalkOfLength
<1>2. Walk(td, t, stop) = CHOOSE g : Walks(td, g, NUM_TD, t, stop)
  BY Zenon DEF Walk, Walks
<1> QED
  BY <1>1, <1>2, Zenon

LEMMA ReachedWithin ==
    ASSUME NEW td, NEW t, NEW stop, NEW S,
           t \in S \cup {NULL, stop},
           \A x \in S : td[x].next \in S \cup {NULL, stop}
    PROVE  Reached(td, t, stop) \subseteq S
<1> DEFINE w == Walk(td, t, stop)
           Out == {k \in 0 .. NUM_TD : ~(w[k] \subseteq S)}
<1>1. Walks(td, w, NUM_TD, t, stop)
  BY WalkWalks
<1> HIDE DEF w
<1>2. \A k \in 0 .. NUM_TD :
          w[k] = (IF k = 0 THEN {t} ELSE {td[x].next : x \in w[k - 1]}) \ {NULL, stop}
  BY <1>1 DEF Walks
<1>3. Out = {}
  <2>1. SUFFICES ASSUME Out # {} PROVE FALSE
    OBVIOUS
  <2>2. Out \in SUBSET Nat
    BY OhciAssumption
  <2>3. PICK k \in Out : \A m \in Out : k <= m
    BY <2>1, <2>2, LeastIn
  <2>4. CASE k = 0
    <3>1. w[k] = {t} \ {NULL, stop}
      BY <1>2, <2>3, <2>4
    <3> QED
      BY <2>3, <3>1
  <2>5. CASE k # 0
    <3>1. w[k] = {td[x].next : x \in w[k - 1]} \ {NULL, stop}
      BY <1>2, <2>3, <2>5
    <3>2. k - 1 \in 0 .. NUM_TD /\ ~(k <= k - 1)
      BY <2>3, <2>5, OhciAssumption
    <3>3. w[k - 1] \subseteq S
      BY <2>3, <3>2
    <3> QED
      BY <2>3, <3>1, <3>3
  <2> QED
    BY <2>4, <2>5
<1> QED
  BY <1>3 DEF Reached, w

(* What is reached depends on the links alone. *)
SameNext(td, te) ==
    \A x \in TDs : td[x].next \in TDs \cup {NULL} /\ te[x].next = td[x].next

LEMMA SameReached ==
    ASSUME NEW td, NEW te, SameNext(td, te), NEW t, NEW stop, t \in TDs \cup {NULL}
    PROVE  Reached(te, t, stop) = Reached(td, t, stop)
<1>0. \A x \in TDs : td[x].next \in TDs \cup {NULL} /\ te[x].next = td[x].next
  BY DEF SameNext
<1> DEFINE w == Walk(td, t, stop)
           v == Walk(te, t, stop)
           Bad == {k \in 0 .. NUM_TD : ~(w[k] = v[k] /\ w[k] \subseteq TDs)}
<1>1. Walks(td, w, NUM_TD, t, stop) /\ Walks(te, v, NUM_TD, t, stop)
  BY WalkWalks
<1> HIDE DEF w, v
<1>2. \A k \in 0 .. NUM_TD :
          /\ w[k] = (IF k = 0 THEN {t} ELSE {td[x].next : x \in w[k - 1]}) \ {NULL, stop}
          /\ v[k] = (IF k = 0 THEN {t} ELSE {te[x].next : x \in v[k - 1]}) \ {NULL, stop}
  BY <1>1 DEF Walks
<1>3. Bad = {}
  <2>1. SUFFICES ASSUME Bad # {} PROVE FALSE
    OBVIOUS
  <2>2. Bad \in SUBSET Nat
    BY OhciAssumption
  <2>3. PICK k \in Bad : \A m \in Bad : k <= m
    BY <2>1, <2>2, LeastIn
  <2>4. CASE k = 0
    <3>1. w[k] = {t} \ {NULL, stop} /\ v[k] = {t} \ {NULL, stop}
      BY <1>2, <2>3, <2>4
    <3> QED
      BY <2>3, <3>1
  <2>5. CASE k # 0
    <3>1. /\ w[k] = {td[x].next : x \in w[k - 1]} \ {NULL, stop}
          /\ v[k] = {te[x].next : x \in v[k - 1]} \ {NULL, stop}
      BY <1>2, <2>3, <2>5
    <3>2. k - 1 \in 0 .. NUM_TD /\ ~(k <= k - 1)
      BY <2>3, <2>5, OhciAssumption
    <3>3. v[k - 1] = w[k - 1] /\ w[k - 1] \subseteq TDs
      BY <2>3, <3>2
    <3>4. {te[x].next : x \in w[k - 1]} = {td[x].next : x \in w[k - 1]}
      BY <1>0, <3>3
    <3>5. {td[x].next : x \in w[k - 1]} \subseteq TDs \cup {NULL}
      BY <1>0, <3>3
    <3> QED
      BY <2>3, <3>1, <3>3, <3>4, <3>5
  <2> QED
    BY <2>4, <2>5
<1>4. \A k \in 0 .. NUM_TD : w[k] = v[k]
  BY <1>3
<1> QED
  BY <1>4 DEF Reached, w, v

-----------------------------------------------------------------------------
(* What TypeOK says of each field. *)
LEMMA MemoryTypes ==
    ASSUME NEW m \in Memory
    PROVE  /\ \A t \in TDs : /\ m.td[t].used \in BOOLEAN /\ m.td[t].next \in TDs \cup {NULL}
                             /\ m.td[t].ed \in EDs \cup {NULL} /\ m.td[t].index \in 0 .. NUM_TD
                             /\ m.td[t].cc \in Codes
           /\ \A e \in EDs : /\ m.ed[e].state \in {"NEW", "UNLINK", "OPER"}
                             /\ m.ed[e].head \in TDs \cup {NULL}
                             /\ m.ed[e].tail \in TDs \cup {NULL} /\ m.ed[e].halted \in BOOLEAN
           /\ \A e \in EDs : /\ m.urb[e].live \in BOOLEAN /\ m.urb[e].td \in Seq(TDs)
                             /\ m.urb[e].td_cnt \in Nat /\ m.urb[e].finished \in BOOLEAN
BY DEF Memory, Td, Ed, Urb

LEMMA Types ==
    ASSUME TypeOK
    PROVE  /\ \A t \in TDs : /\ mem.td[t].used \in BOOLEAN /\ mem.td[t].next \in TDs \cup {NULL}
                             /\ mem.td[t].ed \in EDs \cup {NULL} /\ mem.td[t].index \in 0 .. NUM_TD
                             /\ mem.td[t].cc \in Codes
           /\ \A e \in EDs : /\ mem.ed[e].state \in {"NEW", "UNLINK", "OPER"}
                             /\ mem.ed[e].head \in TDs \cup {NULL}
                             /\ mem.ed[e].tail \in TDs \cup {NULL} /\ mem.ed[e].halted \in BOOLEAN
           /\ \A e \in EDs : /\ mem.urb[e].live \in BOOLEAN /\ mem.urb[e].td \in Seq(TDs)
                             /\ mem.urb[e].td_cnt \in Nat /\ mem.urb[e].finished \in BOOLEAN
BY MemoryTypes DEF TypeOK

LEMMA TdNumbers == NUM_TD \in Nat /\ TDs \subseteq Nat /\ NULL \notin TDs /\ NULL \notin EDs
BY OhciAssumption DEF TDs, NULL

LEMMA InSequence ==
    ASSUME NEW S, NEW s \in Seq(S)
    PROVE  /\ Len(s) \in Nat
           /\ \A i \in 1 .. Len(s) : s[i] \in ToSet(s) /\ s[i] \in S
           /\ \A x \in ToSet(s) : x \in S /\ \E i \in 1 .. Len(s) : x = s[i]
BY DEF ToSet

(* Whose TD the p-th is. *)
LEMMA RetiredWhere ==
    ASSUME NEW td, NEW urb, NEW f, NEW lo, NEW hi, NEW k, NEW s,
           Retired(td, urb, f, lo, hi, k, s), NEW p \in lo + 1 .. hi,
           NEW d, d = td[f[p]].ed, NEW i, i = td[f[p]].index + 1
    PROVE  d \in EDs /\ i \in k[d] + 1 .. s[d] /\ urb[d].td[i] = f[p]
BY DEF Retired, Located

(* The same TDs are retired in the same order. *)
LEMMA InTurnSame ==
    ASSUME NEW td, NEW td2, NEW f, NEW lo, NEW hi, NEW a, InTurn(td, f, lo, hi),
           a + 1 .. hi \subseteq lo + 1 .. hi,
           \A p \in a + 1 .. hi : td2[f[p]] = td[f[p]]
    PROVE  InTurn(td2, f, a, hi)
BY DEF InTurn

(* Each TD retired and not taken back is there. *)
LEMMA RetiredAll ==
    ASSUME NEW td, NEW urb, NEW f, NEW lo, NEW hi, NEW k, NEW s,
           Retired(td, urb, f, lo, hi, k, s), NEW d \in EDs, NEW i \in k[d] + 1 .. s[d]
    PROVE  \E p \in lo + 1 .. hi : f[p] = urb[d].td[i]
BY DEF Retired, Covered

(* A TD has one URB, and one place in it. *)
LEMMA AccountsApart ==
    ASSUME NEW td, NEW ed, NEW urb, Accounts(td, ed, urb),
           NEW d \in EDs, NEW e \in EDs, d # e, NEW t \in ToSet(urb[d].td)
    PROVE  t \notin ToSet(urb[e].td)
BY DEF Accounts

LEMMA ShapeOnce ==
    ASSUME Shape, NEW e \in EDs, NEW i \in 1 .. Len(mem.urb[e].td), NEW j \in 1 .. Len(mem.urb[e].td),
           mem.urb[e].td[i] = mem.urb[e].td[j]
    PROVE  i = j
<1>1. UrbOf(e, mem.urb[e], mem.ed[e])
  BY DEF Shape
<1> QED
  BY <1>1 DEF UrbOf

(* A queue depends on the TDs of the URB and both ends only. *)
LEMMA ChainedLike ==
    ASSUME NEW td, NEW e, NEW u, NEW v, NEW d, NEW g, NEW c, NEW h,
           v.td = u.td, g.head = d.head, g.tail = d.tail, Chained(td, e, u, d, c, h)
    PROVE  Chained(td, e, v, g, c, h)
BY DEF Chained

-----------------------------------------------------------------------------
(* Where what the controller can reach is. *)
LEMMA DoneListWithin ==
    ASSUME NEW td, NEW f \in [Nat -> TDs], NEW a \in Nat, NEW b \in Nat, a <= b,
           Linked(td, f, a, b)
    PROVE  Reached(td, Newest(f, a, b), NULL) \subseteq {f[p] : p \in a + 1 .. b}
<1> DEFINE S == {f[p] : p \in a + 1 .. b}
           t == Newest(f, a, b)
<1>1. t \in S \cup {NULL, NULL}
  BY DEF Newest
<1>2. ASSUME NEW x \in S PROVE td[x].next \in S \cup {NULL, NULL}
  <2>1. PICK p \in a + 1 .. b : x = f[p]
    BY <1>2
  <2>2. td[x].next = IF p = a + 1 THEN NULL ELSE f[p - 1]
    BY <2>1 DEF Linked
  <2>3. p # a + 1 => p - 1 \in a + 1 .. b
    OBVIOUS
  <2> QED
    BY <2>2, <2>3
<1> HIDE DEF S, t
<1>3. Reached(td, t, NULL) \subseteq S
  BY <1>1, <1>2, ReachedWithin
<1> QED
  BY <1>3 DEF S, t

LEMMA QueueWithin ==
    ASSUME NEW td, NEW e, NEW u, NEW d, NEW c, NEW k, NEW s, NEW h,
           Counts(u, c, k, s, h), Chained(td, e, u, d, c, h)
    PROVE  Reached(td, d.head, d.tail) \subseteq {u.td[i] : i \in h .. c}
<1> DEFINE S == {u.td[i] : i \in h .. c}
<1>0. c \in Nat /\ h \in Nat /\ h <= c + 1
  BY DEF Counts
<1>1. d.head \in S \cup {NULL, d.tail}
  BY <1>0 DEF Chained
<1>2. ASSUME NEW x \in S PROVE td[x].next \in S \cup {NULL, d.tail}
  <2>1. PICK i \in h .. c : x = u.td[i]
    BY <1>2
  <2>2. td[x].next = IF i = c THEN d.tail ELSE u.td[i + 1]
    BY <2>1 DEF Chained
  <2>3. i # c => i + 1 \in h .. c
    BY <1>0
  <2>4. i # c => u.td[i + 1] \in S
    BY <2>3
  <2> QED
    BY <2>2, <2>4
<1> HIDE DEF S
<1>3. Reached(td, d.head, d.tail) \subseteq S
  BY <1>1, <1>2, ReachedWithin
<1> QED
  BY <1>3 DEF S

LEMMA CountFacts ==
    ASSUME NEW u, NEW c, NEW k, NEW s, NEW h, Counts(u, c, k, s, h)
    PROVE  /\ c \in Nat /\ k \in Nat /\ s \in Nat /\ h \in Nat
           /\ k <= s /\ s <= c /\ c <= Len(u.td) /\ s + 1 <= h /\ h <= c + 1
BY DEF Counts

(* t is a TD of a URB, queued or retired. *)
Handed(t, k, s, h) ==
    \E e \in EDs : \E i \in 1 .. Len(mem.urb[e].td) :
        /\ t = mem.urb[e].td[i]
        /\ i \in h[e] .. Filled(e) \/ i \in k[e] + 1 .. s[e]

LEMMA InFlightWhere ==
    ASSUME TypeOK,
           NEW f \in [Nat -> TDs], NEW k \in [EDs -> Nat], NEW s \in [EDs -> Nat], NEW h \in [EDs -> Nat],
           NEW lo, NEW mid, NEW fetched, NEW written, NEW hi,
           History(f, lo, mid, fetched, written, hi, k, s, h),
           NEW x \in InFlight
    PROVE  Handed(x, k, s, h)
<1> DEFINE Where(e, i) == i \in h[e] .. Filled(e) \/ i \in k[e] + 1 .. s[e]
<1>1. Ordered(lo, mid, fetched, written, hi)
  BY DEF History
<1>2. \A e \in EDs : /\ Counts(mem.urb[e], Filled(e), k[e], s[e], h[e])
                     /\ Chained(mem.td, e, mem.urb[e], mem.ed[e], Filled(e), h[e])
  BY DEF History, Queue
<1>3. ASSUME NEW e \in EDs, x \in Reached(mem.td, mem.ed[e].head, mem.ed[e].tail)
      PROVE  \E i \in 1 .. Len(mem.urb[e].td) : x = mem.urb[e].td[i] /\ Where(e, i)
  <2>1. PICK i \in h[e] .. Filled(e) : x = mem.urb[e].td[i]
    <3>1. Reached(mem.td, mem.ed[e].head, mem.ed[e].tail) \subseteq {mem.urb[e].td[i] : i \in h[e] .. Filled(e)}
      <4>1. PICK u, d, c : /\ u = mem.urb[e] /\ d = mem.ed[e] /\ c = Filled(e)
                           /\ Counts(u, c, k[e], s[e], h[e]) /\ Chained(mem.td, e, u, d, c, h[e])
        BY <1>2
      <4>2. PICK td, k1, s1, h1 : /\ td = mem.td /\ k1 = k[e] /\ s1 = s[e] /\ h1 = h[e]
                                  /\ Counts(u, c, k1, s1, h1) /\ Chained(td, e, u, d, c, h1)
        BY <4>1
      <4>3. Reached(td, d.head, d.tail) \subseteq {u.td[i] : i \in h1 .. c}
        <5>1. Counts(u, c, k1, s1, h1) /\ Chained(td, e, u, d, c, h1)
          BY <4>2
        <5> QED
          BY <5>1, QueueWithin
      <4>4. Reached(mem.td, d.head, d.tail) \subseteq {u.td[i] : i \in h[e] .. c}
        BY <4>2, <4>3, Zenon
      <4> QED
        BY <4>1, <4>4, Zenon
    <3> QED
      BY <1>3, <3>1
  <2>2. /\ Filled(e) \in Nat /\ Filled(e) <= Len(mem.urb[e].td) /\ s[e] \in Nat
        /\ h[e] \in Nat /\ s[e] + 1 <= h[e]
    BY <1>2, CountFacts
  <2>3. i \in 1 .. Len(mem.urb[e].td)
    <3>1. Len(mem.urb[e].td) \in Nat
      BY Types, InSequence
    <3> QED
      BY <2>2, <3>1
  <2> QED
    BY <2>1, <2>3
<1>4. ASSUME NEW p \in lo + 1 .. hi, x = f[p]
      PROVE  \E e \in EDs : \E i \in 1 .. Len(mem.urb[e].td) : x = mem.urb[e].td[i] /\ Where(e, i)
  <2>0. PICK e, i : e = mem.td[f[p]].ed /\ i = mem.td[f[p]].index + 1
    OBVIOUS
  <2>1. e \in EDs /\ i \in k[e] + 1 .. s[e] /\ mem.urb[e].td[i] = f[p]
    <3>1. Retired(mem.td, mem.urb, f, lo, hi, k, s)
      BY DEF History
    <3> QED
      BY <2>0, <3>1, RetiredWhere
  <2>2. i \in 1 .. Len(mem.urb[e].td)
    <3>1. Len(mem.urb[e].td) \in Nat
      BY <2>1, Types, InSequence
    <3>2. /\ Filled(e) \in Nat /\ Filled(e) <= Len(mem.urb[e].td) /\ s[e] \in Nat
          /\ s[e] <= Filled(e) /\ k[e] \in Nat
      BY <1>2, <2>1, CountFacts
    <3> QED
      BY <2>1, <3>1, <3>2
  <2> QED
    BY <1>4, <2>1, <2>2
<1>5. Reached(mem.td, hc.doneq, NULL) \subseteq {f[p] : p \in written + 1 .. hi}
  BY <1>1, DoneListWithin DEF History, Pointers, Links, Ordered
<1>6. Reached(mem.td, hc.done_head, NULL) \subseteq {f[p] : p \in fetched + 1 .. written}
  BY <1>1, DoneListWithin DEF History, Pointers, Links, Ordered
<1>7. written + 1 .. hi \subseteq lo + 1 .. hi /\ fetched + 1 .. written \subseteq lo + 1 .. hi
  BY <1>1 DEF Ordered
<1>8. \/ \E e \in EDs : x \in Reached(mem.td, mem.ed[e].head, mem.ed[e].tail)
      \/ \E p \in lo + 1 .. hi : x = f[p]
  <2>1. \/ \E e \in EDs : x \in Reached(mem.td, mem.ed[e].head, mem.ed[e].tail)
        \/ x \in Reached(mem.td, hc.doneq, NULL) \/ x \in Reached(mem.td, hc.done_head, NULL)
    BY DEF InFlight
  <2> QED
    BY <1>5, <1>6, <1>7, <2>1
<1> QED
  BY <1>3, <1>4, <1>8 DEF Handed

-----------------------------------------------------------------------------
(* What the invariant says of the properties. *)
LEMMA AccountedInInv == Shape => TdsAccounted
<1> SUFFICES ASSUME Shape PROVE TdsAccounted
  OBVIOUS
<1>0. TypeOK /\ Accounts(mem.td, mem.ed, mem.urb)
  BY DEF Shape
<1>1. \A e \in EDs : mem.ed[e].tail \in TDs \cup {NULL} /\ TdsOf(e) \subseteq TDs
  BY <1>0, Types, InSequence DEF TdsOf
<1>2. \A t \in TDs : mem.td[t].used <=> \/ \E e \in EDs : mem.ed[e].tail = t
                                        \/ \E e \in EDs : t \in TdsOf(e)
  BY <1>0 DEF Accounts, TdsOf
<1>3. Dummies \subseteq TDs /\ \A t \in TDs : t \in Dummies <=> \E e \in EDs : mem.ed[e].tail = t
  BY <1>1, TdNumbers DEF Dummies
<1>4. {t \in TDs : mem.td[t].used} = Dummies \cup UNION {TdsOf(e) : e \in EDs}
  <2> DEFINE All == UNION {TdsOf(e) : e \in EDs}
  <2>1. All \subseteq TDs /\ \A t \in TDs : t \in All <=> \E e \in EDs : t \in TdsOf(e)
    BY <1>1
  <2> HIDE DEF All
  <2>2. {t \in TDs : mem.td[t].used} = Dummies \cup All
    BY <1>2, <1>3, <2>1
  <2> QED
    BY <2>2 DEF All
<1>5. \A e \in EDs : TdsOf(e) \cap Dummies = {}
  BY <1>0 DEF Accounts, TdsOf, Dummies
<1>6. \A d, e \in EDs : d # e => TdsOf(d) \cap TdsOf(e) = {}
  BY <1>0 DEF Accounts, TdsOf
<1> QED
  BY <1>0, <1>4, <1>5, <1>6 DEF TdsAccounted

LEMMA UsedInInv ==
    ASSUME OhciInv, Going, NEW x \in InFlight \cup Dummies
    PROVE  mem.td[x].used /\ x \in TDs
<1>0. Shape /\ TypeOK /\ Accounts(mem.td, mem.ed, mem.urb)
  BY DEF OhciInv, Shape
<1>1. CASE x \in Dummies
  <2>1. PICK e \in EDs : x = mem.ed[e].tail
    BY <1>1 DEF Dummies
  <2>2. x \in TDs
    BY <1>0, <1>1, <2>1, Types DEF Dummies
  <2> QED
    BY <1>0, <2>1, <2>2 DEF Accounts
<1>2. CASE x \in InFlight
  <2>1. PICK f \in [Nat -> TDs], k \in [EDs -> Nat], s \in [EDs -> Nat], h \in [EDs -> Nat] :
            \E lo, mid, fetched, written, hi \in Nat :
               History(f, lo, mid, fetched, written, hi, k, s, h)
    BY DEF OhciInv
  <2>2. PICK lo \in Nat, mid \in Nat, fetched \in Nat, written \in Nat, hi \in Nat :
            History(f, lo, mid, fetched, written, hi, k, s, h)
    BY <2>1
  <2>3. PICK e \in EDs : \E i \in 1 .. Len(mem.urb[e].td) : x = mem.urb[e].td[i]
    <3>1. Handed(x, k, s, h)
      BY <1>0, <1>2, <2>2, InFlightWhere
    <3> QED
      BY <3>1 DEF Handed
  <2>4. x \in ToSet(mem.urb[e].td) /\ x \in TDs
    BY <1>0, <2>3, Types, InSequence
  <2> QED
    BY <1>0, <2>4 DEF Accounts
<1> QED
  BY <1>1, <1>2

LEMMA FreeInInv == OhciInv /\ Going => NoFreeTdInFlight
BY UsedInInv DEF NoFreeTdInFlight

(* A TD that has been filled is that of its endpoint. *)
LEMMA OwnTd ==
    ASSUME OhciInv, Going, NEW e \in EDs, main.pc # "fill", Len(mem.urb[e].td) \in 1 .. NUM_TD
    PROVE  mem.td[mem.urb[e].td[1]].ed = e
<1>1. PICK f \in [Nat -> TDs], k \in [EDs -> Nat], s \in [EDs -> Nat], h \in [EDs -> Nat] :
          \E lo, mid, fetched, written, hi \in Nat :
             History(f, lo, mid, fetched, written, hi, k, s, h)
  BY DEF OhciInv
<1>2. Chained(mem.td, e, mem.urb[e], mem.ed[e], Filled(e), h[e])
  BY <1>1 DEF History, Queue
<1>3. 1 \in 1 .. Filled(e)
  BY DEF Filled
<1> QED
  BY <1>2, <1>3 DEF Chained

(* A URB whose TDs are all counted has none queued or retired. *)
LEMMA AllCounted ==
    ASSUME NEW u, NEW c, NEW k, NEW s, NEW h, Counts(u, c, k, s, h), Len(u.td) \in Nat,
           u.td_cnt = Len(u.td)
    PROVE  k = s /\ h = c + 1 /\ c = Len(u.td)
BY DEF Counts

LEMMA FinishedInInv == OhciInv /\ Going => FinishedMeansDone
<1> SUFFICES ASSUME OhciInv, Going, NEW e \in Control \cup Bulk, mem.urb[e].finished,
                    NEW x \in TdsOf(e), x \in InFlight
             PROVE  FALSE
  BY DEF FinishedMeansDone
<1>0. Shape /\ TypeOK /\ Accounts(mem.td, mem.ed, mem.urb) /\ Place
  BY DEF OhciInv, Shape
<1>1. e \in EDs /\ e \notin Interrupt
  BY OhciAssumption DEF EDs
<1>4. PICK f \in [Nat -> TDs], k \in [EDs -> Nat], s \in [EDs -> Nat], h \in [EDs -> Nat] :
          \E lo, mid, fetched, written, hi \in Nat :
             History(f, lo, mid, fetched, written, hi, k, s, h)
  BY DEF OhciInv
<1>5. PICK lo \in Nat, mid \in Nat, fetched \in Nat, written \in Nat, hi \in Nat :
          History(f, lo, mid, fetched, written, hi, k, s, h)
  BY <1>4
<1>6. PICK d \in EDs : \E i \in 1 .. Len(mem.urb[d].td) :
              /\ x = mem.urb[d].td[i]
              /\ i \in h[d] .. Filled(d) \/ i \in k[d] + 1 .. s[d]
  <2>1. Handed(x, k, s, h)
    BY <1>0, <1>5, InFlightWhere
  <2> QED
    BY <2>1 DEF Handed
<1>7. d = e
  <2>1. x \in ToSet(mem.urb[d].td)
    BY <1>0, <1>6, Types, InSequence
  <2> QED
    BY <1>0, <1>1, <2>1 DEF Accounts, TdsOf
<1>8. k[e] = s[e] /\ h[e] = Filled(e) + 1
  <2>1. Queue(mem.td, e, mem.urb[e], mem.ed[e], Filled(e), k[e], s[e], h[e])
    BY <1>1, <1>5 DEF History
  <2>2. mem.urb[e].td_cnt = Len(mem.urb[e].td)
    BY <1>1, <2>1 DEF Queue, Ended
  <2>3. Len(mem.urb[e].td) \in Nat
    BY <1>0, <1>1, Types, InSequence
  <2> QED
    BY <2>1, <2>2, <2>3, AllCounted DEF Queue
<1>9. k[e] \in Nat /\ Filled(e) \in Nat
  BY <1>1, <1>5, CountFacts DEF History, Queue
<1> QED
  BY <1>6, <1>7, <1>8, <1>9

LEMMA QuietQueue ==
    ASSUME OhciInv, Going, NEW e \in EDs, e \notin Interrupt, ~mem.urb[e].live
    PROVE  /\ mem.ed[e].state # "OPER"
           /\ ~mem.ed[e].halted /\ mem.ed[e].head = mem.ed[e].tail
<1>3. mem.urb[e] = NoUrb
  BY DEF OhciInv, Shape, UrbOf
<1>4. PICK f \in [Nat -> TDs], k \in [EDs -> Nat], s \in [EDs -> Nat], h \in [EDs -> Nat] :
          \E lo, mid, fetched, written, hi \in Nat :
             History(f, lo, mid, fetched, written, hi, k, s, h)
  BY DEF OhciInv
<1>5. Queue(mem.td, e, mem.urb[e], mem.ed[e], Filled(e), k[e], s[e], h[e])
  BY <1>4 DEF History
<1>6. Len(mem.urb[e].td) = 0 /\ mem.urb[e].td_cnt = 0
  BY <1>3 DEF NoUrb
<1>7. k[e] = s[e] /\ h[e] = Filled(e) + 1
  BY <1>5, <1>6, AllCounted DEF Queue
<1> QED
  <2>1. mem.ed[e].head = mem.ed[e].tail
    BY <1>5, <1>7 DEF Queue, Chained
  <2>2. ~mem.ed[e].halted
    <3>1. k[e] \in Nat /\ s[e] \in Nat
      BY <1>4
    <3> QED
      BY <1>5, <1>7, <3>1 DEF Queue, Halts
  <2>3. mem.ed[e].state # "OPER"
    BY <1>5 DEF Queue, Ended
  <2> QED
    BY <2>1, <2>2, <2>3

LEMMA QuietInInv == OhciInv /\ Going => QuietWhenIdle
<1> SUFFICES ASSUME OhciInv, Going, main = Idle, NEW e \in EDs \ Interrupt
             PROVE  /\ mem.ed[e].state # "OPER"
                    /\ ~mem.ed[e].halted /\ mem.ed[e].head = mem.ed[e].tail
  BY DEF QuietWhenIdle
<1>1. main.ed # e
  BY TdNumbers DEF Idle
<1>2. ~mem.urb[e].live
  BY <1>1 DEF OhciInv, Shape, Place
<1> QED
  BY <1>2, QuietQueue

-----------------------------------------------------------------------------
(* Steps that leave the memory alone. *)
Witness(f, lo, mid, fetched, written, hi, k, s, h) ==
    /\ f \in [Nat -> TDs]
    /\ k \in [EDs -> Nat] /\ s \in [EDs -> Nat] /\ h \in [EDs -> Nat]
    /\ History(f, lo, mid, fetched, written, hi, k, s, h)

LEMMA Witnessed ==
    ASSUME NEW f, NEW lo, NEW mid, NEW fetched, NEW written, NEW hi, NEW k, NEW s, NEW h,
           Shape', Witness(f, lo, mid, fetched, written, hi, k, s, h)'
    PROVE  OhciInv'
<1>1. Ordered(lo, mid, fetched, written, hi)
  BY DEF Witness, History
<1> QED
  BY <1>1 DEF Witness, OhciInv, Ordered

LEMMA WithWitness ==
    ASSUME OhciInv, Going
    PROVE  \E f, lo, mid, fetched, written, hi, k, s, h :
              Witness(f, lo, mid, fetched, written, hi, k, s, h)
BY DEF OhciInv, Witness

(* Outside of dl_reverse_done_list and dl_done_list nothing is fetched. *)
LEMMA NothingFetched ==
    ASSUME NEW f, NEW lo, NEW mid, NEW fetched, NEW written, NEW hi,
           Ordered(lo, mid, fetched, written, hi),
           Pointers(f, lo, mid, fetched, written, hi),
           main.pc \notin {"reverse", "takeback"}
    PROVE  /\ lo = mid /\ mid = fetched
           /\ main.td_list_hc = NULL /\ main.td_rev = <<>>
<1>1. lo = mid /\ mid = fetched
  BY DEF Ordered, Pointers
<1>2. main.td_list_hc = NULL
  BY <1>1 DEF Pointers, Newest, Ordered
<1>3. main.td_rev = <<>>
  <2>1. fetched - mid = 0
    BY <1>1 DEF Ordered
  <2>2. main.td_rev = [i \in 1 .. 0 |-> f[mid + i]]
    BY <2>1 DEF Pointers
  <2> QED
    BY <2>2
<1> QED
  BY <1>1, <1>2, <1>3

LEMMA NothingRead ==
    ASSUME NEW f, NEW mid \in Nat
    PROVE  <<>> = [i \in 1 .. mid - mid |-> f[mid + i]]
OBVIOUS

(* The memory part of Shape. *)
LEMMA ShapeSame ==
    ASSUME Shape, mem' = mem, Place',
           hc' \in [doneq : TDs \cup {NULL}, done_head : TDs \cup {NULL}, wdh : BOOLEAN],
           main' \in [pc : {"idle", "fill", "poll", "reverse", "takeback", "ack", "nested"},
                      ed : EDs \cup {NULL}, n : 0 .. NUM_TD, td_list_hc : TDs \cup {NULL},
                      td_rev : Seq(TDs), stat : Codes],
           disabled' \in BOOLEAN /\ givenUp' \subseteq TDs
    PROVE  Shape'
<1>1. TypeOK'
  BY DEF Shape, TypeOK
<1>2. Accounts(mem.td, mem.ed, mem.urb)'
  BY DEF Shape
<1>3. (\A e \in EDs : UrbOf(e, mem.urb[e], mem.ed[e]))'
  BY DEF Shape
<1> QED
  BY <1>1, <1>2, <1>3 DEF Shape

LEMMA WriteBackStep == OhciInv /\ HcWriteBack => OhciInv'
<1> SUFFICES ASSUME OhciInv, HcWriteBack PROVE OhciInv'
  OBVIOUS
<1>0. Shape /\ TypeOK /\ Place /\ Going /\ mem' = mem /\ main' = main /\ disabled' = disabled /\ givenUp' = givenUp
  BY DEF OhciInv, Shape, HcWriteBack
<1>1. PICK f, lo, mid, fetched, written, hi, k, s, h :
          Witness(f, lo, mid, fetched, written, hi, k, s, h)
  BY <1>0, WithWitness
<1>2. Ordered(lo, mid, fetched, written, hi) /\ Pointers(f, lo, mid, fetched, written, hi)
  BY <1>1 DEF Witness, History
<1>3. /\ hc.doneq # NULL /\ ~hc.wdh
      /\ hc'.doneq = NULL /\ hc'.done_head = hc.doneq /\ hc'.wdh
  BY <1>0 DEF HcWriteBack, TypeOK
<1>4. written = fetched /\ written < hi
  <2>1. \A p \in Nat : f[p] # NULL
    BY <1>1, TdNumbers DEF Witness
  <2> QED
    BY <1>2, <1>3, <2>1 DEF Ordered, Pointers, Newest
<1>5. Shape'
  <2>1. Place'
    BY <1>0 DEF Place
  <2> QED
    BY <1>0, <2>1, ShapeSame DEF HcWriteBack, TypeOK
<1>6. Ordered(lo, mid, fetched, hi, hi)
  BY <1>2 DEF Ordered
<1>7. Pointers(f, lo, mid, fetched, hi, hi)'
  <2>1. Newest(f, fetched, hi) = hc.doneq
    BY <1>2, <1>4 DEF Pointers
  <2>2. Newest(f, hi, hi) = NULL
    BY <1>2 DEF Newest, Ordered
  <2>3. main.pc \notin {"reverse", "takeback", "ack"}
    BY <1>2, <1>3 DEF Pointers
  <2>4. /\ main.td_list_hc = Newest(f, lo, mid)
        /\ main.td_rev = [i \in 1 .. fetched - mid |-> f[mid + i]]
        /\ main.pc = "reverse" <=> lo < mid
        /\ main.pc = "takeback" <=> lo = mid /\ mid < fetched
    BY <1>2 DEF Pointers
  <2> QED
    BY <1>0, <1>3, <2>1, <2>2, <2>3, <2>4 DEF Pointers
<1>8. Links(mem.td, f, lo, mid, fetched, hi, hi)'
  BY <1>0, <1>1, <1>4, <1>6 DEF Witness, History, Links, Linked, Ordered
<1>9. \A e \in EDs : Queue(mem.td, e, mem.urb[e], mem.ed[e], Filled(e), k[e], s[e], h[e])'
  BY <1>0, <1>1 DEF Witness, History, Filled
<1>10. Retired(mem.td, mem.urb, f, lo, hi, k, s)'
  BY <1>0, <1>1 DEF Witness, History
<1>11. Failed(mem.td, mem.ed, mem.urb, f, lo, mid, fetched, hi, h)'
  BY <1>0, <1>1 DEF Witness, History
<1>13. Witness(f, lo, mid, fetched, hi, hi, k, s, h)'
  BY <1>1, <1>6, <1>7, <1>8, <1>9, <1>10, <1>11 DEF Witness, History
<1> QED
  BY <1>5, <1>13, Witnessed

LEMMA PollTakeStep == OhciInv /\ PollTake => OhciInv'
<1> SUFFICES ASSUME OhciInv, PollTake PROVE OhciInv'
  OBVIOUS
<1>0. Shape /\ TypeOK /\ Place /\ mem' = mem /\ disabled' = disabled /\ givenUp' = givenUp /\ main.pc = "poll"
  BY DEF OhciInv, Shape, PollTake
<1>1. Going
  BY <1>0 DEF Place, Going
<1>2. PICK f, lo, mid, fetched, written, hi, k, s, h :
          Witness(f, lo, mid, fetched, written, hi, k, s, h)
  BY <1>1, WithWitness
<1>3. Ordered(lo, mid, fetched, written, hi) /\ Pointers(f, lo, mid, fetched, written, hi)
  BY <1>2 DEF Witness, History
<1>4. lo = mid /\ mid = fetched /\ main.td_rev = <<>>
  BY <1>0, <1>3, NothingFetched
<1>5. /\ main'.pc = IF hc.done_head = NULL THEN "ack" ELSE "reverse"
      /\ main'.td_list_hc = hc.done_head
      /\ main'.td_rev = main.td_rev /\ main'.ed = main.ed /\ main'.stat = main.stat
      /\ main'.n = main.n
      /\ hc'.done_head = NULL /\ hc'.doneq = hc.doneq /\ hc'.wdh = hc.wdh
  BY <1>0 DEF PollTake, TypeOK
<1>6. hc.done_head = Newest(f, fetched, written)
  BY <1>3 DEF Pointers
<1>7. fetched < written <=> hc.done_head # NULL
  <2>1. fetched < written => f[written] # NULL
    BY <1>2, <1>3, TdNumbers DEF Witness, Ordered
  <2> QED
    BY <1>6, <2>1 DEF Newest
<1>8. hc.wdh
  BY <1>0, <1>3 DEF PollTake, Pointers
<1>9. Shape'
  <2>1. Place'
    BY <1>0, <1>5 DEF Place
  <2> QED
    BY <1>0, <2>1, ShapeSame DEF PollTake, TypeOK
<1>10. Ordered(lo, written, written, written, hi)
  BY <1>3 DEF Ordered
<1>11. Pointers(f, lo, written, written, written, hi)'
  <2>1. written \in Nat /\ lo \in Nat /\ lo <= written
    BY <1>3 DEF Ordered
  <2>2. Newest(f, lo, written) = hc.done_head
    BY <1>4, <1>6
  <2>3. Newest(f, written, written) = NULL
    BY <2>1 DEF Newest
  <2>4. main'.td_rev = [i \in 1 .. written - written |-> f[written + i]]
    BY <1>4, <1>5, <2>1, NothingRead
  <2>5. hc.doneq = Newest(f, written, hi)
    BY <1>3 DEF Pointers
  <2>6. /\ main'.pc = "reverse" <=> lo < written
        /\ ~(main'.pc = "takeback")
    BY <1>4, <1>5, <1>7
  <2> QED
    BY <1>5, <1>8, <2>1, <2>2, <2>3, <2>4, <2>5, <2>6 DEF Pointers
<1>12. Links(mem.td, f, lo, written, written, written, hi)'
  <2>1. Linked(mem.td, f, fetched, written) /\ Linked(mem.td, f, written, hi)
    BY <1>2 DEF Witness, History, Links
  <2>2. Linked(mem.td, f, written, written)
    BY <1>3 DEF Linked, Ordered
  <2> QED
    BY <1>0, <1>4, <2>1, <2>2 DEF Links
<1>13. \A e \in EDs : Queue(mem.td, e, mem.urb[e], mem.ed[e], Filled(e), k[e], s[e], h[e])'
  <2>1. \A e : Filled(e)' = Filled(e)
    BY <1>0, <1>5 DEF Filled
  <2> QED
    BY <1>0, <1>2, <2>1 DEF Witness, History
<1>14. Retired(mem.td, mem.urb, f, lo, hi, k, s)'
  BY <1>0, <1>2 DEF Witness, History
<1>15. Failed(mem.td, mem.ed, mem.urb, f, lo, written, written, hi, h)'
  <2>1. \A p : p \notin mid + 1 .. fetched /\ p \notin written + 1 .. written
    BY <1>3, <1>4 DEF Ordered
  <2> QED
    BY <1>0, <1>2, <2>1 DEF Witness, History, Failed
<1>17. Witness(f, lo, written, written, written, hi, k, s, h)'
  BY <1>2, <1>10, <1>11, <1>12, <1>13, <1>14, <1>15 DEF Witness, History
<1> QED
  BY <1>9, <1>17, Witnessed

(* The foreground goes on, or is done with the URB of an interrupt pipe:   *)
(* in the memory nothing changes.                                          *)
LEMMA PlaceChange ==
    ASSUME OhciInv, Going, mem' = mem, Shape',
           main.pc \in {"poll", "ack"}, main'.pc \in {"idle", "poll"},
           main'.td_list_hc = NULL, main'.td_rev = <<>>,
           hc'.done_head = hc.done_head, hc'.doneq = hc.doneq,
           hc'.wdh = hc.wdh \/ main.pc = "ack"
    PROVE  OhciInv'
<1>2. PICK f, lo, mid, fetched, written, hi, k, s, h :
          Witness(f, lo, mid, fetched, written, hi, k, s, h)
  BY WithWitness
<1>3. Ordered(lo, mid, fetched, written, hi) /\ Pointers(f, lo, mid, fetched, written, hi)
  BY <1>2 DEF Witness, History
<1>4. lo = mid /\ mid = fetched
  BY <1>3, NothingFetched
<1>5. Pointers(f, lo, mid, fetched, written, hi)'
  <2>1. lo \in Nat /\ Newest(f, lo, mid) = NULL
    BY <1>3, <1>4 DEF Newest, Ordered
  <2>2. <<>> = [i \in 1 .. fetched - mid |-> f[mid + i]]
    BY <1>4, <2>1, NothingRead
  <2>3. hc'.done_head # NULL => hc'.wdh
    <3>1. main.pc = "ack" => hc.done_head = NULL
      BY <1>3 DEF Pointers, Newest, Ordered
    <3> QED
      BY <1>3, <3>1 DEF Pointers
  <2>4. ~(lo < mid) /\ ~(mid < fetched)
    BY <1>4, <2>1
  <2>5. hc.done_head = Newest(f, fetched, written) /\ hc.doneq = Newest(f, written, hi)
    BY <1>3 DEF Pointers
  <2> QED
    BY <2>1, <2>2, <2>3, <2>4, <2>5 DEF Pointers
<1>6. \A e \in EDs : Queue(mem.td, e, mem.urb[e], mem.ed[e], Filled(e), k[e], s[e], h[e])'
  <2>1. \A e : Filled(e)' = Filled(e)
    BY DEF Filled
  <2> QED
    BY <1>2, <2>1 DEF Witness, History
<1>8. Witness(f, lo, mid, fetched, written, hi, k, s, h)'
  BY <1>2, <1>3, <1>5, <1>6 DEF Witness, History
<1> QED
  BY <1>8, Witnessed

-----------------------------------------------------------------------------
(* The end of a transfer. *)
LEMMA EmptySequence == <<>> \in Seq(TDs) /\ Len(<<>>) = 0 /\ ToSet(<<>>) = {}
BY DEF ToSet

Frees(m, e, n) ==
    /\ n \in Memory /\ n.ed = m.ed
    /\ \A t \in TDs : IF t \in ToSet(m.urb[e].td) THEN ~n.td[t].used ELSE n.td[t] = m.td[t]
    /\ \A d \in EDs : n.urb[d] = IF d = e THEN NoUrb ELSE m.urb[d]

LEMMA FreeEffect ==
    ASSUME NEW m \in Memory, NEW e \in EDs, NEW n, n = urb_free_priv(m, e)
    PROVE  /\ Frees(m, e, n) /\ n \in Memory /\ n.ed = m.ed
           /\ \A t \in TDs : n.td[t] = IF t \in ToSet(m.urb[e].td) THEN UnusedTd ELSE m.td[t]
           /\ \A d \in EDs : n.urb[d] = IF d = e THEN NoUrb ELSE m.urb[d]
<1> DEFINE td == [t \in TDs |-> IF t \in ToSet(m.urb[e].td) THEN UnusedTd ELSE m.td[t]]
           urb == [m.urb EXCEPT ![e] = NoUrb]
<1>0. m.td \in [TDs -> Td] /\ m.ed \in [EDs -> Ed] /\ m.urb \in [EDs -> Urb]
  BY DEF Memory
<1>1. UnusedTd \in Td
  BY OhciAssumption DEF UnusedTd, Td, Codes, OK
<1>2. NoUrb \in Urb
  BY EmptySequence DEF NoUrb, Urb
<1>3. td \in [TDs -> Td]
  BY <1>0, <1>1
<1>4. urb \in [EDs -> Urb] /\ \A d \in EDs : urb[d] = IF d = e THEN NoUrb ELSE m.urb[d]
  BY <1>0, <1>2
<1>5. n.td = td /\ n.urb = urb /\ n.ed = m.ed /\ n = [td |-> td, ed |-> m.ed, urb |-> urb]
  BY DEF urb_free_priv, Memory
<1>6. \A t \in TDs : td[t] = IF t \in ToSet(m.urb[e].td) THEN UnusedTd ELSE m.td[t]
  OBVIOUS
<1> HIDE DEF td, urb
<1>7. n \in Memory
  BY <1>0, <1>3, <1>4, <1>5 DEF Memory
<1>8. Frees(m, e, n)
  <2>1. ~UnusedTd.used
    BY DEF UnusedTd
  <2> QED
    BY <1>4, <1>5, <1>6, <1>7, <2>1 DEF Frees
<1> QED
  BY <1>4, <1>5, <1>6, <1>7, <1>8

(* Given up, they keep what else they hold. *)
LEMMA QueuedEffect ==
    ASSUME NEW m \in Memory, NEW e \in EDs, NEW n, n = urb_free_queued(m, e)
    PROVE  /\ Frees(m, e, n)
           /\ \A t \in TDs : n.td[t].next = m.td[t].next /\ n.td[t].ed = m.td[t].ed
<1> DEFINE td == [t \in TDs |-> IF t \in ToSet(m.urb[e].td) THEN [m.td[t] EXCEPT !.used = FALSE]
                                ELSE m.td[t]]
           urb == [m.urb EXCEPT ![e] = NoUrb]
<1>0. m.td \in [TDs -> Td] /\ m.ed \in [EDs -> Ed] /\ m.urb \in [EDs -> Urb]
  BY DEF Memory
<1>1. NoUrb \in Urb
  BY EmptySequence DEF NoUrb, Urb
<1>2. ASSUME NEW t \in TDs
      PROVE  LET w == [m.td[t] EXCEPT !.used = FALSE]
             IN  w \in Td /\ ~w.used /\ w.next = m.td[t].next /\ w.ed = m.td[t].ed
  BY <1>0, <1>2 DEF Td
<1>3. td \in [TDs -> Td]
  BY <1>0, <1>2
<1>4. urb \in [EDs -> Urb] /\ \A d \in EDs : urb[d] = IF d = e THEN NoUrb ELSE m.urb[d]
  BY <1>0, <1>1
<1>5. n.td = td /\ n.urb = urb /\ n.ed = m.ed /\ n = [td |-> td, ed |-> m.ed, urb |-> urb]
  BY DEF urb_free_queued, Memory
<1>6. \A t \in TDs : /\ IF t \in ToSet(m.urb[e].td) THEN ~td[t].used ELSE td[t] = m.td[t]
                     /\ td[t].next = m.td[t].next /\ td[t].ed = m.td[t].ed
  BY <1>2
<1> HIDE DEF td, urb
<1>7. n \in Memory
  BY <1>0, <1>3, <1>4, <1>5 DEF Memory
<1> QED
  BY <1>4, <1>5, <1>6, <1>7 DEF Frees

(* What is left when TDs are given back. *)
LEMMA FreeAccounts ==
    ASSUME NEW m \in Memory, Accounts(m.td, m.ed, m.urb), NEW e \in EDs, NEW n, Frees(m, e, n)
    PROVE  Accounts(n.td, n.ed, n.urb)
<1>1. /\ n.ed = m.ed
      /\ \A t \in TDs : IF t \in ToSet(m.urb[e].td) THEN ~n.td[t].used ELSE n.td[t] = m.td[t]
      /\ \A d \in EDs : n.urb[d] = IF d = e THEN NoUrb ELSE m.urb[d]
  BY DEF Frees
<1>3. \A t \in TDs : t \in ToSet(m.urb[e].td) =>
          /\ \A d \in EDs : m.ed[d].tail # t
          /\ \A d \in EDs : d # e => t \notin ToSet(m.urb[d].td)
  BY TdNumbers DEF Accounts
<1>4. \A d \in EDs : \A t : t \in ToSet(n.urb[d].td) <=> d # e /\ t \in ToSet(m.urb[d].td)
  <2> SUFFICES ASSUME NEW d \in EDs, NEW t
               PROVE  t \in ToSet(n.urb[d].td) <=> d # e /\ t \in ToSet(m.urb[d].td)
    OBVIOUS
  <2>1. CASE d = e
    BY <1>1, <2>1, EmptySequence DEF NoUrb
  <2>2. CASE d # e
    BY <1>1, <2>2
  <2> QED
    BY <2>1, <2>2
<1>5. \A t \in TDs : n.td[t].used <=> m.td[t].used /\ t \notin ToSet(m.urb[e].td)
  <2> SUFFICES ASSUME NEW t \in TDs
               PROVE  n.td[t].used <=> m.td[t].used /\ t \notin ToSet(m.urb[e].td)
    OBVIOUS
  <2>1. CASE t \in ToSet(m.urb[e].td)
    BY <1>1, <2>1
  <2>2. CASE t \notin ToSet(m.urb[e].td)
    BY <1>1, <2>2
  <2> QED
    BY <2>1, <2>2
<1>6. \A t \in TDs : n.td[t].used <=> \/ \E d \in EDs : m.ed[d].tail = t
                                      \/ \E d \in EDs : t \in ToSet(n.urb[d].td)
  BY <1>3, <1>4, <1>5 DEF Accounts
<1>7. \A c, d \in EDs : m.ed[c].tail # NULL => m.ed[c].tail \notin ToSet(n.urb[d].td)
  BY <1>4 DEF Accounts
<1>8. \A c, d \in EDs : c # d => \A t \in ToSet(n.urb[c].td) : t \notin ToSet(n.urb[d].td)
  BY <1>4 DEF Accounts
<1>9. \A c, d \in EDs : c # d /\ m.ed[c].tail = m.ed[d].tail => m.ed[c].tail = NULL
  BY DEF Accounts
<1> QED
  BY <1>1, <1>6, <1>7, <1>8, <1>9 DEF Accounts

HcTypes == [doneq : TDs \cup {NULL}, done_head : TDs \cup {NULL}, wdh : BOOLEAN]
MainTypes == [pc : {"idle", "fill", "poll", "reverse", "takeback", "ack", "nested"},
              ed : EDs \cup {NULL}, n : 0 .. NUM_TD, td_list_hc : TDs \cup {NULL},
              td_rev : Seq(TDs), stat : Codes]

LEMMA IdleType == Idle \in MainTypes
BY OhciAssumption, EmptySequence DEF Idle, MainTypes, Codes, OK

LEMMA FreeShape ==
    ASSUME Shape, NEW e \in EDs, Frees(mem, e, mem'), main' = Idle,
           e \notin Interrupt, main.ed = e,
           hc' \in HcTypes, disabled' \in BOOLEAN /\ givenUp' \subseteq TDs
    PROVE  Shape'
<1>0. TypeOK /\ mem \in Memory /\ Accounts(mem.td, mem.ed, mem.urb) /\ Place
  BY DEF Shape, TypeOK
<1>1. /\ mem' \in Memory /\ mem'.ed = mem.ed
      /\ \A d \in EDs : mem'.urb[d] = IF d = e THEN NoUrb ELSE mem.urb[d]
  BY DEF Frees
<1>2. TypeOK'
  <2>1. \A d \in EDs : mem'.urb[d].td_cnt <= Len(mem'.urb[d].td)
    BY <1>0, <1>1, EmptySequence DEF NoUrb, TypeOK
  <2>2. main' \in MainTypes
    BY IdleType
  <2> QED
    BY <1>1, <2>1, <2>2 DEF TypeOK, HcTypes, MainTypes
<1>5. Accounts(mem.td, mem.ed, mem.urb)'
  <2> DEFINE n == mem'
             m == mem
  <2>1. Frees(m, e, n) /\ m \in Memory /\ Accounts(m.td, m.ed, m.urb)
    BY <1>0
  <2> HIDE DEF n, m
  <2>2. Accounts(n.td, n.ed, n.urb)
    BY <2>1, FreeAccounts
  <2> QED
    BY <2>2 DEF n
<1>6. \A d \in EDs : UrbOf(d, mem.urb[d], mem.ed[d])'
  <2> SUFFICES ASSUME NEW d \in EDs PROVE UrbOf(d, mem'.urb[d], mem'.ed[d])
    OBVIOUS
  <2>1. UrbOf(d, mem.urb[d], mem.ed[d])
    BY DEF Shape
  <2>2. CASE d = e
    BY <1>1, <2>1, <2>2, EmptySequence DEF UrbOf, NoUrb
  <2>3. CASE d # e
    BY <1>1, <2>1, <2>3
  <2> QED
    BY <2>2, <2>3
<1>7. Place'
  BY <1>0, <1>1 DEF Place, Idle, NoUrb
<1> QED
  BY <1>2, <1>5, <1>6, <1>7 DEF Shape

(* A queue does not change with TDs that are not its own. *)
LEMMA QueueSame ==
    ASSUME NEW td, NEW td2, NEW e, NEW u, NEW d, NEW c, NEW k, NEW s, NEW h,
           Queue(td, e, u, d, c, k, s, h), Len(u.td) \in Nat,
           \A i \in 1 .. Len(u.td) : td2[u.td[i]] = td[u.td[i]]
    PROVE  Queue(td2, e, u, d, c, k, s, h)
<1>1. /\ Counts(u, c, k, s, h) /\ Ended(e, u, d)
      /\ Chained(td, e, u, d, c, h) /\ Halts(td, u, d, k, s, h)
  BY DEF Queue
<1>2. /\ c \in Nat /\ k \in Nat /\ s \in Nat /\ h \in Nat
      /\ k <= s /\ s <= c /\ c <= Len(u.td) /\ s + 1 <= h /\ h <= c + 1
  BY <1>1, CountFacts
<1>3. Chained(td2, e, u, d, c, h)
  <2>1. \A i \in 1 .. c : td2[u.td[i]].ed = e /\ td2[u.td[i]].index = i - 1
    BY <1>1, <1>2 DEF Chained
  <2>2. \A i \in h .. c : td2[u.td[i]].next = IF i = c THEN d.tail ELSE u.td[i + 1]
    <3>1. \A i \in h .. c : td2[u.td[i]] = td[u.td[i]]
      BY <1>2
    <3> QED
      BY <1>1, <3>1 DEF Chained
  <2> QED
    BY <1>1, <2>1, <2>2 DEF Chained
<1>4. Halts(td2, u, d, k, s, h)
  <2>1. \A i \in k + 1 .. s : td2[u.td[i]] = td[u.td[i]]
    BY <1>2
  <2>2. k < s => s \in k + 1 .. s
    BY <1>2
  <2> QED
    BY <1>1, <2>1, <2>2 DEF Halts
<1> QED
  BY <1>1, <1>3, <1>4 DEF Queue

(* Nor do the done lists. *)
LEMMA LinksSame ==
    ASSUME NEW td, NEW td2, NEW f, NEW lo, NEW mid, NEW fetched, NEW written, NEW hi,
           Ordered(lo, mid, fetched, written, hi),
           Links(td, f, lo, mid, fetched, written, hi),
           \A p \in lo + 1 .. hi : td2[f[p]] = td[f[p]]
    PROVE  Links(td2, f, lo, mid, fetched, written, hi)
<1>1. /\ lo + 1 .. mid \subseteq lo + 1 .. hi
      /\ fetched + 1 .. written \subseteq lo + 1 .. hi
      /\ written + 1 .. hi \subseteq lo + 1 .. hi
  BY DEF Ordered
<1>2. Linked(td2, f, lo, mid)
  BY <1>1 DEF Links, Linked
<1>3. Linked(td2, f, fetched, written)
  BY <1>1 DEF Links, Linked
<1>4. Linked(td2, f, written, hi)
  BY <1>1 DEF Links, Linked
<1> QED
  BY <1>2, <1>3, <1>4 DEF Links

LEMMA FreeStep ==
    ASSUME OhciInv, Going, NEW e \in EDs, main.ed = e, e \notin Interrupt,
           disabled' \in BOOLEAN, givenUp' = givenUp,
           mem.urb[e].finished, main.pc \in {"poll", "ack"},
           mem' = urb_free_priv(mem, e), main' = Idle, hc' \in HcTypes,
           hc'.done_head = hc.done_head, hc'.doneq = hc.doneq,
           hc'.wdh = hc.wdh \/ main.pc = "ack"
    PROVE  OhciInv'
<1>0. Shape /\ TypeOK /\ mem \in Memory /\ Accounts(mem.td, mem.ed, mem.urb)
  BY DEF OhciInv, Shape, TypeOK
<1>1. Shape'
  <2>1. Frees(mem, e, mem')
    BY <1>0, FreeEffect
  <2>2. givenUp' \subseteq TDs
    BY <1>0 DEF TypeOK
  <2> QED
    BY <1>0, <2>1, <2>2, FreeShape
<1>2. PICK f, lo, mid, fetched, written, hi, k, s, h :
          Witness(f, lo, mid, fetched, written, hi, k, s, h)
  BY WithWitness
<1>3. /\ Ordered(lo, mid, fetched, written, hi) /\ Pointers(f, lo, mid, fetched, written, hi)
      /\ Links(mem.td, f, lo, mid, fetched, written, hi)
      /\ Retired(mem.td, mem.urb, f, lo, hi, k, s)
      /\ Failed(mem.td, mem.ed, mem.urb, f, lo, mid, fetched, hi, h)
      /\ f \in [Nat -> TDs] /\ k \in [EDs -> Nat] /\ s \in [EDs -> Nat] /\ h \in [EDs -> Nat]
      /\ \A d \in EDs : Queue(mem.td, d, mem.urb[d], mem.ed[d], Filled(d), k[d], s[d], h[d])
  BY <1>2 DEF Witness, History
<1>4. lo = mid /\ mid = fetched
  BY <1>3, NothingFetched
<1>5. /\ mem' \in Memory /\ mem'.ed = mem.ed
      /\ \A t \in TDs : mem'.td[t] = IF t \in ToSet(mem.urb[e].td) THEN UnusedTd ELSE mem.td[t]
      /\ \A d \in EDs : mem'.urb[d] = IF d = e THEN NoUrb ELSE mem.urb[d]
  BY <1>0, FreeEffect
<1>6. \A d \in EDs : /\ mem.urb[d].td \in Seq(TDs) /\ Len(mem.urb[d].td) \in Nat
                     /\ Filled(d) = Len(mem.urb[d].td)
  BY <1>0, Types, InSequence DEF Filled
<1>7. k[e] = s[e] /\ h[e] = Len(mem.urb[e].td) + 1
  <2>1. mem.urb[e].td_cnt = Len(mem.urb[e].td)
    BY <1>3 DEF Queue, Ended
  <2> QED
    <3>1. PICK u, c, k1, s1, h1 :
              /\ u = mem.urb[e] /\ c = Filled(e) /\ k1 = k[e] /\ s1 = s[e] /\ h1 = h[e]
              /\ Counts(u, c, k1, s1, h1)
      BY <1>3 DEF Queue
    <3>2. u.td_cnt = Len(u.td) /\ Len(u.td) \in Nat
      BY <1>6, <2>1, <3>1
    <3>3. k1 = s1 /\ h1 = c + 1 /\ c = Len(u.td)
      BY <3>1, <3>2, AllCounted
    <3> QED
      BY <3>1, <3>3
<1> DEFINE k2 == [k EXCEPT ![e] = 0]
           s2 == [s EXCEPT ![e] = 0]
           h2 == [h EXCEPT ![e] = 1]
<1>8. /\ k2 \in [EDs -> Nat] /\ s2 \in [EDs -> Nat] /\ h2 \in [EDs -> Nat]
      /\ k2[e] = 0 /\ s2[e] = 0 /\ h2[e] = 1
      /\ \A d \in EDs : d # e => k2[d] = k[d] /\ s2[d] = s[d] /\ h2[d] = h[d]
  BY <1>3
<1> HIDE DEF k2, s2, h2
<1>9. \A d \in EDs : d # e => \A i \in 1 .. Len(mem.urb[d].td) :
          mem'.td[mem.urb[d].td[i]] = mem.td[mem.urb[d].td[i]]
  <2> SUFFICES ASSUME NEW d \in EDs, d # e, NEW i \in 1 .. Len(mem.urb[d].td)
               PROVE  mem'.td[mem.urb[d].td[i]] = mem.td[mem.urb[d].td[i]]
    OBVIOUS
  <2>1. mem.urb[d].td[i] \in ToSet(mem.urb[d].td) /\ mem.urb[d].td[i] \in TDs
    BY <1>6, InSequence
  <2>2. mem.urb[d].td[i] \notin ToSet(mem.urb[e].td)
    BY <1>0, <2>1 DEF Accounts
  <2> QED
    BY <1>5, <2>1, <2>2
<1>10. \A p \in lo + 1 .. hi : /\ mem.td[f[p]].ed \in EDs \ {e}
                               /\ mem'.td[f[p]] = mem.td[f[p]]
  <2> SUFFICES ASSUME NEW p \in lo + 1 .. hi
               PROVE  mem.td[f[p]].ed \in EDs \ {e} /\ mem'.td[f[p]] = mem.td[f[p]]
    OBVIOUS
  <2>0. PICK d, i : d = mem.td[f[p]].ed /\ i = mem.td[f[p]].index + 1
    OBVIOUS
  <2>1. d \in EDs /\ i \in k[d] + 1 .. s[d] /\ mem.urb[d].td[i] = f[p]
    BY <1>3, <2>0, RetiredWhere
  <2>2. d # e
    BY <1>3, <1>7, <2>1
  <2>3. i \in 1 .. Len(mem.urb[d].td)
    <3>1. Counts(mem.urb[d], Filled(d), k[d], s[d], h[d])
      BY <1>3, <2>1 DEF Queue
    <3>2. k[d] \in Nat /\ s[d] \in Nat /\ s[d] <= Len(mem.urb[d].td) /\ Len(mem.urb[d].td) \in Nat
      BY <1>6, <2>1, <3>1, CountFacts
    <3> QED
      BY <2>1, <3>2
  <2>4. mem'.td[mem.urb[d].td[i]] = mem.td[mem.urb[d].td[i]]
    BY <1>9, <2>1, <2>2, <2>3
  <2> QED
    BY <2>0, <2>1, <2>2, <2>4
<1>11. Pointers(f, lo, mid, fetched, written, hi)'
  <2>1. lo \in Nat /\ Newest(f, lo, mid) = NULL
    BY <1>3, <1>4 DEF Newest, Ordered
  <2>2. <<>> = [i \in 1 .. fetched - mid |-> f[mid + i]]
    BY <1>4, <2>1, NothingRead
  <2>3. hc'.done_head # NULL => hc'.wdh
    <3>1. main.pc = "ack" => hc.done_head = NULL
      BY <1>3 DEF Pointers, Newest, Ordered
    <3> QED
      BY <1>3, <3>1 DEF Pointers
  <2>4. ~(lo < mid) /\ ~(mid < fetched)
    BY <1>4, <2>1
  <2>5. hc.done_head = Newest(f, fetched, written) /\ hc.doneq = Newest(f, written, hi)
    BY <1>3 DEF Pointers
  <2> QED
    BY <2>1, <2>2, <2>3, <2>4, <2>5 DEF Pointers, Idle
<1>12. Links(mem.td, f, lo, mid, fetched, written, hi)'
  <2> DEFINE T == mem'.td
  <2>1. \A p \in lo + 1 .. hi : T[f[p]] = mem.td[f[p]]
    BY <1>10
  <2> HIDE DEF T
  <2>2. Links(T, f, lo, mid, fetched, written, hi)
    BY <1>3, <2>1, LinksSame
  <2> QED
    BY <2>2 DEF T
<1>13. (\A d \in EDs : Queue(mem.td, d, mem.urb[d], mem.ed[d], Filled(d), k2[d], s2[d], h2[d]))'
  <2> SUFFICES ASSUME NEW d \in EDs
               PROVE  Queue(mem'.td, d, mem'.urb[d], mem'.ed[d], Filled(d)', k2[d], s2[d], h2[d])
    OBVIOUS
  <2>1. CASE d # e
    <3>1. mem'.urb[d] = mem.urb[d] /\ Filled(d)' = Filled(d)
      BY <1>5, <1>6, <2>1 DEF Filled, Idle
    <3>2. Queue(mem.td, d, mem.urb[d], mem.ed[d], Filled(d), k[d], s[d], h[d])
      BY <1>3
    <3> DEFINE T == mem'.td
               c == Filled(d)
    <3>3. \A i \in 1 .. Len(mem.urb[d].td) : T[mem.urb[d].td[i]] = mem.td[mem.urb[d].td[i]]
      BY <1>9, <2>1
    <3> HIDE DEF T, c
    <3>4. Queue(T, d, mem.urb[d], mem.ed[d], c, k[d], s[d], h[d])
      BY <1>6, <3>2, <3>3, QueueSame DEF c
    <3> QED
      BY <1>5, <1>8, <2>1, <3>1, <3>4 DEF T, c
  <2>2. CASE d = e
    <3>1. mem'.urb[d] = NoUrb /\ Filled(d)' = 0
      BY <1>5, <2>2, EmptySequence DEF Filled, Idle, NoUrb
    <3>2. Chained(mem.td, d, mem.urb[d], mem.ed[d], Filled(d), h[d])
          /\ Halts(mem.td, mem.urb[d], mem.ed[d], k[d], s[d], h[d])
          /\ Ended(d, mem.urb[d], mem.ed[d])
      BY <1>3 DEF Queue
    <3>3. mem.ed[d].head = mem.ed[d].tail /\ ~mem.ed[d].halted /\ mem.ed[d].state # "OPER"
      <4>1. mem.ed[d].head = mem.ed[d].tail
        BY <1>6, <1>7, <2>2, <3>2 DEF Chained
      <4>2. ~mem.ed[d].halted
        <5>1. ~(k[d] < s[d])
          BY <1>3, <1>7, <2>2
        <5> QED
          BY <3>2, <5>1 DEF Halts
      <4>3. mem.ed[d].state # "OPER"
        BY <2>2, <3>2 DEF Ended
      <4> QED
        BY <4>1, <4>2, <4>3
    <3>4. Counts(NoUrb, 0, 0, 0, 1)
      BY EmptySequence DEF Counts, NoUrb
    <3>5. Chained(mem'.td, d, NoUrb, mem.ed[d], 0, 1)
      BY <3>3 DEF Chained
    <3>6. Halts(mem'.td, NoUrb, mem.ed[d], 0, 0, 1)
      BY <3>3 DEF Halts
    <3>7. Ended(d, NoUrb, mem.ed[d])
      BY <3>3 DEF Ended, NoUrb
    <3> QED
      BY <1>5, <1>8, <2>2, <3>1, <3>4, <3>5, <3>6, <3>7 DEF Queue
  <2> QED
    BY <2>1, <2>2
<1>14. Retired(mem.td, mem.urb, f, lo, hi, k2, s2)'
  <2>1. Located(mem'.td, mem'.urb, f, lo, hi, k2, s2)
    <3> SUFFICES ASSUME NEW p \in lo + 1 .. hi
                 PROVE  LET d == mem'.td[f[p]].ed
                            i == mem'.td[f[p]].index + 1
                        IN  d \in EDs /\ i \in k2[d] + 1 .. s2[d] /\ mem'.urb[d].td[i] = f[p]
      BY DEF Located
    <3>0. PICK d, i : d = mem.td[f[p]].ed /\ i = mem.td[f[p]].index + 1
      OBVIOUS
    <3>1. d \in EDs /\ i \in k[d] + 1 .. s[d] /\ mem.urb[d].td[i] = f[p]
      BY <1>3, <3>0, RetiredWhere
    <3>2. mem'.td[f[p]].ed = d /\ mem'.td[f[p]].index + 1 = i /\ d # e
      BY <1>10, <3>0
    <3>3. mem'.urb[d] = mem.urb[d] /\ k2[d] = k[d] /\ s2[d] = s[d]
      BY <1>5, <1>8, <3>1, <3>2
    <3> QED
      BY <3>1, <3>2, <3>3
  <2>2. InTurn(mem'.td, f, lo, hi)
    <3>1. InTurn(mem.td, f, lo, hi)
      BY <1>3 DEF Retired
    <3>2. \A p \in lo + 1 .. hi : mem'.td[f[p]] = mem.td[f[p]]
      BY <1>10
    <3> QED
      BY <3>1, <3>2, InTurnSame
  <2>3. Covered(mem'.urb, f, lo, hi, k2, s2)
    <3> SUFFICES ASSUME NEW d \in EDs, NEW i \in k2[d] + 1 .. s2[d]
                 PROVE  \E p \in lo + 1 .. hi : f[p] = mem'.urb[d].td[i]
      BY DEF Covered
    <3>1. d # e
      BY <1>8
    <3>2. mem'.urb[d] = mem.urb[d] /\ k2[d] = k[d] /\ s2[d] = s[d]
      BY <1>5, <1>8, <3>1
    <3> QED
      BY <1>3, <3>2, RetiredAll
  <2> QED
    BY <2>1, <2>2, <2>3 DEF Retired
<1>15. Failed(mem.td, mem.ed, mem.urb, f, lo, mid, fetched, hi, h2)'
  <2> SUFFICES ASSUME NEW p \in lo + 1 .. hi, mem'.td[f[p]].cc # OK
               PROVE  LET d == mem'.td[f[p]].ed
                      IN  IF p \in mid + 1 .. fetched
                          THEN ~mem'.ed[d].halted /\ h2[d] = Len(mem'.urb[d].td) + 1
                          ELSE mem'.ed[d].halted
    BY DEF Failed
  <2>1. p \notin mid + 1 .. fetched
    BY <1>3, <1>4 DEF Ordered
  <2> QED
    BY <1>3, <1>5, <1>10, <2>1 DEF Failed
<1>17. Witness(f, lo, mid, fetched, written, hi, k2, s2, h2)'
  BY <1>3, <1>8, <1>11, <1>12, <1>13, <1>14, <1>15 DEF Witness, History
<1> QED
  BY <1>1, <1>17, Witnessed

(* Between transfers no control or bulk URB is left. *)
LEMMA FinishedIdle ==
    ASSUME Shape', main' = Idle
    PROVE  FinishedMeansDone'
<1> SUFFICES ASSUME NEW e \in Control \cup Bulk PROVE ~mem'.urb[e].finished
  BY DEF FinishedMeansDone
<1>1. e \in EDs /\ e \notin Interrupt
  BY OhciAssumption DEF EDs
<1>2. main'.ed # e
  BY <1>1, TdNumbers DEF Idle
<1>3. ~mem'.urb[e].live
  BY <1>1, <1>2 DEF Shape, Place
<1>4. mem'.urb[e] = NoUrb
  BY <1>1, <1>3 DEF Shape, UrbOf
<1> QED
  BY <1>4 DEF NoUrb

(* A transfer is given up: the TDs that are free and in flight are its own. *)
LEMMA GiveUpStep ==
    ASSUME OhciInv, Going, NEW e \in EDs, main.ed = e, e \notin Interrupt,
           main.pc \in {"poll", "ack"},
           mem' = urb_free_queued(mem, e), givenUp' = ToSet(mem.urb[e].td), main' = Idle,
           hc' \in HcTypes, hc'.done_head = hc.done_head, hc'.doneq = hc.doneq,
           disabled' \in BOOLEAN
    PROVE  OhciInv' /\ Safe'
<1>0. /\ Shape /\ TypeOK /\ mem \in Memory /\ Place /\ mem.urb[e].live
      /\ Accounts(mem.td, mem.ed, mem.urb)
  BY DEF OhciInv, Shape, TypeOK, Place
<1>1. /\ Frees(mem, e, mem')
      /\ \A t \in TDs : mem'.td[t].next = mem.td[t].next /\ mem'.td[t].ed = mem.td[t].ed
  BY <1>0, QueuedEffect
<1>2. mem.urb[e].td \in Seq(TDs) /\ Len(mem.urb[e].td) \in 1 .. NUM_TD
  <2>1. UrbOf(e, mem.urb[e], mem.ed[e])
    BY <1>0 DEF Shape
  <2> QED
    BY <1>0, <2>1, Types DEF UrbOf
<1>3. PICK t0 \in TDs : t0 \in ToSet(mem.urb[e].td) /\ t0 = mem.urb[e].td[1]
  <2>1. 1 \in 1 .. Len(mem.urb[e].td)
    BY <1>2
  <2> QED
    BY <1>2, <2>1, InSequence
<1>4. givenUp' \subseteq TDs /\ t0 \in givenUp'
  BY <1>2, <1>3, InSequence
<1>5. Shape'
  BY <1>0, <1>1, <1>4, FreeShape
<1>6. OhciInv'
  <2>1. ~Going'
    BY <1>4 DEF Going
  <2> QED
    BY <1>5, <2>1 DEF OhciInv
<1>7. mem'.ed = mem.ed
  BY <1>1 DEF Frees
<1>8. InFlight' = InFlight /\ Dummies' = Dummies
  <2>1. \A x \in TDs : mem.td[x].next \in TDs \cup {NULL}
    BY <1>0, Types
  <2> DEFINE td == mem.td
             te == mem'.td
  <2>2. \A x \in TDs : td[x].next \in TDs \cup {NULL} /\ te[x].next = td[x].next
    BY <1>1, <2>1
  <2>3. \A d \in EDs : mem.ed[d].head \in TDs \cup {NULL}
    BY <1>0, Types
  <2>4. hc.doneq \in TDs \cup {NULL} /\ hc.done_head \in TDs \cup {NULL}
    BY <1>0 DEF TypeOK
  <2> HIDE DEF td, te
  <2>5. ASSUME NEW t \in TDs \cup {NULL}, NEW stop
        PROVE  Reached(te, t, stop) = Reached(td, t, stop)
    <3>1. SameNext(td, te)
      BY <2>2 DEF SameNext
    <3> QED
      BY <2>5, <3>1, SameReached
  <2>6. \A d \in EDs : Reached(te, mem.ed[d].head, mem.ed[d].tail)
                         = Reached(td, mem.ed[d].head, mem.ed[d].tail)
    BY <2>3, <2>5
  <2>7. /\ Reached(te, hc.doneq, NULL) = Reached(td, hc.doneq, NULL)
        /\ Reached(te, hc.done_head, NULL) = Reached(td, hc.done_head, NULL)
    BY <2>4, <2>5
  <2>8. InFlight' = (UNION {Reached(te, mem.ed[d].head, mem.ed[d].tail) : d \in EDs})
                       \cup Reached(te, hc.doneq, NULL) \cup Reached(te, hc.done_head, NULL)
    BY <1>7 DEF InFlight, te
  <2>9. InFlight = (UNION {Reached(td, mem.ed[d].head, mem.ed[d].tail) : d \in EDs})
                       \cup Reached(td, hc.doneq, NULL) \cup Reached(td, hc.done_head, NULL)
    BY DEF InFlight, td
  <2>10. {Reached(te, mem.ed[d].head, mem.ed[d].tail) : d \in EDs}
           = {Reached(td, mem.ed[d].head, mem.ed[d].tail) : d \in EDs}
    BY <2>6
  <2>11. Dummies' = Dummies
    BY <1>7 DEF Dummies
  <2> QED
    BY <2>7, <2>8, <2>9, <2>10, <2>11
<1>9. NoFreeTdInFlight'
  <2> SUFFICES ASSUME NEW x \in InFlight \cup Dummies
               PROVE  mem'.td[x].used \/ x \in givenUp'
    BY <1>8 DEF NoFreeTdInFlight
  <2>1. mem.td[x].used /\ x \in TDs
    BY UsedInInv
  <2> QED
    BY <1>1, <2>1 DEF Frees
<1>10. FinishedMeansDone'
  BY <1>5, FinishedIdle
<1>11. QuietWhenIdle'
  <2> SUFFICES ASSUME NEW d \in EDs \ Interrupt
               PROVE  \/ \E t \in givenUp' : mem'.td[t].ed = d
                      \/ /\ mem'.ed[d].state # "OPER"
                         /\ ~mem'.ed[d].halted /\ mem'.ed[d].head = mem'.ed[d].tail
    BY DEF QuietWhenIdle
  <2>1. CASE d = e
    <3>1. mem.td[t0].ed = e
      BY <1>2, <1>3, OwnTd
    <3> QED
      BY <1>1, <1>3, <1>4, <2>1, <3>1
  <2>2. CASE d # e
    <3>1. ~mem.urb[d].live
      BY <1>0, <2>2 DEF Place
    <3> QED
      BY <1>7, <3>1, QuietQueue
  <2> QED
    BY <2>1, <2>2
<1> QED
  BY <1>6, <1>9, <1>10, <1>11 DEF Safe

LEMMA ReturnsStep ==
    ASSUME OhciInv, Returns, main.pc \in {"poll", "ack"},
           hc' \in HcTypes, disabled' \in BOOLEAN,
           hc'.done_head = hc.done_head, hc'.doneq = hc.doneq,
           (hc'.wdh = hc.wdh) \/ main.pc = "ack"
    PROVE  OhciInv' /\ (Going' \/ Safe')
<1>0. Shape /\ TypeOK /\ Place
  BY DEF OhciInv, Shape
<1>1. Going /\ main.ed \in EDs /\ main' = Idle
  BY <1>0 DEF Place, Returns, Going
<1>2. main'.pc = "idle" /\ main'.td_list_hc = NULL /\ main'.td_rev = <<>> /\ main' \in MainTypes
  BY <1>1, IdleType DEF Idle
<1> DEFINE e == main.ed
<1>3. e \in EDs /\ main.ed = e
  BY <1>1
<1> HIDE DEF e
<1>4. ASSUME OhciInv', givenUp' = givenUp PROVE Going' \/ Safe'
  <2>1. CASE disabled'
    <3>1. FinishedMeansDone'
      BY <1>1, <1>4, FinishedIdle DEF OhciInv
    <3> QED
      BY <2>1, <3>1 DEF Safe, NoFreeTdInFlight, QuietWhenIdle
  <2>2. CASE ~disabled'
    BY <1>1, <1>2, <1>4, <2>2 DEF Going
  <2> QED
    BY <2>1, <2>2
<1>5. CASE e \in Interrupt
  <2>1. mem' = mem /\ givenUp' = givenUp
    BY <1>3, <1>5 DEF Returns
  <2>2. Place'
    BY <1>0, <1>1, <1>3, <1>5, <2>1 DEF Place, Idle
  <2>3. givenUp' \subseteq TDs
    BY <1>0, <2>1 DEF TypeOK
  <2>4. Shape'
    BY <1>0, <1>2, <2>1, <2>2, <2>3, ShapeSame DEF HcTypes, MainTypes
  <2>5. OhciInv'
    BY <1>1, <1>2, <2>1, <2>4, PlaceChange
  <2> QED
    BY <1>4, <2>1, <2>5
<1>6. CASE e \notin Interrupt /\ mem.urb[e].finished
  <2>1. mem' = urb_free_priv(mem, e) /\ givenUp' = givenUp
    BY <1>3, <1>6 DEF Returns
  <2>2. OhciInv'
    BY <1>1, <1>3, <1>6, <2>1, FreeStep
  <2> QED
    BY <1>4, <2>1, <2>2
<1>7. CASE e \notin Interrupt /\ ~mem.urb[e].finished
  <2>1. mem' = urb_free_queued(mem, e) /\ givenUp' = ToSet(mem.urb[e].td)
    BY <1>3, <1>7 DEF Returns
  <2> QED
    BY <1>1, <1>3, <1>7, <2>1, GiveUpStep
<1> QED
  BY <1>5, <1>6, <1>7

LEMMA PollAckStep == OhciInv /\ PollAck => OhciInv' /\ (Going' \/ Safe')
<1> SUFFICES ASSUME OhciInv, PollAck PROVE OhciInv' /\ (Going' \/ Safe')
  OBVIOUS
<1>0. Shape /\ TypeOK /\ Place /\ main.pc = "ack" /\ disabled' = disabled
  BY DEF OhciInv, Shape, PollAck
<1>1. Going /\ main.ed \in EDs
  BY <1>0 DEF Place, Going
<1>2. /\ hc' \in HcTypes /\ hc'.done_head = hc.done_head /\ hc'.doneq = hc.doneq
  BY <1>0 DEF PollAck, TypeOK, HcTypes
<1>3. CASE Returns
  BY <1>0, <1>2, <1>3, ReturnsStep DEF TypeOK
<1>4. CASE main' = [main EXCEPT !.pc = "poll", !.stat = OK] /\ UNCHANGED <<mem, givenUp>>
  <2>1. mem' = mem /\ givenUp' = givenUp /\ main' = [main EXCEPT !.pc = "poll", !.stat = OK]
    BY <1>4
  <2>2. /\ main' \in MainTypes
        /\ main'.pc = "poll" /\ main'.td_list_hc = main.td_list_hc
        /\ main'.td_rev = main.td_rev /\ main'.ed = main.ed
    BY <1>0, <2>1 DEF TypeOK, MainTypes, Codes
  <2>3. main.td_list_hc = NULL /\ main.td_rev = <<>>
    <3>1. PICK f, lo, mid, fetched, written, hi, k, s, h :
              Witness(f, lo, mid, fetched, written, hi, k, s, h)
      BY <1>1, WithWitness
    <3> QED
      BY <1>0, <3>1, NothingFetched DEF Witness, History
  <2>4. Shape'
    <3>1. Place'
      BY <1>0, <2>1, <2>2 DEF Place
    <3> QED
      BY <1>0, <1>2, <2>1, <2>2, <3>1, ShapeSame DEF HcTypes, MainTypes, TypeOK
  <2>5. Going'
    BY <1>0, <1>1, <2>1, <2>2 DEF Going
  <2> QED
    BY <1>0, <1>1, <1>2, <2>1, <2>2, <2>3, <2>4, <2>5, PlaceChange
<1> QED
  BY <1>3, <1>4 DEF PollAck

LEMMA PollEndStep == OhciInv /\ (PollUnrecoverable \/ PollTimeout) => OhciInv' /\ (Going' \/ Safe')
<1> SUFFICES ASSUME OhciInv, PollUnrecoverable \/ PollTimeout PROVE OhciInv' /\ (Going' \/ Safe')
  OBVIOUS
<1>0. TypeOK /\ Returns /\ main.pc = "poll" /\ hc' = hc
  BY DEF OhciInv, Shape, PollUnrecoverable, PollTimeout
<1>1. hc' \in HcTypes /\ disabled' \in BOOLEAN
  BY <1>0 DEF TypeOK, HcTypes, PollUnrecoverable, PollTimeout
<1> QED
  BY <1>0, <1>1, ReturnsStep

-----------------------------------------------------------------------------
(* The controller retires a TD. *)
LEMMA RetireEffect ==
    ASSUME TypeOK, NEW e \in EDs, HcRetire(e)
    PROVE  \E cc \in Codes :
              /\ mem.ed[e].head \in TDs
              /\ mem' \in Memory /\ mem'.urb = mem.urb
              /\ \A x \in TDs : x # mem.ed[e].head => mem'.td[x] = mem.td[x]
              /\ mem'.td[mem.ed[e].head] = [mem.td[mem.ed[e].head] EXCEPT !.cc = cc, !.next = hc.doneq]
              /\ \A d \in EDs : d # e => mem'.ed[d] = mem.ed[d]
              /\ mem'.ed[e] = [mem.ed[e] EXCEPT !.head = mem.td[mem.ed[e].head].next,
                                                !.halted = cc # OK]
<1> DEFINE t == mem.ed[e].head
<1>1. PICK cc \in Codes :
          mem' = [mem EXCEPT !.td[t].cc = cc, !.td[t].next = hc.doneq,
                             !.ed[e].head = mem.td[t].next, !.ed[e].halted = cc # OK]
  BY DEF HcRetire
<1>2. cc \in Codes
  BY <1>1
<1>3. mem \in Memory /\ t \in TDs /\ mem.td[t].next \in TDs \cup {NULL} /\ hc.doneq \in TDs \cup {NULL}
  BY Types DEF HcRetire, TypeOK
<1> HIDE DEF t
<1>4. mem.td \in [TDs -> Td] /\ mem.ed \in [EDs -> Ed] /\ mem.urb \in [EDs -> Urb]
  BY <1>3 DEF Memory
<1> DEFINE r == [mem.td[t] EXCEPT !.cc = cc, !.next = hc.doneq]
           q == [mem.ed[e] EXCEPT !.head = mem.td[t].next, !.halted = cc # OK]
<1>5. r \in Td /\ q \in Ed
  <2>1. mem.td[t] \in Td /\ mem.ed[e] \in Ed
    BY <1>3, <1>4
  <2>2. (cc # OK) \in BOOLEAN
    OBVIOUS
  <2> QED
    BY <1>2, <1>3, <2>1, <2>2 DEF Td, Ed
<1>6. mem'.td = [mem.td EXCEPT ![t] = r] /\ mem'.ed = [mem.ed EXCEPT ![e] = q] /\ mem'.urb = mem.urb
  BY <1>1, <1>3, <1>4 DEF Memory
<1>7. mem' = [td |-> [mem.td EXCEPT ![t] = r], ed |-> [mem.ed EXCEPT ![e] = q], urb |-> mem.urb]
  BY <1>1, <1>3, <1>4 DEF Memory
<1> HIDE DEF r, q
<1>8. mem' \in Memory
  <2>1. [mem.td EXCEPT ![t] = r] \in [TDs -> Td] /\ [mem.ed EXCEPT ![e] = q] \in [EDs -> Ed]
    BY <1>4, <1>5
  <2> QED
    BY <1>4, <1>7, <2>1 DEF Memory
<1>9. /\ mem'.td[t] = r /\ \A x \in TDs : x # t => mem'.td[x] = mem.td[x]
      /\ mem'.ed[e] = q /\ \A d \in EDs : d # e => mem'.ed[d] = mem.ed[d]
  BY <1>3, <1>4, <1>6
<1> QED
  BY <1>2, <1>3, <1>6, <1>8, <1>9 DEF t, r, q

LEMMA RetiredCounts ==
    ASSUME NEW u, NEW c, NEW k, NEW s, NEW n, Counts(u, c, k, s, n), n = s + 1, n <= c
    PROVE  Counts(u, c, k, n, n + 1)
BY DEF Counts

(* The TD retired is the next of the URB, and none of it has failed. *)
LEMMA RetiredNext ==
    ASSUME Shape, NEW f, NEW lo, NEW mid, NEW fetched, NEW written, NEW hi, NEW k, NEW s, NEW h,
           Witness(f, lo, mid, fetched, written, hi, k, s, h),
           NEW e \in EDs, mem.ed[e].head # mem.ed[e].tail, ~mem.ed[e].halted
    PROVE  /\ h[e] = s[e] + 1 /\ h[e] \in 1 .. Filled(e) /\ h[e] \in 1 .. Len(mem.urb[e].td)
           /\ mem.ed[e].head = mem.urb[e].td[h[e]]
           /\ mem.td[mem.ed[e].head].ed = e /\ mem.td[mem.ed[e].head].index + 1 = h[e]
           /\ mem.td[mem.ed[e].head].next =
                 IF h[e] = Filled(e) THEN mem.ed[e].tail ELSE mem.urb[e].td[h[e] + 1]
           /\ \A i \in k[e] + 1 .. s[e] : mem.td[mem.urb[e].td[i]].cc = OK
<1> DEFINE u == mem.urb[e]
           c == Filled(e)
<1>1. Queue(mem.td, e, u, mem.ed[e], c, k[e], s[e], h[e])
  BY DEF Witness, History
<1>2. Len(u.td) \in Nat /\ u.td \in Seq(TDs)
  BY Types, InSequence DEF Shape
<1>3. /\ c \in Nat /\ k[e] \in Nat /\ s[e] \in Nat /\ h[e] \in Nat
      /\ k[e] <= s[e] /\ s[e] <= c /\ c <= Len(u.td) /\ s[e] + 1 <= h[e] /\ h[e] <= c + 1
      /\ h[e] = s[e] + 1 \/ h[e] = c + 1
  BY <1>1, CountFacts DEF Queue, Counts
<1>4. /\ \A i \in 1 .. c : mem.td[u.td[i]].ed = e /\ mem.td[u.td[i]].index = i - 1
      /\ \A i \in h[e] .. c : mem.td[u.td[i]].next = IF i = c THEN mem.ed[e].tail ELSE u.td[i + 1]
      /\ mem.ed[e].head = IF h[e] = c + 1 THEN mem.ed[e].tail ELSE u.td[h[e]]
  BY <1>1 DEF Queue, Chained
<1> HIDE DEF c
<1>5. h[e] # c + 1 /\ h[e] = s[e] + 1
  BY <1>3, <1>4
<1>6. h[e] \in 1 .. c /\ h[e] \in h[e] .. c /\ h[e] \in 1 .. Len(u.td)
  BY <1>2, <1>3, <1>5
<1>7. mem.ed[e].head = u.td[h[e]]
  BY <1>4, <1>5
<1>8. \A i \in k[e] + 1 .. s[e] : mem.td[u.td[i]].cc = OK
  <2> SUFFICES ASSUME NEW i \in k[e] + 1 .. s[e], mem.td[u.td[i]].cc # OK PROVE FALSE
    OBVIOUS
  <2>1. PICK p \in lo + 1 .. hi : f[p] = u.td[i]
    <3>1. Retired(mem.td, mem.urb, f, lo, hi, k, s)
      BY DEF Witness, History
    <3> QED
      BY <3>1, RetiredAll
  <2>2. i \in 1 .. c
    BY <1>3
  <2>3. mem.td[f[p]].ed = e /\ mem.td[f[p]].cc # OK
    BY <1>4, <2>1, <2>2
  <2>4. mem.ed[e].halted \/ h[e] = Len(u.td) + 1
    BY <2>3 DEF Witness, History, Failed
  <2> QED
    BY <1>2, <1>6, <2>4
<1>9. (h[e] - 1) + 1 = h[e]
  BY <1>3
<1> QED
  BY <1>4, <1>5, <1>6, <1>7, <1>8, <1>9 DEF c

LEMMA RetireShape ==
    ASSUME Shape, NEW e \in EDs, HcRetire(e)
    PROVE  Shape'
<1> DEFINE t == mem.ed[e].head
<1>0. TypeOK /\ Place /\ Accounts(mem.td, mem.ed, mem.urb)
  BY DEF Shape
<1>1. PICK cc \in Codes :
              /\ t \in TDs
              /\ mem' \in Memory /\ mem'.urb = mem.urb
              /\ \A x \in TDs : x # t => mem'.td[x] = mem.td[x]
              /\ mem'.td[t] = [mem.td[t] EXCEPT !.cc = cc, !.next = hc.doneq]
              /\ \A d \in EDs : d # e => mem'.ed[d] = mem.ed[d]
              /\ mem'.ed[e] = [mem.ed[e] EXCEPT !.head = mem.td[t].next, !.halted = cc # OK]
  BY <1>0, RetireEffect
<1>2. mem.td[t] \in Td /\ mem.ed[e] \in Ed /\ mem.td \in [TDs -> Td] /\ mem.ed \in [EDs -> Ed]
  BY <1>0, <1>1 DEF TypeOK, Memory
<1> HIDE DEF t
<1>3. mem'.td[t].used = mem.td[t].used
  BY <1>1, <1>2 DEF Td
<1>4. \A x \in TDs : mem'.td[x].used = mem.td[x].used
  BY <1>1, <1>3
<1>5. mem'.ed[e].tail = mem.ed[e].tail /\ mem'.ed[e].state = mem.ed[e].state
  BY <1>1, <1>2 DEF Ed
<1>6. \A d \in EDs : mem'.ed[d].tail = mem.ed[d].tail /\ mem'.ed[d].state = mem.ed[d].state
  BY <1>1, <1>5
<1>7. TypeOK'
  BY <1>0, <1>1 DEF TypeOK, HcRetire, t
<1>8. Accounts(mem.td, mem.ed, mem.urb)'
  BY <1>0, <1>1, <1>4, <1>6 DEF Accounts
<1>9. (\A d \in EDs : UrbOf(d, mem.urb[d], mem.ed[d]))'
  BY <1>1, <1>6 DEF Shape, UrbOf
<1>10. Place'
  BY <1>0, <1>1 DEF Place, HcRetire
<1> QED
  BY <1>7, <1>8, <1>9, <1>10 DEF Shape

(* A TD retired is in its URB. *)
LEMMA RetiredTd ==
    ASSUME Shape, NEW f, NEW lo, NEW mid, NEW fetched, NEW written, NEW hi, NEW k, NEW s, NEW h,
           Witness(f, lo, mid, fetched, written, hi, k, s, h),
           NEW p \in lo + 1 .. hi
    PROVE  \E d \in EDs : \E i \in k[d] + 1 .. s[d] :
              /\ mem.td[f[p]].ed = d /\ mem.td[f[p]].index + 1 = i
              /\ mem.urb[d].td[i] = f[p]
              /\ i \in 1 .. Len(mem.urb[d].td) /\ i \in 1 .. Filled(d)
              /\ f[p] \in TDs /\ f[p] \in ToSet(mem.urb[d].td)
<1>0. PICK d, i : d = mem.td[f[p]].ed /\ i = mem.td[f[p]].index + 1
  OBVIOUS
<1>1. d \in EDs /\ i \in k[d] + 1 .. s[d] /\ mem.urb[d].td[i] = f[p]
  <2>1. Retired(mem.td, mem.urb, f, lo, hi, k, s)
    BY DEF Witness, History
  <2> QED
    BY <1>0, <2>1, RetiredWhere
<1>2. Len(mem.urb[d].td) \in Nat /\ mem.urb[d].td \in Seq(TDs)
  BY <1>1, Types, InSequence DEF Shape
<1>3. k[d] \in Nat /\ s[d] \in Nat /\ s[d] <= Filled(d) /\ Filled(d) <= Len(mem.urb[d].td)
      /\ Filled(d) \in Nat
  BY <1>1, CountFacts DEF Witness, History, Queue
<1>4. i \in 1 .. Len(mem.urb[d].td) /\ i \in 1 .. Filled(d)
  BY <1>1, <1>2, <1>3
<1>5. f[p] \in TDs /\ f[p] \in ToSet(mem.urb[d].td)
  BY <1>1, <1>2, <1>4, InSequence
<1> QED
  BY <1>0, <1>1, <1>4, <1>5

LEMMA RetireStep == \A e \in EDs : OhciInv /\ HcRetire(e) => OhciInv'
<1> SUFFICES ASSUME NEW e \in EDs, OhciInv, HcRetire(e) PROVE OhciInv'
  OBVIOUS
<1>0. Shape /\ TypeOK /\ Place /\ Accounts(mem.td, mem.ed, mem.urb) /\ Going
  BY DEF OhciInv, Shape, HcRetire
<1>1. Shape'
  BY <1>0, RetireShape
<1>2. PICK f, lo, mid, fetched, written, hi, k, s, h :
          Witness(f, lo, mid, fetched, written, hi, k, s, h)
  BY <1>0, WithWitness
<1>3. /\ Ordered(lo, mid, fetched, written, hi) /\ Pointers(f, lo, mid, fetched, written, hi)
      /\ Links(mem.td, f, lo, mid, fetched, written, hi)
      /\ Retired(mem.td, mem.urb, f, lo, hi, k, s)
      /\ Failed(mem.td, mem.ed, mem.urb, f, lo, mid, fetched, hi, h)
      /\ f \in [Nat -> TDs] /\ k \in [EDs -> Nat] /\ s \in [EDs -> Nat] /\ h \in [EDs -> Nat]
      /\ \A d \in EDs : Queue(mem.td, d, mem.urb[d], mem.ed[d], Filled(d), k[d], s[d], h[d])
  BY <1>2 DEF Witness, History
<1> DEFINE hd == mem.ed[e].head
           n == h[e]
           u == mem.urb[e]
           c == Filled(e)
<1>30. PICK cc \in Codes :
          /\ hd \in TDs
          /\ mem' \in Memory /\ mem'.urb = mem.urb
          /\ \A x \in TDs : x # hd => mem'.td[x] = mem.td[x]
          /\ mem'.td[hd] = [mem.td[hd] EXCEPT !.cc = cc, !.next = hc.doneq]
          /\ \A d \in EDs : d # e => mem'.ed[d] = mem.ed[d]
          /\ mem'.ed[e] = [mem.ed[e] EXCEPT !.head = mem.td[hd].next, !.halted = cc # OK]
  BY <1>0, RetireEffect
<1>31. /\ n = s[e] + 1 /\ n \in 1 .. c /\ n \in 1 .. Len(u.td)
       /\ hd = u.td[n] /\ mem.td[hd].ed = e /\ mem.td[hd].index + 1 = n
       /\ mem.td[hd].next = IF n = c THEN mem.ed[e].tail ELSE u.td[n + 1]
       /\ \A i \in k[e] + 1 .. s[e] : mem.td[u.td[i]].cc = OK
  <2>1. mem.ed[e].head # mem.ed[e].tail /\ ~mem.ed[e].halted
    BY DEF HcRetire
  <2> QED
    BY <1>0, <1>2, <2>1, RetiredNext
<1>32. hc'.doneq = hd
  BY <1>0 DEF HcRetire, TypeOK
<1> HIDE DEF hd
<1>33. PICK t \in TDs : t = hd
  BY <1>30
<1>4. /\ mem' \in Memory /\ mem'.urb = mem.urb
      /\ \A x \in TDs : x # t => mem'.td[x] = mem.td[x]
      /\ mem'.td[t] = [mem.td[t] EXCEPT !.cc = cc, !.next = hc.doneq]
      /\ \A d \in EDs : d # e => mem'.ed[d] = mem.ed[d]
      /\ mem'.ed[e] = [mem.ed[e] EXCEPT !.head = mem.td[t].next, !.halted = cc # OK]
  BY <1>30, <1>33
<1>5. /\ t = u.td[n] /\ mem.td[t].ed = e /\ mem.td[t].index + 1 = n
      /\ mem.td[t].next = IF n = c THEN mem.ed[e].tail ELSE u.td[n + 1]
      /\ \A i \in k[e] + 1 .. s[e] : mem.td[u.td[i]].cc = OK
  BY <1>31, <1>33
<1>6. mem.td[t] \in Td /\ mem.ed[e] \in Ed
  BY <1>0, <1>4 DEF TypeOK, Memory
<1>7. /\ mem'.td[t].cc = cc /\ mem'.td[t].next = hc.doneq
      /\ mem'.td[t].ed = mem.td[t].ed /\ mem'.td[t].index = mem.td[t].index
  BY <1>4, <1>6 DEF Td
<1>8. /\ mem'.ed[e].head = mem.td[t].next /\ (mem'.ed[e].halted <=> cc # OK)
      /\ mem'.ed[e].tail = mem.ed[e].tail /\ mem'.ed[e].state = mem.ed[e].state
  BY <1>4, <1>6 DEF Ed
<1>9. n = s[e] + 1 /\ n \in 1 .. c /\ n \in 1 .. Len(u.td) /\ t = u.td[n]
  BY <1>31, <1>33
<1>10. /\ hc'.doneq = t /\ hc'.done_head = hc.done_head /\ hc'.wdh = hc.wdh
       /\ main' = main /\ disabled' = disabled /\ givenUp' = givenUp
  BY <1>0, <1>32, <1>33 DEF HcRetire, TypeOK
<1>11. \A d : Filled(d)' = Filled(d)
  BY <1>4, <1>5, <1>10 DEF Filled
<1>12. \A d \in EDs : Len(mem.urb[d].td) \in Nat /\ mem.urb[d].td \in Seq(TDs)
  BY <1>0, Types, InSequence
<1>13. t \in ToSet(u.td)
  <2>1. u.td \in Seq(TDs)
    BY <1>12
  <2> QED
    BY <1>9, <2>1, InSequence
<1>14. \A d \in EDs : d # e => \A i \in 1 .. Len(mem.urb[d].td) :
          mem'.td[mem.urb[d].td[i]] = mem.td[mem.urb[d].td[i]]
  <2> SUFFICES ASSUME NEW d \in EDs, d # e, NEW i \in 1 .. Len(mem.urb[d].td)
               PROVE  mem'.td[mem.urb[d].td[i]] = mem.td[mem.urb[d].td[i]]
    OBVIOUS
  <2>1. mem.urb[d].td[i] \in ToSet(mem.urb[d].td) /\ mem.urb[d].td[i] \in TDs
    BY <1>12, InSequence
  <2>2. mem.urb[d].td[i] # t
    BY <1>0, <1>13, <2>1, AccountsApart
  <2> QED
    BY <1>4, <1>5, <2>1, <2>2
<1>15. \A i \in 1 .. Len(u.td) : i # n => u.td[i] # t /\ mem'.td[u.td[i]] = mem.td[u.td[i]]
  <2> SUFFICES ASSUME NEW i \in 1 .. Len(u.td), i # n
               PROVE  u.td[i] # t /\ mem'.td[u.td[i]] = mem.td[u.td[i]]
    OBVIOUS
  <2>1. u.td[i] \in TDs
    BY <1>12, InSequence
  <2>2. u.td[i] # t
    BY <1>0, <1>9, ShapeOnce
  <2> QED
    BY <1>4, <1>5, <2>1, <2>2
<1>16. \A p \in lo + 1 .. hi : f[p] # t /\ mem'.td[f[p]] = mem.td[f[p]]
  <2> SUFFICES ASSUME NEW p \in lo + 1 .. hi PROVE f[p] # t /\ mem'.td[f[p]] = mem.td[f[p]]
    OBVIOUS
  <2>0. PICK d \in EDs : \E i \in k[d] + 1 .. s[d] :
              /\ mem.urb[d].td[i] = f[p] /\ i \in 1 .. Len(mem.urb[d].td)
              /\ f[p] \in TDs /\ f[p] \in ToSet(mem.urb[d].td)
    BY <1>0, <1>2, RetiredTd
  <2>1. PICK i \in k[d] + 1 .. s[d] :
              /\ mem.urb[d].td[i] = f[p] /\ i \in 1 .. Len(mem.urb[d].td)
              /\ f[p] \in TDs /\ f[p] \in ToSet(mem.urb[d].td)
    BY <2>0
  <2>2. f[p] # t
    <3>1. CASE d # e
      BY <1>0, <1>13, <2>1, <3>1 DEF Accounts
    <3>2. CASE d = e
      <4>0. k[e] \in Nat /\ s[e] \in Nat
        BY <1>3
      <4>1. i # n
        BY <1>9, <2>1, <3>2, <4>0
      <4> QED
        BY <1>15, <2>1, <3>2, <4>1
    <3> QED
      BY <3>1, <3>2
  <2> QED
    BY <1>4, <1>5, <2>1, <2>2
<1> DEFINE f2 == [f EXCEPT ![hi + 1] = t]
           s2 == [s EXCEPT ![e] = n]
           h2 == [h EXCEPT ![e] = n + 1]
<1>17. lo \in Nat /\ mid \in Nat /\ fetched \in Nat /\ written \in Nat /\ hi \in Nat /\ hi + 1 \in Nat
       /\ lo <= mid /\ mid <= fetched /\ fetched <= written /\ written <= hi
  BY <1>3 DEF Ordered
<1>18. /\ f2 \in [Nat -> TDs] /\ f2[hi + 1] = t /\ \A p \in 0 .. hi : f2[p] = f[p]
  BY <1>3, <1>17
<1>19. /\ s2 \in [EDs -> Nat] /\ h2 \in [EDs -> Nat] /\ s2[e] = n /\ h2[e] = n + 1
       /\ \A d \in EDs : d # e => s2[d] = s[d] /\ h2[d] = h[d]
  BY <1>3
<1> HIDE DEF f2, s2, h2, n, c, u
<1>20. Ordered(lo, mid, fetched, written, hi + 1)
  BY <1>17 DEF Ordered
<1>21. Pointers(f2, lo, mid, fetched, written, hi + 1)'
  <2>1. Newest(f2, lo, mid) = Newest(f, lo, mid) /\ Newest(f2, fetched, written) = Newest(f, fetched, written)
    BY <1>17, <1>18 DEF Newest
  <2>2. Newest(f2, written, hi + 1) = t
    BY <1>17, <1>18 DEF Newest
  <2>3. [i \in 1 .. fetched - mid |-> f[mid + i]] = [i \in 1 .. fetched - mid |-> f2[mid + i]]
    <3>1. \A i \in 1 .. fetched - mid : mid + i \in 0 .. hi
      BY <1>17
    <3> QED
      BY <1>18, <3>1
  <2> QED
    BY <1>3, <1>10, <2>1, <2>2, <2>3 DEF Pointers
<1>22. Links(mem.td, f2, lo, mid, fetched, written, hi + 1)'
  <2> DEFINE T == mem'.td
  <2>1. \A p \in lo + 1 .. hi : T[f[p]] = mem.td[f[p]]
    BY <1>16
  <2>2. T[t].next = Newest(f, written, hi)
    BY <1>3, <1>7 DEF Pointers
  <2> HIDE DEF T
  <2>3. Links(T, f, lo, mid, fetched, written, hi)
    BY <1>3, <2>1, LinksSame
  <2>4. Linked(T, f2, lo, mid)
    BY <1>17, <1>18, <2>3 DEF Links, Linked
  <2>5. Linked(T, f2, fetched, written)
    BY <1>17, <1>18, <2>3 DEF Links, Linked
  <2>6. Linked(T, f2, written, hi + 1)
    <3> SUFFICES ASSUME NEW p \in written + 1 .. hi + 1
                 PROVE  T[f2[p]].next = IF p = written + 1 THEN NULL ELSE f2[p - 1]
      BY DEF Linked
    <3>1. CASE p = hi + 1
      <4>1. p = written + 1 <=> ~(written < hi)
        BY <1>17, <3>1
      <4>2. p - 1 = hi /\ f2[hi] = f[hi]
        BY <1>17, <1>18, <3>1
      <4> QED
        BY <1>18, <2>2, <3>1, <4>1, <4>2 DEF Newest
    <3>2. CASE p \in written + 1 .. hi
      <4>1. f2[p] = f[p] /\ f2[p - 1] = f[p - 1]
        BY <1>17, <1>18, <3>2
      <4> QED
        BY <2>3, <3>2, <4>1 DEF Links, Linked
    <3> QED
      BY <1>17, <3>1, <3>2
  <2> QED
    BY <2>4, <2>5, <2>6 DEF Links, T
<1>23. (\A d \in EDs : Queue(mem.td, d, mem.urb[d], mem.ed[d], Filled(d), k[d], s2[d], h2[d]))'
  <2> SUFFICES ASSUME NEW d \in EDs
               PROVE  Queue(mem'.td, d, mem'.urb[d], mem'.ed[d], Filled(d)', k[d], s2[d], h2[d])
    OBVIOUS
  <2>1. CASE d # e
    <3>1. mem'.urb[d] = mem.urb[d] /\ mem'.ed[d] = mem.ed[d]
      BY <1>4, <1>5, <2>1
    <3>2. Queue(mem.td, d, mem.urb[d], mem.ed[d], Filled(d), k[d], s[d], h[d])
      BY <1>3
    <3> DEFINE T == mem'.td
               a == Filled(d)
    <3>3. \A i \in 1 .. Len(mem.urb[d].td) : T[mem.urb[d].td[i]] = mem.td[mem.urb[d].td[i]]
      BY <1>14, <2>1
    <3> HIDE DEF T, a
    <3>4. Queue(T, d, mem.urb[d], mem.ed[d], a, k[d], s[d], h[d])
      BY <1>12, <3>2, <3>3, QueueSame DEF a
    <3> QED
      BY <1>11, <1>19, <2>1, <3>1, <3>4 DEF T, a
  <2>2. CASE d = e
    <3> DEFINE q == mem'.ed[e]
               T == mem'.td
    <3>1. Queue(mem.td, e, u, mem.ed[e], c, k[e], s[e], n)
      BY <1>3 DEF n, c, u
    <3>2. /\ c \in Nat /\ k[e] \in Nat /\ s[e] \in Nat /\ n \in Nat
          /\ k[e] <= s[e] /\ s[e] <= c /\ c <= Len(u.td)
          /\ u.td_cnt = k[e] + (n - 1 - s[e])
      BY <3>1, CountFacts DEF Queue, Counts
    <3>10. Len(u.td) \in Nat
      BY <1>12 DEF u
    <3>3. Counts(u, c, k[e], n, n + 1)
      <4>1. n = s[e] + 1 /\ n <= c
        BY <1>9, <3>2
      <4>2. Counts(u, c, k[e], s[e], n)
        BY <3>1 DEF Queue
      <4> QED
        BY <4>1, <4>2, RetiredCounts
    <3>4. /\ \A i \in 1 .. c : mem.td[u.td[i]].ed = e /\ mem.td[u.td[i]].index = i - 1
          /\ \A i \in n .. c : mem.td[u.td[i]].next = IF i = c THEN mem.ed[e].tail ELSE u.td[i + 1]
      BY <3>1 DEF Queue, Chained
    <3>5. Chained(T, e, u, q, c, n + 1)
      <4>1. \A i \in 1 .. c : T[u.td[i]].ed = e /\ T[u.td[i]].index = i - 1
        <5> SUFFICES ASSUME NEW i \in 1 .. c PROVE T[u.td[i]].ed = e /\ T[u.td[i]].index = i - 1
          OBVIOUS
        <5>1. i = n => T[u.td[i]].ed = mem.td[u.td[i]].ed /\ T[u.td[i]].index = mem.td[u.td[i]].index
          BY <1>7, <1>5, <1>9
        <5>2. i # n => T[u.td[i]] = mem.td[u.td[i]]
          BY <1>15, <1>12, <3>2 DEF u
        <5> QED
          BY <3>4, <5>1, <5>2
      <4>2. \A i \in n + 1 .. c : T[u.td[i]].next = IF i = c THEN q.tail ELSE u.td[i + 1]
        <5> SUFFICES ASSUME NEW i \in n + 1 .. c
                     PROVE  T[u.td[i]].next = IF i = c THEN q.tail ELSE u.td[i + 1]
          OBVIOUS
        <5>1. i # n /\ i \in 1 .. Len(u.td) /\ i \in n .. c
          BY <3>2, <3>10
        <5>2. T[u.td[i]] = mem.td[u.td[i]]
          BY <1>15, <5>1
        <5> QED
          BY <1>8, <3>4, <5>1, <5>2
      <4>3. q.head = IF n + 1 = c + 1 THEN q.tail ELSE u.td[n + 1]
        <5>1. n + 1 = c + 1 <=> n = c
          BY <3>2
        <5> QED
          BY <1>8, <1>5, <1>9, <5>1
      <4> QED
        BY <4>1, <4>2, <4>3 DEF Chained
    <3>6. Halts(T, u, q, k[e], n, n + 1)
      <4>1. q.halted => k[e] < n /\ T[u.td[n]].cc # OK
        <5>1. k[e] < n
          BY <1>5, <1>9, <3>2
        <5> QED
          BY <1>7, <1>8, <1>5, <1>9, <5>1
      <4>2. \A i \in k[e] + 1 .. n : T[u.td[i]].cc # OK => i = n
        <5> SUFFICES ASSUME NEW i \in k[e] + 1 .. n, i # n PROVE T[u.td[i]].cc = OK
          OBVIOUS
        <5>1. i \in k[e] + 1 .. s[e] /\ i \in 1 .. Len(u.td)
          <6>1. n = s[e] + 1
            BY <1>9
          <6>2. i \in Int /\ k[e] + 1 <= i /\ i <= n /\ i # n
            BY <3>2
          <6>3. s[e] \in Nat /\ k[e] \in Nat /\ s[e] <= Len(u.td)
            BY <3>2, <3>10
          <6>4. i <= s[e]
            BY <6>1, <6>2, <6>3
          <6> QED
            BY <3>10, <6>2, <6>3, <6>4
        <5> QED
          BY <1>5, <1>9, <1>15, <5>1
      <4> QED
        BY <4>1, <4>2 DEF Halts
    <3>7. Ended(e, u, q)
      BY <1>8, <3>1 DEF Queue, Ended
    <3>8. Queue(T, e, u, q, c, k[e], n, n + 1)
      BY <3>3, <3>5, <3>6, <3>7 DEF Queue
    <3>9. mem'.urb[e] = u
      BY <1>4, <1>5 DEF u
    <3> QED
      BY <1>11, <1>19, <2>2, <3>8, <3>9 DEF c
  <2> QED
    BY <2>1, <2>2
<1>24. Retired(mem.td, mem.urb, f2, lo, hi + 1, k, s2)'
  <2>0. k[e] \in Nat /\ s[e] \in Nat /\ n \in Nat /\ k[e] <= s[e]
    BY <1>3, CountFacts DEF Queue, n
  <2>1. \A p \in lo + 1 .. hi : f2[p] = f[p]
    BY <1>17, <1>18
  <2>2. Located(mem'.td, mem'.urb, f2, lo, hi + 1, k, s2)
    <3> SUFFICES ASSUME NEW p \in lo + 1 .. hi + 1
                 PROVE  LET d == mem'.td[f2[p]].ed
                            i == mem'.td[f2[p]].index + 1
                        IN  d \in EDs /\ i \in k[d] + 1 .. s2[d] /\ mem'.urb[d].td[i] = f2[p]
      BY DEF Located
    <3>1. CASE p = hi + 1
      <4>1. mem'.td[f2[p]].ed = e /\ mem'.td[f2[p]].index + 1 = n /\ f2[p] = t
        BY <1>7, <1>5, <1>9, <1>18, <3>1
      <4>2. n \in k[e] + 1 .. s2[e]
        BY <1>5, <1>9, <1>19, <2>0
      <4>3. mem'.urb[e].td[n] = t
        BY <1>4, <1>5, <1>9 DEF u
      <4> QED
        BY <4>1, <4>2, <4>3
    <3>2. CASE p \in lo + 1 .. hi
      <4>0. PICK d, i : d = mem.td[f[p]].ed /\ i = mem.td[f[p]].index + 1
        OBVIOUS
      <4>1. d \in EDs /\ i \in k[d] + 1 .. s[d] /\ mem.urb[d].td[i] = f[p]
        <5>1. Retired(mem.td, mem.urb, f, lo, hi, k, s)
          BY <1>3
        <5> QED
          BY <3>2, <4>0, <5>1, RetiredWhere
      <4>2. mem'.td[f2[p]].ed = d /\ mem'.td[f2[p]].index + 1 = i /\ f2[p] = f[p]
        BY <1>16, <2>1, <3>2, <4>0
      <4>3. i \in k[d] + 1 .. s2[d]
        <5>1. d # e => s2[d] = s[d]
          BY <1>19, <4>1
        <5>2. d = e => i \in k[d] + 1 .. s2[d]
          BY <1>5, <1>9, <1>19, <2>0, <4>1
        <5> QED
          BY <4>1, <5>1, <5>2
      <4> QED
        BY <1>4, <1>5, <4>1, <4>2, <4>3
    <3>3. p = hi + 1 \/ p \in lo + 1 .. hi
      BY <1>17
    <3> QED
      BY <3>1, <3>2, <3>3, Zenon
  <2>3. InTurn(mem'.td, f2, lo, hi + 1)
    <3> SUFFICES ASSUME NEW p \in lo + 1 .. hi + 1, NEW q \in lo + 1 .. hi + 1,
                        p < q, mem'.td[f2[p]].ed = mem'.td[f2[q]].ed
                 PROVE  mem'.td[f2[p]].index < mem'.td[f2[q]].index
      BY DEF InTurn
    <3>1. p \in lo + 1 .. hi
      BY <1>17
    <3>2. mem'.td[f2[p]] = mem.td[f[p]]
      BY <1>16, <2>1, <3>1
    <3>3. CASE q = hi + 1
      <4>1. mem'.td[f2[q]].ed = e /\ mem'.td[f2[q]].index + 1 = n
        BY <1>7, <1>5, <1>9, <1>18, <3>3
      <4>2. mem.td[f[p]].index + 1 \in k[e] + 1 .. s[e]
        <5>1. mem.td[f[p]].ed = e
          BY <3>2, <4>1
        <5> QED
          BY <1>3, <3>1, <5>1, RetiredWhere
      <4>3. mem.td[f[p]].index \in Nat /\ mem'.td[f2[q]].index \in Nat
        <5>1. f[p] \in TDs
          BY <1>3, <1>17, <3>1
        <5>2. \A x \in TDs : mem.td[x].index \in Nat
          BY <1>0, Types, TdNumbers
        <5> QED
          BY <1>7, <1>18, <3>3, <5>1, <5>2
      <4>4. n = s[e] + 1
        BY <1>9
      <4>5. mem.td[f[p]].index < mem'.td[f2[q]].index
        BY <2>0, <4>1, <4>2, <4>3, <4>4
      <4> QED
        BY <3>2, <4>5
    <3>4. CASE q \in lo + 1 .. hi
      <4>1. mem'.td[f2[q]] = mem.td[f[q]]
        BY <1>16, <2>1, <3>4
      <4>2. InTurn(mem.td, f, lo, hi)
        BY <1>3 DEF Retired
      <4>3. mem.td[f[p]].ed = mem.td[f[q]].ed => mem.td[f[p]].index < mem.td[f[q]].index
        BY <3>1, <3>4, <4>2 DEF InTurn
      <4> QED
        BY <3>2, <4>1, <4>3
    <3> QED
      BY <1>17, <3>3, <3>4
  <2>4. Covered(mem'.urb, f2, lo, hi + 1, k, s2)
    <3> SUFFICES ASSUME NEW d \in EDs, NEW i \in k[d] + 1 .. s2[d]
                 PROVE  \E p \in lo + 1 .. hi + 1 : f2[p] = mem'.urb[d].td[i]
      BY DEF Covered
    <3>1. CASE d = e /\ i = n
      <4>1. hi + 1 \in lo + 1 .. hi + 1
        BY <1>17
      <4> QED
        BY <1>4, <1>5, <1>9, <1>18, <3>1, <4>1 DEF u
    <3>2. CASE ~(d = e /\ i = n)
      <4>1. i \in k[d] + 1 .. s[d]
        BY <1>5, <1>9, <1>19, <2>0, <3>2
      <4>2. PICK p \in lo + 1 .. hi : f[p] = mem.urb[d].td[i]
        BY <1>3, <4>1, RetiredAll
      <4>3. p \in lo + 1 .. hi + 1
        BY <1>17
      <4> QED
        BY <1>4, <1>5, <2>1, <4>2, <4>3
    <3> QED
      BY <3>1, <3>2
  <2> QED
    BY <2>2, <2>3, <2>4 DEF Retired
<1>25. Failed(mem.td, mem.ed, mem.urb, f2, lo, mid, fetched, hi + 1, h2)'
  <2> SUFFICES ASSUME NEW p \in lo + 1 .. hi + 1, mem'.td[f2[p]].cc # OK
               PROVE  LET d == mem'.td[f2[p]].ed
                      IN  IF p \in mid + 1 .. fetched
                          THEN ~mem'.ed[d].halted /\ h2[d] = Len(mem'.urb[d].td) + 1
                          ELSE mem'.ed[d].halted
    BY DEF Failed
  <2>1. CASE p = hi + 1
    <3>1. p \notin mid + 1 .. fetched
      BY <1>17, <2>1
    <3> QED
      BY <1>7, <1>8, <1>5, <1>9, <1>18, <2>1, <3>1
  <2>2. CASE p \in lo + 1 .. hi
    <3>0. PICK d, i : d = mem.td[f[p]].ed /\ i = mem.td[f[p]].index + 1
      OBVIOUS
    <3>1. mem'.td[f2[p]] = mem.td[f[p]]
      BY <1>16, <1>17, <1>18, <2>2
    <3>7. Retired(mem.td, mem.urb, f, lo, hi, k, s)
      BY <1>3
    <3>2. d \in EDs /\ i \in k[d] + 1 .. s[d] /\ mem.urb[d].td[i] = f[p]
      BY <2>2, <3>0, <3>7, RetiredWhere
    <3>3. d # e
      BY <1>5, <1>9, <3>0, <3>1, <3>2 DEF u
    <3>4. IF p \in mid + 1 .. fetched THEN ~mem.ed[d].halted /\ h[d] = Len(mem.urb[d].td) + 1
          ELSE mem.ed[d].halted
      BY <1>3, <2>2, <3>0, <3>1 DEF Failed
    <3>5. mem'.ed[d] = mem.ed[d] /\ mem'.urb[d] = mem.urb[d] /\ h2[d] = h[d]
      BY <1>4, <1>5, <1>19, <3>2, <3>3
    <3>6. mem'.td[f2[p]].ed = d
      BY <3>0, <3>1
    <3> QED
      BY <3>4, <3>5, <3>6
  <2>3. p = hi + 1 \/ p \in lo + 1 .. hi
    BY <1>17
  <2> QED
    BY <2>1, <2>2, <2>3, Zenon
<1>27. Witness(f2, lo, mid, fetched, written, hi + 1, k, s2, h2)'
  BY <1>3, <1>18, <1>19, <1>20, <1>21, <1>22, <1>23, <1>24, <1>25 DEF Witness, History
<1> QED
  BY <1>1, <1>27, Witnessed

-----------------------------------------------------------------------------
(* A step of the driver on one endpoint that leaves what was retired alone. *)
OthersSame(e) ==
    \A d \in EDs : d # e =>
        /\ mem'.urb[d] = mem.urb[d] /\ mem'.ed[d] = mem.ed[d] /\ Filled(d)' = Filled(d)
        /\ \A i \in 1 .. Len(mem.urb[d].td) :
              mem'.td[mem.urb[d].td[i]] = mem.td[mem.urb[d].td[i]]

Kept(m, n, e, k, s) ==
    \A a \in k + 1 .. s :
        n.urb[e].td[a] = m.urb[e].td[a] /\ n.td[m.urb[e].td[a]] = m.td[m.urb[e].td[a]]

QueueKept(e) ==
    \A k, s, h :
        Queue(mem.td, e, mem.urb[e], mem.ed[e], Filled(e), k, s, h) =>
            /\ Queue(mem'.td, e, mem'.urb[e], mem'.ed[e], Filled(e)', k, s, h)
            /\ Kept(mem, mem', e, k, s)

LEMMA SameHistory ==
    ASSUME OhciInv, Going, Shape', hc' = hc,
           main.pc \in {"idle", "fill"}, main'.pc \in {"idle", "fill", "poll"},
           main'.td_list_hc = NULL, main'.td_rev = <<>>,
           NEW e \in EDs, mem'.ed[e].halted = mem.ed[e].halted, OthersSame(e), QueueKept(e)
    PROVE  OhciInv'
<1>0. Shape /\ TypeOK
  BY DEF OhciInv, Shape
<1>2. PICK f, lo, mid, fetched, written, hi, k, s, h :
          Witness(f, lo, mid, fetched, written, hi, k, s, h)
  BY WithWitness
<1>3. /\ Ordered(lo, mid, fetched, written, hi) /\ Pointers(f, lo, mid, fetched, written, hi)
      /\ Links(mem.td, f, lo, mid, fetched, written, hi)
      /\ Retired(mem.td, mem.urb, f, lo, hi, k, s)
      /\ Failed(mem.td, mem.ed, mem.urb, f, lo, mid, fetched, hi, h)
      /\ \A d \in EDs : Queue(mem.td, d, mem.urb[d], mem.ed[d], Filled(d), k[d], s[d], h[d])
  BY <1>2 DEF Witness, History
<1>4. lo = mid /\ mid = fetched
  BY <1>3, NothingFetched
<1>5. \A d \in EDs : Len(mem.urb[d].td) \in Nat
  BY <1>0, Types, InSequence
<1>6. /\ Queue(mem'.td, e, mem'.urb[e], mem'.ed[e], Filled(e)', k[e], s[e], h[e])
      /\ \A i \in k[e] + 1 .. s[e] :
            /\ mem'.urb[e].td[i] = mem.urb[e].td[i]
            /\ mem'.td[mem.urb[e].td[i]] = mem.td[mem.urb[e].td[i]]
  BY <1>3 DEF QueueKept, Kept
<1>7. \A d \in EDs : \A i \in k[d] + 1 .. s[d] :
          /\ mem'.urb[d].td[i] = mem.urb[d].td[i]
          /\ mem'.td[mem.urb[d].td[i]] = mem.td[mem.urb[d].td[i]]
  <2> SUFFICES ASSUME NEW d \in EDs, NEW i \in k[d] + 1 .. s[d]
               PROVE  /\ mem'.urb[d].td[i] = mem.urb[d].td[i]
                      /\ mem'.td[mem.urb[d].td[i]] = mem.td[mem.urb[d].td[i]]
    OBVIOUS
  <2>1. CASE d = e
    BY <1>6, <2>1
  <2>2. CASE d # e
    <3>1. /\ k[d] \in Nat /\ s[d] \in Nat /\ s[d] <= Filled(d) /\ Filled(d) \in Nat
          /\ Filled(d) <= Len(mem.urb[d].td)
      BY <1>3, CountFacts DEF Queue
    <3>2. i \in 1 .. Len(mem.urb[d].td)
      BY <1>5, <3>1
    <3> QED
      BY <2>2, <3>2 DEF OthersSame
  <2> QED
    BY <2>1, <2>2
<1>8. \A p \in lo + 1 .. hi :
          LET d == mem.td[f[p]].ed
              i == mem.td[f[p]].index + 1
          IN  /\ mem'.td[f[p]] = mem.td[f[p]]
              /\ d \in EDs /\ i \in k[d] + 1 .. s[d] /\ mem'.urb[d].td[i] = f[p]
  <2> SUFFICES ASSUME NEW p \in lo + 1 .. hi
               PROVE  LET d == mem.td[f[p]].ed
                          i == mem.td[f[p]].index + 1
                      IN  /\ mem'.td[f[p]] = mem.td[f[p]]
                          /\ d \in EDs /\ i \in k[d] + 1 .. s[d] /\ mem'.urb[d].td[i] = f[p]
    OBVIOUS
  <2>0. PICK d, i : d = mem.td[f[p]].ed /\ i = mem.td[f[p]].index + 1
    OBVIOUS
  <2>1. d \in EDs /\ i \in k[d] + 1 .. s[d] /\ mem.urb[d].td[i] = f[p]
    BY <1>3, <2>0, RetiredWhere
  <2>2. mem'.urb[d].td[i] = f[p] /\ mem'.td[f[p]] = mem.td[f[p]]
    BY <1>7, <2>1
  <2> QED
    BY <2>0, <2>1, <2>2
<1>11. Pointers(f, lo, mid, fetched, written, hi)'
  <2>1. lo \in Nat /\ Newest(f, lo, mid) = NULL
    BY <1>3, <1>4 DEF Newest, Ordered
  <2>2. <<>> = [i \in 1 .. fetched - mid |-> f[mid + i]]
    BY <1>4, <2>1, NothingRead
  <2>4. ~(lo < mid) /\ ~(mid < fetched)
    BY <1>4, <2>1
  <2>5. /\ hc.done_head = Newest(f, fetched, written) /\ hc.doneq = Newest(f, written, hi)
        /\ hc.done_head # NULL => hc.wdh
    BY <1>3 DEF Pointers
  <2> QED
    BY <2>1, <2>2, <2>4, <2>5 DEF Pointers
<1>12. Links(mem.td, f, lo, mid, fetched, written, hi)'
  <2> DEFINE T == mem'.td
  <2>1. \A p \in lo + 1 .. hi : T[f[p]] = mem.td[f[p]]
    BY <1>8
  <2> HIDE DEF T
  <2>2. Links(T, f, lo, mid, fetched, written, hi)
    BY <1>3, <2>1, LinksSame
  <2> QED
    BY <2>2 DEF T
<1>13. (\A d \in EDs : Queue(mem.td, d, mem.urb[d], mem.ed[d], Filled(d), k[d], s[d], h[d]))'
  <2> SUFFICES ASSUME NEW d \in EDs
               PROVE  Queue(mem'.td, d, mem'.urb[d], mem'.ed[d], Filled(d)', k[d], s[d], h[d])
    OBVIOUS
  <2>1. CASE d # e
    <3>1. mem'.urb[d] = mem.urb[d] /\ mem'.ed[d] = mem.ed[d] /\ Filled(d)' = Filled(d)
      BY <2>1 DEF OthersSame
    <3>2. Queue(mem.td, d, mem.urb[d], mem.ed[d], Filled(d), k[d], s[d], h[d])
      BY <1>3
    <3> DEFINE T == mem'.td
               c == Filled(d)
    <3>3. \A i \in 1 .. Len(mem.urb[d].td) : T[mem.urb[d].td[i]] = mem.td[mem.urb[d].td[i]]
      BY <2>1 DEF OthersSame
    <3> HIDE DEF T, c
    <3>4. Queue(T, d, mem.urb[d], mem.ed[d], c, k[d], s[d], h[d])
      BY <1>5, <3>2, <3>3, QueueSame DEF c
    <3> QED
      BY <3>1, <3>4 DEF T, c
  <2>2. CASE d = e
    BY <1>6, <2>2
  <2> QED
    BY <2>1, <2>2
<1>14. Retired(mem.td, mem.urb, f, lo, hi, k, s)'
  <2>1. Located(mem'.td, mem'.urb, f, lo, hi, k, s)
    BY <1>8 DEF Located
  <2>2. InTurn(mem'.td, f, lo, hi)
    <3>1. InTurn(mem.td, f, lo, hi)
      BY <1>3 DEF Retired
    <3>2. \A p \in lo + 1 .. hi : mem'.td[f[p]] = mem.td[f[p]]
      BY <1>8
    <3> QED
      BY <3>1, <3>2, InTurnSame
  <2>3. Covered(mem'.urb, f, lo, hi, k, s)
    <3> SUFFICES ASSUME NEW d \in EDs, NEW i \in k[d] + 1 .. s[d]
                 PROVE  \E p \in lo + 1 .. hi : f[p] = mem'.urb[d].td[i]
      BY DEF Covered
    <3>1. \E p \in lo + 1 .. hi : f[p] = mem.urb[d].td[i]
      BY <1>3, RetiredAll
    <3> QED
      BY <1>7, <3>1
  <2> QED
    BY <2>1, <2>2, <2>3 DEF Retired
<1>15. Failed(mem.td, mem.ed, mem.urb, f, lo, mid, fetched, hi, h)'
  <2> SUFFICES ASSUME NEW p \in lo + 1 .. hi, mem'.td[f[p]].cc # OK
               PROVE  LET d == mem'.td[f[p]].ed
                      IN  IF p \in mid + 1 .. fetched
                          THEN ~mem'.ed[d].halted /\ h[d] = Len(mem'.urb[d].td) + 1
                          ELSE mem'.ed[d].halted
    BY DEF Failed
  <2> DEFINE d == mem.td[f[p]].ed
  <2>1. p \notin mid + 1 .. fetched
    BY <1>3, <1>4 DEF Ordered
  <2>2. d \in EDs /\ mem'.td[f[p]] = mem.td[f[p]] /\ mem'.td[f[p]].ed = d
    BY <1>8
  <2>3. mem.ed[d].halted
    BY <1>3, <2>1, <2>2 DEF Failed
  <2> HIDE DEF d
  <2>4. mem'.ed[d].halted
    BY <2>2, <2>3 DEF OthersSame
  <2> QED
    BY <2>1, <2>2, <2>4
<1>17. Witness(f, lo, mid, fetched, written, hi, k, s, h)'
  BY <1>2, <1>3, <1>11, <1>12, <1>13, <1>14, <1>15 DEF Witness, History
<1> QED
  BY <1>17, Witnessed

-----------------------------------------------------------------------------
(* td_fill. *)
FilledTd(m, e, i) == [used |-> m.td[m.ed[e].tail].used, next |-> m.urb[e].td[i], ed |-> e,
                      index |-> i - 1, cc |-> OK]

FillGives(m, e, i, n) ==
    /\ n \in Memory
    /\ n.td[m.urb[e].td[i]] = [m.td[m.urb[e].td[i]] EXCEPT !.next = NULL]
    /\ n.td[m.ed[e].tail] = FilledTd(m, e, i)
    /\ \A t \in TDs : t # m.urb[e].td[i] /\ t # m.ed[e].tail => n.td[t] = m.td[t]
    /\ n.urb[e] = [m.urb[e] EXCEPT !.td = [@ EXCEPT ![i] = m.ed[e].tail]]
    /\ n.ed[e] = [m.ed[e] EXCEPT !.tail = m.urb[e].td[i]]
    /\ \A d \in EDs : d # e => n.urb[d] = m.urb[d] /\ n.ed[d] = m.ed[d]

LEMMA FillEffect ==
    ASSUME NEW m \in Memory, NEW e \in EDs, NEW i \in 1 .. Len(m.urb[e].td), i <= NUM_TD,
           m.ed[e].tail \in TDs, m.urb[e].td[i] # m.ed[e].tail,
           NEW n, n = td_fill(m, e, i)
    PROVE  FillGives(m, e, i, n)
<1> DEFINE old == m.ed[e].tail
           new == m.urb[e].td[i]
           fresh == [m.td[new] EXCEPT !.next = NULL]
           full == FilledTd(m, e, i)
           q == [m.urb[e].td EXCEPT ![i] = old]
           u == [m.urb[e] EXCEPT !.td = q]
           p == [m.ed[e] EXCEPT !.tail = new]
           td == [[m.td EXCEPT ![new] = fresh] EXCEPT ![old] = full]
<1>0. /\ m.td \in [TDs -> Td] /\ m.ed \in [EDs -> Ed] /\ m.urb \in [EDs -> Urb]
      /\ m = [td |-> m.td, ed |-> m.ed, urb |-> m.urb]
  BY DEF Memory
<1>1. m.urb[e].td \in Seq(TDs) /\ i \in 1 .. Len(m.urb[e].td)
  BY MemoryTypes
<1>2. old \in TDs /\ new \in TDs /\ new # old
  BY <1>1, InSequence
<1>3. fresh \in Td
  BY <1>0, <1>2 DEF Td
<1>4. full \in Td
  <2>1. m.td[old].used \in BOOLEAN
    BY <1>2, MemoryTypes
  <2>2. i - 1 \in 0 .. NUM_TD
    BY <1>1, TdNumbers, InSequence
  <2>3. OK \in Codes
    BY DEF Codes
  <2> QED
    BY <1>2, <2>1, <2>2, <2>3 DEF FilledTd, Td
<1>5. q \in Seq(TDs)
  BY <1>1, <1>2
<1>6. u \in Urb
  BY <1>0, <1>5 DEF Urb
<1>7. p \in Ed
  BY <1>0, <1>2 DEF Ed
<1>8. /\ n.td = td /\ n.ed = [m.ed EXCEPT ![e] = p] /\ n.urb = [m.urb EXCEPT ![e] = u]
      /\ n = [td |-> n.td, ed |-> n.ed, urb |-> n.urb]
  <2> DEFINE A == [m.td EXCEPT ![new] = fresh]
             B == [A EXCEPT ![old] = [used |-> A[old].used, next |-> new, ed |-> e,
                                      index |-> i - 1, cc |-> OK]]
  <2>1. n.td = B /\ n.ed = [m.ed EXCEPT ![e] = p] /\ n.urb = [m.urb EXCEPT ![e] = u]
    BY <1>0 DEF td_fill
  <2>2. n = [td |-> n.td, ed |-> n.ed, urb |-> n.urb]
    BY <1>0 DEF td_fill
  <2>3. A[old] = m.td[old]
    BY <1>0, <1>2
  <2>4. B = td
    <3> HIDE DEF A
    <3>1. B = [A EXCEPT ![old] = full]
      BY <2>3 DEF FilledTd
    <3> QED
      BY <3>1 DEF A
  <2> HIDE DEF B
  <2> QED
    BY <2>1, <2>2, <2>4
<1> HIDE DEF fresh, full, q, u, p
<1>9. /\ td \in [TDs -> Td] /\ td[new] = fresh /\ td[old] = full
      /\ \A t \in TDs : t # new /\ t # old => td[t] = m.td[t]
  BY <1>0, <1>2, <1>3, <1>4
<1>10. /\ [m.ed EXCEPT ![e] = p] \in [EDs -> Ed] /\ [m.urb EXCEPT ![e] = u] \in [EDs -> Urb]
  BY <1>0, <1>6, <1>7
<1> HIDE DEF td
<1>11. n \in Memory
  BY <1>8, <1>9, <1>10 DEF Memory
<1>12. /\ n.urb[e] = u /\ n.ed[e] = p
       /\ \A d \in EDs : d # e => n.urb[d] = m.urb[d] /\ n.ed[d] = m.ed[d]
  BY <1>0, <1>8
<1> QED
  BY <1>8, <1>9, <1>11, <1>12 DEF FillGives, fresh, full, q, u, p

Sound(m) ==
    /\ Accounts(m.td, m.ed, m.urb)
    /\ \A e \in EDs : UrbOf(e, m.urb[e], m.ed[e])

LEMMA FillReady ==
    ASSUME NEW m \in Memory, Sound(m), NEW e \in EDs, m.urb[e].live,
           NEW i \in 1 .. Len(m.urb[e].td)
    PROVE  /\ i \in Nat /\ i <= NUM_TD /\ m.ed[e].tail \in TDs /\ m.urb[e].td[i] \in TDs
           /\ m.urb[e].td[i] \in ToSet(m.urb[e].td)
           /\ m.urb[e].td[i] # m.ed[e].tail
           /\ \A d \in EDs : m.ed[e].tail \notin ToSet(m.urb[d].td)
<1>1. m.urb[e].td \in Seq(TDs) /\ m.ed[e].tail \in TDs \cup {NULL}
  BY MemoryTypes
<1>2. m.ed[e].tail # NULL /\ Len(m.urb[e].td) \in 1 .. NUM_TD
  BY DEF Sound, UrbOf
<1>3. m.urb[e].td[i] \in ToSet(m.urb[e].td) /\ m.urb[e].td[i] \in TDs
  BY <1>1, InSequence
<1>4. \A d \in EDs : m.ed[e].tail \notin ToSet(m.urb[d].td)
  BY <1>2 DEF Sound, Accounts
<1> QED
  BY <1>1, <1>2, <1>3, <1>4, TdNumbers

LEMMA ReplaceOne ==
    ASSUME NEW q \in Seq(TDs), NEW i \in 1 .. Len(q), NEW old \in TDs, old \notin ToSet(q),
           \A a, b \in 1 .. Len(q) : q[a] = q[b] => a = b,
           NEW r, r = [q EXCEPT ![i] = old]
    PROVE  /\ Len(r) = Len(q) /\ r \in Seq(TDs)
           /\ \A t : t \in ToSet(r) <=> t = old \/ (t \in ToSet(q) /\ t # q[i])
           /\ \A a, b \in 1 .. Len(r) : r[a] = r[b] => a = b
           /\ r[i] = old /\ \A a \in 1 .. Len(q) : a # i => r[a] = q[a]
<1>1. Len(r) = Len(q) /\ r \in Seq(TDs) /\ r[i] = old /\ \A a \in 1 .. Len(q) : a # i => r[a] = q[a]
  OBVIOUS
<1>2. \A a \in 1 .. Len(q) : q[a] \in ToSet(q)
  BY InSequence
<1>3. ASSUME NEW t PROVE t \in ToSet(r) <=> t = old \/ (t \in ToSet(q) /\ t # q[i])
  <2>1. t \in ToSet(r) <=> \E a \in 1 .. Len(q) : r[a] = t
    <3>1. t \in ToSet(r) <=> \E a \in DOMAIN r : r[a] = t
      BY DEF ToSet
    <3>2. DOMAIN r = 1 .. Len(q)
      BY <1>1
    <3> QED
      BY <3>1, <3>2
  <2>2. t \in ToSet(q) <=> \E a \in 1 .. Len(q) : q[a] = t
    <3>1. t \in ToSet(q) <=> \E a \in DOMAIN q : q[a] = t
      BY DEF ToSet
    <3>2. DOMAIN q = 1 .. Len(q)
      OBVIOUS
    <3> QED
      BY <3>1, <3>2
  <2> QED
    BY <1>1, <2>1, <2>2
<1>4. \A a, b \in 1 .. Len(q) : r[a] = r[b] => a = b
  BY <1>1, <1>2
<1> QED
  BY <1>1, <1>3, <1>4

LEMMA FillSound ==
    ASSUME NEW m \in Memory, Sound(m), NEW e \in EDs, m.urb[e].live,
           NEW i \in 1 .. Len(m.urb[e].td), NEW n, n = td_fill(m, e, i)
    PROVE  Sound(n)
<1> DEFINE old == m.ed[e].tail
           new == m.urb[e].td[i]
           q == m.urb[e].td
<1>1. /\ i \in Nat /\ i <= NUM_TD /\ old \in TDs /\ new \in TDs /\ new \in ToSet(q) /\ new # old
      /\ \A d \in EDs : old \notin ToSet(m.urb[d].td)
  BY FillReady
<1>2. /\ n \in Memory
      /\ n.td[new] = [m.td[new] EXCEPT !.next = NULL]
      /\ n.td[old] = FilledTd(m, e, i)
      /\ \A t \in TDs : t # new /\ t # old => n.td[t] = m.td[t]
      /\ n.urb[e] = [m.urb[e] EXCEPT !.td = [@ EXCEPT ![i] = old]]
      /\ n.ed[e] = [m.ed[e] EXCEPT !.tail = new]
      /\ \A d \in EDs : d # e => n.urb[d] = m.urb[d] /\ n.ed[d] = m.ed[d]
  <2>1. i <= NUM_TD /\ m.ed[e].tail \in TDs /\ m.urb[e].td[i] # m.ed[e].tail
    BY <1>1
  <2>2. FillGives(m, e, i, n)
    BY <2>1, FillEffect
  <2> QED
    BY <2>2 DEF FillGives
<1>3. m.td[new] \in Td /\ m.ed[e] \in Ed /\ m.urb[e] \in Urb /\ q \in Seq(TDs)
  BY <1>1, MemoryTypes DEF Memory
<1>4. /\ n.ed[e].tail = new /\ n.ed[e].state = m.ed[e].state
      /\ n.urb[e].td = [q EXCEPT ![i] = old] /\ n.urb[e].live = m.urb[e].live
  BY <1>2, <1>3 DEF Ed, Urb
<1>5. \A t \in TDs : n.td[t].used <=> m.td[t].used
  <2> SUFFICES ASSUME NEW t \in TDs PROVE n.td[t].used <=> m.td[t].used
    OBVIOUS
  <2>1. t = new => n.td[t].used = m.td[t].used
    <3>1. n.td[new] = [m.td[new] EXCEPT !.next = NULL] /\ m.td[new] \in Td
      BY <1>2, <1>3
    <3> HIDE DEF new
    <3> QED
      BY <3>1 DEF Td
  <2>2. t = old => n.td[t].used = m.td[t].used
    <3>1. n.td[old] = FilledTd(m, e, i)
      BY <1>2
    <3> QED
      BY <3>1 DEF FilledTd
  <2>3. t # new /\ t # old => n.td[t] = m.td[t]
    BY <1>2
  <2> QED
    BY <2>1, <2>2, <2>3
<1>6. /\ Accounts(m.td, m.ed, m.urb) /\ UrbOf(e, m.urb[e], m.ed[e])
      /\ \A d \in EDs : UrbOf(d, m.urb[d], m.ed[d])
  BY DEF Sound
<1> HIDE DEF old, new, q
<1>7. /\ Len(n.urb[e].td) = Len(q)
      /\ \A t : t \in ToSet(n.urb[e].td) <=> t = old \/ (t \in ToSet(q) /\ t # new)
      /\ \A a, b \in 1 .. Len(n.urb[e].td) : n.urb[e].td[a] = n.urb[e].td[b] => a = b
  <2>1. \A a, b \in 1 .. Len(q) : q[a] = q[b] => a = b
    BY <1>6 DEF UrbOf, q
  <2>2. i \in 1 .. Len(q) /\ old \notin ToSet(q) /\ new = q[i]
    BY <1>1 DEF q, new
  <2> QED
    BY <1>1, <1>3, <1>4, <2>1, <2>2, ReplaceOne
<1>8. /\ m.ed[e].tail = old /\ ToSet(m.urb[e].td) = ToSet(q) /\ old # NULL
      /\ new # NULL
  BY <1>1, TdNumbers DEF old, q
<1>9. \A d \in EDs : d # e => n.urb[d].td = m.urb[d].td /\ n.ed[d].tail = m.ed[d].tail
  BY <1>2
<1>10. \A d \in EDs : d # e => new \notin ToSet(m.urb[d].td) /\ m.ed[d].tail # new
  BY <1>1, <1>6, <1>8 DEF Accounts
<1>11. \A d \in EDs : d # e => m.ed[d].tail # old
  BY <1>6, <1>8 DEF Accounts
<1>12. Accounts(n.td, n.ed, n.urb)
  <2>1. \A t \in TDs : n.td[t].used <=> \/ \E d \in EDs : n.ed[d].tail = t
                                       \/ \E d \in EDs : t \in ToSet(n.urb[d].td)
    <3> SUFFICES ASSUME NEW t \in TDs
                 PROVE  n.td[t].used <=> \/ \E d \in EDs : n.ed[d].tail = t
                                         \/ \E d \in EDs : t \in ToSet(n.urb[d].td)
      OBVIOUS
    <3>1. n.td[t].used <=> \/ \E d \in EDs : m.ed[d].tail = t
                           \/ \E d \in EDs : t \in ToSet(m.urb[d].td)
      BY <1>5, <1>6 DEF Accounts
    <3>2. CASE t = new
      <4>1. t \in ToSet(m.urb[e].td)
        BY <1>1, <1>8, <3>2
      <4> QED
        BY <1>4, <3>1, <3>2, <4>1
    <3>3. CASE t = old
      <4>1. t \in ToSet(n.urb[e].td)
        BY <1>7, <3>3
      <4> QED
        BY <1>8, <3>1, <3>3, <4>1
    <3>4. CASE t # new /\ t # old
      <4>1. \A d \in EDs : n.ed[d].tail = t <=> m.ed[d].tail = t
        BY <1>4, <1>8, <1>9, <3>4
      <4>2. \A d \in EDs : t \in ToSet(n.urb[d].td) <=> t \in ToSet(m.urb[d].td)
        <5> SUFFICES ASSUME NEW d \in EDs
                     PROVE  t \in ToSet(n.urb[d].td) <=> t \in ToSet(m.urb[d].td)
          OBVIOUS
        <5>1. CASE d = e
          BY <1>7, <1>8, <3>4, <5>1
        <5>2. CASE d # e
          BY <1>9, <5>2
        <5> QED
          BY <5>1, <5>2
      <4> QED
        BY <3>1, <4>1, <4>2
    <3> QED
      BY <3>2, <3>3, <3>4
  <2>2. ASSUME NEW c \in EDs, NEW d \in EDs, n.ed[c].tail # NULL
        PROVE  n.ed[c].tail \notin ToSet(n.urb[d].td)
    <3>1. CASE c = e /\ d = e
      BY <1>1, <1>4, <1>7, <3>1
    <3>2. CASE c = e /\ d # e
      BY <1>4, <1>9, <1>10, <3>2
    <3>3. CASE c # e /\ d = e
      <4>1. m.ed[c].tail \notin ToSet(q) /\ m.ed[c].tail # old /\ n.ed[c].tail = m.ed[c].tail
        BY <1>6, <1>8, <1>9, <1>11, <2>2, <3>3 DEF Accounts
      <4> QED
        BY <1>7, <3>3, <4>1
    <3>4. CASE c # e /\ d # e
      BY <1>6, <1>9, <2>2, <3>4 DEF Accounts
    <3> QED
      BY <3>1, <3>2, <3>3, <3>4
  <2>3. ASSUME NEW c \in EDs, NEW d \in EDs, c # d, NEW t \in ToSet(n.urb[c].td)
        PROVE  t \notin ToSet(n.urb[d].td)
    <3>1. CASE c = e
      <4>1. t = old \/ t \in ToSet(m.urb[e].td)
        BY <1>7, <1>8, <2>3, <3>1
      <4>2. t \notin ToSet(m.urb[d].td)
        BY <1>1, <1>6, <2>3, <3>1, <4>1 DEF Accounts
      <4> QED
        BY <1>9, <2>3, <3>1, <4>2
    <3>2. CASE d = e
      <4>1. t \in ToSet(m.urb[c].td)
        BY <1>9, <2>3, <3>2
      <4>2. t # old /\ t \notin ToSet(q)
        BY <1>1, <1>6, <1>8, <2>3, <3>2, <4>1 DEF Accounts
      <4> QED
        BY <1>7, <3>2, <4>2
    <3>3. CASE c # e /\ d # e
      BY <1>6, <1>9, <2>3, <3>3 DEF Accounts
    <3> QED
      BY <3>1, <3>2, <3>3
  <2>4. ASSUME NEW c \in EDs, NEW d \in EDs, c # d, n.ed[c].tail = n.ed[d].tail
        PROVE  n.ed[c].tail = NULL
    <3>1. c # e
      BY <1>4, <1>9, <1>10, <2>4
    <3>2. d # e
      BY <1>4, <1>9, <1>10, <2>4
    <3> QED
      BY <1>6, <1>9, <2>4, <3>1, <3>2 DEF Accounts
  <2> QED
    BY <2>1, <2>2, <2>3, <2>4 DEF Accounts
<1>13. \A d \in EDs : UrbOf(d, n.urb[d], n.ed[d])
  <2> SUFFICES ASSUME NEW d \in EDs PROVE UrbOf(d, n.urb[d], n.ed[d])
    OBVIOUS
  <2>1. CASE d = e
    <3>1. Len(n.urb[e].td) = Len(m.urb[e].td)
      BY <1>7 DEF q
    <3>2. n.urb[e].live
      BY <1>4
    <3>3. n.ed[e].tail # NULL /\ n.ed[e].state = m.ed[e].state /\ m.ed[e].tail # NULL
      BY <1>4, <1>8
    <3>4. /\ Len(m.urb[e].td) \in 1 .. NUM_TD
          /\ e \in Interrupt => Len(m.urb[e].td) <= 1
          /\ m.ed[e].state = "NEW" <=> m.ed[e].tail = NULL
      BY <1>6 DEF UrbOf
    <3> QED
      BY <1>7, <2>1, <3>1, <3>2, <3>3, <3>4 DEF UrbOf
  <2>2. CASE d # e
    BY <1>2, <1>6, <2>2
  <2> QED
    BY <2>1, <2>2
<1> QED
  BY <1>12, <1>13 DEF Sound

(* The same, TD by TD. *)
FilledOwn(m, e, i, n) ==
    LET old == m.ed[e].tail
        new == m.urb[e].td[i]
    IN  /\ Len(n.urb[e].td) = Len(m.urb[e].td) /\ n.urb[e].td[i] = old
        /\ \A a \in 1 .. Len(m.urb[e].td) : a # i =>
              /\ n.urb[e].td[a] = m.urb[e].td[a]
              /\ n.td[m.urb[e].td[a]] = m.td[m.urb[e].td[a]]
        /\ n.td[old].next = new /\ n.td[old].ed = e /\ n.td[old].index = i - 1 /\ n.td[old].cc = OK
        /\ n.ed[e].tail = new /\ n.ed[e].head = m.ed[e].head /\ n.ed[e].state = m.ed[e].state
        /\ n.ed[e].halted = m.ed[e].halted
        /\ n.urb[e].td_cnt = m.urb[e].td_cnt
        /\ n.urb[e].live = m.urb[e].live /\ n.urb[e].finished = m.urb[e].finished

FilledOthers(m, e, n) ==
    \A d \in EDs : d # e =>
        /\ n.urb[d] = m.urb[d] /\ n.ed[d] = m.ed[d]
        /\ \A a \in 1 .. Len(m.urb[d].td) : n.td[m.urb[d].td[a]] = m.td[m.urb[d].td[a]]

LEMMA FillFields ==
    ASSUME NEW m \in Memory, Sound(m), NEW e \in EDs, m.urb[e].live,
           NEW i \in 1 .. Len(m.urb[e].td), NEW n, n = td_fill(m, e, i)
    PROVE  n \in Memory /\ FilledOwn(m, e, i, n) /\ FilledOthers(m, e, n)
<1> DEFINE old == m.ed[e].tail
           new == m.urb[e].td[i]
           q == m.urb[e].td
<1>1. /\ i \in Nat /\ i <= NUM_TD /\ old \in TDs /\ new \in TDs /\ new \in ToSet(q) /\ new # old
      /\ \A d \in EDs : old \notin ToSet(m.urb[d].td)
  BY FillReady
<1>2. FillGives(m, e, i, n)
  <2>1. i <= NUM_TD /\ m.ed[e].tail \in TDs /\ m.urb[e].td[i] # m.ed[e].tail
    BY <1>1
  <2> QED
    BY <2>1, FillEffect
<1>3. /\ m.ed[e] \in Ed /\ m.urb[e] \in Urb /\ q \in Seq(TDs) /\ Len(q) \in Nat
      /\ \A d \in EDs : m.urb[d].td \in Seq(TDs)
  BY MemoryTypes, InSequence DEF Memory
<1>4. n.urb[e] = [m.urb[e] EXCEPT !.td = [q EXCEPT ![i] = old]]
  BY <1>2 DEF FillGives
<1>5. n.ed[e] = [m.ed[e] EXCEPT !.tail = new]
  BY <1>2 DEF FillGives
<1>6. n.td[old] = FilledTd(m, e, i)
  BY <1>2 DEF FillGives
<1>7. \A t \in TDs : t # new /\ t # old => n.td[t] = m.td[t]
  BY <1>2 DEF FillGives
<1>8. /\ Len([q EXCEPT ![i] = old]) = Len(q) /\ [q EXCEPT ![i] = old][i] = old
      /\ \A a \in 1 .. Len(q) : a # i => [q EXCEPT ![i] = old][a] = q[a]
  <2>1. i \in 1 .. Len(q)
    OBVIOUS
  <2> HIDE DEF q, old
  <2> QED
    BY <1>1, <1>3, <2>1
<1>9. ASSUME NEW a \in 1 .. Len(q), a # i PROVE n.td[q[a]] = m.td[q[a]]
  <2>1. q[a] \in TDs /\ q[a] # old
    BY <1>1, <1>3, InSequence
  <2>2. q[a] # new
    BY <1>9 DEF Sound, UrbOf
  <2> QED
    BY <1>7, <2>1, <2>2
<1>10. FilledOwn(m, e, i, n)
  <2>1. n.td[old].next = new /\ n.td[old].ed = e /\ n.td[old].index = i - 1 /\ n.td[old].cc = OK
    BY <1>6 DEF FilledTd
  <2> HIDE DEF q, old, new
  <2>2. /\ n.ed[e].tail = new /\ n.ed[e].head = m.ed[e].head /\ n.ed[e].state = m.ed[e].state
        /\ n.ed[e].halted = m.ed[e].halted
    BY <1>3, <1>5 DEF Ed
  <2>3. /\ n.urb[e].td = [q EXCEPT ![i] = old] /\ n.urb[e].td_cnt = m.urb[e].td_cnt
        /\ n.urb[e].live = m.urb[e].live /\ n.urb[e].finished = m.urb[e].finished
    BY <1>3, <1>4 DEF Urb
  <2>4. /\ Len(n.urb[e].td) = Len(q) /\ n.urb[e].td[i] = old
        /\ \A a \in 1 .. Len(q) : a # i => n.urb[e].td[a] = q[a]
    BY <1>8, <2>3
  <2> QED
    BY <1>9, <2>1, <2>2, <2>3, <2>4 DEF FilledOwn, q, old, new
<1>11. FilledOthers(m, e, n)
  <2> SUFFICES ASSUME NEW d \in EDs, d # e
               PROVE  /\ n.urb[d] = m.urb[d] /\ n.ed[d] = m.ed[d]
                      /\ \A a \in 1 .. Len(m.urb[d].td) : n.td[m.urb[d].td[a]] = m.td[m.urb[d].td[a]]
    BY DEF FilledOthers
  <2>1. n.urb[d] = m.urb[d] /\ n.ed[d] = m.ed[d]
    BY <1>2 DEF FillGives
  <2>2. ASSUME NEW a \in 1 .. Len(m.urb[d].td) PROVE n.td[m.urb[d].td[a]] = m.td[m.urb[d].td[a]]
    <3>1. m.urb[d].td[a] \in TDs /\ m.urb[d].td[a] \in ToSet(m.urb[d].td)
      BY <1>3, InSequence
    <3>2. new \notin ToSet(m.urb[d].td)
      BY <1>1 DEF Sound, Accounts
    <3> QED
      BY <1>1, <1>7, <3>1, <3>2
  <2> QED
    BY <2>1, <2>2
<1>12. n \in Memory
  BY <1>2 DEF FillGives
<1> QED
  BY <1>10, <1>11, <1>12

(* The queue with one more TD. *)
LEMMA FillQueue ==
    ASSUME NEW m, NEW e, NEW i, NEW n, FilledOwn(m, e, i, n),
           i \in 1 .. Len(m.urb[e].td), Len(m.urb[e].td) \in Nat,
           NEW k, NEW s, NEW h, Queue(m.td, e, m.urb[e], m.ed[e], i - 1, k, s, h)
    PROVE  Queue(n.td, e, n.urb[e], n.ed[e], i, k, s, h) /\ Kept(m, n, e, k, s)
<1> DEFINE u == m.urb[e]
           v == n.urb[e]
           old == m.ed[e].tail
<1>1. /\ k \in Nat /\ s \in Nat /\ h \in Nat /\ i \in Nat /\ h = s + 1 /\ k <= s /\ s <= i - 1
      /\ i <= Len(u.td) /\ Len(u.td) \in Nat
  <2>1. Counts(u, i - 1, k, s, h)
    BY DEF Queue
  <2> QED
    BY <2>1 DEF Counts
<1>11. u.td_cnt = k + (h - 1 - s)
  BY DEF Queue, Counts
<1>2. /\ Len(v.td) = Len(u.td) /\ v.td[i] = old
      /\ \A a \in 1 .. Len(u.td) : a # i => v.td[a] = u.td[a] /\ n.td[u.td[a]] = m.td[u.td[a]]
      /\ n.td[old].next = u.td[i] /\ n.td[old].ed = e /\ n.td[old].index = i - 1
      /\ n.ed[e].tail = u.td[i] /\ n.ed[e].head = m.ed[e].head /\ n.ed[e].state = m.ed[e].state
      /\ n.ed[e].halted = m.ed[e].halted
      /\ v.td_cnt = u.td_cnt /\ v.live = u.live /\ v.finished = u.finished
  BY DEF FilledOwn
<1>3. /\ \A a \in 1 .. i - 1 : m.td[u.td[a]].ed = e /\ m.td[u.td[a]].index = a - 1
      /\ \A a \in h .. i - 1 : m.td[u.td[a]].next = IF a = i - 1 THEN old ELSE u.td[a + 1]
      /\ m.ed[e].head = IF h = (i - 1) + 1 THEN old ELSE u.td[h]
  BY DEF Queue, Chained
<1>4. \A a \in 1 .. i - 1 : a \in 1 .. Len(u.td) /\ a # i
  BY <1>1
<1> HIDE DEF u, v, old
<1>5. Counts(v, i, k, s, h)
  BY <1>1, <1>2, <1>11 DEF Counts
<1>6. Chained(n.td, e, v, n.ed[e], i, h)
  <2>1. ASSUME NEW a \in 1 .. i PROVE n.td[v.td[a]].ed = e /\ n.td[v.td[a]].index = a - 1
    <3>1. CASE a = i
      BY <1>2, <3>1
    <3>2. CASE a \in 1 .. i - 1
      <4>1. v.td[a] = u.td[a] /\ n.td[u.td[a]] = m.td[u.td[a]]
        BY <1>2, <1>4, <3>2
      <4> QED
        BY <1>3, <3>2, <4>1
    <3> QED
      BY <1>1, <3>1, <3>2
  <2>2. ASSUME NEW a \in h .. i
        PROVE  n.td[v.td[a]].next = IF a = i THEN n.ed[e].tail ELSE v.td[a + 1]
    <3>1. CASE a = i
      BY <1>2, <3>1
    <3>2. CASE a # i
      <4>1. a \in h .. i - 1 /\ a \in 1 .. i - 1
        BY <1>1, <3>2
      <4>2. n.td[v.td[a]].next = m.td[u.td[a]].next
        BY <1>2, <1>4, <4>1
      <4>3. CASE a = i - 1
        BY <1>1, <1>2, <1>3, <3>2, <4>1, <4>2, <4>3
      <4>4. CASE a # i - 1
        <5>1. a + 1 \in 1 .. i - 1
          BY <1>1, <4>1, <4>4
        <5>2. v.td[a + 1] = u.td[a + 1]
          BY <1>2, <1>4, <5>1
        <5> QED
          BY <1>3, <3>2, <4>1, <4>2, <4>4, <5>2
      <4> QED
        BY <4>3, <4>4
    <3> QED
      BY <3>1, <3>2
  <2>3. n.ed[e].head = IF h = i + 1 THEN n.ed[e].tail ELSE v.td[h]
    <3>1. h # i + 1 /\ (i - 1) + 1 = i
      BY <1>1
    <3>2. h # i => h \in 1 .. i - 1
      BY <1>1
    <3>3. h # i => v.td[h] = u.td[h]
      BY <1>2, <1>4, <3>2
    <3> QED
      BY <1>2, <1>3, <3>1, <3>3
  <2> QED
    BY <2>1, <2>2, <2>3 DEF Chained
<1>7. \A a \in k + 1 .. s : /\ a \in 1 .. i - 1
                            /\ v.td[a] = u.td[a] /\ n.td[u.td[a]] = m.td[u.td[a]]
  <2>1. \A a \in k + 1 .. s : a \in 1 .. i - 1
    BY <1>1
  <2> QED
    BY <1>2, <1>4, <2>1
<1>8. Halts(n.td, v, n.ed[e], k, s, h)
  <2>1. Halts(m.td, u, m.ed[e], k, s, h)
    BY DEF Queue, u
  <2>2. k < s => s \in k + 1 .. s
    BY <1>1
  <2> QED
    <3>1. n.ed[e].halted = m.ed[e].halted
      BY <1>2
    <3>2. \A a \in k + 1 .. s : n.td[v.td[a]] = m.td[u.td[a]]
      BY <1>7
    <3> QED
      BY <2>1, <2>2, <3>1, <3>2 DEF Halts
<1>9. Ended(e, v, n.ed[e])
  <2>1. Ended(e, u, m.ed[e])
    BY DEF Queue, u
  <2> QED
    BY <1>2, <2>1 DEF Ended
<1> QED
  BY <1>5, <1>6, <1>7, <1>8, <1>9 DEF Queue, Kept, u, v

LEMMA SoundMemory == Shape <=> TypeOK /\ Sound(mem) /\ Place
BY DEF Shape, Sound

LEMMA FillStep == OhciInv /\ td_submit_job => OhciInv'
<1> SUFFICES ASSUME OhciInv, td_submit_job PROVE OhciInv'
  OBVIOUS
<1>0. Shape /\ TypeOK /\ Place /\ Sound(mem) /\ mem \in Memory /\ main.pc = "fill"
  BY SoundMemory DEF OhciInv, Shape, TypeOK, td_submit_job
<1>17. PICK e \in EDs : e = main.ed
  BY <1>0 DEF Place
<1>20. PICK i : i = main.n
  OBVIOUS
<1> DEFINE n == mem'
<1>1. /\ Going /\ mem.urb[e].live /\ i \in 1 .. Len(mem.urb[e].td)
  BY <1>0, <1>17, <1>20 DEF Place, Going
<1>2. n = td_fill(mem, e, i) /\ hc' = hc /\ disabled' = disabled /\ givenUp' = givenUp
  BY <1>17, <1>20 DEF td_submit_job
<1>3. /\ main' \in MainTypes
      /\ main'.ed = e /\ main'.td_list_hc = main.td_list_hc /\ main'.td_rev = main.td_rev
      /\ main'.pc = IF i = Len(mem.urb[e].td) THEN "poll" ELSE "fill"
      /\ main'.n = IF i = Len(mem.urb[e].td) THEN 0 ELSE i + 1
  <2>1. main \in MainTypes
    BY <1>0 DEF TypeOK, MainTypes
  <2>2. Len(mem.urb[e].td) \in 1 .. NUM_TD
    BY <1>0, <1>1 DEF Sound, UrbOf
  <2>3. CASE i = Len(mem.urb[e].td)
    <3>1. main' = [main EXCEPT !.pc = "poll", !.n = 0]
      BY <1>17, <1>20, <2>3 DEF td_submit_job
    <3>2. 0 \in 0 .. NUM_TD
      BY TdNumbers
    <3> QED
      BY <1>17, <2>1, <2>3, <3>1, <3>2 DEF MainTypes
  <2>4. CASE i # Len(mem.urb[e].td)
    <3>1. main' = [main EXCEPT !.n = i + 1]
      BY <1>17, <1>20, <2>4 DEF td_submit_job
    <3>2. i + 1 \in 0 .. NUM_TD
      BY <1>1, <2>2, <2>4, TdNumbers
    <3> QED
      BY <1>0, <1>17, <2>1, <2>4, <3>1, <3>2 DEF MainTypes
  <2> QED
    BY <2>3, <2>4
<1>4. n \in Memory /\ FilledOwn(mem, e, i, n) /\ FilledOthers(mem, e, n) /\ Sound(n)
  <2>1. n \in Memory /\ FilledOwn(mem, e, i, n) /\ FilledOthers(mem, e, n)
    BY <1>0, <1>1, <1>2, FillFields
  <2>2. Sound(n)
    BY <1>0, <1>1, <1>2, FillSound
  <2> QED
    BY <2>1, <2>2
<1>5. /\ Len(n.urb[e].td) = Len(mem.urb[e].td) /\ n.urb[e].td_cnt = mem.urb[e].td_cnt
      /\ n.urb[e].live = mem.urb[e].live /\ n.urb[e].finished = mem.urb[e].finished
      /\ n.ed[e].halted = mem.ed[e].halted
  BY <1>4 DEF FilledOwn
<1>6. \A d \in EDs : d # e => n.urb[d] = mem.urb[d] /\ n.ed[d] = mem.ed[d]
  BY <1>4 DEF FilledOthers
<1>7. \A d \in EDs : Len(mem.urb[d].td) \in Nat
  BY <1>0, Types, InSequence
<1>8. TypeOK'
  <2>1. \A d \in EDs : n.urb[d].td_cnt <= Len(n.urb[d].td)
    <3>1. \A d \in EDs : mem.urb[d].td_cnt <= Len(mem.urb[d].td)
      BY <1>0 DEF TypeOK
    <3> QED
      BY <1>5, <1>6, <3>1
  <2>2. hc' \in HcTypes /\ disabled' \in BOOLEAN /\ givenUp' \subseteq TDs
    BY <1>0, <1>2 DEF TypeOK, HcTypes
  <2> QED
    BY <1>3, <1>4, <2>1, <2>2 DEF TypeOK, HcTypes, MainTypes
<1>9. Place'
  <2>1. /\ main'.pc \in {"fill", "poll"} /\ ~disabled' /\ givenUp' = {} /\ main'.ed \in EDs
        /\ n.urb[main'.ed].live
    BY <1>0, <1>1, <1>2, <1>3, <1>5 DEF Going
  <2>2. main'.pc = "fill" => main'.n \in 1 .. Len(n.urb[main'.ed].td)
    <3>1. main'.pc = "fill" => i # Len(mem.urb[e].td) /\ main'.n = i + 1
      BY <1>3
    <3>2. i # Len(mem.urb[e].td) => i + 1 \in 1 .. Len(mem.urb[e].td)
      BY <1>1, <1>7
    <3> QED
      BY <1>3, <1>5, <3>1, <3>2
  <2>3. \A d \in EDs : d \notin Interrupt /\ n.urb[d].live => main'.ed = d
    <3>1. \A d \in EDs : d \notin Interrupt /\ mem.urb[d].live => e = d
      BY <1>0, <1>17 DEF Place
    <3> QED
      BY <1>3, <1>6, <3>1
  <2> QED
    BY <2>1, <2>2, <2>3 DEF Place
<1>10. Shape'
  BY <1>4, <1>8, <1>9 DEF Shape, Sound
<1>11. main.td_list_hc = NULL /\ main.td_rev = <<>>
  <2>1. PICK f, lo, mid, fetched, written, hi, k, s, h :
            Witness(f, lo, mid, fetched, written, hi, k, s, h)
    BY <1>1, WithWitness
  <2> QED
    BY <1>0, <2>1, NothingFetched DEF Witness, History
<1>13. Filled(e) = i - 1
  BY <1>0, <1>17, <1>20 DEF Filled
<1>14. i \in Nat /\ Filled(e)' = i
  <2>1. i \in Nat /\ (i + 1) - 1 = i
    BY <1>1
  <2>2. main'.pc = "fill" => i + 1 = main'.n
    BY <1>3
  <2>3. main'.pc # "fill" => Len(n.urb[e].td) = i
    BY <1>3, <1>5
  <2> QED
    BY <1>3, <2>1, <2>2, <2>3 DEF Filled
<1>15. OthersSame(e)
  <2>1. \A d : d # e => Filled(d)' = Len(n.urb[d].td) /\ Filled(d) = Len(mem.urb[d].td)
    BY <1>3, <1>17 DEF Filled
  <2> QED
    BY <1>4, <1>6, <2>1 DEF OthersSame, FilledOthers
<1>16. QueueKept(e)
  <2> SUFFICES ASSUME NEW k, NEW s, NEW h,
                      Queue(mem.td, e, mem.urb[e], mem.ed[e], i - 1, k, s, h)
               PROVE  Queue(n.td, e, n.urb[e], n.ed[e], i, k, s, h) /\ Kept(mem, n, e, k, s)
    BY <1>13, <1>14 DEF QueueKept
  <2>1. FilledOwn(mem, e, i, n) /\ Len(mem.urb[e].td) \in Nat /\ i \in 1 .. Len(mem.urb[e].td)
    BY <1>1, <1>4, <1>7
  <2> HIDE DEF n
  <2> QED
    BY <2>1, FillQueue
<1>19. main'.pc \in {"idle", "fill", "poll"} /\ main'.td_list_hc = NULL /\ main'.td_rev = <<>>
  BY <1>3, <1>11
<1>21. mem'.ed[e].halted = mem.ed[e].halted
  BY <1>5
<1> QED
  BY <1>0, <1>1, <1>2, <1>10, <1>15, <1>16, <1>19, <1>21, SameHistory

-----------------------------------------------------------------------------
(* sohci_submit_job.  There is always a TD for an endpoint that is new: of *)
(* the other endpoints each has at most a dummy and one TD of a URB.       *)
LEMMA ImageSize ==
    ASSUME NEW S, IsFiniteSet(S), NEW g, g = [x \in S |-> g[x]]
    PROVE  /\ IsFiniteSet({g[x] : x \in S})
           /\ Cardinality({g[x] : x \in S}) <= Cardinality(S)
<1> DEFINE T == {g[x] : x \in S}
<1>1. g \in [S -> T]
  OBVIOUS
<1>2. g \in Surjection(S, T)
  BY <1>1 DEF Surjection
<1> QED
  BY <1>2, FS_Surjection

LEMMA TdsFinite == IsFiniteSet(TDs) /\ Cardinality(TDs) = NUM_TD
<1>1. /\ IsFiniteSet(1 .. NUM_TD)
      /\ Cardinality(1 .. NUM_TD) = IF 1 > NUM_TD THEN 0 ELSE NUM_TD - 1 + 1
  BY TdNumbers, FS_Interval
<1> QED
  BY <1>1, TdNumbers DEF TDs

LEMMA SomeUnused ==
    ASSUME Shape, main = Idle, NEW e \in EDs, mem.ed[e].state = "NEW"
    PROVE  Unused(mem) # {}
<1> SUFFICES ASSUME Unused(mem) = {} PROVE FALSE
  OBVIOUS
<1>0. TypeOK /\ Place /\ Accounts(mem.td, mem.ed, mem.urb) /\ \A d \in EDs : UrbOf(d, mem.urb[d], mem.ed[d])
  BY DEF Shape
<1> DEFINE S == EDs \ {e}
           g1 == [d \in S |-> mem.ed[d].tail]
           g2 == [d \in S |-> mem.urb[d].td[1]]
           A == {g1[d] : d \in S}
           B == {g2[d] : d \in S}
<1>1. IsFiniteSet(S) /\ Cardinality(S) = Cardinality(EDs) - 1 /\ Cardinality(EDs) \in Nat
  BY OhciAssumption, FS_RemoveElement, FS_CardinalityType
<1>2. IsFiniteSet(A) /\ Cardinality(A) <= Cardinality(S)
  <2>1. g1 = [x \in S |-> g1[x]]
    OBVIOUS
  <2> HIDE DEF g1, S
  <2> QED
    BY <1>1, <2>1, ImageSize
<1>3. IsFiniteSet(B) /\ Cardinality(B) <= Cardinality(S)
  <2>1. g2 = [x \in S |-> g2[x]]
    OBVIOUS
  <2> HIDE DEF g2, S
  <2> QED
    BY <1>1, <2>1, ImageSize
<1>4. TDs \subseteq A \cup B
  <2> SUFFICES ASSUME NEW t \in TDs PROVE t \in A \cup B
    OBVIOUS
  <2>1. mem.td[t].used
    BY DEF Unused
  <2>2. \A d \in EDs : mem.urb[d].td \in Seq(TDs)
    BY <1>0, Types
  <2>3. mem.ed[e].tail = NULL /\ ToSet(mem.urb[e].td) = {}
    <3>1. mem.ed[e].tail = NULL
      BY <1>0 DEF UrbOf
    <3>2. ~mem.urb[e].live
      BY <1>0, <3>1 DEF UrbOf
    <3>3. mem.urb[e] = NoUrb
      BY <1>0, <3>2 DEF UrbOf
    <3> QED
      BY <3>1, <3>3, EmptySequence DEF NoUrb
  <2>4. CASE \E d \in EDs : mem.ed[d].tail = t
    <3>1. PICK d \in EDs : mem.ed[d].tail = t
      BY <2>4
    <3>2. d \in S
      BY <2>3, <3>1, TdNumbers
    <3>3. g1[d] = t
      BY <3>1, <3>2
    <3> HIDE DEF S, g1
    <3> QED
      BY <3>2, <3>3
  <2>5. CASE \E d \in EDs : t \in ToSet(mem.urb[d].td)
    <3>1. PICK d \in EDs : t \in ToSet(mem.urb[d].td)
      BY <2>5
    <3>2. d \in S
      BY <2>3, <3>1
    <3>3. mem.urb[d].live
      <4>1. ~mem.urb[d].live => mem.urb[d].td = <<>>
        BY <1>0 DEF UrbOf, NoUrb
      <4> QED
        BY <3>1, <4>1, EmptySequence
    <3>4. d \in Interrupt
      BY <1>0, <3>3, TdNumbers DEF Place, Idle
    <3>5. Len(mem.urb[d].td) <= 1
      BY <1>0, <3>4 DEF UrbOf
    <3>6. PICK i \in 1 .. Len(mem.urb[d].td) : t = mem.urb[d].td[i]
      BY <2>2, <3>1, InSequence
    <3>7. i = 1
      <4>1. Len(mem.urb[d].td) \in Nat
        BY <2>2, InSequence
      <4> QED
        BY <3>5, <4>1
    <3>8. g2[d] = t
      BY <3>2, <3>6, <3>7
    <3> HIDE DEF S, g2
    <3> QED
      BY <3>2, <3>8
  <2> QED
    BY <1>0, <2>1, <2>4, <2>5 DEF Accounts
<1> HIDE DEF A, B, S
<1>5. IsFiniteSet(A \cup B) /\ Cardinality(A \cup B) <= Cardinality(A) + Cardinality(B)
  <2>1. /\ IsFiniteSet(A \cup B)
        /\ Cardinality(A \cup B) = Cardinality(A) + Cardinality(B) - Cardinality(A \cap B)
    BY <1>2, <1>3, FS_Union
  <2>2. Cardinality(A \cap B) \in Nat
    <3>1. IsFiniteSet(A \cap B)
      BY <1>2, FS_Subset
    <3> QED
      BY <3>1, FS_CardinalityType
  <2>3. Cardinality(A) \in Nat /\ Cardinality(B) \in Nat
    BY <1>2, <1>3, FS_CardinalityType
  <2> QED
    BY <2>1, <2>2, <2>3
<1>6. NUM_TD <= Cardinality(A \cup B)
  BY <1>4, <1>5, TdsFinite, FS_Subset
<1>7. /\ Cardinality(A) \in Nat /\ Cardinality(B) \in Nat /\ Cardinality(A \cup B) \in Nat
  BY <1>2, <1>3, <1>5, FS_CardinalityType
<1>8. NUM_TD \in Nat /\ NUM_TD >= 2 * Cardinality(EDs)
  BY OhciAssumption
<1>9. Cardinality(S) \in Nat
  BY <1>1, FS_CardinalityType
<1> QED
  BY <1>1, <1>2, <1>3, <1>5, <1>6, <1>7, <1>8, <1>9

LEMMA FirstUnused ==
    ASSUME NEW m, Unused(m) # {}
    PROVE  First(m) \in TDs /\ First(m) \in Unused(m) /\ ~m.td[First(m)].used
<1>1. Unused(m) \in SUBSET Nat /\ Unused(m) \subseteq TDs
  BY TdNumbers DEF Unused
<1>2. \E t \in Unused(m) : \A s \in Unused(m) : t <= s
  BY <1>1, LeastIn
<1>3. First(m) \in Unused(m)
  BY <1>2 DEF First
<1> QED
  BY <1>1, <1>3 DEF Unused

(* With the dummy of its queue: what was in use stays as it was. *)
Ready(m, n, e) ==
    /\ n \in Memory
    /\ \A t \in TDs : m.td[t].used => n.td[t] = m.td[t]
    /\ Accounts(n.td, n.ed, n.urb)
    /\ \A d \in EDs : d # e => n.urb[d] = m.urb[d] /\ n.ed[d] = m.ed[d]
    /\ n.ed[e].tail \in TDs /\ n.ed[e].state # "NEW" /\ n.ed[e].halted = m.ed[e].halted
    /\ m.ed[e].head = m.ed[e].tail => n.ed[e].head = n.ed[e].tail
    /\ m.ed[e].state # "OPER" => n.ed[e].state # "OPER"

LEMMA AddEffect ==
    ASSUME Shape, main = Idle, NEW e \in EDs
    PROVE  Ready(mem, ep_add_ed(mem, e), e) /\ ep_add_ed(mem, e).urb = mem.urb
<1> DEFINE n == ep_add_ed(mem, e)
<1>0. /\ mem \in Memory /\ Accounts(mem.td, mem.ed, mem.urb) /\ UrbOf(e, mem.urb[e], mem.ed[e])
      /\ mem.ed[e].tail \in TDs \cup {NULL}
  BY Types DEF Shape, TypeOK
<1>1. CASE mem.ed[e].state # "NEW"
  <2>1. n = mem
    BY <1>1 DEF ep_add_ed
  <2>2. mem.ed[e].tail # NULL
    BY <1>0, <1>1 DEF UrbOf
  <2> QED
    BY <1>0, <1>1, <2>1, <2>2 DEF Ready
<1>2. CASE mem.ed[e].state = "NEW"
  <2> DEFINE x == First(mem)
             r == [mem.td[x] EXCEPT !.used = TRUE]
             q == [mem.ed[e] EXCEPT !.state = "UNLINK", !.head = x, !.tail = x]
  <2>1. x \in TDs /\ ~mem.td[x].used
    BY <1>2, SomeUnused, FirstUnused
  <2>2. /\ mem.td \in [TDs -> Td] /\ mem.ed \in [EDs -> Ed] /\ mem.urb \in [EDs -> Urb]
        /\ mem = [td |-> mem.td, ed |-> mem.ed, urb |-> mem.urb]
    BY <1>0 DEF Memory
  <2>3. n = [td |-> [mem.td EXCEPT ![x] = r], ed |-> [mem.ed EXCEPT ![e] = q], urb |-> mem.urb]
    <3> DEFINE a == td_alloc(mem)
    <3>1. a = [td |-> [mem.td EXCEPT ![x] = r], ed |-> mem.ed, urb |-> mem.urb]
      <4>1. a = [mem EXCEPT !.td[x].used = TRUE]
        BY DEF td_alloc
      <4> HIDE DEF a, x
      <4> QED
        BY <1>0, <2>1, <2>2, <4>1 DEF Memory
    <3>2. n = [a EXCEPT !.ed[e].state = "UNLINK", !.ed[e].head = x, !.ed[e].tail = x]
      BY <1>2 DEF ep_add_ed
    <3> DEFINE p1 == [mem.ed[e] EXCEPT !.state = "UNLINK"]
               p2 == [p1 EXCEPT !.head = x]
    <3>3. q = [p2 EXCEPT !.tail = x]
      OBVIOUS
    <3>4. n = [td |-> a.td, ed |-> [[[mem.ed EXCEPT ![e] = p1] EXCEPT ![e] = p2] EXCEPT ![e] = q],
               urb |-> a.urb]
      <4> HIDE DEF a, x
      <4>1. a.ed = mem.ed /\ a = [td |-> a.td, ed |-> a.ed, urb |-> a.urb]
        BY <3>1
      <4>2. n = [td |-> a.td, urb |-> a.urb,
                 ed |-> [a.ed EXCEPT ![e].state = "UNLINK", ![e].head = x, ![e].tail = x]]
        BY <3>2, <4>1
      <4> QED
        BY <2>2, <4>1, <4>2
    <3> HIDE DEF a, x, r, p1, p2, q
    <3>5. [[[mem.ed EXCEPT ![e] = p1] EXCEPT ![e] = p2] EXCEPT ![e] = q] = [mem.ed EXCEPT ![e] = q]
      OBVIOUS
    <3> QED
      BY <3>1, <3>4, <3>5
  <2>4. mem.td[x] \in Td /\ mem.ed[e] \in Ed
    BY <2>1, <2>2
  <2> HIDE DEF x, n
  <2>5. r \in Td /\ q \in Ed
    BY <2>1, <2>4 DEF Td, Ed
  <2>6. q.tail = x /\ q.head = x /\ q.state = "UNLINK" /\ q.halted = mem.ed[e].halted /\ r.used
    BY <2>1, <2>4 DEF Td, Ed
  <2> HIDE DEF r, q
  <2>7. /\ n.td = [mem.td EXCEPT ![x] = r] /\ n.ed = [mem.ed EXCEPT ![e] = q] /\ n.urb = mem.urb
    BY <2>3
  <2>8. n \in Memory
    BY <2>2, <2>3, <2>5 DEF Memory
  <2>9. /\ n.td[x] = r /\ \A t \in TDs : t # x => n.td[t] = mem.td[t]
        /\ n.ed[e] = q /\ \A d \in EDs : d # e => n.ed[d] = mem.ed[d]
    BY <2>1, <2>2, <2>7
  <2>10. mem.ed[e].tail = NULL
    BY <1>0, <1>2 DEF UrbOf
  <2>11. /\ \A d \in EDs : mem.ed[d].tail # x
         /\ \A d \in EDs : x \notin ToSet(mem.urb[d].td)
    BY <1>0, <2>1 DEF Accounts
  <2>12. x # NULL
    BY <2>1, TdNumbers
  <2>13. Accounts(n.td, n.ed, n.urb)
    <3>1. ASSUME NEW t \in TDs
          PROVE  n.td[t].used <=> \/ \E d \in EDs : n.ed[d].tail = t
                                  \/ \E d \in EDs : t \in ToSet(n.urb[d].td)
      <4>1. CASE t = x
        BY <2>6, <2>9, <4>1
      <4>2. CASE t # x
        <5>1. \A d \in EDs : n.ed[d].tail = t <=> mem.ed[d].tail = t
          BY <2>6, <2>9, <2>10, <4>2, TdNumbers
        <5> QED
          BY <1>0, <2>7, <2>9, <4>2, <5>1 DEF Accounts
      <4> QED
        BY <4>1, <4>2
    <3>2. \A c, d \in EDs : n.ed[c].tail # NULL => n.ed[c].tail \notin ToSet(n.urb[d].td)
      BY <1>0, <2>6, <2>7, <2>9, <2>11 DEF Accounts
    <3>3. \A c, d \in EDs : c # d => \A t \in ToSet(n.urb[c].td) : t \notin ToSet(n.urb[d].td)
      BY <1>0, <2>7 DEF Accounts
    <3>4. \A c, d \in EDs : c # d /\ n.ed[c].tail = n.ed[d].tail => n.ed[c].tail = NULL
      BY <1>0, <2>6, <2>9, <2>11 DEF Accounts
    <3> QED
      BY <3>1, <3>2, <3>3, <3>4 DEF Accounts
  <2>14. \A t \in TDs : mem.td[t].used => n.td[t] = mem.td[t]
    BY <2>1, <2>9
  <2>15. /\ \A d \in EDs : d # e => n.urb[d] = mem.urb[d] /\ n.ed[d] = mem.ed[d]
         /\ n.ed[e].tail \in TDs /\ n.ed[e].state # "NEW" /\ n.ed[e].halted = mem.ed[e].halted
         /\ n.ed[e].head = n.ed[e].tail /\ n.ed[e].state # "OPER"
    BY <2>1, <2>6, <2>7, <2>9
  <2>16. Ready(mem, n, e)
    BY <2>8, <2>13, <2>14, <2>15 DEF Ready
  <2> QED
    BY <2>7, <2>16 DEF n
<1> QED
  BY <1>1, <1>2

Alive(a, e) == [a EXCEPT !.urb[e].live = TRUE]
LiveUrb == [NoUrb EXCEPT !.live = TRUE]

LEMMA LiveEffect ==
    ASSUME NEW m, NEW a, NEW e \in EDs, Ready(m, a, e), a.urb = m.urb, m.urb[e] = NoUrb,
           NEW n, n = Alive(a, e)
    PROVE  Ready(m, n, e) /\ n.urb[e] = LiveUrb
<1> DEFINE u == [NoUrb EXCEPT !.live = TRUE]
<1>1. a \in Memory
  BY DEF Ready
<1>2. /\ a.td \in [TDs -> Td] /\ a.ed \in [EDs -> Ed] /\ a.urb \in [EDs -> Urb]
      /\ a = [td |-> a.td, ed |-> a.ed, urb |-> a.urb]
  BY <1>1 DEF Memory
<1>3. n = [td |-> a.td, ed |-> a.ed, urb |-> [a.urb EXCEPT ![e] = u]]
  BY <1>2 DEF Alive
<1>4. u \in Urb /\ u.td = <<>>
  BY EmptySequence DEF NoUrb, Urb
<1>5. NoUrb.td = <<>>
  BY DEF NoUrb
<1> HIDE DEF u
<1>6. n \in Memory
  <2>1. [a.urb EXCEPT ![e] = u] \in [EDs -> Urb] /\ a.td \in [TDs -> Td] /\ a.ed \in [EDs -> Ed]
    BY <1>2, <1>4
  <2> DEFINE U == [a.urb EXCEPT ![e] = u]
  <2>2. U \in [EDs -> Urb] /\ n = [td |-> a.td, ed |-> a.ed, urb |-> U]
    BY <1>3, <2>1
  <2> HIDE DEF U
  <2>3. [td |-> a.td, ed |-> a.ed, urb |-> U] \in Memory
    BY <2>1, <2>2 DEF Memory
  <2> QED
    BY <2>2, <2>3
<1>7. /\ n.td = a.td /\ n.ed = a.ed /\ n.urb[e] = u
      /\ \A d \in EDs : d # e => n.urb[d] = a.urb[d]
  BY <1>2, <1>3
<1>8. \A d \in EDs : n.urb[d].td = a.urb[d].td
  BY <1>4, <1>5, <1>7
<1>9. Accounts(n.td, n.ed, n.urb)
  <2>1. Accounts(a.td, a.ed, a.urb)
    BY DEF Ready
  <2>2. Accounts(a.td, a.ed, n.urb)
    <3> DEFINE U == n.urb
               V == a.urb
    <3>1. \A d \in EDs : U[d].td = V[d].td
      BY <1>8
    <3> HIDE DEF U, V
    <3>2. Accounts(a.td, a.ed, V) => Accounts(a.td, a.ed, U)
      BY <3>1 DEF Accounts
    <3> QED
      BY <2>1, <3>2 DEF U, V
  <2> QED
    BY <1>7, <2>2
<1>10. Ready(m, n, e)
  BY <1>6, <1>7, <1>9 DEF Ready
<1> QED
  BY <1>7, <1>10 DEF u, LiveUrb

(* The TDs allocated, none of them in use and none twice. *)
Granted(a, e, n, m) ==
    /\ m \in Memory /\ m.ed = a.ed /\ \A d \in EDs : d # e => m.urb[d] = a.urb[d]
    /\ m.urb[e] = [a.urb[e] EXCEPT !.td = m.urb[e].td]
    /\ Len(m.urb[e].td) \in Nat /\ Len(m.urb[e].td) <= n /\ Len(m.urb[e].td) <= NUM_TD
    /\ \A i, j \in 1 .. Len(m.urb[e].td) : m.urb[e].td[i] = m.urb[e].td[j] => i = j
    /\ \A t \in TDs : a.td[t].used => m.td[t] = a.td[t] /\ t \notin ToSet(m.urb[e].td)
    /\ Accounts(m.td, m.ed, m.urb)

LEMMA AllocatedEffect ==
    ASSUME NEW a \in Memory, Accounts(a.td, a.ed, a.urb), NEW e \in EDs, a.urb[e].td = <<>>,
           NEW n \in Nat, NEW m \in Allocated(a, e, n)
    PROVE  Granted(a, e, n, m)
<1> DEFINE free == Cardinality(Unused(a))
           count == IF n <= free THEN n ELSE free
<1>1. Unused(a) \subseteq TDs
  BY DEF Unused
<1>2. free \in Nat /\ free <= NUM_TD
  BY <1>1, TdsFinite, FS_Subset, FS_CardinalityType
<1>3. count \in Nat /\ count <= n /\ count <= NUM_TD
  BY <1>2, TdNumbers
<1>4. PICK s \in [1 .. count -> Unused(a)] :
          /\ \A i \in 1 .. count : \A t \in Unused(a) :
                t < s[i] <=> \E j \in 1 .. i - 1 : s[j] = t
          /\ m = [a EXCEPT !.td = [t \in TDs |-> [a.td[t] EXCEPT !.used = @ \/ t \in ToSet(s)]],
                           !.urb[e].td = s]
  BY DEF Allocated
<1> DEFINE td == [t \in TDs |-> [a.td[t] EXCEPT !.used = @ \/ t \in ToSet(s)]]
           u == [a.urb[e] EXCEPT !.td = s]
<1>5. /\ a.td \in [TDs -> Td] /\ a.ed \in [EDs -> Ed] /\ a.urb \in [EDs -> Urb]
      /\ m = [td |-> td, ed |-> a.ed, urb |-> [a.urb EXCEPT ![e] = u]]
  BY <1>4 DEF Memory
<1> HIDE DEF count
<1>6. s \in Seq(TDs) /\ Len(s) = count
  BY <1>1, <1>3, <1>4
<1>7. \A t \in ToSet(s) : t \in TDs /\ ~a.td[t].used
  <2> SUFFICES ASSUME NEW t \in ToSet(s) PROVE t \in TDs /\ ~a.td[t].used
    OBVIOUS
  <2>1. PICK i \in 1 .. count : t = s[i]
    BY <1>6, InSequence
  <2> QED
    BY <1>4, <2>1 DEF Unused
<1>8. \A i, j \in 1 .. count : s[i] = s[j] => i = j
  <2>1. ASSUME NEW i \in 1 .. count, NEW j \in 1 .. count, i < j PROVE s[i] # s[j]
    <3>1. i \in 1 .. j - 1 /\ s[i] \in Unused(a)
      BY <1>3, <1>4, <2>1
    <3>2. s[i] < s[j]
      BY <1>4, <3>1
    <3>3. s[i] \in Nat /\ s[j] \in Nat
      BY <1>1, <1>4, TdNumbers
    <3> QED
      BY <3>2, <3>3
  <2> SUFFICES ASSUME NEW i \in 1 .. count, NEW j \in 1 .. count, s[i] = s[j], i # j PROVE FALSE
    OBVIOUS
  <2>2. i < j \/ j < i
    BY <1>3
  <2> QED
    BY <2>1, <2>2
<1>9. \A t \in TDs : td[t] \in Td /\ (td[t].used <=> a.td[t].used \/ t \in ToSet(s))
  <2> SUFFICES ASSUME NEW t \in TDs
               PROVE  td[t] \in Td /\ (td[t].used <=> a.td[t].used \/ t \in ToSet(s))
    OBVIOUS
  <2> DEFINE r == a.td[t]
             b == r.used \/ t \in ToSet(s)
  <2>1. r \in Td /\ b \in BOOLEAN /\ td[t] = [r EXCEPT !.used = b]
    BY <1>5
  <2>2. td[t] \in Td /\ td[t].used = b
    <3> HIDE DEF r, b, td
    <3> QED
      BY <2>1 DEF Td
  <2> QED
    BY <2>2
<1>10. \A t \in TDs : a.td[t].used => td[t] = a.td[t] /\ t \notin ToSet(s)
  <2> SUFFICES ASSUME NEW t \in TDs, a.td[t].used PROVE td[t] = a.td[t]
    BY <1>7
  <2>1. td[t] = [a.td[t] EXCEPT !.used = TRUE] /\ a.td[t] \in Td
    <3>1. (a.td[t].used \/ t \in ToSet(s)) = TRUE
      OBVIOUS
    <3>2. td[t] = [a.td[t] EXCEPT !.used = (a.td[t].used \/ t \in ToSet(s))]
      OBVIOUS
    <3> QED
      BY <1>5, <3>1, <3>2
  <2> HIDE DEF td
  <2> QED
    BY <2>1 DEF Td
<1>11. u \in Urb /\ u.td = s
  <2>1. a.urb[e] \in Urb
    BY <1>5
  <2> QED
    BY <1>6, <2>1 DEF Urb
<1> HIDE DEF td, u
<1>12. /\ m.td = td /\ m.ed = a.ed /\ m.urb[e] = u /\ m.urb[e].td = s
       /\ \A d \in EDs : d # e => m.urb[d] = a.urb[d]
  BY <1>5, <1>11
<1>13. m \in Memory
  <2> DEFINE U == [a.urb EXCEPT ![e] = u]
  <2>1. U \in [EDs -> Urb] /\ td = m.td
    BY <1>5, <1>11, <1>12
  <2>2. td = [t \in TDs |-> td[t]]
    BY DEF td
  <2>3. td \in [TDs -> Td]
    BY <1>9, <2>2
  <2> HIDE DEF U
  <2>4. [td |-> td, ed |-> a.ed, urb |-> U] \in Memory
    BY <1>5, <2>1, <2>3 DEF Memory
  <2> QED
    BY <1>5, <2>4 DEF U
<1>14. ToSet(a.urb[e].td) = {}
  BY EmptySequence
<1>15. Accounts(m.td, m.ed, m.urb)
  <2>1. ASSUME NEW t \in TDs
        PROVE  m.td[t].used <=> \/ \E d \in EDs : m.ed[d].tail = t
                                \/ \E d \in EDs : t \in ToSet(m.urb[d].td)
    <3>1. CASE t \in ToSet(s)
      BY <1>9, <1>12, <3>1
    <3>2. CASE t \notin ToSet(s)
      <4>1. \A d \in EDs : t \in ToSet(m.urb[d].td) <=> t \in ToSet(a.urb[d].td)
        <5> SUFFICES ASSUME NEW d \in EDs
                     PROVE  t \in ToSet(m.urb[d].td) <=> t \in ToSet(a.urb[d].td)
          OBVIOUS
        <5>1. CASE d = e
          BY <1>12, <1>14, <3>2, <5>1
        <5>2. CASE d # e
          BY <1>12, <5>2
        <5> QED
          BY <5>1, <5>2
      <4> QED
        BY <1>9, <1>12, <3>2, <4>1 DEF Accounts
    <3> QED
      BY <3>1, <3>2
  <2>2. ASSUME NEW c \in EDs, NEW d \in EDs, m.ed[c].tail # NULL
        PROVE  m.ed[c].tail \notin ToSet(m.urb[d].td)
    <3>1. a.ed[c].tail \in TDs
      BY <1>12, <2>2, MemoryTypes
    <3>2. a.td[a.ed[c].tail].used
      BY <3>1 DEF Accounts
    <3>3. a.ed[c].tail \notin ToSet(s)
      BY <1>7, <3>2
    <3>4. d # e => a.ed[c].tail \notin ToSet(a.urb[d].td)
      BY <1>12, <2>2 DEF Accounts
    <3> QED
      BY <1>12, <3>3, <3>4
  <2>3. ASSUME NEW c \in EDs, NEW d \in EDs, c # d, NEW t \in ToSet(m.urb[c].td)
        PROVE  t \notin ToSet(m.urb[d].td)
    <3>1. \A b \in EDs : \A x \in ToSet(a.urb[b].td) : x \notin ToSet(s)
      <4> SUFFICES ASSUME NEW b \in EDs, NEW x \in ToSet(a.urb[b].td) PROVE x \notin ToSet(s)
        OBVIOUS
      <4>1. x \in TDs
        BY MemoryTypes, InSequence
      <4>2. a.td[x].used
        BY <4>1 DEF Accounts
      <4> QED
        BY <1>7, <4>2
    <3>2. CASE c = e
      BY <1>12, <2>3, <3>1, <3>2
    <3>3. CASE d = e
      BY <1>12, <2>3, <3>1, <3>3
    <3>4. CASE c # e /\ d # e
      BY <1>12, <2>3, <3>4 DEF Accounts
    <3> QED
      BY <3>2, <3>3, <3>4
  <2>4. \A c, d \in EDs : c # d /\ m.ed[c].tail = m.ed[d].tail => m.ed[c].tail = NULL
    BY <1>12 DEF Accounts
  <2> QED
    BY <2>1, <2>2, <2>3, <2>4 DEF Accounts
<1>16. \A t \in TDs : a.td[t].used => m.td[t] = a.td[t] /\ t \notin ToSet(m.urb[e].td)
  BY <1>10, <1>12
<1>17. \A i, j \in 1 .. Len(m.urb[e].td) : m.urb[e].td[i] = m.urb[e].td[j] => i = j
  BY <1>6, <1>8, <1>12
<1>18. Len(m.urb[e].td) \in Nat /\ Len(m.urb[e].td) <= n /\ Len(m.urb[e].td) <= NUM_TD
  BY <1>3, <1>6, <1>12
<1>19. m.urb[e] = [a.urb[e] EXCEPT !.td = m.urb[e].td]
  BY <1>12 DEF u
<1> QED
  BY <1>12, <1>13, <1>15, <1>16, <1>17, <1>18, <1>19 DEF Granted

(* The endpoint had no queue, and has none yet. *)
LEMMA EmptyQueue ==
    ASSUME NEW td, NEW e, NEW d, NEW k, NEW s, NEW h, Queue(td, e, NoUrb, d, 0, k, s, h),
           NEW td2, NEW v, NEW d2,
           v.td_cnt = 0, ~v.finished, Len(v.td) \in Nat,
           d2.halted = d.halted, d.head = d.tail => d2.head = d2.tail,
           e \notin Interrupt => v.live \/ (d.state # "OPER" => d2.state # "OPER")
    PROVE  Queue(td2, e, v, d2, 0, k, s, h) /\ k + 1 .. s = {}
<1>1. k = 0 /\ s = 0 /\ h = 1
  BY EmptySequence DEF Queue, Counts, NoUrb
<1>2. d.head = d.tail
  BY <1>1 DEF Queue, Chained
<1>3. ~d.halted
  BY <1>1 DEF Queue, Halts
<1>4. Counts(v, 0, k, s, h)
  BY <1>1 DEF Counts
<1>5. Chained(td2, e, v, d2, 0, h)
  BY <1>1, <1>2 DEF Chained
<1>6. Halts(td2, v, d2, k, s, h)
  BY <1>1, <1>3 DEF Halts
<1>7. Ended(e, v, d2)
  <2>1. e \notin Interrupt => d.state # "OPER"
    BY DEF Queue, Ended, NoUrb
  <2> QED
    BY <2>1 DEF Ended
<1> QED
  BY <1>1, <1>4, <1>5, <1>6, <1>7 DEF Queue

LEMMA LinkEffect ==
    ASSUME NEW m \in Memory, NEW e \in EDs, NEW n, n = ep_link(m, e)
    PROVE  /\ n \in Memory /\ n.td = m.td /\ n.urb = m.urb
           /\ n.ed[e].tail = m.ed[e].tail /\ n.ed[e].head = m.ed[e].head
           /\ n.ed[e].halted = m.ed[e].halted /\ n.ed[e].state = "OPER"
           /\ \A d \in EDs : d # e => n.ed[d] = m.ed[d]
<1> DEFINE q == [m.ed[e] EXCEPT !.state = "OPER"]
<1>1. m.td \in [TDs -> Td] /\ m.ed \in [EDs -> Ed] /\ m.urb \in [EDs -> Urb] /\ m.ed[e] \in Ed
  BY DEF Memory
<1>2. n.td = m.td /\ n.urb = m.urb /\ n.ed = [m.ed EXCEPT ![e] = q]
      /\ n = [td |-> m.td, ed |-> [m.ed EXCEPT ![e] = q], urb |-> m.urb]
  BY DEF ep_link, Memory
<1>3. q \in Ed /\ q.tail = m.ed[e].tail /\ q.head = m.ed[e].head /\ q.halted = m.ed[e].halted
      /\ q.state = "OPER"
  BY <1>1 DEF Ed
<1> HIDE DEF q
<1>4. [m.ed EXCEPT ![e] = q] \in [EDs -> Ed] /\ n.ed[e] = q
      /\ \A d \in EDs : d # e => n.ed[d] = m.ed[d]
  BY <1>1, <1>2, <1>3
<1>5. n \in Memory
  <2> DEFINE E == [m.ed EXCEPT ![e] = q]
  <2>1. E \in [EDs -> Ed] /\ n = [td |-> m.td, ed |-> E, urb |-> m.urb]
    BY <1>2, <1>4
  <2> HIDE DEF E
  <2>2. [td |-> m.td, ed |-> E, urb |-> m.urb] \in Memory
    BY <1>1, <2>1 DEF Memory
  <2> QED
    BY <2>1, <2>2
<1> QED
  BY <1>2, <1>3, <1>4, <1>5

LEMMA SizesType == \A e \in EDs : \A n \in Sizes(e) : n \in Nat /\ 1 <= n /\ (e \in Interrupt => n = 1)
BY OhciAssumption DEF Sizes

(* The step, whether it succeeds or not. *)
LEMMA Submitting ==
    ASSUME OhciInv, Going, NEW e \in EDs, main = Idle, mem.urb[e] = NoUrb,
           hc' = hc, disabled' = disabled /\ givenUp' = givenUp, mem' \in Memory, main' \in MainTypes,
           main' = Idle \/ /\ main'.pc = "fill" /\ main'.ed = e /\ main'.n = 1
                           /\ main'.td_list_hc = NULL /\ main'.td_rev = <<>>
                           /\ mem'.urb[e].live,
           Accounts(mem.td, mem.ed, mem.urb)', UrbOf(e, mem'.urb[e], mem'.ed[e]),
           mem'.urb[e].td_cnt = 0, ~mem'.urb[e].finished,
           mem'.urb[e].live => main'.pc = "fill",
           \A t \in TDs : mem.td[t].used => mem'.td[t] = mem.td[t],
           \A d \in EDs : d # e => mem'.urb[d] = mem.urb[d] /\ mem'.ed[d] = mem.ed[d],
           mem'.ed[e].halted = mem.ed[e].halted,
           mem.ed[e].head = mem.ed[e].tail => mem'.ed[e].head = mem'.ed[e].tail,
           mem'.urb[e].live \/ (mem.ed[e].state # "OPER" => mem'.ed[e].state # "OPER")
    PROVE  OhciInv'
<1>0. Shape /\ TypeOK /\ Place /\ Accounts(mem.td, mem.ed, mem.urb)
  BY DEF OhciInv, Shape
<1>1. \A d \in EDs : /\ mem.urb[d].td \in Seq(TDs) /\ Len(mem.urb[d].td) \in Nat
                     /\ mem'.urb[d].td \in Seq(TDs) /\ Len(mem'.urb[d].td) \in Nat
  <2>1. \A m \in Memory : \A d \in EDs : m.urb[d].td \in Seq(TDs)
    BY MemoryTypes
  <2> QED
    BY <1>0, <2>1, InSequence DEF TypeOK
<1>2. TypeOK'
  <2>1. \A d \in EDs : mem'.urb[d].td_cnt <= Len(mem'.urb[d].td)
    <3>1. \A d \in EDs : mem.urb[d].td_cnt <= Len(mem.urb[d].td)
      BY <1>0 DEF TypeOK
    <3> QED
      BY <1>1, <3>1
  <2> QED
    BY <1>0, <2>1 DEF TypeOK, MainTypes
<1>3. \A d \in EDs : UrbOf(d, mem'.urb[d], mem'.ed[d])
  <2>1. \A d \in EDs : UrbOf(d, mem.urb[d], mem.ed[d])
    BY <1>0 DEF Shape
  <2> QED
    BY <2>1
<1>4. \A d \in EDs : d \notin Interrupt => ~mem.urb[d].live
  BY <1>0, TdNumbers DEF Place, Idle
<1>5. Place'
  <2>1. CASE main' = Idle
    <3>1. ~mem'.urb[e].live
      BY <2>1 DEF Idle
    <3>2. \A d \in EDs : d \notin Interrupt => ~mem'.urb[d].live
      BY <1>4, <3>1
    <3> QED
      BY <2>1, <3>2 DEF Place, Idle
  <2>2. CASE main' # Idle
    <3>1. 1 \in 1 .. Len(mem'.urb[e].td)
      BY <1>1, <2>2 DEF UrbOf
    <3>2. ~disabled' /\ givenUp' = {}
      BY DEF Going
    <3>3. main'.pc = "fill" /\ main'.ed = e /\ main'.n = 1 /\ mem'.urb[e].live
      BY <2>2
    <3>4. \A d \in EDs : d \notin Interrupt /\ mem'.urb[d].live => d = e
      BY <1>4
    <3> QED
      BY <3>1, <3>2, <3>3, <3>4 DEF Place
  <2> QED
    BY <2>1, <2>2
<1>6. Shape'
  BY <1>2, <1>3, <1>5 DEF Shape
<1>8. \A d \in EDs : Filled(d) = Len(mem.urb[d].td)
  BY DEF Filled, Idle
<1>9. \A d \in EDs : Filled(d)' = IF d = e THEN 0 ELSE Len(mem'.urb[d].td)
  <2>1. CASE main' = Idle
    <3>1. mem'.urb[e] = NoUrb
      BY <2>1 DEF UrbOf, Idle
    <3> QED
      BY <2>1, <3>1, EmptySequence DEF Filled, Idle, NoUrb
  <2>2. CASE main' # Idle
    BY <2>2 DEF Filled
  <2> QED
    BY <2>1, <2>2
<1>10. OthersSame(e)
  <2> SUFFICES ASSUME NEW d \in EDs, d # e
               PROVE  /\ mem'.urb[d] = mem.urb[d] /\ mem'.ed[d] = mem.ed[d] /\ Filled(d)' = Filled(d)
                      /\ \A i \in 1 .. Len(mem.urb[d].td) :
                            mem'.td[mem.urb[d].td[i]] = mem.td[mem.urb[d].td[i]]
    BY DEF OthersSame
  <2>1. ASSUME NEW i \in 1 .. Len(mem.urb[d].td)
        PROVE  mem'.td[mem.urb[d].td[i]] = mem.td[mem.urb[d].td[i]]
    <3>1. mem.urb[d].td[i] \in TDs /\ mem.urb[d].td[i] \in ToSet(mem.urb[d].td)
      BY <1>1, InSequence
    <3>2. mem.td[mem.urb[d].td[i]].used
      BY <1>0, <3>1 DEF Accounts
    <3> QED
      BY <3>1, <3>2
  <2> QED
    BY <1>8, <1>9, <2>1
<1>11. QueueKept(e)
  <2> SUFFICES ASSUME NEW k, NEW s, NEW h,
                      Queue(mem.td, e, NoUrb, mem.ed[e], 0, k, s, h)
               PROVE  Queue(mem'.td, e, mem'.urb[e], mem'.ed[e], 0, k, s, h) /\ Kept(mem, mem', e, k, s)
    <3>1. Filled(e) = 0 /\ Filled(e)' = 0
      BY <1>8, <1>9, EmptySequence DEF NoUrb
    <3> QED
      BY <3>1 DEF QueueKept
  <2> DEFINE v == mem'.urb[e]
             d2 == mem'.ed[e]
             td2 == mem'.td
             d == mem.ed[e]
             td == mem.td
  <2>1. /\ v.td_cnt = 0 /\ ~v.finished /\ Len(v.td) \in Nat
        /\ d2.halted = d.halted /\ (d.head = d.tail => d2.head = d2.tail)
        /\ (e \notin Interrupt => v.live \/ (d.state # "OPER" => d2.state # "OPER"))
        /\ Queue(td, e, NoUrb, d, 0, k, s, h)
    BY <1>1
  <2> HIDE DEF v, d2, td2, d, td
  <2>2. Queue(td2, e, v, d2, 0, k, s, h) /\ k + 1 .. s = {}
    BY <2>1, EmptyQueue
  <2> QED
    BY <2>2 DEF Kept, v, d2, td2
<1>12. main.pc = "idle" /\ main'.pc \in {"idle", "fill"} /\ main'.td_list_hc = NULL /\ main'.td_rev = <<>>
  BY DEF Idle
<1> QED
  BY <1>6, <1>10, <1>11, <1>12, SameHistory

LEMMA SubmitStep == \A e \in EDs : \A n \in Sizes(e) : OhciInv /\ sohci_submit_job(e, n) => OhciInv'
<1> SUFFICES ASSUME NEW e \in EDs, NEW n \in Sizes(e), OhciInv, sohci_submit_job(e, n)
             PROVE  OhciInv'
  OBVIOUS
<1>0. Shape /\ TypeOK /\ Place /\ mem \in Memory
  BY DEF OhciInv, Shape, TypeOK
<1>1. /\ main = Idle /\ Going /\ ~mem.urb[e].live /\ hc' = hc /\ disabled' = disabled /\ givenUp' = givenUp
  BY DEF sohci_submit_job
<1>2. mem.urb[e] = NoUrb
  BY <1>0, <1>1 DEF Shape, UrbOf
<1> DEFINE a == [ep_add_ed(mem, e) EXCEPT !.urb[e].live = TRUE]
<1>3. PICK m \in Allocated(a, e, n) :
          IF Len(m.urb[e].td) < n
          THEN mem' = urb_free_priv(m, e) /\ UNCHANGED main
          ELSE mem' = ep_link(m, e) /\ main' = [Idle EXCEPT !.pc = "fill", !.ed = e, !.n = 1]
  BY DEF sohci_submit_job
<1>4. Ready(mem, a, e) /\ a.urb[e] = LiveUrb
  <2> DEFINE b == ep_add_ed(mem, e)
  <2>1. Ready(mem, b, e) /\ b.urb = mem.urb
    BY <1>0, <1>1, AddEffect
  <2>2. a = Alive(b, e)
    BY DEF Alive
  <2> HIDE DEF a, b
  <2> QED
    BY <1>2, <2>1, <2>2, LiveEffect
<1> HIDE DEF a
<1>5. /\ a \in Memory /\ Accounts(a.td, a.ed, a.urb)
      /\ \A t \in TDs : mem.td[t].used => a.td[t] = mem.td[t]
      /\ \A d \in EDs : d # e => a.urb[d] = mem.urb[d] /\ a.ed[d] = mem.ed[d]
      /\ a.ed[e].tail \in TDs /\ a.ed[e].state # "NEW" /\ a.ed[e].halted = mem.ed[e].halted
      /\ (mem.ed[e].head = mem.ed[e].tail => a.ed[e].head = a.ed[e].tail)
      /\ (mem.ed[e].state # "OPER" => a.ed[e].state # "OPER")
  BY <1>4 DEF Ready
<1>6. /\ a.urb[e].td = <<>> /\ a.urb[e].live /\ a.urb[e].td_cnt = 0 /\ ~a.urb[e].finished
      /\ a.urb[e] \in Urb
  <2>1. a.urb[e] \in Urb
    BY <1>5 DEF Memory
  <2> QED
    BY <1>4, <2>1 DEF NoUrb, LiveUrb
<1>7. n \in Nat /\ 1 <= n /\ (e \in Interrupt => n = 1)
  BY SizesType
<1>8. Granted(a, e, n, m)
  BY <1>3, <1>5, <1>6, <1>7, AllocatedEffect
<1> DEFINE q == m.urb[e].td
<1>9. /\ m \in Memory /\ m.ed = a.ed /\ \A d \in EDs : d # e => m.urb[d] = a.urb[d]
      /\ m.urb[e] = [a.urb[e] EXCEPT !.td = q]
      /\ Len(q) \in Nat /\ Len(q) <= n /\ Len(q) <= NUM_TD
      /\ \A i, j \in 1 .. Len(q) : q[i] = q[j] => i = j
      /\ \A t \in TDs : a.td[t].used => m.td[t] = a.td[t] /\ t \notin ToSet(q)
      /\ Accounts(m.td, m.ed, m.urb)
  BY <1>8 DEF Granted
<1>10. m.urb[e].live /\ m.urb[e].td_cnt = 0 /\ ~m.urb[e].finished
  <2> HIDE DEF q
  <2> QED
    BY <1>6, <1>9 DEF Urb
<1>11. \A t \in TDs : mem.td[t].used => m.td[t] = mem.td[t] /\ t \notin ToSet(q)
  BY <1>5, <1>9
<1>12. a.ed[e].tail # NULL
  BY <1>5, TdNumbers
<1>13. CASE Len(q) < n
  <2>1. mem' = urb_free_priv(m, e) /\ main' = main
    BY <1>3, <1>13
  <2> DEFINE r == urb_free_priv(m, e)
  <2>2. /\ r \in Memory /\ r.ed = m.ed
        /\ \A t \in TDs : r.td[t] = IF t \in ToSet(q) THEN UnusedTd ELSE m.td[t]
        /\ \A d \in EDs : r.urb[d] = IF d = e THEN NoUrb ELSE m.urb[d]
        /\ Accounts(r.td, r.ed, r.urb)
    <3>1. /\ Frees(m, e, r) /\ r \in Memory /\ r.ed = m.ed
          /\ \A t \in TDs : r.td[t] = IF t \in ToSet(q) THEN UnusedTd ELSE m.td[t]
          /\ \A d \in EDs : r.urb[d] = IF d = e THEN NoUrb ELSE m.urb[d]
      BY <1>9, FreeEffect
    <3> HIDE DEF r
    <3>2. Accounts(r.td, r.ed, r.urb)
      BY <1>9, <3>1, FreeAccounts
    <3> QED
      BY <3>1, <3>2
  <2> HIDE DEF r
  <2>3. mem' = r
    BY <2>1 DEF r
  <2>4. r.urb[e] = NoUrb /\ r.ed[e] = a.ed[e]
    BY <1>9, <2>2
  <2>5. NoUrb.td_cnt = 0 /\ ~NoUrb.finished /\ ~NoUrb.live
    BY DEF NoUrb
  <2>6. UrbOf(e, NoUrb, a.ed[e])
    BY <1>5, <1>12, EmptySequence DEF UrbOf, NoUrb
  <2>7. \A t \in TDs : mem.td[t].used => r.td[t] = mem.td[t]
    BY <1>11, <2>2
  <2>8. \A d \in EDs : d # e => r.urb[d] = mem.urb[d] /\ r.ed[d] = mem.ed[d]
    BY <1>5, <1>9, <2>2
  <2>9. main' = Idle /\ main' \in MainTypes
    BY <1>1, <2>1, IdleType
  <2>10. Accounts(mem.td, mem.ed, mem.urb)'
    BY <2>2, <2>3
  <2>11. UrbOf(e, mem'.urb[e], mem'.ed[e]) /\ mem'.urb[e] = NoUrb /\ mem'.ed[e] = a.ed[e]
    BY <2>3, <2>4, <2>6
  <2> QED
    BY <1>1, <1>2, <1>5, <2>2, <2>3, <2>5, <2>7, <2>8, <2>9, <2>10, <2>11, Submitting
<1>14. CASE ~(Len(q) < n)
  <2>1. mem' = ep_link(m, e) /\ main' = [Idle EXCEPT !.pc = "fill", !.ed = e, !.n = 1]
    BY <1>3, <1>14
  <2> DEFINE r == ep_link(m, e)
  <2>2. /\ r \in Memory /\ r.td = m.td /\ r.urb = m.urb
        /\ r.ed[e].tail = m.ed[e].tail /\ r.ed[e].head = m.ed[e].head
        /\ r.ed[e].halted = m.ed[e].halted /\ r.ed[e].state = "OPER"
        /\ \A d \in EDs : d # e => r.ed[d] = m.ed[d]
    BY <1>9, LinkEffect
  <2> HIDE DEF r
  <2>3. mem' = r
    BY <2>1 DEF r
  <2>4. Len(q) = n
    BY <1>7, <1>9, <1>14
  <2>5. \A d \in EDs : r.ed[d].tail = m.ed[d].tail
    BY <2>2
  <2>6. Accounts(r.td, r.ed, r.urb)
    <3> DEFINE P == r.ed
               Q == m.ed
    <3>1. \A d \in EDs : P[d].tail = Q[d].tail
      BY <2>5
    <3> HIDE DEF P, Q
    <3>2. Accounts(m.td, Q, m.urb) => Accounts(m.td, P, m.urb)
      BY <3>1 DEF Accounts
    <3>3. Accounts(m.td, P, m.urb)
      BY <1>9, <3>2 DEF Q
    <3> QED
      BY <2>2, <3>3 DEF P
  <2>7. UrbOf(e, m.urb[e], r.ed[e])
    <3>1. r.ed[e].tail # NULL /\ r.ed[e].state # "NEW"
      BY <1>9, <1>12, <2>2
    <3>2. Len(m.urb[e].td) \in 1 .. NUM_TD /\ (e \in Interrupt => Len(m.urb[e].td) <= 1)
      BY <1>7, <1>9, <2>4, TdNumbers
    <3> QED
      BY <1>9, <1>10, <3>1, <3>2 DEF UrbOf
  <2>8. \A d \in EDs : d # e => r.urb[d] = mem.urb[d] /\ r.ed[d] = mem.ed[d]
    BY <1>5, <1>9, <2>2
  <2>9. /\ main'.pc = "fill" /\ main'.ed = e /\ main'.n = 1 /\ main' \in MainTypes
        /\ main'.td_list_hc = NULL /\ main'.td_rev = <<>>
    <3>1. 1 \in 0 .. NUM_TD
      BY <1>7, <1>9, <2>4, TdNumbers
    <3>2. Idle \in MainTypes
      BY IdleType
    <3> QED
      BY <2>1, <3>1, <3>2 DEF MainTypes, Idle
  <2>10. Accounts(mem.td, mem.ed, mem.urb)'
    BY <2>3, <2>6
  <2>11. /\ UrbOf(e, mem'.urb[e], mem'.ed[e]) /\ mem'.urb[e].live /\ mem'.urb[e].td_cnt = 0
         /\ ~mem'.urb[e].finished
    BY <1>10, <2>2, <2>3, <2>7
  <2>12. \A t \in TDs : mem.td[t].used => mem'.td[t] = mem.td[t]
    BY <1>11, <2>2, <2>3
  <2>13. /\ mem'.ed[e].halted = mem.ed[e].halted
         /\ (mem.ed[e].head = mem.ed[e].tail => mem'.ed[e].head = mem'.ed[e].tail)
    BY <1>5, <1>9, <2>2, <2>3
  <2>14. /\ mem' \in Memory
         /\ \A d \in EDs : d # e => mem'.urb[d] = mem.urb[d] /\ mem'.ed[d] = mem.ed[d]
    BY <2>2, <2>3, <2>8
  <2> QED
    BY <1>1, <1>2, <2>9, <2>10, <2>11, <2>12, <2>13, <2>14, Submitting
<1> QED
  BY <1>13, <1>14

LEMMA TooLargeStep == \A e \in EDs : OhciInv /\ SubmitTooLarge(e) => OhciInv'
<1> SUFFICES ASSUME NEW e \in EDs, OhciInv, SubmitTooLarge(e) PROVE OhciInv'
  OBVIOUS
<1>0. Shape /\ mem \in Memory
  BY DEF OhciInv, Shape, TypeOK
<1>1. /\ main = Idle /\ Going /\ ~mem.urb[e].live /\ hc' = hc /\ main' = main
      /\ disabled' = disabled /\ givenUp' = givenUp
  BY DEF SubmitTooLarge
<1>2. mem.urb[e] = NoUrb
  BY <1>0, <1>1 DEF Shape, UrbOf
<1> DEFINE r == ep_add_ed(mem, e)
<1>3. Ready(mem, r, e) /\ r.urb = mem.urb
  BY <1>0, <1>1, AddEffect
<1>4. mem' = r
  BY DEF SubmitTooLarge
<1> HIDE DEF r
<1>5. /\ r \in Memory /\ Accounts(r.td, r.ed, r.urb)
      /\ \A t \in TDs : mem.td[t].used => r.td[t] = mem.td[t]
      /\ \A d \in EDs : d # e => r.urb[d] = mem.urb[d] /\ r.ed[d] = mem.ed[d]
      /\ r.ed[e].tail \in TDs /\ r.ed[e].state # "NEW" /\ r.ed[e].halted = mem.ed[e].halted
      /\ mem.ed[e].head = mem.ed[e].tail => r.ed[e].head = r.ed[e].tail
      /\ mem.ed[e].state # "OPER" => r.ed[e].state # "OPER"
  BY <1>3 DEF Ready
<1>6. NoUrb.td_cnt = 0 /\ ~NoUrb.finished /\ ~NoUrb.live
  BY DEF NoUrb
<1>7. UrbOf(e, NoUrb, r.ed[e])
  <2>1. r.ed[e].tail # NULL
    BY <1>5, TdNumbers
  <2> QED
    BY <1>5, <2>1, EmptySequence DEF UrbOf, NoUrb
<1>8. main' = Idle /\ main' \in MainTypes
  BY <1>1, IdleType
<1>9. Accounts(mem.td, mem.ed, mem.urb)'
  BY <1>4, <1>5
<1>10. mem'.urb[e] = NoUrb /\ UrbOf(e, mem'.urb[e], mem'.ed[e])
  BY <1>2, <1>3, <1>4, <1>7
<1> QED
  BY <1>1, <1>2, <1>4, <1>5, <1>6, <1>8, <1>9, <1>10, Submitting

-----------------------------------------------------------------------------
(* check_status of a TD that failed and halted its queue. *)
Unhalted(m, e, left, n) ==
    /\ n \in Memory /\ n.td = m.td
    /\ \A d \in EDs : d # e => n.ed[d] = m.ed[d] /\ n.urb[d] = m.urb[d]
    /\ ~n.ed[e].halted /\ n.ed[e].head = m.ed[e].tail /\ n.ed[e].tail = m.ed[e].tail
    /\ n.ed[e].state = m.ed[e].state
    /\ n.urb[e].td = m.urb[e].td /\ n.urb[e].td_cnt = m.urb[e].td_cnt + left
    /\ n.urb[e].live = m.urb[e].live /\ n.urb[e].finished = m.urb[e].finished

LEMMA CheckEffect ==
    ASSUME NEW m \in Memory, NEW t \in TDs, NEW e \in EDs, m.td[t].ed = e,
           m.td[t].cc # OK, m.ed[e].halted,
           NEW left \in Nat, left = Len(m.urb[e].td) - m.td[t].index - 1,
           left = 0 => m.ed[e].head = m.ed[e].tail,
           left # 0 => m.td[Last(m.urb[e].td)].next = m.ed[e].tail,
           NEW n, n = check_status(m, t)
    PROVE  Unhalted(m, e, left, n)
<1> DEFINE q == [m.ed[e] EXCEPT !.halted = FALSE, !.head = m.ed[e].tail]
           v == [m.urb[e] EXCEPT !.td_cnt = @ + left]
<1>1. /\ m.td \in [TDs -> Td] /\ m.ed \in [EDs -> Ed] /\ m.urb \in [EDs -> Urb]
      /\ m = [td |-> m.td, ed |-> m.ed, urb |-> m.urb]
  BY DEF Memory
<1>2. m.ed[e] \in Ed /\ m.urb[e] \in Urb
  BY <1>1
<1>3. /\ q \in Ed /\ ~q.halted /\ q.head = m.ed[e].tail /\ q.tail = m.ed[e].tail
      /\ q.state = m.ed[e].state
  BY <1>2 DEF Ed
<1>4. /\ v \in Urb /\ v.td = m.urb[e].td /\ v.td_cnt = m.urb[e].td_cnt + left
      /\ v.live = m.urb[e].live /\ v.finished = m.urb[e].finished
  BY <1>2 DEF Urb
<1>5. CASE left = 0
  <2>1. n = [m EXCEPT !.ed[e].halted = FALSE]
    BY <1>5 DEF check_status
  <2>2. q = [m.ed[e] EXCEPT !.halted = FALSE]
    BY <1>2, <1>5 DEF Ed
  <2>3. v = m.urb[e]
    BY <1>2, <1>5 DEF Urb
  <2> HIDE DEF q, v
  <2>4. n = [td |-> m.td, ed |-> [m.ed EXCEPT ![e] = q], urb |-> m.urb]
    BY <1>1, <2>1, <2>2
  <2>5. n.td = m.td /\ n.ed = [m.ed EXCEPT ![e] = q] /\ n.urb = m.urb
    BY <2>4
  <2>6. n \in Memory
    BY <1>1, <1>3, <2>4 DEF Memory
  <2>7. n.ed[e] = q /\ \A d \in EDs : d # e => n.ed[d] = m.ed[d]
    BY <1>1, <2>5
  <2> QED
    BY <1>3, <1>4, <2>3, <2>5, <2>6, <2>7 DEF Unhalted
<1>6. CASE left # 0
  <2>7. ~(left <= 0)
    <3>1. \A x \in Nat : x # 0 => ~(x <= 0)
      OBVIOUS
    <3> QED
      BY <1>6, <3>1, Zenon
  <2>8. m.td[Last(m.urb[e].td)].next = m.ed[e].tail
    BY <1>6, Zenon
  <2>0. ~(left <= 0) /\ m.td[Last(m.urb[e].td)].next = m.ed[e].tail
    BY <2>7, <2>8, Zenon
  <2>1. n = [m EXCEPT !.ed[e].halted = FALSE, !.urb[e].td_cnt = @ + left,
                      !.ed[e].head = m.td[Last(m.urb[e].td)].next]
    BY <2>0 DEF check_status
  <2>3. /\ n = [td |-> n.td, ed |-> n.ed, urb |-> n.urb] /\ n.td = m.td
        /\ n.urb = [m.urb EXCEPT ![e] = v]
    BY <1>1, <2>1
  <2>9. q = [[m.ed[e] EXCEPT !.halted = FALSE] EXCEPT !.head = m.ed[e].tail]
    BY <1>2 DEF Ed
  <2>2. n.ed = [m.ed EXCEPT ![e] = q]
    <3>1. n.ed = [m.ed EXCEPT ![e].halted = FALSE, ![e].head = m.td[Last(m.urb[e].td)].next]
      BY <1>1, <2>1
    <3> HIDE DEF q
    <3> DEFINE x == m.td[Last(m.urb[e].td)].next
    <3>2. x = m.ed[e].tail
      BY <2>8, Zenon
    <3> HIDE DEF x
    <3>3. n.ed = [m.ed EXCEPT ![e].halted = FALSE, ![e].head = x]
      BY <3>1 DEF x
    <3>4. n.ed = [m.ed EXCEPT ![e].halted = FALSE, ![e].head = m.ed[e].tail]
      BY <3>2, <3>3
    <3> QED
      BY <1>1, <2>9, <3>4
  <2>4. n = [td |-> m.td, ed |-> [m.ed EXCEPT ![e] = q], urb |-> [m.urb EXCEPT ![e] = v]]
    BY <2>2, <2>3
  <2> HIDE DEF q, v
  <2>5. n.td = m.td /\ n.ed = [m.ed EXCEPT ![e] = q] /\ n.urb = [m.urb EXCEPT ![e] = v]
    BY <2>4
  <2>6. n \in Memory
    BY <1>1, <1>3, <1>4, <2>4 DEF Memory
  <2>10. /\ n.ed[e] = q /\ \A d \in EDs : d # e => n.ed[d] = m.ed[d]
        /\ n.urb[e] = v /\ \A d \in EDs : d # e => n.urb[d] = m.urb[d]
    BY <1>1, <2>5
  <2> QED
    BY <1>3, <1>4, <2>5, <2>6, <2>10 DEF Unhalted
<1> QED
  BY <1>5, <1>6

(* td_rev with one more TD. *)
LEMMA PrependOne ==
    ASSUME NEW f \in [Nat -> TDs], NEW mid \in Nat, 1 <= mid, NEW n \in Nat,
           NEW rev, rev = [i \in 1 .. n |-> f[mid + i]]
    PROVE  /\ <<f[mid]>> \o rev = [i \in 1 .. n + 1 |-> f[(mid - 1) + i]]
           /\ <<f[mid]>> \o rev \in Seq(TDs)
<1>1. f[mid] \in TDs /\ rev \in Seq(TDs) /\ Len(rev) = n
  OBVIOUS
<1>2. <<f[mid]>> \o rev \in Seq(TDs) /\ Len(<<f[mid]>> \o rev) = n + 1
  BY <1>1
<1>3. ASSUME NEW i \in 1 .. n + 1 PROVE (<<f[mid]>> \o rev)[i] = f[(mid - 1) + i]
  <2>1. CASE i = 1
    <3>1. (mid - 1) + i = mid
      BY <2>1
    <3> QED
      BY <1>1, <2>1, <3>1
  <2>2. CASE i # 1
    <3>1. i - 1 \in 1 .. n /\ mid + (i - 1) = (mid - 1) + i
      BY <2>2
    <3>2. (<<f[mid]>> \o rev)[i] = rev[i - 1]
      BY <1>1, <2>2
    <3>3. rev[i - 1] = f[mid + (i - 1)]
      BY <3>1
    <3> QED
      BY <3>1, <3>2, <3>3
  <2> QED
    BY <2>1, <2>2
<1>4. <<f[mid]>> \o rev = [i \in 1 .. n + 1 |-> (<<f[mid]>> \o rev)[i]]
  BY <1>2
<1> QED
  BY <1>2, <1>3, <1>4

(* The queue of a URB whose s-th TD failed, after check_status. *)
LEMMA CheckedQueue ==
    ASSUME NEW td, NEW e, NEW u, NEW d, NEW v, NEW q, NEW k, NEW s, NEW h,
           Queue(td, e, u, d, Len(u.td), k, s, h), Len(u.td) \in Nat, k < s,
           ~q.halted, q.head = d.tail, q.tail = d.tail, q.state = d.state,
           v.td = u.td, v.td_cnt = u.td_cnt + (Len(u.td) - s), v.live = u.live,
           v.finished = u.finished, h = s + 1
    PROVE  /\ Queue(td, e, v, q, Len(v.td), k, s, Len(u.td) + 1)
           /\ v.td_cnt <= Len(v.td)
<1>1. /\ Counts(u, Len(u.td), k, s, h) /\ Chained(td, e, u, d, Len(u.td), h)
      /\ Halts(td, u, d, k, s, h) /\ Ended(e, u, d)
  BY DEF Queue
<1>2. k \in Nat /\ s \in Nat /\ h \in Nat /\ k <= s /\ s <= Len(u.td)
  BY <1>1, CountFacts
<1>3. u.td_cnt = k
  BY <1>1, <1>2 DEF Counts
<1>4. Counts(v, Len(v.td), k, s, Len(u.td) + 1) /\ v.td_cnt <= Len(v.td)
  BY <1>2, <1>3 DEF Counts
<1>5. Chained(td, e, v, q, Len(v.td), Len(u.td) + 1)
  <2>1. \A i : i \notin Len(u.td) + 1 .. Len(u.td)
    OBVIOUS
  <2> QED
    BY <1>1, <2>1 DEF Chained
<1>6. Halts(td, v, q, k, s, Len(u.td) + 1)
  BY <1>1 DEF Halts
<1>7. Ended(e, v, q)
  <2>1. e \notin Interrupt => ~u.finished
    <3>1. u.td_cnt # Len(u.td)
      BY <1>2, <1>3
    <3> QED
      BY <1>1, <3>1 DEF Ended
  <2> QED
    BY <1>1, <2>1 DEF Ended
<1> QED
  BY <1>4, <1>5, <1>6, <1>7 DEF Queue

(* What dl_reverse_done_list keeps, whether the TD failed or not. *)
CheckKeeps(f, lo, mid, fetched, hi, k, s, h) ==
    /\ mem' \in Memory /\ mem'.td = mem.td
    /\ \A d \in EDs : /\ mem'.urb[d].td = mem.urb[d].td /\ mem'.urb[d].live = mem.urb[d].live
                      /\ mem'.urb[d].finished = mem.urb[d].finished
                      /\ ~mem.urb[d].live => mem'.urb[d] = mem.urb[d]
                      /\ mem'.ed[d].tail = mem.ed[d].tail /\ mem'.ed[d].state = mem.ed[d].state
                      /\ mem'.urb[d].td_cnt <= Len(mem'.urb[d].td)
                      /\ Queue(mem.td, d, mem'.urb[d], mem'.ed[d], Len(mem'.urb[d].td), k[d], s[d], h[d])
    /\ h \in [EDs -> Nat]
    /\ Failed(mem.td, mem'.ed, mem.urb, f, lo, mid, fetched, hi, h)

LEMMA CheckKept ==
    ASSUME Shape, main.pc = "reverse",
           NEW f, NEW lo, NEW mid, NEW fetched, NEW written, NEW hi, NEW k, NEW s, NEW h,
           Witness(f, lo, mid, fetched, written, hi, k, s, h),
           lo < mid, mem' = check_status(mem, f[mid])
    PROVE  \E h2 : CheckKeeps(f, lo, mid - 1, fetched, hi, k, s, h2)
<1>0. TypeOK /\ mem \in Memory
  BY DEF Shape, TypeOK
<1>1. /\ Ordered(lo, mid, fetched, written, hi)
      /\ Retired(mem.td, mem.urb, f, lo, hi, k, s)
      /\ Failed(mem.td, mem.ed, mem.urb, f, lo, mid, fetched, hi, h)
      /\ f \in [Nat -> TDs] /\ k \in [EDs -> Nat] /\ s \in [EDs -> Nat] /\ h \in [EDs -> Nat]
      /\ \A d \in EDs : Queue(mem.td, d, mem.urb[d], mem.ed[d], Filled(d), k[d], s[d], h[d])
  BY DEF Witness, History
<1>2. lo \in Nat /\ mid \in Nat /\ fetched \in Nat /\ hi \in Nat /\ mid <= fetched /\ fetched <= hi
  BY <1>1 DEF Ordered
<1>3. mid \in lo + 1 .. hi /\ mid \notin mid + 1 .. fetched /\ mid \in (mid - 1) + 1 .. fetched
      /\ \A p \in lo + 1 .. hi : p # mid => (p \in mid + 1 .. fetched <=> p \in (mid - 1) + 1 .. fetched)
  BY <1>2
<1>4. PICK t \in TDs : t = f[mid]
  BY <1>1, <1>2
<1>5. \A d \in EDs : Filled(d) = Len(mem.urb[d].td) /\ Len(mem.urb[d].td) \in Nat
  <2>1. \A d \in EDs : Filled(d) = Len(mem.urb[d].td)
    BY DEF Filled
  <2> QED
    BY <1>0, <2>1, Types, InSequence
<1>6. \A d \in EDs : Queue(mem.td, d, mem.urb[d], mem.ed[d], Len(mem.urb[d].td), k[d], s[d], h[d])
  BY <1>1, <1>5
<1>7. \A d \in EDs : mem.urb[d].td_cnt <= Len(mem.urb[d].td)
  BY <1>0 DEF TypeOK
<1>8. CASE mem.td[t].cc = OK
  <2>1. mem' = mem
    BY <1>4, <1>8 DEF check_status
  <2>2. Failed(mem.td, mem.ed, mem.urb, f, lo, mid - 1, fetched, hi, h)
    BY <1>1, <1>3, <1>4, <1>8 DEF Failed
  <2>3. CheckKeeps(f, lo, mid - 1, fetched, hi, k, s, h)
    BY <1>0, <1>1, <1>6, <1>7, <2>1, <2>2 DEF CheckKeeps
  <2> QED
    BY <2>3
<1>9. CASE mem.td[t].cc # OK
  <2>1. PICK e \in EDs : \E i \in k[e] + 1 .. s[e] :
              /\ mem.td[f[mid]].ed = e /\ mem.td[f[mid]].index + 1 = i
              /\ mem.urb[e].td[i] = f[mid] /\ i \in 1 .. Len(mem.urb[e].td)
    BY <1>3, RetiredTd
  <2>2. PICK i \in k[e] + 1 .. s[e] :
              /\ mem.td[f[mid]].ed = e /\ mem.td[f[mid]].index + 1 = i
              /\ mem.urb[e].td[i] = f[mid] /\ i \in 1 .. Len(mem.urb[e].td)
    BY <2>1
  <2>3. mem.ed[e].halted
    BY <1>1, <1>3, <1>4, <1>9, <2>2 DEF Failed
  <2>4. /\ Counts(mem.urb[e], Len(mem.urb[e].td), k[e], s[e], h[e])
        /\ Chained(mem.td, e, mem.urb[e], mem.ed[e], Len(mem.urb[e].td), h[e])
        /\ Halts(mem.td, mem.urb[e], mem.ed[e], k[e], s[e], h[e])
    BY <1>6 DEF Queue
  <2>5. h[e] = s[e] + 1 /\ k[e] < s[e] /\ i = s[e]
    BY <1>4, <1>9, <2>2, <2>3, <2>4 DEF Halts
  <2>6. s[e] \in Nat /\ s[e] <= Len(mem.urb[e].td) /\ Len(mem.urb[e].td) \in Nat
    BY <1>5, <2>4, CountFacts
  <2>7. PICK left \in Nat : left = Len(mem.urb[e].td) - s[e]
    BY <2>6
  <2>8. left = Len(mem.urb[e].td) - mem.td[t].index - 1
    <3>1. mem.td[t].index \in Int
      BY <1>0, Types, TdNumbers
    <3>2. mem.td[t].index + 1 = s[e]
      BY <1>4, <2>2, <2>5
    <3>3. \A x, y \in Int : \A z \in Nat : x + 1 = z => y - z = y - x - 1
      OBVIOUS
    <3>4. Len(mem.urb[e].td) \in Int
      BY <2>6
    <3>5. Len(mem.urb[e].td) - s[e] = Len(mem.urb[e].td) - mem.td[t].index - 1
      BY <2>6, <3>1, <3>2, <3>3, <3>4, Zenon
    <3> QED
      BY <2>7, <3>5, Zenon
  <2>9. left = 0 => mem.ed[e].head = mem.ed[e].tail
    <3>1. left = 0 => h[e] = Len(mem.urb[e].td) + 1
      BY <2>5, <2>6, <2>7
    <3> QED
      BY <2>4, <3>1 DEF Chained
  <2>10. left # 0 => mem.td[Last(mem.urb[e].td)].next = mem.ed[e].tail
    <3>1. left # 0 => Len(mem.urb[e].td) \in h[e] .. Len(mem.urb[e].td)
      BY <2>5, <2>6, <2>7
    <3>2. left # 0 => mem.td[mem.urb[e].td[Len(mem.urb[e].td)]].next = mem.ed[e].tail
      BY <2>4, <3>1 DEF Chained
    <3> QED
      BY <3>2 DEF Last
  <2>11. Unhalted(mem, e, left, mem')
    <3>1. mem.td[t].ed = e
      BY <1>4, <2>2
    <3>2. PICK n : n = mem'
      OBVIOUS
    <3>3. n = check_status(mem, t)
      BY <1>4, <3>2
    <3>4. Unhalted(mem, e, left, n)
      BY <1>0, <1>9, <2>3, <2>8, <2>9, <2>10, <3>1, <3>3, CheckEffect
    <3> QED
      BY <3>2, <3>4
  <2> DEFINE h2 == [h EXCEPT ![e] = Len(mem.urb[e].td) + 1]
  <2>12. /\ h2 \in [EDs -> Nat] /\ h2[e] = Len(mem.urb[e].td) + 1
         /\ \A d \in EDs : d # e => h2[d] = h[d]
    BY <1>1, <2>6
  <2> HIDE DEF h2
  <2>13. /\ Queue(mem.td, e, mem'.urb[e], mem'.ed[e], Len(mem'.urb[e].td), k[e], s[e], h2[e])
         /\ mem'.urb[e].td_cnt <= Len(mem'.urb[e].td)
    <3> DEFINE u == mem.urb[e]
               d == mem.ed[e]
               v == mem'.urb[e]
               q == mem'.ed[e]
               td == mem.td
    <3>1. Queue(td, e, u, d, Len(u.td), k[e], s[e], h[e]) /\ Len(u.td) \in Nat
      BY <1>6, <2>6
    <3>2. /\ ~q.halted /\ q.head = d.tail /\ q.tail = d.tail /\ q.state = d.state
          /\ v.td = u.td /\ v.td_cnt = u.td_cnt + (Len(u.td) - s[e]) /\ v.live = u.live
          /\ v.finished = u.finished
      BY <2>7, <2>11 DEF Unhalted
    <3> HIDE DEF u, d, v, q, td
    <3>3. /\ Queue(td, e, v, q, Len(v.td), k[e], s[e], Len(u.td) + 1)
          /\ v.td_cnt <= Len(v.td)
      BY <2>5, <3>1, <3>2, CheckedQueue
    <3> QED
      BY <2>12, <3>3 DEF u, v, q, td
  <2>14. Failed(mem.td, mem'.ed, mem.urb, f, lo, mid - 1, fetched, hi, h2)
    <3> SUFFICES ASSUME NEW p \in lo + 1 .. hi, mem.td[f[p]].cc # OK
                 PROVE  LET d == mem.td[f[p]].ed
                        IN  IF p \in (mid - 1) + 1 .. fetched
                            THEN ~mem'.ed[d].halted /\ h2[d] = Len(mem.urb[d].td) + 1
                            ELSE mem'.ed[d].halted
      BY DEF Failed
    <3>1. PICK d \in EDs : \E j \in k[d] + 1 .. s[d] :
                mem.td[f[p]].ed = d /\ mem.td[f[p]].index + 1 = j /\ mem.urb[d].td[j] = f[p]
      BY RetiredTd
    <3>2. CASE d = e
      <4>1. mem.td[f[p]].index + 1 = s[e]
        BY <2>4, <3>1, <3>2 DEF Halts
      <4>2. p = mid
        <5>1. mem.td[f[mid]].index + 1 = s[e] /\ mem.td[f[mid]].ed = mem.td[f[p]].ed
          BY <2>2, <2>5, <3>1, <3>2
        <5>2. mem.td[f[mid]].index \in Int /\ mem.td[f[p]].index \in Int
          <6>1. f[p] \in TDs /\ f[mid] \in TDs
            <7>1. p \in Nat /\ mid \in Nat
              BY <1>2
            <7> QED
              BY <1>1, <7>1
          <6>2. ASSUME NEW x \in TDs PROVE mem.td[x].index \in Int
            <7>1. mem.td[x].index \in 0 .. NUM_TD
              BY <1>0, Types
            <7> QED
              BY <7>1, TdNumbers
          <6> QED
            BY <6>1, <6>2
        <5>3. ~(mem.td[f[mid]].index < mem.td[f[p]].index) /\ ~(mem.td[f[p]].index < mem.td[f[mid]].index)
          BY <4>1, <5>1, <5>2
        <5>4. ~(p < mid) /\ ~(mid < p)
          BY <1>1, <1>3, <5>1, <5>3 DEF Retired, InTurn
        <5> QED
          BY <1>2, <5>4
      <4> QED
        BY <1>3, <2>11, <2>12, <3>1, <3>2, <4>2 DEF Unhalted
    <3>3. CASE d # e
      <4>1. p # mid
        BY <2>2, <3>1, <3>3
      <4>2. IF p \in mid + 1 .. fetched THEN ~mem.ed[d].halted /\ h[d] = Len(mem.urb[d].td) + 1
            ELSE mem.ed[d].halted
        BY <1>1, <3>1 DEF Failed
      <4>3. mem'.ed[d] = mem.ed[d] /\ h2[d] = h[d]
        BY <2>11, <2>12, <3>3 DEF Unhalted
      <4>4. p \in mid + 1 .. fetched <=> p \in (mid - 1) + 1 .. fetched
        BY <1>3, <4>1
      <4> QED
        BY <3>1, <4>2, <4>3, <4>4
    <3> QED
      BY <3>2, <3>3
  <2>15. ASSUME NEW d \in EDs
         PROVE  /\ mem'.urb[d].td = mem.urb[d].td /\ mem'.urb[d].live = mem.urb[d].live
                /\ mem'.urb[d].finished = mem.urb[d].finished
                /\ ~mem.urb[d].live => mem'.urb[d] = mem.urb[d]
                /\ mem'.ed[d].tail = mem.ed[d].tail /\ mem'.ed[d].state = mem.ed[d].state
                /\ mem'.urb[d].td_cnt <= Len(mem'.urb[d].td)
                /\ Queue(mem.td, d, mem'.urb[d], mem'.ed[d], Len(mem'.urb[d].td), k[d], s[d], h2[d])
    <3>1. CASE d = e
      <4>1. mem.urb[e].live
        <5>1. Len(mem.urb[e].td) # 0
          BY <2>2, <2>6
        <5> QED
          BY <5>1, EmptySequence DEF Shape, UrbOf, NoUrb
      <4> QED
        BY <2>11, <2>13, <3>1, <4>1 DEF Unhalted
    <3>2. CASE d # e
      <4>1. mem'.urb[d] = mem.urb[d] /\ mem'.ed[d] = mem.ed[d]
        BY <2>11, <3>2 DEF Unhalted
      <4> QED
        BY <1>6, <1>7, <2>12, <3>2, <4>1
    <3> QED
      BY <3>1, <3>2
  <2>16. mem' \in Memory /\ mem'.td = mem.td
    BY <2>11 DEF Unhalted
  <2>17. CheckKeeps(f, lo, mid - 1, fetched, hi, k, s, h2)
    BY <2>12, <2>14, <2>15, <2>16 DEF CheckKeeps
  <2> QED
    BY <2>17
<1> QED
  BY <1>8, <1>9

LEMMA ReverseStep == OhciInv /\ dl_reverse_done_list => OhciInv'
<1> SUFFICES ASSUME OhciInv, dl_reverse_done_list PROVE OhciInv'
  OBVIOUS
<1>0. Shape /\ TypeOK /\ Place /\ main.pc = "reverse" /\ hc' = hc /\ disabled' = disabled /\ givenUp' = givenUp
  BY DEF OhciInv, Shape, dl_reverse_done_list
<1>1. Going
  BY <1>0 DEF Place, Going
<1>2. PICK f, lo, mid, fetched, written, hi, k, s, h :
          Witness(f, lo, mid, fetched, written, hi, k, s, h)
  BY <1>1, WithWitness
<1>3. /\ Ordered(lo, mid, fetched, written, hi) /\ Pointers(f, lo, mid, fetched, written, hi)
      /\ Links(mem.td, f, lo, mid, fetched, written, hi)
      /\ Retired(mem.td, mem.urb, f, lo, hi, k, s)
      /\ f \in [Nat -> TDs] /\ k \in [EDs -> Nat] /\ s \in [EDs -> Nat]
  BY <1>2 DEF Witness, History
<1>4. /\ lo \in Nat /\ mid \in Nat /\ fetched \in Nat /\ written \in Nat /\ hi \in Nat
      /\ lo < mid /\ mid <= fetched /\ fetched <= written /\ written <= hi
  BY <1>0, <1>3 DEF Ordered, Pointers
<1>5. main.td_list_hc = f[mid]
  BY <1>3, <1>4 DEF Pointers, Newest
<1>6. mem.td[f[mid]].next = IF mid = lo + 1 THEN NULL ELSE f[mid - 1]
  <2>1. mid \in lo + 1 .. mid
    BY <1>4
  <2> QED
    BY <1>3, <2>1 DEF Links, Linked
<1>7. mem.td[f[mid]].next = Newest(f, lo, mid - 1)
  <2>1. mid = lo + 1 <=> ~(lo < mid - 1)
    BY <1>4
  <2> QED
    BY <1>6, <2>1 DEF Newest
<1>8. mem.td[f[mid]].next = NULL <=> mid = lo + 1
  <2>1. mid # lo + 1 => f[mid - 1] # NULL
    <3>1. mid - 1 \in Nat
      BY <1>4
    <3> QED
      BY <1>3, <3>1, TdNumbers
  <2> QED
    BY <1>6, <2>1
<1>9. PICK h2 : CheckKeeps(f, lo, mid - 1, fetched, hi, k, s, h2)
  <2>1. mem' = check_status(mem, f[mid])
    BY <1>5 DEF dl_reverse_done_list
  <2> QED
    BY <1>0, <1>2, <1>4, <2>1, CheckKept
<1>10. /\ mem' \in Memory /\ mem'.td = mem.td /\ h2 \in [EDs -> Nat]
       /\ Failed(mem.td, mem'.ed, mem.urb, f, lo, mid - 1, fetched, hi, h2)
  BY <1>9 DEF CheckKeeps
<1>11. \A d \in EDs :
          /\ mem'.urb[d].td = mem.urb[d].td /\ mem'.urb[d].live = mem.urb[d].live
          /\ mem'.urb[d].finished = mem.urb[d].finished
          /\ ~mem.urb[d].live => mem'.urb[d] = mem.urb[d]
          /\ mem'.ed[d].tail = mem.ed[d].tail /\ mem'.ed[d].state = mem.ed[d].state
          /\ mem'.urb[d].td_cnt <= Len(mem'.urb[d].td)
          /\ Queue(mem.td, d, mem'.urb[d], mem'.ed[d], Len(mem'.urb[d].td), k[d], s[d], h2[d])
  BY <1>9 DEF CheckKeeps
<1>12. /\ main'.pc = IF mem.td[f[mid]].next = NULL THEN "takeback" ELSE "reverse"
       /\ main'.td_list_hc = mem.td[f[mid]].next
       /\ main'.td_rev = <<f[mid]>> \o main.td_rev
       /\ main'.ed = main.ed /\ main'.stat = main.stat /\ main'.n = main.n
       /\ main' = [pc |-> main'.pc, ed |-> main.ed, n |-> main.n, td_list_hc |-> main'.td_list_hc,
                   td_rev |-> main'.td_rev, stat |-> main.stat]
  BY <1>0, <1>5 DEF dl_reverse_done_list, TypeOK
<1>13. /\ main'.td_rev = [i \in 1 .. fetched - (mid - 1) |-> f[(mid - 1) + i]]
       /\ main'.td_rev \in Seq(TDs)
  <2>1. PICK rev : rev = main.td_rev
    OBVIOUS
  <2>2. PICK n \in Nat : n = fetched - mid
    BY <1>4
  <2>3. rev = [i \in 1 .. n |-> f[mid + i]]
    BY <1>3, <2>1, <2>2 DEF Pointers
  <2>4. 1 <= mid /\ fetched - (mid - 1) = n + 1
    BY <1>4, <2>2
  <2>5. /\ <<f[mid]>> \o rev = [i \in 1 .. n + 1 |-> f[(mid - 1) + i]]
        /\ <<f[mid]>> \o rev \in Seq(TDs)
    BY <1>3, <1>4, <2>3, <2>4, PrependOne
  <2> QED
    BY <1>12, <2>1, <2>4, <2>5
<1>14. Place'
  BY <1>0, <1>10, <1>11, <1>12 DEF Place
<1>15. TypeOK'
  <2>1. /\ main.ed \in EDs \cup {NULL} /\ main.n \in 0 .. NUM_TD /\ main.stat \in Codes
    BY <1>0 DEF TypeOK
  <2>2. mem.td[f[mid]].next \in TDs \cup {NULL}
    BY <1>0, <1>3, <1>4, Types
  <2>3. main' \in MainTypes
    BY <1>12, <1>13, <2>1, <2>2 DEF MainTypes
  <2>4. hc' \in HcTypes /\ disabled' \in BOOLEAN /\ givenUp' \subseteq TDs
    BY <1>0 DEF TypeOK, HcTypes
  <2> QED
    BY <1>10, <1>11, <2>3, <2>4 DEF TypeOK, HcTypes, MainTypes
<1>16. Accounts(mem.td, mem.ed, mem.urb)'
  <2>1. \A d \in EDs : mem'.urb[d].td = mem.urb[d].td /\ mem'.ed[d].tail = mem.ed[d].tail
    BY <1>11
  <2>2. Accounts(mem.td, mem.ed, mem.urb)
    BY <1>0 DEF Shape
  <2>3. \A t \in TDs : mem.td[t].used <=> \/ \E e \in EDs : mem'.ed[e].tail = t
                                          \/ \E e \in EDs : t \in ToSet(mem'.urb[e].td)
    BY <2>1, <2>2 DEF Accounts
  <2>4. \A d, e \in EDs : mem'.ed[d].tail # NULL => mem'.ed[d].tail \notin ToSet(mem'.urb[e].td)
    BY <2>1, <2>2 DEF Accounts
  <2>5. \A d, e \in EDs : d # e => \A t \in ToSet(mem'.urb[d].td) : t \notin ToSet(mem'.urb[e].td)
    BY <2>1, <2>2 DEF Accounts
  <2>6. \A d, e \in EDs : d # e /\ mem'.ed[d].tail = mem'.ed[e].tail => mem'.ed[d].tail = NULL
    BY <2>1, <2>2 DEF Accounts
  <2> QED
    BY <1>10, <2>3, <2>4, <2>5, <2>6 DEF Accounts
<1>17. (\A d \in EDs : UrbOf(d, mem.urb[d], mem.ed[d]))'
  <2> SUFFICES ASSUME NEW d \in EDs PROVE UrbOf(d, mem'.urb[d], mem'.ed[d])
    OBVIOUS
  <2>1. UrbOf(d, mem.urb[d], mem.ed[d])
    BY <1>0 DEF Shape
  <2> QED
    BY <1>11, <2>1 DEF UrbOf
<1>18. Shape'
  BY <1>14, <1>15, <1>16, <1>17 DEF Shape
<1>19. Ordered(lo, mid - 1, fetched, written, hi)
  BY <1>4 DEF Ordered
<1>20. Pointers(f, lo, mid - 1, fetched, written, hi)'
  <2>1. main'.pc = "reverse" <=> lo < mid - 1
    BY <1>4, <1>8, <1>12
  <2>2. main'.pc = "takeback" <=> lo = mid - 1 /\ mid - 1 < fetched
    <3>1. main'.pc = "takeback" <=> mid = lo + 1
      BY <1>8, <1>12
    <3>2. mid = lo + 1 <=> lo = mid - 1 /\ mid - 1 < fetched
      BY <1>4
    <3> QED
      BY <3>1, <3>2
  <2>3. /\ hc.done_head = Newest(f, fetched, written) /\ hc.doneq = Newest(f, written, hi)
        /\ hc.wdh /\ written = fetched
    BY <1>0, <1>3 DEF Pointers
  <2> QED
    BY <1>0, <1>7, <1>12, <1>13, <2>1, <2>2, <2>3 DEF Pointers
<1>21. Links(mem.td, f, lo, mid - 1, fetched, written, hi)'
  <2>1. Linked(mem.td, f, lo, mid - 1)
    <3>1. \A p \in lo + 1 .. mid - 1 : p \in lo + 1 .. mid
      BY <1>4
    <3> QED
      BY <1>3, <3>1 DEF Links, Linked
  <2> QED
    BY <1>3, <1>10, <2>1 DEF Links
<1>22. (\A d \in EDs : Queue(mem.td, d, mem.urb[d], mem.ed[d], Filled(d), k[d], s[d], h2[d]))'
  <2>1. \A d : Filled(d)' = Len(mem'.urb[d].td)
    BY <1>12 DEF Filled
  <2> QED
    BY <1>10, <1>11, <2>1
<1>23. Retired(mem.td, mem.urb, f, lo, hi, k, s)'
  <2>1. \A d \in EDs : mem'.urb[d].td = mem.urb[d].td
    BY <1>11
  <2>2. Located(mem.td, mem'.urb, f, lo, hi, k, s)
    <3> SUFFICES ASSUME NEW p \in lo + 1 .. hi
                 PROVE  LET d == mem.td[f[p]].ed
                            i == mem.td[f[p]].index + 1
                        IN  d \in EDs /\ i \in k[d] + 1 .. s[d] /\ mem'.urb[d].td[i] = f[p]
      BY DEF Located
    <3>0. PICK d, i : d = mem.td[f[p]].ed /\ i = mem.td[f[p]].index + 1
      OBVIOUS
    <3>1. d \in EDs /\ i \in k[d] + 1 .. s[d] /\ mem.urb[d].td[i] = f[p]
      BY <1>3, <3>0, RetiredWhere
    <3> QED
      BY <2>1, <3>0, <3>1
  <2>3. Covered(mem'.urb, f, lo, hi, k, s)
    <3> SUFFICES ASSUME NEW d \in EDs, NEW i \in k[d] + 1 .. s[d]
                 PROVE  \E p \in lo + 1 .. hi : f[p] = mem'.urb[d].td[i]
      BY DEF Covered
    <3>1. \E p \in lo + 1 .. hi : f[p] = mem.urb[d].td[i]
      BY <1>3, RetiredAll
    <3> QED
      BY <2>1, <3>1
  <2> QED
    BY <1>3, <1>10, <2>2, <2>3 DEF Retired
<1>24. Failed(mem.td, mem.ed, mem.urb, f, lo, mid - 1, fetched, hi, h2)'
  <2> SUFFICES ASSUME NEW p \in lo + 1 .. hi, mem'.td[f[p]].cc # OK
               PROVE  LET d == mem'.td[f[p]].ed
                      IN  IF p \in (mid - 1) + 1 .. fetched
                          THEN ~mem'.ed[d].halted /\ h2[d] = Len(mem'.urb[d].td) + 1
                          ELSE mem'.ed[d].halted
    BY DEF Failed
  <2>1. PICK d \in EDs : mem.td[f[p]].ed = d
    BY <1>3, RetiredWhere
  <2>2. mem'.td[f[p]].ed = d /\ mem'.urb[d].td = mem.urb[d].td /\ mem.td[f[p]].cc # OK
    BY <1>10, <1>11, <2>1
  <2>3. IF p \in (mid - 1) + 1 .. fetched THEN ~mem'.ed[d].halted /\ h2[d] = Len(mem.urb[d].td) + 1
        ELSE mem'.ed[d].halted
    BY <1>10, <2>1, <2>2 DEF Failed
  <2> QED
    BY <2>2, <2>3
<1>26. Witness(f, lo, mid - 1, fetched, written, hi, k, s, h2)'
  BY <1>3, <1>10, <1>19, <1>20, <1>21, <1>22, <1>23, <1>24 DEF Witness, History
<1> QED
  BY <1>18, <1>26, Witnessed

-----------------------------------------------------------------------------
(* takeback_td: it counts the TD, ends or requeues the URB, and unlinks.   *)
UrbSet(m, e, v, n) ==
    /\ n \in Memory /\ n.td = m.td /\ n.ed = m.ed /\ n.urb[e] = v
    /\ \A d \in EDs : d # e => n.urb[d] = m.urb[d]

LEMMA UrbEffect ==
    ASSUME NEW m \in Memory, NEW e \in EDs, NEW v \in Urb, NEW n, n = [m EXCEPT !.urb[e] = v]
    PROVE  UrbSet(m, e, v, n)
<1>1. /\ m.td \in [TDs -> Td] /\ m.ed \in [EDs -> Ed] /\ m.urb \in [EDs -> Urb]
      /\ m = [td |-> m.td, ed |-> m.ed, urb |-> m.urb]
  BY DEF Memory
<1>2. n = [td |-> m.td, ed |-> m.ed, urb |-> [m.urb EXCEPT ![e] = v]]
  BY <1>1
<1>3. n \in Memory
  BY <1>1, <1>2 DEF Memory
<1> QED
  BY <1>1, <1>2, <1>3 DEF UrbSet

LEMMA EndsEffect ==
    ASSUME NEW m \in Memory, NEW e \in EDs, NEW n, n = [m EXCEPT !.urb[e].finished = TRUE]
    PROVE  UrbSet(m, e, [m.urb[e] EXCEPT !.finished = TRUE], n)
<1> DEFINE v == [m.urb[e] EXCEPT !.finished = TRUE]
<1>1. m.urb[e] \in Urb
  BY DEF Memory
<1>2. v \in Urb
  BY <1>1 DEF Urb
<1>3. n = [m EXCEPT !.urb[e] = v]
  BY DEF Memory
<1> HIDE DEF v
<1>4. UrbSet(m, e, v, n)
  BY <1>2, <1>3, UrbEffect
<1> QED
  BY <1>4 DEF v

LEMMA CountEffect ==
    ASSUME NEW m \in Memory, NEW e \in EDs, NEW c \in Nat, NEW n, n = [m EXCEPT !.urb[e].td_cnt = c]
    PROVE  UrbSet(m, e, [m.urb[e] EXCEPT !.td_cnt = c], n)
<1> DEFINE v == [m.urb[e] EXCEPT !.td_cnt = c]
<1>1. m.urb[e] \in Urb
  BY DEF Memory
<1>2. v \in Urb
  BY <1>1 DEF Urb
<1>3. n = [m EXCEPT !.urb[e] = v]
  BY DEF Memory
<1> HIDE DEF v
<1>4. UrbSet(m, e, v, n)
  BY <1>2, <1>3, UrbEffect
<1> QED
  BY <1>4 DEF v

(* The end of takeback_td. *)
Closes(m, e, n) ==
    /\ n \in Memory /\ n.td = m.td /\ n.urb = m.urb
    /\ \A d \in EDs : d # e => n.ed[d] = m.ed[d]
    /\ n.ed[e].head = m.ed[e].head /\ n.ed[e].tail = m.ed[e].tail
    /\ n.ed[e].halted = m.ed[e].halted
    /\ n.ed[e].state = m.ed[e].state \/ n.ed[e].state = "UNLINK"
    /\ e \notin Interrupt /\ m.ed[e].head = m.ed[e].tail => n.ed[e].state # "OPER"

LEMMA CloseEffect ==
    ASSUME NEW m \in Memory, NEW e \in EDs, NEW cc, NEW n, n = UnlinkIdle(m, e, cc)
    PROVE  Closes(m, e, n)
<1> DEFINE q == [m.ed[e] EXCEPT !.state = "UNLINK"]
<1>1. /\ m.td \in [TDs -> Td] /\ m.ed \in [EDs -> Ed] /\ m.urb \in [EDs -> Urb]
      /\ m = [td |-> m.td, ed |-> m.ed, urb |-> m.urb] /\ m.ed[e] \in Ed
  BY DEF Memory
<1>2. /\ q \in Ed /\ q.head = m.ed[e].head /\ q.tail = m.ed[e].tail
      /\ q.halted = m.ed[e].halted /\ q.state = "UNLINK"
  BY <1>1 DEF Ed
<1> DEFINE Unlinks == \/ e \notin Interrupt /\ m.ed[e].head = m.ed[e].tail /\ m.ed[e].state = "OPER"
                      \/ e \in Interrupt /\ cc # OK
<1>3. CASE ~Unlinks
  <2>1. n = m
    BY <1>3 DEF UnlinkIdle
  <2>2. e \notin Interrupt /\ m.ed[e].head = m.ed[e].tail => m.ed[e].state # "OPER"
    BY <1>3
  <2> HIDE DEF Unlinks
  <2> QED
    BY <2>1, <2>2 DEF Closes
<1>4. CASE Unlinks
  <2>6. n = ep_unlink(m, e)
    BY <1>4 DEF UnlinkIdle
  <2> HIDE DEF Unlinks
  <2>1. n = [m EXCEPT !.ed[e].state = "UNLINK"]
    BY <2>6 DEF ep_unlink
  <2>2. n = [td |-> m.td, ed |-> [m.ed EXCEPT ![e] = q], urb |-> m.urb]
    BY <1>1, <2>1
  <2> HIDE DEF q
  <2>3. n \in Memory
    BY <1>1, <1>2, <2>2 DEF Memory
  <2>4. n.ed[e] = q /\ \A d \in EDs : d # e => n.ed[d] = m.ed[d]
    BY <1>1, <2>2
  <2>5. n.td = m.td /\ n.urb = m.urb
    BY <2>2
  <2> QED
    BY <1>2, <2>3, <2>4, <2>5 DEF Closes
<1> QED
  BY <1>3, <1>4

(* The queue with one more TD taken back. *)
Counted(e, u, d, v, q) ==
    /\ v.td = u.td /\ v.td_cnt = u.td_cnt + 1 /\ v.live = u.live
    /\ q.head = d.head /\ q.tail = d.tail /\ q.halted = d.halted
    /\ q.state = d.state \/ q.state = "UNLINK"
    /\ e \notin Interrupt =>
          /\ v.finished <=> u.finished \/ v.td_cnt = Len(u.td)
          /\ d.head = d.tail => q.state # "OPER"

LEMMA TakeQueue ==
    ASSUME NEW td, NEW e, NEW u, NEW d, NEW v, NEW q, NEW k, NEW s, NEW h,
           Queue(td, e, u, d, Len(u.td), k, s, h), Len(u.td) \in Nat, k < s,
           td[u.td[k + 1]].cc # OK => ~d.halted, Counted(e, u, d, v, q)
    PROVE  Queue(td, e, v, q, Len(v.td), k + 1, s, h) /\ v.td_cnt <= Len(v.td)
<1>0. /\ v.td = u.td /\ v.td_cnt = u.td_cnt + 1 /\ v.live = u.live
      /\ q.head = d.head /\ q.tail = d.tail /\ q.halted = d.halted
      /\ q.state = d.state \/ q.state = "UNLINK"
      /\ e \notin Interrupt =>
            /\ v.finished <=> u.finished \/ v.td_cnt = Len(u.td)
            /\ d.head = d.tail => q.state # "OPER"
  BY DEF Counted
<1>1. /\ Counts(u, Len(u.td), k, s, h) /\ Chained(td, e, u, d, Len(u.td), h)
      /\ Halts(td, u, d, k, s, h) /\ Ended(e, u, d)
  BY DEF Queue
<1>2. k \in Nat /\ s \in Nat /\ h \in Nat /\ k <= s /\ s <= Len(u.td) /\ s + 1 <= h /\ h <= Len(u.td) + 1
  BY <1>1, CountFacts
<1>3. u.td_cnt = k + (h - 1 - s)
  BY <1>1 DEF Counts
<1>4. v.td_cnt = (k + 1) + (h - 1 - s)
  BY <1>0, <1>2, <1>3
<1>5. Counts(v, Len(v.td), k + 1, s, h)
  <2>1. k + 1 \in Nat /\ k + 1 <= s
    BY <1>2
  <2>2. h = s + 1 \/ (h = Len(v.td) + 1 /\ Len(v.td) = Len(v.td))
    BY <1>0, <1>1 DEF Counts
  <2> QED
    BY <1>0, <1>2, <1>4, <2>1, <2>2 DEF Counts
<1>6. v.td_cnt <= Len(v.td) /\ u.td_cnt # Len(u.td)
  BY <1>0, <1>2, <1>3, <1>4
<1>7. Chained(td, e, v, q, Len(v.td), h)
  BY <1>0, <1>1 DEF Chained
<1>8. Halts(td, v, q, k + 1, s, h)
  <2>1. \A i \in (k + 1) + 1 .. s : i \in k + 1 .. s
    BY <1>2
  <2>2. q.halted => h = s + 1 /\ k + 1 < s /\ td[v.td[s]].cc # OK
    <3>1. q.halted => h = s + 1 /\ td[u.td[s]].cc # OK
      BY <1>0, <1>1 DEF Halts
    <3>2. q.halted => s # k + 1
      BY <1>0, <3>1
    <3>3. s # k + 1 => k + 1 < s
      BY <1>2
    <3> QED
      BY <1>0, <3>1, <3>2, <3>3
  <2> QED
    BY <1>0, <1>1, <2>1, <2>2 DEF Halts
<1>9. Ended(e, v, q)
  <2> SUFFICES ASSUME e \notin Interrupt
               PROVE  /\ v.finished => v.td_cnt = Len(v.td)
                      /\ v.finished \/ ~v.live => q.state # "OPER"
    BY DEF Ended
  <2>1. ~u.finished
    BY <1>1, <1>6 DEF Ended
  <2>2. v.finished => v.td_cnt = Len(v.td)
    BY <1>0, <2>1
  <2>3. v.finished => q.state # "OPER"
    <3> SUFFICES ASSUME v.finished PROVE q.state # "OPER"
      OBVIOUS
    <3>1. h = Len(v.td) + 1
      BY <1>0, <1>5, <2>2, AllCounted
    <3>2. d.head = d.tail
      BY <1>0, <1>1, <3>1 DEF Chained
    <3> QED
      BY <1>0, <3>2
  <2>4. ~v.live => q.state # "OPER"
    BY <1>0, <1>1 DEF Ended
  <2> QED
    BY <2>2, <2>3, <2>4
<1> QED
  BY <1>5, <1>6, <1>7, <1>8, <1>9 DEF Queue

(* takeback_td of a TD, unless it requeues the URB. *)
LEMMA TakePlain ==
    ASSUME NEW m \in Memory, NEW t \in TDs, NEW e \in EDs, m.td[t].ed = e,
           NEW n, n = takeback_td(m, t),
           e \notin Interrupt \/ m.urb[e].td_cnt + 1 # Len(m.urb[e].td)
    PROVE  /\ n \in Memory /\ n.td = m.td
           /\ \A d \in EDs : d # e => n.ed[d] = m.ed[d] /\ n.urb[d] = m.urb[d]
           /\ Counted(e, m.urb[e], m.ed[e], n.urb[e], n.ed[e])
<1> DEFINE u == m.urb[e]
<1>1. m.urb[e] \in Urb /\ u.td_cnt \in Nat
  BY MemoryTypes DEF Memory
<1>2. PICK c \in Nat : c = u.td_cnt + 1
  BY <1>1
<1>3. PICK y : y = [m EXCEPT !.urb[e].td_cnt = c]
  OBVIOUS
<1>4. y = [m EXCEPT !.urb[e].td_cnt = @ + 1]
  BY <1>2, <1>3 DEF Memory
<1>5. UrbSet(m, e, [m.urb[e] EXCEPT !.td_cnt = c], y)
  BY <1>3, CountEffect
<1>6. /\ y \in Memory /\ y.td = m.td /\ y.ed = m.ed /\ y.urb[e] = [m.urb[e] EXCEPT !.td_cnt = c]
      /\ \A d \in EDs : d # e => y.urb[d] = m.urb[d]
  BY <1>5 DEF UrbSet
<1>7. y.urb[e].td = u.td /\ y.urb[e].td_cnt = c /\ y.urb[e].live = u.live /\ y.urb[e].finished = u.finished
  BY <1>1, <1>6 DEF Urb
<1>8. PICK z : z = IF c = Len(u.td) THEN finish_urb(y, e) ELSE y
  OBVIOUS
<1>9. n = UnlinkIdle(z, e, m.td[t].cc)
  BY <1>4, <1>7, <1>8 DEF takeback_td
<1>10. /\ z \in Memory /\ z.td = m.td /\ z.ed = m.ed
       /\ \A d \in EDs : d # e => z.urb[d] = m.urb[d]
       /\ z.urb[e].td = u.td /\ z.urb[e].td_cnt = c /\ z.urb[e].live = u.live
       /\ e \notin Interrupt => (z.urb[e].finished <=> u.finished \/ c = Len(u.td))
  <2>1. CASE c = Len(u.td)
    <3>1. e \notin Interrupt
      BY <1>2, <2>1
    <3>2. z = [y EXCEPT !.urb[e].finished = TRUE]
      BY <1>8, <2>1, <3>1 DEF finish_urb
    <3>3. UrbSet(y, e, [y.urb[e] EXCEPT !.finished = TRUE], z)
      BY <1>6, <3>2, EndsEffect
    <3>4. y.urb[e] \in Urb
      BY <1>6 DEF Memory
    <3>5. z.urb[e] = [y.urb[e] EXCEPT !.finished = TRUE]
      BY <3>3 DEF UrbSet
    <3>6. /\ z.urb[e].td = u.td /\ z.urb[e].td_cnt = c /\ z.urb[e].live = u.live
          /\ z.urb[e].finished
      BY <1>7, <3>4, <3>5 DEF Urb
    <3> QED
      BY <1>6, <2>1, <3>3, <3>6 DEF UrbSet
  <2>2. CASE c # Len(u.td)
    BY <1>6, <1>7, <1>8, <2>2
  <2> QED
    BY <2>1, <2>2
<1>11. Closes(z, e, n)
  BY <1>9, <1>10, CloseEffect
<1>12. /\ n \in Memory /\ n.td = m.td /\ n.urb = z.urb
       /\ \A d \in EDs : d # e => n.ed[d] = m.ed[d]
       /\ n.ed[e].head = m.ed[e].head /\ n.ed[e].tail = m.ed[e].tail
       /\ n.ed[e].halted = m.ed[e].halted
       /\ n.ed[e].state = m.ed[e].state \/ n.ed[e].state = "UNLINK"
       /\ e \notin Interrupt /\ m.ed[e].head = m.ed[e].tail => n.ed[e].state # "OPER"
  BY <1>10, <1>11 DEF Closes
<1>13. Counted(e, m.urb[e], m.ed[e], n.urb[e], n.ed[e])
  BY <1>2, <1>10, <1>12 DEF Counted
<1> QED
  BY <1>10, <1>12, <1>13

LEMMA SoundSame ==
    ASSUME NEW m, Sound(m), NEW n,
           \A t \in TDs : n.td[t].used <=> m.td[t].used,
           \A d \in EDs : /\ n.urb[d].td = m.urb[d].td /\ n.urb[d].live = m.urb[d].live
                          /\ ~m.urb[d].live => n.urb[d] = m.urb[d]
                          /\ n.ed[d].tail = m.ed[d].tail
                          /\ n.ed[d].state = "NEW" <=> m.ed[d].state = "NEW"
    PROVE  Sound(n)
<1>1. Accounts(m.td, m.ed, m.urb) /\ \A e \in EDs : UrbOf(e, m.urb[e], m.ed[e])
  BY DEF Sound
<1>2. \A d \in EDs : n.urb[d].td = m.urb[d].td /\ n.ed[d].tail = m.ed[d].tail
  OBVIOUS
<1>3. \A t \in TDs : n.td[t].used <=> \/ \E e \in EDs : n.ed[e].tail = t
                                      \/ \E e \in EDs : t \in ToSet(n.urb[e].td)
  BY <1>1, <1>2 DEF Accounts
<1>4. \A d, e \in EDs : n.ed[d].tail # NULL => n.ed[d].tail \notin ToSet(n.urb[e].td)
  BY <1>1, <1>2 DEF Accounts
<1>5. \A d, e \in EDs : d # e => \A t \in ToSet(n.urb[d].td) : t \notin ToSet(n.urb[e].td)
  BY <1>1, <1>2 DEF Accounts
<1>6. \A d, e \in EDs : d # e /\ n.ed[d].tail = n.ed[e].tail => n.ed[d].tail = NULL
  BY <1>1, <1>2 DEF Accounts
<1>7. Accounts(n.td, n.ed, n.urb)
  BY <1>3, <1>4, <1>5, <1>6 DEF Accounts
<1>8. ASSUME NEW d \in EDs PROVE UrbOf(d, n.urb[d], n.ed[d])
  <2>1. UrbOf(d, m.urb[d], m.ed[d])
    BY <1>1
  <2> QED
    BY <2>1 DEF UrbOf
<1> QED
  BY <1>7, <1>8 DEF Sound

(* The next TD of the URB was retired; if it failed, the queue goes on. *)
Due(m, e, k, s, h) ==
    /\ Queue(m.td, e, m.urb[e], m.ed[e], Len(m.urb[e].td), k, s, h) /\ k < s
    /\ m.td[m.urb[e].td[k + 1]].cc # OK => ~m.ed[e].halted

(* takeback_td of the TD of an interrupt pipe: its URB starts again. *)
Restarted(m, e, n) ==
    /\ n \in Memory /\ Sound(n) /\ FilledOthers(m, e, n)
    /\ n.urb[e].live /\ n.ed[e].halted = m.ed[e].halted
    /\ Queue(n.td, e, n.urb[e], n.ed[e], Len(n.urb[e].td), 0, 0, 1)
    /\ n.urb[e].td_cnt <= Len(n.urb[e].td)

LEMMA TakeAgain ==
    ASSUME NEW m \in Memory, Sound(m), NEW t \in TDs, NEW e \in EDs, e \in Interrupt, m.td[t].ed = e,
           m.urb[e].live, NEW n, n = takeback_td(m, t), m.urb[e].td_cnt + 1 = Len(m.urb[e].td),
           NEW k, NEW s, NEW h,
           Due(m, e, k, s, h)
    PROVE  Restarted(m, e, n) /\ s = k + 1
<1> DEFINE u == m.urb[e]
<1>0. /\ Queue(m.td, e, m.urb[e], m.ed[e], Len(m.urb[e].td), k, s, h) /\ k < s
      /\ m.td[m.urb[e].td[k + 1]].cc # OK => ~m.ed[e].halted
  BY DEF Due
<1>1. m.urb[e] \in Urb /\ u.td_cnt \in Nat /\ u.td \in Seq(TDs) /\ Len(u.td) \in Nat
  BY MemoryTypes, InSequence DEF Memory
<1>2. Len(u.td) = 1
  <2>1. Len(u.td) \in 1 .. NUM_TD /\ Len(u.td) <= 1
    BY DEF Sound, UrbOf
  <2>2. PICK l \in Nat : l = Len(u.td)
    BY <1>1
  <2>3. l \in 1 .. NUM_TD /\ l <= 1
    BY <2>1, <2>2
  <2>4. l = 1
    BY <2>3, TdNumbers
  <2> QED
    BY <2>2, <2>4
<1>3. k = 0 /\ s = 1 /\ h = 2 /\ m.ed[e].head = m.ed[e].tail /\ ~m.ed[e].halted
  <2>1. Counts(u, 1, k, s, h) /\ Chained(m.td, e, u, m.ed[e], 1, h) /\ Halts(m.td, u, m.ed[e], k, s, h)
    BY <1>0, <1>2 DEF Queue
  <2>2. k \in Nat /\ s \in Nat /\ h \in Nat /\ k <= s /\ s <= 1 /\ s + 1 <= h /\ h <= 1 + 1
    BY <2>1, CountFacts
  <2>3. k = 0 /\ s = 1 /\ h = 2
    BY <1>0, <2>2
  <2>4. m.ed[e].head = m.ed[e].tail
    BY <2>1, <2>3 DEF Chained
  <2>5. ~m.ed[e].halted
    BY <1>0, <2>1, <2>3 DEF Halts
  <2> QED
    BY <2>3, <2>4, <2>5
<1>4. PICK c \in Nat : c = u.td_cnt + 1
  BY <1>1
<1>5. PICK y : y = [m EXCEPT !.urb[e].td_cnt = c]
  OBVIOUS
<1>6. y = [m EXCEPT !.urb[e].td_cnt = @ + 1]
  BY <1>4, <1>5 DEF Memory
<1>7. UrbSet(m, e, [m.urb[e] EXCEPT !.td_cnt = c], y)
  BY <1>5, CountEffect
<1>8. /\ y \in Memory /\ y.td = m.td /\ y.ed = m.ed /\ y.urb[e] = [m.urb[e] EXCEPT !.td_cnt = c]
      /\ \A d \in EDs : d # e => y.urb[d] = m.urb[d]
  BY <1>7 DEF UrbSet
<1>9. PICK x : x = [y EXCEPT !.urb[e].td_cnt = 0]
  OBVIOUS
<1>10. UrbSet(y, e, [y.urb[e] EXCEPT !.td_cnt = 0], x)
  BY <1>8, <1>9, CountEffect
<1>11. /\ x \in Memory /\ x.td = m.td /\ x.ed = m.ed
       /\ \A d \in EDs : d # e => x.urb[d] = m.urb[d]
       /\ x.urb[e].td = u.td /\ x.urb[e].td_cnt = 0 /\ x.urb[e].live
  <2>1. x.urb[e] = [[m.urb[e] EXCEPT !.td_cnt = c] EXCEPT !.td_cnt = 0]
    BY <1>8, <1>10 DEF UrbSet
  <2>2. x.urb[e].td = u.td /\ x.urb[e].td_cnt = 0 /\ x.urb[e].live
    BY <1>1, <2>1 DEF Urb
  <2> QED
    BY <1>8, <1>10, <2>2 DEF UrbSet
<1>12. Sound(x)
  <2>1. \A d \in EDs : /\ x.urb[d].td = m.urb[d].td /\ x.urb[d].live = m.urb[d].live
                       /\ ~m.urb[d].live => x.urb[d] = m.urb[d]
                       /\ x.ed[d].tail = m.ed[d].tail
                       /\ x.ed[d].state = "NEW" <=> m.ed[d].state = "NEW"
    <3>1. x.urb[e].live \in BOOLEAN /\ m.urb[e].live \in BOOLEAN
      BY <1>11, MemoryTypes
    <3> QED
      BY <1>11, <3>1
  <2>2. \A a \in TDs : x.td[a].used <=> m.td[a].used
    BY <1>11
  <2> QED
    BY <2>1, <2>2, SoundSame
<1>13. PICK z : z = td_fill(x, e, 1)
  OBVIOUS
<1>14. Len(x.urb[e].td) = 1 /\ Len(x.urb[e].td) \in Nat /\ 1 \in 1 .. Len(x.urb[e].td)
  <2>1. Len(x.urb[e].td) = 1
    BY <1>2, <1>11
  <2> QED
    BY <2>1
<1>15. Sound(z) /\ z \in Memory /\ FilledOwn(x, e, 1, z) /\ FilledOthers(x, e, z)
  BY <1>11, <1>12, <1>13, <1>14, FillFields, FillSound
<1>16. Queue(z.td, e, z.urb[e], z.ed[e], 1, 0, 0, 1)
  <2>1. Queue(x.td, e, x.urb[e], x.ed[e], 0, 0, 0, 1)
    <3>1. Counts(x.urb[e], 0, 0, 0, 1)
      BY <1>2, <1>11 DEF Counts
    <3>2. Chained(x.td, e, x.urb[e], x.ed[e], 0, 1)
      BY <1>3, <1>11 DEF Chained
    <3>3. Halts(x.td, x.urb[e], x.ed[e], 0, 0, 1)
      BY <1>3, <1>11 DEF Halts
    <3> QED
      BY <3>1, <3>2, <3>3 DEF Queue, Ended
  <2>2. PICK i \in Nat : i = 1 /\ i - 1 = 0
    OBVIOUS
  <2>3. /\ Queue(x.td, e, x.urb[e], x.ed[e], i - 1, 0, 0, 1) /\ i \in 1 .. Len(x.urb[e].td)
        /\ FilledOwn(x, e, i, z)
    BY <1>14, <1>15, <2>1, <2>2
  <2>4. Queue(z.td, e, z.urb[e], z.ed[e], i, 0, 0, 1)
    BY <1>14, <2>3, FillQueue
  <2> QED
    BY <2>2, <2>4
<1>17. PICK w : w = [z EXCEPT !.urb[e].finished = TRUE]
  OBVIOUS
<1>18. UrbSet(z, e, [z.urb[e] EXCEPT !.finished = TRUE], w)
  BY <1>15, <1>17, EndsEffect
<1>19. /\ w \in Memory /\ w.td = z.td /\ w.ed = z.ed
       /\ \A d \in EDs : d # e => w.urb[d] = z.urb[d]
       /\ w.urb[e].td = z.urb[e].td /\ w.urb[e].td_cnt = z.urb[e].td_cnt
       /\ w.urb[e].live = z.urb[e].live
  <2>1. z.urb[e] \in Urb
    BY <1>15 DEF Memory
  <2>2. w.urb[e] = [z.urb[e] EXCEPT !.finished = TRUE]
    BY <1>18 DEF UrbSet
  <2>3. /\ w.urb[e].td = z.urb[e].td /\ w.urb[e].td_cnt = z.urb[e].td_cnt
        /\ w.urb[e].live = z.urb[e].live
    BY <2>1, <2>2 DEF Urb
  <2> QED
    BY <1>18, <2>3 DEF UrbSet
<1>20. n = UnlinkIdle(w, e, m.td[t].cc)
  <2>1. w = finish_urb(y, e)
    BY <1>9, <1>13, <1>17 DEF finish_urb
  <2>2. y.urb[e].td_cnt = Len(m.urb[e].td)
    <3>1. y.urb[e].td_cnt = c
      BY <1>1, <1>8 DEF Urb
    <3> QED
      BY <1>4, <3>1
  <2> QED
    BY <1>6, <2>1, <2>2 DEF takeback_td
<1>21. Closes(w, e, n)
  BY <1>19, <1>20, CloseEffect
<1>22. /\ n \in Memory /\ n.td = z.td /\ n.urb = w.urb
       /\ \A d \in EDs : d # e => n.ed[d] = z.ed[d]
       /\ n.ed[e].head = z.ed[e].head /\ n.ed[e].tail = z.ed[e].tail
       /\ n.ed[e].halted = z.ed[e].halted
       /\ n.ed[e].state = z.ed[e].state \/ n.ed[e].state = "UNLINK"
  BY <1>19, <1>21 DEF Closes
<1>23. /\ z.urb[e].live /\ z.ed[e].halted = m.ed[e].halted
       /\ Len(z.urb[e].td) = 1 /\ z.urb[e].td_cnt = 0
  BY <1>11, <1>14, <1>15 DEF FilledOwn
<1>24. FilledOthers(m, e, n)
  <2>1. \A d \in EDs : d # e => n.urb[d] = z.urb[d] /\ n.ed[d] = z.ed[d]
    BY <1>19, <1>22
  <2> QED
    BY <1>11, <1>15, <1>22, <2>1 DEF FilledOthers
<1>25. Sound(n)
  <2>1. z.ed[e].state # "NEW"
    BY <1>15, <1>23 DEF Sound, UrbOf
  <2>2. \A d \in EDs : /\ n.urb[d].td = z.urb[d].td /\ n.urb[d].live = z.urb[d].live
                       /\ ~z.urb[d].live => n.urb[d] = z.urb[d]
                       /\ n.ed[d].tail = z.ed[d].tail
                       /\ n.ed[d].state = "NEW" <=> z.ed[d].state = "NEW"
    <3> TAKE d \in EDs
    <3>1. CASE d = e
      <4>1. /\ n.urb[e].td = z.urb[e].td /\ n.urb[e].live = z.urb[e].live /\ z.urb[e].live
            /\ n.ed[e].tail = z.ed[e].tail
        BY <1>19, <1>22, <1>23
      <4>2. n.ed[e].state = z.ed[e].state \/ n.ed[e].state = "UNLINK"
        BY <1>22
      <4>3. n.ed[e].state # "NEW"
        BY <2>1, <4>2
      <4> QED
        BY <2>1, <3>1, <4>1, <4>3
    <3>2. CASE d # e
      <4>1. n.urb[d] = z.urb[d] /\ n.ed[d] = z.ed[d]
        BY <1>19, <1>22, <3>2
      <4> QED
        BY <4>1
    <3> QED
      BY <3>1, <3>2
  <2>3. \A a \in TDs : n.td[a].used <=> z.td[a].used
    BY <1>22
  <2> QED
    BY <1>15, <2>2, <2>3, SoundSame
<1>26. Queue(n.td, e, n.urb[e], n.ed[e], 1, 0, 0, 1)
  <2>1. /\ Counts(z.urb[e], 1, 0, 0, 1) /\ Chained(z.td, e, z.urb[e], z.ed[e], 1, 1)
        /\ Halts(z.td, z.urb[e], z.ed[e], 0, 0, 1)
    BY <1>16 DEF Queue
  <2>2. n.urb[e].td = z.urb[e].td /\ n.urb[e].td_cnt = z.urb[e].td_cnt
    BY <1>19, <1>22
  <2>3. Counts(n.urb[e], 1, 0, 0, 1)
    BY <2>1, <2>2 DEF Counts
  <2>4. Chained(n.td, e, n.urb[e], n.ed[e], 1, 1)
    <3>1. n.td = z.td /\ n.ed[e].head = z.ed[e].head /\ n.ed[e].tail = z.ed[e].tail
      BY <1>22
    <3> QED
      BY <2>1, <2>2, <3>1, ChainedLike
  <2>5. Halts(n.td, n.urb[e], n.ed[e], 0, 0, 1)
    BY <1>22, <2>1, <2>2 DEF Halts
  <2> QED
    BY <2>3, <2>4, <2>5 DEF Queue, Ended
<1>27. Len(n.urb[e].td) = 1 /\ n.urb[e].td_cnt = 0 /\ n.urb[e].live
  <2>1. n.urb[e] = w.urb[e]
    BY <1>22
  <2>2. /\ w.urb[e].td = z.urb[e].td /\ w.urb[e].td_cnt = z.urb[e].td_cnt
        /\ w.urb[e].live = z.urb[e].live
    BY <1>19
  <2> QED
    BY <1>23, <2>1, <2>2
<1>28. n.ed[e].halted = m.ed[e].halted
  BY <1>22, <1>23
<1>29. Restarted(m, e, n)
  <2>1. 0 <= 1
    OBVIOUS
  <2> QED
    BY <1>22, <1>24, <1>25, <1>26, <1>27, <1>28, <2>1 DEF Restarted
<1> QED
  BY <1>3, <1>29

(* The TD taken back is the next of its URB. *)
LEMMA OldestRetired ==
    ASSUME Shape, main.pc = "takeback",
           NEW f, NEW lo, NEW mid, NEW fetched, NEW written, NEW hi, NEW k, NEW s, NEW h,
           Witness(f, lo, mid, fetched, written, hi, k, s, h)
    PROVE  \E e \in EDs :
              /\ f[lo + 1] \in TDs /\ mem.td[f[lo + 1]].ed = e /\ mem.urb[e].live
              /\ k[e] < s[e] /\ mem.urb[e].td[k[e] + 1] = f[lo + 1]
              /\ mem.td[f[lo + 1]].cc # OK => /\ ~mem.ed[e].halted /\ s[e] = k[e] + 1
                                              /\ h[e] = Len(mem.urb[e].td) + 1
              /\ \A p \in (lo + 1) + 1 .. hi :
                    /\ f[p] # f[lo + 1]
                    /\ mem.td[f[p]].ed = e => mem.td[f[p]].index + 1 # k[e] + 1
<1>0. TypeOK
  BY DEF Shape
<1>1. /\ Ordered(lo, mid, fetched, written, hi) /\ Pointers(f, lo, mid, fetched, written, hi)
      /\ Retired(mem.td, mem.urb, f, lo, hi, k, s)
      /\ Failed(mem.td, mem.ed, mem.urb, f, lo, mid, fetched, hi, h)
      /\ f \in [Nat -> TDs] /\ k \in [EDs -> Nat] /\ s \in [EDs -> Nat] /\ h \in [EDs -> Nat]
      /\ \A d \in EDs : Queue(mem.td, d, mem.urb[d], mem.ed[d], Filled(d), k[d], s[d], h[d])
  BY DEF Witness, History
<1>2. /\ lo \in Nat /\ hi \in Nat /\ lo + 1 \in Nat /\ lo + 1 \in lo + 1 .. hi /\ lo + 1 \in mid + 1 .. fetched
      /\ \A p \in (lo + 1) + 1 .. hi : p \in lo + 1 .. hi /\ lo + 1 < p
  BY <1>1 DEF Ordered, Pointers
<1>3. PICK t \in TDs : t = f[lo + 1]
  BY <1>1, <1>2
<1>4. PICK p0 : p0 = lo + 1
  OBVIOUS
<1>5. PICK e \in EDs : \E i \in k[e] + 1 .. s[e] :
            /\ mem.td[f[p0]].ed = e /\ mem.td[f[p0]].index + 1 = i
            /\ mem.urb[e].td[i] = f[p0] /\ i \in 1 .. Len(mem.urb[e].td)
  <2>1. p0 \in lo + 1 .. hi
    BY <1>2, <1>4
  <2> QED
    BY <2>1, RetiredTd
<1>6. PICK i \in k[e] + 1 .. s[e] :
            /\ mem.td[f[p0]].ed = e /\ mem.td[f[p0]].index + 1 = i
            /\ mem.urb[e].td[i] = f[p0] /\ i \in 1 .. Len(mem.urb[e].td)
  BY <1>5
<1>7. /\ k[e] \in Nat /\ s[e] \in Nat /\ s[e] <= Len(mem.urb[e].td) /\ Len(mem.urb[e].td) \in Nat
  <2>1. s[e] <= Filled(e) /\ Filled(e) <= Len(mem.urb[e].td) /\ Filled(e) \in Nat /\ s[e] \in Nat
    BY <1>1, CountFacts DEF Queue
  <2>2. Len(mem.urb[e].td) \in Nat
    BY <1>0, Types, InSequence
  <2> QED
    BY <1>1, <2>1, <2>2
<1>8. k[e] < s[e] /\ k[e] + 1 \in k[e] + 1 .. s[e] /\ k[e] + 1 \in 1 .. Len(mem.urb[e].td)
  BY <1>6, <1>7
<1>9. \A x \in TDs : mem.td[x].index \in Int
  <2> TAKE x \in TDs
  <2>1. mem.td[x].index \in 0 .. NUM_TD
    BY <1>0, Types
  <2> QED
    BY <2>1, TdNumbers
<1>10. ASSUME NEW p \in (lo + 1) + 1 .. hi, mem.td[f[p]].ed = e
       PROVE  i < mem.td[f[p]].index + 1
  <2>1. p \in lo + 1 .. hi /\ p0 \in lo + 1 .. hi /\ p0 < p /\ p \in Nat
    BY <1>2, <1>4
  <2>2. mem.td[f[p0]].index < mem.td[f[p]].index
    BY <1>1, <1>6, <1>10, <2>1 DEF Retired, InTurn
  <2>3. f[p] \in TDs /\ f[p0] \in TDs
    BY <1>1, <1>2, <1>4, <2>1
  <2>4. mem.td[f[p]].index \in Int /\ mem.td[f[p0]].index \in Int
    BY <1>9, <2>3
  <2>5. \A a, b \in Int : a < b => a + 1 < b + 1
    OBVIOUS
  <2>6. mem.td[f[p0]].index + 1 < mem.td[f[p]].index + 1
    BY <2>2, <2>4, <2>5
  <2> QED
    BY <1>6, <2>6
<1>11. i = k[e] + 1
  <2>1. PICK p \in lo + 1 .. hi : f[p] = mem.urb[e].td[k[e] + 1]
    <3>1. Retired(mem.td, mem.urb, f, lo, hi, k, s)
      BY <1>1
    <3>2. PICK j \in k[e] + 1 .. s[e] : j = k[e] + 1
      BY <1>8
    <3>3. \E p \in lo + 1 .. hi : f[p] = mem.urb[e].td[j]
      BY <3>1, RetiredAll
    <3> QED
      BY <3>2, <3>3
  <2>2. PICK j \in 1 .. Len(mem.urb[e].td) :
            mem.td[f[p]].ed = e /\ mem.td[f[p]].index + 1 = j /\ mem.urb[e].td[j] = f[p]
    <3>1. PICK d \in EDs : \E j \in k[d] + 1 .. s[d] :
              /\ mem.td[f[p]].ed = d /\ mem.td[f[p]].index + 1 = j /\ mem.urb[d].td[j] = f[p]
              /\ j \in 1 .. Len(mem.urb[d].td) /\ f[p] \in ToSet(mem.urb[d].td)
      BY RetiredTd
    <3>2. f[p] \in ToSet(mem.urb[e].td)
      <4>1. mem.urb[e].td \in Seq(TDs)
        BY <1>0, Types
      <4> QED
        BY <1>8, <2>1, <4>1, InSequence
    <3>3. d = e
      BY <3>1, <3>2 DEF Shape, Accounts
    <3> QED
      BY <3>1, <3>3
  <2>3. j = k[e] + 1
    BY <1>8, <2>1, <2>2 DEF Shape, UrbOf
  <2>4. p = p0
    <3>1. p # p0 => p \in (lo + 1) + 1 .. hi
      BY <1>2, <1>4
    <3>2. p # p0 => i < j
      BY <1>10, <2>2, <3>1
    <3>3. ~(i < k[e] + 1)
      BY <1>6, <1>7
    <3> QED
      BY <2>3, <3>2, <3>3
  <2> QED
    BY <1>6, <2>2, <2>3, <2>4
<1>12. mem.urb[e].live
  <2>1. Len(mem.urb[e].td) # 0
    BY <1>6, <1>7
  <2> QED
    BY <2>1, EmptySequence DEF Shape, UrbOf, NoUrb
<1>13. ASSUME mem.td[f[p0]].cc # OK
       PROVE  ~mem.ed[e].halted /\ s[e] = k[e] + 1 /\ h[e] = Len(mem.urb[e].td) + 1
  <2>1. ~mem.ed[e].halted /\ h[e] = Len(mem.urb[e].td) + 1
    BY <1>1, <1>2, <1>4, <1>6, <1>13 DEF Failed
  <2>2. i = s[e]
    BY <1>1, <1>6, <1>13 DEF Queue, Halts
  <2> QED
    BY <1>11, <2>1, <2>2
<1>14. ASSUME NEW p \in (lo + 1) + 1 .. hi
       PROVE  f[p] # f[lo + 1] /\ (mem.td[f[p]].ed = e => mem.td[f[p]].index + 1 # k[e] + 1)
  <2>1. mem.td[f[p]].ed = e => i < mem.td[f[p]].index + 1
    BY <1>10
  <2>2. mem.td[f[p]].ed = e => mem.td[f[p]].index + 1 # i
    BY <1>6, <2>1
  <2> QED
    BY <1>4, <1>6, <1>11, <2>2
<1> QED
  BY <1>3, <1>4, <1>6, <1>8, <1>11, <1>12, <1>13, <1>14

(* What takeback_td leaves of its ED: the URB with one more TD taken back, *)
(* or a new start; nobody else is touched.                                 *)
TakesOne(m, e, n, k, s, h, a, b, c) ==
    /\ a \in Nat /\ b \in Nat /\ c \in Nat
    /\ n \in Memory /\ Sound(n) /\ FilledOthers(m, e, n)
    /\ n.urb[e].live /\ n.ed[e].halted = m.ed[e].halted
    /\ Queue(n.td, e, n.urb[e], n.ed[e], Len(n.urb[e].td), a, b, c)
    /\ n.urb[e].td_cnt <= Len(n.urb[e].td)
    /\ \/ a = k + 1 /\ b = s /\ c = h /\ n.td = m.td /\ n.urb[e].td = m.urb[e].td
       \/ a = b /\ s = k + 1

LEMMA TakeOne ==
    ASSUME NEW m \in Memory, Sound(m), NEW t \in TDs, NEW e \in EDs, m.td[t].ed = e,
           m.urb[e].live, NEW n, n = takeback_td(m, t),
           NEW k \in Nat, NEW s \in Nat, NEW h \in Nat,
           Due(m, e, k, s, h)
    PROVE  \E a, b, c : TakesOne(m, e, n, k, s, h, a, b, c)
<1>0. /\ Queue(m.td, e, m.urb[e], m.ed[e], Len(m.urb[e].td), k, s, h) /\ k < s
      /\ m.td[m.urb[e].td[k + 1]].cc # OK => ~m.ed[e].halted
  BY DEF Due
<1>1. CASE e \notin Interrupt \/ m.urb[e].td_cnt + 1 # Len(m.urb[e].td)
  <2>1. /\ n \in Memory /\ n.td = m.td
        /\ \A d \in EDs : d # e => n.ed[d] = m.ed[d] /\ n.urb[d] = m.urb[d]
        /\ Counted(e, m.urb[e], m.ed[e], n.urb[e], n.ed[e])
    BY <1>1, TakePlain
  <2>2. Len(m.urb[e].td) \in Nat
    BY MemoryTypes, InSequence
  <2>3. /\ Queue(m.td, e, n.urb[e], n.ed[e], Len(n.urb[e].td), k + 1, s, h)
        /\ n.urb[e].td_cnt <= Len(n.urb[e].td)
    <3> DEFINE u == m.urb[e]
               d == m.ed[e]
               v == n.urb[e]
               q == n.ed[e]
               td == m.td
    <3>1. /\ Queue(td, e, u, d, Len(u.td), k, s, h) /\ Len(u.td) \in Nat
          /\ td[u.td[k + 1]].cc # OK => ~d.halted
          /\ Counted(e, u, d, v, q)
      BY <1>0, <2>1, <2>2
    <3> HIDE DEF u, d, v, q, td
    <3>2. Queue(td, e, v, q, Len(v.td), k + 1, s, h) /\ v.td_cnt <= Len(v.td)
      BY <1>0, <3>1, TakeQueue
    <3> QED
      BY <3>2 DEF u, d, v, q, td
  <2>4. /\ n.urb[e].td = m.urb[e].td /\ n.urb[e].live = m.urb[e].live
        /\ n.ed[e].halted = m.ed[e].halted /\ n.ed[e].tail = m.ed[e].tail
        /\ n.ed[e].state = m.ed[e].state \/ n.ed[e].state = "UNLINK"
    BY <2>1 DEF Counted
  <2>5. Sound(n)
    <3>1. m.ed[e].state # "NEW"
      BY DEF Sound, UrbOf
    <3>2. \A d \in EDs : /\ n.urb[d].td = m.urb[d].td /\ n.urb[d].live = m.urb[d].live
                         /\ ~m.urb[d].live => n.urb[d] = m.urb[d]
                         /\ n.ed[d].tail = m.ed[d].tail
                         /\ n.ed[d].state = "NEW" <=> m.ed[d].state = "NEW"
      <4> TAKE d \in EDs
      <4>1. CASE d = e
        <5>1. n.ed[e].state # "NEW"
          BY <2>4, <3>1
        <5> QED
          BY <2>4, <3>1, <4>1, <5>1
      <4>2. CASE d # e
        BY <2>1, <4>2
      <4> QED
        BY <4>1, <4>2
    <3>3. \A x \in TDs : n.td[x].used <=> m.td[x].used
      BY <2>1
    <3> QED
      BY <3>2, <3>3, SoundSame
  <2>6. FilledOthers(m, e, n)
    BY <2>1 DEF FilledOthers
  <2>7. k + 1 \in Nat
    OBVIOUS
  <2>8. TakesOne(m, e, n, k, s, h, k + 1, s, h)
    BY <2>1, <2>3, <2>4, <2>5, <2>6, <2>7 DEF TakesOne
  <2> QED
    BY <2>8
<1>2. CASE e \in Interrupt /\ m.urb[e].td_cnt + 1 = Len(m.urb[e].td)
  <2>0. e \in Interrupt /\ m.urb[e].td_cnt + 1 = Len(m.urb[e].td)
    BY <1>2
  <2>1. Restarted(m, e, n) /\ s = k + 1
    BY <2>0, TakeAgain, ZenonT(60)
  <2>2. TakesOne(m, e, n, k, s, h, 0, 0, 1)
    BY <2>1 DEF Restarted, TakesOne
  <2> QED
    BY <1>2, <2>2
<1> QED
  BY <1>1, <1>2

(* What dl_done_list keeps of the others that were retired. *)
TakeKeeps(f, lo, fetched, hi, k, s, h) ==
    /\ mem' \in Memory /\ Sound(mem')
    /\ k \in [EDs -> Nat] /\ s \in [EDs -> Nat] /\ h \in [EDs -> Nat]
    /\ \A d \in EDs : /\ mem'.urb[d].live = mem.urb[d].live
                      /\ mem'.urb[d].td_cnt <= Len(mem'.urb[d].td)
                      /\ Queue(mem'.td, d, mem'.urb[d], mem'.ed[d], Len(mem'.urb[d].td), k[d], s[d], h[d])
    /\ \A p \in lo + 1 .. hi : mem'.td[f[p]] = mem.td[f[p]]
    /\ Retired(mem'.td, mem'.urb, f, lo, hi, k, s)
    /\ Failed(mem'.td, mem'.ed, mem'.urb, f, lo, lo, fetched, hi, h)

LEMMA TakeKept ==
    ASSUME Shape, main.pc = "takeback",
           NEW f, NEW lo, NEW mid, NEW fetched, NEW written, NEW hi, NEW k, NEW s, NEW h,
           Witness(f, lo, mid, fetched, written, hi, k, s, h),
           mem' = takeback_td(mem, f[lo + 1])
    PROVE  \E k2, s2, h2 : TakeKeeps(f, lo + 1, fetched, hi, k2, s2, h2)
<1>0. TypeOK /\ mem \in Memory /\ Sound(mem) /\ Accounts(mem.td, mem.ed, mem.urb)
  BY SoundMemory DEF Shape, TypeOK
<1>1. /\ Ordered(lo, mid, fetched, written, hi) /\ Pointers(f, lo, mid, fetched, written, hi)
      /\ Retired(mem.td, mem.urb, f, lo, hi, k, s)
      /\ Failed(mem.td, mem.ed, mem.urb, f, lo, mid, fetched, hi, h)
      /\ f \in [Nat -> TDs] /\ k \in [EDs -> Nat] /\ s \in [EDs -> Nat] /\ h \in [EDs -> Nat]
      /\ \A d \in EDs : Queue(mem.td, d, mem.urb[d], mem.ed[d], Filled(d), k[d], s[d], h[d])
  BY DEF Witness, History
<1>2. /\ lo \in Nat /\ hi \in Nat /\ fetched \in Nat /\ lo + 1 \in Nat /\ lo = mid
      /\ \A p \in (lo + 1) + 1 .. hi : /\ p \in lo + 1 .. hi
                                       /\ p \in mid + 1 .. fetched <=> p \in (lo + 1) + 1 .. fetched
  BY <1>1 DEF Ordered, Pointers
<1>3. PICK p0 \in Nat : p0 = lo + 1
  BY <1>2
<1>4. PICK t \in TDs : t = f[p0]
  BY <1>1, <1>3
<1>5. PICK e \in EDs :
          /\ f[lo + 1] \in TDs /\ mem.td[f[lo + 1]].ed = e /\ mem.urb[e].live
          /\ k[e] < s[e] /\ mem.urb[e].td[k[e] + 1] = f[lo + 1]
          /\ mem.td[f[lo + 1]].cc # OK => /\ ~mem.ed[e].halted /\ s[e] = k[e] + 1
                                          /\ h[e] = Len(mem.urb[e].td) + 1
          /\ \A p \in (lo + 1) + 1 .. hi :
                /\ f[p] # f[lo + 1]
                /\ mem.td[f[p]].ed = e => mem.td[f[p]].index + 1 # k[e] + 1
  BY OldestRetired
<1>6. \A d \in EDs : Filled(d) = Len(mem.urb[d].td) /\ Len(mem.urb[d].td) \in Nat /\ mem.urb[d].td \in Seq(TDs)
  <2>1. \A d \in EDs : Filled(d) = Len(mem.urb[d].td)
    BY DEF Filled
  <2> QED
    BY <1>0, <2>1, Types, InSequence
<1>7. \A d \in EDs : Queue(mem.td, d, mem.urb[d], mem.ed[d], Len(mem.urb[d].td), k[d], s[d], h[d])
  BY <1>1, <1>6
<1>8. PICK n : n = mem'
  OBVIOUS
<1>9. \E a, b, c : TakesOne(mem, e, n, k[e], s[e], h[e], a, b, c)
  <2>1. Due(mem, e, k[e], s[e], h[e])
    <3>1. mem.td[mem.urb[e].td[k[e] + 1]].cc # OK => ~mem.ed[e].halted
      BY <1>5
    <3> QED
      BY <1>5, <1>7, <3>1 DEF Due
  <2>2. k[e] \in Nat /\ s[e] \in Nat /\ h[e] \in Nat
    BY <1>1
  <2>3. n = takeback_td(mem, t) /\ mem.td[t].ed = e /\ mem.urb[e].live
    BY <1>3, <1>4, <1>5, <1>8
  <2> QED
    BY <1>0, <2>1, <2>2, <2>3, TakeOne
<1>10. PICK a, b, c : TakesOne(mem, e, n, k[e], s[e], h[e], a, b, c)
  BY <1>9
<1>11. /\ a \in Nat /\ b \in Nat /\ c \in Nat
       /\ n \in Memory /\ Sound(n) /\ FilledOthers(mem, e, n)
       /\ n.urb[e].live /\ n.ed[e].halted = mem.ed[e].halted
       /\ Queue(n.td, e, n.urb[e], n.ed[e], Len(n.urb[e].td), a, b, c)
       /\ n.urb[e].td_cnt <= Len(n.urb[e].td)
       /\ \/ a = k[e] + 1 /\ b = s[e] /\ c = h[e] /\ n.td = mem.td /\ n.urb[e].td = mem.urb[e].td
          \/ a = b /\ s[e] = k[e] + 1
  BY <1>10 DEF TakesOne
<1> DEFINE k2 == [k EXCEPT ![e] = a]
           s2 == [s EXCEPT ![e] = b]
           h2 == [h EXCEPT ![e] = c]
<1>12. /\ k2 \in [EDs -> Nat] /\ s2 \in [EDs -> Nat] /\ h2 \in [EDs -> Nat]
       /\ k2[e] = a /\ s2[e] = b /\ h2[e] = c
       /\ \A d \in EDs : d # e => k2[d] = k[d] /\ s2[d] = s[d] /\ h2[d] = h[d]
  BY <1>1, <1>11
<1> HIDE DEF k2, s2, h2
<1>13. \A d \in EDs : d # e =>
          /\ n.urb[d] = mem.urb[d] /\ n.ed[d] = mem.ed[d]
          /\ \A i \in 1 .. Len(mem.urb[d].td) : n.td[mem.urb[d].td[i]] = mem.td[mem.urb[d].td[i]]
  BY <1>11 DEF FilledOthers
<1>14. ASSUME NEW p \in (lo + 1) + 1 .. hi
       PROVE  \E d \in EDs : \E i \in k2[d] + 1 .. s2[d] :
                 /\ mem.td[f[p]].ed = d /\ mem.td[f[p]].index + 1 = i /\ n.td[f[p]] = mem.td[f[p]]
                 /\ n.urb[d].td = mem.urb[d].td /\ mem.urb[d].td[i] = f[p] /\ h2[d] = h[d]
  <2>1. PICK d \in EDs : \E i \in k[d] + 1 .. s[d] :
              /\ mem.td[f[p]].ed = d /\ mem.td[f[p]].index + 1 = i
              /\ mem.urb[d].td[i] = f[p] /\ i \in 1 .. Len(mem.urb[d].td)
    <3>1. p \in lo + 1 .. hi
      BY <1>2
    <3> QED
      BY <3>1, RetiredTd
  <2>2. PICK i \in k[d] + 1 .. s[d] :
              /\ mem.td[f[p]].ed = d /\ mem.td[f[p]].index + 1 = i
              /\ mem.urb[d].td[i] = f[p] /\ i \in 1 .. Len(mem.urb[d].td)
    BY <2>1
  <2>3. CASE d = e
    <3>1. i # k[e] + 1
      BY <1>5, <2>2, <2>3
    <3>2. k[e] \in Nat /\ s[e] \in Nat
      BY <1>1
    <3>3. s[e] # k[e] + 1 /\ i \in (k[e] + 1) + 1 .. s[e]
      BY <2>2, <2>3, <3>1, <3>2
    <3>4. a = k[e] + 1 /\ b = s[e] /\ c = h[e] /\ n.td = mem.td /\ n.urb[e].td = mem.urb[e].td
      BY <1>11, <3>3
    <3> QED
      BY <1>12, <2>2, <2>3, <3>3, <3>4
  <2>4. CASE d # e
    <3>1. k2[d] = k[d] /\ s2[d] = s[d] /\ h2[d] = h[d]
      BY <1>12, <2>4
    <3>2. n.urb[d].td = mem.urb[d].td /\ n.td[f[p]] = mem.td[f[p]]
      BY <1>13, <2>2, <2>4
    <3> QED
      BY <2>2, <3>1, <3>2
  <2> QED
    BY <2>3, <2>4
<1>15. ASSUME NEW d \in EDs
       PROVE  /\ n.urb[d].live = mem.urb[d].live /\ n.urb[d].td_cnt <= Len(n.urb[d].td)
              /\ Queue(n.td, d, n.urb[d], n.ed[d], Len(n.urb[d].td), k2[d], s2[d], h2[d])
              /\ n.ed[d].halted = mem.ed[d].halted
  <2>1. CASE d = e
    <3>1. n.urb[e].live = mem.urb[e].live
      <4>1. n.urb[e].live \in BOOLEAN /\ mem.urb[e].live \in BOOLEAN
        BY <1>0, <1>11, MemoryTypes
      <4> QED
        BY <1>5, <1>11, <4>1
    <3> QED
      BY <1>11, <1>12, <2>1, <3>1
  <2>2. CASE d # e
    <3>1. /\ n.urb[d] = mem.urb[d] /\ n.ed[d] = mem.ed[d]
          /\ \A i \in 1 .. Len(mem.urb[d].td) : n.td[mem.urb[d].td[i]] = mem.td[mem.urb[d].td[i]]
      BY <1>13, <2>2
    <3> DEFINE T == n.td
               U == mem.td
    <3>2. /\ Queue(U, d, mem.urb[d], mem.ed[d], Len(mem.urb[d].td), k[d], s[d], h[d])
          /\ \A i \in 1 .. Len(mem.urb[d].td) : T[mem.urb[d].td[i]] = U[mem.urb[d].td[i]]
      BY <1>7, <3>1
    <3> HIDE DEF T, U
    <3>3. Queue(T, d, mem.urb[d], mem.ed[d], Len(mem.urb[d].td), k[d], s[d], h[d])
      BY <1>6, <3>2, QueueSame
    <3>4. mem.urb[d].td_cnt <= Len(mem.urb[d].td)
      BY <1>0 DEF TypeOK
    <3> QED
      BY <1>12, <2>2, <3>1, <3>3, <3>4 DEF T
  <2> QED
    BY <2>1, <2>2
<1>16. \A p \in (lo + 1) + 1 .. hi : n.td[f[p]] = mem.td[f[p]]
  BY <1>14
<1>17. Retired(n.td, n.urb, f, lo + 1, hi, k2, s2)
  <2>1. Located(n.td, n.urb, f, lo + 1, hi, k2, s2)
    BY <1>14 DEF Located
  <2>2. InTurn(n.td, f, lo + 1, hi)
    <3>1. InTurn(mem.td, f, lo, hi)
      BY <1>1 DEF Retired
    <3>2. (lo + 1) + 1 .. hi \subseteq lo + 1 .. hi
      BY <1>2
    <3> QED
      BY <1>16, <3>1, <3>2, InTurnSame
  <2>3. ASSUME NEW d \in EDs, NEW i \in k2[d] + 1 .. s2[d]
        PROVE  \E p \in (lo + 1) + 1 .. hi : f[p] = n.urb[d].td[i]
    <3>1. /\ i \in k[d] + 1 .. s[d] /\ n.urb[d].td = mem.urb[d].td
          /\ d = e => i # k[e] + 1
      <4>1. CASE d = e
        <5>1. k[e] \in Nat /\ s[e] \in Nat
          BY <1>1
        <5>2. i \in a + 1 .. b
          BY <1>12, <2>3, <4>1
        <5>3. a # b
          BY <1>11, <5>2
        <5>4. a = k[e] + 1 /\ b = s[e] /\ n.urb[e].td = mem.urb[e].td
          BY <1>11, <5>3
        <5> QED
          BY <4>1, <5>1, <5>2, <5>4
      <4>2. CASE d # e
        BY <1>12, <1>13, <2>3, <4>2
      <4> QED
        BY <4>1, <4>2
    <3>2. PICK p \in lo + 1 .. hi : f[p] = mem.urb[d].td[i]
      BY <1>1, <3>1, RetiredAll
    <3>3. p # lo + 1
      <4> SUFFICES ASSUME p = lo + 1 PROVE FALSE
        OBVIOUS
      <4>1. mem.urb[d].td[i] = mem.urb[e].td[k[e] + 1]
        BY <1>5, <3>2
      <4>2. \A y \in EDs : \A j \in k[y] + 1 .. s[y] : j \in 1 .. Len(mem.urb[y].td)
        <5> TAKE y \in EDs
        <5> TAKE j \in k[y] + 1 .. s[y]
        <5>1. k[y] \in Nat /\ s[y] \in Nat /\ s[y] <= Len(mem.urb[y].td) /\ Len(mem.urb[y].td) \in Nat
          BY <1>6, <1>7, CountFacts DEF Queue
        <5> QED
          BY <5>1
      <4>3. i \in 1 .. Len(mem.urb[d].td) /\ k[e] + 1 \in 1 .. Len(mem.urb[e].td)
        <5>1. k[e] + 1 \in k[e] + 1 .. s[e]
          BY <1>1, <1>5
        <5> QED
          BY <3>1, <4>2, <5>1
      <4>4. d = e
        <5>1. mem.urb[d].td[i] \in ToSet(mem.urb[d].td)
          BY <1>6, <4>3, InSequence
        <5>2. mem.urb[e].td[k[e] + 1] \in ToSet(mem.urb[e].td)
          BY <1>6, <4>3, InSequence
        <5> QED
          BY <1>0, <4>1, <5>1, <5>2 DEF Accounts
      <4>5. i = k[e] + 1
        BY <1>0, <4>1, <4>3, <4>4 DEF Sound, UrbOf
      <4> QED
        BY <3>1, <4>4, <4>5
    <3>4. p \in (lo + 1) + 1 .. hi
      BY <1>2, <3>3
    <3> QED
      BY <3>1, <3>2, <3>4
  <2>4. Covered(n.urb, f, lo + 1, hi, k2, s2)
    BY <2>3 DEF Covered
  <2> QED
    BY <2>1, <2>2, <2>4 DEF Retired
<1>18. Failed(n.td, n.ed, n.urb, f, lo + 1, lo + 1, fetched, hi, h2)
  <2> SUFFICES ASSUME NEW p \in (lo + 1) + 1 .. hi, n.td[f[p]].cc # OK
               PROVE  LET d == n.td[f[p]].ed
                      IN  IF p \in (lo + 1) + 1 .. fetched
                          THEN ~n.ed[d].halted /\ h2[d] = Len(n.urb[d].td) + 1
                          ELSE n.ed[d].halted
    BY DEF Failed
  <2>1. PICK d \in EDs : /\ mem.td[f[p]].ed = d /\ n.td[f[p]] = mem.td[f[p]]
                         /\ n.urb[d].td = mem.urb[d].td /\ h2[d] = h[d]
    BY <1>14
  <2>2. p \in lo + 1 .. hi /\ (p \in mid + 1 .. fetched <=> p \in (lo + 1) + 1 .. fetched)
    BY <1>2
  <2>3. IF p \in mid + 1 .. fetched THEN ~mem.ed[d].halted /\ h[d] = Len(mem.urb[d].td) + 1
        ELSE mem.ed[d].halted
    BY <1>1, <2>1, <2>2 DEF Failed
  <2>4. n.ed[d].halted = mem.ed[d].halted
    BY <1>15
  <2> QED
    BY <2>1, <2>2, <2>3, <2>4
<1>19. TakeKeeps(f, lo + 1, fetched, hi, k2, s2, h2)
  BY <1>8, <1>11, <1>12, <1>15, <1>16, <1>17, <1>18 DEF TakeKeeps
<1> QED
  BY <1>19

(* td_rev without its first TD. *)
Popped(f, mid, n, rev) ==
    /\ Head(rev) = f[mid + 1] /\ Len(rev) = n
    /\ Tail(rev) = [i \in 1 .. n - 1 |-> f[(mid + 1) + i]] /\ Tail(rev) \in Seq(TDs)

LEMMA WithoutOne ==
    ASSUME NEW f \in [Nat -> TDs], NEW mid \in Nat, NEW n \in Nat, n # 0,
           NEW rev, rev = [i \in 1 .. n |-> f[mid + i]]
    PROVE  Popped(f, mid, n, rev)
<1>1. /\ rev \in Seq(TDs) /\ Len(rev) = n
  OBVIOUS
<1>2. Head(rev) = f[mid + 1]
  BY <1>1
<1>3. rev # <<>>
  BY <1>1
<1>4. Tail(rev) \in Seq(TDs) /\ Len(Tail(rev)) = n - 1
  <2>1. Tail(rev) \in Seq(TDs) /\ Len(Tail(rev)) = Len(rev) - 1
    BY <1>1, <1>3, HeadTailProperties
  <2> QED
    BY <1>1, <2>1
<1>5. ASSUME NEW i \in 1 .. n - 1 PROVE Tail(rev)[i] = f[(mid + 1) + i]
  <2>1. Tail(rev)[i] = rev[i + 1]
    BY <1>1, <1>3
  <2>2. i + 1 \in 1 .. n /\ mid + (i + 1) = (mid + 1) + i
    OBVIOUS
  <2> QED
    BY <2>1, <2>2
<1>6. Tail(rev) = [i \in 1 .. n - 1 |-> Tail(rev)[i]]
  BY <1>4
<1> QED
  BY <1>1, <1>2, <1>4, <1>5, <1>6 DEF Popped

LEMMA TakebackStep == OhciInv /\ dl_done_list => OhciInv'
<1> SUFFICES ASSUME OhciInv, dl_done_list PROVE OhciInv'
  OBVIOUS
<1>0. Shape /\ TypeOK /\ Place /\ main.pc = "takeback" /\ hc' = hc /\ disabled' = disabled /\ givenUp' = givenUp
  BY DEF OhciInv, Shape, dl_done_list
<1>1. Going
  BY <1>0 DEF Place, Going
<1>2. PICK f, lo, mid, fetched, written, hi, k, s, h :
          Witness(f, lo, mid, fetched, written, hi, k, s, h)
  BY <1>1, WithWitness
<1>3. /\ Ordered(lo, mid, fetched, written, hi) /\ Pointers(f, lo, mid, fetched, written, hi)
      /\ Links(mem.td, f, lo, mid, fetched, written, hi)
      /\ f \in [Nat -> TDs]
  BY <1>2 DEF Witness, History
<1>4. /\ lo \in Nat /\ mid \in Nat /\ fetched \in Nat /\ written \in Nat /\ hi \in Nat
      /\ lo = mid /\ lo < fetched /\ fetched = written /\ written <= hi /\ lo + 1 \in Nat
  BY <1>0, <1>3 DEF Ordered, Pointers
<1>5. PICK n \in Nat : n = fetched - mid /\ n # 0
  BY <1>4
<1>6. PICK rev : rev = main.td_rev
  OBVIOUS
<1>7. /\ Head(rev) = f[lo + 1] /\ Len(rev) = n
      /\ Tail(rev) = [i \in 1 .. n - 1 |-> f[(lo + 1) + i]] /\ Tail(rev) \in Seq(TDs)
  <2>1. rev = [i \in 1 .. n |-> f[lo + i]]
    BY <1>3, <1>4, <1>5, <1>6 DEF Pointers
  <2>2. Popped(f, lo, n, rev)
    <3>1. lo \in Nat /\ n # 0
      BY <1>4, <1>5
    <3> QED
      BY <1>3, <2>1, <3>1, WithoutOne
  <2> QED
    BY <2>2 DEF Popped
<1>8. PICK t \in TDs : t = f[lo + 1]
  BY <1>3, <1>4
<1>9. mem' = takeback_td(mem, f[lo + 1])
  BY <1>6, <1>7 DEF dl_done_list
<1>10. /\ main'.pc = IF n = 1 THEN "ack" ELSE "takeback"
       /\ main'.td_rev = Tail(rev) /\ main'.stat = mem.td[t].cc
       /\ main'.ed = main.ed /\ main'.n = main.n /\ main'.td_list_hc = main.td_list_hc
       /\ main' = [pc |-> main'.pc, ed |-> main.ed, n |-> main.n, td_list_hc |-> main.td_list_hc,
                   td_rev |-> main'.td_rev, stat |-> main'.stat]
  BY <1>0, <1>6, <1>7, <1>8 DEF dl_done_list, TypeOK
<1>11. \E k2, s2, h2 : TakeKeeps(f, lo + 1, fetched, hi, k2, s2, h2)
  BY <1>0, <1>2, <1>9, TakeKept
<1>12. PICK k2, s2, h2 : TakeKeeps(f, lo + 1, fetched, hi, k2, s2, h2)
  BY <1>11
<1>13. /\ mem' \in Memory /\ Sound(mem')
       /\ k2 \in [EDs -> Nat] /\ s2 \in [EDs -> Nat] /\ h2 \in [EDs -> Nat]
       /\ \A p \in (lo + 1) + 1 .. hi : mem'.td[f[p]] = mem.td[f[p]]
       /\ Retired(mem'.td, mem'.urb, f, lo + 1, hi, k2, s2)
       /\ Failed(mem'.td, mem'.ed, mem'.urb, f, lo + 1, lo + 1, fetched, hi, h2)
  BY <1>12 DEF TakeKeeps
<1>14. \A d \in EDs :
          /\ mem'.urb[d].live = mem.urb[d].live /\ mem'.urb[d].td_cnt <= Len(mem'.urb[d].td)
          /\ Queue(mem'.td, d, mem'.urb[d], mem'.ed[d], Len(mem'.urb[d].td), k2[d], s2[d], h2[d])
  BY <1>12 DEF TakeKeeps
<1>15. TypeOK'
  <2>1. main.ed \in EDs \cup {NULL} /\ main.n \in 0 .. NUM_TD /\ main.td_list_hc \in TDs \cup {NULL}
    BY <1>0 DEF TypeOK
  <2>2. mem.td[t].cc \in Codes
    BY <1>0, Types
  <2>3. main' \in MainTypes
    BY <1>7, <1>10, <2>1, <2>2 DEF MainTypes
  <2>4. hc' \in HcTypes /\ disabled' \in BOOLEAN /\ givenUp' \subseteq TDs
    BY <1>0 DEF TypeOK, HcTypes
  <2> QED
    BY <1>13, <1>14, <2>3, <2>4 DEF TypeOK, HcTypes, MainTypes
<1>16. Place'
  <2>1. main'.pc \in {"ack", "takeback"} /\ main'.ed = main.ed
    BY <1>10
  <2>2. \A d \in EDs : mem'.urb[d].live = mem.urb[d].live
    BY <1>14
  <2> QED
    BY <1>0, <2>1, <2>2 DEF Place
<1>17. Shape'
  BY <1>13, <1>15, <1>16 DEF Shape, Sound
<1>18. Ordered(lo + 1, lo + 1, fetched, written, hi)
  BY <1>4 DEF Ordered
<1>19. Pointers(f, lo + 1, lo + 1, fetched, written, hi)'
  <2>1. main'.td_list_hc = Newest(f, lo + 1, lo + 1)
    BY <1>3, <1>4, <1>10 DEF Pointers, Newest
  <2>2. n - 1 = fetched - (lo + 1) /\ (n = 1 <=> ~(lo + 1 < fetched))
    BY <1>4, <1>5
  <2>3. main'.td_rev = [i \in 1 .. fetched - (lo + 1) |-> f[(lo + 1) + i]]
    BY <1>7, <1>10, <2>2
  <2>4. main'.pc = "takeback" <=> lo + 1 < fetched
    BY <1>10, <2>2
  <2>5. main'.pc # "reverse" /\ ~(lo + 1 < lo + 1)
    BY <1>4, <1>10
  <2>6. /\ hc.done_head = Newest(f, fetched, written) /\ hc.doneq = Newest(f, written, hi)
        /\ hc.wdh /\ written = fetched
    BY <1>0, <1>3 DEF Pointers
  <2> QED
    BY <1>0, <2>1, <2>3, <2>4, <2>5, <2>6 DEF Pointers
<1>20. Links(mem.td, f, lo + 1, lo + 1, fetched, written, hi)'
  <2> DEFINE T == mem'.td
  <2>1. \A p \in (lo + 1) + 1 .. hi : T[f[p]] = mem.td[f[p]]
    BY <1>13
  <2>2. Links(mem.td, f, lo + 1, lo + 1, fetched, written, hi)
    <3>1. Linked(mem.td, f, lo + 1, lo + 1)
      BY <1>4 DEF Linked
    <3> QED
      BY <1>3, <3>1 DEF Links
  <2> HIDE DEF T
  <2>3. Links(T, f, lo + 1, lo + 1, fetched, written, hi)
    BY <1>18, <2>1, <2>2, LinksSame
  <2> QED
    BY <2>3 DEF T
<1>21. (\A d \in EDs : Queue(mem.td, d, mem.urb[d], mem.ed[d], Filled(d), k2[d], s2[d], h2[d]))'
  <2>1. \A d : Filled(d)' = Len(mem'.urb[d].td)
    BY <1>10 DEF Filled
  <2> QED
    BY <1>14, <2>1
<1>23. Witness(f, lo + 1, lo + 1, fetched, written, hi, k2, s2, h2)'
  BY <1>3, <1>13, <1>18, <1>19, <1>20, <1>21 DEF Witness, History
<1> QED
  BY <1>17, <1>23, Witnessed

(* Nothing changes. *)
LEMMA StutterStep == OhciInv /\ UNCHANGED vars => OhciInv'
<1> SUFFICES ASSUME OhciInv, UNCHANGED vars PROVE OhciInv'
  OBVIOUS
<1>1. mem' = mem /\ hc' = hc /\ main' = main /\ disabled' = disabled /\ givenUp' = givenUp
  BY DEF vars
<1>2. Shape'
  <2>1. Place' /\ TypeOK
    BY <1>1 DEF OhciInv, Shape, Place
  <2> QED
    BY <1>1, <2>1, ShapeSame DEF OhciInv, TypeOK
<1>3. CASE ~Going
  BY <1>1, <1>2, <1>3 DEF OhciInv, Going
<1>4. CASE Going
  <2>1. PICK f, lo, mid, fetched, written, hi, k, s, h :
            Witness(f, lo, mid, fetched, written, hi, k, s, h)
    BY <1>4, WithWitness
  <2>2. /\ Ordered(lo, mid, fetched, written, hi)
        /\ f \in [Nat -> TDs] /\ k \in [EDs -> Nat] /\ s \in [EDs -> Nat] /\ h \in [EDs -> Nat]
    BY <2>1 DEF Witness, History
  <2>3. /\ Links(mem.td, f, lo, mid, fetched, written, hi)'
        /\ Retired(mem.td, mem.urb, f, lo, hi, k, s)'
        /\ Failed(mem.td, mem.ed, mem.urb, f, lo, mid, fetched, hi, h)'
    BY <1>1, <2>1 DEF Witness, History
  <2>4. Pointers(f, lo, mid, fetched, written, hi)'
    BY <1>1, <2>1 DEF Witness, History, Pointers
  <2>5. (\A e \in EDs : Queue(mem.td, e, mem.urb[e], mem.ed[e], Filled(e), k[e], s[e], h[e]))'
    <3>1. \A e : Filled(e)' = Filled(e)
      BY <1>1 DEF Filled
    <3> QED
      BY <1>1, <2>1, <3>1 DEF Witness, History
  <2>6. Witness(f, lo, mid, fetched, written, hi, k, s, h)'
    BY <2>2, <2>3, <2>4, <2>5 DEF Witness, History
  <2> QED
    BY <1>2, <2>6, Witnessed
<1> QED
  BY <1>3, <1>4

-----------------------------------------------------------------------------
LEMMA InitInv == Init => OhciInv /\ Going
<1> SUFFICES ASSUME Init PROVE OhciInv /\ Going
  OBVIOUS
<1> DEFINE D == [state |-> "NEW", head |-> NULL, tail |-> NULL, halted |-> FALSE]
<1>1. /\ \A t \in TDs : mem.td[t] = UnusedTd
      /\ \A e \in EDs : mem.ed[e] = D /\ mem.urb[e] = NoUrb
      /\ hc = [doneq |-> NULL, done_head |-> NULL, wdh |-> FALSE]
      /\ main = Idle /\ disabled = FALSE /\ givenUp = {}
  BY DEF Init
<1>2. NUM_TD \in Nat /\ 1 \in TDs /\ NULL \notin TDs
  BY OhciAssumption, TdNumbers DEF TDs
<1>3. mem \in Memory
  <2>1. UnusedTd \in Td
    BY <1>2 DEF UnusedTd, Td, Codes
  <2>2. D \in Ed
    BY DEF Ed
  <2>3. NoUrb \in Urb
    BY EmptySequence DEF NoUrb, Urb
  <2> HIDE DEF D
  <2>4. mem = [td |-> [t \in TDs |-> UnusedTd], ed |-> [e \in EDs |-> D], urb |-> [e \in EDs |-> NoUrb]]
    BY DEF Init, D
  <2> QED
    BY <2>1, <2>2, <2>3, <2>4 DEF Memory
<1>4. TypeOK
  <2>1. \A e \in EDs : mem.urb[e].td_cnt <= Len(mem.urb[e].td)
    BY <1>1, EmptySequence DEF NoUrb
  <2>2. main \in MainTypes
    BY <1>1, IdleType
  <2> QED
    BY <1>1, <1>3, <2>1, <2>2 DEF TypeOK, MainTypes
<1>5. Accounts(mem.td, mem.ed, mem.urb)
  <2>1. \A e \in EDs : mem.ed[e].tail = NULL /\ ToSet(mem.urb[e].td) = {}
    BY <1>1, EmptySequence DEF NoUrb
  <2>2. \A t \in TDs : ~mem.td[t].used /\ t # NULL
    BY <1>1, <1>2 DEF UnusedTd
  <2> QED
    BY <2>1, <2>2 DEF Accounts
<1>6. \A e \in EDs : UrbOf(e, mem.urb[e], mem.ed[e])
  <2> TAKE e \in EDs
  <2>1. mem.urb[e] = NoUrb /\ mem.ed[e].tail = NULL /\ mem.ed[e].state = "NEW"
    BY <1>1
  <2>2. ~NoUrb.live /\ Len(NoUrb.td) = 0
    BY EmptySequence DEF NoUrb
  <2> QED
    BY <2>1, <2>2 DEF UrbOf
<1>7. Place
  BY <1>1 DEF Place, Idle, NoUrb
<1>8. Shape
  BY <1>4, <1>5, <1>6, <1>7 DEF Shape
<1> DEFINE f == [n \in Nat |-> 1]
           z == [e \in EDs |-> 0]
           o == [e \in EDs |-> 1]
<1>9. f \in [Nat -> TDs] /\ z \in [EDs -> Nat] /\ o \in [EDs -> Nat]
  BY <1>2
<1>10. \A e \in EDs : z[e] = 0 /\ o[e] = 1
  OBVIOUS
<1> HIDE DEF f, z, o
<1>11. Ordered(0, 0, 0, 0, 0)
  BY DEF Ordered
<1>12. Links(mem.td, f, 0, 0, 0, 0, 0)
  BY DEF Links, Linked
<1>13. Pointers(f, 0, 0, 0, 0, 0)
  <2>1. <<>> = [i \in 1 .. 0 - 0 |-> f[0 + i]]
    BY NothingRead
  <2> QED
    BY <1>1, <2>1 DEF Pointers, Newest, Idle
<1>14. \A e \in EDs : Queue(mem.td, e, mem.urb[e], mem.ed[e], Filled(e), z[e], z[e], o[e])
  <2> TAKE e \in EDs
  <2>1. mem.urb[e] = NoUrb /\ mem.ed[e] = D /\ z[e] = 0 /\ o[e] = 1
    BY <1>1, <1>10
  <2>2. Filled(e) = 0
    BY <1>1, EmptySequence DEF Filled, Idle, NoUrb
  <2>3. Counts(NoUrb, 0, 0, 0, 1)
    BY EmptySequence DEF Counts, NoUrb
  <2>4. Chained(mem.td, e, NoUrb, D, 0, 1)
    BY DEF Chained
  <2>5. Halts(mem.td, NoUrb, D, 0, 0, 1)
    BY DEF Halts
  <2>6. Ended(e, NoUrb, D)
    BY DEF Ended, NoUrb
  <2> QED
    BY <2>1, <2>2, <2>3, <2>4, <2>5, <2>6 DEF Queue
<1>15. Retired(mem.td, mem.urb, f, 0, 0, z, z)
  BY <1>10 DEF Retired, Located, InTurn, Covered
<1>16. Failed(mem.td, mem.ed, mem.urb, f, 0, 0, 0, 0, o)
  BY DEF Failed
<1>17. History(f, 0, 0, 0, 0, 0, z, z, o)
  BY <1>11, <1>12, <1>13, <1>14, <1>15, <1>16 DEF History
<1>18. OhciInv
  <2>1. 0 \in Nat
    OBVIOUS
  <2> QED
    BY <1>8, <1>9, <1>17, <2>1 DEF OhciInv
<1>19. Going
  BY <1>1 DEF Going, Idle
<1> QED
  BY <1>18, <1>19

(* A device's irq_handle submits a transfer: nothing changes before that. *)
LEMMA NestedStep == OhciInv /\ irq_handle => OhciInv' /\ Safe'
<1> SUFFICES ASSUME OhciInv, irq_handle PROVE OhciInv' /\ Safe'
  OBVIOUS
<1>0. /\ Shape /\ TypeOK /\ Place /\ main.pc = "takeback"
      /\ mem' = mem /\ hc' = hc /\ disabled' = disabled /\ givenUp' = givenUp
  BY DEF OhciInv, Shape, irq_handle
<1>1. Going
  BY <1>0 DEF Place, Going
<1>2. main' \in MainTypes /\ main'.pc = "nested" /\ main'.ed = main.ed
  <2>1. main \in MainTypes /\ main' = [main EXCEPT !.pc = "nested"]
    BY <1>0 DEF TypeOK, MainTypes, irq_handle
  <2> QED
    BY <2>1 DEF MainTypes
<1>3. Shape'
  <2>1. Place'
    BY <1>0, <1>2 DEF Place
  <2> QED
    BY <1>0, <1>2, <2>1, ShapeSame DEF MainTypes, TypeOK
<1>4. OhciInv'
  BY <1>2, <1>3 DEF OhciInv, Going
<1>5. InFlight' = InFlight /\ Dummies' = Dummies
  BY <1>0 DEF InFlight, Dummies
<1>6. NoFreeTdInFlight'
  <2>1. NoFreeTdInFlight
    BY <1>1, FreeInInv
  <2> QED
    BY <1>0, <1>5, <2>1 DEF NoFreeTdInFlight
<1>7. FinishedMeansDone'
  <2>1. FinishedMeansDone
    BY <1>1, FinishedInInv
  <2> QED
    BY <1>0, <1>5, <2>1 DEF FinishedMeansDone, TdsOf
<1>8. QuietWhenIdle'
  <2>1. main' # Idle
    BY <1>2 DEF Idle
  <2> QED
    BY <2>1 DEF QuietWhenIdle
<1> QED
  BY <1>4, <1>6, <1>7, <1>8 DEF Safe

(* Steps within a transfer. *)
LEMMA StaysGoing ==
    ASSUME OhciInv, td_submit_job \/ PollTake \/ dl_reverse_done_list \/ dl_done_list
    PROVE  Going'
<1>0. TypeOK /\ Place /\ main.pc \in {"fill", "poll", "reverse", "takeback"}
  BY DEF OhciInv, Shape, td_submit_job, PollTake, dl_reverse_done_list, dl_done_list
<1>1. Going
  BY <1>0 DEF Place, Going
<1>2. disabled' = disabled /\ givenUp' = givenUp
  BY DEF td_submit_job, PollTake, dl_reverse_done_list, dl_done_list
<1>3. main \in MainTypes
  BY <1>0 DEF TypeOK, MainTypes
<1>4. CASE td_submit_job
  <2>1. main'.pc \in {main.pc, "poll"}
    BY <1>3, <1>4 DEF td_submit_job, MainTypes
  <2> QED
    BY <1>1, <1>2, <2>1 DEF Going
<1>5. CASE PollTake
  <2>1. main'.pc \in {"ack", "reverse"}
    BY <1>3, <1>5 DEF PollTake, MainTypes
  <2> QED
    BY <1>1, <1>2, <2>1 DEF Going
<1>6. CASE dl_reverse_done_list
  <2>1. main'.pc \in {main.pc, "takeback"}
    BY <1>3, <1>6 DEF dl_reverse_done_list, MainTypes
  <2> QED
    BY <1>1, <1>2, <2>1 DEF Going
<1>7. CASE dl_done_list
  <2>1. main'.pc \in {main.pc, "ack"}
    BY <1>3, <1>7 DEF dl_done_list, MainTypes
  <2> QED
    BY <1>1, <1>2, <2>1 DEF Going
<1> QED
  BY <1>4, <1>5, <1>6, <1>7

LEMMA SubmitGoes ==
    ASSUME NEW e \in EDs, NEW n, sohci_submit_job(e, n) \/ SubmitTooLarge(e)
    PROVE  Going'
<1>1. /\ main = Idle /\ ~disabled /\ givenUp = {} /\ disabled' = disabled /\ givenUp' = givenUp
      /\ main' = main \/ main' = [Idle EXCEPT !.pc = "fill", !.ed = e, !.n = 1]
  BY DEF sohci_submit_job, SubmitTooLarge, Going
<1>2. main'.pc # "nested"
  <2>1. CASE main' = main
    BY <1>1, <2>1 DEF Idle
  <2>2. CASE main' = [Idle EXCEPT !.pc = "fill", !.ed = e, !.n = 1]
    BY <2>2 DEF Idle
  <2> QED
    BY <1>1, <2>1, <2>2
<1> QED
  BY <1>1, <1>2 DEF Going

LEMMA StutterSafe ==
    ASSUME UNCHANGED vars
    PROVE  (Going => Going') /\ (Safe => Safe')
<1>1. /\ mem' = mem /\ hc' = hc /\ main' = main /\ disabled' = disabled
      /\ givenUp' = givenUp
  BY DEF vars
<1>2. Going => Going'
  BY <1>1 DEF Going
<1>3. InFlight' = InFlight /\ Dummies' = Dummies
  BY <1>1 DEF InFlight, Dummies
<1>4. NoFreeTdInFlight => NoFreeTdInFlight'
  BY <1>1, <1>3 DEF NoFreeTdInFlight
<1>5. FinishedMeansDone => FinishedMeansDone'
  BY <1>1, <1>3 DEF FinishedMeansDone, TdsOf
<1>6. QuietWhenIdle => QuietWhenIdle'
  BY <1>1 DEF QuietWhenIdle
<1> QED
  BY <1>2, <1>4, <1>5, <1>6 DEF Safe

(* The inductive step: an action of the driver or of the controller. *)
LEMMA NextInv ==
    ASSUME OhciInv, Going \/ Safe, [Next]_vars
    PROVE  OhciInv' /\ (Going' \/ Safe')
<1>1. ASSUME NEW e \in EDs, HcRetire(e)
      PROVE  OhciInv' /\ Going'
  <2>1. Going'
    BY <1>1 DEF HcRetire, Going
  <2> QED
    BY <1>1, <2>1, RetireStep
<1>2. CASE HcWriteBack
  <2>1. Going'
    BY <1>2 DEF HcWriteBack, Going
  <2> QED
    BY <1>2, <2>1, WriteBackStep
<1>3. ASSUME NEW e \in EDs, NEW n \in Sizes(e), sohci_submit_job(e, n)
      PROVE  OhciInv' /\ Going'
  BY <1>3, SubmitStep, SubmitGoes
<1>4. ASSUME NEW e \in Bulk, SubmitTooLarge(e)
      PROVE  OhciInv' /\ Going'
  <2>1. e \in EDs
    BY DEF EDs
  <2> QED
    BY <1>4, <2>1, TooLargeStep, SubmitGoes
<1>5. CASE td_submit_job
  BY <1>5, FillStep, StaysGoing
<1>6. CASE PollTake
  BY <1>6, PollTakeStep, StaysGoing
<1>7. CASE dl_reverse_done_list
  BY <1>7, ReverseStep, StaysGoing
<1>8. CASE dl_done_list
  BY <1>8, TakebackStep, StaysGoing
<1>9. CASE irq_handle
  BY <1>9, NestedStep
<1>10. CASE PollAck
  BY <1>10, PollAckStep
<1>11. CASE PollUnrecoverable \/ PollTimeout
  BY <1>11, PollEndStep
<1>12. CASE SubmitRefused \/ Beyond \/ UNCHANGED vars
  <2>1. UNCHANGED vars
    BY <1>12 DEF SubmitRefused, Beyond
  <2> QED
    BY <2>1, StutterStep, StutterSafe
<1> QED
  BY <1>1, <1>2, <1>3, <1>4, <1>5, <1>6, <1>7, <1>8, <1>9, <1>10, <1>11, <1>12
     DEF Next, submit_common_msg

(* The invariant, with the history for as long as the model goes on, and   *)
(* with what is left of it when a transfer was given up, an irq_handle has *)
(* submitted a transfer or the controller is disabled.                     *)
THEOREM OhciInvariant == Spec => [](OhciInv /\ (Going \/ Safe))
<1>1. Init => OhciInv /\ (Going \/ Safe)
  BY InitInv
<1>2. (OhciInv /\ (Going \/ Safe)) /\ [Next]_vars => (OhciInv /\ (Going \/ Safe))'
  BY NextInv
<1> QED
  BY <1>1, <1>2, PTL DEF Spec

(* td_alloc, td_fill, which exchanges dummies and TDs of transfers, and    *)
(* urb_free_priv neither lose a TD nor give one to two owners, for any     *)
(* number of TDs and endpoints and whatever the controller does.           *)
THEOREM TdsAccountedAlways == Spec => []TdsAccounted
<1>1. OhciInv => TdsAccounted
  BY AccountedInInv DEF OhciInv
<1> QED
  BY <1>1, OhciInvariant, PTL

(* No TD that td_alloc may take is one that the controller still reaches,  *)
(* on a queue or on its done lists, unless it belonged to a transfer that  *)
(* submit_common_msg gave up or the controller is disabled.                *)
THEOREM NoFreeTdInFlightAlways == Spec => []NoFreeTdInFlight
<1>1. OhciInv /\ (Going \/ Safe) => NoFreeTdInFlight
  BY FreeInInv DEF Safe
<1> QED
  BY <1>1, OhciInvariant, PTL

(* When takeback_td has marked a URB as finished, the controller is done   *)
(* with all of its TDs, also with those that check_status skipped.         *)
THEOREM FinishedMeansDoneAlways == Spec => []FinishedMeansDone
<1>1. OhciInv /\ (Going \/ Safe) => FinishedMeansDone
  BY FinishedInInv DEF Safe
<1> QED
  BY <1>1, OhciInvariant, PTL

(* When submit_common_msg has returned, the endpoint of a control or bulk  *)
(* pipe is off the controller's lists, its queue empty and not halted,     *)
(* unless it is that of the transfer given up.                             *)
THEOREM QuietWhenIdleAlways == Spec => []QuietWhenIdle
<1>1. OhciInv /\ (Going \/ Safe) => QuietWhenIdle
  BY QuietInInv DEF Safe
<1> QED
  BY <1>1, OhciInvariant, PTL
===============================================================================
