---------------------------- MODULE MemoryProofs ----------------------------
(***************************************************************************)
(* Proofs about DriverMem and about Mmu, one after the other.              *)
(*                                                                         *)
(* Proofs about DriverMem, for a buffer of any size, any number of memory  *)
(* descriptors and any amounts.  The lists are consistent after every      *)
(* operation, and driver memory is the heap that Heap describes: every     *)
(* step of it allocates, fails, answers or frees as that one may.          *)
(***************************************************************************)
EXTENDS DriverMem, Mmu, FiniteSetTheorems, WellFoundedInduction, TLAPS

(***************************************************************************)
(* Numbers and sequences.                                                  *)
(***************************************************************************)
LEMMA LeastIn ==
    ASSUME NEW S \in SUBSET Nat, NEW n \in S
    PROVE  \E m \in S : \A k \in S : m <= k
<1>1. PICK m \in S : \A k \in S : ~(<<k, m>> \in OpToRel(<, Nat))
  BY NatLessThanWellFounded, WFMin
<1>2. \A k \in S : m <= k
  <2> SUFFICES ASSUME NEW k \in S PROVE m <= k
    OBVIOUS
  <2>1. ~(k < m)
    BY <1>1 DEF OpToRel
  <2> QED
    BY <2>1
<1> QED
  BY <1>2

Members(s) == {s[i] : i \in 1 .. Len(s)}

(* No element is there twice.                                              *)
Injective(s) == \A i, j \in 1 .. Len(s) : s[i] = s[j] => i = j

LEMMA Removed ==
    ASSUME NEW S, NEW s \in Seq(S), NEW k \in 1 .. Len(s)
    PROVE  /\ RemoveAt(s, k) \in Seq(S) /\ Len(RemoveAt(s, k)) = Len(s) - 1
           /\ \A i \in 1 .. Len(s) - 1 : RemoveAt(s, k)[i] = s[IF i < k THEN i ELSE i + 1]
<1> DEFINE a == SubSeq(s, 1, k - 1)
           b == SubSeq(s, k + 1, Len(s))
<1>1. a \in Seq(S) /\ Len(a) = k - 1 /\ \A i \in 1 .. k - 1 : a[i] = s[i]
  OBVIOUS
<1>2. b \in Seq(S) /\ Len(b) = Len(s) - k /\ \A i \in 1 .. Len(s) - k : b[i] = s[k + i]
  OBVIOUS
<1>3. Len(s) \in Nat /\ k \in Nat
  OBVIOUS
<1>4. RemoveAt(s, k) = a \o b
  BY DEF RemoveAt
<1> HIDE DEF a, b
<1>5. a \o b \in Seq(S) /\ Len(a \o b) = Len(s) - 1
  <2>0. a \in Seq(S) /\ b \in Seq(S)
    BY <1>1, <1>2
  <2>1. a \o b \in Seq(S) /\ Len(a \o b) = Len(a) + Len(b)
    BY <2>0
  <2> QED
    BY <1>1, <1>2, <1>3, <2>1
<1>6. ASSUME NEW i \in 1 .. Len(s) - 1 PROVE (a \o b)[i] = s[IF i < k THEN i ELSE i + 1]
  <2>1. CASE i < k
    <3>1. i \in 1 .. k - 1 /\ (a \o b)[i] = a[i]
      BY <1>1, <1>2, <1>3, <2>1
    <3> QED
      BY <1>1, <2>1, <3>1
  <2>2. CASE ~(i < k)
    <3>1. i - (k - 1) \in 1 .. Len(s) - k /\ k + (i - (k - 1)) = i + 1
      BY <1>3, <2>2
    <3>2. (a \o b)[i] = b[i - (k - 1)]
      BY <1>1, <1>2, <1>3, <2>2
    <3> QED
      BY <1>2, <2>2, <3>1, <3>2
  <2> QED
    BY <2>1, <2>2
<1> QED
  BY <1>4, <1>5, <1>6

LEMMA Inserted ==
    ASSUME NEW S, NEW s \in Seq(S), NEW k \in 1 .. Len(s) + 1, NEW e \in S
    PROVE  /\ InsertAt(s, k, e) \in Seq(S) /\ Len(InsertAt(s, k, e)) = Len(s) + 1
           /\ \A i \in 1 .. Len(s) + 1 :
                 InsertAt(s, k, e)[i] = IF i < k THEN s[i] ELSE IF i = k THEN e ELSE s[i - 1]
<1> DEFINE a == SubSeq(s, 1, k - 1)
           b == SubSeq(s, k, Len(s))
           c == a \o <<e>>
<1>1. a \in Seq(S) /\ Len(a) = k - 1 /\ \A i \in 1 .. k - 1 : a[i] = s[i]
  OBVIOUS
<1>2. b \in Seq(S) /\ Len(b) = Len(s) + 1 - k /\ \A i \in 1 .. Len(s) + 1 - k : b[i] = s[k + i - 1]
  OBVIOUS
<1>3. Len(s) \in Nat /\ k \in Nat
  OBVIOUS
<1>4. InsertAt(s, k, e) = c \o b
  BY DEF InsertAt
<1> HIDE DEF a, b
<1>5. c \in Seq(S) /\ Len(c) = k /\ c[k] = e /\ \A i \in 1 .. k - 1 : c[i] = s[i]
  BY <1>1, <1>3
<1> HIDE DEF c
<1>6. c \o b \in Seq(S) /\ Len(c \o b) = Len(s) + 1
  BY <1>2, <1>3, <1>5
<1>7. ASSUME NEW i \in 1 .. Len(s) + 1
      PROVE  (c \o b)[i] = IF i < k THEN s[i] ELSE IF i = k THEN e ELSE s[i - 1]
  <2>1. CASE i <= k
    <3>1. (c \o b)[i] = c[i]
      BY <1>2, <1>3, <1>5, <2>1
    <3>2. i < k => i \in 1 .. k - 1
      BY <1>3
    <3> QED
      BY <1>3, <1>5, <2>1, <3>1, <3>2
  <2>2. CASE ~(i <= k)
    <3>1. i - k \in 1 .. Len(s) + 1 - k /\ k + (i - k) - 1 = i - 1
      BY <1>3, <2>2
    <3>2. (c \o b)[i] = b[i - k]
      BY <1>2, <1>3, <1>5, <2>2
    <3>3. ~(i < k) /\ i # k
      BY <1>3, <2>2
    <3> QED
      BY <1>2, <3>1, <3>2, <3>3
  <2> QED
    BY <2>1, <2>2
<1> QED
  BY <1>4, <1>6, <1>7

LEMMA RemovedMembers ==
    ASSUME NEW S, NEW s \in Seq(S), NEW k \in 1 .. Len(s), Injective(s)
    PROVE  Members(RemoveAt(s, k)) = Members(s) \ {s[k]} /\ Injective(RemoveAt(s, k))
<1> DEFINE r == RemoveAt(s, k)
           from(i) == IF i < k THEN i ELSE i + 1
<1>1. Len(s) \in Nat /\ k \in Nat /\ k <= Len(s) /\ Len(r) = Len(s) - 1
  BY Removed
<1>2. \A i \in 1 .. Len(r) : r[i] = s[from(i)]
  BY <1>1, Removed
<1> HIDE DEF r
<1>3. ASSUME NEW i \in 1 .. Len(r) PROVE from(i) \in 1 .. Len(s) /\ from(i) # k
  BY <1>1
<1>4. ASSUME NEW i \in 1 .. Len(r), NEW j \in 1 .. Len(r), from(i) = from(j) PROVE i = j
  BY <1>1, <1>4
<1>5. ASSUME NEW i \in 1 .. Len(s), i # k PROVE \E j \in 1 .. Len(r) : from(j) = i
  <2>1. CASE i < k
    BY <1>1, <2>1
  <2>2. CASE i > k
    <3>1. i - 1 \in 1 .. Len(r) /\ from(i - 1) = i
      BY <1>1, <2>2
    <3> QED
      BY <3>1
  <2> QED
    BY <1>1, <1>5, <2>1, <2>2
<1> HIDE DEF from
<1>6. \A x \in Members(r) : x \in Members(s) \ {s[k]}
  <2> SUFFICES ASSUME NEW i \in 1 .. Len(r) PROVE r[i] \in Members(s) \ {s[k]}
    BY DEF Members
  <2>1. s[from(i)] \in Members(s) /\ s[from(i)] # s[k]
    BY <1>3 DEF Members, Injective
  <2> QED
    BY <1>2, <2>1
<1>7. \A x \in Members(s) \ {s[k]} : x \in Members(r)
  <2> SUFFICES ASSUME NEW i \in 1 .. Len(s), s[i] # s[k] PROVE s[i] \in Members(r)
    BY DEF Members
  <2>1. PICK j \in 1 .. Len(r) : from(j) = i
    BY <1>5
  <2> QED
    BY <1>2, <2>1 DEF Members
<1>8. Injective(r)
  BY <1>2, <1>3, <1>4 DEF Injective
<1> QED
  BY <1>6, <1>7, <1>8 DEF r

LEMMA InsertedMembers ==
    ASSUME NEW S, NEW s \in Seq(S), NEW k \in 1 .. Len(s) + 1, NEW e \in S
    PROVE  Members(InsertAt(s, k, e)) = Members(s) \cup {e}
<1> DEFINE r == InsertAt(s, k, e)
<1>1. Len(s) \in Nat /\ k \in Nat /\ k <= Len(s) + 1 /\ Len(r) = Len(s) + 1
  BY Inserted
<1>2. \A i \in 1 .. Len(r) : r[i] = IF i < k THEN s[i] ELSE IF i = k THEN e ELSE s[i - 1]
  BY <1>1, Inserted
<1> HIDE DEF r
<1>3. ASSUME NEW i \in 1 .. Len(r) PROVE r[i] \in Members(s) \cup {e}
  <2>1. i < k => i \in 1 .. Len(s)
    BY <1>1
  <2>2. i > k => i - 1 \in 1 .. Len(s)
    BY <1>1
  <2>3. i < k \/ i = k \/ i > k
    BY <1>1
  <2> QED
    BY <1>2, <2>1, <2>2, <2>3 DEF Members
<1>4. e \in Members(r)
  <2>1. k \in 1 .. Len(r) /\ ~(k < k)
    BY <1>1
  <2> QED
    BY <1>2, <2>1 DEF Members
<1>5. ASSUME NEW i \in 1 .. Len(s) PROVE s[i] \in Members(r)
  <2>1. CASE i < k
    <3>1. i \in 1 .. Len(r)
      BY <1>1
    <3> QED
      BY <1>2, <2>1, <3>1 DEF Members
  <2>2. CASE ~(i < k)
    <3>1. i + 1 \in 1 .. Len(r) /\ ~(i + 1 < k) /\ i + 1 # k /\ (i + 1) - 1 = i
      BY <1>1, <2>2
    <3>2. r[i + 1] = s[i]
      BY <1>2, <3>1
    <3> QED
      BY <3>1, <3>2 DEF Members
  <2> QED
    BY <2>1, <2>2
<1>6. Members(r) \subseteq Members(s) \cup {e}
  BY <1>3 DEF Members
<1>7. Members(s) \subseteq Members(r)
  BY <1>5 DEF Members
<1> QED
  BY <1>4, <1>6, <1>7 DEF r

LEMMA ReplacedMembers ==
    ASSUME NEW S, NEW s \in Seq(S), NEW k \in 1 .. Len(s), NEW e \in S, Injective(s)
    PROVE  /\ ReplaceAt(s, k, e) \in Seq(S) /\ Len(ReplaceAt(s, k, e)) = Len(s)
           /\ ReplaceAt(s, k, e)[k] = e
           /\ \A i \in 1 .. Len(s) : i # k => ReplaceAt(s, k, e)[i] = s[i]
           /\ Members(ReplaceAt(s, k, e)) = (Members(s) \ {s[k]}) \cup {e}
<1> DEFINE r == ReplaceAt(s, k, e)
<1>1. r \in Seq(S) /\ Len(r) = Len(s) /\ r[k] = e /\ \A i \in 1 .. Len(s) : i # k => r[i] = s[i]
  BY DEF ReplaceAt
<1> HIDE DEF r
<1>2. Members(r) = (Members(s) \ {s[k]}) \cup {e}
  BY <1>1 DEF Members, Injective
<1> QED
  BY <1>1, <1>2 DEF r

LEMMA Prepended ==
    ASSUME NEW S, NEW s \in Seq(S), NEW e \in S
    PROVE  /\ <<e>> \o s \in Seq(S)
           /\ Members(<<e>> \o s) = Members(s) \cup {e}
           /\ Injective(s) /\ e \notin Members(s) => Injective(<<e>> \o s)
<1> DEFINE r == <<e>> \o s
<1>1. r \in Seq(S) /\ Len(r) = Len(s) + 1 /\ Len(s) \in Nat
  OBVIOUS
<1>2. r[1] = e /\ \A i \in 1 .. Len(s) : r[i + 1] = s[i]
  OBVIOUS
<1> HIDE DEF r
<1>3. \A i \in 1 .. Len(r) : i = 1 \/ \E j \in 1 .. Len(s) : i = j + 1
  <2> SUFFICES ASSUME NEW i \in 1 .. Len(r), i # 1 PROVE \E j \in 1 .. Len(s) : i = j + 1
    OBVIOUS
  <2>1. i - 1 \in 1 .. Len(s) /\ i = (i - 1) + 1
    BY <1>1
  <2> QED
    BY <2>1
<1>4. 1 \in 1 .. Len(r) /\ \A j \in 1 .. Len(s) : j + 1 \in 1 .. Len(r)
  BY <1>1
<1>5. Members(r) = Members(s) \cup {e}
  <2>1. ASSUME NEW i \in 1 .. Len(r) PROVE r[i] \in Members(s) \cup {e}
    <3>1. CASE i = 1
      BY <1>2, <3>1
    <3>2. ASSUME NEW j \in 1 .. Len(s), i = j + 1 PROVE r[i] \in Members(s) \cup {e}
      <4>1. r[i] = s[j]
        BY <1>2, <3>2
      <4> QED
        BY <4>1 DEF Members
    <3> QED
      BY <1>3, <3>1, <3>2
  <2>2. e \in Members(r) /\ \A i \in 1 .. Len(s) : s[i] \in Members(r)
    BY <1>2, <1>4 DEF Members
  <2> QED
    BY <2>1, <2>2 DEF Members
<1>6. ASSUME Injective(s), e \notin Members(s) PROVE Injective(r)
  <2> SUFFICES ASSUME NEW i \in 1 .. Len(r), NEW j \in 1 .. Len(r), r[i] = r[j] PROVE i = j
    BY DEF Injective
  <2>1. \A l \in 1 .. Len(s) : r[l + 1] = s[l] /\ s[l] \in Members(s) /\ s[l] # e
    BY <1>2, <1>6 DEF Members
  <2>2. CASE i = 1
    BY <1>2, <1>3, <2>1, <2>2
  <2>3. CASE j = 1
    BY <1>2, <1>3, <2>1, <2>3
  <2>4. ASSUME NEW l \in 1 .. Len(s), NEW m \in 1 .. Len(s), i = l + 1, j = m + 1 PROVE i = j
    <3>1. s[l] = s[m]
      BY <2>1, <2>4
    <3>2. l = m
      BY <1>6, <3>1 DEF Injective
    <3> QED
      BY <2>4, <3>2
  <2> QED
    BY <1>3, <2>2, <2>3, <2>4
<1> QED
  BY <1>1, <1>5, <1>6 DEF r

(***************************************************************************)
(* The table: the blocks of the descriptors in use are not empty, do not   *)
(* overlap, and cover the buffer.  The block that starts it has MD 0.      *)
(***************************************************************************)
Table == [MD -> [m_start : Address, m_length : 0 .. DRIVER_MEM_BUFFER_SIZE, m_own : BOOLEAN]]
Own(tab) == {m \in MD : tab[m].m_own}
Start(tab, m) == tab[m].m_start
End(tab, m) == tab[m].m_start + tab[m].m_length
Apart(tab, m, n) == End(tab, m) <= Start(tab, n) \/ End(tab, n) <= Start(tab, m)
Holds(tab, m, a) == Start(tab, m) <= a /\ a < End(tab, m)

Blocks(tab) ==
    /\ tab \in Table
    /\ 0 \in Own(tab) /\ Start(tab, 0) = 0
    /\ \A m \in Own(tab) : tab[m].m_length > 0 /\ End(tab, m) <= DRIVER_MEM_BUFFER_SIZE
    /\ \A m, n \in Own(tab) : m # n => Apart(tab, m, n)
    /\ \A a \in Address : \E m \in Own(tab) : Holds(tab, m, a)

LEMMA Numbers ==
    ASSUME NEW tab, Blocks(tab), NEW m \in Own(tab)
    PROVE  /\ m \in MD /\ DRIVER_MEM_BUFFER_SIZE \in Nat
           /\ Start(tab, m) \in Nat /\ tab[m].m_length \in Nat \ {0} /\ End(tab, m) \in Nat
           /\ End(tab, m) = Start(tab, m) + tab[m].m_length
           /\ Start(tab, m) < End(tab, m) /\ End(tab, m) <= DRIVER_MEM_BUFFER_SIZE
<1>1. DRIVER_MEM_BUFFER_SIZE \in Nat
  BY DriverMemAssumption
<1>2. m \in MD /\ tab[m].m_start \in Address /\ tab[m].m_length \in 0 .. DRIVER_MEM_BUFFER_SIZE
  BY DEF Own, Blocks, Table
<1>3. tab[m].m_start \in Nat /\ tab[m].m_length \in Nat
  BY <1>1, <1>2 DEF Address
<1>4. tab[m].m_length > 0 /\ End(tab, m) <= DRIVER_MEM_BUFFER_SIZE
  BY DEF Blocks
<1> QED
  BY <1>1, <1>2, <1>3, <1>4 DEF Start, End

(* A block gives its end to a descriptor that was free. *)
Divided(tab, p, n, x) ==
    [tab EXCEPT ![x] = [m_start |-> tab[p].m_start + n,
                        m_length |-> tab[p].m_length - n, m_own |-> TRUE],
                ![p].m_length = n]

Divides(tab, t, p, n, x) ==
    /\ Blocks(t) /\ Own(t) = Own(tab) \cup {x}
    /\ \A m \in Own(tab) : Start(t, m) = Start(tab, m)
    /\ \A m \in Own(tab) \ {p} : t[m] = tab[m]
    /\ t[p].m_length = n /\ End(t, p) = Start(t, x)
    /\ Start(t, x) = Start(tab, p) + n /\ End(t, x) = End(tab, p)

LEMMA SplitBlocks ==
    ASSUME NEW tab, Blocks(tab), NEW p \in Own(tab), NEW x \in MD \ Own(tab),
           NEW n \in Nat \ {0}, n < tab[p].m_length, NEW t, t = Divided(tab, p, n, x)
    PROVE  Divides(tab, t, p, n, x)
<1> DEFINE size == DRIVER_MEM_BUFFER_SIZE
<1>1. tab \in Table /\ p \in MD /\ p # x /\ x \in MD
  BY DEF Blocks, Own
<1>2. /\ size \in Nat /\ Start(tab, p) \in Nat /\ tab[p].m_length \in Nat \ {0}
      /\ End(tab, p) = Start(tab, p) + tab[p].m_length /\ End(tab, p) <= size
  BY Numbers
<1>3. /\ t[x] = [m_start |-> tab[p].m_start + n, m_length |-> tab[p].m_length - n, m_own |-> TRUE]
      /\ t[p] = [tab[p] EXCEPT !.m_length = n]
      /\ \A m \in MD \ {x, p} : t[m] = tab[m]
      /\ DOMAIN t = MD
  BY <1>1 DEF Table, Divided
<1>4. /\ Start(t, x) = Start(tab, p) + n /\ t[x].m_length = tab[p].m_length - n /\ t[x].m_own = TRUE
      /\ Start(t, p) = Start(tab, p) /\ t[p].m_length = n /\ t[p].m_own = tab[p].m_own
  BY <1>1, <1>3 DEF Start, Table
<1>5. End(t, x) = End(tab, p) /\ End(t, p) = Start(t, x) /\ End(t, p) = Start(tab, p) + n
  <2>1. End(t, x) = Start(t, x) + t[x].m_length /\ End(t, p) = Start(t, p) + t[p].m_length
    BY DEF End, Start
  <2> QED
    BY <1>2, <1>4, <2>1
<1>6. Own(t) = Own(tab) \cup {x}
  <2>1. \A m \in MD \ {x} : t[m].m_own = tab[m].m_own
    BY <1>3, <1>4
  <2> QED
    BY <1>1, <1>4, <2>1 DEF Own
<1>7. \A m \in Own(tab) \ {p} : t[m] = tab[m]
  BY <1>3 DEF Own
<1>8. \A m \in Own(tab) \ {p} : Start(t, m) = Start(tab, m) /\ End(t, m) = End(tab, m)
  BY <1>7 DEF Start, End
<1>9. \A m \in Own(tab) : Start(t, m) = Start(tab, m)
  BY <1>4, <1>8
<1>10. t \in Table
  <2>1. t[x] \in [m_start : Address, m_length : 0 .. size, m_own : BOOLEAN]
    <3>1. Start(tab, p) + n \in Address /\ tab[p].m_length - n \in 0 .. size
      BY <1>2 DEF Address
    <3> QED
      BY <1>3, <3>1 DEF Start
  <2>2. t[p] \in [m_start : Address, m_length : 0 .. size, m_own : BOOLEAN]
    <3>1. n \in 0 .. size
      BY <1>2
    <3>2. tab[p] \in [m_start : Address, m_length : 0 .. size, m_own : BOOLEAN]
      BY <1>1 DEF Table
    <3> QED
      BY <1>3, <3>1, <3>2
  <2>3. \A m \in MD : t[m] \in [m_start : Address, m_length : 0 .. size, m_own : BOOLEAN]
    BY <1>1, <1>3, <2>1, <2>2 DEF Table
  <2>4. t = [m \in MD |-> t[m]]
    BY <1>1 DEF Table, Divided
  <2> QED
    BY <2>3, <2>4 DEF Table
<1>11. \A m \in Own(t) : t[m].m_length > 0 /\ End(t, m) <= size
  <2>1. \A m \in Own(tab) \ {p} : tab[m].m_length > 0 /\ End(tab, m) <= size
    BY DEF Blocks
  <2>2. t[x].m_length > 0 /\ End(t, x) <= size
    BY <1>2, <1>4, <1>5
  <2>3. t[p].m_length > 0 /\ End(t, p) <= size
    BY <1>2, <1>4, <1>5
  <2> QED
    BY <1>6, <1>7, <1>8, <2>1, <2>2, <2>3
<1>12. ASSUME NEW m \in Own(tab) \ {p}
       PROVE  Apart(t, m, p) /\ Apart(t, p, m) /\ Apart(t, m, x) /\ Apart(t, x, m)
  <2>1. End(tab, m) <= Start(tab, p) \/ End(tab, p) <= Start(tab, m)
    BY DEF Blocks, Apart
  <2>2. End(tab, m) \in Nat /\ Start(tab, m) \in Nat
    BY Numbers
  <2>3. End(tab, m) <= Start(tab, p) \/ Start(tab, p) + n <= Start(tab, m)
    BY <1>2, <2>1, <2>2
  <2>4. End(tab, m) <= Start(tab, p) + n \/ End(tab, p) <= Start(tab, m)
    BY <1>2, <2>1, <2>2
  <2>5. Apart(t, m, p) /\ Apart(t, p, m)
    BY <1>4, <1>5, <1>8, <2>3 DEF Apart
  <2>6. Apart(t, m, x) /\ Apart(t, x, m)
    BY <1>4, <1>5, <1>8, <2>4 DEF Apart
  <2> QED
    BY <2>5, <2>6
<1>13. Apart(t, p, x) /\ Apart(t, x, p)
  <2>1. Start(t, x) <= Start(t, x)
    BY <1>2, <1>4
  <2> QED
    BY <1>5, <2>1 DEF Apart
<1>14. \A m, k \in Own(t) : m # k => Apart(t, m, k)
  <2>1. ASSUME NEW m \in Own(tab) \ {p}, NEW k \in Own(tab) \ {p}, m # k PROVE Apart(t, m, k)
    <3>1. Apart(tab, m, k)
      BY <2>1 DEF Blocks
    <3> QED
      BY <1>8, <3>1 DEF Apart
  <2> SUFFICES ASSUME NEW m \in Own(t), NEW k \in Own(t), m # k PROVE Apart(t, m, k)
    OBVIOUS
  <2>2. (m = x \/ m = p \/ m \in Own(tab) \ {p}) /\ (k = x \/ k = p \/ k \in Own(tab) \ {p})
    BY <1>6
  <2> QED
    BY <1>12, <1>13, <2>1, <2>2
<1>15. \A a \in Address : \E m \in Own(t) : Holds(t, m, a)
  <2> SUFFICES ASSUME NEW a \in Address PROVE \E m \in Own(t) : Holds(t, m, a)
    OBVIOUS
  <2>1. PICK m \in Own(tab) : Holds(tab, m, a)
    BY DEF Blocks
  <2>2. CASE m # p
    BY <1>6, <1>8, <2>1, <2>2 DEF Holds
  <2>3. CASE m = p
    <3>1. Start(tab, p) <= a /\ a < End(tab, p) /\ a \in Nat
      BY <1>2, <2>1, <2>3 DEF Holds, Address
    <3>2. a < Start(tab, p) + n \/ Start(tab, p) + n <= a
      BY <1>2, <3>1
    <3>3. Holds(t, p, a) \/ Holds(t, x, a)
      BY <1>4, <1>5, <3>1, <3>2 DEF Holds
    <3> QED
      BY <1>6, <3>3
  <2> QED
    BY <2>2, <2>3
<1>16. 0 \in Own(t) /\ Start(t, 0) = 0
  BY <1>6, <1>9 DEF Blocks
<1>17. Blocks(t)
  BY <1>10, <1>11, <1>14, <1>15, <1>16 DEF Blocks
<1> QED
  BY <1>4, <1>5, <1>6, <1>7, <1>9, <1>17 DEF Divides

LEMMA Neighbours ==
    ASSUME NEW tab, Blocks(tab), NEW low \in Own(tab), NEW high \in Own(tab),
           End(tab, low) = Start(tab, high)
    PROVE  /\ low # high /\ high # 0
           /\ End(tab, high) = Start(tab, low) + (tab[low].m_length + tab[high].m_length)
           /\ tab[low].m_length + tab[high].m_length \in 0 .. DRIVER_MEM_BUFFER_SIZE
           /\ \A a \in Nat : Holds(tab, low, a) \/ Holds(tab, high, a)
                              => Start(tab, low) <= a /\ a < End(tab, high)
<1>1. /\ DRIVER_MEM_BUFFER_SIZE \in Nat
      /\ Start(tab, low) \in Nat /\ tab[low].m_length \in Nat \ {0}
      /\ End(tab, low) = Start(tab, low) + tab[low].m_length
  BY Numbers
<1>2. /\ Start(tab, high) \in Nat /\ tab[high].m_length \in Nat \ {0}
      /\ End(tab, high) = Start(tab, high) + tab[high].m_length
      /\ End(tab, high) <= DRIVER_MEM_BUFFER_SIZE
  BY Numbers
<1>3. Start(tab, high) = Start(tab, low) + tab[low].m_length
  BY <1>1
<1>4. low # high /\ Start(tab, high) # 0
  BY <1>1, <1>2, <1>3
<1>5. high # 0
  BY <1>4 DEF Blocks
<1>6. \A a \in Nat : Holds(tab, low, a) \/ Holds(tab, high, a)
                     => Start(tab, low) <= a /\ a < End(tab, high)
  BY <1>1, <1>2, <1>3 DEF Holds
<1>7. /\ End(tab, high) = Start(tab, low) + (tab[low].m_length + tab[high].m_length)
      /\ tab[low].m_length + tab[high].m_length \in 0 .. DRIVER_MEM_BUFFER_SIZE
  BY <1>1, <1>2, <1>3
<1> QED
  BY <1>4, <1>5, <1>6, <1>7

(* A block takes in the one that follows it. *)
Merged(tab, low, high) ==
    xmfreblk([tab EXCEPT ![low].m_length = @ + tab[high].m_length], high)

Merges(tab, t, low, high) ==
    /\ Blocks(t) /\ Own(t) = Own(tab) \ {high} /\ low # high
    /\ \A m \in Own(tab) : Start(t, m) = Start(tab, m)
    /\ \A m \in Own(tab) \ {low, high} : t[m] = tab[m]
    /\ End(t, low) = End(tab, high)

LEMMA JoinBlocks ==
    ASSUME NEW tab, Blocks(tab), NEW low \in Own(tab), NEW high \in Own(tab),
           End(tab, low) = Start(tab, high), NEW t, t = Merged(tab, low, high)
    PROVE  Merges(tab, t, low, high)
<1> DEFINE size == DRIVER_MEM_BUFFER_SIZE
<1>1. tab \in Table /\ low \in MD /\ high \in MD
  BY DEF Blocks, Own
<1>2. /\ size \in Nat /\ Start(tab, low) \in Nat /\ tab[low].m_length \in Nat \ {0}
      /\ End(tab, low) = Start(tab, low) + tab[low].m_length /\ End(tab, low) <= size
  BY Numbers
<1>3. /\ Start(tab, high) \in Nat /\ tab[high].m_length \in Nat \ {0}
      /\ End(tab, high) = Start(tab, high) + tab[high].m_length /\ End(tab, high) <= size
  BY Numbers
<1>4. /\ low # high /\ high # 0
      /\ End(tab, high) = Start(tab, low) + (tab[low].m_length + tab[high].m_length)
      /\ tab[low].m_length + tab[high].m_length \in 0 .. size
  BY Neighbours
<1>5. high > 0
  BY <1>1, <1>4, DriverMemAssumption DEF MD
<1>6. t = [[tab EXCEPT ![low].m_length = @ + tab[high].m_length] EXCEPT ![high].m_own = FALSE]
  BY <1>5 DEF Merged, xmfreblk
<1>7. /\ t[low] = [tab[low] EXCEPT !.m_length = @ + tab[high].m_length]
      /\ t[high] = [tab[high] EXCEPT !.m_own = FALSE]
      /\ \A m \in MD \ {low, high} : t[m] = tab[m]
      /\ DOMAIN t = MD
  BY <1>1, <1>4, <1>6 DEF Table
<1>8. /\ Start(t, low) = Start(tab, low) /\ t[low].m_length = tab[low].m_length + tab[high].m_length
      /\ t[low].m_own = tab[low].m_own
      /\ Start(t, high) = Start(tab, high) /\ t[high].m_own = FALSE
  BY <1>1, <1>7 DEF Start, Table
<1>9. End(t, low) = End(tab, high)
  <2>1. End(t, low) = Start(t, low) + t[low].m_length
    BY DEF End, Start
  <2> QED
    BY <1>4, <1>8, <2>1
<1>10. Own(t) = Own(tab) \ {high}
  <2>1. \A m \in MD \ {high} : t[m].m_own = tab[m].m_own
    BY <1>7, <1>8
  <2> QED
    BY <1>1, <1>8, <2>1 DEF Own
<1>11. \A m \in Own(tab) \ {low, high} : t[m] = tab[m]
  BY <1>7 DEF Own
<1>12. \A m \in Own(tab) \ {low, high} : Start(t, m) = Start(tab, m) /\ End(t, m) = End(tab, m)
  BY <1>11 DEF Start, End
<1>13. \A m \in Own(tab) : Start(t, m) = Start(tab, m)
  BY <1>8, <1>12
<1>14. t \in Table
  <2> DEFINE Row == [m_start : Address, m_length : 0 .. size, m_own : BOOLEAN]
  <2>1. tab[low] \in Row /\ tab[high] \in Row
    BY <1>1 DEF Table
  <2>2. t[low] \in Row
    <3>1. t[low] = [tab[low] EXCEPT !.m_length = tab[low].m_length + tab[high].m_length]
      BY <1>7, <2>1
    <3> QED
      BY <1>4, <2>1, <3>1
  <2>3. t[high] \in Row
    BY <1>7, <2>1
  <2>4. \A m \in MD \ {low, high} : t[m] \in Row
    BY <1>1, <1>7 DEF Table
  <2>5. t = [m \in MD |-> t[m]]
    BY <1>1, <1>6 DEF Table
  <2> HIDE DEF Row
  <2>6. \A m \in MD : t[m] \in Row
    BY <2>2, <2>3, <2>4
  <2> QED
    BY <2>5, <2>6 DEF Table, Row
<1>15. \A m \in Own(t) : t[m].m_length > 0 /\ End(t, m) <= size
  <2>1. \A m \in Own(tab) \ {low, high} : tab[m].m_length > 0 /\ End(tab, m) <= size
    BY DEF Blocks
  <2>2. t[low].m_length > 0 /\ End(t, low) <= size
    BY <1>2, <1>3, <1>8, <1>9
  <2> QED
    BY <1>10, <1>11, <1>12, <2>1, <2>2
<1>16. ASSUME NEW m \in Own(tab) \ {low, high}
       PROVE  Apart(t, m, low) /\ Apart(t, low, m)
  <2>1. /\ End(tab, m) <= Start(tab, low) \/ End(tab, low) <= Start(tab, m)
        /\ End(tab, m) <= Start(tab, high) \/ End(tab, high) <= Start(tab, m)
    BY DEF Blocks, Apart
  <2>2. End(tab, m) \in Nat /\ Start(tab, m) \in Nat /\ Start(tab, m) < End(tab, m)
    BY Numbers
  <2>3. End(tab, m) <= Start(tab, low) \/ End(tab, high) <= Start(tab, m)
    BY <1>2, <1>3, <2>1, <2>2
  <2> QED
    BY <1>8, <1>9, <1>12, <2>3 DEF Apart
<1>17. \A m, k \in Own(t) : m # k => Apart(t, m, k)
  <2>1. ASSUME NEW m \in Own(tab) \ {low, high}, NEW k \in Own(tab) \ {low, high}, m # k
        PROVE  Apart(t, m, k)
    <3>1. Apart(tab, m, k)
      BY <2>1 DEF Blocks
    <3> QED
      BY <1>12, <3>1 DEF Apart
  <2> QED
    BY <1>10, <1>16, <2>1
<1>18. \A a \in Address : \E m \in Own(t) : Holds(t, m, a)
  <2> SUFFICES ASSUME NEW a \in Address PROVE \E m \in Own(t) : Holds(t, m, a)
    OBVIOUS
  <2>1. PICK m \in Own(tab) : Holds(tab, m, a)
    BY DEF Blocks
  <2>2. CASE m \notin {low, high}
    BY <1>10, <1>12, <2>1, <2>2 DEF Holds
  <2>3. CASE m \in {low, high}
    <3>1. a \in Nat
      BY <1>2 DEF Address
    <3>2. Start(tab, low) <= a /\ a < End(tab, high)
      BY <2>1, <2>3, <3>1, Neighbours
    <3>3. low \in Own(t)
      BY <1>4, <1>10
    <3> QED
      BY <1>8, <1>9, <3>2, <3>3 DEF Holds
  <2> QED
    BY <2>2, <2>3
<1>19. 0 \in Own(t) /\ Start(t, 0) = 0
  BY <1>4, <1>10, <1>13 DEF Blocks
<1>20. Blocks(t)
  BY <1>14, <1>15, <1>17, <1>18, <1>19 DEF Blocks
<1> QED
  BY <1>4, <1>9, <1>10, <1>11, <1>13, <1>20 DEF Merges

(***************************************************************************)
(* The free list: descriptors in use, in the order of their blocks.        *)
(***************************************************************************)
FreeList(tab, mfl) ==
    /\ mfl \in Seq(MD)
    /\ Members(mfl) \subseteq Own(tab)
    /\ \A i, j \in 1 .. Len(mfl) : i < j => Start(tab, mfl[i]) < Start(tab, mfl[j])

(* Of the pairs of neighbours, only those at the places T touch. *)
TouchOnly(tab, mfl, T) ==
    \A k \in 1 .. Len(mfl) - 1 : End(tab, mfl[k]) = Start(tab, mfl[k + 1]) => k \in T

LEMMA Listed ==
    ASSUME NEW tab, Blocks(tab), NEW mfl, FreeList(tab, mfl), NEW i \in 1 .. Len(mfl)
    PROVE  /\ mfl[i] \in Own(tab) /\ mfl[i] \in Members(mfl) /\ mfl[i] \in MD
           /\ i \in Nat /\ Len(mfl) \in Nat
           /\ Start(tab, mfl[i]) \in Nat /\ End(tab, mfl[i]) \in Nat
           /\ Start(tab, mfl[i]) < End(tab, mfl[i])
<1>1. mfl[i] \in Members(mfl) /\ mfl[i] \in Own(tab)
  BY DEF FreeList, Members
<1>2. i \in Nat /\ Len(mfl) \in Nat
  BY DEF FreeList
<1> QED
  BY <1>1, <1>2, Numbers

LEMMA InOrder ==
    ASSUME NEW tab, Blocks(tab), NEW mfl, FreeList(tab, mfl),
           NEW i \in 1 .. Len(mfl), NEW j \in 1 .. Len(mfl), i < j
    PROVE  /\ mfl[i] # mfl[j]
           /\ End(tab, mfl[i]) <= Start(tab, mfl[j])
           /\ TouchOnly(tab, mfl, {}) => End(tab, mfl[i]) < Start(tab, mfl[j])
<1>1. /\ mfl[i] \in Own(tab) /\ mfl[j] \in Own(tab)
      /\ Start(tab, mfl[i]) \in Nat /\ End(tab, mfl[i]) \in Nat
      /\ Start(tab, mfl[i]) < End(tab, mfl[i])
      /\ Start(tab, mfl[j]) \in Nat /\ End(tab, mfl[j]) \in Nat
      /\ Start(tab, mfl[j]) < End(tab, mfl[j])
      /\ i \in Nat /\ j \in Nat /\ Len(mfl) \in Nat
  BY Listed
<1>2. Start(tab, mfl[i]) < Start(tab, mfl[j])
  BY DEF FreeList
<1>3. mfl[i] # mfl[j]
  BY <1>1, <1>2
<1>4. End(tab, mfl[i]) <= Start(tab, mfl[j])
  <2>1. End(tab, mfl[i]) <= Start(tab, mfl[j]) \/ End(tab, mfl[j]) <= Start(tab, mfl[i])
    BY <1>1, <1>3 DEF Blocks, Apart
  <2> QED
    BY <1>1, <1>2, <2>1
<1>5. ASSUME TouchOnly(tab, mfl, {}) PROVE End(tab, mfl[i]) < Start(tab, mfl[j])
  <2>1. i \in 1 .. Len(mfl) - 1 /\ i + 1 \in 1 .. Len(mfl) /\ (i + 1 = j \/ i + 1 < j)
    BY <1>1
  <2>2. End(tab, mfl[i]) # Start(tab, mfl[i + 1])
    BY <1>5, <2>1 DEF TouchOnly
  <2>3. CASE i + 1 = j
    BY <1>1, <1>4, <2>2, <2>3
  <2>4. CASE i + 1 < j
    <3>1. /\ mfl[i + 1] \in Own(tab)
          /\ Start(tab, mfl[i + 1]) \in Nat /\ End(tab, mfl[i + 1]) \in Nat
      BY <2>1, Listed
    <3>2. Start(tab, mfl[i]) < Start(tab, mfl[i + 1]) /\ Start(tab, mfl[i + 1]) < Start(tab, mfl[j])
      BY <1>1, <2>1, <2>4 DEF FreeList
    <3>3. mfl[i] # mfl[i + 1]
      BY <1>1, <3>1, <3>2
    <3>4. End(tab, mfl[i]) <= Start(tab, mfl[i + 1]) \/ End(tab, mfl[i + 1]) <= Start(tab, mfl[i])
      BY <1>1, <3>1, <3>3 DEF Blocks, Apart
    <3>5. Start(tab, mfl[i + 1]) < End(tab, mfl[i + 1])
      BY <2>1, Listed
    <3> QED
      BY <1>1, <3>1, <3>2, <3>4, <3>5
  <2> QED
    BY <2>1, <2>3, <2>4
<1> QED
  BY <1>3, <1>4, <1>5

LEMMA EachOnce ==
    ASSUME NEW tab, Blocks(tab), NEW mfl, FreeList(tab, mfl)
    PROVE  Injective(mfl)
<1> SUFFICES ASSUME NEW i \in 1 .. Len(mfl), NEW j \in 1 .. Len(mfl), mfl[i] = mfl[j] PROVE i = j
  BY DEF Injective
<1>1. i \in Nat /\ j \in Nat
  BY Listed
<1>2. ~(i < j) /\ ~(j < i)
  BY InOrder
<1> QED
  BY <1>1, <1>2

(* All of a block is taken. *)
LEMMA FreeTaken ==
    ASSUME NEW tab, Blocks(tab), NEW mfl, FreeList(tab, mfl), NEW k \in 1 .. Len(mfl),
           TouchOnly(tab, mfl, {})
    PROVE  /\ FreeList(tab, RemoveAt(mfl, k)) /\ TouchOnly(tab, RemoveAt(mfl, k), {})
           /\ Members(RemoveAt(mfl, k)) = Members(mfl) \ {mfl[k]}
<1> DEFINE r == RemoveAt(mfl, k)
           from(i) == IF i < k THEN i ELSE i + 1
<1>1. mfl \in Seq(MD) /\ k \in Nat /\ Len(mfl) \in Nat /\ k <= Len(mfl)
  BY DEF FreeList
<1>2. r \in Seq(MD) /\ Len(r) = Len(mfl) - 1 /\ \A i \in 1 .. Len(mfl) - 1 : r[i] = mfl[from(i)]
  BY <1>1, Removed
<1>3. Members(r) = Members(mfl) \ {mfl[k]}
  BY <1>1, EachOnce, RemovedMembers
<1> HIDE DEF r
<1>4. ASSUME NEW i \in 1 .. Len(r), NEW j \in 1 .. Len(r), i < j
      PROVE  from(i) \in 1 .. Len(mfl) /\ from(j) \in 1 .. Len(mfl) /\ from(i) < from(j)
  BY <1>1, <1>2, <1>4
<1> HIDE DEF from
<1>5. FreeList(tab, r)
  <2>1. ASSUME NEW i \in 1 .. Len(r), NEW j \in 1 .. Len(r), i < j
        PROVE  Start(tab, r[i]) < Start(tab, r[j])
    <3>1. Start(tab, mfl[from(i)]) < Start(tab, mfl[from(j)])
      BY <1>4, <2>1 DEF FreeList
    <3> QED
      BY <1>2, <3>1
  <2>2. Members(r) \subseteq Own(tab)
    BY <1>3 DEF FreeList
  <2> QED
    BY <1>2, <2>1, <2>2 DEF FreeList
<1>6. TouchOnly(tab, r, {})
  <2> SUFFICES ASSUME NEW i \in 1 .. Len(r) - 1 PROVE End(tab, r[i]) # Start(tab, r[i + 1])
    BY DEF TouchOnly
  <2>1. i \in 1 .. Len(r) /\ i + 1 \in 1 .. Len(r) /\ i < i + 1
    BY <1>1, <1>2
  <2>2. from(i) \in 1 .. Len(mfl) /\ from(i + 1) \in 1 .. Len(mfl) /\ from(i) < from(i + 1)
    BY <1>4, <2>1
  <2>3. End(tab, mfl[from(i)]) < Start(tab, mfl[from(i + 1)])
    BY <2>2, InOrder
  <2>4. End(tab, mfl[from(i)]) \in Nat /\ Start(tab, mfl[from(i + 1)]) \in Nat
    BY <2>2, Listed
  <2>5. r[i] = mfl[from(i)] /\ r[i + 1] = mfl[from(i + 1)]
    BY <1>2, <2>1
  <2> QED
    BY <2>3, <2>4, <2>5
<1> QED
  BY <1>3, <1>5, <1>6 DEF r

(* The end of a block stays in its place. *)
LEMMA FreeSplit ==
    ASSUME NEW tab, Blocks(tab), NEW mfl, FreeList(tab, mfl), NEW k \in 1 .. Len(mfl),
           TouchOnly(tab, mfl, {}), NEW x \in MD \ Own(tab), NEW n \in Nat \ {0},
           NEW t, Divides(tab, t, mfl[k], n, x)
    PROVE  /\ FreeList(t, ReplaceAt(mfl, k, x)) /\ TouchOnly(t, ReplaceAt(mfl, k, x), {})
           /\ Members(ReplaceAt(mfl, k, x)) = (Members(mfl) \ {mfl[k]}) \cup {x}
<1> DEFINE r == ReplaceAt(mfl, k, x)
           p == mfl[k]
<1>d. /\ Blocks(t) /\ Own(t) = Own(tab) \cup {x}
      /\ \A m \in Own(tab) : Start(t, m) = Start(tab, m)
      /\ \A m \in Own(tab) \ {p} : t[m] = tab[m]
      /\ Start(t, x) = Start(tab, p) + n /\ End(t, x) = End(tab, p)
  BY DEF Divides
<1>1. mfl \in Seq(MD) /\ k \in Nat /\ Len(mfl) \in Nat /\ k <= Len(mfl) /\ Injective(mfl)
  BY EachOnce DEF FreeList
<1>2. /\ r \in Seq(MD) /\ Len(r) = Len(mfl) /\ r[k] = x
      /\ \A i \in 1 .. Len(mfl) : i # k => r[i] = mfl[i]
      /\ Members(r) = (Members(mfl) \ {p}) \cup {x}
  BY <1>1, ReplacedMembers
<1> HIDE DEF r
<1>3. x \in Own(t) /\ Start(t, x) \in Nat /\ End(t, x) \in Nat /\ Start(t, x) < End(t, x)
  BY <1>d, Numbers
<1>4. p \in Own(tab) /\ Start(tab, p) \in Nat /\ End(tab, p) \in Nat
  BY Listed
<1>s. Start(tab, p) < Start(t, x)
  BY <1>4, <1>d
<1>5. ASSUME NEW i \in 1 .. Len(mfl), i # k
      PROVE  /\ r[i] = mfl[i] /\ mfl[i] \in Own(tab) /\ mfl[i] # p
             /\ Start(t, r[i]) = Start(tab, mfl[i]) /\ End(t, r[i]) = End(tab, mfl[i])
             /\ Start(tab, mfl[i]) \in Nat /\ End(tab, mfl[i]) \in Nat
  <2>1. mfl[i] \in Own(tab) /\ Start(tab, mfl[i]) \in Nat /\ End(tab, mfl[i]) \in Nat
    BY Listed
  <2>2. mfl[i] # p
    BY <1>1, <1>5 DEF Injective
  <2>3. t[mfl[i]] = tab[mfl[i]]
    BY <1>d, <2>1, <2>2
  <2> QED
    BY <1>2, <1>5, <2>1, <2>2, <2>3 DEF Start, End
<1>6. ASSUME NEW i \in 1 .. Len(mfl), NEW j \in 1 .. Len(mfl), i < j
      PROVE  Start(t, r[i]) < Start(t, r[j]) /\ End(t, r[i]) # Start(t, r[j])
  <2>1. End(tab, mfl[i]) < Start(tab, mfl[j]) /\ Start(tab, mfl[i]) < Start(tab, mfl[j])
    BY <1>6, InOrder DEF FreeList
  <2>2. CASE i # k /\ j # k
    BY <1>5, <2>1, <2>2
  <2>3. CASE i = k
    <3>1. j # k
      BY <1>1, <1>6, <2>3
    <3>2. Start(t, r[i]) = Start(t, x) /\ End(t, r[i]) = End(tab, p)
      BY <1>2, <1>d, <2>3
    <3>3. Start(t, r[j]) = Start(tab, mfl[j]) /\ Start(tab, mfl[j]) \in Nat
      BY <1>5, <3>1
    <3>4. End(tab, p) < Start(tab, mfl[j])
      BY <2>1, <2>3
    <3> QED
      BY <1>3, <1>4, <1>d, <3>2, <3>3, <3>4
  <2>4. CASE j = k
    <3>1. i # k
      BY <1>1, <1>6, <2>4
    <3>2. Start(t, r[j]) = Start(t, x)
      BY <1>2, <2>4
    <3>3. /\ Start(t, r[i]) = Start(tab, mfl[i]) /\ Start(tab, mfl[i]) \in Nat
          /\ End(t, r[i]) = End(tab, mfl[i]) /\ End(tab, mfl[i]) \in Nat
      BY <1>5, <3>1
    <3>4. End(tab, mfl[i]) < Start(tab, p) /\ Start(tab, mfl[i]) < Start(tab, p)
      BY <2>1, <2>4
    <3> QED
      BY <1>3, <1>4, <1>s, <3>2, <3>3, <3>4
  <2> QED
    BY <2>2, <2>3, <2>4
<1>7. FreeList(t, r)
  BY <1>2, <1>6, <1>d DEF FreeList
<1>8. TouchOnly(t, r, {})
  <2> SUFFICES ASSUME NEW i \in 1 .. Len(r) - 1 PROVE End(t, r[i]) # Start(t, r[i + 1])
    BY DEF TouchOnly
  <2>1. i \in 1 .. Len(mfl) /\ i + 1 \in 1 .. Len(mfl) /\ i < i + 1
    BY <1>1, <1>2
  <2> QED
    BY <1>6, <2>1
<1> QED
  BY <1>2, <1>7, <1>8 DEF r

(* The place that freeit finds for a block. *)
PlaceOf(tab, mfl, m, i) ==
    /\ i <= Len(mfl) => tab[m].m_start <= tab[mfl[i]].m_start
    /\ \A j \in 1 .. i - 1 : tab[m].m_start > tab[mfl[j]].m_start

(* A block goes where the order has it. *)
Gains(tab, r, mfl, k, m) ==
    /\ FreeList(tab, r) /\ TouchOnly(tab, r, {k, k - 1})
    /\ Members(r) = Members(mfl) \cup {m}

LEMMA FreeInserted ==
    ASSUME NEW tab, Blocks(tab), NEW mfl, FreeList(tab, mfl), TouchOnly(tab, mfl, {}),
           NEW m \in Own(tab) \ Members(mfl), NEW k \in 1 .. Len(mfl) + 1,
           PlaceOf(tab, mfl, m, k)
    PROVE  Gains(tab, InsertAt(mfl, k, m), mfl, k, m)
<1> DEFINE r == InsertAt(mfl, k, m)
<1>p. /\ k <= Len(mfl) => Start(tab, m) <= Start(tab, mfl[k])
      /\ \A j \in 1 .. k - 1 : Start(tab, m) > Start(tab, mfl[j])
  BY DEF PlaceOf, Start
<1>1. mfl \in Seq(MD) /\ k \in Nat /\ Len(mfl) \in Nat /\ k <= Len(mfl) + 1 /\ m \in MD
  BY DEF FreeList, Own
<1>2. /\ r \in Seq(MD) /\ Len(r) = Len(mfl) + 1
      /\ \A i \in 1 .. Len(mfl) + 1 :
            r[i] = IF i < k THEN mfl[i] ELSE IF i = k THEN m ELSE mfl[i - 1]
      /\ Members(r) = Members(mfl) \cup {m}
  BY <1>1, Inserted, InsertedMembers
<1> HIDE DEF r
<1>3. Start(tab, m) \in Nat
  BY Numbers
<1>4. \A i \in 1 .. Len(mfl) : Start(tab, mfl[i]) \in Nat
  BY Listed
<1>5. ASSUME NEW j \in 1 .. Len(mfl), k <= j PROVE Start(tab, m) < Start(tab, mfl[j])
  <2>1. k \in 1 .. Len(mfl) /\ mfl[k] \in Own(tab) /\ mfl[k] # m
    <3>1. k \in 1 .. Len(mfl)
      BY <1>1, <1>5
    <3> QED
      BY <3>1, Listed
  <2>2. Start(tab, m) < Start(tab, mfl[k])
    <3>1. End(tab, m) <= Start(tab, mfl[k]) \/ End(tab, mfl[k]) <= Start(tab, m)
      BY <2>1 DEF Blocks, Apart
    <3>2. Start(tab, m) < End(tab, m) /\ End(tab, m) \in Nat
      BY Numbers
    <3>3. Start(tab, mfl[k]) < End(tab, mfl[k]) /\ End(tab, mfl[k]) \in Nat
      BY <2>1, Numbers
    <3>4. Start(tab, m) <= Start(tab, mfl[k]) /\ Start(tab, mfl[k]) \in Nat
      BY <1>1, <1>4, <1>p, <2>1
    <3> QED
      BY <1>3, <3>1, <3>2, <3>3, <3>4
  <2>3. k = j \/ Start(tab, mfl[k]) < Start(tab, mfl[j])
    <3>1. k = j \/ k < j
      BY <1>1, <1>5
    <3> QED
      BY <2>1, <3>1 DEF FreeList
  <2> QED
    BY <1>3, <1>4, <2>1, <2>2, <2>3
<1>6. ASSUME NEW i \in 1 .. Len(r), NEW j \in 1 .. Len(r), i < j
      PROVE  Start(tab, r[i]) < Start(tab, r[j])
  <2>0. i \in Nat /\ j \in Nat
    BY <1>1, <1>2
  <2>1. CASE j < k
    <3>1. i \in 1 .. Len(mfl) /\ j \in 1 .. Len(mfl) /\ r[i] = mfl[i] /\ r[j] = mfl[j]
      BY <1>1, <1>2, <1>6, <2>1
    <3> QED
      BY <1>6, <3>1 DEF FreeList
  <2>2. CASE j = k
    <3>1. i \in 1 .. k - 1 /\ r[i] = mfl[i] /\ r[j] = m
      BY <1>1, <1>2, <1>6, <2>2
    <3>2. i \in 1 .. Len(mfl)
      BY <1>1, <3>1
    <3> QED
      BY <1>3, <1>4, <1>p, <3>1, <3>2
  <2>3. CASE j > k /\ i < k
    <3>1. i \in 1 .. Len(mfl) /\ j - 1 \in 1 .. Len(mfl) /\ i < j - 1 /\ r[i] = mfl[i] /\ r[j] = mfl[j - 1]
      BY <1>1, <1>2, <1>6, <2>3
    <3> QED
      BY <3>1 DEF FreeList
  <2>4. CASE j > k /\ i = k
    <3>1. j - 1 \in 1 .. Len(mfl) /\ k <= j - 1 /\ r[i] = m /\ r[j] = mfl[j - 1]
      BY <1>1, <1>2, <1>6, <2>4
    <3> QED
      BY <1>5, <3>1
  <2>5. CASE i > k
    <3>1. i - 1 \in 1 .. Len(mfl) /\ j - 1 \in 1 .. Len(mfl) /\ i - 1 < j - 1
          /\ r[i] = mfl[i - 1] /\ r[j] = mfl[j - 1]
      BY <1>1, <1>2, <1>6, <2>5
    <3> QED
      BY <3>1 DEF FreeList
  <2> QED
    BY <1>1, <1>6, <2>0, <2>1, <2>2, <2>3, <2>4, <2>5
<1>7. FreeList(tab, r)
  BY <1>2, <1>6 DEF FreeList
<1>8. TouchOnly(tab, r, {k, k - 1})
  <2> SUFFICES ASSUME NEW i \in 1 .. Len(r) - 1, i # k, i # k - 1
               PROVE  End(tab, r[i]) # Start(tab, r[i + 1])
    BY DEF TouchOnly
  <2>1. \E j \in 1 .. Len(mfl) - 1 : r[i] = mfl[j] /\ r[i + 1] = mfl[j + 1]
    <3>1. CASE i < k
      <4>1. i \in 1 .. Len(mfl) - 1 /\ i \in 1 .. Len(mfl) + 1 /\ i + 1 \in 1 .. Len(mfl) + 1
            /\ i + 1 < k
        BY <1>1, <1>2, <3>1
      <4> QED
        BY <1>2, <3>1, <4>1
    <3>2. CASE i > k
      <4>1. /\ i - 1 \in 1 .. Len(mfl) - 1 /\ i \in 1 .. Len(mfl) + 1 /\ i + 1 \in 1 .. Len(mfl) + 1
            /\ ~(i < k) /\ ~(i + 1 < k) /\ i + 1 # k /\ (i + 1) - 1 = (i - 1) + 1
        BY <1>1, <1>2, <3>2
      <4>2. r[i] = mfl[i - 1] /\ r[i + 1] = mfl[(i - 1) + 1]
        BY <1>2, <4>1
      <4> QED
        BY <4>1, <4>2
    <3> QED
      BY <1>1, <1>2, <3>1, <3>2
  <2> QED
    BY <2>1 DEF TouchOnly
<1> QED
  BY <1>2, <1>7, <1>8 DEF Gains, r

(* A block and the next one in the list become one. *)
UpTo(T, k) == \A j \in T : j <= k

LEMMA FreeJoined ==
    ASSUME NEW tab, Blocks(tab), NEW mfl, FreeList(tab, mfl), NEW k \in 1 .. Len(mfl) - 1,
           NEW T \in SUBSET Int, UpTo(T, k), TouchOnly(tab, mfl, T),
           NEW t, Merges(tab, t, mfl[k], mfl[k + 1])
    PROVE  /\ FreeList(t, RemoveAt(mfl, k + 1)) /\ TouchOnly(t, RemoveAt(mfl, k + 1), T \ {k})
           /\ Members(RemoveAt(mfl, k + 1)) = Members(mfl) \ {mfl[k + 1]}
<1> DEFINE r == RemoveAt(mfl, k + 1)
           from(i) == IF i < k + 1 THEN i ELSE i + 1
<1> USE DEF Merges, UpTo
<1>1. mfl \in Seq(MD) /\ k \in Nat /\ Len(mfl) \in Nat /\ k + 1 \in 1 .. Len(mfl) /\ Injective(mfl)
  BY EachOnce DEF FreeList
<1>2. r \in Seq(MD) /\ Len(r) = Len(mfl) - 1 /\ \A i \in 1 .. Len(mfl) - 1 : r[i] = mfl[from(i)]
  BY <1>1, Removed
<1>3. Members(r) = Members(mfl) \ {mfl[k + 1]}
  BY <1>1, RemovedMembers
<1> HIDE DEF r
<1>4. ASSUME NEW i \in 1 .. Len(r)
      PROVE  /\ from(i) \in 1 .. Len(mfl) /\ from(i) # k + 1 /\ from(i) \in Int
             /\ \A j \in 1 .. Len(r) : i < j => from(i) < from(j)
             /\ i <= k => from(i) = i
             /\ i > k => from(i) = i + 1
  BY <1>1, <1>2
<1> HIDE DEF from
<1>5. ASSUME NEW i \in 1 .. Len(mfl), i # k + 1
      PROVE  /\ mfl[i] \in Own(tab) /\ Start(t, mfl[i]) = Start(tab, mfl[i])
             /\ i # k => End(t, mfl[i]) = End(tab, mfl[i])
  <2>1. mfl[i] \in Own(tab)
    BY Listed
  <2>2. ASSUME i # k PROVE End(t, mfl[i]) = End(tab, mfl[i])
    <3>1. k \in 1 .. Len(mfl)
      BY <1>1
    <3>2. mfl[i] # mfl[k] /\ mfl[i] # mfl[k + 1]
      BY <1>1, <1>5, <2>2, <3>1 DEF Injective
    <3>3. t[mfl[i]] = tab[mfl[i]]
      BY <2>1, <3>2
    <3> QED
      BY <3>3 DEF End
  <2> QED
    BY <2>1, <2>2
<1>6. FreeList(t, r)
  <2>1. ASSUME NEW i \in 1 .. Len(r), NEW j \in 1 .. Len(r), i < j
        PROVE  Start(t, r[i]) < Start(t, r[j])
    <3>1. Start(tab, mfl[from(i)]) < Start(tab, mfl[from(j)])
      BY <1>4, <2>1 DEF FreeList
    <3>2. Start(t, mfl[from(i)]) = Start(tab, mfl[from(i)]) /\ Start(t, mfl[from(j)]) = Start(tab, mfl[from(j)])
      BY <1>4, <1>5
    <3> QED
      BY <1>2, <3>1, <3>2
  <2>2. Members(r) \subseteq Own(t)
    BY <1>3 DEF FreeList
  <2> QED
    BY <1>2, <2>1, <2>2 DEF FreeList
<1>7. TouchOnly(t, r, T \ {k})
  <2> SUFFICES ASSUME NEW i \in 1 .. Len(r) - 1, End(t, r[i]) = Start(t, r[i + 1])
               PROVE  i \in T \ {k}
    BY DEF TouchOnly
  <2>1. i \in 1 .. Len(r) /\ i + 1 \in 1 .. Len(r) /\ i \in Nat
    BY <1>1, <1>2
  <2>2. r[i] = mfl[from(i)] /\ r[i + 1] = mfl[from(i + 1)]
    BY <1>2, <2>1
  <2>3. Start(t, r[i + 1]) = Start(tab, mfl[from(i + 1)])
    BY <1>4, <1>5, <2>1, <2>2
  <2>4. CASE i < k
    <3>1. from(i) = i /\ from(i + 1) = i + 1
      BY <1>1, <1>4, <2>1, <2>4
    <3>2. End(tab, mfl[i]) = Start(tab, mfl[i + 1])
      <4>1. i \in 1 .. Len(mfl) /\ i # k /\ i # k + 1
        BY <1>1, <1>2, <2>1, <2>4
      <4> QED
        BY <1>5, <2>2, <2>3, <3>1, <4>1
    <3>3. i \in 1 .. Len(mfl) - 1 /\ i # k
      BY <1>1, <1>2, <2>1, <2>4
    <3> QED
      BY <3>2, <3>3 DEF TouchOnly
  <2>5. CASE i = k
    <3>1. from(i) = k /\ from(i + 1) = k + 2
      BY <1>1, <1>4, <2>1, <2>5
    <3>2. End(tab, mfl[k + 1]) = Start(tab, mfl[k + 2])
      BY <2>2, <2>3, <3>1
    <3>3. k + 1 \in 1 .. Len(mfl) - 1 /\ (k + 1) + 1 = k + 2
      BY <1>1, <1>2, <2>1, <2>5
    <3>4. k + 1 \in T
      BY <3>2, <3>3 DEF TouchOnly
    <3>5. k + 1 <= k
      BY <3>4
    <3> QED
      BY <1>1, <3>5
  <2>6. CASE i > k
    <3>1. from(i) = i + 1 /\ from(i + 1) = i + 2
      BY <1>1, <1>4, <2>1, <2>6
    <3>2. i + 1 \in 1 .. Len(mfl) - 1 /\ (i + 1) + 1 = i + 2 /\ i + 1 # k /\ i + 1 # k + 1
      BY <1>1, <1>2, <2>1, <2>6
    <3>3. End(tab, mfl[i + 1]) = Start(tab, mfl[i + 2])
      <4>1. i + 1 \in 1 .. Len(mfl)
        BY <1>1, <3>2
      <4> QED
        BY <1>5, <2>2, <2>3, <3>1, <3>2, <4>1
    <3>4. i + 1 \in T
      BY <3>2, <3>3 DEF TouchOnly
    <3>5. i + 1 <= k
      BY <3>4
    <3> QED
      BY <1>1, <2>1, <2>6, <3>5
  <2> QED
    BY <1>1, <2>1, <2>4, <2>5, <2>6
<1> QED
  BY <1>3, <1>6, <1>7 DEF r

ListMerges(tab, t, mfl, k, T) ==
    /\ Merges(tab, t, mfl[k], mfl[k + 1])
    /\ mfl[k] \in Members(mfl) /\ mfl[k + 1] \in Members(mfl)
    /\ FreeList(t, RemoveAt(mfl, k + 1)) /\ TouchOnly(t, RemoveAt(mfl, k + 1), T \ {k})
    /\ Members(RemoveAt(mfl, k + 1)) = Members(mfl) \ {mfl[k + 1]}

LEMMA MergedList ==
    ASSUME NEW tab, Blocks(tab), NEW mfl, FreeList(tab, mfl), NEW k \in 1 .. Len(mfl) - 1,
           End(tab, mfl[k]) = Start(tab, mfl[k + 1]),
           NEW T \in SUBSET Int, UpTo(T, k), TouchOnly(tab, mfl, T),
           NEW t, t = Merged(tab, mfl[k], mfl[k + 1])
    PROVE  ListMerges(tab, t, mfl, k, T)
<1>1. k \in 1 .. Len(mfl) /\ k + 1 \in 1 .. Len(mfl)
  BY DEF FreeList
<1>2. /\ mfl[k] \in Own(tab) /\ mfl[k + 1] \in Own(tab)
      /\ mfl[k] \in Members(mfl) /\ mfl[k + 1] \in Members(mfl)
  BY <1>1, Listed
<1>3. Merges(tab, t, mfl[k], mfl[k + 1])
  BY <1>2, JoinBlocks
<1>4. /\ FreeList(t, RemoveAt(mfl, k + 1)) /\ TouchOnly(t, RemoveAt(mfl, k + 1), T \ {k})
      /\ Members(RemoveAt(mfl, k + 1)) = Members(mfl) \ {mfl[k + 1]}
  BY <1>3, FreeJoined
<1> QED
  BY <1>2, <1>3, <1>4 DEF ListMerges

(***************************************************************************)
(* freeit: the table and list it works on, with the allocated descriptors  *)
(* A, while only neighbours at the places T may touch.                     *)
(***************************************************************************)
Working(h, A, T) ==
    /\ Blocks(h.tab)
    /\ FreeList(h.tab, h.mfl) /\ TouchOnly(h.tab, h.mfl, T)
    /\ h.rover \in Members(h.mfl)
    /\ Own(h.tab) = Members(h.mfl) \cup A /\ Members(h.mfl) \cap A = {}

Same(h, g, A) == \A m \in A : g.tab[m] = h.tab[m]

LEMMA Joined ==
    ASSUME NEW h, NEW A, NEW T \in SUBSET Int, Working(h, A, T), NEW k \in Int, UpTo(T, k),
           NEW U, U = T \ {k}
    PROVE  Working(JoinTouching(h, k), A, U) /\ Same(h, JoinTouching(h, k), A)
<1>1. CASE ~Touch(h, k)
  <2>1. JoinTouching(h, k) = h
    BY <1>1 DEF JoinTouching
  <2>2. TouchOnly(h.tab, h.mfl, T \ {k})
    BY <1>1 DEF Touch, TouchOnly, Working, End, Start
  <2> QED
    BY <2>1, <2>2 DEF Working, Same
<1>2. CASE Touch(h, k)
  <2> DEFINE low == h.mfl[k]
             high == h.mfl[k + 1]
             t == Merged(h.tab, low, high)
             rover == IF h.rover = high THEN low ELSE h.rover
             g == [tab |-> t, mfl |-> RemoveAt(h.mfl, k + 1), rover |-> rover]
  <2>1. JoinTouching(h, k) = g
    BY <1>2 DEF JoinTouching, Join, Merged
  <2>2. /\ k \in 1 .. Len(h.mfl) - 1 /\ End(h.tab, low) = Start(h.tab, high)
        /\ Blocks(h.tab) /\ FreeList(h.tab, h.mfl)
    BY <1>2 DEF Touch, Working, End, Start
  <2>4. ListMerges(h.tab, t, h.mfl, k, T)
    <3>1. TouchOnly(h.tab, h.mfl, T)
      BY DEF Working
    <3> QED
      BY <2>2, <3>1, MergedList
  <2>5. /\ Blocks(t) /\ Own(t) = Own(h.tab) \ {high} /\ low # high
        /\ low \in Members(h.mfl) /\ high \in Members(h.mfl)
        /\ \A m \in Own(h.tab) \ {low, high} : t[m] = h.tab[m]
        /\ FreeList(t, RemoveAt(h.mfl, k + 1)) /\ TouchOnly(t, RemoveAt(h.mfl, k + 1), T \ {k})
        /\ Members(RemoveAt(h.mfl, k + 1)) = Members(h.mfl) \ {high}
    <3> HIDE DEF t
    <3> QED
      BY <2>4 DEF ListMerges, Merges
  <2> HIDE DEF t
  <2> HIDE DEF low, high
  <2>7. g.tab = t /\ g.mfl = RemoveAt(h.mfl, k + 1) /\ g.rover = rover
    OBVIOUS
  <2>8. rover \in Members(h.mfl) \ {high}
    BY <2>5 DEF Working
  <2> HIDE DEF g, rover
  <2>9. Working(g, A, T \ {k})
    <3>1. /\ Own(t) = (Members(h.mfl) \ {high}) \cup A
          /\ (Members(h.mfl) \ {high}) \cap A = {}
      BY <2>5 DEF Working
    <3> QED
      BY <2>5, <2>7, <2>8, <3>1 DEF Working
  <2>10. \A m \in A : t[m] = h.tab[m]
    BY <2>5 DEF Working
  <2> QED
    BY <2>1, <2>7, <2>9, <2>10 DEF Same
<1> QED
  BY <1>1, <1>2

(***************************************************************************)
(* The inductive invariant: what holds of the table and the partition when *)
(* no operation is under way.                                              *)
(***************************************************************************)
State(tab, p) ==
    /\ Blocks(tab)
    /\ FreeList(tab, p.mfl) /\ TouchOnly(tab, p.mfl, {})
    /\ p.mal \in Seq(MD) /\ Injective(p.mal)
    /\ Own(tab) = Members(p.mfl) \cup Members(p.mal) /\ Members(p.mfl) \cap Members(p.mal) = {}
    /\ IF p.mfl = <<>> THEN p.rover = NULL ELSE p.rover \in Members(p.mfl)

Results == [call : {"none", "alloc", "query", "free"},
            value : 0 .. DRIVER_MEM_BUFFER_SIZE \cup {NULL}]

HeapInv == State(tab_md, pmd) /\ result \in Results

LEMMA InitInv == Init => HeapInv
<1> SUFFICES ASSUME Init PROVE HeapInv
  OBVIOUS
<1> DEFINE size == DRIVER_MEM_BUFFER_SIZE
<1>1. size \in Nat \ {0} /\ 0 \in MD /\ MD \subseteq Nat /\ Address = 0 .. size - 1
  BY DriverMemAssumption DEF MD, Address
<1>2. /\ tab_md = [m \in MD |-> IF m = 0
                      THEN [m_start |-> 0, m_length |-> size, m_own |-> TRUE]
                      ELSE [m_start |-> 0, m_length |-> 0, m_own |-> FALSE]]
      /\ pmd = [mfl |-> <<0>>, mal |-> <<>>, rover |-> 0]
      /\ result = [call |-> "none", value |-> 0]
  BY DEF Init
<1>3. /\ tab_md[0] = [m_start |-> 0, m_length |-> size, m_own |-> TRUE]
      /\ \A m \in MD \ {0} : tab_md[m] = [m_start |-> 0, m_length |-> 0, m_own |-> FALSE]
  BY <1>1, <1>2
<1>4. Own(tab_md) = {0}
  <2>1. tab_md[0].m_own /\ \A m \in MD \ {0} : ~tab_md[m].m_own
    <3>1. tab_md[0].m_own = TRUE /\ \A m \in MD \ {0} : tab_md[m].m_own = FALSE
      BY <1>3
    <3> QED
      BY <3>1
  <2> QED
    BY <1>1, <2>1 DEF Own
<1>5. Start(tab_md, 0) = 0 /\ End(tab_md, 0) = size /\ tab_md[0].m_length = size
  BY <1>1, <1>3 DEF Start, End
<1>6. tab_md \in Table
  <2>1. 0 \in Address /\ 0 \in 0 .. size /\ size \in 0 .. size
    BY <1>1
  <2> QED
    BY <1>2, <2>1 DEF Table
<1>7. Blocks(tab_md)
  <2>1. \A a \in Address : Holds(tab_md, 0, a)
    BY <1>1, <1>5 DEF Holds
  <2>2. size > 0 /\ size <= size
    BY <1>1
  <2> QED
    BY <1>4, <1>5, <1>6, <2>1, <2>2 DEF Blocks
<1>8. /\ pmd.mfl = <<0>> /\ pmd.mal = <<>> /\ pmd.rover = 0
      /\ Len(pmd.mfl) = 1 /\ pmd.mfl[1] = 0 /\ Len(pmd.mal) = 0
  BY <1>2
<1>9. Members(pmd.mfl) = {0} /\ Members(pmd.mal) = {}
  BY <1>8 DEF Members
<1>10. FreeList(tab_md, pmd.mfl)
  <2>1. pmd.mfl \in Seq(MD)
    BY <1>1, <1>8
  <2>2. \A i, j \in 1 .. 1 : ~(i < j)
    OBVIOUS
  <2> QED
    BY <1>4, <1>8, <1>9, <2>1, <2>2 DEF FreeList
<1>11. TouchOnly(tab_md, pmd.mfl, {})
  BY <1>8 DEF TouchOnly
<1>12. pmd.mal \in Seq(MD) /\ Injective(pmd.mal)
  BY <1>8 DEF Injective
<1>13. result \in Results
  BY <1>1, <1>2 DEF Results
<1>14. pmd.mfl # <<>>
  BY <1>8
<1> QED
  BY <1>4, <1>7, <1>8, <1>9, <1>10, <1>11, <1>12, <1>13, <1>14 DEF HeapInv, State

-----------------------------------------------------------------------------
(* What the searches find. *)
LEMMA FirstFitFits ==
    ASSUME State(tab_md, pmd), NEW amount, Fits(amount) # {}
    PROVE  FirstFit(amount) \in Fits(amount)
<1> DEFINE turns == {Turn(j) : j \in Fits(amount)}
<1>1. Len(pmd.mfl) \in Nat /\ Fits(amount) \subseteq 1 .. Len(pmd.mfl)
  BY DEF State, FreeList, Fits
<1>2. Len(pmd.mfl) > 0
  BY <1>1
<1>3. RoverAt \in 1 .. Len(pmd.mfl)
  <2>1. pmd.mfl # <<>>
    BY <1>2
  <2>2. \E k \in 1 .. Len(pmd.mfl) : pmd.mfl[k] = pmd.rover
    BY <2>1 DEF State, Members
  <2> QED
    BY <2>2, Zenon DEF RoverAt
<1>4. \A k \in 1 .. Len(pmd.mfl) : Turn(k) \in Nat
  <2>1. \A x \in Int, n \in Nat \ {0} : x % n \in Nat
    OBVIOUS
  <2> SUFFICES ASSUME NEW k \in 1 .. Len(pmd.mfl) PROVE Turn(k) \in Nat
    OBVIOUS
  <2>2. k - RoverAt - 1 \in Int /\ Len(pmd.mfl) \in Nat \ {0}
    BY <1>1, <1>2, <1>3
  <2> QED
    BY <2>1, <2>2 DEF Turn
<1>5. turns \in SUBSET Nat
  BY <1>1, <1>4
<1>6. PICK f \in turns : TRUE
  OBVIOUS
<1>7. PICK least \in turns : \A u \in turns : least <= u
  <2> HIDE DEF turns
  <2> QED
    BY <1>5, <1>6, LeastIn
<1>8. \E k \in Fits(amount) : \A j \in Fits(amount) : Turn(k) <= Turn(j)
  BY <1>7
<1> QED
  BY <1>8, Zenon DEF FirstFit

LEMMA FirstUnused ==
    ASSUME Unused # {}
    PROVE  xmgetblk \in MD \ Own(tab_md)
<1>1. Unused \in SUBSET Nat /\ Unused = MD \ Own(tab_md)
  <2>1. MD \subseteq Nat
    BY DriverMemAssumption DEF MD
  <2>2. Unused = MD \ Own(tab_md)
    BY DEF Unused, Own
  <2> QED
    BY <2>1, <2>2
<1>2. PICK f \in Unused : TRUE
  OBVIOUS
<1>3. \E m \in Unused : \A n \in Unused : m <= n
  BY <1>1, <1>2, LeastIn
<1>4. xmgetblk \in Unused
  BY <1>3, Zenon DEF xmgetblk
<1> QED
  BY <1>1, <1>4

LEMMA AmountPositive ==
    ASSUME NEW n \in Amounts
    PROVE  Rounded(n) \in Nat \ {0}
<1>1. n \in Nat /\ n > 0
  BY DriverMemAssumption
<1> DEFINE e == n + (n % 2)
<1>2. e \in Nat /\ e > 0
  BY <1>1
<1> HIDE DEF e
<1>3. ((e + 15) \div 16) * 16 \in Nat \ {0}
  BY <1>2
<1> QED
  BY <1>3 DEF Rounded, e

-----------------------------------------------------------------------------
(* A block of n bytes is given out: the beginning, or all, of a free one.  *)
Gives(n) ==
    \E p \in Members(pmd.mfl) :
        /\ n <= tab_md[p].m_length
        /\ Start(tab_md', p) = Start(tab_md, p) /\ tab_md'[p].m_length = n
        /\ Members(pmd'.mal) = Members(pmd.mal) \cup {p}
        /\ \A m \in Members(pmd.mal) : tab_md'[m] = tab_md[m]
        /\ result' = [call |-> "alloc", value |-> Start(tab_md, p)]

LEMMA Takes ==
    ASSUME State(tab_md, pmd), NEW k \in 1 .. Len(pmd.mfl), NEW mfl \in Seq(MD), Take(k, mfl),
           k > 1 => k - 1 \in 1 .. Len(mfl) /\ mfl[k - 1] = pmd.mfl[k - 1]
    PROVE  /\ pmd'.mfl = mfl /\ pmd'.mal \in Seq(MD) /\ Injective(pmd'.mal)
           /\ Members(pmd'.mal) = Members(pmd.mal) \cup {pmd.mfl[k]}
           /\ IF pmd'.mfl = <<>> THEN pmd'.rover = NULL ELSE pmd'.rover \in Members(pmd'.mfl)
           /\ result' = [call |-> "alloc", value |-> Start(tab_md, pmd.mfl[k])]
           /\ result' \in Results
<1> DEFINE p == pmd.mfl[k]
           rover == IF k > 1 THEN pmd.mfl[k - 1] ELSE IF mfl = <<>> THEN NULL ELSE Head(mfl)
<1>1. /\ p \in Members(pmd.mfl) /\ p \in MD /\ p \in Own(tab_md) /\ k \in Nat
      /\ p \notin Members(pmd.mal) /\ pmd.mal \in Seq(MD) /\ Injective(pmd.mal)
  BY Listed DEF State
<1>2. /\ pmd'.mfl = mfl /\ pmd'.mal = <<p>> \o pmd.mal /\ pmd'.rover = rover
      /\ result' = [call |-> "alloc", value |-> Start(tab_md, p)]
  BY DEF Take, Returns, Start
<1>3. <<p>> \o pmd.mal \in Seq(MD) /\ Members(<<p>> \o pmd.mal) = Members(pmd.mal) \cup {p}
      /\ Injective(<<p>> \o pmd.mal)
  BY <1>1, Prepended
<1>4. IF mfl = <<>> THEN rover = NULL ELSE rover \in Members(mfl)
  <2>1. CASE k > 1
    <3>1. k - 1 \in 1 .. Len(mfl) /\ mfl[k - 1] = rover
      BY <2>1
    <3>2. mfl # <<>>
      BY <3>1
    <3> QED
      BY <3>1, <3>2 DEF Members
  <2>2. CASE ~(k > 1) /\ mfl # <<>>
    <3>1. rover = mfl[1] /\ 1 \in 1 .. Len(mfl)
      BY <2>2
    <3> QED
      BY <2>2, <3>1 DEF Members
  <2>3. CASE ~(k > 1) /\ mfl = <<>>
    BY <2>3
  <2> QED
    BY <2>1, <2>2, <2>3
<1>5. result' \in Results
  <2>1. Start(tab_md, p) \in 0 .. DRIVER_MEM_BUFFER_SIZE
    <3>1. /\ Start(tab_md, p) \in Nat /\ End(tab_md, p) \in Nat /\ DRIVER_MEM_BUFFER_SIZE \in Nat
          /\ Start(tab_md, p) < End(tab_md, p) /\ End(tab_md, p) <= DRIVER_MEM_BUFFER_SIZE
      BY <1>1, Numbers DEF State
    <3> QED
      BY <3>1
  <2> HIDE DEF p
  <2> QED
    BY <1>2, <2>1 DEF Results
<1> HIDE DEF rover, p
<1>6. /\ pmd'.mfl = mfl /\ pmd'.mal \in Seq(MD) /\ Injective(pmd'.mal)
      /\ Members(pmd'.mal) = Members(pmd.mal) \cup {p}
  BY <1>2, <1>3
<1>7. IF pmd'.mfl = <<>> THEN pmd'.rover = NULL ELSE pmd'.rover \in Members(pmd'.mfl)
  BY <1>2, <1>4
<1> QED
  BY <1>2, <1>5, <1>6, <1>7 DEF p

LEMMA TakeWholeStep ==
    ASSUME HeapInv, NEW n, Fits(n) # {}, TakeWhole(n)
    PROVE  HeapInv' /\ Gives(n)
<1> DEFINE k == FirstFit(n)
           p == pmd.mfl[k]
           r == RemoveAt(pmd.mfl, k)
<1>1. State(tab_md, pmd) /\ k \in 1 .. Len(pmd.mfl)
  <2>1. State(tab_md, pmd) /\ k \in Fits(n)
    BY FirstFitFits DEF HeapInv
  <2> QED
    BY <2>1 DEF Fits
<1>2. tab_md[p].m_length = n /\ Take(k, r) /\ tab_md' = tab_md
  BY DEF TakeWhole
<1> HIDE DEF k
<1>3. /\ Blocks(tab_md) /\ FreeList(tab_md, pmd.mfl) /\ TouchOnly(tab_md, pmd.mfl, {})
      /\ Own(tab_md) = Members(pmd.mfl) \cup Members(pmd.mal)
      /\ Members(pmd.mfl) \cap Members(pmd.mal) = {}
  BY <1>1 DEF State
<1>4. pmd.mfl \in Seq(MD) /\ k \in Nat /\ Len(pmd.mfl) \in Nat /\ k <= Len(pmd.mfl)
  BY <1>1, <1>3 DEF FreeList
<1>5. FreeList(tab_md, r) /\ TouchOnly(tab_md, r, {}) /\ Members(r) = Members(pmd.mfl) \ {p}
  BY <1>1, <1>3, FreeTaken
<1>6. /\ r \in Seq(MD) /\ Len(r) = Len(pmd.mfl) - 1
      /\ \A i \in 1 .. Len(pmd.mfl) - 1 : r[i] = pmd.mfl[IF i < k THEN i ELSE i + 1]
  BY <1>1, <1>4, Removed
<1>7. p \in Members(pmd.mfl) /\ p \in Own(tab_md)
  BY <1>1, <1>3, Listed
<1> HIDE DEF p, r
<1>8. ASSUME k > 1 PROVE k - 1 \in 1 .. Len(r) /\ r[k - 1] = pmd.mfl[k - 1]
  <2>1. k - 1 \in 1 .. Len(pmd.mfl) - 1 /\ k - 1 < k
    BY <1>4, <1>8
  <2> QED
    BY <1>6, <2>1
<1>9. /\ pmd'.mfl = r /\ pmd'.mal \in Seq(MD) /\ Injective(pmd'.mal)
      /\ Members(pmd'.mal) = Members(pmd.mal) \cup {p}
      /\ IF pmd'.mfl = <<>> THEN pmd'.rover = NULL ELSE pmd'.rover \in Members(pmd'.mfl)
      /\ result' = [call |-> "alloc", value |-> Start(tab_md, p)]
      /\ result' \in Results
  BY <1>1, <1>2, <1>6, <1>8, Takes DEF p
<1>10. State(tab_md', pmd')
  <2>1. /\ Own(tab_md) = Members(r) \cup Members(pmd'.mal)
        /\ Members(r) \cap Members(pmd'.mal) = {}
    BY <1>3, <1>5, <1>7, <1>9
  <2> QED
    BY <1>2, <1>3, <1>5, <1>9, <2>1 DEF State
<1>11. HeapInv'
  BY <1>9, <1>10 DEF HeapInv, State
<1>12. Gives(n)
  <2>1. n <= n
    <3>1. n \in Nat
      BY <1>2, <1>3, <1>7, Numbers
    <3> QED
      BY <3>1
  <2> QED
    BY <1>2, <1>7, <1>9, <2>1 DEF Gives
<1> QED
  BY <1>11, <1>12

LEMMA SplitStep ==
    ASSUME HeapInv, NEW n \in Nat \ {0}, Fits(n) # {}, Split(n)
    PROVE  HeapInv' /\ Gives(n)
<1> DEFINE f == pmd.mfl
           k == FirstFit(n)
           p == f[k]
           x == xmgetblk
           r == ReplaceAt(f, k, x)
           t == Divided(tab_md, p, n, x)
<1>1. State(tab_md, pmd) /\ k \in 1 .. Len(f)
  <2>1. State(tab_md, pmd) /\ k \in Fits(n)
    BY FirstFitFits DEF HeapInv
  <2> QED
    BY <2>1 DEF Fits
<1>2. /\ n < tab_md[p].m_length /\ x \in MD \ Own(tab_md) /\ Take(k, r) /\ tab_md' = t
  <2>1. tab_md[p].m_length > n /\ Unused # {} /\ Take(k, r) /\ tab_md' = t
    BY DEF Split, Remainder, Divided
  <2> QED
    BY <2>1, FirstUnused
<1> HIDE DEF k, x
<1>3. /\ Blocks(tab_md) /\ FreeList(tab_md, f) /\ TouchOnly(tab_md, f, {})
      /\ Own(tab_md) = Members(f) \cup Members(pmd.mal)
      /\ Members(f) \cap Members(pmd.mal) = {}
  BY <1>1 DEF State
<1> HIDE DEF f
<1>4. /\ f \in Seq(MD) /\ k \in Nat /\ Len(f) \in Nat /\ k <= Len(f)
      /\ Injective(f)
  BY <1>1, <1>3, EachOnce DEF FreeList
<1>5. p \in Members(f) /\ p \in Own(tab_md)
  BY <1>1, <1>3, Listed
<1>d. Divides(tab_md, t, p, n, x)
  BY <1>2, <1>3, <1>5, SplitBlocks
<1> HIDE DEF t
<1>6. /\ Blocks(t) /\ Own(t) = Own(tab_md) \cup {x}
      /\ \A m \in Own(tab_md) : Start(t, m) = Start(tab_md, m)
      /\ \A m \in Own(tab_md) \ {p} : t[m] = tab_md[m]
      /\ t[p].m_length = n /\ End(t, p) = Start(t, x)
      /\ Start(t, x) = Start(tab_md, p) + n /\ End(t, x) = End(tab_md, p)
  BY <1>d DEF Divides
<1>x. x \in MD \ Own(tab_md) /\ x \in MD
  BY <1>2
<1>7. FreeList(t, r) /\ TouchOnly(t, r, {}) /\ Members(r) = (Members(f) \ {p}) \cup {x}
  BY <1>1, <1>x, <1>3, <1>d, FreeSplit
<1>8. r \in Seq(MD) /\ Len(r) = Len(f) /\ \A i \in 1 .. Len(f) : i # k => r[i] = f[i]
  BY <1>1, <1>x, <1>4, ReplacedMembers
<1> HIDE DEF p, r
<1>9. ASSUME k > 1 PROVE k - 1 \in 1 .. Len(r) /\ r[k - 1] = f[k - 1]
  <2>1. k - 1 \in 1 .. Len(f) /\ k - 1 # k
    BY <1>4, <1>9
  <2> QED
    BY <1>8, <2>1
<1>10. /\ pmd'.mfl = r /\ pmd'.mal \in Seq(MD) /\ Injective(pmd'.mal)
       /\ Members(pmd'.mal) = Members(pmd.mal) \cup {p}
       /\ IF pmd'.mfl = <<>> THEN pmd'.rover = NULL ELSE pmd'.rover \in Members(pmd'.mfl)
       /\ result' = [call |-> "alloc", value |-> Start(tab_md, p)]
       /\ result' \in Results
  BY <1>1, <1>2, <1>8, <1>9, Takes DEF p, f
<1>11. State(tab_md', pmd')
  <2>1. /\ Own(t) = Members(r) \cup Members(pmd'.mal)
        /\ Members(r) \cap Members(pmd'.mal) = {}
    BY <1>2, <1>3, <1>5, <1>6, <1>7, <1>10
  <2> QED
    BY <1>2, <1>6, <1>7, <1>10, <2>1 DEF State
<1>12. HeapInv'
  BY <1>10, <1>11 DEF HeapInv, State
<1>13. Gives(n)
  <2>1. n <= tab_md[p].m_length
    <3>1. tab_md[p].m_length \in Nat
      BY <1>3, <1>5, Numbers
    <3> QED
      BY <1>2, <3>1
  <2>2. \A m \in Members(pmd.mal) : t[m] = tab_md[m]
    BY <1>3, <1>5, <1>6
  <2> QED
    BY <1>2, <1>5, <1>6, <1>10, <2>1, <2>2 DEF Gives, f
<1> QED
  BY <1>12, <1>13

(* What driver_mem_alloc does: gives a block, or fails for want of a block *)
(* that is long enough or of a descriptor.                                 *)
Stays == tab_md' = tab_md /\ pmd' = pmd

LEMMA AllocStep ==
    ASSUME HeapInv, NEW n \in Nat \ {0},
           IF Fits(n) = {} THEN Returns("alloc", NULL) /\ UNCHANGED <<tab_md, pmd>>
           ELSE TakeWhole(n) \/ Split(n) \/ NoDescriptor(n)
    PROVE  /\ HeapInv'
           /\ \/ Gives(n)
              \/ /\ Fits(n) = {} \/ Own(tab_md) = MD
                 /\ result' = [call |-> "alloc", value |-> NULL] /\ Stays
<1>1. ASSUME Stays, result' = [call |-> "alloc", value |-> NULL] PROVE HeapInv'
  <2>1. result' \in Results
    BY <1>1 DEF Results
  <2>2. State(tab_md', pmd')
    BY <1>1 DEF HeapInv, Stays
  <2> QED
    BY <2>1, <2>2 DEF HeapInv, State
<1>2. CASE Fits(n) = {}
  BY <1>1, <1>2 DEF Returns, Stays
<1>3. CASE Fits(n) # {} /\ TakeWhole(n)
  BY <1>3, TakeWholeStep
<1>4. CASE Fits(n) # {} /\ Split(n)
  BY <1>4, SplitStep
<1>5. CASE Fits(n) # {} /\ NoDescriptor(n)
  <2>1. Own(tab_md) = MD
    BY <1>5 DEF NoDescriptor, Unused, Own
  <2> QED
    BY <1>1, <1>5, <2>1 DEF NoDescriptor, Returns, Stays
<1> QED
  BY <1>2, <1>3, <1>4, <1>5

-----------------------------------------------------------------------------
LEMMA PlaceFound ==
    ASSUME NEW tab, Blocks(tab), NEW mfl, FreeList(tab, mfl), NEW m \in Own(tab)
    PROVE  \E i \in 1 .. Len(mfl) + 1 : PlaceOf(tab, mfl, m, i)
<1> DEFINE S == {i \in 1 .. Len(mfl) + 1 : i <= Len(mfl) => Start(tab, m) <= Start(tab, mfl[i])}
<1>1. Len(mfl) \in Nat /\ S \in SUBSET Nat /\ Len(mfl) + 1 \in S
  <2>1. Len(mfl) \in Nat
    BY DEF FreeList
  <2> QED
    BY <2>1
<1>2. PICK i \in S : \A j \in S : i <= j
  BY <1>1, LeastIn
<1>3. ASSUME NEW j \in 1 .. i - 1 PROVE Start(tab, m) > Start(tab, mfl[j])
  <2>1. j \in 1 .. Len(mfl) /\ ~(i <= j) /\ j \in 1 .. Len(mfl) + 1
    BY <1>1
  <2>2. ~(Start(tab, m) <= Start(tab, mfl[j]))
    BY <1>2, <2>1
  <2>3. Start(tab, m) \in Nat /\ Start(tab, mfl[j]) \in Nat
    BY <2>1, Numbers, Listed
  <2> QED
    BY <2>2, <2>3
<1>4. i \in 1 .. Len(mfl) + 1 /\ (i <= Len(mfl) => Start(tab, m) <= Start(tab, mfl[i]))
  OBVIOUS
<1>5. PlaceOf(tab, mfl, m, i)
  BY <1>3, <1>4 DEF PlaceOf, Start
<1> QED
  BY <1>4, <1>5

(* freeit puts the block of m, so far allocated, on the free list, joined  *)
(* with what it touches, and leaves the other allocated blocks alone.      *)
LEMMA FreeitWorks ==
    ASSUME State(tab_md, pmd), NEW m \in Members(pmd.mal)
    PROVE  /\ Working(freeit(m), Members(pmd.mal) \ {m}, {})
           /\ \A q \in Members(pmd.mal) \ {m} : freeit(m).tab[q] = tab_md[q]
<1> DEFINE f == pmd.mfl
           A == Members(pmd.mal) \ {m}
           k == CHOOSE i \in 1 .. Len(f) + 1 : PlaceOf(tab_md, f, m, i)
           r == InsertAt(f, k, m)
           rover == IF pmd.rover = NULL THEN m ELSE pmd.rover
           h == [tab |-> tab_md, mfl |-> r, rover |-> rover]
           g == JoinTouching(h, k)
<1>1. freeit(m) = JoinTouching(g, k - 1)
  BY DEF freeit, PlaceOf
<1>2. /\ Blocks(tab_md) /\ FreeList(tab_md, f) /\ TouchOnly(tab_md, f, {})
      /\ Own(tab_md) = Members(f) \cup Members(pmd.mal) /\ Members(f) \cap Members(pmd.mal) = {}
      /\ IF f = <<>> THEN pmd.rover = NULL ELSE pmd.rover \in Members(f)
      /\ m \in Own(tab_md) \ Members(f)
  BY DEF State
<1> HIDE DEF f
<1>3. k \in 1 .. Len(f) + 1 /\ PlaceOf(tab_md, f, m, k)
  <2>1. \E i \in 1 .. Len(f) + 1 : PlaceOf(tab_md, f, m, i)
    BY <1>2, PlaceFound
  <2> QED
    BY <2>1, Zenon
<1> HIDE DEF k
<1>4. FreeList(tab_md, r) /\ TouchOnly(tab_md, r, {k, k - 1}) /\ Members(r) = Members(f) \cup {m}
  <2>1. /\ Blocks(tab_md) /\ FreeList(tab_md, f) /\ TouchOnly(tab_md, f, {})
        /\ m \in Own(tab_md) \ Members(f)
    BY <1>2
  <2>2. Gains(tab_md, r, f, k, m)
    BY <2>1, <1>3, FreeInserted
  <2> HIDE DEF r
  <2> QED
    BY <2>2 DEF Gains
<1> HIDE DEF r
<1>5. rover \in Members(r)
  <2>1. CASE f = <<>>
    BY <1>2, <1>4, <2>1
  <2>2. CASE f # <<>>
    <3>1. pmd.rover \in Members(f)
      BY <1>2, <2>2
    <3> QED
      BY <1>4, <3>1
  <2> QED
    BY <2>1, <2>2
<1> HIDE DEF rover
<1>6. h.tab = tab_md /\ h.mfl = r /\ h.rover = rover
  OBVIOUS
<1> HIDE DEF h
<1>7. Working(h, A, {k, k - 1})
  <2>1. Own(tab_md) = Members(r) \cup A /\ Members(r) \cap A = {}
    BY <1>2, <1>4
  <2> HIDE DEF A
  <2> QED
    BY <1>2, <1>4, <1>5, <1>6, <2>1 DEF Working
<1>8. k \in Int /\ k - 1 \in Int /\ UpTo({k, k - 1}, k) /\ {k, k - 1} \ {k} = {k - 1}
      /\ UpTo({k - 1}, k - 1)
  BY <1>3 DEF UpTo
<1> HIDE DEF A
<1>9. Working(g, A, {k - 1}) /\ Same(h, g, A)
  <2>1. {k, k - 1} \in SUBSET Int /\ {k - 1} = {k, k - 1} \ {k}
    BY <1>8
  <2> QED
    BY <1>7, <1>8, <2>1, Joined
<1> HIDE DEF g
<1>10. Working(JoinTouching(g, k - 1), A, {}) /\ Same(g, JoinTouching(g, k - 1), A)
  <2>1. {k - 1} \in SUBSET Int /\ {} = {k - 1} \ {k - 1}
    BY <1>8
  <2> QED
    BY <1>8, <1>9, <2>1, Joined
<1> QED
  BY <1>1, <1>6, <1>9, <1>10 DEF A, Same

(* The block at addr is taken back. *)
TakenBack(addr) ==
    \E m \in Members(pmd.mal) :
        /\ Start(tab_md, m) = addr
        /\ Members(pmd'.mal) = Members(pmd.mal) \ {m}
        /\ \A q \in Members(pmd.mal) \ {m} : tab_md'[q] = tab_md[q]
        /\ result' = [call |-> "free", value |-> 0]

LEMMA FreeStep ==
    ASSUME HeapInv, NEW addr, driver_mem_free(addr)
    PROVE  /\ HeapInv'
           /\ \/ TakenBack(addr)
              \/ /\ \A m \in Members(pmd.mal) : Start(tab_md, m) # addr
                 /\ result' = [call |-> "free", value |-> NULL] /\ Stays
<1>0. State(tab_md, pmd)
  BY DEF HeapInv
<1>1. ASSUME NEW i \in 1 .. Len(pmd.mal), Freed(addr, i),
             tab_md' = freeit(pmd.mal[i]).tab,
             pmd' = [mfl |-> freeit(pmd.mal[i]).mfl, mal |-> RemoveAt(pmd.mal, i),
                     rover |-> freeit(pmd.mal[i]).rover],
             Returns("free", 0)
      PROVE  HeapInv' /\ TakenBack(addr)
  <2> DEFINE m == pmd.mal[i]
             h == freeit(m)
             A == Members(pmd.mal) \ {m}
  <2>1. m \in Members(pmd.mal) /\ Start(tab_md, m) = addr
    BY <1>1 DEF Members, Freed, Start
  <2>2. Working(h, A, {}) /\ \A q \in A : h.tab[q] = tab_md[q]
    BY <1>0, <2>1, FreeitWorks
  <2>3. /\ RemoveAt(pmd.mal, i) \in Seq(MD) /\ Injective(RemoveAt(pmd.mal, i))
        /\ Members(RemoveAt(pmd.mal, i)) = A
    BY <1>0, Removed, RemovedMembers DEF State
  <2>4. /\ tab_md' = h.tab /\ pmd'.mfl = h.mfl /\ pmd'.mal = RemoveAt(pmd.mal, i)
        /\ pmd'.rover = h.rover
    BY <1>1
  <2>5. result' = [call |-> "free", value |-> 0] /\ result' \in Results
    BY <1>1, DriverMemAssumption DEF Returns, Results
  <2> HIDE DEF h
  <2>6. /\ Blocks(tab_md') /\ FreeList(tab_md', pmd'.mfl) /\ TouchOnly(tab_md', pmd'.mfl, {})
        /\ pmd'.rover \in Members(pmd'.mfl)
        /\ Own(tab_md') = Members(pmd'.mfl) \cup A /\ Members(pmd'.mfl) \cap A = {}
    BY <2>2, <2>4 DEF Working
  <2>7. pmd'.mfl # <<>>
    <3>1. Members(<<>>) = {}
      BY DEF Members
    <3> QED
      BY <2>6, <3>1
  <2>8. State(tab_md', pmd')
    BY <2>3, <2>4, <2>6, <2>7 DEF State
  <2>9. HeapInv'
    BY <2>5, <2>8 DEF HeapInv, State
  <2>10. TakenBack(addr)
    BY <2>1, <2>2, <2>3, <2>4, <2>5 DEF TakenBack
  <2> QED
    BY <2>9, <2>10
<1>2. ASSUME \A i \in 1 .. Len(pmd.mal) : tab_md[pmd.mal[i]].m_start # addr,
             Returns("free", NULL), Stays
      PROVE  /\ HeapInv'
             /\ \A m \in Members(pmd.mal) : Start(tab_md, m) # addr
             /\ result' = [call |-> "free", value |-> NULL]
  <2>1. result' = [call |-> "free", value |-> NULL] /\ result' \in Results
    BY <1>2 DEF Returns, Results
  <2>2. State(tab_md', pmd')
    BY <1>0, <1>2 DEF Stays
  <2>3. \A m \in Members(pmd.mal) : Start(tab_md, m) # addr
    BY <1>2 DEF Members, Start
  <2> QED
    BY <2>1, <2>2, <2>3 DEF HeapInv, State
<1> QED
  BY <1>1, <1>2 DEF driver_mem_free, Stays

-----------------------------------------------------------------------------
(* The answer to "how much?" is what a free block has, or nothing.         *)
Answers ==
    \E v \in Nat :
        /\ v = 0 \/ \E m \in Members(pmd.mfl) : v <= tab_md[m].m_length
        /\ result' = [call |-> "query", value |-> v] /\ Stays

LEMMA LongestFree ==
    ASSUME State(tab_md, pmd)
    PROVE  /\ Longest \in 0 .. DRIVER_MEM_BUFFER_SIZE
           /\ Longest = 0 \/ \E m \in Members(pmd.mfl) : Longest = tab_md[m].m_length
<1> DEFINE size == DRIVER_MEM_BUFFER_SIZE
           L == {0} \cup {tab_md[pmd.mfl[k]].m_length : k \in 1 .. Len(pmd.mfl)}
           rest == {size - l : l \in L}
<1>1. size \in Nat
  BY DriverMemAssumption
<1>2. \A l \in L : l \in 0 .. size /\ (l = 0 \/ \E m \in Members(pmd.mfl) : l = tab_md[m].m_length)
  <2> SUFFICES ASSUME NEW k \in 1 .. Len(pmd.mfl)
               PROVE  /\ tab_md[pmd.mfl[k]].m_length \in 0 .. size
                      /\ \E m \in Members(pmd.mfl) : tab_md[pmd.mfl[k]].m_length = tab_md[m].m_length
    BY <1>1
  <2>1. pmd.mfl[k] \in Members(pmd.mfl) /\ pmd.mfl[k] \in MD
    BY Listed DEF State
  <2>2. tab_md \in Table
    BY DEF State, Blocks
  <2> QED
    BY <2>1, <2>2 DEF Table
<1>3. 0 \in L /\ Longest = CHOOSE x \in L : \A y \in L : x >= y
  BY DEF Longest, Max
<1> HIDE DEF L
<1>4. rest \in SUBSET Nat /\ size - 0 \in rest
  BY <1>1, <1>2, <1>3
<1>5. PICK r \in rest : \A q \in rest : r <= q
  BY <1>4, LeastIn
<1>6. \E x \in L : \A y \in L : x >= y
  <2>1. PICK x \in L : r = size - x
    OBVIOUS
  <2>2. ASSUME NEW y \in L PROVE x >= y
    <3>1. size - x <= size - y
      BY <1>5, <2>1
    <3>2. x \in Int /\ y \in Int
      BY <1>2
    <3> QED
      BY <1>1, <3>1, <3>2
  <2> QED
    BY <2>2
<1>7. Longest \in L
  BY <1>3, <1>6, Zenon
<1> QED
  BY <1>2, <1>7

LEMMA QueryStep ==
    ASSUME HeapInv, driver_mem_query
    PROVE  HeapInv' /\ Answers
<1> DEFINE size == DRIVER_MEM_BUFFER_SIZE
           v == IF Longest < 15 THEN 0 ELSE ((Longest - 15) \div 16) * 16
<1>0. State(tab_md, pmd) /\ size \in Nat
  BY DriverMemAssumption DEF HeapInv
<1>1. Longest \in 0 .. size /\ (Longest = 0 \/ \E m \in Members(pmd.mfl) : Longest = tab_md[m].m_length)
  BY <1>0, LongestFree
<1>2. v \in Nat /\ v <= Longest
  BY <1>0, <1>1
<1>3. result' = [call |-> "query", value |-> v] /\ Stays
  BY DEF driver_mem_query, Returns, Stays
<1> HIDE DEF v
<1>4. Answers
  <2>1. CASE Longest = 0
    <3>1. v = 0
      BY <1>2, <2>1
    <3> QED
      BY <1>2, <1>3, <3>1 DEF Answers
  <2>2. ASSUME NEW m \in Members(pmd.mfl), Longest = tab_md[m].m_length PROVE Answers
    BY <1>2, <1>3, <2>2 DEF Answers
  <2> QED
    BY <1>1, <2>1, <2>2
<1>5. result' \in Results
  <2>1. v \in 0 .. size
    BY <1>0, <1>1, <1>2
  <2> QED
    BY <1>3, <2>1 DEF Results
<1>6. State(tab_md', pmd')
  BY <1>0, <1>3 DEF Stays
<1> QED
  BY <1>4, <1>5, <1>6 DEF HeapInv, State

-----------------------------------------------------------------------------
(* What a step does, for every call the users make. *)
LEMMA NextStep ==
    ASSUME HeapInv, Next
    PROVE  /\ HeapInv'
           /\ \/ \E n \in Amounts :
                    \/ Gives(Rounded(n))
                    \/ /\ Fits(Rounded(n)) = {} \/ Own(tab_md) = MD
                       /\ result' = [call |-> "alloc", value |-> NULL] /\ Stays
              \/ Answers
              \/ \E addr \in Address :
                    \/ TakenBack(addr)
                    \/ /\ \A m \in Members(pmd.mal) : Start(tab_md, m) # addr
                       /\ result' = [call |-> "free", value |-> NULL] /\ Stays
<1>1. ASSUME NEW n \in Amounts, driver_mem_alloc(n)
      PROVE  /\ HeapInv'
             /\ \/ Gives(Rounded(n))
                \/ /\ Fits(Rounded(n)) = {} \/ Own(tab_md) = MD
                   /\ result' = [call |-> "alloc", value |-> NULL] /\ Stays
  <2> DEFINE a == Rounded(n)
  <2>1. IF Fits(a) = {} THEN Returns("alloc", NULL) /\ UNCHANGED <<tab_md, pmd>>
        ELSE TakeWhole(a) \/ Split(a) \/ NoDescriptor(a)
    BY <1>1 DEF driver_mem_alloc
  <2>2. a \in Nat \ {0}
    BY AmountPositive
  <2> HIDE DEF a
  <2>3. /\ HeapInv'
        /\ \/ Gives(a)
           \/ /\ Fits(a) = {} \/ Own(tab_md) = MD
              /\ result' = [call |-> "alloc", value |-> NULL] /\ Stays
    BY <2>1, <2>2, AllocStep
  <2> QED
    BY <2>3 DEF a
<1>2. ASSUME driver_mem_query PROVE HeapInv' /\ Answers
  BY <1>2, QueryStep
<1>3. ASSUME NEW addr \in Address, driver_mem_free(addr)
      PROVE  /\ HeapInv'
             /\ \/ TakenBack(addr)
                \/ /\ \A m \in Members(pmd.mal) : Start(tab_md, m) # addr
                   /\ result' = [call |-> "free", value |-> NULL] /\ Stays
  BY <1>3, FreeStep
<1> QED
  BY <1>1, <1>2, <1>3 DEF Next

(* HeapInv is inductive: allocating, in one piece or by splitting, and     *)
(* freeing, with up to two joins, keep the table and the lists in step.    *)
THEOREM Invariance == Spec => []HeapInv
<1>1. Init => HeapInv
  BY InitInv
<1>2. HeapInv /\ [Next]_vars => HeapInv'
  <2> SUFFICES ASSUME HeapInv, [Next]_vars PROVE HeapInv'
    OBVIOUS
  <2>1. CASE Next
    BY <2>1, NextStep
  <2>2. CASE UNCHANGED vars
    BY <2>2 DEF vars, HeapInv, State
  <2> QED
    BY <2>1, <2>2
<1> QED
  BY <1>1, <1>2, PTL DEF Spec

(***************************************************************************)
(* The lists are consistent.                                               *)
(***************************************************************************)
LEMMA Concatenated ==
    ASSUME NEW S, NEW s \in Seq(S), NEW t \in Seq(S)
    PROVE  /\ Members(s \o t) = Members(s) \cup Members(t)
           /\ Injective(s) /\ Injective(t) /\ Members(s) \cap Members(t) = {} => Injective(s \o t)
<1> DEFINE r == s \o t
<1>1. r \in Seq(S) /\ Len(r) = Len(s) + Len(t) /\ Len(s) \in Nat /\ Len(t) \in Nat
  OBVIOUS
<1>2. /\ \A i \in 1 .. Len(s) : r[i] = s[i]
      /\ \A i \in 1 .. Len(t) : r[Len(s) + i] = t[i]
  OBVIOUS
<1> HIDE DEF r
<1>3. ASSUME NEW i \in 1 .. Len(r) PROVE i \in 1 .. Len(s) \/ \E j \in 1 .. Len(t) : i = Len(s) + j
  <2>1. CASE i <= Len(s)
    BY <1>1, <2>1
  <2>2. CASE i > Len(s)
    <3>1. i - Len(s) \in 1 .. Len(t) /\ i = Len(s) + (i - Len(s))
      BY <1>1, <2>2
    <3> QED
      BY <3>1
  <2> QED
    BY <1>1, <2>1, <2>2
<1>4. /\ \A i \in 1 .. Len(s) : i \in 1 .. Len(r)
      /\ \A j \in 1 .. Len(t) : Len(s) + j \in 1 .. Len(r)
  BY <1>1
<1>5. Members(r) = Members(s) \cup Members(t)
  <2>1. \A i \in 1 .. Len(r) : r[i] \in Members(s) \cup Members(t)
    BY <1>2, <1>3 DEF Members
  <2>2. /\ \A i \in 1 .. Len(s) : s[i] \in Members(r)
        /\ \A i \in 1 .. Len(t) : t[i] \in Members(r)
    BY <1>2, <1>4 DEF Members
  <2> QED
    BY <2>1, <2>2 DEF Members
<1>6. ASSUME Injective(s), Injective(t), Members(s) \cap Members(t) = {} PROVE Injective(r)
  <2> SUFFICES ASSUME NEW i \in 1 .. Len(r), NEW j \in 1 .. Len(r), r[i] = r[j] PROVE i = j
    BY DEF Injective
  <2>0. \A k \in 1 .. Len(s), l \in 1 .. Len(t) : s[k] # t[l]
    BY <1>6 DEF Members
  <2>1. CASE i \in 1 .. Len(s) /\ j \in 1 .. Len(s)
    BY <1>2, <1>6, <2>1 DEF Injective
  <2>2. ASSUME NEW k \in 1 .. Len(t), NEW l \in 1 .. Len(t), i = Len(s) + k, j = Len(s) + l
        PROVE  i = j
    <3>1. t[k] = t[l]
      BY <1>2, <2>2
    <3> QED
      BY <1>6, <2>2, <3>1 DEF Injective
  <2>3. ASSUME i \in 1 .. Len(s), NEW l \in 1 .. Len(t), j = Len(s) + l PROVE FALSE
    <3>1. r[i] = s[i] /\ r[j] = t[l]
      BY <1>2, <2>3
    <3> QED
      BY <2>0, <2>3, <3>1
  <2>4. ASSUME j \in 1 .. Len(s), NEW l \in 1 .. Len(t), i = Len(s) + l PROVE FALSE
    <3>1. r[j] = s[j] /\ r[i] = t[l]
      BY <1>2, <2>4
    <3> QED
      BY <2>0, <2>4, <3>1
  <2> QED
    BY <1>3, <2>1, <2>2, <2>3, <2>4
<1> QED
  BY <1>5, <1>6 DEF r

LEMMA OnTheLists ==
    ASSUME State(tab_md, pmd)
    PROVE  Members(Lists) = Own(tab_md) /\ Injective(Lists)
<1> DEFINE f == pmd.mfl
           a == pmd.mal
<1>1. /\ f \in Seq(MD) /\ a \in Seq(MD) /\ Injective(f) /\ Injective(a)
      /\ Own(tab_md) = Members(f) \cup Members(a) /\ Members(f) \cap Members(a) = {}
  BY EachOnce DEF State, FreeList
<1> HIDE DEF f, a
<1>2. Members(f \o a) = Own(tab_md) /\ Injective(f \o a)
  BY <1>1, Concatenated
<1> QED
  BY <1>2 DEF Lists, f, a

LEMMA InvConsistent == HeapInv => ListsConsistent
<1> SUFFICES ASSUME HeapInv PROVE ListsConsistent
  OBVIOUS
<1>1. /\ State(tab_md, pmd) /\ Blocks(tab_md)
      /\ FreeList(tab_md, pmd.mfl) /\ TouchOnly(tab_md, pmd.mfl, {})
      /\ IF pmd.mfl = <<>> THEN pmd.rover = NULL ELSE pmd.rover \in Members(pmd.mfl)
  BY DEF HeapInv, State
<1>2. Members(Lists) = Own(tab_md) /\ Injective(Lists)
  BY <1>1, OnTheLists
<1>3. TypeOK
  <2>1. tab_md \in Table /\ pmd.mfl \in Seq(MD) /\ pmd.mal \in Seq(MD) /\ result \in Results
    BY <1>1 DEF HeapInv, State, Blocks, FreeList
  <2>2. Members(pmd.mfl) \subseteq MD
    BY <1>1 DEF FreeList, Own
  <2>3. pmd.rover \in MD \cup {NULL}
    BY <1>1, <2>2
  <2>4. tab_md \in [MD -> [m_start : Address, m_length : 0 .. DRIVER_MEM_BUFFER_SIZE,
                           m_own : BOOLEAN]]
    BY <2>1 DEF Table
  <2>5. result \in [call : {"none", "alloc", "query", "free"},
                    value : 0 .. DRIVER_MEM_BUFFER_SIZE \cup {NULL}]
    BY <2>1 DEF Results
  <2> QED
    BY <2>1, <2>3, <2>4, <2>5 DEF TypeOK
<1>4. Partition
  <2> SUFFICES ASSUME NEW a \in Address
               PROVE  /\ \E i \in 1 .. Len(Lists) : Covers(Lists[i], a)
                      /\ \A i, j \in 1 .. Len(Lists) :
                            Covers(Lists[i], a) /\ Covers(Lists[j], a) => i = j
    BY DEF Partition
  <2>1. \A m : Covers(m, a) <=> Holds(tab_md, m, a)
    BY DEF Covers, Holds, Start, End
  <2>2. PICK m \in Own(tab_md) : Holds(tab_md, m, a)
    BY <1>1 DEF Blocks
  <2>3. \E i \in 1 .. Len(Lists) : Covers(Lists[i], a)
    BY <1>2, <2>1, <2>2 DEF Members
  <2>4. ASSUME NEW i \in 1 .. Len(Lists), NEW j \in 1 .. Len(Lists),
               Covers(Lists[i], a), Covers(Lists[j], a)
        PROVE  i = j
    <3>1. Lists[i] \in Own(tab_md) /\ Lists[j] \in Own(tab_md)
      BY <1>2 DEF Members
    <3>2. Holds(tab_md, Lists[i], a) /\ Holds(tab_md, Lists[j], a)
      BY <2>1, <2>4
    <3>3. /\ Start(tab_md, Lists[i]) \in Nat /\ End(tab_md, Lists[i]) \in Nat
          /\ Start(tab_md, Lists[j]) \in Nat /\ End(tab_md, Lists[j]) \in Nat
          /\ a \in Int
      BY <1>1, <3>1, Numbers, DriverMemAssumption DEF Address
    <3>4. ~Apart(tab_md, Lists[i], Lists[j])
      BY <3>2, <3>3 DEF Apart, Holds
    <3>5. Lists[i] = Lists[j]
      BY <1>1, <3>1, <3>4 DEF Blocks
    <3> QED
      BY <1>2, <3>5 DEF Injective
  <2> QED
    BY <2>3, <2>4
<1>5. SortedAndJoined
  <2> SUFFICES ASSUME NEW k \in 1 .. Len(pmd.mfl) - 1
               PROVE  End(tab_md, pmd.mfl[k]) < Start(tab_md, pmd.mfl[k + 1])
    BY DEF SortedAndJoined, Start, End
  <2>1. k \in 1 .. Len(pmd.mfl) /\ k + 1 \in 1 .. Len(pmd.mfl) /\ k < k + 1
    BY <1>1 DEF FreeList
  <2> QED
    BY <1>1, <2>1, InOrder
<1>6. DescriptorsAccounted
  BY <1>2 DEF DescriptorsAccounted, Own, Members
<1>7. RoverOnFreeList
  BY <1>1 DEF RoverOnFreeList, Members
<1> QED
  BY <1>3, <1>4, <1>5, <1>6, <1>7 DEF ListsConsistent

(* Every operation of driver_mem.c leaves the two lists as it found them:  *)
(* every byte of the buffer in one block, the free blocks in order and     *)
(* joined, the descriptors in use those on the lists, and the rover on the *)
(* free list.                                                              *)
THEOREM Consistent == Spec => []ListsConsistent
<1>1. HeapInv => ListsConsistent
  BY InvConsistent
<1> QED
  BY <1>1, Invariance, PTL

(***************************************************************************)
(* The refinement of Heap: the allocated blocks, and the gaps between      *)
(* them, which are the blocks of the free list.                            *)
(***************************************************************************)
InUse(tab, A) == {[start |-> tab[m].m_start, length |-> tab[m].m_length] : m \in A}

(* The descriptors F are free, A allocated, and free blocks do not touch. *)
Divide(tab, F, A) ==
    /\ Blocks(tab) /\ Own(tab) = F \cup A /\ F \cap A = {}
    /\ \A m, n \in F : End(tab, m) # Start(tab, n)

(* Heap's Free and Gaps, of these allocated blocks. *)
Clear(tab, A, s, e) ==
    /\ e <= DRIVER_MEM_BUFFER_SIZE
    /\ \A m \in A : ~(Start(tab, m) < e /\ s < End(tab, m))
GapsOf(tab, A) ==
    {g \in ({0} \cup {End(tab, m) : m \in A})
             \X ({DRIVER_MEM_BUFFER_SIZE} \cup {Start(tab, m) : m \in A}) :
        g[1] < g[2] /\ Clear(tab, A, g[1], g[2])}

LEMMA StateDivides ==
    ASSUME State(tab_md, pmd)
    PROVE  Divide(tab_md, Members(pmd.mfl), Members(pmd.mal))
<1>1. /\ Blocks(tab_md) /\ FreeList(tab_md, pmd.mfl) /\ TouchOnly(tab_md, pmd.mfl, {})
      /\ Own(tab_md) = Members(pmd.mfl) \cup Members(pmd.mal)
      /\ Members(pmd.mfl) \cap Members(pmd.mal) = {}
  BY DEF State
<1> DEFINE f == pmd.mfl
<1>2. FreeList(tab_md, f) /\ TouchOnly(tab_md, f, {})
  BY <1>1
<1> HIDE DEF f
<1>3. ASSUME NEW i \in 1 .. Len(f), NEW j \in 1 .. Len(f)
      PROVE  End(tab_md, f[i]) # Start(tab_md, f[j])
  <2>1. /\ i \in Nat /\ j \in Nat
        /\ Start(tab_md, f[i]) \in Nat /\ End(tab_md, f[i]) \in Nat
        /\ Start(tab_md, f[i]) < End(tab_md, f[i])
        /\ Start(tab_md, f[j]) \in Nat /\ End(tab_md, f[j]) \in Nat
        /\ Start(tab_md, f[j]) < End(tab_md, f[j])
    BY <1>1, <1>2, Listed
  <2>2. CASE i = j
    BY <2>1, <2>2
  <2>3. CASE i < j
    <3>1. End(tab_md, f[i]) < Start(tab_md, f[j])
      BY <1>1, <1>2, <2>3, InOrder
    <3> QED
      BY <2>1, <3>1
  <2>4. CASE j < i
    <3>1. End(tab_md, f[j]) < Start(tab_md, f[i])
      BY <1>1, <1>2, <2>4, InOrder
    <3> QED
      BY <2>1, <3>1
  <2> QED
    BY <2>1, <2>2, <2>3, <2>4
<1>4. \A m, n \in Members(f) : End(tab_md, m) # Start(tab_md, n)
  BY <1>3 DEF Members
<1> QED
  BY <1>1, <1>4 DEF Divide, f

(* Where a block starts, another ends, unless it is the first one.         *)
LEMMA BeforeBlock ==
    ASSUME NEW tab, Blocks(tab), NEW m \in Own(tab), Start(tab, m) # 0
    PROVE  \E n \in Own(tab) : End(tab, n) = Start(tab, m)
<1>1. /\ Start(tab, m) \in Nat /\ End(tab, m) \in Nat /\ DRIVER_MEM_BUFFER_SIZE \in Nat
      /\ Start(tab, m) < End(tab, m) /\ End(tab, m) <= DRIVER_MEM_BUFFER_SIZE
  BY Numbers
<1>2. Start(tab, m) - 1 \in Address
  BY <1>1 DEF Address
<1>3. PICK n \in Own(tab) : Holds(tab, n, Start(tab, m) - 1)
  BY <1>2 DEF Blocks
<1>4. Start(tab, n) \in Nat /\ End(tab, n) \in Nat
  BY Numbers
<1>5. Start(tab, n) <= Start(tab, m) - 1 /\ Start(tab, m) - 1 < End(tab, n)
  BY <1>3 DEF Holds
<1>6. n # m
  BY <1>1, <1>4, <1>5
<1>7. End(tab, n) <= Start(tab, m) \/ End(tab, m) <= Start(tab, n)
  BY <1>6 DEF Blocks, Apart
<1>8. End(tab, n) = Start(tab, m)
  BY <1>1, <1>4, <1>5, <1>7
<1> QED
  BY <1>8

(* Where a block ends, another starts, unless it is the last one.          *)
LEMMA BehindBlock ==
    ASSUME NEW tab, Blocks(tab), NEW m \in Own(tab), End(tab, m) # DRIVER_MEM_BUFFER_SIZE
    PROVE  \E n \in Own(tab) : Start(tab, n) = End(tab, m)
<1>1. /\ Start(tab, m) \in Nat /\ End(tab, m) \in Nat /\ DRIVER_MEM_BUFFER_SIZE \in Nat
      /\ Start(tab, m) < End(tab, m) /\ End(tab, m) <= DRIVER_MEM_BUFFER_SIZE
  BY Numbers
<1>2. End(tab, m) \in Address
  BY <1>1 DEF Address
<1>3. PICK n \in Own(tab) : Holds(tab, n, End(tab, m))
  BY <1>2 DEF Blocks
<1>4. Start(tab, n) \in Nat /\ End(tab, n) \in Nat
  BY Numbers
<1>5. Start(tab, n) <= End(tab, m) /\ End(tab, m) < End(tab, n)
  BY <1>3 DEF Holds
<1>6. n # m
  BY <1>1, <1>4, <1>5
<1>7. End(tab, n) <= Start(tab, m) \/ End(tab, m) <= Start(tab, n)
  BY <1>6 DEF Blocks, Apart
<1>8. Start(tab, n) = End(tab, m)
  BY <1>1, <1>4, <1>5, <1>7
<1> QED
  BY <1>8

(* Nothing allocated meets any part of a free block.                       *)
LEMMA FreeIsClear ==
    ASSUME NEW tab, NEW F, NEW A, Divide(tab, F, A), NEW m \in F,
           NEW e \in Int, e <= End(tab, m)
    PROVE  Clear(tab, A, Start(tab, m), e)
<1>1. Blocks(tab) /\ m \in Own(tab) /\ m \notin A /\ A \subseteq Own(tab)
  BY DEF Divide
<1>2. /\ Start(tab, m) \in Nat /\ End(tab, m) \in Nat /\ DRIVER_MEM_BUFFER_SIZE \in Nat
      /\ End(tab, m) <= DRIVER_MEM_BUFFER_SIZE
  BY <1>1, Numbers
<1>3. ASSUME NEW n \in A PROVE ~(Start(tab, n) < e /\ Start(tab, m) < End(tab, n))
  <2>1. Start(tab, n) \in Nat /\ End(tab, n) \in Nat
    BY <1>1, Numbers
  <2>2. End(tab, n) <= Start(tab, m) \/ End(tab, m) <= Start(tab, n)
    BY <1>1 DEF Blocks, Apart
  <2> QED
    BY <1>2, <2>1, <2>2
<1>4. e <= DRIVER_MEM_BUFFER_SIZE
  BY <1>2
<1> QED
  BY <1>3, <1>4 DEF Clear

LEMMA FreeIsGap ==
    ASSUME NEW tab, NEW F, NEW A, Divide(tab, F, A), NEW m \in F
    PROVE  <<Start(tab, m), End(tab, m)>> \in GapsOf(tab, A)
<1>1. Blocks(tab) /\ m \in Own(tab) /\ Own(tab) = F \cup A
      /\ \A n, k \in F : End(tab, n) # Start(tab, k)
  BY DEF Divide
<1>2. Start(tab, m) \in Nat /\ End(tab, m) \in Nat /\ Start(tab, m) < End(tab, m)
      /\ End(tab, m) <= End(tab, m)
  BY <1>1, Numbers
<1>3. Clear(tab, A, Start(tab, m), End(tab, m))
  BY <1>2, FreeIsClear
<1>4. Start(tab, m) \in {0} \cup {End(tab, n) : n \in A}
  BY <1>1, BeforeBlock
<1>5. End(tab, m) \in {DRIVER_MEM_BUFFER_SIZE} \cup {Start(tab, n) : n \in A}
  BY <1>1, BehindBlock
<1> QED
  BY <1>2, <1>3, <1>4, <1>5 DEF GapsOf

LEMMA GapIsFree ==
    ASSUME NEW tab, NEW F, NEW A, Divide(tab, F, A), NEW g \in GapsOf(tab, A)
    PROVE  \E m \in F : g = <<Start(tab, m), End(tab, m)>>
<1> DEFINE size == DRIVER_MEM_BUFFER_SIZE
<1>0. /\ Blocks(tab) /\ Own(tab) = F \cup A /\ F \cap A = {}
      /\ \A m, n \in F : End(tab, m) # Start(tab, n)
  BY DEF Divide
<1>1. /\ g = <<g[1], g[2]>> /\ g[1] < g[2] /\ Clear(tab, A, g[1], g[2])
      /\ g[1] = 0 \/ \E n \in A : g[1] = End(tab, n)
      /\ g[2] = size \/ \E n \in A : g[2] = Start(tab, n)
  BY DEF GapsOf
<1>2. \A n \in A : ~(Start(tab, n) < g[2] /\ g[1] < End(tab, n))
  BY <1>1 DEF Clear
<1>3. \A n \in F \cup A : /\ Start(tab, n) \in Nat /\ End(tab, n) \in Nat
                          /\ Start(tab, n) < End(tab, n) /\ End(tab, n) <= size
  BY <1>0, Numbers
<1>4. size \in Nat /\ g[1] \in Nat /\ g[2] \in Nat /\ g[2] <= size
  <2>1. size \in Nat
    BY DriverMemAssumption
  <2>2. g[2] <= size
    BY <1>1 DEF Clear
  <2> QED
    BY <1>1, <1>3, <2>1, <2>2
<1>5. PICK m \in F \cup A : Holds(tab, m, g[1])
  <2>1. g[1] \in Address
    BY <1>1, <1>4 DEF Address
  <2> QED
    BY <1>0, <2>1 DEF Blocks
<1>6. Start(tab, m) <= g[1] /\ g[1] < End(tab, m)
  BY <1>5 DEF Holds
<1>7. m \in F
  <2>1. ASSUME m \in A PROVE FALSE
    <3>1. Start(tab, m) < g[2]
      BY <1>1, <1>3, <1>4, <1>6
    <3> QED
      BY <1>2, <1>6, <2>1, <3>1
  <2> QED
    BY <2>1
<1>8. \A n \in A : End(tab, m) <= Start(tab, n) \/ End(tab, n) <= Start(tab, m)
  BY <1>0, <1>7 DEF Blocks, Apart
<1>9. Start(tab, m) = g[1]
  <2>1. CASE g[1] = 0
    BY <1>3, <1>6, <2>1
  <2>2. ASSUME NEW n \in A, g[1] = End(tab, n) PROVE Start(tab, m) = g[1]
    <3>1. End(tab, m) <= Start(tab, n) \/ End(tab, n) <= Start(tab, m)
      BY <1>8
    <3> QED
      BY <1>3, <1>6, <2>2, <3>1
  <2> QED
    BY <1>1, <2>1, <2>2
<1>10. ~(End(tab, m) < g[2])
  <2> SUFFICES ASSUME End(tab, m) < g[2] PROVE FALSE
    OBVIOUS
  <2>1. End(tab, m) # size
    BY <1>3, <1>4
  <2>2. PICK n \in Own(tab) : Start(tab, n) = End(tab, m)
    BY <1>0, <2>1, BehindBlock
  <2>3. n \in A
    BY <1>0, <1>7, <2>2
  <2>4. Start(tab, n) < g[2]
    BY <2>2
  <2>5. g[1] < End(tab, n)
    BY <1>3, <1>4, <1>6, <2>2, <2>3
  <2> QED
    BY <1>2, <2>3, <2>4, <2>5
<1>11. ~(g[2] < End(tab, m))
  <2> SUFFICES ASSUME g[2] < End(tab, m) PROVE FALSE
    OBVIOUS
  <2>1. g[2] # size
    BY <1>3, <1>4
  <2>2. PICK n \in A : g[2] = Start(tab, n)
    BY <1>1, <2>1
  <2>3. End(tab, m) <= Start(tab, n) \/ End(tab, n) <= Start(tab, m)
    BY <1>8
  <2>4. Start(tab, n) \in Nat /\ End(tab, n) \in Nat /\ Start(tab, n) < End(tab, n)
    BY <1>3
  <2> QED
    BY <1>1, <1>3, <1>4, <1>9, <2>2, <2>3, <2>4
<1>12. End(tab, m) = g[2]
  BY <1>3, <1>4, <1>10, <1>11
<1> QED
  BY <1>1, <1>7, <1>9, <1>12

(* Blocks, like gaps, are as many as their descriptors: no two start at    *)
(* the same address.                                                       *)
LEMMA StartsDiffer ==
    ASSUME NEW tab, Blocks(tab), NEW m \in Own(tab), NEW n \in Own(tab),
           Start(tab, m) = Start(tab, n)
    PROVE  m = n
<1>1. /\ Start(tab, m) \in Nat /\ End(tab, m) \in Nat /\ Start(tab, m) < End(tab, m)
      /\ Start(tab, n) \in Nat /\ End(tab, n) \in Nat /\ Start(tab, n) < End(tab, n)
  BY Numbers
<1>2. ~Apart(tab, m, n)
  BY <1>1 DEF Apart
<1> QED
  BY <1>2 DEF Blocks

LEMMA SameNumber ==
    ASSUME NEW S, IsFiniteSet(S), NEW f, f = [x \in S |-> f[x]],
           \A x, y \in S : f[x] = f[y] => x = y,
           NEW T, T = {f[x] : x \in S}
    PROVE  IsFiniteSet(T) /\ Cardinality(T) = Cardinality(S)
<1>1. f \in [S -> T] /\ DOMAIN f = S
  OBVIOUS
<1>2. f \in Bijection(S, T)
  BY <1>1 DEF Bijection, Injection, Surjection, IsInjective
<1>3. ExistsBijection(S, T)
  BY <1>2 DEF ExistsBijection
<1> QED
  BY <1>3, FS_Bijection

LEMMA AllDescriptorsUsed ==
    ASSUME NEW tab, NEW F, NEW A, Divide(tab, F, A), Own(tab) = MD
    PROVE  Cardinality(GapsOf(tab, A)) + Cardinality(InUse(tab, A)) = MAXMD
<1>1. /\ Blocks(tab) /\ MD = F \cup A /\ F \cap A = {} /\ F \subseteq Own(tab) /\ A \subseteq Own(tab)
  BY DEF Divide
<1>2. IsFiniteSet(MD) /\ Cardinality(MD) = MAXMD
  <2>1. MAXMD \in Nat \ {0}
    BY DriverMemAssumption
  <2>2. /\ IsFiniteSet(0 .. MAXMD - 1)
        /\ Cardinality(0 .. MAXMD - 1) = IF 0 > MAXMD - 1 THEN 0 ELSE MAXMD - 1 - 0 + 1
    BY <2>1, FS_Interval
  <2> QED
    BY <2>1, <2>2 DEF MD
<1>3. IsFiniteSet(F) /\ IsFiniteSet(A) /\ Cardinality(F) + Cardinality(A) = MAXMD
  <2>1. IsFiniteSet(F) /\ IsFiniteSet(A)
    BY <1>1, <1>2, FS_Subset
  <2>2. Cardinality(MD) = Cardinality(F) + Cardinality(A) - Cardinality(F \cap A)
    BY <1>1, <2>1, FS_Union
  <2>3. Cardinality(F \cap A) = 0
    BY <1>1, FS_EmptySet
  <2>4. Cardinality(F) \in Nat /\ Cardinality(A) \in Nat
    BY <2>1, FS_CardinalityType
  <2> QED
    BY <1>2, <2>1, <2>2, <2>3, <2>4
<1>4. Cardinality(GapsOf(tab, A)) = Cardinality(F)
  <2> DEFINE f == [m \in F |-> <<Start(tab, m), End(tab, m)>>]
  <2>1. \A m, n \in F : f[m] = f[n] => m = n
    BY <1>1, StartsDiffer
  <2>2. GapsOf(tab, A) = {f[m] : m \in F}
    <3>1. \A g \in GapsOf(tab, A) : \E m \in F : g = f[m]
      BY GapIsFree
    <3>2. \A m \in F : f[m] \in GapsOf(tab, A)
      BY FreeIsGap
    <3> QED
      BY <3>1, <3>2
  <2>3. f = [m \in F |-> f[m]]
    OBVIOUS
  <2> HIDE DEF f
  <2> QED
    BY <1>3, <2>1, <2>2, <2>3, SameNumber
<1>5. Cardinality(InUse(tab, A)) = Cardinality(A)
  <2> DEFINE f == [m \in A |-> [start |-> tab[m].m_start, length |-> tab[m].m_length]]
  <2>1. \A m, n \in A : f[m] = f[n] => m = n
    <3> SUFFICES ASSUME NEW m \in A, NEW n \in A, f[m] = f[n] PROVE m = n
      OBVIOUS
    <3>1. Start(tab, m) = f[m].start /\ Start(tab, n) = f[n].start
      BY DEF Start
    <3> QED
      BY <1>1, <3>1, StartsDiffer
  <2>2. InUse(tab, A) = {f[m] : m \in A}
    BY DEF InUse
  <2>3. f = [m \in A |-> f[m]]
    OBVIOUS
  <2> HIDE DEF f
  <2> QED
    BY <1>3, <2>1, <2>2, <2>3, SameNumber
<1> QED
  BY <1>3, <1>4, <1>5

(* What Heap sees of the driver. *)
HeapBar ==
    {[start |-> tab_md[pmd.mal[i]].m_start, length |-> tab_md[pmd.mal[i]].m_length] :
        i \in 1 .. Len(pmd.mal)}

LEMMA BarInUse ==
    /\ HeapBar = InUse(tab_md, Members(pmd.mal))
    /\ HeapBar' = InUse(tab_md', Members(pmd'.mal))
  BY DEF HeapBar, InUse, Members

LEMMA InUseIs ==
    ASSUME NEW tab, NEW A
    PROVE  /\ \A b \in InUse(tab, A) : \E m \in A :
                 b.start = Start(tab, m) /\ b.length = tab[m].m_length
                 /\ b.start + b.length = End(tab, m)
           /\ \A m \in A : \E b \in InUse(tab, A) :
                 b.start = Start(tab, m) /\ b.start + b.length = End(tab, m)
<1>1. ASSUME NEW m \in A
      PROVE  LET b == [start |-> tab[m].m_start, length |-> tab[m].m_length]
             IN  /\ b.start = Start(tab, m) /\ b.length = tab[m].m_length
                 /\ b.start + b.length = End(tab, m) /\ b \in InUse(tab, A)
  BY DEF Start, End, InUse
<1>2. \A b \in InUse(tab, A) : \E m \in A :
          b = [start |-> tab[m].m_start, length |-> tab[m].m_length]
  BY DEF InUse
<1> QED
  BY <1>1, <1>2

LEMMA BarFree ==
    ASSUME NEW s, NEW e
    PROVE  Promise!Free(s, e) <=> Clear(tab_md, Members(pmd.mal), s, e)
<1> DEFINE A == Members(pmd.mal)
<1>1. HeapBar = InUse(tab_md, A)
  BY BarInUse
<1>2. Promise!Free(s, e) <=>
        /\ e <= DRIVER_MEM_BUFFER_SIZE
        /\ \A b \in HeapBar : ~(b.start < e /\ s < b.start + b.length)
  BY DEF Promise!Free, Promise!Meets, HeapBar
<1> HIDE DEF A
<1>3. (\A b \in InUse(tab_md, A) : ~(b.start < e /\ s < b.start + b.length))
        <=> \A m \in A : ~(Start(tab_md, m) < e /\ s < End(tab_md, m))
  BY InUseIs
<1> QED
  BY <1>1, <1>2, <1>3 DEF Clear, A

LEMMA BarGaps == Promise!Gaps = GapsOf(tab_md, Members(pmd.mal))
<1> DEFINE size == DRIVER_MEM_BUFFER_SIZE
           A == Members(pmd.mal)
           B == InUse(tab_md, A)
<1>1. HeapBar = B
  BY BarInUse
<1>2. Promise!Gaps =
        {g \in ({0} \cup {b.start + b.length : b \in HeapBar})
                 \X ({size} \cup {b.start : b \in HeapBar}) : g[1] < g[2] /\ Promise!Free(g[1], g[2])}
  BY DEF Promise!Gaps, HeapBar
<1>3. \A s, e : Promise!Free(s, e) <=> Clear(tab_md, A, s, e)
  BY BarFree
<1> HIDE DEF A
<1>4. {b.start + b.length : b \in B} = {End(tab_md, m) : m \in A}
  BY InUseIs
<1>5. {b.start : b \in B} = {Start(tab_md, m) : m \in A}
  BY InUseIs
<1> HIDE DEF B
<1>6. Promise!Gaps =
        {g \in ({0} \cup {End(tab_md, m) : m \in A}) \X ({size} \cup {Start(tab_md, m) : m \in A}) :
            g[1] < g[2] /\ Promise!Free(g[1], g[2])}
  BY <1>1, <1>2, <1>4, <1>5
<1> QED
  BY <1>3, <1>6 DEF GapsOf, A

(* Each thing a step may do is a step of Heap. *)
LEMMA GivesIsAlloc ==
    ASSUME State(tab_md, pmd), NEW n \in Nat \ {0}, Gives(n)
    PROVE  Promise!Alloc(n)
<1> DEFINE A == Members(pmd.mal)
<1>1. PICK p \in Members(pmd.mfl) :
        /\ n <= tab_md[p].m_length
        /\ Start(tab_md', p) = Start(tab_md, p) /\ tab_md'[p].m_length = n
        /\ Members(pmd'.mal) = A \cup {p}
        /\ \A m \in A : tab_md'[m] = tab_md[m]
        /\ result' = [call |-> "alloc", value |-> Start(tab_md, p)]
  BY DEF Gives
<1> DEFINE s == Start(tab_md, p)
           b == [start |-> s, length |-> n]
<1>2. Divide(tab_md, Members(pmd.mfl), A)
  BY StateDivides
<1>3. Blocks(tab_md) /\ p \in Own(tab_md)
  BY <1>1, <1>2 DEF Divide
<1>4. /\ s \in Nat /\ End(tab_md, p) \in Nat /\ DRIVER_MEM_BUFFER_SIZE \in Nat
      /\ tab_md[p].m_length \in Nat /\ End(tab_md, p) = s + tab_md[p].m_length
      /\ s < End(tab_md, p) /\ End(tab_md, p) <= DRIVER_MEM_BUFFER_SIZE
  BY <1>3, Numbers
<1>5. Clear(tab_md, A, s, s + n)
  <2>1. s + n \in Int /\ s + n <= End(tab_md, p)
    BY <1>1, <1>4
  <2> QED
    BY <1>1, <1>2, <2>1, FreeIsClear
<1>6. s \in 0 .. DRIVER_MEM_BUFFER_SIZE - 1
  BY <1>4
<1>7. Promise!Free(s, s + n)
  BY <1>5, BarFree
<1>8. HeapBar' = HeapBar \cup {b}
  <2>1. HeapBar = InUse(tab_md, A) /\ HeapBar' = InUse(tab_md', A \cup {p})
    BY <1>1, BarInUse
  <2>2. tab_md'[p].m_start = s /\ tab_md'[p].m_length = n
    BY <1>1 DEF Start
  <2>3. \A m \in A : tab_md'[m] = tab_md[m]
    BY <1>1
  <2> HIDE DEF A, s
  <2>4. InUse(tab_md', A \cup {p}) = InUse(tab_md', A) \cup {b}
    BY <2>2 DEF InUse
  <2>5. InUse(tab_md', A) = InUse(tab_md, A)
    BY <2>3 DEF InUse
  <2> QED
    BY <2>1, <2>4, <2>5
<1>9. result' = [call |-> "alloc", value |-> s]
  BY <1>1
<1> HIDE DEF s
<1>10. HeapBar' = HeapBar \cup {[start |-> s, length |-> n]}
  BY <1>8
<1> QED
  BY <1>6, <1>7, <1>9, <1>10 DEF Promise!Alloc, HeapBar

LEMMA StaysIsSame == Stays => HeapBar' = HeapBar
  BY DEF Stays, HeapBar

(* Heap's Cardinality is that of FiniteSets. *)
LEMMA HeapCardinality == \A S : Promise!Cardinality(S) = Cardinality(S)
  BY DEF Promise!Cardinality, Cardinality

LEMMA RefusalIsAlloc ==
    ASSUME State(tab_md, pmd), NEW n \in Nat \ {0}, Fits(n) = {} \/ Own(tab_md) = MD,
           result' = [call |-> "alloc", value |-> NULL], Stays
    PROVE  Promise!Alloc(n)
<1> DEFINE A == Members(pmd.mal)
           G == GapsOf(tab_md, A)
<1>1. Divide(tab_md, Members(pmd.mfl), A) /\ Promise!Gaps = G
  BY StateDivides, BarGaps
<1>2. (\A g \in G : g[2] - g[1] < n) \/ Cardinality(G) + Cardinality(HeapBar) = MAXMD
  <2>1. CASE Fits(n) = {}
    <3> SUFFICES ASSUME NEW g \in G PROVE g[2] - g[1] < n
      OBVIOUS
    <3>1. PICK m \in Members(pmd.mfl) : g = <<Start(tab_md, m), End(tab_md, m)>>
      BY <1>1, GapIsFree
    <3>2. Blocks(tab_md) /\ m \in Own(tab_md)
      BY <1>1 DEF Divide
    <3>3. /\ Start(tab_md, m) \in Nat /\ tab_md[m].m_length \in Nat
          /\ End(tab_md, m) = Start(tab_md, m) + tab_md[m].m_length
      BY <3>2, Numbers
    <3>4. ~(tab_md[m].m_length >= n)
      BY <2>1 DEF Fits, Members
    <3>5. g[1] = Start(tab_md, m) /\ g[2] = End(tab_md, m)
      BY <3>1
    <3> QED
      BY <3>3, <3>4, <3>5
  <2>2. CASE Own(tab_md) = MD
    <3>1. Cardinality(G) + Cardinality(InUse(tab_md, A)) = MAXMD
      BY <1>1, <2>2, AllDescriptorsUsed
    <3>2. HeapBar = InUse(tab_md, A)
      BY BarInUse
    <3> QED
      BY <3>1, <3>2
  <2> QED
    BY <2>1, <2>2
<1> HIDE DEF G
<1>3. HeapBar' = HeapBar
  BY StaysIsSame
<1>4. \/ \A g \in Promise!Gaps : g[2] - g[1] < n
      \/ Promise!Cardinality(Promise!Gaps) + Promise!Cardinality(HeapBar) = MAXMD
  BY <1>1, <1>2, HeapCardinality
<1>5. result' = [call |-> "alloc", value |-> Promise!Failed]
  BY DEF NULL, Promise!Failed
<1> QED
  BY <1>3, <1>4, <1>5 DEF Promise!Alloc, HeapBar

LEMMA AnswersIsQuery ==
    ASSUME State(tab_md, pmd), Answers
    PROVE  Promise!Query
<1>1. PICK v \in Nat :
        /\ v = 0 \/ \E m \in Members(pmd.mfl) : v <= tab_md[m].m_length
        /\ result' = [call |-> "query", value |-> v] /\ Stays
  BY DEF Answers
<1>2. result'.call = "query" /\ result'.value = v /\ HeapBar' = HeapBar
  BY <1>1, StaysIsSame
<1>3. v = 0 \/ \E g \in Promise!Gaps : v \in 1 .. g[2] - g[1]
  <2> SUFFICES ASSUME NEW m \in Members(pmd.mfl), v <= tab_md[m].m_length, v # 0
               PROVE  \E g \in Promise!Gaps : v \in 1 .. g[2] - g[1]
    BY <1>1
  <2> DEFINE g == <<Start(tab_md, m), End(tab_md, m)>>
  <2>1. Divide(tab_md, Members(pmd.mfl), Members(pmd.mal))
    BY StateDivides
  <2>2. g \in Promise!Gaps
    BY <2>1, FreeIsGap, BarGaps
  <2>3. Blocks(tab_md) /\ m \in Own(tab_md)
    BY <2>1 DEF Divide
  <2>4. /\ Start(tab_md, m) \in Nat /\ tab_md[m].m_length \in Nat
        /\ End(tab_md, m) = Start(tab_md, m) + tab_md[m].m_length
    BY <2>3, Numbers
  <2>5. g[1] = Start(tab_md, m) /\ g[2] = End(tab_md, m)
    OBVIOUS
  <2> HIDE DEF g
  <2>6. v \in 1 .. g[2] - g[1]
    BY <2>4, <2>5
  <2> QED
    BY <2>2, <2>6
<1>4. result'.value = 0 \/ \E g \in Promise!Gaps : result'.value \in 1 .. g[2] - g[1]
  BY <1>2, <1>3
<1> QED
  BY <1>2, <1>4 DEF Promise!Query, HeapBar

LEMMA TakenBackIsRelease ==
    ASSUME State(tab_md, pmd), NEW addr, TakenBack(addr)
    PROVE  Promise!Release(addr)
<1> DEFINE A == Members(pmd.mal)
<1>1. PICK m \in A :
        /\ Start(tab_md, m) = addr
        /\ Members(pmd'.mal) = A \ {m}
        /\ \A q \in A \ {m} : tab_md'[q] = tab_md[q]
        /\ result' = [call |-> "free", value |-> 0]
  BY DEF TakenBack
<1> DEFINE b == [start |-> tab_md[m].m_start, length |-> tab_md[m].m_length]
<1>2. Blocks(tab_md) /\ A \subseteq Own(tab_md)
  BY DEF State
<1>3. HeapBar = InUse(tab_md, A) /\ HeapBar' = InUse(tab_md', A \ {m})
  BY <1>1, BarInUse
<1>4. \A q \in A \ {m} : tab_md'[q] = tab_md[q]
  BY <1>1
<1>5. \A q \in A : tab_md[q].m_start = tab_md[m].m_start => q = m
  BY <1>2, StartsDiffer DEF Start
<1>6. b.start = addr
  BY <1>1 DEF Start
<1> HIDE DEF A
<1>7. InUse(tab_md', A \ {m}) = InUse(tab_md, A \ {m})
  BY <1>4 DEF InUse
<1>8. InUse(tab_md, A \ {m}) = InUse(tab_md, A) \ {b} /\ b \in InUse(tab_md, A)
  <2>1. \A q \in A : [start |-> tab_md[q].m_start, length |-> tab_md[q].m_length] = b => q = m
    BY <1>5
  <2> QED
    BY <2>1 DEF InUse
<1> HIDE DEF b
<1>9. b \in HeapBar /\ HeapBar' = HeapBar \ {b}
  BY <1>3, <1>7, <1>8
<1> QED
  BY <1>1, <1>6, <1>9 DEF Promise!Release, HeapBar

LEMMA UnknownIsRelease ==
    ASSUME State(tab_md, pmd), NEW addr,
           \A m \in Members(pmd.mal) : Start(tab_md, m) # addr,
           result' = [call |-> "free", value |-> NULL], Stays
    PROVE  Promise!Release(addr)
<1>1. \A b \in HeapBar : b.start # addr
  BY BarInUse, InUseIs
<1>2. HeapBar' = HeapBar
  BY StaysIsSame
<1>3. result' = [call |-> "free", value |-> Promise!Failed]
  BY DEF NULL, Promise!Failed
<1> QED
  BY <1>1, <1>2, <1>3 DEF Promise!Release, HeapBar

LEMMA HeapStep ==
    ASSUME HeapInv, Next
    PROVE  Promise!Next
<1>0. State(tab_md, pmd)
  BY DEF HeapInv
<1>1. ASSUME NEW n \in Amounts, Gives(Rounded(n)) PROVE Promise!Next
  <2>1. Promise!Alloc(Rounded(n))
    BY <1>0, <1>1, AmountPositive, GivesIsAlloc
  <2> QED
    BY <2>1 DEF Promise!Next
<1>2. ASSUME NEW n \in Amounts, Fits(Rounded(n)) = {} \/ Own(tab_md) = MD,
             result' = [call |-> "alloc", value |-> NULL], Stays
      PROVE  Promise!Next
  <2>1. Promise!Alloc(Rounded(n))
    BY <1>0, <1>2, AmountPositive, RefusalIsAlloc
  <2> QED
    BY <2>1 DEF Promise!Next
<1>3. ASSUME Answers PROVE Promise!Next
  BY <1>0, <1>3, AnswersIsQuery DEF Promise!Next
<1>4. ASSUME NEW addr \in Address,
             \/ TakenBack(addr)
             \/ /\ \A m \in Members(pmd.mal) : Start(tab_md, m) # addr
                /\ result' = [call |-> "free", value |-> NULL] /\ Stays
      PROVE  Promise!Next
  <2>1. Promise!Release(addr)
    BY <1>0, <1>4, TakenBackIsRelease, UnknownIsRelease
  <2> QED
    BY <2>1 DEF Promise!Next, Address
<1> QED
  BY <1>1, <1>2, <1>3, <1>4, NextStep

(* Driver memory is a heap, for any buffer: the allocated blocks do not    *)
(* overlap, a freed block is the one that was allocated, and a request     *)
(* fails only if no gap is as long, or blocks and gaps are as many as the  *)
(* descriptors.  A gap between blocks is always one free block.            *)
THEOREM ImplementsHeap == Spec => IsHeap
<1>1. Init => Promise!Init
  <2> SUFFICES ASSUME Init PROVE Promise!Init
    OBVIOUS
  <2>1. result = [call |-> "none", value |-> 0] /\ Len(pmd.mal) = 0
    BY DEF Init
  <2> QED
    BY <2>1 DEF Promise!Init
<1>2. HeapInv /\ [Next]_vars => [Promise!Next]_<<HeapBar, result>>
  <2> SUFFICES ASSUME HeapInv, [Next]_vars
               PROVE  Promise!Next \/ UNCHANGED <<HeapBar, result>>
    OBVIOUS
  <2>1. CASE Next
    BY <2>1, HeapStep
  <2>2. CASE UNCHANGED vars
    BY <2>2 DEF vars, HeapBar
  <2> QED
    BY <2>1, <2>2
<1> QED
  BY <1>1, <1>2, Invariance, PTL DEF Spec, IsHeap, Promise!Spec, Promise!vars, HeapBar

-----------------------------------------------------------------------------
(***************************************************************************)
(* Theorems about the MMU (Mmu.tla), for every set of pages, every set of  *)
(* pages that drivers lock, and TLBs of every size that leaves an entry    *)
(* for a miss: the base system's pages stay mapped as mmu_init mapped      *)
(* them, a locked page stays mapped, and the locked entries are bounded.   *)
(*                                                                         *)
(* The inductive invariant, MmuInv, says where a locked entry can come     *)
(* from: mmu_init, or a page that is marked locked.  The bound is not      *)
(* inductive by itself, as a miss between the two halves of a lock call    *)
(* and the call both add an entry: Budget also counts the entries that are *)
(* yet to come, one for a marked page that has none (a miss adds it) and   *)
(* one for the call under way.                                             *)
(***************************************************************************)
TlbOK(tlb, size) ==
    tlb \subseteq Entry \X (1 .. size) /\ IsFiniteSet(tlb) /\ Cardinality(tlb) <= size

(* An entry that is as the base system needs it. *)
Right(e) == (e.page \in {DRIVERS, IO} => e.cache = "nocache") /\ (e.page = TOS => ~e.write)
AllRight(tlb) == \A v \in tlb : Right(v[1])

(* Locked entries are those of mmu_init and of pages marked locked. *)
LockedOnes(tlb, lk) ==
    \A v \in LockedEntries(tlb) : v \in mmu_init \X {1} \/ v[1].page \in lk

Missing(tlb, lk) == {p \in lk : p \notin LockedPages(tlb)}
Budget(tlb, lk, k) ==
    Cardinality(LockedEntries(tlb)) + Cardinality(Missing(tlb, lk)) + k <= 4 + 2 * Cardinality(lk)
Half == IF main.op = "lock" THEN 1 ELSE 0

Calls ==
    /\ main.op = "lock" => main.page \in locked
    /\ main.op = "found" => main.entry.page \in Lockable /\ main.entry.page \in released
    /\ main.op \in {"found", "overwritten"} => Right(main.entry)

(* A TLB the base system can run on. *)
Good(tlb, size) == TlbOK(tlb, size) /\ mmu_init \X {1} \subseteq tlb /\ AllRight(tlb)

MmuInv ==
    /\ MmuTypeOK /\ Calls /\ Good(dtlb, DTLB) /\ Good(itlb, ITLB)
    /\ LockedOnes(dtlb, locked) /\ Budget(dtlb, locked, Half) /\ LockHolds

-----------------------------------------------------------------------------
(* Operators of the model *)

(* Writing an entry into a TLB that has room. *)
LEMMA WithAdds ==
    ASSUME NEW size \in Nat, NEW tlb, tlb \subseteq Entry \X (1 .. size), IsFiniteSet(tlb),
           Cardinality(tlb) < size, NEW e \in Entry, NEW t \in With(tlb, size, e)
    PROVE  TlbOK(t, size) /\ \E n \in 1 .. size : t = tlb \cup {<<e, n>>}
<1>1. PICK n \in 1 .. size : t = tlb \cup {<<e, n>>}
  BY DEF With
<1>2. t \subseteq Entry \X (1 .. size)
  BY <1>1
<1>3. IsFiniteSet(t) /\ Cardinality(t) <= size
  <2>1. /\ IsFiniteSet(t)
        /\ Cardinality(t) = IF <<e, n>> \in tlb THEN Cardinality(tlb) ELSE Cardinality(tlb) + 1
    BY <1>1, FS_AddElement
  <2>2. Cardinality(tlb) \in Nat
    BY FS_CardinalityType
  <2> QED
    BY <2>1, <2>2
<1> QED
  BY <1>1, <1>2, <1>3 DEF TlbOK

(* What a write access makes of a TLB: nothing locked goes, only the new   *)
(* entry comes, and it does when a place is free or not locked.            *)
Stored(tlb, size, t, e) ==
    /\ TlbOK(t, size)
    /\ LockedEntries(tlb) \subseteq t
    /\ \E n \in 1 .. size :
          /\ t \subseteq tlb \cup {<<e, n>>}
          /\ (\E v \in tlb : ~v[1].lk) \/ Cardinality(tlb) < size => <<e, n>> \in t

LEMMA StoresKeeps ==
    ASSUME NEW size \in Nat \ {0}, NEW tlb, TlbOK(tlb, size), NEW e \in Entry,
           NEW t \in Stores(tlb, size, e)
    PROVE  Stored(tlb, size, t, e)
<1>0. tlb \subseteq Entry \X (1 .. size) /\ IsFiniteSet(tlb) /\ Cardinality(tlb) <= size
  BY DEF TlbOK
<1>c. Cardinality(tlb) \in Nat
  BY <1>0, FS_CardinalityType
<1>1. CASE Cardinality(tlb) < size /\ t \in With(tlb, size, e)
  <2>1. TlbOK(t, size) /\ \E n \in 1 .. size : t = tlb \cup {<<e, n>>}
    BY <1>0, <1>1, WithAdds
  <2> QED
    BY <2>1 DEF Stored, LockedEntries
<1>2. CASE \E v \in Replaceable(tlb) : t \in With(tlb \ {v}, size, e)
  <2>1. PICK v \in Replaceable(tlb) : t \in With(tlb \ {v}, size, e)
    BY <1>2
  <2>2. v \in tlb /\ ~v[1].lk
    BY DEF Replaceable, LastCopies
  <2>3. IsFiniteSet(tlb \ {v}) /\ Cardinality(tlb \ {v}) = Cardinality(tlb) - 1
    BY <1>0, <2>2, FS_RemoveElement
  <2>4. Cardinality(tlb \ {v}) < size
    BY <1>0, <1>c, <2>3
  <2>5. tlb \ {v} \subseteq Entry \X (1 .. size)
    BY <1>0
  <2>6. TlbOK(t, size) /\ \E n \in 1 .. size : t = (tlb \ {v}) \cup {<<e, n>>}
    BY <2>1, <2>3, <2>4, <2>5, WithAdds
  <2>7. LockedEntries(tlb) \subseteq t
    BY <2>2, <2>6 DEF LockedEntries
  <2> QED
    BY <2>6, <2>7 DEF Stored
<1>3. CASE Cardinality(tlb) >= size /\ (\A v \in tlb : v[1].lk) /\ t = tlb
  <2>1. ~(Cardinality(tlb) < size)
    BY <1>3, <1>c
  <2>2. 1 \in 1 .. size
    OBVIOUS
  <2> QED
    BY <1>3, <2>1, <2>2 DEF Stored, LockedEntries
<1> QED
  BY <1>1, <1>2, <1>3 DEF Stores

(* The descriptor of a page is an entry, locked as the page is. *)
LEMMA DescriptorIs ==
    ASSUME NEW p \in Translated, NEW lk
    PROVE  /\ Descriptor(p, lk) \in Entry
           /\ Descriptor(p, lk).page = p /\ (Descriptor(p, lk).lk <=> p \in lk)
           /\ p # DRIVERS => Right(Descriptor(p, lk))
<1>1. (p \in lk) \in BOOLEAN /\ writable(p) \in BOOLEAN /\ cache_mode(p) \in Mode
  BY DEF writable, cache_mode, Mode
<1>2. Descriptor(p, lk) \in Entry
  BY <1>1 DEF Descriptor, Entry
<1>3. p # DRIVERS => Right(Descriptor(p, lk))
  BY MmuAssumption DEF Descriptor, Right, cache_mode, writable
<1> QED
  BY <1>2, <1>3 DEF Descriptor
-----------------------------------------------------------------------------
(* The system's pages and what a store leaves of the invariant *)

LEMMA FourAtMost ==
    ASSUME NEW a, NEW b, NEW c, NEW d
    PROVE  /\ IsFiniteSet({a, b, c, d}) /\ Cardinality({a, b, c, d}) <= 4
           /\ a \notin {b, c, d} /\ b \notin {c, d} /\ c # d => Cardinality({a, b, c, d}) = 4
<1>0. IsFiniteSet({}) /\ Cardinality({}) = 0
  BY FS_EmptySet
<1>1. IsFiniteSet({d}) /\ Cardinality({d}) = 1
  BY <1>0, FS_AddElement, {d} = {} \cup {d}
<1>2. IsFiniteSet({c, d}) /\ Cardinality({c, d}) = IF c \in {d} THEN 1 ELSE 2
  BY <1>1, FS_AddElement, {c, d} = {d} \cup {c}
<1>3. /\ IsFiniteSet({b, c, d})
      /\ Cardinality({b, c, d}) = IF b \in {c, d} THEN Cardinality({c, d}) ELSE Cardinality({c, d}) + 1
  BY <1>2, FS_AddElement, {b, c, d} = {c, d} \cup {b}
<1>4. /\ IsFiniteSet({a, b, c, d})
      /\ Cardinality({a, b, c, d}) = IF a \in {b, c, d} THEN Cardinality({b, c, d}) ELSE Cardinality({b, c, d}) + 1
  BY <1>3, FS_AddElement, {a, b, c, d} = {b, c, d} \cup {a}
<1>5. Cardinality({c, d}) \in {1, 2} /\ (c # d => Cardinality({c, d}) = 2)
  BY <1>2
<1>6. Cardinality({b, c, d}) \in {1, 2, 3} /\ (b \notin {c, d} /\ c # d => Cardinality({b, c, d}) = 3)
  BY <1>3, <1>5
<1> QED
  BY <1>4, <1>6

LEMMA SystemIsFour == Cardinality(System) = 4
  BY FourAtMost, MmuAssumption DEF System

LEMMA InitLocked == \A v \in mmu_init \X {1} : v[1].lk /\ v[1].page \in System
  BY DEF mmu_init, System

LEMMA InitMapped ==
    ASSUME NEW tlb, mmu_init \X {1} \subseteq tlb
    PROVE  \A q \in System : Hit(tlb, q)
<1>1. ASSUME NEW q \in System PROVE Hit(tlb, q)
  <2>1. PICK e \in mmu_init : e.page = q
    BY DEF mmu_init, System
  <2>2. <<e, 1>> \in tlb
    OBVIOUS
  <2> QED
    BY <2>1, <2>2 DEF Hit
<1> QED
  BY <1>1

LEMMA StoredGood ==
    ASSUME NEW size, NEW tlb, Good(tlb, size), NEW e, Right(e), NEW t, Stored(tlb, size, t, e)
    PROVE  Good(t, size)
<1>1. mmu_init \X {1} \subseteq t
  BY InitLocked DEF Stored, Good, LockedEntries
<1>2. AllRight(t)
  BY DEF Stored, Good, AllRight
<1> QED
  BY <1>1, <1>2 DEF Stored, Good

LEMMA StoredLocked ==
    ASSUME NEW size, NEW tlb, NEW lk, LockedOnes(tlb, lk),
           NEW e, e.lk => e.page \in lk, NEW t, Stored(tlb, size, t, e)
    PROVE  LockedOnes(t, lk)
  BY DEF Stored, LockedOnes, LockedEntries

(* The budget when nothing locked comes or goes; when a locked entry comes *)
(* for a page that has none, or for a call that was to bring one; and when *)
(* one goes.                                                               *)
LEMMA Finite ==
    ASSUME NEW tlb, IsFiniteSet(tlb), NEW lk, IsFiniteSet(lk)
    PROVE  /\ IsFiniteSet(LockedEntries(tlb)) /\ Cardinality(LockedEntries(tlb)) \in Nat
           /\ IsFiniteSet(Missing(tlb, lk)) /\ Cardinality(Missing(tlb, lk)) \in Nat
           /\ Cardinality(lk) \in Nat
  BY FS_Subset, FS_CardinalityType, LockedEntries(tlb) \subseteq tlb, Missing(tlb, lk) \subseteq lk
     DEF LockedEntries, Missing

LEMMA BudgetSame ==
    ASSUME NEW tlb, NEW t, NEW lk, NEW k, Budget(tlb, lk, k), LockedEntries(t) = LockedEntries(tlb)
    PROVE  Budget(t, lk, k)
<1>1. LockedPages(t) = LockedPages(tlb)
  BY DEF LockedPages
<1>2. Missing(t, lk) = Missing(tlb, lk)
  BY <1>1 DEF Missing
<1> QED
  BY <1>2 DEF Budget

LEMMA BudgetAdd ==
    ASSUME NEW tlb, IsFiniteSet(tlb), NEW lk, IsFiniteSet(lk), NEW k \in {0, 1}, NEW j \in {0, 1},
           NEW t, NEW x, x \notin LockedEntries(tlb), LockedEntries(t) = LockedEntries(tlb) \cup {x},
           \/ x[1].page \in Missing(tlb, lk) /\ j = k
           \/ k = 1 /\ j = 0,
           Budget(tlb, lk, k)
    PROVE  Budget(t, lk, j)
<1> DEFINE L == LockedEntries(tlb)
           M == Missing(tlb, lk)
           M2 == Missing(t, lk)
           n == Cardinality(lk)
<1>1. IsFiniteSet(L) /\ Cardinality(L) \in Nat /\ IsFiniteSet(M) /\ Cardinality(M) \in Nat /\ n \in Nat
  BY Finite
<1>2. Cardinality(LockedEntries(t)) = Cardinality(L) + 1
  BY <1>1, FS_AddElement
<1>3. LockedPages(t) = LockedPages(tlb) \cup {x[1].page}
  BY DEF LockedPages
<1>4. M2 = M \ {x[1].page}
  BY <1>3 DEF Missing
<1>5. Cardinality(M2) = IF x[1].page \in M THEN Cardinality(M) - 1 ELSE Cardinality(M)
  BY <1>1, <1>4, FS_RemoveElement
<1>6. Cardinality(L) + Cardinality(M) + k <= 4 + 2 * n
  BY DEF Budget
<1> HIDE DEF L, M, M2, n
<1>7. Cardinality(L) + 1 + Cardinality(M2) + j <= 4 + 2 * n
  <2>1. CASE x[1].page \in M /\ j = k
    <3>1. Cardinality(M2) = Cardinality(M) - 1
      BY <1>5, <2>1
    <3> QED
      BY <1>1, <1>6, <2>1, <3>1
  <2>2. CASE k = 1 /\ j = 0
    <3>1. Cardinality(M2) = Cardinality(M) \/ Cardinality(M2) = Cardinality(M) - 1
      BY <1>5
    <3> QED
      BY <1>1, <1>6, <2>2, <3>1
  <2> QED
    BY <2>1, <2>2 DEF M
<1> QED
  BY <1>2, <1>7 DEF Budget, L, M, M2, n

LEMMA BudgetRemove ==
    ASSUME NEW tlb, IsFiniteSet(tlb), NEW lk, IsFiniteSet(lk), NEW k \in {0, 1},
           NEW t, NEW x \in LockedEntries(tlb), LockedEntries(t) = LockedEntries(tlb) \ {x},
           Budget(tlb, lk, k)
    PROVE  Budget(t, lk, k)
<1> DEFINE L == LockedEntries(tlb)
           M == Missing(tlb, lk)
           M2 == Missing(t, lk)
           n == Cardinality(lk)
<1>1. IsFiniteSet(L) /\ Cardinality(L) \in Nat /\ IsFiniteSet(M) /\ Cardinality(M) \in Nat /\ n \in Nat
  BY Finite
<1>2. Cardinality(LockedEntries(t)) = Cardinality(L) - 1
  BY <1>1, FS_RemoveElement
<1>3. LockedPages(tlb) \subseteq LockedPages(t) \cup {x[1].page}
  BY DEF LockedPages
<1>4. M2 \subseteq M \cup {x[1].page}
  BY <1>3 DEF Missing
<1>5. IsFiniteSet(M \cup {x[1].page}) /\ Cardinality(M \cup {x[1].page}) <= Cardinality(M) + 1
  <2>1. /\ IsFiniteSet(M \cup {x[1].page})
        /\ Cardinality(M \cup {x[1].page}) = IF x[1].page \in M THEN Cardinality(M) ELSE Cardinality(M) + 1
    BY <1>1, FS_AddElement
  <2> HIDE DEF M
  <2> QED
    BY <1>1, <2>1
<1>6. Cardinality(M2) <= Cardinality(M \cup {x[1].page}) /\ IsFiniteSet(M2)
  BY <1>4, <1>5, FS_Subset
<1>7. Cardinality(M2) \in Nat /\ Cardinality(M \cup {x[1].page}) \in Nat
  BY <1>5, <1>6, FS_CardinalityType
<1>8. Cardinality(L) + Cardinality(M) + k <= 4 + 2 * n
  BY DEF Budget
<1> HIDE DEF L, M, M2, n
<1>9. Cardinality(M2) <= Cardinality(M) + 1
  BY <1>1, <1>5, <1>6, <1>7
<1>10. Cardinality(L) - 1 + Cardinality(M2) + k <= 4 + 2 * n
  BY <1>1, <1>7, <1>8, <1>9
<1> QED
  BY <1>2, <1>10 DEF Budget, L, M, M2, n

LEMMA BudgetMark ==
    ASSUME NEW tlb, IsFiniteSet(tlb), NEW lk, IsFiniteSet(lk),
           NEW p, p \notin lk, p \notin LockedPages(tlb), Budget(tlb, lk, 0)
    PROVE  Budget(tlb, lk \cup {p}, 1)
<1> DEFINE c == Cardinality(LockedEntries(tlb))
           M == Missing(tlb, lk)
           M2 == Missing(tlb, lk \cup {p})
           n == Cardinality(lk)
<1>1. c \in Nat /\ IsFiniteSet(M) /\ Cardinality(M) \in Nat /\ n \in Nat
  BY Finite
<1>2. M2 = M \cup {p} /\ p \notin M
  BY DEF Missing
<1>3. Cardinality(M2) = Cardinality(M) + 1
  BY <1>1, <1>2, FS_AddElement
<1>4. Cardinality(lk \cup {p}) = n + 1
  BY FS_AddElement
<1>5. c + Cardinality(M) + 0 <= 4 + 2 * n
  BY DEF Budget
<1> HIDE DEF c, M, M2, n
<1>6. c + Cardinality(M2) + 1 <= 4 + 2 * (n + 1)
  BY <1>1, <1>3, <1>5
<1> QED
  BY <1>4, <1>6 DEF Budget, c, M2

LEMMA BudgetBounds ==
    ASSUME NEW tlb, IsFiniteSet(tlb), NEW lk, IsFiniteSet(lk), NEW k \in {0, 1}, Budget(tlb, lk, k)
    PROVE  Cardinality(LockedEntries(tlb)) <= 4 + 2 * Cardinality(lk)
<1>1. /\ Cardinality(LockedEntries(tlb)) \in Nat /\ Cardinality(Missing(tlb, lk)) \in Nat
      /\ Cardinality(lk) \in Nat
  BY Finite
<1>2. Cardinality(LockedEntries(tlb)) + Cardinality(Missing(tlb, lk)) + k <= 4 + 2 * Cardinality(lk)
  BY DEF Budget
<1> QED
  BY <1>1, <1>2

(* The pages marked locked are finitely many, and fewer than would fill    *)
(* the DTLB: it always has a place that is free or not locked.             *)
LEMMA FewLocked ==
    ASSUME MmuInv
    PROVE  /\ IsFiniteSet(locked) /\ Half \in {0, 1}
           /\ (\E v \in dtlb : ~v[1].lk) \/ Cardinality(dtlb) < DTLB
<1>1. IsFiniteSet(locked) /\ Cardinality(locked) <= Cardinality(Lockable)
  BY MmuAssumption, FS_Subset DEF MmuInv, MmuTypeOK
<1>2. Cardinality(locked) \in Nat /\ Cardinality(Lockable) \in Nat
  BY <1>1, MmuAssumption, FS_CardinalityType
<1>3. Half \in {0, 1}
  BY DEF Half
<1>4. IsFiniteSet(dtlb)
  BY DEF MmuInv, Good, TlbOK
<1>5. Cardinality(dtlb) \in Nat
  BY <1>4, FS_CardinalityType
<1>6. Cardinality(LockedEntries(dtlb)) <= 4 + 2 * Cardinality(locked)
  BY <1>1, <1>3, <1>4, BudgetBounds DEF MmuInv
<1>7. DTLB \in Nat /\ DTLB > 4 + 2 * Cardinality(Lockable)
  BY MmuAssumption
<1>8. ASSUME \A v \in dtlb : v[1].lk PROVE Cardinality(dtlb) < DTLB
  <2>1. LockedEntries(dtlb) = dtlb
    BY <1>8 DEF LockedEntries
  <2>2. Cardinality(dtlb) <= 4 + 2 * Cardinality(locked)
    BY <1>6, <2>1
  <2> QED
    BY <1>1, <1>2, <1>5, <1>7, <2>2
<1> QED
  BY <1>1, <1>3, <1>8

(* The registers after a miss. *)
LEMMA RegistersKept ==
    ASSUME MmuInv, NEW p \in Pages, p \in Translated => p # DRIVERS, Registers(p),
           UNCHANGED <<locked, released>>
    PROVE  /\ main' \in {Idle} \cup [op : {"lock"}, page : Lockable]
                         \cup [op : {"found", "overwritten"}, entry : Entry]
           /\ Calls' /\ Half' = Half
           /\ \A q : main = [op |-> "lock", page |-> q] => main' = main
<1>1. CASE main' = main
  BY <1>1 DEF MmuInv, MmuTypeOK, Calls, Half
<1>2. CASE /\ main.op \in {"found", "overwritten"} /\ p \in Translated
           /\ main' = [op |-> "overwritten", entry |-> Descriptor(p, locked)]
  <2>1. Descriptor(p, locked) \in Entry /\ Right(Descriptor(p, locked))
    BY <1>2, DescriptorIs
  <2>2. main'.op = "overwritten" /\ main'.entry = Descriptor(p, locked)
    BY <1>2
  <2>3. Calls'
    BY <2>1, <2>2 DEF Calls, Right
  <2>4. Half' = Half
    BY <1>2, <2>2 DEF Half
  <2>5. main' \in [op : {"found", "overwritten"}, entry : Entry]
    BY <1>2, <2>1
  <2> QED
    BY <1>2, <2>3, <2>4, <2>5
<1> QED
  BY <1>1, <1>2 DEF Registers, lookup_phys

LEMMA PagesKept ==
    ASSUME NEW tlb, NEW t, LockedEntries(tlb) \subseteq t
    PROVE  LockedPages(tlb) \subseteq LockedPages(t)
  BY DEF LockedPages, LockedEntries

-----------------------------------------------------------------------------
(* The steps *)

LEMMA InitHolds ==
    ASSUME MmuInit
    PROVE  MmuInv
<1> DEFINE s == mmu_init \X {1}
           e1 == [page |-> TOS, cache |-> "copyback", write |-> FALSE, lk |-> TRUE]
           e2 == [page |-> IO, cache |-> "nocache", write |-> TRUE, lk |-> TRUE]
           e3 == [page |-> BAS, cache |-> "copyback", write |-> TRUE, lk |-> TRUE]
           e4 == [page |-> DRIVERS, cache |-> "nocache", write |-> TRUE, lk |-> TRUE]
<1>1. s = {<<e1, 1>>, <<e2, 1>>, <<e3, 1>>, <<e4, 1>>}
  BY DEF mmu_init
<1>2. mmu_init \subseteq Entry
  <2>1. {TOS, IO, BAS, DRIVERS} \subseteq Translated
    BY DEF Translated, System
  <2> QED
    BY <2>1 DEF mmu_init, Entry, Mode
<1>3. IsFiniteSet(s) /\ Cardinality(s) <= 4 /\ Cardinality(s) \in Nat
  <2>1. /\ IsFiniteSet({<<e1, 1>>, <<e2, 1>>, <<e3, 1>>, <<e4, 1>>})
        /\ Cardinality({<<e1, 1>>, <<e2, 1>>, <<e3, 1>>, <<e4, 1>>}) <= 4
    <3> HIDE DEF e1, e2, e3, e4
    <3> QED
      BY FourAtMost
  <2> HIDE DEF s
  <2> QED
    BY <1>1, <2>1, FS_CardinalityType
<1>4. IsFiniteSet(Lockable) /\ Cardinality(Lockable) \in Nat
  BY MmuAssumption, FS_CardinalityType
<1>5. DTLB \in Nat /\ ITLB \in Nat /\ DTLB > 4 /\ ITLB > 4
  BY <1>4, MmuAssumption
<1>6. TlbOK(s, DTLB) /\ TlbOK(s, ITLB)
  <2> HIDE DEF s
  <2>1. Cardinality(s) <= DTLB /\ Cardinality(s) <= ITLB /\ 1 \in 1 .. DTLB /\ 1 \in 1 .. ITLB
    BY <1>3, <1>5
  <2> QED
    BY <1>2, <1>3, <2>1 DEF TlbOK, s
<1>7. AllRight(s)
  <2>0. TOS # IO /\ TOS # BAS /\ TOS # DRIVERS /\ IO # BAS /\ BAS # DRIVERS
    BY MmuAssumption
  <2>1. Right(e1) /\ Right(e2) /\ Right(e3) /\ Right(e4)
    BY <2>0 DEF Right
  <2>2. \A v \in s : v[1] \in {e1, e2, e3, e4}
    <3> HIDE DEF s, e1, e2, e3, e4
    <3> QED
      BY <1>1
  <2> HIDE DEF s, e1, e2, e3, e4
  <2> QED
    BY <2>1, <2>2 DEF AllRight
<1>8. Good(dtlb, DTLB) /\ Good(itlb, ITLB)
  BY <1>6, <1>7 DEF Good, MmuInit
<1>9. MmuTypeOK
  BY <1>6 DEF MmuTypeOK, TlbOK, MmuInit, Idle
<1>10. Calls
  BY DEF Calls, MmuInit, Idle
<1>11. LockedOnes(dtlb, locked)
  BY DEF LockedOnes, LockedEntries, MmuInit
<1>12. Budget(dtlb, locked, Half)
  <2>1. LockedEntries(s) = s
    BY InitLocked DEF LockedEntries
  <2>2. Missing(s, {}) = {}
    BY DEF Missing
  <2>3. Cardinality({}) = 0
    BY FS_EmptySet
  <2>4. Half = 0
    BY DEF Half, MmuInit, Idle
  <2> HIDE DEF s
  <2>5. Cardinality(s) + 0 + 0 <= 4 + 2 * 0
    BY <1>3
  <2> QED
    BY <2>1, <2>2, <2>3, <2>4, <2>5 DEF Budget, MmuInit, s
<1>13. LockHolds
  BY DEF LockHolds, MmuInit
<1> QED
  BY <1>8, <1>9, <1>10, <1>11, <1>12, <1>13 DEF MmuInv

LEMMA Sizes == DTLB \in Nat \ {0} /\ ITLB \in Nat \ {0}
<1>1. Cardinality(Lockable) \in Nat
  BY MmuAssumption, FS_CardinalityType
<1> QED
  BY <1>1, MmuAssumption

(* A miss of the data TLB. *)
LEMMA DataMissKeeps ==
    ASSUME MmuInv, NEW p \in Pages, DataMiss(p)
    PROVE  MmuInv'
<1>1. UNCHANGED <<locked, itlb, request, released>> /\ ~Hit(dtlb, p) /\ Registers(p)
  BY DEF DataMiss
<1>2. p \notin System
  <2>1. mmu_init \X {1} \subseteq dtlb
    BY DEF MmuInv, Good
  <2> QED
    BY <1>1, <2>1, InitMapped
<1>3. p # DRIVERS
  BY <1>2 DEF System
<1>4. /\ main' \in {Idle} \cup [op : {"lock"}, page : Lockable]
                   \cup [op : {"found", "overwritten"}, entry : Entry]
      /\ Calls' /\ Half' = Half
      /\ \A q : main = [op |-> "lock", page |-> q] => main' = main
  BY <1>1, <1>3, RegistersKept
<1>5. TlbOK(dtlb, DTLB) /\ IsFiniteSet(dtlb) /\ Budget(dtlb, locked, Half) /\ LockedOnes(dtlb, locked)
  BY DEF MmuInv, Good, TlbOK
<1>6. IsFiniteSet(locked) /\ Half \in {0, 1}
  BY FewLocked
<1>7. /\ Good(dtlb', DTLB) /\ LockedOnes(dtlb', locked) /\ Budget(dtlb', locked, Half)
      /\ LockedEntries(dtlb) \subseteq dtlb'
  <2>1. CASE p \notin Translated
    <3>1. dtlb' = dtlb
      BY <2>1 DEF DataMiss, mmu_map_data_page, lookup_phys
    <3> QED
      BY <3>1 DEF MmuInv, LockedEntries
  <2>2. CASE p \in Translated
    <3> DEFINE e == Descriptor(p, locked)
    <3>1. e \in Entry /\ e.page = p /\ (e.lk <=> p \in locked) /\ Right(e)
      BY <1>3, <2>2, DescriptorIs
    <3>2. dtlb' \in Stores(dtlb, DTLB, e)
      BY <2>2 DEF DataMiss, mmu_map_data_page, lookup_phys
    <3> HIDE DEF e
    <3>3. Stored(dtlb, DTLB, dtlb', e)
      BY <1>5, <3>1, <3>2, Sizes, StoresKeeps
    <3>4. Good(dtlb', DTLB)
      BY <3>1, <3>3, StoredGood DEF MmuInv
    <3>5. LockedOnes(dtlb', locked)
      BY <1>5, <3>1, <3>3, StoredLocked
    <3>6. PICK n \in 1 .. DTLB : dtlb' \subseteq dtlb \cup {<<e, n>>}
      BY <3>3 DEF Stored
    <3>7. LockedEntries(dtlb) \subseteq dtlb'
      BY <3>3 DEF Stored
    <3>8. Budget(dtlb', locked, Half)
      <4>1. CASE LockedEntries(dtlb') = LockedEntries(dtlb)
        BY <1>5, <4>1, BudgetSame
      <4>2. CASE LockedEntries(dtlb') # LockedEntries(dtlb)
        <5>0. PICK v : v \in LockedEntries(dtlb') /\ v \notin LockedEntries(dtlb)
          BY <3>7, <4>2 DEF LockedEntries
        <5>1. /\ e.lk /\ <<e, n>> \in dtlb'
              /\ LockedEntries(dtlb') = LockedEntries(dtlb) \cup {<<e, n>>}
          BY <3>6, <3>7, <5>0 DEF LockedEntries
        <5>2. <<e, n>> \notin LockedEntries(dtlb)
          BY <1>1, <3>1 DEF Hit, LockedEntries
        <5>3. <<e, n>>[1].page \in Missing(dtlb, locked)
          BY <1>1, <3>1, <5>1 DEF Missing, LockedPages, LockedEntries, Hit
        <5> QED
          BY <1>5, <1>6, <5>1, <5>2, <5>3, BudgetAdd
      <4> QED
        BY <4>1, <4>2
    <3> QED
      BY <3>4, <3>5, <3>7, <3>8
  <2> QED
    BY <2>1, <2>2
<1>8. LockHolds'
  BY <1>1, <1>4, <1>7, PagesKept DEF LockHolds, MmuInv
<1>9. MmuTypeOK'
  BY <1>1, <1>4, <1>7 DEF MmuTypeOK, MmuInv, Good, TlbOK
<1> QED
  BY <1>1, <1>4, <1>7, <1>8, <1>9 DEF MmuInv

(* A miss of the instruction TLB: it never maps a page without execute     *)
(* right from its descriptor.                                              *)
LEMMA InstructionMissKeeps ==
    ASSUME MmuInv, NEW pc \in Pages, pc \in Translated => pc # DRIVERS,
           mmu_map_instruction_page(pc), Registers(pc),
           UNCHANGED <<locked, dtlb, request, released>>
    PROVE  MmuInv'
<1>1. /\ main' \in {Idle} \cup [op : {"lock"}, page : Lockable]
                   \cup [op : {"found", "overwritten"}, entry : Entry]
      /\ Calls' /\ Half' = Half
      /\ \A q : main = [op |-> "lock", page |-> q] => main' = main
  BY RegistersKept
<1>2. Good(itlb', ITLB)
  <2>1. CASE pc \notin Translated
    BY <2>1 DEF mmu_map_instruction_page, lookup_phys, MmuInv
  <2>2. CASE pc \in Translated
    <3> DEFINE e == Descriptor(pc, locked)
    <3>1. e \in Entry /\ Right(e)
      BY <2>2, DescriptorIs
    <3>2. itlb' \in Stores(itlb, ITLB, e)
      BY <2>2 DEF mmu_map_instruction_page, lookup_phys
    <3>3. TlbOK(itlb, ITLB) /\ Good(itlb, ITLB)
      BY DEF MmuInv, Good
    <3> HIDE DEF e
    <3>4. Stored(itlb, ITLB, itlb', e)
      BY <3>1, <3>2, <3>3, Sizes, StoresKeeps
    <3> QED
      BY <3>1, <3>3, <3>4, StoredGood
  <2> QED
    BY <2>1, <2>2
<1>3. Good(dtlb', DTLB) /\ LockedOnes(dtlb', locked') /\ Budget(dtlb', locked', Half')
  BY <1>1 DEF MmuInv
<1>4. LockHolds'
  BY <1>1 DEF LockHolds, MmuInv
<1>5. MmuTypeOK'
  BY <1>1, <1>2, <1>3 DEF MmuTypeOK, MmuInv, Good, TlbOK
<1> QED
  BY <1>1, <1>2, <1>3, <1>4, <1>5 DEF MmuInv

LEMMA OpwordMissKeeps ==
    ASSUME MmuInv, NEW pc \in Pages, OpwordMiss(pc)
    PROVE  MmuInv'
<1>1. pc \notin System
  BY InitMapped DEF OpwordMiss, MmuInv, Good
<1> QED
  BY <1>1, InstructionMissKeeps DEF OpwordMiss, System

LEMMA ExtensionMissKeeps ==
    ASSUME MmuInv, NEW pc \in Pages, ExtensionMiss(pc)
    PROVE  MmuInv'
  BY InstructionMissKeeps DEF ExtensionMiss, executable

(* Marking a page locked. *)
LEMMA LockMarkKeeps ==
    ASSUME MmuInv, NEW virt \in Lockable, NEW n \in 1 .. 2, virt + n - 1 \in RAM, LockMark(virt, n)
    PROVE  MmuInv'
<1>1. /\ main = Idle /\ virt \notin locked /\ locked' = locked \cup {virt}
      /\ main' = [op |-> "lock", page |-> virt] /\ UNCHANGED <<dtlb, itlb, released>>
  BY DEF LockMark
<1>2. virt \notin LockedPages(dtlb)
  <2>1. virt \notin System
    BY MmuAssumption
  <2> QED
    BY <1>1, <2>1, InitLocked DEF MmuInv, LockedOnes, LockedPages
<1>3. Half = 0 /\ Half' = 1
  BY <1>1 DEF Half, Idle
<1>4. IsFiniteSet(dtlb) /\ IsFiniteSet(locked)
  BY FewLocked DEF MmuInv, Good, TlbOK
<1>5. Budget(dtlb', locked', Half')
  <2>1. Budget(dtlb, locked, 0)
    BY <1>3 DEF MmuInv
  <2>2. Budget(dtlb, locked \cup {virt}, 1)
    BY <1>1, <1>2, <1>4, <2>1, BudgetMark
  <2> QED
    BY <1>1, <1>3, <2>2
<1>6. LockedOnes(dtlb', locked')
  BY <1>1 DEF MmuInv, LockedOnes
<1>7. Calls'
  BY <1>1 DEF Calls
<1>8. LockHolds'
  <2>1. \A p : main # [op |-> "lock", page |-> p]
    BY <1>1 DEF Idle
  <2> QED
    BY <1>1, <2>1 DEF LockHolds, MmuInv
<1>9. request' \subseteq RAM
  <2>1. virt \in RAM /\ RAM \subseteq Nat
    BY MmuAssumption DEF Translated
  <2>2. \A q \in virt .. virt + n - 1 : q = virt \/ q = virt + n - 1
    BY <2>1
  <2> QED
    BY <2>1, <2>2 DEF LockMark
<1>10. MmuTypeOK'
  BY <1>1, <1>9 DEF MmuTypeOK, MmuInv
<1> QED
  BY <1>1, <1>5, <1>6, <1>7, <1>8, <1>10 DEF MmuInv

LEMMA LockAlreadyKeeps ==
    ASSUME MmuInv, NEW virt \in Lockable, NEW n \in 1 .. 2, virt + n - 1 \in RAM, LockAlready(virt, n)
    PROVE  MmuInv'
<1>1. UNCHANGED <<locked, dtlb, itlb, main, released>> /\ request' = virt .. virt + n - 1
  BY DEF LockAlready
<1>2. request' \subseteq RAM
  <2>1. virt \in RAM /\ RAM \subseteq Nat
    BY MmuAssumption DEF Translated
  <2>2. \A q \in virt .. virt + n - 1 : q = virt \/ q = virt + n - 1
    BY <2>1
  <2> QED
    BY <1>1, <2>1, <2>2
<1>3. MmuTypeOK' /\ Calls' /\ Half' = Half /\ LockHolds'
  BY <1>1, <1>2 DEF MmuInv, MmuTypeOK, Calls, Half, LockHolds
<1> QED
  BY <1>1, <1>3 DEF MmuInv

LEMMA BudgetDone ==
    ASSUME NEW tlb, IsFiniteSet(tlb), NEW lk, IsFiniteSet(lk), Budget(tlb, lk, 1)
    PROVE  Budget(tlb, lk, 0)
<1>1. /\ Cardinality(LockedEntries(tlb)) \in Nat /\ Cardinality(Missing(tlb, lk)) \in Nat
      /\ Cardinality(lk) \in Nat
  BY Finite
<1>2. Cardinality(LockedEntries(tlb)) + Cardinality(Missing(tlb, lk)) + 1 <= 4 + 2 * Cardinality(lk)
  BY DEF Budget
<1>3. Cardinality(LockedEntries(tlb)) + Cardinality(Missing(tlb, lk)) + 0 <= 4 + 2 * Cardinality(lk)
  BY <1>1, <1>2
<1> QED
  BY <1>3 DEF Budget

(* Mapping the page that was marked: there is a place for it. *)
LEMMA LockMapKeeps ==
    ASSUME MmuInv, LockMap
    PROVE  MmuInv'
<1> DEFINE p == main.page
           e == Descriptor(p, locked)
<1>1. main.op = "lock" /\ main' = Idle /\ UNCHANGED <<locked, itlb, request, released>>
  BY DEF LockMap
<1>2. main = [op |-> "lock", page |-> p] /\ p \in Lockable /\ p \in locked
  BY <1>1 DEF MmuInv, MmuTypeOK, Calls, Idle
<1>3. p \in Translated /\ p \notin System
  BY <1>2, MmuAssumption DEF Translated
<1>4. e \in Entry /\ e.page = p /\ e.lk /\ Right(e)
  BY <1>2, <1>3, DescriptorIs DEF System
<1>5. dtlb' \in Stores(dtlb, DTLB, e)
  BY <1>3 DEF LockMap, mmu_map_data_page, lookup_phys
<1>6. TlbOK(dtlb, DTLB) /\ IsFiniteSet(dtlb) /\ Budget(dtlb, locked, Half) /\ LockedOnes(dtlb, locked)
  BY DEF MmuInv, Good, TlbOK
<1>7. /\ IsFiniteSet(locked) /\ Half = 1 /\ Half' = 0
      /\ (\E v \in dtlb : ~v[1].lk) \/ Cardinality(dtlb) < DTLB
  BY <1>1, FewLocked DEF Half, Idle
<1> HIDE DEF p, e
<1>8. Stored(dtlb, DTLB, dtlb', e)
  BY <1>4, <1>5, <1>6, Sizes, StoresKeeps
<1>9. PICK n \in 1 .. DTLB : dtlb' \subseteq dtlb \cup {<<e, n>>} /\ <<e, n>> \in dtlb'
  BY <1>7, <1>8 DEF Stored
<1>10. LockedEntries(dtlb) \subseteq dtlb'
  BY <1>8 DEF Stored
<1>11. Good(dtlb', DTLB) /\ LockedOnes(dtlb', locked)
  BY <1>2, <1>4, <1>6, <1>8, StoredGood, StoredLocked DEF MmuInv
<1>12. LockedEntries(dtlb') = LockedEntries(dtlb) \cup {<<e, n>>}
  BY <1>4, <1>9, <1>10 DEF LockedEntries
<1>13. Budget(dtlb', locked, 0)
  <2>1. CASE <<e, n>> \in LockedEntries(dtlb)
    <3>1. LockedEntries(dtlb') = LockedEntries(dtlb)
      BY <1>12, <2>1
    <3>2. Budget(dtlb, locked, 0)
      BY <1>6, <1>7, BudgetDone
    <3> QED
      BY <3>1, <3>2, BudgetSame
  <2>2. CASE <<e, n>> \notin LockedEntries(dtlb)
    BY <1>6, <1>7, <1>12, <2>2, BudgetAdd
  <2> QED
    BY <2>1, <2>2
<1>14. LockHolds'
  <2>1. p \in LockedPages(dtlb')
    BY <1>4, <1>12 DEF LockedPages
  <2>2. LockedPages(dtlb) \subseteq LockedPages(dtlb')
    BY <1>10, PagesKept
  <2>3. \A q : q # p => main # [op |-> "lock", page |-> q]
    BY <1>2
  <2> QED
    BY <1>1, <2>1, <2>2, <2>3 DEF LockHolds, MmuInv
<1>15. MmuTypeOK' /\ Calls'
  BY <1>1, <1>11 DEF MmuTypeOK, MmuInv, Good, TlbOK, Calls, Idle
<1> QED
  BY <1>1, <1>7, <1>11, <1>13, <1>14, <1>15 DEF MmuInv

LEMMA UnlockSearchKeeps ==
    ASSUME MmuInv, NEW address \in Lockable, UnlockSearch(address)
    PROVE  MmuInv'
<1>1. /\ main = Idle /\ released' = released \cup {address} /\ request' = {}
      /\ UNCHANGED <<locked, dtlb, itlb>>
  BY DEF UnlockSearch
<1>2. \/ main' = main
      \/ \E v \in dtlb : v[1].page = address /\ main' = [op |-> "found", entry |-> v[1]]
  BY DEF UnlockSearch
<1>3. /\ main' \in {Idle} \cup [op : {"found", "overwritten"}, entry : Entry]
      /\ Calls' /\ Half' = Half
  <2>1. CASE main' = main
    BY <1>1, <2>1 DEF Calls, Half, Idle
  <2>2. CASE \E v \in dtlb : v[1].page = address /\ main' = [op |-> "found", entry |-> v[1]]
    <3>1. PICK v \in dtlb : v[1].page = address /\ main' = [op |-> "found", entry |-> v[1]]
      BY <2>2
    <3>2. v[1] \in Entry /\ Right(v[1])
      BY DEF MmuInv, Good, TlbOK, AllRight
    <3>3. main'.op = "found" /\ main'.entry = v[1]
      BY <3>1
    <3>4. Calls'
      BY <1>1, <3>1, <3>2, <3>3 DEF Calls, Right
    <3>5. Half' = Half
      BY <1>1, <3>3 DEF Half, Idle
    <3> QED
      BY <3>1, <3>2, <3>4, <3>5
  <2> QED
    BY <1>2, <2>1, <2>2
<1>4. LockHolds'
  <2>1. \A p : main # [op |-> "lock", page |-> p]
    BY <1>1 DEF Idle
  <2> QED
    BY <1>1, <2>1 DEF LockHolds, MmuInv
<1>5. MmuTypeOK'
  BY <1>1, <1>3 DEF MmuTypeOK, MmuInv
<1> QED
  BY <1>1, <1>3, <1>4, <1>5 DEF MmuInv

LEMMA UnlockedIs ==
    ASSUME NEW e \in Entry, Right(e)
    PROVE  Unlocked(e) \in Entry /\ ~Unlocked(e).lk /\ Right(Unlocked(e))
<1>1. /\ Unlocked(e).page = e.page /\ Unlocked(e).cache = e.cache
      /\ (Unlocked(e).write <=> e.write) /\ ~Unlocked(e).lk /\ Unlocked(e) \in Entry
  BY DEF Unlocked, Entry
<1> QED
  BY <1>1 DEF Right

(* Writing back the entry that was found: its page was released. *)
LEMMA UnlockFoundKeeps ==
    ASSUME MmuInv, UnlockWrite, main.op = "found"
    PROVE  MmuInv'
<1> DEFINE old == main.entry
           e == Unlocked(old)
<1>1. main' = Idle /\ UNCHANGED <<locked, itlb, request, released>>
  BY DEF UnlockWrite
<1>2. /\ old \in Entry /\ old.page \in Lockable /\ old.page \in released /\ Right(old)
  BY DEF MmuInv, MmuTypeOK, Calls, Idle
<1>3. e \in Entry /\ ~e.lk /\ Right(e)
  BY <1>2, UnlockedIs
<1>4. PICK v \in LastCopies(dtlb) : v[1] = old /\ dtlb' \in With(dtlb \ {v}, DTLB, e)
  BY DEF UnlockWrite
<1> HIDE DEF old, e
<1>5. v \in dtlb
  BY <1>4 DEF LastCopies
<1>6. Good(dtlb, DTLB) /\ dtlb \subseteq Entry \X (1 .. DTLB) /\ IsFiniteSet(dtlb) /\ Cardinality(dtlb) <= DTLB
  BY DEF MmuInv, Good, TlbOK
<1>7. TlbOK(dtlb', DTLB) /\ \E n \in 1 .. DTLB : dtlb' = (dtlb \ {v}) \cup {<<e, n>>}
  <2>1. IsFiniteSet(dtlb \ {v}) /\ Cardinality(dtlb \ {v}) = Cardinality(dtlb) - 1
    BY <1>5, <1>6, FS_RemoveElement
  <2>2. Cardinality(dtlb) \in Nat /\ DTLB \in Nat
    BY <1>6, FS_CardinalityType, Sizes
  <2>3. Cardinality(dtlb \ {v}) < DTLB
    BY <1>6, <2>1, <2>2
  <2>4. dtlb \ {v} \subseteq Entry \X (1 .. DTLB)
    BY <1>6
  <2> QED
    BY <1>3, <1>4, <2>1, <2>2, <2>3, <2>4, WithAdds
<1>8. PICK n \in 1 .. DTLB : dtlb' = (dtlb \ {v}) \cup {<<e, n>>}
  BY <1>7
<1>9. Good(dtlb', DTLB)
  <2>1. old.page \notin System
    BY <1>2, MmuAssumption
  <2>2. mmu_init \X {1} \subseteq dtlb'
    BY <1>4, <1>6, <1>8, <2>1, InitLocked DEF Good
  <2>3. AllRight(dtlb')
    BY <1>3, <1>6, <1>8 DEF AllRight, Good
  <2> QED
    BY <1>7, <2>2, <2>3 DEF Good
<1>10. LockedEntries(dtlb') = LockedEntries(dtlb) \ {v}
  BY <1>3, <1>8 DEF LockedEntries
<1>11. LockedOnes(dtlb', locked')
  BY <1>1, <1>10 DEF LockedOnes, MmuInv
<1>12. Half = 0 /\ Half' = 0 /\ IsFiniteSet(locked)
  BY <1>1, FewLocked DEF Half, Idle
<1>13. Budget(dtlb', locked', Half')
  <2>1. Budget(dtlb, locked, 0)
    BY <1>12 DEF MmuInv
  <2>2. Budget(dtlb', locked, 0)
    <3>1. CASE v \in LockedEntries(dtlb)
      BY <1>6, <1>10, <1>12, <2>1, <3>1, BudgetRemove
    <3>2. CASE v \notin LockedEntries(dtlb)
      <4>1. LockedEntries(dtlb') = LockedEntries(dtlb)
        BY <1>10, <3>2
      <4> QED
        BY <2>1, <4>1, BudgetSame
    <3> QED
      BY <3>1, <3>2
  <2> QED
    BY <1>1, <1>12, <2>2
<1>14. LockHolds'
  <2>1. \A q \in LockedPages(dtlb) : q # old.page => q \in LockedPages(dtlb')
    BY <1>4, <1>10 DEF LockedPages
  <2>2. \A q : main # [op |-> "lock", page |-> q]
    OBVIOUS
  <2> QED
    BY <1>1, <1>2, <2>1, <2>2 DEF LockHolds, MmuInv
<1>15. MmuTypeOK' /\ Calls'
  BY <1>1, <1>7 DEF MmuTypeOK, MmuInv, TlbOK, Calls, Idle
<1> QED
  BY <1>1, <1>9, <1>11, <1>13, <1>14, <1>15 DEF MmuInv

(* Writing back the entry of a miss that came between: nothing is unlocked. *)
LEMMA UnlockOverwrittenKeeps ==
    ASSUME MmuInv, UnlockWrite, main.op = "overwritten"
    PROVE  MmuInv'
<1> DEFINE e == Unlocked(main.entry)
<1>1. main' = Idle /\ UNCHANGED <<locked, itlb, request, released>>
  BY DEF UnlockWrite
<1>2. main.entry \in Entry /\ Right(main.entry)
  BY DEF MmuInv, MmuTypeOK, Calls, Idle
<1>3. e \in Entry /\ ~e.lk /\ Right(e)
  BY <1>2, UnlockedIs
<1>4. dtlb' \in Stores(dtlb, DTLB, e)
  BY DEF UnlockWrite
<1> HIDE DEF e
<1>5. Good(dtlb, DTLB) /\ TlbOK(dtlb, DTLB)
  BY DEF MmuInv, Good
<1>6. Stored(dtlb, DTLB, dtlb', e)
  BY <1>3, <1>4, <1>5, Sizes, StoresKeeps
<1>7. Good(dtlb', DTLB)
  BY <1>3, <1>5, <1>6, StoredGood
<1>8. LockedEntries(dtlb') = LockedEntries(dtlb)
  BY <1>3, <1>6 DEF Stored, LockedEntries
<1>9. Half = 0 /\ Half' = 0
  BY <1>1 DEF Half, Idle
<1>10. LockedOnes(dtlb', locked') /\ Budget(dtlb', locked', Half')
  <2>1. Budget(dtlb, locked, 0)
    BY <1>9 DEF MmuInv
  <2>2. Budget(dtlb', locked, 0)
    BY <1>8, <2>1, BudgetSame
  <2>3. LockedOnes(dtlb', locked')
    BY <1>1, <1>8 DEF LockedOnes, MmuInv
  <2> QED
    BY <1>1, <1>9, <2>2, <2>3
<1>11. LockHolds'
  <2>1. LockedPages(dtlb') = LockedPages(dtlb)
    BY <1>8 DEF LockedPages
  <2>2. \A q : main # [op |-> "lock", page |-> q]
    OBVIOUS
  <2> QED
    BY <1>1, <2>1, <2>2 DEF LockHolds, MmuInv
<1>12. MmuTypeOK' /\ Calls'
  BY <1>1, <1>7 DEF MmuTypeOK, MmuInv, Good, TlbOK, Calls, Idle
<1> QED
  BY <1>1, <1>7, <1>10, <1>11, <1>12 DEF MmuInv

LEMMA MmuInvariance == MmuSpec => []MmuInv
<1>1. ASSUME MmuInv, [MmuNext]_mmuVars PROVE MmuInv'
  <2>1. CASE UNCHANGED mmuVars
    BY <1>1, <2>1 DEF mmuVars, MmuInv, MmuTypeOK, Calls, Half, LockHolds
  <2>2. CASE mmutr_miss
    BY <1>1, <2>2, DataMissKeeps, OpwordMissKeeps, ExtensionMissKeeps DEF mmutr_miss
  <2>3. CASE lock_interface
    <3>1. ASSUME NEW virt \in Lockable, NEW n \in 1 .. 2, virt + n - 1 \in RAM,
                 LockAlready(virt, n) \/ LockMark(virt, n)
          PROVE  MmuInv'
      BY <1>1, <3>1, LockAlreadyKeeps, LockMarkKeeps
    <3>2. CASE LockMap
      BY <1>1, <3>2, LockMapKeeps
    <3>3. CASE \E address \in Lockable : UnlockSearch(address)
      BY <1>1, <3>3, UnlockSearchKeeps
    <3>4. CASE UnlockWrite
      <4>1. main.op = "found" \/ main.op = "overwritten"
        BY <3>4 DEF UnlockWrite
      <4> QED
        BY <1>1, <3>4, <4>1, UnlockFoundKeeps, UnlockOverwrittenKeeps
    <3> QED
      BY <2>3, <3>1, <3>2, <3>3, <3>4 DEF lock_interface
  <2> QED
    BY <1>1, <2>1, <2>2, <2>3 DEF MmuNext
<1> QED
  BY <1>1, InitHolds, PTL DEF MmuSpec

(* Whatever is mapped, locked and unlocked, and whatever misses come in    *)
(* between, both TLBs hold the base system's pages as mmu_init mapped      *)
(* them: the miss handler does not miss, driver buffers and I/O are not    *)
(* cached, TOS is not written.                                             *)
THEOREM SystemStays == MmuSpec => []SystemPages
<1>1. ASSUME MmuInv PROVE SystemPages
  <2>1. SystemPagesMapped
    BY <1>1, InitMapped DEF MmuInv, Good, SystemPagesMapped
  <2>2. SystemAttributes
    BY <1>1 DEF MmuInv, Good, AllRight, Right, SystemAttributes
  <2> QED
    BY <1>1, <2>1, <2>2 DEF MmuInv, SystemPages
<1> QED
  BY <1>1, MmuInvariance, PTL

(* A page that is locked and not released since keeps a locked entry: the  *)
(* lock call always finds a place for it, no miss and no other unlock call *)
(* takes it away.                                                          *)
THEOREM LockedStays == MmuSpec => []LockHolds
<1>1. MmuInv => LockHolds
  BY DEF MmuInv
<1> QED
  BY <1>1, MmuInvariance, PTL

(* There are never more than two locked entries for each page marked       *)
(* locked, besides the system's, however many lock and unlock calls are    *)
(* interrupted by misses.                                                  *)
THEOREM LocksBounded == MmuSpec => []LockedEntriesBounded
<1>1. ASSUME MmuInv PROVE LockedEntriesBounded
  <2>1. IsFiniteSet(dtlb) /\ IsFiniteSet(locked) /\ Half \in {0, 1} /\ Budget(dtlb, locked, Half)
    BY <1>1, FewLocked DEF MmuInv, Good, TlbOK
  <2>2. Cardinality(LockedEntries(dtlb)) <= 4 + 2 * Cardinality(locked)
    BY <2>1, BudgetBounds
  <2> QED
    BY <2>2, SystemIsFour DEF LockedEntriesBounded
<1> QED
  BY <1>1, MmuInvariance, PTL
=============================================================================
