------------------------------- MODULE DriverMem -------------------------------
(***************************************************************************)
(* Driver memory (sys/driver_mem.c): blocks of the uncached driver_mem     *)
(* buffer, allocated first fit behind a roving pointer and joined with     *)
(* their neighbours when freed.  Memory descriptors (MD) come from a table *)
(* of MAXMD.                                                               *)
(*                                                                         *)
(* Allocating and freeing run at IPL 7 and so are one step each.  A list   *)
(* of MDs is the sequence of its members, a free list behind mp_mfl, an    *)
(* allocated one behind mp_mal; addresses count from the buffer's start.   *)
(***************************************************************************)
EXTENDS Integers, FiniteSets, SequencesExt

CONSTANTS
    DRIVER_MEM_BUFFER_SIZE,
    MAXMD,
    Amounts         (* the amounts the users ask for, in bytes *)

ASSUME DriverMemAssumption ==
    /\ DRIVER_MEM_BUFFER_SIZE \in Nat \ {0} /\ DRIVER_MEM_BUFFER_SIZE % 16 = 0
    /\ MAXMD \in Nat \ {0}
    /\ Amounts \subseteq Nat \ {0}

VARIABLES
    tab_md,     (* the MD table: start, length, and whether m_own is set *)
    pmd,        (* the partition: free list, allocated list, rover *)
    result      (* the last call and what it returned *)

vars == <<tab_md, pmd, result>>

MD == 0 .. MAXMD - 1
NULL == -1
Address == 0 .. DRIVER_MEM_BUFFER_SIZE - 1

TypeOK ==
    /\ tab_md \in [MD -> [m_start : Address, m_length : 0 .. DRIVER_MEM_BUFFER_SIZE,
                          m_own : BOOLEAN]]
    /\ pmd.mfl \in Seq(MD) /\ pmd.mal \in Seq(MD) /\ pmd.rover \in MD \cup {NULL}
    /\ result \in [call : {"none", "alloc", "query", "free"},
                   value : 0 .. DRIVER_MEM_BUFFER_SIZE \cup {NULL}]

(* driver_mem_init, the first time: one free block. *)
Init ==
    /\ tab_md = [m \in MD |-> IF m = 0
            THEN [m_start |-> 0, m_length |-> DRIVER_MEM_BUFFER_SIZE, m_own |-> TRUE]
            ELSE [m_start |-> 0, m_length |-> 0, m_own |-> FALSE]]
    /\ pmd = [mfl |-> <<0>>, mal |-> <<>>, rover |-> 0]
    /\ result = [call |-> "none", value |-> 0]

-----------------------------------------------------------------------------
Returns(call, value) == result' = [call |-> call, value |-> value]

(* Amounts are made even by driver_mem_alloc, then a multiple of 16. *)
Rounded(n) == ((n + (n % 2) + 15) \div 16) * 16

Unused == {m \in MD : ~tab_md[m].m_own}
xmgetblk == CHOOSE m \in Unused : \A n \in Unused : m <= n

(* MD 0 is not given back. *)
xmfreblk(tab, m) == IF m > 0 THEN [tab EXCEPT ![m].m_own = FALSE] ELSE tab

(* The free list in the order ffit searches it: behind the rover to the    *)
(* end, then from the beginning up to the rover.  A position's turn:       *)
RoverAt == CHOOSE k \in 1 .. Len(pmd.mfl) : pmd.mfl[k] = pmd.rover
Turn(k) == (k - RoverAt - 1) % Len(pmd.mfl)

(* Mutant: the search ends before it is back at the rover. *)
Fits_NotRover(amount) ==
    {k \in 1 .. Len(pmd.mfl) : tab_md[pmd.mfl[k]].m_length >= amount /\ pmd.mfl[k] # pmd.rover}

Fits(amount) == {k \in 1 .. Len(pmd.mfl) : tab_md[pmd.mfl[k]].m_length >= amount}

FirstFit(amount) == CHOOSE k \in Fits(amount) : \A j \in Fits(amount) : Turn(k) <= Turn(j)

(* The block at position k, all of it, or its beginning, is allocated.  Of *)
(* the free list, what becomes of position k is given.                     *)
Take(k, mfl) ==
    LET p == pmd.mfl[k]
    IN  /\ pmd' = [mfl |-> mfl, mal |-> <<p>> \o pmd.mal,
                   rover |-> IF k > 1 THEN pmd.mfl[k - 1]
                             ELSE IF mfl = <<>> THEN NULL ELSE Head(mfl)]
        /\ Returns("alloc", tab_md[p].m_start)

TakeWhole(amount) ==
    LET k == FirstFit(amount)
    IN  /\ tab_md[pmd.mfl[k]].m_length = amount
        /\ Take(k, RemoveAt(pmd.mfl, k))
        /\ UNCHANGED tab_md

Remainder(p, amount) ==
    [m_start |-> tab_md[p].m_start + amount,
     m_length |-> tab_md[p].m_length - amount, m_own |-> TRUE]

Split(amount) ==
    LET k == FirstFit(amount)
        p == pmd.mfl[k]
    IN  /\ tab_md[p].m_length > amount
        /\ Unused # {}
        /\ Take(k, ReplaceAt(pmd.mfl, k, xmgetblk))
        /\ tab_md' = [tab_md EXCEPT ![xmgetblk] = Remainder(p, amount),
                                    ![p].m_length = amount]

NoDescriptor(amount) ==
    /\ tab_md[pmd.mfl[FirstFit(amount)]].m_length > amount
    /\ Unused = {}
    /\ Returns("alloc", NULL)
    /\ UNCHANGED <<tab_md, pmd>>

driver_mem_alloc(n) ==
    IF Fits(Rounded(n)) = {}
    THEN Returns("alloc", NULL) /\ UNCHANGED <<tab_md, pmd>>
    ELSE TakeWhole(Rounded(n)) \/ Split(Rounded(n)) \/ NoDescriptor(Rounded(n))

(* driver_mem_alloc(-1): the longest free block, less 15, rounded down. *)
Longest == Max({0} \cup {tab_md[pmd.mfl[k]].m_length : k \in 1 .. Len(pmd.mfl)})

driver_mem_query ==
    /\ Returns("query", IF Longest < 15 THEN 0 ELSE ((Longest - 15) \div 16) * 16)
    /\ UNCHANGED <<tab_md, pmd>>

-----------------------------------------------------------------------------
(* freeit works on the table and the list h = [tab, mfl, rover].  The      *)
(* block at position k is joined with the next one if they touch.          *)
Touch(h, k) ==
    /\ k \in 1 .. Len(h.mfl) - 1
    /\ h.tab[h.mfl[k]].m_start + h.tab[h.mfl[k]].m_length = h.tab[h.mfl[k + 1]].m_start

(* Mutant: the rover stays at the block that is gone. *)
Join_RoverStays(h, k) ==
    LET low == h.mfl[k]  high == h.mfl[k + 1]
    IN  [tab |-> xmfreblk([h.tab EXCEPT ![low].m_length = @ + h.tab[high].m_length], high),
         mfl |-> RemoveAt(h.mfl, k + 1), rover |-> h.rover]

Join(h, k) ==
    LET low == h.mfl[k]  high == h.mfl[k + 1]
    IN  [tab |-> xmfreblk([h.tab EXCEPT ![low].m_length = @ + h.tab[high].m_length], high),
         mfl |-> RemoveAt(h.mfl, k + 1),
         rover |-> IF h.rover = high THEN low ELSE h.rover]

JoinTouching(h, k) == IF Touch(h, k) THEN Join(h, k) ELSE h

(* m goes before the first block that does not start below it. *)
freeit(m) ==
    LET k == CHOOSE i \in 1 .. Len(pmd.mfl) + 1 :
                /\ i <= Len(pmd.mfl) => tab_md[m].m_start <= tab_md[pmd.mfl[i]].m_start
                /\ \A j \in 1 .. i - 1 : tab_md[m].m_start > tab_md[pmd.mfl[j]].m_start
        h == [tab |-> tab_md, mfl |-> InsertAt(pmd.mfl, k, m),
              rover |-> IF pmd.rover = NULL THEN m ELSE pmd.rover]
    IN  JoinTouching(JoinTouching(h, k), k - 1)

(* The allocated block at addr, which is the first found. *)
Freed(addr, i) ==
    /\ tab_md[pmd.mal[i]].m_start = addr
    /\ \A j \in 1 .. i - 1 : tab_md[pmd.mal[j]].m_start # addr

driver_mem_free(addr) ==
    \/ \E i \in 1 .. Len(pmd.mal) :
          /\ Freed(addr, i)
          /\ LET h == freeit(pmd.mal[i])
             IN  /\ tab_md' = h.tab
                 /\ pmd' = [mfl |-> h.mfl, mal |-> RemoveAt(pmd.mal, i), rover |-> h.rover]
          /\ Returns("free", 0)
    \/ /\ \A i \in 1 .. Len(pmd.mal) : tab_md[pmd.mal[i]].m_start # addr
       /\ Returns("free", NULL)
       /\ UNCHANGED <<tab_md, pmd>>

-----------------------------------------------------------------------------
Next ==
    \/ \E n \in Amounts : driver_mem_alloc(n)
    \/ driver_mem_query
    \/ \E addr \in Address : addr % 16 = 0 /\ driver_mem_free(addr)

Spec == Init /\ [][Next]_vars

-----------------------------------------------------------------------------
Lists == pmd.mfl \o pmd.mal

Covers(m, a) == tab_md[m].m_start <= a /\ a < tab_md[m].m_start + tab_md[m].m_length

(* Every byte of the buffer belongs to exactly one block of the two lists: *)
(* splitting and joining neither lose memory nor give it out twice.        *)
Partition ==
    \A a \in Address :
        /\ \E i \in 1 .. Len(Lists) : Covers(Lists[i], a)
        /\ \A i, j \in 1 .. Len(Lists) : Covers(Lists[i], a) /\ Covers(Lists[j], a) => i = j

(* The free list is in the order of addresses, and no two of its blocks    *)
(* touch, so a request never fails for memory that is free in one piece.   *)
SortedAndJoined ==
    \A k \in 1 .. Len(pmd.mfl) - 1 :
        tab_md[pmd.mfl[k]].m_start + tab_md[pmd.mfl[k]].m_length < tab_md[pmd.mfl[k + 1]].m_start

(* The MDs in use are those on the lists: none leaks, although xmfreblk    *)
(* refuses MD 0, and none in use can be handed out again by xmgetblk.      *)
DescriptorsAccounted == {m \in MD : tab_md[m].m_own} = {Lists[i] : i \in 1 .. Len(Lists)}

(* The rover is on the free list, unless that is empty: ffit, which stops  *)
(* when it comes back to the rover, would otherwise search for ever.       *)
RoverOnFreeList ==
    IF pmd.mfl = <<>> THEN pmd.rover = NULL
    ELSE \E k \in 1 .. Len(pmd.mfl) : pmd.mfl[k] = pmd.rover

(* What every operation may count on when it starts, and must restore.     *)
ListsConsistent ==
    /\ TypeOK
    /\ Partition
    /\ SortedAndJoined
    /\ DescriptorsAccounted
    /\ RoverOnFreeList

(* Driver memory is a heap: allocated blocks never overlap, and a request  *)
(* fails only for lack of room or of MDs.                                  *)
Promise == INSTANCE Heap WITH
    Size <- DRIVER_MEM_BUFFER_SIZE, Limit <- MAXMD,
    Lengths <- {Rounded(n) : n \in Amounts},
    blocks <- {[start |-> tab_md[pmd.mal[i]].m_start, length |-> tab_md[pmd.mal[i]].m_length] :
                  i \in 1 .. Len(pmd.mal)}

IsHeap == Promise!Spec
=============================================================================
