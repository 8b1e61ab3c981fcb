---------------------------------- MODULE Mmu ----------------------------------
(***************************************************************************)
(* The MMU (sys/mmu.c) of the FireBee: the page descriptors pages[], and   *)
(* the two TLBs, each a set of entries; those that are equal are told      *)
(* apart by a number.  mmu_init locks the pages the base system itself     *)
(* needs into both; the others come and go with TLB misses; drivers lock   *)
(* pages of their own through the driver interface.                        *)
(*                                                                         *)
(* A page is one of SIZE_DEFAULT (1 MB) and stands for all its addresses.  *)
(* The TLB is hardware: what it replaces is any entry that is not locked.  *)
(* Every call that touches it does so at IPL 7 and is one step; between    *)
(* the two steps of mmu_map_data_page_locked misses can be taken.          *)
(*                                                                         *)
(* Names of the specification start with mmu or Mmu: MemoryProofs extends  *)
(* DriverMem, too, and proves about both.                                  *)
(***************************************************************************)
EXTENDS Integers, FiniteSets

CONSTANTS
    Pages,          (* page numbers, translated or not *)
    ST_RAM, TOS, IO, BAS, DRIVERS,  (* 0-0xd, 0xe, 0xf, and the last two MB *)
    RAM,            (* pages for programs *)
    Lockable,       (* the pages drivers lock *)
    DTLB, ITLB      (* entries of each TLB *)

System == {TOS, IO, BAS, DRIVERS}
Translated == System \cup RAM \cup ST_RAM

ASSUME MmuAssumption ==
    /\ Translated \subseteq Pages /\ Pages \subseteq Nat
    /\ TOS \notin {IO, BAS, DRIVERS} /\ IO \notin {BAS, DRIVERS} /\ BAS # DRIVERS
    /\ (RAM \cup ST_RAM) \cap System = {}
    /\ Lockable \subseteq RAM /\ IsFiniteSet(Lockable)
    /\ DTLB \in Nat /\ ITLB \in Nat /\ ITLB > 4 /\ DTLB > 4 + 2 * Cardinality(Lockable)

VARIABLES
    locked,     (* pages[].locked: the pages that have it set *)
    dtlb, itlb,
    main,       (* the lock or unlock call under way, and the entry that the
                   registers MMUTR and MMUDR hold for it *)
    request,    (* the range mmu_map_data_page_locked was last called for (history) *)
    released    (* pages that mmu_unlock_data_page was called for (history) *)

mmuVars == <<locked, dtlb, itlb, main, request, released>>

Mode == {"copyback", "writethrough", "nocache"}
Entry == [page : Translated, cache : Mode, write : BOOLEAN, lk : BOOLEAN]
Idle == [op |-> "idle"]

MmuTypeOK ==
    /\ locked \subseteq Lockable /\ released \subseteq Lockable /\ request \subseteq RAM
    /\ dtlb \subseteq Entry \X (1 .. DTLB) /\ Cardinality(dtlb) <= DTLB
    /\ itlb \subseteq Entry \X (1 .. ITLB) /\ Cardinality(itlb) <= ITLB
    /\ main \in {Idle} \cup [op : {"lock"}, page : Lockable]
                 \cup [op : {"found", "overwritten"}, entry : Entry]

-----------------------------------------------------------------------------
(* The page descriptors as mmu_init fills them in. *)
cache_mode(p) == IF p = IO THEN "nocache" ELSE IF p \in ST_RAM THEN "writethrough" ELSE "copyback"
writable(p) == p # TOS

(* lookup_phys: whether the translation table holds the page. *)
lookup_phys(p) == p \in Translated

(* Whether instructions of the page are fetched: mmu_init maps the I/O     *)
(* area and the driver buffers with execute = 0.                           *)
executable(p) == p \notin {IO, DRIVERS}

(* The MMUTR and MMUDR of a page that is mapped from its descriptor.       *)
(* Mutants: the lock bit is not taken over; every page is locked.          *)
Descriptor_NoLock(p, lk) ==
    [page |-> p, cache |-> cache_mode(p), write |-> writable(p), lk |-> FALSE]
Descriptor_Lock(p, lk) ==
    [page |-> p, cache |-> cache_mode(p), write |-> writable(p), lk |-> TRUE]

Descriptor(p, lk) ==
    [page |-> p, cache |-> cache_mode(p), write |-> writable(p), lk |-> p \in lk]

(* The mappings of mmu_init, for which it does not use the descriptors.    *)
(* Mutant: that of the driver buffers is not locked.                       *)
mmu_init_DriversNotLocked ==
    {[page |-> TOS, cache |-> "copyback", write |-> FALSE, lk |-> TRUE],
     [page |-> IO, cache |-> "nocache", write |-> TRUE, lk |-> TRUE],
     [page |-> BAS, cache |-> "copyback", write |-> TRUE, lk |-> TRUE],
     [page |-> DRIVERS, cache |-> "nocache", write |-> TRUE, lk |-> FALSE]}

mmu_init ==
    {[page |-> TOS, cache |-> "copyback", write |-> FALSE, lk |-> TRUE],
     [page |-> IO, cache |-> "nocache", write |-> TRUE, lk |-> TRUE],
     [page |-> BAS, cache |-> "copyback", write |-> TRUE, lk |-> TRUE],
     [page |-> DRIVERS, cache |-> "nocache", write |-> TRUE, lk |-> TRUE]}

(* mmu_map_page stores each of them in both TLBs. *)
MmuInit ==
    /\ dtlb = mmu_init \X {1} /\ itlb = mmu_init \X {1}
    /\ locked = {}
    /\ main = Idle /\ request = {} /\ released = {}

-----------------------------------------------------------------------------
(* The hardware: writing MMUOR with ACC and UAA stores an entry in a free  *)
(* place or in place of one that is not locked; with neither, nowhere.     *)
(* Equal entries are numbered from 1: an entry gets the next number, and   *)
(* the last of its equals is the one that goes.                            *)
Hit(tlb, p) == \E v \in tlb : v[1].page = p
LastCopies(tlb) == {v \in tlb : <<v[1], v[2] + 1>> \notin tlb}
Replaceable(tlb) == {v \in LastCopies(tlb) : ~v[1].lk}
With(tlb, size, e) ==
    {tlb \cup {<<e, n>>} : n \in {m \in 1 .. size :
        <<e, m>> \notin tlb /\ (m > 1 => <<e, m - 1>> \in tlb)}}
Stores(tlb, size, e) ==
    (IF Cardinality(tlb) < size THEN With(tlb, size, e) ELSE {})
    \cup (UNION {With(tlb \ {v}, size, e) : v \in Replaceable(tlb)})
    \cup (IF Cardinality(tlb) >= size /\ \A v \in tlb : v[1].lk THEN {tlb} ELSE {})

mmu_map_data_page(p) ==
    IF lookup_phys(p) THEN dtlb' \in Stores(dtlb, DTLB, Descriptor(p, locked))
    ELSE UNCHANGED dtlb

mmu_map_instruction_page(p) ==
    IF lookup_phys(p) THEN itlb' \in Stores(itlb, ITLB, Descriptor(p, locked))
    ELSE UNCHANGED itlb

(* A miss leaves the entry it stored in the registers, whatever a call it  *)
(* interrupted had there.                                                  *)
Registers(p) ==
    main' = IF main.op \in {"found", "overwritten"} /\ lookup_phys(p)
            THEN [op |-> "overwritten", entry |-> Descriptor(p, locked)] ELSE main

(* mmutr_miss, called by the access error handler.  For an extension word  *)
(* that lies in the next page it maps the page of the program counter.     *)
DataMiss(p) ==
    /\ ~Hit(dtlb, p)
    /\ mmu_map_data_page(p) /\ Registers(p)
    /\ UNCHANGED <<locked, itlb, request, released>>

OpwordMiss(pc) ==
    /\ ~Hit(itlb, pc)
    /\ mmu_map_instruction_page(pc) /\ Registers(pc)
    /\ UNCHANGED <<locked, dtlb, request, released>>

ExtensionMiss(pc) ==
    /\ Hit(itlb, pc) /\ executable(pc)
    /\ pc + 1 \in Pages /\ ~Hit(itlb, pc + 1)
    /\ mmu_map_instruction_page(pc) /\ Registers(pc)
    /\ UNCHANGED <<locked, dtlb, request, released>>

mmutr_miss == \E p \in Pages : DataMiss(p) \/ OpwordMiss(p) \/ ExtensionMiss(p)

-----------------------------------------------------------------------------
(* mmu_map_data_page_locked for n pages from virt.  Its loop advances virt *)
(* but not the page it tests and marks, so only the first page is mapped.  *)
LockAlready(virt, n) ==
    /\ main = Idle
    /\ virt \in locked
    /\ request' = virt .. virt + n - 1
    /\ UNCHANGED <<locked, dtlb, itlb, main, released>>

LockMark(virt, n) ==
    /\ main = Idle
    /\ virt \notin locked
    /\ locked' = locked \cup {virt}
    /\ main' = [op |-> "lock", page |-> virt]
    /\ request' = virt .. virt + n - 1
    /\ UNCHANGED <<dtlb, itlb, released>>

LockMap ==
    /\ main.op = "lock"
    /\ mmu_map_data_page(main.page)
    /\ main' = Idle
    /\ UNCHANGED <<locked, itlb, request, released>>

(* mmu_unlock_data_page: searches the DTLB for the address, then writes    *)
(* the entry back without its lock bit, all of it with interrupts enabled. *)
(* The loop advances the page but not the address: more pages are more     *)
(* searches for the first one.                                             *)
UnlockSearch(address) ==
    /\ main = Idle
    /\ released' = released \cup {address} /\ request' = {}
    /\ IF Hit(dtlb, address)
       THEN \E v \in dtlb :
                v[1].page = address /\ main' = [op |-> "found", entry |-> v[1]]
       ELSE UNCHANGED main
    /\ UNCHANGED <<locked, dtlb, itlb>>

Unlocked(e) == [e EXCEPT !.lk = FALSE]

UnlockWrite ==
    /\ \/ /\ main.op = "found"
          /\ \E v \in LastCopies(dtlb) :
                v[1] = main.entry /\ dtlb' \in With(dtlb \ {v}, DTLB, Unlocked(main.entry))
       \/ /\ main.op = "overwritten"
          /\ dtlb' \in Stores(dtlb, DTLB, Unlocked(main.entry))
    /\ main' = Idle
    /\ UNCHANGED <<locked, itlb, request, released>>

lock_interface ==
    \/ \E virt \in Lockable, n \in 1 .. 2 :
          virt + n - 1 \in RAM /\ (LockAlready(virt, n) \/ LockMark(virt, n))
    \/ LockMap
    \/ \E address \in Lockable : UnlockSearch(address)
    \/ UnlockWrite

MmuNext == mmutr_miss \/ lock_interface

MmuSpec == MmuInit /\ [][MmuNext]_mmuVars

-----------------------------------------------------------------------------
LockedEntries(tlb) == {v \in tlb : v[1].lk}
LockedPages(tlb) == {v[1].page : v \in LockedEntries(tlb)}

(* The miss handler itself needs the second last MB (its code, stack and   *)
(* data) and the I/O area: these pages are always in both TLBs, whatever   *)
(* is mapped, locked and unlocked, so that a miss never meets a miss.      *)
SystemPagesMapped == \A p \in System : Hit(dtlb, p) /\ Hit(itlb, p)

(* Driver buffers and I/O are never cached and TOS is never written to,    *)
(* although the page descriptors say "copyback" of the driver buffers: an  *)
(* entry made from the descriptor must not replace or join mmu_init's.     *)
SystemAttributes ==
    \A v \in dtlb \cup itlb :
        /\ v[1].page \in {DRIVERS, IO} => v[1].cache = "nocache"
        /\ v[1].page = TOS => ~v[1].write

(* What the base system runs on: its pages, as it mapped them. *)
SystemPages == MmuTypeOK /\ SystemPagesMapped /\ SystemAttributes

(* A page that was locked and not unlocked since has a locked DTLB entry:  *)
(* no number of misses makes the hardware replace it.                      *)
LockHolds ==
    \A p \in locked \ released : main # [op |-> "lock", page |-> p] => p \in LockedPages(dtlb)

(* Locking, with the misses that can come between its two steps and the    *)
(* unlock calls that a miss undoes, uses up at most two DTLB entries for a *)
(* page: there is always one left to serve a miss with (the FIXME of       *)
(* mmu_map_data_page_locked: "no check for too many locked pages").        *)
LockedEntriesBounded ==
    Cardinality(LockedEntries(dtlb)) <= Cardinality(System) + 2 * Cardinality(locked)

(* "lock data page(s) ... from address virt to virt + size" (mmu.c:880):   *)
(* when the call has returned, every page of the range has a locked entry. *)
(* (This does not hold for more than one page; see README.md.)             *)
RangeLocked == main = Idle => request \subseteq LockedPages(dtlb)
=============================================================================
