----------------------------------- MODULE Pci -----------------------------------
(***************************************************************************)
(* The PCI bus (pci/pci.c).  pci_scan gives every card it finds an index   *)
(* and configures it: it probes the base address registers (BARs) and the  *)
(* expansion ROM for what they need, gives each a range of addresses and a *)
(* resource descriptor, and lets the card respond.  Later, drivers hook    *)
(* and unhook their interrupt handlers, while an interrupt may at any time *)
(* call all that are in the table.                                         *)
(*                                                                         *)
(* Addresses count from the beginning of the memory and the I/O window.    *)
(* BARs of 64 bits are left out (see the README).                          *)
(***************************************************************************)
EXTENDS Integers, Sequences, FiniteSets, SequencesExt

CONSTANTS
    NUM_CARDS, NUM_RESOURCES, MAX_INTERRUPTS,
    BARS,           (* of a card *)
    Sizes,          (* a card can ask for *)
    NUM_FOUND       (* cards on the bus, the host bridge being the first *)

(* Sizes are powers of two, as the masks of pci_device_config have them:   *)
(* each divides the larger ones.                                           *)
ASSUME PciAssumption ==
    /\ NUM_CARDS \in Nat /\ NUM_RESOURCES \in Nat /\ BARS \in Nat
    /\ MAX_INTERRUPTS \in Nat /\ MAX_INTERRUPTS > 0
    /\ NUM_FOUND \in Nat /\ NUM_FOUND > 0 /\ NUM_FOUND < NUM_CARDS
    /\ BARS + 1 <= NUM_RESOURCES
    /\ Sizes \subseteq Nat \ {0}
    /\ \A s, t \in Sizes : s <= t => t % s = 0

VARIABLES
    bus,            (* the cards: what they ask for, their BARs, the command register *)
    scan,           (* where pci_scan is *)
    descriptors,    (* resource_descriptors, of each card *)
    address,        (* mem_address and io_address *)
    interrupts,     (* the table of handlers *)
    hooking         (* where pci_hook_interrupt or pci_unhook_interrupt is *)

vars == <<bus, scan, descriptors, address, interrupts, hooking>>

Handles == 1 .. NUM_FOUND   (* PCI_HANDLE is never 0: devices start at 10 *)
NULL == 0
Slots == 1 .. MAX_INTERRUPTS
None == [kind |-> "none", size |-> 0]
Requests == [kind : {"mem", "io"}, size : Sizes]
Roms == {None} \cup [kind : {"rom"}, size : Sizes]
(* What a card asks for, the expansion ROM last. *)
Cards == {[i \in 1 .. BARS + 1 |-> IF i <= BARS THEN bars[i] ELSE rom] :
              bars \in [1 .. BARS -> {None} \cup Requests], rom \in Roms}
Bridge == [i \in 1 .. BARS + 1 |-> None]
Window(kind) == IF kind = "io" THEN "io" ELSE "mem"
UNSET == -1     (* a register without a range: zero, or the ones of the probe *)
CUT == -1       (* a handler's address, cleared in part *)
Empty == [handle |-> NULL, handler |-> NULL, parameter |-> NULL]
Done == [op |-> "none", handle |-> NULL, slot |-> NULL, step |-> 0]

TypeOK ==
    /\ bus \in [Handles -> [wants : Cards \cup {Bridge}, bar : [1 .. BARS + 1 -> Int],
                            cr : SUBSET {"io", "mem"}]]
    /\ scan \in [index : 1 .. NUM_FOUND + 1, bar : 0 .. BARS + 2, cr : SUBSET {"io", "mem"}]
    /\ \A h \in Handles : Len(descriptors[h]) <= NUM_RESOURCES
    /\ \A h \in Handles : \A i \in 1 .. Len(descriptors[h]) :
          descriptors[h][i] \in [kind : {"mem", "io", "rom"}, start : Nat, length : Sizes,
                                 last : BOOLEAN]
    /\ address \in [{"io", "mem"} -> Nat]
    /\ interrupts \in [Slots -> [handle : Handles \cup {NULL}, handler : Handles \cup {NULL, CUT},
                                 parameter : Handles \cup {NULL}]]
    /\ hooking \in [op : {"none", "hook", "unhook"}, handle : Handles \cup {NULL},
                    slot : Slots \cup {NULL}, step : 0 .. 3]

Init ==
    /\ \E wants \in [Handles -> Cards] :
          /\ wants[1] = Bridge
          /\ bus = [h \in Handles |-> [wants |-> wants[h], bar |-> [i \in 1 .. BARS + 1 |-> UNSET],
                                       cr |-> {}]]
    /\ scan = [index |-> 1, bar |-> 0, cr |-> {}]
    /\ descriptors = [h \in Handles |-> <<>>]
    /\ address = [w \in {"io", "mem"} |-> 0]
    /\ interrupts = [s \in Slots |-> Empty]
    /\ hooking = Done

-----------------------------------------------------------------------------
Scanning == scan.index <= NUM_FOUND

(* The next address that suits a range of the size. *)
Align(a, size) == ((a + size - 1) \div size) * size

(* pci_bridge_config, the card that pci_scan does not give resources. *)
pci_bridge_config ==
    /\ scan.index = 1
    /\ bus' = [bus EXCEPT ![1].cr = {"mem"}]
    /\ scan' = [scan EXCEPT !.index = 2]
    /\ UNCHANGED <<descriptors, address, interrupts, hooking>>

(* pci_device_config: the card stops to respond. *)
DisableCard ==
    /\ Scanning /\ scan.index > 1 /\ scan.bar = 0
    /\ bus' = [bus EXCEPT ![scan.index].cr = {}]
    /\ scan' = [scan EXCEPT !.bar = 1, !.cr = {}]
    /\ UNCHANGED <<descriptors, address, interrupts, hooking>>

(* Mutant: the ranges start at the same address. *)
Advanced_Never(a, window, size) == a
Advanced(a, window, size) == [a EXCEPT ![window] = @ + size]

(* pci_device_config for one register: its range, if it is in use.         *)
(* Mutant: the card responds as soon as one register is set.               *)
ConfigureRegister_Responds ==
    LET h == scan.index
        i == scan.bar
        want == bus[h].wants[i]
        window == Window(want.kind)
        start == Align(address[window], want.size)
    IN  /\ Scanning /\ i \in 1 .. BARS + 1
        /\ IF want = None THEN UNCHANGED <<bus, descriptors, address>>
           ELSE /\ bus' = [bus EXCEPT ![h].bar[i] = start, ![h].cr = @ \cup {window}]
                /\ descriptors' = [descriptors EXCEPT ![h] =
                       Append(@, [kind |-> want.kind, start |-> start, length |-> want.size,
                                  last |-> FALSE])]
                /\ address' = Advanced(address, window, want.size)
        /\ scan' = [scan EXCEPT !.bar = @ + 1,
                                !.cr = IF want = None THEN @ ELSE @ \cup {window}]
        /\ UNCHANGED <<interrupts, hooking>>

ConfigureRegister ==
    LET h == scan.index
        i == scan.bar
        want == bus[h].wants[i]
        window == Window(want.kind)
        start == Align(address[window], want.size)
    IN  /\ Scanning /\ i \in 1 .. BARS + 1
        /\ IF want = None THEN UNCHANGED <<bus, descriptors, address>>
           ELSE /\ bus' = [bus EXCEPT ![h].bar[i] = start]
                /\ descriptors' = [descriptors EXCEPT ![h] =
                       Append(@, [kind |-> want.kind, start |-> start, length |-> want.size,
                                  last |-> FALSE])]
                /\ address' = Advanced(address, window, want.size)
        /\ scan' = [scan EXCEPT !.bar = @ + 1,
                                !.cr = IF want = None THEN @ ELSE @ \cup {window}]
        /\ UNCHANGED <<interrupts, hooking>>

(* Mutant: the end of the chain is marked at the first descriptor. *)
WithEnd_First(chain) == IF chain = <<>> THEN chain ELSE [chain EXCEPT ![1].last = TRUE]

WithEnd(chain) == IF chain = <<>> THEN chain ELSE [chain EXCEPT ![Len(chain)].last = TRUE]

(* The end of pci_device_config: the card responds. *)
EnableCard ==
    LET h == scan.index IN
    /\ Scanning /\ scan.bar = BARS + 2
    /\ descriptors' = [descriptors EXCEPT ![h] = WithEnd(@)]
    /\ bus' = [bus EXCEPT ![h].cr = scan.cr]
    /\ scan' = [index |-> h + 1, bar |-> 0, cr |-> {}]
    /\ UNCHANGED <<address, interrupts, hooking>>

-----------------------------------------------------------------------------
(* pci_hook_interrupt of a driver that has not hooked yet; its handler and *)
(* its parameter go by the card's handle.  The fields are written one by   *)
(* one, with interrupts enabled.                                           *)
SlotsOf(h) == {s \in Slots : interrupts[s].handle = h}
Hooked == {h \in Handles : SlotsOf(h) # {}}
IsFirst(s, S) == s \in S /\ \A t \in S : s <= t

pci_hook_interrupt(h) ==
    /\ ~Scanning /\ hooking = Done /\ h \notin Hooked
    /\ \/ /\ SlotsOf(NULL) = {}       (* PCI_BUFFER_TOO_SMALL *)
          /\ UNCHANGED <<interrupts, hooking>>
       \/ \E s \in Slots :
             /\ IsFirst(s, SlotsOf(NULL))
             /\ interrupts' = [interrupts EXCEPT ![s].handle = h]
             /\ hooking' = [op |-> "hook", handle |-> h, slot |-> s, step |-> 1]
    /\ UNCHANGED <<bus, scan, descriptors, address>>

HookHandler ==
    /\ hooking.op = "hook" /\ hooking.step = 1
    /\ interrupts' = [interrupts EXCEPT ![hooking.slot].handler = hooking.handle]
    /\ hooking' = [hooking EXCEPT !.step = 2]
    /\ UNCHANGED <<bus, scan, descriptors, address>>
HookParameter ==
    /\ hooking.op = "hook" /\ hooking.step = 2
    /\ interrupts' = [interrupts EXCEPT ![hooking.slot].parameter = hooking.handle]
    /\ hooking' = Done
    /\ UNCHANGED <<bus, scan, descriptors, address>>

(* pci_unhook_interrupt.  memset clears the slot byte by byte from its     *)
(* beginning on, with interrupts enabled.  The interrupt chain looks at    *)
(* the handler and then at the parameter: it can tell a handler's address  *)
(* cleared in part, CUT, but no other field cleared in part.               *)
(* Mutants: only the handle is cleared; the parameter is left.             *)
pci_unhook_interrupt_HandleOnly(h) ==
    /\ ~Scanning /\ hooking = Done
    /\ \E s \in Slots :
          /\ IsFirst(s, SlotsOf(h))
          /\ interrupts' = [interrupts EXCEPT ![s].handle = NULL]
    /\ UNCHANGED <<bus, scan, descriptors, address, hooking>>
pci_unhook_interrupt(h) ==
    /\ ~Scanning /\ hooking = Done
    /\ \/ /\ SlotsOf(h) = {}          (* PCI_DEVICE_NOT_FOUND *)
          /\ UNCHANGED <<interrupts, hooking>>
       \/ \E s \in Slots :
             /\ IsFirst(s, SlotsOf(h))
             /\ interrupts' = [interrupts EXCEPT ![s].handle = NULL]
             /\ hooking' = [op |-> "unhook", handle |-> h, slot |-> s, step |-> 1]
    /\ UNCHANGED <<bus, scan, descriptors, address>>
CutHandler ==
    /\ hooking.op = "unhook" /\ hooking.step = 1
    /\ interrupts' = [interrupts EXCEPT ![hooking.slot].handler = CUT]
    /\ hooking' = [hooking EXCEPT !.step = 2]
    /\ UNCHANGED <<bus, scan, descriptors, address>>
UnhookHandler ==
    /\ hooking.op = "unhook" /\ hooking.step = 2
    /\ interrupts' = [interrupts EXCEPT ![hooking.slot].handler = NULL]
    /\ hooking' = [hooking EXCEPT !.step = 3]
    /\ UNCHANGED <<bus, scan, descriptors, address>>
UnhookParameter_Kept ==
    /\ hooking.op = "unhook" /\ hooking.step = 3
    /\ hooking' = Done
    /\ UNCHANGED <<bus, scan, descriptors, address, interrupts>>
UnhookParameter ==
    /\ hooking.op = "unhook" /\ hooking.step = 3
    /\ interrupts' = [interrupts EXCEPT ![hooking.slot].parameter = NULL]
    /\ hooking' = Done
    /\ UNCHANGED <<bus, scan, descriptors, address>>

pci_scan == pci_bridge_config \/ DisableCard \/ ConfigureRegister \/ EnableCard

Next ==
    \/ pci_scan
    \/ \E h \in Handles : pci_hook_interrupt(h) \/ pci_unhook_interrupt(h)
    \/ HookHandler \/ HookParameter \/ CutHandler \/ UnhookHandler \/ UnhookParameter

Spec == Init /\ [][Next]_vars

-----------------------------------------------------------------------------
(* The ranges a card responds to. *)
Ranges(h) == {i \in 1 .. BARS + 1 : bus[h].wants[i] # None}
Responds(h, i) == Window(bus[h].wants[i].kind) \in bus[h].cr
Addresses(h, i) == bus[h].bar[i] .. bus[h].bar[i] + bus[h].wants[i].size - 1

(* While a card is being configured its registers hold the ones of the     *)
(* probe or nothing; a card responds to addresses only when each of its    *)
(* registers holds a range, which starts at a multiple of its size.        *)
RespondsConfigured ==
    \A h \in Handles : \A i \in Ranges(h) :
        Responds(h, i) => bus[h].bar[i] # UNSET /\ bus[h].bar[i] % bus[h].wants[i].size = 0

(* A driver that walks the chain of a configured card up to FLG_LAST finds *)
(* each range the card responds to, and no other; and the variables keep   *)
(* their types.                                                            *)
Walked(chain) ==
    {d \in ToSet(chain) : \E i \in 1 .. Len(chain) :
        chain[i] = d /\ \A j \in 1 .. i - 1 : ~chain[j].last}
ChainTellsRanges ==
    /\ TypeOK
    /\ \A h \in Handles : h < scan.index =>
        /\ {<<d.kind, d.start, d.length>> : d \in Walked(descriptors[h])} =
           {<<bus[h].wants[i].kind, bus[h].bar[i], bus[h].wants[i].size>> : i \in Ranges(h)}
        /\ \A i \in Ranges(h) : Responds(h, i)
        /\ descriptors[h] # <<>> => Last(descriptors[h]).last

(* "Calculate a valid map adress with alignment requirements" (pci.c:816): *)
(* no two registers that are in use get ranges that overlap.               *)
Assigned == {r \in Handles \X (1 .. BARS + 1) : bus[r[1]].bar[r[2]] # UNSET}
Overlap(r, s) ==
    /\ Window(bus[r[1]].wants[r[2]].kind) = Window(bus[s[1]].wants[s[2]].kind)
    /\ Addresses(r[1], r[2]) \cap Addresses(s[1], s[2]) # {}
NoOverlap == \A r, s \in Assigned : r # s => ~Overlap(r, s)

(* Ranges do not overlap as long as each is at most as large as all before *)
(* it in its window: then no gap is left for alignment, which the address  *)
(* kept for the next range would not count.                                *)
Before(r, s) == r[1] < s[1] \/ (r[1] = s[1] /\ r[2] < s[2])
SortedNoOverlap ==
    (\A r, s \in Assigned :
        /\ Before(r, s)
        /\ Window(bus[r[1]].wants[r[2]].kind) = Window(bus[s[1]].wants[s[2]].kind)
        => bus[r[1]].wants[r[2]].size >= bus[s[1]].wants[s[2]].size)
    => NoOverlap

(* pci_call_interrupt_chain: what an interrupt at this moment would call.  *)
pci_call_interrupt_chain ==
    {<<interrupts[s].handler, interrupts[s].parameter>> :
        s \in {t \in Slots : interrupts[t].handler # NULL}}

(* Whenever an interrupt comes, also between two stores of the driver that *)
(* hooks or unhooks, no card's handler is called with the parameter of     *)
(* another card, which may have had the slot before.  An address cleared   *)
(* in part, which pci_unhook_interrupt does leave to be called, is only    *)
(* that of the card being unhooked, and only until the call returns.       *)
NoForeignParameter ==
    \A call \in pci_call_interrupt_chain :
        IF call[1] = CUT THEN hooking.op = "unhook" /\ call[2] = hooking.handle
        ELSE call[2] \in {call[1], NULL}

(* The handler of a card that is hooked is called with its parameter, and  *)
(* that of a card that is not is never called.                             *)
Steady(h) == hooking.handle # h
CalledWhileHooked ==
    \A h \in Handles : Steady(h) =>
        /\ h \in Hooked => <<h, h>> \in pci_call_interrupt_chain
        /\ h \notin Hooked => \A call \in pci_call_interrupt_chain : call[1] # h
=============================================================================
