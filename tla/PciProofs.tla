------------------------------- MODULE PciProofs -------------------------------
(***************************************************************************)
(* Proofs about Pci, for any number of cards, registers and slots and any  *)
(* sizes.  Whenever the interrupt comes while a driver hooks or unhooks    *)
(* its handler, no handler gets another card's parameter, and hooked       *)
(* handlers and no others are called.  While and after the bus is scanned, *)
(* a card responds only with all its registers set, a chain of descriptors *)
(* tells the ranges of its card, and ranges whose sizes do not grow do not *)
(* overlap.                                                                *)
(***************************************************************************)
EXTENDS Pci, TLAPS

(***************************************************************************)
(* Multiples, as the addresses that are assigned to the cards are.         *)
(***************************************************************************)
LEMMA Division ==
    ASSUME NEW a \in Nat, NEW b \in Nat \ {0}
    PROVE  /\ a % b \in 0 .. b - 1
           /\ a = b * (a \div b) + (a % b)
           /\ a \div b \in Nat
OBVIOUS

LEMMA RemainderUnique ==
    ASSUME NEW b \in Nat \ {0}, NEW q \in Int, NEW s \in Int,
           NEW r \in 0 .. b - 1, NEW t \in 0 .. b - 1,
           b * q + r = b * s + t
    PROVE  q = s /\ r = t
<1>1. CASE q < s
  <2>1. b * (s - q) >= b
    BY <1>1
  <2> QED
    BY <2>1
<1>2. CASE s < q
  <2>1. b * (q - s) >= b
    BY <1>2
  <2> QED
    BY <2>1
<1> QED
  BY <1>1, <1>2

LEMMA Multiple ==
    ASSUME NEW b \in Nat \ {0}, NEW q \in Nat
    PROVE  (q * b) % b = 0 /\ (b * q) % b = 0
<1> DEFINE a == b * q
<1>1. a \in Nat /\ a = q * b
  OBVIOUS
<1>2. a % b \in 0 .. b - 1 /\ a = b * (a \div b) + (a % b) /\ a \div b \in Nat
  BY <1>1, Division
<1> DEFINE x == a \div b
           r == a % b
<1>3. b * q + 0 = b * x + r /\ 0 \in 0 .. b - 1 /\ x \in Int /\ q \in Int
  BY <1>1, <1>2
<1>4. a % b = 0
  <2>1. r \in 0 .. b - 1
    BY <1>2
  <2> HIDE DEF a, x, r
  <2>2. r = 0
    BY <1>3, <2>1, RemainderUnique
  <2> QED
    BY <2>2 DEF r
<1> QED
  BY <1>1, <1>4 DEF a

LEMMA SumOfMultiples ==
    ASSUME NEW b \in Nat \ {0}, NEW a \in Nat, NEW c \in Nat, a % b = 0, c % b = 0
    PROVE  (a + c) % b = 0
<1> DEFINE x == a \div b
           y == c \div b
<1>1. x \in Nat /\ y \in Nat /\ a = b * x + 0 /\ c = b * y + 0
  BY Division
<1> HIDE DEF x, y
<1>2. a + c = b * (x + y) /\ x + y \in Nat
  BY <1>1
<1> QED
  BY <1>2, Multiple

(* The next multiple of b: a itself if it is one. *)
LEMMA NextMultiple ==
    ASSUME NEW b \in Nat \ {0}, NEW a \in Nat
    PROVE  LET m == ((a + b - 1) \div b) * b
           IN  m \in Nat /\ m % b = 0 /\ (a % b = 0 => m = a)
<1> DEFINE q == (a + b - 1) \div b
           r == (a + b - 1) % b
<1>1. a + b - 1 \in Nat
  OBVIOUS
<1>2. q \in Nat /\ r \in 0 .. b - 1 /\ a + b - 1 = b * q + r
  BY <1>1, Division
<1> HIDE DEF q, r
<1>3. q * b \in Nat /\ (q * b) % b = 0
  <2>1. q * b \in Nat
    BY <1>2
  <2>2. (q * b) % b = 0 /\ (b * q) % b = 0
    BY <1>2, Multiple
  <2> QED
    BY <2>1, <2>2
<1>4. ASSUME a % b = 0 PROVE q * b = a
  <2> DEFINE x == a \div b
  <2>1. x \in Nat /\ a = b * x + 0
    BY <1>4, Division
  <2> HIDE DEF x
  <2>2. b * x + (b - 1) = b * q + r /\ b - 1 \in 0 .. b - 1
    BY <1>2, <2>1
  <2>3. x = q
    BY <1>2, <2>1, <2>2, RemainderUnique
  <2> QED
    BY <2>1, <2>3
<1> QED
  BY <1>3, <1>4 DEF q

-----------------------------------------------------------------------------

Entry == [handle : Handles \cup {NULL}, handler : Handles \cup {NULL, CUT},
          parameter : Handles \cup {NULL}]
Full(h) == [handle |-> h, handler |-> h, parameter |-> h]
Settled(s) == interrupts[s] = Empty \/ \E h \in Handles : interrupts[s] = Full(h)

(* What the slot s holds after each step of hooking or unhooking h. *)
At(op, h, s, step) ==
    hooking = [op |-> op, handle |-> h, slot |-> s, step |-> step]
Halfway(h, s) ==
    \/ At("hook", h, s, 1) /\ interrupts[s] = [handle |-> h, handler |-> NULL, parameter |-> NULL]
    \/ At("hook", h, s, 2) /\ interrupts[s] = [handle |-> h, handler |-> h, parameter |-> NULL]
    \/ At("unhook", h, s, 1) /\ interrupts[s] = [handle |-> NULL, handler |-> h, parameter |-> h]
    \/ At("unhook", h, s, 2) /\ interrupts[s] = [handle |-> NULL, handler |-> CUT, parameter |-> h]
    \/ At("unhook", h, s, 3)
       /\ interrupts[s] = [handle |-> NULL, handler |-> NULL, parameter |-> h]

OneSlotEach ==
    \A s, t \in Slots :
        interrupts[s].handle = interrupts[t].handle /\ interrupts[s].handle # NULL => s = t

(* The inductive invariant: one slot for each card, settled but for the    *)
(* one that is being written, which holds what the steps so far wrote.     *)
HookInv ==
    /\ interrupts \in [Slots -> Entry]
    /\ OneSlotEach
    /\ \/ hooking = Done /\ \A s \in Slots : Settled(s)
       \/ \E h \in Handles, s \in Slots :
             /\ Halfway(h, s)
             /\ \A t \in Slots \ {s} : Settled(t) /\ interrupts[t].handle # h

LEMMA NotNull == NULL \notin Handles /\ NULL \notin Slots /\ CUT \notin Handles /\ CUT # NULL
BY DEF NULL, CUT, Handles, Slots

LEMMA SettledSlot ==
    ASSUME NEW s \in Slots, Settled(s)
    PROVE  /\ interrupts[s].handle = NULL => interrupts[s] = Empty
           /\ \A h \in Handles : interrupts[s].handle = h \/ interrupts[s].handler = h
                                 => interrupts[s] = Full(h)
           /\ interrupts[s].parameter = interrupts[s].handler
           /\ interrupts[s].handler # CUT
<1>1. CASE interrupts[s] = Empty
  BY <1>1, NotNull DEF Empty
<1>2. ASSUME NEW g \in Handles, interrupts[s] = Full(g)
      PROVE  /\ interrupts[s].handle = g /\ interrupts[s].handler = g
             /\ interrupts[s].parameter = g /\ g # NULL /\ g # CUT
  BY <1>2, NotNull DEF Full
<1> QED
  BY <1>1, <1>2 DEF Settled

LEMMA HookInit == Init => HookInv
BY DEF Init, HookInv, Entry, OneSlotEach, Settled, Empty

LEMMA HookStutters ==
    ASSUME HookInv, UNCHANGED <<interrupts, hooking>>
    PROVE  HookInv'
<1>1. interrupts' = interrupts /\ hooking' = hooking
  OBVIOUS
<1>2. \A s : Settled(s)' <=> Settled(s)
  BY <1>1 DEF Settled
<1>3. \A h, s : Halfway(h, s)' <=> Halfway(h, s)
  BY <1>1 DEF Halfway, At
<1>4. OneSlotEach'
  BY <1>1 DEF HookInv, OneSlotEach
<1> QED
  BY <1>1, <1>2, <1>3, <1>4 DEF HookInv

(* Hooking begins in a free slot, for a card that has none. *)
LEMMA HookBegins ==
    ASSUME HookInv, NEW h \in Handles, pci_hook_interrupt(h)
    PROVE  HookInv'
<1>1. CASE UNCHANGED <<interrupts, hooking>>
  BY <1>1, HookStutters
<1>2. ASSUME NEW s \in Slots, IsFirst(s, SlotsOf(NULL)),
             interrupts' = [interrupts EXCEPT ![s].handle = h],
             hooking' = [op |-> "hook", handle |-> h, slot |-> s, step |-> 1]
      PROVE  HookInv'
  <2>1. /\ hooking = Done /\ \A t \in Slots : Settled(t)
        /\ interrupts[s].handle = NULL
        /\ \A t \in Slots : interrupts[t].handle # h
    BY <1>2, NotNull DEF HookInv, Halfway, At, Done, pci_hook_interrupt, Hooked, SlotsOf, IsFirst
  <2>2. interrupts[s] = Empty
    BY <2>1, SettledSlot
  <2>3. /\ interrupts'[s] = [handle |-> h, handler |-> NULL, parameter |-> NULL]
        /\ \A t \in Slots \ {s} : interrupts'[t] = interrupts[t]
        /\ interrupts' \in [Slots -> Entry]
    BY <1>2, <2>2 DEF HookInv, Empty, Entry
  <2>4. OneSlotEach'
    BY <2>1, <2>3 DEF HookInv, OneSlotEach
  <2>5. Halfway(h, s)'
    BY <1>2, <2>3 DEF Halfway, At
  <2>6. \A t \in Slots \ {s} : Settled(t)' /\ interrupts'[t].handle # h
    BY <2>1, <2>3 DEF Settled
  <2> QED
    BY <2>3, <2>4, <2>5, <2>6 DEF HookInv
<1> QED
  BY <1>1, <1>2 DEF pci_hook_interrupt

(* Unhooking begins with the only slot of the card. *)
LEMMA UnhookBegins ==
    ASSUME HookInv, NEW h \in Handles, pci_unhook_interrupt(h)
    PROVE  HookInv'
<1>1. CASE UNCHANGED <<interrupts, hooking>>
  BY <1>1, HookStutters
<1>2. ASSUME NEW s \in Slots, IsFirst(s, SlotsOf(h)),
             interrupts' = [interrupts EXCEPT ![s].handle = NULL],
             hooking' = [op |-> "unhook", handle |-> h, slot |-> s, step |-> 1]
      PROVE  HookInv'
  <2>1. /\ hooking = Done /\ \A t \in Slots : Settled(t)
        /\ interrupts[s].handle = h
    BY <1>2, NotNull DEF HookInv, Halfway, At, Done, pci_unhook_interrupt, SlotsOf, IsFirst
  <2>2. interrupts[s] = Full(h)
    BY <2>1, SettledSlot
  <2>3. /\ interrupts'[s] = [handle |-> NULL, handler |-> h, parameter |-> h]
        /\ \A t \in Slots \ {s} : interrupts'[t] = interrupts[t]
        /\ interrupts' \in [Slots -> Entry]
    BY <1>2, <2>2 DEF HookInv, Full, Entry
  <2>4. OneSlotEach'
    BY <2>3, NotNull DEF HookInv, OneSlotEach
  <2>5. Halfway(h, s)'
    BY <1>2, <2>3 DEF Halfway, At
  <2>6. \A t \in Slots \ {s} : interrupts[t].handle # h
    BY <2>1, NotNull DEF HookInv, OneSlotEach
  <2>7. \A t \in Slots \ {s} : Settled(t)' /\ interrupts'[t].handle # h
    BY <2>1, <2>3, <2>6 DEF Settled
  <2> QED
    BY <2>3, <2>4, <2>5, <2>7 DEF HookInv
<1> QED
  BY <1>1, <1>2 DEF pci_unhook_interrupt

(* Each further step writes one field of the slot in question, or part of it. *)
LEMMA HookGoesOn ==
    ASSUME HookInv, HookHandler \/ HookParameter \/ CutHandler \/ UnhookHandler \/ UnhookParameter
    PROVE  HookInv'
<1>1. PICK h \in Handles, s \in Slots :
          /\ Halfway(h, s)
          /\ \A t \in Slots \ {s} : Settled(t) /\ interrupts[t].handle # h
  BY DEF HookInv, Done, HookHandler, HookParameter, CutHandler, UnhookHandler, UnhookParameter
<1>2. interrupts \in [Slots -> Entry] /\ OneSlotEach
  BY DEF HookInv
<1>3. hooking.slot = s /\ hooking.handle = h
  BY <1>1 DEF Halfway, At
<1>4. /\ \A t \in Slots \ {s} : interrupts'[t] = interrupts[t]
      /\ \/ Halfway(h, s)'
         \/ hooking' = Done /\ interrupts'[s] \in {Empty, Full(h)}
  <2>1. CASE HookHandler
    BY <1>1, <1>2, <1>3, <2>1 DEF HookHandler, Halfway, At, Entry
  <2>2. CASE HookParameter
    BY <1>1, <1>2, <1>3, <2>2 DEF HookParameter, Halfway, At, Entry, Full
  <2>3. CASE UnhookHandler
    BY <1>1, <1>2, <1>3, <2>3 DEF UnhookHandler, Halfway, At, Entry
  <2>4. CASE UnhookParameter
    BY <1>1, <1>2, <1>3, <2>4 DEF UnhookParameter, Halfway, At, Entry, Empty
  <2>5. CASE CutHandler
    BY <1>1, <1>2, <1>3, <2>5 DEF CutHandler, Halfway, At, Entry
  <2> QED
    BY <2>1, <2>2, <2>3, <2>4, <2>5
<1>5. interrupts' \in [Slots -> Entry]
  <2>1. interrupts'[s] \in Entry
    BY <1>4 DEF Halfway, Entry, Empty, Full
  <2>2. /\ DOMAIN interrupts' = Slots
        /\ interrupts' = [t \in Slots |-> interrupts'[t]]
    BY <1>2 DEF HookHandler, HookParameter, CutHandler, UnhookHandler, UnhookParameter
  <2> QED
    BY <1>2, <1>4, <2>1, <2>2
<1>6. interrupts'[s].handle \in {h, NULL}
  BY <1>4 DEF Halfway, Empty, Full
<1>7. OneSlotEach'
  BY <1>1, <1>2, <1>4, <1>6 DEF OneSlotEach
<1>8. \A t \in Slots \ {s} : Settled(t)' /\ interrupts'[t].handle # h
  BY <1>1, <1>4 DEF Settled
<1>9. CASE Halfway(h, s)'
  BY <1>5, <1>7, <1>8, <1>9 DEF HookInv
<1>10. CASE hooking' = Done /\ interrupts'[s] \in {Empty, Full(h)}
  <2>1. \A t \in Slots : Settled(t)'
    BY <1>8, <1>10 DEF Settled
  <2> QED
    BY <1>5, <1>7, <1>10, <2>1 DEF HookInv
<1> QED
  BY <1>4, <1>9, <1>10

LEMMA HookNext == HookInv /\ [Next]_vars => HookInv'
<1> SUFFICES ASSUME HookInv, [Next]_vars PROVE HookInv'
  OBVIOUS
<1>1. CASE pci_scan
  BY <1>1, HookStutters
     DEF pci_scan, pci_bridge_config, DisableCard, ConfigureRegister, EnableCard
<1>2. ASSUME NEW h \in Handles, pci_hook_interrupt(h) \/ pci_unhook_interrupt(h)
      PROVE  HookInv'
  BY <1>2, HookBegins, UnhookBegins
<1>3. CASE HookHandler \/ HookParameter \/ CutHandler \/ UnhookHandler \/ UnhookParameter
  BY <1>3, HookGoesOn
<1>4. CASE UNCHANGED vars
  BY <1>4, HookStutters DEF vars
<1> QED
  BY <1>1, <1>2, <1>3, <1>4 DEF Next

(* The table of interrupt handlers is always as HookInv says. *)
THEOREM HookTable == Spec => []HookInv
BY HookInit, HookNext, PTL DEF Spec

(* An interrupt at any moment calls no card's handler with the parameter   *)
(* of another card, although the fields of a slot are written one by one   *)
(* and slots are used again (pci_hook_interrupt, pci_unhook_interrupt);    *)
(* and it finds an address cleared in part only in the slot of the card    *)
(* that is being unhooked, never after pci_unhook_interrupt has returned.  *)
THEOREM ParametersOwn == Spec => []NoForeignParameter
<1>1. HookInv => NoForeignParameter
  <2> SUFFICES ASSUME HookInv, NEW s \in Slots, interrupts[s].handler # NULL
               PROVE  IF interrupts[s].handler = CUT
                      THEN hooking.op = "unhook" /\ interrupts[s].parameter = hooking.handle
                      ELSE interrupts[s].parameter \in {interrupts[s].handler, NULL}
    BY DEF NoForeignParameter, pci_call_interrupt_chain
  <2>1. CASE Settled(s)
    BY <2>1, SettledSlot
  <2>2. ASSUME NEW h \in Handles, Halfway(h, s)
        PROVE  IF interrupts[s].handler = CUT
               THEN hooking.op = "unhook" /\ interrupts[s].parameter = hooking.handle
               ELSE interrupts[s].parameter \in {interrupts[s].handler, NULL}
    BY <2>2, NotNull DEF Halfway, At
  <2> QED
    BY <2>1, <2>2 DEF HookInv
<1> QED
  BY <1>1, HookTable, PTL

(* A card's handler is called with its parameter from the end of hooking   *)
(* to the beginning of unhooking, and not otherwise.                       *)
THEOREM HookedAreCalled == Spec => []CalledWhileHooked
<1>1. HookInv => CalledWhileHooked
  <2> SUFFICES ASSUME HookInv, NEW h \in Handles, Steady(h)
               PROVE  /\ h \in Hooked => <<h, h>> \in pci_call_interrupt_chain
                      /\ h \notin Hooked =>
                             \A call \in pci_call_interrupt_chain : call[1] # h
    BY DEF CalledWhileHooked
  <2>1. \A s \in Slots : interrupts[s].handle = h \/ interrupts[s].handler = h
                           => interrupts[s] = Full(h)
    <3> SUFFICES ASSUME NEW s \in Slots,
                        interrupts[s].handle = h \/ interrupts[s].handler = h
                 PROVE  interrupts[s] = Full(h)
      OBVIOUS
    <3>1. CASE Settled(s)
      BY <3>1, SettledSlot
    <3>2. ASSUME NEW g \in Handles, Halfway(g, s)
          PROVE  FALSE
      <4>1. hooking.handle = g
        BY <3>2 DEF Halfway, At
      <4>2. interrupts[s].handle \in {g, NULL} /\ interrupts[s].handler \in {g, NULL, CUT}
        BY <3>2 DEF Halfway
      <4> QED
        BY <4>1, <4>2, NotNull DEF Steady
    <3> QED
      BY <3>1, <3>2 DEF HookInv
  <2>2. ASSUME NEW s \in Slots, interrupts[s] = Full(h)
        PROVE  <<h, h>> \in pci_call_interrupt_chain /\ h \in Hooked
    BY <2>2, NotNull DEF Full, pci_call_interrupt_chain, Hooked, SlotsOf
  <2>3. h \in Hooked => \E s \in Slots : interrupts[s].handle = h
    BY DEF Hooked, SlotsOf
  <2>4. ASSUME NEW call \in pci_call_interrupt_chain, call[1] = h
        PROVE  \E s \in Slots : interrupts[s].handler = h
    BY <2>4 DEF pci_call_interrupt_chain
  <2> QED
    BY <2>1, <2>2, <2>3, <2>4
<1> QED
  BY <1>1, HookTable, PTL

-----------------------------------------------------------------------------
(* The scan.                                                               *)
Registers == 1 .. BARS + 1
Want == [kind : {"mem", "io", "rom"}, size : Sizes]
Spaces == {"io", "mem"}
Function == [wants : Cards \cup {Bridge}, bar : [Registers -> Int], cr : SUBSET Spaces]
Descriptor == [kind : {"mem", "io", "rom"}, start : Nat, length : Sizes, last : BOOLEAN]

ScanTypes ==
    /\ bus \in [Handles -> Function]
    /\ scan \in [index : 1 .. NUM_FOUND + 1, bar : 0 .. BARS + 2, cr : SUBSET Spaces]
    /\ descriptors \in [Handles -> Seq(Descriptor)]
    /\ address \in [Spaces -> Nat]

(* The register that pci_device_config is at for a card: all before it are *)
(* set, and those behind it are not.                                       *)
Reached(h) == IF h < scan.index THEN BARS + 2
              ELSE IF h = scan.index /\ scan.bar > 0 THEN scan.bar ELSE 1

Describes(d, h, i) ==
    d.kind = bus[h].wants[i].kind /\ d.start = bus[h].bar[i] /\ d.length = bus[h].wants[i].size

(* The chain of h has a descriptor of each register in use before n. *)
Told(h, n) ==
    /\ Len(descriptors[h]) < n
    /\ \A k \in 1 .. Len(descriptors[h]) :
          \E i \in Ranges(h) : i < n /\ Describes(descriptors[h][k], h, i)
    /\ \A i \in Ranges(h) : i < n =>
          \E k \in 1 .. Len(descriptors[h]) : Describes(descriptors[h][k], h, i)

SetBefore(h, n) ==
    \A i \in Registers :
        IF i \in Ranges(h) /\ i < n
        THEN bus[h].bar[i] \in Nat /\ bus[h].bar[i] % bus[h].wants[i].size = 0
        ELSE bus[h].bar[i] = UNSET

(* FLG_LAST, the command registers, and what the one of the card at work   *)
(* will be.                                                                *)
Marks ==
    \A h \in Handles : \A k \in 1 .. Len(descriptors[h]) :
        descriptors[h][k].last <=> (h < scan.index /\ k = Len(descriptors[h]))
Responding ==
    \A h \in Handles : IF h < scan.index THEN \A i \in Ranges(h) : Responds(h, i)
                                         ELSE bus[h].cr = {}
Collected ==
    \A h \in Handles : h = scan.index /\ scan.bar > 0 =>
        \A i \in Ranges(h) : i < scan.bar => Window(bus[h].wants[i].kind) \in scan.cr

ScanInv ==
    /\ ScanTypes
    /\ bus[1].wants = Bridge
    /\ scan.index = 1 \/ scan.index > NUM_FOUND => scan.bar = 0
    /\ \A h \in Handles : Told(h, Reached(h))
    /\ \A h \in Handles : SetBefore(h, Reached(h))
    /\ Marks
    /\ Responding
    /\ Collected

LEMMA PciConstants ==
    /\ NUM_FOUND \in Nat \ {0} /\ BARS \in Nat /\ NUM_RESOURCES \in Nat /\ BARS + 1 <= NUM_RESOURCES
    /\ Sizes \subseteq Nat \ {0} /\ \A s, t \in Sizes : s <= t => t % s = 0
BY PciAssumption

LEMMA Wanted ==
    ASSUME NEW c \in Cards \cup {Bridge}, NEW i \in Registers
    PROVE  c[i] = None \/ (c[i] \in Want /\ c[i] # None)
<1>1. CASE c = Bridge
  BY <1>1 DEF Bridge, Registers
<1>2. CASE c \in Cards
  <2>1. PICK bars \in [1 .. BARS -> {None} \cup Requests], rom \in Roms :
            c = [j \in 1 .. BARS + 1 |-> IF j <= BARS THEN bars[j] ELSE rom]
    BY <1>2 DEF Cards
  <2>2. c[i] = (IF i <= BARS THEN bars[i] ELSE rom)
    BY <2>1 DEF Registers
  <2>3. i <= BARS => i \in 1 .. BARS
    BY PciConstants DEF Registers
  <2>4. c[i] \in {None} \cup Requests \cup Roms
    BY <2>2, <2>3
  <2>5. Requests \cup Roms \subseteq {None} \cup Want
    BY DEF Requests, Roms, Want
  <2>6. None \notin Want
    BY DEF None, Want
  <2> QED
    BY <2>4, <2>5, <2>6
<1> QED
  BY <1>1, <1>2

LEMMA InUse ==
    ASSUME ScanTypes, NEW h \in Handles, NEW i \in Ranges(h)
    PROVE  /\ i \in Registers /\ bus[h].wants[i] \in Want
           /\ bus[h].wants[i].size \in Nat \ {0} /\ bus[h].wants[i].size \in Sizes
           /\ Window(bus[h].wants[i].kind) \in Spaces
<1>1. i \in Registers /\ bus[h].wants[i] # None /\ bus[h].wants \in Cards \cup {Bridge}
  BY DEF Ranges, Registers, ScanTypes, Function
<1>2. bus[h].wants[i] \in Want
  BY <1>1, Wanted
<1> QED
  BY <1>1, <1>2, PciConstants DEF Want, Window, Spaces

LEMMA ScanInit == Init => ScanInv
<1> SUFFICES ASSUME Init PROVE ScanInv
  OBVIOUS
<1>1. PICK wants \in [Handles -> Cards] :
        /\ wants[1] = Bridge
        /\ bus = [h \in Handles |-> [wants |-> wants[h], bar |-> [i \in 1 .. BARS + 1 |-> UNSET],
                                     cr |-> {}]]
  BY DEF Init
<1>2. /\ scan.index = 1 /\ scan.bar = 0 /\ scan = [index |-> 1, bar |-> 0, cr |-> {}]
      /\ descriptors = [h \in Handles |-> <<>>]
      /\ address = [w \in {"io", "mem"} |-> 0]
  BY DEF Init
<1>3. 1 \in Handles /\ Handles \subseteq Nat \ {0}
  BY PciConstants DEF Handles
<1>4. \A h \in Handles : /\ bus[h].wants = wants[h] /\ bus[h].cr = {}
                         /\ \A i \in Registers : bus[h].bar[i] = UNSET
                         /\ descriptors[h] = <<>> /\ Len(descriptors[h]) = 0 /\ Reached(h) = 1
  <2> SUFFICES ASSUME NEW h \in Handles
               PROVE  /\ bus[h].wants = wants[h] /\ bus[h].cr = {}
                      /\ \A i \in Registers : bus[h].bar[i] = UNSET
                      /\ descriptors[h] = <<>> /\ Len(descriptors[h]) = 0 /\ Reached(h) = 1
    OBVIOUS
  <2>1. bus[h] = [wants |-> wants[h], bar |-> [i \in 1 .. BARS + 1 |-> UNSET], cr |-> {}]
    BY <1>1
  <2>2. descriptors[h] = <<>> /\ Len(descriptors[h]) = 0
    BY <1>2
  <2>3. Reached(h) = 1
    BY <1>2, <1>3 DEF Reached
  <2> QED
    BY <2>1, <2>2, <2>3 DEF Registers
<1>5. ScanTypes
  <2>1. bus \in [Handles -> Function]
    BY <1>1 DEF Function, UNSET, Registers
  <2>2. scan \in [index : 1 .. NUM_FOUND + 1, bar : 0 .. BARS + 2, cr : SUBSET Spaces]
    BY <1>2, PciConstants
  <2>3. descriptors \in [Handles -> Seq(Descriptor)]
    <3>1. <<>> \in Seq(Descriptor)
      OBVIOUS
    <3> QED
      BY <1>2, <3>1
  <2>4. address \in [Spaces -> Nat]
    BY <1>2 DEF Spaces
  <2> QED
    BY <2>1, <2>2, <2>3, <2>4 DEF ScanTypes
<1>6. \A h \in Handles : \A i \in Ranges(h) : i \in Nat \ {0}
  BY PciConstants DEF Ranges
<1>7. \A h \in Handles : Told(h, 1) /\ SetBefore(h, 1)
  BY <1>4, <1>6 DEF Told, SetBefore
<1>8. Marks /\ Responding /\ Collected
  BY <1>2, <1>3, <1>4 DEF Marks, Responding, Collected
<1> QED
  BY <1>1, <1>2, <1>3, <1>4, <1>5, <1>7, <1>8 DEF ScanInv

(* A card whose registers and descriptors a step leaves alone, but for the *)
(* mark of the last one.                                                   *)
Untouched(h) ==
    /\ bus'[h].wants = bus[h].wants /\ bus'[h].bar = bus[h].bar
    /\ Len(descriptors'[h]) = Len(descriptors[h])
    /\ \A k \in 1 .. Len(descriptors[h]) :
          /\ descriptors'[h][k].kind = descriptors[h][k].kind
          /\ descriptors'[h][k].start = descriptors[h][k].start
          /\ descriptors'[h][k].length = descriptors[h][k].length

LEMMA UntouchedKept ==
    ASSUME NEW h \in Handles, Untouched(h), NEW n
    PROVE  /\ Ranges(h)' = Ranges(h)
           /\ Told(h, n) => Told(h, n)'
           /\ SetBefore(h, n) => SetBefore(h, n)'
<1>1. Ranges(h)' = Ranges(h)
  BY DEF Untouched, Ranges
<1>2. ASSUME NEW k \in 1 .. Len(descriptors[h]), NEW i, Describes(descriptors[h][k], h, i)
      PROVE  Describes(descriptors[h][k], h, i)'
  BY <1>2 DEF Untouched, Describes
<1>3. Told(h, n) => Told(h, n)'
  BY <1>1, <1>2 DEF Told, Untouched
<1>4. SetBefore(h, n) => SetBefore(h, n)'
  BY <1>1 DEF Untouched, SetBefore
<1> QED
  BY <1>1, <1>3, <1>4

(* Told and SetBefore hold as well when no register in use is skipped. *)
LEMMA SkipUnused ==
    ASSUME ScanTypes, NEW h \in Handles, NEW n \in Nat, NEW m \in Nat, n <= m,
           \A i \in Ranges(h) : i < m => i < n
    PROVE  /\ Told(h, n) => Told(h, m)
           /\ SetBefore(h, n) => SetBefore(h, m)
<1>1. Len(descriptors[h]) \in Nat /\ \A i \in Ranges(h) : i \in Nat
  BY PciConstants DEF ScanTypes, Ranges
<1>2. \A i \in Ranges(h) : i < m <=> i < n
  BY <1>1
<1>3. Told(h, n) => Told(h, m)
  BY <1>1, <1>2 DEF Told
<1>4. SetBefore(h, n) => SetBefore(h, m)
  BY <1>2 DEF SetBefore
<1> QED
  BY <1>3, <1>4

(* Writing the command register of a function leaves a function. *)
LEMMA CommandWritten ==
    ASSUME NEW f \in Function, NEW s \in SUBSET Spaces
    PROVE  [f EXCEPT !.cr = s] \in Function
BY DEF Function

LEMMA BridgeStep ==
    ASSUME ScanInv, pci_bridge_config
    PROVE  ScanInv'
<1>1. /\ scan.index = 1 /\ scan.bar = 0 /\ bus' = [bus EXCEPT ![1].cr = {"mem"}]
      /\ scan' = [scan EXCEPT !.index = 2] /\ descriptors' = descriptors /\ address' = address
  BY DEF pci_bridge_config, ScanInv
<1>2. ScanTypes /\ 1 \in Handles /\ Handles \subseteq Nat \ {0} /\ NUM_FOUND \in Nat \ {0}
  BY PciConstants DEF ScanInv, Handles
<1>3. scan'.index = 2 /\ scan'.bar = 0
  BY <1>1, <1>2 DEF ScanTypes
<1>4. /\ \A h \in Handles : bus'[h].wants = bus[h].wants /\ bus'[h].bar = bus[h].bar
      /\ \A h \in Handles : h # 1 => bus'[h] = bus[h]
  BY <1>1, <1>2 DEF ScanTypes, Function
<1>5. ScanTypes'
  <2>1. bus' \in [Handles -> Function]
    <3>1. [bus[1] EXCEPT !.cr = {"mem"}] \in Function
      <4>1. bus[1] \in Function /\ {"mem"} \in SUBSET Spaces
        BY <1>2 DEF ScanTypes, Spaces
      <4> QED
        BY <4>1, CommandWritten
    <3> QED
      BY <1>1, <1>2, <3>1 DEF ScanTypes
  <2>2. scan' \in [index : 1 .. NUM_FOUND + 1, bar : 0 .. BARS + 2, cr : SUBSET Spaces]
    <3>1. 2 \in 1 .. NUM_FOUND + 1
      BY <1>2
    <3> QED
      BY <1>1, <1>2, <3>1 DEF ScanTypes
  <2> QED
    BY <1>1, <1>2, <2>1, <2>2 DEF ScanTypes
<1>6. \A h \in Handles : Untouched(h)
  BY <1>1, <1>4 DEF Untouched
<1>7. Ranges(1) = {}
  BY DEF ScanInv, Ranges, Bridge
<1>8. \A h \in Handles : Reached(h) = 1 /\ Reached(h)' = IF h = 1 THEN BARS + 2 ELSE 1
  BY <1>1, <1>2, <1>3 DEF Reached
<1>9. ASSUME NEW h \in Handles
      PROVE  Told(h, Reached(h))' /\ SetBefore(h, Reached(h))'
  <2>1. Told(h, 1) /\ SetBefore(h, 1)
    BY <1>8 DEF ScanInv
  <2>2. Told(h, 1)' /\ SetBefore(h, 1)' /\ Ranges(h)' = Ranges(h)
    BY <1>6, <2>1, UntouchedKept
  <2>3. CASE h # 1
    BY <1>8, <2>2, <2>3
  <2>4. CASE h = 1
    <3>1. Told(h, BARS + 2) /\ SetBefore(h, BARS + 2)
      BY <1>2, <1>7, <2>1, <2>4, SkipUnused, PciConstants
    <3>2. Told(h, BARS + 2)' /\ SetBefore(h, BARS + 2)'
      BY <1>6, <3>1, UntouchedKept
    <3> QED
      BY <1>8, <2>4, <3>2
  <2> QED
    BY <2>3, <2>4
<1>10. Marks'
  <2>1. \A h \in Handles : Len(descriptors[h]) \in Nat /\ Len(descriptors[h]) < 1
    BY <1>2, <1>8 DEF ScanInv, Told, ScanTypes
  <2>2. \A h \in Handles : 1 .. Len(descriptors[h]) = {}
    BY <2>1
  <2> QED
    BY <1>1, <2>2 DEF Marks
<1>11. Responding' /\ Collected'
  <2>1. Ranges(1)' = {}
    BY <1>2, <1>6, <1>7, UntouchedKept
  <2>2. \A h \in Handles : h < 2 <=> h = 1
    BY <1>2
  <2> QED
    BY <1>1, <1>2, <1>3, <1>4, <2>1, <2>2 DEF ScanInv, Responding, Collected
<1> QED
  BY <1>2, <1>3, <1>4, <1>5, <1>9, <1>10, <1>11 DEF ScanInv

LEMMA DisableStep ==
    ASSUME ScanInv, DisableCard
    PROVE  ScanInv'
<1> DEFINE c == scan.index
<1>1. /\ c \in Handles /\ c > 1 /\ scan.bar = 0 /\ bus' = [bus EXCEPT ![c].cr = {}]
      /\ scan' = [scan EXCEPT !.bar = 1, !.cr = {}] /\ descriptors' = descriptors /\ address' = address
  BY DEF DisableCard, Scanning, ScanInv, ScanTypes, Handles
<1>2. ScanTypes /\ 1 \in Handles /\ Handles \subseteq Nat \ {0} /\ NUM_FOUND \in Nat \ {0} /\ BARS \in Nat
  BY PciConstants DEF ScanInv, Handles
<1>3. scan'.index = c /\ scan'.bar = 1 /\ scan'.cr = {}
  BY <1>1, <1>2 DEF ScanTypes
<1>4. /\ \A h \in Handles : bus'[h].wants = bus[h].wants /\ bus'[h].bar = bus[h].bar
      /\ bus' = bus
  <2>1. bus[c].cr = {}
    BY <1>1, <1>2 DEF ScanInv, Responding
  <2> QED
    BY <1>1, <1>2, <2>1 DEF ScanTypes, Function
<1>5. ScanTypes'
  <2>1. scan' \in [index : 1 .. NUM_FOUND + 1, bar : 0 .. BARS + 2, cr : SUBSET Spaces]
    <3>1. 1 \in 0 .. BARS + 2 /\ {} \in SUBSET Spaces
      BY <1>2
    <3> QED
      BY <1>1, <1>2, <3>1 DEF ScanTypes
  <2> QED
    BY <1>1, <1>2, <1>4, <2>1 DEF ScanTypes
<1>6. \A h \in Handles : Untouched(h) /\ Reached(h)' = Reached(h)
  BY <1>1, <1>2, <1>3, <1>4 DEF Untouched, Reached
<1>7. ASSUME NEW h \in Handles
      PROVE  Told(h, Reached(h))' /\ SetBefore(h, Reached(h))'
  BY <1>6, UntouchedKept DEF ScanInv
<1>8. Marks' /\ Responding'
  <2>1. Marks'
    BY <1>1, <1>3 DEF ScanInv, Marks
  <2>2. Responding'
    BY <1>3, <1>4 DEF ScanInv, Responding, Ranges, Responds
  <2> QED
    BY <2>1, <2>2
<1>9. Collected'
  BY <1>2, <1>3 DEF Collected, Ranges
<1> QED
  BY <1>1, <1>2, <1>3, <1>4, <1>5, <1>7, <1>8, <1>9 DEF ScanInv, Handles

(* A register that the card does not use. *)
LEMMA UnusedStep ==
    ASSUME ScanInv, ConfigureRegister, bus[scan.index].wants[scan.bar] = None
    PROVE  ScanInv' /\ bus' = bus /\ address' = address
<1> DEFINE c == scan.index
           i == scan.bar
<1>1. /\ c \in Handles /\ i \in Registers /\ c # 1 /\ bus' = bus /\ address' = address
      /\ descriptors' = descriptors
      /\ scan' = [scan EXCEPT !.bar = i + 1]
  <2>1. c \in Handles /\ i \in Registers
    BY DEF ConfigureRegister, Scanning, Registers, ScanInv, ScanTypes, Handles
  <2>2. i # 0
    BY <2>1 DEF Registers
  <2>3. scan' = [scan EXCEPT !.bar = i + 1, !.cr = scan.cr]
    BY DEF ConfigureRegister
  <2>4. scan' = [scan EXCEPT !.bar = i + 1]
    BY <2>3 DEF ScanInv, ScanTypes
  <2> QED
    BY <2>1, <2>2, <2>4 DEF ConfigureRegister, ScanInv
<1>2. ScanTypes /\ Handles \subseteq Nat \ {0} /\ BARS \in Nat /\ i \in Nat \ {0}
  BY <1>1, PciConstants DEF ScanInv, Handles, Registers
<1>3. scan'.index = c /\ scan'.bar = i + 1 /\ scan'.cr = scan.cr
  BY <1>1, <1>2 DEF ScanTypes
<1>4. ScanTypes'
  <2>1. i + 1 \in 0 .. BARS + 2
    BY <1>1, <1>2 DEF Registers
  <2> QED
    BY <1>1, <1>2, <2>1 DEF ScanTypes
<1>5. i \notin Ranges(c)
  BY DEF Ranges
<1>6. \A h \in Handles : Untouched(h) /\ Ranges(h) \subseteq Nat
  BY <1>1, <1>2 DEF Untouched, Ranges
<1>7. ASSUME NEW h \in Handles
      PROVE  Told(h, Reached(h))' /\ SetBefore(h, Reached(h))'
  <2>1. CASE h # c
    <3>1. Reached(h)' = Reached(h)
      BY <1>1, <1>2, <1>3, <2>1 DEF Reached
    <3> QED
      BY <1>6, <3>1, UntouchedKept DEF ScanInv
  <2>2. CASE h = c
    <3>1. Reached(h) = i /\ Reached(h)' = i + 1
      BY <1>1, <1>2, <1>3, <2>2 DEF Reached
    <3>2. \A j \in Ranges(h) : j < i + 1 => j < i
      BY <1>2, <1>5, <1>6, <2>2
    <3>3. Told(h, i + 1) /\ SetBefore(h, i + 1)
      <4>1. i + 1 \in Nat /\ i <= i + 1
        BY <1>2
      <4> QED
        BY <1>2, <3>1, <3>2, <4>1, SkipUnused DEF ScanInv
    <3> QED
      BY <1>6, <3>1, <3>3, UntouchedKept
  <2> QED
    BY <2>1, <2>2
<1>8. Marks'
  BY <1>1, <1>3 DEF ScanInv, Marks
<1>9. Responding'
  BY <1>1, <1>3 DEF ScanInv, Responding, Ranges, Responds
<1>10. Collected'
  <2>1. \A j \in Ranges(c) : j < i + 1 => j < i
    BY <1>1, <1>2, <1>5, <1>6
  <2>2. \A j \in Ranges(c) : j < i => Window(bus[c].wants[j].kind) \in scan.cr
    BY <1>1, <1>2 DEF ScanInv, Collected
  <2> QED
    BY <1>1, <1>3, <2>1, <2>2 DEF Collected, Ranges
<1> QED
  BY <1>1, <1>3, <1>4, <1>7, <1>8, <1>9, <1>10 DEF ScanInv, Scanning, ConfigureRegister, Handles

LEMMA Aligned ==
    ASSUME NEW a \in Nat, NEW s \in Nat \ {0}
    PROVE  /\ Align(a, s) \in Nat /\ Align(a, s) % s = 0
           /\ a % s = 0 => Align(a, s) = a
BY NextMultiple DEF Align

(* What ConfigureRegister does to a register in use. *)
Configures(c, i) ==
    LET want == bus[c].wants[i]
        window == Window(want.kind)
        start == Align(address[window], want.size)
    IN  /\ c = scan.index /\ i = scan.bar /\ c \in Handles /\ i \in Registers /\ c # 1
        /\ i \in Ranges(c)
        /\ window \in Spaces /\ want.size \in Sizes /\ want.size \in Nat \ {0}
        /\ start \in Nat /\ start % want.size = 0
        /\ bus'[c].bar = [bus[c].bar EXCEPT ![i] = start]
        /\ bus'[c].cr = bus[c].cr
        /\ \A h \in Handles : bus'[h].wants = bus[h].wants
        /\ \A h \in Handles : h # c => bus'[h] = bus[h] /\ descriptors'[h] = descriptors[h]
        /\ descriptors'[c] = Append(descriptors[c], [kind |-> want.kind, start |-> start,
                                        length |-> want.size, last |-> FALSE])
        /\ address' = [address EXCEPT ![window] = address[window] + want.size]
        /\ scan'.index = c /\ scan'.bar = i + 1 /\ scan'.cr = scan.cr \cup {window}

LEMMA UsedRegister ==
    ASSUME ScanInv, ConfigureRegister, bus[scan.index].wants[scan.bar] # None
    PROVE  Configures(scan.index, scan.bar) /\ ScanTypes'
<1> DEFINE c == scan.index
           i == scan.bar
           want == bus[c].wants[i]
           window == Window(want.kind)
           start == Align(address[window], want.size)
           d == [kind |-> want.kind, start |-> start, length |-> want.size, last |-> FALSE]
<1>1. /\ ScanTypes /\ c \in Handles /\ i \in Registers /\ i \in Ranges(c) /\ c # 1
      /\ BARS \in Nat
  <2>1. ScanTypes /\ c \in Handles /\ i \in Registers /\ BARS \in Nat
    <3>1. ScanTypes /\ BARS \in Nat
      BY PciConstants DEF ScanInv
    <3>2. scan.index <= NUM_FOUND /\ scan.bar \in 1 .. BARS + 1
      BY DEF ConfigureRegister, Scanning
    <3>3. scan.index \in 1 .. NUM_FOUND + 1 /\ NUM_FOUND \in Nat
      BY <3>1, PciConstants DEF ScanTypes
    <3>4. scan.index \in 1 .. NUM_FOUND
      BY <3>2, <3>3
    <3> QED
      BY <3>1, <3>2, <3>4 DEF Registers, Handles
  <2>2. i \in Ranges(c)
    BY <2>1 DEF Ranges, Registers
  <2> QED
    BY <2>1, <2>2 DEF ScanInv, Ranges
<1>2. window \in Spaces /\ want.size \in Sizes /\ want.size \in Nat \ {0} /\ want \in Want
  BY <1>1, InUse
<1>3. address[window] \in Nat /\ start \in Nat /\ start % want.size = 0
  <2>1. address[window] \in Nat
    BY <1>1, <1>2 DEF ScanTypes
  <2> QED
    BY <1>2, <2>1, Aligned
<1>4. /\ bus' = [bus EXCEPT ![c].bar[i] = start]
      /\ descriptors' = [descriptors EXCEPT ![c] = Append(descriptors[c], d)]
      /\ address' = [address EXCEPT ![window] = address[window] + want.size]
      /\ scan' = [scan EXCEPT !.bar = i + 1, !.cr = scan.cr \cup {window}]
  BY DEF ConfigureRegister, Advanced
<1> HIDE DEF start, d
<1>5. /\ bus'[c].bar = [bus[c].bar EXCEPT ![i] = start] /\ bus'[c].cr = bus[c].cr
      /\ \A h \in Handles : bus'[h].wants = bus[h].wants
      /\ \A h \in Handles : h # c => bus'[h] = bus[h] /\ descriptors'[h] = descriptors[h]
      /\ descriptors'[c] = Append(descriptors[c], d)
  BY <1>1, <1>4 DEF ScanTypes, Function
<1>6. scan'.index = c /\ scan'.bar = i + 1 /\ scan'.cr = scan.cr \cup {window}
  BY <1>1, <1>4 DEF ScanTypes
<1>7. bus' \in [Handles -> Function]
  <2>1. bus[c] \in Function /\ bus[c].bar \in [Registers -> Int] /\ start \in Int
    BY <1>1, <1>3 DEF ScanTypes, Function
  <2>2. [bus[c].bar EXCEPT ![i] = start] \in [Registers -> Int]
    BY <1>1, <2>1
  <2>3. [bus[c] EXCEPT !.bar[i] = start] \in Function
    BY <2>1, <2>2 DEF Function
  <2> QED
    BY <1>1, <1>4, <2>3 DEF ScanTypes
<1>8. descriptors' \in [Handles -> Seq(Descriptor)]
  <2>1. d \in Descriptor
    BY <1>2, <1>3 DEF d, Descriptor, Want
  <2>2. Append(descriptors[c], d) \in Seq(Descriptor)
    BY <1>1, <2>1 DEF ScanTypes
  <2> QED
    BY <1>1, <1>4, <2>2 DEF ScanTypes
<1>9. scan' \in [index : 1 .. NUM_FOUND + 1, bar : 0 .. BARS + 2, cr : SUBSET Spaces]
  <2>1. i + 1 \in 0 .. BARS + 2
    BY <1>1 DEF Registers
  <2>2. scan.cr \cup {window} \in SUBSET Spaces
    BY <1>1, <1>2 DEF ScanTypes
  <2> QED
    BY <1>1, <1>4, <2>1, <2>2 DEF ScanTypes
<1>10. address' \in [Spaces -> Nat]
  <2>1. address[window] + want.size \in Nat
    BY <1>2, <1>3
  <2> QED
    BY <1>1, <1>4, <2>1 DEF ScanTypes
<1> QED
  BY <1>1, <1>2, <1>3, <1>4, <1>5, <1>6, <1>7, <1>8, <1>9, <1>10 DEF Configures, ScanTypes, start, d

LEMMA UsedStep ==
    ASSUME ScanInv, ScanTypes', NEW c, NEW i, Configures(c, i)
    PROVE  ScanInv'
<1> DEFINE want == bus[c].wants[i]
           start == bus'[c].bar[i]
           window == Window(want.kind)
           D == descriptors[c]
           E == descriptors'[c]
<1>1. /\ c = scan.index /\ i = scan.bar /\ c \in Handles /\ i \in Registers /\ c # 1 /\ i \in Ranges(c)
      /\ \A h \in Handles : bus'[h].wants = bus[h].wants
      /\ \A h \in Handles : h # c => bus'[h] = bus[h] /\ descriptors'[h] = descriptors[h]
      /\ bus'[c].cr = bus[c].cr
      /\ scan'.index = c /\ scan'.bar = i + 1 /\ scan'.cr = scan.cr \cup {window}
  BY DEF Configures
<1>2. /\ ScanTypes /\ Handles \subseteq Nat \ {0} /\ BARS \in Nat /\ i \in Nat \ {0} /\ D \in Seq(Descriptor)
      /\ Len(D) \in Nat
  <2>1. D \in Seq(Descriptor)
    BY <1>1 DEF ScanInv, ScanTypes
  <2>2. Len(D) \in Nat
    BY <2>1
  <2> QED
    BY <1>1, <2>1, <2>2, PciConstants DEF ScanInv, Handles, Registers
<1>3. /\ start \in Nat /\ start % want.size = 0
      /\ \A j \in Registers : j # i => bus'[c].bar[j] = bus[c].bar[j]
      /\ E = Append(D, [kind |-> want.kind, start |-> start, length |-> want.size, last |-> FALSE])
  <2>1. bus[c].bar \in [Registers -> Int]
    BY <1>1, <1>2 DEF ScanTypes, Function
  <2> QED
    BY <1>1, <2>1 DEF Configures
<1> HIDE DEF start
<1>4. /\ Len(E) = Len(D) + 1
      /\ \A k \in 1 .. Len(D) : k \in 1 .. Len(E) /\ E[k] = D[k]
      /\ \A k \in 1 .. Len(E) : k \in 1 .. Len(D) \/ k = Len(D) + 1
      /\ Len(D) + 1 \in 1 .. Len(E)
      /\ E[Len(D) + 1].kind = want.kind /\ E[Len(D) + 1].start = start
      /\ E[Len(D) + 1].length = want.size /\ E[Len(D) + 1].last = FALSE
  <2>1. Len(E) = Len(D) + 1 /\ (\A k \in 1 .. Len(D) : E[k] = D[k])
        /\ E[Len(D) + 1] = [kind |-> want.kind, start |-> start, length |-> want.size, last |-> FALSE]
    <3> HIDE DEF D, E
    <3> QED
      BY <1>2, <1>3
  <2> QED
    BY <1>2, <2>1
<1>5. \A h \in Handles : Ranges(h)' = Ranges(h) /\ Ranges(h) \subseteq Registers /\ Ranges(h) \subseteq Nat
  BY <1>1, <1>2 DEF Ranges, Registers
<1>6. Reached(c) = i /\ Reached(c)' = i + 1
  BY <1>1, <1>2 DEF Reached
<1>7. Told(c, i + 1)'
  <2> DEFINE Now(d, j) == /\ d.kind = bus[c].wants[j].kind /\ d.start = bus'[c].bar[j]
                          /\ d.length = bus[c].wants[j].size
  <2>1. Told(c, i)
    BY <1>1, <1>6 DEF ScanInv
  <2>2. Len(E) < i + 1
    BY <1>2, <1>4, <2>1 DEF Told
  <2>3. ASSUME NEW k \in 1 .. Len(D), NEW j \in Ranges(c), j < i, Describes(D[k], c, j)
        PROVE  Now(E[k], j)
    <3>1. j \in Registers
      BY <1>1, <1>5
    <3>2. j # i
      BY <1>2, <2>3
    <3> QED
      BY <1>3, <1>4, <2>3, <3>1, <3>2 DEF Describes
  <2>4. Now(E[Len(D) + 1], i)
    BY <1>1, <1>4 DEF start
  <2>5. ASSUME NEW k \in 1 .. Len(E)
        PROVE  \E j \in Ranges(c) : j < i + 1 /\ Now(E[k], j)
    <3>1. CASE k \in 1 .. Len(D)
      <4>1. PICK j \in Ranges(c) : j < i /\ Describes(D[k], c, j)
        BY <2>1, <3>1 DEF Told
      <4>2. j < i + 1
        BY <1>1, <1>2, <1>5, <4>1
      <4> QED
        BY <2>3, <3>1, <4>1, <4>2
    <3>2. CASE k = Len(D) + 1
      <4>1. i < i + 1
        BY <1>2
      <4> QED
        BY <1>1, <2>4, <3>2, <4>1
    <3> QED
      BY <1>4, <3>1, <3>2
  <2>6. ASSUME NEW j \in Ranges(c), j < i + 1
        PROVE  \E k \in 1 .. Len(E) : Now(E[k], j)
    <3>1. CASE j = i
      BY <1>4, <2>4, <3>1
    <3>2. CASE j # i
      <4>1. j < i
        BY <1>1, <1>2, <1>5, <2>6, <3>2
      <4>2. PICK k \in 1 .. Len(D) : Describes(D[k], c, j)
        BY <2>1, <4>1 DEF Told
      <4> QED
        BY <1>4, <2>3, <4>1, <4>2
    <3> QED
      BY <3>1, <3>2
  <2> QED
    <3>1. Ranges(c)' = Ranges(c) /\ bus'[c].wants = bus[c].wants
      BY <1>1, <1>5
    <3>2. Told(c, i + 1)' <=>
            /\ Len(E) < i + 1
            /\ \A k \in 1 .. Len(E) : \E j \in Ranges(c) : j < i + 1 /\ Now(E[k], j)
            /\ \A j \in Ranges(c) : j < i + 1 => \E k \in 1 .. Len(E) : Now(E[k], j)
      BY <3>1 DEF Told, Describes
    <3> HIDE DEF Now, E
    <3> QED
      BY <2>2, <2>5, <2>6, <3>2
<1>8. SetBefore(c, i + 1)'
  <2>1. SetBefore(c, i)
    BY <1>1, <1>6 DEF ScanInv
  <2> SUFFICES ASSUME NEW j \in Registers
               PROVE  IF j \in Ranges(c) /\ j < i + 1
                      THEN bus'[c].bar[j] \in Nat /\ bus'[c].bar[j] % bus[c].wants[j].size = 0
                      ELSE bus'[c].bar[j] = UNSET
    BY <1>1, <1>5 DEF SetBefore
  <2>2. CASE j = i
    <3>1. j \in Ranges(c) /\ j < i + 1
      BY <1>1, <1>2, <2>2
    <3> QED
      BY <1>3, <2>2, <3>1 DEF start
  <2>3. CASE j # i
    <3>1. j < i + 1 <=> j < i
      BY <1>2, <2>3 DEF Registers
    <3> QED
      BY <1>3, <2>1, <2>3, <3>1 DEF SetBefore
  <2> QED
    BY <2>2, <2>3
<1>9. ASSUME NEW h \in Handles
      PROVE  Told(h, Reached(h))' /\ SetBefore(h, Reached(h))'
  <2>1. CASE h # c
    <3>1. Reached(h)' = Reached(h) /\ Untouched(h)
      BY <1>1, <1>2, <2>1 DEF Reached, Untouched
    <3> QED
      BY <3>1, UntouchedKept DEF ScanInv
  <2>2. CASE h = c
    BY <1>6, <1>7, <1>8, <2>2
  <2> QED
    BY <2>1, <2>2
<1>10. Marks'
  <2> SUFFICES ASSUME NEW h \in Handles, NEW k \in 1 .. Len(descriptors'[h])
               PROVE  descriptors'[h][k].last <=> (h < c /\ k = Len(descriptors'[h]))
    BY <1>1 DEF Marks
  <2>1. CASE h # c
    BY <1>1, <2>1 DEF ScanInv, Marks
  <2>2. CASE h = c
    <3>1. ~(c < c)
      BY <1>1, <1>2
    <3>2. ~E[k].last
      <4>1. CASE k \in 1 .. Len(D)
        BY <1>1, <1>4, <3>1, <4>1 DEF ScanInv, Marks
      <4>2. CASE k = Len(D) + 1
        BY <1>4, <4>2
      <4> QED
        BY <1>4, <2>2, <4>1, <4>2
    <3> QED
      BY <2>2, <3>1, <3>2
  <2> QED
    BY <2>1, <2>2
<1>11. Responding'
  <2> SUFFICES ASSUME NEW h \in Handles
               PROVE  IF h < c THEN \A j \in Ranges(h) : Responds(h, j)' ELSE bus'[h].cr = {}
    BY <1>1, <1>5 DEF Responding
  <2>1. bus'[h].cr = bus[h].cr /\ \A j : Responds(h, j)' <=> Responds(h, j)
    BY <1>1 DEF Responds
  <2> QED
    BY <1>1, <2>1 DEF ScanInv, Responding
<1>12. Collected'
  <2> SUFFICES ASSUME NEW j \in Ranges(c), j < i + 1
               PROVE  Window(bus[c].wants[j].kind) \in scan.cr \cup {window}
    BY <1>1, <1>5 DEF Collected
  <2>1. CASE j = i
    BY <2>1
  <2>2. CASE j # i
    <3>1. j < i /\ scan.bar > 0
      BY <1>1, <1>2, <1>5, <2>2
    <3> QED
      BY <1>1, <3>1 DEF ScanInv, Collected
  <2> QED
    BY <2>1, <2>2
<1>13. bus'[1].wants = Bridge
  BY <1>1, PciConstants DEF ScanInv, Handles
<1>14. scan'.index = 1 \/ scan'.index > NUM_FOUND => scan'.bar = 0
  BY <1>1, PciConstants DEF Handles
<1> QED
  BY <1>9, <1>10, <1>11, <1>12, <1>13, <1>14 DEF ScanInv

LEMMA MarkedEnd ==
    ASSUME NEW D \in Seq(Descriptor)
    PROVE  /\ WithEnd(D) \in Seq(Descriptor) /\ Len(WithEnd(D)) = Len(D) /\ Len(D) \in Nat
           /\ \A k \in 1 .. Len(D) :
                 /\ WithEnd(D)[k].kind = D[k].kind /\ WithEnd(D)[k].start = D[k].start
                 /\ WithEnd(D)[k].length = D[k].length
                 /\ WithEnd(D)[k].last = (D[k].last \/ k = Len(D))
<1>1. Len(D) \in Nat /\ \A k \in 1 .. Len(D) : D[k] \in Descriptor
  OBVIOUS
<1>2. CASE D = <<>>
  BY <1>2 DEF WithEnd
<1>3. CASE D # <<>>
  <2> DEFINE n == Len(D)
             d == [D[n] EXCEPT !.last = TRUE]
  <2>1. n \in 1 .. n /\ D[n] \in Descriptor
    BY <1>1, <1>3
  <2>2. /\ d \in Descriptor /\ d.kind = D[n].kind /\ d.start = D[n].start /\ d.length = D[n].length
        /\ d.last = TRUE
    BY <2>1 DEF Descriptor
  <2>3. WithEnd(D) = [D EXCEPT ![n] = d]
    BY <1>3 DEF WithEnd
  <2> HIDE DEF d
  <2>4. /\ WithEnd(D) \in Seq(Descriptor) /\ Len(WithEnd(D)) = n
        /\ \A k \in 1 .. n : WithEnd(D)[k] = IF k = n THEN d ELSE D[k]
    BY <2>1, <2>2, <2>3
  <2>5. \A k \in 1 .. n : D[k].last \in BOOLEAN
    BY <1>1 DEF Descriptor
  <2> QED
    BY <1>1, <2>2, <2>4, <2>5
<1> QED
  BY <1>2, <1>3

LEMMA EnableStep ==
    ASSUME ScanInv, EnableCard
    PROVE  ScanInv' /\ \A h \in Handles : Untouched(h)
<1> DEFINE c == scan.index
           D == descriptors[c]
<1>1. /\ c \in Handles /\ scan.bar = BARS + 2
      /\ descriptors' = [descriptors EXCEPT ![c] = WithEnd(D)]
      /\ bus' = [bus EXCEPT ![c].cr = scan.cr]
      /\ scan' = [index |-> c + 1, bar |-> 0, cr |-> {}] /\ address' = address
  BY DEF EnableCard, Scanning, ScanInv, ScanTypes, Handles
<1>2. /\ ScanTypes /\ Handles \subseteq Nat \ {0} /\ BARS \in Nat /\ D \in Seq(Descriptor)
      /\ NUM_FOUND \in Nat /\ 1 \in Handles
  BY <1>1, PciConstants DEF ScanInv, ScanTypes, Handles
<1>3. /\ scan'.index = c + 1 /\ scan'.bar = 0 /\ c \in Nat \ {0}
  BY <1>1, <1>2
<1>4. /\ \A h \in Handles : bus'[h].wants = bus[h].wants /\ bus'[h].bar = bus[h].bar
      /\ \A h \in Handles : h # c => bus'[h] = bus[h] /\ descriptors'[h] = descriptors[h]
      /\ bus'[c].cr = scan.cr /\ descriptors'[c] = WithEnd(D)
  BY <1>1, <1>2 DEF ScanTypes, Function
<1>5. ScanTypes'
  <2>1. bus' \in [Handles -> Function]
    <3>1. [bus[c] EXCEPT !.cr = scan.cr] \in Function
      <4>1. bus[c] \in Function /\ scan.cr \in SUBSET Spaces
        BY <1>1, <1>2 DEF ScanTypes
      <4> QED
        BY <4>1, CommandWritten
    <3> QED
      BY <1>1, <1>2, <3>1 DEF ScanTypes
  <2>2. scan' \in [index : 1 .. NUM_FOUND + 1, bar : 0 .. BARS + 2, cr : SUBSET Spaces]
    <3>1. c + 1 \in 1 .. NUM_FOUND + 1 /\ 0 \in 0 .. BARS + 2
      BY <1>1, <1>2 DEF Handles
    <3> QED
      BY <1>1, <3>1
  <2>3. descriptors' \in [Handles -> Seq(Descriptor)]
    <3>1. WithEnd(D) \in Seq(Descriptor)
      BY <1>2, MarkedEnd
    <3> QED
      BY <1>1, <1>2, <3>1 DEF ScanTypes
  <2> QED
    BY <1>1, <1>2, <2>1, <2>2, <2>3 DEF ScanTypes
<1>6. ASSUME NEW h \in Handles PROVE Untouched(h)
  <2>1. CASE h # c
    BY <1>4, <2>1 DEF Untouched
  <2>2. CASE h = c
    BY <1>2, <1>4, <2>2, MarkedEnd DEF Untouched
  <2> QED
    BY <2>1, <2>2
<1>7. ASSUME NEW h \in Handles
      PROVE  Told(h, Reached(h))' /\ SetBefore(h, Reached(h))'
  <2>1. h \in Nat /\ Reached(h)' = Reached(h)
    BY <1>1, <1>2, <1>3 DEF Reached
  <2> QED
    BY <1>6, <2>1, UntouchedKept DEF ScanInv
<1>8. Marks'
  <2> SUFFICES ASSUME NEW h \in Handles, NEW k \in 1 .. Len(descriptors'[h])
               PROVE  descriptors'[h][k].last <=> (h < c + 1 /\ k = Len(descriptors'[h]))
    BY <1>3 DEF Marks
  <2>1. CASE h # c
    <3>1. h < c + 1 <=> h < c
      BY <1>1, <1>2, <2>1
    <3> QED
      BY <1>4, <2>1, <3>1 DEF ScanInv, Marks
  <2>2. CASE h = c
    <3>1. c < c + 1 /\ ~(c < c)
      BY <1>3
    <3>2. /\ Len(WithEnd(D)) = Len(D) /\ k \in 1 .. Len(D)
          /\ WithEnd(D)[k].last = (D[k].last \/ k = Len(D))
      BY <1>2, <1>4, <2>2, MarkedEnd
    <3>3. ~D[k].last
      BY <1>1, <3>1, <3>2 DEF ScanInv, Marks
    <3> QED
      BY <1>4, <2>2, <3>1, <3>2, <3>3
  <2> QED
    BY <2>1, <2>2
<1>9. Responding'
  <2> SUFFICES ASSUME NEW h \in Handles
               PROVE  IF h < c + 1 THEN \A i \in Ranges(h) : Responds(h, i)' ELSE bus'[h].cr = {}
    BY <1>3, <1>6, UntouchedKept DEF Responding
  <2>1. CASE h # c
    <3>1. h < c + 1 <=> h < c
      BY <1>1, <1>2, <2>1
    <3>2. \A i : Responds(h, i)' <=> Responds(h, i)
      BY <1>4, <2>1 DEF Responds
    <3> QED
      BY <1>4, <2>1, <3>1, <3>2 DEF ScanInv, Responding
  <2>2. CASE h = c
    <3>1. \A i \in Ranges(c) : i < BARS + 2
      BY <1>2 DEF Ranges
    <3>2. \A i \in Ranges(c) : Window(bus[c].wants[i].kind) \in scan.cr
      BY <1>1, <1>2, <3>1 DEF ScanInv, Collected
    <3>3. c < c + 1
      BY <1>3
    <3> QED
      BY <1>1, <1>4, <2>2, <3>2, <3>3 DEF Responds
  <2> QED
    BY <2>1, <2>2
<1>10. Collected'
  BY <1>3 DEF Collected
<1> QED
  BY <1>2, <1>3, <1>4, <1>5, <1>6, <1>7, <1>8, <1>9, <1>10 DEF ScanInv

LEMMA ScanStutters ==
    ASSUME ScanInv, UNCHANGED <<bus, scan, descriptors, address>>
    PROVE  ScanInv'
BY DEF ScanInv, ScanTypes, Told, SetBefore, Reached, Ranges, Describes, Marks, Responding, Responds,
       Collected

LEMMA HooksOnly ==
    ASSUME NEW h \in Handles,
           \/ pci_hook_interrupt(h) \/ pci_unhook_interrupt(h)
           \/ HookHandler \/ HookParameter \/ CutHandler \/ UnhookHandler \/ UnhookParameter
    PROVE  UNCHANGED <<bus, scan, descriptors, address>>
BY DEF pci_hook_interrupt, pci_unhook_interrupt, HookHandler, HookParameter, CutHandler,
       UnhookHandler, UnhookParameter

LEMMA ScanNext == ScanInv /\ [Next]_vars => ScanInv'
<1> SUFFICES ASSUME ScanInv, [Next]_vars PROVE ScanInv'
  OBVIOUS
<1>1. CASE pci_scan
  <2>1. CASE ConfigureRegister
    BY <2>1, UnusedStep, UsedRegister, UsedStep
  <2> QED
    BY <1>1, <2>1, BridgeStep, DisableStep, EnableStep DEF pci_scan
<1>2. CASE UNCHANGED <<bus, scan, descriptors, address>>
  BY <1>2, ScanStutters
<1> QED
  BY <1>1, <1>2, HooksOnly, PciConstants DEF Next, vars, Handles

(* What pci_device_config has set, told in the chain and let respond.      *)
THEOREM ScanTable == Spec => []ScanInv
BY ScanInit, ScanNext, PTL DEF Spec

(* A card responds to addresses only when each of its registers holds a    *)
(* range aligned to its size: pci_device_config, for any cards.            *)
THEOREM RespondsWhenSet == Spec => []RespondsConfigured
<1>1. ScanInv => RespondsConfigured
  <2> SUFFICES ASSUME ScanInv, NEW h \in Handles, NEW i \in Ranges(h), Responds(h, i)
               PROVE  bus[h].bar[i] # UNSET /\ bus[h].bar[i] % bus[h].wants[i].size = 0
    BY DEF RespondsConfigured
  <2>1. h < scan.index
    BY DEF ScanInv, Responding, Responds
  <2>2. i \in Registers /\ i < BARS + 2
    BY PciConstants DEF Ranges, Registers
  <2>3. SetBefore(h, BARS + 2)
    BY <2>1 DEF ScanInv, Reached
  <2>4. bus[h].bar[i] \in Nat /\ bus[h].bar[i] % bus[h].wants[i].size = 0
    BY <2>2, <2>3 DEF SetBefore
  <2> QED
    BY <2>4 DEF UNSET
<1> QED
  BY <1>1, ScanTable, PTL

(* The types of all variables, from the two invariants. *)
LEMMA TypesOfBoth == ScanInv /\ HookInv => TypeOK
<1> SUFFICES ASSUME ScanInv, HookInv PROVE TypeOK
  OBVIOUS
<1>1. ScanTypes
  BY DEF ScanInv
<1>2. \A h \in Handles : Len(descriptors[h]) <= NUM_RESOURCES
  <2> SUFFICES ASSUME NEW h \in Handles PROVE Len(descriptors[h]) <= NUM_RESOURCES
    OBVIOUS
  <2>1. descriptors[h] \in Seq(Descriptor)
    BY <1>1 DEF ScanTypes
  <2>2. Len(descriptors[h]) \in Nat
    BY <2>1
  <2>3. Len(descriptors[h]) < Reached(h)
    BY DEF ScanInv, Told
  <2>4. Reached(h) \in Nat /\ Reached(h) <= BARS + 2
    BY <1>1, PciConstants DEF Reached, ScanTypes
  <2> QED
    BY <2>2, <2>3, <2>4, PciConstants
<1>3. \A h \in Handles : \A i \in 1 .. Len(descriptors[h]) : descriptors[h][i] \in Descriptor
  <2> SUFFICES ASSUME NEW h \in Handles, NEW i \in 1 .. Len(descriptors[h])
               PROVE  descriptors[h][i] \in Descriptor
    OBVIOUS
  <2>1. descriptors[h] \in Seq(Descriptor)
    BY <1>1 DEF ScanTypes
  <2> QED
    BY <2>1
<1>4. hooking \in [op : {"none", "hook", "unhook"}, handle : Handles \cup {NULL},
                   slot : Slots \cup {NULL}, step : 0 .. 3]
  <2>1. CASE hooking = Done
    BY <2>1 DEF Done
  <2>2. ASSUME NEW h \in Handles, NEW s \in Slots, Halfway(h, s)
        PROVE  /\ hooking \in [op : {"none", "hook", "unhook"}, handle : Handles \cup {NULL},
                               slot : Slots \cup {NULL}, step : 0 .. 3]
    <3>1. \E op \in {"hook", "unhook"}, step \in 1 .. 3 :
             hooking = [op |-> op, handle |-> h, slot |-> s, step |-> step]
      BY <2>2 DEF Halfway, At
    <3> QED
      BY <3>1
  <2> QED
    BY <2>1, <2>2 DEF HookInv
<1> QED
  BY <1>1, <1>2, <1>3, <1>4
     DEF TypeOK, HookInv, Entry, ScanTypes, Function, Registers, Spaces, Descriptor

(* A driver that walks the chain of a configured card up to FLG_LAST finds *)
(* each range the card responds to and no other, for any number of cards,  *)
(* registers and sizes.                                                    *)
THEOREM ChainsComplete == Spec => []ChainTellsRanges
<1>1. ScanInv /\ HookInv => ChainTellsRanges
  <2> SUFFICES ASSUME ScanInv, HookInv, NEW h \in Handles, h < scan.index
               PROVE  /\ {<<d.kind, d.start, d.length>> : d \in Walked(descriptors[h])} =
                         {<<bus[h].wants[i].kind, bus[h].bar[i], bus[h].wants[i].size>> : i \in Ranges(h)}
                      /\ \A i \in Ranges(h) : Responds(h, i)
                      /\ descriptors[h] # <<>> => Last(descriptors[h]).last
    BY TypesOfBoth DEF ChainTellsRanges
  <2> DEFINE D == descriptors[h]
  <2>1. D \in Seq(Descriptor) /\ Len(D) \in Nat /\ DOMAIN D = 1 .. Len(D)
    <3>1. D \in Seq(Descriptor)
      BY DEF ScanInv, ScanTypes
    <3> QED
      BY <3>1
  <2>2. \A k \in 1 .. Len(D) : D[k].last <=> k = Len(D)
    BY DEF ScanInv, Marks
  <2>3. /\ \A k \in 1 .. Len(D) : \E i \in Ranges(h) : Describes(D[k], h, i)
        /\ \A i \in Ranges(h) : \E k \in 1 .. Len(D) : Describes(D[k], h, i)
    <3>1. \A i \in Ranges(h) : i < BARS + 2
      BY PciConstants DEF Ranges
    <3>2. Told(h, BARS + 2)
      BY DEF ScanInv, Reached
    <3> QED
      BY <3>1, <3>2 DEF Told
  <2>4. Walked(D) = {D[k] : k \in 1 .. Len(D)}
    <3>1. ToSet(D) = {D[k] : k \in 1 .. Len(D)}
      BY <2>1 DEF ToSet
    <3>2. \A k \in 1 .. Len(D) : \A j \in 1 .. k - 1 : ~D[j].last
      <4> SUFFICES ASSUME NEW k \in 1 .. Len(D), NEW j \in 1 .. k - 1 PROVE ~D[j].last
        OBVIOUS
      <4>1. j \in 1 .. Len(D) /\ j # Len(D)
        BY <2>1
      <4> QED
        BY <2>2, <4>1
    <3> QED
      BY <3>1, <3>2 DEF Walked
  <2>5. {<<d.kind, d.start, d.length>> : d \in Walked(D)} =
        {<<bus[h].wants[i].kind, bus[h].bar[i], bus[h].wants[i].size>> : i \in Ranges(h)}
    <3> DEFINE range(i) == <<bus[h].wants[i].kind, bus[h].bar[i], bus[h].wants[i].size>>
               told(d) == <<d.kind, d.start, d.length>>
    <3>1. \A k, i : Describes(D[k], h, i) => told(D[k]) = range(i)
      BY DEF Describes
    <3>2. ASSUME NEW d \in Walked(D) PROVE \E i \in Ranges(h) : told(d) = range(i)
      <4>1. PICK k \in 1 .. Len(D) : d = D[k]
        BY <2>4
      <4> HIDE DEF told, range
      <4> QED
        BY <2>3, <3>1, <4>1
    <3> HIDE DEF told, range
    <3>3. \A i \in Ranges(h) : \E d \in Walked(D) : told(d) = range(i)
      <4> SUFFICES ASSUME NEW i \in Ranges(h) PROVE \E d \in Walked(D) : told(d) = range(i)
        OBVIOUS
      <4>1. PICK k \in 1 .. Len(D) : Describes(D[k], h, i)
        BY <2>3
      <4> QED
        BY <2>4, <3>1, <4>1
    <3>4. {told(d) : d \in Walked(D)} = {range(i) : i \in Ranges(h)}
      BY <3>2, <3>3
    <3> QED
      BY <3>4 DEF told, range
  <2>6. D # <<>> => Last(D).last
    <3> SUFFICES ASSUME D # <<>> PROVE D[Len(D)].last
      BY DEF Last
    <3>1. Len(D) \in 1 .. Len(D)
      BY <2>1
    <3> QED
      BY <2>2, <3>1
  <2>7. \A i \in Ranges(h) : Responds(h, i)
    BY DEF ScanInv, Responding
  <2> QED
    BY <2>5, <2>6, <2>7
<1> QED
  BY <1>1, ScanTable, HookTable, PTL

-----------------------------------------------------------------------------
(* The addresses.                                                          *)
SizeOf(r) == bus[r[1]].wants[r[2]].size
SpaceOf(r) == Window(bus[r[1]].wants[r[2]].kind)
StartOf(r) == bus[r[1]].bar[r[2]]

Sorted ==
    \A r, s \in Assigned : Before(r, s) /\ SpaceOf(r) = SpaceOf(s) => SizeOf(r) >= SizeOf(s)

(* The address kept for the next range of a window is behind all ranges in *)
(* it, and a multiple of each size that is not larger than theirs: the     *)
(* next range of a falling sequence starts right there.                    *)
SpaceInv ==
    Sorted =>
        /\ NoOverlap
        /\ \A r \in Assigned : StartOf(r) + SizeOf(r) <= address[SpaceOf(r)]
        /\ \A w \in Spaces, u \in Sizes :
              (\A r \in Assigned : SpaceOf(r) = w => u <= SizeOf(r)) => address[w] % u = 0

LEMMA AssignedBefore ==
    ASSUME ScanInv, NEW r \in Assigned
    PROVE  /\ r \in Handles \X Registers /\ r[1] \in Handles /\ r[2] \in Registers
           /\ r[2] \in Ranges(r[1]) /\ r[2] < Reached(r[1])
           /\ StartOf(r) \in Nat /\ SizeOf(r) \in Nat \ {0} /\ SizeOf(r) \in Sizes
           /\ SpaceOf(r) \in Spaces
<1>1. r \in Handles \X Registers /\ bus[r[1]].bar[r[2]] # UNSET
  BY DEF Assigned, Registers
<1>2. r[1] \in Handles /\ r[2] \in Registers
  BY <1>1
<1>3. SetBefore(r[1], Reached(r[1]))
  BY <1>2 DEF ScanInv
<1>4. r[2] \in Ranges(r[1]) /\ r[2] < Reached(r[1]) /\ StartOf(r) \in Nat
  BY <1>1, <1>2, <1>3 DEF SetBefore, StartOf
<1>5. ScanTypes
  BY DEF ScanInv
<1> QED
  BY <1>1, <1>2, <1>4, <1>5, InUse DEF SizeOf, SpaceOf

LEMMA SpaceKept ==
    ASSUME SpaceInv, \A h \in Handles : bus'[h].wants = bus[h].wants /\ bus'[h].bar = bus[h].bar,
           address' = address
    PROVE  SpaceInv'
<1>1. \A r \in Handles \X (1 .. BARS + 1) :
         /\ SizeOf(r)' = SizeOf(r) /\ SpaceOf(r)' = SpaceOf(r) /\ StartOf(r)' = StartOf(r)
         /\ r[1] \in Handles
  BY DEF SizeOf, SpaceOf, StartOf
<1>2. Assigned' = Assigned /\ Assigned \subseteq Handles \X (1 .. BARS + 1)
  BY DEF Assigned
<1>3. Sorted' <=> Sorted
  BY <1>1, <1>2 DEF Sorted, Before
<1>4. \A r, s \in Handles \X (1 .. BARS + 1) : Overlap(r, s)' <=> Overlap(r, s)
  <2> SUFFICES ASSUME NEW r \in Handles \X (1 .. BARS + 1), NEW s \in Handles \X (1 .. BARS + 1)
               PROVE  Overlap(r, s)' <=> Overlap(r, s)
    OBVIOUS
  <2>1. r[1] \in Handles /\ s[1] \in Handles
    BY <1>1
  <2>2. /\ bus'[r[1]].wants = bus[r[1]].wants /\ bus'[r[1]].bar = bus[r[1]].bar
        /\ bus'[s[1]].wants = bus[s[1]].wants /\ bus'[s[1]].bar = bus[s[1]].bar
    BY <2>1
  <2>3. /\ Addresses(r[1], r[2])' = Addresses(r[1], r[2])
        /\ Addresses(s[1], s[2])' = Addresses(s[1], s[2])
    BY <2>2 DEF Addresses
  <2> QED
    BY <2>2, <2>3 DEF Overlap
<1>5. NoOverlap' <=> NoOverlap
  BY <1>2, <1>4 DEF NoOverlap
<1> QED
  BY <1>1, <1>2, <1>3, <1>5 DEF SpaceInv

LEMMA SpaceUsed ==
    ASSUME ScanInv, SpaceInv, NEW c, NEW i, Configures(c, i)
    PROVE  SpaceInv'
<1> DEFINE t == bus[c].wants[i].size
           w == Window(bus[c].wants[i].kind)
           start == bus'[c].bar[i]
           new == <<c, i>>
<1>1. /\ c = scan.index /\ i = scan.bar /\ c \in Handles /\ i \in Registers
      /\ w \in Spaces /\ t \in Sizes /\ t \in Nat \ {0}
      /\ \A h \in Handles : bus'[h].wants = bus[h].wants
      /\ \A h \in Handles : h # c => bus'[h] = bus[h]
      /\ address' = [address EXCEPT ![w] = address[w] + t]
  BY DEF Configures
<1>2. /\ ScanTypes /\ Handles \subseteq Nat \ {0} /\ BARS \in Nat /\ i \in Nat \ {0}
      /\ address[w] \in Nat
  BY <1>1, PciConstants DEF ScanInv, ScanTypes, Handles, Registers
<1>3. /\ start = Align(address[w], t) /\ start \in Nat
      /\ \A j \in Registers : j # i => bus'[c].bar[j] = bus[c].bar[j]
  <2>1. bus[c].bar \in [Registers -> Int]
    BY <1>1, <1>2 DEF ScanTypes, Function
  <2> QED
    BY <1>1, <2>1 DEF Configures
<1>4. ASSUME NEW r \in Assigned
      PROVE  /\ r \in Handles \X Registers /\ Before(r, new) /\ r # new
             /\ SizeOf(r)' = SizeOf(r) /\ SpaceOf(r)' = SpaceOf(r) /\ StartOf(r)' = StartOf(r)
             /\ SizeOf(r) \in Nat \ {0} /\ SizeOf(r) \in Sizes /\ StartOf(r) \in Nat /\ SpaceOf(r) \in Spaces
  <2>1. /\ r \in Handles \X Registers /\ r[1] \in Handles /\ r[2] \in Registers /\ r[2] < Reached(r[1])
        /\ SizeOf(r) \in Nat \ {0} /\ SizeOf(r) \in Sizes /\ StartOf(r) \in Nat /\ SpaceOf(r) \in Spaces
    BY AssignedBefore
  <2>2. r[1] < c \/ (r[1] = c /\ r[2] < i)
    BY <1>1, <1>2, <2>1 DEF Reached, Registers
  <2>3. r[1] \in Nat /\ r[2] \in Nat /\ c \in Nat
    BY <1>1, <1>2, <2>1 DEF Registers
  <2>4. r[1] # c \/ r[2] # i
    BY <1>2, <2>2, <2>3
  <2>5. Before(r, new) /\ r # new
    BY <2>2, <2>4 DEF Before
  <2>6. StartOf(r)' = StartOf(r)
    <3>1. CASE r[1] # c
      BY <1>1, <2>1, <3>1 DEF StartOf
    <3>2. CASE r[1] = c /\ r[2] # i
      BY <1>3, <2>1, <3>2 DEF StartOf
    <3> QED
      BY <2>4, <3>1, <3>2
  <2> QED
    BY <1>1, <2>1, <2>5, <2>6 DEF SizeOf, SpaceOf
<1>5. /\ SizeOf(new)' = t /\ SpaceOf(new)' = w /\ StartOf(new)' = start
  BY <1>1 DEF SizeOf, SpaceOf, StartOf
<1>6. Assigned' = Assigned \cup {new}
  <2>1. new \in Assigned'
    <3>1. new \in Handles \X (1 .. BARS + 1)
      BY <1>1 DEF Registers
    <3>2. start # UNSET
      BY <1>3 DEF UNSET
    <3> HIDE DEF start
    <3>3. bus'[new[1]].bar[new[2]] # UNSET
      BY <3>2 DEF start
    <3> QED
      BY <3>1, <3>3 DEF Assigned
  <2>2. Assigned \subseteq Assigned'
    <3> SUFFICES ASSUME NEW r \in Assigned PROVE r \in Assigned'
      OBVIOUS
    <3>1. StartOf(r)' = StartOf(r)
      BY <1>4
    <3> QED
      BY <3>1 DEF Assigned, StartOf
  <2>3. ASSUME NEW r \in Assigned', r # new PROVE r \in Assigned
    <3>1. r \in Handles \X Registers /\ r[1] \in Handles /\ r[2] \in Registers
          /\ bus'[r[1]].bar[r[2]] # UNSET
      BY <2>3 DEF Assigned, Registers
    <3>2. r[1] # c \/ r[2] # i
      BY <2>3, <3>1
    <3>3. bus'[r[1]].bar[r[2]] = bus[r[1]].bar[r[2]]
      BY <1>1, <1>3, <3>1, <3>2
    <3> QED
      BY <3>1, <3>3 DEF Assigned, Registers
  <2> QED
    BY <2>1, <2>2, <2>3
<1> SUFFICES ASSUME Sorted'
             PROVE  /\ NoOverlap'
                    /\ \A r \in Assigned' : StartOf(r)' + SizeOf(r)' <= address'[SpaceOf(r)']
                    /\ \A v \in Spaces, u \in Sizes :
                          (\A r \in Assigned' : SpaceOf(r)' = v => u <= SizeOf(r)') => address'[v] % u = 0
  BY DEF SpaceInv
<1>7. Sorted
  BY <1>4, <1>6 DEF Sorted, Before
<1>8. \A r \in Assigned : SpaceOf(r) = w => t <= SizeOf(r)
  <2> SUFFICES ASSUME NEW r \in Assigned, SpaceOf(r) = w PROVE t <= SizeOf(r)
    OBVIOUS
  <2>1. Before(r, new)' /\ r \in Assigned' /\ new \in Assigned' /\ SpaceOf(r)' = SpaceOf(new)'
    BY <1>4, <1>5, <1>6 DEF Before
  <2>2. SizeOf(r)' >= SizeOf(new)'
    BY <2>1 DEF Sorted
  <2>3. SizeOf(r)' = SizeOf(r) /\ SizeOf(new)' = t /\ SizeOf(r) \in Nat /\ t \in Nat
    BY <1>1, <1>4, <1>5
  <2> HIDE DEF t, new, w
  <2> QED
    BY <2>2, <2>3
<1>9. start = address[w]
  <2>1. address[w] % t = 0
    BY <1>1, <1>7, <1>8 DEF SpaceInv
  <2>2. start = Align(address[w], t) /\ address[w] \in Nat /\ t \in Nat \ {0}
    BY <1>1, <1>2, <1>3
  <2> HIDE DEF start, t, w
  <2> QED
    BY <2>1, <2>2, Aligned
<1>10. address'[w] = start + t /\ \A v \in Spaces : v # w => address'[v] = address[v]
  <2>1. address' = [address EXCEPT ![w] = address[w] + t] /\ w \in DOMAIN address
    BY <1>1, <1>2 DEF ScanTypes
  <2>2. DOMAIN address = Spaces
    BY <1>2 DEF ScanTypes
  <2> HIDE DEF t, w, start
  <2>3. address'[w] = address[w] + t /\ \A v \in Spaces : v # w => address'[v] = address[v]
    BY <2>1, <2>2
  <2> QED
    BY <1>9, <2>3
<1>11. \A r \in Assigned' : StartOf(r)' + SizeOf(r)' <= address'[SpaceOf(r)']
  <2>1. StartOf(new)' + SizeOf(new)' <= address'[SpaceOf(new)']
    <3>1. start \in Nat /\ t \in Nat
      BY <1>1, <1>3
    <3>2. SpaceOf(new)' = w /\ StartOf(new)' = start /\ SizeOf(new)' = t
      BY <1>5
    <3> HIDE DEF t, w, start, new
    <3>3. start + t <= start + t
      BY <3>1
    <3> QED
      BY <1>10, <3>2, <3>3
  <2>2. ASSUME NEW r \in Assigned PROVE StartOf(r)' + SizeOf(r)' <= address'[SpaceOf(r)']
    <3>1. StartOf(r) + SizeOf(r) <= address[SpaceOf(r)]
      BY <1>7 DEF SpaceInv
    <3>2. /\ StartOf(r) \in Nat /\ SizeOf(r) \in Nat /\ SpaceOf(r) \in Spaces
          /\ address[SpaceOf(r)] \in Nat
      BY <1>2, <1>4 DEF ScanTypes
    <3>3. address[SpaceOf(r)] <= address'[SpaceOf(r)]
      <4>1. t \in Nat
        BY <1>1
      <4> HIDE DEF t, w, start
      <4>2. CASE SpaceOf(r) = w
        <5>1. address'[SpaceOf(r)] = address[SpaceOf(r)] + t
          BY <1>9, <1>10, <4>2
        <5> QED
          BY <3>2, <4>1, <5>1
      <4>3. CASE SpaceOf(r) # w
        <5>1. address'[SpaceOf(r)] = address[SpaceOf(r)]
          BY <1>10, <3>2, <4>3
        <5> QED
          BY <3>2, <5>1
      <4> QED
        BY <4>2, <4>3
    <3>4. address'[SpaceOf(r)] \in Nat
      <4>1. CASE SpaceOf(r) = w
        <5>1. t \in Nat /\ start \in Nat /\ address'[w] = start + t
          BY <1>1, <1>3, <1>10
        <5> HIDE DEF t, start, w
        <5>2. start + t \in Nat
          BY <5>1
        <5> QED
          BY <4>1, <5>1, <5>2
      <4>2. CASE SpaceOf(r) # w
        BY <1>10, <3>2, <4>2
      <4> QED
        BY <4>1, <4>2
    <3>5. StartOf(r) + SizeOf(r) <= address'[SpaceOf(r)]
      BY <3>1, <3>2, <3>3, <3>4
    <3> QED
      BY <1>4, <3>5
  <2> QED
    BY <1>6, <2>1, <2>2
<1>12. NoOverlap'
  <2>1. ASSUME NEW r \in Assigned, SpaceOf(r) = w
        PROVE  (StartOf(r) .. StartOf(r) + SizeOf(r) - 1) \cap (start .. start + t - 1) = {}
    <3>1. StartOf(r) + SizeOf(r) <= start
      BY <1>7, <1>9, <2>1 DEF SpaceInv
    <3>2. StartOf(r) \in Nat /\ SizeOf(r) \in Nat
      BY <1>4
    <3>3. start \in Nat /\ StartOf(r) + SizeOf(r) \in Nat
      BY <1>3, <3>2
    <3> HIDE DEF start
    <3>4. ASSUME NEW a \in StartOf(r) .. StartOf(r) + SizeOf(r) - 1, a \in start .. start + t - 1
          PROVE  FALSE
      <4>1. a \in Int /\ a < StartOf(r) + SizeOf(r) /\ start <= a
        BY <3>2, <3>4
      <4> QED
        BY <3>1, <3>3, <4>1
    <3> QED
      BY <3>4
  <2> DEFINE R(r) == StartOf(r) .. StartOf(r) + SizeOf(r) - 1
  <2>2. \A r, s : Overlap(r, s)' <=> SpaceOf(r)' = SpaceOf(s)' /\ R(r)' \cap R(s)' # {}
    BY DEF Overlap, SpaceOf, Addresses, StartOf, SizeOf
  <2>3. \A r, s : Overlap(r, s) <=> SpaceOf(r) = SpaceOf(s) /\ R(r) \cap R(s) # {}
    BY DEF Overlap, SpaceOf, Addresses, StartOf, SizeOf
  <2>4. \A r \in Assigned : R(r)' = R(r)
    BY <1>4
  <2>5. R(new)' = start .. start + t - 1
    BY <1>5
  <2>6. ASSUME NEW r \in Assigned PROVE ~Overlap(r, new)' /\ ~Overlap(new, r)'
    BY <1>4, <1>5, <2>1, <2>2, <2>4, <2>5
  <2>7. ASSUME NEW r \in Assigned, NEW s \in Assigned, r # s PROVE ~Overlap(r, s)'
    <3>1. ~Overlap(r, s)
      BY <1>7, <2>7 DEF SpaceInv, NoOverlap
    <3> QED
      BY <1>4, <2>2, <2>3, <2>4, <3>1
  <2> QED
    BY <1>6, <2>6, <2>7 DEF NoOverlap
<1>13. ASSUME NEW v \in Spaces, NEW u \in Sizes,
              \A r \in Assigned' : SpaceOf(r)' = v => u <= SizeOf(r)'
       PROVE  address'[v] % u = 0
  <2>1. \A r \in Assigned : SpaceOf(r) = v => u <= SizeOf(r)
    BY <1>4, <1>6, <1>13
  <2>2. address[v] % u = 0
    BY <1>7, <2>1 DEF SpaceInv
  <2>3. CASE v = w
    <3>1. u <= t
      BY <1>5, <1>6, <1>13, <2>3
    <3>2. t % u = 0 /\ u \in Nat \ {0}
      BY <1>1, <3>1, PciConstants
    <3>3. (address[w] + t) % u = 0
      BY <1>1, <1>2, <2>2, <2>3, <3>2, SumOfMultiples
    <3> QED
      BY <1>9, <1>10, <2>3, <3>3
  <2>4. CASE v # w
    BY <1>10, <2>2, <2>4
  <2> QED
    BY <2>3, <2>4
<1> QED
  BY <1>11, <1>12, <1>13

LEMMA SpaceInit == Init => SpaceInv
<1> SUFFICES ASSUME Init PROVE SpaceInv
  OBVIOUS
<1>1. \A h \in Handles : \A i \in Registers : bus[h].bar[i] = UNSET
  <2>1. PICK wants \in [Handles -> Cards] :
            bus = [h \in Handles |-> [wants |-> wants[h], bar |-> [i \in 1 .. BARS + 1 |-> UNSET],
                                      cr |-> {}]]
    BY DEF Init
  <2>2. ASSUME NEW h \in Handles PROVE bus[h].bar = [i \in 1 .. BARS + 1 |-> UNSET]
    BY <2>1
  <2> QED
    BY <2>2 DEF Registers
<1>2. Assigned = {}
  BY <1>1 DEF Assigned, Registers
<1>3. \A w \in Spaces : address[w] = 0
  BY DEF Init, Spaces
<1>4. \A u \in Sizes : 0 % u = 0
  BY PciConstants
<1> QED
  BY <1>2, <1>3, <1>4 DEF SpaceInv, NoOverlap

LEMMA SpaceNext == ScanInv /\ SpaceInv /\ [Next]_vars => SpaceInv'
<1> SUFFICES ASSUME ScanInv, SpaceInv, [Next]_vars PROVE SpaceInv'
  OBVIOUS
<1>1. CASE pci_bridge_config \/ DisableCard
  <2>1. /\ \A h \in Handles : bus'[h].wants = bus[h].wants /\ bus'[h].bar = bus[h].bar
        /\ address' = address
    <3>1. bus \in [Handles -> Function]
      BY DEF ScanInv, ScanTypes
    <3> QED
      BY <1>1, <3>1 DEF Function, pci_bridge_config, DisableCard
  <2> QED
    BY <2>1, SpaceKept
<1>2. CASE EnableCard
  <2>1. address' = address /\ \A h \in Handles : Untouched(h)
    BY <1>2, EnableStep DEF EnableCard
  <2> QED
    BY <2>1, SpaceKept DEF Untouched
<1>3. CASE ConfigureRegister
  <2>1. CASE bus[scan.index].wants[scan.bar] = None
    BY <1>3, <2>1, UnusedStep, SpaceKept
  <2>2. CASE bus[scan.index].wants[scan.bar] # None
    BY <1>3, <2>2, UsedRegister, SpaceUsed
  <2> QED
    BY <2>1, <2>2
<1>4. CASE UNCHANGED <<bus, address>>
  BY <1>4, SpaceKept
<1> QED
  BY <1>1, <1>2, <1>3, <1>4, HooksOnly, PciConstants DEF Next, pci_scan, vars, Handles

(* Ranges do not overlap as long as each is at most as large as all before *)
(* it in its window (pci_device_config adds the size to the address it     *)
(* kept, not to the one it assigned): for any cards and sizes.             *)
THEOREM FallingSizesFit == Spec => []SortedNoOverlap
<1>1. SpaceInv => SortedNoOverlap
  BY DEF SpaceInv, Sorted, SortedNoOverlap, SpaceOf, SizeOf
<1>2. Init => ScanInv /\ SpaceInv
  BY ScanInit, SpaceInit
<1>3. ScanInv /\ SpaceInv /\ [Next]_vars => ScanInv' /\ SpaceInv'
  BY ScanNext, SpaceNext
<1> QED
  BY <1>1, <1>2, <1>3, PTL DEF Spec
=============================================================================
