------------------------------ MODULE ArpProofs ------------------------------
(***************************************************************************)
(* Proofs about Arp: the table has one entry per address for every number  *)
(* of hosts and entries, and as long as it has room for all hosts heard    *)
(* of, an entry found once stays and belongs to its host.                  *)
(***************************************************************************)
EXTENDS Arp, FiniteSetTheorems, WellFoundedInduction, TLAPS

Less == {ss \in Nat \X Nat : ss[1] < ss[2]}

LEMMA LessWellFounded == IsWellFoundedOn(Less, Nat)
  BY NatLessThanWellFounded DEF OpToRel, Less

(* A search that finds something finds the first slot. *)
LEMMA FirstSlot ==
    ASSUME NEW S \in SUBSET Slots
    PROVE  /\ S = {} => First(S) = NoSlot
           /\ S # {} => First(S) \in S
<1>1. S \subseteq Nat
  BY DEF Slots
<1>2. ASSUME S # {} PROVE \E s \in S : \A r \in S : s <= r
  <2>1. PICK x \in S : \A y \in S : ~ (<<y, x>> \in Less)
    BY <1>1, <1>2, LessWellFounded, WFMin
  <2>2. \A y \in S : ~(y < x)
    BY <1>1, <2>1 DEF Less
  <2> QED
    BY <1>1, <2>2
<1> QED
  BY <1>2 DEF First

LEMMA SlotFacts ==
    /\ NoSlot \notin Slots
    /\ MAX_ARP_ENTRY \in Slots
    /\ FreeSlot \in Slots
    /\ WithLongevity(ARP_ENTRY_EMPTY) # {} => FreeSlot \in WithLongevity(ARP_ENTRY_EMPTY)
    /\ \A pa : Matching(pa) # {} => arp_find_pair(pa) \in Matching(pa)
    /\ \A pa : Matching(pa) = {} => arp_find_pair(pa) = NoSlot
    /\ \A pa : Matching(pa) \subseteq Slots
<1>1. NoSlot \notin Slots /\ MAX_ARP_ENTRY \in Slots
  BY ArpAssumption DEF NoSlot, Slots
<1>2. \A l : WithLongevity(l) \subseteq Slots
  BY DEF WithLongevity
<1>3. \A pa : Matching(pa) \subseteq Slots
  BY DEF Matching
<1> QED
  BY <1>1, <1>2, <1>3, FirstSlot DEF FreeSlot, arp_find_pair

(* What arp_merge does to the table. *)
LEMMA MergeFacts ==
    ASSUME table \in [Slots -> Entry], OneEntryPerAddress,
           NEW h \in Hosts, NEW l \in {ARP_ENTRY_PERM, ARP_ENTRY_TEMP},
           arp_merge(h, h, l)
    PROVE  /\ table' \in [Slots -> Entry]
           /\ OneEntryPerAddress'
           /\ Matching(h)' # {}
           /\ Matching(h) # {} => \A s \in Slots :
                 /\ table'[s].pa = table[s].pa
                 /\ table'[s].longevity = table[s].longevity
                 /\ table'[s].hwa = IF s \in Matching(h) THEN h ELSE table[s].hwa
           /\ Matching(h) = {} =>
                 /\ table'[FreeSlot] = [longevity |-> l, pa |-> h, hwa |-> h]
                 /\ \A s \in Slots \ {FreeSlot} : table'[s] = table[s]
<1> DEFINE k == arp_find_pair(h)
<1>1. l # ARP_ENTRY_EMPTY /\ l \in {ARP_ENTRY_EMPTY, ARP_ENTRY_PERM, ARP_ENTRY_TEMP}
  BY DEF ARP_ENTRY_EMPTY, ARP_ENTRY_PERM, ARP_ENTRY_TEMP
<1>2. CASE Matching(h) # {}
  <2>1. k \in Slots /\ k \in Matching(h) /\ k # NoSlot
    BY <1>2, SlotFacts
  <2>2. table' = [table EXCEPT ![k].hwa = h]
    BY <2>1 DEF arp_merge
  <2>3. Matching(h) = {k}
    BY <2>1 DEF Matching, OneEntryPerAddress
  <2> HIDE DEF k
  <2>4. table' \in [Slots -> Entry]
    BY <2>1, <2>2 DEF Entry
  <2>5. \A s \in Slots : /\ table'[s].pa = table[s].pa
                         /\ table'[s].longevity = table[s].longevity
                         /\ table'[s].hwa = IF s = k THEN h ELSE table[s].hwa
    BY <2>1, <2>2 DEF Entry
  <2>6. OneEntryPerAddress'
    BY <2>5 DEF OneEntryPerAddress
  <2>7. k \in Matching(h)'
    BY <2>1, <2>5 DEF Matching
  <2> QED
    BY <1>2, <2>3, <2>4, <2>5, <2>6, <2>7
<1>3. CASE Matching(h) = {}
  <2> DEFINE f == FreeSlot
             e == [longevity |-> l, pa |-> h, hwa |-> h]
  <2>1. f \in Slots /\ k = NoSlot
    BY <1>3, SlotFacts
  <2>2. table' = [table EXCEPT ![f] = e]
    BY <2>1 DEF arp_merge
  <2>3. e \in Entry
    BY <1>1 DEF Entry
  <2> HIDE DEF f, k
  <2>4. table' \in [Slots -> Entry]
    BY <2>1, <2>2, <2>3
  <2>5. table'[f] = e /\ \A s \in Slots \ {f} : table'[s] = table[s]
    BY <2>1, <2>2
  <2>6. \A s \in Slots : table[s].longevity # ARP_ENTRY_EMPTY => table[s].pa # h
    BY <1>3 DEF Matching
  <2>7. OneEntryPerAddress'
    BY <2>1, <2>5, <2>6 DEF OneEntryPerAddress
  <2>8. f \in Matching(h)'
    BY <1>1, <2>1, <2>5 DEF Matching
  <2> QED
    BY <1>3, <2>1, <2>4, <2>5, <2>7, <2>8 DEF f
<1> QED
  BY <1>2, <1>3

-----------------------------------------------------------------------------
(* Types and unique entries, for any table.  TypeOK needs one more fact:   *)
(* arp_request is only reached with a try left.                            *)
TryLeft == main.pc \in {"lookup", "request"} => main.tries > 0

IInv == TypeOK /\ OneEntryPerAddress /\ TryLeft

LEMMA InitIInv == Init => IInv
  BY ArpAssumption DEF Init, IInv, TypeOK, OneEntryPerAddress, TryLeft, Entry, NoSlot, ARP_ENTRY_EMPTY

LEMMA StepIInv == IInv /\ [Next]_vars => IInv'
<1> SUFFICES ASSUME IInv, [Next]_vars PROVE IInv'
  OBVIOUS
<1> USE DEF IInv
<1>1. ASSUME NEW h \in Hosts, NEW tome \in BOOLEAN, arp_handler(h, tome) PROVE IInv'
  <2>1. table' \in [Slots -> Entry] /\ OneEntryPerAddress'
    <3>1. (IF tome THEN ARP_ENTRY_PERM ELSE ARP_ENTRY_TEMP) \in {ARP_ENTRY_PERM, ARP_ENTRY_TEMP}
      OBVIOUS
    <3> QED
      BY <1>1, <3>1, MergeFacts DEF arp_handler, TypeOK
  <2> QED
    BY <1>1, <2>1 DEF arp_handler, TypeOK, TryLeft
<1>2. CASE HandlerSend
  <2>1. \A s \in Slots : table[s].hwa \in Hosts \cup {NoHost}
    BY DEF TypeOK, Entry
  <2>2. arp_find_pair(peer) # NoSlot => arp_find_pair(peer) \in Slots
    BY SlotFacts
  <2> QED
    BY <1>2, <2>1, <2>2 DEF HandlerSend, TypeOK, OneEntryPerAddress, TryLeft
<1>3. ASSUME NEW d \in Hosts, ip_send(d) PROVE IInv'
  <2>1. MAX_TRIES \in 0 .. MAX_TRIES /\ MAX_TRIES > 0
    BY ArpAssumption
  <2>2. /\ main'.pc = "lookup" /\ main'.dest = d /\ main'.tries = MAX_TRIES
        /\ main' \in [pc : {"idle", "lookup", "request", "wait", "send"},
                      dest : Hosts \cup {NoHost}, slot : Slots \cup {NoSlot},
                      tries : 0 .. MAX_TRIES]
    BY <1>3, <2>1 DEF ip_send, TypeOK
  <2> QED
    BY <1>3, <2>1, <2>2 DEF ip_send, TypeOK, OneEntryPerAddress, TryLeft
<1>4. CASE Resolved
  <2>1. arp_find_pair(main.dest) \in Slots
    BY <1>4, SlotFacts DEF Resolved
  <2>2. main.dest \in Hosts
    BY <1>4 DEF Resolved, Main, TypeOK
  <2> HIDE DEF arp_find_pair
  <2> QED
    BY <1>4, <2>1, <2>2 DEF Resolved, TypeOK, OneEntryPerAddress, TryLeft
<1>5. CASE NotInTable
  BY <1>5 DEF NotInTable, Main, TypeOK, OneEntryPerAddress, TryLeft
<1>6. CASE arp_request
  <2>1. main.tries - 1 \in 0 .. MAX_TRIES /\ main.dest \in Hosts
    BY <1>6, ArpAssumption DEF arp_request, Main, TypeOK, TryLeft
  <2>2. /\ main'.pc = "wait" /\ main'.dest = main.dest
        /\ main' \in [pc : {"idle", "lookup", "request", "wait", "send"},
                      dest : Hosts \cup {NoHost}, slot : Slots \cup {NoSlot},
                      tries : 0 .. MAX_TRIES]
    BY <1>6, <2>1 DEF arp_request, Main, TypeOK
  <2> QED
    BY <1>6, <2>1, <2>2 DEF arp_request, TypeOK, OneEntryPerAddress, TryLeft
<1>7. CASE TimedOut
  BY <1>7 DEF TimedOut, Main, TypeOK, OneEntryPerAddress, TryLeft
<1>8. CASE Transmit
  <2>1. main.slot \in Slots /\ main.dest \in Hosts
    BY <1>8 DEF Transmit, Main, TypeOK
  <2>2. table[main.slot].hwa \in Hosts \cup {NoHost}
    BY <2>1 DEF TypeOK, Entry
  <2> QED
    BY <1>8, <2>1, <2>2, ArpAssumption DEF Transmit, TypeOK, OneEntryPerAddress, TryLeft
<1>9. CASE UNCHANGED vars
  BY <1>9 DEF vars, TypeOK, OneEntryPerAddress, TryLeft
<1> QED
  BY <1>1, <1>2, <1>3, <1>4, <1>5, <1>6, <1>7, <1>8, <1>9 DEF Next, Foreground

(* The ARP table and the code around it keep their types: in particular a  *)
(* frame is sent only with an entry of the table in hand.                  *)
THEOREM TypeCorrect == Spec => []TypeOK
<1>1. IInv => TypeOK
  BY DEF IInv
<1> QED
  BY <1>1, InitIInv, StepIInv, PTL DEF Spec

(* No address ever has two entries, however full the table is. *)
THEOREM UniqueEntries == Spec => []OneEntryPerAddress
<1>1. IInv => OneEntryPerAddress
  BY DEF IInv
<1> QED
  BY <1>1, InitIInv, StepIInv, PTL DEF Spec
-----------------------------------------------------------------------------
(* While there is room for every host heard of, an occupied entry is never *)
(* displaced, so what was found once stays found.  Room is not for ever:   *)
(* it is a premise of the invariant, and a step that ends it owes nothing. *)
Occupied == Slots \ WithLongevity(ARP_ENTRY_EMPTY)

EntriesOwned == \A s \in Occupied : table[s].pa \in seen /\ table[s].hwa = table[s].pa

Kept ==
    /\ EntriesOwned
    /\ main.pc = "send" => main.slot \in Matching(main.dest)
    /\ \A h \in seen : Matching(h) # {}
    /\ SentToOwner
    /\ isr = "waiting" => peer \notin seen

RoomInv == IInv /\ IsFiniteSet(seen) /\ (Room => Kept)

(* The pigeon-hole argument: with no empty slot left, every host heard of  *)
(* has its entry, so there is no room for another.                         *)
LEMMA EmptySlotLeft ==
    ASSUME TypeOK, OneEntryPerAddress, EntriesOwned, IsFiniteSet(seen),
           NEW h \in Hosts, Matching(h) = {},
           Cardinality(seen \cup {h}) <= MAX_ARP_ENTRY
    PROVE  WithLongevity(ARP_ENTRY_EMPTY) # {}
<1> SUFFICES ASSUME WithLongevity(ARP_ENTRY_EMPTY) = {} PROVE FALSE
  OBVIOUS
<1> DEFINE f == [s \in Slots |-> table[s].pa]
<1>1. Occupied = Slots
  BY DEF Occupied
<1>2. \A s \in Slots : table[s].longevity # ARP_ENTRY_EMPTY
  BY DEF WithLongevity
<1>3. f \in [Slots -> seen \ {h}]
  BY <1>1, <1>2 DEF EntriesOwned, Matching
<1>4. \A s, r \in Slots : f[s] = f[r] => s = r
  BY <1>2 DEF OneEntryPerAddress
<1>5. IsFiniteSet(Slots) /\ Cardinality(Slots) = MAX_ARP_ENTRY
  BY ArpAssumption, FS_Interval DEF Slots
<1>6. Cardinality(seen \ {h}) < Cardinality(seen \cup {h})
  <2>1. IsFiniteSet(seen \cup {h}) /\ IsFiniteSet(seen \ {h})
    BY FS_AddElement, FS_RemoveElement
  <2>2. seen \ {h} = (seen \cup {h}) \ {h} /\ h \in seen \cup {h}
    OBVIOUS
  <2>3. Cardinality(seen \ {h}) = Cardinality(seen \cup {h}) - 1
    BY <2>1, <2>2, FS_RemoveElement
  <2> QED
    BY <2>1, <2>3, FS_CardinalityType
<1>7. /\ IsFiniteSet(seen \ {h})
      /\ Cardinality(seen \ {h}) < Cardinality(Slots)
  <2>1. IsFiniteSet(seen \cup {h}) /\ IsFiniteSet(seen \ {h})
    BY FS_AddElement, FS_RemoveElement
  <2>2. Cardinality(seen \ {h}) \in Nat /\ Cardinality(seen \cup {h}) \in Nat
    BY <2>1, FS_CardinalityType
  <2> QED
    BY <1>5, <1>6, <2>1, <2>2, ArpAssumption
<1> HIDE DEF f
<1>8. \E s, r \in Slots : s # r /\ f[s] = f[r]
  BY <1>3, <1>5, <1>7, FS_PigeonHole
<1> QED
  BY <1>4, <1>8

(* A merge leaves every entry there is where it is, with its owner. *)
LEMMA MergeKeeps ==
    ASSUME IInv, EntriesOwned, IsFiniteSet(seen), NEW h \in Hosts,
           NEW l \in {ARP_ENTRY_PERM, ARP_ENTRY_TEMP}, arp_merge(h, h, l),
           seen' = seen \cup {h}, Room'
    PROVE  /\ EntriesOwned'
           /\ \A g : Matching(g) \subseteq Matching(g)'
           /\ Matching(h)' # {}
<1>0. l # ARP_ENTRY_EMPTY
  BY DEF ARP_ENTRY_EMPTY, ARP_ENTRY_PERM, ARP_ENTRY_TEMP
<1>1. CASE Matching(h) # {}
  <2>1. \A s \in Slots :
          /\ table'[s].pa = table[s].pa
          /\ table'[s].longevity = table[s].longevity
          /\ table'[s].hwa = IF s \in Matching(h) THEN h ELSE table[s].hwa
    BY <1>1, MergeFacts DEF IInv, TypeOK
  <2>2. \A s \in Matching(h) : table[s].pa = h
    BY DEF Matching
  <2>3. EntriesOwned' /\ \A g : Matching(g) \subseteq Matching(g)'
    BY <2>1, <2>2 DEF EntriesOwned, Occupied, WithLongevity, Matching
  <2> QED
    BY <1>1, <2>3
<1>2. CASE Matching(h) = {}
  <2> DEFINE f == FreeSlot
  <2>1. /\ table'[f] = [longevity |-> l, pa |-> h, hwa |-> h]
        /\ \A s \in Slots \ {f} : table'[s] = table[s]
    BY <1>2, MergeFacts DEF IInv, TypeOK
  <2>2. f \in Slots /\ table[f].longevity = ARP_ENTRY_EMPTY
    BY <1>2, EmptySlotLeft, SlotFacts DEF IInv, WithLongevity, Room
  <2> HIDE DEF f
  <2> QED
    BY <1>0, <2>1, <2>2 DEF EntriesOwned, Occupied, WithLongevity, Matching
<1> QED
  BY <1>1, <1>2

LEMMA InitRoomInv == Init => RoomInv
<1> SUFFICES ASSUME Init PROVE RoomInv
  OBVIOUS
<1>1. Occupied = {}
  BY DEF Init, Occupied, WithLongevity
<1>2. IsFiniteSet(seen)
  BY FS_EmptySet DEF Init
<1> QED
  BY <1>1, <1>2, InitIInv DEF Init, RoomInv, Kept, EntriesOwned, SentToOwner

(* The steps that leave the table alone. *)
LEMMA TableUnchangedKept ==
    ASSUME IInv, Kept, [Next]_vars, UNCHANGED <<table, seen>>
    PROVE  Kept'
<1> USE DEF Kept
<1>1. EntriesOwned' /\ \A g : Matching(g)' = Matching(g)
  BY DEF EntriesOwned, Occupied, WithLongevity, Matching
<1>2. \A g : \A s \in Matching(g) : table[s].hwa = g
  BY DEF Matching, EntriesOwned, Occupied, WithLongevity
<1>3. CASE HandlerSend /\ arp_find_pair(peer) # NoSlot
  <2>1. arp_find_pair(peer) \in Matching(peer)
    BY <1>3, SlotFacts DEF arp_find_pair, First
  <2>2. table[arp_find_pair(peer)].hwa = peer
    BY <1>2, <2>1
  <2> HIDE DEF arp_find_pair
  <2>3. sent'.for = sent'.to /\ isr' = isr /\ main' = main /\ peer' = peer
    BY <1>3, <2>2 DEF HandlerSend
  <2> QED
    BY <1>1, <2>3 DEF SentToOwner
<1>10. CASE HandlerSend /\ arp_find_pair(peer) = NoSlot
  <2>1. peer \notin seen
    BY <1>10, SlotFacts
  <2> HIDE DEF arp_find_pair
  <2>2. sent' = sent /\ main' = main /\ peer' = peer
    BY <1>10 DEF HandlerSend
  <2> QED
    BY <1>1, <2>1, <2>2 DEF SentToOwner
<1>4. ASSUME NEW d \in Hosts, ip_send(d) PROVE Kept'
  <2>1. main'.pc = "lookup" /\ isr' # "waiting"
    BY <1>4 DEF ip_send, Main, IInv, TypeOK
  <2> QED
    BY <1>1, <1>4, <2>1 DEF ip_send, SentToOwner
<1>5. CASE Resolved
  <2>1. arp_find_pair(main.dest) \in Matching(main.dest)
    BY <1>5, SlotFacts DEF Resolved
  <2>2. main'.slot = arp_find_pair(main.dest) /\ main'.dest = main.dest
    BY <1>5 DEF Resolved, IInv, TypeOK
  <2> HIDE DEF arp_find_pair
  <2> QED
    BY <1>1, <1>5, <2>1, <2>2 DEF Resolved, SentToOwner
<1>6. CASE NotInTable \/ arp_request \/ TimedOut
  <2>1. main'.pc # "send"
    BY <1>6 DEF NotInTable, arp_request, TimedOut, Main, IInv, TypeOK
  <2> QED
    BY <1>1, <1>6, <2>1 DEF NotInTable, arp_request, TimedOut, SentToOwner
<1>7. CASE Transmit
  <2>1. main.slot \in Matching(main.dest)
    BY <1>7 DEF Transmit, Main
  <2>2. table[main.slot].hwa = main.dest
    BY <1>2, <2>1
  <2>3. main'.pc = "idle" /\ sent'.to = sent'.for
    BY <1>7, <2>2 DEF Transmit
  <2> QED
    BY <1>1, <1>7, <2>1, <2>3 DEF Transmit, SentToOwner
<1>8. CASE UNCHANGED vars
  BY <1>1, <1>8 DEF vars, SentToOwner
<1>9. ASSUME NEW h \in Hosts, NEW tome \in BOOLEAN, arp_handler(h, tome) PROVE Kept'
  <2>1. main' = main /\ peer' = peer /\ sent' = sent /\ isr' = isr
    BY <1>9 DEF arp_handler
  <2> QED
    BY <1>1, <2>1 DEF SentToOwner
<1> QED
  BY <1>3, <1>4, <1>5, <1>6, <1>7, <1>8, <1>9, <1>10 DEF Next, Foreground

LEMMA StepRoomInv == RoomInv /\ [Next]_vars => RoomInv'
<1> SUFFICES ASSUME RoomInv, [Next]_vars PROVE RoomInv'
  OBVIOUS
<1> USE DEF RoomInv
<1>0. IInv'
  BY StepIInv
<1>1. ASSUME NEW h \in Hosts, NEW tome \in BOOLEAN, arp_handler(h, tome) PROVE RoomInv'
  <2>1. (IF tome THEN ARP_ENTRY_PERM ELSE ARP_ENTRY_TEMP) \in {ARP_ENTRY_PERM, ARP_ENTRY_TEMP}
    OBVIOUS
  <2>2. seen' = seen \cup {h} /\ IsFiniteSet(seen')
    BY <1>1, FS_AddElement DEF arp_handler
  <2>3. ASSUME Room' PROVE Kept'
    <3>1. Room
      <4>1. Cardinality(seen) <= Cardinality(seen')
        BY <2>2, FS_Subset
      <4>2. Cardinality(seen) \in Nat /\ Cardinality(seen') \in Nat
        BY <2>2, FS_CardinalityType
      <4> QED
        BY <2>3, <4>1, <4>2, ArpAssumption DEF Room
    <3>2. EntriesOwned' /\ (\A g : Matching(g) \subseteq Matching(g)') /\ Matching(h)' # {}
      BY <1>1, <2>1, <2>2, <2>3, <3>1, MergeKeeps DEF arp_handler, Kept
    <3>3. main' = main /\ peer' = peer /\ sent' = sent /\ isr' = isr /\ isr' # "waiting"
      BY <1>1 DEF arp_handler
    <3>4. main'.pc = "send" => main'.slot \in Matching(main.dest)'
      BY <3>1, <3>2, <3>3 DEF Kept
    <3>5. \A g \in seen' : Matching(g)' # {}
      BY <2>2, <3>1, <3>2 DEF Kept
    <3> QED
      BY <3>1, <3>2, <3>3, <3>4, <3>5 DEF Kept, SentToOwner, Matching
  <2> QED
    BY <1>0, <2>2, <2>3
<1>2. CASE UNCHANGED <<table, seen>>
  BY <1>0, <1>2, TableUnchangedKept DEF Room
<1>3. HandlerSend \/ (\E d \in Hosts : ip_send(d)) \/ Foreground \/ UNCHANGED vars
        => UNCHANGED <<table, seen>>
  BY DEF HandlerSend, ip_send, Foreground, Resolved, NotInTable, arp_request, TimedOut,
         Transmit, vars
<1> QED
  BY <1>1, <1>2, <1>3 DEF Next

(* ip_send's use of a pointer into the table is safe as long as there is   *)
(* room for all hosts heard of: every frame goes to the hardware address   *)
(* of the host it is for.                                                  *)
THEOREM OwnerWithRoom == Spec => []SentToOwnerWithRoom
<1>1. RoomInv => SentToOwnerWithRoom
  BY DEF RoomInv, Kept, SentToOwnerWithRoom
<1> QED
  BY <1>1, InitRoomInv, StepRoomInv, PTL DEF Spec

(* Meanwhile an interrupt handler that answers a host heard of does not    *)
(* wait for an ARP reply that cannot get through.                          *)
THEOREM NoWaitWithRoom == Spec => []HandlerNeverWaits
<1>1. RoomInv => HandlerNeverWaits
  BY DEF RoomInv, Kept, HandlerNeverWaits
<1> QED
  BY <1>1, InitRoomInv, StepRoomInv, PTL DEF Spec
=============================================================================
