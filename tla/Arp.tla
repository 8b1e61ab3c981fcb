--------------------------------- MODULE Arp ---------------------------------
(***************************************************************************)
(* The ARP table (net/arp.c) and its users in net/ip.c.                    *)
(*                                                                         *)
(* arp_handler runs in the receive interrupt and changes the table;        *)
(* arp_resolve runs in the foreground, waits for the handler to do so, and *)
(* gives ip_send a pointer INTO the table, which ip_send uses later.  A    *)
(* protocol that answers from its own interrupt handler (tftp_handler      *)
(* acknowledges a block again) calls arp_resolve there, where neither the  *)
(* timer nor another frame can interrupt its wait.  It may do so from the  *)
(* moment the protocol has set its server and bound its port, which is     *)
(* before the server's address is resolved for the first time.             *)
(*                                                                         *)
(* Every host answers for its own address only, so a host stands for both  *)
(* its protocol and its hardware address.                                  *)
(***************************************************************************)
EXTENDS Naturals, FiniteSets

CONSTANTS
    Hosts,          (* the other hosts on the network *)
    NoHost,         (* the zeroed address of an empty entry *)
    MAX_ARP_ENTRY,
    MAX_TRIES       (* requests arp_resolve sends: 3 *)

ASSUME ArpAssumption ==
    /\ NoHost \notin Hosts
    /\ MAX_ARP_ENTRY \in Nat \ {0}
    /\ MAX_TRIES \in Nat \ {0}

VARIABLES
    table,      (* ARP_INFO *)
    main,       (* foreground ip_send: where it is, the destination, the entry *)
                (* arp_resolve returned, and the requests left                 *)
    isr,        (* "idle", or "waiting" in arp_resolve at IPL 7 *)
    peer,       (* the host a protocol handler answers to: server_ip *)
    seen,       (* hosts that sent an ARP packet *)
    sent        (* the last frame ip_send sent: for whom and to whom *)

vars == <<table, main, isr, peer, seen, sent>>

Slots == 1 .. MAX_ARP_ENTRY
NoSlot == 0

ARP_ENTRY_EMPTY == "EMPTY"
ARP_ENTRY_PERM  == "PERM"
ARP_ENTRY_TEMP  == "TEMP"

Entry == [longevity : {ARP_ENTRY_EMPTY, ARP_ENTRY_PERM, ARP_ENTRY_TEMP},
          pa : Hosts \cup {NoHost}, hwa : Hosts \cup {NoHost}]

TypeOK ==
    /\ table \in [Slots -> Entry]
    /\ main \in [pc : {"idle", "lookup", "request", "wait", "send"},
                 dest : Hosts \cup {NoHost}, slot : Slots \cup {NoSlot},
                 tries : 0 .. MAX_TRIES]
    /\ main.pc # "idle" => main.dest \in Hosts
    /\ main.pc = "send" => main.slot \in Slots
    /\ isr \in {"idle", "waiting"}
    /\ peer \in Hosts \cup {NoHost}
    /\ seen \subseteq Hosts
    /\ sent \in [for : Hosts \cup {NoHost}, to : Hosts \cup {NoHost}]

(* arp_init *)
Init ==
    /\ table = [s \in Slots |-> [longevity |-> ARP_ENTRY_EMPTY, pa |-> NoHost, hwa |-> NoHost]]
    /\ main = [pc |-> "idle", dest |-> NoHost, slot |-> NoSlot, tries |-> 0]
    /\ isr = "idle"
    /\ peer = NoHost
    /\ seen = {}
    /\ sent = [for |-> NoHost, to |-> NoHost]

-----------------------------------------------------------------------------
(* The first slot of a set, NoSlot if it is empty. *)
First(S) == IF S = {} THEN NoSlot ELSE CHOOSE s \in S : \A r \in S : s <= r

(* arp_find_pair and arp_resolve_pa: the entry for protocol address pa. *)
Matching(pa) == {s \in Slots : table[s].longevity # ARP_ENTRY_EMPTY /\ table[s].pa = pa}

(* Mutant: the search stops one entry early. *)
arp_find_pair_Short(pa) == First(Matching(pa) \ {MAX_ARP_ENTRY})

arp_find_pair(pa) == First(Matching(pa))

(* The slot for a new entry: an empty one, else a temporary one, else the  *)
(* last.                                                                   *)
WithLongevity(l) == {s \in Slots : table[s].longevity = l}

(* Mutant: temporary entries are displaced although there are empty slots. *)
FreeSlot_TempFirst ==
    IF WithLongevity(ARP_ENTRY_TEMP) # {} THEN First(WithLongevity(ARP_ENTRY_TEMP))
    ELSE IF WithLongevity(ARP_ENTRY_EMPTY) # {} THEN First(WithLongevity(ARP_ENTRY_EMPTY))
    ELSE MAX_ARP_ENTRY

FreeSlot ==
    IF WithLongevity(ARP_ENTRY_EMPTY) # {} THEN First(WithLongevity(ARP_ENTRY_EMPTY))
    ELSE IF WithLongevity(ARP_ENTRY_TEMP) # {} THEN First(WithLongevity(ARP_ENTRY_TEMP))
    ELSE MAX_ARP_ENTRY

(* An existing entry gets the new hardware address and keeps its longevity. *)
arp_merge(pa, hwa, longevity) ==
    table' = IF arp_find_pair(pa) # NoSlot
             THEN [table EXCEPT ![arp_find_pair(pa)].hwa = hwa]
             ELSE [table EXCEPT ![FreeSlot] =
                        [longevity |-> longevity, pa |-> pa, hwa |-> hwa]]

(* arp_handler, for a packet of host h (a reply, or a request by h itself) *)
(* addressed to this machine or to another.  The answer to a request is    *)
(* sent in the same buffer, to the address in the request.                 *)
arp_handler(h, tome) ==
    /\ isr = "idle"
    /\ arp_merge(h, h, IF tome THEN ARP_ENTRY_PERM ELSE ARP_ENTRY_TEMP)
    /\ seen' = seen \cup {h}
    /\ UNCHANGED <<main, isr, peer, sent>>

(* A protocol handler answers its peer from the interrupt: ip_send there   *)
(* finds the peer's entry, or waits for one.  A datagram for the bound     *)
(* port is enough, whoever sent it and whether or not the peer has been    *)
(* resolved: tftp_handler acknowledges a block numbered below the one      *)
(* expected, which is 1 before the first answer.                           *)
HandlerSend ==
    /\ isr = "idle"
    /\ peer # NoHost
    /\ IF arp_find_pair(peer) # NoSlot
       THEN /\ sent' = [for |-> peer, to |-> table[arp_find_pair(peer)].hwa]
            /\ UNCHANGED isr
       ELSE /\ isr' = "waiting"
            /\ UNCHANGED sent
    /\ UNCHANGED <<table, main, peer, seen>>

-----------------------------------------------------------------------------
(* ip_send and arp_resolve in the foreground. *)
Main(from) == isr = "idle" /\ main.pc = from

(* The protocol that sends has set its server and bound its port.          *)
ip_send(d) ==
    /\ Main("idle")
    /\ main' = [main EXCEPT !.pc = "lookup", !.dest = d, !.tries = MAX_TRIES]
    /\ peer' = d
    /\ UNCHANGED <<table, isr, seen, sent>>

(* Found, before or after asking. *)
Resolved ==
    /\ Main("lookup") \/ Main("wait")
    /\ arp_find_pair(main.dest) # NoSlot
    /\ main' = [main EXCEPT !.pc = "send", !.slot = arp_find_pair(main.dest)]
    /\ UNCHANGED <<table, isr, peer, seen, sent>>

NotInTable ==
    /\ Main("lookup")
    /\ arp_find_pair(main.dest) = NoSlot
    /\ main' = [main EXCEPT !.pc = "request"]
    /\ UNCHANGED <<table, isr, peer, seen, sent>>

(* arp_request, which sends nothing if there is no buffer.  The answer, if *)
(* any, is an arp_handler step.                                            *)
arp_request ==
    /\ Main("request")
    /\ main' = [main EXCEPT !.pc = "wait", !.tries = @ - 1]
    /\ UNCHANGED <<table, isr, peer, seen, sent>>

(* Mutant: every time-out starts the count of tries anew. *)
TimedOut_Recount ==
    /\ Main("wait")
    /\ main' = [main EXCEPT !.pc = "request", !.tries = MAX_TRIES]
    /\ UNCHANGED <<table, isr, peer, seen, sent>>

(* Asks again, or returns NULL, on which ip_send gives up. *)
TimedOut ==
    /\ Main("wait")
    /\ main' = IF main.tries > 0
               THEN [main EXCEPT !.pc = "request"]
               ELSE [main EXCEPT !.pc = "idle", !.dest = NoHost]
    /\ UNCHANGED <<table, isr, peer, seen, sent>>

(* nif->send with the address the pointer refers to now. *)
Transmit ==
    /\ Main("send")
    /\ sent' = [for |-> main.dest, to |-> table[main.slot].hwa]
    /\ main' = [pc |-> "idle", dest |-> NoHost, slot |-> NoSlot, tries |-> 0]
    /\ UNCHANGED <<table, isr, peer, seen>>

-----------------------------------------------------------------------------
Foreground == Resolved \/ NotInTable \/ arp_request \/ TimedOut \/ Transmit

Next ==
    \/ \E h \in Hosts : arp_handler(h, FALSE)
    \/ \E h \in Hosts : arp_handler(h, TRUE)
    \/ HandlerSend
    \/ \E d \in Hosts : ip_send(d)
    \/ Foreground

(* The foreground goes on and its timer expires; hosts need not answer. *)
Spec == Init /\ [][Next]_vars
FairSpec == Spec /\ WF_vars(Foreground)

-----------------------------------------------------------------------------
(* arp_merge never makes a second entry for an address, whatever entries   *)
(* it displaces: arp_find_pair, which takes the first, would otherwise go  *)
(* on returning the older hardware address.                                *)
OneEntryPerAddress ==
    \A s, r \in Slots :
        /\ table[s].longevity # ARP_ENTRY_EMPTY
        /\ table[r].longevity # ARP_ENTRY_EMPTY
        /\ table[s].pa = table[r].pa
        => s = r

(* A frame goes to the hardware address of the host it is for, although    *)
(* ip_send reads the address from the table after arp_resolve found it.    *)
SentToOwner == sent.to = sent.for

(* The hosts heard of so far fit into the table. *)
Room == Cardinality(seen) <= MAX_ARP_ENTRY

(* While the hosts heard of fit into the table, every frame goes to the    *)
(* host it is for: arp_handler does not change an entry under ip_send.     *)
SentToOwnerWithRoom == Room => SentToOwner

(* Meanwhile a protocol handler that answers a host heard of finds it in   *)
(* the table, whatever other entries came and went.  It waits at IPL 7,    *)
(* where the wait has no end, only for a peer never heard of: tftp_handler *)
(* does so for a stale datagram that comes before the server is resolved.  *)
HandlerNeverWaits == Room /\ peer \in seen => isr # "waiting"

(* ip_send returns in the end, answered or not, unless a handler waits at  *)
(* IPL 7, where nothing can end its wait.                                  *)
SendReturns == main.pc # "idle" ~> main.pc = "idle" \/ isr = "waiting"
=============================================================================
