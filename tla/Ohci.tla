---------------------------------- MODULE Ohci ----------------------------------
(***************************************************************************)
(* Transfers of the OHCI driver (pci/ohci-hcd.c): endpoint descriptors     *)
(* (EDs), each with a queue of transfer descriptors (TDs) that the host    *)
(* controller works off, and the done list by which it gives them back.    *)
(*                                                                         *)
(* The foreground submits one transfer (URB) at a time and polls for its   *)
(* end; the URB of an interrupt pipe stays and is requeued each time it    *)
(* completes.  The controller goes on between any two steps.  This is the  *)
(* scan of the bus, before usb_init calls usb_enable_interrupt(1).         *)
(*                                                                         *)
(* The control and bulk lists are the EDs in state ED_OPER: ep_link and    *)
(* ep_unlink change both together.  Root hub changes are left out.         *)
(*                                                                         *)
(* The model ends in two states, where later steps are not modelled:       *)
(* givenUp # {}, when submit_common_msg has freed TDs and a URB that the   *)
(* controller and hc_interrupt may still use, and main.pc = "nested", when *)
(* a device's irq_handle has submitted a transfer in takeback_td.          *)
(***************************************************************************)
EXTENDS Integers, Sequences, FiniteSets, SequencesExt

CONSTANTS
    NUM_TD,
    Control, Bulk, Interrupt,   (* the EDs in use, by the type of their pipe *)
    BULK_TDS        (* of 4096 bytes each, in the largest bulk transfer *)

EDs == Control \cup Bulk \cup Interrupt

NULL == 0

ASSUME OhciAssumption ==
    /\ IsFiniteSet(EDs)
    /\ NUM_TD \in Nat \ {0} /\ NUM_TD >= 2 * Cardinality(EDs)
    /\ NULL \notin EDs
    /\ Control \cap Bulk = {} /\ (Control \cup Bulk) \cap Interrupt = {}
    /\ BULK_TDS \in Nat

VARIABLES
    mem,    (* what both sides share and the driver's own: TDs, EDs and each ED's URB *)
    hc,     (* controller: its done queue, HccaDoneHead, the WDH status *)
    main,   (* where submit_common_msg is, its ED, the TD it fills; the done list, *)
            (* from td_list_hc as the controller left it and from td_rev reversed  *)
    disabled,
    givenUp (* the TDs of the transfer that submit_common_msg gave up *)

vars == <<mem, hc, main, disabled, givenUp>>

TDs == 1 .. NUM_TD
OK == "ok"      (* "error" becomes a positive status, "gone" (the device does not respond) -1 *)
NoUrb == [live |-> FALSE, td |-> <<>>, td_cnt |-> 0, finished |-> FALSE]
UnusedTd == [used |-> FALSE, next |-> NULL, ed |-> NULL, index |-> 0, cc |-> OK]
Idle == [pc |-> "idle", ed |-> NULL, n |-> 0, td_list_hc |-> NULL, td_rev |-> <<>>, stat |-> OK]

Codes == {OK, "error", "gone"}
Td == [used : BOOLEAN, next : TDs \cup {NULL}, ed : EDs \cup {NULL}, index : 0 .. NUM_TD,
       cc : Codes]
Ed == [state : {"NEW", "UNLINK", "OPER"}, head : TDs \cup {NULL}, tail : TDs \cup {NULL},
       halted : BOOLEAN]
Urb == [live : BOOLEAN, td : Seq(TDs), td_cnt : Nat, finished : BOOLEAN]
Memory == [td : [TDs -> Td], ed : [EDs -> Ed], urb : [EDs -> Urb]]

TypeOK ==
    /\ mem \in Memory
    /\ \A e \in EDs : mem.urb[e].td_cnt <= Len(mem.urb[e].td)
    /\ hc \in [doneq : TDs \cup {NULL}, done_head : TDs \cup {NULL}, wdh : BOOLEAN]
    /\ main \in [pc : {"idle", "fill", "poll", "reverse", "takeback", "ack", "nested"},
                 ed : EDs \cup {NULL}, n : 0 .. NUM_TD, td_list_hc : TDs \cup {NULL},
                 td_rev : Seq(TDs), stat : Codes]
    /\ disabled \in BOOLEAN /\ givenUp \subseteq TDs

Init ==
    /\ mem = [td |-> [t \in TDs |-> UnusedTd],
              ed |-> [e \in EDs |-> [state |-> "NEW", head |-> NULL, tail |-> NULL,
                                     halted |-> FALSE]],
              urb |-> [e \in EDs |-> NoUrb]]
    /\ hc = [doneq |-> NULL, done_head |-> NULL, wdh |-> FALSE]
    /\ main = Idle
    /\ disabled = FALSE /\ givenUp = {}

(* The controller runs, and nothing has happened that ends the model. *)
Going == ~disabled /\ givenUp = {} /\ main.pc # "nested"

-----------------------------------------------------------------------------
(* td_alloc takes the first TD without a device. *)
Unused(m) == {t \in TDs : ~m.td[t].used}
First(m) == CHOOSE t \in Unused(m) : \A s \in Unused(m) : t <= s
td_alloc(m) == [m EXCEPT !.td[First(m)].used = TRUE]

(* ep_add_ed: an endpoint that is new gets a dummy TD, the end of its queue. *)
ep_add_ed(m, e) ==
    IF m.ed[e].state # "NEW" THEN m
    ELSE [td_alloc(m) EXCEPT !.ed[e].state = "UNLINK", !.ed[e].head = First(m),
                             !.ed[e].tail = First(m)]

(* Setup and status of a control transfer take one each, as does its data: *)
(* none in the tree has more than 4096 bytes (usb.c has 512 at most).      *)
Sizes(e) == IF e \in Control THEN 2 .. 3 ELSE IF e \in Bulk THEN 1 .. BULK_TDS ELSE {1}

(* n TDs for the URB of e, or as many as there are: the first ones. *)
Allocated(m, e, n) ==
    LET free == Cardinality(Unused(m))
        count == IF n <= free THEN n ELSE free
        FirstOnes == {s \in [1 .. count -> Unused(m)] :
                        \A i \in 1 .. count : \A t \in Unused(m) :
                            t < s[i] <=> \E j \in 1 .. i - 1 : s[j] = t}
    IN  {[m EXCEPT !.td = [t \in TDs |-> [m.td[t] EXCEPT !.used = @ \/ t \in ToSet(s)]],
                   !.urb[e].td = s] : s \in FirstOnes}

(* What a free TD holds matters to nobody: see NoFreeTdInFlight.  Mutant:  *)
(* the last TD is not given back.                                          *)
urb_free_priv_LastKept(m, e) ==
    [m EXCEPT !.td = [t \in TDs |-> IF t \in ToSet(Front(m.urb[e].td)) THEN UnusedTd
                                    ELSE m.td[t]],
              !.urb[e] = NoUrb]

urb_free_priv(m, e) ==
    [m EXCEPT !.td = [t \in TDs |-> IF t \in ToSet(m.urb[e].td) THEN UnusedTd ELSE m.td[t]],
              !.urb[e] = NoUrb]

ep_link(m, e) == [m EXCEPT !.ed[e].state = "OPER"]
ep_unlink(m, e) == [m EXCEPT !.ed[e].state = "UNLINK"]

(* Given up, the TDs are free as they are, for the controller to go on with. *)
urb_free_queued(m, e) ==
    [m EXCEPT !.td = [t \in TDs |-> IF t \in ToSet(m.urb[e].td)
                                    THEN [m.td[t] EXCEPT !.used = FALSE] ELSE m.td[t]],
              !.urb[e] = NoUrb]

(* td_fill: the i-th TD of the URB becomes the new dummy, the old dummy    *)
(* takes its place; the new tail pointer shows it to the controller.       *)
(* Mutant: the URB keeps the TD that it gave away.                         *)
td_fill_NotSwapped(m, e, i) ==
    LET old == m.ed[e].tail
        new == m.urb[e].td[i]
    IN  [m EXCEPT !.td = [m.td EXCEPT ![new].next = NULL,
                                      ![old] = [used |-> @.used, next |-> new, ed |-> e,
                                                index |-> i - 1, cc |-> OK]],
                  !.ed[e].tail = new]

td_fill(m, e, i) ==
    LET old == m.ed[e].tail
        new == m.urb[e].td[i]
    IN  [m EXCEPT !.td = [m.td EXCEPT ![new].next = NULL,
                                      ![old] = [used |-> @.used, next |-> new, ed |-> e,
                                                index |-> i - 1, cc |-> OK]],
                  !.urb[e].td[i] = old,
                  !.ed[e].tail = new]

-----------------------------------------------------------------------------
(* check_status of a TD that failed and halted its queue: the queue goes   *)
(* on behind the URB, whose other TDs count as done.  Mutants: they stay   *)
(* in the queue; they are not counted.                                     *)
check_status_RestStays(m, t) ==
    LET e == m.td[t].ed
        left == Len(m.urb[e].td) - m.td[t].index - 1
    IN  IF m.td[t].cc = OK \/ ~m.ed[e].halted THEN m
        ELSE [m EXCEPT !.ed[e].halted = FALSE, !.urb[e].td_cnt = @ + left]
check_status_NotCounted(m, t) ==
    LET e == m.td[t].ed
        left == Len(m.urb[e].td) - m.td[t].index - 1
    IN  IF m.td[t].cc = OK \/ ~m.ed[e].halted THEN m
        ELSE IF left <= 0 THEN [m EXCEPT !.ed[e].halted = FALSE]
        ELSE [m EXCEPT !.ed[e].halted = FALSE, !.ed[e].head = m.td[Last(m.urb[e].td)].next]

check_status(m, t) ==
    LET e == m.td[t].ed
        left == Len(m.urb[e].td) - m.td[t].index - 1
    IN  IF m.td[t].cc = OK \/ ~m.ed[e].halted THEN m
        ELSE IF left <= 0 THEN [m EXCEPT !.ed[e].halted = FALSE]
        ELSE [m EXCEPT !.ed[e].halted = FALSE, !.urb[e].td_cnt = @ + left,
                       !.ed[e].head = m.td[Last(m.urb[e].td)].next]

(* finish_urb with sohci_return_job, which requeues an interrupt pipe; its *)
(* irq_handle submits nothing here: see irq_handle.                        *)
finish_urb(m, e) ==
    LET again == IF e \in Interrupt
                 THEN td_fill([m EXCEPT !.urb[e].td_cnt = 0], e, 1) ELSE m
    IN  [again EXCEPT !.urb[e].finished = TRUE]

(* The end of takeback_td: an ED that is not busy is unlinked, as is that  *)
(* of an interrupt pipe that failed.                                       *)
UnlinkIdle(m, e, cc) ==
    IF \/ e \notin Interrupt /\ m.ed[e].head = m.ed[e].tail /\ m.ed[e].state = "OPER"
       \/ e \in Interrupt /\ cc # OK
    THEN ep_unlink(m, e) ELSE m

(* Mutant: the URB counts as finished one TD early. *)
takeback_td_Early(m, t) ==
    LET e == m.td[t].ed
        counted == [m EXCEPT !.urb[e].td_cnt = @ + 1]
    IN  UnlinkIdle(IF counted.urb[e].td_cnt + 1 >= Len(m.urb[e].td)
                   THEN finish_urb(counted, e) ELSE counted, e, m.td[t].cc)

takeback_td(m, t) ==
    LET e == m.td[t].ed
        counted == [m EXCEPT !.urb[e].td_cnt = @ + 1]
    IN  UnlinkIdle(IF counted.urb[e].td_cnt = Len(m.urb[e].td)
                   THEN finish_urb(counted, e) ELSE counted, e, m.td[t].cc)

-----------------------------------------------------------------------------
(* The controller (hardware): retires the TD at the head of a queue, and   *)
(* halts the queue if it failed; writes its done queue to HccaDoneHead     *)
(* when the software has acknowledged the last one.                        *)
HcRetire(e) ==
    LET t == mem.ed[e].head IN
    /\ Going /\ mem.ed[e].state = "OPER" /\ ~mem.ed[e].halted
    /\ t # mem.ed[e].tail /\ t # NULL
    /\ \E cc \in Codes :
          mem' = [mem EXCEPT !.td[t].cc = cc, !.td[t].next = hc.doneq,
                             !.ed[e].head = mem.td[t].next, !.ed[e].halted = cc # OK]
    /\ hc' = [hc EXCEPT !.doneq = t]
    /\ UNCHANGED <<main, disabled, givenUp>>

HcWriteBack ==
    /\ Going /\ hc.doneq # NULL /\ ~hc.wdh
    /\ hc' = [doneq |-> NULL, done_head |-> hc.doneq, wdh |-> TRUE]
    /\ UNCHANGED <<mem, main, disabled, givenUp>>

-----------------------------------------------------------------------------
(* submit_common_msg up to the TDs: sohci_submit_job, which gives all back *)
(* if there are not enough.                                                *)
sohci_submit_job(e, n) ==
    LET added == [ep_add_ed(mem, e) EXCEPT !.urb[e].live = TRUE]
    IN  /\ main = Idle /\ Going /\ ~mem.urb[e].live
        /\ \E m \in Allocated(added, e, n) :
              IF Len(m.urb[e].td) < n
              THEN mem' = urb_free_priv(m, e) /\ UNCHANGED main
              ELSE mem' = ep_link(m, e) /\ main' = [Idle EXCEPT !.pc = "fill", !.ed = e, !.n = 1]
        /\ UNCHANGED <<hc, disabled, givenUp>>

(* A transfer of more TDs than a URB holds is refused, when the endpoint   *)
(* has its ED.                                                             *)
SubmitTooLarge(e) ==
    /\ main = Idle /\ Going /\ ~mem.urb[e].live
    /\ mem' = ep_add_ed(mem, e)
    /\ UNCHANGED <<hc, main, disabled, givenUp>>

(* "When controller's hung, permit only roothub cleanup attempts." *)
SubmitRefused == main = Idle /\ disabled /\ UNCHANGED vars

(* td_submit_job, one TD after the other under the controller's eyes. *)
td_submit_job ==
    /\ main.pc = "fill"
    /\ mem' = td_fill(mem, main.ed, main.n)
    /\ main' = IF main.n = Len(mem.urb[main.ed].td) THEN [main EXCEPT !.pc = "poll", !.n = 0]
               ELSE [main EXCEPT !.n = @ + 1]
    /\ UNCHANGED <<hc, disabled, givenUp>>

(* hc_interrupt when polled: it fetches the done list, newest TD first,    *)
(* checks each TD in that order and takes them back in the other.          *)
PollTake ==
    /\ main.pc = "poll" /\ (hc.done_head # NULL \/ hc.wdh)
    /\ main' = [main EXCEPT !.pc = IF hc.done_head = NULL THEN "ack" ELSE "reverse",
                            !.td_list_hc = hc.done_head]
    /\ hc' = [hc EXCEPT !.done_head = NULL]
    /\ UNCHANGED <<mem, disabled, givenUp>>

dl_reverse_done_list ==
    LET t == main.td_list_hc
        next == mem.td[t].next
    IN  /\ main.pc = "reverse"
        /\ mem' = check_status(mem, t)
        /\ main' = [main EXCEPT !.pc = IF next = NULL THEN "takeback" ELSE @,
                                !.td_list_hc = next, !.td_rev = <<t>> \o @]
        /\ UNCHANGED <<hc, disabled, givenUp>>

(* The status of the TD taken back last, the newest, is the result. *)
dl_done_list ==
    /\ main.pc = "takeback"
    /\ mem' = takeback_td(mem, Head(main.td_rev))
    /\ main' = [main EXCEPT !.pc = IF Len(main.td_rev) = 1 THEN "ack" ELSE @,
                            !.td_rev = Tail(@), !.stat = mem.td[Head(main.td_rev)].cc]
    /\ UNCHANGED <<hc, disabled, givenUp>>

(* The irq_handle of an interrupt pipe whose URB is complete submits a     *)
(* transfer itself, as that of a keyboard does to set its lights: the      *)
(* foreground is in submit_common_msg and hc_interrupt again, in the       *)
(* middle of the first, and on the same ED if both are control transfers.  *)
irq_handle ==
    LET e == mem.td[Head(main.td_rev)].ed IN
    /\ main.pc = "takeback"
    /\ e \in Interrupt /\ mem.urb[e].td_cnt + 1 = Len(mem.urb[e].td)
    /\ main' = [main EXCEPT !.pc = "nested"]
    /\ UNCHANGED <<mem, hc, disabled, givenUp>>

(* What submit_common_msg leaves: an interrupt pipe keeps its URB; any     *)
(* other is freed, finished or not, and its ED stays as it is.             *)
Returns ==
    LET e == main.ed IN
    /\ main' = Idle
    /\ \/ e \in Interrupt /\ UNCHANGED <<mem, givenUp>>
       \/ /\ e \notin Interrupt /\ mem.urb[e].finished
          /\ mem' = urb_free_priv(mem, e) /\ UNCHANGED givenUp
       \/ /\ e \notin Interrupt /\ ~mem.urb[e].finished
          /\ mem' = urb_free_queued(mem, e) /\ givenUp' = ToSet(mem.urb[e].td)

(* A schedule overrun, of any frame, ends the transfer like a device that  *)
(* is gone, be it the device of another pipe.                              *)
PollAck ==
    /\ main.pc = "ack"
    /\ hc' = [hc EXCEPT !.wdh = FALSE]
    /\ \E overrun \in BOOLEAN :
          IF overrun \/ main.stat = "gone" \/ mem.urb[main.ed].finished THEN Returns
          ELSE main' = [main EXCEPT !.pc = "poll", !.stat = OK] /\ UNCHANGED <<mem, givenUp>>
    /\ UNCHANGED disabled

(* An unrecoverable error stops the controller for good. *)
PollUnrecoverable ==
    /\ main.pc = "poll"
    /\ disabled' = TRUE
    /\ Returns
    /\ UNCHANGED hc

(* The time-out of any transfer, or a schedule overrun and no done list.   *)
(* The flag that the time-out sets in the URB is gone with the URB.        *)
PollTimeout ==
    /\ main.pc = "poll"
    /\ Returns
    /\ UNCHANGED <<hc, disabled>>

(* Where the model ends. *)
Beyond == ~disabled /\ ~Going /\ UNCHANGED vars

submit_common_msg ==
    \/ \E e \in EDs : \E n \in Sizes(e) : sohci_submit_job(e, n)
    \/ \E e \in Bulk : SubmitTooLarge(e)
    \/ SubmitRefused \/ td_submit_job
    \/ PollTake \/ dl_reverse_done_list \/ dl_done_list \/ irq_handle \/ PollAck
    \/ PollUnrecoverable \/ PollTimeout

Next ==
    \/ \E e \in EDs : HcRetire(e)
    \/ HcWriteBack
    \/ submit_common_msg
    \/ Beyond

(* The controller serves its lists, and the polling loop goes on. *)
Spec ==
    /\ Init /\ [][Next]_vars
    /\ \A e \in EDs : WF_vars(HcRetire(e))
    /\ WF_vars(HcWriteBack)
    /\ WF_vars(td_submit_job)
    /\ WF_vars(PollTake) /\ WF_vars(dl_reverse_done_list) /\ WF_vars(dl_done_list) /\ WF_vars(PollAck)

-----------------------------------------------------------------------------
(* The TDs from t on along hwNextTD, up to but not including the TD stop;  *)
(* at[k] is the one k links on, if there is one.                           *)
Walk(td, t, stop) ==
    LET at[k \in 0 .. NUM_TD] ==
            (IF k = 0 THEN {t} ELSE {td[s].next : s \in at[k - 1]}) \ {NULL, stop}
    IN  at

(* The TDs the controller can still reach. *)
Reached(td, t, stop) == UNION {Walk(td, t, stop)[k] : k \in 0 .. NUM_TD}
InFlight ==
    (UNION {Reached(mem.td, mem.ed[e].head, mem.ed[e].tail) : e \in EDs})
        \cup Reached(mem.td, hc.doneq, NULL) \cup Reached(mem.td, hc.done_head, NULL)
TdsOf(e) == ToSet(mem.urb[e].td)
Dummies == {mem.ed[e].tail : e \in EDs} \ {NULL}

(* "Unless the flag for current URB is set, meaning that all TD's to/from  *)
(* device got actually transferred and processed" (ohci-hcd.c:1831-1833):  *)
(* when finish_urb has set the flag, the URB's TDs are out of the          *)
(* controller's hands, also those a failure skipped.  The time-out sets it *)
(* too (1855), with TDs queued, just before the URB is freed: no test of   *)
(* the flag sees that, and what it does to the TDs is givenUp.             *)
FinishedMeansDone ==
    \A e \in Control \cup Bulk : mem.urb[e].finished => TdsOf(e) \cap InFlight = {}

(* No TD is free, to be taken for another transfer, while the controller   *)
(* can still read or write it, whatever TDs failed, but for those of a     *)
(* transfer that was given up, by a time-out, a schedule overrun or a      *)
(* device gone; nor does the controller's queue lead past its end.         *)
NoFreeTdInFlight ==
    ~disabled => \A t \in InFlight \cup Dummies : mem.td[t].used \/ t \in givenUp

(* TDs neither leak nor serve two masters: each in use is the dummy of one *)
(* endpoint or belongs to one transfer, although td_fill exchanges dummies *)
(* and TDs of transfers all the time; and the variables keep their types.  *)
TdsAccounted ==
    /\ TypeOK
    /\ {t \in TDs : mem.td[t].used} = Dummies \cup UNION {TdsOf(e) : e \in EDs}
    /\ \A e \in EDs : TdsOf(e) \cap Dummies = {}
    /\ \A d, e \in EDs : d # e => TdsOf(d) \cap TdsOf(e) = {}

(* Between transfers only interrupt pipes are on the controller's lists,   *)
(* and no queue is left halted or filled: the next transfer on an endpoint *)
(* starts afresh, even after a TD that failed in the middle of a transfer; *)
(* the endpoint of a transfer that was given up is the only exception.     *)
QuietWhenIdle ==
    main = Idle /\ ~disabled =>
        \A e \in EDs \ Interrupt :
            \/ \E t \in givenUp : mem.td[t].ed = e
            \/ /\ mem.ed[e].state # "OPER"
               /\ ~mem.ed[e].halted /\ mem.ed[e].head = mem.ed[e].tail

(* A transfer that the controller serves comes to an end without help of   *)
(* the time-out: no completion is lost between the controller, the done    *)
(* list and the acknowledgements.  This is said of transfers during which  *)
(* no irq_handle submits another.                                          *)
SubmitReturns == main # Idle ~> (main = Idle \/ main.pc = "nested")
=============================================================================
