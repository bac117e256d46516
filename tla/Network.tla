------------------------------- MODULE Network -------------------------------
(***************************************************************************)
(* sys_net_send, sys_net_recv and the interrupt handler of net.cpp, with   *)
(* the descriptor rings of drivers/e1000.cpp.  The network card and the    *)
(* interrupt controller are outside the kernel; they are modelled from the *)
(* registers the driver uses.  The card writes a descriptor before it      *)
(* moves RDH.                                                              *)
(*                                                                         *)
(* The kernel is not preempted: a CPU stays with a system call until it    *)
(* blocks or returns, and with an interrupt until it is handled, while the *)
(* card runs on its own.                                                    *)
(*                                                                         *)
(* A packet is its serial number modulo twice the size of its ring, so     *)
(* nothing in the model has a bound.                                       *)
(***************************************************************************)
EXTENDS Integers, FiniteSets

CONSTANTS Senders, Receivers,
          Machines,      \* the number of CPUs, the threads that use the network, and
                         \* whether packets arrive
          TXDESCS, RXDESCS,
          PktNums        \* values of pkt_num in sys_net_recv

ASSUME NetworkAssumption ==
    /\ TXDESCS \in Nat \ {0, 1} /\ RXDESCS \in Nat \ {0, 1}
    /\ PktNums \subseteq Nat \ {0}
    /\ Senders \cap Receivers = {} /\ "nobody" \notin Senders \cup Receivers
    /\ \A m \in Machines : m.cpus \in Nat \ {0} /\ m.threads \subseteq Senders \cup Receivers /\ m.traffic \in BOOLEAN

Threads == Senders \cup Receivers
Causes == {"RXDMT0", "TXQE"}

VARIABLES machine,    \* a member of Machines
          pc,         \* thread -> where it is in its system call
          want,       \* receiver -> packets its call still wants
          net_buffer_lock, \* its holder: a thread or "nobody"
          tx, rx,     \* the rings and their head and tail registers
          icr, ims,   \* interrupt causes that are pending, and enabled
          irq,        \* the interrupt handler: where it is, and icr & ims
          sent, wire, \* packets accepted by sys_net_send, and sent by the card
          arrived, taken   \* packets put into the ring, and polled

vars == <<machine, pc, want, net_buffer_lock, tx, rx, icr, ims, irq, sent, wire, arrived, taken>>

\* Serial numbers of the packets of a ring, and a descriptor not used yet.
TxSerial(i) == i % (2 * TXDESCS)
RxSerial(i) == i % (2 * RXDESCS)
NoPacket == -1

e1000_configure_tx == [TDH |-> 0, TDT |-> 0, desc |-> [i \in 0 .. TXDESCS - 1 |-> NoPacket]]

\* All descriptors but one belong to the card.
e1000_configure_rx ==
    [RDH |-> 0, RDT |-> RXDESCS - 1,
     desc |-> [i \in 0 .. RXDESCS - 1 |-> [packet |-> NoPacket, DD |-> FALSE]]]

\* e1000_reset masks and clears every cause of an interrupt.
e1000_reset == {}

\* init_net has called e1000_init.
Init ==
    /\ machine \in Machines
    /\ pc = [t \in Threads |-> "user"]
    /\ want = [t \in Receivers |-> 0]
    /\ net_buffer_lock = "nobody"
    /\ tx = e1000_configure_tx
    /\ rx = e1000_configure_rx
    /\ icr = e1000_reset
    /\ ims = e1000_reset \cup {"RXDMT0"}       \* at the end of e1000_configure_rx
    /\ irq = [pc |-> "idle", cause |-> {}]
    /\ sent = 0 /\ wire = 0 /\ arrived = 0 /\ taken = 0

\* Threads off the CPU in user code, blocked in a wait queue, or woken from it.
Off == {"user", "blocked", "ready"}

\* A CPU is left for one more kernel activity.
FreeCPU == Cardinality({t \in Threads : pc[t] \notin Off})
           + (IF irq.pc = "idle" THEN 0 ELSE 1) < machine.cpus

Go(t, from, to) == pc[t] = from /\ pc' = [pc EXCEPT ![t] = to]
Release == net_buffer_lock' = "nobody"

ring == <<tx, rx>>
serials == <<sent, wire, arrived, taken>>
-----------------------------------------------------------------------------
\* System call entry, and the return of do_block in a thread that was woken:
\* what follows is net_buffer_lock.lock().
Call(t) ==
    /\ FreeCPU
    /\ t \in machine.threads
    /\ Go(t, "user", "lock")
    /\ IF t \in Receivers THEN \E n \in PktNums : want' = [want EXCEPT ![t] = n]
       ELSE want' = want
    /\ UNCHANGED <<machine, net_buffer_lock, ring, icr, ims, irq, serials>>

Resume(t) ==
    /\ FreeCPU
    /\ Go(t, "ready", "lock")
    /\ UNCHANGED <<machine, want, net_buffer_lock, ring, icr, ims, irq, serials>>

Lock(t) ==
    /\ net_buffer_lock = "nobody"
    /\ Go(t, "lock", "try")
    /\ net_buffer_lock' = t
    /\ UNCHANGED <<machine, want, ring, icr, ims, irq, serials>>

\* Mutant of TxFull: the wrap-around is forgotten.
M_TxFull == tx.TDT + 1 = tx.TDH

\* e1000_transmit: full
TxFull == (tx.TDT + 1) % TXDESCS = tx.TDH

\* e1000_transmit with room, and the return from sys_net_send
e1000_transmit(t) ==
    /\ t \in Senders
    /\ ~ TxFull
    /\ Go(t, "try", "user")
    /\ tx' = [tx EXCEPT !.desc[tx.TDT] = TxSerial(sent + 1), !.TDT = (@ + 1) % TXDESCS]
    /\ sent' = TxSerial(sent + 1)
    /\ Release
    /\ UNCHANGED <<machine, want, rx, icr, ims, irq, wire, arrived, taken>>

\* e1000_transmit answers -1 ...
SendFull(t) ==
    /\ t \in Senders
    /\ TxFull
    /\ Go(t, "try", "full")
    /\ UNCHANGED <<machine, want, net_buffer_lock, ring, icr, ims, irq, serials>>

\* Mutant of EnableTXQE: TXQE is enabled only while packets are left.
M_EnableTXQE(t) ==
    /\ Go(t, "full", "block")
    /\ ims' = IF tx.TDH = tx.TDT THEN ims ELSE ims \cup {"TXQE"}
    /\ UNCHANGED <<machine, want, net_buffer_lock, ring, icr, irq, serials>>

\* ... sys_net_send enables TXQE, though the ring may have drained by now, ...
EnableTXQE(t) ==
    /\ Go(t, "full", "block")
    /\ ims' = ims \cup {"TXQE"}
    /\ UNCHANGED <<machine, want, net_buffer_lock, ring, icr, irq, serials>>

\* ... and blocks: do_block queues the thread and releases the lock.
do_block(t) ==
    /\ Go(t, "block", "blocked")
    /\ Release
    /\ UNCHANGED <<machine, want, ring, icr, ims, irq, serials>>

NextRx == (rx.RDT + 1) % RXDESCS

\* e1000_poll finds a packet: RDH has passed the descriptor and DD is set.
\* Nobody clears DD.
Polled == NextRx # rx.RDH /\ rx.desc[NextRx].DD

\* One round of the loop of sys_net_recv
e1000_poll(t) ==
    /\ t \in Receivers
    /\ Polled
    /\ Go(t, "try", IF want[t] = 1 THEN "user" ELSE "lock")
    /\ want' = [want EXCEPT ![t] = @ - 1]
    /\ taken' = RxSerial(taken + 1)
    /\ rx' = [rx EXCEPT !.RDT = NextRx]
    /\ Release
    /\ UNCHANGED <<machine, tx, icr, ims, irq, sent, wire, arrived>>

RecvEmpty(t) ==
    /\ t \in Receivers
    /\ ~ Polled
    /\ Go(t, "try", "block")
    /\ UNCHANGED <<machine, want, net_buffer_lock, ring, icr, ims, irq, serials>>
-----------------------------------------------------------------------------
\* WaitQueue::wakeup_all of send_wait_queue or recv_wait_queue
wakeup_all(waiters) ==
    pc' = [t \in Threads |-> IF t \in waiters /\ pc[t] = "blocked" THEN "ready" ELSE pc[t]]

\* Mutant of net_idle_check: the receivers are left to RXDMT0.
M_net_idle_check ==
    /\ FreeCPU
    /\ net_buffer_lock = "nobody"
    /\ "RXDMT0" \in icr
    /\ wakeup_all(Receivers)
    /\ UNCHANGED <<machine, want, net_buffer_lock, ring, icr, ims, irq, serials>>

\* net_idle_check, called by each timer interrupt
net_idle_check ==
    /\ FreeCPU
    /\ net_buffer_lock = "nobody"
    /\ wakeup_all(Receivers)
    /\ UNCHANGED <<machine, want, net_buffer_lock, ring, icr, ims, irq, serials>>

IrqGo(from, to) == irq.pc = from /\ irq' = [irq EXCEPT !.pc = to]

\* The card interrupts, handle_ext_irq claims: no second claim succeeds before
\* plic_complete.
plic_claim ==
    /\ FreeCPU
    /\ icr \cap ims # {}
    /\ IrqGo("idle", "icr")
    /\ UNCHANGED <<machine, pc, want, net_buffer_lock, ring, icr, ims, serials>>

\* handle_e1000_irq reads ICR, which clears it, ...
ReadICR ==
    /\ irq.pc = "icr"
    /\ irq' = [pc |-> "ims", cause |-> icr]
    /\ icr' = {}
    /\ UNCHANGED <<machine, pc, want, net_buffer_lock, ring, ims, serials>>

\* Mutant of ReadIMS: TXQE is taken for disabled.
M_ReadIMS ==
    /\ irq.pc = "ims"
    /\ irq' = [pc |-> "rx", cause |-> irq.cause \cap {"RXDMT0"}]
    /\ UNCHANGED <<machine, pc, want, net_buffer_lock, ring, icr, ims, serials>>

\* ... then IMS, ...
ReadIMS ==
    /\ irq.pc = "ims"
    /\ irq' = [pc |-> "rx", cause |-> irq.cause \cap ims]
    /\ UNCHANGED <<machine, pc, want, net_buffer_lock, ring, icr, ims, serials>>

\* ... wakes the receivers ...
WakeReceivers ==
    /\ IrqGo("rx", "tx")
    /\ IF "RXDMT0" \in irq.cause
       THEN net_buffer_lock = "nobody" /\ wakeup_all(Receivers)
       ELSE pc' = pc
    /\ UNCHANGED <<machine, want, net_buffer_lock, ring, icr, ims, serials>>

\* ... masks TXQE ...
MaskTXQE ==
    /\ "TXQE" \in irq.cause
    /\ IrqGo("tx", "wake")
    /\ ims' = ims \ {"TXQE"}
    /\ UNCHANGED <<machine, pc, want, net_buffer_lock, ring, icr, serials>>

\* ... and wakes the senders.
WakeSenders ==
    /\ net_buffer_lock = "nobody"
    /\ IrqGo("wake", "complete")
    /\ wakeup_all(Senders)
    /\ UNCHANGED <<machine, want, net_buffer_lock, ring, icr, ims, serials>>

plic_complete ==
    /\ \/ irq.pc = "complete"
       \/ irq.pc = "tx" /\ "TXQE" \notin irq.cause
    /\ irq' = [pc |-> "idle", cause |-> {}]
    /\ UNCHANGED <<machine, pc, want, net_buffer_lock, ring, icr, ims, serials>>
-----------------------------------------------------------------------------
\* The card sends the packet at TDH; TXQE is its cause when the ring is empty.
CardSends ==
    LET head == (tx.TDH + 1) % TXDESCS
    IN  /\ tx.TDH # tx.TDT
        /\ wire' = TxSerial(wire + 1)
        /\ tx' = [tx EXCEPT !.TDH = head]
        /\ icr' = IF head = tx.TDT THEN icr \cup {"TXQE"} ELSE icr
        /\ UNCHANGED <<machine, pc, want, net_buffer_lock, rx, ims, irq, sent, arrived, taken>>

\* A packet arrives and finds a descriptor; RXDMT0 is the cause when no more
\* than half of them are left.
CardReceives ==
    LET head == (rx.RDH + 1) % RXDESCS
        left == (rx.RDT - head) % RXDESCS
    IN  /\ machine.traffic
        /\ rx.RDH # rx.RDT
        /\ arrived' = RxSerial(arrived + 1)
        /\ rx' = [rx EXCEPT !.desc[rx.RDH] = [packet |-> RxSerial(arrived + 1), DD |-> TRUE],
                            !.RDH = head]
        /\ icr' = IF 2 * left <= RXDESCS THEN icr \cup {"RXDMT0"} ELSE icr
        /\ UNCHANGED <<machine, pc, want, net_buffer_lock, tx, ims, irq, sent, wire, taken>>

ThreadStep(t) ==
    \/ Lock(t) \/ e1000_transmit(t) \/ SendFull(t) \/ EnableTXQE(t) \/ do_block(t)
    \/ e1000_poll(t) \/ RecvEmpty(t)

IrqStep == ReadICR \/ ReadIMS \/ WakeReceivers \/ MaskTXQE \/ WakeSenders \/ plic_complete

Next ==
    \/ \E t \in Threads : Call(t) \/ Resume(t) \/ ThreadStep(t)
    \/ plic_claim \/ IrqStep \/ net_idle_check
    \/ CardSends \/ CardReceives

\* The card drains its ring; a CPU finishes what it does in the kernel; a woken
\* thread, the interrupt and the timer get a CPU again and again (run
\* scheduler_live), however busy the CPUs are.
Fairness ==
    /\ WF_vars(CardSends) /\ WF_vars(IrqStep)
    /\ \A t \in Threads : WF_vars(ThreadStep(t)) /\ SF_vars(Resume(t))
    /\ SF_vars(plic_claim) /\ SF_vars(net_idle_check)

Spec == Init /\ [][Next]_vars /\ Fairness
-----------------------------------------------------------------------------
\* The shape of the state.
TypeOK ==
    /\ pc \in [Threads -> Off \cup {"lock", "try", "full", "block"}]
    /\ net_buffer_lock \in Threads \cup {"nobody"}
    /\ tx.TDH \in 0 .. TXDESCS - 1 /\ tx.TDT \in 0 .. TXDESCS - 1
    /\ rx.RDH \in 0 .. RXDESCS - 1 /\ rx.RDT \in 0 .. RXDESCS - 1
    /\ icr \subseteq Causes /\ ims \subseteq Causes /\ "RXDMT0" \in ims
    /\ irq.pc \in {"idle", "icr", "ims", "rx", "tx", "wake", "complete"}
    /\ \A r \in Receivers : want[r] > 0 <=> pc[r] # "user"

\* The transmit ring (e1000_transmit) holds, in order, exactly the packets accepted and not yet
\* sent: none is overwritten before the card has sent it, none is sent twice,
\* also where head and tail wrap around and the ring is full.
SendsInOrder ==
    LET n == (tx.TDT - tx.TDH) % TXDESCS
    IN  /\ sent = TxSerial(wire + n)
        /\ \A i \in 0 .. n - 1 : tx.desc[(tx.TDH + i) % TXDESCS] = TxSerial(wire + 1 + i)

\* The receive ring holds, in order, exactly the packets that arrived and were
\* not yet given to a receiver, although DD is never cleared.
ReceivesInOrder ==
    LET n == (rx.RDH - NextRx) % RXDESCS
    IN  /\ arrived = RxSerial(taken + n)
        /\ \A i \in 0 .. n - 1 :
             /\ rx.desc[(NextRx + i) % RXDESCS].packet = RxSerial(taken + 1 + i)
             /\ rx.desc[(NextRx + i) % RXDESCS].DD

\* Packets keep their order in both rings, and the state is well formed.
RingsKeepOrder == TypeOK /\ SendsInOrder /\ ReceivesInOrder

\* A sender sleeps only while TXQE is enabled, or while the handler that has
\* just masked it is about to wake all senders, on any number of CPUs.
SleepingSenderIsArmed ==
    (\E s \in Senders : pc[s] = "blocked") => "TXQE" \in ims \/ irq.pc = "wake"

\* On one CPU sys_net_send returns, however the card drains the ring around it,
\* unless another sender keeps the ring from becoming empty for ever: TXQE is
\* the only cause that wakes a sender.
SendReturns ==
    \A s \in Senders : machine.cpus = 1 =>
        \/ []<>(pc[s] = "user")
        \/ \E o \in Senders \ {s} : []<>(pc[o] = "try")

\* A receiver does not sleep on a packet, not even on one that arrives while so
\* many descriptors are left that RXDMT0 is not raised: what has arrived is given
\* to a receiver, on any number of CPUs, because the timer interrupt calls
\* net_idle_check.
PacketIsReceived ==
    \A r \in Receivers :
        (pc[r] # "user" /\ NextRx # rx.RDH) ~> (pc[r] = "user" \/ NextRx = rx.RDH)
=============================================================================
