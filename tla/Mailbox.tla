------------------------------ MODULE Mailbox ------------------------------
(***************************************************************************)
(* One mailbox of locks.cpp with its senders and receivers, on any number  *)
(* of CPUs.  send and recv move a message byte by byte under the spin lock *)
(* of the mailbox, which do_block gives up while it waits.                 *)
(***************************************************************************)
EXTENDS Integers, Sequences

CONSTANTS Senders, Receivers,
          Lengths,        \* msg_length arguments
          MAX_MSG_SIZE,   \* capacity of msg_queue in bytes
          Calls,          \* bound: how often a thread calls send or recv
          Nobody

Threads == Senders \cup Receivers

ASSUME MailboxAssumption ==
  /\ Senders \cap Receivers = {} /\ Nobody \notin Threads
  /\ Lengths \subseteq Nat /\ MAX_MSG_SIZE \in Nat /\ Calls \in Nat

VARIABLES
  msg_queue,
  send_wait_queue, recv_wait_queue,
  lock,               \* the thread holding it, or Nobody
  status_block_cnt,
  length,             \* the local of send and recv: bytes still to move
  pc,
  calls,
  written, read,      \* every byte pushed and popped so far, in order
  undefined,          \* front() or pop() was called on an empty queue
  waited              \* history: the bytes that a sender has waited for room for

vars == <<msg_queue, send_wait_queue, recv_wait_queue, lock, status_block_cnt, length, pc,
          calls, written, read, undefined, waited>>

Init ==
  /\ msg_queue = <<>>
  /\ send_wait_queue = <<>>
  /\ recv_wait_queue = <<>>
  /\ lock = Nobody
  /\ status_block_cnt = [t \in Threads |-> 0]
  /\ length = [t \in Threads |-> 0]
  /\ pc = [t \in Threads |-> "user"]
  /\ calls = [t \in Threads |-> 0]
  /\ written = <<>>
  /\ read = <<>>
  /\ undefined = FALSE
  /\ waited = {}

-----------------------------------------------------------------------------
Goto(t, label) == pc' = [pc EXCEPT ![t] = label]

(* A byte is identified by who sent it, in which call, and its place. *)
Byte(t) == <<t, calls[t], length[t]>>

(* sys_mbox_send, sys_mbox_recv *)
Call(t) ==
  /\ pc[t] = "user" /\ calls[t] < Calls
  /\ calls' = [calls EXCEPT ![t] = @ + 1]
  /\ \E n \in Lengths : length' = [length EXCEPT ![t] = n]
  /\ Goto(t, "lock")
  /\ UNCHANGED <<msg_queue, send_wait_queue, recv_wait_queue, lock, status_block_cnt,
                 written, read, undefined, waited>>

(* lock_guard guard(lock) *)
Lock(t) ==
  /\ pc[t] = "lock" /\ lock = Nobody
  /\ lock' = t
  /\ Goto(t, "loop")
  /\ UNCHANGED <<msg_queue, send_wait_queue, recv_wait_queue, status_block_cnt, length,
                 calls, written, read, undefined, waited>>

(* recv_wait_queue.wakeup_one(); no thread is killed here, so Thread::wakeup *)
(* only counts the block down.                                               *)
WakeReceiver ==
  IF recv_wait_queue = <<>>
  THEN UNCHANGED <<recv_wait_queue, status_block_cnt>>
  ELSE /\ recv_wait_queue' = Tail(recv_wait_queue)
       /\ status_block_cnt' = [status_block_cnt EXCEPT ![Head(recv_wait_queue)] = @ - 1]

\* Mutant of Push: the bytes of a message are pushed at the front.
M_Push(t) ==
  /\ msg_queue' = <<Byte(t)>> \o msg_queue
  /\ written' = Append(written, Byte(t))
  /\ WakeReceiver
  /\ length' = [length EXCEPT ![t] = @ - 1]
  /\ UNCHANGED <<send_wait_queue, calls, read, undefined, waited>>

\* Mutant of Push: wakeup_one is missing.
M_Push_nowake(t) ==
  /\ msg_queue' = Append(msg_queue, Byte(t))
  /\ written' = Append(written, Byte(t))
  /\ length' = [length EXCEPT ![t] = @ - 1]
  /\ UNCHANGED <<send_wait_queue, recv_wait_queue, status_block_cnt, calls, read, undefined, waited>>

(* The end of the loop body of send *)
Push(t) ==
  /\ msg_queue' = Append(msg_queue, Byte(t))
  /\ written' = Append(written, Byte(t))
  /\ WakeReceiver
  /\ length' = [length EXCEPT ![t] = @ - 1]
  /\ UNCHANGED <<send_wait_queue, calls, read, undefined, waited>>

(* The end of the loop body of recv.  On an empty queue front() returns     *)
(* what is left in the buffer of the deque and pop() moves its start past   *)
(* its end: from there on the queue is not a queue any more.                *)
Pop(t) ==
  /\ length' = [length EXCEPT ![t] = @ - 1]
  /\ IF msg_queue = <<>>
     THEN undefined' = TRUE /\ UNCHANGED <<msg_queue, read>>
     ELSE /\ msg_queue' = Tail(msg_queue)
          /\ read' = Append(read, Head(msg_queue))
          /\ undefined' = undefined
  /\ IF send_wait_queue = <<>>
     THEN UNCHANGED <<send_wait_queue, status_block_cnt>>
     ELSE /\ send_wait_queue' = Tail(send_wait_queue)
          /\ status_block_cnt' = [status_block_cnt EXCEPT ![Head(send_wait_queue)] = @ - 1]
  /\ UNCHANGED <<recv_wait_queue, calls, written, waited>>

(* do_block(recv_wait_queue, lock), in send and in recv *)
Block(t) ==
  /\ recv_wait_queue' = Append(recv_wait_queue, t)
  /\ status_block_cnt' = [status_block_cnt EXCEPT ![t] = @ + 1]
  /\ lock' = Nobody
  /\ Goto(t, "blocked")
  /\ UNCHANGED <<msg_queue, send_wait_queue, length, calls, written, read, undefined>>

InLoop(t) == pc[t] = "loop" /\ length[t] > 0 /\ ~undefined

\* Mutant of SendByte: the guard is taken inside the loop, once for a byte.
M_SendByte(t) ==
  /\ t \in Senders /\ InLoop(t)
  /\ Len(msg_queue) < MAX_MSG_SIZE
  /\ Push(t)
  /\ lock' = Nobody
  /\ Goto(t, "lock")

SendByte(t) ==
  /\ t \in Senders /\ InLoop(t)
  /\ Len(msg_queue) < MAX_MSG_SIZE
  /\ Push(t)
  /\ UNCHANGED <<lock, pc>>

SendFull(t) ==
  /\ t \in Senders /\ InLoop(t)
  /\ Len(msg_queue) >= MAX_MSG_SIZE
  /\ Block(t)
  /\ waited' = waited \cup {Byte(t)}

RecvByte(t) ==
  /\ t \in Receivers /\ InLoop(t)
  /\ msg_queue # <<>>
  /\ Pop(t)
  /\ UNCHANGED <<lock, pc>>

RecvEmpty(t) ==
  /\ t \in Receivers /\ InLoop(t)
  /\ msg_queue = <<>>
  /\ Block(t)
  /\ UNCHANGED waited

(* do_block returns *)
Resume(t) ==
  /\ pc[t] = "blocked" /\ status_block_cnt[t] = 0
  /\ Goto(t, "relock")
  /\ UNCHANGED <<msg_queue, send_wait_queue, recv_wait_queue, lock, status_block_cnt, length,
                 calls, written, read, undefined, waited>>

(* lock.lock() after do_block, then push or pop without a second test *)
Retry(t) ==
  /\ pc[t] = "relock" /\ lock = Nobody /\ ~undefined
  /\ lock' = t
  /\ IF t \in Senders THEN Push(t) ELSE Pop(t)
  /\ Goto(t, "loop")

(* The message has been moved: the guard releases the lock *)
Return(t) ==
  /\ pc[t] = "loop" /\ length[t] = 0
  /\ lock' = Nobody
  /\ Goto(t, "user")
  /\ UNCHANGED <<msg_queue, send_wait_queue, recv_wait_queue, status_block_cnt, length,
                 calls, written, read, undefined, waited>>

KernelStep(t) ==
  \/ Lock(t) \/ SendByte(t) \/ SendFull(t) \/ RecvByte(t) \/ RecvEmpty(t)
  \/ Resume(t) \/ Retry(t) \/ Return(t)

Next == \E t \in Threads : Call(t) \/ KernelStep(t)

Spec == Init /\ [][Next]_vars

(* A thread that spins on the lock gets it in the end, and the threads go   *)
(* on calling send and recv while they may.                                 *)
FairSpec ==
  /\ Spec
  /\ \A t \in Threads : SF_vars(KernelStep(t)) /\ WF_vars(Call(t))
-----------------------------------------------------------------------------
(* The fields keep their types; a waiting thread is woken once: the block    *)
(* counter never goes below zero.                                            *)
TypeOK ==
  /\ msg_queue \in Seq(Senders \X (1..Calls) \X Nat)
  /\ send_wait_queue \in Seq(Threads)
  /\ recv_wait_queue \in Seq(Threads)
  /\ lock \in Threads \cup {Nobody}
  /\ status_block_cnt \in [Threads -> {0, 1}]
  /\ length \in [Threads -> Nat]
  /\ pc \in [Threads -> {"user", "lock", "loop", "blocked", "relock"}]

(* The state is well formed, the bytes come out in the order they went in,  *)
(* none lost or repeated, however often send and recv block in the middle   *)
(* of a message, and recv never calls front() and pop() on an empty queue.  *)
(* Holds with one receiver, the only one to take the byte it was woken for. *)
BytesInOrder ==
  /\ TypeOK
  /\ written = read \o msg_queue
  /\ ~undefined

(* A message is cut by another one only in front of a byte that its sender  *)
(* had to wait for room for, however often the mailbox has been filled and  *)
(* drained: mailbox::send keeps the lock from the first byte to the last    *)
(* except in do_block.                                                      *)
MessagesAreWhole ==
  \A i \in 1..(Len(written) - 1) :
    written[i][3] > 1 =>
      LET next == [written[i] EXCEPT ![3] = @ - 1]
      IN  written[i + 1] = next \/ next \in waited

(* A receiver that waits gets the byte that is there: it does not stay      *)
(* blocked beside a byte.                                                   *)
ReceiverSeesBytes ==
  \A t \in Receivers : pc[t] = "blocked" /\ msg_queue # <<>> ~> pc[t] # "blocked"
=============================================================================
