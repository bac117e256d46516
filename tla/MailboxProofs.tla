---------------------------- MODULE MailboxProofs ----------------------------
(***************************************************************************)
(* The theorems about Mailbox, for any number of senders, any capacity and  *)
(* any message lengths: with one receiver the bytes arrive in order, and    *)
(* with any number a message is cut only where its sender had to wait.      *)
(***************************************************************************)
EXTENDS Mailbox, Queues, SequenceTheorems, TLAPS

(* Z3 gets half a minute, through either encoding; a leaf for Zenon says so. *)
USE SMTT(30), Z3T(30)

Bytes == Senders \X (1..Calls) \X Nat

OneReceiver == \A q, r \in Receivers : q = r

(* The types, with the history; a call that waits has bytes left to move.   *)
Types ==
  /\ TypeOK
  /\ calls \in [Threads -> 0..Calls]
  /\ written \in Seq(Bytes) /\ read \in Seq(Bytes)
  /\ undefined \in BOOLEAN
  /\ \A t \in Threads : pc[t] # "user" => calls[t] >= 1
  /\ \A t \in Threads : pc[t] \in {"blocked", "relock"} => length[t] >= 1

(* A thread is in the loop while it has the lock; send_wait_queue is never  *)
(* used; a thread waits in recv_wait_queue once, blocked while it is there. *)
Waiting ==
  /\ \A t \in Threads : lock = t <=> pc[t] = "loop"
  /\ send_wait_queue = <<>>
  /\ Distinct(recv_wait_queue)
  /\ \A t \in Members(recv_wait_queue) : pc[t] = "blocked"
  /\ \A t \in Threads : status_block_cnt[t] = IF t \in Members(recv_wait_queue) THEN 1 ELSE 0

(* t was woken in recv_wait_queue and has not moved its byte yet. *)
Woken(t) == pc[t] = "relock" \/ (pc[t] = "blocked" /\ t \notin Members(recv_wait_queue))

(* Nothing is lost, and a receiver that was woken finds a byte.             *)
Order ==
  /\ written = read \o msg_queue
  /\ OneReceiver => ~undefined /\ \A r \in Receivers : Woken(r) => msg_queue # <<>>

(* The byte that follows b in its message. *)
After(b) == [b EXCEPT ![3] = @ - 1]

(* The message of the last byte, while it has more, is in the hands of a    *)
(* thread inside the loop, or its sender has waited for the next byte.      *)
Last ==
  LET b == written[Len(written)]
  IN  0 < Len(written) /\ b[3] > 1 =>
        \/ After(b) \in waited
        \/ \E t \in Senders : pc[t] = "loop" /\ b = <<t, calls[t], length[t] + 1>>

IInv == Types /\ Waiting /\ Order /\ Last /\ MessagesAreWhole
-----------------------------------------------------------------------------
(* push adds one member, and keeps the queue distinct if it is a new one. *)
LEMMA AppendMembers ==
  ASSUME NEW S, NEW q \in Seq(S), NEW t \in S
  PROVE  /\ Append(q, t) \in Seq(S)
         /\ Members(Append(q, t)) = Members(q) \cup {t}
         /\ Distinct(q) /\ t \notin Members(q) => Distinct(Append(q, t))
<1>1. \A x \in Members(Append(q, t)) : x \in Members(q) \cup {t}
  BY DEF Members
<1>2. \A i \in DOMAIN q : i \in DOMAIN Append(q, t) /\ Append(q, t)[i] = q[i]
  OBVIOUS
<1>3. Len(q) + 1 \in DOMAIN Append(q, t) /\ Append(q, t)[Len(q) + 1] = t
  OBVIOUS
<1>4. \A x \in Members(q) \cup {t} : x \in Members(Append(q, t))
  BY <1>2, <1>3, Zenon DEF Members
<1>5. Distinct(q) /\ t \notin Members(q) => Distinct(Append(q, t))
  BY DEF Members, Distinct
<1> QED
  BY <1>1, <1>4, <1>5

(* pop removes the member at the front. *)
LEMMA TailMembers ==
  ASSUME NEW S, NEW q \in Seq(S), q # <<>>, Distinct(q)
  PROVE  /\ Tail(q) \in Seq(S) /\ Distinct(Tail(q))
         /\ Head(q) \in S /\ Head(q) \in Members(q)
         /\ Members(Tail(q)) = Members(q) \ {Head(q)}
<1>1. \A x \in Members(Tail(q)) : x \in Members(q) \ {Head(q)}
  BY DEF Members, Distinct
<1>2. \A i \in DOMAIN q : q[i] # Head(q) => i - 1 \in DOMAIN Tail(q) /\ Tail(q)[i - 1] = q[i]
  OBVIOUS
<1>3. \A x \in Members(q) \ {Head(q)} : x \in Members(Tail(q))
  BY <1>2, Zenon DEF Members
<1>4. Tail(q) \in Seq(S) /\ Distinct(Tail(q)) /\ Head(q) \in S /\ Head(q) \in Members(q)
  BY DEF Members, Distinct
<1> QED
  BY <1>1, <1>3, <1>4, Zenon

(* One more byte at the end of a sequence of bytes. *)
LEMMA AppendByte ==
  ASSUME NEW s \in Seq(Bytes), NEW b \in Bytes
  PROVE  /\ Append(s, b) \in Seq(Bytes) /\ Append(s, b) # <<>>
         /\ Len(s) \in Nat /\ Len(Append(s, b)) = Len(s) + 1
         /\ Append(s, b)[Len(s) + 1] = b
         /\ \A i \in 1..Len(s) : Append(s, b)[i] = s[i]
  BY AppendProperties, LenProperties

(* A byte appended to the queue is appended to the history.                 *)
LEMMA AppendOfConcat ==
  ASSUME NEW r \in Seq(Bytes), NEW q \in Seq(Bytes), NEW b \in Bytes
  PROVE  Append(r \o q, b) = r \o Append(q, b)
<1>1. r \o q \in Seq(Bytes) /\ <<b>> \in Seq(Bytes)
  BY ConcatProperties
<1>2. Append(r \o q, b) = (r \o q) \o <<b>> /\ Append(q, b) = q \o <<b>>
  BY <1>1, AppendIsConcat, Zenon
<1> QED
  BY <1>1, <1>2, ConcatAssociative

(* Moving the head of the queue over to what was read keeps the history.    *)
LEMMA MoveHead ==
  ASSUME NEW r \in Seq(Bytes), NEW q \in Seq(Bytes), q # <<>>
  PROVE  /\ Head(q) \in Bytes /\ Tail(q) \in Seq(Bytes)
         /\ Append(r, Head(q)) \in Seq(Bytes)
         /\ Append(r, Head(q)) \o Tail(q) = r \o q
<1>1. Head(q) \in Bytes /\ Tail(q) \in Seq(Bytes) /\ <<Head(q)>> \in Seq(Bytes)
  BY HeadTailProperties
<1>2. q = <<Head(q)>> \o Tail(q)
  <2>1. Len(q) \in Nat \ {0}
    BY EmptySeq, Zenon
  <2>2. 1 \in 1..Len(q) /\ Len(q) \in 1..Len(q) /\ 1 + 1 = 2
    BY <2>1
  <2>3. SubSeq(q, 1, Len(q)) = <<q[1]>> \o SubSeq(q, 2, Len(q))
    BY <2>2, SubSeqRecursiveFirst, Zenon
  <2>4. SubSeq(q, 1, Len(q)) = q
    BY SubSeqFull, Zenon
  <2>5. SubSeq(q, 2, Len(q)) = Tail(q)
    BY TailIsSubSeq, Zenon
  <2> QED
    BY <2>3, <2>4, <2>5
<1>3. Append(r, Head(q)) = r \o <<Head(q)>> /\ Append(r, Head(q)) \in Seq(Bytes)
  BY <1>1, AppendIsConcat, AppendProperties, Zenon
<1> QED
  BY <1>1, <1>2, <1>3, ConcatAssociative
-----------------------------------------------------------------------------
(* The inductive invariant holds at first. *)
LEMMA InitIInv == Init => IInv
<1> SUFFICES ASSUME Init PROVE IInv
  OBVIOUS
<1>1. <<>> \in Seq(Bytes) /\ <<>> \in Seq(Threads) /\ Len(<<>>) = 0 /\ <<>> \o <<>> = <<>>
  BY EmptySeq, ConcatEmptySeq, Zenon
<1>2. Types
  <2>1. TypeOK
    BY <1>1, Zenon DEF Init, TypeOK, Bytes
  <2>2. calls \in [Threads -> 0..Calls]
    BY MailboxAssumption DEF Init
  <2>3. \A t \in Threads : pc[t] = "user"
    BY Zenon DEF Init
  <2>4. written \in Seq(Bytes) /\ read \in Seq(Bytes) /\ undefined \in BOOLEAN
    BY <1>1, Zenon DEF Init
  <2> QED
    BY <2>1, <2>2, <2>3, <2>4, Zenon DEF Types
<1>3. Members(recv_wait_queue) = {} /\ Distinct(recv_wait_queue)
  BY DEF Init, Members, Distinct
<1>4. Waiting
  BY <1>3, MailboxAssumption, Zenon DEF Init, Waiting
<1>5. Order
  BY <1>1, Zenon DEF Init, Order, Woken, Threads
<1>6. Last /\ MessagesAreWhole
  BY <1>1 DEF Init, Last, MessagesAreWhole
<1> QED
  BY <1>2, <1>4, <1>5, <1>6, Zenon DEF IInv

(* A step that writes no byte keeps messages whole.                         *)
LEMMA BytesAlone ==
  ASSUME MessagesAreWhole, written' = written, waited \subseteq waited'
  PROVE  MessagesAreWhole'
  BY Zenon DEF MessagesAreWhole

(* wakeup_one: a thread at the head of the queue, if any, is blocked no more. *)
LEMMA WakeKeepsWaiting ==
  ASSUME Types, Waiting, WakeReceiver
  PROVE  /\ recv_wait_queue' \in Seq(Threads) /\ Distinct(recv_wait_queue')
         /\ Members(recv_wait_queue') \subseteq Members(recv_wait_queue)
         /\ status_block_cnt' \in [Threads -> {0, 1}]
         /\ \A t \in Threads : status_block_cnt'[t] =
                                  IF t \in Members(recv_wait_queue') THEN 1 ELSE 0
<1>1. CASE recv_wait_queue = <<>>
  BY <1>1, Zenon DEF WakeReceiver, Types, TypeOK, Waiting
<1>2. CASE recv_wait_queue # <<>>
  <2>1. recv_wait_queue \in Seq(Threads) /\ Distinct(recv_wait_queue)
    BY Zenon DEF Types, TypeOK, Waiting
  <2>2. /\ recv_wait_queue' = Tail(recv_wait_queue)
        /\ status_block_cnt' = [status_block_cnt EXCEPT ![Head(recv_wait_queue)] = @ - 1]
    BY <1>2, Zenon DEF WakeReceiver
  <2>3. /\ recv_wait_queue' \in Seq(Threads) /\ Distinct(recv_wait_queue')
        /\ Head(recv_wait_queue) \in Threads /\ Head(recv_wait_queue) \in Members(recv_wait_queue)
        /\ Members(recv_wait_queue') = Members(recv_wait_queue) \ {Head(recv_wait_queue)}
    BY <1>2, <2>1, <2>2, TailMembers, Zenon
  <2>4. status_block_cnt[Head(recv_wait_queue)] = 1
    BY <2>3, Zenon DEF Waiting
  <2>5. status_block_cnt' \in [Threads -> {0, 1}]
    BY <2>2, <2>3, <2>4 DEF Types, TypeOK
  <2>6. \A t \in Threads : status_block_cnt'[t] =
                             IF t \in Members(recv_wait_queue') THEN 1 ELSE 0
    BY <2>2, <2>3, <2>4 DEF Waiting, Types, TypeOK
  <2> QED
    BY <2>3, <2>5, <2>6, Zenon
<1> QED
  BY <1>1, <1>2, Zenon

(* Push by a sender that is in the loop, or alone with the lock. *)
LEMMA PushKeeps ==
  ASSUME IInv, NEW t \in Senders, Push(t), pc[t] # "user", length[t] >= 1,
         lock \in {t, Nobody}, lock' = t, pc' = [pc EXCEPT ![t] = "loop"],
         t \notin Members(recv_wait_queue), lock = t => pc[t] = "loop"
  PROVE  IInv'
<1> USE MailboxAssumption DEF IInv
<1>1. t \in Threads /\ Byte(t) \in Bytes /\ Byte(t) = <<t, calls[t], length[t]>>
  BY DEF Threads, Byte, Bytes, Types, TypeOK
<1>2. written \in Seq(Bytes) /\ msg_queue \in Seq(Bytes) /\ read \in Seq(Bytes)
  BY Zenon DEF Types, TypeOK, Bytes
<1>3. written' = Append(written, Byte(t)) /\ msg_queue' = Append(msg_queue, Byte(t)) /\ read' = read
  BY Zenon DEF Push
<1>4. /\ recv_wait_queue' \in Seq(Threads) /\ Distinct(recv_wait_queue')
      /\ Members(recv_wait_queue') \subseteq Members(recv_wait_queue)
      /\ status_block_cnt' \in [Threads -> {0, 1}]
      /\ \A u \in Threads : status_block_cnt'[u] =
                               IF u \in Members(recv_wait_queue') THEN 1 ELSE 0
  BY WakeKeepsWaiting, Zenon DEF Push
<1>5. /\ written' \in Seq(Bytes) /\ Len(written) \in Nat /\ Len(written') = Len(written) + 1
      /\ written'[Len(written) + 1] = Byte(t)
      /\ \A i \in 1..Len(written) : written'[i] = written[i]
      /\ msg_queue' \in Seq(Bytes) /\ msg_queue' # <<>>
  BY <1>1, <1>2, <1>3, AppendByte, ZenonT(60)
<1>6. Types'
  <2>1. length' \in [Threads -> Nat]
    BY <1>1 DEF Push, Types, TypeOK
  <2>2. TypeOK'
    BY <1>1, <1>4, <1>5, <2>1, Zenon DEF Push, Types, TypeOK, Bytes
  <2> QED
    BY <1>1, <1>3, <1>5, <2>2, Zenon DEF Push, Types, TypeOK
<1>7. Waiting'
  <2>1. \A u \in Threads : (lock = u <=> pc[u] = "loop")' 
    BY <1>1, Zenon DEF Waiting, Types, TypeOK
  <2>2. \A u \in Members(recv_wait_queue') : pc'[u] = "blocked"
    BY <1>1, <1>4 DEF Waiting, Types, TypeOK
  <2> QED
    BY <1>4, <2>1, <2>2, Zenon DEF Waiting, Push
<1>8. Order'
  <2>1. written' = read' \o msg_queue'
    BY <1>1, <1>2, <1>3, AppendOfConcat, Zenon DEF Order
  <2> QED
    BY <1>5, <2>1, Zenon DEF Order, Push, Woken
<1>9. Last'
  <2>1. written'[Len(written')] = <<t, calls'[t], length'[t] + 1>> /\ pc'[t] = "loop"
    <3>1. length[t] \in Nat /\ length'[t] = length[t] - 1 /\ calls' = calls
      BY <1>1, Zenon DEF Push, Types, TypeOK
    <3>2. length'[t] + 1 = length[t]
      BY <3>1
    <3>3. pc'[t] = "loop"
      BY <1>1, Zenon DEF Types, TypeOK
    <3> QED
      BY <1>1, <1>5, <3>1, <3>2, <3>3, Zenon
  <2> QED
    BY <2>1, Zenon DEF Last
<1>10. MessagesAreWhole'
  <2>0. waited' = waited
    BY Zenon DEF Push
  <2>1. SUFFICES ASSUME NEW i \in 1..(Len(written') - 1), written'[i][3] > 1,
                        After(written'[i]) \notin waited
                 PROVE  written'[i + 1] = After(written'[i])
    BY <2>0, Zenon DEF MessagesAreWhole, After
  <2>2. i \in 1..Len(written) /\ written'[i] = written[i]
    BY <1>5, <2>1
  <2>3. CASE i = Len(written)
    <3>0. 0 < Len(written) /\ written[Len(written)][3] > 1 /\ After(written[Len(written)]) \notin waited
      BY <2>1, <2>2, <2>3
    <3>1. PICK u \in Senders : pc[u] = "loop" /\ written[i] = <<u, calls[u], length[u] + 1>>
      BY <2>3, <3>0, Zenon DEF Last
    <3>2. u = t
      BY <3>1, Zenon DEF Waiting, Threads
    <3>3. length[t] \in Nat
      BY <1>1, Zenon DEF Types, TypeOK
    <3>4. After(written[i]) = <<t, calls[t], length[t]>>
      BY <3>1, <3>2, <3>3 DEF After
    <3> QED
      BY <1>1, <1>5, <2>2, <2>3, <3>4, Zenon
  <2>4. CASE i # Len(written)
    <3>1. i \in 1..(Len(written) - 1) /\ i + 1 \in 1..Len(written)
      BY <1>5, <2>2, <2>4
    <3>2. written[i + 1] = After(written[i])
      BY <2>1, <2>2, <3>1, Zenon DEF MessagesAreWhole, After
    <3> QED
      BY <1>5, <2>2, <3>1, <3>2, Zenon
  <2> QED
    BY <2>3, <2>4, Zenon
<1> QED
  BY <1>6, <1>7, <1>8, <1>9, <1>10, Zenon

(* Pop by a receiver with the lock.  With one receiver the queue is not     *)
(* empty; with several, the second part of Order says nothing.              *)
LEMMA PopKeeps ==
  ASSUME IInv, NEW t \in Receivers, Pop(t), pc[t] # "user", length[t] >= 1,
         lock \in {t, Nobody}, lock' = t, pc' = [pc EXCEPT ![t] = "loop"],
         t \notin Members(recv_wait_queue), lock = t => pc[t] = "loop",
         OneReceiver => msg_queue # <<>>
  PROVE  IInv'
<1> USE MailboxAssumption DEF IInv
<1>1. t \in Threads /\ t \notin Senders
  BY Zenon DEF Threads
<1>2. msg_queue \in Seq(Bytes) /\ read \in Seq(Bytes)
  BY Zenon DEF Types, TypeOK, Bytes
<1>3. /\ send_wait_queue' = <<>> /\ status_block_cnt' = status_block_cnt
      /\ recv_wait_queue' = recv_wait_queue /\ calls' = calls /\ written' = written
      /\ waited' = waited
  BY Zenon DEF Pop, Waiting
<1>4. /\ msg_queue' \in Seq(Bytes) /\ read' \in Seq(Bytes) /\ undefined' \in BOOLEAN
      /\ read' \o msg_queue' = read \o msg_queue
  <2>1. CASE msg_queue = <<>>
    BY <1>2, <2>1, Zenon DEF Pop
  <2>2. CASE msg_queue # <<>>
    BY <1>2, <2>2, MoveHead, Zenon DEF Pop, Types
  <2> QED
    BY <2>1, <2>2, Zenon
<1>5. Types'
  <2>1. length' \in [Threads -> Nat]
    BY <1>1 DEF Pop, Types, TypeOK
  <2>2. TypeOK'
    BY <1>1, <1>3, <1>4, <2>1, Zenon DEF Types, TypeOK, Bytes, Waiting
  <2>3. \A u \in Threads : u # t => length'[u] = length[u] /\ pc'[u] = pc[u]
    BY <1>1, Zenon DEF Pop, Types, TypeOK
  <2>4. pc'[t] = "loop"
    BY <1>1, Zenon DEF Types, TypeOK
  <2> QED
    BY <1>3, <1>4, <2>2, <2>3, <2>4, Zenon DEF Types
<1>6. Waiting'
  <2>1. \A u \in Threads : (lock = u <=> pc[u] = "loop")'
    BY <1>1, Zenon DEF Waiting, Types, TypeOK
  <2>2. \A u \in Members(recv_wait_queue) : pc'[u] = "blocked"
    BY <1>1 DEF Waiting, Types, TypeOK
  <2> QED
    BY <1>3, <2>1, <2>2, Zenon DEF Waiting
<1>7. Order'
  <2>1. ASSUME OneReceiver
        PROVE  ~undefined' /\ \A r \in Receivers : Woken(r)' => msg_queue' # <<>>
    <3>1. ~undefined'
      BY <2>1, Zenon DEF Pop, Order
    <3>2. \A r \in Receivers : r = t
      BY <2>1, Zenon DEF OneReceiver
    <3>3. ~Woken(t)'
      BY <1>1, Zenon DEF Woken, Types, TypeOK
    <3> QED
      BY <3>1, <3>2, <3>3, Zenon
  <2> QED
    BY <1>3, <1>4, <2>1, Zenon DEF Order, OneReceiver
<1>8. Last'
  <2>1. \A u \in Senders : pc[u] = "loop" => pc'[u] = "loop" /\ length'[u] = length[u]
    BY <1>1, Zenon DEF Pop, Types, TypeOK, Threads
  <2> QED
    BY <1>3, <2>1, Zenon DEF Last
<1>9. MessagesAreWhole'
  BY <1>3, BytesAlone, Zenon
<1> QED
  BY <1>5, <1>6, <1>7, <1>8, <1>9, Zenon

(* do_block in the loop.  A sender that blocks in the middle of a message   *)
(* waits for the byte that Last speaks of.                                  *)
LEMMA BlockKeeps ==
  ASSUME IInv, NEW t \in Threads, Block(t), pc[t] = "loop", length[t] >= 1,
         waited' = IF t \in Senders THEN waited \cup {Byte(t)} ELSE waited
  PROVE  IInv'
<1> USE MailboxAssumption DEF IInv
<1>1. lock = t /\ t \notin Members(recv_wait_queue) /\ status_block_cnt[t] = 0
  BY Zenon DEF Waiting
<1>2. recv_wait_queue \in Seq(Threads) /\ Distinct(recv_wait_queue)
  BY Zenon DEF Types, TypeOK, Waiting
<1>3. /\ recv_wait_queue' \in Seq(Threads) /\ Distinct(recv_wait_queue')
      /\ Members(recv_wait_queue') = Members(recv_wait_queue) \cup {t}
  BY <1>1, <1>2, AppendMembers DEF Block
<1>4. /\ pc' \in [Threads -> {"user", "lock", "loop", "blocked", "relock"}]
      /\ pc'[t] = "blocked" /\ \A u \in Threads : u # t => pc'[u] = pc[u]
  BY Zenon DEF Block, Goto, Types, TypeOK
<1>5. /\ status_block_cnt' \in [Threads -> {0, 1}]
      /\ status_block_cnt'[t] = 1
      /\ \A u \in Threads : u # t => status_block_cnt'[u] = status_block_cnt[u]
  BY <1>1 DEF Block, Types, TypeOK
<1>6. Types'
  <2>1. TypeOK'
    BY <1>3, <1>4, <1>5, Zenon DEF Block, Types, TypeOK
  <2> QED
    BY <1>4, <2>1, Zenon DEF Block, Types
<1>7. Waiting'
  <2>1. \A u \in Threads : (lock = u <=> pc[u] = "loop")'
    BY <1>1, <1>4, Zenon DEF Block, Waiting
  <2>2. \A u \in Members(recv_wait_queue') : pc'[u] = "blocked"
    <3>1. Members(recv_wait_queue) \subseteq Threads
      BY <1>2, LenProperties, ElementOfSeq DEF Members
    <3> QED
      BY <1>3, <1>4, <3>1, Zenon DEF Waiting
  <2> QED
    BY <1>3, <1>5, <2>1, <2>2, Zenon DEF Block, Waiting
<1>8. Order'
  <2>1. \A r \in Receivers : Woken(r)' => Woken(r)
    BY <1>3, <1>4, Zenon DEF Woken, Threads
  <2> QED
    BY <2>1, Zenon DEF Block, Order, OneReceiver
<1>9. Last'
  <2>0. waited \subseteq waited' /\ (t \in Senders => Byte(t) \in waited')
    BY Zenon
  <2>1. SUFFICES ASSUME 0 < Len(written), written[Len(written)][3] > 1
                 PROVE  \/ After(written[Len(written)]) \in waited'
                        \/ \E u \in Senders : pc'[u] = "loop" /\
                              written[Len(written)] = <<u, calls'[u], length'[u] + 1>>
    BY Zenon DEF Block, Last
  <2>2. CASE After(written[Len(written)]) \in waited
    BY <2>0, <2>2, Zenon
  <2>3. CASE After(written[Len(written)]) \notin waited
    <3>1. PICK u \in Senders : pc[u] = "loop" /\
                               written[Len(written)] = <<u, calls[u], length[u] + 1>>
      BY <2>1, <2>3, Zenon DEF Last
    <3>2. CASE u = t
      <4>1. length[t] \in Nat
        BY Zenon DEF Types, TypeOK
      <4>2. After(written[Len(written)]) = Byte(t)
        BY <3>1, <3>2, <4>1 DEF After, Byte
      <4> QED
        BY <2>0, <3>2, <4>2, Zenon
    <3>3. CASE u # t
      BY <1>4, <3>1, <3>3, Zenon DEF Threads, Block
    <3> QED
      BY <3>2, <3>3, Zenon
  <2> QED
    BY <2>2, <2>3, Zenon
<1>10. MessagesAreWhole'
  BY BytesAlone, Zenon DEF Block
<1> QED
  BY <1>6, <1>7, <1>8, <1>9, <1>10, Zenon

(* The steps that only move a thread along: the call, the lock, the return  *)
(* from do_block and the return to the caller.  None takes a message in     *)
(* progress out of the loop.                                                *)
LEMMA MoveKeeps ==
  ASSUME IInv, NEW t \in Threads, t \notin Members(recv_wait_queue),
         UNCHANGED <<msg_queue, send_wait_queue, recv_wait_queue, status_block_cnt,
                     written, read, undefined, waited>>,
         NEW label \in {"user", "lock", "loop", "relock"}, pc' = [pc EXCEPT ![t] = label],
         lock' \in Threads \cup {Nobody},
         \A u \in Threads : lock' = u <=> pc'[u] = "loop",
         calls' \in [Threads -> 0..Calls], length' \in [Threads -> Nat],
         \A u \in Threads : u # t => calls'[u] = calls[u] /\ length'[u] = length[u],
         label # "user" => calls'[t] >= 1,
         label = "relock" => length'[t] >= 1 /\ pc[t] = "blocked",
         pc[t] = "loop" => length[t] = 0
  PROVE  IInv'
<1> USE DEF IInv
<1>1. /\ pc' \in [Threads -> {"user", "lock", "loop", "blocked", "relock"}]
      /\ pc'[t] = label /\ \A u \in Threads : u # t => pc'[u] = pc[u]
  BY Zenon DEF Types, TypeOK
<1>2. Types'
  <2>1. TypeOK'
    BY <1>1, Zenon DEF Types, TypeOK
  <2> QED
    BY <1>1, <2>1, Zenon DEF Types
<1>3. Waiting'
  <2>1. Members(recv_wait_queue) \subseteq Threads
    BY LenProperties, ElementOfSeq DEF Members, Types, TypeOK
  <2>2. \A u \in Members(recv_wait_queue) : pc'[u] = "blocked"
    BY <1>1, <2>1, Zenon DEF Waiting
  <2> QED
    BY <2>2, Zenon DEF Waiting
<1>4. Order'
  <2>1. \A r \in Receivers : Woken(r)' => Woken(r)
    BY <1>1, Zenon DEF Woken, Threads
  <2> QED
    BY <2>1, Zenon DEF Order, OneReceiver
<1>5. Last'
  <2>1. SUFFICES ASSUME 0 < Len(written), written[Len(written)][3] > 1,
                        After(written[Len(written)]) \notin waited
                 PROVE  \E u \in Senders : pc'[u] = "loop" /\
                           written[Len(written)] = <<u, calls'[u], length'[u] + 1>>
    BY Zenon DEF Last
  <2>2. PICK u \in Senders : pc[u] = "loop" /\
                             written[Len(written)] = <<u, calls[u], length[u] + 1>>
    BY <2>1, Zenon DEF Last
  <2>3. u # t
    BY <2>1, <2>2
  <2> QED
    BY <1>1, <2>2, <2>3, Zenon DEF Threads
<1>6. MessagesAreWhole'
  BY BytesAlone, Zenon
<1> QED
  BY <1>2, <1>3, <1>4, <1>5, <1>6, Zenon

(* The inductive invariant is preserved by every step of the mailbox.       *)
LEMMA StepIInv == IInv /\ [Next]_vars => IInv'
<1> SUFFICES ASSUME IInv, [Next]_vars PROVE IInv'
  OBVIOUS
<1> USE MailboxAssumption
<1>1. ASSUME NEW t \in Threads, Call(t) PROVE IInv'
  <2>1. t \notin Members(recv_wait_queue) /\ lock # t
    BY <1>1, Zenon DEF Call, IInv, Waiting
  <2>2. calls' \in [Threads -> 0..Calls] /\ calls'[t] >= 1
    BY <1>1 DEF Call, IInv, Types
  <2>3. length' \in [Threads -> Nat]
    BY <1>1, Zenon DEF Call, IInv, Types, TypeOK
  <2>4. \A u \in Threads : u # t => calls'[u] = calls[u] /\ length'[u] = length[u]
    BY <1>1, Zenon DEF Call, IInv, Types, TypeOK
  <2>5. \A u \in Threads : lock' = u <=> pc'[u] = "loop"
    BY <1>1, <2>1, Zenon DEF Call, Goto, IInv, Waiting, Types, TypeOK
  <2>6. lock' \in Threads \cup {Nobody}
    BY <1>1, Zenon DEF Call, IInv, Types, TypeOK
  <2> QED
    BY <1>1, <2>1, <2>2, <2>3, <2>4, <2>5, <2>6, MoveKeeps, Zenon DEF Call, Goto
<1>2. ASSUME NEW t \in Threads, Lock(t) PROVE IInv'
  <2>1. t \notin Members(recv_wait_queue) /\ calls[t] >= 1
    BY <1>2, Zenon DEF Lock, IInv, Waiting, Types
  <2>2. calls \in [Threads -> 0..Calls] /\ length \in [Threads -> Nat]
    BY Zenon DEF IInv, Types, TypeOK
  <2>3. \A u \in Threads : lock' = u <=> pc'[u] = "loop"
    BY <1>2, Zenon DEF Lock, Goto, IInv, Waiting, Types, TypeOK
  <2> QED
    BY <1>2, <2>1, <2>2, <2>3, MoveKeeps, Zenon DEF Lock, Goto
<1>3. ASSUME NEW t \in Threads, SendByte(t) PROVE IInv'
  <2>1. pc[t] = "loop" /\ lock = t /\ t \notin Members(recv_wait_queue)
    BY <1>3, Zenon DEF SendByte, InLoop, IInv, Waiting
  <2>2. pc' = [pc EXCEPT ![t] = "loop"]
    BY <1>3, <2>1, Zenon DEF SendByte, IInv, Types, TypeOK
  <2>3. length[t] >= 1
    BY <1>3 DEF SendByte, InLoop, IInv, Types, TypeOK
  <2> QED
    BY <1>3, <2>1, <2>2, <2>3, PushKeeps, Zenon DEF SendByte
<1>4. ASSUME NEW t \in Threads, SendFull(t) PROVE IInv'
  <2>1. length[t] >= 1
    BY <1>4 DEF SendFull, InLoop, IInv, Types, TypeOK
  <2> QED
    BY <1>4, <2>1, BlockKeeps, Zenon DEF SendFull, InLoop
<1>5. ASSUME NEW t \in Threads, RecvByte(t) PROVE IInv'
  <2>1. pc[t] = "loop" /\ lock = t /\ t \notin Members(recv_wait_queue)
    BY <1>5, Zenon DEF RecvByte, InLoop, IInv, Waiting
  <2>2. pc' = [pc EXCEPT ![t] = "loop"]
    BY <1>5, <2>1, Zenon DEF RecvByte, IInv, Types, TypeOK
  <2>3. length[t] >= 1
    BY <1>5 DEF RecvByte, InLoop, IInv, Types, TypeOK
  <2> QED
    BY <1>5, <2>1, <2>2, <2>3, PopKeeps, Zenon DEF RecvByte
<1>6. ASSUME NEW t \in Threads, RecvEmpty(t) PROVE IInv'
  <2>1. length[t] >= 1 /\ t \notin Senders
    BY <1>6 DEF RecvEmpty, InLoop, IInv, Types, TypeOK
  <2> QED
    BY <1>6, <2>1, BlockKeeps, Zenon DEF RecvEmpty, InLoop
<1>7. ASSUME NEW t \in Threads, Resume(t) PROVE IInv'
  <2>1. t \notin Members(recv_wait_queue) /\ calls[t] >= 1 /\ length[t] >= 1
    BY <1>7 DEF Resume, IInv, Waiting, Types
  <2>2. /\ calls \in [Threads -> 0..Calls] /\ length \in [Threads -> Nat]
        /\ lock \in Threads \cup {Nobody}
    BY Zenon DEF IInv, Types, TypeOK
  <2>3. \A u \in Threads : lock' = u <=> pc'[u] = "loop"
    BY <1>7, Zenon DEF Resume, Goto, IInv, Waiting, Types, TypeOK
  <2> QED
    BY <1>7, <2>1, <2>2, <2>3, MoveKeeps, Zenon DEF Resume, Goto
<1>8. ASSUME NEW t \in Threads, Retry(t) PROVE IInv'
  <2>1. t \notin Members(recv_wait_queue) /\ lock # t /\ lock = Nobody
    BY <1>8, Zenon DEF Retry, IInv, Waiting
  <2>2. length[t] >= 1 /\ pc[t] = "relock" /\ pc' = [pc EXCEPT ![t] = "loop"] /\ lock' = t
    BY <1>8, Zenon DEF Retry, Goto, IInv, Types
  <2>3. CASE t \in Senders
    BY <1>8, <2>1, <2>2, <2>3, PushKeeps, Zenon DEF Retry
  <2>4. CASE t \notin Senders
    <3>1. t \in Receivers /\ (OneReceiver => msg_queue # <<>>)
      BY <2>2, <2>4, Zenon DEF Threads, IInv, Order, Woken
    <3> QED
      BY <1>8, <2>1, <2>2, <2>4, <3>1, PopKeeps, Zenon DEF Retry
  <2> QED
    BY <2>3, <2>4, Zenon
<1>9. ASSUME NEW t \in Threads, Return(t) PROVE IInv'
  <2>1. t \notin Members(recv_wait_queue) /\ lock = t
    BY <1>9, Zenon DEF Return, IInv, Waiting
  <2>2. calls \in [Threads -> 0..Calls] /\ length \in [Threads -> Nat]
    BY Zenon DEF IInv, Types, TypeOK
  <2>3. \A u \in Threads : lock' = u <=> pc'[u] = "loop"
    BY <1>9, <2>1, Zenon DEF Return, Goto, IInv, Waiting, Types, TypeOK
  <2> QED
    BY <1>9, <2>1, <2>2, <2>3, MoveKeeps, Zenon DEF Return, Goto
<1>10. CASE UNCHANGED vars
  BY <1>10, Zenon DEF vars, IInv, Types, TypeOK, Waiting, Order, OneReceiver, Woken, Last,
                      MessagesAreWhole
<1> QED
  BY <1>1, <1>2, <1>3, <1>4, <1>5, <1>6, <1>7, <1>8, <1>9, <1>10, Zenon DEF Next, KernelStep
-----------------------------------------------------------------------------
(* With one receiver every byte sent is received once and in order, and     *)
(* recv never takes a byte from an empty queue, whatever the capacity and   *)
(* however many senders block in the middle of a message: mailbox::recv     *)
(* does not test the queue again after do_block and need not, because the   *)
(* byte it was woken for is still there.                                    *)
THEOREM BytesArriveInOrder == Spec => [](OneReceiver => BytesInOrder)
<1>1. IInv => (OneReceiver => BytesInOrder)
  BY Zenon DEF IInv, Types, Order, BytesInOrder
<1> QED
  BY <1>1, InitIInv, StepIInv, PTL DEF Spec

(* For any number of senders and receivers, any lengths and any capacity,   *)
(* and however often the mailbox has been filled and drained, another       *)
(* message gets between two bytes of one only where its sender waited for   *)
(* room: mailbox::send keeps the lock from the first byte to the last       *)
(* unless it has to wait.                                                   *)
THEOREM MessagesStayWhole == Spec => []MessagesAreWhole
<1>1. IInv => MessagesAreWhole
  BY Zenon DEF IInv
<1> QED
  BY <1>1, InitIInv, StepIInv, PTL DEF Spec
==============================================================================
