---------------------------- MODULE NetworkProofs ----------------------------
(***************************************************************************)
(* The theorems about Network, for rings of any size, all threads and any  *)
(* number of CPUs: both rings keep the packets in order, and no sender     *)
(* sleeps with its interrupt masked.                                       *)
(***************************************************************************)
EXTENDS Network, TLAPS

(* Z3 gets half a minute, through either encoding; a leaf for Zenon says so. *)
USE SMTT(30), Z3T(30)

\* x % N, kept apart from the arithmetic the provers know.
Mod(x, N) == x % N

\* A ring of N descriptors holds in d, from head h up to tail t, the serial
\* numbers after next, up to last.
Ring(N, h, t, d, last, next) ==
    LET n == Mod(t - h, N)
    IN  /\ last = Mod(next + n, 2 * N)
        /\ \A i \in 0 .. n - 1 : d[Mod(h + i, N)] = Mod(next + 1 + i, 2 * N)

\* What e1000_poll would find in each descriptor of the receive ring.
Filled == [i \in 0 .. RXDESCS - 1 |-> IF rx.desc[i].DD THEN rx.desc[i].packet ELSE NoPacket]

\* A thread inside a call, and the packets its recv still wants.
Calls ==
    /\ pc \in [Threads -> Off \cup {"lock", "try", "full", "block"}]
    /\ want \in [Receivers -> Nat]
    /\ net_buffer_lock \in Threads \cup {"nobody"}
    /\ \A r \in Receivers : want[r] > 0 <=> pc[r] # "user"

\* The descriptors, their heads and tails, and the serial numbers.
RingTypes ==
    /\ tx \in [TDH : 0 .. TXDESCS - 1, TDT : 0 .. TXDESCS - 1,
               desc : [0 .. TXDESCS - 1 -> Int]]
    /\ rx \in [RDH : 0 .. RXDESCS - 1, RDT : 0 .. RXDESCS - 1,
               desc : [0 .. RXDESCS - 1 -> [packet : Int, DD : BOOLEAN]]]
    /\ sent \in 0 .. 2 * TXDESCS - 1 /\ wire \in 0 .. 2 * TXDESCS - 1
    /\ arrived \in 0 .. 2 * RXDESCS - 1 /\ taken \in 0 .. 2 * RXDESCS - 1

\* The interrupt causes and the handler.
Irqs ==
    /\ icr \subseteq Causes /\ ims \subseteq Causes /\ "RXDMT0" \in ims
    /\ irq \in [pc : {"idle", "icr", "ims", "rx", "tx", "wake", "complete"},
                cause : SUBSET Causes]

Shape == Calls /\ RingTypes /\ Irqs

\* The transmit ring and the receive ring, whose first full descriptor is NextRx.
Rings ==
    /\ Ring(TXDESCS, tx.TDH, tx.TDT, tx.desc, sent, wire)
    /\ Ring(RXDESCS, NextRx, rx.RDH, Filled, arrived, taken)

\* Who tries a ring has the lock, and a sender that is about to sleep is armed too.
Armed ==
    /\ \A t \in Threads : pc[t] \in {"try", "full", "block"} => net_buffer_lock = t
    /\ \A t \in Receivers : pc[t] # "full"
    /\ (\E s \in Senders : pc[s] \in {"block", "blocked"}) => "TXQE" \in ims \/ irq.pc = "wake"

IInv == Shape /\ Rings /\ Armed
-----------------------------------------------------------------------------
\* The remainder of a number that is less than one modulus away from the range.
LEMMA Remainder ==
    ASSUME NEW N \in Nat \ {0}, NEW x \in (1 - N) .. (2 * N - 1)
    PROVE  Mod(x, N) = IF x < 0 THEN x + N ELSE IF x < N THEN x ELSE x - N
<1>1. CASE x < 0
  BY <1>1, SMT DEF Mod
<1>2. CASE x \in 0 .. N - 1
  BY <1>2, SMT DEF Mod
<1>3. CASE x \in N .. 2 * N - 1
  BY <1>3, SMT DEF Mod
<1> QED
  BY <1>1, <1>2, <1>3

\* One more packet at the tail of a ring that is not full.
LEMMA RingPush ==
    ASSUME NEW N \in Nat \ {0}, NEW h \in 0 .. N - 1, NEW t \in 0 .. N - 1,
           NEW d, NEW e,
           NEW last \in 0 .. 2 * N - 1, NEW next \in 0 .. 2 * N - 1,
           Ring(N, h, t, d, last, next), Mod(t + 1, N) # h,
           \A k \in 0 .. N - 1 : e[k] = IF k = t THEN Mod(last + 1, 2 * N) ELSE d[k]
    PROVE  Ring(N, h, Mod(t + 1, N), e, Mod(last + 1, 2 * N), next)
<1> DEFINE n == Mod(t - h, N)
           u == Mod(t + 1, N)
           serial == Mod(last + 1, 2 * N)
<1>1. /\ n = IF t < h THEN t - h + N ELSE t - h
      /\ u = IF t + 1 = N THEN 0 ELSE t + 1
  BY Remainder
<1>2. n \in 0 .. N - 2 /\ u \in 0 .. N - 1
  BY <1>1
<1>3. Mod(u - h, N) = n + 1
  <2>1. u - h \in (1 - N) .. (2 * N - 1)
    BY <1>2
  <2>2. Mod(u - h, N) = IF u < h THEN u - h + N ELSE u - h
    BY <2>1, <1>2, Remainder
  <2> QED
    BY <2>2, <1>1
<1>4. last = Mod(next + n, 2 * N)
  BY Zenon DEF Ring
<1>5. serial = Mod(next + (n + 1), 2 * N)
  <2>1. 2 * N \in Nat \ {0}
    OBVIOUS
  <2>2. last = IF next + n < 2 * N THEN next + n ELSE next + n - 2 * N
    BY <1>2, <1>4, <2>1, Remainder
  <2>3. serial = IF last + 1 < 2 * N THEN last + 1 ELSE last + 1 - 2 * N
    BY <2>1, Remainder
  <2>4. Mod(next + (n + 1), 2 * N) =
           IF next + n + 1 < 2 * N THEN next + n + 1 ELSE next + n + 1 - 2 * N
    BY <1>2, <2>1, Remainder
  <2> QED
    BY <1>2, <2>2, <2>3, <2>4
<1>6. ASSUME NEW i \in 0 .. n
      PROVE  e[Mod(h + i, N)] = Mod(next + 1 + i, 2 * N)
  <2>1. Mod(h + i, N) = IF h + i < N THEN h + i ELSE h + i - N
    BY <1>2, Remainder
  <2>2. Mod(h + i, N) \in 0 .. N - 1
    BY <1>2, <2>1
  <2>3. CASE i = n
    <3>1. Mod(h + i, N) = t
      BY <1>1, <2>1, <2>3
    <3> QED
      BY <1>2, <1>5, <2>3, <3>1
  <2>4. CASE i # n
    <3>1. Mod(h + i, N) # t
      BY <1>1, <1>2, <2>1, <2>4
    <3>2. i \in 0 .. n - 1
      BY <1>2, <2>4
    <3>3. d[Mod(h + i, N)] = Mod(next + 1 + i, 2 * N)
      BY <3>2, Zenon DEF Ring
    <3> QED
      BY <2>2, <3>1, <3>3, Zenon
  <2> QED
    BY <2>3, <2>4, Zenon
<1>7. 0 .. (n + 1) - 1 = 0 .. n
  BY <1>2
<1> QED
  BY <1>3, <1>5, <1>6, <1>7, Zenon DEF Ring

\* The packet at the head leaves a ring that is not empty.
LEMMA RingPop ==
    ASSUME NEW N \in Nat \ {0}, NEW h \in 0 .. N - 1, NEW t \in 0 .. N - 1, NEW d,
           NEW last \in 0 .. 2 * N - 1, NEW next \in 0 .. 2 * N - 1,
           Ring(N, h, t, d, last, next), h # t
    PROVE  Ring(N, Mod(h + 1, N), t, d, last, Mod(next + 1, 2 * N))
<1> DEFINE n == Mod(t - h, N)
           g == Mod(h + 1, N)
           first == Mod(next + 1, 2 * N)
<1>1. /\ n = IF t < h THEN t - h + N ELSE t - h
      /\ g = IF h + 1 = N THEN 0 ELSE h + 1
  BY Remainder
<1>2. n \in 1 .. N - 1 /\ g \in 0 .. N - 1
  BY <1>1
<1>3. Mod(t - g, N) = n - 1
  <2>1. Mod(t - g, N) = IF t < g THEN t - g + N ELSE t - g
    BY <1>2, Remainder
  <2> QED
    BY <2>1, <1>1
<1>4. 2 * N \in Nat \ {0}
  OBVIOUS
<1>5. first = IF next + 1 < 2 * N THEN next + 1 ELSE 0
  BY <1>4, Remainder
<1>6. ASSUME NEW k \in 0 .. N
      PROVE  Mod(first + k, 2 * N) = Mod(next + 1 + k, 2 * N)
  <2>1. Mod(first + k, 2 * N) = IF first + k < 2 * N THEN first + k ELSE first + k - 2 * N
    BY <1>4, <1>5, Remainder
  <2>2. Mod(next + 1 + k, 2 * N) =
           IF next + 1 + k < 2 * N THEN next + 1 + k ELSE next + 1 + k - 2 * N
    BY <1>4, Remainder
  <2> QED
    BY <1>5, <2>1, <2>2
<1>7. last = Mod(first + (n - 1), 2 * N)
  <2>1. last = Mod(next + n, 2 * N) /\ next + 1 + (n - 1) = next + n /\ n - 1 \in 0 .. N
    BY <1>2 DEF Ring
  <2> QED
    BY <1>6, <2>1, Zenon
<1>8. ASSUME NEW i \in 0 .. (n - 1) - 1
      PROVE  d[Mod(g + i, N)] = Mod(first + 1 + i, 2 * N)
  <2>1. Mod(g + i, N) = Mod(h + (i + 1), N)
    <3>1. Mod(g + i, N) = IF g + i < N THEN g + i ELSE g + i - N
      BY <1>2, Remainder
    <3>2. Mod(h + (i + 1), N) = IF h + (i + 1) < N THEN h + (i + 1) ELSE h + (i + 1) - N
      BY <1>2, Remainder
    <3> QED
      BY <1>1, <1>2, <3>1, <3>2
  <2>2. d[Mod(h + (i + 1), N)] = Mod(next + 1 + (i + 1), 2 * N)
    <3>1. i + 1 \in 0 .. n - 1
      BY <1>2
    <3>2. \A k \in 0 .. n - 1 : d[Mod(h + k, N)] = Mod(next + 1 + k, 2 * N)
      BY Zenon DEF Ring
    <3> QED
      BY <3>1, <3>2, Zenon
  <2>3. Mod(first + (i + 1), 2 * N) = Mod(next + 1 + (i + 1), 2 * N)
    BY <1>2, <1>6
  <2>4. first + (i + 1) = first + 1 + i
    BY <1>2, <1>5
  <2> QED
    BY <2>1, <2>2, <2>3, <2>4, Zenon
<1> QED
  BY <1>3, <1>7, <1>8, Zenon DEF Ring

\* A remainder is in range.
LEMMA InRange ==
    ASSUME NEW N \in Nat \ {0}, NEW x \in Int
    PROVE  x % N \in 0 .. N - 1 /\ x % N \in Int
  OBVIOUS

\* The successor of an index is an index of the ring.
LEMMA NextInRange ==
    ASSUME NEW N \in Nat \ {0}, NEW x \in 0 .. N - 1
    PROVE  Mod(x + 1, N) \in 0 .. N - 1
  BY Remainder

\* The descriptor e1000_poll looks at next is one of the ring.
LEMMA NextRxType == Shape => NextRx \in 0 .. RXDESCS - 1
<1> SUFFICES ASSUME Shape PROVE NextRx \in 0 .. RXDESCS - 1
  OBVIOUS
<1>1. rx.RDT + 1 \in Int /\ RXDESCS \in Nat \ {0}
  BY NetworkAssumption DEF Shape, RingTypes
<1> QED
  BY <1>1, InRange, Zenon DEF NextRx
-----------------------------------------------------------------------------
\* The properties follow from the inductive invariant.
LEMMA IInvImplies == IInv => RingsKeepOrder /\ SleepingSenderIsArmed
<1> SUFFICES ASSUME IInv PROVE RingsKeepOrder /\ SleepingSenderIsArmed
  OBVIOUS
<1> USE NetworkAssumption
<1>1. TypeOK
  BY Zenon DEF IInv, Shape, Calls, RingTypes, Irqs, TypeOK
<1>2. SendsInOrder
  BY Zenon DEF IInv, Rings, Ring, Mod, SendsInOrder, TxSerial
<1>3. ReceivesInOrder
  <2> DEFINE n == (rx.RDH - NextRx) % RXDESCS
  <2>1. arrived = RxSerial(taken + n)
    BY Zenon DEF IInv, Rings, Ring, Mod, RxSerial
  <2>2. ASSUME NEW i \in 0 .. n - 1
        PROVE  /\ rx.desc[(NextRx + i) % RXDESCS].packet = RxSerial(taken + 1 + i)
               /\ rx.desc[(NextRx + i) % RXDESCS].DD
    <3>1. Filled[(NextRx + i) % RXDESCS] = RxSerial(taken + 1 + i)
      BY Zenon DEF IInv, Rings, Ring, Mod, RxSerial
    <3>2. NextRx + i \in Int /\ taken + 1 + i \in Int
      <4>1. NextRx \in 0 .. RXDESCS - 1
        BY NextRxType, Zenon DEF IInv
      <4>2. rx.RDH \in Int /\ taken \in Int
        BY DEF IInv, Shape, RingTypes
      <4>3. rx.RDH - NextRx \in Int
        BY <4>1, <4>2
      <4>4. n \in Int
        BY <4>3, InRange, Zenon
      <4> QED
        BY <4>1, <4>2, <4>4
    <3>3. (NextRx + i) % RXDESCS \in 0 .. RXDESCS - 1
      BY <3>2
    <3>4. RxSerial(taken + 1 + i) # NoPacket
      BY <3>2 DEF RxSerial, NoPacket
    <3> QED
      BY <3>1, <3>3, <3>4, Zenon DEF Filled
  <2> QED
    BY <2>1, <2>2, Zenon DEF ReceivesInOrder
<1>4. SleepingSenderIsArmed
  BY Zenon DEF IInv, Armed, SleepingSenderIsArmed
<1> QED
  BY <1>1, <1>2, <1>3, <1>4, Zenon DEF RingsKeepOrder

\* The inductive invariant holds after e1000_init.
LEMMA InitIInv == Init => IInv
<1> SUFFICES ASSUME Init PROVE IInv
  OBVIOUS
<1> USE NetworkAssumption
<1>1. Shape
  BY DEF Init, Shape, Calls, RingTypes, Irqs, Threads, Causes, Off, e1000_configure_tx, e1000_configure_rx,
         e1000_reset, NoPacket
<1>2. Ring(TXDESCS, tx.TDH, tx.TDT, tx.desc, sent, wire)
  <2>1. tx.TDH = 0 /\ tx.TDT = 0 /\ sent = 0 /\ wire = 0
    BY Zenon DEF Init, e1000_configure_tx
  <2>2. Mod(0 - 0, TXDESCS) = 0 /\ Mod(0 + 0, 2 * TXDESCS) = 0
    BY Remainder
  <2> QED
    BY <2>1, <2>2 DEF Ring
<1>3. Ring(RXDESCS, NextRx, rx.RDH, Filled, arrived, taken)
  <2>1. rx.RDH = 0 /\ rx.RDT = RXDESCS - 1 /\ arrived = 0 /\ taken = 0
    BY Zenon DEF Init, e1000_configure_rx
  <2>2. /\ Mod(0 - 0, RXDESCS) = 0 /\ Mod(0 + 0, 2 * RXDESCS) = 0
        /\ Mod((RXDESCS - 1) + 1, RXDESCS) = 0
    BY Remainder
  <2>3. NextRx = 0
    BY <2>1, <2>2, Zenon DEF NextRx, Mod
  <2> QED
    BY <2>1, <2>2, <2>3 DEF Ring
<1>4. Armed
  BY Zenon DEF Init, Armed, Threads
<1> QED
  BY <1>1, <1>2, <1>3, <1>4, Zenon DEF IInv, Rings

\* A step that leaves both rings alone keeps them in order.
LEMMA SameRings ==
    ASSUME RingTypes, Rings, UNCHANGED <<ring, serials>>
    PROVE  RingTypes' /\ Rings'
  BY Zenon DEF RingTypes, Rings, ring, serials, NextRx, Filled

\* e1000_transmit adds a packet to the transmit ring ...
LEMMA TransmitRing ==
    ASSUME IInv, NEW t \in Threads, e1000_transmit(t)
    PROVE  RingTypes' /\ Rings'
<1> USE NetworkAssumption
<1>1. Mod(tx.TDT + 1, TXDESCS) # tx.TDH
  BY Zenon DEF e1000_transmit, TxFull, Mod
<1>2. /\ tx.TDH \in 0 .. TXDESCS - 1 /\ tx.TDT \in 0 .. TXDESCS - 1
      /\ tx.desc \in [0 .. TXDESCS - 1 -> Int]
      /\ sent \in 0 .. 2 * TXDESCS - 1 /\ wire \in 0 .. 2 * TXDESCS - 1
  BY Zenon DEF IInv, Shape, RingTypes
<1>3. /\ tx'.TDH = tx.TDH /\ tx'.TDT = Mod(tx.TDT + 1, TXDESCS)
      /\ tx'.desc = [tx.desc EXCEPT ![tx.TDT] = Mod(sent + 1, 2 * TXDESCS)]
      /\ sent' = Mod(sent + 1, 2 * TXDESCS) /\ wire' = wire
  BY Zenon DEF e1000_transmit, TxSerial, Mod, IInv, Shape, RingTypes
<1>4. \A k \in 0 .. TXDESCS - 1 :
         tx'.desc[k] = IF k = tx.TDT THEN Mod(sent + 1, 2 * TXDESCS) ELSE tx.desc[k]
  BY <1>2, <1>3, Zenon
<1>5. Ring(TXDESCS, tx.TDH, tx.TDT, tx.desc, sent, wire)
  BY Zenon DEF IInv, Rings
<1>6. Ring(TXDESCS, tx.TDH, Mod(tx.TDT + 1, TXDESCS), tx'.desc, Mod(sent + 1, 2 * TXDESCS), wire)
  BY <1>1, <1>2, <1>4, <1>5, RingPush, Zenon
<1>7. Ring(RXDESCS, NextRx, rx.RDH, Filled, arrived, taken)'
  BY Zenon DEF e1000_transmit, IInv, Rings, NextRx, Filled
<1>8. RingTypes'
  <2>1. tx'.TDT \in 0 .. TXDESCS - 1
    <3>1. tx.TDT \in 0 .. TXDESCS - 1
      BY <1>2, Zenon
    <3> QED
      BY <1>3, <3>1, NextInRange
  <2>2. sent' \in 0 .. 2 * TXDESCS - 1
    <3>1. sent \in 0 .. 2 * TXDESCS - 1 /\ 2 * TXDESCS \in Nat \ {0}
      BY <1>2
    <3> QED
      BY <1>3, <3>1, NextInRange, Zenon
  <2>3. tx'.desc \in [0 .. TXDESCS - 1 -> Int]
    BY <1>2, <1>3, <2>2
  <2>4. tx' = [TDH |-> tx'.TDH, TDT |-> tx'.TDT, desc |-> tx'.desc]
    BY Zenon DEF e1000_transmit, IInv, Shape, RingTypes
  <2>5. tx' \in [TDH : 0 .. TXDESCS - 1, TDT : 0 .. TXDESCS - 1,
                 desc : [0 .. TXDESCS - 1 -> Int]]
    BY <1>2, <1>3, <2>1, <2>3, <2>4, Zenon
  <2> QED
    BY <2>2, <2>5, Zenon DEF IInv, Shape, RingTypes, e1000_transmit
<1> QED
  BY <1>3, <1>6, <1>7, <1>8, Zenon DEF Rings

\* ... and the card takes one.
LEMMA CardSendsRing ==
    ASSUME IInv, CardSends
    PROVE  RingTypes' /\ Rings'
<1> USE NetworkAssumption
<1>1. /\ tx.TDH \in 0 .. TXDESCS - 1 /\ tx.TDT \in 0 .. TXDESCS - 1 /\ tx.TDH # tx.TDT
      /\ sent \in 0 .. 2 * TXDESCS - 1 /\ wire \in 0 .. 2 * TXDESCS - 1
  BY Zenon DEF IInv, Shape, RingTypes, CardSends
<1>2. /\ tx'.TDH = Mod(tx.TDH + 1, TXDESCS) /\ tx'.TDT = tx.TDT /\ tx'.desc = tx.desc
      /\ sent' = sent /\ wire' = Mod(wire + 1, 2 * TXDESCS)
  BY Zenon DEF CardSends, TxSerial, Mod, IInv, Shape, RingTypes
<1>3. Ring(TXDESCS, tx.TDH, tx.TDT, tx.desc, sent, wire)
  BY Zenon DEF IInv, Rings
<1>4. Ring(TXDESCS, Mod(tx.TDH + 1, TXDESCS), tx.TDT, tx.desc, sent, Mod(wire + 1, 2 * TXDESCS))
  BY <1>1, <1>3, RingPop, Zenon
<1>5. Ring(RXDESCS, NextRx, rx.RDH, Filled, arrived, taken)'
  BY Zenon DEF CardSends, IInv, Rings, NextRx, Filled
<1>6. RingTypes'
  <2>1. Mod(tx.TDH + 1, TXDESCS) \in 0 .. TXDESCS - 1
    <3>1. TXDESCS \in Nat \ {0} /\ tx.TDH + 1 \in Int
      BY <1>1
    <3> QED
      BY <3>1, InRange, Zenon DEF Mod
  <2>2. Mod(wire + 1, 2 * TXDESCS) \in 0 .. 2 * TXDESCS - 1
    <3>1. 2 * TXDESCS \in Nat \ {0} /\ wire + 1 \in Int
      BY <1>1
    <3> QED
      BY <3>1, InRange, Zenon DEF Mod
  <2> QED
    BY <2>1, <2>2, Zenon DEF IInv, Shape, RingTypes, CardSends, TxSerial, Mod
<1> QED
  BY <1>2, <1>4, <1>5, <1>6, Zenon DEF Rings

\* e1000_poll takes a packet from the receive ring ...
LEMMA PollRing ==
    ASSUME IInv, NEW t \in Threads, e1000_poll(t)
    PROVE  RingTypes' /\ Rings'
<1> USE NetworkAssumption
<1>1. NextRx \in 0 .. RXDESCS - 1 /\ NextRx # rx.RDH
  BY NextRxType, Zenon DEF IInv, e1000_poll, Polled
<1>2. /\ rx.RDH \in 0 .. RXDESCS - 1
      /\ arrived \in 0 .. 2 * RXDESCS - 1 /\ taken \in 0 .. 2 * RXDESCS - 1
  BY Zenon DEF IInv, Shape, RingTypes
<1>3. /\ rx'.RDH = rx.RDH /\ rx'.RDT = NextRx /\ rx'.desc = rx.desc
      /\ arrived' = arrived /\ taken' = Mod(taken + 1, 2 * RXDESCS)
  BY Zenon DEF e1000_poll, RxSerial, Mod, IInv, Shape, RingTypes
<1>4. NextRx' = Mod(NextRx + 1, RXDESCS) /\ Filled' = Filled
  BY <1>3, Zenon DEF NextRx, Filled, Mod
<1>5. Ring(RXDESCS, NextRx, rx.RDH, Filled, arrived, taken)
  BY Zenon DEF IInv, Rings
<1>6. Ring(RXDESCS, Mod(NextRx + 1, RXDESCS), rx.RDH, Filled, arrived, Mod(taken + 1, 2 * RXDESCS))
  BY <1>1, <1>2, <1>5, RingPop, Zenon
<1>7. Ring(TXDESCS, tx.TDH, tx.TDT, tx.desc, sent, wire)'
  BY Zenon DEF e1000_poll, IInv, Rings
<1>8. RingTypes'
  <2>1. Mod(taken + 1, 2 * RXDESCS) \in 0 .. 2 * RXDESCS - 1
    BY <1>2, InRange DEF Mod
  <2> QED
    BY <1>1, <2>1, Zenon DEF IInv, Shape, RingTypes, e1000_poll, RxSerial, Mod
<1> QED
  BY <1>3, <1>4, <1>6, <1>7, <1>8, Zenon DEF Rings

\* ... and the card adds one: RDH and RDT differ, so the descriptor after RDH is not NextRx.
LEMMA CardReceivesRing ==
    ASSUME IInv, CardReceives
    PROVE  RingTypes' /\ Rings'
<1> USE NetworkAssumption
<1> DEFINE serial == Mod(arrived + 1, 2 * RXDESCS)
<1>1. /\ rx.RDH \in 0 .. RXDESCS - 1 /\ rx.RDT \in 0 .. RXDESCS - 1
      /\ rx.desc \in [0 .. RXDESCS - 1 -> [packet : Int, DD : BOOLEAN]]
      /\ arrived \in 0 .. 2 * RXDESCS - 1 /\ taken \in 0 .. 2 * RXDESCS - 1
  BY Zenon DEF IInv, Shape, RingTypes
<1>2. rx.RDH # rx.RDT
  BY Zenon DEF CardReceives
<1>3. NextRx \in 0 .. RXDESCS - 1
  BY NextRxType, Zenon DEF IInv
<1>4. Mod(rx.RDH + 1, RXDESCS) # NextRx
  <2>1. NextRx = Mod(rx.RDT + 1, RXDESCS)
    BY Zenon DEF NextRx, Mod
  <2>2. /\ NextRx = IF rx.RDT + 1 < RXDESCS THEN rx.RDT + 1 ELSE 0
        /\ Mod(rx.RDH + 1, RXDESCS) = IF rx.RDH + 1 < RXDESCS THEN rx.RDH + 1 ELSE 0
    BY <1>1, <2>1, Remainder
  <2> QED
    BY <1>1, <1>2, <2>2
<1>5. /\ rx'.RDH = Mod(rx.RDH + 1, RXDESCS) /\ rx'.RDT = rx.RDT
      /\ rx'.desc = [rx.desc EXCEPT ![rx.RDH] = [packet |-> serial, DD |-> TRUE]]
      /\ arrived' = serial /\ taken' = taken
  BY Zenon DEF CardReceives, RxSerial, Mod, IInv, Shape, RingTypes
<1>6. NextRx' = NextRx
  BY <1>5, Zenon DEF NextRx
<1>7. \A k \in 0 .. RXDESCS - 1 : Filled'[k] = IF k = rx.RDH THEN serial ELSE Filled[k]
  BY <1>1, <1>5 DEF Filled
<1>8. Ring(RXDESCS, NextRx, rx.RDH, Filled, arrived, taken)
  BY Zenon DEF IInv, Rings
<1>9. Ring(RXDESCS, NextRx, Mod(rx.RDH + 1, RXDESCS), Filled', serial, taken)
  BY <1>1, <1>3, <1>4, <1>7, <1>8, RingPush, Zenon
<1>10. Ring(TXDESCS, tx.TDH, tx.TDT, tx.desc, sent, wire)'
  BY Zenon DEF CardReceives, IInv, Rings
<1>11. RingTypes'
  <2>1. rx'.RDH \in 0 .. RXDESCS - 1
    <3>1. rx.RDH \in 0 .. RXDESCS - 1
      BY <1>1, Zenon
    <3> QED
      BY <1>5, <3>1, NextInRange
  <2>2. serial \in 0 .. 2 * RXDESCS - 1
    <3>1. arrived \in 0 .. 2 * RXDESCS - 1 /\ 2 * RXDESCS \in Nat \ {0}
      BY <1>1
    <3> QED
      BY <3>1, NextInRange, Zenon
  <2>3. rx'.desc \in [0 .. RXDESCS - 1 -> [packet : Int, DD : BOOLEAN]]
    BY <1>1, <1>5, <2>2
  <2>4. rx' = [RDH |-> rx'.RDH, RDT |-> rx'.RDT, desc |-> rx'.desc]
    BY Zenon DEF CardReceives, IInv, Shape, RingTypes
  <2>5. rx' \in [RDH : 0 .. RXDESCS - 1, RDT : 0 .. RXDESCS - 1,
                 desc : [0 .. RXDESCS - 1 -> [packet : Int, DD : BOOLEAN]]]
    BY <1>1, <1>5, <2>1, <2>3, <2>4, Zenon
  <2> QED
    BY <1>5, <2>2, <2>5, Zenon DEF IInv, Shape, RingTypes, CardReceives
<1> QED
  BY <1>5, <1>6, <1>9, <1>10, <1>11, Zenon DEF Rings

-----------------------------------------------------------------------------
\* Every action keeps the inductive invariant.
LEMMA StepIInv == IInv /\ [Next]_vars => IInv'
<1> SUFFICES ASSUME IInv, [Next]_vars PROVE IInv'
  OBVIOUS
<1> USE NetworkAssumption DEF IInv, Shape
<1>1. ASSUME NEW t \in Threads, Call(t) PROVE IInv'
  <2>1. Calls'
    BY <1>1 DEF Calls, Threads, Call, Go, Off
  <2>2. RingTypes' /\ Rings'
    BY <1>1, SameRings, Zenon DEF Call
  <2>3. Irqs'
    BY <1>1, Zenon DEF Irqs, Call, Go, Off
  <2>4. Armed'
    BY <1>1, Zenon DEF Armed, Calls, Irqs, Threads, Call, Go, Off
  <2> QED
    BY <2>1, <2>2, <2>3, <2>4, Zenon
<1>2. ASSUME NEW t \in Threads, Resume(t) PROVE IInv'
  <2>1. Calls'
    BY <1>2, Zenon DEF Calls, Threads, Resume, Go, Off
  <2>2. RingTypes' /\ Rings'
    BY <1>2, SameRings, Zenon DEF Resume
  <2>3. Irqs'
    BY <1>2, Zenon DEF Irqs, Resume, Go, Off
  <2>4. Armed'
    BY <1>2, Zenon DEF Armed, Calls, Irqs, Threads, Resume, Go, Off
  <2> QED
    BY <2>1, <2>2, <2>3, <2>4, Zenon
<1>3. ASSUME NEW t \in Threads, Lock(t) PROVE IInv'
  <2>1. Calls'
    BY <1>3, Zenon DEF Calls, Threads, Lock, Go, Off
  <2>2. RingTypes' /\ Rings'
    BY <1>3, SameRings, Zenon DEF Lock
  <2>3. Irqs'
    BY <1>3, Zenon DEF Irqs, Lock, Go, Off
  <2>4. Armed'
    BY <1>3, Zenon DEF Armed, Calls, Irqs, Threads, Lock, Go, Off
  <2> QED
    BY <2>1, <2>2, <2>3, <2>4, Zenon
<1>4. ASSUME NEW t \in Threads, e1000_transmit(t) PROVE IInv'
  <2>1. Calls'
    BY <1>4, Zenon DEF Calls, Threads, e1000_transmit, Go, Release, Off
  <2>2. RingTypes' /\ Rings'
    BY <1>4, TransmitRing, Zenon
  <2>3. Irqs'
    BY <1>4, Zenon DEF Irqs, e1000_transmit, Go, Release, Off
  <2>4. Armed'
    BY <1>4, Zenon DEF Armed, Calls, Irqs, Threads, e1000_transmit, Go, Release, Off
  <2> QED
    BY <2>1, <2>2, <2>3, <2>4, Zenon
<1>5. ASSUME NEW t \in Threads, SendFull(t) PROVE IInv'
  <2>1. Calls'
    BY <1>5, Zenon DEF Calls, Threads, SendFull, Go, Off
  <2>2. RingTypes' /\ Rings'
    BY <1>5, SameRings, Zenon DEF SendFull
  <2>3. Irqs'
    BY <1>5, Zenon DEF Irqs, SendFull, Go, Off
  <2>4. Armed'
    BY <1>5, Zenon DEF Armed, Calls, Irqs, Threads, SendFull, Go, Off
  <2> QED
    BY <2>1, <2>2, <2>3, <2>4, Zenon
<1>6. ASSUME NEW t \in Threads, EnableTXQE(t) PROVE IInv'
  <2>1. Calls'
    BY <1>6, Zenon DEF Calls, Threads, EnableTXQE, Go, Off, Causes
  <2>2. RingTypes' /\ Rings'
    BY <1>6, SameRings, Zenon DEF EnableTXQE
  <2>3. Irqs'
    BY <1>6, Zenon DEF Irqs, EnableTXQE, Go, Off, Causes
  <2>4. Armed'
    BY <1>6, Zenon DEF Armed, Calls, Irqs, Threads, EnableTXQE, Go, Off, Causes
  <2> QED
    BY <2>1, <2>2, <2>3, <2>4, Zenon
<1>7. ASSUME NEW t \in Threads, do_block(t) PROVE IInv'
  <2>1. Calls'
    BY <1>7, Zenon DEF Calls, Threads, do_block, Go, Release, Off
  <2>2. RingTypes' /\ Rings'
    BY <1>7, SameRings, Zenon DEF do_block
  <2>3. Irqs'
    BY <1>7, Zenon DEF Irqs, do_block, Go, Release, Off
  <2>4. Armed'
    BY <1>7, Zenon DEF Armed, Calls, Irqs, Threads, do_block, Go, Release, Off
  <2> QED
    BY <2>1, <2>2, <2>3, <2>4, Zenon
<1>8. ASSUME NEW t \in Threads, e1000_poll(t) PROVE IInv'
  <2>1. Calls'
    BY <1>8 DEF Calls, Threads, e1000_poll, Go, Release, Off
  <2>2. RingTypes' /\ Rings'
    BY <1>8, PollRing, Zenon
  <2>3. Irqs'
    BY <1>8, Zenon DEF Irqs, e1000_poll, Go, Release, Off
  <2>4. Armed'
    BY <1>8, Zenon DEF Armed, Calls, Irqs, Threads, e1000_poll, Go, Release, Off
  <2> QED
    BY <2>1, <2>2, <2>3, <2>4, Zenon
<1>9. ASSUME NEW t \in Threads, RecvEmpty(t) PROVE IInv'
  <2>1. Calls'
    BY <1>9, Zenon DEF Calls, Threads, RecvEmpty, Go, Off
  <2>2. RingTypes' /\ Rings'
    BY <1>9, SameRings, Zenon DEF RecvEmpty
  <2>3. Irqs'
    BY <1>9, Zenon DEF Irqs, RecvEmpty, Go, Off
  <2>4. Armed'
    BY <1>9, Zenon DEF Armed, Calls, Irqs, Threads, RecvEmpty, Go, Off
  <2> QED
    BY <2>1, <2>2, <2>3, <2>4, Zenon
<1>10. CASE net_idle_check
  <2>1. Calls'
    BY <1>10, Zenon DEF Calls, Threads, net_idle_check, wakeup_all, Off
  <2>2. RingTypes' /\ Rings'
    BY <1>10, SameRings, Zenon DEF net_idle_check
  <2>3. Irqs'
    BY <1>10, Zenon DEF Irqs, net_idle_check, wakeup_all, Off
  <2>4. Armed'
    BY <1>10, Zenon DEF Armed, Calls, Irqs, Threads, net_idle_check, wakeup_all, Off
  <2> QED
    BY <2>1, <2>2, <2>3, <2>4, Zenon
<1>11. CASE plic_claim
  <2>1. Calls'
    BY <1>11, Zenon DEF Calls, Threads, plic_claim, IrqGo, Causes
  <2>2. RingTypes' /\ Rings'
    BY <1>11, SameRings, Zenon DEF plic_claim
  <2>3. Irqs'
    BY <1>11, Zenon DEF Irqs, plic_claim, IrqGo, Causes
  <2>4. Armed'
    BY <1>11, Zenon DEF Armed, Calls, Irqs, Threads, plic_claim, IrqGo, Causes
  <2> QED
    BY <2>1, <2>2, <2>3, <2>4, Zenon
<1>12. CASE ReadICR
  <2>1. Calls'
    BY <1>12, Zenon DEF Calls, Threads, ReadICR, Causes
  <2>2. RingTypes' /\ Rings'
    BY <1>12, SameRings, Zenon DEF ReadICR
  <2>3. Irqs'
    BY <1>12, Zenon DEF Irqs, ReadICR, Causes
  <2>4. Armed'
    BY <1>12, Zenon DEF Armed, Calls, Irqs, Threads, ReadICR, Causes
  <2> QED
    BY <2>1, <2>2, <2>3, <2>4, Zenon
<1>13. CASE ReadIMS
  <2>1. Calls'
    BY <1>13, Zenon DEF Calls, Threads, ReadIMS, Causes
  <2>2. RingTypes' /\ Rings'
    BY <1>13, SameRings, Zenon DEF ReadIMS
  <2>3. Irqs'
    BY <1>13, Zenon DEF Irqs, ReadIMS, Causes
  <2>4. Armed'
    BY <1>13, Zenon DEF Armed, Calls, Irqs, Threads, ReadIMS, Causes
  <2> QED
    BY <2>1, <2>2, <2>3, <2>4, Zenon
<1>14. CASE WakeReceivers
  <2>1. Calls'
    BY <1>14, Zenon DEF Calls, Threads, WakeReceivers, IrqGo, wakeup_all, Off
  <2>2. RingTypes' /\ Rings'
    BY <1>14, SameRings, Zenon DEF WakeReceivers
  <2>3. Irqs'
    BY <1>14, Zenon DEF Irqs, WakeReceivers, IrqGo, wakeup_all, Off
  <2>4. Armed'
    BY <1>14 DEF Armed, Calls, Irqs, Threads, WakeReceivers, IrqGo, wakeup_all, Off
  <2> QED
    BY <2>1, <2>2, <2>3, <2>4, Zenon
<1>15. CASE MaskTXQE
  <2>1. Calls'
    BY <1>15, Zenon DEF Calls, Threads, MaskTXQE, IrqGo, Causes
  <2>2. RingTypes' /\ Rings'
    BY <1>15, SameRings, Zenon DEF MaskTXQE
  <2>3. Irqs'
    BY <1>15, Zenon DEF Irqs, MaskTXQE, IrqGo, Causes
  <2>4. Armed'
    BY <1>15, Zenon DEF Armed, Calls, Irqs, Threads, MaskTXQE, IrqGo, Causes
  <2> QED
    BY <2>1, <2>2, <2>3, <2>4, Zenon
<1>16. CASE WakeSenders
  <2>1. Calls'
    BY <1>16, Zenon DEF Calls, Threads, WakeSenders, IrqGo, wakeup_all, Off
  <2>2. RingTypes' /\ Rings'
    BY <1>16, SameRings, Zenon DEF WakeSenders
  <2>3. Irqs'
    BY <1>16, Zenon DEF Irqs, WakeSenders, IrqGo, wakeup_all, Off
  <2>4. Armed'
    BY <1>16, Zenon DEF Armed, Calls, Irqs, Threads, WakeSenders, IrqGo, wakeup_all, Off
  <2> QED
    BY <2>1, <2>2, <2>3, <2>4, Zenon
<1>17. CASE plic_complete
  <2>1. Calls'
    BY <1>17, Zenon DEF Calls, Threads, plic_complete, Causes
  <2>2. RingTypes' /\ Rings'
    BY <1>17, SameRings, Zenon DEF plic_complete
  <2>3. Irqs'
    BY <1>17, Zenon DEF Irqs, plic_complete, Causes
  <2>4. Armed'
    BY <1>17, Zenon DEF Armed, Calls, Irqs, Threads, plic_complete, Causes
  <2> QED
    BY <2>1, <2>2, <2>3, <2>4, Zenon
<1>18. CASE CardSends
  <2>1. Calls'
    BY <1>18, Zenon DEF Calls, Threads, CardSends, Causes
  <2>2. RingTypes' /\ Rings'
    BY <1>18, CardSendsRing, Zenon
  <2>3. Irqs'
    BY <1>18, Zenon DEF Irqs, CardSends, Causes
  <2>4. Armed'
    BY <1>18, Zenon DEF Armed, Calls, Irqs, Threads, CardSends, Causes
  <2> QED
    BY <2>1, <2>2, <2>3, <2>4, Zenon
<1>19. CASE CardReceives
  <2>1. Calls'
    BY <1>19, Zenon DEF Calls, Threads, CardReceives, Causes
  <2>2. RingTypes' /\ Rings'
    BY <1>19, CardReceivesRing, Zenon
  <2>3. Irqs'
    BY <1>19, Zenon DEF Irqs, CardReceives, Causes
  <2>4. Armed'
    BY <1>19, Zenon DEF Armed, Calls, Irqs, Threads, CardReceives, Causes
  <2> QED
    BY <2>1, <2>2, <2>3, <2>4, Zenon
<1>20. CASE UNCHANGED vars
  <2>1. RingTypes' /\ Rings'
    BY <1>20, SameRings, Zenon DEF vars, ring, serials
  <2> QED
    BY <1>20, <2>1, Zenon DEF Calls, Irqs, Armed, vars
<1> QED
  BY <1>1, <1>2, <1>3, <1>4, <1>5, <1>6, <1>7, <1>8, <1>9, <1>10, <1>11,
     <1>12, <1>13, <1>14, <1>15, <1>16, <1>17, <1>18, <1>19, <1>20, ZenonT(60)
     DEF Next, ThreadStep, IrqStep

\* The inductive invariant holds in every behaviour of the network code.
THEOREM Safety == Spec => []IInv
<1>1. Init => IInv
  BY InitIInv, Zenon
<1>2. IInv /\ [Next]_vars => IInv'
  BY StepIInv, Zenon
<1> QED
  BY <1>1, <1>2, PTL DEF Spec

\* The packets keep their order in both rings, for any size of the rings: none is
\* overwritten, lost or delivered twice where head and tail wrap around
\* (e1000_transmit, e1000_poll).
THEOREM PacketsKeepOrder == Spec => []RingsKeepOrder
<1>1. IInv => RingsKeepOrder
  BY IInvImplies, Zenon
<1> QED
  BY <1>1, Safety, PTL

\* On any number of CPUs a sender that sleeps has TXQE enabled, or the handler that
\* masked it is about to wake it (sys_net_send, handle_e1000_irq).
THEOREM NoSenderIsForgotten == Spec => []SleepingSenderIsArmed
<1>1. IInv => SleepingSenderIsArmed
  BY IInvImplies, Zenon
<1> QED
  BY <1>1, Safety, PTL
==============================================================================
