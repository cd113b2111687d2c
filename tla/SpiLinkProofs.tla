--------------------------- MODULE SpiLinkProofs ---------------------------
(***************************************************************************)
(* Theorems about SpiLink, for every size of the queues and every bound.   *)
(***************************************************************************)
EXTENDS SpiLink, SequenceTheorems, FiniteSetTheorems, TLAPS

----------------------------------------------------------------------------
(* Lemmas.                                                                 *)

\* Every kind of frame has a priority, and no frame is the absent frame.
LEMMA FrameFacts ==
    /\ \A kind : Prio(kind) \in Prios
    /\ NoFrame \notin Frames
    /\ MaxFrames \in Nat /\ MaxRx \in Nat /\ TxMax \in Nat
BY BoundsAssumption DEF Prio, Prios, NoFrame, Frames

\* The frame a side sends next is a frame.
LEMMA NextFrame ==
    ASSUME NEW kind \in TxKinds \cup {"boot"}, NEW n \in Nat,
           n < MaxFrames \/ n < MaxRx
    PROVE  [kind |-> kind, id |-> n + 1] \in Frames
BY FrameFacts DEF Frames

\* Queueing keeps the types of the queues and lengthens one of them by one.
LEMMA EnqueueFacts ==
    ASSUME NEW q \in [Prios -> Seq(Frames)], NEW frame \in Frames
    PROVE  /\ Enqueue(q, frame) \in [Prios -> Seq(Frames)]
           /\ Len(Enqueue(q, frame)[PRIO_Q_HIGH]) + Len(Enqueue(q, frame)[PRIO_Q_MID])
                + Len(Enqueue(q, frame)[PRIO_Q_LOW])
              = Len(q[PRIO_Q_HIGH]) + Len(q[PRIO_Q_MID]) + Len(q[PRIO_Q_LOW]) + 1
<1> DEFINE p == Prio(frame.kind)
           r == Append(q[p], frame)
<1>1. p \in Prios
  BY FrameFacts
<1>2. r \in Seq(Frames) /\ Len(r) = Len(q[p]) + 1
  BY <1>1, AppendProperties
<1>3. Enqueue(q, frame) = [q EXCEPT ![p] = r]
  BY <1>1 DEF Enqueue
<1>4. \A x \in Prios : Len(q[x]) \in Nat
  BY LenProperties
<1> HIDE DEF p, r
<1>5. Enqueue(q, frame) \in [Prios -> Seq(Frames)]
  BY <1>1, <1>2, <1>3
<1>6. \A x \in Prios :
         Len(Enqueue(q, frame)[x]) = IF x = p THEN Len(q[x]) + 1 ELSE Len(q[x])
  BY <1>1, <1>2, <1>3
<1> DEFINE a == Len(q[PRIO_Q_HIGH])
           b == Len(q[PRIO_Q_MID])
           c == Len(q[PRIO_Q_LOW])
           e == Len(Enqueue(q, frame)[PRIO_Q_HIGH])
           f == Len(Enqueue(q, frame)[PRIO_Q_MID])
           g == Len(Enqueue(q, frame)[PRIO_Q_LOW])
<1>7. /\ a \in Nat /\ b \in Nat /\ c \in Nat
      /\ e = IF PRIO_Q_HIGH = p THEN a + 1 ELSE a
      /\ f = IF PRIO_Q_MID = p THEN b + 1 ELSE b
      /\ g = IF PRIO_Q_LOW = p THEN c + 1 ELSE c
  BY <1>4, <1>6 DEF Prios
<1>8. e + f + g = a + b + c + 1
  <2> HIDE DEF a, b, c, e, f, g
  <2>1. CASE p = PRIO_Q_HIGH
    BY <1>7, <2>1 DEF PRIO_Q_HIGH, PRIO_Q_MID, PRIO_Q_LOW
  <2>2. CASE p = PRIO_Q_MID
    BY <1>7, <2>2 DEF PRIO_Q_HIGH, PRIO_Q_MID, PRIO_Q_LOW
  <2>3. CASE p = PRIO_Q_LOW
    BY <1>7, <2>3 DEF PRIO_Q_HIGH, PRIO_Q_MID, PRIO_Q_LOW
  <2> QED
    BY <1>1, <2>1, <2>2, <2>3 DEF Prios
<1> QED
  BY <1>5, <1>8

\* With something to send, esp_spi_work finds a queue that is not empty.
LEMMA FirstBusyFacts ==
    ASSUME TxReady
    PROVE  FirstBusy \in Prios /\ tx_q[FirstBusy] # <<>>
<1> DEFINE Busy(p) == /\ tx_q[p] # <<>>
                      /\ \A q \in Prios : tx_q[q] # <<>> => p <= q
<1>1. \E p \in Prios : Busy(p)
  <2>1. CASE tx_q[PRIO_Q_HIGH] # <<>>
    BY <2>1 DEF Prios, PRIO_Q_HIGH, PRIO_Q_MID, PRIO_Q_LOW
  <2>2. CASE tx_q[PRIO_Q_HIGH] = <<>> /\ tx_q[PRIO_Q_MID] # <<>>
    BY <2>2 DEF Prios, PRIO_Q_HIGH, PRIO_Q_MID, PRIO_Q_LOW
  <2>3. CASE tx_q[PRIO_Q_HIGH] = <<>> /\ tx_q[PRIO_Q_MID] = <<>>
    BY <2>3 DEF TxReady, Prios, PRIO_Q_HIGH, PRIO_Q_MID, PRIO_Q_LOW
  <2> QED
    BY <2>1, <2>2, <2>3
<1> QED
  BY <1>1 DEF FirstBusy

\* The frame taken off the queues is a frame, its queue is one shorter and the
\* count follows it down.
LEMMA DequeueFacts ==
    ASSUME TypeOK, NEW frame, Dequeue(frame)
    PROVE  /\ frame \in Frames \cup {NoFrame}
           /\ tx_q' \in [Prios -> Seq(Frames)]
           /\ tx_pending' \in Nat
           /\ ndev' \in [up : BOOLEAN, stopped : BOOLEAN]
           /\ PendingCovers => PendingCovers'
           /\ TxPendingExact => TxPendingExact'
           /\ ~data_path => tx_q' = tx_q
<1>1. CASE ~TxReady
  BY <1>1 DEF Dequeue, TypeOK, PendingCovers, TxPendingExact, Backlog
<1>2. CASE TxReady
  <2> DEFINE p == FirstBusy
  <2>1. p \in Prios /\ tx_q[p] # <<>> /\ tx_q[p] \in Seq(Frames)
    BY <1>2, FirstBusyFacts DEF TypeOK
  <2>2. /\ Head(tx_q[p]) \in Frames
        /\ Tail(tx_q[p]) \in Seq(Frames)
        /\ Len(Tail(tx_q[p])) = Len(tx_q[p]) - 1
        /\ Len(tx_q[p]) > 0
    BY <2>1, HeadTailProperties, EmptySeq, LenProperties
  <2>3. /\ frame = Head(tx_q[p])
        /\ tx_q' = [tx_q EXCEPT ![p] = Tail(tx_q[p])]
        /\ tx_pending' = IF tx_pending > 0 THEN tx_pending - 1 ELSE 0
    BY <1>2, <2>1 DEF Dequeue
  <2>4. ndev' \in [up : BOOLEAN, stopped : BOOLEAN]
    BY <1>2 DEF Dequeue, TypeOK
  <2> HIDE DEF p
  <2>5. \A x \in Prios : Len(tx_q[x]) \in Nat
    BY LenProperties DEF TypeOK
  <2>6. tx_q' \in [Prios -> Seq(Frames)]
    BY <2>1, <2>2, <2>3 DEF TypeOK
  <2>7. \A x \in Prios :
           Len(tx_q'[x]) = IF x = p THEN Len(tx_q[x]) - 1 ELSE Len(tx_q[x])
    BY <2>1, <2>2, <2>3 DEF TypeOK
  <2> DEFINE a == Len(tx_q[PRIO_Q_HIGH])
             b == Len(tx_q[PRIO_Q_MID])
             c == Len(tx_q[PRIO_Q_LOW])
             e == Len(tx_q'[PRIO_Q_HIGH])
             f == Len(tx_q'[PRIO_Q_MID])
             g == Len(tx_q'[PRIO_Q_LOW])
  <2>8. Backlog' = Backlog - 1 /\ Backlog \in Nat /\ Backlog > 0
    <3>1. /\ a \in Nat /\ b \in Nat /\ c \in Nat
          /\ e = IF PRIO_Q_HIGH = p THEN a - 1 ELSE a
          /\ f = IF PRIO_Q_MID = p THEN b - 1 ELSE b
          /\ g = IF PRIO_Q_LOW = p THEN c - 1 ELSE c
      BY <2>5, <2>7 DEF Prios
    <3>4. \/ p = PRIO_Q_HIGH /\ a > 0
          \/ p = PRIO_Q_MID /\ b > 0
          \/ p = PRIO_Q_LOW /\ c > 0
      BY <2>1, <2>2 DEF Prios
    <3>2. e + f + g = a + b + c - 1 /\ a + b + c > 0
      <4> HIDE DEF a, b, c, e, f, g
      <4>1. CASE p = PRIO_Q_HIGH
        BY <3>1, <3>4, <4>1 DEF PRIO_Q_HIGH, PRIO_Q_MID, PRIO_Q_LOW
      <4>2. CASE p = PRIO_Q_MID
        BY <3>1, <3>4, <4>2 DEF PRIO_Q_HIGH, PRIO_Q_MID, PRIO_Q_LOW
      <4>3. CASE p = PRIO_Q_LOW
        BY <3>1, <3>4, <4>3 DEF PRIO_Q_HIGH, PRIO_Q_MID, PRIO_Q_LOW
      <4> QED
        BY <2>1, <4>1, <4>2, <4>3 DEF Prios
    <3>3. Backlog = a + b + c /\ Backlog' = e + f + g
      BY DEF Backlog
    <3> HIDE DEF a, b, c, e, f, g
    <3> QED
      BY <3>1, <3>2, <3>3
  <2>9. PendingCovers => PendingCovers'
    BY <2>3, <2>8 DEF PendingCovers, TypeOK
  <2>10. TxPendingExact => TxPendingExact'
    BY <2>3, <2>8 DEF TxPendingExact, TypeOK
  <2> QED
    BY <1>2, <2>2, <2>3, <2>4, <2>6, <2>9, <2>10 DEF TypeOK, TxReady
<1> QED
  BY <1>1, <1>2

----------------------------------------------------------------------------
(* Type correctness.                                                       *)

\* The types hold initially.
LEMMA TypeInit == Init => TypeOK
<1> SUFFICES ASSUME Init PROVE TypeOK
  OBVIOUS
<1>1. EmptyQueues \in [Prios -> Seq(Frames)]
  BY EmptySeq DEF EmptyQueues
<1>2. SlaveOff \in [power : {"off", "up", "booted"}, handshake : BOOLEAN,
                    data_ready : BOOLEAN, armed : Frames \cup {NoFrame},
                    queue : Seq(Frames)]
  BY EmptySeq DEF SlaveOff
<1>3. 0 \in 0..MaxFrames /\ 0 \in 0..MaxRx
  BY FrameFacts
<1> QED
  BY <1>1, <1>2, <1>3 DEF Init, TypeOK

\* Every step keeps the types.
LEMMA TypeStep == TypeOK /\ [Next]_vars => TypeOK'
<1> SUFFICES ASSUME TypeOK, [Next]_vars PROVE TypeOK'
  OBVIOUS
<1> USE DEF TypeOK
<1>1. CASE ProbeIrqs
  BY <1>1 DEF ProbeIrqs
<1>2. CASE ProbeOpen
  BY <1>2 DEF ProbeOpen
<1>3. ASSUME NEW kind \in Kinds, Write(kind) PROVE TypeOK'
  <2>1. /\ written < MaxFrames /\ written' = written + 1
        /\ kind \in TxKinds \cup {"boot"}
    BY <1>3, KindsAssumption DEF Write, MayWrite
  <2>2. [kind |-> kind, id |-> written + 1] \in Frames
    <3>1. written \in Nat
      BY FrameFacts
    <3> QED
      BY <2>1, <3>1, NextFrame
  <2>3. tx_q' \in [Prios -> Seq(Frames)]
    BY <1>3, <2>2, EnqueueFacts DEF Write
  <2>4. written' \in 0..MaxFrames
    BY <2>1, FrameFacts
  <2> QED
    BY <1>3, <2>3, <2>4 DEF Write, Counts
<1>4. ASSUME NEW kind \in Kinds, Pause(kind) PROVE TypeOK'
  BY <1>4 DEF Pause
<1>5. CASE WorkIdles
  <2>1. UNCHANGED <<probe, tx_q, rx_q, tx_pending, xfer, if_rx_work, ndev, bootups,
                    purged, slave, written, sent, got, heard>>
    BY <1>5 DEF WorkIdles
  <2>2. spi_work' \in BOOLEAN
    BY <1>5 DEF WorkIdles
  <2> QED
    BY <2>1, <2>2
<1>6. CASE WorkTransfers
  <2>1. PICK frame : /\ Dequeue(frame)
                     /\ xfer' = [busy |-> TRUE, tx |-> frame]
    BY <1>6 DEF WorkTransfers
  <2> QED
    BY <1>6, <2>1, DequeueFacts DEF WorkTransfers
<1>7. CASE WorkRunsOut
  <2>1. PICK frame : Dequeue(frame)
    BY <1>7 DEF WorkRunsOut
  <2> QED
    BY <1>7, <2>1, DequeueFacts DEF WorkRunsOut
<1>8. CASE WorkEnds
  <2>1. rx_q' \in [Prios -> Seq(Frames)] /\ if_rx_work' \in BOOLEAN
    <3>1. CASE slave.armed # NoFrame /\ data_path
      <4>1. slave.armed \in Frames
        BY <3>1
      <4>2. Enqueue(rx_q, slave.armed) \in [Prios -> Seq(Frames)]
        BY <4>1, EnqueueFacts
      <4> QED
        BY <1>8, <3>1, <4>2 DEF WorkEnds
    <3>2. CASE ~(slave.armed # NoFrame /\ data_path)
      BY <1>8, <3>2 DEF WorkEnds
    <3> QED
      BY <3>1, <3>2
  <2>2. got' \in [Prios -> Seq(Frames)]
    <3>1. CASE slave.handshake /\ xfer.tx # NoFrame
      <4>1. xfer.tx \in Frames /\ got' = Enqueue(got, xfer.tx)
        BY <1>8, <3>1 DEF WorkEnds, Enqueue
      <4> QED
        BY <4>1, EnqueueFacts
    <3>2. CASE ~(slave.handshake /\ xfer.tx # NoFrame)
      BY <1>8, <3>2 DEF WorkEnds
    <3> QED
      BY <3>1, <3>2
  <2>3. slave' \in [power : {"off", "up", "booted"}, handshake : BOOLEAN,
                    data_ready : BOOLEAN, armed : Frames \cup {NoFrame},
                    queue : Seq(Frames)]
    BY <1>8 DEF WorkEnds
  <2>4. xfer' \in [busy : BOOLEAN, tx : Frames \cup {NoFrame}]
    BY <1>8 DEF WorkEnds
  <2> QED
    BY <1>8, <2>1, <2>2, <2>3, <2>4 DEF WorkEnds
<1>9. CASE WorkFails
  BY <1>9 DEF WorkFails
<1>10. CASE RxWork
  <2>1. \A p \in Prios : heard[p] \o rx_q[p] \in Seq(Frames)
    BY ConcatProperties
  <2>2. Len(rx_q[PRIO_Q_HIGH]) \in Nat
    BY LenProperties DEF Prios
  <2>3. heard' \in [Prios -> Seq(Frames)] /\ rx_q' \in [Prios -> Seq(Frames)]
    BY <1>10, <2>1, EmptySeq DEF RxWork, EmptyQueues
  <2>4. bootups' \in Nat
    BY <1>10, <2>2 DEF RxWork
  <2>5. /\ if_rx_work' = FALSE
        /\ UNCHANGED <<probe, tx_q, tx_pending, spi_work, xfer, ndev, purged, slave,
                       written, sent, got>>
    BY <1>10 DEF RxWork
  <2>6. /\ tx_q' \in [Prios -> Seq(Frames)] /\ got' \in [Prios -> Seq(Frames)]
        /\ written' \in 0..MaxFrames /\ sent' \in 0..MaxRx /\ tx_pending' \in Nat
    BY <2>5
  <2>7. /\ slave' \in [power : {"off", "up", "booted"}, handshake : BOOLEAN,
                       data_ready : BOOLEAN, armed : Frames \cup {NoFrame},
                       queue : Seq(Frames)]
        /\ xfer' \in [busy : BOOLEAN, tx : Frames \cup {NoFrame}]
        /\ ndev' \in [up : BOOLEAN, stopped : BOOLEAN]
    BY <2>5
  <2>8. /\ probe' \in {"none", "irqs", "open"} /\ spi_work' \in BOOLEAN
        /\ if_rx_work' \in BOOLEAN /\ purged' \in BOOLEAN
    BY <2>5
  <2> QED
    BY ONLY <2>3, <2>4, <2>6, <2>7, <2>8 DEF TypeOK
<1>11. CASE BootupPurges
  <2>1. bootups' \in Nat
    BY <1>11 DEF BootupPurges
  <2> QED
    BY <1>11, <2>1, EmptySeq DEF BootupPurges, EmptyQueues
<1>12. CASE BootupEnds
  BY <1>12, EmptySeq DEF BootupEnds, EmptyQueues
<1>13. CASE SlaveUp
  <2>1. spi_work' \in BOOLEAN
    BY <1>13 DEF SlaveUp, Edge
  <2> QED
    BY <1>13, <2>1 DEF SlaveUp
<1>14. CASE SlaveArms
  <2>1. spi_work' \in BOOLEAN
    BY <1>14 DEF SlaveArms, Edge
  <2>2. slave' \in [power : {"off", "up", "booted"}, handshake : BOOLEAN,
                    data_ready : BOOLEAN, armed : Frames \cup {NoFrame},
                    queue : Seq(Frames)]
    <3>1. CASE slave.queue = <<>>
      BY <1>14, <3>1 DEF SlaveArms
    <3>2. CASE slave.queue # <<>>
      <4>1. Head(slave.queue) \in Frames /\ Tail(slave.queue) \in Seq(Frames)
        BY <3>2, HeadTailProperties
      <4> QED
        BY <1>14, <3>2, <4>1 DEF SlaveArms
    <3> QED
      BY <3>1, <3>2
  <2> QED
    BY <1>14, <2>1, <2>2 DEF SlaveArms
<1>15. CASE SlaveReboots
  BY <1>15, EmptySeq DEF SlaveReboots, SlaveOff
<1>16. ASSUME NEW kind \in RxKinds \cup {"boot"}, SlaveSends(kind) PROVE TypeOK'
  <2>1. sent < MaxRx /\ sent' = sent + 1 /\ kind \in TxKinds \cup {"boot"}
    BY <1>16, KindsAssumption DEF SlaveSends, TxKinds
  <2>2. [kind |-> kind, id |-> sent + 1] \in Frames
    <3>1. sent \in Nat
      BY FrameFacts
    <3> QED
      BY <2>1, <3>1, NextFrame
  <2>3. Append(slave.queue, [kind |-> kind, id |-> sent + 1]) \in Seq(Frames)
    BY <2>2, AppendProperties
  <2>4. slave' \in [power : {"off", "up", "booted"}, handshake : BOOLEAN,
                    data_ready : BOOLEAN, armed : Frames \cup {NoFrame},
                    queue : Seq(Frames)]
    BY <1>16, <2>3 DEF SlaveSends
  <2>5. sent' \in 0..MaxRx /\ spi_work' \in BOOLEAN
    BY <1>16, <2>1, FrameFacts DEF SlaveSends, Edge
  <2> QED
    BY <1>16, <2>4, <2>5 DEF SlaveSends
<1>17. CASE UNCHANGED vars
  BY <1>17 DEF vars
<1> QED
  BY <1>1, <1>2, <1>3, <1>4, <1>5, <1>6, <1>7, <1>8, <1>9, <1>10, <1>11, <1>12,
     <1>13, <1>14, <1>15, <1>16, <1>17 DEF Next, Work

\* Every variable of the link holds a value of its type in every state.
THEOREM TypeCorrect == Spec => []TypeOK
<1> QED
  BY TypeInit, TypeStep, PTL DEF Spec

----------------------------------------------------------------------------
(* The count covers the queues, and the cap holds.                         *)

\* Nothing is queued before the data path opens, so that the reset of the
\* count in open_data_path forgets nothing.
ClosedEmpty == ~data_path => \A p \in Prios : tx_q[p] = <<>>

CountInv == TypeOK /\ ClosedEmpty /\ PendingCovers

\* The backlog is a number.
LEMMA BacklogNat == TypeOK => Backlog \in Nat
<1> SUFFICES ASSUME TypeOK PROVE Backlog \in Nat
  OBVIOUS
<1>1. /\ tx_q[PRIO_Q_HIGH] \in Seq(Frames) /\ tx_q[PRIO_Q_MID] \in Seq(Frames)
      /\ tx_q[PRIO_Q_LOW] \in Seq(Frames)
  BY DEF TypeOK, Prios
<1>2. /\ Len(tx_q[PRIO_Q_HIGH]) \in Nat /\ Len(tx_q[PRIO_Q_MID]) \in Nat
      /\ Len(tx_q[PRIO_Q_LOW]) \in Nat
  BY <1>1, LenProperties
<1> DEFINE a == Len(tx_q[PRIO_Q_HIGH])
           b == Len(tx_q[PRIO_Q_MID])
           c == Len(tx_q[PRIO_Q_LOW])
<1>3. a + b + c \in Nat
  <2>1. a \in Nat /\ b \in Nat /\ c \in Nat
    BY <1>2
  <2> HIDE DEF a, b, c
  <2> QED
    BY <2>1
<1> QED
  BY <1>3 DEF Backlog

\* Empty queues hold no frame.
LEMMA EmptyBacklog ==
    ASSUME \A p \in Prios : tx_q[p] = <<>>
    PROVE  Backlog = 0
<1>1. /\ Len(tx_q[PRIO_Q_HIGH]) = 0 /\ Len(tx_q[PRIO_Q_MID]) = 0
      /\ Len(tx_q[PRIO_Q_LOW]) = 0
  BY EmptySeq DEF Prios
<1> QED
  BY <1>1 DEF Backlog

\* The count and the queues start empty.
LEMMA CountInit == Init => CountInv
<1> SUFFICES ASSUME Init PROVE CountInv
  OBVIOUS
<1>1. \A p \in Prios : tx_q[p] = <<>>
  BY DEF Init, EmptyQueues
<1>2. Backlog = 0
  BY <1>1, EmptyBacklog
<1> QED
  BY <1>1, <1>2, TypeInit DEF Init, CountInv, ClosedEmpty, PendingCovers

\* Every step keeps the count at or above the number of queued frames.
LEMMA CountStep == CountInv /\ [Next]_vars => CountInv'
<1> SUFFICES ASSUME CountInv, [Next]_vars PROVE CountInv'
  OBVIOUS
<1> USE DEF CountInv
<1>0. TypeOK'
  BY TypeStep
<1>1. CASE UNCHANGED <<probe, tx_q, tx_pending>>
  BY <1>0, <1>1 DEF ClosedEmpty, PendingCovers, Backlog, data_path
<1>2. CASE ProbeIrqs
  <2>1. ~data_path /\ ~data_path' /\ tx_q' = tx_q /\ tx_pending' = 0
    BY <1>2 DEF ProbeIrqs, data_path
  <2>2. Backlog = 0 /\ Backlog' = Backlog
    BY <2>1, EmptyBacklog DEF ClosedEmpty, Backlog
  <2> QED
    BY <1>0, <2>1, <2>2 DEF ClosedEmpty, PendingCovers
<1>3. CASE ProbeOpen
  BY <1>0, <1>3 DEF ProbeOpen, ClosedEmpty, PendingCovers, Backlog, data_path
<1>4. ASSUME NEW kind \in Kinds, Write(kind) PROVE CountInv'
  <2>1. /\ data_path /\ data_path'
        /\ tx_pending' = tx_pending + 1
        /\ written < MaxFrames
        /\ tx_q' = Enqueue(tx_q, [kind |-> kind, id |-> written + 1])
    BY <1>4 DEF Write, MayWrite, Counts, data_path
  <2>2. [kind |-> kind, id |-> written + 1] \in Frames
    <3>1. written \in Nat /\ kind \in TxKinds \cup {"boot"}
      BY FrameFacts, KindsAssumption DEF TypeOK
    <3> QED
      BY <2>1, <3>1, NextFrame
  <2>3. Backlog' = Backlog + 1 /\ Backlog \in Nat
    <3>1. Backlog' = Backlog + 1
      BY <2>1, <2>2, EnqueueFacts DEF Backlog, TypeOK
    <3> QED
      BY <3>1, BacklogNat
  <2> QED
    BY <1>0, <2>1, <2>3 DEF ClosedEmpty, PendingCovers, TypeOK
<1>5. ASSUME NEW frame, Dequeue(frame), probe' = probe PROVE CountInv'
  <2>1. PendingCovers' /\ (~data_path => tx_q' = tx_q)
    BY <1>5, DequeueFacts
  <2> QED
    BY <1>0, <1>5, <2>1 DEF ClosedEmpty, data_path
<1>6. CASE BootupPurges \/ BootupEnds
  <2>1. \A p \in Prios : tx_q'[p] = <<>>
    BY <1>6 DEF BootupPurges, BootupEnds, EmptyQueues
  <2>2. Backlog' = 0 /\ tx_pending' \in Nat
    <3>1. /\ Len(tx_q'[PRIO_Q_HIGH]) = 0 /\ Len(tx_q'[PRIO_Q_MID]) = 0
          /\ Len(tx_q'[PRIO_Q_LOW]) = 0
      BY <2>1, EmptySeq DEF Prios
    <3> QED
      BY <1>0, <3>1 DEF Backlog, TypeOK
  <2> QED
    BY <1>0, <2>1, <2>2 DEF ClosedEmpty, PendingCovers
<1>7. CASE WorkTransfers \/ WorkRunsOut
  <2>1. \E frame : Dequeue(frame) /\ probe' = probe
    BY <1>7 DEF WorkTransfers, WorkRunsOut
  <2> QED
    BY <1>5, <2>1
<1>8. ASSUME NEW kind \in Kinds, Pause(kind) PROVE CountInv'
  BY <1>1, <1>8 DEF Pause
<1>9. ASSUME NEW kind \in RxKinds \cup {"boot"}, SlaveSends(kind) PROVE CountInv'
  BY <1>1, <1>9 DEF SlaveSends
<1>10. CASE \/ WorkIdles \/ WorkEnds \/ WorkFails \/ RxWork
            \/ SlaveUp \/ SlaveArms \/ SlaveReboots \/ UNCHANGED vars
  BY <1>1, <1>10 DEF WorkIdles, WorkEnds, WorkFails, RxWork, SlaveUp, SlaveArms,
                    SlaveReboots, vars
<1> QED
  BY <1>2, <1>3, <1>4, <1>6, <1>7, <1>8, <1>9, <1>10 DEF Next, Work

\* Whatever fails and however often the slave boots, tx_pending never falls
\* below the number of queued frames (write_packet, esp_spi_work, patch 0017).
THEOREM CountSafe == Spec => []PendingCovers
<1>1. CountInv => PendingCovers
  BY DEF CountInv
<1> QED
  BY <1>1, CountInit, CountStep, PTL DEF Spec

\* A step that queues a frame of the network stack finds the cap unreached: the
\* count that write_packet compares with it covers the queues.
LEMMA CapStep ==
    ASSUME CountInv, [Next]_vars,
           Len(tx_q'[PRIO_Q_LOW]) > Len(tx_q[PRIO_Q_LOW]),
           HasPriv(tx_q'[PRIO_Q_LOW][Len(tx_q'[PRIO_Q_LOW])])
    PROVE  Backlog < TxMax
<1> DEFINE q == tx_q[PRIO_Q_LOW]
<1> USE DEF CountInv
<1>1. q \in Seq(Frames) /\ Len(q) \in Nat
  BY LenProperties DEF TypeOK, Prios
<1>2. ~(tx_q' = tx_q) /\ ~(tx_q' = EmptyQueues)
  BY <1>1, EmptySeq DEF EmptyQueues, Prios
<1>3. ASSUME NEW frame, Dequeue(frame) PROVE FALSE
  <2>1. PICK p \in Prios : tx_q[p] # <<>> /\ tx_q' = [tx_q EXCEPT ![p] = Tail(@)]
    BY <1>2, <1>3, FirstBusyFacts DEF Dequeue
  <2>2. tx_q'[PRIO_Q_LOW] = q \/ (q # <<>> /\ tx_q'[PRIO_Q_LOW] = Tail(q))
    BY <2>1 DEF TypeOK, Prios
  <2>3. q # <<>> => Len(Tail(q)) = Len(q) - 1
    BY <1>1, HeadTailProperties
  <2>4. \/ Len(tx_q'[PRIO_Q_LOW]) = Len(q)
        \/ Len(tx_q'[PRIO_Q_LOW]) = Len(q) - 1
    BY <2>2, <2>3
  <2> QED
    <3> HIDE DEF q
    <3>1. Len(tx_q'[PRIO_Q_LOW]) > Len(q)
      BY DEF q
    <3> QED
      BY <1>1, <2>4, <3>1
<1>4. PICK kind \in Kinds : Write(kind)
  BY <1>2, <1>3
     DEF Next, Work, ProbeIrqs, ProbeOpen, Pause, WorkIdles, WorkTransfers,
         WorkRunsOut, WorkEnds, WorkFails, RxWork, BootupPurges, BootupEnds,
         SlaveUp, SlaveArms, SlaveReboots, SlaveSends, vars
<1>5. kind = "data"
  <2> DEFINE frame == [kind |-> kind, id |-> written + 1]
  <2>1. tx_q' = Enqueue(tx_q, frame) /\ Prio(kind) \in Prios
    BY <1>4, FrameFacts DEF Write
  <2>2. CASE Prio(kind) = PRIO_Q_LOW
    <3>1. tx_q'[PRIO_Q_LOW] = Append(q, frame)
      BY <2>1, <2>2 DEF Enqueue, TypeOK, Prios
    <3>2. tx_q'[PRIO_Q_LOW][Len(tx_q'[PRIO_Q_LOW])] = frame
      BY <1>1, <3>1
    <3> QED
      BY <3>2 DEF HasPriv
  <2>3. CASE Prio(kind) # PRIO_Q_LOW
    BY <1>1, <2>1, <2>3 DEF Enqueue, TypeOK, Prios
  <2> QED
    BY <2>2, <2>3
<1> QED
  BY <1>4, <1>5, BacklogNat, FrameFacts
     DEF Write, OverCap, PendingCovers, TypeOK

\* Whatever else is written, reallocated frames included, and through every
\* fault, write_packet queues a frame that names its interface only while fewer
\* than TX_MAX_PENDING_COUNT frames are queued.
THEOREM CapSafe == Spec => CapRespected
<1>1. CountInv /\ [Next]_vars =>
        [LET q == tx_q'[PRIO_Q_LOW]
         IN  (/\ Len(q) > Len(tx_q[PRIO_Q_LOW])
              /\ HasPriv(q[Len(q)])) => Backlog < TxMax]_vars
  BY CapStep
<1> QED
  BY <1>1, CountInit, CountStep, PTL DEF Spec, CapRespected

----------------------------------------------------------------------------
(* The link does not stall.                                                *)

\* No transaction is given up.
Reliable == Faults \cap {"alloc", "xfer"} = {}

\* Every step leaves an armed slave served.
LEMMA StallStep ==
    ASSUME Reliable, TypeOK, NoStall, [Next]_vars
    PROVE  NoStall'
<1>1. CASE UNCHANGED <<probe, tx_q, spi_work, xfer, slave>>
  BY <1>1 DEF NoStall, data_path, Backlog
<1>2. CASE ProbeIrqs
  BY <1>2 DEF ProbeIrqs, NoStall, data_path
<1>3. CASE ProbeOpen
  BY <1>3 DEF ProbeOpen, NoStall
<1>4. ASSUME NEW kind \in Kinds, Write(kind) \/ Pause(kind) PROVE NoStall'
  BY <1>4 DEF Write, Pause, NoStall
<1>5. CASE WorkIdles
  <2>1. data_path /\ Backlog > 0 => TxReady
    BY EmptyBacklog DEF TxReady, data_path
  <2>2. UNCHANGED <<data_path, Backlog, slave>>
    BY <1>5 DEF WorkIdles, data_path, Backlog
  <2> QED
    BY <1>5, <2>1, <2>2, BacklogNat DEF WorkIdles, NoStall
<1>6. CASE WorkTransfers
  BY <1>6 DEF WorkTransfers, NoStall
<1>7. CASE WorkEnds
  BY <1>7 DEF WorkEnds, NoStall, TypeOK
<1>8. CASE SlaveUp \/ SlaveArms
  BY <1>8 DEF SlaveUp, SlaveArms, Edge, NoStall, data_path
<1>9. ASSUME NEW kind \in RxKinds \cup {"boot"}, SlaveSends(kind) PROVE NoStall'
  <2>1. slave'.handshake = slave.handshake /\ UNCHANGED <<probe, tx_q, xfer>>
    BY <1>9 DEF SlaveSends, TypeOK
  <2>2. CASE slave.data_ready
    BY <1>9, <2>1, <2>2 DEF SlaveSends, Edge, NoStall, data_path, TypeOK
  <2>3. CASE ~slave.data_ready
    BY <1>9, <2>1, <2>3 DEF SlaveSends, Edge, NoStall, data_path
  <2> QED
    BY <2>2, <2>3
<1>10. CASE SlaveReboots
  BY <1>10 DEF SlaveReboots, SlaveOff, NoStall
<1>11. CASE BootupPurges \/ BootupEnds
  <2>1. Backlog' = 0 /\ UNCHANGED <<probe, spi_work, xfer, slave>>
    <3>1. \A p \in Prios : tx_q'[p] = <<>>
      BY <1>11 DEF BootupPurges, BootupEnds, EmptyQueues
    <3>2. /\ Len(tx_q'[PRIO_Q_HIGH]) = 0 /\ Len(tx_q'[PRIO_Q_MID]) = 0
          /\ Len(tx_q'[PRIO_Q_LOW]) = 0
      BY <3>1, EmptySeq DEF Prios
    <3> QED
      BY <1>11, <3>2 DEF Backlog, BootupPurges, BootupEnds
  <2> QED
    BY <2>1 DEF NoStall, data_path
<1>12. CASE RxWork \/ UNCHANGED vars
  BY <1>1, <1>12 DEF RxWork, vars
<1> QED
  BY <1>2, <1>3, <1>4, <1>5, <1>6, <1>7, <1>8, <1>9, <1>10, <1>11, <1>12
     DEF Next, Work, WorkRunsOut, WorkFails, Reliable

\* While no transaction is given up, an armed slave with anything to exchange is
\* always served, through every boot of the slave and both steps of probe
\* (esp_spi_work, the interrupt handlers, patch 0021).
THEOREM NeverStalls == Reliable => (Spec => []NoStall)
<1> SUFFICES ASSUME Reliable PROVE Spec => []NoStall
  OBVIOUS
<1>1. Init => NoStall
  BY DEF Init, NoStall, data_path
<1>2. TypeOK /\ NoStall /\ [Next]_vars => NoStall'
  BY StallStep
<1> QED
  BY <1>1, <1>2, TypeCorrect, PTL DEF Spec

----------------------------------------------------------------------------
(* Where the slave boots once, the count is exact.                         *)

One(b) == IF b THEN 1 ELSE 0

\* The bootup report is the oldest frame of the slave, if it waits there at all.
HeadBoot == slave.queue # <<>> /\ slave.queue[1].kind = "boot"

\* The bootup reports that are on their way to process_event_esp_bootup.
Reports == bootups + Len(rx_q[PRIO_Q_HIGH]) + One(slave.armed.kind = "boot") + One(HeadBoot)

\* There is one report, and it is used up once the clean-up has begun.
OneReport ==
    /\ Reports <= 1
    /\ purged \/ ndev.up => Reports = 0
    /\ slave.power # "booted" => Reports = 0 /\ slave.queue = <<>> /\ ~purged /\ ~ndev.up
    /\ \A i \in 2..Len(slave.queue) : slave.queue[i].kind # "boot"
    /\ ~slave.handshake => slave.armed = NoFrame

\* Nothing is queued before there is an interface.
DownEmpty == /\ ~(purged /\ ndev.up)
             /\ ~ndev.up => \A p \in Prios : tx_q[p] = <<>>

OnceInv == TypeOK /\ OneReport /\ DownEmpty

\* The parts of Reports are numbers.
LEMMA ReportParts ==
    ASSUME TypeOK
    PROVE  /\ bootups \in Nat /\ Len(rx_q[PRIO_Q_HIGH]) \in Nat
           /\ One(slave.armed.kind = "boot") \in {0, 1} /\ One(HeadBoot) \in {0, 1}
           /\ Len(slave.queue) \in Nat
<1>1. rx_q[PRIO_Q_HIGH] \in Seq(Frames) /\ slave.queue \in Seq(Frames)
  BY DEF TypeOK, Prios
<1> QED
  BY <1>1, LenProperties DEF TypeOK, One

\* No report is on its way at first.
LEMMA OnceInit == Init => OnceInv
<1> SUFFICES ASSUME Init PROVE OnceInv
  OBVIOUS
<1>1. /\ bootups = 0 /\ rx_q[PRIO_Q_HIGH] = <<>> /\ slave.queue = <<>>
      /\ slave.armed = NoFrame /\ ~purged /\ ~ndev.up /\ \A p \in Prios : tx_q[p] = <<>>
  BY DEF Init, EmptyQueues, SlaveOff, Prios
<1>2. Len(rx_q[PRIO_Q_HIGH]) = 0 /\ Len(slave.queue) = 0
  BY <1>1, EmptySeq
<1>3. slave.armed.kind # "boot" /\ ~HeadBoot
  BY <1>1 DEF NoFrame, HeadBoot
<1>4. Reports = 0
  BY <1>1, <1>2, <1>3 DEF Reports, One
<1> QED
  BY <1>1, <1>2, <1>4, TypeInit DEF OnceInv, OneReport, DownEmpty

\* A step that touches no report and no interface keeps the invariant.
LEMMA OnceKept ==
    ASSUME OnceInv, TypeOK', UNCHANGED <<rx_q, bootups, purged, slave, ndev>>,
           tx_q' = tx_q \/ ndev.up
    PROVE  OnceInv'
<1>1. Reports' = Reports
  BY DEF Reports, HeadBoot
<1> QED
  BY <1>1 DEF OnceInv, OneReport, DownEmpty

\* The slave sends its report once, and never behind another frame.
LEMMA SendsKeepsOne ==
    ASSUME OnceInv, TypeOK', NEW kind \in RxKinds \cup {"boot"}, SlaveSends(kind)
    PROVE  OnceInv'
<1> DEFINE frame == [kind |-> kind, id |-> sent + 1]
<1> USE DEF OnceInv
<1>1. /\ UNCHANGED <<rx_q, bootups, purged, ndev, tx_q>>
      /\ slave'.queue = Append(slave.queue, frame) /\ slave'.armed = slave.armed
      /\ slave'.handshake = slave.handshake /\ slave'.power = "booted"
      /\ slave.queue \in Seq(Frames)
      /\ \/ kind = "boot" /\ slave.power = "up"
         \/ kind \in RxKinds /\ slave.power = "booted"
  BY DEF SlaveSends, TypeOK
<1>2. /\ Len(slave'.queue) = Len(slave.queue) + 1
      /\ \A i \in 1..Len(slave.queue) : slave'.queue[i] = slave.queue[i]
      /\ slave'.queue[Len(slave.queue) + 1] = frame
      /\ slave'.queue # <<>> /\ Len(slave.queue) \in Nat
  <2>1. frame \in Frames
    <3>1. sent \in Nat /\ sent < MaxRx
      BY FrameFacts DEF SlaveSends, TypeOK
    <3>2. kind \in TxKinds \cup {"boot"}
      BY KindsAssumption DEF TxKinds
    <3> QED
      BY <3>1, <3>2, NextFrame
  <2> HIDE DEF frame
  <2>2. Append(slave.queue, frame) # <<>>
    BY <1>1, <2>1, AppendProperties
  <2>3. /\ Len(slave.queue) \in Nat
        /\ Len(Append(slave.queue, frame)) = Len(slave.queue) + 1
        /\ \A i \in 1..Len(slave.queue) : Append(slave.queue, frame)[i] = slave.queue[i]
        /\ Append(slave.queue, frame)[Len(slave.queue) + 1] = frame
    BY <1>1, <2>1, AppendProperties, LenProperties
  <2> QED
    BY <1>1, <2>2, <2>3
<1>3. frame.kind = kind
  OBVIOUS
<1> HIDE DEF frame
<1>4. CASE kind = "boot" /\ slave.power = "up"
  <2>1. slave.queue = <<>> /\ Reports = 0 /\ ~purged /\ ~ndev.up
    BY <1>4 DEF OneReport
  <2>2. Len(slave.queue) = 0 /\ ~HeadBoot
    BY <2>1, EmptySeq DEF HeadBoot
  <2>3. One(HeadBoot) = 0 /\ One(HeadBoot') \in {0, 1}
    BY <2>2 DEF One
  <2>4. Reports' = Reports - One(HeadBoot) + One(HeadBoot')
    BY <1>1, ReportParts DEF Reports, One
  <2>5. Reports' <= 1
    BY <2>1, <2>3, <2>4
  <2>6. \A i \in 2..Len(slave'.queue) : slave'.queue[i].kind # "boot"
    BY <1>2, <2>2
  <2> QED
    BY <1>1, <2>1, <2>5, <2>6 DEF OneReport, DownEmpty
<1>5. CASE kind \in RxKinds /\ slave.power = "booted"
  <2>1. frame.kind # "boot"
    BY <1>3, <1>5, KindsAssumption
  <2>2. slave.queue # <<>> => Len(slave.queue) >= 1
    BY <1>1, EmptySeq, <1>2
  <2>3. HeadBoot' = HeadBoot
    <3>1. CASE slave.queue = <<>>
      <4>1. Len(slave.queue) = 0
        BY <3>1, EmptySeq
      <4>2. slave'.queue[1] = frame
        BY <1>2, <4>1
      <4> QED
        BY <2>1, <3>1, <4>2 DEF HeadBoot
    <3>2. CASE slave.queue # <<>>
      <4>1. slave'.queue[1] = slave.queue[1]
        BY <1>2, <2>2, <3>2
      <4> QED
        BY <1>2, <3>2, <4>1 DEF HeadBoot
    <3> QED
      BY <3>1, <3>2
  <2>4. Reports' = Reports
    BY <1>1, <2>3 DEF Reports
  <2>5. ASSUME NEW i \in 2..Len(slave'.queue) PROVE slave'.queue[i].kind # "boot"
    <3>1. CASE i = Len(slave.queue) + 1
      BY <1>2, <2>1, <3>1
    <3>2. CASE i # Len(slave.queue) + 1
      <4>1. i \in 1..Len(slave.queue) /\ i \in 2..Len(slave.queue)
        BY <1>2, <3>2
      <4> QED
        BY <1>2, <4>1 DEF OneReport
    <3> QED
      BY <3>1, <3>2
  <2> QED
    BY <1>1, <1>5, <2>4, <2>5 DEF OneReport, DownEmpty
<1> QED
  BY <1>1, <1>4, <1>5

\* The report moves from the head of the queue into the armed transaction.
LEMMA ArmsKeepsOne ==
    ASSUME OnceInv, TypeOK', SlaveArms
    PROVE  OnceInv'
<1> USE DEF OnceInv
<1>1. /\ UNCHANGED <<rx_q, bootups, purged, ndev, tx_q>>
      /\ slave'.handshake = TRUE /\ slave'.power = slave.power /\ slave.power # "off"
      /\ slave.armed = NoFrame /\ slave.queue \in Seq(Frames)
  <2>1. ~slave.handshake
    BY DEF SlaveArms
  <2> QED
    BY <2>1 DEF SlaveArms, TypeOK, OneReport
<1>2. CASE slave.queue = <<>>
  <2>1. slave'.queue = slave.queue /\ slave'.armed = slave.armed
    BY <1>2 DEF SlaveArms, TypeOK
  <2>2. Reports' = Reports
    BY <1>1, <2>1 DEF Reports, HeadBoot
  <2> QED
    BY <1>1, <2>1, <2>2 DEF OneReport, DownEmpty
<1>3. CASE slave.queue # <<>>
  <2>1. slave'.queue = Tail(slave.queue) /\ slave'.armed = Head(slave.queue)
    BY <1>3 DEF SlaveArms, TypeOK
  <2>2. /\ Len(slave'.queue) = Len(slave.queue) - 1 /\ Len(slave.queue) \in Nat
        /\ \A i \in 1..Len(slave'.queue) : slave'.queue[i] = slave.queue[i + 1]
        /\ slave'.armed = slave.queue[1] /\ slave'.queue \in Seq(Frames)
    BY <1>1, <1>3, <2>1, HeadTailProperties, LenProperties
  <2>3. \A i \in 1..Len(slave'.queue) : slave'.queue[i].kind # "boot"
    <3>1. \A i \in 1..Len(slave'.queue) : i + 1 \in 2..Len(slave.queue)
      BY <2>2
    <3> QED
      BY <2>2, <3>1 DEF OneReport
  <2>4. ~HeadBoot'
    <3>1. slave'.queue # <<>> => Len(slave'.queue) # 0 /\ Len(slave'.queue) \in Nat
      BY <2>2, EmptySeq, LenProperties
    <3>2. slave'.queue # <<>> => 1 \in 1..Len(slave'.queue)
      BY <3>1
    <3> QED
      BY <2>3, <3>2 DEF HeadBoot
  <2>5. (slave'.armed.kind = "boot") = HeadBoot
    BY <1>3, <2>2 DEF HeadBoot
  <2>6. slave.armed.kind # "boot"
    BY <1>1 DEF NoFrame
  <2>7. Reports' = Reports
    <3>1. One(slave.armed.kind = "boot") = 0 /\ One(HeadBoot') = 0
      BY <2>4, <2>6 DEF One
    <3>2. One(slave'.armed.kind = "boot") = One(HeadBoot)
      BY <2>5 DEF One
    <3> QED
      BY <1>1, <3>1, <3>2, ReportParts DEF Reports
  <2>8. slave.power = "booted"
    BY <1>1, <1>3 DEF OneReport
  <2>9. \A i \in 2..Len(slave'.queue) : slave'.queue[i].kind # "boot"
    BY <2>2, <2>3
  <2> QED
    BY <1>1, <2>7, <2>8, <2>9 DEF OneReport, DownEmpty
<1> QED
  BY <1>2, <1>3

\* From there it moves to the receive queue, or is lost.
LEMMA EndsKeepsOne ==
    ASSUME OnceInv, TypeOK', WorkEnds
    PROVE  OnceInv'
<1> DEFINE r == Len(rx_q[PRIO_Q_HIGH])
           s == Len(rx_q'[PRIO_Q_HIGH])
<1> USE DEF OnceInv
<1>1. /\ UNCHANGED <<bootups, purged, ndev, tx_q>>
      /\ slave'.handshake = FALSE /\ slave'.armed = NoFrame
      /\ slave'.power = slave.power /\ slave'.queue = slave.queue
  BY DEF WorkEnds, TypeOK
<1>2. One(slave'.armed.kind = "boot") = 0 /\ HeadBoot' = HeadBoot
  BY <1>1 DEF One, NoFrame, HeadBoot
<1>3. r \in Nat /\ s \in Nat /\ s <= r + One(slave.armed.kind = "boot")
  <2>0. r \in Nat
    BY ReportParts
  <2>1. CASE slave.armed # NoFrame /\ data_path
    <3>1. rx_q' = Enqueue(rx_q, slave.armed) /\ slave.armed \in Frames
      BY <2>1 DEF WorkEnds, TypeOK
    <3>2. CASE slave.armed.kind = "boot"
      <4>1. Prio(slave.armed.kind) = PRIO_Q_HIGH /\ One(slave.armed.kind = "boot") = 1
        BY <3>2 DEF Prio, One
      <4>2. rx_q'[PRIO_Q_HIGH] = Append(rx_q[PRIO_Q_HIGH], slave.armed)
        BY <3>1, <4>1 DEF Enqueue, TypeOK, Prios
      <4>3. rx_q[PRIO_Q_HIGH] \in Seq(Frames)
        BY DEF TypeOK, Prios
      <4>4. s = r + 1
        BY <3>1, <4>2, <4>3, AppendProperties
      <4> QED
        BY <2>0, <4>1, <4>4
    <3>3. CASE slave.armed.kind # "boot"
      <4>1. Prio(slave.armed.kind) # PRIO_Q_HIGH /\ One(slave.armed.kind = "boot") = 0
        BY <3>3 DEF Prio, One, PRIO_Q_HIGH, PRIO_Q_MID, PRIO_Q_LOW
      <4>2. rx_q'[PRIO_Q_HIGH] = rx_q[PRIO_Q_HIGH]
        BY <3>1, <4>1 DEF Enqueue, TypeOK, Prios
      <4> QED
        BY <2>0, <4>1, <4>2
    <3> QED
      BY <3>2, <3>3
  <2>2. CASE ~(slave.armed # NoFrame /\ data_path)
    <3>1. s = r
      BY <2>2 DEF WorkEnds
    <3>2. One(slave.armed.kind = "boot") \in {0, 1}
      BY ReportParts
    <3> QED
      BY <2>0, <3>1, <3>2
  <2> QED
    BY <2>1, <2>2
<1> HIDE DEF r, s
<1>4. Reports' <= Reports /\ Reports' \in Nat /\ Reports \in Nat
  <2>1. /\ Reports = bootups + r + One(slave.armed.kind = "boot") + One(HeadBoot)
        /\ Reports' = bootups + s + 0 + One(HeadBoot)
    BY <1>1, <1>2 DEF Reports, r, s
  <2> QED
    BY <1>3, <2>1, ReportParts
<1> QED
  BY <1>1, <1>4 DEF OneReport, DownEmpty

\* From there it is passed on to events_work.
LEMMA RxKeepsOne ==
    ASSUME OnceInv, TypeOK', RxWork
    PROVE  OnceInv'
<1> USE DEF OnceInv
<1>1. /\ UNCHANGED <<purged, ndev, tx_q, slave>>
      /\ bootups' = bootups + Len(rx_q[PRIO_Q_HIGH])
      /\ rx_q'[PRIO_Q_HIGH] = <<>>
  BY DEF RxWork, EmptyQueues, Prios
<1>2. Len(rx_q'[PRIO_Q_HIGH]) = 0
  BY <1>1, EmptySeq
<1>3. Reports' = Reports
  BY <1>1, <1>2, ReportParts DEF Reports, HeadBoot
<1> QED
  BY <1>1, <1>3 DEF OneReport, DownEmpty

\* The clean-up uses it up, before anything is queued.
LEMMA BootupKeepsOne ==
    ASSUME OnceInv, TypeOK', BootupPurges \/ BootupEnds
    PROVE  OnceInv' /\ \A p \in Prios : tx_q[p] = <<>>
<1> USE DEF OnceInv
<1>1. UNCHANGED <<rx_q, slave>> /\ \A p \in Prios : tx_q'[p] = <<>>
  BY DEF BootupPurges, BootupEnds, EmptyQueues
<1>2. CASE BootupPurges
  <2>1. bootups' = bootups - 1 /\ bootups > 0 /\ purged' = TRUE /\ ndev' = ndev
    BY <1>2 DEF BootupPurges
  <2>2. Reports' = Reports - 1 /\ Reports >= 1 /\ Reports \in Nat
    BY <1>1, <2>1, ReportParts DEF Reports, HeadBoot
  <2>3. Reports' = 0 /\ ~ndev.up /\ slave.power = "booted"
    BY <2>2 DEF OneReport
  <2> QED
    BY <1>1, <2>1, <2>3 DEF OneReport, DownEmpty
<1>3. CASE BootupEnds
  <2>1. /\ purged /\ purged' = FALSE /\ bootups' = bootups
        /\ ndev' = [up |-> TRUE, stopped |-> FALSE]
    BY <1>3 DEF BootupEnds
  <2>2. Reports' = Reports /\ Reports = 0 /\ slave.power = "booted" /\ ~ndev.up
    BY <1>1, <2>1 DEF Reports, HeadBoot, OneReport, DownEmpty
  <2> QED
    BY <1>1, <2>1, <2>2 DEF OneReport, DownEmpty
<1> QED
  BY <1>2, <1>3

\* Every step keeps the one report.
LEMMA OnceStep ==
    ASSUME "reboot" \notin Faults, OnceInv, [Next]_vars
    PROVE  OnceInv'
<1>0. TypeOK'
  BY TypeStep DEF OnceInv
<1>1. CASE ProbeIrqs \/ ProbeOpen
  BY <1>0, <1>1, OnceKept DEF ProbeIrqs, ProbeOpen
<1>2. ASSUME NEW kind \in Kinds, Write(kind) PROVE OnceInv'
  <2>1. ndev.up
    BY <1>2 DEF Write, MayWrite
  <2> QED
    BY <1>0, <1>2, <2>1, OnceKept DEF Write
<1>3. ASSUME UNCHANGED <<rx_q, bootups, purged, slave>>, ndev'.up = ndev.up,
             tx_q' = tx_q \/ ndev.up
      PROVE  OnceInv'
  <2>1. Reports' = Reports
    BY <1>3 DEF Reports, HeadBoot
  <2> QED
    BY <1>0, <1>3, <2>1 DEF OnceInv, OneReport, DownEmpty
<1>4. ASSUME NEW kind \in Kinds, Pause(kind) PROVE OnceInv'
  <2>1. ndev'.up = ndev.up
    BY <1>4 DEF Pause, OnceInv, TypeOK
  <2> QED
    BY <1>3, <1>4, <2>1 DEF Pause
<1>5. CASE WorkIdles \/ WorkFails \/ UNCHANGED vars
  BY <1>0, <1>5, OnceKept DEF WorkIdles, WorkFails, vars
<1>6. CASE WorkTransfers \/ WorkRunsOut
  <2>1. PICK frame : Dequeue(frame)
    BY <1>6 DEF WorkTransfers, WorkRunsOut
  <2>2. UNCHANGED <<rx_q, bootups, purged, slave>>
    BY <1>6 DEF WorkTransfers, WorkRunsOut
  <2>3. ndev'.up = ndev.up /\ (tx_q' = tx_q \/ ndev.up)
    <3>1. CASE TxReady
      <4>1. ndev' = [ndev EXCEPT !.stopped = ndev'.stopped]
        BY <2>1, <3>1 DEF Dequeue, OnceInv, TypeOK
      <4>2. ndev.up
        BY <3>1 DEF TxReady, OnceInv, DownEmpty
      <4> QED
        BY <4>1, <4>2 DEF OnceInv, TypeOK
    <3>2. CASE ~TxReady
      BY <2>1, <3>2 DEF Dequeue
    <3> QED
      BY <3>1, <3>2
  <2> QED
    BY <1>3, <2>2, <2>3
<1>7. CASE SlaveUp
  <2>1. /\ UNCHANGED <<rx_q, bootups, purged, ndev, tx_q>>
        /\ slave'.armed = slave.armed /\ slave'.queue = slave.queue
        /\ slave'.handshake = TRUE /\ slave.power = "off" /\ slave'.power = "up"
    BY <1>7 DEF SlaveUp, OnceInv, TypeOK
  <2>2. Reports' = Reports
    BY <2>1 DEF Reports, HeadBoot
  <2> QED
    BY <1>0, <2>1, <2>2 DEF OnceInv, OneReport, DownEmpty
<1>8. ~SlaveReboots
  BY DEF SlaveReboots
<1> QED
  BY <1>0, <1>1, <1>2, <1>4, <1>5, <1>6, <1>7, <1>8, SendsKeepsOne, ArmsKeepsOne,
     EndsKeepsOne, RxKeepsOne, BootupKeepsOne DEF Next, Work

\* Every step keeps the count exact.
LEMMA ExactStep ==
    ASSUME "reboot" \notin Faults, OnceInv, ClosedEmpty, TxPendingExact, [Next]_vars
    PROVE  ClosedEmpty' /\ TxPendingExact'
<1>0. TypeOK /\ TypeOK' /\ Backlog \in Nat /\ tx_pending = Backlog
  <2>1. TypeOK
    BY DEF OnceInv
  <2>2. tx_pending = Backlog
    BY DEF TxPendingExact
  <2> QED
    BY <2>1, <2>2, TypeStep, BacklogNat
<1>1. ClosedEmpty'
  <2>1. PendingCovers
    BY <1>0 DEF PendingCovers
  <2> QED
    BY <1>0, <2>1, CountStep DEF CountInv
<1> SUFFICES TxPendingExact'
  BY <1>1
<1>2. CASE UNCHANGED <<tx_q, tx_pending>>
  BY <1>2 DEF TxPendingExact, Backlog
<1>3. CASE ProbeIrqs
  <2>1. ~data_path /\ tx_q' = tx_q /\ tx_pending' = 0
    BY <1>3 DEF ProbeIrqs, data_path
  <2>2. Backlog = 0 /\ Backlog' = Backlog
    BY <2>1, EmptyBacklog DEF ClosedEmpty, Backlog
  <2>3. tx_pending' = Backlog'
    BY <2>1, <2>2
  <2> QED
    BY <2>3 DEF TxPendingExact
<1>4. ASSUME NEW kind \in Kinds, Write(kind) PROVE TxPendingExact'
  <2>1. /\ tx_pending' = tx_pending + 1
        /\ written < MaxFrames
        /\ tx_q' = Enqueue(tx_q, [kind |-> kind, id |-> written + 1])
    BY <1>4 DEF Write, MayWrite, Counts
  <2>2. [kind |-> kind, id |-> written + 1] \in Frames
    <3>1. written \in Nat /\ kind \in TxKinds \cup {"boot"}
      BY <1>0, FrameFacts, KindsAssumption DEF TypeOK
    <3> QED
      BY <2>1, <3>1, NextFrame
  <2>3. Backlog' = Backlog + 1
    BY <1>0, <2>1, <2>2, EnqueueFacts DEF Backlog, TypeOK
  <2>4. tx_pending' = Backlog'
    BY <1>0, <2>1, <2>3
  <2> QED
    BY <2>4 DEF TxPendingExact
<1>5. CASE WorkTransfers \/ WorkRunsOut
  <2>1. PICK frame : Dequeue(frame)
    BY <1>5 DEF WorkTransfers, WorkRunsOut
  <2> QED
    BY <1>0, <2>1, DequeueFacts
<1>6. CASE BootupPurges \/ BootupEnds
  <2>1. Backlog = 0
    BY <1>0, <1>6, BootupKeepsOne, EmptyBacklog
  <2>2. \A p \in Prios : tx_q'[p] = <<>>
    BY <1>6 DEF BootupPurges, BootupEnds, EmptyQueues
  <2>3. /\ Len(tx_q'[PRIO_Q_HIGH]) = 0 /\ Len(tx_q'[PRIO_Q_MID]) = 0
        /\ Len(tx_q'[PRIO_Q_LOW]) = 0
    BY <2>2, EmptySeq DEF Prios
  <2>4. tx_pending' = 0
    BY <1>0, <1>6, <2>1 DEF BootupPurges, BootupEnds
  <2>5. Backlog' = 0
    BY <2>3 DEF Backlog
  <2> QED
    BY <2>4, <2>5 DEF TxPendingExact
<1>7. ASSUME NEW kind \in Kinds, Pause(kind) PROVE TxPendingExact'
  BY <1>2, <1>7 DEF Pause
<1>8. ASSUME NEW kind \in RxKinds \cup {"boot"}, SlaveSends(kind) PROVE TxPendingExact'
  BY <1>2, <1>8 DEF SlaveSends
<1>9. CASE \/ ProbeOpen \/ WorkIdles \/ WorkEnds \/ WorkFails \/ RxWork
           \/ SlaveUp \/ SlaveArms \/ SlaveReboots \/ UNCHANGED vars
  BY <1>2, <1>9 DEF ProbeOpen, WorkIdles, WorkEnds, WorkFails, RxWork, SlaveUp, SlaveArms,
                    SlaveReboots, vars
<1> QED
  BY <1>3, <1>4, <1>5, <1>6, <1>7, <1>8, <1>9 DEF Next, Work

\* Where the slave boots once, tx_pending is the number of queued frames, though
\* transactions fail and frames are given up (write_packet, esp_spi_work): the
\* only clean-up finds the queues empty.
THEOREM ExactSafe == "reboot" \notin Faults => (Spec => []TxPendingExact)
<1> SUFFICES ASSUME "reboot" \notin Faults PROVE Spec => []TxPendingExact
  OBVIOUS
<1>1. Init => OnceInv /\ ClosedEmpty /\ TxPendingExact
  <2> SUFFICES ASSUME Init PROVE OnceInv /\ ClosedEmpty /\ TxPendingExact
    OBVIOUS
  <2>1. \A p \in Prios : tx_q[p] = <<>>
    BY DEF Init, EmptyQueues
  <2>2. Backlog = 0 /\ tx_pending = 0
    BY <2>1, EmptyBacklog DEF Init
  <2> QED
    BY <2>1, <2>2, OnceInit DEF ClosedEmpty, TxPendingExact
<1>2. OnceInv /\ ClosedEmpty /\ TxPendingExact /\ [Next]_vars
        => (OnceInv /\ ClosedEmpty /\ TxPendingExact)'
  BY OnceStep, ExactStep
<1> QED
  BY <1>1, <1>2, PTL DEF Spec

----------------------------------------------------------------------------
(* Towards the slave the link implements a FIFO queue per priority.        *)

\* Nothing is given up and the slave boots once.
Calm == Reliable /\ "reboot" \notin Faults

\* Every queue holds frames of its own priority.
Sorted == \A p \in Prios : \A i \in 1..Len(tx_q[p]) : Prio(tx_q[p][i].kind) = p

\* A transaction runs while the slave is armed, and only then holds a frame.
Carried == IF xfer.busy THEN slave.handshake ELSE xfer.tx = NoFrame

DownInv == OnceInv /\ Sorted /\ Carried

\* The frame taken off is of its queue's priority, and the queues stay sorted.
LEMMA DequeueSorted ==
    ASSUME TypeOK, Sorted, NEW frame, Dequeue(frame)
    PROVE  /\ Sorted'
           /\ \/ frame = NoFrame /\ tx_q' = tx_q
              \/ /\ frame \in Frames
                 /\ \A p \in Prios : tx_q[p] = IF Prio(frame.kind) = p
                                               THEN <<frame>> \o tx_q'[p]
                                               ELSE tx_q'[p]
<1>1. CASE ~TxReady
  BY <1>1 DEF Dequeue, Sorted
<1>2. CASE TxReady
  <2> DEFINE p == FirstBusy
  <2>1. p \in Prios /\ tx_q[p] # <<>> /\ tx_q[p] \in Seq(Frames)
    BY <1>2, FirstBusyFacts DEF TypeOK
  <2>2. frame = Head(tx_q[p]) /\ tx_q' = [tx_q EXCEPT ![p] = Tail(tx_q[p])]
    BY <1>2, <2>1 DEF Dequeue
  <2> HIDE DEF p
  <2>3. /\ frame = tx_q[p][1] /\ frame \in Frames
        /\ Tail(tx_q[p]) \in Seq(Frames)
        /\ Len(Tail(tx_q[p])) = Len(tx_q[p]) - 1
        /\ \A i \in 1..Len(Tail(tx_q[p])) : Tail(tx_q[p])[i] = tx_q[p][i + 1]
        /\ Len(tx_q[p]) \in Nat /\ Len(tx_q[p]) >= 1
        /\ tx_q[p] = <<frame>> \o Tail(tx_q[p])
    <3>1. Len(tx_q[p]) \in Nat /\ Len(tx_q[p]) # 0
      BY <2>1, LenProperties, EmptySeq
    <3>2. /\ Head(tx_q[p]) = tx_q[p][1] /\ Head(tx_q[p]) \in Frames
          /\ Tail(tx_q[p]) \in Seq(Frames)
          /\ Len(Tail(tx_q[p])) = Len(tx_q[p]) - 1
          /\ \A i \in 1..Len(Tail(tx_q[p])) : Tail(tx_q[p])[i] = tx_q[p][i + 1]
      BY <2>1, HeadTailProperties
    <3>3. tx_q[p] = <<Head(tx_q[p])>> \o Tail(tx_q[p])
      BY <2>1
    <3> QED
      BY <2>2, <3>1, <3>2, <3>3
  <2>4. Prio(frame.kind) = p
    <3>1. 1 \in 1..Len(tx_q[p])
      BY <2>3
    <3> QED
      BY <2>1, <2>3, <3>1 DEF Sorted
  <2>5. \A x \in Prios : tx_q'[x] = IF x = p THEN Tail(tx_q[p]) ELSE tx_q[x]
    BY <2>1, <2>2 DEF TypeOK
  <2>6. Sorted'
    <3> SUFFICES ASSUME NEW x \in Prios, NEW i \in 1..Len(tx_q'[x])
                 PROVE  Prio(tx_q'[x][i].kind) = x
      BY DEF Sorted
    <3>1. CASE x = p
      <4>1. tx_q'[x] = Tail(tx_q[p]) /\ i \in 1..Len(Tail(tx_q[p]))
        BY <2>5, <3>1
      <4>2. i + 1 \in 1..Len(tx_q[p]) /\ tx_q'[x][i] = tx_q[p][i + 1]
        BY <2>3, <4>1
      <4> QED
        BY <2>1, <3>1, <4>2 DEF Sorted
    <3>2. CASE x # p
      BY <2>5, <3>2 DEF Sorted
    <3> QED
      BY <3>1, <3>2
  <2>7. \A x \in Prios : tx_q[x] = IF Prio(frame.kind) = x THEN <<frame>> \o tx_q'[x]
                                                          ELSE tx_q'[x]
    BY <2>3, <2>4, <2>5
  <2> QED
    BY <2>3, <2>6, <2>7
<1> QED
  BY <1>1, <1>2

\* Every step keeps the queues sorted and the transaction's frame in hand.
LEMMA DownInvStep ==
    ASSUME "reboot" \notin Faults, DownInv, [Next]_vars
    PROVE  DownInv'
<1>0. TypeOK /\ OnceInv /\ OnceInv' /\ Sorted /\ Carried
  BY OnceStep DEF DownInv, OnceInv
<1> SUFFICES Sorted' /\ Carried'
  BY <1>0 DEF DownInv
<1>1. ASSUME UNCHANGED <<tx_q, xfer>>, slave.handshake => slave'.handshake
      PROVE  Sorted' /\ Carried'
  BY <1>0, <1>1 DEF Sorted, Carried
<1>2. ASSUME NEW kind \in Kinds, Write(kind) PROVE Sorted' /\ Carried'
  <2> DEFINE frame == [kind |-> kind, id |-> written + 1]
             p == Prio(kind)
  <2>1. /\ tx_q' = [tx_q EXCEPT ![p] = Append(tx_q[p], frame)]
        /\ UNCHANGED <<xfer, slave>> /\ p \in Prios /\ written < MaxFrames
    BY <1>2, FrameFacts DEF Write, MayWrite, Enqueue
  <2>2. frame \in Frames /\ frame.kind = kind
    <3>1. written \in Nat /\ kind \in TxKinds \cup {"boot"}
      BY <1>0, FrameFacts, KindsAssumption DEF TypeOK
    <3> QED
      BY <2>1, <3>1, NextFrame
  <2>3. Carried'
    BY <1>0, <2>1 DEF Carried
  <2>4. tx_q[p] \in Seq(Frames)
    BY <1>0, <2>1 DEF TypeOK
  <2> HIDE DEF frame
  <2>5. Prio(frame.kind) = p
    BY <2>2
  <2> HIDE DEF p
  <2>6. ASSUME NEW x \in Prios, NEW i \in 1..Len(tx_q'[x])
        PROVE  Prio(tx_q'[x][i].kind) = x
    <3>1. CASE x = p
      <4>1. /\ tx_q'[x] = Append(tx_q[p], frame) /\ Len(tx_q[p]) \in Nat
            /\ Len(Append(tx_q[p], frame)) = Len(tx_q[p]) + 1
            /\ \A j \in 1..Len(tx_q[p]) : Append(tx_q[p], frame)[j] = tx_q[p][j]
            /\ Append(tx_q[p], frame)[Len(tx_q[p]) + 1] = frame
        <5>1. tx_q'[x] = Append(tx_q[p], frame)
          BY <1>0, <2>1, <3>1 DEF TypeOK
        <5> QED
          BY <2>2, <2>4, <5>1, AppendProperties, LenProperties
      <4>2. CASE i = Len(tx_q[p]) + 1
        BY <2>5, <3>1, <4>1, <4>2
      <4>3. CASE i # Len(tx_q[p]) + 1
        <5>1. i \in 1..Len(tx_q[p]) /\ tx_q'[x][i] = tx_q[p][i]
          BY <4>1, <4>3
        <5> QED
          BY <1>0, <2>1, <3>1, <5>1 DEF Sorted
      <4> QED
        BY <4>2, <4>3
    <3>2. CASE x # p
      <4>1. tx_q'[x] = tx_q[x]
        BY <1>0, <2>1, <3>2 DEF TypeOK
      <4> QED
        BY <1>0, <4>1 DEF Sorted
    <3> QED
      BY <3>1, <3>2
  <2> QED
    BY <2>3, <2>6 DEF Sorted
<1>3. CASE WorkTransfers
  <2>1. PICK frame : Dequeue(frame) /\ xfer' = [busy |-> TRUE, tx |-> frame]
    BY <1>3 DEF WorkTransfers
  <2>2. slave.handshake /\ slave' = slave
    BY <1>3 DEF WorkTransfers
  <2> QED
    BY <1>0, <2>1, <2>2, DequeueSorted DEF Carried
<1>4. CASE WorkRunsOut
  <2>1. PICK frame : Dequeue(frame)
    BY <1>4 DEF WorkRunsOut
  <2> QED
    BY <1>0, <1>4, <2>1, DequeueSorted DEF Carried, WorkRunsOut
<1>5. CASE WorkEnds \/ WorkFails
  <2>1. xfer' = [busy |-> FALSE, tx |-> NoFrame] /\ tx_q' = tx_q
    BY <1>5 DEF WorkEnds, WorkFails
  <2> QED
    BY <1>0, <2>1 DEF Sorted, Carried
<1>6. CASE BootupPurges \/ BootupEnds
  <2>1. /\ \A p \in Prios : tx_q'[p] = <<>>
        /\ UNCHANGED <<xfer, slave>>
    BY <1>6 DEF BootupPurges, BootupEnds, EmptyQueues
  <2>2. \A p \in Prios : Len(tx_q'[p]) = 0
    BY <2>1, EmptySeq
  <2>3. Sorted'
    <3>1. \A p \in Prios : 1..Len(tx_q'[p]) = {}
      BY <2>2
    <3> QED
      BY <3>1 DEF Sorted
  <2> QED
    BY <1>0, <2>1, <2>3 DEF Carried
<1>7. CASE SlaveUp \/ SlaveArms
  <2>1. slave'.handshake = TRUE /\ UNCHANGED <<tx_q, xfer>>
    BY <1>0, <1>7 DEF SlaveUp, SlaveArms, TypeOK
  <2> QED
    BY <1>1, <2>1
<1>8. ASSUME NEW kind \in RxKinds \cup {"boot"}, SlaveSends(kind)
      PROVE  Sorted' /\ Carried'
  <2>1. slave'.handshake = slave.handshake /\ UNCHANGED <<tx_q, xfer>>
    BY <1>0, <1>8 DEF SlaveSends, TypeOK
  <2> QED
    BY <1>1, <2>1
<1>9. ASSUME NEW kind \in Kinds, Pause(kind) PROVE Sorted' /\ Carried'
  BY <1>1, <1>9 DEF Pause
<1>10. CASE ProbeIrqs \/ ProbeOpen \/ WorkIdles \/ RxWork \/ UNCHANGED vars
  BY <1>1, <1>10 DEF ProbeIrqs, ProbeOpen, WorkIdles, RxWork, vars
<1>11. ~SlaveReboots
  BY DEF SlaveReboots
<1> QED
  BY <1>2, <1>3, <1>4, <1>5, <1>6, <1>7, <1>8, <1>9, <1>10, <1>11 DEF Next, Work

\* What the slave has not got yet.
DownChan == [p \in Prios |-> InTransfer(p) \o tx_q[p]]

\* Every step accepts a frame, hands frames over in order, or is a stutter.
LEMMA DownStep ==
    ASSUME Calm, DownInv, [Next]_vars
    PROVE  [Down!LNext]_<<DownChan, got>>
<1>0. TypeOK /\ TypeOK' /\ OnceInv /\ OnceInv' /\ Sorted /\ Carried
  BY OnceStep DEF DownInv, OnceInv, Calm
<1>1. ASSUME UNCHANGED <<tx_q, xfer, got>> PROVE UNCHANGED <<DownChan, got>>
  BY <1>1 DEF DownChan, InTransfer
<1>2. ASSUME NEW kind \in Kinds, Write(kind) PROVE Down!LNext
  <2> DEFINE frame == [kind |-> kind, id |-> written + 1]
             p == Prio(kind)
  <2>1. /\ tx_q' = [tx_q EXCEPT ![p] = Append(tx_q[p], frame)]
        /\ UNCHANGED <<xfer, got>> /\ p \in Prios /\ written < MaxFrames
    BY <1>2, FrameFacts DEF Write, MayWrite, Enqueue
  <2>2. frame \in Frames
    <3>1. written \in Nat /\ kind \in TxKinds \cup {"boot"}
      BY <1>0, FrameFacts, KindsAssumption DEF TypeOK
    <3> QED
      BY <2>1, <3>1, NextFrame
  <2> HIDE DEF frame, p
  <2>3. InTransfer(p) \in Seq(Frames) /\ tx_q[p] \in Seq(Frames)
    BY <1>0, <2>1 DEF InTransfer, TypeOK
  <2>4. InTransfer(p) \o Append(tx_q[p], frame) = Append(InTransfer(p) \o tx_q[p], frame)
    BY <2>2, <2>3
  <2>5. \A x \in Prios : /\ tx_q'[x] = IF x = p THEN Append(tx_q[p], frame) ELSE tx_q[x]
                         /\ InTransfer(x)' = InTransfer(x)
    BY <1>0, <2>1 DEF TypeOK, InTransfer
  <2>6. DownChan' = [DownChan EXCEPT ![p] = Append(@, frame)]
    <3>1. \A x \in Prios : /\ DownChan[x] = InTransfer(x) \o tx_q[x]
                           /\ DownChan'[x] = InTransfer(x)' \o tx_q'[x]
      BY DEF DownChan
    <3>2. ASSUME NEW x \in Prios
          PROVE  DownChan'[x] = IF x = p THEN Append(DownChan[p], frame) ELSE DownChan[x]
      <4>1. CASE x = p
        BY <2>1, <2>4, <2>5, <3>1, <4>1
      <4>2. CASE x # p
        <5>1. tx_q'[x] = tx_q[x] /\ InTransfer(x)' = InTransfer(x)
          BY <2>5, <4>2
        <5> QED
          BY <3>1, <4>2, <5>1
      <4> QED
        BY <4>1, <4>2
    <3>3. /\ DownChan = [x \in Prios |-> DownChan[x]]
          /\ DownChan' = [x \in Prios |-> DownChan'[x]]
      BY DEF DownChan
    <3> HIDE DEF DownChan
    <3> QED
      BY ONLY <2>1, <3>2, <3>3
  <2> QED
    BY <2>1, <2>2, <2>6 DEF Down!LNext, Down!Accept, DownChan
<1>3. CASE WorkTransfers
  <2>1. PICK frame : Dequeue(frame) /\ xfer' = [busy |-> TRUE, tx |-> frame]
    BY <1>3 DEF WorkTransfers
  <2>2. xfer.tx = NoFrame /\ got' = got
    BY <1>0, <1>3 DEF WorkTransfers, WorkRuns, Carried
  <2>3. ASSUME NEW x \in Prios
        PROVE  InTransfer(x)' \o tx_q'[x] = InTransfer(x) \o tx_q[x]
    <3>1. InTransfer(x) = <<>> /\ tx_q[x] \in Seq(Frames) /\ tx_q'[x] \in Seq(Frames)
      BY <1>0, <2>2 DEF InTransfer, TypeOK
    <3>2. InTransfer(x) \o tx_q[x] = tx_q[x] /\ <<>> \o tx_q'[x] = tx_q'[x]
      BY <3>1, ConcatEmptySeq
    <3>3. CASE frame = NoFrame /\ tx_q' = tx_q
      BY <2>1, <3>1, <3>2, <3>3 DEF InTransfer
    <3>4. CASE /\ frame \in Frames
               /\ tx_q[x] = IF Prio(frame.kind) = x THEN <<frame>> \o tx_q'[x] ELSE tx_q'[x]
      BY <2>1, <3>2, <3>4, FrameFacts DEF InTransfer
    <3> QED
      BY <1>0, <2>1, <3>3, <3>4, DequeueSorted
  <2>4. DownChan' = DownChan
    BY <2>3 DEF DownChan
  <2> QED
    BY <2>2, <2>4
<1>4. CASE WorkEnds
  <2>1. /\ slave.handshake /\ tx_q' = tx_q
        /\ got' = IF xfer.tx # NoFrame
                  THEN [got EXCEPT ![Prio(xfer.tx.kind)] = Append(@, xfer.tx)]
                  ELSE got
        /\ xfer'.tx = NoFrame
    BY <1>0, <1>4 DEF WorkEnds, Carried
  <2>2. ASSUME NEW x \in Prios
        PROVE  /\ Len(got'[x]) >= Len(got[x])
               /\ got'[x] \o DownChan'[x] = got[x] \o DownChan[x]
    <3>1. tx_q[x] \in Seq(Frames) /\ got[x] \in Seq(Frames) /\ Len(got[x]) \in Nat
      BY <1>0, LenProperties DEF TypeOK
    <3>2. DownChan'[x] = tx_q[x]
      <4>1. InTransfer(x)' = <<>>
        BY <2>1 DEF InTransfer
      <4> QED
        BY <2>1, <3>1, <4>1, ConcatEmptySeq DEF DownChan
    <3>3. CASE xfer.tx # NoFrame /\ Prio(xfer.tx.kind) = x
      <4>1. /\ got'[x] = Append(got[x], xfer.tx) /\ xfer.tx \in Frames
            /\ DownChan[x] = <<xfer.tx>> \o tx_q[x]
        BY <1>0, <2>1, <3>3 DEF TypeOK, DownChan, InTransfer
      <4>2. Len(Append(got[x], xfer.tx)) = Len(got[x]) + 1
        BY <3>1, <4>1, AppendProperties
      <4>3. Append(got[x], xfer.tx) \o tx_q[x] = got[x] \o (<<xfer.tx>> \o tx_q[x])
        <5> HIDE DEF TypeOK
        <5>1. \A f \in Frames, u \in Seq(Frames), v \in Seq(Frames) :
                 Append(u, f) \o v = u \o (<<f>> \o v)
          OBVIOUS
        <5> QED
          BY <3>1, <4>1, <5>1
      <4> QED
        BY <3>1, <3>2, <4>1, <4>2, <4>3
    <3>4. CASE ~(xfer.tx # NoFrame /\ Prio(xfer.tx.kind) = x)
      <4>1. got'[x] = got[x] /\ InTransfer(x) = <<>>
        BY <1>0, <2>1, <3>4 DEF TypeOK, InTransfer
      <4>2. DownChan[x] = tx_q[x]
        BY <3>1, <4>1, ConcatEmptySeq DEF DownChan
      <4> QED
        BY <3>1, <3>2, <4>1, <4>2
    <3> QED
      BY <3>3, <3>4
  <2> QED
    BY <2>2 DEF Down!LNext, Down!Deliver, DownChan
<1>5. CASE BootupPurges \/ BootupEnds
  <2>1. tx_q' = tx_q /\ UNCHANGED <<xfer, got>>
    <3>1. \A p \in Prios : tx_q[p] = <<>>
      BY <1>0, <1>5, BootupKeepsOne
    <3>2. tx_q' = EmptyQueues /\ UNCHANGED <<xfer, got>>
      BY <1>5 DEF BootupPurges, BootupEnds
    <3> QED
      BY <1>0, <3>1, <3>2 DEF TypeOK, EmptyQueues
  <2> QED
    BY <1>1, <2>1
<1>6. ASSUME NEW kind \in Kinds, Pause(kind) PROVE UNCHANGED <<DownChan, got>>
  BY <1>1, <1>6 DEF Pause
<1>7. ASSUME NEW kind \in RxKinds \cup {"boot"}, SlaveSends(kind)
      PROVE  UNCHANGED <<DownChan, got>>
  BY <1>1, <1>7 DEF SlaveSends
<1>8. CASE \/ ProbeIrqs \/ ProbeOpen \/ WorkIdles \/ RxWork
           \/ SlaveUp \/ SlaveArms \/ UNCHANGED vars
  BY <1>1, <1>8 DEF ProbeIrqs, ProbeOpen, WorkIdles, RxWork, SlaveUp, SlaveArms, vars
<1>9. ~WorkRunsOut /\ ~WorkFails /\ ~SlaveReboots
  BY DEF Calm, Reliable, WorkRunsOut, WorkFails, SlaveReboots
<1> QED
  BY <1>2, <1>3, <1>4, <1>5, <1>6, <1>7, <1>8, <1>9 DEF Next, Work

\* While nothing is given up and the slave boots once, what write_packet accepts
\* reaches the slave as through a FIFO queue per priority, whatever it does at
\* the same time (esp_spi_work, write_packet, the clean-up of the first boot).
THEOREM DownIsFifo == Calm => (Spec => Down!LinkSpec)
<1> SUFFICES ASSUME Calm PROVE Spec => Down!LinkSpec
  OBVIOUS
<1>1. Init => Down!LInit
  <2> SUFFICES ASSUME Init PROVE Down!LInit
    OBVIOUS
  <2>1. /\ xfer.tx = NoFrame /\ got = [p \in Prios |-> <<>>]
        /\ \A p \in Prios : tx_q[p] = <<>>
    BY DEF Init, EmptyQueues
  <2>2. \A p \in Prios : InTransfer(p) \o tx_q[p] = <<>>
    BY <2>1, EmptySeq, ConcatEmptySeq DEF InTransfer
  <2> QED
    BY <2>1, <2>2 DEF Down!LInit
<1>2. Init => DownInv
  <2> SUFFICES ASSUME Init PROVE DownInv
    OBVIOUS
  <2>1. /\ \A p \in Prios : tx_q[p] = <<>>
        /\ xfer = [busy |-> FALSE, tx |-> NoFrame]
    BY DEF Init, EmptyQueues
  <2>2. \A p \in Prios : Len(tx_q[p]) = 0
    BY <2>1, EmptySeq
  <2>3. \A p \in Prios : 1..Len(tx_q[p]) = {}
    BY <2>2
  <2> QED
    BY <2>1, <2>3, OnceInit DEF DownInv, Sorted, Carried
<1>3. DownInv /\ [Next]_vars => DownInv'
  BY DownInvStep DEF Calm
<1>4. DownInv /\ [Next]_vars => [Down!LNext]_<<DownChan, got>>
  BY DownStep
<1> QED
  BY <1>1, <1>2, <1>3, <1>4, PTL DEF Spec, Down!LinkSpec, DownChan

----------------------------------------------------------------------------
(* The frames of one priority in a queue of several.                       *)

\* A function from 1..n is a sequence of length n.
LEMMA FunctionSeq ==
    ASSUME NEW S, NEW n \in Nat, NEW f \in [1..n -> S]
    PROVE  f \in Seq(S) /\ Len(f) = n
OBVIOUS

\* The rank counts from one, and grows along the places.
LEMMA RankFacts ==
    ASSUME NEW n \in Nat, NEW S \in SUBSET (1..n)
    PROVE  /\ IsFiniteSet(S) /\ Cardinality(S) \in Nat
           /\ \A i \in S : Rank(S, i) \in 1..Cardinality(S)
           /\ \A i, j \in S : Rank(S, i) = Rank(S, j) => i = j
<1> DEFINE Upto(i) == {k \in S : k <= i}
<1>1. IsFiniteSet(S) /\ Cardinality(S) \in Nat
  <2>1. IsFiniteSet(1..n)
    BY FS_Interval
  <2>2. IsFiniteSet(S)
    BY <2>1, FS_Subset
  <2> QED
    BY <2>2, FS_CardinalityType
<1>2. ASSUME NEW i \in S
      PROVE  /\ IsFiniteSet(Upto(i)) /\ Cardinality(Upto(i)) \in Nat
             /\ Cardinality(Upto(i)) <= Cardinality(S) /\ Cardinality(Upto(i)) >= 1
  <2>1. Upto(i) \in SUBSET S /\ i \in Upto(i)
    <3>1. i <= i
      BY i \in 1..n
    <3> QED
      BY <3>1
  <2>2. IsFiniteSet(Upto(i)) /\ Cardinality(Upto(i)) <= Cardinality(S)
    BY <1>1, <2>1, FS_Subset
  <2>3. Cardinality(Upto(i)) \in Nat /\ Cardinality(Upto(i)) # 0
    BY <2>1, <2>2, FS_CardinalityType, FS_EmptySet
  <2> QED
    BY <2>2, <2>3
<1>3. \A i \in S : Rank(S, i) = Cardinality(Upto(i))
  BY DEF Rank
<1>4. ASSUME NEW i \in S, NEW j \in S, i < j
      PROVE  Cardinality(Upto(i)) < Cardinality(Upto(j))
  <2>1. i \in 1..n /\ j \in 1..n /\ \A k \in S : k \in 1..n
    OBVIOUS
  <2>2. Upto(i) \cup {j} \in SUBSET Upto(j) /\ j \notin Upto(i)
    <3>1. j <= j /\ ~(j <= i)
      BY <1>4, <2>1
    <3>2. \A k \in S : k <= i => k <= j
      BY <1>4, <2>1
    <3> QED
      BY <3>1, <3>2
  <2>3. Cardinality(Upto(i) \cup {j}) = Cardinality(Upto(i)) + 1
    BY <1>2, <2>2, FS_AddElement
  <2>4. Cardinality(Upto(i) \cup {j}) <= Cardinality(Upto(j))
    BY <1>2, <2>2, FS_Subset
  <2> HIDE DEF Upto
  <2> QED
    BY <1>2, <2>3, <2>4
<1> HIDE DEF Upto
<1>5. \A i \in S : Rank(S, i) \in 1..Cardinality(S)
  BY <1>1, <1>2, <1>3
<1>6. ASSUME NEW i \in S, NEW j \in S, Rank(S, i) = Rank(S, j) PROVE i = j
  <2>1. Cardinality(Upto(i)) = Cardinality(Upto(j))
    BY <1>3, <1>6
  <2>2. i \in 1..n /\ j \in 1..n
    OBVIOUS
  <2>3. ~(i < j) /\ ~(j < i)
    BY <1>2, <1>4, <2>1
  <2> QED
    BY <2>2, <2>3
<1> QED
  BY <1>1, <1>5, <1>6

\* Every rank is taken, and Nth finds the place that has it.
LEMMA NthFacts ==
    ASSUME NEW n \in Nat, NEW S \in SUBSET (1..n)
    PROVE  /\ \A k \in 1..Cardinality(S) : Nth(S, k) \in S /\ Rank(S, Nth(S, k)) = k
           /\ \A i \in S : Nth(S, Rank(S, i)) = i
<1> DEFINE C == 1..Cardinality(S)
           f == [i \in S |-> Rank(S, i)]
<1>1. /\ IsFiniteSet(S) /\ Cardinality(S) \in Nat
      /\ \A i \in S : Rank(S, i) \in C
      /\ \A i, j \in S : Rank(S, i) = Rank(S, j) => i = j
  BY RankFacts
<1>2. IsFiniteSet(C) /\ Cardinality(C) = Cardinality(S)
  BY <1>1, FS_Interval
<1> HIDE DEF C
<1>3. f \in Injection(S, C)
  BY <1>1 DEF Injection, IsInjective
<1>4. f \in Surjection(S, C)
  BY <1>2, <1>3, FS_Injection
<1>5. \A k \in C : \E i \in S : Rank(S, i) = k
  BY <1>4 DEF Surjection
<1>6. ASSUME NEW k \in C PROVE Nth(S, k) \in S /\ Rank(S, Nth(S, k)) = k
  <2>1. \E i \in S : Rank(S, i) = k
    BY <1>5
  <2> QED
    BY <2>1, Zenon DEF Nth
<1>7. ASSUME NEW i \in S PROVE Nth(S, Rank(S, i)) = i
  <2>1. Rank(S, i) \in C
    BY <1>1
  <2>2. Nth(S, Rank(S, i)) \in S /\ Rank(S, Nth(S, Rank(S, i))) = Rank(S, i)
    BY <1>6, <2>1
  <2> QED
    BY <1>1, <2>2
<1> QED
  BY <1>6, <1>7 DEF C

\* What the selection holds: as many frames as stand in the queue, each at its
\* rank.
LEMMA OfPrioFacts ==
    ASSUME NEW p, NEW s \in Seq(Frames)
    PROVE  /\ At(p, s) \in SUBSET (1..Len(s)) /\ Cardinality(At(p, s)) \in Nat
           /\ OfPrio(p, s) \in Seq(Frames)
           /\ Len(OfPrio(p, s)) = Cardinality(At(p, s))
           /\ \A i \in At(p, s) : /\ Rank(At(p, s), i) \in 1..Cardinality(At(p, s))
                                  /\ OfPrio(p, s)[Rank(At(p, s), i)] = s[i]
           /\ \A k \in 1..Cardinality(At(p, s)) :
                 \E i \in At(p, s) : Rank(At(p, s), i) = k
<1> DEFINE A == At(p, s)
<1>1. Len(s) \in Nat /\ A \in SUBSET (1..Len(s)) /\ \A i \in A : s[i] \in Frames
  BY LenProperties, ElementOfSeq DEF At
<1> HIDE DEF A
<1>2. /\ Cardinality(A) \in Nat
      /\ \A i \in A : Rank(A, i) \in 1..Cardinality(A)
  BY <1>1, RankFacts
<1>3. /\ \A k \in 1..Cardinality(A) : Nth(A, k) \in A /\ Rank(A, Nth(A, k)) = k
      /\ \A i \in A : Nth(A, Rank(A, i)) = i
  BY <1>1, NthFacts
<1>4. OfPrio(p, s) = [k \in 1..Cardinality(A) |-> s[Nth(A, k)]]
  BY DEF OfPrio, A
<1>5. OfPrio(p, s) \in [1..Cardinality(A) -> Frames]
  BY <1>1, <1>3, <1>4
<1>6. OfPrio(p, s) \in Seq(Frames) /\ Len(OfPrio(p, s)) = Cardinality(A)
  BY <1>2, <1>5, FunctionSeq
<1>7. \A i \in A : OfPrio(p, s)[Rank(A, i)] = s[i]
  BY <1>2, <1>3, <1>4, Zenon
<1>8. \A k \in 1..Cardinality(A) : \E i \in A : Rank(A, i) = k
  BY <1>3, Zenon
<1> QED
  BY <1>1, <1>2, <1>6, <1>7, <1>8 DEF A

\* Moving places up by n changes neither their number nor their order.
LEMMA ShiftCount ==
    ASSUME NEW n \in Nat, NEW S \in SUBSET Nat, IsFiniteSet(S)
    PROVE  /\ IsFiniteSet({i + n : i \in S})
           /\ Cardinality({i + n : i \in S}) = Cardinality(S)
<1> DEFINE T == {i + n : i \in S}
           f == [i \in S |-> i + n]
<1>1. f \in [S -> T]
  OBVIOUS
<1>2. \A i, j \in S : f[i] = f[j] => i = j
  <2>1. \A i \in S : i \in Nat /\ f[i] = i + n
    OBVIOUS
  <2> HIDE DEF f
  <2> QED
    BY <2>1
<1>3. \A t \in T : \E i \in S : f[i] = t
  OBVIOUS
<1> HIDE DEF T, f
<1>4. f \in Bijection(S, T)
  BY <1>1, <1>2, <1>3 DEF Bijection, Injection, Surjection, IsInjective
<1>5. ExistsBijection(S, T)
  BY <1>4 DEF ExistsBijection
<1>6. IsFiniteSet(T) /\ Cardinality(T) = Cardinality(S)
  BY <1>5, FS_Bijection
<1> QED
  BY <1>6 DEF T

\* Where the frames of priority p stand in two queues put together.
LEMMA ConcatPlaces ==
    ASSUME NEW p, NEW s \in Seq(Frames), NEW t \in Seq(Frames)
    PROVE  /\ At(p, s \o t) = At(p, s) \cup {i + Len(s) : i \in At(p, t)}
           /\ Cardinality(At(p, s \o t)) = Cardinality(At(p, s)) + Cardinality(At(p, t))
           /\ \A i \in At(p, s) : Rank(At(p, s \o t), i) = Rank(At(p, s), i)
           /\ \A i \in At(p, t) : Rank(At(p, s \o t), i + Len(s))
                                    = Cardinality(At(p, s)) + Rank(At(p, t), i)
<1> DEFINE n == Len(s)
           A == At(p, s)
           B == At(p, t)
           C == At(p, s \o t)
           Raised(S) == {i + n : i \in S}
<1>1. /\ n \in Nat /\ Len(t) \in Nat /\ s \o t \in Seq(Frames)
      /\ Len(s \o t) = n + Len(t)
      /\ \A i \in 1..(n + Len(t)) : (s \o t)[i] = IF i <= n THEN s[i] ELSE t[i - n]
  BY LenProperties, ConcatProperties
<1>2. /\ A = {i \in 1..n : Prio(s[i].kind) = p}
      /\ B = {i \in 1..Len(t) : Prio(t[i].kind) = p}
      /\ C = {i \in 1..(n + Len(t)) : Prio((s \o t)[i].kind) = p}
  BY <1>1, LenProperties DEF At
<1>3. A \in SUBSET (1..n) /\ B \in SUBSET (1..Len(t))
  BY <1>2
<1>4. C = A \cup Raised(B)
  <2> DEFINE u == s \o t
             l == Len(t)
  <2>1. /\ A = {i \in 1..n : Prio(s[i].kind) = p}
        /\ B = {i \in 1..l : Prio(t[i].kind) = p}
        /\ C = {i \in 1..(n + l) : Prio(u[i].kind) = p}
        /\ \A i \in 1..(n + l) : u[i] = IF i <= n THEN s[i] ELSE t[i - n]
        /\ n \in Nat /\ l \in Nat
    BY <1>1, <1>2
  <2> HIDE DEF A, B, C, u, l, n
  <2>2. ASSUME NEW i \in C PROVE i \in A \cup Raised(B)
    <3>1. i \in 1..(n + l) /\ Prio(u[i].kind) = p
      BY <2>1
    <3>2. CASE i <= n
      <4>1. i \in 1..n /\ u[i] = s[i]
        BY <2>1, <3>1, <3>2
      <4> QED
        BY <2>1, <3>1, <4>1
    <3>3. CASE ~(i <= n)
      <4>1. i - n \in 1..l /\ i = (i - n) + n /\ u[i] = t[i - n]
        BY <2>1, <3>1, <3>3
      <4>2. i - n \in B
        BY <2>1, <3>1, <4>1
      <4> QED
        BY <4>1, <4>2
    <3> QED
      BY <3>2, <3>3
  <2>3. ASSUME NEW i \in A PROVE i \in C
    <3>1. i \in 1..n /\ Prio(s[i].kind) = p
      BY <2>1
    <3>2. i \in 1..(n + l) /\ u[i] = s[i]
      BY <2>1, <3>1
    <3> QED
      BY <2>1, <3>1, <3>2
  <2>4. ASSUME NEW i \in B PROVE i + n \in C
    <3>1. i \in 1..l /\ Prio(t[i].kind) = p
      BY <2>1
    <3>2. i + n \in 1..(n + l) /\ ~(i + n <= n) /\ (i + n) - n = i
      BY <2>1, <3>1
    <3>3. u[i + n] = t[i]
      BY <2>1, <3>2
    <3> QED
      BY <2>1, <3>1, <3>2, <3>3
  <2> QED
    BY <2>2, <2>3, <2>4
<1>5. /\ IsFiniteSet(A) /\ Cardinality(A) \in Nat
      /\ IsFiniteSet(B) /\ Cardinality(B) \in Nat
  BY <1>1, <1>3, RankFacts
<1> HIDE DEF A, B, C, n
<1>6. ASSUME NEW S \in SUBSET B
      PROVE  /\ IsFiniteSet(A \cup Raised(S)) /\ Cardinality(S) \in Nat
             /\ Cardinality(A \cup Raised(S)) = Cardinality(A) + Cardinality(S)
  <2>1. IsFiniteSet(S) /\ S \in SUBSET Nat
    <3>1. IsFiniteSet(S)
      BY <1>5, FS_Subset
    <3>2. \A i \in S : i \in Nat
      BY <1>3
    <3> QED
      BY <3>1, <3>2
  <2>2. IsFiniteSet(Raised(S)) /\ Cardinality(Raised(S)) = Cardinality(S) /\ Cardinality(S) \in Nat
    BY <1>1, <2>1, ShiftCount, FS_CardinalityType
  <2>3. A \cap Raised(S) = {}
    <3>1. \A i \in A : i <= n /\ i \in Nat
      BY <1>1, <1>3
    <3>2. \A i \in S : i + n > n
      BY <1>1, <1>3
    <3> QED
      BY <1>1, <3>1, <3>2
  <2>4. Cardinality(A \cap Raised(S)) = 0
    BY <2>3, FS_EmptySet
  <2> HIDE DEF Raised
  <2>5. /\ IsFiniteSet(A \cup Raised(S))
        /\ Cardinality(A \cup Raised(S))
             = Cardinality(A) + Cardinality(Raised(S)) - Cardinality(A \cap Raised(S))
    BY <1>5, <2>2, FS_Union
  <2> QED
    BY <1>5, <2>2, <2>4, <2>5
<1>7. Cardinality(C) = Cardinality(A) + Cardinality(B)
  BY <1>4, <1>6
<1>8. ASSUME NEW i \in A PROVE Rank(C, i) = Rank(A, i)
  <2>1. i \in 1..n /\ \A k \in B : ~(k + n <= i)
    BY <1>1, <1>3
  <2>2. {j \in C : j <= i} = {j \in A : j <= i}
    BY <1>4, <2>1
  <2> QED
    BY <2>2 DEF Rank
<1>9. ASSUME NEW i \in B PROVE Rank(C, i + n) = Cardinality(A) + Rank(B, i)
  <2>1. /\ i \in Nat /\ n \in Nat
        /\ \A k \in A : k <= i + n
        /\ \A k \in B : k + n <= i + n <=> k <= i
    BY <1>1, <1>3
  <2>2. {j \in C : j <= i + n} = A \cup Raised({j \in B : j <= i})
    BY <1>4, <2>1
  <2>3. Cardinality(A \cup Raised({j \in B : j <= i}))
          = Cardinality(A) + Cardinality({j \in B : j <= i})
    BY <1>6
  <2> QED
    BY <2>2, <2>3 DEF Rank
<1> QED
  BY <1>4, <1>7, <1>8, <1>9 DEF A, B, C, n

\* Selecting from two queues put together is selecting from each.
LEMMA OfPrioConcat ==
    ASSUME NEW p, NEW s \in Seq(Frames), NEW t \in Seq(Frames)
    PROVE  OfPrio(p, s \o t) = OfPrio(p, s) \o OfPrio(p, t)
<1> DEFINE u == s \o t
           A == At(p, s)
           B == At(p, t)
           C == At(p, u)
           a == Cardinality(A)
           b == Cardinality(B)
           x == OfPrio(p, s)
           y == OfPrio(p, t)
           z == OfPrio(p, u)
<1>1. /\ u \in Seq(Frames) /\ Len(s) \in Nat /\ Len(t) \in Nat
      /\ \A i \in 1..Len(s) : u[i] = s[i]
      /\ \A i \in 1..Len(t) : u[i + Len(s)] = t[i]
  <2>1. /\ Len(s) \in Nat /\ Len(t) \in Nat
        /\ \A i \in 1..(Len(s) + Len(t)) :
               u[i] = IF i <= Len(s) THEN s[i] ELSE t[i - Len(s)]
    BY LenProperties, ConcatProperties
  <2>2. u \in Seq(Frames)
    BY ConcatProperties
  <2> HIDE DEF u
  <2>3. \A i \in 1..Len(s) : i \in 1..(Len(s) + Len(t)) /\ i <= Len(s)
    BY <2>1
  <2>4. \A i \in 1..Len(t) : /\ i + Len(s) \in 1..(Len(s) + Len(t))
                             /\ ~(i + Len(s) <= Len(s)) /\ (i + Len(s)) - Len(s) = i
    BY <2>1
  <2> QED
    BY <2>1, <2>2, <2>3, <2>4
<1>2. /\ A \in SUBSET (1..Len(s)) /\ a \in Nat /\ x \in Seq(Frames) /\ Len(x) = a
      /\ \A i \in A : Rank(A, i) \in 1..a /\ x[Rank(A, i)] = s[i]
      /\ \A k \in 1..a : \E i \in A : Rank(A, i) = k
  BY OfPrioFacts
<1>3. /\ B \in SUBSET (1..Len(t)) /\ b \in Nat /\ y \in Seq(Frames) /\ Len(y) = b
      /\ \A i \in B : Rank(B, i) \in 1..b /\ y[Rank(B, i)] = t[i]
      /\ \A k \in 1..b : \E i \in B : Rank(B, i) = k
  BY OfPrioFacts
<1>4. /\ z \in Seq(Frames) /\ Len(z) = Cardinality(C)
      /\ \A i \in C : z[Rank(C, i)] = u[i]
  <2>1. u \in Seq(Frames)
    BY <1>1
  <2> HIDE DEF u
  <2> QED
    BY <2>1, OfPrioFacts
<1>5. /\ C = A \cup {i + Len(s) : i \in B} /\ Cardinality(C) = a + b
      /\ \A i \in A : Rank(C, i) = Rank(A, i)
      /\ \A i \in B : Rank(C, i + Len(s)) = a + Rank(B, i)
  BY ConcatPlaces
<1> HIDE DEF u, A, B, C, a, b, x, y, z
<1>6. /\ x \o y \in Seq(Frames) /\ Len(x \o y) = a + b
      /\ \A k \in 1..(a + b) : (x \o y)[k] = IF k <= a THEN x[k] ELSE y[k - a]
  <2>1. x \in Seq(Frames) /\ y \in Seq(Frames) /\ Len(x) = a /\ Len(y) = b
    BY <1>2, <1>3
  <2>2. /\ x \o y \in Seq(Frames) /\ Len(x \o y) = Len(x) + Len(y)
        /\ \A k \in 1..(Len(x) + Len(y)) :
               (x \o y)[k] = IF k <= Len(x) THEN x[k] ELSE y[k - Len(x)]
    BY <2>1, ConcatProperties
  <2> QED
    BY <2>1, <2>2, Zenon
<1>7. ASSUME NEW k \in 1..(a + b) PROVE z[k] = (x \o y)[k]
  <2>1. CASE k <= a
    <3>1. k \in 1..a
      BY <1>2, <1>3, <2>1
    <3>2. PICK i \in A : Rank(A, i) = k
      BY <1>2, <3>1
    <3>3. z[k] = u[i] /\ x[k] = s[i] /\ u[i] = s[i]
      BY <1>1, <1>2, <1>4, <1>5, <3>2
    <3> QED
      BY <1>6, <2>1, <3>3
  <2>2. CASE ~(k <= a)
    <3>1. k - a \in 1..b /\ a + (k - a) = k
      BY <1>2, <1>3, <2>2
    <3>2. PICK i \in B : Rank(B, i) = k - a
      BY <1>3, <3>1
    <3>3. i + Len(s) \in C /\ Rank(C, i + Len(s)) = k
      BY <1>5, <3>1, <3>2
    <3>4. z[k] = u[i + Len(s)] /\ y[k - a] = t[i] /\ u[i + Len(s)] = t[i]
      BY <1>1, <1>3, <1>4, <3>2, <3>3
    <3> QED
      BY <1>6, <2>2, <3>4
  <2> QED
    BY <2>1, <2>2
<1>8. Len(z) = Len(x \o y)
  BY <1>4, <1>5, <1>6
<1>9. z = x \o y
  BY <1>4, <1>5, <1>6, <1>7, <1>8, SeqEqual
<1> QED
  BY <1>9 DEF u, x, y, z

\* Nothing is selected where no frame of the priority stands.
LEMMA OfPrioNone ==
    ASSUME NEW p
    PROVE  /\ \A s \in Seq(Frames) : At(p, s) = {} => OfPrio(p, s) = <<>>
           /\ OfPrio(p, <<>>) = <<>>
<1>1. ASSUME NEW s \in Seq(Frames), At(p, s) = {} PROVE OfPrio(p, s) = <<>>
  <2>1. OfPrio(p, s) \in Seq(Frames) /\ Len(OfPrio(p, s)) = 0
    BY <1>1, OfPrioFacts, FS_EmptySet
  <2> QED
    BY <2>1, EmptySeq
<1>2. OfPrio(p, <<>>) = <<>>
  <2>1. DOMAIN <<>> = {} /\ <<>> \in Seq(Frames)
    OBVIOUS
  <2>2. At(p, <<>>) = {}
    BY <2>1, Zenon DEF At
  <2> QED
    BY <1>1, <2>1, <2>2, Zenon
<1> QED
  BY <1>1, <1>2

\* Of one frame the selection takes it or leaves it.
LEMMA OfPrioOne ==
    ASSUME NEW p, NEW f \in Frames
    PROVE  OfPrio(p, <<f>>) = IF Prio(f.kind) = p THEN <<f>> ELSE <<>>
<1>1. <<f>> \in Seq(Frames) /\ Len(<<f>>) = 1 /\ <<f>>[1] = f
  OBVIOUS
<1>4. CASE Prio(f.kind) = p
  <2>1. At(p, <<f>>) = {1}
    BY <1>1, <1>4 DEF At
  <2>2. /\ OfPrio(p, <<f>>) \in Seq(Frames) /\ Len(OfPrio(p, <<f>>)) = 1
        /\ Rank({1}, 1) \in 1..1 /\ OfPrio(p, <<f>>)[Rank({1}, 1)] = f
    <3>0. Cardinality({1}) = 1
      BY FS_Singleton
    <3>1. /\ OfPrio(p, <<f>>) \in Seq(Frames)
          /\ Len(OfPrio(p, <<f>>)) = Cardinality(At(p, <<f>>))
          /\ \A i \in At(p, <<f>>) :
                /\ Rank(At(p, <<f>>), i) \in 1..Cardinality(At(p, <<f>>))
                /\ OfPrio(p, <<f>>)[Rank(At(p, <<f>>), i)] = <<f>>[i]
      BY <1>1, OfPrioFacts
    <3>2. 1 \in {1}
      OBVIOUS
    <3> QED
      BY <1>1, <2>1, <3>0, <3>1, <3>2, Zenon
  <2>3. Rank({1}, 1) = 1
    BY <2>2
  <2>4. \A i \in 1..1 : OfPrio(p, <<f>>)[i] = <<f>>[i]
    BY <1>1, <2>2, <2>3
  <2>5. OfPrio(p, <<f>>) = <<f>>
    BY <1>1, <2>2, <2>4, SeqEqual
  <2> QED
    BY <1>4, <2>5
<1>5. CASE Prio(f.kind) # p
  <2>1. At(p, <<f>>) = {}
    BY <1>1, <1>5 DEF At
  <2> QED
    BY <1>1, <1>5, <2>1, OfPrioNone
<1> QED
  BY <1>4, <1>5

----------------------------------------------------------------------------
(* Towards the host the link implements a FIFO queue per priority.         *)

\* Until the data path opens no transaction runs that could bring a frame in
\* vain: the slave keeps its first, empty transaction armed and DATA_READY high,
\* so that no edge comes after the interrupts are requested.
Quiet ==
    ~data_path => /\ slave.armed = NoFrame /\ ~xfer.busy /\ ~spi_work
                  /\ slave.power # "off" => slave.handshake
                  /\ slave.power = "booted" => slave.data_ready

UpInv == OnceInv /\ Quiet

\* Nor does it come up while probe sleeps between the two.
Punctual == Calm /\ "window" \notin Faults

\* What the slave has of its own, and what the host has not heard yet.
InFlight == AsSeq(slave.armed) \o slave.queue
UpChan   == [p \in Prios |-> rx_q[p] \o OfPrio(p, InFlight)]

\* Every step keeps the transport quiet until it is open.
LEMMA QuietStep ==
    ASSUME Punctual, UpInv, [Next]_vars
    PROVE  Quiet'
<1>0. TypeOK /\ OnceInv /\ Quiet
  BY DEF UpInv, OnceInv
<1>1. "window" \notin Faults /\ "reboot" \notin Faults
  BY DEF Punctual, Calm
<1> SUFFICES ASSUME probe' # "open"
             PROVE  /\ slave'.armed = NoFrame /\ ~xfer'.busy /\ ~spi_work'
                    /\ slave'.power # "off" => slave'.handshake
                    /\ slave'.power = "booted" => slave'.data_ready
  BY DEF Quiet, data_path
<1>2. ASSUME probe = "open" PROVE FALSE
  <2>1. probe' = probe
    BY <1>2 DEF Next, Work, ProbeIrqs, ProbeOpen, Write, Pause, WorkIdles, WorkTransfers,
       WorkRunsOut, WorkEnds, WorkFails, RxWork, BootupPurges, BootupEnds, SlaveUp,
       SlaveArms, SlaveReboots, SlaveSends, vars
  <2> QED
    BY <1>2, <2>1
<1>3. /\ slave.armed = NoFrame /\ ~xfer.busy /\ ~spi_work
      /\ slave.power # "off" => slave.handshake
      /\ slave.power = "booted" => slave.data_ready
  BY <1>0, <1>2 DEF Quiet, data_path
<1>4. CASE UNCHANGED <<slave, xfer, spi_work>>
  BY <1>3, <1>4
<1>5. CASE SlaveUp
  <2>1. /\ slave'.power = "up" /\ slave'.handshake = TRUE /\ slave'.armed = slave.armed
        /\ xfer' = xfer /\ MayBoot
        /\ spi_work' = (spi_work \/ probe # "none")
    BY <1>0, <1>5 DEF SlaveUp, TypeOK, Edge
  <2>2. probe = "none"
    BY <1>0, <1>1, <1>2, <2>1 DEF MayBoot, TypeOK
  <2> QED
    BY <1>3, <2>1, <2>2
<1>6. ASSUME NEW kind \in RxKinds \cup {"boot"}, SlaveSends(kind)
      PROVE  /\ slave'.armed = NoFrame /\ ~xfer'.busy /\ ~spi_work'
             /\ slave'.power # "off" => slave'.handshake
             /\ slave'.power = "booted" => slave'.data_ready
  <2>1. /\ slave'.power = "booted" /\ slave'.data_ready = TRUE
        /\ slave'.handshake = slave.handshake /\ slave'.armed = slave.armed
        /\ xfer' = xfer /\ slave.power # "off"
        /\ spi_work' = (spi_work \/ (~slave.data_ready /\ probe # "none"))
        /\ MayBoot \/ slave.power = "booted"
    BY <1>0, <1>6 DEF SlaveSends, TypeOK, Edge
  <2>2. probe = "none" \/ slave.data_ready
    BY <1>0, <1>1, <1>2, <1>3, <2>1 DEF MayBoot, TypeOK
  <2> QED
    BY <1>3, <2>1, <2>2
<1>7. ~SlaveArms /\ ~SlaveReboots
  BY <1>1, <1>3 DEF SlaveArms, SlaveReboots
<1>8. ~Work /\ ~WorkEnds /\ ~WorkFails
  BY <1>3 DEF Work, WorkIdles, WorkTransfers, WorkRunsOut, WorkRuns, WorkEnds, WorkFails
<1>9. ASSUME NEW kind \in Kinds PROVE ~Write(kind) /\ ~Pause(kind)
  BY <1>2 DEF Write, Pause, MayWrite, data_path
<1>10. CASE ProbeIrqs \/ RxWork \/ BootupPurges \/ BootupEnds \/ UNCHANGED vars
  BY <1>4, <1>10 DEF ProbeIrqs, RxWork, BootupPurges, BootupEnds, vars
<1>11. ~ProbeOpen
  BY DEF ProbeOpen
<1> QED
  BY <1>5, <1>6, <1>7, <1>8, <1>9, <1>10, <1>11 DEF Next

\* Frames in flight are a sequence of frames, and so is what is selected.
LEMMA UpTypes ==
    ASSUME TypeOK
    PROVE  /\ AsSeq(slave.armed) \in Seq(Frames) /\ slave.queue \in Seq(Frames)
           /\ InFlight \in Seq(Frames)
           /\ \A x \in Prios : /\ rx_q[x] \in Seq(Frames) /\ heard[x] \in Seq(Frames)
                               /\ OfPrio(x, InFlight) \in Seq(Frames)
                               /\ OfPrio(x, slave.queue) \in Seq(Frames)
<1>1. AsSeq(slave.armed) \in Seq(Frames) /\ slave.queue \in Seq(Frames)
  BY FrameFacts DEF TypeOK, AsSeq
<1>2. InFlight \in Seq(Frames)
  BY <1>1, ConcatProperties DEF InFlight
<1>3. \A x \in Prios : /\ OfPrio(x, InFlight) \in Seq(Frames)
                       /\ OfPrio(x, slave.queue) \in Seq(Frames)
  BY <1>1, <1>2, OfPrioFacts
<1> QED
  BY <1>1, <1>2, <1>3 DEF TypeOK

\* A frame the slave sends goes to the end of its priority.
LEMMA SendsAccepts ==
    ASSUME TypeOK, NEW kind \in RxKinds \cup {"boot"}, SlaveSends(kind)
    PROVE  \E p \in Prios, f \in Frames :
              UpChan' = [UpChan EXCEPT ![p] = Append(@, f)] /\ heard' = heard
<1> DEFINE f == [kind |-> kind, id |-> sent + 1]
           p == Prio(kind)
<1>1. f \in Frames /\ f.kind = kind /\ p \in Prios
  <2>1. sent \in Nat /\ sent < MaxRx /\ kind \in TxKinds \cup {"boot"}
    BY FrameFacts, KindsAssumption DEF SlaveSends, TypeOK, TxKinds
  <2> QED
    BY <2>1, NextFrame, FrameFacts
<1>2. /\ slave'.queue = Append(slave.queue, f) /\ slave'.armed = slave.armed
      /\ rx_q' = rx_q /\ heard' = heard
  BY DEF SlaveSends, TypeOK
<1>3. Prio(f.kind) = p
  BY <1>1
<1> HIDE DEF f, p
<1>4. /\ AsSeq(slave.armed) \in Seq(Frames) /\ slave.queue \in Seq(Frames)
      /\ InFlight \in Seq(Frames) /\ <<f>> \in Seq(Frames)
  BY <1>1, UpTypes
<1>5. InFlight' = InFlight \o <<f>>
  <2> DEFINE a == AsSeq(slave.armed)
             q == slave.queue
  <2>1. a \in Seq(Frames) /\ q \in Seq(Frames)
    BY <1>4
  <2>2. InFlight' = a \o Append(q, f) /\ InFlight = a \o q
    BY <1>2 DEF InFlight, AsSeq
  <2> HIDE DEF a, q
  <2>3. a \o Append(q, f) = (a \o q) \o <<f>>
    BY <1>1, <2>1
  <2> QED
    BY <2>2, <2>3
<1>6. ASSUME NEW x \in Prios
      PROVE  UpChan'[x] = IF x = p THEN Append(UpChan[x], f) ELSE UpChan[x]
  <2> DEFINE s == OfPrio(x, InFlight)
             r == rx_q[x]
  <2>1. s \in Seq(Frames) /\ r \in Seq(Frames)
    BY UpTypes
  <2>2. OfPrio(x, InFlight') = s \o (IF x = p THEN <<f>> ELSE <<>>)
    <3>1. OfPrio(x, InFlight \o <<f>>) = s \o OfPrio(x, <<f>>)
      BY <1>4, OfPrioConcat
    <3>2. OfPrio(x, <<f>>) = IF x = p THEN <<f>> ELSE <<>>
      BY <1>1, <1>3, OfPrioOne
    <3> QED
      BY <1>5, <3>1, <3>2
  <2>3. UpChan'[x] = r \o OfPrio(x, InFlight') /\ UpChan[x] = r \o s
    <3>1. UpChan'[x] = rx_q'[x] \o OfPrio(x, InFlight')
      BY DEF UpChan, OfPrio, At
    <3> QED
      BY <1>2, <3>1 DEF UpChan
  <2> HIDE DEF s, r
  <2>4. r \o (s \o <<f>>) = Append(r \o s, f) /\ s \o <<>> = s
    BY <1>1, <2>1
  <2> QED
    BY <2>2, <2>3, <2>4
<1>7. UpChan' = [UpChan EXCEPT ![p] = Append(@, f)]
  <2>1. /\ UpChan = [x \in Prios |-> UpChan[x]]
        /\ UpChan' = [x \in Prios |-> UpChan'[x]]
    BY DEF UpChan
  <2> HIDE DEF UpChan
  <2> QED
    BY ONLY <1>1, <1>6, <2>1
<1> QED
  BY <1>1, <1>2, <1>7

\* Arming moves the oldest frame on within what is in flight.
LEMMA ArmsKeepsFlight ==
    ASSUME OnceInv, SlaveArms
    PROVE  InFlight' = InFlight
<1>1. slave.armed = NoFrame /\ slave.queue \in Seq(Frames) /\ TypeOK
  BY DEF OnceInv, OneReport, SlaveArms, TypeOK
<1>2. InFlight = slave.queue
  <2>1. AsSeq(slave.armed) = <<>>
    BY <1>1 DEF AsSeq
  <2> QED
    BY <1>1, <2>1, ConcatEmptySeq DEF InFlight
<1>3. CASE slave.queue = <<>>
  <2>1. slave'.queue = slave.queue /\ slave'.armed = slave.armed
    BY <1>1, <1>3 DEF SlaveArms, TypeOK
  <2> QED
    BY <2>1 DEF InFlight, AsSeq
<1>4. CASE slave.queue # <<>>
  <2>1. slave'.queue = Tail(slave.queue) /\ slave'.armed = Head(slave.queue)
    BY <1>1, <1>4 DEF SlaveArms, TypeOK
  <2>2. Head(slave.queue) # NoFrame
    BY <1>1, <1>4, HeadTailProperties, FrameFacts
  <2>3. InFlight' = <<Head(slave.queue)>> \o Tail(slave.queue)
    BY <2>1, <2>2 DEF InFlight, AsSeq
  <2> QED
    BY <1>1, <1>2, <1>4, <2>3
<1> QED
  BY <1>3, <1>4

\* A transaction that ends moves its frame to the end of the receive queue of its
\* priority, before those still in flight.
LEMMA EndsKeepsUp ==
    ASSUME UpInv, WorkEnds
    PROVE  UpChan' = UpChan /\ heard' = heard
<1>0. TypeOK /\ Quiet
  BY DEF UpInv, OnceInv
<1>1. /\ slave'.queue = slave.queue /\ slave'.armed = NoFrame /\ heard' = heard
      /\ xfer.busy
  BY <1>0 DEF WorkEnds, TypeOK
<1>2. AsSeq(slave'.armed) = <<>> /\ InFlight' = slave.queue
  <2>1. AsSeq(slave'.armed) = <<>>
    BY <1>1 DEF AsSeq
  <2> QED
    BY <1>0, <1>1, <2>1, UpTypes, ConcatEmptySeq DEF InFlight, AsSeq
<1>3. data_path
  BY <1>0, <1>1 DEF Quiet
<1>4. ASSUME NEW x \in Prios PROVE UpChan'[x] = UpChan[x]
  <2>0. UpChan[x] = rx_q[x] \o OfPrio(x, InFlight)
        /\ UpChan'[x] = rx_q'[x] \o OfPrio(x, slave.queue)
    <3>1. UpChan'[x] = rx_q'[x] \o OfPrio(x, InFlight')
      BY DEF UpChan, OfPrio, At
    <3> QED
      BY <1>2, <3>1 DEF UpChan
  <2>1. CASE slave.armed = NoFrame
    <3>1. InFlight = slave.queue
      BY <1>0, <2>1, UpTypes, ConcatEmptySeq DEF InFlight, AsSeq
    <3>2. rx_q' = rx_q
      BY <2>1 DEF WorkEnds
    <3> QED
      BY <2>0, <3>1, <3>2
  <2>2. CASE slave.armed # NoFrame
    <3> DEFINE f == slave.armed
               s == OfPrio(x, slave.queue)
               r == rx_q[x]
    <3>1. f \in Frames /\ slave.queue \in Seq(Frames) /\ <<f>> \in Seq(Frames)
      BY <1>0, <2>2 DEF TypeOK
    <3>2. InFlight = <<f>> \o slave.queue
      BY <2>2 DEF InFlight, AsSeq
    <3>3. OfPrio(x, InFlight) = (IF Prio(f.kind) = x THEN <<f>> ELSE <<>>) \o s
      <4>1. OfPrio(x, <<f>> \o slave.queue) = OfPrio(x, <<f>>) \o s
        BY <3>1, OfPrioConcat
      <4>2. OfPrio(x, <<f>>) = IF Prio(f.kind) = x THEN <<f>> ELSE <<>>
        BY <3>1, OfPrioOne
      <4> QED
        BY <3>2, <4>1, <4>2
    <3>4. rx_q'[x] = IF Prio(f.kind) = x THEN Append(r, f) ELSE r
      <4>1. rx_q' = Enqueue(rx_q, f) /\ Prio(f.kind) \in Prios
        BY <1>3, <2>2, FrameFacts DEF WorkEnds
      <4> QED
        BY <1>0, <4>1 DEF Enqueue, TypeOK
    <3>5. s \in Seq(Frames) /\ r \in Seq(Frames)
      BY <1>0, UpTypes
    <3> HIDE DEF f, s, r
    <3>6. Append(r, f) \o s = r \o (<<f>> \o s) /\ <<>> \o s = s
      BY <3>1, <3>5
    <3> QED
      BY <2>0, <3>3, <3>4, <3>6 DEF s, r
  <2> QED
    BY <2>1, <2>2
<1>5. UpChan' = UpChan
  <2>1. /\ UpChan = [x \in Prios |-> UpChan[x]]
        /\ UpChan' = [x \in Prios |-> UpChan'[x]]
    BY DEF UpChan
  <2> HIDE DEF UpChan
  <2> QED
    BY ONLY <1>4, <2>1
<1> QED
  BY <1>1, <1>5

\* The receive work hands over what was received.
LEMMA RxDelivers ==
    ASSUME TypeOK, RxWork, NEW x \in Prios
    PROVE  /\ Len(heard'[x]) >= Len(heard[x])
           /\ heard'[x] \o UpChan'[x] = heard[x] \o UpChan[x]
<1> DEFINE h == heard[x]
           r == rx_q[x]
           s == OfPrio(x, InFlight)
<1>1. heard'[x] = h \o r /\ rx_q'[x] = <<>> /\ slave' = slave
  BY DEF RxWork, EmptyQueues
<1>2. UpChan[x] = r \o s /\ UpChan'[x] = <<>> \o s
  <2>1. UpChan'[x] = rx_q'[x] \o OfPrio(x, InFlight')
    BY DEF UpChan, OfPrio, At
  <2>2. InFlight' = InFlight
    BY <1>1 DEF InFlight, AsSeq
  <2> QED
    BY <1>1, <2>1, <2>2 DEF UpChan
<1>3. h \in Seq(Frames) /\ r \in Seq(Frames) /\ s \in Seq(Frames)
  BY UpTypes
<1> HIDE DEF h, r, s
<1>4. /\ (h \o r) \o (<<>> \o s) = h \o (r \o s)
      /\ Len(h \o r) = Len(h) + Len(r) /\ Len(h) \in Nat /\ Len(r) \in Nat
  BY <1>3
<1>5. Len(h \o r) >= Len(h)
  BY <1>4
<1> QED
  BY <1>1, <1>2, <1>4, <1>5 DEF h

\* Every step accepts a frame, hands frames over in order, or is a stutter.
LEMMA UpStep ==
    ASSUME Punctual, UpInv, [Next]_vars
    PROVE  [Up!LNext]_<<UpChan, heard>>
<1>0. TypeOK /\ OnceInv
  BY DEF UpInv, OnceInv
<1>1. ASSUME rx_q' = rx_q, InFlight' = InFlight, heard' = heard
      PROVE  UNCHANGED <<UpChan, heard>>
  BY <1>1 DEF UpChan, OfPrio, At
<1>2. ASSUME UNCHANGED <<rx_q, slave, heard>> PROVE UNCHANGED <<UpChan, heard>>
  BY <1>1, <1>2 DEF InFlight, AsSeq
<1>3. ASSUME NEW kind \in RxKinds \cup {"boot"}, SlaveSends(kind) PROVE Up!LNext
  BY <1>0, <1>3, SendsAccepts DEF Up!LNext, Up!Accept, UpChan, InFlight
<1>4. CASE SlaveArms
  BY <1>0, <1>1, <1>4, ArmsKeepsFlight DEF SlaveArms
<1>5. CASE SlaveUp
  <2>1. slave'.armed = slave.armed /\ slave'.queue = slave.queue
    BY <1>0, <1>5 DEF SlaveUp, TypeOK
  <2>2. InFlight' = InFlight
    BY <2>1 DEF InFlight, AsSeq
  <2> QED
    BY <1>1, <1>5, <2>2 DEF SlaveUp
<1>6. CASE WorkEnds
  BY <1>6, EndsKeepsUp
<1>7. CASE RxWork
  BY <1>0, <1>7, RxDelivers DEF Up!LNext, Up!Deliver, UpChan, InFlight
<1>8. ASSUME NEW kind \in Kinds, Write(kind) \/ Pause(kind)
      PROVE  UNCHANGED <<UpChan, heard>>
  BY <1>2, <1>8 DEF Write, Pause
<1>9. CASE \/ ProbeIrqs \/ ProbeOpen \/ Work \/ WorkFails
           \/ BootupPurges \/ BootupEnds \/ UNCHANGED vars
  BY <1>2, <1>9 DEF ProbeIrqs, ProbeOpen, Work, WorkIdles, WorkTransfers, WorkRunsOut,
     WorkFails, BootupPurges, BootupEnds, vars
<1>10. ~SlaveReboots
  BY DEF Punctual, Calm, SlaveReboots
<1> QED
  BY <1>3, <1>4, <1>5, <1>6, <1>7, <1>8, <1>9, <1>10 DEF Next

\* While nothing is given up and the slave boots once, not while probe sleeps with
\* the data path closed, what the slave sends reaches the receive work as through
\* a FIFO queue per priority, its bootup event included, though that may be sent
\* before the interrupts are requested (esp_spi_work, esp_get_packets, patch 0021).
THEOREM UpIsFifo == Punctual => (Spec => Up!LinkSpec)
<1> SUFFICES ASSUME Punctual PROVE Spec => Up!LinkSpec
  OBVIOUS
<1>1. Init => Up!LInit
  <2> SUFFICES ASSUME Init PROVE Up!LInit
    OBVIOUS
  <2>1. /\ slave.armed = NoFrame /\ slave.queue = <<>>
        /\ heard = [p \in Prios |-> <<>>] /\ \A p \in Prios : rx_q[p] = <<>>
    BY DEF Init, EmptyQueues, SlaveOff
  <2>2. AsSeq(slave.armed) \o slave.queue = <<>>
    BY <2>1, EmptySeq, ConcatEmptySeq DEF AsSeq
  <2>3. ASSUME NEW p \in Prios PROVE rx_q[p] \o OfPrio(p, <<>>) = <<>>
    BY <2>1, OfPrioNone, EmptySeq, ConcatEmptySeq
  <2> QED
    BY <2>1, <2>2, <2>3 DEF Up!LInit
<1>2. Init => UpInv
  BY OnceInit DEF Init, UpInv, Quiet, SlaveOff
<1>3. UpInv /\ [Next]_vars => UpInv'
  BY QuietStep, OnceStep DEF UpInv, Punctual, Calm
<1>4. UpInv /\ [Next]_vars => [Up!LNext]_<<UpChan, heard>>
  BY UpStep
<1> QED
  BY <1>1, <1>2, <1>3, <1>4, PTL DEF Spec, Up!LinkSpec, UpChan, InFlight

\* Both directions of the link implement LinkService: a FIFO queue per priority
\* that loses, repeats and invents nothing.
THEOREM LinkIsFifo == Punctual => (Spec => FifoBothWays)
BY DownIsFifo, UpIsFifo, PTL DEF Punctual, FifoBothWays
=============================================================================
