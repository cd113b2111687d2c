------------------------------ MODULE SpiLink ------------------------------
(***************************************************************************)
(* The SPI transport of esp-hosted (esp_spi.c of patch 0008 with patches   *)
(* 0017 and 0021): the priority queues towards and from the C6, the        *)
(* tx_pending count that pauses and resumes the network queue, the work    *)
(* item that runs one transaction whenever the slave is armed, the rising  *)
(* edges that queue it, the two steps of probe, and the clean-up a bootup  *)
(* event of the slave causes.                                              *)
(*                                                                         *)
(* Granularity.  The kernel is !SMP and PREEMPT_NONE.  esp_spi_work sleeps *)
(* in spi_sync_transfer only, so it is two actions: up to the transfer,    *)
(* and from the end of the transfer.  Probe sleeps in open_data_path, the  *)
(* bootup handler in esp_remove_card.  The slave is the environment: armed *)
(* it holds HANDSHAKE high until a transaction ends, and it holds          *)
(* DATA_READY high while it has frames for the host.                       *)
(***************************************************************************)
EXTENDS Naturals, Sequences, FiniteSets

CONSTANTS
    TxMax,      \* TX_MAX_PENDING_COUNT
    TxResume,   \* TX_RESUME_THRESHOLD
    Kinds,      \* kinds of frame the host writes, a subset of TxKinds
    RxKinds,    \* kinds of frame the slave sends after its bootup event
    MaxFrames,  \* bound on the frames the host writes
    MaxRx,      \* bound on the frames the slave sends
    MaxCtrl,    \* bound on the command and Bluetooth frames queued at a time
    Faults      \* the faults this instance allows

TxKinds ==
    { "data",     \* a network frame: its control block names the interface
      "copied",   \* a network frame reallocated for headroom or alignment
      "cmd",      \* a command request, if_type of the station
      "hci" }     \* a Bluetooth frame

FaultKinds ==
    { "alloc",    \* an skb for padding or receiving cannot be allocated
      "xfer",     \* spi_sync_transfer fails
      "window",   \* the slave comes up while probe sleeps in open_data_path
      "reboot" }  \* the slave boots again

ASSUME KindsAssumption  == /\ Kinds \subseteq TxKinds
                           /\ RxKinds \subseteq {"hci", "data"}
ASSUME BoundsAssumption == /\ TxMax \in Nat /\ TxResume \in Nat
                           /\ MaxFrames \in Nat /\ MaxRx \in Nat /\ MaxCtrl \in Nat
ASSUME FaultsAssumption == Faults \subseteq FaultKinds

PRIO_Q_HIGH == 0
PRIO_Q_MID  == 1
PRIO_Q_LOW  == 2
Prios       == {PRIO_Q_HIGH, PRIO_Q_MID, PRIO_Q_LOW}

Frames  == [kind : TxKinds \cup {"boot"}, id : 1..(MaxFrames + MaxRx)]
NoFrame == [kind |-> "none", id |-> 0]

VARIABLES
    probe,      \* "none", "irqs" (data path closed) or "open"
    tx_q,       \* spi_context.tx_q
    rx_q,       \* spi_context.rx_q
    tx_pending, \* the count of queued frames
    spi_work,   \* spi_work is queued
    xfer,       \* the transaction esp_spi_work is running, if any
    if_rx_work, \* if_rx_work is queued
    ndev,       \* the network interface: registered, and its queue stopped
    bootups,    \* bootup events waiting in events_work
    purged,     \* esp_deinit_module is between its purge and its re-init
    slave,      \* the C6: power, its two GPIO lines, its armed and queued frames
    written,    \* frames accepted by write_packet so far
    sent,       \* frames the slave has sent so far
    got,        \* frames the slave received, per priority
    heard       \* frames the host's receive work processed, per priority

vars == <<probe, tx_q, rx_q, tx_pending, spi_work, xfer, if_rx_work, ndev,
          bootups, purged, slave, written, sent, got, heard>>

EmptyQueues == [p \in Prios |-> <<>>]

\* The queue a frame goes to: by if_type, not by what it carries, so commands
\* queue behind network data.
Prio(kind) == CASE kind = "boot" -> PRIO_Q_HIGH
                [] kind = "hci"  -> PRIO_Q_MID
                [] OTHER         -> PRIO_Q_LOW

\* cb->priv is set on frames of the network stack, unless the frame had to be
\* reallocated: the control block of the new skb is zero.
HasPriv(frame) == frame.kind = "data"

data_path == probe = "open"
Backlog   == Len(tx_q[PRIO_Q_HIGH]) + Len(tx_q[PRIO_Q_MID]) + Len(tx_q[PRIO_Q_LOW])
Ctrl       == {"cmd", "hci"}
CtrlQueued == Len(tx_q[PRIO_Q_MID])
                + Cardinality({i \in DOMAIN tx_q[PRIO_Q_LOW] :
                                  tx_q[PRIO_Q_LOW][i].kind = "cmd"})

\* An edge of a GPIO line queues the work once the interrupts are requested.
Edge(rises) == spi_work' = (spi_work \/ (rises /\ probe # "none"))

----------------------------------------------------------------------------
(* Probe.                                                                  *)

\* esp_spi_setup_device up to the sleep of open_data_path.
ProbeIrqs ==
    /\ probe = "none"
    /\ probe' = "irqs"
    /\ tx_pending' = 0
    /\ UNCHANGED <<tx_q, rx_q, spi_work, xfer, if_rx_work, ndev, bootups, purged,
                   slave, written, sent, got, heard>>

\* Mutant: probe as it was before patch 0021.
ProbeOpensQuietly ==
    /\ probe = "irqs"
    /\ probe' = "open"
    /\ UNCHANGED <<tx_q, rx_q, tx_pending, spi_work, xfer, if_rx_work, ndev,
                   bootups, purged, slave, written, sent, got, heard>>

\* The data path opens and patch 0021 queues the work once.
ProbeOpen ==
    /\ probe = "irqs"
    /\ probe' = "open"
    /\ spi_work' = TRUE
    /\ UNCHANGED <<tx_q, rx_q, tx_pending, xfer, if_rx_work, ndev, bootups, purged,
                   slave, written, sent, got, heard>>

----------------------------------------------------------------------------
(* write_packet and its callers.                                           *)

\* Mutant: skb_queue_head.
EnqueueFirst(q, frame) == [q EXCEPT ![Prio(frame.kind)] = <<frame>> \o @]

\* skb_queue_tail on the queue of the frame's interface type.
Enqueue(q, frame) == [q EXCEPT ![Prio(frame.kind)] = Append(@, frame)]

\* Mutant: only the low-priority queue is counted, as before patch 0017.
CountsLow(kind) == tx_pending + (IF Prio(kind) = PRIO_Q_LOW THEN 1 ELSE 0)

\* Every queued frame is counted.
Counts(kind) == tx_pending + 1

\* Mutant: the cap is compared with >.
OverCapLate(kind) == kind = "data" /\ tx_pending > TxMax

\* The network queue is paused instead of growing past the cap, on behalf of
\* frames whose control block names the interface.
OverCap(kind) == kind = "data" /\ tx_pending >= TxMax

\* A frame can be written: the stack offers none while the queue is stopped.
MayWrite(kind) ==
    /\ data_path /\ ndev.up
    /\ written < MaxFrames
    /\ kind \in {"data", "copied"} => ~ndev.stopped
    /\ kind \in Ctrl => CtrlQueued < MaxCtrl

Write(kind) ==
    /\ MayWrite(kind) /\ ~OverCap(kind)
    /\ tx_pending' = Counts(kind)
    /\ written' = written + 1
    /\ tx_q' = Enqueue(tx_q, [kind |-> kind, id |-> written + 1])
    /\ spi_work' = TRUE
    /\ UNCHANGED <<probe, rx_q, xfer, if_rx_work, ndev, bootups, purged, slave,
                   sent, got, heard>>

\* esp_tx_pause: the frame is dropped and the queue stopped.
Pause(kind) ==
    /\ MayWrite(kind) /\ OverCap(kind)
    /\ ndev' = [ndev EXCEPT !.stopped = TRUE]
    /\ spi_work' = TRUE
    /\ UNCHANGED <<probe, tx_q, rx_q, tx_pending, xfer, if_rx_work, bootups,
                   purged, slave, written, sent, got, heard>>

----------------------------------------------------------------------------
(* esp_spi_work.                                                           *)

WorkRuns == spi_work /\ ~xfer.busy
TxReady  == data_path /\ \E p \in Prios : tx_q[p] # <<>>

\* HIGH, then MID, then LOW.
FirstBusy == CHOOSE p \in Prios : /\ tx_q[p] # <<>>
                                  /\ \A q \in Prios : tx_q[q] # <<>> => p <= q

\* Mutant: resumed only on reaching the threshold, not below it.
ResumesAt(frame, left) == HasPriv(frame) /\ left = TxResume

\* esp_tx_resume: a dequeued frame of the network stack restarts the queue once
\* the load is bearable.
Resumes(frame, left) == HasPriv(frame) /\ left < TxResume

\* Take the next frame off its queue, if any, and account for it.
Dequeue(frame) ==
    IF TxReady
    THEN LET p    == FirstBusy
             left == IF tx_pending > 0 THEN tx_pending - 1 ELSE 0
         IN  /\ frame = Head(tx_q[p])
             /\ tx_q' = [tx_q EXCEPT ![p] = Tail(@)]
             /\ tx_pending' = left
             /\ ndev' = [ndev EXCEPT !.stopped = @ /\ ~Resumes(frame, left)]
    ELSE /\ frame = NoFrame
         /\ UNCHANGED <<tx_q, tx_pending, ndev>>

\* The slave is not armed, or nobody has anything to send.
WorkIdles ==
    /\ WorkRuns
    /\ ~slave.handshake \/ ~(slave.data_ready \/ TxReady)
    /\ spi_work' = FALSE
    /\ UNCHANGED <<probe, tx_q, rx_q, tx_pending, xfer, if_rx_work, ndev, bootups,
                   purged, slave, written, sent, got, heard>>

WorkTransfers ==
    /\ WorkRuns
    /\ slave.handshake /\ (slave.data_ready \/ TxReady)
    /\ spi_work' = FALSE
    /\ \E frame \in {NoFrame} \cup {Head(tx_q[p]) : p \in {q \in Prios : tx_q[q] # <<>>}} :
          /\ Dequeue(frame)
          /\ xfer' = [busy |-> TRUE, tx |-> frame]
    /\ UNCHANGED <<probe, rx_q, if_rx_work, bootups, purged, slave, written, sent,
                   got, heard>>

\* Padding or the receive buffer cannot be allocated: the dequeued frame is
\* freed and the work returns without running a transaction.
WorkRunsOut ==
    /\ "alloc" \in Faults
    /\ WorkRuns
    /\ slave.handshake /\ (slave.data_ready \/ TxReady)
    /\ spi_work' = FALSE
    /\ \E frame \in {NoFrame} \cup {Head(tx_q[p]) : p \in {q \in Prios : tx_q[q] # <<>>}} :
          Dequeue(frame)
    /\ UNCHANGED <<probe, rx_q, xfer, if_rx_work, bootups, purged, slave, written,
                   sent, got, heard>>

\* Mutant: a frame is queued for the receive work while nothing was received.
WorkEndsTwice ==
    /\ xfer.busy
    /\ xfer' = [busy |-> FALSE, tx |-> NoFrame]
    /\ slave' = [slave EXCEPT !.handshake = FALSE, !.armed = NoFrame]
    /\ rx_q' = [rx_q EXCEPT ![PRIO_Q_LOW] = Append(@, slave.armed)]
    /\ if_rx_work' = TRUE
    /\ UNCHANGED <<probe, tx_q, tx_pending, spi_work, ndev, bootups, purged,
                   written, sent, got, heard>>

\* Mutant: a frame of the host is freed unsent when the slave has a frame too.
WorkEndsLosing ==
    /\ xfer.busy
    /\ xfer' = [busy |-> FALSE, tx |-> NoFrame]
    /\ slave' = [slave EXCEPT !.handshake = FALSE, !.armed = NoFrame]
    /\ IF slave.armed # NoFrame /\ data_path
       THEN /\ rx_q' = Enqueue(rx_q, slave.armed)
            /\ if_rx_work' = TRUE
            /\ UNCHANGED got
       ELSE /\ got' = IF xfer.tx # NoFrame
                      THEN [got EXCEPT ![Prio(xfer.tx.kind)] = Append(@, xfer.tx)]
                      ELSE got
            /\ UNCHANGED <<rx_q, if_rx_work>>
    /\ UNCHANGED <<probe, tx_q, tx_pending, spi_work, ndev, bootups, purged,
                   written, sent, heard>>

\* The transfer ended: the slave has the frame, and what it had armed is queued
\* for the receive work if the data path is open.  A slave that reset in the
\* meantime received nothing.
WorkEnds ==
    /\ xfer.busy
    /\ xfer' = [busy |-> FALSE, tx |-> NoFrame]
    /\ slave' = [slave EXCEPT !.handshake = FALSE, !.armed = NoFrame]
    /\ got' = IF slave.handshake /\ xfer.tx # NoFrame
              THEN [got EXCEPT ![Prio(xfer.tx.kind)] = Append(@, xfer.tx)]
              ELSE got
    /\ IF slave.armed # NoFrame /\ data_path
       THEN /\ rx_q' = Enqueue(rx_q, slave.armed)
            /\ if_rx_work' = TRUE
       ELSE UNCHANGED <<rx_q, if_rx_work>>
    /\ UNCHANGED <<probe, tx_q, tx_pending, spi_work, ndev, bootups, purged,
                   written, sent, heard>>

\* The transfer failed: both buffers are freed, the slave stays armed.
WorkFails ==
    /\ "xfer" \in Faults
    /\ xfer.busy
    /\ xfer' = [busy |-> FALSE, tx |-> NoFrame]
    /\ UNCHANGED <<probe, tx_q, rx_q, tx_pending, spi_work, if_rx_work, ndev,
                   bootups, purged, slave, written, sent, got, heard>>

----------------------------------------------------------------------------
(* The receive work and the bootup event.                                  *)

\* Mutant: the receive work takes one frame of each queue.
RxWorkOnce ==
    /\ if_rx_work
    /\ if_rx_work' = FALSE
    /\ rx_q' = [p \in Prios |-> IF rx_q[p] = <<>> THEN <<>> ELSE Tail(rx_q[p])]
    /\ heard' = [p \in Prios |-> IF rx_q[p] = <<>> THEN heard[p]
                                 ELSE Append(heard[p], Head(rx_q[p]))]
    /\ bootups' = bootups + (IF rx_q[PRIO_Q_HIGH] = <<>> THEN 0 ELSE 1)
    /\ UNCHANGED <<probe, tx_q, tx_pending, spi_work, xfer, ndev, purged, slave,
                   written, sent, got>>

\* esp_get_packets empties the queues, HIGH first; bootup events are passed on
\* to events_work.
RxWork ==
    /\ if_rx_work
    /\ if_rx_work' = FALSE
    /\ rx_q' = EmptyQueues
    /\ heard' = [p \in Prios |-> heard[p] \o rx_q[p]]
    /\ bootups' = bootups + Len(rx_q[PRIO_Q_HIGH])
    /\ UNCHANGED <<probe, tx_q, tx_pending, spi_work, xfer, ndev, purged, slave,
                   written, sent, got>>

\* Mutant: the count is reset and the queues are not purged.
BootupOnlyResets ==
    /\ bootups > 0 /\ ~purged
    /\ bootups' = bootups - 1
    /\ purged' = TRUE
    /\ tx_pending' = 0
    /\ UNCHANGED <<probe, tx_q, rx_q, spi_work, xfer, if_rx_work, ndev, slave,
                   written, sent, got, heard>>

\* esp_deinit_module: the queues are purged, patch 0017 resets the count.
BootupPurges ==
    /\ bootups > 0 /\ ~purged
    /\ bootups' = bootups - 1
    /\ purged' = TRUE
    /\ tx_q' = EmptyQueues
    /\ tx_pending' = 0
    /\ UNCHANGED <<probe, rx_q, spi_work, xfer, if_rx_work, ndev, slave, written,
                   sent, got, heard>>

\* After esp_remove_card the queue heads are initialised again: what was queued
\* meanwhile is forgotten and still counted.  esp_add_card registers the
\* interface anew.
BootupEnds ==
    /\ purged
    /\ purged' = FALSE
    /\ tx_q' = EmptyQueues
    /\ ndev' = [up |-> TRUE, stopped |-> FALSE]
    /\ UNCHANGED <<probe, rx_q, tx_pending, spi_work, xfer, if_rx_work, bootups,
                   slave, written, sent, got, heard>>

----------------------------------------------------------------------------
(* The slave.                                                              *)

SlaveOff == [power |-> "off", handshake |-> FALSE, data_ready |-> FALSE,
             armed |-> NoFrame, queue |-> <<>>]

MayBoot == probe = "irqs" => "window" \in Faults

\* It comes up with an empty transaction armed.  A boot outlasts a transfer.
SlaveUp ==
    /\ slave.power = "off" /\ MayBoot /\ ~xfer.busy
    /\ slave' = [slave EXCEPT !.power = "up", !.handshake = TRUE]
    /\ Edge(TRUE)
    /\ UNCHANGED <<probe, tx_q, rx_q, tx_pending, xfer, if_rx_work, ndev, bootups,
                   purged, written, sent, got, heard>>

\* It queues a frame and raises DATA_READY; the first one is its bootup event.
SlaveSends(kind) ==
    /\ sent < MaxRx
    /\ \/ kind = "boot" /\ slave.power = "up" /\ MayBoot
       \/ kind \in RxKinds /\ slave.power = "booted"
    /\ sent' = sent + 1
    /\ slave' = [slave EXCEPT !.power = "booted", !.data_ready = TRUE,
                     !.queue = Append(@, [kind |-> kind, id |-> sent + 1])]
    /\ Edge(~slave.data_ready)
    /\ UNCHANGED <<probe, tx_q, rx_q, tx_pending, xfer, if_rx_work, ndev, bootups,
                   purged, written, got, heard>>

\* It arms its next transaction, with a frame if it has one, and drops
\* DATA_READY when it has none.
SlaveArms ==
    /\ slave.power # "off" /\ ~slave.handshake /\ ~xfer.busy
    /\ slave' = IF slave.queue = <<>>
                THEN [slave EXCEPT !.handshake = TRUE, !.data_ready = FALSE]
                ELSE [slave EXCEPT !.handshake = TRUE, !.armed = Head(slave.queue),
                                   !.queue = Tail(@)]
    /\ Edge(TRUE)
    /\ UNCHANGED <<probe, tx_q, rx_q, tx_pending, xfer, if_rx_work, ndev, bootups,
                   purged, written, sent, got, heard>>

SlaveReboots ==
    /\ "reboot" \in Faults
    /\ slave.power # "off" /\ sent < MaxRx
    /\ slave' = SlaveOff
    /\ UNCHANGED <<probe, tx_q, rx_q, tx_pending, spi_work, xfer, if_rx_work, ndev,
                   bootups, purged, written, sent, got, heard>>

----------------------------------------------------------------------------
Init ==
    /\ probe = "none"
    /\ tx_q = EmptyQueues /\ rx_q = EmptyQueues
    /\ tx_pending = 0
    /\ spi_work = FALSE /\ if_rx_work = FALSE
    /\ xfer = [busy |-> FALSE, tx |-> NoFrame]
    /\ ndev = [up |-> FALSE, stopped |-> FALSE]
    /\ bootups = 0 /\ purged = FALSE
    /\ slave = SlaveOff
    /\ written = 0 /\ sent = 0
    /\ got = EmptyQueues /\ heard = EmptyQueues

Work == WorkIdles \/ WorkTransfers \/ WorkRunsOut

Next ==
    \/ ProbeIrqs \/ ProbeOpen
    \/ \E kind \in Kinds : Write(kind) \/ Pause(kind)
    \/ Work \/ WorkEnds \/ WorkFails
    \/ RxWork \/ BootupPurges \/ BootupEnds
    \/ SlaveUp \/ SlaveArms \/ SlaveReboots
    \/ \E kind \in RxKinds \cup {"boot"} : SlaveSends(kind)

Spec == Init /\ [][Next]_vars

\* Work items run, sleeps end, the slave comes up, reports and re-arms.
Fairness ==
    /\ WF_vars(ProbeIrqs) /\ WF_vars(ProbeOpen)
    /\ WF_vars(Work) /\ WF_vars(WorkEnds)
    /\ WF_vars(RxWork) /\ WF_vars(BootupPurges) /\ WF_vars(BootupEnds)
    /\ WF_vars(SlaveUp) /\ WF_vars(SlaveArms) /\ WF_vars(SlaveSends("boot"))

FairSpec == Spec /\ Fairness

----------------------------------------------------------------------------
(* Properties.                                                             *)

\* Every variable holds a value of its type.
TypeOK ==
    /\ probe \in {"none", "irqs", "open"}
    /\ tx_q \in [Prios -> Seq(Frames)] /\ rx_q \in [Prios -> Seq(Frames)]
    /\ tx_pending \in Nat
    /\ spi_work \in BOOLEAN /\ if_rx_work \in BOOLEAN /\ purged \in BOOLEAN
    /\ xfer \in [busy : BOOLEAN, tx : Frames \cup {NoFrame}]
    /\ ndev \in [up : BOOLEAN, stopped : BOOLEAN]
    /\ bootups \in Nat
    /\ slave \in [power : {"off", "up", "booted"}, handshake : BOOLEAN,
                  data_ready : BOOLEAN, armed : Frames \cup {NoFrame},
                  queue : Seq(Frames)]
    /\ written \in 0..MaxFrames /\ sent \in 0..MaxRx
    /\ got \in [Prios -> Seq(Frames)] /\ heard \in [Prios -> Seq(Frames)]

\* tx_pending, which write_packet raises and esp_spi_work lowers, is the number
\* of frames in the three queues (patch 0017).
TxPendingExact == tx_pending = Backlog

\* It is never below that number, whatever fails and however often the slave
\* boots: the cap cannot be defeated by a count that drifts down (patch 0017).
PendingCovers == Backlog <= tx_pending

\* write_packet accepts a network frame whose control block still names its
\* interface only while fewer than TX_MAX_PENDING_COUNT frames are queued, of
\* whatever kind.  A frame that esp_hard_start_xmit had to reallocate has a zero
\* control block and passes the test whatever is queued: the cap holds it not,
\* it only fills the queues for the others.
CapRespected ==
    [][LET q == tx_q'[PRIO_Q_LOW]
       IN  (/\ Len(q) > Len(tx_q[PRIO_Q_LOW])
            /\ HasPriv(q[Len(q)])) => Backlog < TxMax]_vars

\* The edges, the levels esp_spi_work reads and the kicks of write_packet and
\* probe leave no gap: while the slave is armed and either side has a frame to
\* send, a transaction runs or the work that runs one is queued.
NoStall ==
    data_path /\ slave.handshake /\ (slave.data_ready \/ Backlog > 0)
        => spi_work \/ xfer.busy

\* Where frames of priority p stand, how many of the places S lie up to i, and
\* which of them is the k-th.
At(p, frames) == {i \in DOMAIN frames : Prio(frames[i].kind) = p}
Rank(S, i)    == Cardinality({j \in S : j <= i})
Nth(S, k)     == CHOOSE i \in S : Rank(S, i) = k

\* The frames of priority p, in their order: SelectSeq without its recursion,
\* which no proof can unfold.
OfPrio(p, frames) ==
    [k \in 1..Cardinality(At(p, frames)) |-> frames[Nth(At(p, frames), k)]]

AsSeq(frame) == IF frame = NoFrame THEN <<>> ELSE <<frame>>

\* What the running transaction takes from queue p.
InTransfer(p) == IF xfer.tx # NoFrame /\ Prio(xfer.tx.kind) = p THEN <<xfer.tx>> ELSE <<>>

Down == INSTANCE LinkService
            WITH chan <- [p \in Prios |-> InTransfer(p) \o tx_q[p]],
                 out  <- got
Up   == INSTANCE LinkService
            WITH chan <- [p \in Prios |-> rx_q[p] \o
                             OfPrio(p, AsSeq(slave.armed) \o slave.queue)],
                 out  <- heard

\* While neither side boots again and nothing fails, each direction of the link
\* is a FIFO queue per priority that loses no frame.
FifoBothWays == Down!LinkSpec /\ Up!LinkSpec

Arrived(id, streams) ==
    \E p \in Prios : \E i \in DOMAIN streams[p] : streams[p][i].id = id

\* Every frame write_packet accepts reaches the slave, and every frame the slave
\* sends, its bootup event first, reaches the receive work, though it may have
\* been signalled before the interrupts were armed.
FramesDelivered ==
    /\ \A n \in 1..MaxFrames : written >= n ~> Arrived(n, got)
    /\ \A n \in 1..MaxRx : sent >= n ~> Arrived(n, heard)

\* A slave that reports its bootup gets its network interface, whenever it came
\* up (patch 0021: the bootup event must not "sit unread").
BootEventHeard == slave.power = "booted" ~> ndev.up

\* A network queue stopped at the cap is started again.
PausedResumes == ndev.stopped ~> ~ndev.stopped
=============================================================================
