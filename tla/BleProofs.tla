------------------------------ MODULE BleProofs -----------------------------
(***************************************************************************)
(* hci0 is never registered into the re-initialisation after a boot of     *)
(* the C6, a tool that serves is set up whole whatever the tools before it *)
(* left, and all types hold: for every bound on boots, tools and losses.   *)
(***************************************************************************)
EXTENDS Ble, SequenceTheorems, FiniteSetTheorems, TLAPS

Handling == {"cancel", "cancel again", "deinit", "unregister", "add"}

\* ReinitAlone is not inductive: that no registration starts after the first
\* cancel is because the adapter is not ready while the event is handled.
BtInv ==
    /\ bt_running \in BOOLEAN /\ init_done \in BOOLEAN
    /\ bpc \in Handling => ~init_done
    /\ ReinitAlone

LEMMA BtInit == Init => BtInv
  BY DEF Init, HdInit, BtInv, Handling, ReinitAlone

----------------------------------------------------------------------------
(* A tool does nothing to the device but set the knob.                     *)

Hands == hdVars' = hdVars \/ BtEnableSet

LEMMA ExitsAlone == ASSUME NEW t, Exits(t) PROVE Hands
  BY DEF Exits, Hands, hdVars

LEMMA OpensAlone == ASSUME NEW t, Opens(t) PROVE Hands
  <1>1. CASE WritesKnob(t)
    BY <1>1 DEF WritesKnob, Hands
  <1>2. CASE Retries(t)
    BY <1>2, ExitsAlone DEF Retries, Hands, hdVars
  <1>3. CASE Binds(t)
    BY <1>3, ExitsAlone DEF Binds, Hands, hdVars
  <1> QED
    BY <1>1, <1>2, <1>3 DEF Opens

LEMMA SendsAlone ==
    ASSUME NEW t, NEW cmd, NEW at, NEW next, SendsCmd(t, cmd, at, next)
    PROVE  Hands
  BY ExitsAlone DEF SendsCmd, Hands, hdVars

LEMMA AwaitsAlone == ASSUME NEW t, NEW next, AwaitsCmd(t, next) PROVE Hands
  BY ExitsAlone DEF AwaitsCmd, Hands, hdVars

LEMMA LastAlone == ASSUME NEW t, AwaitsLast(t) PROVE Hands
  BY ExitsAlone DEF AwaitsLast, Hands, hdVars

LEMMA MovesAlone == ASSUME NEW t, NEW at, NEW next, Moves(t, at, next) PROVE Hands
  BY DEF Moves, Hands, hdVars

LEMMA DropsAlone == ASSUME NEW t, NEW at, Drops(t, at) PROVE Hands
  BY DEF Drops, Hands, hdVars

LEMMA AdvAlone == AdvStep => Hands
  <1>1. AdvSetsUp => Hands
    BY SendsAlone, AwaitsAlone DEF AdvSetsUp
  <1>2. AdvParks => Hands
    BY DropsAlone DEF AdvParks
  <1>3. AdvStops => Hands
    BY SendsAlone, LastAlone, MovesAlone DEF AdvStops
  <1> QED
    BY <1>1, <1>2, <1>3, OpensAlone DEF AdvStep

LEMMA ScanAlone == ScanStep => Hands
  <1>1. ScanSetsUp => Hands
    BY SendsAlone, AwaitsAlone DEF ScanSetsUp
  <1>2. ScanResetOnly => Hands
    BY ExitsAlone DEF ScanResetOnly
  <1>3. ScanDrains => Hands
    BY DropsAlone, MovesAlone DEF ScanDrains
  <1>4. ScanListens => Hands
    BY DropsAlone, MovesAlone DEF ScanListens, TimeIsUp
  <1>5. ScanStops => Hands
    BY SendsAlone, LastAlone DEF ScanStops
  <1> QED
    BY <1>1, <1>2, <1>3, <1>4, <1>5, OpensAlone DEF ScanStep

LEMMA UpAlone == UpStep => Hands
  <1>1. WritesKnob("hci_up") => Hands
    BY DEF WritesKnob, Hands
  <1>2. Retries("hci_up") => Hands
    BY ExitsAlone DEF Retries, Hands, hdVars
  <1>3. Moves("hci_up", "bind", "send") => Hands
    BY MovesAlone
  <1> QED
    BY <1>1, <1>2, <1>3 DEF UpStep, Hands, hdVars

LEMMA OutsideAlone ==
    ASSUME TheLink \/ TheAir \/ TheUser \/ TheSignal \/ (\E t \in Tools : TheTool(t))
    PROVE  Hands
  <1>1. CASE TheLink \/ TheAir
    BY <1>1 DEF TheLink, TheAir, Hands
  <1>2. CASE TheUser
    BY <1>2 DEF TheUser, Starts, Hands, hdVars
  <1>3. CASE TheSignal
    BY <1>3, ExitsAlone DEF TheSignal, AdvSignalled, Hands, hdVars
  <1>4. CASE \E t \in Tools : TheTool(t)
    BY <1>4, AdvAlone, ScanAlone, UpAlone DEF TheTool
  <1> QED
    BY <1>1, <1>2, <1>3, <1>4

----------------------------------------------------------------------------
(* The driver's own steps.                                                 *)

\* The three variables of the invariant, kept.
LEMMA StillKeeps == ASSUME BtInv, UNCHANGED <<bt_running, init_done, bpc>> PROVE BtInv'
  BY DEF BtInv, ReinitAlone

LEMMA HandsKeep == ASSUME BtInv, Hands PROVE BtInv'
  <1>1. UNCHANGED <<bt_running, init_done, bpc>>
    BY DEF Hands, hdVars, BtEnableSet
  <1> QED
    BY <1>1, StillKeeps

LEMMA WorkKeeps == ASSUME BtInv, TheBtWork PROVE BtInv'
  <1>1. UNCHANGED <<init_done, bpc>>
    BY DEF TheBtWork, BtInitWork, BtRegistered
  <1>2. CASE BtInitWork /\ init_done
    <2>1. bpc \notin Handling
      BY <1>2 DEF BtInv
    <2>2. bt_running' \in BOOLEAN
      BY <1>2 DEF BtInitWork, BtInv
    <2> QED
      BY <1>1, <2>1, <2>2 DEF BtInv, ReinitAlone, Handling
  <1>3. CASE BtInitWork /\ ~init_done
    <2>1. bt_running' = bt_running
      BY <1>3 DEF BtInitWork
    <2> QED
      BY <1>1, <2>1, StillKeeps
  <1>4. CASE BtRegistered
    <2>1. bt_running' = FALSE
      BY <1>4 DEF BtRegistered
    <2> QED
      BY <1>1, <2>1 DEF BtInv, ReinitAlone
  <1> QED
    BY <1>2, <1>3, <1>4 DEF TheBtWork

LEMMA BootKeeps == ASSUME BtInv, TheBootEvent \/ TheC6 PROVE BtInv'
  <1>1. CASE C6Reboots
    <2>1. UNCHANGED <<bt_running, init_done, bpc>>
      BY <1>1 DEF C6Reboots
    <2> QED
      BY <2>1, StillKeeps
  <1>2. CASE BootBegins
    <2>1. bt_running' = bt_running /\ init_done' = FALSE /\ bpc' = "cancel"
      BY <1>2 DEF BootBegins
    <2> QED
      BY <2>1 DEF BtInv, ReinitAlone
  <1>3. CASE Cancels("cancel", "cancel again") \/ Cancels("cancel again", "deinit")
    <2>1. UNCHANGED <<bt_running, init_done>> /\ ~bt_running /\ bpc \in Handling
      BY <1>3 DEF Cancels, Handling
    <2>2. ~init_done
      BY <2>1 DEF BtInv
    <2> QED
      BY <2>1, <2>2 DEF BtInv, ReinitAlone
  <1>4. CASE DeinitBegins \/ DeinitEnds
    <2>1. /\ UNCHANGED <<bt_running, init_done>>
          /\ bpc \in {"deinit", "unregister"}
      BY <1>4 DEF DeinitBegins, DeinitEnds
    <2>2. ~init_done /\ ~bt_running
      BY <2>1 DEF BtInv, ReinitAlone, Handling
    <2> QED
      BY <2>1, <2>2 DEF BtInv, ReinitAlone
  <1>5. CASE BootFails
    <2>1. UNCHANGED <<bt_running, init_done>> /\ bpc' = "idle"
      BY <1>5 DEF BootFails
    <2> QED
      BY <2>1 DEF BtInv, ReinitAlone, Handling
  <1>6. CASE BootEnds
    <2>1. bt_running' = bt_running /\ init_done' \in {init_done, TRUE} /\ bpc' \in {"tail", "idle"}
      BY <1>6 DEF BootEnds
    <2> QED
      BY <2>1 DEF BtInv, ReinitAlone, Handling
  <1> QED
    BY <1>1, <1>2, <1>3, <1>4, <1>5, <1>6 DEF TheBootEvent, TheC6

LEMMA BtInductive == BtInv /\ [Next]_vars => BtInv'
  <1> SUFFICES ASSUME BtInv, [Next]_vars PROVE BtInv'
    OBVIOUS
  <1>1. CASE UNCHANGED vars
    BY <1>1, HandsKeep DEF vars, Hands
  <1>2. CASE Next
    BY <1>2, OutsideAlone, HandsKeep, WorkKeeps, BootKeeps DEF Next
  <1> QED
    BY <1>1, <1>2

\* No registration runs into the re-initialisation after a boot of the C6, for
\* every number of boots, tools and failures (0030:49-52, 0035:45-51).
THEOREM ReinitSafe == Spec => []ReinitAlone
  <1>1. BtInv => ReinitAlone
    BY DEF BtInv
  <1> QED
    BY <1>1, BtInit, BtInductive, PTL DEF Spec

----------------------------------------------------------------------------
(* What a step of a tool does to its own place and to the device: one of   *)
(* nine shapes.                                                            *)

PcSet    == {"off", "knob", "bind", "send", "wait", "drain", "serve", "last send", "last wait"}
Speakers == {"ble_adv", "ble_scan"}
Size(t)  == IF t = "ble_adv" THEN 4 ELSE 5

Stays    == UNCHANGED <<tpc, step>> /\ UNCHANGED ctlVars

Leaves(t) ==
    /\ tpc' = [tpc EXCEPT ![t] = "off"] /\ step' = [step EXCEPT ![t] = 1]
    /\ Released(t)

Walks(t) ==
    /\ \/ tpc[t] = "knob" /\ tpc' = [tpc EXCEPT ![t] = "bind"]
       \/ t = "hci_up" /\ tpc[t] = "bind" /\ tpc' = [tpc EXCEPT ![t] = "send"]
       \/ t \in Speakers /\ tpc[t] = "serve" /\ tpc' = [tpc EXCEPT ![t] = "last send"]
    /\ UNCHANGED step /\ UNCHANGED ctlVars

Drained ==
    /\ tpc["ble_scan"] = "drain" /\ tpc' = [tpc EXCEPT !["ble_scan"] = "send"]
    /\ UNCHANGED step /\ UNCHANGED ctlVars

Takes(t) ==
    /\ t \in Speakers /\ tpc[t] = "bind" /\ tpc' = [tpc EXCEPT ![t] = "send"]
    /\ owner = "none" /\ owner' = t /\ since' = c6boots /\ stale' = Len(down) /\ sq' = <<>>
    /\ UNCHANGED <<step, ctl, down, lost>>

Asks(t) ==
    /\ t \in Speakers /\ owner = t
    /\ \/ /\ tpc[t] = "send" /\ tpc' = [tpc EXCEPT ![t] = "wait"]
          /\ down' = Append(down, Commands(t)[step[t]])
       \/ /\ tpc[t] = "last send" /\ tpc' = [tpc EXCEPT ![t] = "last wait"]
          /\ down' = Append(down, Disable(t))
    /\ UNCHANGED <<step, owner, since, stale, ctl, sq, lost>>

Goal(t) == IF step[t] = Size(t) THEN "serve"
           ELSE IF t = "ble_scan" /\ step[t] = 1 THEN "drain" ELSE "send"

Hears(t) ==
    /\ t \in Speakers /\ owner = t /\ sq # <<>> /\ tpc[t] = "wait"
    /\ Head(sq).op = Commands(t)[step[t]] /\ Head(sq).ok
    /\ tpc' = [tpc EXCEPT ![t] = Goal(t)] /\ step' = [step EXCEPT ![t] = @ + 1]
    /\ sq' = Tail(sq)
    /\ UNCHANGED <<owner, since, stale, ctl, down, lost>>

Skips(t) ==
    /\ t \in Speakers /\ owner = t /\ sq # <<>> /\ sq' = Tail(sq)
    /\ UNCHANGED <<tpc, step, owner, since, stale, ctl, down, lost>>

KernelTakes ==
    /\ tpc["hci_up"] = "send" /\ tpc' = [tpc EXCEPT !["hci_up"] = "off"]
    /\ \/ UNCHANGED <<owner, ctl>>
       \/ owner = "none" /\ owner' = "kernel" /\ ctl' = {}
    /\ UNCHANGED <<step, since, stale, down, sq, lost>>

Shape(t) == Stays \/ Leaves(t) \/ Walks(t) \/ Drained \/ Takes(t) \/ Asks(t) \/ Hears(t) \/ Skips(t)
Shaped == KernelTakes \/ \E t \in Tools : Shape(t)

LEMMA SizeIs == ASSUME NEW t PROVE Len(Commands(t)) = Size(t)
  BY DEF Commands, AdvCommands, ScanCommands, Size

LEMMA SizeFits == ASSUME NEW t PROVE Size(t) \in {4, 5} /\ 1 <= Size(t)
  <1>1. Size(t) = 4 \/ Size(t) = 5
    BY DEF Size
  <1> QED
    BY <1>1

LEMMA ExitsShape == ASSUME NEW t \in Tools, Exits(t) PROVE Leaves(t)
  BY DEF Exits, Leaves

LEMMA KnobShape == ASSUME NEW t \in Tools, WritesKnob(t) PROVE Walks(t)
  BY DEF WritesKnob, Goes, Walks

LEMMA RetriesShape == ASSUME NEW t \in Tools, Retries(t) PROVE Shape(t)
  BY ExitsShape DEF Retries, Stays, Shape

LEMMA OpensShape == ASSUME NEW t \in Speakers, Opens(t) PROVE Shape(t)
  <1> t \in Tools
    BY DEF Speakers, Tools
  <1>1. CASE Binds(t)
    BY <1>1, ExitsShape DEF Binds, Takes, Shape
  <1> QED
    BY <1>1, KnobShape, RetriesShape DEF Opens, Shape

LEMMA MovesShape ==
    ASSUME NEW t \in Speakers, Moves(t, "serve", "last send")
    PROVE  Shape(t)
  BY DEF Moves, Goes, Walks, Shape

LEMMA SendsShape ==
    ASSUME NEW t \in Speakers, \/ SendsCmd(t, Commands(t)[step[t]], "send", "wait")
                               \/ SendsCmd(t, Disable(t), "last send", "last wait")
    PROVE  Shape(t)
  <1> t \in Tools
    BY DEF Speakers, Tools
  <1>1. CASE owner = t
    BY <1>1 DEF SendsCmd, Asks, Shape
  <1>2. CASE owner # t
    BY <1>2, ExitsShape DEF SendsCmd, Shape
  <1> QED
    BY <1>1, <1>2

LEMMA AwaitsShape ==
    ASSUME NEW t \in Speakers, AwaitsCmd(t, Goal(t))
    PROVE  Shape(t)
  <1> t \in Tools
    BY DEF Speakers, Tools
  <1>1. CASE Exits(t)
    BY <1>1, ExitsShape DEF Shape
  <1>2. CASE ~Exits(t)
    <2>1. owner = t /\ sq # <<>> /\ tpc[t] = "wait"
      BY <1>2 DEF AwaitsCmd
    <2>2. \/ /\ Head(sq).op = Commands(t)[step[t]] /\ Head(sq).ok
             /\ tpc' = [tpc EXCEPT ![t] = Goal(t)] /\ step' = [step EXCEPT ![t] = @ + 1]
             /\ sq' = Tail(sq) /\ UNCHANGED <<owner, since, stale, ctl, down, lost>>
          \/ sq' = Tail(sq) /\ UNCHANGED <<tpc, step, owner, since, stale, ctl, down, lost>>
      BY <1>2 DEF AwaitsCmd, Matches
    <2> QED
      BY <2>1, <2>2 DEF Hears, Skips, Shape
  <1> QED
    BY <1>1, <1>2

LEMMA LastShape == ASSUME NEW t \in Speakers, AwaitsLast(t) PROVE Shape(t)
  <1> t \in Tools
    BY DEF Speakers, Tools
  <1> QED
    BY ExitsShape DEF AwaitsLast, Skips, Shape

LEMMA DropsShape == ASSUME NEW t \in Speakers, NEW at, Drops(t, at) PROVE Shape(t)
  BY DEF Drops, Skips, Shape

LEMMA AdvShape == AdvStep => Shape("ble_adv")
  <1> SUFFICES ASSUME AdvStep PROVE Shape("ble_adv")
    OBVIOUS
  <1>0. "ble_adv" \in Speakers
    BY DEF Speakers
  <1>1. CASE Opens("ble_adv")
    BY <1>0, <1>1, OpensShape
  <1>2. CASE SendsCmd("ble_adv", AdvCommands[step["ble_adv"]], "send", "wait")
    <2>1. SendsCmd("ble_adv", Commands("ble_adv")[step["ble_adv"]], "send", "wait")
      BY <1>2 DEF Commands
    <2> QED
      BY <1>0, <2>1, SendsShape
  <1>3. CASE AwaitsCmd("ble_adv", IF Last("ble_adv") THEN "serve" ELSE "send")
    <2>1. Goal("ble_adv") = IF Last("ble_adv") THEN "serve" ELSE "send"
      BY SizeIs DEF Goal, Last
    <2>2. AwaitsCmd("ble_adv", Goal("ble_adv"))
      BY <1>3, <2>1
    <2> QED
      BY <1>0, <2>2, AwaitsShape
  <1>4. CASE AdvParks
    BY <1>0, <1>4, DropsShape DEF AdvParks
  <1>5. CASE Moves("ble_adv", "serve", "last send")
    BY <1>0, <1>5, MovesShape
  <1>6. CASE SendsCmd("ble_adv", "adv disable", "last send", "last wait")
    <2>1. SendsCmd("ble_adv", Disable("ble_adv"), "last send", "last wait")
      BY <1>6 DEF Disable
    <2> QED
      BY <1>0, <2>1, SendsShape
  <1>7. CASE AwaitsLast("ble_adv")
    BY <1>0, <1>7, LastShape
  <1> QED
    BY <1>1, <1>2, <1>3, <1>4, <1>5, <1>6, <1>7 DEF AdvStep, AdvSetsUp, AdvStops

LEMMA ScanShape == ScanStep => Shape("ble_scan")
  <1> SUFFICES ASSUME ScanStep PROVE Shape("ble_scan")
    OBVIOUS
  <1>0. "ble_scan" \in Speakers /\ "ble_scan" \in Tools
    BY DEF Speakers, Tools
  <1>1. CASE Opens("ble_scan")
    BY <1>0, <1>1, OpensShape
  <1>2. CASE SendsCmd("ble_scan", ScanCommands[step["ble_scan"]], "send", "wait")
    <2>1. SendsCmd("ble_scan", Commands("ble_scan")[step["ble_scan"]], "send", "wait")
      BY <1>2 DEF Commands
    <2> QED
      BY <1>0, <2>1, SendsShape
  <1>3. CASE AwaitsCmd("ble_scan", IF Last("ble_scan") THEN "serve"
                                   ELSE IF step["ble_scan"] = 1 THEN "drain" ELSE "send")
    <2>1. Goal("ble_scan") = IF Last("ble_scan") THEN "serve"
                             ELSE IF step["ble_scan"] = 1 THEN "drain" ELSE "send"
      BY SizeIs DEF Goal, Last
    <2>2. AwaitsCmd("ble_scan", Goal("ble_scan"))
      BY <1>3, <2>1
    <2> QED
      BY <1>0, <2>2, AwaitsShape
  <1>4. CASE ScanResetOnly
    BY <1>0, <1>4, ExitsShape DEF ScanResetOnly, Shape
  <1>5. CASE Drops("ble_scan", "drain") \/ Drops("ble_scan", "serve")
    BY <1>0, <1>5, DropsShape
  <1>6. CASE Moves("ble_scan", "drain", "send")
    BY <1>6 DEF Moves, Goes, Drained, Shape
  <1>7. CASE TimeIsUp
    BY <1>0, <1>7, MovesShape DEF TimeIsUp
  <1>8. CASE SendsCmd("ble_scan", "scan disable", "last send", "last wait")
    <2>1. SendsCmd("ble_scan", Disable("ble_scan"), "last send", "last wait")
      BY <1>8 DEF Disable
    <2> QED
      BY <1>0, <2>1, SendsShape
  <1>9. CASE AwaitsLast("ble_scan")
    BY <1>0, <1>9, LastShape
  <1> QED
    BY <1>1, <1>2, <1>3, <1>4, <1>5, <1>6, <1>7, <1>8, <1>9
       DEF ScanStep, ScanSetsUp, ScanDrains, ScanListens, ScanStops

LEMMA UpShape == UpStep => KernelTakes \/ Shape("hci_up")
  <1> SUFFICES ASSUME UpStep PROVE KernelTakes \/ Shape("hci_up")
    OBVIOUS
  <1>0. "hci_up" \in Tools
    BY DEF Tools
  <1>1. CASE WritesKnob("hci_up")
    BY <1>0, <1>1, KnobShape DEF Shape
  <1>2. CASE Retries("hci_up")
    BY <1>0, <1>2, RetriesShape
  <1>3. CASE Moves("hci_up", "bind", "send")
    BY <1>3 DEF Moves, Goes, Walks, Shape
  <1>4. CASE ~Moves("hci_up", "bind", "send") /\ ~WritesKnob("hci_up") /\ ~Retries("hci_up")
    BY <1>4 DEF UpStep, KernelTakes
  <1> QED
    BY <1>1, <1>2, <1>3, <1>4

\* A step of a tool or of a signal has one of the shapes.
LEMMA ToolShape ==
    ASSUME TheSignal \/ (\E t \in Tools : TheTool(t))
    PROVE  Shaped /\ UNCHANGED <<c6boots, runs>>
  <1>1. UNCHANGED c6boots
    BY OutsideAlone DEF Hands, hdVars, BtEnableSet
  <1>2. Shaped
    <2>1. "ble_adv" \in Tools /\ "ble_scan" \in Tools /\ "hci_up" \in Tools
      BY DEF Tools
    <2>2. CASE TheSignal
      <3>1. Leaves("ble_adv") \/ Leaves("ble_scan") \/ Stays
        BY <2>1, <2>2, ExitsShape DEF TheSignal, AdvSignalled, Stays
      <3> QED
        BY <2>1, <3>1 DEF Shaped, Shape
    <2>3. CASE \E t \in Tools : TheTool(t)
      <3>1. AdvStep \/ ScanStep \/ UpStep
        BY <2>3 DEF TheTool
      <3> QED
        BY <2>1, <3>1, AdvShape, ScanShape, UpShape DEF Shaped
    <2> QED
      BY <2>2, <2>3
  <1>3. UNCHANGED runs
    <2>1. CASE TheSignal
      BY <2>1 DEF TheSignal, AdvSignalled, Exits
    <2>2. CASE \E t \in Tools : TheTool(t)
      <3>1. AdvStep \/ ScanStep \/ UpStep
        BY <2>2 DEF TheTool
      <3> USE DEF Opens, WritesKnob, Retries, Binds, SendsCmd, AwaitsCmd, AwaitsLast, Drops, Moves, Exits
      <3>2. CASE AdvStep
        BY <3>2 DEF AdvStep, AdvSetsUp, AdvParks, AdvStops
      <3>3. CASE ScanStep
        BY <3>3 DEF ScanStep, ScanSetsUp, ScanResetOnly, ScanDrains, ScanListens, TimeIsUp, ScanStops
      <3>4. CASE UpStep
        BY <3>4 DEF UpStep
      <3> QED
        BY <3>1, <3>2, <3>3, <3>4
    <2> QED
      BY <2>1, <2>2
  <1> QED
    BY <1>1, <1>2, <1>3

Same == UNCHANGED <<tpc, step, runs>>

\* Every step as the tools and the device see it.
Seen ==
    \/ Shaped /\ UNCHANGED <<c6boots, runs>>
    \/ (\E t \in Tools : Starts(t)) /\ UNCHANGED c6boots
    \/ Executes /\ Same /\ UNCHANGED c6boots
    \/ Sees /\ Same /\ UNCHANGED c6boots
    \/ Detached /\ Same /\ UNCHANGED c6boots
    \/ Rebooted /\ Same /\ c6boots' = c6boots + 1
    \/ Stays /\ UNCHANGED <<c6boots, runs>>

LEMMA StepSeen == [Next]_vars => Seen
  <1> SUFFICES ASSUME [Next]_vars PROVE Seen
    OBVIOUS
  <1>1. CASE TheSignal \/ (\E t \in Tools : TheTool(t))
    BY <1>1, ToolShape DEF Seen
  <1>2. CASE TheUser
    BY <1>2 DEF TheUser, Starts, hdVars, Seen
  <1>3. CASE TheLink \/ TheAir
    BY <1>3 DEF TheLink, TheAir, toolVars, hdVars, Same, Seen
  <1>4. CASE TheC6
    BY <1>4 DEF TheC6, C6Reboots, toolVars, Same, Seen
  <1>5. CASE TheBootEvent \/ TheBtWork
    <2>1. UNCHANGED toolVars /\ (Detached \/ UNCHANGED ctlVars)
      BY <1>5 DEF TheBootEvent, TheBtWork
    <2>2. UNCHANGED c6boots
      BY <1>5 DEF TheBootEvent, TheBtWork, BootBegins, Cancels, DeinitBegins, DeinitEnds, BootFails,
                  BootEnds, BtInitWork, BtRegistered
    <2> QED
      BY <2>1, <2>2 DEF toolVars, Same, Stays, Seen
  <1>6. CASE UNCHANGED vars
    BY <1>6 DEF vars, toolVars, hdVars, Stays, Seen
  <1> QED
    BY <1>1, <1>2, <1>3, <1>4, <1>5, <1>6 DEF Next

----------------------------------------------------------------------------
(* Where a tool is in its sequence, and that it has hci0 only after its    *)
(* bind.                                                                   *)

Unbound == {"off", "knob", "bind"}

\* What the place of a tool says of its step.
Placed(t, at, s) ==
    /\ at \in Unbound => s = 1
    /\ at \in {"send", "wait"} => s <= Size(t)
    /\ at = "drain" => t = "ble_scan" /\ s = 2
    /\ at = "serve" => s = Size(t) + 1
    /\ t = "hci_up" => at \in {"off", "knob", "bind", "send"} /\ s = 1

Control ==
    /\ tpc \in [Tools -> PcSet] /\ step \in [Tools -> 1..6]
    /\ \A t \in Tools : Placed(t, tpc[t], step[t])
    /\ owner \in Speakers \cup {"none", "kernel"}
    /\ owner \in Speakers => tpc[owner] \notin Unbound

\* A tool that is not the owner moves.
LEMMA PlaceKeeps ==
    ASSUME Control, NEW t \in Tools, NEW at \in PcSet, NEW s \in 1..6, Placed(t, at, s),
           tpc' = [tpc EXCEPT ![t] = at], step' = [step EXCEPT ![t] = s],
           owner' \in Speakers \cup {"none", "kernel"},
           owner' \in Speakers => (IF owner' = t THEN at \notin Unbound ELSE owner' = owner)
    PROVE  Control'
  <1>1. tpc' \in [Tools -> PcSet] /\ step' \in [Tools -> 1..6]
    BY DEF Control
  <1>2. \A u \in Tools : IF u = t THEN tpc'[u] = at /\ step'[u] = s
                                  ELSE tpc'[u] = tpc[u] /\ step'[u] = step[u]
    BY DEF Control
  <1>3. \A u \in Tools : Placed(u, tpc'[u], step'[u])
    BY <1>2 DEF Control
  <1>4. owner' \in Speakers => tpc'[owner'] \notin Unbound
    <2> SUFFICES ASSUME owner' \in Speakers PROVE tpc'[owner'] \notin Unbound
      OBVIOUS
    <2>1. owner' \in Tools
      BY DEF Speakers, Tools
    <2> QED
      BY <1>2, <2>1 DEF Control
  <1> QED
    BY <1>1, <1>3, <1>4 DEF Control

LEMMA SameControl ==
    ASSUME Control, UNCHANGED <<tpc, step>>, owner' \in {owner, "none", "kernel"}
    PROVE  Control'
  <1>1. "none" \notin Speakers /\ "kernel" \notin Speakers
    BY DEF Speakers
  <1>2. owner' \in Speakers \cup {"none", "kernel"} /\ (owner' \in Speakers => owner' = owner)
    BY <1>1 DEF Control
  <1> QED
    BY <1>2 DEF Control

\* A step that keeps its place in the sequence.
LEMMA StepKept == ASSUME Control, NEW t \in Tools PROVE step = [step EXCEPT ![t] = step[t]] /\ step[t] \in 1..6 /\ Placed(t, tpc[t], step[t])
  BY DEF Control

LEMMA FreeOwner == ASSUME NEW t, Released(t) PROVE owner' = owner \/ (owner = t /\ owner' = "none")
  BY DEF Released, ctlVars

LEMMA LeavesControl == ASSUME Control, NEW t \in Tools, Leaves(t) PROVE Control'
  <1>1. tpc' = [tpc EXCEPT ![t] = "off"] /\ step' = [step EXCEPT ![t] = 1] /\ Released(t)
    BY DEF Leaves
  <1>2. "off" \in PcSet /\ 1 \in 1..6 /\ Placed(t, "off", 1)
    BY DEF PcSet, Placed
  <1>3. owner' \in Speakers \cup {"none", "kernel"} /\ (owner' \in Speakers => owner' # t /\ owner' = owner)
    <2>1. owner' = owner \/ (owner = t /\ owner' = "none")
      BY <1>1, FreeOwner
    <2>2. owner = t => owner' = "none"
      BY <1>1 DEF Released
    <2>3. "none" \notin Speakers
      BY DEF Speakers
    <2> QED
      BY <2>1, <2>2, <2>3 DEF Control
  <1> QED
    BY <1>1, <1>2, <1>3, PlaceKeeps

LEMMA WalksControl == ASSUME Control, NEW t \in Tools, Walks(t) \/ Starts(t) PROVE Control'
  <1>1. owner' = owner /\ step' = step
    BY DEF Walks, Starts, ctlVars
  <1>2. PICK at \in {"knob", "bind", "send", "last send"} :
           /\ tpc' = [tpc EXCEPT ![t] = at]
           /\ \/ tpc[t] \in {"off", "knob"} /\ at \in {"knob", "bind"}
              \/ t = "hci_up" /\ tpc[t] = "bind" /\ at = "send"
              \/ t \in Speakers /\ tpc[t] = "serve" /\ at = "last send"
    BY DEF Walks, Starts, Goes
  <1>3. at \in PcSet /\ step' = [step EXCEPT ![t] = step[t]] /\ step[t] \in 1..6 /\ Placed(t, tpc[t], step[t])
    BY <1>1, StepKept DEF PcSet
  <1>4. CASE tpc[t] \in {"off", "knob"} /\ at \in {"knob", "bind"}
    <2>1. Placed(t, at, step[t])
      BY <1>3, <1>4 DEF Placed, Unbound
    <2>2. owner \in Speakers => owner # t
      BY <1>4 DEF Control, Unbound
    <2> QED
      BY <1>1, <1>2, <1>3, <2>1, <2>2, PlaceKeeps DEF Control
  <1>5. CASE t = "hci_up" /\ tpc[t] = "bind" /\ at = "send"
    <2>1. step[t] = 1 /\ 1 <= Size(t)
      BY <1>3, <1>5 DEF Placed, Unbound, Size
    <2>2. Placed(t, at, step[t])
      BY <1>5, <2>1 DEF Placed, Unbound
    <2>3. t \notin Speakers
      BY <1>5 DEF Speakers
    <2> QED
      BY <1>1, <1>2, <1>3, <2>2, <2>3, PlaceKeeps DEF Control
  <1>6. CASE t \in Speakers /\ tpc[t] = "serve" /\ at = "last send"
    <2>1. Placed(t, at, step[t]) /\ at \notin Unbound
      BY <1>6 DEF Placed, Unbound, Speakers
    <2> QED
      BY <1>1, <1>2, <1>3, <2>1, PlaceKeeps DEF Control
  <1> QED
    BY <1>2, <1>4, <1>5, <1>6

LEMMA TalksControl ==
    ASSUME Control, NEW t \in Speakers, Takes(t) \/ Asks(t)
    PROVE  Control'
  <1>0. t \in Tools
    BY DEF Speakers, Tools
  <1>1. step' = step /\ step' = [step EXCEPT ![t] = step[t]] /\ step[t] \in 1..6
        /\ Placed(t, tpc[t], step[t])
    BY <1>0, StepKept DEF Takes, Asks
  <1>2. PICK at \in {"send", "wait", "last wait"} :
           /\ tpc' = [tpc EXCEPT ![t] = at]
           /\ \/ tpc[t] = "bind" /\ at = "send"
              \/ tpc[t] = "send" /\ at = "wait"
              \/ tpc[t] = "last send" /\ at = "last wait"
    BY DEF Takes, Asks
  <1>3. at \in PcSet /\ at \notin Unbound
    BY DEF PcSet, Unbound
  <1>4. owner' = t
    BY DEF Takes, Asks
  <1>5. Placed(t, at, step[t])
    <2>1. 1 <= Size(t)
      BY SizeFits
    <2>2. t # "hci_up"
      BY DEF Speakers
    <2>3. at \in {"send", "wait"} => step[t] <= Size(t)
      BY <1>1, <1>2, <2>1 DEF Placed, Unbound
    <2> QED
      BY ONLY <1>2, <2>2, <2>3 DEF Placed, Unbound
  <1> QED
    BY <1>0, <1>1, <1>2, <1>3, <1>4, <1>5, PlaceKeeps

LEMMA HearsControl ==
    ASSUME Control, NEW t \in Speakers, Hears(t)
    PROVE  Control'
  <1>0. t \in Tools
    BY DEF Speakers, Tools
  <1>1. tpc[t] = "wait" /\ step[t] \in 1..6 /\ Placed(t, tpc[t], step[t]) /\ step[t] <= Size(t)
    BY <1>0, StepKept DEF Hears, Placed
  <1>2. Size(t) \in {4, 5}
    BY DEF Size
  <1> DEFINE s == step[t] + 1
  <1>3. s \in 1..6 /\ step' = [step EXCEPT ![t] = s]
    BY <1>1, <1>2 DEF Hears
  <1>4. tpc' = [tpc EXCEPT ![t] = Goal(t)] /\ owner' = t
    BY DEF Hears
  <1>5. Goal(t) \in PcSet /\ Goal(t) \notin Unbound
    BY DEF Goal, PcSet, Unbound
  <1>6. Placed(t, Goal(t), s)
    <2>1. t # "hci_up"
      BY DEF Speakers
    <2>2. CASE step[t] = Size(t)
      BY <2>1, <2>2 DEF Goal, Placed, Unbound
    <2>3. CASE step[t] # Size(t)
      <3>1. s <= Size(t)
        BY <1>1, <1>2, <2>3
      <3> QED
        BY <2>1, <2>3, <3>1 DEF Goal, Placed, Unbound
    <2> QED
      BY <2>2, <2>3
  <1> QED
    BY <1>0, <1>3, <1>4, <1>5, <1>6, PlaceKeeps

LEMMA OthersControl == ASSUME Control, Drained \/ KernelTakes PROVE Control'
  <1>1. CASE Drained
    <2>1. "ble_scan" \in Tools /\ "ble_scan" \in Speakers
      BY DEF Tools, Speakers
    <2>2. step' = [step EXCEPT !["ble_scan"] = step["ble_scan"]] /\ step["ble_scan"] \in 1..6
          /\ Placed("ble_scan", tpc["ble_scan"], step["ble_scan"]) /\ owner' = owner
      BY <1>1, <2>1, StepKept DEF Drained, ctlVars
    <2>3. "send" \in PcSet /\ "send" \notin Unbound /\ Placed("ble_scan", "send", step["ble_scan"])
      BY <1>1, <2>2 DEF Drained, Placed, PcSet, Unbound, Size
    <2> QED
      BY <1>1, <2>1, <2>2, <2>3, PlaceKeeps DEF Drained, Control
  <1>2. CASE KernelTakes
    <2>1. "hci_up" \in Tools /\ "hci_up" \notin Speakers /\ "kernel" \notin Speakers
      BY DEF Tools, Speakers
    <2>2. step' = [step EXCEPT !["hci_up"] = step["hci_up"]] /\ step["hci_up"] \in 1..6
      BY <1>2, <2>1, StepKept DEF KernelTakes
    <2>3. step["hci_up"] = 1
      BY <2>1, StepKept DEF Placed
    <2>4. "off" \in PcSet /\ Placed("hci_up", "off", step["hci_up"])
      BY <2>3 DEF PcSet, Placed
    <2>5. /\ owner' \in Speakers \cup {"none", "kernel"}
          /\ owner' \in Speakers => owner' # "hci_up" /\ owner' = owner
      BY <1>2, <2>1 DEF KernelTakes, Control
    <2>6. tpc' = [tpc EXCEPT !["hci_up"] = "off"]
      BY <1>2 DEF KernelTakes
    <2> QED
      BY <2>1, <2>2, <2>4, <2>5, <2>6, PlaceKeeps
  <1> QED
    BY <1>1, <1>2

LEMMA ControlInductive == Control /\ [Next]_vars => Control'
  <1> SUFFICES ASSUME Control, [Next]_vars PROVE Control'
    OBVIOUS
  <1>1. Seen
    BY StepSeen
  <1>2. CASE Shaped
    <2>1. CASE KernelTakes
      BY <2>1, OthersControl
    <2>2. ASSUME NEW t \in Tools, Shape(t) PROVE Control'
      <3>1. CASE Stays
        BY <3>1, SameControl DEF Stays, ctlVars
      <3>2. CASE Leaves(t)
        BY <3>2, LeavesControl
      <3>3. CASE Walks(t)
        BY <3>3, WalksControl
      <3>4. CASE Drained
        BY <3>4, OthersControl
      <3>5. CASE Takes(t) \/ Asks(t)
        BY <3>5, TalksControl DEF Takes, Asks
      <3>6. CASE Hears(t)
        BY <3>6, HearsControl DEF Hears
      <3>7. CASE Skips(t)
        BY <3>7, SameControl DEF Skips
      <3> QED
        BY <2>2, <3>1, <3>2, <3>3, <3>4, <3>5, <3>6, <3>7 DEF Shape
    <2> QED
      BY <1>2, <2>1, <2>2 DEF Shaped
  <1>3. CASE \E t \in Tools : Starts(t)
    BY <1>3, WalksControl
  <1>4. CASE ((Executes \/ Sees \/ Detached \/ Rebooted) /\ Same) \/ Stays
    BY <1>4, SameControl DEF Executes, Sees, Detached, Rebooted, Same, Stays, ctlVars
  <1> QED
    BY <1>1, <1>2, <1>3, <1>4 DEF Seen

LEMMA ControlInit == Init => Control
  <1> SUFFICES ASSUME Init PROVE Control
    OBVIOUS
  <1>1. /\ tpc = [t \in Tools |-> "off"] /\ step = [t \in Tools |-> 1] /\ owner = "none"
    BY DEF Init, ToolInit
  <1> QED
    BY <1>1 DEF Control, Placed, PcSet, Unbound, Speakers

----------------------------------------------------------------------------
(* The commands.                                                           *)

LEMMA AdvAre ==
    /\ AdvCommands[1] = "reset" /\ AdvCommands[2] = "adv params"
    /\ AdvCommands[3] = "adv data" /\ AdvCommands[4] = "adv enable"
  BY DEF AdvCommands

LEMMA ScanAre ==
    /\ ScanCommands[1] = "reset" /\ ScanCommands[2] = "event mask" /\ ScanCommands[3] = "le mask"
    /\ ScanCommands[4] = "scan params" /\ ScanCommands[5] = "scan enable"
  BY DEF ScanCommands

LEMMA FourCases == ASSUME NEW n \in 1..4 PROVE n = 1 \/ n = 2 \/ n = 3 \/ n = 4
  OBVIOUS

LEMMA FiveCases == ASSUME NEW n \in 1..5 PROVE n = 1 \/ n = 2 \/ n = 3 \/ n = 4 \/ n = 5
  OBVIOUS

LEMMA FewAre == /\ 1 \in 1..4 /\ 2 \in 1..4 /\ 3 \in 1..4 /\ 4 \in 1..4
                /\ 1 \in 1..5 /\ 2 \in 1..5 /\ 3 \in 1..5 /\ 4 \in 1..5 /\ 5 \in 1..5
  OBVIOUS

AllCmds == {"reset", "adv params", "adv data", "adv enable",
            "event mask", "le mask", "scan params", "scan enable"}

LEMMA CmdsAre == Cmds = AllCmds
  <1>1. ASSUME NEW c \in Cmds PROVE c \in AllCmds
    <2>1. CASE \E i \in 1..4 : c = AdvCommands[i]
      BY <2>1, AdvAre, FourCases DEF AllCmds
    <2>2. CASE \E i \in 1..5 : c = ScanCommands[i]
      BY <2>2, ScanAre, FiveCases DEF AllCmds
    <2> QED
      BY <1>1, <2>1, <2>2 DEF Cmds
  <1>2. ASSUME NEW c \in AllCmds PROVE c \in Cmds
    <2>1. \/ c = AdvCommands[1] \/ c = AdvCommands[2] \/ c = AdvCommands[3] \/ c = AdvCommands[4]
          \/ c = ScanCommands[2] \/ c = ScanCommands[3] \/ c = ScanCommands[4] \/ c = ScanCommands[5]
      BY <1>2, AdvAre, ScanAre DEF AllCmds
    <2>2. (\E i \in 1..4 : c = AdvCommands[i]) \/ (\E i \in 1..5 : c = ScanCommands[i])
      BY <2>1, FewAre, Zenon
    <2> QED
      BY <2>2 DEF Cmds
  <1> QED
    BY <1>1, <1>2

\* A sequence starts with the reset, and has no other.
LEMMA CommandIs ==
    ASSUME NEW t \in Speakers, NEW n \in 1..Size(t)
    PROVE  /\ Commands(t)[n] \in AllCmds
           /\ n = 1 <=> Commands(t)[n] = "reset"
  <1>1. CASE t = "ble_adv"
    <2>1. n \in 1..4
      BY <1>1 DEF Size
    <2>2. Commands(t) = AdvCommands
      BY <1>1 DEF Commands
    <2> QED
      BY <2>1, <2>2, AdvAre, FourCases DEF AllCmds
  <1>2. CASE t = "ble_scan"
    <2>1. n \in 1..5
      BY <1>2 DEF Size
    <2>2. Commands(t) = ScanCommands
      BY <1>2 DEF Commands
    <2> QED
      BY <2>1, <2>2, ScanAre, FiveCases DEF AllCmds
  <1> QED
    BY <1>1, <1>2 DEF Speakers

LEMMA OpcodeIs ==
    ASSUME NEW c
    PROVE  /\ c \in AllCmds => Opcode(c) = c
           /\ c \in Disables => Opcode(c) \in AllCmds
           /\ Opcode(c) = "reset" => c = "reset"
  BY DEF Opcode, AllCmds, Disables

----------------------------------------------------------------------------
(* The controller and the queues before and behind it.                     *)

Queues ==
    /\ ctl \subseteq Cmds \ {"reset"}
    /\ down \in Seq(Cmds \cup Disables) /\ sq \in Seq(EventSet)
    /\ c6boots \in Nat /\ since \in 0..c6boots /\ stale \in Nat
    /\ lost \in 0..MaxLost

LEMMA ExecIn ==
    ASSUME NEW c, c \subseteq Cmds \ {"reset"}, NEW cmd \in Cmds \cup Disables
    PROVE  Exec(c, cmd) \subseteq Cmds \ {"reset"}
  BY CmdsAre DEF Exec, Disables, AllCmds

LEMMA EventIn ==
    ASSUME NEW cmd \in Cmds \cup Disables, NEW ok \in BOOLEAN
    PROVE  [op |-> Opcode(cmd), ok |-> ok] \in EventSet
  BY OpcodeIs, CmdsAre DEF EventSet

LEMMA DeliversIn ==
    ASSUME sq \in Seq(EventSet), NEW e \in EventSet, Delivers(e)
    PROVE  sq' \in Seq(EventSet)
  BY DEF Delivers

LEMMA HeadTail ==
    ASSUME NEW S, NEW q \in Seq(S), q # <<>>
    PROVE  /\ Head(q) \in S /\ Head(q) = q[1] /\ Tail(q) \in Seq(S)
           /\ Len(q) \in Nat \ {0} /\ Len(Tail(q)) = Len(q) - 1
           /\ \A i \in 1..Len(Tail(q)) : Tail(q)[i] = q[i + 1]
  OBVIOUS

LEMMA LostIn ==
    ASSUME lost \in 0..MaxLost, UNCHANGED lost \/ Refusable
    PROVE  lost' \in 0..MaxLost
  <1>1. MaxLost \in Nat /\ lost \in 0..MaxLost
    BY BleAssumption
  <1>2. lost' = lost \/ (lost < MaxLost /\ lost' = lost + 1)
    BY DEF Refusable
  <1> QED
    BY ONLY <1>1, <1>2

\* One command is carried out or refused, and what the owner hears of it.
LEMMA ExecutesSeen ==
    ASSUME Queues, Executes
    PROVE  LET c == Head(down) IN
           /\ down # <<>> /\ c \in Cmds \cup Disables
           /\ down' = Tail(down)
           /\ UNCHANGED <<owner, since, stale>>
           /\ UNCHANGED lost \/ Refusable
           /\ \/ ctl' = Exec(ctl, c) /\ sq' \in {sq, Append(sq, [op |-> Opcode(c), ok |-> TRUE])}
              \/ ctl' = ctl /\ sq' \in {sq, Append(sq, [op |-> Opcode(c), ok |-> FALSE])}
  <1>1. down # <<>> /\ down' = Tail(down) /\ UNCHANGED <<owner, since, stale>>
    BY DEF Executes
  <1>2. Head(down) \in Cmds \cup Disables
    BY <1>1, HeadTail DEF Queues
  <1>3. UNCHANGED lost \/ Refusable
    BY DEF Executes
  <1>4. \/ ctl' = Exec(ctl, Head(down)) /\ sq' \in {sq, Append(sq, [op |-> Opcode(Head(down)), ok |-> TRUE])}
        \/ ctl' = ctl /\ sq' \in {sq, Append(sq, [op |-> Opcode(Head(down)), ok |-> FALSE])}
    BY DEF Executes, Delivers
  <1> QED
    BY <1>1, <1>2, <1>3, <1>4

LEMMA AskedIn ==
    ASSUME Control, NEW t \in Tools, Asks(t)
    PROVE  \E c \in Cmds \cup Disables : down' = Append(down, c)
  <1>1. t \in Speakers
    BY DEF Asks
  <1>2. Disable(t) \in Disables
    BY DEF Disable, Disables
  <1>3. ASSUME tpc[t] = "send" PROVE Commands(t)[step[t]] \in Cmds
    <2>1. step[t] \in 1..6 /\ step[t] <= Size(t) /\ Size(t) \in {4, 5}
      BY <1>3, StepKept, SizeFits DEF Placed
    <2>2. step[t] \in 1..Size(t)
      BY <2>1
    <2> QED
      BY <1>1, <2>2, CommandIs, CmdsAre
  <1> QED
    BY <1>2, <1>3 DEF Asks

LEMMA QueuesInductive == Control /\ Queues /\ [Next]_vars => Queues'
  <1> SUFFICES ASSUME Control, Queues, [Next]_vars PROVE Queues'
    OBVIOUS
  <1>1. Seen
    BY StepSeen
  <1>2. CASE Executes /\ UNCHANGED c6boots
    <2>1. down \in Seq(Cmds \cup Disables) /\ down # <<>> /\ down' = Tail(down)
          /\ Head(down) \in Cmds \cup Disables
          /\ UNCHANGED <<owner, since, stale>>
          /\ (UNCHANGED lost \/ Refusable)
      BY <1>2, ExecutesSeen DEF Queues
    <2>2. down' \in Seq(Cmds \cup Disables)
      BY <2>1, HeadTail
    <2>3. ctl' \subseteq Cmds \ {"reset"}
      <3>1. ctl' = ctl \/ ctl' = Exec(ctl, Head(down))
        BY <1>2, ExecutesSeen
      <3>2. ctl \subseteq Cmds \ {"reset"}
        BY DEF Queues
      <3> QED
        BY <2>1, <3>1, <3>2, ExecIn
    <2>4. sq' \in Seq(EventSet)
      <3>1. /\ [op |-> Opcode(Head(down)), ok |-> TRUE] \in EventSet
            /\ [op |-> Opcode(Head(down)), ok |-> FALSE] \in EventSet
        BY <2>1, EventIn
      <3>2. \/ sq' = sq \/ sq' = Append(sq, [op |-> Opcode(Head(down)), ok |-> TRUE])
            \/ sq' = Append(sq, [op |-> Opcode(Head(down)), ok |-> FALSE])
        BY <1>2, ExecutesSeen
      <3>3. sq \in Seq(EventSet)
        BY DEF Queues
      <3> QED
        BY <3>1, <3>2, <3>3
    <2>5. lost' \in 0..MaxLost
      BY <2>1, LostIn DEF Queues
    <2> QED
      BY <1>2, <2>1, <2>2, <2>3, <2>4, <2>5 DEF Queues
  <1>3. CASE Sees /\ UNCHANGED c6boots
    <2>1. [op |-> "report", ok |-> TRUE] \in EventSet
      BY DEF EventSet
    <2>2. sq' \in Seq(EventSet)
      BY <1>3, <2>1, DeliversIn DEF Sees, Queues
    <2> QED
      BY <1>3, <2>2 DEF Sees, Queues
  <1>4. <<>> \in Seq(EventSet) /\ <<>> \in Seq(Cmds \cup Disables)
    OBVIOUS
  <1>5. CASE Detached /\ UNCHANGED c6boots
    <2>1. 0 \in 0..c6boots
      BY DEF Queues
    <2> QED
      BY <1>4, <1>5, <2>1 DEF Detached, Queues
  <1>6. CASE Rebooted /\ c6boots' = c6boots + 1
    <2>1. c6boots \in Nat /\ since \in 0..c6boots /\ since' = since
      BY <1>6 DEF Rebooted, Queues
    <2>2. c6boots' \in Nat /\ since' \in 0..c6boots'
      BY <1>6, <2>1
    <2> QED
      BY <1>4, <1>6, <2>2 DEF Rebooted, Queues
  <1>7. ASSUME UNCHANGED ctlVars, UNCHANGED c6boots
        PROVE  Queues'
    BY <1>7 DEF ctlVars, Queues
  <1>8. CASE Shaped /\ UNCHANGED c6boots
    <2>1. CASE KernelTakes
      BY <1>8, <2>1 DEF KernelTakes, Queues
    <2>2. ASSUME NEW t \in Tools, Shape(t) PROVE Queues'
      <3>1. CASE Stays \/ Walks(t) \/ Drained
        BY <1>7, <1>8, <3>1 DEF Stays, Walks, Drained
      <3>2. CASE Leaves(t)
        <4>1. CASE UNCHANGED ctlVars
          BY <1>7, <1>8, <4>1
        <4>2. CASE ~UNCHANGED ctlVars
          <5>1. sq' = <<>> /\ since' = 0 /\ stale' = 0 /\ ctl' \in {ctl, {}} /\ UNCHANGED <<down, lost>>
            BY <3>2, <4>2 DEF Leaves, Released
          <5>2. 0 \in 0..c6boots
            BY DEF Queues
          <5> QED
            BY <1>4, <1>8, <5>1, <5>2 DEF Queues
        <4> QED
          BY <4>1, <4>2
      <3>3. CASE Takes(t)
        <4>1. since' = c6boots /\ stale' = Len(down) /\ sq' = <<>> /\ UNCHANGED <<ctl, down, lost>>
          BY <3>3 DEF Takes
        <4>2. c6boots \in 0..c6boots /\ Len(down) \in Nat
          BY DEF Queues
        <4> QED
          BY <1>4, <1>8, <4>1, <4>2 DEF Queues
      <3>4. CASE Asks(t)
        <4>1. t \in Speakers /\ UNCHANGED <<since, stale, ctl, sq, lost>>
          BY <3>4 DEF Asks
        <4>2. PICK c \in Cmds \cup Disables : down' = Append(down, c)
          BY <3>4, AskedIn
        <4>3. down' \in Seq(Cmds \cup Disables)
          BY <4>2 DEF Queues
        <4> QED
          BY <1>8, <4>1, <4>3 DEF Queues
      <3>5. CASE Hears(t) \/ Skips(t)
        <4>1. sq # <<>> /\ sq' = Tail(sq) /\ UNCHANGED <<since, stale, ctl, down, lost>>
          BY <3>5 DEF Hears, Skips
        <4>2. sq' \in Seq(EventSet)
          BY <4>1, HeadTail DEF Queues
        <4> QED
          BY <1>8, <4>1, <4>2 DEF Queues
      <3> QED
        BY <2>2, <3>1, <3>2, <3>3, <3>4, <3>5 DEF Shape
    <2> QED
      BY <1>8, <2>1, <2>2 DEF Shaped
  <1>9. CASE (\E t \in Tools : Starts(t)) /\ UNCHANGED c6boots
    BY <1>7, <1>9 DEF Starts
  <1>10. CASE Stays /\ UNCHANGED c6boots
    BY <1>7, <1>10 DEF Stays
  <1> QED
    BY <1>1, <1>2, <1>3, <1>5, <1>6, <1>8, <1>9, <1>10 DEF Seen

LEMMA QueuesInit == Init => Queues
  <1> SUFFICES ASSUME Init PROVE Queues
    OBVIOUS
  <1>1. ctl = {} /\ down = <<>> /\ sq = <<>> /\ c6boots = 1 /\ since = 0 /\ stale = 0 /\ lost = 0
    BY DEF Init, HdInit, ToolInit
  <1>2. lost \in 0..MaxLost /\ c6boots \in Nat /\ since \in 0..c6boots /\ stale \in Nat
    BY <1>1, BleAssumption
  <1> QED
    BY <1>1, <1>2 DEF Queues

----------------------------------------------------------------------------
(* Sequences of events.                                                    *)

OpsIn(q, S)   == \A i \in 1..Len(q) : q[i].op \in S
NoneOf(q, op) == \A i \in 1..Len(q) : q[i].op # op
Oks(q, op)    == \E i \in 1..Len(q) : q[i].op = op /\ q[i].ok

\* After an accepted reset the owner hears of nothing but resets.
AfterReset(q) ==
    \A i \in 1..Len(q) : q[i].op = "reset" /\ q[i].ok =>
        \A j \in i..Len(q) : q[j].op \in {"reset", "report"}

LEMMA Appended ==
    ASSUME NEW q \in Seq(EventSet), NEW e \in EventSet
    PROVE  /\ Len(q) \in Nat /\ Len(Append(q, e)) = Len(q) + 1
           /\ \A i \in 1..Len(q) : Append(q, e)[i] = q[i]
           /\ Append(q, e)[Len(q) + 1] = e
  OBVIOUS

LEMMA UpTo == ASSUME NEW n \in Nat, NEW i \in 1..(n + 1) PROVE i \in 1..n \/ i = n + 1
  OBVIOUS

LEMMA OpsAppend ==
    ASSUME NEW q \in Seq(EventSet), NEW e \in EventSet
    PROVE  /\ \A S : OpsIn(q, S) /\ e.op \in S => OpsIn(Append(q, e), S)
           /\ \A op : NoneOf(q, op) /\ e.op # op => NoneOf(Append(q, e), op)
           /\ \A op : Oks(Append(q, e), op) => Oks(q, op) \/ (e.op = op /\ e.ok)
  <1>1. ASSUME NEW i \in 1..Len(Append(q, e)) 
        PROVE  (i \in 1..Len(q) /\ Append(q, e)[i] = q[i]) \/ Append(q, e)[i] = e
    BY Appended, UpTo
  <1>2. \A S : OpsIn(q, S) /\ e.op \in S => OpsIn(Append(q, e), S)
    BY <1>1 DEF OpsIn
  <1>3. \A op : NoneOf(q, op) /\ e.op # op => NoneOf(Append(q, e), op)
    BY <1>1 DEF NoneOf
  <1>4. \A op : Oks(Append(q, e), op) => Oks(q, op) \/ (e.op = op /\ e.ok)
    BY <1>1 DEF Oks
  <1> QED
    BY <1>2, <1>3, <1>4

LEMMA OpsTail ==
    ASSUME NEW q \in Seq(EventSet), q # <<>>
    PROVE  /\ \A S : OpsIn(q, S) => OpsIn(Tail(q), S)
           /\ \A op : NoneOf(q, op) => NoneOf(Tail(q), op)
           /\ \A op : Oks(Tail(q), op) => Oks(q, op)
           /\ AfterReset(q) => AfterReset(Tail(q))
           /\ AfterReset(q) /\ Head(q).op = "reset" /\ Head(q).ok => OpsIn(Tail(q), {"reset", "report"})
  <1>1. /\ Len(q) \in Nat \ {0} /\ Len(Tail(q)) = Len(q) - 1 /\ Head(q) = q[1]
        /\ \A i \in 1..Len(Tail(q)) : Tail(q)[i] = q[i + 1]
    BY HeadTail
  <1>2. ASSUME NEW i \in 1..Len(Tail(q)) PROVE i + 1 \in 1..Len(q) /\ Tail(q)[i] = q[i + 1]
    BY <1>1
  <1>3. \A S : OpsIn(q, S) => OpsIn(Tail(q), S)
    BY <1>2 DEF OpsIn
  <1>4. \A op : NoneOf(q, op) => NoneOf(Tail(q), op)
    BY <1>2 DEF NoneOf
  <1>5. \A op : Oks(Tail(q), op) => Oks(q, op)
    BY <1>2 DEF Oks
  <1>6. ASSUME NEW i \in 1..Len(Tail(q)), NEW j \in i..Len(Tail(q))
        PROVE  j + 1 \in (i + 1)..Len(q) /\ Tail(q)[j] = q[j + 1]
    BY <1>1
  <1>7. AfterReset(q) => AfterReset(Tail(q))
    BY <1>2, <1>6 DEF AfterReset
  <1>8. ASSUME NEW j \in 1..Len(Tail(q)) PROVE j + 1 \in 1..Len(q) /\ 1 \in 1..Len(q)
    BY <1>1
  <1>9. AfterReset(q) /\ Head(q).op = "reset" /\ Head(q).ok => OpsIn(Tail(q), {"reset", "report"})
    BY <1>1, <1>8 DEF AfterReset, OpsIn
  <1> QED
    BY <1>3, <1>4, <1>5, <1>7, <1>9

LEMMA AfterAppend ==
    ASSUME NEW q \in Seq(EventSet), NEW e \in EventSet, AfterReset(q),
           e.op \in {"reset", "report"} \/ ~Oks(q, "reset")
    PROVE  AfterReset(Append(q, e))
  <1> DEFINE a == Append(q, e)
             n == Len(q)
  <1>1. n \in Nat /\ Len(a) = n + 1 /\ (\A i \in 1..n : a[i] = q[i]) /\ a[n + 1] = e
    BY Appended
  <1> HIDE DEF a, n
  <1> SUFFICES ASSUME NEW i \in 1..Len(a), a[i].op = "reset", a[i].ok, NEW j \in i..Len(a)
               PROVE  a[j].op \in {"reset", "report"}
    BY DEF AfterReset, a
  <1>2. i \in 1..n \/ i = n + 1
    BY <1>1, UpTo
  <1>3. CASE i = n + 1
    <2>1. j = n + 1
      BY <1>1, <1>3
    <2> QED
      BY <1>1, <1>3, <2>1
  <1>4. CASE i \in 1..n
    <2>1. q[i].op = "reset" /\ q[i].ok
      BY <1>1, <1>4
    <2>2. Oks(q, "reset")
      BY <1>4, <2>1 DEF Oks, n
    <2>3. j \in i..n \/ j = n + 1
      BY <1>1, <1>4
    <2>4. CASE j = n + 1
      BY <1>1, <2>2, <2>4
    <2>5. CASE j \in i..n
      <3>1. j \in 1..n
        BY <1>1, <1>4, <2>5
      <3>2. q[j].op \in {"reset", "report"}
        BY <1>4, <2>1, <2>5 DEF AfterReset, n
      <3> QED
        BY <1>1, <3>1, <3>2
    <2> QED
      BY <2>3, <2>4, <2>5
  <1> QED
    BY <1>2, <1>3, <1>4

----------------------------------------------------------------------------
(* The set-up.  One command of an earlier tool may still be on its way at  *)
(* the bind: it is executed, and answered, before the reset of this one,   *)
(* so that an answer that is taken for the reset's is of a reset.          *)

ResetClean == AfterReset(sq) /\ (Oks(sq, "reset") => ctl = {})

\* Before the reset is sent, and while its answer is awaited.
BeforeReset == ResetClean /\ (down = <<>> \/ (OpsIn(sq, {"report"}) /\ Len(down) = 1))
InReset ==
    /\ ResetClean
    /\ \/ down = <<>> \/ down = <<"reset">>
       \/ OpsIn(sq, {"report"}) /\ Len(down) = 2 /\ down[2] = "reset"

\* Between two commands, and while the answer of cmd is awaited.
Between(n, done) ==
    /\ ctl = done
    /\ down = <<>> \/ (n = 2 /\ down = <<"reset">>)
    /\ OpsIn(sq, done \cup {"reset", "report"})
Awaiting(n, done, cmd) ==
    /\ OpsIn(sq, done \cup {cmd, "reset", "report"})
    /\ done \subseteq ctl /\ ctl \subseteq done \cup {cmd}
    /\ \/ down = <<>> /\ (Oks(sq, cmd) => cmd \in ctl)
       \/ /\ ctl = done /\ NoneOf(sq, cmd)
          /\ down = <<cmd>> \/ (n = 2 /\ down = <<"reset", cmd>>)

Done(t, n) == {Commands(t)[i] : i \in 2..(n - 1)}

First(t) == (tpc[t] = "send" => BeforeReset) /\ (tpc[t] = "wait" => InReset)
Later(t) ==
    /\ tpc[t] \in {"send", "drain", "serve"} => Between(step[t], Done(t, step[t]))
    /\ tpc[t] = "wait" => Awaiting(step[t], Done(t, step[t]), Commands(t)[step[t]])
SetsUp(t) == IF step[t] = 1 THEN First(t) ELSE Later(t)

Bound(t) == owner = t /\ since = c6boots /\ stale <= 1
SetUp == \A t \in Speakers : Bound(t) => SetsUp(t)

LEMMA Distinct ==
    ASSUME NEW t \in Speakers, NEW i \in 1..Size(t), NEW j \in 1..Size(t), i # j
    PROVE  Commands(t)[i] # Commands(t)[j]
  <1>1. CASE t = "ble_adv"
    <2>1. i \in 1..4 /\ j \in 1..4 /\ Commands(t) = AdvCommands
      BY <1>1 DEF Size, Commands
    <2> QED
      BY <2>1, AdvAre, FourCases
  <1>2. CASE t = "ble_scan"
    <2>1. i \in 1..5 /\ j \in 1..5 /\ Commands(t) = ScanCommands
      BY <1>2 DEF Size, Commands
    <2> QED
      BY <2>1, ScanAre, FiveCases
  <1> QED
    BY <1>1, <1>2 DEF Speakers

LEMMA DoneNext ==
    ASSUME NEW t \in Speakers, NEW n \in 2..Size(t)
    PROVE  /\ Done(t, n + 1) = Done(t, n) \cup {Commands(t)[n]}
           /\ Commands(t)[n] \notin Done(t, n) \cup {"reset", "report"}
           /\ Commands(t)[n] \in AllCmds
  <1>0. Size(t) \in Nat
    BY SizeFits
  <1>1. \A i : i \in 2..((n + 1) - 1) <=> i \in 2..(n - 1) \/ i = n
    BY <1>0
  <1>2. Done(t, n + 1) = Done(t, n) \cup {Commands(t)[n]}
    BY <1>1 DEF Done
  <1>3. n \in 1..Size(t) /\ n # 1
    BY <1>0
  <1>4. Commands(t)[n] \in AllCmds /\ Commands(t)[n] # "reset"
    BY <1>3, CommandIs
  <1>5. ASSUME NEW i \in 2..(n - 1) PROVE Commands(t)[i] # Commands(t)[n]
    <2>1. i \in 1..Size(t) /\ i # n
      BY <1>0
    <2> QED
      BY <1>3, <2>1, Distinct
  <1>6. Commands(t)[n] # "report"
    BY <1>4 DEF AllCmds
  <1> QED
    BY <1>2, <1>4, <1>5, <1>6 DEF Done

LEMMA DoneFirst == ASSUME NEW t PROVE Done(t, 2) = {}
  <1>1. \A i : i \notin 2..(2 - 1)
    OBVIOUS
  <1> QED
    BY <1>1 DEF Done

LEMMA Tuples ==
    ASSUME NEW a, NEW b
    PROVE  /\ Len(<<a>>) = 1 /\ <<a>>[1] = a
           /\ Len(<<a, b>>) = 2 /\ <<a, b>>[1] = a /\ <<a, b>>[2] = b
  OBVIOUS

LEMMA TuplesIn ==
    ASSUME NEW S, NEW a \in S, NEW b \in S
    PROVE  <<a>> \in Seq(S) /\ <<a, b>> \in Seq(S)
  OBVIOUS

LEMMA OneIndex == ASSUME NEW n, n = 1, NEW i \in 1..n PROVE i = 1
  OBVIOUS

LEMMA OneLeft ==
    ASSUME NEW S, NEW q \in Seq(S), Len(q) = 1
    PROVE  q # <<>> /\ Head(q) = q[1] /\ Tail(q) = <<>>
  <1>1. q # <<>>
    BY EmptySeq
  <1>2. Tail(q) \in Seq(S) /\ Len(Tail(q)) = 0
    BY <1>1, HeadTailProperties
  <1>3. Tail(q) = <<>>
    BY <1>2, EmptySeq
  <1> QED
    BY <1>1, <1>3

LEMMA TwoLeft ==
    ASSUME NEW S, NEW q \in Seq(S), Len(q) = 2
    PROVE  q # <<>> /\ Head(q) = q[1] /\ Tail(q) = <<q[2]>>
  <1>1. q # <<>>
    BY EmptySeq
  <1>2. Tail(q) \in Seq(S) /\ Len(Tail(q)) = 1 /\ \A i \in 1..Len(Tail(q)) : Tail(q)[i] = q[i + 1]
    BY <1>1, HeadTailProperties
  <1>3. q[2] \in S
    OBVIOUS
  <1>4. <<q[2]>> \in Seq(S) /\ Len(<<q[2]>>) = 1 /\ <<q[2]>>[1] = q[2]
    BY <1>3, Tuples, TuplesIn
  <1>5. Tail(q)[1] = q[2]
    BY <1>2
  <1>6. \A i \in 1..Len(Tail(q)) : Tail(q)[i] = <<q[2]>>[i]
    <2> SUFFICES ASSUME NEW i \in 1..Len(Tail(q)) PROVE Tail(q)[i] = <<q[2]>>[i]
      OBVIOUS
    <2>1. i = 1
      BY <1>2, OneIndex
    <2> QED
      BY <1>4, <1>5, <2>1
  <1>7. Tail(q) = <<q[2]>>
    BY <1>2, <1>4, <1>6, SeqEqual
  <1> QED
    BY <1>1, <1>7

LEMMA AddOne ==
    ASSUME NEW S, NEW q \in Seq(S), NEW a \in S
    PROVE  /\ q = <<>> => Append(q, a) = <<a>>
           /\ Len(q) = 1 => Append(q, a) = <<q[1], a>>
  <1>1. /\ Append(q, a) \in Seq(S) /\ Len(Append(q, a)) = Len(q) + 1
        /\ \A i \in 1..Len(q) : Append(q, a)[i] = q[i]
        /\ Append(q, a)[Len(q) + 1] = a
    BY AppendProperties
  <1>2. CASE q = <<>>
    <2>1. Append(q, a)[1] = a /\ Len(Append(q, a)) = 1
      BY <1>1, <1>2
    <2>2. <<a>> \in Seq(S) /\ Len(<<a>>) = 1 /\ <<a>>[1] = a
      OBVIOUS
    <2>3. \A i \in 1..Len(Append(q, a)) : Append(q, a)[i] = <<a>>[i]
      BY <2>1, <2>2
    <2>4. Append(q, a) = <<a>>
      BY <1>1, <2>1, <2>2, <2>3, SeqEqual
    <2> QED
      BY <1>2, <2>4
  <1>3. CASE Len(q) = 1
    <2>0. Len(q) + 1 = 2 /\ 1 \in 1..Len(q)
      BY <1>3
    <2>1. Append(q, a)[1] = q[1] /\ Append(q, a)[2] = a /\ Len(Append(q, a)) = 2
      BY <1>1, <2>0, Zenon
    <2>2. q[1] \in S
      BY <2>0, LenProperties
    <2>3. <<q[1], a>> \in Seq(S) /\ Len(<<q[1], a>>) = 2 /\ <<q[1], a>>[1] = q[1] /\ <<q[1], a>>[2] = a
      BY <2>2, Tuples, TuplesIn
    <2>4. \A i \in 1..Len(Append(q, a)) : Append(q, a)[i] = <<q[1], a>>[i]
      BY <2>1, <2>3
    <2>5. Append(q, a) = <<q[1], a>>
      BY <1>1, <2>1, <2>3, <2>4, SeqEqual
    <2>6. q # <<>>
      BY <1>3
    <2> QED
      BY <2>5, <2>6
  <1> QED
    BY <1>2, <1>3

----------------------------------------------------------------------------
(* The set-up, step by step.                                               *)

LEMMA EventsTyped ==
    ASSUME Queues, NEW c \in Cmds \cup Disables
    PROVE  /\ sq \in Seq(EventSet)
           /\ [op |-> Opcode(c), ok |-> TRUE] \in EventSet
           /\ [op |-> Opcode(c), ok |-> FALSE] \in EventSet
  BY EventIn DEF Queues

\* What is known of the first event after a command was carried out.
LEMMA ResetExecutes ==
    ASSUME Queues, ResetClean, Executes,
           Head(down) = "reset" \/ OpsIn(sq, {"report"})
    PROVE  ResetClean'
  <1> DEFINE c == Head(down)
             good == [op |-> Opcode(c), ok |-> TRUE]
             bad  == [op |-> Opcode(c), ok |-> FALSE]
  <1>1. c \in Cmds \cup Disables
        /\ \/ ctl' = Exec(ctl, c) /\ sq' \in {sq, Append(sq, good)}
           \/ ctl' = ctl /\ sq' \in {sq, Append(sq, bad)}
    BY ExecutesSeen
  <1>2. sq \in Seq(EventSet) /\ good \in EventSet /\ bad \in EventSet
    BY <1>1, EventsTyped
  <1>3. good.op = Opcode(c) /\ good.ok /\ bad.op = Opcode(c) /\ ~bad.ok
    OBVIOUS
  <1>4. Opcode(c) = "reset" => c = "reset"
    BY OpcodeIs
  <1>5. c = "reset" => Opcode(c) = "reset" /\ Exec(ctl, c) = {}
    BY DEF Opcode, Exec
  <1> HIDE DEF c, good, bad
  <1>6. c = "reset" \/ ~Oks(sq, "reset")
    BY DEF OpsIn, Oks, c
  <1>7. good.op \in {"reset", "report"} \/ ~Oks(sq, "reset")
    BY <1>3, <1>5, <1>6
  <1>8. bad.op \in {"reset", "report"} \/ ~Oks(sq, "reset")
    BY <1>3, <1>5, <1>6
  <1>9. AfterReset(sq) /\ AfterReset(Append(sq, good)) /\ AfterReset(Append(sq, bad))
    BY <1>2, <1>7, <1>8, AfterAppend DEF ResetClean
  <1>10. AfterReset(sq')
    BY <1>1, <1>9
  <1>11. Oks(sq', "reset") => ctl' = {}
    <2> SUFFICES ASSUME Oks(sq', "reset") PROVE ctl' = {}
      OBVIOUS
    <2>1. CASE c = "reset"
      <3>1. CASE ctl' = Exec(ctl, c)
        BY <1>5, <2>1, <3>1
      <3>2. CASE ctl' = ctl /\ sq' \in {sq, Append(sq, bad)}
        <4>0. Oks(Append(sq, bad), "reset") => Oks(sq, "reset")
          BY <1>2, <1>3, OpsAppend
        <4>1. Oks(sq, "reset")
          BY <3>2, <4>0
        <4> QED
          BY <3>2, <4>1 DEF ResetClean
      <3> QED
        BY <1>1, <3>1, <3>2
    <2>2. CASE c # "reset"
      <3>1. ~Oks(sq, "reset") /\ good.op # "reset" /\ bad.op # "reset"
        BY <1>3, <1>4, <1>6, <2>2
      <3>2. ~Oks(Append(sq, good), "reset") /\ ~Oks(Append(sq, bad), "reset")
        BY <1>2, <3>1, OpsAppend
      <3> QED
        BY <1>1, <3>1, <3>2
    <2> QED
      BY <2>1, <2>2
  <1> QED
    BY <1>10, <1>11 DEF ResetClean

LEMMA FirstExecutes ==
    ASSUME Queues, Executes
    PROVE  /\ BeforeReset => BeforeReset'
           /\ InReset => InReset'
  <1>1. down # <<>> /\ down' = Tail(down) /\ down \in Seq(Cmds \cup Disables)
    BY ExecutesSeen DEF Queues
  <1>2. ASSUME BeforeReset PROVE BeforeReset'
    <2>1. OpsIn(sq, {"report"}) /\ Len(down) = 1 /\ ResetClean
      BY <1>1, <1>2 DEF BeforeReset
    <2>2. down' = <<>>
      BY <1>1, <2>1, OneLeft
    <2>3. ResetClean'
      BY <2>1, ResetExecutes
    <2> QED
      BY <2>2, <2>3 DEF BeforeReset
  <1>3. ASSUME InReset PROVE InReset'
    <2>0. ResetClean
      BY <1>3 DEF InReset
    <2>1. CASE down = <<"reset">>
      <3>1. Len(down) = 1 /\ down[1] = "reset"
        BY <2>1, Tuples
      <3>2. down' = <<>> /\ Head(down) = "reset"
        BY <1>1, <3>1, OneLeft
      <3>3. ResetClean'
        BY <2>0, <3>2, ResetExecutes
      <3> QED
        BY <3>2, <3>3 DEF InReset
    <2>2. CASE OpsIn(sq, {"report"}) /\ Len(down) = 2 /\ down[2] = "reset"
      <3>1. down' = <<"reset">>
        BY <1>1, <2>2, TwoLeft
      <3>2. ResetClean'
        BY <2>0, <2>2, ResetExecutes
      <3> QED
        BY <3>1, <3>2 DEF InReset
    <2> QED
      BY <1>1, <1>3, <2>1, <2>2 DEF InReset
  <1> QED
    BY <1>2, <1>3

LEMMA BetweenExecutes ==
    ASSUME Queues, Executes, NEW n, NEW done, n = 2 => done = {}, Between(n, done)
    PROVE  Between(n, done)'
  <1> DEFINE good == [op |-> "reset", ok |-> TRUE]
             bad  == [op |-> "reset", ok |-> FALSE]
  <1>1. down # <<>> /\ down' = Tail(down) /\ down \in Seq(Cmds \cup Disables)
    BY ExecutesSeen DEF Queues
  <1>2. n = 2 /\ down = <<"reset">> /\ ctl = {} /\ done = {}
    BY <1>1 DEF Between
  <1>3. Len(down) = 1 /\ down[1] = "reset"
    BY <1>2, Tuples
  <1>4. Head(down) = "reset" /\ down' = <<>>
    BY <1>1, <1>3, OneLeft
  <1>5. Opcode("reset") = "reset" /\ Exec(ctl, "reset") = {}
    BY DEF Opcode, Exec
  <1>6. ctl' = {} /\ sq' \in {sq, Append(sq, good), Append(sq, bad)}
    BY <1>2, <1>4, <1>5, ExecutesSeen
  <1>7. "reset" \in Cmds \cup Disables
    BY CmdsAre DEF AllCmds
  <1>8. sq \in Seq(EventSet) /\ good \in EventSet /\ bad \in EventSet
    BY <1>5, <1>7, EventsTyped
  <1>9. good.op \in done \cup {"reset", "report"} /\ bad.op \in done \cup {"reset", "report"}
    OBVIOUS
  <1> HIDE DEF good, bad
  <1> DEFINE S == done \cup {"reset", "report"}
  <1> HIDE DEF S
  <1>10. OpsIn(sq', S)
    <2>1. OpsIn(sq, S) /\ good.op \in S /\ bad.op \in S
      BY <1>9 DEF Between, S
    <2>2. OpsIn(Append(sq, good), S) /\ OpsIn(Append(sq, bad), S)
      BY <1>8, <2>1, OpsAppend
    <2> QED
      BY <1>6, <2>1, <2>2
  <1> QED
    BY <1>2, <1>4, <1>6, <1>10 DEF Between, S

LEMMA AwaitingExecutes ==
    ASSUME Queues, Executes, NEW n, NEW done, NEW cmd \in AllCmds \ {"reset"}, n = 2 => done = {},
           cmd \notin done, Awaiting(n, done, cmd)
    PROVE  Awaiting(n, done, cmd)'
  <1> DEFINE c == Head(down)
             good == [op |-> Opcode(c), ok |-> TRUE]
             bad  == [op |-> Opcode(c), ok |-> FALSE]
             S == done \cup {cmd, "reset", "report"}
  <1>1. down # <<>> /\ down' = Tail(down) /\ down \in Seq(Cmds \cup Disables)
    BY ExecutesSeen DEF Queues
  <1>2. c \in Cmds \cup Disables
        /\ \/ ctl' = Exec(ctl, c) /\ sq' \in {sq, Append(sq, good)}
           \/ ctl' = ctl /\ sq' \in {sq, Append(sq, bad)}
    BY ExecutesSeen
  <1>3. sq \in Seq(EventSet) /\ good \in EventSet /\ bad \in EventSet
    BY <1>2, EventsTyped
  <1>4. good.op = Opcode(c) /\ good.ok /\ bad.op = Opcode(c) /\ ~bad.ok
    OBVIOUS
  <1>5. ctl = done /\ NoneOf(sq, cmd) /\ OpsIn(sq, S)
    BY <1>1 DEF Awaiting
  <1>6. down = <<cmd>> \/ (n = 2 /\ down = <<"reset", cmd>>)
    BY <1>1 DEF Awaiting
  <1>7. Opcode(cmd) = cmd /\ Opcode("reset") = "reset"
    BY OpcodeIs DEF AllCmds
  <1> HIDE DEF good, bad, S
  <1>8. CASE down = <<cmd>>
    <2>1. Len(down) = 1 /\ down[1] = cmd
      BY <1>8, Tuples
    <2>2. c = cmd /\ down' = <<>>
      BY <1>1, <2>1, OneLeft
    <2>3. good.op = cmd /\ bad.op = cmd /\ cmd \in S
      BY <1>4, <1>7, <2>2 DEF S
    <2>4. OpsIn(sq', S)
      <3>1. OpsIn(Append(sq, good), S) /\ OpsIn(Append(sq, bad), S)
        BY ONLY <1>3, <1>5, <2>3, OpsAppend
      <3>2. sq' \in {sq, Append(sq, good), Append(sq, bad)}
        BY ONLY <1>2
      <3> QED
        BY ONLY <1>5, <3>1, <3>2
    <2>5. Exec(ctl, c) = done \cup {cmd}
      BY <1>5, <2>2 DEF Exec, AllCmds
    <2>6. done \subseteq ctl' /\ ctl' \subseteq done \cup {cmd}
      BY <1>2, <1>5, <2>5
    <2>7. Oks(sq', cmd) => cmd \in ctl'
      <3>1. ~Oks(sq, cmd)
        BY <1>5 DEF Oks, NoneOf
      <3>2. ~Oks(Append(sq, bad), cmd)
        BY <1>3, <1>4, <3>1, OpsAppend
      <3> QED
        BY <1>2, <2>5, <3>1, <3>2
    <2> QED
      BY <2>2, <2>4, <2>6, <2>7 DEF Awaiting, S
  <1>9. CASE n = 2 /\ down = <<"reset", cmd>>
    <2>1. Len(down) = 2 /\ down[1] = "reset" /\ down[2] = cmd
      BY <1>9, Tuples
    <2>2. c = "reset" /\ down' = <<cmd>>
      BY <1>1, <2>1, TwoLeft
    <2>3. good.op = "reset" /\ bad.op = "reset" /\ "reset" \in S
      BY <1>4, <1>7, <2>2 DEF S
    <2>4. OpsIn(sq', S)
      <3>1. OpsIn(Append(sq, good), S) /\ OpsIn(Append(sq, bad), S)
        BY ONLY <1>3, <1>5, <2>3, OpsAppend
      <3>2. sq' \in {sq, Append(sq, good), Append(sq, bad)}
        BY ONLY <1>2
      <3> QED
        BY ONLY <1>5, <3>1, <3>2
    <2>5. NoneOf(sq', cmd)
      <3>1. good.op # cmd /\ bad.op # cmd
        BY <2>3
      <3>2. NoneOf(Append(sq, good), cmd) /\ NoneOf(Append(sq, bad), cmd)
        BY ONLY <1>3, <1>5, <3>1, OpsAppend
      <3>3. sq' \in {sq, Append(sq, good), Append(sq, bad)}
        BY ONLY <1>2
      <3> QED
        BY ONLY <1>5, <3>2, <3>3
    <2>6. Exec(ctl, c) = {}
      BY <2>2 DEF Exec
    <2>7. ctl' = done /\ done = {}
      BY <1>2, <1>5, <1>9, <2>6
    <2> QED
      BY <2>2, <2>4, <2>5, <2>7 DEF Awaiting, S
  <1> QED
    BY <1>6, <1>8, <1>9

\* A report reaches the owner, or nothing does.
LEMMA SeesKeeps ==
    ASSUME Queues, Sees
    PROVE  /\ UNCHANGED <<owner, since, stale, ctl, down>>
           /\ BeforeReset => BeforeReset'
           /\ InReset => InReset'
           /\ \A n, done : Between(n, done) => Between(n, done)'
           /\ \A n, done : \A cmd \in AllCmds : Awaiting(n, done, cmd) => Awaiting(n, done, cmd)'
  <1> DEFINE e == [op |-> "report", ok |-> TRUE]
  <1>1. UNCHANGED <<owner, since, stale, ctl, down>> /\ sq' \in {sq, Append(sq, e)}
    BY DEF Sees, Delivers
  <1>2. sq \in Seq(EventSet) /\ e \in EventSet /\ e.op = "report"
    BY DEF Queues, EventSet
  <1> HIDE DEF e
  <1>3. \A S : OpsIn(sq, S) /\ "report" \in S => OpsIn(sq', S)
    BY <1>1, <1>2, OpsAppend
  <1>4. \A op : NoneOf(sq, op) /\ op # "report" => NoneOf(sq', op)
    BY <1>1, <1>2, OpsAppend
  <1>5. \A op : Oks(sq', op) /\ op # "report" => Oks(sq, op)
    BY <1>1, <1>2, OpsAppend
  <1>6. AfterReset(sq) => AfterReset(sq')
    BY <1>1, <1>2, AfterAppend
  <1>7. ResetClean => ResetClean'
    BY <1>1, <1>5, <1>6 DEF ResetClean
  <1>8. OpsIn(sq, {"report"}) => OpsIn(sq', {"report"})
    BY <1>3
  <1>9. (BeforeReset => BeforeReset') /\ (InReset => InReset')
    BY <1>1, <1>7, <1>8 DEF BeforeReset, InReset
  <1>10. ASSUME NEW n, NEW done, Between(n, done) PROVE Between(n, done)'
    <2>1. OpsIn(sq', done \cup {"reset", "report"})
      BY <1>3, <1>10 DEF Between
    <2> QED
      BY <1>1, <1>10, <2>1 DEF Between
  <1>11. ASSUME NEW n, NEW done, NEW cmd \in AllCmds, Awaiting(n, done, cmd) PROVE Awaiting(n, done, cmd)'
    <2>1. OpsIn(sq', done \cup {cmd, "reset", "report"})
      BY <1>3, <1>11 DEF Awaiting
    <2>2. cmd # "report"
      BY DEF AllCmds
    <2>3. (Oks(sq', cmd) => Oks(sq, cmd)) /\ (NoneOf(sq, cmd) => NoneOf(sq', cmd))
      BY <1>4, <1>5, <2>2
    <2> QED
      BY <1>1, <1>11, <2>1, <2>3 DEF Awaiting
  <1> QED
    BY <1>1, <1>9, <1>10, <1>11

\* The owner reads an event that it was not waiting for.
LEMMA SkipsKeeps ==
    ASSUME Queues, sq # <<>>, sq' = Tail(sq), UNCHANGED <<ctl, down>>
    PROVE  /\ BeforeReset => BeforeReset'
           /\ InReset => InReset'
           /\ \A n, done : Between(n, done) => Between(n, done)'
           /\ \A n, done, cmd : Awaiting(n, done, cmd) => Awaiting(n, done, cmd)'
  <1>1. sq \in Seq(EventSet)
    BY DEF Queues
  <1>2. /\ \A S : OpsIn(sq, S) => OpsIn(sq', S)
        /\ \A op : NoneOf(sq, op) => NoneOf(sq', op)
        /\ \A op : Oks(sq', op) => Oks(sq, op)
        /\ AfterReset(sq) => AfterReset(sq')
    BY <1>1, OpsTail
  <1>3. ResetClean => ResetClean'
    BY <1>2 DEF ResetClean
  <1>4. (BeforeReset => BeforeReset') /\ (InReset => InReset')
    BY <1>2, <1>3 DEF BeforeReset, InReset
  <1>5. ASSUME NEW n, NEW done, Between(n, done) PROVE Between(n, done)'
    BY <1>2, <1>5 DEF Between
  <1>6. ASSUME NEW n, NEW done, NEW cmd, Awaiting(n, done, cmd) PROVE Awaiting(n, done, cmd)'
    BY <1>2, <1>6 DEF Awaiting
  <1> QED
    BY <1>4, <1>5, <1>6

\* The answer to the reset: whatever was in the controller is gone.
LEMMA ResetHeard ==
    ASSUME Queues, InReset, sq # <<>>, Head(sq).op = "reset", Head(sq).ok,
           sq' = Tail(sq), UNCHANGED <<ctl, down>>
    PROVE  Between(2, {})'
  <1>1. sq \in Seq(EventSet)
    BY DEF Queues
  <1>2. Head(sq) = sq[1] /\ 1 \in 1..Len(sq)
    BY <1>1, HeadTail
  <1>3. Oks(sq, "reset")
    BY <1>2 DEF Oks
  <1>4. ~OpsIn(sq, {"report"})
    BY <1>2 DEF OpsIn
  <1>5. ctl = {} /\ AfterReset(sq)
    BY <1>3 DEF InReset, ResetClean
  <1>6. OpsIn(sq', {"reset", "report"})
    BY <1>1, <1>5, OpsTail
  <1>7. down = <<>> \/ down = <<"reset">>
    BY <1>4 DEF InReset
  <1> DEFINE S == {} \cup {"reset", "report"}
  <1>8. S = {"reset", "report"}
    OBVIOUS
  <1> QED
    BY <1>5, <1>6, <1>7, <1>8 DEF Between

\* The answer to another command: it was carried out, and nothing is left over.
LEMMA CommandHeard ==
    ASSUME Queues, NEW n \in Nat, n > 1, NEW done, NEW cmd, Awaiting(n, done, cmd),
           sq # <<>>, Head(sq).op = cmd, Head(sq).ok, sq' = Tail(sq), UNCHANGED <<ctl, down>>
    PROVE  Between(n + 1, done \cup {cmd})'
  <1>1. sq \in Seq(EventSet)
    BY DEF Queues
  <1>2. Head(sq) = sq[1] /\ 1 \in 1..Len(sq)
    BY <1>1, HeadTail
  <1>3. Oks(sq, cmd) /\ ~NoneOf(sq, cmd)
    BY <1>2 DEF Oks, NoneOf
  <1>4. down = <<>> /\ cmd \in ctl /\ ctl = done \cup {cmd}
    BY <1>3 DEF Awaiting
  <1> DEFINE S == done \cup {cmd, "reset", "report"}
             T == (done \cup {cmd}) \cup {"reset", "report"}
  <1>5. S = T
    OBVIOUS
  <1>6. OpsIn(sq, S)
    BY DEF Awaiting
  <1> HIDE DEF S, T
  <1>7. OpsIn(sq', T)
    BY <1>1, <1>5, <1>6, OpsTail
  <1> QED
    BY <1>4, <1>7 DEF Between, T

\* The reset is sent.
LEMMA ResetAsked ==
    ASSUME Queues, BeforeReset, down' = Append(down, "reset"), UNCHANGED <<ctl, sq>>
    PROVE  InReset'
  <1>1. down \in Seq(Cmds \cup Disables) /\ "reset" \in Cmds \cup Disables
    BY CmdsAre DEF Queues, AllCmds
  <1>2. ResetClean'
    BY DEF BeforeReset, ResetClean
  <1>3. CASE down = <<>>
    <2>1. down' = <<"reset">>
      BY <1>1, <1>3, AddOne
    <2> QED
      BY <1>2, <2>1 DEF InReset
  <1>4. CASE OpsIn(sq, {"report"}) /\ Len(down) = 1
    <2>1. down' = <<down[1], "reset">>
      BY <1>1, <1>4, AddOne
    <2>2. Len(down') = 2 /\ down'[2] = "reset"
      BY <2>1, Tuples
    <2> QED
      BY <1>2, <1>4, <2>2 DEF InReset
  <1> QED
    BY <1>3, <1>4 DEF BeforeReset

\* Another command is sent.
LEMMA CommandAsked ==
    ASSUME Queues, NEW n, NEW done, NEW cmd \in AllCmds, Between(n, done),
           cmd \notin done \cup {"reset", "report"},
           down' = Append(down, cmd), UNCHANGED <<ctl, sq>>
    PROVE  Awaiting(n, done, cmd)'
  <1>1. down \in Seq(Cmds \cup Disables) /\ cmd \in Cmds \cup Disables
    BY CmdsAre DEF Queues
  <1>2. OpsIn(sq', done \cup {cmd, "reset", "report"}) /\ NoneOf(sq', cmd)
    BY DEF Between, OpsIn, NoneOf
  <1>3. down' = <<cmd>> \/ (n = 2 /\ down' = <<"reset", cmd>>)
    <2>1. CASE down = <<>>
      BY <1>1, <2>1, AddOne
    <2>2. CASE n = 2 /\ down = <<"reset">>
      <3>1. Len(down) = 1 /\ down[1] = "reset"
        BY <2>2, Tuples
      <3> QED
        BY <1>1, <2>2, <3>1, AddOne
    <2> QED
      BY <2>1, <2>2 DEF Between
  <1>4. ctl' = done
    BY DEF Between
  <1> QED
    BY <1>2, <1>3, <1>4 DEF Awaiting

\* Where a tool is in its set-up.
LEMMA PlaceFacts ==
    ASSUME Control, NEW t \in Speakers
    PROVE  /\ t \in Tools /\ step[t] \in Nat /\ step[t] >= 1
           /\ tpc[t] = "wait" => step[t] \in 1..Size(t)
           /\ tpc[t] \in {"drain", "serve"} => step[t] # 1
           /\ step[t] # 1 /\ tpc[t] \in {"send", "wait"} => step[t] \in 2..Size(t)
           /\ tpc[t] = "send" => step[t] \in 1..Size(t)
  <1>1. t \in Tools
    BY DEF Speakers, Tools
  <1>2. step[t] \in 1..6 /\ Placed(t, tpc[t], step[t])
    BY <1>1, StepKept
  <1>3. Size(t) \in {4, 5}
    BY SizeFits
  <1>4. step[t] \in Nat /\ step[t] >= 1
    BY <1>2
  <1>5. tpc[t] \in {"send", "wait"} => step[t] <= Size(t)
    BY <1>2 DEF Placed
  <1>6. tpc[t] \in {"drain", "serve"} => step[t] = 2 \/ step[t] = Size(t) + 1
    BY <1>2 DEF Placed
  <1>7. step[t] <= Size(t) => step[t] \in 1..Size(t) /\ (step[t] # 1 => step[t] \in 2..Size(t))
    BY ONLY <1>3, <1>4
  <1>8. step[t] = 2 \/ step[t] = Size(t) + 1 => step[t] # 1
    BY ONLY <1>3, <1>4
  <1> QED
    BY <1>1, <1>4, <1>5, <1>6, <1>7, <1>8

\* A step of something else, told by what it does to the four conditions.
LEMMA SetsUpKept ==
    ASSUME Control, NEW t \in Speakers, SetsUp(t), tpc'[t] = tpc[t], step'[t] = step[t],
           BeforeReset => BeforeReset', InReset => InReset',
           \A n, done : (n = 2 => done = {}) /\ Between(n, done) => Between(n, done)',
           \A n, done : \A cmd \in AllCmds \ {"reset"} :
               (n = 2 => done = {}) /\ cmd \notin done /\ Awaiting(n, done, cmd)
                   => Awaiting(n, done, cmd)'
    PROVE  SetsUp(t)'
  <1>1. PICK n : n = step[t]
    OBVIOUS
  <1>2. PICK done : done = Done(t, n)
    OBVIOUS
  <1>3. CASE n = 1
    <2>1. First(t)
      BY <1>1, <1>3 DEF SetsUp
    <2>2. First(t)'
      BY <2>1 DEF First
    <2> QED
      BY <1>1, <1>3, <2>2 DEF SetsUp
  <1>4. CASE n # 1
    <2>1. Later(t) /\ step'[t] = n
      BY <1>1, <1>4 DEF SetsUp
    <2>2. n = 2 => done = {}
      BY <1>2, DoneFirst
    <2>3. CASE tpc[t] \in {"send", "drain", "serve"}
      <3>1. Between(n, done)
        BY <1>1, <1>2, <2>1, <2>3 DEF Later
      <3>2. Between(n, done)'
        BY <2>2, <3>1
      <3>3. tpc'[t] # "wait"
        BY <2>3
      <3>4. Later(t)'
        BY <1>2, <2>1, <3>2, <3>3 DEF Later
      <3> QED
        BY <1>4, <2>1, <3>4 DEF SetsUp
    <2>4. CASE tpc[t] = "wait"
      <3>1. PICK cmd : cmd = Commands(t)[n]
        OBVIOUS
      <3>2. Awaiting(n, done, cmd)
        BY <1>1, <1>2, <2>1, <2>4, <3>1 DEF Later
      <3>3. n \in 2..Size(t)
        BY <1>1, <1>4, <2>4, PlaceFacts
      <3>4. cmd \in AllCmds \ {"reset"} /\ cmd \notin done
        BY <1>2, <3>1, <3>3, DoneNext
      <3>5. Awaiting(n, done, cmd)'
        BY <2>2, <3>2, <3>4
      <3>6. tpc'[t] = "wait"
        BY <2>4
      <3>7. Later(t)'
        BY <1>2, <2>1, <3>1, <3>5, <3>6 DEF Later
      <3> QED
        BY <1>4, <2>1, <3>7 DEF SetsUp
    <2>5. CASE tpc[t] \notin {"send", "drain", "serve", "wait"}
      <3>1. Later(t)'
        BY <2>5 DEF Later
      <3> QED
        BY <1>4, <2>1, <3>1 DEF SetsUp
    <2> QED
      BY <2>3, <2>4, <2>5
  <1> QED
    BY <1>3, <1>4

LEMMA SetsUpSame ==
    ASSUME Control, NEW t \in Speakers, SetsUp(t), tpc'[t] = tpc[t], step'[t] = step[t],
           UNCHANGED <<ctl, down, sq>>
    PROVE  SetsUp(t)'
  <1>1. (BeforeReset => BeforeReset') /\ (InReset => InReset')
    BY DEF BeforeReset, InReset, ResetClean
  <1>2. \A n, done : Between(n, done) => Between(n, done)'
    BY DEF Between
  <1>3. \A n, done, cmd : Awaiting(n, done, cmd) => Awaiting(n, done, cmd)'
    BY DEF Awaiting
  <1> QED
    BY <1>1, <1>2, <1>3, SetsUpKept

LEMMA ExactlyOne == ASSUME NEW n, n \in Nat \ {0}, n <= 1 PROVE n = 1
  OBVIOUS

\* A tool that has taken hci0.
LEMMA TakesSetsUp ==
    ASSUME Control, Queues, NEW t \in Speakers, Takes(t), stale' <= 1
    PROVE  SetsUp(t)'
  <1>1. t \in Tools /\ tpc[t] = "bind" /\ tpc'[t] = "send" /\ step' = step
    BY DEF Takes, Control, Speakers, Tools
  <1>2. step'[t] = 1
    BY <1>1, StepKept DEF Placed, Unbound
  <1>3. sq' = <<>> /\ down' = down /\ Len(down) <= 1
    BY DEF Takes
  <1>4. ResetClean'
    BY <1>3 DEF ResetClean, AfterReset, Oks
  <1>5. OpsIn(sq', {"report"})
    BY <1>3 DEF OpsIn
  <1>6. down' = <<>> \/ Len(down') = 1
    <2>1. down \in Seq(Cmds \cup Disables)
      BY DEF Queues
    <2>2. down = <<>> \/ Len(down) \in Nat \ {0}
      BY <2>1, EmptySeq
    <2>3. Len(down) \in Nat \ {0} => Len(down) = 1
      BY <1>3, ExactlyOne
    <2> QED
      BY <1>3, <2>2, <2>3, Zenon
  <1>7. BeforeReset'
    BY <1>4, <1>5, <1>6 DEF BeforeReset
  <1> QED
    BY <1>1, <1>2, <1>7 DEF SetsUp, First

LEMMA AsksSetsUp ==
    ASSUME Control, Queues, NEW t \in Speakers, SetsUp(t), Asks(t)
    PROVE  SetsUp(t)'
  <1>1. t \in Tools /\ step' = step /\ UNCHANGED <<ctl, sq>>
    BY DEF Asks, Speakers, Tools
  <1>2. CASE tpc[t] = "last send"
    <2>1. tpc'[t] = "last wait"
      BY <1>1, <1>2 DEF Asks, Control
    <2> QED
      BY <2>1 DEF SetsUp, First, Later
  <1>3. CASE tpc[t] = "send"
    <2>1. tpc'[t] = "wait" /\ down' = Append(down, Commands(t)[step[t]])
      BY <1>1, <1>3 DEF Asks, Control
    <2>2. PICK n : n = step[t]
      OBVIOUS
    <2>3. PICK cmd : cmd = Commands(t)[n]
      OBVIOUS
    <2>4. step'[t] = n /\ down' = Append(down, cmd) /\ n \in 1..Size(t)
      BY <1>1, <1>3, <2>1, <2>2, <2>3, PlaceFacts
    <2>5. CASE n = 1
      <3>1. cmd = "reset"
        BY <2>3, <2>4, <2>5, CommandIs
      <3>2. BeforeReset
        BY <1>3, <2>2, <2>5 DEF SetsUp, First
      <3>3. InReset'
        BY <1>1, <2>4, <3>1, <3>2, ResetAsked
      <3> QED
        BY <2>1, <2>4, <2>5, <3>3 DEF SetsUp, First
    <2>6. CASE n # 1
      <3>1. PICK done : done = Done(t, n)
        OBVIOUS
      <3>2. Between(n, done)
        BY <1>3, <2>2, <2>6, <3>1 DEF SetsUp, Later
      <3>3. n \in 2..Size(t)
        BY <1>3, <2>2, <2>6, PlaceFacts
      <3>4. cmd \in AllCmds /\ cmd \notin done \cup {"reset", "report"}
        BY <2>3, <3>1, <3>3, DoneNext
      <3>5. Awaiting(n, done, cmd)'
        BY <1>1, <2>4, <3>2, <3>4, CommandAsked
      <3>6. Later(t)'
        BY <2>1, <2>3, <2>4, <3>1, <3>5 DEF Later
      <3> QED
        BY <2>4, <2>6, <3>6 DEF SetsUp
    <2> QED
      BY <2>5, <2>6
  <1> QED
    BY <1>2, <1>3 DEF Asks

LEMMA HearsSetsUp ==
    ASSUME Control, Queues, NEW t \in Speakers, SetsUp(t), Hears(t)
    PROVE  SetsUp(t)'
  <1>1. t \in Tools /\ tpc[t] = "wait" /\ sq # <<>> /\ sq' = Tail(sq) /\ UNCHANGED <<ctl, down>>
        /\ Head(sq).op = Commands(t)[step[t]] /\ Head(sq).ok
    BY DEF Hears, Speakers, Tools
  <1>2. PICK n : n = step[t]
    OBVIOUS
  <1>3. PICK cmd : cmd = Commands(t)[n]
    OBVIOUS
  <1>4. n \in 1..Size(t) /\ n \in Nat /\ n >= 1
    BY <1>1, <1>2, PlaceFacts
  <1>5. tpc'[t] = Goal(t) /\ step'[t] = n + 1
    BY <1>1, <1>2 DEF Hears, Control
  <1>6. tpc'[t] \in {"send", "drain", "serve"}
    BY <1>5 DEF Goal
  <1>7. PICK done : done = Done(t, n + 1)
    OBVIOUS
  <1>8. Between(n + 1, done)'
    <2>1. CASE n = 1
      <3>1. cmd = "reset"
        BY <1>3, <1>4, <2>1, CommandIs
      <3>2. InReset
        BY <1>1, <1>2, <2>1 DEF SetsUp, First
      <3>3. Between(2, {})'
        BY <1>1, <1>2, <1>3, <3>1, <3>2, ResetHeard
      <3>4. n + 1 = 2
        BY <2>1
      <3>5. done = {}
        BY <1>7, <3>4, DoneFirst
      <3> QED
        BY <3>3, <3>4, <3>5
    <2>2. CASE n # 1
      <3>1. PICK before : before = Done(t, n)
        OBVIOUS
      <3>2. n \in 2..Size(t)
        BY <1>1, <1>2, <2>2, PlaceFacts
      <3>3. done = before \cup {cmd}
        BY <1>3, <1>7, <3>1, <3>2, DoneNext
      <3>4. Awaiting(n, before, cmd)
        BY <1>1, <1>2, <1>3, <2>2, <3>1 DEF SetsUp, Later
      <3>5. n > 1
        BY <1>4, <2>2
      <3>6. Between(n + 1, before \cup {cmd})'
        BY <1>1, <1>2, <1>3, <1>4, <3>4, <3>5, CommandHeard
      <3> QED
        BY <3>3, <3>6
    <2> QED
      BY <2>1, <2>2
  <1>9. step'[t] # 1 /\ tpc'[t] # "wait"
    BY <1>4, <1>5, <1>6
  <1>10. Later(t)'
    BY <1>5, <1>6, <1>7, <1>8, <1>9 DEF Later
  <1> QED
    BY <1>9, <1>10 DEF SetsUp

\* What happens to the owner and to the boots in a step of a tool.
LEMMA FreeBound ==
    ASSUME NEW t \in Speakers, NEW u, Released(u), UNCHANGED c6boots, Bound(t)'
    PROVE  Bound(t) /\ UNCHANGED ctlVars
  <1>1. CASE owner = u
    <2>1. owner' = "none"
      BY <1>1 DEF Released
    <2>2. owner' = t /\ t # "none"
      BY DEF Bound, Speakers
    <2> QED
      BY <2>1, <2>2
  <1>2. CASE owner # u
    <2>1. UNCHANGED ctlVars
      BY <1>2 DEF Released
    <2> QED
      BY <2>1 DEF ctlVars, Bound
  <1> QED
    BY <1>1, <1>2

\* A tool that has hci0 does not walk, except out of its drain and its service.
LEMMA WalksSetsUp ==
    ASSUME Control, NEW t \in Speakers, NEW u \in Tools, Walks(u), owner = t, SetsUp(t)
    PROVE  SetsUp(t)'
  <1>1. t \in Tools /\ tpc[t] \notin Unbound /\ tpc \in [Tools -> PcSet] /\ t # "hci_up"
    BY DEF Control, Speakers, Tools
  <1>2. UNCHANGED step /\ UNCHANGED <<ctl, down, sq>>
    BY DEF Walks, ctlVars
  <1>3. CASE u = t
    <2>1. tpc'[t] = "last send"
      BY <1>1, <1>3 DEF Walks, Unbound
    <2> QED
      BY <2>1 DEF SetsUp, First, Later
  <1>4. CASE u # t
    <2>1. tpc'[t] = tpc[t]
      BY <1>1, <1>4 DEF Walks
    <2> QED
      BY <1>2, <2>1, SetsUpSame
  <1> QED
    BY <1>3, <1>4

LEMMA DrainedSetsUp ==
    ASSUME Control, NEW t \in Speakers, Drained, SetsUp(t)
    PROVE  SetsUp(t)'
  <1>1. "ble_scan" \in Tools /\ t \in Tools /\ tpc \in [Tools -> PcSet]
        /\ tpc["ble_scan"] = "drain" /\ tpc' = [tpc EXCEPT !["ble_scan"] = "send"]
        /\ step' = step /\ UNCHANGED <<ctl, down, sq>>
    BY DEF Drained, Control, Tools, Speakers, ctlVars
  <1>2. CASE t = "ble_scan"
    <2>1. PICK n : n = step[t]
      OBVIOUS
    <2>2. n # 1 /\ step'[t] = n
      BY <1>1, <1>2, <2>1, PlaceFacts
    <2>3. PICK done : done = Done(t, n)
      OBVIOUS
    <2>4. Between(n, done)
      BY <1>1, <1>2, <2>1, <2>2, <2>3 DEF SetsUp, Later
    <2>5. Between(n, done)'
      BY <1>1, <2>4 DEF Between
    <2>6. tpc'[t] = "send"
      BY <1>1, <1>2
    <2>7. Later(t)'
      BY <2>2, <2>3, <2>5, <2>6 DEF Later
    <2> QED
      BY <2>2, <2>7 DEF SetsUp
  <1>3. CASE t # "ble_scan"
    <2>1. tpc'[t] = tpc[t]
      BY <1>1, <1>3
    <2> QED
      BY <1>1, <2>1, SetsUpSame
  <1> QED
    BY <1>2, <1>3

\* A step of one tool.
LEMMA ShapeSetsUp ==
    ASSUME Control, Queues, SetUp, NEW t \in Speakers, NEW u \in Tools, Shape(u),
           UNCHANGED c6boots, Bound(t)'
    PROVE  SetsUp(t)'
  <1>1. t \in Tools /\ tpc \in [Tools -> PcSet] /\ step \in [Tools -> 1..6]
    BY DEF Control, Speakers, Tools
  <1>2. ASSUME Bound(t) PROVE SetsUp(t)
    BY <1>2 DEF SetUp
  <1>3. ASSUME UNCHANGED <<owner, since, stale>> PROVE owner = t /\ SetsUp(t)
    <2>1. Bound(t)
      BY <1>3 DEF Bound
    <2> QED
      BY <1>2, <2>1 DEF Bound
  <1>4. CASE Stays
    <2>1. UNCHANGED <<tpc, step, ctl, down, sq, owner, since, stale>>
      BY <1>4 DEF Stays, ctlVars
    <2> QED
      BY <1>3, <2>1, SetsUpSame
  <1>5. CASE Leaves(u)
    <2>1. Bound(t) /\ UNCHANGED ctlVars
      BY <1>5, FreeBound DEF Leaves
    <2>2. CASE u = t
      <3>1. owner' = "none"
        BY <1>5, <2>1, <2>2 DEF Leaves, Released, Bound
      <3>2. owner' = t /\ t # "none"
        BY DEF Bound, Speakers
      <3> QED
        BY <3>1, <3>2
    <2>3. CASE u # t
      <3>1. tpc'[t] = tpc[t] /\ step'[t] = step[t]
        BY <1>1, <1>5, <2>3 DEF Leaves
      <3>2. UNCHANGED <<ctl, down, sq>>
        BY <2>1 DEF ctlVars
      <3> QED
        BY <1>2, <2>1, <3>1, <3>2, SetsUpSame
    <2> QED
      BY <2>2, <2>3
  <1>6. CASE Walks(u)
    <2>1. UNCHANGED <<owner, since, stale>>
      BY <1>6 DEF Walks, ctlVars
    <2> QED
      BY <1>3, <1>6, <2>1, WalksSetsUp
  <1>7. CASE Drained
    <2>1. UNCHANGED <<owner, since, stale>>
      BY <1>7 DEF Drained, ctlVars
    <2> QED
      BY <1>3, <1>7, <2>1, DrainedSetsUp
  <1>8. CASE Takes(u)
    <2>1. u = t /\ stale' <= 1
      BY <1>8 DEF Takes, Bound
    <2> QED
      BY <1>8, <2>1, TakesSetsUp
  <1>9. CASE Asks(u)
    <2>1. UNCHANGED <<owner, since, stale>> /\ owner = u
      BY <1>9 DEF Asks
    <2> QED
      BY <1>3, <1>9, <2>1, AsksSetsUp
  <1>10. CASE Hears(u)
    <2>1. UNCHANGED <<owner, since, stale>> /\ owner = u
      BY <1>10 DEF Hears
    <2> QED
      BY <1>3, <1>10, <2>1, HearsSetsUp
  <1>11. CASE Skips(u)
    <2>1. UNCHANGED <<owner, since, stale>> /\ UNCHANGED <<tpc, step>>
          /\ sq # <<>> /\ sq' = Tail(sq) /\ UNCHANGED <<ctl, down>>
      BY <1>11 DEF Skips
    <2>2. SetsUp(t)
      BY <1>3, <2>1
    <2> QED
      BY <2>1, <2>2, SkipsKeeps, SetsUpKept
  <1> QED
    BY <1>4, <1>5, <1>6, <1>7, <1>8, <1>9, <1>10, <1>11 DEF Shape

LEMMA SetUpInductive == Control /\ Queues /\ SetUp /\ [Next]_vars => SetUp'
  <1> SUFFICES ASSUME Control, Queues, SetUp, [Next]_vars, NEW t \in Speakers, Bound(t)'
               PROVE  SetsUp(t)'
    BY DEF SetUp
  <1>1. Seen
    BY StepSeen
  <1>2. t \in Tools /\ tpc \in [Tools -> PcSet] /\ step \in [Tools -> 1..6]
        /\ owner' = t /\ t # "none" /\ t # "kernel" /\ t # "hci_up"
    BY DEF Control, Bound, Speakers, Tools
  <1>3. ASSUME UNCHANGED <<owner, since, stale>>, UNCHANGED c6boots
        PROVE  owner = t /\ SetsUp(t)
    <2>1. Bound(t)
      BY <1>3 DEF Bound
    <2> QED
      BY <2>1 DEF SetUp, Bound
  <1>4. CASE Executes /\ Same /\ UNCHANGED c6boots
    <2>1. UNCHANGED <<owner, since, stale>> /\ UNCHANGED <<tpc, step>> /\ Executes
      BY <1>4 DEF Executes, Same
    <2>2. SetsUp(t)
      BY <1>3, <1>4, <2>1
    <2>3. (BeforeReset => BeforeReset') /\ (InReset => InReset')
      BY <2>1, FirstExecutes
    <2> QED
      BY <2>1, <2>2, <2>3, BetweenExecutes, AwaitingExecutes, SetsUpKept
  <1>5. CASE Sees /\ Same /\ UNCHANGED c6boots
    <2>1. UNCHANGED <<owner, since, stale>> /\ UNCHANGED <<tpc, step>> /\ Sees
      BY <1>5 DEF Sees, Same
    <2>2. SetsUp(t)
      BY <1>3, <1>5, <2>1
    <2> QED
      BY <2>1, <2>2, SeesKeeps, SetsUpKept
  <1>6. CASE Detached /\ Same /\ UNCHANGED c6boots
    <2>1. owner' = "none"
      BY <1>6 DEF Detached
    <2> QED
      BY <1>2, <2>1
  <1>7. CASE Rebooted /\ Same /\ c6boots' = c6boots + 1
    <2>1. since' = since /\ since' = c6boots' /\ since \in 0..c6boots /\ c6boots \in Nat
      BY <1>7 DEF Rebooted, Bound, Queues
    <2> QED
      BY <1>7, <2>1
  <1>8. CASE (\E u \in Tools : Starts(u)) /\ UNCHANGED c6boots
    <2>1. PICK u \in Tools : Starts(u)
      BY <1>8
    <2>2. UNCHANGED <<owner, since, stale, ctl, down, sq>> /\ step' = step
          /\ tpc[u] = "off" /\ tpc' = [tpc EXCEPT ![u] = "knob"]
      BY <2>1 DEF Starts, Goes, ctlVars
    <2>3. owner = t /\ SetsUp(t)
      BY <1>3, <1>8, <2>2
    <2>4. tpc[t] # "off"
      BY <2>3 DEF Control, Unbound
    <2>5. tpc'[t] = tpc[t]
      BY <1>2, <2>2, <2>4
    <2> QED
      BY <2>2, <2>3, <2>5, SetsUpSame
  <1>9. CASE Shaped /\ UNCHANGED c6boots
    <2>1. CASE KernelTakes
      <3>1. UNCHANGED <<owner, since, stale, ctl, down, sq>> /\ step' = step
            /\ tpc' = [tpc EXCEPT !["hci_up"] = "off"]
        BY <1>2, <2>1 DEF KernelTakes
      <3>2. tpc'[t] = tpc[t]
        BY <1>2, <3>1
      <3>3. SetsUp(t)
        BY <1>3, <1>9, <3>1
      <3> QED
        BY <3>1, <3>2, <3>3, SetsUpSame
    <2>2. ASSUME NEW u \in Tools, Shape(u) PROVE SetsUp(t)'
      BY <1>9, <2>2, ShapeSetsUp
    <2> QED
      BY <1>9, <2>1, <2>2 DEF Shaped
  <1>10. CASE Stays /\ UNCHANGED c6boots
    <2>1. UNCHANGED <<tpc, step, ctl, down, sq, owner, since, stale>>
      BY <1>10 DEF Stays, ctlVars
    <2> QED
      BY <1>3, <1>10, <2>1, SetsUpSame
  <1> QED
    BY <1>1, <1>4, <1>5, <1>6, <1>7, <1>8, <1>9, <1>10 DEF Seen, Same, Shaped

\* A tool that serves has seen an answer to each command of its sequence.
LEMMA ServedWhole == Control /\ SetUp => SetUpWhole
  <1> SUFFICES ASSUME Control, SetUp PROVE SetUpWhole
    OBVIOUS
  <1>1. ASSUME NEW t \in Tools, Serving(t)
        PROVE  t \in Speakers /\ ctl = Done(t, Size(t) + 1)
    <2>1. t \in Tools /\ tpc[t] = "serve" /\ Placed(t, tpc[t], step[t])
      BY <1>1, StepKept DEF Serving
    <2>2. t \in Speakers
      BY <2>1 DEF Placed, Tools, Speakers
    <2>3. step[t] = Size(t) + 1
      BY <2>1 DEF Placed
    <2>4. step[t] # 1
      BY <2>3, SizeFits
    <2>5. SetsUp(t)
      BY <1>1, <2>2 DEF SetUp, Bound, Serving
    <2>6. Between(step[t], Done(t, step[t]))
      BY <2>1, <2>4, <2>5 DEF SetsUp, Later
    <2> QED
      BY <2>2, <2>3, <2>6 DEF Between
  <1>2. \A t \in Tools : Serving(t) => \A i \in 2..Len(Commands(t)) : Commands(t)[i] \in ctl
    <2> SUFFICES ASSUME NEW t \in Tools, Serving(t), NEW i \in 2..Len(Commands(t))
                 PROVE  Commands(t)[i] \in ctl
      OBVIOUS
    <2>1. i \in 2..Size(t) /\ Size(t) \in {4, 5}
      BY SizeIs, SizeFits
    <2>2. i \in 2..((Size(t) + 1) - 1)
      BY <2>1
    <2>3. Commands(t)[i] \in Done(t, Size(t) + 1)
      BY <2>2 DEF Done
    <2> QED
      BY <1>1, <2>3
  <1>3. ASSUME NEW t \in Speakers, Serving(t)
        PROVE  /\ t = "ble_scan" => "adv enable" \notin ctl
               /\ t = "ble_adv"  => "scan enable" \notin ctl
    <2>1. ctl = {Commands(t)[i] : i \in 2..((Size(t) + 1) - 1)}
      BY <1>1, <1>3 DEF Done, Speakers, Tools
    <2>2. ASSUME NEW i \in 2..((Size(t) + 1) - 1) PROVE i \in 1..Size(t)
      BY <2>2, SizeFits
    <2>3. t = "ble_scan" => "adv enable" \notin ctl
      <3>1. ASSUME t = "ble_scan", NEW i \in 1..Size(t) PROVE Commands(t)[i] # "adv enable"
        BY <3>1, FiveCases, ScanAre DEF Size, Commands
      <3> QED
        BY <2>1, <2>2, <3>1
    <2>4. t = "ble_adv" => "scan enable" \notin ctl
      <3>1. ASSUME t = "ble_adv", NEW i \in 1..Size(t) PROVE Commands(t)[i] # "scan enable"
        BY <3>1, FourCases, AdvAre DEF Size, Commands
      <3> QED
        BY <2>1, <2>2, <3>1
    <2> QED
      BY <2>3, <2>4
  <1> QED
    BY <1>2, <1>3 DEF SetUpWhole, Speakers

LEMMA SetUpInit == Init => SetUp
  BY DEF Init, ToolInit, SetUp, Bound, Speakers

\* A tool that serves has had every command of its sequence carried out, and
\* nothing of another tool's, whatever was lost and whatever came late, unless
\* the C6 rebooted or two commands of earlier tools were on their way at its bind.
THEOREM SetUpSafe == Spec => []SetUpWhole
  <1> DEFINE Inv == Control /\ Queues /\ SetUp
  <1>1. Init => Inv
    BY ControlInit, QueuesInit, SetUpInit
  <1>2. Inv /\ [Next]_vars => Inv'
    BY ControlInductive, QueuesInductive, SetUpInductive
  <1>3. Inv => SetUpWhole
    BY ServedWhole
  <1> QED
    BY <1>1, <1>2, <1>3, PTL DEF Spec

----------------------------------------------------------------------------
(* How many answers wait in a queue of events.                             *)

Answers(q) == {i \in 1..Len(q) : q[i].op # "report"}
Count(q)   == Cardinality(Answers(q))

LEMMA CountIn ==
    ASSUME NEW q \in Seq(EventSet)
    PROVE  IsFiniteSet(Answers(q)) /\ Count(q) \in Nat
  <1>1. 1 \in Int /\ Len(q) \in Int
    OBVIOUS
  <1>2. IsFiniteSet(1..Len(q))
    BY <1>1, FS_Interval
  <1>3. Answers(q) \in SUBSET (1..Len(q))
    BY DEF Answers
  <1>4. IsFiniteSet(Answers(q))
    BY <1>2, <1>3, FS_Subset
  <1> QED
    BY <1>4, FS_CardinalityType DEF Count

LEMMA CountEmpty == Count(<<>>) = 0
  <1>1. Answers(<<>>) = {}
    BY DEF Answers
  <1> QED
    BY <1>1, FS_EmptySet DEF Count

LEMMA AtMostOneMore ==
    ASSUME NEW a, NEW b, NEW c, a \in Nat, c <= b, b = a \/ b = a + 1, c \in Nat
    PROVE  c <= a + 1
  OBVIOUS

LEMMA CountAppend ==
    ASSUME NEW q \in Seq(EventSet), NEW e \in EventSet
    PROVE  /\ Count(Append(q, e)) <= Count(q) + 1
           /\ e.op = "report" => Count(Append(q, e)) = Count(q)
  <1>1. Append(q, e) \in Seq(EventSet)
    OBVIOUS
  <1>2. Len(q) \in Nat /\ Len(Append(q, e)) = Len(q) + 1
        /\ (\A i \in 1..Len(q) : Append(q, e)[i] = q[i]) /\ Append(q, e)[Len(q) + 1] = e
    BY Appended
  <1>3. PICK n : n = Len(q) + 1
    OBVIOUS
  <1>4. \A i : i \in 1..n <=> i \in 1..Len(q) \/ i = n
    BY ONLY <1>2, <1>3
  <1>5. Answers(Append(q, e)) \subseteq Answers(q) \cup {n}
    BY <1>2, <1>3, <1>4 DEF Answers
  <1>6. e.op = "report" => Answers(Append(q, e)) = Answers(q)
    BY <1>2, <1>3, <1>4 DEF Answers
  <1>7. IsFiniteSet(Answers(q)) /\ Count(q) \in Nat /\ Count(Append(q, e)) \in Nat
    BY <1>1, CountIn
  <1>8. PICK S : S = Answers(q) \cup {n}
    OBVIOUS
  <1>9. IsFiniteSet(S) /\ (Cardinality(S) = Count(q) \/ Cardinality(S) = Count(q) + 1)
    BY <1>7, <1>8, FS_AddElement DEF Count
  <1>10. Count(Append(q, e)) <= Cardinality(S)
    BY <1>5, <1>8, <1>9, FS_Subset DEF Count
  <1>11. Count(Append(q, e)) <= Count(q) + 1
    BY ONLY <1>7, <1>9, <1>10, AtMostOneMore
  <1> QED
    BY <1>6, <1>11 DEF Count

LEMMA ShiftIn ==
    ASSUME NEW n \in Nat \ {0}, NEW i \in 1..(n - 1)
    PROVE  i \in Nat /\ i + 1 \in 1..n /\ i + 1 # 1
  OBVIOUS

LEMMA CountTail ==
    ASSUME NEW q \in Seq(EventSet), q # <<>>
    PROVE  /\ Count(Tail(q)) <= Count(q)
           /\ Head(q).op # "report" => Count(Tail(q)) + 1 <= Count(q)
  <1>1. Head(q) = q[1] /\ Tail(q) \in Seq(EventSet) /\ Len(q) \in Nat \ {0}
        /\ Len(Tail(q)) = Len(q) - 1 /\ (\A i \in 1..Len(Tail(q)) : Tail(q)[i] = q[i + 1])
    BY HeadTail
  <1>2. PICK S : S = Answers(q) \ {1}
    OBVIOUS
  <1>3. PICK T : T = Answers(Tail(q))
    OBVIOUS
  <1>4. PICK f : f = [i \in T |-> i + 1]
    OBVIOUS
  <1>5. ASSUME NEW i \in T PROVE i \in Nat /\ f[i] = i + 1 /\ f[i] \in S
    <2>1. i \in 1..(Len(q) - 1) /\ Tail(q)[i].op # "report" /\ f[i] = i + 1
      BY <1>1, <1>3, <1>4, <1>5 DEF Answers
    <2>2. i \in Nat /\ i + 1 \in 1..Len(q) /\ i + 1 # 1
      BY <1>1, <2>1, ShiftIn
    <2>3. q[i + 1].op # "report"
      BY <1>1, <2>1
    <2> QED
      BY <1>2, <2>1, <2>2, <2>3 DEF Answers
  <1>6. f \in [T -> S]
    BY <1>4, <1>5
  <1>7. \A i, j \in T : f[i] = f[j] => i = j
    BY <1>5
  <1>8. f \in Injection(T, S)
    BY <1>6, <1>7 DEF Injection, IsInjective
  <1>9. IsFiniteSet(Answers(q)) /\ Count(q) \in Nat /\ Count(Tail(q)) \in Nat
    BY <1>1, CountIn
  <1>10. IsFiniteSet(S) /\ Cardinality(S) = IF 1 \in Answers(q) THEN Count(q) - 1 ELSE Count(q)
    BY <1>2, <1>9, FS_RemoveElement DEF Count
  <1>11. Count(Tail(q)) <= Cardinality(S)
    BY <1>3, <1>8, <1>10, FS_Injection DEF Count
  <1>12. Head(q).op # "report" => 1 \in Answers(q)
    BY <1>1 DEF Answers
  <1>13. CASE 1 \in Answers(q)
    <2>1. Cardinality(S) = Count(q) - 1
      BY <1>10, <1>13
    <2> QED
      BY ONLY <1>9, <1>11, <2>1
  <1>14. CASE 1 \notin Answers(q)
    <2>1. Cardinality(S) = Count(q)
      BY <1>10, <1>14
    <2> QED
      BY <1>11, <1>12, <1>14, <2>1
  <1> QED
    BY <1>13, <1>14

----------------------------------------------------------------------------
(* How much a tool may leave behind: a command is sent for an answer that  *)
(* was read, so the owner adds one to what it found, and every tool is one *)
(* of the runs.                                                            *)

Come(at) == IF at \in {"knob", "bind"} THEN 1 ELSE 0
Wait(at) == IF at \in {"wait", "last wait"} THEN 1 ELSE 0

Coming == Come(tpc["ble_adv"]) + Come(tpc["ble_scan"])
Held   == IF owner \in Speakers THEN stale + 1 ELSE Len(down)

Owed    == owner \in Speakers => Len(down) + Count(sq) <= stale + Wait(tpc[owner])
Counted ==
    /\ Owed
    /\ Coming + Held <= runs /\ runs \in 0..MaxRuns
    /\ owner \notin Speakers => stale = 0

LEMMA ComeIn == ASSUME NEW at PROVE Come(at) \in {0, 1} /\ Wait(at) \in {0, 1}
  BY DEF Come, Wait

LEMMA ComingIn == Coming \in 0..2 /\ Coming' \in 0..2
  BY ComeIn DEF Coming

\* The sum moves with the tool.
LEMMA SumMoves ==
    ASSUME NEW a \in {0, 1}, NEW b \in {0, 1}, NEW c \in {0, 1}
    PROVE  c + b + a = a + b + c /\ b + c + a = b + a + c
  OBVIOUS

LEMMA ComingMoves ==
    ASSUME Control, NEW t \in Tools, NEW at, tpc' = [tpc EXCEPT ![t] = at]
    PROVE  /\ t \in Speakers => Coming' + Come(tpc[t]) = Coming + Come(at)
           /\ t \notin Speakers => Coming' = Coming
  <1>1. tpc \in [Tools -> PcSet] /\ "ble_adv" \in Tools /\ "ble_scan" \in Tools
    BY DEF Control, Tools
  <1>2. CASE t = "ble_adv"
    <2>1. tpc'["ble_adv"] = at /\ tpc'["ble_scan"] = tpc["ble_scan"]
      BY <1>1, <1>2
    <2> QED
      BY <1>2, <2>1, ComeIn, SumMoves DEF Coming, Speakers
  <1>3. CASE t = "ble_scan"
    <2>1. tpc'["ble_scan"] = at /\ tpc'["ble_adv"] = tpc["ble_adv"]
      BY <1>1, <1>3
    <2> QED
      BY <1>3, <2>1, ComeIn, SumMoves DEF Coming, Speakers
  <1>4. CASE t \notin Speakers
    <2>1. tpc'["ble_scan"] = tpc["ble_scan"] /\ tpc'["ble_adv"] = tpc["ble_adv"]
      BY <1>1, <1>4 DEF Speakers
    <2> QED
      BY <1>4, <2>1 DEF Coming
  <1> QED
    BY <1>2, <1>3, <1>4 DEF Speakers

\* Numbers of the cases.
LEMMA LeftBehind ==
    ASSUME NEW d \in Nat, NEW a \in Nat, NEW s \in Nat, NEW w \in {0, 1}, NEW c \in 0..2, NEW r \in Nat,
           d + a <= s + w, c + (s + 1) <= r
    PROVE  c + d <= r
  OBVIOUS

LEMMA OneFewer ==
    ASSUME NEW d \in Nat, NEW a \in Nat, NEW b \in Nat, NEW s \in Nat, NEW w \in {0, 1},
           d + a <= s + w
    PROVE  /\ b <= a + 1 => (d - 1) + b <= s + w
           /\ b <= a => d + b <= s + w
           /\ w = 1 /\ b + 1 <= a => d + b <= s + 0
           /\ w = 0 => (d + 1) + a <= s + 1
           /\ 0 + a <= s + w
  OBVIOUS

LEMMA NextNat == ASSUME NEW n, n \in Nat PROVE n + 1 \in Nat
  OBVIOUS

LEMMA Longer == ASSUME NEW S, NEW q \in Seq(S), NEW c \in S PROVE Len(Append(q, c)) = Len(q) + 1
  OBVIOUS

LEMMA SameSum == ASSUME NEW c \in 0..2, NEW e \in 0..2, e + 0 = c + 0 PROVE e <= c
  OBVIOUS

LEMMA SameIsLess == ASSUME NEW h \in Nat, NEW k, k = h PROVE k <= h
  OBVIOUS

LEMMA OneTaken ==
    ASSUME NEW c \in 0..2, NEW e \in 0..2, NEW d \in Nat, NEW r \in Nat, e + 1 = c + 0, c + d <= r
    PROVE  e + (d + 1) <= r
  OBVIOUS

LEMMA OneStarted ==
    ASSUME NEW c \in 0..2, NEW e, e \in 0..2, NEW h \in Nat, NEW r \in Nat, NEW q, q \in Nat,
           e = c \/ e + 0 = c + 1, c + h <= r, q >= r + 1
    PROVE  e + h <= q
  OBVIOUS

LEMMA HeldIn == ASSUME Queues PROVE Held \in Nat /\ Len(down) \in Nat /\ stale \in Nat
  <1>1. Len(down) \in Nat /\ stale \in Nat
    BY DEF Queues
  <1> QED
    BY <1>1 DEF Held

\* The device goes, or its owner closes it.
LEMMA FreeCounted ==
    ASSUME Control, Queues, Counted, NEW c \in 0..2, c <= Coming, Coming' = c,
           owner' = "none", stale' = 0, UNCHANGED <<down, runs>>
    PROVE  Counted'
  <1>1. "none" \notin Speakers
    BY DEF Speakers
  <1>2. Len(down) \in Nat /\ stale \in Nat /\ Held \in Nat /\ runs \in Nat /\ Coming \in 0..2
        /\ Coming + Held <= runs
    BY HeldIn, ComingIn, BleAssumption DEF Counted
  <1>3. Held' = Len(down)
    BY <1>1 DEF Held
  <1>4. Coming + Len(down) <= runs
    <2>1. CASE owner \in Speakers
      <3>1. Len(down) + Count(sq) <= stale + Wait(tpc[owner]) /\ Held = stale + 1
        BY <2>1 DEF Counted, Owed, Held
      <3>2. Count(sq) \in Nat /\ Wait(tpc[owner]) \in {0, 1}
        BY CountIn, ComeIn DEF Queues
      <3> QED
        BY <1>2, <3>1, <3>2, LeftBehind
    <2>2. CASE owner \notin Speakers
      BY <1>2, <2>2 DEF Held
    <2> QED
      BY <2>1, <2>2
  <1>5. c + Len(down) <= runs
    BY ONLY <1>2, <1>4, c \in 0..2, c <= Coming
  <1>6. Coming' + Held' <= runs' /\ runs' \in 0..MaxRuns
    BY <1>3, <1>5 DEF Counted
  <1> QED
    BY <1>1, <1>6 DEF Counted, Owed

LEMMA SumSmaller ==
    ASSUME NEW c \in Nat, NEW e \in Nat, NEW h \in Nat, NEW k \in Nat, NEW r \in Nat,
           e <= c, k <= h, c + h <= r
    PROVE  e + k <= r
  OBVIOUS

\* Nobody comes.
LEMMA SumsKept ==
    ASSUME Queues, Queues', Counted, Coming' <= Coming, Held' <= Held, UNCHANGED runs,
           Owed', owner' \notin Speakers => stale' = 0
    PROVE  Counted'
  <1>1. Coming \in Nat /\ Coming' \in Nat
    <2>1. Coming' \in 0..2
      BY ComeIn DEF Coming
    <2> QED
      BY <2>1, ComingIn
  <1>2. Held \in Nat /\ Held' \in Nat
    <2>1. down' \in Seq(Cmds \cup Disables) /\ stale' \in Nat
      BY DEF Queues
    <2>2. CASE owner' \in Speakers
      <3>1. Held' = stale' + 1
        BY <2>2 DEF Held
      <3> QED
        BY <2>1, <3>1, HeldIn, NextNat
    <2>3. CASE owner' \notin Speakers
      <3>1. Held' = Len(down')
        BY <2>3 DEF Held
      <3> QED
        BY <2>1, <3>1, HeldIn
    <2> QED
      BY <2>2, <2>3
  <1>3. Coming + Held <= runs /\ runs \in 0..MaxRuns /\ runs \in Nat
    BY BleAssumption DEF Counted
  <1>4. Coming' + Held' <= runs
    BY <1>1, <1>2, <1>3, SumSmaller
  <1> QED
    BY <1>3, <1>4 DEF Counted

LEMMA QueuesKept ==
    ASSUME Queues, Queues', Counted, UNCHANGED <<tpc, runs, owner, stale>>, Len(down') <= Len(down),
           owner \in Speakers => Len(down') + Count(sq') <= stale + Wait(tpc[owner])
    PROVE  Counted'
  <1>1. Coming' <= Coming
    <2>1. Coming' = Coming /\ Coming \in 0..2
      BY ComingIn DEF Coming
    <2> QED
      BY <2>1
  <1>2. Held' <= Held
    <2>1. stale \in Nat
      BY DEF Queues
    <2> QED
      BY <2>1 DEF Held
  <1>3. Owed' /\ (owner' \notin Speakers => stale' = 0)
    BY DEF Owed, Counted
  <1> QED
    BY <1>1, <1>2, <1>3, SumsKept

\* A tool moves, and leaves the queues alone.
LEMMA MoveKept ==
    ASSUME Control, Queues, Queues', Counted, NEW u \in Tools, NEW at,
           tpc' = [tpc EXCEPT ![u] = at], Come(at) <= Come(tpc[u]),
           owner = u => Wait(at) = Wait(tpc[u]),
           UNCHANGED <<runs, stale, down, sq>>,
           owner' = owner \/ (owner = "none" /\ owner' = "kernel")
    PROVE  Counted'
  <1>1. "none" \notin Speakers /\ "kernel" \notin Speakers /\ Speakers \subseteq Tools
        /\ tpc \in [Tools -> PcSet]
    BY DEF Speakers, Tools, Control
  <1>2. Coming' <= Coming
    <2>1. Coming \in 0..2 /\ Coming' \in 0..2 /\ Come(at) \in {0, 1} /\ Come(tpc[u]) \in {0, 1}
      BY ComeIn, ComingIn
    <2>2. Coming' = Coming \/ Coming' + Come(tpc[u]) = Coming + Come(at)
      BY ComingMoves
    <2> QED
      BY ONLY <2>1, <2>2, Come(at) <= Come(tpc[u])
  <1>3. Held' <= Held
    <2>1. Held' = Held
      BY <1>1 DEF Held
    <2> QED
      BY <2>1, HeldIn, SameIsLess
  <1>4. ASSUME owner' \in Speakers PROVE owner' = owner /\ Wait(tpc'[owner]) = Wait(tpc[owner])
    <2>1. owner' = owner /\ owner \in Tools
      BY <1>1, <1>4
    <2>2. tpc'[owner] = IF owner = u THEN at ELSE tpc[owner]
      BY <1>1, <2>1
    <2> QED
      BY <2>1, <2>2
  <1>5. Owed'
    <2> SUFFICES ASSUME owner' \in Speakers
                 PROVE  Len(down') + Count(sq') <= stale' + Wait(tpc'[owner'])
      BY DEF Owed
    <2>1. Len(down) + Count(sq) <= stale + Wait(tpc[owner])
      BY <1>4 DEF Counted, Owed
    <2> QED
      BY <1>4, <2>1
  <1>6. owner' \notin Speakers => stale' = 0
    BY <1>1 DEF Counted
  <1> QED
    BY <1>2, <1>3, <1>5, <1>6, SumsKept

LEMMA ExecutesCounted ==
    ASSUME Queues, Queues', Counted, Executes, UNCHANGED <<tpc, runs>>
    PROVE  Counted'
  <1>1. down # <<>> /\ down' = Tail(down) /\ UNCHANGED <<owner, stale>> /\ down \in Seq(Cmds \cup Disables)
        /\ Head(down) \in Cmds \cup Disables
    BY ExecutesSeen DEF Queues
  <1>2. Len(down) \in Nat \ {0} /\ Len(down') = Len(down) - 1
    BY <1>1, HeadTail
  <1>3. Len(down') <= Len(down)
    BY ONLY <1>2
  <1>4. Count(sq) \in Nat /\ Count(sq') \in Nat
    BY CountIn DEF Queues
  <1>5. Count(sq') <= Count(sq) + 1
    <2>1. CASE sq' = sq
      BY ONLY <1>4, <2>1
    <2>2. CASE sq' # sq
      <3>1. PICK e \in EventSet : sq' = Append(sq, e)
        BY <1>1, <2>2, ExecutesSeen, EventsTyped
      <3> QED
        BY <3>1, CountAppend DEF Queues
    <2> QED
      BY <2>1, <2>2
  <1>6. ASSUME owner \in Speakers PROVE Len(down') + Count(sq') <= stale + Wait(tpc[owner])
    <2>1. Len(down) + Count(sq) <= stale + Wait(tpc[owner])
      BY <1>6 DEF Counted, Owed
    <2>2. Wait(tpc[owner]) \in {0, 1} /\ stale \in Nat
      BY ComeIn DEF Queues
    <2>3. (Len(down) - 1) + Count(sq') <= stale + Wait(tpc[owner])
      BY <1>2, <1>4, <1>5, <2>1, <2>2, OneFewer
    <2> QED
      BY <1>2, <2>3
  <1> QED
    BY <1>1, <1>3, <1>6, QueuesKept

\* The owner reads an event.
LEMMA ReadsCounted ==
    ASSUME Queues, Queues', Counted, sq # <<>>, sq' = Tail(sq), UNCHANGED <<tpc, runs, owner, stale, down>>
    PROVE  Counted'
  <1>1. Count(sq) \in Nat /\ Count(sq') \in Nat /\ Len(down) \in Nat /\ stale \in Nat
    <2>1. sq \in Seq(EventSet) /\ sq' \in Seq(EventSet)
      BY DEF Queues
    <2> QED
      BY <2>1, CountIn, HeldIn
  <1>2. Count(sq') <= Count(sq)
    BY CountTail DEF Queues
  <1>3. ASSUME owner \in Speakers PROVE Len(down') + Count(sq') <= stale + Wait(tpc[owner])
    <2>1. Len(down) + Count(sq) <= stale + Wait(tpc[owner])
      BY <1>3 DEF Counted, Owed
    <2>2. Wait(tpc[owner]) \in {0, 1}
      BY ComeIn
    <2>3. Len(down) + Count(sq') <= stale + Wait(tpc[owner])
      BY <1>1, <1>2, <2>1, <2>2, OneFewer
    <2> QED
      BY <2>3
  <1>4. Len(down') <= Len(down)
    BY <1>1
  <1> QED
    BY <1>3, <1>4, QueuesKept

LEMMA HearsCounted ==
    ASSUME Control, Queues, Queues', Counted, NEW t \in Speakers, Hears(t), UNCHANGED runs
    PROVE  Counted'
  <1>1. sq # <<>> /\ sq' = Tail(sq) /\ tpc[t] = "wait" /\ tpc' = [tpc EXCEPT ![t] = Goal(t)]
        /\ owner = t /\ UNCHANGED <<owner, stale, down>>
        /\ Head(sq).op = Commands(t)[step[t]]
    BY DEF Hears
  <1>2. Goal(t) \in {"serve", "drain", "send"}
    BY DEF Goal
  <1>3. Come(Goal(t)) = 0 /\ Come(tpc[t]) = 0 /\ Wait(Goal(t)) = 0 /\ Wait(tpc[t]) = 1
    BY <1>1, <1>2 DEF Come, Wait
  <1>4. t \in Tools /\ tpc'[t] = Goal(t)
    BY <1>1 DEF Speakers, Tools, Control
  <1>5. Coming' <= Coming
    <2>1. Coming' + 0 = Coming + 0
      BY <1>1, <1>3, <1>4, ComingMoves
    <2> QED
      BY <2>1, ComingIn, SameSum
  <1>6. Head(sq).op # "report"
    <2>1. step[t] \in 1..Size(t)
      BY <1>1, PlaceFacts
    <2>2. Commands(t)[step[t]] \in AllCmds
      BY <2>1, CommandIs
    <2> QED
      BY <1>1, <2>2 DEF AllCmds
  <1>7. sq \in Seq(EventSet) /\ sq' \in Seq(EventSet)
    BY DEF Queues
  <1>8. Count(sq) \in Nat /\ Count(sq') \in Nat /\ Count(sq') + 1 <= Count(sq)
    BY <1>1, <1>6, <1>7, CountIn, CountTail
  <1>9. Len(down) + Count(sq) <= stale + 1
    BY <1>1, <1>3 DEF Counted, Owed
  <1>10. Len(down) + Count(sq') <= stale + 0
    BY <1>8, <1>9, HeldIn, OneFewer
  <1>11. Owed'
    BY <1>1, <1>3, <1>4, <1>10 DEF Owed
  <1>12. Held' <= Held
    <2>1. Held' = Held
      BY <1>1 DEF Held
    <2> QED
      BY <2>1, HeldIn, SameIsLess
  <1> QED
    BY <1>1, <1>5, <1>11, <1>12, SumsKept

LEMMA AsksCounted ==
    ASSUME Control, Queues, Queues', Counted, NEW t \in Speakers, Asks(t), UNCHANGED runs
    PROVE  Counted'
  <1>1. owner = t /\ UNCHANGED <<owner, stale, sq>> /\ t \in Tools /\ tpc \in [Tools -> PcSet]
    BY DEF Asks, Speakers, Tools, Control
  <1>2. PICK at \in {"wait", "last wait"} : tpc' = [tpc EXCEPT ![t] = at]
    BY DEF Asks
  <1>3. tpc[t] \in {"send", "last send"} /\ tpc'[t] = at
    BY <1>1, <1>2 DEF Asks
  <1>4. Come(at) = 0 /\ Come(tpc[t]) = 0 /\ Wait(at) = 1 /\ Wait(tpc[t]) = 0
    BY <1>2, <1>3 DEF Come, Wait
  <1>5. Len(down') = Len(down) + 1
    <2>1. PICK c \in Cmds \cup Disables : down' = Append(down, c)
      BY <1>1, AskedIn
    <2> QED
      BY <2>1, Longer DEF Queues
  <1>6. Coming' <= Coming
    <2>1. Coming' + 0 = Coming + 0
      BY <1>1, <1>2, <1>4, ComingMoves
    <2> QED
      BY <2>1, ComingIn, SameSum
  <1>7. Count(sq) \in Nat
    BY CountIn DEF Queues
  <1>8. Len(down) + Count(sq) <= stale + 0
    BY <1>1, <1>4 DEF Counted, Owed
  <1>9. (Len(down) + 1) + Count(sq) <= stale + 1
    BY <1>7, <1>8, HeldIn, OneFewer
  <1>10. Owed'
    BY <1>1, <1>3, <1>4, <1>5, <1>9 DEF Owed
  <1>11. Held' <= Held
    <2>1. Held' = Held
      BY <1>1 DEF Held
    <2> QED
      BY <2>1, HeldIn, SameIsLess
  <1> QED
    BY <1>1, <1>6, <1>10, <1>11, SumsKept

LEMMA TakesCounted ==
    ASSUME Control, Queues, Queues', Counted, NEW t \in Speakers, Takes(t), UNCHANGED runs
    PROVE  Counted'
  <1>1. owner = "none" /\ owner' = t /\ stale' = Len(down) /\ sq' = <<>> /\ UNCHANGED down
        /\ tpc[t] = "bind" /\ tpc' = [tpc EXCEPT ![t] = "send"]
        /\ t \in Tools /\ tpc \in [Tools -> PcSet] /\ "none" \notin Speakers
    BY DEF Takes, Speakers, Tools, Control
  <1>2. Come("send") = 0 /\ Come(tpc[t]) = 1 /\ Wait("send") = 0 /\ tpc'[t] = "send"
    BY <1>1 DEF Come, Wait
  <1>3. Coming' + 1 = Coming + 0
    BY <1>1, <1>2, ComingMoves
  <1>4. Coming \in 0..2 /\ Coming' \in 0..2
    BY ComingIn
  <1>5. Held = Len(down) /\ Held' = Len(down) + 1
    BY <1>1 DEF Held
  <1>6. Coming + Len(down) <= runs /\ runs \in 0..MaxRuns /\ runs \in Nat /\ Len(down) \in Nat
    BY <1>5, HeldIn, BleAssumption DEF Counted
  <1>7. Coming' + (Len(down) + 1) <= runs
    BY <1>3, <1>4, <1>6, OneTaken
  <1>8. Owed'
    <2>1. Len(down) + 0 <= Len(down) + 0
      BY HeldIn
    <2>2. Len(down') + Count(sq') <= stale' + Wait(tpc'[owner'])
      BY <1>1, <1>2, <2>1, CountEmpty
    <2> QED
      BY <2>2 DEF Owed
  <1> QED
    BY <1>1, <1>5, <1>6, <1>7, <1>8 DEF Counted

LEMMA LeavesCounted ==
    ASSUME Control, Queues, Queues', Counted, NEW t \in Tools, Leaves(t), UNCHANGED runs
    PROVE  Counted'
  <1>1. tpc' = [tpc EXCEPT ![t] = "off"] /\ Released(t)
    BY DEF Leaves
  <1>2. Come("off") = 0 /\ Come(tpc[t]) \in {0, 1} /\ Wait("off") = 0
    BY ComeIn DEF Come, Wait
  <1>3. Come("off") <= Come(tpc[t])
    BY <1>2
  <1>4. CASE owner = t
    <2>1. owner' = "none" /\ stale' = 0 /\ UNCHANGED down
      BY <1>1, <1>4 DEF Released
    <2>2. Coming \in 0..2 /\ Coming' \in 0..2
      BY ComingIn
    <2>3. Coming' = Coming \/ Coming' + Come(tpc[t]) = Coming + 0
      BY <1>1, <1>2, ComingMoves
    <2>4. Coming' <= Coming
      BY ONLY <1>2, <2>2, <2>3
    <2> QED
      BY <2>1, <2>2, <2>4, FreeCounted
  <1>5. CASE owner # t
    <2>1. UNCHANGED <<owner, stale, down, sq>>
      BY <1>1, <1>5 DEF Released, ctlVars
    <2> QED
      BY <1>1, <1>3, <1>5, <2>1, MoveKept
  <1> QED
    BY <1>4, <1>5

LEMMA StartsCounted ==
    ASSUME Control, Queues, Queues', Counted, NEW t \in Tools, Starts(t)
    PROVE  Counted'
  <1>1. tpc[t] = "off" /\ tpc' = [tpc EXCEPT ![t] = "knob"] /\ UNCHANGED <<owner, stale, down, sq>>
        /\ runs' = runs + Weight(t) /\ runs + Weight(t) <= MaxRuns
    BY DEF Starts, Goes, ctlVars
  <1>2. tpc \in [Tools -> PcSet] /\ Speakers \subseteq Tools
    BY DEF Control, Speakers, Tools
  <1>3. Come("knob") = 1 /\ Come(tpc[t]) = 0 /\ Wait("knob") = 0 /\ Wait(tpc[t]) = 0
    BY <1>1 DEF Come, Wait
  <1>4. Coming \in 0..2 /\ Coming' \in 0..2
    BY ComingIn
  <1>5. Coming' = Coming \/ Coming' + 0 = Coming + 1
    BY <1>1, <1>3, ComingMoves
  <1>6. Weight(t) \in {1, 2} /\ MaxRuns \in Nat /\ runs \in 0..MaxRuns
    BY BleAssumption DEF Weight, Counted
  <1>7. Held' = Held /\ Held \in Nat
    BY <1>1, HeldIn DEF Held
  <1>8. Coming + Held <= runs
    BY DEF Counted
  <1>9. PICK r : r = runs + Weight(t)
    OBVIOUS
  <1>10. r \in 0..MaxRuns /\ r >= runs + 1 /\ runs \in Nat
    BY ONLY <1>1, <1>6, <1>9
  <1>11. PICK c : c = Coming'
    OBVIOUS
  <1>12. c + Held <= r
    <2>1. c \in 0..2 /\ r \in Nat
      BY <1>4, <1>6, <1>10, <1>11
    <2>2. c = Coming \/ c + 0 = Coming + 1
      BY <1>5, <1>11
    <2> QED
      BY <1>4, <1>7, <1>8, <1>10, <2>1, <2>2, OneStarted
  <1>13. Coming' + Held' <= runs' /\ runs' \in 0..MaxRuns
    BY <1>1, <1>7, <1>9, <1>10, <1>11, <1>12
  <1>14. ASSUME owner \in Speakers PROVE tpc'[owner] = tpc[owner]
    <2>1. owner \in Tools /\ tpc[owner] # "off"
      BY <1>2, <1>14 DEF Control, Unbound
    <2> QED
      BY <1>1, <1>2, <2>1
  <1>15. Owed'
    BY <1>1, <1>14 DEF Owed, Counted
  <1> QED
    BY <1>1, <1>13, <1>15 DEF Counted

LEMMA ShapeCounted ==
    ASSUME Control, Queues, Queues', Counted, NEW t \in Tools, Shape(t), UNCHANGED runs
    PROVE  Counted'
  <1>1. tpc \in [Tools -> PcSet] /\ "ble_scan" \in Tools /\ "hci_up" \notin Speakers
    BY DEF Control, Tools, Speakers
  <1>2. Come("bind") = 1 /\ Come("knob") = 1 /\ Come("send") = 0 /\ Come("serve") = 0
        /\ Come("last send") = 0 /\ Come("drain") = 0
    BY DEF Come
  <1>3. Wait("bind") = 0 /\ Wait("knob") = 0 /\ Wait("send") = 0 /\ Wait("serve") = 0
        /\ Wait("last send") = 0 /\ Wait("drain") = 0
    BY DEF Wait
  <1>4. 0 <= 0 /\ 0 <= 1 /\ 1 <= 1
    OBVIOUS
  <1>5. CASE Stays
    <2>1. UNCHANGED <<tpc, owner, stale, down, sq>>
      BY <1>5 DEF Stays, ctlVars
    <2> QED
      BY <2>1 DEF Counted, Owed, Coming, Held
  <1>6. CASE Walks(t)
    <2>1. UNCHANGED <<owner, stale, down, sq>>
      BY <1>6 DEF Walks, ctlVars
    <2>2. CASE tpc[t] = "knob" /\ tpc' = [tpc EXCEPT ![t] = "bind"]
      BY <1>2, <1>3, <1>4, <2>1, <2>2, MoveKept
    <2>3. CASE tpc[t] = "bind" /\ tpc' = [tpc EXCEPT ![t] = "send"]
      BY <1>2, <1>3, <1>4, <2>1, <2>3, MoveKept
    <2>4. CASE tpc[t] = "serve" /\ tpc' = [tpc EXCEPT ![t] = "last send"]
      BY <1>2, <1>3, <1>4, <2>1, <2>4, MoveKept
    <2> QED
      BY <1>6, <2>2, <2>3, <2>4 DEF Walks
  <1>7. CASE Drained
    <2>1. tpc["ble_scan"] = "drain" /\ tpc' = [tpc EXCEPT !["ble_scan"] = "send"]
          /\ UNCHANGED <<owner, stale, down, sq>>
      BY <1>7 DEF Drained, ctlVars
    <2>2. Come("send") <= Come(tpc["ble_scan"]) /\ Wait("send") = Wait(tpc["ble_scan"])
      BY <1>2, <1>3, <1>4, <2>1
    <2> QED
      BY <1>1, <2>1, <2>2, MoveKept
  <1>8. CASE Skips(t)
    <2>1. sq # <<>> /\ sq' = Tail(sq) /\ UNCHANGED <<tpc, owner, stale, down>>
      BY <1>8 DEF Skips
    <2> QED
      BY <2>1, ReadsCounted
  <1>9. CASE Takes(t) \/ Asks(t) \/ Hears(t)
    <2>1. t \in Speakers
      BY <1>9 DEF Takes, Asks, Hears
    <2> QED
      BY <1>9, <2>1, TakesCounted, AsksCounted, HearsCounted
  <1> QED
    BY <1>5, <1>6, <1>7, <1>8, <1>9, LeavesCounted DEF Shape

LEMMA CountedInductive == Control /\ Queues /\ Counted /\ [Next]_vars => Counted'
  <1> SUFFICES ASSUME Control, Queues, Counted, [Next]_vars PROVE Counted'
    OBVIOUS
  <1>1. Seen /\ Queues'
    BY StepSeen, QueuesInductive
  <1>2. CASE Executes /\ Same
    <2>1. UNCHANGED <<tpc, runs>>
      BY <1>2 DEF Same
    <2> QED
      BY <1>1, <1>2, <2>1, ExecutesCounted
  <1>3. CASE Sees /\ Same
    <2>1. UNCHANGED <<tpc, runs, owner, stale, down>>
      BY <1>3 DEF Same, Sees
    <2>2. [op |-> "report", ok |-> TRUE] \in EventSet
      BY DEF EventSet
    <2>3. sq' = sq \/ sq' = Append(sq, [op |-> "report", ok |-> TRUE])
      BY <1>3 DEF Sees, Delivers
    <2>4. Count(sq') = Count(sq)
      BY <2>2, <2>3, CountAppend DEF Queues
    <2> QED
      BY <2>1, <2>4 DEF Counted, Owed, Coming, Held
  <1>4. CASE Detached /\ Same
    <2>1. owner' = "none" /\ stale' = 0 /\ UNCHANGED <<down, runs>> /\ UNCHANGED tpc
      BY <1>4 DEF Same, Detached
    <2>2. Coming' = Coming
      BY <2>1 DEF Coming
    <2>3. Coming' <= Coming
      BY <2>2, ComingIn
    <2> QED
      BY <2>1, <2>3, ComingIn, FreeCounted
  <1>5. CASE Rebooted /\ Same
    <2>1. down' = <<>> /\ UNCHANGED <<tpc, runs, owner, stale, sq>>
      BY <1>5 DEF Same, Rebooted
    <2>2. Len(down') = 0 /\ Len(down) \in Nat /\ stale \in Nat
      BY <2>1, HeldIn
    <2>3. Len(down') <= Len(down)
      BY <2>2
    <2>4. ASSUME owner \in Speakers PROVE Len(down') + Count(sq') <= stale + Wait(tpc[owner])
      <3>1. Len(down) + Count(sq) <= stale + Wait(tpc[owner])
        BY <2>4 DEF Counted, Owed
      <3>2. Count(sq) \in Nat /\ Wait(tpc[owner]) \in {0, 1}
        BY CountIn, ComeIn DEF Queues
      <3>3. 0 + Count(sq) <= stale + Wait(tpc[owner])
        BY <2>2, <3>1, <3>2, OneFewer
      <3> QED
        BY <2>1, <2>2, <3>3
    <2> QED
      BY <1>1, <2>1, <2>3, <2>4, QueuesKept
  <1>6. CASE Shaped /\ UNCHANGED runs
    <2>1. CASE KernelTakes
      <3>1. tpc["hci_up"] = "send" /\ tpc' = [tpc EXCEPT !["hci_up"] = "off"]
            /\ UNCHANGED <<stale, down, sq>> /\ (owner' = owner \/ (owner = "none" /\ owner' = "kernel"))
        BY <2>1 DEF KernelTakes
      <3>2. Come("off") = 0 /\ Come("send") = 0 /\ Wait("off") = 0 /\ Wait("send") = 0 /\ 0 <= 0
        BY DEF Come, Wait
      <3>3. Come("off") <= Come(tpc["hci_up"]) /\ Wait("off") = Wait(tpc["hci_up"])
        BY <3>1, <3>2
      <3>4. "hci_up" \in Tools
        BY DEF Tools
      <3> QED
        BY <1>1, <1>6, <3>1, <3>3, <3>4, MoveKept
    <2> QED
      BY <1>1, <1>6, <2>1, ShapeCounted DEF Shaped
  <1>7. CASE \E t \in Tools : Starts(t)
    BY <1>1, <1>7, StartsCounted
  <1>8. CASE Stays /\ UNCHANGED runs
    <2>1. UNCHANGED <<tpc, owner, stale, down, sq>>
      BY <1>8 DEF Stays, ctlVars
    <2> QED
      BY <1>8, <2>1 DEF Counted, Owed, Coming, Held
  <1> QED
    BY <1>1, <1>2, <1>3, <1>4, <1>5, <1>6, <1>7, <1>8 DEF Seen

LEMMA CountedInit == Init => Counted
  <1> SUFFICES ASSUME Init PROVE Counted
    OBVIOUS
  <1>1. tpc = [t \in Tools |-> "off"] /\ owner = "none" /\ stale = 0 /\ down = <<>> /\ runs = 0
    BY DEF Init, ToolInit
  <1>2. tpc["ble_adv"] = "off" /\ tpc["ble_scan"] = "off"
    BY <1>1 DEF Tools
  <1>3. Coming = 0
    BY <1>2 DEF Coming, Come
  <1>4. owner \notin Speakers
    BY <1>1 DEF Speakers
  <1>5. Held = 0
    BY <1>1, <1>4 DEF Held
  <1>6. 0 \in 0..MaxRuns /\ 0 + 0 <= 0
    BY BleAssumption
  <1> QED
    BY <1>1, <1>3, <1>4, <1>5, <1>6 DEF Counted, Owed

----------------------------------------------------------------------------
(* The device, for the types.                                              *)

BootPlaces == {"idle", "cancel", "cancel again", "deinit", "unregister", "add", "tail"}
DeviceIs   == {"NULL", "new", "up", "leaving", "dangling"}

\* A boot-up event is of a boot, and a registration that runs has its device: the
\* handler that takes hcidev away is past its cancels.
Device ==
    /\ capable \in BOOLEAN /\ knob \in BOOLEAN /\ bt_pending \in BOOLEAN
    /\ c6boots \in 1..MaxBoots /\ events \in 0..c6boots
    /\ bpc \in BootPlaces /\ hcidev \in DeviceIs
    /\ bt_running => hcidev = "new"
    /\ spoiled \in 0..MaxSpoiled

LEMMA DeviceInit == Init => Device
  <1> SUFFICES ASSUME Init PROVE Device
    OBVIOUS
  <1>1. HdInit
    BY DEF Init
  <1>2. 1 \in 1..MaxBoots /\ 1 \in 0..1 /\ 0 \in 0..MaxSpoiled
    BY HciDevAssumption DEF MaxSpoiled
  <1>3. c6boots \in 1..MaxBoots /\ events \in 0..c6boots /\ spoiled \in 0..MaxSpoiled
    BY <1>1, <1>2 DEF HdInit
  <1>4. capable \in BOOLEAN /\ knob = FALSE /\ bt_pending = FALSE /\ bt_running = FALSE
        /\ bpc = "idle" /\ hcidev = "NULL"
    BY <1>1 DEF HdInit
  <1> QED
    BY <1>3, <1>4 DEF Device, BootPlaces, DeviceIs

LEMMA OneMoreSpoiled ==
    ASSUME spoiled \in 0..MaxSpoiled, spoiled < MaxSpoiled
    PROVE  spoiled + 1 \in 0..MaxSpoiled
  BY DEF MaxSpoiled

LEMMA DeviceHands == ASSUME Device, Hands PROVE Device'
  <1>1. CASE hdVars' = hdVars
    BY <1>1 DEF hdVars, Device
  <1>2. CASE BtEnableSet
    <2>1. UNCHANGED <<capable, c6boots, events, bpc, bt_running, hcidev, spoiled>>
      BY <1>2 DEF BtEnableSet
    <2>2. knob' \in BOOLEAN /\ bt_pending' \in BOOLEAN
      BY <1>2 DEF BtEnableSet
    <2> QED
      BY <2>1, <2>2 DEF Device
  <1> QED
    BY <1>1, <1>2 DEF Hands

LEMMA DeviceWork == ASSUME Device, BtInv, TheBtWork PROVE Device'
  <1>1. CASE BtInitWork
    <2>1. UNCHANGED <<capable, c6boots, events, bpc, knob, spoiled>> /\ bt_pending' = FALSE
      BY <1>1 DEF BtInitWork
    <2>2. CASE hcidev' = "new"
      BY <2>1, <2>2 DEF Device, DeviceIs
    <2>3. CASE UNCHANGED <<hcidev, bt_running>>
      BY <2>1, <2>3 DEF Device
    <2> QED
      BY <1>1, <2>2, <2>3 DEF BtInitWork
  <1>2. CASE BtRegistered
    <2>1. UNCHANGED <<capable, c6boots, events, bpc, knob, bt_pending>> /\ bt_running' = FALSE
          /\ hcidev' \in {"up", "dangling"}
      BY <1>2 DEF BtRegistered
    <2>2. spoiled' \in 0..MaxSpoiled
      BY <1>2, OneMoreSpoiled DEF BtRegistered, Device
    <2> QED
      BY <2>1, <2>2 DEF Device, DeviceIs
  <1> QED
    BY <1>1, <1>2 DEF TheBtWork

LEMMA DeviceBoot == ASSUME Device, BtInv, TheBootEvent PROVE Device'
  <1>1. CASE BootBegins
    <2>1. UNCHANGED <<capable, c6boots, knob, bt_pending, bt_running, hcidev, spoiled>> /\ bpc' = "cancel"
      BY <1>1 DEF BootBegins
    <2>2. events' \in 0..c6boots
      <3>1. c6boots \in 1..MaxBoots /\ events \in 0..c6boots /\ events > 0 /\ events' = events - 1
        BY <1>1 DEF BootBegins, Device
      <3> QED
        BY ONLY <3>1
    <2> QED
      BY <2>1, <2>2 DEF Device, BootPlaces
  <1>2. CASE Cancels("cancel", "cancel again") \/ Cancels("cancel again", "deinit")
    <2>1. UNCHANGED <<capable, c6boots, events, knob, bt_running, hcidev, spoiled>>
          /\ bt_pending' = FALSE /\ bpc' \in {"cancel again", "deinit"}
      BY <1>2 DEF Cancels
    <2> QED
      BY <2>1 DEF Device, BootPlaces
  <1>3. CASE DeinitBegins \/ DeinitEnds
    <2>1. UNCHANGED <<capable, c6boots, events, knob, bt_pending, bt_running, spoiled>>
          /\ bpc \in {"deinit", "unregister"} /\ bpc' \in {"unregister", "add"}
          /\ hcidev' \in {"NULL", "leaving"}
      BY <1>3 DEF DeinitBegins, DeinitEnds
    <2>2. ~bt_running
      BY <2>1 DEF BtInv, ReinitAlone
    <2>3. ~bt_running'
      BY <2>1, <2>2
    <2> QED
      BY <2>1, <2>3 DEF Device, BootPlaces, DeviceIs
  <1>4. CASE BootFails
    <2>1. UNCHANGED <<capable, c6boots, events, knob, bt_pending, bt_running, hcidev>> /\ bpc' = "idle"
      BY <1>4 DEF BootFails
    <2>2. spoiled' \in 0..MaxSpoiled
      BY <1>4, OneMoreSpoiled DEF BootFails, Device
    <2> QED
      BY <2>1, <2>2 DEF Device, BootPlaces
  <1>5. CASE BootEnds
    <2>1. UNCHANGED <<capable, c6boots, events, knob, bt_running, hcidev, spoiled>> /\ bpc' \in {"tail", "idle"}
      BY <1>5 DEF BootEnds
    <2>2. bt_pending' \in BOOLEAN
      BY <1>5 DEF BootEnds, Device
    <2> QED
      BY <2>1, <2>2 DEF Device, BootPlaces
  <1> QED
    BY <1>1, <1>2, <1>3, <1>4, <1>5 DEF TheBootEvent

LEMMA DeviceInductive == Device /\ BtInv /\ [Next]_vars => Device'
  <1> SUFFICES ASSUME Device, BtInv, [Next]_vars PROVE Device'
    OBVIOUS
  <1>1. CASE TheC6
    <2>1. UNCHANGED <<capable, bpc, knob, bt_pending, bt_running, hcidev, spoiled>>
      BY <1>1 DEF TheC6, C6Reboots
    <2>2. c6boots' \in 1..MaxBoots /\ events' \in 0..c6boots'
      <3>1. c6boots \in 1..MaxBoots /\ events \in 0..c6boots /\ c6boots < MaxBoots
            /\ c6boots' = c6boots + 1 /\ events' = events + 1 /\ MaxBoots \in Nat
        BY <1>1, HciDevAssumption DEF TheC6, C6Reboots, Device
      <3>2. c6boots + 1 \in 1..MaxBoots /\ events + 1 \in 0..(c6boots + 1)
        BY ONLY <3>1
      <3> QED
        BY <3>1, <3>2
    <2> QED
      BY <2>1, <2>2 DEF Device
  <1>2. CASE TheLink \/ TheAir \/ UNCHANGED vars
    BY <1>2 DEF TheLink, TheAir, vars, hdVars, Device
  <1>3. CASE TheUser
    <2>1. hdVars' = hdVars
      BY <1>3 DEF TheUser, Starts
    <2> QED
      BY <2>1, DeviceHands DEF Hands
  <1>4. CASE (\E t \in Tools : TheTool(t)) \/ TheSignal
    BY <1>4, OutsideAlone, DeviceHands
  <1> QED
    BY <1>1, <1>2, <1>3, <1>4, DeviceWork, DeviceBoot DEF Next

----------------------------------------------------------------------------
(* What a tool keeps for itself.                                           *)

Private ==
    /\ tries \in [Tools -> 0..MaxTries] /\ budget \in [Tools -> 1..Budget]
    /\ reset_only \in BOOLEAN /\ stopping \in BOOLEAN

Tolls(t) ==
    /\ \/ UNCHANGED tries
       \/ tries' = [tries EXCEPT ![t] = 0]
       \/ tries[t] < MaxTries /\ tries' = [tries EXCEPT ![t] = @ + 1]
    /\ \/ UNCHANGED budget
       \/ budget' = [budget EXCEPT ![t] = Budget]
       \/ budget[t] > 1 /\ budget' = [budget EXCEPT ![t] = @ - 1]
    /\ reset_only' = reset_only \/ reset_only' \in BOOLEAN
    /\ stopping' = stopping \/ stopping' \in BOOLEAN

Keeps == UNCHANGED <<tries, budget, reset_only, stopping>>

LEMMA KeepsTolls == ASSUME NEW t, Keeps PROVE Tolls(t)
  BY DEF Keeps, Tolls

LEMMA ExitsTolls == ASSUME NEW t, Exits(t) PROVE Tolls(t)
  <1>1. tries' = [tries EXCEPT ![t] = 0] /\ budget' = [budget EXCEPT ![t] = Budget]
    BY DEF Exits
  <1>2. reset_only' \in BOOLEAN /\ stopping' \in BOOLEAN
    BY DEF Exits
  <1> QED
    BY <1>1, <1>2 DEF Tolls

LEMMA OpensTolls == ASSUME NEW t, Opens(t) PROVE Tolls(t)
  <1>1. CASE WritesKnob(t)
    BY <1>1, KeepsTolls DEF WritesKnob, Keeps
  <1>2. CASE Retries(t)
    BY <1>2, ExitsTolls DEF Retries, Tolls
  <1>3. CASE Binds(t)
    BY <1>3, ExitsTolls DEF Binds, Tolls
  <1> QED
    BY <1>1, <1>2, <1>3 DEF Opens

LEMMA SendsTolls ==
    ASSUME NEW t, NEW cmd, NEW at, NEW next, SendsCmd(t, cmd, at, next)
    PROVE  Tolls(t)
  BY ExitsTolls DEF SendsCmd, Tolls

LEMMA AwaitsTolls == ASSUME NEW t, NEW next, AwaitsCmd(t, next) PROVE Tolls(t)
  BY ExitsTolls DEF AwaitsCmd, Spends, Tolls

LEMMA LastTolls == ASSUME NEW t, AwaitsLast(t) PROVE Tolls(t)
  BY ExitsTolls DEF AwaitsLast, Spends, Tolls

LEMMA RestTolls ==
    ASSUME NEW t, NEW u, NEW at, NEW next, Moves(u, at, next) \/ Drops(u, at)
    PROVE  Tolls(t)
  <1>1. Keeps
    BY DEF Moves, Drops, Keeps
  <1> QED
    BY <1>1, KeepsTolls

LEMMA AdvTolls == AdvStep => Tolls("ble_adv")
  <1>1. AdvSetsUp => Tolls("ble_adv")
    BY SendsTolls, AwaitsTolls DEF AdvSetsUp
  <1>2. AdvParks \/ AdvStops => Tolls("ble_adv")
    BY RestTolls, SendsTolls, LastTolls DEF AdvParks, AdvStops
  <1> QED
    BY <1>1, <1>2, OpensTolls DEF AdvStep

LEMMA ScanTolls == ScanStep => Tolls("ble_scan")
  <1>1. ScanSetsUp => Tolls("ble_scan")
    BY SendsTolls, AwaitsTolls DEF ScanSetsUp
  <1>2. ScanResetOnly => Tolls("ble_scan")
    BY ExitsTolls DEF ScanResetOnly
  <1>3. ScanDrains \/ ScanListens => Tolls("ble_scan")
    BY RestTolls DEF ScanDrains, ScanListens, TimeIsUp
  <1>4. ScanStops => Tolls("ble_scan")
    BY SendsTolls, LastTolls DEF ScanStops
  <1> QED
    BY <1>1, <1>2, <1>3, <1>4, OpensTolls DEF ScanStep

LEMMA UpTolls == UpStep => Tolls("hci_up")
  <1>1. WritesKnob("hci_up") \/ Retries("hci_up") => Tolls("hci_up")
    BY OpensTolls DEF Opens
  <1>2. Moves("hci_up", "bind", "send") => Tolls("hci_up")
    BY RestTolls
  <1> QED
    BY <1>1, <1>2 DEF UpStep, Tolls

\* Every step, as the tools keep their counts.
LEMMA StepTolls == [Next]_vars => \E t \in Tools : Tolls(t)
  <1> SUFFICES ASSUME [Next]_vars PROVE \E t \in Tools : Tolls(t)
    OBVIOUS
  <1>1. "ble_adv" \in Tools /\ "ble_scan" \in Tools /\ "hci_up" \in Tools
    BY DEF Tools
  <1>2. CASE \E t \in Tools : TheTool(t)
    <2>1. AdvStep \/ ScanStep \/ UpStep
      BY <1>2 DEF TheTool
    <2> QED
      BY <1>1, <2>1, AdvTolls, ScanTolls, UpTolls
  <1>3. CASE TheSignal
    <2>1. CASE AdvSignalled
      <3>1. CASE Exits("ble_adv")
        BY <1>1, <3>1, ExitsTolls
      <3>2. CASE stopping' = TRUE /\ UNCHANGED <<tries, budget, reset_only>>
        BY <1>1, <3>2 DEF Tolls
      <3> QED
        BY <2>1, <3>1, <3>2 DEF AdvSignalled
    <2>2. CASE Exits("ble_scan")
      BY <1>1, <2>2, ExitsTolls
    <2> QED
      BY <1>3, <2>1, <2>2 DEF TheSignal
  <1>4. CASE TheUser
    <2>1. PICK t \in Tools : Starts(t)
      BY <1>4 DEF TheUser
    <2>2. UNCHANGED <<tries, budget, stopping>>
      BY <2>1 DEF Starts
    <2>3. reset_only' = reset_only \/ reset_only' \in BOOLEAN
      BY <2>1 DEF Starts
    <2> QED
      BY <2>2, <2>3 DEF Tolls
  <1>5. CASE TheBtWork \/ TheBootEvent \/ TheC6 \/ TheLink \/ TheAir \/ UNCHANGED vars
    <2>1. Keeps
      BY <1>5 DEF TheBtWork, TheBootEvent, TheC6, TheLink, TheAir, vars, toolVars, Keeps
    <2> QED
      BY <1>1, <2>1, KeepsTolls
  <1> QED
    BY <1>2, <1>3, <1>4, <1>5 DEF Next

LEMMA PrivateInductive == Private /\ [Next]_vars => Private'
  <1> SUFFICES ASSUME Private, [Next]_vars PROVE Private'
    OBVIOUS
  <1>1. PICK t \in Tools : Tolls(t)
    BY StepTolls
  <1>2. MaxTries \in Nat /\ Budget \in Nat \ {0}
    BY BleAssumption
  <1>3. tries[t] \in 0..MaxTries /\ budget[t] \in 1..Budget
    BY DEF Private
  <1>4. 0 \in 0..MaxTries /\ Budget \in 1..Budget
    BY <1>2
  <1>5. /\ tries[t] < MaxTries => tries[t] + 1 \in 0..MaxTries
        /\ budget[t] > 1 => budget[t] - 1 \in 1..Budget
    BY ONLY <1>2, <1>3
  <1>6. tries' \in [Tools -> 0..MaxTries]
    BY <1>1, <1>4, <1>5 DEF Tolls, Private
  <1>7. budget' \in [Tools -> 1..Budget]
    BY <1>1, <1>4, <1>5 DEF Tolls, Private
  <1>8. reset_only' \in BOOLEAN /\ stopping' \in BOOLEAN
    BY <1>1 DEF Tolls, Private
  <1> QED
    BY <1>6, <1>7, <1>8 DEF Private

LEMMA PrivateInit == Init => Private
  <1> SUFFICES ASSUME Init PROVE Private
    OBVIOUS
  <1>1. tries = [t \in Tools |-> 0] /\ budget = [t \in Tools |-> Budget]
        /\ reset_only = FALSE /\ stopping = FALSE
    BY DEF Init, ToolInit
  <1>2. 0 \in 0..MaxTries /\ Budget \in 1..Budget
    BY BleAssumption
  <1> QED
    BY <1>1, <1>2 DEF Private

----------------------------------------------------------------------------
(* All together.                                                           *)

Typed == BtInv /\ Device /\ Private /\ Control /\ Queues /\ Counted

LEMMA SeqIn == ASSUME NEW S, NEW q \in Seq(S) PROVE \A i \in 1..Len(q) : q[i] \in S
  OBVIOUS

LEMMA UpToBoots ==
    ASSUME NEW b \in Nat, NEW c \in 1..b, NEW e \in 0..c
    PROVE  e \in 0..b
  OBVIOUS

LEMMA StaleFits ==
    ASSUME NEW m \in Nat, NEW r \in 0..m, NEW c \in 0..2, NEW s \in Nat, s = 0 \/ c + (s + 1) <= r
    PROVE  s \in 0..m
  OBVIOUS

LEMMA TypesFollow == Typed => TypeOK
  <1> SUFFICES ASSUME Typed PROVE TypeOK
    OBVIOUS
  <1> USE DEF Typed
  <1>1. MaxBoots \in Nat /\ MaxRuns \in Nat
    BY HciDevAssumption, BleAssumption
  <1>2. events \in 0..MaxBoots
    BY <1>1, UpToBoots DEF Device
  <1>3. HdTypeOK
    BY <1>2 DEF Device, BtInv, BootPlaces, DeviceIs, HdTypeOK
  <1>4. \A t \in Tools :
            /\ tpc[t] \in {"off", "knob", "bind", "send", "wait", "drain", "serve", "last send", "last wait"}
            /\ step[t] \in 1..6 /\ tries[t] \in 0..MaxTries /\ budget[t] \in 1..Budget
    BY DEF Control, PcSet, Private
  <1>5. reset_only \in BOOLEAN /\ stopping \in BOOLEAN /\ runs \in 0..MaxRuns
    BY DEF Private, Counted
  <1>6. owner \in Tools \cup {"none", "kernel"}
    BY DEF Control, Tools, Speakers
  <1>7. since \in 0..MaxBoots
    <2>1. c6boots \in 1..MaxBoots /\ since \in 0..c6boots
      BY DEF Device, Queues
    <2> QED
      BY <1>1, <2>1, UpToBoots
  <1>8. stale \in 0..MaxRuns
    <2>1. stale \in Nat /\ runs \in 0..MaxRuns /\ Coming \in 0..2
      BY ComingIn DEF Queues, Counted
    <2>2. stale = 0 \/ Coming + (stale + 1) <= runs
      BY DEF Counted, Held
    <2> QED
      BY <1>1, <2>1, <2>2, StaleFits
  <1>9. ctl \subseteq Cmds \ {"reset"} /\ lost \in 0..MaxLost
    BY DEF Queues
  <1>10. /\ \A i \in 1..Len(down) : down[i] \in Cmds \cup Disables
         /\ \A i \in 1..Len(sq) : sq[i] \in EventSet
    BY SeqIn DEF Queues
  <1>11. ToolTypeOK
    BY <1>4, <1>5, <1>6, <1>7, <1>8, <1>9, <1>10 DEF ToolTypeOK
  <1> QED
    BY <1>3, <1>11 DEF TypeOK

\* Every variable keeps its type: among it that no registration runs without its
\* device, and that a tool finds no more commands at its bind than tools ran before.
THEOREM TypeCorrect == Spec => []TypeOK
  <1>1. Init => Typed
    BY BtInit, DeviceInit, PrivateInit, ControlInit, QueuesInit, CountedInit DEF Typed
  <1>2. Typed /\ [Next]_vars => Typed'
    BY BtInductive, DeviceInductive, PrivateInductive, ControlInductive, QueuesInductive,
       CountedInductive DEF Typed
  <1> QED
    BY <1>1, <1>2, TypesFollow, PTL DEF Spec
=============================================================================
