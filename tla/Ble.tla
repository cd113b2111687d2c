--------------------------------- MODULE Ble --------------------------------
(***************************************************************************)
(* Bluetooth on demand: the three tools, the life of hci0 and a C6 that    *)
(* may reboot under them.                                                  *)
(***************************************************************************)
EXTENDS BleTools

CONSTANT MaxTroubles   \* one bound on reboots, failures and losses
ASSUME TroublesAssumption == MaxTroubles \in Nat

vars == <<hdVars, toolVars, ctlVars>>

TheBtWork == (BtInitWork \/ BtRegistered) /\ UNCHANGED <<toolVars, ctlVars>>

TheBootEvent ==
    /\ UNCHANGED toolVars
    /\ \/ /\ BootBegins \/ Cancels("cancel", "cancel again") \/ Cancels("cancel again", "deinit")
             \/ DeinitEnds \/ BootFails \/ BootEnds
          /\ UNCHANGED ctlVars
       \/ DeinitBegins /\ hcidev # "NULL" /\ Detached
       \/ DeinitBegins /\ hcidev = "NULL" /\ UNCHANGED ctlVars

TheC6    == C6Reboots /\ Rebooted /\ UNCHANGED toolVars
TheLink  == Executes /\ UNCHANGED <<hdVars, toolVars>>
TheAir   == Sees /\ UNCHANGED <<hdVars, toolVars>>
TheUser  == \E t \in Tools : Starts(t)
TheTool(t) == CASE t = "ble_adv"  -> AdvStep
                [] t = "ble_scan" -> ScanStep
                [] OTHER          -> UpStep
TheSignal == \/ AdvSignalled
             \/ tpc["ble_scan"] # "off" /\ Exits("ble_scan")

Bounded == lost' + spoiled' + c6boots' - 1 <= MaxTroubles

Init == HdInit /\ ToolInit
Next == /\ \/ TheBtWork \/ TheBootEvent \/ TheC6 \/ TheLink \/ TheAir \/ TheUser
           \/ (\E t \in Tools : TheTool(t)) \/ TheSignal
        /\ Bounded
Spec == Init /\ [][Next]_vars

\* The work queues run, time passes, the link moves, and every tool is scheduled.  Nothing
\* makes a user start or kill a tool, or the air carry an advertisement.
FairSpec ==
    /\ Spec
    /\ WF_vars(TheBtWork) /\ WF_vars(TheBootEvent) /\ WF_vars(TheLink)
    /\ \A t \in Tools : WF_vars(TheTool(t))
    /\ WF_vars(TimeIsUp)

TypeOK == HdTypeOK /\ ToolTypeOK

----------------------------------------------------------------------------
(* What a tool that serves may rely on, unless the C6 rebooted since its   *)
(* bind.                                                                   *)

Serving(t) == tpc[t] = "serve" /\ owner = t /\ since = c6boots /\ stale <= 1

\* Whatever the tools before it left in the controller, and whatever is lost, a
\* tool that serves has every command of its sequence carried out, and nothing
\* of another tool's (ble_scan.c:221-254, ble_adv.c:197-234).  An answer is told
\* by its opcode only: one command of an earlier tool still on its way at the
\* bind is harmless, two are not.
SetUpWhole ==
    /\ \A t \in Tools : Serving(t) =>
          \A i \in 2..Len(Commands(t)) : Commands(t)[i] \in ctl
    /\ Serving("ble_scan") => "adv enable" \notin ctl
    /\ Serving("ble_adv")  => "scan enable" \notin ctl

----------------------------------------------------------------------------
(* Liveness.                                                               *)


\* When a parked ble_adv is told to stop the controller stops to advertise,
\* unless a command is lost or the device goes away (ble_adv.c:248-251).
AdvSilenced ==
    (stopping /\ tpc["ble_adv"] = "serve" /\ owner = "ble_adv")
        ~> ("adv enable" \notin ctl \/ lost > 0 \/ hcidev = "leaving")
=============================================================================
