------------------------------ MODULE BleTools ------------------------------
(***************************************************************************)
(* ble_adv, ble_scan and hci_up (buildroot/overlay-src) over hci0, and the *)
(* controller behind it.  Commands are carried out in order; a command or  *)
(* its answer may be lost, and an answer may come after its tool gave up   *)
(* and reach the next one.  Milliseconds become a choice between   *)
(* an event and a timeout.                                                 *)
(***************************************************************************)
EXTENDS HciDev, Sequences

CONSTANTS
    MaxRuns,     \* bound on the tools started
    MaxTries,    \* 40 in the code
    Budget,      \* events a wait bears: 100, 60 or 40 in the code
    MaxLost      \* bound on lost commands, lost events and refusals

ASSUME BleAssumption ==
    /\ MaxRuns \in Nat /\ MaxTries \in Nat
    /\ Budget \in Nat \ {0} /\ MaxLost \in Nat

Tools == {"ble_adv", "ble_scan", "hci_up"}

\* The commands of a tool after the bind, and the one that ends its service.
AdvCommands  == <<"reset", "adv params", "adv data", "adv enable">>
ScanCommands == <<"reset", "event mask", "le mask", "scan params", "scan enable">>
Commands(t) == IF t = "ble_adv" THEN AdvCommands ELSE ScanCommands
Disable(t)  == IF t = "ble_adv" THEN "adv disable" ELSE "scan disable"

\* Enable and disable are one opcode.
Opcode(cmd) == CASE cmd = "adv disable"  -> "adv enable"
                 [] cmd = "scan disable" -> "scan enable"
                 [] OTHER                -> cmd

VARIABLES
    tpc,       \* where each tool is
    step,      \* the next command of its sequence
    tries,     \* of its bind
    budget,    \* of its wait
    reset_only,\* ble_scan was given an argument
    stopping,
    owner,     \* who has hci0: nobody, a tool, the kernel after HCIDEVUP
    since,     \* the boot of the C6 at the time of the bind
    stale,     \* commands of earlier tools on their way at that time
    ctl,       \* what the controller was told since its reset
    down,      \* commands on their way to the controller
    sq,        \* events in the socket of the owner
    runs, lost

toolVars == <<tpc, step, tries, budget, reset_only, stopping, runs>>
ctlVars  == <<owner, since, stale, ctl, down, sq, lost>>

----------------------------------------------------------------------------
(* The kernel's HCI core and the controller (external).                    *)

Exec(c, cmd) == CASE cmd = "reset"        -> {}
                  [] cmd = "adv disable"  -> c \ {"adv enable"}
                  [] cmd = "scan disable" -> c \ {"scan enable"}
                  [] OTHER                -> c \cup {cmd}

Refusable == lost < MaxLost /\ lost' = lost + 1

\* process_rx_packet: an event for a device that nobody has is dropped.
Delivers(e) == sq' = IF owner \in Tools /\ hcidev = "up" THEN Append(sq, e) ELSE sq

\* The controller carries a command out and answers, or refuses it; command or
\* answer may be lost on the way.  A late answer is a late execution.
Executes ==
    /\ down # <<>>
    /\ down' = Tail(down)
    /\ LET op == Opcode(Head(down)) IN
       \/ /\ ctl' = Exec(ctl, Head(down))
          /\ \/ Delivers([op |-> op, ok |-> TRUE]) /\ UNCHANGED lost
             \/ Refusable /\ UNCHANGED sq
       \/ /\ Refusable /\ UNCHANGED ctl
          /\ Delivers([op |-> op, ok |-> FALSE]) \/ UNCHANGED sq
    /\ UNCHANGED <<owner, since, stale>>

\* A report leaves the controller only when both masks let it.
Sees ==
    /\ {"scan enable", "event mask", "le mask"} \subseteq ctl
    /\ Len(sq) < 2
    /\ Delivers([op |-> "report", ok |-> TRUE])
    /\ UNCHANGED <<owner, since, stale, ctl, down, lost>>

\* The device goes: its sockets get EPIPE.
Detached ==
    /\ owner' = "none" /\ sq' = <<>> /\ since' = 0 /\ stale' = 0
    /\ UNCHANGED <<ctl, down, lost>>

Rebooted ==
    /\ ctl' = {} /\ down' = <<>>
    /\ UNCHANGED <<owner, since, stale, sq, lost>>

\* The last close.  The kernel resets only controllers with a certain quirk,
\* whatever the comment in ble_adv.c says: both are possible here.
Released(t) ==
    IF owner = t
    THEN /\ owner' = "none" /\ sq' = <<>> /\ since' = 0 /\ stale' = 0
         /\ ctl' \in {ctl, {}}
         /\ UNCHANGED <<down, lost>>
    ELSE UNCHANGED ctlVars

----------------------------------------------------------------------------
(* A tool.                                                                 *)

Goes(t, at, next) == tpc[t] = at /\ tpc' = [tpc EXCEPT ![t] = next]

\* The bound on runs: hci_up counts for two.
Weight(t) == IF t = "hci_up" THEN 2 ELSE 1

Starts(t) ==
    /\ runs + Weight(t) <= MaxRuns
    /\ Goes(t, "off", "knob")
    /\ runs' = runs + Weight(t)
    /\ reset_only' \in IF t = "ble_scan" THEN BOOLEAN ELSE {reset_only}
    /\ UNCHANGED <<step, tries, budget, stopping, ctlVars, hdVars>>

WritesKnob(t) ==
    /\ Goes(t, "knob", "bind")
    /\ BtEnableSet
    /\ UNCHANGED <<step, tries, budget, reset_only, stopping, runs, ctlVars>>

Present == hcidev = "up"

\* main returns, or the tool is killed: its descriptors are closed and its
\* variables are gone.
Exits(t) ==
    /\ tpc' = [tpc EXCEPT ![t] = "off"]
    /\ step' = [step EXCEPT ![t] = 1]
    /\ tries' = [tries EXCEPT ![t] = 0] /\ budget' = [budget EXCEPT ![t] = Budget]
    /\ reset_only' = (reset_only /\ t # "ble_scan")
    /\ stopping' = (stopping /\ t # "ble_adv")
    /\ Released(t)
    /\ UNCHANGED <<runs, hdVars>>

\* ENODEV is waited out, every other error is not.
Retries(t) ==
    /\ tpc[t] = "bind" /\ ~Present
    /\ IF tries[t] < MaxTries
       THEN /\ tries' = [tries EXCEPT ![t] = @ + 1]
            /\ UNCHANGED <<tpc, step, budget, reset_only, stopping, runs, ctlVars, hdVars>>
       ELSE Exits(t)

Binds(t) ==
    /\ tpc[t] = "bind" /\ Present
    /\ IF owner = "none"
       THEN /\ tpc' = [tpc EXCEPT ![t] = "send"]
            /\ owner' = t /\ since' = c6boots /\ stale' = Len(down) /\ sq' = <<>>
            /\ tries' = [tries EXCEPT ![t] = 0]
            /\ UNCHANGED <<step, budget, reset_only, stopping, runs, ctl, down, lost, hdVars>>
       ELSE Exits(t)

\* hci_send_cmd: the write fails on a socket whose device is gone.
SendsCmd(t, cmd, at, next) ==
    /\ tpc[t] = at
    /\ IF owner = t
       THEN /\ tpc' = [tpc EXCEPT ![t] = next]
            /\ down' = Append(down, cmd)
            /\ budget' = [budget EXCEPT ![t] = Budget]
            /\ UNCHANGED <<step, tries, reset_only, stopping, runs, owner, since, stale, ctl, sq, lost, hdVars>>
       ELSE Exits(t)

\* Mutant: any event will do.
MatchesAny(e, opcode) == TRUE

Matches(e, opcode) == e.op = opcode


Spends(t) == budget' = [budget EXCEPT ![t] = @ - 1]

\* wait_cmd_complete in the sequence of main: the answer that is awaited moves
\* on, another event costs budget, anything else ends the tool.
AwaitsCmd(t, next) ==
    LET e   == Head(sq)
        cmd == Commands(t)[step[t]]
    IN
    /\ tpc[t] = "wait"
    /\ \/ /\ owner = t /\ sq # <<>>
          /\ \/ /\ Matches(e, cmd) /\ e.ok
                /\ tpc' = [tpc EXCEPT ![t] = next] /\ step' = [step EXCEPT ![t] = @ + 1]
                /\ sq' = Tail(sq) /\ budget' = [budget EXCEPT ![t] = Budget]
                /\ UNCHANGED <<tries, reset_only, stopping, runs, owner, since, stale, ctl, down, lost, hdVars>>
             \/ Matches(e, cmd) /\ ~e.ok /\ Exits(t)
             \/ /\ ~Matches(e, cmd) /\ budget[t] > 1
                /\ Spends(t)
                /\ sq' = Tail(sq)
                /\ UNCHANGED <<tpc, step, tries, reset_only, stopping, runs, owner, since, stale, ctl, down, lost, hdVars>>
             \/ ~Matches(e, cmd) /\ budget[t] <= 1 /\ Exits(t)
       \/ (owner # t \/ sq = <<>>) /\ Exits(t)

\* The same wait after the disable, whose result is not looked at.
AwaitsLast(t) ==
    /\ tpc[t] = "last wait"
    /\ \/ /\ owner = t /\ sq # <<>> /\ ~Matches(Head(sq), Opcode(Disable(t))) /\ budget[t] > 1
          /\ Spends(t)
          /\ sq' = Tail(sq)
          /\ UNCHANGED <<tpc, step, tries, reset_only, stopping, runs, owner, since, stale, ctl, down, lost, hdVars>>
       \/ /\ (owner = t /\ sq # <<>>) =>
                (Matches(Head(sq), Opcode(Disable(t))) \/ budget[t] <= 1)
          /\ Exits(t)

Last(t) == step[t] = Len(Commands(t))

\* Any event, or none for a while: read and forgotten.
Drops(t, at) ==
    /\ tpc[t] = at /\ owner = t /\ sq # <<>>
    /\ sq' = Tail(sq)
    /\ UNCHANGED <<tpc, step, tries, budget, reset_only, stopping, runs, owner, since, stale, ctl, down, lost, hdVars>>

Moves(t, at, next) ==
    /\ Goes(t, at, next)
    /\ UNCHANGED <<step, tries, budget, reset_only, stopping, runs, ctlVars, hdVars>>

Opens(t) == WritesKnob(t) \/ Retries(t) \/ Binds(t)

----------------------------------------------------------------------------
(* ble_adv                                                                 *)

AdvSetsUp ==
    \/ SendsCmd("ble_adv", AdvCommands[step["ble_adv"]], "send", "wait")
    \/ AwaitsCmd("ble_adv", IF Last("ble_adv") THEN "serve" ELSE "send")

AdvParks == ~stopping /\ Drops("ble_adv", "serve")

\* Mutant: the socket is closed without the disable.
AdvJustCloses == stopping /\ tpc["ble_adv"] = "serve" /\ Exits("ble_adv")

AdvStops ==
    \/ stopping /\ Moves("ble_adv", "serve", "last send")
    \/ SendsCmd("ble_adv", "adv disable", "last send", "last wait")
    \/ AwaitsLast("ble_adv")

\* Before the handlers are installed the signal kills; while parked it is noted;
\* in the last wait it interrupts the poll.
AdvSignalled ==
    \/ /\ tpc["ble_adv"] \in {"knob", "bind", "send", "wait", "last wait"}
       /\ Exits("ble_adv")
    \/ /\ tpc["ble_adv"] = "serve" /\ ~stopping
       /\ stopping' = TRUE
       /\ UNCHANGED <<tpc, step, tries, budget, reset_only, runs, ctlVars, hdVars>>

AdvStep == Opens("ble_adv") \/ AdvSetsUp \/ AdvParks \/ AdvStops

(* ble_scan *)

ScanSetsUp ==
    \/ SendsCmd("ble_scan", ScanCommands[step["ble_scan"]], "send", "wait")
    \/ AwaitsCmd("ble_scan", IF Last("ble_scan") THEN "serve"
                             ELSE IF step["ble_scan"] = 1 THEN "drain" ELSE "send")

ScanResetOnly == reset_only /\ tpc["ble_scan"] = "drain" /\ Exits("ble_scan")

ScanDrains ==
    /\ ~reset_only
    /\ \/ Drops("ble_scan", "drain")
       \/ (sq = <<>> \/ owner # "ble_scan") /\ Moves("ble_scan", "drain", "send")

\* For 20 seconds.
TimeIsUp    == Moves("ble_scan", "serve", "last send")
ScanListens == Drops("ble_scan", "serve") \/ TimeIsUp

\* The result of the write is not looked at either.
ScanStops ==
    \/ SendsCmd("ble_scan", "scan disable", "last send", "last wait")
    \/ AwaitsLast("ble_scan")

ScanStep == Opens("ble_scan") \/ ScanSetsUp \/ ScanResetOnly \/ ScanDrains \/ ScanListens \/ ScanStops

(* hci_up *)

UpStep ==
    \/ WritesKnob("hci_up")
    \/ Retries("hci_up")
    \/ /\ tpc["hci_up"] = "bind" /\ Present
       /\ Moves("hci_up", "bind", "send")
    \/ /\ tpc["hci_up"] = "send"
       /\ tpc' = [tpc EXCEPT !["hci_up"] = "off"]
       /\ tries' = [tries EXCEPT !["hci_up"] = 0]
       /\ \/ UNCHANGED <<owner, ctl>>
          \/ Present /\ owner = "none" /\ owner' = "kernel" /\ ctl' = {}
       /\ UNCHANGED <<step, budget, reset_only, stopping, runs, since, stale, down, sq, lost, hdVars>>

ToolInit ==
    /\ tpc = [t \in Tools |-> "off"] /\ step = [t \in Tools |-> 1]
    /\ tries = [t \in Tools |-> 0] /\ budget = [t \in Tools |-> Budget]
    /\ reset_only = FALSE /\ stopping = FALSE /\ runs = 0
    /\ owner = "none" /\ since = 0 /\ stale = 0
    /\ ctl = {} /\ down = <<>> /\ sq = <<>> /\ lost = 0

Cmds   == {AdvCommands[i] : i \in 1..4} \cup {ScanCommands[i] : i \in 1..5}
Disables == {"adv disable", "scan disable"}
EventSet == [op : Cmds \cup {"report"}, ok : BOOLEAN]

ToolTypeOK ==
    /\ \A t \in Tools :
          /\ tpc[t] \in {"off", "knob", "bind", "send", "wait", "drain", "serve", "last send", "last wait"}
          /\ step[t] \in 1..6 /\ tries[t] \in 0..MaxTries /\ budget[t] \in 1..Budget
    /\ reset_only \in BOOLEAN /\ stopping \in BOOLEAN /\ runs \in 0..MaxRuns
    /\ owner \in Tools \cup {"none", "kernel"}
    /\ since \in 0..MaxBoots /\ stale \in 0..MaxRuns
    /\ ctl \subseteq Cmds \ {"reset"}
    /\ \A i \in 1..Len(down) : down[i] \in Cmds \cup Disables
    /\ \A i \in 1..Len(sq) : sq[i] \in EventSet
    /\ lost \in 0..MaxLost
=============================================================================
