-------------------------------- MODULE Badge -------------------------------
(***************************************************************************)
(* The badge in use: sleepd and the launcher on one keypad, one panel and  *)
(* two backlights.                                                         *)
(***************************************************************************)
EXTENDS Sleepd, Launcher

VARIABLE knock     \* a key was pressed since the badge went to sleep

vars == <<kpVars, blVars, sdVars, laVars, knock>>

TheUser ==
    /\ \/ \E k \in Keys : Press(k) /\ knock' = (knock \/ sleeping)
       \/ ReleaseFn /\ UNCHANGED knock
    /\ UNCHANGED <<blVars, sdVars, laVars>>

TheSleepd ==
    /\ SleepdNext
    /\ knock' = (knock /\ sleeping')
    /\ UNCHANGED laVars

TheLauncher == LauncherStep /\ UNCHANGED <<sdVars, knock>>

TheShell == LaStarts /\ UNCHANGED <<sdVars, knock>>

TheChildren(P) == (\E p \in P : ChildEnds(p)) /\ UNCHANGED <<sdVars, knock>>

TheKernel == /\ Unplug \/ Replug
             /\ UNCHANGED <<blVars, sdVars, laVars, knock>>

TheC6 == /\ BlProbe \/ C6Boots
         /\ UNCHANGED <<kpVars, sdVars, laVars, knock>>

Init == /\ KpInit /\ BlInit /\ SleepdInit /\ LauncherInit
        /\ knock = FALSE

\* One bound for the keys pressed and all that goes wrong: unplugs, failed
\* commands, reboots of the C6, and refused calls.
CONSTANT MaxEvents
ASSUME EventsAssumption == MaxEvents \in Nat
Bounded == presses' + unplugs' + faults' + c6boots' + refusals' <= MaxEvents

Next == /\ \/ TheUser \/ TheSleepd \/ TheLauncher \/ TheShell
           \/ TheChildren(Programs) \/ TheKernel \/ TheC6
        /\ Bounded

Spec == Init /\ [][Next]_vars

Dying == {p \in Programs : child[p] = "dying"}

\* The scheduler runs both programs and the device is found again; SIGTERM ends
\* a child.  Nothing makes the user press keys or quit fbdoom.
FairSpec ==
    /\ Spec
    /\ WF_vars(TheSleepd) /\ WF_vars(TheLauncher)
    /\ WF_vars(TheChildren(Dying))
    /\ WF_vars(Replug /\ UNCHANGED <<blVars, sdVars, laVars, knock>>)

TypeOK == KpTypeOK /\ BlTypeOK /\ SleepdTypeOK /\ LauncherTypeOK /\ knock \in BOOLEAN

----------------------------------------------------------------------------
(* Safety.                                                                 *)

\* While sleepd waits for keys and is not asleep the panel is on, neither
\* brightness is 0, and neither light of the C6 is off: a wake restores something
\* to be seen, whatever was saved, elided or reset on the way (sleepd.c:119-122,
\* 135-140).  Only a light whose command got lost, or was refused so that the
\* cache of the driver shows it (0018:49-53), may stay off.
AwakeIsLit == spc = "read" /\ ~sleeping =>
                 /\ ~blank
                 /\ \A ch \in Channels :
                       /\ brightness[ch] # 0
                       /\ duty[ch] = 0 => \/ ch \in doubt
                                          \/ last_sent[ch] # PwmDuty(brightness[ch])

\* While the panel is dark no key press reaches the console, the one that wakes
\* included, unless the grab was refused or the device went away
\* (sleepd.c:7-8, 12-13).
DarkIsQuiet ==
    [][presses' # presses /\ blank /\ ~denied /\ fd["sleepd"] = "open" => grab # "none"]_vars

----------------------------------------------------------------------------
(* Liveness.                                                               *)

\* Any key wakes the badge, when sleepd has its grab and no queue overflowed.
KeyWakes ==
    (sleeping /\ knock) ~> \/ ~sleeping \/ denied
                           \/ "sleepd" \in lost \/ fd["sleepd"] = "stale"

\* A key that reaches the launcher ends the sensor panel: the child is killed,
\* reaped, and the menu is back; only a queue that overflows first loses it.
KeyEndsSensors ==
    (lpc = "sensors key" /\ Readable("launcher") /\ queue["launcher"][1].value = 1)
        ~> lpc = "key" \/ "launcher" \in lost

\* Any key wakes the badge, without exceptions.
AnyKeyWakes == (sleeping /\ knock) ~> ~sleeping
=============================================================================
