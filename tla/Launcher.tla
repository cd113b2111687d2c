------------------------------ MODULE Launcher ------------------------------
(***************************************************************************)
(* The keypad menu (buildroot/overlay-src/launcher.c).  It draws into a    *)
(* shadow buffer and writes whole frames, keeps the keypad for itself, and *)
(* starts one program at a time; fbdoom gets the keypad and the memory of  *)
(* the shadow.  What a screen shows is abstracted to its name.             *)
(***************************************************************************)
EXTENDS Keypad, Backlight

CONSTANTS
    MaxStarts,    \* bound on starts of the launcher
    MaxRefusals   \* bound on open, mmap and vfork that fail

ASSUME LauncherAssumption ==
    MaxStarts \in Nat /\ MaxRefusals \in Nat

BlSteps == <<76, 150, 255, 25>>

Programs == {"sensorpanel", "fbdoom", "ble_adv"}

VARIABLES
    have_doom,  \* /usr/bin/fbdoom was found at the start
    lpc,        \* where the launcher is
    sel,        \* the selected entry, from 0
    bl_idx,
    shadow,     \* fb: mapped, NULL, or what a failed mmap returns
    child,      \* each program: none, running, dying after SIGTERM, zombie
    ble_pid,    \* ble_adv was started and not reaped
    starts, refusals

laVars == <<have_doom, lpc, sel, bl_idx, shadow, child, ble_pid, starts, refusals>>

\* The menu, in the order it is built.
Entries == IF have_doom
           THEN <<"sensors", "doom", "wifi", "bleadv", "backlight", "quit">>
           ELSE <<"sensors", "wifi", "bleadv", "backlight", "quit">>

Drawing == {"draw menu", "draw wifi", "draw sensors", "draw doom", "clear"}
LpcSet  == Drawing \cup
    {"off", "map", "open", "grab", "key", "wifi key", "spawn sensors", "sensors key",
     "kill sensors", "reap sensors", "unmap", "ungrab doom", "spawn doom", "reap doom",
     "regrab", "remap", "check", "ble", "reap ble", "backlight", "ungrab", "close"}

At(at) == lpc = at
Step(at, next) == At(at) /\ lpc' = next

Refused == refusals < MaxRefusals /\ refusals' = refusals + 1
Granted == UNCHANGED refusals

\* What a step of the launcher leaves alone.
KeepUI   == UNCHANGED <<have_doom, sel, bl_idx>>
KeepProc == UNCHANGED <<child, ble_pid, starts>>
KeepEnv  == UNCHANGED <<kpVars, blVars>>

----------------------------------------------------------------------------
(* Start and end.                                                          *)

\* Run from the shell.  Every check before the menu ends the program.
LaStarts ==
    /\ starts < MaxStarts
    /\ Step("off", "map")
    /\ have_doom' \in BOOLEAN
    /\ starts' = starts + 1
    /\ UNCHANGED <<sel, bl_idx, shadow, child, ble_pid, refusals>> /\ KeepEnv

LaMaps ==
    /\ At("map")
    /\ \/ Granted /\ lpc' = "open" /\ shadow' = "mapped"
       \/ Refused /\ lpc' = "off" /\ UNCHANGED shadow
    /\ KeepUI /\ KeepProc /\ KeepEnv

LaOpens ==
    /\ At("open")
    /\ \/ Opens("launcher") /\ lpc' = "grab" /\ UNCHANGED shadow
       \/ ~plugged /\ lpc' = "off" /\ shadow' = "NULL" /\ UNCHANGED kpVars
    /\ Granted /\ KeepUI /\ KeepProc /\ UNCHANGED blVars

\* A refusal is reported and otherwise ignored.
Grabs(at, next) ==
    /\ Step(at, next)
    /\ SetGrab("launcher")
    /\ UNCHANGED shadow /\ Granted /\ KeepUI /\ KeepProc /\ UNCHANGED blVars

Ungrabs(at, next) ==
    /\ Step(at, next)
    /\ Ungrab("launcher")
    /\ UNCHANGED shadow /\ Granted /\ KeepUI /\ KeepProc /\ UNCHANGED blVars

\* fill_rect, draw_str and blit: nothing but the screen changes.
Draws(at, next) ==
    /\ Step(at, next)
    /\ UNCHANGED shadow /\ Granted /\ KeepUI /\ KeepProc /\ KeepEnv

\* The descriptors go with the process; ble_adv is left to init.
LaExits ==
    /\ Step("close", "off")
    /\ Closes("launcher")
    /\ shadow' = "NULL"
    /\ child' = [child EXCEPT !["ble_adv"] = "none"]
    /\ sel' = 0 /\ bl_idx' = 0 /\ ble_pid' = FALSE
    /\ Granted /\ UNCHANGED <<have_doom, starts>> /\ UNCHANGED blVars

----------------------------------------------------------------------------
(* wait_key and what a key does.                                           *)

Count == Len(Entries)

\* Where an entry leads, and where a key does; the selection wraps around.
Leads == [sensors |-> "draw sensors", doom |-> "draw doom", wifi |-> "draw wifi",
          bleadv |-> "ble", backlight |-> "backlight", quit |-> "ungrab"]
Chosen(k) == CASE k = "esc"   -> "ungrab"
               [] k = "enter" -> Leads[Entries[sel + 1]]
               [] OTHER       -> "draw menu"

\* Mutant: the selection is decremented without the wrap.
MovesBare(k) == CASE k = "up"   -> IF sel = 0 THEN Count ELSE sel - 1
                  [] k = "down" -> (sel + 1) % Count
                  [] OTHER      -> sel

Moves(k) == CASE k = "up"   -> (sel + Count - 1) % Count
              [] k = "down" -> (sel + 1) % Count
              [] OTHER      -> sel

MenuKey ==
    LET e == Head1("launcher") IN
    /\ At("key")
    /\ Reads("launcher")
    /\ IF e.value = 1 THEN sel' = Moves(e.code) /\ lpc' = Chosen(e.code)
                      ELSE UNCHANGED <<sel, lpc>>
    /\ UNCHANGED <<have_doom, bl_idx, shadow>> /\ Granted /\ KeepProc /\ UNCHANGED blVars

\* Any press ends the screen.
ScreenKey(at, next) ==
    /\ At(at)
    /\ Reads("launcher")
    /\ lpc' = IF Head1("launcher").value = 1 THEN next ELSE at
    /\ UNCHANGED shadow /\ Granted /\ KeepUI /\ KeepProc /\ UNCHANGED blVars

\* wait_key returns -1: the menu quits, a screen ends.
KeyGone ==
    /\ fd["launcher"] = "stale"
    /\ \/ Step("key", "ungrab")
       \/ Step("wifi key", "draw menu")
       \/ Step("sensors key", "kill sensors")
    /\ UNCHANGED shadow /\ Granted /\ KeepUI /\ KeepProc /\ KeepEnv

----------------------------------------------------------------------------
(* Children.                                                               *)

\* vfork and execv; a program that cannot be executed is a child that ends.
Spawns(at, prog, next, else) ==
    /\ At(at)
    /\ \/ Granted /\ child' = [child EXCEPT ![prog] = "running"] /\ lpc' = next
       \/ Refused /\ UNCHANGED child /\ lpc' = else
    /\ UNCHANGED <<shadow, ble_pid, starts>> /\ KeepUI /\ KeepEnv

Kills(prog) == child' = [child EXCEPT ![prog] = IF @ = "running" THEN "dying" ELSE @]

\* Mutant: the child is killed and not waited for.
ReapsNot(at, prog, next) ==
    /\ Step(at, next)
    /\ UNCHANGED <<child, shadow, ble_pid, starts>> /\ Granted /\ KeepUI /\ KeepEnv

\* waitpid blocks until the child has ended.
Reaps(at, prog, next) ==
    /\ Step(at, next)
    /\ child[prog] = "zombie"
    /\ child' = [child EXCEPT ![prog] = "none"]
    /\ ble_pid' = (ble_pid /\ prog # "ble_adv")
    /\ UNCHANGED <<shadow, starts>> /\ Granted /\ KeepUI /\ KeepEnv

\* A child ends on its own or after SIGTERM.
ChildEnds(prog) ==
    /\ child[prog] \in {"running", "dying"}
    /\ child' = [child EXCEPT ![prog] = "zombie"]
    /\ UNCHANGED <<have_doom, lpc, sel, bl_idx, shadow, ble_pid, starts, refusals>> /\ KeepEnv

\* Mutant: the child is waited for and not killed.
WaitsOnly ==
    /\ Step("kill sensors", "reap sensors")
    /\ UNCHANGED <<child, shadow, ble_pid, starts>> /\ Granted /\ KeepUI /\ KeepEnv

\* run_sensorpanel
KillSensors ==
    /\ Step("kill sensors", "reap sensors")
    /\ Kills("sensorpanel")
    /\ UNCHANGED <<shadow, ble_pid, starts>> /\ Granted /\ KeepUI /\ KeepEnv

RunSensors ==
    \/ Draws("draw sensors", "spawn sensors")
    \/ Spawns("spawn sensors", "sensorpanel", "sensors key", "draw menu")
    \/ ScreenKey("sensors key", "kill sensors")
    \/ KillSensors
    \/ Reaps("reap sensors", "sensorpanel", "draw menu")

\* run_doom: the shadow and the keypad are given away and taken back.
Unmaps ==
    /\ Step("unmap", "ungrab doom")
    /\ shadow' = "NULL"
    /\ Granted /\ KeepUI /\ KeepProc /\ KeepEnv

\* Mutant: the result of the second mmap is not looked at.
RemapsBlindly ==
    /\ Step("remap", "draw menu")
    /\ \/ Granted /\ shadow' = "mapped"
       \/ Refused /\ shadow' = "failed"
    /\ KeepUI /\ KeepProc /\ KeepEnv

\* Without the shadow the launcher gives up, not by way of its last screen.
Remaps ==
    /\ At("remap")
    /\ \/ Granted /\ shadow' = "mapped" /\ lpc' = "draw menu"
       \/ Refused /\ shadow' = "failed" /\ lpc' = "check"
    /\ KeepUI /\ KeepProc /\ KeepEnv

RunDoom ==
    \/ Draws("draw doom", "unmap")
    \/ Unmaps
    \/ Ungrabs("ungrab doom", "spawn doom")
    \/ Spawns("spawn doom", "fbdoom", "reap doom", "regrab")
    \/ Reaps("reap doom", "fbdoom", "regrab")
    \/ Grabs("regrab", "remap")
    \/ Remaps
    \/ Ungrabs("check", "close")

\* toggle_ble_adv
ToggleBle ==
    \/ /\ ~ble_pid
       /\ At("ble")
       /\ \/ Granted /\ child' = [child EXCEPT !["ble_adv"] = "running"] /\ ble_pid' = TRUE
          \/ Refused /\ UNCHANGED <<child, ble_pid>>
       /\ lpc' = "draw menu"
       /\ UNCHANGED <<shadow, starts>> /\ KeepUI /\ KeepEnv
    \/ /\ ble_pid
       /\ Step("ble", "reap ble")
       /\ Kills("ble_adv")
       /\ UNCHANGED <<shadow, ble_pid, starts>> /\ Granted /\ KeepUI /\ KeepEnv
    \/ Reaps("reap ble", "ble_adv", "draw menu")

\* cycle_backlight
CycleBacklight ==
    /\ Step("backlight", "draw menu")
    /\ bl_idx' = (bl_idx + 1) % Len(BlSteps)
    /\ WriteBrightness("display", BlSteps[bl_idx' + 1])
    /\ UNCHANGED <<have_doom, sel, shadow>> /\ Granted /\ KeepProc /\ UNCHANGED kpVars

\* wifi_screen
WifiScreen == Draws("draw wifi", "wifi key") \/ ScreenKey("wifi key", "draw menu")

LauncherStep ==
    \/ LaMaps \/ LaOpens \/ Grabs("grab", "draw menu")
    \/ Draws("draw menu", "key") \/ MenuKey \/ KeyGone
    \/ RunSensors \/ RunDoom \/ WifiScreen \/ ToggleBle \/ CycleBacklight
    \/ Ungrabs("ungrab", "clear") \/ Draws("clear", "close") \/ LaExits

LauncherInit ==
    /\ have_doom = FALSE
    /\ lpc = "off" /\ sel = 0 /\ bl_idx = 0 /\ shadow = "NULL"
    /\ child = [p \in Programs |-> "none"]
    /\ ble_pid = FALSE /\ starts = 0 /\ refusals = 0

LauncherTypeOK ==
    /\ have_doom \in BOOLEAN
    /\ lpc \in LpcSet
    /\ sel \in 0..(Count - 1) /\ bl_idx \in 0..(Len(BlSteps) - 1)
    /\ shadow \in {"mapped", "NULL", "failed"}
    /\ child \in [Programs -> {"none", "running", "dying", "zombie"}]
    /\ ble_pid \in BOOLEAN
    /\ starts \in 0..MaxStarts /\ refusals \in 0..MaxRefusals

\* Nothing is drawn through a shadow that is not mapped, whatever the pool did
\* while fbdoom had its memory (launcher.c:392-402).
DrawsIntoShadow == lpc \in Drawing => shadow = "mapped"

\* Whoever sees the menu, or the shell after it, has neither sensorpanel nor
\* fbdoom behind it, running or unreaped, and fbdoom never runs beside the
\* other or beside a mapped shadow.
OneProgram ==
    /\ lpc \in {"off", "draw menu", "key", "ungrab", "close"} =>
          child["sensorpanel"] = "none" /\ child["fbdoom"] = "none"
    /\ child["fbdoom"] # "none" => child["sensorpanel"] = "none" /\ shadow = "NULL"

\* The launcher owns the screen: both of the above.
ScreenSafe == DrawsIntoShadow /\ OneProgram
=============================================================================
