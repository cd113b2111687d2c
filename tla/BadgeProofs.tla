----------------------------- MODULE BadgeProofs -----------------------------
(***************************************************************************)
(* The launcher never draws into a shadow it has not and has one program   *)
(* at a time, no key reaches the console of a dark panel, the backlight's  *)
(* cache elides nothing that matters, and all types hold: for every set of *)
(* keys and every bound, whatever sleepd, the keypad and the C6 do.        *)
(***************************************************************************)
EXTENDS Badge, TLAPS

\* Where the shadow is given away, and where it may be anything.
Away    == {"ungrab doom", "spawn doom", "reap doom", "regrab", "remap"}
Outside == {"off", "map", "check", "close"}

ShadowKept ==
    /\ lpc \in Away => shadow = "NULL"
    /\ lpc \in LpcSet \ (Away \cup Outside) => shadow = "mapped"

ChildrenKept ==
    /\ child \in [Programs -> {"none", "running", "dying", "zombie"}]
    /\ child["sensorpanel"] # "none" => lpc \in {"sensors key", "kill sensors", "reap sensors"}
    /\ child["fbdoom"] # "none" => lpc = "reap doom"

Selected ==
    /\ have_doom \in BOOLEAN
    /\ sel \in 0..(Count - 1)
    /\ lpc \in {"off", "map", "open"} => sel = 0

MenuInv == lpc \in LpcSet /\ ShadowKept /\ ChildrenKept /\ Selected

----------------------------------------------------------------------------
(* Lemmas on the menu.                                                     *)

LEMMA CountIs ==
    ASSUME have_doom \in BOOLEAN
    PROVE  Count = IF have_doom THEN 6 ELSE 5
  BY DEF Count, Entries

\* An entry leads to a screen or an action that may draw.
Screens == {"draw sensors", "draw doom", "draw wifi", "ble", "backlight", "ungrab"}

Names == {"sensors", "doom", "wifi", "bleadv", "backlight", "quit"}

LEMMA NameLeads ==
    ASSUME NEW name \in Names
    PROVE  Leads[name] \in Screens
  <1>1. /\ Leads["sensors"] \in Screens /\ Leads["doom"] \in Screens
        /\ Leads["wifi"] \in Screens /\ Leads["bleadv"] \in Screens
        /\ Leads["backlight"] \in Screens /\ Leads["quit"] \in Screens
    BY DEF Leads, Screens
  <1> QED
    BY <1>1 DEF Names

LEMMA EntryLeads ==
    ASSUME have_doom \in BOOLEAN, sel \in 0..(Count - 1)
    PROVE  Leads[Entries[sel + 1]] \in Screens
  <1>1. CASE have_doom
    <2>1. sel + 1 \in {1, 2, 3, 4, 5, 6}
      BY <1>1, CountIs
    <2> DEFINE n == sel + 1
    <2> HIDE DEF n
    <2>2. n \in {1, 2, 3, 4, 5, 6}
      BY <2>1 DEF n
    <2>3. Entries[n] \in Names
      BY <1>1, <2>2 DEF Entries, Names
    <2> QED
      BY <2>3, NameLeads DEF n
  <1>2. CASE ~have_doom
    <2>1. sel + 1 \in {1, 2, 3, 4, 5}
      BY <1>2, CountIs
    <2> DEFINE n == sel + 1
    <2> HIDE DEF n
    <2>2. n \in {1, 2, 3, 4, 5}
      BY <2>1 DEF n
    <2>3. Entries[n] \in Names
      BY <1>2, <2>2 DEF Entries, Names
    <2> QED
      BY <2>3, NameLeads DEF n
  <1> QED
    BY <1>1, <1>2

LEMMA MovesInside ==
    ASSUME have_doom \in BOOLEAN, sel \in 0..(Count - 1), NEW k
    PROVE  Moves(k) \in 0..(Count - 1)
  <1>1. Count \in {5, 6}
    BY CountIs
  <1>2. (sel + Count - 1) % Count \in 0..(Count - 1)
    BY <1>1
  <1>3. (sel + 1) % Count \in 0..(Count - 1)
    BY <1>1
  <1> QED
    BY <1>2, <1>3 DEF Moves

----------------------------------------------------------------------------
(* The steps.                                                              *)

LEMMA CountSame ==
    ASSUME UNCHANGED have_doom
    PROVE  Count' = Count
  BY DEF Count, Entries

LEMMA FirstFits ==
    ASSUME NEW n, n \in {5, 6}
    PROVE  0 \in 0..(n - 1)
  OBVIOUS

LEMMA StartsInv == MenuInv /\ LaStarts => MenuInv'
  <1> SUFFICES ASSUME MenuInv, LaStarts PROVE MenuInv'
    OBVIOUS
  <1>1. lpc = "off" /\ lpc' = "map" /\ have_doom' \in BOOLEAN /\ UNCHANGED <<sel, shadow, child>>
    BY DEF LaStarts, Step, At
  <1>2. sel = 0
    BY <1>1 DEF MenuInv, Selected
  <1>3. Count' \in {5, 6}
    BY <1>1 DEF Count, Entries
  <1>4. Selected'
    <2>1. sel' = 0
      BY <1>1, <1>2
    <2>2. sel' \in 0..(Count' - 1)
      BY <1>3, <2>1, FirstFits
    <2> QED
      BY <1>1, <2>1, <2>2 DEF Selected
  <1>5. ShadowKept' /\ ChildrenKept' /\ lpc' \in LpcSet
    BY <1>1 DEF MenuInv, ShadowKept, ChildrenKept, Away, Outside, LpcSet, Drawing
  <1> QED
    BY <1>4, <1>5 DEF MenuInv

LEMMA BeginsInv == MenuInv /\ (LaMaps \/ LaOpens) => MenuInv'
  <1> SUFFICES ASSUME MenuInv, LaMaps \/ LaOpens PROVE MenuInv'
    OBVIOUS
  <1>1. UNCHANGED <<child, have_doom, sel>>
    BY DEF LaMaps, LaOpens, KeepUI, KeepProc
  <1>2. Count' = Count
    BY <1>1, CountSame
  <1>3. /\ lpc \in {"map", "open"}
        /\ \/ lpc' = "open" /\ shadow' = "mapped"
           \/ lpc' = "grab" /\ lpc = "open" /\ UNCHANGED shadow
           \/ lpc' = "off"
    BY DEF LaMaps, LaOpens, At, Step
  <1>4. Selected'
    BY <1>1, <1>2, <1>3 DEF MenuInv, Selected
  <1>5. ShadowKept' /\ lpc' \in LpcSet
    BY <1>3 DEF MenuInv, ShadowKept, Away, Outside, LpcSet, Drawing
  <1>6. ChildrenKept'
    BY <1>1, <1>3 DEF MenuInv, ChildrenKept
  <1> QED
    BY <1>4, <1>5, <1>6 DEF MenuInv

LEMMA EndsInv == MenuInv /\ LaExits => MenuInv'
  <1> SUFFICES ASSUME MenuInv, LaExits PROVE MenuInv'
    OBVIOUS
  <1>1. /\ lpc = "close" /\ lpc' = "off" /\ sel' = 0 /\ UNCHANGED have_doom
        /\ child' = [child EXCEPT !["ble_adv"] = "none"]
    BY DEF LaExits, Step, At
  <1>2. Count' = Count /\ Count \in {5, 6}
    BY <1>1, CountSame, CountIs DEF MenuInv, Selected
  <1>3. Selected'
    BY <1>1, <1>2 DEF MenuInv, Selected
  <1>4. ShadowKept' /\ lpc' \in LpcSet
    BY <1>1 DEF ShadowKept, Away, Outside, LpcSet, Drawing
  <1>5. ChildrenKept'
    BY <1>1 DEF MenuInv, ChildrenKept, Programs
  <1> QED
    BY <1>3, <1>4, <1>5 DEF MenuInv

LEMMA KeyInv == MenuInv /\ MenuKey => MenuInv'
  <1> SUFFICES ASSUME MenuInv, MenuKey PROVE MenuInv'
    OBVIOUS
  <1> DEFINE e == Head1("launcher")
  <1>1. lpc = "key" /\ UNCHANGED <<have_doom, shadow, child>>
    BY DEF MenuKey, At, KeepProc
  <1>2. \/ sel' = Moves(e.code) /\ lpc' = Chosen(e.code)
        \/ UNCHANGED <<sel, lpc>>
    BY DEF MenuKey
  <1> HIDE DEF e
  <1>3. Count' = Count
    BY <1>1, CountSame
  <1>4. sel' \in 0..(Count - 1)
    BY <1>2, MovesInside DEF MenuInv, Selected
  <1>5. lpc' \in Screens \cup {"draw menu", "key"}
    BY <1>1, <1>2, EntryLeads DEF MenuInv, Selected, Chosen, Screens
  <1>6. ShadowKept' /\ lpc' \in LpcSet
    BY <1>1, <1>5 DEF MenuInv, ShadowKept, Away, Outside, Screens, LpcSet, Drawing
  <1>7. ChildrenKept'
    BY <1>1, <1>5 DEF MenuInv, ChildrenKept, Screens
  <1>8. Selected'
    BY <1>1, <1>3, <1>4, <1>5 DEF MenuInv, Selected, Screens
  <1> QED
    BY <1>6, <1>7, <1>8 DEF MenuInv

\* The menu once it runs: the selection does not change.
LEMMA GoesInv ==
    ASSUME MenuInv, UNCHANGED <<have_doom, sel>>,
           lpc' \in LpcSet, lpc' \notin {"off", "map", "open"},
           ShadowKept', ChildrenKept'
    PROVE  MenuInv'
  <1>1. Count' = Count
    BY CountSame
  <1>2. Selected'
    BY <1>1 DEF MenuInv, Selected
  <1> QED
    BY <1>2 DEF MenuInv

LEMMA SensorsInv == MenuInv /\ RunSensors => MenuInv'
  <1> SUFFICES ASSUME MenuInv, RunSensors PROVE MenuInv'
    OBVIOUS
  <1> USE DEF At, Step
  <1>1. UNCHANGED <<have_doom, sel, shadow>>
    BY DEF RunSensors, Draws, Spawns, ScreenKey, KillSensors, Reaps, KeepUI
  <1>2. lpc \in {"draw sensors", "spawn sensors", "sensors key", "kill sensors", "reap sensors"}
    BY DEF RunSensors, Draws, Spawns, ScreenKey, KillSensors, Reaps
  <1>3. lpc' \in {"spawn sensors", "sensors key", "kill sensors", "reap sensors", "draw menu"}
    BY DEF RunSensors, Draws, Spawns, ScreenKey, KillSensors, Reaps
  <1>4. ShadowKept' /\ lpc' \in LpcSet
    BY <1>1, <1>2, <1>3 DEF MenuInv, ShadowKept, Away, Outside, LpcSet, Drawing
  <1>5. ChildrenKept'
    <2> USE DEF MenuInv, ChildrenKept, Programs
    <2>1. CASE Draws("draw sensors", "spawn sensors")
      BY <2>1 DEF Draws, KeepProc
    <2>2. CASE Spawns("spawn sensors", "sensorpanel", "sensors key", "draw menu")
      BY <2>2 DEF Spawns
    <2>3. CASE ScreenKey("sensors key", "kill sensors")
      BY <2>3, <1>2 DEF ScreenKey, KeepProc
    <2>4. CASE KillSensors
      BY <2>4 DEF KillSensors, Kills
    <2>5. CASE Reaps("reap sensors", "sensorpanel", "draw menu")
      BY <2>5 DEF Reaps
    <2> QED
      BY <2>1, <2>2, <2>3, <2>4, <2>5 DEF RunSensors
  <1> QED
    BY <1>1, <1>3, <1>4, <1>5, GoesInv

LEMMA DoomInv == MenuInv /\ RunDoom => MenuInv'
  <1> SUFFICES ASSUME MenuInv, RunDoom PROVE MenuInv'
    OBVIOUS
  <1> USE DEF At, Step
  <1>1. UNCHANGED <<have_doom, sel>>
    BY DEF RunDoom, Draws, Unmaps, Ungrabs, Spawns, Reaps, Grabs, Remaps, KeepUI
  <1>2. lpc' \in Away \cup {"unmap", "draw menu", "check", "close"}
    BY DEF RunDoom, Draws, Unmaps, Ungrabs, Spawns, Reaps, Grabs, Remaps, Away
  <1>3. ShadowKept' /\ ChildrenKept'
    <2> USE DEF MenuInv, ShadowKept, ChildrenKept, Away, Outside, LpcSet, Drawing, Programs
    <2>1. CASE Draws("draw doom", "unmap")
      BY <2>1 DEF Draws, KeepProc
    <2>2. CASE Unmaps
      BY <2>2 DEF Unmaps, KeepProc
    <2>3. CASE Ungrabs("ungrab doom", "spawn doom")
      BY <2>3 DEF Ungrabs, KeepProc
    <2>4. CASE Spawns("spawn doom", "fbdoom", "reap doom", "regrab")
      BY <2>4 DEF Spawns
    <2>5. CASE Reaps("reap doom", "fbdoom", "regrab")
      BY <2>5 DEF Reaps
    <2>6. CASE Grabs("regrab", "remap")
      BY <2>6 DEF Grabs, KeepProc
    <2>7. CASE Remaps
      BY <2>7 DEF Remaps, KeepProc
    <2>8. CASE Ungrabs("check", "close")
      BY <2>8 DEF Ungrabs, KeepProc
    <2> QED
      BY <2>1, <2>2, <2>3, <2>4, <2>5, <2>6, <2>7, <2>8 DEF RunDoom
  <1>4. lpc' \in LpcSet /\ lpc' \notin {"off", "map", "open"}
    BY <1>2 DEF Away, LpcSet, Drawing
  <1> QED
    BY <1>1, <1>3, <1>4, GoesInv

LEMMA BleInv == MenuInv /\ ToggleBle => MenuInv'
  <1> SUFFICES ASSUME MenuInv, ToggleBle PROVE MenuInv'
    OBVIOUS
  <1> USE DEF At, Step
  <1>1. UNCHANGED <<have_doom, sel, shadow>> /\ lpc \in {"ble", "reap ble"} /\ lpc' \in {"draw menu", "reap ble"}
    BY DEF ToggleBle, Reaps, KeepUI
  <1>2. ShadowKept' /\ lpc' \in LpcSet
    BY <1>1 DEF MenuInv, ShadowKept, Away, Outside, LpcSet, Drawing
  <1>3. \/ child' = [child EXCEPT !["ble_adv"] = "running"]
        \/ child' = [child EXCEPT !["ble_adv"] = IF @ = "running" THEN "dying" ELSE @]
        \/ child' = [child EXCEPT !["ble_adv"] = "none"]
        \/ UNCHANGED child
    BY DEF ToggleBle, Kills, Reaps
  <1>4. ChildrenKept'
    BY <1>1, <1>3 DEF MenuInv, ChildrenKept, Programs
  <1> QED
    BY <1>1, <1>2, <1>4, GoesInv

\* The other steps neither take nor give the shadow nor touch a child.
Plain ==
    \/ Grabs("grab", "draw menu") \/ Draws("draw menu", "key")
    \/ WifiScreen \/ CycleBacklight
    \/ Ungrabs("ungrab", "clear") \/ Draws("clear", "close")

LEMMA PlainInv == MenuInv /\ Plain => MenuInv'
  <1> SUFFICES ASSUME MenuInv, Plain PROVE MenuInv'
    OBVIOUS
  <1> USE DEF At, Step, Plain, WifiScreen
  <1>1. UNCHANGED <<have_doom, sel, shadow, child>>
    BY DEF Grabs, Draws, ScreenKey, CycleBacklight, Ungrabs, KeepUI, KeepProc
  <1>2. /\ lpc \in {"grab", "draw menu", "draw wifi", "wifi key", "backlight", "ungrab", "clear"}
        /\ lpc' \in {"draw menu", "key", "wifi key", "clear", "close"}
    BY DEF Grabs, Draws, ScreenKey, CycleBacklight, Ungrabs
  <1>3. ShadowKept' /\ lpc' \in LpcSet
    BY <1>1, <1>2 DEF MenuInv, ShadowKept, Away, Outside, LpcSet, Drawing
  <1>4. ChildrenKept'
    BY <1>1, <1>2 DEF MenuInv, ChildrenKept
  <1> QED
    BY <1>1, <1>2, <1>3, <1>4, GoesInv

LEMMA GoneInv == MenuInv /\ KeyGone => MenuInv'
  <1> SUFFICES ASSUME MenuInv, KeyGone PROVE MenuInv'
    OBVIOUS
  <1>1. UNCHANGED <<have_doom, sel, shadow, child>>
    BY DEF KeyGone, KeepUI, KeepProc
  <1>2. \/ lpc = "key" /\ lpc' = "ungrab"
        \/ lpc = "wifi key" /\ lpc' = "draw menu"
        \/ lpc = "sensors key" /\ lpc' = "kill sensors"
    BY DEF KeyGone, At, Step
  <1>3. ShadowKept' /\ lpc' \in LpcSet
    BY <1>1, <1>2 DEF MenuInv, ShadowKept, Away, Outside, LpcSet, Drawing
  <1>4. ChildrenKept'
    BY <1>1, <1>2 DEF MenuInv, ChildrenKept
  <1> QED
    BY <1>1, <1>2, <1>3, <1>4, GoesInv

LEMMA ChildEndsInv ==
    ASSUME MenuInv, NEW p \in Programs, ChildEnds(p)
    PROVE  MenuInv'
  <1>1. UNCHANGED <<have_doom, sel, shadow, lpc>> /\ child[p] # "none"
        /\ child' = [child EXCEPT ![p] = "zombie"]
    BY DEF ChildEnds
  <1>2. ChildrenKept'
    BY <1>1 DEF MenuInv, ChildrenKept, Programs
  <1>3. ShadowKept' /\ Selected'
    BY <1>1, CountSame DEF MenuInv, ShadowKept, Selected
  <1> QED
    BY <1>1, <1>2, <1>3 DEF MenuInv

LEMMA MenuInductive == MenuInv /\ [Next]_vars => MenuInv'
  <1> SUFFICES ASSUME MenuInv, [Next]_vars PROVE MenuInv'
    OBVIOUS
  <1>1. CASE UNCHANGED laVars
    BY <1>1, CountSame DEF laVars, MenuInv, ShadowKept, ChildrenKept, Selected
  <1>2. CASE LauncherStep
    BY <1>2, BeginsInv, PlainInv, KeyInv, GoneInv, SensorsInv, DoomInv, BleInv, EndsInv
       DEF LauncherStep, Plain
  <1>3. CASE LaStarts
    BY <1>3, StartsInv
  <1>4. CASE \E p \in Programs : ChildEnds(p)
    BY <1>4, ChildEndsInv
  <1> QED
    BY <1>1, <1>2, <1>3, <1>4
       DEF Next, vars, TheUser, TheSleepd, TheLauncher, TheShell, TheChildren, TheKernel, TheC6

LEMMA MenuInit == Init => MenuInv
  <1> SUFFICES ASSUME Init PROVE MenuInv
    OBVIOUS
  <1>1. /\ have_doom = FALSE /\ lpc = "off" /\ sel = 0 /\ shadow = "NULL"
        /\ child = [p \in Programs |-> "none"]
    BY DEF Init, LauncherInit
  <1>2. Count = 5
    BY <1>1, CountIs
  <1>3. sel \in 0..(Count - 1)
    BY <1>1, <1>2, FirstFits
  <1>4. Selected
    BY <1>1, <1>3 DEF Selected
  <1> QED
    BY <1>1, <1>4 DEF MenuInv, ShadowKept, ChildrenKept, Away, Outside, LpcSet, Drawing, Programs

----------------------------------------------------------------------------
(* Theorems.                                                               *)

\* Nothing is drawn through a shadow that is not mapped (launcher.c:392-402),
\* whoever sees the menu or the shell has no program behind it, and fbdoom has
\* the memory to itself (launcher.c:358-403), for every bound on refusals,
\* unplugs, faults and keys.
THEOREM ScreenOwned == Spec => []ScreenSafe
  <1>1. MenuInv => DrawsIntoShadow
    BY DEF MenuInv, ShadowKept, DrawsIntoShadow, Drawing, LpcSet, Away, Outside
  <1>2. MenuInv => OneProgram
    BY DEF MenuInv, ShadowKept, ChildrenKept, OneProgram, Away
  <1>3. MenuInv => ScreenSafe
    BY <1>1, <1>2 DEF ScreenSafe
  <1> QED
    BY <1>3, MenuInit, MenuInductive, PTL DEF Spec

----------------------------------------------------------------------------
(* The grab.  From the moment sleepd asked for it until the badge is awake *)
(* again it holds the keypad, unless it knows that it does not.            *)

Dimmed == sleeping \/ spc \in {"dim display", "dim kbd", "blank"}

GrabKept ==
    /\ sleeping \in BOOLEAN /\ denied \in BOOLEAN /\ blank \in BOOLEAN
    /\ fd \in [Clients -> {"closed", "open", "stale"}]
    /\ Dimmed /\ ~denied /\ fd["sleepd"] = "open" => grab = "sleepd"
    /\ blank => sleeping /\ spc \in {"read", "open", "unblank"}
    /\ spc = "open" /\ sleeping => denied

\* What the launcher does to the keypad leaves the descriptor and the grab of
\* sleepd alone.
LEMMA LauncherKeeps ==
    ASSUME GrabKept, LauncherStep
    PROVE  /\ fd' \in [Clients -> {"closed", "open", "stale"}]
           /\ fd'["sleepd"] = fd["sleepd"]
           /\ grab = "sleepd" => grab' = "sleepd"
           /\ UNCHANGED blank
  <1>1. \/ UNCHANGED kpVars \/ Opens("launcher") \/ Closes("launcher")
        \/ Reads("launcher") \/ SetGrab("launcher") \/ Ungrab("launcher")
    BY DEF LauncherStep, LaMaps, LaOpens, Grabs, Draws, MenuKey, KeyGone, RunSensors, Spawns,
           ScreenKey, KillSensors, Reaps, RunDoom, Unmaps, Ungrabs, Remaps, WifiScreen,
           ToggleBle, CycleBacklight, LaExits, KeepEnv
  <1>2. UNCHANGED blank
    BY DEF LauncherStep, LaMaps, LaOpens, Grabs, Draws, MenuKey, KeyGone, RunSensors, Spawns,
           ScreenKey, KillSensors, Reaps, RunDoom, Unmaps, Ungrabs, Remaps, WifiScreen,
           ToggleBle, CycleBacklight, WriteBrightness, LaExits, KeepEnv, blVars
  <1>3. /\ fd' \in [Clients -> {"closed", "open", "stale"}]
        /\ fd'["sleepd"] = fd["sleepd"]
        /\ grab = "sleepd" => grab' = "sleepd"
    BY <1>1 DEF GrabKept, kpVars, Opens, Closes, Reads, SetGrab, GrabWorks, Ungrab, Clients
  <1> QED
    BY <1>2, <1>3

LEMMA GrabSame ==
    ASSUME GrabKept, spc' = spc, sleeping' = sleeping, denied' = denied, blank' = blank,
           fd' \in [Clients -> {"closed", "open", "stale"}],
           fd'["sleepd"] = "open" => fd["sleepd"] = "open" /\ (grab = "sleepd" => grab' = "sleepd")
    PROVE  GrabKept'
  BY DEF GrabKept, Dimmed

LEMMA GrabInductive == GrabKept /\ [Next]_vars => GrabKept'
  <1> SUFFICES ASSUME GrabKept, [Next]_vars PROVE GrabKept'
    OBVIOUS
  <1>1. CASE LauncherStep /\ UNCHANGED <<sdVars, knock>>
    BY <1>1, LauncherKeeps, GrabSame DEF sdVars
  <1>2. CASE SleepdNext
    <2> USE DEF GrabKept, Dimmed, Goto, Clients
    <2>1. CASE SdOpens
      BY <2>1 DEF SdOpens, Opens, blVars
    <2>2. CASE SdReopens
      BY <2>2 DEF SdReopens, Closes, blVars
    <2>3. CASE SdReads
      BY <2>3 DEF SdReads, Reads, blVars
    <2>4. CASE \/ Saves("display", "save display", "save kbd")
               \/ Saves("kbd", "save kbd", "grab")
      <3>1. UNCHANGED <<sleeping, denied, fd, grab, blank>>
        BY <2>4 DEF Saves, kpVars, blVars
      <3>2. spc \in {"save display", "save kbd"} /\ spc' \in {"save kbd", "grab"}
        BY <2>4 DEF Saves
      <3> QED
        BY <3>1, <3>2
    <2>5. CASE SdGrabs
      BY <2>5 DEF SdGrabs, SetGrab, GrabWorks, blVars
    <2>6. CASE \/ Writes("display", 0, "dim display", "dim kbd")
               \/ Writes("kbd", 0, "dim kbd", "blank")
               \/ Writes("display", saved["display"], "light display", "light kbd")
               \/ Writes("kbd", saved["kbd"], "light kbd", "ungrab")
      <3>1. UNCHANGED <<sleeping, denied, fd, grab, blank>>
        BY <2>6 DEF Writes, WriteBrightness, kpVars
      <3>2. \/ spc = "dim display" /\ spc' = "dim kbd"
            \/ spc = "dim kbd" /\ spc' = "blank"
            \/ spc = "light display" /\ spc' = "light kbd"
            \/ spc = "light kbd" /\ spc' = "ungrab"
        BY <2>6 DEF Writes
      <3> QED
        BY <3>1, <3>2
    <2>7. CASE SdBlanks
      BY <2>7 DEF SdBlanks, WriteBlank, kpVars
    <2>8. CASE SdUnblanks
      BY <2>8 DEF SdUnblanks, WriteBlank, kpVars
    <2>9. CASE SdUngrabs
      BY <2>9 DEF SdUngrabs, Ungrab, blVars
    <2> QED
      BY <1>2, <2>1, <2>2, <2>3, <2>4, <2>5, <2>6, <2>7, <2>8, <2>9
         DEF SleepdNext, FallsAsleep, WakesUp
  <1>3. CASE TheUser
    BY <1>3, GrabSame DEF TheUser, Press, ReleaseFn, GrabKept, sdVars, blVars
  <1>4. CASE TheKernel
    BY <1>4, GrabSame DEF TheKernel, Unplug, Replug, GrabKept, Clients, sdVars, blVars
  <1>5. CASE TheC6
    BY <1>5, GrabSame DEF TheC6, BlProbe, C6Boots, GrabKept, kpVars, sdVars
  <1>6. CASE TheShell \/ TheChildren(Programs) \/ UNCHANGED vars
    <2>1. UNCHANGED <<kpVars, blVars, sdVars>>
      BY <1>6 DEF TheShell, LaStarts, TheChildren, ChildEnds, KeepEnv, vars
    <2> QED
      BY <2>1, GrabSame DEF GrabKept, kpVars, blVars, sdVars
  <1> QED
    BY <1>1, <1>2, <1>3, <1>4, <1>5, <1>6 DEF Next, TheSleepd, TheLauncher

LEMMA GrabInit == Init => GrabKept
  <1> SUFFICES ASSUME Init PROVE GrabKept
    OBVIOUS
  <1> QED
    BY DEF Init, KpInit, BlInit, SleepdInit, GrabKept, Dimmed, Clients

\* While the panel is dark no press reaches the console (sleepd.c:7-13).
THEOREM DarkSafe == Spec => DarkIsQuiet
  <1> DEFINE A == presses' # presses /\ blank /\ ~denied /\ fd["sleepd"] = "open" => grab # "none"
  <1>1. Init => GrabKept
    BY GrabInit
  <1>2. GrabKept => A
    BY DEF GrabKept, Dimmed
  <1>3. GrabKept /\ [Next]_vars => [A]_vars
    BY <1>2
  <1>4. Spec => [][A]_vars
    BY <1>1, <1>3, GrabInductive, PTL DEF Spec
  <1> QED
    BY <1>4 DEF DarkIsQuiet

----------------------------------------------------------------------------
(* The light.  What sleepd saved is never 0, and neither is what the menu  *)
(* writes.                                                                 *)

LightTypes ==
    /\ ready \in BOOLEAN
    /\ brightness \in [Channels -> Levels]
    /\ last_sent \in [Channels -> Duties] /\ duty \in [Channels -> Duties]

Lit(ch) == brightness[ch] # 0

LightKept ==
    /\ saved \in [Channels -> Levels \ {0}]
    /\ bl_idx \in 0..3
    /\ ~ready => Lit("display") /\ Lit("kbd")
    /\ spc \in {"open", "read", "save display", "save kbd", "grab", "dim display"} /\ ~sleeping
          => Lit("display") /\ Lit("kbd")
    /\ spc = "light kbd" => Lit("display")
    /\ spc = "ungrab" => Lit("display") /\ Lit("kbd")

LEMMA BootLit == /\ BootDuty \in [Channels -> Levels \ {0}]
                 /\ BootDuty \in [Channels -> Levels] /\ BootDuty \in [Channels -> Duties]
                 /\ [ch \in Channels |-> PwmDuty(BootDuty[ch])] \in [Channels -> Duties]
  BY DEF BootDuty, Levels, Duties

\* The two divisions lose the last unit of a brightness and never all of it.
LEMMA PwmLit == /\ \A b \in Levels : PwmDuty(b) \in Duties
                /\ \A b \in Levels \ {0} : PwmDuty(b) # 0
  <1>1. \A b \in Levels : PwmDuty(b) \in Duties
    BY DEF Duties
  <1>2. PwmDuty(25) = 24 /\ PwmDuty(76) = 75 /\ PwmDuty(150) = 149 /\ PwmDuty(255) = 255
    BY DEF PwmDuty, Period, MaxDuty
  <1> QED
    BY <1>1, <1>2 DEF Levels

LEMMA ShownLit ==
    ASSUME LightTypes, NEW ch \in Channels
    PROVE  Shown(ch) \in Levels \ {0}
  BY BootLit DEF LightTypes, Shown

LEMMA SendKeeps ==
    ASSUME LightTypes, CacheTrue, NEW want \in [Channels -> Duties], Apply(want)
    PROVE  /\ last_sent' \in [Channels -> Duties] /\ duty' \in [Channels -> Duties]
           /\ CacheTrue'
  <1>1. PICK fate \in [Channels -> Fates] : Send(want, fate)
    BY DEF Apply
  <1>2. \A ch \in Channels :
            /\ last_sent'[ch] = IF fate[ch] \in {"carried", "lost"} THEN want[ch] ELSE last_sent[ch]
            /\ duty'[ch] = IF fate[ch] = "carried" THEN want[ch] ELSE duty[ch]
            /\ ch \in doubt' <=> fate[ch] = "lost" \/ (fate[ch] # "carried" /\ ch \in doubt)
    BY <1>1 DEF Send
  <1>3. last_sent' \in [Channels -> Duties] /\ duty' \in [Channels -> Duties]
    BY <1>1 DEF Send, LightTypes
  <1>4. ASSUME NEW ch \in Channels, ch \notin doubt' PROVE last_sent'[ch] = duty'[ch]
    <2>1. CASE fate[ch] = "carried"
      BY <1>2, <2>1
    <2>2. CASE fate[ch] # "carried"
      <3>1. fate[ch] # "lost" /\ ch \notin doubt
        BY <1>2, <1>4, <2>2
      <3> QED
        BY <1>2, <2>2, <3>1 DEF CacheTrue
    <2> QED
      BY <2>1, <2>2
  <1> QED
    BY <1>3, <1>4 DEF CacheTrue

LEMMA WriteKeeps ==
    ASSUME LightTypes, CacheTrue, NEW ch \in Channels, NEW v \in Levels, WriteBrightness(ch, v)
    PROVE  /\ LightTypes' /\ CacheTrue' /\ UNCHANGED ready
           /\ \A c \in Channels : c # ch => brightness'[c] = brightness[c]
           /\ ready => brightness'[ch] = v
           /\ ~ready => UNCHANGED brightness
  <1>1. CASE ready
    <2> DEFINE want == [last_sent EXCEPT ![ch] = PwmDuty(v)]
    <2>1. brightness' = [brightness EXCEPT ![ch] = v] /\ Apply(want) /\ UNCHANGED ready
      BY <1>1 DEF WriteBrightness
    <2>2. want \in [Channels -> Duties]
      BY PwmLit DEF LightTypes
    <2>3. last_sent' \in [Channels -> Duties] /\ duty' \in [Channels -> Duties] /\ CacheTrue'
      BY <2>1, <2>2, SendKeeps
    <2> QED
      BY <1>1, <2>1, <2>3 DEF LightTypes
  <1>2. CASE ~ready
    <2>1. UNCHANGED <<ready, brightness, last_sent, duty, doubt>>
      BY <1>2 DEF WriteBrightness
    <2> QED
      BY <1>2, <2>1 DEF LightTypes, CacheTrue
  <1> QED
    BY <1>1, <1>2

LEMMA FourSteps ==
    ASSUME NEW x, x \in 0..3
    PROVE  x + 1 \in {1, 2, 3, 4}
  OBVIOUS

LEMMA StepLit ==
    ASSUME LightKept, CycleBacklight
    PROVE  BlSteps[bl_idx' + 1] \in Levels \ {0} /\ bl_idx' \in 0..3
  <1>1. Len(BlSteps) = 4
    BY DEF BlSteps
  <1>2. bl_idx' = (bl_idx + 1) % 4 /\ bl_idx \in 0..3
    BY <1>1 DEF CycleBacklight, LightKept
  <1>3. bl_idx' \in 0..3
    BY ONLY <1>2
  <1> DEFINE n == bl_idx' + 1
  <1> HIDE DEF n
  <1>4. n \in {1, 2, 3, 4}
    BY <1>3, FourSteps DEF n
  <1>5. BlSteps[n] \in Levels \ {0}
    BY ONLY <1>4 DEF BlSteps, Levels
  <1> QED
    BY <1>3, <1>5 DEF n

\* Every write is of one of the levels.
LEMMA CacheInductive == LightTypes /\ CacheTrue /\ LightKept /\ [Next]_vars => LightTypes' /\ CacheTrue'
  <1> SUFFICES ASSUME LightTypes, CacheTrue, LightKept, [Next]_vars PROVE LightTypes' /\ CacheTrue'
    OBVIOUS
  <1> "display" \in Channels /\ "kbd" \in Channels
    BY DEF Channels
  <1>1. CASE UNCHANGED <<ready, brightness, last_sent, duty, doubt>>
    BY <1>1 DEF LightTypes, CacheTrue
  <1>2. CASE BlProbe
    <2>1. /\ ready' = TRUE /\ brightness' = BootDuty
          /\ Apply([ch \in Channels |-> PwmDuty(BootDuty[ch])])
      BY <1>2 DEF BlProbe
    <2> QED
      BY <2>1, BootLit, SendKeeps DEF LightTypes
  <1>3. CASE C6Boots
    BY <1>3, BootLit DEF C6Boots, LightTypes, CacheTrue
  <1>4. CASE CycleBacklight
    <2>1. BlSteps[bl_idx' + 1] \in Levels
      BY <1>4, StepLit
    <2> QED
      BY <1>4, <2>1, WriteKeeps DEF CycleBacklight
  <1>5. ASSUME NEW ch \in Channels, NEW v \in Levels, WriteBrightness(ch, v)
        PROVE  LightTypes' /\ CacheTrue'
    BY <1>5, WriteKeeps
  <1>6. saved["display"] \in Levels /\ saved["kbd"] \in Levels /\ 0 \in Levels
    BY DEF LightKept, Levels
  <1>7. CASE SleepdNext
    BY <1>1, <1>5, <1>6, <1>7
       DEF SleepdNext, SdOpens, SdReopens, SdReads, FallsAsleep, WakesUp, Saves, SdGrabs, Writes,
           SdBlanks, SdUnblanks, SdUngrabs, WriteBlank, blVars
  <1>8. CASE LauncherStep /\ ~CycleBacklight
    <2>1. UNCHANGED blVars
      BY <1>8 DEF LauncherStep, LaMaps, LaOpens, Grabs, Draws, MenuKey, KeyGone, RunSensors, Spawns,
           ScreenKey, KillSensors, Reaps, RunDoom, Unmaps, Ungrabs, Remaps, WifiScreen,
           ToggleBle, LaExits, KeepEnv
    <2> QED
      BY <2>1, <1>1 DEF blVars
  <1> QED
    BY <1>1, <1>2, <1>3, <1>4, <1>7, <1>8
       DEF Next, vars, TheUser, TheSleepd, TheLauncher, TheShell, TheChildren, TheKernel, TheC6,
           LaStarts, ChildEnds, KeepEnv, blVars

LEMMA LightInductive == LightTypes /\ CacheTrue /\ LightKept /\ [Next]_vars => LightKept'
  <1> SUFFICES ASSUME LightTypes, CacheTrue, LightKept, [Next]_vars PROVE LightKept'
    OBVIOUS
  <1> "display" \in Channels /\ "kbd" \in Channels /\ "display" # "kbd"
    BY DEF Channels
  <1>1. CASE SleepdNext /\ UNCHANGED bl_idx
    <2> USE DEF LightKept, Lit, Goto
    <2>1. CASE \/ SdOpens \/ SdReopens \/ SdReads \/ SdGrabs
      <3>1. UNCHANGED <<ready, brightness, saved, sleeping>>
        BY <2>1 DEF SdOpens, SdReopens, SdReads, SdGrabs, blVars
      <3>2. \/ spc = "open" /\ spc' = "read"
            \/ spc = "read" /\ spc' \in {"open", "read"}
            \/ spc = "read" /\ sleeping /\ spc' = "unblank"
            \/ spc = "read" /\ ~sleeping /\ spc' = "save display"
            \/ spc = "grab" /\ spc' = "dim display"
        BY <2>1 DEF SdOpens, SdReopens, SdReads, SdGrabs
      <3> QED
        BY <1>1, <3>1, <3>2
    <2>2. CASE \/ Saves("display", "save display", "save kbd")
               \/ Saves("kbd", "save kbd", "grab")
      <3>1. UNCHANGED <<ready, brightness, sleeping>>
        BY <2>2 DEF Saves, blVars
      <3>2. \/ spc = "save display" /\ spc' = "save kbd"
            \/ spc = "save kbd" /\ spc' = "grab"
        BY <2>2 DEF Saves
      <3>3. saved' \in [Channels -> Levels \ {0}]
        BY <2>2, ShownLit DEF Saves
      <3> QED
        BY <1>1, <3>1, <3>2, <3>3
    <2>3. CASE \/ Writes("display", 0, "dim display", "dim kbd")
               \/ Writes("kbd", 0, "dim kbd", "blank")
      <3>1. \/ WriteBrightness("display", 0) /\ spc' = "dim kbd"
            \/ WriteBrightness("kbd", 0) /\ spc' = "blank"
        BY <2>3 DEF Writes
      <3>2. UNCHANGED ready /\ (~ready => UNCHANGED brightness)
        <4>1. 0 \in Levels
          BY DEF Levels
        <4> QED
          BY <3>1, <4>1, WriteKeeps
      <3>3. UNCHANGED <<saved, sleeping>>
        BY <2>3 DEF Writes
      <3> QED
        BY <1>1, <3>1, <3>2, <3>3
    <2>4. CASE Writes("display", saved["display"], "light display", "light kbd")
      <3>1. WriteBrightness("display", saved["display"]) /\ spc' = "light kbd" /\ UNCHANGED <<saved, sleeping>>
        BY <2>4 DEF Writes
      <3>2. saved["display"] \in Levels \ {0}
        OBVIOUS
      <3>3. UNCHANGED ready /\ (~ready => UNCHANGED brightness) /\ (ready => brightness'["display"] = saved["display"])
        BY <3>1, <3>2, WriteKeeps
      <3> QED
        BY <1>1, <3>1, <3>2, <3>3
    <2>5. CASE Writes("kbd", saved["kbd"], "light kbd", "ungrab")
      <3>1. /\ WriteBrightness("kbd", saved["kbd"]) /\ UNCHANGED <<saved, sleeping>>
            /\ spc = "light kbd" /\ spc' = "ungrab"
        BY <2>5 DEF Writes
      <3>2. saved["kbd"] \in Levels \ {0}
        OBVIOUS
      <3>3. UNCHANGED ready /\ (~ready => UNCHANGED brightness) /\ (ready => brightness'["kbd"] = saved["kbd"])
            /\ brightness'["display"] = brightness["display"]
        BY <3>1, <3>2, WriteKeeps
      <3> QED
        BY <1>1, <3>1, <3>2, <3>3
    <2>6. CASE SdBlanks \/ SdUnblanks
      <3>1. UNCHANGED <<ready, brightness, saved>>
        BY <2>6 DEF SdBlanks, SdUnblanks, WriteBlank
      <3>2. \/ spc' = "read" /\ sleeping' = TRUE
            \/ spc' = "light display"
        BY <2>6 DEF SdBlanks, SdUnblanks
      <3> QED
        BY <1>1, <3>1, <3>2
    <2>7. CASE SdUngrabs
      <3>1. UNCHANGED <<ready, brightness, saved>> /\ spc = "ungrab" /\ spc' = "read"
        BY <2>7 DEF SdUngrabs, blVars
      <3> QED
        BY <1>1, <3>1
    <2> QED
      BY <1>1, <2>1, <2>2, <2>3, <2>4, <2>5, <2>6, <2>7 DEF SleepdNext, FallsAsleep, WakesUp
  <1>2. CASE CycleBacklight /\ UNCHANGED sdVars
    <2>1. BlSteps[bl_idx' + 1] \in Levels \ {0} /\ bl_idx' \in 0..3
      BY <1>2, StepLit
    <2>2. UNCHANGED <<spc, saved, sleeping>> /\ WriteBrightness("display", BlSteps[bl_idx' + 1])
      BY <1>2 DEF CycleBacklight, sdVars
    <2>3. /\ UNCHANGED ready /\ brightness'["kbd"] = brightness["kbd"]
          /\ brightness'["display"] \in {brightness["display"], BlSteps[bl_idx' + 1]}
      BY <2>1, <2>2, WriteKeeps DEF LightTypes
    <2>4. Lit("display") => Lit("display")'
      BY <2>1, <2>3 DEF Lit
    <2> QED
      BY <2>1, <2>2, <2>3, <2>4 DEF LightKept, Lit
  <1>3. CASE TheC6
    <2>1. UNCHANGED <<spc, saved, sleeping, bl_idx>>
      BY <1>3 DEF TheC6, sdVars, laVars
    <2>2. CASE BlProbe
      <3>1. brightness' = BootDuty
        BY <2>2 DEF BlProbe
      <3>2. brightness'["display"] # 0 /\ brightness'["kbd"] # 0
        BY <3>1, BootLit
      <3> QED
        BY <2>1, <3>2 DEF LightKept, Lit
    <2>3. CASE C6Boots
      <3>1. UNCHANGED <<ready, brightness>>
        BY <2>3 DEF C6Boots
      <3> QED
        BY <2>1, <3>1 DEF LightKept, Lit
    <2> QED
      BY <1>3, <2>2, <2>3 DEF TheC6
  <1>4. ASSUME UNCHANGED <<blVars, sdVars>>, bl_idx' \in 0..3
        PROVE  LightKept'
    BY <1>4 DEF LightKept, Lit, blVars, sdVars
  <1>5. CASE LauncherStep /\ ~CycleBacklight /\ UNCHANGED sdVars
    <2>1. UNCHANGED blVars /\ bl_idx' \in {bl_idx, 0}
      BY <1>5 DEF LauncherStep, LaMaps, LaOpens, Grabs, Draws, MenuKey, KeyGone, RunSensors, Spawns,
           ScreenKey, KillSensors, Reaps, RunDoom, Unmaps, Ungrabs, Remaps, WifiScreen,
           ToggleBle, LaExits, KeepEnv, KeepUI
    <2>2. bl_idx \in 0..3
      BY DEF LightKept
    <2>3. bl_idx' \in 0..3
      <3>1. 0 \in 0..3
        BY ONLY TRUE
      <3> QED
        BY <2>1, <2>2, <3>1, Zenon
    <2> QED
      BY <1>4, <1>5, <2>1, <2>3
  <1>6. CASE TheUser \/ TheKernel \/ TheShell \/ TheChildren(Programs) \/ UNCHANGED vars
    <2>1. UNCHANGED <<blVars, sdVars, bl_idx>>
      BY <1>6 DEF TheUser, TheKernel, TheShell, TheChildren, LaStarts, ChildEnds, KeepEnv, laVars, vars
    <2> QED
      BY <1>4, <2>1 DEF LightKept
  <1> QED
    BY <1>1, <1>2, <1>3, <1>5, <1>6 DEF Next, TheSleepd, TheLauncher, laVars

LEMMA LightInit == Init => LightTypes /\ CacheTrue /\ LightKept
  <1> SUFFICES ASSUME Init PROVE LightTypes /\ CacheTrue /\ LightKept
    OBVIOUS
  <1>1. /\ ready \in BOOLEAN /\ brightness = BootDuty /\ last_sent = BootDuty /\ duty = BootDuty
        /\ saved = BootDuty /\ bl_idx = 0
    BY DEF Init, BlInit, SleepdInit, LauncherInit
  <1>2. bl_idx \in 0..3
    BY <1>1
  <1>3. Lit("display") /\ Lit("kbd")
    BY <1>1, BootLit DEF Lit, Channels
  <1> QED
    BY <1>1, <1>2, <1>3, BootLit DEF LightTypes, CacheTrue, LightKept

\* An elided write is one that changes nothing, except after a command that
\* returned 0 without being carried out or a reboot of the C6, and then only
\* until the next command that is carried out (0018:44-53, 0008:2696-2726).
THEOREM CacheSafe == Spec => []CacheTrue
  BY LightInit, CacheInductive, LightInductive, PTL DEF Spec

LEMMA AwakeLit == GrabKept /\ LightTypes /\ CacheTrue /\ LightKept => AwakeIsLit
  <1> SUFFICES ASSUME GrabKept, LightTypes, CacheTrue, LightKept, spc = "read", ~sleeping
               PROVE  /\ ~blank
                      /\ \A ch \in Channels :
                            /\ brightness[ch] # 0
                            /\ duty[ch] = 0 => \/ ch \in doubt
                                               \/ last_sent[ch] # PwmDuty(brightness[ch])
    BY DEF AwakeIsLit
  <1>1. ~blank
    BY DEF GrabKept
  <1>2. ASSUME NEW ch \in Channels
        PROVE  /\ brightness[ch] # 0
               /\ duty[ch] = 0 => \/ ch \in doubt
                                  \/ last_sent[ch] # PwmDuty(brightness[ch])
    <2>1. brightness[ch] \in Levels \ {0}
      BY DEF LightKept, Lit, Channels, LightTypes
    <2>2. PwmDuty(brightness[ch]) # 0
      BY <2>1, PwmLit
    <2>3. ch \in doubt \/ last_sent[ch] = duty[ch]
      BY DEF CacheTrue
    <2> QED
      BY <2>1, <2>2, <2>3
  <1> QED
    BY <1>1, <1>2

\* A wake restores something to be seen, in sysfs and at the C6, whatever was
\* saved, elided, reset or missing on the way (sleepd.c:119-122, 135-140).
THEOREM LitSafe == Spec => []AwakeIsLit
  BY AwakeLit, GrabInit, GrabInductive, LightInit, CacheInductive, LightInductive, PTL DEF Spec

----------------------------------------------------------------------------
(* Types.  The queues are sequences of events that leave one slot free, and *)
(* the grab is with a descriptor that is open.                             *)

KpInv == KpTypeOK /\ queue \in [Clients -> Seq(Events)]

LEMMA EventsAre ==
    /\ Dropped \in Events /\ Ev("fn", 0) \in Events
    /\ \A k \in Keys : Ev(k, 1) \in Events
  BY DEF Events

\* What is left of the types of the keypad when nothing is delivered.
LEMMA KpSame ==
    ASSUME KpInv, plugged' \in BOOLEAN, fn_held' \in BOOLEAN,
           UNCHANGED <<fd, queue, grab, lost>>,
           presses' \in 0..MaxPresses, unplugs' \in 0..MaxUnplugs
    PROVE  KpInv'
  BY DEF KpInv, KpTypeOK

\* A queue that is full keeps two events, of three slots or more.
LEMMA DeliverQueue ==
    ASSUME KpInv, NEW e \in Events, NEW c \in Clients, Deliver(e)
    PROVE  queue'[c] \in Seq(Events) /\ Len(queue'[c]) < BufSize
  <1>1. queue[c] \in Seq(Events) /\ Len(queue[c]) < BufSize
    BY DEF KpInv, KpTypeOK
  <1>2. BufSize \in Nat /\ BufSize >= 3 /\ Len(queue[c]) \in Nat
    BY <1>1, KeypadAssumption
  <1>3. queue'[c] = IF c \notin Listeners THEN queue[c]
                    ELSE IF Full(c) THEN <<Dropped, e>> ELSE Append(queue[c], e)
    BY DEF Deliver
  <1>4. CASE queue'[c] = queue[c]
    BY <1>1, <1>4
  <1>5. CASE queue'[c] = <<Dropped, e>>
    <2>1. <<Dropped, e>> \in Seq(Events) /\ Len(<<Dropped, e>>) = 2
      BY EventsAre
    <2> QED
      BY <1>2, <1>5, <2>1
  <1>6. CASE ~Full(c) /\ queue'[c] = Append(queue[c], e)
    <2>1. Append(queue[c], e) \in Seq(Events) /\ Len(Append(queue[c], e)) = Len(queue[c]) + 1
      BY <1>1
    <2>2. Len(queue[c]) + 1 # BufSize
      BY <1>6 DEF Full
    <2>3. Len(queue[c]) + 1 < BufSize
      BY ONLY <1>1, <1>2, <2>2
    <2> QED
      BY <1>6, <2>1, <2>3
  <1> QED
    BY <1>3, <1>4, <1>5, <1>6

LEMMA DeliverKeeps ==
    ASSUME KpInv, NEW e \in Events, Deliver(e), fn_held' \in BOOLEAN,
           UNCHANGED <<plugged, fd, grab, unplugs>>, presses' \in 0..MaxPresses
    PROVE  KpInv'
  <1>1. \A c \in Clients : queue'[c] \in Seq(Events) /\ Len(queue'[c]) < BufSize
    BY DeliverQueue
  <1>2. queue' = [c \in Clients |-> queue'[c]]
    BY DEF Deliver
  <1>3. queue' \in [Clients -> Seq(Events)]
    BY <1>1, <1>2
  <1>4. \A c \in Clients : \A i \in 1..Len(queue'[c]) : queue'[c][i] \in Events
    BY <1>1
  <1>5. grab \in Clients \cup {"none"} /\ lost \subseteq Clients
    BY DEF KpInv, KpTypeOK
  <1>6. Listeners \subseteq Clients
    BY <1>5 DEF Listeners
  <1>7. lost' \subseteq Clients
    BY <1>5, <1>6 DEF Deliver
  <1> QED
    BY <1>1, <1>3, <1>4, <1>7 DEF KpInv, KpTypeOK

LEMMA PressKeeps ==
    ASSUME KpInv, NEW k \in Keys, Press(k)
    PROVE  KpInv'
  <1>1. presses \in 0..MaxPresses /\ presses < MaxPresses /\ presses' = presses + 1 /\ MaxPresses \in Nat
    BY KeypadAssumption DEF KpInv, KpTypeOK, Press
  <1>2. presses' \in 0..MaxPresses
    BY ONLY <1>1
  <1>3. fn_held' = (fn_held \/ k = "fn")
    BY DEF Press
  <1>4. fn_held' \in BOOLEAN
    BY ONLY <1>3, Zenon
  <1>5. Deliver(Ev(k, 1)) /\ Ev(k, 1) \in Events /\ UNCHANGED <<plugged, fd, grab, unplugs>>
    BY EventsAre DEF Press
  <1> QED
    BY <1>2, <1>4, <1>5, DeliverKeeps

LEMMA ReleaseKeeps == KpInv /\ ReleaseFn => KpInv'
  <1> SUFFICES ASSUME KpInv, ReleaseFn PROVE KpInv'
    OBVIOUS
  <1>1. Deliver(Ev("fn", 0)) /\ Ev("fn", 0) \in Events /\ UNCHANGED <<plugged, fd, grab, unplugs>>
    BY EventsAre DEF ReleaseFn
  <1>2. fn_held' = FALSE /\ presses' = presses
    BY DEF ReleaseFn
  <1>3. presses' \in 0..MaxPresses /\ fn_held' \in BOOLEAN
    BY <1>2 DEF KpInv, KpTypeOK
  <1> QED
    BY <1>1, <1>3, DeliverKeeps

\* An empty queue is a queue.
LEMMA EmptyFits == <<>> \in Seq(Events) /\ Len(<<>>) = 0 /\ 0 < BufSize
  BY KeypadAssumption

LEMMA UnplugKeeps == KpInv /\ Unplug => KpInv'
  <1> SUFFICES ASSUME KpInv, Unplug PROVE KpInv'
    OBVIOUS
  <1>1. /\ plugged' = FALSE /\ fn_held' = FALSE /\ grab' = "none"
        /\ UNCHANGED <<presses, lost>>
        /\ queue' = [c \in Clients |-> <<>>]
        /\ fd' = [c \in Clients |-> IF fd[c] = "open" THEN "stale" ELSE fd[c]]
    BY DEF Unplug
  <1>2. unplugs \in 0..MaxUnplugs /\ unplugs < MaxUnplugs /\ unplugs' = unplugs + 1 /\ MaxUnplugs \in Nat
    BY KeypadAssumption DEF KpInv, KpTypeOK, Unplug
  <1>3. unplugs' \in 0..MaxUnplugs
    BY ONLY <1>2
  <1>4. fd' \in [Clients -> {"closed", "open", "stale"}]
    BY <1>1 DEF KpInv, KpTypeOK
  <1>5. \A c \in Clients : queue'[c] = <<>>
    BY <1>1
  <1>6. queue' \in [Clients -> Seq(Events)]
    BY <1>1, EmptyFits
  <1>7. \A c \in Clients : Len(queue'[c]) < BufSize /\ \A i \in 1..Len(queue'[c]) : queue'[c][i] \in Events
    BY <1>5, EmptyFits
  <1> QED
    BY <1>1, <1>3, <1>4, <1>6, <1>7 DEF KpInv, KpTypeOK

\* The system calls of a client.
LEMMA CallsKeep ==
    ASSUME KpInv, NEW c \in Clients,
           Opens(c) \/ Closes(c) \/ Reads(c) \/ SetGrab(c) \/ Ungrab(c)
    PROVE  KpInv'
  <1>1. CASE Opens(c)
    <2>1. fd' = [fd EXCEPT ![c] = "open"] /\ lost' = lost \ {c}
          /\ UNCHANGED <<plugged, queue, grab, fn_held, presses, unplugs>>
      BY <1>1 DEF Opens
    <2>2. fd' \in [Clients -> {"closed", "open", "stale"}] /\ lost' \subseteq Clients
          /\ (grab' # "none" => fd'[grab'] = "open")
      BY <2>1 DEF KpInv, KpTypeOK
    <2> QED
      BY <2>1, <2>2 DEF KpInv, KpTypeOK
  <1>2. CASE Closes(c)
    <2>1. /\ fd' = [fd EXCEPT ![c] = "closed"] /\ queue' = [queue EXCEPT ![c] = <<>>]
          /\ grab' = IF grab = c THEN "none" ELSE grab
          /\ UNCHANGED <<plugged, fn_held, presses, unplugs, lost>>
      BY <1>2 DEF Closes
    <2>2. fd' \in [Clients -> {"closed", "open", "stale"}] /\ grab' \in Clients \cup {"none"}
          /\ (grab' # "none" => fd'[grab'] = "open")
      BY <2>1 DEF KpInv, KpTypeOK
    <2>3. queue' \in [Clients -> Seq(Events)]
      BY <2>1, EmptyFits DEF KpInv
    <2>4. \A d \in Clients : queue'[d] = <<>> \/ queue'[d] = queue[d]
      BY <2>1 DEF KpInv
    <2>5. \A d \in Clients : Len(queue'[d]) < BufSize
      BY <2>4, EmptyFits DEF KpInv, KpTypeOK
    <2>6. \A d \in Clients : \A i \in 1..Len(queue'[d]) : queue'[d][i] \in Events
      BY <2>3
    <2> QED
      BY <2>1, <2>2, <2>3, <2>5, <2>6 DEF KpInv, KpTypeOK
  <1>3. CASE Reads(c)
    <2>1. /\ queue[c] # <<>> /\ queue' = [queue EXCEPT ![c] = Tail(queue[c])]
          /\ UNCHANGED <<plugged, fd, grab, fn_held, presses, unplugs, lost>>
      BY <1>3 DEF Reads, Readable
    <2>2. queue[c] \in Seq(Events) /\ Len(queue[c]) < BufSize /\ BufSize \in Nat
      BY KeypadAssumption DEF KpInv, KpTypeOK
    <2>3. Tail(queue[c]) \in Seq(Events) /\ Len(Tail(queue[c])) = Len(queue[c]) - 1
      BY <2>1, <2>2
    <2>4. Len(Tail(queue[c])) < BufSize
      BY <2>2, <2>3
    <2>5. queue' \in [Clients -> Seq(Events)]
      BY <2>1, <2>3 DEF KpInv
    <2>6. \A d \in Clients : queue'[d] = Tail(queue[c]) \/ queue'[d] = queue[d]
      BY <2>1 DEF KpInv
    <2>7. \A d \in Clients : Len(queue'[d]) < BufSize
      BY <2>4, <2>6 DEF KpInv, KpTypeOK
    <2>8. \A d \in Clients : \A i \in 1..Len(queue'[d]) : queue'[d][i] \in Events
      BY <2>5
    <2> QED
      BY <2>1, <2>5, <2>7, <2>8 DEF KpInv, KpTypeOK
  <1>4. CASE SetGrab(c) \/ Ungrab(c)
    <2>1. UNCHANGED <<plugged, fd, queue, fn_held, presses, unplugs, lost>>
      BY <1>4 DEF SetGrab, Ungrab
    <2>2. grab' = grab \/ grab' = "none" \/ (grab' = c /\ fd[c] = "open")
      BY <1>4 DEF SetGrab, GrabWorks, Ungrab
    <2> QED
      BY <2>1, <2>2 DEF KpInv, KpTypeOK
  <1> QED
    BY <1>1, <1>2, <1>3, <1>4

LEMMA KpInductive == KpInv /\ [Next]_vars => KpInv'
  <1> SUFFICES ASSUME KpInv, [Next]_vars PROVE KpInv'
    OBVIOUS
  <1> "sleepd" \in Clients /\ "launcher" \in Clients
    BY DEF Clients
  <1>1. CASE UNCHANGED kpVars
    BY <1>1 DEF KpInv, KpTypeOK, kpVars
  <1>2. CASE TheUser
    BY <1>2, PressKeeps, ReleaseKeeps DEF TheUser
  <1>3. CASE Unplug \/ Replug
    <2>1. CASE Replug
      BY <2>1, KpSame DEF Replug, KpInv, KpTypeOK
    <2> QED
      BY <1>3, <2>1, UnplugKeeps
  <1>4. CASE SleepdNext
    <2>1. \/ UNCHANGED kpVars \/ Opens("sleepd") \/ Closes("sleepd")
          \/ Reads("sleepd") \/ SetGrab("sleepd") \/ Ungrab("sleepd")
      BY <1>4 DEF SleepdNext, SdOpens, SdReopens, SdReads, FallsAsleep, WakesUp, Saves, SdGrabs,
                  Writes, SdBlanks, SdUnblanks, SdUngrabs
    <2> QED
      BY <1>1, <2>1, CallsKeep
  <1>5. CASE LauncherStep
    <2>1. \/ UNCHANGED kpVars \/ Opens("launcher") \/ Closes("launcher")
          \/ Reads("launcher") \/ SetGrab("launcher") \/ Ungrab("launcher")
      BY <1>5 DEF LauncherStep, LaMaps, LaOpens, Grabs, Draws, MenuKey, KeyGone, RunSensors, Spawns,
             ScreenKey, KillSensors, Reaps, RunDoom, Unmaps, Ungrabs, Remaps, WifiScreen,
             ToggleBle, CycleBacklight, LaExits, KeepEnv
    <2> QED
      BY <1>1, <2>1, CallsKeep
  <1> QED
    BY <1>1, <1>2, <1>3, <1>4, <1>5
       DEF Next, vars, TheSleepd, TheLauncher, TheShell, TheChildren, TheKernel, TheC6,
           LaStarts, ChildEnds, KeepEnv

----------------------------------------------------------------------------
(* The backlights: every value is one of those that are written.           *)

BlInv == BlTypeOK /\ saved \in [Channels -> Levels \ {0}] /\ bl_idx \in 0..3

LEMMA SendFits ==
    ASSUME BlTypeOK, NEW want \in [Channels -> Duties], Apply(want)
    PROVE  /\ last_sent' \in [Channels -> Duties] /\ duty' \in [Channels -> Duties]
           /\ doubt' \subseteq Channels /\ faults' \in 0..MaxFaults
  <1>1. faults \in 0..MaxFaults /\ MaxFaults \in Nat
    BY BacklightAssumption DEF BlTypeOK
  <1>2. faults' = faults \/ (faults < MaxFaults /\ faults' = faults + 1)
    BY DEF Apply
  <1>3. faults' \in 0..MaxFaults
    BY ONLY <1>1, <1>2
  <1>4. last_sent' \in [Channels -> Duties] /\ duty' \in [Channels -> Duties] /\ doubt' \subseteq Channels
    BY DEF Apply, Send, BlTypeOK
  <1> QED
    BY <1>3, <1>4

LEMMA WriteFits ==
    ASSUME BlTypeOK, NEW ch \in Channels, NEW v \in Levels, WriteBrightness(ch, v)
    PROVE  BlTypeOK'
  <1>1. UNCHANGED <<ready, blank, c6boots>>
    BY DEF WriteBrightness
  <1>2. CASE ready
    <2> DEFINE want == [last_sent EXCEPT ![ch] = PwmDuty(v)]
    <2>1. brightness' = [brightness EXCEPT ![ch] = v] /\ Apply(want)
      BY <1>2 DEF WriteBrightness
    <2>2. brightness' \in [Channels -> Levels]
      BY <2>1 DEF BlTypeOK
    <2>3. want \in [Channels -> Duties]
      BY PwmLit DEF BlTypeOK
    <2>4. /\ last_sent' \in [Channels -> Duties] /\ duty' \in [Channels -> Duties]
          /\ doubt' \subseteq Channels /\ faults' \in 0..MaxFaults
      BY <2>1, <2>3, SendFits
    <2> QED
      BY <1>1, <2>2, <2>4 DEF BlTypeOK
  <1>3. CASE ~ready
    <2>1. UNCHANGED <<brightness, last_sent, duty, faults, doubt>>
      BY <1>3 DEF WriteBrightness
    <2> QED
      BY <1>1, <2>1 DEF BlTypeOK
  <1> QED
    BY <1>2, <1>3 DEF BlTypeOK

LEMMA CycleFits ==
    ASSUME BlInv, CycleBacklight
    PROVE  BlSteps[bl_idx' + 1] \in Levels /\ bl_idx' \in 0..3
  <1>1. Len(BlSteps) = 4
    BY DEF BlSteps
  <1>2. bl_idx' = (bl_idx + 1) % 4 /\ bl_idx \in 0..3
    BY <1>1 DEF CycleBacklight, BlInv
  <1>3. bl_idx' \in 0..3
    BY ONLY <1>2
  <1> DEFINE n == bl_idx' + 1
  <1> HIDE DEF n
  <1>4. n \in {1, 2, 3, 4}
    BY <1>3, FourSteps DEF n
  <1>5. BlSteps[n] \in Levels
    BY ONLY <1>4 DEF BlSteps, Levels
  <1> QED
    BY <1>3, <1>5 DEF n

LEMMA BootsFit == BlTypeOK /\ (BlProbe \/ C6Boots) => BlTypeOK'
  <1> SUFFICES ASSUME BlTypeOK, BlProbe \/ C6Boots PROVE BlTypeOK'
    OBVIOUS
  <1>1. CASE BlProbe
    <2>1. /\ ready' = TRUE /\ brightness' = BootDuty /\ UNCHANGED <<blank, c6boots>>
          /\ Apply([ch \in Channels |-> PwmDuty(BootDuty[ch])])
      BY <1>1 DEF BlProbe
    <2>2. /\ last_sent' \in [Channels -> Duties] /\ duty' \in [Channels -> Duties]
          /\ doubt' \subseteq Channels /\ faults' \in 0..MaxFaults
      BY <2>1, BootLit, SendFits
    <2> QED
      BY <2>1, <2>2, BootLit DEF BlTypeOK
  <1>2. CASE C6Boots
    <2>1. c6boots \in 0..MaxC6Boots /\ MaxC6Boots \in Nat /\ c6boots < MaxC6Boots /\ c6boots' = c6boots + 1
      BY <1>2, BacklightAssumption DEF BlTypeOK, C6Boots
    <2>2. c6boots' \in 0..MaxC6Boots
      BY ONLY <2>1
    <2>3. duty' \in [Channels -> Duties] /\ doubt' \subseteq Channels
      BY <1>2, BootLit DEF C6Boots
    <2>4. UNCHANGED <<ready, brightness, last_sent, blank, faults>>
      BY <1>2 DEF C6Boots
    <2> QED
      BY <2>2, <2>3, <2>4 DEF BlTypeOK
  <1> QED
    BY <1>1, <1>2

LEMMA BlankFits ==
    ASSUME BlTypeOK, NEW b \in BOOLEAN, WriteBlank(b)
    PROVE  BlTypeOK'
  BY DEF WriteBlank, BlTypeOK

LEMMA BlInductive == BlInv /\ [Next]_vars => BlInv'
  <1> SUFFICES ASSUME BlInv, [Next]_vars PROVE BlInv'
    OBVIOUS
  <1> "display" \in Channels /\ "kbd" \in Channels
    BY DEF Channels
  <1>1. 0 \in Levels /\ saved["display"] \in Levels /\ saved["kbd"] \in Levels
    BY DEF BlInv, Levels
  <1>2. ASSUME NEW ch \in Channels, NEW v \in Levels, WriteBrightness(ch, v), UNCHANGED <<saved, bl_idx>>
        PROVE  BlInv'
    BY <1>2, WriteFits DEF BlInv
  <1>3. ASSUME UNCHANGED blVars, saved' \in [Channels -> Levels \ {0}], bl_idx' \in 0..3
        PROVE  BlInv'
    BY <1>3 DEF BlInv, BlTypeOK, blVars
  <1>4. CASE SleepdNext /\ UNCHANGED bl_idx
    <2>1. CASE \/ Saves("display", "save display", "save kbd")
               \/ Saves("kbd", "save kbd", "grab")
      <3>1. PICK ch \in Channels : saved' = [saved EXCEPT ![ch] = Shown(ch)]
        BY <2>1 DEF Saves
      <3>2. Shown(ch) \in Levels \ {0}
        BY BootLit DEF Shown, BlInv, BlTypeOK
      <3>3. saved' \in [Channels -> Levels \ {0}]
        BY <3>1, <3>2 DEF BlInv
      <3>4. UNCHANGED blVars
        BY <2>1 DEF Saves, blVars
      <3> QED
        BY <1>3, <1>4, <3>3, <3>4 DEF BlInv
    <2>2. CASE SdOpens \/ SdReopens \/ SdReads \/ SdGrabs \/ SdUngrabs
      <3>1. UNCHANGED blVars /\ UNCHANGED saved
        BY <2>2 DEF SdOpens, SdReopens, SdReads, SdGrabs, SdUngrabs
      <3> QED
        BY <1>3, <1>4, <3>1 DEF BlInv
    <2>3. CASE SdBlanks \/ SdUnblanks
      <3>1. (WriteBlank(TRUE) \/ WriteBlank(FALSE)) /\ UNCHANGED saved
        BY <2>3 DEF SdBlanks, SdUnblanks
      <3> QED
        BY <1>4, <3>1, BlankFits DEF BlInv
    <2>4. CASE \/ Writes("display", 0, "dim display", "dim kbd")
               \/ Writes("kbd", 0, "dim kbd", "blank")
               \/ Writes("display", saved["display"], "light display", "light kbd")
               \/ Writes("kbd", saved["kbd"], "light kbd", "ungrab")
      <3>1. UNCHANGED saved
        BY <2>4 DEF Writes
      <3> QED
        BY <1>1, <1>2, <1>4, <2>4, <3>1 DEF Writes
    <2> QED
      BY <1>4, <2>1, <2>2, <2>3, <2>4 DEF SleepdNext, FallsAsleep, WakesUp
  <1>5. CASE CycleBacklight /\ UNCHANGED sdVars
    <2>1. BlSteps[bl_idx' + 1] \in Levels /\ bl_idx' \in 0..3
      BY <1>5, CycleFits
    <2>2. BlTypeOK'
      BY <1>5, <2>1, WriteFits DEF CycleBacklight, BlInv
    <2> QED
      BY <1>5, <2>1, <2>2 DEF BlInv, sdVars
  <1>6. CASE LauncherStep /\ ~CycleBacklight /\ UNCHANGED sdVars
    <2>1. UNCHANGED blVars /\ bl_idx' \in {bl_idx, 0}
      BY <1>6 DEF LauncherStep, LaMaps, LaOpens, Grabs, Draws, MenuKey, KeyGone, RunSensors, Spawns,
           ScreenKey, KillSensors, Reaps, RunDoom, Unmaps, Ungrabs, Remaps, WifiScreen,
           ToggleBle, LaExits, KeepEnv, KeepUI
    <2>2. bl_idx \in 0..3
      BY DEF BlInv
    <2>3. bl_idx' \in 0..3
      <3>1. 0 \in 0..3
        BY ONLY TRUE
      <3> QED
        BY <2>1, <2>2, <3>1, Zenon
    <2> QED
      BY <1>3, <1>6, <2>1, <2>3 DEF BlInv, sdVars
  <1>7. CASE TheUser \/ TheKernel \/ TheShell \/ TheChildren(Programs) \/ UNCHANGED vars
    <2>1. UNCHANGED <<blVars, sdVars, bl_idx>>
      BY <1>7 DEF TheUser, TheKernel, TheShell, TheChildren, LaStarts, ChildEnds, KeepEnv, laVars, vars
    <2> QED
      BY <1>3, <2>1 DEF BlInv, sdVars
  <1>8. CASE TheC6
    BY <1>8, BootsFit DEF TheC6, BlInv, sdVars, laVars
  <1> QED
    BY <1>4, <1>5, <1>6, <1>7, <1>8 DEF Next, TheSleepd, TheLauncher, laVars

----------------------------------------------------------------------------
(* The two programs.                                                       *)

ProgramTypes ==
    /\ spc \in SpcSet /\ fn_down \in BOOLEAN /\ knock \in BOOLEAN
    /\ shadow \in {"mapped", "NULL", "failed"}
    /\ ble_pid \in BOOLEAN
    /\ starts \in 0..MaxStarts /\ refusals \in 0..MaxRefusals

SleepdTypes == spc \in SpcSet /\ fn_down \in BOOLEAN

LEMMA SleepdKeeps == SleepdTypes /\ SleepdNext => SleepdTypes'
  <1> SUFFICES ASSUME SleepdTypes, SleepdNext PROVE SleepdTypes'
    OBVIOUS
  <1> USE DEF Goto
  <1>1. spc' \in SpcSet
    BY DEF SleepdNext, SdOpens, SdReopens, SdReads, FallsAsleep, WakesUp, Saves, SdGrabs,
           Writes, SdBlanks, SdUnblanks, SdUngrabs, SpcSet
  <1>2. \/ UNCHANGED fn_down \/ fn_down' = FALSE \/ fn_down' = (Head1("sleepd").value # 0)
    BY DEF SleepdNext, SdOpens, SdReopens, SdReads, FallsAsleep, WakesUp, Saves, SdGrabs,
           Writes, SdBlanks, SdUnblanks, SdUngrabs
  <1>3. fn_down' \in BOOLEAN
    BY <1>2, Zenon DEF SleepdTypes
  <1> QED
    BY <1>1, <1>3 DEF SleepdTypes

LEMMA RefusalsKept ==
    ASSUME refusals \in 0..MaxRefusals, Granted \/ Refused
    PROVE  refusals' \in 0..MaxRefusals
  <1>1. refusals \in 0..MaxRefusals /\ MaxRefusals \in Nat
    BY LauncherAssumption
  <1>2. refusals' = refusals \/ (refusals < MaxRefusals /\ refusals' = refusals + 1)
    BY DEF Granted, Refused
  <1> QED
    BY ONLY <1>1, <1>2

LauncherTypes ==
    /\ shadow \in {"mapped", "NULL", "failed"}
    /\ ble_pid \in BOOLEAN
    /\ starts \in 0..MaxStarts /\ refusals \in 0..MaxRefusals

LEMMA LauncherStepKeeps == LauncherTypes /\ LauncherStep => LauncherTypes'
  <1> SUFFICES ASSUME LauncherTypes, LauncherStep PROVE LauncherTypes'
    OBVIOUS
  <1>1. Granted \/ Refused
    BY DEF LauncherStep, LaMaps, LaOpens, Grabs, Draws, MenuKey, KeyGone, RunSensors, Spawns,
           ScreenKey, KillSensors, Reaps, RunDoom, Unmaps, Ungrabs, Remaps, WifiScreen,
           ToggleBle, CycleBacklight, LaExits
  <1>2. refusals' \in 0..MaxRefusals
    BY <1>1, RefusalsKept DEF LauncherTypes
  <1>3. UNCHANGED starts
    BY DEF LauncherStep, LaMaps, LaOpens, Grabs, Draws, MenuKey, KeyGone, RunSensors, Spawns,
           ScreenKey, KillSensors, Reaps, RunDoom, Unmaps, Ungrabs, Remaps, WifiScreen,
           ToggleBle, CycleBacklight, LaExits, KeepProc
  <1>4. shadow' \in {shadow, "mapped", "NULL", "failed"}
    BY DEF LauncherStep, LaMaps, LaOpens, Grabs, Draws, MenuKey, KeyGone, RunSensors, Spawns,
           ScreenKey, KillSensors, Reaps, RunDoom, Unmaps, Ungrabs, Remaps, WifiScreen,
           ToggleBle, CycleBacklight, LaExits
  <1>5. \/ UNCHANGED ble_pid \/ ble_pid' \in BOOLEAN
        \/ \E prog \in Programs : ble_pid' = (ble_pid /\ prog # "ble_adv")
    BY DEF LauncherStep, LaMaps, LaOpens, Grabs, Draws, MenuKey, KeyGone, RunSensors, Spawns,
           ScreenKey, KillSensors, Reaps, RunDoom, Unmaps, Ungrabs, Remaps, WifiScreen,
           ToggleBle, CycleBacklight, LaExits, KeepProc, Programs
  <1>6. ble_pid' \in BOOLEAN
    BY <1>5, Zenon DEF LauncherTypes
  <1> QED
    BY <1>2, <1>3, <1>4, <1>6 DEF LauncherTypes

LEMMA ProgramsKeep == ProgramTypes /\ sleeping' \in BOOLEAN /\ [Next]_vars => ProgramTypes'
  <1> SUFFICES ASSUME ProgramTypes, sleeping' \in BOOLEAN, [Next]_vars PROVE ProgramTypes'
    OBVIOUS
  <1>1. SleepdTypes /\ LauncherTypes /\ knock \in BOOLEAN
    BY DEF ProgramTypes, SleepdTypes, LauncherTypes
  <1>2. SleepdTypes' /\ LauncherTypes' /\ knock' \in BOOLEAN => ProgramTypes'
    BY DEF ProgramTypes, SleepdTypes, LauncherTypes
  <1>3. ASSUME UNCHANGED laVars PROVE LauncherTypes'
    BY <1>1, <1>3 DEF LauncherTypes, laVars
  <1>4. ASSUME UNCHANGED sdVars PROVE SleepdTypes'
    BY <1>1, <1>4 DEF SleepdTypes, sdVars
  <1>5. CASE TheUser
    <2>1. UNCHANGED knock \/ knock' = (knock \/ sleeping)
      BY <1>5 DEF TheUser
    <2>2. knock' \in BOOLEAN
      BY <1>1, <2>1, Zenon
    <2> QED
      BY <1>2, <1>3, <1>4, <1>5, <2>2 DEF TheUser
  <1>6. CASE TheSleepd
    <2>1. knock' = (knock /\ sleeping')
      BY <1>6 DEF TheSleepd
    <2>2. knock' \in BOOLEAN
      BY <2>1, Zenon
    <2> QED
      BY <1>1, <1>2, <1>3, <1>6, <2>2, SleepdKeeps DEF TheSleepd
  <1>7. CASE TheLauncher
    BY <1>1, <1>2, <1>4, <1>7, LauncherStepKeeps DEF TheLauncher
  <1>8. CASE TheShell
    <2>1. starts \in 0..MaxStarts /\ MaxStarts \in Nat /\ starts < MaxStarts /\ starts' = starts + 1
      BY <1>1, <1>8, LauncherAssumption DEF TheShell, LaStarts, LauncherTypes
    <2>2. starts' \in 0..MaxStarts
      BY ONLY <2>1
    <2>3. UNCHANGED <<shadow, ble_pid, refusals, knock>> /\ UNCHANGED sdVars
      BY <1>8 DEF TheShell, LaStarts
    <2>4. LauncherTypes'
      BY <1>1, <2>2, <2>3 DEF LauncherTypes
    <2> QED
      BY <1>1, <1>2, <1>4, <2>3, <2>4
  <1>9. CASE TheChildren(Programs)
    <2>1. UNCHANGED <<shadow, ble_pid, starts, refusals, knock>> /\ UNCHANGED sdVars
      BY <1>9 DEF TheChildren, ChildEnds
    <2>2. LauncherTypes'
      BY <1>1, <2>1 DEF LauncherTypes
    <2> QED
      BY <1>1, <1>2, <1>4, <2>1, <2>2
  <1>10. CASE TheKernel \/ TheC6 \/ UNCHANGED vars
    <2>1. UNCHANGED laVars /\ UNCHANGED sdVars /\ UNCHANGED knock
      BY <1>10 DEF TheKernel, TheC6, vars
    <2> QED
      BY <1>1, <1>2, <1>3, <1>4, <2>1
  <1> QED
    BY <1>5, <1>6, <1>7, <1>8, <1>9, <1>10 DEF Next

----------------------------------------------------------------------------
(* The whole.                                                              *)

TypeInv == MenuInv /\ GrabKept /\ KpInv /\ BlInv /\ ProgramTypes

LEMMA TypeInit == Init => TypeInv
  <1> SUFFICES ASSUME Init PROVE TypeInv
    OBVIOUS
  <1>1. KpInv
    <2>1. /\ plugged \in BOOLEAN /\ fn_held = FALSE /\ grab = "none" /\ presses = 0 /\ unplugs = 0
          /\ lost = {} /\ fd = [c \in Clients |-> "closed"] /\ queue = [c \in Clients |-> <<>>]
      BY DEF Init, KpInit
    <2>2. presses \in 0..MaxPresses /\ unplugs \in 0..MaxUnplugs
      BY <2>1, KeypadAssumption
    <2>3. fd \in [Clients -> {"closed", "open", "stale"}] /\ queue \in [Clients -> Seq(Events)]
      BY <2>1, EmptyFits
    <2>4. \A c \in Clients : Len(queue[c]) < BufSize
      BY <2>1, EmptyFits
    <2>5. \A c \in Clients : \A i \in 1..Len(queue[c]) : queue[c][i] \in Events
      BY <2>3
    <2> QED
      BY <2>1, <2>2, <2>3, <2>4, <2>5 DEF KpInv, KpTypeOK
  <1>2. BlInv
    <2>1. /\ ready \in BOOLEAN /\ brightness = BootDuty /\ last_sent = BootDuty /\ duty = BootDuty
          /\ blank = FALSE /\ faults = 0 /\ c6boots = 0 /\ doubt = {}
          /\ saved = BootDuty /\ bl_idx = 0
      BY DEF Init, BlInit, SleepdInit, LauncherInit
    <2>2. faults \in 0..MaxFaults /\ c6boots \in 0..MaxC6Boots /\ bl_idx \in 0..3
      BY <2>1, BacklightAssumption
    <2> QED
      BY <2>1, <2>2, BootLit DEF BlInv, BlTypeOK
  <1>3. ProgramTypes
    <2>1. /\ spc = "open" /\ fn_down = FALSE /\ knock = FALSE /\ shadow = "NULL" /\ ble_pid = FALSE
          /\ starts = 0 /\ refusals = 0
      BY DEF Init, SleepdInit, LauncherInit
    <2>2. starts \in 0..MaxStarts /\ refusals \in 0..MaxRefusals
      BY <2>1, LauncherAssumption
    <2> QED
      BY <2>1, <2>2 DEF ProgramTypes, SpcSet
  <1> QED
    BY <1>1, <1>2, <1>3, MenuInit, GrabInit DEF TypeInv

LEMMA TypeInductive == TypeInv /\ [Next]_vars => TypeInv'
  <1> SUFFICES ASSUME TypeInv, [Next]_vars PROVE TypeInv'
    OBVIOUS
  <1>1. MenuInv' /\ GrabKept' /\ KpInv' /\ BlInv'
    BY MenuInductive, GrabInductive, KpInductive, BlInductive DEF TypeInv
  <1>2. sleeping' \in BOOLEAN
    BY <1>1 DEF GrabKept
  <1> QED
    BY <1>1, <1>2, ProgramsKeep DEF TypeInv

\* Everything keeps its type: no queue of the keypad fills its last slot, the
\* grab is never left with a closed descriptor, the selection stays inside the
\* menu and the backlight step inside its table, and nothing but the levels of
\* the code is ever saved, sent or shown.
THEOREM TypeCorrect == Spec => []TypeOK
  <1>1. TypeInv => TypeOK
    <2> SUFFICES ASSUME TypeInv PROVE TypeOK
      OBVIOUS
    <2>1. KpTypeOK /\ BlTypeOK /\ knock \in BOOLEAN
      BY DEF TypeInv, KpInv, BlInv, ProgramTypes
    <2>2. SleepdTypeOK
      BY DEF TypeInv, ProgramTypes, GrabKept, BlInv, SleepdTypeOK
    <2>3. bl_idx \in 0..(Len(BlSteps) - 1)
      <3>1. Len(BlSteps) = 4
        BY DEF BlSteps
      <3>2. bl_idx \in 0..3
        BY DEF TypeInv, BlInv
      <3> QED
        BY <3>1, <3>2
    <2>4. LauncherTypeOK
      BY <2>3 DEF TypeInv, ProgramTypes, MenuInv, ChildrenKept, Selected, LauncherTypeOK
    <2> QED
      BY <2>1, <2>2, <2>4 DEF TypeOK
  <1> QED
    BY <1>1, TypeInit, TypeInductive, PTL DEF Spec
=============================================================================
