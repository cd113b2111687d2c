------------------------------- MODULE Sleepd -------------------------------
(***************************************************************************)
(* sleepd (buildroot/overlay-src/sleepd.c): Fn+Esc puts the badge to       *)
(* sleep, a key press wakes it.  Every system call is a step, since the    *)
(* writes to sysfs wait for the C6.                                        *)
(***************************************************************************)
EXTENDS Keypad, Backlight

VARIABLES
    spc,        \* where main is
    fn_down,
    sleeping,
    saved,      \* saved_bl and saved_kbd
    denied      \* the grab of this sleep was refused, or went with the device

sdVars == <<spc, fn_down, sleeping, saved, denied>>

SpcSet == {"open", "read", "save display", "save kbd", "grab", "dim display", "dim kbd",
           "blank", "unblank", "light display", "light kbd", "ungrab"}

\* read_sysfs_int, and the default for a file that is missing or shows 0.
Shown(ch) == IF ready /\ brightness[ch] # 0 THEN brightness[ch] ELSE BootDuty[ch]

Goto(at, next) == spc = at /\ spc' = next

SdOpens ==
    /\ Goto("open", "read")
    /\ Opens("sleepd")
    /\ UNCHANGED <<fn_down, sleeping, saved, denied>>
    /\ UNCHANGED blVars

\* read fails: the device went away.  What was remembered is kept.
SdReopens ==
    /\ Goto("read", "open")
    /\ fd["sleepd"] = "stale"
    /\ Closes("sleepd")
    /\ denied' = (denied \/ sleeping)
    /\ UNCHANGED <<fn_down, sleeping, saved>>
    /\ UNCHANGED blVars

\* Mutant: Fn is looked at before it is asked whether the badge sleeps.
ReadsFnFirst ==
    LET e == Head1("sleepd") IN
    /\ spc = "read"
    /\ Reads("sleepd")
    /\ \/ /\ e.code = "fn"
          /\ fn_down' = (e.value # 0)
          /\ spc' = "read"
       \/ /\ e.code # "fn"
          /\ spc' = CASE sleeping /\ e.value = 1 -> "unblank"
                      [] ~sleeping /\ fn_down /\ e.code = "esc" -> "save display"
                      [] OTHER -> "read"
          /\ UNCHANGED fn_down
    /\ UNCHANGED <<sleeping, saved, denied>>
    /\ UNCHANGED blVars

\* One event: a press while asleep wakes, Fn is remembered, Esc with Fn down
\* starts to sleep, everything else is dropped.
SdReads ==
    LET e == Head1("sleepd") IN
    /\ spc = "read"
    /\ Reads("sleepd")
    /\ \/ /\ sleeping
          /\ spc' = IF e.value = 1 THEN "unblank" ELSE "read"
          /\ UNCHANGED fn_down
       \/ /\ ~sleeping /\ e.code = "fn"
          /\ fn_down' = (e.value # 0)
          /\ spc' = "read"
       \/ /\ ~sleeping /\ e.code # "fn"
          /\ spc' = IF fn_down /\ e.code = "esc" /\ e.value = 1 THEN "save display" ELSE "read"
          /\ UNCHANGED fn_down
    /\ UNCHANGED <<sleeping, saved, denied>>
    /\ UNCHANGED blVars

Saves(ch, at, next) ==
    /\ Goto(at, next)
    /\ saved' = [saved EXCEPT ![ch] = Shown(ch)]
    /\ UNCHANGED <<fn_down, sleeping, denied>>
    /\ UNCHANGED <<kpVars, blVars>>

\* The result of the ioctl is not looked at.
SdGrabs ==
    /\ Goto("grab", "dim display")
    /\ SetGrab("sleepd")
    /\ denied' = ~GrabWorks("sleepd")
    /\ UNCHANGED <<fn_down, sleeping, saved>>
    /\ UNCHANGED blVars

Writes(ch, v, at, next) ==
    /\ Goto(at, next)
    /\ WriteBrightness(ch, v)
    /\ UNCHANGED <<fn_down, sleeping, saved, denied>>
    /\ UNCHANGED kpVars

SdBlanks ==
    /\ Goto("blank", "read")
    /\ WriteBlank(TRUE)
    /\ sleeping' = TRUE
    /\ fn_down' = FALSE
    /\ UNCHANGED <<saved, denied>>
    /\ UNCHANGED kpVars

SdUnblanks ==
    /\ Goto("unblank", "light display")
    /\ WriteBlank(FALSE)
    /\ UNCHANGED <<fn_down, sleeping, saved, denied>>
    /\ UNCHANGED kpVars

SdUngrabs ==
    /\ Goto("ungrab", "read")
    /\ Ungrab("sleepd")
    /\ sleeping' = FALSE
    /\ denied' = FALSE
    /\ UNCHANGED <<fn_down, saved>>
    /\ UNCHANGED blVars

\* Mutant: the panel is darkened before the keypad is grabbed.
DarkensFirst ==
    \/ Saves("display", "save display", "save kbd")
    \/ Saves("kbd", "save kbd", "dim display")
    \/ Writes("display", 0, "dim display", "dim kbd")
    \/ Writes("kbd", 0, "dim kbd", "blank")
    \/ /\ Goto("blank", "grab") /\ WriteBlank(TRUE)
       /\ UNCHANGED <<sleeping, fn_down, saved, denied>> /\ UNCHANGED kpVars
    \/ /\ Goto("grab", "read") /\ SetGrab("sleepd")
       /\ denied' = ~GrabWorks("sleepd")
       /\ sleeping' = TRUE /\ fn_down' = FALSE /\ UNCHANGED saved /\ UNCHANGED blVars

FallsAsleep ==
    \/ Saves("display", "save display", "save kbd")
    \/ Saves("kbd", "save kbd", "grab")
    \/ SdGrabs
    \/ Writes("display", 0, "dim display", "dim kbd")
    \/ Writes("kbd", 0, "dim kbd", "blank")
    \/ SdBlanks

\* Mutant: the keyboard backlight is not restored.
WakesDisplay ==
    \/ SdUnblanks
    \/ Writes("display", saved["display"], "light display", "ungrab")
    \/ SdUngrabs

WakesUp ==
    \/ SdUnblanks
    \/ Writes("display", saved["display"], "light display", "light kbd")
    \/ Writes("kbd", saved["kbd"], "light kbd", "ungrab")
    \/ SdUngrabs

SleepdNext == SdOpens \/ SdReopens \/ SdReads \/ FallsAsleep \/ WakesUp

SleepdInit ==
    /\ spc = "open" /\ fn_down = FALSE /\ sleeping = FALSE
    /\ saved = BootDuty
    /\ denied = FALSE

SleepdTypeOK ==
    /\ spc \in SpcSet
    /\ fn_down \in BOOLEAN /\ sleeping \in BOOLEAN /\ denied \in BOOLEAN
    /\ saved \in [Channels -> Levels \ {0}]

Awake == spc \in {"open", "read", "save display", "save kbd", "grab"} /\ ~sleeping
=============================================================================
