----------------------------- MODULE Backlight ------------------------------
(***************************************************************************)
(* The two backlights over the C6 (patches 0011, 0018 and 0024) and the    *)
(* blanking of the panel.  A brightness written to sysfs becomes a command *)
(* to the C6, unless it is the value that was last sent.                   *)
(***************************************************************************)
EXTENDS Naturals

CONSTANTS
    MaxFaults,     \* bound on applies that fail
    MaxC6Boots     \* bound on reboots of the C6

ASSUME BacklightAssumption == MaxFaults \in Nat /\ MaxC6Boots \in Nat

Channels == {"display", "kbd"}

\* What the slave sets when it boots, and what the driver takes it to have set.
BootDuty == [ch \in Channels |-> IF ch = "display" THEN 76 ELSE 25]

\* pwm-backlight makes of a brightness a part of the period, in nanoseconds, and
\* esp_c6_pwm_apply makes of that a duty of the C6; both divisions round down.
Period    == 40000
MaxDuty   == 255
PwmDuty(b) == (((b * Period) \div MaxDuty) * MaxDuty) \div Period

\* What is written to .../brightness, and what the C6 then drives.
Levels == {0, 25, 76, 150, 255}
Duties == {PwmDuty(b) : b \in Levels} \cup {25, 76}

VARIABLES
    ready,       \* the deferred probes are done and the sysfs files exist
    brightness,  \* props.brightness, what sysfs shows
    last_sent,   \* the value cache of the PWM driver, a duty
    duty,        \* what the C6 really drives
    blank,       \* the panel is blanked
    faults, c6boots,
    doubt        \* channels whose last command got lost behind a return of 0, or
                 \* whose C6 rebooted since; no part of the code

blVars == <<ready, brightness, last_sent, duty, blank, faults, c6boots, doubt>>

\* The slave comes up with its own duties; the host keeps its cache.
C6Boots ==
    /\ c6boots < MaxC6Boots
    /\ c6boots' = c6boots + 1
    /\ duty' = BootDuty
    /\ doubt' = Channels
    /\ UNCHANGED <<ready, brightness, last_sent, blank, faults>>

\* What becomes of an apply: the value is the one last sent, or its command is
\* carried out, gets lost behind a return of 0, or is refused with an error.
Fates == {"elided", "carried", "lost", "refused"}

\* Mutant: the result of cmd_set_backlight is not looked at.
SendCachesAnyway(want, fate) ==
    /\ last_sent' = [ch \in Channels |-> IF fate[ch] # "elided" THEN want[ch] ELSE last_sent[ch]]
    /\ duty' = [ch \in Channels |-> IF fate[ch] = "carried" THEN want[ch] ELSE duty[ch]]
    /\ doubt' = {ch \in Channels : \/ fate[ch] = "lost"
                                   \/ fate[ch] # "carried" /\ ch \in doubt}

\* cmd_set_backlight and what its caller makes of the result.  A command that
\* is never sent (a clean-up is in progress), that is lost, or whose wait ends
\* by time or by a signal returns 0 like one that was carried out, and the value
\* is cached; only without an interface, a node or a buffer is it an error.
Send(want, fate) ==
    /\ last_sent' = [ch \in Channels |-> IF fate[ch] \in {"carried", "lost"}
                                        THEN want[ch] ELSE last_sent[ch]]
    /\ duty' = [ch \in Channels |-> IF fate[ch] = "carried" THEN want[ch] ELSE duty[ch]]
    /\ doubt' = {ch \in Channels : \/ fate[ch] = "lost"
                                   \/ fate[ch] # "carried" /\ ch \in doubt}

\* esp_c6_pwm_apply, of the duties wanted of the channels.
Apply(want) ==
    \E fate \in [Channels -> Fates] :
        /\ \A ch \in Channels : fate[ch] = "elided" <=> want[ch] = last_sent[ch]
        /\ IF \E ch \in Channels : fate[ch] \in {"lost", "refused"}
           THEN faults < MaxFaults /\ faults' = faults + 1
           ELSE UNCHANGED faults
        /\ Send(want, fate)

\* The probes of the two pwm-backlights, which one work item runs one after the
\* other: the first apply of each is skipped, the second has the default
\* brightness of the device tree.
BlProbe ==
    /\ ~ready
    /\ ready' = TRUE
    /\ brightness' = BootDuty
    /\ Apply([ch \in Channels |-> PwmDuty(BootDuty[ch])])
    /\ UNCHANGED <<blank, c6boots>>

\* A write to .../brightness shows there whatever becomes of the command;
\* without the file the writers give up silently.
WriteBrightness(ch, b) ==
    /\ \/ /\ ready
          /\ brightness' = [brightness EXCEPT ![ch] = b]
          /\ Apply([last_sent EXCEPT ![ch] = PwmDuty(b)])
       \/ /\ ~ready
          /\ UNCHANGED <<brightness, last_sent, duty, faults, doubt>>
    /\ UNCHANGED <<ready, blank, c6boots>>

WriteBlank(b) ==
    /\ blank' = b
    /\ UNCHANGED <<ready, brightness, last_sent, duty, faults, c6boots, doubt>>

BlInit ==
    /\ ready = FALSE
    /\ brightness = BootDuty /\ last_sent = BootDuty /\ duty = BootDuty
    /\ blank = FALSE
    /\ faults = 0 /\ c6boots = 0 /\ doubt = {}

BlTypeOK ==
    /\ ready \in BOOLEAN /\ blank \in BOOLEAN
    /\ brightness \in [Channels -> Levels]
    /\ last_sent \in [Channels -> Duties] /\ duty \in [Channels -> Duties]
    /\ faults \in 0..MaxFaults /\ c6boots \in 0..MaxC6Boots
    /\ doubt \subseteq Channels

\* The value cache is what the C6 drives, so that a write it elides is one that
\* changes nothing.  Two things alone make it wrong, a command that returned 0
\* without being carried out and a reboot of the C6, never one that returned an
\* error (0018:49-55); and the next command of the channel that is carried out
\* makes it right again, whatever was elided or refused in between.
CacheTrue == \A ch \in Channels \ doubt : last_sent[ch] = duty[ch]

\* The probe sends nothing: what it applies is what the slave booted with
\* (0018:31-36, "computing exactly the slave's boot duty").
BootSendsNothing == [][ready' # ready => UNCHANGED last_sent]_blVars
=============================================================================
