------------------------------ MODULE SysTimer ------------------------------
(***************************************************************************)
(* The SYSTIMER of the ESP32-P4 as clocksource and tick (patches 0001,     *)
(* 0016 and 0022): a free-running counter read in two halves through one   *)
(* shared latch, and a one-shot alarm that is armed again from its own     *)
(* interrupt.  Every access to a register that anything can notice is a    *)
(* step, and time passes between any two; while the alarm is disabled the  *)
(* loading of its target is one step with the reading of the counter,      *)
(* since the comparator is not looked at.  One CPU: the interrupt comes    *)
(* between the steps of a reader, and the alarm is programmed with         *)
(* interrupts off.                                                         *)
(***************************************************************************)
EXTENDS Integers

CONSTANTS
    HiSpan, LoSpan,   \* values of VAL_HI and VAL_LO: 2^20 and 2^32
    MaxDelta,         \* bound on the distance of an alarm
    MaxNow            \* bound on the time

ASSUME SysTimerAssumption ==
    /\ HiSpan \in Nat \ {0} /\ LoSpan \in Nat \ {0}
    /\ MaxDelta \in Nat \ {0} /\ MaxNow \in Nat

Span == HiSpan * LoSpan
Hi(v) == v \div LoSpan
Lo(v) == v % LoSpan

VARIABLES
    now,       \* time since the counter started; the counter is what fits
    latched,   \* what the latch of unit 0 captured
    en,        \* TARGET0_EN
    raw,       \* INT_RAW, which holds the line to the CLIC high
    target,    \* the target as computed, 64 bits wide
    goal,      \* the time it stands for (history)
    prog,      \* where esp32p4_clkevt_set_next is: idle, or its next access
    behind,    \* the target was found behind the counter
    wrapped,   \* the counter wrapped since the target was computed (history)
    isr,       \* the interrupt handler runs
    reader,    \* where esp32p4_systimer_read64 is in the interrupted context
    hi, lo,    \* its halves
    began      \* when it began (history)

alarmVars == <<en, raw, target, goal, prog, behind, wrapped, isr>>
readVars  == <<reader, hi, lo, began>>
vars      == <<now, latched, alarmVars, readVars>>

Counter == now % Span
Lap(t)  == t - (t % Span)

----------------------------------------------------------------------------
(* The hardware (external).                                                *)

\* An alarm fires when the counter steps on its target.
Passes ==
    /\ now < MaxNow
    /\ now' = now + 1
    /\ raw' = (raw \/ (en /\ (now + 1) % Span = target % Span))
    /\ UNCHANGED <<latched, en, target, goal, prog, behind, wrapped, isr, readVars>>

----------------------------------------------------------------------------
(* esp32p4_clkevt_set_next, with interrupts off.                           *)

DisablesAlarm ==
    /\ prog = "disable" /\ prog' = "target"
    /\ en' = FALSE
    /\ UNCHANGED <<now, latched, raw, target, goal, behind, wrapped, isr, readVars>>

\* Mutant: the high half is not masked.
LoadsUnmasked ==
    /\ prog = "target" /\ prog' = "enable"
    /\ latched' = now
    /\ \E delta \in 1..MaxDelta :
          target' = now + delta /\ goal' = now + delta
    /\ UNCHANGED <<now, en, raw, behind, wrapped, isr, readVars>>

\* Reads the counter and loads the comparator, which takes the low 52 bits: the
\* two halves, the period mode and COMP0_LOAD, with the alarm still disabled.
LoadsTarget ==
    /\ prog = "target" /\ prog' = "enable"
    /\ latched' = Counter
    /\ \E delta \in 1..MaxDelta :
          target' = Counter + delta /\ goal' = now + delta
    /\ UNCHANGED <<now, en, raw, behind, wrapped, isr, readVars>>

\* Whether an alarm armed on its very target fires is not known.
EnablesAlarm ==
    /\ prog = "enable" /\ prog' = "verify"
    /\ en' = TRUE
    /\ raw' \in {raw, raw \/ Counter = target % Span}
    /\ UNCHANGED <<now, latched, target, goal, behind, wrapped, isr, readVars>>

VerifiesTarget ==
    /\ prog = "verify" /\ prog' = "raw"
    /\ latched' = Counter
    /\ behind' = (target - Counter <= 0)
    /\ wrapped' = (goal - target # Lap(now))
    /\ UNCHANGED <<now, en, raw, target, goal, isr, readVars>>

\* Mutant: no verification, as before patch 0016.
ReturnsAnyway ==
    /\ prog = "raw"
    /\ prog' = "idle" /\ isr' = FALSE
    /\ UNCHANGED <<now, latched, en, raw, target, goal, behind, wrapped, readVars>>

\* -ETIME makes the clockevents core (external) try again with a later event;
\* 0 ends the programming, and the handler when it was called from there.
Returns ==
    /\ prog = "raw"
    /\ IF behind /\ ~raw
       THEN prog' = "disable" /\ UNCHANGED isr
       ELSE prog' = "idle" /\ isr' = FALSE
    /\ UNCHANGED <<now, latched, en, raw, target, goal, behind, wrapped, readVars>>

SetNext == DisablesAlarm \/ LoadsTarget \/ EnablesAlarm \/ VerifiesTarget \/ Returns

\* Timers programmed outside the handler: at boot, and from the hrtimer paths.
Programs ==
    /\ prog = "idle" /\ ~isr /\ reader = "none"
    /\ prog' = "disable"
    /\ UNCHANGED <<now, latched, en, raw, target, goal, behind, wrapped, isr, readVars>>

----------------------------------------------------------------------------
(* esp32p4_timer_interrupt.                                                *)

\* The slot is level-triggered: the status alone calls the handler, between any
\* two accesses of a reader.  It ends the alarm, and only then the status.
Interrupts ==
    /\ raw /\ ~isr /\ prog = "idle"
    /\ isr' = TRUE
    /\ en' = FALSE /\ raw' = FALSE
    /\ UNCHANGED <<now, latched, target, goal, prog, behind, wrapped, readVars>>

\* The event handler reads the time, through get_cycles or read64 ...
HandlerReads ==
    /\ isr /\ prog = "idle"
    /\ latched' = Counter
    /\ UNCHANGED <<now, alarmVars, readVars>>

\* ... and always programs the next event.
HandlerPrograms ==
    /\ isr /\ prog = "idle"
    /\ prog' = "disable"
    /\ UNCHANGED <<now, latched, en, raw, target, goal, behind, wrapped, isr, readVars>>

----------------------------------------------------------------------------
(* esp32p4_systimer_read64 in a context that is interrupted.               *)

Interruptible == ~isr /\ prog = "idle"

Latches ==
    /\ Interruptible /\ reader = "none"
    /\ reader' = "hi"
    /\ latched' = Counter
    /\ began' = now
    /\ UNCHANGED <<now, alarmVars, hi, lo>>

ReadsHi ==
    /\ Interruptible /\ reader = "hi"
    /\ reader' = "lo"
    /\ hi' = Hi(latched)
    /\ UNCHANGED <<now, latched, alarmVars, lo, began>>

ReadsLo ==
    /\ Interruptible /\ reader = "lo"
    /\ reader' = "hi again"
    /\ lo' = Lo(latched)
    /\ UNCHANGED <<now, latched, alarmVars, hi, began>>

\* Mutant: one read of each half, as before patch 0016.
TakesHalves ==
    /\ Interruptible /\ reader = "hi again"
    /\ reader' = "got"
    /\ UNCHANGED <<now, latched, alarmVars, hi, lo, began>>

ReadsHiAgain ==
    /\ Interruptible /\ reader = "hi again"
    /\ reader' = IF hi = Hi(latched) THEN "got" ELSE "hi"
    /\ UNCHANGED <<now, latched, alarmVars, hi, lo, began>>

\* The caller has its value.
Uses ==
    /\ Interruptible /\ reader = "got"
    /\ reader' = "none" /\ hi' = 0 /\ lo' = 0
    /\ UNCHANGED <<now, latched, alarmVars, began>>

Read64 == Latches \/ ReadsHi \/ ReadsLo \/ ReadsHiAgain \/ Uses

----------------------------------------------------------------------------
\* The driver is about to program its first event.
Init ==
    /\ now \in 0..(Span - 1) /\ latched = 0
    /\ en = FALSE /\ raw = FALSE
    /\ target = 0 /\ goal = 0
    /\ prog = "disable" /\ behind = FALSE /\ wrapped = FALSE /\ isr = FALSE
    /\ reader = "none" /\ hi = 0 /\ lo = 0 /\ began = 0

Next == \/ Passes
        \/ SetNext \/ Programs
        \/ Interrupts \/ HandlerReads \/ HandlerPrograms
        \/ Read64

Spec == Init /\ [][Next]_vars

TypeOK ==
    /\ now \in Nat /\ latched \in 0..(Span - 1)
    /\ en \in BOOLEAN /\ raw \in BOOLEAN /\ isr \in BOOLEAN
    /\ behind \in BOOLEAN /\ wrapped \in BOOLEAN
    /\ target \in 0..(Span + MaxDelta) /\ goal \in Nat
    /\ prog \in {"idle", "disable", "target", "enable", "verify", "raw"}
    /\ reader \in {"none", "hi", "lo", "hi again", "got"}
    /\ hi \in 0..(HiSpan - 1) /\ lo \in 0..(LoSpan - 1)
    /\ began \in Nat

----------------------------------------------------------------------------
(* Properties.                                                             *)

\* The tick never dies: whenever interrupts are on, the alarm is armed ahead of
\* the counter or its interrupt is on its way (0016:49-60, 0022:18-31).  Only when
\* the counter wraps inside the programming, once in nine years, is a target
\* that is behind taken for one ahead.
TickArmed == prog = "idle" /\ ~isr /\ ~wrapped => raw \/ (en /\ goal > now)

\* What a read returns is what the counter was at some moment of the read,
\* whatever interrupts came between the halves, unless it was held up until the
\* high half came round again (0016:25-36).
ReadTrue ==
    (reader = "got" /\ now - began < (HiSpan - 1) * LoSpan) =>
        \E t \in began..now : hi * LoSpan + lo = t % Span
=============================================================================
