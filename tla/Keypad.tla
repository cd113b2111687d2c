------------------------------- MODULE Keypad -------------------------------
(***************************************************************************)
(* The keypad as its two readers, sleepd and the launcher, use it: the     *)
(* evdev node /dev/input/event0 of the kernel (external).  Every open      *)
(* descriptor has a queue of its own; one of them may hold the grab, and   *)
(* then the other and the console get nothing.  The releases of keys other *)
(* than Fn are left out: both readers drop them.                           *)
(***************************************************************************)
EXTENDS Naturals, Sequences, FiniteSets

CONSTANTS
    Keys,          \* "fn", "esc", "enter", "up", "down"
    BufSize,       \* slots of a client's queue
    MaxPresses,    \* bound on the keys pressed
    MaxUnplugs     \* bound on the times the device goes away

ASSUME KeypadAssumption ==
    /\ "fn" \in Keys
    /\ BufSize \in Nat /\ BufSize >= 3
    /\ MaxPresses \in Nat /\ MaxUnplugs \in Nat

Clients == {"sleepd", "launcher"}

VARIABLES
    plugged,   \* the device exists
    fd,        \* of each client: closed, open, or stale after an unplug
    queue,     \* the events a client has not read
    grab,      \* who holds the grab
    fn_held,   \* Fn is held down
    presses,   \* keys pressed so far
    unplugs,   \* how often the device went away
    lost       \* the clients whose queue overflowed

kpVars == <<plugged, fd, queue, grab, fn_held, presses, unplugs, lost>>

Ev(k, v) == [code |-> k, value |-> v]
Dropped  == Ev("SYN_DROPPED", 0)
Events   == {Dropped} \cup {Ev(k, 1) : k \in Keys} \cup {Ev("fn", 0)}

\* Who an event goes to.
Listeners == IF grab = "none" THEN {c \in Clients : fd[c] = "open"} ELSE {grab}
Full(c)   == Len(queue[c]) + 1 = BufSize

\* A queue that is full is emptied down to a notice and the newest event.
Deliver(e) ==
    /\ queue' = [c \in Clients |->
                    IF c \notin Listeners THEN queue[c]
                    ELSE IF Full(c) THEN <<Dropped, e>> ELSE Append(queue[c], e)]
    /\ lost' = lost \cup {c \in Listeners : Full(c)}

Press(k) ==
    /\ plugged /\ presses < MaxPresses
    /\ k = "fn" => ~fn_held
    /\ fn_held' = (fn_held \/ k = "fn")
    /\ presses' = presses + 1
    /\ Deliver(Ev(k, 1))
    /\ UNCHANGED <<plugged, fd, grab, unplugs>>

ReleaseFn ==
    /\ plugged /\ fn_held
    /\ fn_held' = FALSE
    /\ Deliver(Ev("fn", 0))
    /\ UNCHANGED <<plugged, fd, grab, presses, unplugs>>

\* The descriptors that are open stay open and fail from now on.
Unplug ==
    /\ plugged /\ unplugs < MaxUnplugs
    /\ plugged' = FALSE
    /\ unplugs' = unplugs + 1
    /\ fd' = [c \in Clients |-> IF fd[c] = "open" THEN "stale" ELSE fd[c]]
    /\ queue' = [c \in Clients |-> <<>>]
    /\ grab' = "none"
    /\ fn_held' = FALSE
    /\ UNCHANGED <<presses, lost>>

Replug ==
    /\ ~plugged
    /\ plugged' = TRUE
    /\ UNCHANGED <<fd, queue, grab, fn_held, presses, unplugs, lost>>

----------------------------------------------------------------------------
(* The system calls of a client.                                           *)

Opens(c) ==
    /\ plugged
    /\ fd' = [fd EXCEPT ![c] = "open"]
    /\ lost' = lost \ {c}
    /\ UNCHANGED <<plugged, queue, grab, fn_held, presses, unplugs>>

\* close drops the grab with the descriptor.
Closes(c) ==
    /\ fd' = [fd EXCEPT ![c] = "closed"]
    /\ queue' = [queue EXCEPT ![c] = <<>>]
    /\ grab' = IF grab = c THEN "none" ELSE grab
    /\ UNCHANGED <<plugged, fn_held, presses, unplugs, lost>>

Readable(c) == fd[c] = "open" /\ queue[c] # <<>>
Head1(c)    == Head(queue[c])
Reads(c) ==
    /\ Readable(c)
    /\ queue' = [queue EXCEPT ![c] = Tail(@)]
    /\ UNCHANGED <<plugged, fd, grab, fn_held, presses, unplugs, lost>>

\* EVIOCGRAB 1 fails with EBUSY while another client holds it, and with ENODEV
\* on a stale descriptor; EVIOCGRAB 0 fails unless the caller holds it.
GrabWorks(c) == fd[c] = "open" /\ grab \in {"none", c}
SetGrab(c) ==
    /\ grab' = IF GrabWorks(c) THEN c ELSE grab
    /\ UNCHANGED <<plugged, fd, queue, fn_held, presses, unplugs, lost>>
Ungrab(c) ==
    /\ grab' = IF grab = c THEN "none" ELSE grab
    /\ UNCHANGED <<plugged, fd, queue, fn_held, presses, unplugs, lost>>

KpInit ==
    /\ plugged \in BOOLEAN
    /\ fd = [c \in Clients |-> "closed"]
    /\ queue = [c \in Clients |-> <<>>]
    /\ grab = "none" /\ fn_held = FALSE
    /\ presses = 0 /\ unplugs = 0 /\ lost = {}

KpTypeOK ==
    /\ plugged \in BOOLEAN /\ fn_held \in BOOLEAN
    /\ fd \in [Clients -> {"closed", "open", "stale"}]
    /\ \A c \in Clients : /\ Len(queue[c]) < BufSize
                          /\ \A i \in 1..Len(queue[c]) : queue[c][i] \in Events
    /\ grab \in Clients \cup {"none"}
    /\ grab # "none" => fd[grab] = "open"
    /\ presses \in 0..MaxPresses /\ unplugs \in 0..MaxUnplugs
    /\ lost \subseteq Clients
=============================================================================
