------------------------------ MODULE InitShim ------------------------------
(***************************************************************************)
(* /init (linux-native/init-shim/init.c): it mounts devtmpfs, makes        *)
(* /dev/console its standard input and outputs, and executes /sbin/init,   *)
(* or /bin/sh when that fails.                                             *)
(***************************************************************************)
EXTENDS Integers, FiniteSets

VARIABLES
    ipc,    \* where main is, or what it became
    devs,   \* devtmpfs is mounted
    fds     \* the open descriptors and what they are

initVars == <<ipc, devs, fds>>

Lowest(open) == CHOOSE f \in 0..Cardinality(open) :
                    f \notin open /\ \A g \in 0..(f - 1) : g \in open

Opened(fd) == [f \in DOMAIN fds \cup {fd} |-> IF f = fd THEN "console" ELSE fds[f]]

\* dup2 to 0, 1 and 2, after which the descriptors of shut are closed.
Dup(open, shut) == [f \in (DOMAIN open \cup {0, 1, 2}) \ shut |->
                      IF f \in {0, 1, 2} THEN "console" ELSE open[f]]

\* Mutant: the descriptor is closed whatever its number.
DupAndCloseAlways(fd) == Dup(Opened(fd), {fd})

\* The console on 0, 1 and 2; a descriptor above them is closed again.
DupAndClose(fd) == Dup(Opened(fd), IF fd > 2 THEN {fd} ELSE {})

\* Best effort: the mount may fail, also because it is there already.
Mount ==
    /\ ipc = "mount"
    /\ ipc' = "open"
    /\ devs' \in {devs, TRUE}
    /\ UNCHANGED fds

\* open("/dev/console") succeeds only with devtmpfs.
OpenConsole ==
    /\ ipc = "open"
    /\ ipc' = "exec init"
    /\ \/ devs /\ fds' = DupAndClose(Lowest(DOMAIN fds))
       \/ UNCHANGED fds
    /\ UNCHANGED devs

ExecInit ==
    /\ ipc = "exec init"
    /\ ipc' \in {"init", "exec sh"}
    /\ UNCHANGED <<devs, fds>>

ExecShell ==
    /\ ipc = "exec sh"
    /\ ipc' \in {"sh", "exited"}
    /\ UNCHANGED <<devs, fds>>

\* The kernel opens the console for its first process if it finds one.
InitInit ==
    /\ ipc = "kernel"
    /\ devs \in BOOLEAN
    /\ fds \in {[f \in {} |-> "console"], [f \in {0, 1, 2} |-> "console"]}

InitNext == Mount \/ OpenConsole \/ ExecInit \/ ExecShell

\* What takes over has all three standard descriptors or none, and no other.
StdioWhole ==
    ipc \in {"init", "sh"} => DOMAIN fds \in {{}, {0, 1, 2}}
=============================================================================
