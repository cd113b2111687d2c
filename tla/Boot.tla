-------------------------------- MODULE Boot --------------------------------
(***************************************************************************)
(* From reset to the first process: the boot shim, the kernel's search for *)
(* its root (external: what it needs of the device tree and of the mapped  *)
(* window), and /init.                                                     *)
(***************************************************************************)
EXTENDS BootShim, InitShim

vars == <<pc, flash, size, done, cpu, mem, rootfs, c6, ctrl02, boots, ipc, devs, fds>>

\* The kernel mounts its root through the window the device tree names, and
\* panics when the device tree names none.
KernelStarts ==
    /\ pc = "linux" /\ ipc = "kernel"
    /\ ipc' = IF \E a \in Addrs : mem[a] = Cell("reg", 0) THEN "mount" ELSE "panic"
    /\ UNCHANGED <<devs, fds>>
    /\ UNCHANGED shimVars

Init == ShimInit /\ InitInit

Next == \/ ShimNext /\ UNCHANGED initVars
        \/ KernelStarts
        \/ InitNext /\ UNCHANGED shimVars

Spec == Init /\ [][Next]_vars

\* The CPU does not stop, and a flash that can be read is read in the end: a
\* restart that is only bad luck is not repeated for ever (MaxBoots).
FairSpec ==
    /\ Spec
    /\ WF_vars((ShimStep \/ ShimFails) /\ UNCHANGED initVars)
    /\ WF_vars(KernelStarts)
    /\ WF_vars(InitNext /\ UNCHANGED shimVars)

TypeOK == /\ ShimTypeOK
          /\ ipc \in {"kernel", "mount", "open", "exec init", "exec sh", "init", "sh", "exited",
                    "panic"}
          /\ devs \in BOOLEAN
          /\ DOMAIN fds \subseteq {0, 1, 2}

\* The partitions are there and their headers and placeholder are in order.
Bootable == /\ flash.found = {"kernel", "dtb", "rootfs"}
            /\ flash.magic /\ DtbSane /\ Places # {}

\* A flash that is in order boots: Linux finds its root and /init runs to its
\* end, or the shim has used up its restarts on mappings that fail.
BootsThrough ==
    Bootable ~> \/ boots = MaxBoots
                \/ pc = "linux" /\ ipc \in {"init", "sh", "exited"}
=============================================================================
