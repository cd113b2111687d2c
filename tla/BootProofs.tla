----------------------------- MODULE BootProofs -----------------------------
(***************************************************************************)
(* What the shims hand to Linux and to init, for every page size, every    *)
(* size of the partitions, every content of flash and any number of        *)
(* restarts, with cache lines evicted at any moment.                       *)
(***************************************************************************)
EXTENDS Boot, FiniteSetTheorems, TLAPS

ShimSpec == ShimInit /\ [][ShimNext]_shimVars

\* The places from which the copied kernel must stay.
KernelLoaded == {"load dtb", "map", "patch", "flush", "jump", "linux"}

\* A load has copied what done says; a finished one is in memory too, and what
\* comes after does not touch it.
Bounds == size \in Nat /\ size <= KernPart /\ done \in Nat

Loads ==
    /\ pc # "load kernel" /\ pc # "load dtb" => done = 0
    /\ pc = "load kernel" => done <= size
    /\ pc = "load dtb" => done <= DtbPart

KernelCopied ==
    /\ pc = "load kernel" =>
          \A i \in Nat : i < done => cpu[KERNEL_LOAD_PA + i] = Cell("kernel", i)
    /\ pc \in KernelLoaded =>
          \A i \in Nat : i < size => /\ cpu[KERNEL_LOAD_PA + i] = Cell("kernel", i)
                                     /\ mem[KERNEL_LOAD_PA + i] = Cell("kernel", i)

IInv == /\ pc \in Pcs
        /\ flash \in FlashSet
        /\ DOMAIN cpu = Addrs /\ DOMAIN mem = Addrs
        /\ Bounds
        /\ Loads
        /\ KernelCopied

\* An address of the kernel's partition lies in PSRAM and below the tree.
LEMMA KernelAddr ==
    ASSUME NEW i \in Nat, i < KernPart
    PROVE  /\ KERNEL_LOAD_PA + i \in Addrs
           /\ KERNEL_LOAD_PA + i < DTB_LOAD_PA
           /\ KERNEL_LOAD_PA + i \in Int
BY SizesAssumption, LayoutAssumption DEF Addrs

\* A turn of the copy loop moves at least one cell and not more than are left.
LEMMA ChunkBounds ==
    ASSUME NEW d \in Nat, NEW sz \in Nat, d < sz
    PROVE  Chunk(d, sz) \in Nat /\ 0 < Chunk(d, sz) /\ d + Chunk(d, sz) <= sz
<1>1. d % Page \in 0..(Page - 1)
  BY SizesAssumption
<1>2. d - PartOff(d) = d % Page
  BY <1>1, SizesAssumption DEF PartOff
<1> QED
  BY <1>1, <1>2, SizesAssumption DEF Chunk

\* What a turn puts where it copies to.
LEMMA CopyAt ==
    ASSUME NEW base \in Nat, NEW part,
           NEW d \in Nat, NEW n \in Nat, NEW i \in Nat, base + i \in Addrs
    PROVE  Copy(base, part, d, n)[base + i] =
               IF d <= i /\ i < d + n THEN Cell(part, i) ELSE cpu[base + i]
<1>1. PICK a \in Addrs : a = base + i
  OBVIOUS
<1>2. /\ a \in (base + d) .. (base + d + n - 1) <=> d <= i /\ i < d + n
      /\ a - base = i
  BY <1>1
<1>3. Copy(base, part, d, n)[a] =
          IF a \in (base + d) .. (base + d + n - 1) THEN Cell(part, a - base) ELSE cpu[a]
  BY Zenon DEF Copy
<1>4. Copy(base, part, d, n)[a] = IF d <= i /\ i < d + n THEN Cell(part, i) ELSE cpu[a]
  BY <1>2, <1>3, Zenon
<1> QED
  BY <1>1, <1>4, Zenon

\* Every cell of the kernel is one of its partition.
LEMMA SizeFits == IInv => \A i \in Nat : i < size => i < KernPart
<1>1. ASSUME Bounds, NEW i \in Nat, i < size PROVE i < KernPart
  BY <1>1, SizesAssumption DEF Bounds
<1> QED
  BY <1>1 DEF IInv

\* The initial states satisfy the invariant.
LEMMA InitInv == ShimInit => IInv
BY FlashesAssumption, SizesAssumption
   DEF ShimInit, IInv, Pcs, Bounds, Loads, KernelCopied, KernelLoaded

\* A restart leaves nothing to be kept.
LEMMA RestartInv == IInv /\ Restart => IInv'
<1> SUFFICES ASSUME IInv, Restart PROVE IInv'
  OBVIOUS
<1>1. pc' \in Pcs /\ pc' \notin KernelLoaded
  BY DEF Restart, Pcs, KernelLoaded
<1>2. Loads' /\ Bounds'
  BY <1>1, SizesAssumption DEF Restart, Loads, Bounds
<1>3. KernelCopied'
  BY <1>1 DEF Restart, KernelCopied
<1> QED
  BY <1>1, <1>2, <1>3 DEF IInv, Restart

\* A cell that is written back holds what the CPU reads.
LEMMA EvictInv == IInv /\ Evict => IInv'
<1> SUFFICES ASSUME IInv, Evict PROVE IInv'
  OBVIOUS
<1>1. PICK a \in Addrs : mem' = [mem EXCEPT ![a] = cpu[a]]
  BY DEF Evict
<1>2. mem' = [b \in Addrs |-> IF b = a THEN cpu[a] ELSE mem[b]]
  BY <1>1 DEF IInv
<1>3. UNCHANGED <<pc, flash, size, done, cpu>>
  BY DEF Evict
<1>4. KernelCopied'
  <2>0. \A i \in Nat : i < size => KERNEL_LOAD_PA + i \in Addrs
    BY SizeFits, KernelAddr
  <2>1. ASSUME NEW i \in Nat, i < size, pc \in KernelLoaded
        PROVE  mem'[KERNEL_LOAD_PA + i] = Cell("kernel", i)
    BY <1>2, <2>1, <2>0, KernelAddr DEF IInv, KernelCopied
  <2> QED
    BY <1>3, <2>1 DEF IInv, KernelCopied
<1> QED
  BY <1>2, <1>3, <1>4 DEF IInv, Bounds, Loads

\* The load of the kernel: each turn extends what is copied, the write-back
\* puts all of it into memory.
LEMMA LoadKernelInv == IInv /\ LoadKernel => IInv'
<1> SUFFICES ASSUME IInv, LoadKernel PROVE IInv'
  OBVIOUS
<1>1. pc = "load kernel" /\ UNCHANGED <<flash, size>>
  BY DEF LoadKernel, Load
<1>2. CASE /\ done < size
           /\ cpu' = Copy(KERNEL_LOAD_PA, "kernel", done, Chunk(done, size))
           /\ done' = done + Chunk(done, size)
           /\ UNCHANGED <<pc, mem>>
  <2>0. Bounds
    BY DEF IInv
  <2>1. /\ Chunk(done, size) \in Nat
        /\ done + Chunk(done, size) <= size
    BY <1>2, <2>0, ChunkBounds DEF Bounds
  <2>2. ASSUME NEW i \in Nat, i < done'
        PROVE  cpu'[KERNEL_LOAD_PA + i] = Cell("kernel", i)
    <3>1. i < KernPart /\ i < done + Chunk(done, size)
      BY <1>2, <2>0, <2>1, <2>2, SizesAssumption DEF Bounds
    <3>2. KERNEL_LOAD_PA + i \in Addrs
      BY <3>1, KernelAddr
    <3>3. Copy(KERNEL_LOAD_PA, "kernel", done, Chunk(done, size))[KERNEL_LOAD_PA + i]
            = IF done <= i /\ i < done + Chunk(done, size)
              THEN Cell("kernel", i) ELSE cpu[KERNEL_LOAD_PA + i]
      <4>1. done \in Nat /\ KERNEL_LOAD_PA \in Nat
        BY <2>0, SizesAssumption DEF Bounds
      <4> QED
        BY <2>1, <3>2, <4>1, CopyAt
    <3>4. i < done => cpu[KERNEL_LOAD_PA + i] = Cell("kernel", i)
      BY <1>1 DEF IInv, KernelCopied
    <3>5. i < done \/ (done <= i /\ i < done + Chunk(done, size))
      BY <2>0, <3>1 DEF Bounds
    <3> QED
      BY <1>2, <3>3, <3>4, <3>5
  <2>3. pc' = "load kernel" /\ pc' \in Pcs /\ pc' \notin KernelLoaded
    BY <1>1, <1>2 DEF Pcs, KernelLoaded
  <2>6. done' = done + Chunk(done, size) /\ size' = size
    BY <1>1, <1>2
  <2>7. done' <= size' /\ Bounds'
    BY <2>0, <2>1, <2>6 DEF Bounds
  <2>4. Loads' /\ Bounds'
    BY <2>3, <2>7 DEF Loads
  <2>5. KernelCopied'
    BY <2>2, <2>3 DEF KernelCopied
  <2> QED
    BY <1>1, <1>2, <2>3, <2>4, <2>5 DEF IInv, Copy
<1>3. CASE /\ done >= size
           /\ mem' = Writeback(KERNEL_LOAD_PA, size)
           /\ pc' = "load dtb"
           /\ done' = 0
           /\ UNCHANGED cpu
  <2>0. Bounds
    BY DEF IInv
  <2>1. ASSUME NEW i \in Nat, i < size
        PROVE  /\ cpu'[KERNEL_LOAD_PA + i] = Cell("kernel", i)
               /\ mem'[KERNEL_LOAD_PA + i] = Cell("kernel", i)
    <3>1. KERNEL_LOAD_PA + i \in Addrs
      BY <2>1, KernelAddr, SizeFits
    <3>2. KERNEL_LOAD_PA + i \in KERNEL_LOAD_PA .. (KERNEL_LOAD_PA + size - 1)
      BY <2>1, <2>0, SizesAssumption DEF Bounds
    <3>3. i < done
      <4>1. done >= size
        BY <1>3
      <4> QED
        BY <4>1, <2>1, <2>0 DEF Bounds
    <3>4. cpu[KERNEL_LOAD_PA + i] = Cell("kernel", i)
      BY <1>1, <3>3 DEF IInv, KernelCopied
    <3> QED
      BY <1>3, <3>1, <3>2, <3>4 DEF Writeback
  <2>2. pc' # "load kernel" /\ pc' \in Pcs
    BY <1>3 DEF Pcs
  <2>5. done' = 0 /\ size' = size
    BY <1>1, <1>3
  <2>6. done' <= DtbPart /\ Bounds'
    BY <2>0, <2>5, SizesAssumption DEF Bounds
  <2>3. Loads' /\ Bounds'
    BY <1>3, <2>6 DEF Loads
  <2>4. KernelCopied'
    BY <1>1, <2>1, <2>2 DEF KernelCopied
  <2> QED
    BY <1>1, <1>3, <2>2, <2>3, <2>4 DEF IInv, Writeback
<1> QED
  BY <1>2, <1>3 DEF LoadKernel, Load

\* Writes at or above the tree's address, and write-backs there, leave the
\* copied kernel as it is.
LEMMA AboveKernel ==
    ASSUME IInv, pc \in KernelLoaded, pc' \in KernelLoaded,
           UNCHANGED <<flash, size>>,
           done' \in Nat, pc' = "load dtb" => done' <= DtbPart,
           pc' # "load dtb" => done' = 0,
           DOMAIN cpu' = Addrs, DOMAIN mem' = Addrs,
           \A a \in Addrs : a < DTB_LOAD_PA =>
               cpu'[a] = cpu[a] /\ mem'[a] \in {mem[a], cpu[a]}
    PROVE  IInv'
<1>1. ASSUME NEW i \in Nat, i < size
      PROVE  /\ cpu'[KERNEL_LOAD_PA + i] = Cell("kernel", i)
             /\ mem'[KERNEL_LOAD_PA + i] = Cell("kernel", i)
  <2>1. KERNEL_LOAD_PA + i \in Addrs /\ KERNEL_LOAD_PA + i < DTB_LOAD_PA
    BY <1>1, KernelAddr, SizeFits
  <2>2. /\ cpu[KERNEL_LOAD_PA + i] = Cell("kernel", i)
        /\ mem[KERNEL_LOAD_PA + i] = Cell("kernel", i)
    BY <1>1 DEF IInv, KernelCopied
  <2> QED
    BY <2>1, <2>2
<1>2. pc' # "load kernel" /\ pc' \in Pcs
  BY DEF KernelLoaded, Pcs
<1>3. Loads' /\ Bounds'
  BY <1>2 DEF IInv, Bounds, Loads
<1>4. KernelCopied'
  BY <1>1, <1>2 DEF KernelCopied
<1> QED
  BY <1>2, <1>3, <1>4 DEF IInv

\* The load of the device tree.
LEMMA LoadDtbInv == IInv /\ LoadDtb => IInv'
<1> SUFFICES ASSUME IInv, LoadDtb PROVE IInv'
  OBVIOUS
<1>1. pc = "load dtb" /\ UNCHANGED <<flash, size>> /\ pc \in KernelLoaded
  BY DEF LoadDtb, Load, KernelLoaded
<1>2. CASE /\ done < DtbPart
           /\ cpu' = Copy(DTB_LOAD_PA, "dtb", done, Chunk(done, DtbPart))
           /\ done' = done + Chunk(done, DtbPart)
           /\ UNCHANGED <<pc, mem>>
  <2>0. Bounds
    BY DEF IInv
  <2>1. /\ Chunk(done, DtbPart) \in Nat
        /\ done + Chunk(done, DtbPart) <= DtbPart
    BY <1>2, <2>0, ChunkBounds, SizesAssumption DEF Bounds
  <2>2. \A a \in Addrs : a < DTB_LOAD_PA => cpu'[a] = cpu[a]
    BY <1>2, <2>0, <2>1, SizesAssumption DEF Copy, Bounds, Addrs
  <2>3. DOMAIN cpu' = Addrs /\ DOMAIN mem' = Addrs
    BY <1>2 DEF Copy, IInv
  <2>4. done' \in Nat /\ done' <= DtbPart
    BY <1>2, <2>0, <2>1 DEF Bounds
  <2>5. \A a \in Addrs : a < DTB_LOAD_PA => mem'[a] \in {mem[a], cpu[a]}
    BY <1>2
  <2>6. pc' = "load dtb"
    BY <1>1, <1>2
  <2> QED
    BY <1>1, <2>2, <2>3, <2>4, <2>5, <2>6, AboveKernel DEF KernelLoaded
<1>3. CASE /\ done >= DtbPart
           /\ mem' = Writeback(DTB_LOAD_PA, DtbPart)
           /\ pc' = "map"
           /\ done' = 0
           /\ UNCHANGED cpu
  <2>1. \A a \in Addrs : a < DTB_LOAD_PA =>
            cpu'[a] = cpu[a] /\ mem'[a] \in {mem[a], cpu[a]}
    BY <1>3 DEF Writeback
  <2>2. DOMAIN cpu' = Addrs /\ DOMAIN mem' = Addrs
    BY <1>3 DEF Writeback, IInv
  <2> QED
    BY <1>1, <1>3, <2>1, <2>2, AboveKernel DEF KernelLoaded
<1> QED
  BY <1>2, <1>3 DEF LoadDtb, Load

\* Linux's device tree is patched above the kernel, and written back there.
LEMMA PatchDtbInv == IInv /\ PatchDtb => IInv'
<1> SUFFICES ASSUME IInv, PatchDtb PROVE IInv'
  OBVIOUS
<1>1. /\ pc = "patch" /\ pc' \in {"flush", "jump"}
      /\ UNCHANGED <<flash, size, done, mem>> /\ done = 0
  BY DEF PatchDtb, IInv, Loads
<1>2. \A a \in Addrs : a < DTB_LOAD_PA => cpu'[a] = cpu[a]
  <2>1. CASE \E i \in Places : cpu' = Patch(i)
    <3>1. PICK i \in Places : cpu' = Patch(i)
      BY <2>1
    <3>2. i \in Nat
      BY DEF IInv, Places, FlashSet
    <3> QED
      BY <3>1, <3>2, SizesAssumption DEF Patch, Addrs
  <2>2. CASE cpu' = cpu
    BY <2>2
  <2> QED
    BY <2>1, <2>2 DEF PatchDtb
<1>3. DOMAIN cpu' = Addrs /\ DOMAIN mem' = Addrs
  BY DEF PatchDtb, Patch, IInv
<1>4. pc \in KernelLoaded /\ pc' \in KernelLoaded /\ pc' # "load dtb"
  BY <1>1 DEF KernelLoaded
<1> QED
  BY <1>1, <1>2, <1>3, <1>4, AboveKernel

\* The write-back of the tree leaves the kernel alone.
LEMMA FlushDtbInv == IInv /\ FlushDtb => IInv'
<1> SUFFICES ASSUME IInv, FlushDtb PROVE IInv'
  OBVIOUS
<1>1. /\ pc = "flush" /\ pc' = "jump"
      /\ UNCHANGED <<flash, size, done, cpu>> /\ done = 0
  BY DEF FlushDtb, IInv, Loads
<1>2. \A a \in Addrs : a < DTB_LOAD_PA =>
          cpu'[a] = cpu[a] /\ mem'[a] \in {mem[a], cpu[a]}
  BY DEF FlushDtb, Writeback
<1>3. DOMAIN cpu' = Addrs /\ DOMAIN mem' = Addrs
  BY DEF FlushDtb, Writeback, IInv
<1> QED
  BY <1>1, <1>2, <1>3, AboveKernel DEF KernelLoaded

\* The probe settles on a size that fits the partition.
LEMMA ProbeKernelInv == IInv /\ ProbeKernel => IInv'
<1> SUFFICES ASSUME IInv, ProbeKernel PROVE IInv'
  OBVIOUS
<1>1. /\ pc' = "load kernel" /\ pc' \in Pcs /\ pc' \notin KernelLoaded
      /\ UNCHANGED <<flash, done, cpu, mem>> /\ done = 0
  BY DEF ProbeKernel, IInv, Pcs, Loads, KernelLoaded
<1>2. size' \in Nat /\ size' <= KernPart
  <2>1. flash.image_size \in Nat
    BY DEF IInv, FlashSet
  <2> QED
    <3>1. size' = KernelSize(flash)
      BY DEF ProbeKernel
    <3> QED
      BY <2>1, <3>1, SizesAssumption DEF KernelSize
<1>5. done' = 0
  BY <1>1
<1>6. done' <= size' /\ Bounds'
  BY <1>2, <1>5 DEF Bounds
<1>3. Loads' /\ Bounds'
  BY <1>1, <1>6 DEF Loads
<1>4. KernelCopied'
  <2>1. \A i \in Nat : ~(i < done')
    BY <1>5
  <2>2. pc' \notin KernelLoaded
    BY <1>1
  <2> QED
    BY <2>1, <2>2 DEF KernelCopied
<1> QED
  BY <1>1, <1>3, <1>4 DEF IInv

\* Steps that only move on, before the loads and after them.
LEMMA EarlyInv ==
    IInv /\ (KickConfig \/ KickAssert \/ KickRelease \/ InitSdmmc \/ FindPartitions) => IInv'
BY DEF IInv, KickConfig, KickAssert, KickRelease, InitSdmmc, FindPartitions, Pin,
       Bounds, Loads, KernelCopied, KernelLoaded, Pcs

LEMMA LateInv == IInv /\ (MapRootfs \/ DoBoot) => IInv'
BY DEF IInv, MapRootfs, DoBoot, Bounds, Loads, KernelCopied, KernelLoaded, Pcs

\* Every error path is a restart.
LEMMA FailsInv == IInv /\ ShimFails => IInv'
BY RestartInv DEF ShimFails, GpioFails, NoPartition, NoMagic, MmapFails, NoRootfs,
                  BadDtb, Fails

\* Every step of the boot shim keeps the invariant.
LEMMA NextInv == IInv /\ [ShimNext]_shimVars => IInv'
<1>1. CASE UNCHANGED shimVars
  BY <1>1 DEF IInv, shimVars, Bounds, Loads, KernelCopied
<1> QED
  BY <1>1, EarlyInv, ProbeKernelInv, LoadKernelInv, LoadDtbInv, LateInv, PatchDtbInv,
     FlushDtbInv, FailsInv, EvictInv DEF ShimNext, ShimStep

\* A run of the system is a run of its boot shim.
LEMMA SpecShim == Spec => ShimSpec
<1>1. Init => ShimInit
  BY DEF Init
<1>2. [Next]_vars => [ShimNext]_shimVars
  BY DEF Next, vars, shimVars, KernelStarts
<1> QED
  BY <1>1, <1>2, PTL DEF Spec, ShimSpec

\* So it holds in every state of every run.
LEMMA Invariance == ShimSpec => []IInv
BY InitInv, NextInv, PTL DEF ShimSpec

----------------------------------------------------------------------------

\* Whatever the sizes, the flash and the failures: the kernel that is jumped to
\* is the one in flash, whole and in memory.
THEOREM KernelSafe == Spec => []KernelIntact
<1>1. IInv => KernelIntact
  <2>1. pc = "linux" => pc \in KernelLoaded
    BY DEF KernelLoaded
  <2>2. ASSUME NEW i \in 0..(size - 1), IInv PROVE i \in Nat /\ i < size
    BY <2>2 DEF IInv, Bounds
  <2> QED
    BY <2>1, <2>2 DEF IInv, KernelCopied, KernelIntact
<1> QED
  BY <1>1, Invariance, SpecShim, PTL

----------------------------------------------------------------------------

\* What has to hold on the way for the hand-over to be in order: the strap is set
\* before the reset line is pulled, the line is pulled before it is released.
PinsDone    == pc \notin {"config", "assert", "release"}
RootNeeded  == pc \in {"patch", "flush", "jump", "linux"}

HInv == /\ ctrl02 \in Word
        /\ c6 = [reset |-> c6.reset, strap |-> c6.strap, runs |-> c6.runs]
        /\ pc = "assert" => c6.strap = 1
        /\ pc = "release" => c6.strap = 1 /\ c6.reset = 0
        /\ PinsDone => c6.runs = "app"
        /\ RootNeeded => rootfs.va = VA

\* It holds when app_main starts.
LEMMA HInitInv == ShimInit => HInv
BY ResetsAssumption DEF ShimInit, HInv, PinsDone, RootNeeded

\* The masks of the divider are bits of the word, and none of them reaches the
\* display's.
LEMMA MasksClear ==
    LET masks == EdgeFields \cup DivideBy4 \cup PERI02_LS_EDGE_CFG_UPDATE
    IN  masks \subseteq 0..31 /\ masks \cap MIPI_DSI_DPHY_CLK_SRC_SEL = {}
<1>1. EdgeFields \subseteq 9..26
  BY DEF EdgeFields, Ones, PERI02_LS_EDGE_L_SHIFT, PERI02_LS_EDGE_H_SHIFT,
         PERI02_LS_EDGE_N_SHIFT, PERI02_LS_SLF_EDGE_SEL_SHIFT,
         PERI02_LS_DRV_EDGE_SEL_SHIFT, PERI02_LS_SAM_EDGE_SEL_SHIFT
<1>2. DivideBy4 \subseteq 9..29
  BY DEF DivideBy4, Ones, PERI02_LS_EDGE_L_SHIFT, PERI02_LS_EDGE_H_SHIFT,
         PERI02_LS_EDGE_N_SHIFT, PERI02_LS_DRV_EDGE_SEL_SHIFT, PERI02_CLK_EN
<1>3. PERI02_LS_EDGE_CFG_UPDATE \subseteq 8..8
  BY DEF PERI02_LS_EDGE_CFG_UPDATE
<1> QED
  BY <1>1, <1>2, <1>3 DEF MIPI_DSI_DPHY_CLK_SRC_SEL

\* So programming it leaves a word whose display bits are the old ones.
LEMMA DividerKeeps ==
    ASSUME NEW r \in Word
    PROVE  /\ Divider(r) \in Word
           /\ Divider(r) \cap MIPI_DSI_DPHY_CLK_SRC_SEL = r \cap MIPI_DSI_DPHY_CLK_SRC_SEL
BY MasksClear DEF Divider, setbits, clrsetbits, Word

\* Steps that touch neither the C6, nor the register, nor the window, and stay
\* behind the kick and behind the mapping.
LEMMA HKeep ==
    ASSUME HInv, UNCHANGED <<c6, ctrl02, rootfs>>,
           pc' # "assert", pc' # "release",
           PinsDone' => PinsDone, RootNeeded' => RootNeeded
    PROVE  HInv'
BY DEF HInv

\* Every step keeps it.
LEMMA HStepInv == HInv /\ ShimNext => HInv'
<1> SUFFICES ASSUME HInv, ShimNext PROVE HInv'
  OBVIOUS
<1>1. CASE KickConfig
  BY <1>1 DEF HInv, KickConfig, Pin, PinsDone, RootNeeded
<1>2. CASE KickAssert
  BY <1>2 DEF HInv, KickAssert, Pin, PinsDone, RootNeeded
<1>3. CASE KickRelease
  BY <1>3 DEF HInv, KickRelease, Pin, PinsDone, RootNeeded
<1>4. CASE InitSdmmc
  BY <1>4, DividerKeeps DEF HInv, InitSdmmc, PinsDone, RootNeeded
<1>5. CASE MapRootfs
  BY <1>5 DEF HInv, MapRootfs, PinsDone, RootNeeded
<1>6. CASE \/ FindPartitions \/ ProbeKernel \/ LoadKernel \/ LoadDtb \/ PatchDtb
           \/ FlushDtb \/ DoBoot
  BY <1>6, HKeep DEF FindPartitions, ProbeKernel, LoadKernel, LoadDtb, Load,
        PatchDtb, FlushDtb, DoBoot, PinsDone, RootNeeded
<1>7. CASE ShimFails
  BY <1>7 DEF ShimFails, GpioFails, NoPartition, NoMagic, MmapFails, NoRootfs, BadDtb,
        Fails, Restart, HInv, PinsDone, RootNeeded
<1>8. CASE Evict
  BY <1>8 DEF Evict, HInv, PinsDone, RootNeeded
<1> QED
  BY <1>1, <1>2, <1>3, <1>4, <1>5, <1>6, <1>7, <1>8 DEF ShimNext, ShimStep

\* So it holds in every state.
LEMMA HInvariance == ShimSpec => []HInv
<1>1. HInv /\ UNCHANGED shimVars => HInv'
  BY DEF HInv, shimVars, PinsDone, RootNeeded
<1> QED
  BY <1>1, HInitInv, HStepInv, PTL DEF ShimSpec

\* Whatever failed and was retried, Linux starts with the C6 running its
\* application and with the root file system still mapped.
THEOREM HandOverSafe == Spec => []HandOver
<1>1. HInv => HandOver
  BY DEF HInv, HandOver, PinsDone, RootNeeded
<1> QED
  BY <1>1, HInvariance, SpecShim, PTL

\* No step, from any content of the register, changes the display's clock source.
THEOREM DisplayClockSafe == Spec => DisplayClockKept
<1>1. HInv /\ [ShimNext]_shimVars => [ctrl02' \cap MIPI_DSI_DPHY_CLK_SRC_SEL
               = ctrl02 \cap MIPI_DSI_DPHY_CLK_SRC_SEL]_shimVars
  <2>1. ASSUME HInv, InitSdmmc PROVE ctrl02' \cap MIPI_DSI_DPHY_CLK_SRC_SEL
               = ctrl02 \cap MIPI_DSI_DPHY_CLK_SRC_SEL
    BY <2>1, DividerKeeps DEF HInv, InitSdmmc
  <2>2. ASSUME ShimNext, ~InitSdmmc PROVE ctrl02' = ctrl02
    BY <2>2 DEF ShimNext, ShimStep, KickConfig, KickAssert, KickRelease, Pin,
         FindPartitions, ProbeKernel, LoadKernel, LoadDtb, Load, MapRootfs, PatchDtb,
         FlushDtb, DoBoot, ShimFails, GpioFails, NoPartition, NoMagic, MmapFails,
         NoRootfs, BadDtb, Fails, Restart, Evict
  <2> QED
    BY <2>1, <2>2
<1> QED
  BY <1>1, HInvariance, SpecShim, PTL DEF ShimSpec, DisplayClockKept

----------------------------------------------------------------------------
(* The device tree.                                                        *)

DtbAt(i) == DTB_LOAD_PA + i

\* A cell of the tree as Linux has to find it: as it was in flash, unless the
\* first placeholder covers it.
Patched(i, c) ==
    \/ c = Cell("dtb", i) /\ \A k \in 0..(NeedleLen - 1) : ~Replaced(i - k)
    \/ \E k \in 0..(NeedleLen - 1) : c = Cell("reg", k) /\ Replaced(i - k)

\* The tree on its way: copied, in memory, patched in the cache, and patched in
\* memory.  While it is patched in the cache only, a cell in memory is the one
\* before or the one after, and what the write-back leaves out is in memory.
Copied(i)   == cpu[DtbAt(i)] = Cell("dtb", i)
InMemory(i) == Copied(i) /\ mem[DtbAt(i)] = Cell("dtb", i)
InCache(i)  == /\ Patched(i, cpu[DtbAt(i)])
               /\ mem[DtbAt(i)] \in {cpu[DtbAt(i)], Cell("dtb", i)}
               /\ i >= flash.total => mem[DtbAt(i)] = cpu[DtbAt(i)]
Handed(i)   == Patched(i, cpu[DtbAt(i)]) /\ Patched(i, mem[DtbAt(i)])

DInv == \A i \in Nat : i < DtbPart =>
            /\ pc = "load dtb" /\ i < done => Copied(i)
            /\ pc \in {"map", "patch"} => InMemory(i)
            /\ pc = "flush" => InCache(i)
            /\ pc \in {"jump", "linux"} => Handed(i)

\* An address of the tree lies in PSRAM.
LEMMA DtbAddr ==
    ASSUME NEW i \in Nat, i < DtbPart
    PROVE  DtbAt(i) \in Addrs /\ DtbAt(i) \in Nat
BY SizesAssumption, LayoutAssumption DEF Addrs, DtbAt

\* What has to be replaced is the first place the search finds.
LEMMA FirstIsReplaced ==
    ASSUME flash \in FlashSet, NEW s
    PROVE  Replaced(s) <=> First(s)
<1>1. flash.needles \subseteq Nat /\ flash.total \in Nat
  BY DEF FlashSet
<1>2. ASSUME Replaced(s) PROVE First(s)
  BY <1>2 DEF Replaced, First, Places
<1>3. ASSUME First(s) PROVE Replaced(s)
  <2>1. s \in flash.needles /\ s + NeedleLen <= flash.total
    BY <1>3 DEF First, Places
  <2>2. ASSUME NEW j \in flash.needles PROVE s <= j
    <3>1. CASE j + NeedleLen <= flash.total
      BY <1>3, <3>1 DEF First, Places
    <3>2. CASE ~(j + NeedleLen <= flash.total)
      <4>1. s \in Nat /\ j \in Nat
        BY <1>1, <2>1
      <4> QED
        BY <1>1, <2>1, <3>2, <4>1, SizesAssumption
    <3> QED
      BY <3>1, <3>2
  <2> QED
    BY <2>1, <2>2 DEF Replaced
<1> QED
  BY <1>2, <1>3

\* Nothing behind the end of the tree is replaced.
LEMMA ReplacedInside ==
    ASSUME flash \in FlashSet, NEW i \in Nat, NEW k \in 0..(NeedleLen - 1), Replaced(i - k)
    PROVE  i < flash.total
<1>1. i - k + NeedleLen <= flash.total /\ flash.total \in Nat
  BY DEF Replaced, FlashSet
<1> QED
  BY <1>1, SizesAssumption

\* Two offsets to be replaced are the same.
LEMMA ReplacedOnce ==
    ASSUME flash \in FlashSet, NEW s, NEW t, Replaced(s), Replaced(t)
    PROVE  s = t
<1>1. s \in Nat /\ t \in Nat /\ s <= t /\ t <= s
  BY DEF Replaced, FlashSet
<1> QED
  BY <1>1

\* What the patch makes of a cell of the tree.
LEMMA PatchAt ==
    ASSUME NEW i0 \in Nat, NEW i \in Nat, i < DtbPart
    PROVE  Patch(i0)[DtbAt(i)] = IF i0 <= i /\ i < i0 + NeedleLen
                                 THEN Cell("reg", i - i0) ELSE cpu[DtbAt(i)]
<1>1. PICK a \in Addrs : a = DtbAt(i)
  BY DtbAddr
<1>2. /\ a \in (DTB_LOAD_PA + i0) .. (DTB_LOAD_PA + i0 + NeedleLen - 1)
           <=> i0 <= i /\ i < i0 + NeedleLen
      /\ a - DTB_LOAD_PA - i0 = i - i0
  BY <1>1, SizesAssumption DEF DtbAt
<1>3. Patch(i0)[a] = IF a \in (DTB_LOAD_PA + i0) .. (DTB_LOAD_PA + i0 + NeedleLen - 1)
                     THEN Cell("reg", a - DTB_LOAD_PA - i0) ELSE cpu[a]
  BY Zenon DEF Patch
<1>4. Patch(i0)[a] = IF i0 <= i /\ i < i0 + NeedleLen THEN Cell("reg", i - i0) ELSE cpu[a]
  BY <1>2, <1>3, Zenon
<1> QED
  BY <1>1, <1>4, Zenon

\* What a write-back makes of a cell of the tree.
LEMMA WritebackAt ==
    ASSUME NEW n \in Nat, NEW i \in Nat, i < DtbPart
    PROVE  Writeback(DTB_LOAD_PA, n)[DtbAt(i)] =
               IF i < n THEN cpu[DtbAt(i)] ELSE mem[DtbAt(i)]
<1>1. PICK a \in Addrs : a = DtbAt(i)
  BY DtbAddr
<1>2. a \in DTB_LOAD_PA .. (DTB_LOAD_PA + n - 1) <=> i < n
  BY <1>1, SizesAssumption DEF DtbAt
<1>3. Writeback(DTB_LOAD_PA, n)[a] =
          IF a \in DTB_LOAD_PA .. (DTB_LOAD_PA + n - 1) THEN cpu[a] ELSE mem[a]
  BY Zenon DEF Writeback
<1>4. Writeback(DTB_LOAD_PA, n)[a] = IF i < n THEN cpu[a] ELSE mem[a]
  BY <1>2, <1>3, Zenon
<1> QED
  BY <1>1, <1>4, Zenon

\* A place that is patched is patched as Linux has to find it.
LEMMA PatchPatches ==
    ASSUME flash \in FlashSet, NEW i0, First(i0), NEW i \in Nat, i < DtbPart, Copied(i)
    PROVE  /\ Patched(i, Patch(i0)[DtbAt(i)])
           /\ i >= flash.total => Patch(i0)[DtbAt(i)] = Cell("dtb", i)
<1>1. i0 \in Nat /\ flash.total \in Nat /\ i0 + NeedleLen <= flash.total
  BY DEF First, Places, FlashSet
<1>2. Replaced(i0)
  BY FirstIsReplaced
<1>3. CASE i0 <= i /\ i < i0 + NeedleLen
  <2>1. Patch(i0)[DtbAt(i)] = Cell("reg", i - i0)
    BY <1>1, <1>3, PatchAt
  <2>2. i - i0 \in 0..(NeedleLen - 1) /\ i - (i - i0) = i0 /\ ~(i >= flash.total)
    BY <1>1, <1>3, SizesAssumption
  <2> QED
    BY <1>2, <2>1, <2>2 DEF Patched
<1>4. CASE ~(i0 <= i /\ i < i0 + NeedleLen)
  <2>1. Patch(i0)[DtbAt(i)] = Cell("dtb", i)
    <3>1. Patch(i0)[DtbAt(i)] = cpu[DtbAt(i)]
      BY <1>1, <1>4, PatchAt
    <3> QED
      BY <3>1 DEF Copied
  <2>2. ASSUME NEW k \in 0..(NeedleLen - 1), Replaced(i - k) PROVE FALSE
    <3>1. i - k = i0
      BY <1>2, <2>2, ReplacedOnce
    <3> QED
      BY <1>1, <1>4, <3>1, SizesAssumption
  <2> QED
    BY <2>1, <2>2 DEF Patched
<1> QED
  BY <1>3, <1>4

\* Without a place to patch the tree is to be found as it was in flash.
LEMMA NothingReplaced ==
    ASSUME flash \in FlashSet, Places = {}, NEW i
    PROVE  Patched(i, Cell("dtb", i))
<1>1. ASSUME NEW s PROVE ~Replaced(s)
  BY DEF Replaced, Places
<1> QED
  BY <1>1 DEF Patched

\* Nothing is copied when app_main starts.
LEMMA DInit == ShimInit => DInv
BY DEF ShimInit, DInv

\* No cell lies below the first.
LEMMA NoneBelow == \A i \in Nat : ~(i < 0)
OBVIOUS

\* What is before the load of the tree has nothing to keep.
LEMMA DEarly ==
    ASSUME pc' \notin {"map", "patch", "flush", "jump", "linux"},
           pc' = "load dtb" => done' = 0
    PROVE  DInv'
<1>1. ASSUME NEW i \in Nat PROVE ~(pc' = "load dtb" /\ i < done')
  <2>1. CASE done' = 0
    BY <2>1, NoneBelow, Zenon
  <2>2. CASE pc' # "load dtb"
    BY ONLY <2>2
  <2> QED
    BY ONLY <2>1, <2>2, pc' = "load dtb" => done' = 0
<1>2. pc' \notin {"map", "patch"} /\ pc' # "flush" /\ pc' \notin {"jump", "linux"}
  OBVIOUS
<1> QED
  BY ONLY <1>1, <1>2, Zenon DEF DInv

\* Steps that move on and leave the memory alone.
LEMMA DLate ==
    ASSUME DInv, UNCHANGED <<flash, done, cpu, mem>>,
           \/ pc' = pc
           \/ pc = "map" /\ pc' = "patch"
           \/ pc = "jump" /\ pc' = "linux"
    PROVE  DInv'
BY DEF DInv, Copied, InMemory, InCache, Handed, Patched, Replaced

\* A line that is evicted puts into memory what the CPU reads.
LEMMA DEvict == IInv /\ DInv /\ Evict => DInv'
<1> SUFFICES ASSUME IInv, DInv, Evict PROVE DInv'
  OBVIOUS
<1>1. PICK a \in Addrs : mem' = [mem EXCEPT ![a] = cpu[a]]
  BY DEF Evict
<1>2. mem' = [b \in Addrs |-> IF b = a THEN cpu[a] ELSE mem[b]]
  BY <1>1 DEF IInv
<1>3. UNCHANGED <<pc, flash, done, cpu>>
  BY DEF Evict
<1>4. ASSUME NEW i \in Nat, i < DtbPart
      PROVE  mem'[DtbAt(i)] \in {mem[DtbAt(i)], cpu[DtbAt(i)]}
  BY <1>2, <1>4, DtbAddr
<1> QED
  BY <1>3, <1>4 DEF DInv, Copied, InMemory, InCache, Handed, Patched, Replaced, DtbAt

\* Each turn extends what is copied, and the write-back puts all of it into memory.
LEMMA DLoad == IInv /\ DInv /\ LoadDtb => DInv'
<1> SUFFICES ASSUME IInv, DInv, LoadDtb PROVE DInv'
  OBVIOUS
<1>0. pc = "load dtb" /\ UNCHANGED flash
  BY DEF LoadDtb, Load
<1>b. done \in Nat /\ DTB_LOAD_PA \in Nat /\ DtbPart \in Nat
  BY SizesAssumption DEF IInv, Bounds
<1>1. CASE /\ done < DtbPart
           /\ cpu' = Copy(DTB_LOAD_PA, "dtb", done, Chunk(done, DtbPart))
           /\ done' = done + Chunk(done, DtbPart)
           /\ UNCHANGED <<pc, mem>>
  <2>1. Chunk(done, DtbPart) \in Nat
    BY <1>1, <1>b, ChunkBounds
  <2>2. ASSUME NEW i \in Nat, i < DtbPart, i < done' PROVE Copied(i)'
    <3>1. cpu'[DtbAt(i)] = IF done <= i /\ i < done + Chunk(done, DtbPart)
                           THEN Cell("dtb", i) ELSE cpu[DtbAt(i)]
      <4>1. DTB_LOAD_PA + i \in Addrs
        BY <2>2, DtbAddr DEF DtbAt
      <4> QED
        BY <1>1, <1>b, <2>1, <4>1, CopyAt DEF DtbAt
    <3>2. i < done => cpu[DtbAt(i)] = Cell("dtb", i)
      BY <1>0, <2>2 DEF DInv, Copied
    <3>3. i < done \/ (done <= i /\ i < done + Chunk(done, DtbPart))
      BY <1>1, <1>b, <2>1, <2>2
    <3> QED
      BY <3>1, <3>2, <3>3 DEF Copied, DtbAt
  <2> QED
    BY <1>0, <1>1, <2>2 DEF DInv
<1>2. CASE /\ done >= DtbPart
           /\ mem' = Writeback(DTB_LOAD_PA, DtbPart)
           /\ pc' = "map"
           /\ done' = 0
           /\ UNCHANGED cpu
  <2>1. ASSUME NEW i \in Nat, i < DtbPart PROVE InMemory(i)'
    <3>1. Copied(i)
      <4>1. i < done
        BY <1>2, <1>b, <2>1
      <4> QED
        BY <1>0, <2>1, <4>1 DEF DInv
    <3>2. mem'[DtbAt(i)] = cpu[DtbAt(i)]
      BY <1>2, <1>b, <2>1, WritebackAt
    <3> QED
      BY <1>2, <3>1, <3>2 DEF InMemory, Copied, DtbAt
  <2> QED
    BY <1>2, <2>1 DEF DInv
<1> QED
  BY <1>1, <1>2 DEF LoadDtb, Load

\* The search patches what has to be patched, in the cache.
LEMMA DPatch == IInv /\ DInv /\ PatchDtb => DInv'
<1> SUFFICES ASSUME IInv, DInv, PatchDtb PROVE DInv'
  OBVIOUS
<1>0. pc = "patch" /\ UNCHANGED <<flash, mem>> /\ flash \in FlashSet
  BY DEF PatchDtb, IInv
<1>b. \A i \in Nat : i < DtbPart => InMemory(i)
  BY <1>0 DEF DInv
<1>1. CASE pc' = "flush" /\ \E i0 \in Places : First(i0) /\ cpu' = Patch(i0)
  <2>1. PICK i0 \in Places : First(i0) /\ cpu' = Patch(i0)
    BY <1>1
  <2>2. ASSUME NEW i \in Nat, i < DtbPart PROVE InCache(i)'
    <3>1. mem[DtbAt(i)] = Cell("dtb", i) /\ Copied(i)
      BY <1>b, <2>2 DEF InMemory
    <3>2. /\ Patched(i, cpu'[DtbAt(i)])
          /\ i >= flash.total => cpu'[DtbAt(i)] = Cell("dtb", i)
      BY <1>0, <2>1, <2>2, <3>1, PatchPatches
    <3> QED
      BY <1>0, <3>1, <3>2 DEF InCache, Patched, Replaced, DtbAt
  <2> QED
    BY <1>1, <2>2 DEF DInv
<1>2. CASE pc' = "jump" /\ Places = {} /\ UNCHANGED cpu
  <2>1. ASSUME NEW i \in Nat, i < DtbPart PROVE Handed(i)'
    <3>1. cpu[DtbAt(i)] = Cell("dtb", i) /\ mem[DtbAt(i)] = Cell("dtb", i)
      BY <1>b, <2>1 DEF InMemory, Copied
    <3>2. Patched(i, Cell("dtb", i))
      BY <1>0, <1>2, NothingReplaced
    <3> QED
      BY <1>0, <1>2, <3>1, <3>2 DEF Handed, Patched, Replaced, DtbAt
  <2> QED
    BY <1>2, <2>1 DEF DInv
<1> QED
  BY <1>1, <1>2 DEF PatchDtb

\* The write-back ends where the tree ends, behind every cell that was patched.
LEMMA DFlush == IInv /\ DInv /\ FlushDtb => DInv'
<1> SUFFICES ASSUME IInv, DInv, FlushDtb PROVE DInv'
  OBVIOUS
<1>1. /\ pc = "flush" /\ pc' = "jump" /\ UNCHANGED <<flash, cpu>>
      /\ mem' = Writeback(DTB_LOAD_PA, flash.total) /\ flash.total \in Nat
  BY DEF FlushDtb, IInv, FlashSet
<1>2. ASSUME NEW i \in Nat, i < DtbPart PROVE Handed(i)'
  <2>1. InCache(i)
    BY <1>1, <1>2 DEF DInv
  <2>2. mem'[DtbAt(i)] = IF i < flash.total THEN cpu[DtbAt(i)] ELSE mem[DtbAt(i)]
    BY <1>1, <1>2, WritebackAt
  <2>3. i < flash.total \/ i >= flash.total
    BY <1>1
  <2>4. mem'[DtbAt(i)] = cpu[DtbAt(i)]
    BY <2>1, <2>2, <2>3 DEF InCache
  <2> QED
    BY <1>1, <2>1, <2>4 DEF InCache, Handed, Patched, Replaced, DtbAt
<1> QED
  BY <1>1, <1>2 DEF DInv

\* Every step keeps what is known of the tree.
LEMMA DStep == IInv /\ DInv /\ [ShimNext]_shimVars => DInv'
<1> SUFFICES ASSUME IInv, DInv, [ShimNext]_shimVars PROVE DInv'
  OBVIOUS
<1>1. CASE KickConfig \/ KickAssert \/ KickRelease \/ InitSdmmc \/ FindPartitions
  <2>1. pc' \in {"assert", "release", "sdmmc", "find", "probe"}
    BY <1>1 DEF KickConfig, KickAssert, KickRelease, InitSdmmc, FindPartitions
  <2> QED
    BY <2>1, DEarly
<1>2. CASE ProbeKernel
  BY <1>2, DEarly DEF ProbeKernel
<1>3. CASE LoadKernel
  <2>1. pc' \in {"load kernel", "load dtb"} /\ (pc' = "load dtb" => done' = 0)
    BY <1>3 DEF LoadKernel, Load
  <2> QED
    BY <2>1, DEarly
<1>4. CASE MapRootfs \/ DoBoot \/ UNCHANGED shimVars
  BY <1>4, DLate DEF MapRootfs, DoBoot, shimVars
<1>5. CASE ShimFails
  <2>1. pc' = "config"
    BY <1>5 DEF ShimFails, GpioFails, NoPartition, NoMagic, MmapFails, NoRootfs, BadDtb,
                Fails, Restart
  <2> QED
    BY <2>1, DEarly
<1> QED
  BY <1>1, <1>2, <1>3, <1>4, <1>5, DLoad, DPatch, DFlush, DEvict DEF ShimNext, ShimStep

\* Whatever the flash holds, wherever its placeholders are and whenever a cache
\* line is evicted: Linux finds the device tree of the flash, in memory, with the
\* window of the root file system in place of the first placeholder inside it and
\* nothing else changed.
THEOREM DtbSafe == Spec => []DtbIntact
<1>1. ShimSpec => [](IInv /\ DInv)
  BY InitInv, DInit, NextInv, DStep, PTL DEF ShimSpec
<1>2. DInv => DtbIntact
  <2> SUFFICES ASSUME DInv, pc = "linux", NEW i \in 0..(DtbPart - 1)
               PROVE  Patched(i, mem[DtbAt(i)])
    BY DEF DtbIntact, Patched, DtbAt
  <2>1. i \in Nat /\ i < DtbPart
    BY SizesAssumption
  <2> QED
    BY <2>1 DEF DInv, Handed
<1> QED
  BY <1>1, <1>2, SpecShim, PTL

----------------------------------------------------------------------------
(* The first process.                                                      *)

\* What the invariant says of the descriptors, wherever /init is: all three
\* standard ones are open or none is, and no other.
Standard == DOMAIN fds \in {{}, {0, 1, 2}}

\* open takes the lowest descriptor that is free: the first one, or the one
\* behind the three.
LEMMA LowestFree == Lowest({}) = 0 /\ Lowest({0, 1, 2}) = 3
<1>1. Cardinality({}) = 0
  BY FS_EmptySet
<1>2. Cardinality({0, 1, 2}) = 3
  <2>1. /\ IsFiniteSet({2}) /\ Cardinality({2}) = 1
    BY FS_Singleton
  <2>2. IsFiniteSet({1, 2}) /\ Cardinality({1, 2}) = 2
    <3>1. {1, 2} = {2} \cup {1} /\ 1 \notin {2}
      OBVIOUS
    <3> QED
      BY <2>1, <3>1, FS_AddElement
  <2>3. {0, 1, 2} = {1, 2} \cup {0} /\ 0 \notin {1, 2}
    OBVIOUS
  <2> QED
    BY <2>2, <2>3, FS_AddElement
<1>3. Lowest({}) = 0
  <2> DEFINE P(f) == f \notin {} /\ \A g \in 0..(f - 1) : g \in {}
  <2>1. Lowest({}) = CHOOSE f \in 0..0 : P(f)
    BY <1>1 DEF Lowest
  <2>2. P(0) /\ \A f \in 0..0 : f = 0
    OBVIOUS
  <2> HIDE DEF P
  <2>3. 0 \in 0..0
    OBVIOUS
  <2> QED
    BY <2>1, <2>2, <2>3, Zenon
<1>4. Lowest({0, 1, 2}) = 3
  <2> DEFINE P(f) == f \notin {0, 1, 2} /\ \A g \in 0..(f - 1) : g \in {0, 1, 2}
  <2>1. Lowest({0, 1, 2}) = CHOOSE f \in 0..3 : P(f)
    BY <1>2 DEF Lowest
  <2>2. P(3) /\ \A f \in 0..3 : P(f) => f = 3
    OBVIOUS
  <2> HIDE DEF P
  <2>3. 3 \in 0..3
    OBVIOUS
  <2> QED
    BY <2>1, <2>2, <2>3, Zenon
<1> QED
  BY <1>3, <1>4

\* Duplicating the console and closing it again leaves the standard three.
LEMMA DupStandard == Standard => DOMAIN DupAndClose(Lowest(DOMAIN fds)) = {0, 1, 2}
<1>1. ASSUME NEW fd PROVE
        DOMAIN DupAndClose(fd) =
            ((DOMAIN fds \cup {fd}) \cup {0, 1, 2}) \ (IF fd > 2 THEN {fd} ELSE {})
  BY DEF DupAndClose, Dup, Opened
<1>2. CASE DOMAIN fds = {}
  <2>1. Lowest(DOMAIN fds) = 0
    BY <1>2, LowestFree
  <2>2. DOMAIN DupAndClose(0) = (({} \cup {0}) \cup {0, 1, 2}) \ {}
    <3>1. ~(0 > 2)
      OBVIOUS
    <3>2. DOMAIN DupAndClose(0) =
            ((DOMAIN fds \cup {0}) \cup {0, 1, 2}) \ (IF 0 > 2 THEN {0} ELSE {})
      BY <1>1, Zenon
    <3> QED
      BY <1>2, <3>1, <3>2, Zenon
  <2>3. (({} \cup {0}) \cup {0, 1, 2}) \ {} = {0, 1, 2}
    OBVIOUS
  <2> QED
    BY <2>1, <2>2, <2>3
<1>3. CASE DOMAIN fds = {0, 1, 2}
  <2>1. Lowest(DOMAIN fds) = 3
    BY <1>3, LowestFree
  <2>2. DOMAIN DupAndClose(3) = (({0, 1, 2} \cup {3}) \cup {0, 1, 2}) \ {3}
    <3>1. 3 > 2
      OBVIOUS
    <3>2. DOMAIN DupAndClose(3) =
            ((DOMAIN fds \cup {3}) \cup {0, 1, 2}) \ (IF 3 > 2 THEN {3} ELSE {})
      BY <1>1, Zenon
    <3> QED
      BY <1>3, <3>1, <3>2, Zenon
  <2>3. (({0, 1, 2} \cup {3}) \cup {0, 1, 2}) \ {3} = {0, 1, 2}
    OBVIOUS
  <2> QED
    BY <2>1, <2>2, <2>3
<1> QED
  BY <1>2, <1>3 DEF Standard

\* No step of /init opens a descriptor for good but the standard three.
LEMMA StandardKept == Spec => []Standard
<1>1. Init => Standard
  BY DEF Init, InitInit, Standard
<1>2. Standard /\ [Next]_vars => Standard'
  <2> SUFFICES ASSUME Standard, [Next]_vars PROVE Standard'
    OBVIOUS
  <2>1. CASE OpenConsole
    BY <2>1, DupStandard DEF OpenConsole, Standard
  <2>2. CASE UNCHANGED fds
    BY <2>2 DEF Standard
  <2> QED
    BY <2>1, <2>2 DEF Next, vars, initVars, KernelStarts, InitNext, Mount, ExecInit, ExecShell
<1> QED
  BY <1>1, <1>2, PTL DEF Spec

\* Whether devtmpfs mounts or not, and whether the kernel had opened the console
\* or not: what takes over from /init has all three standard descriptors or none.
THEOREM StdioSafe == Spec => []StdioWhole
<1>1. Standard => StdioWhole
  BY DEF Standard, StdioWhole
<1> QED
  BY <1>1, StandardKept, PTL

----------------------------------------------------------------------------
(* Types.                                                                  *)

\* The part of the type invariant that the other invariants do not give.
TInv ==
    /\ flash \in Flashes
    /\ cpu \in [Addrs -> Cells] /\ mem \in [Addrs -> Cells]
    /\ rootfs \in {Unmapped, [va |-> VA, size |-> RootfsPart]}
    /\ c6.reset \in {0, 1} /\ c6.strap \in {0, 1}
    /\ c6.runs \in {"nothing", "app", "download"}
    /\ boots \in 0..MaxBoots

\* A cell of a part is a cell.
LEMMA CellTyped ==
    ASSUME NEW part \in {"kernel", "dtb", "reg"}, NEW i \in Nat
    PROVE  Cell(part, i) \in Cells
BY DEF Cell, Cells

\* The initial states are typed.
LEMMA TInit == ShimInit => TInv
BY SizesAssumption DEF ShimInit, TInv, Cells, Unmapped

\* A turn of a load writes cells, and copies of cells are cells.
LEMMA LoadTyped ==
    ASSUME TInv, NEW base \in Nat, NEW part \in {"kernel", "dtb"}, NEW n \in Nat,
           done \in Nat
    PROVE  Copy(base, part, done, n) \in [Addrs -> Cells]
<1> SUFFICES ASSUME NEW a \in Addrs
             PROVE  (IF a \in (base + done) .. (base + done + n - 1)
                     THEN Cell(part, a - base) ELSE cpu[a]) \in Cells
  BY DEF Copy
<1>1. CASE a \in (base + done) .. (base + done + n - 1)
  <2>1. a - base \in Nat
    BY <1>1
  <2> QED
    BY <1>1, <2>1, CellTyped
<1>2. CASE a \notin (base + done) .. (base + done + n - 1)
  BY <1>2 DEF TInv
<1> QED
  BY <1>1, <1>2

\* The patch writes cells.
LEMMA PatchTyped ==
    ASSUME TInv, NEW i \in Nat
    PROVE  Patch(i) \in [Addrs -> Cells]
<1> SUFFICES ASSUME NEW a \in Addrs
             PROVE  (IF a \in (DTB_LOAD_PA + i) .. (DTB_LOAD_PA + i + NeedleLen - 1)
                     THEN Cell("reg", a - DTB_LOAD_PA - i) ELSE cpu[a]) \in Cells
  BY DEF Patch
<1>1. CASE a \in (DTB_LOAD_PA + i) .. (DTB_LOAD_PA + i + NeedleLen - 1)
  <2>1. a - DTB_LOAD_PA - i \in Nat
    BY <1>1, SizesAssumption
  <2> QED
    BY <1>1, <2>1, CellTyped
<1>2. CASE a \notin (DTB_LOAD_PA + i) .. (DTB_LOAD_PA + i + NeedleLen - 1)
  BY <1>2 DEF TInv
<1> QED
  BY <1>1, <1>2

\* A write-back moves cells.
LEMMA WritebackTyped ==
    ASSUME TInv, NEW lo, NEW n
    PROVE  Writeback(lo, n) \in [Addrs -> Cells]
BY DEF Writeback, TInv

\* Every step keeps the types.
LEMMA TStep == IInv /\ TInv /\ [ShimNext]_shimVars => TInv'
<1> SUFFICES ASSUME IInv, TInv, [ShimNext]_shimVars PROVE TInv'
  OBVIOUS
<1>0. done \in Nat /\ size \in Nat /\ DtbPart \in Nat
  BY SizesAssumption DEF IInv, Bounds
<1>1. CASE KickConfig \/ KickAssert \/ KickRelease
  BY <1>1 DEF KickConfig, KickAssert, KickRelease, Pin, TInv
<1>2. CASE InitSdmmc \/ FindPartitions \/ ProbeKernel \/ MapRootfs \/ DoBoot
           \/ UNCHANGED shimVars
  BY <1>2 DEF InitSdmmc, FindPartitions, ProbeKernel, MapRootfs, DoBoot, shimVars, TInv
<1>3. CASE LoadKernel \/ LoadDtb
  <2>1. UNCHANGED <<flash, rootfs, c6, boots>>
    BY <1>3 DEF LoadKernel, LoadDtb, Load
  <2>2. CASE /\ \/ /\ done < size
                   /\ cpu' = Copy(KERNEL_LOAD_PA, "kernel", done, Chunk(done, size))
                \/ /\ done < DtbPart
                   /\ cpu' = Copy(DTB_LOAD_PA, "dtb", done, Chunk(done, DtbPart))
             /\ UNCHANGED mem
    <3>1. cpu' \in [Addrs -> Cells]
      <4>1. done < size => Chunk(done, size) \in Nat
        BY <1>0, ChunkBounds
      <4>2. done < DtbPart => Chunk(done, DtbPart) \in Nat
        BY <1>0, ChunkBounds
      <4>3. KERNEL_LOAD_PA \in Nat /\ DTB_LOAD_PA \in Nat
        BY SizesAssumption
      <4> QED
        BY <1>0, <2>2, <4>1, <4>2, <4>3, LoadTyped
    <3> QED
      BY <2>1, <2>2, <3>1 DEF TInv
  <2>3. CASE /\ UNCHANGED cpu
             /\ \E lo, n : mem' = Writeback(lo, n)
    BY <2>1, <2>3, WritebackTyped DEF TInv
  <2> QED
    BY <1>3, <2>2, <2>3 DEF LoadKernel, LoadDtb, Load
<1>4. CASE PatchDtb
  <2>1. UNCHANGED <<flash, mem, rootfs, c6, boots>>
    BY <1>4 DEF PatchDtb
  <2>2. CASE \E i \in Places : cpu' = Patch(i)
    <3>1. PICK i \in Places : cpu' = Patch(i)
      BY <2>2
    <3>2. i \in Nat
      BY DEF IInv, Places, FlashSet
    <3> QED
      BY <2>1, <3>1, <3>2, PatchTyped DEF TInv
  <2>3. CASE UNCHANGED cpu
    BY <2>1, <2>3 DEF TInv
  <2> QED
    BY <1>4, <2>2, <2>3 DEF PatchDtb
<1>5. CASE FlushDtb
  BY <1>5, WritebackTyped DEF FlushDtb, TInv
<1>6. CASE Evict
  BY <1>6 DEF Evict, TInv
<1>7. CASE ShimFails
  <2>1. Restart
    BY <1>7 DEF ShimFails, GpioFails, NoPartition, NoMagic, MmapFails, NoRootfs, BadDtb,
                Fails
  <2>2. boots' \in 0..MaxBoots
    BY <2>1, SizesAssumption DEF Restart, TInv
  <2> QED
    BY <2>1, <2>2 DEF Restart, TInv
<1> QED
  BY <1>1, <1>2, <1>3, <1>4, <1>5, <1>6, <1>7 DEF ShimNext, ShimStep

\* Every variable keeps its type: no size and no cursor outgrows its partition,
\* no cell of the memory is anything but a cell of a part.
THEOREM TypeCorrect == Spec => []TypeOK
<1> DEFINE Ipcs == {"kernel", "mount", "open", "exec init", "exec sh", "init", "sh",
                    "exited", "panic"}
           PInv == ipc \in Ipcs /\ devs \in BOOLEAN
<1>1. Spec => []PInv
  <2>1. Init => PInv
    BY DEF Init, InitInit
  <2>2. PInv /\ [Next]_vars => PInv'
    BY DEF Next, vars, initVars, KernelStarts, InitNext, Mount, OpenConsole, ExecInit, ExecShell
  <2> QED
    BY <2>1, <2>2, PTL DEF Spec
<1>2. ShimSpec => [](IInv /\ TInv)
  BY InitInv, TInit, NextInv, TStep, PTL DEF ShimSpec
<1>3. IInv /\ TInv /\ HInv => ShimTypeOK
  <2> SUFFICES ASSUME IInv, TInv, HInv PROVE ShimTypeOK
    OBVIOUS
  <2>1. size \in 0..KernPart
    BY SizesAssumption DEF IInv, Bounds
  <2>2. done \in 0..(KernPart + DtbPart)
    <3>1. /\ size \in Nat /\ size <= KernPart /\ done \in Nat
          /\ done = 0 \/ done <= size \/ done <= DtbPart
      BY Zenon DEF IInv, Loads, Bounds
    <3>2. KernPart \in Nat /\ DtbPart \in Nat
      BY SizesAssumption
    <3> QED
      BY ONLY <3>1, <3>2
  <2>3. c6 \in [reset : {0, 1}, strap : {0, 1}, runs : {"nothing", "app", "download"}]
    BY DEF TInv, HInv
  <2> QED
    BY <2>1, <2>2, <2>3 DEF ShimTypeOK, IInv, TInv, HInv
<1>4. Standard /\ PInv /\ ShimTypeOK => TypeOK
  BY DEF Standard, TypeOK
<1> QED
  BY <1>1, <1>2, <1>3, <1>4, StandardKept, HInvariance, SpecShim, PTL
=============================================================================
