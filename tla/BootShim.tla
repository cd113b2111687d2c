------------------------------ MODULE BootShim ------------------------------
(***************************************************************************)
(* The boot shim (linux-native/main/main.c): it kicks the C6, prepares the *)
(* SD slot, copies the kernel and the device tree from flash to PSRAM,     *)
(* maps the root file system, writes where it is mapped into the device    *)
(* tree, and jumps.  Every error path is esp_restart.                      *)
(*                                                                         *)
(* Memory is a function from addresses to cells.  The CPU writes through a *)
(* write-back cache: cpu is what it reads back, mem is what PSRAM holds    *)
(* and what instruction fetch sees after fence.i.  A dirty line may be     *)
(* evicted at any moment.  A cell is the unit of every size here; the      *)
(* placeholder of the device tree is NeedleLen cells long.                 *)
(***************************************************************************)
EXTENDS Integers, FiniteSets

CONSTANTS
    Page,            \* CONFIG_MMU_PAGE_SIZE
    KernPart,        \* sizes of the three partitions
    DtbPart,
    RootfsPart,
    KERNEL_LOAD_PA,
    DTB_LOAD_PA,
    PsramEnd,        \* first address after PSRAM
    NeedleLen,       \* cells of the placeholder, and of what replaces it
    Flashes,         \* the flash contents considered, a subset of FlashSet
    Resets,          \* contents of the clock register when app_main starts
    MaxBoots         \* bound on restarts

Addrs == 0 .. (PsramEnd - 1)

\* What the shim reads of the three partitions.  image_size is the kernel's
\* own claim, total the device tree's; needles are the offsets at which the
\* placeholder stands.  A missing partition is one esp_partition_find_first
\* does not find.
FlashSet ==
    [found : SUBSET {"kernel", "dtb", "rootfs"},
     magic : BOOLEAN, image_size : Nat,
     dtb_magic : BOOLEAN, total : Nat, needles : SUBSET Nat]

ASSUME SizesAssumption ==
    /\ Page \in Nat \ {0} /\ NeedleLen \in Nat \ {0} /\ MaxBoots \in Nat
    /\ KernPart \in Nat \ {0} /\ DtbPart \in Nat \ {0} /\ RootfsPart \in Nat \ {0}
    /\ KERNEL_LOAD_PA \in Nat /\ DTB_LOAD_PA \in Nat /\ PsramEnd \in Nat

\* partitions.csv and the two load addresses: the kernel partition fits below
\* the device tree, and both fit into PSRAM.
ASSUME LayoutAssumption ==
    /\ KERNEL_LOAD_PA + KernPart <= DTB_LOAD_PA
    /\ DTB_LOAD_PA + DtbPart <= PsramEnd

ASSUME FlashesAssumption ==
    /\ Flashes \subseteq FlashSet
    /\ \A f \in Flashes : IsFiniteSet(f.needles)

\* A word of 32 bits is the set of the bits that are 1 in it, so v & ~clr | set
\* is a difference and a union.
Word == SUBSET (0..31)

ASSUME ResetsAssumption == Resets \subseteq Word

VARIABLES
    pc,       \* where app_main is
    flash,    \* the contents of flash
    size,     \* kern_size
    done,     \* cells copied by load_partition_mmap
    cpu,      \* PSRAM as the CPU sees it
    mem,      \* PSRAM itself
    rootfs,   \* the window left mapped for Linux
    c6,       \* the C6: its reset line, its boot strap, what it booted into
    ctrl02,   \* PERI_CLK_CTRL02: the SDMMC divider, and the display's clock source
    boots     \* restarts so far

shimVars == <<pc, flash, size, done, cpu, mem, rootfs, c6, ctrl02, boots>>

Cell(part, i) == <<part, i>>
Garbage  == Cell("garbage", 0)
VA       == "cache window"
Unmapped == [va |-> "none", size |-> 0]

\* A cell: part of the kernel or of the device tree, or one of the cells
\* written over the placeholder.
Cells == {Garbage} \cup ({"kernel", "dtb", "reg"} \X Nat)

----------------------------------------------------------------------------
(* esp_restart, and the helpers of the loads.                              *)

\* Every check that fails ends here: the P4 starts over with what PSRAM holds,
\* the C6 keeps its pins until it is kicked again.
Restart ==
    /\ boots < MaxBoots
    /\ boots' = boots + 1
    /\ pc' = "config"
    /\ size' = 0 /\ done' = 0
    /\ cpu' = mem
    /\ rootfs' = Unmapped
    /\ UNCHANGED <<flash, mem, c6, ctrl02>>

Fails(at) == pc = at /\ Restart

\* The cells one turn of the copy loop moves, and the next value of done.
\* esp_partition_mmap wants an offset that is a multiple of the page.
PartOff(d)   == d - (d % Page)
Chunk(d, sz) == LET intra == d - PartOff(d)
                IN IF Page - intra <= sz - d THEN Page - intra ELSE sz - d

\* Mutant: the destination does not move with done.
CopyNoAdvance(base, part, d, n) ==
    [a \in Addrs |-> IF a \in base .. (base + n - 1) THEN Cell(part, a - base + d) ELSE cpu[a]]

\* memcpy(dst + done, mapped + intra, n)
Copy(base, part, d, n) ==
    [a \in Addrs |-> IF a \in (base + d) .. (base + d + n - 1)
                     THEN Cell(part, a - base) ELSE cpu[a]]

\* Mutant: the last cell of the range is not written back.
WritebackShort(lo, n) ==
    [a \in Addrs |-> IF a \in lo .. (lo + n - 2) THEN cpu[a] ELSE mem[a]]

\* cache_hal_writeback_addr
Writeback(lo, n) ==
    [a \in Addrs |-> IF a \in lo .. (lo + n - 1) THEN cpu[a] ELSE mem[a]]

\* One turn of load_partition_mmap, or the write-back after the last one.
Load(at, base, part, sz, next) ==
    /\ pc = at
    /\ \/ /\ done < sz
          /\ cpu' = Copy(base, part, done, Chunk(done, sz))
          /\ done' = done + Chunk(done, sz)
          /\ UNCHANGED <<pc, mem>>
       \/ /\ done >= sz
          /\ mem' = Writeback(base, sz)
          /\ pc' = next
          /\ done' = 0
          /\ UNCHANGED cpu
    /\ UNCHANGED <<flash, size, rootfs, c6, ctrl02, boots>>

----------------------------------------------------------------------------
(* boot_shim_kick_c6.                                                      *)

Pin(r, s) == /\ c6' = [reset |-> r, strap |-> s,
                       runs |-> CASE r = 0 -> "nothing"
                                  [] c6.reset = 0 /\ r = 1 ->
                                       IF s = 1 THEN "app" ELSE "download"
                                  [] OTHER -> c6.runs]
             /\ UNCHANGED <<flash, size, done, cpu, mem, rootfs, ctrl02, boots>>

\* Mutant: the boot strap is left as it was.
KickNoStrap == pc = "config"  /\ pc' = "assert"  /\ Pin(1, c6.strap)

\* gpio_config makes both pins outputs, then GPIO0 of the C6 is set to boot the
\* application and the reset line is idle.
KickConfig  == pc = "config"  /\ pc' = "assert"  /\ Pin(1, 1)
GpioFails   == Fails("config")
KickAssert  == pc = "assert"  /\ pc' = "release" /\ Pin(0, c6.strap)
KickRelease == pc = "release" /\ pc' = "sdmmc"   /\ Pin(1, c6.strap)

\* (2^n - 1) << shift, which is 0xF, 3 or 1 in its place.
Ones(n, shift) == shift .. (shift + n - 1)

PERI02_LS_EDGE_CFG_UPDATE     == {8}
PERI02_LS_EDGE_L_SHIFT        == 9
PERI02_LS_EDGE_H_SHIFT        == 13
PERI02_LS_EDGE_N_SHIFT        == 17
PERI02_LS_SLF_EDGE_SEL_SHIFT  == 21
PERI02_LS_DRV_EDGE_SEL_SHIFT  == 23
PERI02_LS_SAM_EDGE_SEL_SHIFT  == 25
PERI02_CLK_EN                 == {27, 28, 29}   \* SLF, DRV and SAM
MIPI_DSI_DPHY_CLK_SRC_SEL     == {30, 31}

setbits(r, mask)         == r \cup mask
clrsetbits(r, clr, set)  == (r \ clr) \cup set

EdgeFields == Ones(4, PERI02_LS_EDGE_L_SHIFT) \cup Ones(4, PERI02_LS_EDGE_H_SHIFT)
                \cup Ones(4, PERI02_LS_EDGE_N_SHIFT)
                \cup Ones(2, PERI02_LS_SLF_EDGE_SEL_SHIFT)
                \cup Ones(2, PERI02_LS_DRV_EDGE_SEL_SHIFT)
                \cup Ones(2, PERI02_LS_SAM_EDGE_SEL_SHIFT)
DivideBy4  == Ones(2, PERI02_LS_EDGE_L_SHIFT) \cup Ones(1, PERI02_LS_EDGE_H_SHIFT)
                \cup Ones(2, PERI02_LS_EDGE_N_SHIFT)
                \cup Ones(1, PERI02_LS_DRV_EDGE_SEL_SHIFT) \cup PERI02_CLK_EN

\* The divider and the phases, then a strobe of the update bit: three
\* read-modify-writes of a register that is not the shim's alone.
Divider(r) ==
    clrsetbits(setbits(clrsetbits(r, EdgeFields, DivideBy4), PERI02_LS_EDGE_CFG_UPDATE),
               PERI02_LS_EDGE_CFG_UPDATE, {})

\* boot_shim_init_sdmmc
InitSdmmc ==
    /\ pc = "sdmmc"
    /\ pc' = "find"
    /\ ctrl02' = Divider(ctrl02)
    /\ UNCHANGED <<flash, size, done, cpu, mem, rootfs, c6, boots>>

----------------------------------------------------------------------------
(* app_main.                                                               *)

FindPartitions ==
    /\ pc = "find"
    /\ {"kernel", "dtb"} \subseteq flash.found
    /\ pc' = "probe"
    /\ UNCHANGED <<flash, size, done, cpu, mem, rootfs, c6, ctrl02, boots>>

NoPartition == ~({"kernel", "dtb"} \subseteq flash.found) /\ Fails("find")

\* Mutant: the header is believed.
BelievedSize(f) == IF f.image_size = 0 THEN KernPart ELSE f.image_size

\* What probe_kernel_size returns for an image with the magic: the size in the
\* header, or all of the partition when that size makes no sense.
KernelSize(f) == IF f.image_size = 0 \/ f.image_size > KernPart
                 THEN KernPart ELSE f.image_size

ProbeKernel ==
    /\ pc = "probe"
    /\ flash.magic
    /\ size' = KernelSize(flash)
    /\ pc' = "load kernel"
    /\ UNCHANGED <<flash, done, cpu, mem, rootfs, c6, ctrl02, boots>>

NoMagic == ~flash.magic /\ Fails("probe")

LoadKernel == Load("load kernel", KERNEL_LOAD_PA, "kernel", size, "load dtb")
LoadDtb    == Load("load dtb", DTB_LOAD_PA, "dtb", DtbPart, "map")

\* esp_partition_mmap fails: in the probe, in a turn of a load, for the rootfs.
MmapFails == \/ Fails("probe")
             \/ done < size    /\ Fails("load kernel")
             \/ done < DtbPart /\ Fails("load dtb")
             \/ Fails("map")

\* The window of the rootfs is mapped for good and walked once.
MapRootfs ==
    /\ pc = "map"
    /\ "rootfs" \in flash.found
    /\ rootfs' = [va |-> VA, size |-> RootfsPart]
    /\ pc' = "patch"
    /\ UNCHANGED <<flash, size, done, cpu, mem, c6, ctrl02, boots>>

NoRootfs == "rootfs" \notin flash.found /\ Fails("map")

\* The header of the copy in PSRAM is checked; 2 stands for its 16 bytes.
DtbSane == flash.dtb_magic /\ flash.total >= 2 /\ flash.total <= DtbPart
BadDtb  == ~DtbSane /\ Fails("patch")

\* Mutant: the bound of the search is off by one.
PlacesLate == {i \in flash.needles : i + NeedleLen <= flash.total + 1}

\* Where the placeholder lies inside the tree.
Places == {i \in flash.needles : i + NeedleLen <= flash.total}

First(i) == i \in Places /\ \A j \in Places : i <= j

\* The first placeholder becomes the address and the size of the mapping.
Patch(i) == [a \in Addrs |-> IF a \in (DTB_LOAD_PA + i) .. (DTB_LOAD_PA + i + NeedleLen - 1)
                             THEN Cell("reg", a - DTB_LOAD_PA - i) ELSE cpu[a]]

\* Mutant: the patched tree is left in the cache.
PatchUnflushed ==
    /\ pc = "patch" /\ DtbSane
    /\ \E i \in Places : First(i) /\ cpu' = Patch(i)
    /\ pc' = "jump"
    /\ UNCHANGED <<flash, size, done, mem, rootfs, c6, ctrl02, boots>>

\* Without a placeholder the shim warns and goes on.
PatchDtb ==
    /\ pc = "patch"
    /\ DtbSane
    /\ \/ /\ \E i \in Places : First(i) /\ cpu' = Patch(i)
          /\ pc' = "flush"
       \/ /\ Places = {}
          /\ pc' = "jump"
          /\ UNCHANGED cpu
    /\ UNCHANGED <<flash, size, done, mem, rootfs, c6, ctrl02, boots>>

FlushDtb ==
    /\ pc = "flush"
    /\ mem' = Writeback(DTB_LOAD_PA, flash.total)
    /\ pc' = "jump"
    /\ UNCHANGED <<flash, size, done, cpu, rootfs, c6, ctrl02, boots>>

\* do_boot: interrupts off, PSRAM opened to user mode, fence.i, jump.
DoBoot ==
    /\ pc = "jump"
    /\ pc' = "linux"
    /\ UNCHANGED <<flash, size, done, cpu, mem, rootfs, c6, ctrl02, boots>>

\* The cache evicts a dirty line on its own.
Evict ==
    /\ pc # "linux"
    /\ \E a \in Addrs : /\ cpu[a] # mem[a]
                        /\ mem' = [mem EXCEPT ![a] = cpu[a]]
    /\ UNCHANGED <<pc, flash, size, done, cpu, rootfs, c6, ctrl02, boots>>

----------------------------------------------------------------------------

Pcs == {"config", "assert", "release", "sdmmc", "find", "probe", "load kernel",
        "load dtb", "map", "patch", "flush", "jump", "linux"}

ShimInit ==
    /\ pc = "config"
    /\ flash \in Flashes
    /\ size = 0 /\ done = 0 /\ boots = 0
    /\ cpu = [a \in Addrs |-> Garbage]
    /\ mem = cpu
    /\ rootfs = Unmapped
    /\ c6 = [reset |-> 1, strap |-> 0, runs |-> "nothing"]
    /\ ctrl02 \in Resets

ShimStep ==
    \/ KickConfig \/ KickAssert \/ KickRelease \/ InitSdmmc
    \/ FindPartitions \/ ProbeKernel \/ LoadKernel \/ LoadDtb
    \/ MapRootfs \/ PatchDtb \/ FlushDtb \/ DoBoot

ShimFails == GpioFails \/ NoPartition \/ NoMagic \/ MmapFails \/ NoRootfs \/ BadDtb

ShimNext == ShimStep \/ ShimFails \/ Evict

ShimTypeOK ==
    /\ pc \in Pcs
    /\ flash \in Flashes
    /\ size \in 0..KernPart
    /\ done \in 0..(KernPart + DtbPart)
    /\ cpu \in [Addrs -> Cells] /\ mem \in [Addrs -> Cells]
    /\ rootfs \in {Unmapped, [va |-> VA, size |-> RootfsPart]}
    /\ c6 \in [reset : {0, 1}, strap : {0, 1}, runs : {"nothing", "app", "download"}]
    /\ ctrl02 \in Word
    /\ boots \in 0..MaxBoots

----------------------------------------------------------------------------
(* Safety.                                                                 *)

\* What the jump reaches is the kernel that was in flash, all of it, in memory
\* and not only in the cache: no later copy overlaps it, no page is skipped.
KernelIntact ==
    pc = "linux" => \A i \in 0..(size - 1) : mem[KERNEL_LOAD_PA + i] = Cell("kernel", i)

\* The offset at which the shim has to have written: the first placeholder that
\* lies inside the tree.
Replaced(s) == /\ s \in flash.needles
               /\ s + NeedleLen <= flash.total
               /\ \A j \in flash.needles : s <= j

\* Linux finds the device tree as it was in flash, except that the first
\* placeholder inside it names the window that is mapped; what lies behind the
\* tree is untouched, and everything is in memory.
DtbIntact ==
    pc = "linux" =>
        \A i \in 0..(DtbPart - 1) :
            \/ /\ mem[DTB_LOAD_PA + i] = Cell("dtb", i)
               /\ \A k \in 0..(NeedleLen - 1) : ~Replaced(i - k)
            \/ \E k \in 0..(NeedleLen - 1) :
                  mem[DTB_LOAD_PA + i] = Cell("reg", k) /\ Replaced(i - k)

\* The window Linux will read the root file system through is still mapped, and
\* the C6 runs its application, not its loader, whatever failed and was retried.
HandOver == pc = "linux" => rootfs.va = VA /\ c6.runs = "app"

\* Preparing the SD slot never changes bits [31:30], the clock source of the
\* display, which share its register (main.c:303): none of the masks and shifts
\* of the divider reaches them.
DisplayClockKept ==
    [][ctrl02' \cap MIPI_DSI_DPHY_CLK_SRC_SEL = ctrl02 \cap MIPI_DSI_DPHY_CLK_SRC_SEL]_shimVars
=============================================================================
