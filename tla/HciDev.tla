------------------------------- MODULE HciDev -------------------------------
(***************************************************************************)
(* The life of hci0 in the esp-hosted driver: the bt_enable knob (patch    *)
(* 0035), the delayed work that registers the device, and the boot-up      *)
(* event of the C6, which takes it away (patches 0008 and 0030).  One CPU  *)
(* without preemption: a step ends where the code may sleep.               *)
(***************************************************************************)
EXTENDS Naturals

CONSTANT MaxBoots    \* bound on boots of the C6, the first one included

ASSUME HciDevAssumption == MaxBoots \in Nat \ {0}

VARIABLES
    capable,     \* the capabilities of the slave include Bluetooth over SPI
    c6boots,     \* how often the C6 booted
    events,      \* boot-up events not handled yet
    bpc,         \* where process_event_esp_bootup is
    init_done,   \* ESP_INIT_DONE
    knob,        \* esp_bt_enable
    bt_pending,  \* bt_init_work is scheduled, with or without delay
    bt_running,  \* it is inside hci_register_dev
    hcidev,      \* adapter->hcidev: NULL, new, up, leaving, dangling
    spoiled      \* bound on boots and registrations that fail

hdVars == <<capable, c6boots, events, bpc, init_done, knob, bt_pending, bt_running, hcidev, spoiled>>

MaxSpoiled == 1

\* schedule_delayed_work does nothing for a work that is pending.
BtEnableSet ==
    /\ knob' = TRUE
    /\ bt_pending' = (bt_pending \/ (~knob /\ init_done))
    /\ UNCHANGED <<capable, c6boots, events, bpc, init_done, bt_running, hcidev, spoiled>>

\* esp_bt_init_work up to hci_register_dev
BtInitWork ==
    /\ bt_pending /\ ~bt_running
    /\ bt_pending' = FALSE
    /\ IF init_done /\ capable /\ hcidev = "NULL"
       THEN hcidev' = "new" /\ bt_running' = TRUE
       ELSE UNCHANGED <<hcidev, bt_running>>
    /\ UNCHANGED <<capable, c6boots, events, bpc, init_done, knob, spoiled>>

\* A registration that fails frees the device and keeps the pointer.
BtRegistered ==
    /\ bt_running
    /\ bt_running' = FALSE
    /\ \/ hcidev' = "up" /\ UNCHANGED spoiled
       \/ hcidev' = "dangling" /\ spoiled < MaxSpoiled /\ spoiled' = spoiled + 1
    /\ UNCHANGED <<capable, c6boots, events, bpc, init_done, knob, bt_pending>>

----------------------------------------------------------------------------
(* process_event_esp_bootup, which runs on a queue of its own.             *)

C6Reboots ==
    /\ c6boots < MaxBoots
    /\ c6boots' = c6boots + 1
    /\ events' = events + 1
    /\ UNCHANGED <<capable, bpc, init_done, knob, bt_pending, bt_running, hcidev, spoiled>>

BootBegins ==
    /\ bpc = "idle" /\ events > 0
    /\ events' = events - 1
    /\ init_done' = FALSE
    /\ bpc' = "cancel"
    /\ UNCHANGED <<capable, c6boots, knob, bt_pending, bt_running, hcidev, spoiled>>

\* Mutant: the work is cancelled without waiting for it.
CancelsAsync(at, next) ==
    /\ bpc = at /\ bpc' = next
    /\ bt_pending' = FALSE
    /\ UNCHANGED <<capable, c6boots, events, init_done, knob, bt_running, hcidev, spoiled>>

\* cancel_delayed_work_sync waits for a work that runs.
Cancels(at, next) ==
    /\ bpc = at /\ bpc' = next
    /\ ~bt_running
    /\ bt_pending' = FALSE
    /\ UNCHANGED <<capable, c6boots, events, init_done, knob, bt_running, hcidev, spoiled>>

\* esp_deinit_bt: hci_unregister_dev sleeps while the pointer is still there.
\* A dangling pointer is used as if it were a device.
DeinitBegins ==
    /\ bpc = "deinit" /\ bpc' = "unregister"
    /\ hcidev' = IF hcidev = "NULL" THEN "NULL" ELSE "leaving"
    /\ UNCHANGED <<capable, c6boots, events, init_done, knob, bt_pending, bt_running, spoiled>>

DeinitEnds ==
    /\ bpc = "unregister" /\ bpc' = "add"
    /\ hcidev' = "NULL"
    /\ UNCHANGED <<capable, c6boots, events, init_done, knob, bt_pending, bt_running, spoiled>>

\* A tag that is not understood, a failing esp_add_card, the refusal of the raw
\* throughput mode, or a requested update, after which the handler returns 0,
\* ends it early and without ESP_INIT_DONE.
BootFails ==
    /\ bpc = "add" /\ bpc' = "idle"
    /\ spoiled < MaxSpoiled /\ spoiled' = spoiled + 1
    /\ UNCHANGED <<capable, c6boots, events, init_done, knob, bt_pending, bt_running, hcidev>>

\* Mutant: the knob is looked at before the adapter is marked ready.
BootEndsLate ==
    \/ /\ bpc = "add" /\ bpc' = "tail"
       /\ bt_pending' = (bt_pending \/ knob)
       /\ UNCHANGED init_done
       /\ UNCHANGED <<capable, c6boots, events, knob, bt_running, hcidev, spoiled>>
    \/ /\ bpc = "tail" /\ bpc' = "idle"
       /\ init_done' = TRUE
       /\ UNCHANGED <<capable, c6boots, events, knob, bt_pending, bt_running, hcidev, spoiled>>

\* ESP_INIT_DONE first, then the deferred probes, then the knob.
BootEnds ==
    \/ /\ bpc = "add" /\ bpc' = "tail"
       /\ init_done' = TRUE
       /\ UNCHANGED <<capable, c6boots, events, knob, bt_pending, bt_running, hcidev, spoiled>>
    \/ /\ bpc = "tail" /\ bpc' = "idle"
       /\ bt_pending' = (bt_pending \/ knob)
       /\ UNCHANGED <<capable, c6boots, events, init_done, knob, bt_running, hcidev, spoiled>>

HdInit ==
    /\ capable \in BOOLEAN
    /\ c6boots = 1 /\ events = 1
    /\ bpc = "idle" /\ init_done = FALSE
    /\ knob = FALSE /\ bt_pending = FALSE /\ bt_running = FALSE
    /\ hcidev = "NULL"
    /\ spoiled = 0

HdTypeOK ==
    /\ capable \in BOOLEAN /\ init_done \in BOOLEAN /\ knob \in BOOLEAN
    /\ bt_pending \in BOOLEAN /\ bt_running \in BOOLEAN
    /\ c6boots \in 1..MaxBoots /\ events \in 0..MaxBoots
    /\ bpc \in {"idle", "cancel", "cancel again", "deinit", "unregister", "add", "tail"}
    /\ hcidev \in {"NULL", "new", "up", "leaving", "dangling"}
    /\ bt_running => hcidev = "new"
    /\ spoiled \in 0..MaxSpoiled

\* No registration runs into the re-initialisation after a boot of the C6,
\* whenever the knob was set and whatever was scheduled before (0030:49-52).
ReinitAlone == bpc \in {"cancel again", "deinit", "unregister", "add"} => ~bt_running

\* A request is heard: once the adapter is ready and the knob is set, the device
\* appears, unless the registration fails or the C6 boots again (0035:45-51).
RequestHeard ==
    (knob /\ init_done /\ capable) ~> (hcidev \in {"up", "dangling"} \/ ~init_done)
=============================================================================
