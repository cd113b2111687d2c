----------------------------- MODULE CmdChannel -----------------------------
(***************************************************************************)
(* The ESP-Hosted command channel of patch 0008 (esp_cmd.c): the fixed     *)
(* pool of command nodes, the pending queue, the single command in flight  *)
(* (adapter->cur_cmd), the wait queue its callers sleep on, and the work   *)
(* item that hands commands to the transport.                              *)
(*                                                                         *)
(* Granularity.  The kernel is built !SMP and PREEMPT_NONE, so a thread    *)
(* gives up the CPU only where it sleeps.  A caller sleeps only in         *)
(* wait_event_interruptible_timeout; esp_cmd_work and process_cmd_resp     *)
(* never do: everything between two of these points is one action.         *)
(*                                                                         *)
(* Requests are told apart by the token get_free_cmd_node() stamps on them *)
(* (cmd_seq); the transport and the C6 are a FIFO of tokens to answer.     *)
(***************************************************************************)
EXTENDS Naturals, Sequences, FiniteSets, Functions

CONSTANTS
    Callers,        \* contexts that issue commands, one command at a time each
    NoCaller,       \* stands for no caller in the abstract service
    Codes,          \* enum COMMAND_CODE: positive, 0 is "no command"
    CodesOf,        \* [Callers -> SUBSET Codes], the commands each one issues
    AdvisoryCodes,  \* waited for HZ/2 and never decoded: IP, mcast, backlight
    OtaCodes,       \* accepted while ESP_OTA_IN_PROGRESS
    CleanupExempt,  \* issued without testing ESP_CLEANUP_IN_PROGRESS
    AssocCodes,     \* CMD_STA_ASSOC, whose caller may give up its node
    PoolSize,       \* ESP_NUM_OF_CMD_NODES
    MaxSeq,         \* bound on the number of checkouts
    Faults          \* the faults of the environment this instance allows

FaultKinds ==
    { "alloc",      \* esp_if_alloc_skb fails at checkout
      "abandon",    \* kmemdup fails between checkout and queueing
      "send",       \* the transport's write refuses the packet
      "lose",       \* a command or its response is lost on the link
      "timeout",    \* a waiter times out before its command was sent
      "late",       \* a waiter gives up on a command that is answered later
      "signal",     \* a waiter is interrupted
      "inactive",   \* ESP_DRIVER_ACTIVE is cleared (add_iface failed)
      "ota",        \* a firmware update is started and ended
      "reboot" }    \* the slave boots again: teardown and set-up

ASSUME CallersAssumption == NoCaller \notin Callers
ASSUME CodesAssumption  == /\ Codes \subseteq Nat \ {0}
                           /\ CodesOf \in [Callers -> SUBSET Codes]
ASSUME BoundsAssumption == PoolSize \in Nat \ {0} /\ MaxSeq \in Nat
ASSUME FaultsAssumption == Faults \subseteq FaultKinds

NoCode   == 0
NoToken  == 0
Nodes    == 1 .. PoolSize       \* indices into adapter->cmd_pool
NoNode   == 0                   \* a NULL command_node pointer
Dangling == PoolSize + 1        \* a pointer into a pool that was freed

StateFlags == {"CMD_INIT_DONE", "CLEANUP_IN_PROGRESS", "DRIVER_ACTIVE",
               "OTA_IN_PROGRESS"}

VARIABLES
    free,             \* adapter->cmd_free_queue
    pending,          \* adapter->cmd_pending_queue, oldest cmd_seq first
    node,             \* struct command_node of each pool slot
    cur_cmd,          \* adapter->cur_cmd
    cur_cmd_seq,      \* adapter->cur_cmd_seq
    cmd_resp,         \* adapter->cmd_resp
    esp_cmd_seq_ctr,  \* the static checkout counter
    work,             \* cmd_work is queued on cmd_wq
    state_flags,      \* adapter->state_flags, the bits this component reads
    pool_live,        \* adapter->cmd_pool is allocated
    call,             \* what each caller is doing: its node and its outcome
    wire,             \* tokens handed to the transport and not yet answered
    corrupt           \* a list or freed memory was misused: anything may follow

poolVars == <<free, pending, node, esp_cmd_seq_ctr>>
curVars  == <<cur_cmd, cur_cmd_seq, cmd_resp>>
lifeVars == <<state_flags, pool_live>>
vars     == <<free, pending, node, esp_cmd_seq_ctr, cur_cmd, cur_cmd_seq,
              cmd_resp, work, state_flags, pool_live, call, wire, corrupt>>

CommandNode == [code : Codes \cup {NoCode}, seq : Nat, in_cmd_queue : BOOLEAN,
                cmd_skb : BOOLEAN, resp_skb : Nat]
Outcomes    == {"none", "waiting", "ok", "fail", "rejected", "nonode", "nomem"}
Call        == [node : Nodes \cup {NoNode, Dangling}, token : Nat,
                code : Codes \cup {NoCode}, ret : Outcomes, got : Nat]

BlankNode == [code |-> NoCode, seq |-> 0, in_cmd_queue |-> FALSE,
              cmd_skb |-> FALSE, resp_skb |-> NoToken]
FreshPool == [i \in Nodes |-> i]

----------------------------------------------------------------------------
(* The helpers of esp_cmd.c.                                               *)

\* Mutant: the code is poisoned instead of cleared.
ResetPoisons(nd) == [nd EXCEPT !.code = 255, !.cmd_skb = FALSE, !.resp_skb = NoToken]

\* reset_cmd_node: in_cmd_queue keeps its value.
Reset(nd) == [nd EXCEPT !.code = NoCode, !.cmd_skb = FALSE, !.resp_skb = NoToken]

\* recycle_cmd_node on slot n holding nd, with lists fr and pd: unlink it if
\* it says it is queued, append it to the free list.  Unlinking a node that is
\* on no list, or linking one twice, corrupts the lists.
Recycle(n, nd, fr, pd) ==
    /\ node'    = [node EXCEPT ![n] = Reset(nd)]
    /\ pending' = IF nd.in_cmd_queue THEN pd \ {n} ELSE pd
    /\ free'    = Append(fr, n)
    /\ corrupt' = \/ nd.in_cmd_queue /\ n \notin pd
                  \/ n \in Range(fr)

\* Mutant: cur_cmd is cleared whoever leaves, as before the ownership check.
ReleaseAlways(n) ==
    /\ cur_cmd' = NoNode /\ cmd_resp' = NoCode
    /\ UNCHANGED cur_cmd_seq

\* Mutant: the waiter leaves the release to the worker.
ReleaseNever(n) == UNCHANGED <<cur_cmd, cmd_resp, cur_cmd_seq>>

\* esp_cmd_release_if_owner: both sides of the comparison are read from the
\* shared node, not from the caller.
ReleaseIfOwner(n) ==
    LET owner == cur_cmd = n /\ cur_cmd_seq = node[n].seq
    IN  /\ cur_cmd'  = IF owner THEN NoNode ELSE cur_cmd
        /\ cmd_resp' = IF owner THEN NoCode ELSE cmd_resp
        /\ cur_cmd_seq' = cur_cmd_seq

\* The node get_free_cmd_node and prepare_command_request give a caller.
CheckedOut(n, code) ==
    [node[n] EXCEPT !.seq = esp_cmd_seq_ctr + 1, !.code = code,
                    !.cmd_skb = TRUE, !.in_cmd_queue = TRUE]

Idle(c)    == call[c].node = NoNode
Waiting(c) == call[c].node \in Nodes /\ pool_live

\* The tests of the cmd_* functions and of prepare_command_request.
Accepts(code) ==
    /\ "CLEANUP_IN_PROGRESS" \in state_flags => code \in CleanupExempt
    /\ "CMD_INIT_DONE" \in state_flags
    /\ "OTA_IN_PROGRESS" \in state_flags => code \in OtaCodes

Returns(c, r) == call' = [call EXCEPT ![c] = [@ EXCEPT !.node = NoNode, !.ret = r]]

----------------------------------------------------------------------------
(* A caller issues a command.                                              *)

MayIssue(c, code) == Idle(c) /\ code \in CodesOf[c] /\ ~corrupt

Reject(c, code) ==
    /\ MayIssue(c, code)
    /\ ~Accepts(code)
    /\ Returns(c, "rejected")
    /\ UNCHANGED <<poolVars, curVars, lifeVars, work, wire, corrupt>>

NoFreeNode(c, code) ==
    /\ MayIssue(c, code)
    /\ Accepts(code)
    /\ free = << >>
    /\ Returns(c, "nonode")
    /\ UNCHANGED <<poolVars, curVars, lifeVars, work, wire, corrupt>>

CanCheckOut(c, code) ==
    /\ MayIssue(c, code)
    /\ Accepts(code)
    /\ free # << >>
    /\ esp_cmd_seq_ctr < MaxSeq

\* Mutant: list_del is missing from the checkout.
IssueKeepsFree(c, code) ==
    /\ CanCheckOut(c, code)
    /\ LET n == Head(free)
       IN  /\ node'    = [node EXCEPT ![n] = CheckedOut(n, code)]
           /\ pending' = pending \cup {n}
           /\ call'    = [call EXCEPT ![c] =
                            [node |-> n, token |-> esp_cmd_seq_ctr + 1,
                             code |-> code, ret |-> "waiting", got |-> NoToken]]
    /\ free' = free
    /\ esp_cmd_seq_ctr' = esp_cmd_seq_ctr + 1
    /\ work' = TRUE
    /\ UNCHANGED <<curVars, lifeVars, wire, corrupt>>

\* Check a node out, fill it in, queue it, kick the worker, go to sleep.
Issue(c, code) ==
    /\ CanCheckOut(c, code)
    /\ LET n == Head(free)
       IN  /\ node'    = [node EXCEPT ![n] = CheckedOut(n, code)]
           /\ pending' = pending \cup {n}
           /\ call'    = [call EXCEPT ![c] =
                            [node |-> n, token |-> esp_cmd_seq_ctr + 1,
                             code |-> code, ret |-> "waiting", got |-> NoToken]]
    /\ free' = Tail(free)
    /\ esp_cmd_seq_ctr' = esp_cmd_seq_ctr + 1
    /\ work' = TRUE
    /\ UNCHANGED <<curVars, lifeVars, wire, corrupt>>

\* The skb of the command cannot be allocated: the node goes straight back,
\* with the in_cmd_queue its last user left in it.
AllocFail(c, code) ==
    /\ "alloc" \in Faults
    /\ CanCheckOut(c, code)
    /\ LET n == Head(free)
       IN  Recycle(n, [node[n] EXCEPT !.seq = esp_cmd_seq_ctr + 1],
                   Tail(free), pending)
    /\ esp_cmd_seq_ctr' = esp_cmd_seq_ctr + 1
    /\ Returns(c, "nomem")
    /\ UNCHANGED <<curVars, lifeVars, work, wire>>

\* cmd_assoc_request cannot copy the IEs and returns without its node.
Abandon(c, code) ==
    /\ "abandon" \in Faults
    /\ code \in AssocCodes
    /\ CanCheckOut(c, code)
    /\ node' = [node EXCEPT ![Head(free)] = CheckedOut(Head(free), code)]
    /\ free' = Tail(free)
    /\ esp_cmd_seq_ctr' = esp_cmd_seq_ctr + 1
    /\ Returns(c, "nomem")
    /\ UNCHANGED <<pending, curVars, lifeVars, work, wire, corrupt>>

----------------------------------------------------------------------------
(* esp_cmd_work, on its single-threaded workqueue.                         *)

Busy == cur_cmd # NoNode

WorkSkips ==
    /\ work /\ ~corrupt
    /\ "DRIVER_ACTIVE" \notin state_flags \/ Busy \/ pending = {}
    /\ work' = FALSE
    /\ UNCHANGED <<poolVars, curVars, lifeVars, call, wire, corrupt>>

\* Mutant: the busy test is missing.
TakesThoughBusy(n) ==
    /\ work /\ ~corrupt
    /\ "DRIVER_ACTIVE" \in state_flags
    /\ n \in pending
    /\ \A m \in pending : node[n].seq <= node[m].seq

\* Mutant: the newest command is taken, as if every one were high priority.
TakesNewest(n) ==
    /\ work /\ ~corrupt
    /\ "DRIVER_ACTIVE" \in state_flags
    /\ ~Busy
    /\ n \in pending
    /\ \A m \in pending : node[n].seq >= node[m].seq

\* n is list_first_entry of the pending queue and the worker takes it.
Takes(n) ==
    /\ work /\ ~corrupt
    /\ "DRIVER_ACTIVE" \in state_flags
    /\ ~Busy
    /\ n \in pending
    /\ \A m \in pending : node[n].seq <= node[m].seq

\* "this should never happen"
Bogus(n) == ~node[n].cmd_skb \/ node[n].code = NoCode

\* Mutant: in_cmd_queue stays set on a command that was sent.
WorkSendsQueued(n) ==
    /\ Takes(n)
    /\ ~Bogus(n)
    /\ pending' = pending \ {n}
    /\ node'    = [node EXCEPT ![n].cmd_skb = FALSE]
    /\ cur_cmd' = n /\ cur_cmd_seq' = node[n].seq /\ cmd_resp' = NoCode
    /\ wire' = Append(wire, node[n].seq)
    /\ work' = (pending # {n})
    /\ UNCHANGED <<free, esp_cmd_seq_ctr, lifeVars, call, corrupt>>

WorkSends(n) ==
    /\ Takes(n)
    /\ ~Bogus(n)
    /\ pending' = pending \ {n}
    /\ node'    = [node EXCEPT ![n].in_cmd_queue = FALSE, ![n].cmd_skb = FALSE]
    /\ cur_cmd'     = n
    /\ cur_cmd_seq' = node[n].seq
    /\ cmd_resp'    = NoCode
    /\ wire' = Append(wire, node[n].seq)
    /\ work' = (pending # {n})
    /\ UNCHANGED <<free, esp_cmd_seq_ctr, lifeVars, call, corrupt>>

\* The write fails: the node is recycled, its waiter neither told nor woken,
\* and the worker does not requeue itself.
WorkFailsToSend(n) ==
    /\ Takes(n)
    /\ "send" \in Faults \/ Bogus(n)
    /\ Recycle(n, [node[n] EXCEPT !.in_cmd_queue = FALSE], free, pending \ {n})
    /\ cur_cmd_seq' = IF Bogus(n) THEN cur_cmd_seq ELSE node[n].seq
    /\ cmd_resp'    = IF Bogus(n) THEN cmd_resp ELSE NoCode
    /\ work' = FALSE
    /\ UNCHANGED <<cur_cmd, esp_cmd_seq_ctr, lifeVars, call, wire>>

----------------------------------------------------------------------------
(* process_cmd_resp, and responses that never come.                        *)

Expected == "CMD_INIT_DONE" \in state_flags /\ Busy

\* Whatever the response answers, it is given to the command in flight.
Response ==
    /\ wire # << >> /\ ~corrupt
    /\ Expected /\ cur_cmd \in Nodes
    /\ node' = [node EXCEPT ![cur_cmd].resp_skb = Head(wire)]
    /\ cmd_resp' = node[cur_cmd].code
    /\ wire' = Tail(wire)
    /\ work' = TRUE
    /\ UNCHANGED <<free, pending, esp_cmd_seq_ctr, cur_cmd, cur_cmd_seq,
                   lifeVars, call, corrupt>>

ResponseDropped ==
    /\ wire # << >> /\ ~corrupt
    /\ ~Expected \/ "lose" \in Faults
    /\ wire' = Tail(wire)
    /\ UNCHANGED <<poolVars, curVars, lifeVars, work, call, corrupt>>

----------------------------------------------------------------------------
(* A waiter leaves wait_event_interruptible_timeout.                       *)

\* The wait condition, evaluated on the shared node.
Answered(c) == cmd_resp = node[call[c].node].code

InFlight(c) == \E i \in DOMAIN wire : wire[i] = call[c].token

\* Mutant: the node is not recycled, as after the early return -ENOMEM.
CompleteLeaks(c, woken) ==
    /\ ReleaseIfOwner(call[c].node)
    /\ pending' = pending \ {call[c].node}
    /\ Returns(c, "fail")
    /\ UNCHANGED <<free, node, esp_cmd_seq_ctr, lifeVars, work, wire, corrupt>>

\* Release, decode and recycle; woken is "the wait did not time out".
Complete(c, woken) ==
    LET n        == call[c].node
        advisory == call[c].code \in AdvisoryCodes
        decoded  == ~advisory /\ woken /\ node[n].resp_skb # NoToken
    IN  /\ ReleaseIfOwner(n)
        /\ Recycle(n, node[n], free, pending)
        /\ call' = [call EXCEPT ![c] = [@ EXCEPT
                      !.node = NoNode,
                      !.ret  = IF advisory \/ decoded THEN "ok" ELSE "fail",
                      !.got  = IF decoded THEN node[n].resp_skb ELSE NoToken]]
        /\ UNCHANGED <<esp_cmd_seq_ctr, lifeVars, work, wire>>

\* Once the driver is inactive wait_and_decode_cmd_resp returns 0 at once,
\* keeping the node and the command in flight as they are.
LeaveInactive(c) ==
    /\ Returns(c, "ok")
    /\ UNCHANGED <<poolVars, curVars, lifeVars, work, wire, corrupt>>

Leave(c, woken) ==
    IF "DRIVER_ACTIVE" \in state_flags \/ call[c].code \in AdvisoryCodes
    THEN Complete(c, woken)
    ELSE LeaveInactive(c)

Wake(c) ==
    /\ Waiting(c) /\ ~corrupt
    /\ Answered(c)
    /\ Leave(c, TRUE)

\* A waiter may give up on a command still being answered only if "late".
MayGiveUp(c) ==
    /\ Waiting(c) /\ ~corrupt
    /\ ~Answered(c)
    /\ InFlight(c) => "late" \in Faults

\* Mutant: the timer is armed only once the command was sent.
TimeoutOnceSent(c) ==
    /\ MayGiveUp(c)
    /\ call[c].node \notin pending
    /\ Leave(c, FALSE)

Timeout(c) ==
    /\ MayGiveUp(c)
    /\ call[c].node \in pending => "timeout" \in Faults
    /\ Leave(c, FALSE)

\* -ERESTARTSYS is not 0, so it is handled as an answer.
Interrupt(c) ==
    /\ "signal" \in Faults
    /\ MayGiveUp(c)
    /\ Leave(c, TRUE)

----------------------------------------------------------------------------
(* State changes of the driver around the channel.                         *)

DriverInactive ==
    /\ "inactive" \in Faults /\ ~corrupt
    /\ "DRIVER_ACTIVE" \in state_flags
    /\ state_flags' = state_flags \ {"DRIVER_ACTIVE"}
    /\ UNCHANGED <<poolVars, curVars, pool_live, work, call, wire, corrupt>>

OtaStart ==
    /\ "ota" \in Faults /\ ~corrupt
    /\ "OTA_IN_PROGRESS" \notin state_flags
    /\ state_flags' = state_flags \cup {"OTA_IN_PROGRESS"}
    /\ UNCHANGED <<poolVars, curVars, pool_live, work, call, wire, corrupt>>

OtaEnd ==
    /\ ~corrupt
    /\ "OTA_IN_PROGRESS" \in state_flags
    /\ state_flags' = state_flags \ {"OTA_IN_PROGRESS"}
    /\ UNCHANGED <<poolVars, curVars, pool_live, work, call, wire, corrupt>>

\* esp_commands_teardown up to destroy_workqueue, which sleeps.
TeardownStart ==
    /\ "reboot" \in Faults /\ ~corrupt
    /\ "CMD_INIT_DONE" \in state_flags
    /\ state_flags' = (state_flags \ {"CMD_INIT_DONE"}) \cup {"CLEANUP_IN_PROGRESS"}
    /\ work' = FALSE
    /\ UNCHANGED <<poolVars, curVars, pool_live, call, wire, corrupt>>

\* The receive queue is flushed, then free_esp_cmd_pool; nobody is woken.
TeardownFree ==
    /\ "CMD_INIT_DONE" \notin state_flags /\ pool_live /\ ~corrupt
    /\ pool_live' = FALSE
    /\ wire' = << >>
    /\ UNCHANGED <<poolVars, curVars, state_flags, work, call, corrupt>>

\* Mutant: the new pool takes the old one's place and cur_cmd points into it.
SetupInPlace ==
    /\ ~pool_live /\ ~corrupt
    /\ pool_live' = TRUE
    /\ state_flags' = state_flags \cup {"CMD_INIT_DONE"}
    /\ free' = FreshPool
    /\ pending' = {}
    /\ node' = [n \in Nodes |-> BlankNode]
    /\ call' = [c \in Callers |->
                  IF Idle(c) THEN call[c] ELSE [call[c] EXCEPT !.node = Dangling]]
    /\ UNCHANGED <<esp_cmd_seq_ctr, curVars, work, wire, corrupt>>

\* esp_commands_setup: new lists and a new pool.  cur_cmd is not reset; what
\* pointed into the old pool now dangles.
Setup ==
    /\ ~pool_live /\ ~corrupt
    /\ pool_live' = TRUE
    /\ state_flags' = state_flags \cup {"CMD_INIT_DONE"}
    /\ free' = FreshPool
    /\ pending' = {}
    /\ node' = [n \in Nodes |-> BlankNode]
    /\ cur_cmd' = IF Busy THEN Dangling ELSE NoNode
    /\ call' = [c \in Callers |->
                  IF Idle(c) THEN call[c] ELSE [call[c] EXCEPT !.node = Dangling]]
    /\ UNCHANGED <<esp_cmd_seq_ctr, cur_cmd_seq, cmd_resp, work, wire, corrupt>>

\* esp_add_card returns.
CardReady ==
    /\ "CLEANUP_IN_PROGRESS" \in state_flags
    /\ "CMD_INIT_DONE" \in state_flags /\ ~corrupt
    /\ state_flags' = state_flags \ {"CLEANUP_IN_PROGRESS"}
    /\ UNCHANGED <<poolVars, curVars, pool_live, work, call, wire, corrupt>>

\* A waiter, or a response, reaches a node of a pool that was freed.
TouchFreed ==
    /\ ~corrupt
    /\ \/ \E c \in Callers : call[c].node = Dangling \/ (~Idle(c) /\ ~pool_live)
       \/ wire # << >> /\ Expected /\ cur_cmd = Dangling
    /\ corrupt' = TRUE
    /\ UNCHANGED <<poolVars, curVars, lifeVars, work, call, wire>>

----------------------------------------------------------------------------
Init ==
    /\ free = FreshPool
    /\ pending = {}
    /\ node = [n \in Nodes |-> BlankNode]
    /\ esp_cmd_seq_ctr = 0
    /\ cur_cmd = NoNode /\ cur_cmd_seq = 0 /\ cmd_resp = NoCode
    /\ work = FALSE
    /\ state_flags = {"CMD_INIT_DONE", "DRIVER_ACTIVE"}
    /\ pool_live = TRUE
    /\ call = [c \in Callers |-> [node |-> NoNode, token |-> NoToken,
                                  code |-> NoCode, ret |-> "none", got |-> NoToken]]
    /\ wire = << >>
    /\ corrupt = FALSE

CallerStep(c) ==
    \/ \E code \in Codes : \/ Reject(c, code)
                           \/ NoFreeNode(c, code)
                           \/ Issue(c, code)
                           \/ AllocFail(c, code)
                           \/ Abandon(c, code)
    \/ Wake(c)
    \/ Timeout(c)
    \/ Interrupt(c)

CmdWork == WorkSkips \/ \E n \in Nodes : WorkSends(n) \/ WorkFailsToSend(n)

DriverStep ==
    \/ DriverInactive \/ OtaStart \/ OtaEnd
    \/ TeardownStart \/ TeardownFree \/ Setup \/ CardReady
    \/ TouchFreed

Next ==
    \/ \E c \in Callers : CallerStep(c)
    \/ CmdWork
    \/ Response \/ ResponseDropped
    \/ DriverStep

Spec == Init /\ [][Next]_vars

\* The kernel runs a queued work item, wakes a waiter whose condition holds,
\* and fires a timer, that of a waiter whose pool was freed too; a response that
\* is not lost arrives.
Fairness ==
    /\ WF_vars(CmdWork)
    /\ WF_vars(Response)
    /\ WF_vars(TouchFreed)
    /\ \A c \in Callers : WF_vars(Wake(c)) /\ WF_vars(Timeout(c))

FairSpec == Spec /\ Fairness

----------------------------------------------------------------------------
(* Properties.                                                             *)

TypeOK ==
    /\ free \in Seq(Nodes)
    /\ pending \subseteq Nodes
    /\ node \in [Nodes -> CommandNode]
    /\ cur_cmd \in Nodes \cup {NoNode, Dangling}
    /\ cur_cmd_seq \in Nat
    /\ cmd_resp \in Codes \cup {NoCode}
    /\ esp_cmd_seq_ctr \in Nat
    /\ work \in BOOLEAN
    /\ state_flags \subseteq StateFlags
    /\ pool_live \in BOOLEAN
    /\ call \in [Callers -> Call]
    /\ wire \in Seq(Nat)
    /\ corrupt \in BOOLEAN

Holders(n) == {c \in Callers : call[c].node = n}

\* No list is ever misused and no freed node touched: reset_cmd_node unlinks
\* only nodes that are linked, recycle_cmd_node adds only nodes that are not.
NoCorruption == ~corrupt

\* A node is either free, once, or in the hands of exactly one caller: the
\* pool's purpose, for every interleaving of waiters, worker and responses.
SingleHome ==
    /\ \A i, j \in DOMAIN free : free[i] = free[j] => i = j
    /\ \A n \in Range(free) : Holders(n) = {}
    /\ \A c, d \in Callers : call[c].node = call[d].node /\ ~Idle(c)
                               /\ call[c].node # Dangling => c = d

\* The pool does not shrink: what is not free is held by a caller, which
\* will recycle it.
NoLeak == pool_live => Nodes \subseteq Range(free) \cup {call[c].node : c \in Callers}

\* The pool survives every interleaving of waiters, worker and responses: the
\* three above together, each of which leans on the others.
PoolIntact == NoCorruption /\ SingleHome /\ NoLeak

\* Someone waits for the command in flight and will find, by its token, that it
\* is its own to release.
HeldByWaiter ==
    Busy => \E c \in Callers : call[c].node = cur_cmd /\ call[c].token = cur_cmd_seq

\* While the driver is active a command in flight is never left without the
\* caller that will release it, whatever fails: no timeout, signal, failed write,
\* leaked node, firmware update or reboot leaves cur_cmd behind with esp_cmd_work
\* busy for ever.  An inactive driver sends nothing, and keeps cur_cmd.
CurHasWaiter == "DRIVER_ACTIVE" \in state_flags /\ ~corrupt => HeldByWaiter

\* esp_cmd_release_if_owner, comment at 0008:1936: a caller that leaves must
\* not null out a command other than its own.
ReleaseByOwner ==
    [][\A c \in Callers :
         ~Idle(c) /\ call'[c].node = NoNode /\ call[c].token # cur_cmd_seq
            => UNCHANGED <<cur_cmd, cur_cmd_seq>>]_vars

\* Every command that was queued comes back to its caller, whatever is lost.
CallsReturn == \A c \in Callers : ~Idle(c) ~> (Idle(c) \/ corrupt)

----------------------------------------------------------------------------
(* The channel implements CmdService.                                      *)

\* The callers whose command is queued, and the one whose command is in flight.
Queued          == {c \in Callers : call[c].node \in pending}
Holder(calls, n) == CHOOSE c \in Callers : calls[c].node = n
Served          == IF Busy /\ \E c \in Callers : call[c].node = cur_cmd
                   THEN Holder(call, cur_cmd)
                   ELSE NoCaller

\* What it was answered, and what each caller asked and was told.
Reply   == IF cur_cmd \in Nodes THEN node[cur_cmd].resp_skb ELSE NoToken
Tickets == [c \in Callers |-> call[c].token]
Told    == [c \in Callers |-> call[c].got]

Service == INSTANCE CmdService WITH
    waiting <- Queued, serving <- Served, ticket <- Tickets, answer <- Reply, got <- Told

\* The detailed channel keeps the promise of CmdService: commands are served one
\* at a time and in order, and a caller that is told of an answer is told of the
\* answer to its own command.
KeepsPromise == Service!ServiceSpec
=============================================================================
