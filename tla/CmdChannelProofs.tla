-------------------------- MODULE CmdChannelProofs --------------------------
(***************************************************************************)
(* Theorems about CmdChannel, for every set of callers, every pool size    *)
(* and every bound.                                                        *)
(***************************************************************************)
EXTENDS CmdChannel, SequenceTheorems, TLAPS

----------------------------------------------------------------------------
(* Lemmas.                                                                 *)

\* A node pointer is a pool slot, NULL or dangling, and these differ.
LEMMA NodesFacts ==
    /\ Nodes \subseteq Nat
    /\ NoNode \notin Nodes
    /\ Dangling \notin Nodes
    /\ Dangling # NoNode
BY BoundsAssumption DEF Nodes, NoNode, Dangling

\* The pool hands its slots out in order.
LEMMA FreshPoolType ==
    /\ FreshPool \in Seq(Nodes)
    /\ DOMAIN FreshPool = Nodes
    /\ Range(FreshPool) = Nodes
    /\ \A i, j \in Nodes : FreshPool[i] = FreshPool[j] => i = j
BY BoundsAssumption DEF FreshPool, Nodes, Range

\* Recycling keeps the types of what it writes (recycle_cmd_node).
LEMMA RecycleType ==
    ASSUME NEW n \in Nodes, NEW nd \in CommandNode, NEW fr \in Seq(Nodes),
           NEW pd \in SUBSET Nodes, node \in [Nodes -> CommandNode],
           Recycle(n, nd, fr, pd)
    PROVE  /\ free' \in Seq(Nodes)
           /\ pending' \subseteq Nodes
           /\ node' \in [Nodes -> CommandNode]
           /\ corrupt' \in BOOLEAN
<1>1. Reset(nd) \in CommandNode
  BY DEF Reset, CommandNode, NoToken, NoCode
<1>2. free' \in Seq(Nodes)
  BY AppendProperties DEF Recycle
<1>3. pending' \subseteq Nodes /\ corrupt' \in BOOLEAN
  BY DEF Recycle
<1>4. node' \in [Nodes -> CommandNode]
  BY <1>1 DEF Recycle
<1> QED
  BY <1>2, <1>3, <1>4
----------------------------------------------------------------------------
(* Type correctness.                                                       *)

\* The types hold initially.
LEMMA TypeInit == Init => TypeOK
<1> SUFFICES ASSUME Init PROVE TypeOK
  OBVIOUS
<1>1. node \in [Nodes -> CommandNode]
  BY DEF Init, BlankNode, CommandNode, NoCode, NoToken
<1>2. call \in [Callers -> Call]
  BY DEF Init, Call, Outcomes, NoCode, NoToken
<1>3. wire \in Seq(Nat)
  BY DEF Init
<1> QED
  BY <1>1, <1>2, <1>3, FreshPoolType DEF Init, TypeOK, StateFlags

\* Returning without a node keeps the type of the callers' records.
LEMMA ReturnsType ==
    ASSUME call \in [Callers -> Call], NEW c \in Callers, NEW r \in Outcomes,
           Returns(c, r)
    PROVE  call' \in [Callers -> Call]
<1>1. call[c] \in Call
  OBVIOUS
<1>2. [call[c] EXCEPT !.node = NoNode, !.ret = r] \in Call
  BY <1>1 DEF Call
<1> QED
  BY <1>2 DEF Returns

\* A checkout yields a command node and a caller record that holds it.
LEMMA CheckOutType ==
    ASSUME TypeOK, NEW c \in Callers, NEW code \in Codes, CanCheckOut(c, code)
    PROVE  /\ Head(free) \in Nodes
           /\ Tail(free) \in Seq(Nodes)
           /\ CheckedOut(Head(free), code) \in CommandNode
           /\ esp_cmd_seq_ctr + 1 \in Nat
<1>1. Head(free) \in Nodes /\ Tail(free) \in Seq(Nodes)
  BY HeadTailProperties DEF TypeOK, CanCheckOut
<1>2. node[Head(free)] \in CommandNode /\ esp_cmd_seq_ctr + 1 \in Nat
  BY <1>1 DEF TypeOK
<1>3. CheckedOut(Head(free), code) \in CommandNode
  BY <1>2 DEF CheckedOut, CommandNode
<1> QED
  BY <1>1, <1>2, <1>3

\* What a caller does when it leaves the wait keeps the types.
LEMMA LeaveType ==
    ASSUME TypeOK, NEW c \in Callers, NEW woken \in BOOLEAN, Waiting(c),
           Leave(c, woken)
    PROVE  TypeOK'
<1> DEFINE n == call[c].node
<1>1. n \in Nodes /\ node[n] \in CommandNode
  BY DEF Waiting, TypeOK
<1>2. CASE Complete(c, woken)
  <2>1. ReleaseIfOwner(n) /\ Recycle(n, node[n], free, pending)
    BY <1>2 DEF Complete
  <2>2. /\ free' \in Seq(Nodes) /\ pending' \subseteq Nodes
        /\ node' \in [Nodes -> CommandNode] /\ corrupt' \in BOOLEAN
    BY <1>1, <2>1, RecycleType DEF TypeOK
  <2>3. /\ cur_cmd' \in Nodes \cup {NoNode, Dangling} /\ cur_cmd_seq' \in Nat
        /\ cmd_resp' \in Codes \cup {NoCode}
    BY <2>1 DEF ReleaseIfOwner, TypeOK
  <2>4. call' \in [Callers -> Call]
    <3>1. call[c] \in Call /\ node[n].resp_skb \in Nat
      BY <1>1 DEF TypeOK, CommandNode
    <3>2. ASSUME NEW r \in Outcomes, NEW g \in Nat
          PROVE  [call[c] EXCEPT !.node = NoNode, !.ret = r, !.got = g] \in Call
      BY <3>1 DEF Call
    <3>3. \E r \in Outcomes, g \in Nat :
             call' = [call EXCEPT ![c] =
                        [call[c] EXCEPT !.node = NoNode, !.ret = r, !.got = g]]
      BY <1>2, <3>1 DEF Complete, Outcomes, NoToken
    <3> QED
      BY <3>2, <3>3 DEF TypeOK
  <2> QED
    BY <1>2, <2>2, <2>3, <2>4 DEF Complete, TypeOK, lifeVars
<1>3. CASE LeaveInactive(c)
  <2>1. call' \in [Callers -> Call]
    BY <1>3, ReturnsType DEF LeaveInactive, TypeOK, Outcomes
  <2> QED
    BY <1>3, <2>1 DEF LeaveInactive, TypeOK, poolVars, curVars, lifeVars
<1> QED
  BY <1>2, <1>3 DEF Leave

\* A caller's step keeps the types.
LEMMA CallerType ==
    ASSUME TypeOK, NEW c \in Callers, CallerStep(c)
    PROVE  TypeOK'
<1>1. ASSUME NEW code \in Codes, Reject(c, code) PROVE TypeOK'
  <2>1. call' \in [Callers -> Call]
    BY <1>1, ReturnsType DEF Reject, TypeOK, Outcomes
  <2> QED
    BY <1>1, <2>1 DEF Reject, TypeOK, poolVars, curVars, lifeVars
<1>2. ASSUME NEW code \in Codes, NoFreeNode(c, code) PROVE TypeOK'
  <2>1. call' \in [Callers -> Call]
    BY <1>2, ReturnsType DEF NoFreeNode, TypeOK, Outcomes
  <2> QED
    BY <1>2, <2>1 DEF NoFreeNode, TypeOK, poolVars, curVars, lifeVars
<1>3. ASSUME NEW code \in Codes, Issue(c, code) PROVE TypeOK'
  <2>1. CanCheckOut(c, code)
    BY <1>3 DEF Issue
  <2>2. /\ Head(free) \in Nodes /\ Tail(free) \in Seq(Nodes)
        /\ CheckedOut(Head(free), code) \in CommandNode
        /\ esp_cmd_seq_ctr + 1 \in Nat
    BY <2>1, CheckOutType
  <2>3. node' \in [Nodes -> CommandNode] /\ pending' \subseteq Nodes
    BY <1>3, <2>2 DEF Issue, TypeOK
  <2>4. call' \in [Callers -> Call]
    BY <1>3, <2>2 DEF Issue, Call, Outcomes, NoToken, TypeOK
  <2> QED
    BY <1>3, <2>2, <2>3, <2>4 DEF Issue, TypeOK, curVars, lifeVars
<1>4. ASSUME NEW code \in Codes, AllocFail(c, code) PROVE TypeOK'
  <2> DEFINE n == Head(free)
             nd == [node[n] EXCEPT !.seq = esp_cmd_seq_ctr + 1]
  <2>1. CanCheckOut(c, code)
    BY <1>4 DEF AllocFail
  <2>2. n \in Nodes /\ Tail(free) \in Seq(Nodes) /\ esp_cmd_seq_ctr + 1 \in Nat
    BY <2>1, CheckOutType
  <2>3. nd \in CommandNode
    BY <2>2 DEF TypeOK, CommandNode
  <2>4. Recycle(n, nd, Tail(free), pending)
    BY <1>4 DEF AllocFail
  <2>5. /\ free' \in Seq(Nodes) /\ pending' \subseteq Nodes
        /\ node' \in [Nodes -> CommandNode] /\ corrupt' \in BOOLEAN
    <3> HIDE DEF n, nd
    <3> QED
      BY <2>2, <2>3, <2>4, RecycleType DEF TypeOK
  <2>6. call' \in [Callers -> Call]
    BY <1>4, ReturnsType DEF AllocFail, TypeOK, Outcomes
  <2> QED
    BY <1>4, <2>2, <2>5, <2>6 DEF AllocFail, TypeOK, curVars, lifeVars
<1>5. ASSUME NEW code \in Codes, Abandon(c, code) PROVE TypeOK'
  <2>1. /\ Head(free) \in Nodes /\ Tail(free) \in Seq(Nodes)
        /\ CheckedOut(Head(free), code) \in CommandNode
        /\ esp_cmd_seq_ctr + 1 \in Nat
    BY <1>5, CheckOutType DEF Abandon
  <2>2. call' \in [Callers -> Call]
    BY <1>5, ReturnsType DEF Abandon, TypeOK, Outcomes
  <2> QED
    BY <1>5, <2>1, <2>2 DEF Abandon, TypeOK, curVars, lifeVars
<1>6. CASE Wake(c)
  BY <1>6, LeaveType DEF Wake
<1>7. CASE Timeout(c)
  BY <1>7, LeaveType DEF Timeout, MayGiveUp
<1>8. CASE Interrupt(c)
  BY <1>8, LeaveType DEF Interrupt, MayGiveUp
<1> QED
  BY <1>1, <1>2, <1>3, <1>4, <1>5, <1>6, <1>7, <1>8 DEF CallerStep

\* A run of the worker keeps the types.
LEMMA WorkType ==
    ASSUME TypeOK, CmdWork
    PROVE  TypeOK'
<1>1. CASE WorkSkips
  BY <1>1 DEF WorkSkips, TypeOK, poolVars, curVars, lifeVars
<1>2. ASSUME NEW n \in Nodes, WorkSends(n) PROVE TypeOK'
  <2>1. node[n] \in CommandNode
    BY DEF TypeOK
  <2>2. node' \in [Nodes -> CommandNode]
    BY <1>2, <2>1 DEF WorkSends, CommandNode, TypeOK
  <2>3. wire' \in Seq(Nat)
    BY <1>2, <2>1, AppendProperties DEF WorkSends, CommandNode, TypeOK
  <2> QED
    BY <1>2, <2>1, <2>2, <2>3 DEF WorkSends, CommandNode, TypeOK, lifeVars
<1>3. ASSUME NEW n \in Nodes, WorkFailsToSend(n) PROVE TypeOK'
  <2> DEFINE nd == [node[n] EXCEPT !.in_cmd_queue = FALSE]
  <2>1. nd \in CommandNode /\ node[n].seq \in Nat
    BY DEF TypeOK, CommandNode
  <2>2. Recycle(n, nd, free, pending \ {n})
    BY <1>3 DEF WorkFailsToSend
  <2>3. /\ free' \in Seq(Nodes) /\ pending' \subseteq Nodes
        /\ node' \in [Nodes -> CommandNode] /\ corrupt' \in BOOLEAN
    <3> HIDE DEF nd
    <3> QED
      BY <2>1, <2>2, RecycleType DEF TypeOK
  <2> QED
    BY <1>3, <2>1, <2>3 DEF WorkFailsToSend, TypeOK, lifeVars
<1> QED
  BY <1>1, <1>2, <1>3 DEF CmdWork

\* A response, delivered or dropped, keeps the types.
LEMMA ResponseType ==
    ASSUME TypeOK, Response \/ ResponseDropped
    PROVE  TypeOK'
<1>1. CASE Response
  <2>1. Head(wire) \in Nat /\ Tail(wire) \in Seq(Nat)
    BY <1>1, HeadTailProperties DEF Response, TypeOK
  <2>2. node[cur_cmd] \in CommandNode
    BY <1>1 DEF Response, TypeOK
  <2>3. node' \in [Nodes -> CommandNode]
    BY <1>1, <2>1, <2>2 DEF Response, CommandNode, TypeOK
  <2> QED
    BY <1>1, <2>1, <2>2, <2>3 DEF Response, CommandNode, TypeOK, lifeVars
<1>2. CASE ResponseDropped
  <2>1. Tail(wire) \in Seq(Nat)
    BY <1>2, HeadTailProperties DEF ResponseDropped, TypeOK
  <2> QED
    BY <1>2, <2>1 DEF ResponseDropped, TypeOK, poolVars, curVars, lifeVars
<1> QED
  BY <1>1, <1>2

\* The driver's own transitions keep the types.
LEMMA DriverType ==
    ASSUME TypeOK, DriverStep
    PROVE  TypeOK'
<1>1. CASE DriverInactive \/ OtaStart \/ OtaEnd \/ TeardownStart \/ CardReady
  BY <1>1 DEF DriverInactive, OtaStart, OtaEnd, TeardownStart, CardReady,
              TypeOK, poolVars, curVars, StateFlags
<1>2. CASE TeardownFree
  <2>1. wire' \in Seq(Nat)
    BY <1>2 DEF TeardownFree
  <2> QED
    BY <1>2, <2>1 DEF TeardownFree, TypeOK, poolVars, curVars
<1>3. CASE Setup
  <2>1. node' \in [Nodes -> CommandNode]
    BY <1>3 DEF Setup, BlankNode, CommandNode, NoCode, NoToken
  <2>2. call' \in [Callers -> Call]
    BY <1>3 DEF Setup, Call, TypeOK
  <2> QED
    BY <1>3, <2>1, <2>2, FreshPoolType DEF Setup, TypeOK, StateFlags
<1>4. CASE TouchFreed
  BY <1>4 DEF TouchFreed, TypeOK, poolVars, curVars, lifeVars
<1> QED
  BY <1>1, <1>2, <1>3, <1>4 DEF DriverStep

\* Every step keeps the types.
LEMMA TypeStep == TypeOK /\ [Next]_vars => TypeOK'
<1> SUFFICES ASSUME TypeOK, [Next]_vars PROVE TypeOK'
  OBVIOUS
<1>1. CASE UNCHANGED vars
  BY <1>1 DEF vars, TypeOK
<1> QED
  BY <1>1, CallerType, WorkType, ResponseType, DriverType DEF Next

\* The channel's state is well typed whatever faults the environment shows.
THEOREM TypeCorrect == Spec => []TypeOK
BY TypeInit, TypeStep, PTL DEF Spec

----------------------------------------------------------------------------
(* The pool, the lists and the command in flight, when no fault takes a     *)
(* node away from its caller.                                              *)

\* No checkout or send fails and the driver stays active: what else misbehaves
\* is the link, the clocks, signals, firmware updates and the slave, which may
\* boot again at any time.
Tenured == Faults \cap {"alloc", "abandon", "send", "inactive"} = {}

\* The slave does not boot again either.
Tame == Tenured /\ "reboot" \notin Faults

\* A caller that waits in a pool that was freed (TouchFreed).
Outlived(c) == call[c].node = Dangling \/ (~Idle(c) /\ ~pool_live)

\* The driver is active, the channel is open only over a live pool, and
\* nothing is misused but what a caller's own pool left behind.
Alive ==
    /\ "DRIVER_ACTIVE" \in state_flags
    /\ "CMD_INIT_DONE" \in state_flags => pool_live
    /\ corrupt => \E c \in Callers : Outlived(c)

\* The free list has no repetition and nobody holds what is on it.
FreeOnce ==
    /\ \A i, j \in DOMAIN free : free[i] = free[j] => i = j
    /\ \A n \in Range(free), c \in Callers : call[c].node # n

HeldOnce ==
    \A c, d \in Callers : call[c].node = call[d].node /\ call[c].node \in Nodes => c = d

Home == \A n \in Nodes : n \in Range(free) \/ \E c \in Callers : call[c].node = n

\* The node a caller holds is the one it filled in, and says truly whether
\* it is on the pending list; what is on that list can be sent.
Intact ==
    \A c \in Callers : call[c].node \in Nodes =>
        LET n == call[c].node
        IN  /\ node[n].seq = call[c].token
            /\ node[n].code # NoCode
            /\ node[n].in_cmd_queue <=> n \in pending
            /\ n \in pending => node[n].cmd_skb

\* The command in flight is not pending, and its caller holds it; if it
\* dangles, so does its caller.
Flight ==
    /\ cur_cmd \notin pending
    /\ \A n \in pending : \E c \in Callers : call[c].node = n
    /\ Busy => \E c \in Callers : call[c].node = cur_cmd /\ call[c].token = cur_cmd_seq

IInv == TypeOK /\ Alive /\ FreeOnce /\ HeldOnce /\ Home /\ Intact /\ Flight

\* Appending a new element to a sequence without repetition.
LEMMA AppendOnce ==
    ASSUME NEW S, NEW s \in Seq(S), NEW e \in S,
           \A i, j \in DOMAIN s : s[i] = s[j] => i = j, e \notin Range(s)
    PROVE  /\ Range(Append(s, e)) = Range(s) \cup {e}
           /\ \A i, j \in DOMAIN Append(s, e) :
                 Append(s, e)[i] = Append(s, e)[j] => i = j
<1> DEFINE a == Append(s, e)
<1>1. /\ Len(s) \in Nat /\ DOMAIN s = 1 .. Len(s) /\ DOMAIN a = 1 .. Len(s) + 1
      /\ \A i \in 1 .. Len(s) : a[i] = s[i]
      /\ a[Len(s) + 1] = e
  BY AppendProperties, LenProperties
<1>2. Range(s) = {s[i] : i \in 1 .. Len(s)} /\ Range(a) = {a[i] : i \in 1 .. Len(s) + 1}
  BY <1>1 DEF Range
<1> HIDE DEF a
<1>3. Range(a) = Range(s) \cup {e}
  BY <1>1, <1>2
<1>4. ASSUME NEW i \in DOMAIN a, NEW j \in DOMAIN a, a[i] = a[j] PROVE i = j
  BY <1>1, <1>2, <1>4
<1> QED
  BY <1>3, <1>4 DEF a

\* Taking the head off a sequence without repetition.
LEMMA TailOnce ==
    ASSUME NEW S, NEW s \in Seq(S), s # << >>,
           \A i, j \in DOMAIN s : s[i] = s[j] => i = j
    PROVE  /\ Head(s) \in Range(s)
           /\ Range(Tail(s)) = Range(s) \ {Head(s)}
           /\ \A i, j \in DOMAIN Tail(s) : Tail(s)[i] = Tail(s)[j] => i = j
<1> DEFINE t == Tail(s)
           h == Head(s)
<1>1. /\ Len(s) \in Nat \ {0} /\ DOMAIN s = 1 .. Len(s)
      /\ DOMAIN t = 1 .. Len(s) - 1
      /\ \A i \in 1 .. Len(s) - 1 : t[i] = s[i + 1]
      /\ h = s[1]
  BY HeadTailProperties, LenProperties, EmptySeq
<1>2. Range(s) = {s[i] : i \in 1 .. Len(s)} /\ Range(t) = {t[i] : i \in 1 .. Len(s) - 1}
  BY <1>1 DEF Range
<1> HIDE DEF t, h
<1>3. h \in Range(s)
  BY <1>1, <1>2
<1>4. Range(t) \subseteq Range(s) \ {h}
  BY <1>1, <1>2
<1>5. ASSUME NEW x \in Range(s), x # h PROVE x \in Range(t)
  <2>1. PICK i \in 1 .. Len(s) : x = s[i]
    BY <1>2
  <2>2. i # 1 /\ i - 1 \in 1 .. Len(s) - 1 /\ t[i - 1] = x
    BY <1>1, <1>5, <2>1
  <2> QED
    BY <1>2, <2>2
<1>6. ASSUME NEW i \in DOMAIN t, NEW j \in DOMAIN t, t[i] = t[j] PROVE i = j
  <2>1. i + 1 \in DOMAIN s /\ j + 1 \in DOMAIN s /\ i \in Int /\ j \in Int
    BY <1>1
  <2>2. s[i + 1] = s[j + 1]
    BY <1>1, <1>6
  <2>3. i + 1 = j + 1
    BY <2>1, <2>2
  <2> QED
    BY <2>1, <2>3
<1> QED
  BY <1>3, <1>4, <1>5, <1>6 DEF t, h

\* The invariant holds initially.
LEMMA InvInit == Init => IInv
<1> SUFFICES ASSUME Init PROVE IInv
  OBVIOUS
<1>1. TypeOK
  BY TypeInit
<1>2. \A c \in Callers : call[c].node = NoNode
  BY DEF Init
<1>3. FreeOnce
  BY <1>2, FreshPoolType, NodesFacts DEF Init, FreeOnce
<1>4. Home
  BY FreshPoolType DEF Init, Home
<1>5. Alive /\ HeldOnce /\ Intact /\ Flight
  BY <1>2, NodesFacts DEF Init, Alive, HeldOnce, Intact, Flight, Busy
<1> QED
  BY <1>1, <1>3, <1>4, <1>5 DEF IInv, Init

\* A checkout takes a node nobody holds and puts it on the pending list.
LEMMA InvIssue ==
    ASSUME IInv, NEW c \in Callers, NEW code \in Codes, Issue(c, code)
    PROVE  IInv'
<1> DEFINE n == Head(free)
<1> USE DEF IInv
<1>1. TypeOK'
  BY CallerType DEF CallerStep
<1>2. /\ n \in Nodes /\ n \in Range(free)
      /\ Range(free') = Range(free) \ {n}
      /\ \A i, j \in DOMAIN free' : free'[i] = free'[j] => i = j
  BY CheckOutType, TailOnce DEF TypeOK, FreeOnce, Issue, CanCheckOut
<1>3. /\ \A d \in Callers : call[d].node # n
      /\ call[c].node = NoNode /\ NoNode \notin Nodes
  BY <1>2, NodesFacts DEF FreeOnce, Issue, CanCheckOut, MayIssue, Idle
<1>4. /\ call'[c].node = n /\ call'[c].token = esp_cmd_seq_ctr + 1
      /\ \A d \in Callers \ {c} : call'[d] = call[d]
  BY DEF Issue, TypeOK
<1>5. /\ node'[n].seq = esp_cmd_seq_ctr + 1 /\ node'[n].code = code
      /\ node'[n].cmd_skb = TRUE /\ node'[n].in_cmd_queue = TRUE
      /\ \A m \in Nodes \ {n} : node'[m] = node[m]
  <2>1. node[n] \in CommandNode
    BY <1>2 DEF TypeOK
  <2>2. node' = [node EXCEPT ![n] = CheckedOut(n, code)]
    BY DEF Issue
  <2>3. /\ CheckedOut(n, code).seq = esp_cmd_seq_ctr + 1
        /\ CheckedOut(n, code).code = code
        /\ CheckedOut(n, code).cmd_skb = TRUE
        /\ CheckedOut(n, code).in_cmd_queue = TRUE
    BY <2>1 DEF CheckedOut, CommandNode
  <2> HIDE DEF n
  <2> QED
    BY <1>2, <2>2, <2>3 DEF TypeOK
<1>6. /\ pending' = pending \cup {n} /\ pending \subseteq Nodes
      /\ UNCHANGED <<cur_cmd, cur_cmd_seq, state_flags, pool_live, corrupt>>
  BY DEF Issue, TypeOK, curVars, lifeVars
<1> HIDE DEF n
<1>7. FreeOnce'
  BY <1>2, <1>3, <1>4 DEF FreeOnce
<1>8. HeldOnce'
  BY <1>3, <1>4 DEF HeldOnce
<1>9. Home'
  BY <1>2, <1>3, <1>4 DEF Home
<1>10. Intact'
  <2>1. ASSUME NEW d \in Callers \ {c}
        PROVE  call[d].node # n /\ call'[d] = call[d]
    BY <1>3, <1>4
  <2>2. code # NoCode
    BY CodesAssumption DEF NoCode
  <2> QED
    BY <1>3, <1>4, <1>5, <1>6, <2>1, <2>2 DEF Intact
<1>11. Flight'
  BY <1>2, <1>3, <1>4, <1>6 DEF Flight, Busy
<1>12. Alive'
  <2>1. ~corrupt
    BY DEF Issue, CanCheckOut, MayIssue
  <2> QED
    BY <1>6, <2>1 DEF Alive
<1> QED
  BY <1>1, <1>6, <1>7, <1>8, <1>9, <1>10, <1>11, <1>12

\* A waiter that completes gives back the node it alone holds, and cur_cmd
\* with it exactly when its own command is in flight.
LEMMA InvComplete ==
    ASSUME IInv, ~corrupt, NEW c \in Callers, NEW woken \in BOOLEAN, Waiting(c),
           Complete(c, woken), TypeOK'
    PROVE  /\ IInv'
           /\ cur_cmd' # cur_cmd => call[c].token = cur_cmd_seq
<1> DEFINE n == call[c].node
<1> USE DEF IInv
<1>1. /\ n \in Nodes /\ ~Idle(c) /\ n \notin Range(free)
      /\ NoNode \notin Nodes /\ pending \subseteq Nodes
  BY NodesFacts DEF Waiting, Idle, FreeOnce, TypeOK
<1>2. /\ node[n].seq = call[c].token
      /\ node[n].in_cmd_queue <=> n \in pending
  BY <1>1 DEF Intact
<1>3. Recycle(n, node[n], free, pending) /\ ReleaseIfOwner(n)
  BY DEF Complete
<1>4. /\ pending' = pending \ {n} /\ free' = Append(free, n) /\ ~corrupt'
      /\ \A m \in Nodes \ {n} : node'[m] = node[m]
  BY <1>1, <1>2, <1>3 DEF Recycle, TypeOK
<1>5. /\ call'[c].node = NoNode
      /\ \A d \in Callers \ {c} : call'[d] = call[d]
  <2>1. call[c] \in Call
    BY DEF TypeOK
  <2> QED
    BY <2>1 DEF Complete, TypeOK, Call
<1>6. \A d \in Callers \ {c} : call[d].node # n
  BY <1>1 DEF HeldOnce
<1>7. /\ cur_cmd = n => cur_cmd' = NoNode /\ call[c].token = cur_cmd_seq
      /\ cur_cmd # n => cur_cmd' = cur_cmd
      /\ cur_cmd_seq' = cur_cmd_seq
  <2>1. cur_cmd = n => call[c].token = cur_cmd_seq
    BY <1>1, <1>6 DEF Flight, Busy
  <2> QED
    BY <1>2, <1>3, <2>1 DEF ReleaseIfOwner
<1>8. /\ Range(free') = Range(free) \cup {n}
      /\ \A i, j \in DOMAIN free' : free'[i] = free'[j] => i = j
  <2>1. /\ free \in Seq(Nodes)
        /\ \A i, j \in DOMAIN free : free[i] = free[j] => i = j
    BY DEF FreeOnce, TypeOK
  <2>2. free' = Append(free, n) /\ n \in Nodes /\ n \notin Range(free)
    BY <1>1, <1>4
  <2> HIDE DEF n, IInv
  <2> QED
    BY ONLY <2>1, <2>2, AppendOnce
<1>9. UNCHANGED <<state_flags, pool_live>>
  BY DEF Complete, lifeVars
<1> HIDE DEF n
<1>10. FreeOnce'
  <2>1. \A m \in Range(free') : m \in Nodes
    BY <1>1, <1>8 DEF Range, TypeOK
  <2>2. ASSUME NEW m \in Range(free'), NEW d \in Callers PROVE call'[d].node # m
    BY <1>1, <1>5, <1>6, <1>8, <2>1 DEF FreeOnce
  <2> QED
    BY <1>8, <2>2 DEF FreeOnce
<1>11. HeldOnce'
  BY <1>1, <1>5 DEF HeldOnce
<1>12. Home'
  BY <1>5, <1>8 DEF Home, n
<1>13. Intact'
  <2>1. ASSUME NEW d \in Callers \ {c}
        PROVE  call[d].node # n /\ call'[d] = call[d]
    BY <1>5, <1>6
  <2> QED
    BY <1>1, <1>4, <1>5, <2>1 DEF Intact
<1>14. Flight'
  BY <1>1, <1>4, <1>5, <1>7 DEF Flight, Busy, n
<1>15. Alive'
  BY <1>4, <1>9 DEF Alive
<1> QED
  BY <1>4, <1>7, <1>10, <1>11, <1>12, <1>13, <1>14, <1>15

\* The worker sends the oldest pending command, which its caller holds.
LEMMA InvSends ==
    ASSUME IInv, NEW n \in Nodes, WorkSends(n)
    PROVE  IInv'
<1> USE DEF IInv
<1>1. TypeOK'
  BY WorkType DEF CmdWork
<1>2. /\ n \in pending /\ pending' = pending \ {n}
      /\ cur_cmd' = n /\ cur_cmd_seq' = node[n].seq
      /\ UNCHANGED <<free, state_flags, pool_live, call, corrupt>>
  BY DEF WorkSends, Takes, lifeVars
<1>3. PICK c \in Callers : call[c].node = n /\ call[c].token = node[n].seq
  BY <1>2 DEF Flight, Intact
<1>4. /\ \A m \in Nodes \ {n} : node'[m] = node[m]
      /\ node'[n].seq = node[n].seq /\ node'[n].code = node[n].code
      /\ node'[n].in_cmd_queue = FALSE
  <2>1. node[n] \in CommandNode
    BY DEF TypeOK
  <2> QED
    BY <2>1 DEF WorkSends, TypeOK, CommandNode
<1>5. FreeOnce' /\ HeldOnce' /\ Home'
  BY <1>2 DEF FreeOnce, HeldOnce, Home
<1>6. Intact'
  BY <1>2, <1>4 DEF Intact
<1>7. Flight'
  BY <1>2, <1>3 DEF Flight
<1>8. Alive'
  BY <1>2 DEF Alive, Outlived, Idle
<1> QED
  BY <1>1, <1>2, <1>5, <1>6, <1>7, <1>8

\* A response is stored in the node in flight and moves nothing.
LEMMA InvResponse ==
    ASSUME IInv, Response \/ ResponseDropped
    PROVE  IInv'
<1> USE DEF IInv
<1>1. TypeOK'
  BY ResponseType
<1>2. CASE Response
  <2>1. /\ UNCHANGED <<free, pending, cur_cmd, cur_cmd_seq, state_flags,
                       pool_live, call, corrupt>>
        /\ cur_cmd \in Nodes
    BY <1>2 DEF Response, lifeVars
  <2>2. \A m \in Nodes : /\ node'[m].seq = node[m].seq
                          /\ node'[m].code = node[m].code
                          /\ node'[m].in_cmd_queue = node[m].in_cmd_queue
                          /\ node'[m].cmd_skb = node[m].cmd_skb
    <3>1. node[cur_cmd] \in CommandNode
      BY <2>1 DEF TypeOK
    <3> QED
      BY <1>2, <3>1 DEF Response, TypeOK, CommandNode
  <2>3. FreeOnce' /\ HeldOnce' /\ Home' /\ Flight' /\ Alive'
    BY <2>1 DEF FreeOnce, HeldOnce, Home, Flight, Alive, Outlived, Idle, Busy
  <2>4. Intact'
    BY <2>1, <2>2 DEF Intact
  <2> QED
    BY <1>1, <2>1, <2>3, <2>4
<1>3. CASE ResponseDropped
  BY <1>1, <1>3 DEF ResponseDropped, poolVars, curVars, lifeVars, FreeOnce, HeldOnce,
                    Home, Flight, Alive, Outlived, Intact, Idle, Busy
<1> QED
  BY <1>2, <1>3

\* A caller turned away holds nothing before and after.
LEMMA InvTurnedAway ==
    ASSUME IInv, NEW c \in Callers, NEW code \in Codes,
           Reject(c, code) \/ NoFreeNode(c, code)
    PROVE  IInv'
<1> USE DEF IInv
<1>1. TypeOK'
  BY CallerType DEF CallerStep
<1>2. /\ UNCHANGED <<poolVars, curVars, lifeVars, corrupt>>
      /\ \E r \in {"rejected", "nonode"} : Returns(c, r)
      /\ call[c].node = NoNode
  BY DEF Reject, NoFreeNode, MayIssue, Idle
<1>3. \A d \in Callers : call'[d].node = call[d].node /\ call'[d].token = call[d].token
  <2>1. call[c] \in Call
    BY DEF TypeOK
  <2> QED
    BY <1>2, <2>1 DEF Returns, TypeOK, Call
<1>4. FreeOnce' /\ HeldOnce' /\ Home' /\ Flight' /\ Alive' /\ Intact'
  BY <1>2, <1>3 DEF FreeOnce, HeldOnce, Home, Flight, Alive, Outlived, Intact, Idle,
                    Busy, poolVars, curVars, lifeVars
<1> QED
  BY <1>1, <1>2, <1>4

\* Teardown frees the pool under its callers and changes nothing else.
LEMMA InvTeardown ==
    ASSUME IInv, TeardownStart \/ TeardownFree
    PROVE  IInv'
<1> USE DEF IInv
<1>1. TypeOK'
  BY DriverType DEF DriverStep
<1>2. /\ UNCHANGED <<free, pending, node, cur_cmd, cur_cmd_seq, call, corrupt>>
      /\ ~corrupt
      /\ "DRIVER_ACTIVE" \in state_flags'
      /\ "CMD_INIT_DONE" \notin state_flags'
  BY DEF TeardownStart, TeardownFree, poolVars, curVars, Alive
<1>3. Alive'
  BY <1>2 DEF Alive
<1> QED
  BY <1>1, <1>2, <1>3 DEF FreeOnce, HeldOnce, Home, Flight, Intact, Busy

\* Set-up gives a pool of free nodes; the callers that waited, and the command
\* in flight with its own caller, point into the old one.
LEMMA InvSetup ==
    ASSUME IInv, Setup
    PROVE  IInv'
<1> USE DEF IInv
<1>1. TypeOK'
  BY DriverType DEF DriverStep
<1>2. /\ free' = FreshPool /\ pending' = {}
      /\ cur_cmd' = (IF Busy THEN Dangling ELSE NoNode)
      /\ cur_cmd_seq' = cur_cmd_seq
      /\ pool_live' /\ "DRIVER_ACTIVE" \in state_flags'
      /\ ~corrupt'
  BY DEF Setup, Alive
<1>3. \A c \in Callers : /\ Idle(c) => call'[c].node = NoNode
                         /\ ~Idle(c) => call'[c].node = Dangling
                         /\ call'[c].token = call[c].token
  <2>1. ASSUME NEW c \in Callers
        PROVE  /\ call'[c] = (IF Idle(c) THEN call[c]
                                         ELSE [call[c] EXCEPT !.node = Dangling])
               /\ call[c] \in Call
    BY DEF Setup, TypeOK
  <2> QED
    BY <2>1 DEF Idle, Call
<1>4. \A c \in Callers : call'[c].node \notin Nodes
  BY <1>3, NodesFacts
<1>5. FreeOnce' /\ Home'
  BY <1>2, <1>4, FreshPoolType DEF FreeOnce, Home
<1>6. HeldOnce' /\ Intact'
  BY <1>4 DEF HeldOnce, Intact
<1>7. Flight'
  <2>1. CASE Busy
    <3>1. PICK c \in Callers : call[c].node = cur_cmd /\ call[c].token = cur_cmd_seq
      BY <2>1 DEF Flight
    <3>2. ~Idle(c)
      BY <2>1, <3>1 DEF Idle, Busy
    <3> QED
      BY <1>2, <1>3, <2>1, <3>1, <3>2 DEF Flight
  <2>2. CASE ~Busy
    BY <1>2, <2>2 DEF Flight, Busy
  <2> QED
    BY <2>1, <2>2
<1>8. Alive'
  BY <1>2 DEF Alive
<1> QED
  BY <1>1, <1>5, <1>6, <1>7, <1>8

\* Freed memory is touched by a caller that outlived its pool, or by a response
\* to a command whose caller did.
LEMMA InvTouchFreed ==
    ASSUME IInv, TouchFreed
    PROVE  IInv'
<1> USE DEF IInv
<1>1. TypeOK'
  BY DriverType DEF DriverStep
<1>2. UNCHANGED <<free, pending, node, cur_cmd, cur_cmd_seq, call, state_flags, pool_live>>
  BY DEF TouchFreed, poolVars, curVars, lifeVars
<1>3. \E c \in Callers : Outlived(c)
  <2>1. CASE Busy /\ cur_cmd = Dangling
    BY <2>1 DEF Flight, Outlived
  <2>2. CASE \E c \in Callers : call[c].node = Dangling \/ (~Idle(c) /\ ~pool_live)
    BY <2>2 DEF Outlived
  <2> QED
    BY <2>1, <2>2 DEF TouchFreed, Expected
<1>4. Alive'
  BY <1>2, <1>3 DEF Alive, Outlived, Idle
<1> QED
  BY <1>1, <1>2, <1>4 DEF FreeOnce, HeldOnce, Home, Flight, Intact, Busy

\* With no fault that takes a node away from its caller, every step preserves
\* the invariant.
LEMMA InvStep == Tenured => (IInv /\ [Next]_vars => IInv')
<1> SUFFICES ASSUME Tenured, IInv, [Next]_vars PROVE IInv'
  OBVIOUS
<1> USE DEF IInv
<1>1. /\ "alloc" \notin Faults /\ "abandon" \notin Faults /\ "send" \notin Faults
      /\ "inactive" \notin Faults
  BY DEF Tenured
<1>2. ASSUME NEW c \in Callers, NEW woken \in BOOLEAN, Waiting(c), ~corrupt,
             Leave(c, woken)
      PROVE  IInv'
  BY <1>2, LeaveType, InvComplete DEF Leave, Alive
<1>3. ASSUME NEW c \in Callers, CallerStep(c) PROVE IInv'
  <2>1. ASSUME NEW code \in Codes, Reject(c, code) \/ NoFreeNode(c, code) PROVE IInv'
    BY <2>1, InvTurnedAway
  <2>2. ASSUME NEW code \in Codes, Issue(c, code) PROVE IInv'
    BY <2>2, InvIssue
  <2>3. ASSUME NEW code \in Codes PROVE ~AllocFail(c, code) /\ ~Abandon(c, code)
    BY <1>1 DEF AllocFail, Abandon
  <2>4. CASE Wake(c) \/ Timeout(c) \/ Interrupt(c)
    BY <1>2, <2>4 DEF Wake, Timeout, Interrupt, MayGiveUp
  <2> QED
    BY <1>3, <2>1, <2>2, <2>3, <2>4 DEF CallerStep
<1>4. CASE CmdWork
  <2>1. CASE WorkSkips
    <3>1. TypeOK'
      BY <2>1, WorkType DEF CmdWork
    <3> QED
      BY <2>1, <3>1 DEF WorkSkips, poolVars, curVars, lifeVars, FreeOnce, HeldOnce,
                        Home, Flight, Alive, Outlived, Intact, Idle, Busy
  <2>2. ASSUME NEW n \in Nodes, WorkSends(n) PROVE IInv'
    BY <2>2, InvSends
  <2>3. ASSUME NEW n \in Nodes PROVE ~WorkFailsToSend(n)
    <3>1. SUFFICES ASSUME n \in pending PROVE ~Bogus(n)
      BY <1>1 DEF WorkFailsToSend, Takes
    <3> QED
      BY <3>1 DEF Flight, Intact, Bogus
  <2> QED
    BY <1>4, <2>1, <2>2, <2>3 DEF CmdWork
<1>5. CASE Response \/ ResponseDropped
  BY <1>5, InvResponse
<1>6. CASE DriverStep
  <2>1. CASE OtaStart \/ OtaEnd \/ CardReady
    <3>1. TypeOK'
      BY <2>1, DriverType DEF DriverStep
    <3>2. UNCHANGED <<free, pending, node, cur_cmd, cur_cmd_seq, pool_live, call, corrupt>>
      BY <2>1 DEF OtaStart, OtaEnd, CardReady, poolVars, curVars
    <3>3. Alive'
      BY <2>1, <3>2 DEF OtaStart, OtaEnd, CardReady, Alive, Outlived, Idle
    <3> QED
      BY <3>1, <3>2, <3>3 DEF FreeOnce, HeldOnce, Home, Flight, Intact, Busy
  <2>2. CASE TeardownStart \/ TeardownFree \/ Setup \/ TouchFreed
    BY <2>2, InvTeardown, InvSetup, InvTouchFreed
  <2>3. ~DriverInactive
    BY <1>1 DEF DriverInactive
  <2> QED
    BY <1>6, <2>1, <2>2, <2>3 DEF DriverStep
<1>7. CASE UNCHANGED vars
  BY <1>7, TypeStep DEF vars, FreeOnce, HeldOnce, Home, Flight, Alive, Outlived,
                        Intact, Idle, Busy
<1> QED
  BY <1>3, <1>4, <1>5, <1>6, <1>7 DEF Next

LEMMA Invariance == Tenured => (Spec => []IInv)
<1> SUFFICES ASSUME Tenured PROVE Spec => []IInv
  OBVIOUS
<1>1. Init => IInv
  BY InvInit
<1>2. IInv /\ [Next]_vars => IInv'
  BY InvStep
<1> QED
  BY <1>1, <1>2, PTL DEF Spec

\* What the invariant says in the terms of CmdChannel.
LEMMA InvImplies == IInv => SingleHome /\ NoLeak /\ HeldByWaiter
<1> SUFFICES ASSUME IInv PROVE SingleHome /\ NoLeak /\ HeldByWaiter
  OBVIOUS
<1>1. SingleHome
  <2>1. ASSUME NEW c \in Callers, NEW d \in Callers, call[c].node = call[d].node,
               ~Idle(c), call[c].node # Dangling
        PROVE  c = d
    <3>1. call[c].node \in Nodes
      BY <2>1 DEF IInv, TypeOK, Call, Idle
    <3> QED
      BY <2>1, <3>1 DEF IInv, HeldOnce
  <2> QED
    BY <2>1 DEF IInv, FreeOnce, SingleHome, Holders
<1>2. NoLeak
  BY DEF IInv, Home, NoLeak
<1> QED
  BY <1>1, <1>2 DEF IInv, Flight, HeldByWaiter

\* However often the slave boots again, whatever the link loses and whoever
\* times out early, late or by a signal, a command in flight has its caller
\* waiting for it, for any number of callers and nodes.
THEOREM WaiterSafe == Tenured => (Spec => [](HeldByWaiter /\ CurHasWaiter))
<1> SUFFICES ASSUME Tenured PROVE Spec => [](HeldByWaiter /\ CurHasWaiter)
  OBVIOUS
<1>1. IInv => HeldByWaiter /\ CurHasWaiter
  BY InvImplies DEF CurHasWaiter
<1> QED
  BY <1>1, Invariance, PTL

\* Nothing is ever misused but the nodes of a pool that was freed under its
\* callers.
BlameOutlived == corrupt => \E c \in Callers : Outlived(c)

\* Under the same conditions a node of the pool is free or held by one caller,
\* none is lost, and the lists stay sound: all that reboots can do is leave a
\* caller waiting in a pool that was freed.
THEOREM ListsSafe == Tenured => (Spec => [](SingleHome /\ NoLeak /\ BlameOutlived))
<1> SUFFICES ASSUME Tenured PROVE Spec => [](SingleHome /\ NoLeak /\ BlameOutlived)
  OBVIOUS
<1>1. IInv => SingleHome /\ NoLeak /\ BlameOutlived
  BY InvImplies DEF IInv, Alive, BlameOutlived
<1> QED
  BY <1>1, Invariance, PTL

\* A step that takes c's node away from it leaves another's cur_cmd alone.
LEMMA ReleaseStep ==
    ASSUME Tenured, IInv, [Next]_vars, NEW c \in Callers,
           ~Idle(c), call'[c].node = NoNode, call[c].token # cur_cmd_seq
    PROVE  UNCHANGED <<cur_cmd, cur_cmd_seq>>
<1> USE DEF IInv
<1>1. "alloc" \notin Faults /\ "abandon" \notin Faults
  BY DEF Tenured
<1>2. ASSUME NEW d \in Callers, CallerStep(d) PROVE UNCHANGED <<cur_cmd, cur_cmd_seq>>
  <2>1. ASSUME NEW code \in Codes, Reject(d, code) \/ NoFreeNode(d, code)
                                    \/ Issue(d, code)
        PROVE  UNCHANGED <<cur_cmd, cur_cmd_seq>>
    BY <2>1 DEF Reject, NoFreeNode, Issue, curVars
  <2>2. ASSUME NEW code \in Codes PROVE ~AllocFail(d, code) /\ ~Abandon(d, code)
    BY <1>1 DEF AllocFail, Abandon
  <2>3. ASSUME NEW woken \in BOOLEAN, Waiting(d), ~corrupt, Leave(d, woken)
        PROVE  UNCHANGED <<cur_cmd, cur_cmd_seq>>
    <3>1. Complete(d, woken)
      BY <2>3 DEF Leave, Alive
    <3>2. d = c
      BY <3>1 DEF Complete, TypeOK, Idle
    <3>3. cur_cmd' = cur_cmd
      BY <2>3, <3>1, <3>2, InvComplete, LeaveType
    <3> QED
      BY <3>1, <3>3 DEF Complete, ReleaseIfOwner
  <2>4. CASE Wake(d) \/ Timeout(d) \/ Interrupt(d)
    BY <2>3, <2>4 DEF Wake, Timeout, Interrupt, MayGiveUp
  <2> QED
    BY <1>2, <2>1, <2>2, <2>4 DEF CallerStep
<1>3. CASE Setup
  <2>1. call'[c] = [call[c] EXCEPT !.node = Dangling] /\ call[c] \in Call
    BY <1>3 DEF Setup, TypeOK
  <2> QED
    BY <2>1, NodesFacts DEF Call
<1>4. CASE CmdWork \/ Response \/ ResponseDropped \/ (DriverStep /\ ~Setup)
  <2>1. call'[c] = call[c]
    BY <1>4 DEF CmdWork, WorkSkips, WorkSends, WorkFailsToSend, Response,
         ResponseDropped, DriverStep, DriverInactive, OtaStart, OtaEnd,
         TeardownStart, TeardownFree, CardReady, TouchFreed
  <2> QED
    BY <2>1 DEF Idle
<1>5. CASE UNCHANGED vars
  BY <1>5 DEF vars
<1> QED
  BY <1>2, <1>3, <1>4, <1>5 DEF Next

\* esp_cmd_release_if_owner does what its comment says, across reboots of the
\* slave too, as long as no fault recycles a node under its caller.
THEOREM ReleaseSafe == Tenured => (Spec => ReleaseByOwner)
<1> SUFFICES ASSUME Tenured PROVE Spec => ReleaseByOwner
  OBVIOUS
<1> DEFINE A == \A c \in Callers :
                  ~Idle(c) /\ call'[c].node = NoNode /\ call[c].token # cur_cmd_seq
                     => UNCHANGED <<cur_cmd, cur_cmd_seq>>
<1>1. IInv /\ [Next]_vars => [A]_vars
  BY ReleaseStep
<1>2. Spec => [][A]_vars
  BY <1>1, Invariance, PTL DEF Spec
<1> QED
  BY <1>2 DEF ReleaseByOwner

----------------------------------------------------------------------------
(* The pool, when the slave does not boot again.                           *)

\* The driver's life is uneventful and no caller outlives its pool.
Steady ==
    /\ {"CMD_INIT_DONE", "DRIVER_ACTIVE"} \subseteq state_flags
    /\ "CLEANUP_IN_PROGRESS" \notin state_flags
    /\ pool_live
    /\ cur_cmd # Dangling
    /\ \A c \in Callers : call[c].node # Dangling

SInv == IInv /\ Steady

\* In steady life no caller outlives its pool, so nothing was misused.
LEMMA SteadyHolds == SInv => ~corrupt
BY DEF SInv, IInv, Alive, Steady, Outlived

\* Without reboots nothing ends the steady life.
LEMMA SteadyStep == Tame => (SInv /\ [Next]_vars => SInv')
<1> SUFFICES ASSUME Tame, SInv, [Next]_vars PROVE Steady'
  BY InvStep DEF SInv, Tame
<1>1. TypeOK /\ Steady /\ Tenured /\ "reboot" \notin Faults
  BY DEF SInv, IInv, Tame
<1>2. ASSUME NEW c \in Callers, CallerStep(c) PROVE Steady'
  <2>1. ASSUME NEW r, Returns(c, r), UNCHANGED <<lifeVars, cur_cmd>> PROVE Steady'
    <3>1. \A d \in Callers : call'[d].node \in {NoNode, call[d].node}
      <4>1. call[c] \in Call
        BY <1>1 DEF TypeOK
      <4> QED
        BY <1>1, <2>1, <4>1 DEF Returns, TypeOK, Call
    <3> QED
      BY <1>1, <2>1, <3>1, NodesFacts DEF Steady, lifeVars
  <2>2. ASSUME NEW code \in Codes, Reject(c, code) \/ NoFreeNode(c, code) PROVE Steady'
    BY <2>1, <2>2 DEF Reject, NoFreeNode, curVars
  <2>3. ASSUME NEW code \in Codes, Issue(c, code) PROVE Steady'
    <3>1. Head(free) \in Nodes
      BY <1>1, <2>3, CheckOutType DEF Issue
    <3>2. \A d \in Callers : call'[d].node \in {Head(free), call[d].node}
      BY <1>1, <2>3 DEF Issue, TypeOK
    <3> QED
      BY <1>1, <2>3, <3>1, <3>2, NodesFacts DEF Issue, Steady, curVars, lifeVars
  <2>4. ASSUME NEW code \in Codes PROVE ~AllocFail(c, code) /\ ~Abandon(c, code)
    BY <1>1 DEF AllocFail, Abandon, Tenured
  <2>5. ASSUME NEW woken \in BOOLEAN, Leave(c, woken) PROVE Steady'
    <3>1. Complete(c, woken)
      BY <1>1, <2>5 DEF Leave, Steady
    <3>2. cur_cmd' \in {NoNode, cur_cmd} /\ UNCHANGED lifeVars
      BY <3>1 DEF Complete, ReleaseIfOwner
    <3>3. \A d \in Callers : call'[d].node \in {NoNode, call[d].node}
      <4>1. call[c] \in Call
        BY <1>1 DEF TypeOK
      <4> QED
        BY <1>1, <3>1, <4>1 DEF Complete, TypeOK, Call
    <3> QED
      BY <1>1, <3>2, <3>3, NodesFacts DEF Steady, lifeVars
  <2>6. CASE Wake(c) \/ Timeout(c) \/ Interrupt(c)
    BY <2>5, <2>6 DEF Wake, Timeout, Interrupt
  <2> QED
    BY <1>2, <2>2, <2>3, <2>4, <2>6 DEF CallerStep
<1>3. CASE CmdWork
  <2>1. CASE WorkSkips
    BY <1>1, <2>1 DEF WorkSkips, Steady, curVars, lifeVars
  <2>2. ASSUME NEW n \in Nodes, WorkSends(n) PROVE Steady'
    BY <1>1, <2>2, NodesFacts DEF WorkSends, Steady, lifeVars
  <2>3. ASSUME NEW n \in Nodes, WorkFailsToSend(n) PROVE Steady'
    BY <1>1, <2>3 DEF WorkFailsToSend, Steady, lifeVars
  <2> QED
    BY <1>3, <2>1, <2>2, <2>3 DEF CmdWork
<1>4. CASE Response \/ ResponseDropped
  BY <1>1, <1>4 DEF Response, ResponseDropped, Steady, curVars, lifeVars
<1>5. CASE DriverStep
  <2>1. CASE OtaStart \/ OtaEnd
    BY <1>1, <2>1 DEF OtaStart, OtaEnd, Steady, curVars
  <2>2. ~DriverInactive /\ ~TeardownStart /\ ~TeardownFree /\ ~Setup
        /\ ~CardReady /\ ~TouchFreed
    BY <1>1 DEF DriverInactive, TeardownStart, TeardownFree, Setup, CardReady,
                TouchFreed, Steady, Tenured
  <2> QED
    BY <1>5, <2>1, <2>2 DEF DriverStep
<1>6. CASE UNCHANGED vars
  BY <1>1, <1>6 DEF vars, Steady
<1> QED
  BY <1>2, <1>3, <1>4, <1>5, <1>6 DEF Next

LEMMA SteadyInit == Init => SInv
<1>1. Init => Steady
  BY NodesFacts DEF Init, Steady
<1> QED
  BY <1>1, InvInit DEF SInv

LEMMA SteadyInvariance == Tame => (Spec => []SInv)
<1> SUFFICES ASSUME Tame PROVE Spec => []SInv
  OBVIOUS
<1>1. SInv /\ [Next]_vars => SInv'
  BY SteadyStep
<1> QED
  BY <1>1, SteadyInit, PTL DEF Spec

\* For any number of callers and nodes, and whatever the link loses and
\* whoever times out early, late or by a signal: no list is misused, a node is
\* free or held by one caller, and none is lost.
THEOREM PoolSafe == Tame => (Spec => []PoolIntact)
<1> SUFFICES ASSUME Tame PROVE Spec => []PoolIntact
  OBVIOUS
<1>1. SInv => PoolIntact
  BY InvImplies, SteadyHolds DEF SInv, PoolIntact, NoCorruption
<1> QED
  BY <1>1, SteadyInvariance, PTL

----------------------------------------------------------------------------
(* The refinement of CmdService, when no answer is late.                   *)

\* The faults above, and nobody gives up on a command that is still answered.
Prompt == Tame /\ "late" \notin Faults

\* A caller that waits has been told of nothing.
Untold == \A c \in Callers : ~Idle(c) => call[c].got = NoToken

\* Tokens come from the counter.
Aged == \A c \in Callers : call[c].token <= esp_cmd_seq_ctr

\* Only the command in flight has an answer.
Quiet == \A n \in Nodes : n # cur_cmd => node[n].resp_skb = NoToken

\* The link owes at most the answer to the command in flight.
OneOwed ==
    \/ wire = << >>
    \/ /\ cur_cmd \in Nodes
       /\ wire = <<cur_cmd_seq>>
       /\ node[cur_cmd].resp_skb = NoToken
       /\ cmd_resp = NoCode

\* A caller that waits is served or about to be.
Underway == \A c \in Callers : ~Idle(c) => call[c].node \in pending \cup {cur_cmd}

PInv == SInv /\ Untold /\ Aged /\ Quiet /\ OneOwed /\ Underway

\* The holder of a node is whoever holds it, if nobody else does.
LEMMA HolderIs ==
    ASSUME NEW calls, NEW n, NEW c \in Callers, calls[c].node = n,
           \A d \in Callers : calls[d].node = n => d = c
    PROVE  Holder(calls, n) = c
BY DEF Holder

\* The caller being served is the one that holds the command in flight.
LEMMA ServedIs ==
    ASSUME SInv
    PROVE  /\ ~Busy => Served = NoCaller
           /\ \A c \in Callers : Busy /\ call[c].node = cur_cmd => Served = c
           /\ Busy => Served \in Callers /\ call[Served].node = cur_cmd
<1>1. ~Busy => Served = NoCaller
  BY DEF Served
<1>2. ASSUME NEW c \in Callers, Busy, call[c].node = cur_cmd PROVE Served = c
  <2>1. \A d \in Callers : call[d].node = cur_cmd => d = c
    BY <1>2 DEF SInv, IInv, HeldOnce, Steady, TypeOK, Busy
  <2>2. Holder(call, cur_cmd) = c
    BY <1>2, <2>1, HolderIs
  <2> QED
    BY <1>2, <2>2 DEF Served
<1> QED
  BY <1>1, <1>2 DEF SInv, IInv, Flight

\* The same after a step.
LEMMA ServedIsNext ==
    ASSUME SInv'
    PROVE  /\ ~Busy' => Served' = NoCaller
           /\ \A c \in Callers : Busy' /\ call'[c].node = cur_cmd' => Served' = c
<1>1. ~Busy' => Served' = NoCaller
  BY DEF Served
<1>2. ASSUME NEW c \in Callers, Busy', call'[c].node = cur_cmd' PROVE Served' = c
  <2>1. \A d \in Callers : call'[d].node = cur_cmd' => d = c
    BY <1>2 DEF SInv, IInv, HeldOnce, Steady, TypeOK, Busy
  <2>2. Holder(call', cur_cmd') = c
    BY <1>2, <2>1, HolderIs
  <2> QED
    BY <1>2, <2>2 DEF Served
<1> QED
  BY <1>1, <1>2

\* A command that is queued is a command submitted.
LEMMA PromiseIssue ==
    ASSUME PInv, SInv', NEW c \in Callers, NEW code \in Codes, Issue(c, code)
    PROVE  PInv' /\ Service!Submit(c)
<1> DEFINE n == Head(free)
<1>0. TypeOK /\ TypeOK' /\ SInv
  BY DEF PInv, SInv, IInv
<1>1. /\ n \in Nodes /\ n \in Range(free)
      /\ \A d \in Callers : call[d].node # n
      /\ call[c].node = NoNode
  <2>1. n \in Nodes /\ n \in Range(free)
    BY <1>0, CheckOutType, TailOnce DEF TypeOK, SInv, IInv, FreeOnce, Issue, CanCheckOut
  <2> QED
    BY <1>0, <2>1 DEF SInv, IInv, FreeOnce, Issue, CanCheckOut, MayIssue, Idle
<1>2. /\ call'[c].node = n /\ call'[c].token = esp_cmd_seq_ctr + 1
      /\ call'[c].got = NoToken
      /\ \A d \in Callers \ {c} : call'[d] = call[d]
      /\ esp_cmd_seq_ctr \in Nat /\ esp_cmd_seq_ctr' = esp_cmd_seq_ctr + 1
  BY <1>0 DEF Issue, TypeOK
<1>3. /\ UNCHANGED <<cur_cmd, cur_cmd_seq, cmd_resp, wire>>
      /\ pending' = pending \cup {n}
  BY DEF Issue, curVars
<1>4. \A m \in Nodes : node'[m].resp_skb = node[m].resp_skb
  <2>1. node[n] \in CommandNode
    BY <1>0, <1>1 DEF TypeOK
  <2>2. node' = [node EXCEPT ![n] = CheckedOut(n, code)]
    BY DEF Issue
  <2>3. CheckedOut(n, code).resp_skb = node[n].resp_skb
    BY <2>1 DEF CheckedOut, CommandNode
  <2> HIDE DEF n
  <2> QED
    BY <1>0, <1>1, <2>2, <2>3 DEF TypeOK
<1> HIDE DEF n
<1>5. \A d \in Callers : call[d].token \in Nat /\ call[d].token <= esp_cmd_seq_ctr
  <2>1. \A d \in Callers : call[d].token \in Nat
    BY <1>0 DEF TypeOK, Call
  <2> QED
    BY <2>1 DEF PInv, Aged
<1>6. PInv'
  <2>1. Untold'
    BY <1>2 DEF PInv, Untold, Idle
  <2>2. Aged'
    <3>1. \A d \in Callers : call'[d].token = esp_cmd_seq_ctr + 1 \/ call'[d].token = call[d].token
      BY <1>2
    <3> QED
      BY <1>2, <1>5, <3>1 DEF Aged
  <2>3. Quiet' /\ OneOwed'
    BY <1>3, <1>4 DEF PInv, Quiet, OneOwed
  <2>4. Underway'
    BY <1>1, <1>2, <1>3 DEF PInv, Underway, Idle
  <2> QED
    BY <2>1, <2>2, <2>3, <2>4 DEF PInv
<1>7. Served' = Served /\ Served # c
  <2>1. CASE ~Busy
    <3>1. ~Busy'
      BY <1>3, <2>1 DEF Busy
    <3> QED
      BY <1>0, <2>1, <3>1, ServedIs, ServedIsNext, CallersAssumption
  <2>2. CASE Busy
    <3>1. Served \in Callers /\ call[Served].node = cur_cmd
      BY <1>0, <2>2, ServedIs
    <3>2. Served # c
      BY <1>1, <2>2, <3>1 DEF Busy
    <3>3. Busy' /\ call'[Served].node = cur_cmd'
      BY <1>2, <1>3, <2>2, <3>1, <3>2 DEF Busy
    <3> QED
      BY <1>0, <3>1, <3>2, <3>3, ServedIsNext
  <2> QED
    BY <2>1, <2>2
<1>8. c \notin Queued /\ Queued' = Queued \cup {c}
  <2>1. NoNode \notin pending
    BY <1>0, NodesFacts DEF TypeOK
  <2> QED
    BY <1>1, <1>2, <1>3, <2>1 DEF Queued
<1>9. Reply' = Reply
  BY <1>3, <1>4 DEF Reply
<1>10. /\ Tickets' = [Tickets EXCEPT ![c] = Tickets'[c]]
       /\ Tickets'[c] \in Nat
       /\ \A d \in Callers : Tickets[d] < Tickets'[c]
  <2>1. /\ Tickets'[c] = esp_cmd_seq_ctr + 1
        /\ \A d \in Callers : Tickets[d] = call[d].token
    BY <1>2 DEF Tickets
  <2>2. Tickets' = [Tickets EXCEPT ![c] = Tickets'[c]]
    BY <1>2 DEF Tickets
  <2> QED
    BY <1>2, <1>5, <2>1, <2>2
<1>11. Told' = [Told EXCEPT ![c] = 0]
  BY <1>2 DEF Told, NoToken
<1>12. c \notin Service!Engaged
  BY <1>7, <1>8 DEF Service!Engaged
<1> QED
  BY <1>6, <1>7, <1>8, <1>9, <1>10, <1>11, <1>12 DEF Service!Submit

\* A command that is sent is a command served.
LEMMA PromiseSends ==
    ASSUME PInv, SInv', NEW n \in Nodes, WorkSends(n)
    PROVE  PInv' /\ \E c \in Callers : Service!Serve(c)
<1>0. TypeOK /\ TypeOK' /\ SInv
  BY DEF PInv, SInv, IInv
<1>1. /\ n \in pending /\ ~Busy /\ pending' = pending \ {n}
      /\ cur_cmd' = n /\ cur_cmd_seq' = node[n].seq /\ cmd_resp' = NoCode
      /\ wire' = Append(wire, node[n].seq)
      /\ UNCHANGED <<esp_cmd_seq_ctr, call>>
      /\ \A m \in pending : node[n].seq <= node[m].seq
  BY DEF WorkSends, Takes
<1>2. \A m \in Nodes : node'[m].resp_skb = node[m].resp_skb
  <2>1. node[n] \in CommandNode
    BY <1>0 DEF TypeOK
  <2> QED
    BY <1>0, <2>1 DEF WorkSends, TypeOK, CommandNode
<1>3. wire = << >> /\ \A m \in Nodes : node[m].resp_skb = NoToken
  <2>1. cur_cmd \notin Nodes
    BY <1>1, NodesFacts DEF Busy
  <2> QED
    BY <2>1 DEF PInv, OneOwed, Quiet
<1>4. PICK c \in Callers : call[c].node = n
  BY <1>0, <1>1 DEF SInv, IInv, Flight
<1>5. PInv'
  <2>1. wire' = <<cur_cmd_seq'>>
    BY <1>1, <1>3
  <2>2. OneOwed'
    BY <1>1, <1>2, <1>3, <2>1 DEF OneOwed
  <2>3. Untold' /\ Aged' /\ Quiet'
    BY <1>1, <1>2, <1>3 DEF PInv, Untold, Aged, Quiet, Idle
  <2>4. Underway'
    BY <1>1 DEF PInv, Underway, Idle, Busy
  <2> QED
    BY <2>2, <2>3, <2>4 DEF PInv
<1>6. Served = NoCaller /\ Served' = c
  <2>1. Busy' /\ call'[c].node = cur_cmd'
    BY <1>1, <1>4, NodesFacts DEF Busy
  <2> QED
    BY <1>0, <1>1, <2>1, ServedIs, ServedIsNext
<1>7. c \in Queued /\ Queued' = Queued \ {c}
  <2>1. \A d \in Callers : call[d].node = n => d = c
    BY <1>0, <1>4 DEF SInv, IInv, HeldOnce
  <2> QED
    BY <1>1, <1>4, <2>1 DEF Queued
<1>8. \A d \in Queued : Tickets[c] <= Tickets[d]
  <2>1. ASSUME NEW d \in Callers, call[d].node \in pending
        PROVE  node[call[d].node].seq = call[d].token
    BY <1>0, <2>1 DEF SInv, IInv, Intact, TypeOK
  <2> QED
    BY <1>1, <1>4, <2>1 DEF Queued, Tickets
<1>9. Tickets' = Tickets /\ Told' = Told
  BY <1>1 DEF Tickets, Told
<1>10. Reply' = Reply
  <2>1. Reply = NoToken
    BY <1>3 DEF Reply
  <2>2. Reply' = NoToken
    BY <1>1, <1>2, <1>3 DEF Reply
  <2> QED
    BY <2>1, <2>2
<1>11. Service!Serve(c)
  BY <1>6, <1>7, <1>8, <1>9, <1>10 DEF Service!Serve
<1> QED
  BY <1>5, <1>11

\* The answer of the command in flight, which is the only one owed.
LEMMA PromiseResponse ==
    ASSUME PInv, SInv', Response
    PROVE  PInv' /\ Service!Answer
<1>0. TypeOK /\ TypeOK' /\ SInv
  BY DEF PInv, SInv, IInv
<1>1. /\ wire # << >> /\ Busy /\ cur_cmd \in Nodes
      /\ node' = [node EXCEPT ![cur_cmd].resp_skb = Head(wire)]
      /\ wire' = Tail(wire)
      /\ UNCHANGED <<pending, cur_cmd, cur_cmd_seq, call, esp_cmd_seq_ctr>>
  BY DEF Response, Expected
<1>2. /\ wire = <<cur_cmd_seq>> /\ node[cur_cmd].resp_skb = NoToken
      /\ Head(wire) = cur_cmd_seq /\ wire' = << >>
  BY <1>1 DEF PInv, OneOwed
<1>3. /\ node'[cur_cmd].resp_skb = cur_cmd_seq
      /\ \A m \in Nodes \ {cur_cmd} : node'[m] = node[m]
  <2>1. node[cur_cmd] \in CommandNode
    BY <1>0, <1>1 DEF TypeOK
  <2> QED
    BY <1>0, <1>1, <1>2, <2>1 DEF TypeOK, CommandNode
<1>4. PInv'
  BY <1>1, <1>2, <1>3 DEF PInv, Untold, Aged, Quiet, OneOwed, Underway, Idle
<1>5. /\ Served \in Callers /\ call[Served].node = cur_cmd /\ Served' = Served
      /\ call[Served].token = cur_cmd_seq
  <2>1. PICK c \in Callers : call[c].node = cur_cmd /\ call[c].token = cur_cmd_seq
    BY <1>0, <1>1 DEF SInv, IInv, Flight
  <2>2. Served = c
    BY <1>0, <1>1, <2>1, ServedIs
  <2>3. Served' = Served
    BY <1>1 DEF Served, Busy
  <2> QED
    BY <2>1, <2>2, <2>3
<1>6. Queued' = Queued /\ Tickets' = Tickets /\ Told' = Told
  BY <1>1 DEF Queued, Tickets, Told
<1>7. Reply = 0 /\ Reply' = Tickets[Served]
  BY <1>1, <1>2, <1>3, <1>5 DEF Reply, Tickets, NoToken
<1>8. Served # NoCaller
  BY <1>5, CallersAssumption
<1> QED
  BY <1>4, <1>5, <1>6, <1>7, <1>8 DEF Service!Answer

\* A caller that leaves takes its own command out of service, and is told of
\* the answer to it or of nothing.
LEMMA PromiseLeaves ==
    ASSUME PInv, SInv', NEW c \in Callers, NEW woken \in BOOLEAN, Waiting(c),
           Complete(c, woken),
           cmd_resp = node[call[c].node].code \/ ~InFlight(c)
    PROVE  PInv' /\ Service!Finish(c)
<1> DEFINE n == call[c].node
<1>0. TypeOK /\ TypeOK' /\ SInv
  BY DEF PInv, SInv, IInv
<1>1. n \in Nodes /\ ~Idle(c) /\ NoNode \notin Nodes
  BY NodesFacts DEF Waiting, Idle
<1>2. /\ node[n].seq = call[c].token /\ node[n].code # NoCode
      /\ node[n].in_cmd_queue <=> n \in pending
  BY <1>0, <1>1 DEF SInv, IInv, Intact
<1>3. Recycle(n, node[n], free, pending) /\ ReleaseIfOwner(n)
  BY DEF Complete
<1>4. /\ pending' = pending \ {n}
      /\ node'[n].resp_skb = NoToken
      /\ \A m \in Nodes \ {n} : node'[m] = node[m]
  <2>1. pending' = pending \ {n} /\ node' = [node EXCEPT ![n] = Reset(node[n])]
    BY <1>2, <1>3 DEF Recycle
  <2>2. Reset(node[n]).resp_skb = NoToken
    <3>1. node[n] \in CommandNode
      BY <1>0, <1>1 DEF TypeOK
    <3> QED
      BY <3>1 DEF Reset, CommandNode
  <2> HIDE DEF n
  <2> QED
    BY <1>0, <1>1, <2>1, <2>2 DEF TypeOK
<1>5. /\ call'[c].node = NoNode /\ call'[c].token = call[c].token
      /\ call'[c].got \in {NoToken, node[n].resp_skb}
      /\ \A d \in Callers \ {c} : call'[d] = call[d]
      /\ UNCHANGED <<esp_cmd_seq_ctr, wire>>
  <2>1. call[c] \in Call
    BY <1>0 DEF TypeOK
  <2> QED
    BY <1>0, <2>1 DEF Complete, TypeOK, Call
<1>6. \A d \in Callers \ {c} : call[d].node # n
  BY <1>0, <1>1 DEF SInv, IInv, HeldOnce
<1>7. /\ cur_cmd = n => /\ cur_cmd' = NoNode /\ call[c].token = cur_cmd_seq
      /\ cur_cmd # n => UNCHANGED <<cur_cmd, cmd_resp>>
      /\ cur_cmd_seq' = cur_cmd_seq
  <2>1. cur_cmd = n => call[c].token = cur_cmd_seq
    BY <1>0, <1>1, <1>6 DEF SInv, IInv, Flight, Busy
  <2> QED
    BY <1>2, <1>3, <2>1 DEF ReleaseIfOwner
<1>8. cur_cmd = n => wire = << >>
  <2>1. SUFFICES ASSUME cur_cmd = n, wire # << >> PROVE FALSE
    OBVIOUS
  <2>2. wire = <<call[c].token>> /\ cmd_resp = NoCode
    BY <1>7, <2>1 DEF PInv, OneOwed
  <2>3. InFlight(c)
    <3>1. 1 \in DOMAIN wire /\ wire[1] = call[c].token
      BY <2>2
    <3> QED
      BY <3>1 DEF InFlight
  <2> QED
    BY <1>2, <2>2, <2>3
<1>9. cur_cmd # n => node[n].resp_skb = NoToken
  BY <1>1 DEF PInv, Quiet
<1> HIDE DEF n
<1>10. PInv'
  <2>1. Untold'
    BY <1>5 DEF PInv, Untold, Idle
  <2>2. Aged'
    BY <1>5 DEF PInv, Aged
  <2>3. Quiet'
    BY <1>1, <1>4, <1>7 DEF PInv, Quiet
  <2>4. OneOwed'
    <3>1. CASE cur_cmd = n
      BY <1>5, <1>8, <3>1 DEF OneOwed
    <3>2. CASE cur_cmd # n
      BY <1>4, <1>5, <1>7, <3>2 DEF PInv, OneOwed
    <3> QED
      BY <3>1, <3>2
  <2>5. Underway'
    BY <1>4, <1>5, <1>6, <1>7 DEF PInv, Underway, Idle, n
  <2> QED
    BY <2>1, <2>2, <2>3, <2>4, <2>5 DEF PInv
<1>11. Queued' = Queued \ {c}
  <2>1. NoNode \notin pending
    BY <1>0, NodesFacts DEF TypeOK
  <2> QED
    BY <1>4, <1>5, <1>6, <2>1 DEF Queued, n
<1>12. Tickets' = Tickets
  BY <1>5 DEF Tickets
<1>13. Told' = Told \/ (cur_cmd = n /\ Told' = [Told EXCEPT ![c] = Reply])
  <2>1. call[c].got = NoToken
    BY <1>1 DEF PInv, Untold
  <2>2. CASE call'[c].got = NoToken
    BY <1>5, <2>1, <2>2 DEF Told
  <2>3. CASE call'[c].got # NoToken
    <3>1. cur_cmd = n /\ call'[c].got = Reply
      BY <1>1, <1>5, <1>9, <2>3 DEF Reply
    <3> QED
      BY <1>5, <3>1 DEF Told
  <2> QED
    BY <2>2, <2>3
<1>14. CASE cur_cmd = n
  <2>1. Busy /\ ~Busy'
    BY <1>1, <1>7, <1>14 DEF Busy
  <2>2. Served = c /\ Served' = NoCaller
    BY <1>0, <1>14, <2>1, ServedIs, ServedIsNext DEF n
  <2>3. Reply' = 0
    BY <1>1, <1>7, <1>14 DEF Reply, NoToken
  <2>4. c \in Service!Engaged
    BY <2>2, CallersAssumption DEF Service!Engaged
  <2> QED
    BY <1>10, <1>11, <1>12, <1>13, <2>2, <2>3, <2>4 DEF Service!Finish
<1>15. CASE cur_cmd # n
  <2>1. Served # c /\ Served' = Served
    <3>1. CASE ~Busy
      <4>1. ~Busy'
        BY <1>7, <1>15, <3>1 DEF Busy
      <4> QED
        BY <1>0, <3>1, <4>1, ServedIs, ServedIsNext, CallersAssumption
    <3>2. CASE Busy
      <4>1. Served \in Callers /\ call[Served].node = cur_cmd
        BY <1>0, <3>2, ServedIs
      <4>2. Served # c
        BY <1>15, <4>1 DEF n
      <4>3. Busy' /\ call'[Served].node = cur_cmd'
        BY <1>5, <1>7, <1>15, <3>2, <4>1, <4>2 DEF Busy
      <4> QED
        BY <1>0, <4>1, <4>2, <4>3, ServedIsNext
    <3> QED
      BY <3>1, <3>2
  <2>2. Reply' = Reply
    BY <1>4, <1>7, <1>15 DEF Reply
  <2>3. c \in Service!Engaged
    BY <1>1, <1>15 DEF PInv, Underway, Queued, Service!Engaged, n
  <2> QED
    BY <1>10, <1>11, <1>12, <1>13, <1>15, <2>1, <2>2, <2>3 DEF Service!Finish
<1> QED
  BY <1>14, <1>15

\* Every step is a step of the service or changes nothing a caller sees.
LEMMA PromiseStep ==
    ASSUME Prompt, PInv, [Next]_vars
    PROVE  PInv' /\ [Service!SNext]_<<Queued, Served, Tickets, Reply, Told>>
<1>0. TypeOK /\ SInv /\ SInv' /\ Tame
  BY SteadyStep DEF PInv, SInv, IInv, Prompt
<1>1. /\ "alloc" \notin Faults /\ "abandon" \notin Faults /\ "send" \notin Faults
      /\ "inactive" \notin Faults /\ "reboot" \notin Faults /\ "late" \notin Faults
  BY DEF Prompt, Tame, Tenured
<1>2. ASSUME UNCHANGED <<pending, cur_cmd, cur_cmd_seq, cmd_resp, esp_cmd_seq_ctr, node>>,
             wire' \in {wire, << >>},
             \A c \in Callers : /\ call'[c].node = call[c].node
                                /\ call'[c].token = call[c].token
                                /\ call'[c].got = call[c].got
      PROVE  PInv' /\ UNCHANGED <<Queued, Served, Tickets, Reply, Told>>
  <2>1. PInv'
    BY <1>0, <1>2 DEF PInv, Untold, Aged, Quiet, OneOwed, Underway, Idle
  <2>2. Queued' = Queued /\ Tickets' = Tickets /\ Told' = Told /\ Reply' = Reply
    BY <1>2 DEF Queued, Tickets, Told, Reply
  <2>3. Served' = Served
    <3>1. CASE ~Busy
      <4>1. ~Busy'
        BY <1>2, <3>1 DEF Busy
      <4> QED
        BY <1>0, <3>1, <4>1, ServedIs, ServedIsNext
    <3>2. CASE Busy
      <4>1. Served \in Callers /\ call[Served].node = cur_cmd
        BY <1>0, <3>2, ServedIs
      <4>2. Busy' /\ call'[Served].node = cur_cmd'
        BY <1>2, <3>2, <4>1 DEF Busy
      <4> QED
        BY <1>0, <4>1, <4>2, ServedIsNext
    <3> QED
      BY <3>1, <3>2
  <2> QED
    BY <2>1, <2>2, <2>3
<1>3. ASSUME NEW c \in Callers, CallerStep(c)
      PROVE  PInv' /\ [Service!SNext]_<<Queued, Served, Tickets, Reply, Told>>
  <2>1. ASSUME NEW code \in Codes, Reject(c, code) \/ NoFreeNode(c, code)
        PROVE  PInv' /\ UNCHANGED <<Queued, Served, Tickets, Reply, Told>>
    <3>1. /\ UNCHANGED <<pending, cur_cmd, cur_cmd_seq, cmd_resp, esp_cmd_seq_ctr,
                         node, wire>>
          /\ \E r \in {"rejected", "nonode"} : Returns(c, r)
          /\ call[c].node = NoNode
      BY <2>1 DEF Reject, NoFreeNode, MayIssue, Idle, poolVars, curVars
    <3>2. \A d \in Callers : /\ call'[d].node = call[d].node
                             /\ call'[d].token = call[d].token
                             /\ call'[d].got = call[d].got
      <4>1. call[c] \in Call
        BY <1>0 DEF TypeOK
      <4> QED
        BY <1>0, <3>1, <4>1 DEF Returns, TypeOK, Call
    <3> QED
      BY <1>2, <3>1, <3>2
  <2>2. ASSUME NEW code \in Codes, Issue(c, code)
        PROVE  PInv' /\ Service!SNext
    BY <1>0, <2>2, PromiseIssue DEF Service!SNext
  <2>3. ASSUME NEW code \in Codes PROVE ~AllocFail(c, code) /\ ~Abandon(c, code)
    BY <1>1 DEF AllocFail, Abandon
  <2>4. ASSUME NEW woken \in BOOLEAN, Waiting(c), Leave(c, woken),
               Answered(c) \/ ~InFlight(c)
        PROVE  PInv' /\ Service!SNext
    <3>1. Complete(c, woken)
      BY <1>0, <2>4 DEF Leave, SInv, Steady
    <3> QED
      BY <1>0, <2>4, <3>1, PromiseLeaves DEF Answered, Service!SNext
  <2>5. CASE Wake(c) \/ Timeout(c) \/ Interrupt(c)
    <3>1. PInv' /\ Service!SNext
      BY <1>1, <2>4, <2>5 DEF Wake, Timeout, Interrupt, MayGiveUp
    <3> QED
      BY <3>1
  <2> QED
    BY <1>3, <2>1, <2>2, <2>3, <2>5 DEF CallerStep
<1>4. CASE CmdWork
  <2>1. CASE WorkSkips
    BY <1>2, <2>1 DEF WorkSkips, poolVars, curVars
  <2>2. ASSUME NEW n \in Nodes, WorkSends(n) PROVE PInv' /\ Service!SNext
    BY <1>0, <2>2, PromiseSends DEF Service!SNext
  <2>3. ASSUME NEW n \in Nodes PROVE ~WorkFailsToSend(n)
    <3>1. SUFFICES ASSUME n \in pending PROVE ~Bogus(n)
      BY <1>1 DEF WorkFailsToSend, Takes
    <3> QED
      BY <1>0, <3>1 DEF SInv, IInv, Flight, Intact, Bogus
  <2> QED
    BY <1>4, <2>1, <2>2, <2>3 DEF CmdWork
<1>5. CASE Response
  BY <1>0, <1>5, PromiseResponse DEF Service!SNext
<1>6. CASE ResponseDropped
  <2>1. Tail(wire) = << >>
    <3>1. wire # << >> /\ OneOwed
      BY <1>0, <1>6 DEF ResponseDropped, PInv
    <3>2. wire = <<cur_cmd_seq>>
      BY <3>1 DEF OneOwed
    <3>3. Tail(<<cur_cmd_seq>>) = << >>
      OBVIOUS
    <3> QED
      BY <3>2, <3>3
  <2> QED
    BY <1>2, <1>6, <2>1 DEF ResponseDropped, poolVars, curVars
<1>7. CASE DriverStep
  <2>1. CASE OtaStart \/ OtaEnd
    BY <1>2, <2>1 DEF OtaStart, OtaEnd, poolVars, curVars
  <2>2. ~DriverInactive /\ ~TeardownStart /\ ~TeardownFree /\ ~Setup
        /\ ~CardReady /\ ~TouchFreed
    BY <1>0, <1>1 DEF DriverInactive, TeardownStart, TeardownFree, Setup, CardReady,
                      TouchFreed, SInv, Steady
  <2> QED
    BY <1>7, <2>1, <2>2 DEF DriverStep
<1>8. CASE UNCHANGED vars
  BY <1>2, <1>8 DEF vars
<1> QED
  BY <1>3, <1>4, <1>5, <1>6, <1>7, <1>8 DEF Next

\* Where no answer is late, no checkout or send fails and the slave does not
\* reboot, the pool, the lists, the work item and the shared wait queue amount to
\* the service of CmdService: commands one at a time and in order, and each caller
\* told of the answer to its own command or of none.
THEOREM PromiseKept == Prompt => (Spec => KeepsPromise)
<1> SUFFICES ASSUME Prompt PROVE Spec => KeepsPromise
  OBVIOUS
<1>1. Init => PInv /\ Service!SInit
  <2> SUFFICES ASSUME Init PROVE PInv /\ Service!SInit
    OBVIOUS
  <2>1. SInv
    BY SteadyInit
  <2>2. /\ \A c \in Callers : /\ call[c].node = NoNode /\ call[c].token = NoToken
                              /\ call[c].got = NoToken
        /\ \A n \in Nodes : node[n].resp_skb = NoToken
        /\ pending = {} /\ cur_cmd = NoNode /\ wire = << >> /\ esp_cmd_seq_ctr = 0
    BY DEF Init, BlankNode
  <2>3. PInv
    BY <2>1, <2>2 DEF PInv, Untold, Aged, Quiet, OneOwed, Underway, Idle, NoToken
  <2>4. Service!SInit
    BY <2>2, NodesFacts DEF Service!SInit, Queued, Served, Busy, Tickets, Told, Reply,
                            NoToken
  <2> QED
    BY <2>3, <2>4
<1>2. PInv /\ [Next]_vars =>
        PInv' /\ [Service!SNext]_<<Queued, Served, Tickets, Reply, Told>>
  BY PromiseStep
<1> QED
  BY <1>1, <1>2, PTL DEF Spec, KeepsPromise, Service!ServiceSpec, Service!svars
=============================================================================
