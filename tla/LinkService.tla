---------------------------- MODULE LinkService ----------------------------
(***************************************************************************)
(* What one direction of the SPI link promises: a queue per priority that  *)
(* neither loses, duplicates, invents nor reorders the frames of its       *)
(* priority.  Nothing is promised between priorities.                      *)
(***************************************************************************)
EXTENDS Naturals, Sequences

CONSTANTS Prios, Frames

VARIABLES
    chan,   \* frames accepted and not yet delivered, per priority
    out     \* frames delivered so far, per priority

LInit == /\ chan = [p \in Prios |-> <<>>]
         /\ out  = [p \in Prios |-> <<>>]

Accept(p, f) == /\ chan' = [chan EXCEPT ![p] = Append(@, f)]
                /\ UNCHANGED out

\* Some frames move from the head of the queues to their receiver.
Deliver == \A p \in Prios :
              /\ Len(out'[p]) >= Len(out[p])
              /\ out'[p] \o chan'[p] = out[p] \o chan[p]

LNext == Deliver \/ \E p \in Prios, f \in Frames : Accept(p, f)

LinkSpec == LInit /\ [][LNext]_<<chan, out>>
=============================================================================
