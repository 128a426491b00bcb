---------------------------- MODULE FrameLedger ----------------------------
(***************************************************************************)
(* What the packet creator promises of the retransmittable data it is      *)
(* given, with packets, sizes and padding abstracted away: it is a         *)
(* packetizer that loses, repeats and reorders nothing.  Whatever a call   *)
(* reports as accepted is appended to what is waiting; what leaves in the  *)
(* packets of the call is taken from the front of what is waiting, in      *)
(* order.  Only the end of the connection may drop what is waiting.        *)
(*                                                                         *)
(* An item is a byte of a stream, the end of a stream, or a control frame. *)
(***************************************************************************)
EXTENDS Sequences

VARIABLES
    unsent,     \* the items accepted and not yet in a packet, oldest first
    wire,       \* the items of the packets of the last call, in order
    accepts,    \* the sequences of items the last call may have accepted
    open        \* the connection has not been closed

vars == <<unsent, wire, accepts, open>>

Init ==
    /\ unsent = <<>>
    /\ wire = <<>>
    /\ accepts = {<<>>}
    /\ open = TRUE

\* A call: what it accepted joins the end, what it sent left the front.
Packetize ==
    /\ open /\ open'
    /\ \E items \in accepts' : wire' \o unsent' = unsent \o items

\* An unrecoverable error: the connection is closed and nothing is promised
\* of what was waiting.
Close ==
    /\ open /\ ~open'

Next == Packetize \/ Close

Spec == Init /\ [][Next]_vars

=============================================================================
