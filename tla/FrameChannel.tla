---------------------------- MODULE FrameChannel ----------------------------
(***************************************************************************)
(* What FrameWriter and FrameReader promise for one direction of a         *)
(* connection: the frames queued at one end are taken at the other, each   *)
(* once, whole and in order, until a write is torn: from then on whatever  *)
(* a reader takes may be damaged, repeated or misplaced.                   *)
(***************************************************************************)
EXTENDS Naturals, Sequences

CONSTANTS Frames,    \* the frames that may be queued
          Garbage    \* what else a reader may take once a write was torn

VARIABLES queued,    \* frames queued, in order
          received,  \* frames taken, in order
          torn       \* "yes" once a write was given up half done

vars == <<queued, received, torn>>

Init == queued = <<>> /\ received = <<>> /\ torn = "no"

Queue == \E f \in Frames : queued' = Append(queued, f) /\ UNCHANGED <<received, torn>>

Receive ==
    /\ Len(received) < Len(queued)
    /\ received' = Append(received, queued[Len(received) + 1])
    /\ UNCHANGED <<queued, torn>>

ReceiveAnything ==
    /\ torn = "yes"
    /\ \E f \in Frames \cup Garbage : received' = Append(received, f)
    /\ UNCHANGED <<queued, torn>>

Tear == torn' = "yes" /\ UNCHANGED <<queued, received>>

Next == Queue \/ Receive \/ ReceiveAnything \/ Tear

Spec == Init /\ [][Next]_vars
=============================================================================
