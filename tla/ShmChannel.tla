----------------------------- MODULE ShmChannel -----------------------------
(***************************************************************************)
(* What one direction of the shared-memory payload channel promises to     *)
(* its two ends: an ordered, lossless, uncorrupted queue of payloads.      *)
(* ShmRing, which models ohmcp-transport/src/shm.rs, implements it.        *)
(***************************************************************************)
EXTENDS Naturals, Sequences

CONSTANTS Payload(_, _),   \* the bytes of the n-th payload, of a given length
          Lengths          \* the payload lengths the sender may choose

VARIABLES sent,       \* every payload handed to the channel, in order
          received    \* every payload taken out of it, in order

vars == <<sent, received>>

Init == sent = << >> /\ received = << >>

Send(len) ==
    /\ sent' = Append(sent, Payload(Len(sent) + 1, len))
    /\ UNCHANGED received

Receive ==
    /\ Len(received) < Len(sent)
    /\ received' = Append(received, sent[Len(received) + 1])
    /\ UNCHANGED sent

Next == Receive \/ \E len \in Lengths : Send(len)

\* Nothing is lost, reordered, altered or delivered twice.
Safety == Init /\ [][Next]_vars

\* And everything arrives.
Spec == Safety /\ WF_vars(Receive)
=============================================================================
