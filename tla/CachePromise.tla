---------------------------- MODULE CachePromise ----------------------------
(***************************************************************************)
(* What a result cache promises whoever looks a key up in it: either       *)
(* nothing, or the value stored last under that key, and that one only for *)
(* TTL after it was stored.  ResultCache implements it.                    *)
(***************************************************************************)
EXTENDS Integers

CONSTANTS Keys, Values, TTL, Nothing

VARIABLES now,      \* the monotonic clock
          stored,   \* the last value stored under each key, and when
          answer    \* what the last lookup at this instant returned

vars == <<now, stored, answer>>

Init == now = 0 /\ stored = [k \in Keys |-> Nothing] /\ answer = Nothing

Valid(k) == stored[k] # Nothing /\ now - stored[k].at <= TTL

Lookup(k) ==
    /\ answer' \in {Nothing} \cup (IF Valid(k) THEN {stored[k].value} ELSE {})
    /\ UNCHANGED <<now, stored>>

Store(k, v) ==
    /\ stored' = [stored EXCEPT ![k] = [value |-> v, at |-> now]]
    /\ UNCHANGED <<now, answer>>

Tick == now' = now + 1 /\ answer' = Nothing /\ UNCHANGED stored

Next == Tick \/ \E k \in Keys : Lookup(k) \/ \E v \in Values : Store(k, v)
Spec == Init /\ [][Next]_vars
=============================================================================
