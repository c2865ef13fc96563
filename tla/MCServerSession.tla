-------------------------- MODULE MCServerSession ---------------------------
EXTENDS ServerSession
CONSTANTS u1, u2

Use(token, uris, ahead, sends, most, kinds) ==
    [token |-> token, resources |-> uris, ahead |-> ahead,
     sends |-> sends, events |-> most, kinds |-> kinds]

\* Calls and cancellations; two subscriptions; a token; more updates than the
\* channel holds.
MCSettings ==
    {Use("no", {}, "yes", 3, 0, {"malformed", "unexpected", "cancel", "call", "call_with_progress"}),
     Use("no", {u1, u2}, "no", 3, 2, {"subscribe", "unsubscribe"}),
     Use("yes", {u1}, "no", 3, 1, {"good_auth", "bad_auth", "subscribe", "plain"}),
     Use("no", {u1}, "no", 2, 3, {"plain", "subscribe", "good_auth"})}

\* A client that calls and takes its call back.
CancelSettings == {Use("no", {}, "no", 2, 0, {"call", "cancel"})}
=============================================================================
