----------------------------- MODULE TokenCache -----------------------------
(***************************************************************************)
(* What the OAuth provider of an emitted client promises its concurrent    *)
(* callers, in every language: at most one exchange with the issuer at a   *)
(* time, and none while a live token is cached.                            *)
(***************************************************************************)
CONSTANTS Token, None

VARIABLES
    live,  \* the cached token if it is neither expired nor revoked, or None
    busy   \* an exchange is in flight

Init == live = None /\ busy = FALSE

Start == ~busy /\ live = None /\ busy' = TRUE /\ UNCHANGED live

\* The exchange ends with a token, or without one that can be reused.
Finish == busy /\ busy' = FALSE /\ live' \in Token \cup {None}

\* The token expires, is revoked, or a caller reports that it was rejected.
Drop == live' = None /\ UNCHANGED busy

Next == Start \/ Finish \/ Drop

Spec == Init /\ [][Next]_<<live, busy>>
=============================================================================
