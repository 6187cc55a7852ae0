------------------------------ MODULE TokenUse ------------------------------
(***************************************************************************)
(* Calls of an API by one emitted client that share an OAuth provider, and *)
(* the steps its languages have in common.  A call asks the provider for a *)
(* token, sends its request, and when the API answers 401 may ask again    *)
(* and replay the request once.  The issuer never issues a token twice.    *)
(* Bodies, headers and the parsing of the issuer's answer are left out.    *)
(***************************************************************************)
EXTENDS Integers, Sequences

CONSTANTS
    Caller,
    Nobody,
    Repeatable,  \* callers whose request may be replayed
    MaxTokens    \* bound on the tokens issued

Token == 1..MaxTokens
None == 0

ASSUME TokenAssumption ==
    /\ MaxTokens \in Nat
    /\ Nobody \notin Caller
    /\ Repeatable \subseteq Caller

VARIABLES
    cached,   \* the provider's token, or None
    issued,   \* the last token issued
    expired,  \* tokens past the expiry the provider computed
    revoked,  \* tokens the API no longer accepts
    flight,   \* the caller whose exchange is in flight, or Nobody
    pc,       \* where a call is, or how it ended
    token,    \* the token a call holds
    rejected  \* the token the API rejected in this call, or None

useVars == <<cached, issued, expired, revoked, flight, pc, token, rejected>>

Over == {"ok", "unauthorized", "error", "cancelled", "exit"}

UseInit ==
    /\ cached = None /\ issued = None
    /\ expired = {} /\ revoked = {}
    /\ flight = Nobody
    /\ pc = [c \in Caller |-> "idle"]
    /\ token = [c \in Caller |-> None]
    /\ rejected = [c \in Caller |-> None]

Usable(t) == t # None /\ t \notin expired

At(c, where) == pc[c] = where
Go(c, where) == pc' = [pc EXCEPT ![c] = where]
Give(c, t) == Go(c, "send") /\ token' = [token EXCEPT ![c] = t]

Begin(c) ==
    /\ At(c, "idle")
    /\ Go(c, "acquire")
    /\ UNCHANGED <<cached, issued, expired, revoked, flight, token, rejected>>

\* The API's answer.  A rejected call is recovered at most once, and only if
\* its request may be replayed.
Answered(c) ==
    /\ At(c, "send")
    /\ IF token[c] \notin revoked
       THEN Go(c, "ok") /\ UNCHANGED rejected
       ELSE IF c \in Repeatable /\ rejected[c] = None
            THEN Go(c, "rejected") /\ rejected' = [rejected EXCEPT ![c] = token[c]]
            ELSE Go(c, "unauthorized") /\ UNCHANGED rejected
    /\ UNCHANGED <<cached, issued, expired, revoked, flight, token>>

\* The rejected token is passed to the provider with the next request for one.
Retoken(c) ==
    /\ At(c, "rejected")
    /\ Go(c, "acquire")
    /\ UNCHANGED <<cached, issued, expired, revoked, flight, token, rejected>>

\* The provider forgets the rejected token, unless it has another by now.
Invalidate(c) ==
    /\ At(c, "rejected")
    /\ cached' = IF cached = token[c] THEN None ELSE cached
    /\ Go(c, "acquire")
    /\ UNCHANGED <<issued, expired, revoked, flight, token, rejected>>

-----------------------------------------------------------------------------
(* A provider that holds a lock while it talks to the issuer.               *)

\* A usable token is returned without the lock.
Peek(c) ==
    /\ At(c, "acquire")
    /\ IF Usable(cached) THEN Give(c, cached) ELSE Go(c, "wait") /\ UNCHANGED token
    /\ UNCHANGED <<cached, issued, expired, revoked, flight, rejected>>

\* With the lock the cache is read; it is kept only for an exchange.
UnderLock(c, where, reusable) ==
    /\ At(c, where)
    /\ flight = Nobody
    /\ IF reusable
       THEN Give(c, cached) /\ UNCHANGED flight
       ELSE Go(c, "exchange") /\ flight' = c /\ UNCHANGED token
    /\ UNCHANGED <<cached, issued, expired, revoked, rejected>>

\* A token arrives.  One whose lifetime is within the leeway is never reused:
\* it is not cached, or cached as expired.
NewToken(short) ==
    /\ issued < MaxTokens
    /\ issued' = issued + 1
    /\ expired' = IF short THEN expired \cup {issued'} ELSE expired

Exchanged(c, cachesShort) ==
    /\ At(c, "exchange")
    /\ \E short \in BOOLEAN :
          /\ NewToken(short)
          /\ cached' = IF short /\ ~cachesShort THEN cached ELSE issued'
    /\ flight' = Nobody
    /\ Give(c, issued')
    /\ UNCHANGED <<revoked, rejected>>

\* The issuer refused, could not be reached, or answered too late.
Refused(c) ==
    /\ At(c, "exchange")
    /\ flight' = Nobody
    /\ Go(c, "error")
    /\ UNCHANGED <<cached, issued, expired, revoked, token, rejected>>

\* Faulty variant: the lock of an abandoned exchange stays taken.
CancelHolding(c, wheres) ==
    /\ pc[c] \in wheres
    /\ Go(c, "cancelled")
    /\ UNCHANGED <<cached, issued, expired, revoked, flight, token, rejected>>

\* The caller gives up; whoever holds the lock gives it back.
Cancel(c, wheres) ==
    /\ pc[c] \in wheres
    /\ Go(c, "cancelled")
    /\ flight' = IF flight = c THEN Nobody ELSE flight
    /\ UNCHANGED <<cached, issued, expired, revoked, token, rejected>>

-----------------------------------------------------------------------------
(* Time and the API's owner.                                                *)

Expire ==
    /\ Usable(cached)
    /\ expired' = expired \cup {cached}
    /\ UNCHANGED <<cached, issued, revoked, flight, pc, token, rejected>>

Revoke(t) ==
    /\ t <= issued /\ t \notin revoked
    /\ revoked' = revoked \cup {t}
    /\ UNCHANGED <<cached, issued, expired, flight, pc, token, rejected>>
=============================================================================
