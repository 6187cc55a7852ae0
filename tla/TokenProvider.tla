--------------------------- MODULE TokenProvider ---------------------------
(***************************************************************************)
(* The OAuth providers of nine emitted clients, and how the calls of each  *)
(* use its provider.  Go, Python and Ruby hold a lock and compare with the *)
(* rejected token; C#, Java and Rust look before they lock and drop a      *)
(* rejected token in a step of its own; TypeScript shares a promise; Swift *)
(* is an actor that other calls enter while it awaits; Elixir is a process *)
(* with a mailbox.                                                         *)
(***************************************************************************)
EXTENDS TokenUse

CONSTANT Languages  \* the languages to check

VARIABLES
    lang,
    result,   \* Swift: what the awaited task has returned
    mailbox,  \* Elixir: messages to the provider process
    waited    \* Elixir: whether an exchange ended while a caller waited

ownVars == <<lang, result, mailbox, waited>>
vars == <<useVars, ownVars>>

Failed == -1

\* Faulty variant: the rejected token is handed out again.
ReusableAnyway(c) == Usable(cached)

\* What the compared languages reuse: not the token this call saw rejected.
Reusable(c) == Usable(cached) /\ cached # rejected[c]

-----------------------------------------------------------------------------
(* Languages whose provider locks.                                          *)

\* Faulty variant: any rejection fetches anew, even one of an older token.
GoTokenEager(c) ==
    \/ UnderLock(c, "acquire", Usable(cached) /\ rejected[c] = None)
    \/ Exchanged(c, TRUE)
    \/ Refused(c)

GoToken(c) == UnderLock(c, "acquire", Reusable(c)) \/ Exchanged(c, TRUE) \/ Refused(c)
GoCall(c) == Answered(c) \/ Retoken(c)

PythonToken(c) == UnderLock(c, "acquire", Reusable(c)) \/ Exchanged(c, TRUE) \/ Refused(c)
PythonCall(c) == Answered(c) \/ Retoken(c)

AsyncPythonToken(c) == UnderLock(c, "acquire", Reusable(c)) \/ Exchanged(c, TRUE) \/ Refused(c)
AsyncPythonCall(c) == Answered(c) \/ Retoken(c)

RubyToken(c) == UnderLock(c, "acquire", Reusable(c)) \/ Exchanged(c, TRUE) \/ Refused(c)
RubyCall(c) == Answered(c) \/ Retoken(c)

CSharpToken(c) ==
    Peek(c) \/ UnderLock(c, "wait", Usable(cached)) \/ Exchanged(c, FALSE) \/ Refused(c)
CSharpCall(c) == Answered(c) \/ Invalidate(c)

JavaToken(c) ==
    Peek(c) \/ UnderLock(c, "wait", Usable(cached)) \/ Exchanged(c, FALSE) \/ Refused(c)
JavaCall(c) == Answered(c) \/ Invalidate(c)

RustToken(c) ==
    Peek(c) \/ UnderLock(c, "wait", Usable(cached)) \/ Exchanged(c, FALSE) \/ Refused(c)
RustCall(c) == Answered(c) \/ Invalidate(c)

-----------------------------------------------------------------------------
(* TypeScript: callers share the promise of one refresh.                    *)

Waiting(c) == At(c, "wait")

TypeScriptToken(c) ==
    /\ At(c, "acquire")
    /\ IF Usable(cached)
       THEN Give(c, cached) /\ UNCHANGED flight
       ELSE /\ Go(c, "wait")
            /\ flight' = IF flight = Nobody THEN c ELSE flight
            /\ UNCHANGED token
    /\ UNCHANGED <<cached, issued, expired, revoked, rejected>>

\* Everyone who still waits gets the token; it is cached before any of them
\* runs on.
TypeScriptRefreshed ==
    /\ flight # Nobody
    /\ \E short \in BOOLEAN :
          /\ NewToken(short)
          /\ cached' = IF short THEN cached ELSE issued'
    /\ flight' = Nobody
    /\ pc' = [c \in Caller |-> IF Waiting(c) THEN "send" ELSE pc[c]]
    /\ token' = [c \in Caller |-> IF Waiting(c) THEN issued' ELSE token[c]]
    /\ UNCHANGED <<revoked, rejected>>

TypeScriptRefused ==
    /\ flight # Nobody
    /\ flight' = Nobody
    /\ pc' = [c \in Caller |-> IF Waiting(c) THEN "error" ELSE pc[c]]
    /\ UNCHANGED <<cached, issued, expired, revoked, token, rejected>>

TypeScriptCall(c) == Answered(c) \/ Invalidate(c)

\* An aborted waiter leaves, the shared refresh goes on.
TypeScriptAbort(c) ==
    /\ pc[c] \in {"acquire", "wait"}
    /\ Go(c, "cancelled")
    /\ UNCHANGED <<cached, issued, expired, revoked, flight, token, rejected>>

-----------------------------------------------------------------------------
(* Swift: the caller that began the task stores its result when it resumes, *)
(* the others may resume, and use the token, before that.                   *)

SwiftToken(c) ==
    /\ At(c, "acquire")
    /\ IF Usable(cached)
       THEN Give(c, cached) /\ UNCHANGED flight
       ELSE /\ flight' = IF flight = Nobody THEN c ELSE flight
            /\ Go(c, IF result = None THEN "wait" ELSE "resumed")
            /\ token' = [token EXCEPT ![c] = IF result = None THEN @ ELSE result]
    /\ UNCHANGED <<cached, issued, expired, revoked, rejected, result>>

SwiftTask(outcome) ==
    /\ flight # Nobody /\ result = None
    /\ result' = outcome
    /\ pc' = [c \in Caller |-> IF Waiting(c) THEN "resumed" ELSE pc[c]]
    /\ token' = [c \in Caller |-> IF Waiting(c) THEN outcome ELSE token[c]]
    /\ UNCHANGED <<cached, revoked, flight, rejected>>

SwiftFetched == (\E short \in BOOLEAN : NewToken(short)) /\ SwiftTask(issued')
SwiftRefused == SwiftTask(Failed) /\ UNCHANGED <<issued, expired>>

\* A failed task throws; a cancelled caller throws once it has resumed.
SwiftResume(c) ==
    /\ At(c, "resumed")
    /\ IF token[c] = Failed
       THEN Go(c, "error")
       ELSE Go(c, "send") \/ Go(c, "cancelled")
    /\ IF flight = c
       THEN /\ flight' = Nobody
            /\ result' = None
            /\ cached' = IF result = Failed THEN cached ELSE result
       ELSE UNCHANGED <<flight, result, cached>>
    /\ UNCHANGED <<issued, expired, revoked, token, rejected>>

SwiftCall(c) == Answered(c) \/ Invalidate(c)

-----------------------------------------------------------------------------
(* Elixir: one process serves its mailbox, a call waits 35 seconds for a    *)
(* token and 5 for an invalidation, an exchange takes 30 at most.           *)

Ask(c, what) == [from |-> c, what |-> what]

ElixirCall(c) ==
    \/ /\ At(c, "acquire")
       /\ Go(c, "wait")
       /\ mailbox' = Append(mailbox, Ask(c, "token"))
       /\ waited' = waited \ {c}
       /\ UNCHANGED <<cached, issued, expired, revoked, flight, token, rejected>>
    \/ /\ At(c, "rejected")
       /\ Go(c, "invalidate")
       /\ mailbox' = Append(mailbox, Ask(c, "invalidate"))
       /\ UNCHANGED <<cached, issued, expired, revoked, flight, token, rejected, waited>>
    \/ Answered(c) /\ UNCHANGED <<mailbox, waited>>

\* A reply to a caller that has exited is dropped.
ReplyToken(c, t) == IF Waiting(c) THEN Give(c, t) ELSE UNCHANGED <<pc, token>>

ElixirServe ==
    LET m == Head(mailbox) c == m.from IN
    /\ mailbox # <<>> /\ flight = Nobody
    /\ IF m.what = "invalidate"
       THEN /\ cached' = IF cached = token[c] THEN None ELSE cached
            /\ mailbox' = Tail(mailbox)
            /\ pc' = IF At(c, "invalidate") THEN [pc EXCEPT ![c] = "acquire"] ELSE pc
            /\ UNCHANGED <<flight, token>>
       ELSE IF Usable(cached)
            THEN /\ mailbox' = Tail(mailbox)
                 /\ ReplyToken(c, cached)
                 /\ UNCHANGED <<cached, flight>>
            ELSE flight' = c /\ UNCHANGED <<cached, mailbox, pc, token>>
    /\ UNCHANGED <<issued, expired, revoked, rejected, waited>>

\* The reply to the caller in front, and the next message.
ElixirEnds ==
    /\ flight # Nobody
    /\ flight' = Nobody
    /\ mailbox' = Tail(mailbox)
    /\ waited' = waited \cup {c \in Caller \ {flight} : Waiting(c)}
    /\ UNCHANGED <<revoked, rejected>>

ElixirFetched ==
    /\ ElixirEnds
    /\ \E short \in BOOLEAN : NewToken(short)
    /\ cached' = issued'
    /\ ReplyToken(flight, issued')

ElixirRefused ==
    /\ ElixirEnds
    /\ pc' = IF Waiting(flight) THEN [pc EXCEPT ![flight] = "error"] ELSE pc
    /\ UNCHANGED <<cached, issued, expired, token>>

\* GenServer.call exits.  A token call outlasts one exchange, not two; the
\* message stays in the mailbox.
ElixirTimeout(c) ==
    /\ flight # Nobody
    /\ At(c, "invalidate") \/ (Waiting(c) /\ c \in waited)
    /\ Go(c, "exit")
    /\ UNCHANGED <<cached, issued, expired, revoked, flight, token, rejected, mailbox, waited>>

-----------------------------------------------------------------------------
Init == UseInit /\ lang \in Languages /\ result = None /\ mailbox = <<>> /\ waited = {}

Plain == UNCHANGED <<result, mailbox, waited>>
Shared == UNCHANGED <<mailbox, waited>>

\* The steps of the call c.
CallStep(c) ==
    \/ lang = "go" /\ (GoToken(c) \/ GoCall(c)) /\ Plain
    \/ lang = "python" /\ (PythonToken(c) \/ PythonCall(c)) /\ Plain
    \/ lang = "async python" /\ (AsyncPythonToken(c) \/ AsyncPythonCall(c)) /\ Plain
    \/ lang = "ruby" /\ (RubyToken(c) \/ RubyCall(c)) /\ Plain
    \/ lang = "csharp" /\ (CSharpToken(c) \/ CSharpCall(c)) /\ Plain
    \/ lang = "java" /\ (JavaToken(c) \/ JavaCall(c)) /\ Plain
    \/ lang = "rust" /\ (RustToken(c) \/ RustCall(c)) /\ Plain
    \/ lang = "typescript" /\ (TypeScriptToken(c) \/ TypeScriptCall(c)) /\ Plain
    \/ lang = "swift" /\ (SwiftToken(c) \/ SwiftResume(c)) /\ Shared
    \/ lang = "swift" /\ SwiftCall(c) /\ Plain
    \/ lang = "elixir" /\ ElixirCall(c) /\ UNCHANGED result

\* The steps of the provider itself.
ProviderStep ==
    \/ lang = "typescript" /\ (TypeScriptRefreshed \/ TypeScriptRefused) /\ Plain
    \/ lang = "swift" /\ (SwiftFetched \/ SwiftRefused) /\ Shared
    \/ lang = "elixir" /\ (ElixirServe \/ ElixirFetched \/ ElixirRefused) /\ UNCHANGED result

\* Python's synchronous call has nobody to cancel it, Swift's notices only
\* when it resumes.
GiveUp(c) ==
    \/ lang \in {"go", "async python", "ruby"} /\ Cancel(c, {"acquire", "exchange"}) /\ Plain
    \/ lang \in {"csharp", "java", "rust"} /\ Cancel(c, {"acquire", "wait", "exchange"}) /\ Plain
    \/ lang = "typescript" /\ TypeScriptAbort(c) /\ Plain
    \/ lang = "elixir" /\ ElixirTimeout(c) /\ UNCHANGED result

Environment ==
    /\ (\E c \in Caller : Begin(c)) \/ Expire \/ \E t \in Token : Revoke(t)
    /\ Plain

Next ==
    /\ (\E c \in Caller : CallStep(c) \/ GiveUp(c)) \/ ProviderStep \/ Environment
    /\ UNCHANGED lang

\* Calls and the provider go on, and an exchange ends: every client bounds it
\* by a timeout.  Nobody has to call, to give up, or to revoke.
Fairness ==
    /\ \A c \in Caller : WF_vars(CallStep(c) /\ UNCHANGED lang)
    /\ WF_vars(ProviderStep /\ UNCHANGED lang)

Spec == Init /\ [][Next]_vars /\ Fairness

-----------------------------------------------------------------------------
\* Every language's provider is a token cache: one exchange at a time, none
\* while a live token is there, so that a late rejection of an older token
\* never costs the newer one.
Provider ==
    INSTANCE TokenCache WITH
        live <- IF Usable(cached) /\ cached \notin revoked THEN cached ELSE None,
        busy <- flight # Nobody
ImplementsProvider == Provider!Spec

\* The one replay of a request never carries the token the API has just
\* rejected.  Swift is excepted: a caller that resumes before the one that
\* began the task may have the token rejected and invalidated before it is
\* cached, and is then given it again.
ReplayIsFresh ==
    lang # "swift" =>
        \A c \in Caller : At(c, "send") /\ rejected[c] # None => token[c] # rejected[c]

\* Every call that began ends, whoever else is cancelled, refused or times out.
EveryCallEnds == \A c \in Caller : At(c, "acquire") ~> pc[c] \in Over
=============================================================================
