----------------------------- MODULE RetryLoop -----------------------------
(***************************************************************************)
(* One logical call of an emitted client: the loop that retries it, the    *)
(* OAuth recovery inside or below that loop, and the lifecycle hooks told  *)
(* of it, in eleven emitted clients.  The provider is TokenProvider's;     *)
(* here it gives a token or fails.  The API answers as it likes, and an    *)
(* answer has two parts: its status, and a body that may break off.        *)
(* Delays, which only say how long a pause is, what is in a body, and URLs *)
(* are left out.                                                           *)
(***************************************************************************)
EXTENDS Integers

CONSTANTS
    Clients,     \* the emitted clients to check
    MaxAttempts  \* the configured number of attempts

ASSUME RetryAssumption == MaxAttempts \in Nat \ {0}

VARIABLES
    client,
    kind,        \* "safe" method, POST "keyed" for idempotency, or "unsafe"
    managed,     \* an OAuth provider is configured
    phase,       \* where the call is, or how it ended
    attempt,
    sends,       \* requests handed to the transport
    recoveries,  \* rejected tokens that were replaced
    last,        \* the last answer, or "no token"
    whole,       \* what the call read of its body came whole
    told         \* how often each hook ran

callVars == <<client, kind, managed, phase, attempt, sends, recoveries, last, whole, told>>
given == <<client, kind, managed>>

\* "transient" are the statuses worth a retry, "refused" all other errors, and
\* "garbled" is a success that cannot be decoded.  Or there is no answer: the
\* API was "unreachable", its name or certificate no good; the connection was
\* refused or "broken" while the request was sent, or "dropped" while its answer
\* was awaited; or the time for that answer ran out.
Lost(a) == a \in {"unreachable", "broken", "dropped", "timeout"}
Answers == {"ok", "garbled", "transient", "unauthorized", "refused",
            "unreachable", "broken", "dropped", "timeout"}
Hooks == {"before", "after", "error"}

-----------------------------------------------------------------------------
Replayable == kind # "unsafe"
More == Replayable /\ attempt < MaxAttempts
First == IF managed THEN "token" ELSE "send"

Tell(S) == told' = [h \in Hooks |-> IF h \in S THEN told[h] + 1 ELSE told[h]]

\* Where the call goes on, as which attempt, and which hooks hear of it.
GoesTo(where, n, S) == phase' = where /\ attempt' = n /\ Tell(S) /\ UNCHANGED recoveries
Ends(how, S) == GoesTo(how, attempt, S)
Renews(n, S) ==
    /\ phase' = "renew" /\ attempt' = n /\ Tell(S)
    /\ recoveries' = recoveries + 1

Begins(where, S) ==
    /\ phase = "start"
    /\ GoesTo(where, 1, S)
    /\ UNCHANGED <<sends, last, whole, given>>

\* The body of an answer breaks off with the connection, or when a deadline or
\* the caller ends the reading of it.
Sends(a) ==
    /\ phase \in {"send", "replay"}
    /\ sends' = sends + 1 /\ last' = a
    /\ whole' \in BOOLEAN /\ (Lost(a) => whole')
    /\ UNCHANGED given

\* A client whose attempt has the whole body, so that a body that breaks off is
\* to the loop a connection that was dropped.
SendsAndReads(a) == Sends(a) /\ whole'

\* The provider is asked.  It has a token, or the call goes on without one.
Acquires(from, to, S) ==
    /\ phase = from
    /\ GoesTo(to, attempt, S)
    /\ UNCHANGED <<sends, last, whole, given>>
NoToken(from) ==
    /\ phase = from
    /\ last' = "no token" /\ whole' = TRUE
    /\ UNCHANGED <<sends, given>>

\* A pause ends, or the caller cuts the call short.
Resumes(from, to, S) ==
    /\ phase = from
    /\ GoesTo(to, attempt + 1, S)
    /\ UNCHANGED <<sends, last, whole, given>>
Cut(from, S) ==
    /\ phase \in from
    /\ Ends("cancelled", S)
    /\ UNCHANGED <<sends, last, whole, given>>

\* Faulty variant: nothing remembers that the call has recovered.
RenewableAgain(a) == a = "unauthorized" /\ managed /\ Replayable

\* The recovery that is bounded by a flag of the call.
RenewableOnce(a) == a = "unauthorized" /\ managed /\ Replayable /\ recoveries = 0

\* The recovery of an OAuth layer below the loop: any attempt may have one.
RenewableHere(a, kinds) == a = "unauthorized" /\ managed /\ phase = "send" /\ kind \in kinds

Retried(a) == (a = "transient" \/ Lost(a)) /\ More
-----------------------------------------------------------------------------
(* Go: the refresh has an attempt of its own.                               *)

GoStart == Begins(First, {"before"})
GoAcquires ==
    \/ \E from \in {"token", "renew"} : Acquires(from, "send", {})
    \/ \E from \in {"token", "renew"} : NoToken(from) /\ Ends("error", {"error"})

GoAttempt(a) ==
    /\ Sends(a)
    /\ IF Retried(a) THEN GoesTo("pause", attempt, {})
       ELSE IF RenewableOnce(a) THEN Renews(attempt, {})
       ELSE IF a = "ok" /\ whole' THEN Ends("ok", {"after"})
       ELSE Ends("error", IF Lost(a) THEN {"error"} ELSE {"after", "error"})

GoPause == Resumes("pause", "send", {}) \/ Cut({"token", "renew", "send", "pause"}, {"error"})

-----------------------------------------------------------------------------
(* Python: the refresh uses up one attempt of a range that is one longer    *)
(* when a provider is configured.                                           *)

\* Faulty variant: the same range with and without a provider.
PythonRangeShort == MaxAttempts

PythonRange == IF managed THEN MaxAttempts + 1 ELSE MaxAttempts

PythonStart == Begins(First, {})
PythonAcquires ==
    \/ \E from \in {"token", "renew"} : Acquires(from, "send", {})
    \/ \E from \in {"token", "renew"} : NoToken(from) /\ Ends("error", {})
PythonLoop ==
    phase = "send" /\ attempt > PythonRange /\ Ends("fell through", {})
                   /\ UNCHANGED <<sends, last, whole, given>>

\* Of what goes wrong below, only what urllib wraps is caught, a failure to
\* connect or to send.  The wait for an answer and the reading of a body raise
\* past the loop and past the hooks.
Unanswered(a) == a \in {"dropped", "timeout"}

PythonAttempt(a) ==
    /\ attempt <= PythonRange
    /\ Sends(a)
    /\ IF RenewableOnce(a) THEN Renews(attempt + 1, {"before"})
       ELSE IF Retried(a) /\ ~Unanswered(a) THEN GoesTo("pause", attempt, {"before"})
       ELSE IF Unanswered(a) \/ ~whole' THEN Ends("error", {"before"})
       ELSE IF a = "ok" THEN Ends("ok", {"before", "after"})
       ELSE IF a = "garbled" THEN Ends("error", Hooks)
       ELSE Ends("error", {"before", "error"})
PythonPause == Resumes("pause", "send", {})

\* The asynchronous client decodes before it tells of the response.  httpx has
\* read a buffered answer when the attempt returns; what is read after that, of
\* an error that a stream got or an answer a middleware left open, is uncaught.
AsyncPythonAttempt(a) ==
    /\ attempt <= PythonRange
    /\ Sends(a)
    /\ IF Retried(a) THEN GoesTo("pause", attempt, {"before"})
       ELSE IF RenewableOnce(a) THEN Renews(attempt + 1, {"before"})
       ELSE IF ~whole' THEN Ends("error", {"before"})
       ELSE IF a = "ok" THEN Ends("ok", {"before", "after"})
       ELSE Ends("error", {"before", "error"})
AsyncPythonPause == Resumes("pause", "send", {}) \/ Cut({"token", "renew", "send", "pause"}, {})

-----------------------------------------------------------------------------
(* Ruby: no hooks; a timeout is the call's deadline and is never retried,   *)
(* and neither is a name or a certificate that is no good.                  *)

RubyStart == Begins(First, {})
RubyAcquires ==
    \/ \E from \in {"token", "renew"} : Acquires(from, "send", {})
    \/ \E from \in {"token", "renew"} : NoToken(from) /\ Ends("error", {})

RubyAttempt(a) ==
    /\ SendsAndReads(a)
    /\ IF RenewableOnce(a) THEN Renews(attempt, {})
       ELSE IF Retried(a) /\ a \notin {"timeout", "unreachable"} THEN GoesTo("pause", attempt, {})
       ELSE Ends(IF a = "ok" THEN "ok" ELSE "error", {})

RubyPause == Resumes("pause", "send", {}) \/ Cut({"token", "renew", "send", "pause"}, {})

-----------------------------------------------------------------------------
(* Rust: every attempt asks the provider; the recovery counts as one.  The  *)
(* body is read after the response is told of, and nobody hears of that.    *)

RustStart == Begins(First, {"before"})
RustAcquires ==
    \/ \E from \in {"token", "renew"} : Acquires(from, "send", {})
    \/ \E from \in {"token", "renew"} : NoToken(from) /\ Ends("error", {})

RustAttempt(a) ==
    /\ Sends(a)
    /\ IF RenewableOnce(a) THEN Renews(attempt + 1, {})
       ELSE IF Retried(a) THEN GoesTo("pause", attempt, {})
       ELSE IF ~whole' THEN Ends("error", {"after"})
       ELSE IF a = "ok" THEN Ends("ok", {"after"})
       ELSE Ends("error", IF Lost(a) THEN {"error"} ELSE {"after", "error"})

RustPause == Resumes("pause", First, {}) \/ Cut({"token", "renew", "send", "pause"}, {})

-----------------------------------------------------------------------------
(* TypeScript: the recovery runs the whole transport again, hooks included. *)
(* The signal is heard before a request, by the request and in a pause; in  *)
(* the pause after a lost request nobody is told.  The body of an error is  *)
(* read before the error is made: if it breaks off, or is not what its type *)
(* says, there is no status to recover from and nobody is told.             *)

TypeScriptStart == IF managed THEN Begins("token", {}) ELSE Begins("send", {"before"})
TypeScriptAcquires ==
    \/ Acquires("token", "send", {"before"})
    \/ phase = "renew" /\ GoesTo("send", 1, {"before"}) /\ UNCHANGED <<sends, last, whole, given>>
    \/ \E from \in {"token", "renew"} : NoToken(from) /\ Ends("error", {})

TypeScriptAttempt(a) ==
    /\ Sends(a)
    /\ a # "timeout"
    /\ IF Retried(a) THEN GoesTo(IF Lost(a) THEN "pause" ELSE "backoff", attempt, {})
       ELSE IF ~whole' THEN Ends("error", {"after"})
       ELSE IF RenewableOnce(a) THEN Renews(attempt, {"after", "error"})
       ELSE IF a = "ok" THEN Ends("ok", {"after"})
       ELSE Ends("error", CASE Lost(a) -> {"error"}
                            [] a = "garbled" -> {"after"}
                            [] OTHER -> {"after", "error"})

TypeScriptPause ==
    \/ \E from \in {"pause", "backoff"} : Resumes(from, "send", {})
    \/ Cut({"token", "renew", "send", "pause"}, {})
    \/ Cut({"send", "backoff"}, {"error"})

-----------------------------------------------------------------------------
(* C#, Java, PHP, Elixir, Swift: the OAuth layer is below the loop, and its *)
(* replay belongs to the attempt.                                           *)

\* A loop over the attempts ends below it after the last one.
AttemptsBelow(from, S) ==
    IF attempt < (IF Replayable THEN MaxAttempts ELSE 1)
    THEN Resumes(from, First, S)
    ELSE phase = from /\ Ends("fell through", {}) /\ UNCHANGED <<sends, last, whole, given>>

BelowAcquires == Acquires("token", "send", {}) \/ Acquires("renew", "replay", {})

CSharpStart == Begins(First, {"before"})
CSharpAcquires ==
    BelowAcquires \/ \E from \in {"token", "renew"} : NoToken(from) /\ Ends("error", {"error"})

\* Faulty variant: an error is told where it is made and where it is caught.
CSharpAttemptTwice(a) ==
    /\ SendsAndReads(a)
    /\ IF Retried(a) /\ a # "timeout"
       THEN GoesTo(IF Lost(a) THEN "pause" ELSE "backoff", attempt, {})
       ELSE IF RenewableHere(a, {"safe", "keyed"}) THEN Renews(attempt, {})
       ELSE IF a = "ok" THEN Ends("ok", {"after"})
       ELSE /\ phase' = "error"
            /\ told' = [told EXCEPT !["error"] = @ + 2]
            /\ UNCHANGED <<attempt, recoveries>>

CSharpAttempt(a) ==
    /\ SendsAndReads(a)
    /\ IF Retried(a) /\ a # "timeout"
       THEN GoesTo(IF Lost(a) THEN "pause" ELSE "backoff", attempt, {})
       ELSE IF RenewableHere(a, {"safe", "keyed"}) THEN Renews(attempt, {})
       ELSE IF a = "ok" THEN Ends("ok", {"after"})
       ELSE Ends("error", IF a = "garbled" THEN {"after", "error"} ELSE {"error"})

CSharpPause ==
    \/ \E from \in {"pause", "backoff"} : AttemptsBelow(from, {"before"})
    \/ Cut({"pause"}, {})
    \/ Cut({"token", "renew", "send", "replay", "backoff"}, {"error"})

\* Nobody is told of a response.  What the call returns is decoded above.
JavaStart == Begins(First, {"before"})
JavaAcquires ==
    \/ BelowAcquires
    \/ \E from \in {"token", "renew"} :
          /\ NoToken(from)
          /\ IF More THEN GoesTo("pause", attempt, {}) ELSE Ends("error", {"error"})

JavaAttempt(a) ==
    /\ SendsAndReads(a)
    /\ IF Retried(a) THEN GoesTo("pause", attempt, {})
       ELSE IF RenewableHere(a, {"safe", "keyed"}) THEN Renews(attempt, {})
       ELSE IF a = "ok" THEN Ends("ok", {})
       ELSE Ends("error", IF a = "garbled" THEN {} ELSE {"error"})

JavaPause ==
    \/ AttemptsBelow("pause", {"before"})
    \/ Cut({"pause"}, {})
    \/ Cut({"token", "renew", "send", "replay"}, {"error"})

\* A PSR-18 client may leave the body to be read: that is past the loop's catch.
PhpStart == Begins(First, {"before"})
PhpAcquires ==
    \/ BelowAcquires
    \/ \E from \in {"token", "renew"} :
          /\ NoToken(from)
          /\ IF More THEN GoesTo("pause", attempt, {}) ELSE Ends("error", {"error"})

PhpAttempt(a) ==
    /\ Sends(a)
    /\ IF Retried(a) THEN GoesTo("pause", attempt, {})
       ELSE IF RenewableHere(a, {"safe"}) THEN Renews(attempt, {})
       ELSE IF ~whole' THEN Ends("error", {})
       ELSE IF a = "ok" THEN Ends("ok", {"after"})
       ELSE Ends("error", IF a = "garbled" THEN {"after"} ELSE {"error"})

PhpPause == AttemptsBelow("pause", {})

ElixirStart == Begins(First, {"before"})
ElixirAcquires ==
    \/ BelowAcquires
    \/ \E from \in {"token", "renew"} :
          /\ NoToken(from)
          /\ IF More THEN GoesTo("pause", attempt, {}) ELSE Ends("error", {"error"})

ElixirAttempt(a) ==
    /\ SendsAndReads(a)
    /\ IF Retried(a) THEN GoesTo("pause", attempt, {})
       ELSE IF RenewableHere(a, {"safe"}) THEN Renews(attempt, {})
       ELSE IF a = "ok" THEN Ends("ok", {"after"})
       ELSE Ends("error", CASE Lost(a) -> {"error"}
                            [] a = "garbled" -> {"after"}
                            [] OTHER -> {"after", "error"})

ElixirPause == Resumes("pause", First, {})

\* Hooks hear of every request and response, and of no error.  Of what is lost,
\* a name or a certificate that is no good is not retried.
SwiftStart == Begins(First, {"before"})
SwiftAcquires ==
    BelowAcquires \/ \E from \in {"token", "renew"} : NoToken(from) /\ Ends("error", {})

SwiftAttempt(a) ==
    /\ SendsAndReads(a)
    /\ IF RenewableHere(a, {"safe"}) THEN Renews(attempt, {})
       ELSE IF Retried(a) /\ a # "unreachable"
            THEN GoesTo("pause", attempt, IF Lost(a) THEN {} ELSE {"after"})
       ELSE Ends(IF a = "ok" THEN "ok" ELSE "error", IF Lost(a) THEN {} ELSE {"after"})

SwiftPause ==
    \/ Resumes("pause", First, {"before"})
    \/ Cut({"token", "renew", "send", "replay", "pause"}, {})

-----------------------------------------------------------------------------
CallInit ==
    /\ client \in Clients
    /\ kind \in {"safe", "keyed", "unsafe"}
    /\ managed \in BOOLEAN
    /\ phase = "start"
    /\ attempt = 0 /\ sends = 0 /\ recoveries = 0
    /\ last = "none" /\ whole = TRUE
    /\ told = [h \in Hooks |-> 0]

CallNext ==
    \/ client = "go" /\ (GoStart \/ GoAcquires \/ GoPause \/ \E a \in Answers : GoAttempt(a))
    \/ client = "python"
          /\ (PythonStart \/ PythonAcquires \/ PythonLoop \/ PythonPause
                \/ \E a \in Answers : PythonAttempt(a))
    \/ client = "async python"
          /\ (PythonStart \/ PythonAcquires \/ PythonLoop \/ AsyncPythonPause
                \/ \E a \in Answers : AsyncPythonAttempt(a))
    \/ client = "ruby" /\ (RubyStart \/ RubyAcquires \/ RubyPause \/ \E a \in Answers : RubyAttempt(a))
    \/ client = "rust" /\ (RustStart \/ RustAcquires \/ RustPause \/ \E a \in Answers : RustAttempt(a))
    \/ client = "typescript"
          /\ (TypeScriptStart \/ TypeScriptAcquires \/ TypeScriptPause
                \/ \E a \in Answers : TypeScriptAttempt(a))
    \/ client = "csharp"
          /\ (CSharpStart \/ CSharpAcquires \/ CSharpPause \/ \E a \in Answers : CSharpAttempt(a))
    \/ client = "java" /\ (JavaStart \/ JavaAcquires \/ JavaPause \/ \E a \in Answers : JavaAttempt(a))
    \/ client = "php" /\ (PhpStart \/ PhpAcquires \/ PhpPause \/ \E a \in Answers : PhpAttempt(a))
    \/ client = "elixir"
          /\ (ElixirStart \/ ElixirAcquires \/ ElixirPause \/ \E a \in Answers : ElixirAttempt(a))
    \/ client = "swift"
          /\ (SwiftStart \/ SwiftAcquires \/ SwiftPause \/ \E a \in Answers : SwiftAttempt(a))

CallSpec == CallInit /\ [][CallNext]_callVars

-----------------------------------------------------------------------------
\* A request that must not be repeated is sent once.  Any other is sent at
\* most as often as configured and once more per recovery; in TypeScript a
\* recovery starts a second loop.  A call recovers once, or once per attempt
\* where OAuth is below the loop.  No call is given up over a transient answer
\* or a lost connection while it has attempts left: its own, not those of the
\* recovery, where the two are kept apart.  What a client never retries is not
\* meant: Python's wait for an answer, the deadlines of Ruby and C#, what Ruby
\* and Swift cannot reach; nor a body that breaks off after the loop has chosen.
OwnBudget == {"go", "ruby", "csharp", "swift"}
RetriesNoToken == {"java", "php", "elixir"}
BelowLoop == RetriesNoToken \cup {"csharp", "swift"}
NeverRetried ==
    CASE client = "python" -> {"dropped", "timeout"}
      [] client = "ruby" -> {"unreachable", "timeout"}
      [] client = "swift" -> {"unreachable"}
      [] client = "csharp" -> {"timeout"}
      [] OTHER -> {}
GivenUp ==
    /\ phase = "error" /\ Replayable
    /\ (last = "transient" \/ Lost(last)) /\ last \notin NeverRetried
BudgetKept ==
    /\ kind = "unsafe" => sends <= 1
    /\ sends <= IF client = "typescript" THEN MaxAttempts * (1 + recoveries)
                ELSE MaxAttempts + recoveries
    /\ recoveries <= IF client \in BelowLoop THEN attempt ELSE 1
    /\ GivenUp => MaxAttempts <= CASE client \in OwnBudget -> sends - recoveries
                                   [] client \in RetriesNoToken -> attempt
                                   [] OTHER -> sends

\* Go, Rust and TypeScript tell of a call, the others of some of its
\* attempts: `before` and `after` at most once (again for a TypeScript
\* recovery).  Hooks hear of an error at most once, and of none in a call that
\* succeeds.  A failure is told where hooks hear of errors, also by C#, which
\* catches what it throws; a missing token and what cannot be decoded only where
\* the loop sees them, a wait that fails not by Python, and a body that breaks
\* off after the loop has chosen only by Go.
TellsOfCall == {"go", "rust"}
Replays == IF client = "typescript" THEN recoveries ELSE 0
SeesNoToken == {"go", "csharp", "java", "php", "elixir"}
SeesGarbled == {"go", "python", "async python", "rust", "csharp"}
Heard ==
    /\ client \notin {"ruby", "swift"}
    /\ last = "no token" => client \in SeesNoToken
    /\ last = "garbled" => client \in SeesGarbled
    /\ Unanswered(last) => client # "python"
    /\ whole \/ client = "go"
HooksTold ==
    /\ client \in TellsOfCall \cup {"typescript"} =>
          told["before"] <= 1 + Replays /\ told["after"] <= 1 + Replays
    /\ told["error"] <= 1 + Replays
    /\ phase = "ok" => told["error"] = Replays
    /\ phase = "error" => told["error"] = IF Heard THEN 1 + Replays ELSE Replays

\* Observers hear of the response of every call that succeeds.  Java's hooks
\* are meant to, "lifecycle callbacks for package-level telemetry", but do not.
HasHooks == Clients \ {"ruby"}
ResponsesTold == phase = "ok" /\ client \in HasHooks => told["after"] >= 1

\* The end of the loop that says "completed without a response" is dead code.
NeverFallsThrough == phase # "fell through"
=============================================================================
