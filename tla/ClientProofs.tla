---------------------------- MODULE ClientProofs ----------------------------
(***************************************************************************)
(* The emitted clients, for every number of attempts, of callers and       *)
(* tokens, and of pages: what a call sends and tells its hooks, whose      *)
(* token a replay carries, that each provider is a token cache, how far a  *)
(* traversal goes, and that its end means all items.                       *)
(***************************************************************************)
EXTENDS TokenProvider, RetryLoop, Pager, TLAPS

-----------------------------------------------------------------------------
(* One call: the loop that retries it.                                      *)

\* Before a request of the attempt, after it, and when the call has ended.
Asking == {"token", "send", "renew", "replay"}
Resting == {"pause", "backoff"}
Ended == {"ok", "error", "cancelled"}

\* Clients that count the recovery as an attempt, and what a recovery adds to
\* the requests where it does not.
CountsRecovery == {"python", "async python", "rust"}
Extra ==
    CASE client \in CountsRecovery -> 0
      [] client = "typescript" -> IF recoveries = 0 THEN 0 ELSE MaxAttempts
      [] OTHER -> recoveries

\* What must have been sent of it.
Spent == IF client \in OwnBudget THEN recoveries ELSE 0

CallTypes ==
    /\ kind \in {"safe", "keyed", "unsafe"} /\ managed \in BOOLEAN
    /\ phase \in {"start"} \cup Asking \cup Resting \cup Ended
    /\ attempt \in Nat /\ sends \in Nat /\ recoveries \in Nat
    /\ told \in [Hooks -> Nat]

Attempts ==
    /\ phase = "start" => attempt = 0 /\ sends = 0 /\ recoveries = 0
    /\ phase # "start" => attempt >= 1
    /\ attempt <= MaxAttempts + IF client \in CountsRecovery THEN recoveries ELSE 0
    /\ phase \in Resting => attempt < MaxAttempts
    /\ kind = "unsafe" =>
          attempt <= 1 /\ recoveries = 0 /\ phase \in {"start", "token", "send"} \cup Ended

Recoveries ==
    /\ recoveries > 0 => managed
    /\ client \notin BelowLoop => recoveries <= 1 /\ phase # "replay"
    /\ client \in BelowLoop =>
          recoveries <= IF phase \in {"token", "send"} THEN attempt - 1 ELSE attempt

Requests ==
    /\ phase \in Asking => sends <= attempt - 1 + Extra
    /\ phase \in Resting \cup Ended => sends <= attempt + Extra
    /\ client = "typescript" /\ phase = "renew" => sends <= MaxAttempts /\ recoveries = 1
    /\ client \notin RetriesNoToken =>
          /\ phase \in Asking => sends >= attempt - 1 + Spent
          /\ phase \in Resting => sends >= attempt + Spent
    /\ GivenUp => attempt >= MaxAttempts /\ (client \notin RetriesNoToken => sends >= attempt + Spent)

Counts == CallTypes /\ Attempts /\ Recoveries /\ Requests

LEMMA TellTells ==
    ASSUME told \in [Hooks -> Nat], NEW S, Tell(S)
    PROVE  /\ told' \in [Hooks -> Nat]
           /\ \A h \in Hooks : told'[h] = IF h \in S THEN told[h] + 1 ELSE told[h]
BY DEF Tell

LEMMA CallBegins ==
    ASSUME Counts, NEW where \in {"token", "send"}, NEW S, Begins(where, S)
    PROVE  Counts'
<1>1. CallTypes'
  BY TellTells DEF Counts, CallTypes, Begins, GoesTo, given, Asking
<1>2. Attempts'
  BY RetryAssumption DEF Counts, CallTypes, Attempts, Begins, GoesTo, given, Asking, Resting, Ended
<1>3. Recoveries'
  BY RetryAssumption DEF Counts, CallTypes, Attempts, Recoveries, Begins, GoesTo, given
<1>4. Requests'
  BY RetryAssumption DEF Counts, CallTypes, Attempts, Requests, Extra, Spent, GivenUp, Begins, GoesTo, given, Asking,
     Resting, Ended
<1> QED
  BY <1>1, <1>2, <1>3, <1>4 DEF Counts

\* A token is there: the request is sent, or sent again below the loop.
LEMMA CallAcquires ==
    ASSUME Counts, NEW here \in {"token", "renew"}, NEW to \in {"send", "replay"}, NEW S,
           to = "replay" <=> here = "renew" /\ client \in BelowLoop,
           client = "typescript" => here = "token",
           Acquires(here, to, S)
    PROVE  Counts'
<1>1. CallTypes'
  BY TellTells DEF Counts, CallTypes, Acquires, GoesTo, given, Asking
<1>2. Attempts'
  BY RetryAssumption DEF Counts, CallTypes, Attempts, Acquires, GoesTo, given, Asking, Resting, Ended
<1>3. Recoveries'
  BY DEF Counts, CallTypes, Recoveries, Acquires, GoesTo, given
<1>4. Requests'
  BY RetryAssumption DEF Counts, CallTypes, Requests, Extra, Spent, GivenUp, Acquires, GoesTo, given, Asking,
     Resting, Ended
<1> QED
  BY <1>1, <1>2, <1>3, <1>4 DEF Counts

LEMMA CallHasNoToken ==
    ASSUME Counts, NEW here \in {"token", "renew"}, NEW S, NoToken(here),
           \/ Ends("error", S)
           \/ client \in RetriesNoToken /\ More /\ GoesTo("pause", attempt, S)
    PROVE  Counts'
<1>1. /\ phase \in {"token", "renew"} /\ phase \in Asking
      /\ phase' \in {"error", "pause"} /\ last' = "no token" /\ Tell(S)
      /\ phase' = "pause" => client \in RetriesNoToken /\ More
      /\ UNCHANGED <<client, kind, managed, attempt, sends, recoveries>>
  BY DEF NoToken, GoesTo, Ends, given, Asking
<1>2. CallTypes'
  BY <1>1, TellTells DEF Counts, CallTypes, Ended, Resting
<1>3. Attempts'
  BY <1>1 DEF Counts, CallTypes, Attempts, More, Replayable, Asking, Resting, Ended
<1>4. Recoveries'
  <2>1. client \in BelowLoop => recoveries <= attempt
    <3>1. client \in BelowLoop => recoveries <= attempt - 1 \/ recoveries <= attempt
      BY DEF Counts, Recoveries
    <3>2. recoveries \in Nat /\ attempt \in Nat
      BY DEF Counts, CallTypes
    <3> QED
      BY <3>1, <3>2
  <2> QED
    BY <1>1, <2>1 DEF Counts, CallTypes, Recoveries
<1>5. Requests'
  <2>1. ~GivenUp'
    BY <1>1 DEF GivenUp, Lost
  <2>2. Extra' = Extra /\ Spent' = Spent
    BY <1>1 DEF Extra, Spent
  <2>3. Extra \in Nat
    BY RetryAssumption DEF Counts, CallTypes, Extra
  <2>4. sends <= attempt + Extra
    <3>1. sends <= attempt - 1 + Extra /\ sends \in Nat /\ attempt \in Nat
      BY <1>1 DEF Counts, CallTypes, Requests
    <3> HIDE DEF Extra
    <3> QED
      BY <2>3, <3>1
  <2> QED
    BY <1>1, <2>1, <2>2, <2>4 DEF Requests, Asking, Resting
<1> QED
  BY <1>2, <1>3, <1>4, <1>5 DEF Counts

LEMMA CallResumes ==
    ASSUME Counts, NEW here \in Resting, NEW to \in {"token", "send"}, NEW S, Resumes(here, to, S)
    PROVE  Counts'
<1>1. CallTypes'
  BY TellTells DEF Counts, CallTypes, Resumes, GoesTo, given, Asking
<1>2. Attempts'
  BY RetryAssumption DEF Counts, CallTypes, Attempts, Resumes, GoesTo, given, Asking, Resting, Ended
<1>3. Recoveries'
  BY DEF Counts, CallTypes, Recoveries, Resumes, GoesTo, given, Resting
<1>4. Requests'
  BY RetryAssumption DEF Counts, CallTypes, Requests, Extra, Spent, GivenUp, Resumes, GoesTo, given, Asking,
     Resting, Ended
<1> QED
  BY <1>1, <1>2, <1>3, <1>4 DEF Counts

LEMMA CallIsCut ==
    ASSUME Counts, NEW here \in SUBSET (Asking \cup Resting), NEW S, Cut(here, S)
    PROVE  Counts'
<1>1. CallTypes'
  BY TellTells DEF Counts, CallTypes, Cut, GoesTo, Ends, given, Ended
<1>2. Attempts'
  BY RetryAssumption DEF Counts, CallTypes, Attempts, Cut, GoesTo, Ends, given, Asking, Resting, Ended
<1>3. Recoveries'
  BY RetryAssumption DEF Counts, CallTypes, Attempts, Recoveries, Cut, GoesTo, Ends, given
<1>4. Requests'
  BY RetryAssumption DEF Counts, CallTypes, Requests, Extra, Spent, GivenUp, Cut, GoesTo, Ends, given, Asking,
     Resting, Ended
<1> QED
  BY <1>1, <1>2, <1>3, <1>4 DEF Counts

LEMMA CallRests ==
    ASSUME Counts, NEW a \in Answers, NEW to \in Resting, NEW S, Sends(a), More, GoesTo(to, attempt, S)
    PROVE  Counts'
<1>1. CallTypes'
  BY TellTells DEF Counts, CallTypes, Sends, GoesTo, given
<1>2. Attempts'
  BY RetryAssumption DEF Counts, CallTypes, Attempts, Sends, GoesTo, More, Replayable, given, Asking, Resting, Ended
<1>3. Recoveries'
  BY RetryAssumption DEF Counts, CallTypes, Attempts, Recoveries, Sends, GoesTo, given, Resting
<1>4. Requests'
  BY RetryAssumption DEF Counts, CallTypes, Requests, Extra, Spent, GivenUp, Sends, GoesTo, given, Asking,
     Resting, Ended
<1> QED
  BY <1>1, <1>2, <1>3, <1>4 DEF Counts

\* The recovery is part of the attempt, or counts as one.
LEMMA CallRenews ==
    ASSUME Counts, NEW a \in Answers, NEW n, NEW S, Sends(a), managed, Replayable,
           n = IF client \in CountsRecovery THEN attempt + 1 ELSE attempt,
           IF client \in BelowLoop THEN phase = "send" ELSE recoveries = 0,
           Renews(n, S)
    PROVE  Counts'
<1>1. CallTypes'
  BY TellTells DEF Counts, CallTypes, Sends, Renews, given, Asking
<1>2. Attempts'
  BY RetryAssumption DEF Counts, CallTypes, Attempts, Sends, Renews, Replayable, given, Asking, Resting, Ended
<1>3. Recoveries'
  BY RetryAssumption DEF Counts, CallTypes, Attempts, Recoveries, Sends, Renews, given
<1>4. Requests'
  <2>1. /\ phase' = "renew" /\ phase \in {"send", "replay"} /\ phase \in Asking
        /\ sends' = sends + 1 /\ recoveries' = recoveries + 1 /\ attempt' = n
        /\ UNCHANGED <<client, kind, managed>>
    BY DEF Sends, Renews, given, Asking
  <2>2. ~GivenUp'
    BY <2>1 DEF GivenUp
  <2>3. CASE client = "typescript"
    <3>1. client \notin CountsRecovery /\ client \notin OwnBudget /\ client \notin BelowLoop
      BY <2>3 DEF CountsRecovery, OwnBudget, BelowLoop, RetriesNoToken
    <3>2. recoveries = 0 /\ n = attempt /\ attempt <= MaxAttempts
      BY <3>1, RetryAssumption DEF Counts, CallTypes, Attempts
    <3>3. sends <= attempt - 1 /\ sends >= attempt - 1
      BY <2>1, <2>3, <3>1, <3>2 DEF Counts, CallTypes, Requests, Extra, Spent, BelowLoop
    <3> QED
      BY <2>1, <2>2, <2>3, <3>1, <3>2, <3>3, RetryAssumption DEF Counts, CallTypes, Requests,
         Extra, Spent, Asking, Resting, Ended
  <2>4. CASE client \in CountsRecovery
    <3>1. client \notin OwnBudget /\ client # "typescript" /\ n = attempt + 1
      BY <2>4 DEF CountsRecovery, OwnBudget
    <3> QED
      BY <2>1, <2>2, <2>4, <3>1 DEF Counts, CallTypes, Requests, Extra, Spent, Asking, Resting, Ended
  <2>5. CASE client # "typescript" /\ client \notin CountsRecovery
    <3>1. n = attempt /\ Extra = recoveries /\ Extra' = recoveries + 1
      BY <2>1, <2>5 DEF Extra
    <3>2. Spent' = Spent \/ Spent' = Spent + 1
      BY <2>1 DEF Spent, Counts, CallTypes
    <3>3. Spent \in Nat
      BY DEF Spent, Counts, CallTypes
    <3> QED
      BY <2>1, <2>2, <2>5, <3>1, <3>2, <3>3 DEF Counts, CallTypes, Requests, Asking, Resting, Ended
  <2> QED
    BY <2>3, <2>4, <2>5
<1> QED
  BY <1>1, <1>2, <1>3, <1>4 DEF Counts

LEMMA CallEnds ==
    ASSUME Counts, NEW a \in Answers, NEW how \in {"ok", "error"}, NEW S, Sends(a), Ends(how, S),
           how = "error" /\ (a = "transient" \/ Lost(a)) /\ a \notin NeverRetried => ~More
    PROVE  Counts'
<1>1. CallTypes'
  BY TellTells DEF Counts, CallTypes, Sends, Ends, GoesTo, given, Ended
<1>2. Attempts'
  BY RetryAssumption DEF Counts, CallTypes, Attempts, Sends, Ends, GoesTo, given, Asking, Resting, Ended
<1>3. Recoveries'
  BY RetryAssumption DEF Counts, CallTypes, Attempts, Recoveries, Sends, Ends, GoesTo, given
<1>4. Requests'
  <2>1. GivenUp' => ~More /\ Replayable
    BY DEF GivenUp, Lost, NeverRetried, Replayable, Sends, Ends, GoesTo, given
  <2> HIDE DEF GivenUp
  <2> QED
    BY <2>1, RetryAssumption DEF Counts, CallTypes, Requests, Extra, Spent, Sends, Ends, GoesTo, More,
       given, Asking, Resting, Ended
<1> QED
  BY <1>1, <1>2, <1>3, <1>4 DEF Counts

\* A loop that has an attempt left does not fall through.
LEMMA CallGoesOnBelow ==
    ASSUME Counts, NEW here \in Resting, NEW S, AttemptsBelow(here, S)
    PROVE  Resumes(here, First, S)
<1>1. phase = here
  BY DEF AttemptsBelow, Resumes
<1>2. phase \in Resting
  BY <1>1
<1>3. attempt < MaxAttempts /\ Replayable
  BY <1>2 DEF Counts, CallTypes, Attempts, Replayable, Resting, Ended
<1> QED
  BY <1>3 DEF AttemptsBelow

LEMMA GoCounts ==
    ASSUME Counts, client = "go",
           GoStart \/ GoAcquires \/ GoPause \/ \E a \in Answers : GoAttempt(a)
    PROVE  Counts'
<1>1. /\ client \notin BelowLoop /\ client # "typescript" /\ client \notin CountsRecovery
      /\ First \in {"token", "send"}
  BY DEF BelowLoop, RetriesNoToken, CountsRecovery, First
<1>2. CASE GoStart
  BY <1>1, <1>2, CallBegins DEF GoStart
<1>3. CASE GoAcquires
  BY <1>1, <1>3, CallAcquires, CallHasNoToken DEF GoAcquires
<1>4. CASE GoPause
  BY <1>4, CallResumes, CallIsCut DEF GoPause, Resting, Asking
<1>5. ASSUME NEW a \in Answers, GoAttempt(a) PROVE Counts'
  BY <1>1, <1>5, CallRests, CallRenews, CallEnds
     DEF GoAttempt, Retried, RenewableOnce, Lost, NeverRetried, Resting
<1> QED
  BY <1>2, <1>3, <1>4, <1>5

LEMMA PythonLoopIsDead ==
    ASSUME Counts, client \in CountsRecovery, PythonLoop
    PROVE  FALSE
<1>1. client \notin BelowLoop
  BY DEF BelowLoop, RetriesNoToken, CountsRecovery
<1>2. attempt > PythonRange
  BY DEF PythonLoop
<1>3. /\ attempt <= MaxAttempts + recoveries /\ attempt \in Nat /\ MaxAttempts \in Nat
      /\ recoveries \in Nat /\ recoveries <= 1 /\ managed \in BOOLEAN
  BY <1>1, RetryAssumption DEF Counts, CallTypes, Attempts, Recoveries
<1>4. recoveries > 0 => managed
  BY DEF Counts, Recoveries
<1> QED
  BY <1>2, <1>3, <1>4 DEF PythonRange

LEMMA PythonCounts ==
    ASSUME Counts, client \in CountsRecovery,
           \/ PythonStart \/ PythonAcquires \/ PythonPause \/ AsyncPythonPause \/ PythonLoop
           \/ client = "python" /\ \E a \in Answers : PythonAttempt(a)
           \/ client = "async python" /\ \E a \in Answers : AsyncPythonAttempt(a)
    PROVE  Counts'
<1>1. /\ client \notin BelowLoop /\ client # "typescript"
      /\ First \in {"token", "send"}
  BY DEF BelowLoop, RetriesNoToken, CountsRecovery, First
<1>2. CASE PythonStart
  BY <1>1, <1>2, CallBegins DEF PythonStart
<1>3. CASE PythonAcquires
  BY <1>1, <1>3, CallAcquires, CallHasNoToken DEF PythonAcquires
<1>4. CASE PythonPause \/ AsyncPythonPause
  BY <1>1, <1>4, CallResumes, CallIsCut, CallGoesOnBelow
     DEF PythonPause, AsyncPythonPause, Resting, Asking
<1>5. ASSUME client = "python", NEW a \in Answers, PythonAttempt(a) PROVE Counts'
  BY <1>1, <1>5, CallRests, CallRenews, CallEnds
     DEF PythonAttempt, Retried, RenewableOnce, Lost, Unanswered, NeverRetried, Resting
<1>6. ASSUME client = "async python", NEW a \in Answers, AsyncPythonAttempt(a) PROVE Counts'
  BY <1>1, <1>6, CallRests, CallRenews, CallEnds
     DEF AsyncPythonAttempt, Retried, RenewableOnce, Lost, NeverRetried, Resting
<1>7. ~PythonLoop
  BY PythonLoopIsDead
<1> QED
  BY <1>2, <1>3, <1>4, <1>5, <1>6, <1>7

LEMMA RubyCounts ==
    ASSUME Counts, client = "ruby",
           \/ RubyStart \/ RubyAcquires \/ RubyPause
           \/ \E a \in Answers : RubyAttempt(a)
    PROVE  Counts'
<1>1. /\ client \notin BelowLoop /\ client \notin CountsRecovery /\ client # "typescript"
      /\ First \in {"token", "send"}
  BY DEF BelowLoop, RetriesNoToken, CountsRecovery, First
<1>2. CASE RubyStart
  BY <1>1, <1>2, CallBegins DEF RubyStart
<1>3. CASE RubyAcquires
  BY <1>1, <1>3, CallAcquires, CallHasNoToken DEF RubyAcquires
<1>4. CASE RubyPause
  BY <1>1, <1>4, CallResumes, CallIsCut, CallGoesOnBelow
     DEF RubyPause, Resting, Asking
<1>5. ASSUME NEW a \in Answers, RubyAttempt(a) PROVE Counts'
  BY <1>1, <1>5, CallRests, CallRenews, CallEnds
     DEF RubyAttempt, SendsAndReads, Retried, RenewableOnce, Lost, NeverRetried, Resting
<1> QED
  BY <1>2, <1>3, <1>4, <1>5

LEMMA RustCounts ==
    ASSUME Counts, client = "rust",
           \/ RustStart \/ RustAcquires \/ RustPause
           \/ \E a \in Answers : RustAttempt(a)
    PROVE  Counts'
<1>1. /\ client \notin BelowLoop /\ client \in CountsRecovery /\ client # "typescript"
      /\ First \in {"token", "send"}
  BY DEF BelowLoop, RetriesNoToken, CountsRecovery, First
<1>2. CASE RustStart
  BY <1>1, <1>2, CallBegins DEF RustStart
<1>3. CASE RustAcquires
  BY <1>1, <1>3, CallAcquires, CallHasNoToken DEF RustAcquires
<1>4. CASE RustPause
  BY <1>1, <1>4, CallResumes, CallIsCut, CallGoesOnBelow
     DEF RustPause, Resting, Asking
<1>5. ASSUME NEW a \in Answers, RustAttempt(a) PROVE Counts'
  BY <1>1, <1>5, CallRests, CallRenews, CallEnds
     DEF RustAttempt, Retried, RenewableOnce, Lost, NeverRetried, Resting
<1> QED
  BY <1>2, <1>3, <1>4, <1>5

LEMMA TypeScriptCounts ==
    ASSUME Counts, client = "typescript",
           \/ TypeScriptStart \/ TypeScriptAcquires \/ TypeScriptPause
           \/ \E a \in Answers : TypeScriptAttempt(a)
    PROVE  Counts'
<1>1. /\ client \notin BelowLoop /\ client \notin CountsRecovery
      /\ First \in {"token", "send"}
  BY DEF BelowLoop, RetriesNoToken, CountsRecovery, First
<1>2. CASE TypeScriptStart
  BY <1>1, <1>2, CallBegins DEF TypeScriptStart
<1>3. CASE TypeScriptAcquires
  <2>1. CASE /\ phase = "renew" /\ GoesTo("send", 1, {"before"})
             /\ UNCHANGED <<sends, last, whole, given>>
    <3>1. /\ phase' = "send" /\ attempt' = 1 /\ Tell({"before"})
          /\ sends <= MaxAttempts /\ recoveries = 1 /\ MaxAttempts >= 1 /\ MaxAttempts \in Nat
          /\ UNCHANGED <<client, kind, managed, sends, recoveries, last>>
      BY <2>1, RetryAssumption DEF GoesTo, given, Counts, Requests
    <3>2. CallTypes'
      BY <3>1, TellTells DEF Counts, CallTypes, Asking
    <3>3. Attempts' /\ Recoveries'
      BY <1>1, <2>1, <3>1 DEF Counts, CallTypes, Attempts, Recoveries, Asking, Resting, Ended
    <3>4. Requests'
      BY <1>1, <3>1 DEF Counts, CallTypes, Requests, Extra, Spent, GivenUp, OwnBudget, Asking,
         Resting, Ended
    <3> QED
      BY <3>2, <3>3, <3>4 DEF Counts
  <2>2. CASE Acquires("token", "send", {"before"})
    BY <1>1, <2>2, CallAcquires
  <2>3. CASE \E here \in {"token", "renew"} : NoToken(here) /\ Ends("error", {})
    BY <2>3, CallHasNoToken
  <2> QED
    BY <1>3, <2>1, <2>2, <2>3 DEF TypeScriptAcquires
<1>4. CASE TypeScriptPause
  BY <1>1, <1>4, CallResumes, CallIsCut, CallGoesOnBelow
     DEF TypeScriptPause, Resting, Asking
<1>5. ASSUME NEW a \in Answers, TypeScriptAttempt(a) PROVE Counts'
  BY <1>1, <1>5, CallRests, CallRenews, CallEnds
     DEF TypeScriptAttempt, Retried, RenewableOnce, Lost, NeverRetried, Resting
<1> QED
  BY <1>2, <1>3, <1>4, <1>5

LEMMA CSharpCounts ==
    ASSUME Counts, client = "csharp",
           \/ CSharpStart \/ CSharpAcquires \/ CSharpPause
           \/ \E a \in Answers : CSharpAttempt(a)
    PROVE  Counts'
<1>1. /\ client \in BelowLoop /\ client \notin CountsRecovery /\ client # "typescript"
      /\ First \in {"token", "send"}
  BY DEF BelowLoop, RetriesNoToken, CountsRecovery, First
<1>2. CASE CSharpStart
  BY <1>1, <1>2, CallBegins DEF CSharpStart
<1>3. CASE CSharpAcquires
  BY <1>1, <1>3, CallAcquires, CallHasNoToken DEF CSharpAcquires, BelowAcquires
<1>4. CASE CSharpPause
  BY <1>1, <1>4, CallResumes, CallIsCut, CallGoesOnBelow
     DEF CSharpPause, Resting, Asking
<1>5. ASSUME NEW a \in Answers, CSharpAttempt(a) PROVE Counts'
  BY <1>1, <1>5, CallRests, CallRenews, CallEnds
     DEF CSharpAttempt, SendsAndReads, Retried, RenewableHere, Lost, NeverRetried, Resting, Replayable
<1> QED
  BY <1>2, <1>3, <1>4, <1>5

LEMMA JavaCounts ==
    ASSUME Counts, client = "java",
           \/ JavaStart \/ JavaAcquires \/ JavaPause
           \/ \E a \in Answers : JavaAttempt(a)
    PROVE  Counts'
<1>1. /\ client \in BelowLoop /\ client \notin CountsRecovery /\ client # "typescript" /\ client \in RetriesNoToken
      /\ First \in {"token", "send"}
  BY DEF BelowLoop, RetriesNoToken, CountsRecovery, First
<1>2. CASE JavaStart
  BY <1>1, <1>2, CallBegins DEF JavaStart
<1>3. CASE JavaAcquires
  BY <1>1, <1>3, CallAcquires, CallHasNoToken DEF JavaAcquires, BelowAcquires
<1>4. CASE JavaPause
  BY <1>1, <1>4, CallResumes, CallIsCut, CallGoesOnBelow
     DEF JavaPause, Resting, Asking
<1>5. ASSUME NEW a \in Answers, JavaAttempt(a) PROVE Counts'
  BY <1>1, <1>5, CallRests, CallRenews, CallEnds
     DEF JavaAttempt, SendsAndReads, Retried, RenewableHere, Lost, NeverRetried, Resting, Replayable
<1> QED
  BY <1>2, <1>3, <1>4, <1>5

LEMMA PhpCounts ==
    ASSUME Counts, client = "php",
           \/ PhpStart \/ PhpAcquires \/ PhpPause
           \/ \E a \in Answers : PhpAttempt(a)
    PROVE  Counts'
<1>1. /\ client \in BelowLoop /\ client \notin CountsRecovery /\ client # "typescript" /\ client \in RetriesNoToken
      /\ First \in {"token", "send"}
  BY DEF BelowLoop, RetriesNoToken, CountsRecovery, First
<1>2. CASE PhpStart
  BY <1>1, <1>2, CallBegins DEF PhpStart
<1>3. CASE PhpAcquires
  BY <1>1, <1>3, CallAcquires, CallHasNoToken DEF PhpAcquires, BelowAcquires
<1>4. CASE PhpPause
  BY <1>1, <1>4, CallResumes, CallIsCut, CallGoesOnBelow
     DEF PhpPause, Resting, Asking
<1>5. ASSUME NEW a \in Answers, PhpAttempt(a) PROVE Counts'
  BY <1>1, <1>5, CallRests, CallRenews, CallEnds
     DEF PhpAttempt, Retried, RenewableHere, Lost, NeverRetried, Resting, Replayable
<1> QED
  BY <1>2, <1>3, <1>4, <1>5

LEMMA ElixirCounts ==
    ASSUME Counts, client = "elixir",
           \/ ElixirStart \/ ElixirAcquires \/ ElixirPause
           \/ \E a \in Answers : ElixirAttempt(a)
    PROVE  Counts'
<1>1. /\ client \in BelowLoop /\ client \notin CountsRecovery /\ client # "typescript" /\ client \in RetriesNoToken
      /\ First \in {"token", "send"}
  BY DEF BelowLoop, RetriesNoToken, CountsRecovery, First
<1>2. CASE ElixirStart
  BY <1>1, <1>2, CallBegins DEF ElixirStart
<1>3. CASE ElixirAcquires
  BY <1>1, <1>3, CallAcquires, CallHasNoToken DEF ElixirAcquires, BelowAcquires
<1>4. CASE ElixirPause
  BY <1>1, <1>4, CallResumes, CallIsCut, CallGoesOnBelow
     DEF ElixirPause, Resting, Asking
<1>5. ASSUME NEW a \in Answers, ElixirAttempt(a) PROVE Counts'
  BY <1>1, <1>5, CallRests, CallRenews, CallEnds
     DEF ElixirAttempt, SendsAndReads, Retried, RenewableHere, Lost, NeverRetried, Resting, Replayable
<1> QED
  BY <1>2, <1>3, <1>4, <1>5

LEMMA SwiftCounts ==
    ASSUME Counts, client = "swift",
           \/ SwiftStart \/ SwiftAcquires \/ SwiftPause
           \/ \E a \in Answers : SwiftAttempt(a)
    PROVE  Counts'
<1>1. /\ client \in BelowLoop /\ client \notin CountsRecovery /\ client # "typescript"
      /\ First \in {"token", "send"}
  BY DEF BelowLoop, RetriesNoToken, CountsRecovery, First
<1>2. CASE SwiftStart
  BY <1>1, <1>2, CallBegins DEF SwiftStart
<1>3. CASE SwiftAcquires
  BY <1>1, <1>3, CallAcquires, CallHasNoToken DEF SwiftAcquires, BelowAcquires
<1>4. CASE SwiftPause
  BY <1>1, <1>4, CallResumes, CallIsCut, CallGoesOnBelow
     DEF SwiftPause, Resting, Asking
<1>5. ASSUME NEW a \in Answers, SwiftAttempt(a) PROVE Counts'
  BY <1>1, <1>5, CallRests, CallRenews, CallEnds
     DEF SwiftAttempt, SendsAndReads, Retried, RenewableHere, Lost, NeverRetried, Resting, Replayable
<1> QED
  BY <1>2, <1>3, <1>4, <1>5

LEMMA CallInitCounts == CallInit => Counts
BY RetryAssumption
   DEF CallInit, Counts, CallTypes, Attempts, Recoveries, Requests, Extra, Spent, GivenUp, Lost, Asking,
       Resting, Ended, CountsRecovery

LEMMA CallCounts == Counts /\ [CallNext]_callVars => Counts'
<1>1. Counts /\ CallNext => Counts'
  BY GoCounts, PythonCounts, RubyCounts, RustCounts, TypeScriptCounts, CSharpCounts, JavaCounts,
     PhpCounts, ElixirCounts, SwiftCounts DEF CallNext, CountsRecovery
<1>2. Counts /\ UNCHANGED callVars => Counts'
  BY DEF callVars, Counts, CallTypes, Attempts, Recoveries, Requests, Extra, Spent, GivenUp, Lost,
     NeverRetried, Replayable
<1> QED
  BY <1>1, <1>2

\* A request that must not be repeated is sent once, any other within its
\* budget, a call recovers as often as its client may, and no call is given up
\* with attempts left over a failure that its client retries, in eleven clients
\* and for any number of attempts.
THEOREM BudgetIsKept == CallSpec => []BudgetKept
<1>1. Counts => BudgetKept
  <2> SUFFICES ASSUME Counts PROVE BudgetKept
    OBVIOUS
  <2>1. kind = "unsafe" => sends <= 1
    BY RetryAssumption DEF Counts, CallTypes, Attempts, Requests, Extra, Asking, Resting, Ended
  <2>2. sends <= IF client = "typescript" THEN MaxAttempts * (1 + recoveries)
                 ELSE MaxAttempts + recoveries
    <3>1. /\ attempt \in Nat /\ sends \in Nat /\ recoveries \in Nat /\ MaxAttempts \in Nat
          /\ attempt <= MaxAttempts + IF client \in CountsRecovery THEN recoveries ELSE 0
      BY RetryAssumption DEF Counts, CallTypes, Attempts
    <3>2. sends <= attempt + Extra /\ Extra \in Nat
      BY <3>1 DEF Counts, CallTypes, Attempts, Requests, Extra, Asking, Resting, Ended
    <3>3. CASE client = "typescript"
      <4>1. client \notin CountsRecovery /\ client \notin BelowLoop
        BY <3>3 DEF CountsRecovery, BelowLoop, RetriesNoToken
      <4>2. recoveries \in {0, 1}
        BY <3>1, <4>1 DEF Counts, Recoveries
      <4>3. Extra = MaxAttempts * recoveries
        BY <3>1, <3>3, <4>1, <4>2 DEF Extra
      <4>4. MaxAttempts * (1 + recoveries) = MaxAttempts + MaxAttempts * recoveries
        BY <3>1, <4>2
      <4> QED
        BY <3>1, <3>2, <3>3, <4>1, <4>3, <4>4
    <3>4. CASE client # "typescript"
      BY <3>1, <3>2, <3>4 DEF Extra
    <3> QED
      BY <3>3, <3>4
  <2>3. recoveries <= IF client \in BelowLoop THEN attempt ELSE 1
    BY DEF Counts, CallTypes, Attempts, Recoveries
  <2>4. GivenUp => MaxAttempts <= CASE client \in OwnBudget -> sends - recoveries
                                    [] client \in RetriesNoToken -> attempt
                                    [] OTHER -> sends
    BY RetryAssumption DEF Counts, CallTypes, Requests, Spent, OwnBudget, RetriesNoToken
  <2> QED
    BY <2>1, <2>2, <2>3, <2>4 DEF BudgetKept
<1> QED
  BY <1>1, CallInitCounts, CallCounts, PTL DEF CallSpec

\* The end of the loop that no call should reach is dead code.
THEOREM NothingFallsThrough == CallSpec => []NeverFallsThrough
<1>1. Counts => NeverFallsThrough
  BY DEF Counts, CallTypes, NeverFallsThrough, Asking, Resting, Ended
<1> QED
  BY <1>1, CallInitCounts, CallCounts, PTL DEF CallSpec

-----------------------------------------------------------------------------
(* What its hooks are told.                                                 *)

Telling ==
    /\ phase \notin Ended => told["error"] = Replays
    /\ told["error"] <= 1 + Replays
    /\ phase = "ok" => told["error"] = Replays
    /\ phase = "error" => told["error"] = IF Heard THEN 1 + Replays ELSE Replays
    /\ client \in TellsOfCall =>
          /\ told["before"] <= IF phase = "start" THEN 0 ELSE 1
          /\ told["after"] <= IF phase \in Ended THEN 1 ELSE 0
    /\ client = "typescript" =>
          /\ told["before"] <= CASE phase \in {"start", "token"} -> 0
                                 [] phase = "renew" -> recoveries
                                 [] OTHER -> 1 + recoveries
          /\ told["after"] <= IF phase \in Ended THEN 1 + recoveries ELSE recoveries

\* A step that tells the hooks of S what they are due.
TellsRight(S) ==
    /\ Tell(S) /\ phase \notin Ended /\ phase' # "start" /\ client' = client
    /\ phase' \in Ended => UNCHANGED recoveries
    /\ phase' = "ok" => "error" \notin S
    /\ phase' = "error" => ("error" \in S <=> Heard')
    /\ client \in TellsOfCall =>
          ("before" \in S => phase = "start") /\ ("after" \in S => phase' \in Ended)
    /\ client # "typescript" /\ phase' \notin Ended => "error" \notin S
    /\ client = "typescript" =>
          /\ "before" \in S => phase \in {"start", "token", "renew"} /\ phase' = "send"
          /\ phase' = "token" => phase = "start"
          /\ IF phase' = "renew" THEN recoveries' = recoveries + 1 /\ "error" \in S
             ELSE UNCHANGED recoveries /\ (phase' \notin Ended => "error" \notin S)
          /\ "after" \in S => phase' \in {"renew"} \cup Ended

LEMMA TellsKeep ==
    ASSUME CallTypes, Telling, NEW S, TellsRight(S), recoveries' \in Nat
    PROVE  Telling'
<1>1. /\ \A h \in Hooks : told'[h] = IF h \in S THEN told[h] + 1 ELSE told[h]
      /\ \A h \in Hooks : told[h] \in Nat
      /\ phase \notin Ended /\ phase' # "start" /\ client' = client /\ recoveries \in Nat
  BY TellTells DEF CallTypes, TellsRight
<1>2. /\ told["error"] = Replays
      /\ told'["error"] = IF "error" \in S THEN told["error"] + 1 ELSE told["error"]
      /\ told'["before"] = IF "before" \in S THEN told["before"] + 1 ELSE told["before"]
      /\ told'["after"] = IF "after" \in S THEN told["after"] + 1 ELSE told["after"]
      /\ told["error"] \in Nat /\ told["before"] \in Nat /\ told["after"] \in Nat
  BY <1>1 DEF Telling, Hooks
<1>3. CASE client = "typescript"
  <2>1. Replays = recoveries /\ Replays' = recoveries'
    BY <1>1, <1>3 DEF Replays
  <2>2. client \notin TellsOfCall
    BY <1>3 DEF TellsOfCall
  <2>3. /\ told["before"] <= CASE phase \in {"start", "token"} -> 0
                              [] phase = "renew" -> recoveries
                              [] OTHER -> 1 + recoveries
        /\ told["after"] <= recoveries
    BY <1>1, <1>3 DEF Telling
  <2>4. /\ phase' \in Ended => recoveries' = recoveries
        /\ phase' = "ok" => "error" \notin S
        /\ phase' = "error" => ("error" \in S <=> Heard')
        /\ "before" \in S => phase \in {"start", "token", "renew"} /\ phase' = "send"
        /\ phase' = "token" => phase = "start"
        /\ IF phase' = "renew" THEN recoveries' = recoveries + 1 /\ "error" \in S
           ELSE recoveries' = recoveries /\ (phase' \notin Ended => "error" \notin S)
        /\ "after" \in S => phase' \in {"renew"} \cup Ended
    BY <1>3 DEF TellsRight
  <2>5. /\ phase' \notin Ended => told'["error"] = Replays'
        /\ told'["error"] <= 1 + Replays'
        /\ phase' = "ok" => told'["error"] = Replays'
        /\ phase' = "error" => told'["error"] = IF Heard' THEN 1 + Replays' ELSE Replays'
    <3>1. CASE "error" \in S
      <4>1. told'["error"] = recoveries + 1
        BY <1>2, <2>1, <3>1
      <4>2. /\ phase' = "renew" => recoveries' = recoveries + 1
            /\ phase' # "renew" => recoveries' = recoveries /\ phase' \in Ended /\ phase' # "ok"
            /\ recoveries \in Nat
        BY <1>1, <2>4, <3>1
      <4>3. CASE phase' = "renew"
        BY <2>1, <4>1, <4>2, <4>3 DEF Ended
      <4>4. CASE phase' # "renew"
        <5>1. told'["error"] = 1 + Replays' /\ told'["error"] <= 1 + Replays'
          BY <2>1, <4>1, <4>2, <4>4
        <5>2. phase' = "error" => Heard'
          BY <2>4, <3>1
        <5> QED
          BY <4>2, <4>4, <5>1, <5>2
      <4> QED
        BY <4>3, <4>4
    <3>2. CASE "error" \notin S
      <4>1. told'["error"] = recoveries
        BY <1>2, <2>1, <3>2
      <4>2. recoveries' = recoveries /\ (phase' = "error" => ~Heard')
        BY <2>4, <3>2
      <4> QED
        BY <1>1, <2>1, <4>1, <4>2
    <3> QED
      BY <3>1, <3>2
  <2>6. told'["before"] <= CASE phase' \in {"start", "token"} -> 0
                             [] phase' = "renew" -> recoveries'
                             [] OTHER -> 1 + recoveries'
    BY <1>1, <1>2, <2>3, <2>4 DEF Ended
  <2>7. told'["after"] <= IF phase' \in Ended THEN 1 + recoveries' ELSE recoveries'
    BY <1>1, <1>2, <2>3, <2>4 DEF Ended
  <2> QED
    BY <1>1, <1>3, <2>2, <2>5, <2>6, <2>7 DEF Telling
<1>4. CASE client # "typescript"
  <2>1. Replays = 0 /\ Replays' = 0
    BY <1>1, <1>4 DEF Replays
  <2>2. /\ phase' \notin Ended => "error" \notin S
        /\ phase' = "ok" => "error" \notin S
        /\ phase' = "error" => ("error" \in S <=> Heard')
    BY <1>4 DEF TellsRight
  <2>3. /\ phase' \notin Ended => told'["error"] = Replays'
        /\ told'["error"] <= 1 + Replays'
        /\ phase' = "ok" => told'["error"] = Replays'
        /\ phase' = "error" => told'["error"] = IF Heard' THEN 1 + Replays' ELSE Replays'
    BY <1>2, <2>1, <2>2
  <2>4. CASE client \in TellsOfCall
    <3>1. /\ told["before"] <= IF phase = "start" THEN 0 ELSE 1
          /\ told["after"] <= 0
      BY <1>1, <2>4 DEF Telling
    <3>2. /\ told'["before"] <= IF phase' = "start" THEN 0 ELSE 1
          /\ told'["after"] <= IF phase' \in Ended THEN 1 ELSE 0
      BY <1>1, <1>2, <2>4, <3>1 DEF TellsRight
    <3> QED
      BY <1>1, <1>4, <2>3, <3>2 DEF Telling
  <2> QED
    BY <1>1, <1>4, <2>3, <2>4 DEF Telling
<1> QED
  BY <1>3, <1>4

LEMMA Hearing ==
    ASSUME client' = client
    PROVE  /\ last' = "no token" /\ whole' =>
                 (Heard' <=> client \notin {"ruby", "swift"} /\ client \in SeesNoToken)
           /\ \A a \in Answers : last' = a =>
                 (Heard' <=> /\ client \notin {"ruby", "swift"}
                             /\ a = "garbled" => client \in SeesGarbled
                             /\ Unanswered(a) => client # "python"
                             /\ whole' \/ client = "go")
BY DEF Heard, Answers, Unanswered

\* The steps of all clients but TypeScript.
LEMMA GoingOnTells ==
    ASSUME NEW S, Tell(S), phase \notin Ended, phase' \in Asking \cup Resting, client' = client,
           client # "typescript", "error" \notin S,
           client \in TellsOfCall => ("before" \in S => phase = "start") /\ "after" \notin S
    PROVE  \E T : TellsRight(T)
BY DEF TellsRight, Asking, Resting, Ended

LEMMA EndingTells ==
    ASSUME NEW S, Tell(S), phase \notin Ended, phase' \in Ended, client' = client,
           client # "typescript", UNCHANGED recoveries, phase' = "ok" => "error" \notin S,
           phase' = "error" => ("error" \in S <=> Heard'),
           client \in TellsOfCall => "before" \notin S
    PROVE  \E T : TellsRight(T)
BY DEF TellsRight, Ended

LEMMA BeginningTells ==
    ASSUME NEW where \in {"token", "send"}, NEW S, Begins(where, S), client # "typescript",
           S \in {{}, {"before"}}
    PROVE  \E T : TellsRight(T)
<1>1. /\ Tell(S) /\ phase \notin Ended /\ phase' \in Asking /\ client' = client /\ phase = "start"
      /\ "error" \notin S /\ "after" \notin S
  BY DEF Begins, GoesTo, given, Ended, Asking
<1> QED
  BY <1>1, GoingOnTells

LEMMA AcquiringTells ==
    ASSUME NEW here \in {"token", "renew"}, NEW to \in {"send", "replay"}, Acquires(here, to, {}),
           client # "typescript"
    PROVE  \E T : TellsRight(T)
<1>1. Tell({}) /\ phase \notin Ended /\ phase' \in Asking /\ client' = client
  BY DEF Acquires, GoesTo, given, Ended, Asking
<1> QED
  BY <1>1, GoingOnTells

LEMMA NoTokenTells ==
    ASSUME NEW here \in {"token", "renew"}, NoToken(here), client # "typescript",
           \/ GoesTo("pause", attempt, {})
           \/ Ends("error", {"error"}) /\ client \notin {"ruby", "swift"} /\ client \in SeesNoToken
           \/ Ends("error", {}) /\ (client \in {"ruby", "swift"} \/ client \notin SeesNoToken)
    PROVE  \E T : TellsRight(T)
<1>1. phase \notin Ended /\ client' = client /\ last' = "no token" /\ whole'
  BY DEF NoToken, given, Ended
<1>2. CASE GoesTo("pause", attempt, {})
  <2>1. Tell({}) /\ phase' \in Resting
    BY <1>2 DEF GoesTo, Resting
  <2> QED
    BY <1>1, <2>1, GoingOnTells
<1>3. ASSUME NEW S, Ends("error", S), "error" \in S <=> Heard', "before" \notin S
      PROVE  \E T : TellsRight(T)
  <2>1. Tell(S) /\ phase' = "error" /\ phase' \in Ended /\ UNCHANGED recoveries
    BY <1>3 DEF Ends, GoesTo, Ended
  <2> QED
    BY <1>1, <1>3, <2>1, EndingTells
<1>4. CASE Ends("error", {"error"}) /\ client \notin {"ruby", "swift"} /\ client \in SeesNoToken
  <2>1. Heard'
    BY <1>1, <1>4, Hearing
  <2> QED
    BY <1>3, <1>4, <2>1
<1>5. CASE Ends("error", {}) /\ (client \in {"ruby", "swift"} \/ client \notin SeesNoToken)
  <2>1. ~Heard'
    BY <1>1, <1>5, Hearing
  <2> QED
    BY <1>3, <1>5, <2>1
<1> QED
  BY <1>2, <1>4, <1>5

LEMMA ResumingTells ==
    ASSUME NEW here \in Resting, NEW to \in {"token", "send"}, NEW S, Resumes(here, to, S),
           client # "typescript", S = {} \/ (S = {"before"} /\ client \notin TellsOfCall)
    PROVE  \E T : TellsRight(T)
<1>1. /\ Tell(S) /\ phase \notin Ended /\ phase' \in Asking /\ client' = client
      /\ "error" \notin S /\ "after" \notin S
  BY DEF Resumes, GoesTo, given, Ended, Asking, Resting
<1> QED
  BY <1>1, GoingOnTells

LEMMA CuttingTells ==
    ASSUME NEW here \in SUBSET (Asking \cup Resting), NEW S \in {{}, {"error"}}, Cut(here, S),
           client # "typescript"
    PROVE  \E T : TellsRight(T)
<1>1. /\ Tell(S) /\ phase \notin Ended /\ phase' = "cancelled" /\ phase' \in Ended
      /\ client' = client /\ UNCHANGED recoveries /\ "before" \notin S
  BY DEF Cut, Ends, GoesTo, given, Ended, Asking, Resting
<1> QED
  BY <1>1, EndingTells

LEMMA SendingTells ==
    ASSUME NEW a \in Answers, NEW S, Sends(a), client # "typescript", "error" \notin S,
           client \in TellsOfCall => S = {},
           \/ \E to \in Resting : GoesTo(to, attempt, S)
           \/ \E n : Renews(n, S)
    PROVE  \E T : TellsRight(T)
<1>1. /\ Tell(S) /\ phase \notin Ended /\ phase' \in Asking \cup Resting /\ client' = client
  BY DEF Sends, GoesTo, Renews, given, Ended, Asking
<1> QED
  BY <1>1, GoingOnTells

LEMMA AnswerTells ==
    ASSUME NEW a \in Answers, NEW how \in {"ok", "error"}, NEW S, Sends(a), Ends(how, S),
           client # "typescript",
           how = "ok" => "error" \notin S,
           how = "error" => ("error" \in S <=> /\ client \notin {"ruby", "swift"}
                                               /\ a = "garbled" => client \in SeesGarbled
                                               /\ Unanswered(a) => client # "python"
                                               /\ whole' \/ client = "go"),
           client \in TellsOfCall => "before" \notin S
    PROVE  \E T : TellsRight(T)
<1>1. /\ Tell(S) /\ phase \notin Ended /\ phase' = how /\ phase' \in Ended
      /\ client' = client /\ UNCHANGED recoveries /\ last' = a
  BY DEF Sends, Ends, GoesTo, given, Ended
<1>2. phase' = "error" => ("error" \in S <=> Heard')
  BY <1>1, Hearing
<1> QED
  BY <1>1, <1>2, EndingTells

LEMMA GoTells ==
    ASSUME Counts, client = "go",
           \/ GoStart \/ GoAcquires \/ GoPause
           \/ \E a \in Answers : GoAttempt(a)
    PROVE  \E S : TellsRight(S)
<1>1. /\ client # "typescript" /\ client \in TellsOfCall
      /\ client \in SeesGarbled /\ client \in SeesNoToken
      /\ First \in {"token", "send"}
  BY DEF TellsOfCall, SeesGarbled, SeesNoToken, First
<1>2. CASE GoStart
  BY <1>1, <1>2, BeginningTells DEF GoStart
<1>3. CASE GoAcquires
  BY <1>1, <1>3, AcquiringTells, NoTokenTells DEF GoAcquires
<1>4. CASE GoPause
  BY <1>1, <1>4, ResumingTells, CuttingTells, CallGoesOnBelow
     DEF GoPause, Resting, Asking
<1>5. ASSUME NEW a \in Answers, GoAttempt(a) PROVE \E S : TellsRight(S)
  BY <1>1, <1>5, SendingTells, AnswerTells DEF GoAttempt, Retried, Lost, Unanswered, Resting, Hooks
<1> QED
  BY <1>2, <1>3, <1>4, <1>5

LEMMA PythonTells ==
    ASSUME Counts, client \in CountsRecovery, client # "rust",
           \/ PythonStart \/ PythonAcquires \/ PythonPause \/ AsyncPythonPause \/ PythonLoop
           \/ client = "python" /\ \E a \in Answers : PythonAttempt(a)
           \/ client = "async python" /\ \E a \in Answers : AsyncPythonAttempt(a)
    PROVE  \E S : TellsRight(S)
<1>1. /\ client # "typescript" /\ client \notin TellsOfCall
      /\ client \in SeesGarbled /\ client \notin SeesNoToken
      /\ First \in {"token", "send"}
  BY DEF TellsOfCall, SeesGarbled, SeesNoToken, First, CountsRecovery
<1>2. CASE PythonStart
  BY <1>1, <1>2, BeginningTells DEF PythonStart
<1>3. CASE PythonAcquires
  BY <1>1, <1>3, AcquiringTells, NoTokenTells DEF PythonAcquires
<1>4. CASE PythonPause \/ AsyncPythonPause
  BY <1>1, <1>4, ResumingTells, CuttingTells, CallGoesOnBelow
     DEF PythonPause, AsyncPythonPause, Resting, Asking
<1>5. ASSUME client = "python", NEW a \in Answers, PythonAttempt(a) PROVE \E S : TellsRight(S)
  BY <1>1, <1>5, SendingTells, AnswerTells DEF PythonAttempt, Retried, Lost, Unanswered, Resting, Hooks
<1>6. ASSUME client = "async python", NEW a \in Answers, AsyncPythonAttempt(a)
      PROVE  \E S : TellsRight(S)
  BY <1>1, <1>6, SendingTells, AnswerTells DEF AsyncPythonAttempt, Retried, Lost, Resting, Hooks
<1> QED
  BY <1>2, <1>3, <1>4, <1>5, <1>6, PythonLoopIsDead

LEMMA RubyTells ==
    ASSUME Counts, client = "ruby",
           \/ RubyStart \/ RubyAcquires \/ RubyPause
           \/ \E a \in Answers : RubyAttempt(a)
    PROVE  \E S : TellsRight(S)
<1>1. /\ client # "typescript" /\ client \notin TellsOfCall
      /\ client \notin SeesGarbled /\ client \notin SeesNoToken
      /\ First \in {"token", "send"}
  BY DEF TellsOfCall, SeesGarbled, SeesNoToken, First
<1>2. CASE RubyStart
  BY <1>1, <1>2, BeginningTells DEF RubyStart
<1>3. CASE RubyAcquires
  BY <1>1, <1>3, AcquiringTells, NoTokenTells DEF RubyAcquires
<1>4. CASE RubyPause
  BY <1>1, <1>4, ResumingTells, CuttingTells, CallGoesOnBelow
     DEF RubyPause, Resting, Asking
<1>5. ASSUME NEW a \in Answers, RubyAttempt(a) PROVE \E S : TellsRight(S)
  BY <1>1, <1>5, SendingTells, AnswerTells DEF RubyAttempt, SendsAndReads, Retried, Lost, Unanswered, Resting, Hooks
<1> QED
  BY <1>2, <1>3, <1>4, <1>5

LEMMA RustTells ==
    ASSUME Counts, client = "rust",
           \/ RustStart \/ RustAcquires \/ RustPause
           \/ \E a \in Answers : RustAttempt(a)
    PROVE  \E S : TellsRight(S)
<1>1. /\ client # "typescript" /\ client \in TellsOfCall
      /\ client \in SeesGarbled /\ client \notin SeesNoToken
      /\ First \in {"token", "send"}
  BY DEF TellsOfCall, SeesGarbled, SeesNoToken, First
<1>2. CASE RustStart
  BY <1>1, <1>2, BeginningTells DEF RustStart
<1>3. CASE RustAcquires
  BY <1>1, <1>3, AcquiringTells, NoTokenTells DEF RustAcquires
<1>4. CASE RustPause
  BY <1>1, <1>4, ResumingTells, CuttingTells, CallGoesOnBelow
     DEF RustPause, Resting, Asking
<1>5. ASSUME NEW a \in Answers, RustAttempt(a) PROVE \E S : TellsRight(S)
  BY <1>1, <1>5, SendingTells, AnswerTells DEF RustAttempt, Retried, Lost, Unanswered, Resting, Hooks
<1> QED
  BY <1>2, <1>3, <1>4, <1>5

LEMMA CSharpTells ==
    ASSUME Counts, client = "csharp",
           \/ CSharpStart \/ CSharpAcquires \/ CSharpPause
           \/ \E a \in Answers : CSharpAttempt(a)
    PROVE  \E S : TellsRight(S)
<1>1. /\ client # "typescript" /\ client \notin TellsOfCall
      /\ client \in SeesGarbled /\ client \in SeesNoToken
      /\ First \in {"token", "send"}
  BY DEF TellsOfCall, SeesGarbled, SeesNoToken, First
<1>2. CASE CSharpStart
  BY <1>1, <1>2, BeginningTells DEF CSharpStart
<1>3. CASE CSharpAcquires
  BY <1>1, <1>3, AcquiringTells, NoTokenTells DEF CSharpAcquires, BelowAcquires
<1>4. CASE CSharpPause
  BY <1>1, <1>4, ResumingTells, CuttingTells, CallGoesOnBelow
     DEF CSharpPause, Resting, Asking
<1>5. ASSUME NEW a \in Answers, CSharpAttempt(a) PROVE \E S : TellsRight(S)
  BY <1>1, <1>5, SendingTells, AnswerTells DEF CSharpAttempt, SendsAndReads, Retried, Lost, Unanswered, Resting, Hooks
<1> QED
  BY <1>2, <1>3, <1>4, <1>5

LEMMA JavaTells ==
    ASSUME Counts, client = "java",
           \/ JavaStart \/ JavaAcquires \/ JavaPause
           \/ \E a \in Answers : JavaAttempt(a)
    PROVE  \E S : TellsRight(S)
<1>1. /\ client # "typescript" /\ client \notin TellsOfCall
      /\ client \notin SeesGarbled /\ client \in SeesNoToken
      /\ First \in {"token", "send"}
  BY DEF TellsOfCall, SeesGarbled, SeesNoToken, First
<1>2. CASE JavaStart
  BY <1>1, <1>2, BeginningTells DEF JavaStart
<1>3. CASE JavaAcquires
  BY <1>1, <1>3, AcquiringTells, NoTokenTells DEF JavaAcquires, BelowAcquires
<1>4. CASE JavaPause
  BY <1>1, <1>4, ResumingTells, CuttingTells, CallGoesOnBelow
     DEF JavaPause, Resting, Asking
<1>5. ASSUME NEW a \in Answers, JavaAttempt(a) PROVE \E S : TellsRight(S)
  BY <1>1, <1>5, SendingTells, AnswerTells DEF JavaAttempt, SendsAndReads, Retried, Lost, Unanswered, Resting, Hooks
<1> QED
  BY <1>2, <1>3, <1>4, <1>5

LEMMA PhpTells ==
    ASSUME Counts, client = "php",
           \/ PhpStart \/ PhpAcquires \/ PhpPause
           \/ \E a \in Answers : PhpAttempt(a)
    PROVE  \E S : TellsRight(S)
<1>1. /\ client # "typescript" /\ client \notin TellsOfCall
      /\ client \notin SeesGarbled /\ client \in SeesNoToken
      /\ First \in {"token", "send"}
  BY DEF TellsOfCall, SeesGarbled, SeesNoToken, First
<1>2. CASE PhpStart
  BY <1>1, <1>2, BeginningTells DEF PhpStart
<1>3. CASE PhpAcquires
  BY <1>1, <1>3, AcquiringTells, NoTokenTells DEF PhpAcquires, BelowAcquires
<1>4. CASE PhpPause
  BY <1>1, <1>4, ResumingTells, CuttingTells, CallGoesOnBelow
     DEF PhpPause, Resting, Asking
<1>5. ASSUME NEW a \in Answers, PhpAttempt(a) PROVE \E S : TellsRight(S)
  BY <1>1, <1>5, SendingTells, AnswerTells DEF PhpAttempt, Retried, Lost, Unanswered, Resting, Hooks
<1> QED
  BY <1>2, <1>3, <1>4, <1>5

LEMMA ElixirTells ==
    ASSUME Counts, client = "elixir",
           \/ ElixirStart \/ ElixirAcquires \/ ElixirPause
           \/ \E a \in Answers : ElixirAttempt(a)
    PROVE  \E S : TellsRight(S)
<1>1. /\ client # "typescript" /\ client \notin TellsOfCall
      /\ client \notin SeesGarbled /\ client \in SeesNoToken
      /\ First \in {"token", "send"}
  BY DEF TellsOfCall, SeesGarbled, SeesNoToken, First
<1>2. CASE ElixirStart
  BY <1>1, <1>2, BeginningTells DEF ElixirStart
<1>3. CASE ElixirAcquires
  BY <1>1, <1>3, AcquiringTells, NoTokenTells DEF ElixirAcquires, BelowAcquires
<1>4. CASE ElixirPause
  BY <1>1, <1>4, ResumingTells, CuttingTells, CallGoesOnBelow
     DEF ElixirPause, Resting, Asking
<1>5. ASSUME NEW a \in Answers, ElixirAttempt(a) PROVE \E S : TellsRight(S)
  BY <1>1, <1>5, SendingTells, AnswerTells DEF ElixirAttempt, SendsAndReads, Retried, Lost, Unanswered, Resting, Hooks
<1> QED
  BY <1>2, <1>3, <1>4, <1>5

LEMMA SwiftTells ==
    ASSUME Counts, client = "swift",
           \/ SwiftStart \/ SwiftAcquires \/ SwiftPause
           \/ \E a \in Answers : SwiftAttempt(a)
    PROVE  \E S : TellsRight(S)
<1>1. /\ client # "typescript" /\ client \notin TellsOfCall
      /\ client \notin SeesGarbled /\ client \notin SeesNoToken
      /\ First \in {"token", "send"}
  BY DEF TellsOfCall, SeesGarbled, SeesNoToken, First
<1>2. CASE SwiftStart
  BY <1>1, <1>2, BeginningTells DEF SwiftStart
<1>3. CASE SwiftAcquires
  BY <1>1, <1>3, AcquiringTells, NoTokenTells DEF SwiftAcquires, BelowAcquires
<1>4. CASE SwiftPause
  BY <1>1, <1>4, ResumingTells, CuttingTells, CallGoesOnBelow
     DEF SwiftPause, Resting, Asking
<1>5. ASSUME NEW a \in Answers, SwiftAttempt(a) PROVE \E S : TellsRight(S)
  BY <1>1, <1>5, SendingTells, AnswerTells DEF SwiftAttempt, SendsAndReads, Retried, Lost, Unanswered, Resting, Hooks
<1> QED
  BY <1>2, <1>3, <1>4, <1>5

LEMMA TypeScriptTells ==
    ASSUME Counts, client = "typescript",
           \/ TypeScriptStart \/ TypeScriptAcquires \/ TypeScriptPause
           \/ \E a \in Answers : TypeScriptAttempt(a)
    PROVE  \E S : TellsRight(S)
<1>1. client \notin TellsOfCall /\ client \notin SeesGarbled /\ client \notin SeesNoToken
  BY DEF TellsOfCall, SeesGarbled, SeesNoToken
\* Where the call goes on with the same token, or ends.
<1>2. ASSUME NEW S, Tell(S), client' = client, phase \notin Ended, UNCHANGED recoveries,
             phase' \in {"send", "pause", "backoff"} \/ (phase' = "token" /\ phase = "start"),
             S = {} \/ (S = {"before"} /\ phase \in {"start", "token", "renew"} /\ phase' = "send")
      PROVE  \E T : TellsRight(T)
  BY <1>1, <1>2 DEF TellsRight, Ended
<1>3. ASSUME NEW S, Tell(S), client' = client, phase \notin Ended, UNCHANGED recoveries,
             phase' \in Ended, phase' = "ok" => "error" \notin S,
             phase' = "error" => ("error" \in S <=> Heard'), "before" \notin S
      PROVE  \E T : TellsRight(T)
  BY <1>1, <1>3 DEF TellsRight, Ended
<1>4. CASE TypeScriptStart
  <2>1. PICK where \in {"token", "send"}, S \in {{}, {"before"}} :
           Begins(where, S) /\ (S = {"before"} => where = "send")
    BY <1>4 DEF TypeScriptStart
  <2>2. /\ Tell(S) /\ client' = client /\ phase = "start" /\ phase \notin Ended /\ phase' = where
        /\ UNCHANGED recoveries
    BY <2>1 DEF Begins, GoesTo, given, Ended
  <2> QED
    BY <1>2, <2>1, <2>2
<1>5. CASE TypeScriptAcquires
  <2>1. CASE \/ Acquires("token", "send", {"before"})
             \/ phase = "renew" /\ GoesTo("send", 1, {"before"}) /\ UNCHANGED <<sends, last, whole, given>>
    <3>1. /\ Tell({"before"}) /\ client' = client /\ phase \in {"token", "renew"}
          /\ phase \notin Ended /\ phase' = "send" /\ UNCHANGED recoveries
      BY <2>1 DEF Acquires, GoesTo, given, Ended
    <3> QED
      BY <1>2, <3>1
  <2>2. CASE \E here \in {"token", "renew"} : NoToken(here) /\ Ends("error", {})
    <3>1. /\ Tell({}) /\ client' = client /\ phase \notin Ended /\ phase' = "error"
          /\ phase' \in Ended /\ UNCHANGED recoveries /\ last' = "no token" /\ whole'
      BY <2>2 DEF NoToken, Ends, GoesTo, given, Ended
    <3>2. ~Heard'
      BY <1>1, <3>1, Hearing
    <3> QED
      BY <1>3, <3>1, <3>2
  <2> QED
    BY <1>5, <2>1, <2>2 DEF TypeScriptAcquires
<1>6. CASE TypeScriptPause
  <2>1. ASSUME NEW here \in {"pause", "backoff"}, Resumes(here, "send", {})
        PROVE  \E T : TellsRight(T)
    <3>1. /\ Tell({}) /\ client' = client /\ phase \notin Ended /\ phase' = "send"
          /\ UNCHANGED recoveries
      BY <2>1 DEF Resumes, GoesTo, given, Ended
    <3> QED
      BY <1>2, <3>1
  <2>2. ASSUME NEW S \in {{}, {"error"}}, NEW here \in SUBSET (Asking \cup Resting), Cut(here, S)
        PROVE  \E T : TellsRight(T)
    <3>1. /\ Tell(S) /\ client' = client /\ phase \notin Ended /\ phase' = "cancelled"
          /\ phase' \in Ended /\ UNCHANGED recoveries /\ "before" \notin S
      BY <2>2 DEF Cut, Ends, GoesTo, given, Ended, Asking, Resting
    <3> QED
      BY <1>3, <3>1
  <2> QED
    BY <1>6, <2>1, <2>2 DEF TypeScriptPause, Asking, Resting
<1>7. ASSUME NEW a \in Answers, TypeScriptAttempt(a) PROVE \E T : TellsRight(T)
  <2>1. client' = client /\ phase \notin Ended /\ last' = a
    BY <1>7 DEF TypeScriptAttempt, Sends, given, Ended
  <2>2. ASSUME NEW to \in {"pause", "backoff"}, GoesTo(to, attempt, {}) PROVE \E T : TellsRight(T)
    BY <1>2, <2>1, <2>2 DEF GoesTo
  <2>3. CASE Renews(attempt, {"after", "error"})
    <3>1. TellsRight({"after", "error"})
      BY <1>1, <2>1, <2>3 DEF TellsRight, Renews, Ended
    <3> QED
      BY <3>1
  <2>4. ASSUME NEW how \in {"ok", "error"}, NEW S, Ends(how, S), "before" \notin S,
               how = "ok" => "error" \notin S,
               how = "error" => ("error" \in S <=> a # "garbled" /\ whole')
        PROVE  \E T : TellsRight(T)
    <3>1. /\ Tell(S) /\ phase' = how /\ phase' \in Ended /\ UNCHANGED recoveries
      BY <2>4 DEF Ends, GoesTo, Ended
    <3>2. phase' = "error" => ("error" \in S <=> Heard')
      BY <1>1, <2>1, <2>4, <3>1, Hearing
    <3> QED
      BY <1>3, <2>1, <2>4, <3>1, <3>2
  <2> QED
    BY <1>7, <2>2, <2>3, <2>4 DEF TypeScriptAttempt
<1> QED
  BY <1>4, <1>5, <1>6, <1>7

LEMMA HooksKeep == Counts /\ Telling /\ [CallNext]_callVars => Telling'
<1>1. ASSUME Counts, Telling, CallNext PROVE Telling'
  <2>1. PICK S : TellsRight(S)
    BY <1>1, GoTells, PythonTells, RubyTells, RustTells, TypeScriptTells, CSharpTells, JavaTells,
       PhpTells, ElixirTells, SwiftTells DEF CallNext, CountsRecovery
  <2>2. CallTypes /\ recoveries' \in Nat
    BY <1>1, CallCounts DEF Counts, CallTypes
  <2> QED
    BY <1>1, <2>1, <2>2, TellsKeep
<1>2. ASSUME Telling, UNCHANGED callVars PROVE Telling'
  <2>1. Heard' <=> Heard
    BY <1>2 DEF callVars, Heard, Unanswered
  <2>2. Replays' = Replays
    BY <1>2 DEF callVars, Replays
  <2> HIDE DEF Heard, Replays
  <2> QED
    BY <1>2, <2>1, <2>2 DEF callVars, Telling
<1> QED
  BY <1>1, <1>2

LEMMA CallInitTells == CallInit => Telling
<1> SUFFICES ASSUME CallInit PROVE Telling
  OBVIOUS
<1>1. /\ phase = "start" /\ recoveries = 0 /\ Replays = 0
      /\ told["before"] = 0 /\ told["after"] = 0 /\ told["error"] = 0
  BY DEF CallInit, Hooks, Replays
<1> HIDE DEF CallInit
<1> QED
  BY <1>1 DEF Telling, Ended

\* Each client's hooks hear of a call, or of its attempts, at most as often as
\* they are meant to, of no failure in a call that succeeds, and of its failure
\* once where the loop sees it and never where it does not.
THEOREM HooksAreTold == CallSpec => []HooksTold
<1>1. ASSUME Counts, Telling PROVE HooksTold
  <2>1. /\ \A h \in Hooks : told[h] \in Nat
        /\ recoveries \in Nat
    BY <1>1 DEF Counts, CallTypes
  <2>2. client \in TellsOfCall \cup {"typescript"} =>
           told["before"] <= 1 + Replays /\ told["after"] <= 1 + Replays
    <3>1. CASE client \in TellsOfCall /\ client # "typescript"
      <4>1. Replays = 0 /\ told["before"] \in Nat /\ told["after"] \in Nat
        BY <2>1, <3>1 DEF Replays, Hooks
      <4> QED
        BY <1>1, <3>1, <4>1 DEF Telling
    <3>2. CASE client = "typescript"
      <4>1. Replays = recoveries /\ told["before"] \in Nat /\ told["after"] \in Nat
        BY <2>1, <3>2 DEF Replays, Hooks
      <4> QED
        BY <1>1, <2>1, <3>2, <4>1 DEF Telling
    <3> QED
      BY <3>1, <3>2
  <2>3. phase = "error" => told["error"] = IF Heard THEN 1 + Replays ELSE Replays
    BY <1>1 DEF Telling
  <2> QED
    BY <1>1, <2>2, <2>3 DEF Telling, HooksTold
<1> QED
  BY <1>1, CallInitCounts, CallCounts, CallInitTells, HooksKeep, PTL DEF CallSpec

-----------------------------------------------------------------------------
(* The provider that calls share.                                           *)

Message == [from : Caller, what : {"token", "invalidate"}]

TokenTypes ==
    /\ issued \in 0..MaxTokens /\ cached \in 0..issued /\ revoked \subseteq 1..issued
    /\ flight \in Caller \cup {Nobody}
    /\ DOMAIN pc = Caller /\ DOMAIN token = Caller /\ DOMAIN rejected = Caller
    /\ \A c \in Caller : token[c] \in 0..issued \cup {Failed}
    /\ \A c \in Caller : rejected[c] \in revoked \cup {None}
    /\ result \in 0..issued \cup {Failed}
    /\ mailbox \in Seq(Message)

\* Who talks to the issuer has the lock, and Elixir's process does so for the
\* caller of the message in front.
Unlocked == {"typescript", "swift", "elixir"}
LockHeld ==
    /\ \A c \in Caller : pc[c] = "exchange" => flight = c /\ lang \notin Unlocked
    /\ lang = "elixir" /\ flight # Nobody => mailbox # <<>>

\* Languages that drop a rejected token in a step of its own.
Dropping == {"csharp", "java", "rust", "typescript", "elixir"}

\* Between the rejection and the replay of a call: which token was rejected is
\* known, and once it is dropped the cache does not have it again.
Recovering(c) ==
    /\ pc[c] = "idle" => rejected[c] = None
    /\ pc[c] \in {"rejected", "invalidate"} => token[c] = rejected[c]
    /\ pc[c] = "send" /\ rejected[c] # None => token[c] # rejected[c]
    /\ lang \in Dropping /\ rejected[c] # None /\ pc[c] \in {"acquire", "wait"} =>
          cached # rejected[c]

TokenInv ==
    TokenTypes /\ LockHeld /\ (lang # "swift" => \A c \in Caller : Recovering(c))

\* A step of the token cache that the provider is, or none.
CacheStep == [Provider!Next]_<<IF Usable(cached) /\ cached \notin revoked THEN cached ELSE None,
                               flight # Nobody>>

LEMMA CacheStays ==
    ASSUME UNCHANGED <<cached, expired, revoked, flight>>
    PROVE  CacheStep
BY DEF CacheStep, Usable

LEMMA BeginKeeps ==
    ASSUME TokenInv, NEW c \in Caller, Begin(c), Plain, UNCHANGED lang
    PROVE  TokenInv' /\ CacheStep
<1>1. TokenTypes'
  BY DEF TokenInv, TokenTypes, Begin, Go, Plain
<1>2. LockHeld'
  BY DEF TokenInv, TokenTypes, LockHeld, Begin, Go, Plain
<1>3. ASSUME lang # "swift", NEW d \in Caller PROVE Recovering(d)'
  BY <1>3 DEF TokenInv, TokenTypes, Recovering, Begin, Go, At
<1> QED
  BY <1>1, <1>2, <1>3, CacheStays DEF TokenInv, Begin

LEMMA AnsweredKeeps ==
    ASSUME TokenInv, NEW c \in Caller, Answered(c), UNCHANGED <<lang, result, mailbox>>
    PROVE  TokenInv' /\ CacheStep
<1>1. TokenTypes'
  BY DEF TokenInv, TokenTypes, Answered, Go
<1>2. LockHeld'
  BY DEF TokenInv, TokenTypes, LockHeld, Answered, Go
<1>3. ASSUME lang # "swift", NEW d \in Caller PROVE Recovering(d)'
  BY <1>3 DEF TokenInv, TokenTypes, Recovering, Answered, Go, At
<1> QED
  BY <1>1, <1>2, <1>3, CacheStays DEF TokenInv, Answered

LEMMA RetokenKeeps ==
    ASSUME TokenInv, NEW c \in Caller, lang \notin Dropping, Retoken(c), Plain, UNCHANGED lang
    PROVE  TokenInv' /\ CacheStep
<1>1. TokenTypes'
  BY DEF TokenInv, TokenTypes, Retoken, Go, Plain
<1>2. LockHeld'
  BY DEF TokenInv, TokenTypes, LockHeld, Retoken, Go, Plain
<1>3. ASSUME lang # "swift", NEW d \in Caller PROVE Recovering(d)'
  BY <1>3 DEF TokenInv, TokenTypes, Recovering, Retoken, Go, At
<1> QED
  BY <1>1, <1>2, <1>3, CacheStays DEF TokenInv, Retoken

LEMMA InvalidateKeeps ==
    ASSUME TokenInv, NEW c \in Caller, Invalidate(c), Plain, UNCHANGED lang
    PROVE  TokenInv' /\ CacheStep
<1>1. TokenTypes'
  BY DEF TokenInv, TokenTypes, Invalidate, Go, Plain, None
<1>2. LockHeld'
  BY DEF TokenInv, TokenTypes, LockHeld, Invalidate, Go, Plain
<1>3. ASSUME lang # "swift", NEW d \in Caller PROVE Recovering(d)'
  BY <1>3 DEF TokenInv, TokenTypes, Recovering, Invalidate, Go, At, None
<1>4. CacheStep
  BY DEF CacheStep, Provider!Next, Provider!Drop, Invalidate, Usable
<1> QED
  BY <1>1, <1>2, <1>3, <1>4 DEF TokenInv

LEMMA PeekKeeps ==
    ASSUME TokenInv, NEW c \in Caller, lang \in Dropping, Peek(c), Plain, UNCHANGED lang
    PROVE  TokenInv' /\ CacheStep
<1>1. TokenTypes'
  BY DEF TokenInv, TokenTypes, Peek, Go, Give, Plain
<1>2. LockHeld'
  BY DEF TokenInv, TokenTypes, LockHeld, Peek, Go, Give, Plain
<1>3. ASSUME lang # "swift", NEW d \in Caller PROVE Recovering(d)'
  BY <1>3 DEF TokenInv, TokenTypes, Recovering, Peek, Go, Give, At
<1> QED
  BY <1>1, <1>2, <1>3, CacheStays DEF TokenInv, Peek

\* A provider that takes the lock asks the issuer only when its token is of no
\* use: expired, none, or the one this call saw rejected.
LEMMA ComparedKeeps ==
    ASSUME TokenInv, NEW c \in Caller, lang \notin Unlocked \cup Dropping,
           UnderLock(c, "acquire", Reusable(c)), Plain, UNCHANGED lang
    PROVE  TokenInv' /\ CacheStep
<1>1. TokenTypes'
  BY DEF TokenInv, TokenTypes, UnderLock, Go, Give, Plain
<1>2. LockHeld'
  BY TokenAssumption DEF TokenInv, TokenTypes, LockHeld, UnderLock, Go, Give, Plain, Unlocked
<1>3. ASSUME lang # "swift", NEW d \in Caller PROVE Recovering(d)'
  BY <1>3 DEF TokenInv, TokenTypes, Recovering, UnderLock, Reusable, Go, Give, At
<1>4. CacheStep
  BY TokenAssumption DEF TokenInv, TokenTypes, CacheStep, Provider!Next, Provider!Start, UnderLock,
         Reusable, Usable, None
<1> QED
  BY <1>1, <1>2, <1>3, <1>4 DEF TokenInv

LEMMA LookedKeeps ==
    ASSUME TokenInv, NEW c \in Caller, lang \in Dropping \ Unlocked,
           UnderLock(c, "wait", Usable(cached)), Plain, UNCHANGED lang
    PROVE  TokenInv' /\ CacheStep
<1>1. TokenTypes'
  BY DEF TokenInv, TokenTypes, UnderLock, Go, Give, Plain
<1>2. LockHeld'
  BY TokenAssumption DEF TokenInv, TokenTypes, LockHeld, UnderLock, Go, Give, Plain, Unlocked
<1>3. ASSUME lang # "swift", NEW d \in Caller PROVE Recovering(d)'
  BY <1>3 DEF TokenInv, TokenTypes, Recovering, UnderLock, Go, Give, At
<1>4. CacheStep
  BY TokenAssumption DEF TokenInv, TokenTypes, CacheStep, Provider!Next, Provider!Start, UnderLock,
         Usable, None
<1> QED
  BY <1>1, <1>2, <1>3, <1>4 DEF TokenInv

\* What the issuer gives out is newer than every token there is.
LEMMA NewTokenIsNew ==
    ASSUME TokenInv, NEW short \in BOOLEAN, NewToken(short)
    PROVE  /\ issued' \in 1..MaxTokens /\ issued' = issued + 1 /\ issued \in 0..MaxTokens
           /\ issued' \notin revoked /\ issued' # cached
           /\ \A c \in Caller : rejected[c] # issued' /\ token[c] # issued'
BY TokenAssumption DEF TokenInv, TokenTypes, NewToken, Failed, None

\* An exchange that ends is a step of the token cache, however it ends.
LEMMA ExchangeEnds ==
    ASSUME TokenInv, TokenInv', flight # Nobody, flight' = Nobody
    PROVE  CacheStep
<1>1. cached \in Token \cup {None} /\ cached' \in Token \cup {None}
  BY TokenAssumption DEF TokenInv, TokenTypes, Token, None
<1> QED
  BY <1>1 DEF CacheStep, Provider!Next, Provider!Finish

LEMMA ExchangedKeeps ==
    ASSUME TokenInv, NEW c \in Caller, \E b \in BOOLEAN : Exchanged(c, b), Plain,
           UNCHANGED lang
    PROVE  TokenInv' /\ CacheStep
<1> PICK b \in BOOLEAN : Exchanged(c, b)
  OBVIOUS
<1> PICK short \in BOOLEAN :
          NewToken(short) /\ cached' = (IF short /\ ~b THEN cached ELSE issued')
  BY DEF Exchanged
<1>n. /\ issued' \in 1..MaxTokens /\ issued' = issued + 1 /\ issued \in 0..MaxTokens
      /\ issued' # cached /\ \A d \in Caller : rejected[d] # issued' /\ token[d] # issued'
  BY NewTokenIsNew
<1>1. TokenTypes'
  BY <1>n, TokenAssumption DEF TokenInv, TokenTypes, Exchanged, Go, Give, Plain
<1>2. LockHeld'
  BY TokenAssumption DEF TokenInv, TokenTypes, LockHeld, Exchanged, Go, Give, Plain, Unlocked, At
<1>3. ASSUME lang # "swift", NEW d \in Caller PROVE Recovering(d)'
  BY <1>n, <1>3 DEF TokenInv, TokenTypes, Recovering, Exchanged, Go, Give, At
<1>4. TokenInv'
  BY <1>1, <1>2, <1>3 DEF TokenInv
<1>5. flight # Nobody /\ flight' = Nobody
  BY TokenAssumption DEF TokenInv, LockHeld, Exchanged, At
<1>6. CacheStep
  BY <1>4, <1>5, ExchangeEnds
<1> QED
  BY <1>4, <1>6

LEMMA RefusedKeeps ==
    ASSUME TokenInv, NEW c \in Caller, Refused(c), Plain, UNCHANGED lang
    PROVE  TokenInv' /\ CacheStep
<1>1. TokenTypes'
  BY DEF TokenInv, TokenTypes, Refused, Go, Plain
<1>2. LockHeld'
  BY TokenAssumption DEF TokenInv, TokenTypes, LockHeld, Refused, Go, Plain, Unlocked, At
<1>3. ASSUME lang # "swift", NEW d \in Caller PROVE Recovering(d)'
  BY <1>3 DEF TokenInv, TokenTypes, Recovering, Refused, Go, At
<1>4. TokenInv'
  BY <1>1, <1>2, <1>3 DEF TokenInv
<1>5. flight # Nobody /\ flight' = Nobody
  BY TokenAssumption DEF TokenInv, LockHeld, Refused, At
<1>6. CacheStep
  BY <1>4, <1>5, ExchangeEnds
<1> QED
  BY <1>4, <1>6

\* A caller that gives up ends its own exchange and nobody else's.
LEMMA CancelKeeps ==
    ASSUME TokenInv, NEW c \in Caller, NEW wheres \in SUBSET {"acquire", "wait", "exchange"},
           lang \notin {"elixir"}, Cancel(c, wheres), Plain, UNCHANGED lang
    PROVE  TokenInv' /\ CacheStep
<1>1. TokenTypes'
  BY DEF TokenInv, TokenTypes, Cancel, Go, Plain
<1>2. LockHeld'
  BY TokenAssumption DEF TokenInv, TokenTypes, LockHeld, Cancel, Go, Plain
<1>3. ASSUME lang # "swift", NEW d \in Caller PROVE Recovering(d)'
  BY <1>3 DEF TokenInv, TokenTypes, Recovering, Cancel, Go
<1>4. TokenInv'
  BY <1>1, <1>2, <1>3 DEF TokenInv
<1>5. CASE flight = c
  <2>1. flight # Nobody /\ flight' = Nobody
    BY <1>5, TokenAssumption DEF Cancel
  <2> QED
    BY <1>4, <2>1, ExchangeEnds
<1>6. CASE flight # c
  BY <1>6, <1>4, CacheStays DEF Cancel
<1> QED
  BY <1>4, <1>5, <1>6

LEMMA ExpireKeeps ==
    ASSUME TokenInv, Expire, Plain, UNCHANGED lang
    PROVE  TokenInv' /\ CacheStep
<1>1. TokenTypes'
  BY DEF TokenInv, TokenTypes, Expire, Plain
<1>2. LockHeld'
  BY DEF TokenInv, LockHeld, Expire, Plain
<1>3. ASSUME lang # "swift", NEW d \in Caller PROVE Recovering(d)'
  BY <1>3 DEF TokenInv, Recovering, Expire
<1>4. CacheStep
  BY DEF CacheStep, Provider!Next, Provider!Drop, Expire, Usable
<1> QED
  BY <1>1, <1>2, <1>3, <1>4 DEF TokenInv

LEMMA RevokeKeeps ==
    ASSUME TokenInv, NEW t \in Token, Revoke(t), Plain, UNCHANGED lang
    PROVE  TokenInv' /\ CacheStep
<1>1. TokenTypes'
  BY TokenAssumption DEF TokenInv, TokenTypes, Revoke, Plain, Token
<1>2. LockHeld'
  BY DEF TokenInv, LockHeld, Revoke, Plain
<1>3. ASSUME lang # "swift", NEW d \in Caller PROVE Recovering(d)'
  BY <1>3 DEF TokenInv, Recovering, Revoke
<1>4. CacheStep
  BY DEF CacheStep, Provider!Next, Provider!Drop, Revoke, Usable
<1> QED
  BY <1>1, <1>2, <1>3, <1>4 DEF TokenInv


\* TypeScript.
LEMMA TypeScriptTokenKeeps ==
    ASSUME TokenInv, NEW c \in Caller, lang = "typescript", TypeScriptToken(c), Plain,
           UNCHANGED lang
    PROVE  TokenInv' /\ CacheStep
<1>1. TokenTypes'
  BY DEF TokenInv, TokenTypes, TypeScriptToken, Go, Give, Plain
<1>2. LockHeld'
  BY DEF TokenInv, TokenTypes, LockHeld, TypeScriptToken, Go, Give, Plain, Unlocked
<1>3. ASSUME NEW d \in Caller PROVE Recovering(d)'
  BY DEF TokenInv, TokenTypes, Recovering, TypeScriptToken, Go, Give, At, Dropping
<1>4. CacheStep
  BY TokenAssumption DEF TokenInv, TokenTypes, CacheStep, Provider!Next, Provider!Start,
         TypeScriptToken, Usable, None
<1> QED
  BY <1>1, <1>2, <1>3, <1>4 DEF TokenInv

LEMMA TypeScriptRefreshedKeeps ==
    ASSUME TokenInv, lang = "typescript", TypeScriptRefreshed, Plain, UNCHANGED lang
    PROVE  TokenInv' /\ CacheStep
<1> PICK short \in BOOLEAN :
          NewToken(short) /\ cached' = (IF short THEN cached ELSE issued')
  BY DEF TypeScriptRefreshed
<1>n. /\ issued' \in 1..MaxTokens /\ issued' = issued + 1 /\ issued \in 0..MaxTokens
      /\ issued' # cached /\ \A d \in Caller : rejected[d] # issued' /\ token[d] # issued'
  BY NewTokenIsNew
<1>1. TokenTypes'
  BY <1>n, TokenAssumption DEF TokenInv, TokenTypes, TypeScriptRefreshed, Plain
<1>2. LockHeld'
  BY DEF TokenInv, TokenTypes, LockHeld, TypeScriptRefreshed, Plain, Unlocked
<1>3. ASSUME NEW d \in Caller PROVE Recovering(d)'
  BY <1>n DEF TokenInv, TokenTypes, Recovering, TypeScriptRefreshed, Waiting, At, Dropping
<1>4. TokenInv'
  BY <1>1, <1>2, <1>3 DEF TokenInv
<1> QED
  BY <1>4, ExchangeEnds DEF TypeScriptRefreshed

LEMMA TypeScriptRefusedKeeps ==
    ASSUME TokenInv, lang = "typescript", TypeScriptRefused, Plain, UNCHANGED lang
    PROVE  TokenInv' /\ CacheStep
<1>1. TokenTypes'
  BY DEF TokenInv, TokenTypes, TypeScriptRefused, Plain
<1>2. LockHeld'
  BY DEF TokenInv, TokenTypes, LockHeld, TypeScriptRefused, Plain, Unlocked
<1>3. ASSUME NEW d \in Caller PROVE Recovering(d)'
  BY DEF TokenInv, TokenTypes, Recovering, TypeScriptRefused, Waiting, At, Dropping
<1>4. TokenInv'
  BY <1>1, <1>2, <1>3 DEF TokenInv
<1> QED
  BY <1>4, ExchangeEnds DEF TypeScriptRefused

LEMMA TypeScriptAbortKeeps ==
    ASSUME TokenInv, NEW c \in Caller, lang = "typescript", TypeScriptAbort(c), Plain,
           UNCHANGED lang
    PROVE  TokenInv' /\ CacheStep
<1>1. TokenTypes'
  BY DEF TokenInv, TokenTypes, TypeScriptAbort, Go, Plain
<1>2. LockHeld'
  BY DEF TokenInv, TokenTypes, LockHeld, TypeScriptAbort, Go, Plain
<1>3. ASSUME NEW d \in Caller PROVE Recovering(d)'
  BY DEF TokenInv, TokenTypes, Recovering, TypeScriptAbort, Go
<1> QED
  BY <1>1, <1>2, <1>3, CacheStays DEF TokenInv, TypeScriptAbort

\* Swift.  Whose token a replay carries is not known of it.
LEMMA SwiftTokenKeeps ==
    ASSUME TokenInv, NEW c \in Caller, lang = "swift", SwiftToken(c), Shared, UNCHANGED lang
    PROVE  TokenInv' /\ CacheStep
<1>1. TokenTypes'
  BY DEF TokenInv, TokenTypes, SwiftToken, Go, Give, Shared
<1>2. LockHeld'
  BY DEF TokenInv, TokenTypes, LockHeld, SwiftToken, Go, Give, Shared, Unlocked
<1>3. CacheStep
  BY TokenAssumption DEF TokenInv, TokenTypes, CacheStep, Provider!Next, Provider!Start,
         SwiftToken, Usable, None
<1> QED
  BY <1>1, <1>2, <1>3 DEF TokenInv

LEMMA SwiftResumeKeeps ==
    ASSUME TokenInv, NEW c \in Caller, lang = "swift", SwiftResume(c), Shared, UNCHANGED lang
    PROVE  TokenInv' /\ CacheStep
<1>1. TokenTypes'
  BY DEF TokenInv, TokenTypes, SwiftResume, Go, Shared, Failed, None
<1>2. LockHeld'
  BY DEF TokenInv, TokenTypes, LockHeld, SwiftResume, Go, Shared, Unlocked
<1>3. TokenInv'
  BY <1>1, <1>2 DEF TokenInv
<1>4. CASE flight = c
  <2>1. flight # Nobody /\ flight' = Nobody
    BY <1>4, TokenAssumption DEF SwiftResume
  <2> QED
    BY <1>3, <2>1, ExchangeEnds
<1>5. CASE flight # c
  BY <1>5, <1>3, CacheStays DEF SwiftResume
<1> QED
  BY <1>3, <1>4, <1>5

LEMMA SwiftTaskKeeps ==
    ASSUME TokenInv, lang = "swift", SwiftFetched \/ SwiftRefused, Shared, UNCHANGED lang
    PROVE  TokenInv' /\ CacheStep
<1>1. CASE SwiftFetched
  <2> PICK short \in BOOLEAN : NewToken(short)
    BY <1>1 DEF SwiftFetched
  <2>n. issued' \in 1..MaxTokens /\ issued' = issued + 1 /\ issued \in 0..MaxTokens
        /\ issued' # cached
    BY NewTokenIsNew
  <2>1. TokenTypes'
    BY <1>1, <2>n, TokenAssumption DEF TokenInv, TokenTypes, SwiftFetched, SwiftTask, Shared
  <2>2. LockHeld'
    BY <1>1 DEF TokenInv, TokenTypes, LockHeld, SwiftFetched, SwiftTask, Shared, Unlocked
  <2>3. UNCHANGED <<cached, revoked, flight>> /\ (cached \in expired <=> cached \in expired')
    BY <1>1, <2>n DEF SwiftFetched, SwiftTask, NewToken
  <2>4. CacheStep
    BY <2>3 DEF CacheStep, Usable
  <2> QED
    BY <2>1, <2>2, <2>4 DEF TokenInv
<1>2. CASE SwiftRefused
  <2>1. TokenTypes'
    BY <1>2 DEF TokenInv, TokenTypes, SwiftRefused, SwiftTask, Shared, Failed
  <2>2. LockHeld'
    BY <1>2 DEF TokenInv, TokenTypes, LockHeld, SwiftRefused, SwiftTask, Shared, Unlocked
  <2> QED
    BY <1>2, <2>1, <2>2, CacheStays DEF TokenInv, SwiftRefused, SwiftTask
<1> QED
  BY <1>1, <1>2

\* Elixir.
LEMMA MessageInFront ==
    ASSUME mailbox \in Seq(Message), mailbox # <<>>
    PROVE  /\ Head(mailbox) \in Message /\ Tail(mailbox) \in Seq(Message)
           /\ Head(mailbox).from \in Caller
<1>1. Head(mailbox) \in Message /\ Tail(mailbox) \in Seq(Message)
  <2>1. \A s \in Seq(Message) : s # <<>> => Head(s) \in Message /\ Tail(s) \in Seq(Message)
    OBVIOUS
  <2> QED
    BY <2>1
<1> QED
  BY <1>1 DEF Message

LEMMA ElixirCallKeeps ==
    ASSUME TokenInv, NEW c \in Caller, lang = "elixir", ElixirCall(c),
           UNCHANGED <<lang, result>>
    PROVE  TokenInv' /\ CacheStep
<1>1. CASE Answered(c) /\ UNCHANGED <<mailbox, waited>>
  BY <1>1, AnsweredKeeps
<1>2. ASSUME NEW what \in {"token", "invalidate"}, NEW there \in {"wait", "invalidate"},
             mailbox' = Append(mailbox, Ask(c, what)), Go(c, there),
             \/ what = "token" /\ there = "wait" /\ At(c, "acquire")
             \/ what = "invalidate" /\ there = "invalidate" /\ At(c, "rejected"),
             UNCHANGED <<cached, issued, expired, revoked, flight, token, rejected>>
      PROVE  TokenInv' /\ CacheStep
  <2>0. Ask(c, what) \in Message
    BY <1>2 DEF Ask, Message
  <2>1. mailbox' \in Seq(Message) /\ mailbox' # <<>>
    BY <1>2, <2>0 DEF TokenInv, TokenTypes
  <2>2. TokenTypes'
    BY <1>2, <2>1 DEF TokenInv, TokenTypes, Go
  <2>3. LockHeld'
    BY <1>2, <2>1 DEF TokenInv, TokenTypes, LockHeld, Go
  <2>4. ASSUME NEW d \in Caller PROVE Recovering(d)'
    BY <1>2 DEF TokenInv, TokenTypes, Recovering, Go, At
  <2> QED
    BY <1>2, <2>2, <2>3, <2>4, CacheStays DEF TokenInv
<1> QED
  BY <1>1, <1>2 DEF ElixirCall

LEMMA ElixirServeKeeps ==
    ASSUME TokenInv, lang = "elixir", ElixirServe, UNCHANGED <<lang, result>>
    PROVE  TokenInv' /\ CacheStep
<1> PICK m : m = Head(mailbox)
  OBVIOUS
<1> PICK c : c = m.from
  OBVIOUS
<1>0. m \in Message /\ Tail(mailbox) \in Seq(Message) /\ c \in Caller
  BY MessageInFront DEF TokenInv, TokenTypes, ElixirServe
<1>1. TokenTypes'
  <2>1. CASE m.what = "invalidate"
    <3>1. mailbox' = Tail(mailbox) /\ cached' \in {cached, None} /\ UNCHANGED <<flight, token>>
      BY <2>1 DEF ElixirServe
    <3>2. DOMAIN pc' = Caller
      BY <2>1 DEF TokenInv, TokenTypes, ElixirServe
    <3> QED
      BY <1>0, <3>1, <3>2 DEF TokenInv, TokenTypes, ElixirServe, None
  <2>2. CASE m.what # "invalidate" /\ Usable(cached)
    BY <1>0, <2>2 DEF TokenInv, TokenTypes, ElixirServe, ReplyToken, Go, Give
  <2>3. CASE m.what # "invalidate" /\ ~Usable(cached)
    BY <1>0, <2>3 DEF TokenInv, TokenTypes, ElixirServe
  <2> QED
    BY <2>1, <2>2, <2>3
<1>2. LockHeld'
  BY <1>0 DEF TokenInv, TokenTypes, LockHeld, ElixirServe, ReplyToken, Go, Give, Unlocked
<1>3. ASSUME NEW d \in Caller PROVE Recovering(d)'
  BY <1>0 DEF TokenInv, TokenTypes, Recovering, ElixirServe, ReplyToken, Go, Give, At, Waiting,
         Dropping, None
<1>4. CacheStep
  BY <1>0, TokenAssumption DEF CacheStep, Provider!Next, Provider!Drop, Provider!Start,
         ElixirServe, Usable, None
<1> QED
  BY <1>1, <1>2, <1>3, <1>4 DEF TokenInv

LEMMA ElixirEndsKeeps ==
    ASSUME TokenInv, lang = "elixir", ElixirFetched \/ ElixirRefused,
           UNCHANGED <<lang, result>>
    PROVE  TokenInv' /\ CacheStep
<1>0. flight \in Caller /\ flight' = Nobody /\ mailbox' \in Seq(Message)
  BY MessageInFront DEF TokenInv, TokenTypes, LockHeld, ElixirFetched, ElixirRefused, ElixirEnds
<1>3. flight # Nobody
  BY <1>0, TokenAssumption
<1>1. CASE ElixirFetched
  <2> PICK short \in BOOLEAN : NewToken(short)
    BY <1>1 DEF ElixirFetched
  <2>n. /\ issued' \in 1..MaxTokens /\ issued' = issued + 1 /\ issued \in 0..MaxTokens
        /\ issued' # cached /\ \A d \in Caller : rejected[d] # issued' /\ token[d] # issued'
    BY NewTokenIsNew
  <2>1. TokenTypes'
    BY <1>0, <1>1, <2>n, TokenAssumption
    DEF TokenInv, TokenTypes, ElixirFetched, ElixirEnds, ReplyToken, Give, Go
  <2>2. LockHeld'
    BY <1>0, <1>1
    DEF TokenInv, TokenTypes, LockHeld, ElixirFetched, ElixirEnds, ReplyToken, Give, Go, Unlocked
  <2>3. ASSUME NEW d \in Caller PROVE Recovering(d)'
    BY <1>0, <1>1, <2>n
    DEF TokenInv, TokenTypes, Recovering, ElixirFetched, ElixirEnds, ReplyToken, Give, Go, At,
        Waiting
  <2>4. TokenInv'
    BY <2>1, <2>2, <2>3 DEF TokenInv
  <2> QED
    BY <1>0, <1>3, <2>4, ExchangeEnds
<1>2. CASE ElixirRefused
  <2>1. TokenTypes'
    BY <1>0, <1>2 DEF TokenInv, TokenTypes, ElixirRefused, ElixirEnds
  <2>2. LockHeld'
    BY <1>0, <1>2 DEF TokenInv, TokenTypes, LockHeld, ElixirRefused, ElixirEnds, Unlocked
  <2>3. ASSUME NEW d \in Caller PROVE Recovering(d)'
    BY <1>0, <1>2 DEF TokenInv, TokenTypes, Recovering, ElixirRefused, ElixirEnds, At
  <2>4. TokenInv'
    BY <2>1, <2>2, <2>3 DEF TokenInv
  <2> QED
    BY <1>0, <1>3, <2>4, ExchangeEnds
<1> QED
  BY <1>1, <1>2

LEMMA ElixirTimeoutKeeps ==
    ASSUME TokenInv, NEW c \in Caller, lang = "elixir", ElixirTimeout(c),
           UNCHANGED <<lang, result>>
    PROVE  TokenInv' /\ CacheStep
<1>1. TokenTypes'
  BY DEF TokenInv, TokenTypes, ElixirTimeout, Go
<1>2. LockHeld'
  BY DEF TokenInv, TokenTypes, LockHeld, ElixirTimeout, Go
<1>3. ASSUME NEW d \in Caller PROVE Recovering(d)'
  BY DEF TokenInv, TokenTypes, Recovering, ElixirTimeout, Go
<1> QED
  BY <1>1, <1>2, <1>3, CacheStays DEF TokenInv, ElixirTimeout


\* A step of a language whose calls pass the rejected token on, of one whose
\* calls drop it, and of a provider that shares.
LEMMA ComparingKeeps ==
    ASSUME TokenInv, NEW c \in Caller, lang \notin Unlocked \cup Dropping,
           \/ UnderLock(c, "acquire", Reusable(c)) \/ Exchanged(c, TRUE) \/ Refused(c)
           \/ Answered(c) \/ Retoken(c),
           Plain, UNCHANGED lang
    PROVE  TokenInv' /\ CacheStep
<1>1. Exchanged(c, TRUE) => \E b \in BOOLEAN : Exchanged(c, b)
  OBVIOUS
<1>2. UNCHANGED <<lang, result, mailbox>>
  BY DEF Plain
<1> QED
  BY <1>1, <1>2, ComparedKeeps, ExchangedKeeps, RefusedKeeps, AnsweredKeeps, RetokenKeeps,
     Zenon

LEMMA LookingKeeps ==
    ASSUME TokenInv, NEW c \in Caller, lang \in Dropping \ Unlocked,
           \/ Peek(c) \/ UnderLock(c, "wait", Usable(cached)) \/ Exchanged(c, FALSE)
           \/ Refused(c) \/ Answered(c) \/ Invalidate(c),
           Plain, UNCHANGED lang
    PROVE  TokenInv' /\ CacheStep
<1>1. Exchanged(c, FALSE) => \E b \in BOOLEAN : Exchanged(c, b)
  OBVIOUS
<1>2. UNCHANGED <<lang, result, mailbox>> /\ lang \in Dropping
  BY DEF Plain
<1> QED
  BY <1>1, <1>2, PeekKeeps, LookedKeeps, ExchangedKeeps, RefusedKeeps, AnsweredKeeps,
     InvalidateKeeps, Zenon

LEMMA CallStepKeeps ==
    ASSUME TokenInv, NEW c \in Caller, CallStep(c), UNCHANGED lang
    PROVE  TokenInv' /\ CacheStep
<1>0. Plain => UNCHANGED <<lang, result, mailbox>>
  BY DEF Plain
<1>1. CASE lang = "go" /\ (GoToken(c) \/ GoCall(c)) /\ Plain
  <2> lang \notin Unlocked \cup Dropping
    BY <1>1 DEF Unlocked, Dropping
  <2> QED
    BY <1>1, ComparingKeeps, Zenon DEF GoToken, GoCall
<1>2. CASE lang = "python" /\ (PythonToken(c) \/ PythonCall(c)) /\ Plain
  <2> lang \notin Unlocked \cup Dropping
    BY <1>2 DEF Unlocked, Dropping
  <2> QED
    BY <1>2, ComparingKeeps, Zenon DEF PythonToken, PythonCall
<1>3. CASE lang = "async python" /\ (AsyncPythonToken(c) \/ AsyncPythonCall(c)) /\ Plain
  <2> lang \notin Unlocked \cup Dropping
    BY <1>3, Zenon DEF Unlocked, Dropping
  <2> QED
    BY <1>3, ComparingKeeps, Zenon DEF AsyncPythonToken, AsyncPythonCall
<1>4. CASE lang = "ruby" /\ (RubyToken(c) \/ RubyCall(c)) /\ Plain
  <2> lang \notin Unlocked \cup Dropping
    BY <1>4 DEF Unlocked, Dropping
  <2> QED
    BY <1>4, ComparingKeeps, Zenon DEF RubyToken, RubyCall
<1>5. CASE lang = "csharp" /\ (CSharpToken(c) \/ CSharpCall(c)) /\ Plain
  <2> lang \in Dropping \ Unlocked
    BY <1>5 DEF Unlocked, Dropping
  <2> QED
    BY <1>5, LookingKeeps, Zenon DEF CSharpToken, CSharpCall
<1>6. CASE lang = "java" /\ (JavaToken(c) \/ JavaCall(c)) /\ Plain
  <2> lang \in Dropping \ Unlocked
    BY <1>6 DEF Unlocked, Dropping
  <2> QED
    BY <1>6, LookingKeeps, Zenon DEF JavaToken, JavaCall
<1>7. CASE lang = "rust" /\ (RustToken(c) \/ RustCall(c)) /\ Plain
  <2> lang \in Dropping \ Unlocked
    BY <1>7 DEF Unlocked, Dropping
  <2> QED
    BY <1>7, LookingKeeps, Zenon DEF RustToken, RustCall
<1>8. CASE lang = "typescript" /\ (TypeScriptToken(c) \/ TypeScriptCall(c)) /\ Plain
  BY <1>0, <1>8, TypeScriptTokenKeeps, AnsweredKeeps, InvalidateKeeps, Zenon DEF TypeScriptCall
<1>9. CASE lang = "swift" /\ (SwiftToken(c) \/ SwiftResume(c)) /\ Shared
  BY <1>9, SwiftTokenKeeps, SwiftResumeKeeps, Zenon
<1>10. CASE lang = "swift" /\ SwiftCall(c) /\ Plain
  BY <1>0, <1>10, AnsweredKeeps, InvalidateKeeps, Zenon DEF SwiftCall
<1>11. CASE lang = "elixir" /\ ElixirCall(c) /\ UNCHANGED result
  <2>1. UNCHANGED <<lang, result>>
    BY <1>11
  <2> QED
    BY <1>11, <2>1, ElixirCallKeeps, Zenon
<1> QED
  BY <1>1, <1>2, <1>3, <1>4, <1>5, <1>6, <1>7, <1>8, <1>9, <1>10, <1>11, Zenon DEF CallStep

LEMMA ProviderStepKeeps ==
    ASSUME TokenInv, ProviderStep, UNCHANGED lang
    PROVE  TokenInv' /\ CacheStep
<1>1. CASE lang = "typescript" /\ (TypeScriptRefreshed \/ TypeScriptRefused) /\ Plain
  BY <1>1, TypeScriptRefreshedKeeps, TypeScriptRefusedKeeps, Zenon
<1>2. CASE lang = "swift" /\ (SwiftFetched \/ SwiftRefused) /\ Shared
  BY <1>2, SwiftTaskKeeps, Zenon
<1>3. CASE /\ lang = "elixir" /\ (ElixirServe \/ ElixirFetched \/ ElixirRefused)
           /\ UNCHANGED result
  <2>1. UNCHANGED <<lang, result>>
    BY <1>3
  <2> QED
    BY <1>3, <2>1, ElixirServeKeeps, ElixirEndsKeeps, Zenon
<1> QED
  BY <1>1, <1>2, <1>3, Zenon DEF ProviderStep

LEMMA GiveUpKeeps ==
    ASSUME TokenInv, NEW c \in Caller, GiveUp(c), UNCHANGED lang
    PROVE  TokenInv' /\ CacheStep
<1>1. CASE lang \in {"go", "async python", "ruby"} /\ Cancel(c, {"acquire", "exchange"}) /\ Plain
  <2>1. lang # "elixir" /\ Cancel(c, {"acquire", "exchange"}) /\ Plain
    BY <1>1, Zenon
  <2>2. lang \notin {"elixir"} /\ {"acquire", "exchange"} \in SUBSET {"acquire", "wait", "exchange"}
    BY <2>1
  <2> QED
    BY <2>1, <2>2, CancelKeeps, Zenon
<1>2. CASE /\ lang \in {"csharp", "java", "rust"}
           /\ Cancel(c, {"acquire", "wait", "exchange"}) /\ Plain
  BY <1>2, CancelKeeps
<1>3. CASE lang = "typescript" /\ TypeScriptAbort(c) /\ Plain
  BY <1>3, TypeScriptAbortKeeps, Zenon
<1>4. CASE lang = "elixir" /\ ElixirTimeout(c) /\ UNCHANGED result
  <2>1. UNCHANGED <<lang, result>>
    BY <1>4
  <2> QED
    BY <1>4, <2>1, ElixirTimeoutKeeps, Zenon
<1> QED
  BY <1>1, <1>2, <1>3, <1>4, Zenon DEF GiveUp

LEMMA EnvironmentKeeps ==
    ASSUME TokenInv, Environment, UNCHANGED lang
    PROVE  TokenInv' /\ CacheStep
BY BeginKeeps, ExpireKeeps, RevokeKeeps, Zenon DEF Environment

LEMMA TokenStepKeeps ==
    ASSUME TokenInv, [Next]_vars
    PROVE  TokenInv' /\ CacheStep
<1>1. CASE Next
  BY <1>1, CallStepKeeps, GiveUpKeeps, ProviderStepKeeps, EnvironmentKeeps, Zenon DEF Next
<1>2. CASE UNCHANGED vars
  <2>1. /\ UNCHANGED <<cached, expired, revoked, flight>>
        /\ UNCHANGED <<issued, pc, token, rejected, lang, result, mailbox>>
    BY <1>2 DEF vars, useVars, ownVars
  <2> QED
    BY <2>1, CacheStays DEF TokenInv, TokenTypes, LockHeld, Recovering
<1> QED
  BY <1>1, <1>2

LEMMA TokenStarts ==
    ASSUME Init
    PROVE  TokenInv /\ Provider!Init
<1>1. TokenTypes
  <2>1. <<>> \in Seq(Message)
    OBVIOUS
  <2> QED
    BY <2>1, TokenAssumption DEF Init, UseInit, TokenTypes, None, Failed
<1>2. LockHeld /\ \A c \in Caller : Recovering(c)
  BY DEF Init, UseInit, LockHeld, Recovering
<1>3. Provider!Init
  BY DEF Init, UseInit, Provider!Init, Usable
<1> QED
  BY <1>1, <1>2, <1>3 DEF TokenInv

\* What the cache, the one who exchanges, those who wait and those who hold a
\* token know of each other, in every client and for any number of calls.
THEOREM TokenInvariant == Spec => []TokenInv
<1>1. Init => TokenInv
  BY TokenStarts
<1>2. TokenInv /\ [Next]_vars => TokenInv'
  BY TokenStepKeeps
<1> QED
  BY <1>1, <1>2, PTL DEF Spec

\* In every client but Swift's the one replay of a request never carries the
\* token the API has just rejected, however calls, exchanges, expiries and
\* revocations interleave: between the rejection and the replay the cache
\* either forgets that token or the call refuses it.
THEOREM ReplaysAreFresh == Spec => []ReplayIsFresh
<1>1. TokenInv => ReplayIsFresh
  BY DEF TokenInv, Recovering, ReplayIsFresh, At
<1> QED
  BY <1>1, TokenInvariant, PTL

\* Every client's provider, lock, shared promise, actor or process, is a token
\* cache: one exchange at a time, begun only when no live token is cached.
THEOREM ProvidersAreTokenCaches == Spec => ImplementsProvider
<1>1. Init => Provider!Init
  BY TokenStarts
<1>2. TokenInv /\ [Next]_vars => CacheStep
  BY TokenStepKeeps
<1> QED
  BY <1>1, <1>2, TokenInvariant, PTL DEF Spec, ImplementsProvider, Provider!Spec, CacheStep


-----------------------------------------------------------------------------
(* The page iterators.                                                      *)

\* What was asked for is a sequence, of whatever.
AskedTypes == asked \in Seq({asked[i] : i \in DOMAIN asked}) /\ pages \in Nat

\* The cap counts pages, where it ends the traversal after the last of them,
\* and in Java requests.
WithinCap ==
    /\ Capped /\ ~Language({"java"}) => pages <= PageCap
    /\ Language({"csharp"}) /\ ~Form({"url"}) /\ mode = "more" => pages < PageCap
    /\ Language({"java"}) =>
          pages <= Len(asked) /\ Len(asked) <= PageCap /\ (mode = "more" => Len(asked) < PageCap)

\* What a URL iterator asked for it does not ask for again; Swift asks for a
\* cursor again while its calls fail, and for none that lies further back; C#
\* never for the last one.
Remembers ==
    /\ Form({"url"}) /\ Language({"rust", "csharp", "elixir", "swift"}) =>
          \A i, j \in DOMAIN asked : asked[i] = asked[j] /\ asked[i] # Unset => i = j
    /\ Form({"cursor"}) /\ Language({"swift"}) =>
          /\ \A i, j \in DOMAIN asked : asked[i] = asked[j] => \A k \in i..j : asked[k] = asked[i]
          /\ mode = "more" =>
                \A i \in DOMAIN asked : asked[i] = cursor =>
                    \A k \in DOMAIN asked : i <= k => asked[k] = cursor
    /\ Form({"cursor"}) /\ Language({"csharp"}) =>
          /\ \A i \in 2..Len(asked) : asked[i] # asked[i - 1]
          /\ mode = "more" /\ Len(asked) > 0 => asked[Len(asked)] # cursor

PagerInv == AskedTypes /\ WithinCap /\ Remembers

\* One more request.
LEMMA AskedGrows ==
    ASSUME AskedTypes, asked' = Append(asked, cursor)
    PROVE  /\ asked' \in Seq({asked'[i] : i \in DOMAIN asked'})
           /\ Len(asked) \in Nat /\ Len(asked') = Len(asked) + 1
           /\ DOMAIN asked = 1..Len(asked) /\ DOMAIN asked' = 1..Len(asked')
           /\ \A i \in DOMAIN asked : asked'[i] = asked[i]
           /\ asked'[Len(asked')] = cursor
<1> DEFINE S == {asked[i] : i \in DOMAIN asked} \cup {cursor}
<1>1. asked \in Seq(S) /\ cursor \in S
  BY DEF AskedTypes
<1> HIDE DEF S
<1>2. /\ asked' \in Seq(S) /\ Len(asked) \in Nat /\ Len(asked') = Len(asked) + 1
      /\ DOMAIN asked = 1..Len(asked) /\ DOMAIN asked' = 1..Len(asked')
      /\ \A i \in DOMAIN asked : asked'[i] = asked[i]
      /\ asked'[Len(asked')] = cursor
  BY <1>1
<1>3. asked' \in Seq({asked'[i] : i \in DOMAIN asked'})
  BY <1>2
<1> QED
  BY <1>2, <1>3

\* A step that asks for nothing ends the traversal, or reports that it ended.
LEMMA PagerEnds ==
    ASSUME PagerInv, mode' = "over", UNCHANGED <<contract, cursor, asked, pages>>
    PROVE  PagerInv'
<1>1. AskedTypes'
  BY DEF PagerInv, AskedTypes
<1>2. WithinCap'
  BY DEF PagerInv, WithinCap, Capped, Language, Form, contract
<1>3. Remembers'
  BY DEF PagerInv, Remembers, Language, Form, contract
<1> QED
  BY <1>1, <1>2, <1>3 DEF PagerInv


\* One that asks keeps the cap where the iterator looks at it first.
LEMMA CapKeeps ==
    ASSUME PagerInv, ~Language({"java"}), Calls, pages' \in {pages, pages + 1},
           Capped /\ pages' = pages + 1 => pages # PageCap
    PROVE  AskedTypes' /\ (Capped /\ ~Language({"java"}) => pages <= PageCap)'
<1>1. AskedTypes'
  BY AskedGrows DEF PagerInv, AskedTypes, Calls
<1>2. /\ Capped' = Capped /\ Language({"java"})' = Language({"java"})
  BY DEF Capped, Language, Form, Calls, contract
<1>3. /\ pages \in Nat /\ PageCap \in Nat
      /\ Capped /\ ~Language({"java"}) => pages <= PageCap
  BY PagerAssumption DEF PagerInv, AskedTypes, WithinCap
<1> QED
  BY <1>1, <1>2, <1>3

LEMMA PlainPagerKeeps ==
    ASSUME PagerInv, Language({"go", "typescript", "python", "ruby", "php"}), Calls,
           pages' \in {pages, pages + 1}, Capped /\ pages' = pages + 1 => pages # PageCap
    PROVE  PagerInv'
<1>1. ~Language({"java"}) /\ ~Language({"java"})'
  BY DEF Language, Calls, contract
<1>2. WithinCap'
  BY <1>1, CapKeeps DEF WithinCap, Language, Calls, contract
<1>3. Remembers'
  BY DEF Remembers, Language, Calls, contract
<1> QED
  BY <1>1, <1>2, <1>3, CapKeeps DEF PagerInv

LEMMA PlainPagersKeep ==
    ASSUME PagerInv, GoNext \/ TypeScriptNext \/ PythonNext \/ RubyNext \/ PhpNext
    PROVE  PagerInv'
<1>1. Language({"go", "typescript", "python", "ruby", "php"})
  BY DEF GoNext, TypeScriptNext, PythonNext, RubyNext, PhpNext, Language
<1>2. CASE Refuses
  BY <1>2, PagerEnds DEF Refuses
<1>3. CASE ~Refuses
  <2>1. Calls /\ pages' \in {pages, pages + 1}
    BY <1>3 DEF GoNext, TypeScriptNext, PythonNext, RubyNext, PhpNext, Asks, Misses, Yields
  <2>2. Capped /\ pages' = pages + 1 => pages # PageCap
    BY <1>3
    DEF GoNext, TypeScriptNext, PythonNext, RubyNext, PhpNext, Asks, Misses, Yields, Capped, Full,
        Language, Form, PagerInv, AskedTypes
  <2> QED
    BY <1>1, <2>1, <2>2, PlainPagerKeeps
<1> QED
  BY <1>2, <1>3

\* What was asked for is remembered.
LEMMA NoUrlTwice ==
    ASSUME PagerInv, Form({"url"}), Language({"rust", "csharp", "elixir", "swift"}), Calls,
           ~Repeated
    PROVE  (\A i, j \in DOMAIN asked : asked[i] = asked[j] /\ asked[i] # Unset => i = j)'
<1>1. \A i \in DOMAIN asked : asked[i] = cursor => cursor = Unset
  BY AskedGrows DEF PagerInv, AskedTypes, Repeated, Contains, Calls
<1>2. \A i, j \in DOMAIN asked : asked[i] = asked[j] /\ asked[i] # Unset => i = j
  BY DEF PagerInv, Remembers
<1>3. /\ Len(asked) \in Nat /\ Len(asked') = Len(asked) + 1
      /\ DOMAIN asked = 1..Len(asked) /\ DOMAIN asked' = 1..Len(asked')
      /\ \A i \in DOMAIN asked : asked'[i] = asked[i]
      /\ asked'[Len(asked')] = cursor
  BY AskedGrows DEF PagerInv, Calls
<1> QED
  BY <1>1, <1>2, <1>3

LEMMA RustAndElixirKeep ==
    ASSUME PagerInv, RustNext \/ ElixirNext
    PROVE  PagerInv'
<1>1. Language({"rust", "elixir"})
  BY DEF RustNext, ElixirNext, Language
<1>2. CASE Refuses
  BY <1>2, PagerEnds DEF Refuses
<1>3. CASE ~Refuses
  <2>1. Calls /\ pages' \in {pages, pages + 1} /\ (Form({"url"}) => ~Repeated)
    BY <1>3 DEF RustNext, ElixirNext, Asks, Misses, Yields
  <2>2. Capped /\ pages' = pages + 1 => pages # PageCap
    BY <1>3
    DEF RustNext, ElixirNext, Asks, Misses, Yields, Capped, Full, Language, Form, PagerInv,
        AskedTypes
  <2>3. ~Language({"java"}) /\ ~Language({"java"})'
    BY <1>1, <2>1 DEF Language, Calls, contract
  <2>4. AskedTypes' /\ WithinCap'
    BY <1>1, <2>1, <2>2, <2>3, CapKeeps DEF WithinCap, Language, Calls, contract
  <2>5. Remembers'
    BY <1>1, <2>1, NoUrlTwice DEF Remembers, Language, Form, Calls, contract
  <2> QED
    BY <2>4, <2>5 DEF PagerInv
<1> QED
  BY <1>2, <1>3

LEMMA JavaKeeps ==
    ASSUME PagerInv, JavaNext
    PROVE  PagerInv'
<1>1. Language({"java"}) /\ Calls /\ Language({"java"})' /\ mode = "more"
  BY DEF JavaNext, Asks, Misses, Yields, Language, Calls, contract
<1>2. pages' \in {pages, pages + 1}
  BY DEF JavaNext, Asks, Misses, Yields
<1>3. mode' = "more" => ~JavaFull
  BY <1>1 DEF JavaNext, Asks, Misses, Yields, After, JavaAfter, Stops, Language
<1>4. Len(asked) \in Nat /\ Len(asked') = Len(asked) + 1 /\ AskedTypes'
  BY <1>1, <1>2, AskedGrows DEF PagerInv, AskedTypes, Calls
<1>5. WithinCap'
  BY <1>1, <1>2, <1>3, <1>4, PagerAssumption
  DEF PagerInv, AskedTypes, WithinCap, JavaFull, Language
<1>6. Remembers'
  BY <1>1 DEF Remembers, Language
<1> QED
  BY <1>4, <1>5, <1>6 DEF PagerInv

LEMMA CSharpKeeps ==
    ASSUME PagerInv, CSharpNext
    PROVE  PagerInv'
<1>1. Language({"csharp"})
  BY DEF CSharpNext
<1>2. CASE Refuses
  BY <1>2, PagerEnds DEF Refuses
<1>3. CASE ~Refuses
  <2>1. /\ Calls /\ mode = "more" /\ pages' \in {pages, pages + 1}
        /\ Form({"url"}) => ~Repeated /\ pages # PageCap
    BY <1>3 DEF CSharpNext, Asks, Misses, Yields, Full, Calls
  <2>2. mode' = "more" /\ ~Form({"url"}) => pages' = pages + 1 /\ pages + 1 # PageCap
    BY <1>3, <1>1
    DEF CSharpNext, Asks, Misses, Yields, After, CSharpAfter, Stops, Language, Full
  <2>3. mode' = "more" /\ Form({"cursor"}) => cursor' # cursor
    BY <1>3, <1>1
    DEF CSharpNext, Asks, Misses, Yields, After, CSharpAfter, Stops, Moves, Following, Same,
        Language, Form, Counted
  <2>4. /\ Len(asked) \in Nat /\ Len(asked') = Len(asked) + 1
        /\ DOMAIN asked = 1..Len(asked)
        /\ \A i \in DOMAIN asked : asked'[i] = asked[i]
        /\ asked'[Len(asked')] = cursor
    BY <2>1, AskedGrows DEF PagerInv, Calls
  <2>5. ~Language({"java"}) /\ Language({"csharp"})' /\ ~Language({"java"})'
    BY <1>1, <2>1 DEF Language, Calls, contract
  <2>6. Capped /\ pages' = pages + 1 => pages # PageCap
    BY <1>1, <2>1, PagerAssumption DEF PagerInv, WithinCap, AskedTypes, Language
  <2>7. AskedTypes' /\ (Capped /\ ~Language({"java"}) => pages <= PageCap)'
    BY <2>1, <2>5, <2>6, CapKeeps
  <2>8. WithinCap'
    <3>1. pages < PageCap /\ mode' = "more" /\ ~Form({"url"}) => pages' < PageCap
      BY <2>2, PagerAssumption DEF PagerInv, AskedTypes
    <3>2. ~Form({"url"}) => pages < PageCap
      BY <1>1, <2>1 DEF PagerInv, WithinCap
    <3> QED
      BY <2>1, <2>5, <2>7, <3>1, <3>2 DEF WithinCap, Form, Calls, contract
  <2>9. Remembers'
    <3>1. CASE Form({"cursor"})
      <4>1. \A i \in 2..Len(asked) : asked[i] # asked[i - 1]
        BY <1>1, <3>1 DEF PagerInv, Remembers
      <4>2. Len(asked) > 0 => asked[Len(asked)] # cursor
        BY <1>1, <2>1, <3>1 DEF PagerInv, Remembers
      <4>3. \A i \in 2..Len(asked') : asked'[i] # asked'[i - 1]
        BY <2>4, <4>1, <4>2
      <4> QED
        BY <2>1, <2>3, <2>4, <2>5, <3>1, <4>3 DEF Remembers, Form, Language, Calls, contract
    <3>2. CASE ~Form({"cursor"})
      BY <1>1, <2>1, <3>2, <2>5, NoUrlTwice DEF Remembers, Form, Language, Calls, contract
    <3> QED
      BY <3>1, <3>2
  <2> QED
    BY <2>7, <2>8, <2>9 DEF PagerInv
<1> QED
  BY <1>2, <1>3


LEMMA SwiftKeeps ==
    ASSUME PagerInv, SwiftNext
    PROVE  PagerInv'
<1>1. Language({"swift"})
  BY DEF SwiftNext
<1>2. CASE Refuses
  BY <1>2, PagerEnds DEF Refuses
<1>3. CASE ~Refuses
  <2>1. /\ Calls /\ mode = "more" /\ pages' \in {pages, pages + 1}
        /\ Form({"url"}) => ~Repeated
        /\ pages # PageCap
    BY <1>3 DEF SwiftNext, Asks, Misses, Yields, Full, Calls
  <2>2. mode' = "more" /\ Form({"cursor"}) =>
            cursor' = cursor \/ ~Contains(Append(asked, cursor), cursor')
    BY <1>3, <1>1
    DEF SwiftNext, Asks, Misses, Yields, After, SwiftAfter, Stops, Breaks, Moves, Following,
        Language, Form, Counted
  <2>3. /\ Len(asked) \in Nat /\ Len(asked') = Len(asked) + 1
        /\ DOMAIN asked = 1..Len(asked) /\ DOMAIN asked' = 1..Len(asked')
        /\ \A i \in DOMAIN asked : asked'[i] = asked[i]
        /\ asked'[Len(asked')] = cursor
    BY <2>1, AskedGrows DEF PagerInv, Calls
  <2>4. ~Language({"java"}) /\ Language({"swift"})' /\ ~Language({"java"})'
    BY <1>1, <2>1 DEF Language, Calls, contract
  <2>5. AskedTypes' /\ (Capped /\ ~Language({"java"}) => pages <= PageCap)'
    BY <2>1, <2>4, CapKeeps
  <2>6. WithinCap'
    BY <1>1, <2>1, <2>4, <2>5 DEF WithinCap, Language, Calls, contract
  <2>7. CASE Form({"cursor"})
    <3>1. \A i, j \in DOMAIN asked : asked[i] = asked[j] => \A k \in i..j : asked[k] = asked[i]
      BY <1>1, <2>7 DEF PagerInv, Remembers
    <3>2. \A i \in DOMAIN asked : asked[i] = cursor =>
              \A k \in DOMAIN asked : i <= k => asked[k] = cursor
      BY <1>1, <2>1, <2>7 DEF PagerInv, Remembers
    <3>3. \A i, j \in DOMAIN asked' : asked'[i] = asked'[j] => \A k \in i..j : asked'[k] = asked'[i]
      BY <2>3, <3>1, <3>2
    <3>4. ASSUME mode' = "more", NEW i \in DOMAIN asked', asked'[i] = cursor',
                 NEW k \in DOMAIN asked', i <= k
          PROVE  asked'[k] = cursor'
      <4>1. CASE cursor' = cursor
        BY <2>3, <3>2, <3>4, <4>1
      <4>2. CASE cursor' # cursor
        <5>1. ~Contains(asked', cursor')
          BY <2>1, <2>2, <2>7, <3>4, <4>2 DEF Calls
        <5> QED
          BY <2>3, <3>4, <5>1 DEF Contains
      <4> QED
        BY <4>1, <4>2
    <3>5. ~Form({"url"})' /\ ~Language({"csharp"})'
      BY <1>1, <2>1, <2>7 DEF Form, Language, Calls, contract
    <3> QED
      BY <2>5, <2>6, <3>3, <3>4, <3>5 DEF PagerInv, Remembers
  <2>8. CASE ~Form({"cursor"})
    <3>1. ~Form({"cursor"})' /\ (Form({"url"})' => Form({"url"}))
      BY <2>1, <2>8 DEF Form, Calls, contract
    <3>2. Form({"url"}) =>
              (\A i, j \in DOMAIN asked : asked[i] = asked[j] /\ asked[i] # Unset => i = j)'
      BY <1>1, <2>1, NoUrlTwice DEF Language
    <3> QED
      BY <2>5, <2>6, <3>1, <3>2 DEF PagerInv, Remembers
  <2> QED
    BY <2>7, <2>8
<1> QED
  BY <1>2, <1>3

\* The pages counted, and what was asked for, keep within the caps and the
\* memory of each iterator.
THEOREM PagerInvariant == PagerSpec => []PagerInv
<1>1. PagerInit => PagerInv
  <2> SUFFICES ASSUME PagerInit PROVE PagerInv
    OBVIOUS
  <2>1. AskedTypes /\ Remembers
    BY DEF PagerInit, AskedTypes, Remembers
  <2>2. WithinCap
    BY PagerAssumption DEF PagerInit, WithinCap
  <2> QED
    BY <2>1, <2>2 DEF PagerInv
<1>2. PagerInv /\ [PagerNext]_pagerVars => PagerInv'
  <2> SUFFICES ASSUME PagerInv, [PagerNext]_pagerVars PROVE PagerInv'
    OBVIOUS
  <2>1. CASE Finishes
    BY <2>1, PagerEnds DEF Finishes
  <2>2. CASE UNCHANGED pagerVars
    <3>1. UNCHANGED <<pager, asked, cursor, pages, mode>>
      BY <2>2 DEF pagerVars, contract
    <3> QED
      BY <3>1 DEF PagerInv, AskedTypes, WithinCap, Remembers, Capped, Language, Form
  <2> QED
    BY <2>1, <2>2, PlainPagersKeep, RustAndElixirKeep, JavaKeeps, CSharpKeeps, SwiftKeeps
    DEF PagerNext
<1> QED
  BY <1>1, <1>2, PTL DEF PagerSpec

\* An API whose continuations never end, or run in a circle, holds no consumer
\* of an iterator with a cap, whatever the cap; and no URL is asked for twice,
\* no cursor of Swift's but by repeating the call that failed, none of C#'s
\* twice in a row.
THEOREM TraversalsAreBounded == PagerSpec => []TraversalBounded
<1>1. PagerInv => TraversalBounded
  <2> SUFFICES ASSUME PagerInv PROVE TraversalBounded
    OBVIOUS
  <2>1. Capped => pages <= PageCap
    BY PagerAssumption DEF PagerInv, AskedTypes, WithinCap
  <2> QED
    BY <2>1 DEF PagerInv, Remembers, TraversalBounded
<1> QED
  BY <1>1, PagerInvariant, PTL

-----------------------------------------------------------------------------
(* What a traversal of an honest API yields.                                *)

LEMMA MinOf ==
    ASSUME NEW x \in Int, NEW y \in Int
    PROVE  Min({x, y}) = IF x <= y THEN x ELSE y
BY DEF Min

LEMMA SpanIs ==
    ASSUME NEW p \in Nat, NEW q \in Nat
    PROVE  /\ Span(p, q) \in Seq(Nat)
           /\ Len(Span(p, q)) = IF p <= q THEN q - p ELSE 0
           /\ DOMAIN Span(p, q) = 1..Len(Span(p, q))
           /\ \A i \in 1..Len(Span(p, q)) : Span(p, q)[i] = p + i
<1> DEFINE n == IF p <= q THEN q - p ELSE 0
<1>1. n \in Nat /\ 1..(q - p) = 1..n
  OBVIOUS
<1>2. Span(p, q) = [i \in 1..n |-> p + i]
  BY <1>1 DEF Span
<1>3. \A i \in 1..n : p + i \in Nat
  OBVIOUS
<1> HIDE DEF n
<1>4. Span(p, q) \in Seq(Nat) /\ Len(Span(p, q)) = n
  BY <1>1, <1>2, <1>3
<1> QED
  BY <1>1, <1>2, <1>4 DEF n

LEMMA Joined ==
    ASSUME NEW x \in Seq(Nat), NEW y \in Seq(Nat)
    PROVE  /\ x \o y \in Seq(Nat) /\ Len(x \o y) = Len(x) + Len(y)
           /\ \A i \in 1..Len(x) : (x \o y)[i] = x[i]
           /\ \A i \in 1..Len(y) : (x \o y)[Len(x) + i] = y[i]
OBVIOUS

LEMMA SameElements ==
    ASSUME NEW x \in Seq(Nat), NEW y \in Seq(Nat), Len(x) = Len(y),
           \A i \in 1..Len(x) : x[i] = y[i]
    PROVE  x = y
OBVIOUS

\* Items up to a page, and those of the page.
LEMMA SpansMeet ==
    ASSUME NEW f \in Nat, NEW b \in Nat, NEW n \in Nat, f <= b, b <= n
    PROVE  \A x, y \in Seq(Nat) : x = Span(f, b) /\ y = Span(b, n) => x \o y = Span(f, n)
<1> SUFFICES ASSUME NEW x \in Seq(Nat), NEW y \in Seq(Nat), x = Span(f, b), y = Span(b, n)
             PROVE  x \o y = Span(f, n)
  OBVIOUS
<1> PICK z, w : z = x \o y /\ w = Span(f, n)
  OBVIOUS
<1>1. Len(x) = b - f /\ \A i \in 1..Len(x) : x[i] = f + i
  BY SpanIs
<1>2. Len(y) = n - b /\ \A i \in 1..Len(y) : y[i] = b + i
  BY SpanIs
<1>3. w \in Seq(Nat) /\ Len(w) = n - f /\ \A i \in 1..Len(w) : w[i] = f + i
  <2>1. f <= n
    OBVIOUS
  <2> QED
    BY <2>1, SpanIs
<1>4. /\ z \in Seq(Nat) /\ Len(z) = Len(x) + Len(y)
      /\ \A i \in 1..Len(x) : z[i] = x[i]
      /\ \A i \in 1..Len(y) : z[Len(x) + i] = y[i]
  BY Joined
<1>5. ASSUME NEW i \in 1..Len(w) PROVE z[i] = w[i]
  <2>0. i \in Nat /\ Len(x) \in Nat
    BY <1>3
  <2>1. CASE i <= Len(x)
    <3>1. i \in 1..Len(x)
      BY <1>1, <2>1
    <3> QED
      BY <1>1, <1>3, <1>4, <3>1
  <2>2. CASE i > Len(x)
    <3>1. i - Len(x) \in 1..Len(y) /\ Len(x) + (i - Len(x)) = i
      BY <1>1, <1>2, <1>3, <2>2
    <3>2. z[i] = b + (i - Len(x))
      BY <1>2, <1>4, <3>1
    <3> QED
      BY <1>1, <1>3, <3>2
  <2> QED
    <3>1. i <= Len(x) \/ i > Len(x)
      BY <2>0
    <3> QED
      BY <2>1, <2>2, <3>1, Zenon
<1>6. Len(z) = Len(w)
  BY <1>1, <1>2, <1>3, <1>4
<1> QED
  BY <1>3, <1>4, <1>5, <1>6, SameElements

LEMMA SpanIsPrefix ==
    ASSUME NEW f \in Nat, NEW n \in Nat, NEW t \in Nat, n <= t
    PROVE  IsPrefix(Span(f, n), Span(f, t))
<1> DEFINE X == Span(f, n)
           Z == Span(f, t)
<1>1. /\ X \in Seq(Nat) /\ Len(X) = (IF f <= n THEN n - f ELSE 0)
      /\ \A i \in 1..Len(X) : X[i] = f + i
  BY SpanIs
<1>2. /\ Z \in Seq(Nat) /\ Len(Z) = (IF f <= t THEN t - f ELSE 0)
      /\ \A i \in 1..Len(Z) : Z[i] = f + i
  BY SpanIs
<1> HIDE DEF X, Z
<1>3. Len(X) \in Nat /\ Len(Z) \in Nat /\ Len(X) <= Len(Z)
  BY <1>1, <1>2
<1>4. \A i \in 1..Len(X) : X[i] = Z[i]
  BY <1>1, <1>2, <1>3
<1>5. SubSeq(X, 1, Len(X)) = SubSeq(Z, 1, Len(X))
  BY <1>1, <1>2, <1>3, <1>4
<1> QED
  BY <1>3, <1>5 DEF IsPrefix, X, Z


\* What the consumer chose, and what may name a page.
TraversalTypes ==
    /\ pager \in Offered
    /\ from \in (Nat \ {0}) \cup {Unset}
    /\ limit \in (Nat \ {0}) \cup {Unset}
    /\ total \in Nat

Named(c) == c \in Nat \cup {Unset} /\ (c = 0 => Form({"offset"}))

LEMMA FormsAre ==
    ASSUME TraversalTypes
    PROVE  /\ Form({"offset"}) \/ Form({"page", "pages"}) \/ Form({"cursor", "url"})
           /\ Form({"pages"}) \/ Form({"page"}) <=> Form({"page", "pages"})
           /\ Form({"page", "offset"}) <=> Form({"page"}) \/ Form({"offset"})
           /\ Counted <=> Form({"offset"}) \/ Form({"page", "pages"})
           /\ ~(Form({"offset"}) /\ Form({"page", "pages"}))
           /\ ~(Form({"pages"}) /\ Form({"page"}))
           /\ ~(Counted /\ Form({"cursor", "url"}))
BY DEF TraversalTypes, Offered, Form, Counted

LEMMA ProductIsNat == ASSUME NEW x \in Nat, NEW y \in Nat PROVE x * y \in Nat
OBVIOUS

\* Where a page lies among the items.
LEMMA PlaceOf ==
    ASSUME TraversalTypes, NEW c, Named(c)
    PROVE  /\ Position(c) \in Nat /\ (Form({"offset"}) \/ Position(c) >= 1)
           /\ c # Unset => Position(c) = c
           /\ Size \in Nat \ {0} /\ Length \in Nat \ {0}
           /\ Counted => Length = Size
           /\ Form({"cursor", "url"}) => Length = 1
           /\ Form({"offset"}) => Before(c) = Position(c)
           /\ Form({"page", "pages"}) => Before(c) = (Position(c) - 1) * Size
           /\ Form({"cursor", "url"}) => Before(c) = Position(c) - 1
           /\ Before(c) \in Nat
<1>1. Position(c) \in Nat /\ (Form({"offset"}) \/ Position(c) >= 1) /\ (c # Unset => Position(c) = c)
  BY PagerAssumption DEF Position, Default, Named
<1>2. Size \in Nat \ {0} /\ Length \in Nat \ {0} /\ (Counted => Length = Size)
  BY PagerAssumption DEF Size, Length, TraversalTypes
<1>3. /\ Form({"cursor", "url"}) => Length = 1 /\ Before(c) = Position(c) - 1
      /\ Form({"offset"}) => Before(c) = Position(c)
      /\ Form({"page", "pages"}) => Before(c) = (Position(c) - 1) * Size
  BY FormsAre DEF Before, Length, Form
<1>4. Before(c) \in Nat
  <2>1. CASE Form({"page", "pages"})
    <3>1. Position(c) - 1 \in Nat
      BY <1>1, <2>1, FormsAre
    <3> QED
      BY <1>2, <1>3, <2>1, <3>1, ProductIsNat
  <2>2. CASE Form({"offset"})
    BY <1>1, <1>3, <2>2
  <2>3. CASE Form({"cursor", "url"})
    BY <1>1, <1>3, <2>3, FormsAre
  <2> QED
    BY <2>1, <2>2, <2>3, FormsAre
<1> QED
  BY <1>1, <1>2, <1>3, <1>4

\* The page that an honest API returns.
LEMMA HonestIs ==
    ASSUME TraversalTypes, Named(cursor)
    PROVE  /\ Honest.count = IF Before(cursor) + Length <= total THEN Length
                             ELSE IF Before(cursor) <= total THEN total - Before(cursor) ELSE 0
           /\ Form({"pages"}) => Honest.next = (total + Size - 1) \div Size
           /\ Form({"cursor", "url"}) =>
                 Honest.next = IF Position(cursor) < total THEN Position(cursor) + 1 ELSE Unset
<1>1. Before(cursor) \in Nat /\ Length \in Nat \ {0} /\ total \in Nat
  BY PlaceOf DEF TraversalTypes
<1>2. Honest.count = Len(Items(cursor))
  BY DEF Honest
<1>3. PICK e \in Nat : e = Min({Before(cursor) + Length, total})
                       /\ e = IF Before(cursor) + Length <= total THEN Before(cursor) + Length ELSE total
  BY <1>1, MinOf
<1>4. Len(Items(cursor)) = IF Before(cursor) <= e THEN e - Before(cursor) ELSE 0
  BY <1>1, <1>3, SpanIs DEF Items
<1>5. Form({"pages"}) => Honest.next = (total + Size - 1) \div Size
  BY FormsAre DEF Honest, Form
<1>6. Form({"cursor", "url"}) =>
         Honest.next = IF Position(cursor) < total THEN Position(cursor) + 1 ELSE Unset
  BY FormsAre DEF Honest, Form
<1> QED
  BY <1>1, <1>2, <1>3, <1>4, <1>5, <1>6

\* As many pages as the API says hold all items.
LEMMA PagesHoldAll ==
    ASSUME NEW t \in Nat, NEW s \in Nat \ {0}, NEW c \in Nat, c >= (t + s - 1) \div s
    PROVE  c * s >= t
<1> DEFINE q == (t + s - 1) \div s
<1>1. q \in Nat /\ t + s - 1 < (q + 1) * s /\ c >= q
  OBVIOUS
<1>2. PICK d \in Nat : c = q + d
  <2> HIDE DEF q
  <2>1. c - q \in Nat /\ c = q + (c - q)
    BY <1>1
  <2> QED
    BY <2>1
<1> HIDE DEF q
<1>3. d * s \in Nat /\ q * s \in Nat /\ c * s = q * s + d * s /\ (q + 1) * s = q * s + s
  BY <1>1, <1>2, ProductIsNat
<1> QED
  BY <1>1, <1>3

\* A page that an iterator takes for the last one is the last one.
LEMMA FinalIsLast ==
    ASSUME TraversalTypes, Named(cursor), Counted => cursor # Unset, Final(Honest)
    PROVE  Before(cursor) + Length >= total
<1>1. /\ Before(cursor) \in Nat /\ Length \in Nat \ {0} /\ total \in Nat
      /\ Position(cursor) \in Nat /\ Size \in Nat \ {0}
  BY PlaceOf DEF TraversalTypes
<1>2. CASE Form({"page", "offset"})
  <2>1. Honest.count = 0 \/ Honest.count < Size
    <3>1. Honest.count = 0 \/ (limit # Unset /\ Honest.count < limit)
      BY <1>2, FormsAre DEF Final, Form
    <3> QED
      BY <3>1 DEF Size
  <2>2. Length = Size
    BY <1>2, PlaceOf, FormsAre
  <2> QED
    BY <1>1, <2>1, <2>2, HonestIs
<1>3. CASE Form({"pages"})
  <2>1. cursor \in Nat /\ cursor >= 1 /\ Position(cursor) = cursor
    BY <1>3, FormsAre, PlaceOf DEF Named
  <2>2. cursor + 1 > (total + Size - 1) \div Size
    BY <1>3, HonestIs, FormsAre DEF Final, Following, Form
  <2>3. (total + Size - 1) \div Size \in Int
    BY <1>1
  <2>4. cursor >= (total + Size - 1) \div Size
    BY <2>1, <2>2, <2>3
  <2>5. cursor * Size >= total
    BY <1>1, <2>1, <2>4, PagesHoldAll
  <2>6. Before(cursor) = (cursor - 1) * Size /\ Length = Size
    BY <1>3, <2>1, PlaceOf, FormsAre
  <2>7. (cursor - 1) * Size + Size = cursor * Size
    BY <1>1, <2>1
  <2> QED
    BY <2>5, <2>6, <2>7
<1>4. CASE Form({"cursor", "url"})
  <2>1. Honest.next = Unset
    BY <1>4, FormsAre DEF Final, Form
  <2>2. Position(cursor) >= total
    BY <1>1, <1>4, <2>1, HonestIs, PagerAssumption
  <2> QED
    BY <1>1, <1>4, <2>2, PlaceOf
<1> QED
  BY <1>2, <1>3, <1>4, FormsAre


\* After any other page, the next request asks for what follows it.
LEMMA NextFollows ==
    ASSUME TraversalTypes, Named(cursor), Counted => cursor # Unset, ~Final(Honest),
           NEW c, c = Following(Honest)
    PROVE  /\ Named(c) /\ Before(cursor) <= Before(c)
           /\ Min({Before(c), total}) = Min({Before(cursor) + Length, total})
           /\ Form({"cursor", "url"}) => c = Position(cursor) + 1
           /\ Counted => c <= Position(cursor) + Length /\ c # Unset
<1>1. /\ Before(cursor) \in Nat /\ Length \in Nat \ {0} /\ total \in Nat
      /\ Position(cursor) \in Nat /\ Size \in Nat \ {0}
  BY PlaceOf DEF TraversalTypes
<1>2. CASE Form({"page", "pages"})
  <2>1. cursor \in Nat \ {0} /\ Position(cursor) = cursor /\ c = cursor + 1
    BY <1>2, FormsAre, PlaceOf DEF Named, Following, Form
  <2>2. Named(c) /\ c # Unset
    BY <2>1, PagerAssumption DEF Named
  <2>3. Position(c) = c /\ Before(c) = (c - 1) * Size
    BY <1>2, <2>2, PlaceOf
  <2>4. Before(cursor) = (cursor - 1) * Size /\ Length = Size
    BY <1>2, <2>1, PlaceOf, FormsAre
  <2>5. (c - 1) * Size = (cursor - 1) * Size + Size
    BY <1>1, <2>1
  <2>6. Before(c) = Before(cursor) + Length
    BY <2>3, <2>4, <2>5
  <2>7. Before(cursor) <= Before(c) /\ c <= Position(cursor) + Length
    BY <1>1, <2>1, <2>6
  <2> QED
    BY <1>2, <2>2, <2>6, <2>7, FormsAre
<1>3. CASE Form({"offset"})
  <2>1. cursor \in Nat /\ Position(cursor) = cursor /\ c = cursor + Honest.count
    BY <1>3, FormsAre, PlaceOf DEF Named, Following, Form
  <2>2. Honest.count # 0
    BY <1>3, FormsAre DEF Final, Form
  <2>3. Before(cursor) = cursor
    BY <1>3, <2>1, PlaceOf
  <2>4. Honest.count = IF cursor + Length <= total THEN Length
                       ELSE IF cursor <= total THEN total - cursor ELSE 0
    BY <2>3, HonestIs
  <2>5. Honest.count \in Nat /\ Honest.count <= Length
    BY <1>1, <2>1, <2>4
  <2>6. Named(c) /\ c # Unset
    BY <1>3, <2>1, <2>5, PagerAssumption DEF Named
  <2>7. Before(c) = c
    BY <1>3, <2>6, PlaceOf
  <2>8. Min({c, total}) = Min({cursor + Length, total})
    <3>1. Min({c, total}) = IF c <= total THEN c ELSE total
      BY <1>1, <2>1, <2>5, MinOf
    <3>2. Min({cursor + Length, total}) =
             IF cursor + Length <= total THEN cursor + Length ELSE total
      BY <1>1, <2>1, MinOf
    <3> QED
      BY <1>1, <2>1, <2>2, <2>4, <3>1, <3>2
  <2> QED
    BY <1>1, <1>3, <2>1, <2>3, <2>5, <2>6, <2>7, <2>8, FormsAre
<1>4. CASE Form({"cursor", "url"})
  <2>1. Honest.next # Unset /\ c = Honest.next
    BY <1>4, FormsAre DEF Final, Following, Form
  <2>2. c = Position(cursor) + 1
    BY <1>4, <2>1, HonestIs
  <2>3. Named(c) /\ c # Unset
    BY <1>1, <2>2, PagerAssumption DEF Named
  <2>4. Before(c) = c - 1 /\ Before(cursor) = Position(cursor) - 1 /\ Length = 1
    BY <1>4, <2>3, PlaceOf
  <2>5. Before(c) = Before(cursor) + Length
    BY <1>1, <2>2, <2>4
  <2> QED
    BY <1>1, <1>4, <2>2, <2>3, <2>5, FormsAre
<1> QED
  BY <1>2, <1>3, <1>4, FormsAre

\* The consumer of an honest API has had the items before the next page, until
\* the iterator has come to an end, and then all of them.
Delivered ==
    /\ TraversalTypes
    /\ AskedTypes
    /\ honest =>
          /\ Named(cursor)
          /\ Counted /\ cursor = Unset =>
                Language({"typescript"}) /\ Form({"offset"}) /\ from = Unset
          /\ Before(from) <= Before(cursor)
          /\ mode = "more" => got = Span(Before(from), Min({Before(cursor), total}))
          /\ IsPrefix(got, Rest(from))
          /\ mode = "done" \/ heard = "end" => EndsEarly \/ got = Rest(from)
          /\ Form({"cursor"}) =>
                \A i \in DOMAIN asked :
                    asked[i] = Unset \/ (asked[i] \in Nat /\ asked[i] <= Position(cursor))


LEMMA ContractStays ==
    ASSUME UNCHANGED contract
    PROVE  /\ TraversalTypes => TraversalTypes'
           /\ honest' = honest /\ from' = from /\ total' = total /\ Length' = Length
           /\ \A S : Form(S)' = Form(S) /\ Language(S)' = Language(S)
           /\ Counted' = Counted
           /\ \A c : /\ Named(c)' = Named(c) /\ Position(c)' = Position(c)
                     /\ Before(c)' = Before(c)
           /\ Rest(from)' = Rest(from)
<1> USE DEF contract
<1>1. \A S : Form(S)' = Form(S) /\ Language(S)' = Language(S)
  BY DEF Form, Language
<1>2. Counted' = Counted /\ Size' = Size /\ Length' = Length
  BY DEF Counted, Form, Length, Size
<1>3. \A c : Named(c)' = Named(c) /\ Position(c)' = Position(c)
  BY DEF Named, Position, Default, Form
<1>4. \A c : Before(c)' = Before(c)
  BY DEF Before, Position, Default, Form, Size
<1>5. Rest(from)' = Rest(from)
  BY <1>4 DEF Rest, Span
<1>6. TraversalTypes => TraversalTypes'
  BY DEF TraversalTypes
<1> QED
  BY <1>1, <1>2, <1>3, <1>4, <1>5, <1>6

\* What a page leaves to an iterator that ends, reports an error, or goes on.
Turns ==
    \/ /\ mode' = "done" /\ cursor' = cursor
       /\ EndsEarly' \/ (Final(Honest) /\ (Counted => cursor # Unset))
    \/ mode' = "error" /\ cursor' = cursor
    \/ /\ mode' = "more" /\ cursor' = Following(Honest)
       /\ ~Final(Honest) /\ (Counted => cursor # Unset)

LEMMA YieldKeeps ==
    ASSUME Delivered, honest, Yields, Turns
    PROVE  Delivered'
<1>1. /\ mode = "more" /\ UNCHANGED contract /\ asked' = Append(asked, cursor)
      /\ got' = got \o Items(cursor) /\ heard' = "page" /\ pages' = pages + 1
  BY DEF Yields, Calls
<1> DEFINE here == Before(cursor)
           start == Before(from)
           beyond == Before(cursor) + Length
<1>2. /\ TraversalTypes /\ Named(cursor) /\ Named(from)
      /\ here \in Nat /\ start \in Nat /\ beyond \in Nat /\ here <= beyond /\ start <= here /\ total \in Nat
      /\ Position(cursor) \in Nat
  <2>1. TraversalTypes /\ Named(cursor) /\ start <= here
    BY DEF Delivered
  <2>2. Named(from) /\ total \in Nat
    BY <2>1, PagerAssumption DEF TraversalTypes, Named
  <2>3. here \in Nat /\ start \in Nat /\ Length \in Nat /\ Position(cursor) \in Nat
    BY <2>1, <2>2, PlaceOf
  <2> QED
    BY <2>1, <2>2, <2>3
<1>3. got' = Span(start, Min({beyond, total}))
  <2>1. got = Span(start, Min({here, total})) /\ Items(cursor) = Span(here, Min({beyond, total}))
    BY <1>1 DEF Delivered, Items
  <2> HIDE DEF here, start, beyond
  <2>2. PICK m \in Nat : m = Min({here, total}) /\ m = IF here <= total THEN here ELSE total
    BY <1>2, MinOf
  <2>3. PICK n \in Nat : n = Min({beyond, total})
                         /\ n = IF beyond <= total THEN beyond ELSE total
    BY <1>2, MinOf
  <2>4. PICK c, d \in Nat : c = start /\ d = here /\ c <= d
    BY <1>2
  <2>5. PICK u, v : u = Span(c, m) /\ v = Span(d, n)
    OBVIOUS
  <2>6. u \in Seq(Nat) /\ v \in Seq(Nat) /\ (n < d => Len(v) = 0)
    <3>1. Span(c, m) \in Seq(Nat)
      BY SpanIs
    <3>2. Span(d, n) \in Seq(Nat) /\ Len(Span(d, n)) = IF d <= n THEN n - d ELSE 0
      BY SpanIs
    <3> QED
      BY <2>5, <3>1, <3>2
  <2>7. u \o v = Span(c, n)
    <3>1. CASE m = d /\ d <= n
      <4>1. c <= d /\ d <= n
        BY <2>4, <3>1
      <4>2. \A x, y \in Seq(Nat) : x = Span(c, d) /\ y = Span(d, n) => x \o y = Span(c, n)
        BY <4>1, SpansMeet, ZenonT(30)
      <4>3. u = Span(c, d)
        BY ONLY <2>5, <3>1, Zenon
      <4> QED
        BY <2>5, <2>6, <4>2, <4>3, Zenon
    <3>2. CASE m = n /\ n < d
      BY <2>5, <2>6, <3>2
    <3>3. (m = d /\ d <= n) \/ (m = n /\ n < d)
      BY <1>2, <2>2, <2>3, <2>4
    <3> QED
      BY <3>1, <3>2, <3>3, Zenon
  <2> QED
    BY <1>1, <2>1, <2>2, <2>3, <2>4, <2>5, <2>7
<1>4. IsPrefix(got', Rest(from))
  <2>1. PICK n \in Nat : n = Min({beyond, total}) /\ n <= total
    BY <1>2, MinOf
  <2>2. Rest(from) = Span(start, total)
    BY DEF Rest
  <2> HIDE DEF here, start, beyond
  <2> QED
    BY <1>2, <1>3, <2>1, <2>2, SpanIsPrefix
<1>5. AskedTypes'
  BY <1>1, AskedGrows DEF Delivered, AskedTypes
<1>6. \A i \in DOMAIN asked' : asked'[i] = cursor \/ (i \in DOMAIN asked /\ asked'[i] = asked[i])
  BY <1>1, AskedGrows DEF Delivered
<1>7. Form({"cursor"}) => \A i \in DOMAIN asked' :
          asked'[i] = Unset \/ (asked'[i] \in Nat /\ asked'[i] <= Position(cursor))
  <2>1. cursor # Unset => cursor = Position(cursor)
    BY <1>2, PlaceOf
  <2>2. Form({"cursor"}) => \A i \in DOMAIN asked :
            asked[i] = Unset \/ (asked[i] \in Nat /\ asked[i] <= Position(cursor))
    BY DEF Delivered
  <2> QED
    BY <1>2, <1>6, <2>1, <2>2
<1>8. CASE mode' # "more"
  <2>1. cursor' = cursor
    BY <1>8 DEF Turns
  <2>2. mode' = "done" => EndsEarly' \/ got' = Rest(from)
    <3>1. SUFFICES ASSUME mode' = "done", ~EndsEarly' PROVE got' = Rest(from)
      OBVIOUS
    <3>2. beyond >= total
      BY <1>2, <3>1, FinalIsLast DEF Turns
    <3>3. Min({beyond, total}) = total
      BY <1>2, <3>2, MinOf
    <3> QED
      BY <1>3, <3>3 DEF Rest
  <2>3. /\ Named(cursor)' /\ Before(from)' = start /\ Before(cursor)' = here
        /\ Position(cursor)' = Position(cursor)
    BY <1>1, <1>2, <2>1, ContractStays
  <2>4. /\ honest' /\ Counted' = Counted /\ Rest(from)' = Rest(from) /\ TraversalTypes'
        /\ \A S : Form(S)' = Form(S) /\ Language(S)' = Language(S)
        /\ from' = from
    BY <1>1, <1>2, ContractStays
  <2>5. Counted /\ cursor = Unset =>
           Language({"typescript"}) /\ Form({"offset"}) /\ from = Unset
    BY DEF Delivered
  <2> HIDE DEF here, start, beyond
  <2> QED
    BY <1>1, <1>2, <1>4, <1>5, <1>7, <1>8, <2>1, <2>2, <2>3, <2>4, <2>5 DEF Delivered
<1>9. CASE mode' = "more"
  <2>1. PICK c : c = cursor'
    OBVIOUS
  <2>2. c = Following(Honest) /\ ~Final(Honest) /\ (Counted => cursor # Unset)
    BY <1>9, <2>1 DEF Turns
  <2>3. /\ Named(c) /\ here <= Before(c) /\ Before(c) \in Nat
        /\ Min({Before(c), total}) = Min({beyond, total})
        /\ Form({"cursor", "url"}) => c = Position(cursor) + 1
        /\ Counted => c # Unset
    BY <1>2, <2>2, NextFollows, PlaceOf
  <2>4. /\ Named(cursor)' = Named(c) /\ Before(from)' = start /\ Before(cursor)' = Before(c)
        /\ Position(cursor)' = Position(c)
    BY <1>1, <2>1, ContractStays
  <2>5. Form({"cursor"}) => Position(cursor) <= Position(c)
    BY <1>2, <2>3, PlaceOf, PagerAssumption DEF Form
  <2>6. Form({"cursor"}) => \A i \in DOMAIN asked' :
            asked'[i] = Unset \/ (asked'[i] \in Nat /\ asked'[i] <= Position(c))
    BY <1>2, <1>7, <2>3, <2>5, PlaceOf
  <2>7. got' = Span(start, Min({Before(c), total}))
    BY <1>3, <2>3
  <2> QED
    <3> HIDE DEF here, start, beyond
    <3>1. start <= Before(c)
      BY <1>2, <2>3
    <3>2. honest' /\ total' = total /\ (Counted' => cursor' # Unset) /\ Rest(from)' = Rest(from)
      BY <1>1, <2>1, <2>3, ContractStays
    <3>3. Form({"cursor"})' = Form({"cursor"}) /\ TraversalTypes'
      BY <1>1, <1>2, ContractStays
    <3> QED
      BY <1>1, <1>4, <1>5, <1>9, <2>3, <2>4, <2>6, <2>7, <3>1, <3>2, <3>3 DEF Delivered
<1> QED
  BY <1>8, <1>9


\* A number past the last one is announced as an early end.
LEMMA BeyondIsEarly ==
    ASSUME Delivered, honest, UNCHANGED contract, cursor' = cursor, cursor # Unset,
           ~Final(Honest), Beyond(Honest), Language({"typescript", "rust", "java", "csharp"})
    PROVE  EndsEarly'
<1>1. Counted /\ TraversalTypes /\ Named(cursor)
  BY DEF Delivered, Beyond
<1>2. PICK c : c = Following(Honest)
  OBVIOUS
<1>3. c > MaxPage
  BY <1>2 DEF Beyond
<1>4. c <= Position(cursor) + Length /\ Named(c) /\ c # Unset
  BY <1>1, <1>2, NextFollows
<1>5. Position(cursor) + Length > MaxPage
  <2>1. c \in Nat /\ Position(cursor) \in Nat /\ Length \in Nat
    BY <1>1, <1>4, PlaceOf DEF Named
  <2> QED
    BY <1>3, <1>4, <2>1, PagerAssumption
<1>6. /\ Position(cursor)' = Position(cursor) /\ Length' = Length /\ Counted' = Counted
      /\ Language({"typescript", "rust", "java", "csharp"})'
        = Language({"typescript", "rust", "java", "csharp"})
  BY ContractStays
<1>7. Counted' /\ Language({"typescript", "rust", "java", "csharp"})' /\ Position(cursor)' + Length' > MaxPage
  BY <1>1, <1>5, <1>6
<1> QED
  BY <1>7 DEF EndsEarly

\* A continuation of an honest API lies after all that was asked for.
LEMMA NextIsNew ==
    ASSUME Delivered, honest, ~Final(Honest), ~Counted
    PROVE  /\ Honest.next # cursor
           /\ Form({"cursor"}) => ~Contains(Append(asked, cursor), Honest.next)
<1>1. TraversalTypes /\ Named(cursor) /\ Form({"cursor", "url"}) /\ Position(cursor) \in Nat
  BY PlaceOf, FormsAre DEF Delivered
<1>2. Following(Honest) = Honest.next
  BY <1>1, FormsAre DEF Following, Form, Counted
<1>3. PICK c : c = Following(Honest)
  OBVIOUS
<1>4. c = Position(cursor) + 1
  BY <1>1, <1>3, NextFollows
<1>5. cursor = Unset \/ cursor = Position(cursor)
  BY <1>1, PlaceOf
<1>6. c # cursor
  BY <1>1, <1>4, <1>5, PagerAssumption
<1>7. ASSUME Form({"cursor"}) PROVE ~Contains(Append(asked, cursor), c)
  <2>1. \A i \in DOMAIN asked : asked[i] # c
    <3>1. \A i \in DOMAIN asked :
             asked[i] = Unset \/ (asked[i] \in Nat /\ asked[i] <= Position(cursor))
      BY <1>7 DEF Delivered
    <3> QED
      BY <1>1, <1>4, <3>1, PagerAssumption
  <2>2. \A i \in 1..Len(Append(asked, cursor)) : Append(asked, cursor)[i] # c
    BY <1>6, <2>1 DEF Delivered, AskedTypes
  <2> QED
    BY <2>2 DEF Contains
<1> QED
  BY <1>2, <1>3, <1>6, <1>7

LEMMA OnlyTypeScriptOmits ==
    ASSUME Delivered, honest, Counted, cursor = Unset
    PROVE  Language({"typescript"}) /\ Form({"offset"}) /\ from = Unset
BY DEF Delivered

\* What each iterator makes of a page of an honest API.
LEMMA PageTurns ==
    ASSUME Delivered, honest, Yields, After(Honest)
    PROVE  Turns
<1>1. /\ UNCHANGED contract /\ asked' = Append(asked, cursor) /\ pages' = pages + 1
      /\ TraversalTypes
  BY DEF Yields, Calls, Delivered
<1>2. \A S : Language(S)' = Language(S) /\ Form(S)' = Form(S)
  BY <1>1, ContractStays
<1>3. CASE Language({"go"})
  <2>1. GoAfter(Honest)
    BY <1>3 DEF After, Language
  <2>2. Counted => cursor # Unset
    BY <1>3, OnlyTypeScriptOmits DEF Language
  <2> QED
    BY <2>1, <2>2 DEF GoAfter, Stops, Breaks, Moves, Turns
<1>4. CASE Language({"python", "ruby", "elixir"})
  <2>1. PythonAfter(Honest)
    BY <1>4 DEF After, Language
  <2>2. Counted => cursor # Unset
    BY <1>4, OnlyTypeScriptOmits DEF Language
  <2> QED
    BY <2>1, <2>2 DEF PythonAfter, Stops, Moves, Turns
<1>5. CASE Language({"php"})
  <2>1. PhpAfter(Honest)
    BY <1>5 DEF After, Language
  <2>2. Counted => cursor # Unset
    BY <1>5, OnlyTypeScriptOmits DEF Language
  <2> QED
    BY <2>1, <2>2 DEF PhpAfter, Stops, Breaks, Moves, Turns
<1>6. CASE Language({"rust"})
  <2>1. RustAfter(Honest)
    BY <1>6 DEF After, Language
  <2>2. Counted => cursor # Unset
    BY <1>6, OnlyTypeScriptOmits DEF Language
  <2>3. Language({"typescript", "rust", "java", "csharp"})
    BY <1>6 DEF Language
  <2>4. CASE Final(Honest) \/ ~Beyond(Honest)
    BY <2>1, <2>2, <2>4 DEF RustAfter, Stops, Moves, Turns
  <2>5. CASE ~Final(Honest) /\ Beyond(Honest)
    <3>1. mode' = "done" /\ cursor' = cursor
      BY <2>1, <2>5 DEF RustAfter, Stops
    <3>2. EndsEarly'
      BY <1>1, <2>2, <2>3, <2>5, <3>1, BeyondIsEarly DEF Beyond
    <3> QED
      BY <3>1, <3>2 DEF Turns
  <2> QED
    BY <2>4, <2>5
<1>7. CASE Language({"typescript"})
  <2>1. TypeScriptAfter(Honest)
    BY <1>7 DEF After, Language
  <2>2. CASE Counted /\ cursor = Unset
    <3>1. mode' = "done" /\ cursor' = cursor
      BY <2>1, <2>2 DEF TypeScriptAfter, Stops
    <3>2. Language({"typescript"}) /\ Form({"offset"}) /\ from = Unset
      BY <2>2, OnlyTypeScriptOmits
    <3>3. Language({"typescript"})' /\ Form({"offset"})' /\ from' = Unset
      BY <1>1, <1>2, <3>2 DEF contract
    <3> QED
      BY <3>1, <3>3 DEF Turns, EndsEarly
  <2>3. CASE (Counted => cursor # Unset) /\ (Final(Honest) \/ ~Beyond(Honest))
    BY <2>1, <2>3 DEF TypeScriptAfter, Stops, Moves, Turns
  <2>4. CASE (Counted => cursor # Unset) /\ ~Final(Honest) /\ Beyond(Honest)
    <3>1. mode' = "done" /\ cursor' = cursor
      BY <2>1, <2>4 DEF TypeScriptAfter, Stops
    <3>2. Language({"typescript", "rust", "java", "csharp"})
      BY <1>7 DEF Language
    <3>3. EndsEarly'
      BY <1>1, <2>4, <3>1, <3>2, BeyondIsEarly DEF Beyond
    <3> QED
      BY <3>1, <3>3 DEF Turns
  <2> QED
    BY <2>2, <2>3, <2>4
<1>8. CASE Language({"java"})
  <2>1. JavaAfter(Honest)
    BY <1>8 DEF After, Language
  <2>2. Counted => cursor # Unset
    BY <1>8, OnlyTypeScriptOmits DEF Language
  <2>3. Language({"typescript", "rust", "java", "csharp"})
    BY <1>8 DEF Language
  <2>4. CASE Final(Honest)
    BY <2>1, <2>2, <2>4 DEF JavaAfter, Stops, Turns
  <2>5. CASE JavaFull
    <3>1. mode' = "done" /\ cursor' = cursor
      BY <2>1, <2>5 DEF JavaAfter, Stops
    <3>2. Len(asked') = Len(asked) + 1
      BY <1>1 DEF Delivered, AskedTypes
    <3>3. Len(asked') >= PageCap
      BY <2>5, <3>2 DEF JavaFull
    <3>4. Language({"java"})'
      BY <1>2, <1>8
    <3> QED
      BY <3>1, <3>3, <3>4 DEF Turns, EndsEarly
  <2>6. CASE ~Final(Honest) /\ Beyond(Honest)
    <3>1. mode' = "done" /\ cursor' = cursor
      BY <2>1, <2>6 DEF JavaAfter, Stops
    <3>2. EndsEarly'
      BY <1>1, <2>2, <2>3, <2>6, <3>1, BeyondIsEarly DEF Beyond
    <3> QED
      BY <3>1, <3>2 DEF Turns
  <2>7. CASE ~Final(Honest) /\ ~Beyond(Honest) /\ ~JavaFull
    <3>1. ~Same(Honest)
      BY <2>7, NextIsNew DEF Same
    <3> QED
      BY <2>1, <2>2, <2>7, <3>1 DEF JavaAfter, Moves, Turns
  <2> QED
    BY <2>4, <2>5, <2>6, <2>7
<1>9. CASE Language({"csharp"})
  <2>1. CSharpAfter(Honest)
    BY <1>9 DEF After, Language
  <2>2. Counted => cursor # Unset
    BY <1>9, OnlyTypeScriptOmits DEF Language
  <2>3. Language({"typescript", "rust", "java", "csharp"})
    BY <1>9 DEF Language
  <2>4. CASE Final(Honest)
    BY <2>1, <2>2, <2>4 DEF CSharpAfter, Stops, Turns
  <2>5. CASE ~Form({"url"}) /\ pages + 1 = PageCap
    <3>1. mode' = "done" /\ cursor' = cursor
      BY <2>1, <2>5 DEF CSharpAfter, Stops
    <3>2. Language({"csharp"})' /\ pages' = PageCap
      BY <1>1, <1>2, <1>9, <2>5
    <3> QED
      BY <3>1, <3>2 DEF Turns, EndsEarly
  <2>6. CASE ~Final(Honest) /\ Beyond(Honest)
    <3>1. mode' = "done" /\ cursor' = cursor
      BY <2>1, <2>6 DEF CSharpAfter, Stops
    <3>2. EndsEarly'
      BY <1>1, <2>2, <2>3, <2>6, <3>1, BeyondIsEarly DEF Beyond
    <3> QED
      BY <3>1, <3>2 DEF Turns
  <2>7. CASE ~Final(Honest) /\ ~Beyond(Honest) /\ ~(~Form({"url"}) /\ pages + 1 = PageCap)
    <3>1. ~Same(Honest)
      BY <2>7, NextIsNew DEF Same
    <3> QED
      BY <2>1, <2>2, <2>7, <3>1 DEF CSharpAfter, Moves, Turns
  <2> QED
    BY <2>4, <2>5, <2>6, <2>7
<1>10. CASE Language({"swift"})
  <2>1. SwiftAfter(Honest)
    BY <1>10 DEF After, Language
  <2>2. Counted => cursor # Unset
    BY <1>10, OnlyTypeScriptOmits DEF Language
  <2>3. CASE Final(Honest)
    BY <2>1, <2>2, <2>3 DEF SwiftAfter, Stops, Turns
  <2>4. CASE ~Final(Honest)
    <3>1. ~(Form({"cursor"}) /\ Contains(Append(asked, cursor), Honest.next))
      BY <1>1, <2>4, NextIsNew, FormsAre DEF Form, Counted
    <3> QED
      BY <2>1, <2>2, <2>4, <3>1 DEF SwiftAfter, Breaks, Moves, Turns
  <2> QED
    BY <2>3, <2>4
<1> QED
  BY <1>1, <1>3, <1>4, <1>5, <1>6, <1>7, <1>8, <1>9, <1>10 DEF TraversalTypes, Offered, Language


\* A step that yields nothing, with what it must not make up.
LEMMA NothingYielded ==
    ASSUME Delivered, UNCHANGED <<contract, cursor, got>>, AskedTypes',
           asked' = asked \/ asked' = Append(asked, cursor),
           mode' = "more" => mode = "more",
           honest /\ (mode' = "done" \/ heard' = "end") => EndsEarly' \/ got = Rest(from)
    PROVE  Delivered'
<1>1. TraversalTypes' /\ honest' = honest
  BY ContractStays DEF Delivered
<1>2. ASSUME honest
      PROVE  /\ Named(cursor)'
             /\ (Counted /\ cursor = Unset =>
                    Language({"typescript"}) /\ Form({"offset"}) /\ from = Unset)'
             /\ (Before(from) <= Before(cursor))'
             /\ (mode = "more" => got = Span(Before(from), Min({Before(cursor), total})))'
             /\ IsPrefix(got, Rest(from))'
             /\ (mode = "done" \/ heard = "end" => EndsEarly \/ got = Rest(from))'
             /\ (Form({"cursor"}) =>
                    \A i \in DOMAIN asked :
                        asked[i] = Unset \/ (asked[i] \in Nat /\ asked[i] <= Position(cursor)))'
  <2>1. /\ Named(cursor)' = Named(cursor) /\ Position(cursor)' = Position(cursor)
        /\ Before(cursor)' = Before(cursor) /\ Before(from)' = Before(from)
        /\ Rest(from)' = Rest(from) /\ Counted' = Counted /\ from' = from /\ total' = total
        /\ \A S : Form(S)' = Form(S) /\ Language(S)' = Language(S)
    BY ContractStays
  <2>2. UNCHANGED <<cursor, got>>
    OBVIOUS
  <2>3. /\ Named(cursor)
        /\ Counted /\ cursor = Unset =>
              Language({"typescript"}) /\ Form({"offset"}) /\ from = Unset
        /\ Before(from) <= Before(cursor)
        /\ mode = "more" => got = Span(Before(from), Min({Before(cursor), total}))
        /\ IsPrefix(got, Rest(from))
        /\ Form({"cursor"}) =>
              \A i \in DOMAIN asked :
                  asked[i] = Unset \/ (asked[i] \in Nat /\ asked[i] <= Position(cursor))
    BY <1>2 DEF Delivered
  <2>4. Form({"cursor"}) => \A i \in DOMAIN asked' :
            asked'[i] = Unset \/ (asked'[i] \in Nat /\ asked'[i] <= Position(cursor))
    <3>1. cursor = Unset \/ (cursor \in Nat /\ cursor <= Position(cursor))
      BY <2>3, PlaceOf DEF Delivered, Named
    <3>2. CASE asked' = asked
      BY <2>3, <3>2
    <3>3. CASE asked' = Append(asked, cursor)
      <4>1. \A i \in DOMAIN asked' :
               asked'[i] = cursor \/ (i \in DOMAIN asked /\ asked'[i] = asked[i])
        BY <3>3, AskedGrows DEF Delivered
      <4> QED
        BY <2>3, <3>1, <4>1
    <3> QED
      BY <3>2, <3>3
  <2>5. (mode = "more" => got = Span(Before(from), Min({Before(cursor), total})))'
    BY <2>1, <2>2, <2>3
  <2>6. (mode = "done" \/ heard = "end" => EndsEarly \/ got = Rest(from))'
    BY <1>2, <2>1, <2>2
  <2>7. IsPrefix(got, Rest(from))'
    BY <2>1, <2>2, <2>3
  <2>8. (Before(from) <= Before(cursor))' /\ Named(cursor)'
    BY <2>1, <2>3
  <2>9. (Counted /\ cursor = Unset =>
             Language({"typescript"}) /\ Form({"offset"}) /\ from = Unset)'
    BY <2>1, <2>2, <2>3
  <2>10. (Form({"cursor"}) =>
             \A i \in DOMAIN asked :
                 asked[i] = Unset \/ (asked[i] \in Nat /\ asked[i] <= Position(cursor)))'
    BY <2>1, <2>4
  <2> QED
    BY <2>5, <2>6, <2>7, <2>8, <2>9, <2>10
<1> QED
  BY <1>1, <1>2 DEF Delivered

\* Java's last call may fail: then its cap is reached.
LEMMA MissKeeps ==
    ASSUME Delivered, NEW then \in {"more", "over", "done"}, Misses(then),
           then = "done" => Language({"java"}) /\ JavaFull
    PROVE  Delivered'
<1>1. /\ UNCHANGED <<contract, cursor, got, pages>> /\ asked' = Append(asked, cursor)
      /\ mode = "more" /\ mode' = then /\ heard' = "error"
  BY DEF Misses, Calls
<1>2. AskedTypes' /\ Len(asked') = Len(asked) + 1
  BY <1>1, AskedGrows DEF Delivered, AskedTypes
<1>3. then = "done" => EndsEarly'
  <2>1. SUFFICES ASSUME then = "done" PROVE EndsEarly'
    OBVIOUS
  <2>2. Len(asked') >= PageCap
    BY <1>2, <2>1 DEF JavaFull
  <2>3. Language({"java"})'
    BY <1>1, <2>1, ContractStays
  <2> QED
    BY <2>2, <2>3 DEF EndsEarly
<1> QED
  BY <1>1, <1>2, <1>3, NothingYielded

LEMMA RefuseKeeps ==
    ASSUME Delivered, Refuses
    PROVE  Delivered'
<1>1. /\ UNCHANGED <<contract, cursor, got, pages, asked>>
      /\ mode' = "over" /\ heard' = "error"
  BY DEF Refuses
<1>2. AskedTypes'
  BY <1>1 DEF Delivered, AskedTypes
<1> QED
  BY <1>1, <1>2, NothingYielded

LEMMA EndsEarlyStays ==
    ASSUME UNCHANGED <<contract, cursor, asked, pages>>
    PROVE  EndsEarly' = EndsEarly
BY ContractStays DEF EndsEarly

LEMMA FinishKeeps ==
    ASSUME Delivered, Finishes \/ UNCHANGED pagerVars
    PROVE  Delivered'
<1>1. /\ UNCHANGED <<contract, cursor, got, pages, asked>> /\ (mode' = "more" => mode = "more")
      /\ mode' = "done" \/ heard' = "end" => mode = "done" \/ heard = "end"
  BY DEF Finishes, pagerVars
<1>2. AskedTypes'
  BY <1>1 DEF Delivered, AskedTypes
<1>3. EndsEarly' = EndsEarly
  BY <1>1, EndsEarlyStays
<1>4. honest /\ (mode' = "done" \/ heard' = "end") => EndsEarly' \/ got = Rest(from)
  BY <1>1, <1>3 DEF Delivered
<1> QED
  BY <1>1, <1>2, <1>4, NothingYielded

LEMMA AskKeeps ==
    ASSUME Delivered, NEW refused \in BOOLEAN, NEW then \in {"more", "over", "done"},
           Asks(refused, then), then = "done" => Language({"java"}) /\ JavaFull
    PROVE  Delivered'
<1>1. CASE Refuses
  BY <1>1, RefuseKeeps
<1>2. CASE Misses(then)
  BY <1>2, MissKeeps
<1>3. CASE Yields /\ \E a \in Replies : After(a)
  <2>1. CASE honest
    <3>1. After(Honest)
      BY <1>3, <2>1 DEF Replies
    <3> QED
      BY <1>3, <2>1, <3>1, PageTurns, YieldKeeps
  <2>2. CASE ~honest
    <3>1. UNCHANGED contract /\ asked' = Append(asked, cursor) /\ pages' = pages + 1
      BY <1>3 DEF Yields, Calls
    <3>2. TraversalTypes' /\ ~honest'
      BY <2>2, <3>1, ContractStays DEF Delivered
    <3>3. AskedTypes'
      BY <3>1, AskedGrows DEF Delivered, AskedTypes
    <3> QED
      BY <3>2, <3>3 DEF Delivered
  <2> QED
    BY <2>1, <2>2
<1> QED
  BY <1>1, <1>2, <1>3 DEF Asks

LEMMA TraversalStarts == PagerInit => Delivered
<1> SUFFICES ASSUME PagerInit PROVE Delivered
  OBVIOUS
<1>1. TraversalTypes /\ AskedTypes
  <2>1. Default \in Nat
    BY DEF Default
  <2> QED
    BY <2>1, PagerAssumption DEF PagerInit, TraversalTypes, AskedTypes
<1>2. asked = <<>> /\ got = <<>> /\ mode = "more" /\ heard = "nothing"
  BY DEF PagerInit
<1>3. Named(cursor) /\ Named(from) /\ Position(cursor) = Position(from)
  <2>1. Default \in Nat /\ (Default = 0 <=> Form({"offset"}))
    BY DEF Default
  <2>2. from = Unset \/ from = Default + 1
    BY DEF PagerInit
  <2>3. cursor = from \/ (from = Unset /\ cursor = Default)
    BY DEF PagerInit
  <2> QED
    BY <2>1, <2>2, <2>3, PagerAssumption DEF Named, Position
<1>4. Before(cursor) = Before(from) /\ Before(from) \in Nat
  <2>1. Before(from) \in Nat
    BY <1>1, <1>3, PlaceOf
  <2> QED
    BY <1>3, <2>1 DEF Before
<1>5. Counted /\ cursor = Unset => Language({"typescript"}) /\ Form({"offset"}) /\ from = Unset
  <2>1. Default \in Nat
    BY DEF Default
  <2> QED
    BY <2>1, PagerAssumption DEF PagerInit, Language, Form
<1>6. <<>> = Span(Before(from), Min({Before(from), total}))
  <2>1. PICK b \in Nat : b = Before(from)
    BY <1>4
  <2>2. total \in Nat
    BY <1>1 DEF TraversalTypes
  <2>3. PICK m \in Nat : m = Min({b, total}) /\ m <= b
    BY <2>2, MinOf
  <2>4. Span(b, m) \in Seq(Nat) /\ Len(Span(b, m)) = 0
    <3>1. /\ Span(b, m) \in Seq(Nat)
          /\ Len(Span(b, m)) = IF b <= m THEN m - b ELSE 0
      BY SpanIs
    <3> QED
      BY <2>3, <3>1
  <2>5. Span(b, m) = <<>>
    BY <2>4
  <2> QED
    BY <2>1, <2>3, <2>5
<1>7. IsPrefix(<<>>, Rest(from))
  <2>1. PICK b \in Nat : b = Before(from)
    BY <1>4
  <2>2. PICK r \in Seq(Nat) : r = Rest(from)
    BY <1>1, <2>1, SpanIs DEF Rest, TraversalTypes
  <2> QED
    BY <2>2 DEF IsPrefix
<1>8. Before(from) <= Before(cursor)
  BY <1>4
<1>9. \A i \in DOMAIN asked : FALSE
  BY <1>2
<1>10. mode = "more" => got = Span(Before(from), Min({Before(cursor), total}))
  BY <1>2, <1>4, <1>6
<1> QED
  BY <1>1, <1>2, <1>3, <1>5, <1>7, <1>8, <1>9, <1>10 DEF Delivered

\* Whatever calls fail, the consumer of an honest API has had the items before
\* the one that is asked for next, and nothing else.
THEOREM TraversalInvariant == PagerSpec => []Delivered
<1>1. Delivered /\ [PagerNext]_pagerVars => Delivered'
  <2> SUFFICES ASSUME Delivered, [PagerNext]_pagerVars PROVE Delivered'
    OBVIOUS
  <2>1. CASE Finishes \/ UNCHANGED pagerVars
    BY <2>1, FinishKeeps
  <2>2. CASE GoNext
    BY <2>2, AskKeeps DEF GoNext
  <2>3. CASE TypeScriptNext
    BY <2>3, AskKeeps DEF TypeScriptNext, Full, Form
  <2>4. CASE PythonNext
    BY <2>4, AskKeeps DEF PythonNext, Full, Form
  <2>5. CASE RubyNext
    BY <2>5, AskKeeps DEF RubyNext, Full
  <2>6. CASE PhpNext
    BY <2>6, AskKeeps DEF PhpNext, Full, Form
  <2>7. CASE RustNext
    BY <2>7, AskKeeps DEF RustNext, Full, Form
  <2>8. CASE JavaNext
    <3>1. CASE JavaFull
      BY <2>8, <3>1, AskKeeps DEF JavaNext
    <3>2. CASE ~JavaFull
      BY <2>8, <3>2, AskKeeps DEF JavaNext
    <3> QED
      BY <3>1, <3>2
  <2>9. CASE CSharpNext
    BY <2>9, AskKeeps DEF CSharpNext, Full, Form
  <2>10. CASE ElixirNext
    BY <2>10, AskKeeps DEF ElixirNext, Full, Form
  <2>11. CASE SwiftNext
    BY <2>11, AskKeeps DEF SwiftNext, Full, Form
  <2> QED
    BY <2>1, <2>2, <2>3, <2>4, <2>5, <2>6, <2>7, <2>8, <2>9, <2>10, <2>11 DEF PagerNext
<1> QED
  BY <1>1, TraversalStarts, PTL DEF PagerSpec

\* Whatever calls fail and are repeated, and for every start, limit and number
\* of items: those of an honest API come each once and in their order, and a
\* consumer that is told of the end has had all of them, but for the early ends
\* that are announced and TypeScript's offsets without a start.
THEOREM EndsMeanAll == PagerSpec => []EndMeansAll
<1>1. Delivered => EndMeansAll
  BY DEF Delivered, EndMeansAll
<1> QED
  BY <1>1, TraversalInvariant, PTL
=============================================================================
