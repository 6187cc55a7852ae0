----------------------------- MODULE MCClients -----------------------------
(* Three scenes, one of which is chosen at the start.  "Tokens": three      *)
(* calls share a provider, two of which may be replayed.  "Loop": one call, *)
(* its retries and its hooks, against an API that answers as it likes.      *)
(* "Pages": one traversal of the pages of five items, or of an API whose    *)
(* continuations need not end.                                              *)
EXTENDS TokenProvider, RetryLoop, Pager

VARIABLE scene

MCInit ==
    /\ Init /\ CallInit /\ PagerInit
    /\ scene \in {"Tokens", "Loop", "Pages"}
    /\ scene # "Tokens" => lang = "go"
    /\ scene # "Loop" => client = "go" /\ kind = "safe" /\ ~managed
    /\ scene # "Pages" => pager = [lang |-> "go", form |-> "url"] /\ ~honest

TokensStep(A) == scene = "Tokens" /\ A /\ UNCHANGED <<callVars, pagerVars, scene>>

MCNext ==
    \/ TokensStep(Next)
    \/ scene = "Loop" /\ CallNext /\ UNCHANGED <<vars, pagerVars, scene>>
    \/ scene = "Pages" /\ PagerNext /\ UNCHANGED <<vars, callVars, scene>>

\* The calls and the provider of the first scene go on; the others ask for no
\* fairness.
MCVars == <<vars, callVars, pagerVars, scene>>
MCFairness ==
    /\ \A c \in Caller : WF_MCVars(TokensStep(CallStep(c) /\ UNCHANGED lang))
    /\ WF_MCVars(TokensStep(ProviderStep /\ UNCHANGED lang))

MCSpec == MCInit /\ [][MCNext]_MCVars /\ MCFairness
=============================================================================
