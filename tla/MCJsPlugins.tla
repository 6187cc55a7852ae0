---------------------------- MODULE MCJsPlugins ----------------------------
(* Three plugins over two contracts, which may also require one another by  *)
(* name, and pairs that select their providers explicitly.  Beside a set of *)
(* plugins that is rejected at once, the bundler's generations run while    *)
(* the author makes three edits.                                            *)
EXTENDS JsPlugins, Watch

CONSTANTS a, b

Req(c, p, o) == [contract |-> c, provider |-> p, optional |-> o]
Needs(c) == <<Req(c, Unselected, FALSE)>>

Build(ids, provides, requires, naming, transforms) ==
    {[id |-> ids, phase |-> f, provides |-> p, requires |-> r, named |-> m,
      transforms |-> t] :
        f \in [DOMAIN ids -> Phase], p \in [DOMAIN ids -> provides],
        r \in [DOMAIN ids -> requires], m \in [DOMAIN ids -> naming], t \in transforms}

Triples == Build(<<1, 2, 3>>, {<<>>, <<a>>}, {<<>>, Needs(a), <<Req(a, Unselected, TRUE)>>},
                 {{}, {3}}, {{}})
Pairs == Build(<<1, 2>>, {<<>>, <<a, b>>, <<b, b>>},
               {<<>>, Needs(b), <<Req(a, 1, FALSE)>>, <<Req(a, 2, TRUE)>>,
                <<Req(a, 3, FALSE)>>, Needs(a) \o Needs(a)}, {{}, {2}}, {{}, {1}})
Twins == Build(<<1, 1>>, {<<>>}, {<<>>}, {{}}, {{}})
MCPackage == Triples \cup Pairs \cup Twins

Bundled == k \in Twins /\ k.phase = <<"generate", "generate">>
MCVars == <<vars, watchVars>>
PluginStep(A) == A /\ UNCHANGED watchVars
BundlerStep(A) == Bundled /\ A /\ UNCHANGED vars

MCInit == Init /\ WatchInit /\ (Bundled \/ names = CHOOSE s \in Source : TRUE)
MCNext == PluginStep(Next) \/ BundlerStep(WatchNext)
MCFairness ==
    /\ WF_MCVars(PluginStep(Next))
    /\ WF_MCVars(BundlerStep(GenerationStep))
    /\ \A f \in {Recipe} \cup Source : WF_MCVars(BundlerStep(WatchChange(f)))
MCSpec == MCInit /\ [][MCNext]_MCVars /\ MCFairness
=============================================================================
