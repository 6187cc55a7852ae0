----------------------------- MODULE MCDelivery -----------------------------
(* Five scenes, one of which is chosen at the start: a package.json between *)
(* two releases and its author ("Npm": the second release moves `query` to  *)
(* another section, bumps `zod` and adds an export), two jobs that publish  *)
(* one version ("Publish"), two exchanges at the broker for three           *)
(* identities, some of them issued ahead of the clock ("Broker"), and a     *)
(* resource of a published Terraform provider ("Terraform": each choice of  *)
(* waiters, the documentation's criteria, and an API that stores 3 as 2);   *)
(* and three entities that ask for names of one word in two cases, some     *)
(* with an ordinal, in a module and in another that differs from it in case *)
(* only ("Names").                                                          *)
EXTENDS NpmLifecycle, Publish, Broker, ProviderResource, Symbols

Old == [identity |-> "0.1", files |-> {"dist"},
        deps |-> [s \in Section |-> IF s = "dependencies" THEN "zod" :> 4 ELSE "query" :> 5],
        settings |-> "build" :> "generated", exports |-> "dist" :> "generated"]
New == [Old EXCEPT !.identity = "0.2",
                   !.deps = [s \in Section |-> IF s = "dependencies"
                                               THEN ("zod" :> 5) @@ ("query" :> 5) ELSE Empty],
                   !.exports = ("dist" :> "generated") @@ ("build" :> "generated")]
MCRelease == {Old, New}

MCClaim == {[iat |-> 0, exp |-> 1], [iat |-> 3, exp |-> 4]}

MCCanonical == [v \in Value |-> IF v = 3 THEN 2 ELSE v]
MCSuccess ==
    [m \in Method |-> IF m = "Delete" THEN {[status |-> 404]}
                      ELSE {[status |-> 200], [phase |-> "ready"]}]
MCFailure ==
    [m \in Method |-> IF m = "Delete" THEN {} ELSE {[status |-> 200], [phase |-> "failed"]}]

MCLower(x) == CASE x = "Order" -> "order" [] x = "Models" -> "models" [] OTHER -> x
MCPreferred ==
    [word : {"Order", "order"}, suffix : {<<>>, <<2>>}]

VARIABLE scene

MCVars == <<vars, publishVars, brokerVars, providerVars, symbolVars, scene>>

MCInit ==
    /\ scene \in {"Npm", "Publish", "Broker", "Terraform", "Names"}
    /\ Init /\ PublishInit /\ BrokerInit /\ ProviderInit /\ SymbolsInit
    /\ scene # "Publish" =>
          /\ registry = "npm"
          /\ \A j \in Job : plan[j][Archive] = CHOOSE b \in Build : TRUE
    /\ scene # "Broker" => \A i \in Identity : claims[i].iat = 0
    /\ scene # "Terraform" => polled = {}

MCNext ==
    /\ \/ scene = "Npm" /\ Next /\ UNCHANGED <<publishVars, brokerVars, providerVars, symbolVars>>
       \/ scene = "Publish" /\ PublishNext /\ UNCHANGED <<vars, brokerVars, providerVars, symbolVars>>
       \/ scene = "Broker" /\ BrokerNext /\ UNCHANGED <<vars, publishVars, providerVars, symbolVars>>
       \/ scene = "Terraform" /\ ProviderNext /\ UNCHANGED <<vars, publishVars, brokerVars, symbolVars>>
       \/ scene = "Names" /\ SymbolsNext /\ UNCHANGED <<vars, publishVars, brokerVars, providerVars>>
    /\ UNCHANGED scene
MCSpec == MCInit /\ [][MCNext]_MCVars
=============================================================================
