--------------------------- MODULE MCAutomations ---------------------------
(* Three scenes, one of which is chosen at the start: two runs of `sdk pr`, *)
(* two of `sdk install` ("Pr" and "Install", as in MCSdkPr), and two        *)
(* sources that sync into one target ("Spec"), the first of which commits   *)
(* without changing its specification and then changes it, while authors    *)
(* edit the specification or remove the provenance file.                    *)
EXTENDS MCSdkPr, SpecSync

CONSTANTS c1, c2

MCSpecAt == [c \in Conn |-> IF c = c1 THEN <<s1, s1, s2>> ELSE <<s2>>]
MCTarget == {[t EXCEPT !["spec"] = s2] : t \in MCBare}
MCDestination == MCStart \cup MCBare

MCChanges == MCChange \cup {[spec |-> u], [provenance |-> NoFile]}

VARIABLE scene

PrVars == <<run, crashes, settled>>
OnlySync == <<sync, late, timeouts, synced>>

MCInit ==
    \/ /\ scene \in {"Pr", "Install"}
       /\ Init /\ (TreeOf(base)["code"] = NoFile <=> scene = "Install")
       /\ sync = [c \in Conn |-> NoSync] /\ late = {} /\ timeouts = 0 /\ synced = <<>>
    \/ /\ scene = "Spec"
       /\ SyncInit
       /\ run = [j \in Job |-> Idle] /\ crashes = 0 /\ settled = 0

\* In the scene of the specifications people commit once.
FewAuthored ==
    commits' # commits => Cardinality({c \in DOMAIN commits' : commits'[c].by = Author}) <= 2

\* What people write belongs to the scene.
InScene ==
    commits' # commits =>
       LET t == commits'[Fresh].tree
       IN  IF scene = "Spec" THEN t["code"] = NoFile /\ t["meta"] = NoFile
           ELSE t["spec"] = NoFile

\* Setups are installed one after another, by hand.
OneAtATime == Cardinality({j \in Job : run'[j] # Idle}) <= 1

MCNext ==
    /\ \/ scene = "Pr" /\ Next /\ UNCHANGED OnlySync
       \/ scene = "Install" /\ InstallNext /\ OneAtATime /\ UNCHANGED OnlySync
       \/ scene = "Spec" /\ SyncNext /\ FewAuthored /\ UNCHANGED PrVars
    /\ InScene
    /\ UNCHANGED scene
MCSpec == MCInit /\ [][MCNext]_<<vars, syncVars, scene>>

JobSymmetry == Permutations(Job)
=============================================================================
