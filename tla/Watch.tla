------------------------------- MODULE Watch -------------------------------
(***************************************************************************)
(* The bundler integration: a chain of generations, and the files whose    *)
(* changes ask for one, while the author edits the recipe and the source   *)
(* that it names.                                                          *)
(***************************************************************************)
EXTENDS Naturals, FiniteSets

CONSTANTS
    Source,
    Broken,    \* a recipe that names no source: it does not parse
    MaxEdits,  \* bound on the edits
    MaxQueue   \* bound on the generations asked for

ASSUME WatchAssumption ==
    /\ Broken \notin Source
    /\ {MaxEdits, MaxQueue} \subseteq Nat

Recipe == "recipe"

VARIABLES
    names,    \* what the recipe names
    edition,  \* of each source
    edits,
    watched,  \* watchFiles, all given to the bundler
    changed,  \* watched files whose change the bundler has not reported yet
    queued,   \* generations that wait for those before them
    step,     \* of the running generation: "idle", "recipe" or "source" was read
    read,     \* what it has read
    output,   \* what the last successful generation read
    failed    \* the last generation failed, or there was none

watchVars == <<names, edition, edits, watched, changed, queued, step, read, output, failed>>
author == <<names, edition, edits>>
generation == <<step, read, output, failed>>

Named(n) == IF n = Broken THEN {} ELSE {n}
NotRead == [names |-> Broken, edition |-> 0]
Current == output.names = names /\ names # Broken /\ output.edition = edition[names]

WatchInit ==
    /\ names \in Source
    /\ edition = [s \in Source |-> 0]
    /\ edits = 0
    /\ watched = {Recipe} \cup Named(names)
    /\ changed = {}
    /\ queued = 1
    /\ step = "idle" /\ read = NotRead /\ output = NotRead /\ failed = TRUE

\* The author edits a file; the bundler reports what it watches.
Notice(f) == changed' = IF f \in watched THEN changed \cup {f} ELSE changed

EditRecipe ==
    /\ edits < MaxEdits
    /\ \E n \in (Source \cup {Broken}) \ {names} : names' = n
    /\ edits' = edits + 1
    /\ Notice(Recipe)
    /\ UNCHANGED <<edition, watched, queued, generation>>

EditSource(s) ==
    /\ edits < MaxEdits
    /\ edition' = [edition EXCEPT ![s] = @ + 1]
    /\ edits' = edits + 1
    /\ Notice(s)
    /\ UNCHANGED <<names, watched, queued, generation>>

Register == watched' = watched \cup {Recipe} \cup Named(names)

\* The bundler builds again, with no change of ours.
BuildStart ==
    /\ queued < MaxQueue
    /\ Register
    /\ queued' = queued + 1
    /\ UNCHANGED <<author, changed, generation>>

\* Faulty variant: a change during a generation asks for no other.
WatchChangeUnlessRunning(f) ==
    /\ f \in changed
    /\ changed' = changed \ {f}
    /\ Register
    /\ queued' = IF step # "idle" THEN queued ELSE queued + 1
    /\ UNCHANGED <<author, generation>>

WatchChange(f) ==
    /\ f \in changed
    /\ changed' = changed \ {f}
    /\ Register
    /\ queued' = queued + 1
    /\ UNCHANGED <<author, generation>>

\* The command reads the recipe, then the source that it names.
ReadRecipe ==
    /\ step = "idle" /\ queued > 0
    /\ queued' = queued - 1
    /\ step' = "recipe"
    /\ read' = [names |-> names, edition |-> 0]
    /\ UNCHANGED <<author, watched, changed, output, failed>>

ReadSource ==
    /\ step = "recipe" /\ read.names # Broken
    /\ step' = "source"
    /\ read' = [read EXCEPT !.edition = edition[read.names]]
    /\ UNCHANGED <<author, watched, changed, queued, output, failed>>

Succeed ==
    /\ step = "source"
    /\ output' = read
    /\ failed' = FALSE
    /\ Register
    /\ step' = "idle" /\ read' = NotRead
    /\ UNCHANGED <<author, changed, queued>>

\* The rejection goes to the bundler that asked; the chain goes on.
FailGeneration ==
    /\ step # "idle"
    /\ failed' = TRUE
    /\ step' = "idle" /\ read' = NotRead
    /\ UNCHANGED <<author, watched, changed, queued, output>>

GenerationStep == ReadRecipe \/ ReadSource \/ Succeed \/ FailGeneration
WatchNext ==
    \/ EditRecipe \/ BuildStart \/ GenerationStep
    \/ \E s \in Source : EditSource(s)
    \/ \E f \in {Recipe} \cup Source : WatchChange(f)

\* The bundler reports changes, and commands end.
WatchFairness ==
    /\ WF_watchVars(GenerationStep)
    /\ \A f \in {Recipe} \cup Source : WF_watchVars(WatchChange(f))
WatchSpec == WatchInit /\ [][WatchNext]_watchVars /\ WatchFairness

-----------------------------------------------------------------------------
\* Once the author pauses, the output is generated from the recipe and the source
\* as they are, unless the last generation failed: also where the recipe turned
\* to a source nobody watched, and that was edited while a generation ran.
EventuallyCurrent == <>[](failed \/ Current)
=============================================================================
