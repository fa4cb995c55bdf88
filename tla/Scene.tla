-------------------------------- MODULE Scene --------------------------------
(***************************************************************************)
(* What display lists promise: a scene of named lists, drawn one after the *)
(* other in every frame, one of which may be open for recording.           *)
(***************************************************************************)
EXTENDS Sequences, SequencesExt

CONSTANTS
    Names,      \* names of lists
    Commands,   \* draw commands
    MaxMentions \* bound: names in one SetOrder

VARIABLES
    scene,      \* the lists in drawing order, each with its name and commands
    open        \* the name of the list being recorded, or "none"

sceneVars == <<scene, open>>

NamesIn(s) == {s[i].name : i \in DOMAIN s}

SceneInit == scene = <<>> /\ open = "none"

\* Recording starts from an empty list; a new one is drawn last.
Begin(name) ==
    /\ scene' = IF name \in NamesIn(scene)
                THEN [i \in DOMAIN scene |->
                        IF scene[i].name = name THEN [scene[i] EXCEPT !.cmds = <<>>]
                                                ELSE scene[i]]
                ELSE Append(scene, [name |-> name, cmds |-> <<>>])
    /\ open' = name

End == open' = "none" /\ UNCHANGED scene

Record(cmd) ==
    /\ open # "none"
    /\ scene' = [i \in DOMAIN scene |->
                   IF scene[i].name = open THEN [scene[i] EXCEPT !.cmds = Append(@, cmd)]
                                           ELSE scene[i]]
    /\ UNCHANGED open

Clear(name) ==
    /\ scene' = [i \in DOMAIN scene |->
                   IF scene[i].name = name THEN [scene[i] EXCEPT !.cmds = <<>>]
                                           ELSE scene[i]]
    /\ UNCHANGED open

\* The other lists, their commands and their order are not touched.
Delete(name) ==
    /\ \/ \E k \in DOMAIN scene : scene[k].name = name /\ scene' = RemoveAt(scene, k)
       \/ name \notin NamesIn(scene) /\ UNCHANGED scene
    /\ open' = IF open = name THEN "none" ELSE open

\* Where a name is first mentioned.
Mention(names, name) == CHOOSE k \in DOMAIN names :
    names[k] = name /\ \A j \in DOMAIN names : names[j] = name => k <= j

\* The same lists; those that are mentioned come first, in the order of their
\* first mention, and the others keep their order.
SetOrder(names) ==
    /\ NamesIn(scene') = NamesIn(scene) /\ Len(scene') = Len(scene)
    /\ \A i \in DOMAIN scene' : \E j \in DOMAIN scene : scene'[i] = scene[j]
    /\ \A i, j \in DOMAIN scene' : i < j =>
         LET a == scene'[i].name
             b == scene'[j].name IN
         IF b \in Range(names)
         THEN a \in Range(names) /\ Mention(names, a) < Mention(names, b)
         ELSE a \notin Range(names) =>
                \E k, l \in DOMAIN scene : k < l /\ scene[k].name = a /\ scene[l].name = b
    /\ UNCHANGED open

SceneNext ==
    \/ \E name \in Names : Begin(name) \/ Clear(name) \/ Delete(name)
    \/ End
    \/ \E cmd \in Commands : Record(cmd)
    \/ \E names \in SeqOf(Names, MaxMentions) : SetOrder(names)

SceneSpec == SceneInit /\ [][SceneNext]_sceneVars
=============================================================================
