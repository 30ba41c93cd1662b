---------------------------- MODULE EngineProofs ----------------------------
(***************************************************************************)
(* What holds of the engine's parts for any tree, any names and any number *)
(* of jobs and loads: the lifecycle of the components (Lifecycle), their   *)
(* tree (Tree), the job manager (Jobs) and the hand-over of loaded records *)
(* (PendingExports).                                                       *)
(***************************************************************************)
EXTENDS Lifecycle, Tree, Jobs, PendingExports, TLAPS

----------------------------------------------------------------------------
(* Lifecycle: as long as nothing is started below a component that is being stopped,
   no component of any tree runs without its ancestors. *)

StoppingPhases == {"unwind", "children", "settle", "post"}

(* A component whose task is past the race has its stopping event set.     *)
StoppingSet == \A c \in Component : task[c] \in StoppingPhases => c \in stopping
(* After the loop of __stop__ no child runs.                               *)
Emptied ==
  \A c, d \in Component : task[c] \in {"settle", "post"} /\ Parent[d] = c => ~Running(d)
(* A running component's parent runs.                                      *)
ParentRuns == \A c \in Component : Running(c) /\ Parent[c] # None => Running(Parent[c])

Inv == TypeOK /\ StoppingSet /\ Emptied /\ ParentRuns
-----------------------------------------------------------------------------
LEMMA AboveFacts ==
  ASSUME NEW c \in Component
  PROVE  /\ Above[c] \subseteq Component
         /\ Parent[c] # None => Parent[c] \in Above[c]
         /\ \A x \in Above[c] : Parent[x] # None => Parent[x] \in Above[c]
         /\ \A S \in SUBSET Component : ClosedAbove(c, S) => Above[c] \subseteq S
<1>1. Above[c] = {a \in Component : \A S \in SUBSET Component : ClosedAbove(c, S) => a \in S}
  BY DEF Above
<1>2. \A x \in Component : Parent[x] # None => Parent[x] \in Component BY LifecycleAssumption
<1> QED BY <1>1, <1>2 DEF ClosedAbove

(* What is above x is its parent or above its parent.                      *)
LEMMA AboveParent ==
  ASSUME NEW x \in Component, Parent[x] # None
  PROVE  /\ Parent[x] \in Component
         /\ Above[x] = {Parent[x]} \cup Above[Parent[x]]
<1>1. Parent[x] \in Component BY LifecycleAssumption
<1> DEFINE S == {Parent[x]} \cup Above[Parent[x]]
<1>2. S \in SUBSET Component BY <1>1, AboveFacts
<1>3. ClosedAbove(x, S) BY <1>1, AboveFacts DEF ClosedAbove
<1>4. Above[x] \subseteq S BY <1>2, <1>3, AboveFacts
<1>5. ClosedAbove(Parent[x], Above[x]) BY AboveFacts DEF ClosedAbove
<1>6. Above[Parent[x]] \subseteq Above[x] BY <1>1, <1>5, AboveFacts
<1> QED BY <1>1, <1>4, <1>6, AboveFacts

(* start() starts the parent of everything it starts.                      *)
LEMMA StartedClosed ==
  ASSUME NEW c \in Component, NEW x \in Started(c), Parent[x] # None
  PROVE  x \in Component /\ Parent[x] \in Started(c)
<1>1. CASE x = c BY <1>1, AboveFacts DEF Started
<1>2. CASE x \in Above[c] BY <1>2, AboveFacts DEF Started
<1>3. CASE x \in EnabledBelow(c)
  <2>1. x \in Component /\ c \in Above[x] BY <1>3 DEF EnabledBelow
  <2>2. Parent[x] = c \/ c \in Above[Parent[x]] BY <2>1, AboveParent
  <2>3. Above[Parent[x]] \cup {Parent[x]} \subseteq Above[x] /\ Parent[x] \in Component
    BY <2>1, AboveParent
  <2>4. c \in Above[Parent[x]] => Parent[x] \in EnabledBelow(c)
    BY <1>3, <2>3 DEF EnabledBelow
  <2> QED BY <2>1, <2>2, <2>4 DEF Started
<1> QED BY <1>1, <1>2, <1>3 DEF Started

(* ParentRuns extends to all ancestors.                                    *)
LEMMA AncestorsRun == ASSUME ParentRuns PROVE NoOrphans
<1> SUFFICES ASSUME NEW c \in Component, Running(c) PROVE \A a \in Above[c] : Running(a)
  BY DEF NoOrphans
<1> DEFINE S == {a \in Component : Running(a)}
<1>1. ClosedAbove(c, S) BY LifecycleAssumption DEF ParentRuns, ClosedAbove
<1> QED BY <1>1, AboveFacts
-----------------------------------------------------------------------------
LEMMA InitInv == Init => Inv
BY DEF Init, Inv, TypeOK, Tasks, StoppingSet, StoppingPhases, Emptied, ParentRuns, Running

LEMMA StartInv ==
  ASSUME Inv, NEW c \in Component, Launch(Started(c)), OrderlyStep,
         UNCHANGED <<waiting, stored>>, enabled' \subseteq Component,
         calls' \subseteq calls
  PROVE  Inv'
<1> USE DEF Inv
<1>1. TypeOK' BY DEF TypeOK, Launch, Tasks
<1>2. /\ \A x \in Component : task'[x] = IF x \in Started(c) /\ ~Running(x) THEN "start" ELSE task[x]
      /\ \A x \in Component : Running(x) => Running(x)'
      /\ \A x \in Component : Running(x)' /\ ~Running(x) => x \in Started(c)
      /\ \A x \in Started(c) \cap Component : Running(x)'
  BY DEF Launch, Running
<1>3. StoppingSet'
  BY <1>2 DEF StoppingSet, Launch, StoppingPhases, Running
<1>4. ParentRuns'
  <2> SUFFICES ASSUME NEW x \in Component, Running(x)', Parent[x] # None PROVE Running(Parent[x])'
    BY DEF ParentRuns
  <2>0. Parent[x] \in Component BY LifecycleAssumption
  <2>1. CASE Running(x) BY <2>0, <2>1, <1>2 DEF ParentRuns
  <2>2. CASE ~Running(x) BY <2>0, <2>2, <1>2, StartedClosed
  <2> QED BY <2>1, <2>2
<1>5. Emptied'
  <2> SUFFICES ASSUME NEW p \in Component, NEW d \in Component,
                      task'[p] \in {"settle", "post"}, Parent[d] = p, Running(d)'
               PROVE FALSE
    BY DEF Emptied
  <2>1. task[p] \in {"settle", "post"} /\ Running(p) /\ p \in stopping
    BY <1>2 DEF StoppingSet, StoppingPhases, Running
  <2>2. ~Running(d) BY <2>1 DEF Emptied
  <2>3. p \in Above[d] BY AboveFacts, LifecycleAssumption
  <2> QED BY <2>1, <2>2, <2>3 DEF OrderlyStep
<1> QED BY <1>1, <1>3, <1>4, <1>5

(* A step that changes the task of one running component that stays running. *)
LEMMA PhaseInv ==
  ASSUME Inv, NEW c \in Component, TypeOK', Running(c), Running(c)',
         \A x \in Component \ {c} : task'[x] = task[x],
         task'[c] \in StoppingPhases => c \in stopping',
         stopping \subseteq stopping',
         task'[c] \in {"settle", "post"} => \A d \in Component : Parent[d] = c => ~Running(d) /\ d # c
  PROVE  Inv'
<1>1. \A x \in Component : Running(x)' <=> Running(x) BY DEF Running
<1>2. StoppingSet' BY DEF Inv, StoppingSet
<1>3. Emptied' BY <1>1 DEF Inv, Emptied
<1>4. ParentRuns' BY <1>1, LifecycleAssumption DEF Inv, ParentRuns
<1> QED BY <1>2, <1>3, <1>4 DEF Inv

LEMMA StopChildrenInv ==
  ASSUME Inv, NEW c \in Component, task[c] \in {"unwind", "children"}, StopChildren(c),
         UNCHANGED <<enabled, stored, calls>>
  PROVE  Inv'
<1> DEFINE below == {d \in Children(c) : Running(d)}
<1>1. TypeOK' BY DEF Inv, TypeOK, StopChildren, Children, Tasks
<1>2. Running(c) /\ Running(c)' /\ c \in stopping
  BY DEF Running, Inv, TypeOK, StopChildren, StoppingSet, StoppingPhases
<1>3. task'[c] \in {"settle", "post"} => \A d \in Component : Parent[d] = c => ~Running(d) /\ d # c
  <2>1. task'[c] \in {"settle", "post"} => below = {}
    BY DEF Inv, TypeOK, StopChildren
  <2> QED BY <2>1, <1>2 DEF Children
<1> QED BY <1>1, <1>2, <1>3, PhaseInv DEF Inv, TypeOK, StopChildren

LEMMA HookReturnsInv ==
  ASSUME Inv, NEW c \in Component, HookReturns(c)
  PROVE  Inv'
<1>1. \A a \in Above[c] : Running(a)
  BY AncestorsRun DEF Inv, HookReturns, Running, NoOrphans
<1>2. /\ task'[c] = "sync" /\ \A x \in Component \ {c} : task'[x] = task[x]
      /\ stopping' = stopping
  BY <1>1 DEF HookReturns
<1>3. TypeOK' BY <1>2 DEF Inv, TypeOK, HookReturns, Tasks
<1> QED BY <1>2, <1>3, PhaseInv DEF HookReturns, Running, StoppingPhases

LEMMA FinishInv ==
  ASSUME Inv, NEW c \in Component, Finish(c)
  PROVE  Inv'
<1>1. TypeOK' BY DEF Inv, TypeOK, Finish, Tasks
<1>2. task'[c] = "none" /\ \A x \in Component \ {c} : task'[x] = task[x]
  BY DEF Inv, TypeOK, Finish
<1>3. \A d \in Component : Parent[d] = c => ~Running(d) BY DEF Inv, Emptied, Finish
<1>4. StoppingSet' BY <1>2 DEF Inv, StoppingSet, StoppingPhases, Finish
<1>5. Emptied' BY <1>2 DEF Inv, Emptied, Running
<1>6. ParentRuns' BY <1>2, <1>3, LifecycleAssumption DEF Inv, ParentRuns, Running
<1> QED BY <1>1, <1>4, <1>5, <1>6 DEF Inv

(* The steps that leave every task alone.                                  *)
LEMMA SameTaskInv ==
  ASSUME Inv, TypeOK', task' = task, stopping \subseteq stopping'
  PROVE  Inv'
BY DEF Inv, StoppingSet, Emptied, ParentRuns, Running

LEMMA NextInv == Inv /\ [NextOrderly]_vars => Inv'
<1> SUFFICES ASSUME Inv, [NextOrderly]_vars PROVE Inv' OBVIOUS
<1>1. ASSUME NEW c \in Component, OrderlyStart(c) PROVE Inv'
  <2>1. CASE Start(c)
    BY <1>1, <2>1, StartInv DEF OrderlyStart, Start, Inv, TypeOK
  <2>2. CASE Up(c)
    BY <1>1, <2>2, StartInv DEF OrderlyStart, Up, SetEnabled, Inv, TypeOK
  <2> QED BY <1>1, <2>1, <2>2 DEF OrderlyStart
<1>2. ASSUME NEW c \in Component, Request(c) PROVE Inv'
  <2>1. CASE Stop(c) BY <2>1, SameTaskInv DEF Stop, Inv, TypeOK
  <2>2. CASE Down(c) BY <2>2, SameTaskInv DEF Down, SetEnabled, Inv, TypeOK
  <2>3. ASSUME NEW v \in BOOLEAN, Persist(c, v) PROVE Inv'
    <3>1. calls' \subseteq Component \X BOOLEAN BY <2>3 DEF Persist, Inv, TypeOK
    <3> QED BY <2>3, <3>1, SameTaskInv DEF Persist, Inv, TypeOK
  <2>4. ASSUME NEW v \in BOOLEAN, Enable(c, v) PROVE Inv'
    BY <2>4, SameTaskInv DEF Enable, SetEnabled, Inv, TypeOK
  <2> QED BY <1>2, <2>1, <2>2, <2>3, <2>4 DEF Request
<1>3. ASSUME NEW c \in Component, Run(c) PROVE Inv'
  <2>1. CASE HookReturns(c) BY <2>1, HookReturnsInv
  <2>2. CASE Synced(c)
    <3>1. TypeOK' BY <2>2 DEF Synced, Inv, TypeOK, Tasks
    <3> QED BY <2>2, <3>1, PhaseInv DEF Synced, Inv, TypeOK, Running, StoppingPhases
  <2>3. CASE RunEnds(c)
    <3>1. TypeOK' BY <2>3 DEF RunEnds, Inv, TypeOK, Tasks
    <3> QED BY <2>3, <3>1, PhaseInv DEF RunEnds, Inv, TypeOK, Running, StoppingPhases
  <2> QED BY <1>3, <2>1, <2>2, <2>3 DEF Run
<1>4. ASSUME NEW c \in Component, Main(c) PROVE Inv'
  <2>1. CASE Interrupt(c)
    <3>1. TypeOK' BY <2>1 DEF Interrupt, Inv, TypeOK, Tasks
    <3> QED BY <2>1, <3>1, PhaseInv DEF Interrupt, Inv, TypeOK, Running, StoppingPhases
  <2>2. CASE Unwound(c) BY <2>2, StopChildrenInv DEF Unwound
  <2>3. CASE ChildrenStopped(c) BY <2>3, StopChildrenInv DEF ChildrenStopped
  <2>4. CASE Settled(c)
    <3>1. TypeOK' BY <2>4 DEF Settled, Inv, TypeOK, Tasks
    <3>2. \A d \in Component : Parent[d] = c => ~Running(d) /\ d # c
      BY <2>4 DEF Settled, Inv, Emptied, Running
    <3>3. c \in stopping BY <2>4 DEF Settled, Inv, StoppingSet, StoppingPhases
    <3> QED BY <2>4, <3>1, <3>2, <3>3, PhaseInv DEF Settled, Inv, TypeOK, Running
  <2>5. CASE Finish(c) BY <2>5, FinishInv
  <2> QED BY <1>4, <2>1, <2>2, <2>3, <2>4, <2>5 DEF Main
<1>5. CASE UNCHANGED vars
  BY <1>5 DEF vars, Inv, TypeOK, StoppingSet, Emptied, ParentRuns, Running
<1> QED BY <1>1, <1>2, <1>3, <1>4, <1>5 DEF NextOrderly

(* Type correctness, for any tree.                                         *)
THEOREM LifecycleTyped == OrderlySpec => []TypeOK
<1>1. Inv => TypeOK BY DEF Inv
<1> QED BY <1>1, InitInv, NextInv, PTL DEF OrderlySpec

(* No component of any tree runs while one of its ancestors does not, provided that
   start() and up() are not called below a component that is being stopped. *)
THEOREM AncestorsAlwaysRun == OrderlySpec => []NoOrphans
<1>1. Inv => NoOrphans BY AncestorsRun DEF Inv
<1> QED BY <1>1, InitInv, NextInv, PTL DEF OrderlySpec

----------------------------------------------------------------------------
(* Tree: for any set of components and names. *)

\* The type of what detach leaves.
LEMMA WithoutType ==
  ASSUME TreeTypeOK, NEW x \in Component
  PROVE  Without(x) \in [Container -> [Name -> Component \cup {None}]]
BY DEF TreeTypeOK, Without, Container

\* After detach no registry holds x, and the others keep what they held.
LEMMA WithoutDrops ==
  ASSUME TreeTypeOK, LinksAgree, NEW x \in Component, NEW c \in Container, NEW n \in Name
  PROVE  /\ Without(x)[c][n] # x
         /\ children[c][n] # x => Without(x)[c][n] = children[c][n]
         /\ Without(x)[c][n] # None => Without(x)[c][n] = children[c][n]
<1>1. CASE c # container[x]
  <2>1. Without(x)[c] = children[c]
    BY <1>1 DEF Without
  <2>2. children[c][n] # x
    BY <1>1, TreeAssumption DEF LinksAgree
  <2> QED BY <2>1, <2>2
<1>2. CASE c = container[x]
  <2>1. Without(x)[c][n] = IF children[c][n] = x /\ (c = Engine \/ n = name[x]) THEN None
                           ELSE children[c][n]
    BY <1>2 DEF Without
  <2>2. children[c][n] = x => c = Engine \/ n = name[x]
    BY TreeAssumption DEF LinksAgree, Container
  <2>3. x # None
    BY TreeAssumption
  <2> QED BY <2>1, <2>2, <2>3
<1> QED BY <1>1, <1>2

\* The state is well typed, whoever attaches what.
THEOREM TreeTyped == TreeSpec => []TreeTypeOK
<1>1. TreeInit => TreeTypeOK
  BY TreeAssumption DEF TreeInit, TreeTypeOK, Container, Empty
<1>2. TreeTypeOK /\ [TreeNext]_treeVars => TreeTypeOK'
  <2> SUFFICES ASSUME TreeTypeOK, [TreeNext]_treeVars PROVE TreeTypeOK'
    OBVIOUS
  <2>1. CASE UNCHANGED treeVars
    BY <2>1 DEF TreeTypeOK, treeVars
  <2>2. ASSUME NEW x \in Component, Detach(x) PROVE TreeTypeOK'
    BY <2>2, WithoutType DEF Detach, TreeTypeOK, Container
  <2>3. ASSUME NEW x \in Component, EngineAttach(x) PROVE TreeTypeOK'
    <3>1. Without(x) \in [Container -> [Name -> Component \cup {None}]]
      BY WithoutType
    <3>2. children' \in [Container -> [Name -> Component \cup {None}]]
      BY <2>3, <3>1 DEF EngineAttach, TreeTypeOK
    <3>3. container' \in [Component -> Container \cup {None}]
      BY <2>3 DEF EngineAttach, TreeTypeOK, Container
    <3> QED BY <2>3, <3>2, <3>3 DEF EngineAttach, TreeTypeOK
  <2>4. ASSUME NEW x \in Component, NEW n \in Name, RenameTop(x, n) PROVE TreeTypeOK'
    BY <2>4 DEF RenameTop, TreeTypeOK
  <2>5. ASSUME NEW x \in Component, NEW n \in Name, Rename(x, n) PROVE TreeTypeOK'
    BY <2>5 DEF Rename, TreeTypeOK, Container
  <2>6. ASSUME NEW x \in Component, NEW p \in Component, NEW n \in Name, Attach(p, x, n)
        PROVE  TreeTypeOK'
    BY <2>6, WithoutType DEF Attach, TreeTypeOK, Container
  <2>7. ASSUME NEW x \in Component, NEW p \in Component, NEW n \in Name,
               AttachRaises(p, x, n)
        PROVE  TreeTypeOK'
    BY <2>7, <2>2 DEF AttachRaises
  <2> QED BY <2>1, <2>2, <2>3, <2>4, <2>5, <2>6, <2>7 DEF TreeNext, Change, Hang
<1> QED BY <1>1, <1>2, PTL DEF TreeSpec

\* detach keeps the links in agreement.
LEMMA DetachKeepsLinks ==
  ASSUME TreeTypeOK, LinksAgree, NEW x \in Component, Detach(x)
  PROVE  LinksAgree'
<1>1. ASSUME NEW c \in Container, NEW n \in Name
      PROVE  /\ children'[c][n] # x
             /\ children[c][n] # x => children'[c][n] = children[c][n]
             /\ children'[c][n] # None => children'[c][n] = children[c][n]
  BY WithoutDrops DEF Detach
<1>2. \A y \in Component : container'[y] = IF y = x THEN None ELSE container[y]
  BY DEF Detach, TreeTypeOK
<1>3. \A c \in Container, n \in Name : children[c][n] \in Component \cup {None}
  BY DEF TreeTypeOK
<1>4. name' = name
  BY DEF Detach
<1>5. Component \subseteq Container
  BY DEF Container
<1>6. (\A c \in Container, n \in Name :
         children[c][n] # None => container[children[c][n]] = c)'
  BY <1>1, <1>2, <1>3 DEF LinksAgree
<1>7. (\A y \in Component : container[y] # None =>
         \E n \in Name : children[container[y]][n] = y)'
  <2> SUFFICES ASSUME NEW y \in Component, container'[y] # None
               PROVE  \E n \in Name : children'[container'[y]][n] = y
    OBVIOUS
  <2>1. y # x /\ container'[y] = container[y] /\ container[y] \in Container
    BY <1>2 DEF TreeTypeOK, Container
  <2>2. PICK n \in Name : children[container[y]][n] = y
    BY <2>1, TreeAssumption DEF LinksAgree
  <2> QED BY <2>1, <2>2, <1>1
<1>8. (\A c \in Container, m, n \in Name :
         children[c][m] = children[c][n] /\ children[c][m] # None => m = n)'
  BY <1>1 DEF LinksAgree
<1>9. (\A c \in Component, n \in Name : children[c][n] # None => name[children[c][n]] = n)'
  BY <1>1, <1>4, <1>5 DEF LinksAgree
<1> QED BY <1>6, <1>7, <1>8, <1>9 DEF LinksAgree

\* attach keeps them.
LEMMA AttachKeepsLinks ==
  ASSUME TreeTypeOK, LinksAgree, NEW x \in Component, NEW p \in Component, NEW k \in Name,
         Attach(p, x, k)
  PROVE  LinksAgree'
<1>1. Without(x) \in [Container -> [Name -> Component \cup {None}]]
  BY WithoutType
<1>2. p \in Container /\ x # None
  BY TreeAssumption DEF Container
<1>3. \A c \in Container, n \in Name :
        children'[c][n] = IF c = p /\ n = k THEN x ELSE Without(x)[c][n]
  BY <1>1, <1>2 DEF Attach
<1>4. ASSUME NEW c \in Container, NEW n \in Name
      PROVE  /\ Without(x)[c][n] # x
             /\ children[c][n] # x => Without(x)[c][n] = children[c][n]
             /\ Without(x)[c][n] # None => Without(x)[c][n] = children[c][n]
  BY WithoutDrops
<1>5. \A y \in Component : container'[y] = IF y = x THEN p ELSE container[y]
  BY DEF Attach, TreeTypeOK
<1>6. \A y \in Component : name'[y] = IF y = x THEN k ELSE name[y]
  BY DEF Attach, TreeTypeOK
<1>7. \A c \in Container, n \in Name : children[c][n] \in Component \cup {None}
  BY DEF TreeTypeOK
<1>8. (\A c \in Container, n \in Name :
         children[c][n] # None => container[children[c][n]] = c)'
  <2> SUFFICES ASSUME NEW c \in Container, NEW n \in Name, children'[c][n] # None
               PROVE  container'[children'[c][n]] = c
    OBVIOUS
  <2>1. CASE c = p /\ n = k
    BY <2>1, <1>3, <1>5
  <2>2. CASE ~(c = p /\ n = k)
    BY <2>2, <1>3, <1>4, <1>5, <1>7 DEF LinksAgree
  <2> QED BY <2>1, <2>2
<1>9. (\A y \in Component : container[y] # None =>
         \E n \in Name : children[container[y]][n] = y)'
  <2> SUFFICES ASSUME NEW y \in Component, container'[y] # None
               PROVE  \E n \in Name : children'[container'[y]][n] = y
    OBVIOUS
  <2>1. CASE y = x
    BY <2>1, <1>2, <1>3, <1>5
  <2>2. CASE y # x
    <3>1. container'[y] = container[y] /\ container[y] \in Container
      BY <2>2, <1>5 DEF TreeTypeOK, Container
    <3>2. PICK n \in Name : children[container[y]][n] = y
      BY <3>1, TreeAssumption DEF LinksAgree
    <3>3. Without(x)[container[y]][n] = y
      BY <3>1, <3>2, <2>2, <1>4
    <3>4. ~(container[y] = p /\ n = k)
      BY <3>3, TreeAssumption DEF Attach
    <3> QED BY <3>1, <3>3, <3>4, <1>3
  <2> QED BY <2>1, <2>2
<1>10. (\A c \in Container, m, n \in Name :
         children[c][m] = children[c][n] /\ children[c][m] # None => m = n)'
  BY <1>3, <1>4, <1>2 DEF LinksAgree
<1>11. (\A c \in Component, n \in Name : children[c][n] # None => name[children[c][n]] = n)'
  <2> SUFFICES ASSUME NEW c \in Component, NEW n \in Name, children'[c][n] # None
               PROVE  name'[children'[c][n]] = n
    OBVIOUS
  <2>1. c \in Container
    BY DEF Container
  <2>2. CASE c = p /\ n = k
    BY <2>2, <2>1, <1>3, <1>6
  <2>3. CASE ~(c = p /\ n = k)
    BY <2>3, <2>1, <1>3, <1>4, <1>6, <1>7 DEF LinksAgree
  <2> QED BY <2>2, <2>3
<1> QED BY <1>8, <1>9, <1>10, <1>11 DEF LinksAgree

\* Engine.attach keeps them: the component it replaces is dropped on both sides.
LEMMA EngineAttachKeepsLinks ==
  ASSUME TreeTypeOK, LinksAgree, NEW x \in Component, EngineAttach(x)
  PROVE  LinksAgree'
<1> DEFINE previous == children[Engine][name[x]]
           k == name[x]
<1>1. /\ Without(x) \in [Container -> [Name -> Component \cup {None}]]
      /\ k \in Name /\ Engine \in Container /\ x # None
      /\ previous \in Component \cup {None} /\ previous # x
  BY WithoutType, TreeAssumption DEF Container, TreeTypeOK, EngineAttach
<1>2. \A c \in Container, n \in Name :
        children'[c][n] = IF c = Engine /\ n = k THEN x
                          ELSE IF c = Engine /\ children[c][n] = previous THEN None
                          ELSE Without(x)[c][n]
  BY DEF EngineAttach
<1>3. ASSUME NEW c \in Container, NEW n \in Name
      PROVE  /\ Without(x)[c][n] # x
             /\ children[c][n] # x => Without(x)[c][n] = children[c][n]
             /\ Without(x)[c][n] # None => Without(x)[c][n] = children[c][n]
  BY WithoutDrops
<1>4. \A y \in Component : container'[y] =
        IF y = x THEN Engine ELSE IF y = previous THEN None ELSE container[y]
  BY DEF EngineAttach
<1>5. name' = name
  BY DEF EngineAttach
<1>6. \A c \in Container, n \in Name : children[c][n] \in Component \cup {None}
  BY DEF TreeTypeOK
<1>7. previous # None => container[previous] = Engine
  BY <1>1 DEF LinksAgree
<1> HIDE DEF previous, k
<1>8. (\A c \in Container, n \in Name :
         children[c][n] # None => container[children[c][n]] = c)'
  <2> SUFFICES ASSUME NEW c \in Container, NEW n \in Name, children'[c][n] # None
               PROVE  container'[children'[c][n]] = c
    OBVIOUS
  <2>1. CASE c = Engine /\ n = k
    BY <2>1, <1>2, <1>4
  <2>2. CASE ~(c = Engine /\ n = k)
    <3>1. /\ children'[c][n] = children[c][n]
          /\ children[c][n] # x
          /\ ~(c = Engine /\ children[c][n] = previous)
      BY <2>2, <1>2, <1>3
    <3>2. container[children[c][n]] = c /\ children[c][n] \in Component
      BY <3>1, <1>6 DEF LinksAgree
    <3>3. children[c][n] # previous
      BY <3>1, <3>2, <1>7, TreeAssumption
    <3> QED BY <3>1, <3>2, <3>3, <1>4
  <2> QED BY <2>1, <2>2
<1>9. (\A y \in Component : container[y] # None =>
         \E n \in Name : children[container[y]][n] = y)'
  <2> SUFFICES ASSUME NEW y \in Component, container'[y] # None
               PROVE  \E n \in Name : children'[container'[y]][n] = y
    OBVIOUS
  <2>1. CASE y = x
    BY <2>1, <1>1, <1>2, <1>4
  <2>2. CASE y # x
    <3>1. y # previous /\ container'[y] = container[y] /\ container[y] \in Container
      BY <2>2, <1>4 DEF TreeTypeOK, Container
    <3>2. PICK n \in Name : children[container[y]][n] = y
      BY <3>1, TreeAssumption DEF LinksAgree
    <3>3. ~(container[y] = Engine /\ n = k)
      BY <3>1, <3>2 DEF previous, k
    <3> QED BY <3>1, <3>2, <3>3, <2>2, <1>2, <1>3
  <2> QED BY <2>1, <2>2
<1>10. (\A c \in Container, m, n \in Name :
         children[c][m] = children[c][n] /\ children[c][m] # None => m = n)'
  BY <1>1, <1>2, <1>3 DEF LinksAgree
<1>11. (\A c \in Component, n \in Name : children[c][n] # None => name[children[c][n]] = n)'
  BY <1>2, <1>3, <1>5, TreeAssumption DEF LinksAgree, Container
<1> QED BY <1>8, <1>9, <1>10, <1>11 DEF LinksAgree

\* The name setter keeps them.
LEMMA RenameKeepsLinks ==
  ASSUME TreeTypeOK, LinksAgree, NEW x \in Component, NEW k \in Name,
         RenameTop(x, k) \/ Rename(x, k)
  PROVE  LinksAgree'
<1>1. CASE RenameTop(x, k)
  <2>1. \A y \in Component : name'[y] = IF y = x THEN k ELSE name[y]
    BY <1>1 DEF RenameTop, TreeTypeOK
  <2>2. container' = container /\ children' = children
    BY <1>1 DEF RenameTop
  <2>3. (\A c \in Component, n \in Name : children[c][n] # None => name[children[c][n]] = n)'
    <3> SUFFICES ASSUME NEW c \in Component, NEW n \in Name, children[c][n] # None
                 PROVE  name'[children[c][n]] = n
      BY <2>2
    <3>1. children[c][n] \in Component /\ container[children[c][n]] = c
      BY DEF TreeTypeOK, LinksAgree, Container
    <3>2. children[c][n] # x
      BY <3>1, <1>1 DEF RenameTop
    <3> QED BY <3>1, <3>2, <2>1 DEF LinksAgree
  <2> QED BY <2>2, <2>3 DEF LinksAgree
<1>2. CASE Rename(x, k)
  <2> DEFINE p == container[x]
  <2>1. p \in Component /\ p \in Container /\ x # None /\ children[p][k] = None
    BY <1>2, TreeAssumption DEF Rename, Container
  <2>2. \A c \in Container, n \in Name :
          children'[c][n] = IF c = p
                            THEN IF n = k THEN x
                                 ELSE IF n = name[x] THEN None ELSE children[c][n]
                            ELSE children[c][n]
    BY <1>2, <2>1 DEF Rename, TreeTypeOK
  <2>3. \A y \in Component : name'[y] = IF y = x THEN k ELSE name[y]
    BY <1>2 DEF Rename, TreeTypeOK
  <2>4. container' = container
    BY <1>2 DEF Rename
  <2>5. children[p][name[x]] = x
    BY <2>1, TreeAssumption DEF LinksAgree
  <2>6. \A c \in Container, n \in Name : children[c][n] \in Component \cup {None}
    BY DEF TreeTypeOK
  <2>7. \A c \in Container, n \in Name : children[c][n] = x => c = p /\ n = name[x]
    BY <2>1, <2>5, name[x] \in Name DEF LinksAgree, TreeTypeOK
  <2>8. (\A c \in Container, n \in Name :
           children[c][n] # None => container[children[c][n]] = c)'
    BY <2>2, <2>4, <2>1 DEF LinksAgree
  <2>9. (\A y \in Component : container[y] # None =>
           \E n \in Name : children[container[y]][n] = y)'
    <3> SUFFICES ASSUME NEW y \in Component, container[y] # None
                 PROVE  \E n \in Name : children'[container[y]][n] = y
      BY <2>4
    <3>1. CASE y = x
      BY <3>1, <2>1, <2>2
    <3>2. CASE y # x
      <4>1. container[y] \in Container
        BY DEF TreeTypeOK, Container
      <4>2. PICK n \in Name : children[container[y]][n] = y
        BY <4>1 DEF LinksAgree
      <4>3. y # None
        BY TreeAssumption
      <4> QED BY <4>1, <4>2, <4>3, <3>2, <2>1, <2>2, <2>5
    <3> QED BY <3>1, <3>2
  <2>10. (\A c \in Container, m, n \in Name :
           children[c][m] = children[c][n] /\ children[c][m] # None => m = n)'
    <3> SUFFICES ASSUME NEW c \in Container, NEW m \in Name, NEW n \in Name,
                        children'[c][m] = children'[c][n], children'[c][m] # None
                 PROVE  m = n
      OBVIOUS
    <3> HIDE DEF p
    <3>1. CASE c # p
      BY <3>1, <2>2 DEF LinksAgree
    <3>2. CASE c = p
      BY <3>2, <2>1, <2>2, <2>7 DEF LinksAgree
    <3> QED BY <3>1, <3>2
  <2>11. (\A c \in Component, n \in Name :
            children[c][n] # None => name[children[c][n]] = n)'
    <3> SUFFICES ASSUME NEW c \in Component, NEW n \in Name, children'[c][n] # None
                 PROVE  name'[children'[c][n]] = n
      OBVIOUS
    <3>1. c \in Container
      BY DEF Container
    <3> HIDE DEF p
    <3>2. CASE c = p /\ n = k
      BY <3>1, <3>2, <2>2, <2>3
    <3>3. CASE ~(c = p /\ n = k)
      <4>1. children'[c][n] = children[c][n] /\ children[c][n] # x
        BY <3>1, <3>3, <2>2, <2>7
      <4> QED BY <4>1, <3>1, <2>3, <2>6 DEF LinksAgree
    <3> QED BY <3>2, <3>3
  <2> QED BY <2>8, <2>9, <2>10, <2>11 DEF LinksAgree
<1> QED BY <1>1, <1>2

\* The two sides of every link agree, also after an attach that raised, whoever
\* attaches what to what: acyclicity is not needed.
THEOREM LinksAlwaysAgree == TreeSpec => []LinksAgree
<1>1. TreeInit => LinksAgree
  BY DEF TreeInit, LinksAgree, Container, Empty
<1>2. TreeTypeOK /\ LinksAgree /\ [TreeNext]_treeVars => LinksAgree'
  <2> SUFFICES ASSUME TreeTypeOK, LinksAgree, [TreeNext]_treeVars PROVE LinksAgree'
    OBVIOUS
  <2>1. CASE UNCHANGED treeVars
    BY <2>1 DEF treeVars, LinksAgree
  <2>2. CASE \E x \in Component : Change(x)
    BY <2>2, DetachKeepsLinks, AttachKeepsLinks, EngineAttachKeepsLinks, RenameKeepsLinks
       DEF Change, AttachRaises
  <2> QED BY <2>1, <2>2 DEF TreeNext, Hang
<1> QED BY <1>1, <1>2, TreeTyped, PTL DEF TreeSpec
-----------------------------------------------------------------------------
\* Containers(x) holds the parent of x and is closed upwards.
LEMMA AboveClosed ==
  ASSUME NEW x \in Component, NEW y \in Containers(x) \cup {x}, container[y] \in Component
  PROVE  container[y] \in Containers(x)
BY DEF Containers, ClosedOutward

\* Attaching x below p closes no cycle when x is neither p nor above p: a set without a
\* way out would have had none before, within p and what is above it.
LEMMA AttachKeepsAcyclic ==
  ASSUME TreeTypeOK, Acyclic, NEW x \in Component, NEW p \in Component, NEW n \in Name,
         x \notin Containers(p), Attach(p, x, n)
  PROVE  Acyclic'
<1> SUFFICES ASSUME NEW S \in SUBSET Component, S # {},
                    \A y \in S : container'[y] \in S
             PROVE  FALSE
  BY DEF Acyclic
<1>1. \A y \in Component : container'[y] = IF y = x THEN p ELSE container[y]
  BY DEF Attach, TreeTypeOK
<1>2. CASE x \notin S
  BY <1>1, <1>2 DEF Acyclic
<1>3. CASE x \in S
  <2> DEFINE T == (Containers(p) \cup {p}) \cap S
  <2>1. p \in T
    BY <1>1, <1>3
  <2>2. ASSUME NEW y \in T PROVE container[y] \in T
    <3>1. y # x
      BY DEF Attach
    <3>2. container[y] \in S
      BY <3>1, <1>1
    <3> QED BY <3>2, AboveClosed
  <2>3. T \in SUBSET Component
    OBVIOUS
  <2> HIDE DEF T
  <2> QED BY <2>1, <2>2, <2>3 DEF Acyclic
<1> QED BY <1>2, <1>3

\* Steps that only take components out of their container, or put one into the engine.
LEMMA LooserKeepsAcyclic ==
  ASSUME Acyclic, \A y \in Component : container'[y] \in {container[y], None, Engine}
  PROVE  Acyclic'
<1> SUFFICES ASSUME NEW S \in SUBSET Component, S # {}
             PROVE  \E y \in S : container'[y] \notin S
  BY DEF Acyclic
<1>1. PICK y \in S : container[y] \notin S
  BY DEF Acyclic
<1> QED BY <1>1, TreeAssumption

\* A component gets above itself when an ancestor of it is attached to it, and by no other
\* step, raising attaches included (ComponentSystem.attach).
THEOREM CycleOnlyByAttach == TreeSpec => OnlyAncestorsClose
<1> DEFINE Closes == \E x, p \in Component, n \in Name : x \in Containers(p) /\ Attach(p, x, n)
<1>1. TreeTypeOK /\ [TreeNext]_treeVars => [Acyclic /\ ~Acyclic' => Closes]_treeVars
  <2> SUFFICES ASSUME TreeTypeOK, TreeNext, Acyclic, ~Acyclic' PROVE Closes
    OBVIOUS
  <2>1. PICK x \in Component : Change(x)
    BY DEF TreeNext, Hang
  <2>2. ~Detach(x)
    BY LooserKeepsAcyclic DEF Detach, TreeTypeOK
  <2>3. ~EngineAttach(x)
    BY LooserKeepsAcyclic DEF EngineAttach, TreeTypeOK
  <2>4. ASSUME NEW n \in Name PROVE ~RenameTop(x, n) /\ ~Rename(x, n)
    BY LooserKeepsAcyclic DEF RenameTop, Rename
  <2>5. PICK p \in Component, n \in Name : Attach(p, x, n)
    BY <2>1, <2>2, <2>3, <2>4 DEF Change, AttachRaises
  <2>6. x \in Containers(p)
    BY <2>5, AttachKeepsAcyclic
  <2> QED BY <2>5, <2>6
<1> QED BY <1>1, TreeTyped, PTL DEF TreeSpec, OnlyAncestorsClose

----------------------------------------------------------------------------
(* Jobs: for any names, configurations and retries. *)

\* The state is well typed.
THEOREM JobsTyped == JobsSpec => []JobsTypeOK
<1>1. JobsInit => JobsTypeOK
  BY DEF JobsInit, JobsTypeOK, NoJobs
<1>2. JobsTypeOK /\ [JobsNext]_jobVars => JobsTypeOK'
  <2> SUFFICES ASSUME JobsTypeOK, [JobsNext]_jobVars PROVE JobsTypeOK'
    OBVIOUS
  <2>1. CASE UNCHANGED jobVars
    BY <2>1 DEF JobsTypeOK, jobVars
  <2>2. CASE StartScheduler \/ StopScheduler \/ Clear
    BY <2>2 DEF StartScheduler, StopScheduler, Clear, SyncedJobs, NoJobs, JobsTypeOK
  <2>3. ASSUME NEW j \in Job, Remove(j) PROVE JobsTypeOK'
    BY <2>3 DEF Remove, JobsTypeOK
  <2>4. ASSUME NEW j \in Job, NEW c \in Config, Add(j, c) PROVE JobsTypeOK'
    BY <2>4 DEF Add, SyncedJobs, JobsTypeOK
  <2>5. ASSUME NEW j \in Job, Fire(j) PROVE JobsTypeOK'
    BY <2>5 DEF Fire, JobsTypeOK, Execution
  <2>6. ASSUME NEW j \in Job, End(j) PROVE JobsTypeOK'
    BY <2>6 DEF End, JobsTypeOK
  <2>7. ASSUME NEW j \in Job, Raised(j) \/ Retry(j) PROVE JobsTypeOK'
    <3>1. CASE End(j)
      BY <3>1, <2>6
    <3>2. CASE ~End(j)
      <4>1. exec[j] \in Execution /\ UNCHANGED <<running, jobs, scheduled, dying>>
        BY <2>7, <3>2 DEF Raised, Retry, JobsTypeOK
      <4>2. exec' \in [Job -> Execution \cup {NoJob}]
        BY <2>7, <3>2, <4>1 DEF Raised, Retry, JobsTypeOK, Execution
      <4> QED BY <4>1, <4>2 DEF JobsTypeOK
    <3> QED BY <3>1, <3>2
  <2> QED BY <2>1, <2>2, <2>3, <2>4, <2>5, <2>6, <2>7 DEF JobsNext, Completed, Cancelled
<1> QED BY <1>1, <1>2, PTL DEF JobsSpec

\* Between two runs the scheduler may hold fewer jobs than are registered, never others.
NoneUnregistered == \A j \in Job : scheduled[j] # NoJob => jobs[j] # NoJob

\* Across adds, removals and restarts of the component, the scheduler that runs holds
\* exactly the registered jobs.
THEOREM SchedulerInStep == JobsSpec => []ScheduledRegistered
<1> DEFINE IInv == NoneUnregistered /\ ScheduledRegistered
<1>1. JobsInit => IInv
  BY DEF JobsInit, NoneUnregistered, ScheduledRegistered, NoJobs
<1>2. JobsTypeOK /\ IInv /\ [JobsNext]_jobVars => IInv'
  <2> SUFFICES ASSUME JobsTypeOK, IInv, [JobsNext]_jobVars PROVE IInv'
    OBVIOUS
  <2>1. CASE UNCHANGED <<running, jobs, scheduled>>
    BY <2>1 DEF NoneUnregistered, ScheduledRegistered
  <2>2. CASE StartScheduler \/ StopScheduler \/ Clear
    BY <2>2 DEF StartScheduler, StopScheduler, Clear, SyncedJobs, NoJobs, NoneUnregistered, ScheduledRegistered
  <2>3. ASSUME NEW j \in Job, Remove(j) PROVE IInv'
    BY <2>3 DEF Remove, NoneUnregistered, ScheduledRegistered, JobsTypeOK
  <2>4. ASSUME NEW j \in Job, NEW c \in Config, Add(j, c) PROVE IInv'
    <3>1. \A i \in Job : jobs'[i] = IF i = j THEN c ELSE jobs[i]
      BY <2>4 DEF Add, JobsTypeOK
    <3>2. scheduled' = [i \in Job |-> IF scheduled[i] # NoJob THEN scheduled[i] ELSE jobs'[i]]
      BY <2>4 DEF Add, SyncedJobs
    <3>3. \A i \in Job : jobs[i] # NoJob => jobs'[i] # NoJob
      BY <3>1, JobsAssumption
    <3>4. \A i \in Job : scheduled'[i] # NoJob <=> jobs'[i] # NoJob
      BY <3>2, <3>3 DEF NoneUnregistered
    <3> QED BY <3>4 DEF NoneUnregistered, ScheduledRegistered
  <2> QED
    BY <2>1, <2>2, <2>3, <2>4
       DEF JobsNext, jobVars, Fire, End, Completed, Raised, Retry, Cancelled
<1> QED BY <1>1, <1>2, JobsTyped, PTL DEF JobsSpec

\* How far an execution is: `retry` counts the failed calls before the pending one.
Progress ==
  \A j \in Job : exec[j] # NoJob =>
    /\ exec[j].retry <= Retries[exec[j].config]
    /\ exec[j].calls = IF exec[j].phase = "call" THEN exec[j].retry + 1 ELSE exec[j].retry

\* An execution calls the action at most once more than its configuration retries.
THEOREM RetriesBounded == JobsSpec => []AttemptsBounded
<1>1. JobsInit => Progress
  BY DEF JobsInit, Progress, NoJobs
<1>2. JobsTypeOK /\ Progress /\ [JobsNext]_jobVars => Progress'
  <2> SUFFICES ASSUME JobsTypeOK, Progress, [JobsNext]_jobVars PROVE Progress'
    OBVIOUS
  <2>1. CASE UNCHANGED exec
    BY <2>1 DEF Progress
  <2>2. ASSUME NEW j \in Job, End(j) PROVE Progress'
    BY <2>2 DEF End, Progress, JobsTypeOK
  <2>3. ASSUME NEW j \in Job, Fire(j) PROVE Progress'
    BY <2>3, JobsAssumption DEF Fire, Progress, JobsTypeOK
  <2>4. ASSUME NEW j \in Job, ~End(j), Raised(j) \/ Retry(j) PROVE Progress'
    <3>1. exec[j] \in Execution /\ Retries[exec[j].config] \in Nat
      BY <2>4, JobsAssumption DEF Raised, Retry, JobsTypeOK, Execution
    <3> QED BY <2>4, <3>1 DEF Raised, Retry, Progress, JobsTypeOK, Execution
  <2> QED
    BY <2>1, <2>2, <2>3, <2>4
       DEF JobsNext, jobVars, StartScheduler, StopScheduler, Clear, Remove, Add, Completed, Cancelled
<1>3. JobsTypeOK /\ Progress => AttemptsBounded
  BY JobsAssumption DEF JobsTypeOK, Progress, AttemptsBounded, Execution
<1> QED BY <1>1, <1>2, <1>3, JobsTyped, PTL DEF JobsSpec

----------------------------------------------------------------------------
(* PendingExports: what a load leaves in a file is kept, for any number of loads and
   restarts. *)

\* A file that does not exist holds nothing.
NothingThere ==
  /\ "pending" \notin there => pending = {}
  /\ "claimed" \notin there => claimed = {}

\* The pending file is claimed only when the earlier claim is done with.
ClaimFree == drain \in {"pending", "rename"} => claimed = {}

\* While its entries run, each of the claimed file's is in the batch or exported.
ClaimCovered == drain \in {"run", "rerun"} => claimed \subseteq batch \cup exported

\* No load has a file open that has been claimed.
OpenIsPending ==
  \A l \in Load : load[l] = "open" => handle[l] = "pending" /\ "pending" \in there

IInv == ExportsTypeOK /\ NothingThere /\ ClaimFree /\ ClaimCovered /\ OpenIsPending /\ LeftIsKept

\* Every step of the quiet specification keeps the inductive invariant.
LEMMA StepKeeps ==
  ASSUME IInv, [NextQuiet]_exportVars
  PROVE  IInv'
<1> USE DEF IInv, ExportsTypeOK, NothingThere, ClaimFree, ClaimCovered, OpenIsPending, LeftIsKept,
            Loads, Drains, files
<1>1. CASE UNCHANGED exportVars
  BY <1>1 DEF exportVars
<1>2. ASSUME NEW l \in Load, Hand(l) \/ HandFails(l) \/ Offline(l) PROVE IInv'
  BY <1>2 DEF Hand, HandFails, Offline
<1>3. ASSUME NEW l \in Load, Open(l) PROVE IInv'
  BY <1>3 DEF Open
<1>4. ASSUME NEW l \in Load, Write(l) PROVE IInv'
  <2>1. handle[l] = "pending" /\ "pending" \in there
    BY <1>4 DEF Write
  <2> QED BY <1>4, <2>1 DEF Write
<1>5. ASSUME NEW l \in Load, RunEntry(l) PROVE IInv'
  BY <1>5 DEF RunEntry
<1>6. ASSUME NEW l \in Load, ExportHanded(l) PROVE IInv'
  BY <1>6 DEF ExportHanded
<1>7. CASE EngineStarts
  BY <1>7 DEF EngineStarts
<1>8. CASE EngineStops \/ EngineDown
  BY <1>8 DEF EngineStops, EngineDown
<1>9. CASE CheckClaimed \/ CheckPending
  BY <1>9 DEF CheckClaimed, CheckPending
<1>10. CASE Read
  BY <1>10 DEF Read
<1>11. CASE Unlink
  <2>1. claimed \subseteq exported
    BY <1>11 DEF Unlink
  <2>2. \A l \in Load : load[l] = "open" => handle'[l] = "pending"
    BY <1>11 DEF Unlink
  <2> QED BY <1>11, <2>1, <2>2 DEF Unlink
<1>12. CASE QuietRename
  <2>1. claimed = {}
    BY <1>12 DEF QuietRename, RenameFile
  <2> QED BY <1>12, <2>1 DEF QuietRename, RenameFile
<1> QED
  BY <1>1, <1>2, <1>3, <1>4, <1>5, <1>6, <1>7, <1>8, <1>9, <1>10, <1>11, <1>12
     DEF NextQuiet, Others, Drain

\* The inductive invariant holds.
LEMMA Inductive == QuietSpec => []IInv
<1>1. ExportsInit => IInv
  BY DEF ExportsInit, IInv, ExportsTypeOK, NothingThere, ClaimFree, ClaimCovered, OpenIsPending,
         LeftIsKept, Loads, Drains
<1> QED BY <1>1, StepKeeps, PTL DEF QuietSpec

\* The state is well typed.
THEOREM ExportsTyped == QuietSpec => []ExportsTypeOK
<1>1. IInv => ExportsTypeOK
  BY DEF IInv
<1> QED BY <1>1, Inductive, PTL

\* What a load has left in a file is exported or still in a file, through any number of
\* stops and crashes of the engine, when no rename falls between an open and a write.
THEOREM NothingLeftIsLost == QuietSpec => []LeftIsKept
<1>1. IInv => LeftIsKept
  BY DEF IInv
<1> QED BY <1>1, Inductive, PTL
=============================================================================
