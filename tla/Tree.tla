-------------------------------- MODULE Tree --------------------------------
(***************************************************************************)
(* The component tree: attach, detach and rename of ComponentSystem        *)
(* (ceres/component.py), attach and detach of Engine (ceres/engine.py).    *)
(*                                                                         *)
(* A link of the tree is kept twice: in the _container of the child, and   *)
(* under a name in the _children of the component or the _components of    *)
(* the engine that contains it.  All operations are synchronous; one that  *)
(* raises is an action too, with what it has changed before it raises.     *)
(***************************************************************************)
EXTENDS Components, Naturals, FiniteSets

CONSTANTS Name, Engine

ASSUME TreeAssumption ==
  /\ None \notin Component
  /\ Engine \notin Component
  /\ None # Engine

VARIABLES
  container,  \* _container
  name,       \* _name
  children    \* _children of each component, _components of the engine

treeVars == <<container, name, children>>

Container == Component \cup {Engine}
Empty == [n \in Name |-> None]

TreeInit ==
  /\ container = [x \in Component |-> None]
  /\ name \in [Component -> Name]
  /\ children = [c \in Container |-> Empty]

\* The components above x: the least set that holds x's parent and is closed upwards.
ClosedOutward(x, S) == \A y \in S \cup {x} : container[y] \in Component => container[y] \in S
Containers(x) == {a \in Component : \A S \in SUBSET Component : ClosedOutward(x, S) => a \in S}
-----------------------------------------------------------------------------
\* detach: the registry of the container drops x; the engine's by identity, a
\* component's by name.
WithoutByName(x) ==
  [c \in Container |->
    IF c = container[x] THEN [children[c] EXCEPT ![name[x]] = None] ELSE children[c]]

Without(x) ==
  [c \in Container |->
    IF c # container[x] THEN children[c]
    ELSE [n \in Name |->
           IF children[c][n] = x /\ (c = Engine \/ n = name[x]) THEN None
           ELSE children[c][n]]]

Detach(x) ==
  /\ children' = Without(x)
  /\ container' = [container EXCEPT ![x] = None]
  /\ UNCHANGED name

\* ComponentSystem.contains(child) climbs from the child's parent and compares with the
\* child itself, whatever component it is called on: of a tree it is never true.
Contains(p, x) == x \in Containers(x)

\* ComponentSystem.attach: the child is detached first, then the name is looked up, and
\* attach raises when it is taken.  Below itself it is attached too.
Attach(p, x, n) ==
  /\ x # p /\ ~Contains(p, x)
  /\ Without(x)[p][n] = None
  /\ children' = [Without(x) EXCEPT ![p][n] = x]
  /\ container' = [container EXCEPT ![x] = p]
  /\ name' = [name EXCEPT ![x] = n]

AttachRaises(p, x, n) ==
  /\ x # p /\ ~Contains(p, x)
  /\ Without(x)[p][n] # None
  /\ Detach(x)

\* The name setter of a component without a parent: detached, or on top of the engine.
RenameTop(x, n) ==
  /\ container[x] \notin Component
  /\ name' = [name EXCEPT ![x] = n]
  /\ UNCHANGED <<container, children>>

\* The name setter of a child: the registration moves, unless the name is taken.
Rename(x, n) ==
  /\ container[x] \in Component
  /\ children[container[x]][n] = None
  /\ name' = [name EXCEPT ![x] = n]
  /\ children' = [children EXCEPT ![container[x]] =
                   [m \in Name |-> IF m = n THEN x ELSE IF m = name[x] THEN None ELSE @[m]]]
  /\ UNCHANGED container

\* Engine.attach: a component that has the name is replaced.  (With a name it is
\* Rename or RenameTop and then this.)  The container setter, which it calls when the
\* component is registered already, only assigns.
EngineAttach(x) ==
  LET previous == children[Engine][name[x]] IN
  /\ previous # x
  /\ children' = [c \in Container |->
       [n \in Name |->
         IF c = Engine /\ n = name[x] THEN x
         ELSE IF c = Engine /\ children[c][n] = previous THEN None
         ELSE Without(x)[c][n]]]
  /\ container' = [y \in Component |->
       IF y = x THEN Engine ELSE IF y = previous THEN None ELSE container[y]]
  /\ UNCHANGED name

\* No component is above itself: every set of components has one contained outside of it.
Acyclic == \A S \in SUBSET Component : S # {} => \E x \in S : container[x] \notin S

Change(x) ==
  \/ container[x] # None /\ Detach(x)
  \/ EngineAttach(x)
  \/ \E n \in Name : RenameTop(x, n) \/ Rename(x, n)
  \/ \E p \in Component, n \in Name : Attach(p, x, n) \/ AttachRaises(p, x, n)

\* __propagate_tree_change climbs a cycle for ever: nothing runs any more.
Hang == ~Acyclic /\ UNCHANGED treeVars

TreeNext == (Acyclic /\ \E x \in Component : Change(x)) \/ Hang

TreeSpec == TreeInit /\ [][TreeNext]_treeVars
-----------------------------------------------------------------------------
TreeTypeOK ==
  /\ container \in [Component -> Container \cup {None}]
  /\ name \in [Component -> Name]
  /\ children \in [Container -> [Name -> Component \cup {None}]]

\* The two sides of every link agree, whatever is attached, detached and renamed in which
\* order, raising attaches included (ComponentSystem.attach, detach and name, Engine.attach
\* and detach): what a registry holds has that container, a contained component is
\* registered with its container, there once, and below a component under its own name.
LinksAgree ==
  /\ \A c \in Container, n \in Name :
       children[c][n] # None => container[children[c][n]] = c
  /\ \A x \in Component : container[x] # None => \E n \in Name : children[container[x]][n] = x
  /\ \A c \in Container, m, n \in Name :
       children[c][m] = children[c][n] /\ children[c][m] # None => m = n
  /\ \A c \in Component, n \in Name : children[c][n] # None => name[children[c][n]] = n

\* attach raises ValueError "If the child is this component itself, an ancestor, or ..."
\* (component.py:2282): the attach of an ancestor is what it lets pass, and the only step
\* that puts a component above itself.
OnlyAncestorsClose ==
  [][Acyclic /\ ~Acyclic' =>
       \E x, p \in Component, n \in Name : x \in Containers(p) /\ Attach(p, x, n)]_treeVars
=============================================================================
