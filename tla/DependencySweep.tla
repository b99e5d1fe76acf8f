-------------------------- MODULE DependencySweep --------------------------
(***************************************************************************)
(* hell_compiler::cyclic_nodes: the sweep that takes declarations without  *)
(* unresolved dependencies away, one by one, until only those are left     *)
(* that lie on a cycle or are blocked by one.  Both callers sort the       *)
(* dependencies of a declaration and take duplicates away: they are a set. *)
(* The order in which ready declarations are taken is left open.           *)
(***************************************************************************)
EXTENDS Naturals, FiniteSets

CONSTANT Declarations

ASSUME DeclarationsFinite == IsFiniteSet(Declarations)

VARIABLES
  dependencies,   \* what each declaration refers to
  unresolved,     \* how many of those have not been taken away
  ready           \* the queue

sweepVars == <<dependencies, unresolved, ready>>

SweepInit ==
  /\ dependencies \in [Declarations -> SUBSET Declarations]
  /\ unresolved = [d \in Declarations |-> Cardinality(dependencies[d])]
  /\ ready = {d \in Declarations : unresolved[d] = 0}

Dependents(d) == {e \in Declarations : d \in dependencies[e]}

(* Mutant of Resolve: a dependent is ready as soon as it is met.           *)
ResolveEagerly(d) ==
  /\ unresolved' = [e \in Declarations |->
                      IF e \in Dependents(d) THEN unresolved[e] - 1 ELSE unresolved[e]]
  /\ ready' = (ready \ {d}) \cup Dependents(d)

Resolve(d) ==
  /\ unresolved' = [e \in Declarations |->
                      IF e \in Dependents(d) THEN unresolved[e] - 1 ELSE unresolved[e]]
  /\ ready' = (ready \ {d}) \cup {e \in Dependents(d) : unresolved'[e] = 0}

Sweep ==
  \E d \in ready : Resolve(d) /\ UNCHANGED dependencies

SweepSpec == SweepInit /\ [][Sweep]_sweepVars

----------------------------------------------------------------------------

(* What cyclic_nodes returns.                                              *)
Blocked == {d \in Declarations : unresolved[d] > 0}

(* Declarations each of which refers to another one of them: every cycle,  *)
(* and every set of declarations none of which can come first.             *)
Stuck(S) == \A d \in S : dependencies[d] \cap S # {}

SweepTypeOK ==
  /\ dependencies \in [Declarations -> SUBSET Declarations]
  /\ unresolved \in [Declarations -> Nat]
  /\ ready \in SUBSET Declarations

(* No declaration of a cycle, nor one that leads to a cycle, is ever taken *)
(* away, and when nothing is ready any more, what is left is exactly that: *)
(* a program is refused if and only if its declarations are cyclic.        *)
CyclesFound ==
  /\ \A S \in SUBSET Declarations : Stuck(S) => S \subseteq Blocked
  /\ ready = {} => Stuck(Blocked)
=============================================================================
