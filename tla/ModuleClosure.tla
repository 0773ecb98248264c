--------------------------- MODULE ModuleClosure ---------------------------
(***************************************************************************)
(* closure() of modules.rs: a depth-first search with an explicit stack    *)
(* over the dependency index, started from each root in turn.  A stack     *)
(* entry is pushed twice for a module that is explored: once to enter it,  *)
(* once to leave it, below its dependencies.  `active` holds the modules   *)
(* entered and not left, and meeting one of them again is a cycle.         *)
(*                                                                         *)
(* The roots and the dependencies of a module are visited in the order of  *)
(* their path strings in the code; the model leaves both orders open.      *)
(***************************************************************************)
EXTENDS Integers, Sequences, FiniteSets

CONSTANT Path                 \* module paths of modules.dep

ASSUME PathAssumption == IsFiniteSet(Path)

VARIABLES
    definitions,              \* path -> the paths it depends on
    roots,                    \* the argument `roots`
    todo,                     \* the roots not started yet
    stack,                    \* entries [path, leaving], the top is the last
    active, done,
    result                    \* "running", then "ok" or "cycle"

closureVars == <<definitions, roots, todo, stack, active, done, result>>

Entry == [path : DOMAIN definitions, leaving : BOOLEAN]

Orders(S) == {f \in [1..Cardinality(S) -> S] : \A x \in S : \E i \in DOMAIN f : f[i] = x}

Top == stack[Len(stack)]
Popped == SubSeq(stack, 1, Len(stack) - 1)
Running == result = "running"

----------------------------------------------------------------------------
StartClosure(starts) ==
    /\ roots' = starts
    /\ todo' = starts
    /\ stack' = <<>>
    /\ active' = {} /\ done' = {}
    /\ result' = "running"

ClosureInit ==
    /\ \E D \in SUBSET Path : definitions \in [D -> SUBSET D] /\ roots \in SUBSET D
    /\ todo = roots
    /\ stack = <<>>
    /\ active = {} /\ done = {}
    /\ result = "running"

NextRoot ==
    /\ Running /\ stack = <<>>
    /\ \E root \in todo :
         /\ todo' = todo \ {root}
         /\ stack' = <<[path |-> root, leaving |-> FALSE]>>
    /\ UNCHANGED <<definitions, roots, active, done, result>>

Return ==
    /\ Running /\ stack = <<>> /\ todo = {}
    /\ result' = "ok"
    /\ UNCHANGED <<definitions, roots, todo, stack, active, done>>

Leave ==
    /\ Running /\ stack # <<>> /\ Top.leaving
    /\ stack' = Popped
    /\ active' = active \ {Top.path}
    /\ done' = done \cup {Top.path}
    /\ UNCHANGED <<definitions, roots, todo, result>>

\* The finished module is looked at and left on the stack.
SkipDone_Peeks ==
    /\ Running /\ stack # <<>> /\ ~Top.leaving /\ Top.path \in done
    /\ UNCHANGED closureVars

SkipDone ==
    /\ Running /\ stack # <<>> /\ ~Top.leaving /\ Top.path \in done
    /\ stack' = Popped
    /\ UNCHANGED <<definitions, roots, todo, active, done, result>>

\* One set of visited modules stands for both active and done.
Cycle_AnyVisited ==
    /\ Running /\ stack # <<>> /\ ~Top.leaving
    /\ Top.path \in active \cup done
    /\ stack' = Popped
    /\ result' = "cycle"
    /\ UNCHANGED <<definitions, roots, todo, active, done>>

Cycle ==
    /\ Running /\ stack # <<>> /\ ~Top.leaving /\ Top.path \notin done
    /\ Top.path \in active
    /\ stack' = Popped
    /\ result' = "cycle"
    /\ UNCHANGED <<definitions, roots, todo, active, done>>

\* The entry to leave p on top of its dependencies.
Unfolded_LeaveFirst(p, order) ==
    [i \in DOMAIN order |-> [path |-> order[i], leaving |-> FALSE]]
      \o <<[path |-> p, leaving |-> TRUE]>>

\* The last dependency is not pushed.
Unfolded_DropsLast(p, order) ==
    <<[path |-> p, leaving |-> TRUE]>>
      \o [i \in 1..(Len(order) - 1) |-> [path |-> order[i], leaving |-> FALSE]]

\* The entry to leave p, then the entries to enter its dependencies.
Unfolded(p, order) ==
    <<[path |-> p, leaving |-> TRUE]>>
      \o [i \in DOMAIN order |-> [path |-> order[i], leaving |-> FALSE]]

Enter ==
    /\ Running /\ stack # <<>> /\ ~Top.leaving /\ Top.path \notin done
    /\ Top.path \notin active
    /\ active' = active \cup {Top.path}
    /\ \E order \in Orders(definitions[Top.path]) :
         stack' = Popped \o Unfolded(Top.path, order)
    /\ UNCHANGED <<definitions, roots, todo, done, result>>

ClosureStep == NextRoot \/ Return \/ Leave \/ SkipDone \/ Cycle \/ Enter

Returned == ~Running /\ UNCHANGED closureVars

ClosureSpec == ClosureInit /\ [][ClosureStep \/ Returned]_closureVars /\ WF_closureVars(ClosureStep)

----------------------------------------------------------------------------
\* The index is complete (definitions[&path] cannot panic) and every set and
\* stack entry holds paths of it.
ClosureTypeOK ==
    /\ DOMAIN definitions \subseteq Path
    /\ definitions \in [DOMAIN definitions -> SUBSET DOMAIN definitions]
    /\ roots \subseteq DOMAIN definitions /\ todo \subseteq DOMAIN definitions
    /\ stack \in Seq(Entry)
    /\ active \subseteq DOMAIN definitions /\ done \subseteq DOMAIN definitions
    /\ result \in {"running", "ok", "cycle"}

Closed(R) == \A p \in R : definitions[p] \subseteq R

\* Every member of C depends on a member of C: C holds a dependency cycle
\* or leads to one within C.
Cyclic(C) == C # {} /\ \A p \in C : definitions[p] \cap C # {}

\* The set that closure() returns is the least one that holds the roots and,
\* with a module, the modules it depends on: nothing a selected module needs
\* is left out of the initrd and nothing else is put in.
ReturnsLeastClosedSet ==
    result = "ok" =>
      /\ roots \subseteq done /\ Closed(done)
      /\ \A R \in SUBSET DOMAIN definitions : roots \subseteq R /\ Closed(R) => done \subseteq R

\* closure() reports a dependency cycle only when the index has one; two
\* modules that share a dependency, or a root that is also a dependency of an
\* earlier root, are not mistaken for one.
CycleIsReal == result = "cycle" => \E C \in SUBSET DOMAIN definitions : Cyclic(C)

\* An index that closure() accepts has no cycle among the modules it returned,
\* so resolve(), which first runs it on every path, refuses every cyclic index.
AcceptedIsAcyclic == result = "ok" => \A C \in SUBSET done : ~Cyclic(C)

\* closure() tells cyclic from acyclic in both directions: a cycle it reports is
\* one, and what it accepts has none.
CycleVerdictIsExact == CycleIsReal /\ AcceptedIsAcyclic

\* A module is finished only after everything it depends on is finished.
DependenciesFirst == [][\A p \in done' \ done : definitions[p] \subseteq done]_closureVars
============================================================================
