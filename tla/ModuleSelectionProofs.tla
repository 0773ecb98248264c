----------------------- MODULE ModuleSelectionProofs -----------------------
(***************************************************************************)
(* The closure of dependencies and build --module, for every tree and      *)
(* every request.  First closure(), from any state it may be started in:   *)
(* what it returns is the least closed set, and it reports cycles and only *)
(* cycles.  Then the command: both its searches run on a complete index    *)
(* and the second one cannot meet a cycle, a request is refused exactly    *)
(* when it should be, and the archive of an accepted one has what the      *)
(* request needs and no more.                                              *)
(***************************************************************************)
EXTENDS ModuleSelection, FiniteSetTheorems, SequenceTheorems, TLAPS

\* closure().
Leaving(s, i) == i \in 1..Len(s) /\ s[i].leaving

\* No module is being left strictly between the two places of the stack.
Adjacent(s, i, j) == i < j /\ \A k \in 1..Len(s) : i < k /\ k < j => ~s[k].leaving

\* The modules to leave are the active ones, each once.
ActiveInv ==
    /\ \A p \in active : \E i \in 1..Len(stack) : Leaving(stack, i) /\ stack[i].path = p
    /\ \A i \in 1..Len(stack) : stack[i].leaving => stack[i].path \in active
    /\ \A i, j \in 1..Len(stack) :
         stack[i].leaving /\ stack[j].leaving /\ stack[i].path = stack[j].path => i = j
    /\ active \cap done = {}

\* Above a module to leave are its dependencies, up to the next one to leave;
\* every dependency is above it or done.
StackInv ==
    /\ \A i, j \in 1..Len(stack) :
         Leaving(stack, i) /\ Adjacent(stack, i, j) => stack[j].path \in definitions[stack[i].path]
    /\ \A i, j \in 1..Len(stack) :
         Leaving(stack, i) /\ Leaving(stack, j) /\ i < j =>
           \E k \in 1..Len(stack) : Leaving(stack, k) /\ Adjacent(stack, i, k)
    /\ \A i \in 1..Len(stack) : stack[i].leaving =>
         \A e \in definitions[stack[i].path] :
           e \in done \/ \E j \in 1..Len(stack) : i < j /\ stack[j].path = e

\* What is done is closed and acyclic, and only what must be visited is.
DoneInv ==
    /\ Closed(done)
    /\ \A C \in SUBSET done : ~Cyclic(C)
    /\ \A R \in SUBSET DOMAIN definitions : roots \subseteq R /\ Closed(R) =>
         done \subseteq R /\ \A i \in 1..Len(stack) : stack[i].path \in R

\* No root is forgotten.
RootsInv ==
    /\ todo \subseteq roots
    /\ \A r \in roots : r \in done \/ r \in todo
                          \/ (stack # <<>> /\ stack[1].path = r)

SearchInv == ClosureTypeOK /\ ActiveInv /\ StackInv /\ DoneInv /\ RootsInv

\* The invariant of the search, and what the two ways to return leave true.
ClosureInv ==
    /\ ClosureTypeOK
    /\ Running => SearchInv
    /\ ReturnsLeastClosedSet /\ CycleIsReal /\ AcceptedIsAcyclic

----------------------------------------------------------------------------
\* A concatenation, piece by piece.
LEMMA ConcatFacts ==
  ASSUME NEW S, NEW s \in Seq(S), NEW t \in Seq(S)
  PROVE  /\ s \o t \in Seq(S) /\ Len(s \o t) = Len(s) + Len(t)
         /\ \A i \in 1..Len(s) : (s \o t)[i] = s[i]
         /\ \A i \in 1..Len(t) : (s \o t)[Len(s) + i] = t[i]
<1>1. Len(s) \in Nat /\ Len(t) \in Nat
  BY LenProperties
<1>2. s \o t \in Seq(S) /\ Len(s \o t) = Len(s) + Len(t)
  BY ConcatProperties
<1>3. \A i \in 1..(Len(s) + Len(t)) :
         (s \o t)[i] = IF i <= Len(s) THEN s[i] ELSE t[i - Len(s)]
  BY ConcatProperties, Zenon
<1>4. ASSUME NEW i \in 1..Len(s) PROVE (s \o t)[i] = s[i]
  BY <1>1, <1>3
<1>5. ASSUME NEW i \in 1..Len(t) PROVE (s \o t)[Len(s) + i] = t[i]
  BY <1>1, <1>3
<1> QED
  BY <1>2, <1>4, <1>5

\* Popping an entry keeps the entries below it.
LEMMA PopFacts ==
  ASSUME NEW S, NEW s \in Seq(S), s # <<>>
  PROVE  LET q == SubSeq(s, 1, Len(s) - 1) IN
           /\ Len(s) \in 1..Len(s) /\ s[Len(s)] \in S /\ Len(s) \in Nat
           /\ q \in Seq(S) /\ Len(q) = Len(s) - 1
           /\ \A i \in 1..(Len(s) - 1) : q[i] = s[i] /\ i \in 1..Len(s)
           /\ \A i \in 1..Len(s) : i # Len(s) => i \in 1..(Len(s) - 1)
<1> DEFINE n == Len(s)
           q == SubSeq(s, 1, n - 1)
<1>1. n \in Nat /\ n >= 1 /\ \A i \in 1..n : s[i] \in S
  OBVIOUS
<1>2. \A i \in 1..(n - 1) : s[i] \in S
  BY <1>1
<1>3. q \in Seq(S)
  BY <1>1
<1>4. Len(q) = n - 1
  <2>1. 1 \in Int /\ n - 1 \in Int
    BY <1>1
  <2>2. Len(q) = IF 1 <= n - 1 THEN (n - 1) - 1 + 1 ELSE 0
    BY <2>1, <1>2, SubSeqProperties
  <2>3. CASE n = 1
    <3>1. ~(1 <= n - 1) /\ n - 1 = 0
      BY <2>3
    <3> QED
      BY <2>2, <3>1, Zenon
  <2>4. CASE n # 1
    <3> HIDE DEF n, q
    <3>1. 1 <= n - 1 /\ (n - 1) - 1 + 1 = n - 1
      BY <1>1, <2>4
    <3> QED
      BY <2>2, <3>1, Zenon
  <2> QED
    BY <2>3, <2>4
<1>5. \A i \in 1..(n - 1) : q[i] = s[i]
  BY <1>1
<1> HIDE DEF q
<1> QED
  BY <1>1, <1>3, <1>4, <1>5 DEF q

\* The dependencies of a module can be put in an order.
LEMMA OrderFacts ==
  ASSUME NEW S \in SUBSET Path, NEW order \in Orders(S)
  PROVE  /\ order \in Seq(S) /\ Len(order) \in Nat /\ DOMAIN order = 1..Len(order)
         /\ \A x \in S : \E i \in 1..Len(order) : order[i] = x
         /\ \A i \in 1..Len(order) : order[i] \in S
<1>1. IsFiniteSet(S)
  BY PathAssumption, FS_Subset
<1>2. Cardinality(S) \in Nat
  BY <1>1, FS_CardinalityType
<1>3. order \in [1..Cardinality(S) -> S] /\ \A x \in S : \E i \in DOMAIN order : order[i] = x
  BY DEF Orders
<1>4. order \in Seq(S) /\ Len(order) = Cardinality(S)
  BY <1>2, <1>3
<1> QED
  BY <1>2, <1>3, <1>4

\* The entries pushed for a module: the one to leave it, then its dependencies.
LEMMA UnfoldedFacts ==
  ASSUME NEW S, NEW p \in S, NEW order \in Seq(S)
  PROVE  /\ Unfolded(p, order) \in Seq([path : S, leaving : BOOLEAN])
         /\ Len(order) \in Nat /\ Len(Unfolded(p, order)) = 1 + Len(order)
         /\ Unfolded(p, order)[1] = [path |-> p, leaving |-> TRUE]
         /\ \A i \in 1..Len(order) :
              Unfolded(p, order)[1 + i] = [path |-> order[i], leaving |-> FALSE]
<1>1. Len(order) \in Nat /\ DOMAIN order = 1..Len(order) /\ \A i \in 1..Len(order) : order[i] \in S
  OBVIOUS
<1>2. PICK E : E = [path : S, leaving : BOOLEAN]
  OBVIOUS
<1>3. PICK x : x = [path |-> p, leaving |-> TRUE]
  OBVIOUS
<1>4. PICK pushed : pushed = [i \in DOMAIN order |-> [path |-> order[i], leaving |-> FALSE]]
  OBVIOUS
<1>5. x \in E
  BY <1>2, <1>3
<1>6. pushed \in [1..Len(order) -> E]
      /\ \A i \in 1..Len(order) : pushed[i] = [path |-> order[i], leaving |-> FALSE]
  BY <1>1, <1>2, <1>4
<1>7. pushed \in Seq(E) /\ Len(pushed) = Len(order)
  BY <1>1, <1>6
<1>8. <<x>> \in Seq(E) /\ Len(<<x>>) = 1 /\ <<x>>[1] = x
  BY <1>5
<1>9. PICK h : h = <<x>>
  OBVIOUS
<1>10. h \in Seq(E) /\ Len(h) = 1 /\ h[1] = x
  BY <1>8, <1>9
<1>11. /\ h \o pushed \in Seq(E) /\ Len(h \o pushed) = Len(h) + Len(pushed)
       /\ (\A i \in 1..Len(h) : (h \o pushed)[i] = h[i])
       /\ \A i \in 1..Len(pushed) : (h \o pushed)[Len(h) + i] = pushed[i]
  <2>1. h \in Seq(E) /\ pushed \in Seq(E)
    BY <1>10, <1>7
  <2> QED
    BY ONLY <2>1, ConcatFacts
<1>12. Unfolded(p, order) = h \o pushed
  BY <1>3, <1>4, <1>9 DEF Unfolded
<1>13. PICK u : u = h \o pushed
  OBVIOUS
<1>14. /\ u \in Seq(E) /\ Len(u) = 1 + Len(order) /\ u[1] = x
       /\ \A i \in 1..Len(order) : u[1 + i] = pushed[i]
  BY <1>11, <1>13, <1>10, <1>7
<1> QED
  BY <1>1, <1>2, <1>3, <1>6, <1>12, <1>13, <1>14

----------------------------------------------------------------------------
\* The search starts in a state of its invariant.
LEMMA InitSearch == ClosureInit => SearchInv
<1> SUFFICES ASSUME ClosureInit PROVE SearchInv
  OBVIOUS
<1>1. PICK D \in SUBSET Path : definitions \in [D -> SUBSET D] /\ roots \in SUBSET D
  BY DEF ClosureInit
<1>2. stack = <<>> /\ Len(stack) = 0 /\ done = {} /\ active = {} /\ todo = roots /\ result = "running"
  BY DEF ClosureInit
<1>3. ClosureTypeOK
  BY <1>1, <1>2 DEF ClosureTypeOK, Entry
<1>4. ActiveInv /\ StackInv /\ RootsInv
  BY <1>2 DEF ActiveInv, StackInv, RootsInv, Leaving
<1>5. DoneInv
  BY <1>2 DEF DoneInv, Closed, Cyclic
<1> QED
  BY <1>3, <1>4, <1>5 DEF SearchInv

\* The stack of the search, its top and what is left when it is popped.
LEMMA TopFacts ==
  ASSUME ClosureTypeOK, stack # <<>>
  PROVE  /\ Len(stack) \in Nat /\ Len(stack) >= 1
         /\ Top = stack[Len(stack)] /\ Top.path \in DOMAIN definitions /\ Top.leaving \in BOOLEAN
         /\ Popped \in Seq(Entry) /\ Len(Popped) = Len(stack) - 1
         /\ \A i \in 1..(Len(stack) - 1) : Popped[i] = stack[i]
         /\ \A i \in 1..Len(stack) : /\ stack[i].path \in DOMAIN definitions
                                     /\ stack[i].leaving \in BOOLEAN
<1>1. PICK E : E = Entry
  OBVIOUS
<1>2. stack \in Seq(E) /\ stack # <<>>
  BY <1>1 DEF ClosureTypeOK
<1>3. /\ Len(stack) \in Nat /\ Len(stack) \in 1..Len(stack) /\ stack[Len(stack)] \in E
      /\ Popped \in Seq(E) /\ Len(Popped) = Len(stack) - 1
      /\ \A i \in 1..(Len(stack) - 1) : Popped[i] = stack[i]
  BY <1>2, PopFacts DEF Popped
<1>4. \A i \in 1..Len(stack) : stack[i] \in E
  BY <1>2, ElementOfSeq
<1> QED
  BY <1>1, <1>3, <1>4 DEF Top, Entry

\* Starting with the next root.
LEMMA RootSearch == SearchInv /\ NextRoot => SearchInv'
<1> SUFFICES ASSUME SearchInv, NextRoot PROVE SearchInv'
  OBVIOUS
<1> USE DEF SearchInv
<1>1. PICK root \in todo : /\ todo' = todo \ {root}
                            /\ stack' = <<[path |-> root, leaving |-> FALSE]>>
  BY DEF NextRoot
<1>2. /\ stack = <<>> /\ Len(stack) = 0
      /\ UNCHANGED <<definitions, roots, active, done, result>>
  BY DEF NextRoot
<1>3. root \in DOMAIN definitions /\ root \in roots
  BY DEF ClosureTypeOK, RootsInv
<1>4. /\ Len(stack') = 1 /\ stack'[1].path = root /\ stack'[1].leaving = FALSE
      /\ stack' # <<>>
  BY <1>1
<1>5. ClosureTypeOK'
  <2>1. stack' \in Seq(Entry')
    BY <1>1, <1>2, <1>3 DEF Entry
  <2> QED
    BY <2>1, <1>1, <1>2 DEF ClosureTypeOK
<1>6. \A i \in 1..Len(stack') : stack'[i].path = root /\ stack'[i].leaving = FALSE
  BY <1>4
<1>7. active = {}
  BY <1>2 DEF ActiveInv
<1>8. ActiveInv'
  BY <1>2, <1>6, <1>7 DEF ActiveInv
<1>9. StackInv'
  BY <1>2, <1>6 DEF StackInv, Leaving
<1>10. DoneInv'
  BY <1>2, <1>3, <1>6 DEF DoneInv, Closed, Cyclic
<1>11. RootsInv'
  BY <1>1, <1>2, <1>4 DEF RootsInv
<1> QED
  BY <1>5, <1>8, <1>9, <1>10, <1>11

\* Popping changes nothing among the entries that stay.
LEMMA PopKeeps ==
  ASSUME ClosureTypeOK, stack # <<>>, stack' = Popped
  PROVE  /\ Len(stack) \in Nat /\ Len(stack) >= 1 /\ Len(stack') = Len(stack) - 1
         /\ \A i \in 1..(Len(stack) - 1) :
              /\ i \in 1..Len(stack) /\ i < Len(stack) /\ stack'[i] = stack[i]
              /\ (Leaving(stack', i) <=> Leaving(stack, i))
         /\ \A i, j \in 1..(Len(stack) - 1) : (Adjacent(stack', i, j) <=> Adjacent(stack, i, j))
<1>1. PICK n : n = Len(stack)
  OBVIOUS
<1>2. /\ n \in Nat /\ n >= 1 /\ Len(stack') = n - 1
      /\ (\A i \in 1..(n - 1) : stack'[i] = stack[i])
  BY <1>1, TopFacts
<1>3. ASSUME NEW i \in 1..(n - 1)
      PROVE  /\ i \in 1..n /\ i < n /\ stack'[i] = stack[i] /\ (Leaving(stack', i) <=> Leaving(stack, i))
  BY <1>1, <1>2 DEF Leaving
<1>4. ASSUME NEW i \in 1..(n - 1), NEW j \in 1..(n - 1)
      PROVE  (Adjacent(stack', i, j) <=> Adjacent(stack, i, j))
  <2>1. \A k \in 1..n : i < k /\ k < j => k \in 1..(n - 1)
    BY <1>2
  <2>2. \A k \in 1..(n - 1) : k \in 1..n
    BY <1>2
  <2>3. ASSUME Adjacent(stack', i, j), NEW k \in 1..n, i < k, k < j PROVE ~stack[k].leaving
    BY <2>1, <2>3, <1>2 DEF Adjacent
  <2>4. ASSUME Adjacent(stack, i, j), NEW k \in 1..(n - 1), i < k, k < j PROVE ~stack'[k].leaving
    BY <2>2, <2>4, <1>1, <1>2 DEF Adjacent
  <2>5. Adjacent(stack, i, j) <=> i < j /\ \A k \in 1..n : i < k /\ k < j => ~stack[k].leaving
    BY <1>1 DEF Adjacent
  <2>6. Adjacent(stack', i, j) <=> i < j /\ \A k \in 1..(n - 1) : i < k /\ k < j => ~stack'[k].leaving
    BY <1>2 DEF Adjacent
  <2> QED
    BY <2>3, <2>4, <2>5, <2>6
<1> QED
  BY <1>1, <1>2, <1>3, <1>4

\* Dropping the entry of a finished module.
LEMMA SkipSearch == SearchInv /\ SkipDone => SearchInv'
<1> SUFFICES ASSUME SearchInv, SkipDone PROVE SearchInv'
  OBVIOUS
<1> USE DEF SearchInv
<1>1. /\ stack # <<>> /\ ~Top.leaving /\ Top.path \in done /\ stack' = Popped
      /\ UNCHANGED <<definitions, roots, todo, active, done, result>>
  BY DEF SkipDone
<1>2. PICK n : n = Len(stack)
  OBVIOUS
<1>3. /\ n \in Nat /\ n >= 1 /\ Len(stack') = n - 1
      /\ \A i \in 1..(n - 1) : /\ i \in 1..n /\ i < n /\ stack'[i] = stack[i]
                              /\ (Leaving(stack', i) <=> Leaving(stack, i))
      /\ \A i, j \in 1..(n - 1) : (Adjacent(stack', i, j) <=> Adjacent(stack, i, j))
  BY <1>1, <1>2, PopKeeps
<1>4. /\ ~stack[n].leaving /\ stack[n].path \in done /\ stack' \in Seq(Entry)
      /\ \A i \in 1..n : i # n => i \in 1..(n - 1)
  BY <1>1, <1>2, <1>3, TopFacts
<1>5. ClosureTypeOK'
  BY <1>1, <1>4 DEF ClosureTypeOK, Entry
<1>6. ActiveInv'
  BY <1>1, <1>2, <1>3, <1>4 DEF ActiveInv, Leaving
<1>7. StackInv'
  <2>1. ASSUME NEW i \in 1..(n - 1), NEW j \in 1..(n - 1), Leaving(stack', i), Adjacent(stack', i, j)
        PROVE  stack'[j].path \in definitions'[stack'[i].path]
    <3>1. Leaving(stack, i) /\ Adjacent(stack, i, j) /\ i \in 1..n /\ j \in 1..n
      BY <2>1, <1>3
    <3> QED
      BY <3>1, <1>1, <1>2, <1>3 DEF StackInv
  <2>2. ASSUME NEW i \in 1..(n - 1), NEW j \in 1..(n - 1), Leaving(stack', i), Leaving(stack', j), i < j
        PROVE  \E k \in 1..(n - 1) : Leaving(stack', k) /\ Adjacent(stack', i, k)
    <3>1. Leaving(stack, i) /\ Leaving(stack, j) /\ i \in 1..n /\ j \in 1..n
      BY <2>2, <1>3
    <3>2. PICK k \in 1..n : Leaving(stack, k) /\ Adjacent(stack, i, k)
      BY <3>1, <2>2, <1>2 DEF StackInv
    <3>3. k \in 1..(n - 1)
      BY <3>2, <1>4 DEF Leaving
    <3> QED
      BY <3>2, <3>3, <1>3
  <2>3. ASSUME NEW i \in 1..(n - 1), stack'[i].leaving, NEW e \in definitions'[stack'[i].path]
        PROVE  e \in done' \/ \E j \in 1..(n - 1) : i < j /\ stack'[j].path = e
    <3>1. i \in 1..n /\ stack[i].leaving /\ e \in definitions[stack[i].path]
      BY <2>3, <1>1, <1>3
    <3>2. CASE e \in done
      BY <3>2, <1>1
    <3>3. CASE e \notin done
      <4>1. PICK j \in 1..n : i < j /\ stack[j].path = e
        BY <3>1, <3>3, <1>2 DEF StackInv
      <4>2. j \in 1..(n - 1)
        BY <4>1, <3>3, <1>4
      <4> QED
        BY <4>1, <4>2, <1>3
    <3> QED
      BY <3>2, <3>3
  <2> QED
    BY <1>3, <2>1, <2>2, <2>3 DEF StackInv
<1>8. DoneInv'
  <2>1. \A R : Closed(R)' <=> Closed(R)
    BY <1>1 DEF Closed
  <2>2. \A R : Cyclic(R)' <=> Cyclic(R)
    BY <1>1 DEF Cyclic
  <2>3. ASSUME NEW R \in SUBSET DOMAIN definitions, roots \subseteq R, Closed(R)
        PROVE  done \subseteq R /\ \A i \in 1..(n - 1) : stack'[i].path \in R
    BY <2>3, <1>2, <1>3 DEF DoneInv
  <2> QED
    BY <2>1, <2>2, <2>3, <1>1, <1>3 DEF DoneInv
<1>9. RootsInv'
  <2>1. n = 1 => stack[1].path \in done
    BY <1>4
  <2>2. n # 1 => 1 \in 1..(n - 1) /\ Len(stack') # 0
    BY <1>3
  <2>3. n # 1 => stack' # <<>> /\ stack'[1] = stack[1]
    BY <2>2, <1>3
  <2> QED
    BY <2>1, <2>3, <1>1 DEF RootsInv
<1> QED
  BY <1>5, <1>6, <1>7, <1>8, <1>9

\* When a module is left all its dependencies are done, so the set of finished
\* modules stays closed and gets no cycle.
LEMMA LeaveSearch == SearchInv /\ Leave => SearchInv' /\ definitions[Top.path] \subseteq done
<1> SUFFICES ASSUME SearchInv, Leave
             PROVE  SearchInv' /\ definitions[Top.path] \subseteq done
  OBVIOUS
<1> USE DEF SearchInv
<1>1. PICK n, q : n = Len(stack) /\ q = Top.path
  OBVIOUS
<1>2. /\ stack # <<>> /\ Top.leaving /\ stack' = Popped
      /\ active' = active \ {q} /\ done' = done \cup {q}
      /\ UNCHANGED <<definitions, roots, todo, result>>
  BY <1>1 DEF Leave
<1>3. /\ n \in Nat /\ n >= 1 /\ Len(stack') = n - 1
      /\ \A i \in 1..(n - 1) : /\ i \in 1..n /\ i < n /\ stack'[i] = stack[i]
                              /\ (Leaving(stack', i) <=> Leaving(stack, i))
      /\ \A i, j \in 1..(n - 1) : (Adjacent(stack', i, j) <=> Adjacent(stack, i, j))
  BY <1>1, <1>2, PopKeeps
<1>4. /\ stack[n].leaving /\ stack[n].path = q /\ q \in DOMAIN definitions
      /\ stack' \in Seq(Entry) /\ n \in 1..n
      /\ \A i \in 1..n : i # n => i \in 1..(n - 1)
  BY <1>1, <1>2, <1>3, TopFacts
<1>5. definitions[q] \subseteq done
  <2>1. ASSUME NEW e \in definitions[q] PROVE e \in done
    <3>1. ~\E j \in 1..n : n < j
      BY <1>3
    <3> QED
      BY <3>1, <1>1, <1>4 DEF StackInv
  <2> QED
    BY <2>1
<1>6. q \in active /\ q \notin done
  BY <1>1, <1>4 DEF ActiveInv
<1>7. ClosureTypeOK'
  BY <1>2, <1>4 DEF ClosureTypeOK, Entry
<1>8. ActiveInv'
  <2>1. ASSUME NEW p \in active'
        PROVE  \E i \in 1..(n - 1) : Leaving(stack', i) /\ stack'[i].path = p
    <3>1. PICK i \in 1..n : Leaving(stack, i) /\ stack[i].path = p
      BY <1>1, <1>2 DEF ActiveInv
    <3>2. i \in 1..(n - 1)
      BY <3>1, <1>2, <1>4
    <3> QED
      BY <3>1, <3>2, <1>3
  <2>2. ASSUME NEW i \in 1..(n - 1), stack'[i].leaving PROVE stack'[i].path \in active'
    <3>1. i \in 1..n /\ i # n /\ stack[i].leaving
      BY <2>2, <1>3
    <3>2. stack[i].path # q
      BY <3>1, <1>1, <1>4 DEF ActiveInv
    <3> QED
      BY <3>1, <3>2, <1>1, <1>2, <1>3 DEF ActiveInv
  <2>3. ASSUME NEW i \in 1..(n - 1), NEW j \in 1..(n - 1), stack'[i].leaving, stack'[j].leaving,
               stack'[i].path = stack'[j].path
        PROVE  i = j
    BY <2>3, <1>1, <1>3 DEF ActiveInv
  <2>4. active' \cap done' = {}
    BY <1>2 DEF ActiveInv
  <2> QED
    BY <1>3, <2>1, <2>2, <2>3, <2>4 DEF ActiveInv
<1>9. StackInv'
  <2>1. ASSUME NEW i \in 1..(n - 1), NEW j \in 1..(n - 1), Leaving(stack', i), Adjacent(stack', i, j)
        PROVE  stack'[j].path \in definitions'[stack'[i].path]
    <3>1. Leaving(stack, i) /\ Adjacent(stack, i, j) /\ i \in 1..n /\ j \in 1..n
      BY <2>1, <1>3
    <3> QED
      BY <3>1, <1>1, <1>2, <1>3 DEF StackInv
  <2>2. ASSUME NEW i \in 1..(n - 1), NEW j \in 1..(n - 1), Leaving(stack', i), Leaving(stack', j), i < j
        PROVE  \E k \in 1..(n - 1) : Leaving(stack', k) /\ Adjacent(stack', i, k)
    <3>1. Leaving(stack, i) /\ Leaving(stack, j) /\ i \in 1..n /\ j \in 1..n
      BY <2>2, <1>3
    <3>2. PICK k \in 1..n : Leaving(stack, k) /\ Adjacent(stack, i, k)
      BY <3>1, <2>2, <1>1 DEF StackInv
    <3>3. ~Adjacent(stack, i, n)
      BY <3>1, <2>2, <1>1, <1>3 DEF Adjacent, Leaving
    <3>4. k \in 1..(n - 1)
      BY <3>2, <3>3, <1>4
    <3> QED
      BY <3>2, <3>4, <1>3
  <2>3. ASSUME NEW i \in 1..(n - 1), stack'[i].leaving, NEW e \in definitions'[stack'[i].path]
        PROVE  e \in done' \/ \E j \in 1..(n - 1) : i < j /\ stack'[j].path = e
    <3>1. i \in 1..n /\ stack[i].leaving /\ e \in definitions[stack[i].path]
      BY <2>3, <1>2, <1>3
    <3>2. CASE e \in done \cup {q}
      BY <3>2, <1>2
    <3>3. CASE e \notin done \cup {q}
      <4>1. PICK j \in 1..n : i < j /\ stack[j].path = e
        BY <3>1, <3>3, <1>1 DEF StackInv
      <4>2. j \in 1..(n - 1)
        BY <4>1, <3>3, <1>4
      <4> QED
        BY <4>1, <4>2, <1>3
    <3> QED
      BY <3>2, <3>3
  <2> QED
    BY <1>3, <2>1, <2>2, <2>3 DEF StackInv
<1>10. DoneInv'
  <2>1. \A R : Closed(R)' <=> Closed(R)
    BY <1>2 DEF Closed
  <2>2. \A R : Cyclic(R)' <=> Cyclic(R)
    BY <1>2 DEF Cyclic
  <2>3. ASSUME NEW R \in SUBSET DOMAIN definitions, roots \subseteq R, Closed(R)
        PROVE  done' \subseteq R /\ \A i \in 1..(n - 1) : stack'[i].path \in R
    <3>1. done \subseteq R /\ \A i \in 1..n : stack[i].path \in R
      BY <2>3, <1>1 DEF DoneInv
    <3> QED
      BY <3>1, <1>2, <1>3, <1>4
  <2>4. Closed(done')
    BY <1>2, <1>5 DEF DoneInv, Closed
  <2>5. ASSUME NEW C \in SUBSET done', Cyclic(C) PROVE FALSE
    <3>1. C # {} /\ \A p \in C : definitions[p] \cap C # {}
      BY <2>5 DEF Cyclic
    <3>2. \A p \in C : q \notin definitions[p]
      BY <1>2, <1>5, <1>6 DEF DoneInv, Closed
    <3>3. Cyclic(C \ {q})
      <4>1. \A p \in C \ {q} : definitions[p] \cap (C \ {q}) # {}
        BY <3>1, <3>2
      <4>2. C # {q}
        BY <3>1, <3>2
      <4> QED
        BY <4>1, <4>2, <3>1 DEF Cyclic
    <3>4. C \ {q} \in SUBSET done
      BY <1>2
    <3> QED
      BY <3>3, <3>4 DEF DoneInv
  <2> QED
    BY <2>1, <2>2, <2>3, <2>4, <2>5, <1>2, <1>3 DEF DoneInv
<1>11. RootsInv'
  <2>1. n # 1 => 1 \in 1..(n - 1) /\ Len(stack') # 0
    BY <1>3
  <2>2. n # 1 => stack' # <<>> /\ stack'[1] = stack[1]
    BY <2>1, <1>3
  <2> QED
    BY <2>2, <1>2, <1>4 DEF RootsInv
<1> QED
  BY <1>1, <1>5, <1>7, <1>8, <1>9, <1>10, <1>11

\* Entering a module turns its entry into the one to leave it and puts its
\* dependencies above.
LEMMA EnterSearch == SearchInv /\ Enter => SearchInv'
<1> SUFFICES ASSUME SearchInv, Enter PROVE SearchInv'
  OBVIOUS
<1> USE DEF SearchInv
<1>1. PICK n, q : n = Len(stack) /\ q = Top.path
  OBVIOUS
<1>2. /\ stack # <<>> /\ ~Top.leaving /\ q \notin done /\ q \notin active
      /\ active' = active \cup {q}
      /\ UNCHANGED <<definitions, roots, todo, done, result>>
  BY <1>1 DEF Enter
<1>3. PICK order \in Orders(definitions[q]) : stack' = Popped \o Unfolded(q, order)
  BY <1>1 DEF Enter
<1>4. PICK m : m = Len(order)
  OBVIOUS
<1>5. /\ n \in Nat /\ n >= 1 /\ q = stack[n].path /\ ~stack[n].leaving /\ q \in DOMAIN definitions
      /\ Popped \in Seq(Entry) /\ Len(Popped) = n - 1
      /\ \A i \in 1..(n - 1) : Popped[i] = stack[i]
  BY <1>1, <1>2, TopFacts
<1>6. definitions[q] \in SUBSET Path /\ definitions[q] \subseteq DOMAIN definitions
  BY <1>5 DEF ClosureTypeOK
<1>7. /\ order \in Seq(definitions[q]) /\ m \in Nat
      /\ (\A x \in definitions[q] : \E i \in 1..m : order[i] = x)
      /\ \A i \in 1..m : order[i] \in definitions[q]
  BY <1>4, <1>6, <1>3, OrderFacts
<1>8. order \in Seq(DOMAIN definitions)
  BY <1>6, <1>7
<1>9. /\ stack' \in Seq(Entry) /\ Len(stack') = n + m
      /\ (\A i \in 1..(n - 1) : stack'[i] = stack[i])
      /\ stack'[n] = [path |-> q, leaving |-> TRUE]
      /\ \A i \in 1..m : stack'[n + i] = [path |-> order[i], leaving |-> FALSE]
  <2>1. PICK s, u, E, D : /\ s = Popped /\ u = Unfolded(q, order) /\ D = DOMAIN definitions
                          /\ E = [path : D, leaving : BOOLEAN]
    OBVIOUS
  <2>2. order \in Seq(D) /\ q \in D
    BY <2>1, <1>5, <1>8
  <2>3. /\ u \in Seq(E) /\ Len(u) = 1 + m
        /\ u[1] = [path |-> q, leaving |-> TRUE]
        /\ \A i \in 1..m : u[1 + i] = [path |-> order[i], leaving |-> FALSE]
    BY <2>1, <2>2, <1>4, UnfoldedFacts
  <2>4. s \in Seq(E) /\ u \in Seq(E) /\ stack' = s \o u /\ Len(s) = n - 1
    BY <2>1, <2>3, <1>3, <1>5 DEF Entry
  <2>5. /\ s \o u \in Seq(E) /\ Len(s \o u) = Len(s) + Len(u)
        /\ (\A i \in 1..Len(s) : (s \o u)[i] = s[i])
        /\ \A i \in 1..Len(u) : (s \o u)[Len(s) + i] = u[i]
    BY ONLY <2>4, ConcatFacts
  <2>6. /\ stack' \in Seq(E) /\ Len(stack') = (n - 1) + (1 + m)
        /\ (\A i \in 1..(n - 1) : stack'[i] = s[i])
        /\ \A i \in 1..(1 + m) : stack'[(n - 1) + i] = u[i]
    BY <2>3, <2>4, <2>5
  <2>7. stack'[n] = u[1]
    <3>1. 1 \in 1..(1 + m) /\ (n - 1) + 1 = n
      BY <1>5, <1>7
    <3> QED
      BY <3>1, <2>6
  <2>8. ASSUME NEW i \in 1..m PROVE stack'[n + i] = u[1 + i]
    <3>1. 1 + i \in 1..(1 + m) /\ (n - 1) + (1 + i) = n + i
      BY <1>5, <1>7
    <3> QED
      BY <3>1, <2>6
  <2>9. Len(stack') = n + m
    BY <2>6, <1>5, <1>7
  <2> QED
    BY <2>1, <2>3, <2>6, <2>7, <2>8, <2>9, <1>5 DEF Entry
<1>10. /\ \A i \in 1..(n + m) : i \in 1..(n - 1) \/ i = n \/ (i > n /\ i - n \in 1..m /\ n + (i - n) = i)
       /\ \A i \in 1..n : i \in 1..(n + m)
       /\ \A i \in 1..(n - 1) : i \in 1..n /\ i < n
       /\ n \in 1..n /\ n \in 1..(n + m)
  BY <1>5, <1>7
<1>11. \A i \in 1..(n + m) : i > n => ~stack'[i].leaving /\ stack'[i].path \in definitions[q]
  <2> SUFFICES ASSUME NEW i \in 1..(n + m), i > n
               PROVE  ~stack'[i].leaving /\ stack'[i].path \in definitions[q]
    OBVIOUS
  <2>1. PICK k \in 1..m : i = n + k
    <3>1. i - n \in 1..m /\ i = n + (i - n)
      BY <1>5, <1>7
    <3> QED
      BY <3>1
  <2>2. stack'[i] = [path |-> order[k], leaving |-> FALSE] /\ order[k] \in definitions[q]
    BY <2>1, <1>7, <1>9
  <2> QED
    BY <2>2
<1>12. /\ \A i \in 1..n : stack'[i].path = stack[i].path
       /\ stack'[n].leaving
  BY <1>5, <1>9
<1>13. \A i \in 1..(n + m) : stack'[i].leaving => i = n \/ (i \in 1..(n - 1) /\ stack[i].leaving)
  BY <1>5, <1>9, <1>10, <1>11
<1>14. ClosureTypeOK'
  BY <1>2, <1>5, <1>9 DEF ClosureTypeOK, Entry
<1>15. ActiveInv'
  <2>1. ASSUME NEW p \in active'
        PROVE  \E i \in 1..(n + m) : Leaving(stack', i) /\ stack'[i].path = p
    <3>1. CASE p = q
      BY <3>1, <1>9, <1>10 DEF Leaving
    <3>2. CASE p # q
      <4>1. PICK i \in 1..n : Leaving(stack, i) /\ stack[i].path = p
        BY <3>2, <1>1, <1>2 DEF ActiveInv
      <4>2. i \in 1..(n - 1)
        BY <4>1, <1>5 DEF Leaving
      <4> QED
        BY <4>1, <4>2, <1>9, <1>10 DEF Leaving
    <3> QED
      BY <3>1, <3>2
  <2>2. ASSUME NEW i \in 1..(n + m), stack'[i].leaving PROVE stack'[i].path \in active'
    <3>1. CASE i = n
      BY <3>1, <1>2, <1>9
    <3>2. CASE i \in 1..(n - 1) /\ stack[i].leaving
      BY <3>2, <1>1, <1>2, <1>9, <1>10 DEF ActiveInv
    <3> QED
      BY <2>2, <3>1, <3>2, <1>13
  <2>3. ASSUME NEW i \in 1..(n + m), NEW j \in 1..(n + m), stack'[i].leaving, stack'[j].leaving,
               stack'[i].path = stack'[j].path
        PROVE  i = j
    <3>1. \A k \in 1..(n - 1) : stack[k].leaving => stack[k].path # q
      BY <1>1, <1>2, <1>10 DEF ActiveInv
    <3>2. CASE i = n \/ j = n
      BY <2>3, <3>1, <3>2, <1>13, <1>9
    <3>3. CASE i # n /\ j # n
      <4>1. i \in 1..(n - 1) /\ stack[i].leaving /\ j \in 1..(n - 1) /\ stack[j].leaving
        BY <2>3, <3>3, <1>13
      <4>2. stack[i].path = stack[j].path /\ i \in 1..n /\ j \in 1..n
        BY <2>3, <4>1, <1>9, <1>10
      <4> QED
        BY <4>1, <4>2, <1>1 DEF ActiveInv
    <3> QED
      BY <3>2, <3>3
  <2>4. active' \cap done' = {}
    BY <1>2 DEF ActiveInv
  <2> QED
    BY <1>9, <2>1, <2>2, <2>3, <2>4 DEF ActiveInv
<1>16. StackInv'
  <2>0. \A i \in 1..(n - 1), j \in 1..n : Adjacent(stack', i, j) <=> Adjacent(stack, i, j)
    <3> SUFFICES ASSUME NEW i \in 1..(n - 1), NEW j \in 1..n
                 PROVE  Adjacent(stack', i, j) <=> Adjacent(stack, i, j)
      OBVIOUS
    <3>1. \A k \in 1..(n + m) : k < j => k \in 1..(n - 1) /\ k \in 1..n /\ stack'[k] = stack[k]
      BY <1>5, <1>7, <1>9
    <3>2. \A k \in 1..n : k < j => k \in 1..(n + m)
      BY <1>10
    <3> QED
      BY <3>1, <3>2, <1>1, <1>9 DEF Adjacent
  <2>1. ASSUME NEW i \in 1..(n + m), NEW j \in 1..(n + m), Leaving(stack', i), Adjacent(stack', i, j)
        PROVE  stack'[j].path \in definitions'[stack'[i].path]
    <3>1. i = n \/ (i \in 1..(n - 1) /\ stack[i].leaving)
      BY <2>1, <1>13 DEF Leaving
    <3>2. i < j
      BY <2>1 DEF Adjacent
    <3>3. CASE i = n
      BY <3>2, <3>3, <1>2, <1>9, <1>11, <1>5
    <3>4. CASE i \in 1..(n - 1) /\ stack[i].leaving
      <4>1. ~(n < j)
        BY <2>1, <3>4, <1>9, <1>10 DEF Adjacent
      <4>2. j \in 1..n
        BY <4>1, <1>5, <1>7
      <4>3. Leaving(stack, i) /\ Adjacent(stack, i, j) /\ i \in 1..n
        BY <2>0, <2>1, <3>4, <4>2, <1>1, <1>10 DEF Leaving
      <4>4. stack[j].path \in definitions[stack[i].path]
        BY <4>2, <4>3, <1>1 DEF StackInv
      <4> QED
        BY <4>2, <4>3, <4>4, <1>2, <1>12
    <3> QED
      BY <3>1, <3>3, <3>4
  <2>2. ASSUME NEW i \in 1..(n + m), NEW j \in 1..(n + m), Leaving(stack', i), Leaving(stack', j), i < j
        PROVE  \E k \in 1..(n + m) : Leaving(stack', k) /\ Adjacent(stack', i, k)
    <3>1. i \in 1..(n - 1) /\ stack[i].leaving /\ i \in 1..n /\ Leaving(stack, i)
      <4>1. (i = n \/ (i \in 1..(n - 1) /\ stack[i].leaving)) /\ (j = n \/ j \in 1..(n - 1))
        BY <2>2, <1>13 DEF Leaving
      <4>2. i # n
        BY <4>1, <2>2, <1>5
      <4> QED
        BY <4>1, <4>2, <1>1, <1>10 DEF Leaving
    <3>2. CASE \E k \in 1..n : Leaving(stack, k) /\ i < k
      <4>1. PICK k \in 1..n : Leaving(stack, k) /\ Adjacent(stack, i, k)
        BY <3>1, <3>2, <1>1 DEF StackInv
      <4>2. k \in 1..(n - 1)
        BY <4>1, <1>5 DEF Leaving
      <4>3. Leaving(stack', k) /\ k \in 1..(n + m)
        BY <4>1, <4>2, <1>9, <1>10 DEF Leaving
      <4> QED
        BY <4>1, <4>3, <2>0, <3>1
    <3>3. CASE ~\E k \in 1..n : Leaving(stack, k) /\ i < k
      <4>1. Adjacent(stack, i, n)
        BY <3>1, <3>3, <1>1, <1>10 DEF Adjacent, Leaving
      <4>2. Leaving(stack', n)
        BY <1>9, <1>10, <1>12 DEF Leaving
      <4> QED
        BY <4>1, <4>2, <2>0, <3>1, <1>10
    <3> QED
      BY <3>2, <3>3
  <2>3. ASSUME NEW i \in 1..(n + m), stack'[i].leaving, NEW e \in definitions'[stack'[i].path]
        PROVE  e \in done' \/ \E j \in 1..(n + m) : i < j /\ stack'[j].path = e
    <3>1. CASE i = n
      <4>1. e \in definitions[q]
        BY <3>1, <1>2, <1>12, <1>9
      <4>2. PICK k \in 1..m : order[k] = e
        BY <4>1, <1>7
      <4>3. n + k \in 1..(n + m) /\ n < n + k
        BY <1>5, <1>7
      <4>4. stack'[n + k] = [path |-> e, leaving |-> FALSE]
        BY <4>2, <1>9
      <4> QED
        BY <3>1, <4>3, <4>4
    <3>2. CASE i \in 1..(n - 1) /\ stack[i].leaving
      <4>1. e \in definitions[stack[i].path] /\ i \in 1..n
        BY <3>2, <1>2, <1>9, <1>10
      <4>2. e \in done \/ \E j \in 1..n : i < j /\ stack[j].path = e
        BY <3>2, <4>1, <1>1 DEF StackInv
      <4> QED
        BY <4>2, <1>2, <1>10, <1>12
    <3> QED
      BY <2>3, <3>1, <3>2, <1>13
  <2> QED
    BY <1>9, <2>1, <2>2, <2>3 DEF StackInv
<1>17. DoneInv'
  <2>1. \A R : Closed(R)' <=> Closed(R)
    BY <1>2 DEF Closed
  <2>2. \A R : Cyclic(R)' <=> Cyclic(R)
    BY <1>2 DEF Cyclic
  <2>3. ASSUME NEW R \in SUBSET DOMAIN definitions, roots \subseteq R, Closed(R)
        PROVE  done' \subseteq R /\ \A i \in 1..(n + m) : stack'[i].path \in R
    <3>1. done \subseteq R /\ \A i \in 1..n : stack[i].path \in R
      BY <2>3, <1>1 DEF DoneInv
    <3>2. definitions[q] \subseteq R
      BY <2>3, <3>1, <1>5, <1>10 DEF Closed
    <3>3. \A i \in 1..n : stack'[i].path \in R
      BY <3>1, <1>12
    <3>4. \A i \in 1..(n + m) : i > n => stack'[i].path \in R
      BY <3>2, <1>11
    <3>5. \A i \in 1..(n + m) : i \in 1..n \/ i > n
      BY <1>5, <1>7
    <3> QED
      BY <3>1, <3>3, <3>4, <3>5, <1>2
  <2> QED
    BY <2>1, <2>2, <2>3, <1>2, <1>9 DEF DoneInv
<1>18. RootsInv'
  <2>1. 1 \in 1..n /\ Len(stack') # 0
    BY <1>5, <1>7, <1>9
  <2>2. stack' # <<>> /\ stack'[1].path = stack[1].path
    BY <2>1, <1>12
  <2> QED
    BY <2>2, <1>2 DEF RootsInv
<1> QED
  BY <1>14, <1>15, <1>16, <1>17, <1>18

\* An active module met again closes a cycle: every active module has a
\* dependency that is active too, the next one to leave or the one just met.
LEMMA CycleFound == SearchInv /\ Cycle => Cyclic(active)
<1> SUFFICES ASSUME SearchInv, Cycle PROVE Cyclic(active)
  OBVIOUS
<1> USE DEF SearchInv
<1>1. PICK n : n = Len(stack)
  OBVIOUS
<1>2. stack # <<>> /\ ~Top.leaving /\ Top.path \in active
  BY DEF Cycle
<1>3. n \in Nat /\ n >= 1 /\ ~stack[n].leaving /\ stack[n].path \in active /\ n \in 1..n
  BY <1>1, <1>2, TopFacts
<1>4. ASSUME NEW p \in active PROVE definitions[p] \cap active # {}
  <2>1. PICK i \in 1..n : Leaving(stack, i) /\ stack[i].path = p
    BY <1>1 DEF ActiveInv
  <2>2. CASE \E j \in 1..n : Leaving(stack, j) /\ i < j
    <3>1. PICK k \in 1..n : Leaving(stack, k) /\ Adjacent(stack, i, k)
      BY <2>1, <2>2, <1>1 DEF StackInv
    <3>2. stack[k].path \in definitions[p]
      BY <2>1, <3>1, <1>1 DEF StackInv
    <3>3. stack[k].path \in active
      BY <3>1, <1>1 DEF ActiveInv, Leaving
    <3> QED
      BY <3>2, <3>3
  <2>3. CASE ~\E j \in 1..n : Leaving(stack, j) /\ i < j
    <3>1. i < n
      BY <2>1, <1>3 DEF Leaving
    <3>2. Adjacent(stack, i, n)
      BY <2>3, <3>1, <1>1 DEF Adjacent, Leaving
    <3>3. stack[n].path \in definitions[p]
      BY <2>1, <3>2, <1>1, <1>3 DEF StackInv
    <3> QED
      BY <3>3, <1>3
  <2> QED
    BY <2>2, <2>3
<1> QED
  BY <1>3, <1>4 DEF Cyclic

\* A step of the search keeps the search invariant or returns with a result
\* that is right.
LEMMA ClosureStepKeeps == SearchInv /\ Running /\ ClosureStep => ClosureInv'
<1> SUFFICES ASSUME SearchInv, Running, ClosureStep PROVE ClosureInv'
  OBVIOUS
<1>1. CASE NextRoot \/ Leave \/ SkipDone \/ Enter
  <2>1. SearchInv'
    BY <1>1, RootSearch, LeaveSearch, SkipSearch, EnterSearch
  <2>2. result' = "running"
    BY <1>1 DEF NextRoot, Leave, SkipDone, Enter, Running
  <2> QED
    BY <2>1, <2>2 DEF ClosureInv, SearchInv, ReturnsLeastClosedSet, CycleIsReal, AcceptedIsAcyclic
<1>2. CASE Return
  <2>1. /\ stack = <<>> /\ todo = {} /\ result' = "ok"
        /\ UNCHANGED <<definitions, roots, todo, stack, active, done>>
    BY <1>2 DEF Return
  <2>2. ClosureTypeOK'
    BY <2>1 DEF SearchInv, ClosureTypeOK, Entry
  <2>3. roots \subseteq done
    BY <2>1 DEF SearchInv, RootsInv
  <2>4. ReturnsLeastClosedSet'
    BY <2>1, <2>3 DEF SearchInv, DoneInv, ReturnsLeastClosedSet, Closed
  <2>5. AcceptedIsAcyclic' /\ CycleIsReal'
    BY <2>1 DEF SearchInv, DoneInv, AcceptedIsAcyclic, CycleIsReal, Cyclic
  <2> QED
    BY <2>1, <2>2, <2>4, <2>5 DEF ClosureInv, Running
<1>3. CASE Cycle
  <2>1. /\ result' = "cycle" /\ stack' = Popped /\ stack # <<>>
        /\ UNCHANGED <<definitions, roots, todo, active, done>>
    BY <1>3 DEF Cycle
  <2>2. ClosureTypeOK'
    <3>1. stack' \in Seq(Entry)
      BY <2>1, TopFacts DEF SearchInv
    <3> QED
      BY <2>1, <3>1 DEF SearchInv, ClosureTypeOK, Entry
  <2>3. CycleIsReal'
    <3>1. Cyclic(active) /\ active \in SUBSET DOMAIN definitions
      BY <1>3, CycleFound DEF SearchInv, ClosureTypeOK
    <3>2. \A C : Cyclic(C)' <=> Cyclic(C)
      BY <2>1 DEF Cyclic
    <3> QED
      BY <2>1, <3>1, <3>2 DEF CycleIsReal
  <2> QED
    BY <2>1, <2>2, <2>3 DEF ClosureInv, Running, ReturnsLeastClosedSet, AcceptedIsAcyclic
<1> QED
  BY <1>1, <1>2, <1>3 DEF ClosureStep

\* Nothing changes once closure() has returned.
LEMMA ClosureStutter == ClosureInv /\ UNCHANGED closureVars => ClosureInv'
<1> SUFFICES ASSUME ClosureInv, UNCHANGED closureVars PROVE ClosureInv'
  OBVIOUS
<1>1. UNCHANGED <<definitions, roots, todo, stack, active, done, result>>
  BY DEF closureVars
<1>2. ClosureTypeOK' <=> ClosureTypeOK
  BY <1>1 DEF ClosureTypeOK, Entry
<1>3. (ActiveInv' <=> ActiveInv) /\ (StackInv' <=> StackInv) /\ (RootsInv' <=> RootsInv)
  BY <1>1 DEF ActiveInv, StackInv, RootsInv
<1>4. (\A R : Closed(R)' <=> Closed(R)) /\ (\A R : Cyclic(R)' <=> Cyclic(R))
  BY <1>1 DEF Closed, Cyclic
<1>5. (DoneInv' <=> DoneInv) /\ (ReturnsLeastClosedSet' <=> ReturnsLeastClosedSet)
  BY <1>1, <1>4 DEF DoneInv, ReturnsLeastClosedSet
<1>6. (CycleIsReal' <=> CycleIsReal) /\ (AcceptedIsAcyclic' <=> AcceptedIsAcyclic)
  BY <1>1, <1>4 DEF CycleIsReal, AcceptedIsAcyclic
<1>7. Running' <=> Running
  BY <1>1 DEF Running
<1> QED
  BY <1>2, <1>3, <1>5, <1>6, <1>7 DEF ClosureInv, SearchInv

\* The invariant is inductive.
LEMMA ClosureInductive ==
  /\ ClosureInit => ClosureInv
  /\ ClosureInv /\ [ClosureStep \/ Returned]_closureVars => ClosureInv'
<1>1. ClosureInit => ClosureInv
  <2>1. ClosureInit => Running
    BY DEF ClosureInit, Running
  <2> QED
    BY <2>1, InitSearch DEF ClosureInv, SearchInv, Running, ReturnsLeastClosedSet, CycleIsReal, AcceptedIsAcyclic
<1>2. ClosureInv /\ [ClosureStep \/ Returned]_closureVars => ClosureInv'
  <2>1. ClosureStep => Running
    BY DEF ClosureStep, NextRoot, Return, Leave, SkipDone, Cycle, Enter
  <2>2. ClosureInv /\ Running => SearchInv
    BY DEF ClosureInv
  <2> QED
    BY <2>1, <2>2, ClosureStepKeeps, ClosureStutter DEF Returned
<1> QED
  BY <1>1, <1>2

\* closure() is right for every index over finitely many paths and all roots:
\* the sets stay within a complete index, an accepted search returns the least
\* closed set, and that set is acyclic; a reported cycle exists.
THEOREM ClosureCorrect ==
  ClosureSpec => [](ClosureTypeOK /\ ReturnsLeastClosedSet /\ CycleIsReal /\ AcceptedIsAcyclic)
<1>1. ClosureInv => ClosureTypeOK /\ ReturnsLeastClosedSet /\ CycleIsReal /\ AcceptedIsAcyclic
  BY DEF ClosureInv
<1> QED
  BY <1>1, ClosureInductive, PTL DEF ClosureSpec

\* A step finishes a module only after what the module depends on.
LEMMA FinishedAfterDependencies ==
  ASSUME ClosureInv, ClosureStep, NEW p \in done' \ done
  PROVE  definitions[p] \subseteq done
<1>1. Leave \/ done' = done
  BY DEF ClosureStep, NextRoot, Return, SkipDone, Cycle, Enter
<1>2. CASE Leave
  <2>1. p = Top.path /\ Running
    BY <1>2 DEF Leave
  <2> QED
    BY <2>1, <1>2, LeaveSearch DEF ClosureInv
<1> QED
  BY <1>1, <1>2

\* Modules are finished after the modules they depend on, in every run of
\* closure().
THEOREM DependenciesComeFirst == ClosureSpec => DependenciesFirst
<1>1. ClosureInv /\ [ClosureStep \/ Returned]_closureVars
        => [\A p \in done' \ done : definitions[p] \subseteq done]_closureVars
  BY FinishedAfterDependencies DEF Returned
<1> QED
  BY <1>1, ClosureInductive, PTL DEF ClosureSpec, DependenciesFirst

-----------------------------------------------------------------------------
\* build --module.
\* The index read so far holds paths only.
IndexInv ==
    /\ request \in Request /\ at \in Nat /\ at >= 1
    /\ DOMAIN definitions \subseteq Path
    /\ definitions \in [DOMAIN definitions -> SUBSET Path]
    /\ \A n \in DOMAIN names : names[n] \in DOMAIN definitions \cup {Builtin}

\* The first search starts from every path, so its success means that the
\* index has no cycle at all.
SearchesInv ==
    /\ pc \in {"all", "picked"} => ClosureInv
    /\ pc = "all" => roots = DOMAIN definitions
    /\ pc = "picked" => \A C \in SUBSET DOMAIN definitions : ~Cyclic(C)

SelectionInv == IndexInv /\ SearchesInv

\* The invariant says what SearchesAreSafe says.
LEMMA InvIsSafe == SelectionInv => SearchesAreSafe
<1> SUFFICES ASSUME SelectionInv, pc \in {"all", "picked"} PROVE SearchesAreSafe
  BY DEF SearchesAreSafe
<1>1. ClosureInv
  BY DEF SelectionInv, SearchesInv
<1>2. pc = "picked" => result # "cycle"
  BY <1>1 DEF SelectionInv, SearchesInv, ClosureInv, CycleIsReal
<1> QED
  BY <1>1, <1>2 DEF SearchesAreSafe, ClosureInv

\* closure() starts in a state of its invariant.
LEMMA StartKeeps ==
  ASSUME NEW S, S \subseteq DOMAIN definitions, StartClosure(S), definitions' = definitions,
         DOMAIN definitions \subseteq Path,
         definitions \in [DOMAIN definitions -> SUBSET DOMAIN definitions]
  PROVE  ClosureInv'
<1>1. /\ roots' = S /\ todo' = S /\ stack' = <<>> /\ active' = {} /\ done' = {}
      /\ result' = "running" /\ Len(stack') = 0
  BY DEF StartClosure
<1>2. ClosureTypeOK'
  BY <1>1 DEF ClosureTypeOK, Entry
<1>3. ActiveInv' /\ StackInv' /\ RootsInv'
  BY <1>1 DEF ActiveInv, StackInv, RootsInv, Leaving
<1>4. DoneInv'
  BY <1>1 DEF DoneInv, Closed, Cyclic
<1> QED
  BY <1>1, <1>2, <1>3, <1>4
     DEF ClosureInv, SearchInv, Running, ReturnsLeastClosedSet, CycleIsReal, AcceptedIsAcyclic

\* A line of modules.dep adds a path and the paths it depends on.
LEMMA DepLineKeeps == SelectionInv /\ ReadDepLine => SelectionInv'
<1> SUFFICES ASSUME SelectionInv, ReadDepLine PROVE SelectionInv'
  OBVIOUS
<1>1. PICK l, E : l = DepLine /\ E = {l.deps[i] : i \in DOMAIN l.deps}
  OBVIOUS
<1>2. l.path \in Path /\ E \subseteq Path
  <2>1. PICK P, D : P = Path \cup {BadPath} /\ D = [path : P, deps : Seq(P)]
    OBVIOUS
  <2>2. request \in Request /\ request.dep \in Seq(D)
    BY <2>1, RequestAssumption DEF SelectionInv, IndexInv
  <2>3. at \in 1..Len(request.dep)
    BY <2>2 DEF SelectionInv, IndexInv, ReadDepLine
  <2>4. l \in D
    BY <1>1, <2>2, <2>3, ElementOfSeq DEF DepLine
  <2>5. l.path \in P /\ l.deps \in Seq(P)
    BY <2>1, <2>4
  <2>6. \A i \in DOMAIN l.deps : l.deps[i] \in P
    BY <2>5
  <2>7. l.path # BadPath /\ \A i \in DOMAIN l.deps : l.deps[i] # BadPath
    BY <1>1 DEF ReadDepLine, GoodDepLine
  <2> QED
    BY <1>1, <2>1, <2>5, <2>6, <2>7
<1>3. /\ pc = "dep" /\ at' = at + 1 /\ UNCHANGED <<request, pc>>
      /\ definitions' = [p \in DOMAIN definitions \cup {l.path} |->
                           IF p = l.path THEN E ELSE definitions[p]]
      /\ names' = [n \in DOMAIN names \cup ({NameOf[l.path]} \cap request.names) |->
                     IF n = NameOf[l.path] THEN l.path ELSE names[n]]
  BY <1>1 DEF ReadDepLine, insert_name
<1>4. IndexInv'
  <2>1. DOMAIN definitions' = DOMAIN definitions \cup {l.path}
    BY <1>3
  <2>2. definitions' \in [DOMAIN definitions' -> SUBSET Path]
    BY <1>2, <1>3, <2>1 DEF SelectionInv, IndexInv
  <2>3. \A n \in DOMAIN names' : names'[n] \in DOMAIN definitions' \cup {Builtin}
    BY <1>3, <2>1 DEF SelectionInv, IndexInv
  <2> QED
    BY <1>2, <1>3, <2>1, <2>2, <2>3 DEF SelectionInv, IndexInv
<1> QED
  BY <1>3, <1>4 DEF SelectionInv, SearchesInv

\* A line of modules.builtin adds a name at most.
LEMMA BuiltinLineKeeps == SelectionInv /\ ReadBuiltinLine => SelectionInv'
<1> SUFFICES ASSUME SelectionInv, ReadBuiltinLine PROVE SelectionInv'
  OBVIOUS
<1>1. /\ pc = "builtin" /\ at' = at + 1 /\ UNCHANGED <<request, pc, definitions>>
      /\ names' = [n \in DOMAIN names \cup ({NameOf[BuiltinLine]} \cap request.names) |->
                     IF n = NameOf[BuiltinLine] THEN Builtin ELSE names[n]]
  BY DEF ReadBuiltinLine, insert_name, closureVars
<1>2. IndexInv'
  BY <1>1 DEF SelectionInv, IndexInv, Builtin
<1> QED
  BY <1>1, <1>2 DEF SelectionInv, SearchesInv

\* Starting the first search.
LEMMA CheckKeeps == SelectionInv /\ CheckIndex => SelectionInv'
<1> SUFFICES ASSUME SelectionInv, CheckIndex PROVE SelectionInv'
  OBVIOUS
<1>1. /\ StartClosure(DOMAIN definitions) /\ pc' = "all" /\ UNCHANGED <<definitions, request, at, names>>
      /\ ValidIndex
  BY DEF CheckIndex
<1>2. definitions \in [DOMAIN definitions -> SUBSET DOMAIN definitions]
  BY <1>1 DEF SelectionInv, IndexInv, ValidIndex
<1>3. ClosureInv'
  BY <1>1, <1>2, StartKeeps DEF SelectionInv, IndexInv
<1>4. roots' = DOMAIN definitions'
  BY <1>1 DEF StartClosure
<1>5. IndexInv'
  BY <1>1 DEF SelectionInv, IndexInv
<1> QED
  BY <1>1, <1>3, <1>4, <1>5 DEF SelectionInv, SearchesInv

\* Starting the second search, after the first has found no cycle.
LEMMA SelectKeeps == SelectionInv /\ Select => SelectionInv'
<1> SUFFICES ASSUME SelectionInv, Select PROVE SelectionInv'
  OBVIOUS
<1>1. /\ pc = "all" /\ result = "ok" /\ request.names \subseteq DOMAIN names
      /\ picked' = {names[n] : n \in request.names} \ {Builtin}
      /\ StartClosure(picked') /\ pc' = "picked" /\ UNCHANGED <<definitions, request, at, names>>
  BY DEF Select
<1>2. ClosureInv /\ roots = DOMAIN definitions
  BY <1>1 DEF SelectionInv, SearchesInv
<1>3. picked' \subseteq DOMAIN definitions
  BY <1>1 DEF SelectionInv, IndexInv
<1>4. definitions \in [DOMAIN definitions -> SUBSET DOMAIN definitions] /\ DOMAIN definitions \subseteq Path
  BY <1>2 DEF ClosureInv, ClosureTypeOK
<1>5. ClosureInv'
  <2>1. PICK S : S = picked'
    OBVIOUS
  <2>2. S \subseteq DOMAIN definitions /\ StartClosure(S) /\ definitions' = definitions
    BY <2>1, <1>1, <1>3
  <2> QED
    BY <2>2, <1>4, StartKeeps
<1>6. DOMAIN definitions = done
  BY <1>1, <1>2 DEF ClosureInv, ClosureTypeOK, ReturnsLeastClosedSet
<1>7. \A C \in SUBSET DOMAIN definitions : ~Cyclic(C)
  BY <1>1, <1>2, <1>6 DEF ClosureInv, AcceptedIsAcyclic
<1>8. \A C : Cyclic(C)' <=> Cyclic(C)
  BY <1>1 DEF Cyclic
<1>9. IndexInv'
  BY <1>1 DEF SelectionInv, IndexInv
<1> QED
  BY <1>1, <1>5, <1>7, <1>8, <1>9 DEF SelectionInv, SearchesInv

\* A step of either search.
LEMMA SearchKeeps == SelectionInv /\ Search => SelectionInv'
<1> SUFFICES ASSUME SelectionInv, Search PROVE SelectionInv'
  OBVIOUS
<1>1. /\ pc \in {"all", "picked"} /\ ClosureStep /\ UNCHANGED <<request, pc, at, names>>
  BY DEF Search
<1>2. UNCHANGED <<definitions, roots>> /\ Running
  BY <1>1 DEF ClosureStep, NextRoot, Return, Leave, SkipDone, Cycle, Enter
<1>3. ClosureInv'
  <2>1. SearchInv
    BY <1>1, <1>2 DEF SelectionInv, SearchesInv, ClosureInv
  <2> QED
    BY <2>1, <1>1, <1>2, ClosureStepKeeps
<1>4. \A C : Cyclic(C)' <=> Cyclic(C)
  BY <1>2 DEF Cyclic
<1>5. IndexInv'
  BY <1>1, <1>2 DEF SelectionInv, IndexInv
<1> QED
  BY <1>1, <1>2, <1>3, <1>4, <1>5 DEF SelectionInv, SearchesInv

\* Every other step leaves the index alone and ends up outside the searches.
LEMMA OthersKeep ==
  ASSUME SelectionInv, UNCHANGED <<closureVars, request, names>>,
         at' \in Nat, at' >= 1, pc' \notin {"all", "picked"}
  PROVE  SelectionInv'
<1>1. definitions' = definitions
  BY DEF closureVars
<1> QED
  BY <1>1 DEF SelectionInv, IndexInv, SearchesInv

\* Every step of the command keeps the invariant of the searches.
LEMMA SelectionStep == SelectionInv /\ [Next \/ Finished]_selectionVars => SelectionInv'
<1> SUFFICES ASSUME SelectionInv, [Next \/ Finished]_selectionVars PROVE SelectionInv'
  OBVIOUS
<1>1. at \in Nat /\ at >= 1 /\ 1 \in Nat
  BY DEF SelectionInv, IndexInv
<1>2. CASE ReadDepLine
  BY <1>2, DepLineKeeps
<1>3. CASE ReadBuiltinLine
  BY <1>3, BuiltinLineKeeps
<1>4. CASE CheckIndex
  BY <1>4, CheckKeeps
<1>5. CASE Select
  BY <1>5, SelectKeeps
<1>6. CASE Search
  BY <1>6, SearchKeeps
<1>7. CASE NoTree \/ RefuseDepLine \/ RefuseBuiltinLine \/ RefuseIndex \/ SearchFails \/ UnknownName \/ ReadFails
             \/ PackFails \/ InsertFails \/ MaterializeFails
  <2>1. Fail
    BY <1>7 DEF NoTree, RefuseDepLine, RefuseBuiltinLine, RefuseIndex, SearchFails, UnknownName, ReadFails,
                PackFails, InsertFails, MaterializeFails
  <2> QED
    BY <2>1, <1>1, OthersKeep DEF Fail
<1>8. CASE FindTree \/ DepRead \/ ReadFiles \/ Pack \/ Packed \/ Insert \/ Materialize
  <2>1. /\ UNCHANGED <<closureVars, request, names>> /\ at' \in {1, at}
        /\ pc' \notin {"all", "picked"}
    BY <1>8 DEF FindTree, DepRead, ReadFiles, Pack, Packed, Insert, Materialize
  <2> QED
    BY <2>1, <1>1, OthersKeep
<1>9. CASE Finished \/ UNCHANGED selectionVars
  <2>1. UNCHANGED <<closureVars, request, pc, at, names>>
    BY <1>9 DEF Finished, selectionVars
  <2>2. definitions' = definitions /\ roots' = roots
    BY <2>1 DEF closureVars
  <2>3. ClosureInv => ClosureInv'
    BY <2>1, ClosureStutter
  <2>4. \A C : Cyclic(C)' <=> Cyclic(C)
    BY <2>2 DEF Cyclic
  <2> QED
    BY <2>1, <2>2, <2>3, <2>4 DEF SelectionInv, IndexInv, SearchesInv
<1> QED
  BY <1>2, <1>3, <1>4, <1>5, <1>6, <1>7, <1>8, <1>9 DEF Next

\* The invariant of the searches holds throughout.
LEMMA SelectionInvariance == Spec => []SelectionInv
<1>1. Init => SelectionInv
  BY DEF Init, SelectionInv, IndexInv, SearchesInv
<1> QED
  BY <1>1, SelectionStep, PTL DEF Spec

\* SearchesAreSafe holds for every module tree and every request: no lookup in
\* the index fails, and only the first search can report a cycle.
THEOREM SearchesSafe == Spec => []SearchesAreSafe
  BY SelectionInvariance, InvIsSafe, PTL

----------------------------------------------------------------------------
(***************************************************************************)
(* The verdict and the archive.  The invariant says, for each place of the *)
(* command, what the lines read so far have put in the index and in names, *)
(* what the searches have settled, and which files are packed or archived. *)
(***************************************************************************)
DepsOf(i) == {request.dep[i].deps[k] : k \in DOMAIN request.dep[i].deps}

DepName(i) == NameOf[request.dep[i].path]
BuiltinName(j) == NameOf[request.builtin[j]]

\* The index after the first n lines of modules.dep.
DepsRead(n) ==
    /\ DOMAIN definitions = {request.dep[i].path : i \in 1..n}
    /\ \A i \in 1..n : /\ request.dep[i].path # BadPath /\ ~Duplicate(request.dep[i].deps)
                       /\ definitions[request.dep[i].path] = DepsOf(i)
    /\ \A i, j \in 1..n : request.dep[i].path = request.dep[j].path => i = j

\* The names after n lines of modules.dep and m lines of modules.builtin: a
\* requested name has an entry when a line means it, and one line does.
NamesRead(n, m) ==
    /\ \A i \in 1..n : DepName(i) \in request.names =>
         DepName(i) \in DOMAIN names /\ names[DepName(i)] = request.dep[i].path
    /\ \A j \in 1..m : request.builtin[j] # BadPath
    /\ \A j \in 1..m : BuiltinName(j) \in request.names =>
         BuiltinName(j) \in DOMAIN names /\ names[BuiltinName(j)] = Builtin
    /\ \A a \in DOMAIN names : (\E i \in 1..n : DepName(i) = a) \/ (\E j \in 1..m : BuiltinName(j) = a)
    /\ \A i, j \in 1..n : DepName(i) = DepName(j) /\ DepName(i) \in request.names => i = j
    /\ \A i, j \in 1..m : BuiltinName(i) = BuiltinName(j) /\ BuiltinName(i) \in request.names => i = j
    /\ \A i \in 1..n, j \in 1..m : DepName(i) \in request.names => DepName(i) # BuiltinName(j)

DepLines == Len(request.dep)
BuiltinLines == Len(request.builtin)

ReadInv ==
    /\ pc = "tree" => DepsRead(0) /\ NamesRead(0, 0) /\ at = 1
    /\ pc = "dep" => at - 1 <= DepLines /\ DepsRead(at - 1) /\ NamesRead(at - 1, 0)
    /\ pc = "builtin" => at - 1 <= BuiltinLines /\ DepsRead(DepLines) /\ NamesRead(DepLines, at - 1)
    /\ pc \in {"all", "picked", "pack", "archive", "ok"} =>
         DepsRead(DepLines) /\ NamesRead(DepLines, BuiltinLines) /\ ValidIndex

Acyclic == \A C \in SUBSET DOMAIN definitions : ~Cyclic(C)

\* What the requested names have come to.
ChoiceInv ==
    /\ pc \notin {"tree", "error"} => Cardinality(request.trees) = 1
    /\ pc \in {"picked", "pack", "archive", "ok"} =>
         Acyclic /\ request.names \subseteq DOMAIN names /\ roots = Chosen

\* The files that are done with are packable, then archived.
FilesInv ==
    /\ pc \in {"tree", "dep", "builtin", "all", "picked", "pack"} => archive = <<>>
    /\ pc \in {"pack", "archive", "ok"} =>
         done = Needed(Chosen) /\ rest \subseteq done /\ \A p \in done : request.kind[p] = "regular"
    /\ pc = "pack" => \A p \in done \ rest : Packable(p)
    /\ pc \in {"archive", "ok"} =>
         /\ \A p \in done : Packable(p)
         /\ DOMAIN archive = {Relative(p) : p \in done \ rest}
         /\ \A p \in done \ rest : archive[Relative(p)] = Bytes(p)
    /\ pc = "ok" => rest = {} /\ ~FileIsDirectory

\* An error means a request that is not acceptable.
ErrorInv == pc = "error" => ~Acceptable

SearchSafe == ReturnsLeastClosedSet /\ CycleIsReal /\ AcceptedIsAcyclic

\* The lines of a request are sequences of paths.
LEMMA RequestShape ==
  ASSUME request \in Request
  PROVE  /\ DepLines \in Nat /\ DOMAIN request.dep = 1..DepLines
         /\ BuiltinLines \in Nat /\ DOMAIN request.builtin = 1..BuiltinLines
         /\ \A i \in 1..DepLines : /\ request.dep[i].path \in Path \cup {BadPath}
                                   /\ DepsOf(i) \subseteq Path \cup {BadPath}
<1>1. PICK P, D : P = Path \cup {BadPath} /\ D = [path : P, deps : Seq(P)]
  OBVIOUS
<1>2. request.dep \in Seq(D) /\ request.builtin \in Seq(P)
  BY <1>1, RequestAssumption
<1>3. ASSUME NEW i \in 1..DepLines
      PROVE  request.dep[i].path \in P /\ DepsOf(i) \subseteq P
  <2>1. request.dep[i] \in D
    BY <1>2, ElementOfSeq DEF DepLines
  <2>2. request.dep[i].path \in P /\ request.dep[i].deps \in Seq(P)
    BY <1>1, <2>1
  <2>3. \A k \in DOMAIN request.dep[i].deps : request.dep[i].deps[k] \in P
    BY <2>2
  <2> QED
    BY <2>2, <2>3 DEF DepsOf
<1> QED
  BY <1>1, <1>2, <1>3 DEF DepLines, BuiltinLines

\* What is defined from the request alone does not change with the command.
LEMMA RequestOnly ==
  ASSUME request' = request
  PROVE  /\ Acceptable' <=> Acceptable
         /\ Chosen' = Chosen /\ Needed(Chosen)' = Needed(Chosen)
         /\ DepLines' = DepLines /\ BuiltinLines' = BuiltinLines
         /\ \A p : (Packable(p)' <=> Packable(p)) /\ Relative(p)' = Relative(p) /\ Bytes(p)' = Bytes(p)
<1>1. Lines' = Lines /\ (\A p : Depends(p)' = Depends(p))
  BY DEF Lines, Depends
<1>2. Chosen' = Chosen
  BY <1>1 DEF Chosen
<1>3. \A S : Needed(S)' = Needed(S)
  BY <1>1 DEF Needed
<1>4. Needed(Chosen)' = Needed(Chosen)
  BY <1>1, <1>2 DEF Needed
<1>5. \A p : Keep(p)' <=> Keep(p)
  BY DEF Keep
<1>6. \A p : (Packable(p)' <=> Packable(p)) /\ Relative(p)' = Relative(p) /\ Bytes(p)' = Bytes(p)
  BY <1>5 DEF Packable, Relative, Bytes
<1>7. (\A n : Meanings(n)' = Meanings(n)) /\ (\A p : CheckedFile(p)' <=> CheckedFile(p))
  BY DEF Meanings, CheckedFile
<1>8. GoodIndex' <=> GoodIndex
  BY <1>1, <1>7 DEF GoodIndex
<1>9. \A S : GoodFiles(S)' <=> GoodFiles(S)
  BY <1>6 DEF GoodFiles
<1>10. GoodFiles(Needed(Chosen))' <=> GoodFiles(Needed(Chosen))
  BY <1>4, <1>6 DEF GoodFiles
<1>11. Acceptable' <=> Acceptable
  BY <1>7, <1>8, <1>10 DEF Acceptable
<1> QED
  BY <1>2, <1>4, <1>6, <1>11 DEF DepLines, BuiltinLines

\* A fully read index is what the text of modules.dep says.
LEMMA IndexIsText ==
  ASSUME request \in Request, DepsRead(DepLines)
  PROVE  /\ {l.path : l \in Lines} = DOMAIN definitions
         /\ \A p \in DOMAIN definitions : Depends(p) = definitions[p]
         /\ \A p : p \notin DOMAIN definitions => Depends(p) = {}
<1>1. /\ DepLines \in Nat /\ DOMAIN request.dep = 1..DepLines
  BY RequestShape
<1>2. Lines = {request.dep[i] : i \in 1..DepLines}
  BY <1>1 DEF Lines
<1>3. {l.path : l \in Lines} = DOMAIN definitions
  BY <1>2 DEF DepsRead
<1>4. ASSUME NEW p \in DOMAIN definitions PROVE Depends(p) = definitions[p]
  <2>1. PICK i \in 1..DepLines : request.dep[i].path = p
    BY DEF DepsRead
  <2>2. {k \in Lines : k.path = p} = {request.dep[i]}
    BY <1>2, <2>1 DEF DepsRead
  <2>3. Depends(p) = DepsOf(i)
    BY <2>2 DEF Depends, DepsOf
  <2> QED
    BY <2>1, <2>3 DEF DepsRead
<1>5. ASSUME NEW p, p \notin DOMAIN definitions PROVE Depends(p) = {}
  <2>1. {k \in Lines : k.path = p} = {}
    BY <1>3, <1>5
  <2> QED
    BY <2>1 DEF Depends
<1> QED
  BY <1>3, <1>4, <1>5

\* The least closed set of the index is what the text says is needed.
LEMMA DoneIsNeeded ==
  ASSUME request \in Request, DepsRead(DepLines), DOMAIN definitions \subseteq Path,
         definitions \in [DOMAIN definitions -> SUBSET DOMAIN definitions],
         done \subseteq DOMAIN definitions,
         roots = Chosen, result = "ok", ReturnsLeastClosedSet
  PROVE  done = Needed(Chosen)
<1>1. /\ roots \subseteq done /\ Closed(done)
      /\ \A R \in SUBSET DOMAIN definitions : roots \subseteq R /\ Closed(R) => done \subseteq R
  BY DEF ReturnsLeastClosedSet
<1>2. ASSUME NEW p \in done, NEW R \in SUBSET Path, Chosen \subseteq R,
             \A q \in R : Depends(q) \subseteq R
      PROVE  p \in R
  <2>1. PICK Q : Q = R \cap DOMAIN definitions
    OBVIOUS
  <2>2. roots \subseteq Q /\ Q \in SUBSET DOMAIN definitions
    BY <1>1, <1>2, <2>1
  <2>3. Closed(Q)
    <3> SUFFICES ASSUME NEW q \in Q PROVE definitions[q] \subseteq Q
      BY DEF Closed
    <3>1. q \in R /\ q \in DOMAIN definitions
      BY <2>1
    <3>2. definitions[q] \subseteq R
      BY <1>2, <3>1, IndexIsText
    <3>3. definitions[q] \subseteq DOMAIN definitions
      BY <3>1
    <3> QED
      BY <2>1, <3>2, <3>3
  <2> QED
    BY <1>1, <2>1, <2>2, <2>3
<1>3. ASSUME NEW p \in Needed(Chosen) PROVE p \in done
  <2>1. done \in SUBSET Path
    OBVIOUS
  <2>2. \A q \in done : Depends(q) \subseteq done
    BY <1>1, IndexIsText DEF Closed
  <2> QED
    BY <1>1, <2>1, <2>2 DEF Needed
<1>4. done \subseteq Needed(Chosen)
  BY <1>2 DEF Needed
<1> QED
  BY <1>3, <1>4

\* The index and the names, when neither they nor the request change.
LEMMA ReadStutters ==
  ASSUME UNCHANGED <<definitions, names, request>>
  PROVE  /\ \A n : DepsRead(n)' <=> DepsRead(n)
         /\ \A n, m : NamesRead(n, m)' <=> NamesRead(n, m)
         /\ (ValidIndex' <=> ValidIndex) /\ (Acyclic' <=> Acyclic)
<1>1. \A n : DepsRead(n)' <=> DepsRead(n)
  BY DEF DepsRead, DepsOf
<1>2. \A n, m : NamesRead(n, m)' <=> NamesRead(n, m)
  BY DEF NamesRead, DepName, BuiltinName
<1>3. ValidIndex' <=> ValidIndex
  BY DEF ValidIndex, CheckedFile
<1>4. Acyclic' <=> Acyclic
  BY DEF Acyclic, Cyclic
<1> QED
  BY <1>1, <1>2, <1>3, <1>4

\* One more line of modules.dep.
LEMMA DepLineReads ==
  ASSUME SelectionInv, ReadInv, ReadDepLine
  PROVE  ReadInv'
<1>1. /\ pc = "dep" /\ pc' = "dep" /\ at' = at + 1 /\ request' = request
      /\ at <= DepLines /\ at \in Nat /\ at >= 1 /\ DepLines \in Nat
  BY RequestShape DEF ReadDepLine, DepLines, SelectionInv, IndexInv
<1>2. PICK l, n : l = request.dep[at] /\ n = at
  OBVIOUS
<1>3. /\ l.path # BadPath /\ ~Duplicate(l.deps) /\ l.path \notin DOMAIN definitions
      /\ NameOf[l.path] \in request.names => NameOf[l.path] \notin DOMAIN names
  BY <1>2 DEF ReadDepLine, GoodDepLine, DepLine, Ambiguous
<1>4. /\ definitions' = [p \in DOMAIN definitions \cup {l.path} |->
                           IF p = l.path THEN DepsOf(at) ELSE definitions[p]]
      /\ names' = [m \in DOMAIN names \cup ({NameOf[l.path]} \cap request.names) |->
                     IF m = NameOf[l.path] THEN l.path ELSE names[m]]
  BY <1>2 DEF ReadDepLine, insert_name, DepLine, DepsOf
<1>5. 1..at = 1..(at - 1) \cup {at} /\ at \notin 1..(at - 1) /\ 1..0 = {}
  BY <1>1
<1>6. DepsRead(at - 1) /\ NamesRead(at - 1, 0)
  BY <1>1 DEF ReadInv
<1>7. DepsRead(n)'
  <2>1. DOMAIN definitions' = {request.dep[i].path : i \in 1..at}
    BY <1>2, <1>4, <1>5, <1>6 DEF DepsRead
  <2>2. \A i \in 1..(at - 1) : request.dep[i].path # l.path
    BY <1>3, <1>6 DEF DepsRead
  <2>3. \A i \in 1..at : definitions'[request.dep[i].path] = DepsOf(i)
    BY <1>2, <1>4, <1>5, <1>6, <2>2 DEF DepsRead
  <2>4. \A i \in 1..at : request.dep[i].path # BadPath /\ ~Duplicate(request.dep[i].deps)
    BY <1>2, <1>3, <1>5, <1>6 DEF DepsRead
  <2>5. \A i, j \in 1..at : request.dep[i].path = request.dep[j].path => i = j
    BY <1>2, <1>5, <1>6, <2>2 DEF DepsRead
  <2>6. \A i : DepsOf(i)' = DepsOf(i)
    BY <1>1 DEF DepsOf
  <2> QED
    BY <1>1, <1>2, <2>1, <2>3, <2>4, <2>5, <2>6 DEF DepsRead
<1>8. NamesRead(n, 0)'
  <2>1. \A i \in 1..(at - 1) : DepName(i) \in request.names =>
          DepName(i) \in DOMAIN names /\ names[DepName(i)] = request.dep[i].path
    BY <1>6 DEF NamesRead
  <2>2. DepName(at) = NameOf[l.path]
    BY <1>2 DEF DepName
  <2>3. \A i \in 1..(at - 1) : DepName(i) \in request.names => DepName(i) # DepName(at)
    BY <1>3, <2>1, <2>2
  <2>4. \A i \in 1..at : DepName(i) \in request.names =>
          DepName(i) \in DOMAIN names' /\ names'[DepName(i)] = request.dep[i].path
    BY <1>2, <1>4, <1>5, <2>1, <2>2, <2>3
  <2>5. \A a \in DOMAIN names' : \E i \in 1..at : DepName(i) = a
    BY <1>4, <1>5, <1>6, <2>2 DEF NamesRead
  <2>6. \A i, j \in 1..at : DepName(i) = DepName(j) /\ DepName(i) \in request.names => i = j
    BY <1>5, <1>6, <2>3 DEF NamesRead
  <2>7. \A i : DepName(i)' = DepName(i)
    BY <1>1 DEF DepName
  <2> QED
    BY <1>1, <1>2, <1>5, <2>4, <2>5, <2>6, <2>7 DEF NamesRead
<1>9. at' - 1 = n /\ DepLines' = DepLines
  BY <1>1, <1>2, RequestOnly
<1> QED
  BY <1>1, <1>7, <1>8, <1>9 DEF ReadInv

\* One more line of modules.builtin.
LEMMA BuiltinLineReads ==
  ASSUME SelectionInv, ReadInv, ReadBuiltinLine
  PROVE  ReadInv'
<1>1. /\ pc = "builtin" /\ pc' = "builtin" /\ at' = at + 1
      /\ UNCHANGED <<request, definitions>>
      /\ at <= BuiltinLines /\ at \in Nat /\ at >= 1 /\ BuiltinLines \in Nat
  BY RequestShape DEF ReadBuiltinLine, BuiltinLines, SelectionInv, IndexInv, closureVars
<1>2. PICK a, m : a = BuiltinName(at) /\ m = at
  OBVIOUS
<1>3. request.builtin[at] # BadPath /\ (a \in request.names => a \notin DOMAIN names)
  BY <1>2 DEF ReadBuiltinLine, GoodBuiltinLine, BuiltinLine, Ambiguous, BuiltinName
<1>4. names' = [n \in DOMAIN names \cup ({a} \cap request.names) |-> IF n = a THEN Builtin ELSE names[n]]
  BY <1>2 DEF ReadBuiltinLine, insert_name, BuiltinLine, BuiltinName
<1>5. 1..at = 1..(at - 1) \cup {at} /\ at \notin 1..(at - 1)
  BY <1>1
<1>6. DepsRead(DepLines) /\ NamesRead(DepLines, at - 1)
  BY <1>1 DEF ReadInv
<1>7. DepsRead(DepLines)'
  <2>1. DepsOf(0)' = DepsOf(0) /\ \A i : DepsOf(i)' = DepsOf(i)
    BY <1>1 DEF DepsOf
  <2> QED
    BY <1>1, <1>6, <2>1 DEF DepsRead, DepLines
<1>8. NamesRead(DepLines, m)'
  <2> DEFINE N == 1..DepLines
  <2>1. /\ \A i \in N : DepName(i) \in request.names =>
             DepName(i) \in DOMAIN names /\ names[DepName(i)] = request.dep[i].path
        /\ \A j \in 1..(at - 1) : request.builtin[j] # BadPath
        /\ \A j \in 1..(at - 1) : BuiltinName(j) \in request.names =>
             BuiltinName(j) \in DOMAIN names /\ names[BuiltinName(j)] = Builtin
        /\ \A b \in DOMAIN names : (\E i \in N : DepName(i) = b)
                                   \/ (\E j \in 1..(at - 1) : BuiltinName(j) = b)
        /\ \A i, j \in N : DepName(i) = DepName(j) /\ DepName(i) \in request.names => i = j
        /\ \A i, j \in 1..(at - 1) :
             BuiltinName(i) = BuiltinName(j) /\ BuiltinName(i) \in request.names => i = j
        /\ \A i \in N, j \in 1..(at - 1) : DepName(i) \in request.names => DepName(i) # BuiltinName(j)
    BY <1>6 DEF NamesRead
  <2> HIDE DEF N
  <2>2. \A i \in N : DepName(i) \in request.names => DepName(i) # a
    BY <1>3, <2>1
  <2>3. \A j \in 1..(at - 1) : BuiltinName(j) \in request.names => BuiltinName(j) # a
    BY <1>3, <2>1
  <2>4. \A i \in N : DepName(i) \in request.names =>
             DepName(i) \in DOMAIN names' /\ names'[DepName(i)] = request.dep[i].path
    BY <1>4, <2>1, <2>2
  <2>5. \A j \in 1..at : request.builtin[j] # BadPath
    BY <1>3, <1>5, <2>1
  <2>6. \A j \in 1..at : BuiltinName(j) \in request.names =>
             BuiltinName(j) \in DOMAIN names' /\ names'[BuiltinName(j)] = Builtin
    BY <1>2, <1>4, <1>5, <2>1, <2>3
  <2>7. \A b \in DOMAIN names' : (\E i \in N : DepName(i) = b) \/ (\E j \in 1..at : BuiltinName(j) = b)
    BY <1>2, <1>4, <1>5, <2>1
  <2>8. \A i, j \in 1..at : BuiltinName(i) = BuiltinName(j) /\ BuiltinName(i) \in request.names => i = j
    BY <1>2, <1>5, <2>1, <2>3
  <2>9. \A i \in N, j \in 1..at : DepName(i) \in request.names => DepName(i) # BuiltinName(j)
    BY <1>2, <1>5, <2>1, <2>2
  <2>10. \A i : DepName(i)' = DepName(i) /\ BuiltinName(i)' = BuiltinName(i)
    BY <1>1 DEF DepName, BuiltinName
  <2>11. N = 1..DepLines'
    BY <1>1, RequestOnly DEF N
  <2> QED
    BY <1>1, <1>2, <2>1, <2>4, <2>5, <2>6, <2>7, <2>8, <2>9, <2>10, <2>11 DEF NamesRead
<1>9. at' - 1 = m /\ BuiltinLines' = BuiltinLines /\ DepLines' = DepLines
  BY <1>1, <1>2, RequestOnly
<1> QED
  BY <1>1, <1>7, <1>8, <1>9 DEF ReadInv

\* A name that means one thing is meant by one line.
LEMMA OneMeaning ==
  ASSUME request \in Request, NEW a
  PROVE  /\ Cardinality(Meanings(a)) = 1 <=> \E x : Meanings(a) = {x}
         /\ \A i \in 1..DepLines : <<"dep", i>> \in Meanings(a) <=> DepName(i) = a
         /\ \A j \in 1..BuiltinLines : <<"builtin", j>> \in Meanings(a) <=> BuiltinName(j) = a
         /\ \A x \in Meanings(a) : \/ \E i \in 1..DepLines : x = <<"dep", i>>
                                   \/ \E j \in 1..BuiltinLines : x = <<"builtin", j>>
<1>1. PICK D, B : D = 1..DepLines /\ B = 1..BuiltinLines
  OBVIOUS
<1>2. D = DOMAIN request.dep /\ B = DOMAIN request.builtin
  BY <1>1, RequestShape
<1>3. IsFiniteSet(D) /\ IsFiniteSet(B)
  BY <1>1, RequestShape, FS_Interval
<1>4. IsFiniteSet({"dep", "builtin"} \X (D \cup B))
  <2>1. IsFiniteSet({"dep"} \cup {"builtin"})
    BY FS_Singleton, FS_Union
  <2>2. {"dep", "builtin"} = {"dep"} \cup {"builtin"}
    OBVIOUS
  <2> QED
    BY <1>3, <2>1, <2>2, FS_Union, FS_Product
<1>5. Meanings(a) = {<<"dep", i>> : i \in {j \in D : DepName(j) = a}}
                      \cup {<<"builtin", i>> : i \in {j \in B : BuiltinName(j) = a}}
  BY <1>2, Zenon DEF Meanings, DepName, BuiltinName
<1>6. Meanings(a) \in SUBSET ({"dep", "builtin"} \X (D \cup B))
  BY <1>5
<1>7. IsFiniteSet(Meanings(a))
  BY <1>4, <1>6, FS_Subset
<1>8. Cardinality(Meanings(a)) = 1 <=> \E x : Meanings(a) = {x}
  BY <1>7, FS_Singleton
<1>9. \A i \in D : <<"dep", i>> \in Meanings(a) <=> DepName(i) = a
  BY <1>5
<1>10. \A j \in B : <<"builtin", j>> \in Meanings(a) <=> BuiltinName(j) = a
  BY <1>5
<1>11. \A x \in Meanings(a) : (\E i \in D : x = <<"dep", i>>) \/ (\E j \in B : x = <<"builtin", j>>)
  BY <1>5
<1> QED
  BY <1>1, <1>8, <1>9, <1>10, <1>11

\* An acceptable request, line by line.
LEMMA AcceptableLines ==
  ASSUME request \in Request, Acceptable
  PROVE  /\ \A i \in 1..DepLines :
              /\ request.dep[i].path # BadPath /\ BadPath \notin DepsOf(i) /\ ~Duplicate(request.dep[i].deps)
              /\ CheckedFile(request.dep[i].path)
              /\ DepsOf(i) \subseteq {request.dep[j].path : j \in 1..DepLines}
         /\ \A i, j \in 1..DepLines : request.dep[i].path = request.dep[j].path => i = j
         /\ \A j \in 1..BuiltinLines : request.builtin[j] # BadPath
         /\ \A i, j \in 1..DepLines : DepName(i) = DepName(j) /\ DepName(i) \in request.names => i = j
         /\ \A i, j \in 1..BuiltinLines :
              BuiltinName(i) = BuiltinName(j) /\ BuiltinName(i) \in request.names => i = j
         /\ \A i \in 1..DepLines, j \in 1..BuiltinLines :
              DepName(i) \in request.names => DepName(i) # BuiltinName(j)
         /\ \A a \in request.names : (\E i \in 1..DepLines : DepName(i) = a)
                                     \/ (\E j \in 1..BuiltinLines : BuiltinName(j) = a)
<1>1. /\ DOMAIN request.dep = 1..DepLines /\ DOMAIN request.builtin = 1..BuiltinLines
  BY RequestShape
<1>2. GoodIndex /\ \A a \in request.names : Cardinality(Meanings(a)) = 1
  BY DEF Acceptable
<1>3. Lines = {request.dep[i] : i \in 1..DepLines}
  BY <1>1 DEF Lines
<1>4. {k.path : k \in Lines} = {request.dep[j].path : j \in 1..DepLines}
  BY <1>3
<1>5. \A i \in 1..DepLines : request.dep[i] \in Lines
  BY <1>3
<1>6. \A i \in 1..DepLines : /\ request.dep[i].path # BadPath /\ ~Duplicate(request.dep[i].deps)
                             /\ CheckedFile(request.dep[i].path)
                             /\ Depends(request.dep[i].path) \subseteq {k.path : k \in Lines}
  BY <1>2, <1>5 DEF GoodIndex
<1>7. \A i \in 1..DepLines : DepsOf(i) \subseteq Depends(request.dep[i].path)
  BY <1>5 DEF Depends, DepsOf
<1>8. \A i \in 1..DepLines : DepsOf(i) \subseteq {request.dep[j].path : j \in 1..DepLines}
  BY <1>4, <1>6, <1>7
<1>9. \A i \in 1..DepLines : BadPath \notin DepsOf(i)
  BY <1>6, <1>8
<1>10. /\ \A i, j \in 1..DepLines : request.dep[i].path = request.dep[j].path => i = j
       /\ \A j \in 1..BuiltinLines : request.builtin[j] # BadPath
  BY <1>1, <1>2 DEF GoodIndex
<1>11. \A a \in request.names : \E x : Meanings(a) = {x}
  BY <1>2, OneMeaning
<1>12. ASSUME NEW i \in 1..DepLines, NEW j \in 1..DepLines, DepName(i) = DepName(j),
              DepName(i) \in request.names
       PROVE  i = j
  <2>1. <<"dep", i>> \in Meanings(DepName(i)) /\ <<"dep", j>> \in Meanings(DepName(i))
    BY <1>12, OneMeaning
  <2>2. <<"dep", i>> = <<"dep", j>>
    BY <1>11, <1>12, <2>1
  <2> QED
    BY <2>2
<1>13. ASSUME NEW i \in 1..BuiltinLines, NEW j \in 1..BuiltinLines, BuiltinName(i) = BuiltinName(j),
              BuiltinName(i) \in request.names
       PROVE  i = j
  <2>1. <<"builtin", i>> \in Meanings(BuiltinName(i)) /\ <<"builtin", j>> \in Meanings(BuiltinName(i))
    BY <1>13, OneMeaning
  <2>2. <<"builtin", i>> = <<"builtin", j>>
    BY <1>11, <1>13, <2>1
  <2> QED
    BY <2>2
<1>14. ASSUME NEW i \in 1..DepLines, NEW j \in 1..BuiltinLines, DepName(i) \in request.names,
              DepName(i) = BuiltinName(j)
       PROVE  FALSE
  <2>1. <<"dep", i>> \in Meanings(DepName(i)) /\ <<"builtin", j>> \in Meanings(DepName(i))
    BY <1>14, OneMeaning
  <2>2. <<"dep", i>> = <<"builtin", j>>
    BY <1>11, <1>14, <2>1
  <2> QED
    BY <2>2
<1>15. ASSUME NEW a \in request.names
       PROVE  (\E i \in 1..DepLines : DepName(i) = a) \/ (\E j \in 1..BuiltinLines : BuiltinName(j) = a)
  <2>1. PICK x : x \in Meanings(a)
    BY <1>11
  <2> QED
    BY <2>1, OneMeaning
<1> QED
  BY <1>6, <1>8, <1>9, <1>10, <1>12, <1>13, <1>14, <1>15

\* A line, or an index, is refused only in a request that is not acceptable.
LEMMA RefusalsAreRight ==
  ASSUME SelectionInv, ReadInv, RefuseDepLine \/ RefuseBuiltinLine \/ RefuseIndex, Acceptable
  PROVE  FALSE
<1>1. request \in Request /\ at \in Nat /\ at >= 1 /\ DepLines \in Nat /\ BuiltinLines \in Nat
  BY RequestShape DEF SelectionInv, IndexInv
<1>2. CASE RefuseDepLine
  <2>1. pc = "dep" /\ at \in 1..DepLines /\ DepsRead(at - 1) /\ NamesRead(at - 1, 0) /\ ~GoodDepLine
    BY <1>1, <1>2 DEF RefuseDepLine, ReadInv, DepLines
  <2>2. \A i \in 1..(at - 1) : i \in 1..DepLines /\ i # at
    BY <1>1, <2>1
  <2>3. request.dep[at].path # BadPath /\ ~Duplicate(request.dep[at].deps)
    BY <1>1, <2>1, AcceptableLines
  <2>4. \A k \in DOMAIN request.dep[at].deps : request.dep[at].deps[k] # BadPath
    <3>1. BadPath \notin DepsOf(at)
      BY <1>1, <2>1, AcceptableLines
    <3> QED
      BY <3>1 DEF DepsOf
  <2>5. request.dep[at].path \notin DOMAIN definitions
    <3>1. \A i \in 1..(at - 1) : request.dep[i].path # request.dep[at].path
      BY <1>1, <2>1, <2>2, AcceptableLines
    <3> QED
      BY <2>1, <3>1 DEF DepsRead
  <2>6. ~Ambiguous(DepName(at))
    <3> SUFFICES ASSUME DepName(at) \in request.names, DepName(at) \in DOMAIN names PROVE FALSE
      BY DEF Ambiguous
    <3>1. \E i \in 1..(at - 1) : DepName(i) = DepName(at)
      BY <2>1 DEF NamesRead
    <3> QED
      BY <1>1, <2>1, <2>2, <3>1, AcceptableLines
  <2> QED
    BY <2>1, <2>3, <2>4, <2>5, <2>6 DEF GoodDepLine, DepLine, DepName
<1>3. CASE RefuseBuiltinLine
  <2>1. /\ pc = "builtin" /\ at \in 1..BuiltinLines /\ NamesRead(DepLines, at - 1)
        /\ ~GoodBuiltinLine
    BY <1>1, <1>3 DEF RefuseBuiltinLine, ReadInv, BuiltinLines
  <2>2. \A i \in 1..(at - 1) : i \in 1..BuiltinLines /\ i # at
    BY <1>1, <2>1
  <2>3. request.builtin[at] # BadPath
    BY <1>1, <2>1, AcceptableLines
  <2>4. ~Ambiguous(BuiltinName(at))
    <3> SUFFICES ASSUME BuiltinName(at) \in request.names, BuiltinName(at) \in DOMAIN names PROVE FALSE
      BY DEF Ambiguous
    <3>1. \/ \E i \in 1..DepLines : DepName(i) = BuiltinName(at)
          \/ \E j \in 1..(at - 1) : BuiltinName(j) = BuiltinName(at)
      BY <2>1 DEF NamesRead
    <3> QED
      BY <1>1, <2>1, <2>2, <3>1, AcceptableLines
  <2> QED
    BY <2>1, <2>3, <2>4 DEF GoodBuiltinLine, BuiltinLine, BuiltinName
<1>4. CASE RefuseIndex
  <2>1. pc = "builtin" /\ DepsRead(DepLines) /\ ~ValidIndex
    BY <1>4 DEF RefuseIndex, ReadInv
  <2>2. PICK p \in DOMAIN definitions : ~CheckedFile(p) \/ ~(definitions[p] \subseteq DOMAIN definitions)
    BY <2>1 DEF ValidIndex
  <2>3. PICK i \in 1..DepLines : p = request.dep[i].path /\ definitions[p] = DepsOf(i)
    BY <2>1, <2>2 DEF DepsRead
  <2>4. CheckedFile(p) /\ DepsOf(i) \subseteq {request.dep[j].path : j \in 1..DepLines}
    BY <1>1, <2>3, AcceptableLines
  <2> QED
    BY <2>1, <2>2, <2>3, <2>4 DEF DepsRead
<1> QED
  BY <1>2, <1>3, <1>4

\* A search, or a name, fails only in a request that is not acceptable.
LEMMA SearchFailuresAreRight ==
  ASSUME SelectionInv, SearchSafe, ReadInv, SearchFails \/ UnknownName, Acceptable
  PROVE  FALSE
<1>1. request \in Request
  BY DEF SelectionInv, IndexInv
<1>2. CASE SearchFails
  <2>1. pc \in {"all", "picked"} /\ result = "cycle"
    BY <1>2 DEF SearchFails
  <2>2. PICK C \in SUBSET DOMAIN definitions : Cyclic(C)
    BY <2>1 DEF SearchSafe, CycleIsReal
  <2>3. DepsRead(DepLines)
    BY <2>1 DEF ReadInv
  <2>4. C \in SUBSET {l.path : l \in Lines}
    BY <1>1, <2>2, <2>3, IndexIsText
  <2>5. \A p \in C : Depends(p) = definitions[p]
    BY <1>1, <2>2, <2>3, IndexIsText
  <2>6. C # {} /\ \A p \in C : Depends(p) \cap C # {}
    BY <2>2, <2>5 DEF Cyclic
  <2>7. ~\E D \in SUBSET {l.path : l \in Lines} : D # {} /\ \A p \in D : Depends(p) \cap D # {}
    BY DEF Acceptable, GoodIndex
  <2> QED
    BY <2>4, <2>6, <2>7
<1>3. CASE UnknownName
  <2>1. pc = "all"
    BY <1>3 DEF UnknownName
  <2>2. PICK a \in request.names : a \notin DOMAIN names
    BY <1>3 DEF UnknownName
  <2>3. NamesRead(DepLines, BuiltinLines)
    BY <2>1 DEF ReadInv
  <2> QED
    BY <1>1, <2>2, <2>3, AcceptableLines DEF NamesRead
<1> QED
  BY <1>2, <1>3

\* Reading, packing or archiving fails only in a request that is not acceptable.
LEMMA FileFailuresAreRight ==
  ASSUME SelectionInv, SearchSafe, ReadInv, ChoiceInv, FilesInv, Acceptable,
         ReadFails \/ PackFails \/ InsertFails \/ MaterializeFails
  PROVE  FALSE
<1>1. PICK S : S = Needed(Chosen)
  OBVIOUS
<1>2. /\ \A p \in S : request.kind[p] = "regular" /\ Packable(p)
      /\ \A p, q \in S : Relative(p) = Relative(q) => Bytes(p) = Bytes(q)
      /\ \A p, q \in S : Relative(p) \notin ParentsOf[Relative(q)]
  BY <1>1 DEF Acceptable, GoodFiles
<1>3. CASE ReadFails
  <2>1. pc = "picked" /\ result = "ok" /\ \E p \in done : request.kind[p] # "regular"
    BY <1>3 DEF ReadFails
  <2>2. request \in Request /\ DepsRead(DepLines) /\ roots = Chosen /\ ReturnsLeastClosedSet
    BY <2>1 DEF SelectionInv, IndexInv, ReadInv, ChoiceInv, SearchSafe
  <2>3. ClosureTypeOK
    BY <2>1 DEF SelectionInv, SearchesInv, ClosureInv
  <2>4. done = S
    BY <1>1, <2>1, <2>2, <2>3, DoneIsNeeded DEF ClosureTypeOK
  <2> QED
    BY <1>2, <2>1, <2>4
<1>4. CASE PackFails
  <2>1. pc = "pack" /\ \E p \in rest : ~Packable(p)
    BY <1>4 DEF PackFails
  <2>2. rest \subseteq S
    BY <1>1, <2>1 DEF FilesInv
  <2> QED
    BY <1>2, <2>1, <2>2
<1>5. CASE InsertFails
  <2>1. pc = "archive"
    BY <1>5 DEF InsertFails
  <2>2. PICK p \in rest : Relative(p) \in DOMAIN archive /\ archive[Relative(p)] # Bytes(p)
    BY <1>5 DEF InsertFails, Clashes
  <2>3. /\ done = S /\ rest \subseteq S /\ DOMAIN archive = {Relative(q) : q \in done \ rest}
        /\ \A q \in done \ rest : archive[Relative(q)] = Bytes(q)
    BY <1>1, <2>1 DEF FilesInv
  <2>4. PICK q \in done \ rest : Relative(q) = Relative(p)
    BY <2>2, <2>3
  <2>5. archive[Relative(p)] = Bytes(q) /\ Bytes(p) = Bytes(q)
    BY <1>2, <2>3, <2>4
  <2> QED
    BY <2>2, <2>5
<1>6. CASE MaterializeFails
  <2>1. pc = "archive" /\ \E f, g \in DOMAIN archive : f \in ParentsOf[g]
    BY <1>6 DEF MaterializeFails, FileIsDirectory
  <2>2. done = S /\ DOMAIN archive = {Relative(q) : q \in done \ rest}
    BY <1>1, <2>1 DEF FilesInv
  <2> QED
    BY <1>2, <2>1, <2>2
<1> QED
  BY <1>3, <1>4, <1>5, <1>6

\* What the command accepts is acceptable.
LEMMA AcceptsOnlyAcceptable ==
  ASSUME SelectionInv, ReadInv, ChoiceInv, FilesInv, pc = "ok"
  PROVE  Acceptable
<1>1. request \in Request /\ DepsRead(DepLines) /\ NamesRead(DepLines, BuiltinLines) /\ ValidIndex
  BY DEF SelectionInv, IndexInv, ReadInv
<1>2. /\ DOMAIN request.dep = 1..DepLines /\ DOMAIN request.builtin = 1..BuiltinLines
  BY <1>1, RequestShape
<1>3. GoodIndex
  <2>1. \A l \in Lines : \E i \in 1..DepLines : l = request.dep[i]
    BY <1>2 DEF Lines
  <2>2. \A l \in Lines : l.path # BadPath /\ ~Duplicate(l.deps) /\ l.path \in DOMAIN definitions
    BY <1>1, <2>1 DEF DepsRead
  <2>3. \A i, j \in DOMAIN request.dep : request.dep[i].path = request.dep[j].path => i = j
    BY <1>1, <1>2 DEF DepsRead
  <2>4. \A l \in Lines : CheckedFile(l.path) /\ Depends(l.path) \subseteq {k.path : k \in Lines}
    BY <1>1, <2>2, IndexIsText DEF ValidIndex
  <2>5. \A j \in DOMAIN request.builtin : request.builtin[j] # BadPath
    BY <1>1, <1>2 DEF NamesRead
  <2>6. ASSUME NEW C \in SUBSET {l.path : l \in Lines}, C # {}, \A p \in C : Depends(p) \cap C # {}
        PROVE  FALSE
    <3>1. C \in SUBSET DOMAIN definitions
      BY <1>1, <2>6, IndexIsText
    <3>2. \A p \in C : definitions[p] \cap C # {}
      BY <1>1, <2>6, <3>1, IndexIsText
    <3>3. Cyclic(C)
      BY <2>6, <3>2 DEF Cyclic
    <3> QED
      BY <3>1, <3>3 DEF ChoiceInv, Acyclic
  <2> QED
    BY <2>2, <2>3, <2>4, <2>5, <2>6 DEF GoodIndex
<1>4. ASSUME NEW a \in request.names PROVE Cardinality(Meanings(a)) = 1
  <2>1. a \in DOMAIN names
    BY DEF ChoiceInv
  <2>2. (\E i \in 1..DepLines : DepName(i) = a) \/ (\E j \in 1..BuiltinLines : BuiltinName(j) = a)
    BY <1>1, <2>1 DEF NamesRead
  <2>3. CASE \E i \in 1..DepLines : DepName(i) = a
    <3>1. PICK i \in 1..DepLines : DepName(i) = a
      BY <2>3
    <3>2. (\A k \in 1..DepLines : DepName(k) = a => k = i) /\ (\A j \in 1..BuiltinLines : BuiltinName(j) # a)
      BY <1>1, <3>1 DEF NamesRead
    <3>3. <<"dep", i>> \in Meanings(a) /\ \A x \in Meanings(a) : x = <<"dep", i>>
      BY <1>1, <3>1, <3>2, OneMeaning
    <3>4. Meanings(a) = {<<"dep", i>>}
      BY <3>3
    <3> QED
      BY <1>1, <3>4, OneMeaning
  <2>4. CASE \E j \in 1..BuiltinLines : BuiltinName(j) = a
    <3>1. PICK j \in 1..BuiltinLines : BuiltinName(j) = a
      BY <2>4
    <3>2. (\A k \in 1..BuiltinLines : BuiltinName(k) = a => k = j) /\ (\A i \in 1..DepLines : DepName(i) # a)
      BY <1>1, <3>1 DEF NamesRead
    <3>3. <<"builtin", j>> \in Meanings(a) /\ \A x \in Meanings(a) : x = <<"builtin", j>>
      BY <1>1, <3>1, <3>2, OneMeaning
    <3>4. Meanings(a) = {<<"builtin", j>>}
      BY <3>3
    <3> QED
      BY <1>1, <3>4, OneMeaning
  <2> QED
    BY <2>2, <2>3, <2>4
<1>5. GoodFiles(Needed(Chosen))
  <2>1. PICK S : S = Needed(Chosen)
    OBVIOUS
  <2>2. /\ done = S /\ rest = {} /\ \A p \in S : request.kind[p] = "regular" /\ Packable(p)
        /\ DOMAIN archive = {Relative(p) : p \in S} /\ \A p \in S : archive[Relative(p)] = Bytes(p)
        /\ ~FileIsDirectory
    BY <2>1 DEF FilesInv
  <2>3. \A p, q \in S : Relative(p) = Relative(q) => Bytes(p) = Bytes(q)
    BY <2>2
  <2>4. \A p, q \in S : Relative(p) \notin ParentsOf[Relative(q)]
    BY <2>2 DEF FileIsDirectory
  <2> QED
    BY <2>1, <2>2, <2>3, <2>4 DEF GoodFiles
<1> QED
  BY <1>3, <1>4, <1>5 DEF Acceptable, ChoiceInv

\* No search has run while the index is read.
IdleInv == pc \in {"tree", "dep", "builtin"} => result = "ok" /\ done = {} /\ roots = {}

ResolveInv ==
    SelectionInv /\ IdleInv /\ SearchSafe /\ ReadInv /\ ChoiceInv /\ FilesInv /\ ErrorInv

\* What the searches have returned stays right: an index is only extended
\* before they start.
LEMMA SearchStaysSafe ==
  ASSUME ResolveInv, [Next \/ Finished]_selectionVars
  PROVE  IdleInv' /\ SearchSafe'
<1>1. SelectionInv'
  BY SelectionStep DEF ResolveInv
<1>2. CASE UNCHANGED closureVars
  <2>1. UNCHANGED <<definitions, roots, done, result>>
    BY <1>2 DEF closureVars
  <2>2. SearchSafe'
    <3>1. (\A R : Closed(R)' <=> Closed(R)) /\ (\A R : Cyclic(R)' <=> Cyclic(R))
      BY <2>1 DEF Closed, Cyclic
    <3>2. ReturnsLeastClosedSet' <=> ReturnsLeastClosedSet
      BY <2>1, <3>1 DEF ReturnsLeastClosedSet
    <3>3. (CycleIsReal' <=> CycleIsReal) /\ (AcceptedIsAcyclic' <=> AcceptedIsAcyclic)
      BY <2>1, <3>1 DEF CycleIsReal, AcceptedIsAcyclic
    <3> QED
      BY <3>2, <3>3 DEF SearchSafe, ResolveInv
  <2>3. pc' \in {"tree", "dep", "builtin"} => pc \in {"tree", "dep", "builtin"}
    BY DEF Next, FindTree, NoTree, ReadDepLine, RefuseDepLine, DepRead, ReadBuiltinLine, RefuseBuiltinLine,
           CheckIndex, RefuseIndex, Search, SearchFails, Select, UnknownName, ReadFiles, ReadFails, Pack,
           PackFails, Packed, Insert, InsertFails, Materialize, MaterializeFails, Fail, Finished, selectionVars
  <2> QED
    BY <2>1, <2>2, <2>3 DEF IdleInv, ResolveInv
<1>3. CASE ReadDepLine
  <2>1. pc = "dep" /\ pc' = "dep" /\ UNCHANGED <<roots, done, result>>
    BY <1>3 DEF ReadDepLine
  <2>2. result' = "ok" /\ done' = {} /\ roots' = {}
    BY <2>1 DEF ResolveInv, IdleInv
  <2>3. ReturnsLeastClosedSet' /\ CycleIsReal' /\ AcceptedIsAcyclic'
    BY <2>2 DEF ReturnsLeastClosedSet, CycleIsReal, AcceptedIsAcyclic, Closed, Cyclic
  <2> QED
    BY <2>1, <2>2, <2>3 DEF IdleInv, SearchSafe
<1>4. CASE CheckIndex \/ Select \/ Search
  <2>1. pc' \in {"all", "picked"}
    BY <1>4 DEF CheckIndex, Select, Search
  <2>2. ClosureInv'
    BY <1>1, <2>1 DEF SelectionInv, SearchesInv
  <2> QED
    BY <2>1, <2>2 DEF ClosureInv, IdleInv, SearchSafe
<1>5. UNCHANGED closureVars \/ ReadDepLine \/ CheckIndex \/ Select \/ Search
  BY DEF Next, FindTree, NoTree, RefuseDepLine, DepRead, ReadBuiltinLine, RefuseBuiltinLine,
         RefuseIndex, SearchFails, UnknownName, ReadFiles, ReadFails, Pack,
         PackFails, Packed, Insert, InsertFails, Materialize, MaterializeFails, Fail, Finished, selectionVars
<1> QED
  BY <1>2, <1>3, <1>4, <1>5

\* A failure keeps the invariant when the request is not acceptable.
LEMMA FailKeeps ==
  ASSUME ResolveInv, Fail, ~Acceptable
  PROVE  ReadInv' /\ ChoiceInv' /\ FilesInv' /\ ErrorInv'
<1>1. pc' = "error" /\ request' = request
  BY DEF Fail
<1> QED
  BY <1>1, RequestOnly DEF ReadInv, ChoiceInv, FilesInv, ErrorInv

\* Reading the index keeps the invariant.
LEMMA ReadingKeeps ==
  ASSUME ResolveInv, FindTree \/ ReadDepLine \/ DepRead \/ ReadBuiltinLine \/ CheckIndex
  PROVE  ReadInv' /\ ChoiceInv' /\ FilesInv' /\ ErrorInv'
<1>1. /\ request' = request /\ archive' = archive
      /\ pc \in {"tree", "dep", "builtin"} /\ pc' \in {"dep", "builtin", "all"}
  BY DEF FindTree, ReadDepLine, DepRead, ReadBuiltinLine, CheckIndex
<1>2. FilesInv' /\ ErrorInv'
  BY <1>1 DEF ResolveInv, FilesInv, ErrorInv
<1>3. ChoiceInv'
  <2>1. Cardinality(request.trees) = 1
    BY <1>1 DEF ResolveInv, ChoiceInv, FindTree, ReadDepLine, DepRead, ReadBuiltinLine, CheckIndex
  <2> QED
    BY <1>1, <2>1 DEF ChoiceInv
<1>4. request \in Request /\ at \in Nat /\ at >= 1 /\ DepLines \in Nat /\ BuiltinLines \in Nat
  BY RequestShape DEF ResolveInv, SelectionInv, IndexInv
<1>5. DepLines' = DepLines /\ BuiltinLines' = BuiltinLines
  BY <1>1, RequestOnly
<1>6. CASE FindTree
  <2>1. pc = "tree" /\ pc' = "dep" /\ at' = at /\ UNCHANGED <<definitions, names, request>>
    BY <1>6 DEF FindTree, closureVars
  <2>2. DepsRead(0) /\ NamesRead(0, 0) /\ at = 1
    BY <2>1 DEF ResolveInv, ReadInv
  <2>3. DepsRead(0)' /\ NamesRead(0, 0)' /\ at' - 1 = 0
    BY <2>1, <2>2, ReadStutters
  <2>4. ReadInv'
    BY <1>4, <1>5, <2>1, <2>3 DEF ReadInv
  <2> QED
    BY <1>2, <1>3, <2>4
<1>7. CASE ReadDepLine
  BY <1>2, <1>3, <1>7, DepLineReads DEF ResolveInv
<1>8. CASE DepRead
  <2>1. /\ pc = "dep" /\ pc' = "builtin" /\ at' = 1 /\ at > DepLines
        /\ UNCHANGED <<definitions, names, request>>
    BY <1>8 DEF DepRead, closureVars, DepLines
  <2>2. PICK n : n = DepLines
    OBVIOUS
  <2>3. at - 1 <= n /\ DepsRead(at - 1) /\ NamesRead(at - 1, 0)
    BY <2>1, <2>2 DEF ResolveInv, ReadInv
  <2>4. at - 1 = n
    BY <1>4, <2>1, <2>2, <2>3
  <2>5. DepsRead(n)' /\ NamesRead(n, 0)' /\ at' - 1 = 0
    BY <2>1, <2>3, <2>4, ReadStutters
  <2>6. ReadInv'
    BY <1>4, <1>5, <2>1, <2>2, <2>5 DEF ReadInv
  <2> QED
    BY <1>2, <1>3, <2>6
<1>9. CASE ReadBuiltinLine
  BY <1>2, <1>3, <1>9, BuiltinLineReads DEF ResolveInv
<1>10. CASE CheckIndex
  <2>1. /\ pc = "builtin" /\ pc' = "all" /\ at > BuiltinLines /\ ValidIndex
        /\ UNCHANGED <<definitions, names, request>>
    BY <1>10 DEF CheckIndex, BuiltinLines
  <2>2. PICK n, m : n = DepLines /\ m = BuiltinLines
    OBVIOUS
  <2>3. at - 1 <= m /\ DepsRead(n) /\ NamesRead(n, at - 1)
    BY <2>1, <2>2 DEF ResolveInv, ReadInv
  <2>4. at - 1 = m
    BY <1>4, <2>1, <2>2, <2>3
  <2>5. DepsRead(n)' /\ NamesRead(n, m)' /\ ValidIndex'
    BY <2>1, <2>3, <2>4, ReadStutters
  <2>6. ReadInv'
    BY <1>5, <2>1, <2>2, <2>5 DEF ReadInv
  <2> QED
    BY <1>2, <1>3, <2>6
<1> QED
  BY <1>6, <1>7, <1>8, <1>9, <1>10

\* ReadInv after the index is complete.
LEMMA ReadStays ==
  ASSUME ResolveInv, UNCHANGED <<definitions, names, request>>,
         pc \in {"all", "picked", "pack", "archive", "ok"},
         pc' \in {"all", "picked", "pack", "archive", "ok"}
  PROVE  ReadInv' /\ ErrorInv' /\ (Acyclic' <=> Acyclic)
<1>1. PICK n, m : n = DepLines /\ m = BuiltinLines
  OBVIOUS
<1>2. DepsRead(n) /\ NamesRead(n, m) /\ ValidIndex
  BY <1>1 DEF ResolveInv, ReadInv
<1>3. DepsRead(n)' /\ NamesRead(n, m)' /\ ValidIndex' /\ (Acyclic' <=> Acyclic)
  BY <1>2, ReadStutters
<1>4. n = DepLines' /\ m = BuiltinLines'
  BY <1>1, RequestOnly
<1> QED
  BY <1>3, <1>4 DEF ReadInv, ErrorInv

\* The requested names that are not built in are the paths of Chosen.
LEMMA PickedIsChosen ==
  ASSUME SelectionInv, DepsRead(DepLines), NamesRead(DepLines, BuiltinLines),
         request.names \subseteq DOMAIN names
  PROVE  {names[a] : a \in request.names} \ {Builtin} = Chosen
<1>1. request \in Request
  BY DEF SelectionInv, IndexInv
<1>2. DOMAIN request.dep = 1..DepLines
  BY <1>1, RequestShape
<1>3. Chosen = {request.dep[i].path : i \in {k \in 1..DepLines : DepName(k) \in request.names}}
  <2>1. ASSUME NEW x \in Chosen
        PROVE  \E i \in 1..DepLines : DepName(i) \in request.names /\ x = request.dep[i].path
    BY <1>2 DEF Chosen, Lines, DepName
  <2>2. ASSUME NEW i \in 1..DepLines, DepName(i) \in request.names
        PROVE  request.dep[i].path \in Chosen
    BY <1>2, <2>2 DEF Chosen, Lines, DepName
  <2> QED
    BY <2>1, <2>2
<1>4. ASSUME NEW a \in request.names, names[a] # Builtin PROVE names[a] \in Chosen
  <2>1. PICK i \in 1..DepLines : DepName(i) = a
    BY <1>4 DEF NamesRead
  <2>2. names[a] = request.dep[i].path
    BY <2>1 DEF NamesRead
  <2> QED
    BY <1>3, <2>1, <2>2
<1>5. ASSUME NEW i \in 1..DepLines, DepName(i) \in request.names
      PROVE  names[DepName(i)] = request.dep[i].path /\ request.dep[i].path # Builtin
  <2>1. request.dep[i].path \in Path
    BY <1>1, RequestShape DEF DepsRead
  <2> QED
    BY <1>5, <2>1, RequestAssumption DEF NamesRead
<1> QED
  BY <1>3, <1>4, <1>5

\* The searches, and the start of the second, keep the invariant.
LEMMA SearchingKeeps ==
  ASSUME ResolveInv, Search \/ Select
  PROVE  ReadInv' /\ ChoiceInv' /\ FilesInv' /\ ErrorInv'
<1>1. /\ UNCHANGED <<definitions, names, request, archive>>
      /\ pc \in {"all", "picked"} /\ pc' \in {"all", "picked"}
  BY DEF Search, Select, ClosureStep, NextRoot, Return, Leave, SkipDone, Cycle, Enter
<1>2. ReadInv' /\ ErrorInv' /\ (Acyclic' <=> Acyclic)
  BY <1>1, ReadStays
<1>3. FilesInv'
  BY <1>1 DEF ResolveInv, FilesInv
<1>4. Cardinality(request'.trees) = 1
  BY <1>1 DEF ResolveInv, ChoiceInv
<1>5. CASE Search
  <2>1. pc' = pc /\ roots' = roots
    BY <1>5 DEF Search, ClosureStep, NextRoot, Return, Leave, SkipDone, Cycle, Enter
  <2>2. Chosen' = Chosen
    BY <1>1, RequestOnly
  <2>3. ChoiceInv'
    BY <1>1, <1>2, <1>4, <2>1, <2>2 DEF ResolveInv, ChoiceInv
  <2> QED
    BY <1>2, <1>3, <2>3
<1>6. CASE Select
  <2>1. /\ pc = "all" /\ result = "ok" /\ request.names \subseteq DOMAIN names
        /\ roots' = {names[a] : a \in request.names} \ {Builtin}
    BY <1>6 DEF Select, StartClosure
  <2>2. roots' = Chosen
    BY <1>1, <2>1, PickedIsChosen DEF ResolveInv, ReadInv
  <2>3. Chosen' = Chosen
    BY <1>1, RequestOnly
  <2>4. ClosureInv /\ roots = DOMAIN definitions
    BY <2>1 DEF ResolveInv, SelectionInv, SearchesInv
  <2>5. Acyclic
    BY <2>1, <2>4 DEF Acyclic, ClosureInv, ClosureTypeOK, ReturnsLeastClosedSet, AcceptedIsAcyclic
  <2>6. ChoiceInv'
    BY <1>1, <1>2, <1>4, <2>1, <2>2, <2>3, <2>5 DEF ChoiceInv
  <2> QED
    BY <1>2, <1>3, <2>6
<1> QED
  BY <1>5, <1>6

\* Reading, packing and archiving the files keep the invariant.
LEMMA FilingKeeps ==
  ASSUME ResolveInv, ReadFiles \/ Pack \/ Packed \/ Insert \/ Materialize
  PROVE  ReadInv' /\ ChoiceInv' /\ FilesInv' /\ ErrorInv'
<1>1. /\ UNCHANGED <<definitions, names, request, roots, done, result>>
      /\ pc \in {"picked", "pack", "archive"} /\ pc' \in {"pack", "archive", "ok"}
  BY DEF ReadFiles, Pack, Packed, Insert, Materialize, closureVars
<1>2. ReadInv' /\ ErrorInv' /\ (Acyclic' <=> Acyclic)
  BY <1>1, ReadStays
<1>3. PICK S : S = Needed(Chosen)
  OBVIOUS
<1>4. /\ Chosen' = Chosen /\ S = Needed(Chosen)'
      /\ \A p : (Packable(p)' <=> Packable(p)) /\ Relative(p)' = Relative(p) /\ Bytes(p)' = Bytes(p)
  BY <1>1, <1>3, RequestOnly
<1>5. ChoiceInv'
  BY <1>1, <1>2, <1>4 DEF ResolveInv, ChoiceInv
<1>6. FilesInv'
  <2>1. CASE ReadFiles
    <3>1. /\ pc = "picked" /\ result = "ok" /\ \A p \in done : request.kind[p] = "regular"
          /\ rest' = done /\ pc' = "pack" /\ archive' = archive
      BY <2>1 DEF ReadFiles
    <3>2. request \in Request /\ DepsRead(DepLines) /\ roots = Chosen /\ ReturnsLeastClosedSet
      BY <3>1 DEF ResolveInv, SelectionInv, IndexInv, ReadInv, ChoiceInv, SearchSafe
    <3>3. ClosureTypeOK
      BY <3>1 DEF ResolveInv, SelectionInv, SearchesInv, ClosureInv
    <3>4. done = S
      BY <1>3, <3>1, <3>2, <3>3, DoneIsNeeded DEF ClosureTypeOK
    <3>5. archive = <<>>
      BY <3>1 DEF ResolveInv, FilesInv
    <3> QED
      BY <1>1, <1>4, <3>1, <3>4, <3>5 DEF FilesInv
  <2>2. CASE Pack
    <3>1. pc = "pack" /\ pc' = "pack" /\ archive' = archive
      BY <2>2 DEF Pack
    <3>2. PICK p \in rest : Packable(p) /\ rest' = rest \ {p}
      BY <2>2 DEF Pack
    <3>3. /\ archive = <<>> /\ done = S /\ rest \subseteq done /\ (\A q \in done : request.kind[q] = "regular")
          /\ \A q \in done \ rest : Packable(q)
      BY <1>3, <3>1 DEF ResolveInv, FilesInv
    <3>4. \A q \in done \ rest' : Packable(q)
      BY <3>2, <3>3
    <3> QED
      BY <1>1, <1>4, <3>1, <3>2, <3>3, <3>4 DEF FilesInv
  <2>3. CASE Packed
    <3>1. pc = "pack" /\ pc' = "archive" /\ archive' = archive /\ rest = {} /\ rest' = done
      BY <2>3 DEF Packed
    <3>2. /\ archive = <<>> /\ done = S /\ (\A q \in done : request.kind[q] = "regular")
          /\ \A q \in done : Packable(q)
      BY <1>3, <3>1 DEF ResolveInv, FilesInv
    <3>3. DOMAIN archive' = {} /\ done' \ rest' = {}
      BY <1>1, <3>1, <3>2
    <3> QED
      BY <1>1, <1>4, <3>1, <3>2, <3>3 DEF FilesInv
  <2>4. CASE Insert
    <3>1. pc = "archive" /\ pc' = "archive"
      BY <2>4 DEF Insert
    <3>2. PICK p \in rest : /\ ~Clashes(p)
                            /\ archive' = [f \in DOMAIN archive \cup {Relative(p)} |->
                                             IF f = Relative(p) THEN Bytes(p) ELSE archive[f]]
                            /\ rest' = rest \ {p}
      BY <2>4 DEF Insert
    <3>3. /\ done = S /\ rest \subseteq done /\ (\A q \in done : request.kind[q] = "regular")
          /\ (\A q \in done : Packable(q)) /\ DOMAIN archive = {Relative(q) : q \in done \ rest}
          /\ \A q \in done \ rest : archive[Relative(q)] = Bytes(q)
      BY <1>3, <3>1 DEF ResolveInv, FilesInv
    <3>4. done \ rest' = (done \ rest) \cup {p}
      BY <3>2, <3>3
    <3>5. DOMAIN archive' = {Relative(q) : q \in done \ rest'}
      BY <3>2, <3>3, <3>4
    <3>6. \A q \in done \ rest : Relative(q) = Relative(p) => Bytes(q) = Bytes(p)
      BY <3>2, <3>3 DEF Clashes
    <3>7. \A q \in done \ rest' : archive'[Relative(q)] = Bytes(q)
      BY <3>2, <3>3, <3>4, <3>6
    <3>8. rest' \subseteq done
      BY <3>2, <3>3
    <3>9. /\ DOMAIN archive' = {Relative(q)' : q \in done' \ rest'}
          /\ \A q \in done' \ rest' : archive'[Relative(q)'] = Bytes(q)'
      BY <1>1, <1>4, <3>5, <3>7
    <3> QED
      BY <1>1, <1>4, <3>1, <3>3, <3>8, <3>9 DEF FilesInv
  <2>5. CASE Materialize
    <3>1. pc = "archive" /\ pc' = "ok" /\ rest = {} /\ UNCHANGED <<rest, archive>> /\ ~FileIsDirectory
      BY <2>5 DEF Materialize
    <3>2. /\ done = S /\ (\A q \in done : request.kind[q] = "regular")
          /\ (\A q \in done : Packable(q)) /\ DOMAIN archive = {Relative(q) : q \in done}
          /\ \A q \in done : archive[Relative(q)] = Bytes(q)
      BY <1>3, <3>1 DEF ResolveInv, FilesInv
    <3>3. ~FileIsDirectory'
      BY <3>1 DEF FileIsDirectory
    <3>4. done' \ rest' = done
      BY <1>1, <3>1
    <3> QED
      BY <1>1, <1>4, <3>1, <3>2, <3>3, <3>4 DEF FilesInv
  <2> QED
    BY <2>1, <2>2, <2>3, <2>4, <2>5
<1> QED
  BY <1>2, <1>5, <1>6

\* A step that changes nothing keeps the invariant.
LEMMA NothingKeeps ==
  ASSUME ResolveInv, UNCHANGED selectionVars
  PROVE  ReadInv' /\ ChoiceInv' /\ FilesInv' /\ ErrorInv'
<1>1. /\ UNCHANGED <<request, pc, at, names, rest, archive>>
      /\ UNCHANGED <<definitions, roots, done, result>>
  BY DEF selectionVars, closureVars
<1>2. PICK k, n, m : k = at - 1 /\ n = DepLines /\ m = BuiltinLines
  OBVIOUS
<1>3. k = at' - 1 /\ n = DepLines' /\ m = BuiltinLines'
  BY <1>1, <1>2, RequestOnly
<1>4. ReadInv'
  <2>1. /\ \A i : DepsRead(i)' <=> DepsRead(i)
        /\ \A i, j : NamesRead(i, j)' <=> NamesRead(i, j)
        /\ (ValidIndex' <=> ValidIndex)
    BY <1>1, ReadStutters
  <2>2. /\ DepsRead(0)' <=> DepsRead(0)
        /\ NamesRead(0, 0)' <=> NamesRead(0, 0)
        /\ DepsRead(k)' <=> DepsRead(k)
        /\ NamesRead(k, 0)' <=> NamesRead(k, 0)
        /\ DepsRead(n)' <=> DepsRead(n)
        /\ NamesRead(n, k)' <=> NamesRead(n, k)
        /\ NamesRead(n, m)' <=> NamesRead(n, m)
    BY <2>1
  <2> QED
    BY <1>1, <1>2, <1>3, <2>1, <2>2 DEF ResolveInv, ReadInv
<1>5. (Acyclic' <=> Acyclic) /\ Chosen' = Chosen
  BY <1>1, ReadStutters, RequestOnly
<1>6. ChoiceInv'
  BY <1>1, <1>5 DEF ResolveInv, ChoiceInv
<1>7. FilesInv'
  <2>1. /\ Needed(Chosen)' = Needed(Chosen)
        /\ \A p : (Packable(p)' <=> Packable(p)) /\ Relative(p)' = Relative(p) /\ Bytes(p)' = Bytes(p)
    BY <1>1, RequestOnly
  <2>2. FileIsDirectory' <=> FileIsDirectory
    BY <1>1 DEF FileIsDirectory
  <2> QED
    BY <1>1, <2>1, <2>2 DEF ResolveInv, FilesInv
<1>8. ErrorInv'
  BY <1>1, RequestOnly DEF ResolveInv, ErrorInv
<1> QED
  BY <1>4, <1>6, <1>7, <1>8

\* The invariant holds when the command starts.
LEMMA ResolveInit == Init => ResolveInv
<1> SUFFICES ASSUME Init PROVE ResolveInv
  OBVIOUS
<1>1. SelectionInv
  BY DEF Init, SelectionInv, IndexInv, SearchesInv
<1>2. IdleInv /\ SearchSafe
  BY DEF Init, IdleInv, SearchSafe, ReturnsLeastClosedSet, CycleIsReal, AcceptedIsAcyclic, Closed, Cyclic
<1>3. ReadInv
  <2>1. 1..0 = {} /\ DOMAIN definitions = {} /\ DOMAIN names = {}
    BY DEF Init
  <2>2. DepsRead(0) /\ NamesRead(0, 0)
    BY <2>1 DEF DepsRead, NamesRead
  <2> QED
    BY <2>2 DEF Init, ReadInv
<1> QED
  BY <1>1, <1>2, <1>3 DEF Init, ResolveInv, ChoiceInv, FilesInv, ErrorInv

\* The invariant is inductive: one group of steps after the other.
LEMMA ResolveStep == ResolveInv /\ [Next \/ Finished]_selectionVars => ResolveInv'
<1> SUFFICES ASSUME ResolveInv, [Next \/ Finished]_selectionVars PROVE ResolveInv'
  OBVIOUS
<1>1. SelectionInv' /\ IdleInv' /\ SearchSafe'
  BY SelectionStep, SearchStaysSafe DEF ResolveInv
<1>2. CASE FindTree \/ ReadDepLine \/ DepRead \/ ReadBuiltinLine \/ CheckIndex
  BY <1>1, <1>2, ReadingKeeps DEF ResolveInv
<1>3. CASE Search \/ Select
  BY <1>1, <1>3, SearchingKeeps DEF ResolveInv
<1>4. CASE ReadFiles \/ Pack \/ Packed \/ Insert \/ Materialize
  BY <1>1, <1>4, FilingKeeps DEF ResolveInv
<1>5. CASE NoTree
  <2>1. Fail /\ ~Acceptable
    BY <1>5 DEF NoTree, Acceptable
  <2> QED
    BY <1>1, <2>1, FailKeeps DEF ResolveInv
<1>6. CASE RefuseDepLine \/ RefuseBuiltinLine \/ RefuseIndex
  <2>1. Fail
    BY <1>6 DEF RefuseDepLine, RefuseBuiltinLine, RefuseIndex
  <2>2. ~Acceptable
    BY <1>6, RefusalsAreRight DEF ResolveInv
  <2> QED
    BY <1>1, <2>1, <2>2, FailKeeps DEF ResolveInv
<1>7. CASE SearchFails \/ UnknownName
  <2>1. Fail
    BY <1>7 DEF SearchFails, UnknownName
  <2>2. ~Acceptable
    BY <1>7, SearchFailuresAreRight DEF ResolveInv
  <2> QED
    BY <1>1, <2>1, <2>2, FailKeeps DEF ResolveInv
<1>8. CASE ReadFails \/ PackFails \/ InsertFails \/ MaterializeFails
  <2>1. Fail
    BY <1>8 DEF ReadFails, PackFails, InsertFails, MaterializeFails
  <2>2. ~Acceptable
    BY <1>8, FileFailuresAreRight DEF ResolveInv
  <2> QED
    BY <1>1, <2>1, <2>2, FailKeeps DEF ResolveInv
<1>9. CASE UNCHANGED selectionVars
  BY <1>1, <1>9, NothingKeeps DEF ResolveInv
<1> QED
  BY <1>2, <1>3, <1>4, <1>5, <1>6, <1>7, <1>8, <1>9 DEF Next, Finished

\* The invariant holds throughout the command.
LEMMA ResolveInvariance == Spec => []ResolveInv
  BY ResolveInit, ResolveStep, PTL DEF Spec

\* The command accepts a request exactly when the text of its two index files
\* and its module files are sound, for every tree, index and set of names:
\* neither the order of the lines nor the point where a check runs matters.
THEOREM VerdictCorrect == Spec => []VerdictIsExact
<1>1. ResolveInv => VerdictIsExact
  BY AcceptsOnlyAcceptable DEF ResolveInv, ErrorInv, VerdictIsExact
<1> QED
  BY <1>1, ResolveInvariance, PTL

\* The initrd holds every module the request needs, loadable and with its own
\* payload, and nothing else, for every tree and request.
THEOREM ArchiveCorrect == Spec => []ArchiveIsWhatIsNeeded
<1>1. ResolveInv => ArchiveIsWhatIsNeeded
  <2> SUFFICES ASSUME ResolveInv, pc = "ok" PROVE ArchiveIsWhatIsNeeded
    BY DEF ArchiveIsWhatIsNeeded
  <2>1. PICK S : S = Needed(Chosen)
    OBVIOUS
  <2>2. /\ DOMAIN archive = {Relative(p) : p \in S}
        /\ \A p \in S : archive[Relative(p)] = Bytes(p)
    BY <2>1 DEF ResolveInv, FilesInv
  <2>3. \A p : Relative(p) \in {p, PlainOf[p]}
    BY DEF Relative
  <2>4. \A p : Loadable(Bytes(p)) /\ Bytes(p).payload = request.payload[p]
    <3> SUFFICES ASSUME NEW p PROVE Loadable(Bytes(p)) /\ Bytes(p).payload = request.payload[p]
      OBVIOUS
    <3>1. CASE Keep(p)
      <4>1. Bytes(p).format = FormatOf[p] /\ Bytes(p).payload = request.payload[p]
        BY <3>1 DEF Bytes
      <4> QED
        BY <3>1, <4>1 DEF Keep, Loadable
    <3>2. CASE ~Keep(p)
      <4>1. Bytes(p).format = "ko" /\ Bytes(p).payload = request.payload[p]
        BY <3>2 DEF Bytes
      <4> QED
        BY <4>1 DEF Loadable
    <3> QED
      BY <3>1, <3>2
  <2>5. \A p \in S : \E f \in DOMAIN archive :
          f \in {p, PlainOf[p]} /\ Loadable(archive[f]) /\ archive[f].payload = request.payload[p]
    BY <2>2, <2>3, <2>4
  <2>6. \A f \in DOMAIN archive : \E p \in S : f \in {p, PlainOf[p]}
    BY <2>2, <2>3
  <2> QED
    BY <2>1, <2>5, <2>6 DEF ArchiveIsWhatIsNeeded
<1> QED
  BY <1>1, ResolveInvariance, PTL

\* Both searches of the command, over an index of any size, return the least
\* closed set of their roots.
THEOREM SearchesReturnLeast == Spec => []ReturnsLeastClosedSet
<1>1. ResolveInv => ReturnsLeastClosedSet
  BY DEF ResolveInv, SearchSafe
<1> QED
  BY <1>1, ResolveInvariance, PTL

\* A command that reports a dependency cycle was given an index with one, and
\* what a search accepts holds none, so the command refuses every cyclic index.
THEOREM CycleVerdictCorrect == Spec => []CycleVerdictIsExact
<1>1. ResolveInv => CycleVerdictIsExact
  BY DEF ResolveInv, SearchSafe, CycleVerdictIsExact
<1> QED
  BY <1>1, ResolveInvariance, PTL

\* In both searches a module is finished after what it depends on.
THEOREM SelectionFinishesInOrder == Spec => DependenciesFirst
<1>1. ResolveInv /\ [Next \/ Finished]_selectionVars
        => [\A p \in done' \ done : definitions[p] \subseteq done]_closureVars
  <2> SUFFICES ASSUME ResolveInv, [Next \/ Finished]_selectionVars, ~UNCHANGED closureVars,
                      NEW p \in done' \ done
               PROVE  definitions[p] \subseteq done
    OBVIOUS
  <2>1. ReadDepLine \/ CheckIndex \/ Select \/ Search
    BY DEF Next, FindTree, NoTree, RefuseDepLine, DepRead, ReadBuiltinLine, RefuseBuiltinLine,
           RefuseIndex, SearchFails, UnknownName, ReadFiles, ReadFails, Pack,
           PackFails, Packed, Insert, InsertFails, Materialize, MaterializeFails, Fail, Finished, selectionVars
  <2>2. CASE ReadDepLine \/ CheckIndex \/ Select
    BY <2>2 DEF ReadDepLine, CheckIndex, Select, StartClosure
  <2>3. CASE Search
    <3>1. ClosureInv /\ ClosureStep
      BY <2>3 DEF Search, ResolveInv, SelectionInv, SearchesInv
    <3> QED
      BY <3>1, FinishedAfterDependencies
  <2> QED
    BY <2>1, <2>2, <2>3
<1> QED
  BY <1>1, ResolveInvariance, PTL DEF Spec, DependenciesFirst
============================================================================
