------------------------- MODULE LengthCache_proofs -------------------------
(***************************************************************************)
(* Proofs about LengthCache, for every number of slots, every set of       *)
(* addresses and every bound on the lengths.  When one thread measures,    *)
(* the cache answers as strlen would, whatever is released, grown or made  *)
(* anew, and keeps the longest strings.  With two threads TLC finds        *)
(* AnswersRight violated: the assumption is needed.                        *)
(***************************************************************************)
EXTENDS LengthCache, WellFoundedInduction, TLAPS

\* What a thread has established at each place of buraaq_length_of.
Progress ==
  \A t \in Threads :
    /\ pc[t] = "hit" => ptr[i[t]] = arg[t]
    /\ pc[t] \in {"store", "fill"} => n[t] = heap[arg[t]]
    /\ pc[t] = "fill" => ptr[i[t]] = arg[t]

IInv == TypeOK /\ Progress /\ RememberedIsCurrent

\* A set of naturals that is not empty has a least element.
LEMMA Least ==
  ASSUME NEW S, S \subseteq Nat, S # {}
  PROVE  \E k \in S : \A l \in S : k <= l
  <1> DEFINE Less == {ss \in Nat \X Nat : ss[1] < ss[2]}
  <1>1. OpToRel(<, Nat) = Less
    BY Zenon DEF OpToRel
  <1>2. IsWellFoundedOn(Less, Nat)
    BY <1>1, NatLessThanWellFounded, Zenon
  <1> HIDE DEF Less
  <1>3. \E k \in S : \A l \in S : ~ (<<l, k>> \in Less)
    BY <1>2, WFMin
  <1>4. PICK k \in S : \A l \in S : ~ (<<l, k>> \in Less)
    BY <1>3
  <1>5. ASSUME NEW l \in S PROVE k <= l
    <2>1. l \in Nat /\ k \in Nat /\ <<l, k>> \notin Less
      BY <1>4
    <2>2. l < k => <<l, k>> \in Less
      BY <2>1 DEF Less
    <2>3. QED
      BY <2>1, <2>2
  <1>6. QED
    BY <1>5

\* The first slot of a set of slots is one of them.
LEMMA FirstInSet ==
  ASSUME NEW S, S \subseteq Table, S # {}
  PROVE  First(S) \in S
  <1>1. Table \subseteq Nat
    BY SlotsAssumption DEF Table
  <1>2. S \subseteq Nat
    BY <1>1
  <1>3. \E k \in S : \A l \in S : k <= l
    BY <1>2, Least
  <1>4. QED
    BY <1>3, Zenon DEF First

\* Some string of the table is a shortest one.
LEMMA SlotOfLeast ==
  ASSUME TypeOK
  PROVE  {k \in Table : \A l \in Table : val[k] <= val[l]} # {}
  <1> DEFINE V == {val[k] : k \in Table}
  <1>1. val \in [Table -> Nat]
    BY MaxLenAssumption DEF TypeOK, Lengths
  <1>2. 0 \in Table
    BY SlotsAssumption DEF Table
  <1>3. V \subseteq Nat /\ V # {}
    BY <1>1, <1>2
  <1>4. PICK v \in V : \A u \in V : v <= u
    BY <1>3, Least
  <1>5. QED
    BY <1>4

\* There is always a slot to give up.
LEMMA WeakestInTable == TypeOK => Weakest \in Table
  <1> SUFFICES ASSUME TypeOK PROVE Weakest \in Table
    OBVIOUS
  <1>1. CASE Vacant # {}
    BY <1>1, FirstInSet DEF Weakest, Vacant
  <1>2. CASE Vacant = {}
    <2> DEFINE W == {k \in Table : \A l \in Table : val[k] <= val[l]}
    <2>1. First(W) \in W
      BY SlotOfLeast, FirstInSet
    <2>2. QED
      BY <1>2, <2>1 DEF Weakest
  <1>3. QED
    BY <1>1, <1>2

LEMMA InitIInv == Init => IInv
  <1> SUFFICES ASSUME Init PROVE IInv
    OBVIOUS
  <1>1. TypeOK
    BY SlotsAssumption, MaxLenAssumption DEF Init, TypeOK, Lengths, Table
  <1>2. Progress /\ RememberedIsCurrent
    BY DEF Init, Progress, RememberedIsCurrent
  <1>3. QED
    BY <1>1, <1>2 DEF IInv

\* The table emptied: nothing is remembered, and it has its types.
LEMMA ForgetEmpties ==
  ASSUME Forget
  PROVE  /\ ptr' \in [Table -> Addresses \cup {Null}] /\ val' \in [Table -> Lengths]
         /\ \A k \in Table : ptr'[k] = Null
         /\ seen' = {}
  BY MaxLenAssumption DEF Forget, Lengths

\* No step of any thread breaks a type: who measures a string keeps it alive.
LEMMA NextTypeOK == TypeOK /\ [Next]_vars => TypeOK'
  <1> SUFFICES ASSUME TypeOK, [Next]_vars PROVE TypeOK'
    OBVIOUS
  <1>1. ASSUME NEW t \in Threads, NEW a \in Addresses, Make(t, a) PROVE TypeOK'
    BY <1>1 DEF Make, TypeOK, Alive, locals, Dead, Lengths
  <1>2. ASSUME NEW t \in Threads, NEW a \in Addresses, Release(t, a) PROVE TypeOK'
    <2>1. /\ Forget /\ UNCHANGED locals /\ heap' = [heap EXCEPT ![a] = Dead]
          /\ \A u \in Threads : pc[u] # "out" => arg[u] # a
      BY <1>2 DEF Release, InUse
    <2>2. QED
      BY <2>1, ForgetEmpties DEF TypeOK, Alive, locals
  <1>3. ASSUME NEW t \in Threads, NEW a \in Addresses, NEW b \in Addresses,
               Grow(t, a, b)
        PROVE TypeOK'
    <2>1. PICK len \in heap[a] .. MaxLen :
            heap' = [heap EXCEPT ![a] = Dead, ![b] = len]
      BY <1>3 DEF Grow
    <2>2. /\ Forget /\ UNCHANGED locals /\ heap[a] # Dead
          /\ \A u \in Threads : pc[u] # "out" => arg[u] # a
      BY <1>3 DEF Grow, InUse
    <2>3. len \in Lengths
      BY <2>1, <2>2, MaxLenAssumption DEF TypeOK, Lengths
    <2>4. heap' \in [Addresses -> Lengths \cup {Dead}]
      BY <2>1, <2>3 DEF TypeOK
    <2>5. Alive \ {a} \subseteq Alive'
      BY <2>1, <2>3 DEF Alive, TypeOK, Lengths, Dead
    <2>6. QED
      BY <2>2, <2>4, <2>5, ForgetEmpties DEF TypeOK, locals
  <1>4. ASSUME NEW t \in Threads, NEW a \in Addresses, Call(t, a) PROVE TypeOK'
    BY <1>4, SlotsAssumption DEF Call, TypeOK, Alive
  <1>5. ASSUME NEW t \in Threads, CallNull(t) PROVE TypeOK'
    BY <1>5, MaxLenAssumption DEF CallNull, TypeOK, Alive, Lengths
  <1>6. ASSUME NEW t \in Threads, Walk(t) PROVE TypeOK'
    <2>1. i[t] \in Table /\ i[t] + 1 \in 0 .. Slots
      BY <1>6, SlotsAssumption DEF Walk, TypeOK, Table
    <2>2. QED
      BY <1>6, <2>1 DEF Walk, TypeOK, Alive
  <1>7. ASSUME NEW t \in Threads, Hit(t) PROVE TypeOK'
    BY <1>7 DEF Hit, Return, TypeOK, Alive
  <1>8. ASSUME NEW t \in Threads, Miss(t) PROVE TypeOK'
    <2>1. heap[arg[t]] \in Lengths /\ arg[t] \in Addresses
      BY <1>8 DEF Miss, TypeOK, Alive
    <2>2. Weakest \in Table /\ Weakest \in 0 .. Slots
      BY WeakestInTable, SlotsAssumption DEF Table
    <2>3. /\ pc[t] = "walk"
          /\ n' = [n EXCEPT ![t] = heap[arg[t]]] /\ i' = [i EXCEPT ![t] = Weakest]
          /\ seen' = seen \cup {arg[t]} /\ UNCHANGED <<heap, ptr, val, arg>>
          /\ \/ pc' = [pc EXCEPT ![t] = "store"] /\ UNCHANGED answer
             \/ Return(t, heap[arg[t]])
      BY <1>8 DEF Miss, StrLen
    <2>4. QED
      BY <2>1, <2>2, <2>3 DEF Return, TypeOK, Alive
  <1>9. ASSUME NEW t \in Threads, StorePtr(t) PROVE TypeOK'
    BY <1>9 DEF StorePtr, TypeOK, Alive
  <1>10. ASSUME NEW t \in Threads, StoreVal(t) PROVE TypeOK'
    BY <1>10 DEF StoreVal, Return, TypeOK, Alive
  <1>11. CASE UNCHANGED vars
    BY <1>11 DEF vars, locals, TypeOK, Alive
  <1>12. QED
    BY <1>1, <1>2, <1>3, <1>4, <1>5, <1>6, <1>7, <1>8, <1>9, <1>10, <1>11
    DEF Next, Measuring

(* With any number of threads, every variable keeps its type, and whoever  *)
(* is in the middle of buraaq_length_of measures a string that lives, at a *)
(* slot of the table once it has chosen one.                               *)
THEOREM TypeCorrect == Spec => []TypeOK
  <1>1. Init => TypeOK
    BY InitIInv DEF IInv
  <1>2. QED
    BY <1>1, NextTypeOK, PTL DEF Spec

\* What a lone thread knows, and what the table remembers, stays true.
LEMMA NextIInv ==
  ASSUME NEW self, Threads = {self}, IInv, [Next]_vars
  PROVE  IInv'
  <1>a. TypeOK /\ Progress /\ RememberedIsCurrent
    BY DEF IInv
  <1>b. TypeOK'
    BY <1>a, NextTypeOK
  <1> SUFFICES Progress' /\ RememberedIsCurrent'
    BY <1>b DEF IInv
  <1>1. ASSUME NEW t \in Threads, NEW a \in Addresses, Make(t, a)
        PROVE  Progress' /\ RememberedIsCurrent'
    <2>1. Progress'
      BY <1>a, <1>1 DEF Make, Progress, locals
    <2>2. RememberedIsCurrent'
      BY <1>a, <1>1 DEF Make, TypeOK, RememberedIsCurrent, Alive, locals
    <2>3. QED
      BY <2>1, <2>2
  <1>2. ASSUME NEW t \in Threads, NEW a \in Addresses, Release(t, a)
        PROVE  Progress' /\ RememberedIsCurrent'
    <2>1. pc[t] = "out" /\ Forget /\ UNCHANGED locals
          /\ heap' = [heap EXCEPT ![a] = Dead]
      BY <1>2 DEF Release
    <2>2. Progress'
      BY <1>a, <2>1 DEF Progress, locals
    <2>3. RememberedIsCurrent'
      BY <2>1, ForgetEmpties DEF RememberedIsCurrent
    <2>4. QED
      BY <2>2, <2>3
  <1>3. ASSUME NEW t \in Threads, NEW a \in Addresses, NEW b \in Addresses,
               Grow(t, a, b)
        PROVE  Progress' /\ RememberedIsCurrent'
    <2>1. pc[t] = "out" /\ Forget /\ UNCHANGED locals
      BY <1>3 DEF Grow
    <2>2. Progress'
      BY <1>a, <2>1 DEF Progress, locals
    <2>3. RememberedIsCurrent'
      BY <2>1, ForgetEmpties DEF RememberedIsCurrent
    <2>4. QED
      BY <2>2, <2>3
  <1>4. ASSUME NEW t \in Threads, NEW a \in Addresses, Call(t, a)
        PROVE  Progress' /\ RememberedIsCurrent'
    <2>1. Progress'
      BY <1>a, <1>4 DEF Call, TypeOK, Progress
    <2>2. RememberedIsCurrent'
      BY <1>a, <1>4 DEF Call, TypeOK, RememberedIsCurrent, Alive
    <2>3. QED
      BY <2>1, <2>2
  <1>5. ASSUME NEW t \in Threads, CallNull(t)
        PROVE  Progress' /\ RememberedIsCurrent'
    <2>1. Progress'
      BY <1>a, <1>5 DEF CallNull, TypeOK, Progress
    <2>2. RememberedIsCurrent'
      BY <1>a, <1>5 DEF CallNull, TypeOK, RememberedIsCurrent, Alive
    <2>3. QED
      BY <2>1, <2>2
  <1>6. ASSUME NEW t \in Threads, Walk(t)
        PROVE  Progress' /\ RememberedIsCurrent'
    <2>1. Progress'
      BY <1>a, <1>6 DEF Walk, TypeOK, Progress
    <2>2. RememberedIsCurrent'
      BY <1>a, <1>6 DEF Walk, TypeOK, RememberedIsCurrent, Alive
    <2>3. QED
      BY <2>1, <2>2
  <1>7. ASSUME NEW t \in Threads, Hit(t)
        PROVE  Progress' /\ RememberedIsCurrent'
    <2>1. Progress'
      BY <1>a, <1>7 DEF Hit, Return, TypeOK, Progress
    <2>2. RememberedIsCurrent'
      BY <1>a, <1>7 DEF Hit, Return, TypeOK, RememberedIsCurrent, Alive
    <2>3. QED
      BY <2>1, <2>2
  <1>8. ASSUME NEW t \in Threads, Miss(t)
        PROVE  Progress' /\ RememberedIsCurrent'
    <2>1. /\ pc[t] = "walk"
          /\ n' = [n EXCEPT ![t] = heap[arg[t]]] /\ i' = [i EXCEPT ![t] = Weakest]
          /\ UNCHANGED <<heap, ptr, val, arg>>
          /\ \/ pc' = [pc EXCEPT ![t] = "store"] /\ UNCHANGED answer
             \/ Return(t, heap[arg[t]])
      BY <1>8 DEF Miss, StrLen
    <2>2. Progress'
      BY <1>a, <2>1 DEF Return, TypeOK, Progress
    <2>3. RememberedIsCurrent'
      BY <1>a, <2>1 DEF Return, TypeOK, RememberedIsCurrent, Alive
    <2>4. QED
      BY <2>2, <2>3
  <1>9. ASSUME NEW t \in Threads, StorePtr(t)
        PROVE  Progress' /\ RememberedIsCurrent'
    <2>1. Progress'
      BY <1>a, <1>9 DEF StorePtr, TypeOK, Progress
    <2>2. RememberedIsCurrent'
      BY <1>a, <1>9 DEF StorePtr, TypeOK, RememberedIsCurrent, Alive
    <2>3. QED
      BY <2>1, <2>2
  <1>10. ASSUME NEW t \in Threads, StoreVal(t)
         PROVE  Progress' /\ RememberedIsCurrent'
    <2>1. Progress'
      BY <1>a, <1>10 DEF StoreVal, Return, TypeOK, Progress
    <2>2. RememberedIsCurrent'
      BY <1>a, <1>10 DEF StoreVal, Return, TypeOK, Progress, RememberedIsCurrent, Alive
    <2>3. QED
      BY <2>1, <2>2
  <1>11. CASE UNCHANGED vars
    BY <1>a, <1>11 DEF vars, locals, Alive, Progress, RememberedIsCurrent
  <1>12. QED
    BY <1>1, <1>2, <1>3, <1>4, <1>5, <1>6, <1>7, <1>8, <1>9, <1>10, <1>11
    DEF Next, Measuring

(* A lone thread never finds a stale entry in the table: what is           *)
(* remembered at an address is alive there and as long as remembered.      *)
THEOREM NeverStale ==
  ASSUME NEW self, Threads = {self}
  PROVE  Spec => []RememberedIsCurrent
  <1>1. IInv /\ [Next]_vars => IInv'
    BY NextIInv
  <1>2. IInv => RememberedIsCurrent
    BY DEF IInv
  <1>3. QED
    BY InitIInv, <1>1, <1>2, PTL DEF Spec

\* What a step of a lone thread answers.
LEMMA StepAnswersRight ==
  ASSUME NEW self, Threads = {self}, IInv, [Next]_vars,
         NEW t \in Threads, answer'[t] \notin {None, answer[t]}, arg'[t] # Null
  PROVE  answer'[t] = heap[arg[t]]
  <1>a. TypeOK /\ Progress /\ RememberedIsCurrent /\ t = self
    BY DEF IInv
  <1>1. CASE Hit(t)
    <2>1. ptr[i[t]] = arg[t] /\ arg[t] \in Addresses /\ i[t] \in Table
      BY <1>a, <1>1 DEF Hit, Progress, TypeOK, Alive
    <2>2. val[i[t]] = heap[arg[t]]
      BY <1>a, <1>1, <2>1, NullAssumption DEF Hit, RememberedIsCurrent
    <2>3. QED
      BY <1>a, <1>1, <2>2 DEF Hit, Return, TypeOK
  <1>2. CASE Miss(t)
    BY <1>a, <1>2 DEF Miss, StrLen, Return, TypeOK
  <1>3. CASE StoreVal(t)
    BY <1>a, <1>3 DEF StoreVal, Return, TypeOK, Progress
  <1>4. CASE CallNull(t)
    BY <1>a, <1>4 DEF CallNull, TypeOK
  <1>5. CASE \E a \in Addresses : Call(t, a)
    BY <1>a, <1>5 DEF Call, TypeOK
  <1>6. CASE UNCHANGED answer
    BY <1>6
  <1>7. QED
    BY <1>a, <1>1, <1>2, <1>3, <1>4, <1>5, <1>6
    DEF Next, Measuring, Make, Release, Grow, Walk, StorePtr, locals, vars

(* buraaq_length_of, called by a lone thread, answers what strlen would.   *)
THEOREM LoneThreadAnswersRight ==
  ASSUME NEW self, Threads = {self}
  PROVE  Spec => AnswersRight
  <1>1. IInv /\ [Next]_vars => IInv'
    BY NextIInv
  <1>2. IInv /\ [Next]_vars =>
          [\A t \in Threads :
             answer'[t] \notin {None, answer[t]} /\ arg'[t] # Null
               => answer'[t] = heap[arg[t]]]_vars
    BY StepAnswersRight
  <1>3. QED
    BY InitIInv, <1>1, <1>2, PTL DEF Spec, AnswersRight
-----------------------------------------------------------------------------
(* The longest strings stay *)

\* No string of the table could have made room for this one.
Kept(a) == \A k \in Table : ptr[k] # Null /\ heap[a] <= val[k]
Shown == {ptr[k] : k \in Table}

\* What was measured lives; what of it is not in the table is no longer than
\* what is, nor than the string that is being stored, in the place of a
\* shortest one if there was no vacant place.
Longest ==
  /\ seen \subseteq Alive
  /\ \A t \in Threads :
       /\ pc[t] \in {"out", "walk", "hit"} => \A a \in seen \ Shown : Kept(a)
       /\ pc[t] = "store" =>
            /\ \A a \in seen \ (Shown \cup {arg[t]}) : Kept(a)
            /\ \/ ptr[i[t]] = Null
               \/ /\ \A k \in Table : ptr[k] # Null /\ val[i[t]] <= val[k]
                  /\ val[i[t]] < n[t]
       /\ pc[t] = "fill" => \A a \in seen \ Shown : Kept(a) /\ heap[a] <= n[t]

\* The slot that is given up is vacant, or none is and it has a shortest string.
LEMMA WeakestIsWeakest ==
  ASSUME TypeOK
  PROVE  \/ ptr[Weakest] = Null
         \/ \A k \in Table : ptr[k] # Null /\ val[Weakest] <= val[k]
  <1>1. CASE Vacant # {}
    <2>1. Weakest \in Vacant
      BY <1>1, FirstInSet DEF Weakest, Vacant
    <2>2. QED
      BY <2>1 DEF Vacant
  <1>2. CASE Vacant = {}
    <2> DEFINE W == {k \in Table : \A l \in Table : val[k] <= val[l]}
    <2>1. W # {}
      BY SlotOfLeast
    <2>2. Weakest \in W
      BY <1>2, <2>1, FirstInSet DEF Weakest
    <2>3. QED
      BY <1>2, <2>2 DEF Vacant
  <1>3. QED
    BY <1>1, <1>2

\* A lone thread's steps keep the longest strings in the table.
LEMMA NextLongest ==
  ASSUME NEW self, Threads = {self}, IInv, Longest, [Next]_vars
  PROVE  Longest'
  <1>a. TypeOK /\ Progress /\ RememberedIsCurrent
    BY DEF IInv
  <1>b. \A a \in Alive : heap[a] \in Nat /\ a # Null
    BY <1>a, MaxLenAssumption, NullAssumption DEF TypeOK, Alive, Lengths
  <1>c. \A k \in Table : val[k] \in Nat
    BY <1>a, MaxLenAssumption DEF TypeOK, Lengths
  <1>1. ASSUME NEW t \in Threads, NEW a \in Addresses, Make(t, a) PROVE Longest'
    <2>1. /\ heap[a] = Dead /\ a \notin Alive /\ UNCHANGED <<ptr, val, pc, arg, i, n, seen>>
          /\ \A b \in Alive : heap'[b] = heap[b] /\ b \in Alive'
      BY <1>a, <1>1 DEF Make, Alive, locals, TypeOK
    <2>2. Shown' = Shown
      BY <2>1 DEF Shown
    <2>3. \A b \in seen : Kept(b) => Kept(b)'
      BY <2>1 DEF Kept, Longest
    <2>4. \A b \in seen : heap'[b] = heap[b]
      BY <2>1 DEF Longest
    <2>5. QED
      BY <2>1, <2>2, <2>3, <2>4 DEF Longest
  <1>2. ASSUME Forget, UNCHANGED pc, NEW t \in Threads, pc[t] = "out" PROVE Longest'
    <2>1. seen' = {} /\ t = self /\ pc'[t] = "out"
      BY <1>2 DEF Forget
    <2>2. QED
      BY <2>1 DEF Longest
  <1>3. ASSUME NEW t \in Threads,
               CallNull(t) \/ Walk(t) \/ Hit(t) \/ \E a \in Addresses : Call(t, a)
        PROVE  Longest'
    <2>1. UNCHANGED <<heap, ptr, val, seen>> /\ t = self
      BY <1>3 DEF CallNull, Walk, Hit, Call
    <2>2. pc[t] \in {"out", "walk", "hit"} /\ pc'[t] \in {"out", "walk", "hit"}
      BY <1>a, <1>3 DEF CallNull, Walk, Hit, Call, Return, TypeOK
    <2>3. Shown' = Shown /\ Alive' = Alive /\ \A a : Kept(a)' <=> Kept(a)
      BY <2>1 DEF Shown, Alive, Kept
    <2>4. QED
      BY <2>1, <2>2, <2>3 DEF Longest
  <1>4. ASSUME NEW t \in Threads, Miss(t) PROVE Longest'
    <2> DEFINE w == Weakest
    <2>1. /\ UNCHANGED <<heap, ptr, val, arg>> /\ t = self /\ pc[t] = "walk"
          /\ seen' = seen \cup {arg[t]}
          /\ n' = [n EXCEPT ![t] = heap[arg[t]]] /\ i' = [i EXCEPT ![t] = w]
          /\ \/ pc' = [pc EXCEPT ![t] = "store"] /\ (ptr[w] = Null \/ val[w] < heap[arg[t]])
             \/ /\ pc' = [pc EXCEPT ![t] = "out"]
                /\ ptr[w] # Null /\ ~(val[w] < heap[arg[t]])
      BY <1>4 DEF Miss, StrLen, Return
    <2>2. arg[t] \in Alive /\ w \in Table
      BY <1>a, <2>1, WeakestInTable DEF TypeOK
    <2>3. n'[t] = heap[arg[t]] /\ i'[t] = w
      BY <1>a, <2>1 DEF TypeOK
    <2>4. \/ ptr[w] = Null
          \/ \A k \in Table : ptr[k] # Null /\ val[w] <= val[k]
      BY <1>a, WeakestIsWeakest
    <2> HIDE DEF w
    <2>5. Shown' = Shown /\ Alive' = Alive /\ \A a \in seen : Kept(a) => Kept(a)'
      BY <2>1 DEF Shown, Alive, Kept
    <2>6. \A a \in seen \ Shown : Kept(a)
      BY <2>1 DEF Longest
    <2>7. CASE /\ pc' = [pc EXCEPT ![t] = "store"]
               /\ ptr[w] = Null \/ val[w] < heap[arg[t]]
      <3>1. pc'[t] = "store"
        BY <1>a, <2>7 DEF TypeOK
      <3>2. \A a \in seen' \ (Shown' \cup {arg'[t]}) : Kept(a)'
        BY <2>1, <2>5, <2>6
      <3>3. \/ ptr'[i'[t]] = Null
            \/ /\ \A k \in Table : ptr'[k] # Null /\ val'[i'[t]] <= val'[k]
               /\ val'[i'[t]] < n'[t]
        BY <2>1, <2>3, <2>4, <2>7
      <3>4. QED
        BY <2>1, <2>2, <2>5, <3>1, <3>2, <3>3 DEF Longest
    <2>8. CASE /\ pc' = [pc EXCEPT ![t] = "out"]
               /\ ptr[w] # Null /\ ~(val[w] < heap[arg[t]])
      <3>1. pc'[t] = "out"
        BY <1>a, <2>8 DEF TypeOK
      <3>2. Kept(arg[t])
        BY <1>b, <1>c, <2>2, <2>4, <2>8 DEF Kept
      <3>3. \A a \in seen' \ Shown' : Kept(a)'
        BY <2>1, <2>5, <2>6, <3>2 DEF Kept
      <3>4. QED
        BY <2>1, <2>2, <2>5, <3>1, <3>3 DEF Longest
    <2>9. QED
      BY <2>1, <2>7, <2>8
  <1>5. ASSUME NEW t \in Threads, StorePtr(t) PROVE Longest'
    <2>1. /\ UNCHANGED <<heap, val, arg, i, n, seen>> /\ t = self /\ pc[t] = "store"
          /\ i[t] \in Table /\ arg[t] \in Alive
          /\ \A k \in Table : ptr'[k] = IF k = i[t] THEN arg[t] ELSE ptr[k]
          /\ pc'[t] = "fill"
      BY <1>a, <1>5 DEF StorePtr, TypeOK
    <2>2. /\ \A a \in seen \ (Shown \cup {arg[t]}) : Kept(a)
          /\ \/ ptr[i[t]] = Null
             \/ /\ \A k \in Table : ptr[k] # Null /\ val[i[t]] <= val[k]
                /\ val[i[t]] < n[t]
      BY <2>1 DEF Longest
    <2>3. Alive' = Alive /\ seen \subseteq Alive /\ n[t] \in Nat
      BY <1>a, <2>1, MaxLenAssumption DEF Alive, Longest, TypeOK, Lengths
    <2>4. ASSUME NEW a \in seen, a \notin Shown' PROVE Kept(a)' /\ heap'[a] <= n'[t]
      <3>1. a # arg[t] /\ \A k \in Table \ {i[t]} : ptr[k] # a
        BY <2>1, <2>4 DEF Shown
      <3>2. a # Null /\ heap[a] \in Nat /\ heap'[a] = heap[a] /\ n'[t] = n[t]
        BY <1>b, <2>1, <2>3
      <3>3. arg[t] # Null
        BY <1>b, <2>1
      <3>4. CASE a \in Shown
        <4>1. ptr[i[t]] = a
          BY <3>1, <3>4 DEF Shown
        <4>2. val[i[t]] = heap[a]
          BY <1>a, <2>1, <3>2, <4>1 DEF RememberedIsCurrent
        <4>3. heap[a] < n[t] /\ \A k \in Table : ptr[k] # Null /\ heap[a] <= val[k]
          BY <2>2, <3>2, <4>1, <4>2
        <4>4. QED
          BY <2>1, <2>3, <3>2, <3>3, <4>3 DEF Kept
      <3>5. CASE a \notin Shown
        <4>1. Kept(a)
          BY <2>2, <3>1, <3>5
        <4>2. heap[a] <= val[i[t]] /\ val[i[t]] < n[t]
          BY <2>1, <2>2, <4>1 DEF Kept
        <4>3. heap[a] <= n[t]
          BY <1>c, <2>1, <2>3, <3>2, <4>2
        <4>4. QED
          BY <2>1, <3>2, <3>3, <4>1, <4>3 DEF Kept
      <3>6. QED
        BY <3>4, <3>5
    <2>5. QED
      BY <2>1, <2>3, <2>4 DEF Longest
  <1>6. ASSUME NEW t \in Threads, StoreVal(t) PROVE Longest'
    <2>1. /\ UNCHANGED <<heap, ptr, seen>> /\ t = self /\ pc[t] = "fill" /\ pc'[t] = "out"
          /\ \A k \in Table : val'[k] = IF k = i[t] THEN n[t] ELSE val[k]
      BY <1>a, <1>6 DEF StoreVal, Return, TypeOK
    <2>2. Shown' = Shown /\ Alive' = Alive
      BY <2>1 DEF Shown, Alive
    <2>3. \A a \in seen \ Shown : Kept(a) /\ heap[a] <= n[t]
      BY <2>1 DEF Longest
    <2>4. \A a \in seen \ Shown : Kept(a)'
      BY <2>1, <2>3 DEF Kept
    <2>5. QED
      BY <2>1, <2>2, <2>4 DEF Longest
  <1>7. CASE UNCHANGED vars
    BY <1>7 DEF vars, locals, Longest, Alive, Shown, Kept
  <1>8. QED
    BY <1>1, <1>2, <1>3, <1>4, <1>5, <1>6, <1>7 DEF Next, Measuring, Release, Grow, locals

(* A lone thread's table keeps the longest strings: one that was measured  *)
(* since the last wipe and is not remembered met a table without a vacant  *)
(* slot, and none of what is remembered is shorter. (buraaq_length_of)     *)
THEOREM LongestStay ==
  ASSUME NEW self, Threads = {self}
  PROVE  Spec => []LongestRemembered
  <1>1. Init => Longest
    BY DEF Init, Longest
  <1>2. IInv /\ [Next]_vars => IInv'
    BY NextIInv
  <1>3. IInv /\ Longest /\ [Next]_vars => Longest'
    BY NextLongest
  <1>4. Longest => LongestRemembered
    BY DEF Longest, LongestRemembered, Shown, Kept
  <1>5. QED
    BY InitIInv, <1>1, <1>2, <1>3, <1>4, PTL DEF Spec
=============================================================================
