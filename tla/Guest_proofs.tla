---------------------------- MODULE Guest_proofs ----------------------------
(***************************************************************************)
(* Proofs about Guest, for every program of the given calls, every finite  *)
(* set of threads, every capacity and every bound on the failures.         *)
(*                                                                         *)
(* The books are kept by the programs that use their containers under the  *)
(* lock: no two calls meet in one of them then, so each is a step.         *)
(***************************************************************************)
EXTENDS Guest, FiniteSetTheorems, SequenceTheorems, WellFoundedInduction, TLAPS

Waiting == {"ready", "asleep"}

LEMMA CapPositive == Cap \in Nat \ {0}
  BY CapacityAssumption DEF Cap

LEMMA SlotInRing == ASSUME NEW i \in 0 .. Cap - 1 PROVE Slot(i) \in 0 .. Cap - 1
  BY CapPositive DEF Slot

\* What a call of a program can be.
LEMMA Calls ==
  ASSUME NEW p \in Programs, NEW t \in Threads, NEW i \in Nat \ {0}, i <= Len(p[t])
  PROVE  /\ p[t][i] \in Op
         /\ p[t][i].op \in {"send", "seed"} => p[t][i].arg \in Values
  <1>1. p[t] \in Seq(Op) /\ i \in 1 .. Len(p[t])
    BY ProgramsAssumption
  <1>2. p[t][i] \in Op
    BY <1>1, ElementOfSeq
  <1>3. QED
    BY <1>2 DEF Op

-----------------------------------------------------------------------------
(* The types *)

(* What every step outside the channel has in common: the ring, the        *)
(* answers of the channel and the threads inside it stay as they are.      *)
Elsewhere ==
  /\ UNCHANGED <<prog, made, ring, ret>>
  /\ \A u \in Threads :
       state[u] \in Waiting \/ state'[u] \in Waiting
         => state'[u] = state[u] /\ pos'[u] = pos[u]

\* The calls that are no call of the channel.
Others(t) ==
  \/ Spawn(t) \/ Join(t) \/ Finish(t)
  \/ Lock(t) \/ Unlock(t) \/ Destroy(t) \/ NoChannel(t)
  \/ Get(t) \/ Put(t) \/ Add(t) \/ Push(t) \/ Seed(t) \/ Swap(t) \/ Race(t)

LEMMA InitTypeOK == Init => TypeOK
  <1> SUFFICES ASSUME Init PROVE TypeOK
    OBVIOUS
  <1>1. /\ buf \in [0 .. Cap - 1 -> Values]
        /\ head \in 0 .. Cap - 1 /\ tail \in 0 .. Cap - 1 /\ count \in 0 .. Cap
    BY CapPositive DEF Init, Values
  <1>2. fails \in 0 .. MaxFail
    BY CapacityAssumption DEF Init
  <1>3. ret \in [Threads -> [code : {0}, msg : Values]]
    BY DEF Init, NoRet, Values
  <1>4. /\ prog \in Programs
        /\ state \in [Threads -> {"unborn", "run", "ready", "asleep", "done"}]
        /\ pos \in [Threads -> Nat \ {0}]
        /\ record \in [Threads -> {"none", "null", "live", "freed"}]
        /\ mutex \in Threads \cup {Nobody, "gone"}
        /\ reg \in [Threads -> Values]
    BY DEF Init, Values
  <1>5. \A t \in Threads : state[t] \notin {"ready", "asleep"}
    BY DEF Init
  <1>6. made \in BOOLEAN
    BY DEF Init
  <1>7. QED
    BY <1>1, <1>2, <1>3, <1>4, <1>5, <1>6 DEF TypeOK

LEMMA FailsCounted ==
  ASSUME TypeOK, NEW what, MayFail(what) PROVE fails' \in 0 .. MaxFail
  BY CapacityAssumption DEF TypeOK, MayFail

\* A thread that is outside the channel and goes on to its next call.
LEMMA PastIsElsewhere ==
  ASSUME TypeOK, NEW t \in Threads, state[t] = "run", Past(t),
         UNCHANGED <<prog, made, ring, ret, state>>
  PROVE  Elsewhere /\ pos' \in [Threads -> Nat \ {0}]
  BY DEF TypeOK, Past, Elsewhere, Waiting

\* Types, as long as a step keeps out of the channel.
LEMMA ElsewhereTypes ==
  ASSUME TypeOK, Elsewhere,
         state' \in [Threads -> {"unborn", "run", "ready", "asleep", "done"}],
         pos' \in [Threads -> Nat \ {0}],
         record' \in [Threads -> {"none", "null", "live", "freed"}],
         mutex' \in Threads \cup {Nobody, "gone"},
         reg' \in [Threads -> Values],
         fails' \in 0 .. MaxFail
  PROVE  TypeOK'
  <1>1. ASSUME NEW t \in Threads, state'[t] \in {"ready", "asleep"}
        PROVE  /\ pos'[t] <= Len(prog'[t])
               /\ prog'[t][pos'[t]].op \in {"send", "recv"}
    BY <1>1 DEF Elsewhere, Waiting, TypeOK
  <1>2. QED
    BY <1>1 DEF Elsewhere, TypeOK, ring

LEMMA OthersTypeOK ==
  ASSUME TypeOK, NEW t \in Threads, Others(t)
  PROVE  TypeOK' /\ Elsewhere
  <1>a. /\ state \in [Threads -> {"unborn", "run", "ready", "asleep", "done"}]
        /\ pos \in [Threads -> Nat \ {0}]
        /\ record \in [Threads -> {"none", "null", "live", "freed"}]
        /\ mutex \in Threads \cup {Nobody, "gone"}
        /\ reg \in [Threads -> Values] /\ fails \in 0 .. MaxFail
    BY DEF TypeOK
  <1>1. CASE Spawn(t)
    <2> DEFINE u == Arg(t)
    <2>1. state[t] = "run" /\ state[u] = "unborn" /\ Past(t)
          /\ UNCHANGED <<prog, made, ring, mutex, locals, ret>>
      BY <1>1 DEF Spawn, At
    <2>2. (/\ state' = [state EXCEPT ![u] = "run"]
           /\ record' = [record EXCEPT ![u] = "live"]
           /\ UNCHANGED fails)
          \/ (/\ MayFail("thread")
              /\ record' = [record EXCEPT ![u] = "null"]
              /\ UNCHANGED state)
      BY <1>1 DEF Spawn
    <2> HIDE DEF u
    <2>3. fails' \in 0 .. MaxFail
      BY <1>a, <2>2, FailsCounted
    <2>4. Elsewhere
      BY <1>a, <2>1, <2>2 DEF Elsewhere, Waiting, Past
    <2>5. /\ state' \in [Threads -> {"unborn", "run", "ready", "asleep", "done"}]
          /\ pos' \in [Threads -> Nat \ {0}]
          /\ record' \in [Threads -> {"none", "null", "live", "freed"}]
      BY <1>a, <2>1, <2>2 DEF Past
    <2>6. QED
      BY <1>a, <2>1, <2>3, <2>4, <2>5, ElsewhereTypes DEF locals
  <1>2. CASE Finish(t)
    <2>1. Elsewhere
          /\ state' \in [Threads -> {"unborn", "run", "ready", "asleep", "done"}]
      BY <1>a, <1>2 DEF Finish, Elsewhere, Waiting
    <2>2. QED
      BY <1>a, <1>2, <2>1, ElsewhereTypes DEF Finish, locals
  <1>3. CASE Join(t)
    <2>1. state[t] = "run" /\ Past(t)
          /\ UNCHANGED <<prog, made, ring, state, mutex, locals, ret, fails>>
      BY <1>3 DEF Join, At
    <2>2. record' \in [Threads -> {"none", "null", "live", "freed"}]
      BY <1>a, <1>3 DEF Join
    <2>3. QED
      BY <1>a, <2>1, <2>2, PastIsElsewhere, ElsewhereTypes DEF locals
  <1>4. CASE Lock(t) \/ Unlock(t)
    <2>1. state[t] = "run" /\ Past(t)
          /\ UNCHANGED <<prog, made, ring, state, record, locals, ret, fails>>
          /\ mutex' \in Threads \cup {Nobody, "gone"}
      BY <1>a, <1>4 DEF Lock, Unlock, At
    <2>2. QED
      BY <1>a, <2>1, PastIsElsewhere, ElsewhereTypes DEF locals
  <1>5. CASE Destroy(t)
    <2>1. state[t] = "run" /\ (Past(t) \/ UNCHANGED pos)
          /\ UNCHANGED <<prog, made, ring, state, record, locals, ret, fails>>
          /\ mutex' \in Threads \cup {Nobody, "gone"}
      BY <1>a, <1>5 DEF Destroy, At
    <2>2. Elsewhere /\ pos' \in [Threads -> Nat \ {0}]
      BY <1>a, <2>1 DEF Past, Elsewhere, Waiting
    <2>3. QED
      BY <1>a, <2>1, <2>2, ElsewhereTypes DEF locals
  <1>6. CASE NoChannel(t)
    <2>1. state[t] = "run" /\ Past(t)
          /\ UNCHANGED <<prog, made, ring, state, record, mutex, ret, fails>>
      BY <1>6 DEF NoChannel, At
    <2>2. reg' \in [Threads -> Values]
      BY <1>a, <1>6 DEF NoChannel, Values
    <2>3. QED
      BY <1>a, <2>1, <2>2, PastIsElsewhere, ElsewhereTypes
  <1>7. CASE Get(t) \/ Put(t)
    <2>1. state[t] = "run"
          /\ UNCHANGED <<prog, made, ring, state, record, mutex, reg, ret>>
      BY <1>7 DEF Get, Put, At
    <2>2. (Past(t) \/ UNCHANGED pos) /\ fails' \in 0 .. MaxFail
      BY <1>a, <1>7, FailsCounted DEF Get, Put, Fault
    <2>3. Elsewhere /\ pos' \in [Threads -> Nat \ {0}]
      BY <1>a, <2>1, <2>2 DEF Past, Elsewhere, Waiting
    <2>4. QED
      BY <1>a, <2>1, <2>2, <2>3, ElsewhereTypes
  <1>8. CASE Add(t)
    <2>1. state[t] = "run" /\ Past(t)
          /\ UNCHANGED <<prog, made, ring, state, record, mutex, reg, ret>>
      BY <1>8 DEF Add, At
    <2>2. fails' \in 0 .. MaxFail
      BY <1>a, <1>8, FailsCounted DEF Add
    <2>3. QED
      BY <1>a, <2>1, <2>2, PastIsElsewhere, ElsewhereTypes
  <1>9. CASE Push(t) \/ Seed(t) \/ Swap(t)
    <2>1. state[t] = "run" /\ Past(t)
          /\ UNCHANGED <<prog, made, ring, state, record, mutex, locals, ret>>
      BY <1>9 DEF Push, Seed, Swap, At
    <2>2. fails' \in 0 .. MaxFail
      BY <1>a, <1>9, FailsCounted DEF Push, Seed, Swap
    <2>3. QED
      BY <1>a, <2>1, <2>2, PastIsElsewhere, ElsewhereTypes DEF locals
  <1>10. CASE Race(t)
    <2>1. /\ Elsewhere
          /\ UNCHANGED <<prog, made, ring, state, pos, record, mutex, locals, ret, fails>>
      BY <1>10 DEF Race, Elsewhere
    <2>2. QED
      BY <1>a, <2>1, ElsewhereTypes DEF locals
  <1>11. QED
    BY <1>1, <1>2, <1>3, <1>4, <1>5, <1>6, <1>7, <1>8, <1>9, <1>10 DEF Others

\* A signal leaves its sender running, and changes another thread's state
\* only by turning a sleeper of the other side ready.
LEMMA SignalTypes ==
  ASSUME TypeOK, NEW t \in Threads, NEW op, Signal(t, op), state[t] = "ready"
  PROVE  /\ state' \in [Threads -> {"unborn", "run", "ready", "asleep", "done"}]
         /\ state'[t] = "run"
         /\ \A u \in Threads \ {t} :
              state'[u] = state[u] \/ (state[u] = "asleep" /\ state'[u] = "ready")
  BY DEF TypeOK, Signal, In

\* A thread that returns from the channel.
LEMMA ReturnShape ==
  ASSUME TypeOK, NEW t \in Threads, NEW op, Signal(t, op), state[t] = "ready",
         Past(t), UNCHANGED prog
  PROVE  /\ pos' \in [Threads -> Nat \ {0}]
         /\ \A u \in Threads :
              state'[u] \in {"ready", "asleep"} =>
                pos'[u] <= Len(prog'[u]) /\ prog'[u][pos'[u]].op \in {"send", "recv"}
  <1>1. pos' \in [Threads -> Nat \ {0}] /\ \A u \in Threads \ {t} : pos'[u] = pos[u]
    BY DEF TypeOK, Past
  <1>2. QED
    BY <1>1, SignalTypes DEF TypeOK

LEMMA NextTypeOK == TypeOK /\ [Next]_vars => TypeOK'
  <1> SUFFICES ASSUME TypeOK, [Next]_vars PROVE TypeOK'
    OBVIOUS
  <1>1. ASSUME NEW t \in Threads, Others(t) PROVE TypeOK'
    BY <1>1, OthersTypeOK
  <1>2. ASSUME NEW t \in Threads, Enter(t) PROVE TypeOK'
    <2>1. ret' \in [Threads -> [code : {0}, msg : Values]]
      BY <1>2 DEF Enter, TypeOK, NoRet, Values
    <2>2. \A u \in Threads : state'[u] \in {"ready", "asleep"} =>
            pos[u] <= Len(prog[u]) /\ prog[u][pos[u]].op \in {"send", "recv"}
      BY <1>2 DEF Enter, At, TypeOK
    <2>3. QED
      BY <1>2, <2>1, <2>2 DEF Enter, TypeOK, ring, locals
  <1>3. ASSUME NEW t \in Threads, SendWaits(t) \/ RecvWaits(t) \/ SpuriousWakeup(t)
        PROVE  TypeOK'
    <2>1. \A u \in Threads : state'[u] \in {"ready", "asleep"} =>
            pos[u] <= Len(prog[u]) /\ prog[u][pos[u]].op \in {"send", "recv"}
      BY <1>3 DEF SendWaits, RecvWaits, SpuriousWakeup, Holds, Sleep, TypeOK
    <2>2. QED
      BY <1>3, <2>1
      DEF SendWaits, RecvWaits, SpuriousWakeup, Holds, Sleep, TypeOK, ring, locals
  <1>4. ASSUME NEW t \in Threads, SendStores(t) PROVE TypeOK'
    <2>0. Signal(t, "recv") /\ state[t] = "ready" /\ Past(t)
          /\ UNCHANGED <<prog, made, record, mutex, locals, ret, fails>>
      BY <1>4 DEF SendStores, Holds
    <2>1. tail' \in 0 .. Cap - 1 /\ head' \in 0 .. Cap - 1 /\ count' \in 0 .. Cap
      BY <1>4, CapPositive, SlotInRing DEF SendStores, Full, TypeOK
    <2>2. Arg(t) \in Values
      BY <1>4, Calls DEF SendStores, Holds, TypeOK, Arg
    <2>3. buf' \in [0 .. Cap - 1 -> Values]
      BY <1>4, <2>2 DEF SendStores, TypeOK
    <2>4. QED
      BY <2>0, <2>1, <2>3, SignalTypes, ReturnShape DEF TypeOK, locals
  <1>5. ASSUME NEW t \in Threads, RecvTakes(t) PROVE TypeOK'
    <2>0. Signal(t, "send") /\ state[t] = "ready" /\ Past(t)
          /\ UNCHANGED <<prog, made, record, mutex, fails>>
      BY <1>5 DEF RecvTakes, Holds
    <2>1. tail' \in 0 .. Cap - 1 /\ head' \in 0 .. Cap - 1 /\ count' \in 0 .. Cap
      BY <1>5, CapPositive, SlotInRing DEF RecvTakes, TypeOK
    <2>2. /\ buf' \in [0 .. Cap - 1 -> Values] /\ reg' \in [Threads -> Values]
          /\ ret' \in [Threads -> [code : {0}, msg : Values]]
      BY <1>5 DEF RecvTakes, TypeOK
    <2>3. QED
      BY <2>0, <2>1, <2>2, SignalTypes, ReturnShape DEF TypeOK
  <1>6. CASE UNCHANGED vars
    BY <1>6 DEF vars, TypeOK, ring, locals
  <1>7. QED
    BY <1>1, <1>2, <1>3, <1>4, <1>5, <1>6 DEF Next, Call, Others

(* The types hold in every reachable state of every program, whatever the  *)
(* capacity and whatever fails: a thread that sleeps or waits for the      *)
(* channel's mutex is at a send or a receive, the ring indices stay inside *)
(* the ring (buraaq_chan_new, buraaq_chan_send, buraaq_chan_recv).         *)
THEOREM TypeCorrect == Spec => []TypeOK
  BY InitTypeOK, NextTypeOK, PTL DEF Spec

-----------------------------------------------------------------------------
(* No wakeup is lost *)

LEMMA InFinite ==
  ASSUME NEW op, NEW st
  PROVE  IsFiniteSet(In(op, st)) /\ Cardinality(In(op, st)) \in Nat
  BY ThreadsAssumption, FS_Subset, FS_CardinalityType DEF In

\* The same for the next state, where In(op, st)' is what counts.
LEMMA InFinitePrime ==
  ASSUME NEW op, NEW st
  PROVE  IsFiniteSet(In(op, st)') /\ Cardinality(In(op, st)') \in Nat
  BY ThreadsAssumption, FS_Subset, FS_CardinalityType DEF In

\* A step outside the channel leaves the sets of waiting threads alone.
LEMMA ElsewhereIn ==
  ASSUME TypeOK, Elsewhere, NEW op, NEW st \in Waiting
  PROVE  In(op, st)' = In(op, st)
  BY DEF Elsewhere, In, TypeOK

\* A thread that completes a call op by signalling the other side leaves its
\* own side's ready set, and adds a thread to the other side's if one sleeps.
LEMMA SignalCounts ==
  ASSUME TypeOK, NEW t \in Threads, NEW op \in {"send", "recv"},
         NEW other \in {"send", "recv"}, op # other,
         state[t] = "ready", prog[t][pos[t]].op = op,
         Signal(t, other), Past(t), UNCHANGED prog
  PROVE  /\ In(op, "asleep")' = In(op, "asleep")
         /\ Cardinality(In(op, "ready")') = Cardinality(In(op, "ready")) - 1
         /\ \/ In(other, "asleep")' = {}
            \/ /\ In(other, "asleep") # {}
               /\ Cardinality(In(other, "ready")')
                    = Cardinality(In(other, "ready")) + 1
  <1>0. \A u \in Threads \ {t} : pos'[u] = pos[u]
    BY DEF Past, TypeOK
  <1> USE DEF TypeOK
  <1>1. In(op, "asleep")' = In(op, "asleep")
    BY <1>0 DEF Signal, In
  <1>2. Cardinality(In(op, "ready")') = Cardinality(In(op, "ready")) - 1
    <2>1. In(op, "ready")' = In(op, "ready") \ {t} /\ t \in In(op, "ready")
      BY <1>0 DEF Signal, In
    <2>2. QED
      BY <2>1, InFinite, FS_RemoveElement
  <1>3. CASE In(other, "asleep") = {}
    <2>1. In(other, "asleep")' = {}
      BY <1>0, <1>3 DEF Signal, In
    <2>2. QED
      BY <1>1, <1>2, <2>1
  <1>4. CASE In(other, "asleep") # {}
    <2>1. PICK u \in In(other, "asleep") :
            state' = [state EXCEPT ![t] = "run", ![u] = "ready"]
      BY <1>4 DEF Signal
    <2>2. u # t /\ u \in Threads /\ u \notin In(other, "ready")
      BY DEF In
    <2>3. In(other, "ready")' = In(other, "ready") \cup {u}
      BY <1>0, <2>1, <2>2 DEF In
    <2> HIDE DEF TypeOK
    <2>4. Cardinality(In(other, "ready")') = Cardinality(In(other, "ready")) + 1
      BY <2>2, <2>3, InFinite, FS_AddElement
    <2>5. QED
      BY <1>1, <1>2, <1>4, <2>4
  <1>5. QED
    BY <1>3, <1>4

\* Steps that take nothing from a ready set and add nothing to a sleeping one.
LEMMA GrowingReady ==
  ASSUME NEW op, In(op, "ready") \subseteq In(op, "ready")'
  PROVE  Cardinality(In(op, "ready")) <= Cardinality(In(op, "ready")')
  BY InFinitePrime, FS_Subset

LEMMA InitNoLostWakeup == Init => NoLostWakeup
  BY DEF Init, NoLostWakeup, In

\* Every step keeps the counts of messages and free slots covered.
LEMMA NextNoLostWakeup ==
  TypeOK /\ NoLostWakeup /\ [Next]_vars => NoLostWakeup'
  <1> SUFFICES ASSUME TypeOK, NoLostWakeup, [Next]_vars PROVE NoLostWakeup'
    OBVIOUS
  <1>a. count \in 0 .. Cap /\ Cap \in Nat \ {0}
    BY CapPositive DEF TypeOK
  <1>1. ASSUME NEW t \in Threads, Others(t) PROVE NoLostWakeup'
    <2>1. Elsewhere
      BY <1>1, OthersTypeOK
    <2>2. \A op \in {"send", "recv"}, st \in Waiting : In(op, st)' = In(op, st)
      BY <2>1, ElsewhereIn
    <2>3. QED
      BY <2>1, <2>2 DEF NoLostWakeup, Elsewhere, ring, Waiting
  <1>2. ASSUME NEW t \in Threads, Enter(t) \/ SpuriousWakeup(t) PROVE NoLostWakeup'
    <2>1. ASSUME NEW op \in {"send", "recv"}
          PROVE  /\ In(op, "asleep")' \subseteq In(op, "asleep")
                 /\ In(op, "ready") \subseteq In(op, "ready")'
      BY <1>2 DEF Enter, At, SpuriousWakeup, In, TypeOK
    <2>2. count' = count
      BY <1>2 DEF Enter, SpuriousWakeup, ring
    <2>3. \A op \in {"send", "recv"} :
            Cardinality(In(op, "ready")) <= Cardinality(In(op, "ready")')
      BY <2>1, GrowingReady
    <2>4. QED
      BY <1>a, <2>1, <2>2, <2>3, InFinite, InFinitePrime DEF NoLostWakeup
  <1>3. ASSUME NEW t \in Threads, SendWaits(t) PROVE NoLostWakeup'
    <2>1. In("recv", "asleep")' = In("recv", "asleep")
          /\ In("recv", "ready")' = In("recv", "ready")
      BY <1>3 DEF SendWaits, Holds, Sleep, In, TypeOK
    <2>2. count' = count /\ count = Cap
      BY <1>a, <1>3 DEF SendWaits, Sleep, Full, ring
    <2>3. QED
      BY <1>a, <2>1, <2>2, InFinitePrime DEF NoLostWakeup
  <1>4. ASSUME NEW t \in Threads, RecvWaits(t) PROVE NoLostWakeup'
    <2>1. In("send", "asleep")' = In("send", "asleep")
          /\ In("send", "ready")' = In("send", "ready")
      BY <1>4 DEF RecvWaits, Holds, Sleep, In, TypeOK
    <2>2. count' = count /\ count = 0
      BY <1>4 DEF RecvWaits, Sleep, ring
    <2>3. QED
      BY <2>1, <2>2, InFinitePrime DEF NoLostWakeup
  <1>5. ASSUME NEW t \in Threads, SendStores(t) PROVE NoLostWakeup'
    <2>1. state[t] = "ready" /\ prog[t][pos[t]].op = "send" /\ Signal(t, "recv")
          /\ Past(t) /\ UNCHANGED prog /\ count' = count + 1
      BY <1>5 DEF SendStores, Holds
    <2>2. /\ In("send", "asleep")' = In("send", "asleep")
          /\ Cardinality(In("send", "ready")') = Cardinality(In("send", "ready")) - 1
          /\ \/ In("recv", "asleep")' = {}
             \/ /\ In("recv", "asleep") # {}
                /\ Cardinality(In("recv", "ready")')
                     = Cardinality(In("recv", "ready")) + 1
      BY <2>1, SignalCounts
    <2>3. QED
      BY <1>a, <2>1, <2>2, InFinite DEF NoLostWakeup
  <1>6. ASSUME NEW t \in Threads, RecvTakes(t) PROVE NoLostWakeup'
    <2>1. state[t] = "ready" /\ prog[t][pos[t]].op = "recv" /\ Signal(t, "send")
          /\ Past(t) /\ UNCHANGED prog /\ count' = count - 1
      BY <1>6 DEF RecvTakes, Holds
    <2>2. /\ In("recv", "asleep")' = In("recv", "asleep")
          /\ Cardinality(In("recv", "ready")') = Cardinality(In("recv", "ready")) - 1
          /\ \/ In("send", "asleep")' = {}
             \/ /\ In("send", "asleep") # {}
                /\ Cardinality(In("send", "ready")')
                     = Cardinality(In("send", "ready")) + 1
      BY <2>1, SignalCounts
    <2>3. QED
      BY <1>a, <2>1, <2>2, InFinite DEF NoLostWakeup
  <1>7. CASE UNCHANGED vars
    BY <1>7 DEF vars, ring, NoLostWakeup, In
  <1>8. QED
    BY <1>1, <1>2, <1>3, <1>4, <1>5, <1>6, <1>7 DEF Next, Call, Others

(* One signal per store and per take loses no wakeup, for every program,   *)
(* every number of threads and every capacity: while a receiver sleeps, as *)
(* many receivers as there are messages are on their way to the buffer     *)
(* (buraaq_chan_send, buraaq_chan_recv).                                   *)
THEOREM WakeupsCover == Spec => []NoLostWakeup
  BY InitTypeOK, NextTypeOK, InitNoLostWakeup, NextNoLostWakeup, PTL DEF Spec

-----------------------------------------------------------------------------
(* bq_chan implements the abstract FIFO *)

\* The ring's two indices and its count agree.
RingOrder == tail = (head + count) % Cap

\* The slot of the i-th oldest message.
Place(h, i) == (h + i - 1) % Cap

\* Modulo of a number that is past the ring at most once.
LEMMA ModOnce ==
  ASSUME NEW x \in Nat, x < 2 * Cap
  PROVE  x % Cap = IF x < Cap THEN x ELSE x - Cap
  BY CapPositive

LEMMA PlaceValue ==
  ASSUME NEW h \in 0 .. Cap - 1, NEW i \in 1 .. Cap + 1
  PROVE  /\ Place(h, i) = IF h + i - 1 < Cap THEN h + i - 1 ELSE h + i - 1 - Cap
         /\ Place(h, i) \in 0 .. Cap - 1
  <1>1. h + i - 1 \in Nat /\ h + i - 1 < 2 * Cap
    BY CapPositive
  <1>2. QED
    BY <1>1, ModOnce, CapPositive DEF Place

LEMMA SlotValue ==
  ASSUME NEW k \in 0 .. Cap - 1
  PROVE  Slot(k) = IF k = Cap - 1 THEN 0 ELSE k + 1
  <1>1. k + 1 \in Nat /\ k + 1 < 2 * Cap
    BY CapPositive
  <1>2. QED
    BY <1>1, ModOnce, CapPositive DEF Slot

LEMMA TailValue ==
  ASSUME RingOrder, head \in 0 .. Cap - 1, count \in 0 .. Cap
  PROVE  tail = IF head + count < Cap THEN head + count ELSE head + count - Cap
  <1> DEFINE x == head + count
  <1>1. x \in Nat /\ x < 2 * Cap
    BY CapPositive
  <1>2. tail = x % Cap
    BY DEF RingOrder
  <1> HIDE DEF x
  <1>3. tail = IF x < Cap THEN x ELSE x - Cap
    BY <1>1, <1>2, ModOnce
  <1>4. QED
    BY <1>3, CapPositive DEF x

\* What the abstract queue is, slot by slot.
LEMMA ContentsIsQueue ==
  ASSUME TypeOK
  PROVE  /\ Contents \in Seq(Values)
         /\ Len(Contents) = count
         /\ \A i \in 1 .. count : Contents[i] = buf[Place(head, i)]
  <1>1. count \in Nat /\ count <= Cap
    BY CapPositive DEF TypeOK
  <1>2. ASSUME NEW i \in 1 .. count PROVE buf[Place(head, i)] \in Values
    BY <1>1, PlaceValue, CapPositive DEF TypeOK
  <1>3. Contents = [i \in 1 .. count |-> buf[Place(head, i)]]
    BY DEF Contents, Place
  <1>4. Contents \in [1 .. count -> Values]
    BY <1>2, <1>3
  <1>5. Contents \in Seq(Values)
    BY <1>1, <1>4
  <1>6. QED
    BY <1>1, <1>3, <1>4, <1>5

\* The same for the next state.
LEMMA ContentsIsQueuePrime ==
  ASSUME TypeOK'
  PROVE  /\ Contents' \in Seq(Values)
         /\ Len(Contents') = count'
         /\ \A i \in 1 .. count' : Contents'[i] = buf'[Place(head', i)]
  <1>1. /\ count' \in Nat /\ count' <= Cap /\ head' \in 0 .. Cap - 1
        /\ buf' \in [0 .. Cap - 1 -> Values]
    BY CapPositive DEF TypeOK
  <1>2. ASSUME NEW i \in 1 .. count' PROVE buf'[Place(head', i)] \in Values
    <2>1. Place(head', i) \in 0 .. Cap - 1
      BY <1>1, PlaceValue, CapPositive
    <2>2. QED
      BY <1>1, <2>1
  <1>3. Contents' = [i \in 1 .. count' |-> buf'[Place(head', i)]]
    BY DEF Contents, Place
  <1>4. Contents' \in [1 .. count' -> Values]
    BY <1>2, <1>3
  <1>5. Contents' \in Seq(Values)
    BY <1>1, <1>4
  <1>6. QED
    BY <1>1, <1>3, <1>4, <1>5

\* Storing in the slot at tail appends to the queue.
LEMMA StoreAppends ==
  ASSUME TypeOK, TypeOK', RingOrder, NEW m \in Values, count < Cap,
         buf' = [buf EXCEPT ![tail] = m], tail' = Slot(tail),
         count' = count + 1, head' = head
  PROVE  Contents' = Append(Contents, m) /\ RingOrder'
  <1>1. /\ head \in 0 .. Cap - 1 /\ count \in 0 .. Cap /\ tail \in 0 .. Cap - 1
        /\ buf \in [0 .. Cap - 1 -> Values] /\ count \in Nat
    BY CapPositive DEF TypeOK
  <1>2. tail = Place(head, count + 1)
    BY <1>1, CapPositive DEF RingOrder, Place
  <1>3. /\ Contents \in Seq(Values) /\ Len(Contents) = count
        /\ \A i \in 1 .. count : Contents[i] = buf[Place(head, i)]
    BY ContentsIsQueue
  <1>4. /\ Contents' \in Seq(Values) /\ Len(Contents') = count + 1
        /\ \A i \in 1 .. count + 1 : Contents'[i] = buf'[Place(head, i)]
    BY ContentsIsQueuePrime
  <1>5. ASSUME NEW i \in 1 .. count PROVE Contents'[i] = Contents[i]
    <2>1. /\ Place(head, i) \in 0 .. Cap - 1
          /\ Place(head, i) = IF head + i - 1 < Cap THEN head + i - 1 ELSE head + i - 1 - Cap
      <3>1. i \in 1 .. Cap + 1
        BY <1>1, CapPositive
      <3>2. QED
        BY <1>1, <3>1, PlaceValue
    <2>2. tail = IF head + count < Cap THEN head + count ELSE head + count - Cap
      BY <1>1, TailValue
    <2>3. Place(head, i) # tail
      BY <1>1, <2>1, <2>2, CapPositive
    <2>4. buf'[Place(head, i)] = buf[Place(head, i)]
      BY <1>1, <2>1, <2>3
    <2>5. QED
      BY <1>1, <1>3, <1>4, <2>4
  <1>6. Contents'[count + 1] = m
    BY <1>1, <1>2, <1>4
  <1>7. Contents' = Append(Contents, m)
    <2>1. /\ Append(Contents, m) \in Seq(Values)
          /\ Len(Append(Contents, m)) = count + 1
          /\ \A i \in 1 .. count : Append(Contents, m)[i] = Contents[i]
          /\ Append(Contents, m)[count + 1] = m
      BY <1>3, AppendProperties
    <2>2. \A i \in 1 .. count + 1 : Contents'[i] = Append(Contents, m)[i]
      BY <1>1, <1>5, <1>6, <2>1
    <2>3. QED
      BY <1>4, <2>1, <2>2, SeqEqual
  <1>8. RingOrder'
    <2>1. Slot(tail) = IF tail = Cap - 1 THEN 0 ELSE tail + 1
      BY <1>1, SlotValue
    <2>2. tail = IF head + count < Cap THEN head + count ELSE head + count - Cap
      BY <1>1, TailValue
    <2> DEFINE x == head + (count + 1)
    <2>3. x \in Nat /\ x < 2 * Cap
      BY <1>1, CapPositive
    <2>4. Slot(tail) = IF x < Cap THEN x ELSE x - Cap
      BY <1>1, <2>1, <2>2, CapPositive
    <2> HIDE DEF x
    <2>5. Slot(tail) = x % Cap
      BY <2>3, <2>4, ModOnce
    <2>6. QED
      BY <2>5 DEF x, RingOrder
  <1>9. QED
    BY <1>7, <1>8

\* Stepping head past the oldest message takes it off the queue.
LEMMA TakeRemoves ==
  ASSUME TypeOK, TypeOK', RingOrder, count # 0,
         UNCHANGED <<buf, tail>>, head' = Slot(head), count' = count - 1
  PROVE  /\ Contents # <<>> /\ Head(Contents) = buf[head]
         /\ Contents' = Tail(Contents) /\ RingOrder'
  <1>1. /\ head \in 0 .. Cap - 1 /\ count \in 1 .. Cap /\ tail \in 0 .. Cap - 1
        /\ buf \in [0 .. Cap - 1 -> Values] /\ count \in Nat
    BY CapPositive DEF TypeOK
  <1>2. /\ Contents \in Seq(Values) /\ Len(Contents) = count
        /\ \A i \in 1 .. count : Contents[i] = buf[Place(head, i)]
    BY ContentsIsQueue
  <1>3. /\ Contents' \in Seq(Values) /\ Len(Contents') = count - 1
        /\ \A i \in 1 .. count - 1 : Contents'[i] = buf[Place(Slot(head), i)]
    BY ContentsIsQueuePrime
  <1>4. Contents # <<>> /\ Head(Contents) = Contents[1]
    BY <1>1, <1>2
  <1>5. Place(head, 1) = head
    BY <1>1, PlaceValue, CapPositive
  <1>6. Slot(head) = (IF head = Cap - 1 THEN 0 ELSE head + 1) /\ Slot(head) \in 0 .. Cap - 1
    BY <1>1, SlotValue, SlotInRing
  <1>7. ASSUME NEW i \in 1 .. count - 1
        PROVE  Place(Slot(head), i) = Place(head, i + 1)
    <2>1. i \in 1 .. Cap + 1 /\ i + 1 \in 1 .. Cap + 1 /\ i \in Nat
      BY <1>1, CapPositive
    <2>2. Place(head, i + 1) = IF head + (i + 1) - 1 < Cap THEN head + (i + 1) - 1
                               ELSE head + (i + 1) - 1 - Cap
      BY <1>1, <2>1, PlaceValue
    <2>3. Place(Slot(head), i) = IF Slot(head) + i - 1 < Cap THEN Slot(head) + i - 1
                                 ELSE Slot(head) + i - 1 - Cap
      BY <1>6, <2>1, PlaceValue
    <2>4. QED
      BY <1>1, <1>6, <2>1, <2>2, <2>3, CapPositive
  <1>8. Contents' = Tail(Contents)
    <2>1. /\ Tail(Contents) \in Seq(Values) /\ Len(Tail(Contents)) = count - 1
          /\ \A i \in 1 .. count - 1 : Tail(Contents)[i] = Contents[i + 1]
      BY <1>2, <1>4, HeadTailProperties
    <2>2. \A i \in 1 .. count - 1 : Contents'[i] = Tail(Contents)[i]
      BY <1>1, <1>2, <1>3, <1>7, <2>1
    <2>3. QED
      BY <1>3, <2>1, <2>2, SeqEqual
  <1>9. RingOrder'
    <2>1. tail = IF head + count < Cap THEN head + count ELSE head + count - Cap
      BY <1>1, TailValue
    <2> DEFINE x == Slot(head) + (count - 1)
    <2>2. x \in Nat /\ x < 2 * Cap
      BY <1>1, <1>6, CapPositive
    <2>3. tail = IF x < Cap THEN x ELSE x - Cap
      BY <1>1, <1>6, <2>1, CapPositive
    <2> HIDE DEF x
    <2>4. tail = x % Cap
      BY <2>2, <2>3, ModOnce
    <2>5. QED
      BY <2>4 DEF x, RingOrder
  <1>10. QED
    BY <1>1, <1>2, <1>4, <1>5, <1>8, <1>9

\* An untouched ring holds an untouched queue.
LEMMA SameRing ==
  ASSUME RingOrder, UNCHANGED ring
  PROVE  UNCHANGED Contents /\ RingOrder'
  BY DEF RingOrder, Contents, ring


LEMMA InitFifo == Init => Fifo!Init /\ RingOrder
  <1> SUFFICES ASSUME Init PROVE Fifo!Init /\ RingOrder
    OBVIOUS
  <1>1. TypeOK
    BY InitTypeOK
  <1>2. Contents \in Seq(Values) /\ Len(Contents) = 0
    BY <1>1, ContentsIsQueue DEF Init
  <1>3. Contents = <<>>
    BY <1>2, EmptySeq
  <1>4. RingOrder
    <2>1. 0 + 0 \in Nat /\ 0 + 0 < 2 * Cap
      BY CapPositive
    <2>2. QED
      BY <2>1, ModOnce, CapPositive DEF Init, RingOrder
  <1>5. InCall = [t \in Threads |-> Fifo!NoCall]
    BY DEF Init, InCall, Fifo!NoCall
  <1>6. QED
    BY <1>3, <1>4, <1>5 DEF Init, Fifo!Init, NoRet, Fifo!NoRet

LEMMA ElsewhereCall == ASSUME Elsewhere PROVE UNCHANGED InCall
  BY DEF Elsewhere, InCall, Waiting

\* A thread that completes its call is back outside the channel.
LEMMA ReturnCall ==
  ASSUME TypeOK, NEW t \in Threads, NEW op, Signal(t, op), state[t] = "ready",
         Past(t), UNCHANGED prog
  PROVE  InCall' = [InCall EXCEPT ![t] = Fifo!NoCall]
  <1>1. /\ state'[t] = "run"
        /\ \A u \in Threads \ {t} :
             state'[u] = state[u] \/ (state[u] = "asleep" /\ state'[u] = "ready")
    BY SignalTypes
  <1>2. \A u \in Threads \ {t} : pos'[u] = pos[u]
    BY DEF Past, TypeOK
  <1>3. InCall'[t] = Fifo!NoCall
    BY <1>1 DEF InCall, Fifo!NoCall
  <1>4. ASSUME NEW u \in Threads \ {t} PROVE InCall'[u] = InCall[u]
    BY <1>1, <1>2 DEF InCall
  <1>5. InCall = [u \in Threads |-> InCall[u]] /\ InCall' = [u \in Threads |-> InCall'[u]]
    BY DEF InCall
  <1> HIDE DEF InCall
  <1>6. QED
    BY <1>3, <1>4, <1>5

\* A thread inside a call has no answer yet: a send answers by leaving it so.
NoAnswerYet == \A t \in Threads : state[t] \in Waiting => ret[t] = NoRet

LEMMA NextNoAnswerYet == TypeOK /\ NoAnswerYet /\ [Next]_vars => NoAnswerYet'
  <1> SUFFICES ASSUME TypeOK, NoAnswerYet, [Next]_vars PROVE NoAnswerYet'
    OBVIOUS
  <1>1. ASSUME NEW t \in Threads, Others(t) PROVE NoAnswerYet'
    BY <1>1, OthersTypeOK DEF Elsewhere, NoAnswerYet
  <1>2. ASSUME NEW t \in Threads, Enter(t) PROVE NoAnswerYet'
    BY <1>2 DEF Enter, NoAnswerYet, TypeOK
  <1>3. ASSUME NEW t \in Threads, SendWaits(t) \/ RecvWaits(t) \/ SpuriousWakeup(t)
        PROVE  NoAnswerYet'
    BY <1>3 DEF SendWaits, RecvWaits, Holds, Sleep, SpuriousWakeup, NoAnswerYet,
                TypeOK, Waiting
  <1>4. ASSUME NEW t \in Threads, SendStores(t) PROVE NoAnswerYet'
    <2>1. Signal(t, "recv") /\ state[t] = "ready" /\ UNCHANGED ret
      BY <1>4 DEF SendStores, Holds
    <2>2. QED
      BY <2>1, SignalTypes DEF NoAnswerYet, Waiting
  <1>5. ASSUME NEW t \in Threads, RecvTakes(t) PROVE NoAnswerYet'
    <2>1. Signal(t, "send") /\ state[t] = "ready"
          /\ \A u \in Threads \ {t} : ret'[u] = ret[u]
      BY <1>5 DEF RecvTakes, Holds, TypeOK
    <2>2. QED
      BY <2>1, SignalTypes DEF NoAnswerYet, Waiting
  <1>6. CASE UNCHANGED vars
    BY <1>6 DEF vars, NoAnswerYet
  <1>7. QED
    BY <1>1, <1>2, <1>3, <1>4, <1>5, <1>6 DEF Next, Call, Others

\* Each step of a program is a step of the FIFO or changes nothing of it.
LEMMA NextFifo ==
  ASSUME TypeOK, TypeOK', RingOrder, NoAnswerYet, [Next]_vars
  PROVE  [Fifo!Next]_(Fifo!vars) /\ RingOrder'
  <1>1. ASSUME NEW t \in Threads, Others(t)
        PROVE  [Fifo!Next]_(Fifo!vars) /\ RingOrder'
    <2>1. Elsewhere
      BY <1>1, OthersTypeOK
    <2>2. UNCHANGED Contents /\ RingOrder' /\ UNCHANGED ret
      BY <2>1, SameRing DEF Elsewhere
    <2>3. UNCHANGED InCall
      BY <2>1, ElsewhereCall
    <2>4. QED
      BY <2>2, <2>3 DEF Fifo!vars
  <1>2. ASSUME NEW t \in Threads, Enter(t)
        PROVE  [Fifo!Next]_(Fifo!vars) /\ RingOrder'
    <2>1. UNCHANGED Contents /\ RingOrder'
      BY <1>2, SameRing DEF Enter
    <2>2. InCall[t] = Fifo!NoCall
      BY <1>2 DEF Enter, At, InCall, Fifo!NoCall
    <2> DEFINE c == [op |-> prog[t][pos[t]].op,
                     msg |-> IF prog[t][pos[t]].op = "send"
                             THEN prog[t][pos[t]].arg ELSE Zero]
    <2>3. prog[t][pos[t]].op \in {"send", "recv"} /\ pos[t] <= Len(prog[t])
      BY <1>2 DEF Enter, At
    <2>4. prog[t][pos[t]].op = "send" => prog[t][pos[t]].arg \in Values
      BY <2>3, Calls DEF TypeOK
    <2>5. c \in Fifo!Calls
      BY <2>3, <2>4 DEF Fifo!Calls
    <2>6. InCall' = [InCall EXCEPT ![t] = c]
      BY <1>2 DEF Enter, InCall, TypeOK
    <2> HIDE DEF c
    <2>7. Fifo!Invoke(t)
      BY <1>2, <2>1, <2>2, <2>5, <2>6
      DEF Enter, NoRet, Fifo!Invoke, Fifo!NoRet
    <2>8. QED
      BY <2>1, <2>7 DEF Fifo!Next
  <1>3. ASSUME NEW t \in Threads, SendStores(t)
        PROVE  [Fifo!Next]_(Fifo!vars) /\ RingOrder'
    <2>1. state[t] = "ready" /\ prog[t][pos[t]].op = "send" /\ Signal(t, "recv")
          /\ Past(t) /\ UNCHANGED prog
      BY <1>3 DEF SendStores, Holds
    <2>2. InCall[t].op = "send" /\ InCall[t].msg = Arg(t)
      BY <2>1 DEF Arg, InCall
    <2>a. Arg(t) \in Values
      BY <2>1, Calls DEF Arg, TypeOK
    <2>3. count < Cap /\ count \in Nat
      BY <1>3, CapPositive DEF SendStores, Full, TypeOK
    <2>4. Contents' = Append(Contents, Arg(t)) /\ RingOrder'
      BY <1>3, <2>a, <2>3, StoreAppends DEF SendStores
    <2>5. Len(Contents) < Cap
      BY <2>3, ContentsIsQueue
    <2>6. ret' = [ret EXCEPT ![t] = [code |-> 0, msg |-> Zero]]
      BY <1>3, <2>1 DEF SendStores, NoAnswerYet, Waiting, NoRet, TypeOK
    <2>7. InCall' = [InCall EXCEPT ![t] = Fifo!NoCall]
      BY <2>1, ReturnCall
    <2>8. Fifo!Put(t)
      BY <2>2, <2>4, <2>5, <2>6, <2>7 DEF Fifo!Put, Fifo!Return
    <2>9. QED
      BY <2>4, <2>8 DEF Fifo!Next
  <1>4. ASSUME NEW t \in Threads, RecvTakes(t)
        PROVE  [Fifo!Next]_(Fifo!vars) /\ RingOrder'
    <2>1. state[t] = "ready" /\ prog[t][pos[t]].op = "recv" /\ Signal(t, "send")
          /\ Past(t) /\ UNCHANGED prog
      BY <1>4 DEF RecvTakes, Holds
    <2>2. InCall[t].op = "recv"
      BY <2>1 DEF InCall
    <2>3. /\ Contents # <<>> /\ Head(Contents) = buf[head]
          /\ Contents' = Tail(Contents) /\ RingOrder'
      BY <1>4, TakeRemoves DEF RecvTakes
    <2>4. InCall' = [InCall EXCEPT ![t] = Fifo!NoCall]
      BY <2>1, ReturnCall
    <2>5. Fifo!Take(t)
      BY <1>4, <2>2, <2>3, <2>4 DEF RecvTakes, Fifo!Take, Fifo!Return
    <2>6. QED
      BY <2>3, <2>5 DEF Fifo!Next
  \* Sleeping and waking are the implementation's own business.
  <1>5. ASSUME NEW t \in Threads, SendWaits(t) \/ RecvWaits(t) \/ SpuriousWakeup(t)
        PROVE  [Fifo!Next]_(Fifo!vars) /\ RingOrder'
    <2>1. UNCHANGED <<ring, ret>>
      BY <1>5 DEF SendWaits, RecvWaits, Sleep, SpuriousWakeup
    <2>2. UNCHANGED InCall
      BY <1>5 DEF SendWaits, RecvWaits, Holds, Sleep, SpuriousWakeup, InCall, TypeOK
    <2>3. UNCHANGED Contents /\ RingOrder'
      BY <2>1, SameRing
    <2>4. QED
      BY <2>1, <2>2, <2>3 DEF Fifo!vars
  <1>6. CASE UNCHANGED vars
    <2>1. UNCHANGED <<ring, ret, prog, state, pos>>
      BY <1>6 DEF vars
    <2>2. UNCHANGED Contents /\ RingOrder'
      BY <2>1, SameRing
    <2>3. QED
      BY <2>1, <2>2 DEF Fifo!vars, InCall
  <1>7. QED
    BY <1>1, <1>2, <1>3, <1>4, <1>5, <1>6 DEF Next, Call, Others

(* bq_chan implements a bounded FIFO for every program, every capacity and *)
(* every number of threads: what is received is what was sent, in order,   *)
(* nothing lost and nothing twice, whatever the threads do in between      *)
(* (buraaq_chan_send, buraaq_chan_recv).                                   *)
THEOREM ImplementsFifo == Spec => FifoSpec
  <1> DEFINE IInv == TypeOK /\ RingOrder /\ NoAnswerYet
  <1>1. IInv /\ [Next]_vars => [Fifo!Next]_(Fifo!vars) /\ IInv'
    BY NextTypeOK, NextNoAnswerYet, NextFifo
  <1>2. Init => Fifo!Init /\ IInv
    BY InitTypeOK, InitFifo DEF Init, NoAnswerYet
  <1> HIDE DEF IInv
  <1>3. QED
    BY <1>1, <1>2, PTL DEF Spec, FifoSpec, Fifo!Spec

-----------------------------------------------------------------------------
(* The map, under every program: the part of the books that needs no fold  *)

MapRecord == [keys : Seq(Values), vals : Seq(Int), cap : Nat,
              dangling : SUBSET {"keys", "vals"}]

\* One entry per key.
OneEntry(m) ==
  /\ m \in MapRecord
  /\ Len(m.keys) = Len(m.vals) /\ IsInjective(m.keys)

\* In a map with one entry per key a lookup finds the entry there is.
LEMMA FindIsIndex ==
  ASSUME NEW m, OneEntry(m), NEW i \in 1 .. Len(m.keys)
  PROVE  MapFind(m, m.keys[i]) = i - 1
  <1> DEFINE I == {j \in 1 .. Len(m.keys) : m.keys[j] = m.keys[i]}
  <1>1. m.keys \in Seq(Values) /\ Len(m.keys) \in Nat /\ DOMAIN m.keys = 1 .. Len(m.keys)
    BY DEF OneEntry, MapRecord
  <1>2. I = {i}
    BY <1>1 DEF OneEntry, IsInjective
  <1>3. Min(I) = i
    BY <1>2 DEF Min
  <1>4. m.keys[i] \in ToSet(m.keys)
    BY <1>1 DEF ToSet
  <1>5. SelectInSeq(m.keys, LAMBDA x : x = m.keys[i]) = i
    BY <1>2, <1>3 DEF SelectInSeq
  <1>6. QED
    BY <1>4, <1>5 DEF MapFind

LEMMA FindNothing ==
  ASSUME NEW m, NEW k, k \notin ToSet(m.keys)
  PROVE  MapFind(m, k) = -1
  BY DEF MapFind

\* What a lookup answers is -1 or an index of both arrays.
LEMMA FindInRange ==
  ASSUME NEW m, OneEntry(m), NEW k, MapFind(m, k) # -1
  PROVE  /\ MapFind(m, k) \in Nat
         /\ MapFind(m, k) + 1 \in 1 .. Len(m.vals)
  <1>1. m.keys \in Seq(Values) /\ DOMAIN m.keys = 1 .. Len(m.keys)
    BY DEF OneEntry, MapRecord
  <1>2. PICK i \in 1 .. Len(m.keys) : m.keys[i] = k
    BY <1>1, FindNothing DEF ToSet
  <1>3. MapFind(m, k) = i - 1
    BY <1>2, FindIsIndex
  <1>4. QED
    BY <1>1, <1>2, <1>3 DEF OneEntry

\* An insertion keeps one entry per key, whatever the allocator does.
LEMMA SetKeepsOneEntry ==
  ASSUME NEW m, OneEntry(m), NEW k \in Values, NEW x \in Int, NEW fate \in MapFates(m, k)
  PROVE  OneEntry(MapSet(m, k, x, fate))
  <1> DEFINE f == MapFind(m, k)
             n == MapSet(m, k, x, fate)
  <1>0. /\ m.keys \in Seq(Values) /\ m.vals \in Seq(Int) /\ m.cap \in Nat
        /\ m.dangling \in SUBSET {"keys", "vals"}
        /\ m = [keys |-> m.keys, vals |-> m.vals, cap |-> m.cap, dangling |-> m.dangling]
        /\ DOMAIN m.keys = 1 .. Len(m.keys)
    BY DEF OneEntry, MapRecord
  <1>a. Len(m.keys) = Len(m.vals)
    BY DEF OneEntry
  <1>1. CASE f # -1
    <2>1. f \in Nat /\ f + 1 \in 1 .. Len(m.vals)
      BY <1>1, FindInRange
    <2>2. n = [m EXCEPT !.vals[f + 1] = x]
      BY <2>1 DEF MapSet
    <2>3. /\ n.keys = m.keys /\ n.vals = [m.vals EXCEPT ![f + 1] = x]
          /\ n = [keys |-> m.keys, vals |-> [m.vals EXCEPT ![f + 1] = x],
                  cap |-> m.cap, dangling |-> m.dangling]
      BY <1>0, <2>2
    <2>4. n.vals \in Seq(Int) /\ Len(n.vals) = Len(m.vals)
      BY <1>0, <2>1, <2>3, ExceptSeq
    <2>5. QED
      BY <1>0, <2>3, <2>4 DEF OneEntry, MapRecord
  <1>2. CASE f = -1
    <2>1. k \notin ToSet(m.keys)
      <3>1. ASSUME NEW i \in 1 .. Len(m.keys), m.keys[i] = k PROVE FALSE
        <4>1. f = i - 1
          BY <3>1, FindIsIndex
        <4>2. QED
          BY <1>0, <1>2, <4>1
      <3>2. QED
        BY <1>0, <3>1 DEF ToSet
    <2>2. CASE fate = "failed"
      BY <1>2, <2>2 DEF MapSet
    <2>3. CASE fate \in {"keys", "vals"}
      <3>1. n = [m EXCEPT !.dangling = @ \cup {fate}]
        BY <1>2, <2>3 DEF MapSet
      <3>2. QED
        BY <1>0, <2>3, <3>1 DEF OneEntry, MapRecord
    <2>4. CASE fate \notin {"failed", "keys", "vals"}
      <3>1. n = [m EXCEPT !.keys = Append(@, k), !.vals = Append(@, x),
                          !.cap = IF fate = "grown" THEN Doubled(@) ELSE @]
        BY <1>2, <2>4 DEF MapSet
      <3>2. /\ n.keys = Append(m.keys, k) /\ n.vals = Append(m.vals, x)
            /\ n.dangling = m.dangling
            /\ n.cap = IF fate = "grown" THEN Doubled(m.cap) ELSE m.cap
            /\ n = [keys |-> n.keys, vals |-> n.vals, cap |-> n.cap,
                    dangling |-> n.dangling]
        BY <1>0, <3>1
      <3>3. n.cap \in Nat
        BY <1>0, <3>2, SizesAssumption DEF Doubled
      <3>4. /\ n.keys \in Seq(Values) /\ Len(n.keys) = Len(m.keys) + 1
            /\ n.keys[Len(m.keys) + 1] = k
            /\ \A i \in 1 .. Len(m.keys) : n.keys[i] = m.keys[i]
        BY <1>0, <3>2, AppendProperties
      <3>5. n.vals \in Seq(Int) /\ Len(n.vals) = Len(m.vals) + 1
        BY <1>0, <3>2, AppendProperties
      <3> HIDE DEF n
      <3>6. IsInjective(n.keys)
        <4>1. DOMAIN n.keys = 1 .. Len(m.keys) + 1 /\ Len(m.keys) \in Nat
          BY <1>0, <3>4
        <4>2. \A i \in 1 .. Len(m.keys) : m.keys[i] # k
          BY <1>0, <2>1 DEF ToSet
        <4>3. \A i, j \in 1 .. Len(m.keys) : m.keys[i] = m.keys[j] => i = j
          BY <1>0 DEF OneEntry, IsInjective
        <4>4. ASSUME NEW i \in 1 .. Len(m.keys) + 1, NEW j \in 1 .. Len(m.keys) + 1,
                     n.keys[i] = n.keys[j]
              PROVE  i = j
          <5>1. /\ i \in 1 .. Len(m.keys) \/ i = Len(m.keys) + 1
                /\ j \in 1 .. Len(m.keys) \/ j = Len(m.keys) + 1
            BY <4>1
          <5>2. CASE i \in 1 .. Len(m.keys) /\ j \in 1 .. Len(m.keys)
            BY <3>4, <4>3, <4>4, <5>2
          <5>3. CASE i \in 1 .. Len(m.keys) /\ j = Len(m.keys) + 1
            BY <3>4, <4>2, <4>4, <5>3
          <5>4. CASE i = Len(m.keys) + 1 /\ j \in 1 .. Len(m.keys)
            BY <3>4, <4>2, <4>4, <5>4
          <5>5. QED
            BY <5>1, <5>2, <5>3, <5>4
        <4>5. QED
          BY <4>1, <4>4 DEF IsInjective
      <3>7. n \in MapRecord
        BY <1>0, <3>2, <3>3, <3>4, <3>5 DEF MapRecord
      <3>8. OneEntry(n)
        BY <1>a, <3>4, <3>5, <3>6, <3>7 DEF OneEntry
      <3>9. QED
        BY <3>8 DEF n
    <2>5. QED
      BY <2>2, <2>3, <2>4
  <1>3. QED
    BY <1>1, <1>2

(* One entry per key and as many values as keys, whichever threads insert, *)
(* in whatever order and whatever fails; memory is used after it was freed *)
(* only when one of the map's two reallocations failed.                    *)
MapSound ==
  /\ OneEntry(map)
  /\ map.dangling # {} \/ fault = "map" => "half" \in lost

\* With the type of what the threads read, which the map stores.
MapInv == MapSound /\ read \in [Threads -> Int]

LEMMA InitMapInv == Init => MapInv
  <1> SUFFICES ASSUME Init PROVE MapInv
    OBVIOUS
  <1>1. map = [keys |-> <<>>, vals |-> <<>>, cap |-> 0, dangling |-> {}]
    BY DEF Init, MapNew
  <1>2. OneEntry(map)
    BY <1>1 DEF OneEntry, MapRecord, IsInjective
  <1>3. QED
    BY <1>1, <1>2 DEF Init, MapInv, MapSound

LEMMA NextMapInv == TypeOK /\ MapInv /\ [Next]_vars => MapInv'
  <1> SUFFICES ASSUME TypeOK, MapInv, [Next]_vars PROVE MapInv'
    OBVIOUS
  <1>a. /\ OneEntry(map) /\ map.dangling \in SUBSET {"keys", "vals"}
        /\ map.dangling # {} \/ fault = "map" => "half" \in lost
        /\ read \in [Threads -> Int] /\ reg \in [Threads -> Values]
    BY DEF MapInv, MapSound, OneEntry, MapRecord, TypeOK
  \* Every step but Get and Put keeps the map, and adds to the failures.
  <1>1. ASSUME UNCHANGED <<map, read>>, lost \subseteq lost',
               fault' = "map" => fault = "map"
        PROVE  MapInv'
    BY <1>a, <1>1 DEF MapInv, MapSound
  <1>2. ASSUME NEW t \in Threads, Get(t) PROVE MapInv'
    <2>1. CASE MapReadFaults(map, reg[t])
      <3>1. UNCHANGED <<map, read, lost>> /\ map.dangling # {}
        BY <1>2, <2>1 DEF Get, Fault, MapReadFaults
      <3>2. QED
        BY <1>a, <3>1 DEF MapInv, MapSound
    <2>2. CASE ~MapReadFaults(map, reg[t])
      <3>1. /\ UNCHANGED <<map, lost, fault>>
            /\ read' = [read EXCEPT ![t] =
                          IF MapFind(map, reg[t]) = -1 THEN 0 ELSE MapGet(map, reg[t])]
        BY <1>2, <2>2 DEF Get
      <3>2. MapFind(map, reg[t]) # -1 => MapGet(map, reg[t]) \in Int
        <4>1. SUFFICES ASSUME MapFind(map, reg[t]) # -1 PROVE MapGet(map, reg[t]) \in Int
          OBVIOUS
        <4>2. /\ MapFind(map, reg[t]) \in Nat
              /\ MapFind(map, reg[t]) + 1 \in 1 .. Len(map.vals)
          BY <1>a, <4>1, FindInRange
        <4>3. MapGet(map, reg[t]) = map.vals[MapFind(map, reg[t]) + 1]
          BY <4>2 DEF MapGet
        <4>4. map.vals \in Seq(Int)
          BY <1>a DEF OneEntry, MapRecord
        <4>5. QED
          BY <4>2, <4>3, <4>4, ElementOfSeq
      <3>3. read' \in [Threads -> Int]
        BY <1>a, <3>1, <3>2
      <3>4. QED
        BY <1>a, <3>1, <3>3 DEF MapInv, MapSound
    <2>3. QED
      BY <2>1, <2>2
  <1>3. ASSUME NEW t \in Threads, Put(t) PROVE MapInv'
    <2>1. CASE MapWriteFaults(map, reg[t])
      <3>1. UNCHANGED <<map, read, lost>> /\ map.dangling # {}
        BY <1>3, <2>1 DEF Put, Fault, MapWriteFaults
      <3>2. QED
        BY <1>a, <3>1 DEF MapInv, MapSound
    <2>2. CASE ~MapWriteFaults(map, reg[t])
      <3>1. PICK fate \in MapFates(map, reg[t]) :
              /\ map' = MapSet(map, reg[t], read[t] + 1, fate)
              /\ IF fate \in {"fits", "grown"} THEN UNCHANGED <<fails, lost>>
                 ELSE MayFail(IF fate = "failed" THEN "map" ELSE "half")
        BY <1>3, <2>2 DEF Put
      <3>2. UNCHANGED <<read, fault>>
        BY <1>3, <2>2 DEF Put
      <3>3. OneEntry(map')
        BY <1>a, <3>1, SetKeepsOneEntry
      <3>4. lost \subseteq lost' /\ (fate \in {"keys", "vals"} => "half" \in lost')
        BY <3>1 DEF MayFail
      <3>5. fate \notin {"keys", "vals"} => map'.dangling = map.dangling
        BY <1>a, <3>1 DEF MapSet, OneEntry, MapRecord
      <3>6. QED
        BY <1>a, <3>2, <3>3, <3>4, <3>5 DEF MapInv, MapSound, OneEntry
    <2>3. QED
      BY <2>1, <2>2
  <1>4. ASSUME NEW t \in Threads,
               Others(t) \/ Enter(t) \/ SpuriousWakeup(t) \/ SendWaits(t)
                 \/ SendStores(t) \/ RecvWaits(t) \/ RecvTakes(t),
               ~ Get(t), ~ Put(t)
        PROVE  MapInv'
    <2>1. UNCHANGED <<map, read>> /\ lost \subseteq lost'
          /\ (fault' = "map" => fault = "map")
      BY <1>4 DEF Others, Spawn, Join, Finish, Lock, Unlock, Destroy, NoChannel, Add,
                  Push, Seed, Swap, Enter, SpuriousWakeup, SendWaits, SendStores,
                  RecvWaits, RecvTakes, Sleep, MayFail, Race, heap, locals
    <2>2. QED
      BY <1>1, <2>1
  <1>5. CASE UNCHANGED vars
    BY <1>1, <1>5 DEF vars, heap, locals
  <1>6. QED
    BY <1>2, <1>3, <1>4, <1>5 DEF Next, Call, Others

-----------------------------------------------------------------------------
(* The set *)

\* A set of n buckets: its chains, each key in the bucket of its hash.
Chained(s, n) ==
  /\ n \in Nat \ {0} /\ s = [chains |-> s.chains, count |-> s.count]
  /\ s.chains \in [0 .. n - 1 -> SUBSET Values]
  /\ \A b \in 0 .. n - 1 : \A k \in s.chains[b] : Bucket(k, n) = b
  /\ IsFiniteSet(SetMembers(s)) /\ s.count = Cardinality(SetMembers(s))

ProperSet(s) == \E n : Chained(s, n)

LEMMA BucketInRange ==
  ASSUME NEW k \in Values, NEW n \in Nat \ {0}
  PROVE  Bucket(k, n) \in 0 .. n - 1
  <1>1. Hash[k] \in Nat
    BY ZeroAssumption
  <1>2. QED
    BY <1>1 DEF Bucket

LEMMA ChainedFacts ==
  ASSUME NEW s, NEW n, Chained(s, n)
  PROVE  /\ SetSize(s) = n /\ DOMAIN s.chains = 0 .. n - 1
         /\ SetMembers(s) \subseteq Values
         /\ \A k \in Values : SetHas(s, k) <=> k \in SetMembers(s)
  <1>1. n \in Nat \ {0} /\ DOMAIN s.chains = 0 .. n - 1
    BY DEF Chained
  <1>2. Cardinality(0 .. n - 1) = n
    <2>1. Cardinality(0 .. n - 1) = (n - 1) - 0 + 1
      BY <1>1, FS_Interval
    <2>2. QED
      BY <1>1, <2>1
  <1>3. SetSize(s) = n
    BY <1>1, <1>2 DEF SetSize
  <1>4. ASSUME NEW k \in Values PROVE SetHas(s, k) <=> k \in SetMembers(s)
    <2>1. Bucket(k, n) \in 0 .. n - 1
      BY <1>1, BucketInRange
    <2>2. ASSUME k \in SetMembers(s) PROVE SetHas(s, k)
      <3>1. PICK b \in 0 .. n - 1 : k \in s.chains[b]
        BY <1>1, <2>2 DEF SetMembers
      <3>2. Bucket(k, n) = b
        BY <3>1 DEF Chained
      <3>3. QED
        BY <1>3, <3>1, <3>2 DEF SetHas
    <2>3. ASSUME SetHas(s, k) PROVE k \in SetMembers(s)
      BY <1>1, <1>3, <2>1, <2>3 DEF SetHas, SetMembers
    <2>4. QED
      BY <2>2, <2>3
  <1>5. SetMembers(s) \subseteq Values
    BY <1>1 DEF Chained, SetMembers
  <1>6. QED
    BY <1>1, <1>3, <1>4, <1>5

\* A rehash moves every key to its new bucket, and loses none.
LEMMA RehashKeepsMembers ==
  ASSUME NEW s, NEW n, Chained(s, n)
  PROVE  /\ Chained(SetRehash(s), 2 * n) /\ SetMembers(SetRehash(s)) = SetMembers(s)
         /\ SetRehash(s).count = s.count
  <1>1. /\ SetSize(s) = n /\ n \in Nat \ {0} /\ SetMembers(s) \subseteq Values
        /\ s = [chains |-> s.chains, count |-> s.count]
    BY ChainedFacts DEF Chained
  <1>2. PICK r : r = SetRehash(s)
    OBVIOUS
  <1>3. r = [chains |-> [b \in 0 .. 2 * n - 1 |->
                           {k \in SetMembers(s) : Bucket(k, 2 * n) = b}],
             count |-> s.count]
    BY <1>1, <1>2 DEF SetRehash
  <1>4. /\ r.chains \in [0 .. 2 * n - 1 -> SUBSET Values] /\ r.count = s.count
        /\ r = [chains |-> r.chains, count |-> r.count]
        /\ \A b \in 0 .. 2 * n - 1 : r.chains[b] = {k \in SetMembers(s) : Bucket(k, 2 * n) = b}
    BY <1>1, <1>3
  <1>5. SetMembers(r) = SetMembers(s)
    <2>1. DOMAIN r.chains = 0 .. 2 * n - 1
      BY <1>4
    <2>2. ASSUME NEW k \in SetMembers(s) PROVE k \in SetMembers(r)
      <3>1. Bucket(k, 2 * n) \in 0 .. 2 * n - 1
        BY <1>1, BucketInRange
      <3>2. k \in r.chains[Bucket(k, 2 * n)]
        BY <1>4, <3>1
      <3>3. QED
        BY <2>1, <3>1, <3>2 DEF SetMembers
    <2>3. ASSUME NEW k \in SetMembers(r) PROVE k \in SetMembers(s)
      <3>1. PICK b \in 0 .. 2 * n - 1 : k \in r.chains[b]
        BY <2>1 DEF SetMembers
      <3>2. QED
        BY <1>4, <3>1
    <2>4. QED
      BY <2>2, <2>3
  <1>6. Chained(r, 2 * n)
    BY <1>1, <1>4, <1>5 DEF Chained
  <1>7. QED
    BY <1>2, <1>4, <1>5, <1>6

\* A key is added once, and the count goes with it.
LEMMA AddKeepsProper ==
  ASSUME NEW s, ProperSet(s), NEW k \in Values, NEW fate
  PROVE  /\ ProperSet(SetAdd(s, k, fate).set)
         /\ SetMembers(s) \subseteq SetMembers(SetAdd(s, k, fate).set)
         /\ SetAdd(s, k, fate).answer # 0 =>
              k \in SetMembers(SetAdd(s, k, fate).set) \ SetMembers(s)
  <1>1. CASE SetHas(s, k)
    BY <1>1 DEF SetAdd
  <1>2. CASE ~SetHas(s, k)
    <2>1. PICK n : Chained(s, n)
      BY DEF ProperSet
    <2>2. PICK t : t = IF SetFull(s) /\ fate # "rehash failed" THEN SetRehash(s) ELSE s
      OBVIOUS
    <2>3. PICK m : Chained(t, m) /\ SetMembers(t) = SetMembers(s)
      BY <2>1, <2>2, RehashKeepsMembers
    <2>4. /\ m \in Nat \ {0} /\ t.chains \in [0 .. m - 1 -> SUBSET Values]
          /\ \A b \in 0 .. m - 1 : \A x \in t.chains[b] : Bucket(x, m) = b
          /\ IsFiniteSet(SetMembers(t)) /\ t.count = Cardinality(SetMembers(t))
      BY <2>3 DEF Chained
    <2>5. SetSize(t) = m /\ k \notin SetMembers(t)
      BY <1>2, <2>1, <2>3, ChainedFacts
    <2>6. CASE fate = "failed"
      <3>1. SetAdd(s, k, fate).set = t /\ SetAdd(s, k, fate).answer = 0
        BY <1>2, <2>2, <2>6 DEF SetAdd
      <3>2. QED
        BY <2>3, <3>1 DEF ProperSet
    <2>7. CASE fate # "failed"
      <3>1. PICK b : b = Bucket(k, m)
        OBVIOUS
      <3>2. PICK r : r = [chains |-> [t.chains EXCEPT ![b] = @ \cup {k}], count |-> t.count + 1]
        OBVIOUS
      <3>3. SetAdd(s, k, fate).set = r
        BY <1>2, <2>2, <2>5, <2>7, <3>1, <3>2 DEF SetAdd
      <3>4. b \in 0 .. m - 1
        BY <2>4, <3>1, BucketInRange
      <3>5. /\ r.chains \in [0 .. m - 1 -> SUBSET Values] /\ r.count = t.count + 1
            /\ r = [chains |-> r.chains, count |-> r.count]
            /\ r.chains[b] = t.chains[b] \cup {k}
            /\ \A c \in 0 .. m - 1 : c # b => r.chains[c] = t.chains[c]
        BY <2>4, <3>2, <3>4
      <3>6. SetMembers(r) = SetMembers(t) \cup {k}
        <4>1. DOMAIN r.chains = 0 .. m - 1 /\ DOMAIN t.chains = 0 .. m - 1
          BY <2>4, <3>5
        <4>2. ASSUME NEW x PROVE x \in SetMembers(r) <=> x \in SetMembers(t) \cup {k}
          BY <3>4, <3>5, <4>1 DEF SetMembers
        <4>3. QED
          BY <4>2
      <3>7. IsFiniteSet(SetMembers(r)) /\ r.count = Cardinality(SetMembers(r))
        BY <2>4, <2>5, <3>5, <3>6, FS_AddElement
      <3>8. \A c \in 0 .. m - 1 : \A x \in r.chains[c] : Bucket(x, m) = c
        BY <2>4, <3>1, <3>4, <3>5
      <3>9. Chained(r, m)
        BY <2>4, <3>5, <3>7, <3>8 DEF Chained
      <3>10. QED
        BY <2>3, <2>5, <3>3, <3>6, <3>9 DEF ProperSet
    <2>8. QED
      BY <2>6, <2>7
  <1>3. QED
    BY <1>1, <1>2

\* A bag of an empty entry and another.
LEMMA AddAllOfTwo ==
  ASSUME NEW s, NEW k
  PROVE  SetAddAll(s, <<Zero, k>>) = IF k = Zero THEN s ELSE SetAdd(s, k, "added").set
  <1> DEFINE bag == <<Zero, k>>
             step(f) == [i \in 0 .. Len(bag) |->
                           IF i = 0 THEN s
                           ELSE IF bag[i] = Zero THEN f[i - 1]
                           ELSE SetAdd(f[i - 1], bag[i], "added").set]
             last == IF k = Zero THEN s ELSE SetAdd(s, k, "added").set
             after == CHOOSE f : f = step(f)
             w == [i \in 0 .. 2 |-> IF i = 2 THEN last ELSE s]
  <1>1. Len(bag) = 2 /\ bag[1] = Zero /\ bag[2] = k
    OBVIOUS
  <1>2. SetAddAll(s, bag) = after[Len(bag)]
    BY DEF SetAddAll
  <1> HIDE DEF bag
  <1>3. w = step(w)
    <2>1. ASSUME NEW i \in 0 .. 2 PROVE w[i] = step(w)[i]
      <3>1. CASE i = 0
        BY <1>1, <3>1
      <3>2. CASE i = 1
        BY <1>1, <3>2
      <3>3. CASE i = 2
        BY <1>1, <3>3
      <3>4. QED
        BY <3>1, <3>2, <3>3
    <2>2. QED
      BY <1>1, <2>1
  <1>4. after = step(after)
    <2> HIDE DEF step
    <2>1. QED
      BY <1>3
  <1> HIDE DEF after
  <1>5. after[0] = s /\ after[1] = s
    BY <1>1, <1>4
  <1>6. after[2] = last
    BY <1>1, <1>4, <1>5
  <1>7. QED
    BY <1>1, <1>2, <1>6 DEF bag

LEMMA InitSet == Init => ProperSet(set)
  <1> SUFFICES ASSUME Init PROVE ProperSet(set)
    OBVIOUS
  <1>1. set = [chains |-> [b \in 0 .. Buckets - 1 |-> {}], count |-> 0]
    BY DEF Init, SetNew
  <1>2. SetMembers(set) = {}
    BY <1>1 DEF SetMembers
  <1>3. Chained(set, Buckets)
    BY <1>1, <1>2, SizesAssumption, FS_EmptySet DEF Chained
  <1>4. QED
    BY <1>3 DEF ProperSet

LEMMA NextSet == TypeOK /\ ProperSet(set) /\ [Next]_vars => ProperSet(set)'
  <1> SUFFICES ASSUME TypeOK, ProperSet(set), [Next]_vars PROVE ProperSet(set')
    BY DEF ProperSet, Chained, SetMembers
  <1>1. ASSUME NEW t \in Threads, Add(t) PROVE ProperSet(set')
    <2>1. PICK fate : set' = SetAdd(set, reg[t], fate).set
      BY <1>1 DEF Add
    <2>2. reg[t] \in Values
      BY DEF TypeOK
    <2>3. QED
      BY <2>1, <2>2, AddKeepsProper
  <1>2. ASSUME NEW t \in Threads, Seed(t) PROVE ProperSet(set')
    <2>1. set' = SetAddAll(set, <<Zero, Arg(t)>>)
      BY <1>2 DEF Seed
    <2>2. Arg(t) \in Values
      BY <1>2, Calls DEF Seed, At, Arg, TypeOK
    <2>3. QED
      BY <2>1, <2>2, AddAllOfTwo, AddKeepsProper
  <1>3. ASSUME UNCHANGED set PROVE ProperSet(set')
    BY <1>3
  <1>4. ASSUME NEW t \in Threads, Call(t) \/ SpuriousWakeup(t) \/ Race(t), ~Add(t), ~Seed(t)
        PROVE  UNCHANGED set
    BY <1>4
    DEF Call, Spawn, Join, Finish, Lock, Unlock, Destroy, NoChannel, Enter, SendWaits,
        SendStores, RecvWaits, RecvTakes, Get, Put, Push, Swap, SpuriousWakeup, Race, Sleep,
        heap
  <1>5. CASE UNCHANGED vars
    BY <1>3, <1>5 DEF vars, heap
  <1>6. QED
    BY <1>1, <1>2, <1>3, <1>4, <1>5 DEF Next

-----------------------------------------------------------------------------
(* Induction, and runs of a loop                                           *)

\* What holds at first, and at each number when it holds at the one before,
\* holds at every number.
LEMMA OneByOne ==
  ASSUME NEW N \in Nat, NEW S, 0 \in S, \A i \in 1 .. N : i - 1 \in S => i \in S
  PROVE  \A i \in 0 .. N : i \in S
  <1> DEFINE Less == {ss \in Nat \X Nat : ss[1] < ss[2]}
             bad == {i \in 0 .. N : i \notin S}
  <1>1. OpToRel(<, Nat) = Less
    BY Zenon DEF OpToRel
  <1>2. IsWellFoundedOn(Less, Nat)
    BY <1>1, NatLessThanWellFounded, Zenon
  <1>3. ASSUME bad # {} PROVE FALSE
    <2>1. bad \subseteq Nat
      OBVIOUS
    <2>2. PICK i \in bad : \A j \in bad : ~ (<<j, i>> \in Less)
      <3> HIDE DEF Less, bad
      <3>1. QED
        BY <1>2, <1>3, <2>1, WFMin
    <2>3. i \in 1 .. N /\ i - 1 \in 0 .. N
      OBVIOUS
    <2>4. i - 1 \notin bad
      <3>1. <<i - 1, i>> \in Less
        BY <2>3
      <3>2. QED
        BY <2>2, <3>1
    <2>5. QED
      BY <2>3, <2>4
  <1>4. QED
    BY <1>3

\* The states f that a loop goes through in n steps.
Runs(f, n, T, base, step) ==
  /\ f \in [0 .. n -> T] /\ f[0] = base
  /\ \A i \in 1 .. n : f[i] = step[i][f[i - 1]]

StepsOf(N, T) == [1 .. N -> [T -> T]]

LEMMA LoopRuns ==
  ASSUME NEW N \in Nat, NEW T, NEW base \in T, NEW step \in StepsOf(N, T)
  PROVE  \E f : Runs(f, N, T, base, step)
  <1> DEFINE S == {n \in 0 .. N : \E f : Runs(f, n, T, base, step)}
  <1>1. 0 \in S
    <2> DEFINE g == [i \in 0 .. 0 |-> base]
    <2>1. Runs(g, 0, T, base, step)
      BY DEF Runs
    <2> HIDE DEF g
    <2>2. QED
      BY <2>1
  <1>2. ASSUME NEW n \in 1 .. N, n - 1 \in S PROVE n \in S
    <2>1. PICK f : Runs(f, n - 1, T, base, step)
      BY <1>2
    <2> DEFINE g == [i \in 0 .. n |-> IF i = n THEN step[n][f[n - 1]] ELSE f[i]]
    <2>2. f[n - 1] \in T
      BY <2>1 DEF Runs
    <2>3. step[n][f[n - 1]] \in T
      BY <2>2 DEF StepsOf
    <2>4. g \in [0 .. n -> T]
      BY <2>1, <2>3 DEF Runs
    <2>5. g[0] = base
      BY <2>1 DEF Runs
    <2>6. ASSUME NEW i \in 1 .. n PROVE g[i] = step[i][g[i - 1]]
      <3>1. i - 1 \in 0 .. n - 1 /\ g[i - 1] = f[i - 1]
        OBVIOUS
      <3>2. CASE i = n
        <4>1. n \in 0 .. n
          OBVIOUS
        <4>2. g[n] = step[n][f[n - 1]]
          BY <4>1
        <4> HIDE DEF g
        <4>3. QED
          BY <3>1, <3>2, <4>2
      <3>3. CASE i # n
        <4>1. i \in 1 .. n - 1
          BY <3>3
        <4>2. g[i] = f[i] /\ f[i] = step[i][f[i - 1]]
          BY <2>1, <4>1 DEF Runs
        <4>3. QED
          BY <3>1, <4>2
      <3>4. QED
        BY <3>2, <3>3
    <2> HIDE DEF g
    <2>7. Runs(g, n, T, base, step)
      BY <2>4, <2>5, <2>6 DEF Runs
    <2>8. QED
      BY <2>7
  <1>3. N \in S
    <2> HIDE DEF S
    <2>1. \A i \in 0 .. N : i \in S
      BY <1>1, <1>2, OneByOne
    <2>2. QED
      BY <2>1
  <1>4. QED
    BY <1>3

-----------------------------------------------------------------------------
(* Sums, as the folds of the books add them up                             *)

One(s) == CHOOSE x \in s : TRUE

AddOn(f, g, s) == IF s = {} THEN 0 ELSE f[One(s)] + g[s \ {One(s)}]

\* g adds up f over each subset of S.
Adds(g, f, S) == g = [s \in SUBSET S |-> AddOn(f, g, s)]

LEMMA OneIsIn == ASSUME NEW s, s # {} PROVE One(s) \in s
  BY DEF One

\* The parts of a finite set have sizes, one less where an element is gone.
LEMMA PartsAreFinite ==
  ASSUME NEW S, IsFiniteSet(S), NEW s \in SUBSET S
  PROVE  /\ IsFiniteSet(s) /\ Cardinality(s) \in Nat /\ Cardinality(s) <= Cardinality(S)
         /\ Cardinality(s) = 0 <=> s = {}
         /\ \A x \in s : s \ {x} \in SUBSET S /\ Cardinality(s \ {x}) = Cardinality(s) - 1
  <1>1. IsFiniteSet(s) /\ Cardinality(s) \in Nat /\ Cardinality(s) <= Cardinality(S)
    BY FS_Subset, FS_CardinalityType
  <1>2. Cardinality(s) = 0 <=> s = {}
    BY <1>1, FS_EmptySet
  <1>3. \A x \in s : Cardinality(s \ {x}) = Cardinality(s) - 1
    BY <1>1, FS_RemoveElement
  <1>4. QED
    BY <1>1, <1>2, <1>3

LEMMA AddsExists ==
  ASSUME NEW S, IsFiniteSet(S), NEW f \in [S -> Int]
  PROVE  \E g : Adds(g, f, S) /\ g \in [SUBSET S -> Int]
  <1> DEFINE T == [SUBSET S -> Int]
             N == Cardinality(S)
             Step(g) == [s \in SUBSET S |-> AddOn(f, g, s)]
             step == [i \in 1 .. N + 1 |-> [g \in T |-> Step(g)]]
             none == [s \in SUBSET S |-> 0]
  <1>1. N \in Nat
    BY FS_CardinalityType
  <1>2. ASSUME NEW g \in T PROVE Step(g) \in T
    <2>1. ASSUME NEW s \in SUBSET S PROVE AddOn(f, g, s) \in Int
      <3>1. CASE s = {}
        BY <3>1 DEF AddOn
      <3>2. CASE s # {}
        <4>1. One(s) \in S /\ s \ {One(s)} \in SUBSET S
          BY <3>2, OneIsIn
        <4>2. f[One(s)] \in Int /\ g[s \ {One(s)}] \in Int
          BY <4>1
        <4>3. QED
          BY <3>2, <4>2 DEF AddOn
      <3>3. QED
        BY <3>1, <3>2
    <2>2. QED
      BY <2>1
  <1> HIDE DEF Step
  <1>3. step \in StepsOf(N + 1, T)
    <2>1. \A i \in 1 .. N + 1 : step[i] \in [T -> T]
      <3>1. \A i \in 1 .. N + 1 : step[i] = [g \in T |-> Step(g)]
        OBVIOUS
      <3> HIDE DEF T, step
      <3>2. QED
        BY <1>2, <3>1
    <2>2. step = [i \in 1 .. N + 1 |-> step[i]]
      OBVIOUS
    <2> HIDE DEF T, step
    <2>3. QED
      BY <2>1, <2>2 DEF StepsOf
  <1>a. none \in T /\ N + 1 \in Nat
    BY <1>1
  <1>4. PICK h : Runs(h, N + 1, T, none, step)
    <2> HIDE DEF T, none, step
    <2>1. QED
      BY <1>3, <1>a, LoopRuns
  <1>5. h \in [0 .. N + 1 -> T]
    <2> HIDE DEF T, none, step
    <2>1. QED
      BY <1>4 DEF Runs
  <1>6. ASSUME NEW i \in 1 .. N + 1 PROVE h[i] = Step(h[i - 1]) /\ h[i - 1] \in T
    <2>1. i - 1 \in 0 .. N + 1
      BY <1>1
    <2>2. h[i - 1] \in T
      <3> HIDE DEF T
      <3>1. QED
        BY <1>5, <2>1
    <2>3. h[i] = step[i][h[i - 1]]
      <3> HIDE DEF T, none, step
      <3>1. QED
        BY <1>4 DEF Runs
    <2> HIDE DEF T
    <2>4. QED
      BY <2>2, <2>3
  <1>7. ASSUME NEW i \in 1 .. N + 1, NEW s \in SUBSET S PROVE h[i][s] = AddOn(f, h[i - 1], s)
    BY <1>6 DEF Step
  <1> DEFINE Q == {i \in 0 .. N : \A s \in SUBSET S : Cardinality(s) <= i => h[i + 1][s] = h[i][s]}
  <1>8. 0 \in Q
    <2>1. ASSUME NEW s \in SUBSET S, Cardinality(s) <= 0 PROVE h[1][s] = h[0][s]
      <3>1. s = {}
        BY <2>1, PartsAreFinite
      <3>2. h[1][s] = 0
        <4>1. 1 \in 1 .. N + 1
          BY <1>1
        <4>2. h[1][s] = AddOn(f, h[1 - 1], s)
          <5> HIDE DEF T, N, none, step
          <5>1. QED
            BY <1>7, <4>1
        <4>3. QED
          BY <3>1, <4>2 DEF AddOn
      <3>3. h[0] = none
        <4> HIDE DEF T, none, step
        <4>1. QED
          BY <1>4 DEF Runs
      <3>4. QED
        BY <3>2, <3>3
    <2>2. QED
      BY <1>1, <2>1
  <1>9. ASSUME NEW i \in 1 .. N, i - 1 \in Q PROVE i \in Q
    <2>1. ASSUME NEW s \in SUBSET S, Cardinality(s) <= i PROVE h[i + 1][s] = h[i][s]
      <3>1. i \in 1 .. N + 1 /\ i + 1 \in 1 .. N + 1 /\ i + 1 - 1 = i
        BY <1>1
      <3>2. h[i + 1][s] = AddOn(f, h[i], s) /\ h[i][s] = AddOn(f, h[i - 1], s)
        BY <1>7, <3>1
      <3>3. CASE s = {}
        BY <3>2, <3>3 DEF AddOn
      <3>4. CASE s # {}
        <4>1. PICK r \in SUBSET S : r = s \ {One(s)}
          OBVIOUS
        <4>2. Cardinality(r) <= i - 1
          BY <2>1, <3>4, <4>1, OneIsIn, PartsAreFinite
        <4>3. h[i][r] = h[i - 1][r]
          <5>1. \A p \in SUBSET S : Cardinality(p) <= i - 1 => h[i - 1 + 1][p] = h[i - 1][p]
            BY <1>9
          <5>2. i - 1 + 1 = i
            BY <3>1
          <5>3. QED
            BY <4>2, <5>1, <5>2
        <4>4. QED
          BY <3>2, <3>4, <4>1, <4>3 DEF AddOn
      <3>5. QED
        BY <3>3, <3>4
    <2>2. QED
      BY <2>1
  <1>10. \A i \in 0 .. N : i \in Q
    <2> HIDE DEF Q, N
    <2>1. QED
      BY <1>1, <1>8, <1>9, OneByOne
  <1>11. PICK g : g = h[N]
    OBVIOUS
  <1>12. g \in T
    <2>1. N \in 0 .. N + 1
      BY <1>1
    <2> HIDE DEF T, N
    <2>2. QED
      BY <1>5, <1>11, <2>1
  <1>13. ASSUME NEW s \in SUBSET S PROVE g[s] = AddOn(f, g, s)
    <2>1. Cardinality(s) <= N /\ N \in Q /\ N + 1 \in 1 .. N + 1 /\ N + 1 - 1 = N
      BY <1>1, <1>10, PartsAreFinite
    <2>2. h[N + 1][s] = h[N][s]
      BY <2>1
    <2>3. h[N + 1][s] = AddOn(f, h[N], s)
      BY <1>7, <2>1
    <2>4. QED
      BY <1>11, <2>2, <2>3
  <1>14. g = [s \in SUBSET S |-> AddOn(f, g, s)]
    BY <1>12, <1>13
  <1> HIDE DEF T
  <1>15. QED
    BY <1>12, <1>14 DEF Adds, T

\* What is added up over R depends on what stands there, and on nothing else.
LEMMA AddsSame ==
  ASSUME NEW S, IsFiniteSet(S), NEW f \in [S -> Int], NEW g, Adds(g, f, S),
         NEW T, IsFiniteSet(T), NEW e \in [T -> Int], NEW h, Adds(h, e, T),
         NEW R, R \subseteq S, R \subseteq T, \A x \in R : f[x] = e[x]
  PROVE  g[R] = h[R]
  <1> DEFINE N == Cardinality(R)
             Q == {i \in 0 .. N : \A r \in SUBSET R : Cardinality(r) <= i => g[r] = h[r]}
  <1>1. IsFiniteSet(R) /\ N \in Nat
    BY FS_Subset, FS_CardinalityType
  <1>2. /\ \A r \in SUBSET S : g[r] = AddOn(f, g, r)
        /\ \A r \in SUBSET T : h[r] = AddOn(e, h, r)
    BY DEF Adds
  <1>3. 0 \in Q
    <2>1. ASSUME NEW r \in SUBSET R, Cardinality(r) <= 0 PROVE g[r] = h[r]
      <3>1. r = {}
        BY <1>1, <2>1, PartsAreFinite
      <3>2. QED
        BY <1>2, <3>1 DEF AddOn
    <2>2. QED
      BY <1>1, <2>1
  <1>4. ASSUME NEW i \in 1 .. N, i - 1 \in Q PROVE i \in Q
    <2>1. ASSUME NEW r \in SUBSET R, Cardinality(r) <= i PROVE g[r] = h[r]
      <3>1. CASE r = {}
        BY <1>2, <3>1 DEF AddOn
      <3>2. CASE r # {}
        <4>1. PICK z \in r : z = One(r)
          BY <3>2, OneIsIn
        <4>2. PICK p \in SUBSET R : p = r \ {z}
          OBVIOUS
        <4>3. Cardinality(p) <= i - 1
          BY <1>1, <2>1, <4>2, PartsAreFinite
        <4>4. g[p] = h[p]
          BY <1>4, <4>3
        <4>5. g[r] = f[z] + g[p] /\ h[r] = e[z] + h[p]
          BY <1>2, <3>2, <4>1, <4>2 DEF AddOn
        <4>6. QED
          BY <4>4, <4>5
      <3>3. QED
        BY <3>1, <3>2
    <2>2. QED
      BY <2>1
  <1>5. \A i \in 0 .. N : i \in Q
    <2> HIDE DEF Q, N
    <2>1. QED
      BY <1>1, <1>3, <1>4, OneByOne
  <1>6. QED
    BY <1>1, <1>5

\* What adds up integers is an integer.
LEMMA AddsInt ==
  ASSUME NEW S, IsFiniteSet(S), NEW f \in [S -> Int], NEW g, Adds(g, f, S)
  PROVE  g \in [SUBSET S -> Int]
  <1>1. PICK h : Adds(h, f, S) /\ h \in [SUBSET S -> Int]
    BY AddsExists
  <1>2. ASSUME NEW r \in SUBSET S PROVE g[r] = h[r]
    BY <1>1, AddsSame
  <1>3. ASSUME NEW r \in SUBSET S PROVE g[r] \in Int
    BY <1>1, <1>2
  <1>4. g = [r \in SUBSET S |-> g[r]]
    BY DEF Adds
  <1>5. QED
    BY <1>3, <1>4

\* Whichever element is taken away first.
LEMMA AddsAny ==
  ASSUME NEW S, IsFiniteSet(S), NEW f \in [S -> Int], NEW g, Adds(g, f, S),
         NEW s \in SUBSET S, NEW x \in s
  PROVE  g[s] = f[x] + g[s \ {x}]
  <1> DEFINE N == Cardinality(S)
             Q == {i \in 0 .. N : \A r \in SUBSET S : \A y \in r :
                     Cardinality(r) <= i => g[r] = f[y] + g[r \ {y}]}
  <1>1. N \in Nat
    BY FS_CardinalityType
  <1>2. g \in [SUBSET S -> Int] /\ \A r \in SUBSET S : g[r] = AddOn(f, g, r)
    BY AddsInt DEF Adds
  <1>3. 0 \in Q
    <2>1. \A r \in SUBSET S : Cardinality(r) <= 0 => r = {}
      BY PartsAreFinite
    <2>2. QED
      BY <1>1, <2>1
  <1>4. ASSUME NEW i \in 1 .. N, i - 1 \in Q PROVE i \in Q
    <2>1. ASSUME NEW r \in SUBSET S, NEW y \in r, Cardinality(r) <= i
          PROVE  g[r] = f[y] + g[r \ {y}]
      <3>1. PICK z \in r : z = One(r)
        BY OneIsIn
      <3>2. g[r] = f[z] + g[r \ {z}]
        BY <1>2, <3>1 DEF AddOn
      <3>3. CASE y = z
        BY <3>2, <3>3
      <3>4. CASE y # z
        <4>1. PICK ry \in SUBSET S : ry = r \ {y}
          OBVIOUS
        <4>2. PICK rz \in SUBSET S : rz = r \ {z}
          OBVIOUS
        <4>3. PICK ryz \in SUBSET S : ryz = r \ {y, z}
          OBVIOUS
        <4>4. /\ z \in ry /\ ry \ {z} = ryz
              /\ y \in rz /\ rz \ {y} = ryz
          BY <3>4, <4>1, <4>2, <4>3
        <4>5. Cardinality(ry) <= i - 1 /\ Cardinality(rz) <= i - 1
          BY <2>1, <4>1, <4>2, PartsAreFinite
        <4>6. g[ry] = f[z] + g[ryz] /\ g[rz] = f[y] + g[ryz]
          <5>1. \A p \in SUBSET S : \A w \in p :
                  Cardinality(p) <= i - 1 => g[p] = f[w] + g[p \ {w}]
            BY <1>4
          <5>2. QED
            BY <4>4, <4>5, <5>1
        <4>7. f[y] \in Int /\ f[z] \in Int /\ g[ryz] \in Int
          BY <1>2
        <4>8. g[r] = f[z] + (f[y] + g[ryz])
          BY <3>2, <4>2, <4>6
        <4>9. QED
          BY <4>1, <4>6, <4>7, <4>8
      <3>5. QED
        BY <3>3, <3>4
    <2>2. \A r \in SUBSET S : \A y \in r : Cardinality(r) <= i => g[r] = f[y] + g[r \ {y}]
      BY <2>1
    <2>3. i \in 0 .. N
      BY <1>1
    <2> HIDE DEF N
    <2>4. QED
      BY <2>2, <2>3
  <1>5. \A i \in 0 .. N : i \in Q
    <2> HIDE DEF Q, N
    <2>1. QED
      BY <1>1, <1>3, <1>4, OneByOne
  <1>6. Cardinality(s) <= N
    BY PartsAreFinite
  <1>7. N \in Q
    <2>1. N \in 0 .. N
      BY <1>1
    <2> HIDE DEF Q, N
    <2>2. QED
      BY <1>5, <2>1
  <1>8. QED
    BY <1>6, <1>7

Total(f, S) == (CHOOSE g : Adds(g, f, S))[S]

\* One more to add up.
LEMMA TotalMore ==
  ASSUME NEW S, IsFiniteSet(S), NEW e \in [S -> Int], NEW x, x \notin S,
         NEW f \in [S \cup {x} -> Int], \A y \in S : f[y] = e[y]
  PROVE  Total(f, S \cup {x}) = f[x] + Total(e, S) /\ Total(e, S) \in Int
  <1>1. PICK T : T = S \cup {x}
    OBVIOUS
  <1>2. IsFiniteSet(T) /\ f \in [T -> Int]
    BY <1>1, FS_AddElement
  <1>3. PICK g : g = (CHOOSE z : Adds(z, f, T))
    OBVIOUS
  <1>4. PICK h : h = (CHOOSE z : Adds(z, e, S))
    OBVIOUS
  <1>5. Adds(g, f, T) /\ Adds(h, e, S)
    BY <1>2, <1>3, <1>4, AddsExists
  <1>6. g[T] = f[x] + g[T \ {x}] /\ T \ {x} = S
    <2>1. x \in T /\ T \in SUBSET T /\ T \ {x} = S
      BY <1>1
    <2>2. g[T] = f[x] + g[T \ {x}]
      BY <1>2, <1>5, <2>1, AddsAny
    <2>3. QED
      BY <2>1, <2>2
  <1>7. g[S] = h[S]
    BY <1>1, <1>2, <1>5, AddsSame
  <1>8. h[S] \in Int
    <2>1. h \in [SUBSET S -> Int] /\ S \in SUBSET S
      BY <1>5, AddsInt
    <2>2. QED
      BY <2>1
  <1>9. QED
    BY <1>1, <1>3, <1>4, <1>6, <1>7, <1>8 DEF Total

\* One of those that are added up changes.
LEMMA TotalChanged ==
  ASSUME NEW S, IsFiniteSet(S), NEW f \in [S -> Int], NEW e \in [S -> Int],
         NEW x \in S, \A y \in S \ {x} : f[y] = e[y]
  PROVE  Total(e, S) = Total(f, S) + (e[x] - f[x]) /\ Total(f, S) \in Int
  <1>1. PICK g : g = (CHOOSE z : Adds(z, f, S))
    OBVIOUS
  <1>2. PICK h : h = (CHOOSE z : Adds(z, e, S))
    OBVIOUS
  <1>3. Adds(g, f, S) /\ Adds(h, e, S)
    BY <1>1, <1>2, AddsExists
  <1>4. PICK R : R = S \ {x}
    OBVIOUS
  <1>5. g[S] = f[x] + g[R] /\ h[S] = e[x] + h[R]
    BY <1>3, <1>4, AddsAny
  <1>6. g[R] = h[R]
    BY <1>3, <1>4, AddsSame
  <1>7. g[R] \in Int /\ f[x] \in Int /\ e[x] \in Int
    <2>1. g \in [SUBSET S -> Int] /\ R \in SUBSET S
      BY <1>3, <1>4, AddsInt
    <2>2. QED
      BY <2>1
  <1>8. Total(f, S) = g[S] /\ Total(e, S) = h[S]
    BY <1>1, <1>2 DEF Total
  <1>9. QED
    BY <1>5, <1>6, <1>7, <1>8

\* The fold of the books over the map's values.
LEMMA FoldIsTotal ==
  ASSUME NEW v \in Seq(Int)
  PROVE  FoldSeq(LAMBDA a, b : a + b, 0, v) = Total(v, DOMAIN v)
  <1>1. PICK S : S = DOMAIN v
    OBVIOUS
  <1>2. FoldSeq(LAMBDA a, b : a + b, 0, v) =
          (CHOOSE g : g = [s \in SUBSET S |->
                             IF s = {} THEN 0
                             ELSE v[CHOOSE x \in s : TRUE] + g[s \ {CHOOSE x \in s : TRUE}]])[S]
    BY <1>1 DEF FoldSeq, FoldFunction, FoldFunctionOnSet, MapThenFoldSet
  <1>3. QED
    BY <1>1, <1>2 DEF Total, Adds, AddOn, One

-----------------------------------------------------------------------------
(* What a step does to the books                                           *)

\* Is op the call that t makes next, or is in?
Before(t, op) == pos[t] <= Len(prog[t]) /\ prog[t][pos[t]].op = op

\* What stands in the map for a key.
Standing(m, k) == IF MapFind(m, k) = -1 THEN 0 ELSE MapGet(m, k)

Writes(t) ==
  \E fate \in MapFates(map, reg[t]) :
    /\ map' = MapSet(map, reg[t], read[t] + 1, fate)
    /\ fate \in {"fits", "grown"} \/ {"map", "half"} \cap lost' # {}

Inserts(t) ==
  \E fate : /\ set' = SetAdd(set, reg[t], fate).set
            /\ fresh' = [fresh EXCEPT ![t] = SetAdd(set, reg[t], fate).answer]

Seeds == set' = set \/ \E k \in Values : set' = SetAdd(set, k, "added").set

Appends(t) ==
  vec' = vec \/ (fresh[t] # 0 /\ \E fate : vec' = VecPush(vec, reg[t], fate))

\* The ends of a list in each other's place.
Swapped(v) ==
  VecSet(VecSet(v, 0, VecGet(v, Len(v.slots) - 1)), Len(v.slots) - 1, VecGet(v, 0))

\* A step that leaves everything the books are kept with.
Still ==
  UNCHANGED <<prog, pos, mutex, reg, read, fresh, vec, map, set>> /\ lost \subseteq lost'

\* t goes past its call op.
Goes(t, op) ==
  /\ Before(t, op) /\ Past(t) /\ UNCHANGED prog /\ lost \subseteq lost'
  /\ \/ NoMutex
     \/ op = "lock" /\ mutex = Nobody /\ mutex' = t
     \/ op = "unlock" /\ mutex' = Nobody
     \/ op = "destroy" /\ mutex = Nobody
     \/ op \notin {"lock", "unlock", "destroy"} /\ UNCHANGED mutex
  /\ reg' = reg \/ (op = "recv" /\ \E x \in Values : reg' = [reg EXCEPT ![t] = x])
  /\ IF op = "get" THEN read' = [read EXCEPT ![t] = Standing(map, reg[t])]
     ELSE UNCHANGED read
  /\ IF op = "put" THEN Writes(t) ELSE UNCHANGED map
  /\ IF op = "add" THEN Inserts(t)
     ELSE UNCHANGED fresh /\ (UNCHANGED set \/ (op = "seed" /\ Seeds))
  /\ \/ UNCHANGED vec
     \/ op = "push" /\ Appends(t)
     \/ op = "swap" /\ vec' = Swapped(vec)

LEMMA NextGoes ==
  ASSUME TypeOK, [Next]_vars
  PROVE  Still \/ \E t \in Threads : \E op : Goes(t, op)
  <1>a. \A t \in Threads : reg[t] \in Values
    BY DEF TypeOK
  <1>1. ASSUME NEW t \in Threads, Spawn(t) PROVE Goes(t, "spawn")
    BY <1>1 DEF Spawn, At, Goes, Before, MayFail, locals, heap
  <1>2. ASSUME NEW t \in Threads, Join(t) PROVE Goes(t, "join")
    BY <1>2 DEF Join, At, Goes, Before, locals, heap
  <1>3. ASSUME NEW t \in Threads,
               Finish(t) \/ Enter(t) \/ SendWaits(t) \/ RecvWaits(t) \/ SpuriousWakeup(t)
        PROVE  Still
    BY <1>3
    DEF Finish, Enter, SendWaits, RecvWaits, SpuriousWakeup, Sleep, Still, locals, heap
  <1>4. ASSUME NEW t \in Threads, Lock(t) PROVE Goes(t, "lock")
    BY <1>4 DEF Lock, At, Goes, Before, locals, heap
  <1>5. ASSUME NEW t \in Threads, Unlock(t) PROVE Goes(t, "unlock")
    BY <1>5 DEF Unlock, At, Goes, Before, locals, heap
  <1>6. ASSUME NEW t \in Threads, Destroy(t) PROVE Still \/ Goes(t, "destroy")
    <2>1. CASE ~NoMutex /\ (mutex # Nobody \/ Users # {})
      BY <1>6, <2>1 DEF Destroy, Still, locals, heap
    <2>2. CASE NoMutex \/ ~(mutex # Nobody \/ Users # {})
      BY <1>6, <2>2 DEF Destroy, At, Goes, Before, locals, heap
    <2>3. QED
      BY <2>1, <2>2
  <1>7. ASSUME NEW t \in Threads, NoChannel(t) PROVE Goes(t, "send") \/ Goes(t, "recv")
    <2>1. reg' = reg \/ (At(t, "recv") /\ \E x \in Values : reg' = [reg EXCEPT ![t] = x])
      BY <1>7 DEF NoChannel, Values
    <2>2. CASE At(t, "recv")
      BY <1>7, <2>1, <2>2 DEF NoChannel, At, Goes, Before, heap
    <2>3. CASE ~ At(t, "recv")
      BY <1>7, <2>3 DEF NoChannel, At, Goes, Before, heap
    <2>4. QED
      BY <2>2, <2>3
  <1>8. ASSUME NEW t \in Threads, SendStores(t) PROVE Goes(t, "send")
    BY <1>8 DEF SendStores, Holds, Goes, Before, TypeOK, locals, heap
  <1>9. ASSUME NEW t \in Threads, RecvTakes(t) PROVE Goes(t, "recv")
    <2>1. buf[head] \in Values /\ reg' = [reg EXCEPT ![t] = buf[head]]
      BY <1>9 DEF RecvTakes, TypeOK
    <2>2. QED
      BY <1>9, <2>1 DEF RecvTakes, Holds, Goes, Before, TypeOK, heap
  <1>10. ASSUME NEW t \in Threads, Get(t) PROVE Still \/ Goes(t, "get")
    <2>1. CASE MapReadFaults(map, reg[t])
      BY <1>10, <2>1 DEF Get, Fault, Still
    <2>2. CASE ~ MapReadFaults(map, reg[t])
      BY <1>10, <2>2 DEF Get, At, Goes, Before, Standing
    <2>3. QED
      BY <2>1, <2>2
  <1>11. ASSUME NEW t \in Threads, Put(t) PROVE Still \/ Goes(t, "put")
    <2>1. CASE MapWriteFaults(map, reg[t])
      BY <1>11, <2>1 DEF Put, Fault, Still
    <2>2. CASE ~ MapWriteFaults(map, reg[t])
      <3>1. PICK fate \in MapFates(map, reg[t]) :
              /\ map' = MapSet(map, reg[t], read[t] + 1, fate)
              /\ IF fate \in {"fits", "grown"} THEN UNCHANGED <<fails, lost>>
                 ELSE MayFail(IF fate = "failed" THEN "map" ELSE "half")
        BY <1>11, <2>2 DEF Put
      <3>2. lost \subseteq lost' /\ Writes(t)
        BY <3>1 DEF Writes, MayFail
      <3>3. QED
        BY <1>11, <2>2, <3>2 DEF Put, At, Goes, Before
    <2>3. QED
      BY <2>1, <2>2
  <1>12. ASSUME NEW t \in Threads, Add(t) PROVE Goes(t, "add")
    <2>1. lost \subseteq lost' /\ Inserts(t)
      BY <1>12 DEF Add, Inserts, MayFail
    <2>2. QED
      BY <1>12, <2>1 DEF Add, At, Goes, Before
  <1>13. ASSUME NEW t \in Threads, Push(t) PROVE Goes(t, "push")
    <2>1. lost \subseteq lost' /\ Appends(t)
      BY <1>13 DEF Push, Appends, MayFail
    <2>2. QED
      BY <1>13, <2>1 DEF Push, At, Goes, Before, locals
  <1>14. ASSUME NEW t \in Threads, Seed(t) PROVE Goes(t, "seed")
    <2>1. Arg(t) \in Values
      BY <1>14, Calls DEF Seed, At, Arg, TypeOK
    <2>2. Seeds
      BY <1>14, <2>1, AddAllOfTwo DEF Seed, Seeds
    <2>3. QED
      BY <1>14, <2>2 DEF Seed, At, Goes, Before, locals
  <1>15. ASSUME NEW t \in Threads, Swap(t) PROVE Goes(t, "swap")
    BY <1>15 DEF Swap, Swapped, At, Goes, Before, locals
  <1>16. CASE UNCHANGED vars
    BY <1>16 DEF vars, Still, locals, heap
  <1>17. ASSUME NEW t \in Threads, Race(t) PROVE Still
    BY <1>17 DEF Race, Still, locals, heap
  <1>18. QED
    BY <1>1, <1>2, <1>3, <1>4, <1>5, <1>6, <1>7, <1>8, <1>9, <1>10, <1>11, <1>12,
       <1>13, <1>14, <1>15, <1>16, <1>17 DEF Next, Call

-----------------------------------------------------------------------------
(* The lock, and what was read under it                                    *)

\* Who is between its lock and its unlock holds the mutex.
Held == \A t \in Threads : Locked(prog[t], pos[t]) => mutex = t

\* Who is about to write has read what still stands there.
ReadIsFresh == \A t \in Threads : Before(t, "put") => read[t] = Standing(map, reg[t])

\* What an orderly program does before a call.
LEMMA OrderlyCalls ==
  ASSUME TypeOK, Orderly(prog), NEW t \in Threads, NEW i \in Nat \ {0}, i <= Len(prog[t])
  PROVE  /\ prog[t][i].op \in UnderLock => Locked(prog[t], i)
         /\ prog[t][i].op \in {"put", "unlock"} => Locked(prog[t], i)
         /\ prog[t][i].op = "put" => i > 1 /\ prog[t][i - 1].op = "get"
         /\ prog[t][i].op = "push" => i > 1 /\ prog[t][i - 1].op = "add"
  <1>1. i \in 1 .. Len(prog[t])
    BY ProgramsAssumption DEF TypeOK
  <1>2. QED
    BY <1>1 DEF Orderly, UnderLock

\* Past a call that is no lock, locked means that it was locked already.
LEMMA LockedBefore ==
  ASSUME NEW calls, NEW i \in Nat \ {0}, Locked(calls, i + 1), calls[i].op # "lock"
  PROVE  Locked(calls, i) /\ calls[i].op # "unlock"
  <1>1. PICK j \in 1 .. i : calls[j].op = "lock" /\ \A k \in j + 1 .. i : calls[k].op # "unlock"
    BY DEF Locked
  <1>2. j \in 1 .. i - 1 /\ i \in j + 1 .. i
    BY <1>1
  <1>3. QED
    BY <1>1, <1>2 DEF Locked

\* Only t is at another call than before, the next one.
LEMMA WhoGoes ==
  ASSUME TypeOK, NEW t \in Threads, NEW op, Goes(t, op)
  PROVE  /\ pos'[t] = pos[t] + 1 /\ pos[t] \in Nat \ {0} /\ prog' = prog
         /\ pos[t] <= Len(prog[t]) /\ prog[t][pos[t]].op = op
         /\ \A u \in Threads \ {t} : pos'[u] = pos[u]
         /\ \A u \in Threads \ {t} : \A o : Before(u, o)' <=> Before(u, o)
         /\ \A u \in Threads \ {t} : reg'[u] = reg[u]
         /\ reg' \in [Threads -> Values]
  BY DEF TypeOK, Goes, Before, Past

LEMMA NextHeld ==
  ASSUME TypeOK, Orderly(prog), ~NoMutex, Held, NEW t \in Threads, NEW op, Goes(t, op)
  PROVE  Held'
  <1>1. /\ pos'[t] = pos[t] + 1 /\ pos[t] \in Nat \ {0} /\ prog' = prog
        /\ pos[t] <= Len(prog[t]) /\ prog[t][pos[t]].op = op
        /\ \A u \in Threads \ {t} : pos'[u] = pos[u]
    BY WhoGoes
  <1>2. \A u \in Threads : Locked(prog[u], pos[u]) => mutex = u
    BY DEF Held
  <1>3. SUFFICES ASSUME NEW u \in Threads, Locked(prog[u], pos'[u]) PROVE mutex' = u
    BY <1>1 DEF Held
  <1>4. u # t => Locked(prog[u], pos[u]) /\ mutex = u
    BY <1>1, <1>2, <1>3
  <1>5. u = t /\ op # "lock" => Locked(prog[t], pos[t]) /\ mutex = t /\ op # "unlock"
    BY <1>1, <1>2, <1>3, LockedBefore
  <1>6. op = "unlock" => mutex = t
    BY <1>1, <1>2, OrderlyCalls
  <1>7. QED
    BY <1>4, <1>5, <1>6, MainAssumption DEF Goes

\* Two threads that hold the mutex do not meet in a container.
LEMMA NoneMeet ==
  ASSUME TypeOK, Orderly(prog), Held, NEW t \in Threads, Race(t) PROVE FALSE
  <1>1. ASSUME NEW u \in Threads, NEW c \in {"map", "set", "vec"}, Uses(u, c) PROVE mutex = u
    <2>1. /\ pos[u] \in Nat \ {0} /\ pos[u] <= Len(prog[u])
          /\ prog[u][pos[u]].op \in UnderLock
      BY <1>1 DEF Uses, At, UnderLock, TypeOK
    <2>2. QED
      BY <2>1, OrderlyCalls DEF Held
  <1>2. QED
    BY <1>1 DEF Race

\* Nothing but a meeting of two calls is a race.
LEMMA OnlyRaces ==
  ASSUME [Next]_vars, fault' = "race", fault # "race"
  PROVE  \E t \in Threads : Race(t)
  <1>1. ASSUME NEW t \in Threads, Call(t) \/ SpuriousWakeup(t) PROVE FALSE
    <2>1. fault' = fault \/ fault' \in {"map", "mutex"}
      BY <1>1
      DEF Call, Spawn, Join, Finish, Lock, Unlock, Destroy, NoChannel, Enter, SendWaits,
          SendStores, RecvWaits, RecvTakes, Sleep, Get, Put, Fault, Add, Push, Seed, Swap,
          SpuriousWakeup
    <2>2. QED
      BY <2>1
  <1>2. QED
    BY <1>1 DEF Next, vars

\* A write is followed by another call than a write.
LEMMA PutFollowsGet ==
  ASSUME TypeOK, Orderly(prog), NEW t \in Threads, NEW op, Goes(t, op), Before(t, "put")'
  PROVE  op = "get"
  <1>1. /\ pos'[t] = pos[t] + 1 /\ pos[t] \in Nat \ {0} /\ prog' = prog
        /\ pos[t] <= Len(prog[t]) /\ prog[t][pos[t]].op = op
    BY WhoGoes
  <1>2. pos[t] + 1 <= Len(prog[t]) /\ prog[t][pos[t] + 1].op = "put"
    BY <1>1 DEF Before
  <1>3. prog[t][pos[t] + 1 - 1].op = "get"
    BY <1>1, <1>2, OrderlyCalls
  <1>4. QED
    BY <1>1, <1>3

LEMMA NextReadIsFresh ==
  ASSUME TypeOK, Orderly(prog), Held, ReadIsFresh, read \in [Threads -> Int],
         NEW t \in Threads, NEW op, Goes(t, op)
  PROVE  ReadIsFresh'
  <1>1. /\ pos[t] \in Nat \ {0} /\ pos[t] <= Len(prog[t]) /\ prog[t][pos[t]].op = op
        /\ \A u \in Threads \ {t} : reg'[u] = reg[u]
        /\ \A u \in Threads \ {t} : Before(u, "put")' <=> Before(u, "put")
    BY WhoGoes
  <1>2. SUFFICES ASSUME NEW u \in Threads, Before(u, "put")'
                 PROVE  read'[u] = Standing(map', reg'[u])
    BY DEF ReadIsFresh
  <1>3. CASE u = t
    <2>1. op = "get"
      BY <1>2, <1>3, PutFollowsGet
    <2>2. UNCHANGED map /\ UNCHANGED reg /\ read' = [read EXCEPT ![t] = Standing(map, reg[t])]
      BY <2>1 DEF Goes
    <2>3. QED
      BY <1>3, <2>2
  <1>4. CASE u # t
    <2>1. Before(u, "put")
      BY <1>1, <1>2, <1>4
    <2>2. read[u] = Standing(map, reg[u])
      BY <2>1 DEF ReadIsFresh
    <2>3. op # "put"
      <3>1. SUFFICES ASSUME op = "put" PROVE FALSE
        OBVIOUS
      <3>2. Locked(prog[t], pos[t])
        BY <1>1, <3>1, OrderlyCalls
      <3>3. pos[u] \in Nat \ {0} /\ pos[u] <= Len(prog[u]) /\ prog[u][pos[u]].op = "put"
        BY <2>1 DEF Before, TypeOK
      <3>4. Locked(prog[u], pos[u])
        BY <3>3, OrderlyCalls
      <3>5. QED
        BY <1>4, <3>2, <3>4 DEF Held
    <2>4. UNCHANGED map /\ read'[u] = read[u] /\ reg'[u] = reg[u]
      BY <1>1, <1>4, <2>3 DEF Goes
    <2>5. QED
      BY <2>2, <2>4
  <1>5. QED
    BY <1>3, <1>4

-----------------------------------------------------------------------------
(* The list of the new keys                                                *)

VecRecord == [slots : Seq(Values), cap : Nat]

\* What t is about to list.
Lists(t) == Before(t, "push") /\ fresh[t] # 0

ListedOnce ==
  /\ IsInjective(vec.slots) /\ ToSet(vec.slots) \subseteq SetMembers(set)
  /\ \A t \in Threads : Lists(t) => reg[t] \in SetMembers(set) \ ToSet(vec.slots)
  /\ \A t, u \in Threads : Lists(t) /\ Lists(u) /\ t # u => reg[t] # reg[u]

\* The list and the answers as types.
ListTypes == vec \in VecRecord /\ fresh \in [Threads -> Int]

LEMMA PushAppends ==
  ASSUME NEW v \in VecRecord, NEW x \in Values, NEW fate
  PROVE  /\ VecPush(v, x, fate) \in VecRecord
         /\ VecPush(v, x, fate).slots \in {v.slots, Append(v.slots, x)}
  <1>1. Append(v.slots, x) \in Seq(Values)
    BY AppendProperties DEF VecRecord
  <1>2. Doubled(v.cap) \in Nat
    BY SizesAssumption DEF VecRecord, Doubled
  <1>3. VecPush(v, x, fate) \in
          { [v EXCEPT !.slots = Append(@, x)],
            [slots |-> Append(v.slots, x), cap |-> Doubled(v.cap)], v }
    BY DEF VecPush
  <1>4. v.slots \in Seq(Values) /\ v.cap \in Nat
        /\ [v EXCEPT !.slots = Append(@, x)] = [slots |-> Append(v.slots, x), cap |-> v.cap]
    BY DEF VecRecord
  <1>5. QED
    BY <1>1, <1>2, <1>3, <1>4 DEF VecRecord

LEMMA SetInPlace ==
  ASSUME NEW v \in VecRecord, NEW i \in 1 .. Len(v.slots), NEW x \in Values,
         NEW k \in Int, k = i - 1, NEW w, w = VecSet(v, k, x)
  PROVE  /\ w \in VecRecord /\ Len(w.slots) = Len(v.slots)
         /\ \A j \in 1 .. Len(v.slots) : w.slots[j] = IF j = i THEN x ELSE v.slots[j]
  <1>1. PICK s \in Seq(Values) : s = v.slots
    BY DEF VecRecord
  <1>2. PICK a : a = [s EXCEPT ![i] = x]
    OBVIOUS
  <1>3. Len(s) \in Nat /\ i \in 1 .. Len(s)
    BY <1>1, LenProperties
  <1>4. a \in Seq(Values) /\ Len(a) = Len(s)
    BY <1>2, <1>3, ExceptSeq
  <1>5. \A j \in 1 .. Len(s) : a[j] = IF j = i THEN x ELSE s[j]
    BY <1>2, <1>3
  <1>6. InRange(v, k) /\ k + 1 = i
    BY <1>1, <1>3 DEF InRange
  <1>7. w = [v EXCEPT !.slots[i] = x]
    BY <1>6 DEF VecSet
  <1>8. w = [slots |-> a, cap |-> v.cap] /\ v.cap \in Nat
    BY <1>1, <1>2, <1>7 DEF VecRecord
  <1>9. QED
    BY <1>1, <1>4, <1>5, <1>8 DEF VecRecord

\* The ends of a list in each other's place are the same list in another order.
LEMMA SwapKeeps ==
  ASSUME NEW v \in VecRecord
  PROVE  /\ Swapped(v) \in VecRecord
         /\ ToSet(Swapped(v).slots) = ToSet(v.slots)
         /\ IsInjective(v.slots) => IsInjective(Swapped(v).slots)
  <1>1. PICK s \in Seq(Values) : s = v.slots
    BY DEF VecRecord
  <1>2. PICK n \in Nat : n = Len(s)
    BY <1>1, LenProperties
  <1>3. CASE n = 0
    <2>1. Swapped(v) = v
      BY <1>1, <1>2, <1>3 DEF Swapped, VecSet, VecGet, InRange
    <2>2. QED
      BY <2>1
  <1>4. CASE n > 0
    <2>1. /\ VecGet(v, n - 1) = s[n] /\ VecGet(v, 0) = s[1]
          /\ s[n] \in Values /\ s[1] \in Values
      BY <1>1, <1>2, <1>4, ElementOfSeq DEF VecGet, InRange
    <2>2. PICK u : u = VecSet(v, 0, s[n])
      OBVIOUS
    <2>3. PICK w : w = VecSet(u, n - 1, s[1])
      OBVIOUS
    <2>4. Swapped(v) = w
      BY <1>1, <1>2, <2>1, <2>2, <2>3 DEF Swapped
    <2>5. /\ u \in VecRecord /\ Len(u.slots) = n
          /\ \A j \in 1 .. n : u.slots[j] = IF j = 1 THEN s[n] ELSE s[j]
      <3>1. 1 \in 1 .. Len(v.slots) /\ 0 = 1 - 1
        BY <1>1, <1>2, <1>4
      <3>2. QED
        BY <1>1, <1>2, <2>1, <2>2, <3>1, SetInPlace
    <2>6. /\ w \in VecRecord /\ Len(w.slots) = n
          /\ \A j \in 1 .. n : w.slots[j] = IF j = n THEN s[1] ELSE u.slots[j]
      <3>1. n \in 1 .. Len(u.slots)
        BY <1>4, <2>5
      <3>2. PICK k \in Int : k = n - 1
        OBVIOUS
      <3>3. PICK x \in Values : x = s[1]
        BY <2>1
      <3>4. w = VecSet(u, k, x)
        BY <2>3, <3>2, <3>3
      <3>5. /\ w \in VecRecord /\ Len(w.slots) = Len(u.slots)
            /\ \A j \in 1 .. Len(u.slots) : w.slots[j] = IF j = n THEN x ELSE u.slots[j]
        <4>1. u \in VecRecord
          BY <2>5
        <4>2. QED
          BY <3>1, <3>2, <3>4, <4>1, SetInPlace
      <3>6. QED
        BY <2>5, <3>3, <3>5
    <2>7. PICK b \in Seq(Values) : b = w.slots /\ Len(b) = n
      BY <2>6 DEF VecRecord
    <2>8. /\ DOMAIN b = 1 .. n /\ DOMAIN s = 1 .. n
          /\ \A i \in 1 .. n : b[i] = IF i = n THEN s[1] ELSE IF i = 1 THEN s[n] ELSE s[i]
      BY <1>1, <1>2, <1>4, <2>5, <2>6, <2>7
    <2>9. ToSet(b) = ToSet(s)
      <3>1. ASSUME NEW i \in 1 .. n PROVE \E j \in 1 .. n : b[i] = s[j]
        BY <1>4, <2>8
      <3>2. ASSUME NEW i \in 1 .. n PROVE \E j \in 1 .. n : s[i] = b[j]
        <4>1. CASE i = 1
          BY <1>4, <2>8, <4>1
        <4>2. CASE i = n /\ i # 1
          BY <1>4, <2>8, <4>2
        <4>3. CASE i # 1 /\ i # n
          BY <2>8, <4>3
        <4>4. QED
          BY <4>1, <4>2, <4>3
      <3>3. ToSet(b) = {b[i] : i \in 1 .. n} /\ ToSet(s) = {s[i] : i \in 1 .. n}
        BY <2>8 DEF ToSet
      <3>4. QED
        BY <3>1, <3>2, <3>3
    <2>10. ASSUME IsInjective(s) PROVE IsInjective(b)
      <3>1. \A i, j \in 1 .. n : s[i] = s[j] => i = j
        BY <2>8, <2>10 DEF IsInjective
      <3>2. \A i, j \in 1 .. n : b[i] = b[j] => i = j
        BY <1>4, <2>8, <3>1
      <3>3. QED
        BY <2>8, <3>2 DEF IsInjective
    <2>11. QED
      BY <1>1, <2>4, <2>6, <2>7, <2>9, <2>10
  <1>5. QED
    BY <1>3, <1>4

\* What is not in a list makes it one longer, and no key is in it twice.
LEMMA ListGrows ==
  ASSUME NEW s \in Seq(Values), IsInjective(s), NEW x \in Values, x \notin ToSet(s),
         NEW b, b = Append(s, x)
  PROVE  ToSet(b) = ToSet(s) \cup {x} /\ IsInjective(b)
  <1>1. PICK n : n = Len(s) /\ n \in Nat
    BY LenProperties
  <1>2. /\ b \in Seq(Values) /\ Len(b) = n + 1 /\ b[n + 1] = x
        /\ \A i \in 1 .. n : b[i] = s[i]
    BY <1>1, AppendProperties
  <1>3. DOMAIN b = 1 .. n + 1 /\ DOMAIN s = 1 .. n
    BY <1>1, <1>2
  <1>4. ToSet(b) = {b[i] : i \in 1 .. n + 1} /\ ToSet(s) = {s[i] : i \in 1 .. n}
    BY <1>3 DEF ToSet
  <1>5. ToSet(b) = ToSet(s) \cup {x}
    <2>1. ASSUME NEW i \in 1 .. n + 1 PROVE i \in 1 .. n \/ i = n + 1
      BY <1>1
    <2>2. \A y \in ToSet(b) : y \in ToSet(s) \cup {x}
      BY <1>2, <1>4, <2>1
    <2>3. \A y \in ToSet(s) \cup {x} : y \in ToSet(b)
      <3>1. n + 1 \in 1 .. n + 1 /\ \A i \in 1 .. n : i \in 1 .. n + 1
        BY <1>1
      <3>2. QED
        BY <1>2, <1>4, <3>1
    <2>4. QED
      BY <2>2, <2>3
  <1>6. IsInjective(b)
    <2>1. \A i \in 1 .. n : s[i] # x
      BY <1>4
    <2>2. \A i, j \in 1 .. n : s[i] = s[j] => i = j
      BY <1>3 DEF IsInjective
    <2>3. ASSUME NEW i \in 1 .. n + 1, NEW j \in 1 .. n + 1, b[i] = b[j] PROVE i = j
      <3>1. (i \in 1 .. n \/ i = n + 1) /\ (j \in 1 .. n \/ j = n + 1)
        BY <1>1
      <3>2. QED
        BY <1>2, <2>1, <2>2, <2>3, <3>1
    <2>4. QED
      BY <1>3, <2>3 DEF IsInjective
  <1>7. QED
    BY <1>5, <1>6

\* A push is followed by another call than a push.
LEMMA PushFollowsAdd ==
  ASSUME TypeOK, Orderly(prog), NEW t \in Threads, NEW op, Goes(t, op), Before(t, "push")'
  PROVE  op = "add"
  <1>1. /\ pos'[t] = pos[t] + 1 /\ pos[t] \in Nat \ {0} /\ prog' = prog
        /\ pos[t] <= Len(prog[t]) /\ prog[t][pos[t]].op = op
    BY WhoGoes
  <1>2. pos[t] + 1 <= Len(prog[t]) /\ prog[t][pos[t] + 1].op = "push"
    BY <1>1 DEF Before
  <1>3. prog[t][pos[t] + 1 - 1].op = "add"
    BY <1>1, <1>2, OrderlyCalls
  <1>4. QED
    BY <1>1, <1>3

LEMMA NextListTypes ==
  ASSUME TypeOK, ListTypes, NEW t \in Threads, NEW op, Goes(t, op)
  PROVE  ListTypes'
  <1>1. vec \in VecRecord /\ fresh \in [Threads -> Int] /\ reg[t] \in Values
    BY DEF ListTypes, TypeOK
  <1>2. vec' \in VecRecord
    BY <1>1, PushAppends, SwapKeeps DEF Goes, Appends
  <1>3. fresh' \in [Threads -> Int]
    <2>1. \A fate : SetAdd(set, reg[t], fate).answer \in Int
      BY DEF SetAdd
    <2>2. QED
      BY <1>1, <2>1 DEF Goes, Inserts
  <1>4. QED
    BY <1>2, <1>3 DEF ListTypes

\* Whoever adds is told once that the key is new, and lists it once.
LEMMA NextListedOnce ==
  ASSUME TypeOK, Orderly(prog), ListTypes, ListedOnce, ProperSet(set),
         NEW t \in Threads, NEW op, Goes(t, op)
  PROVE  ListedOnce'
  <1>a. /\ vec \in VecRecord /\ fresh \in [Threads -> Int] /\ reg[t] \in Values
        /\ vec.slots \in Seq(Values)
    BY DEF ListTypes, TypeOK, VecRecord
  <1>b. /\ IsInjective(vec.slots) /\ ToSet(vec.slots) \subseteq SetMembers(set)
        /\ \A u \in Threads : Lists(u) => reg[u] \in SetMembers(set) \ ToSet(vec.slots)
        /\ \A u, v \in Threads : Lists(u) /\ Lists(v) /\ u # v => reg[u] # reg[v]
    BY DEF ListedOnce
  <1>c. /\ \A u \in Threads \ {t} : Before(u, "push")' <=> Before(u, "push")
        /\ \A u \in Threads \ {t} : reg'[u] = reg[u]
        /\ Before(t, op)
    BY WhoGoes DEF Goes
  <1>1. SetMembers(set) \subseteq SetMembers(set')
    BY <1>a, AddKeepsProper DEF Goes, Inserts, Seeds
  <1>2. ASSUME NEW u \in Threads \ {t} PROVE fresh'[u] = fresh[u]
    BY <1>a DEF Goes, Inserts
  <1>3. \A u \in Threads \ {t} : Lists(u)' <=> Lists(u)
    BY <1>c, <1>2 DEF Lists
  <1>4. CASE op = "push"
    <2>1. ~ Lists(t)'
      BY <1>4, PushFollowsAdd DEF Lists
    <2>2. UNCHANGED <<reg, fresh, set>> /\ Appends(t)
      BY <1>4 DEF Goes, Appends
    <2>3. CASE vec'.slots = vec.slots
      BY <1>b, <1>3, <2>1, <2>2, <2>3 DEF ListedOnce
    <2>4. CASE vec'.slots # vec.slots
      <3>1. fresh[t] # 0 /\ vec'.slots = Append(vec.slots, reg[t])
        BY <1>a, <2>2, <2>4, PushAppends DEF Appends
      <3>2. Lists(t)
        BY <1>c, <1>4, <3>1 DEF Lists
      <3>3. reg[t] \in SetMembers(set) \ ToSet(vec.slots)
        BY <1>b, <3>2
      <3>4. ToSet(vec'.slots) = ToSet(vec.slots) \cup {reg[t]} /\ IsInjective(vec'.slots)
        <4>1. PICK s \in Seq(Values) : s = vec.slots
          BY <1>a
        <4>2. PICK x \in Values : x = reg[t]
          BY <1>a
        <4>3. IsInjective(s) /\ x \notin ToSet(s)
          BY <1>b, <3>3, <4>1, <4>2
        <4>4. PICK b : b = Append(s, x)
          OBVIOUS
        <4>5. ToSet(b) = ToSet(s) \cup {x} /\ IsInjective(b)
          BY <4>3, <4>4, ListGrows
        <4>6. QED
          BY <3>1, <4>1, <4>2, <4>4, <4>5
      <3>5. \A u \in Threads \ {t} : Lists(u) => reg[u] # reg[t]
        BY <1>b, <3>2
      <3>6. QED
        BY <1>b, <1>3, <2>1, <2>2, <3>3, <3>4, <3>5 DEF ListedOnce
    <2>5. QED
      BY <2>3, <2>4
  <1>5. CASE op # "push"
    <2>1. vec' = vec \/ vec' = Swapped(vec)
      BY <1>5 DEF Goes
    <2>2. ToSet(vec'.slots) = ToSet(vec.slots) /\ IsInjective(vec'.slots)
      BY <1>a, <1>b, <2>1, SwapKeeps
    <2>3. ASSUME Lists(t)' PROVE reg'[t] \in SetMembers(set') \ SetMembers(set)
      <3>1. op = "add"
        BY <2>3, PushFollowsAdd DEF Lists
      <3>2. UNCHANGED reg /\ Inserts(t)
        BY <3>1 DEF Goes
      <3>3. PICK fate : /\ set' = SetAdd(set, reg[t], fate).set
                        /\ fresh' = [fresh EXCEPT ![t] = SetAdd(set, reg[t], fate).answer]
        BY <3>2 DEF Inserts
      <3>4. SetAdd(set, reg[t], fate).answer # 0
        BY <1>a, <2>3, <3>3 DEF Lists
      <3>5. QED
        BY <1>a, <3>2, <3>3, <3>4, AddKeepsProper
    <2>4. \A u \in Threads : Lists(u)' => reg'[u] \in SetMembers(set') \ ToSet(vec'.slots)
      BY <1>b, <1>c, <1>1, <1>3, <2>2, <2>3
    <2>5. \A u, v \in Threads : Lists(u)' /\ Lists(v)' /\ u # v => reg'[u] # reg'[v]
      BY <1>b, <1>c, <1>3, <2>3
    <2>6. ToSet(vec'.slots) \subseteq SetMembers(set')
      BY <1>b, <1>1, <2>2
    <2>7. QED
      BY <2>2, <2>4, <2>5, <2>6 DEF ListedOnce
  <1>6. QED
    BY <1>4, <1>5

-----------------------------------------------------------------------------
(* The sum of the map's values                                             *)

LEMMA TotalNone ==
  ASSUME NEW S, IsFiniteSet(S), NEW f \in [S -> Int], \A x \in S : f[x] = 0
  PROVE  Total(f, S) = 0
  <1>1. PICK g : g = [s \in SUBSET S |-> 0]
    OBVIOUS
  <1>2. ASSUME NEW s \in SUBSET S PROVE g[s] = AddOn(f, g, s)
    <2>1. CASE s = {}
      BY <1>1, <2>1 DEF AddOn
    <2>2. CASE s # {}
      <3>1. One(s) \in S /\ s \ {One(s)} \in SUBSET S
        BY <2>2, OneIsIn
      <3>2. QED
        BY <1>1, <2>2, <3>1 DEF AddOn
    <2>3. QED
      BY <2>1, <2>2
  <1>3. Adds(g, f, S)
    <2>1. g = [s \in SUBSET S |-> g[s]]
      BY <1>1
    <2>2. QED
      BY <1>2, <2>1 DEF Adds
  <1>4. PICK h : h = (CHOOSE z : Adds(z, f, S))
    OBVIOUS
  <1>5. Adds(h, f, S)
    BY <1>3, <1>4
  <1>6. h[S] = g[S]
    BY <1>3, <1>5, AddsSame
  <1>7. QED
    BY <1>1, <1>4, <1>6 DEF Total

Done == [t \in Threads |-> Updates(t)]

LEMMA SumIsTotal == MapThenSumSet(Updates, Threads) = Total(Done, Threads)
  <1>1. MapThenSumSet(Updates, Threads) =
          (CHOOSE g : g = [s \in SUBSET Threads |->
                             IF s = {} THEN 0
                             ELSE Updates(CHOOSE x \in s : TRUE)
                                    + g[s \ {CHOOSE x \in s : TRUE}]])[Threads]
    BY DEF MapThenSumSet, MapThenFoldSet
  <1>2. ASSUME NEW g, NEW s \in SUBSET Threads
        PROVE  AddOn(Done, g, s) = IF s = {} THEN 0
                                   ELSE Updates(CHOOSE x \in s : TRUE)
                                          + g[s \ {CHOOSE x \in s : TRUE}]
    <2>1. CASE s = {}
      BY <2>1 DEF AddOn
    <2>2. CASE s # {}
      <3>1. One(s) \in Threads
        BY <2>2, OneIsIn
      <3>2. Done[One(s)] = Updates(One(s))
        BY <3>1 DEF Done
      <3>3. QED
        BY <2>2, <3>2 DEF AddOn, One
    <2>3. QED
      BY <2>1, <2>2
  <1>3. \A g : Adds(g, Done, Threads) <=>
                 g = [s \in SUBSET Threads |->
                        IF s = {} THEN 0
                        ELSE Updates(CHOOSE x \in s : TRUE)
                               + g[s \ {CHOOSE x \in s : TRUE}]]
    BY <1>2, Zenon DEF Adds
  <1>4. QED
    BY <1>1, <1>3, Zenon DEF Total

\* The writes among the first n of some calls.
Written(calls, n) == {i \in 1 .. n : calls[i].op = "put"}

LEMMA WrittenFinite ==
  ASSUME NEW calls, NEW n \in Nat
  PROVE  IsFiniteSet(Written(calls, n)) /\ Cardinality(Written(calls, n)) \in Nat
  <1>1. IsFiniteSet(1 .. n)
    BY FS_Interval
  <1>2. QED
    BY <1>1, FS_Subset, FS_CardinalityType DEF Written

LEMMA DoneType ==
  ASSUME TypeOK
  PROVE  /\ Done \in [Threads -> Int]
         /\ \A t \in Threads : Done[t] = Cardinality(Written(prog[t], pos[t] - 1))
  <1>1. ASSUME NEW t \in Threads PROVE Updates(t) \in Int
    <2>1. PICK n \in Nat : n = pos[t] - 1
      BY DEF TypeOK
    <2>2. Updates(t) = Cardinality(Written(prog[t], n))
      BY <2>1 DEF Updates, Written
    <2>3. QED
      BY <2>2, WrittenFinite
  <1>2. QED
    BY <1>1 DEF Done, Updates, Written

\* A write counts when its thread has gone past it.
LEMMA NextDone ==
  ASSUME TypeOK, NEW t \in Threads, NEW op, Goes(t, op), NEW e, e = Done, NEW f, f = Done'
  PROVE  /\ f \in [Threads -> Int]
         /\ f[t] - e[t] = IF op = "put" THEN 1 ELSE 0
         /\ \A u \in Threads \ {t} : f[u] = e[u]
  <1>1. /\ pos'[t] = pos[t] + 1 /\ pos[t] \in Nat \ {0} /\ prog' = prog
        /\ prog[t][pos[t]].op = op
        /\ \A u \in Threads \ {t} : pos'[u] = pos[u]
    BY WhoGoes
  <1>2. e \in [Threads -> Int]
    BY DoneType
  <1>3. f = [u \in Threads |-> f[u]]
    BY DEF Done
  <1>4. \A u \in Threads \ {t} : f[u] = e[u]
    BY <1>1 DEF Done, Updates
  <1>5. PICK n \in Nat : n = pos[t] - 1
    BY <1>1
  <1>6. PICK w : w = Written(prog[t], n)
    OBVIOUS
  <1>7. PICK x : x = Written(prog[t], n + 1)
    OBVIOUS
  <1>8. e[t] = Cardinality(w) /\ f[t] = Cardinality(x)
    <2>1. pos'[t] - 1 = n + 1
      BY <1>1, <1>5
    <2>2. f[t] = Cardinality({i \in 1 .. n + 1 : prog[t][i].op = "put"})
      BY <1>1, <2>1 DEF Done, Updates
    <2>3. e[t] = Cardinality({i \in 1 .. n : prog[t][i].op = "put"})
      BY <1>5 DEF Done, Updates
    <2>4. QED
      BY <1>6, <1>7, <2>2, <2>3 DEF Written
  <1>9. x = w \cup (IF op = "put" THEN {n + 1} ELSE {}) /\ n + 1 \notin w
    <2>1. prog[t][n + 1].op = op
      BY <1>1, <1>5
    <2>2. \A i : i \in 1 .. n + 1 <=> i \in 1 .. n \/ i = n + 1
      OBVIOUS
    <2>3. n + 1 \notin 1 .. n
      OBVIOUS
    <2>4. QED
      BY <1>6, <1>7, <2>1, <2>2, <2>3 DEF Written
  <1>10. IsFiniteSet(w) /\ Cardinality(w) \in Nat
    BY <1>6, WrittenFinite
  <1>11. Cardinality(x) = Cardinality(w) + (IF op = "put" THEN 1 ELSE 0)
    <2>1. CASE op = "put"
      <3>1. x = w \cup {n + 1}
        BY <1>9, <2>1
      <3>2. Cardinality(x) = Cardinality(w) + 1
        BY <1>9, <1>10, <3>1, FS_AddElement
      <3>3. QED
        BY <2>1, <3>2
    <2>2. CASE op # "put"
      BY <1>9, <1>10, <2>2
    <2>3. QED
      BY <2>1, <2>2
  <1>12. f[t] \in Int /\ f[t] - e[t] = IF op = "put" THEN 1 ELSE 0
    BY <1>8, <1>10, <1>11
  <1>13. f \in [Threads -> Int]
    BY <1>2, <1>3, <1>4, <1>12
  <1>14. QED
    BY <1>4, <1>12, <1>13

\* A key counted once more makes the sum of the counts one more.
LEMMA CountOnce ==
  ASSUME NEW m, OneEntry(m), NEW k \in Values, NEW fate \in MapFates(m, k) \cap {"fits", "grown"},
         NEW n, n = MapSet(m, k, Standing(m, k) + 1, fate)
  PROVE  Total(n.vals, DOMAIN n.vals) = Total(m.vals, DOMAIN m.vals) + 1
  <1>0. /\ m.keys \in Seq(Values) /\ m.vals \in Seq(Int)
        /\ m = [keys |-> m.keys, vals |-> m.vals, cap |-> m.cap, dangling |-> m.dangling]
    BY DEF OneEntry, MapRecord
  <1>1. PICK e \in Seq(Int) : e = m.vals
    BY <1>0
  <1>2. PICK l \in Nat : l = Len(e)
    BY LenProperties
  <1>3. DOMAIN e = 1 .. l /\ IsFiniteSet(1 .. l) /\ e \in [1 .. l -> Int]
    BY <1>2, FS_Interval
  <1>4. CASE MapFind(m, k) # -1
    <2>1. PICK i \in 1 .. l : i = MapFind(m, k) + 1 /\ MapFind(m, k) \in Nat
      BY <1>1, <1>2, <1>4, FindInRange
    <2>2. Standing(m, k) = e[i] /\ e[i] \in Int
      BY <1>1, <1>3, <1>4, <2>1 DEF Standing, MapGet
    <2>3. n = [m EXCEPT !.vals[i] = e[i] + 1]
      BY <2>1, <2>2 DEF MapSet
    <2>4. PICK f : f = [e EXCEPT ![i] = e[i] + 1]
      OBVIOUS
    <2>5. n.vals = f
      BY <1>0, <1>1, <2>3, <2>4
    <2>6. f \in [1 .. l -> Int] /\ f[i] = e[i] + 1 /\ \A j \in 1 .. l \ {i} : f[j] = e[j]
      BY <1>3, <2>2, <2>4
    <2>7. Total(f, 1 .. l) = Total(e, 1 .. l) + (f[i] - e[i]) /\ Total(e, 1 .. l) \in Int
      BY <1>3, <2>6, TotalChanged
    <2>8. f[i] - e[i] = 1
      BY <2>2, <2>6
    <2>9. DOMAIN n.vals = 1 .. l
      BY <2>5, <2>6
    <2>10. QED
      BY <1>1, <1>3, <2>5, <2>7, <2>8, <2>9
  <1>5. CASE MapFind(m, k) = -1
    <2>1. Standing(m, k) + 1 = 1
      BY <1>5 DEF Standing
    <2>2. n = [m EXCEPT !.keys = Append(@, k), !.vals = Append(@, Standing(m, k) + 1),
                        !.cap = IF fate = "grown" THEN Doubled(@) ELSE @]
      BY <1>5 DEF MapSet
    <2>3. PICK f : f = Append(e, 1)
      OBVIOUS
    <2>4. n.vals = f
      BY <1>0, <1>1, <2>1, <2>2, <2>3
    <2>5. /\ f \in Seq(Int) /\ Len(f) = l + 1 /\ f[l + 1] = 1
          /\ \A j \in 1 .. l : f[j] = e[j]
      BY <1>2, <2>3, AppendProperties
    <2>6. DOMAIN f = 1 .. l + 1 /\ 1 .. l + 1 = 1 .. l \cup {l + 1} /\ l + 1 \notin 1 .. l
      BY <2>5
    <2>7. f \in [1 .. l \cup {l + 1} -> Int]
      BY <2>5, <2>6
    <2>8. Total(f, 1 .. l \cup {l + 1}) = f[l + 1] + Total(e, 1 .. l) /\ Total(e, 1 .. l) \in Int
      <3>1. PICK S : S = 1 .. l
        OBVIOUS
      <3>2. PICK x : x = l + 1
        OBVIOUS
      <3>3. /\ IsFiniteSet(S) /\ e \in [S -> Int] /\ x \notin S /\ f \in [S \cup {x} -> Int]
            /\ \A y \in S : f[y] = e[y]
        BY <1>3, <2>5, <2>6, <2>7, <3>1, <3>2
      <3>4. Total(f, S \cup {x}) = f[x] + Total(e, S) /\ Total(e, S) \in Int
        BY <3>3, TotalMore
      <3>5. QED
        BY <3>1, <3>2, <3>4
    <2>9. Total(f, DOMAIN f) = 1 + Total(e, 1 .. l)
      BY <2>5, <2>6, <2>8
    <2>10. QED
      BY <1>1, <1>3, <2>4, <2>8, <2>9
  <1>6. QED
    BY <1>4, <1>5

Balanced ==
  {"map", "half"} \cap lost = {} =>
    Total(map.vals, DOMAIN map.vals) = Total(Done, Threads)

LEMMA NextBalanced ==
  ASSUME TypeOK, MapInv, ReadIsFresh, Balanced, NEW t \in Threads, NEW op, Goes(t, op)
  PROVE  Balanced'
  <1>1. SUFFICES ASSUME {"map", "half"} \cap lost' = {}
                 PROVE  Total(map'.vals, DOMAIN map'.vals) = Total(Done', Threads)
    BY DEF Balanced
  <1>2. lost \subseteq lost' /\ Before(t, op)
    BY DEF Goes
  <1>3. Total(map.vals, DOMAIN map.vals) = Total(Done, Threads)
    BY <1>1, <1>2 DEF Balanced
  <1>4. PICK a : a = Done
    OBVIOUS
  <1>5. PICK b : b = Done'
    OBVIOUS
  <1>6. /\ a \in [Threads -> Int] /\ b \in [Threads -> Int]
        /\ b[t] - a[t] = IF op = "put" THEN 1 ELSE 0
        /\ \A u \in Threads \ {t} : b[u] = a[u]
    BY <1>4, <1>5, DoneType, NextDone
  <1>7. Total(b, Threads) = Total(a, Threads) + (b[t] - a[t]) /\ Total(a, Threads) \in Int
    BY <1>6, ThreadsAssumption, TotalChanged
  <1>8. CASE op = "put"
    <2>1. Writes(t)
      BY <1>8 DEF Goes
    <2>2. PICK fate \in MapFates(map, reg[t]) :
            /\ map' = MapSet(map, reg[t], read[t] + 1, fate)
            /\ fate \in {"fits", "grown"}
      BY <1>1, <2>1 DEF Writes
    <2>3. read[t] = Standing(map, reg[t])
      BY <1>2, <1>8 DEF ReadIsFresh
    <2>4. OneEntry(map) /\ reg[t] \in Values
      BY DEF MapInv, MapSound, TypeOK
    <2>5. map' = MapSet(map, reg[t], Standing(map, reg[t]) + 1, fate)
      BY <2>2, <2>3
    <2>6. Total(map'.vals, DOMAIN map'.vals) = Total(map.vals, DOMAIN map.vals) + 1
      BY <2>2, <2>4, <2>5, CountOnce
    <2>7. QED
      BY <1>3, <1>4, <1>5, <1>6, <1>7, <1>8, <2>6
  <1>9. CASE op # "put"
    <2>1. map' = map
      BY <1>9 DEF Goes
    <2>2. Total(b, Threads) = Total(a, Threads)
      BY <1>6, <1>7, <1>9
    <2>3. QED
      BY <1>3, <1>4, <1>5, <2>1, <2>2
  <1>10. QED
    BY <1>8, <1>9

-----------------------------------------------------------------------------
(* The books together                                                      *)

\* What keeps the books of an orderly program.
KeepsBooks == Held /\ ReadIsFresh /\ ListedOnce /\ Balanced

BooksInv ==
  /\ TypeOK /\ MapInv /\ ProperSet(set) /\ ListTypes
  /\ Orderly(prog) /\ ~NoMutex => KeepsBooks /\ fault # "race"

LEMMA InitBooks == Init => ListTypes /\ (Orderly(prog) => KeepsBooks)
  <1> SUFFICES ASSUME Init PROVE ListTypes /\ (Orderly(prog) => KeepsBooks)
    OBVIOUS
  <1>a. TypeOK
    BY InitTypeOK
  <1>1. /\ \A t \in Threads : pos[t] = 1 /\ fresh[t] = 0
        /\ vec = [slots |-> <<>>, cap |-> 0] /\ map.vals = <<>>
        /\ fresh \in [Threads -> Int]
    BY DEF Init, VecNew, MapNew
  <1>2. ListTypes
    BY <1>1 DEF ListTypes, VecRecord
  <1>3. ListedOnce
    BY <1>1 DEF ListedOnce, Lists, IsInjective, ToSet
  <1>4. Held
    BY <1>1 DEF Held, Locked
  <1>5. ASSUME Orderly(prog) PROVE ReadIsFresh
    <2>1. SUFFICES ASSUME NEW t \in Threads, Before(t, "put") PROVE FALSE
      BY DEF ReadIsFresh
    <2>2. 1 \in Nat \ {0} /\ 1 <= Len(prog[t]) /\ prog[t][1].op = "put"
      BY <1>1, <2>1 DEF Before
    <2>3. QED
      BY <1>a, <1>5, <2>2, OrderlyCalls
  <1>6. Balanced
    <2>1. Total(map.vals, DOMAIN map.vals) = 0
      <3>1. PICK S : S = {}
        OBVIOUS
      <3>2. PICK f : f = map.vals
        OBVIOUS
      <3>3. DOMAIN f = S /\ f \in [S -> Int]
        BY <1>1, <3>1, <3>2
      <3>4. Total(f, S) = 0
        BY <3>1, <3>3, TotalNone, FS_EmptySet
      <3>5. QED
        BY <3>2, <3>3, <3>4
    <2>2. Total(Done, Threads) = 0
      <3>1. PICK e : e = Done
        OBVIOUS
      <3>2. ASSUME NEW t \in Threads PROVE e[t] = 0
        <4>1. e[t] = Cardinality(Written(prog[t], 1 - 1))
          BY <1>a, <1>1, <3>1, DoneType
        <4>2. Written(prog[t], 1 - 1) = {}
          BY DEF Written
        <4>3. QED
          BY <4>1, <4>2, FS_EmptySet
      <3>3. e \in [Threads -> Int]
        BY <1>a, <3>1, DoneType
      <3>4. Total(e, Threads) = 0
        BY <3>2, <3>3, TotalNone, ThreadsAssumption
      <3>5. QED
        BY <3>1, <3>4
    <2>3. QED
      BY <2>1, <2>2 DEF Balanced
  <1>7. QED
    BY <1>2, <1>3, <1>4, <1>5, <1>6 DEF KeepsBooks

LEMMA NextBooks == BooksInv /\ [Next]_vars => BooksInv'
  <1> SUFFICES ASSUME BooksInv, [Next]_vars PROVE BooksInv'
    OBVIOUS
  <1>1. /\ TypeOK /\ MapInv /\ ProperSet(set) /\ ListTypes
        /\ Orderly(prog) /\ ~NoMutex =>
             Held /\ ReadIsFresh /\ ListedOnce /\ Balanced /\ fault # "race"
        /\ read \in [Threads -> Int]
    BY DEF BooksInv, KeepsBooks, MapInv
  <1>2. TypeOK' /\ MapInv' /\ ProperSet(set)'
    BY <1>1, NextTypeOK, NextMapInv, NextSet
  <1>3. ListTypes' /\ (Orderly(prog)' /\ ~NoMutex' => KeepsBooks')
    <2>1. CASE Still
      <3>1. UNCHANGED <<prog, pos, mutex, reg, read, fresh, vec, map, set>>
        BY <2>1 DEF Still
      <3>2. ListTypes' /\ (Orderly(prog)' <=> Orderly(prog))
        BY <1>1, <3>1 DEF ListTypes
      <3>3. Held <=> Held'
        BY <3>1 DEF Held
      <3>4. ReadIsFresh <=> ReadIsFresh'
        BY <3>1 DEF ReadIsFresh, Before
      <3>5. ListedOnce <=> ListedOnce'
        BY <3>1 DEF ListedOnce, Lists, Before
      <3>6. Done' = Done
        BY <3>1 DEF Done, Updates
      <3>7. Balanced => Balanced'
        BY <2>1, <3>1, <3>6 DEF Balanced, Still
      <3>8. ~NoMutex' => ~NoMutex
        BY <2>1 DEF NoMutex, Still
      <3>9. QED
        BY <1>1, <3>2, <3>3, <3>4, <3>5, <3>7, <3>8 DEF KeepsBooks
    <2>2. CASE \E t \in Threads : \E op : Goes(t, op)
      <3>1. PICK t \in Threads : \E op : Goes(t, op)
        BY <2>2
      <3>2. PICK op : Goes(t, op)
        BY <3>1
      <3>3. ListTypes'
        BY <1>1, <3>2, NextListTypes
      <3>4. prog' = prog /\ lost \subseteq lost'
        BY <3>2 DEF Goes
      <3>5. ASSUME Orderly(prog)', ~NoMutex' PROVE KeepsBooks'
        <4>1. Orderly(prog) /\ ~NoMutex
          BY <3>4, <3>5 DEF NoMutex
        <4>2. Held' /\ ReadIsFresh'
          BY <1>1, <3>2, <4>1, NextHeld, NextReadIsFresh
        <4>3. ListedOnce'
          BY <1>1, <3>2, <4>1, NextListedOnce
        <4>4. Balanced'
          BY <1>1, <3>2, <4>1, NextBalanced
        <4>5. QED
          BY <4>2, <4>3, <4>4 DEF KeepsBooks
      <3>6. QED
        BY <3>3, <3>5
    <2>3. QED
      BY <1>1, <2>1, <2>2, NextGoes
  <1>4. Orderly(prog)' /\ ~NoMutex' => fault' # "race"
    <2>1. prog' = prog /\ lost \subseteq lost'
      BY <1>1, NextGoes DEF Still, Goes
    <2>2. SUFFICES ASSUME Orderly(prog), ~NoMutex PROVE fault' # "race"
      BY <2>1 DEF NoMutex
    <2>3. QED
      BY <1>1, <2>2, NoneMeet, OnlyRaces
  <1>5. QED
    BY <1>2, <1>3, <1>4 DEF BooksInv

\* What keeps the books says what they promise.
LEMMA BooksHold == ASSUME BooksInv PROVE Books
  <1>1. /\ OneEntry(map) /\ map.vals \in Seq(Int)
        /\ map.dangling # {} \/ fault = "map" => "half" \in lost
    BY DEF BooksInv, MapInv, MapSound, OneEntry, MapRecord
  <1>2. IsInjective(map.keys) /\ Len(map.keys) = Len(map.vals)
    BY <1>1 DEF OneEntry
  <1>3. PICK n : Chained(set, n)
    BY DEF BooksInv, ProperSet
  <1>4. set.count = Cardinality(SetMembers(set)) /\ \A k \in SetMembers(set) : SetHas(set, k)
    BY <1>3, ChainedFacts DEF Chained
  <1>5. ASSUME Orderly(prog), ~NoMutex, lost \cap {"map", "half"} = {}
        PROVE  FoldSeq(LAMBDA a, b : a + b, 0, map.vals) = MapThenSumSet(Updates, Threads)
    <2>1. {"map", "half"} \cap lost = {}
      BY <1>5
    <2>2. Total(map.vals, DOMAIN map.vals) = Total(Done, Threads)
      BY <1>5, <2>1 DEF BooksInv, KeepsBooks, Balanced
    <2>3. FoldSeq(LAMBDA a, b : a + b, 0, map.vals) = Total(map.vals, DOMAIN map.vals)
      BY <1>1, FoldIsTotal
    <2>4. QED
      BY <2>2, <2>3, SumIsTotal
  <1>6. ASSUME Orderly(prog), ~NoMutex
        PROVE  IsInjective(vec.slots) /\ ToSet(vec.slots) \subseteq SetMembers(set)
    BY <1>6 DEF BooksInv, KeepsBooks, ListedOnce
  <1>7. Orderly(prog) /\ ~NoMutex => fault # "race"
    BY DEF BooksInv
  <1>8. QED
    BY <1>1, <1>2, <1>4, <1>5, <1>6, <1>7 DEF Books

(* Under every orderly program that has its mutex, for any number of       *)
(* threads and keys and whatever fails to grow, no two calls meet in a     *)
(* container, the map's counts add up to the updates made, the list names  *)
(* each key of the set at most once, the map has one entry per key and the *)
(* set finds its keys. (buraaq_mutex_lock, buraaq_map_set_int, map_upsert, *)
(* buraaq_set_add, buraaq_vec_push_int)                                    *)
THEOREM BooksKept == Spec => []Books
  <1>1. Init => BooksInv
    BY InitTypeOK, InitMapInv, InitSet, InitBooks DEF BooksInv, Init
  <1>2. BooksInv => Books
    BY BooksHold
  <1>3. QED
    BY <1>1, <1>2, NextBooks, PTL DEF Spec
=============================================================================
