--------------------------- MODULE Channel_proofs ---------------------------
(***************************************************************************)
(* Proofs about Channel, for every finite set of threads, every set of     *)
(* payloads and every capacity.                                            *)
(***************************************************************************)
EXTENDS Channel, FiniteSetTheorems, SequenceTheorems, TLAPS

LEMMA CapPositive == Cap \in Nat \ {0}
  BY CapacityAssumption DEF Cap

\* Stepping a ring index stays in the ring.
LEMMA SlotInRing == ASSUME NEW i \in 0 .. Cap - 1 PROVE Slot(i) \in 0 .. Cap - 1
  BY CapPositive DEF Slot

\* What a call record can be, and how the empty one differs from the rest.
LEMMA CallRecords ==
  /\ NoCall \notin Calls
  /\ NoCall.op = "none"
  /\ \A c \in Calls : c.op \in {"send", "recv", "close"}
  /\ \A c \in Calls : c.op = "send" => c.msg \in Messages
  BY DEF NoCall, Calls

\* The initial state has its types.
LEMMA InitTypeOK == Init => TypeOK
  <1> SUFFICES ASSUME Init PROVE TypeOK
    OBVIOUS
  <1>1. Types
    <2>1. /\ buf \in [0 .. Cap - 1 -> Messages \cup {NoMsg}]
          /\ head \in 0 .. Cap - 1 /\ tail \in 0 .. Cap - 1 /\ count \in 0 .. Cap
      BY CapPositive DEF Init
    <2>2. ret \in [Threads -> [code : {0, -1}, msg : Messages \cup {NoMsg}]]
      BY DEF Init, NoRet
    <2>3. QED
      BY <2>1, <2>2 DEF Init, Types
  <1>2. CallShape
    BY DEF Init, CallShape
  <1>3. QED
    BY <1>1, <1>2 DEF TypeOK

\* Returning from a call keeps the types of its variables.
LEMMA ReturnTypes ==
  ASSUME Types, NEW t \in Threads, NEW code \in {0, -1},
         NEW msg \in Messages \cup {NoMsg}, Return(t, code, msg)
  PROVE  /\ call' \in [Threads -> Calls \cup {NoCall}]
         /\ ret' \in [Threads -> [code : {0, -1}, msg : Messages \cup {NoMsg}]]
         /\ call'[t] = NoCall
         /\ \A u \in Threads \ {t} : call'[u] = call[u]
  BY DEF Types, Return

\* A signal leaves its sender idle, and changes another thread's state only
\* by turning a sleeper of the other side ready.
LEMMA SignalTypes ==
  ASSUME Types, NEW t \in Threads, NEW op, Signal(t, op),
         pc[t] = "ready"
  PROVE  /\ pc' \in [Threads -> {"idle", "ready", "asleep"}]
         /\ pc'[t] = "idle"
         /\ \A u \in Threads \ {t} :
              pc'[u] = pc[u] \/ (pc[u] = "asleep" /\ pc'[u] = "ready")
  BY DEF Types, Signal, In

\* Every step keeps the types: one step of the proof per action.
LEMMA NextTypeOK == TypeOK /\ [Next]_vars => TypeOK'
  <1> SUFFICES ASSUME TypeOK, [Next]_vars PROVE TypeOK'
    OBVIOUS
  <1>a. Types /\ CallShape
    BY DEF TypeOK
  <1>1. ASSUME NEW t \in Threads, Invoke(t) PROVE TypeOK'
    <2>1. Types'
      BY <1>a, <1>1 DEF Invoke, Types, ring, NoRet
    <2>2. CallShape'
      BY <1>a, <1>1, CallRecords DEF Invoke, Types, CallShape
    <2>3. QED
      BY <2>1, <2>2 DEF TypeOK
  <1>2. ASSUME NEW t \in Threads, SendWaits(t) \/ RecvWaits(t) PROVE TypeOK'
    <2>1. Types'
      BY <1>a, <1>2 DEF SendWaits, RecvWaits, Sleep, Types, ring
    <2>2. CallShape'
      BY <1>a, <1>2, CallRecords DEF SendWaits, RecvWaits, Sleep, Types, CallShape
    <2>3. QED
      BY <2>1, <2>2 DEF TypeOK
  <1>3. ASSUME NEW t \in Threads, SendOnClosed(t) \/ RecvOnClosed(t) PROVE TypeOK'
    <2>0. Return(t, -1, NoMsg) /\ pc' = [pc EXCEPT ![t] = "idle"]
      BY <1>3 DEF SendOnClosed, RecvOnClosed
    <2>1. Types'
      BY <1>a, <1>3, <2>0, ReturnTypes DEF SendOnClosed, RecvOnClosed, Types, ring
    <2>2. CallShape'
      BY <1>a, <2>0, ReturnTypes DEF Types, CallShape
    <2>3. QED
      BY <2>1, <2>2 DEF TypeOK
  <1>4. ASSUME NEW t \in Threads, SendStores(t) PROVE TypeOK'
    <2>0. Return(t, 0, NoMsg) /\ Signal(t, "recv") /\ pc[t] = "ready"
      BY <1>4 DEF SendStores
    <2>1. tail' \in 0 .. Cap - 1 /\ head' \in 0 .. Cap - 1 /\ count' \in 0 .. Cap
      BY <1>a, <1>4, CapPositive, SlotInRing DEF SendStores, Full, Types
    <2>2. call[t].msg \in Messages
      BY <1>a, <1>4, CallRecords DEF SendStores, Types
    <2>3. buf' \in [0 .. Cap - 1 -> Messages \cup {NoMsg}]
      BY <1>a, <1>4, <2>2 DEF SendStores, Types
    <2>4. Types'
      BY <1>a, <1>4, <2>0, <2>1, <2>3, ReturnTypes, SignalTypes DEF SendStores, Types
    <2>5. CallShape'
      BY <1>a, <2>0, ReturnTypes, SignalTypes DEF CallShape
    <2>6. QED
      BY <2>4, <2>5 DEF TypeOK
  <1>5. ASSUME NEW t \in Threads, RecvTakes(t) PROVE TypeOK'
    <2>0. Return(t, 0, buf[head]) /\ Signal(t, "send") /\ pc[t] = "ready"
          /\ buf[head] \in Messages \cup {NoMsg}
      BY <1>a, <1>5 DEF RecvTakes, Types
    <2>1. tail' \in 0 .. Cap - 1 /\ head' \in 0 .. Cap - 1 /\ count' \in 0 .. Cap
      BY <1>a, <1>5, CapPositive, SlotInRing DEF RecvTakes, Types
    <2>2. Types'
      BY <1>a, <1>5, <2>0, <2>1, ReturnTypes, SignalTypes DEF RecvTakes, Types
    <2>3. CallShape'
      BY <1>a, <2>0, ReturnTypes, SignalTypes DEF CallShape
    <2>4. QED
      BY <2>2, <2>3 DEF TypeOK
  <1>6. ASSUME NEW t \in Threads, Close(t) PROVE TypeOK'
    <2>1. Types'
      BY <1>a, <1>6 DEF Close, AfterBroadcast, Types, ring
    <2>2. CallShape'
      BY <1>a, <1>6 DEF Close, AfterBroadcast, Types, CallShape
    <2>3. QED
      BY <2>1, <2>2 DEF TypeOK
  <1>7. ASSUME NEW t \in Threads, SpuriousWakeup(t) PROVE TypeOK'
    <2>1. Types'
      BY <1>a, <1>7 DEF SpuriousWakeup, Types, ring
    <2>2. CallShape'
      BY <1>a, <1>7 DEF SpuriousWakeup, Types, CallShape
    <2>3. QED
      BY <2>1, <2>2 DEF TypeOK
  <1>8. CASE Free
    BY <1>a, <1>8 DEF Free, Types, CallShape, TypeOK, ring
  <1>9. CASE UNCHANGED vars
    BY <1>a, <1>9 DEF vars, Types, CallShape, TypeOK, ring
  <1>10. QED
    BY <1>1, <1>2, <1>3, <1>4, <1>5, <1>6, <1>7, <1>8, <1>9 DEF Next, Step

(* The types hold in every reachable state, for every capacity and every   *)
(* number of threads (buraaq_channel_bounded, _send, _recv, _close, _free).*)
THEOREM TypeCorrect == Spec => []TypeOK
  BY InitTypeOK, NextTypeOK, PTL DEF Spec

-----------------------------------------------------------------------------
(* No wakeup is lost *)

\* The threads in a given state of a given call are finitely many.
LEMMA InFinite ==
  ASSUME NEW op, NEW state
  PROVE  IsFiniteSet(In(op, state)) /\ Cardinality(In(op, state)) \in Nat
  BY ThreadsAssumption, FS_Subset, FS_CardinalityType DEF In

\* The same for the next state, where In(op, state)' is what counts.
LEMMA InFinitePrime ==
  ASSUME NEW op, NEW state
  PROVE  IsFiniteSet(In(op, state)') /\ Cardinality(In(op, state)') \in Nat
  BY ThreadsAssumption, FS_Subset, FS_CardinalityType DEF In

\* A thread that completes a call op by signalling the other side leaves its
\* own side's ready set, and adds a thread to the other side's if one sleeps.
LEMMA SignalCounts ==
  ASSUME TypeOK, NEW t \in Threads, NEW op \in {"send", "recv"},
         NEW other \in {"send", "recv"}, op # other,
         pc[t] = "ready", call[t].op = op,
         Signal(t, other), call' = [call EXCEPT ![t] = NoCall]
  PROVE  /\ In(op, "asleep")' = In(op, "asleep")
         /\ Cardinality(In(op, "ready")') = Cardinality(In(op, "ready")) - 1
         /\ \/ In(other, "asleep")' = {}
            \/ /\ In(other, "asleep") # {}
               /\ Cardinality(In(other, "ready")')
                    = Cardinality(In(other, "ready")) + 1
  <1> USE CallRecords DEF TypeOK, Types, CallShape
  <1>1. In(op, "asleep")' = In(op, "asleep")
    BY DEF Signal, In
  <1>2. Cardinality(In(op, "ready")') = Cardinality(In(op, "ready")) - 1
    <2>1. In(op, "ready")' = In(op, "ready") \ {t} /\ t \in In(op, "ready")
      BY DEF Signal, In
    <2>2. QED
      BY <2>1, InFinite, FS_RemoveElement
  <1>3. CASE In(other, "asleep") = {}
    <2>1. In(other, "asleep")' = {}
      BY <1>3 DEF Signal, In
    <2>2. QED
      BY <1>1, <1>2, <2>1
  <1>4. CASE In(other, "asleep") # {}
    <2>1. PICK u \in In(other, "asleep") :
            pc' = [pc EXCEPT ![t] = "idle", ![u] = "ready"]
      BY <1>4 DEF Signal
    <2>2. u # t /\ u \in Threads /\ u \notin In(other, "ready")
      BY DEF In
    <2>3. In(other, "ready")' = In(other, "ready") \cup {u}
      BY <2>1, <2>2 DEF In
    <2>4. QED
      BY <1>1, <1>2, <1>4, <2>2, <2>3, InFinite, FS_AddElement
  <1>5. QED
    BY <1>3, <1>4

\* Steps that take nothing from a ready set and add nothing to a sleeping one.
LEMMA GrowingReady ==
  ASSUME NEW op, In(op, "ready") \subseteq In(op, "ready")'
  PROVE  Cardinality(In(op, "ready")) <= Cardinality(In(op, "ready")')
  BY InFinitePrime, FS_Subset

LEMMA InitNoLostWakeup == Init => NoLostWakeup
  BY DEF Init, NoLostWakeup, In

\* Every step keeps the counts of messages and free slots covered.
LEMMA NextNoLostWakeup ==
  TypeOK /\ NoLostWakeup /\ [Next]_vars => NoLostWakeup'
  <1> SUFFICES ASSUME TypeOK, NoLostWakeup, [Next]_vars PROVE NoLostWakeup'
    OBVIOUS
  <1> USE CapPositive, CallRecords DEF TypeOK, Types, CallShape
  <1>1. ASSUME NEW t \in Threads, Invoke(t) PROVE NoLostWakeup'
    <2>1. ASSUME NEW op \in {"send", "recv"}
          PROVE  /\ In(op, "asleep")' = In(op, "asleep")
                 /\ In(op, "ready") \subseteq In(op, "ready")'
      BY <1>1 DEF Invoke, In
    <2>2. count' = count /\ closed' = closed
          /\ \A u \in Threads : pc'[u] = "asleep" => pc[u] = "asleep"
      BY <1>1 DEF Invoke, ring
    <2>3. \A op \in {"send", "recv"} :
            Cardinality(In(op, "ready")) <= Cardinality(In(op, "ready")')
      BY <2>1, GrowingReady
    <2>4. QED
      BY <2>1, <2>2, <2>3, InFinite, InFinitePrime DEF NoLostWakeup
  <1>2. ASSUME NEW t \in Threads, SendWaits(t) PROVE NoLostWakeup'
    <2>1. In("recv", "asleep")' = In("recv", "asleep")
          /\ In("recv", "ready")' = In("recv", "ready")
      BY <1>2 DEF SendWaits, Sleep, In
    <2>2. count' = count /\ count = Cap /\ closed' = FALSE
      BY <1>2 DEF SendWaits, Sleep, Full, ring
    <2>3. QED
      BY <2>1, <2>2, InFinitePrime DEF NoLostWakeup
  <1>3. ASSUME NEW t \in Threads, RecvWaits(t) PROVE NoLostWakeup'
    <2>1. In("send", "asleep")' = In("send", "asleep")
          /\ In("send", "ready")' = In("send", "ready")
      BY <1>3 DEF RecvWaits, Sleep, In
    <2>2. count' = count /\ count = 0 /\ closed' = FALSE
      BY <1>3 DEF RecvWaits, Sleep, ring
    <2>3. QED
      BY <2>1, <2>2, InFinitePrime DEF NoLostWakeup
  <1>4. ASSUME NEW t \in Threads, SendOnClosed(t) \/ RecvOnClosed(t) \/ Close(t)
        PROVE  NoLostWakeup'
    <2>1. \A u \in Threads : pc'[u] # "asleep"
      BY <1>4 DEF SendOnClosed, RecvOnClosed, Close, AfterBroadcast, NoLostWakeup
    <2>2. QED
      BY <2>1 DEF NoLostWakeup, In
  <1>5. ASSUME NEW t \in Threads, SendStores(t) PROVE NoLostWakeup'
    <2>1. pc[t] = "ready" /\ call[t].op = "send" /\ Signal(t, "recv")
          /\ call' = [call EXCEPT ![t] = NoCall] /\ count' = count + 1
          /\ closed' = FALSE
      BY <1>5 DEF SendStores, Return
    <2>2. /\ In("send", "asleep")' = In("send", "asleep")
          /\ Cardinality(In("send", "ready")') = Cardinality(In("send", "ready")) - 1
          /\ \/ In("recv", "asleep")' = {}
             \/ /\ In("recv", "asleep") # {}
                /\ Cardinality(In("recv", "ready")')
                     = Cardinality(In("recv", "ready")) + 1
      BY <2>1, SignalCounts
    <2>3. Cardinality(In("send", "ready")) \in Nat /\ Cardinality(In("recv", "ready")) \in Nat
      BY InFinite
    <2>4. QED
      BY <2>1, <2>2, <2>3 DEF NoLostWakeup
  <1>6. ASSUME NEW t \in Threads, RecvTakes(t) PROVE NoLostWakeup'
    <2>1. pc[t] = "ready" /\ call[t].op = "recv" /\ Signal(t, "send")
          /\ call' = [call EXCEPT ![t] = NoCall] /\ count' = count - 1
          /\ closed' = closed
      BY <1>6 DEF RecvTakes, Return
    <2>2. closed => \A u \in Threads : pc'[u] # "asleep"
      BY <2>1, SignalTypes DEF NoLostWakeup
    <2>3. /\ In("recv", "asleep")' = In("recv", "asleep")
          /\ Cardinality(In("recv", "ready")') = Cardinality(In("recv", "ready")) - 1
          /\ \/ In("send", "asleep")' = {}
             \/ /\ In("send", "asleep") # {}
                /\ Cardinality(In("send", "ready")')
                     = Cardinality(In("send", "ready")) + 1
      BY <2>1, SignalCounts
    <2>4. Cardinality(In("send", "ready")) \in Nat /\ Cardinality(In("recv", "ready")) \in Nat
      BY InFinite
    <2>5. QED
      BY <2>1, <2>2, <2>3, <2>4 DEF NoLostWakeup
  <1>7. ASSUME NEW t \in Threads, SpuriousWakeup(t) PROVE NoLostWakeup'
    <2>1. ASSUME NEW op \in {"send", "recv"}
          PROVE  /\ In(op, "asleep")' \subseteq In(op, "asleep")
                 /\ In(op, "ready") \subseteq In(op, "ready")'
      BY <1>7 DEF SpuriousWakeup, In
    <2>2. count' = count /\ closed' = closed
          /\ \A u \in Threads : pc'[u] = "asleep" => pc[u] = "asleep"
      BY <1>7 DEF SpuriousWakeup, ring
    <2>3. \A op \in {"send", "recv"} :
            Cardinality(In(op, "ready")) <= Cardinality(In(op, "ready")')
      BY <2>1, GrowingReady
    <2>4. QED
      BY <2>1, <2>2, <2>3, InFinite, InFinitePrime DEF NoLostWakeup
  <1>8. CASE Free
    BY <1>8 DEF Free, ring, NoLostWakeup, In
  <1>9. CASE UNCHANGED vars
    BY <1>9 DEF vars, ring, NoLostWakeup, In
  <1>10. QED
    BY <1>1, <1>2, <1>3, <1>4, <1>5, <1>6, <1>7, <1>8, <1>9 DEF Next, Step

(* One signal per store and per take loses no wakeup, for every number of  *)
(* threads and every capacity (buraaq_channel_send, _recv, _close).        *)
THEOREM WakeupsCover == Spec => []NoLostWakeup
  BY InitTypeOK, NextTypeOK, InitNoLostWakeup, NextNoLostWakeup, PTL DEF Spec

(* Hence senders and receivers never all sleep waiting for each other: the *)
(* capacity is at least one, so one of the two counts is positive.         *)
THEOREM NeverStandoff == Spec => []NoStandoff
  <1>1. TypeOK /\ NoLostWakeup => NoStandoff
    <2> SUFFICES ASSUME TypeOK, NoLostWakeup,
                        In("send", "asleep") # {}, In("recv", "asleep") # {},
                        \A t \in Threads : pc[t] # "ready"
                 PROVE  FALSE
      BY DEF NoStandoff
    <2>1. In("recv", "ready") = {} /\ In("send", "ready") = {}
      BY DEF In
    <2>2. count <= 0 /\ Cap - count <= 0
      BY <2>1, FS_EmptySet DEF NoLostWakeup
    <2>3. QED
      BY <2>2, CapPositive DEF TypeOK, Types
  <1>2. QED
    BY <1>1, TypeCorrect, WakeupsCover, PTL

-----------------------------------------------------------------------------
(* The channel implements the abstract FIFO *)

Items == Messages \cup {NoMsg}

\* The ring's two indices and its count agree.
RingOrder == tail = (head + count) % Cap

\* The slot of the i-th oldest message.
Place(h, i) == (h + i - 1) % Cap

\* Modulo of a number that is past the ring at most once.
LEMMA ModOnce ==
  ASSUME NEW x \in Nat, x < 2 * Cap
  PROVE  x % Cap = IF x < Cap THEN x ELSE x - Cap
  BY CapPositive

LEMMA PlaceValue ==
  ASSUME NEW h \in 0 .. Cap - 1, NEW i \in 1 .. Cap + 1
  PROVE  /\ Place(h, i) = IF h + i - 1 < Cap THEN h + i - 1 ELSE h + i - 1 - Cap
         /\ Place(h, i) \in 0 .. Cap - 1
  <1>1. h + i - 1 \in Nat /\ h + i - 1 < 2 * Cap
    BY CapPositive
  <1>2. QED
    BY <1>1, ModOnce, CapPositive DEF Place

LEMMA SlotValue ==
  ASSUME NEW k \in 0 .. Cap - 1
  PROVE  Slot(k) = IF k = Cap - 1 THEN 0 ELSE k + 1
  <1>1. k + 1 \in Nat /\ k + 1 < 2 * Cap
    BY CapPositive
  <1>2. QED
    BY <1>1, ModOnce, CapPositive DEF Slot

LEMMA TailValue ==
  ASSUME RingOrder, head \in 0 .. Cap - 1, count \in 0 .. Cap
  PROVE  tail = IF head + count < Cap THEN head + count ELSE head + count - Cap
  <1> DEFINE x == head + count
  <1>1. x \in Nat /\ x < 2 * Cap
    BY CapPositive
  <1>2. tail = x % Cap
    BY DEF RingOrder
  <1> HIDE DEF x
  <1>3. tail = IF x < Cap THEN x ELSE x - Cap
    BY <1>1, <1>2, ModOnce
  <1>4. QED
    BY <1>3, CapPositive DEF x

\* What the abstract queue is, slot by slot.
LEMMA ContentsIsQueue ==
  ASSUME Types
  PROVE  /\ Contents \in Seq(Items)
         /\ Len(Contents) = count
         /\ \A i \in 1 .. count : Contents[i] = buf[Place(head, i)]
  <1>1. count \in Nat /\ count <= Cap
    BY CapPositive DEF Types
  <1>2. ASSUME NEW i \in 1 .. count PROVE buf[Place(head, i)] \in Items
    BY <1>1, PlaceValue, CapPositive DEF Types, Items
  <1>3. Contents = [i \in 1 .. count |-> buf[Place(head, i)]]
    BY DEF Contents, Place
  <1>4. Contents \in [1 .. count -> Items]
    BY <1>2, <1>3
  <1>5. Contents \in Seq(Items)
    BY <1>1, <1>4
  <1>6. QED
    BY <1>1, <1>3, <1>4, <1>5

\* The same for the next state.
LEMMA ContentsIsQueuePrime ==
  ASSUME Types'
  PROVE  /\ Contents' \in Seq(Items)
         /\ Len(Contents') = count'
         /\ \A i \in 1 .. count' : Contents'[i] = buf'[Place(head', i)]
  <1>1. count' \in Nat /\ count' <= Cap
    BY CapPositive DEF Types
  <1>2. ASSUME NEW i \in 1 .. count' PROVE buf'[Place(head', i)] \in Items
    BY <1>1, PlaceValue, CapPositive DEF Types, Items
  <1>3. Contents' = [i \in 1 .. count' |-> buf'[Place(head', i)]]
    BY DEF Contents, Place
  <1>4. Contents' \in [1 .. count' -> Items]
    BY <1>2, <1>3
  <1>5. Contents' \in Seq(Items)
    BY <1>1, <1>4
  <1>6. QED
    BY <1>1, <1>3, <1>4, <1>5

\* Storing in the slot at tail appends to the queue.
LEMMA StoreAppends ==
  ASSUME Types, Types', RingOrder, NEW m \in Items, count < Cap,
         buf' = [buf EXCEPT ![tail] = m], tail' = Slot(tail),
         count' = count + 1, head' = head
  PROVE  Contents' = Append(Contents, m) /\ RingOrder'
  <1>1. /\ head \in 0 .. Cap - 1 /\ count \in 0 .. Cap /\ tail \in 0 .. Cap - 1
        /\ buf \in [0 .. Cap - 1 -> Items] /\ count \in Nat
    BY CapPositive DEF Types, Items
  <1>2. tail = Place(head, count + 1)
    BY <1>1, CapPositive DEF RingOrder, Place
  <1>3. /\ Contents \in Seq(Items) /\ Len(Contents) = count
        /\ \A i \in 1 .. count : Contents[i] = buf[Place(head, i)]
    BY ContentsIsQueue
  <1>4. /\ Contents' \in Seq(Items) /\ Len(Contents') = count + 1
        /\ \A i \in 1 .. count + 1 : Contents'[i] = buf'[Place(head, i)]
    BY ContentsIsQueuePrime
  <1>5. ASSUME NEW i \in 1 .. count PROVE Contents'[i] = Contents[i]
    <2>1. /\ Place(head, i) \in 0 .. Cap - 1
          /\ Place(head, i) = IF head + i - 1 < Cap THEN head + i - 1 ELSE head + i - 1 - Cap
      <3>1. i \in 1 .. Cap + 1
        BY <1>1, CapPositive
      <3>2. QED
        BY <1>1, <3>1, PlaceValue
    <2>2. tail = IF head + count < Cap THEN head + count ELSE head + count - Cap
      BY <1>1, TailValue
    <2>3. Place(head, i) # tail
      BY <1>1, <2>1, <2>2, CapPositive
    <2>4. buf'[Place(head, i)] = buf[Place(head, i)]
      BY <1>1, <2>1, <2>3
    <2>5. QED
      BY <1>1, <1>3, <1>4, <2>4
  <1>6. Contents'[count + 1] = m
    BY <1>1, <1>2, <1>4
  <1>7. Contents' = Append(Contents, m)
    <2>1. /\ Append(Contents, m) \in Seq(Items)
          /\ Len(Append(Contents, m)) = count + 1
          /\ \A i \in 1 .. count : Append(Contents, m)[i] = Contents[i]
          /\ Append(Contents, m)[count + 1] = m
      BY <1>3, AppendProperties
    <2>2. \A i \in 1 .. count + 1 : Contents'[i] = Append(Contents, m)[i]
      BY <1>1, <1>5, <1>6, <2>1
    <2>3. QED
      BY <1>4, <2>1, <2>2, SeqEqual
  <1>8. RingOrder'
    <2>1. Slot(tail) = IF tail = Cap - 1 THEN 0 ELSE tail + 1
      BY <1>1, SlotValue
    <2>2. tail = IF head + count < Cap THEN head + count ELSE head + count - Cap
      BY <1>1, TailValue
    <2> DEFINE x == head + (count + 1)
    <2>3. x \in Nat /\ x < 2 * Cap
      BY <1>1, CapPositive
    <2>4. Slot(tail) = IF x < Cap THEN x ELSE x - Cap
      BY <1>1, <2>1, <2>2, CapPositive
    <2> HIDE DEF x
    <2>5. Slot(tail) = x % Cap
      BY <2>3, <2>4, ModOnce
    <2>6. QED
      BY <2>5 DEF x, RingOrder
  <1>9. QED
    BY <1>7, <1>8

\* Stepping head past the oldest message takes it off the queue.
LEMMA TakeRemoves ==
  ASSUME Types, Types', RingOrder, count # 0,
         UNCHANGED <<buf, tail>>, head' = Slot(head), count' = count - 1
  PROVE  /\ Contents # <<>> /\ Head(Contents) = buf[head]
         /\ Contents' = Tail(Contents) /\ RingOrder'
  <1>1. /\ head \in 0 .. Cap - 1 /\ count \in 1 .. Cap /\ tail \in 0 .. Cap - 1
        /\ buf \in [0 .. Cap - 1 -> Items] /\ count \in Nat
    BY CapPositive DEF Types, Items
  <1>2. /\ Contents \in Seq(Items) /\ Len(Contents) = count
        /\ \A i \in 1 .. count : Contents[i] = buf[Place(head, i)]
    BY ContentsIsQueue
  <1>3. /\ Contents' \in Seq(Items) /\ Len(Contents') = count - 1
        /\ \A i \in 1 .. count - 1 : Contents'[i] = buf[Place(Slot(head), i)]
    BY ContentsIsQueuePrime
  <1>4. Contents # <<>> /\ Head(Contents) = Contents[1]
    BY <1>1, <1>2
  <1>5. Place(head, 1) = head
    BY <1>1, PlaceValue, CapPositive
  <1>6. Slot(head) = (IF head = Cap - 1 THEN 0 ELSE head + 1) /\ Slot(head) \in 0 .. Cap - 1
    BY <1>1, SlotValue, SlotInRing
  <1>7. ASSUME NEW i \in 1 .. count - 1
        PROVE  Place(Slot(head), i) = Place(head, i + 1)
    <2>1. i \in 1 .. Cap + 1 /\ i + 1 \in 1 .. Cap + 1 /\ i \in Nat
      BY <1>1, CapPositive
    <2>2. Place(head, i + 1) = IF head + (i + 1) - 1 < Cap THEN head + (i + 1) - 1
                               ELSE head + (i + 1) - 1 - Cap
      BY <1>1, <2>1, PlaceValue
    <2>3. Place(Slot(head), i) = IF Slot(head) + i - 1 < Cap THEN Slot(head) + i - 1
                                 ELSE Slot(head) + i - 1 - Cap
      BY <1>6, <2>1, PlaceValue
    <2>4. QED
      BY <1>1, <1>6, <2>1, <2>2, <2>3, CapPositive
  <1>8. Contents' = Tail(Contents)
    <2>1. /\ Tail(Contents) \in Seq(Items) /\ Len(Tail(Contents)) = count - 1
          /\ \A i \in 1 .. count - 1 : Tail(Contents)[i] = Contents[i + 1]
      BY <1>2, <1>4, HeadTailProperties
    <2>2. \A i \in 1 .. count - 1 : Contents'[i] = Tail(Contents)[i]
      BY <1>1, <1>2, <1>3, <1>7, <2>1
    <2>3. QED
      BY <1>3, <2>1, <2>2, SeqEqual
  <1>9. RingOrder'
    <2>1. tail = IF head + count < Cap THEN head + count ELSE head + count - Cap
      BY <1>1, TailValue
    <2> DEFINE x == Slot(head) + (count - 1)
    <2>2. x \in Nat /\ x < 2 * Cap
      BY <1>1, <1>6, CapPositive
    <2>3. tail = IF x < Cap THEN x ELSE x - Cap
      BY <1>1, <1>6, <2>1, CapPositive
    <2> HIDE DEF x
    <2>4. tail = x % Cap
      BY <2>2, <2>3, ModOnce
    <2>5. QED
      BY <2>4 DEF x, RingOrder
  <1>10. QED
    BY <1>1, <1>2, <1>4, <1>5, <1>8, <1>9

\* An untouched ring holds an untouched queue.
LEMMA SameRing ==
  ASSUME RingOrder, UNCHANGED ring
  PROVE  UNCHANGED Contents /\ RingOrder'
  BY DEF RingOrder, Contents, ring

LEMMA InitFifo == Init => Fifo!Init /\ RingOrder
  <1> SUFFICES ASSUME Init PROVE Fifo!Init /\ RingOrder
    OBVIOUS
  <1>1. Types
    BY InitTypeOK DEF TypeOK
  <1>2. Contents \in Seq(Items) /\ Len(Contents) = 0
    BY <1>1, ContentsIsQueue DEF Init
  <1>3. Contents = <<>>
    BY <1>2, EmptySeq
  <1>4. RingOrder
    <2>1. 0 + 0 \in Nat /\ 0 + 0 < 2 * Cap
      BY CapPositive
    <2>2. QED
      BY <2>1, ModOnce, CapPositive DEF Init, RingOrder
  <1>5. QED
    BY <1>3, <1>4 DEF Init, Fifo!Init, NoCall, NoRet, Fifo!NoCall, Fifo!NoRet

\* Each step of the channel is a step of the FIFO or changes nothing of it.
LEMMA NextFifo ==
  ASSUME TypeOK, TypeOK', RingOrder, [Next]_vars
  PROVE  [Fifo!Next]_(Fifo!vars) /\ RingOrder'
  <1>a. Types /\ Types' /\ CallShape
    BY DEF TypeOK
  <1>1. ASSUME NEW t \in Threads, Invoke(t)
        PROVE  [Fifo!Next]_(Fifo!vars) /\ RingOrder'
    <2>1. UNCHANGED Contents /\ RingOrder'
      BY <1>1, SameRing DEF Invoke
    <2>2. call[t] = NoCall
      BY <1>a, <1>1 DEF Invoke, CallShape
    <2>3. Fifo!Invoke(t)
      BY <1>1, <2>1, <2>2
      DEF Invoke, Fifo!Invoke, Calls, NoCall, NoRet, Fifo!Calls, Fifo!NoCall, Fifo!NoRet
    <2>4. QED
      BY <2>1, <2>3 DEF Fifo!Next
  <1>2. ASSUME NEW t \in Threads, SendOnClosed(t)
        PROVE  [Fifo!Next]_(Fifo!vars) /\ RingOrder'
    <2>1. UNCHANGED Contents /\ RingOrder'
      BY <1>2, SameRing DEF SendOnClosed
    <2>2. Fifo!Refuse(t)
      BY <1>2, <2>1
      DEF SendOnClosed, Return, NoCall, Fifo!Refuse, Fifo!Return, Fifo!NoCall
    <2>3. QED
      BY <2>1, <2>2 DEF Fifo!Next
  <1>3. ASSUME NEW t \in Threads, SendStores(t)
        PROVE  [Fifo!Next]_(Fifo!vars) /\ RingOrder'
    <2>1. call[t].msg \in Items
      BY <1>a, <1>3, CallRecords DEF SendStores, Types, Items
    <2>2. count < Cap /\ count \in Nat
      BY <1>a, <1>3, CapPositive DEF SendStores, Full, Types
    <2>3. Contents' = Append(Contents, call[t].msg) /\ RingOrder'
      BY <1>a, <1>3, <2>1, <2>2, StoreAppends DEF SendStores
    <2>4. Len(Contents) < Cap
      BY <1>a, <2>2, ContentsIsQueue
    <2>5. Fifo!Put(t)
      BY <1>3, <2>3, <2>4
      DEF SendStores, Return, NoCall, Fifo!Put, Fifo!Return, Fifo!NoCall
    <2>6. QED
      BY <2>3, <2>5 DEF Fifo!Next
  <1>4. ASSUME NEW t \in Threads, RecvOnClosed(t)
        PROVE  [Fifo!Next]_(Fifo!vars) /\ RingOrder'
    <2>1. UNCHANGED Contents /\ RingOrder'
      BY <1>4, SameRing DEF RecvOnClosed
    <2>2. Contents = <<>>
      BY <1>a, <1>4, ContentsIsQueue, EmptySeq DEF RecvOnClosed
    <2>3. Fifo!Drained(t)
      BY <1>4, <2>1, <2>2
      DEF RecvOnClosed, Return, NoCall, Fifo!Drained, Fifo!Return, Fifo!NoCall
    <2>4. QED
      BY <2>1, <2>3 DEF Fifo!Next
  <1>5. ASSUME NEW t \in Threads, RecvTakes(t)
        PROVE  [Fifo!Next]_(Fifo!vars) /\ RingOrder'
    <2>1. /\ Contents # <<>> /\ Head(Contents) = buf[head]
          /\ Contents' = Tail(Contents) /\ RingOrder'
      BY <1>a, <1>5, TakeRemoves DEF RecvTakes
    <2>2. Fifo!Take(t)
      BY <1>5, <2>1
      DEF RecvTakes, Return, NoCall, Fifo!Take, Fifo!Return, Fifo!NoCall
    <2>3. QED
      BY <2>1, <2>2 DEF Fifo!Next
  <1>6. ASSUME NEW t \in Threads, Close(t)
        PROVE  [Fifo!Next]_(Fifo!vars) /\ RingOrder'
    <2>1. UNCHANGED Contents /\ RingOrder'
      BY <1>6, SameRing DEF Close
    <2>2. Fifo!Close(t)
      BY <1>6, <2>1 DEF Close, NoCall, Fifo!Close, Fifo!NoCall
    <2>3. QED
      BY <2>1, <2>2 DEF Fifo!Next
  \* Sleeping, waking and freeing are the implementation's own business.
  <1>7. ASSUME UNCHANGED <<ring, closed, call, ret>>
        PROVE  [Fifo!Next]_(Fifo!vars) /\ RingOrder'
    <2>1. UNCHANGED Contents /\ RingOrder'
      BY <1>7, SameRing
    <2>2. QED
      BY <1>7, <2>1 DEF Fifo!vars
  <1>8. ASSUME NEW t \in Threads, SendWaits(t) \/ RecvWaits(t) \/ SpuriousWakeup(t)
        PROVE  UNCHANGED <<ring, closed, call, ret>>
    BY <1>8 DEF SendWaits, RecvWaits, Sleep, SpuriousWakeup
  <1>9. CASE Free \/ UNCHANGED vars
    BY <1>7, <1>9 DEF Free, vars
  <1>10. QED
    BY <1>1, <1>2, <1>3, <1>4, <1>5, <1>6, <1>7, <1>8, <1>9 DEF Next, Step

(* The ring, the mutex and the condition variables implement the bounded   *)
(* closable FIFO for every capacity and every number of threads: messages  *)
(* leave in the order they came, none lost and none twice, a send on a     *)
(* closed channel stores nothing, and a receive fails only on a closed and *)
(* drained one (buraaq_channel_send, _recv, _close).                       *)
THEOREM ImplementsFifo == Spec => FifoSpec
  <1>1. TypeOK /\ TypeOK' /\ RingOrder /\ [Next]_vars
          => [Fifo!Next]_(Fifo!vars) /\ RingOrder'
    BY NextFifo
  <1>2. Spec => [](TypeOK /\ RingOrder)
    <2>1. TypeOK /\ RingOrder /\ [Next]_vars => TypeOK' /\ RingOrder'
      BY <1>1, NextTypeOK
    <2>2. QED
      BY InitTypeOK, InitFifo, <2>1, PTL DEF Spec
  <1>3. QED
    BY <1>1, <1>2, InitFifo, PTL DEF Spec, FifoSpec, Fifo!Spec
=============================================================================
