------------------------------ MODULE Channel ------------------------------
(***************************************************************************)
(* buraaq_channel_* of stdlib/runtime/buraaq_runtime.c: a ring buffer, one *)
(* mutex and two condition variables, called by any number of threads.     *)
(*                                                                         *)
(* The mutex is held from the entry of a call to its return, except while  *)
(* the call sleeps in pthread_cond_wait.  So one evaluation of the `while` *)
(* test, together with what follows it up to the sleep or the return, is   *)
(* one step.  Every thread about to run that test is "ready": it has just  *)
(* called, or a signal (or a spurious wakeup) has taken it off the         *)
(* condition variable and it waits for the mutex.                          *)
(***************************************************************************)
EXTENDS Integers, FiniteSets, Sequences

CONSTANTS
  Threads,    \* the threads that share the channel
  Messages,   \* the int64 payloads, as opaque values
  Capacity,   \* the argument of buraaq_channel_bounded
  NoMsg       \* no payload; also what a fresh buffer slot holds

ASSUME ThreadsAssumption == IsFiniteSet(Threads)
ASSUME CapacityAssumption == Capacity \in Int
ASSUME NoMsgAssumption == NoMsg \notin Messages

\* buraaq_channel_bounded raises a capacity below one to one.
Cap == IF Capacity < 1 THEN 1 ELSE Capacity

VARIABLES
  buf, head, tail, count,   \* the ring
  closed,
  pc,        \* per thread: "idle" outside a call, "ready", or "asleep"
  call,      \* per thread: the call it is in
  ret,       \* per thread: what its last call returned, until the next call
  live       \* FALSE once buraaq_channel_free has released the channel

ring == <<buf, head, tail, count>>
vars == <<ring, closed, pc, call, ret, live>>

NoCall == [op |-> "none", msg |-> NoMsg]
Calls == [op : {"send"}, msg : Messages]
           \cup [op : {"recv", "close"}, msg : {NoMsg}]

NoRet == [code |-> 0, msg |-> NoMsg]

In(op, state) == {t \in Threads : pc[t] = state /\ call[t].op = op}

Init ==
  /\ buf = [i \in 0 .. Cap - 1 |-> NoMsg]
  /\ head = 0 /\ tail = 0 /\ count = 0
  /\ closed = FALSE
  /\ pc = [t \in Threads |-> "idle"]
  /\ call = [t \in Threads |-> NoCall]
  /\ ret = [t \in Threads |-> NoRet]
  /\ live = TRUE

-----------------------------------------------------------------------------
Slot(i) == (i + 1) % Cap

\* A call that returns without waking anybody.
SignalNobody(t, op) == pc' = [pc EXCEPT ![t] = "idle"]

(* pthread_cond_signal on the variable the calls named op sleep on, while  *)
(* thread t leaves its own call: one sleeper, if there is one, turns ready.*)
Signal(t, op) ==
  IF In(op, "asleep") = {}
  THEN pc' = [pc EXCEPT ![t] = "idle"]
  ELSE \E u \in In(op, "asleep") :
         pc' = [pc EXCEPT ![t] = "idle", ![u] = "ready"]

Return(t, code, msg) ==
  /\ call' = [call EXCEPT ![t] = NoCall]
  /\ ret' = [ret EXCEPT ![t] = [code |-> code, msg |-> msg]]

Sleep(t) ==
  /\ pc' = [pc EXCEPT ![t] = "asleep"]
  /\ UNCHANGED <<ring, closed, call, ret, live>>

\* Any thread outside a call enters buraaq_channel_send, _recv or _close.
Invoke(t) ==
  /\ live
  /\ pc[t] = "idle"
  /\ \E c \in Calls : call' = [call EXCEPT ![t] = c]
  /\ pc' = [pc EXCEPT ![t] = "ready"]
  /\ ret' = [ret EXCEPT ![t] = NoRet]
  /\ UNCHANGED <<ring, closed, live>>

-----------------------------------------------------------------------------
(* buraaq_channel_send *)

\* An off-by-one in the loop test.
FullOffByOne == count > Cap

Full == count >= Cap

SendWaits(t) ==
  /\ pc[t] = "ready" /\ call[t].op = "send"
  /\ Full /\ ~closed
  /\ Sleep(t)

SendOnClosed(t) ==
  /\ pc[t] = "ready" /\ call[t].op = "send"
  /\ closed
  /\ Return(t, -1, NoMsg)
  /\ pc' = [pc EXCEPT ![t] = "idle"]
  /\ UNCHANGED <<ring, closed, live>>

\* A send that signals only when it finds the buffer empty.
SendSignalsWhenEmpty(t) ==
  /\ pc[t] = "ready" /\ call[t].op = "send"
  /\ ~Full /\ ~closed
  /\ buf' = [buf EXCEPT ![tail] = call[t].msg]
  /\ tail' = Slot(tail)
  /\ count' = count + 1
  /\ IF count = 0 THEN Signal(t, "recv") ELSE SignalNobody(t, "recv")
  /\ Return(t, 0, NoMsg)
  /\ UNCHANGED <<head, closed, live>>

SendStores(t) ==
  /\ pc[t] = "ready" /\ call[t].op = "send"
  /\ ~Full /\ ~closed
  /\ buf' = [buf EXCEPT ![tail] = call[t].msg]
  /\ tail' = Slot(tail)
  /\ count' = count + 1
  /\ Signal(t, "recv")
  /\ Return(t, 0, NoMsg)
  /\ UNCHANGED <<head, closed, live>>

-----------------------------------------------------------------------------
(* buraaq_channel_recv *)

RecvWaits(t) ==
  /\ pc[t] = "ready" /\ call[t].op = "recv"
  /\ count = 0 /\ ~closed
  /\ Sleep(t)

\* A receive that gives up on a closed channel without draining it first.
RecvDropsBacklog(t) ==
  /\ pc[t] = "ready" /\ call[t].op = "recv"
  /\ closed
  /\ Return(t, -1, NoMsg)
  /\ pc' = [pc EXCEPT ![t] = "idle"]
  /\ UNCHANGED <<ring, closed, live>>

RecvOnClosed(t) ==
  /\ pc[t] = "ready" /\ call[t].op = "recv"
  /\ count = 0 /\ closed
  /\ Return(t, -1, NoMsg)
  /\ pc' = [pc EXCEPT ![t] = "idle"]
  /\ UNCHANGED <<ring, closed, live>>

RecvTakes(t) ==
  /\ pc[t] = "ready" /\ call[t].op = "recv"
  /\ count # 0
  /\ head' = Slot(head)
  /\ count' = count - 1
  /\ Signal(t, "send")
  /\ Return(t, 0, buf[head])
  /\ UNCHANGED <<buf, tail, closed, live>>

-----------------------------------------------------------------------------
(* buraaq_channel_close broadcasts on both condition variables. *)

\* A close that wakes the receivers and forgets the senders.
BroadcastNotEmptyOnly(t) ==
  [u \in Threads |-> IF u = t THEN "idle"
                     ELSE IF u \in In("recv", "asleep") THEN "ready"
                     ELSE pc[u]]

AfterBroadcast(t) ==
  [u \in Threads |-> IF u = t THEN "idle"
                     ELSE IF pc[u] = "asleep" THEN "ready" ELSE pc[u]]

Close(t) ==
  /\ pc[t] = "ready" /\ call[t].op = "close"
  /\ closed' = TRUE
  /\ pc' = AfterBroadcast(t)
  /\ call' = [call EXCEPT ![t] = NoCall]
  /\ UNCHANGED <<ring, ret, live>>

(* buraaq_channel_free checks nothing: its callers use it once no call is  *)
(* in flight, and never touch the channel again.                           *)
Free ==
  /\ live
  /\ \A t \in Threads : pc[t] = "idle"
  /\ live' = FALSE
  /\ UNCHANGED <<ring, closed, pc, call, ret>>

\* pthread_cond_wait may return without a signal.
SpuriousWakeup(t) ==
  /\ pc[t] = "asleep"
  /\ pc' = [pc EXCEPT ![t] = "ready"]
  /\ UNCHANGED <<ring, closed, call, ret, live>>

Step(t) ==
  \/ SendWaits(t) \/ SendOnClosed(t) \/ SendStores(t)
  \/ RecvWaits(t) \/ RecvOnClosed(t) \/ RecvTakes(t)
  \/ Close(t)

Next ==
  \/ \E t \in Threads : Invoke(t) \/ Step(t) \/ SpuriousWakeup(t)
  \/ Free

(* A thread that wants the mutex gets it in the end: no critical section   *)
(* blocks.  Nothing is assumed of who calls, or of spurious wakeups.       *)
Fairness == \A t \in Threads : WF_vars(Step(t))

Spec == Init /\ [][Next]_vars /\ Fairness

-----------------------------------------------------------------------------
(* Properties *)

Types ==
  /\ buf \in [0 .. Cap - 1 -> Messages \cup {NoMsg}]
  /\ head \in 0 .. Cap - 1 /\ tail \in 0 .. Cap - 1 /\ count \in 0 .. Cap
  /\ closed \in BOOLEAN /\ live \in BOOLEAN
  /\ pc \in [Threads -> {"idle", "ready", "asleep"}]
  /\ call \in [Threads -> Calls \cup {NoCall}]
  /\ ret \in [Threads -> [code : {0, -1}, msg : Messages \cup {NoMsg}]]

CallShape ==
  \A t \in Threads : /\ pc[t] = "idle" <=> call[t] = NoCall
                     /\ pc[t] = "asleep" => call[t].op \in {"send", "recv"}

\* Every variable has its type and the ring indices stay inside the ring; a
\* thread has a call exactly while it is inside one, and closes never sleep.
TypeOK == Types /\ CallShape

(* One signal per store and per take is enough: while a receiver sleeps,   *)
(* there are at least as many awake receivers on their way to the buffer   *)
(* as it holds messages, and the same for senders and free slots.  After a *)
(* close nobody sleeps.  (buraaq_channel_send, _recv, _close)              *)
NoLostWakeup ==
  /\ In("recv", "asleep") # {} => count <= Cardinality(In("recv", "ready"))
  /\ In("send", "asleep") # {} => Cap - count <= Cardinality(In("send", "ready"))
  /\ closed => \A t \in Threads : pc[t] # "asleep"

(* Senders and receivers never all sleep at the same time, each side       *)
(* waiting for the other, whatever the capacity.                           *)
NoStandoff ==
  ~ (/\ In("send", "asleep") # {}
     /\ In("recv", "asleep") # {}
     /\ \A t \in Threads : pc[t] # "ready")

\* The messages of the ring, oldest first.
Contents == [i \in 1 .. count |-> buf[(head + i - 1) % Cap]]

(* The ring, the mutex and the condition variables implement a bounded,    *)
(* closable FIFO: no message is lost, duplicated or reordered, a closed    *)
(* channel accepts nothing and is drained before receives fail.            *)
Fifo == INSTANCE FifoChannel WITH queue <- Contents, shut <- closed
FifoSpec == Fifo!Spec

(* close ends the wait of every blocked caller: a thread inside a call on  *)
(* a closed channel returns.                                               *)
CloseReleases ==
  \A t \in Threads : closed /\ pc[t] # "idle" ~> pc[t] = "idle"

(* A message does not sit in the buffer while a receiver sleeps, nor a     *)
(* free slot while a sender does: one side's sleepers are woken or the     *)
(* other side's supply runs out.                                           *)
SleepersServed ==
  /\ (In("recv", "asleep") # {} /\ count > 0)
       ~> (In("recv", "asleep") = {} \/ count = 0)
  /\ (In("send", "asleep") # {} /\ count < Cap)
       ~> (In("send", "asleep") = {} \/ count = Cap)
=============================================================================
