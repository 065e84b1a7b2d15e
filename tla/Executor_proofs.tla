--------------------------- MODULE Executor_proofs ---------------------------
(***************************************************************************)
(* Proofs about Executor, for every number of workers, every deque size,   *)
(* every set of tasks and every set of programs over them.                 *)
(*                                                                         *)
(* IInv is the type invariant, EdgeInv what init and shutdown leave alive, *)
(* and JobsInv where every job is: the first two hold of all programs, the *)
(* third of those that join each task in the body that submits it.         *)
(***************************************************************************)
EXTENDS Executor, SequenceTheorems, FiniteSetTheorems, TLAPS

Indices == 0 .. DequeCap - 1

\* Modulo of a number that is past the ring at most once.
LEMMA ModOnce ==
  ASSUME NEW x \in Nat, x < 2 * DequeCap
  PROVE  x % DequeCap = IF x < DequeCap THEN x ELSE x - DequeCap
  BY PoolAssumption

\* Stepping an index forth or back stays in the ring.
LEMMA SlotValue ==
  ASSUME NEW k \in Indices
  PROVE  /\ Slot(k) = IF k = DequeCap - 1 THEN 0 ELSE k + 1
         /\ Slot(k) \in Indices
  <1>1. k + 1 \in Nat /\ k + 1 < 2 * DequeCap
    BY PoolAssumption DEF Indices
  <1>2. QED
    BY <1>1, ModOnce, PoolAssumption DEF Slot, Indices

LEMMA BeforeValue ==
  ASSUME NEW k \in Indices
  PROVE  /\ Before(k) = IF k = 0 THEN DequeCap - 1 ELSE k - 1
         /\ Before(k) \in Indices
  <1>1. k - 1 + DequeCap \in Nat /\ k - 1 + DequeCap < 2 * DequeCap
    BY PoolAssumption DEF Indices
  <1>2. QED
    BY <1>1, ModOnce, PoolAssumption DEF Before, Indices

\* The slots between two indices of the ring, without a modulo.
Within(h, t, k) == IF h <= t THEN h <= k /\ k < t ELSE h <= k \/ k < t

LEMMA OccupiedIsWithin ==
  ASSUME NEW w \in Workers, head[w] \in Indices, tail[w] \in Indices
  PROVE  Occupied(w) = {k \in Indices : Within(head[w], tail[w], k)}
  <1> DEFINE Past(k) == (k - head[w] + DequeCap) % DequeCap
  <1>1. ASSUME NEW k \in Indices
        PROVE  Past(k) = IF k >= head[w] THEN k - head[w] ELSE k - head[w] + DequeCap
    <2>1. /\ k - head[w] + DequeCap \in Nat
          /\ k - head[w] + DequeCap < 2 * DequeCap
      BY PoolAssumption DEF Indices
    <2>2. QED
      BY <2>1, ModOnce, PoolAssumption DEF Indices
  <1>2. Occupied(w) = {k \in Indices : Past(k) < Past(tail[w])}
    BY DEF Occupied, Indices
  <1> HIDE DEF Past
  <1>3. ASSUME NEW k \in Indices
        PROVE  Past(k) < Past(tail[w]) <=> Within(head[w], tail[w], k)
    BY <1>1, PoolAssumption DEF Within, Indices
  <1>4. QED
    BY <1>2, <1>3

-----------------------------------------------------------------------------
(* The deque operations keep the rings well formed *)

RingTypes ==
  /\ jobs \in [Workers -> [Indices -> Tasks \cup {NoTask}]]
  /\ head \in [Workers -> Indices]
  /\ tail \in [Workers -> Indices]

RingsHoldTasks ==
  \A w \in Workers : \A k \in Indices :
    Within(head[w], tail[w], k) => jobs[w][k] \in Tasks

\* A push into a deque that is not full adds its task to the ring.
LEMMA PushKeepsRings ==
  ASSUME RingTypes, RingsHoldTasks, NEW w \in Workers, NEW t \in Tasks,
         ~Full(w), PushBottom(w, t)
  PROVE  RingTypes' /\ RingsHoldTasks'
  <1>1. head[w] \in Indices /\ tail[w] \in Indices
    BY DEF RingTypes
  <1>2. RingTypes'
    BY <1>1, SlotValue DEF RingTypes, PushBottom
  <1>3. ASSUME NEW v \in Workers, NEW k \in Indices, Within(head'[v], tail'[v], k)
        PROVE  jobs'[v][k] \in Tasks
    <2>1. CASE v # w
      BY <1>3, <2>1 DEF RingTypes, RingsHoldTasks, PushBottom
    <2>2. CASE v = w
      <3>1. head'[w] = head[w] /\ tail'[w] = Slot(tail[w])
        BY DEF RingTypes, PushBottom
      <3>2. jobs'[w][k] = IF k = tail[w] THEN t ELSE jobs[w][k]
        BY <1>1 DEF RingTypes, PushBottom
      <3>3. k # tail[w] => Within(head[w], tail[w], k)
        BY <1>1, <1>3, <2>2, <3>1, SlotValue DEF Within, Full, Indices
      <3>4. QED
        BY <2>2, <3>2, <3>3 DEF RingsHoldTasks
    <2>3. QED
      BY <2>1, <2>2
  <1>4. QED
    BY <1>2, <1>3 DEF RingsHoldTasks

\* A pop takes a task from the bottom and leaves tasks.
LEMMA PopKeepsRings ==
  ASSUME RingTypes, RingsHoldTasks, NEW w \in Workers, ~Empty(w), PopBottom(w)
  PROVE  Bottom(w) \in Tasks /\ RingTypes' /\ RingsHoldTasks'
  <1>1. head[w] \in Indices /\ tail[w] \in Indices
    BY DEF RingTypes
  <1>2. RingTypes'
    BY <1>1, BeforeValue DEF RingTypes, PopBottom
  <1>3. head'[w] = head[w] /\ tail'[w] = Before(tail[w])
    BY DEF RingTypes, PopBottom
  <1>4. Within(head[w], tail[w], Before(tail[w]))
    BY <1>1, BeforeValue DEF Within, Empty, Indices
  <1>5. ASSUME NEW k \in Indices, Within(head[w], Before(tail[w]), k)
        PROVE  Within(head[w], tail[w], k)
    BY <1>1, <1>5, BeforeValue DEF Within, Empty, Indices
  <1>6. ASSUME NEW v \in Workers, NEW k \in Indices, Within(head'[v], tail'[v], k)
        PROVE  jobs'[v][k] \in Tasks
    <2>1. CASE v # w
      BY <1>6, <2>1 DEF RingTypes, RingsHoldTasks, PopBottom
    <2>2. CASE v = w
      BY <1>3, <1>5, <1>6, <2>2 DEF RingsHoldTasks, PopBottom
    <2>3. QED
      BY <2>1, <2>2
  <1>7. QED
    BY <1>1, <1>2, <1>4, <1>6, BeforeValue DEF RingsHoldTasks, Bottom

\* A steal takes a task from the top and leaves tasks.
LEMMA StealKeepsRings ==
  ASSUME RingTypes, RingsHoldTasks, NEW w \in Workers, ~Empty(w), StealTop(w)
  PROVE  Top(w) \in Tasks /\ RingTypes' /\ RingsHoldTasks'
  <1>1. head[w] \in Indices /\ tail[w] \in Indices
    BY DEF RingTypes
  <1>2. RingTypes'
    BY <1>1, SlotValue DEF RingTypes, StealTop
  <1>3. head'[w] = Slot(head[w]) /\ tail'[w] = tail[w]
    BY DEF RingTypes, StealTop
  <1>4. Within(head[w], tail[w], head[w])
    BY <1>1 DEF Within, Empty, Indices
  <1>5. ASSUME NEW k \in Indices, Within(Slot(head[w]), tail[w], k)
        PROVE  Within(head[w], tail[w], k)
    BY <1>1, <1>5, SlotValue DEF Within, Empty, Indices
  <1>6. ASSUME NEW v \in Workers, NEW k \in Indices, Within(head'[v], tail'[v], k)
        PROVE  jobs'[v][k] \in Tasks
    <2>1. CASE v # w
      BY <1>6, <2>1 DEF RingTypes, RingsHoldTasks, StealTop
    <2>2. CASE v = w
      BY <1>3, <1>5, <1>6, <2>2 DEF RingsHoldTasks, StealTop
    <2>3. QED
      BY <2>1, <2>2
  <1>7. QED
    BY <1>1, <1>2, <1>4, <1>6 DEF RingsHoldTasks, Top

-----------------------------------------------------------------------------
(* The threads' stacks *)

FrameSet == [task : Tasks \cup {Main}, pos : Nat \ {0}]

\* What a thread with a job is about to do is one of the operations of its
\* script, and a submit or a join names a task.
LEMMA ArgIsTask ==
  ASSUME prog \in Programs, stack \in [Threads -> Seq(FrameSet)], NEW th \in Threads,
         At(th, "submit") \/ At(th, "join")
  PROVE  Arg(th) \in Tasks
  <1>1. stack[th] \in Seq(FrameSet) /\ stack[th] # <<>>
    BY DEF At
  <1>2. Frame(th) \in FrameSet
    BY <1>1, HeadTailProperties DEF Frame
  <1>3. Script(th) \in Seq(Op)
    <2>1. CASE Frame(th).task = Main
      BY <2>1, ProgramsAssumption DEF Script
    <2>2. CASE Frame(th).task \in Tasks
      <3>1. Script(th) \in Seq(JobOp)
        BY <2>2, ProgramsAssumption DEF Script
      <3>2. QED
        BY <3>1 DEF Op
    <2>3. QED
      BY <1>2, <2>1, <2>2 DEF FrameSet
  <1>4. Frame(th).pos \in 1 .. Len(Script(th))
    BY <1>2, <1>3 DEF At, FrameSet
  <1>5. Script(th)[Frame(th).pos] \in Op
    BY <1>3, <1>4, ElementOfSeq
  <1>6. QED
    BY <1>5 DEF Op, JobOp, At, Arg

LEMMA FrameAdvances ==
  ASSUME NEW f \in FrameSet
  PROVE  [f EXCEPT !.pos = @ + 1] \in FrameSet
  BY DEF FrameSet

\* Advancing in the innermost frame gives a stack of frames, and so does
\* pushing a new job's frame on it, or popping one.
LEMMA StackOperations ==
  ASSUME stack \in [Threads -> Seq(FrameSet)], NEW th \in Threads, stack[th] # <<>>,
         NEW t \in Tasks
  PROVE  /\ Advanced(th) \in Seq(FrameSet)
         /\ <<[task |-> t, pos |-> 1]>> \o Advanced(th) \in Seq(FrameSet)
         /\ Tail(stack[th]) \in Seq(FrameSet)
         /\ Frame(th) \in FrameSet
  <1>1. stack[th] \in Seq(FrameSet)
    OBVIOUS
  <1>2. Frame(th) \in FrameSet /\ Tail(stack[th]) \in Seq(FrameSet)
    BY <1>1, HeadTailProperties DEF Frame
  <1> DEFINE next == [Frame(th) EXCEPT !.pos = @ + 1]
  <1>4. Advanced(th) \in Seq(FrameSet)
    <2>0. next \in FrameSet
      BY <1>2, FrameAdvances
    <2>1. <<next>> \in Seq(FrameSet)
      BY <2>0
    <2>2. <<next>> \o Tail(stack[th]) \in Seq(FrameSet)
      BY <1>2, <2>1, ConcatProperties
    <2>3. QED
      BY <2>2 DEF Advanced
  <1>5. [task |-> t, pos |-> 1] \in FrameSet
    BY DEF FrameSet
  <1>6. <<[task |-> t, pos |-> 1]>> \o Advanced(th) \in Seq(FrameSet)
    BY <1>4, <1>5, ConcatProperties
  <1>7. QED
    BY <1>2, <1>4, <1>6

-----------------------------------------------------------------------------
(* Type correctness *)

ControlTypes ==
  /\ prog \in Programs
  /\ ready \in BOOLEAN /\ shutdown \in BOOLEAN /\ submitted \in Nat
  /\ mem \in [Workers -> {"raw", "live", "freed"}]
  /\ wpc \in [Workers -> {"unborn", "pop", "scan", "busy", "gone"}]
  /\ at \in [Workers -> 0 .. N]
  /\ opc \in {"run", "starting", "stopping"} /\ ci \in 0 .. N
  /\ task \in [Tasks -> {"none", "pending", "done", "freed"}]
  /\ fault \in {"none", "raw", "freed"}

StackTypes == stack \in [Threads -> Seq(FrameSet)]

IInv == ControlTypes /\ StackTypes /\ RingTypes /\ RingsHoldTasks

LEMMA IInvGivesTypeOK == IInv => TypeOK
  <1> SUFFICES ASSUME IInv PROVE TypeOK
    OBVIOUS
  <1>1. Types
    BY DEF IInv, ControlTypes, StackTypes, RingTypes, Types, Indices, FrameSet
  <1>2. ASSUME NEW w \in Workers, NEW k \in Occupied(w) PROVE jobs[w][k] \in Tasks
    <2>1. head[w] \in Indices /\ tail[w] \in Indices
      BY DEF IInv, RingTypes
    <2>2. k \in Indices /\ Within(head[w], tail[w], k)
      BY <2>1, OccupiedIsWithin
    <2>3. QED
      BY <2>2 DEF IInv, RingsHoldTasks
  <1>3. QED
    BY <1>1, <1>2 DEF TypeOK

LEMMA InitIInv == Init => IInv
  <1> SUFFICES ASSUME Init PROVE IInv
    OBVIOUS
  <1>1. ControlTypes
    <2>1. 0 \in 0 .. N /\ 0 \in Nat
      BY PoolAssumption
    <2>2. QED
      BY <2>1 DEF Init, ControlTypes
  <1>2. StackTypes
    <2>1. <<[task |-> Main, pos |-> 1]>> \in Seq(FrameSet) /\ <<>> \in Seq(FrameSet)
      BY DEF FrameSet
    <2>2. QED
      BY <2>1 DEF Init, StackTypes
  <1>3. 0 \in Indices
    BY PoolAssumption DEF Indices
  <1>4. RingTypes /\ RingsHoldTasks
    BY <1>3 DEF Init, RingTypes, RingsHoldTasks, Within, Indices
  <1>5. QED
    BY <1>1, <1>2, <1>4 DEF IInv

\* Round robin names a worker.
LEMMA RoundRobin == ASSUME submitted \in Nat PROVE submitted % N \in Workers
  BY PoolAssumption DEF Workers

\* A step that leaves the deques alone keeps their invariants.
LEMMA RingsUnchanged ==
  ASSUME RingTypes, RingsHoldTasks, UNCHANGED deques
  PROVE  RingTypes' /\ RingsHoldTasks'
  BY DEF RingTypes, RingsHoldTasks, deques

\* The steps of a job: submit, join and return.
LEMMA JobStepKeeps ==
  ASSUME IInv, NEW th \in Threads, JobStep(th)
  PROVE  IInv'
  <1>a. /\ ControlTypes /\ StackTypes /\ RingTypes /\ RingsHoldTasks
        /\ stack \in [Threads -> Seq(FrameSet)] /\ prog \in Programs
    BY DEF IInv, ControlTypes, StackTypes
  <1>1. CASE Submit(th)
    <2> DEFINE w == submitted % N
    <2>1. w \in Workers
      BY <1>a, RoundRobin DEF ControlTypes
    <2>2. Arg(th) \in Tasks /\ stack[th] # <<>>
      BY <1>a, <1>1, ArgIsTask DEF Submit, At
    <2>3. CASE \A v \in Reached(w) : mem[v] = "live"
      <3>1. /\ submitted' = submitted + 1
            /\ task' = [task EXCEPT ![Arg(th)] = "pending"]
            /\ UNCHANGED <<prog, ready, shutdown, mem, opc, ci, wpc, at, fault>>
        BY <1>1, <2>3 DEF Submit, Touches, outside
      <3>2. ControlTypes'
        BY <1>a, <2>2, <3>1 DEF ControlTypes
      <3>3. CASE Full(w)
        <4>1. /\ stack' = [stack EXCEPT ![th] =
                             <<[task |-> Arg(th), pos |-> 1]>> \o Advanced(th)]
              /\ UNCHANGED deques
          BY <1>1, <2>3, <3>3 DEF Submit, Touches
        <4>2. StackTypes'
          BY <1>a, <2>2, <4>1, StackOperations DEF StackTypes
        <4>3. QED
          BY <1>a, <3>2, <4>1, <4>2, RingsUnchanged DEF IInv
      <3>4. CASE ~Full(w)
        <4>1. PushBottom(w, Arg(th)) /\ Advance(th)
          BY <1>1, <2>3, <3>4 DEF Submit, Touches
        <4>2. StackTypes'
          BY <1>a, <2>2, <4>1, StackOperations DEF StackTypes, Advance
        <4>3. RingTypes' /\ RingsHoldTasks'
          BY <1>a, <2>1, <2>2, <3>4, <4>1, PushKeepsRings
        <4>4. QED
          BY <3>2, <4>2, <4>3 DEF IInv
      <3>5. QED
        BY <3>3, <3>4
    <2>4. CASE ~ \A v \in Reached(w) : mem[v] = "live"
      <3>1. /\ \E v \in Reached(w) : mem[v] # "live" /\ fault' = mem[v]
            /\ UNCHANGED <<deques, wpc, at, stack, task, submitted>>
            /\ UNCHANGED <<prog, ready, shutdown, mem, opc, ci>>
        BY <1>1, <2>4 DEF Submit, Touches, outside
      <3>2. Reached(w) \subseteq Workers
        BY <2>1 DEF Reached
      <3>3. ControlTypes'
        BY <1>a, <3>1, <3>2 DEF ControlTypes
      <3>4. QED
        BY <1>a, <3>1, <3>3, RingsUnchanged DEF IInv, StackTypes
    <2>5. QED
      BY <2>3, <2>4
  <1>2. CASE Join(th)
    <2>1. Arg(th) \in Tasks /\ stack[th] # <<>>
      BY <1>a, <1>2, ArgIsTask DEF Join, At
    <2>2. StackTypes'
      BY <1>a, <1>2, <2>1, StackOperations DEF Join, StackTypes, Advance
    <2>3. ControlTypes'
      BY <1>a, <1>2, <2>1 DEF Join, ControlTypes, outside
    <2>4. QED
      BY <1>a, <1>2, <2>2, <2>3, RingsUnchanged DEF Join, IInv
  <1>3. CASE JobReturns(th)
    <2>1. stack[th] # <<>> /\ stack[th] \in Seq(FrameSet)
      BY <1>a, <1>3 DEF JobReturns
    <2>2. Tail(stack[th]) \in Seq(FrameSet) /\ Frame(th) \in FrameSet
      BY <2>1, HeadTailProperties DEF Frame
    <2>3. Frame(th).task \in Tasks
      BY <1>3, <2>2 DEF JobReturns, FrameSet
    <2>4. StackTypes'
      BY <1>a, <1>3, <2>2 DEF JobReturns, StackTypes
    <2>5. wpc' \in [Workers -> {"unborn", "pop", "scan", "busy", "gone"}]
      BY <1>a, <1>3 DEF JobReturns, ControlTypes
    <2>6. task' \in [Tasks -> {"none", "pending", "done", "freed"}]
      BY <1>a, <1>3, <2>3 DEF JobReturns, ControlTypes
    <2>7. ControlTypes'
      BY <1>a, <1>3, <2>5, <2>6 DEF JobReturns, ControlTypes, outside
    <2>8. QED
      BY <1>a, <1>3, <2>4, <2>7, RingsUnchanged DEF JobReturns, IInv
  <1>4. QED
    BY <1>1, <1>2, <1>3 DEF JobStep

\* A worker that starts a job holds one frame, at the job's beginning.
LEMMA RunsKeeps ==
  ASSUME StackTypes, ControlTypes, NEW w \in Workers, NEW t \in Tasks, Runs(w, t)
  PROVE  /\ StackTypes'
         /\ wpc' \in [Workers -> {"unborn", "pop", "scan", "busy", "gone"}]
         /\ at' \in [Workers -> 0 .. N]
  <1>1. <<[task |-> t, pos |-> 1]>> \in Seq(FrameSet)
    BY DEF FrameSet
  <1>2. StackTypes'
    BY <1>1 DEF Runs, StackTypes, Threads
  <1>3. QED
    BY <1>2 DEF Runs, ControlTypes

\* The steps of a worker's own loop: pop, scan and leave or nap.
LEMMA LoopStepKeeps ==
  ASSUME IInv, NEW w \in Workers, PopOwn(w) \/ Scan(w) \/ LeaveOrNap(w)
  PROVE  IInv'
  <1>a. ControlTypes /\ StackTypes /\ RingTypes /\ RingsHoldTasks
    BY DEF IInv
  <1>1. CASE PopOwn(w)
    <2>1. UNCHANGED <<prog, ready, shutdown, mem, opc, ci, submitted, task, fault>>
      BY <1>1 DEF PopOwn, outside
    <2>2. CASE Empty(w)
      <3>1. /\ wpc' = [wpc EXCEPT ![w] = "scan"] /\ at' = [at EXCEPT ![w] = 0]
            /\ UNCHANGED deques /\ UNCHANGED stack
        BY <1>1, <2>2 DEF PopOwn
      <3>2. ControlTypes'
        BY <1>a, <2>1, <3>1, PoolAssumption DEF ControlTypes
      <3>3. QED
        BY <1>a, <3>1, <3>2, RingsUnchanged DEF IInv, StackTypes
    <2>3. CASE ~Empty(w)
      <3>1. PopBottom(w) /\ Runs(w, Bottom(w))
        BY <1>1, <2>3 DEF PopOwn
      <3>2. Bottom(w) \in Tasks /\ RingTypes' /\ RingsHoldTasks'
        BY <1>a, <2>3, <3>1, PopKeepsRings
      <3>3. StackTypes' /\ ControlTypes'
        BY <1>a, <2>1, <3>1, <3>2, RunsKeeps DEF ControlTypes
      <3>4. QED
        BY <3>2, <3>3 DEF IInv
    <2>4. QED
      BY <2>2, <2>3
  <1>2. CASE Scan(w)
    <2> DEFINE v == at[w]
    <2>1. v \in Workers /\ v + 1 \in 0 .. N
      BY <1>a, <1>2, PoolAssumption DEF Scan, ControlTypes, Workers
    <2>2. UNCHANGED <<prog, ready, shutdown, mem, opc, ci, submitted, task>>
      BY <1>2 DEF Scan, Touches, outside
    <2>3. ASSUME Skips(w), UNCHANGED fault PROVE IInv'
      <3>1. /\ at' = [at EXCEPT ![w] = v + 1] /\ UNCHANGED wpc
            /\ UNCHANGED deques /\ UNCHANGED stack
        BY <2>3 DEF Skips
      <3>2. ControlTypes'
        BY <1>a, <2>1, <2>2, <2>3, <3>1 DEF ControlTypes
      <3>3. QED
        BY <1>a, <3>1, <3>2, RingsUnchanged DEF IInv, StackTypes
    <2>4. CASE v # w /\ mem[v] = "live" /\ ~Empty(v)
      <3>1. StealTop(v) /\ Runs(w, Top(v)) /\ UNCHANGED fault
        BY <1>2, <2>4 DEF Scan, Touches
      <3>2. Top(v) \in Tasks /\ RingTypes' /\ RingsHoldTasks'
        BY <1>a, <2>1, <2>4, <3>1, StealKeepsRings
      <3>3. StackTypes' /\ ControlTypes'
        BY <1>a, <2>2, <3>1, <3>2, RunsKeeps DEF ControlTypes
      <3>4. QED
        BY <3>2, <3>3 DEF IInv
    <2>5. CASE v # w /\ mem[v] # "live"
      <3>1. fault' = mem[v] /\ UNCHANGED <<deques, wpc, at, stack>>
        BY <1>2, <2>5 DEF Scan, Touches
      <3>2. ControlTypes'
        BY <1>a, <2>1, <2>2, <2>5, <3>1 DEF ControlTypes
      <3>3. QED
        BY <1>a, <3>1, <3>2, RingsUnchanged DEF IInv, StackTypes
    <2>6. CASE v = w \/ (mem[v] = "live" /\ Empty(v))
      <3>1. Skips(w) /\ UNCHANGED fault
        BY <1>2, <2>6 DEF Scan, Touches
      <3>2. QED
        BY <2>3, <3>1
    <2>7. QED
      BY <2>4, <2>5, <2>6
  <1>3. CASE LeaveOrNap(w)
    <2>1. ControlTypes'
      BY <1>a, <1>3 DEF LeaveOrNap, ControlTypes, outside
    <2>2. QED
      BY <1>a, <1>3, <2>1, RingsUnchanged DEF LeaveOrNap, IInv, StackTypes
  <1>4. QED
    BY <1>1, <1>2, <1>3

\* The steps of the external thread in init and shutdown.
LEMMA OutsideStepKeeps ==
  ASSUME IInv, OutsideStep
  PROVE  IInv'
  <1>a. ControlTypes /\ StackTypes /\ RingTypes /\ RingsHoldTasks
    BY DEF IInv
  <1>b. Outside \in Threads
    BY DEF Threads
  <1>c. ASSUME stack[Outside] # <<>>, Advance(Outside) PROVE StackTypes'
    <2>1. stack[Outside] \in Seq(FrameSet)
      BY <1>a, <1>b DEF StackTypes
    <2>2. Frame(Outside) \in FrameSet /\ Tail(stack[Outside]) \in Seq(FrameSet)
      BY <1>c, <2>1, HeadTailProperties DEF Frame
    <2> DEFINE next == [Frame(Outside) EXCEPT !.pos = @ + 1]
    <2>3. <<next>> \in Seq(FrameSet)
      BY <2>2 DEF FrameSet
    <2>4. <<next>> \o Tail(stack[Outside]) \in Seq(FrameSet)
      BY <2>2, <2>3, ConcatProperties
    <2>5. QED
      BY <1>a, <1>c, <2>4 DEF StackTypes, Advance, Advanced
  <1>1. CASE JobStep(Outside)
    BY <1>1, <1>b, JobStepKeeps
  <1>2. CASE InitBegins
    <2>0. 0 \in 0 .. N /\ 0 \in Nat
      BY PoolAssumption
    <2>1. ControlTypes'
      BY <1>a, <1>2, <2>0 DEF InitBegins, ControlTypes
    <2>2. QED
      BY <1>a, <1>2, <2>1, RingsUnchanged DEF InitBegins, IInv, StackTypes
  <1>3. CASE InitAgain \/ ShutdownNotReady
    <2>1. ControlTypes'
      BY <1>a, <1>3 DEF InitAgain, ShutdownNotReady, ControlTypes, outside
    <2>2. StackTypes'
      BY <1>3, <1>c DEF InitAgain, ShutdownNotReady, At
    <2>3. QED
      BY <1>a, <1>3, <2>1, <2>2, RingsUnchanged
      DEF InitAgain, ShutdownNotReady, IInv
  <1>4. CASE StartWorker
    <2>1. ci \in Workers /\ ci + 1 \in 0 .. N
      BY <1>a, <1>4, PoolAssumption DEF StartWorker, ControlTypes, Workers
    <2>2. ControlTypes'
      BY <1>a, <1>4, <2>1 DEF StartWorker, ControlTypes
    <2>3. 0 \in Indices
      BY PoolAssumption DEF Indices
    <2>4. RingTypes'
      BY <1>a, <1>4, <2>1, <2>3 DEF StartWorker, RingTypes
    <2>5. ASSUME NEW w \in Workers, NEW k \in Indices, Within(head'[w], tail'[w], k)
          PROVE  jobs'[w][k] \in Tasks
      <3>1. CASE w = ci
        BY <1>a, <1>4, <2>5, <3>1 DEF StartWorker, RingTypes, Within, Indices
      <3>2. CASE w # ci
        BY <1>a, <1>4, <2>5, <3>2 DEF StartWorker, RingTypes, RingsHoldTasks
      <3>3. QED
        BY <3>1, <3>2
    <2>6. QED
      BY <1>a, <1>4, <2>2, <2>4, <2>5 DEF StartWorker, IInv, StackTypes, RingsHoldTasks
  <1>5. CASE InitReturns
    <2>1. ControlTypes'
      BY <1>a, <1>5 DEF InitReturns, ControlTypes
    <2>2. StackTypes'
      BY <1>a, <1>5, <1>c DEF InitReturns, At, StackTypes
    <2>3. QED
      BY <1>a, <1>5, <2>1, <2>2, RingsUnchanged DEF InitReturns, IInv
  <1>6. CASE ShutdownBegins
    <2>1. ControlTypes'
      BY <1>a, <1>6, PoolAssumption DEF ShutdownBegins, ControlTypes
    <2>2. QED
      BY <1>a, <1>6, <2>1, RingsUnchanged DEF ShutdownBegins, IInv, StackTypes
  <1>7. CASE JoinWorker
    <2>1. ci \in Workers /\ ci + 1 \in 0 .. N
      BY <1>a, <1>7, PoolAssumption DEF JoinWorker, ControlTypes, Workers
    <2>2. ControlTypes'
      BY <1>a, <1>7, <2>1 DEF JoinWorker, ControlTypes
    <2>3. QED
      BY <1>a, <1>7, <2>2, RingsUnchanged DEF JoinWorker, IInv, StackTypes
  <1>8. CASE ShutdownReturns
    <2>0. stack[Outside] # <<>>
      BY <1>8 DEF ShutdownReturns, At
    <2>1. ControlTypes'
      BY <1>a, <1>8 DEF ShutdownReturns, ControlTypes
    <2>2. StackTypes'
      BY <1>8, <1>c, <2>0 DEF ShutdownReturns
    <2>3. QED
      BY <1>a, <1>8, <2>1, <2>2, RingsUnchanged DEF ShutdownReturns, IInv
  <1>9. QED
    BY <1>1, <1>2, <1>3, <1>4, <1>5, <1>6, <1>7, <1>8 DEF OutsideStep

\* Every step keeps the invariant.
LEMMA NextIInv == IInv /\ [Next]_vars => IInv'
  <1> SUFFICES ASSUME IInv, [Next]_vars PROVE IInv'
    OBVIOUS
  <1>1. CASE OutsideStep
    BY <1>1, OutsideStepKeeps
  <1>2. ASSUME NEW w \in Workers, WorkerStep(w) PROVE IInv'
    <2>1. w \in Threads
      BY DEF Threads
    <2>2. QED
      BY <1>2, <2>1, JobStepKeeps, LoopStepKeeps DEF WorkerStep
  <1>3. CASE UNCHANGED vars
    BY <1>3, RingsUnchanged DEF vars, IInv, ControlTypes, StackTypes
  <1>4. QED
    BY <1>1, <1>2, <1>3 DEF Next

(* The executor's state stays well typed: indices stay in the rings, and   *)
(* what a ring holds between head and tail is always a submitted task, so  *)
(* no pop and no steal ever runs an unwritten slot.                        *)
THEOREM TypeCorrect == Spec => []TypeOK
  <1>1. QED
    BY InitIInv, NextIInv, IInvGivesTypeOK, PTL DEF Spec
-----------------------------------------------------------------------------
(* Dead deques are touched only at the edges of the pool's life *)

\* A worker that is inside no job has an empty stack.
IdleStacks == \A w \in Workers : wpc[w] # "busy" => stack[w] = <<>>

\* How far init and shutdown are tells which deques live and who is running.
LifeStages ==
  /\ opc = "starting" =>
       /\ ~ready
       /\ \A w \in Workers :
            /\ mem[w] = IF w < ci THEN "live" ELSE "raw"
            /\ w >= ci => wpc[w] = "unborn"
  /\ opc = "run" /\ ready => \A w \in Workers : mem[w] = "live"
  /\ opc = "run" /\ ~ready => \A w \in Workers : wpc[w] \in {"unborn", "gone"}
  /\ opc = "stopping" =>
       /\ ready
       /\ \A w \in Workers :
            /\ mem[w] = IF w < ci THEN "freed" ELSE "live"
            /\ w < ci => wpc[w] = "gone"

EdgeInv == IdleStacks /\ LifeStages /\ FaultsAtEdges

LEMMA InitEdgeInv == Init => EdgeInv
  BY PoolAssumption
  DEF Init, EdgeInv, IdleStacks, LifeStages, FaultsAtEdges, Workers, Threads, Outside

\* Only busy workers hold frames, so a job's step keeps the others' empty.
LEMMA BusyStackMoves ==
  ASSUME IInv, IdleStacks, NEW th \in Threads, stack[th] # <<>>,
         UNCHANGED wpc, NEW s, stack' = [stack EXCEPT ![th] = s]
  PROVE  IdleStacks'
  BY DEF IdleStacks, IInv, StackTypes, Threads

\* A step that leaves init, shutdown, memory, workers and fault alone.
LEMMA StagesUnchanged ==
  ASSUME LifeStages, FaultsAtEdges, UNCHANGED <<ready, mem, opc, ci, wpc, fault>>
  PROVE  LifeStages' /\ FaultsAtEdges'
  BY DEF LifeStages, FaultsAtEdges

\* Touching a dead deque of a worker is an edge: raw while init runs, freed
\* while shutdown does.
LEMMA DeadDequeIsAtAnEdge ==
  ASSUME IInv, LifeStages, NEW v \in Workers, mem[v] # "live",
         ~ (opc = "run" /\ ~ready), fault' = mem[v],
         UNCHANGED <<ready, mem, opc, ci, wpc>>
  PROVE  LifeStages' /\ FaultsAtEdges'
  BY DEF IInv, ControlTypes, LifeStages, FaultsAtEdges

LEMMA JobStepKeepsEdges ==
  ASSUME IInv, EdgeInv, NEW th \in Threads, JobStep(th)
  PROVE  EdgeInv'
  <1>a. /\ ControlTypes /\ StackTypes /\ IdleStacks /\ LifeStages /\ FaultsAtEdges
        /\ stack \in [Threads -> Seq(FrameSet)]
    BY DEF IInv, EdgeInv, StackTypes
  <1>1. CASE Submit(th)
    <2> DEFINE w == submitted % N
    <2>1. w \in Workers /\ stack[th] # <<>> /\ ready
      BY <1>a, <1>1, RoundRobin DEF ControlTypes, Submit, At
    <2>2. UNCHANGED <<ready, mem, opc, ci>>
      BY <1>1 DEF Submit, outside
    <2>3. CASE \A v \in Reached(w) : mem[v] = "live"
      <3>1. /\ UNCHANGED <<wpc, fault>>
            /\ \E s : stack' = [stack EXCEPT ![th] = s]
        BY <1>1, <2>3 DEF Submit, Touches, Advance
      <3>2. IdleStacks'
        BY <1>a, <2>1, <3>1, BusyStackMoves
      <3>3. QED
        BY <1>a, <2>2, <3>1, <3>2, StagesUnchanged DEF EdgeInv
    <2>4. CASE ~ \A v \in Reached(w) : mem[v] = "live"
      <3>1. PICK v \in Reached(w) : mem[v] # "live" /\ fault' = mem[v]
        BY <1>1, <2>4 DEF Submit, Touches
      <3>2. UNCHANGED <<wpc, stack>>
        BY <1>1, <2>4 DEF Submit, Touches
      <3>3. v \in Workers
        BY <2>1 DEF Reached
      <3>4. LifeStages' /\ FaultsAtEdges'
        BY <1>a, <2>1, <2>2, <3>1, <3>2, <3>3, DeadDequeIsAtAnEdge
      <3>5. QED
        BY <1>a, <3>2, <3>4 DEF EdgeInv, IdleStacks
    <2>5. QED
      BY <2>3, <2>4
  <1>2. CASE Join(th)
    <2>1. /\ stack[th] # <<>> /\ stack' = [stack EXCEPT ![th] = Advanced(th)]
          /\ UNCHANGED <<ready, mem, opc, ci, wpc, fault>>
      BY <1>2 DEF Join, At, Advance, outside
    <2>2. IdleStacks'
      BY <1>a, <2>1, BusyStackMoves
    <2>3. QED
      BY <1>a, <2>1, <2>2, StagesUnchanged DEF EdgeInv
  <1>3. CASE JobReturns(th)
    <2>1. /\ stack[th] # <<>> /\ stack' = [stack EXCEPT ![th] = Tail(@)]
          /\ UNCHANGED <<ready, mem, opc, ci, fault>>
      BY <1>3 DEF JobReturns, outside
    <2>2. CASE th \in Workers /\ Len(stack[th]) = 1
      <3>1. wpc' = [wpc EXCEPT ![th] = "pop"] /\ wpc[th] = "busy"
        BY <1>3, <1>a, <2>1, <2>2 DEF JobReturns, IdleStacks
      <3>2. stack'[th] = <<>>
        <4>1. Tail(stack[th]) = <<>>
          BY <1>a, <2>1, <2>2, HeadTailProperties, EmptySeq
        <4>2. QED
          BY <1>a, <2>1, <4>1
      <3>3. IdleStacks'
        BY <1>a, <2>1, <2>2, <3>1, <3>2 DEF IdleStacks, ControlTypes, Threads
      <3>4. LifeStages'
        BY <1>a, <2>1, <2>2, <3>1 DEF LifeStages, ControlTypes
      <3>5. QED
        BY <1>a, <2>1, <3>3, <3>4 DEF EdgeInv, FaultsAtEdges
    <2>3. CASE ~(th \in Workers /\ Len(stack[th]) = 1)
      <3>1. UNCHANGED wpc
        BY <1>3, <2>3 DEF JobReturns
      <3>2. IdleStacks'
        BY <1>a, <2>1, <3>1, BusyStackMoves
      <3>3. QED
        BY <1>a, <2>1, <3>1, <3>2, StagesUnchanged DEF EdgeInv
    <2>4. QED
      BY <2>2, <2>3
  <1>4. QED
    BY <1>1, <1>2, <1>3 DEF JobStep

LEMMA LoopStepKeepsEdges ==
  ASSUME IInv, EdgeInv, NEW w \in Workers, PopOwn(w) \/ Scan(w) \/ LeaveOrNap(w)
  PROVE  EdgeInv'
  <1>a. /\ ControlTypes /\ StackTypes /\ IdleStacks /\ LifeStages /\ FaultsAtEdges
        /\ wpc \in [Workers -> {"unborn", "pop", "scan", "busy", "gone"}]
        /\ w \in Threads /\ stack \in [Threads -> Seq(FrameSet)]
    BY DEF IInv, EdgeInv, StackTypes, ControlTypes, Threads
  <1>b. /\ wpc[w] \in {"pop", "scan"} /\ stack[w] = <<>>
        /\ UNCHANGED <<ready, mem, opc, ci>>
    BY <1>a DEF PopOwn, Scan, LeaveOrNap, IdleStacks, outside
  \* Another place in the loop, or a job to run, is no new stage of life.
  <1>1. ASSUME UNCHANGED fault,
               NEW p \in {"pop", "scan", "busy", "gone"},
               wpc' = [wpc EXCEPT ![w] = p]
        PROVE  LifeStages' /\ FaultsAtEdges'
    BY <1>a, <1>b, <1>1 DEF LifeStages, FaultsAtEdges
  <1>2. ASSUME UNCHANGED stack,
               NEW p \in {"pop", "scan", "gone"}, wpc' = [wpc EXCEPT ![w] = p]
        PROVE  IdleStacks'
    BY <1>a, <1>b, <1>2 DEF IdleStacks
  <1>3. ASSUME NEW t, Runs(w, t) PROVE IdleStacks'
    BY <1>a, <1>3 DEF IdleStacks, Runs
  <1>4. CASE PopOwn(w)
    <2>1. UNCHANGED fault
      BY <1>4 DEF PopOwn
    <2>2. CASE Empty(w)
      <3>1. wpc' = [wpc EXCEPT ![w] = "scan"] /\ UNCHANGED stack
        BY <1>4, <2>2 DEF PopOwn
      <3>2. QED
        BY <1>1, <1>2, <2>1, <3>1 DEF EdgeInv
    <2>3. CASE ~Empty(w)
      <3>1. Runs(w, Bottom(w))
        BY <1>4, <2>3 DEF PopOwn
      <3>2. wpc' = [wpc EXCEPT ![w] = "busy"]
        BY <3>1 DEF Runs
      <3>3. QED
        BY <1>1, <1>3, <2>1, <3>1, <3>2 DEF EdgeInv
    <2>4. QED
      BY <2>2, <2>3
  <1>5. CASE Scan(w)
    <2> DEFINE v == at[w]
    <2>1. v \in Workers
      BY <1>a, <1>5, PoolAssumption DEF Scan, ControlTypes, Workers
    <2>2. CASE v # w /\ mem[v] # "live"
      <3>1. fault' = mem[v] /\ UNCHANGED <<wpc, stack>>
        BY <1>5, <2>2 DEF Scan, Touches
      <3>2. ~ (opc = "run" /\ ~ready)
        BY <1>a, <1>b DEF LifeStages
      <3>3. LifeStages' /\ FaultsAtEdges'
        BY <1>a, <1>b, <2>1, <2>2, <3>1, <3>2, DeadDequeIsAtAnEdge
      <3>4. QED
        BY <1>a, <3>1, <3>3 DEF EdgeInv, IdleStacks
    <2>3. CASE v # w /\ mem[v] = "live" /\ ~Empty(v)
      <3>1. Runs(w, Top(v)) /\ UNCHANGED fault
        BY <1>5, <2>3 DEF Scan, Touches
      <3>2. wpc' = [wpc EXCEPT ![w] = "busy"]
        BY <3>1 DEF Runs
      <3>3. QED
        BY <1>1, <1>3, <3>1, <3>2 DEF EdgeInv
    <2>4. CASE v = w \/ (mem[v] = "live" /\ Empty(v))
      <3>1. UNCHANGED <<wpc, stack, fault>>
        BY <1>5, <2>4 DEF Scan, Touches, Skips
      <3>2. QED
        BY <1>a, <1>b, <3>1, StagesUnchanged DEF EdgeInv, IdleStacks
    <2>5. QED
      BY <2>2, <2>3, <2>4
  <1>6. CASE LeaveOrNap(w)
    <2>1. UNCHANGED <<fault, stack>>
      BY <1>6 DEF LeaveOrNap
    <2>2. \/ wpc' = [wpc EXCEPT ![w] = "gone"]
          \/ wpc' = [wpc EXCEPT ![w] = "pop"]
      BY <1>6 DEF LeaveOrNap
    <2>3. QED
      BY <1>1, <1>2, <2>1, <2>2 DEF EdgeInv
  <1>7. QED
    BY <1>4, <1>5, <1>6

LEMMA OutsideStepKeepsEdges ==
  ASSUME IInv, EdgeInv, OutsideStep
  PROVE  EdgeInv'
  <1>a. /\ ControlTypes /\ StackTypes /\ IdleStacks /\ LifeStages /\ FaultsAtEdges
        /\ fault = "none" /\ Outside \in Threads
    BY DEF IInv, EdgeInv, OutsideStep, Threads
  <1>b. ASSUME UNCHANGED wpc,
               \/ UNCHANGED stack
               \/ stack[Outside] # <<>> /\ Advance(Outside)
        PROVE  IdleStacks'
    <2>1. CASE UNCHANGED stack
      BY <1>a, <1>b, <2>1 DEF IdleStacks
    <2>2. CASE stack[Outside] # <<>> /\ Advance(Outside)
      BY <1>a, <1>b, <2>2, BusyStackMoves DEF Advance
    <2>3. QED
      BY <1>b, <2>1, <2>2
  <1>1. CASE JobStep(Outside)
    BY <1>a, <1>1, JobStepKeepsEdges
  <1>2. CASE InitBegins
    <2>1. IdleStacks'
      BY <1>a, <1>2 DEF InitBegins, IdleStacks, LifeStages
    <2>2. LifeStages' /\ FaultsAtEdges'
      BY <1>a, <1>2 DEF InitBegins, LifeStages, FaultsAtEdges, Workers
    <2>3. QED
      BY <2>1, <2>2 DEF EdgeInv
  <1>3. CASE InitAgain \/ ShutdownNotReady
    <2>1. UNCHANGED <<ready, mem, opc, ci, wpc, fault>>
      BY <1>3 DEF InitAgain, ShutdownNotReady, outside
    <2>2. stack[Outside] # <<>> /\ Advance(Outside)
      BY <1>3 DEF InitAgain, ShutdownNotReady, At
    <2>3. QED
      BY <1>a, <1>b, <2>1, <2>2, StagesUnchanged DEF EdgeInv
  <1>4. CASE StartWorker
    <2>1. ci \in Workers /\ ci \in Nat /\ wpc[ci] = "unborn"
      BY <1>a, <1>4, PoolAssumption
      DEF StartWorker, ControlTypes, Workers, LifeStages
    <2>2. IdleStacks'
      BY <1>a, <1>4, <2>1 DEF StartWorker, IdleStacks, ControlTypes
    <2>3. LifeStages'
      <3>1. /\ opc' = "starting" /\ ~ready' /\ ci' = ci + 1
            /\ mem' = [mem EXCEPT ![ci] = "live"]
            /\ wpc' = [wpc EXCEPT ![ci] = "pop"]
        BY <1>a, <1>4 DEF StartWorker, LifeStages
      <3>2. ASSUME NEW w \in Workers
            PROVE  /\ mem'[w] = IF w < ci + 1 THEN "live" ELSE "raw"
                   /\ w >= ci + 1 => wpc'[w] = "unborn"
        <4>1. /\ mem[w] = IF w < ci THEN "live" ELSE "raw"
              /\ w >= ci => wpc[w] = "unborn"
          BY <1>a, <1>4 DEF StartWorker, LifeStages
        <4>2. w \in Int
          BY PoolAssumption DEF Workers
        <4>3. QED
          BY <1>a, <2>1, <3>1, <4>1, <4>2 DEF ControlTypes
      <3>3. QED
        BY <3>1, <3>2 DEF LifeStages
    <2>4. QED
      BY <1>a, <1>4, <2>2, <2>3 DEF StartWorker, EdgeInv, FaultsAtEdges
  <1>5. CASE InitReturns
    <2>1. /\ UNCHANGED <<wpc, mem, fault>> /\ ready' = TRUE /\ opc' = "run"
          /\ opc = "starting" /\ ci = N
      BY <1>5 DEF InitReturns
    <2>2. IdleStacks'
      BY <1>5, <1>b, <2>1 DEF InitReturns, At
    <2>3. \A w \in Workers : mem[w] = "live"
      BY <1>a, <2>1, PoolAssumption DEF LifeStages, Workers
    <2>4. QED
      BY <1>a, <2>1, <2>2, <2>3 DEF EdgeInv, LifeStages, FaultsAtEdges
  <1>6. CASE ShutdownBegins
    <2>1. /\ opc = "run" /\ ready /\ opc' = "stopping" /\ ci' = 0
          /\ UNCHANGED <<ready, mem, wpc, stack, fault>>
      BY <1>6 DEF ShutdownBegins
    <2>2. \A w \in Workers : mem[w] = "live" /\ ~(w < 0)
      BY <1>a, <2>1, PoolAssumption DEF LifeStages, Workers
    <2>3. QED
      BY <1>a, <1>b, <2>1, <2>2 DEF EdgeInv, LifeStages, FaultsAtEdges
  <1>7. CASE JoinWorker
    <2>1. /\ opc = "stopping" /\ opc' = "stopping" /\ ci' = ci + 1
          /\ wpc[ci] = "gone" /\ mem' = [mem EXCEPT ![ci] = "freed"]
          /\ UNCHANGED <<ready, wpc, stack, fault>>
      BY <1>7 DEF JoinWorker
    <2>2. ci \in Workers /\ ci \in Nat
      BY <1>a, <1>7, PoolAssumption DEF JoinWorker, ControlTypes, Workers
    <2>3. ASSUME NEW w \in Workers
          PROVE  /\ mem'[w] = IF w < ci + 1 THEN "freed" ELSE "live"
                 /\ w < ci + 1 => wpc[w] = "gone"
      <3>1. /\ mem[w] = IF w < ci THEN "freed" ELSE "live"
            /\ w < ci => wpc[w] = "gone"
        BY <1>a, <2>1 DEF LifeStages
      <3>2. w \in Int
        BY PoolAssumption DEF Workers
      <3>3. QED
        BY <1>a, <2>1, <2>2, <3>1, <3>2 DEF ControlTypes
    <2>4. LifeStages'
      BY <1>a, <2>1, <2>3 DEF LifeStages
    <2>5. QED
      BY <1>a, <1>b, <2>1, <2>4 DEF EdgeInv, FaultsAtEdges
  <1>8. CASE ShutdownReturns
    <2>1. /\ opc = "stopping" /\ ci = N /\ ready' = FALSE /\ opc' = "run"
          /\ UNCHANGED <<wpc, mem, fault>>
          /\ stack[Outside] # <<>> /\ Advance(Outside)
      BY <1>8 DEF ShutdownReturns, At
    <2>2. \A w \in Workers : wpc[w] = "gone"
      BY <1>a, <2>1, PoolAssumption DEF LifeStages, Workers
    <2>3. QED
      BY <1>a, <1>b, <2>1, <2>2 DEF EdgeInv, LifeStages, FaultsAtEdges
  <1>9. QED
    BY <1>1, <1>2, <1>3, <1>4, <1>5, <1>6, <1>7, <1>8 DEF OutsideStep

\* Every step keeps the stages of the pool's life.
LEMMA NextEdgeInv == IInv /\ EdgeInv /\ [Next]_vars => EdgeInv'
  <1> SUFFICES ASSUME IInv, EdgeInv, [Next]_vars PROVE EdgeInv'
    OBVIOUS
  <1>1. CASE OutsideStep
    BY <1>1, OutsideStepKeepsEdges
  <1>2. ASSUME NEW w \in Workers, WorkerStep(w) PROVE EdgeInv'
    <2>1. w \in Threads
      BY DEF Threads
    <2>2. QED
      BY <1>2, <2>1, JobStepKeepsEdges, LoopStepKeepsEdges DEF WorkerStep
  <1>3. CASE UNCHANGED vars
    BY <1>3 DEF vars, EdgeInv, IdleStacks, LifeStages, FaultsAtEdges
  <1>4. QED
    BY <1>1, <1>2, <1>3 DEF Next

(* However many workers there are and whatever the programs submit, a      *)
(* deque that is not made yet is touched only while buraaq_runtime_init is *)
(* in its loop, and one that is freed only while buraaq_runtime_shutdown   *)
(* is in its own: between the two every scan and every submit, of a worker *)
(* or from outside, finds live deques, and after a shutdown no worker runs.*)
THEOREM FaultsOnlyAtEdges == Spec => []FaultsAtEdges
  <1>1. EdgeInv => FaultsAtEdges
    BY DEF EdgeInv
  <1>2. QED
    BY InitIInv, NextIInv, InitEdgeInv, NextEdgeInv, <1>1, PTL DEF Spec

-----------------------------------------------------------------------------
(* Where a task is: on a thread's stack, or in a worker's ring *)

\* The jobs of a stack, each at most once, and how far each of them is.
On(s) == {s[k].task : k \in 1 .. Len(s)}
Distinct(s) == \A k, l \in 1 .. Len(s) : s[k].task = s[l].task => k = l
Beyond(s, b, i) == \E k \in 1 .. Len(s) : s[k].task = b /\ s[k].pos > i

\* What a frame on top of a stack adds to it.
LEMMA PushedStack ==
  ASSUME NEW s \in Seq(FrameSet), NEW f \in FrameSet, NEW r, r = <<f>> \o s
  PROVE  /\ On(r) = On(s) \cup {f.task}
         /\ Distinct(r) <=> Distinct(s) /\ f.task \notin On(s)
         /\ \A b, i : Beyond(r, b, i) <=> Beyond(s, b, i) \/ (b = f.task /\ f.pos > i)
  <1>1. /\ r \in Seq(FrameSet) /\ Len(r) = Len(s) + 1 /\ r[1] = f
        /\ \A k \in 1 .. Len(s) : r[k + 1] = s[k]
    BY ConcatProperties
  <1>2. /\ Len(s) \in Nat
        /\ \A k \in 1 .. Len(r) : k = 1 \/ k - 1 \in 1 .. Len(s)
        /\ \A k \in 1 .. Len(s) : k + 1 \in 1 .. Len(r) /\ k + 1 # 1
        /\ 1 \in 1 .. Len(r)
    BY <1>1
  <1>3. \A k \in 1 .. Len(r) : k # 1 => r[k] = s[k - 1]
    BY <1>1, <1>2
  <1>4. On(r) = On(s) \cup {f.task}
    <2>1. ASSUME NEW x \in On(r) PROVE x \in On(s) \cup {f.task}
      BY <1>1, <1>2, <1>3 DEF On
    <2>2. ASSUME NEW x \in On(s) \cup {f.task} PROVE x \in On(r)
      BY <1>1, <1>2 DEF On
    <2>3. QED
      BY <2>1, <2>2
  <1>5. ASSUME Distinct(r) PROVE Distinct(s) /\ f.task \notin On(s)
    <2>1. ASSUME NEW k \in 1 .. Len(s), NEW l \in 1 .. Len(s), s[k].task = s[l].task
          PROVE  k = l
      <3>0. k + 1 \in 1 .. Len(r) /\ l + 1 \in 1 .. Len(r) /\ r[k + 1].task = r[l + 1].task
        BY <1>1, <1>2, <2>1
      <3>1. k + 1 = l + 1
        BY <1>5, <3>0 DEF Distinct
      <3>2. QED
        BY <3>1
    <2>2. ASSUME NEW k \in 1 .. Len(s), s[k].task = f.task PROVE FALSE
      BY <1>1, <1>2, <1>5, <2>2 DEF Distinct
    <2>3. QED
      BY <2>1, <2>2 DEF Distinct, On
  <1>6. ASSUME Distinct(s), f.task \notin On(s) PROVE Distinct(r)
    <2>1. ASSUME NEW k \in 1 .. Len(r), NEW l \in 1 .. Len(r), r[k].task = r[l].task
          PROVE  k = l
      <3>1. CASE k = 1 \/ l = 1
        BY <1>1, <1>2, <1>3, <1>6, <2>1, <3>1 DEF On
      <3>2. CASE k # 1 /\ l # 1
        <4>1. k - 1 = l - 1
          BY <1>2, <1>3, <1>6, <2>1, <3>2 DEF Distinct
        <4>2. QED
          BY <4>1
      <3>3. QED
        BY <3>1, <3>2
    <2>2. QED
      BY <2>1 DEF Distinct
  <1>7. ASSUME NEW b, NEW i
        PROVE  Beyond(r, b, i) <=> Beyond(s, b, i) \/ (b = f.task /\ f.pos > i)
    <2>1. ASSUME Beyond(r, b, i) PROVE Beyond(s, b, i) \/ (b = f.task /\ f.pos > i)
      BY <1>1, <1>2, <1>3, <2>1 DEF Beyond
    <2>2. ASSUME Beyond(s, b, i) \/ (b = f.task /\ f.pos > i) PROVE Beyond(r, b, i)
      BY <1>1, <1>2, <2>2 DEF Beyond
    <2>3. QED
      BY <2>1, <2>2
  <1>8. QED
    BY <1>4, <1>5, <1>6, <1>7

LEMMA EmptyStack ==
  /\ On(<<>>) = {} /\ Distinct(<<>>)
  /\ \A b, i : ~Beyond(<<>>, b, i)
  BY DEF On, Distinct, Beyond

\* A stack that is not empty is its innermost frame on top of the rest.
LEMMA SplitStack ==
  ASSUME NEW s \in Seq(FrameSet), s # <<>>
  PROVE  s = <<Head(s)>> \o Tail(s) /\ Head(s) \in FrameSet /\ Tail(s) \in Seq(FrameSet)
  <1>1. /\ Head(s) \in FrameSet /\ Tail(s) \in Seq(FrameSet)
        /\ Len(Tail(s)) = Len(s) - 1 /\ Len(s) \in Nat \ {0} /\ Head(s) = s[1]
        /\ \A k \in 1 .. Len(s) - 1 : Tail(s)[k] = s[k + 1]
    BY HeadTailProperties, EmptySeq
  <1> DEFINE r == <<Head(s)>> \o Tail(s)
  <1>2. /\ r \in Seq(FrameSet) /\ Len(r) = Len(s) /\ r[1] = s[1]
        /\ \A k \in 1 .. Len(s) - 1 : r[k + 1] = s[k + 1]
    BY <1>1, ConcatProperties
  <1>3. \A k \in 1 .. Len(s) : r[k] = s[k]
    <2>1. ASSUME NEW k \in 1 .. Len(s), k # 1 PROVE r[k] = s[k]
      <3>1. k - 1 \in 1 .. Len(s) - 1 /\ (k - 1) + 1 = k
        BY <1>1, <2>1
      <3>2. QED
        BY <1>2, <3>1
    <2>2. QED
      BY <1>2, <2>1
  <1>4. QED
    BY <1>1, <1>2, <1>3, SeqEqual

\* A thread's stack is its innermost frame on top of the rest.
LEMMA TopFrame ==
  ASSUME StackTypes, NEW th \in Threads, stack[th] # <<>>
  PROVE  /\ Frame(th) \in FrameSet /\ Tail(stack[th]) \in Seq(FrameSet)
         /\ On(stack[th]) = On(Tail(stack[th])) \cup {Frame(th).task}
         /\ Distinct(stack[th]) <=>
              Distinct(Tail(stack[th])) /\ Frame(th).task \notin On(Tail(stack[th]))
         /\ \A b, i : Beyond(stack[th], b, i) <=>
              Beyond(Tail(stack[th]), b, i) \/ (b = Frame(th).task /\ Frame(th).pos > i)
  <1>1. stack[th] \in Seq(FrameSet)
    BY DEF StackTypes
  <1>2. /\ stack[th] = <<Frame(th)>> \o Tail(stack[th])
        /\ Frame(th) \in FrameSet /\ Tail(stack[th]) \in Seq(FrameSet)
    BY <1>1, SplitStack DEF Frame
  <1>3. QED
    BY <1>2, PushedStack

\* Advancing adds the operation that was at the innermost frame to those the
\* thread has put behind it, and moves no job.
LEMMA AdvancedStack ==
  ASSUME StackTypes, NEW th \in Threads, stack[th] # <<>>
  PROVE  /\ Advanced(th) \in Seq(FrameSet)
         /\ On(Advanced(th)) = On(stack[th])
         /\ Distinct(Advanced(th)) <=> Distinct(stack[th])
         /\ \A b : \A i \in Nat : Beyond(Advanced(th), b, i) <=>
              Beyond(stack[th], b, i) \/ (b = Frame(th).task /\ i = Frame(th).pos)
  <1> DEFINE f == [Frame(th) EXCEPT !.pos = @ + 1]
  <1>1. /\ Frame(th) \in FrameSet /\ Tail(stack[th]) \in Seq(FrameSet)
        /\ On(stack[th]) = On(Tail(stack[th])) \cup {Frame(th).task}
        /\ Distinct(stack[th]) <=>
             Distinct(Tail(stack[th])) /\ Frame(th).task \notin On(Tail(stack[th]))
        /\ \A b, i : Beyond(stack[th], b, i) <=>
             Beyond(Tail(stack[th]), b, i) \/ (b = Frame(th).task /\ Frame(th).pos > i)
    BY TopFrame
  <1>2. f \in FrameSet /\ f.task = Frame(th).task /\ f.pos = Frame(th).pos + 1
    BY <1>1 DEF FrameSet
  <1>3. Advanced(th) = <<f>> \o Tail(stack[th])
    BY DEF Advanced
  <1>4. Advanced(th) \in Seq(FrameSet)
    BY <1>1, <1>2, <1>3, ConcatProperties
  <1> HIDE DEF f
  <1>5. /\ On(Advanced(th)) = On(Tail(stack[th])) \cup {f.task}
        /\ Distinct(Advanced(th)) <=>
             Distinct(Tail(stack[th])) /\ f.task \notin On(Tail(stack[th]))
        /\ \A b, i : Beyond(Advanced(th), b, i) <=>
             Beyond(Tail(stack[th]), b, i) \/ (b = f.task /\ f.pos > i)
    BY <1>1, <1>2, <1>3, PushedStack
  <1>6. Frame(th).pos \in Nat
    BY <1>1 DEF FrameSet
  <1>7. QED
    BY <1>1, <1>2, <1>4, <1>5, <1>6

\* A job at its beginning has nothing behind it yet.
LEMMA StartedJob ==
  ASSUME NEW s \in Seq(FrameSet), NEW t \in Tasks, NEW r,
         r = <<[task |-> t, pos |-> 1]>> \o s
  PROVE  /\ On(r) = On(s) \cup {t}
         /\ Distinct(r) <=> Distinct(s) /\ t \notin On(s)
         /\ \A b : \A i \in Nat \ {0} : Beyond(r, b, i) <=> Beyond(s, b, i)
  <1> DEFINE f == [task |-> t, pos |-> 1]
  <1>1. f \in FrameSet /\ f.task = t /\ f.pos = 1 /\ r = <<f>> \o s
    BY DEF FrameSet
  <1> HIDE DEF f
  <1>2. /\ On(r) = On(s) \cup {f.task}
        /\ Distinct(r) <=> Distinct(s) /\ f.task \notin On(s)
        /\ \A b, i : Beyond(r, b, i) <=> Beyond(s, b, i) \/ (b = f.task /\ f.pos > i)
    BY <1>1, PushedStack
  <1>3. QED
    BY <1>1, <1>2

-----------------------------------------------------------------------------
(* The rings *)

\* The slots in use, and the tasks in them.
Busy(w) == {k \in Indices : Within(head[w], tail[w], k)}
Queue(w) == {jobs[w][k] : k \in Busy(w)}
DistinctQueue(w) == \A k, l \in Busy(w) : jobs[w][k] = jobs[w][l] => k = l

LEMMA EmptyQueue ==
  ASSUME RingTypes, NEW w \in Workers
  PROVE  Empty(w) <=> Queue(w) = {}
  <1>1. head[w] \in Indices /\ tail[w] \in Indices
    BY DEF RingTypes
  <1>2. ~Empty(w) => head[w] \in Busy(w)
    BY <1>1 DEF Empty, Busy, Within, Indices
  <1>3. Empty(w) => Busy(w) = {}
    BY <1>1 DEF Empty, Busy, Within, Indices
  <1>4. QED
    BY <1>2, <1>3 DEF Queue

LEMMA PushQueues ==
  ASSUME RingTypes, NEW w \in Workers, NEW t \in Tasks, ~Full(w), PushBottom(w, t)
  PROVE  /\ Queue(w)' = Queue(w) \cup {t}
         /\ DistinctQueue(w) /\ t \notin Queue(w) => DistinctQueue(w)'
         /\ \A v \in Workers \ {w} : Queue(v)' = Queue(v)
                                    /\ (DistinctQueue(v) <=> DistinctQueue(v)')
  <1>1. head[w] \in Indices /\ tail[w] \in Indices
    BY DEF RingTypes
  <1>2. head'[w] = head[w] /\ tail'[w] = Slot(tail[w])
    BY DEF RingTypes, PushBottom
  <1>3. \A k \in Indices : jobs'[w][k] = IF k = tail[w] THEN t ELSE jobs[w][k]
    BY <1>1 DEF RingTypes, PushBottom
  <1>4. ASSUME NEW k \in Indices
        PROVE  Within(head[w], Slot(tail[w]), k) <=>
                 k = tail[w] \/ Within(head[w], tail[w], k)
    BY <1>1, SlotValue DEF Within, Full, Indices
  <1>5. tail[w] \notin Busy(w) /\ tail[w] \in Indices
    BY <1>1 DEF Busy, Within, Indices
  <1>6. Busy(w)' = Busy(w) \cup {tail[w]}
    BY <1>1, <1>2, <1>4 DEF Busy
  <1>7. Queue(w)' = Queue(w) \cup {t}
    <2>1. \A k \in Busy(w) : jobs'[w][k] = jobs[w][k]
      BY <1>3, <1>5 DEF Busy
    <2>2. jobs'[w][tail[w]] = t
      BY <1>1, <1>3
    <2>3. QED
      BY <1>6, <2>1, <2>2 DEF Queue
  <1>8. DistinctQueue(w) /\ t \notin Queue(w) => DistinctQueue(w)'
    <2>1. \A k \in Busy(w) : jobs'[w][k] = jobs[w][k] /\ jobs[w][k] \in Queue(w)
      BY <1>3, <1>5 DEF Busy, Queue
    <2>2. jobs'[w][tail[w]] = t
      BY <1>1, <1>3
    <2>3. QED
      BY <1>6, <2>1, <2>2 DEF DistinctQueue
  <1>9. ASSUME NEW v \in Workers \ {w}
        PROVE  Queue(v)' = Queue(v) /\ (DistinctQueue(v) <=> DistinctQueue(v)')
    BY DEF RingTypes, PushBottom, Queue, DistinctQueue, Busy
  <1>10. QED
    BY <1>7, <1>8, <1>9

\* What a pop and a steal have in common: one slot k leaves w's ring.
LEMMA LeaveQueues ==
  ASSUME RingTypes, NEW w \in Workers, NEW k \in Busy(w), DistinctQueue(w),
         Busy(w)' = Busy(w) \ {k}, UNCHANGED jobs,
         \A v \in Workers \ {w} : Busy(v)' = Busy(v)
  PROVE  /\ jobs[w][k] \in Queue(w) /\ Queue(w)' = Queue(w) \ {jobs[w][k]}
         /\ DistinctQueue(w)'
         /\ \A v \in Workers \ {w} : Queue(v)' = Queue(v)
                                    /\ (DistinctQueue(v) <=> DistinctQueue(v)')
  <1>1. jobs[w][k] \in Queue(w)
    BY DEF Queue
  <1>2. Queue(w)' = Queue(w) \ {jobs[w][k]}
    BY DEF Queue, DistinctQueue
  <1>3. DistinctQueue(w)'
    BY DEF DistinctQueue
  <1>4. \A v \in Workers \ {w} : Queue(v)' = Queue(v)
                                /\ (DistinctQueue(v) <=> DistinctQueue(v)')
    BY DEF Queue, DistinctQueue
  <1>5. QED
    BY <1>1, <1>2, <1>3, <1>4

LEMMA PopQueues ==
  ASSUME RingTypes, NEW w \in Workers, ~Empty(w), PopBottom(w), DistinctQueue(w)
  PROVE  /\ Bottom(w) \in Queue(w) /\ Queue(w)' = Queue(w) \ {Bottom(w)}
         /\ DistinctQueue(w)'
         /\ \A v \in Workers \ {w} : Queue(v)' = Queue(v)
                                    /\ (DistinctQueue(v) <=> DistinctQueue(v)')
  <1>1. head[w] \in Indices /\ tail[w] \in Indices
    BY DEF RingTypes
  <1>2. head'[w] = head[w] /\ tail'[w] = Before(tail[w]) /\ UNCHANGED jobs
    BY DEF RingTypes, PopBottom
  <1>3. Before(tail[w]) \in Busy(w)
    BY <1>1, BeforeValue DEF Busy, Within, Empty, Indices
  <1>4. ASSUME NEW k \in Indices
        PROVE  Within(head[w], Before(tail[w]), k) <=>
                 Within(head[w], tail[w], k) /\ k # Before(tail[w])
    BY <1>1, BeforeValue DEF Within, Empty, Indices
  <1>5. Busy(w)' = Busy(w) \ {Before(tail[w])}
    BY <1>2, <1>4 DEF Busy
  <1>6. \A v \in Workers \ {w} : Busy(v)' = Busy(v)
    BY DEF RingTypes, PopBottom, Busy
  <1>7. QED
    BY <1>2, <1>3, <1>5, <1>6, LeaveQueues DEF Bottom

LEMMA StealQueues ==
  ASSUME RingTypes, NEW w \in Workers, ~Empty(w), StealTop(w), DistinctQueue(w)
  PROVE  /\ Top(w) \in Queue(w) /\ Queue(w)' = Queue(w) \ {Top(w)}
         /\ DistinctQueue(w)'
         /\ \A v \in Workers \ {w} : Queue(v)' = Queue(v)
                                    /\ (DistinctQueue(v) <=> DistinctQueue(v)')
  <1>1. head[w] \in Indices /\ tail[w] \in Indices
    BY DEF RingTypes
  <1>2. head'[w] = Slot(head[w]) /\ tail'[w] = tail[w] /\ UNCHANGED jobs
    BY DEF RingTypes, StealTop
  <1>3. head[w] \in Busy(w)
    BY <1>1 DEF Busy, Within, Empty, Indices
  <1>4. ASSUME NEW k \in Indices
        PROVE  Within(Slot(head[w]), tail[w], k) <=>
                 Within(head[w], tail[w], k) /\ k # head[w]
    BY <1>1, SlotValue DEF Within, Empty, Indices
  <1>5. Busy(w)' = Busy(w) \ {head[w]}
    BY <1>2, <1>4 DEF Busy
  <1>6. \A v \in Workers \ {w} : Busy(v)' = Busy(v)
    BY DEF RingTypes, StealTop, Busy
  <1>7. QED
    BY <1>2, <1>3, <1>5, <1>6, LeaveQueues DEF Top

-----------------------------------------------------------------------------
(* Each job in one place, and what the bodies have put behind them *)

Bodies == Tasks \cup {Main}

Calls(b, i, op, t) ==
  i \in DOMAIN prog[b] /\ prog[b][i].op = op /\ prog[b][i].task = t

Held(t) ==
  (\E th \in Threads : t \in On(stack[th])) \/ (\E w \in Workers : t \in Queue(w))

\* A task is in a ring or on a stack exactly while it is pending, and there
\* once; the main program is on the external thread's stack.
Places ==
  /\ \A th \in Threads : Distinct(stack[th])
  /\ \A w \in Workers : DistinctQueue(w)
  /\ \A th, u \in Threads : th # u => On(stack[th]) \cap On(stack[u]) = {}
  /\ \A w, v \in Workers : w # v => Queue(w) \cap Queue(v) = {}
  /\ \A w \in Workers, th \in Threads : Queue(w) \cap On(stack[th]) = {}
  /\ \A t \in Tasks : task[t] = "pending" <=> Held(t)
  /\ Main \in On(stack[Outside])

\* The body b has put its i-th operation behind it.
Gone(b, i) ==
  \/ b \in Tasks /\ task[b] \in {"done", "freed"}
  \/ \E th \in Threads : Beyond(stack[th], b, i)

\* What was submitted is a task's struct, what was joined is freed, and
\* nothing exists that was not submitted.
Progress ==
  /\ \A b \in Bodies, i \in Nat \ {0}, t \in Tasks :
       Gone(b, i) => /\ (Calls(b, i, "submit", t) => task[t] # "none")
                     /\ (Calls(b, i, "join", t) => task[t] = "freed")
  /\ \A t \in Tasks :
       task[t] # "none" =>
         \E b \in Bodies, i \in Nat \ {0} : Calls(b, i, "submit", t) /\ Gone(b, i)

Pending == {t \in Tasks : task[t] = "pending"}

\* Pending jobs do not submit each other in a circle: of any set of them, one
\* was submitted by none of the set.
Grounded ==
  \A S \in SUBSET Pending : S # {} =>
    \E t \in S : \A b \in S, i \in Nat \ {0} : ~Calls(b, i, "submit", t)

\* Jobs are pending only between init and shutdown.
Quiet ==
  /\ Pending # {} => ready /\ opc = "run"
  /\ opc = "starting" \/ (opc = "run" /\ ready) => ~shutdown
  /\ \A w \in Workers : wpc[w] = "gone" => shutdown

JobsInv == Places /\ Progress /\ Grounded /\ Quiet /\ JoinsItsOwn(prog)

-----------------------------------------------------------------------------
(* What moves a job from place to place *)

StacksKept(X) ==
  \A th \in Threads \ X : On(stack[th])' = On(stack[th]) /\ Distinct(stack[th])'
QueuesKept(X) ==
  \A w \in Workers \ X : Queue(w)' = Queue(w) /\ DistinctQueue(w)'
TasksKept(X) ==
  \A t \in Tasks \ X : task'[t] = "pending" <=> task[t] = "pending"

LEMMA PlacesKept ==
  ASSUME Places, StacksKept({}), QueuesKept({}), TasksKept({})
  PROVE  Places'
  <1>1. \A u \in Threads : \A x : x \in On(stack[u])' <=> x \in On(stack[u])
    BY DEF StacksKept
  <1>2. \A w \in Workers : \A x : x \in Queue(w)' <=> x \in Queue(w)
    BY DEF QueuesKept
  <1>3. /\ \A u \in Threads : Distinct(stack[u])'
        /\ \A w \in Workers : DistinctQueue(w)'
    BY DEF StacksKept, QueuesKept
  <1>4. \A x \in Tasks : task'[x] = "pending" <=> Held(x)'
    BY <1>1, <1>2 DEF Places, Held, TasksKept
  <1>5. /\ \A u, v \in Threads : u # v => On(stack[u])' \cap On(stack[v])' = {}
        /\ \A w, v \in Workers : w # v => Queue(w)' \cap Queue(v)' = {}
        /\ \A w \in Workers, u \in Threads : Queue(w)' \cap On(stack[u])' = {}
        /\ Main \in On(stack[Outside])'
    BY <1>1, <1>2 DEF Places, Threads
  <1>6. QED
    BY <1>3, <1>4, <1>5 DEF Places

LEMMA PlacesEnterStack ==
  ASSUME Places, NEW t \in Tasks, task[t] # "pending", task'[t] = "pending",
         NEW th \in Threads, On(stack[th])' = On(stack[th]) \cup {t},
         Distinct(stack[th])', StacksKept({th}), QueuesKept({}), TasksKept({t})
  PROVE  Places'
  <1>1. /\ \A u \in Threads : t \notin On(stack[u])
        /\ \A w \in Workers : t \notin Queue(w)
    BY DEF Places, Held
  <1>2. \A u \in Threads : \A x : x \in On(stack[u])' <=>
          x \in On(stack[u]) \/ (u = th /\ x = t)
    BY DEF StacksKept
  <1>3. \A w \in Workers : \A x : x \in Queue(w)' <=> x \in Queue(w)
    BY DEF QueuesKept
  <1>4. \A x \in Tasks : task'[x] = "pending" <=> task[x] = "pending" \/ x = t
    BY DEF TasksKept
  <1>5. /\ \A u \in Threads : Distinct(stack[u])'
        /\ \A w \in Workers : DistinctQueue(w)'
    BY DEF StacksKept, QueuesKept
  <1>6. \A x \in Tasks : task'[x] = "pending" <=> Held(x)'
    BY <1>2, <1>3, <1>4 DEF Places, Held
  <1>7. /\ \A u, v \in Threads : u # v => On(stack[u])' \cap On(stack[v])' = {}
        /\ \A w, v \in Workers : w # v => Queue(w)' \cap Queue(v)' = {}
        /\ \A w \in Workers, u \in Threads : Queue(w)' \cap On(stack[u])' = {}
        /\ Main \in On(stack[Outside])'
    BY <1>1, <1>2, <1>3 DEF Places, Threads
  <1>8. QED
    BY <1>5, <1>6, <1>7 DEF Places

LEMMA PlacesEnterQueue ==
  ASSUME Places, NEW t \in Tasks, task[t] # "pending", task'[t] = "pending",
         NEW w \in Workers, Queue(w)' = Queue(w) \cup {t},
         DistinctQueue(w)', StacksKept({}), QueuesKept({w}), TasksKept({t})
  PROVE  Places'
  <1>1. /\ \A u \in Threads : t \notin On(stack[u])
        /\ \A v \in Workers : t \notin Queue(v)
    BY DEF Places, Held
  <1>2. \A u \in Threads : \A x : x \in On(stack[u])' <=> x \in On(stack[u])
    BY DEF StacksKept
  <1>3. \A v \in Workers : \A x : x \in Queue(v)' <=> x \in Queue(v) \/ (v = w /\ x = t)
    BY DEF QueuesKept
  <1>4. \A x \in Tasks : task'[x] = "pending" <=> task[x] = "pending" \/ x = t
    BY DEF TasksKept
  <1>5. /\ \A u \in Threads : Distinct(stack[u])'
        /\ \A v \in Workers : DistinctQueue(v)'
    BY DEF StacksKept, QueuesKept
  <1>6. \A x \in Tasks : task'[x] = "pending" <=> Held(x)'
    BY <1>2, <1>3, <1>4 DEF Places, Held
  <1>7. /\ \A u, v \in Threads : u # v => On(stack[u])' \cap On(stack[v])' = {}
        /\ \A u, v \in Workers : u # v => Queue(u)' \cap Queue(v)' = {}
        /\ \A v \in Workers, u \in Threads : Queue(v)' \cap On(stack[u])' = {}
        /\ Main \in On(stack[Outside])'
    BY <1>1, <1>2, <1>3 DEF Places, Threads
  <1>8. QED
    BY <1>5, <1>6, <1>7 DEF Places

LEMMA PlacesStart ==
  ASSUME Places, NEW v \in Workers, NEW t \in Queue(v), t \in Tasks,
         NEW w \in Workers, On(stack[w]) = {}, On(stack[w])' = {t},
         Distinct(stack[w])', StacksKept({w}),
         Queue(v)' = Queue(v) \ {t}, DistinctQueue(v)', QueuesKept({v}), TasksKept({})
  PROVE  Places'
  <1>1. /\ \A u \in Threads : t \notin On(stack[u])
        /\ \A u \in Workers \ {v} : t \notin Queue(u)
    BY DEF Places
  <1>2. \A u \in Threads : \A x : x \in On(stack[u])' <=>
          x \in On(stack[u]) \/ (u = w /\ x = t)
    BY DEF StacksKept
  <1>3. \A u \in Workers : \A x : x \in Queue(u)' <=> x \in Queue(u) /\ ~(u = v /\ x = t)
    BY DEF QueuesKept
  <1>4. /\ \A u \in Threads : Distinct(stack[u])'
        /\ \A u \in Workers : DistinctQueue(u)'
    BY DEF StacksKept, QueuesKept
  <1>5. w \in Threads
    BY DEF Threads
  <1>6. ASSUME NEW x \in Tasks PROVE Held(x)' <=> Held(x)
    <2>1. CASE x = t
      BY <1>2, <1>5, <2>1 DEF Held
    <2>2. CASE x # t
      BY <1>2, <1>3, <2>2 DEF Held
    <2>3. QED
      BY <2>1, <2>2
  <1>7. \A x \in Tasks : task'[x] = "pending" <=> Held(x)'
    BY <1>6 DEF TasksKept, Places
  <1>8. /\ \A u, x \in Threads : u # x => On(stack[u])' \cap On(stack[x])' = {}
        /\ \A u, x \in Workers : u # x => Queue(u)' \cap Queue(x)' = {}
        /\ \A x \in Workers, u \in Threads : Queue(x)' \cap On(stack[u])' = {}
        /\ Main \in On(stack[Outside])'
    BY <1>1, <1>2, <1>3 DEF Places, Threads
  <1>9. QED
    BY <1>4, <1>7, <1>8 DEF Places

LEMMA PlacesLeave ==
  ASSUME Places, NEW t \in Tasks, t # Main, task'[t] # "pending",
         NEW th \in Threads, t \in On(stack[th]), On(stack[th])' = On(stack[th]) \ {t},
         Distinct(stack[th])', StacksKept({th}), QueuesKept({}), TasksKept({t})
  PROVE  Places'
  <1>1. /\ \A u \in Threads \ {th} : t \notin On(stack[u])
        /\ \A w \in Workers : t \notin Queue(w)
    BY DEF Places
  <1>2. \A u \in Threads : \A x : x \in On(stack[u])' <=> x \in On(stack[u]) /\ x # t
    BY <1>1 DEF StacksKept
  <1>3. \A w \in Workers : \A x : x \in Queue(w)' <=> x \in Queue(w)
    BY DEF QueuesKept
  <1>4. \A x \in Tasks : task'[x] = "pending" <=> task[x] = "pending" /\ x # t
    BY DEF TasksKept
  <1>5. /\ \A u \in Threads : Distinct(stack[u])'
        /\ \A w \in Workers : DistinctQueue(w)'
    BY DEF StacksKept, QueuesKept
  <1>6. \A x \in Tasks : task'[x] = "pending" <=> Held(x)'
    BY <1>1, <1>2, <1>3, <1>4 DEF Places, Held
  <1>7. /\ \A u, v \in Threads : u # v => On(stack[u])' \cap On(stack[v])' = {}
        /\ \A w, v \in Workers : w # v => Queue(w)' \cap Queue(v)' = {}
        /\ \A w \in Workers, u \in Threads : Queue(w)' \cap On(stack[u])' = {}
        /\ Main \in On(stack[Outside])'
    BY <1>2, <1>3 DEF Places, Threads
  <1>8. QED
    BY <1>5, <1>6, <1>7 DEF Places

-----------------------------------------------------------------------------
(* What an operation adds to what is behind a body *)

\* Progress is kept when what is behind only grows, each new operation has had
\* its effect, and a task comes into being by a submit that is then behind.
LEMMA ProgressKept ==
  ASSUME Progress, UNCHANGED prog,
         \A b \in Bodies, i \in Nat \ {0} :
           i \in DOMAIN prog[b] /\ Gone(b, i) => Gone(b, i)',
         \A b \in Bodies, i \in Nat \ {0}, t \in Tasks :
           Gone(b, i)' /\ ~Gone(b, i) =>
             /\ (Calls(b, i, "submit", t) => task'[t] # "none")
             /\ (Calls(b, i, "join", t) => task'[t] = "freed"),
         \A t \in Tasks : /\ task[t] # "none" => task'[t] # "none"
                          /\ task[t] = "freed" => task'[t] = "freed",
         \A t \in Tasks : task[t] = "none" /\ task'[t] # "none" =>
           \E b \in Bodies, i \in Nat \ {0} : Calls(b, i, "submit", t) /\ Gone(b, i)'
  PROVE  Progress'
  <1>1. \A b, i, op, t : Calls(b, i, op, t)' <=> Calls(b, i, op, t)
    BY DEF Calls
  <1>2. ASSUME NEW b \in Bodies, NEW i \in Nat \ {0}, NEW t \in Tasks, Gone(b, i)'
        PROVE  /\ Calls(b, i, "submit", t) => task'[t] # "none"
               /\ Calls(b, i, "join", t) => task'[t] = "freed"
    BY <1>2 DEF Progress
  <1>3. ASSUME NEW t \in Tasks, task'[t] # "none"
        PROVE  \E b \in Bodies, i \in Nat \ {0} :
                 Calls(b, i, "submit", t) /\ Gone(b, i)'
    <2>1. CASE task[t] = "none"
      BY <1>3, <2>1
    <2>2. CASE task[t] # "none"
      <3>1. PICK b \in Bodies, i \in Nat \ {0} : Calls(b, i, "submit", t) /\ Gone(b, i)
        BY <2>2 DEF Progress
      <3>2. i \in DOMAIN prog[b]
        BY <3>1 DEF Calls
      <3>3. QED
        BY <3>1, <3>2
    <2>3. QED
      BY <2>1, <2>2
  <1>4. QED
    BY <1>1, <1>2, <1>3 DEF Progress

LEMMA GroundedKept ==
  ASSUME Grounded, UNCHANGED prog, Pending' \subseteq Pending
  PROVE  Grounded'
  BY DEF Grounded, Calls

\* Who is beyond an operation is on a stack.
LEMMA BeyondIsOn == ASSUME NEW s, NEW b, NEW i, Beyond(s, b, i) PROVE b \in On(s)
  BY DEF Beyond, On

\* Of the innermost body of a thread, what is behind is what its frame passed.
LEMMA GoneInFrame ==
  ASSUME IInv, Places, NEW th \in Threads, stack[th] # <<>>, NEW i \in Nat
  PROVE  Gone(Frame(th).task, i) <=> Frame(th).pos > i
  <1> DEFINE b == Frame(th).task
  <1>1. /\ b \in On(stack[th]) /\ b \notin On(Tail(stack[th])) /\ b \in Bodies
        /\ (Beyond(stack[th], b, i) <=> Beyond(Tail(stack[th]), b, i) \/ Frame(th).pos > i)
    <2>1. StackTypes /\ Distinct(stack[th])
      BY DEF IInv, Places
    <2>2. b \in Bodies
      BY <2>1, TopFrame DEF FrameSet, Bodies
    <2>3. QED
      BY <2>1, <2>2, TopFrame
  <1> HIDE DEF b
  <1>2. Beyond(stack[th], b, i) <=> Frame(th).pos > i
    BY <1>1, BeyondIsOn
  <1>3. \A u \in Threads : Beyond(stack[u], b, i) => u = th
    BY <1>1, BeyondIsOn DEF Places
  <1>4. b \in Tasks => task[b] = "pending"
    BY <1>1 DEF Places, Held
  <1>5. QED
    BY <1>2, <1>3, <1>4 DEF Gone, b

\* Advancing puts one operation behind.
LEMMA GoneAdvances ==
  ASSUME StackTypes, NEW th \in Threads, NEW s, stack' = [stack EXCEPT ![th] = s],
         \A b : \A i \in Nat \ {0} : Beyond(s, b, i) <=>
           Beyond(stack[th], b, i) \/ (b = Frame(th).task /\ i = Frame(th).pos),
         \A t \in Tasks : task'[t] \in {"done", "freed"} <=> task[t] \in {"done", "freed"}
  PROVE  \A b \in Bodies, i \in Nat \ {0} :
           Gone(b, i)' <=> Gone(b, i) \/ (b = Frame(th).task /\ i = Frame(th).pos)
  <1> DEFINE c == Frame(th).task
             k == Frame(th).pos
  <1>1. stack'[th] = s /\ \A u \in Threads \ {th} : stack'[u] = stack[u]
    BY DEF StackTypes
  <1>2. \A b : \A i \in Nat \ {0} :
          Beyond(s, b, i) <=> Beyond(stack[th], b, i) \/ (b = c /\ i = k)
    OBVIOUS
  <1> HIDE DEF c, k
  <1>3. \A b \in Bodies, i \in Nat \ {0} : Gone(b, i)' <=> Gone(b, i) \/ (b = c /\ i = k)
    BY <1>1, <1>2 DEF Gone
  <1>4. QED
    BY <1>3 DEF c, k

\* A step that starts a job, or does nothing to the stacks, puts none behind.
LEMMA GoneKept ==
  ASSUME \A th \in Threads : \A b : \A i \in Nat \ {0} :
           Beyond(stack[th], b, i)' <=> Beyond(stack[th], b, i),
         UNCHANGED task
  PROVE  \A b \in Bodies, i \in Nat \ {0} : Gone(b, i)' <=> Gone(b, i)
  BY DEF Gone

-----------------------------------------------------------------------------
(* The steps *)

\* A thread with a job to do is in a body, and what it does is an operation.
LEMMA AtOperation ==
  ASSUME IInv, Places, NEW th \in Threads, NEW op, At(th, op)
  PROVE  /\ stack[th] # <<>> /\ Frame(th).task \in Bodies
         /\ Frame(th).pos \in Nat \ {0}
         /\ Frame(th).pos \in DOMAIN prog[Frame(th).task]
         /\ Frame(th).task \in On(stack[th])
         /\ prog[Frame(th).task] \in Seq(Op)
         /\ prog[Frame(th).task][Frame(th).pos].op = op
         /\ op \in {"init", "shutdown"} => Frame(th).task = Main
  <1>1. StackTypes /\ stack[th] # <<>> /\ prog \in Programs
    BY DEF At, IInv, ControlTypes
  <1>2. Frame(th) \in FrameSet /\ Frame(th).task \in On(stack[th])
    BY <1>1, TopFrame
  <1>3. Frame(th).task \in Bodies /\ Frame(th).pos \in Nat \ {0}
    BY <1>2 DEF FrameSet, Bodies
  <1>4. /\ prog[Frame(th).task] \in Seq(Op)
        /\ Frame(th).task # Main => prog[Frame(th).task] \in Seq(JobOp)
    <2>1. CASE Frame(th).task = Main
      BY <1>1, <2>1, ProgramsAssumption
    <2>2. CASE Frame(th).task # Main
      <3>1. prog[Frame(th).task] \in Seq(JobOp)
        BY <1>1, <1>3, <2>2, ProgramsAssumption DEF Bodies
      <3>2. QED
        BY <2>2, <3>1 DEF Op
    <2>3. QED
      BY <2>1, <2>2
  <1>5. /\ Frame(th).pos \in 1 .. Len(prog[Frame(th).task])
        /\ prog[Frame(th).task][Frame(th).pos].op = op
    BY <1>3, <1>4 DEF At, Script
  <1>6. Frame(th).task # Main => op \notin {"init", "shutdown"}
    <2>1. SUFFICES ASSUME Frame(th).task # Main PROVE op \notin {"init", "shutdown"}
      OBVIOUS
    <2>2. prog[Frame(th).task][Frame(th).pos] \in JobOp
      BY <1>4, <1>5, <2>1, ElementOfSeq
    <2>3. QED
      BY <1>5, <2>2 DEF JobOp
  <1>7. QED
    BY <1>1, <1>2, <1>3, <1>4, <1>5, <1>6

\* What a thread at a submit or a join calls.
LEMMA AtCall ==
  ASSUME IInv, Places, NEW th \in Threads, NEW op \in {"submit", "join"}, At(th, op)
  PROVE  /\ Arg(th) \in Tasks
         /\ Calls(Frame(th).task, Frame(th).pos, op, Arg(th))
         /\ \A o, t : Calls(Frame(th).task, Frame(th).pos, o, t) => o = op /\ t = Arg(th)
         /\ prog[Frame(th).task][Frame(th).pos] = [op |-> op, task |-> Arg(th)]
  <1>1. /\ stack[th] # <<>> /\ Frame(th).pos \in DOMAIN prog[Frame(th).task]
        /\ prog[Frame(th).task] \in Seq(Op)
        /\ prog[Frame(th).task][Frame(th).pos].op = op
    BY AtOperation
  <1>2. Arg(th) \in Tasks
    BY ArgIsTask DEF IInv, ControlTypes, StackTypes
  <1>3. Arg(th) = prog[Frame(th).task][Frame(th).pos].task
    BY DEF Arg, Script
  <1>4. prog[Frame(th).task][Frame(th).pos] \in Op
    BY <1>1, ElementOfSeq
  <1>5. prog[Frame(th).task][Frame(th).pos] = [op |-> op, task |-> Arg(th)]
    BY <1>1, <1>3, <1>4 DEF Op, JobOp
  <1>6. QED
    BY <1>1, <1>2, <1>3, <1>5 DEF Calls

\* An operation is the only one of all the bodies to submit its task.
LEMMA SubmittedOnce ==
  ASSUME IInv, JoinsItsOwn(prog), NEW t,
         NEW b \in Bodies, NEW i, Calls(b, i, "submit", t),
         NEW c \in Bodies, NEW j, Calls(c, j, "submit", t)
  PROVE  b = c /\ i = j
  <1>1. ASSUME NEW d \in Bodies, NEW k, Calls(d, k, "submit", t)
        PROVE  prog[d][k] = [op |-> "submit", task |-> t]
    <2>1. prog[d] \in Seq(Op)
      <3>1. CASE d = Main
        BY <3>1, ProgramsAssumption DEF IInv, ControlTypes
      <3>2. CASE d \in Tasks
        <4>1. prog[d] \in Seq(JobOp)
          BY <3>2, ProgramsAssumption DEF IInv, ControlTypes
        <4>2. QED
          BY <4>1 DEF Op
      <3>3. QED
        BY <3>1, <3>2 DEF Bodies
    <2>2. prog[d][k] \in Op
      BY <1>1, <2>1, ElementOfSeq DEF Calls
    <2>3. QED
      BY <1>1, <2>2 DEF Op, JobOp, Calls
  <1>2. prog[b][i] = prog[c][j]
    BY <1>1
  <1>3. QED
    BY <1>2 DEF JoinsItsOwn, Calls, Bodies

\* A task that is being submitted does not exist yet, and no body is in it.
LEMMA SubmitsNew ==
  ASSUME IInv, JobsInv, NEW th \in Threads, At(th, "submit")
  PROVE  /\ task[Arg(th)] = "none"
         /\ \A i \in Nat \ {0} : ~Gone(Arg(th), i)
  <1> DEFINE b == Frame(th).task
             i == Frame(th).pos
             t == Arg(th)
  <1>a. Places /\ Progress /\ JoinsItsOwn(prog)
    BY DEF JobsInv
  <1>1. /\ stack[th] # <<>> /\ b \in Bodies /\ i \in Nat \ {0}
        /\ t \in Tasks /\ Calls(b, i, "submit", t)
    BY <1>a, AtOperation, AtCall
  <1>2. ~Gone(b, i)
    BY <1>a, <1>1, GoneInFrame
  <1> HIDE DEF b, i, t
  <1>3. task[t] = "none"
    <2>1. ASSUME task[t] # "none" PROVE FALSE
      <3>1. PICK c \in Bodies, j \in Nat \ {0} : Calls(c, j, "submit", t) /\ Gone(c, j)
        BY <1>a, <1>1, <2>1 DEF Progress
      <3>2. c = b /\ j = i
        BY <1>a, <1>1, <3>1, SubmittedOnce
      <3>3. QED
        BY <1>2, <3>1, <3>2
    <2>2. QED
      BY <2>1
  <1>4. \A u \in Threads : t \notin On(stack[u])
    BY <1>a, <1>1, <1>3 DEF Places, Held
  <1>5. \A j \in Nat \ {0} : ~Gone(t, j)
    BY <1>3, <1>4, BeyondIsOn DEF Gone
  <1>6. QED
    BY <1>3, <1>5 DEF t

\* The pool is open while a worker is in a job.
LEMMA OpenWhileBusy ==
  ASSUME IInv, JobsInv, NEW th \in Workers, stack[th] # <<>>
  PROVE  ready /\ opc = "run"
  <1>1. th \in Threads /\ Outside \in Threads /\ th # Outside
    BY PoolAssumption DEF Threads, Workers, Outside
  <1>2. Frame(th) \in FrameSet /\ Frame(th).task \in On(stack[th])
    BY <1>1, TopFrame DEF IInv
  <1>3. Frame(th).task # Main
    BY <1>1, <1>2 DEF JobsInv, Places
  <1>4. Frame(th).task \in Pending
    BY <1>1, <1>2, <1>3 DEF JobsInv, Places, Held, Pending, FrameSet
  <1>5. QED
    BY <1>4 DEF JobsInv, Quiet

\* A submit adds a task to the pending ones, in a circle with none of them.
LEMMA SubmitGrounded ==
  ASSUME IInv, JobsInv, NEW th \in Threads, At(th, "submit"), UNCHANGED prog,
         Pending' = Pending \cup {Arg(th)}
  PROVE  Grounded'
  <1> DEFINE t == Arg(th)
  <1>a. Places /\ Progress /\ Grounded /\ JoinsItsOwn(prog)
    BY DEF JobsInv
  <1>1. t \in Tasks /\ task[t] = "none" /\ (\A i \in Nat \ {0} : ~Gone(t, i))
    BY <1>a, AtCall, SubmitsNew
  <1>2. /\ Calls(Frame(th).task, Frame(th).pos, "submit", t) /\ Frame(th).task \in Bodies
        /\ Frame(th).task \in On(stack[th])
    BY <1>a, AtCall, AtOperation
  <1>3. t # Frame(th).task
    BY <1>a, <1>1, <1>2 DEF Places, Held
  <1> HIDE DEF t
  <1>4. \A i \in Nat \ {0} : ~Calls(t, i, "submit", t)
    BY <1>a, <1>1, <1>2, <1>3, SubmittedOnce DEF Bodies
  <1>5. ASSUME NEW s \in Pending, NEW i \in Nat \ {0} PROVE ~Calls(t, i, "submit", s)
    <2>1. PICK c \in Bodies, j \in Nat \ {0} : Calls(c, j, "submit", s) /\ Gone(c, j)
      BY <1>a DEF Progress, Pending
    <2>2. Calls(t, i, "submit", s) => c = t /\ j = i
      BY <1>a, <1>1, <2>1, SubmittedOnce DEF Bodies
    <2>3. QED
      BY <1>1, <2>1, <2>2
  <1>6. ASSUME NEW S \in SUBSET Pending', S # {}
        PROVE  \E s \in S : \A b \in S, i \in Nat \ {0} : ~Calls(b, i, "submit", s)
    <2>1. CASE S \subseteq {t}
      BY <1>4, <1>6, <2>1
    <2>2. CASE ~ S \subseteq {t}
      <3>1. S \ {t} \in SUBSET Pending /\ S \ {t} # {}
        BY <1>6, <2>2 DEF t
      <3>2. PICK s \in S \ {t} :
              \A b \in S \ {t}, i \in Nat \ {0} : ~Calls(b, i, "submit", s)
        BY <1>a, <3>1 DEF Grounded
      <3>3. \A i \in Nat \ {0} : ~Calls(t, i, "submit", s)
        BY <1>5, <3>1
      <3>4. QED
        BY <3>2, <3>3
    <2>3. QED
      BY <2>1, <2>2
  <1>7. \A b, i, op, s : Calls(b, i, op, s)' <=> Calls(b, i, op, s)
    BY DEF Calls
  <1>8. QED
    BY <1>6, <1>7 DEF Grounded

-----------------------------------------------------------------------------
(* Each step keeps the jobs' invariant *)

LEMMA QueuesUnchanged == ASSUME Places, UNCHANGED deques PROVE QueuesKept({})
  BY DEF Places, QueuesKept, Queue, DistinctQueue, Busy, deques

LEMMA StacksUnchanged == ASSUME Places, UNCHANGED stack PROVE StacksKept({})
  BY DEF Places, StacksKept

\* A thread that gets another stack leaves the others theirs.
LEMMA Restacked ==
  ASSUME StackTypes, Places, NEW th \in Threads, NEW s,
         stack' = [stack EXCEPT ![th] = s]
  PROVE  stack'[th] = s /\ StacksKept({th})
  BY DEF StackTypes, Places, StacksKept

\* A step that changes no task's status changes what is behind a body only
\* where there is no submit and no join.
LEMMA TasksStay ==
  ASSUME IInv, JobsInv, UNCHANGED <<prog, task>>, Places', Quiet',
         \A b \in Bodies, i \in Nat \ {0} :
           /\ Gone(b, i) => Gone(b, i)'
           /\ Gone(b, i)' /\ ~Gone(b, i) =>
                \A t : ~Calls(b, i, "submit", t) /\ ~Calls(b, i, "join", t)
  PROVE  JobsInv'
  <1>1. Progress'
    BY ProgressKept DEF JobsInv
  <1>2. Grounded'
    BY GroundedKept DEF JobsInv, Pending
  <1>3. JoinsItsOwn(prog)'
    BY DEF JobsInv, JoinsItsOwn
  <1>4. QED
    BY <1>1, <1>2, <1>3 DEF JobsInv

\* A step that leaves the jobs where they are.
LEMMA NothingMoves ==
  ASSUME IInv, JobsInv, UNCHANGED <<prog, task, stack, deques>>, Quiet'
  PROVE  JobsInv'
  <1>1. Places'
    BY QueuesUnchanged, StacksUnchanged, PlacesKept DEF JobsInv, TasksKept
  <1>2. \A b \in Bodies, i \in Nat \ {0} : Gone(b, i)' <=> Gone(b, i)
    BY DEF Gone
  <1>3. QED
    BY <1>1, <1>2, TasksStay

\* The external thread comes back from an init or a shutdown.
LEMMA OutsideAdvances ==
  ASSUME IInv, JobsInv, NEW op \in {"init", "shutdown"}, At(Outside, op),
         Advance(Outside), UNCHANGED <<prog, task, deques>>, Quiet'
  PROVE  JobsInv'
  <1> DEFINE c == Frame(Outside).task
             k == Frame(Outside).pos
  <1>a. Places /\ Outside \in Threads /\ StackTypes
    BY DEF JobsInv, Threads, IInv
  <1>1. stack[Outside] # <<>> /\ k \in DOMAIN prog[c] /\ prog[c][k].op = op
    BY <1>a, AtOperation
  <1>2. stack' = [stack EXCEPT ![Outside] = Advanced(Outside)]
    BY DEF Advance
  <1>3. /\ On(Advanced(Outside)) = On(stack[Outside])
        /\ Distinct(Advanced(Outside)) <=> Distinct(stack[Outside])
        /\ \A b : \A i \in Nat : Beyond(Advanced(Outside), b, i) <=>
             Beyond(stack[Outside], b, i) \/ (b = c /\ i = k)
    BY <1>a, <1>1, AdvancedStack
  <1>4. stack'[Outside] = Advanced(Outside) /\ StacksKept({Outside})
    BY <1>a, <1>2, Restacked
  <1>5. Places'
    <2>1. StacksKept({})
      BY <1>a, <1>3, <1>4 DEF StacksKept, Places
    <2>2. QED
      BY <1>a, <2>1, QueuesUnchanged, PlacesKept DEF TasksKept
  <1>6. \A b \in Bodies, i \in Nat \ {0} : Gone(b, i)' <=> Gone(b, i) \/ (b = c /\ i = k)
    <2>1. \A b : \A i \in Nat \ {0} : Beyond(Advanced(Outside), b, i) <=>
            Beyond(stack[Outside], b, i)
              \/ (b = Frame(Outside).task /\ i = Frame(Outside).pos)
      BY <1>3
    <2>2. QED
      BY <1>a, <1>2, <2>1, GoneAdvances
  <1> HIDE DEF c, k
  <1>7. \A t : ~Calls(c, k, "submit", t) /\ ~Calls(c, k, "join", t)
    BY <1>1 DEF Calls
  <1>8. QED
    BY <1>5, <1>6, <1>7, TasksStay

\* When shutdown is called every task has been joined: of the pending ones,
\* one was submitted by none of them, so by a body that has returned, and that
\* has joined it, or by the main program, whose join is behind it as well.
LEMMA DrainedAtShutdown ==
  ASSUME IInv, JobsInv, At(Outside, "shutdown")
  PROVE  Pending = {}
  <1>a. Places /\ Progress /\ Grounded /\ JoinsItsOwn(prog) /\ Outside \in Threads
    BY DEF JobsInv, Threads
  <1>b. SUFFICES ASSUME Pending # {} PROVE FALSE
    OBVIOUS
  <1>1. PICK t \in Pending : \A b \in Pending, i \in Nat \ {0} : ~Calls(b, i, "submit", t)
    BY <1>a, <1>b DEF Grounded
  <1>2. t \in Tasks /\ task[t] = "pending"
    BY DEF Pending
  <1>3. PICK b \in Bodies, i \in Nat \ {0} : Calls(b, i, "submit", t) /\ Gone(b, i)
    BY <1>a, <1>2 DEF Progress
  <1>4. b \notin Pending
    BY <1>1, <1>3
  <1>5. PICK j \in DOMAIN prog[b] :
          /\ j > i /\ prog[b][j] = [op |-> "join", task |-> t]
          /\ \A k \in i .. j : prog[b][k].op # "shutdown"
    <2>1. i \in DOMAIN prog[b] /\ prog[b][i].op = "submit" /\ prog[b][i].task = t
      BY <1>3 DEF Calls
    <2>2. QED
      BY <1>a, <2>1 DEF JoinsItsOwn, Bodies
  <1>6. j \in Nat \ {0}
    <2>1. \E S : prog[b] \in Seq(S)
      BY ProgramsAssumption DEF IInv, ControlTypes, Bodies
    <2>2. QED
      BY <2>1
  <1>7. ~Gone(b, j)
    BY <1>a, <1>2, <1>5, <1>6 DEF Progress, Calls
  <1>8. PICK th \in Threads : Beyond(stack[th], b, i)
    BY <1>3, <1>7 DEF Gone
  <1>9. b \in On(stack[th])
    BY <1>8, BeyondIsOn
  <1>10. b = Main
    BY <1>a, <1>4, <1>9 DEF Places, Held, Pending, Bodies
  <1> DEFINE k == Frame(Outside).pos
  <1>11. /\ stack[Outside] # <<>> /\ Frame(Outside).task = b
         /\ k \in Nat \ {0} /\ prog[b][k].op = "shutdown"
    BY <1>a, <1>10, AtOperation
  <1>12. (Gone(b, i) <=> k > i) /\ (Gone(b, j) <=> k > j)
    BY <1>a, <1>6, <1>11, GoneInFrame
  <1> HIDE DEF k
  <1>13. k \in i .. j
    BY <1>3, <1>6, <1>7, <1>11, <1>12
  <1>14. QED
    BY <1>5, <1>11, <1>13

\* What is pending for the pool to be quiet about, when no phase changes.
LEMMA QuietKept ==
  ASSUME Quiet, UNCHANGED <<ready, shutdown, opc>>,
         Pending' # {} => Pending # {} \/ (ready /\ opc = "run"),
         \A w \in Workers : wpc'[w] = "gone" => wpc[w] = "gone" \/ shutdown
  PROVE  Quiet'
  BY DEF Quiet

\* A thread that submits or joins finds the pool open, the external one
\* because it calls outside init and shutdown.
LEMMA OpenForJobs ==
  ASSUME IInv, JobsInv, NEW th \in Threads, stack[th] # <<>>,
         th = Outside => opc = "run"
  PROVE  /\ opc = "run"
         /\ th # Outside => ready
  BY OpenWhileBusy DEF Threads

LEMMA SubmitKeepsJobs ==
  ASSUME IInv, JobsInv, NEW th \in Threads, Submit(th), th = Outside => opc = "run"
  PROVE  JobsInv'
  <1> PICK w, t, c, k :
        w = submitted % N /\ t = Arg(th) /\ c = Frame(th).task /\ k = Frame(th).pos
    OBVIOUS
  <1>a. /\ Places /\ Progress /\ Grounded /\ Quiet /\ JoinsItsOwn(prog)
        /\ StackTypes /\ RingTypes /\ At(th, "submit") /\ ready
        /\ UNCHANGED <<prog, ready, shutdown, opc>>
    BY DEF JobsInv, IInv, Submit, outside
  <1>1. /\ w \in Workers /\ t \in Tasks /\ stack[th] # <<>>
        /\ c \in Bodies /\ k \in Nat \ {0} /\ opc = "run"
        /\ Calls(c, k, "submit", t)
        /\ \A o, u : Calls(c, k, o, u) => o = "submit" /\ u = t
    <2>1. w \in Workers
      BY RoundRobin DEF IInv, ControlTypes
    <2>2. stack[th] # <<>> /\ c \in Bodies /\ k \in Nat \ {0}
      BY <1>a, AtOperation
    <2>3. QED
      BY <1>a, <2>1, <2>2, AtCall, OpenForJobs
  <1>2. task[t] = "none" /\ (\A i \in Nat \ {0} : ~Gone(t, i))
    BY <1>a, SubmitsNew
  <1>3. CASE ~ \A v \in Reached(w) : mem[v] = "live"
    <2>1. UNCHANGED <<deques, wpc, stack, task>>
      BY <1>3 DEF Submit, Touches
    <2>2. Quiet'
      BY <1>a, <2>1, QuietKept DEF Pending
    <2>3. QED
      BY <1>a, <2>1, <2>2, NothingMoves
  <1>4. CASE \A v \in Reached(w) : mem[v] = "live"
    <2>1. /\ task' = [task EXCEPT ![t] = "pending"] /\ UNCHANGED wpc
          /\ IF Full(w)
             THEN /\ stack' = [stack EXCEPT ![th] =
                                 <<[task |-> t, pos |-> 1]>> \o Advanced(th)]
                  /\ UNCHANGED deques
             ELSE PushBottom(w, t) /\ Advance(th)
      BY <1>4 DEF Submit, Touches
    <2>2. /\ task'[t] = "pending" /\ TasksKept({t})
          /\ \A u \in Tasks \ {t} : task'[u] = task[u]
          /\ \A u \in Tasks : task'[u] \in {"done", "freed"} <=> task[u] \in {"done", "freed"}
      BY <1>1, <1>2, <2>1 DEF TasksKept, IInv, ControlTypes
    <2>3. Pending' = Pending \cup {t}
      BY <1>1, <2>2 DEF Pending
    <2>4. Quiet'
      BY <1>a, <1>1, <2>1, QuietKept
    <2>5. Grounded'
      BY <1>a, <2>3, SubmitGrounded
    <2>6. /\ Advanced(th) \in Seq(FrameSet)
          /\ On(Advanced(th)) = On(stack[th])
          /\ Distinct(Advanced(th)) <=> Distinct(stack[th])
          /\ \A b : \A i \in Nat : Beyond(Advanced(th), b, i) <=>
               Beyond(stack[th], b, i) \/ (b = c /\ i = k)
      BY <1>a, <1>1, AdvancedStack
    <2> PICK r : r = IF Full(w) THEN <<[task |-> t, pos |-> 1]>> \o Advanced(th)
                    ELSE Advanced(th)
      OBVIOUS
    <2>7. stack' = [stack EXCEPT ![th] = r]
      BY <2>1 DEF Advance
    <2>8. /\ On(r) = IF Full(w) THEN On(stack[th]) \cup {t} ELSE On(stack[th])
          /\ Distinct(r)
          /\ \A b : \A i \in Nat \ {0} : Beyond(r, b, i) <=>
               Beyond(stack[th], b, i) \/ (b = c /\ i = k)
      <3>1. t \notin On(stack[th]) /\ Distinct(stack[th])
        BY <1>a, <1>1, <1>2 DEF Places, Held
      <3>2. CASE Full(w)
        <4>1. r = <<[task |-> t, pos |-> 1]>> \o Advanced(th)
          BY <3>2
        <4>2. /\ On(r) = On(Advanced(th)) \cup {t}
              /\ Distinct(r) <=> Distinct(Advanced(th)) /\ t \notin On(Advanced(th))
              /\ \A b : \A i \in Nat \ {0} : Beyond(r, b, i) <=> Beyond(Advanced(th), b, i)
          BY <1>1, <2>6, <4>1, StartedJob
        <4>3. QED
          BY <2>6, <3>1, <3>2, <4>2
      <3>3. CASE ~Full(w)
        BY <2>6, <3>1, <3>3
      <3>4. QED
        BY <3>2, <3>3
    <2>9. stack'[th] = r /\ StacksKept({th})
      BY <1>a, <2>7, Restacked
    <2>10. Places'
      <3>1. CASE Full(w)
        <4>1. QueuesKept({}) /\ On(stack[th])' = On(stack[th]) \cup {t} /\ Distinct(stack[th])'
          BY <1>a, <2>1, <2>8, <2>9, <3>1, QueuesUnchanged
        <4>2. QED
          BY <1>a, <1>1, <1>2, <2>2, <2>9, <4>1, PlacesEnterStack
      <3>2. CASE ~Full(w)
        <4>1. StacksKept({})
          BY <2>8, <2>9, <3>2 DEF StacksKept
        <4>2. PushBottom(w, t)
          BY <2>1, <3>2
        <4>3. t \notin Queue(w) /\ DistinctQueue(w)
          BY <1>a, <1>1, <1>2 DEF Places, Held
        <4>4. /\ Queue(w)' = Queue(w) \cup {t} /\ DistinctQueue(w)'
              /\ \A v \in Workers \ {w} : Queue(v)' = Queue(v)
                                          /\ (DistinctQueue(v) <=> DistinctQueue(v)')
          BY <1>a, <1>1, <3>2, <4>2, <4>3, PushQueues
        <4>5. QueuesKept({w})
          BY <1>a, <4>4 DEF QueuesKept, Places
        <4>6. QED
          BY <1>a, <1>1, <1>2, <2>2, <4>1, <4>4, <4>5, PlacesEnterQueue
      <3>3. QED
        BY <3>1, <3>2
    <2>11. \A b \in Bodies, i \in Nat \ {0} : Gone(b, i)' <=> Gone(b, i) \/ (b = c /\ i = k)
      BY <1>a, <2>2, <2>7, <2>8, GoneAdvances
    <2>12. Progress'
      <3>1. \A b \in Bodies, i \in Nat \ {0}, u \in Tasks :
              Gone(b, i)' /\ ~Gone(b, i) =>
                /\ (Calls(b, i, "submit", u) => task'[u] # "none")
                /\ (Calls(b, i, "join", u) => task'[u] = "freed")
        BY <1>1, <2>2, <2>11
      <3>2. \A u \in Tasks : /\ task[u] # "none" => task'[u] # "none"
                             /\ task[u] = "freed" => task'[u] = "freed"
        BY <2>2, <1>2
      <3>3. \A u \in Tasks : task[u] = "none" /\ task'[u] # "none" =>
              \E b \in Bodies, i \in Nat \ {0} : Calls(b, i, "submit", u) /\ Gone(b, i)'
        BY <1>1, <2>2, <2>11
      <3>4. QED
        BY <1>a, <2>11, <3>1, <3>2, <3>3, ProgressKept
    <2>13. QED
      BY <1>a, <2>4, <2>5, <2>10, <2>12 DEF JobsInv
  <1>5. QED
    BY <1>3, <1>4

LEMMA JoinKeepsJobs ==
  ASSUME IInv, JobsInv, NEW th \in Threads, Join(th)
  PROVE  JobsInv'
  <1> PICK t, c, k : t = Arg(th) /\ c = Frame(th).task /\ k = Frame(th).pos
    OBVIOUS
  <1>a. /\ Places /\ Progress /\ Grounded /\ Quiet /\ JoinsItsOwn(prog)
        /\ StackTypes /\ At(th, "join") /\ task[t] = "done"
        /\ task' = [task EXCEPT ![t] = "freed"]
        /\ stack' = [stack EXCEPT ![th] = Advanced(th)]
        /\ UNCHANGED <<prog, ready, shutdown, opc, deques, wpc>>
    BY DEF JobsInv, IInv, Join, outside, Advance
  <1>1. /\ t \in Tasks /\ stack[th] # <<>>
        /\ Calls(c, k, "join", t) /\ c \in Bodies /\ k \in Nat \ {0}
        /\ \A o, u : Calls(c, k, o, u) => o = "join" /\ u = t
    BY <1>a, AtCall, AtOperation
  <1>2. /\ task'[t] = "freed" /\ TasksKept({})
        /\ \A u \in Tasks \ {t} : task'[u] = task[u]
        /\ \A u \in Tasks : task'[u] \in {"done", "freed"} <=> task[u] \in {"done", "freed"}
    BY <1>a, <1>1 DEF TasksKept, IInv, ControlTypes
  <1>3. Pending' = Pending
    BY <1>a, <1>1, <1>2 DEF Pending
  <1>4. Quiet' /\ Grounded'
    BY <1>a, <1>3, QuietKept, GroundedKept
  <1>5. /\ On(Advanced(th)) = On(stack[th])
        /\ Distinct(Advanced(th)) <=> Distinct(stack[th])
        /\ \A b : \A i \in Nat : Beyond(Advanced(th), b, i) <=>
             Beyond(stack[th], b, i) \/ (b = c /\ i = k)
    BY <1>a, <1>1, AdvancedStack
  <1>6. stack'[th] = Advanced(th) /\ StacksKept({th})
    BY <1>a, Restacked
  <1>7. Places'
    <2>1. StacksKept({})
      BY <1>a, <1>5, <1>6 DEF StacksKept, Places
    <2>2. QED
      BY <1>a, <1>2, <2>1, QueuesUnchanged, PlacesKept
  <1>8. \A b \in Bodies, i \in Nat \ {0} : Gone(b, i)' <=> Gone(b, i) \/ (b = c /\ i = k)
    <2>1. \A b : \A i \in Nat \ {0} : Beyond(Advanced(th), b, i) <=>
            Beyond(stack[th], b, i) \/ (b = c /\ i = k)
      BY <1>5
    <2>2. QED
      BY <1>a, <1>2, <2>1, GoneAdvances
  <1>9. Progress'
    <2>1. \A b \in Bodies, i \in Nat \ {0}, u \in Tasks :
            Gone(b, i)' /\ ~Gone(b, i) =>
              /\ (Calls(b, i, "submit", u) => task'[u] # "none")
              /\ (Calls(b, i, "join", u) => task'[u] = "freed")
      BY <1>1, <1>2, <1>8
    <2>2. \A u \in Tasks : /\ task[u] # "none" <=> task'[u] # "none"
                           /\ task[u] = "freed" => task'[u] = "freed"
      BY <1>a, <1>2
    <2>3. QED
      BY <1>a, <1>8, <2>1, <2>2, ProgressKept
  <1>10. QED
    BY <1>a, <1>4, <1>7, <1>9 DEF JobsInv

LEMMA ReturnKeepsJobs ==
  ASSUME IInv, EdgeInv, JobsInv, NEW th \in Threads, JobReturns(th)
  PROVE  JobsInv'
  <1> PICK t : t = Frame(th).task
    OBVIOUS
  <1>a. /\ Places /\ Progress /\ Grounded /\ Quiet /\ JoinsItsOwn(prog) /\ StackTypes
        /\ stack[th] # <<>> /\ t # Main /\ Frame(th).pos > Len(prog[t])
        /\ task' = [task EXCEPT ![t] = "done"]
        /\ stack' = [stack EXCEPT ![th] = Tail(stack[th])]
        /\ UNCHANGED <<prog, ready, shutdown, opc, deques>>
    BY DEF JobsInv, IInv, JobReturns, outside, Script, StackTypes
  <1>1. /\ Frame(th) \in FrameSet /\ Tail(stack[th]) \in Seq(FrameSet)
        /\ On(stack[th]) = On(Tail(stack[th])) \cup {t}
        /\ Distinct(stack[th]) <=>
             Distinct(Tail(stack[th])) /\ t \notin On(Tail(stack[th]))
        /\ \A b, i : Beyond(stack[th], b, i) <=>
             Beyond(Tail(stack[th]), b, i) \/ (b = t /\ Frame(th).pos > i)
    BY <1>a, TopFrame
  <1>2. t \in Tasks /\ t \in Bodies /\ Frame(th).pos \in Nat
    BY <1>a, <1>1 DEF FrameSet, Bodies
  <1>3. task[t] = "pending"
    BY <1>a, <1>1, <1>2 DEF Places, Held
  <1>4. /\ task'[t] = "done" /\ TasksKept({t})
        /\ \A u \in Tasks \ {t} : task'[u] = task[u]
    BY <1>2 , <1>a DEF TasksKept, IInv, ControlTypes
  <1>5. Pending' \subseteq Pending
    BY <1>4 DEF Pending
  <1>6. Grounded'
    BY <1>a, <1>5, GroundedKept
  <1>7. Quiet'
    <2>1. ASSUME NEW w \in Workers, wpc'[w] = "gone" PROVE wpc[w] = "gone"
      BY <2>1 DEF JobReturns, IInv, ControlTypes
    <2>2. QED
      BY <1>a, <1>5, <2>1, QuietKept
  <1>8. stack'[th] = Tail(stack[th]) /\ StacksKept({th})
    BY <1>a, Restacked
  <1>9. Places'
    <2>1. /\ On(stack[th])' = On(stack[th]) \ {t} /\ Distinct(stack[th])'
          /\ t \in On(stack[th])
      BY <1>a, <1>1, <1>8 DEF Places
    <2>2. QED
      BY <1>a, <1>2, <1>4, <1>8, <2>1, QueuesUnchanged, PlacesLeave
  <1>10. ASSUME NEW b \in Bodies, NEW i \in Nat \ {0}
         PROVE  Gone(b, i)' <=> Gone(b, i) \/ b = t
    <2>1. \A u \in Threads \ {th} : stack'[u] = stack[u]
      BY <1>a DEF StackTypes
    <2>2. CASE b = t
      BY <1>2, <1>4, <2>2 DEF Gone
    <2>3. CASE b # t
      <3>1. \A u \in Threads : Beyond(stack[u], b, i)' <=> Beyond(stack[u], b, i)
        BY <1>1, <1>8, <2>1, <2>3
      <3>2. b \in Tasks => task'[b] = task[b]
        BY <1>4, <2>3
      <3>3. QED
        BY <2>3, <3>1, <3>2 DEF Gone
    <2>4. QED
      BY <2>2, <2>3
  \* The frame has passed all of the body's operations before it returns.
  <1>11. ASSUME NEW i \in Nat \ {0}, i \in DOMAIN prog[t] PROVE Gone(t, i)
    <2>1. prog[t] \in Seq(JobOp)
      BY <1>2, ProgramsAssumption DEF IInv, ControlTypes
    <2>2. Frame(th).pos > i
      BY <1>a, <1>2, <1>11, <2>1
    <2>3. QED
      BY <1>a, <2>2, GoneInFrame
  <1>12. Progress'
    <2>1. ASSUME NEW b \in Bodies, NEW i \in Nat \ {0}, NEW u \in Tasks, NEW o,
                 Gone(b, i)', ~Gone(b, i)
          PROVE  ~Calls(b, i, o, u)
      BY <1>10, <1>11, <2>1 DEF Calls
    <2>2. \A u \in Tasks : /\ task[u] # "none" <=> task'[u] # "none"
                           /\ task[u] = "freed" => task'[u] = "freed"
      BY <1>3, <1>4
    <2>3. QED
      BY <1>a, <1>10, <2>1, <2>2, ProgressKept
  <1>13. QED
    BY <1>a, <1>6, <1>7, <1>9, <1>12 DEF JobsInv

\* A worker that is idle takes a job from a deque, its own or another's.
LEMMA TakesKeepsJobs ==
  ASSUME IInv, EdgeInv, JobsInv, NEW w \in Workers, NEW v \in Workers, NEW t \in Queue(v),
         wpc[w] # "busy", Runs(w, t), UNCHANGED <<prog, ready, shutdown, opc, task>>,
         Queue(v)' = Queue(v) \ {t}, DistinctQueue(v)',
         \A u \in Workers \ {v} : Queue(u)' = Queue(u)
                                  /\ (DistinctQueue(u) <=> DistinctQueue(u)')
  PROVE  JobsInv'
  <1>a. /\ Places /\ Quiet /\ StackTypes /\ w \in Threads
        /\ stack' = [stack EXCEPT ![w] = <<[task |-> t, pos |-> 1]>>]
    BY DEF JobsInv, IInv, Threads, Runs
  <1>1. t \in Tasks
    BY DEF Queue, Busy, IInv, RingsHoldTasks
  <1>2. stack[w] = <<>>
    BY DEF EdgeInv, IdleStacks
  <1>3. On(stack[w]) = {} /\ Distinct(stack[w]) /\ \A b, i : ~Beyond(stack[w], b, i)
    BY <1>2, EmptyStack
  <1> PICK r : r = <<[task |-> t, pos |-> 1]>>
    OBVIOUS
  <1>4. /\ On(r) = {t} /\ Distinct(r)
        /\ \A b : \A i \in Nat \ {0} : ~Beyond(r, b, i)
    <2>1. r = <<[task |-> t, pos |-> 1]>> \o <<>>
      OBVIOUS
    <2>2. stack[w] \in Seq(FrameSet)
      BY <1>a DEF StackTypes
    <2>3. /\ On(r) = On(stack[w]) \cup {t}
          /\ Distinct(r) <=> Distinct(stack[w]) /\ t \notin On(stack[w])
          /\ \A b : \A i \in Nat \ {0} : Beyond(r, b, i) <=> Beyond(stack[w], b, i)
      BY <1>1, <1>2, <2>1, <2>2, StartedJob
    <2>4. QED
      BY <1>3, <2>3
  <1>5. stack'[w] = r /\ StacksKept({w}) /\ \A u \in Threads \ {w} : stack'[u] = stack[u]
    BY <1>a, Restacked DEF StackTypes
  <1>6. Places'
    <2>1. QueuesKept({v})
      BY <1>a DEF QueuesKept, Places
    <2>2. On(stack[w])' = {t} /\ Distinct(stack[w])'
      BY <1>4, <1>5
    <2>3. QED
      BY <1>a, <1>1, <1>3, <1>5, <2>1, <2>2, PlacesStart DEF TasksKept
  <1>7. \A b \in Bodies, i \in Nat \ {0} : Gone(b, i)' <=> Gone(b, i)
    <2>1. \A th \in Threads : \A b : \A i \in Nat \ {0} :
            Beyond(stack[th], b, i)' <=> Beyond(stack[th], b, i)
      BY <1>3, <1>4, <1>5
    <2>2. QED
      BY <2>1, GoneKept
  <1>8. Quiet'
    <2>1. \A u \in Workers : wpc'[u] = "gone" => wpc[u] = "gone"
      BY DEF Runs, IInv, ControlTypes
    <2>2. QED
      BY <1>a, <2>1, QuietKept DEF Pending
  <1>9. QED
    BY <1>6, <1>7, <1>8, TasksStay

LEMMA LoopStepKeepsJobs ==
  ASSUME IInv, EdgeInv, JobsInv, NEW w \in Workers, PopOwn(w) \/ Scan(w) \/ LeaveOrNap(w)
  PROVE  JobsInv'
  <1>a. /\ Places /\ Quiet /\ RingTypes /\ wpc[w] # "busy"
        /\ wpc \in [Workers -> {"unborn", "pop", "scan", "busy", "gone"}]
        /\ UNCHANGED <<prog, ready, shutdown, opc, task>>
    BY DEF JobsInv, IInv, ControlTypes, PopOwn, Scan, Touches, LeaveOrNap, outside
  \* The worker goes on in its loop with no job.
  <1>1. ASSUME UNCHANGED <<stack, deques>>,
               \A u \in Workers : wpc'[u] = "gone" => wpc[u] = "gone" \/ shutdown
        PROVE  JobsInv'
    <2>1. Quiet'
      BY <1>a, <1>1, QuietKept DEF Pending
    <2>2. QED
      BY <1>1, <1>a, <2>1, NothingMoves
  <1>2. CASE PopOwn(w)
    <2>1. CASE Empty(w)
      <3>1. UNCHANGED <<stack, deques>> /\ wpc' = [wpc EXCEPT ![w] = "scan"]
        BY <1>2, <2>1 DEF PopOwn
      <3>2. QED
        BY <1>1, <1>a, <3>1
    <2>2. CASE ~Empty(w)
      <3>1. PopBottom(w) /\ Runs(w, Bottom(w))
        BY <1>2, <2>2 DEF PopOwn
      <3>2. DistinctQueue(w)
        BY <1>a DEF Places
      <3> PICK t : t = Bottom(w)
        OBVIOUS
      <3>3. /\ t \in Queue(w) /\ Queue(w)' = Queue(w) \ {t} /\ DistinctQueue(w)'
            /\ \A v \in Workers \ {w} : Queue(v)' = Queue(v)
                                        /\ (DistinctQueue(v) <=> DistinctQueue(v)')
        BY <1>a, <2>2, <3>1, <3>2, PopQueues
      <3>4. QED
        BY <1>a, <3>1, <3>3, TakesKeepsJobs
    <2>3. QED
      BY <2>1, <2>2
  <1>3. CASE Scan(w)
    <2> PICK v : v = at[w]
      OBVIOUS
    <2>1. v \in Workers
      BY <1>3, PoolAssumption DEF Scan, IInv, ControlTypes, Workers
    <2>2. CASE v # w /\ mem[v] = "live" /\ ~Empty(v)
      <3>1. StealTop(v) /\ Runs(w, Top(v))
        BY <1>3, <2>2 DEF Scan, Touches
      <3>2. DistinctQueue(v)
        BY <1>a, <2>1 DEF Places
      <3> PICK t : t = Top(v)
        OBVIOUS
      <3>3. /\ t \in Queue(v) /\ Queue(v)' = Queue(v) \ {t} /\ DistinctQueue(v)'
            /\ \A u \in Workers \ {v} : Queue(u)' = Queue(u)
                                        /\ (DistinctQueue(u) <=> DistinctQueue(u)')
        BY <1>a, <2>1, <2>2, <3>1, <3>2, StealQueues
      <3>4. QED
        BY <1>a, <2>1, <3>1, <3>3, TakesKeepsJobs
    <2>3. CASE ~(v # w /\ mem[v] = "live" /\ ~Empty(v))
      <3>1. UNCHANGED <<stack, deques, wpc>>
        BY <1>3, <2>3 DEF Scan, Touches, Skips
      <3>2. QED
        BY <1>1, <3>1
    <2>4. QED
      BY <2>2, <2>3
  <1>4. CASE LeaveOrNap(w)
    <2>1. /\ UNCHANGED <<stack, deques>>
          /\ wpc' = [wpc EXCEPT ![w] = IF shutdown THEN "gone" ELSE "pop"]
      BY <1>4 DEF LeaveOrNap
    <2>2. QED
      BY <1>1, <1>a, <2>1
  <1>5. QED
    BY <1>2, <1>3, <1>4

LEMMA OutsideStepKeepsJobs ==
  ASSUME IInv, EdgeInv, JobsInv, OutsideStep
  PROVE  JobsInv'
  <1>a. Places /\ Quiet /\ RingTypes /\ LifeStages /\ Outside \in Threads
    BY DEF JobsInv, EdgeInv, IInv, Threads
  <1>1. CASE opc = "run" /\ JobStep(Outside)
    BY <1>a, <1>1, SubmitKeepsJobs, JoinKeepsJobs, ReturnKeepsJobs DEF JobStep
  <1>2. CASE InitBegins
    <2>1. UNCHANGED <<prog, task, stack, deques>>
      BY <1>2 DEF InitBegins
    <2>2. Pending = {} /\ Pending' = {}
      BY <1>a, <1>2, <2>1 DEF InitBegins, Quiet, Pending
    <2>3. Quiet'
      BY <1>2, <2>2 DEF InitBegins, Quiet
    <2>4. QED
      BY <2>1, <2>3, NothingMoves
  <1>3. CASE InitAgain \/ ShutdownNotReady
    <2>1. /\ UNCHANGED <<prog, ready, shutdown, opc, task, deques, wpc>>
          /\ Advance(Outside)
          /\ At(Outside, "init") \/ At(Outside, "shutdown")
      BY <1>3 DEF InitAgain, ShutdownNotReady, outside
    <2>2. Quiet'
      BY <1>a, <2>1, QuietKept DEF Pending
    <2>3. QED
      BY <1>3, <2>1, <2>2, OutsideAdvances DEF InitAgain, ShutdownNotReady
  <1>4. CASE StartWorker
    <2>1. /\ UNCHANGED <<prog, ready, shutdown, opc, task, stack>> /\ opc = "starting"
          /\ head' = [head EXCEPT ![ci] = 0] /\ tail' = [tail EXCEPT ![ci] = 0]
          /\ UNCHANGED jobs /\ wpc' = [wpc EXCEPT ![ci] = "pop"]
      BY <1>4 DEF StartWorker
    <2>2. Pending = {} /\ Pending' = {}
      BY <1>a, <2>1 DEF Quiet, Pending
    <2>3. \A w \in Workers : Queue(w) = {}
      <3>1. ASSUME NEW w \in Workers, NEW t \in Queue(w) PROVE FALSE
        <4>1. t \in Tasks
          BY DEF Queue, Busy, IInv, RingsHoldTasks
        <4>2. QED
          BY <1>a, <2>2, <4>1 DEF Places, Held, Pending
      <3>2. QED
        BY <3>1
    <2>4. \A w \in Workers : Busy(w) = {}
      BY <2>3 DEF Queue
    <2>5. \A w \in Workers : Busy(w)' = {}
      <3>1. ASSUME NEW w \in Workers PROVE Busy(w)' = {}
        <4>1. CASE w = ci
          BY <1>a, <2>1, <4>1 DEF RingTypes, Busy, Within, Indices
        <4>2. CASE w # ci
          <5>1. head'[w] = head[w] /\ tail'[w] = tail[w]
            BY <1>a, <2>1, <4>2 DEF RingTypes
          <5>2. QED
            BY <2>4, <5>1 DEF Busy
        <4>3. QED
          BY <4>1, <4>2
      <3>2. QED
        BY <3>1
    <2>6. QueuesKept({})
      BY <2>4, <2>5 DEF QueuesKept, Queue, DistinctQueue
    <2>7. Places'
      BY <1>a, <2>1, <2>6, StacksUnchanged, PlacesKept DEF TasksKept
    <2>8. Quiet'
      BY <1>a, <2>1, <2>2 DEF Quiet, IInv, ControlTypes
    <2>9. QED
      BY <2>1, <2>7, <2>8, TasksStay DEF Gone
  <1>5. CASE InitReturns
    <2>1. /\ UNCHANGED <<prog, shutdown, task, deques, wpc>> /\ opc = "starting"
          /\ \/ UNCHANGED stack
             \/ At(Outside, "init") /\ Advance(Outside)
      BY <1>5 DEF InitReturns
    <2>2. Pending = {} /\ Pending' = {}
      BY <1>a, <2>1 DEF Quiet, Pending
    <2>3. Quiet'
      BY <1>a, <2>1, <2>2 DEF Quiet
    <2>4. QED
      BY <2>1, <2>3, OutsideAdvances, NothingMoves
  <1>6. CASE ShutdownBegins
    <2>1. /\ UNCHANGED <<prog, task, stack, deques, wpc>> /\ opc' = "stopping"
          /\ shutdown' = TRUE /\ At(Outside, "shutdown")
      BY <1>6 DEF ShutdownBegins
    <2>2. Pending = {} /\ Pending' = {}
      BY <2>1, DrainedAtShutdown DEF Pending
    <2>3. Quiet'
      BY <2>1, <2>2 DEF Quiet
    <2>4. QED
      BY <2>1, <2>3, NothingMoves
  <1>7. CASE JoinWorker
    <2>1. UNCHANGED <<prog, ready, shutdown, opc, task, stack, deques, wpc>>
      BY <1>7 DEF JoinWorker
    <2>2. Quiet'
      BY <1>a, <2>1, QuietKept DEF Pending
    <2>3. QED
      BY <2>1, <2>2, NothingMoves
  <1>8. CASE ShutdownReturns
    <2>1. /\ UNCHANGED <<prog, shutdown, task, deques, wpc>> /\ opc = "stopping"
          /\ ready' = FALSE /\ opc' = "run"
          /\ At(Outside, "shutdown") /\ Advance(Outside)
      BY <1>8 DEF ShutdownReturns
    <2>2. Pending = {} /\ Pending' = {}
      BY <1>a, <2>1 DEF Quiet, Pending
    <2>3. Quiet'
      BY <1>a, <2>1, <2>2 DEF Quiet
    <2>4. QED
      BY <2>1, <2>3, OutsideAdvances
  <1>9. QED
    BY <1>1, <1>2, <1>3, <1>4, <1>5, <1>6, <1>7, <1>8 DEF OutsideStep

\* Every step keeps the jobs in their places.
LEMMA NextJobsInv == IInv /\ EdgeInv /\ JobsInv /\ [Next]_vars => JobsInv'
  <1> SUFFICES ASSUME IInv, EdgeInv, JobsInv, [Next]_vars PROVE JobsInv'
    OBVIOUS
  <1>1. CASE OutsideStep
    BY <1>1, OutsideStepKeepsJobs
  <1>2. ASSUME NEW w \in Workers, WorkerStep(w) PROVE JobsInv'
    <2>1. w \in Threads /\ w # Outside
      BY PoolAssumption DEF Threads, Workers, Outside
    <2>2. CASE JobStep(w)
      BY <2>1, <2>2, SubmitKeepsJobs, JoinKeepsJobs, ReturnKeepsJobs DEF JobStep
    <2>3. QED
      BY <1>2, <2>2, LoopStepKeepsJobs DEF WorkerStep
  <1>3. CASE UNCHANGED vars
    <2>1. Quiet'
      BY <1>3 DEF vars, JobsInv, Quiet, Pending
    <2>2. QED
      BY <1>3, <2>1, NothingMoves DEF vars
  <1>4. QED
    BY <1>1, <1>2, <1>3 DEF Next

LEMMA InitJobsInv ==
  ASSUME \A p \in Programs : JoinsItsOwn(p), Init
  PROVE  JobsInv
  <1> DEFINE f == [task |-> Main, pos |-> 1]
  <1>1. f \in FrameSet /\ f.task = Main /\ f.pos = 1
    BY DEF FrameSet
  <1> HIDE DEF f
  <1>2. \A th \in Threads : stack[th] = IF th = Outside THEN <<f>> ELSE <<>>
    BY DEF Init, f
  <1>3. /\ On(<<f>>) = {Main} /\ Distinct(<<f>>)
        /\ \A b : \A i \in Nat \ {0} : ~Beyond(<<f>>, b, i)
    BY <1>1 DEF On, Distinct, Beyond
  <1>4. /\ \A th \in Threads : On(stack[th]) = IF th = Outside THEN {Main} ELSE {}
        /\ \A th \in Threads : Distinct(stack[th])
        /\ \A th \in Threads : \A b : \A i \in Nat \ {0} : ~Beyond(stack[th], b, i)
    BY <1>2, <1>3, EmptyStack
  <1>5. \A w \in Workers : Busy(w) = {}
    BY DEF Init, Busy, Within, Indices
  <1>6. \A w \in Workers : Queue(w) = {} /\ DistinctQueue(w)
    BY <1>5 DEF Queue, DistinctQueue
  <1>7. \A t \in Tasks : task[t] = "none"
    BY DEF Init
  <1>8. Places
    <2>1. Outside \in Threads
      BY DEF Threads
    <2>2. \A t \in Tasks : ~Held(t)
      BY <1>4, <1>6, TasksAssumption DEF Held
    <2>3. QED
      BY <1>4, <1>6, <1>7, <2>1, <2>2 DEF Places
  <1>9. Progress
    BY <1>4, <1>7 DEF Progress, Gone
  <1>10. Grounded /\ Quiet
    BY <1>7 DEF Grounded, Quiet, Pending, Init
  <1>11. JoinsItsOwn(prog)
    BY DEF Init
  <1>12. QED
    BY <1>8, <1>9, <1>10, <1>11 DEF JobsInv

\* The slots and the frames of EachJobOnce, in the terms of Places.
LEMMA SlotsOfTask ==
  ASSUME IInv, Places, NEW t \in Tasks
  PROVE  /\ (\E w \in Workers : t \in Queue(w)) => \E s : Slots(t) = {s}
         /\ ~(\E w \in Workers : t \in Queue(w)) => Slots(t) = {}
  <1>1. \A w \in Workers : Occupied(w) = Busy(w)
    BY OccupiedIsWithin DEF Busy, IInv, RingTypes
  <1>2. \A w, k : <<w, k>> \in Slots(t) <=>
          w \in Workers /\ k \in Busy(w) /\ jobs[w][k] = t
    BY <1>1 DEF Slots, Busy, Indices
  <1>3. \A s \in Slots(t) : s = <<s[1], s[2]>>
    BY DEF Slots
  <1>4. ASSUME NEW w \in Workers, t \in Queue(w) PROVE \E s : Slots(t) = {s}
    <2>1. PICK k \in Busy(w) : jobs[w][k] = t
      BY <1>4 DEF Queue
    <2>2. ASSUME NEW v, NEW l, <<v, l>> \in Slots(t) PROVE v = w /\ l = k
      <3>1. v \in Workers /\ l \in Busy(v) /\ jobs[v][l] = t
        BY <1>2, <2>2
      <3>2. t \in Queue(v)
        BY <3>1 DEF Queue
      <3>3. v = w
        BY <1>4, <3>1, <3>2 DEF Places
      <3>4. QED
        BY <2>1, <3>1, <3>3 DEF Places, DistinctQueue
    <2>3. <<w, k>> \in Slots(t)
      BY <1>2, <2>1
    <2>4. \A s \in Slots(t) : s = <<w, k>>
      BY <1>3, <2>2
    <2>5. Slots(t) = {<<w, k>>}
      BY <2>3, <2>4
    <2>6. QED
      BY <2>5
  <1>5. ASSUME NEW s \in Slots(t) PROVE \E w \in Workers : t \in Queue(w)
    <2>1. s[1] \in Workers /\ s[2] \in Busy(s[1]) /\ jobs[s[1]][s[2]] = t
      BY <1>2, <1>3
    <2>2. QED
      BY <2>1 DEF Queue
  <1>6. QED
    BY <1>4, <1>5

LEMMA FramesOfTask ==
  ASSUME IInv, Places, NEW t \in Tasks
  PROVE  /\ (\E th \in Threads : t \in On(stack[th])) => \E f : Frames(t) = {f}
         /\ ~(\E th \in Threads : t \in On(stack[th])) => Frames(t) = {}
  <1>1. \A th \in Threads : DOMAIN stack[th] = 1 .. Len(stack[th])
    BY DEF IInv, StackTypes
  <1>2. \A th, k : <<th, k>> \in Frames(t) <=>
          th \in Threads /\ k \in 1 .. Len(stack[th]) /\ stack[th][k].task = t
    BY <1>1 DEF Frames
  <1>3. \A f \in Frames(t) : f = <<f[1], f[2]>>
    BY DEF Frames
  <1>4. ASSUME NEW th \in Threads, t \in On(stack[th]) PROVE \E f : Frames(t) = {f}
    <2>1. PICK k \in 1 .. Len(stack[th]) : stack[th][k].task = t
      BY <1>4 DEF On
    <2>2. ASSUME NEW u, NEW l, <<u, l>> \in Frames(t) PROVE u = th /\ l = k
      <3>1. u \in Threads /\ l \in 1 .. Len(stack[u]) /\ stack[u][l].task = t
        BY <1>2, <2>2
      <3>2. t \in On(stack[u])
        BY <3>1 DEF On
      <3>3. u = th
        BY <1>4, <3>1, <3>2 DEF Places
      <3>4. QED
        BY <2>1, <3>1, <3>3 DEF Places, Distinct
    <2>3. <<th, k>> \in Frames(t)
      BY <1>2, <2>1
    <2>4. \A f \in Frames(t) : f = <<th, k>>
      BY <1>3, <2>2
    <2>5. Frames(t) = {<<th, k>>}
      BY <2>3, <2>4
    <2>6. QED
      BY <2>5
  <1>5. ASSUME NEW f \in Frames(t) PROVE \E th \in Threads : t \in On(stack[th])
    <2>1. f[1] \in Threads /\ f[2] \in 1 .. Len(stack[f[1]]) /\ stack[f[1]][f[2]].task = t
      BY <1>2, <1>3
    <2>2. QED
      BY <2>1 DEF On
  <1>6. QED
    BY <1>4, <1>5

LEMMA PlacesCounted == IInv /\ Places => EachJobOnce
  <1> SUFFICES ASSUME IInv, Places, NEW t \in Tasks
               PROVE  Cardinality(Slots(t)) + Cardinality(Frames(t)) =
                        IF task[t] = "pending" THEN 1 ELSE 0
    BY DEF EachJobOnce
  <1>1. Cardinality({}) = 0 /\ \A s : Cardinality({s}) = 1
    BY FS_EmptySet, FS_Singleton
  <1>2. CASE \E w \in Workers : t \in Queue(w)
    <2>1. ~ \E th \in Threads : t \in On(stack[th])
      BY <1>2 DEF Places
    <2>2. Cardinality(Slots(t)) = 1 /\ Cardinality(Frames(t)) = 0
      BY <1>1, <1>2, <2>1, SlotsOfTask, FramesOfTask
    <2>3. QED
      BY <1>2, <2>2 DEF Places, Held
  <1>3. CASE ~(\E w \in Workers : t \in Queue(w)) /\ (\E th \in Threads : t \in On(stack[th]))
    <2>1. Cardinality(Slots(t)) = 0 /\ Cardinality(Frames(t)) = 1
      BY <1>1, <1>3, SlotsOfTask, FramesOfTask
    <2>2. QED
      BY <1>3, <2>1 DEF Places, Held
  <1>4. CASE ~(\E w \in Workers : t \in Queue(w)) /\ ~(\E th \in Threads : t \in On(stack[th]))
    <2>1. Cardinality(Slots(t)) = 0 /\ Cardinality(Frames(t)) = 0
      BY <1>1, <1>4, SlotsOfTask, FramesOfTask
    <2>2. QED
      BY <1>4, <2>1 DEF Places, Held
  <1>5. QED
    BY <1>2, <1>3, <1>4

(* Pushes, pops, steals and inline runs neither lose a job nor run it      *)
(* twice: a submitted job whose body has not returned is in exactly one    *)
(* ring slot or on exactly one stack, whatever the number of workers, the  *)
(* size of the deques and the programs, as long as these join their tasks. *)
THEOREM EachJobInOnePlace ==
  ASSUME \A p \in Programs : JoinsItsOwn(p)
  PROVE  Spec => []EachJobOnce
  <1>1. Init => JobsInv
    BY InitJobsInv
  <1>2. JobsInv => Places
    BY DEF JobsInv
  <1>3. QED
    BY InitIInv, NextIInv, InitEdgeInv, NextEdgeInv, <1>1, NextJobsInv, <1>2,
       PlacesCounted, PTL DEF Spec

\* While nothing is pending the rings are empty.
LEMMA QuietRings ==
  ASSUME IInv, JobsInv, NEW w \in Workers, Pending = {}
  PROVE  Empty(w)
  <1>1. ASSUME NEW t \in Queue(w) PROVE FALSE
    <2>1. t \in Tasks
      BY DEF Queue, Busy, IInv, RingsHoldTasks
    <2>2. QED
      BY <2>1 DEF JobsInv, Places, Held, Pending
  <1>2. QED
    BY <1>1, EmptyQueue DEF IInv

LEMMA JobsDrained == IInv /\ EdgeInv /\ JobsInv => StopsDrained
  <1> SUFFICES ASSUME IInv, EdgeInv, JobsInv, NEW w \in Workers,
                      mem[w] = "freed" \/ wpc[w] = "gone"
               PROVE  Empty(w)
    BY DEF StopsDrained
  <1>1. Quiet /\ LifeStages /\ opc \in {"run", "starting", "stopping"}
    BY DEF JobsInv, EdgeInv, IInv, ControlTypes
  <1>2. ~(opc = "run" /\ ready)
    BY <1>1 DEF Quiet, LifeStages
  <1>3. Pending = {}
    BY <1>1, <1>2 DEF Quiet
  <1>4. QED
    BY <1>3, QuietRings

(* If every task is joined by the body that submitted it, shutdown frees   *)
(* no deque with a job in it and no worker leaves its own behind: pending  *)
(* jobs do not submit each other in a circle, so if any were left, one     *)
(* would have been joined already.                                         *)
THEOREM NoJobLeftBehind ==
  ASSUME \A p \in Programs : JoinsItsOwn(p)
  PROVE  Spec => []StopsDrained
  <1>1. Init => JobsInv
    BY InitJobsInv
  <1>2. QED
    BY InitIInv, NextIInv, InitEdgeInv, NextEdgeInv, <1>1, NextJobsInv, JobsDrained,
       PTL DEF Spec

-----------------------------------------------------------------------------
(* The executor implements the task pool *)

\* The jobs that some thread is inside of.
Underway == {t \in Tasks : \E th \in Threads : t \in On(stack[th])}

StatusIs(t, s) ==
  \/ s = "new" /\ task[t] = "none"
  \/ s = "queued" /\ task[t] = "pending" /\ t \notin Underway
  \/ s = "running" /\ task[t] = "pending" /\ t \in Underway
  \/ s = "done" /\ task[t] = "done"
  \/ s = "joined" /\ task[t] = "freed"

StatusRight == \A t \in Tasks : \A s : Status[t] = s <=> StatusIs(t, s)

LEMMA StatusOf == IInv /\ Places => StatusRight
  <1> SUFFICES ASSUME IInv, Places, NEW t \in Tasks, NEW s
               PROVE  Status[t] = s <=> StatusIs(t, s)
    BY DEF StatusRight
  <1> DEFINE names == [none |-> "new", done |-> "done", freed |-> "joined"]
  <1>1. Status[t] = IF task[t] # "pending" THEN names[task[t]]
                    ELSE IF Frames(t) # {} THEN "running" ELSE "queued"
    BY DEF Status
  <1>2. /\ names["none"] = "new" /\ names["done"] = "done" /\ names["freed"] = "joined"
    OBVIOUS
  <1> HIDE DEF names
  <1>3. task[t] \in {"none", "pending", "done", "freed"}
    BY DEF IInv, ControlTypes
  <1>4. Frames(t) # {} <=> t \in Underway
    BY FramesOfTask DEF Underway
  <1>5. CASE task[t] = "none"
    BY <1>1, <1>2, <1>5 DEF StatusIs
  <1>6. CASE task[t] = "pending"
    BY <1>1, <1>4, <1>6 DEF StatusIs
  <1>7. CASE task[t] = "done"
    BY <1>1, <1>2, <1>7 DEF StatusIs
  <1>8. CASE task[t] = "freed"
    BY <1>1, <1>2, <1>8 DEF StatusIs
  <1>9. QED
    BY <1>3, <1>5, <1>6, <1>7, <1>8

LEMMA StatusOfNext == IInv' /\ Places' => StatusRight'
  BY StatusOf, PTL

\* How the status of one task moves on, in the terms of the pool.
LEMMA StatusMoves ==
  ASSUME IInv, Places, IInv', Places', UNCHANGED prog, NEW t \in Tasks, NEW from, NEW to,
         StatusIs(t, from), StatusIs(t, to)',
         \A u \in Tasks \ {t} :
           task'[u] = task[u] /\ (u \in Underway' <=> u \in Underway)
  PROVE  Pool!Becomes(t, from, to)
  <1>1. /\ \A u \in Tasks : \A s : Status[u] = s <=> StatusIs(u, s)
        /\ \A u \in Tasks : \A s : Status'[u] = s <=> StatusIs(u, s)'
    BY StatusOf, StatusOfNext DEF StatusRight
  <1>2. Status[t] = from /\ Status'[t] = to
    BY <1>1
  <1>3. \A u \in Tasks \ {t} : Status'[u] = Status[u]
    <2>1. ASSUME NEW u \in Tasks \ {t} PROVE Status'[u] = Status[u]
      <3> PICK s : s = Status[u]
        OBVIOUS
      <3>1. StatusIs(u, s)
        BY <1>1
      <3>2. StatusIs(u, s)'
        BY <3>1 DEF StatusIs
      <3>3. QED
        BY <1>1, <3>2
    <2>2. QED
      BY <2>1
  <1>4. Status' = [Status EXCEPT ![t] = to]
    <2>1. Status = [u \in Tasks |-> Status[u]] /\ Status' = [u \in Tasks |-> Status'[u]]
      BY DEF Status
    <2>2. QED
      BY <1>2, <1>3, <2>1
  <1>5. UNCHANGED Joins
    BY DEF Joins
  <1>6. QED
    BY <1>2, <1>4, <1>5 DEF Pool!Becomes

LEMMA StatusStays ==
  ASSUME IInv, Places, IInv', Places', UNCHANGED <<prog, task>>, Underway' = Underway
  PROVE  UNCHANGED Pool!vars
  <1>1. ASSUME NEW u \in Tasks PROVE Status'[u] = Status[u]
    <2> PICK s : s = Status[u]
      OBVIOUS
    <2>1. StatusIs(u, s)
      BY StatusOf DEF StatusRight
    <2>2. StatusIs(u, s)'
      BY <2>1 DEF StatusIs
    <2>3. QED
      BY <2>2, StatusOfNext DEF StatusRight
  <1>2. UNCHANGED Status
    <2>1. Status = [u \in Tasks |-> Status[u]] /\ Status' = [u \in Tasks |-> Status'[u]]
      BY DEF Status
    <2>2. QED
      BY <1>1, <2>1
  <1>3. UNCHANGED Joins
    BY DEF Joins
  <1>4. QED
    BY <1>2, <1>3 DEF Pool!vars

PoolStep == [Pool!Next]_(Pool!vars)

\* One move of one task is a step of the pool.
LEMMA PoolMoves ==
  ASSUME NEW t \in Tasks,
         \/ Pool!Becomes(t, "new", "queued") \/ Pool!Becomes(t, "new", "running")
         \/ Pool!Becomes(t, "queued", "running") \/ Pool!Becomes(t, "done", "joined")
  PROVE  PoolStep
  BY DEF PoolStep, Pool!Next, Pool!Submit, Pool!SubmitAndRun, Pool!Start, Pool!Join

LEMMA UnderwayAfter ==
  ASSUME StackTypes, NEW th \in Threads, NEW s, stack' = [stack EXCEPT ![th] = s]
  PROVE  \A u \in Tasks : u \in Underway' <=>
           u \in On(s) \/ \E x \in Threads \ {th} : u \in On(stack[x])
  <1>1. stack'[th] = s /\ \A x \in Threads \ {th} : stack'[x] = stack[x]
    BY DEF StackTypes
  <1>2. QED
    BY <1>1 DEF Underway

LEMMA SubmitImplements ==
  ASSUME IInv, JobsInv, IInv', Places', NEW th \in Threads, Submit(th)
  PROVE  PoolStep
  <1> PICK w, t : w = submitted % N /\ t = Arg(th)
    OBVIOUS
  <1>a. Places /\ StackTypes /\ At(th, "submit") /\ UNCHANGED prog
    BY DEF JobsInv, IInv, Submit
  <1>1. t \in Tasks /\ stack[th] # <<>> /\ task[t] = "none"
    BY <1>a, AtCall, AtOperation, SubmitsNew
  <1>2. CASE ~ \A v \in Reached(w) : mem[v] = "live"
    <2>1. UNCHANGED <<stack, task>>
      BY <1>2 DEF Submit, Touches
    <2>2. Underway' = Underway
      BY <2>1 DEF Underway
    <2>3. QED
      BY <1>a, <2>1, <2>2, StatusStays DEF PoolStep
  <1>3. CASE \A v \in Reached(w) : mem[v] = "live"
    <2>1. /\ task' = [task EXCEPT ![t] = "pending"]
          /\ IF Full(w)
             THEN stack' = [stack EXCEPT ![th] =
                              <<[task |-> t, pos |-> 1]>> \o Advanced(th)]
             ELSE stack' = [stack EXCEPT ![th] = Advanced(th)]
      BY <1>3 DEF Submit, Touches, Advance
    <2>2. /\ task'[t] = "pending" /\ \A u \in Tasks \ {t} : task'[u] = task[u]
      BY <1>1, <2>1 DEF IInv, ControlTypes
    <2>3. Advanced(th) \in Seq(FrameSet) /\ On(Advanced(th)) = On(stack[th])
      BY <1>a, <1>1, AdvancedStack
    <2>4. t \notin Underway
      BY <1>a, <1>1 DEF Places, Held, Underway
    <2> PICK r : r = IF Full(w) THEN <<[task |-> t, pos |-> 1]>> \o Advanced(th)
                    ELSE Advanced(th)
      OBVIOUS
    <2>5. CASE Full(w)
      <3>0. r = <<[task |-> t, pos |-> 1]>> \o Advanced(th)
        BY <2>5
      <3>1. On(r) = On(stack[th]) \cup {t}
        <4>1. /\ On(r) = On(Advanced(th)) \cup {t}
              /\ Distinct(r) <=> Distinct(Advanced(th)) /\ t \notin On(Advanced(th))
              /\ \A b : \A i \in Nat \ {0} : Beyond(r, b, i) <=> Beyond(Advanced(th), b, i)
          BY <1>1, <2>3, <3>0, StartedJob
        <4>2. QED
          BY <2>3, <4>1
      <3>2. stack' = [stack EXCEPT ![th] = r]
        BY <2>1, <2>5, <3>0
      <3>3. \A u \in Tasks : u \in Underway' <=> u \in Underway \/ u = t
        <4>1. \A u \in Tasks : u \in Underway' <=>
                u \in On(r) \/ \E x \in Threads \ {th} : u \in On(stack[x])
          BY <1>a, <3>2, UnderwayAfter
        <4>2. QED
          BY <3>1, <4>1 DEF Underway
      <3>4. StatusIs(t, "new") /\ StatusIs(t, "running")'
        BY <1>1, <2>2, <3>3 DEF StatusIs
      <3>5. QED
        BY <1>a, <1>1, <2>2, <3>3, <3>4, StatusMoves, PoolMoves
    <2>6. CASE ~Full(w)
      <3>1. \A u \in Tasks : u \in Underway' <=> u \in Underway
        BY <1>a, <2>1, <2>3, <2>6, UnderwayAfter DEF Underway
      <3>2. StatusIs(t, "new") /\ StatusIs(t, "queued")'
        BY <1>1, <2>2, <2>4, <3>1 DEF StatusIs
      <3>3. QED
        BY <1>a, <1>1, <2>2, <3>1, <3>2, StatusMoves, PoolMoves
    <2>7. QED
      BY <2>5, <2>6
  <1>4. QED
    BY <1>2, <1>3

LEMMA JoinImplements ==
  ASSUME IInv, JobsInv, IInv', Places', NEW th \in Threads, Join(th)
  PROVE  PoolStep
  <1> PICK t : t = Arg(th)
    OBVIOUS
  <1>a. /\ Places /\ StackTypes /\ At(th, "join") /\ UNCHANGED prog /\ task[t] = "done"
        /\ task' = [task EXCEPT ![t] = "freed"]
        /\ stack' = [stack EXCEPT ![th] = Advanced(th)]
    BY DEF JobsInv, IInv, Join, Advance
  <1>1. t \in Tasks /\ stack[th] # <<>>
    BY <1>a, AtCall, AtOperation
  <1>2. task'[t] = "freed" /\ \A u \in Tasks \ {t} : task'[u] = task[u]
    BY <1>a, <1>1 DEF IInv, ControlTypes
  <1>3. On(Advanced(th)) = On(stack[th])
    BY <1>a, <1>1, AdvancedStack
  <1>4. \A u \in Tasks : u \in Underway' <=> u \in Underway
    BY <1>a, <1>3, UnderwayAfter DEF Underway
  <1>5. StatusIs(t, "done") /\ StatusIs(t, "joined")'
    BY <1>a, <1>2 DEF StatusIs
  <1>6. QED
    BY <1>a, <1>1, <1>2, <1>4, <1>5, StatusMoves, PoolMoves

LEMMA ReturnImplements ==
  ASSUME IInv, JobsInv, IInv', Places', NEW th \in Threads, JobReturns(th)
  PROVE  PoolStep
  <1> PICK t : t = Frame(th).task
    OBVIOUS
  <1>a. /\ Places /\ Progress /\ StackTypes /\ UNCHANGED prog
        /\ stack[th] # <<>> /\ t # Main /\ Frame(th).pos > Len(prog[t])
        /\ task' = [task EXCEPT ![t] = "done"]
        /\ stack' = [stack EXCEPT ![th] = Tail(stack[th])]
    BY DEF JobsInv, IInv, JobReturns, Script, StackTypes
  <1>1. /\ Frame(th) \in FrameSet
        /\ On(stack[th]) = On(Tail(stack[th])) \cup {t}
        /\ t \notin On(Tail(stack[th]))
    <2>1. Distinct(stack[th])
      BY <1>a DEF Places
    <2>2. QED
      BY <1>a, <2>1, TopFrame
  <1>2. t \in Tasks /\ t \in Bodies /\ Frame(th).pos \in Nat
    BY <1>a, <1>1 DEF FrameSet, Bodies
  <1>3. task[t] = "pending" /\ t \in Underway
    BY <1>a, <1>1, <1>2 DEF Places, Held, Underway
  <1>4. task'[t] = "done" /\ \A u \in Tasks \ {t} : task'[u] = task[u]
    BY <1>a, <1>2 DEF IInv, ControlTypes
  <1>5. \A u \in Tasks \ {t} : u \in Underway' <=> u \in Underway
    BY <1>a, <1>1, UnderwayAfter DEF Underway
  <1>6. StatusIs(t, "running") /\ StatusIs(t, "done")'
    BY <1>3, <1>4 DEF StatusIs
  <1>7. Pool!Becomes(t, "running", "done")
    BY <1>a, <1>2, <1>4, <1>5, <1>6, StatusMoves
  <1>8. ASSUME NEW c \in Joins[t] PROVE Status[c] = "joined"
    <2>1. c \in Tasks
      BY <1>2 DEF Joins
    <2>2. PICK i \in DOMAIN prog[t] : prog[t][i] = [op |-> "join", task |-> c]
      BY <1>2 DEF Joins
    <2>3. i \in Nat \ {0} /\ Frame(th).pos > i
      <3>1. prog[t] \in Seq(JobOp)
        BY <1>2, ProgramsAssumption DEF IInv, ControlTypes
      <3>2. QED
        BY <1>a, <1>2, <3>1
    <2>4. Gone(t, i)
      BY <1>a, <2>3, GoneInFrame
    <2>5. task[c] = "freed"
      BY <1>a, <1>2, <2>1, <2>2, <2>3, <2>4 DEF Progress, Calls
    <2>6. StatusIs(c, "joined")
      BY <2>5 DEF StatusIs
    <2>7. QED
      BY <1>a, <2>1, <2>6, StatusOf DEF StatusRight
  <1>9. QED
    BY <1>2, <1>7, <1>8 DEF PoolStep, Pool!Next, Pool!Finish

LEMMA TakeImplements ==
  ASSUME IInv, EdgeInv, JobsInv, IInv', Places', NEW w \in Workers, wpc[w] # "busy",
         NEW v \in Workers, NEW t \in Queue(v), Runs(w, t), UNCHANGED <<prog, task>>
  PROVE  PoolStep
  <1>a. /\ Places /\ StackTypes /\ w \in Threads
        /\ stack' = [stack EXCEPT ![w] = <<[task |-> t, pos |-> 1]>>]
    BY DEF JobsInv, IInv, Threads, Runs
  <1>1. t \in Tasks
    BY DEF Queue, Busy, IInv, RingsHoldTasks
  <1>2. On(stack[w]) = {}
    BY EmptyStack DEF EdgeInv, IdleStacks
  <1> PICK r : r = <<[task |-> t, pos |-> 1]>>
    OBVIOUS
  <1>3. On(r) = {t}
    <2>1. /\ Len(r) = 1 /\ r[1].task = t
      OBVIOUS
    <2>2. QED
      BY <2>1 DEF On
  <1>4. t \notin Underway /\ task[t] = "pending"
    BY <1>a, <1>1 DEF Places, Held, Underway
  <1>5. \A u \in Tasks : u \in Underway' <=> u \in Underway \/ u = t
    <2>1. stack' = [stack EXCEPT ![w] = r]
      BY <1>a
    <2>2. \A u \in Tasks : u \in Underway' <=>
            u \in On(r) \/ \E x \in Threads \ {w} : u \in On(stack[x])
      BY <1>a, <2>1, UnderwayAfter
    <2>3. QED
      BY <1>a, <1>2, <1>3, <2>2 DEF Underway
  <1>6. StatusIs(t, "queued") /\ StatusIs(t, "running")'
    BY <1>1, <1>4, <1>5 DEF StatusIs
  <1>7. QED
    BY <1>a, <1>1, <1>5, <1>6, StatusMoves, PoolMoves

LEMMA LoopImplements ==
  ASSUME IInv, EdgeInv, JobsInv, IInv', Places', NEW w \in Workers,
         PopOwn(w) \/ Scan(w) \/ LeaveOrNap(w)
  PROVE  PoolStep
  <1>a. Places /\ RingTypes /\ wpc[w] # "busy" /\ UNCHANGED <<prog, task>>
    BY DEF JobsInv, IInv, PopOwn, Scan, Touches, LeaveOrNap
  <1>b. ASSUME UNCHANGED stack PROVE PoolStep
    BY <1>a, <1>b, StatusStays DEF PoolStep, Underway
  <1>1. CASE PopOwn(w) /\ ~Empty(w)
    <2> PICK t : t = Bottom(w)
      OBVIOUS
    <2>1. PopBottom(w) /\ Runs(w, t)
      BY <1>1 DEF PopOwn
    <2>2. t \in Queue(w)
      BY <1>a, <1>1, <2>1, PopQueues DEF Places
    <2>3. QED
      BY <1>a, <2>1, <2>2, TakeImplements
  <1>2. CASE Scan(w) /\ at[w] # w /\ mem[at[w]] = "live" /\ ~Empty(at[w])
    <2> PICK v, t : v = at[w] /\ t = Top(v)
      OBVIOUS
    <2>1. v \in Workers
      BY <1>2, PoolAssumption DEF Scan, IInv, ControlTypes, Workers
    <2>2. StealTop(v) /\ Runs(w, t)
      BY <1>2 DEF Scan, Touches
    <2>3. t \in Queue(v)
      BY <1>a, <1>2, <2>1, <2>2, StealQueues DEF Places
    <2>4. QED
      BY <1>a, <2>1, <2>2, <2>3, TakeImplements
  <1>3. CASE PopOwn(w) /\ Empty(w)
    BY <1>b, <1>3 DEF PopOwn
  <1>4. CASE Scan(w) /\ ~(at[w] # w /\ mem[at[w]] = "live" /\ ~Empty(at[w]))
    BY <1>b, <1>4 DEF Scan, Touches, Skips
  <1>5. CASE LeaveOrNap(w)
    BY <1>b, <1>5 DEF LeaveOrNap
  <1>6. QED
    BY <1>1, <1>2, <1>3, <1>4, <1>5

LEMMA NextImplements ==
  IInv /\ EdgeInv /\ JobsInv /\ IInv' /\ JobsInv' /\ [Next]_vars => PoolStep
  <1> SUFFICES ASSUME IInv, EdgeInv, JobsInv, IInv', JobsInv', [Next]_vars PROVE PoolStep
    OBVIOUS
  <1>a. Places /\ Places' /\ StackTypes /\ Outside \in Threads
    BY DEF JobsInv, IInv, Threads
  <1>1. ASSUME NEW th \in Threads, JobStep(th) PROVE PoolStep
    BY <1>a, <1>1, SubmitImplements, JoinImplements, ReturnImplements DEF JobStep
  <1>2. ASSUME UNCHANGED <<prog, task>>,
               \/ UNCHANGED stack
               \/ Advance(Outside) /\ stack[Outside] # <<>>
        PROVE  PoolStep
    <2>1. CASE UNCHANGED stack
      BY <1>a, <1>2, <2>1, StatusStays DEF PoolStep, Underway
    <2>2. CASE Advance(Outside) /\ stack[Outside] # <<>>
      <3>1. On(Advanced(Outside)) = On(stack[Outside])
        BY <1>a, <2>2, AdvancedStack
      <3>2. \A u \in Tasks : u \in Underway' <=> u \in Underway
        BY <1>a, <2>2, <3>1, UnderwayAfter DEF Underway, Advance
      <3>3. Underway' = Underway
        BY <3>2 DEF Underway
      <3>4. QED
        BY <1>a, <1>2, <3>3, StatusStays DEF PoolStep
    <2>3. QED
      BY <1>2, <2>1, <2>2
  <1>3. CASE OutsideStep
    <2>1. CASE JobStep(Outside)
      BY <1>a, <1>1, <2>1
    <2>2. CASE ~JobStep(Outside)
      <3>1. /\ UNCHANGED <<prog, task>>
            /\ \/ UNCHANGED stack
               \/ Advance(Outside) /\ stack[Outside] # <<>>
        BY <1>3, <2>2
        DEF OutsideStep, InitBegins, InitAgain, StartWorker, InitReturns, ShutdownBegins,
            ShutdownNotReady, JoinWorker, ShutdownReturns, At
      <3>2. QED
        BY <1>2, <3>1
    <2>3. QED
      BY <2>1, <2>2
  <1>4. ASSUME NEW w \in Workers, WorkerStep(w) PROVE PoolStep
    <2>1. w \in Threads
      BY DEF Threads
    <2>2. QED
      BY <1>a, <1>1, <1>4, <2>1, LoopImplements DEF WorkerStep
  <1>5. CASE UNCHANGED vars
    BY <1>2, <1>5 DEF vars
  <1>6. QED
    BY <1>3, <1>4, <1>5 DEF Next

LEMMA InitImplements == Init => Pool!Init
  <1> SUFFICES ASSUME Init PROVE Pool!Init
    OBVIOUS
  <1>1. Status = [t \in Tasks |-> "new"]
    BY DEF Init, Status
  <1>2. Joins \in [Tasks -> SUBSET Tasks]
    BY DEF Joins
  <1>3. QED
    BY <1>1, <1>2 DEF Pool!Init

(* Seen from the tasks, the deques, the stealing and the inline runs are a *)
(* plain pool, for any number of workers and any size of the deques: each  *)
(* task is started once, joined after it has finished, and outlived by the *)
(* parent that joins it.                                                   *)
THEOREM ImplementsPool ==
  ASSUME \A p \in Programs : JoinsItsOwn(p)
  PROVE  Spec => PoolSpec
  <1>1. Init => JobsInv
    BY InitJobsInv
  <1>2. IInv /\ EdgeInv /\ JobsInv /\ IInv' /\ JobsInv' /\ [Next]_vars
          => [Pool!Next]_(Pool!vars)
    BY NextImplements DEF PoolStep
  <1>3. QED
    BY InitIInv, NextIInv, InitEdgeInv, NextEdgeInv, <1>1, NextJobsInv, <1>2,
       InitImplements, PTL DEF Spec, PoolSpec, Pool!Spec
=============================================================================
