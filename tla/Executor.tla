------------------------------ MODULE Executor ------------------------------
(***************************************************************************)
(* The work-stealing executor of stdlib/runtime/buraaq_runtime.c: a fixed  *)
(* set of workers, each with a mutex-protected ring deque, one external    *)
(* thread that initialises the pool, submits, joins and shuts it down, and *)
(* jobs that may themselves submit and join.                               *)
(*                                                                         *)
(* A deque operation runs under the deque's mutex and is one step; so is   *)
(* one probe of the stealing scan.  A worker that finds nothing naps for   *)
(* at most 2 ms on a condition variable and looks again whether it was     *)
(* signalled or not, so the nap and buraaq's wake-all change nothing here. *)
(* The counter `completed` is never read and is left out, allocation       *)
(* succeeds, and only the external thread calls init or shutdown.          *)
(*                                                                         *)
(* Locking a deque whose memory is not initialised yet, or already freed,  *)
(* is undefined behaviour in C: the model records it in `fault` and says   *)
(* nothing of what happens afterwards.                                     *)
(***************************************************************************)
EXTENDS Integers, Sequences, FiniteSets

CONSTANTS
  N,          \* worker threads
  DequeCap,   \* slots of a deque's ring (4096 in the code)
  Tasks,      \* the tasks a program may submit
  Main,       \* the external thread's own program, as if it were a task
  NoTask,     \* what an unwritten deque slot holds
  Programs    \* the programs: what Main and each task do, in order

JobOp == [op : {"submit", "join"}, task : Tasks]
Op == JobOp \cup [op : {"init", "shutdown"}, task : {NoTask}]

ASSUME PoolAssumption == N \in Nat \ {0} /\ DequeCap \in Nat \ {0}
ASSUME TasksAssumption == Main \notin Tasks /\ NoTask \notin Tasks /\ Main # NoTask
ASSUME ProgramsAssumption ==
  \A p \in Programs : /\ DOMAIN p = Tasks \cup {Main}
                      /\ p[Main] \in Seq(Op)
                      /\ \A t \in Tasks : p[t] \in Seq(JobOp)

Workers == 0 .. N - 1
Outside == -1              \* the external thread; owner_worker in the code
Threads == Workers \cup {Outside}

VARIABLES
  prog,            \* the program that runs
  ready,           \* g_exec_ready
  shutdown,        \* g_exec.shutdown
  submitted,       \* g_exec.submitted
  jobs, head, tail,   \* each worker's ring deque
  mem,             \* each deque's memory: "raw", "live" or "freed"
  wpc, at,         \* each worker's place in its loop, and its scan index
  opc, ci,         \* the external thread inside init or shutdown, and its i
  stack,           \* per thread: the jobs it is inside of, innermost first
  task,            \* each task's struct: none, then its done flag, then freed
  fault            \* "none", or the memory state of a deque wrongly touched

deques == <<jobs, head, tail>>
outside == <<ready, shutdown, mem, opc, ci>>
vars == <<prog, ready, shutdown, submitted, deques, mem, wpc, at, opc, ci,
          stack, task, fault>>

Init ==
  /\ prog \in Programs
  /\ ready = FALSE /\ shutdown = FALSE /\ submitted = 0
  /\ jobs = [w \in Workers |-> [i \in 0 .. DequeCap - 1 |-> NoTask]]
  /\ head = [w \in Workers |-> 0] /\ tail = [w \in Workers |-> 0]
  /\ mem = [w \in Workers |-> "raw"]
  /\ wpc = [w \in Workers |-> "unborn"] /\ at = [w \in Workers |-> 0]
  /\ opc = "run" /\ ci = 0
  /\ stack = [th \in Threads |->
                IF th = Outside THEN <<[task |-> Main, pos |-> 1]>> ELSE <<>>]
  /\ task = [t \in Tasks |-> "none"]
  /\ fault = "none"

-----------------------------------------------------------------------------
(* The ring deque: bottom is tail, top is head, one slot always free. *)

Slot(i) == (i + 1) % DequeCap
Before(i) == (i - 1 + DequeCap) % DequeCap

Empty(w) == head[w] = tail[w]

Full(w) == Slot(tail[w]) = head[w]

PushBottom(w, t) ==
  /\ jobs' = [jobs EXCEPT ![w][tail[w]] = t]
  /\ tail' = [tail EXCEPT ![w] = Slot(@)]
  /\ UNCHANGED head

\* A pop that reads the slot before it steps tail back.
BottomAtTail(w) == jobs[w][tail[w]]

Bottom(w) == jobs[w][Before(tail[w])]
PopBottom(w) ==
  /\ tail' = [tail EXCEPT ![w] = Before(@)]
  /\ UNCHANGED <<jobs, head>>

\* A thief that reads the top job and forgets to advance head.
StealKeepsTop(w) == UNCHANGED deques

StealTop(w) ==
  /\ head' = [head EXCEPT ![w] = Slot(@)]
  /\ UNCHANGED <<jobs, tail>>
Top(w) == jobs[w][head[w]]

-----------------------------------------------------------------------------
(* What a thread does inside a job, or inside the main program *)

Frame(th) == Head(stack[th])
Script(th) == prog[Frame(th).task]
At(th, op) ==
  /\ stack[th] # <<>>
  /\ Frame(th).pos <= Len(Script(th))
  /\ Script(th)[Frame(th).pos].op = op
Arg(th) == Script(th)[Frame(th).pos].task

Advanced(th) ==
  <<[Frame(th) EXCEPT !.pos = @ + 1]>> \o Tail(stack[th])
Advance(th) == stack' = [stack EXCEPT ![th] = Advanced(th)]

\* What locks a mutex of each worker of W either finds them live or faults.
Touches(W, normal) ==
  IF \A w \in W : mem[w] = "live" THEN normal /\ UNCHANGED fault
  ELSE /\ \E w \in W : mem[w] # "live" /\ fault' = mem[w]
       /\ UNCHANGED <<deques, wpc, at, stack, task, submitted>>

\* A push on a deque is followed by buraaq's wake-all, on every worker.
Reached(w) == IF mem[w] = "live" /\ Full(w) THEN {w} ELSE Workers

(* buraaq_task_submit: round robin over the deques.  A full deque makes    *)
(* the submitter run the job at once, inside the job it is in.             *)
Submit(th) ==
  LET w == submitted % N IN
  /\ At(th, "submit") /\ ready
  /\ Touches(Reached(w),
       /\ submitted' = submitted + 1
       /\ task' = [task EXCEPT ![Arg(th)] = "pending"]
       /\ IF Full(w)
          THEN /\ stack' = [stack EXCEPT ![th] =
                              <<[task |-> Arg(th), pos |-> 1]>> \o Advanced(th)]
               /\ UNCHANGED deques
          ELSE PushBottom(w, Arg(th)) /\ Advance(th)
       /\ UNCHANGED <<wpc, at>>)
  /\ UNCHANGED <<prog, outside>>

\* A join that does not wait for the done flag.
JoinEarly(th) ==
  /\ At(th, "join")
  /\ task' = [task EXCEPT ![Arg(th)] = "freed"]
  /\ Advance(th)
  /\ UNCHANGED <<prog, outside, submitted, deques, wpc, at, fault>>

(* buraaq_task_join spins on the done flag, yielding its OS thread and     *)
(* running no job of the pool meanwhile, then frees the task.              *)
Join(th) ==
  /\ At(th, "join")
  /\ task[Arg(th)] = "done"
  /\ task' = [task EXCEPT ![Arg(th)] = "freed"]
  /\ Advance(th)
  /\ UNCHANGED <<prog, outside, submitted, deques, wpc, at, fault>>

(* bq_task_trampoline: the body has returned; set done and return, to the  *)
(* submitter if the job ran inline, to the worker's loop otherwise.        *)
JobReturns(th) ==
  /\ stack[th] # <<>> /\ Frame(th).task # Main
  /\ Frame(th).pos > Len(Script(th))
  /\ task' = [task EXCEPT ![Frame(th).task] = "done"]
  /\ stack' = [stack EXCEPT ![th] = Tail(@)]
  /\ wpc' = IF th \in Workers /\ Len(stack[th]) = 1
            THEN [wpc EXCEPT ![th] = "pop"] ELSE wpc
  /\ UNCHANGED <<prog, outside, submitted, deques, at, fault>>

-----------------------------------------------------------------------------
(* bq_worker_main: pop the own deque, else steal, else leave or nap. *)

Runs(w, t) ==
  /\ stack' = [stack EXCEPT ![w] = <<[task |-> t, pos |-> 1]>>]
  /\ wpc' = [wpc EXCEPT ![w] = "busy"]
  /\ UNCHANGED at

PopOwn(w) ==
  /\ wpc[w] = "pop"
  /\ IF Empty(w)
     THEN /\ wpc' = [wpc EXCEPT ![w] = "scan"]
          /\ at' = [at EXCEPT ![w] = 0]
          /\ UNCHANGED <<deques, stack>>
     ELSE PopBottom(w) /\ Runs(w, Bottom(w))
  /\ UNCHANGED <<prog, outside, submitted, task, fault>>

Skips(w) ==
  /\ at' = [at EXCEPT ![w] = @ + 1]
  /\ UNCHANGED <<deques, wpc, stack>>

\* A worker that never looks at the others' deques.
ScanNobody(w) ==
  /\ wpc[w] = "scan" /\ at[w] < N
  /\ Skips(w)
  /\ UNCHANGED <<prog, outside, submitted, task, fault>>

Scan(w) ==
  LET v == at[w] IN
  /\ wpc[w] = "scan" /\ v < N
  /\ IF v = w THEN Skips(w) /\ UNCHANGED <<submitted, task, fault>>
     ELSE Touches({v},
            /\ IF Empty(v) THEN Skips(w) ELSE StealTop(v) /\ Runs(w, Top(v))
            /\ UNCHANGED <<submitted, task>>)
  /\ UNCHANGED <<prog, outside>>

LeaveOrNap(w) ==
  /\ wpc[w] = "scan" /\ at[w] = N
  /\ wpc' = [wpc EXCEPT ![w] = IF shutdown THEN "gone" ELSE "pop"]
  /\ UNCHANGED <<prog, outside, submitted, deques, at, stack, task, fault>>

-----------------------------------------------------------------------------
(* buraaq_runtime_init and buraaq_runtime_shutdown, loops over the workers *)

\* Called outright, or by the first buraaq_task_submit; a second call returns.
InitBegins ==
  /\ opc = "run" /\ ~ready
  /\ At(Outside, "init") \/ At(Outside, "submit")
  /\ opc' = "starting" /\ ci' = 0
  /\ shutdown' = FALSE /\ submitted' = 0
  /\ mem' = [w \in Workers |-> "raw"]
  /\ wpc' = [w \in Workers |-> "unborn"]
  /\ UNCHANGED <<prog, ready, deques, at, stack, task, fault>>

InitAgain ==
  /\ opc = "run" /\ ready /\ At(Outside, "init")
  /\ Advance(Outside)
  /\ UNCHANGED <<prog, outside, submitted, deques, wpc, at, task, fault>>

\* One round of the loop: the deque is made, then the worker's thread starts.
StartWorker ==
  /\ opc = "starting" /\ ci < N
  /\ mem' = [mem EXCEPT ![ci] = "live"]
  /\ head' = [head EXCEPT ![ci] = 0] /\ tail' = [tail EXCEPT ![ci] = 0]
  /\ wpc' = [wpc EXCEPT ![ci] = "pop"]
  /\ ci' = ci + 1
  /\ UNCHANGED <<prog, ready, shutdown, submitted, jobs, at, opc, stack, task,
                 fault>>

InitReturns ==
  /\ opc = "starting" /\ ci = N
  /\ ready' = TRUE /\ opc' = "run"
  /\ IF At(Outside, "init") THEN Advance(Outside) ELSE UNCHANGED stack
  /\ UNCHANGED <<prog, shutdown, submitted, deques, mem, wpc, at, ci, task,
                 fault>>

ShutdownBegins ==
  /\ opc = "run" /\ ready /\ At(Outside, "shutdown")
  /\ shutdown' = TRUE
  /\ opc' = "stopping" /\ ci' = 0
  /\ UNCHANGED <<prog, ready, submitted, deques, mem, wpc, at, stack, task,
                 fault>>

ShutdownNotReady ==
  /\ opc = "run" /\ ~ready /\ At(Outside, "shutdown")
  /\ Advance(Outside)
  /\ UNCHANGED <<prog, outside, submitted, deques, wpc, at, task, fault>>

\* A shutdown that frees the deques without waiting for the workers.
JoinNobody ==
  /\ opc = "stopping" /\ ci < N
  /\ mem' = [mem EXCEPT ![ci] = "freed"]
  /\ ci' = ci + 1
  /\ UNCHANGED <<prog, ready, shutdown, submitted, deques, wpc, at, opc, stack,
                 task, fault>>

\* pthread_join worker ci, then free its deque, the others still running.
JoinWorker ==
  /\ opc = "stopping" /\ ci < N
  /\ wpc[ci] = "gone"
  /\ mem' = [mem EXCEPT ![ci] = "freed"]
  /\ ci' = ci + 1
  /\ UNCHANGED <<prog, ready, shutdown, submitted, deques, wpc, at, opc, stack,
                 task, fault>>

ShutdownReturns ==
  /\ opc = "stopping" /\ ci = N /\ At(Outside, "shutdown")
  /\ ready' = FALSE /\ opc' = "run"
  /\ Advance(Outside)
  /\ UNCHANGED <<prog, shutdown, submitted, deques, mem, wpc, at, ci, task,
                 fault>>

-----------------------------------------------------------------------------
JobStep(th) == Submit(th) \/ Join(th) \/ JobReturns(th)

WorkerStep(w) ==
  fault = "none" /\ (JobStep(w) \/ PopOwn(w) \/ Scan(w) \/ LeaveOrNap(w))

OutsideStep ==
  /\ fault = "none"
  /\ \/ opc = "run" /\ JobStep(Outside)
     \/ InitBegins \/ InitAgain \/ StartWorker \/ InitReturns
     \/ ShutdownBegins \/ ShutdownNotReady \/ JoinWorker \/ ShutdownReturns

Next == OutsideStep \/ \E w \in Workers : WorkerStep(w)

(* Every thread is an OS thread that the scheduler keeps running. *)
Fairness == WF_vars(OutsideStep) /\ \A w \in Workers : WF_vars(WorkerStep(w))

Spec == Init /\ [][Next]_vars /\ Fairness

-----------------------------------------------------------------------------
(* Properties *)

Types ==
  /\ prog \in Programs
  /\ ready \in BOOLEAN /\ shutdown \in BOOLEAN /\ submitted \in Nat
  /\ jobs \in [Workers -> [0 .. DequeCap - 1 -> Tasks \cup {NoTask}]]
  /\ head \in [Workers -> 0 .. DequeCap - 1]
  /\ tail \in [Workers -> 0 .. DequeCap - 1]
  /\ mem \in [Workers -> {"raw", "live", "freed"}]
  /\ wpc \in [Workers -> {"unborn", "pop", "scan", "busy", "gone"}]
  /\ at \in [Workers -> 0 .. N]
  /\ opc \in {"run", "starting", "stopping"} /\ ci \in 0 .. N
  /\ stack \in [Threads -> Seq([task : Tasks \cup {Main}, pos : Nat \ {0}])]
  /\ task \in [Tasks -> {"none", "pending", "done", "freed"}]
  /\ fault \in {"none", "raw", "freed"}

\* The ring slots that hold the jobs of w's deque.
Occupied(w) ==
  LET Past(i) == (i - head[w] + DequeCap) % DequeCap
  IN {i \in 0 .. DequeCap - 1 : Past(i) < Past(tail[w])}

(* Every variable has its type, ring indices stay inside the ring, and     *)
(* what lies in a ring between head and tail is a task: a pop or a steal   *)
(* never runs an unwritten slot.                                           *)
TypeOK ==
  /\ Types
  /\ \A w \in Workers : \A i \in Occupied(w) : jobs[w][i] \in Tasks

Slots(t) == {s \in Workers \X (0 .. DequeCap - 1) :
               s[2] \in Occupied(s[1]) /\ jobs[s[1]][s[2]] = t}
Frames(t) == {f \in UNION {{th} \X DOMAIN stack[th] : th \in Threads} :
                stack[f[1]][f[2]].task = t}

(* A submitted job whose body has not returned is in exactly one place, a  *)
(* ring slot or a thread's stack, and every other task is in none: pushes, *)
(* pops, steals and inline runs neither lose a job nor run it twice.       *)
EachJobOnce ==
  \A t \in Tasks :
    Cardinality(Slots(t)) + Cardinality(Frames(t)) =
      IF task[t] = "pending" THEN 1 ELSE 0

(* The discipline the deques rely on: a task is submitted at one place,    *)
(* since a submit makes its own struct, and joined later in the same body, *)
(* with no shutdown in between.                                            *)
JoinsItsOwn(p) ==
  /\ \A b, c \in Tasks \cup {Main} : \A i \in DOMAIN p[b], j \in DOMAIN p[c] :
       p[b][i].op = "submit" /\ p[b][i] = p[c][j] => b = c /\ i = j
  /\ \A b \in Tasks \cup {Main} : \A i \in DOMAIN p[b] :
       p[b][i].op = "submit" =>
         \E j \in DOMAIN p[b] :
           /\ j > i /\ p[b][j] = [op |-> "join", task |-> p[b][i].task]
           /\ \A k \in i .. j : p[b][k].op # "shutdown"

(* When every task is joined by the body that submitted it, shutdown frees *)
(* no deque that still holds a job, and no worker has left with its own.   *)
StopsDrained ==
  \A w \in Workers : mem[w] = "freed" \/ wpc[w] = "gone" => Empty(w)

(* Seen from the tasks, the deques, the stealing and the inline runs are a *)
(* plain pool: each task runs once, is joined after it has finished, and a *)
(* parent outlives the children it joins.                                  *)
Status ==
  [t \in Tasks |->
     IF task[t] # "pending"
     THEN [none |-> "new", done |-> "done", freed |-> "joined"][task[t]]
     ELSE IF Frames(t) # {} THEN "running" ELSE "queued"]
Joins ==
  [t \in Tasks |-> {u \in Tasks : \E i \in DOMAIN prog[t] :
                      prog[t][i] = [op |-> "join", task |-> u]}]
Pool == INSTANCE TaskPool WITH status <- Status, children <- Joins
PoolSpec == Pool!Spec

MainDone ==
  /\ opc = "run"
  /\ stack[Outside] = <<[task |-> Main, pos |-> Len(prog[Main]) + 1]>>

(* Unless a dead deque is touched, every join and every shutdown returns   *)
(* and the program ends: jobs queued behind a worker that is blocked in a  *)
(* join are stolen from it.  It takes a worker that no join can block.     *)
MainReturns == <>(fault # "none" \/ MainDone)

(* A deque that does not exist is touched only while init or shutdown is   *)
(* at work on the workers: what init has not reached in its loop, what     *)
(* shutdown has freed in its own.  Between the two, and after a restart,   *)
(* every scan and every submit finds live deques.                          *)
FaultsAtEdges ==
  /\ fault = "raw" => opc = "starting"
  /\ fault = "freed" => opc = "stopping"

(* No worker reads the deque of one that init has not reached, and none    *)
(* locks a deque or a wake mutex that shutdown has destroyed.              *)
NeverTouchesDead == fault = "none"

(* A parent whose children are all submitted completes: whatever the depth *)
(* of the nesting and the number of workers, the program ends.             *)
NestedGroupsComplete == <>(fault # "none" \/ MainDone)
=============================================================================
