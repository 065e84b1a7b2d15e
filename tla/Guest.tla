-------------------------------- MODULE Guest --------------------------------
(***************************************************************************)
(* What a Buraaq program does with threads: buraaq_thread_spawn and _join, *)
(* the int32 channel buraaq_chan_* of stdlib/runtime/buraaq_rt.c, the      *)
(* mutex of buraaq_std.c, and the containers of buraaq_rt.c, which the     *)
(* program shares under that mutex.                                        *)
(*                                                                         *)
(* A program is a sequence of runtime calls per thread; the calls between  *)
(* lock and unlock are steps of their own.  The channel's mutex is held    *)
(* from entry to return of a call but for the sleep, so one evaluation of  *)
(* its `while` test with what follows is a step, as in module Channel.     *)
(* There is no close: only a message ends the wait of a receiver.          *)
(*                                                                         *)
(* Allocation may fail where a caller cannot see it: a thread, a channel   *)
(* or a mutex that is not made, a container that cannot grow.  Using freed *)
(* memory is undefined, and so are two calls at once on one container,     *)
(* which takes no lock of its own: `fault` records it, nothing follows.    *)
(***************************************************************************)
EXTENDS Containers, FiniteSets, FiniteSetsExt

CONSTANTS
  Threads, Main,   \* Main spawns the others
  Keys,            \* what the program sends, and keys its containers with
  Capacity,        \* the argument of buraaq_chan_new
  Nobody,          \* the mutex is free
  Programs,        \* what each thread calls, in order
  MaxFail          \* bounds the allocations that fail

Values == Keys \cup {Zero}
\* A call names a thread, or a value it sends or seeds, or nothing.
Op == [op : {"spawn", "join"}, arg : Threads]
        \cup [op : {"send", "seed"}, arg : Values]
        \cup [op : {"recv", "lock", "unlock", "get", "put", "add", "push", "swap",
                    "destroy"}, arg : {Nobody}]

ASSUME ThreadsAssumption == IsFiniteSet(Threads)
ASSUME MainAssumption == Main \in Threads /\ Nobody \notin Threads
ASSUME ZeroAssumption == Zero \notin Keys /\ Hash \in [Values -> Nat]
ASSUME ProgramsAssumption == \A p \in Programs : p \in [Threads -> Seq(Op)]
ASSUME CapacityAssumption == Capacity \in Int /\ MaxFail \in Nat

\* buraaq_chan_new raises a capacity below one to one.
Cap == IF Capacity < 1 THEN 1 ELSE Capacity

VARIABLES
  prog,                     \* the program that runs
  made,                     \* did buraaq_chan_new return a channel
  buf, head, tail, count,   \* its ring
  state,     \* per thread: "unborn", "run", "ready", "asleep" or "done"
  pos,       \* per thread: the call it is at
  record,    \* per thread: its bq_thread record, "none", "null", "live", "freed"
  mutex,     \* who holds the program's mutex; "gone" once destroyed
  reg,       \* per thread: the value it last received
  read,      \* per thread: what it read from the map
  fresh,     \* per thread: what buraaq_set_add last answered
  ret,       \* per thread: the channel call that returned last
  vec, map, set,            \* the containers
  fails, lost,              \* history: failures so far, and whom they hurt
  fault

ring == <<buf, head, tail, count>>
locals == <<reg, read, fresh>>
heap == <<vec, map, set>>
vars == <<prog, made, ring, state, pos, record, mutex, locals, ret, heap, fails,
          lost, fault>>

NoRet == [code |-> 0, msg |-> Zero]

Init ==
  /\ prog \in Programs
  /\ made \in BOOLEAN /\ lost \in {{}, {"mutex"}}
  /\ fails = (IF made THEN 0 ELSE 1) + (IF lost = {} THEN 0 ELSE 1)
  /\ fails <= MaxFail
  /\ buf = [i \in 0 .. Cap - 1 |-> Zero]
  /\ head = 0 /\ tail = 0 /\ count = 0
  /\ state = [t \in Threads |-> IF t = Main THEN "run" ELSE "unborn"]
  /\ pos = [t \in Threads |-> 1]
  /\ record = [t \in Threads |-> "none"]
  /\ mutex = Nobody
  /\ reg = [t \in Threads |-> Zero]
  /\ read = [t \in Threads |-> 0]
  /\ fresh = [t \in Threads |-> 0]
  /\ ret = [t \in Threads |-> NoRet]
  /\ vec = VecNew /\ map = MapNew /\ set = SetNew
  /\ fault = "none"

-----------------------------------------------------------------------------
At(t, op) ==
  /\ fault = "none" /\ state[t] = "run"
  /\ pos[t] <= Len(prog[t]) /\ prog[t][pos[t]].op = op
Arg(t) == prog[t][pos[t]].arg
Past(t) == pos' = [pos EXCEPT ![t] = @ + 1]

MayFail(what) ==
  /\ fails < MaxFail
  /\ fails' = fails + 1 /\ lost' = lost \cup {what}

-----------------------------------------------------------------------------
(* Threads *)

\* buraaq_thread_spawn: a null record when the thread cannot be made.
Spawn(t) ==
  LET u == Arg(t) IN
  /\ At(t, "spawn") /\ state[u] = "unborn"
  /\ \/ /\ state' = [state EXCEPT ![u] = "run"]
        /\ record' = [record EXCEPT ![u] = "live"]
        /\ UNCHANGED <<fails, lost>>
     \/ /\ MayFail("thread")
        /\ record' = [record EXCEPT ![u] = "null"]
        /\ UNCHANGED state
  /\ Past(t)
  /\ UNCHANGED <<prog, made, ring, mutex, locals, ret, heap, fault>>

\* bq_thread_entry: the thread's function has returned.
Finish(t) ==
  /\ fault = "none" /\ state[t] = "run" /\ pos[t] > Len(prog[t])
  /\ state' = [state EXCEPT ![t] = "done"]
  /\ UNCHANGED <<prog, made, ring, pos, record, mutex, locals, ret, heap, fails,
                 lost, fault>>

\* A join that frees the record without waiting for the thread.
JoinAtOnce(t) ==
  LET u == Arg(t) IN
  /\ At(t, "join")
  /\ record[u] \in {"null", "live"}
  /\ record' = IF record[u] = "live" THEN [record EXCEPT ![u] = "freed"] ELSE record
  /\ Past(t)
  /\ UNCHANGED <<prog, made, ring, state, mutex, locals, ret, heap, fails, lost,
                 fault>>

\* buraaq_thread_join: a null record returns at once, a live one is waited
\* for and freed.
Join(t) ==
  LET u == Arg(t) IN
  /\ At(t, "join")
  /\ \/ record[u] = "null" /\ UNCHANGED record
     \/ /\ record[u] = "live" /\ state[u] = "done"
        /\ record' = [record EXCEPT ![u] = "freed"]
  /\ Past(t)
  /\ UNCHANGED <<prog, made, ring, state, mutex, locals, ret, heap, fails, lost,
                 fault>>

-----------------------------------------------------------------------------
(* The mutex.  One that buraaq_mutex_new could not make is null, and every *)
(* call on it returns at once.                                             *)

NoMutex == "mutex" \in lost

\* A lock that takes the mutex whoever holds it.
LockAnyway(t) ==
  /\ At(t, "lock")
  /\ mutex' = t
  /\ Past(t)
  /\ UNCHANGED <<prog, made, ring, state, record, locals, ret, heap, fails, lost,
                 fault>>

Lock(t) ==
  /\ At(t, "lock")
  /\ IF NoMutex THEN UNCHANGED mutex ELSE mutex = Nobody /\ mutex' = t
  /\ Past(t)
  /\ UNCHANGED <<prog, made, ring, state, record, locals, ret, heap, fails, lost,
                 fault>>

Unlock(t) ==
  /\ At(t, "unlock")
  /\ IF NoMutex THEN UNCHANGED mutex ELSE mutex' = Nobody
  /\ Past(t)
  /\ UNCHANGED <<prog, made, ring, state, record, locals, ret, heap, fails, lost,
                 fault>>

\* Who still has business with the mutex.
Users == {t \in Threads :
            /\ state[t] \in {"run", "ready", "asleep"} /\ t # Main
            /\ \E i \in pos[t] .. Len(prog[t]) : prog[t][i].op \in {"lock", "unlock"}}

\* buraaq_mutex_free destroys the mutex and releases its memory unasked.
Destroy(t) ==
  /\ At(t, "destroy")
  /\ IF NoMutex THEN Past(t) /\ UNCHANGED <<mutex, fault>>
     ELSE IF mutex # Nobody \/ Users # {}
     THEN fault' = "mutex" /\ UNCHANGED <<mutex, pos>>
     ELSE mutex' = "gone" /\ Past(t) /\ UNCHANGED fault
  /\ UNCHANGED <<prog, made, ring, state, record, locals, ret, heap, fails, lost>>

-----------------------------------------------------------------------------
(* bq_chan *)

In(op, st) == {t \in Threads : state[t] = st /\ prog[t][pos[t]].op = op}

\* With no channel a send answers 0 and a receive gives 0, at once.
NoChannel(t) ==
  /\ At(t, "send") \/ At(t, "recv")
  /\ ~made
  /\ reg' = IF At(t, "recv") THEN [reg EXCEPT ![t] = Zero] ELSE reg
  /\ Past(t)
  /\ UNCHANGED <<prog, made, ring, state, record, mutex, read, fresh, ret, heap,
                 fails, lost, fault>>

Enter(t) ==
  /\ At(t, "send") \/ At(t, "recv")
  /\ made
  /\ state' = [state EXCEPT ![t] = "ready"]
  /\ ret' = [ret EXCEPT ![t] = NoRet]
  /\ UNCHANGED <<prog, made, ring, pos, record, mutex, locals, heap, fails, lost,
                 fault>>

Holds(t, op) == fault = "none" /\ state[t] = "ready" /\ prog[t][pos[t]].op = op

Slot(i) == (i + 1) % Cap

\* A call that returns and wakes nobody.
SignalNobody(t, op) == state' = [state EXCEPT ![t] = "run"]

\* pthread_cond_signal on what the calls named op sleep on, while t returns.
Signal(t, op) ==
  IF In(op, "asleep") = {} THEN state' = [state EXCEPT ![t] = "run"]
  ELSE \E u \in In(op, "asleep") :
         state' = [state EXCEPT ![t] = "run", ![u] = "ready"]

Sleep(t) ==
  /\ state' = [state EXCEPT ![t] = "asleep"]
  /\ UNCHANGED <<prog, made, ring, pos, record, mutex, locals, ret, heap, fails,
                 lost, fault>>

\* An off-by-one in the loop test.
FullOffByOne == count > Cap

Full == count >= Cap

SendWaits(t) == Holds(t, "send") /\ Full /\ Sleep(t)

SendStores(t) ==
  /\ Holds(t, "send") /\ ~Full
  /\ buf' = [buf EXCEPT ![tail] = Arg(t)]
  /\ tail' = Slot(tail) /\ count' = count + 1
  /\ Signal(t, "recv")
  /\ Past(t)
  /\ UNCHANGED <<prog, made, head, record, mutex, locals, ret, heap, fails, lost,
                 fault>>

RecvWaits(t) == Holds(t, "recv") /\ count = 0 /\ Sleep(t)

\* A receive that leaves head where it was.
RecvKeepsHead(t) ==
  /\ Holds(t, "recv") /\ count # 0
  /\ reg' = [reg EXCEPT ![t] = buf[head]]
  /\ ret' = [ret EXCEPT ![t] = [code |-> 0, msg |-> buf[head]]]
  /\ count' = count - 1
  /\ Signal(t, "send")
  /\ Past(t)
  /\ UNCHANGED <<prog, made, buf, head, tail, record, mutex, read, fresh, heap,
                 fails, lost, fault>>

RecvTakes(t) ==
  /\ Holds(t, "recv") /\ count # 0
  /\ reg' = [reg EXCEPT ![t] = buf[head]]
  /\ ret' = [ret EXCEPT ![t] = [code |-> 0, msg |-> buf[head]]]
  /\ head' = Slot(head) /\ count' = count - 1
  /\ Signal(t, "send")
  /\ Past(t)
  /\ UNCHANGED <<prog, made, buf, tail, record, mutex, read, fresh, heap, fails,
                 lost, fault>>

\* pthread_cond_wait may return without a signal.
SpuriousWakeup(t) ==
  /\ fault = "none" /\ state[t] = "asleep"
  /\ state' = [state EXCEPT ![t] = "ready"]
  /\ UNCHANGED <<prog, made, ring, pos, record, mutex, locals, ret, heap, fails,
                 lost, fault>>

-----------------------------------------------------------------------------
(* The containers, used on the value last received.  A call on one takes   *)
(* several steps and no lock: while another call on it goes on as well,    *)
(* one of them a write, anything may come of it.                           *)

\* The container a thread is about to use.
Uses(t, c) ==
  \/ c = "map" /\ (At(t, "get") \/ At(t, "put"))
  \/ c = "set" /\ (At(t, "add") \/ At(t, "seed"))
  \/ c = "vec" /\ ((At(t, "push") /\ fresh[t] # 0) \/ At(t, "swap"))

\* The two calls meet.
Race(t) ==
  /\ \E u \in Threads \ {t}, c \in {"map", "set", "vec"} :
       Uses(t, c) /\ Uses(u, c) /\ ~At(t, "get")
  /\ fault' = "race"
  /\ UNCHANGED <<prog, made, ring, state, pos, record, mutex, locals, ret, heap,
                 fails, lost>>

\* What follows is a call that no other one meets.

Fault == fault' = "map" /\ UNCHANGED <<pos, read, map, fails, lost>>

\* buraaq_map_get_int; an int that is missing reads as 0.
Get(t) ==
  /\ At(t, "get")
  /\ IF MapReadFaults(map, reg[t]) THEN Fault
     ELSE /\ read' = [read EXCEPT ![t] =
                        IF MapFind(map, reg[t]) = -1 THEN 0 ELSE MapGet(map, reg[t])]
          /\ Past(t)
          /\ UNCHANGED <<map, fails, lost, fault>>
  /\ UNCHANGED <<prog, made, ring, state, record, mutex, reg, fresh, ret, vec, set>>

\* buraaq_map_set_int of what was read plus one.
Put(t) ==
  /\ At(t, "put")
  /\ IF MapWriteFaults(map, reg[t]) THEN Fault
     ELSE /\ \E fate \in MapFates(map, reg[t]) :
               /\ map' = MapSet(map, reg[t], read[t] + 1, fate)
               /\ IF fate \in {"fits", "grown"} THEN UNCHANGED <<fails, lost>>
                  ELSE MayFail(IF fate = "failed" THEN "map" ELSE "half")
          /\ Past(t)
          /\ UNCHANGED <<read, fault>>
  /\ UNCHANGED <<prog, made, ring, state, record, mutex, reg, fresh, ret, vec, set>>

Add(t) ==
  /\ At(t, "add")
  /\ \E fate \in {"added", "rehash failed", "failed"} :
       LET r == SetAdd(set, reg[t], fate) IN
       /\ set' = r.set
       /\ fresh' = [fresh EXCEPT ![t] = r.answer]
       /\ CASE fate = "added" -> UNCHANGED <<fails, lost>>
            [] fate = "failed" -> ~SetHas(set, reg[t]) /\ MayFail("set")
            [] OTHER -> SetFull(set) /\ ~SetHas(set, reg[t]) /\ MayFail("rehash")
  /\ Past(t)
  /\ UNCHANGED <<prog, made, ring, state, record, mutex, reg, read, ret, vec, map,
                 fault>>

\* The program lists what was new to the set: buraaq_vec_push_int.
Push(t) ==
  /\ At(t, "push")
  /\ IF fresh[t] = 0 THEN UNCHANGED <<vec, fails, lost>>
     ELSE \E fate \in {"grown", "failed"} :
            /\ vec' = VecPush(vec, reg[t], fate)
            /\ IF fate = "grown" THEN UNCHANGED <<fails, lost>>
               ELSE VecFull(vec) /\ MayFail("vec")
  /\ Past(t)
  /\ UNCHANGED <<prog, made, ring, state, record, mutex, locals, ret, map, set,
                 fault>>

\* buraaq_set_add_csv of a bag of two entries, one of them empty.
Seed(t) ==
  /\ At(t, "seed")
  /\ set' = SetAddAll(set, <<Zero, Arg(t)>>)
  /\ Past(t)
  /\ UNCHANGED <<prog, made, ring, state, record, mutex, locals, ret, vec, map,
                 fails, lost, fault>>

\* The list's ends change places: buraaq_vec_get_int and _set_int, on an empty
\* list out of range.
Swap(t) ==
  LET n == Len(vec.slots) - 1 IN
  /\ At(t, "swap")
  /\ vec' = VecSet(VecSet(vec, 0, VecGet(vec, n)), n, VecGet(vec, 0))
  /\ Past(t)
  /\ UNCHANGED <<prog, made, ring, state, record, mutex, locals, ret, map, set,
                 fails, lost, fault>>

-----------------------------------------------------------------------------
Call(t) ==
  \/ Spawn(t) \/ Join(t) \/ Finish(t)
  \/ Lock(t) \/ Unlock(t) \/ Destroy(t)
  \/ NoChannel(t) \/ Enter(t)
  \/ SendWaits(t) \/ SendStores(t) \/ RecvWaits(t) \/ RecvTakes(t)
  \/ Get(t) \/ Put(t) \/ Add(t) \/ Push(t) \/ Seed(t) \/ Swap(t)

Next == \E t \in Threads : Call(t) \/ SpuriousWakeup(t) \/ Race(t)

(* Every thread is an OS thread that the scheduler keeps running, and it   *)
(* gets a mutex that is free for good.                                     *)
Spec == Init /\ [][Next]_vars /\ \A t \in Threads : WF_vars(Call(t))

-----------------------------------------------------------------------------
(* Properties *)

\* Every variable has its type; a thread inside a channel call is at a send
\* or a receive, and nobody else's record is live before it was spawned.
TypeOK ==
  /\ prog \in Programs /\ made \in BOOLEAN
  /\ buf \in [0 .. Cap - 1 -> Values]
  /\ head \in 0 .. Cap - 1 /\ tail \in 0 .. Cap - 1 /\ count \in 0 .. Cap
  /\ state \in [Threads -> {"unborn", "run", "ready", "asleep", "done"}]
  /\ pos \in [Threads -> Nat \ {0}]
  /\ record \in [Threads -> {"none", "null", "live", "freed"}]
  /\ mutex \in Threads \cup {Nobody, "gone"}
  /\ reg \in [Threads -> Values] /\ ret \in [Threads -> [code : {0}, msg : Values]]
  /\ fails \in 0 .. MaxFail
  /\ \A t \in Threads :
       state[t] \in {"ready", "asleep"} =>
         pos[t] <= Len(prog[t]) /\ prog[t][pos[t]].op \in {"send", "recv"}

\* The messages of the ring, oldest first.
Contents == [i \in 1 .. count |-> buf[(head + i - 1) % Cap]]

InCall ==
  [t \in Threads |->
     IF state[t] \in {"ready", "asleep"}
     THEN LET o == prog[t][pos[t]] IN
          [op |-> o.op, msg |-> IF o.op = "send" THEN o.arg ELSE Zero]
     ELSE [op |-> "none", msg |-> Zero]]

(* bq_chan is a bounded FIFO that is never closed: no message is lost,     *)
(* duplicated or reordered on its way between the threads of a program.    *)
(* (buraaq_chan_send, buraaq_chan_recv)                                    *)
Fifo == INSTANCE FifoChannel WITH
          Messages <- Values, NoMsg <- Zero,
          queue <- Contents, shut <- FALSE, call <- InCall
FifoSpec == Fifo!Spec

(* One signal per store and per take is enough: while a receiver sleeps at *)
(* least as many receivers are on their way as there are messages, and the *)
(* same for senders and free slots. (buraaq_chan_send, buraaq_chan_recv)   *)
NoLostWakeup ==
  /\ In("recv", "asleep") # {} => count <= Cardinality(In("recv", "ready"))
  /\ In("send", "asleep") # {} => Cap - count <= Cardinality(In("send", "ready"))

\* The updates of the map that the threads have put behind them.
Updates(t) == Cardinality({i \in 1 .. pos[t] - 1 : prog[t][i].op = "put"})

\* Is the i-th of the calls made between a lock and the unlock?
Locked(calls, i) ==
  \E j \in 1 .. i - 1 :
    calls[j].op = "lock" /\ \A k \in j + 1 .. i - 1 : calls[k].op # "unlock"

\* The calls that use a container, or end such use.
UnderLock == {"get", "put", "add", "seed", "push", "swap", "unlock"}

\* The program uses its containers under its lock, unlocks only what it has
\* locked, writes to the map what it has just read there, and lists what it
\* has just added.
Orderly(p) ==
  \A t \in Threads : \A i \in 1 .. Len(p[t]) :
    LET follows(op) == i > 1 /\ p[t][i - 1].op = op IN
    /\ p[t][i].op \in UnderLock => Locked(p[t], i)
    /\ p[t][i].op = "put" => follows("get")
    /\ p[t][i].op = "push" => follows("add")

(* The containers keep the books of an orderly program that has its mutex, *)
(* whatever the threads' order: no two calls meet in one of them; a        *)
(* failure to grow aside, the map's counts add up to the updates made,     *)
(* none of them overwritten by another thread; the set answers 1 once per  *)
(* key, so that the vector lists each key once; the map has one entry per  *)
(* key, the set finds its keys after every rehash, and freed memory is     *)
(* used only once the second of the map's two reallocations has failed.    *)
(* (map_upsert, map_grow, set_rehash, buraaq_set_add, vec_grow)            *)
Books ==
  Orderly(prog) /\ ~NoMutex =>
    /\ fault # "race"
    /\ lost \cap {"map", "half"} = {} =>
         FoldSeq(LAMBDA a, b : a + b, 0, map.vals) = MapThenSumSet(Updates, Threads)
    /\ IsInjective(vec.slots) /\ ToSet(vec.slots) \subseteq SetMembers(set)
    /\ IsInjective(map.keys) /\ Len(map.keys) = Len(map.vals)
    /\ set.count = Cardinality(SetMembers(set))
    /\ \A k \in SetMembers(set) : SetHas(set, k)
    /\ fault = "map" => "half" \in lost

(* A program whose receives are matched by sends comes to its end, and the *)
(* mutex it then destroys has no user left: nobody sleeps over a message,  *)
(* misses the unlock, or joins for ever.  A thread that could not be made  *)
(* is the exception: what it was to send never comes; and so are broken    *)
(* containers, which takes a failed growth or a mutex that was not made.   *)
(* (buraaq_thread_join, buraaq_chan_recv, which has no close)              *)
Ends == <>(state[Main] = "done" \/ "thread" \in lost \/ fault \in {"map", "race"})
=============================================================================
