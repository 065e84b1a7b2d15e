---------------------------- MODULE FifoChannel ----------------------------
(***************************************************************************)
(* What a bounded, closable channel promises its callers, with no ring, no *)
(* mutex and no condition variable: a FIFO of at most Cap messages.  A     *)
(* call is invoked, later takes effect in one step and returns.            *)
(*   - a send appends while the channel is open and has room;              *)
(*   - a send on a closed channel returns -1 and appends nothing;          *)
(*   - a receive takes the oldest message, also after close;               *)
(*   - a receive returns -1 only when the channel is closed and drained.   *)
(***************************************************************************)
EXTENDS Integers, Sequences

CONSTANTS Threads, Messages, Cap, NoMsg

VARIABLES
  queue,    \* the messages accepted and not yet received, oldest first
  shut,     \* has the channel been closed
  call,     \* the call each thread is in, or NoCall
  ret       \* what each thread's last call returned, until its next call

vars == <<queue, shut, call, ret>>

NoCall == [op |-> "none", msg |-> NoMsg]

NoRet == [code |-> 0, msg |-> NoMsg]

Calls == [op : {"send"}, msg : Messages]
           \cup [op : {"recv", "close"}, msg : {NoMsg}]

Init ==
  /\ queue = <<>>
  /\ shut = FALSE
  /\ call = [t \in Threads |-> NoCall]
  /\ ret = [t \in Threads |-> NoRet]

Return(t, code, msg) ==
  /\ call' = [call EXCEPT ![t] = NoCall]
  /\ ret' = [ret EXCEPT ![t] = [code |-> code, msg |-> msg]]

Invoke(t) ==
  /\ call[t] = NoCall
  /\ \E c \in Calls : call' = [call EXCEPT ![t] = c]
  /\ ret' = [ret EXCEPT ![t] = NoRet]
  /\ UNCHANGED <<queue, shut>>

Put(t) ==
  /\ call[t].op = "send"
  /\ ~shut
  /\ Len(queue) < Cap
  /\ queue' = Append(queue, call[t].msg)
  /\ Return(t, 0, NoMsg)
  /\ UNCHANGED shut

Refuse(t) ==
  /\ call[t].op = "send"
  /\ shut
  /\ Return(t, -1, NoMsg)
  /\ UNCHANGED <<queue, shut>>

Take(t) ==
  /\ call[t].op = "recv"
  /\ queue # <<>>
  /\ queue' = Tail(queue)
  /\ Return(t, 0, Head(queue))
  /\ UNCHANGED shut

Drained(t) ==
  /\ call[t].op = "recv"
  /\ shut
  /\ queue = <<>>
  /\ Return(t, -1, NoMsg)
  /\ UNCHANGED <<queue, shut>>

Close(t) ==
  /\ call[t].op = "close"
  /\ shut' = TRUE
  /\ call' = [call EXCEPT ![t] = NoCall]
  /\ UNCHANGED <<queue, ret>>

Next ==
  \E t \in Threads :
    Invoke(t) \/ Put(t) \/ Refuse(t) \/ Take(t) \/ Drained(t) \/ Close(t)

Spec == Init /\ [][Next]_vars
=============================================================================
