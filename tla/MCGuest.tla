------------------------------- MODULE MCGuest -------------------------------
(* A producer and two consumers that count, deduplicate and list what they *)
(* receive, with as many keys as make every container grow twice.          *)
EXTENDS Guest, TLC

CONSTANTS k1, k2, k3, main, w1, w2

Do(op) == <<[op |-> op, arg |-> Nobody]>>
On(op, x) == <<[op |-> op, arg |-> x]>>

Alone(calls) == Do("lock") \o calls \o Do("unlock")
Handle == Do("recv") \o Alone(Do("get") \o Do("put") \o Do("add") \o Do("push"))

\* Main feeds both consumers through a channel of one slot.
Fed ==
  (main :> Alone(On("seed", k3)) \o On("spawn", w1) \o On("spawn", w2)
             \o On("send", k1) \o On("send", k2) \o On("send", k3) \o On("send", k1)
             \o On("join", w1) \o On("join", w2) \o Alone(Do("swap")) \o Do("destroy")) @@
  (w1 :> Handle \o Handle) @@ (w2 :> Handle \o Handle)

\* A worker sends what main and the other worker handle.
Relay ==
  (main :> On("spawn", w1) \o On("spawn", w2) \o Handle \o Handle
             \o On("join", w1) \o On("join", w2) \o Alone(Do("swap")) \o Do("destroy")) @@
  (w1 :> On("send", k1) \o On("send", k2) \o On("send", k3)) @@
  (w2 :> Handle)

Given == {Fed, Relay}
Hashed == (Zero :> 0) @@ (k1 :> 1) @@ (k2 :> 3) @@ (k3 :> 2)
=============================================================================
