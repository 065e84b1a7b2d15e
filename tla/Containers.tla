----------------------------- MODULE Containers -----------------------------
(***************************************************************************)
(* The growable containers of stdlib/runtime/buraaq_rt.c, as functions on  *)
(* records: the vector, the linear map with its two parallel arrays, and   *)
(* the chained hash set.  None of them takes a lock.                       *)
(*                                                                         *)
(* An operation that may have to grow takes a `fate`, what the allocator   *)
(* does to it.  A cell holds an int or a text; which one is the caller's   *)
(* business, so cells are opaque here.  The copy of a key or of a text     *)
(* that an operation keeps is always made.                                 *)
(***************************************************************************)
EXTENDS Integers, Sequences, SequencesExt

CONSTANTS
  Zero,       \* what a read out of range, or of a missing key, gives
  FirstCap,   \* the first capacity of a vector or a map, 8 in the code
  Buckets,    \* the first number of buckets of a set, 64 in the code
  Hash        \* bq_hash of each key

ASSUME SizesAssumption == FirstCap \in Nat \ {0} /\ Buckets \in Nat \ {0}

\* The capacity after a growth.
Doubled(cap) == IF cap = 0 THEN FirstCap ELSE cap * 2

-----------------------------------------------------------------------------
(* buraaq_vec: fate is "grown" or "failed" *)

VecNew == [slots |-> <<>>, cap |-> 0]

VecFull(v) == Len(v.slots) >= v.cap

VecPush(v, x, fate) ==
  IF ~VecFull(v) THEN [v EXCEPT !.slots = Append(@, x)]
  ELSE IF fate = "grown"
       THEN [slots |-> Append(v.slots, x), cap |-> Doubled(v.cap)]
       ELSE v

InRange(v, i) == i >= 0 /\ i < Len(v.slots)

VecGet(v, i) == IF InRange(v, i) THEN v.slots[i + 1] ELSE Zero

VecSet(v, i, x) == IF InRange(v, i) THEN [v EXCEPT !.slots[i + 1] = x] ELSE v

-----------------------------------------------------------------------------
(* buraaq_map: keys and vals are two allocations, grown one after the other*)

MapNew == [keys |-> <<>>, vals |-> <<>>, cap |-> 0, dangling |-> {}]

\* The first index of the key, or -1.
MapFind(m, k) ==
  IF k \in ToSet(m.keys) THEN SelectInSeq(m.keys, LAMBDA x : x = k) - 1 ELSE -1

MapGrows(m, k) == MapFind(m, k) = -1 /\ Len(m.keys) >= m.cap

(* What map_grow may come to.  It reallocates both arrays before it looks  *)
(* at either result, and keeps neither pointer when one is null: an array  *)
(* whose reallocation succeeded has then been freed under its old pointer, *)
(* unless there was none yet or it stayed where it was.                    *)
MapFates(m, k) ==
  IF ~MapGrows(m, k) THEN {"fits"}
  ELSE {"grown", "failed"} \cup (IF m.cap = 0 THEN {} ELSE {"keys", "vals"})

\* buraaq_map_set_int and _set_text, with map_upsert.
MapSet(m, k, x, fate) ==
  LET i == MapFind(m, k) IN
  IF i >= 0 THEN [m EXCEPT !.vals[i + 1] = x]
  ELSE IF fate = "failed" THEN m
  ELSE IF fate \in {"keys", "vals"}
       THEN [m EXCEPT !.dangling = @ \cup {fate}]
  ELSE [m EXCEPT !.keys = Append(@, k), !.vals = Append(@, x),
                 !.cap = IF fate = "grown" THEN Doubled(@) ELSE @]

MapGet(m, k) ==
  LET i == MapFind(m, k) IN IF i >= 0 THEN m.vals[i + 1] ELSE Zero

\* A lookup reads the keys; a hit, and any growth, uses the values as well.
MapReadFaults(m, k) ==
  \/ "keys" \in m.dangling
  \/ "vals" \in m.dangling /\ MapFind(m, k) >= 0
MapWriteFaults(m, k) ==
  \/ "keys" \in m.dangling
  \/ "vals" \in m.dangling /\ (MapFind(m, k) >= 0 \/ MapGrows(m, k))

-----------------------------------------------------------------------------
(* buraaq_set: fate is "added", or "rehash failed", or "failed" for the    *)
(* node that could not be made                                             *)

\* In which order a chain links its keys nobody can tell: it is their set.
SetNew == [chains |-> [b \in 0 .. Buckets - 1 |-> {}], count |-> 0]

SetSize(s) == Cardinality(DOMAIN s.chains)

\* The hash modulo the number of buckets, a power of two times the first.
Bucket(k, size) == Hash[k] % size

SetHas(s, k) == k \in s.chains[Bucket(k, SetSize(s))]

SetMembers(s) == UNION {s.chains[b] : b \in DOMAIN s.chains}

\* Twice the buckets; every node of the old ones is linked anew.
SetRehash(s) ==
  LET size == 2 * SetSize(s) IN
  [s EXCEPT !.chains =
     [b \in 0 .. size - 1 |-> {k \in SetMembers(s) : Bucket(k, size) = b}]]

SetFull(s) == s.count >= SetSize(s)

\* 1 when the key was added, 0 when it was there or its node was not made.
SetAdd(s, k, fate) ==
  IF SetHas(s, k) THEN [set |-> s, answer |-> 0]
  ELSE LET t == IF SetFull(s) /\ fate # "rehash failed" THEN SetRehash(s) ELSE s
           b == Bucket(k, SetSize(t))
       IN IF fate = "failed" THEN [set |-> t, answer |-> 0]
          ELSE [set |-> [chains |-> [t.chains EXCEPT ![b] = @ \cup {k}],
                         count |-> t.count + 1],
                answer |-> 1]

\* buraaq_set_add_csv: every entry of the bag that is not empty, in its order.
SetAddAll(s, bag) ==
  LET after[i \in 0 .. Len(bag)] ==
        IF i = 0 THEN s
        ELSE IF bag[i] = Zero THEN after[i - 1]
        ELSE SetAdd(after[i - 1], bag[i], "added").set
  IN after[Len(bag)]
=============================================================================
