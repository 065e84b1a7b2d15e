---------------------------- MODULE LengthCache ----------------------------
(***************************************************************************)
(* The string-length cache of stdlib/runtime/buraaq_rt.c that every text   *)
(* operation of buraaq_std.c reads through buraaq_length_of: a fixed table *)
(* of (pointer, length) pairs, with no lock, emptied by every release.     *)
(*                                                                         *)
(* A string is an address and the length that strlen finds there.  The     *)
(* memory allocator may hand a released address out again.  A thread's     *)
(* walk over the table is one step per pointer read, and the two stores of *)
(* a table entry are two steps, as in the code; the walk that picks the    *)
(* slot to give up, and the wiping loop, are one step each.                *)
(***************************************************************************)
EXTENDS Integers, FiniteSets

CONSTANTS
  Threads,
  Addresses,   \* where a string can live
  Null,        \* the null pointer
  Slots,       \* entries of the table, BQ_LEN_SLOTS in the code
  MaxLen       \* a bound on the strings' lengths

ASSUME SlotsAssumption == Slots \in Nat \ {0}
ASSUME MaxLenAssumption == MaxLen \in Nat
ASSUME NullAssumption == Null \notin Addresses

Table == 0 .. Slots - 1
Lengths == 0 .. MaxLen
Dead == -1      \* no string lives at the address
None == -2      \* nothing was answered

VARIABLES
  heap,       \* address -> the length of the string there, or Dead
  ptr, val,   \* g_len_ptr and g_len_val
  pc,         \* each thread's place in buraaq_length_of
  arg,        \* the string it measures
  i,          \* the slot its walk is at, later the slot it stores to
  n,          \* the length it found
  answer,     \* what its last call returned, until its next one
  seen        \* history: the strings measured since the last wipe

locals == <<pc, arg, i, n, answer>>
vars == <<heap, ptr, val, locals, seen>>

Init ==
  /\ heap = [a \in Addresses |-> Dead]
  /\ ptr = [k \in Table |-> Null]
  /\ val = [k \in Table |-> 0]
  /\ pc = [t \in Threads |-> "out"]
  /\ arg = [t \in Threads |-> Null]
  /\ i = [t \in Threads |-> 0]
  /\ n = [t \in Threads |-> 0]
  /\ answer = [t \in Threads |-> None]
  /\ seen = {}

Alive == {a \in Addresses : heap[a] # Dead}
InUse(a) == \E t \in Threads : pc[t] # "out" /\ arg[t] = a

-----------------------------------------------------------------------------
(* A thread that is not measuring makes, grows and releases strings. *)

\* buraaq_text_concat and the other makers of text: malloc, then fill.
Make(t, a) ==
  /\ pc[t] = "out" /\ heap[a] = Dead
  /\ \E len \in Lengths : heap' = [heap EXCEPT ![a] = len]
  /\ UNCHANGED <<ptr, val, locals, seen>>

\* A release, or a growth, that leaves the table alone.
ForgetNothing == UNCHANGED <<ptr, val, seen>>

\* buraaq_forget_length.
Forget ==
  /\ ptr' = [k \in Table |-> Null]
  /\ val' = [k \in Table |-> 0]
  /\ seen' = {}

\* bq_free.  Ownership: nobody is measuring a string that is released.
Release(t, a) ==
  /\ pc[t] = "out" /\ heap[a] # Dead /\ ~InUse(a)
  /\ Forget
  /\ heap' = [heap EXCEPT ![a] = Dead]
  /\ UNCHANGED locals

\* bq_realloc to a longer text, at the same address or at a free one.
Grow(t, a, b) ==
  /\ pc[t] = "out" /\ heap[a] # Dead /\ ~InUse(a)
  /\ b = a \/ heap[b] = Dead
  /\ Forget
  /\ \E len \in heap[a] .. MaxLen :
       heap' = [heap EXCEPT ![a] = Dead, ![b] = len]
  /\ UNCHANGED locals

-----------------------------------------------------------------------------
(* buraaq_length_of *)

Call(t, a) ==
  /\ pc[t] = "out" /\ heap[a] # Dead
  /\ pc' = [pc EXCEPT ![t] = "walk"]
  /\ arg' = [arg EXCEPT ![t] = a]
  /\ i' = [i EXCEPT ![t] = 0]
  /\ answer' = [answer EXCEPT ![t] = None]
  /\ UNCHANGED <<heap, ptr, val, n, seen>>

\* A null text has length 0 and leaves the table alone.
CallNull(t) ==
  /\ pc[t] = "out"
  /\ answer' = [answer EXCEPT ![t] = 0]
  /\ arg' = [arg EXCEPT ![t] = Null]
  /\ UNCHANGED <<heap, ptr, val, pc, i, n, seen>>

Walk(t) ==
  /\ pc[t] = "walk" /\ i[t] < Slots
  /\ IF ptr[i[t]] = arg[t]
     THEN pc' = [pc EXCEPT ![t] = "hit"] /\ UNCHANGED i
     ELSE i' = [i EXCEPT ![t] = @ + 1] /\ UNCHANGED pc
  /\ UNCHANGED <<heap, ptr, val, arg, n, answer, seen>>

Return(t, len) ==
  /\ answer' = [answer EXCEPT ![t] = len]
  /\ pc' = [pc EXCEPT ![t] = "out"]

Hit(t) ==
  /\ pc[t] = "hit"
  /\ Return(t, val[i[t]])
  /\ UNCHANGED <<heap, ptr, val, arg, i, n, seen>>

Vacant == {k \in Table : ptr[k] = Null}
First(S) == CHOOSE k \in S : \A l \in S : k <= l

\* A slot given up whatever it holds.
FirstSlot == 0

\* The first vacant slot, or else the first of those with the shortest string.
Weakest ==
  IF Vacant # {} THEN First(Vacant)
  ELSE First({k \in Table : \A l \in Table : val[k] <= val[l]})

\* A measure that counts the terminator.
LenWithNul(a) == heap[a] + 1

StrLen(a) == heap[a]

\* A miss measures, and stores only in place of a shorter string.
Miss(t) ==
  LET w == Weakest
      len == StrLen(arg[t])
  IN /\ pc[t] = "walk" /\ i[t] = Slots
     /\ n' = [n EXCEPT ![t] = len]
     /\ i' = [i EXCEPT ![t] = w]
     /\ seen' = seen \cup {arg[t]}
     /\ IF ptr[w] = Null \/ val[w] < len
        THEN pc' = [pc EXCEPT ![t] = "store"] /\ UNCHANGED answer
        ELSE Return(t, len)
     /\ UNCHANGED <<heap, ptr, val, arg>>

StorePtr(t) ==
  /\ pc[t] = "store"
  /\ ptr' = [ptr EXCEPT ![i[t]] = arg[t]]
  /\ pc' = [pc EXCEPT ![t] = "fill"]
  /\ UNCHANGED <<heap, val, arg, i, n, answer, seen>>

StoreVal(t) ==
  /\ pc[t] = "fill"
  /\ val' = [val EXCEPT ![i[t]] = n[t]]
  /\ Return(t, n[t])
  /\ UNCHANGED <<heap, ptr, arg, i, n, seen>>

Measuring(t) == Walk(t) \/ Hit(t) \/ Miss(t) \/ StorePtr(t) \/ StoreVal(t)

Next ==
  \E t \in Threads :
    \/ CallNull(t) \/ Measuring(t)
    \/ \E a \in Addresses : Make(t, a) \/ Release(t, a) \/ Call(t, a)
    \/ \E a, b \in Addresses : Grow(t, a, b)

Spec == Init /\ [][Next]_vars

-----------------------------------------------------------------------------
(* Properties *)

\* Every variable has its type; a thread in the middle of a call measures a
\* live string, and its index is a slot once it has chosen one.
TypeOK ==
  /\ heap \in [Addresses -> Lengths \cup {Dead}]
  /\ ptr \in [Table -> Addresses \cup {Null}] /\ val \in [Table -> Lengths]
  /\ pc \in [Threads -> {"out", "walk", "hit", "store", "fill"}]
  /\ arg \in [Threads -> Addresses \cup {Null}]
  /\ i \in [Threads -> 0 .. Slots] /\ n \in [Threads -> Lengths]
  /\ answer \in [Threads -> Lengths \cup {None}]
  /\ seen \in SUBSET Addresses
  /\ \A t \in Threads :
       pc[t] # "out" => /\ arg[t] \in Alive
                        /\ pc[t] # "walk" => i[t] \in Table

(* The table never answers for a string that no longer lives, or has       *)
(* grown, at a remembered address: whatever was freed, reallocated and     *)
(* made anew there, an entry at rest tells the length strlen would find.   *)
RememberedIsCurrent ==
  \A k \in Table :
    (ptr[k] # Null /\ ~\E t \in Threads : pc[t] = "fill" /\ i[t] = k)
       => ptr[k] \in Alive /\ val[k] = heap[ptr[k]]

(* buraaq_length_of answers what strlen would, at the moment it returns.   *)
AnswersRight ==
  [][\A t \in Threads :
       answer'[t] \notin {None, answer[t]} /\ arg'[t] # Null
         => answer'[t] = heap[arg[t]]]_vars

(* The longest strings stay: among the strings measured since the last     *)
(* wipe, none outside the table is longer than one inside it, and none is  *)
(* outside while a slot is vacant.                                         *)
LongestRemembered ==
  (\A t \in Threads : pc[t] \in {"out", "walk", "hit"}) =>
    \A a \in seen \ {ptr[k] : k \in Table} :
      \A k \in Table : ptr[k] # Null /\ heap[a] <= val[k]
=============================================================================
